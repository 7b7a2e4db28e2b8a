-------------------------- MODULE MCStateQuestions --------------------------
(* Values for TLC: windows that touch, one with a deadline after its end, and *)
(* a deadline without a window.                                              *)
EXTENDS StateQuestions, TLC

TitleSymmetry == Permutations(Title)

MCShapes == {<<0, 1, 2>>, <<1, 2, NoTime>>, <<NoTime, NoTime, 1>>}

MCCalls == {}

=============================================================================
