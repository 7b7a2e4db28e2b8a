------------------------------ MODULE MCDayPlan ------------------------------
(* Values for TLC: two windows of the first day that end together, one of     *)
(* them with a deadline on the next day.                                      *)
EXTENDS DayPlan, TLC

MCShapes == {<<0, 2, NoTime>>, <<1, 2, 6>>}

MCCalls == {}

=============================================================================
