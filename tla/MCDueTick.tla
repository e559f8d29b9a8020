------------------------------ MODULE MCDueTick ------------------------------
(***************************************************************************)
(* DueTick for TLC: two days, so that a tick that started before midnight  *)
(* ends after it; one instant a day, before, while and after a tick reads; *)
(* one tick run by hand beside the timer's, and one fault.                 *)
(* MCDueEachDay.cfg asks of one day what due.rs says of the warning.       *)
(***************************************************************************)
EXTENDS DueTick

CONSTANTS timer, byhand, t1

MCDeadlines ==
  {[day |-> d, at |-> m] : d \in 1..LastDay, m \in 0..Moments}
    \cup {[day |-> d, at |-> Moments] : d \in {NoDay, LastDay + 1}}
=============================================================================
