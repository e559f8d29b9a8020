--------------------------- MODULE MCAutomationRun ---------------------------
(***************************************************************************)
(* AutomationRun for TLC: take, work and check inside one action that      *)
(* takes one run at a time, then close; a check may send the work back     *)
(* once, and the work may hand the task back to a person.                  *)
(***************************************************************************)
EXTENDS AutomationRun, TLC

CONSTANTS t1, t2, none

Symm == Permutations({t1, t2})

MCSpots == {"take", "work", "check", "close", "back"}
MCExits == {"done", "again", "error"}

MCKind == [s \in MCSpots |->
  CASE s = "take" -> "take" [] s = "close" -> "close" [] s = "back" -> "hand_back" [] OTHER -> "agent"]

MCActionOf == [s \in MCSpots |-> IF s = "check" THEN "work" ELSE s]

Go(to, stays, limit) == [ends |-> "go", to |-> to, stays |-> stays, limit |-> limit]
Ends(how) == [ends |-> how, to |-> "take", stays |-> FALSE, limit |-> 0]

MCLine == [s \in MCSpots |-> [e \in MCExits |->
  CASE s = "take"  /\ e = "done"  -> Go("work", FALSE, 0)
    [] s = "work"  /\ e = "done"  -> Go("check", TRUE, 0)
    [] s = "work"  /\ e = "again" -> Go("back", FALSE, 0)
    [] s = "check" /\ e = "done"  -> Go("close", FALSE, 0)
    [] s = "check" /\ e = "again" -> Go("work", TRUE, 1)
    [] s = "back"  /\ e = "done"  -> Go("take", FALSE, 0)
    [] s = "close" /\ e = "done"  -> Ends("done")
    [] OTHER -> Ends("halt")]]
=============================================================================
