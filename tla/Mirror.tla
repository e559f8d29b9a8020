------------------------------- MODULE Mirror -------------------------------
(***************************************************************************)
(* What the Viewer promises whoever reads the phone, with no queue, no     *)
(* turn and no part in it: what is shown of a record is a state the store  *)
(* really brought it to, and only ever moves on to a later one, until a    *)
(* new server is stood up, which shows nothing.  Viewer.tla implements     *)
(* this specification.                                                     *)
(*                                                                         *)
(* A record's state is named by the number of the change that made it.     *)
(***************************************************************************)
EXTENDS Naturals, Sequences

CONSTANT Records

VARIABLES
  made,    \* the record each change was made to, in the order they were
  there    \* record -> the change it is shown at, 0 where it never was

mvars == <<made, there>>

Nothing == [r \in Records |-> 0]

Init ==
  /\ made = <<>>
  /\ there = Nothing

Change ==
  /\ \E r \in Records : made' = Append(made, r)
  /\ UNCHANGED there

\* Any number of records are shown as a later change left them.
Show ==
  /\ there' = [r \in Records |-> there'[r]]
  /\ \A r \in Records :
       there'[r] = there[r]
         \/ \E n \in 1..Len(made) : n > there[r] /\ made[n] = r /\ there'[r] = n
  /\ UNCHANGED made

StandUp ==
  /\ there' = Nothing
  /\ UNCHANGED made

Next == Change \/ Show \/ StandUp

Spec == Init /\ [][Next]_mvars
=============================================================================
