------------------------------ MODULE EventLog ------------------------------
(***************************************************************************)
(* What the observation outbox promises, with no table, no cursor and no   *)
(* process in it: every event a committed write fired is carried out       *)
(* exactly once, in the order the events fired, whichever face got there   *)
(* first.  An event whose name this build does not know is passed over.    *)
(* Outbox.tla implements this specification.                               *)
(***************************************************************************)
EXTENDS Integers, Sequences, Functions

VARIABLES
  fired,    \* how many events committed writes have fired
  known,    \* the ones among 1..fired that name an event this build knows
  walked,   \* how many of them a walk has passed
  out       \* the known ones a walk carried out, in the order it did

evars == <<fired, known, walked, out>>

\* Nothing can be carried twice or out of order in a strictly rising sequence.
Rising(s) == \A i, j \in 1..Len(s) : i < j => s[i] < s[j]

Init ==
  /\ fired = 0
  /\ known = {}
  /\ walked = 0
  /\ out = <<>>

\* A write commits, and its events with it.
Fire ==
  /\ fired' > fired
  /\ known' \cap 1..fired = known
  /\ known' \subseteq 1..fired'
  /\ UNCHANGED <<walked, out>>

\* A walk commits: it passes everything that has fired.
Carry ==
  /\ walked < fired
  /\ walked' = fired
  /\ Len(out) <= Len(out')
  /\ \A i \in 1..Len(out) : out'[i] = out[i]
  /\ Rising(out')
  /\ Range(out') = known \cap 1..fired
  /\ UNCHANGED <<fired, known>>

Next == Fire \/ Carry

Spec == Init /\ [][Next]_evars
=============================================================================
