------------------------------ MODULE MCViewer ------------------------------
(***************************************************************************)
(* Viewer.tla on small instances: two records, two processes, a queue sent *)
(* one record at a time and a feed read one change at a time.              *)
(***************************************************************************)
EXTENDS Viewer, TLC

\* States that differ only in what nothing reads again are one: a carrier's variables
\* past their use, and the version the Worker was last told, which no carrier asks for.
\* So are states whose numbers compare alike: the order's, which only grow, are told
\* by how far the order's end is from them, and records by who comes before whom.
Behind(n) == IF n = 0 THEN 0 ELSE 1000 + standing.seq - n
Kept(numbers) == [numbers EXCEPT !.seq = Behind(@)]
AtHand(c) ==
  [job[c] EXCEPT
    !.mem     = Kept(@),
    !.version = IF pc[c] \in {"copy", "pages", "read back"} THEN @ ELSE 0,
    !.sending = IF pc[c] = "finish" THEN 0 ELSE @,
    !.page    = IF pc[c] = "read back" THEN @ ELSE 0,
    !.more    = pc[c] = "read back" /\ @,
    !.parts   = IF pc[c] = "finish" THEN 0 ELSE @,
    !.answer  = IF pc[c] = "answer" THEN Behind(@) ELSE 0,
    !.failed  = pc[c] = "remember" /\ @,
    !.batch   = IF pc[c] = "finish" THEN <<>> ELSE @]
Shelf == [r \in Records |->
  <<rows[r].val, {q \in Records : rows[q].seq < rows[r].seq}, rows[r].seq = 0>>]
\* Of the phone: what it holds of the records it has passed. The others it will read.
Held == [r \in Records |-> IF rows[r].seq \in 1..phone.cursor THEN phone.copy[r] ELSE -1]
Alive == <<feed, trimmed, queue, Kept(left), switch, turn, pc, [c \in Carriers |-> AtHand(c)],
           Shelf, Held, setup, clock, skipped, counts>>

\* Sound where no liveness is checked: neither records nor processes are named.
Alike == Permutations(Records) \cup Permutations(Carriers)
=============================================================================
