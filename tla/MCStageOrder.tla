----------------------------- MODULE MCStageOrder -----------------------------
(***************************************************************************)
(* StageOrder for TLC: one task and one decision answer a category of up   *)
(* to three values, two command lines close them, and two seconds tell     *)
(* before, at once and after apart.                                        *)
(***************************************************************************)
EXTENDS StageOrder, TLC

CONSTANTS t1, d1, v1, v2, v3, p1, p2

Shape(ordered, role, multi, tasks, required, sequential) ==
  [ordered |-> ordered, role |-> role, multi |-> multi, tasks |-> tasks,
   required |-> required, sequential |-> sequential]

\* A run of stages, required and not; a category of many answers; one for decisions
\* alone; and one that is refused, as many answers do not go with waiting.
MCShapes == {
  Shape(TRUE, "closable", FALSE, TRUE, FALSE, TRUE),
  Shape(TRUE, "closable", FALSE, TRUE, TRUE, TRUE),
  Shape(TRUE, "closable", TRUE, TRUE, TRUE, FALSE),
  Shape(FALSE, "none", FALSE, FALSE, TRUE, FALSE),
  Shape(TRUE, "closable", TRUE, TRUE, FALSE, TRUE)}

\* States that differ only in moments nothing compares again are one: the clock of a
\* task is read while it is under way; of a value that is open it matters whether it
\* was opened this second, or since a task under way was reserved.
Moment(v) ==
  IF state[v] = "open" /\ (flipped[v] = now \/ \E t \in Tasks : stage[t] = "under way" /\ since[t] <= flipped[v])
    THEN flipped[v] ELSE 0
Reserved(t) == IF stage[t] = "under way" THEN since[t] ELSE 0
Seen == <<axis, state, before, [v \in Values |-> Moment(v)], stage, [t \in Tasks |-> Reserved(t)],
          on, saying, now, strayed, owed>>

Alike == Permutations(Values) \cup Permutations(Closers)
=============================================================================
