----------------------------- MODULE MCTaskBoard -----------------------------
(***************************************************************************)
(* TaskBoard for TLC.  MCTaskBoard.cfg is about structure: three tasks in  *)
(* two projects under a still clock, so that a cycle can close over three  *)
(* edges and a move can make an edge cross.  MCPremises.cfg is about time  *)
(* and about the decisions themselves: one task resting on two of them     *)
(* over two seconds, so that a ground moves before, in and after the       *)
(* second of a reservation; two projects, and each decision settled twice  *)
(* at the most, so that an edge can be promoted, close a loop, lose either *)
(* end or be refused across projects, and what was settled settled again.  *)
(***************************************************************************)
EXTENDS TaskBoard, TLC

CONSTANTS d1, d2, p1, p2, t1, t2, t3

Symmetry == Permutations(Decisions) \cup Permutations(Projects) \cup Permutations(Tasks)

\* States that differ only in what nothing reads again are one: columns of a row that is
\* not there, and moments no reservation is held to, which are those before the second
\* it is now and before every reservation that stands.
Counts(m) == m = clock \/ \E t \in Live : status[t] = "in_progress" /\ since[t] <= m
Moment(m) == IF Counts(m) THEN m ELSE 0
TaskSeen(t) ==
  IF t \notin Live THEN <<life[t]>>
  ELSE <<draft[t], status[t], home[t], announced[t], IF status[t] = "in_progress" THEN since[t] ELSE 0>>
DecisionSeen(d) ==
  IF d \notin LiveDecisions THEN <<dlife[d]>>
  ELSE <<dhome[d], dstatus[d], ddraft[d], accepted[d], Moment(dclock[d]), decidedAt[d] = Never,
         decidedAt[d] = dclock[d]>>
Seen ==
  <<clock, projects, [t \in Tasks |-> TaskSeen(t)], [d \in Decisions |-> DecisionSeen(d)],
    edge, {<<q, Moment(drawnAt[q])>> : q \in {q \in Pairs : edge[q] = "supersedes"}},
    {<<l, Moment(linkAt[l])>> : l \in links}, {<<e, Moment(depAt[e])>> : e \in deps}>>
=============================================================================
