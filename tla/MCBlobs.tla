------------------------------- MODULE MCBlobs -------------------------------
(***************************************************************************)
(* Blobs for TLC: three processes over one content, which an attachment    *)
(* and a picture share, and one restore.  Contents do not meet but in the  *)
(* error that ends a removal, so one stands for each.                      *)
(***************************************************************************)
EXTENDS Blobs, TLC

CONSTANTS p1, p2, p3, a, r1

\* States that differ only in what nothing reads again are one: the rows of a
\* database file that is neither at the path nor open, a backup after the last
\* restore, and what a removal but a sweep still remembers when it has judged all.
OpenFiles == {gen} \cup {job[p].at : p \in {q \in Procs : job[q].does = "attach" \/ Removing(q)}}
Judged(p) == Removing(p) /\ job[p].does # "sweep" /\ job[p].stage = "judge" /\ job[p].left = {}
AtHand(p) ==
  IF Judged(p) THEN [does |-> "removal", takes |-> job[p].doomed,
                     erases |-> job[p].does = "erase" /\ job[p].doomed # {}]
  ELSE IF gen = MaxRestores /\ job[p].does = "backup" THEN [does |-> "backup"]
  ELSE job[p]
Seen == <<[g \in OpenFiles |-> rows[g]], gen, file, before, sure, [p \in Procs |-> AtHand(p)],
          IF gen = MaxRestores THEN NoArchive ELSE archive>>

Alike == Permutations(Procs)
=============================================================================
