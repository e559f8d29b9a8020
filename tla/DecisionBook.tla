---------------------------- MODULE DecisionBook ----------------------------
(***************************************************************************)
(* Decisions and the edges between them (ops/decision.rs).                 *)
(*                                                                         *)
(* A decision is written in two stages: `add` leaves it a draft, and       *)
(* `finish_writing` settles it or `reject` turns it down.  `reopen` puts a *)
(* settled one back in hand.  Whether it is still current is no status but *)
(* a reading of the edges: one that a live decision supersedes is not.     *)
(* Every operation runs in one BEGIN IMMEDIATE transaction that reads what *)
(* it judges on, so each is a single step here.                            *)
(***************************************************************************)
EXTENDS Integers, FiniteSets

CONSTANTS
  Decisions,   \* the ids `next_id` can hand out; one is never handed out twice
  Projects,
  MaxTime,     \* bound: seconds the wall clock counts
  MaxAccept    \* bound: times one decision is settled

ASSUME BoundsAssumption == MaxTime \in Nat \ {0} /\ MaxAccept \in Nat

VARIABLES
  clock,       \* Timestamp::now(), in whole seconds
  projects,    \* the projects that stand
  dlife,       \* whether the row is unborn, live or gone
  dhome,       \* decision.project_id
  dstatus,     \* decision.status: "decided" from the moment it is saved
  ddraft,      \* decision.draft: the writing is not finished
  dclock,      \* decision.status_changed_at
  decidedAt,   \* decision.decided_at, Never while unsettled
  edge,        \* decision_edge.kind of the pair, or "none"
  drawnAt,     \* decision_edge.drawn_at
  accepted     \* history: decision.accepted events fired

dvars == <<dlife, dhome, dstatus, ddraft, dclock, decidedAt, edge, drawnAt, accepted>>

Times == 1..MaxTime
Never == 0
Lives == {"unborn", "live", "gone"}
Verdicts == {"decided", "rejected"}
EdgeKinds == {"supersedes", "amends", "builds_on"}
Pairs == Decisions \X Decisions

DTypeOK ==
  /\ clock \in Times
  /\ projects \subseteq Projects
  /\ dlife \in [Decisions -> Lives]
  /\ dhome \in [Decisions -> Projects]
  /\ dstatus \in [Decisions -> Verdicts]
  /\ ddraft \in [Decisions -> BOOLEAN]
  /\ dclock \in [Decisions -> Times]
  /\ decidedAt \in [Decisions -> Times \cup {Never}]
  /\ edge \in [Pairs -> EdgeKinds \cup {"none"}]
  /\ drawnAt \in [Pairs -> Times]
  /\ accepted \in [Decisions -> Nat]

DInit ==
  /\ clock = 1
  /\ projects = Projects
  /\ dlife = [d \in Decisions |-> "unborn"]
  /\ dhome \in {[d \in Decisions |-> p] : p \in Projects}
  /\ dstatus = [d \in Decisions |-> "decided"]
  /\ ddraft = [d \in Decisions |-> TRUE]
  /\ dclock = [d \in Decisions |-> 1]
  /\ decidedAt = [d \in Decisions |-> Never]
  /\ edge = [q \in Pairs |-> "none"]
  /\ drawnAt = [q \in Pairs |-> 1]
  /\ accepted = [d \in Decisions |-> 0]

LiveDecisions == {d \in Decisions : dlife[d] = "live"}

\* read::superseded: currency is an edge, never a status.
Superseded(d) == \E s \in LiveDecisions : edge[<<s, d>>] = "supersedes"

\* read::unsettled_premise: what holds down a task resting on d.
Unsettled(d) == ddraft[d] \/ dstatus[d] # "decided" \/ Superseded(d)

-----------------------------------------------------------------------------
(* The writing of one decision.                                            *)

\* A new decision reads "decided" at once; its draft flag holds it.
DecisionAdd(d, p) ==
  /\ dlife[d] = "unborn"
  /\ p \in projects
  /\ dlife' = [dlife EXCEPT ![d] = "live"]
  /\ dhome' = [dhome EXCEPT ![d] = p]
  /\ dstatus' = [dstatus EXCEPT ![d] = "decided"]
  /\ ddraft' = [ddraft EXCEPT ![d] = TRUE]
  /\ dclock' = [dclock EXCEPT ![d] = clock]
  /\ UNCHANGED <<decidedAt, edge, drawnAt, accepted>>

\* Settles once, stamping who and when; on a decision whose writing is over
\* it is a no-op.  A required axis left blank refuses it and changes nothing.
FinishWriting(d) ==
  /\ d \in LiveDecisions
  /\ ddraft[d]
  /\ accepted[d] < MaxAccept
  /\ dstatus' = [dstatus EXCEPT ![d] = "decided"]
  /\ ddraft' = [ddraft EXCEPT ![d] = FALSE]
  /\ dclock' = [dclock EXCEPT ![d] = clock]
  /\ decidedAt' = [decidedAt EXCEPT ![d] = clock]
  /\ accepted' = [accepted EXCEPT ![d] = @ + 1]
  /\ UNCHANGED <<dlife, dhome, edge, drawnAt>>

\* Mutant of Reject: the already-settled decision can be turned down too.
RejectSettled(d) ==
  /\ d \in LiveDecisions
  /\ dstatus[d] # "rejected"
  /\ dstatus' = [dstatus EXCEPT ![d] = "rejected"]
  /\ ddraft' = [ddraft EXCEPT ![d] = FALSE]
  /\ dclock' = [dclock EXCEPT ![d] = clock]
  /\ UNCHANGED <<dlife, dhome, decidedAt, edge, drawnAt, accepted>>

\* Only a decision still being written can be turned down.
Reject(d) ==
  /\ d \in LiveDecisions
  /\ dstatus[d] # "rejected"
  /\ ddraft[d]
  /\ dstatus' = [dstatus EXCEPT ![d] = "rejected"]
  /\ ddraft' = [ddraft EXCEPT ![d] = FALSE]
  /\ dclock' = [dclock EXCEPT ![d] = clock]
  /\ UNCHANGED <<dlife, dhome, decidedAt, edge, drawnAt, accepted>>

\* Mutant of Reopen: the draft flag alone is read, and a rejected decision
\* carries that one down too.
ReopenByFlag(d) ==
  /\ d \in LiveDecisions
  /\ ~ddraft[d]
  /\ dstatus' = [dstatus EXCEPT ![d] = "decided"]
  /\ ddraft' = [ddraft EXCEPT ![d] = TRUE]
  /\ dclock' = [dclock EXCEPT ![d] = clock]
  /\ decidedAt' = [decidedAt EXCEPT ![d] = Never]
  /\ UNCHANGED <<dlife, dhome, edge, drawnAt, accepted>>

\* Un-settles: the status stays, the stamps of the settling go.
Reopen(d) ==
  /\ d \in LiveDecisions
  /\ dstatus[d] # "rejected"
  /\ ~ddraft[d]
  /\ dstatus' = [dstatus EXCEPT ![d] = "decided"]
  /\ ddraft' = [ddraft EXCEPT ![d] = TRUE]
  /\ dclock' = [dclock EXCEPT ![d] = clock]
  /\ decidedAt' = [decidedAt EXCEPT ![d] = Never]
  /\ UNCHANGED <<dlife, dhome, edge, drawnAt, accepted>>

-----------------------------------------------------------------------------
(* The edges, drawn new to old; one pair holds at most one of them.        *)

\* Mutant of PutEdge: an edge promoted in place keeps the date it was first
\* drawn.
PutEdgeKeepingDate(new, old, kind) ==
  /\ new # old
  /\ new \in LiveDecisions /\ old \in LiveDecisions
  /\ dhome[new] = dhome[old]
  /\ edge[<<new, old>>] # kind
  /\ edge' = [edge EXCEPT ![<<new, old>>] = kind]
  /\ drawnAt' = IF edge[<<new, old>>] = "none"
                THEN [drawnAt EXCEPT ![<<new, old>>] = clock] ELSE drawnAt
  /\ UNCHANGED <<dlife, dhome, dstatus, ddraft, dclock, decidedAt, accepted>>

\* put_edge: a same-kind edge is a no-op, another kind is rewritten in place
\* and dated anew.
PutEdge(new, old, kind) ==
  /\ new # old
  /\ new \in LiveDecisions /\ old \in LiveDecisions
  /\ dhome[new] = dhome[old]
  /\ edge[<<new, old>>] # kind
  /\ edge' = [edge EXCEPT ![<<new, old>>] = kind]
  /\ drawnAt' = [drawnAt EXCEPT ![<<new, old>>] = clock]
  /\ UNCHANGED <<dlife, dhome, dstatus, ddraft, dclock, decidedAt, accepted>>

Supersede(new, old) == PutEdge(new, old, "supersedes")

Amend(new, old) == PutEdge(new, old, "amends")

\* Implied already by either of the other two, so it never demotes them.
BuildsOn(new, old) ==
  /\ edge[<<new, old>>] = "none"
  /\ PutEdge(new, old, "builds_on")

UnlinkEdge(new, old) ==
  /\ edge[<<new, old>>] # "none"
  /\ edge' = [edge EXCEPT ![<<new, old>>] = "none"]
  /\ UNCHANGED <<dlife, dhome, dstatus, ddraft, dclock, decidedAt, drawnAt, accepted>>

\* Mutant of SweepDecisions: the edges naming the deleted one are left.
SweepDecisionsOneWay(gone) ==
  /\ dlife' = [d \in Decisions |-> IF d \in gone THEN "gone" ELSE dlife[d]]
  /\ edge' = [q \in Pairs |-> IF q[1] \in gone THEN "none" ELSE edge[q]]
  /\ UNCHANGED <<dhome, dstatus, ddraft, dclock, decidedAt, drawnAt, accepted>>

\* delete_subtree over several: the edges at either end go, then the rows.
SweepDecisions(gone) ==
  /\ dlife' = [d \in Decisions |-> IF d \in gone THEN "gone" ELSE dlife[d]]
  /\ edge' = [q \in Pairs |->
                IF q[1] \in gone \/ q[2] \in gone THEN "none" ELSE edge[q]]
  /\ UNCHANGED <<dhome, dstatus, ddraft, dclock, decidedAt, drawnAt, accepted>>

DecisionDelete(d) ==
  /\ d \in LiveDecisions
  /\ SweepDecisions({d})

\* project::delete, the part of it that falls on decisions.
DProjectDelete(p) ==
  /\ p \in projects
  /\ projects' = projects \ {p}
  /\ SweepDecisions({d \in LiveDecisions : dhome[d] = p})

SecondPasses ==
  /\ clock < MaxTime
  /\ clock' = clock + 1

DStep ==
  \E d \in Decisions :
    \/ \E p \in Projects : DecisionAdd(d, p)
    \/ FinishWriting(d) \/ Reject(d) \/ Reopen(d)
    \/ \E e \in Decisions :
         Supersede(d, e) \/ Amend(d, e) \/ BuildsOn(d, e) \/ UnlinkEdge(d, e)

DNext ==
  \/ DStep /\ UNCHANGED <<clock, projects>>
  \/ \E d \in Decisions : DecisionDelete(d) /\ UNCHANGED <<clock, projects>>
  \/ \E p \in Projects : DProjectDelete(p) /\ UNCHANGED clock
  \/ SecondPasses /\ UNCHANGED <<dvars, projects>>

DSpec == DInit /\ [][DNext]_<<clock, projects, dvars>>

-----------------------------------------------------------------------------
(* What must hold.                                                         *)

\* A live decision carries the date it was settled exactly while it is
\* settled: reopening clears it, turning down never leaves one behind, and
\* the date is the one its status clock shows.
StampsAgree ==
  \A d \in LiveDecisions :
    /\ (decidedAt[d] # Never) <=> (dstatus[d] = "decided" /\ ~ddraft[d])
    /\ decidedAt[d] # Never => decidedAt[d] = dclock[d]

\* "reject has no inverse": a decision turned down stays so until its row
\* goes, whatever sequence of calls follows.
RejectedForGood ==
  [][\A d \in LiveDecisions :
       dstatus[d] = "rejected" => dlife'[d] = "gone" \/ (dstatus'[d] = "rejected" /\ ~ddraft'[d])
    ]_<<clock, projects, dvars>>

\* No edge dangles, joins a decision to itself or crosses projects, whatever
\* was deleted around it.
EdgesSound ==
  \A q \in Pairs : edge[q] # "none" =>
    /\ q[1] # q[2]
    /\ dlife[q[1]] = "live" /\ dlife[q[2]] = "live"
    /\ dhome[q[1]] = dhome[q[2]]
    /\ dhome[q[1]] \in projects
=============================================================================
