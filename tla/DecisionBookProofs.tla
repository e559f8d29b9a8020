------------------------- MODULE DecisionBookProofs -------------------------
(***************************************************************************)
(* For any set of decisions and projects: the stamps of a decision agree   *)
(* with its verdict, no edge dangles or crosses, and a rejection is for    *)
(* good.                                                                   *)
(*                                                                         *)
(* The invariant is strengthened three times.  A live decision stands in a *)
(* standing project, or a new edge could join two that do not; one not yet *)
(* made carries no settling date, or its first draft would; and one turned *)
(* down is not being written, or finishing it would overturn it.           *)
(***************************************************************************)
EXTENDS DecisionBook, TLAPS

Homed == \A d \in LiveDecisions : dhome[d] \in projects

UnbornUnsettled == \A d \in Decisions : dlife[d] = "unborn" => decidedAt[d] = Never

RejectedClosed == \A d \in LiveDecisions : dstatus[d] = "rejected" => ~ddraft[d]

DInv == DTypeOK /\ Homed /\ UnbornUnsettled /\ RejectedClosed /\ StampsAgree /\ EdgesSound

\* The invariant at the start: no decision has been made.
LEMMA DInitInv == DInit => DInv
<1> SUFFICES ASSUME DInit PROVE DInv
  OBVIOUS
<1>0. MaxTime \in Nat \ {0} BY BoundsAssumption
<1>1. PICK p \in Projects : dhome = [d \in Decisions |-> p]
  BY DEF DInit
<1>2. DTypeOK
  BY <1>0, <1>1 DEF DInit, DTypeOK, Times, Never, Lives, Verdicts, EdgeKinds
<1>3. Homed /\ UnbornUnsettled /\ RejectedClosed /\ StampsAgree
  BY DEF DInit, Homed, UnbornUnsettled, RejectedClosed, StampsAgree, LiveDecisions
<1>4. EdgesSound
  BY DEF DInit, EdgesSound
<1> QED BY <1>2, <1>3, <1>4 DEF DInv

-----------------------------------------------------------------------------
(* The writing of one decision keeps it.                                   *)

LEMMA DecisionAddKeeps ==
  ASSUME DInv, NEW d \in Decisions, NEW p \in Projects, DecisionAdd(d, p),
         UNCHANGED <<clock, projects>>
  PROVE  DInv'
<1> USE DEF DInv, DTypeOK, Lives, Verdicts, DecisionAdd
<1>1. DTypeOK' BY DEF Times, EdgeKinds
<1>2. Homed' /\ RejectedClosed' BY DEF Homed, RejectedClosed, LiveDecisions
<1>3. UnbornUnsettled' BY DEF UnbornUnsettled
<1>4. StampsAgree' BY DEF StampsAgree, LiveDecisions, UnbornUnsettled
<1>5. EdgesSound' BY DEF EdgesSound, Pairs
<1> QED BY <1>1, <1>2, <1>3, <1>4, <1>5

LEMMA WritingKeeps ==
  ASSUME DInv, NEW d \in Decisions, FinishWriting(d) \/ Reject(d) \/ Reopen(d),
         UNCHANGED <<clock, projects>>
  PROVE  DInv'
<1> USE DEF DInv, DTypeOK, LiveDecisions
<1>0. clock > 0 /\ clock # Never
  BY BoundsAssumption DEF Times, Never
<1>1. CASE FinishWriting(d)
  <2> USE <1>1 DEF FinishWriting
  <2>1. DTypeOK' BY DEF Times, Verdicts
  <2>2. Homed' /\ RejectedClosed' BY DEF Homed, RejectedClosed
  <2>3. UnbornUnsettled' BY DEF UnbornUnsettled
  <2>4. StampsAgree' BY <1>0 DEF StampsAgree
  <2>5. EdgesSound' BY DEF EdgesSound
  <2> QED BY <2>1, <2>2, <2>3, <2>4, <2>5
<1>2. CASE Reject(d)
  <2> USE <1>2 DEF Reject
  <2>1. DTypeOK' BY DEF Times, Verdicts
  <2>2. Homed' /\ RejectedClosed' BY DEF Homed, RejectedClosed
  <2>3. UnbornUnsettled' BY DEF UnbornUnsettled
  <2>4. StampsAgree' BY <1>0 DEF StampsAgree
  <2>5. EdgesSound' BY DEF EdgesSound
  <2> QED BY <2>1, <2>2, <2>3, <2>4, <2>5
<1>3. CASE Reopen(d)
  <2> USE <1>3 DEF Reopen
  <2>1. DTypeOK' BY DEF Times, Verdicts
  <2>2. Homed' /\ RejectedClosed' BY DEF Homed, RejectedClosed
  <2>3. UnbornUnsettled' BY DEF UnbornUnsettled
  <2>4. StampsAgree' BY <1>0 DEF StampsAgree
  <2>5. EdgesSound' BY DEF EdgesSound
  <2> QED BY <2>1, <2>2, <2>3, <2>4, <2>5
<1> QED BY <1>1, <1>2, <1>3

-----------------------------------------------------------------------------
(* Drawing, taking off and sweeping edges keeps it.                        *)

LEMMA EdgeKeeps ==
  ASSUME DInv, NEW d \in Decisions, NEW e \in Decisions,
         \/ \E kind \in EdgeKinds : PutEdge(d, e, kind)
         \/ UnlinkEdge(d, e),
         UNCHANGED <<clock, projects>>
  PROVE  DInv'
<1> USE DEF DInv, DTypeOK
<1>1. ASSUME NEW kind \in EdgeKinds, PutEdge(d, e, kind) PROVE DInv'
  <2> USE <1>1 DEF PutEdge
  <2>1. DTypeOK' BY DEF Pairs
  <2>2. Homed' /\ UnbornUnsettled' /\ RejectedClosed' /\ StampsAgree'
    BY DEF Homed, UnbornUnsettled, RejectedClosed, StampsAgree, LiveDecisions
  <2>3. EdgesSound' BY DEF EdgesSound, Pairs, Homed, LiveDecisions
  <2> QED BY <2>1, <2>2, <2>3
<1>2. CASE UnlinkEdge(d, e)
  <2> USE <1>2 DEF UnlinkEdge
  <2>1. DTypeOK' BY DEF Pairs
  <2>2. Homed' /\ UnbornUnsettled' /\ RejectedClosed' /\ StampsAgree'
    BY DEF Homed, UnbornUnsettled, RejectedClosed, StampsAgree, LiveDecisions
  <2>3. EdgesSound' BY DEF EdgesSound, Pairs
  <2> QED BY <2>1, <2>2, <2>3
<1> QED BY <1>1, <1>2

\* The rows that go may be any set that leaves every edge's ends in place
\* or takes the edge along; what stays stands in a project that stays.
LEMMA SweepKeeps ==
  ASSUME DInv, NEW gone \in SUBSET LiveDecisions, SweepDecisions(gone),
         UNCHANGED clock, projects' \subseteq Projects,
         \A d \in LiveDecisions \ gone : dhome[d] \in projects'
  PROVE  DInv'
<1> USE DEF DInv, DTypeOK, SweepDecisions
<1>1. DTypeOK' BY DEF Lives, LiveDecisions
<1>2. LiveDecisions' = LiveDecisions \ gone BY DEF LiveDecisions
<1>3. Homed' /\ RejectedClosed' BY <1>2 DEF Homed, RejectedClosed
<1>4. UnbornUnsettled' BY DEF UnbornUnsettled, LiveDecisions
<1>5. StampsAgree' BY <1>2 DEF StampsAgree
<1>6. EdgesSound' BY DEF EdgesSound, Pairs, LiveDecisions
<1> QED BY <1>1, <1>3, <1>4, <1>5, <1>6

-----------------------------------------------------------------------------
\* Every step of the book keeps the invariant.
LEMMA DNextInv == DInv /\ [DNext]_<<clock, projects, dvars>> => DInv'
<1> SUFFICES ASSUME DInv, [DNext]_<<clock, projects, dvars>> PROVE DInv'
  OBVIOUS
<1>1. CASE DStep /\ UNCHANGED <<clock, projects>>
  <2>1. PICK d \in Decisions :
          \/ \E p \in Projects : DecisionAdd(d, p)
          \/ FinishWriting(d) \/ Reject(d) \/ Reopen(d)
          \/ \E e \in Decisions :
               Supersede(d, e) \/ Amend(d, e) \/ BuildsOn(d, e) \/ UnlinkEdge(d, e)
    BY <1>1 DEF DStep
  <2>2. CASE \E p \in Projects : DecisionAdd(d, p)
    BY <1>1, <2>2, DecisionAddKeeps
  <2>3. CASE FinishWriting(d) \/ Reject(d) \/ Reopen(d)
    BY <1>1, <2>3, WritingKeeps
  <2>4. ASSUME NEW e \in Decisions,
               Supersede(d, e) \/ Amend(d, e) \/ BuildsOn(d, e) \/ UnlinkEdge(d, e)
        PROVE  DInv'
    <3>1. \/ \E kind \in EdgeKinds : PutEdge(d, e, kind)
          \/ UnlinkEdge(d, e)
      BY <2>4 DEF Supersede, Amend, BuildsOn, EdgeKinds
    <3> QED BY <1>1, <3>1, EdgeKeeps
  <2> QED BY <2>1, <2>2, <2>3, <2>4
<1>2. ASSUME NEW d \in Decisions, DecisionDelete(d), UNCHANGED <<clock, projects>>
      PROVE  DInv'
  <2>1. {d} \in SUBSET LiveDecisions /\ SweepDecisions({d})
    BY <1>2 DEF DecisionDelete
  <2>2. projects' \subseteq Projects /\ \A e \in LiveDecisions \ {d} : dhome[e] \in projects'
    BY <1>2 DEF DInv, DTypeOK, Homed
  <2> QED BY <1>2, <2>1, <2>2, SweepKeeps
<1>3. ASSUME NEW p \in Projects, DProjectDelete(p), UNCHANGED clock PROVE DInv'
  <2> DEFINE gone == {d \in LiveDecisions : dhome[d] = p}
  <2>1. gone \in SUBSET LiveDecisions /\ SweepDecisions(gone)
    BY <1>3 DEF DProjectDelete
  <2>2. projects' \subseteq Projects /\ \A d \in LiveDecisions \ gone : dhome[d] \in projects'
    BY <1>3 DEF DProjectDelete, DInv, DTypeOK, Homed
  <2> HIDE DEF gone
  <2> QED BY <1>3, <2>1, <2>2, SweepKeeps
<1>4. CASE SecondPasses /\ UNCHANGED <<dvars, projects>>
  <2> USE <1>4 DEF DInv, SecondPasses, dvars
  <2>1. DTypeOK' BY BoundsAssumption DEF DTypeOK, Times
  <2>2. Homed' /\ UnbornUnsettled' /\ RejectedClosed' /\ StampsAgree' /\ EdgesSound'
    BY DEF Homed, UnbornUnsettled, RejectedClosed, StampsAgree, EdgesSound, LiveDecisions
  <2> QED BY <2>1, <2>2
<1>5. CASE UNCHANGED <<clock, projects, dvars>>
  BY <1>5 DEF DInv, DTypeOK, Homed, UnbornUnsettled, RejectedClosed, StampsAgree,
              EdgesSound, LiveDecisions, dvars
<1> QED BY <1>1, <1>2, <1>3, <1>4, <1>5 DEF DNext

\* The strengthened invariant of the book.
THEOREM BookInvariance == DSpec => []DInv
BY DInitInv, DNextInv, PTL DEF DSpec

\* Every variable of the book keeps its type.
THEOREM BookTypeCorrect == DSpec => []DTypeOK
<1>1. DInv => DTypeOK BY DEF DInv
<1> QED BY BookInvariance, <1>1, PTL

\* A live decision carries its settling date exactly while it is settled.
THEOREM StampsAlwaysAgree == DSpec => []StampsAgree
<1>1. DInv => StampsAgree BY DEF DInv
<1> QED BY BookInvariance, <1>1, PTL

\* No edge dangles, loops on itself or crosses projects.
THEOREM EdgesAlwaysSound == DSpec => []EdgesSound
<1>1. DInv => EdgesSound BY DEF DInv
<1> QED BY BookInvariance, <1>1, PTL

-----------------------------------------------------------------------------
\* One step never revives a rejected decision: it keeps the verdict and the
\* closed writing, or the row goes.
LEMMA RejectionStands ==
  ASSUME DInv, [DNext]_<<clock, projects, dvars>>,
         NEW d \in LiveDecisions, dstatus[d] = "rejected"
  PROVE  dlife'[d] = "gone" \/ (dstatus'[d] = "rejected" /\ ~ddraft'[d])
<1>0. ~ddraft[d] BY DEF DInv, RejectedClosed
<1>1. CASE DStep
  <2>1. PICK e \in Decisions :
          \/ \E p \in Projects : DecisionAdd(e, p)
          \/ FinishWriting(e) \/ Reject(e) \/ Reopen(e)
          \/ \E o \in Decisions :
               Supersede(e, o) \/ Amend(e, o) \/ BuildsOn(e, o) \/ UnlinkEdge(e, o)
    BY <1>1 DEF DStep
  <2>2. CASE \E p \in Projects : DecisionAdd(e, p)
    BY <1>0, <2>2 DEF DecisionAdd, DInv, DTypeOK, LiveDecisions
  <2>3. CASE FinishWriting(e) \/ Reject(e) \/ Reopen(e)
    <3>1. e # d
      BY <1>0, <2>3 DEF FinishWriting, Reject, Reopen
    <3>2. \E v, w \in {"decided", "rejected", TRUE, FALSE} :
            dstatus' = [dstatus EXCEPT ![e] = v] /\ ddraft' = [ddraft EXCEPT ![e] = w]
      BY <2>3, Zenon DEF FinishWriting, Reject, Reopen
    <3>3. dstatus'[d] = dstatus[d] /\ ddraft'[d] = ddraft[d]
      BY <3>1, <3>2, Zenon DEF DInv, DTypeOK, LiveDecisions
    <3> QED BY <1>0, <3>3, Zenon
  <2>4. CASE \E o \in Decisions :
               Supersede(e, o) \/ Amend(e, o) \/ BuildsOn(e, o) \/ UnlinkEdge(e, o)
    BY <1>0, <2>4 DEF Supersede, Amend, BuildsOn, PutEdge, UnlinkEdge
  <2> QED BY <2>1, <2>2, <2>3, <2>4
<1>2. ASSUME NEW gone, SweepDecisions(gone)
      PROVE  dlife'[d] = "gone" \/ (dstatus'[d] = "rejected" /\ ~ddraft'[d])
  BY <1>0, <1>2 DEF SweepDecisions, LiveDecisions
<1>3. CASE UNCHANGED dvars
  BY <1>0, <1>3 DEF dvars
<1> QED BY <1>1, <1>2, <1>3 DEF DNext, DecisionDelete, DProjectDelete, SecondPasses

\* "reject has no inverse", as a property of every step of every behaviour.
THEOREM RejectionIsForGood == DSpec => RejectedForGood
<1>1. DInv /\ [DNext]_<<clock, projects, dvars>> =>
        [\A d \in LiveDecisions :
           dstatus[d] = "rejected" => dlife'[d] = "gone" \/ (dstatus'[d] = "rejected" /\ ~ddraft'[d])
        ]_<<clock, projects, dvars>>
  BY RejectionStands
<1> QED BY BookInvariance, <1>1, PTL DEF DSpec, RejectedForGood
=============================================================================
