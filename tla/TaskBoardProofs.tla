--------------------------- MODULE TaskBoardProofs ---------------------------
(***************************************************************************)
(* For any tasks, decisions and projects: dependencies stay acyclic, no    *)
(* edge dangles or crosses projects, a draft is nobody's and unannounced,  *)
(* and what comes loose under a reservation carries a date that shows it.  *)
(*                                                                         *)
(* What is inductive is stronger in three places.  The book underneath     *)
(* keeps its own invariant, since every step of the board is a step of     *)
(* the book.  A task not yet made has announced nothing.  And a ground is  *)
(* dated by each thing that unsettles it rather than by one of them: when  *)
(* a supersession is taken off, another may be what still holds.           *)
(***************************************************************************)
EXTENDS TaskBoard, DecisionBookProofs, FiniteSetTheorems, WellFoundedInduction

UnbornSilent == \A t \in Tasks : life[t] = "unborn" => announced[t] = 0

SinceInPast == \A t \in Tasks : since[t] <= clock

\* Ground d of task t came after the reservation, or whatever unsettles it did.
Dated(d, t) ==
  \/ linkAt[<<d, t>>] >= since[t]
  \/ /\ ddraft[d] \/ dstatus[d] # "decided" => dclock[d] >= since[t]
     /\ \A s \in LiveDecisions :
          edge[<<s, d>>] = "supersedes" => drawnAt[<<s, d>>] >= since[t]

GroundsDated ==
  \A t \in Live : status[t] = "in_progress" =>
    \A d \in LiveDecisions : <<d, t>> \in links => Dated(d, t)

Board ==
  /\ TypeOK /\ DInv
  /\ TaskEdgesSound /\ Acyclic
  /\ DraftIsSecret /\ UnbornSilent
  /\ SinceInPast /\ OpenBlockerIsDated /\ GroundsDated

-----------------------------------------------------------------------------
(* The dependency graph.  That target is not reached from a task is to say *)
(* that a set closed under the edges holds the one and not the other.      *)

\* Taking edges away closes no cycle.
LEMMA FewerEdges ==
  ASSUME Acyclic, deps' \subseteq deps
  PROVE  Acyclic'
<1> SUFFICES ASSUME NEW e \in deps' PROVE ~Reaches(e[2], e[1])'
  BY DEF Acyclic
<1>1. PICK S \in SUBSET Tasks :
        e[2] \in S /\ (\A x \in deps : x[1] \in S => x[2] \in S) /\ e[1] \notin S
  BY DEF Acyclic, Reaches
<1> QED BY <1>1 DEF Reaches

\* Nor does an edge whose far end does not lead back to its near end.
LEMMA OneMoreEdge ==
  ASSUME Acyclic, NEW t \in Tasks, NEW b \in Tasks,
         ~Reaches(b, t), deps' = deps \cup {<<t, b>>}
  PROVE  Acyclic'
<1>1. PICK S \in SUBSET Tasks :
        b \in S /\ (\A x \in deps : x[1] \in S => x[2] \in S) /\ t \notin S
  BY DEF Reaches
<1>2. \A x \in deps' : x \in deps \/ (x[1] = t /\ x[2] = b)
  OBVIOUS
<1> SUFFICES ASSUME NEW e \in deps' PROVE ~Reaches(e[2], e[1])'
  BY DEF Acyclic
<1>3. CASE e \notin deps
  <2>1. e[1] = t /\ e[2] = b /\ \A x \in deps' : x[1] \in S => x[2] \in S
    BY <1>1, <1>2, <1>3
  <2> QED BY <1>1, <2>1 DEF Reaches
<1>4. CASE e \in deps
  <2>1. PICK R \in SUBSET Tasks :
          e[2] \in R /\ (\A x \in deps : x[1] \in R => x[2] \in R) /\ e[1] \notin R
    BY <1>4 DEF Acyclic, Reaches
  <2>2. CASE t \notin R
    <3>1. \A x \in deps' : x[1] \in R => x[2] \in R
      BY <1>2, <2>1, <2>2
    <3> QED BY <2>1, <3>1 DEF Reaches
  <2>3. CASE t \in R /\ e[1] \notin S
    <3>1. \A x \in deps' : x[1] \in R \cup S => x[2] \in R \cup S
      BY <1>1, <1>2, <2>1
    <3>2. e[2] \in R \cup S /\ e[1] \notin R \cup S /\ R \cup S \in SUBSET Tasks
      BY <2>1, <2>3
    <3> QED BY <3>1, <3>2 DEF Reaches
  <2>4. CASE e[1] \in S
    <3>1. \A x \in deps' : x[1] \in R \cap S => x[2] \in R \cap S
      BY <1>1, <1>2, <2>1
    <3>2. e[2] \in R \cap S /\ e[1] \notin R \cap S /\ R \cap S \in SUBSET Tasks
      BY <1>1, <1>4, <2>1, <2>4
    <3> QED BY <3>1, <3>2 DEF Reaches
  <2> QED BY <2>2, <2>3, <2>4
<1> QED BY <1>3, <1>4

\* Along an edge less is reached: what the far end reaches the near end does, and
\* itself besides.  So of any tasks there is one none of whose edges lead among them.
LEMMA SomeoneIsLast ==
  ASSUME TypeOK, Acyclic, NEW T \in SUBSET Tasks, T # {}
  PROVE  \E t \in T : \A b \in T : <<t, b>> \notin deps
<1> DEFINE Ahead(t) == {u \in Tasks : Reaches(t, u)}
           N == {Cardinality(Ahead(t)) : t \in T}
<1>1. \A t \in Tasks : IsFiniteSet(Ahead(t)) /\ Cardinality(Ahead(t)) \in Nat
  BY TasksAssumption, FS_Subset, FS_CardinalityType
<1>2. ASSUME NEW t \in Tasks, NEW b \in Tasks, <<t, b>> \in deps
      PROVE  Cardinality(Ahead(b)) < Cardinality(Ahead(t))
  <2>1. Ahead(b) \subseteq Ahead(t)
    BY <1>2 DEF Reaches
  <2>2. t \in Ahead(t)
    BY DEF Reaches
  <2>3. t \notin Ahead(b)
    BY <1>2 DEF Acyclic
  <2>4. Cardinality(Ahead(b)) <= Cardinality(Ahead(t))
        /\ (Cardinality(Ahead(t)) = Cardinality(Ahead(b)) => Ahead(t) = Ahead(b))
    BY <1>1, <2>1, FS_Subset
  <2>5. Cardinality(Ahead(t)) # Cardinality(Ahead(b))
    BY <2>2, <2>3, <2>4
  <2> HIDE DEF Ahead
  <2> QED BY <1>1, <2>4, <2>5
<1>3. N \subseteq Nat /\ N # {}
  BY <1>1
<1>4. \E x \in N : \A y \in N : ~(<<y, x>> \in OpToRel(<, Nat))
  <2> HIDE DEF N
  <2> QED BY <1>3, WFMin, NatLessThanWellFounded
<1>5. PICK x \in N : \A y \in N : ~(y < x)
  BY <1>3, <1>4 DEF OpToRel
<1>6. PICK t \in T : x = Cardinality(Ahead(t))
  OBVIOUS
<1>7. ASSUME NEW b \in T, <<t, b>> \in deps PROVE FALSE
  <2>1. Cardinality(Ahead(b)) \in N
    OBVIOUS
  <2> QED BY <1>2, <1>5, <1>6, <1>7, <2>1
<1> QED BY <1>7

-----------------------------------------------------------------------------
(* The board over the book.                                                *)

\* Every step of the board is a step of the book, or leaves it alone.
LEMMA BoardStepIsBookStep == [Next]_vars => [DNext]_<<clock, projects, dvars>>
BY DEF Next, vars, DNext, DecisionGone, ProjectDelete

\* At the start no task is made and nothing is drawn.
LEMMA InitBoard == Init => Board
<1> SUFFICES ASSUME Init PROVE Board
  OBVIOUS
<1>1. DInv /\ DTypeOK
  BY DInitInv DEF Init, DInv
<1>2. TypeOK
  <2>1. 1 \in Times BY BoundsAssumption DEF Times
  <2> QED BY <1>1, <2>1 DEF Init, TypeOK, Lives, Statuses, Homes, TaskPairs, LinkPairs
<1>3. Live = {}
  BY DEF Init, Live
<1>4. TaskEdgesSound /\ Acyclic /\ DraftIsSecret /\ UnbornSilent
  BY <1>3 DEF Init, TaskEdgesSound, Acyclic, DraftIsSecret, UnbornSilent
<1>5. SinceInPast /\ OpenBlockerIsDated /\ GroundsDated
  BY <1>3 DEF Init, DInit, SinceInPast, OpenBlockerIsDated, GroundsDated
<1> QED BY <1>1, <1>2, <1>4, <1>5 DEF Board

-----------------------------------------------------------------------------
(* The steps of a task.                                                    *)

\* A ground that was dated stays so while the book and the reservation stand.
LEMMA DatedCarries ==
  ASSUME NEW d, NEW t, Dated(d, t), since'[t] = since[t], UNCHANGED <<linkAt, dvars>>
  PROVE  Dated(d, t)'
BY Zenon DEF Dated, dvars, LiveDecisions

LEMMA TaskAddKeeps ==
  ASSUME Board, NEW t \in Tasks, NEW h \in Homes, TaskAdd(t, h),
         UNCHANGED <<clock, projects, dvars>>, DInv'
  PROVE  Board'
<1> USE DEF Board, TypeOK, TaskAdd, dvars
<1>1. TypeOK' /\ SinceInPast'
  BY DEF Lives, Statuses, Homes, DTypeOK, SinceInPast, DInv, Times
<1>2. Live' = Live \cup {t} /\ t \notin Live /\ LiveDecisions' = LiveDecisions
  BY DEF Live, LiveDecisions
<1>3. \A x \in Live : home'[x] = home[x] /\ status'[x] = status[x] /\ since'[x] = since[x]
                       /\ draft'[x] = draft[x]
  BY <1>2 DEF Live
<1>4. TaskEdgesSound'
  <2>1. \A e \in deps : {e[1], e[2]} \subseteq Live /\ ~Crosses(home'[e[1]], home'[e[2]])
    BY <1>3 DEF TaskEdgesSound
  <2>2. \A l \in links : l[1] \in LiveDecisions /\ l[2] \in Live
                          /\ ~Crosses(dhome[l[1]], home'[l[2]])
    BY <1>3 DEF TaskEdgesSound
  <2>3. \A x \in Live' : home'[x] \in projects \cup {Inbox}
    BY <1>2, <1>3 DEF TaskEdgesSound, Live
  <2> QED BY <1>2, <2>1, <2>2, <2>3 DEF TaskEdgesSound, Crosses
<1>5. Acyclic'
  BY DEF Acyclic, Reaches
<1>6. DraftIsSecret' /\ UnbornSilent'
  BY <1>2, <1>3 DEF DraftIsSecret, UnbornSilent, Live, Lives
<1>7. OpenBlockerIsDated'
  BY <1>2, <1>3 DEF OpenBlockerIsDated, OpenBlockers, Open, Closed, TaskEdgesSound
<1>8. GroundsDated'
  <2>1. \A x \in Live' : status'[x] = "in_progress" => x \in Live
    BY <1>2
  <2> QED BY <1>2, <1>3, <2>1, DatedCarries DEF GroundsDated
<1> QED BY <1>1, <1>4, <1>5, <1>6, <1>7, <1>8

LEMMA FinishCreatingKeeps ==
  ASSUME Board, NEW t \in Tasks, FinishCreating(t),
         UNCHANGED <<clock, projects, dvars>>, DInv'
  PROVE  Board'
<1> USE DEF Board, TypeOK, FinishCreating, dvars
<1>1. TypeOK' /\ SinceInPast'
  BY DEF DInv, SinceInPast
<1>2. Live' = Live /\ LiveDecisions' = LiveDecisions
  BY DEF Live, LiveDecisions
<1>3. TaskEdgesSound' /\ Acyclic'
  BY <1>2 DEF TaskEdgesSound, Crosses, Acyclic, Reaches
<1>4. DraftIsSecret' /\ UnbornSilent'
  BY <1>2 DEF DraftIsSecret, UnbornSilent, Live
<1>5. OpenBlockerIsDated' /\ GroundsDated'
  BY <1>2 DEF OpenBlockerIsDated, OpenBlockers, Open, GroundsDated, Dated
<1> QED BY <1>1, <1>3, <1>4, <1>5

LEMMA MoveKeeps ==
  ASSUME Board, NEW t \in Tasks, NEW p \in Projects, MoveTo(t, p),
         UNCHANGED <<clock, projects, dvars>>, DInv'
  PROVE  Board'
<1> USE DEF Board, TypeOK, MoveTo, dvars
<1>1. TypeOK' /\ SinceInPast'
  BY DEF DInv, SinceInPast, Homes
<1>2. Live' = Live /\ LiveDecisions' = LiveDecisions
  BY DEF Live, LiveDecisions
<1>3. \A b \in Tasks : <<t, b>> \in deps \/ <<b, t>> \in deps => ~Crosses(p, home[b])
  BY DEF PeerHomes
<1>4. \A d \in Decisions : <<d, t>> \in links => ~Crosses(p, dhome[d])
  BY DEF PeerHomes
<1>5. \A b \in Tasks : <<b, b>> \notin deps
  <2> SUFFICES ASSUME NEW b \in Tasks, <<b, b>> \in deps PROVE FALSE
    OBVIOUS
  <2> QED BY DEF Acyclic, Reaches
<1>6. \A e \in deps : e = <<e[1], e[2]>> /\ e[1] \in Tasks /\ e[2] \in Tasks
  BY DEF TaskPairs
<1>7. \A l \in links : l = <<l[1], l[2]>> /\ l[1] \in Decisions /\ l[2] \in Tasks
  BY DEF LinkPairs
<1>8. TaskEdgesSound'
  <2>1. \A e \in deps : {e[1], e[2]} \subseteq Live /\ ~Crosses(home'[e[1]], home'[e[2]])
    BY <1>3, <1>5, <1>6 DEF TaskEdgesSound, Crosses
  <2>2. \A l \in links : l[1] \in LiveDecisions /\ l[2] \in Live
                          /\ ~Crosses(dhome[l[1]], home'[l[2]])
    BY <1>4, <1>7 DEF TaskEdgesSound, Crosses
  <2>3. \A x \in Live : home'[x] \in projects \cup {Inbox}
    BY DEF TaskEdgesSound, Live
  <2> QED BY <1>2, <2>1, <2>2, <2>3 DEF TaskEdgesSound, Crosses
<1>9. Acyclic' /\ DraftIsSecret' /\ UnbornSilent'
  BY <1>2 DEF Acyclic, Reaches, DraftIsSecret, UnbornSilent
<1>10. OpenBlockerIsDated' /\ GroundsDated'
  BY <1>2 DEF OpenBlockerIsDated, OpenBlockers, Open, GroundsDated, Dated
<1> QED BY <1>1, <1>8, <1>9, <1>10

\* A transition that reserves only a ready todo and leaves drafts at todo.
LEMMA StatusKeeps ==
  ASSUME Board, NEW t \in Live, NEW s \in Statuses, SetStatus(t, s),
         s = "in_progress" => status[t] = "todo" /\ ~Held(t),
         draft[t] => s = "todo",
         UNCHANGED <<clock, projects, dvars>>, DInv'
  PROVE  Board'
<1> USE DEF Board, TypeOK, SetStatus, dvars
<1>0. t \in Tasks BY DEF Live
<1>1. clock \in Times /\ \A x \in Tasks : since[x] \in Nat /\ since[x] <= clock
  BY DEF DTypeOK, Times, SinceInPast
<1>2. TypeOK' /\ SinceInPast'
  BY <1>0, <1>1 DEF DInv, SinceInPast, Times
<1>3. Live' = Live /\ LiveDecisions' = LiveDecisions
  BY DEF Live, LiveDecisions
<1>4. TaskEdgesSound' /\ Acyclic'
  BY <1>3 DEF TaskEdgesSound, Crosses, Acyclic, Reaches
<1>5. DraftIsSecret' /\ UnbornSilent'
  BY <1>0, <1>3 DEF DraftIsSecret, UnbornSilent, Live
<1>6. ASSUME NEW x \in Live, status'[x] = "in_progress", NEW b \in OpenBlockers(x)'
      PROVE  depAt[<<x, b>>] >= since'[x] \/ since'[b] >= since'[x]
  <2>0. x \in Tasks /\ b \in Live /\ b \in Tasks /\ <<x, b>> \in deps /\ status'[b] \notin Closed
    BY <1>3, <1>6 DEF OpenBlockers, Open, Live
  <2>1. CASE x = t
    <3>1. s = "in_progress"
      BY <1>0, <1>6, <2>1
    <3>2. status[b] \notin Closed
      BY <1>0, <2>0, <2>1, <3>1 DEF Closed
    <3> QED BY <2>0, <2>1, <3>1, <3>2 DEF Held, OpenBlockers, Open
  <2>2. CASE x # t /\ b # t
    BY <1>0, <1>6, <2>0, <2>2 DEF OpenBlockerIsDated, OpenBlockers, Open
  <2>3. CASE x # t /\ b = t
    <3>1. status[x] = "in_progress" /\ since'[x] = since[x] /\ since[x] <= clock
      BY <1>0, <1>1, <1>6, <2>0, <2>3
    <3>2. CASE s # status[t]
      BY <1>0, <1>1, <2>0, <2>3, <3>1, <3>2 DEF Times
    <3>3. CASE s = status[t]
      <4>1. status[b] \notin Closed /\ since'[b] = since[b]
        BY <1>0, <2>0, <2>3, <3>3
      <4> QED BY <2>0, <3>1, <4>1 DEF OpenBlockerIsDated, OpenBlockers, Open
    <3> QED BY <3>2, <3>3
  <2> QED BY <2>1, <2>2, <2>3
<1>7. OpenBlockerIsDated'
  BY <1>3, <1>6 DEF OpenBlockerIsDated
<1>8. GroundsDated'
  <2> SUFFICES ASSUME NEW x \in Live, status'[x] = "in_progress",
                      NEW d \in LiveDecisions, <<d, x>> \in links
               PROVE  Dated(d, x)'
    BY <1>3 DEF GroundsDated
  <2>1. CASE x = t
    <3>1. ~Held(t) BY <1>0, <2>1
    <3>2. ~Unsettled(d) BY <2>1, <3>1 DEF Held, UnsettledGrounds
    <3>3. ~ddraft[d] /\ dstatus[d] = "decided"
          /\ \A e \in LiveDecisions : edge[<<e, d>>] # "supersedes"
      BY <3>2, Zenon DEF Unsettled, Superseded
    <3> QED BY <1>3, <3>3, Zenon DEF Dated
  <2>2. CASE x # t
    <3>1. status[x] = "in_progress" /\ since'[x] = since[x]
      BY <1>0, <2>2 DEF Live
    <3> QED BY <3>1, DatedCarries DEF GroundsDated
  <2> QED BY <2>1, <2>2
<1> QED BY <1>2, <1>4, <1>5, <1>7, <1>8

-----------------------------------------------------------------------------
(* The edges of a task.                                                    *)

LEMMA AddDependencyKeeps ==
  ASSUME Board, NEW t \in Tasks, NEW b \in Tasks, AddDependency(t, b),
         UNCHANGED <<clock, projects, dvars>>, DInv'
  PROVE  Board'
<1> USE DEF Board, TypeOK, AddDependency, dvars
<1>1. TypeOK' /\ SinceInPast'
  BY DEF DInv, SinceInPast, TaskPairs, DTypeOK
<1>2. Live' = Live /\ LiveDecisions' = LiveDecisions
  BY DEF Live, LiveDecisions
<1>3. TaskEdgesSound'
  BY <1>2 DEF TaskEdgesSound, Crosses
<1>4. Acyclic'
  BY OneMoreEdge
<1>5. DraftIsSecret' /\ UnbornSilent'
  BY <1>2 DEF DraftIsSecret, UnbornSilent
<1>6. OpenBlockerIsDated'
  <2> SUFFICES ASSUME NEW x \in Live, status[x] = "in_progress", NEW c \in OpenBlockers(x)'
               PROVE  depAt'[<<x, c>>] >= since[x] \/ since[c] >= since[x]
    BY <1>2 DEF OpenBlockerIsDated
  <2>0. x \in Tasks /\ c \in Tasks /\ <<x, c>> \in TaskPairs /\ <<t, b>> \in TaskPairs
        /\ c \in Live /\ <<x, c>> \in deps' /\ Open(c)
    BY <1>2 DEF OpenBlockers, Open, Live, TaskPairs
  <2>1. CASE <<x, c>> = <<t, b>>
    BY <2>0, <2>1 DEF SinceInPast, Times, DTypeOK
  <2>2. CASE <<x, c>> # <<t, b>>
    BY <2>0, <2>2 DEF OpenBlockerIsDated, OpenBlockers, Open
  <2> QED BY <2>1, <2>2
<1>7. GroundsDated'
  BY <1>2, DatedCarries DEF GroundsDated
<1> QED BY <1>1, <1>3, <1>4, <1>5, <1>6, <1>7

LEMMA RemoveDependencyKeeps ==
  ASSUME Board, NEW t \in Tasks, NEW b \in Tasks, RemoveDependency(t, b),
         UNCHANGED <<clock, projects, dvars>>, DInv'
  PROVE  Board'
<1> USE DEF Board, TypeOK, RemoveDependency, dvars
<1>1. TypeOK' /\ SinceInPast'
  BY DEF DInv, SinceInPast
<1>2. Live' = Live /\ LiveDecisions' = LiveDecisions
  BY DEF Live, LiveDecisions
<1>3. TaskEdgesSound'
  BY <1>2 DEF TaskEdgesSound, Crosses
<1>4. Acyclic'
  BY FewerEdges
<1>5. DraftIsSecret' /\ UnbornSilent'
  BY <1>2 DEF DraftIsSecret, UnbornSilent
<1>6. OpenBlockerIsDated'
  BY <1>2 DEF OpenBlockerIsDated, OpenBlockers, Open
<1>7. GroundsDated'
  BY <1>2, DatedCarries DEF GroundsDated
<1> QED BY <1>1, <1>3, <1>4, <1>5, <1>6, <1>7

LEMMA LinkKeeps ==
  ASSUME Board, NEW d \in Decisions, NEW t \in Tasks, Link(d, t) \/ Unlink(d, t),
         UNCHANGED <<clock, projects, dvars>>, DInv'
  PROVE  Board'
<1> USE DEF Board, TypeOK, dvars
<1>0. UNCHANGED <<life, draft, status, since, home, deps, depAt, announced>>
  BY DEF Link, Unlink
<1>1. TypeOK' /\ SinceInPast'
  <2>1. CASE Link(d, t)
    BY <1>0, <2>1 DEF Link, DInv, SinceInPast, LinkPairs, DTypeOK
  <2>2. CASE Unlink(d, t)
    BY <1>0, <2>2 DEF Unlink, DInv, SinceInPast
  <2> QED BY <2>1, <2>2
<1>2. Live' = Live /\ LiveDecisions' = LiveDecisions
  BY <1>0 DEF Live, LiveDecisions
<1>3. TaskEdgesSound'
  BY <1>0, <1>2 DEF Link, Unlink, TaskEdgesSound, Crosses
<1>4. Acyclic' /\ DraftIsSecret' /\ UnbornSilent'
  BY <1>0, <1>2 DEF Acyclic, Reaches, DraftIsSecret, UnbornSilent
<1>5. OpenBlockerIsDated'
  BY <1>0, <1>2 DEF OpenBlockerIsDated, OpenBlockers, Open
<1>6. GroundsDated'
  <2> SUFFICES ASSUME NEW x \in Live, status[x] = "in_progress",
                      NEW e \in LiveDecisions, <<e, x>> \in links'
               PROVE  Dated(e, x)'
    BY <1>0, <1>2 DEF GroundsDated
  <2>0. x \in Tasks /\ e \in Decisions /\ <<e, x>> \in LinkPairs /\ <<d, t>> \in LinkPairs
    BY DEF Live, LiveDecisions, LinkPairs
  <2>1. CASE <<e, x>> = <<d, t>> /\ Link(d, t)
    <3>1. linkAt'[<<e, x>>] >= since'[x]
      BY <1>0, <2>0, <2>1 DEF Link, SinceInPast, DTypeOK, Times
    <3> QED BY <3>1 DEF Dated
  <2>2. CASE ~(<<e, x>> = <<d, t>> /\ Link(d, t))
    <3>1. <<e, x>> \in links /\ linkAt'[<<e, x>>] = linkAt[<<e, x>>]
      BY <2>0, <2>2 DEF Link, Unlink
    <3>2. Dated(e, x)
      BY <3>1 DEF GroundsDated
    <3> QED BY <1>0, <1>2, <3>1, <3>2, Zenon DEF Dated
  <2> QED BY <2>1, <2>2
<1> QED BY <1>1, <1>3, <1>4, <1>5, <1>6

-----------------------------------------------------------------------------
(* The steps that go through the book.                                     *)

\* Rows of either kind go, with every edge and link that names them.
LEMMA SweepBoardKeeps ==
  ASSUME Board, NEW gone \in SUBSET Live, NEW goneD \in SUBSET LiveDecisions,
         SweepTasks(gone, goneD), SweepDecisions(goneD), UNCHANGED clock,
         \A x \in Live \ gone : home[x] \in projects' \cup {Inbox},
         DInv'
  PROVE  Board'
<1> USE DEF Board, TypeOK, SweepTasks, SweepDecisions
<1>1. TypeOK' /\ SinceInPast'
  BY DEF DInv, SinceInPast, Lives, Live
<1>2. Live' = Live \ gone /\ LiveDecisions' = LiveDecisions \ goneD
  BY DEF Live, LiveDecisions, DTypeOK
<1>3. TaskEdgesSound'
  <2>1. \A e \in deps' : {e[1], e[2]} \subseteq Live' /\ ~Crosses(home[e[1]], home[e[2]])
    BY <1>2 DEF TaskEdgesSound
  <2>2. \A l \in links' : l[1] \in LiveDecisions' /\ l[2] \in Live'
                           /\ ~Crosses(dhome[l[1]], home[l[2]])
    BY <1>2 DEF TaskEdgesSound
  <2> QED BY <1>2, <2>1, <2>2 DEF TaskEdgesSound, Crosses
<1>4. Acyclic'
  BY FewerEdges
<1>5. DraftIsSecret' /\ UnbornSilent'
  BY <1>2 DEF DraftIsSecret, UnbornSilent
<1>6. OpenBlockerIsDated'
  BY <1>2 DEF OpenBlockerIsDated, OpenBlockers, Open
<1>7. GroundsDated'
  <2> SUFFICES ASSUME NEW x \in Live, status[x] = "in_progress",
                      NEW d \in LiveDecisions', <<d, x>> \in links
               PROVE  Dated(d, x)'
    BY <1>2 DEF GroundsDated
  <2>1. Dated(d, x)
    BY <1>2 DEF GroundsDated
  <2>2. \A s \in LiveDecisions' :
          s \in LiveDecisions /\ (edge'[<<s, d>>] = "supersedes" => edge[<<s, d>>] = "supersedes")
    BY <1>2 DEF Pairs, LiveDecisions
  <2> QED BY <2>1, <2>2, Zenon DEF Dated
<1> QED BY <1>1, <1>3, <1>4, <1>5, <1>6, <1>7

\* A step on a decision dates what it unsettles.
LEMMA DecisionStepKeeps ==
  ASSUME Board, DStep, UNCHANGED <<clock, projects, tvars>>, DInv'
  PROVE  Board'
<1> USE DEF Board, TypeOK, tvars
<1>0. PICK d \in Decisions :
        \/ \E p \in Projects : DecisionAdd(d, p)
        \/ FinishWriting(d) \/ Reject(d) \/ Reopen(d)
        \/ \E e \in Decisions :
             Supersede(d, e) \/ Amend(d, e) \/ BuildsOn(d, e) \/ UnlinkEdge(d, e)
  BY DEF DStep
<1>1. TypeOK' /\ SinceInPast' /\ Live' = Live
  BY DEF DInv, SinceInPast, Live
<1>2. LiveDecisions \subseteq LiveDecisions' /\ \A e \in LiveDecisions : dhome'[e] = dhome[e]
  <2>1. CASE \E p \in Projects : DecisionAdd(d, p)
    BY <2>1 DEF DecisionAdd, LiveDecisions, DTypeOK
  <2>2. CASE FinishWriting(d) \/ Reject(d) \/ Reopen(d)
    BY <2>2 DEF FinishWriting, Reject, Reopen, LiveDecisions
  <2>3. CASE \E e \in Decisions :
               Supersede(d, e) \/ Amend(d, e) \/ BuildsOn(d, e) \/ UnlinkEdge(d, e)
    BY <2>3 DEF Supersede, Amend, BuildsOn, PutEdge, UnlinkEdge, LiveDecisions
  <2> QED BY <1>0, <2>1, <2>2, <2>3
<1>3. TaskEdgesSound'
  <2>1. \A e \in deps : {e[1], e[2]} \subseteq Live /\ ~Crosses(home[e[1]], home[e[2]])
    BY DEF TaskEdgesSound
  <2>2. \A l \in links : l[1] \in LiveDecisions' /\ l[2] \in Live
                          /\ ~Crosses(dhome'[l[1]], home[l[2]])
    BY <1>2 DEF TaskEdgesSound
  <2> QED BY <1>1, <2>1, <2>2 DEF TaskEdgesSound, Crosses
<1>4. Acyclic' /\ DraftIsSecret' /\ UnbornSilent'
  BY <1>1 DEF Acyclic, Reaches, DraftIsSecret, UnbornSilent
<1>5. OpenBlockerIsDated'
  BY <1>1 DEF OpenBlockerIsDated, OpenBlockers, Open
<1>6. ASSUME NEW x \in Live, status[x] = "in_progress", NEW g \in LiveDecisions', <<g, x>> \in links
      PROVE  Dated(g, x)'
  <2>0. x \in Tasks /\ g \in LiveDecisions /\ g \in Decisions /\ Dated(g, x)
    BY <1>6 DEF Live, TaskEdgesSound, GroundsDated, LiveDecisions
  <2>1. clock \in Nat /\ since[x] \in Nat /\ clock >= since[x]
    BY <2>0 DEF SinceInPast, DTypeOK, Times
  <2>2. CASE \E p \in Projects : DecisionAdd(d, p)
    <3>1. d # g /\ edge' = edge /\ drawnAt' = drawnAt
      BY <2>0, <2>2 DEF DecisionAdd, LiveDecisions
    <3>2. ddraft'[g] = ddraft[g] /\ dstatus'[g] = dstatus[g] /\ dclock'[g] = dclock[g]
      BY <2>0, <2>2, <3>1 DEF DecisionAdd, DTypeOK
    <3>3. \A s \in LiveDecisions' : edge[<<s, g>>] = "supersedes" => s \in LiveDecisions
      BY <2>0 DEF DInv, EdgesSound, Pairs, LiveDecisions
    <3> QED BY <2>0, <3>1, <3>2, <3>3, Zenon DEF Dated
  <2>3. CASE FinishWriting(d) \/ Reject(d) \/ Reopen(d)
    <3>1. LiveDecisions' = LiveDecisions /\ edge' = edge /\ drawnAt' = drawnAt
      BY <2>3 DEF FinishWriting, Reject, Reopen, LiveDecisions
    <3>2. CASE g = d
      <4>1. dclock' = [dclock EXCEPT ![d] = clock]
        BY <2>3 DEF FinishWriting, Reject, Reopen
      <4>2. dclock'[g] >= since'[x]
        BY <2>0, <2>1, <3>2, <4>1 DEF DTypeOK
      <4> QED BY <2>0, <3>1, <4>2, Zenon DEF Dated
    <3>3. CASE g # d
      <4>1. \E v, w \in {"decided", "rejected", TRUE, FALSE} :
              /\ dstatus' = [dstatus EXCEPT ![d] = v] /\ ddraft' = [ddraft EXCEPT ![d] = w]
              /\ dclock' = [dclock EXCEPT ![d] = clock]
        BY <2>3, Zenon DEF FinishWriting, Reject, Reopen
      <4>2. ddraft'[g] = ddraft[g] /\ dstatus'[g] = dstatus[g] /\ dclock'[g] = dclock[g]
        BY <2>0, <3>3, <4>1, Zenon DEF DTypeOK
      <4> QED BY <2>0, <3>1, <4>2, Zenon DEF Dated
    <3> QED BY <3>2, <3>3
  <2>4. ASSUME NEW e \in Decisions,
               \/ \E kind \in EdgeKinds : PutEdge(d, e, kind)
               \/ UnlinkEdge(d, e)
        PROVE  Dated(g, x)'
    <3>1. LiveDecisions' = LiveDecisions /\ UNCHANGED <<ddraft, dstatus, dclock>>
      BY <2>4 DEF PutEdge, UnlinkEdge, LiveDecisions
    <3>2. ASSUME NEW s \in LiveDecisions, edge'[<<s, g>>] = "supersedes"
          PROVE  \/ drawnAt'[<<s, g>>] >= since[x]
                 \/ edge[<<s, g>>] = "supersedes" /\ drawnAt'[<<s, g>>] = drawnAt[<<s, g>>]
      <4>0. <<s, g>> \in Pairs /\ <<d, e>> \in Pairs
        BY <2>0 DEF Pairs, LiveDecisions
      <4>1. CASE <<s, g>> = <<d, e>>
        BY <2>1, <2>4, <3>2, <4>0, <4>1 DEF PutEdge, UnlinkEdge, DTypeOK
      <4>2. CASE <<s, g>> # <<d, e>>
        BY <2>4, <3>2, <4>0, <4>2 DEF PutEdge, UnlinkEdge, DTypeOK
      <4> QED BY <4>1, <4>2
    <3> QED BY <2>0, <3>1, <3>2, Zenon DEF Dated
  <2>5. CASE \E e \in Decisions :
               Supersede(d, e) \/ Amend(d, e) \/ BuildsOn(d, e) \/ UnlinkEdge(d, e)
    BY <2>4, <2>5 DEF Supersede, Amend, BuildsOn, EdgeKinds
  <2> QED BY <1>0, <2>2, <2>3, <2>5
<1>7. GroundsDated'
  BY <1>1, <1>6 DEF GroundsDated
<1> QED BY <1>1, <1>3, <1>4, <1>5, <1>7

-----------------------------------------------------------------------------
\* Every step of the board keeps its invariant.
LEMMA NextBoard == Board /\ [Next]_vars => Board'
<1> SUFFICES ASSUME Board, [Next]_vars PROVE Board'
  OBVIOUS
<1>0. DInv'
  BY BoardStepIsBookStep, DNextInv DEF Board
<1>1. CASE TaskStep /\ UNCHANGED <<clock, projects, dvars>>
  <2>1. PICK t \in Tasks :
          \/ \E h \in Homes : TaskAdd(t, h)
          \/ FinishCreating(t) \/ TaskDelete(t)
          \/ \E p \in Projects : MoveTo(t, p)
          \/ Reserve(t) \/ Release(t)
          \/ \E s \in {"done", "rejected", "blocked"} : Settle(t, s)
          \/ \E b \in Tasks : AddDependency(t, b) \/ RemoveDependency(t, b)
          \/ \E d \in Decisions : Link(d, t) \/ Unlink(d, t)
    BY <1>1 DEF TaskStep
  <2>2. CASE \E h \in Homes : TaskAdd(t, h)
    BY <1>0, <1>1, <2>2, TaskAddKeeps
  <2>3. CASE FinishCreating(t)
    BY <1>0, <1>1, <2>3, FinishCreatingKeeps
  <2>4. CASE TaskDelete(t)
    <3>1. {t} \in SUBSET Live /\ {} \in SUBSET LiveDecisions /\ SweepTasks({t}, {})
      BY <2>4 DEF TaskDelete
    <3>2. SweepDecisions({})
      BY <1>1 DEF dvars, SweepDecisions, Board, DInv, DTypeOK
    <3>3. \A x \in Live \ {t} : home[x] \in projects' \cup {Inbox}
      BY <1>1 DEF Board, TaskEdgesSound
    <3> QED BY <1>0, <1>1, <3>1, <3>2, <3>3, SweepBoardKeeps
  <2>5. CASE \E p \in Projects : MoveTo(t, p)
    BY <1>0, <1>1, <2>5, MoveKeeps
  <2>6. CASE Reserve(t)
    <3>1. t \in Live /\ SetStatus(t, "in_progress") /\ "in_progress" \in Statuses
          /\ status[t] = "todo" /\ ~Held(t) /\ ~draft[t]
      BY <2>6 DEF Reserve, Held, Statuses
    <3> QED BY <1>0, <1>1, <3>1, StatusKeeps
  <2>7. CASE Release(t)
    <3>1. t \in Live /\ SetStatus(t, "todo") /\ "todo" \in Statuses
      BY <2>7 DEF Release, Statuses
    <3> QED BY <1>0, <1>1, <3>1, StatusKeeps
  <2>8. ASSUME NEW s \in {"done", "rejected", "blocked"}, Settle(t, s) PROVE Board'
    <3>1. t \in Live /\ SetStatus(t, s) /\ s \in Statuses /\ s # "in_progress" /\ ~draft[t]
      BY <2>8 DEF Settle, Statuses
    <3> QED BY <1>0, <1>1, <3>1, StatusKeeps
  <2>9. CASE \E b \in Tasks : AddDependency(t, b) \/ RemoveDependency(t, b)
    BY <1>0, <1>1, <2>9, AddDependencyKeeps, RemoveDependencyKeeps
  <2>10. CASE \E d \in Decisions : Link(d, t) \/ Unlink(d, t)
    BY <1>0, <1>1, <2>10, LinkKeeps
  <2> QED BY <2>1, <2>2, <2>3, <2>4, <2>5, <2>6, <2>7, <2>8, <2>9, <2>10
<1>2. CASE DStep /\ UNCHANGED <<clock, projects, tvars>>
  BY <1>0, <1>2, DecisionStepKeeps
<1>3. ASSUME NEW d \in Decisions, DecisionGone(d), UNCHANGED <<clock, projects>>
      PROVE  Board'
  <2>1. {} \in SUBSET Live /\ {d} \in SUBSET LiveDecisions
        /\ SweepTasks({}, {d}) /\ SweepDecisions({d})
    BY <1>3 DEF DecisionGone, DecisionDelete
  <2>2. \A x \in Live \ {} : home[x] \in projects' \cup {Inbox}
    BY <1>3 DEF Board, TaskEdgesSound
  <2> QED BY <1>0, <1>3, <2>1, <2>2, SweepBoardKeeps
<1>4. ASSUME NEW p \in Projects, ProjectDelete(p), UNCHANGED clock PROVE Board'
  <2> DEFINE gone == {t \in Live : home[t] = p}
             goneD == {d \in LiveDecisions : dhome[d] = p}
  <2>1. gone \in SUBSET Live /\ goneD \in SUBSET LiveDecisions
        /\ SweepTasks(gone, goneD) /\ SweepDecisions(goneD)
    BY <1>4 DEF ProjectDelete, DProjectDelete
  <2>2. \A x \in Live \ gone : home[x] \in projects' \cup {Inbox}
    BY <1>4 DEF ProjectDelete, DProjectDelete, Board, TaskEdgesSound
  <2> HIDE DEF gone, goneD
  <2> QED BY <1>0, <1>4, <2>1, <2>2, SweepBoardKeeps
<1>5. CASE SecondPasses /\ UNCHANGED <<projects, dvars, tvars>>
  <2> USE <1>5 DEF Board, SecondPasses, dvars, tvars
  <2>1. TypeOK' /\ SinceInPast'
    BY <1>0 DEF DInv, TypeOK, DTypeOK, SinceInPast, Times
  <2>2. TaskEdgesSound' /\ Acyclic' /\ DraftIsSecret' /\ UnbornSilent'
    BY DEF TaskEdgesSound, Live, LiveDecisions, Crosses, Acyclic, Reaches, DraftIsSecret, UnbornSilent
  <2>3. OpenBlockerIsDated' /\ GroundsDated'
    BY DEF OpenBlockerIsDated, OpenBlockers, Open, Live, GroundsDated, Dated, LiveDecisions
  <2> QED BY <1>0, <2>1, <2>2, <2>3
<1>6. CASE UNCHANGED vars
  <2> USE <1>6 DEF Board, vars, dvars, tvars
  <2>1. TypeOK' /\ SinceInPast'
    BY <1>0 DEF DInv, TypeOK, SinceInPast
  <2>2. TaskEdgesSound' /\ Acyclic' /\ DraftIsSecret' /\ UnbornSilent'
    BY DEF TaskEdgesSound, Live, LiveDecisions, Crosses, Acyclic, Reaches, DraftIsSecret, UnbornSilent
  <2>3. OpenBlockerIsDated' /\ GroundsDated'
    BY DEF OpenBlockerIsDated, OpenBlockers, Open, Live, GroundsDated, Dated, LiveDecisions
  <2> QED BY <1>0, <2>1, <2>2, <2>3
<1> QED BY <1>1, <1>2, <1>3, <1>4, <1>5, <1>6 DEF Next

\* The strengthened invariant of the board.
THEOREM BoardInvariance == Spec => []Board
BY InitBoard, NextBoard, PTL DEF Spec

\* Every variable of the board keeps its type.
THEOREM TypeCorrect == Spec => []TypeOK
<1>1. Board => TypeOK BY DEF Board
<1> QED BY BoardInvariance, <1>1, PTL

\* No sequence of edges, moves and deletions makes tasks wait in a ring.
THEOREM NeverACycle == Spec => []Acyclic
<1>1. Board => Acyclic BY DEF Board
<1> QED BY BoardInvariance, <1>1, PTL

\* However the tasks were made to wait on each other, while one is open there is
\* one that waits on no other.
THEOREM SomeoneAlwaysCanStart == Spec => []SomeoneCanStart
<1>1. Board => SomeoneCanStart
  <2> SUFFICES ASSUME Board, NEW x \in Live, Open(x)
               PROVE  \E t \in Live : Open(t) /\ OpenBlockers(t) = {}
    BY DEF SomeoneCanStart
  <2> DEFINE T == {t \in Live : Open(t)}
  <2>1. T \in SUBSET Tasks /\ T # {}
    BY DEF Live
  <2>2. PICK t \in T : \A b \in T : <<t, b>> \notin deps
    <3> HIDE DEF T
    <3> QED BY <2>1, SomeoneIsLast DEF Board
  <2>3. OpenBlockers(t) = {}
    BY <2>2 DEF OpenBlockers
  <2> QED BY <2>2, <2>3
<1> QED BY BoardInvariance, <1>1, PTL

\* No edge or link of a task dangles or crosses projects.
THEOREM EdgesStaySound == Spec => []TaskEdgesSound
<1>1. Board => TaskEdgesSound BY DEF Board
<1> QED BY BoardInvariance, <1>1, PTL

\* A draft is a todo nobody holds, announced once when it is finished.
THEOREM DraftsStaySecret == Spec => []DraftIsSecret
<1>1. Board => DraftIsSecret BY DEF Board
<1> QED BY BoardInvariance, <1>1, PTL

\* An open blocker of a reserved task came, or came back, after it.
THEOREM BlockersAreDated == Spec => []OpenBlockerIsDated
<1>1. Board => OpenBlockerIsDated BY DEF Board
<1> QED BY BoardInvariance, <1>1, PTL

\* The holder hears of every open blocker but one pinned on in the second of
\* the reservation or opened again since.
THEOREM LateBlockersAreReported == Spec => []BlockerIsReported
<1>1. Board => BlockerIsReported
  <2> SUFFICES ASSUME Board, NEW t \in Live, status[t] = "in_progress",
                      NEW b \in OpenBlockers(t)
               PROVE  \/ b \in AddedBlockers(t) \/ depAt[<<t, b>>] = since[t]
                      \/ since[b] >= since[t]
    BY DEF BlockerIsReported
  <2>1. depAt[<<t, b>>] >= since[t] \/ since[b] >= since[t]
    BY DEF Board, OpenBlockerIsDated
  <2>2. since[t] \in Nat /\ depAt[<<t, b>>] \in Nat
    BY DEF Board, TypeOK, Times, Live, OpenBlockers, TaskPairs
  <2> QED BY <2>1, <2>2 DEF AddedBlockers
<1> QED BY BoardInvariance, <1>1, PTL

\* A decision that came loose under a reservation is reported, or came loose
\* in the reservation's own second.
THEOREM LooseGroundsAreDated == Spec => []UnsettledGroundIsDated
<1>1. Board => UnsettledGroundIsDated
  <2> SUFFICES ASSUME Board, NEW t \in Live, status[t] = "in_progress",
                      NEW d \in UnsettledGrounds(t)
               PROVE  \/ d \in AddedDecisions(t) \cup ReopenedDecisions(t)
                      \/ linkAt[<<d, t>>] = since[t] \/ dclock[d] = since[t]
                      \/ \E s \in LiveDecisions :
                           edge[<<s, d>>] = "supersedes" /\ drawnAt[<<s, d>>] = since[t]
    BY DEF UnsettledGroundIsDated
  <2>1. d \in LiveDecisions /\ <<d, t>> \in links /\ Unsettled(d) /\ Dated(d, t)
    BY DEF UnsettledGrounds, Board, GroundsDated
  <2>2. since[t] \in Nat /\ linkAt[<<d, t>>] \in Nat /\ dclock[d] \in Nat
        /\ \A s \in LiveDecisions : drawnAt[<<s, d>>] \in Nat
    BY <2>1 DEF Board, TypeOK, DTypeOK, Times, Live, LiveDecisions, LinkPairs, Pairs
  <2>3. CASE linkAt[<<d, t>>] >= since[t]
    BY <2>2, <2>3 DEF AddedDecisions
  <2>4. CASE dclock[d] >= since[t]
    BY <2>2, <2>4 DEF ReopenedDecisions
  <2>5. ASSUME NEW s \in LiveDecisions, edge[<<s, d>>] = "supersedes",
               drawnAt[<<s, d>>] >= since[t]
        PROVE  \/ d \in ReopenedDecisions(t)
               \/ drawnAt[<<s, d>>] = since[t]
    BY <2>2, <2>5 DEF ReopenedDecisions
  <2>6. \/ linkAt[<<d, t>>] >= since[t] \/ dclock[d] >= since[t]
        \/ \E s \in LiveDecisions : edge[<<s, d>>] = "supersedes" /\ drawnAt[<<s, d>>] >= since[t]
    BY <2>1, Zenon DEF Dated, Unsettled, Superseded
  <2> QED BY <2>3, <2>4, <2>5, <2>6
<1> QED BY BoardInvariance, <1>1, PTL

\* The board is a book of decisions: what holds of the book holds under it.
THEOREM BoardIsABook == Spec => DSpec
<1>1. Init => DInit BY DEF Init
<1> QED BY <1>1, BoardStepIsBookStep, PTL DEF Spec, DSpec
=============================================================================
