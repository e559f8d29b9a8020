--------------------------- MODULE StageOrderProofs ---------------------------
(***************************************************************************)
(* For any number of tasks, decisions, values and closers, and whatever    *)
(* settings a category is given: it is of its kind, a required one has an  *)
(* answer to offer, one of a single answer has it once per record, the     *)
(* wait along its order never goes round, a value reopened ahead of a task *)
(* under way is reported to its holder, and whom a close released is told. *)
(*                                                                         *)
(* The invariant is the conjunction of the first of them with what the     *)
(* settings promise each other (SoundAxis); none of these needs the        *)
(* announcing, which has an invariant of its own (WordsOwed).              *)
(***************************************************************************)
EXTENDS StageOrder, FiniteSetTheorems, WellFoundedInduction, TLAPS

SoundAxis == axis # NoAxis => Sound(axis)

IInv == TypeOK /\ SoundAxis /\ RequiredOffers /\ OneAnswer /\ ReopenedIsReported

\* What a step does to the store, without the history kept of it.
Stored ==
  \/ Step
  \/ \E p \in Closers, v \in Values : Close(p, v)
  \/ \E p \in Closers : Say(p) \/ Die(p)

-----------------------------------------------------------------------------
(* Kinds.                                                                   *)

LEMMA InitTypeOK == Init => TypeOK
<1> SUFFICES ASSUME Init PROVE TypeOK
  OBVIOUS
<1>1. LiveValues = {} /\ \A r \in Records : Carried(r) = {}
  BY DEF Init, LiveValues, Carried
<1>2. Kinds
  BY StagesAssumption DEF Init, Kinds, Stages
<1>3. InLine
  BY <1>1 DEF Init, InLine
<1>4. RowsLive
  BY <1>1 DEF RowsLive, Records
<1> QED BY <1>1, <1>2, <1>3, <1>4 DEF TypeOK

LEMMA KindsStep == Kinds /\ Stored => Kinds'
<1> SUFFICES ASSUME Kinds, Stored PROVE Kinds'
  OBVIOUS
<1> USE StagesAssumption DEF Kinds
<1>0. now' \in {now, now + 1}
  BY DEF Stored, Step, DeleteAxis, Tick, AddAxis, Update, ValueAdd, CloseInApp, Reopen, ValueMove,
         ValueDelete, Set, Unset, TaskAdd, FinishCreating, Reserve, Release, Block, Settle, TaskDelete,
         Close, Say, Die, Flip, To
<1>1. ASSUME DeleteAxis PROVE Kinds'
  BY <1>1 DEF DeleteAxis, SweepValues, tvars
<1>2. ASSUME Tick PROVE Kinds'
  <2>1. 0..now \subseteq 0..now' /\ now' \in 1..MaxTime
    BY <1>2 DEF Tick
  <2> QED BY <1>2, <2>1 DEF Tick, avars, tvars
<1>3. ASSUME NEW d \in Shapes, AddAxis(d) \/ Update(d) PROVE Kinds'
  BY <1>3 DEF AddAxis, Update, tvars
<1>4. ASSUME NEW v \in Values, ValueAdd(v) PROVE Kinds'
  BY <1>4 DEF ValueAdd, tvars
<1>5. ASSUME NEW v \in Values, NEW s \in {"open", "closed"}, Flip(v, s),
             saying' \in [Closers -> Values \cup {Nobody}]
      PROVE  Kinds'
  BY <1>5 DEF Flip, tvars
<1>6. ASSUME NEW v \in Values, CloseInApp(v) \/ Reopen(v) PROVE Kinds'
  BY <1>5, <1>6 DEF CloseInApp, Reopen
<1>7. ASSUME NEW v \in Values, NEW ahead \in SUBSET Values, ValueMove(v, ahead) PROVE Kinds'
  BY <1>7 DEF ValueMove, tvars
<1>8. ASSUME NEW v \in Values, NEW to \in Values \cup {Nobody}, ValueDelete(v, to) PROVE Kinds'
  <2>1. on' \in [Records -> [Values -> Nat]]
    BY <1>8 DEF ValueDelete
  <2> QED BY <1>8, <2>1 DEF ValueDelete, SweepValues, tvars
<1>9. ASSUME NEW v \in Values, NEW r \in Records, Set(r, v) \/ Unset(r, v) PROVE Kinds'
  <2>1. CASE Set(r, v)
    BY <2>1 DEF Set, avars, tvars
  <2>2. CASE Unset(r, v)
    <3>1. on[r][v] - 1 \in Nat
      BY <2>2 DEF Unset, Carried
    <3> QED BY <2>2, <3>1 DEF Unset, avars, tvars
  <2> QED BY <1>9, <2>1, <2>2
<1>10. ASSUME NEW t \in Tasks, NEW s \in Stages, NEW c \in {now, 0, since[t]},
              stage' = [stage EXCEPT ![t] = s], since' = [since EXCEPT ![t] = c],
              UNCHANGED <<avars, saying, now>>, on' \in [Records -> [Values -> Nat]]
       PROVE  Kinds'
  <2>1. now \in 0..now /\ 0 \in 0..now
    OBVIOUS
  <2>2. stage' \in [Tasks -> Stages] /\ since' \in [Tasks -> 0..now]
    <3>1. c \in 0..now
      BY <2>1
    <3> HIDE DEF Kinds
    <3>2. stage \in [Tasks -> Stages] /\ since \in [Tasks -> 0..now]
      BY DEF Kinds
    <3> QED BY <1>10, <3>1, <3>2
  <2>3. UNCHANGED <<axis, state, flipped, saying, now>>
    BY <1>10 DEF avars
  <2> QED BY <1>10, <2>2, <2>3
<1>11. ASSUME NEW t \in Tasks,
              \/ TaskAdd(t) \/ FinishCreating(t) \/ Reserve(t) \/ Release(t) \/ Block(t)
              \/ Settle(t) \/ TaskDelete(t)
       PROVE  Kinds'
  <2>1. ASSUME NEW s \in Stages, To(t, s) PROVE Kinds'
    BY <1>10, <2>1 DEF To
  <2>2. CASE FinishCreating(t)
    <3>1. since' = [since EXCEPT ![t] = since[t]] /\ "todo" \in Stages
      BY <2>2 DEF FinishCreating, Stages
    <3> QED BY <1>10, <2>2, <3>1 DEF FinishCreating
  <2>3. CASE TaskDelete(t)
    <3>1. on' \in [Records -> [Values -> Nat]] /\ "gone" \in Stages
      BY <2>3 DEF TaskDelete, Stages
    <3> QED BY <1>10, <2>3, <3>1 DEF TaskDelete
  <2> QED BY <1>11, <2>1, <2>2, <2>3 DEF TaskAdd, Reserve, Release, Block, Settle, Stages
<1>12. ASSUME NEW p \in Closers, Say(p) \/ Die(p) PROVE Kinds'
  BY <1>12 DEF Say, Die, avars, tvars
<1>14. ASSUME NEW v \in Values, NEW p \in Closers, Close(p, v) PROVE Kinds'
  BY <1>5, <1>14 DEF Close
<1> HIDE DEF Kinds
<1>13. ASSUME Step PROVE Kinds'
  BY <1>1, <1>2, <1>3, <1>4, <1>6, <1>7, <1>8, <1>9, <1>11, <1>13, Zenon DEF Step
<1> QED BY <1>12, <1>13, <1>14, Zenon DEF Stored

-----------------------------------------------------------------------------
(* One line, and rows on what lives.                                        *)

\* The steps that leave the category and its values alone.
LEMMA QuietSteps ==
  ASSUME Stored,
         ~DeleteAxis, \A d \in Shapes : ~AddAxis(d) /\ ~Update(d),
         \A v \in Values :
           /\ ~ValueAdd(v) /\ ~CloseInApp(v) /\ ~Reopen(v)
           /\ \A ahead \in SUBSET Values : ~ValueMove(v, ahead)
           /\ \A to \in Values \cup {Nobody} : ~ValueDelete(v, to)
           /\ \A p \in Closers : ~Close(p, v)
  PROVE  UNCHANGED avars
BY DEF Stored, Step, Tick, Set, Unset, TaskAdd, FinishCreating, Reserve, Release, Block, Settle,
       TaskDelete, Say, Die, To

\* Opening and closing moves no value into or out of the living.
LEMMA FlipLive ==
  ASSUME Kinds, NEW v \in Values, CloseInApp(v) \/ Reopen(v) \/ \E p \in Closers : Close(p, v)
  PROVE  LiveValues' = LiveValues /\ UNCHANGED <<axis, before, tvars, on, now>>
BY DEF Kinds, CloseInApp, Reopen, Close, MayClose, Flip, LiveValues

LEMMA SweepLive ==
  ASSUME Kinds, NEW vs \in SUBSET Values, SweepValues(vs)
  PROVE  LiveValues' = LiveValues \ vs
BY DEF Kinds, SweepValues, LiveValues

LEMMA InLineStep == Kinds /\ InLine /\ Stored => InLine'
<1> SUFFICES ASSUME Kinds, InLine, Stored PROVE InLine'
  OBVIOUS
<1>1. CASE DeleteAxis
  BY <1>1, SweepLive DEF DeleteAxis, InLine, SweepValues, LiveValues
<1>2. ASSUME NEW d \in Shapes, AddAxis(d) \/ Update(d) PROVE InLine'
  BY <1>2 DEF AddAxis, Update, InLine, LiveValues
<1>3. ASSUME NEW v \in Values, ValueAdd(v) PROVE InLine'
  <2>1. LiveValues' = LiveValues \cup {v} /\ v \notin LiveValues
    BY <1>3 DEF ValueAdd, LiveValues, Kinds
  <2>2. \A x, y : <<x, y>> \in before' <=> (<<x, y>> \in before \/ (x \in LiveValues /\ y = v))
    BY <1>3 DEF ValueAdd
  <2>3. \A x, y : <<x, y>> \in before => x \in LiveValues /\ y \in LiveValues
    BY DEF InLine
  <2>4. before' \subseteq LiveValues' \X LiveValues'
    BY <1>3, <2>1 DEF ValueAdd, InLine
  <2>5. \A x, y \in LiveValues' : x # y => (<<x, y>> \in before' <=> <<y, x>> \notin before')
    <3> SUFFICES ASSUME NEW x \in LiveValues \cup {v}, NEW y \in LiveValues \cup {v}, x # y
                 PROVE  <<x, y>> \in before' <=> <<y, x>> \notin before'
      BY <2>1
    <3>1. CASE x # v /\ y # v
      <4>1. <<x, y>> \in before <=> <<y, x>> \notin before
        BY <3>1 DEF InLine
      <4> QED BY <2>2, <3>1, <4>1
    <3>2. CASE x = v \/ y = v
      BY <2>1, <2>2, <2>3, <3>2
    <3> QED BY <3>1, <3>2
  <2>6. \A x \in Values : <<x, x>> \notin before'
    BY <2>1, <2>2, <2>3 DEF InLine
  <2>7. \A x, y, z \in Values :
          <<x, y>> \in before' /\ <<y, z>> \in before' => <<x, z>> \in before'
    <3> SUFFICES ASSUME NEW x \in Values, NEW y \in Values, NEW z \in Values,
                        <<x, y>> \in before', <<y, z>> \in before'
                 PROVE  <<x, z>> \in before'
      OBVIOUS
    <3>1. <<x, y>> \in before /\ x \in LiveValues
      BY <2>1, <2>2, <2>3
    <3>2. CASE z = v
      BY <2>2, <3>1, <3>2
    <3>3. CASE z # v
      BY <2>2, <3>1, <3>3 DEF InLine
    <3> QED BY <3>2, <3>3
  <2> QED BY <2>4, <2>5, <2>6, <2>7 DEF InLine
<1>4. ASSUME NEW v \in Values, CloseInApp(v) \/ Reopen(v) \/ \E p \in Closers : Close(p, v)
      PROVE  InLine'
  BY <1>4, FlipLive DEF InLine
<1>5. ASSUME NEW v \in Values, NEW ahead \in SUBSET Values, ValueMove(v, ahead) PROVE InLine'
  <2>1. LiveValues' = LiveValues /\ v \in LiveValues
    BY <1>5 DEF ValueMove, LiveValues
  <2>2. DEFINE behind == (LiveValues \ {v}) \ ahead
  <2>3. \A x, y : <<x, y>> \in before' <=>
          \/ <<x, y>> \in before /\ x # v /\ y # v
          \/ x \in ahead /\ y = v
          \/ x = v /\ y \in behind
    <3>1. \A e \in before : e = <<e[1], e[2]>>
      BY DEF InLine
    <3> QED BY <1>5, <3>1 DEF ValueMove
  <2>4. \A x, y : <<x, y>> \in before => x \in LiveValues /\ y \in LiveValues
    BY DEF InLine
  <2>5. /\ ahead \subseteq LiveValues \ {v}
        /\ \A x, y : <<x, y>> \in before /\ x # v /\ y \in ahead => x \in ahead
    BY <1>5, <2>4 DEF ValueMove
  <2>6. before' \subseteq LiveValues' \X LiveValues'
    <3>1. before' \subseteq before \cup (ahead \X {v}) \cup ({v} \X behind)
      BY <1>5 DEF ValueMove
    <3> QED BY <2>1, <2>5, <3>1 DEF InLine
  <2> HIDE DEF behind
  <2>7. \A x : x \in behind <=> x \in LiveValues /\ x # v /\ x \notin ahead
    BY DEF behind
  <2>8. \A x, y \in LiveValues' : x # y => (<<x, y>> \in before' <=> <<y, x>> \notin before')
    BY <2>1, <2>3, <2>4, <2>5, <2>7 DEF InLine
  <2>9. \A x \in Values : <<x, x>> \notin before'
    BY <2>1, <2>3, <2>5, <2>7 DEF InLine
  <2>10. ASSUME NEW x \in Values, NEW y \in Values, NEW z \in Values,
                <<x, y>> \in before', <<y, z>> \in before'
         PROVE  <<x, z>> \in before'
    <3>1. CASE x # v /\ y # v /\ z # v
      BY <2>3, <2>10, <3>1 DEF InLine
    <3>2. CASE x = v
      BY <2>3, <2>4, <2>5, <2>7, <2>10, <3>2 DEF InLine
    <3>3. CASE x # v /\ y = v
      <4>1. x \in ahead /\ z \in behind
        BY <2>3, <2>5, <2>7, <2>10, <3>3
      <4>2. x \in LiveValues /\ z \in LiveValues /\ x # z /\ <<z, x>> \notin before
        BY <2>5, <2>7, <4>1
      <4>3. <<x, z>> \in before
        BY <4>2 DEF InLine
      <4> QED BY <2>3, <2>5, <2>7, <4>1, <4>3
    <3>4. CASE x # v /\ y # v /\ z = v
      BY <2>3, <2>5, <2>10, <3>4
    <3> QED BY <3>1, <3>2, <3>3, <3>4
  <2> QED BY <2>6, <2>8, <2>9, <2>10 DEF InLine
<1>6. ASSUME NEW v \in Values, NEW to \in Values \cup {Nobody}, ValueDelete(v, to) PROVE InLine'
  <2>1. LiveValues' = LiveValues \ {v}
    BY <1>6, SweepLive DEF ValueDelete
  <2>2. \A x, y : <<x, y>> \in before' <=> <<x, y>> \in before /\ x # v /\ y # v
    BY <1>6 DEF ValueDelete, SweepValues
  <2>3. before' \subseteq LiveValues' \X LiveValues'
    <3>1. before' = {e \in before : e[1] \notin {v} /\ e[2] \notin {v}}
      BY <1>6 DEF ValueDelete, SweepValues
    <3>2. \A e \in before : e \in LiveValues \X LiveValues
      BY DEF InLine
    <3> QED BY <2>1, <3>1, <3>2
  <2> QED BY <2>1, <2>2, <2>3 DEF InLine
<1>7. CASE UNCHANGED avars
  BY <1>7 DEF InLine, LiveValues, avars
<1> QED BY <1>1, <1>2, <1>3, <1>4, <1>5, <1>6, <1>7, QuietSteps

LEMMA RowsLiveStep == Kinds /\ RowsLive /\ Stored => RowsLive'
<1> SUFFICES ASSUME Kinds, RowsLive, Stored PROVE RowsLive'
  OBVIOUS
<1> USE DEF Records
<1>1. CASE DeleteAxis
  BY <1>1 DEF DeleteAxis, RowsLive, Carried, Live, tvars
<1>2. ASSUME UNCHANGED <<on, state, stage>> PROVE RowsLive'
  BY <1>2 DEF RowsLive, Carried, Live, LiveValues
<1>3. ASSUME NEW d \in Shapes, AddAxis(d) \/ Update(d) PROVE RowsLive'
  BY <1>2, <1>3 DEF AddAxis, Update, tvars
<1>4. ASSUME NEW v \in Values, ValueAdd(v) PROVE RowsLive'
  <2>1. LiveValues \subseteq LiveValues'
    BY <1>4 DEF ValueAdd, LiveValues, Kinds
  <2> QED BY <1>4, <2>1 DEF ValueAdd, RowsLive, Carried, Live, tvars
<1>5. ASSUME NEW v \in Values, CloseInApp(v) \/ Reopen(v) \/ \E p \in Closers : Close(p, v)
      PROVE  RowsLive'
  BY <1>5, FlipLive DEF RowsLive, Carried, Live, tvars
<1>6. ASSUME NEW v \in Values, NEW ahead \in SUBSET Values, ValueMove(v, ahead) PROVE RowsLive'
  BY <1>2, <1>6 DEF ValueMove, tvars
<1>7. ASSUME NEW v \in Values, NEW to \in Values \cup {Nobody}, ValueDelete(v, to)
      PROVE  RowsLive'
  <2>1. LiveValues' = LiveValues \ {v}
    BY <1>7, SweepLive DEF ValueDelete
  <2>2. \A r \in Records, w \in Values :
          on'[r][w] > 0 => w # v /\ (on[r][w] > 0 \/ (w = to /\ on[r][v] > 0))
    BY <1>7 DEF ValueDelete, Kinds
  <2>3. to \in Values => to \in LiveValues \ {v}
    BY <1>7, StagesAssumption DEF ValueDelete
  <2>4. \A r \in Records : Carried(r)' \subseteq LiveValues'
    BY <2>1, <2>2, <2>3 DEF RowsLive, Carried
  <2>5. \A t \in Tasks : Live(t)' \/ Carried(t)' = {}
    <3>1. \A t \in Tasks : Live(t)' <=> Live(t)
      BY <1>7 DEF ValueDelete, Live, tvars
    <3>2. \A t \in Tasks : Carried(t) = {} => Carried(t)' = {}
      BY <1>7, <2>2 DEF Carried
    <3> QED BY <3>1, <3>2 DEF RowsLive
  <2> QED BY <2>4, <2>5 DEF RowsLive
<1>8. ASSUME NEW v \in Values, NEW r \in Records, Set(r, v) PROVE RowsLive'
  <2>1. \A q \in Records : Carried(q)' \subseteq Carried(q) \cup {v}
    BY <1>8 DEF Set, Carried, Kinds
  <2>2. \A q \in Records : q # r => Carried(q)' = Carried(q)
    BY <1>8 DEF Set, Carried, Kinds
  <2>3. v \in LiveValues /\ LiveValues' = LiveValues
    BY <1>8 DEF Set, LiveValues, avars
  <2> QED BY <1>8, <2>1, <2>2, <2>3 DEF Set, RowsLive, Live, tvars
<1>9. ASSUME NEW v \in Values, NEW r \in Records, Unset(r, v) PROVE RowsLive'
  <2>1. \A q \in Records : Carried(q)' \subseteq Carried(q)
    BY <1>9 DEF Unset, Carried, Kinds
  <2>2. LiveValues' = LiveValues
    BY <1>9 DEF Unset, LiveValues, avars
  <2> QED BY <1>9, <2>1, <2>2 DEF Unset, RowsLive, Live, tvars
<1>10. ASSUME NEW t \in Tasks, TaskDelete(t) PROVE RowsLive'
  <2>1. Carried(t)' = {} /\ \A q \in Records : q # t => Carried(q)' = Carried(q)
    BY <1>10 DEF TaskDelete, Carried, Kinds
  <2>2. LiveValues' = LiveValues /\ \A q \in Tasks : q # t => (Live(q)' <=> Live(q))
    BY <1>10 DEF TaskDelete, LiveValues, Live, avars, Kinds
  <2> QED BY <2>1, <2>2 DEF RowsLive
<1>11. ASSUME NEW t \in Tasks,
              TaskAdd(t) \/ FinishCreating(t) \/ Reserve(t) \/ Release(t) \/ Block(t) \/ Settle(t)
       PROVE  RowsLive'
  <2>1. UNCHANGED on /\ LiveValues' = LiveValues
    BY <1>11 DEF TaskAdd, FinishCreating, Reserve, Release, Block, Settle, To, LiveValues, avars
  <2>2. \A q \in Tasks : Live(q) => Live(q)'
    BY <1>11 DEF TaskAdd, FinishCreating, Reserve, Release, Block, Settle, To, Live, Kinds
  <2> QED BY <2>1, <2>2 DEF RowsLive, Carried
<1>12. ASSUME Tick \/ \E p \in Closers : Say(p) \/ Die(p) PROVE RowsLive'
  BY <1>2, <1>12 DEF Tick, Say, Die, avars, tvars
<1> HIDE DEF Records
<1> QED
  BY <1>1, <1>3, <1>4, <1>5, <1>6, <1>7, <1>8, <1>9, <1>10, <1>11, <1>12, Zenon DEF Stored, Step

LEMMA ShapeIsOne ==
  ASSUME NEW d \in Shapes
  PROVE  /\ d # NoAxis
         /\ d.required \in BOOLEAN /\ d.multi \in BOOLEAN /\ d.sequential \in BOOLEAN
BY StagesAssumption DEF NoAxis

LEMMA AxisStep ==
  Kinds /\ (axis = NoAxis => LiveValues = {}) /\ SoundAxis /\ Stored
    => (axis = NoAxis => LiveValues = {})' /\ SoundAxis'
<1> SUFFICES ASSUME Kinds, axis = NoAxis => LiveValues = {}, SoundAxis, Stored
             PROVE  (axis = NoAxis => LiveValues = {})' /\ SoundAxis'
  OBVIOUS
<1>1. CASE DeleteAxis
  BY <1>1, SweepLive DEF DeleteAxis, SoundAxis, LiveValues
<1>2. ASSUME NEW d \in Shapes, AddAxis(d) \/ Update(d)
      PROVE  (axis = NoAxis => LiveValues = {})' /\ SoundAxis'
  <2>1. axis' = d /\ Sound(d)
    BY <1>2 DEF AddAxis, Update
  <2> QED BY <2>1, ShapeIsOne DEF SoundAxis, Sound, Fit
<1>3. ASSUME NEW v \in Values, ValueAdd(v) PROVE axis # NoAxis /\ UNCHANGED axis
  BY <1>3 DEF ValueAdd
<1>4. ASSUME NEW v \in Values, CloseInApp(v) \/ Reopen(v) \/ \E p \in Closers : Close(p, v)
      PROVE  LiveValues' = LiveValues /\ UNCHANGED axis
  BY <1>4, FlipLive
<1>5. ASSUME NEW v \in Values, NEW ahead \in SUBSET Values, ValueMove(v, ahead)
      PROVE  LiveValues' = LiveValues /\ UNCHANGED axis
  BY <1>5 DEF ValueMove, LiveValues
<1>6. ASSUME NEW v \in Values, NEW to \in Values \cup {Nobody}, ValueDelete(v, to)
      PROVE  LiveValues' \subseteq LiveValues /\ UNCHANGED axis
  BY <1>6, SweepLive DEF ValueDelete
<1>7. CASE UNCHANGED avars
  BY <1>7 DEF SoundAxis, Sound, Fit, LiveValues, avars
<1>8. ASSUME UNCHANGED axis, axis # NoAxis \/ LiveValues' \subseteq LiveValues
      PROVE  (axis = NoAxis => LiveValues = {})' /\ SoundAxis'
  BY <1>8 DEF SoundAxis, Sound, Fit
<1> QED BY <1>1, <1>2, <1>3, <1>4, <1>5, <1>6, <1>7, <1>8, QuietSteps

LEMMA TypeStep == TypeOK /\ SoundAxis /\ Stored => TypeOK' /\ SoundAxis'
BY KindsStep, InLineStep, RowsLiveStep, AxisStep DEF TypeOK

-----------------------------------------------------------------------------
(* What a required category offers.                                         *)

LEMMA RequiredOffersStep ==
  TypeOK /\ SoundAxis /\ RequiredOffers /\ Stored => RequiredOffers'
<1> SUFFICES ASSUME TypeOK, SoundAxis, RequiredOffers, Stored PROVE RequiredOffers'
  OBVIOUS
<1>0. Kinds
  BY DEF TypeOK
<1>1. CASE DeleteAxis
  BY <1>1 DEF DeleteAxis, RequiredOffers
<1>2. ASSUME NEW d \in Shapes, AddAxis(d) \/ Update(d) PROVE RequiredOffers'
  BY <1>2 DEF AddAxis, Update, RequiredOffers, Offered
<1>3. ASSUME NEW v \in Values, ValueAdd(v) PROVE RequiredOffers'
  <2>1. Offered \subseteq Offered' /\ UNCHANGED axis
    BY <1>0, <1>3 DEF ValueAdd, Offered, Kinds
  <2> QED BY <2>1 DEF RequiredOffers
<1>4. ASSUME NEW v \in Values, CloseInApp(v) \/ \E p \in Closers : Close(p, v)
      PROVE  RequiredOffers'
  <2>1. MayClose(v) /\ Flip(v, "closed")
    BY <1>4 DEF CloseInApp, Close
  <2>2. Offered' = Offered \ {v} /\ UNCHANGED axis
    BY <1>0, <2>1 DEF Flip, Offered, Kinds
  <2>3. CASE state[v] = "open"
    BY <2>1, <2>2, <2>3 DEF MayClose, RequiredOffers, Offered
  <2>4. CASE state[v] # "open"
    BY <2>2, <2>4 DEF RequiredOffers, Offered
  <2> QED BY <2>3, <2>4
<1>5. ASSUME NEW v \in Values, Reopen(v) PROVE RequiredOffers'
  BY <1>0, <1>5 DEF Reopen, Flip, RequiredOffers, Offered, Kinds
<1>6. ASSUME NEW v \in Values, NEW ahead \in SUBSET Values, ValueMove(v, ahead)
      PROVE  RequiredOffers'
  BY <1>6 DEF ValueMove, RequiredOffers, Offered
<1>7. ASSUME NEW v \in Values, NEW to \in Values \cup {Nobody}, ValueDelete(v, to)
      PROVE  RequiredOffers'
  <2>1. Offered' = Offered \ {v} /\ UNCHANGED axis
    BY <1>0, <1>7 DEF ValueDelete, SweepValues, Offered, Kinds
  <2>2. axis # NoAxis
    BY <1>7 DEF ValueDelete, TypeOK
  <2> QED BY <1>7, <2>1, <2>2 DEF ValueDelete, RequiredOffers
<1>8. CASE UNCHANGED avars
  BY <1>8 DEF RequiredOffers, Offered, avars
<1> QED BY <1>1, <1>2, <1>3, <1>4, <1>5, <1>6, <1>7, <1>8, QuietSteps

-----------------------------------------------------------------------------
(* One answer.                                                              *)

\* Rows that move to another value are no more than one where there was one at all.
LEMMA OneAnswerStep ==
  TypeOK /\ SoundAxis /\ OneAnswer /\ Stored => OneAnswer'
<1> SUFFICES ASSUME TypeOK, SoundAxis, OneAnswer, Stored PROVE OneAnswer'
  OBVIOUS
<1>0. Kinds /\ RowsLive
  BY DEF TypeOK
<1>1. CASE DeleteAxis
  BY <1>1 DEF DeleteAxis, OneAnswer
<1>2. ASSUME NEW d \in Shapes, AddAxis(d) PROVE OneAnswer'
  <2>1. \A r \in Records : Carried(r) = {}
    BY <1>0, <1>2 DEF AddAxis, TypeOK, RowsLive
  <2> QED BY <1>2, <2>1 DEF AddAxis, OneAnswer, Several, Carried
<1>3. ASSUME NEW d \in Shapes, Update(d) PROVE OneAnswer'
  <2>1. ~d.multi => \A r \in Records : ~Several(r)
    BY <1>3 DEF Update, OneAnswer
  <2>2. \A r \in Records : Several(r)' <=> Several(r)
    BY <1>3 DEF Update, Several, Carried
  <2> QED BY <1>3, <2>1, <2>2 DEF Update, OneAnswer
<1>4. ASSUME NEW v \in Values, NEW to \in Values \cup {Nobody}, ValueDelete(v, to)
      PROVE  OneAnswer'
  <2> SUFFICES ASSUME NEW r \in Records, ~axis.multi, Several(r)' PROVE FALSE
    BY <1>4 DEF ValueDelete, OneAnswer
  <2>1. ~Several(r) /\ v \in Values
    BY <1>4 DEF OneAnswer, TypeOK, ValueDelete
  <2>2. \A w \in Values : on'[r][w] = IF w = v THEN 0
                            ELSE IF w = to THEN on[r][w] + on[r][v] ELSE on[r][w]
    BY <1>4 DEF ValueDelete
  <2>3. \A w \in Values : on[r][w] \in Nat
    BY <1>0 DEF Kinds
  <2>4. \A w, u \in Values : on[r][w] > 0 /\ on[r][u] > 0 => w = u /\ on[r][w] = 1
    BY <2>1, <2>3 DEF Several, Carried
  <2>5. PICK w \in Values : on'[r][w] > 0 /\ (on'[r][w] > 1 \/ Carried(r)' # {w})
    BY DEF Several, Carried
  <2>6. on'[r][w] <= 1
    BY <2>2, <2>3, <2>4
  <2>7. \A u \in Values : on'[r][u] > 0 => u = w
    BY <2>2, <2>3, <2>4, <2>5
  <2>8. Carried(r)' = {w}
    BY <2>5, <2>7 DEF Carried
  <2> QED BY <2>2, <2>3, <2>5, <2>6, <2>8
<1>5. ASSUME NEW v \in Values, NEW r \in Records, Set(r, v) PROVE OneAnswer'
  <2> SUFFICES ASSUME NEW q \in Records, ~axis.multi PROVE ~Several(q)'
    BY <1>5 DEF Set, OneAnswer, avars
  <2>1. CASE q = r
    BY <1>0, <1>5, <2>1 DEF Set, Several, Carried, Kinds
  <2>2. CASE q # r
    <3>1. on'[q] = on[q] /\ ~Several(q)
      BY <1>0, <1>5, <2>2 DEF Set, OneAnswer, Kinds, TypeOK, LiveValues
    <3> QED BY <3>1 DEF Several, Carried
  <2> QED BY <2>1, <2>2
<1>6. ASSUME NEW v \in Values, NEW r \in Records, Unset(r, v) PROVE OneAnswer'
  <2> SUFFICES ASSUME NEW q \in Records, axis # NoAxis, ~axis.multi PROVE ~Several(q)'
    BY <1>6 DEF Unset, OneAnswer, avars
  <2>1. ~Several(q)
    BY DEF OneAnswer
  <2>2. \A w \in Values : on'[q][w] \in Nat /\ on[q][w] \in Nat /\ on'[q][w] <= on[q][w]
    BY <1>0, <1>6 DEF Unset, Kinds, Carried
  <2> QED BY <2>1, <2>2 DEF Several, Carried
<1>7. ASSUME NEW t \in Tasks, TaskDelete(t) PROVE OneAnswer'
  <2>1. \A r \in Records : on'[r] = on[r] \/ \A v \in Values : on'[r][v] = 0
    BY <1>0, <1>7 DEF TaskDelete, Kinds
  <2> QED BY <1>7, <2>1 DEF TaskDelete, avars, OneAnswer, Several, Carried
<1>8. ASSUME UNCHANGED <<axis, on>> PROVE OneAnswer'
  BY <1>8 DEF OneAnswer, Several, Carried
<1>9. ASSUME NEW v \in Values, NEW ahead \in SUBSET Values,
             \/ ValueAdd(v) \/ ValueMove(v, ahead) \/ CloseInApp(v) \/ Reopen(v)
             \/ \E p \in Closers : Close(p, v)
      PROVE  UNCHANGED <<axis, on>>
  BY <1>9 DEF ValueAdd, ValueMove, CloseInApp, Reopen, Close, Flip
<1>10. ASSUME NEW t \in Tasks,
              TaskAdd(t) \/ FinishCreating(t) \/ Reserve(t) \/ Release(t) \/ Block(t) \/ Settle(t)
       PROVE  UNCHANGED <<axis, on>>
  BY <1>10 DEF TaskAdd, FinishCreating, Reserve, Release, Block, Settle, To, avars
<1>11. ASSUME Tick \/ \E p \in Closers : Say(p) \/ Die(p) PROVE UNCHANGED <<axis, on>>
  BY <1>11 DEF Tick, Say, Die, avars
<1>12. ASSUME NEW v \in Values,
              \/ ValueAdd(v) \/ CloseInApp(v) \/ Reopen(v)
              \/ \E ahead \in SUBSET Values : ValueMove(v, ahead)
              \/ \E p \in Closers : Close(p, v)
       PROVE  UNCHANGED <<axis, on>>
  BY <1>9, <1>12
<1> QED
  BY <1>1, <1>2, <1>3, <1>4, <1>5, <1>6, <1>7, <1>8, <1>10, <1>11, <1>12, Zenon
     DEF Stored, Step

-----------------------------------------------------------------------------
(* The wait.                                                                *)

\* Among any values there is a foremost.
LEMMA Foremost ==
  ASSUME InLine, NEW T \in SUBSET LiveValues, T # {}
  PROVE  \E v \in T : \A w \in T : <<w, v>> \notin before
<1> DEFINE Ahead(v) == {w \in Values : <<w, v>> \in before}
           N == {Cardinality(Ahead(v)) : v \in T}
<1>1. \A v \in Values : IsFiniteSet(Ahead(v)) /\ Cardinality(Ahead(v)) \in Nat
  BY StagesAssumption, FS_Subset, FS_CardinalityType
<1>2. T \subseteq Values
  BY DEF LiveValues
<1>3. ASSUME NEW v \in Values, NEW w \in Values, <<w, v>> \in before
      PROVE  Cardinality(Ahead(w)) < Cardinality(Ahead(v))
  <2>1. Ahead(w) \subseteq Ahead(v) /\ w \in Ahead(v) /\ w \notin Ahead(w)
    BY <1>3 DEF InLine
  <2>2. Cardinality(Ahead(w)) <= Cardinality(Ahead(v))
        /\ (Cardinality(Ahead(v)) = Cardinality(Ahead(w)) => Ahead(v) = Ahead(w))
    BY <1>1, <2>1, FS_Subset
  <2>3. Cardinality(Ahead(v)) # Cardinality(Ahead(w))
    BY <2>1, <2>2
  <2> HIDE DEF Ahead
  <2> QED BY <1>1, <2>2, <2>3
<1>4. N \subseteq Nat /\ N # {}
  BY <1>1, <1>2
<1>5. \E x \in N : \A y \in N : ~(<<y, x>> \in OpToRel(<, Nat))
  <2> HIDE DEF N
  <2> QED BY <1>4, WFMin, NatLessThanWellFounded
<1>6. PICK x \in N : \A y \in N : ~(y < x)
  BY <1>4, <1>5 DEF OpToRel
<1>7. PICK v \in T : x = Cardinality(Ahead(v))
  OBVIOUS
<1>8. ASSUME NEW w \in T, <<w, v>> \in before PROVE FALSE
  <2>1. Cardinality(Ahead(w)) \in N
    OBVIOUS
  <2> QED BY <1>2, <1>3, <1>6, <1>7, <1>8, <2>1
<1> QED BY <1>8

LEMMA GoesOn == TypeOK /\ SoundAxis /\ OneAnswer => SomebodyCanGoOn
<1> SUFFICES ASSUME TypeOK, SoundAxis, OneAnswer, NEW t \in Tasks, Waiting(t) # {}
             PROVE  \E v \in Waiting(t) :
                      \A u \in Tasks : v \in Carried(u) /\ Unfinished(u) => Waiting(u) = {}
  BY DEF SomebodyCanGoOn
<1>1. InLine /\ Waiting(t) \in SUBSET LiveValues
  BY DEF TypeOK, Waiting, Offered, LiveValues
<1>2. PICK v \in Waiting(t) : \A w \in Waiting(t) : <<w, v>> \notin before
  BY <1>1, Foremost
<1>3. Sequential /\ v \in Values
  BY DEF Waiting, Offered
<1>4. PICK own \in Values : own \in Carried(t) /\ <<v, own>> \in before
  BY DEF Waiting, Carried
<1>5. \A r \in Records : ~Several(r)
  BY <1>3 DEF Sequential, SoundAxis, Sound, Fit, OneAnswer
<1>6. ASSUME NEW u \in Tasks, v \in Carried(u), NEW w \in Waiting(u) PROVE FALSE
  <2>1. Carried(u) = {v}
    BY <1>5, <1>6 DEF Several, Records
  <2>2. w \in Offered /\ w \in Values /\ <<w, v>> \in before
    BY <2>1 DEF Waiting, Offered
  <2>3. <<w, own>> \in before
    BY <1>1, <1>3, <1>4, <2>2 DEF InLine
  <2>4. w \in Waiting(t)
    BY <1>3, <1>4, <2>2, <2>3 DEF Waiting
  <2> QED BY <1>2, <2>2, <2>4
<1> QED BY <1>2, <1>6

-----------------------------------------------------------------------------
(* What is reported of a reopening.                                         *)

\* A task gets under way by its reservation alone, and keeps its moment while it is.
LEMMA UnderWayBefore ==
  ASSUME Kinds, Stored, NEW t \in Tasks, stage'[t] = "under way"
  PROVE  Reserve(t) \/ (stage[t] = "under way" /\ since'[t] = since[t])
<1>1. CASE UNCHANGED tvars
  BY <1>1 DEF tvars
<1>2. ASSUME NEW q \in Tasks,
             \/ TaskAdd(q) \/ FinishCreating(q) \/ Reserve(q) \/ Release(q) \/ Block(q) \/ Settle(q)
             \/ TaskDelete(q)
      PROVE  Reserve(t) \/ (stage[t] = "under way" /\ since'[t] = since[t])
  BY <1>2 DEF Kinds, TaskAdd, FinishCreating, Reserve, Release, Block, Settle, TaskDelete, To
<1>3. ASSUME \A q \in Tasks :
               /\ ~TaskAdd(q) /\ ~FinishCreating(q) /\ ~Reserve(q) /\ ~Release(q)
               /\ ~Block(q) /\ ~Settle(q)
               /\ ~TaskDelete(q)
      PROVE  UNCHANGED tvars
  BY <1>3 DEF Stored, Step, DeleteAxis, Tick, AddAxis, Update, ValueAdd, CloseInApp, Reopen,
              ValueMove, ValueDelete, Set, Unset, Close, Say, Die, Flip
<1> QED BY <1>1, <1>2, <1>3

\* A value is open because it was, or because it was added or reopened.
LEMMA OpenBefore ==
  ASSUME Kinds, Stored, NEW v \in Values, state'[v] = "open"
  PROVE  \/ state[v] = "open" /\ flipped'[v] = flipped[v]
         \/ ValueAdd(v) \/ Reopen(v)
<1>1. CASE UNCHANGED <<state, flipped>>
  BY <1>1
<1>2. CASE DeleteAxis
  BY <1>2 DEF DeleteAxis, SweepValues, LiveValues, Kinds
<1>3. ASSUME NEW w \in Values,
             ValueAdd(w) \/ CloseInApp(w) \/ Reopen(w) \/ \E p \in Closers : Close(p, w)
      PROVE  \/ state[v] = "open" /\ flipped'[v] = flipped[v]
             \/ ValueAdd(v) \/ Reopen(v)
  BY <1>3 DEF ValueAdd, CloseInApp, Reopen, Close, Flip, Kinds
<1>4. ASSUME NEW w \in Values, NEW to \in Values \cup {Nobody}, ValueDelete(w, to)
      PROVE  state[v] = "open" /\ flipped'[v] = flipped[v]
  BY <1>4 DEF ValueDelete, SweepValues, Kinds
<1>5. ASSUME NEW d \in Shapes, AddAxis(d) \/ Update(d) PROVE UNCHANGED <<state, flipped>>
  BY <1>5 DEF AddAxis, Update
<1>6. ASSUME NEW w \in Values, NEW ahead \in SUBSET Values, ValueMove(w, ahead)
      PROVE  UNCHANGED <<state, flipped>>
  BY <1>6 DEF ValueMove
<1>7. UNCHANGED avars => UNCHANGED <<state, flipped>>
  BY DEF avars
<1> QED BY <1>1, <1>2, <1>3, <1>4, <1>5, <1>6, <1>7, QuietSteps

LEMMA SecondsCount ==
  ASSUME Kinds
  PROVE  now \in Nat /\ now # 0 /\ \A t \in Tasks : now >= since[t]
<1>1. MaxTime \in Nat
  BY StagesAssumption
<1>2. now \in 1..MaxTime
  BY DEF Kinds
<1>3. now \in Nat /\ now # 0
  BY <1>1, <1>2
<1>4. \A t \in Tasks : since[t] \in 0..now
  BY DEF Kinds
<1> QED BY <1>3, <1>4

LEMMA ReopenedStep ==
  TypeOK /\ ReopenedIsReported /\ Stored /\ Stray => ReopenedIsReported'
<1> SUFFICES ASSUME TypeOK, ReopenedIsReported, Stored, Stray,
                    NEW t \in Tasks, stage'[t] = "under way",
                    NEW v \in Waiting(t)', v \notin strayed'[t]
             PROVE  v \in Reported(t)'
  BY DEF ReopenedIsReported
<1>0. Kinds /\ InLine
  BY DEF TypeOK
<1>1. v \in Values /\ state'[v] = "open"
  BY DEF Waiting, Offered
<1>2. v \notin strayed[t] /\ (state[v] = "open" => v \in Waiting(t))
  BY <1>1 DEF Stray
<1>3. Reserve(t) \/ (stage[t] = "under way" /\ since'[t] = since[t])
  BY <1>0, UnderWayBefore
<1>4. CASE state[v] = "open" /\ flipped'[v] = flipped[v]
  <2>1. stage[t] = "under way" /\ since'[t] = since[t]
    BY <1>2, <1>3, <1>4 DEF Reserve, Ready
  <2>2. v \in Reported(t)
    BY <1>2, <1>4, <2>1 DEF ReopenedIsReported
  <2> QED BY <1>4, <2>1, <2>2 DEF Reported
<1>5. CASE ValueAdd(v)
  <2>1. PICK w \in Values : <<v, w>> \in before'
    BY DEF Waiting, Carried
  <2>2. v \notin LiveValues
    BY <1>5 DEF ValueAdd, LiveValues
  <2> QED BY <1>0, <1>5, <2>1, <2>2 DEF ValueAdd, InLine
<1>6. CASE Reopen(v)
  <2>1. flipped'[v] = now /\ since' = since
    <3>1. flipped \in [Values -> 0..now] /\ state[v] = "closed"
      BY <1>0, <1>6 DEF Kinds, Reopen
    <3> QED BY <1>1, <1>6, <3>1 DEF Reopen, Flip, tvars
  <2>2. now \in Nat /\ now # 0
    BY <1>0, SecondsCount
  <2>3. now >= since[t]
    BY <1>0, SecondsCount
  <2>4. flipped'[v] # 0 /\ flipped'[v] >= since'[t]
    BY <2>1, <2>2, <2>3
  <2> QED BY <2>4 DEF Reported
<1> QED BY <1>0, <1>1, <1>4, <1>5, <1>6, OpenBefore

-----------------------------------------------------------------------------
(* The last answer.                                                         *)

LEMMA AnswerKeptStep ==
  ASSUME TypeOK, Stored, NEW t \in Tasks,
         axis # NoAxis, axis.required, Carried(t) # {},
         axis' # NoAxis, stage'[t] # "gone"
  PROVE  Carried(t)' # {}
<1>0. Kinds /\ RowsLive /\ t \in Records
  BY DEF TypeOK, Records
<1>1. PICK own \in Values : own \in LiveValues /\ on[t][own] > 0
  BY <1>0 DEF RowsLive, Carried
<1>2. CASE UNCHANGED on
  BY <1>2 DEF Carried
<1>3. CASE DeleteAxis
  BY <1>3 DEF DeleteAxis
<1>4. ASSUME NEW v \in Values, NEW to \in Values \cup {Nobody}, ValueDelete(v, to)
      PROVE  Carried(t)' # {}
  <2>1. \A w \in Values : on'[t][w] = IF w = v THEN 0
                            ELSE IF w = to THEN on[t][w] + on[t][v] ELSE on[t][w]
    BY <1>0, <1>4 DEF ValueDelete
  <2>2. CASE own # v
    BY <1>0, <1>1, <2>1, <2>2 DEF Carried, Kinds
  <2>3. CASE own = v
    <3>1. to \in Values /\ to # v
      BY <1>1, <1>4, <2>3, StagesAssumption DEF ValueDelete, LiveValues
    <3> QED BY <1>0, <1>1, <2>1, <2>3, <3>1 DEF Carried, Kinds
  <2> QED BY <2>2, <2>3
<1>5. ASSUME NEW v \in Values, NEW r \in Records, Set(r, v) PROVE Carried(t)' # {}
  <2>1. CASE r = t
    <3>1. on'[t][v] = 1
      BY <1>0, <1>5, <2>1 DEF Set, Kinds
    <3> QED BY <3>1 DEF Carried
  <2>2. CASE r # t
    BY <1>0, <1>1, <1>5, <2>2 DEF Set, Carried, Kinds
  <2> QED BY <2>1, <2>2
<1>6. ASSUME NEW v \in Values, NEW r \in Records, Unset(r, v) PROVE Carried(t)' # {}
  <2>1. CASE r # t
    BY <1>0, <1>1, <1>6, <2>1 DEF Unset, Carried, Kinds
  <2>2. CASE r = t
    <3>1. PICK w \in Values : on[t][w] > 0 /\ (w = v => on[t][w] > 1)
      BY <1>0, <1>6, <2>2 DEF Unset, Several, Carried
    <3>2. on'[t][w] > 0
      BY <1>0, <1>6, <2>2, <3>1 DEF Unset, Kinds
    <3> QED BY <3>2 DEF Carried
  <2> QED BY <2>1, <2>2
<1>7. ASSUME NEW q \in Tasks, TaskDelete(q) PROVE Carried(t)' # {}
  <2>1. q # t
    BY <1>0, <1>7 DEF TaskDelete, Kinds
  <2> QED BY <1>0, <1>1, <1>7, <2>1 DEF TaskDelete, Carried, Kinds
<1>8. ASSUME \A v \in Values : /\ \A r \in Records : ~Set(r, v) /\ ~Unset(r, v)
                               /\ \A to \in Values \cup {Nobody} : ~ValueDelete(v, to),
             \A q \in Tasks : ~TaskDelete(q), ~DeleteAxis
      PROVE  UNCHANGED on
  BY <1>8 DEF Stored, Step, Tick, AddAxis, Update, ValueAdd, CloseInApp, Reopen, ValueMove,
              TaskAdd, FinishCreating, Reserve, Release, Block, Settle, Close, Say, Die, Flip, To
<1> QED BY <1>2, <1>3, <1>4, <1>5, <1>6, <1>7, <1>8

-----------------------------------------------------------------------------
(* The theorems.                                                            *)

LEMMA InitIInv == Init => IInv
<1> SUFFICES ASSUME Init PROVE IInv
  OBVIOUS
<1>1. axis = NoAxis /\ \A t \in Tasks : stage[t] = "unborn"
  BY DEF Init
<1>2. SoundAxis /\ RequiredOffers /\ OneAnswer /\ ReopenedIsReported
  BY <1>1 DEF SoundAxis, RequiredOffers, OneAnswer, ReopenedIsReported
<1> QED BY <1>2, InitTypeOK DEF IInv

LEMMA NextIsStored == Next => Stored /\ Stray
BY DEF Next, Stored

LEMMA IInvStep == IInv /\ [Next]_vars => IInv'
<1> SUFFICES ASSUME IInv, [Next]_vars PROVE IInv'
  OBVIOUS
<1>1. CASE Next
  BY <1>1, NextIsStored, TypeStep, RequiredOffersStep, OneAnswerStep, ReopenedStep DEF IInv
<1>2. CASE UNCHANGED vars
  <2> USE <1>2 DEF IInv, vars, avars, tvars
  <2>1. /\ LiveValues' = LiveValues /\ Offered' = Offered
        /\ \A r \in Records : Carried(r)' = Carried(r)
        /\ \A t \in Tasks : Live(t)' = Live(t)
    BY DEF LiveValues, Offered, Carried, Live
  <2>2. TypeOK'
    <3>1. Kinds'
      BY DEF TypeOK, Kinds
    <3>2. InLine'
      BY <2>1 DEF TypeOK, InLine
    <3>3. RowsLive'
      BY <2>1 DEF TypeOK, RowsLive, Live, Records
    <3> QED BY <2>1, <3>1, <3>2, <3>3 DEF TypeOK
  <2>3. SoundAxis'
    BY DEF SoundAxis, Sound, Fit
  <2>4. RequiredOffers' /\ OneAnswer'
    BY <2>1 DEF RequiredOffers, OneAnswer, Several
  <2>5. \A t \in Tasks : Waiting(t)' = Waiting(t)
    BY <2>1 DEF Waiting, Sequential, Carried
  <2>6. ReopenedIsReported'
    BY <2>5 DEF ReopenedIsReported, Reported
  <2> QED BY <2>2, <2>3, <2>4, <2>6
<1> QED BY <1>1, <1>2

LEMMA Inductive == Spec => []IInv
<1>1. Init => IInv
  BY InitIInv
<1>2. IInv /\ [Next]_vars => IInv'
  BY IInvStep
<1> QED BY <1>1, <1>2, PTL DEF Spec

\* The state is of its kind: rows name live records and live values, and the live
\* values of a category stand in one line however they are added, moved and deleted.
THEOREM StagesAreOfTheirKind == Spec => []TypeOK
<1>1. IInv => TypeOK
  BY DEF IInv
<1> QED BY <1>1, Inductive, PTL

\* update, value_set_closed and value_delete between them never leave a required
\* category without an open value.
THEOREM RequiredAlwaysOffers == Spec => []RequiredOffers
<1>1. IInv => RequiredOffers
  BY DEF IInv
<1> QED BY <1>1, Inductive, PTL

\* set, set_on_decision, value_delete's moving of rows and update's demotion keep
\* one row per record on a category of a single answer.
THEOREM AnswersStaySingle == Spec => []OneAnswer
<1>1. IInv => OneAnswer
  BY DEF IInv
<1> QED BY <1>1, Inductive, PTL

\* What unfit_for_sequence asks of a category is enough for its wait never to go
\* round: a task that waits has somebody before it who does not.
THEOREM TheWaitNeverGoesRound == Spec => []SomebodyCanGoOn
<1>1. IInv => SomebodyCanGoOn
  BY GoesOn DEF IInv
<1> QED BY <1>1, Inductive, PTL

\* premise_change_since names every value reopened ahead of a task under way, the
\* reservation's own second included: only a reservation brings a task there, and the
\* clock it stamps stands until the task leaves, by being blocked too.
THEOREM ReopeningsAreReported == Spec => []ReopenedIsReported
<1>1. IInv => ReopenedIsReported
  BY DEF IInv
<1> QED BY <1>1, Inductive, PTL

\* No operation takes the last answer a required category has of a task.
THEOREM AnswersAreKept == Spec => AnswerKept
<1> DEFINE Kept == \A t \in Tasks :
             /\ axis # NoAxis /\ axis.required /\ Carried(t) # {}
             /\ axis' # NoAxis /\ axis'.required /\ stage'[t] # "gone"
             => Carried(t)' # {}
<1>1. IInv /\ [Next]_vars => [Kept]_vars
  BY NextIsStored, AnswerKeptStep DEF IInv
<1>2. (AnswerKept) <=> [][Kept]_vars
  BY DEF AnswerKept
<1> QED BY <1>1, <1>2, Inductive, PTL DEF Spec

-----------------------------------------------------------------------------
(* The announcing.                                                          *)

\* While the word on a task is owed, its closer has yet to speak, and speaking
\* would name it.
WordsOwed == \A t \in Tasks, p \in Closers : owed[t] = p => Outstanding(t, p)

\* Whom a close releases waited for its value and for nothing else.
LEMMA ClosingReleases ==
  ASSUME NEW p \in Closers, NEW v \in Values, Close(p, v), NEW t \in Tasks, ~Ready(t), Ready(t)'
  PROVE  Sequential /\ Later(t, v)
<1>1. UNCHANGED <<axis, before, stage, on>> /\ \A w \in Values \ {v} : state'[w] = state[w]
  BY DEF Close, Flip, tvars
<1>2. /\ Offered \ {v} \subseteq Offered'
      /\ \A w : Later(t, w)' <=> Later(t, w)
      /\ Sequential' <=> Sequential
  BY <1>1 DEF Offered, Later, Carried, Sequential
<1>3. PICK w \in Waiting(t) : TRUE
  BY <1>1 DEF Ready
<1>4. w \in Offered /\ Sequential /\ Later(t, w)
  BY <1>3 DEF Waiting, Later
<1>5. w \notin Waiting(t)'
  BY DEF Ready
<1>6. w = v
  BY <1>2, <1>4, <1>5 DEF Waiting, Later
<1> QED BY <1>4, <1>6

LEMMA WordsOwedStep == Kinds /\ WordsOwed /\ [Next]_vars => WordsOwed'
<1> SUFFICES ASSUME Kinds, WordsOwed, [Next]_vars, NEW t \in Tasks, NEW p \in Closers, owed'[t] = p
             PROVE  Outstanding(t, p)'
  BY DEF WordsOwed
<1>0. Nobody \notin Closers
  BY StagesAssumption
<1>1. CASE Keep
  BY <1>0, <1>1 DEF Keep
<1>2. ASSUME NEW q \in Closers, NEW v \in Values, Close(q, v), Owe(q)
      PROVE  Outstanding(t, p)'
  <2>1. CASE ~Ready(t) /\ Ready(t)'
    <3>1. p = q
      BY <1>2, <2>1 DEF Owe
    <3>2. saying'[q] = v /\ UNCHANGED <<axis, before, on>>
      BY <1>2 DEF Close, Flip, Kinds
    <3>3. Sequential' /\ Later(t, v)'
      BY <1>2, <2>1, <3>2, ClosingReleases DEF Sequential, Later, Carried
    <3> QED BY <2>1, <3>1, <3>2, <3>3 DEF Outstanding, Later
  <2>2. CASE ~(~Ready(t) /\ Ready(t)')
    BY <1>0, <1>2, <2>2 DEF Owe
  <2> QED BY <2>1, <2>2
<1>3. ASSUME NEW q \in Closers, Say(q) \/ Die(q)
      PROVE  Outstanding(t, p)'
  <2>1. UNCHANGED <<axis, state, before, stage, on>>
    BY <1>3 DEF Say, Die, avars, tvars
  <2>2. owed[t] = p
    BY <1>0, <1>3 DEF Say, Die
  <2>3. Outstanding(t, p)
    BY <2>2 DEF WordsOwed
  <2>4. p # q
    <3>1. CASE Say(q)
      <4>1. t \notin Released(saying[q])
        BY <1>0, <3>1 DEF Say
      <4> QED BY <2>3, <4>1 DEF Released, Outstanding
    <3>2. CASE Die(q)
      BY <1>0, <2>2, <3>2 DEF Die
    <3> QED BY <1>3, <3>1, <3>2
  <2>5. saying'[p] = saying[p]
    BY <1>3, <2>4 DEF Say, Die, Kinds
  <2> QED BY <2>1, <2>3, <2>5
       DEF Outstanding, Sequential, Ready, Waiting, Later, Carried, Offered
<1>4. CASE UNCHANGED vars
  BY <1>4 DEF WordsOwed, Outstanding, Sequential, Ready, Waiting, Later, Carried, Offered,
              vars, avars, tvars
<1> QED BY <1>1, <1>2, <1>3, <1>4 DEF Next

\* newly_ready_by_closing, read after the commit, still finds whomever the close
\* released and nobody took: no closer ends its turn without having named them,
\* whatever is closed, opened or moved in between.
THEOREM ReleasesAreSaid == Spec => []NoReleaseUnsaid
<1>1. Init => WordsOwed
  BY StagesAssumption DEF Init, WordsOwed
<1>2. IInv /\ WordsOwed /\ [Next]_vars => WordsOwed'
  BY WordsOwedStep DEF IInv, TypeOK
<1>3. IInv /\ WordsOwed => NoReleaseUnsaid
  <2> SUFFICES ASSUME InLine, WordsOwed, NEW t \in Tasks, NEW p \in Closers, owed[t] = p
               PROVE  saying[p] # Nobody
    BY DEF IInv, TypeOK, NoReleaseUnsaid
  <2>1. saying[p] \in LiveValues
    <3>1. Later(t, saying[p])
      BY DEF WordsOwed, Outstanding
    <3>2. PICK w : <<saying[p], w>> \in before
      BY <3>1 DEF Later
    <3> QED BY <3>2 DEF InLine
  <2> QED BY <2>1, StagesAssumption DEF LiveValues
<1> QED BY <1>1, <1>2, <1>3, Inductive, PTL DEF Spec

=============================================================================
