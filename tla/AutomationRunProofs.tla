-------------------------- MODULE AutomationRunProofs --------------------------
(***************************************************************************)
(* Proofs about the runs of an automation, for any number of runs and      *)
(* tasks and any picture a launch lets through.                            *)
(*                                                                         *)
(* Every transaction is a function from store to store, and so the         *)
(* invariant speaks of a store.  Own says of one run what is so of it by   *)
(* itself: what it holds is the task of its open stretch, it is on its way *)
(* to let go of it, and a pause finds it neither inside an action nor in   *)
(* another task.  Single says that one run at most holds an action that    *)
(* takes one at a time, Few that no more are under way than may be.  Seen  *)
(* ties the watch's last look to the run: what it saw is still so, unless  *)
(* the run was copied afresh since.                                        *)
(*                                                                         *)
(* AllBut leaves out the runs a transaction is about: the pieces the       *)
(* transactions are made of are each shown to keep it, and the last piece  *)
(* to give the run its Own back.                                           *)
(***************************************************************************)
EXTENDS AutomationRun, FiniteSetTheorems, WellFoundedInduction, TLAPS

\* What a run carries with it from a take on, until it lets go of the task.
Keep == CHOOSE K \in SUBSET Spots : HoldsOn(K)

Stores == [run : [Runs -> RunRecord], task : [Tasks -> TaskRecord], stopped : BOOLEAN, waits : BOOLEAN]

Has(s, r, t) == s.task[t].holder = r

\* Both pauses are of a kind, an ask is of a run that goes on, and where a run
\* stands can be read off its last step.
Coherent(x) ==
  /\ x.status = "paused" <=> x.kind # "none"
  /\ x.asked \/ x.before => x.status = "running"
  /\ x.st = "running" => x.status = "running" /\ x.at \in Spots
  /\ x.st = "done" => x.at \in Spots /\ x.exit \in Exits
  /\ ~x.fresh => x.st # "none"

\* Between the take and what lets go of the task.
OnItsWay(x) ==
  /\ x.st = "running" => x.at \in Keep
  /\ x.st = "done" /\ LastLine(x).ends = "go" => LastLine(x).to \in Keep \cup LetGo

\* What a run holds is the task of its open stretch.
HeldBy(s, r) ==
  \A t \in Tasks : Has(s, r, t) =>
    s.run[r].open /\ s.run[r].task = t /\ s.task[t].status = "in_progress"

Own(s, r) ==
  /\ Coherent(s.run[r])
  /\ HeldBy(s, r)
  /\ \A t \in Tasks : Has(s, r, t) => Live(s, r) /\ (s.run[r].fresh \/ OnItsWay(s.run[r]))
  /\ s.run[r].status = "paused" => ~Inside(s, r)
  /\ \A t \in Tasks : Has(s, r, t) /\ s.run[r].kind = "before" => s.run[r].fresh

Single(s) ==
  \A a \in OneAtATime, q \in Runs, r \in Runs :
    HoldsAction(s, q, a) /\ HoldsAction(s, r, a) => q = r

Few(s) == Cardinality(UnderWay(s)) <= MaxConcurrent

AllBut(s, R) == (\A q \in Runs \ R : Own(s, q)) /\ Single(s) /\ Few(s)

\* What the watch saw of a run is still so, unless the run was copied afresh.
Seen(s, l) ==
  l.run \in Runs /\ Live(s, l.run) =>
    LET x == s.run[l.run] IN
    /\ x.st # "running"
    /\ l.old => x.fresh
    /\ x.fresh /\ l.next # Entry => \A t \in Tasks : ~Has(s, l.run, t)
    /\ ~x.fresh /\ l.next \in Spots =>
         \/ LastLine(x).ends = "go" /\ LastLine(x).to = l.next
         \/ LastLine(x).ends # "go" /\ l.next = Entry

Looks ==
  [run : Runs \cup {-1}, next : Spots \cup {Nowhere, Nothing}, asked : BOOLEAN, old : BOOLEAN]

Fine(s, l) == s \in Stores /\ l \in Looks /\ AllBut(s, {}) /\ Seen(s, l)

IInv == Fine(store, looking) /\ outside \in 0..MaxOutside

\* The same run but for its counters, its place in the line and its version.
Alike(x, y) ==
  /\ x.status = y.status /\ x.asked = y.asked /\ x.before = y.before /\ x.kind = y.kind
  /\ x.at = y.at /\ x.st = y.st /\ x.exit = y.exit /\ x.fresh = y.fresh
  /\ x.task = y.task /\ x.open = y.open

\* From s to n only the runs R change, and no other run comes to hold a task.
Apart(s, n, R) ==
  \A q \in Runs \ R :
    /\ Alike(n.run[q], s.run[q])
    /\ \A t \in Tasks : Has(n, q, t) => Has(s, q, t) /\ n.task[t].status = s.task[t].status

\* The runs R hold no action in n they did not hold in s, nor are they under
\* way in n if they were not in s.
NoMore(s, n, R) ==
  \A r \in R :
    /\ Live(n, r) => Live(s, r)
    /\ \A a \in OneAtATime : HoldsAction(n, r, a) => HoldsAction(s, r, a)

\* The run comes to hold no task.
GainsNone(s, n, r) == \A t \in Tasks : Has(n, r, t) => Has(s, r, t)

\* Where a run stands is as it was, and it holds nothing it did not hold.
Stands(s, n, q) ==
  Live(n, q) =>
    /\ Live(s, q)
    /\ n.run[q].st = s.run[q].st /\ n.run[q].at = s.run[q].at
    /\ n.run[q].exit = s.run[q].exit /\ n.run[q].fresh = s.run[q].fresh
    /\ \A t \in Tasks : Has(n, q, t) => Has(s, q, t)

-----------------------------------------------------------------------------
(* The picture, and where a run stands in it.                              *)

LEMMA KeepHoldsOn == Keep \subseteq Spots /\ HoldsOn(Keep)
BY PictureAssumption DEF Keep

LEMMA LineKinds ==
  ASSUME NEW spot \in Spots, NEW exit \in Exits
  PROVE  Line[spot][exit] \in [ends : {"go", "done", "halt"}, to : Spots, stays : BOOLEAN, limit : Nat]
BY RunAssumption

LEMMA EntryIs ==
  Entry \in Spots /\ Kind[Entry] = "take" /\ Nowhere \notin Spots /\ Nothing \notin Spots
BY RunAssumption DEF Nowhere, Nothing

LEMMA RunKinds ==
  ASSUME NEW s \in Stores, NEW r \in Runs
  PROVE  s.run[r] \in RunRecord
BY DEF Stores

LEMMA TaskKinds ==
  ASSUME NEW s \in Stores, NEW t \in Tasks
  PROVE  s.task[t] \in TaskRecord
BY DEF Stores

LEMMA NoRunIs == NoRun \in RunRecord /\ Coherent(NoRun)
BY RunAssumption DEF NoRun, RunRecord, Coherent

LEMMA NextKinds ==
  ASSUME NEW s \in Stores, NEW r \in Runs, Coherent(s.run[r])
  PROVE  NextSpot(s, r) \in Spots \cup {Nowhere, Nothing}
<1> DEFINE x == s.run[r]
<1>1. x \in RunRecord
  BY RunKinds
<1>2. x.st = "done" => LastLine(x).to \in Spots
  BY LineKinds DEF Coherent, LastLine
<1>3. ~x.fresh /\ x.st # "running" => x.st = "done"
  BY <1>1 DEF Coherent, RunRecord
<1>4. x.fresh \in BOOLEAN
  BY <1>1 DEF RunRecord
<1>5. CASE ~(x.status = "running" /\ x.st # "running")
  BY <1>5 DEF NextSpot
<1>6. CASE x.status = "running" /\ x.st # "running" /\ x.fresh
  BY <1>6, EntryIs DEF NextSpot
<1>7. CASE x.status = "running" /\ x.st # "running" /\ ~x.fresh
  <2>1. LastLine(x).to \in Spots
    BY <1>2, <1>3, <1>7
  <2>2. NextSpot(s, r) \in {LastLine(x).to, Entry, Nowhere}
    BY <1>7 DEF NextSpot
  <2> QED BY <2>1, <2>2, EntryIs
<1> QED BY <1>4, <1>5, <1>6, <1>7

\* What stands in the way of a run at a spot: it saw its way there.
LEMMA NextIs ==
  ASSUME NEW s \in Stores, NEW r \in Runs, NextSpot(s, r) \in Spots
  PROVE  /\ s.run[r].status = "running" /\ s.run[r].st # "running"
         /\ s.run[r].fresh => NextSpot(s, r) = Entry
         /\ ~s.run[r].fresh =>
              \/ LastLine(s.run[r]).ends = "go" /\ NextSpot(s, r) = LastLine(s.run[r]).to
              \/ LastLine(s.run[r]).ends = "done" /\ GoesRound(s, r) /\ NextSpot(s, r) = Entry
<1>1. s.run[r].status = "running" /\ s.run[r].st # "running"
  BY EntryIs DEF NextSpot
<1>2. s.run[r].fresh => NextSpot(s, r) = Entry
  BY <1>1 DEF NextSpot
<1>3. ASSUME ~s.run[r].fresh
      PROVE  \/ LastLine(s.run[r]).ends = "go" /\ NextSpot(s, r) = LastLine(s.run[r]).to
             \/ LastLine(s.run[r]).ends = "done" /\ GoesRound(s, r) /\ NextSpot(s, r) = Entry
  BY <1>1, <1>3, EntryIs DEF NextSpot
<1> QED BY <1>1, <1>2, <1>3

-----------------------------------------------------------------------------
(* The runs a step is not about.                                           *)

LEMMA AlikeInside ==
  ASSUME NEW s, NEW n, NEW q \in Runs, Alike(n.run[q], s.run[q])
  PROVE  /\ Live(n, q) <=> Live(s, q)
         /\ Inside(n, q) <=> Inside(s, q)
         /\ \A a : HoldsAction(n, q, a) <=> HoldsAction(s, q, a)
BY DEF Alike, Live, Inside, HoldsAction, LastLine

LEMMA AlikeOwn ==
  ASSUME NEW s \in Stores, NEW n \in Stores, NEW q \in Runs,
         Alike(n.run[q], s.run[q]), Own(s, q),
         \A t \in Tasks : Has(n, q, t) => Has(s, q, t) /\ n.task[t].status = s.task[t].status
  PROVE  Own(n, q)
<1>1. /\ Live(n, q) <=> Live(s, q)
      /\ Inside(n, q) <=> Inside(s, q)
  BY AlikeInside
<1>2. Coherent(n.run[q])
  BY DEF Own, Coherent, Alike
<1>3. OnItsWay(s.run[q]) => OnItsWay(n.run[q])
  BY DEF OnItsWay, Alike, LastLine
<1>4. HeldBy(n, q)
  BY DEF Own, HeldBy, Alike
<1>5. \A t \in Tasks : Has(n, q, t) => Live(n, q) /\ (n.run[q].fresh \/ OnItsWay(n.run[q]))
  BY <1>1, <1>3 DEF Own, Alike
<1>6. n.run[q].status = "paused" => ~Inside(n, q)
  BY <1>1 DEF Own, Alike
<1>7. \A t \in Tasks : Has(n, q, t) /\ n.run[q].kind = "before" => n.run[q].fresh
  BY DEF Own, Alike
<1> QED BY <1>2, <1>4, <1>5, <1>6, <1>7 DEF Own

LEMMA FewStay ==
  ASSUME NEW s, NEW n, Few(s), \A q \in Runs : Live(n, q) => Live(s, q)
  PROVE  Few(n)
<1>1. UnderWay(n) \subseteq UnderWay(s)
  BY DEF UnderWay
<1>2. IsFiniteSet(UnderWay(s))
  BY RunAssumption, FS_Subset DEF UnderWay
<1>3. Cardinality(UnderWay(n)) <= Cardinality(UnderWay(s))
  BY <1>1, <1>2, FS_Subset
<1>4. Cardinality(UnderWay(n)) \in Nat /\ Cardinality(UnderWay(s)) \in Nat
  BY <1>1, <1>2, FS_Subset, FS_CardinalityType
<1> QED BY <1>3, <1>4, RunAssumption DEF Few

LEMMA StepKeeps ==
  ASSUME NEW s \in Stores, NEW n \in Stores, NEW R \in SUBSET Runs,
         AllBut(s, R), Apart(s, n, R), NoMore(s, n, R)
  PROVE  AllBut(n, R)
<1>1. \A q \in Runs \ R : Own(n, q)
  BY AlikeOwn DEF AllBut, Apart
<1>2. \A q \in Runs, a \in OneAtATime : HoldsAction(n, q, a) => HoldsAction(s, q, a)
  <2> TAKE q \in Runs, a \in OneAtATime
  <2>1. CASE q \in R
    BY <2>1 DEF NoMore
  <2>2. CASE q \notin R
    BY <2>2, AlikeInside DEF Apart
  <2> QED BY <2>1, <2>2
<1>3. Single(n)
  BY <1>2 DEF AllBut, Single
<1>4. \A q \in Runs : Live(n, q) => Live(s, q)
  BY AlikeInside DEF Apart, NoMore
<1>5. Few(n)
  BY <1>4, FewStay DEF AllBut
<1> QED BY <1>1, <1>3, <1>5 DEF AllBut

LEMMA AllOfThem ==
  ASSUME NEW s, NEW R \in SUBSET Runs, AllBut(s, R), \A r \in R : Own(s, r)
  PROVE  AllBut(s, {})
BY DEF AllBut

LEMMA SomeOfThem ==
  ASSUME NEW s, NEW R \in SUBSET Runs, AllBut(s, {})
  PROVE  AllBut(s, R)
BY DEF AllBut

-----------------------------------------------------------------------------
(* The pieces the transactions are made of.                                *)

LEMMA HandedBackIs ==
  ASSUME NEW k \in TaskRecord, NEW ending
  PROVE  /\ HandedBack(k, ending) \in TaskRecord
         /\ HandedBack(k, ending).holder \in Runs => HandedBack(k, ending) = k /\ k.status = "done"
<1>1. PICK b \in BOOLEAN : b = (k.filed \/ ending = "failed")
  OBVIOUS
<1>2. PICK c \in BOOLEAN : c = (k.human \/ ending = "canceled")
  OBVIOUS
<1>3. HandedBack(k, ending) = IF k.status = "done" THEN k
        ELSE [k EXCEPT !.status = "todo", !.holder = NoTask, !.filed = b, !.human = c]
  BY <1>1, <1>2 DEF HandedBack
<1> QED BY <1>3, RunAssumption DEF TaskRecord

LEMMA ArrivedIs ==
  ASSUME NEW s \in Stores, NEW r \in Runs, NEW later, NEW n, n = Arrived(s, r, later)
  PROVE  /\ n \in Stores
         /\ n.task = s.task /\ n.stopped = s.stopped /\ n.waits = s.waits
         /\ \A q \in Runs : Alike(n.run[q], s.run[q]) /\ n.run[q].turns = s.run[q].turns
<1> DEFINE others == {s.run[q].arrived : q \in UnderWay(s) \ {r}}
           latest == CHOOSE m \in others \cup {0} : \A k \in others : k <= m
           mine == IF others = {} THEN 0 ELSE latest + later
           rank(m) == Cardinality({k \in others \cup {mine} : k < m})
           place(q) == IF q = r THEN rank(mine) ELSE IF Live(s, q) THEN rank(s.run[q].arrived) ELSE 0
<1>1. IsFiniteSet(others \cup {mine})
  <2>1. IsFiniteSet(UnderWay(s) \ {r})
    BY RunAssumption, FS_Subset DEF UnderWay
  <2>2. [q \in UnderWay(s) \ {r} |-> s.run[q].arrived] \in Surjection(UnderWay(s) \ {r}, others)
    BY DEF Surjection
  <2>3. IsFiniteSet(others)
    BY <2>1, <2>2, FS_Surjection
  <2> HIDE DEF mine
  <2> QED BY <2>3, FS_AddElement
<1>2. ASSUME NEW m PROVE rank(m) \in Nat
  <2> HIDE DEF others, mine
  <2>1. IsFiniteSet({k \in others \cup {mine} : k < m})
    BY <1>1, FS_Subset
  <2> QED BY <2>1, FS_CardinalityType
<1>3. \A q \in Runs : place(q) \in Nat
  <2> HIDE DEF rank, mine
  <2> QED BY <1>2
<1>4. n = [s EXCEPT !.run = [q \in Runs |-> [s.run[q] EXCEPT !.arrived = place(q)]]]
  BY DEF Arrived
<1> HIDE DEF place
<1>5. n.run = [q \in Runs |-> [s.run[q] EXCEPT !.arrived = place(q)]]
  BY <1>4 DEF Stores
<1>6. \A q \in Runs : n.run[q] \in RunRecord /\ Alike(n.run[q], s.run[q]) /\ n.run[q].turns = s.run[q].turns
  BY <1>3, <1>5, RunKinds DEF RunRecord, Alike
<1>7. n.run \in [Runs -> RunRecord]
  BY <1>5, <1>6
<1>8. n.task = s.task /\ n.stopped = s.stopped /\ n.waits = s.waits
  BY <1>4 DEF Stores
<1>9. n \in Stores
  BY <1>4, <1>7 DEF Stores
<1> QED BY <1>6, <1>8, <1>9

LEMMA ArrivedKeeps ==
  ASSUME NEW s \in Stores, NEW r \in Runs, NEW later, NEW n, n = Arrived(s, r, later)
  PROVE  Apart(s, n, {}) /\ Apart(s, n, {r}) /\ NoMore(s, n, {r})
<1>1. n.task = s.task /\ \A q \in Runs : Alike(n.run[q], s.run[q])
  BY ArrivedIs
<1> QED BY <1>1, AlikeInside DEF Apart, NoMore, Has

\* Every way a run can end lets go of what it held.
LEMMA EndedIs ==
  ASSUME NEW s \in Stores, NEW r \in Runs, NEW ending \in {"completed", "failed", "canceled"},
         HeldBy(s, r), NEW n, n = Ended(s, r, ending)
  PROVE  /\ n \in Stores
         /\ ~Live(n, r) /\ Own(n, r) /\ NoMore(s, n, {r})
         /\ Apart(s, n, {r}) /\ GainsNone(s, n, r)
<1> DEFINE x == s.run[r]
           as == IF ending = "completed" /\ LeftOpen(s, r) THEN "failed" ELSE ending
           y == [NoRun EXCEPT !.status = as]
           over == [s EXCEPT !.run[r] = y]
<1>1. x \in RunRecord
  BY RunKinds
<1>2. as \in {"completed", "failed", "canceled"}
  OBVIOUS
<1>3. y \in RunRecord /\ y.status = as /\ y.kind = "none" /\ ~y.asked /\ ~y.before
        /\ y.st = "none" /\ y.fresh
  BY <1>2, NoRunIs DEF NoRun, RunRecord
<1>4. over \in Stores /\ over.run = [s.run EXCEPT ![r] = y] /\ over.task = s.task
  BY <1>3 DEF Stores
<1>5. n = IF as # "completed" /\ x.open /\ x.task # NoTask
            THEN [over EXCEPT !.task[x.task] = HandedBack(@, as)] ELSE over
  BY DEF Ended
<1>6. ASSUME as # "completed", x.open, x.task # NoTask
      PROVE  /\ n \in Stores /\ n.run = over.run
             /\ n.task = [s.task EXCEPT ![x.task] = HandedBack(s.task[x.task], as)]
             /\ x.task \in Tasks
  <2>1. x.task \in Tasks
    BY <1>1, <1>6 DEF RunRecord
  <2>2. HandedBack(s.task[x.task], as) \in TaskRecord
    BY <2>1, HandedBackIs, TaskKinds
  <2>3. n = [over EXCEPT !.task[x.task] = HandedBack(s.task[x.task], as)]
    BY <1>4, <1>5, <1>6
  <2> HIDE DEF over
  <2> QED BY <1>4, <2>1, <2>2, <2>3 DEF Stores
<1>7. n \in Stores /\ n.run = [s.run EXCEPT ![r] = y]
  <2> HIDE DEF y, as, over
  <2> QED BY <1>4, <1>5, <1>6
<1>8. \A t \in Tasks, q \in Runs : Has(n, q, t) =>
        Has(s, q, t) /\ n.task[t].status = s.task[t].status
  <2> TAKE t \in Tasks, q \in Runs
  <2>1. CASE as # "completed" /\ x.open /\ x.task # NoTask
    <3>1. n.task[t] = IF t = x.task THEN HandedBack(s.task[t], as) ELSE s.task[t]
      BY <1>6, <2>1 DEF Stores
    <3>2. HandedBack(s.task[t], as).holder \in Runs => HandedBack(s.task[t], as) = s.task[t]
      BY HandedBackIs, TaskKinds
    <3> QED BY <3>1, <3>2 DEF Has
  <2>2. CASE ~(as # "completed" /\ x.open /\ x.task # NoTask)
    BY <1>4, <1>5, <2>2 DEF Has
  <2> QED BY <2>1, <2>2
<1>9. \A t \in Tasks : ~Has(n, r, t)
  <2> SUFFICES ASSUME NEW t \in Tasks, Has(n, r, t) PROVE FALSE
    OBVIOUS
  <2>1. x.open /\ x.task = t /\ s.task[t].status = "in_progress"
    BY <1>8 DEF HeldBy
  <2>2. t # NoTask
    BY RunAssumption
  <2>3. as # "completed"
    BY <2>1, <2>2 DEF LeftOpen
  <2>4. n.task[t] = HandedBack(s.task[t], as)
    BY <1>6, <2>1, <2>2, <2>3 DEF Stores
  <2>5. s.task[t].status = "done"
    BY <2>4, HandedBackIs, TaskKinds DEF Has
  <2> QED BY <2>1, <2>5
<1>10. n.run[r] = y /\ \A q \in Runs \ {r} : n.run[q] = s.run[q]
  BY <1>7 DEF Stores
<1>11. ~Live(n, r)
  BY <1>2, <1>3, <1>10 DEF Live
<1>12. Own(n, r)
  <2>1. Coherent(y)
    BY <1>2, <1>3 DEF Coherent
  <2>2. y.status # "paused"
    BY <1>2, <1>3
  <2> QED BY <1>9, <1>10, <2>1, <2>2 DEF Own, HeldBy
<1>13. NoMore(s, n, {r})
  BY <1>11 DEF NoMore, HoldsAction
<1>14. Apart(s, n, {r})
  BY <1>8, <1>10 DEF Apart, Alike
<1>15. GainsNone(s, n, r)
  BY <1>9 DEF GainsNone
<1> QED BY <1>7, <1>11, <1>12, <1>13, <1>14, <1>15

LEMMA EndedKeeps ==
  ASSUME NEW s \in Stores, NEW r \in Runs, NEW ending \in {"completed", "failed", "canceled"},
         HeldBy(s, r), AllBut(s, {r}), NEW n, n = Ended(s, r, ending)
  PROVE  AllBut(n, {})
BY EndedIs, StepKeeps, AllOfThem

LEMMA ApartOn ==
  ASSUME NEW s, NEW m, NEW n, NEW R \in SUBSET Runs, Apart(s, m, R), Apart(m, n, R)
  PROVE  Apart(s, n, R)
BY DEF Apart, Alike

Pauses == {"end", "before"}

\* What a settled run keeps and what it loses.
IsSettled(x, y, kind) ==
  /\ y.status = "paused" /\ ~y.asked /\ ~y.before /\ y.kind = kind
  /\ y.at = x.at /\ y.st = x.st /\ y.exit = x.exit /\ y.fresh = x.fresh
  /\ y.task = x.task /\ y.open = x.open

LEMMA SettledIs ==
  ASSUME NEW x \in RunRecord, NEW kind \in Pauses
  PROVE  Settled(x, kind) \in RunRecord /\ IsSettled(x, Settled(x, kind), kind)
BY DEF RunRecord, Settled, IsSettled, Pauses

LEMMA SettleIs ==
  ASSUME NEW s \in Stores, NEW r \in Runs, NEW kind \in Pauses,
         NEW n, n = Settle(s, r, kind)
  PROVE  /\ n \in Stores
         /\ n.task = s.task /\ IsSettled(s.run[r], n.run[r], kind)
         /\ \A q \in Runs \ {r} : n.run[q] = s.run[q]
<1> DEFINE y == Settled(s.run[r], kind)
<1>1. y \in RunRecord /\ IsSettled(s.run[r], y, kind)
  BY RunKinds, SettledIs
<1>2. n = [s EXCEPT !.run = [s.run EXCEPT ![r] = y]]
  BY DEF Settle
<1> HIDE DEF y
<1>3. n \in Stores /\ n.task = s.task /\ n.run[r] = y /\ \A q \in Runs \ {r} : n.run[q] = s.run[q]
  BY <1>1, <1>2 DEF Stores
<1> QED BY <1>1, <1>3

\* A run is settled between actions, and before its next task with none in hand.
MaySettle(s, r, kind) ==
  /\ s.run[r].status = "running" /\ s.run[r].st # "running" /\ ~Inside(s, r)
  /\ kind = "before" => \A t \in Tasks : Has(s, r, t) => s.run[r].fresh

LEMMA SettledOwn ==
  ASSUME NEW s \in Stores, NEW n \in Stores, NEW r \in Runs, NEW kind \in Pauses,
         Own(s, r), MaySettle(s, r, kind), IsSettled(s.run[r], n.run[r], kind), n.task = s.task
  PROVE  Own(n, r) /\ NoMore(s, n, {r}) /\ Stands(s, n, r)
<1> USE DEF IsSettled
<1>1. ~Inside(n, r)
  BY DEF MaySettle, Inside, LastLine
<1>2. NoMore(s, n, {r})
  BY <1>1 DEF NoMore, HoldsAction, Live, MaySettle
<1>3. \A t \in Tasks : Has(n, r, t) <=> Has(s, r, t)
  BY DEF Has
<1>4. Coherent(n.run[r])
  BY DEF Own, Coherent, MaySettle, Pauses
<1>5. HeldBy(n, r)
  BY <1>3 DEF Own, HeldBy
<1>6. OnItsWay(s.run[r]) => OnItsWay(n.run[r])
  BY DEF OnItsWay, LastLine
<1>7. \A t \in Tasks : Has(n, r, t) => Live(n, r) /\ (n.run[r].fresh \/ OnItsWay(n.run[r]))
  BY <1>3, <1>6 DEF Own, Live
<1>8. \A t \in Tasks : Has(n, r, t) /\ n.run[r].kind = "before" => n.run[r].fresh
  BY <1>3 DEF MaySettle
<1>9. Own(n, r)
  BY <1>1, <1>4, <1>5, <1>7, <1>8 DEF Own
<1>10. Stands(s, n, r)
  BY <1>3 DEF Stands, Live, MaySettle
<1> QED BY <1>2, <1>9, <1>10

LEMMA SettleKeeps ==
  ASSUME NEW s \in Stores, NEW r \in Runs, NEW kind \in Pauses,
         AllBut(s, {}), MaySettle(s, r, kind), NEW n, n = Settle(s, r, kind)
  PROVE  n \in Stores /\ AllBut(n, {}) /\ Apart(s, n, {r}) /\ Stands(s, n, r) /\ GainsNone(s, n, r)
<1>1. /\ n \in Stores
      /\ n.task = s.task /\ IsSettled(s.run[r], n.run[r], kind)
      /\ \A q \in Runs \ {r} : n.run[q] = s.run[q]
  BY SettleIs
<1>2. Apart(s, n, {r})
  BY <1>1 DEF Apart, Alike, Has
<1>3. Own(s, r)
  BY DEF AllBut
<1>4. Own(n, r) /\ NoMore(s, n, {r}) /\ Stands(s, n, r)
  BY <1>1, <1>3, SettledOwn
<1>5. GainsNone(s, n, r)
  BY <1>1 DEF GainsNone, Has
<1> QED BY <1>1, <1>2, <1>4, <1>5, SomeOfThem, StepKeeps, AllOfThem

\* A round is over when the task is closed: the run holds none.
LEMMA RoundOverKeeps ==
  ASSUME NEW s \in Stores, NEW r \in Runs, AllBut(s, {}), MaySettle(s, r, "before"),
         \A t \in Tasks : ~Has(s, r, t), NEW n, n = RoundOver(s, r)
  PROVE  n \in Stores /\ AllBut(n, {}) /\ Apart(s, n, {r}) /\ GainsNone(s, n, r)
<1>0. PICK x \in RunRecord : x = s.run[r]
  BY RunKinds
<1> DEFINE y == [x EXCEPT !.open = FALSE]
<1>1. PICK m : m = [s EXCEPT !.run[r].open = FALSE]
  OBVIOUS
<1>2. /\ y \in RunRecord
      /\ y.status = x.status /\ y.asked = x.asked /\ y.before = x.before
      /\ y.kind = x.kind /\ y.at = x.at /\ y.st = x.st /\ y.exit = x.exit /\ y.fresh = x.fresh
  BY DEF RunRecord
<1>3. m = [s EXCEPT !.run = [s.run EXCEPT ![r] = y]]
  BY <1>0, <1>1
<1> HIDE DEF y
<1>4. m \in Stores /\ m.task = s.task /\ m.run[r] = y /\ \A q \in Runs \ {r} : m.run[q] = s.run[q]
  BY <1>2, <1>3 DEF Stores
<1>5. Apart(s, m, {r})
  BY <1>4 DEF Apart, Alike, Has
<1>6. Inside(m, r) <=> Inside(s, r)
  BY <1>0, <1>2, <1>4 DEF Inside, LastLine
<1>7. NoMore(s, m, {r})
  BY <1>0, <1>2, <1>4, <1>6 DEF NoMore, HoldsAction, Live
<1>8. \A t \in Tasks : ~Has(m, r, t)
  BY <1>4 DEF Has
<1>9. Own(m, r)
  BY <1>0, <1>2, <1>4, <1>6, <1>8 DEF AllBut, Own, Coherent, HeldBy
<1>10. AllBut(m, {})
  BY <1>4, <1>5, <1>7, <1>9, SomeOfThem, StepKeeps, AllOfThem
<1>11. MaySettle(m, r, "before")
  BY <1>0, <1>2, <1>4, <1>6, <1>8 DEF MaySettle
<1>12. n = m \/ n = Settle(m, r, "before")
  BY <1>1 DEF RoundOver
<1>13. CASE n = m
  BY <1>4, <1>5, <1>8, <1>10, <1>13 DEF GainsNone
<1>14. CASE n = Settle(m, r, "before")
  <2>1. n \in Stores /\ AllBut(n, {}) /\ Apart(m, n, {r}) /\ GainsNone(m, n, r)
    BY <1>4, <1>10, <1>11, <1>14, SettleKeeps DEF Pauses
  <2>2. GainsNone(s, n, r)
    BY <1>8, <2>1 DEF GainsNone
  <2> QED BY <1>5, <2>1, <2>2, ApartOn
<1> QED BY <1>12, <1>13, <1>14

\* A run whose step has reported, asked what follows.
LEMMA WhatsNextKeeps ==
  ASSUME NEW s \in Stores, NEW r \in Runs, AllBut(s, {}),
         s.run[r].status = "running", s.run[r].st = "done",
         NEW n, n = WhatsNext(s, r)
  PROVE  n \in Stores /\ AllBut(n, {}) /\ Apart(s, n, {r}) /\ GainsNone(s, n, r)
<1> DEFINE line == LastLine(s.run[r])
<1>1. Own(s, r) /\ HeldBy(s, r) /\ AllBut(s, {r})
  BY SomeOfThem DEF AllBut, Own
<1>2. \/ line.ends = "done" /\ GoesRound(s, r) /\ n = RoundOver(s, r)
      \/ n = Ended(s, r, "completed")
      \/ n = Ended(s, r, "failed")
      \/ line.ends = "go" /\ ~line.stays /\ n = Settle(s, r, "end")
      \/ n = s
  BY DEF WhatsNext
<1>3. CASE line.ends = "done" /\ GoesRound(s, r) /\ n = RoundOver(s, r)
  <2>1. \A t \in Tasks : ~Has(s, r, t)
    BY <1>1, <1>3 DEF HeldBy, GoesRound
  <2>2. MaySettle(s, r, "before")
    BY <1>3, <2>1 DEF MaySettle, Inside
  <2> QED BY <1>3, <2>1, <2>2, RoundOverKeeps
<1>4. ASSUME NEW ending \in {"completed", "failed"}, n = Ended(s, r, ending)
      PROVE  n \in Stores /\ AllBut(n, {}) /\ Apart(s, n, {r}) /\ GainsNone(s, n, r)
  BY <1>1, <1>4, EndedIs, EndedKeeps
<1>5. CASE line.ends = "go" /\ ~line.stays /\ n = Settle(s, r, "end")
  <2>1. MaySettle(s, r, "end")
    BY <1>5 DEF MaySettle, Inside
  <2> QED BY <1>5, <2>1, SettleKeeps DEF Pauses
<1>6. CASE n = s
  BY <1>6 DEF Apart, Alike, GainsNone
<1> QED BY <1>2, <1>3, <1>4, <1>5, <1>6

\* A run at the step it is about to report, by a way out that keeps it on its way.
Reports(s, r, exit) ==
  LET x == s.run[r] IN
  /\ x.status = "running" /\ x.st = "running" /\ x.kind = "none" /\ x.at \in Spots
  /\ HeldBy(s, r)
  /\ \A t \in Tasks : Has(s, r, t) =>
       x.fresh \/ (Line[x.at][exit].ends = "go" => Line[x.at][exit].to \in Keep \cup LetGo)

LEMMA DoneKeeps ==
  ASSUME NEW s \in Stores, NEW r \in Runs, NEW exit \in Exits, NEW later,
         AllBut(s, {r}), Reports(s, r, exit), NEW n, n = Done(s, r, exit, later)
  PROVE  n \in Stores /\ AllBut(n, {}) /\ Apart(s, n, {r}) /\ GainsNone(s, n, r)
<1> DEFINE x == s.run[r]
           turns == [k \in Back |-> IF k = <<x.at, exit>> THEN x.turns[k] + 1 ELSE x.turns[k]]
           y == [x EXCEPT !.st = "done", !.exit = exit, !.turns = turns]
<1>1. PICK m : m = [s EXCEPT !.run[r] = y]
  OBVIOUS
<1>2. x \in RunRecord
  BY RunKinds
<1>3. turns \in [Back -> Nat]
  BY <1>2 DEF RunRecord
<1>4. /\ y \in RunRecord
      /\ y.status = x.status /\ y.asked = x.asked /\ y.before = x.before
      /\ y.kind = x.kind /\ y.at = x.at /\ y.st = "done"
      /\ y.exit = exit /\ y.fresh = x.fresh /\ y.task = x.task /\ y.open = x.open
  <2> HIDE DEF turns
  <2> QED BY <1>2, <1>3 DEF RunRecord
<1>5. n = WhatsNext(Arrived(m, r, later), r)
  BY <1>1 DEF Done
<1> HIDE DEF y
<1>6. m \in Stores /\ m.task = s.task /\ m.run[r] = y /\ \A q \in Runs \ {r} : m.run[q] = s.run[q]
  BY <1>1, <1>4 DEF Stores
<1>7. Apart(s, m, {r})
  BY <1>6 DEF Apart, Alike, Has
<1>8. NoMore(s, m, {r})
  BY <1>4, <1>6 DEF NoMore, HoldsAction, Live, Inside, Reports
<1>9. Own(m, r)
  <2>1. Coherent(y)
    BY <1>2, <1>4 DEF Reports, Coherent, RunRecord
  <2>2. \A t \in Tasks : Has(m, r, t) <=> Has(s, r, t)
    BY <1>6 DEF Has
  <2>3. HeldBy(m, r)
    BY <1>4, <1>6, <2>2 DEF Reports, HeldBy
  <2>4. ASSUME NEW t \in Tasks, Has(m, r, t) PROVE y.fresh \/ OnItsWay(y)
    BY <1>4, <2>2, <2>4 DEF Reports, OnItsWay, LastLine
  <2> QED BY <1>4, <1>6, <2>1, <2>3, <2>4 DEF Own, Live, Reports
<1>10. AllBut(m, {})
  BY <1>6, <1>7, <1>8, <1>9, StepKeeps, AllOfThem
<1>11. PICK k : k = Arrived(m, r, later)
  OBVIOUS
<1>12. k \in Stores /\ Apart(m, k, {}) /\ Apart(m, k, {r}) /\ Alike(k.run[r], m.run[r])
         /\ k.task = m.task
  BY <1>6, <1>11, ArrivedIs, ArrivedKeeps
<1>13. AllBut(k, {})
  BY <1>6, <1>10, <1>12, StepKeeps DEF NoMore
<1>14. k.run[r].status = "running" /\ k.run[r].st = "done"
  BY <1>4, <1>6, <1>12 DEF Alike, Reports
<1>15. n \in Stores /\ AllBut(n, {}) /\ Apart(k, n, {r}) /\ GainsNone(k, n, r)
  BY <1>5, <1>11, <1>12, <1>13, <1>14, WhatsNextKeeps
<1>16. Apart(s, k, {r})
  BY <1>7, <1>12, ApartOn
<1>17. GainsNone(s, n, r)
  BY <1>6, <1>12, <1>15 DEF GainsNone, Has
<1> QED BY <1>15, <1>16, <1>17, ApartOn

-----------------------------------------------------------------------------
(* Opening a step.                                                         *)

\* What open_as has seen to when it writes the execution down, and what the
\* watch's look has told it.
Opens(s, r, spot, old) ==
  /\ s.run[r].status = "running" /\ s.run[r].st # "running"
  /\ Kind[spot] = "take" => ~LeftOpen(s, r)
  /\ Behind(s, r, spot) = {}
  /\ \A t \in Tasks : Has(s, r, t) /\ Kind[spot] # "take" => spot \in Keep \cup LetGo
  /\ Inside(s, r) => ActionOf[spot] = ActionOf[s.run[r].at]

\* The execution is written down, and nothing else yet.
IsOpened(s, m, r, spot, old) ==
  /\ m.task = s.task
  /\ \A q \in Runs \ {r} : m.run[q] = s.run[q]
  /\ LET x == s.run[r] y == m.run[r] IN
     /\ y.status = x.status /\ y.asked = x.asked /\ y.before = x.before /\ y.kind = x.kind
     /\ y.at = spot /\ y.st = "running" /\ y.fresh = old
     /\ Kind[spot] = "take" => y.task = NoTask /\ y.open
     /\ Kind[spot] # "take" => y.task = x.task /\ y.open = x.open

LEMMA OpenedIs ==
  ASSUME NEW s \in Stores, NEW r \in Runs, NEW spot \in Spots, NEW old \in BOOLEAN,
         NEW m, m = Opened(s, r, spot, old)
  PROVE  m \in Stores /\ IsOpened(s, m, r, spot, old)
<1>0. PICK x \in RunRecord : x = s.run[r]
  BY RunKinds
<1> DEFINE step == [x EXCEPT !.at = spot, !.st = "running", !.exit = "none", !.fresh = old]
           taking == [step EXCEPT !.task = NoTask, !.open = TRUE, !.turns = [k \in Back |-> 0]]
<1>1. /\ step \in RunRecord
      /\ step.status = x.status /\ step.asked = x.asked /\ step.before = x.before /\ step.kind = x.kind
      /\ step.at = spot /\ step.st = "running" /\ step.fresh = old
      /\ step.task = x.task /\ step.open = x.open
  BY DEF RunRecord
<1>2. PICK none \in [Back -> Nat] : none = [k \in Back |-> 0]
  OBVIOUS
<1>3. PICK y : y = IF Kind[spot] = "take" THEN taking ELSE step
  OBVIOUS
<1>4. /\ y \in RunRecord
      /\ y.status = x.status /\ y.asked = x.asked /\ y.before = x.before /\ y.kind = x.kind
      /\ y.at = spot /\ y.st = "running" /\ y.fresh = old
      /\ Kind[spot] = "take" => y.task = NoTask /\ y.open
      /\ Kind[spot] # "take" => y.task = x.task /\ y.open = x.open
  <2>1. CASE Kind[spot] = "take"
    <3>1. y = [step EXCEPT !.task = NoTask, !.open = TRUE, !.turns = none]
      BY <1>2, <1>3, <2>1
    <3> HIDE DEF step
    <3> QED BY <1>1, <1>2, <2>1, <3>1 DEF RunRecord
  <2>2. CASE Kind[spot] # "take"
    BY <1>1, <1>3, <2>2
  <2> QED BY <2>1, <2>2
<1>5. m = [s EXCEPT !.run = [s.run EXCEPT ![r] = y]]
  BY <1>0, <1>3 DEF Opened
<1>6. m \in Stores /\ m.task = s.task /\ m.run[r] = y /\ \A q \in Runs \ {r} : m.run[q] = s.run[q]
  BY <1>4, <1>5 DEF Stores
<1> QED BY <1>0, <1>4, <1>6 DEF IsOpened

\* The step is opened: all is in order but that its run is yet to report or to
\* be left to its agent.
InOrder(s, m, r, spot) ==
  /\ AllBut(m, {r}) /\ Apart(s, m, {r}) /\ HeldBy(m, r)
  /\ m.run[r].status = "running" /\ m.run[r].kind = "none"
  /\ Kind[spot] = "take" => \A t \in Tasks : ~Has(m, r, t)

LEMMA OpenedKeeps ==
  ASSUME NEW s \in Stores, NEW r \in Runs, NEW spot \in Spots, NEW old \in BOOLEAN,
         AllBut(s, {}), Opens(s, r, spot, old), old => s.run[r].fresh,
         NEW m \in Stores, IsOpened(s, m, r, spot, old)
  PROVE  InOrder(s, m, r, spot)
<1>1. Own(s, r) /\ \A q \in Runs \ {r} : Own(s, q)
  BY DEF AllBut
<1>2. Apart(s, m, {r})
  BY DEF Apart, Alike, Has, IsOpened
<1>3. \A q \in Runs \ {r} : Own(m, q)
  BY <1>1, <1>2, AlikeOwn DEF Apart
<1>4. m.run[r].status = "running" /\ m.run[r].kind = "none" /\ s.run[r].kind = "none"
  BY <1>1 DEF Own, Coherent, Opens, IsOpened
<1>5. \A t \in Tasks : Has(m, r, t) <=> Has(s, r, t)
  BY DEF Has, IsOpened
<1>6. ASSUME Kind[spot] = "take" PROVE \A t \in Tasks : ~Has(m, r, t)
  <2> SUFFICES ASSUME NEW t \in Tasks, Has(s, r, t) PROVE FALSE
    BY <1>5
  <2>1. s.run[r].open /\ s.run[r].task = t /\ s.task[t].status = "in_progress"
    BY <1>1 DEF Own, HeldBy
  <2>2. t # NoTask
    BY RunAssumption
  <2> QED BY <1>6, <2>1, <2>2 DEF Opens, LeftOpen
<1>7. HeldBy(m, r)
  BY <1>1, <1>5, <1>6 DEF Own, HeldBy, IsOpened
<1>8. ASSUME NEW a \in OneAtATime, NEW q \in Runs \ {r}, HoldsAction(m, q, a), HoldsAction(m, r, a)
      PROVE  FALSE
  <2>1. HoldsAction(s, q, a)
    BY <1>2, <1>8, AlikeInside DEF Apart
  <2>2. ~old /\ a = ActionOf[spot]
    BY <1>8 DEF HoldsAction, Inside, IsOpened
  <2>3. CASE Inside(s, r)
    <3>1. HoldsAction(s, r, a)
      BY <1>4, <2>2, <2>3 DEF HoldsAction, Live, Opens
    <3> QED BY <2>1, <3>1 DEF AllBut, Single
  <2>4. CASE ~Inside(s, r)
    <3>1. q \in Behind(s, r, spot)
      BY <2>1, <2>2, <2>4 DEF Behind
    <3> QED BY <3>1 DEF Opens
  <2> QED BY <2>3, <2>4
<1>9. Single(m)
  <2> SUFFICES ASSUME NEW a \in OneAtATime, NEW q \in Runs, NEW p \in Runs,
                      HoldsAction(m, q, a), HoldsAction(m, p, a)
               PROVE  q = p
    BY DEF Single
  <2>1. CASE q = r \/ p = r
    BY <1>8, <2>1
  <2>2. CASE q # r /\ p # r
    <3>1. HoldsAction(s, q, a) /\ HoldsAction(s, p, a)
      BY <1>2, <2>2, AlikeInside DEF Apart
    <3> QED BY <3>1 DEF AllBut, Single
  <2> QED BY <2>1, <2>2
<1>10. \A q \in Runs : Live(m, q) => Live(s, q)
  BY <1>2, AlikeInside DEF Apart, Live, Opens
<1>11. Few(m)
  BY <1>10, FewStay DEF AllBut
<1> QED BY <1>2, <1>3, <1>4, <1>6, <1>7, <1>9, <1>11 DEF AllBut, InOrder

\* Only tasks change, and only the run R is given any.
LEMMA TasksOnly ==
  ASSUME NEW s \in Stores, NEW n \in Stores, NEW R \in SUBSET Runs, AllBut(s, R),
         \A q \in Runs : Alike(n.run[q], s.run[q]) \/ (q \in R /\ n.run[q] = [s.run[q] EXCEPT !.task = n.run[q].task]),
         \A t \in Tasks, q \in Runs \ R : Has(n, q, t) => Has(s, q, t) /\ n.task[t].status = s.task[t].status
  PROVE  AllBut(n, R) /\ Apart(s, n, R)
<1>1. Apart(s, n, R)
  BY DEF Apart
<1>2. ASSUME NEW r \in R
      PROVE  /\ Live(n, r) => Live(s, r)
             /\ \A a \in OneAtATime : HoldsAction(n, r, a) => HoldsAction(s, r, a)
  <2>1. CASE Alike(n.run[r], s.run[r])
    BY <2>1, AlikeInside
  <2>2. CASE n.run[r] = [s.run[r] EXCEPT !.task = n.run[r].task]
    <3>1. PICK x \in RunRecord : x = s.run[r]
      BY RunKinds
    <3>2. PICK t : t = n.run[r].task
      OBVIOUS
    <3>3. n.run[r] = [x EXCEPT !.task = t]
      BY <2>2, <3>1, <3>2
    <3>4. /\ n.run[r].status = x.status /\ n.run[r].kind = x.kind /\ n.run[r].at = x.at
          /\ n.run[r].st = x.st /\ n.run[r].exit = x.exit /\ n.run[r].fresh = x.fresh
      BY <3>3 DEF RunRecord
    <3> QED BY <3>1, <3>4 DEF Live, HoldsAction, Inside, LastLine
  <2> QED BY <2>1, <2>2
<1> QED BY <1>1, <1>2, StepKeeps DEF NoMore

\* A step that was opened and holds nothing reports by any way out.
LEMMA EmptyHanded ==
  ASSUME NEW s, NEW r \in Runs, NEW exit,
         s.run[r].status = "running", s.run[r].st = "running", s.run[r].kind = "none",
         s.run[r].at \in Spots, \A t \in Tasks : ~Has(s, r, t)
  PROVE  Reports(s, r, exit)
BY DEF Reports, HeldBy

LEMMA AgentGoesIn ==
  ASSUME NEW s \in Stores, NEW r \in Runs, NEW spot \in Spots, NEW old \in BOOLEAN,
         AllBut(s, {}), Opens(s, r, spot, old), old => s.run[r].fresh, Kind[spot] = "agent",
         NEW m \in Stores, IsOpened(s, m, r, spot, old)
  PROVE  AllBut(m, {})
<1>1. /\ AllBut(m, {r}) /\ HeldBy(m, r)
      /\ m.run[r].status = "running" /\ m.run[r].kind = "none"
  BY OpenedKeeps DEF InOrder
<1>2. \A t \in Tasks : Has(m, r, t) => m.run[r].at \in Keep
  BY <1>1 DEF Opens, IsOpened, Has, LetGo
<1>3. Coherent(m.run[r])
  BY <1>1 DEF Coherent, IsOpened
<1>4. \A t \in Tasks : Has(m, r, t) => Live(m, r) /\ OnItsWay(m.run[r])
  BY <1>1, <1>2 DEF Live, OnItsWay, IsOpened
<1>5. Own(m, r)
  BY <1>1, <1>3, <1>4 DEF Own
<1> QED BY <1>1, <1>5, AllOfThem

\* The three built-ins, on the store in which their step was opened.
TaskTaken(m, r, u) ==
  [m EXCEPT !.task[u] = [@ EXCEPT !.status = "in_progress", !.holder = r], !.run[r].task = u]
TaskClosed(m, t) == [m EXCEPT !.task[t] = [@ EXCEPT !.status = "done", !.holder = NoTask]]
TaskBack(m, r, t) == [m EXCEPT !.task[t] = HandedBack(@, "canceled"), !.run[r].open = FALSE]

IsWith(m, k, r, y, t, w) ==
  /\ k.run[r] = y /\ \A q \in Runs \ {r} : k.run[q] = m.run[q]
  /\ k.task[t] = w /\ \A u \in Tasks \ {t} : k.task[u] = m.task[u]

LEMMA BothFields ==
  ASSUME NEW m \in Stores, NEW r \in Runs, NEW t \in Tasks, NEW y \in RunRecord, NEW w \in TaskRecord,
         NEW k, k = [m EXCEPT !.task = [m.task EXCEPT ![t] = w], !.run = [m.run EXCEPT ![r] = y]]
  PROVE  k \in Stores /\ IsWith(m, k, r, y, t, w)
<1>1. PICK f \in [Runs -> RunRecord] : f = [m.run EXCEPT ![r] = y]
  BY DEF Stores
<1>2. PICK g \in [Tasks -> TaskRecord] : g = [m.task EXCEPT ![t] = w]
  BY DEF Stores
<1>3. k = [m EXCEPT !.task = g, !.run = f]
  BY <1>1, <1>2
<1>4. k \in Stores /\ k.run = f /\ k.task = g
  BY <1>3 DEF Stores
<1> QED BY <1>1, <1>2, <1>4 DEF Stores, IsWith

IsTaken(m, k, r, u) ==
  /\ \A q \in Runs \ {r} : k.run[q] = m.run[q]
  /\ \A t \in Tasks \ {u} : k.task[t] = m.task[t]
  /\ k.task[u].status = "in_progress" /\ k.task[u].holder = r
  /\ k.run[r] = [m.run[r] EXCEPT !.task = k.run[r].task]
  /\ LET x == m.run[r] y == k.run[r] IN
     /\ y.status = x.status /\ y.kind = x.kind /\ y.st = x.st /\ y.at = x.at
     /\ y.fresh = x.fresh /\ y.open = x.open /\ y.task = u

LEMMA TakenIs ==
  ASSUME NEW m \in Stores, NEW r \in Runs, NEW u \in Tasks, NEW k, k = TaskTaken(m, r, u)
  PROVE  k \in Stores /\ IsTaken(m, k, r, u)
<1>1. PICK x \in RunRecord : x = m.run[r]
  BY RunKinds
<1>2. PICK v \in TaskRecord : v = m.task[u]
  BY TaskKinds
<1>3. PICK y : y = [x EXCEPT !.task = u]
  OBVIOUS
<1>4. PICK w : w = [v EXCEPT !.status = "in_progress", !.holder = r]
  OBVIOUS
<1>5. /\ y \in RunRecord /\ y.status = x.status /\ y.kind = x.kind /\ y.st = x.st /\ y.at = x.at
      /\ y.fresh = x.fresh /\ y.open = x.open /\ y.task = u
  BY <1>3 DEF RunRecord
<1>6. w \in TaskRecord /\ w.status = "in_progress" /\ w.holder = r
  BY <1>4 DEF TaskRecord
<1>7. k = [m EXCEPT !.task = [m.task EXCEPT ![u] = w], !.run = [m.run EXCEPT ![r] = y]]
  BY <1>1, <1>2, <1>3, <1>4 DEF TaskTaken
<1>8. k \in Stores /\ IsWith(m, k, r, y, u, w)
  <2>1. y \in RunRecord /\ w \in TaskRecord
    BY <1>5, <1>6
  <2> QED BY <1>7, <2>1, BothFields
<1>9. k.run[r] = [m.run[r] EXCEPT !.task = k.run[r].task]
  BY <1>1, <1>3, <1>5, <1>8 DEF IsWith
<1> QED BY <1>1, <1>5, <1>6, <1>8, <1>9 DEF IsTaken, IsWith

LEMMA TakeGoesIn ==
  ASSUME NEW s \in Stores, NEW r \in Runs, NEW spot \in Spots, NEW old \in BOOLEAN,
         AllBut(s, {}), Opens(s, r, spot, old), old => s.run[r].fresh, Kind[spot] = "take",
         NEW m \in Stores, IsOpened(s, m, r, spot, old),
         NEW u \in Takeable(m), NEW later, NEW k, k = TaskTaken(m, r, u),
         NEW n, n = Done(k, r, "done", later)
  PROVE  n \in Stores /\ AllBut(n, {}) /\ Apart(m, n, {r})
<1>1. u \in Tasks
  BY DEF Takeable
<1>2. k \in Stores /\ IsTaken(m, k, r, u)
  BY <1>1, TakenIs
<1>3. /\ AllBut(m, {r}) /\ \A t \in Tasks : ~Has(m, r, t)
      /\ m.run[r].status = "running" /\ m.run[r].kind = "none"
  BY OpenedKeeps DEF InOrder
<1>4. \A t \in Tasks, q \in Runs \ {r} :
        Has(k, q, t) => Has(m, q, t) /\ k.task[t].status = m.task[t].status
  BY <1>2 DEF Has, IsTaken
<1>5. AllBut(k, {r}) /\ Apart(m, k, {r})
  <2>1. \A q \in Runs :
          \/ Alike(k.run[q], m.run[q])
          \/ q \in {r} /\ k.run[q] = [m.run[q] EXCEPT !.task = k.run[q].task]
    BY <1>2 DEF Alike, IsTaken
  <2> QED BY <1>2, <1>3, <1>4, <2>1, TasksOnly
<1>6. HeldBy(k, r)
  BY <1>2, <1>3 DEF HeldBy, Has, IsOpened, IsTaken
<1>7. Line[spot]["done"].ends = "go" => Line[spot]["done"].to \in Keep \cup LetGo
  BY KeepHoldsOn, RunAssumption DEF HoldsOn
<1>8. Reports(k, r, "done")
  BY <1>2, <1>3, <1>6, <1>7 DEF Reports, IsOpened, IsTaken
<1>9. "done" \in Exits
  BY RunAssumption
<1>10. n \in Stores /\ AllBut(n, {}) /\ Apart(k, n, {r})
  BY <1>2, <1>5, <1>8, <1>9, DoneKeeps
<1> QED BY <1>5, <1>10, ApartOn

\* The task of the stretch is let go of, and the rest stays as it was.
LetsGo(m, k, r, t) ==
  /\ \A q \in Runs \ {r} : k.run[q] = m.run[q]
  /\ \A u \in Tasks \ {t} : k.task[u] = m.task[u]
  /\ k.task[t].holder \notin Runs
  /\ LET x == m.run[r] y == k.run[r] IN
     /\ y.status = x.status /\ y.kind = x.kind /\ y.st = x.st /\ y.at = x.at
     /\ y.fresh = x.fresh /\ y.exit = x.exit

LEMMA ClosedIs ==
  ASSUME NEW m \in Stores, NEW r \in Runs, NEW t \in Tasks, NEW k, k = TaskClosed(m, t)
  PROVE  k \in Stores /\ LetsGo(m, k, r, t)
<1>1. PICK v \in TaskRecord : v = m.task[t]
  BY TaskKinds
<1>2. PICK w : w = [v EXCEPT !.status = "done", !.holder = NoTask]
  OBVIOUS
<1>3. w \in TaskRecord /\ w.holder \notin Runs
  BY <1>2, RunAssumption DEF TaskRecord
<1>4. k = [m EXCEPT !.task = [m.task EXCEPT ![t] = w]]
  BY <1>1, <1>2 DEF TaskClosed
<1>5. k \in Stores /\ k.run = m.run /\ k.task = [m.task EXCEPT ![t] = w]
  BY <1>3, <1>4 DEF Stores
<1> QED BY <1>3, <1>5 DEF LetsGo, Stores

LEMMA BackIs ==
  ASSUME NEW m \in Stores, NEW r \in Runs, NEW t \in Tasks, m.task[t].status # "done",
         NEW k, k = TaskBack(m, r, t)
  PROVE  k \in Stores /\ LetsGo(m, k, r, t)
<1>1. PICK w : w = HandedBack(m.task[t], "canceled")
  OBVIOUS
<1>2. w \in TaskRecord /\ w.holder \notin Runs
  BY <1>1, HandedBackIs, TaskKinds
<1>3. PICK x \in RunRecord : x = m.run[r]
  BY RunKinds
<1>4. PICK y : y = [x EXCEPT !.open = FALSE]
  OBVIOUS
<1>5. /\ y \in RunRecord /\ y.status = x.status /\ y.kind = x.kind /\ y.st = x.st /\ y.at = x.at
      /\ y.fresh = x.fresh /\ y.exit = x.exit
  BY <1>4 DEF RunRecord
<1>6. k = [m EXCEPT !.task = [m.task EXCEPT ![t] = w], !.run = [m.run EXCEPT ![r] = y]]
  BY <1>1, <1>3, <1>4 DEF TaskBack
<1>7. /\ k \in Stores /\ k.run[r] = y /\ k.task[t] = w
      /\ \A q \in Runs \ {r} : k.run[q] = m.run[q]
      /\ \A u \in Tasks \ {t} : k.task[u] = m.task[u]
  <2>1. k \in Stores /\ IsWith(m, k, r, y, t, w)
    BY <1>2, <1>5, <1>6, BothFields
  <2> QED BY <2>1 DEF IsWith
<1> QED BY <1>2, <1>3, <1>5, <1>7 DEF LetsGo

\* Closing the task, or handing it back: the run is empty-handed.
LEMMA LettingGoIn ==
  ASSUME NEW m \in Stores, NEW r \in Runs, AllBut(m, {r}), HeldBy(m, r),
         m.run[r].status = "running", m.run[r].kind = "none", m.run[r].st = "running",
         m.run[r].at \in Spots, NEW t \in Tasks, t = m.run[r].task,
         NEW k \in Stores, LetsGo(m, k, r, t), NEW later, NEW n, n = Done(k, r, "done", later)
  PROVE  n \in Stores /\ AllBut(n, {}) /\ Apart(m, n, {r}) /\ GainsNone(m, n, r)
<1>1. \A u \in Tasks, q \in Runs : Has(k, q, u) => Has(m, q, u) /\ k.task[u].status = m.task[u].status
  BY DEF Has, LetsGo
<1>2. \A u \in Tasks : ~Has(k, r, u)
  BY DEF Has, HeldBy, LetsGo
<1>3. Apart(m, k, {r})
  BY <1>1 DEF Apart, Alike, LetsGo
<1>4. NoMore(m, k, {r})
  BY DEF NoMore, Live, HoldsAction, Inside, LastLine, LetsGo
<1>5. AllBut(k, {r})
  BY <1>3, <1>4, StepKeeps
<1>6. Reports(k, r, "done")
  BY <1>2, EmptyHanded DEF LetsGo
<1>7. "done" \in Exits
  BY RunAssumption
<1>8. n \in Stores /\ AllBut(n, {}) /\ Apart(k, n, {r}) /\ GainsNone(k, n, r)
  BY <1>5, <1>6, <1>7, DoneKeeps
<1>9. GainsNone(m, n, r)
  BY <1>2, <1>8 DEF GainsNone
<1> QED BY <1>3, <1>8, <1>9, ApartOn

\* The hand-back of a task that is closed already leaves it as it is.
LEMMA ClosedAlready ==
  ASSUME NEW s \in Stores, NEW r \in Runs, NEW spot \in Spots, NEW old \in BOOLEAN,
         AllBut(s, {}), Opens(s, r, spot, old), old => s.run[r].fresh, Kind[spot] # "take",
         NEW m \in Stores, IsOpened(s, m, r, spot, old), NEW t \in Tasks, t = m.run[r].task,
         m.task[t].status = "done", NEW later, NEW n, n = Done(m, r, "done", later)
  PROVE  n \in Stores /\ AllBut(n, {}) /\ Apart(m, n, {r}) /\ GainsNone(m, n, r)
<1>1. /\ AllBut(m, {r}) /\ HeldBy(m, r)
      /\ m.run[r].status = "running" /\ m.run[r].kind = "none"
  BY OpenedKeeps DEF InOrder
<1>2. \A u \in Tasks : ~Has(m, r, u)
  BY <1>1 DEF HeldBy
<1>3. Reports(m, r, "done")
  BY <1>1, <1>2, EmptyHanded DEF IsOpened
<1>4. "done" \in Exits
  BY RunAssumption
<1> QED BY <1>1, <1>3, <1>4, DoneKeeps

\* GoIn, of a store.
LEMMA GoInKeeps ==
  ASSUME store \in Stores, NEW r \in Runs, NEW spot \in Spots, looking.old \in BOOLEAN,
         AllBut(store, {}), Opens(store, r, spot, looking.old), looking.old => store.run[r].fresh,
         GoIn(r, spot)
  PROVE  /\ store' \in Stores /\ AllBut(store', {}) /\ Apart(store, store', {r})
         /\ Kind[spot] = "take" \/ GainsNone(store, store', r)
<1>1. PICK s \in Stores : s = store
  OBVIOUS
<1>2. PICK old \in BOOLEAN : old = looking.old
  OBVIOUS
<1>3. PICK n : n = store'
  OBVIOUS
<1>4. PICK m : m = Opened(s, r, spot, old)
  OBVIOUS
<1>5. m \in Stores /\ IsOpened(s, m, r, spot, old)
  BY <1>4, OpenedIs
<1>6. AllBut(s, {}) /\ Opens(s, r, spot, old) /\ (old => s.run[r].fresh)
  BY <1>1, <1>2
<1>7. /\ AllBut(m, {r}) /\ Apart(s, m, {r}) /\ HeldBy(m, r)
      /\ m.run[r].status = "running" /\ m.run[r].kind = "none"
  <2>1. InOrder(s, m, r, spot)
    BY <1>5, <1>6, OpenedKeeps
  <2> QED BY <2>1 DEF InOrder
<1>8. SUFFICES /\ n \in Stores /\ AllBut(n, {}) /\ Apart(m, n, {r})
               /\ Kind[spot] = "take" \/ GainsNone(m, n, r)
  <2>1. Apart(m, n, {r}) => Apart(s, n, {r})
    BY <1>7, ApartOn
  <2>2. GainsNone(m, n, r) => GainsNone(s, n, r)
    BY <1>5 DEF GainsNone, Has, IsOpened
  <2> QED BY <1>1, <1>3, <2>1, <2>2
<1>9. PICK x \in RunRecord : x = m.run[r]
  BY <1>5, RunKinds
<1>10. Kind[spot] # "take" => x.task = s.run[r].task
  BY <1>5, <1>9 DEF IsOpened
<1>11. CASE Kind[spot] = "agent" /\ n = m
  <2>1. AllBut(m, {})
    BY <1>5, <1>6, <1>11, AgentGoesIn
  <2> QED BY <1>5, <1>11, <2>1 DEF Apart, Alike, GainsNone
<1>12. ASSUME Kind[spot] = "take", NEW u \in Takeable(m), NEW later,
              n = Done(TaskTaken(m, r, u), r, "done", later)
       PROVE  n \in Stores /\ AllBut(n, {}) /\ Apart(m, n, {r})
  BY <1>5, <1>6, <1>12, TakeGoesIn
<1>13. ASSUME Kind[spot] # "take", x.task # NoTask
       PROVE  /\ x.task \in Tasks /\ AllBut(m, {r}) /\ HeldBy(m, r)
              /\ x.status = "running" /\ x.kind = "none" /\ x.st = "running" /\ x.at = spot
  BY <1>5, <1>7, <1>9, <1>13 DEF RunRecord, IsOpened
<1>14. ASSUME Kind[spot] = "close", x.task # NoTask, NEW later,
              n = Done(TaskClosed(m, x.task), r, "done", later)
       PROVE  n \in Stores /\ AllBut(n, {}) /\ Apart(m, n, {r}) /\ GainsNone(m, n, r)
  BY <1>5, <1>9, <1>13, <1>14, ClosedIs, LettingGoIn
<1>15. ASSUME Kind[spot] = "hand_back", x.task # NoTask, NEW later,
              n = Done(IF m.task[x.task].status = "done" THEN m ELSE TaskBack(m, r, x.task),
                       r, "done", later)
       PROVE  n \in Stores /\ AllBut(n, {}) /\ Apart(m, n, {r}) /\ GainsNone(m, n, r)
  <2>1. CASE m.task[x.task].status = "done"
    BY <1>5, <1>6, <1>9, <1>13, <1>15, <2>1, ClosedAlready
  <2>2. CASE m.task[x.task].status # "done"
    BY <1>5, <1>9, <1>13, <1>15, <2>2, BackIs, LettingGoIn
  <2> QED BY <2>1, <2>2
<1>16. \/ Kind[spot] = "agent" /\ n = m
       \/ /\ Kind[spot] = "take"
          /\ \E u \in Takeable(m), later \in {0, 1} : n = Done(TaskTaken(m, r, u), r, "done", later)
       \/ /\ Kind[spot] = "close" /\ x.task # NoTask
          /\ \E later \in {0, 1} : n = Done(TaskClosed(m, x.task), r, "done", later)
       \/ /\ Kind[spot] = "hand_back" /\ x.task # NoTask
          /\ \E later \in {0, 1} :
               n = Done(IF m.task[x.task].status = "done" THEN m ELSE TaskBack(m, r, x.task),
                        r, "done", later)
  BY <1>1, <1>2, <1>3, <1>4, <1>9 DEF GoIn, TaskTaken, TaskClosed, TaskBack
<1> QED BY <1>11, <1>12, <1>14, <1>15, <1>16

\* No run comes to hold a task.
Gainless(s, n) == \A r \in Runs : GainsNone(s, n, r)

LEMMA GainlessIs ==
  ASSUME NEW s, NEW n, NEW r \in Runs, Apart(s, n, {r}), GainsNone(s, n, r)
  PROVE  Gainless(s, n)
BY DEF Gainless, GainsNone, Apart

LEMMA SameTasks ==
  ASSUME NEW s, NEW n, n.task = s.task
  PROVE  Gainless(s, n)
BY DEF Gainless, GainsNone, Has

-----------------------------------------------------------------------------
(* The watch.                                                              *)

LEMMA SeenStays ==
  ASSUME NEW s, NEW n, NEW l, Seen(s, l), l.run \in Runs => Stands(s, n, l.run)
  PROVE  Seen(n, l)
BY DEF Seen, Stands, LastLine

LEMMA ApartStands ==
  ASSUME NEW s, NEW n, NEW R \in SUBSET Runs, Apart(s, n, R), NEW q \in Runs \ R
  PROVE  Stands(s, n, q)
BY DEF Apart, Alike, Stands, Live

LEMMA NobodySeen == \A s : Seen(s, Nobody)
BY RunAssumption DEF Seen, Nobody

LEMMA NobodyLooks == Nobody \in Looks
BY DEF Looks, Nobody

\* Neither a run nor a task changes: the automation's own flags alone.
LEMMA FlagsOnly ==
  ASSUME NEW s \in Stores, NEW n \in Stores, n.run = s.run, n.task = s.task
  PROVE  AllBut(s, {}) => AllBut(n, {}) /\ Apart(s, n, {})
<1>1. Apart(s, n, {})
  BY DEF Apart, Alike, Has
<1>2. NoMore(s, n, {})
  BY DEF NoMore
<1> QED BY <1>1, <1>2, StepKeeps

\* What the watch saw the run come to, it has come to.
LEMMA SeenThere ==
  ASSUME NEW s \in Stores, NEW l, NEW r \in Runs, NEW spot \in Spots,
         AllBut(s, {}), Seen(s, l), l.old \in BOOLEAN, l.run = r, l.next = spot, s.run[r].status = "running"
  PROVE  /\ s.run[r].st # "running"
         /\ l.old => s.run[r].fresh
         /\ ~s.run[r].fresh =>
              /\ s.run[r].st = "done" /\ s.run[r].at \in Spots /\ s.run[r].exit \in Exits
              /\ \/ LastLine(s.run[r]).ends = "go" /\ LastLine(s.run[r]).to = spot
                 \/ LastLine(s.run[r]).ends # "go" /\ spot = Entry
         /\ Kind[spot] = "take" => ~Inside(s, r)
         /\ Inside(s, r) => ActionOf[spot] = ActionOf[s.run[r].at]
         /\ \A t \in Tasks : Has(s, r, t) /\ Kind[spot] # "take" => spot \in Keep \cup LetGo
<1>1. PICK x \in RunRecord : x = s.run[r]
  BY RunKinds
<1>2. Own(s, r)
  BY DEF AllBut
<1>3. Live(s, r)
  BY DEF Live
<1>4. l.run \in Runs /\ Live(s, l.run) /\ s.run[l.run] = x
  BY <1>1, <1>3
<1>5. x.st # "running" /\ (l.old => x.fresh)
  BY <1>4 DEF Seen
<1>6. ASSUME x.fresh, spot # Entry PROVE \A t \in Tasks : ~Has(s, r, t)
  BY <1>4, <1>6 DEF Seen
<1>7. ~x.fresh => \/ LastLine(x).ends = "go" /\ LastLine(x).to = spot
                  \/ LastLine(x).ends # "go" /\ spot = Entry
  BY <1>4 DEF Seen
<1>8. ~x.fresh => x.st = "done" /\ x.at \in Spots /\ x.exit \in Exits
  BY <1>1, <1>2, <1>5 DEF Own, Coherent, RunRecord
<1>9. ASSUME Inside(s, r)
      PROVE  Kind[spot] = "agent" /\ ActionOf[spot] = ActionOf[x.at]
  <2>1. ~x.fresh /\ LastLine(x).ends = "go" /\ LastLine(x).stays
    BY <1>1, <1>5, <1>9 DEF Inside
  <2>2. LastLine(x).to = spot
    BY <1>7, <2>1
  <2> QED BY <1>8, <2>1, <2>2, PictureAssumption DEF LastLine
<1>10. ASSUME NEW t \in Tasks, Has(s, r, t), Kind[spot] # "take"
       PROVE  spot \in Keep \cup LetGo
  <2>1. spot # Entry
    BY <1>10, EntryIs
  <2>2. ~x.fresh /\ LastLine(x).ends = "go" /\ LastLine(x).to = spot
    BY <1>6, <1>7, <1>10, <2>1
  <2>3. OnItsWay(x)
    BY <1>1, <1>2, <1>10, <2>2 DEF Own
  <2> QED BY <1>8, <2>2, <2>3 DEF OnItsWay
<1>11. Kind[spot] = "take" => ~Inside(s, r)
  BY <1>9
<1>12. Inside(s, r) => ActionOf[spot] = ActionOf[x.at]
  BY <1>9
<1>13. ~x.fresh => x.st = "done" /\ x.at \in Spots /\ x.exit \in Exits
                  /\ \/ LastLine(x).ends = "go" /\ LastLine(x).to = spot
                     \/ LastLine(x).ends # "go" /\ spot = Entry
  BY <1>7, <1>8
<1> QED BY <1>1, <1>5, <1>10, <1>11, <1>12, <1>13

LEMMA OpenKeeps ==
  ASSUME store \in Stores, looking.old \in BOOLEAN, AllBut(store, {}), Seen(store, looking),
         NEW r \in Runs, NEW spot \in Spots, Open(r, spot)
  PROVE  /\ store' \in Stores /\ AllBut(store', {}) /\ Apart(store, store', {r})
         /\ (Kind[spot] = "take" /\ ~PausesHere(store, r, spot)) \/ GainsNone(store, store', r)
<1>1. PICK s \in Stores : s = store
  OBVIOUS
<1>2. PICK n : n = store'
  OBVIOUS
<1>3. PICK x \in RunRecord : x = s.run[r]
  BY RunKinds
<1>4. AllBut(s, {}) /\ Seen(s, looking) /\ AllBut(s, {r}) /\ Own(s, r) /\ HeldBy(s, r)
  BY <1>1, SomeOfThem DEF AllBut, Own
<1> DEFINE mayTake == Kind[spot] = "take" /\ ~PausesHere(s, r, spot)
<1> HIDE DEF mayTake
<1>5. SUFFICES n \in Stores /\ AllBut(n, {}) /\ Apart(s, n, {r}) /\ (mayTake \/ GainsNone(s, n, r))
  BY <1>1, <1>2 DEF mayTake
<1>9. Apart(s, s, {r}) /\ GainsNone(s, s, r)
  BY DEF Apart, Alike, GainsNone
<1>6. CASE x.status # "running"
  BY <1>1, <1>2, <1>3, <1>4, <1>6, <1>9 DEF Open
<1>7. ASSUME NEW ending \in {"completed", "failed", "canceled"}, NEW k, k = Ended(s, r, ending)
      PROVE  k \in Stores /\ AllBut(k, {}) /\ Apart(s, k, {r}) /\ GainsNone(s, k, r)
  BY <1>4, <1>7, EndedIs, EndedKeeps
<1>8. CASE x.status = "running"
  <2>1. /\ x.st # "running" /\ (looking.old => x.fresh)
        /\ Kind[spot] = "take" => ~Inside(s, r)
        /\ Inside(s, r) => ActionOf[spot] = ActionOf[x.at]
        /\ \A t \in Tasks : Has(s, r, t) /\ Kind[spot] # "take" => spot \in Keep \cup LetGo
    BY <1>3, <1>4, <1>8, SeenThere DEF Open, Looked
  <2>2. CASE n = Ended(s, r, "failed")
    BY <1>7, <2>2
  <2>3. CASE ~LeftOpen(s, r) /\ PausesHere(s, r, spot) /\ n = Settle(s, r, "before")
    <3>1. \A t \in Tasks : ~Has(s, r, t)
      BY <1>4, <2>3, RunAssumption DEF HeldBy, LeftOpen
    <3>2. MaySettle(s, r, "before")
      BY <1>3, <1>8, <2>1, <2>3, <3>1 DEF MaySettle, PausesHere
    <3> QED BY <1>4, <2>3, <3>2, SettleKeeps DEF Pauses
  <2>4. CASE Waits(s, spot) /\ n = Settle(s, r, "end")
    <3>1. MaySettle(s, r, "end")
      BY <1>3, <1>8, <2>1, <2>4 DEF MaySettle, Waits
    <3> QED BY <1>4, <2>4, <3>1, SettleKeeps DEF Pauses
  <2>5. CASE n = [Ended(s, r, "completed") EXCEPT !.waits = TRUE]
    <3>1. PICK k : k = Ended(s, r, "completed")
      OBVIOUS
    <3>2. k \in Stores /\ AllBut(k, {}) /\ Apart(s, k, {r}) /\ GainsNone(s, k, r)
      BY <1>7, <3>1
    <3>3. n \in Stores /\ n.run = k.run /\ n.task = k.task
      BY <2>5, <3>1, <3>2 DEF Stores
    <3>4. AllBut(n, {}) /\ Apart(s, n, {r}) /\ GainsNone(s, n, r)
      BY <3>2, <3>3, FlagsOnly DEF Apart, GainsNone, Has
    <3> QED BY <3>3, <3>4
  <2>6. CASE Behind(s, r, spot) # {} /\ n = Settle(s, r, "end")
    <3>1. ~Inside(s, r)
      BY <2>6 DEF Behind
    <3>2. MaySettle(s, r, "end")
      BY <1>3, <1>8, <2>1, <3>1 DEF MaySettle
    <3> QED BY <1>4, <2>6, <3>2, SettleKeeps DEF Pauses
  <2>7. CASE n = s
    BY <1>4, <1>9, <2>7
  <2>8. CASE /\ Kind[spot] = "take" => ~LeftOpen(s, r)
             /\ ~PausesHere(s, r, spot) /\ Behind(s, r, spot) = {} /\ GoIn(r, spot)
    <3>1. Opens(s, r, spot, looking.old)
      BY <1>3, <1>8, <2>1, <2>8 DEF Opens
    <3>2. /\ n \in Stores /\ AllBut(n, {}) /\ Apart(s, n, {r})
          /\ Kind[spot] = "take" \/ GainsNone(s, n, r)
      BY <1>1, <1>2, <1>3, <1>4, <2>1, <2>8, <3>1, GoInKeeps
    <3> QED BY <2>8, <3>2 DEF mayTake
  <2> QED
    <3>1. \/ n = Ended(s, r, "failed")
          \/ ~(Kind[spot] = "take" /\ LeftOpen(s, r)) /\ PausesHere(s, r, spot) /\ n = Settle(s, r, "before")
          \/ Waits(s, spot) /\ n = Settle(s, r, "end")
          \/ n = [Ended(s, r, "completed") EXCEPT !.waits = TRUE]
          \/ Behind(s, r, spot) # {} /\ n \in {Settle(s, r, "end"), s}
          \/ /\ ~(Kind[spot] = "take" /\ LeftOpen(s, r)) /\ ~PausesHere(s, r, spot)
             /\ Behind(s, r, spot) = {} /\ GoIn(r, spot)
      BY <1>1, <1>2, <1>3, <1>8 DEF Open
    <3>2. PausesHere(s, r, spot) => Kind[spot] = "take"
      BY DEF PausesHere
    <3> QED BY <2>2, <2>3, <2>4, <2>5, <2>6, <2>7, <2>8, <3>1, <3>2
<1> QED BY <1>6, <1>8

-----------------------------------------------------------------------------
(* A run starts, or is copied afresh.                                      *)

LEMMA LaunchedKeeps ==
  ASSUME NEW s \in Stores, NEW r \in Runs, AllBut(s, {}), s.run[r].status = "none", Room(s),
         NEW l, Seen(s, l), NEW later, NEW n, n = Launched(s, r, later)
  PROVE  n \in Stores /\ AllBut(n, {}) /\ Seen(n, l)
<1>1. PICK y : y = [NoRun EXCEPT !.status = "running"]
  OBVIOUS
<1>2. /\ y \in RunRecord /\ y.status = "running" /\ ~y.asked /\ ~y.before /\ y.kind = "none"
      /\ y.st = "none" /\ y.fresh
  BY <1>1, NoRunIs DEF NoRun, RunRecord
<1>3. PICK k : k = [s EXCEPT !.run[r] = y]
  OBVIOUS
<1>4. k \in Stores /\ k.task = s.task /\ k.run[r] = y /\ \A q \in Runs \ {r} : k.run[q] = s.run[q]
  BY <1>2, <1>3 DEF Stores
<1>5. \A t \in Tasks : ~Has(s, r, t) /\ ~Has(k, r, t)
  BY <1>4 DEF AllBut, Own, Live, Has
<1>6. Apart(s, k, {r})
  BY <1>4 DEF Apart, Alike, Has
<1>7. Own(k, r)
  BY <1>2, <1>4, <1>5 DEF Own, Coherent, HeldBy, Inside
<1>8. \A q \in Runs : Own(k, q)
  BY <1>4, <1>6, <1>7, AlikeOwn DEF AllBut, Apart
<1>9. \A q \in Runs : \A a : HoldsAction(k, q, a) => HoldsAction(s, q, a)
  <2> SUFFICES ASSUME NEW q \in Runs, NEW a, HoldsAction(k, q, a) PROVE HoldsAction(s, q, a)
    OBVIOUS
  <2>1. q # r
    BY <1>2, <1>4 DEF HoldsAction, Inside
  <2> QED BY <1>6, <2>1, AlikeInside DEF Apart
<1>10. Single(k)
  BY <1>9 DEF AllBut, Single
<1>11. Few(k)
  <2>1. UnderWay(k) = UnderWay(s) \cup {r}
    BY <1>2, <1>4 DEF UnderWay, Live
  <2>2. IsFiniteSet(UnderWay(s)) /\ r \notin UnderWay(s)
    BY RunAssumption, FS_Subset DEF UnderWay, Live
  <2>3. Cardinality(UnderWay(k)) = Cardinality(UnderWay(s)) + 1 /\ Cardinality(UnderWay(s)) \in Nat
    BY <2>1, <2>2, FS_AddElement, FS_CardinalityType
  <2> QED BY <2>3, RunAssumption DEF Room, Few
<1>12. AllBut(k, {})
  BY <1>8, <1>10, <1>11 DEF AllBut
<1>13. n = Arrived(k, r, later)
  BY <1>1, <1>3 DEF Launched
<1>14. n \in Stores /\ n.task = k.task /\ Alike(n.run[r], y) /\ Apart(k, n, {}) /\ Apart(k, n, {r})
  BY <1>4, <1>13, ArrivedIs, ArrivedKeeps
<1>15. AllBut(n, {})
  BY <1>4, <1>12, <1>14, StepKeeps DEF NoMore
<1>16. Apart(s, n, {r})
  BY <1>6, <1>14, ApartOn
<1>17. Seen(n, l)
  <2>1. CASE l.run = r
    <3>1. n.run[r].st = "none" /\ n.run[r].fresh
      BY <1>2, <1>14 DEF Alike
    <3>2. \A t \in Tasks : ~Has(n, r, t)
      BY <1>5, <1>14 DEF Has
    <3> QED BY <2>1, <3>1, <3>2 DEF Seen
  <2>2. CASE l.run # r
    BY <1>16, <2>2, ApartStands, SeenStays
  <2> QED BY <2>1, <2>2
<1> QED BY <1>14, <1>15, <1>17

\* The run is at no step, or has reported its last; it starts over.
LEMMA CopiedKeeps ==
  ASSUME NEW s \in Stores, NEW r \in Runs, AllBut(s, {r}), HeldBy(s, r), Coherent(s.run[r]),
         s.run[r].status = "running", s.run[r].st # "running",
         NEW later, NEW n, n = CopiedAgain(s, r, later)
  PROVE  /\ n \in Stores /\ AllBut(n, {}) /\ Apart(s, n, {r})
         /\ n.run[r].fresh /\ n.run[r].st # "running" /\ n.task = s.task
<1>1. PICK x \in RunRecord : x = s.run[r]
  BY RunKinds
<1>2. PICK y : y = [x EXCEPT !.fresh = TRUE, !.newer = FALSE]
  OBVIOUS
<1>3. /\ y \in RunRecord /\ y.status = x.status /\ y.asked = x.asked /\ y.before = x.before
      /\ y.kind = x.kind /\ y.at = x.at /\ y.st = x.st /\ y.exit = x.exit /\ y.fresh
      /\ y.task = x.task /\ y.open = x.open
  BY <1>2 DEF RunRecord
<1>4. PICK k : k = [s EXCEPT !.run[r] = y]
  OBVIOUS
<1>5. k \in Stores /\ k.task = s.task /\ k.run[r] = y /\ \A q \in Runs \ {r} : k.run[q] = s.run[q]
  BY <1>3, <1>4 DEF Stores
<1>6. Apart(s, k, {r})
  BY <1>5 DEF Apart, Alike, Has
<1>7. ~Inside(k, r)
  BY <1>3, <1>5 DEF Inside
<1>8. NoMore(s, k, {r})
  BY <1>7 DEF NoMore, HoldsAction, Live
<1>9. Own(k, r)
  <2>1. Coherent(y)
    BY <1>1, <1>3 DEF Coherent
  <2>2. HeldBy(k, r)
    BY <1>1, <1>3, <1>5 DEF HeldBy, Has
  <2>3. y.status = "running"
    BY <1>1, <1>3
  <2> QED BY <1>3, <1>5, <1>7, <2>1, <2>2, <2>3 DEF Own, Live
<1>10. AllBut(k, {})
  BY <1>5, <1>6, <1>8, <1>9, StepKeeps, AllOfThem
<1>11. n = Arrived(k, r, later)
  BY <1>1, <1>2, <1>4 DEF CopiedAgain
<1>12. n \in Stores /\ n.task = k.task /\ Alike(n.run[r], y) /\ Apart(k, n, {}) /\ Apart(k, n, {r})
  BY <1>5, <1>11, ArrivedIs, ArrivedKeeps
<1>13. AllBut(n, {})
  BY <1>5, <1>10, <1>12, StepKeeps DEF NoMore
<1>14. Apart(s, n, {r})
  BY <1>6, <1>12, ApartOn
<1> QED BY <1>1, <1>3, <1>5, <1>12, <1>13, <1>14 DEF Alike

\* A run before a take holds no task, and is inside no action.
LEMMA BeforeATake ==
  ASSUME NEW s \in Stores, NEW r \in Runs, Own(s, r),
         NextSpot(s, r) \in Spots, Kind[NextSpot(s, r)] = "take"
  PROVE  MaySettle(s, r, "before")
<1>1. PICK x \in RunRecord : x = s.run[r]
  BY RunKinds
<1>2. PICK next \in Spots : next = NextSpot(s, r)
  OBVIOUS
<1>3. /\ x.status = "running" /\ x.st # "running"
      /\ ~x.fresh => \/ LastLine(x).ends = "go" /\ next = LastLine(x).to
                     \/ LastLine(x).ends = "done" /\ GoesRound(s, r)
  BY <1>1, <1>2, NextIs
<1>4. ~x.fresh => x.st = "done" /\ x.at \in Spots /\ x.exit \in Exits
  BY <1>1, <1>3 DEF Own, Coherent, RunRecord
<1>5. ~Inside(s, r)
  <2> SUFFICES ASSUME Inside(s, r) PROVE FALSE
    OBVIOUS
  <2>1. ~x.fresh /\ LastLine(x).ends = "go" /\ LastLine(x).stays
    BY <1>1, <1>3 DEF Inside
  <2>2. Kind[LastLine(x).to] = "agent"
    BY <1>4, <2>1, PictureAssumption DEF LastLine
  <2> QED BY <1>2, <1>3, <2>1, <2>2
<1>6. ASSUME NEW t \in Tasks, Has(s, r, t), ~x.fresh PROVE FALSE
  <2>1. OnItsWay(x)
    BY <1>1, <1>6 DEF Own
  <2>2. CASE LastLine(x).ends = "go" /\ next = LastLine(x).to
    <3>1. next \in Keep \cup LetGo
      BY <1>4, <1>6, <2>1, <2>2 DEF OnItsWay
    <3> QED BY <1>2, <3>1, KeepHoldsOn DEF HoldsOn, LetGo
  <2>3. CASE GoesRound(s, r)
    BY <1>6, <2>3 DEF GoesRound, Own, HeldBy
  <2> QED BY <1>3, <1>6, <2>2, <2>3
<1> QED BY <1>1, <1>3, <1>5, <1>6 DEF MaySettle

LEMMA LeftAlone ==
  ASSUME NEW s, NEW n, NEW l, Seen(s, l), NEW r \in Runs, Apart(s, n, {r}), Stands(s, n, r)
  PROVE  Seen(n, l)
<1>1. l.run \in Runs => Stands(s, n, l.run)
  BY ApartStands
<1> QED BY <1>1, SeenStays

\* A run that is over stands nowhere.
LEMMA OverAndSeen ==
  ASSUME NEW s \in Stores, NEW l, NEW r \in Runs, AllBut(s, {}), Seen(s, l),
         NEW ending \in {"completed", "failed", "canceled"}, NEW n, n = Ended(s, r, ending)
  PROVE  n \in Stores /\ AllBut(n, {}) /\ Seen(n, l)
<1>1. HeldBy(s, r) /\ AllBut(s, {r})
  BY SomeOfThem DEF AllBut, Own
<1>2. n \in Stores /\ ~Live(n, r) /\ Apart(s, n, {r})
  BY <1>1, EndedIs
<1>3. AllBut(n, {})
  BY <1>1, EndedKeeps
<1>4. Stands(s, n, r)
  BY <1>2 DEF Stands
<1> QED BY <1>2, <1>3, <1>4, LeftAlone

\* One run is replaced, and nothing beside it.
OneRun(s, n, r, y) ==
  n.task = s.task /\ n.run[r] = y /\ \A q \in Runs \ {r} : n.run[q] = s.run[q]

LEMMA OneRunIs ==
  ASSUME NEW s \in Stores, NEW r \in Runs, NEW y \in RunRecord, NEW n, n = [s EXCEPT !.run[r] = y]
  PROVE  n \in Stores /\ OneRun(s, n, r, y)
BY DEF Stores, OneRun

LEMMA SettledAndSeen ==
  ASSUME NEW s \in Stores, NEW l, NEW r \in Runs, NEW kind \in Pauses,
         AllBut(s, {}), Seen(s, l), MaySettle(s, r, kind), NEW n, n = Settle(s, r, kind)
  PROVE  n \in Stores /\ AllBut(n, {}) /\ Seen(n, l)
BY SettleKeeps, LeftAlone

\* A running run is asked something of.
LEMMA AskedAndSeen ==
  ASSUME NEW s \in Stores, NEW l, NEW r \in Runs, NEW a \in BOOLEAN, NEW b \in BOOLEAN,
         AllBut(s, {}), Seen(s, l), s.run[r].status = "running",
         NEW n, n = [s EXCEPT !.run[r] = [s.run[r] EXCEPT !.asked = a, !.before = b]]
  PROVE  n \in Stores /\ AllBut(n, {}) /\ Seen(n, l)
<1>1. PICK x \in RunRecord : x = s.run[r]
  BY RunKinds
<1>2. PICK y : y = [x EXCEPT !.asked = a, !.before = b]
  OBVIOUS
<1>3. /\ y \in RunRecord /\ y.status = x.status
      /\ y.kind = x.kind /\ y.at = x.at /\ y.st = x.st /\ y.exit = x.exit /\ y.fresh = x.fresh
      /\ y.task = x.task /\ y.open = x.open
  BY <1>2 DEF RunRecord
<1>4. n = [s EXCEPT !.run[r] = y]
  BY <1>1, <1>2
<1>5. n \in Stores /\ n.task = s.task /\ n.run[r] = y /\ \A q \in Runs \ {r} : n.run[q] = s.run[q]
  <2>1. y \in RunRecord
    BY <1>3
  <2>2. n \in Stores /\ OneRun(s, n, r, y)
    BY <1>4, <2>1, OneRunIs
  <2> QED BY <2>2 DEF OneRun
<1>6. Apart(s, n, {r})
  BY <1>5 DEF Apart, Alike, Has
<1>7. Inside(n, r) <=> Inside(s, r)
  BY <1>1, <1>3, <1>5 DEF Inside, LastLine
<1>8. NoMore(s, n, {r})
  BY <1>1, <1>3, <1>5, <1>7 DEF NoMore, Live, HoldsAction
<1>9. \A t \in Tasks : Has(n, r, t) <=> Has(s, r, t)
  BY <1>5 DEF Has
<1>10. Own(s, r)
  BY DEF AllBut
<1>11. Own(n, r)
  <2>1. Coherent(y)
    BY <1>1, <1>3, <1>10 DEF Own, Coherent
  <2>2. HeldBy(n, r)
    BY <1>1, <1>3, <1>5, <1>9, <1>10 DEF Own, HeldBy
  <2>3. OnItsWay(x) => OnItsWay(y)
    BY <1>3 DEF OnItsWay, LastLine
  <2>4. y.status = "running" /\ y.kind # "before"
    BY <1>1, <1>3, <1>10 DEF Own, Coherent
  <2> QED BY <1>1, <1>3, <1>5, <1>9, <1>10, <2>1, <2>2, <2>3, <2>4 DEF Own, Live
<1>12. AllBut(n, {})
  BY <1>5, <1>6, <1>8, <1>11, SomeOfThem, StepKeeps, AllOfThem
<1>13. Stands(s, n, r)
  BY <1>1, <1>3, <1>5, <1>9 DEF Stands, Live
<1> QED BY <1>5, <1>6, <1>12, <1>13, LeftAlone

-----------------------------------------------------------------------------
(* The runs carrying themselves.                                           *)

LEMMA LaunchKeeps ==
  ASSUME Fine(store, looking), NEW r \in Runs, Launch(r)
  PROVE  Fine(store, looking)'
<1>1. PICK s \in Stores : s = store
  BY DEF Fine
<1>2. PICK n : n = store'
  OBVIOUS
<1>3. PICK l \in Looks : l = looking /\ l = looking'
  BY DEF Fine, Launch
<1>4. AllBut(s, {}) /\ Seen(s, l)
  BY <1>1, <1>3 DEF Fine
<1>5. CASE n = [s EXCEPT !.waits = TRUE]
  <2>1. n \in Stores /\ n.run = s.run /\ n.task = s.task
    BY <1>5 DEF Stores
  <2>2. AllBut(n, {}) /\ Apart(s, n, {})
    BY <1>4, <2>1, FlagsOnly
  <2>3. Seen(n, l)
    BY <1>4, <2>2, ApartStands, SeenStays
  <2> QED BY <1>2, <1>3, <2>1, <2>2, <2>3 DEF Fine
<1>6. ASSUME NEW later, Room(s), s.run[r].status = "none", n = Launched(s, r, later)
      PROVE  Fine(n, l)
  BY <1>4, <1>6, LaunchedKeeps DEF Fine
<1> QED BY <1>1, <1>2, <1>3, <1>5, <1>6 DEF Launch, NextId, Fine

LEMMA StartWaitingKeeps ==
  ASSUME Fine(store, looking), NEW r \in Runs, StartWaiting(r)
  PROVE  Fine(store, looking)'
<1>1. PICK s \in Stores : s = store
  BY DEF Fine
<1>2. PICK n : n = store'
  OBVIOUS
<1>3. PICK l \in Looks : l = looking /\ l = looking'
  BY DEF Fine, StartWaiting
<1>4. AllBut(s, {}) /\ Seen(s, l)
  BY <1>1, <1>3 DEF Fine
<1>5. PICK later \in {0, 1} : n = [Launched(s, r, later) EXCEPT !.waits = FALSE]
  BY <1>1, <1>2 DEF StartWaiting
<1>6. PICK k : k = Launched(s, r, later)
  OBVIOUS
<1>7. k \in Stores /\ AllBut(k, {}) /\ Seen(k, l)
  BY <1>1, <1>4, <1>6, LaunchedKeeps DEF StartWaiting, NextId
<1>8. n \in Stores /\ n.run = k.run /\ n.task = k.task
  BY <1>5, <1>6, <1>7 DEF Stores
<1>9. AllBut(n, {}) /\ Apart(k, n, {})
  BY <1>7, <1>8, FlagsOnly
<1>10. Seen(n, l)
  BY <1>7, <1>9, ApartStands, SeenStays
<1> QED BY <1>2, <1>3, <1>8, <1>9, <1>10 DEF Fine

LEMMA LookKeeps ==
  ASSUME Fine(store, looking), NEW r \in Runs, Look(r)
  PROVE  Fine(store, looking)'
<1>1. PICK s \in Stores : s = store /\ s = store'
  BY DEF Fine, Look
<1>2. PICK next : next = NextSpot(s, r)
  OBVIOUS
<1>3. PICK l : l = [run |-> r, next |-> next, asked |-> FALSE, old |-> FALSE]
  OBVIOUS
<1>4. l = looking' /\ next # Nothing
  BY <1>1, <1>2, <1>3 DEF Look
<1>5. AllBut(s, {}) /\ Own(s, r)
  BY <1>1 DEF Fine, AllBut
<1>6. next \in Spots \cup {Nowhere, Nothing}
  BY <1>2, <1>5, NextKinds DEF Own
<1>7. l \in Looks
  BY <1>3, <1>6 DEF Looks
<1>8. Seen(s, l)
  <2>1. s.run[r].status = "running" /\ s.run[r].st # "running"
    BY <1>2, <1>4 DEF NextSpot
  <2>2. s.run[r].fresh => next = Entry
    BY <1>2, <2>1 DEF NextSpot
  <2>3. ~s.run[r].fresh /\ next \in Spots =>
          \/ LastLine(s.run[r]).ends = "go" /\ LastLine(s.run[r]).to = next
          \/ LastLine(s.run[r]).ends # "go" /\ next = Entry
    BY <1>2, NextIs
  <2> QED BY <1>3, <2>1, <2>2, <2>3 DEF Seen
<1> QED BY <1>1, <1>4, <1>5, <1>7, <1>8 DEF Fine

LEMMA TakeUpKeeps ==
  ASSUME Fine(store, looking), NEW r \in Runs, TakeUp(r)
  PROVE  Fine(store, looking)'
<1>1. PICK s \in Stores : s = store
  BY DEF Fine
<1>2. PICK n : n = store'
  OBVIOUS
<1>3. PICK l \in Looks : l = looking
  BY DEF Fine
<1>4. AllBut(s, {}) /\ Seen(s, l) /\ Own(s, r)
  BY <1>1, <1>3 DEF Fine, AllBut
<1>5. l.run = r /\ l.next = Entry
  BY <1>3 DEF TakeUp, Looked
<1>6. PICK k : k = looking'
  OBVIOUS
<1>7. CASE n = s /\ k = [l EXCEPT !.asked = TRUE]
  <2>1. k \in Looks /\ k.run = l.run /\ k.next = l.next /\ k.old = l.old
    BY <1>7 DEF Looks
  <2>2. Seen(s, k)
    BY <1>4, <2>1 DEF Seen
  <2> QED BY <1>1, <1>2, <1>4, <1>6, <1>7, <2>1, <2>2 DEF Fine
<1>8. ASSUME NextSpot(s, r) = Entry, NEW later, n = CopiedAgain(s, r, later),
             k = [l EXCEPT !.asked = TRUE, !.old = FALSE]
      PROVE  Fine(n, k)
  <2>1. k \in Looks /\ k.run = r /\ k.next = Entry /\ ~k.old
    BY <1>5, <1>8 DEF Looks
  <2>2. s.run[r].status = "running" /\ s.run[r].st # "running"
    BY <1>8, EntryIs, NextIs
  <2>3. AllBut(s, {r}) /\ HeldBy(s, r) /\ Coherent(s.run[r])
    BY <1>4, SomeOfThem DEF Own
  <2>4. n \in Stores /\ AllBut(n, {}) /\ n.run[r].fresh /\ n.run[r].st # "running"
    BY <1>8, <2>2, <2>3, CopiedKeeps
  <2>5. Seen(n, k)
    BY <2>1, <2>4 DEF Seen
  <2> QED BY <2>1, <2>4, <2>5 DEF Fine
<1>9. CASE n = Ended(s, r, "failed") /\ k = Nobody
  <2>1. n \in Stores /\ AllBut(n, {})
    BY <1>4, <1>9, OverAndSeen
  <2> QED BY <1>2, <1>6, <1>9, <2>1, NobodySeen, NobodyLooks DEF Fine
<1> QED BY <1>1, <1>2, <1>3, <1>6, <1>7, <1>8, <1>9 DEF TakeUp, LookedAway

LEMMA OpenStepKeeps ==
  ASSUME Fine(store, looking), NEW r \in Runs, NEW spot \in Spots, Open(r, spot)
  PROVE  Fine(store, looking)'
<1>1. store \in Stores /\ looking.old \in BOOLEAN /\ AllBut(store, {}) /\ Seen(store, looking)
  BY DEF Fine, Looks
<1>2. store' \in Stores /\ AllBut(store', {})
  BY <1>1, OpenKeeps
<1>3. looking' = Nobody
  BY DEF Open, LookedAway
<1>4. Seen(store', looking')
  BY <1>3, NobodySeen
<1>5. looking' \in Looks
  BY <1>3, NobodyLooks
<1> QED BY <1>2, <1>4, <1>5 DEF Fine

LEMMA GiveUpKeeps ==
  ASSUME Fine(store, looking), NEW r \in Runs, GiveUp(r)
  PROVE  Fine(store, looking)'
<1>1. PICK s \in Stores : s = store
  BY DEF Fine
<1>2. PICK n : n = store'
  OBVIOUS
<1>3. AllBut(s, {}) /\ Seen(s, looking)
  BY <1>1 DEF Fine
<1>4. n = s \/ n = Ended(s, r, "failed")
  BY <1>1, <1>2 DEF GiveUp
<1>5. n \in Stores /\ AllBut(n, {})
  BY <1>3, <1>4, OverAndSeen
<1>6. looking' = Nobody
  BY DEF GiveUp, LookedAway
<1> QED BY <1>2, <1>5, <1>6, NobodySeen, NobodyLooks DEF Fine

LEMMA StepDoneKeeps ==
  ASSUME Fine(store, looking), NEW r \in Runs, NEW exit \in Exits, StepDone(r, exit)
  PROVE  Fine(store, looking)' /\ Gainless(store, store')
<1>1. PICK s \in Stores : s = store
  BY DEF Fine
<1>2. PICK n : n = store'
  OBVIOUS
<1>3. PICK l \in Looks : l = looking /\ l = looking'
  BY DEF Fine, StepDone
<1>4. AllBut(s, {}) /\ AllBut(s, {r}) /\ Seen(s, l) /\ Own(s, r)
  BY <1>1, <1>3, SomeOfThem DEF Fine, AllBut
<1>5. PICK x \in RunRecord : x = s.run[r]
  BY RunKinds
<1>6. Live(s, r) /\ x.st = "running"
  BY <1>1, <1>5 DEF StepDone
<1>7. x.status = "running" /\ x.at \in Spots /\ x.kind = "none"
  BY <1>4, <1>5, <1>6 DEF Own, Coherent, RunRecord
<1>8. ASSUME NEW t \in Tasks, Has(s, r, t), ~x.fresh, Line[x.at][exit].ends = "go"
      PROVE  Line[x.at][exit].to \in Keep \cup LetGo
  <2>1. x.at \in Keep
    BY <1>4, <1>5, <1>6, <1>8 DEF Own, OnItsWay
  <2> QED BY <1>7, <1>8, <2>1, KeepHoldsOn DEF HoldsOn
<1>9. Reports(s, r, exit)
  BY <1>4, <1>5, <1>6, <1>7, <1>8 DEF Reports, Own
<1>10. PICK later : n = Done(s, r, exit, later)
  BY <1>1, <1>2 DEF StepDone
<1>11. n \in Stores /\ AllBut(n, {}) /\ Apart(s, n, {r}) /\ GainsNone(s, n, r)
  BY <1>4, <1>9, <1>10, DoneKeeps
<1>12. l.run # r
  BY <1>4, <1>5, <1>6 DEF Seen
<1>13. Seen(n, l)
  BY <1>4, <1>11, <1>12, ApartStands, SeenStays
<1>14. Gainless(s, n)
  BY <1>11, GainlessIs
<1> QED BY <1>1, <1>2, <1>3, <1>11, <1>13, <1>14 DEF Fine

LEMMA StepEndedKeeps ==
  ASSUME Fine(store, looking), NEW r \in Runs, StepEnded(r) \/ Cancel(r)
  PROVE  Fine(store, looking)'
<1>1. PICK s \in Stores : s = store
  BY DEF Fine
<1>2. PICK n : n = store'
  OBVIOUS
<1>3. PICK l \in Looks : l = looking /\ l = looking'
  BY DEF Fine, StepEnded, Cancel
<1>4. AllBut(s, {}) /\ Seen(s, l)
  BY <1>1, <1>3 DEF Fine
<1>5. n = Ended(s, r, "failed") \/ n = Ended(s, r, "canceled")
  BY <1>1, <1>2 DEF StepEnded, Cancel
<1>6. n \in Stores /\ AllBut(n, {}) /\ Seen(n, l)
  BY <1>4, <1>5, OverAndSeen
<1> QED BY <1>2, <1>3, <1>6 DEF Fine

-----------------------------------------------------------------------------
(* Everybody else.                                                         *)

LEMMA RestartKeeps ==
  ASSUME Fine(store, looking), Restart
  PROVE  Fine(store, looking)'
<1>1. PICK s \in Stores : s = store
  BY DEF Fine
<1>2. PICK n : n = store'
  OBVIOUS
<1>3. PICK caught \in SUBSET Runs : caught = {r \in Runs : s.run[r].status = "running"}
  OBVIOUS
<1>4. PICK y : y = [NoRun EXCEPT !.status = "failed"]
  OBVIOUS
<1>5. /\ y \in RunRecord /\ y.status = "failed" /\ y.kind = "none" /\ ~y.asked /\ ~y.before
      /\ y.st = "none" /\ y.fresh
  BY <1>4, NoRunIs DEF NoRun, RunRecord
<1> DEFINE left(t) == \E r \in caught : s.run[r].open /\ s.run[r].task = t
           run == [r \in Runs |-> IF r \in caught THEN y ELSE s.run[r]]
           task == [t \in Tasks |-> IF left(t) THEN HandedBack(s.task[t], "failed") ELSE s.task[t]]
<1>6. n = [s EXCEPT !.run = run, !.task = task]
  BY <1>1, <1>2, <1>3, <1>4 DEF Restart
<1>7. run \in [Runs -> RunRecord]
  BY <1>5, RunKinds
<1>8. task \in [Tasks -> TaskRecord]
  <2> HIDE DEF left
  <2> QED BY HandedBackIs, TaskKinds
<1>9. n \in Stores /\ n.run = run /\ n.task = task
  <2> HIDE DEF run, task
  <2> QED BY <1>6, <1>7, <1>8 DEF Stores
<1>10. \A t \in Tasks, q \in Runs : Has(n, q, t) =>
         Has(s, q, t) /\ n.task[t] = s.task[t] /\ (left(t) => s.task[t].status = "done")
  <2> SUFFICES ASSUME NEW t \in Tasks, NEW q \in Runs, Has(n, q, t)
               PROVE  Has(s, q, t) /\ n.task[t] = s.task[t] /\ (left(t) => s.task[t].status = "done")
    OBVIOUS
  <2> HIDE DEF left
  <2>1. n.task[t] = IF left(t) THEN HandedBack(s.task[t], "failed") ELSE s.task[t]
    BY <1>9
  <2>2. HandedBack(s.task[t], "failed").holder \in Runs =>
          HandedBack(s.task[t], "failed") = s.task[t] /\ s.task[t].status = "done"
    BY HandedBackIs, TaskKinds
  <2> QED BY <2>1, <2>2 DEF Has
<1>11. \A q \in Runs \ caught : n.run[q] = s.run[q]
  BY <1>9
<1>12. Apart(s, n, caught)
  <2> HIDE DEF left, run, task
  <2> QED BY <1>10, <1>11 DEF Apart, Alike
<1>13. AllBut(s, {})
  BY <1>1 DEF Fine
<1>14. ASSUME NEW r \in caught PROVE n.run[r] = y /\ ~Live(n, r) /\ Own(n, r)
  <2>1. n.run[r] = y
    BY <1>9
  <2>2. ASSUME NEW t \in Tasks, Has(n, r, t) PROVE FALSE
    <3>1. Has(s, r, t) /\ (left(t) => s.task[t].status = "done")
      BY <1>10, <2>2
    <3>2. s.run[r].open /\ s.run[r].task = t /\ s.task[t].status = "in_progress"
      BY <1>13, <3>1 DEF AllBut, Own, HeldBy
    <3> QED BY <3>1, <3>2
  <2>3. Coherent(y)
    BY <1>5 DEF Coherent
  <2>4. Own(n, r)
    BY <1>5, <2>1, <2>2, <2>3 DEF Own, HeldBy
  <2> QED BY <1>5, <2>1, <2>4 DEF Live
<1>15. NoMore(s, n, caught)
  BY <1>14 DEF NoMore, HoldsAction
<1>16. AllBut(n, {})
  BY <1>9, <1>12, <1>13, <1>14, <1>15, SomeOfThem, StepKeeps, AllOfThem
<1>17. looking' = Nobody
  BY DEF Restart, LookedAway
<1> QED BY <1>2, <1>9, <1>16, <1>17, NobodySeen, NobodyLooks DEF Fine

LEMMA PauseKeeps ==
  ASSUME Fine(store, looking), NEW r \in Runs, Pause(r)
  PROVE  Fine(store, looking)'
<1>1. PICK s \in Stores : s = store
  BY DEF Fine
<1>2. PICK n : n = store'
  OBVIOUS
<1>3. PICK l \in Looks : l = looking /\ l = looking'
  BY DEF Fine, Pause
<1>4. AllBut(s, {}) /\ Seen(s, l)
  BY <1>1, <1>3 DEF Fine
<1>5. CASE WaitsForRoom(s, r) /\ n = Settle(s, r, "end")
  <2>1. s.run[r].status = "running" /\ s.run[r].st # "running"
    BY <1>5, NextIs DEF WaitsForRoom
  <2>2. ~Inside(s, r)
    BY <1>5 DEF WaitsForRoom, Behind
  <2>3. MaySettle(s, r, "end")
    BY <2>1, <2>2 DEF MaySettle
  <2>4. n \in Stores /\ AllBut(n, {}) /\ Seen(n, l)
    BY <1>4, <1>5, <2>3, SettledAndSeen DEF Pauses
  <2> QED BY <1>2, <1>3, <2>4 DEF Fine
<1>6. CASE s.run[r].status = "running" /\ n = [s EXCEPT !.run[r].asked = TRUE]
  <2>1. PICK b \in BOOLEAN : b = s.run[r].before
    BY RunKinds DEF RunRecord
  <2>2. PICK x \in RunRecord : x = s.run[r]
    BY RunKinds
  <2>3. [x EXCEPT !.asked = TRUE] = [x EXCEPT !.asked = TRUE, !.before = b]
    BY <2>1, <2>2 DEF RunRecord
  <2>4. n = [s EXCEPT !.run[r] = [s.run[r] EXCEPT !.asked = TRUE, !.before = b]]
    BY <1>6, <2>2, <2>3
  <2>5. n \in Stores /\ AllBut(n, {}) /\ Seen(n, l)
    BY <1>4, <1>6, <2>4, AskedAndSeen
  <2> QED BY <1>2, <1>3, <2>5 DEF Fine
<1> QED BY <1>1, <1>2, <1>5, <1>6 DEF Pause

LEMMA PauseBeforeNextTaskKeeps ==
  ASSUME Fine(store, looking), NEW r \in Runs, PauseBeforeNextTask(r)
  PROVE  Fine(store, looking)'
<1>1. PICK s \in Stores : s = store
  BY DEF Fine
<1>2. PICK n : n = store'
  OBVIOUS
<1>3. PICK l \in Looks : l = looking /\ l = looking'
  BY DEF Fine, PauseBeforeNextTask
<1>4. AllBut(s, {}) /\ Seen(s, l) /\ Own(s, r)
  BY <1>1, <1>3 DEF Fine, AllBut
<1>5. CASE WaitsToTake(s, r) /\ n = Settle(s, r, "before")
  <2>1. MaySettle(s, r, "before")
    BY <1>4, <1>5, BeforeATake DEF WaitsToTake
  <2>2. n \in Stores /\ AllBut(n, {}) /\ Seen(n, l)
    BY <1>4, <1>5, <2>1, SettledAndSeen DEF Pauses
  <2> QED BY <1>2, <1>3, <2>2 DEF Fine
<1>6. CASE s.run[r].status = "running" /\ n = [s EXCEPT !.run[r].before = TRUE]
  <2>1. PICK b \in BOOLEAN : b = s.run[r].asked
    BY RunKinds DEF RunRecord
  <2>2. PICK x \in RunRecord : x = s.run[r]
    BY RunKinds
  <2>3. [x EXCEPT !.before = TRUE] = [x EXCEPT !.asked = b, !.before = TRUE]
    BY <2>1, <2>2 DEF RunRecord
  <2>4. n = [s EXCEPT !.run[r] = [s.run[r] EXCEPT !.asked = b, !.before = TRUE]]
    BY <1>6, <2>2, <2>3
  <2>5. n \in Stores /\ AllBut(n, {}) /\ Seen(n, l)
    BY <1>4, <1>6, <2>4, AskedAndSeen
  <2> QED BY <1>2, <1>3, <2>5 DEF Fine
<1> QED BY <1>1, <1>2, <1>5, <1>6 DEF PauseBeforeNextTask

LEMMA FlagsKeep ==
  ASSUME Fine(store, looking), StartAutomation \/ StopWaiting
  PROVE  Fine(store, looking)'
<1>1. PICK s \in Stores : s = store
  BY DEF Fine
<1>2. PICK n : n = store'
  OBVIOUS
<1>3. PICK l \in Looks : l = looking /\ l = looking'
  BY DEF Fine, StartAutomation, StopWaiting
<1>4. AllBut(s, {}) /\ Seen(s, l)
  BY <1>1, <1>3 DEF Fine
<1>5. n = [s EXCEPT !.stopped = FALSE] \/ n = [s EXCEPT !.waits = FALSE]
  BY <1>1, <1>2 DEF StartAutomation, StopWaiting
<1>6. n \in Stores /\ n.run = s.run /\ n.task = s.task
  BY <1>5 DEF Stores
<1>7. AllBut(n, {}) /\ Apart(s, n, {})
  BY <1>4, <1>6, FlagsOnly
<1>8. Seen(n, l)
  BY <1>4, <1>7, ApartStands, SeenStays
<1> QED BY <1>2, <1>3, <1>6, <1>7, <1>8 DEF Fine

LEMMA AllSettledIs ==
  ASSUME NEW s \in Stores, NEW P \in SUBSET Runs, NEW n, n = AllSettled(s, P)
  PROVE  /\ n \in Stores
         /\ n.task = s.task
         /\ \A r \in P : IsSettled(s.run[r], n.run[r], "before")
         /\ \A q \in Runs \ P : n.run[q] = s.run[q]
<1>1. \A r \in Runs : /\ Settled(s.run[r], "before") \in RunRecord
                      /\ IsSettled(s.run[r], Settled(s.run[r], "before"), "before")
  BY RunKinds, SettledIs DEF Pauses
<1>2. PICK run : run = [r \in Runs |-> IF r \in P THEN Settled(s.run[r], "before") ELSE s.run[r]]
  OBVIOUS
<1>3. run \in [Runs -> RunRecord]
  BY <1>1, <1>2, RunKinds
<1>4. n = [s EXCEPT !.run = run]
  BY <1>2 DEF AllSettled
<1>5. n \in Stores /\ n.task = s.task /\ n.run = run
  BY <1>3, <1>4 DEF Stores
<1>6. \A r \in P : IsSettled(s.run[r], n.run[r], "before")
  BY <1>1, <1>2, <1>5
<1>7. \A q \in Runs \ P : n.run[q] = s.run[q]
  BY <1>2, <1>5
<1> QED BY <1>5, <1>6, <1>7

LEMMA StopAutomationKeeps ==
  ASSUME Fine(store, looking), StopAutomation
  PROVE  Fine(store, looking)'
<1>1. PICK s \in Stores : s = store
  BY DEF Fine
<1>2. PICK n : n = store'
  OBVIOUS
<1>3. PICK l \in Looks : l = looking /\ l = looking'
  BY DEF Fine, StopAutomation
<1>4. AllBut(s, {}) /\ Seen(s, l)
  BY <1>1, <1>3 DEF Fine
<1>5. PICK m : m = [s EXCEPT !.stopped = TRUE, !.waits = FALSE]
  OBVIOUS
<1>6. PICK P \in SUBSET Runs :
        /\ \A r \in P : WaitsToTake(AllSettled(m, {q \in P : q < r}), r)
        /\ n = AllSettled(m, P)
  BY <1>1, <1>2, <1>5 DEF StopAutomation
<1>7. m \in Stores /\ m.run = s.run /\ m.task = s.task
  BY <1>5 DEF Stores
<1>8. AllBut(m, {}) /\ Apart(s, m, {})
  BY <1>4, <1>7, FlagsOnly
<1>9. Seen(m, l)
  BY <1>4, <1>8, ApartStands, SeenStays
<1>10. /\ n \in Stores /\ n.task = m.task
       /\ \A r \in P : IsSettled(m.run[r], n.run[r], "before")
       /\ \A q \in Runs \ P : n.run[q] = m.run[q]
  BY <1>6, <1>7, AllSettledIs
<1>11. ASSUME NEW r \in P
       PROVE  Own(n, r) /\ NoMore(m, n, {r}) /\ Stands(m, n, r)
  <2>1. PICK a : a = AllSettled(m, {q \in P : q < r})
    OBVIOUS
  <2>2. r \in Runs /\ r \notin {q \in P : q < r}
    BY RunAssumption
  <2>3. a \in Stores /\ a.task = m.task /\ a.run[r] = m.run[r]
    BY <1>7, <2>1, <2>2, AllSettledIs
  <2>4. Own(m, r)
    BY <1>8 DEF AllBut
  <2>5. Own(a, r)
    BY <1>7, <2>2, <2>3, <2>4, AlikeOwn DEF Alike, Has
  <2>6. MaySettle(a, r, "before")
    BY <1>6, <2>1, <2>2, <2>3, <2>5, BeforeATake DEF WaitsToTake
  <2>7. MaySettle(m, r, "before")
    BY <2>3, <2>6 DEF MaySettle, Inside, Has
  <2> QED BY <1>7, <1>10, <2>2, <2>4, <2>7, SettledOwn DEF Pauses
<1>12. Apart(m, n, P)
  BY <1>10 DEF Apart, Alike, Has
<1>13. NoMore(m, n, P)
  BY <1>11 DEF NoMore
<1>14. AllBut(n, {})
  BY <1>7, <1>8, <1>10, <1>11, <1>12, <1>13, SomeOfThem, StepKeeps, AllOfThem
<1>15. l.run \in Runs => Stands(m, n, l.run)
  BY <1>11, <1>12, ApartStands
<1>16. Seen(n, l)
  BY <1>9, <1>15, SeenStays
<1> QED BY <1>2, <1>3, <1>10, <1>14, <1>16 DEF Fine

\* A paused run goes on: running, and nothing else of it is changed.
LEMMA GoingOn ==
  ASSUME NEW s \in Stores, NEW r \in Runs, AllBut(s, {}), s.run[r].status = "paused",
         NEW m, m = [s EXCEPT !.run[r].status = "running", !.run[r].kind = "none"]
  PROVE  /\ m \in Stores /\ m.task = s.task /\ AllBut(m, {r}) /\ Apart(s, m, {r}) /\ HeldBy(m, r)
         /\ Coherent(m.run[r]) /\ m.run[r].status = "running" /\ m.run[r].st # "running"
         /\ s.run[r].kind = "end" => Own(m, r)
         /\ Stands(s, m, r)
<1>1. PICK x \in RunRecord : x = s.run[r]
  BY RunKinds
<1>2. PICK y : y = [x EXCEPT !.status = "running", !.kind = "none"]
  OBVIOUS
<1>3. /\ y \in RunRecord /\ y.status = "running" /\ y.kind = "none"
      /\ y.asked = x.asked /\ y.before = x.before
      /\ y.at = x.at /\ y.st = x.st /\ y.exit = x.exit /\ y.fresh = x.fresh
      /\ y.task = x.task /\ y.open = x.open
  BY <1>2 DEF RunRecord
<1>4. m \in Stores /\ OneRun(s, m, r, y)
  <2>1. m = [s EXCEPT !.run[r] = y]
    BY <1>1, <1>2 DEF Stores
  <2>2. y \in RunRecord
    BY <1>3
  <2> QED BY <2>1, <2>2, OneRunIs
<1>5. m.task = s.task /\ m.run[r] = y /\ \A q \in Runs \ {r} : m.run[q] = s.run[q]
  BY <1>4 DEF OneRun
<1>6. Apart(s, m, {r})
  BY <1>5 DEF Apart, Alike, Has
<1>7. Own(s, r)
  BY DEF AllBut
<1>8. ~Inside(m, r)
  BY <1>1, <1>3, <1>5, <1>7 DEF Own, Inside, LastLine
<1>9. NoMore(s, m, {r})
  BY <1>8 DEF NoMore, Live, HoldsAction
<1>10. AllBut(m, {r})
  BY <1>4, <1>6, <1>9, SomeOfThem, StepKeeps
<1>11. \A t \in Tasks : Has(m, r, t) <=> Has(s, r, t)
  BY <1>5 DEF Has
<1>12. HeldBy(m, r)
  BY <1>1, <1>3, <1>5, <1>7, <1>11 DEF Own, HeldBy
<1>13. Coherent(y) /\ y.st # "running"
  BY <1>1, <1>3, <1>7 DEF Own, Coherent
<1>14. ASSUME s.run[r].kind = "end" PROVE Own(m, r)
  <2>1. OnItsWay(x) => OnItsWay(y)
    BY <1>3 DEF OnItsWay, LastLine
  <2>2. \A t \in Tasks : Has(m, r, t) => Live(m, r) /\ (y.fresh \/ OnItsWay(y))
    BY <1>1, <1>3, <1>5, <1>7, <1>11, <2>1 DEF Own, Live
  <2> QED BY <1>3, <1>5, <1>8, <1>12, <1>13, <2>2 DEF Own
<1>15. Stands(s, m, r)
  BY <1>1, <1>3, <1>5, <1>11 DEF Stands, Live
<1> QED BY <1>3, <1>4, <1>5, <1>6, <1>10, <1>12, <1>13, <1>14, <1>15

LEMMA ResumeKeeps ==
  ASSUME Fine(store, looking), NEW r \in Runs, Resume(r)
  PROVE  Fine(store, looking)'
<1>1. PICK s \in Stores : s = store
  BY DEF Fine
<1>2. PICK n : n = store'
  OBVIOUS
<1>3. PICK l \in Looks : l = looking
  BY DEF Fine
<1>4. PICK k : k = looking'
  OBVIOUS
<1>5. PICK m : m = [s EXCEPT !.run[r].status = "running", !.run[r].kind = "none"]
  OBVIOUS
<1>6. AllBut(s, {}) /\ Seen(s, l) /\ Own(s, r)
  BY <1>1, <1>3 DEF Fine, AllBut
<1>7. s.run[r].status = "paused"
  BY <1>1 DEF Resume
<1>8. /\ m \in Stores /\ m.task = s.task /\ AllBut(m, {r}) /\ Apart(s, m, {r}) /\ HeldBy(m, r)
      /\ Coherent(m.run[r]) /\ m.run[r].status = "running" /\ m.run[r].st # "running"
      /\ s.run[r].kind = "end" => Own(m, r)
      /\ Stands(s, m, r)
  BY <1>5, <1>6, <1>7, GoingOn
<1>9. CASE s.run[r].kind = "end" /\ n = m /\ k = l
  <2>1. AllBut(m, {})
    BY <1>8, <1>9, AllOfThem
  <2>2. Seen(m, l)
    BY <1>6, <1>8, LeftAlone
  <2> QED BY <1>2, <1>4, <1>8, <1>9, <2>1, <2>2 DEF Fine
<1>10. ASSUME s.run[r].kind = "before", NEW later, n = CopiedAgain(m, r, later),
              k = [l EXCEPT !.old = @ \/ l.run = r]
       PROVE  Fine(n, k)
  <2>1. PICK b \in BOOLEAN : b = (l.old \/ l.run = r)
    OBVIOUS
  <2>2. k \in Looks /\ k.run = l.run /\ k.next = l.next /\ k.old = b
    BY <1>10, <2>1 DEF Looks
  <2>3. /\ n \in Stores /\ AllBut(n, {}) /\ Apart(m, n, {r})
        /\ n.run[r].fresh /\ n.run[r].st # "running" /\ n.task = m.task
    BY <1>8, <1>10, CopiedKeeps
  <2>4. CASE l.run = r
    <3>1. Live(s, r)
      BY <1>7 DEF Live
    <3>2. s.run[r].fresh /\ l.next # Entry => \A t \in Tasks : ~Has(s, r, t)
      BY <1>6, <2>4, <3>1 DEF Seen
    <3>3. \A t \in Tasks : Has(s, r, t) => s.run[r].fresh
      BY <1>6, <1>10 DEF Own
    <3>4. l.next # Entry => \A t \in Tasks : ~Has(n, r, t)
      BY <1>8, <2>3, <3>2, <3>3 DEF Has
    <3>5. Seen(n, k)
      BY <2>2, <2>3, <2>4, <3>4 DEF Seen
    <3> QED BY <2>2, <2>3, <3>5 DEF Fine
  <2>5. CASE l.run # r
    <3>1. Apart(s, n, {r})
      BY <1>8, <2>3, ApartOn
    <3>2. Seen(n, l)
      BY <1>6, <2>5, <3>1, ApartStands, SeenStays
    <3>3. Seen(n, k)
      BY <2>1, <2>2, <2>5, <3>2 DEF Seen
    <3> QED BY <2>2, <2>3, <3>3 DEF Fine
  <2> QED BY <2>4, <2>5
<1> QED BY <1>1, <1>2, <1>3, <1>4, <1>5, <1>9, <1>10 DEF Resume

LEMMA SaveKeeps ==
  ASSUME Fine(store, looking), Save
  PROVE  Fine(store, looking)'
<1>1. PICK s \in Stores : s = store
  BY DEF Fine
<1>2. PICK n : n = store'
  OBVIOUS
<1>3. PICK l \in Looks : l = looking /\ l = looking'
  BY DEF Fine, Save
<1>4. AllBut(s, {}) /\ Seen(s, l)
  BY <1>1, <1>3 DEF Fine
<1>5. PICK new : new = [r \in Runs |-> Live(s, r)]
  OBVIOUS
<1>6. PICK run : run = [r \in Runs |-> [s.run[r] EXCEPT !.newer = new[r]]]
  OBVIOUS
<1>7. ASSUME NEW r \in Runs
      PROVE  run[r] \in RunRecord /\ Alike(run[r], s.run[r])
  <2>1. PICK b \in BOOLEAN : b = new[r]
    <3>1. Live(s, r) \in BOOLEAN
      BY DEF Live
    <3> QED BY <1>5, <3>1, Zenon
  <2>2. PICK x \in RunRecord : x = s.run[r]
    BY RunKinds
  <2>3. run[r] = [x EXCEPT !.newer = b]
    BY <1>6, <2>1, <2>2
  <2> QED BY <2>2, <2>3 DEF RunRecord, Alike
<1>8. n = [s EXCEPT !.run = run]
  BY <1>1, <1>2, <1>5, <1>6 DEF Save
<1>9. n \in Stores /\ n.run = run /\ n.task = s.task
  BY <1>6, <1>7, <1>8 DEF Stores
<1>10. Apart(s, n, {}) /\ NoMore(s, n, {})
  BY <1>7, <1>9 DEF Apart, NoMore, Has
<1>11. AllBut(n, {})
  BY <1>4, <1>9, <1>10, StepKeeps
<1>12. Seen(n, l)
  BY <1>4, <1>10, ApartStands, SeenStays
<1> QED BY <1>2, <1>3, <1>9, <1>11, <1>12 DEF Fine

\* Somebody who is no run at a task: no run comes to hold it.
Becoming(k, w) == w.holder \in Runs => w.holder = k.holder /\ w.status = k.status

LEMMA BecomesKeeps ==
  ASSUME Fine(store, looking), NEW t \in Tasks, NEW change \in TaskRecord,
         Becoming(store.task[t], change), Becomes(t, change)
  PROVE  Fine(store, looking)'
<1>1. PICK s \in Stores : s = store
  BY DEF Fine
<1>2. PICK n : n = store'
  OBVIOUS
<1>3. PICK l \in Looks : l = looking /\ l = looking'
  BY DEF Fine, Becomes
<1>4. AllBut(s, {}) /\ Seen(s, l) /\ Becoming(s.task[t], change)
  BY <1>1, <1>3 DEF Fine
<1>5. n = [s EXCEPT !.task[t] = change]
  BY <1>1, <1>2 DEF Becomes
<1>6. /\ n \in Stores /\ n.run = s.run /\ n.task[t] = change
      /\ \A u \in Tasks \ {t} : n.task[u] = s.task[u]
  BY <1>5 DEF Stores
<1>7. Apart(s, n, {}) /\ NoMore(s, n, {})
  BY <1>4, <1>6 DEF Apart, NoMore, Alike, Has, Becoming
<1>8. AllBut(n, {})
  BY <1>4, <1>6, <1>7, StepKeeps
<1>9. Seen(n, l)
  BY <1>4, <1>7, ApartStands, SeenStays
<1> QED BY <1>2, <1>3, <1>6, <1>8, <1>9 DEF Fine

AtATask(t) ==
  Reserve(t) \/ SetStatus(t, "todo") \/ SetStatus(t, "done") \/ GiveToTheAi(t) \/ SettleFailure(t)

LEMMA AtATaskIs ==
  ASSUME NEW k \in TaskRecord, NEW status \in {"todo", "done"}
  PROVE  /\ [k EXCEPT !.status = "in_progress", !.holder = Session] \in TaskRecord
         /\ Becoming(k, [k EXCEPT !.status = "in_progress", !.holder = Session])
         /\ [k EXCEPT !.status = status, !.holder = NoTask] \in TaskRecord
         /\ Becoming(k, [k EXCEPT !.status = status, !.holder = NoTask])
         /\ [k EXCEPT !.human = FALSE] \in TaskRecord /\ Becoming(k, [k EXCEPT !.human = FALSE])
         /\ [k EXCEPT !.filed = FALSE] \in TaskRecord /\ Becoming(k, [k EXCEPT !.filed = FALSE])
<1>1. Session \notin Runs /\ NoTask \notin Runs
  BY RunAssumption DEF Session
<1>2. Session \in Runs \cup {Session, NoTask} /\ NoTask \in Runs \cup {Session, NoTask}
  OBVIOUS
<1> HIDE DEF Session
<1> QED BY <1>1, <1>2 DEF TaskRecord, Becoming

LEMMA AtATaskKeeps ==
  ASSUME Fine(store, looking), NEW t \in Tasks, AtATask(t)
  PROVE  Fine(store, looking)'
<1>1. PICK k \in TaskRecord : k = store.task[t]
  BY TaskKinds DEF Fine
<1>2. PICK change : /\ Becomes(t, change)
                    /\ \/ change = [k EXCEPT !.status = "in_progress", !.holder = Session]
                       \/ change = [k EXCEPT !.status = "todo", !.holder = NoTask]
                       \/ change = [k EXCEPT !.status = "done", !.holder = NoTask]
                       \/ change = [k EXCEPT !.human = FALSE]
                       \/ change = [k EXCEPT !.filed = FALSE]
  BY <1>1 DEF AtATask, Reserve, SetStatus, GiveToTheAi, SettleFailure
<1>3. change \in TaskRecord /\ Becoming(k, change)
  BY <1>2, AtATaskIs
<1> QED BY <1>1, <1>2, <1>3, BecomesKeeps

-----------------------------------------------------------------------------
(* The invariant.                                                          *)

LEMMA StartsWell == Init => IInv
<1> SUFFICES ASSUME Init PROVE IInv
  OBVIOUS
<1>1. PICK s : s = store
  OBVIOUS
<1>2. PICK free : free = [status |-> "todo", holder |-> NoTask, filed |-> FALSE, human |-> FALSE]
  OBVIOUS
<1>3. free \in TaskRecord /\ free.holder \notin Runs
  BY <1>2, RunAssumption DEF TaskRecord
<1>4. s = [run |-> [r \in Runs |-> NoRun], task |-> [t \in Tasks |-> free],
           stopped |-> FALSE, waits |-> FALSE]
  BY <1>1, <1>2 DEF Init
<1>5. s \in Stores
  BY <1>3, <1>4, NoRunIs DEF Stores
<1>6. \A r \in Runs : s.run[r] = NoRun /\ \A t \in Tasks : ~Has(s, r, t)
  BY <1>3, <1>4 DEF Has
<1>7. NoRun.status = "none" /\ NoRun.fresh
  BY DEF NoRun
<1>8. \A r \in Runs : ~Live(s, r) /\ ~Inside(s, r)
  BY <1>6, <1>7 DEF Live, Inside
<1>9. \A r \in Runs : Own(s, r)
  BY <1>6, <1>8, NoRunIs DEF Own, HeldBy
<1>10. Single(s)
  BY <1>8 DEF Single, HoldsAction
<1>11. Few(s)
  <2>1. UnderWay(s) = {}
    BY <1>8 DEF UnderWay
  <2> QED BY <2>1, FS_EmptySet, RunAssumption DEF Few
<1>12. looking = Nobody /\ outside = 0
  BY DEF Init
<1>13. outside \in 0..MaxOutside
  BY <1>12, RunAssumption
<1> QED BY <1>1, <1>5, <1>9, <1>10, <1>11, <1>12, <1>13, NobodySeen, NobodyLooks
     DEF IInv, Fine, AllBut

LEMMA CarryKeeps ==
  ASSUME Fine(store, looking), Carry
  PROVE  Fine(store, looking)'
<1>1. PICK r \in Runs :
        \/ Launch(r) \/ StartWaiting(r) \/ Watch(r)
        \/ (\E exit \in Exits : StepDone(r, exit)) \/ StepEnded(r)
  BY DEF Carry
<1>2. CASE Launch(r)
  BY <1>2, LaunchKeeps
<1>3. CASE StartWaiting(r)
  BY <1>3, StartWaitingKeeps
<1>4. CASE Watch(r)
  BY <1>4, LookKeeps, TakeUpKeeps, OpenStepKeeps, GiveUpKeeps DEF Watch
<1>5. CASE \E exit \in Exits : StepDone(r, exit)
  BY <1>5, StepDoneKeeps
<1>6. CASE StepEnded(r)
  BY <1>6, StepEndedKeeps
<1> QED BY <1>1, <1>2, <1>3, <1>4, <1>5, <1>6

LEMMA OutsideKeeps ==
  ASSUME Fine(store, looking), Outside
  PROVE  Fine(store, looking)'
<1>1. CASE \E r \in Runs : Pause(r) \/ PauseBeforeNextTask(r) \/ Resume(r) \/ Cancel(r)
  BY <1>1, PauseKeeps, PauseBeforeNextTaskKeeps, ResumeKeeps, StepEndedKeeps
<1>2. CASE StopAutomation \/ StartAutomation \/ StopWaiting \/ Save \/ Restart
  BY <1>2, StopAutomationKeeps, FlagsKeep, SaveKeeps, RestartKeeps
<1>3. CASE \E t \in Tasks : AtATask(t)
  BY <1>3, AtATaskKeeps
<1> QED BY <1>1, <1>2, <1>3 DEF Outside, AtATask

LEMMA EveryStepKeeps == IInv /\ [Next]_vars => IInv'
<1> SUFFICES ASSUME IInv, [Next]_vars PROVE IInv'
  OBVIOUS
<1>1. Fine(store, looking) /\ outside \in 0..MaxOutside
  BY DEF IInv
<1>2. CASE Carry /\ UNCHANGED outside
  BY <1>1, <1>2, CarryKeeps DEF IInv
<1>3. CASE outside < MaxOutside /\ outside' = outside + 1 /\ Outside
  <2>1. Fine(store, looking)'
    BY <1>1, <1>3, OutsideKeeps
  <2>2. outside' \in 0..MaxOutside
    BY <1>1, <1>3, RunAssumption
  <2> QED BY <2>1, <2>2 DEF IInv
<1>4. CASE UNCHANGED vars
  BY <1>1, <1>4 DEF IInv, vars, Fine
<1> QED BY <1>2, <1>3, <1>4 DEF Next

THEOREM Inductive == Spec => []IInv
BY StartsWell, EveryStepKeeps, PTL DEF Spec

-----------------------------------------------------------------------------
(* What it gives.                                                          *)

\* A paused run is paused one way or the other, and a run is asked to pause
\* only while it runs: what resume and pause decide by is never left behind.
THEOREM Types == Spec => []TypeOK
<1>1. IInv => TypeOK
  <2> SUFFICES ASSUME IInv PROVE TypeOK
    OBVIOUS
  <2>1. store \in Stores /\ looking \in Looks /\ outside \in 0..MaxOutside
    BY DEF IInv, Fine
  <2>2. \A r \in Runs : Coherent(store.run[r])
    BY DEF IInv, Fine, AllBut, Own
  <2> QED BY <2>1, <2>2 DEF TypeOK, Stores, Looks, Coherent
<1> QED BY <1>1, Inductive, PTL

\* room_for lets one run at a time into an action that takes one, and counts
\* the paused ones, whichever look opened the step.
THEOREM OneRunInside == Spec => []OneInside
<1>1. IInv => OneInside
  <2> SUFFICES ASSUME IInv, NEW a \in OneAtATime
               PROVE  Cardinality({r \in Runs : HoldsAction(store, r, a)}) <= 1
    BY DEF OneInside
  <2>1. PICK inside : inside = {r \in Runs : HoldsAction(store, r, a)}
    OBVIOUS
  <2>2. \A q \in inside, r \in inside : q = r
    BY <2>1 DEF IInv, Fine, AllBut, Single
  <2>3. CASE inside = {}
    BY <2>1, <2>3, FS_EmptySet
  <2>4. ASSUME NEW q \in inside PROVE Cardinality(inside) = 1
    <3>1. inside = {q}
      BY <2>2
    <3> QED BY <3>1, FS_Singleton
  <2> QED BY <2>1, <2>3, <2>4
<1> QED BY <1>1, Inductive, PTL

\* Every way a run ends lets go of its task, and so does every way it starts a
\* new stretch: a task is held by a run under way, in the stretch it is in.
THEOREM HeldByRunsUnderWay == Spec => []NothingHeldByTheGone
<1>1. IInv => NothingHeldByTheGone
  BY DEF IInv, Fine, AllBut, Own, HeldBy, NothingHeldByTheGone, Has
<1> QED BY <1>1, Inductive, PTL

\* A run paused before its next task holds none that copying it afresh would
\* leave behind (round_over, pause_run_before_next_task, open_as).
THEOREM NoReservationLeft == Spec => []PausedHoldsNothing
<1>1. IInv => PausedHoldsNothing
  BY DEF IInv, Fine, AllBut, Own, PausedHoldsNothing, Has
<1> QED BY <1>1, Inductive, PTL

\* Whatever settles a run, it finds it between two actions.
THEOREM PausesBetweenActions == Spec => []PausedBetweenActions
<1>1. IInv => PausedBetweenActions
  BY DEF IInv, Fine, AllBut, Own, PausedBetweenActions
<1> QED BY <1>1, Inductive, PTL

\* A launch counts the paused runs, so resume needs no room of its own.
THEOREM NeverMore == Spec => []NeverOverItsMost
<1>1. IInv => NeverOverItsMost
  BY DEF IInv, Fine, AllBut, Few, NeverOverItsMost
<1> QED BY <1>1, Inductive, PTL

-----------------------------------------------------------------------------
(* Who is given a task.                                                    *)

LEMMA EndedGains ==
  ASSUME NEW s \in Stores, NEW r \in Runs, AllBut(s, {}),
         NEW ending \in {"completed", "failed", "canceled"}, NEW n, n = Ended(s, r, ending)
  PROVE  Gainless(s, n)
BY EndedIs, GainlessIs DEF AllBut, Own

LEMMA ArrivingGains ==
  ASSUME NEW s \in Stores, NEW r \in Runs, NEW y \in RunRecord, NEW later,
         NEW n, n = Arrived([s EXCEPT !.run[r] = y], r, later)
  PROVE  n \in Stores /\ n.task = s.task
<1>1. PICK m : m = [s EXCEPT !.run[r] = y]
  OBVIOUS
<1>2. m \in Stores /\ m.task = s.task
  BY <1>1, OneRunIs DEF OneRun
<1>3. n = Arrived(m, r, later)
  BY <1>1
<1>4. n \in Stores /\ n.task = m.task
  BY <1>2, <1>3, ArrivedIs
<1> QED BY <1>2, <1>4

LEMMA LaunchedGains ==
  ASSUME NEW s \in Stores, NEW r \in Runs, NEW later, NEW n, n = Launched(s, r, later)
  PROVE  n \in Stores /\ n.task = s.task
<1>1. [NoRun EXCEPT !.status = "running"] \in RunRecord
  BY NoRunIs DEF RunRecord
<1> QED BY <1>1, ArrivingGains DEF Launched

LEMMA CopiedGains ==
  ASSUME NEW s \in Stores, NEW r \in Runs, NEW later, NEW n, n = CopiedAgain(s, r, later)
  PROVE  n.task = s.task
<1>1. PICK x \in RunRecord : x = s.run[r]
  BY RunKinds
<1>2. [x EXCEPT !.fresh = TRUE, !.newer = FALSE] \in RunRecord
  BY DEF RunRecord
<1> QED BY <1>1, <1>2, ArrivingGains DEF CopiedAgain

LEMMA CarryGains ==
  ASSUME Fine(store, looking), Carry
  PROVE  \/ Gainless(store, store')
         \/ \E r \in Runs, spot \in Spots :
              /\ ~PausesHere(store, r, spot) /\ Kind[spot] = "take"
              /\ \A q \in Runs \ {r} : GainsNone(store, store', q)
<1>1. PICK s \in Stores : s = store
  BY DEF Fine
<1>2. PICK n : n = store'
  OBVIOUS
<1>3. AllBut(s, {})
  BY <1>1 DEF Fine
<1>4. PICK r \in Runs :
        \/ Launch(r) \/ StartWaiting(r) \/ Watch(r)
        \/ (\E exit \in Exits : StepDone(r, exit)) \/ StepEnded(r)
  BY DEF Carry
<1>5. CASE n.task = s.task
  BY <1>1, <1>2, <1>5, SameTasks
<1>6. CASE n = Ended(s, r, "failed")
  BY <1>1, <1>2, <1>3, <1>6, EndedGains
<1>7. ASSUME NEW later, n = Launched(s, r, later) \/ n = CopiedAgain(s, r, later)
      PROVE  n.task = s.task
  BY <1>7, LaunchedGains, CopiedGains
<1>8. CASE Launch(r)
  <2>1. CASE n = [s EXCEPT !.waits = TRUE]
    BY <1>5, <2>1 DEF Stores
  <2> QED BY <1>1, <1>2, <1>5, <1>7, <1>8, <2>1 DEF Launch
<1>9. CASE StartWaiting(r)
  <2>1. PICK later : n = [Launched(s, r, later) EXCEPT !.waits = FALSE]
    BY <1>1, <1>2, <1>9 DEF StartWaiting
  <2>2. PICK k : k = Launched(s, r, later)
    OBVIOUS
  <2>3. k \in Stores /\ k.task = s.task
    BY <2>2, LaunchedGains
  <2>4. n.task = k.task
    BY <2>1, <2>2, <2>3 DEF Stores
  <2> QED BY <1>5, <2>3, <2>4
<1>10. CASE Look(r)
  BY <1>1, <1>2, <1>5, <1>10 DEF Look
<1>11. CASE TakeUp(r)
  BY <1>1, <1>2, <1>5, <1>6, <1>7, <1>11 DEF TakeUp
<1>12. ASSUME NEW spot \in Spots, Open(r, spot)
       PROVE  \/ Gainless(store, store')
              \/ /\ ~PausesHere(store, r, spot) /\ Kind[spot] = "take"
                 /\ \A q \in Runs \ {r} : GainsNone(store, store', q)
  <2>1. store \in Stores /\ looking.old \in BOOLEAN /\ AllBut(store, {}) /\ Seen(store, looking)
    BY DEF Fine, Looks
  <2>2. /\ Apart(store, store', {r})
        /\ (Kind[spot] = "take" /\ ~PausesHere(store, r, spot)) \/ GainsNone(store, store', r)
    BY <1>12, <2>1, OpenKeeps
  <2>3. \A q \in Runs \ {r} : GainsNone(store, store', q)
    BY <2>2 DEF Apart, GainsNone
  <2> QED BY <2>2, <2>3 DEF Gainless
<1>13. CASE GiveUp(r)
  BY <1>1, <1>2, <1>5, <1>6, <1>13 DEF GiveUp
<1>14. CASE \E exit \in Exits : StepDone(r, exit)
  BY <1>14, StepDoneKeeps
<1>15. CASE StepEnded(r)
  BY <1>1, <1>2, <1>6, <1>15 DEF StepEnded
<1> QED BY <1>4, <1>8, <1>9, <1>10, <1>11, <1>12, <1>13, <1>14, <1>15 DEF Watch

LEMMA OutsideGains ==
  ASSUME Fine(store, looking), Outside
  PROVE  Gainless(store, store')
<1>1. PICK s \in Stores : s = store
  BY DEF Fine
<1>2. PICK n : n = store'
  OBVIOUS
<1>3. AllBut(s, {})
  BY <1>1 DEF Fine
<1>4. SUFFICES Gainless(s, n)
  BY <1>1, <1>2
<1>5. ASSUME NEW r \in Runs, NEW kind \in Pauses, n = Settle(s, r, kind)
      PROVE  Gainless(s, n)
  BY <1>5, SettleIs, SameTasks
<1>6. ASSUME NEW r \in Runs, Pause(r) \/ PauseBeforeNextTask(r)
      PROVE  Gainless(s, n)
  <2>1. \/ n = Settle(s, r, "end") \/ n = Settle(s, r, "before")
        \/ n = [s EXCEPT !.run[r].asked = TRUE] \/ n = [s EXCEPT !.run[r].before = TRUE]
    BY <1>1, <1>2, <1>6 DEF Pause, PauseBeforeNextTask
  <2>2. CASE n = [s EXCEPT !.run[r].asked = TRUE] \/ n = [s EXCEPT !.run[r].before = TRUE]
    BY <2>2, SameTasks DEF Stores
  <2> QED BY <1>5, <2>1, <2>2 DEF Pauses
<1>7. ASSUME NEW r \in Runs, Resume(r)
      PROVE  Gainless(s, n)
  <2>1. PICK m : m = [s EXCEPT !.run[r].status = "running", !.run[r].kind = "none"]
    OBVIOUS
  <2>2. m \in Stores /\ m.task = s.task
    <3>1. s.run[r].status = "paused"
      BY <1>1, <1>7 DEF Resume
    <3> QED BY <1>3, <2>1, <3>1, GoingOn
  <2>3. n = m \/ \E later \in {0, 1} : n = CopiedAgain(m, r, later)
    BY <1>1, <1>2, <1>7, <2>1 DEF Resume
  <2>4. n.task = s.task
    BY <2>2, <2>3, CopiedGains
  <2> QED BY <2>4, SameTasks
<1>8. ASSUME NEW r \in Runs, Cancel(r)
      PROVE  Gainless(s, n)
  BY <1>1, <1>2, <1>3, <1>8, EndedGains DEF Cancel
<1>9. CASE StopAutomation
  <2>1. PICK m : m = [s EXCEPT !.stopped = TRUE, !.waits = FALSE]
    OBVIOUS
  <2>2. m \in Stores /\ m.task = s.task
    BY <2>1 DEF Stores
  <2>3. \E P \in SUBSET Runs : n = AllSettled(m, P)
    BY <1>1, <1>2, <1>9, <2>1 DEF StopAutomation
  <2>4. n.task = s.task
    BY <2>2, <2>3, AllSettledIs
  <2> QED BY <2>4, SameTasks
<1>10. CASE StartAutomation \/ StopWaiting \/ Save
  <2>1. n.task = s.task
    BY <1>1, <1>2, <1>10 DEF StartAutomation, StopWaiting, Save, Stores
  <2> QED BY <2>1, SameTasks
<1>11. CASE Restart
  <2>1. \A t \in Tasks : n.task[t] \in {s.task[t], HandedBack(s.task[t], "failed")}
    BY <1>1, <1>2, <1>11 DEF Restart, Stores
  <2>2. \A t \in Tasks : HandedBack(s.task[t], "failed").holder \in Runs =>
                           HandedBack(s.task[t], "failed") = s.task[t]
    BY HandedBackIs, TaskKinds
  <2> QED BY <2>1, <2>2 DEF Gainless, GainsNone, Has
<1>12. ASSUME NEW t \in Tasks, AtATask(t)
       PROVE  Gainless(s, n)
  <2>1. PICK k \in TaskRecord : k = s.task[t]
    BY TaskKinds
  <2>2. PICK change : /\ Becomes(t, change)
                      /\ \/ change = [k EXCEPT !.status = "in_progress", !.holder = Session]
                         \/ change = [k EXCEPT !.status = "todo", !.holder = NoTask]
                         \/ change = [k EXCEPT !.status = "done", !.holder = NoTask]
                         \/ change = [k EXCEPT !.human = FALSE]
                         \/ change = [k EXCEPT !.filed = FALSE]
    BY <1>1, <1>12, <2>1 DEF AtATask, Reserve, SetStatus, GiveToTheAi, SettleFailure
  <2>3. Becoming(k, change)
    BY <2>2, AtATaskIs
  <2>4. n.task[t] = change /\ \A u \in Tasks \ {t} : n.task[u] = s.task[u]
    BY <1>1, <1>2, <2>2 DEF Becomes, Stores
  <2> QED BY <2>1, <2>3, <2>4 DEF Becoming, Gainless, GainsNone, Has
<1> QED BY <1>6, <1>7, <1>8, <1>9, <1>10, <1>11, <1>12 DEF Outside, AtATask

\* open_as asks again, in the transaction that opens the step, whether the run
\* is to pause before its next task or its automation was stopped, and nothing
\* else gives a run a task.
THEOREM NoneAfterTheAsk == Spec => NoTaskAfterTheAsk
<1> DEFINE Asked == \A t \in Tasks, r \in Runs :
                      store'.task[t].holder = r /\ store.task[t].holder # r
                        => ~store.run[r].before /\ ~store.stopped
<1>1. IInv /\ [Next]_vars => [Asked]_vars
  <2> SUFFICES ASSUME IInv, Next PROVE Asked
    OBVIOUS
  <2>1. Fine(store, looking)
    BY DEF IInv
  <2>2. CASE Gainless(store, store')
    BY <2>2 DEF Gainless, GainsNone, Has
  <2>3. ASSUME NEW r \in Runs, NEW spot \in Spots,
               ~PausesHere(store, r, spot), Kind[spot] = "take",
               \A q \in Runs \ {r} : GainsNone(store, store', q)
        PROVE  Asked
    BY <2>3 DEF PausesHere, GainsNone, Has
  <2> QED BY <2>1, <2>2, <2>3, CarryGains, OutsideGains DEF Next
<1> QED BY <1>1, Inductive, PTL DEF Spec, NoTaskAfterTheAsk

LEMMA Earliest ==
  ASSUME NEW N \in SUBSET Nat, N # {}
  PROVE  \E n \in N : \A m \in N : n <= m
<1>1. PICK n \in N : \A m \in N : ~(<<m, n>> \in OpToRel(<, Nat))
  BY WFMin, NatLessThanWellFounded
<1>2. \A m \in N : ~(m < n)
  BY <1>1 DEF OpToRel
<1> QED BY <1>2

\* Times and ids order the runs of a line between them, so one of them is the
\* first, and nobody it knows of stands before it.
THEOREM FirstGoesIn == Spec => []LineMoves
<1>1. IInv => LineMoves
  <2> SUFFICES ASSUME IInv, NEW a \in OneAtATime, NEW w \in Runs, InLine(store, w, a),
                      \A q \in Runs : ~HoldsAction(store, q, a)
               PROVE  \E r \in {r \in Runs : InLine(store, r, a)} :
                        Behind(store, r, NextSpot(store, r)) = {}
    BY DEF LineMoves
  <2>1. PICK line : line = {r \in Runs : InLine(store, r, a)}
    OBVIOUS
  <2>2. \A r \in Runs : store.run[r].arrived \in Nat
    BY RunKinds DEF IInv, Fine, RunRecord
  <2>3. PICK times \in SUBSET Nat : times = {store.run[r].arrived : r \in line}
    BY <2>1, <2>2
  <2>4. PICK first \in times : \A time \in times : first <= time
    <3>1. w \in line
      BY <2>1
    <3>2. store.run[w].arrived \in times
      BY <2>3, <3>1
    <3> QED BY <3>2, Earliest
  <2>5. PICK ids \in SUBSET Nat : ids = {r \in line : store.run[r].arrived = first}
    BY <2>1, RunAssumption
  <2>6. PICK r \in ids : \A id \in ids : r <= id
    BY <2>3, <2>4, <2>5, Earliest
  <2>7. r \in line /\ r \in Runs /\ store.run[r].arrived = first /\ InLine(store, r, a)
    BY <2>1, <2>5, <2>6
  <2>8. ASSUME NEW q \in Runs, InLine(store, q, a), CameFirst(store, q, r) PROVE FALSE
    <3>1. q \in line /\ first <= store.run[q].arrived
      BY <2>1, <2>3, <2>4, <2>8
    <3>2. store.run[q].arrived = first /\ q < r
      BY <2>2, <2>7, <2>8, <3>1 DEF CameFirst
    <3> QED BY <2>5, <2>6, <3>1, <3>2
  <2>9. Behind(store, r, NextSpot(store, r)) = {}
    BY <2>7, <2>8 DEF Behind, InLine
  <2> QED BY <2>1, <2>7, <2>9
<1> QED BY <1>1, Inductive, PTL

=============================================================================
