---------------------------- MODULE DueTickProofs ----------------------------
(***************************************************************************)
(* For any number of processes, tasks, days and faults: a day that is      *)
(* marked was carried out, and each warning too many is paid for.          *)
(*                                                                         *)
(* The first needs to know what a tick has read so far of the day it is    *)
(* (ReadSoFar).  The second is an account of each day (Paid): a commit     *)
(* made for it, a tick run by hand that may still make one or put an older *)
(* mark over it, and the one the timer may still make, are covered by one, *)
(* the faults and the ticks run by hand.                                   *)
(***************************************************************************)
EXTENDS DueTick, FiniteSetTheorems, TLAPS

\* Nobody is ahead of the day, and who is at work has one.
DaysPass ==
  /\ \A k \in Ticks : day[k] <= today /\ (pc[k] # "idle" => day[k] \in Days)
  /\ mark <= today

\* A tick for the day it still is has in hand whatever was owed all day, of the
\* windows it has read, and once it has said so, the warnings are there.  A task goes
\* from "today" to "overdue" with its instant: one that had not gone when the overdue
\* were read is found by the next query, unless it slipped between the two.
ReadSoFar ==
  \A k \in Ticks, t \in Tasks :
    day[k] = today /\ Owed(t) /\ t \notin slipped =>
      /\ pc[k] = "today" /\ (due[t].day < today \/ Passed(t)) => t \in found[k]
      /\ pc[k] \in {"tomorrow", "emit"} /\ due[t].day <= today => t \in found[k]
      /\ pc[k] = "emit" => t \in found[k]
      /\ pc[k] = "mark" => <<t, today>> \in warned

\* Ticks run by hand that are under way.
Hands == {k \in Ticks \ {Timer} : pc[k] # "idle"}

\* One of them may yet cost day d a warning: its own, or by marking another day.
MayCost(d) ==
  {k \in Hands : IF day[k] = d THEN pc[k] \in Windows \cup {"judge", "emit"} ELSE pc[k] # "flush"}

\* The timer will make no commit for day d any more, unless a mark is put over.
TimerIsDone(d) ==
  \/ day[Timer] > d
  \/ day[Timer] = d /\ pc[Timer] = "mark"
  \/ mark = d /\ pc[Timer] \in {"idle", "flush"}
  \/ mark = d /\ pc[Timer] = "judge" /\ day[Timer] = d

Paid ==
  /\ IsFiniteSet(Hands)
  /\ \A d \in Days :
       taken[d] + Cardinality(MayCost(d)) + (IF TimerIsDone(d) THEN 0 ELSE 1)
         <= 1 + faults + byHand

IInv == TypeOK /\ DaysPass /\ ReadSoFar /\ MarkedDayIsWarned /\ Paid

-----------------------------------------------------------------------------
(* Kinds, and days that pass.                                               *)

LEMMA TypeStep == TypeOK /\ DaysPass /\ [Next]_vars => TypeOK'
<1> SUFFICES ASSUME TypeOK, DaysPass, [Next]_vars PROVE TypeOK'
  OBVIOUS
<1> USE TickAssumption DEF TypeOK, Days, NoDay, Steps, Windows, Goto
<1>1. ASSUME NEW k \in Ticks, Wake(k) PROVE TypeOK'
  BY <1>1 DEF Wake, store, clock
<1>2. ASSUME NEW k \in Ticks, Judge(k) PROVE TypeOK'
  BY <1>2 DEF Judge, store, clock
<1>3. ASSUME NEW k \in Ticks, NEW w \in Windows, ReadWindow(k, w) PROVE TypeOK'
  <2>1. found' \in [Ticks -> SUBSET Tasks]
    BY <1>3 DEF ReadWindow
  <2>2. pc' \in [Ticks -> Steps]
    BY <1>3 DEF ReadWindow
  <2> QED BY <1>3, <2>1, <2>2 DEF ReadWindow, store, clock
<1>4. ASSUME NEW k \in Ticks, Emit(k) PROVE TypeOK'
  <2> DEFINE new == found[k] \X {day[k]}
  <2>1. day[k] \in Days
    BY <1>4 DEF Emit, DaysPass
  <2>2. new \subseteq Warnings
    BY <2>1 DEF Warnings
  <2>3. taken' \in [Days -> Nat]
    <3>1. taken' \in {taken, [taken EXCEPT ![day[k]] = @ + 1]}
      <4> HIDE DEF TypeOK
      <4> QED BY <1>4, Zenon DEF Emit
    <3> QED BY <2>1, <3>1
  <2>4. standing' \subseteq warned' /\ warned' \subseteq Warnings
    <3> HIDE DEF new
    <3>1. standing' = standing \cup new /\ warned' = warned \cup new
      BY <1>4 DEF Emit, new
    <3> QED BY <2>2, <3>1
  <2>5. found' \in [Ticks -> SUBSET Tasks] /\ pc' \in [Ticks -> Steps]
    BY <1>4 DEF Emit
  <2> HIDE DEF new
  <2> QED BY <1>4, <2>3, <2>4, <2>5 DEF Emit, store, clock
<1>5. ASSUME NEW k \in Ticks, Mark(k) PROVE TypeOK'
  BY <1>5 DEF Mark, store, clock
<1>6. ASSUME NEW k \in Ticks, TurnFails(k) PROVE TypeOK'
  BY <1>6 DEF TurnFails, store, clock
<1>7. ASSUME NEW k \in Ticks, Flush(k) PROVE TypeOK'
  BY <1>7 DEF Flush, store, clock
<1>8. ASSUME NEW k \in Ticks, Crash(k) PROVE TypeOK'
  BY <1>8 DEF Crash, store, clock
<1>9. ASSUME NEW t \in Tasks, Touch(t) PROVE TypeOK'
  BY <1>9 DEF Touch, clock
<1>10. ASSUME TimePasses PROVE TypeOK'
  BY <1>10 DEF TimePasses
<1>11. ASSUME Midnight PROVE TypeOK'
  BY <1>11 DEF Midnight
<1>12. ASSUME UNCHANGED vars PROVE TypeOK'
  BY <1>12 DEF vars, store, clock
<1> QED BY <1>1, <1>2, <1>3, <1>4, <1>5, <1>6, <1>7, <1>8, <1>9, <1>10, <1>11, <1>12 DEF Next, Work

LEMMA DaysPassStep == TypeOK /\ DaysPass /\ [Next]_vars => DaysPass'
<1> SUFFICES ASSUME TypeOK, DaysPass, [Next]_vars PROVE DaysPass'
  OBVIOUS
<1> USE TickAssumption DEF TypeOK, DaysPass, Days, NoDay, Goto, clock
<1>1. ASSUME NEW k \in Ticks, Wake(k) PROVE DaysPass'
  BY <1>1 DEF Wake
<1>2. ASSUME NEW k \in Ticks, Work(k) \/ TurnFails(k) \/ Crash(k) PROVE DaysPass'
  BY <1>2 DEF Work, Judge, ReadWindow, Emit, Mark, Flush, TurnFails, Crash, Steps, Windows
<1>3. ASSUME NEW t \in Tasks, Touch(t) PROVE DaysPass'
  BY <1>3 DEF Touch
<1>4. ASSUME TimePasses \/ Midnight PROVE DaysPass'
  <2>1. today' \in {today, today + 1} /\ day' = day /\ pc' = pc /\ mark' = mark
    BY <1>4 DEF TimePasses, Midnight
  <2> QED BY <2>1
<1>5. ASSUME UNCHANGED vars PROVE DaysPass'
  BY <1>5 DEF vars
<1> QED BY <1>1, <1>2, <1>3, <1>4, <1>5 DEF Next

-----------------------------------------------------------------------------
(* A marked day was carried out.                                            *)

\* Nobody owes more than before on a day: a task that changes is owed no more.
LEMMA ReadSoFarStep ==
  TypeOK /\ DaysPass /\ ReadSoFar /\ [Next]_vars => ReadSoFar'
<1> DEFINE Goal(j, t) ==
      /\ pc[j] = "today" /\ (due[t].day < today \/ Passed(t)) => t \in found[j]
      /\ pc[j] \in {"tomorrow", "emit"} /\ due[t].day <= today => t \in found[j]
      /\ pc[j] = "emit" => t \in found[j]
      /\ pc[j] = "mark" => <<t, today>> \in warned
<1> SUFFICES ASSUME TypeOK, DaysPass, ReadSoFar, [Next]_vars,
                    NEW j \in Ticks, NEW t \in Tasks, (day[j] = today)', Owed(t)', (t \notin slipped)'
             PROVE  Goal(j, t)'
  BY DEF ReadSoFar
<1> USE TickAssumption DEF TypeOK, Days, NoDay, Steps, Windows, Goto, Passed
<1>0. day[j] = today /\ Owed(t) /\ t \notin slipped => Goal(j, t)
  BY DEF ReadSoFar
<1>1. ASSUME NEW k \in Ticks, Wake(k) PROVE Goal(j, t)'
  BY <1>0, <1>1 DEF Wake, Owed, store, clock
<1>2. ASSUME NEW k \in Ticks, Judge(k) PROVE Goal(j, t)'
  BY <1>0, <1>2 DEF Judge, Owed, store, clock
<1>3. ASSUME NEW k \in Ticks, NEW w \in Windows, ReadWindow(k, w) PROVE Goal(j, t)'
  <2>1. /\ Owed(t) /\ day[j] = today /\ t \notin slipped /\ Goal(j, t)
        /\ open[t] /\ due[t].day # NoDay /\ due[t].day \in Nat /\ due[t].day <= today + 1
    BY <1>0, <1>3 DEF ReadWindow, Owed, store, clock
  <2>2. found[j] \subseteq found'[j] /\ (j # k => found'[j] = found[j] /\ pc'[j] = pc[j])
    BY <1>3 DEF ReadWindow
  <2>3. j = k /\ InWindow(t, w) => t \in found'[j]
    BY <1>3 DEF ReadWindow
  <2>4. due' = due /\ today' = today /\ time' = time /\ warned' = warned
    BY <1>3 DEF ReadWindow, store, clock
  <2>5. j = k => pc[j] = w
                 /\ (pc'[j] = "today" <=> w = "overdue") /\ (pc'[j] = "tomorrow" <=> w = "today")
                 /\ (pc'[j] = "emit" <=> w = "tomorrow") /\ pc'[j] # "mark"
    BY <1>3 DEF ReadWindow
  <2>6. CASE j # k
    BY <2>1, <2>2, <2>4, <2>6
  <2>7. CASE j = k
    BY <2>1, <2>2, <2>3, <2>4, <2>5, <2>7 DEF InWindow
  <2> QED BY <2>6, <2>7
<1>4. ASSUME NEW k \in Ticks, Emit(k) PROVE Goal(j, t)'
  <2>1. Owed(t) /\ day[j] = today /\ t \notin slipped /\ Goal(j, t)
    BY <1>0, <1>4 DEF Emit, Owed, store, clock
  <2>2. CASE j # k
    BY <1>4, <2>1, <2>2 DEF Emit, store, clock
  <2>3. CASE j = k
    <3>1. <<t, day[k]>> \in found[k] \X {day[k]}
      BY <1>4, <2>1, <2>3 DEF Emit
    <3> QED BY <1>4, <2>1, <2>3, <3>1 DEF Emit, clock
  <2> QED BY <2>2, <2>3
<1>5. ASSUME NEW k \in Ticks, Mark(k) \/ TurnFails(k) \/ Flush(k) \/ Crash(k) PROVE Goal(j, t)'
  BY <1>0, <1>5 DEF Mark, TurnFails, Flush, Crash, Owed, store, clock
<1>6. ASSUME NEW u \in Tasks, Touch(u) PROVE Goal(j, t)'
  BY <1>0, <1>6 DEF Touch, Owed, clock
<1>7. ASSUME TimePasses PROVE Goal(j, t)'
  <2>1. Owed(t) /\ day[j] = today /\ t \notin slipped /\ Goal(j, t)
    BY <1>0, <1>7 DEF TimePasses, Owed
  <2>2. CASE pc[j] = "today"
    <3>1. due[t].day = today => due[t].at # time
      BY <1>7, <2>1, <2>2 DEF TimePasses, BetweenWindows
    <3>2. Passed(t)' => Passed(t)
      BY <1>7, <3>1 DEF TimePasses
    <3> QED BY <1>7, <2>1, <2>2, <3>2 DEF TimePasses
  <2>3. CASE pc[j] # "today"
    BY <1>7, <2>1, <2>3 DEF TimePasses
  <2> QED BY <2>2, <2>3
<1>8. ASSUME Midnight PROVE Goal(j, t)'
  BY <1>8 DEF Midnight, DaysPass
<1>9. ASSUME UNCHANGED vars PROVE Goal(j, t)'
  BY <1>0, <1>9 DEF vars, Owed, store, clock
<1> QED BY <1>1, <1>2, <1>3, <1>4, <1>5, <1>6, <1>7, <1>8, <1>9 DEF Next, Work

\* Only a tick that has said so marks a day, and nothing is taken back.
LEMMA MarkedStep ==
  TypeOK /\ DaysPass /\ ReadSoFar /\ MarkedDayIsWarned /\ [Next]_vars => MarkedDayIsWarned'
<1> SUFFICES ASSUME TypeOK, DaysPass, ReadSoFar, MarkedDayIsWarned, [Next]_vars,
                    (mark = today)', NEW t \in Tasks, Owed(t)', (t \notin slipped)'
             PROVE  <<t, today'>> \in warned'
  BY DEF MarkedDayIsWarned
<1> USE DEF TypeOK, Days, NoDay, Steps, Windows, Goto
<1>1. ASSUME NEW k \in Ticks, Mark(k) PROVE <<t, today'>> \in warned'
  BY <1>1 DEF Mark, ReadSoFar, Owed, store, clock
<1>2. ASSUME NEW k \in Ticks, Emit(k) PROVE <<t, today'>> \in warned'
  <2>1. Owed(t) /\ t \notin slipped /\ mark = today /\ today' = today /\ warned \subseteq warned'
    BY <1>2 DEF Emit, Owed, store, clock
  <2> QED BY <2>1 DEF MarkedDayIsWarned
<1>3. ASSUME NEW k \in Ticks, Wake(k) \/ Judge(k) \/ TurnFails(k) \/ Flush(k) \/ Crash(k)
      PROVE  <<t, today'>> \in warned'
  BY <1>3 DEF Wake, Judge, TurnFails, Flush, Crash, MarkedDayIsWarned, Owed, store, clock
<1>4. ASSUME NEW k \in Ticks, NEW w \in Windows, ReadWindow(k, w) PROVE <<t, today'>> \in warned'
  BY <1>4 DEF ReadWindow, MarkedDayIsWarned, Owed, store, clock
<1>5. ASSUME NEW u \in Tasks, Touch(u) PROVE <<t, today'>> \in warned'
  BY <1>5 DEF Touch, MarkedDayIsWarned, Owed, clock
<1>6. ASSUME TimePasses PROVE <<t, today'>> \in warned'
  BY <1>6 DEF TimePasses, MarkedDayIsWarned, Owed
<1>7. ASSUME Midnight PROVE <<t, today'>> \in warned'
  BY <1>7 DEF Midnight, DaysPass
<1>8. ASSUME UNCHANGED vars PROVE <<t, today'>> \in warned'
  BY <1>8 DEF vars, MarkedDayIsWarned, Owed, store, clock
<1> QED BY <1>1, <1>2, <1>3, <1>4, <1>5, <1>6, <1>7, <1>8 DEF Next, Work

-----------------------------------------------------------------------------
(* The account of a day.                                                    *)

\* A part of a finite set counts no more, and less by one if something is missing.
LEMMA PartCounts ==
  ASSUME NEW S, IsFiniteSet(S), NEW T \in SUBSET S
  PROVE  /\ IsFiniteSet(T) /\ Cardinality(S) \in Nat /\ Cardinality(T) \in Nat
         /\ Cardinality(T) <= Cardinality(S)
         /\ \A x \in S : x \notin T => Cardinality(T) + 1 <= Cardinality(S)
<1>1. IsFiniteSet(T) /\ Cardinality(S) \in Nat /\ Cardinality(T) \in Nat
      /\ Cardinality(T) <= Cardinality(S) /\ (Cardinality(S) = Cardinality(T) => S = T)
  BY FS_Subset, FS_CardinalityType
<1> QED BY <1>1

\* One more at the most.
LEMMA OneMoreCounts ==
  ASSUME NEW S, IsFiniteSet(S), NEW x, NEW T \in SUBSET (S \cup {x})
  PROVE  IsFiniteSet(T) /\ Cardinality(T) \in Nat /\ Cardinality(T) <= Cardinality(S) + 1
<1>1. IsFiniteSet(S \cup {x}) /\ Cardinality(S \cup {x}) <= Cardinality(S) + 1
      /\ Cardinality(S) \in Nat
  BY FS_AddElement, FS_CardinalityType
<1> QED BY <1>1, PartCounts

\* The timer's days and marks only go on, so that it is done with a day for good
\* unless a tick run by hand puts another mark, or one of its own writes fails.
LEMMA DoneStays ==
  ASSUME TypeOK, DaysPass, NEW d \in Days, TimerIsDone(d),
         \/ \E k \in Ticks : Wake(k) \/ Judge(k) \/ Emit(k) \/ Flush(k)
         \/ \E k \in Ticks, w \in Windows : ReadWindow(k, w)
         \/ \E k \in Ticks : Mark(k) /\ (k = Timer \/ day[k] = d)
         \/ \E t \in Tasks : Touch(t)
         \/ TimePasses \/ Midnight
         \/ UNCHANGED vars
  PROVE  TimerIsDone(d)'
<1> USE TickAssumption DEF TypeOK, Days, NoDay, Steps, Windows, Goto, TimerIsDone, clock
<1>1. ASSUME NEW k \in Ticks, Wake(k) PROVE TimerIsDone(d)'
  BY <1>1 DEF Wake, DaysPass
<1>2. ASSUME NEW k \in Ticks, Judge(k) \/ Emit(k) \/ Flush(k) PROVE TimerIsDone(d)'
  BY <1>2 DEF Judge, Emit, Flush
<1>3. ASSUME NEW k \in Ticks, NEW w \in Windows, ReadWindow(k, w) PROVE TimerIsDone(d)'
  BY <1>3 DEF ReadWindow
<1>4. ASSUME NEW k \in Ticks, Mark(k), k = Timer \/ day[k] = d PROVE TimerIsDone(d)'
  BY <1>4 DEF Mark
<1>5. ASSUME NEW t \in Tasks, Touch(t) PROVE TimerIsDone(d)'
  BY <1>5 DEF Touch
<1>6. ASSUME TimePasses \/ Midnight \/ UNCHANGED vars PROVE TimerIsDone(d)'
  BY <1>6 DEF TimePasses, Midnight, vars
<1> QED BY <1>1, <1>2, <1>3, <1>4, <1>5, <1>6

\* Who may cost a day something is who might before, but for a tick begun by hand.
LEMMA CostsNoMore ==
  ASSUME TypeOK, NEW d \in Days, NEW k \in Ticks,
         Work(k) \/ TurnFails(k) \/ Crash(k)
  PROVE  Hands' \subseteq Hands /\ MayCost(d)' \subseteq MayCost(d)
<1> USE TickAssumption DEF TypeOK, Steps, Windows, Goto, Hands, MayCost
<1>1. CASE Judge(k) \/ Emit(k) \/ Mark(k) \/ Flush(k) \/ TurnFails(k) \/ Crash(k)
  BY <1>1 DEF Judge, Emit, Mark, Flush, TurnFails, Crash
<1>2. ASSUME NEW w \in Windows, ReadWindow(k, w)
      PROVE  Hands' \subseteq Hands /\ MayCost(d)' \subseteq MayCost(d)
  BY <1>2 DEF ReadWindow
<1> QED BY <1>1, <1>2 DEF Work

LEMMA PaidStep == TypeOK /\ DaysPass /\ Paid /\ [Next]_vars => Paid'
<1> SUFFICES ASSUME TypeOK, DaysPass, Paid, [Next]_vars, NEW d \in Days
             PROVE  /\ IsFiniteSet(Hands')
                    /\ taken'[d] + Cardinality(MayCost(d)') + (IF TimerIsDone(d)' THEN 0 ELSE 1)
                         <= 1 + faults' + byHand'
  <2>1. 1 \in Days
    BY TickAssumption DEF TickAssumption, Days
  <2> QED BY <2>1 DEF Paid
<1> DEFINE Goal ==
      /\ IsFiniteSet(Hands')
      /\ taken'[d] + Cardinality(MayCost(d)') + (IF TimerIsDone(d)' THEN 0 ELSE 1)
           <= 1 + faults' + byHand'
<1>0. /\ taken[d] \in Nat /\ faults \in Nat /\ byHand \in Nat
      /\ IsFiniteSet(Hands) /\ IsFiniteSet(MayCost(d)) /\ Cardinality(MayCost(d)) \in Nat
      /\ taken[d] + Cardinality(MayCost(d)) + (IF TimerIsDone(d) THEN 0 ELSE 1)
           <= 1 + faults + byHand
  <2>1. MayCost(d) \in SUBSET Hands
    BY DEF MayCost
  <2>2. IsFiniteSet(Hands)
    BY DEF Paid
  <2>3. IsFiniteSet(MayCost(d)) /\ Cardinality(MayCost(d)) \in Nat
    BY <2>1, <2>2, PartCounts
  <2> QED BY <2>2, <2>3, TickAssumption DEF Paid, TypeOK
<1>1. ASSUME NEW k \in Ticks, Wake(k) PROVE Goal
  <2>1. TimerIsDone(d) => TimerIsDone(d)'
    BY <1>1, DoneStays
  <2>2. taken' = taken /\ faults' = faults
    BY <1>1 DEF Wake
  <2>3. CASE k = Timer
    <3>1. Hands' = Hands /\ MayCost(d)' = MayCost(d) /\ byHand' = byHand
      BY <1>1, <2>3 DEF Wake, Hands, MayCost, Goto, TypeOK
    <3> QED BY <1>0, <2>1, <2>2, <3>1
  <2>4. CASE k # Timer
    <3>1. Hands' \in SUBSET (Hands \cup {k}) /\ MayCost(d)' \in SUBSET (MayCost(d) \cup {k})
      BY <1>1 DEF Wake, Hands, MayCost, Goto, TypeOK
    <3>2. IsFiniteSet(Hands') /\ Cardinality(MayCost(d)') \in Nat
          /\ Cardinality(MayCost(d)') <= Cardinality(MayCost(d)) + 1
      BY <1>0, <3>1, OneMoreCounts
    <3>3. byHand' = byHand + 1
      BY <1>1, <2>4 DEF Wake
    <3> QED BY <1>0, <2>1, <2>2, <3>2, <3>3
  <2> QED BY <2>3, <2>4
<1>2. ASSUME NEW k \in Ticks, Work(k) \/ TurnFails(k) \/ Crash(k)
      PROVE  /\ IsFiniteSet(Hands') /\ Cardinality(MayCost(d)') \in Nat
             /\ Cardinality(MayCost(d)') <= Cardinality(MayCost(d))
             /\ \A x \in MayCost(d) :
                  x \notin MayCost(d)' => Cardinality(MayCost(d)') + 1 <= Cardinality(MayCost(d))
  BY <1>0, <1>2, CostsNoMore, PartCounts
<1>3. ASSUME NEW k \in Ticks, Judge(k) \/ Flush(k) \/ \E w \in Windows : ReadWindow(k, w)
      PROVE  Goal
  <2>1. TimerIsDone(d) => TimerIsDone(d)'
    BY <1>3, DoneStays
  <2>2. taken' = taken /\ faults' = faults /\ byHand' = byHand
    BY <1>3 DEF Judge, Flush, ReadWindow
  <2> QED BY <1>0, <1>2, <1>3, <2>1, <2>2 DEF Work
<1>4. ASSUME NEW k \in Ticks, Emit(k) PROVE Goal
  <2>1. TimerIsDone(d) => TimerIsDone(d)'
    BY <1>4, DoneStays
  <2>2. faults' = faults /\ byHand' = byHand /\ taken'[d] \in {taken[d], taken[d] + 1}
    BY <1>4 DEF Emit, TypeOK
  <2>3. CASE taken'[d] = taken[d]
    BY <1>0, <1>2, <1>4, <2>1, <2>2, <2>3 DEF Work
  <2>4. CASE taken'[d] # taken[d]
    <3>1. taken'[d] = taken[d] + 1 /\ day[k] = d /\ pc[k] = "emit" /\ pc'[k] = "mark" /\ day' = day
      BY <1>4, <2>2, <2>4 DEF Emit, TypeOK, Goto
    <3>2. CASE k = Timer
      <4>1. ~TimerIsDone(d) /\ TimerIsDone(d)'
        BY <3>1, <3>2 DEF TimerIsDone, TypeOK, Days
      <4> QED BY <1>0, <1>2, <1>4, <2>2, <3>1, <4>1 DEF Work
    <3>3. CASE k # Timer
      <4>1. k \in MayCost(d) /\ k \notin MayCost(d)'
        BY <3>1, <3>3 DEF MayCost, Hands, Windows
      <4> QED BY <1>0, <1>2, <1>4, <2>1, <2>2, <3>1, <4>1 DEF Work
    <3> QED BY <3>2, <3>3
  <2> QED BY <2>3, <2>4
<1>5. ASSUME NEW k \in Ticks, Mark(k) PROVE Goal
  <2>1. taken' = taken /\ faults' = faults /\ byHand' = byHand
    BY <1>5 DEF Mark
  <2>2. CASE k = Timer \/ day[k] = d
    <3>1. TimerIsDone(d) => TimerIsDone(d)'
      BY <1>5, <2>2, DoneStays
    <3> QED BY <1>0, <1>2, <1>5, <2>1, <3>1 DEF Work
  <2>3. CASE k # Timer /\ day[k] # d
    <3>1. k \in MayCost(d) /\ k \notin MayCost(d)'
      BY <1>5, <2>3 DEF Mark, MayCost, Hands, Goto, TypeOK
    <3> QED BY <1>0, <1>2, <1>5, <2>1, <3>1 DEF Work
  <2> QED BY <2>2, <2>3
<1>6. ASSUME NEW k \in Ticks, TurnFails(k) \/ Crash(k) PROVE Goal
  <2>1. taken' = taken /\ faults' = faults + 1 /\ byHand' = byHand
    BY <1>6 DEF TurnFails, Crash
  <2> QED BY <1>0, <1>2, <1>6, <2>1
<1>7. ASSUME (\E t \in Tasks : Touch(t)) \/ TimePasses \/ Midnight \/ UNCHANGED vars PROVE Goal
  <2>1. TimerIsDone(d) => TimerIsDone(d)'
    BY <1>7, DoneStays
  <2>2. taken' = taken /\ faults' = faults /\ byHand' = byHand
        /\ Hands' = Hands /\ MayCost(d)' = MayCost(d)
    BY <1>7 DEF Touch, TimePasses, Midnight, vars, Hands, MayCost
  <2> QED BY <1>0, <2>1, <2>2
<1> QED BY <1>1, <1>3, <1>4, <1>5, <1>6, <1>7 DEF Next, Work

-----------------------------------------------------------------------------
(* What holds.                                                              *)

LEMMA InitIInv == Init => IInv
<1> SUFFICES ASSUME Init PROVE IInv
  OBVIOUS
<1> USE TickAssumption DEF Init, Days, NoDay
<1>1. TypeOK
  BY DEF TypeOK, Steps
<1>2. DaysPass /\ ReadSoFar /\ MarkedDayIsWarned
  BY DEF DaysPass, ReadSoFar, MarkedDayIsWarned
<1>3. Hands = {} /\ \A d \in Days : MayCost(d) = {} /\ taken[d] = 0
  BY DEF Hands, MayCost
<1>4. IsFiniteSet({}) /\ Cardinality({}) = 0
  BY FS_EmptySet
<1>5. faults = 0 /\ byHand = 0
  OBVIOUS
<1>6. ASSUME NEW d \in Days
      PROVE  taken[d] + Cardinality(MayCost(d)) + (IF TimerIsDone(d) THEN 0 ELSE 1)
               <= 1 + faults + byHand
  <2>1. taken[d] = 0 /\ MayCost(d) = {} /\ Cardinality(MayCost(d)) = 0
    BY <1>3, <1>4
  <2>2. (IF TimerIsDone(d) THEN 0 ELSE 1) \in {0, 1}
    OBVIOUS
  <2> QED BY <1>5, <2>1, <2>2
<1>7. IsFiniteSet(Hands)
  BY <1>3, <1>4
<1>8. Paid
  BY <1>6, <1>7 DEF Paid
<1> QED BY <1>1, <1>2, <1>8 DEF IInv

LEMMA Inductive == Spec => []IInv
<1>1. IInv /\ [Next]_vars => IInv'
  BY TypeStep, DaysPassStep, ReadSoFarStep, MarkedStep, PaidStep DEF IInv
<1> QED BY <1>1, InitIInv, PTL DEF Spec

\* The store, the marks and each tick's own variables keep their kinds; a warning on
\* the outbox was put there.
THEOREM TicksAreOfTheirKind == Spec => []TypeOK
<1>1. IInv => TypeOK
  BY DEF IInv
<1> QED BY <1>1, Inductive, PTL

\* once_a_day marks a day by work that was carried out: whatever was owed all day, by
\* its day or by an instant of it, has its warning, for any number of ticks, tasks,
\* instants and midnights between their steps.  The exception is named in the property:
\* a deadline that passes after a tick asked what is overdue and before it asks what is
\* due today is in neither answer.
THEOREM MarkedDaysWereCarriedOut == Spec => []MarkedDayIsWarned
<1>1. IInv => MarkedDayIsWarned
  BY DEF IInv
<1> QED BY <1>1, Inductive, PTL

\* No day is warned about more often than once, once for each fault and once for each
\* tick somebody ran by hand.
THEOREM RepeatsArePaidFor == Spec => []WarnedAgainIsPaidFor
<1>1. IInv => WarnedAgainIsPaidFor
  <2> SUFFICES ASSUME IInv, NEW d \in Days PROVE taken[d] <= 1 + faults + byHand
    BY DEF WarnedAgainIsPaidFor
  <2>1. MayCost(d) \in SUBSET Hands /\ IsFiniteSet(Hands)
    BY DEF MayCost, IInv, Paid
  <2>2. Cardinality(MayCost(d)) \in Nat
    BY <2>1, PartCounts
  <2>3. taken[d] \in Nat /\ faults \in Nat /\ byHand \in Nat
    BY TickAssumption DEF IInv, TypeOK
  <2>4. taken[d] + Cardinality(MayCost(d)) + (IF TimerIsDone(d) THEN 0 ELSE 1)
          <= 1 + faults + byHand
    BY DEF IInv, Paid
  <2> QED BY <2>2, <2>3, <2>4
<1> QED BY <1>1, Inductive, PTL
=============================================================================
