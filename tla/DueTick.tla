------------------------------- MODULE DueTick -------------------------------
(***************************************************************************)
(* The due warning, once a calendar day (tick.rs, due.rs).                 *)
(*                                                                         *)
(* The machine's scheduler wakes Amenbo every hour, and a person may run   *)
(* the same command by hand.  One tick notes the day, reads the day mark,  *)
(* and if the day is not marked reads three windows of due tasks, puts one *)
(* event per task on the outbox in one commit, marks the day, and carries  *)
(* the outbox out.  Every one of those is a transaction of its own: tasks  *)
(* change, the clock goes on, midnight passes, another tick runs and the   *)
(* process dies between any two of them.                                   *)
(*                                                                         *)
(* A task is due on a day or at an instant of one.  A day is kept as the   *)
(* moment after its last instant, which only midnight passes.              *)
(***************************************************************************)
EXTENDS Integers, FiniteSets

CONSTANTS
  Ticks,       \* processes that carry a tick out
  Timer,       \* the one the scheduler wakes for as long as the machine is up
  Tasks,
  LastDay,     \* bound: calendar days
  Moments,     \* bound: instants of a day something may be due at
  Deadlines,   \* those tasks are given in an instance
  MaxFaults,   \* bound: writes that time out and processes that die
  MaxHand      \* bound: ticks a person runs by hand

ASSUME TickAssumption ==
  /\ Timer \in Ticks /\ LastDay \in Nat \ {0} /\ {Moments, MaxFaults, MaxHand} \subseteq Nat
  /\ Deadlines \subseteq [day : 0..(LastDay + 1), at : 0..Moments]

VARIABLES
  today,       \* time::today()
  time,        \* Timestamp::now(), as the instants of the day that are over
  due,         \* task.due_at, and task.due_on as the moment after the last; day 0 for none
  open,        \* the task has not ended
  touched,     \* history: the tasks that changed today
  slipped,     \* history: those whose deadline passed today between two readings of a tick
  mark,        \* store_meta tick.day.due
  pc,          \* where a tick is
  day,         \* the day a tick was run for
  found,       \* the tasks of the windows a tick has read
  standing,    \* warnings on the outbox, as <<task, day run for>>
  warned,      \* history: every warning ever put there
  taken,       \* history: warnings' commits made for a day
  faults,      \* history: timeouts and deaths so far
  byHand       \* history: ticks run by hand so far

clock == <<today, time>>
store == <<due, open, touched, slipped>>
vars == <<clock, store, mark, pc, day, found, standing, warned, taken, faults, byHand>>

Days == 1..LastDay
NoDay == 0
Windows == {"overdue", "today", "tomorrow"}
Steps == Windows \cup {"idle", "judge", "emit", "mark", "flush"}
Warnings == Tasks \X Days

TypeOK ==
  /\ today \in Days /\ time \in 0..Moments
  /\ due \in [Tasks -> Deadlines]
  /\ open \in [Tasks -> BOOLEAN]
  /\ touched \subseteq Tasks /\ slipped \subseteq Tasks
  /\ mark \in Days \cup {NoDay}
  /\ pc \in [Ticks -> Steps]
  /\ day \in [Ticks -> Days \cup {NoDay}]
  /\ found \in [Ticks -> SUBSET Tasks]
  /\ standing \subseteq warned /\ warned \subseteq Warnings
  /\ taken \in [Days -> Nat]
  /\ faults \in 0..MaxFaults /\ byHand \in 0..MaxHand

Init ==
  /\ today = 1 /\ time = 0
  /\ due \in [Tasks -> Deadlines]
  /\ open = [t \in Tasks |-> TRUE]
  /\ touched = {} /\ slipped = {}
  /\ mark = NoDay
  /\ pc = [k \in Ticks |-> "idle"]
  /\ day = [k \in Ticks |-> NoDay]
  /\ found = [k \in Ticks |-> {}]
  /\ standing = {} /\ warned = {}
  /\ taken = [d \in Days |-> 0]
  /\ faults = 0 /\ byHand = 0

\* Its instant is over, though its day is not.
Passed(t) == due[t].day = today /\ due[t].at < time

\* Mutant of InWindow: a deadline at an instant is overdue when its day is over.
InWindowByDay(t, w) ==
  /\ open[t] /\ due[t].day # NoDay
  /\ \/ w = "overdue" /\ due[t].day < today
     \/ w = "today" /\ due[t].day = today /\ ~Passed(t)
     \/ w = "tomorrow" /\ due[t].day = today + 1

\* due_pred: the windows are cut by the clock as it is at the reading, an instant that
\* is over going from "today" to "overdue" within its day.
InWindow(t, w) ==
  /\ open[t] /\ due[t].day # NoDay
  /\ \/ w = "overdue" /\ (due[t].day < today \/ Passed(t))
     \/ w = "today" /\ due[t].day = today /\ ~Passed(t)
     \/ w = "tomorrow" /\ due[t].day = today + 1

-----------------------------------------------------------------------------
(* One tick.                                                               *)

Goto(k, step) == pc' = [pc EXCEPT ![k] = step]

\* Mutant of Wake: the day asked about is tomorrow's.
WakeForTomorrow(k) ==
  /\ pc[k] = "idle"
  /\ day' = [day EXCEPT ![k] = today + 1]
  /\ Goto(k, "judge")
  /\ UNCHANGED <<clock, store, mark, found, standing, warned, taken, faults, byHand>>

\* tick_run_cmd: the day is read once, before anything else.
Wake(k) ==
  /\ pc[k] = "idle"
  /\ k # Timer => byHand < MaxHand
  /\ byHand' = IF k = Timer THEN byHand ELSE byHand + 1
  /\ day' = [day EXCEPT ![k] = today]
  /\ Goto(k, "judge")
  /\ UNCHANGED <<clock, store, mark, found, standing, warned, taken, faults>>

\* Mutant of Judge: a tick that finds nothing owed goes home at once.
JudgeAndGoHome(k) ==
  /\ pc[k] = "judge"
  /\ Goto(k, IF mark = day[k] THEN "idle" ELSE "overdue")
  /\ UNCHANGED <<clock, store, mark, day, found, standing, warned, taken, faults, byHand>>

\* Mutant of Judge: the turn is counted per wake-up.
JudgeEveryWake(k) ==
  /\ pc[k] = "judge"
  /\ Goto(k, "overdue")
  /\ UNCHANGED <<clock, store, mark, day, found, standing, warned, taken, faults, byHand>>

\* once_a_day: the mark is compared for equality with the day asked about.
Judge(k) ==
  /\ pc[k] = "judge"
  /\ Goto(k, IF mark = day[k] THEN "flush" ELSE "overdue")
  /\ UNCHANGED <<clock, store, mark, day, found, standing, warned, taken, faults, byHand>>

\* due_in, once per window, each a query of its own that asks the clock anew.
ReadWindow(k, w) ==
  /\ pc[k] = w
  /\ found' = [found EXCEPT ![k] = @ \cup {t \in Tasks : InWindow(t, w)}]
  /\ Goto(k, CASE w = "overdue" -> "today" [] w = "today" -> "tomorrow" [] OTHER -> "emit")
  /\ UNCHANGED <<clock, store, mark, day, standing, warned, taken, faults, byHand>>

\* emit: one commit for the whole day, and none when there is nothing to say.
Emit(k) ==
  LET rows == found[k] \X {day[k]} IN
  /\ pc[k] = "emit"
  /\ standing' = standing \cup rows
  /\ warned' = warned \cup rows
  /\ taken' = IF rows = {} THEN taken ELSE [taken EXCEPT ![day[k]] = @ + 1]
  /\ found' = [found EXCEPT ![k] = {}]
  /\ Goto(k, "mark")
  /\ UNCHANGED <<clock, store, mark, day, faults, byHand>>

\* mark_tick_day: whatever stood there is replaced.
Mark(k) ==
  /\ pc[k] = "mark"
  /\ mark' = day[k]
  /\ Goto(k, "flush")
  /\ UNCHANGED <<clock, store, day, found, standing, warned, taken, faults, byHand>>

\* Mutant of TurnFails: the day is marked although the write did not land.
TurnFailsMarked(k) ==
  /\ pc[k] \in {"emit", "mark"}
  /\ faults < MaxFaults
  /\ faults' = faults + 1
  /\ mark' = day[k]
  /\ found' = [found EXCEPT ![k] = {}]
  /\ Goto(k, "flush")
  /\ UNCHANGED <<clock, store, day, standing, warned, taken, byHand>>

\* Either write may time out on the lock.  That stops the purpose, marks
\* nothing, and the tick goes on to carry the outbox out.
TurnFails(k) ==
  /\ pc[k] \in {"emit", "mark"}
  /\ faults < MaxFaults
  /\ faults' = faults + 1
  /\ found' = [found EXCEPT ![k] = {}]
  /\ Goto(k, "flush")
  /\ UNCHANGED <<clock, store, mark, day, standing, warned, taken, byHand>>

\* flush_delivery, in this process, whether or not anything was said.
Flush(k) ==
  /\ pc[k] = "flush"
  /\ standing' = {}
  /\ Goto(k, "idle")
  /\ UNCHANGED <<clock, store, mark, day, found, warned, taken, faults, byHand>>

\* The process dies between two of its steps.
Crash(k) ==
  /\ pc[k] # "idle"
  /\ faults < MaxFaults
  /\ faults' = faults + 1
  /\ found' = [found EXCEPT ![k] = {}]
  /\ Goto(k, "idle")
  /\ UNCHANGED <<clock, store, mark, day, standing, warned, taken, byHand>>

-----------------------------------------------------------------------------
(* The world around it.                                                    *)

\* A person or an AI moves the deadline, ends the task or opens it again.
Touch(t) ==
  /\ \/ \E d \in Deadlines \ {due[t]} : due' = [due EXCEPT ![t] = d] /\ open' = open
     \/ open' = [open EXCEPT ![t] = ~@] /\ due' = due
  /\ touched' = touched \cup {t}
  /\ UNCHANGED <<clock, slipped, mark, pc, day, found, standing, warned, taken, faults, byHand>>

\* Some tick of the day has asked what is overdue and not yet what is due today.
BetweenWindows == \E k \in Ticks : pc[k] = "today" /\ day[k] = today

TimePasses ==
  /\ time < Moments
  /\ time' = time + 1
  /\ slipped' = slipped \cup
       {t \in Tasks : due[t] = [day |-> today, at |-> time] /\ BetweenWindows}
  /\ UNCHANGED <<today, due, open, touched, mark, pc, day, found, standing, warned, taken,
                 faults, byHand>>

Midnight ==
  /\ today < LastDay
  /\ today' = today + 1 /\ time' = 0
  /\ touched' = {} /\ slipped' = {}
  /\ UNCHANGED <<due, open, mark, pc, day, found, standing, warned, taken, faults, byHand>>

Work(k) == Judge(k) \/ (\E w \in Windows : ReadWindow(k, w)) \/ Emit(k) \/ Mark(k) \/ Flush(k)

Next ==
  \/ \E k \in Ticks : Wake(k) \/ Work(k) \/ TurnFails(k) \/ Crash(k)
  \/ \E t \in Tasks : Touch(t)
  \/ TimePasses \/ Midnight

Spec == Init /\ [][Next]_vars

\* The scheduler wakes the timer again and again, and a process that is not
\* killed goes on; nothing makes a day end, or a person run a tick.
FairSpec ==
  /\ Spec
  /\ WF_vars(Wake(Timer))
  /\ \A k \in Ticks : WF_vars(Work(k))

-----------------------------------------------------------------------------
(* What must hold.                                                         *)

\* Open and due by tomorrow, and unchanged since the day began.
Owed(t) == open[t] /\ due[t].day \in 1..(today + 1) /\ t \notin touched

\* A day that is marked was carried out: whatever was owed all day has its
\* warning, however ticks, deaths and midnights interleaved ("the day is
\* marked by work that was carried out, never by work that was attempted").
\* Its instant going by takes no task out of the windows, unless it goes by
\* between a tick's readings of two of them.
MarkedDayIsWarned ==
  mark = today => \A t \in Tasks : Owed(t) /\ t \notin slipped => <<t, today>> \in warned

\* What due.rs says of the day's warning, "one event on the outbox per task
\* whose day has come or is coming", without that exception.
EveryDueTaskIsNamed ==
  mark = today => \A t \in Tasks : Owed(t) => <<t, today>> \in warned

\* A day is warned about once.  Each time too many is paid for by a write
\* that failed or a process that died, or by a tick run by hand, which may
\* have read the mark before the timer's replaced it.
WarnedAgainIsPaidFor == \A d \in Days : taken[d] <= 1 + faults + byHand

\* What is owed is warned about before the day is over, if the machine stays
\* up, nobody changes the task and its deadline does not slip between two
\* windows: a failed turn is taken again.
OwedIsWarned ==
  \A t \in Tasks, d \in Days :
    today = d /\ Owed(t) ~> <<t, d>> \in warned \/ today # d \/ t \in touched \cup slipped

\* What a tick left standing when it died is carried by a later one, though
\* that one finds the day already marked.
WarningsAreCarried == standing # {} ~> standing = {}
=============================================================================
