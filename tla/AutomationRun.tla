---------------------------- MODULE AutomationRun ----------------------------
(***************************************************************************)
(* The runs of one automation and the tasks they work (automation_run.rs,  *)
(* automation_step.rs, automation_report.rs, automation_stop.rs, and the   *)
(* watch of the app, automation_watch.rs).                                 *)
(*                                                                         *)
(* A run walks the picture it copied at launch: a built-in takes a task,   *)
(* agents work it, a built-in closes it or hands it back, and the run goes *)
(* round.  Where it stands is derived from its last step, never stored.    *)
(* The store is one variable: a transaction of the code is a function from *)
(* store to store.  The watch reads where a run stands in one transaction  *)
(* and opens the step in another; people, sessions and agents write in     *)
(* between.                                                                *)
(***************************************************************************)
EXTENDS Integers, FiniteSets

CONSTANTS
  Runs,          \* run ids, in the order the store gives them out
  Tasks, NoTask,
  Spots,         \* copies of the picture's steps
  Entry,         \* where a round starts
  Kind,          \* "take", "agent", "close" or "hand_back", per spot
  ActionOf,      \* the action a spot belongs to
  OneAtATime,    \* the actions that take one run at a time
  Exits,         \* ways out: "done" and "error" among them
  Line,          \* what follows a way out: [ends, to, stays, limit]
  MaxConcurrent, \* the automation's max_concurrent_runs
  MaxOutside     \* bound: what people, sessions and restarts do beside the run

ASSUME RunAssumption ==
  /\ Runs \subseteq Nat /\ IsFiniteSet(Runs)
  /\ NoTask \notin Tasks \cup Runs
  /\ {"nowhere", "nothing"} \cap Spots = {}
  /\ Entry \in Spots /\ Kind[Entry] = "take"
  /\ Kind \in [Spots -> {"take", "agent", "close", "hand_back"}]
  /\ Line \in [Spots -> [Exits -> [ends : {"go", "done", "halt"}, to : Spots,
                                   stays : BOOLEAN, limit : Nat]]]
  /\ {"done", "error"} \subseteq Exits
  /\ MaxConcurrent \in Nat /\ MaxOutside \in Nat

\* lets_go_of_the_task.
LetGo == {spot \in Spots : Kind[spot] \in {"close", "hand_back"}}

\* What the walk of leaves_task_open stays within: from a take on, through
\* these spots, no line comes to another take before the task is let go of.
HoldsOn(Keep) ==
  /\ \A spot \in Keep : Kind[spot] = "agent"
  /\ \A spot \in Spots, exit \in Exits :
       /\ spot \in Keep \/ (Kind[spot] = "take" /\ exit = "done")
       /\ Line[spot][exit].ends = "go"
       => Line[spot][exit].to \in Keep \cup LetGo

\* A launch refuses a picture that leaves a task open.  A line stays where it
\* goes on to another step of its own action, and a built-in's action has the
\* one step and none added to it (rewritable, in automation.rs).
ASSUME PictureAssumption ==
  /\ \E Keep \in SUBSET Spots : HoldsOn(Keep)
  /\ \A spot \in Spots, exit \in Exits :
       LET line == Line[spot][exit] IN
       line.ends = "go" /\ line.stays
         => ActionOf[line.to] = ActionOf[spot] /\ Kind[line.to] = "agent"

VARIABLES
  store,         \* runs, tasks and the automation's own flags
  looking,       \* the watch's last look: the run, where it stood, whether a newer version
                 \* was asked for since, and whether somebody else replaced its copy
  outside        \* history: how often anybody but the runs has acted

vars == <<store, looking, outside>>

Nowhere == "nowhere"        \* Waiting::NoWayOn
Nothing == "nothing"        \* Waiting::Nothing, and no step yet
Nobody == [run |-> -1, next |-> Nothing, asked |-> FALSE, old |-> FALSE]
Session == -1               \* whoever reserves a task and is not a run

\* The lines that may be taken only so often within one stretch.
Back == {x \in Spots \X Exits : Line[x[1]][x[2]].limit > 0}

NoRun ==
  [status |-> "none", asked |-> FALSE, before |-> FALSE, kind |-> "none",
   at |-> Nothing, st |-> "none", exit |-> "none", fresh |-> TRUE,
   task |-> NoTask, open |-> FALSE, turns |-> [x \in Back |-> 0],
   arrived |-> 0, newer |-> FALSE]

RunRecord ==
  [status : {"none", "running", "paused", "completed", "failed", "canceled"},
   asked : BOOLEAN, before : BOOLEAN, kind : {"none", "end", "before"},
   at : Spots \cup {Nothing}, st : {"none", "running", "done"},
   exit : Exits \cup {"none"}, fresh : BOOLEAN,
   task : Tasks \cup {NoTask}, open : BOOLEAN, turns : [Back -> Nat],
   arrived : Nat, newer : BOOLEAN]

TaskRecord ==
  [status : {"todo", "in_progress", "done"}, holder : Runs \cup {Session, NoTask},
   filed : BOOLEAN, human : BOOLEAN]

TypeOK ==
  /\ store \in [run : [Runs -> RunRecord], task : [Tasks -> TaskRecord],
                stopped : BOOLEAN, waits : BOOLEAN]
  /\ looking \in [run : Runs \cup {-1}, next : Spots \cup {Nowhere, Nothing},
                 asked : BOOLEAN, old : BOOLEAN]
  /\ \A r \in Runs : LET x == store.run[r] IN
       /\ x.status = "paused" <=> x.kind # "none"
       /\ x.asked \/ x.before => x.status = "running"
  /\ outside \in 0..MaxOutside

Init ==
  /\ store = [run |-> [r \in Runs |-> NoRun],
              task |-> [t \in Tasks |-> [status |-> "todo", holder |-> NoTask,
                                         filed |-> FALSE, human |-> FALSE]],
              stopped |-> FALSE, waits |-> FALSE]
  /\ looking = Nobody
  /\ outside = 0

-----------------------------------------------------------------------------
(* Where a run stands: read off its last step and its copy.                *)

Live(s, r) == s.run[r].status \in {"running", "paused"}
UnderWay(s) == {r \in Runs : Live(s, r)}
LastLine(x) == Line[x.at][x.exit]

\* goes_round: the step's stretch held a task, and that task is closed now.
GoesRound(s, r) ==
  LET t == s.run[r].task IN t # NoTask /\ s.task[t].status = "done" /\ Kind[Entry] = "take"

\* next_def.
NextSpot(s, r) ==
  LET x == s.run[r]
      asks == x.status = "running" /\ x.st # "running"
      round == LastLine(x).ends = "done" /\ GoesRound(s, r) IN
  CASE ~asks -> Nothing
    [] asks /\ x.fresh -> Entry
    [] asks /\ ~x.fresh /\ LastLine(x).ends = "go" -> LastLine(x).to
    [] asks /\ ~x.fresh /\ round -> Entry
    [] asks /\ ~x.fresh /\ LastLine(x).ends # "go" /\ ~round -> Nowhere

\* action_held_by: its last step is under way, or left by a line that stays inside.
Inside(s, r) ==
  LET x == s.run[r] IN
  ~x.fresh /\ (x.st = "running" \/ (LastLine(x).ends = "go" /\ LastLine(x).stays))

\* What the built-in that takes a task may reserve: todo, ready, and the AI's.
Takeable(s) ==
  {t \in Tasks : s.task[t].status = "todo" /\ ~s.task[t].filed /\ ~s.task[t].human}

\* automation_builtin::waiting, of a take set to wait.
Waits(s, spot) == Kind[spot] = "take" /\ Takeable(s) = {}

\* A run standing before an action that takes one at a time, and ready to go in.
InLine(s, r, a) ==
  LET spot == NextSpot(s, r) IN
  spot \in Spots /\ ActionOf[spot] = a /\ a \in OneAtATime /\ ~Inside(s, r) /\ ~Waits(s, spot)

\* Mutant of CameFirst: a run arrived in the same second counts as ahead.
CameFirstOrTogether(s, q, r) == s.run[q].arrived <= s.run[r].arrived

\* (arrived, id), in that order.
CameFirst(s, q, r) ==
  \/ s.run[q].arrived < s.run[r].arrived
  \/ s.run[q].arrived = s.run[r].arrived /\ q < r

\* A paused run still holds the action it is inside of, unless it starts afresh.
HoldsAction(s, q, a) ==
  /\ Live(s, q) /\ s.run[q].kind # "before"
  /\ Inside(s, q) /\ ActionOf[s.run[q].at] = a

\* Mutant of Behind: between two of its steps a run does not keep its action.
BehindAtWork(s, r, spot) ==
  LET a == ActionOf[spot] IN
  IF a \notin OneAtATime \/ Inside(s, r) THEN {}
  ELSE {q \in Runs \ {r} : (HoldsAction(s, q, a) /\ s.run[q].st = "running")
                            \/ (InLine(s, q, a) /\ CameFirst(s, q, r))}

\* room_for: the runs this one waits behind before it opens the spot.
Behind(s, r, spot) ==
  LET a == ActionOf[spot] IN
  IF a \notin OneAtATime \/ Inside(s, r) THEN {}
  ELSE {q \in Runs \ {r} : HoldsAction(s, q, a) \/ (InLine(s, q, a) /\ CameFirst(s, q, r))}

\* left_open: the task of the stretch under way is still in progress.
LeftOpen(s, r) ==
  LET x == s.run[r] IN x.open /\ x.task # NoTask /\ s.task[x.task].status = "in_progress"

-----------------------------------------------------------------------------
(* The pieces the transactions are made of.                                *)

\* Seconds are all that is kept of a time, so a run that comes to stand
\* somewhere is later than every other or shares the latest second.  Only
\* the order is kept, among the runs under way.
Arrived(s, r, later) ==
  LET others == {s.run[q].arrived : q \in UnderWay(s) \ {r}}
      latest == CHOOSE n \in others \cup {0} : \A m \in others : m <= n
      mine == IF others = {} THEN 0 ELSE latest + later
      rank(n) == Cardinality({m \in others \cup {mine} : m < n}) IN
  [s EXCEPT !.run = [q \in Runs |->
    [s.run[q] EXCEPT !.arrived = IF q = r THEN rank(mine) ELSE IF Live(s, q) THEN rank(@) ELSE 0]]]

\* Mutant of Settle: what the run was asked is not taken off it.
SettleAsked(s, r, kind) ==
  [s EXCEPT !.run[r] = [@ EXCEPT !.status = "paused", !.kind = kind]]

\* settle.
Settled(x, kind) ==
  [x EXCEPT !.status = "paused", !.asked = FALSE, !.before = FALSE, !.kind = kind]
Settle(s, r, kind) == [s EXCEPT !.run[r] = Settled(@, kind)]

\* hand_the_task_back, of a task still in the stretch: out of in_progress,
\* then waiting on the filed failure or given to the human; a closed one is left.
HandedBack(task, ending) ==
  IF task.status = "done" THEN task
  ELSE [task EXCEPT !.status = "todo", !.holder = NoTask,
                    !.filed = @ \/ ending = "failed", !.human = @ \/ ending = "canceled"]

\* Mutant of Ended: the run is over and its task stays reserved.
EndedHolding(s, r, ending) ==
  [s EXCEPT !.run[r] = [NoRun EXCEPT !.status = ending]]

\* ended: every way a run can end.  Its step and its stretch are closed with
\* it, and nothing reads them again, so they are not kept.
Ended(s, r, ending) ==
  LET x == s.run[r]
      as == IF ending = "completed" /\ LeftOpen(s, r) THEN "failed" ELSE ending
      over == [s EXCEPT !.run[r] = [NoRun EXCEPT !.status = as]] IN
  IF as # "completed" /\ x.open /\ x.task # NoTask
  THEN [over EXCEPT !.task[x.task] = HandedBack(@, as)]
  ELSE over

\* round_over.
RoundOver(s, r) ==
  LET closed == [s EXCEPT !.run[r].open = FALSE] IN
  IF s.run[r].asked \/ s.run[r].before \/ s.stopped THEN Settle(closed, r, "before") ELSE closed

\* over_its_turns: the report just made is counted.
OverItsTurns(x) == <<x.at, x.exit>> \in Back /\ x.turns[<<x.at, x.exit>>] > LastLine(x).limit

\* Mutant of WhatsNext: the pause before the next task takes hold at the end of any action.
WhatsNextEitherPause(s, r) ==
  LET x == s.run[r] line == LastLine(x) IN
  CASE line.ends = "done" /\ GoesRound(s, r) -> RoundOver(s, r)
    [] line.ends = "done" /\ ~GoesRound(s, r) -> Ended(s, r, "completed")
    [] line.ends = "halt" -> Ended(s, r, "failed")
    [] line.ends = "go" /\ OverItsTurns(x) -> Ended(s, r, "failed")
    [] line.ends = "go" /\ ~OverItsTurns(x) /\ (x.asked \/ x.before) /\ ~line.stays -> Settle(s, r, "before")
    [] OTHER -> s

\* Mutant of WhatsNext: a pause takes hold between two steps of an action.
WhatsNextAnywhere(s, r) ==
  LET x == s.run[r] line == LastLine(x) IN
  CASE line.ends = "done" /\ GoesRound(s, r) -> RoundOver(s, r)
    [] line.ends = "done" /\ ~GoesRound(s, r) -> Ended(s, r, "completed")
    [] line.ends = "halt" -> Ended(s, r, "failed")
    [] line.ends = "go" /\ OverItsTurns(x) -> Ended(s, r, "failed")
    [] line.ends = "go" /\ ~OverItsTurns(x) /\ x.asked -> Settle(s, r, "end")
    [] OTHER -> s

\* whats_next.
WhatsNext(s, r) ==
  LET x == s.run[r] line == LastLine(x) IN
  CASE line.ends = "done" /\ GoesRound(s, r) -> RoundOver(s, r)
    [] line.ends = "done" /\ ~GoesRound(s, r) -> Ended(s, r, "completed")
    [] line.ends = "halt" -> Ended(s, r, "failed")
    [] line.ends = "go" /\ OverItsTurns(x) -> Ended(s, r, "failed")
    [] line.ends = "go" /\ ~OverItsTurns(x) /\ x.asked /\ ~line.stays -> Settle(s, r, "end")
    [] OTHER -> s

\* done: the way out is written down and the copy is asked what follows.
Done(s, r, exit, later) ==
  LET x == s.run[r]
      reported == [x EXCEPT !.st = "done", !.exit = exit,
                            !.turns = [y \in Back |-> IF y = <<x.at, exit>> THEN @[y] + 1 ELSE @[y]]] IN
  WhatsNext(Arrived([s EXCEPT !.run[r] = reported], r, later), r)

\* new_stretch (for the step that takes a task) and new_execution.
Opened(s, r, spot, old) ==
  LET step == [s.run[r] EXCEPT !.at = spot, !.st = "running", !.exit = "none", !.fresh = old] IN
  [s EXCEPT !.run[r] = IF Kind[spot] = "take"
     THEN [step EXCEPT !.task = NoTask, !.open = TRUE, !.turns = [y \in Back |-> 0]]
     ELSE step]

\* copy_down, onto a run picked up again or taking up a newer version.
CopiedAgain(s, r, later) ==
  Arrived([s EXCEPT !.run[r] = [@ EXCEPT !.fresh = TRUE, !.newer = FALSE]], r, later)

-----------------------------------------------------------------------------
(* A run starts.                                                           *)

\* Mutant of Room: a paused run is not counted.
RoomAmongRunning(s) == Cardinality({r \in Runs : s.run[r].status = "running"}) < MaxConcurrent

Room(s) == Cardinality(UnderWay(s)) < MaxConcurrent

Launched(s, r, later) ==
  Arrived([s EXCEPT !.run[r] = [NoRun EXCEPT !.status = "running"]], r, later)

NextId(r) == store.run[r].status = "none" /\ \A q \in Runs : q < r => store.run[q].status # "none"

\* start: with no task to take the automation waits in the run's place.
Launch(r) ==
  /\ ~store.stopped /\ Room(store)
  /\ \/ Waits(store, Entry) /\ store' = [store EXCEPT !.waits = TRUE]
     \/ /\ ~Waits(store, Entry) /\ NextId(r)
        /\ \E later \in {0, 1} : store' = Launched(store, r, later)
  /\ UNCHANGED looking

\* start_waiting: the watch, once a task has turned up.
StartWaiting(r) ==
  /\ store.waits /\ ~store.stopped /\ Room(store) /\ ~Waits(store, Entry) /\ NextId(r)
  /\ \E later \in {0, 1} : store' = [Launched(store, r, later) EXCEPT !.waits = FALSE]
  /\ UNCHANGED looking

-----------------------------------------------------------------------------
(* The watch: one read, and a write for what it found.                     *)

Look(r) ==
  /\ looking = Nobody /\ NextSpot(store, r) # Nothing
  /\ looking' = [run |-> r, next |-> NextSpot(store, r), asked |-> FALSE, old |-> FALSE]
  /\ UNCHANGED store

Looked(r, spot) == looking.run = r /\ looking.next = spot
LookedAway == looking' = Nobody

\* take_up_newer: asks again where the run stands; a version that does not
\* pass, or an automation a person stopped, fails the run.
TakeUp(r) ==
  LET newer == store.run[r].newer /\ NextSpot(store, r) = Entry IN
  /\ Looked(r, Entry) /\ ~looking.asked
  /\ \/ ~newer /\ looking' = [looking EXCEPT !.asked = TRUE] /\ UNCHANGED store
     \/ /\ newer /\ ~store.stopped
        /\ \E later \in {0, 1} : store' = CopiedAgain(store, r, later)
        /\ looking' = [looking EXCEPT !.asked = TRUE, !.old = FALSE]
     \/ newer /\ store' = Ended(store, r, "failed") /\ LookedAway

\* Mutant of PausesHere: only the end of a round asks whether the automation was stopped.
PausesHereAsked(s, r, spot) == Kind[spot] = "take" /\ s.run[r].before

\* A run asked to pause before its next task, or whose automation is stopped.
PausesHere(s, r, spot) == Kind[spot] = "take" /\ (s.run[r].before \/ s.stopped)

\* The step is opened; a built-in is carried out and reports in the same transaction.
GoIn(r, spot) ==
  LET s == Opened(store, r, spot, looking.old)
      t == s.run[r].task IN
  \/ Kind[spot] = "agent" /\ store' = s
  \/ /\ Kind[spot] = "take"
     /\ \E u \in Takeable(s), later \in {0, 1} :
          store' = Done([s EXCEPT !.task[u] = [@ EXCEPT !.status = "in_progress", !.holder = r],
                                  !.run[r].task = u], r, "done", later)
  \/ /\ Kind[spot] = "close" /\ t # NoTask
     /\ \E later \in {0, 1} :
          store' = Done([s EXCEPT !.task[t] = [@ EXCEPT !.status = "done", !.holder = NoTask]], r, "done", later)
  \/ /\ Kind[spot] = "hand_back" /\ t # NoTask
     /\ \E later \in {0, 1} :
          store' = Done(IF s.task[t].status = "done" THEN s
                        ELSE [s EXCEPT !.task[t] = HandedBack(@, "canceled"), !.run[r].open = FALSE],
                        r, "done", later)

\* open_as, check by check, of the step the watch found however long ago.
Open(r, spot) ==
  LET s == store
      x == store.run[r] IN
  /\ Looked(r, spot)
  /\ spot = Entry => looking.asked
  /\ LookedAway
  /\ \/ x.status # "running" /\ UNCHANGED store
     \/ /\ x.status = "running" /\ Kind[spot] = "agent"
        /\ store' = Ended(s, r, "failed")                                    \* NoAgent, or an input nothing reached
     \/ /\ x.status = "running" /\ Kind[spot] = "take" /\ LeftOpen(s, r)
        /\ store' = Ended(s, r, "failed")                                    \* LeftTaskOpen
     \/ /\ x.status = "running" /\ ~(Kind[spot] = "take" /\ LeftOpen(s, r))
        /\ \/ PausesHere(s, r, spot) /\ store' = Settle(s, r, "before")
           \/ /\ ~PausesHere(s, r, spot)
              /\ \/ /\ Waits(s, spot) /\ x.asked
                    /\ store' = Settle(s, r, "end")
                 \/ /\ Waits(s, spot) /\ ~x.asked                            \* wait_for_a_task
                    /\ store' = [Ended(s, r, "completed") EXCEPT !.waits = TRUE]
                 \/ /\ ~Waits(s, spot) /\ Behind(s, r, spot) # {}            \* WaitsForRoom
                    /\ store' = IF x.asked THEN Settle(s, r, "end") ELSE s
                 \/ /\ ~Waits(s, spot) /\ Behind(s, r, spot) = {}
                    /\ GoIn(r, spot)

\* give_up: the watch ends a run that has nowhere to go, as it found it.
GiveUp(r) ==
  /\ Looked(r, Nowhere)
  /\ store' = IF Live(store, r) THEN Ended(store, r, "failed") ELSE store
  /\ LookedAway

-----------------------------------------------------------------------------
(* The agent of a step, and the app it runs in.                            *)

StepDone(r, exit) ==
  /\ Live(store, r) /\ store.run[r].st = "running"
  /\ \E later \in {0, 1} : store' = Done(store, r, exit, later)
  /\ UNCHANGED looking

\* step_ended: the program is gone and the step had not reported.
StepEnded(r) ==
  /\ Live(store, r) /\ store.run[r].st = "running"
  /\ store' = Ended(store, r, "failed")
  /\ UNCHANGED looking

\* sweep, as the app comes up again: every running run fails, in one
\* transaction.  What is handed back by one is there handed back for the next.
Restart ==
  LET caught == {r \in Runs : store.run[r].status = "running"}
      left(t) == \E r \in caught : store.run[r].open /\ store.run[r].task = t IN
  /\ store' = [store EXCEPT
       !.run = [r \in Runs |-> IF r \in caught THEN [NoRun EXCEPT !.status = "failed"] ELSE @[r]],
       !.task = [t \in Tasks |-> IF left(t) THEN HandedBack(@[t], "failed") ELSE @[t]]]
  /\ LookedAway

-----------------------------------------------------------------------------
(* People at the run.                                                      *)

WaitsForRoom(s, r) ==
  LET spot == NextSpot(s, r) IN spot \in Spots /\ ~Waits(s, spot) /\ Behind(s, r, spot) # {}

\* pause.
Pause(r) ==
  /\ store.run[r].status = "running" /\ ~store.run[r].asked
  /\ store' = IF WaitsForRoom(store, r) THEN Settle(store, r, "end")
              ELSE [store EXCEPT !.run[r].asked = TRUE]
  /\ UNCHANGED looking

\* waits_to_take_a_task.
WaitsToTake(s, r) ==
  LET spot == NextSpot(s, r) IN
  spot \in Spots /\ Kind[spot] = "take" /\ (Waits(s, spot) \/ WaitsForRoom(s, r))

\* pause_run_before_next_task.
PauseBeforeNextTask(r) ==
  /\ store.run[r].status = "running" /\ ~store.run[r].asked /\ ~store.run[r].before
  /\ store' = IF WaitsToTake(store, r) THEN Settle(store, r, "before")
              ELSE [store EXCEPT !.run[r].before = TRUE]
  /\ UNCHANGED looking

AllSettled(s, P) ==
  [s EXCEPT !.run = [r \in Runs |-> IF r \in P THEN Settled(@[r], "before") ELSE @[r]]]

\* automation::stop and pause_the_waiting: the runs P pause, each asked in its
\* turn of the store the ones before it left.
StopAutomation ==
  LET stopped == [store EXCEPT !.stopped = TRUE, !.waits = FALSE] IN
  /\ ~store.stopped
  /\ \E P \in SUBSET Runs :
       /\ \A r \in Runs : r \in P <=> WaitsToTake(AllSettled(stopped, {q \in P : q < r}), r)
       /\ store' = AllSettled(stopped, P)
  /\ UNCHANGED looking

StartAutomation ==
  /\ store.stopped
  /\ store' = [store EXCEPT !.stopped = FALSE]
  /\ UNCHANGED looking

\* next_after_the_pause.
GoesOn(s, r) ==
  LET x == s.run[r] IN x.at = Nothing \/ (x.exit # "none" /\ LastLine(x).ends = "go")

\* resume.  Refused, the transaction takes nothing with it.
Resume(r) ==
  LET s == [store EXCEPT !.run[r].status = "running", !.run[r].kind = "none"] IN
  /\ store.run[r].status = "paused"
  /\ \/ /\ store.run[r].kind = "before" /\ ~store.stopped
        /\ \E later \in {0, 1} : store' = CopiedAgain(s, r, later)
        /\ looking' = [looking EXCEPT !.old = @ \/ looking.run = r]
     \/ /\ store.run[r].kind = "end" /\ GoesOn(store, r)
        /\ store' = s
        /\ UNCHANGED looking

\* stop_waiting.
StopWaiting == store.waits /\ store' = [store EXCEPT !.waits = FALSE] /\ UNCHANGED looking

\* cancel of a paused run, stop (the force-cancel) of any.
Cancel(r) ==
  /\ Live(store, r)
  /\ store' = Ended(store, r, "canceled")
  /\ UNCHANGED looking

\* A version is saved that the runs under way have not copied.
Save ==
  /\ \E r \in Runs : Live(store, r) /\ ~store.run[r].newer
  /\ store' = [store EXCEPT !.run = [r \in Runs |-> [@[r] EXCEPT !.newer = Live(store, r)]]]
  /\ UNCHANGED looking

-----------------------------------------------------------------------------
(* Sessions and people at the tasks.                                       *)

Becomes(t, change) == store' = [store EXCEPT !.task[t] = change] /\ UNCHANGED looking

\* set_status to in_progress is refused unless the task is todo and ready.
Reserve(t) ==
  /\ store.task[t].status = "todo" /\ ~store.task[t].filed
  /\ Becomes(t, [store.task[t] EXCEPT !.status = "in_progress", !.holder = Session])

\* Released, reopened or closed, whoever had it.
SetStatus(t, status) ==
  /\ store.task[t].status # status
  /\ Becomes(t, [store.task[t] EXCEPT !.status = status, !.holder = NoTask])

GiveToTheAi(t) == store.task[t].human /\ Becomes(t, [store.task[t] EXCEPT !.human = FALSE])

\* The failures filed on the task are closed.
SettleFailure(t) == store.task[t].filed /\ Becomes(t, [store.task[t] EXCEPT !.filed = FALSE])

-----------------------------------------------------------------------------

Watch(r) == Look(r) \/ TakeUp(r) \/ (\E spot \in Spots : Open(r, spot)) \/ GiveUp(r)

\* The runs carrying themselves.
Carry ==
  \E r \in Runs :
    \/ Launch(r) \/ StartWaiting(r) \/ Watch(r)
    \/ (\E exit \in Exits : StepDone(r, exit)) \/ StepEnded(r)

\* Everybody else.
Outside ==
  \/ \E r \in Runs : Pause(r) \/ PauseBeforeNextTask(r) \/ Resume(r) \/ Cancel(r)
  \/ StopAutomation \/ StartAutomation \/ StopWaiting \/ Save \/ Restart
  \/ \E t \in Tasks :
       Reserve(t) \/ SetStatus(t, "todo") \/ SetStatus(t, "done") \/ GiveToTheAi(t) \/ SettleFailure(t)

Next ==
  \/ Carry /\ UNCHANGED outside
  \/ outside < MaxOutside /\ outside' = outside + 1 /\ Outside

Spec == Init /\ [][Next]_vars

-----------------------------------------------------------------------------
(* What must hold.                                                         *)

\* "An action that takes one run at a time" has one run inside it, paused
\* ones counted, whoever looked before whom opened the step.
OneInside ==
  \A a \in OneAtATime : Cardinality({r \in Runs : HoldsAction(store, r, a)}) <= 1

\* The line before an empty action moves: the runs in it never all wait
\* behind one another, though their times are kept in whole seconds.
LineMoves ==
  \A a \in OneAtATime :
    LET line == {r \in Runs : InLine(store, r, a)} IN
    line # {} /\ (\A q \in Runs : ~HoldsAction(store, q, a))
      => \E r \in line : Behind(store, r, NextSpot(store, r)) = {}

\* "A task held by a run that is gone is one no session will ever pick up":
\* what a run reserved and nobody moved since is held by a run under way,
\* in the stretch it is in.
NothingHeldByTheGone ==
  \A t \in Tasks :
    LET r == store.task[t].holder IN
    r \in Runs => Live(store, r) /\ store.run[r].open /\ store.run[r].task = t

\* Paused before its next task, a run is copied afresh when picked up and
\* starts at its entry: it must hold no reservation it would leave behind.
\* (A step opened by a look that is older than the run's copy is beside this.)
PausedHoldsNothing ==
  \A t \in Tasks, r \in Runs :
    store.task[t].holder = r /\ store.run[r].kind = "before" => store.run[r].fresh

\* A run pauses between actions and never inside one.
PausedBetweenActions == \A r \in Runs : store.run[r].status = "paused" => ~Inside(store, r)

\* Paused runs count among those under way, so picking them up again never
\* takes an automation over its most.
NeverOverItsMost == Cardinality(UnderWay(store)) <= MaxConcurrent

\* A run asked to pause before its next task reserves none after the ask, nor
\* does any run of an automation that was stopped.
NoTaskAfterTheAsk ==
  [][\A t \in Tasks, r \in Runs :
       store'.task[t].holder = r /\ store.task[t].holder # r
         => ~store.run[r].before /\ ~store.stopped]_vars

\* "Picked up again, it comes back to the place it had" (automation_stop.rs).
PausedGoesOn == \A r \in Runs : store.run[r].kind = "end" => GoesOn(store, r)
=============================================================================
