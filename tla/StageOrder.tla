------------------------------ MODULE StageOrder ------------------------------
(***************************************************************************)
(* A category of a project: its settings, its values and their order, what *)
(* tasks and decisions answer it with, and the wait along the order that a *)
(* sequential one puts on the tasks (ops/dimension.rs, with the reads of   *)
(* store_engine/read.rs it is judged by and the announcing of the command  *)
(* line's cmd/outbox.rs).                                                  *)
(*                                                                         *)
(* Every operation is one BEGIN IMMEDIATE transaction and so one step, but *)
(* for closing a value: who was released by it is read after the commit.   *)
(***************************************************************************)
EXTENDS Integers, FiniteSets

CONSTANTS
  Tasks, Decisions,
  Values,        \* the ids of values; one is never handed out twice
  Closers,       \* command lines that may be closing a value
  Nobody,
  Shapes,        \* the settings a category is given in an instance
  MaxTime        \* bound on the clock of whole seconds

ASSUME StagesAssumption ==
  /\ IsFiniteSet(Tasks) /\ IsFiniteSet(Decisions) /\ IsFiniteSet(Values)
  /\ Tasks \cap Decisions = {}
  /\ Nobody \notin Closers \cup Values
  /\ Shapes \subseteq [ordered : BOOLEAN, role : {"none", "closable", "time"}, multi : BOOLEAN,
                       tasks : BOOLEAN, required : BOOLEAN, sequential : BOOLEAN]
  /\ MaxTime \in Nat \ {0}

NoAxis == [gone |-> TRUE]
Records == Tasks \cup Decisions

VARIABLES
  axis,          \* the category's settings; `tasks`: it classifies tasks
  state,         \* dimension_value: "unborn", "open", "closed" or "gone"
  before,        \* order_key: <<v, w>> when v comes before w
  flipped,       \* dimension_value.closed_changed_at; 0 is never
  stage,         \* task.status, the draft flag and the row's life in one
  since,         \* task.status_changed_at; 0 for a task that is not there
  on,            \* task_ and decision_dimension_value: rows per record and value
  saying,        \* per closer: the value it has closed and not spoken of yet
  now,
  strayed,       \* history: values a task under way waits on that were open when
                 \* they came before its own, so not by a reopening
  owed           \* history: the closer whose close released the task, unsaid yet

avars == <<axis, state, before, flipped>>
tvars == <<stage, since>>
vars == <<avars, tvars, on, saying, now, strayed, owed>>

\* "closed" is done and rejected: what ends a task.
Stages == {"unborn", "draft", "todo", "under way", "blocked", "closed", "gone"}
Live(t) == stage[t] \notin {"unborn", "gone"}
Unfinished(t) == stage[t] \in {"draft", "todo", "under way", "blocked"}
LiveValues == {v \in Values : state[v] \in {"open", "closed"}}
Offered == {v \in Values : state[v] = "open"}
Carried(r) == {v \in Values : on[r][v] > 0}
Several(r) == \E v \in Carried(r) : on[r][v] > 1 \/ Carried(r) # {v}
Sequential == axis # NoAxis /\ axis.sequential

\* waits_on_order: the open values before the task's own.
Waiting(t) ==
  {v \in Offered : Sequential /\ \E w \in Carried(t) : <<v, w>> \in before}

Ready(t) == stage[t] = "todo" /\ Waiting(t) = {}
Later(t, v) == \E w \in Carried(t) : <<v, w>> \in before

Init ==
  /\ axis = NoAxis
  /\ state = [v \in Values |-> "unborn"]
  /\ before = {}
  /\ flipped = [v \in Values |-> 0]
  /\ stage = [t \in Tasks |-> "unborn"]
  /\ since = [t \in Tasks |-> 0]
  /\ on = [r \in Records |-> [v \in Values |-> 0]]
  /\ saying = [p \in Closers |-> Nobody]
  /\ now = 1
  /\ strayed = [t \in Tasks |-> {}]
  /\ owed = [t \in Tasks |-> Nobody]

-----------------------------------------------------------------------------
(* The category itself.                                                     *)

\* Mutant: many answers are let through, so a task can stand on what it waits for.
FitWithSeveral(d) == d.ordered /\ d.role = "closable" /\ d.tasks

\* unfit_for_sequence, and the time axis's one value: asked of it as it would stand.
Fit(d) == d.ordered /\ d.role = "closable" /\ ~d.multi /\ d.tasks

Sound(d) ==
  /\ d.sequential => Fit(d)
  /\ ~(d.role = "time" /\ d.multi)

AddAxis(d) ==
  /\ axis = NoAxis
  /\ ~d.required /\ Sound(d)
  /\ axis' = d
  /\ UNCHANGED <<state, before, flipped, tvars, on, saying, now>>

\* Mutant: a demotion asks the tasks alone.
UpdateAskingTasks(d) ==
  /\ axis # NoAxis /\ d # axis
  /\ d.required /\ ~axis.required => Offered # {}
  /\ Sound(d)
  /\ axis.multi /\ ~d.multi => \A t \in Tasks : ~Several(t)
  /\ axis' = d
  /\ UNCHANGED <<state, before, flipped, tvars, on, saying, now>>

Update(d) ==
  /\ axis # NoAxis /\ d # axis
  /\ d.required /\ ~axis.required => Offered # {}
  /\ Sound(d)
  /\ axis.multi /\ ~d.multi => \A r \in Records : ~Several(r)
  /\ axis' = d
  /\ UNCHANGED <<state, before, flipped, tvars, on, saying, now>>

\* delete_value_subtree over vs: their rows on both sides, then the values.
SweepValues(vs) ==
  /\ state' = [v \in Values |-> IF v \in vs THEN "gone" ELSE state[v]]
  /\ before' = {e \in before : e[1] \notin vs /\ e[2] \notin vs}
  /\ flipped' = [v \in Values |-> IF v \in vs THEN 0 ELSE flipped[v]]

DeleteAxis ==
  /\ axis # NoAxis
  /\ axis' = NoAxis
  /\ SweepValues(LiveValues)
  /\ on' = [r \in Records |-> [v \in Values |-> 0]]
  /\ UNCHANGED <<tvars, saying, now>>

-----------------------------------------------------------------------------
(* Its values.                                                              *)

\* Born open and at the bottom.
ValueAdd(v) ==
  /\ axis # NoAxis /\ state[v] = "unborn"
  /\ state' = [state EXCEPT ![v] = "open"]
  /\ before' = before \cup (LiveValues \X {v})
  /\ UNCHANGED <<axis, flipped, tvars, on, saying, now>>

\* Closing is asked of the move alone: a value already closed meets no refusal.
MayClose(v) ==
  /\ v \in LiveValues
  /\ state[v] = "open" =>
       /\ axis.role = "closable"
       /\ axis.required => Offered # {v}
       /\ axis.sequential => \A t \in Tasks : v \in Carried(t) => ~Unfinished(t)

\* The clock moves with the flag and only with it.
Flip(v, s) ==
  /\ state' = [state EXCEPT ![v] = s]
  /\ flipped' = [flipped EXCEPT ![v] = IF state[v] = s THEN @ ELSE now]
  /\ UNCHANGED <<axis, before, tvars, on, now>>

\* The command line says afterwards whom it released, the app says nothing.
Close(p, v) ==
  /\ saying[p] = Nobody /\ MayClose(v)
  /\ Flip(v, "closed")
  /\ saying' = [saying EXCEPT ![p] = v]

CloseInApp(v) ==
  /\ MayClose(v)
  /\ Flip(v, "closed")
  /\ UNCHANGED saying

Reopen(v) ==
  /\ state[v] = "closed"
  /\ Flip(v, "open")
  /\ UNCHANGED saying

\* To just behind the values of ahead, which are the first ones of the order.
ValueMove(v, ahead) ==
  LET others == LiveValues \ {v} IN
  /\ v \in LiveValues /\ axis.ordered
  /\ ahead \subseteq others
  /\ \A e \in before : e[1] \in others /\ e[2] \in ahead => e[1] \in ahead
  /\ before' = {e \in before : v \notin {e[1], e[2]}}
                 \cup (ahead \X {v}) \cup ({v} \X (others \ ahead))
  /\ UNCHANGED <<axis, state, flipped, tvars, on, saying, now>>

\* Mutant: closed values are counted among what the category still offers.
ValueDeleteOfferingClosed(v, to) ==
  /\ v \in LiveValues
  /\ axis.required => LiveValues # {v}
  /\ IF to = Nobody THEN axis.required => \A t \in Tasks : on[t][v] = 0
     ELSE to \in LiveValues \ {v}
  /\ SweepValues({v})
  /\ on' = [r \in Records |-> [w \in Values |->
              IF w = v THEN 0 ELSE IF w = to THEN on[r][w] + on[r][v] ELSE on[r][w]]]
  /\ UNCHANGED <<axis, tvars, saying, now>>

\* Mutant: a destination is not demanded, whatever the category requires.
ValueDeleteDroppingAnswers(v, to) ==
  /\ v \in LiveValues
  /\ axis.required => Offered \ {v} # {}
  /\ to = Nobody \/ to \in LiveValues \ {v}
  /\ SweepValues({v})
  /\ on' = [r \in Records |-> [w \in Values |->
              IF w = v THEN 0 ELSE IF w = to THEN on[r][w] + on[r][v] ELSE on[r][w]]]
  /\ UNCHANGED <<axis, tvars, saying, now>>

\* Its rows move to `to`, open or closed, or leave with it.  A row moves as it is:
\* a record that was on both values has two rows on the one afterwards.
ValueDelete(v, to) ==
  /\ v \in LiveValues
  /\ axis.required => Offered \ {v} # {}
  /\ IF to = Nobody THEN axis.required => \A t \in Tasks : on[t][v] = 0
     ELSE to \in LiveValues \ {v}
  /\ SweepValues({v})
  /\ on' = [r \in Records |-> [w \in Values |->
              IF w = v THEN 0 ELSE IF w = to THEN on[r][w] + on[r][v] ELSE on[r][w]]]
  /\ UNCHANGED <<axis, tvars, saying, now>>

-----------------------------------------------------------------------------
(* What a record answers.                                                   *)

\* set and set_on_decision.  A record that carries the value is left as it is.
Set(r, v) ==
  /\ r \in Tasks => Live(r)
  /\ state[v] = "open" /\ on[r][v] = 0
  /\ on' = [on EXCEPT ![r] = IF axis.multi THEN [@ EXCEPT ![v] = 1]
                             ELSE [w \in Values |-> IF w = v THEN 1 ELSE 0]]
  /\ UNCHANGED <<avars, tvars, saying, now>>

\* unset and unset_on_decision: one row, and of a task not the last one required.
Unset(r, v) ==
  /\ v \in Carried(r)
  /\ r \in Tasks /\ axis.required => Several(r)
  /\ on' = [on EXCEPT ![r][v] = @ - 1]
  /\ UNCHANGED <<avars, tvars, saying, now>>

-----------------------------------------------------------------------------
(* The tasks, as far as the order and the answers reach them.               *)

\* set_status: the clock is stamped by every transition that is one.
To(t, s) ==
  /\ stage' = [stage EXCEPT ![t] = s]
  /\ since' = [since EXCEPT ![t] = now]
  /\ UNCHANGED <<avars, on, saying, now>>

TaskAdd(t) == stage[t] = "unborn" /\ To(t, "draft")

\* unmet_required_axes.  The draft flag goes, the status is "todo" as it was.
FinishCreating(t) ==
  /\ stage[t] = "draft"
  /\ axis # NoAxis /\ axis.required /\ axis.tasks => Carried(t) # {}
  /\ stage' = [stage EXCEPT ![t] = "todo"]
  /\ UNCHANGED <<avars, since, on, saying, now>>

\* reserve_blockers, of which the order is what is kept here.
Reserve(t) == Ready(t) /\ To(t, "under way")

\* Handed back, unblocked, or a closed task opened again: none asks for anything.
Release(t) == stage[t] \in {"under way", "blocked", "closed"} /\ To(t, "todo")

\* A task that waits may be blocked, and one under way is no longer its holder's.
Block(t) == stage[t] \in {"todo", "under way", "closed"} /\ To(t, "blocked")

Settle(t) == stage[t] \in {"todo", "under way", "blocked", "closed"} /\ To(t, "closed")

TaskDelete(t) ==
  /\ Live(t)
  /\ stage' = [stage EXCEPT ![t] = "gone"]
  /\ since' = [since EXCEPT ![t] = 0]
  /\ on' = [on EXCEPT ![t] = [v \in Values |-> 0]]
  /\ UNCHANGED <<avars, saying, now>>

Tick ==
  /\ now < MaxTime
  /\ now' = now + 1
  /\ UNCHANGED <<avars, tvars, on, saying>>

-----------------------------------------------------------------------------
(* What is told.                                                            *)

\* Mutant: a reopening in the reservation's own second reads as before it.
ReportedStrictly(t) == {v \in Waiting(t) : flipped[v] > since[t]}

\* The reopened values of premise_change_since.
Reported(t) == {v \in Waiting(t) : flipped[v] # 0 /\ flipped[v] >= since[t]}

\* Mutant: only the tasks of the next stage are looked at.
ReleasedNextDoor(v) ==
  {t \in Tasks : /\ Sequential /\ Ready(t) /\ Later(t, v)
                 /\ \E w \in Carried(t) : <<v, w>> \in before
                      /\ ~\E u \in Values : <<v, u>> \in before /\ <<u, w>> \in before}

\* newly_ready_by_closing, read after the commit.
Released(v) == {t \in Tasks : Sequential /\ Ready(t) /\ Later(t, v)}

Say(p) ==
  /\ saying[p] # Nobody
  /\ saying' = [saying EXCEPT ![p] = Nobody]
  /\ owed' = [t \in Tasks |-> IF t \in Released(saying[p]) THEN Nobody ELSE owed[t]]
  /\ UNCHANGED <<avars, tvars, on, now>>

\* A command line that dies has told nobody.
Die(p) ==
  /\ saying[p] # Nobody
  /\ saying' = [saying EXCEPT ![p] = Nobody]
  /\ owed' = [t \in Tasks |-> IF owed[t] = p THEN Nobody ELSE owed[t]]
  /\ UNCHANGED <<avars, tvars, on, now>>

-----------------------------------------------------------------------------
Step ==
  \/ DeleteAxis \/ Tick
  \/ \E d \in Shapes : AddAxis(d) \/ Update(d)
  \/ \E v \in Values :
       \/ ValueAdd(v) \/ CloseInApp(v) \/ Reopen(v)
       \/ \E ahead \in SUBSET Values : ValueMove(v, ahead)
       \/ \E to \in Values \cup {Nobody} : ValueDelete(v, to)
       \/ \E r \in Records : Set(r, v) \/ Unset(r, v)
  \/ \E t \in Tasks :
       \/ TaskAdd(t) \/ FinishCreating(t) \/ Reserve(t) \/ Release(t) \/ Block(t)
       \/ Settle(t) \/ TaskDelete(t)

\* The word is owed for as long as the task is there to be taken and the value it
\* was released by still lies before its own.
Outstanding(t, p) == Sequential /\ Ready(t) /\ Later(t, saying[p])

Keep ==
  owed' = [t \in Tasks |->
    IF \E p \in Closers : owed[t] = p /\ Outstanding(t, p)' THEN owed[t] ELSE Nobody]

Owe(p) ==
  owed' = [t \in Tasks |->
    IF ~Ready(t) /\ Ready(t)' THEN p
    ELSE IF \E q \in Closers : owed[t] = q /\ Outstanding(t, q)' THEN owed[t] ELSE Nobody]

Stray ==
  strayed' = [t \in Tasks |->
    IF stage'[t] # "under way" THEN {}
    ELSE Waiting(t)' \cap (strayed[t] \cup ({v \in Values : state[v] = "open"} \ Waiting(t)))]

Next ==
  /\ \/ Step /\ Keep
     \/ \E p \in Closers, v \in Values : Close(p, v) /\ Owe(p)
     \/ \E p \in Closers : Say(p) \/ Die(p)
  /\ Stray

Spec == Init /\ [][Next]_vars

-----------------------------------------------------------------------------
(* Properties.                                                              *)

Kinds ==
  /\ axis \in Shapes \cup {NoAxis}
  /\ state \in [Values -> {"unborn", "open", "closed", "gone"}]
  /\ flipped \in [Values -> 0..now]
  /\ stage \in [Tasks -> Stages]
  /\ since \in [Tasks -> 0..now]
  /\ on \in [Records -> [Values -> Nat]]
  /\ saying \in [Closers -> Values \cup {Nobody}]
  /\ now \in 1..MaxTime

InLine ==
  /\ before \subseteq LiveValues \X LiveValues
  /\ \A v, w \in LiveValues : v # w => (<<v, w>> \in before <=> <<w, v>> \notin before)
  /\ \A v \in Values : <<v, v>> \notin before
  /\ \A u, v, w \in Values : <<u, v>> \in before /\ <<v, w>> \in before => <<u, w>> \in before

RowsLive ==
  /\ \A r \in Records : Carried(r) \subseteq LiveValues
  /\ \A t \in Tasks : Live(t) \/ Carried(t) = {}

\* Rows name live records and live values, live values stand in one line, and a
\* project without the category has none of them.
TypeOK == Kinds /\ InLine /\ RowsLive /\ (axis = NoAxis => LiveValues = {})

\* A required category has an answer to offer, whichever of closing, deleting and
\* raising the flag came last: or every creation of the project stops at the door.
RequiredOffers == axis # NoAxis /\ axis.required => Offered # {}

\* On a category of one answer a record has one row, on either side, however it was
\* widened, reassigned and narrowed.
OneAnswer == axis # NoAxis /\ ~axis.multi => \A r \in Records : ~Several(r)

\* The wait never goes round: of the values a task waits for there is one whose own
\* unfinished tasks wait for nothing, so somebody can always go on.
SomebodyCanGoOn ==
  \A t \in Tasks : Waiting(t) # {} =>
    \E v \in Waiting(t) : \A u \in Tasks : v \in Carried(u) /\ Unfinished(u) => Waiting(u) = {}

\* Whatever a task under way has come to wait on by a reopening is reported to its
\* holder, in the reservation's own second too.  Of a blocked task nothing is claimed:
\* blocking moved the clock the reopening is held to, and nobody is asked then.
ReopenedIsReported ==
  \A t \in Tasks : stage[t] = "under way" => Waiting(t) \ strayed[t] \subseteq Reported(t)

\* A command line has not finished speaking of a close while a task that close
\* released, and that is still there to be taken, has been named by nobody:
\* whichever values are closed beside it.
NoReleaseUnsaid == \A t \in Tasks, p \in Closers : owed[t] = p => saying[p] # Nobody

\* While a category is required, no step takes a task's last answer from it.
AnswerKept ==
  [][\A t \in Tasks :
       /\ axis # NoAxis /\ axis.required /\ Carried(t) # {}
       /\ axis' # NoAxis /\ axis'.required /\ stage'[t] # "gone"
       => Carried(t)' # {}]_vars
=============================================================================
