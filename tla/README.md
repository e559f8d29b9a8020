# Amenbo in TLA+

Amenbo is a local-first task manager for people and AI agents who share one board. Everything lives
in one SQLite file on one machine. Several processes write to it at once: commands of the terminal
client `amenbo`, most of them typed by agents; the desktop app, on several threads; and an hourly
tick the operating system starts. There is no server in the middle. What keeps the data right is that
each operation is one `BEGIN IMMEDIATE` transaction that reads what it judges on, and that the few
things which span two transactions were thought through one by one.

This directory models those parts: where one transaction judges on several rows and a long sequence
of legal calls could still lead somewhere illegal, and where the work spans several transactions and
another actor, a crash or midnight can fall between them. The models are checked by TLC on small
instances. What the runs check as invariants, as rules for single steps and as refinements is also
proved for each of the eight modules, for every number of tasks, decisions, values, runs, processes and
events. What stays with TLC is that something happens eventually (section 5).

- `PROJECT.json` says which lines of the source each definition stands for, lists every run with its
  configuration, the hazards and the theorems.
- Paths below are relative to `crates/amenbo-core/src/` unless they start with `app/` or `crates/`.


## 1. The system

### Inventory

| Part | State it keeps | Operations | Meets the others through |
|---|---|---|---|
| Observation outbox (`store_engine/outbox.rs`, `outbox_drive.rs`) | event rows, the highest id ever given out, one cursor, one retention watermark | append inside any write; walk, trim and advance the cursor; resume at start-up | every write appends; both faces and the tick walk; notifications read what a walk saw |
| Decisions (`ops/decision.rs`) | draft flag, verdict, dates, the edges *supersedes*, *amends*, *builds on* | add, finish writing, reject, reopen, draw and remove edges, delete | tasks rest on them; a superseded decision is not a settled ground |
| Tasks and their premises (`ops/task.rs`, `ops/dependency.rs`, `store_engine/read.rs`) | draft flag, status and its clock, home project, dependencies, links to decisions | create, finish, reserve, release, settle, move, depend, link, delete | reserving reads dependencies, decisions, axes and days; automations reserve the same tasks |
| Hourly tick and due warning (`tick.rs`, `due.rs`) | one *day mark* per purpose | judge, read three windows, emit, mark, flush | puts events on the outbox and walks it |
| Automation runs (`ops/automation_run.rs`, `_step.rs`, `_report.rs`, `_stop.rs`, `app/src-tauri/src/automation_watch.rs`) | runs, their steps, their copied picture, stretches over tasks, requests to pause | launch, look, open, report, pause, resume, cancel, take up a newer version, sweep | take and close tasks through the same operations as people; one watch drives all runs |
| Automation pictures (`ops/automation.rs`, export, import, rehearsal) | actions, lines, roles, inputs, versions | edit, save, export, import, rehearse | a run copies the saved version |
| Triggers, scripts, other built-ins (`ops/automation_script.rs`, `automation_builtin_*.rs`) | a trigger's next moment | fire, ask a script, file a task, cut and fold worktrees | start runs, are steps of runs |
| Classification axes (`ops/dimension.rs`) | categories and their settings, ordered values, open or closed, which task or decision answers with which | add, change, close and reopen a value, reorder, delete with reassignment, set, unset | a sequential axis is a premise of reserving, a required one of finishing a creation |
| Viewer carrier (`viewer.rs`, `viewer/`) | queue, feed cursor, version, the server's order number, a moment to wait for, a switch | set off by a write, a start or by hand; take the turn, copy out, place in parts, drop the front; stand a server up, forget | reads the change feed; writes to the Worker |
| Viewer Worker (`worker/src/index.ts`) | records by key, one running order | place, read | the phone reads it |
| Change feed and sync snapshot (`store_engine/write.rs`, `sync_snapshot.rs`) | one row per changed record, a horizon | drained in each commit; read from a cursor | the GUI and the Viewer carrier follow it |
| Notifications (`notify_dispatch.rs`, mail, Slack) | targets, delivery log | word, group, post | read what a walk carried out |
| Attachments and blobs (`blob.rs`, `ops/attachment.rs`) | files named by content, rows naming them | ingest, attach, delete, reclaim, sweep | both faces, project teardown, hard erase |
| Store open, swap, archive (`store/open.rs`, `swap_lock.rs`, `archive.rs`, `migrate.rs`) | lock files, the store file, an aside | open, restore, migrate, roll back | every other part opens the store through it |
| Projects, bindings, teardown (`ops/project.rs`, `binding.rs`, `project_teardown.rs`) | projects, folders bound to them, pointer files | create, delete, bind, re-point, release | deletion sweeps tasks, decisions, blobs |
| Comments, activity, reading marks | rows, a ledger file | append, read | activity lines follow a commit |
| Faces: terminal client, desktop app, talk window, MCP, hooks | none of their own that the store depends on | wording, screens, terminals | call the operations above |
| Self-update, worktrees, configuration, skins, secrets | files and single rows | read, replace | stand alone |

### What is hard about it

- **Two faces walk one outbox.** A walk is several reads and one commit; whoever waits for the lock
  waits with whatever it has read before.
- **Premises move under a reservation.** A task is reserved when it is ready. Minutes later somebody
  supersedes the decision it rests on. The reservation stays; its holder must be able to find out.
- **Legal calls add up.** Each dependency, edge, move or reopening is checked alone. A cycle over three
  tasks, an edge across projects, a verdict overturned: each takes several legal calls to build.
- **Time is whole seconds and calendar days.** Places in a line tie; midnight falls inside a tick.
- **Work and its mark are two commits.** Marked first, a failure loses the day; marked last, a death in
  between repeats it.
- **Where a run stands is not stored.** It is derived from its last step and from the present status of
  its task, by one transaction, and acted on by another.
- **Processes die.** A terminal is killed, the app is restarted in the middle of every run, a carrier
  ends between its queue and its cursor.
- **The network answers late or not at all.** A placement is sent, taken, and its answer is lost; it is
  sent again, folded with something newer.
- **Bytes are outside the transaction.** Attachments lie in files beside the database, shared by whoever
  attached equal bytes; rows and files are judged and changed by several processes, one after the other.

### What makes each part correct

- *Outbox*: every event a committed write fired is carried exactly once, in the order fired, and is
  eventually carried; nothing is trimmed that was not carried.
- *Decisions*: a decision's date and its verdict agree; a rejected one stays rejected; no edge
  dangles or leaves its project.
- *Tasks*: no cycles; somebody can always start; drafts are nobody's and announced once; nothing
  drops from ready under a holder without a date that says when.
- *Due warning*: a marked day was carried out, instants included; a day that must be warned about is, before it ends; a
  warning that is repeated has a fault or a person behind it.
- *Automation runs*: one run inside an exclusive action; the line before it moves; a run that ended
  holds no task; a pause holds neither an action nor a task; the limit on runs holds whatever is
  paused and picked up.
- *Viewer*: whatever changed is at the server or still waiting to be; the phone never sees an older
  state of a record after a newer one, and what a page of it went past it has; what waits is sent in the
  end.
- *Attachments*: a live row has its bytes, bytes on their way to a row are let be, garbage goes.
- *Categories*: a required one can be answered and takes no answer away; one of a single answer holds
  one; the wait along an ordered one never goes round; who is released or held anew is told.
- *Not modelled*: an open never sees a half-replaced file; a walk's notifications are worded or logged.


## 2. The plan

Ordered by how much of the system's promise rests on the part and how little a test can reach it.

| # | Modules | Abstract specification | Status |
|---|---|---|---|
| 1 | `Outbox`, `MCOutbox`, `OutboxProofs` | `EventLog` | modelled, checked, proved |
| 2 | `DecisionBook`, `DecisionBookProofs`, checked by 3's runs | - | modelled, checked, proved |
| 3 | `TaskBoard` (extends 2), `MCTaskBoard`, `TaskBoardProofs` (extends 2's) | `DecisionBook` | modelled, checked, proved |
| 4 | `DueTick`, `MCDueTick`, `DueTickProofs` | - | modelled, checked, proved |
| 5 | `AutomationRun`, `MCAutomationRun`, `AutomationRunProofs` | - | modelled, checked, proved |
| 6 | `Viewer`, `MCViewer`, `ViewerProofs` | `Mirror` | modelled, checked, proved |
| 7 | `Blobs`, `MCBlobs`, `BlobsProofs` | - | modelled, checked, proved |
| 8 | `StageOrder`, `MCStageOrder`, `StageOrderProofs` | - | modelled, checked, proved |
| 9 | `StoreSwap`: open, restore, migrate and the two locks | "every write lands in the old file or the new one" | planned |
| 10 | `Notices`: what one walk hands on and what is dropped | `EventLog` | planned |

Theorems worth proving next: of `AutomationRun`, that the times of arrival, kept as ranks that close up
when a run leaves, order the runs as the seconds they stand for would; of `TaskBoard` and `StageOrder`
together, that a task held by nothing can be reserved, whichever of the two premises moved last; and
the promises of the two modules the plan still lists.


## 3. The modules

### `EventLog` and `Outbox`

`EventLog` has four variables and two actions: events fire, and everything fired is carried out. It
knows nothing of tables.

`Outbox` is the code. A *face* is a process or a thread with a connection of its own. `rows`,
`lastId`, `cursor` and `truncated` are the outbox table, `sqlite_sequence` and two rows of
`store_meta`; `lock` is SQLite's write lock; `pc`, `at`, `page`, `more` and `seen` are the local
variables of a walk.

- `Write` is any transaction that appends events: the ids come from an autoincrementing key, so an id
  is never used twice though the row be trimmed.
- `BeginWalk` is `walk_persisted` up to the read of the cursor, which happens under the lock;
  `FetchPage`, `Observe` and `PageDone` are its loop; `CommitWalk` trims, stores cursor and watermark
  and commits, in one step because it is one commit.
- `HandOn` is what happens after the commit: notifications are handed over outside the transaction.
- `Start` is the resumption both faces make when they open the store and find rows standing, `Tick`
  the scheduler's, `BusyTimeout` a lock that did not come free, `Crash` a kill at any point.
- Rows whose event this build does not know are in `rows` and outside `known`: they are passed, not
  carried. This is a store written by a newer build.

`RefinesLog` substitutes `lastId`, `cursor` and `carried` for the log's `fired`, `walked` and `out`.

### `DecisionBook`

Decisions and the edges between them. `edge` and `drawnAt` hold the kind and date of a pair;
`PutEdge` is the shared path of the three verbs with its demotions, the re-dating included. Whether a
decision is current is the operator `Superseded`, never a status, as in the code. `DProjectDelete` is
the part of a project's deletion that falls on decisions. Ids are handed out once and never again,
which the three lives `unborn`, `live`, `gone` say.

### `TaskBoard`

Extends `DecisionBook` and adds tasks. `Held` is the refusal of a reservation: open blockers,
unsettled grounds, an unfinished draft. `AddedBlockers`, `AddedDecisions` and `ReopenedDecisions` are
what `premise_change_since` answers, the question a holder's command asks. `Reaches` is the search
`add_dependency` does before it draws an edge; it is stated by closed sets rather than by recursion so
that it can be proved about. `MoveTo` checks both directions of dependencies and the links.
`SweepTasks` is the deletion of a subtree with the edges at both ends.

Premises of two further kinds, a start day and the stages of a sequential axis, are not in `Held`:
the first depends on nothing but the clock, the second is `StageOrder`.

### `DueTick`

One tick is `Judge`, three `ReadWindow`s, `Emit`, `Mark` and `Flush`; each is a transaction or query
of its own, so tasks change, midnight passes and other ticks run between any two. `mark` is the day
mark, compared for equality as the code does. `day` is read once, at the start; each window asks the
clock again, and `InWindow` therefore uses `today` and `time` as they are at that query.

A deadline is a day or an instant of one. `due` holds both as a day and a moment of it: `time` counts the
instants of the day that are over, and a deadline on a day is the moment after the last, which only
`Midnight` passes. With `TimePasses` an instant goes over, and its task from *today* to *overdue*
(`Passed`). A tick reads *overdue* first and *today* next; an instant that goes over between the two is
in neither. `slipped` is the history of that, `touched` of tasks that changed: both are of the day and
end with it. `MarkedDayIsWarned` and `OwedIsWarned` name it as their exception, and `EveryDueTaskIsNamed`
is the sentence of `due.rs` without it, which the run `due_each_day` refutes. An event is told from
another by its task and day, so where two windows found one task one event is kept. The query reads the
day and the instant one after the other; a midnight between them leaves a tick for a day already over.

### `AutomationRun`

The largest module. The store is one variable, and the operators that change it are functions from
store to store, because the code's operations call one another inside one transaction: reporting a
step may close a stretch, hand a task back, settle a pause and end the run. The watch's last look is
the second variable (`looking`), for the look and the opening are two transactions.

- `Launch`, `StartWaiting`, `StopWaiting`: the runs asked for, within the limit or waiting for room.
- `Look`, `TakeUp`, `Open`, `GiveUp`: one turn of the watch. `Open` judges again, under the lock, the
  line before the action (`Behind`), the pause (`PausesHere`) and the step itself (`GoIn`).
- `StepDone`, `StepEnded`: an agent reports, or its program ends without one. `WhatsNext` decides.
- `Pause`, `PauseBeforeNextTask`, `Resume`, `Cancel`, `StopAutomation`, `StartAutomation`, `Save`:
  people. `Restart`: the sweep when the app starts.
- `Reserve`, `SetStatus`, `GiveToTheAi`, `SettleFailure`: sessions and people working the same tasks.

The picture is a constant. `MCAutomationRun` gives one with the shapes the code treats differently: an
exclusive entry that takes a task; an exclusive action of two steps with a line back that may be gone
once; a step that closes the task; a step that hands it back and goes round.

What it leaves out, and why the properties do not miss it:

- *Inputs, outputs, roles and values handed on.* They decide what an agent is told.
- *An empty board as a way out of taking.* The picture's take is set to wait for a task, so that way
  out is unreachable, and the waiting is the harder case.
- *Scripts, and the built-ins that hold a step until a moment.* A step is open until it is reported.
- *Versions' contents.* A save only makes the running copies old.
- *Acknowledging, archiving and deleting runs and tasks, rehearsals, triggers.*
- An ended run keeps its id and its status and nothing else. Times of arrival are kept as an order with
  ties, the ties broken by id as the code breaks them.

`PictureAssumption` is what the code sees to before there is a run. A launch refuses a picture on which
a run could come from one take to the next with its task still open (`leaves_task_open`): `HoldsOn` says
there is a set of agents' spots such a walk stays within until it lets go of the task. And a line that
stays goes to an agent's step of the same action, because the action of a built-in has one step and none
can be added to it. A picture edited by a build before that rule could hold such an action; no theorem
is about it.

Two operations that go through the runs one by one have a closed form, so that they can be reasoned about.
`Restart` fails all it caught at once, since what one failure hands back is handed back for the next as
well. `StopAutomation` takes the set of runs that paused, and asks of each run whether it waits in the
store the ones before it left.

### `Mirror` and `Viewer`

`Mirror` says what somebody with a phone in hand may count on: of each record only ever a later state
comes, or none, until a new server starts from nothing.

`Viewer` is the carrier that keeps a mirror of the store on a server. A *carrier* is a process or a
thread that was set off; there may be several, and one takes the turn. `feed` and `trimmed` are the
change feed and its floor, `queue` the table `viewer_queue`, `left` the row `viewer_send`, `turn` the
lock file, `job` a carrier's locals; `rows` and `standing` are the Worker's; `phone` is a reader of it.
A state of a record is named by its place in the feed.

- `Write`, `StartUp` and `SendByHand` set a carrier off (`SetOff`); whoever finds the turn taken stops.
- `BeginTurn` reads where the last one got to; `CopyWhole`, or `ReadPage` and `ReadBack` in turn, fill
  the queue, which is folded by record; `Release` and `Remember` are the two moments the place is
  written down, apart from the queue, as in the code.
- `Send`, `Place`, `Answered` and `DropFront` are one part: sent, taken by the Worker in one batch under
  one running order (`Taking`), answered, and its rows dropped.
- `CopyFails`, `Refused`, `AnswerLost`, `Short` and `Die` are the faults, between any two of these.
- `ThrowSwitch`, `PauseLifts`, `StandUp` and `Forget` are the switch, the moment to wait for, a new
  server and the forgetting of the old one's place. `Read` is the phone's page.

`Shown` substitutes what the server shows for the mirror's `there`, and the records written for `made`.

Reads of the address, the switch, the version and the place are one step. A request of a carrier that
died or gave up waiting reaches the Worker before the next one is sent or never; this is an assumption
about the network. `skipped` is history: the deletions a whole picture went past. A server set up while
a carrier was on its way is left out of the properties by name (`setup = "crossed"`). The repair, a
second named server, tokens, pairing and a restored store are not modelled.

### `Blobs`

Bytes lie in files named by their content; attachments and a project's picture name them by rows.
`file` says of a content whether its file is absent, young or older than the hour; `rows` the rows, by
generation of the database file; `gen` which file is at the path now, since a connection opened before
a restore goes on with the old one; `job` what each process is at.

- `Ingest` writes the bytes, `Commit` the row that names them. Bytes that lie there already are not
  written and do not become young again. `Age` is the hour, which does not pass over a process that is
  still between the two (`before`): an attach takes less than an hour.
- `Delete` takes rows away, on its own or with a reclaim or an erase after it; `ReadImages`, `Sweep` and
  `SweepReadImages` say what was read once for all candidates; `Judge` asks the rows and the age of one
  file, `Unlink` takes it, and `UnlinkFails` ends the whole removal, as a failed removal does.
- `Backup` reads the rows, `Bundle` the bytes; `Place` puts an archive's bytes beside the database,
  `Swap` its rows at the path. `Die` is a kill anywhere.

A check that bytes exist is one step with the write that follows, and so are the rows and the age of
one file. Avatars, which a file of settings names, are left out. An archive is used once and not written
over. `sure`, `own` and `kept` are history: rows committed over bytes nobody was then removing, bytes
an attach wrote itself, what a sweep found a reason to spare.

### `StageOrder`

One category of one project. `axis` is its settings, or none; `state` and `before` its values and their
order; `flipped` when each was last closed or opened; `on` how many rows each record has on each value;
`stage` and `since` a task's status and when it last changed; `saying` what a command line has closed and
not yet announced.

- `AddAxis`, `Update` and `DeleteAxis` are the category with every refusal; `ValueAdd`, `Close`,
  `CloseInApp`, `Reopen`, `ValueMove` and `ValueDelete` its values. Deleting one moves its rows to
  another, or drops them.
- `Set`, `Unset`, `FinishCreating` and `Reserve` are where a required or a sequential category holds a
  record back; `Waiting` is what a task waits for, `Reported` what a holder is told of.
- `Say` reads whom a close released, after the commit; `Die` comes before it. `Released` is that read.

`To` is the status transition with its clock, which every real one stamps. `Block` asks for no readiness:
a task that waits may be blocked, and one under way leaves its reservation with it. The notice of a
reopening is read for a task in progress alone (`cmd/premise.rs`, the app's `premise_change_dto`), so
`ReopenedIsReported` is about *under way* and claims nothing of *blocked*. Done and rejected are one
stage, `closed`; ending a draft is refused, and `finish_creating` moves no clock.

`strayed` and `owed` are history: what a reservation came to wait on otherwise than by a reopening, and
whose word a released task is owed. What else a reservation asks for is `TaskBoard`'s.
Names, slugs, periods, the resolving of a time axis, several categories meeting on one task and a task
that changes projects are left out; `axis` is one of `Shapes`, the combinations of settings a run names.


## 4. The runs

Every run finishes within five minutes on two workers. Numbers are distinct states; where symmetry and
a view meet they may differ by a few from one time to the next.

| Run | Configuration | States | Shows |
|---|---|---|---|
| `outbox` | `MCOutbox.cfg` | 330,383 | two faces and a tick fire three events and walk them through the lock, pages cut short and one kill included: nothing is lost or reclaimed unread; it implements `EventLog`; what fired is eventually walked |
| `board` | `MCTaskBoard.cfg` | 33,912 | three tasks, two projects and an inbox: no cycle, no crossing, drafts secret |
| `premises` | `MCPremises.cfg` | 837,902 | one task over two decisions in two projects and two seconds: a ground that came loose is dated; verdicts and dates agree, rejection is final, edges stay sound |
| `due` | `MCDueTick.cfg` | 448,895 | two days with an instant each, a timer and a tick by hand, one fault: the day's promises |
| `automation` | `MCAutomationRun.cfg` | 1,460,304 | three runs, two at once, two tasks, two acts of anybody else at any moment |
| `viewer` | `MCViewer.cfg` | 2,595,397 | two carriers, two records, three changes, one fault, one new server: whatever changed is there or on its way, and it implements `Mirror` |
| `viewer_moves` | `MCViewerMoves.cfg` | 1,052,048 | rows that stayed in the queue are sent in the end, after a fault, a wait or a throw of the switch |
| `blobs` | `MCBlobs.cfg` | 1,039,708 | three processes over one content, with a restore: rows keep their bytes, bytes in flight are let be, garbage goes |
| `stages` | `MCStageOrder.cfg` | 423,436 | one task, one decision, three values, two who close: what a category promises through all its changes |
| `paused_goes_on` | `MCPausedGoesOn.cfg` | - | a disagreement, below |
| `duplicate_not_hole` | `MCDuplicateNotHole.cfg` | - | a disagreement, below |
| `due_each_day` | `MCDueEachDay.cfg` | - | a disagreement, below |

Every property has a mutant: an operator beside the definition it alters, in the module, that is what
a plausible mistake in that function would be. Substituted, it breaks exactly that property under the
same configuration. `BeginWalkFromMemory`, say, is the walk with its cursor read before the lock, the
mistake the comment "under the lock, not before it" warns of.

### The disagreements

Three runs check a sentence of the source that the code does not keep. TLC's trace is the evidence.

- `paused_goes_on`. A run that has come round to an exclusive entry and waits there for room is paused
  as one at the end of an action. Resuming then asks which line its last step left by, finds the end
  of the picture, fails the run and answers with an error, which rolls the failure back. The run stays
  paused, and every later resume does the same. The comment says it comes back to the place it had.
- `duplicate_not_hole`. `viewer/send.rs` says a death between the queue and the cursor costs a duplicate
  and not a hole. A first run that queues its whole picture and dies there, a deletion of one of its
  records, and the next first run, which does not see the deletion, leave the record on the phone.
- `due_each_day`. `due.rs` says the warning puts one event on the outbox per task whose day has come or is
  coming, and that its windows are stretches that do not meet. A task is due at an instant of today. The
  tick asks what is overdue, which it is not yet; the instant goes by; the tick asks what is due today,
  which lets go of an instant that is over. No event names the task, and the day is marked. No later tick
  of that day warns of it; the next day's finds it overdue.

More sentences were found not to hold, or to hold less widely than they read, while the models were
written. They follow from the code by reading it beside the model, and no run was spent on them.

*Decisions and tasks.*
`decision.accepted` is said to fire once per decision, and fires again after a reopening. A blocker that
was done when the task was reserved and is opened again later drops the task from ready and is not
reported to its holder, since the report asks when the edge was drawn (`LateBlockersAreReported` says
exactly this much). Two decisions may supersede each other. A premise that moves in the very second of a
reservation is not reported.

*Automation.*
A run that ends sets the task of its stretch to todo if it is in progress, whoever reserved it; the
comment says only what the run itself reserved. A person who reopens a task between a report and the
next entry leaves the run with no way on; the comment says nobody can walk it there. A look older than a
run's copy may open a step of the old picture. A run of a stopped automation that stands at its entry
fails when a newer version is taken up.

*Viewer.*
`viewer/lock.rs` says that a carrier which finds the turn taken has nothing to do. What was written
after the running one read its pages then waits for the next write. Forgetting the place in `viewer.rs`
does not take the turn, so a carrier on its way may write the old place over the new server's. The
version is remembered with the first page, so a later page that fails leaves changes behind a version
that reads as level (`LevelMeansRead` is stated without faults for this reason). A deletion that a gap
in the feed or a forgotten place skipped stays on the phone.

*Blobs.*
Attaching bytes that are there and old writes nothing, so a reclaim or sweep which already judged them
takes them from under the new row. The pictures are read once, before the candidates of a reclaim and
after the rows of a sweep, and one set in between is missed. Between the age and the unlink the file may
have been replaced by a young one of the same name. A backup reads rows first and bytes after, so a
deletion and its reclaim in between leave an archive without the bytes of one of its rows, though
`archive.rs` says every blob is bundled. A removal that finds a file gone ends with an error and leaves
the other candidates for a later sweep. `BytesStay` and `InFlightKept` say what holds beside these: `sure`
and `own` leave them out by name, so neither property would notice one of them getting worse.

*Categories.*
The comment at the moving of rows says a record has one row on a category. One of many answers may get
two rows on one value: `unset` takes one, and the narrowing to one answer is refused because of the
other. A closed value may hold unfinished tasks again, through a reassignment, a reopened task or a
category made sequential later. Whoever is released because a value was deleted, moved or the setting
lowered is told by nobody, and neither is one released by a close in the app. A required category whose
last open value is waited for cannot be closed until it is lowered. Blocking a task moves the clock its
notice is held to, and a waiting one may be blocked; of a value reopened ahead of a blocked task whoever
held it hears nothing.

### The bounds, and why they are enough

- *Outbox.* Three events and pages of one row: a walk spans several pages, each cut short, and events
  fire between the commit of one walk and the start of the next that was already waiting. Three faces:
  one holds the lock, one waits for it, one is killed.
- *Board.* A cycle through three tasks needs three; a crossing needs two projects, and the inbox,
  which crosses nothing, is the third home.
- *Premises.* Dates matter by whether they lie before, in or after the second of the reservation. Two
  seconds have a reservation in the first (moves in it or after it) or in the second (moves before it
  or in it), and of two decisions one may supersede the other. Two decisions have all three kinds of
  edges in both directions, and two projects one that crosses; two settlings of each cover reopening. A
  view drops the columns of rows that are not there and the moments no reservation is held to.
- *Due.* One task, since tasks do not interact. Two days give one midnight, which may fall inside a
  tick. One instant of each day goes by before, while or after a tick reads. A third day's due date lies
  outside the days that pass, for *tomorrow*; at an instant it would be no other.
- *Automation.* Three runs: two fill the limit and one waits. Two tasks: one may be the subject of
  everything, the other what runs take instead. `MaxOutside = 2` bounds acts from outside the runs to
  two per behaviour, anywhere in it: `paused_goes_on` takes no more, and each property's mutant is caught
  with two. Acts of the runs themselves are not bounded except by the runs.
- *Viewer.* Two carriers: one has the turn, the other waits or starts after a death. Two records, of
  which one may be folded while the other stands before it. Three changes and pages, parts and reads of
  one row, so that each of them is cut short; the feed keeps one row, so that a reader falls behind it.
  One fault, anywhere. `viewer_moves` has two changes, and one throw of the switch instead.
  In `viewer`, a view merges states whose order numbers compare alike, and drops a carrier's variables
  past their use and the phone's copy of what it has yet to read again.
- *Blobs.* Three processes: one attaches, one removes and one restores, or two remove. One content,
  since contents meet only in the error that ends a removal, and that may happen at any of them. One
  attachment and the picture name it. One restore. A view merges states which differ only in what
  nothing reads again: the rows of a database file that is neither at the path nor open, a backup after
  the last restore, and what a removal other than a sweep remembers once it has judged all it had to.
- *Stages.* Three values, so that one may lie between two; one task and one decision, since records do
  not meet in what a step does to them (one task can only wait for itself; that several never wait in
  a circle is what `TheWaitNeverGoesRound` proves); two who close at once, two seconds and five
  combinations of settings, among them one for decisions alone and one that is refused. A view drops
  the moments nothing will compare again.

Symmetry is used for sets of interchangeable ids, and neither it nor a view in a run with a liveness
property. Deadlock is not checked: a store nobody writes to is at rest, and the bounds stop the counters.

### The fairness assumed

- *Outbox.* Weak fairness of a walk's own steps: a process that runs goes on. Strong fairness of
  getting the lock: SQLite's busy handler retries, and the lock is held for moments. Weak fairness of
  the tick: the scheduler starts it every hour. Commands typed by people and agents have none.
- *Due.* Weak fairness of the timer's waking and of each tick's steps. Nothing makes midnight come or a
  person run a tick, and a fault may happen but need not. Faults are bounded, so `OwedIsWarned` says
  that a turn which failed is taken again, not that the machine never fails.
- *Viewer*, for `StuckRowsGo`. Weak fairness of the steps of a turn, of some start of a face, of the
  moment a wait ends, of finishing a set-up once begun, and of the phone's read. No write and no throw
  of the switch has any. Faults are bounded, as above.
- The other modules have safety properties only and no fairness.


## 5. What is proved

`tlapm` checks 10,281 obligations. The theorems hold for all values of the constants that satisfy the
assumptions: for any sets of faces, decisions, projects, ticks, carriers and closers, any finite ones of
tasks, values, runs, records, contents and processes, any picture that a launch lets through, any page
size and any bounds.

| Module | Theorem | Says |
|---|---|---|
| `OutboxProofs` | `TypeCorrect` | types |
| | `NoWalkIsGapped` | no walk is told its cursor is gone |
| | `NothingLostNothingTwice` | standing rows are those past the cursor, carried ones those below; in order, once (`CarriedOnceInOrder`) |
| | `ImplementsEventLog` | `Spec => EventLog!Spec` |
| `DecisionBookProofs` | `BookTypeCorrect`, `StampsAlwaysAgree`, `EdgesAlwaysSound`, `RejectionIsForGood` | types, and the properties of decisions in run `premises` |
| `TaskBoardProofs` | `TypeCorrect`, `NeverACycle`, `EdgesStaySound`, `DraftsStaySecret` | types, and the properties of run `board` |
| | `SomeoneAlwaysCanStart` | while a task is open there is an open one that waits on no other |
| | `BlockersAreDated`, `LateBlockersAreReported` | an open blocker of a reserved task is dated; it is reported to the holder, or came in the reservation's own second, or was opened again |
| | `LooseGroundsAreDated` | the property of grounds in run `premises` |
| | `BoardIsABook` | every behaviour of the board is one of the book |
| `StageOrderProofs` | `StagesAreOfTheirKind` | types |
| | `RequiredAlwaysOffers`, `AnswersStaySingle`, `TheWaitNeverGoesRound`, `ReopeningsAreReported`, `AnswersAreKept`, `ReleasesAreSaid` | the properties of run `stages` |
| `DueTickProofs` | `TicksAreOfTheirKind` | types |
| | `MarkedDaysWereCarriedOut` | a day that is marked was carried out, on days and at instants, but for a deadline that went by between two readings of a tick |
| | `RepeatsArePaidFor` | a day warned of more often than once had a fault or a tick by hand for each time |
| `AutomationRunProofs` | `Types` | types |
| | `OneRunInside` | an action that takes one run at a time has one run inside |
| | `HeldByRunsUnderWay`, `NoReservationLeft` | what a run reserved is held by a run under way, in the stretch it is in; paused before its next task, a run holds nothing |
| | `PausesBetweenActions` | no pause finds a run inside an action |
| | `NeverMore` | no more runs are under way than may be |
| | `NoneAfterTheAsk` | no run reserves a task after it was asked to pause before its next, nor after its automation was stopped |
| | `FirstGoesIn` | of the runs before an empty action, one is behind nobody |
| `ViewerProofs` | `RowsAreOfTheirKind` | types |
| | `NothingIsLeftBehind` | what the server lacks is waiting or will be read, but for a deletion a whole picture went past |
| | `LevelCarriersHaveRead` | without a fault, a carrier that calls itself level has read all there is |
| | `ThePassedIsHeld` | a phone holds everything its place in the order is past |
| | `ViewerIsAMirror` | `Spec => Mirror!Spec` |
| `BlobsProofs` | `BlobsAreOfTheirKind` | types |
| | `SureBytesStay` | a row committed over bytes nobody was taking keeps them |
| | `YoungBytesWait` | bytes an attach wrote are there when it comes to name them, but for an erase, which takes young ones on purpose |
| | `SweepsAreClean` | the garbage a sweep saw is gone when it went through, was named meanwhile or was written anew |

The type invariants of the first four modules, `CarriedOnceInOrder`, `SomeoneCanStart` and the two about
blockers are proved and no longer checked by a run: they are types, or follow from what the runs check.

**The outbox.** The safety properties are not inductive: they speak of the store after commits, while a
walk in progress holds half of the truth. `IInv` adds three parts. *LockInv*: a walking face holds the
lock, so there is one. *SeenInv*: what it has seen is what is recognised between the stored cursor and
its own position, in order. *PageInv*: a page it goes through holds the next rows without a hole, and
all of them unless it was cut. A commit then turns *SeenInv* into the store's own invariant. Two lemmas
about rising sequences carry the concatenation. The refinement follows from the same invariant: a
commit with something new is `Carry`, one with nothing and every other step but `Write` stutters.

**The book.** `DInv` adds that a live decision's home is a standing project (or a new edge could join
two that do not stand), that a decision not yet made has no date (or its first draft would have one),
and that a rejected one is not a draft (or finishing it would overturn the verdict).

**The board.** `Board` has `DInv` inside: `BoardStepIsBookStep` shows each step of the board to be a
step or stutter of the book, and the book's theorem is used, not repeated. Acyclicity is the argument
that needs an idea. `Reaches(from, target)` says every set that holds `from` and is closed under the
edges holds `target`; so *not reached* comes with a closed set as its witness. Drawing an edge from `t`
to `b` when `t` is not reached from `b`: for any edge `e`, old or new, one builds from the witness a
set closed under the new edges that separates the ends of `e`. Taking edges away keeps closed sets
closed. For premises, *unsettled implies dated by one of the causes* is not inductive: remove one
supersession, and another may be what still holds. The invariant dates a ground by each cause at once.

That somebody can start needs more than acyclicity, namely that there are finitely many tasks:
`SomeoneIsLast` ranks a task by the number of tasks it reaches. Along an edge the rank falls, so among
the open tasks one of least rank waits on no open one.

**The stages.** The inductive invariant joins the types with `SoundAxis` (a sequential category is
ordered, closable, for tasks and of one answer, whatever came in which order), `RequiredOffers`,
`OneAnswer` and `ReopenedIsReported`. Without `SoundAxis` a raise to sequential after a change of
another setting would meet tasks with two answers; without the types, a deleted value could still have a
row. That the wait never goes round is no invariant of its own but follows from the state: the order of
the values is strict, so among those a task waits for one is foremost, and whoever is on it waits for a
value before it, which would be waited for as well. `AnswerKept` is of steps: of each that takes a row
away, it is shown which row is left or why the category asks for none.

The announcing has two readings that overlap: a closer reads what it released before another has said
its own word. `WordsOwed` says that while the word on a task is owed, the closer who owes it has yet to
speak and would name the task if it spoke now. A close releases only tasks that waited for its value and
for nothing else (`ClosingReleases`), so that it is true when the word comes to be owed; and a step after
which the word would no longer name the task ends what is owed of it.

**The tick.** *A marked day was carried out* needs what a tick has read so far. `ReadSoFar` says of each
window behind it that whatever has been owed all day is in its hands, and of the time after its commit
that the warning stands. An instant that goes over moves its task to a window the tick may have behind
it; only between *overdue* and *today* is it then unread, and that is what `slipped` holds. Midnight
makes both empty, for a tick of yesterday owes today nothing. *Each
warning too many is paid for* is an account. A day has been charged for by the commits made for it; it
may still be charged by each tick run by hand that has not committed, and by each that may put an older
mark over the day's; and once more by the timer, unless the mark keeps it from it. `Paid` says these
together never exceed one, the faults and the ticks run by hand. Each step moves a charge from one place
to another or adds to both sides.

**The runs.** Each transaction of the code is a function from store to store, so the invariant speaks of
a store, and one proof serves wherever a transaction is a piece of a longer one. `Own` says what is so
of a run by itself: the task it holds is the one of its open stretch, and it is on its way to a step
that lets go of it. The pieces are shown to keep `AllBut` of the runs the transaction is about, and the
last piece gives those their `Own` back. `Single` and `Few` are the two limits. `Seen` ties the watch's
last look to the run: what it saw is still so when it opens the step, unless the run was copied afresh
in between, and then the run holds no task or the step is its entry. That no task is taken after an ask
follows from `GainsNone`: of all the pieces only going in at a take gives a run a task, and the
transaction that goes in asks about the pause and the stop itself. `LineMoves` follows from there being
a least pair of arrival and number among finitely many runs.

**The Viewer.** A carrier works over many requests with what it read at the first. The turn is what all
of it rests on: `Turns` says no carrier is past its first question but the one that has it. With that,
the invariant says what the carrier holds of the store (`Bounded`: nothing the feed does not hold;
`Levelled`: without a fault a version is remembered only when the feed was read up to it; `Carried`: a
record the server lacks will be met by whoever goes on from what is stored or from what is in memory)
and what it holds of the queue (`Onward`: nothing older than the server's; `Sent`: a part under way is
the front of the queue, and arrived, the server has it). `Enqueue` replaces the entries of one read at
once; `EnqueueIs` shows what it leaves, from `Nth` counting a finite set through, and is cited wherever
something is put in line. The refinement uses the same invariant: `Place` is a step of the mirror
because what arrives is a state the record was in and no older than the one before.

**The blobs.** What keeps a removal that read the rows too early from the bytes of a newer row is their
age, and what makes age a witness is that bytes remember who was under way when they were written
(`before`): they turn an hour old only after those have gone. The invariant says for each way bytes can
be there that every removal that might take them is among those: for an attach under way (`OwnIsFresh`),
for a row (`SureIsSafe`), for a restore (`PlacedIsSafe`). `SweepAccounts` is the other side: what a sweep
is due to take is in one of its hands, unless it was written again.

The constants' assumptions are named in the modules that declare them (`SizesAssumption`,
`BoundsAssumption`, `RecordsAssumption` and so on). Most say that bounds are naturals, sets finite and
marks no members. `RunAssumption` gives a picture its form, and `PictureAssumption` says what the checks
of a launch make of it. TLC evaluates each of them in a run.

### Model-checked only

- `EveryEventIsWalked`, `OwedIsWarned`, `WarningsAreCarried`, `StuckRowsGo`: liveness under fairness is
  out of the prover's reach.

The three disagreements of section 4 are refuted by TLC and so have no theorem.


## 6. What is not modelled

Whole parts, with the reason of each, are under `components` in `PROJECT.json`. In short: the swap of
the store file with its locks, notifications, triggers and the bindings of folders are left of what
changes state in several steps; the plan orders them. Queries, search and export read one snapshot and
change nothing. Migrations rewrite columns whose meaning a model could only restate. Screens, terminals,
wording, git and cryptography are other programs' state or no state.

Within the modelled parts, two assumptions run through everything:

- *A transaction is a step.* SQLite's `BEGIN IMMEDIATE` serialises writers, and each write operation
  opens one before it reads. No run could show two sessions reserving one task between check and write:
  that they cannot is this assumption, not a result. Where the code reads before it opens one (the due windows, the watch's
  look) the model has two steps. `Outbox` alone opens transactions up, because there the question is
  what was read before the lock was taken.
- *The wall clock does not go back.* Dates are compared for order. A machine whose clock is set back
  can date a change before a reservation it followed; the code has no defence, nor does it claim one.
