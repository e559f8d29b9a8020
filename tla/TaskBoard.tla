------------------------------ MODULE TaskBoard ------------------------------
(***************************************************************************)
(* Tasks, their dependencies and the decisions they rest on                *)
(* (ops/task.rs, ops/dependency.rs, the links of ops/decision.rs, and the  *)
(* reads of store_engine/read.rs they judge on).                           *)
(*                                                                         *)
(* Sessions of people and of AIs reserve tasks off one board by moving     *)
(* them from todo to in_progress.  The move is a compare-and-swap that     *)
(* also demands the declared premises: no open blocker, every linked       *)
(* decision settled, the creation finished.  Premises may change under a   *)
(* reservation; it is not taken back, and premise_change_since is how its  *)
(* holder learns of it.  Every operation is one BEGIN IMMEDIATE            *)
(* transaction and so one step.                                            *)
(***************************************************************************)
EXTENDS DecisionBook

CONSTANTS
  Tasks,       \* the ids `next_id` can hand out; one is never handed out twice
  Inbox        \* the home of a task in no project

ASSUME InboxAssumption == Inbox \notin Projects
ASSUME TasksAssumption == IsFiniteSet(Tasks)

VARIABLES
  life,        \* whether the row is unborn, live or gone
  draft,       \* task.draft: the creation is not finished
  status,      \* task.status
  since,       \* task.status_changed_at
  home,        \* task.project_id, or Inbox
  deps,        \* task_dependency: <<t, b>> when t waits on b
  depAt,       \* task_dependency.established_at
  links,       \* decision_task_link: <<d, t>>
  linkAt,      \* decision_task_link.linked_at
  announced    \* history: task.created events fired

tvars == <<life, draft, status, since, home, deps, depAt, links, linkAt, announced>>
vars  == <<clock, projects, dvars, tvars>>

Statuses == {"todo", "in_progress", "blocked", "done", "rejected"}
Closed == {"done", "rejected"}
Homes == Projects \cup {Inbox}
TaskPairs == Tasks \X Tasks
LinkPairs == Decisions \X Tasks

TypeOK ==
  /\ DTypeOK
  /\ life \in [Tasks -> Lives]
  /\ draft \in [Tasks -> BOOLEAN]
  /\ status \in [Tasks -> Statuses]
  /\ since \in [Tasks -> Times]
  /\ home \in [Tasks -> Homes]
  /\ deps \subseteq TaskPairs
  /\ depAt \in [TaskPairs -> Times]
  /\ links \subseteq LinkPairs
  /\ linkAt \in [LinkPairs -> Times]
  /\ announced \in [Tasks -> Nat]

Init ==
  /\ DInit
  /\ life = [t \in Tasks |-> "unborn"]
  /\ draft = [t \in Tasks |-> TRUE]
  /\ status = [t \in Tasks |-> "todo"]
  /\ since = [t \in Tasks |-> 1]
  /\ home = [t \in Tasks |-> Inbox]
  /\ deps = {}
  /\ depAt = [q \in TaskPairs |-> 1]
  /\ links = {}
  /\ linkAt = [q \in LinkPairs |-> 1]
  /\ announced = [t \in Tasks |-> 0]

Live == {t \in Tasks : life[t] = "live"}
Open(t) == status[t] \notin Closed

\* crosses_projects: the inbox is no project, so nothing crosses into it.
Crosses(p, q) == p # Inbox /\ q # Inbox /\ p # q

-----------------------------------------------------------------------------
(* What the operations read inside their transaction.                      *)

\* dependency_reaches: `target` lies in every set that holds `from` and
\* follows the edges out.
Reaches(from, target) ==
  \A S \in SUBSET Tasks :
    from \in S /\ (\A e \in deps : e[1] \in S => e[2] \in S) => target \in S

\* read::reserve_blockers: what holds a reservation down, as three sets and
\* the draft flag.
OpenBlockers(t) == {b \in Live : <<t, b>> \in deps /\ Open(b)}
UnsettledGrounds(t) == {d \in LiveDecisions : <<d, t>> \in links /\ Unsettled(d)}
Held(t) == OpenBlockers(t) # {} \/ UnsettledGrounds(t) # {} \/ draft[t]

\* read::edge_peer_projects.
PeerHomes(t) ==
  {home[b] : b \in {b \in Tasks : <<t, b>> \in deps \/ <<b, t>> \in deps}}
    \cup {dhome[d] : d \in {d \in Decisions : <<d, t>> \in links}}

\* read::premise_change_since: the premises moved since the status began.
AddedBlockers(t) == {b \in OpenBlockers(t) : depAt[<<t, b>>] > since[t]}
AddedDecisions(t) == {d \in UnsettledGrounds(t) : linkAt[<<d, t>>] > since[t]}

ReopenedDecisions(t) ==
  {d \in UnsettledGrounds(t) :
     \/ dclock[d] > since[t]
     \/ \E s \in LiveDecisions :
          edge[<<s, d>>] = "supersedes" /\ drawnAt[<<s, d>>] > since[t]}

-----------------------------------------------------------------------------
(* Creating, moving and deleting a task.                                   *)

\* The first stage: a todo nobody can reserve yet.
TaskAdd(t, h) ==
  /\ life[t] = "unborn"
  /\ h \in projects \cup {Inbox}
  /\ life' = [life EXCEPT ![t] = "live"]
  /\ home' = [home EXCEPT ![t] = h]
  /\ draft' = [draft EXCEPT ![t] = TRUE]
  /\ status' = [status EXCEPT ![t] = "todo"]
  /\ since' = [since EXCEPT ![t] = clock]
  /\ UNCHANGED <<deps, depAt, links, linkAt, announced>>

\* The second stage: the draft flag falls and task.created goes out, once.
\* A required axis left blank refuses it and changes nothing.
FinishCreating(t) ==
  /\ t \in Live
  /\ draft[t]
  /\ draft' = [draft EXCEPT ![t] = FALSE]
  /\ announced' = [announced EXCEPT ![t] = @ + 1]
  /\ UNCHANGED <<life, status, since, home, deps, depAt, links, linkAt>>

\* Mutant of MoveTo: only the edges the task draws are asked, not the ones
\* drawn at it.
MoveToForwardOnly(t, p) ==
  /\ t \in Live
  /\ p \in projects
  /\ p # home[t]
  /\ \A b \in Tasks : <<t, b>> \in deps => ~Crosses(p, home[b])
  /\ home' = [home EXCEPT ![t] = p]
  /\ UNCHANGED <<life, draft, status, since, deps, depAt, links, linkAt, announced>>

\* To a project, never back to the inbox, and refused when an edge would
\* come to cross.
MoveTo(t, p) ==
  /\ t \in Live
  /\ p \in projects
  /\ p # home[t]
  /\ \A q \in PeerHomes(t) : ~Crosses(p, q)
  /\ home' = [home EXCEPT ![t] = p]
  /\ UNCHANGED <<life, draft, status, since, deps, depAt, links, linkAt, announced>>

\* delete_subtree over several: the edges and links at either end, then the
\* rows.
SweepTasks(gone, goneDecisions) ==
  /\ life' = [t \in Tasks |-> IF t \in gone THEN "gone" ELSE life[t]]
  /\ deps' = {e \in deps : e[1] \notin gone /\ e[2] \notin gone}
  /\ links' = {l \in links : l[1] \notin goneDecisions /\ l[2] \notin gone}
  /\ UNCHANGED <<draft, status, since, home, depAt, linkAt, announced>>

TaskDelete(t) ==
  /\ t \in Live
  /\ SweepTasks({t}, {})

-----------------------------------------------------------------------------
(* The status.                                                             *)

\* Only a real transition moves the status clock.
SetStatus(t, s) ==
  /\ status' = [status EXCEPT ![t] = s]
  /\ since' = [since EXCEPT ![t] = IF s = status[t] THEN @ ELSE clock]
  /\ UNCHANGED <<life, draft, home, deps, depAt, links, linkAt, announced>>

\* set_status -> in_progress: the compare-and-swap, and then `ready`.
Reserve(t) ==
  /\ t \in Live
  /\ status[t] = "todo"
  /\ ~Held(t)
  /\ SetStatus(t, "in_progress")

\* set_status -> todo.
Release(t) ==
  /\ t \in Live
  /\ SetStatus(t, "todo")

\* Mutant of Settle: a creation still open can be closed like any other.
SettleDraft(t, s) ==
  /\ t \in Live
  /\ SetStatus(t, s)

\* set_status -> done, rejected or blocked: unconditional on a written task.
Settle(t, s) ==
  /\ t \in Live
  /\ ~draft[t]
  /\ SetStatus(t, s)

-----------------------------------------------------------------------------
(* The edges of a task.                                                    *)

\* Mutant of AddDependency: only the direct way back is looked at.
AddDependencyDirectOnly(t, b) ==
  /\ t # b /\ t \in Live /\ b \in Live
  /\ ~Crosses(home[t], home[b])
  /\ <<t, b>> \notin deps
  /\ <<b, t>> \notin deps
  /\ deps' = deps \cup {<<t, b>>}
  /\ depAt' = [depAt EXCEPT ![<<t, b>>] = clock]
  /\ UNCHANGED <<life, draft, status, since, home, links, linkAt, announced>>

\* Refused across projects and where it would close a cycle; an edge that is
\* there is left as it is.
AddDependency(t, b) ==
  /\ t # b /\ t \in Live /\ b \in Live
  /\ ~Crosses(home[t], home[b])
  /\ <<t, b>> \notin deps
  /\ ~Reaches(b, t)
  /\ deps' = deps \cup {<<t, b>>}
  /\ depAt' = [depAt EXCEPT ![<<t, b>>] = clock]
  /\ UNCHANGED <<life, draft, status, since, home, links, linkAt, announced>>

RemoveDependency(t, b) ==
  /\ <<t, b>> \in deps
  /\ deps' = deps \ {<<t, b>>}
  /\ UNCHANGED <<life, draft, status, since, home, depAt, links, linkAt, announced>>

\* decision::link.
Link(d, t) ==
  /\ d \in LiveDecisions /\ t \in Live
  /\ ~Crosses(dhome[d], home[t])
  /\ <<d, t>> \notin links
  /\ links' = links \cup {<<d, t>>}
  /\ linkAt' = [linkAt EXCEPT ![<<d, t>>] = clock]
  /\ UNCHANGED <<life, draft, status, since, home, deps, depAt, announced>>

\* decision::unlink.
Unlink(d, t) ==
  /\ <<d, t>> \in links
  /\ links' = links \ {<<d, t>>}
  /\ UNCHANGED <<life, draft, status, since, home, deps, depAt, linkAt, announced>>

-----------------------------------------------------------------------------
TaskStep ==
  \E t \in Tasks :
    \/ \E h \in Homes : TaskAdd(t, h)
    \/ FinishCreating(t) \/ TaskDelete(t)
    \/ \E p \in Projects : MoveTo(t, p)
    \/ Reserve(t) \/ Release(t)
    \/ \E s \in {"done", "rejected", "blocked"} : Settle(t, s)
    \/ \E b \in Tasks : AddDependency(t, b) \/ RemoveDependency(t, b)
    \/ \E d \in Decisions : Link(d, t) \/ Unlink(d, t)

\* A deleted decision takes its links to tasks along.
DecisionGone(d) ==
  /\ DecisionDelete(d)
  /\ SweepTasks({}, {d})

\* project::delete: every task and decision of the project, in one commit.
ProjectDelete(p) ==
  /\ DProjectDelete(p)
  /\ SweepTasks({t \in Live : home[t] = p}, {d \in LiveDecisions : dhome[d] = p})

Next ==
  \/ TaskStep /\ UNCHANGED <<clock, projects, dvars>>
  \/ DStep /\ UNCHANGED <<clock, projects, tvars>>
  \/ \E d \in Decisions : DecisionGone(d) /\ UNCHANGED <<clock, projects>>
  \/ \E p \in Projects : ProjectDelete(p) /\ UNCHANGED clock
  \/ SecondPasses /\ UNCHANGED <<projects, dvars, tvars>>

Spec == Init /\ [][Next]_vars

-----------------------------------------------------------------------------
(* What must hold.                                                         *)

\* The dependency graph has no cycle, though every edge was checked alone:
\* from where an edge leads, no way goes back to where it starts.
Acyclic == \A e \in deps : ~Reaches(e[2], e[1])

\* No edge of a task dangles or crosses projects, after any sequence of
\* edges, moves and deletions ("an edge that was legal within one project
\* becomes a crossing as soon as one of its ends moves", ops/task.rs), and
\* no task outlives its project.
TaskEdgesSound ==
  /\ \A e \in deps : {e[1], e[2]} \subseteq Live /\ ~Crosses(home[e[1]], home[e[2]])
  /\ \A l \in links : l[1] \in LiveDecisions /\ l[2] \in Live
                        /\ ~Crosses(dhome[l[1]], home[l[2]])
  /\ \A t \in Live : home[t] \in projects \cup {Inbox}

\* A draft is a todo nobody holds, and the created event of a task has gone
\* out exactly once when, and only when, its creation is finished.
DraftIsSecret ==
  \A t \in Live :
    /\ draft[t] => status[t] = "todo"
    /\ announced[t] = IF draft[t] THEN 0 ELSE 1

\* Whoever holds a task hears of every decision that stopped being settled
\* under it: the ground of a reserved task is unsettled only if a clock of
\* the link, the decision or a superseding edge dates that to the
\* reservation's second or later, and later ones are reported.
UnsettledGroundIsDated ==
  \A t \in Live : status[t] = "in_progress" =>
    \A d \in UnsettledGrounds(t) :
      \/ d \in AddedDecisions(t) \cup ReopenedDecisions(t)
      \/ linkAt[<<d, t>>] = since[t] \/ dclock[d] = since[t]
      \/ \E s \in LiveDecisions :
           edge[<<s, d>>] = "supersedes" /\ drawnAt[<<s, d>>] = since[t]

\* An open blocker of a reserved task was pinned on, or opened again, no
\* earlier than the reservation: the guard let none through.
OpenBlockerIsDated ==
  \A t \in Live : status[t] = "in_progress" =>
    \A b \in OpenBlockers(t) :
      depAt[<<t, b>>] >= since[t] \/ since[b] >= since[t]

\* What the holder of a task hears of its blockers: an open one is reported as
\* added, or was pinned on in the reservation's own second, or was opened again
\* since, which nothing reports.
BlockerIsReported ==
  \A t \in Live : status[t] = "in_progress" =>
    \A b \in OpenBlockers(t) :
      b \in AddedBlockers(t) \/ depAt[<<t, b>>] = since[t] \/ since[b] >= since[t]

\* Some open task is free of open blockers whenever any is open: the declared
\* order never has everyone waiting on everyone.
SomeoneCanStart ==
  (\E t \in Live : Open(t)) => \E t \in Live : Open(t) /\ OpenBlockers(t) = {}
=============================================================================
