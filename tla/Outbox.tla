------------------------------- MODULE Outbox -------------------------------
(***************************************************************************)
(* The observation outbox and the walk that empties it                     *)
(* (store_engine/outbox.rs, outbox_drive.rs, the mounts in store/mod.rs).  *)
(*                                                                         *)
(* A write appends its events inside its own transaction.  A face (a       *)
(* command of the CLI, a command of the GUI, the hourly tick) then walks   *)
(* everything past the one persisted cursor, page by page, inside a        *)
(* transaction that holds SQLite's write lock from BEGIN IMMEDIATE, trims  *)
(* what it read and stores the cursor in the same commit.  What it saw is  *)
(* handed on only after the commit, so a crash in between loses it.        *)
(***************************************************************************)
EXTENDS Integers, Sequences, FiniteSets, Functions

CONSTANTS
  Faces,       \* the processes, or threads with a connection of their own
  TickFaces,   \* the ones the scheduler starts: they flush, and never write
  NoFace,      \* nobody holds the write lock
  PAGE,        \* rows one read of the outbox returns at most
  MaxBatch,    \* events one write fires at most
  MaxId,       \* bound: events ever fired
  MaxCrash     \* bound: processes killed

ASSUME FacesAssumption == NoFace \notin Faces /\ TickFaces \subseteq Faces
ASSUME SizesAssumption ==
  /\ PAGE \in Nat \ {0}
  /\ MaxBatch \in Nat
  /\ MaxId \in Nat
  /\ MaxCrash \in Nat

VARIABLES
  rows,        \* ids of the outbox rows standing in the store
  known,       \* ids, standing or not, whose event name this build recognises
  lastId,      \* sqlite_sequence: the highest id ever handed out
  cursor,      \* store_meta outbox_cursor
  truncated,   \* store_meta outbox_truncated_through
  lock,        \* who holds the store's write lock
  pc,          \* where each face is
  at,          \* each walk's own cursor
  page,        \* rows of the page a walk is going through
  more,        \* whether that page was cut short by PAGE
  seen,        \* Walked::seen
  carried,     \* history: every seen of every committed walk, in commit order
  gaps,        \* history: walks that were answered Gap
  crashes

store == <<rows, known, lastId, cursor, truncated>>
walk  == <<at, page, more, seen>>
vars  == <<rows, known, lastId, cursor, truncated, lock, pc, at, page, more,
           seen, carried, gaps, crashes>>

PCs == {"off", "idle", "want", "fetch", "observe", "commit", "hand"}
Walking == {"fetch", "observe", "commit"}

TypeOK ==
  /\ rows \subseteq 1..lastId
  /\ known \subseteq 1..lastId
  /\ lastId \in Nat
  /\ cursor \in Nat
  /\ truncated \in Nat
  /\ lock \in Faces \cup {NoFace}
  /\ pc \in [Faces -> PCs]
  /\ at \in [Faces -> Nat]
  /\ page \in [Faces -> SUBSET (1..lastId)]
  /\ more \in [Faces -> BOOLEAN]
  /\ seen \in [Faces -> Seq(Nat)]
  /\ carried \in Seq(Nat)
  /\ gaps \in Nat
  /\ crashes \in Nat

Init ==
  /\ rows = {}
  /\ known = {}
  /\ lastId = 0
  /\ cursor = 0
  /\ truncated = 0
  /\ lock = NoFace
  /\ pc = [f \in Faces |-> "off"]
  /\ at = [f \in Faces |-> 0]
  /\ page = [f \in Faces |-> {}]
  /\ more = [f \in Faces |-> FALSE]
  /\ seen = [f \in Faces |-> <<>>]
  /\ carried = <<>>
  /\ gaps = 0
  /\ crashes = 0

Go(f, from, to) == pc[f] = from /\ pc' = [pc EXCEPT ![f] = to]

-----------------------------------------------------------------------------
(* The mounts.                                                             *)

\* A face comes up and asks, with no lock, whether a previous run left rows
\* standing; only then is a walk worth making.
Start(f) ==
  /\ f \notin TickFaces
  /\ Go(f, "off", IF rows # {} THEN "want" ELSE "idle")
  /\ UNCHANGED <<store, walk, lock, carried, gaps, crashes>>

\* Mutant of Tick: the flush only rides along with a purpose that had work.
TickWithoutFlush(f) ==
  /\ f \in TickFaces
  /\ Go(f, "off", "idle")
  /\ UNCHANGED <<store, walk, lock, carried, gaps, crashes>>

\* The scheduler starts a tick, which flushes whether or not rows stand.
Tick(f) ==
  /\ f \in TickFaces
  /\ Go(f, "off", "want")
  /\ UNCHANGED <<store, walk, lock, carried, gaps, crashes>>

\* A mutating command commits, its events in the same transaction, and the
\* drive follows on the same open store.
Write(f) ==
  /\ f \notin TickFaces
  /\ lock = NoFace
  /\ Go(f, "idle", "want")
  /\ \E n \in 1..MaxBatch :
       /\ lastId + n <= MaxId
       /\ lastId' = lastId + n
       /\ rows' = rows \cup (lastId + 1)..(lastId + n)
       /\ \E k \in SUBSET ((lastId + 1)..(lastId + n)) : known' = known \cup k
  /\ UNCHANGED <<cursor, truncated, lock, walk, carried, gaps, crashes>>

\* The busy timeout runs out behind another writer: the drive is a warning
\* and the rows keep for the next one.
BusyTimeout(f) ==
  /\ lock # NoFace
  /\ Go(f, "want", "idle")
  /\ UNCHANGED <<store, walk, lock, carried, gaps, crashes>>

Quit(f) ==
  /\ Go(f, "idle", "off")
  /\ UNCHANGED <<store, walk, lock, carried, gaps, crashes>>

-----------------------------------------------------------------------------
(* The walk.                                                               *)

\* Mutant of BeginWalk: the face walks from the cursor it remembers.
BeginWalkFromMemory(f) ==
  /\ lock = NoFace
  /\ Go(f, "want", "fetch")
  /\ lock' = f
  /\ seen' = [seen EXCEPT ![f] = <<>>]
  /\ UNCHANGED <<store, at, page, more, carried, gaps, crashes>>

\* BEGIN IMMEDIATE, and only then the persisted cursor is read.
BeginWalk(f) ==
  /\ lock = NoFace
  /\ Go(f, "want", "fetch")
  /\ lock' = f
  /\ at' = [at EXCEPT ![f] = cursor]
  /\ seen' = [seen EXCEPT ![f] = <<>>]
  /\ UNCHANGED <<store, page, more, carried, gaps, crashes>>

Standing(c) == {r \in rows : r > c}

\* Mutant of PageOf: the page is read newest first.
PageOfNewest(c) ==
  {r \in Standing(c) : Cardinality({q \in Standing(c) : q > r}) < PAGE}

\* The first PAGE rows past the cursor, oldest first.
PageOf(c) ==
  {r \in Standing(c) : Cardinality({q \in Standing(c) : q < r}) < PAGE}

OutboxHead == IF rows = {} THEN 0 ELSE CHOOSE r \in rows : \A q \in rows : q <= r

\* events_since: Gap when retention has passed the cursor, which resyncs to
\* the head and ends the walk untrimmed; otherwise a page and whether more.
FetchPage(f) ==
  /\ pc[f] = "fetch"
  /\ IF at[f] < truncated
     THEN /\ at' = [at EXCEPT ![f] = OutboxHead]
          /\ seen' = [seen EXCEPT ![f] = <<>>]
          /\ gaps' = gaps + 1
          /\ cursor' = IF OutboxHead > cursor THEN OutboxHead ELSE cursor
          /\ lock' = NoFace
          /\ pc' = [pc EXCEPT ![f] = "idle"]
          /\ UNCHANGED <<page, more>>
     ELSE /\ page' = [page EXCEPT ![f] = PageOf(at[f])]
          /\ more' = [more EXCEPT ![f] = Cardinality(Standing(at[f])) > PAGE]
          /\ pc' = [pc EXCEPT ![f] = "observe"]
          /\ UNCHANGED <<at, seen, gaps, cursor, lock>>
  /\ UNCHANGED <<rows, known, lastId, truncated, carried, crashes>>

\* One row of the page: the cursor steps over it, and a recognised one is
\* carried on Walked::seen.
Observe(f) ==
  /\ pc[f] = "observe"
  /\ \E r \in page[f] :
       /\ \A q \in page[f] : r <= q
       /\ at' = [at EXCEPT ![f] = r]
       /\ page' = [page EXCEPT ![f] = @ \ {r}]
       /\ seen' = [seen EXCEPT ![f] = IF r \in known THEN Append(@, r) ELSE @]
  /\ UNCHANGED <<store, lock, pc, more, carried, gaps, crashes>>

\* The page is spent: read the next one, or finish.
PageDone(f) ==
  /\ page[f] = {}
  /\ Go(f, "observe", IF more[f] THEN "fetch" ELSE "commit")
  /\ UNCHANGED <<store, walk, lock, carried, gaps, crashes>>

\* Mutant of CommitWalk: the trim stops one row short of the cursor.
CommitWalkKeepingLast(f) ==
  /\ Go(f, "commit", "hand")
  /\ rows' = {r \in rows : r >= at[f]}
  /\ truncated' = IF rows' # rows THEN at[f] ELSE truncated
  /\ cursor' = IF at[f] > cursor THEN at[f] ELSE cursor
  /\ lock' = NoFace
  /\ carried' = carried \o seen[f]
  /\ UNCHANGED <<known, lastId, walk, gaps, crashes>>

\* trim_fanned_out, the cursor if it moved, and the commit: one atom.
CommitWalk(f) ==
  /\ Go(f, "commit", "hand")
  /\ rows' = {r \in rows : r > at[f]}
  /\ truncated' = IF rows' # rows THEN at[f] ELSE truncated
  /\ cursor' = IF at[f] > cursor THEN at[f] ELSE cursor
  /\ lock' = NoFace
  /\ carried' = carried \o seen[f]
  /\ UNCHANGED <<known, lastId, walk, gaps, crashes>>

\* What the walk saw goes to whoever observes a write, the lock long gone.
HandOn(f) ==
  /\ Go(f, "hand", "idle")
  /\ seen' = [seen EXCEPT ![f] = <<>>]
  /\ UNCHANGED <<store, lock, at, page, more, carried, gaps, crashes>>

\* A process killed at any point: an open transaction rolls back whole.
Crash(f) ==
  /\ crashes < MaxCrash
  /\ pc[f] # "off"
  /\ pc' = [pc EXCEPT ![f] = "off"]
  /\ lock' = IF lock = f THEN NoFace ELSE lock
  /\ seen' = [seen EXCEPT ![f] = <<>>]
  /\ page' = [page EXCEPT ![f] = {}]
  /\ crashes' = crashes + 1
  /\ UNCHANGED <<store, at, more, carried, gaps>>

-----------------------------------------------------------------------------
WalkStep(f) == FetchPage(f) \/ Observe(f) \/ PageDone(f) \/ CommitWalk(f) \/ HandOn(f)

Next ==
  \E f \in Faces :
    \/ Start(f) \/ Tick(f) \/ Write(f) \/ BusyTimeout(f) \/ Quit(f)
    \/ BeginWalk(f) \/ WalkStep(f)
    \/ Crash(f)

Spec == Init /\ [][Next]_vars

\* A process that runs goes on running, a waiter on SQLite's lock gets it
\* when it keeps coming free, and the scheduler wakes the tick every hour.
Fairness ==
  \A f \in Faces :
    /\ WF_vars(WalkStep(f))
    /\ SF_vars(BeginWalk(f))
    /\ WF_vars(f \in TickFaces /\ (Tick(f) \/ Quit(f)))

FairSpec == Spec /\ Fairness

-----------------------------------------------------------------------------
(* What must hold.                                                         *)

Log == INSTANCE EventLog WITH fired <- lastId, walked <- cursor, out <- carried

\* No walk is ever told its cursor is gone: with the cursor read under the
\* lock, the retention watermark never passes it ("Under the lock, not
\* before it", outbox_drive.rs).
NoGap == gaps = 0

\* Nothing is reclaimed that no walk carried, and nothing carried is left
\* standing to be carried again: the standing rows are exactly the ones past
\* the cursor, and what was carried are exactly the recognised ones below.
ReclaimedIffCarried ==
  /\ rows = (cursor + 1)..lastId
  /\ Range(carried) = known \cap 1..cursor

\* Both faces together carry each event at most once, in the order fired.
CarriedOnceInOrder == Log!Rising(carried)

\* The outbox as a whole is the event log it promises to be.
RefinesLog == Log!Spec

\* Whatever fired is eventually passed by a walk, a killed process and a lost
\* race for the lock included: "picks up from it next time".
EveryEventIsWalked == \A i \in 1..MaxId : (i <= lastId) ~> (cursor >= i)
=============================================================================
