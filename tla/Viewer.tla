------------------------------- MODULE Viewer -------------------------------
(***************************************************************************)
(* Carrying the store to the reader's phone: the change feed, the carrier  *)
(* (viewer/send.rs, carried.rs, lock.rs, pace.rs, the set-off in           *)
(* store/mod.rs), the Worker that holds the records (worker/src/index.ts)  *)
(* and the phone that reads on from it.                                    *)
(*                                                                         *)
(* A carrier is a process a write sets off and does not wait for.  It      *)
(* takes the one turn there is or stops; copies what moved out of the feed *)
(* to the back of a queue; places the front of the queue, part by part;    *)
(* and writes down where it got to.  Each of these is a transaction or a   *)
(* request of its own, and a process may die between any two.              *)
(*                                                                         *)
(* A record's state is named by the position in the feed of the change     *)
(* that made it: ids are never used again, so a record is written until it *)
(* is deleted, and then no more.                                           *)
(***************************************************************************)
EXTENDS Integers, Sequences, SequencesExt, FiniteSets

CONSTANTS
  Records,     \* the rows of the store
  Carriers,    \* processes there is room for at once
  NoOne,       \* nobody has the turn
  RETAIN,      \* CHANGE_FEED_RETAIN
  PER_READ,    \* CHANGES_PER_READ
  PER_WRITE,   \* RECORDS_PER_WRITE
  PER_PAGE,    \* records one read of the phone's hands back
  MaxChanges,  \* bound: changes ever made
  MaxFaults,   \* bound: deaths, refusals, lost answers, failed reads
  MaxTurned,   \* bound: times the switch is thrown
  MaxSetups    \* bound: servers stood up after the first

ASSUME RecordsAssumption == IsFiniteSet(Records)
ASSUME CarriersAssumption == NoOne \notin Carriers
ASSUME SizesAssumption ==
  /\ {RETAIN, PER_READ, PER_WRITE, PER_PAGE} \subseteq Nat \ {0}
  /\ {MaxChanges, MaxFaults, MaxTurned, MaxSetups} \subseteq Nat

VARIABLES
  feed,      \* every change ever made: the record and what happened to it
  trimmed,   \* META_FEED_TRUNCATED_THROUGH
  queue,     \* viewer_pending, oldest first
  left,      \* viewer_send: where the carrier was left
  switch,    \* viewer_switch
  turn,      \* who holds viewer-sending.lock
  pc,        \* where each carrier is
  job,       \* each carrier's own variables
  rows,      \* the Worker's records: their place in the order, and their state
  standing,  \* the Worker's store row: the order's end and the version
  phone,     \* how far the phone has read, and what it holds
  setup,     \* where setting a server up stands
  clock,     \* the moments a wait has been for: the n-th is over from n on
  skipped,   \* no part of the program: records whose deletion a picture passed
  faults, turned, setups

store == <<feed, trimmed, queue, left, switch>>
work == <<turn, pc, job>>
server == <<rows, standing>>
counts == <<faults, turned, setups>>
vars == <<store, work, server, phone, setup, clock, skipped, counts>>

Nothing == [version |-> 0, cursor |-> 0, placed |-> 0, seq |-> 0, until |-> 0]
Idle == [version |-> 0, sending |-> 0, mem |-> Nothing, now |-> 0, page |-> 0,
         more |-> FALSE, parts |-> 0, batch |-> <<>>, answer |-> 0, failed |-> FALSE]
Blank == [r \in Records |-> [seq |-> 0, val |-> 0]]
Unread == [cursor |-> 0, copy |-> [r \in Records |-> 0]]

Latest == Len(feed)
Taken(c) == pc[c] \notin {"none", "off"}
Faulty == faults < MaxFaults /\ faults' = faults + 1

Lower(a, b) == IF a < b THEN a ELSE b

\* The change a record stands at, 0 if none was made to it.
Now(r) == LET C == {i \in 1..Latest : feed[i].rec = r}
          IN IF C = {} THEN 0 ELSE CHOOSE i \in C : \A j \in C : j <= i

\* What a reader sees of a state: nothing, where it is a deletion.
Seen(n) == IF n = 0 \/ feed[n].op = "delete" THEN 0 ELSE n

Live == {r \in Records : Seen(Now(r)) # 0}

Init ==
  /\ feed = <<>>
  /\ trimmed = 0
  /\ queue = <<>>
  /\ left = Nothing
  /\ switch = TRUE
  /\ turn = NoOne
  /\ pc = [c \in Carriers |-> "none"]
  /\ job = [c \in Carriers |-> Idle]
  /\ rows = Blank
  /\ standing = [seq |-> 0, version |-> 0]
  /\ phone = Unread
  /\ setup = "done"
  /\ clock = 0
  /\ skipped = {}
  /\ faults = 0
  /\ turned = 0
  /\ setups = 0

(***************************************************************************)
(* The faces.                                                              *)
(***************************************************************************)

\* set_the_viewer_off: a process is started, and nobody waits for it.
SetOff(c) ==
  /\ pc[c] = "none"
  /\ pc' = [pc EXCEPT ![c] = "off"]
  /\ UNCHANGED <<turn, job>>

\* A write commits, trims the feed where that is due, and sets a carrier off;
\* a face killed in between sets none off.
Write(r) ==
  /\ Latest < MaxChanges
  /\ \E op \in {"write", "delete"} :
       /\ op = "delete" => r \in Live
       /\ op = "write" => Now(r) = 0 \/ r \in Live
       /\ feed' = Append(feed, [rec |-> r, op |-> op])
  /\ \/ UNCHANGED trimmed
     \/ Latest + 1 - RETAIN > trimmed /\ trimmed' = Latest + 1 - RETAIN
  /\ \/ \E c \in Carriers : SetOff(c) /\ UNCHANGED faults
     \/ Faulty /\ UNCHANGED work
  /\ UNCHANGED <<queue, left, switch, server, phone, setup, clock, skipped, turned, setups>>

\* carry_what_was_left_behind: any start of a face asks whether rows are stuck.
StartUp(c) ==
  /\ queue # <<>> /\ switch /\ left.until <= clock
  /\ SetOff(c)
  /\ UNCHANGED <<store, server, phone, setup, clock, skipped, counts>>

\* Somebody asks for a send by hand.
SendByHand(c) ==
  /\ SetOff(c)
  /\ UNCHANGED <<store, server, phone, setup, clock, skipped, counts>>

ThrowSwitch ==
  /\ turned < MaxTurned
  /\ turned' = turned + 1
  /\ switch' = ~switch
  /\ UNCHANGED <<feed, trimmed, queue, left, work, server, phone, setup, clock, skipped, faults, setups>>

\* The moment the server named has come, or a new day's allowance has begun.
PauseLifts ==
  /\ left.until > clock
  /\ clock' = left.until
  /\ UNCHANGED <<store, work, server, phone, setup, skipped, counts>>

(***************************************************************************)
(* One turn of the carrier, first half: the reading.                       *)
(***************************************************************************)

\* has_read_nothing_out
FirstRun(l) == l.cursor = 0 /\ l.version = 0

\* Mutant: a wait once written down is not held against the clock.
WaitsForEver(c) == job[c].mem.until # 0

\* quiet, out_of_budget: by the moment the turn began, a wait is not over.
Waits(c) == job[c].mem.until > job[c].now

\* the_number_to_send
Number(version, l) ==
  IF l.placed # 0 /\ version = l.placed THEN version + 1 ELSE version

\* Mutant: what is queued again stands in the queue twice.
EnqueueBehind(q, new) == q \o new

\* The i-th of a set of places.
Nth(K, i) == CHOOSE k \in K : Cardinality({j \in K : j <= k}) = i

\* carried::enqueue: what waited under a key that comes again is taken off.
Enqueue(q, new) ==
  LET stays == {k \in DOMAIN q : \A i \in DOMAIN new : new[i].rec # q[k].rec}
  IN [i \in 1..Cardinality(stays) |-> q[Nth(stays, i)]] \o new

\* carried::drop_front
DropFront(q, n) == SubSeq(q, n + 1, Len(q))

\* The records as they stand, in the order of their names, which may be any.
Entries(S) == {[i \in DOMAIN s |-> [rec |-> s[i], val |-> Now(s[i])]] : s \in SetToSeqs(S)}

\* The page of the feed past a cursor, and whether it can still be read.
PageEnd(cursor) == Lower(cursor + PER_READ, Latest)
Gap(cursor) == cursor < trimmed \/ cursor > Latest

\* The records a stretch moved, each once: what it did to them last.
Moved(from, to, op) ==
  {r \in Records : \E i \in from..to :
     feed[i] = [rec |-> r, op |-> op] /\ \A j \in (i + 1)..to : feed[j].rec # r}

\* Mutant: nobody is asked for the turn.
BeginTurnBeside(c) ==
  /\ pc[c] = "off" /\ switch
  /\ turn' = c
  /\ pc' = [pc EXCEPT ![c] = "copy"]
  /\ job' = [job EXCEPT ![c] = [Idle EXCEPT !.version = Latest,
                                           !.sending = Number(Latest, left),
                                           !.mem = left, !.now = clock]]
  /\ UNCHANGED <<store, server, phone, setup, clock, skipped, counts>>

\* The turn is taken before the first question, and the version read before
\* the picture.
BeginTurn(c) ==
  /\ pc[c] = "off" /\ switch /\ turn = NoOne
  /\ turn' = c
  /\ pc' = [pc EXCEPT ![c] = "copy"]
  /\ job' = [job EXCEPT ![c] = [Idle EXCEPT !.version = Latest,
                                           !.sending = Number(Latest, left),
                                           !.mem = left, !.now = clock]]
  /\ UNCHANGED <<store, server, phone, setup, clock, skipped, counts>>

\* held_back: switched off, or another run has the turn. It does not wait.
StandDown(c) ==
  /\ pc[c] = "off"
  /\ ~switch \/ turn # NoOne
  /\ pc' = [pc EXCEPT ![c] = "none"]
  /\ UNCHANGED <<store, turn, job, server, phone, setup, clock, skipped, counts>>

\* The Worker has been told of everything there was when the turn began.
Level(c) ==
  /\ pc[c] = "copy" /\ ~FirstRun(job[c].mem) /\ job[c].mem.version = job[c].version
  /\ pc' = [pc EXCEPT ![c] = "remember"]
  /\ UNCHANGED <<store, turn, job, server, phone, setup, clock, skipped, counts>>

Reading(c) ==
  \/ pc[c] = "pages"
  \/ pc[c] = "copy" /\ ~FirstRun(job[c].mem) /\ job[c].mem.version # job[c].version

\* the_whole_backlog: a picture behind what was already queued.
CopyWhole(c) ==
  /\ \/ pc[c] = "copy" /\ FirstRun(job[c].mem)
     \/ Reading(c) /\ Gap(job[c].mem.cursor)
  /\ \E new \in Entries(Live) : queue' = Enqueue(queue, new)
  /\ job' = [job EXCEPT ![c].mem.cursor = Latest, ![c].mem.version = job[c].version]
  /\ skipped' = skipped \cup {r \in Records \ Live : Now(r) > job[c].mem.cursor}
  /\ pc' = [pc EXCEPT ![c] = "remember"]
  /\ UNCHANGED <<feed, trimmed, left, switch, turn, server, phone, setup, clock, counts>>

\* Mutant: the cursor is written down ahead of the queue it stands for.
ReadPageRemembering(c) ==
  /\ Reading(c) /\ ~Gap(job[c].mem.cursor)
  /\ job' = [job EXCEPT ![c].page = PageEnd(job[c].mem.cursor),
                        ![c].more = PageEnd(job[c].mem.cursor) < Latest]
  /\ left' = [left EXCEPT !.cursor = PageEnd(job[c].mem.cursor)]
  /\ pc' = [pc EXCEPT ![c] = "read back"]
  /\ UNCHANGED <<feed, trimmed, queue, switch, turn, server, phone, setup, clock,
                 skipped, counts>>

\* A page of the feed says which records moved ...
ReadPage(c) ==
  /\ Reading(c) /\ ~Gap(job[c].mem.cursor)
  /\ job' = [job EXCEPT ![c].page = PageEnd(job[c].mem.cursor),
                        ![c].more = PageEnd(job[c].mem.cursor) < Latest]
  /\ pc' = [pc EXCEPT ![c] = "read back"]
  /\ UNCHANGED <<store, turn, server, phone, setup, clock, skipped, counts>>

\* Mutant: the version is asked for after the records were read.
ReadBackThenAsk(c) ==
  LET from == job[c].mem.cursor + 1
      to   == job[c].page
  IN
  /\ pc[c] = "read back"
  /\ \E new \in Entries(Moved(from, to, "write") \cap Live),
          away \in Entries(Moved(from, to, "delete")) : queue' = Enqueue(queue, new \o away)
  /\ job' = [job EXCEPT ![c].mem.cursor = to, ![c].mem.version = Latest]
  /\ pc' = [pc EXCEPT ![c] = IF job[c].more THEN "pages" ELSE "remember"]
  /\ UNCHANGED <<feed, trimmed, left, switch, turn, server, phone, setup, clock, skipped, counts>>

\* ... and a later read fetches them: each as it stands by then, and none that
\* went away meanwhile. The deletions go behind.
ReadBack(c) ==
  LET from == job[c].mem.cursor + 1
      to   == job[c].page
  IN
  /\ pc[c] = "read back"
  /\ \E new \in Entries(Moved(from, to, "write") \cap Live),
          away \in Entries(Moved(from, to, "delete")) : queue' = Enqueue(queue, new \o away)
  /\ job' = [job EXCEPT ![c].mem.cursor = to, ![c].mem.version = job[c].version]
  /\ pc' = [pc EXCEPT ![c] = IF job[c].more THEN "pages" ELSE "remember"]
  /\ UNCHANGED <<feed, trimmed, left, switch, turn, server, phone, setup, clock, skipped, counts>>

\* A read or the queueing fails: what was copied out so far is written down.
CopyFails(c) ==
  /\ pc[c] \in {"copy", "pages", "read back"}
  /\ Faulty
  /\ job' = [job EXCEPT ![c].failed = TRUE]
  /\ pc' = [pc EXCEPT ![c] = "remember"]
  /\ UNCHANGED <<store, turn, server, phone, setup, clock, skipped, turned, setups>>

Release(c) ==
  /\ turn' = IF turn = c THEN NoOne ELSE turn
  /\ pc' = [pc EXCEPT ![c] = "none"]
  /\ job' = [job EXCEPT ![c] = Idle]

\* What was copied out is written down before anything is sent.
Remember(c) ==
  /\ pc[c] = "remember"
  /\ left' = job[c].mem
  /\ IF job[c].failed
       THEN Release(c)
       ELSE /\ job' = [job EXCEPT ![c].parts = (Len(queue) + PER_WRITE - 1) \div PER_WRITE]
            /\ pc' = [pc EXCEPT ![c] = IF queue = <<>> \/ Waits(c)
                                         THEN "finish" ELSE "drain"]
            /\ UNCHANGED turn
  /\ UNCHANGED <<feed, trimmed, queue, switch, server, phone, setup, clock, skipped, counts>>

(***************************************************************************)
(* Second half: the sending.                                               *)
(***************************************************************************)

\* Mutant: a record written again keeps its place in the order.
TakingInPlace(batch, version, last) ==
  /\ rows' = [r \in Records |->
       IF \E i \in DOMAIN batch : batch[i].rec = r
         THEN LET i == CHOOSE i \in DOMAIN batch : batch[i].rec = r
              IN [seq |-> IF rows[r].seq # 0 THEN rows[r].seq ELSE standing.seq + i,
                  val |-> batch[i].val]
         ELSE rows[r]]
  /\ standing' = [seq |-> standing.seq + Len(batch),
                  version |-> IF last THEN version ELSE standing.version]

\* place in the Worker: one batch, always written. Each record takes the next
\* number in the order; the last part settles the version.
Taking(batch, version, last) ==
  /\ rows' = [r \in Records |->
       IF \E i \in DOMAIN batch : batch[i].rec = r
         THEN LET i == CHOOSE i \in DOMAIN batch : batch[i].rec = r
              IN [seq |-> standing.seq + i, val |-> batch[i].val]
         ELSE rows[r]]
  /\ standing' = [seq |-> standing.seq + Len(batch),
                  version |-> IF last THEN version ELSE standing.version]

Foremost(q) == SubSeq(q, 1, Lower(PER_WRITE, Len(q)))

Sending(c) == pc[c] = "drain" /\ job[c].parts > 0 /\ ~Waits(c) /\ queue # <<>>

\* The foremost records are read off the queue and sent ...
Send(c) ==
  /\ Sending(c)
  /\ job' = [job EXCEPT ![c].batch = Foremost(queue)]
  /\ pc' = [pc EXCEPT ![c] = "sent"]
  /\ UNCHANGED <<store, turn, server, phone, setup, clock, skipped, counts>>

\* ... and arrive.
Place(c) ==
  /\ pc[c] = "sent"
  /\ Taking(job[c].batch, job[c].sending, job[c].parts = 1)
  /\ job' = [job EXCEPT ![c].answer = standing'.seq]
  /\ pc' = [pc EXCEPT ![c] = "answer"]
  /\ UNCHANGED <<store, turn, phone, setup, clock, skipped, counts>>

\* A part is refused or does not arrive; a refusal may name a moment to wait for.
Refused(c) ==
  /\ pc[c] = "sent"
  /\ Faulty
  /\ \E wait \in BOOLEAN :
       job' = [job EXCEPT ![c].failed = TRUE, ![c].mem.until = IF wait THEN job[c].now + 1 ELSE @]
  /\ pc' = [pc EXCEPT ![c] = "finish"]
  /\ UNCHANGED <<store, turn, server, phone, setup, clock, skipped, turned, setups>>

\* The order stands short of where this device expected it.
Short(c) ==
  job[c].mem.seq # 0 /\ job[c].answer < job[c].mem.seq + Len(job[c].batch)

\* The answer comes. The server's number is kept either way; what it took is
\* dropped from the front. The write may have used up the day's allowance.
Answered(c) ==
  /\ pc[c] = "answer"
  /\ \E spent \in BOOLEAN :
       /\ IF spent THEN Faulty ELSE UNCHANGED faults
       /\ job' = [job EXCEPT ![c].mem.seq = job[c].answer,
                             ![c].mem.until = IF spent THEN job[c].now + 1 ELSE IF Short(c) THEN @ ELSE 0,
                             ![c].failed = Short(c), ![c].batch = <<>>,
                             ![c].parts = IF Short(c) THEN @ ELSE @ - 1]
  /\ queue' = IF Short(c) THEN queue ELSE DropFront(queue, Len(job[c].batch))
  /\ pc' = [pc EXCEPT ![c] = IF Short(c) THEN "finish" ELSE "drain"]
  /\ UNCHANGED <<feed, trimmed, left, switch, turn, server, phone, setup, clock, skipped, turned, setups>>

\* What was taken is not known to be: it stays in the queue.
AnswerLost(c) ==
  /\ pc[c] = "answer"
  /\ Faulty
  /\ job' = [job EXCEPT ![c].failed = TRUE]
  /\ pc' = [pc EXCEPT ![c] = "finish"]
  /\ UNCHANGED <<store, turn, server, phone, setup, clock, skipped, turned, setups>>

\* The queue is emptied, or the allowance is spent. Only an emptied queue leaves
\* the Worker standing at the number this turn carried.
Drained(c) ==
  /\ pc[c] = "drain" /\ ~Sending(c)
  /\ job' = [job EXCEPT ![c].mem.placed =
                IF job[c].parts = 0 \/ ~Waits(c) THEN job[c].sending ELSE @]
  /\ pc' = [pc EXCEPT ![c] = "finish"]
  /\ UNCHANGED <<store, turn, server, phone, setup, clock, skipped, counts>>

\* Where the turn got to is written down, and the turn let go of.
Finish(c) ==
  /\ pc[c] = "finish"
  /\ left' = job[c].mem
  /\ Release(c)
  /\ UNCHANGED <<feed, trimmed, queue, switch, server, phone, setup, clock, skipped, counts>>

\* The kernel drops a dead process's hold.
Die(c) ==
  /\ pc[c] # "none"
  /\ Faulty
  /\ Release(c)
  /\ UNCHANGED <<store, server, phone, setup, clock, skipped, turned, setups>>

(***************************************************************************)
(* The phone, and setting a server up.                                     *)
(***************************************************************************)

\* read in the Worker: the next page of the order, past the phone's point.
Read ==
  LET After(r) == rows[r].seq > phone.cursor
      page == {r \in Records : After(r) /\
                 Cardinality({q \in Records : After(q) /\ rows[q].seq < rows[r].seq}) < PER_PAGE}
  IN
  /\ page # {}
  /\ phone' = [cursor |-> CHOOSE n \in {rows[r].seq : r \in page} :
                            \A r \in page : rows[r].seq <= n,
               copy |-> [r \in Records |-> IF r \in page THEN rows[r].val ELSE phone.copy[r]]]
  /\ UNCHANGED <<store, work, server, setup, clock, skipped, counts>>

\* The Worker is deployed over a database: the one that was there, or one made
\* anew, which holds nothing and whose phone has to be paired again.
StandUp ==
  /\ setups < MaxSetups /\ setup # "up"
  /\ setups' = setups + 1
  /\ setup' = "up"
  /\ \/ UNCHANGED <<server, phone>>
     \/ rows' = Blank /\ standing' = [seq |-> 0, version |-> 0] /\ phone' = Unread
  /\ UNCHANGED <<store, work, clock, skipped, faults, turned>>

\* carried::forget, once the Worker answers: numbers and queue, and whoever has
\* the turn is not asked.
Forget ==
  /\ setup = "up"
  /\ left' = Nothing
  /\ queue' = <<>>
  /\ setup' = IF turn = NoOne THEN "done" ELSE "crossed"
  /\ UNCHANGED <<feed, trimmed, switch, work, server, phone, clock, skipped, counts>>

Turn(c) ==
  \/ BeginTurn(c) \/ StandDown(c)
  \/ Level(c) \/ CopyWhole(c) \/ ReadPage(c) \/ ReadBack(c) \/ Remember(c)
  \/ Send(c) \/ Place(c) \/ Answered(c) \/ Drained(c) \/ Finish(c)

Fault(c) == CopyFails(c) \/ Refused(c) \/ AnswerLost(c) \/ Die(c)

Next ==
  \/ \E r \in Records : Write(r)
  \/ \E c \in Carriers : StartUp(c) \/ SendByHand(c) \/ Turn(c) \/ Fault(c)
  \/ ThrowSwitch \/ PauseLifts \/ Read \/ StandUp \/ Forget

Spec == Init /\ [][Next]_vars

FairSpec ==
  /\ Spec
  /\ \A c \in Carriers : WF_vars(Turn(c))
  /\ WF_vars(\E c \in Carriers : StartUp(c))
  /\ WF_vars(PauseLifts)
  /\ WF_vars(Forget)
  /\ WF_vars(Read)

(***************************************************************************)
(* What it promises.                                                       *)
(***************************************************************************)

\* Every row and every file holds a value of its kind, and the queue has a
\* record once.
TypeOK ==
  LET Numbers == [version : Nat, cursor : Nat, placed : Nat, seq : Nat, until : Nat]
  IN
  /\ feed \in Seq([rec : Records, op : {"write", "delete"}])
  /\ trimmed \in 0..Latest
  /\ queue \in Seq([rec : Records, val : 1..Latest])
  /\ \A i, j \in DOMAIN queue : queue[i].rec = queue[j].rec => i = j
  /\ left \in Numbers
  /\ switch \in BOOLEAN
  /\ turn \in Carriers \cup {NoOne}
  /\ pc \in [Carriers -> {"none", "off", "copy", "pages", "read back", "remember",
                          "drain", "sent", "answer", "finish"}]
  /\ job \in [Carriers -> [version : Nat, sending : Nat, mem : Numbers, now : Nat, page : Nat,
                           more : BOOLEAN, parts : Nat, answer : Nat,
                           failed : BOOLEAN,
                           batch : Seq([rec : Records, val : 1..Latest])]]
  /\ rows \in [Records -> [seq : Nat, val : 0..Latest]]
  /\ standing \in [seq : Nat, version : Nat]
  /\ phone \in [cursor : Nat, copy : [Records -> 0..Latest]]
  /\ setup \in {"done", "up", "crossed"}
  /\ clock \in Nat
  /\ skipped \subseteq Records
  /\ faults \in 0..MaxFaults /\ turned \in 0..MaxTurned /\ setups \in 0..MaxSetups

\* What the server shows of a record is what the store has, or it will be: the
\* change is ahead of the written cursor, in the queue as the store has it, or
\* part of a picture yet to be made.
Followed(r) ==
  \/ Seen(rows[r].val) = Seen(Now(r))
  \/ Now(r) > left.cursor
  \/ \E i \in DOMAIN queue : queue[i] = [rec |-> r, val |-> Now(r)]
  \/ FirstRun(left)

\* No interleaving of carriers, death, refusal, trimming of the feed or change
\* of server leaves a record behind for good. (But for a deletion that a whole
\* picture went past, and for a server set up while a carrier was on its way;
\* README.md tells of both.)
CarriedOrWaiting == setup = "done" => \A r \in Records : Followed(r) \/ r \in skipped

\* What send.rs says of a death between the queue and the cursor: a duplicate
\* and not a hole. Where the feed reaches back and no server was changed, no
\* record is left behind, deletions included.
ADuplicateNotAHole == trimmed = 0 /\ setups = 0 => \A r \in Records : Followed(r)

\* A turn that wrote down the store's present number has copied out everything
\* up to it: the next turn, which will find the two level and look no further,
\* leaves nothing behind.
LevelMeansRead ==
  faults = 0 /\ left.version = Latest /\ ~FirstRun(left) => left.cursor >= Latest

\* Whatever page the phone stopped at, it holds every record whose place in the
\* order it has passed just as the server does: a record written again takes a
\* new place ahead of every reader.
PassedIsHeld ==
  \A r \in Records :
    rows[r].seq \in 1..phone.cursor => phone.copy[r] = rows[r].val

\* The Worker's records, seen from the store, are a mirror that only moves on.
Shown == INSTANCE Mirror WITH
  made <- [i \in DOMAIN feed |-> feed[i].rec],
  there <- [r \in Records |-> rows[r].val]
ImplementsMirror == Shown!Spec

\* Rows never stay stuck while the Viewer is on: a face that starts sends on
\* what an earlier run left, however that one ended and whatever number the
\* order stands at by then.
StuckRowsGo == []<>(queue = <<>> \/ ~switch)
=============================================================================
