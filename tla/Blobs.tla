-------------------------------- MODULE Blobs --------------------------------
(***************************************************************************)
(* The attachments' bytes (blob.rs), which lie beside the database and not *)
(* in it, and everything that puts them there or takes them away: an       *)
(* attach, a deletion and its reclaim, a hard erase, the sweep, and a      *)
(* restore (attachment.rs, store/read.rs, hard_erase.rs, archive.rs).      *)
(*                                                                         *)
(* Bytes are named by what they hold, so equal bytes lie there once, and   *)
(* whoever names them is asked of the rows.  No transaction covers both:   *)
(* an attach writes the bytes and then its row, a removal reads the rows   *)
(* and then unlinks, and several processes do so at once.                  *)
(***************************************************************************)
EXTENDS Integers, FiniteSets

CONSTANTS
  Procs,         \* processes with the store open
  Contents,      \* what files hold, as their hashes
  Nothing,
  Rows,          \* attachment rows that may be live at once
  Icon,          \* the project's own picture, a row that is no attachment
  MaxRestores    \* bound on the restores

ASSUME BlobsAssumption ==
  /\ IsFiniteSet(Procs) /\ IsFiniteSet(Contents) /\ IsFiniteSet(Rows)
  /\ Nothing \notin Contents /\ Icon \notin Rows
  /\ MaxRestores \in Nat

VARIABLES
  rows,          \* per database file the store has had: what each row names
  gen,           \* the one at the store's path; a connection may be on an older
  file,          \* per content: "absent", "young" (under GC_MIN_AGE) or "old"
  before,        \* per content: who must end before its file can be an hour old
  archive,       \* the last backup: its rows and its bytes
  job,           \* per process: what it is in the middle of
  sure           \* history, per row at the path: committed over bytes nobody was removing

vars == <<rows, gen, file, before, archive, job, sure>>

Named == Rows \cup {Icon}
Blank == [n \in Named |-> Nothing]
Idle == [does |-> "nothing"]
NoArchive == [rows |-> Blank, bytes |-> {}]

Busy == {p \in Procs : job[p] # Idle}
Removing(p) == job[p].does \in {"reclaim", "erase", "sweep"}
Present == {c \in Contents : file[c] # "absent"}
Attached(g) == {rows[g][n] : n \in Rows} \ {Nothing}
Images(g) == {rows[g][Icon]} \ {Nothing}

\* The swap lock is held from before the bytes are placed; an open that meets it fails.
Open(p) == job[p] = Idle /\ \A q \in Procs : job[q].does # "restore"

Init ==
  /\ rows = [g \in 0..MaxRestores |-> Blank]
  /\ gen = 0
  /\ file = [c \in Contents |-> "absent"]
  /\ before = [c \in Contents |-> {}]
  /\ archive = NoArchive
  /\ job = [p \in Procs |-> Idle]
  /\ sure = [n \in Named |-> FALSE]

-----------------------------------------------------------------------------
(* Beginning and ending.  A file turns an hour old only when whoever was    *)
(* under way beside the one that wrote it has ended: work takes less than   *)
(* the hour.                                                                *)

Writers(c) == {q \in before[c] : job[q].does = "attach" /\ job[q].c = c}

\* p begins beside whoever is still attaching what it wrote.
Joined(p) == [c \in Contents |-> IF Writers(c) = {} THEN before[c] ELSE before[c] \cup {p}]

\* Mutant: the bytes keep the hour of the file they were copied from.
WrittenKeepingItsHour(p, cs) ==
  /\ file' = [c \in Contents |-> IF c \in cs THEN "old" ELSE file[c]]
  /\ before' = [c \in Contents |-> IF c \in cs THEN Busy \cup {p} ELSE Joined(p)[c]]

Written(p, cs) ==
  /\ file' = [c \in Contents |-> IF c \in cs THEN "young" ELSE file[c]]
  /\ before' = [c \in Contents |-> IF c \in cs THEN Busy \cup {p} ELSE Joined(p)[c]]

End(p) ==
  /\ job' = [job EXCEPT ![p] = Idle]
  /\ before' = [c \in Contents |-> before[c] \ {p}]

Age(c) ==
  /\ file[c] = "young" /\ before[c] = {}
  /\ file' = [file EXCEPT ![c] = "old"]
  /\ UNCHANGED <<rows, gen, before, archive, job, sure>>

\* A process dies, or gives up: what it was about to do is not done.
Die(p) ==
  /\ p \in Busy
  /\ End(p)
  /\ UNCHANGED <<rows, gen, file, archive, sure>>

-----------------------------------------------------------------------------
(* Attaching.                                                               *)

\* The bytes go in first; bytes that lie there already are left as they are.  own is
\* history: p wrote them, beside no removal that had passed its verdict on that name.
Ingest(p, c, picture) ==
  /\ Open(p)
  /\ Written(p, {c} \ Present)
  /\ job' = [job EXCEPT ![p] =
       [does |-> "attach", at |-> gen, c |-> c, picture |-> picture,
        own |-> c \notin Present /\ \A q \in Busy : Removing(q) => c \notin job[q].doomed]]
  /\ UNCHANGED <<rows, gen, archive, sure>>

\* q has read the place n is kept in, so that a row put there now is too late for it.
Looked(q, n) == IF n = Icon THEN job[q].stage = "judge" ELSE job[q].does = "sweep"

\* q may yet unlink c without seeing that n names it now.
Threat(q, c, n) ==
  /\ Removing(q)
  /\ \/ c \in job[q].doomed
     \/ /\ c \notin job[q].kept
        /\ c \in job[q].left \/ (job[q].does = "sweep" /\ job[q].stage = "images")
        /\ job[q].at # gen \/ Looked(q, n)

\* The row, in a transaction of its own.  A picture replaces the one before it,
\* whose bytes are left to the sweep.
Commit(p, n) ==
  LET c == job[p].c IN
  /\ job[p].does = "attach"
  /\ IF job[p].picture THEN n = Icon ELSE n \in Rows /\ rows[job[p].at][n] = Nothing
  /\ rows' = [rows EXCEPT ![job[p].at][n] = c]
  /\ sure' = IF job[p].at # gen THEN sure
             ELSE [sure EXCEPT ![n] =
               /\ c \in Present
               /\ \A q \in Procs : Threat(q, c, n) =>
                    job[p].own /\ c \notin job[q].doomed /\ job[q].does # "erase"]
  /\ End(p)
  /\ UNCHANGED <<gen, file, archive>>

ClearIcon(p) ==
  /\ Open(p) /\ Images(gen) # {}
  /\ rows' = [rows EXCEPT ![gen][Icon] = Nothing]
  /\ sure' = [sure EXCEPT ![Icon] = FALSE]
  /\ UNCHANGED <<gen, file, before, archive, job>>

-----------------------------------------------------------------------------
(* Taking away.                                                             *)

\* The rows go in one transaction, which hands back what they named.
Delete(p, ns, does) ==
  LET named == {rows[gen][n] : n \in ns} IN
  /\ Open(p) /\ Nothing \notin named
  /\ rows' = [rows EXCEPT ![gen] = [n \in Named |-> IF n \in ns THEN Nothing ELSE @[n]]]
  /\ job' = [job EXCEPT ![p] = [does |-> does, at |-> gen, stage |-> "images",
                                left |-> named, kept |-> {}, doomed |-> {}, due |-> {}]]
  /\ before' = Joined(p)
  /\ sure' = [n \in Named |-> n \notin ns /\ sure[n]]
  /\ UNCHANGED <<gen, file, archive>>

\* After the commit: the pictures are read once for all the candidates.
ReadImages(p) ==
  /\ job[p].does \in {"reclaim", "erase"} /\ job[p].stage = "images"
  /\ job' = [job EXCEPT ![p].stage = "judge", ![p].kept = Images(job[p].at)]
  /\ UNCHANGED <<rows, gen, file, before, archive, sure>>

Sweep(p) ==
  /\ Open(p)
  /\ job' = [job EXCEPT ![p] =
       [does |-> "sweep", at |-> gen, stage |-> "images", left |-> {},
        kept |-> Attached(gen), doomed |-> {},
        due |-> {c \in Contents : file[c] = "old"} \ (Attached(gen) \cup Images(gen))]]
  /\ before' = Joined(p)
  /\ UNCHANGED <<rows, gen, file, archive, sure>>

\* Then the pictures and the hour: what is young at this moment is spared throughout.
SweepReadImages(p) ==
  LET kept == job[p].kept \cup Images(job[p].at) IN
  /\ job[p].does = "sweep" /\ job[p].stage = "images"
  /\ job' = [job EXCEPT ![p].stage = "judge", ![p].kept = kept,
                        ![p].left = {c \in Contents : file[c] = "old"} \ kept]
  /\ UNCHANGED <<rows, gen, file, before, archive, sure>>

\* Mutant: the age is not asked.
SparedAtNoAge(p, c) ==
  \/ c \in job[p].kept
  \/ job[p].does # "sweep" /\ c \in Attached(job[p].at)
  \/ file[c] = "absent"

\* Mutant: only the pictures are asked, as if equal bytes lay there once for each row.
SparedUnshared(p, c) ==
  \/ c \in job[p].kept
  \/ file[c] = "absent"
  \/ file[c] = "young" /\ job[p].does # "erase"

\* Mutant: the age is compared the wrong way round.
SparedWhenOld(p, c) ==
  \/ c \in job[p].kept
  \/ job[p].does # "sweep" /\ c \in Attached(job[p].at)
  \/ file[c] = "absent"
  \/ file[c] = "old" /\ job[p].does # "erase"

\* A reclaim asks the rows about each candidate, the sweep has asked already; a
\* file under the hour is spared, except by an erase.
Spared(p, c) ==
  \/ c \in job[p].kept
  \/ job[p].does # "sweep" /\ c \in Attached(job[p].at)
  \/ file[c] = "absent"
  \/ file[c] = "young" /\ job[p].does # "erase"

Judge(p, c) ==
  /\ Removing(p) /\ job[p].stage = "judge" /\ job[p].doomed = {} /\ c \in job[p].left
  /\ job' = [job EXCEPT ![p].left = @ \ {c}, ![p].doomed = IF Spared(p, c) THEN {} ELSE {c}]
  /\ UNCHANGED <<rows, gen, file, before, archive, sure>>

\* An attach whose young bytes an erase takes has lost them, on purpose.
Unlink(p) ==
  \E c \in Present :
    /\ Removing(p) /\ job[p].doomed = {c}
    /\ file' = [file EXCEPT ![c] = "absent"]
    /\ before' = [before EXCEPT ![c] = {}]
    /\ job' = [q \in Procs |->
         IF q = p THEN [job[p] EXCEPT !.doomed = {}]
         ELSE IF job[p].does = "erase" /\ job[q].does = "attach" /\ job[q].c = c
              THEN [job[q] EXCEPT !.own = FALSE]
         ELSE job[q]]
    /\ UNCHANGED <<rows, gen, archive, sure>>

\* Somebody else has unlinked it: the error ends the removal, whatever is left.
UnlinkFails(p) ==
  /\ Removing(p) /\ job[p].doomed # {} /\ job[p].doomed \cap Present = {}
  /\ End(p)
  /\ UNCHANGED <<rows, gen, file, archive, sure>>

WentThrough(p) == Removing(p) /\ job[p].stage = "judge" /\ job[p].left = {} /\ job[p].doomed = {}

Done(p) ==
  /\ WentThrough(p)
  /\ End(p)
  /\ UNCHANGED <<rows, gen, file, archive, sure>>

-----------------------------------------------------------------------------
(* Backing up and restoring.                                                *)

\* The rows are copied first, the bytes as they lie afterwards.  An archive that is
\* there is not written over.
Backup(p) ==
  /\ Open(p) /\ gen < MaxRestores /\ archive = NoArchive
  /\ job' = [job EXCEPT ![p] = [does |-> "backup", rows |-> rows[gen]]]
  /\ before' = Joined(p)
  /\ UNCHANGED <<rows, gen, file, archive, sure>>

Bundle(p) ==
  /\ job[p].does = "backup"
  /\ archive' = [rows |-> job[p].rows, bytes |-> Present]
  /\ End(p)
  /\ UNCHANGED <<rows, gen, file, sure>>

\* Bytes first, and none is written over.  Safe are those nobody is removing.
Place(p) ==
  /\ Open(p) /\ archive # NoArchive /\ gen < MaxRestores
  /\ Written(p, archive.bytes \ Present)
  /\ job' = [job EXCEPT ![p] =
       [does |-> "restore", rows |-> archive.rows,
        safe |-> {c \in archive.bytes : \A q \in Busy : Removing(q) =>
                    IF c \in Present THEN FALSE
                    ELSE c \notin job[q].doomed /\ job[q].does # "erase"}]]
  /\ UNCHANGED <<rows, gen, archive, sure>>

\* The database is replaced; a connection opened earlier stays on the old file.
Swap(p) ==
  /\ job[p].does = "restore"
  /\ gen' = gen + 1
  /\ rows' = [rows EXCEPT ![gen + 1] = job[p].rows]
  /\ sure' = [n \in Named |-> job[p].rows[n] \in job[p].safe]
  /\ archive' = NoArchive
  /\ End(p)
  /\ UNCHANGED file

-----------------------------------------------------------------------------
Next ==
  \/ \E c \in Contents : Age(c)
  \/ \E p \in Procs :
       \/ Die(p) \/ ClearIcon(p) \/ ReadImages(p) \/ Sweep(p) \/ SweepReadImages(p)
       \/ Unlink(p) \/ UnlinkFails(p) \/ Done(p)
       \/ Backup(p) \/ Bundle(p) \/ Place(p) \/ Swap(p)
       \/ \E c \in Contents : Ingest(p, c, TRUE) \/ Ingest(p, c, FALSE) \/ Judge(p, c)
       \/ \E n \in Named : Commit(p, n)
       \/ \E ns \in SUBSET Rows \ {{}} : Delete(p, ns, "reclaim") \/ Delete(p, ns, "erase")

Spec == Init /\ [][Next]_vars

-----------------------------------------------------------------------------
(* Properties.                                                              *)

TypeOK ==
  /\ rows \in [0..MaxRestores -> [Named -> Contents \cup {Nothing}]]
  /\ gen \in 0..MaxRestores
  /\ file \in [Contents -> {"absent", "young", "old"}]
  /\ before \in [Contents -> SUBSET Busy]
  /\ \A c \in Contents : file[c] # "young" => before[c] = {}
  /\ archive \in [rows : [Named -> Contents \cup {Nothing}], bytes : SUBSET Contents]
  /\ sure \in [Named -> BOOLEAN]
  /\ \A p \in Procs : Removing(p) => Cardinality(job[p].doomed) <= 1

\* A row that was committed over bytes nobody was in the middle of removing keeps
\* them for as long as it lives, whoever else names or lets go of the same bytes,
\* and however deletions, sweeps, erases and a restore cross.
BytesStay ==
  \A n \in Named : rows[gen][n] # Nothing /\ sure[n] => rows[gen][n] \in Present

\* Bytes an attach has written and not yet named are there when it comes to name
\* them, whatever is deleted, swept or restored meanwhile: GC_MIN_AGE holds every
\* removal off but an erase, which takes young bytes on purpose.
InFlightKept ==
  \A p \in Procs : job[p].does = "attach" /\ job[p].own => job[p].c \in Present

\* A sweep that went through has left no garbage: whatever was old and unnamed when
\* it began is gone, was named meanwhile, or was written anew.
SweptClean ==
  \A p \in Procs : job[p].does = "sweep" /\ WentThrough(p) =>
    \A c \in job[p].due : c \notin Present \/ c \in job[p].kept \/ file[c] = "young"
=============================================================================
