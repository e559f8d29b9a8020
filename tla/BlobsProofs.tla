----------------------------- MODULE BlobsProofs -----------------------------
(***************************************************************************)
(* For any number of processes, contents, rows and restores: every store,  *)
(* file and job is of its kind; a row committed over bytes nobody was      *)
(* taking keeps them; young bytes wait for their row; and a sweep that     *)
(* went through leaves none of the garbage it saw.                         *)
(*                                                                         *)
(* None of it is inductive as it stands.  What saves the bytes of a row    *)
(* from a removal that read the rows too early is their age, and what      *)
(* keeps them young is that the removal is among those who were under way  *)
(* when they were written: the invariant says so of each way bytes can be  *)
(* there, for an attach under way (OwnIsFresh), for a row (SureIsSafe),    *)
(* for a restore under way (PlacedIsSafe) and for what a sweep is due to   *)
(* take (SweepAccounts).                                                   *)
(***************************************************************************)
EXTENDS Blobs, FiniteSetTheorems, TLAPS

Names == [Named -> Contents \cup {Nothing}]
Attaches == [does : {"attach"}, at : 0..MaxRestores, c : Contents,
             picture : BOOLEAN, own : BOOLEAN]
Removals == [does : {"reclaim", "erase", "sweep"}, at : 0..MaxRestores,
             stage : {"images", "judge"}, left : SUBSET Contents, kept : SUBSET Contents,
             doomed : SUBSET Contents, due : SUBSET Contents]
Backups == [does : {"backup"}, rows : Names]
Restores == [does : {"restore"}, rows : Names, safe : SUBSET Contents]

Kinds ==
  /\ rows \in [0..MaxRestores -> Names]
  /\ gen \in 0..MaxRestores
  /\ file \in [Contents -> {"absent", "young", "old"}]
  /\ archive \in [rows : Names, bytes : SUBSET Contents]
  /\ sure \in [Named -> BOOLEAN]
  /\ job \in [Procs -> {Idle} \cup Attaches \cup Removals \cup Backups \cup Restores]

\* Nobody's work is on a database yet to come; a removal takes one name at a time,
\* and but for a sweep has read nothing before the pictures; and
\* a restore is alone, with a database left to replace.
Jobs ==
  \A p \in Procs :
    /\ job[p].does = "attach" => job[p].at <= gen
    /\ Removing(p) => /\ job[p].at <= gen
                      /\ job[p].doomed = {} \/ \E c \in Contents : job[p].doomed = {c}
                      /\ job[p].stage = "images" /\ job[p].does # "sweep" => job[p].kept = {}
    /\ job[p].does = "restore" =>
         gen < MaxRestores /\ \A q \in Procs : job[q].does = "restore" => q = p

Waiting ==
  /\ before \in [Contents -> SUBSET Busy]
  /\ \A c \in Contents : file[c] # "young" => before[c] = {}

\* Everyone under way is waited for before bytes of an attach under way turn an hour old.
OwnIsFresh ==
  \A p \in Procs : job[p].does = "attach" /\ job[p].own =>
    /\ file[job[p].c] = "young"
    /\ Busy \subseteq before[job[p].c]
    /\ \A q \in Procs : Removing(q) /\ job[p].c \in job[q].doomed => job[q].does = "erase"

\* q cannot take c for as long as it is under way: it is no erase, has not passed its
\* verdict, and will find the file young.
Harmless(q, c) == job[q].does # "erase" /\ c \notin job[q].doomed /\ q \in before[c]

SureIsSafe ==
  \A n \in Named : rows[gen][n] # Nothing /\ sure[n] =>
    /\ rows[gen][n] \in Present
    /\ \A q \in Procs : Threat(q, rows[gen][n], n) => Harmless(q, rows[gen][n])

PlacedIsSafe ==
  \A p \in Procs : job[p].does = "restore" =>
    \A c \in job[p].safe :
      c \in Present /\ \A q \in Procs : Removing(q) => Harmless(q, c)

SweepAccounts ==
  \A q \in Procs : job[q].does = "sweep" =>
    \A c \in job[q].due :
      /\ file[c] = "young" => q \in before[c]
      /\ job[q].stage = "judge" =>
           file[c] # "old" \/ c \in job[q].kept \cup job[q].left \cup job[q].doomed

IInv ==
  Kinds /\ Jobs /\ Waiting /\ OwnIsFresh /\ SureIsSafe /\ PlacedIsSafe /\ SweepAccounts

-----------------------------------------------------------------------------
(* Kinds.                                                                   *)

\* What can be read off a job by what it does.
LEMMA JobForms ==
  ASSUME Kinds, NEW p \in Procs
  PROVE  /\ job[p] = Idle <=> job[p].does = "nothing"
         /\ job[p].does = "attach" <=> job[p] \in Attaches
         /\ Removing(p) <=> job[p] \in Removals
         /\ job[p].does = "backup" <=> job[p] \in Backups
         /\ job[p].does = "restore" <=> job[p] \in Restores
         /\ job[p].does \in {"nothing", "attach", "reclaim", "erase", "sweep", "backup", "restore"}
BY DEF Kinds, Idle, Attaches, Removals, Backups, Restores, Removing

LEMMA NamedAreContents ==
  ASSUME Kinds, NEW g \in 0..MaxRestores
  PROVE  Images(g) \subseteq Contents /\ Attached(g) \subseteq Contents
BY DEF Kinds, Names, Images, Attached, Named

LEMMA KindsStep == Kinds /\ Jobs /\ [Next]_vars => Kinds'
<1> SUFFICES ASSUME Kinds, Jobs, [Next]_vars PROVE Kinds'
  OBVIOUS
<1> USE BlobsAssumption DEF Kinds, Names
<1>0. UNCHANGED vars => Kinds'
  BY DEF vars
<1>1. ASSUME NEW c \in Contents, Age(c) PROVE Kinds'
  BY <1>1 DEF Age
<1>2. ASSUME NEW p \in Procs, Die(p) \/ UnlinkFails(p) \/ Done(p) PROVE Kinds'
  BY <1>2 DEF Die, UnlinkFails, Done, End
<1>3. ASSUME NEW p \in Procs, ClearIcon(p) PROVE Kinds'
  BY <1>3 DEF ClearIcon, Named
<1>4. ASSUME NEW p \in Procs, ReadImages(p) PROVE Kinds'
  <2>1. job[p] \in Removals
    BY <1>4, JobForms DEF ReadImages, Removing
  <2>2. job'[p] \in Removals
    BY <1>4, <2>1, NamedAreContents DEF ReadImages, Removals
  <2> QED BY <1>4, <2>2 DEF ReadImages
<1>5. ASSUME NEW p \in Procs, Sweep(p) PROVE Kinds'
  <2>1. job'[p] \in Removals
    BY <1>5, NamedAreContents DEF Sweep, Removals
  <2> QED BY <1>5, <2>1 DEF Sweep
<1>6. ASSUME NEW p \in Procs, SweepReadImages(p) PROVE Kinds'
  <2>1. job[p] \in Removals
    BY <1>6, JobForms DEF SweepReadImages, Removing
  <2>2. job'[p] \in Removals
    BY <1>6, <2>1, NamedAreContents DEF SweepReadImages, Removals
  <2> QED BY <1>6, <2>2 DEF SweepReadImages
<1>7. ASSUME NEW p \in Procs, Unlink(p) PROVE Kinds'
  <2>1. PICK c \in Present : Unlink(p)!(c)
    BY <1>7 DEF Unlink
  <2>2. job[p] \in Removals
    BY <2>1, JobForms
  <2>3. job'[p] \in Removals
    BY <2>1, <2>2 DEF Removals
  <2>4. ASSUME NEW q \in Procs, job[q].does = "attach"
        PROVE  [job[q] EXCEPT !.own = FALSE] \in Attaches
    BY <2>4, JobForms DEF Attaches
  <2>5. file' \in [Contents -> {"absent", "young", "old"}]
    BY <2>1
  <2>6. job' \in [Procs -> {Idle} \cup Attaches \cup Removals \cup Backups \cup Restores]
    BY <2>1, <2>3, <2>4
  <2> QED BY <2>1, <2>5, <2>6
<1>8. ASSUME NEW p \in Procs, Backup(p) PROVE Kinds'
  <2>1. job'[p] \in Backups
    BY <1>8 DEF Backup, Backups
  <2> QED BY <1>8, <2>1 DEF Backup
<1>9. ASSUME NEW p \in Procs, Bundle(p) PROVE Kinds'
  <2>1. job[p] \in Backups
    BY <1>9, JobForms DEF Bundle
  <2>2. archive' \in [rows : Names, bytes : SUBSET Contents]
    BY <1>9, <2>1 DEF Bundle, Backups, Present
  <2> QED BY <1>9, <2>2 DEF Bundle, End
<1>10. ASSUME NEW p \in Procs, Place(p) PROVE Kinds'
  <2>1. job'[p] \in Restores
    BY <1>10 DEF Place, Restores
  <2> QED BY <1>10, <2>1 DEF Place, Written
<1>11. ASSUME NEW p \in Procs, Swap(p) PROVE Kinds'
  <2>1. job[p] \in Restores /\ gen < MaxRestores
    BY <1>11, JobForms DEF Swap, Jobs
  <2>2. rows' \in [0..MaxRestores -> Names] /\ gen' \in 0..MaxRestores
    BY <1>11, <2>1 DEF Swap, Restores
  <2>3. archive' \in [rows : Names, bytes : SUBSET Contents]
    BY <1>11 DEF Swap, NoArchive, Blank
  <2> QED BY <1>11, <2>2, <2>3 DEF Swap, End
<1>12. ASSUME NEW p \in Procs, NEW c \in Contents, NEW picture \in BOOLEAN, Ingest(p, c, picture)
       PROVE  Kinds'
  <2>1. job'[p] \in Attaches
    BY <1>12 DEF Ingest, Attaches
  <2> QED BY <1>12, <2>1 DEF Ingest, Written
<1>13. ASSUME NEW p \in Procs, NEW c \in Contents, Judge(p, c) PROVE Kinds'
  <2>1. job[p] \in Removals
    BY <1>13, JobForms DEF Judge
  <2>2. job'[p] \in Removals
    BY <1>13, <2>1 DEF Judge, Removals
  <2> QED BY <1>13, <2>2 DEF Judge
<1>14. ASSUME NEW p \in Procs, NEW n \in Named, Commit(p, n) PROVE Kinds'
  <2>1. job[p] \in Attaches
    BY <1>14, JobForms DEF Commit
  <2>2. rows' \in [0..MaxRestores -> Names]
    BY <1>14, <2>1 DEF Commit, Attaches
  <2>3. sure' \in [Named -> BOOLEAN]
    BY <1>14 DEF Commit
  <2> QED BY <1>14, <2>2, <2>3 DEF Commit, End
<1>15. ASSUME NEW p \in Procs, NEW ns \in SUBSET Rows, NEW does \in {"reclaim", "erase"},
              Delete(p, ns, does)
       PROVE  Kinds'
  <2>1. job'[p] \in Removals
    BY <1>15 DEF Delete, Removals, Named
  <2>2. rows' \in [0..MaxRestores -> Names]
    BY <1>15 DEF Delete
  <2> QED BY <1>15, <2>1, <2>2 DEF Delete
<1> QED
  BY <1>0, <1>1, <1>2, <1>3, <1>4, <1>5, <1>6, <1>7, <1>8, <1>9, <1>10, <1>11, <1>12, <1>13, <1>14,
     <1>15 DEF Next
\* A job under way is changed in place: nothing but its stage, what it has read and what
\* it is to take.
Goes(p) ==
  /\ Removing(p) /\ Removing(p)'
  /\ job'[p].does = job[p].does /\ job'[p].at = job[p].at /\ job'[p].due = job[p].due
  /\ \A q \in Procs \ {p} : job'[q] = job[q]

LEMMA RemovalsGo ==
  ASSUME Kinds, NEW p \in Procs
  PROVE  /\ ReadImages(p) =>
              /\ Goes(p) /\ job'[p].stage = "judge" /\ job'[p].left = job[p].left
              /\ job'[p].kept = Images(job[p].at) /\ job'[p].doomed = job[p].doomed
         /\ SweepReadImages(p) =>
              /\ Goes(p) /\ job'[p].stage = "judge" /\ job'[p].doomed = job[p].doomed
              /\ job'[p].kept = job[p].kept \cup Images(job[p].at)
              /\ job'[p].left = {c \in Contents : file[c] = "old"} \ job'[p].kept
         /\ \A c \in Contents : Judge(p, c) =>
              /\ Goes(p) /\ job'[p].stage = job[p].stage /\ job'[p].kept = job[p].kept
              /\ job'[p].left = job[p].left \ {c}
              /\ job'[p].doomed = IF Spared(p, c) THEN {} ELSE {c}
<1>1. ASSUME ReadImages(p) PROVE job[p] \in Removals
  BY <1>1, JobForms DEF ReadImages, Removing
<1>2. ASSUME SweepReadImages(p) PROVE job[p] \in Removals
  BY <1>2, JobForms DEF SweepReadImages, Removing
<1>3. ASSUME NEW c \in Contents, Judge(p, c) PROVE job[p] \in Removals
  BY <1>3, JobForms DEF Judge
<1>4. job \in [Procs -> {Idle} \cup Attaches \cup Removals \cup Backups \cup Restores]
  BY DEF Kinds
<1>5. ASSUME ReadImages(p) 
      PROVE  /\ Goes(p) /\ job'[p].stage = "judge" /\ job'[p].left = job[p].left
             /\ job'[p].kept = Images(job[p].at) /\ job'[p].doomed = job[p].doomed
  BY <1>1, <1>4, <1>5 DEF ReadImages, Goes, Removals, Removing
<1>6. ASSUME SweepReadImages(p) 
      PROVE  /\ Goes(p) /\ job'[p].stage = "judge" /\ job'[p].doomed = job[p].doomed
             /\ job'[p].kept = job[p].kept \cup Images(job[p].at)
             /\ job'[p].left = {c \in Contents : file[c] = "old"} \ job'[p].kept
  BY <1>2, <1>4, <1>6 DEF SweepReadImages, Goes, Removals, Removing
<1>7. ASSUME NEW c \in Contents, Judge(p, c) 
      PROVE  /\ Goes(p) /\ job'[p].stage = job[p].stage /\ job'[p].kept = job[p].kept
             /\ job'[p].left = job[p].left \ {c}
             /\ job'[p].doomed = IF Spared(p, c) THEN {} ELSE {c}
  BY <1>3, <1>4, <1>7 DEF Judge, Goes, Removals, Removing
<1> QED BY <1>5, <1>6, <1>7

\* An unlink takes one file, and from an erase an attach under way loses its own.
LEMMA UnlinkGoes ==
  ASSUME Kinds, NEW p \in Procs, NEW c \in Present, Unlink(p)!(c)
  PROVE  /\ Removing(p) /\ Removing(p)' /\ job[p].doomed = {c}
         /\ job'[p] = [job[p] EXCEPT !.doomed = {}]
         /\ \A q \in Procs \ {p} :
              \/ job'[q] = job[q]
              \/ /\ job[p].does = "erase" /\ job[q].does = "attach" /\ job[q].c = c
                 /\ job'[q] = [job[q] EXCEPT !.own = FALSE]
                 /\ job[q] \in Attaches
         /\ \A q \in Procs \ {p} : Removing(q)' <=> Removing(q)
         /\ \A q \in Procs \ {p} : Removing(q) => job'[q] = job[q]
         /\ \A q \in Procs : job'[q].does = job[q].does
         /\ Busy' = Busy
<1>1. job[p] \in Removals
  BY JobForms
<1>2. ASSUME NEW q \in Procs \ {p}, job[q].does = "attach"
      PROVE  job[q] \in Attaches /\ [job[q] EXCEPT !.own = FALSE].does = "attach"
  BY <1>2, JobForms DEF Attaches
<1>3. job'[p] = [job[p] EXCEPT !.doomed = {}] /\ job'[p].does = job[p].does
  BY <1>1 DEF Removals
<1>4. \A q \in Procs \ {p} :
        \/ job'[q] = job[q]
        \/ /\ job[p].does = "erase" /\ job[q].does = "attach" /\ job[q].c = c
           /\ job'[q] = [job[q] EXCEPT !.own = FALSE]
           /\ job[q] \in Attaches
  BY <1>2
<1>5. \A q \in Procs : job'[q].does = job[q].does
  BY <1>2, <1>3, <1>4
<1>6. \A q \in Procs : Removing(q)' <=> Removing(q)
  BY <1>5 DEF Removing
<1>7. \A q \in Procs \ {p} : Removing(q) => job'[q] = job[q]
  BY <1>4 DEF Removing
<1>8. ASSUME NEW q \in Procs PROVE job[q] = Idle <=> job'[q] = Idle
  <2>1. job[q] = Idle <=> job[q].does = "nothing"
    BY JobForms
  <2>2. job'[q] = Idle => job'[q].does = "nothing"
    BY DEF Idle
  <2>3. job[q] = Idle => job'[q] = Idle
    BY <1>1, <1>4, <2>1 DEF Removals
  <2> QED BY <1>5, <2>1, <2>2, <2>3
<1>9. Busy' = Busy
  BY <1>8 DEF Busy
<1> QED BY <1>3, <1>4, <1>5, <1>6, <1>7, <1>9
LEMMA GoesStaysBusy == ASSUME Kinds, NEW p \in Procs, Goes(p) PROVE Busy' = Busy
<1>1. job[p] # Idle /\ job'[p] # Idle
  BY DEF Goes, Removing, Idle
<1> QED BY <1>1 DEF Goes, Busy

LEMMA EndIsIdle ==
  ASSUME Kinds, NEW p \in Procs, End(p)
  PROVE  /\ Busy' = Busy \ {p} /\ ~Removing(p)'
         /\ job'[p] = Idle /\ job'[p].does = "nothing"
         /\ \A q \in Procs \ {p} : job'[q] = job[q] /\ (Removing(q)' <=> Removing(q))
BY DEF Kinds, End, Busy, Removing, Idle

LEMMA JobsStep == Kinds /\ Jobs /\ [Next]_vars => Jobs'
<1> SUFFICES ASSUME Kinds, Jobs, [Next]_vars PROVE Jobs'
  OBVIOUS
<1>1. ASSUME UNCHANGED job, gen' = gen PROVE Jobs'
  BY <1>1 DEF Jobs, Removing
<1>2. ASSUME NEW p \in Procs, End(p), gen' \in {gen, gen + 1}, gen' # gen => job[p].does = "restore"
      PROVE  Jobs'
  <2>1. gen \in Nat /\ gen <= gen'
    BY <1>2, BlobsAssumption DEF Kinds
  <2>2. ~Removing(p)' /\ job'[p].does = "nothing" /\ \A q \in Procs \ {p} : job'[q] = job[q]
    BY <1>2, EndIsIdle
  <2>3. ASSUME NEW q \in Procs \ {p}
        PROVE  /\ job'[q].does = "attach" => job'[q].at <= gen'
               /\ Removing(q)' => /\ job'[q].at <= gen'
                                  /\ \/ job'[q].doomed = {}
                                     \/ \E c \in Contents : job'[q].doomed = {c}
                                  /\ job'[q].stage = "images" /\ job'[q].does # "sweep" =>
                                       job'[q].kept = {}
    <3>1. job[q].does = "attach" \/ Removing(q) => job[q].at \in Nat
      BY JobForms, BlobsAssumption DEF Attaches, Removals
    <3> QED BY <1>2, <2>1, <2>2, <3>1, BlobsAssumption DEF Jobs, Removing, Kinds
  <2>4. ASSUME NEW q \in Procs, job'[q].does = "restore"
        PROVE  gen' < MaxRestores /\ \A r \in Procs : job'[r].does = "restore" => r = q
    <3>1. q # p /\ job[q].does = "restore"
      BY <2>2, <2>4
    <3>2. gen' = gen
      BY <1>2, <3>1 DEF Jobs
    <3> QED BY <2>2, <3>1, <3>2 DEF Jobs
  <2> QED BY <2>2, <2>3, <2>4 DEF Jobs
<1>3. ASSUME NEW p \in Procs, Goes(p), gen' = gen, job'[p].stage = "judge",
             job'[p].doomed = {} \/ \E c \in Contents : job'[p].doomed = {c}
      PROVE  Jobs'
  BY <1>3 DEF Jobs, Goes, Removing
<1>4. ASSUME NEW p \in Procs, NEW j, job' = [job EXCEPT ![p] = j], gen' = gen,
             j.does = "attach" => j.at = gen,
             j.does \in {"reclaim", "erase", "sweep"} =>
               j.at = gen /\ j.doomed = {} /\ (j.does # "sweep" => j.kept = {}),
             j.does = "restore" =>
               gen < MaxRestores /\ \A q \in Procs : job[q].does # "restore"
      PROVE  Jobs'
  BY <1>4 DEF Jobs, Removing, Kinds
<1>5. ASSUME NEW p \in Procs, ReadImages(p) \/ SweepReadImages(p) PROVE Jobs'
  <2>1. Goes(p) /\ job'[p].doomed = job[p].doomed /\ gen' = gen /\ job'[p].stage = "judge"
    BY <1>5, RemovalsGo DEF ReadImages, SweepReadImages
  <2>2. job[p].doomed = {} \/ \E c \in Contents : job[p].doomed = {c}
    BY <2>1 DEF Jobs, Goes
  <2> QED BY <1>3, <2>1, <2>2
<1>6. ASSUME NEW p \in Procs, NEW c \in Contents, Judge(p, c) PROVE Jobs'
  <2>1. /\ Goes(p) /\ job'[p].doomed = IF Spared(p, c) THEN {} ELSE {c}
        /\ job'[p].stage = job[p].stage
    BY <1>6, RemovalsGo
  <2>2. gen' = gen /\ job[p].stage = "judge"
    BY <1>6 DEF Judge
  <2> QED BY <1>3, <2>1, <2>2
<1>7. ASSUME NEW p \in Procs, Unlink(p) PROVE Jobs'
  <2>1. PICK c \in Present : Unlink(p)!(c)
    BY <1>7 DEF Unlink
  <2>2. gen' = gen
    BY <2>1
  <2>3. job[p] \in Removals
    BY <2>1, JobForms
  <2>4. /\ job'[p].at = job[p].at /\ job'[p].doomed = {}
        /\ job'[p].stage = job[p].stage /\ job'[p].kept = job[p].kept
    BY <2>1, <2>3, UnlinkGoes DEF Removals
  <2>5. \A q \in Procs : job'[q].does = job[q].does
    BY <2>1, UnlinkGoes
  <2>6. \A q \in Procs : job[q].does = "attach" => job'[q].at = job[q].at
    BY <2>1, UnlinkGoes DEF Attaches, Removing
  <2>7. \A q \in Procs \ {p} : Removing(q) => job'[q] = job[q]
    BY <2>1, UnlinkGoes
  <2> QED BY <2>2, <2>4, <2>5, <2>6, <2>7 DEF Jobs, Removing
<1>8. ASSUME NEW p \in Procs, Sweep(p) \/ Backup(p) \/ Place(p) PROVE Jobs'
  BY <1>4, <1>8 DEF Sweep, Backup, Place, Open
<1>9. ASSUME NEW p \in Procs, NEW ns \in SUBSET Rows, NEW does \in {"reclaim", "erase"},
             Delete(p, ns, does)
      PROVE  Jobs'
  BY <1>4, <1>9 DEF Delete
<1>10. ASSUME NEW p \in Procs, NEW c \in Contents, NEW picture \in BOOLEAN, Ingest(p, c, picture)
       PROVE  Jobs'
  <2> DEFINE j == [does |-> "attach", at |-> gen, c |-> c, picture |-> picture,
                   own |-> c \notin Present
                           /\ \A q \in Busy : Removing(q) => c \notin job[q].doomed]
  <2>1. job' = [job EXCEPT ![p] = j] /\ gen' = gen
    BY <1>10 DEF Ingest
  <2>2. j.does = "attach" /\ j.at = gen
    OBVIOUS
  <2> HIDE DEF j
  <2> QED BY <1>4, <2>1, <2>2
<1>11. ASSUME NEW p \in Procs, Swap(p) PROVE Jobs'
  BY <1>2, <1>11 DEF Swap
<1>12. ASSUME NEW p \in Procs,
              \/ Die(p) \/ UnlinkFails(p) \/ Done(p) \/ Bundle(p)
              \/ \E n \in Named : Commit(p, n)
       PROVE  Jobs'
  BY <1>2, <1>12 DEF Die, UnlinkFails, Done, Bundle, Commit
<1>13. ASSUME UNCHANGED vars \/ (\E c \in Contents : Age(c)) \/ \E p \in Procs : ClearIcon(p)
       PROVE  Jobs'
  BY <1>1, <1>13 DEF vars, Age, ClearIcon
<1> QED
  BY <1>5, <1>6, <1>7, <1>8, <1>9, <1>10, <1>11, <1>12, <1>13 DEF Next

-----------------------------------------------------------------------------
(* Who is waited for.                                                       *)

LEMMA WaitingStep == Kinds /\ Jobs /\ Waiting /\ [Next]_vars => Waiting'
<1> SUFFICES ASSUME Kinds, Jobs, Waiting, [Next]_vars PROVE Waiting'
  OBVIOUS
<1>1. ASSUME UNCHANGED <<before, job>>, \A c \in Contents : file'[c] # "young" => before[c] = {}
      PROVE  Waiting'
  BY <1>1 DEF Waiting, Busy
<1>2. ASSUME NEW p \in Procs, End(p), UNCHANGED file PROVE Waiting'
  BY <1>2, EndIsIdle DEF Waiting, End
<1>3. ASSUME NEW p \in Procs, Goes(p), UNCHANGED <<before, file>> PROVE Waiting'
  BY <1>3, GoesStaysBusy DEF Waiting
<1>4. ASSUME NEW p \in Procs, Unlink(p) PROVE Waiting'
  <2>1. PICK c \in Present : Unlink(p)!(c)
    BY <1>4 DEF Unlink
  <2>2. Busy' = Busy
    BY <2>1, UnlinkGoes
  <2>3. /\ file' = [file EXCEPT ![c] = "absent"] /\ before' = [before EXCEPT ![c] = {}]
        /\ c \in Contents
    BY <2>1 DEF Present
  <2> QED BY <2>2, <2>3 DEF Waiting, Kinds
<1>5. ASSUME NEW p \in Procs, NEW j, job' = [job EXCEPT ![p] = j], j # Idle, UNCHANGED file,
             before' = Joined(p)
      PROVE  Waiting'
  <2>1. Busy' = Busy \cup {p}
    BY <1>5 DEF Busy, Kinds
  <2>2. \A c \in Contents : before'[c] # {} => before[c] # {}
    BY <1>5 DEF Joined, Writers
  <2> QED BY <1>5, <2>1, <2>2 DEF Waiting, Joined
<1>6. ASSUME NEW p \in Procs, NEW j, job' = [job EXCEPT ![p] = j], j # Idle,
             NEW cs, Written(p, cs)
      PROVE  Waiting'
  <2>1. Busy' = Busy \cup {p}
    BY <1>6 DEF Busy, Kinds
  <2>2. \A c \in Contents : Joined(p)[c] # {} => before[c] # {}
    BY DEF Joined, Writers
  <2>3. Joined(p) \in [Contents -> SUBSET (Busy \cup {p})]
    BY DEF Joined, Waiting
  <2> QED BY <1>6, <2>1, <2>2, <2>3 DEF Waiting, Written
<1>7. ASSUME NEW p \in Procs, Sweep(p) \/ Backup(p) PROVE Waiting'
  BY <1>5, <1>7 DEF Sweep, Backup, Idle
<1>8. ASSUME NEW p \in Procs, NEW ns \in SUBSET Rows, NEW does \in {"reclaim", "erase"},
             Delete(p, ns, does)
      PROVE  Waiting'
  BY <1>5, <1>8 DEF Delete, Idle
<1>9. ASSUME NEW p \in Procs,
             Place(p) \/ \E c \in Contents, picture \in BOOLEAN : Ingest(p, c, picture)
      PROVE  Waiting'
  BY <1>6, <1>9 DEF Place, Ingest, Idle
<1>10. ASSUME NEW p \in Procs, \/ ReadImages(p) \/ SweepReadImages(p)
                               \/ \E c \in Contents : Judge(p, c)
       PROVE  Waiting'
  BY <1>3, <1>10, RemovalsGo DEF ReadImages, SweepReadImages, Judge
<1>11. ASSUME NEW p \in Procs,
              \/ Die(p) \/ UnlinkFails(p) \/ Done(p) \/ Bundle(p) \/ Swap(p)
              \/ \E n \in Named : Commit(p, n)
       PROVE  Waiting'
  BY <1>2, <1>11 DEF Die, UnlinkFails, Done, Bundle, Commit, Swap
<1>12. ASSUME UNCHANGED vars \/ (\E c \in Contents : Age(c)) \/ \E p \in Procs : ClearIcon(p)
       PROVE  Waiting'
  <2>1. UNCHANGED <<before, job>>
    BY <1>12 DEF vars, Age, ClearIcon
  <2>2. \A c \in Contents : file'[c] # "young" => before[c] = {}
    BY <1>12 DEF vars, Age, ClearIcon, Waiting, Kinds
  <2> QED BY <1>1, <2>1, <2>2
<1> QED
  BY <1>4, <1>7, <1>8, <1>9, <1>10, <1>11, <1>12 DEF Next
LEMMA JoinedKeeps ==
  ASSUME NEW p \in Procs, NEW c \in Contents
  PROVE  before[c] \subseteq Joined(p)[c] /\ Joined(p)[c] \subseteq before[c] \cup {p}
BY DEF Joined

-----------------------------------------------------------------------------
(* An attach's own bytes.                                                   *)

LEMMA OwnIsFreshStep == Kinds /\ Jobs /\ Waiting /\ OwnIsFresh /\ [Next]_vars => OwnIsFresh'
<1> SUFFICES ASSUME Kinds, Jobs, Waiting, OwnIsFresh, [Next]_vars,
                    NEW a \in Procs, job'[a].does = "attach", job'[a].own
             PROVE  /\ file'[job'[a].c] = "young"
                    /\ Busy' \subseteq before'[job'[a].c]
                    /\ \A q \in Procs :
                         Removing(q)' /\ job'[a].c \in job'[q].doomed => job'[q].does = "erase"
  BY DEF OwnIsFresh
<1> DEFINE c == job[a].c
           Fresh == /\ file'[c] = "young"
                    /\ Busy' \subseteq before'[c]
                    /\ \A q \in Procs : Removing(q)' /\ c \in job'[q].doomed => job'[q].does = "erase"
           Goal == job'[a].c = c /\ Fresh
<1>1. ASSUME job[a].does = "attach", job[a].own
      PROVE  /\ c \in Contents /\ a \in Busy /\ job[a] \in Attaches
             /\ file[c] = "young" /\ Busy \subseteq before[c]
             /\ \A q \in Procs : Removing(q) /\ c \in job[q].doomed => job[q].does = "erase"
             /\ \A p \in Procs : Joined(p)[c] = before[c] \cup {p}
  <2>1. job[a] \in Attaches /\ job[a] # Idle
    BY <1>1, JobForms
  <2>2. c \in Contents /\ a \in Busy
    BY <2>1 DEF Attaches, Busy
  <2>3. Busy \subseteq before[c]
    BY <1>1 DEF OwnIsFresh
  <2>4. a \in Writers(c)
    BY <1>1, <2>2, <2>3 DEF Writers
  <2>5. \A p \in Procs : Joined(p)[c] = before[c] \cup {p}
    BY <2>2, <2>4 DEF Joined
  <2> QED BY <1>1, <2>1, <2>2, <2>3, <2>5 DEF OwnIsFresh
<1>2. ASSUME UNCHANGED <<job, before>>, \A d \in Contents : file'[d] = file[d] \/ before[d] = {}
      PROVE  Goal
  BY <1>1, <1>2 DEF Removing, Busy
<1>3. ASSUME NEW p \in Procs, End(p), UNCHANGED file PROVE Goal
  <2>1. a # p /\ job'[a] = job[a]
    BY <1>3, EndIsIdle
  <2>2. before'[c] = before[c] \ {p}
    BY <1>1, <1>3, <2>1 DEF End
  <2> QED BY <1>1, <1>3, <2>1, <2>2, EndIsIdle
<1>4. ASSUME NEW p \in Procs, Goes(p), UNCHANGED <<before, file>>,
             c \in job'[p].doomed => c \in job[p].doomed \/ job[p].does = "erase"
      PROVE  Goal
  <2>1. a # p /\ job'[a] = job[a]
    BY <1>4 DEF Goes, Removing
  <2>2. Busy' = Busy
    BY <1>4, GoesStaysBusy
  <2> QED BY <1>1, <1>4, <2>1, <2>2 DEF Goes, Removing
<1>5. ASSUME NEW p \in Procs, Unlink(p) PROVE Goal
  <2>1. PICK d \in Present : Unlink(p)!(d)
    BY <1>5 DEF Unlink
  <2>2. a # p
    BY <2>1, UnlinkGoes DEF Removing
  <2>3. job'[a] = job[a]
    <3>1. ASSUME job[a] \in Attaches PROVE [job[a] EXCEPT !.own = FALSE].own = FALSE
      BY <3>1 DEF Attaches
    <3> QED BY <2>1, <2>2, <3>1, UnlinkGoes
  <2>4. d # c
    BY <1>1, <2>1, <2>3
  <2>5. file'[c] = file[c] /\ before'[c] = before[c] /\ Busy' = Busy
    <3>1. Busy' = Busy
      BY <2>1, UnlinkGoes
    <3>2. file' = [file EXCEPT ![d] = "absent"] /\ before' = [before EXCEPT ![d] = {}]
      BY <2>1
    <3>3. c \in Contents
      BY <1>1, <2>3
    <3> QED BY <2>4, <3>1, <3>2, <3>3 DEF Kinds, Waiting
  <2>6. job[p] \in Removals /\ job'[p] = [job[p] EXCEPT !.doomed = {}]
    BY <2>1, UnlinkGoes, JobForms
  <2>7. job'[p].doomed = {}
    BY <2>6 DEF Removals
  <2>8. \A q \in Procs \ {p} : Removing(q)' => Removing(q) /\ job'[q] = job[q]
    BY <2>1, UnlinkGoes
  <2> QED BY <1>1, <2>3, <2>5, <2>7, <2>8
<1>6. ASSUME NEW p \in Procs, NEW j, job' = [job EXCEPT ![p] = j], j.does # "attach",
             j.does \in {"reclaim", "erase", "sweep"} => j.doomed = {},
             UNCHANGED file, before' = Joined(p)
      PROVE  Goal
  <2>1. a # p /\ job'[a] = job[a] /\ \A q \in Procs \ {p} : job'[q] = job[q]
    BY <1>6 DEF Kinds
  <2>2. Busy' \subseteq Busy \cup {p}
    BY <2>1 DEF Busy
  <2>3. Removing(p)' => job'[p].doomed = {}
    BY <1>6 DEF Kinds, Removing
  <2> QED BY <1>1, <1>6, <2>1, <2>2, <2>3 DEF Removing
<1>7. ASSUME NEW p \in Procs, p # a, NEW j, job' = [job EXCEPT ![p] = j],
             j.does \notin {"reclaim", "erase", "sweep"},
             NEW cs, cs \cap Present = {}, Written(p, cs)
      PROVE  Goal
  <2>1. job'[a] = job[a] /\ \A q \in Procs \ {p} : job'[q] = job[q]
    BY <1>7 DEF Kinds
  <2>2. Busy' \subseteq Busy \cup {p}
    BY <2>1 DEF Busy
  <2>3. ~Removing(p)'
    BY <1>7 DEF Kinds, Removing
  <2>4. c \in Contents /\ c \notin cs
    BY <1>1, <1>7, <2>1 DEF Present
  <2>5. file'[c] = file[c] /\ before'[c] = before[c] \cup {p}
    BY <1>1, <1>7, <2>1, <2>4 DEF Written
  <2> QED BY <1>1, <2>1, <2>2, <2>3, <2>5 DEF Removing
<1>8. ASSUME NEW p \in Procs, NEW d \in Contents, NEW picture \in BOOLEAN, Ingest(p, d, picture)
      PROVE  job'[a].c \in Contents /\ file'[job'[a].c] = "young" /\ Busy' \subseteq before'[job'[a].c]
             /\ \A q \in Procs :
                  Removing(q)' /\ job'[a].c \in job'[q].doomed => job'[q].does = "erase"
  <2> DEFINE mine == d \notin Present /\ \A q \in Busy : Removing(q) => d \notin job[q].doomed
             j == [does |-> "attach", at |-> gen, c |-> d, picture |-> picture, own |-> mine]
  <2>1. job' = [job EXCEPT ![p] = j] /\ Written(p, {d} \ Present)
    BY <1>8 DEF Ingest
  <2>2. CASE a # p
    <3>1. j.does \notin {"reclaim", "erase", "sweep"} /\ ({d} \ Present) \cap Present = {}
      OBVIOUS
    <3>2. job'[a] = job[a]
      BY <2>1, <2>2 DEF Kinds
    <3> HIDE DEF j
    <3> QED BY <1>1, <1>7, <2>1, <2>2, <3>1, <3>2
  <2>3. CASE a = p
    <3>1. job'[a] = j /\ \A q \in Procs \ {p} : job'[q] = job[q]
      BY <2>1, <2>3 DEF Kinds
    <3>2. mine
      <4>1. j.own = mine
        <5> HIDE DEF mine
        <5> QED BY DEF j
      <4> HIDE DEF mine, j
      <4> QED BY <3>1, <4>1, Zenon
    <3>3. file'[d] = "young" /\ before'[d] = Busy \cup {p}
      BY <2>1, <3>2 DEF Written
    <3>4. Busy' \subseteq Busy \cup {p}
      BY <3>1 DEF Busy
    <3>5. \A q \in Procs : Removing(q)' => q # p /\ q \in Busy /\ Removing(q) /\ job'[q] = job[q]
      BY <2>3, <3>1 DEF Removing, Busy, Idle
    <3> QED BY <3>1, <3>2, <3>3, <3>4, <3>5
  <2> QED BY <2>2, <2>3
<1>9. ASSUME NEW p \in Procs, ReadImages(p) \/ SweepReadImages(p) PROVE Goal
  BY <1>4, <1>9, RemovalsGo DEF ReadImages, SweepReadImages
<1>10. ASSUME NEW p \in Procs, NEW d \in Contents, Judge(p, d) PROVE Goal
  <2>1. Goes(p) /\ job'[p].doomed = IF Spared(p, d) THEN {} ELSE {d}
    BY <1>10, RemovalsGo
  <2>2. job'[a] = job[a]
    BY <2>1 DEF Goes, Removing
  <2>3. c \in job'[p].doomed => job[p].does = "erase"
    BY <1>1, <2>1, <2>2 DEF Spared
  <2> QED BY <1>4, <1>10, <2>1, <2>3 DEF Judge
<1>11. ASSUME NEW p \in Procs, Sweep(p) \/ Backup(p) PROVE Goal
  BY <1>6, <1>11 DEF Sweep, Backup
<1>12. ASSUME NEW p \in Procs, NEW ns \in SUBSET Rows, NEW does \in {"reclaim", "erase"},
              Delete(p, ns, does)
       PROVE  Goal
  BY <1>6, <1>12 DEF Delete
<1>13. ASSUME NEW p \in Procs, Place(p) PROVE Goal
  <2>1. p # a
    BY <1>13 DEF Place, Kinds
  <2> QED BY <1>7, <1>13, <2>1 DEF Place
<1>14. ASSUME NEW p \in Procs,
              \/ Die(p) \/ UnlinkFails(p) \/ Done(p) \/ Bundle(p) \/ Swap(p)
              \/ \E n \in Named : Commit(p, n)
       PROVE  Goal
  BY <1>3, <1>14 DEF Die, UnlinkFails, Done, Bundle, Commit, Swap
<1>15. ASSUME UNCHANGED vars \/ (\E d \in Contents : Age(d)) \/ \E p \in Procs : ClearIcon(p)
       PROVE  Goal
  BY <1>2, <1>15 DEF vars, Age, ClearIcon, Kinds
<1> QED
  BY <1>5, <1>8, <1>9, <1>10, <1>11, <1>12, <1>13, <1>14, <1>15 DEF Next
-----------------------------------------------------------------------------
(* The bytes of a row, and of a restore.                                    *)

\* What is there stays there, and its waiting with it, while nobody takes it and
\* somebody is waited for.
LEMMA KeptByWriting ==
  ASSUME Kinds, NEW p \in Procs, NEW c \in Present, NEW cs, cs \cap Present = {},
         Written(p, cs) \/ (before' = Joined(p) /\ UNCHANGED file)
  PROVE  c \in Contents /\ file'[c] = file[c] /\ c \in Present' /\ before[c] \subseteq before'[c]
<1>1. c \in Contents /\ c \notin cs
  BY DEF Present
<1>2. before[c] \subseteq Joined(p)[c]
  BY <1>1, JoinedKeeps
<1>3. file'[c] = file[c] /\ before'[c] = Joined(p)[c]
  BY <1>1 DEF Written
<1> QED BY <1>1, <1>2, <1>3 DEF Present

\* A removal under way beside bytes it is harmless to goes on being so.
LEMMA HarmlessStays ==
  ASSUME Kinds, Waiting, NEW p \in Procs, NEW c \in Contents, Harmless(p, c),
         ReadImages(p) \/ SweepReadImages(p) \/ \E d \in Contents : Judge(p, d)
  PROVE  Harmless(p, c)'
<1>1. file[c] = "young"
  BY DEF Harmless, Waiting
<1>2. ASSUME ReadImages(p) \/ SweepReadImages(p) PROVE Harmless(p, c)'
  BY <1>2, RemovalsGo DEF Harmless, Goes, ReadImages, SweepReadImages
<1>3. ASSUME NEW d \in Contents, Judge(p, d) PROVE Harmless(p, c)'
  <2>1. Goes(p) /\ job'[p].doomed = IF Spared(p, d) THEN {} ELSE {d}
    BY <1>3, RemovalsGo
  <2>2. d = c => Spared(p, d)
    BY <1>1 DEF Harmless, Spared
  <2>3. before' = before
    BY <1>3 DEF Judge
  <2> QED BY <2>1, <2>2, <2>3 DEF Harmless, Goes
<1> QED BY <1>2, <1>3

LEMMA SureIsSafeStep ==
  Kinds /\ Jobs /\ Waiting /\ OwnIsFresh /\ SureIsSafe /\ PlacedIsSafe /\ [Next]_vars => SureIsSafe'
<1> SUFFICES ASSUME Kinds, Jobs, Waiting, OwnIsFresh, SureIsSafe, PlacedIsSafe, [Next]_vars,
                    NEW n \in Named, NEW c, c = rows'[gen'][n], c # Nothing, sure'[n]
             PROVE  c \in Present' /\ \A q \in Procs : Threat(q, c, n)' => Harmless(q, c)'
  BY DEF SureIsSafe
<1> DEFINE Stood == rows[gen][n] = c /\ sure[n]
           Goal == c \in Present' /\ \A q \in Procs : Threat(q, c, n)' => Harmless(q, c)'
<1>1. ASSUME Stood
      PROVE  c \in Contents /\ c \in Present /\ \A q \in Procs : Threat(q, c, n) => Harmless(q, c)
  BY <1>1 DEF SureIsSafe, Kinds, Names
<1>2. ASSUME Stood, gen' = gen, job' = job, before' = before,
             \A d \in Contents : file'[d] = file[d] \/ (file'[d] = "old" /\ before[d] = {})
      PROVE  Goal
  BY <1>1, <1>2 DEF Present, Threat, Looked, Removing, Harmless
<1>3. ASSUME NEW p \in Procs, End(p), Stood, gen' = gen, UNCHANGED file
      PROVE  Goal
  <2>1. c \in Contents /\ before'[c] = before[c] \ {p}
    BY <1>1, <1>3 DEF End
  <2>2. ASSUME NEW q \in Procs, Threat(q, c, n)' PROVE Harmless(q, c)'
    <3>1. q # p /\ job'[q] = job[q]
      BY <1>3, <2>2, EndIsIdle DEF Threat
    <3>2. Threat(q, c, n)
      BY <1>3, <2>2, <3>1 DEF Threat, Looked, Removing
    <3> QED BY <1>1, <1>3, <2>1, <3>1, <3>2 DEF Harmless
  <2> QED BY <1>1, <1>3, <2>2 DEF Present
<1>4. ASSUME NEW p \in Procs, Stood, gen' = gen, rows' = rows, UNCHANGED <<file, before>>,
             ReadImages(p) \/ SweepReadImages(p) \/ \E d \in Contents : Judge(p, d)
      PROVE  Goal
  <2>1. Goes(p) /\ Removing(p) /\ Removing(p)' /\ job'[p].at = job[p].at /\ job'[p].does = job[p].does
    BY <1>4, RemovalsGo DEF Goes
  <2>2. ASSUME NEW q \in Procs, q # p, Threat(q, c, n)' PROVE Harmless(q, c)'
    <3>1. job'[q] = job[q]
      BY <2>1, <2>2 DEF Goes
    <3>2. Threat(q, c, n)
      BY <1>4, <2>2, <3>1 DEF Threat, Looked, Removing
    <3> QED BY <1>1, <1>4, <3>1, <3>2 DEF Harmless
  <2>3. ASSUME Threat(p, c, n) PROVE Harmless(p, c)'
    BY <1>1, <1>4, <2>3, HarmlessStays
  <2>4. ASSUME ~Threat(p, c, n) PROVE ~Threat(p, c, n)'
    <3>1. c \notin job[p].doomed /\ c \in Contents /\ job[p].at \in 0..MaxRestores
      <4>1. job[p] \in Removals
        BY <2>1, JobForms
      <4> QED BY <1>1, <1>4, <2>1, <2>4, <4>1 DEF Threat, Removals
    <3>2. job[p].at = gen =>
            IF n = Icon THEN c \in Images(job[p].at) ELSE c \in Attached(job[p].at)
      BY <1>1, <1>4, BlobsAssumption DEF Images, Attached, Named
    <3>3. ASSUME ReadImages(p) PROVE ~Threat(p, c, n)'
      <4>1. job[p].kept = {} /\ job[p].does # "sweep"
        BY <3>3 DEF ReadImages, Removing, Jobs
      <4>2. /\ job'[p].kept = Images(job[p].at) /\ job'[p].left = job[p].left
            /\ job'[p].doomed = job[p].doomed
        BY <3>3, RemovalsGo
      <4> QED BY <1>4, <2>1, <2>4, <3>1, <3>2, <4>1, <4>2 DEF Threat, Looked
    <3>4. ASSUME SweepReadImages(p) PROVE ~Threat(p, c, n)'
      <4>1. job[p].does = "sweep" /\ job[p].stage = "images"
        BY <3>4 DEF SweepReadImages
      <4>2. /\ job'[p].kept = job[p].kept \cup Images(job[p].at)
            /\ job'[p].doomed = job[p].doomed
        BY <3>4, RemovalsGo
      <4> QED BY <1>4, <2>1, <2>4, <3>1, <3>2, <4>1, <4>2 DEF Threat, Looked
    <3>5. ASSUME NEW d \in Contents, Judge(p, d) PROVE ~Threat(p, c, n)'
      <4>1. job[p].stage = "judge" /\ d \in job[p].left
        BY <3>5 DEF Judge
      <4>2. /\ job'[p].stage = job[p].stage /\ job'[p].kept = job[p].kept
            /\ job'[p].left = job[p].left \ {d}
            /\ job'[p].doomed = IF Spared(p, d) THEN {} ELSE {d}
        BY <3>5, RemovalsGo
      <4>3. d = c => Spared(p, d)
        BY <1>4, <2>1, <2>4, <3>1, <3>2, <4>1 DEF Threat, Looked, Spared
      <4>4. c \notin job'[p].doomed
        BY <4>2, <4>3
      <4> QED BY <1>4, <2>1, <2>4, <3>1, <4>1, <4>2, <4>4 DEF Threat, Looked
    <3> QED BY <1>4, <3>3, <3>4, <3>5
  <2> QED BY <1>1, <1>4, <2>2, <2>3, <2>4 DEF Present
<1>5. ASSUME NEW p \in Procs, Unlink(p) PROVE Goal
  <2>1. PICK d \in Present : Unlink(p)!(d)
    BY <1>5 DEF Unlink
  <2>2. Stood /\ gen' = gen
    BY <2>1
  <2>3. c # d
    BY <1>1, <2>1, <2>2, UnlinkGoes DEF Threat, Harmless
  <2>4. /\ file' = [file EXCEPT ![d] = "absent"] /\ before' = [before EXCEPT ![d] = {}]
        /\ c \in Contents /\ c \in Present
    BY <1>1, <2>1, <2>2
  <2>5. file'[c] = file[c] /\ before'[c] = before[c]
    BY <2>3, <2>4 DEF Kinds, Waiting
  <2>6. job[p] \in Removals /\ job'[p] = [job[p] EXCEPT !.doomed = {}] /\ Removing(p)
    BY <2>1, UnlinkGoes, JobForms
  <2>7. /\ job'[p].does = job[p].does /\ job'[p].at = job[p].at /\ job'[p].stage = job[p].stage
        /\ job'[p].kept = job[p].kept /\ job'[p].left = job[p].left /\ job'[p].doomed = {}
    BY <2>6 DEF Removals
  <2>8. Threat(p, c, n)' => Threat(p, c, n)
    BY <2>2, <2>6, <2>7 DEF Threat, Looked
  <2>9. Harmless(p, c) => Harmless(p, c)'
    BY <2>5, <2>7 DEF Harmless
  <2>10. ASSUME NEW q \in Procs \ {p}, Threat(q, c, n)' PROVE Harmless(q, c)'
    <3>1. Removing(q) /\ job'[q] = job[q]
      <4>1. Removing(q)'
        BY <2>10 DEF Threat
      <4> QED BY <2>1, <4>1, UnlinkGoes
    <3>2. Threat(q, c, n)
      BY <2>2, <2>10, <3>1 DEF Threat, Looked
    <3> QED BY <1>1, <2>2, <2>5, <3>1, <3>2 DEF Harmless
  <2> QED BY <1>1, <2>2, <2>4, <2>5, <2>8, <2>9, <2>10 DEF Present
<1>6. ASSUME NEW p \in Procs, NEW j, job' = [job EXCEPT ![p] = j], gen' = gen,
             Stood,
             \/ j.does \notin {"reclaim", "erase", "sweep"}
             \/ /\ j.does \in {"reclaim", "erase", "sweep"} /\ j.at = gen /\ j.stage = "images"
                /\ j.doomed = {} /\ (j.does = "sweep" => j.kept = Attached(gen)),
             NEW cs, cs \cap Present = {},
             Written(p, cs) \/ (before' = Joined(p) /\ UNCHANGED file)
      PROVE  Goal
  <2>1. /\ c \in Contents /\ c \in Present /\ file'[c] = file[c] /\ c \in Present'
        /\ before[c] \subseteq before'[c]
    BY <1>1, <1>6, KeptByWriting
  <2>2. \A q \in Procs \ {p} : job'[q] = job[q]
    BY <1>6 DEF Kinds
  <2>3. ASSUME NEW q \in Procs \ {p}, Threat(q, c, n)' PROVE Harmless(q, c)'
    <3>1. Threat(q, c, n)
      BY <1>6, <2>2, <2>3 DEF Threat, Looked, Removing
    <3> QED BY <1>1, <1>6, <2>1, <2>2, <3>1 DEF Harmless
  <2>4. ~Threat(p, c, n)'
    <3>1. job'[p] = j
      BY <1>6 DEF Kinds
    <3>2. n # Icon => c \in Attached(gen)
      BY <1>1, <1>6 DEF Attached, Named, Kinds, Names
    <3> QED BY <1>6, <3>1, <3>2 DEF Threat, Looked, Removing
  <2> QED BY <1>6, <2>1, <2>3, <2>4
<1>7. ASSUME NEW p \in Procs, Sweep(p) \/ Backup(p) \/ Place(p) PROVE Goal
  <2>1. Stood /\ gen' = gen
    BY <1>7 DEF Sweep, Backup, Place
  <2>2. CASE Place(p)
    <3>1. job' = [job EXCEPT ![p] = job'[p]] /\ job'[p].does = "restore"
      BY <2>2 DEF Place, Kinds
    <3>2. Written(p, archive.bytes \ Present)
      BY <2>2 DEF Place
    <3> QED BY <1>6, <2>1, <3>1, <3>2
  <2>3. CASE Backup(p)
    <3>1. job' = [job EXCEPT ![p] = job'[p]] /\ job'[p].does = "backup"
      BY <2>3 DEF Backup, Kinds
    <3>2. before' = Joined(p) /\ UNCHANGED file
      BY <2>3 DEF Backup
    <3>3. {} \cap Present = {}
      OBVIOUS
    <3> QED BY <1>6, <2>1, <3>1, <3>2, <3>3
  <2>4. CASE Sweep(p)
    <3>1. /\ job' = [job EXCEPT ![p] = job'[p]] /\ job'[p].does = "sweep"
          /\ job'[p].at = gen /\ job'[p].stage = "images"
          /\ job'[p].doomed = {} /\ job'[p].kept = Attached(gen)
      BY <2>4 DEF Sweep, Kinds
    <3>2. before' = Joined(p) /\ UNCHANGED file
      BY <2>4 DEF Sweep
    <3>3. {} \cap Present = {}
      OBVIOUS
    <3> QED BY <1>6, <2>1, <3>1, <3>2, <3>3
  <2> QED BY <1>7, <2>2, <2>3, <2>4
<1>8. ASSUME NEW p \in Procs, NEW d \in Contents, NEW picture \in BOOLEAN, Ingest(p, d, picture)
      PROVE  Goal
  <2> DEFINE j == [does |-> "attach", at |-> gen, c |-> d, picture |-> picture,
                   own |-> d \notin Present
                           /\ \A q \in Busy : Removing(q) => d \notin job[q].doomed]
  <2>1. /\ job' = [job EXCEPT ![p] = j] /\ Written(p, {d} \ Present) /\ gen' = gen
        /\ Stood
    BY <1>8 DEF Ingest
  <2>2. j.does \notin {"reclaim", "erase", "sweep"} /\ ({d} \ Present) \cap Present = {}
    OBVIOUS
  <2> HIDE DEF j
  <2> QED BY <1>6, <2>1, <2>2
<1>9. ASSUME NEW p \in Procs, NEW ns \in SUBSET Rows, NEW does \in {"reclaim", "erase"},
             Delete(p, ns, does)
      PROVE  Goal
  <2>1. n \notin ns /\ sure[n] /\ gen' = gen
    BY <1>9 DEF Delete
  <2>2. Stood
    BY <1>9, <2>1 DEF Delete, Kinds
  <2>3. /\ job' = [job EXCEPT ![p] = job'[p]] /\ job'[p].does = does
        /\ job'[p].at = gen /\ job'[p].stage = "images" /\ job'[p].doomed = {}
    BY <1>9 DEF Delete, Kinds
  <2>4. before' = Joined(p) /\ UNCHANGED file
    BY <1>9 DEF Delete
  <2>5. {} \cap Present = {}
    OBVIOUS
  <2> QED BY <1>6, <2>1, <2>2, <2>3, <2>4, <2>5
<1>10. ASSUME NEW p \in Procs, Die(p) \/ UnlinkFails(p) \/ Done(p) \/ Bundle(p) PROVE Goal
  BY <1>3, <1>10 DEF Die, UnlinkFails, Done, Bundle
<1>11. ASSUME UNCHANGED vars \/ \E d \in Contents : Age(d) PROVE Goal
  BY <1>2, <1>11 DEF vars, Age, Kinds
<1>12. ASSUME NEW p \in Procs, ClearIcon(p) PROVE Goal
  <2>1. n # Icon /\ sure[n]
    BY <1>12 DEF ClearIcon, Kinds
  <2>2. Stood
    BY <1>12, <2>1 DEF ClearIcon, Kinds
  <2> QED BY <1>2, <1>12, <2>1, <2>2 DEF ClearIcon
<1>13. ASSUME NEW p \in Procs, NEW m \in Named, Commit(p, m) PROVE Goal
  <2>0. job[p] \in Attaches /\ gen' = gen /\ End(p) /\ file' = file
    BY <1>13, JobForms DEF Commit
  <2>1. CASE job[p].at = gen /\ m = n
    <3>1. job[p].c = c /\ c \in Contents
      BY <1>13, <2>0, <2>1 DEF Commit, Kinds, Names, Attaches
    <3>2. sure'[n] = (/\ c \in Present
                      /\ \A q \in Procs : Threat(q, c, n) =>
                           job[p].own /\ c \notin job[q].doomed /\ job[q].does # "erase")
      BY <1>13, <2>1, <3>1 DEF Commit, Kinds
    <3>3. /\ c \in Present
          /\ \A q \in Procs : Threat(q, c, n) =>
               job[p].own /\ c \notin job[q].doomed /\ job[q].does # "erase"
      BY <3>2, Zenon
    <3>4. before'[c] = before[c] \ {p}
      BY <2>0, <3>1 DEF End
    <3>5. ASSUME NEW q \in Procs, Threat(q, c, n)' PROVE Harmless(q, c)'
      <4>1. q # p /\ job'[q] = job[q]
        BY <2>0, <3>5, EndIsIdle DEF Threat
      <4>2. Threat(q, c, n)
        BY <2>0, <3>5, <4>1 DEF Threat, Looked, Removing
      <4>3. q \in Busy
        BY <4>2 DEF Threat, Removing, Busy, Idle
      <4>4. Busy \subseteq before[c]
        BY <1>13, <3>1, <3>3, <4>2 DEF OwnIsFresh, Commit
      <4> QED BY <3>3, <3>4, <4>1, <4>2, <4>3, <4>4 DEF Harmless
    <3> QED BY <2>0, <3>1, <3>3, <3>5 DEF Present
  <2>2. CASE ~(job[p].at = gen /\ m = n)
    <3>1. Stood
      BY <1>13, <2>0, <2>2 DEF Commit, Kinds, Names, Attaches
    <3> QED BY <1>3, <2>0, <3>1
  <2> QED BY <2>1, <2>2
<1>14. ASSUME NEW p \in Procs, Swap(p) PROVE Goal
  <2>1. /\ job[p].does = "restore" /\ job[p] \in Restores /\ gen + 1 \in 0..MaxRestores
        /\ End(p) /\ file' = file
    BY <1>14, JobForms, BlobsAssumption DEF Swap, Jobs, Kinds
  <2>2. job[p].rows[n] = c /\ c \in job[p].safe
    BY <1>14, <2>1 DEF Swap, Kinds, Names, Restores
  <2>3. c \in Contents /\ c \in Present /\ \A q \in Procs : Removing(q) => Harmless(q, c)
    BY <2>1, <2>2 DEF PlacedIsSafe, Restores
  <2>4. before'[c] = before[c] \ {p}
    BY <2>1, <2>3 DEF End
  <2>5. ASSUME NEW q \in Procs, Threat(q, c, n)' PROVE Harmless(q, c)'
    <3>1. q # p /\ Removing(q) /\ job'[q] = job[q]
      BY <2>1, <2>5, EndIsIdle DEF Threat
    <3> QED BY <2>3, <2>4, <3>1 DEF Harmless
  <2> QED BY <2>1, <2>2, <2>3, <2>5 DEF Present
<1>15. ASSUME NEW p \in Procs, \/ ReadImages(p) \/ SweepReadImages(p)
                               \/ \E d \in Contents : Judge(p, d)
       PROVE  Goal
  <2>1. Stood /\ gen' = gen /\ rows' = rows /\ UNCHANGED <<file, before>>
    BY <1>15 DEF ReadImages, SweepReadImages, Judge
  <2> QED BY <1>4, <1>15, <2>1
<1> QED
  BY <1>5, <1>7, <1>8, <1>9, <1>10, <1>11, <1>12, <1>13, <1>14, <1>15 DEF Next

LEMMA PlacedIsSafeStep ==
  Kinds /\ Jobs /\ Waiting /\ PlacedIsSafe /\ [Next]_vars => PlacedIsSafe'
<1> SUFFICES ASSUME Kinds, Jobs, Waiting, PlacedIsSafe, [Next]_vars,
                    NEW r \in Procs, job'[r].does = "restore", NEW c \in job'[r].safe
             PROVE  c \in Present' /\ \A q \in Procs : Removing(q)' => Harmless(q, c)'
  BY DEF PlacedIsSafe
<1> DEFINE Stood == job[r].does = "restore" /\ job'[r] = job[r]
           Goal == c \in Present' /\ \A q \in Procs : Removing(q)' => Harmless(q, c)'
<1>1. ASSUME Stood
      PROVE  /\ c \in Contents /\ c \in Present
             /\ \A q \in Procs : Removing(q) => Harmless(q, c)
             /\ \A p \in Procs : ~Open(p)
  <2>1. job[r] \in Restores
    BY <1>1, JobForms
  <2> QED BY <1>1, <2>1 DEF PlacedIsSafe, Restores, Open
<1>2. ASSUME job' = job, before' = before,
             \A d \in Contents : file'[d] = file[d] \/ (file'[d] = "old" /\ before[d] = {})
      PROVE  Goal
  BY <1>1, <1>2 DEF Present, Removing, Harmless
<1>3. ASSUME NEW p \in Procs, End(p), UNCHANGED file PROVE Goal
  <2>1. Stood
    BY <1>3, EndIsIdle
  <2>2. before'[c] = before[c] \ {p}
    BY <1>1, <1>3, <2>1 DEF End
  <2>3. ASSUME NEW q \in Procs, Removing(q)' PROVE Harmless(q, c)'
    BY <1>1, <1>3, <2>1, <2>2, <2>3, EndIsIdle DEF Harmless
  <2> QED BY <1>1, <1>3, <2>1, <2>3 DEF Present
<1>4. ASSUME NEW p \in Procs, ReadImages(p) \/ SweepReadImages(p) \/ \E d \in Contents : Judge(p, d)
      PROVE  Goal
  <2>1. Goes(p) /\ UNCHANGED <<file, before>>
    BY <1>4, RemovalsGo DEF ReadImages, SweepReadImages, Judge
  <2>2. Stood
    BY <2>1 DEF Goes, Removing
  <2>3. Harmless(p, c)'
    BY <1>1, <1>4, <2>1, <2>2, HarmlessStays DEF Goes
  <2>4. ASSUME NEW q \in Procs \ {p}, Removing(q)' PROVE Harmless(q, c)'
    BY <1>1, <2>1, <2>2, <2>4 DEF Goes, Removing, Harmless
  <2> QED BY <1>1, <2>1, <2>2, <2>3, <2>4 DEF Present
<1>5. ASSUME NEW p \in Procs, Unlink(p) PROVE Goal
  <2>1. PICK d \in Present : Unlink(p)!(d)
    BY <1>5 DEF Unlink
  <2>2. Stood
    BY <2>1, UnlinkGoes DEF Attaches, Removing
  <2>3. c # d
    BY <1>1, <2>1, <2>2, UnlinkGoes DEF Harmless
  <2>4. /\ file' = [file EXCEPT ![d] = "absent"] /\ before' = [before EXCEPT ![d] = {}]
        /\ c \in Contents
    BY <1>1, <2>1, <2>2
  <2>5. file'[c] = file[c] /\ before'[c] = before[c]
    BY <2>3, <2>4 DEF Kinds, Waiting
  <2>6. job[p] \in Removals /\ job'[p] = [job[p] EXCEPT !.doomed = {}] /\ Removing(p)
    BY <2>1, UnlinkGoes, JobForms
  <2>7. job'[p].does = job[p].does /\ job'[p].doomed = {}
    BY <2>6 DEF Removals
  <2>8. Harmless(p, c)'
    BY <1>1, <2>2, <2>5, <2>6, <2>7 DEF Harmless
  <2>9. ASSUME NEW q \in Procs \ {p}, Removing(q)' PROVE Harmless(q, c)'
    <3>1. Removing(q) /\ job'[q] = job[q]
      BY <2>1, <2>9, UnlinkGoes
    <3> QED BY <1>1, <2>2, <2>5, <3>1 DEF Harmless
  <2> QED BY <1>1, <2>2, <2>5, <2>8, <2>9 DEF Present
<1>6. ASSUME NEW p \in Procs, Place(p) PROVE Goal
  <2> DEFINE safe == {d \in archive.bytes : \A q \in Busy : Removing(q) =>
                        IF d \in Present THEN FALSE
                        ELSE d \notin job[q].doomed /\ job[q].does # "erase"}
  <2>1. /\ job' = [job EXCEPT ![p] = [does |-> "restore", rows |-> archive.rows, safe |-> safe]]
        /\ Written(p, archive.bytes \ Present) /\ \A q \in Procs : job[q].does # "restore"
    BY <1>6 DEF Place, Open
  <2>2. r = p /\ c \in safe /\ \A q \in Procs \ {p} : job'[q] = job[q]
    BY <2>1 DEF Kinds
  <2>3. c \in Contents /\ c \in archive.bytes
    BY <2>2 DEF Kinds
  <2>4. ~Removing(p)' /\ \A q \in Procs : Removing(q) => q \in Busy
    BY <2>1 DEF Kinds, Removing, Busy, Idle
  <2>5. CASE c \in Present
    <3>1. c \in Present'
      BY <2>1, <2>3, <2>5 DEF Written, Present
    <3>2. \A q \in Procs : ~Removing(q)'
      BY <2>2, <2>4, <2>5 DEF Removing
    <3> QED BY <3>1, <3>2
  <2>6. CASE c \notin Present
    <3>1. file'[c] = "young" /\ before'[c] = Busy \cup {p}
      BY <2>1, <2>3, <2>6 DEF Written
    <3>2. ASSUME NEW q \in Procs, Removing(q)' PROVE Harmless(q, c)'
      BY <2>2, <2>4, <2>6, <3>1, <3>2 DEF Removing, Harmless
    <3> QED BY <2>3, <3>1, <3>2 DEF Present
  <2> QED BY <2>5, <2>6
<1>7. ASSUME NEW p \in Procs,
             \/ Sweep(p) \/ Backup(p) \/ (\E d \in Contents, picture \in BOOLEAN : Ingest(p, d, picture))
             \/ \E ns \in SUBSET Rows, does \in {"reclaim", "erase"} : Delete(p, ns, does)
      PROVE  FALSE
  <2>1. Open(p)
    BY <1>7 DEF Sweep, Backup, Ingest, Delete
  <2>2. job'[p].does # "restore"
    <3>1. ASSUME NEW d \in Contents, NEW picture \in BOOLEAN, Ingest(p, d, picture)
          PROVE  job'[p].does # "restore"
      BY <3>1 DEF Ingest, Kinds
    <3>2. ASSUME NEW ns \in SUBSET Rows, NEW does \in {"reclaim", "erase"}, Delete(p, ns, does)
          PROVE  job'[p].does # "restore"
      BY <3>2 DEF Delete, Kinds
    <3>3. ASSUME Sweep(p) \/ Backup(p) PROVE job'[p].does # "restore"
      BY <3>3 DEF Sweep, Backup, Kinds
    <3> QED BY <1>7, <3>1, <3>2, <3>3
  <2>3. job'[r] = job[r]
    BY <1>7, <2>2 DEF Sweep, Backup, Ingest, Delete, Kinds
  <2> QED BY <2>1, <2>3 DEF Open
<1>8. ASSUME NEW p \in Procs,
             \/ Die(p) \/ UnlinkFails(p) \/ Done(p) \/ Bundle(p) \/ Swap(p)
             \/ \E n \in Named : Commit(p, n)
      PROVE  Goal
  BY <1>3, <1>8 DEF Die, UnlinkFails, Done, Bundle, Commit, Swap
<1>9. ASSUME UNCHANGED vars \/ (\E d \in Contents : Age(d)) \/ \E p \in Procs : ClearIcon(p)
      PROVE  Goal
  BY <1>2, <1>9 DEF vars, Age, ClearIcon, Kinds
<1> QED
  BY <1>4, <1>5, <1>6, <1>7, <1>8, <1>9 DEF Next
-----------------------------------------------------------------------------
(* A sweep's account.                                                       *)

LEMMA SweepAccountsStep ==
  Kinds /\ Jobs /\ Waiting /\ SweepAccounts /\ [Next]_vars => SweepAccounts'
<1> SUFFICES ASSUME Kinds, Jobs, Waiting, SweepAccounts, [Next]_vars,
                    NEW q \in Procs, job'[q].does = "sweep", NEW c \in job'[q].due
             PROVE  /\ file'[c] = "young" => q \in before'[c]
                    /\ job'[q].stage = "judge" =>
                         file'[c] # "old" \/ c \in job'[q].kept \cup job'[q].left \cup job'[q].doomed
  BY DEF SweepAccounts
<1> DEFINE Stood == job[q].does = "sweep" /\ c \in job[q].due
           Goal == /\ file'[c] = "young" => q \in before'[c]
                   /\ job'[q].stage = "judge" =>
                        file'[c] # "old" \/ c \in job'[q].kept \cup job'[q].left \cup job'[q].doomed
<1>1. ASSUME Stood
      PROVE  /\ c \in Contents /\ q \in Busy
             /\ file[c] = "young" => q \in before[c]
             /\ job[q].stage = "judge" =>
                  file[c] # "old" \/ c \in job[q].kept \cup job[q].left \cup job[q].doomed
             /\ \A p \in Procs : \A cs : Written(p, cs) \/ (before' = Joined(p) /\ file' = file) =>
                  (file'[c] = file[c] \/ file'[c] = "young") /\ (file'[c] = "young" => q \in before'[c])
  <2>1. job[q] \in Removals /\ job[q] # Idle
    BY <1>1, JobForms DEF Removing
  <2>2. c \in Contents /\ q \in Busy
    BY <1>1, <2>1 DEF Removals, Busy
  <2>3. file[c] = "young" => q \in before[c]
    BY <1>1 DEF SweepAccounts
  <2>4. ASSUME NEW p \in Procs, NEW cs, Written(p, cs) \/ (before' = Joined(p) /\ file' = file)
        PROVE  /\ file'[c] = file[c] \/ file'[c] = "young"
               /\ file'[c] = "young" => q \in before'[c]
    BY <2>2, <2>3, <2>4, JoinedKeeps DEF Written
  <2> QED BY <1>1, <2>2, <2>3, <2>4 DEF SweepAccounts
<1>2. ASSUME job' = job, before' = before,
             \A d \in Contents : file'[d] = file[d] \/ (file'[d] = "old" /\ file[d] = "young" /\ before[d] = {})
      PROVE  Goal
  BY <1>1, <1>2
<1>3. ASSUME NEW p \in Procs, End(p), UNCHANGED file PROVE Goal
  BY <1>1, <1>3, EndIsIdle DEF End
<1>4. ASSUME NEW p \in Procs, Goes(p), UNCHANGED <<file, before>>, q # p PROVE Goal
  BY <1>1, <1>4 DEF Goes
<1>5. ASSUME NEW p \in Procs, ReadImages(p) \/ SweepReadImages(p) \/ \E d \in Contents : Judge(p, d)
      PROVE  Goal
  <2>1. Goes(p) /\ UNCHANGED <<file, before>>
    BY <1>5, RemovalsGo DEF ReadImages, SweepReadImages, Judge
  <2>2. ASSUME q = p PROVE Goal
    <3>1. Stood
      BY <2>1, <2>2 DEF Goes
    <3>2. ASSUME SweepReadImages(p) PROVE Goal
      BY <1>1, <2>1, <2>2, <3>1, <3>2, RemovalsGo
    <3>3. ASSUME NEW d \in Contents, Judge(p, d) PROVE Goal
      <4>1. /\ job'[p].stage = job[p].stage /\ job'[p].kept = job[p].kept
            /\ job'[p].left = job[p].left \ {d} /\ job[p].doomed = {}
            /\ job'[p].doomed = IF Spared(p, d) THEN {} ELSE {d}
        BY <3>3, RemovalsGo DEF Judge
      <4>2. d = c /\ Spared(p, d) => c \in job[p].kept \/ file[c] # "old"
        BY <2>2, <3>1 DEF Spared
      <4> QED BY <1>1, <2>1, <2>2, <3>1, <4>1, <4>2
    <3>4. ~ReadImages(p)
      BY <2>2, <3>1 DEF ReadImages
    <3> QED BY <1>5, <3>2, <3>3, <3>4
  <2> QED BY <1>4, <2>1, <2>2
<1>6. ASSUME NEW p \in Procs, Unlink(p) PROVE Goal
  <2>1. PICK d \in Present : Unlink(p)!(d)
    BY <1>6 DEF Unlink
  <2>2. job[p] \in Removals /\ job'[p] = [job[p] EXCEPT !.doomed = {}] /\ job[p].doomed = {d}
    BY <2>1, UnlinkGoes, JobForms
  <2>3. /\ job'[p].does = job[p].does /\ job'[p].stage = job[p].stage /\ job'[p].due = job[p].due
        /\ job'[p].kept = job[p].kept /\ job'[p].left = job[p].left
    BY <2>2 DEF Removals
  <2>4. q # p => job'[q] = job[q]
    BY <2>1, UnlinkGoes DEF Removing
  <2>5. Stood
    BY <2>3, <2>4
  <2>6. /\ file' = [file EXCEPT ![d] = "absent"] /\ before' = [before EXCEPT ![d] = {}]
    BY <2>1
  <2>7. CASE c = d
    BY <1>1, <2>5, <2>6, <2>7 DEF Kinds
  <2>8. CASE c # d
    <3>1. file'[c] = file[c] /\ before'[c] = before[c]
      BY <1>1, <2>5, <2>6, <2>8 DEF Kinds, Waiting
    <3> QED BY <1>1, <2>2, <2>3, <2>4, <2>5, <2>8, <3>1
  <2> QED BY <2>7, <2>8
<1>7. ASSUME NEW p \in Procs, NEW j, job' = [job EXCEPT ![p] = j], j.does # "sweep",
             NEW cs, Written(p, cs) \/ (before' = Joined(p) /\ file' = file)
      PROVE  Goal
  <2>1. q # p /\ job'[q] = job[q]
    BY <1>7 DEF Kinds
  <2> QED BY <1>1, <1>7, <2>1
<1>8. ASSUME NEW p \in Procs, Sweep(p) PROVE Goal
  <2>1. q # p => job'[q] = job[q]
    BY <1>8 DEF Sweep, Kinds
  <2>2. q = p => file[c] = "old" /\ job'[q].stage = "images"
    BY <1>8 DEF Sweep, Kinds
  <2>3. before' = Joined(p) /\ file' = file
    BY <1>8 DEF Sweep
  <2> QED BY <1>1, <2>1, <2>2, <2>3
<1>9. ASSUME NEW p \in Procs, Backup(p) PROVE Goal
  <2>1. job' = [job EXCEPT ![p] = job'[p]] /\ job'[p].does = "backup"
    BY <1>9 DEF Backup, Kinds
  <2>2. before' = Joined(p) /\ file' = file
    BY <1>9 DEF Backup
  <2> QED BY <1>7, <2>1, <2>2
<1>10. ASSUME NEW p \in Procs, Place(p) PROVE Goal
  BY <1>7, <1>10 DEF Place
<1>11. ASSUME NEW p \in Procs, NEW d \in Contents, NEW picture \in BOOLEAN, Ingest(p, d, picture)
       PROVE  Goal
  <2>1. job' = [job EXCEPT ![p] = job'[p]] /\ job'[p].does = "attach"
    BY <1>11 DEF Ingest, Kinds
  <2>2. Written(p, {d} \ Present)
    BY <1>11 DEF Ingest
  <2> QED BY <1>7, <2>1, <2>2
<1>12. ASSUME NEW p \in Procs, NEW ns \in SUBSET Rows, NEW does \in {"reclaim", "erase"},
              Delete(p, ns, does)
       PROVE  Goal
  <2>1. job' = [job EXCEPT ![p] = job'[p]] /\ job'[p].does = does
    BY <1>12 DEF Delete, Kinds
  <2>2. before' = Joined(p) /\ file' = file
    BY <1>12 DEF Delete
  <2> QED BY <1>7, <2>1, <2>2
<1>13. ASSUME NEW p \in Procs,
              \/ Die(p) \/ UnlinkFails(p) \/ Done(p) \/ Bundle(p) \/ Swap(p)
              \/ \E n \in Named : Commit(p, n)
       PROVE  Goal
  BY <1>3, <1>13 DEF Die, UnlinkFails, Done, Bundle, Commit, Swap
<1>14. ASSUME UNCHANGED vars \/ (\E d \in Contents : Age(d)) \/ \E p \in Procs : ClearIcon(p)
       PROVE  Goal
  BY <1>2, <1>14 DEF vars, Age, ClearIcon, Kinds
<1> QED
  BY <1>5, <1>6, <1>8, <1>9, <1>10, <1>11, <1>12, <1>13, <1>14 DEF Next

-----------------------------------------------------------------------------
(* What holds.                                                              *)

LEMMA InitIInv == Init => IInv
<1> SUFFICES ASSUME Init PROVE IInv
  OBVIOUS
<1> USE BlobsAssumption DEF Init
<1>1. Blank \in Names
  BY DEF Blank, Names
<1>2. Kinds
  BY <1>1 DEF Kinds, NoArchive
<1>3. \A p \in Procs : job[p].does = "nothing" /\ ~Removing(p)
  BY DEF Idle, Removing
<1>4. Jobs /\ OwnIsFresh /\ PlacedIsSafe /\ SweepAccounts
  BY <1>3 DEF Jobs, OwnIsFresh, PlacedIsSafe, SweepAccounts
<1>5. Waiting /\ SureIsSafe
  BY DEF Waiting, SureIsSafe
<1> QED BY <1>2, <1>4, <1>5 DEF IInv

LEMMA Inductive == Spec => []IInv
<1>1. IInv /\ [Next]_vars => IInv'
  BY KindsStep, JobsStep, WaitingStep, OwnIsFreshStep, SureIsSafeStep, PlacedIsSafeStep,
     SweepAccountsStep DEF IInv
<1> QED BY <1>1, InitIInv, PTL DEF Spec

\* The store, the archive, the files and those who are waited for keep their kinds, and
\* no removal has passed its verdict on two names at once.
THEOREM BlobsAreOfTheirKind == Spec => []TypeOK
<1>1. IInv => TypeOK
  <2> SUFFICES ASSUME IInv PROVE TypeOK
    OBVIOUS
  <2>1. \A p \in Procs : Removing(p) => Cardinality(job[p].doomed) <= 1
    <3>1. Cardinality({}) = 0 /\ \A c \in Contents : Cardinality({c}) = 1
      BY FS_EmptySet, FS_Singleton
    <3>2. \A p \in Procs : Removing(p) =>
            job[p].doomed = {} \/ \E c \in Contents : job[p].doomed = {c}
      BY DEF IInv, Jobs
    <3> QED BY <3>1, <3>2
  <2> QED BY <2>1 DEF IInv, Kinds, Waiting, TypeOK, Names
<1> QED BY <1>1, Inductive, PTL

\* A row committed over bytes nobody was taking keeps them: what the unlink of a
\* reclaim, of a sweep or of an erase takes was never the bytes of such a row, and a
\* restore that lost none of its bytes to one hands them on to the store it puts there.
THEOREM SureBytesStay == Spec => []BytesStay
<1>1. IInv => BytesStay
  BY DEF IInv, SureIsSafe, BytesStay
<1> QED BY <1>1, Inductive, PTL

\* What an attach wrote waits for its row: GC_MIN_AGE outlasts every removal that was
\* under way beside it, however many there are.
THEOREM YoungBytesWait == Spec => []InFlightKept
<1>1. IInv => InFlightKept
  <2> SUFFICES ASSUME IInv, NEW p \in Procs, job[p].does = "attach", job[p].own
               PROVE  job[p].c \in Present
    BY DEF InFlightKept
  <2>1. job[p].c \in Contents
    BY JobForms DEF IInv, Attaches
  <2> QED BY <2>1 DEF IInv, OwnIsFresh, Present
<1> QED BY <1>1, Inductive, PTL

\* gc leaves nothing behind of what was old and unnamed when it began, but what a row
\* came to name or somebody wrote anew.
THEOREM SweepsAreClean == Spec => []SweptClean
<1>1. IInv => SweptClean
  <2> SUFFICES ASSUME IInv, NEW p \in Procs, job[p].does = "sweep", WentThrough(p),
                      NEW c \in job[p].due
               PROVE  c \notin Present \/ c \in job[p].kept \/ file[c] = "young"
    BY DEF SweptClean
  <2>1. job[p].stage = "judge" /\ job[p].left = {} /\ job[p].doomed = {}
    BY DEF WentThrough
  <2>2. file[c] # "old" \/ c \in job[p].kept
    BY <2>1 DEF IInv, SweepAccounts
  <2> QED BY <2>2 DEF IInv, Kinds, Present
<1> QED BY <1>1, Inductive, PTL
=============================================================================
