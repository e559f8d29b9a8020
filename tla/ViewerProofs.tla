----------------------------- MODULE ViewerProofs -----------------------------
(***************************************************************************)
(* For any number of records and carriers, any length of feed, page and    *)
(* part, and any number of faults and new servers: the Viewer implements   *)
(* Mirror; nothing is left behind but a deletion a whole picture went      *)
(* past; a level carrier has read everything; and a phone holds what its   *)
(* place in the order says it holds.                                       *)
(*                                                                         *)
(* The carrier is followed over its requests: what it holds in memory of   *)
(* the store (Bounded, Levelled, Carried) and what it has in its hands of  *)
(* the queue (Onward, Sent) are related to the store, to the queue and to  *)
(* the server as these stand meanwhile.  The turn is what all of it rests  *)
(* on (Turns).                                                             *)
(***************************************************************************)
EXTENDS Viewer, SequenceTheorems, FiniteSetTheorems, WellFoundedInduction, TLAPS

Numbers == [version : Nat, cursor : Nat, placed : Nat, seq : Nat, until : Nat]
Waiting == [rec : Records, val : 1..Latest]
Steps == {"none", "off", "copy", "pages", "read back", "remember", "drain", "sent", "answer",
          "finish"}
Jobs == [version : Nat, sending : Nat, mem : Numbers, now : Nat, page : Nat, more : BOOLEAN,
         parts : Nat, answer : Nat, failed : BOOLEAN, batch : Seq(Waiting)]

\* No carrier is past its first question but the one that has the turn.
Turns == \A c \in Carriers : Taken(c) => turn = c

\* What a step needs of the carrier's own variables when it begins.
AtWork ==
  \A c \in Carriers :
    /\ pc[c] \in {"sent", "answer"} => job[c].parts > 0
    /\ pc[c] \in {"pages", "read back"} => ~FirstRun(job[c].mem)
    /\ pc[c] = "read back" => job[c].page > 0

\* Nobody has read what the feed does not hold yet.
Reached(j) ==
  /\ j.mem.version <= Latest /\ j.mem.cursor <= Latest
  /\ j.version <= Latest /\ j.page <= Latest

Bounded ==
  /\ left.version <= Latest /\ left.cursor <= Latest
  /\ \A c \in Carriers : Reached(job[c])

\* A state of a record is a change that was made to it.
Its(r, n) == n = 0 \/ (n \in 1..Latest /\ feed[n].rec = r)

Made(entries) == \A i \in DOMAIN entries : Its(entries[i].rec, entries[i].val)

OfRecords ==
  /\ \A r \in Records : Its(r, rows[r].val)
  /\ Made(queue)
  /\ \A c \in Carriers : Made(job[c].batch)

\* What waits is nothing older than what the server has, nor than what is on its way.
Newer(entries) ==
  \A i \in DOMAIN entries :
    /\ entries[i].val >= rows[entries[i].rec].val
    /\ \A j \in DOMAIN queue : queue[j].rec = entries[i].rec => queue[j].val >= entries[i].val

Onward ==
  /\ \A i \in DOMAIN queue : queue[i].val >= rows[queue[i].rec].val
  /\ \A c \in Carriers : pc[c] = "sent" => Newer(job[c].batch)

\* Nobody's place is past the order's end.
Ordered ==
  /\ \A r \in Records : rows[r].seq <= standing.seq
  /\ phone.cursor <= standing.seq

\* Where no fault was, a version is remembered when the feed was read up to it.
Straight(at, j) ==
  /\ at \notin {"pages", "read back"} => j.mem.version <= j.mem.cursor
  /\ at = "read back" /\ ~j.more => j.version <= j.page

Levelled ==
  faults = 0 =>
    /\ left.version <= left.cursor
    /\ \A c \in Carriers : Taken(c) => Straight(pc[c], job[c])

\* A part under way is the front of the queue; arrived, the server has it.
InHand(at, batch) ==
  /\ Len(batch) <= Len(queue)
  /\ \A i \in DOMAIN batch :
       /\ batch[i] = queue[i]
       /\ at = "answer" => rows[batch[i].rec].val = batch[i].val

Sent ==
  setup = "done" =>
    \A c \in Carriers : pc[c] \in {"sent", "answer"} => InHand(pc[c], job[c].batch)

\* The newest word on r, queued or carried, is the store's.
InStep(r) ==
  /\ \A i \in DOMAIN queue : queue[i].rec = r => queue[i].val = Now(r)
  /\ (\A i \in DOMAIN queue : queue[i].rec # r) => Seen(rows[r].val) = Seen(Now(r))

\* r will be carried by whoever goes on from l, or has been.
Goes(r, l) == Now(r) > l.cursor \/ FirstRun(l) \/ r \in skipped \/ InStep(r)

Carried ==
  setup = "done" => \A r \in Records :
    Goes(r, left) /\ \A c \in Carriers : Taken(c) => Goes(r, job[c].mem)

IInv ==
  /\ TypeOK /\ Turns /\ AtWork /\ Bounded /\ OfRecords /\ Onward
  /\ Ordered /\ PassedIsHeld /\ Levelled /\ Sent /\ Carried

\* Every record once.
Once(q) == \A i, j \in DOMAIN q : q[i].rec = q[j].rec => i = j

-----------------------------------------------------------------------------
(* The operators the model is built from.                                   *)

\* A set of places has a last one.
LEMMA HasLast ==
  ASSUME NEW n \in Nat, NEW C \in SUBSET (1..n), C # {}
  PROVE  \E i \in C : \A j \in C : j <= i
<1> DEFINE D == {n - i : i \in C}
<1>0. \A i \in C : i \in Nat /\ n - i \in Nat
  OBVIOUS
<1>1. D \in SUBSET Nat /\ D # {}
  <2>1. PICK i \in C : TRUE
    OBVIOUS
  <2>2. n - i \in D
    OBVIOUS
  <2> QED BY <1>0, <2>2
<1>2. \E x \in D : \A y \in D : ~(<<y, x>> \in OpToRel(<, Nat))
  <2> HIDE DEF D
  <2> QED BY <1>1, WFMin, NatLessThanWellFounded
<1>3. PICK x \in D : \A y \in D : ~(y < x)
  BY <1>1, <1>2 DEF OpToRel
<1>4. PICK i \in C : x = n - i
  OBVIOUS
<1>5. ASSUME NEW j \in C PROVE j <= i
  <2>1. n - j \in D
    OBVIOUS
  <2>2. ~(n - j < n - i)
    <3> HIDE DEF D
    <3> QED BY <1>3, <1>4, <2>1
  <2> HIDE DEF D
  <2> QED BY <1>0, <2>2
<1> QED BY <1>5

LEMMA IsASequence ==
  ASSUME NEW S, NEW n \in Nat, NEW f \in [1..n -> S]
  PROVE  f \in Seq(S) /\ Len(f) = n /\ DOMAIN f = 1..n
<1>1. f \in Seq(S)
  BY SeqDef
<1>2. DOMAIN f = 1..Len(f) /\ Len(f) \in Nat
  BY <1>1, LenProperties
<1> QED BY <1>1, <1>2

\* One to one between two finite sets of one size, all is met.
LEMMA AllAreMet ==
  ASSUME NEW S, NEW T, IsFiniteSet(T), Cardinality(S) = Cardinality(T), NEW f \in [S -> T],
         \A x, y \in S : f[x] = f[y] => x = y
  PROVE  \A t \in T : \E x \in S : f[x] = t
<1>1. f \in Injection(S, T)
  BY DEF Injection, IsInjective
<1>2. f \in Surjection(S, T)
  BY <1>1, FS_Injection
<1> QED BY <1>2 DEF Surjection

\* Nth counts a set of places through, each once and in their order.
LEMMA NthOf ==
  ASSUME NEW n \in Nat, NEW K \in SUBSET (1..n)
  PROVE  /\ Cardinality(K) \in Nat
         /\ \A i \in 1..Cardinality(K) : Nth(K, i) \in K
         /\ \A k \in K : \E i \in 1..Cardinality(K) : Nth(K, i) = k
         /\ \A i, j \in 1..Cardinality(K) : Nth(K, i) = Nth(K, j) => i = j
<1> DEFINE Upto(k) == {j \in K : j <= k}
           rank == [k \in K |-> Cardinality(Upto(k))]
           size == Cardinality(K)
<1>0. \A k \in K : k \in Nat
  OBVIOUS
<1>1. IsFiniteSet(K) /\ size \in Nat
  <2>1. IsFiniteSet(1..n)
    <3>1. 1 \in Int /\ n \in Int
      OBVIOUS
    <3> QED BY <3>1, FS_Interval
  <2> QED BY <2>1, FS_Subset, FS_CardinalityType
<1>2. ASSUME NEW k \in K PROVE IsFiniteSet(Upto(k)) /\ rank[k] \in 1..size
  <2>1. Upto(k) \in SUBSET K /\ {k} \in SUBSET Upto(k)
    OBVIOUS
  <2>2. IsFiniteSet(Upto(k)) /\ Cardinality(Upto(k)) <= size /\ Cardinality(Upto(k)) \in Nat
    <3> HIDE DEF Upto
    <3> QED BY <1>1, <2>1, FS_Subset, FS_CardinalityType
  <2>3. Cardinality({k}) = 1 /\ Cardinality({k}) <= Cardinality(Upto(k))
    <3> HIDE DEF Upto
    <3> QED BY <2>1, <2>2, FS_Subset, FS_Singleton
  <2> QED BY <2>2, <2>3
<1>3. ASSUME NEW k \in K, NEW l \in K, k < l PROVE rank[k] < rank[l]
  <2>1. (Upto(k) \cup {l}) \in SUBSET Upto(l) /\ l \notin Upto(k)
    <3>1. k \in Nat /\ l \in Nat /\ (\A j \in K : j \in Nat)
      BY <1>0
    <3>2. \A j \in K : j <= k => j <= l
      BY <1>3, <3>1
    <3>3. ~(l <= k) /\ l <= l
      BY <1>3, <3>1
    <3> QED BY <3>2, <3>3
  <2>2. Cardinality(Upto(k) \cup {l}) = Cardinality(Upto(k)) + 1
    <3> HIDE DEF Upto
    <3> QED BY <1>2, <2>1, FS_AddElement
  <2>3. Cardinality(Upto(k) \cup {l}) <= Cardinality(Upto(l))
    <3> HIDE DEF Upto
    <3> QED BY <1>2, <2>1, FS_Subset
  <2> QED BY <1>2, <2>2, <2>3
<1>4. \A k, l \in K : rank[k] = rank[l] => k = l
  <2> SUFFICES ASSUME NEW k \in K, NEW l \in K, rank[k] = rank[l], k # l PROVE FALSE
    OBVIOUS
  <2>1. k < l \/ l < k
    BY <1>0
  <2>2. rank[k] \in Int /\ rank[l] \in Int
    BY <1>1, <1>2
  <2> HIDE DEF rank
  <2>3. rank[k] < rank[l] \/ rank[l] < rank[k]
    BY <1>3, <2>1
  <2> QED BY <2>2, <2>3
<1>5. IsFiniteSet(1..size) /\ Cardinality(K) = Cardinality(1..size)
  <2>1. 1 \in Int /\ size \in Int
    BY <1>1
  <2>2. IsFiniteSet(1..size) /\ Cardinality(1..size) = IF 1 > size THEN 0 ELSE size - 1 + 1
    BY <2>1, FS_Interval
  <2> HIDE DEF size
  <2> QED BY <1>1, <2>2 DEF size
<1>6. \A i \in 1..size : \E k \in K : rank[k] = i
  <2>1. rank \in [K -> 1..size]
    BY <1>2
  <2> DEFINE T == 1..size
  <2> HIDE DEF rank, size
  <2>2. rank \in [K -> T] /\ IsFiniteSet(T) /\ Cardinality(K) = Cardinality(T)
    BY <1>5, <2>1
  <2> HIDE DEF T
  <2>3. rank \in Injection(K, T)
    BY <1>4, <2>2 DEF Injection, IsInjective
  <2>4. rank \in Surjection(K, T)
    BY <2>2, <2>3, FS_Injection
  <2>5. \A t \in T : \E k \in K : rank[k] = t
    BY <2>4 DEF Surjection
  <2> QED BY <2>5 DEF T
<1>7. \A i \in 1..size : Nth(K, i) \in K /\ rank[Nth(K, i)] = i
  BY <1>6 DEF Nth
<1>8. ASSUME NEW k \in K PROVE Nth(K, rank[k]) = k
  <2>1. Nth(K, rank[k]) \in K /\ rank[Nth(K, rank[k])] = rank[k]
    BY <1>2, <1>7
  <2> HIDE DEF rank
  <2> QED BY <1>4, <2>1
<1> HIDE DEF rank, size
<1> QED BY <1>1, <1>2, <1>7, <1>8 DEF size

\* Enqueue keeps what no newer word came for, puts the new behind it, and has a record
\* once if both had.
PutBehind(q, new, e) ==
  /\ \A i \in DOMAIN e :
       \/ \E k \in DOMAIN q : e[i] = q[k] /\ \A m \in DOMAIN new : new[m].rec # q[k].rec
       \/ \E m \in DOMAIN new : e[i] = new[m]
  /\ \A k \in DOMAIN q : (\A m \in DOMAIN new : new[m].rec # q[k].rec) => \E i \in DOMAIN e : e[i] = q[k]
  /\ \A m \in DOMAIN new : \E i \in DOMAIN e : e[i] = new[m]

LEMMA EnqueueIs ==
  ASSUME NEW S, NEW q \in Seq(S), NEW new \in Seq(S)
  PROVE  /\ Enqueue(q, new) \in Seq(S)
         /\ PutBehind(q, new, Enqueue(q, new))
         /\ Once(q) /\ Once(new) => Once(Enqueue(q, new))
<1> DEFINE stays == {k \in DOMAIN q : \A i \in DOMAIN new : new[i].rec # q[k].rec}
           n == Cardinality(stays)
           front == [i \in 1..n |-> q[Nth(stays, i)]]
           e == front \o new
<1>1. Enqueue(q, new) = e
  BY DEF Enqueue
<1>2. /\ Len(q) \in Nat /\ DOMAIN q = 1..Len(q) /\ Len(new) \in Nat /\ DOMAIN new = 1..Len(new)
      /\ \A k \in DOMAIN q : q[k] \in S
  BY LenProperties
<1>3. stays \in SUBSET (1..Len(q))
  BY <1>2
<1>4. /\ n \in Nat
      /\ \A i \in 1..n : Nth(stays, i) \in stays
      /\ \A k \in stays : \E i \in 1..n : Nth(stays, i) = k
      /\ \A i, j \in 1..n : Nth(stays, i) = Nth(stays, j) => i = j
  <2> HIDE DEF stays
  <2> QED BY <1>2, <1>3, NthOf
<1>5. front \in [1..n -> S]
  BY <1>2, <1>4
<1>6. front \in Seq(S) /\ Len(front) = n
  <2> HIDE DEF front, n
  <2> QED BY <1>4, <1>5, IsASequence
<1>7. /\ e \in Seq(S) /\ Len(e) = n + Len(new)
      /\ \A i \in 1..n : e[i] = front[i]
      /\ \A i \in 1..Len(new) : e[n + i] = new[i]
  <2>1. new \in Seq(S)
    OBVIOUS
  <2> HIDE DEF front, n
  <2>2. /\ front \o new \in Seq(S) /\ Len(front \o new) = Len(front) + Len(new)
        /\ \A i \in 1..(Len(front) + Len(new)) :
             (front \o new)[i] = IF i <= Len(front) THEN front[i] ELSE new[i - Len(front)]
    BY <1>6, <2>1, ConcatProperties
  <2>3. \A i \in 1..n : i \in 1..(n + Len(new)) /\ i <= n
    BY <1>2, <1>4
  <2>4. \A i \in 1..Len(new) :
          n + i \in 1..(n + Len(new)) /\ ~(n + i <= n) /\ (n + i) - n = i
    BY <1>2, <1>4
  <2> QED BY <1>6, <2>2, <2>3, <2>4
<1>8. DOMAIN e = 1..(n + Len(new))
  <2> HIDE DEF e
  <2> QED BY <1>7, LenProperties
<1>9. ASSUME NEW i \in DOMAIN e
      PROVE  \/ i \in 1..n /\ e[i] = q[Nth(stays, i)] /\ Nth(stays, i) \in stays
             \/ i - n \in DOMAIN new /\ e[i] = new[i - n]
  <2>1. CASE i \in 1..n
    BY <1>4, <1>7, <2>1
  <2>2. CASE i \notin 1..n
    <3>1. i - n \in 1..Len(new) /\ i = n + (i - n)
      BY <1>2, <1>4, <1>8, <2>2
    <3> HIDE DEF e, n
    <3> QED BY <1>2, <1>7, <3>1
  <2> QED BY <2>1, <2>2
<1>10. \A k \in stays : \E i \in DOMAIN e : e[i] = q[k]
  <2> SUFFICES ASSUME NEW k \in stays PROVE \E i \in DOMAIN e : e[i] = q[k]
    OBVIOUS
  <2>1. PICK i \in 1..n : Nth(stays, i) = k
    BY <1>4
  <2>2. i \in DOMAIN e /\ e[i] = q[k]
    BY <1>2, <1>4, <1>7, <1>8, <2>1
  <2> QED BY <2>2
<1>11. \A m \in DOMAIN new : \E i \in DOMAIN e : e[i] = new[m]
  <2> SUFFICES ASSUME NEW m \in DOMAIN new PROVE \E i \in DOMAIN e : e[i] = new[m]
    OBVIOUS
  <2>1. n + m \in DOMAIN e /\ e[n + m] = new[m]
    <3> HIDE DEF e, n
    <3> QED BY <1>2, <1>4, <1>7, <1>8
  <2> QED BY <2>1
<1>12. ASSUME \A i, j \in DOMAIN q : q[i].rec = q[j].rec => i = j,
              \A i, j \in DOMAIN new : new[i].rec = new[j].rec => i = j,
              NEW i \in DOMAIN e, NEW j \in DOMAIN e, e[i].rec = e[j].rec
       PROVE  i = j
  <2>0. i \in Int /\ j \in Int /\ n \in Int
    BY <1>2, <1>4, <1>8
  <2>1. \A k \in stays, m \in DOMAIN new : q[k].rec # new[m].rec
    OBVIOUS
  <2>2. CASE i \in 1..n /\ j \in 1..n
    <3>1. /\ Nth(stays, i) \in stays /\ Nth(stays, j) \in stays
          /\ e[i] = q[Nth(stays, i)] /\ e[j] = q[Nth(stays, j)]
      BY <1>4, <1>7, <2>2
    <3>2. Nth(stays, i) \in DOMAIN q /\ Nth(stays, j) \in DOMAIN q
      BY <3>1
    <3>3. Nth(stays, i) = Nth(stays, j)
      BY <1>12, <3>1, <3>2
    <3> HIDE DEF stays, n
    <3> QED BY <1>4, <2>2, <3>3
  <2>3. CASE i - n \in DOMAIN new /\ e[i] = new[i - n] /\ j - n \in DOMAIN new /\ e[j] = new[j - n]
    <3>1. i - n = j - n
      BY <1>12, <2>3
    <3> QED BY <2>0, <3>1
  <2> HIDE DEF e, n, stays
  <2> QED BY <1>9, <1>12, <2>1, <2>2, <2>3
<1>13. \A i \in DOMAIN e :
         \/ \E k \in DOMAIN q : e[i] = q[k] /\ \A m \in DOMAIN new : new[m].rec # q[k].rec
         \/ \E m \in DOMAIN new : e[i] = new[m]
  <2> SUFFICES ASSUME NEW i \in DOMAIN e
               PROVE  \/ \E k \in stays : e[i] = q[k]
                      \/ \E m \in DOMAIN new : e[i] = new[m]
    OBVIOUS
  <2> HIDE DEF e, n, stays
  <2> QED BY <1>9
<1>14. \A k \in DOMAIN q : (\A m \in DOMAIN new : new[m].rec # q[k].rec) =>
         \E i \in DOMAIN e : e[i] = q[k]
  <2> HIDE DEF e, n
  <2> QED BY <1>10
<1> HIDE DEF e, n, front, stays
<1>15. (/\ \A i, j \in DOMAIN q : q[i].rec = q[j].rec => i = j
        /\ \A i, j \in DOMAIN new : new[i].rec = new[j].rec => i = j)
       => \A i, j \in DOMAIN e : e[i].rec = e[j].rec => i = j
  BY <1>12
<1>16. PutBehind(q, new, e)
  BY <1>11, <1>13, <1>14 DEF PutBehind
<1> QED BY <1>1, <1>7, <1>15, <1>16 DEF Once

\* The entries of a set of records: each of it once, as the store has it.
Listed(S, e) ==
  /\ \A i \in DOMAIN e : e[i].rec \in S /\ e[i].val = Now(e[i].rec)
  /\ \A r \in S : \E i \in DOMAIN e : e[i] = [rec |-> r, val |-> Now(r)]
  /\ Once(e)

LEMMA EntriesAre ==
  ASSUME NEW S \in SUBSET Records, NEW new \in Entries(S), NEW V, \A r \in S : Now(r) \in V
  PROVE  new \in Seq([rec : Records, val : V]) /\ Listed(S, new)
<1> DEFINE size == Cardinality(S)
           D == 1..size
<1>1. PICK s \in SetToSeqs(S) : new = [i \in DOMAIN s |-> [rec |-> s[i], val |-> Now(s[i])]]
  BY DEF Entries
<1>2. s \in [D -> S] /\ \A i, j \in D : i # j => s[i] # s[j]
  BY DEF SetToSeqs
<1>3. IsFiniteSet(S) /\ size \in Nat
  BY RecordsAssumption, FS_Subset, FS_CardinalityType
<1>4. IsFiniteSet(D) /\ Cardinality(D) = size
  <2>1. 1 \in Int /\ size \in Int
    BY <1>3
  <2>2. IsFiniteSet(1..size) /\ Cardinality(1..size) = IF 1 > size THEN 0 ELSE size - 1 + 1
    BY <2>1, FS_Interval
  <2> HIDE DEF size
  <2> QED BY <1>3, <2>2
<1>5. \A r \in S : \E i \in D : s[i] = r
  <2>1. s \in [D -> S] /\ Cardinality(D) = Cardinality(S) /\ IsFiniteSet(S)
        /\ \A i, j \in D : s[i] = s[j] => i = j
    BY <1>2, <1>3, <1>4
  <2> HIDE DEF D, size
  <2> QED BY <2>1, AllAreMet
<1> HIDE DEF size
<1>6. new = [i \in D |-> [rec |-> s[i], val |-> Now(s[i])]]
  BY <1>1, <1>2
<1>7. new \in [D -> [rec : Records, val : V]] /\ DOMAIN new = D
  BY <1>2, <1>6
<1>8. new \in Seq([rec : Records, val : V])
  BY <1>3, <1>7, IsASequence
<1> HIDE DEF D
<1>9. \A i \in D : new[i] = [rec |-> s[i], val |-> Now(s[i])] /\ s[i] \in S
  BY <1>2, <1>6
<1>10. \A r \in S : \E i \in DOMAIN new : new[i] = [rec |-> r, val |-> Now(r)]
  BY <1>5, <1>7, <1>9
<1>11. \A i, j \in DOMAIN new : new[i].rec = new[j].rec => i = j
  BY <1>2, <1>7, <1>9
<1> QED BY <1>7, <1>8, <1>9, <1>10, <1>11 DEF Listed, Once

\* A record stands at the last change made to it, or at none.
LastIn(f, r) == LET C == {i \in 1..Len(f) : f[i].rec = r}
                IN IF C = {} THEN 0 ELSE CHOOSE i \in C : \A j \in C : j <= i

LEMMA LastIs ==
  ASSUME NEW S, NEW f \in Seq(S), NEW r
  PROVE  /\ LastIn(f, r) \in 0..Len(f)
         /\ LastIn(f, r) = 0 \/ (LastIn(f, r) \in 1..Len(f) /\ f[LastIn(f, r)].rec = r)
         /\ \A i \in 1..Len(f) : f[i].rec = r => i <= LastIn(f, r)
<1> DEFINE C == {i \in 1..Len(f) : f[i].rec = r}
<1>1. Len(f) \in Nat
  BY LenProperties
<1>2. CASE C = {}
  BY <1>1, <1>2 DEF LastIn
<1>3. CASE C # {}
  <2>1. \E i \in C : \A j \in C : j <= i
    <3>1. C \in SUBSET (1..Len(f))
      OBVIOUS
    <3> HIDE DEF C
    <3> QED BY <1>1, <1>3, <3>1, HasLast
  <2>2. LastIn(f, r) = CHOOSE i \in C : \A j \in C : j <= i
    BY <1>3 DEF LastIn
  <2>3. LastIn(f, r) \in C /\ \A j \in C : j <= LastIn(f, r)
    <3> HIDE DEF C
    <3> QED BY <2>1, <2>2
  <2> QED BY <1>1, <2>3
<1> QED BY <1>2, <1>3

LEMMA NowIs ==
  ASSUME NEW r, feed \in Seq([rec : Records, op : {"write", "delete"}])
  PROVE  /\ Now(r) \in 0..Latest /\ Its(r, Now(r))
         /\ \A i \in 1..Latest : feed[i].rec = r => i <= Now(r)
<1>1. Now(r) = LastIn(feed, r)
  BY DEF Now, LastIn, Latest
<1> QED BY <1>1, LastIs DEF Its, Latest

\* No state of a record is newer than the one it stands at.
LEMMA NoneIsNewer ==
  ASSUME feed \in Seq([rec : Records, op : {"write", "delete"}]), NEW r, NEW n, Its(r, n)
  PROVE  n <= Now(r)
<1>1. /\ Now(r) \in 0..Latest
      /\ \A i \in 1..Latest : feed[i].rec = r => i <= Now(r)
  BY NowIs
<1>2. CASE n = 0
  <2>1. Latest \in Nat
    BY LenProperties DEF Latest
  <2> QED BY <1>1, <1>2, <2>1
<1>3. CASE n # 0
  BY <1>1, <1>3 DEF Its
<1> QED BY <1>2, <1>3

\* What a stretch moved it moved once, and within the stretch.
LEMMA MovedAre ==
  ASSUME feed \in Seq([rec : Records, op : {"write", "delete"}]),
         NEW from \in Nat \ {0}, NEW to \in Nat, to <= Latest
  PROVE  /\ \A op \in {"write", "delete"} : \A r \in Moved(from, to, op) : Now(r) \in 1..Latest
         /\ Moved(from, to, "write") \cap Moved(from, to, "delete") = {}
         /\ \A r \in Records : Now(r) \in from..to =>
              r \in (Moved(from, to, "write") \cap Live) \cup Moved(from, to, "delete")
<1>0. Latest \in Nat /\ \A i \in 1..Latest : feed[i] \in [rec : Records, op : {"write", "delete"}]
  BY LenProperties DEF Latest
<1>1. ASSUME NEW op \in {"write", "delete"}, NEW r \in Moved(from, to, op)
      PROVE  Now(r) \in 1..Latest
  <2>1. PICK i \in from..to : feed[i] = [rec |-> r, op |-> op]
    BY <1>1 DEF Moved
  <2>2. i \in 1..Latest /\ feed[i].rec = r
    BY <1>0, <2>1
  <2>3. i <= Now(r) /\ Now(r) \in 0..Latest
    BY <2>2, NowIs
  <2> QED BY <1>0, <2>2, <2>3
<1>2. ASSUME NEW r \in Moved(from, to, "write"), r \in Moved(from, to, "delete") PROVE FALSE
  <2>1. PICK i \in from..to : feed[i] = [rec |-> r, op |-> "write"]
                              /\ \A j \in (i + 1)..to : feed[j].rec # r
    BY DEF Moved
  <2>2. PICK k \in from..to : feed[k] = [rec |-> r, op |-> "delete"]
                              /\ \A j \in (k + 1)..to : feed[j].rec # r
    BY <1>2 DEF Moved
  <2>3. feed[i].rec = r /\ feed[k].rec = r /\ i # k
    BY <2>1, <2>2
  <2>4. k \in (i + 1)..to \/ i \in (k + 1)..to
    BY <2>3
  <2> QED BY <2>1, <2>2, <2>3, <2>4
<1>3. ASSUME NEW r \in Records, Now(r) \in from..to
      PROVE  r \in (Moved(from, to, "write") \cap Live) \cup Moved(from, to, "delete")
  <2>0. /\ Now(r) \in 0..Latest /\ Its(r, Now(r))
        /\ \A i \in 1..Latest : feed[i].rec = r => i <= Now(r)
    BY NowIs
  <2>1. Now(r) \in 1..Latest /\ feed[Now(r)].rec = r
    <3>1. Now(r) # 0
      BY <1>3
    <3> QED BY <2>0, <3>1 DEF Its
  <2>2. \A j \in (Now(r) + 1)..to : feed[j].rec # r
    <3> SUFFICES ASSUME NEW j \in (Now(r) + 1)..to, feed[j].rec = r PROVE FALSE
      OBVIOUS
    <3>1. j \in 1..Latest /\ j > Now(r) /\ Now(r) \in Nat
      BY <1>0, <2>1
    <3>2. j <= Now(r)
      BY <2>0, <3>1
    <3> QED BY <3>1, <3>2
  <2>3. CASE feed[Now(r)].op = "write"
    <3>1. feed[Now(r)] = [rec |-> r, op |-> "write"]
      BY <1>0, <2>1, <2>3
    <3>2. r \in Moved(from, to, "write")
      BY <1>3, <2>2, <3>1 DEF Moved
    <3>3. Seen(Now(r)) # 0
      BY <2>1, <2>3 DEF Seen
    <3> QED BY <3>2, <3>3 DEF Live
  <2>4. CASE feed[Now(r)].op = "delete"
    <3>1. feed[Now(r)] = [rec |-> r, op |-> "delete"]
      BY <1>0, <2>1, <2>4
    <3> QED BY <1>3, <2>2, <3>1 DEF Moved
  <2> QED BY <1>0, <2>1, <2>3, <2>4
<1> QED BY <1>1, <1>2, <1>3

\* Two lists of entries of different records are one list of entries.
LEMMA TogetherAre ==
  ASSUME NEW V, NEW S \in SUBSET Records, NEW T \in SUBSET Records, S \cap T = {},
         NEW a \in Entries(S), NEW b \in Entries(T), \A r \in S \cup T : Now(r) \in V
  PROVE  a \o b \in Seq([rec : Records, val : V]) /\ Listed(S \cup T, a \o b)
<1> DEFINE E == [rec : Records, val : V]
           e == a \o b
<1>1. /\ a \in Seq(E)
      /\ \A i \in DOMAIN a : a[i].rec \in S /\ a[i].val = Now(a[i].rec)
      /\ \A r \in S : \E i \in DOMAIN a : a[i] = [rec |-> r, val |-> Now(r)]
      /\ \A i, j \in DOMAIN a : a[i].rec = a[j].rec => i = j
  BY EntriesAre DEF Listed, Once
<1>2. /\ b \in Seq(E)
      /\ \A i \in DOMAIN b : b[i].rec \in T /\ b[i].val = Now(b[i].rec)
      /\ \A r \in T : \E i \in DOMAIN b : b[i] = [rec |-> r, val |-> Now(r)]
      /\ \A i, j \in DOMAIN b : b[i].rec = b[j].rec => i = j
  BY EntriesAre DEF Listed, Once
<1> HIDE DEF E
<1>3. /\ Len(a) \in Nat /\ DOMAIN a = 1..Len(a) /\ Len(b) \in Nat /\ DOMAIN b = 1..Len(b)
  BY <1>1, <1>2, LenProperties
<1>4. /\ e \in Seq(E) /\ Len(e) = Len(a) + Len(b)
      /\ \A i \in 1..(Len(a) + Len(b)) : e[i] = IF i <= Len(a) THEN a[i] ELSE b[i - Len(a)]
  BY <1>1, <1>2, ConcatProperties
<1> HIDE DEF e
<1>5. DOMAIN e = 1..(Len(a) + Len(b))
  BY <1>4, LenProperties
<1>6. \A i \in DOMAIN e : \/ i \in DOMAIN a /\ e[i] = a[i]
                          \/ i - Len(a) \in DOMAIN b /\ e[i] = b[i - Len(a)]
  BY <1>3, <1>4, <1>5
<1>7. \A i \in DOMAIN a : i \in DOMAIN e /\ e[i] = a[i]
  BY <1>3, <1>4, <1>5
<1>8. \A i \in DOMAIN b : Len(a) + i \in DOMAIN e /\ e[Len(a) + i] = b[i]
  BY <1>3, <1>4, <1>5
<1>9. ASSUME NEW i \in DOMAIN e, NEW j \in DOMAIN e, e[i].rec = e[j].rec PROVE i = j
  <2>1. i \in Int /\ j \in Int /\ Len(a) \in Int
    BY <1>3, <1>5
  <2>2. CASE i - Len(a) \in DOMAIN b /\ e[i] = b[i - Len(a)]
             /\ j - Len(a) \in DOMAIN b /\ e[j] = b[j - Len(a)]
    <3>1. i - Len(a) = j - Len(a)
      BY <1>2, <1>9, <2>2
    <3> QED BY <2>1, <3>1
  <2> QED BY <1>1, <1>2, <1>6, <1>9, <2>2
<1>10. \A i \in DOMAIN e : e[i].rec \in S \cup T /\ e[i].val = Now(e[i].rec)
  BY <1>1, <1>2, <1>6
<1>11. \A r \in S \cup T : \E i \in DOMAIN e : e[i] = [rec |-> r, val |-> Now(r)]
  BY <1>1, <1>2, <1>7, <1>8
<1> QED BY <1>4, <1>9, <1>10, <1>11 DEF e, E, Listed, Once

-----------------------------------------------------------------------------
(* A step of one carrier that leaves the queue and the server alone keeps   *)
(* what every other carrier relies on.                                      *)

LEMMA FaultsAdd ==
  ASSUME faults \in 0..MaxFaults, faults' = faults \/ Faulty
  PROVE  faults' \in 0..MaxFaults /\ (faults' = 0 => faults = 0) /\ (Faulty => faults' # 0)
<1>1. MaxFaults \in Nat
  BY SizesAssumption
<1>2. faults \in Nat /\ faults <= MaxFaults
  BY <1>1
<1> QED BY <1>1, <1>2 DEF Faulty

\* What a carrier may hold when it stands at x ...
Fit(x, y) ==
  /\ Reached(y) /\ Made(y.batch)
  /\ x \in {"sent", "answer"} => y.parts > 0
  /\ x \in {"pages", "read back"} => ~FirstRun(y.mem)
  /\ x = "read back" => y.page > 0
  /\ x = "sent" => Newer(y.batch)
  /\ setup = "done" /\ x \in {"sent", "answer"} => InHand(x, y.batch)
  /\ setup = "done" /\ x \notin {"none", "off"} => \A r \in Records : Goes(r, y.mem)

\* ... and how it gets there while all else is left as it is.
Alone(c, x, y) ==
  /\ pc' = [pc EXCEPT ![c] = x] /\ job' = [job EXCEPT ![c] = y]
  /\ UNCHANGED <<feed, trimmed, queue, switch, server, phone, setup, clock, skipped, turned, setups>>
  /\ left' = left \/ (Taken(c) /\ pc[c] \notin {"pages", "read back"} /\ left' = job[c].mem)
  /\ turn' \in Carriers \cup {NoOne}
  /\ \A q \in Carriers \ {c} : Taken(q) => turn' = q
  /\ x \notin {"none", "off"} => turn' = c
  /\ faults' = faults \/ Faulty
  /\ faults' = 0 /\ x \notin {"none", "off"} => Straight(x, y)

LEMMA OnlyCarrier ==
  ASSUME IInv, NEW c \in Carriers, NEW x \in Steps, NEW y \in Jobs, Fit(x, y), Alone(c, x, y)
  PROVE  IInv'
<1> USE DEF server, Alone, Fit
<1>0. /\ TypeOK /\ Turns /\ AtWork /\ Bounded /\ OfRecords /\ Onward
      /\ Ordered /\ PassedIsHeld /\ Levelled /\ Sent /\ Carried
  BY DEF IInv
<1>1. /\ pc \in [Carriers -> Steps] /\ job \in [Carriers -> Jobs]
      /\ faults' \in 0..MaxFaults /\ (faults' = 0 => faults = 0)
  <2>1. pc \in [Carriers -> Steps] /\ job \in [Carriers -> Jobs] /\ faults \in 0..MaxFaults
    BY <1>0 DEF TypeOK, Steps, Jobs, Waiting, Numbers
  <2> QED BY <2>1, FaultsAdd
<1>2. /\ pc'[c] = x /\ job'[c] = y
      /\ \A q \in Carriers : q # c => pc'[q] = pc[q] /\ job'[q] = job[q]
  BY <1>1
<1>3. /\ Latest' = Latest
      /\ \A r : Now(r)' = Now(r)
  <2>1. Latest' = Latest
    BY DEF Latest
  <2>2. \A r : Now(r) = LastIn(feed, r)
    BY DEF Now, LastIn, Latest
  <2>3. \A r : Now(r)' = LastIn(feed', r)
    BY DEF Now, LastIn, Latest
  <2> QED BY <2>1, <2>2, <2>3
<1>4. TypeOK'
  <2>1. pc' \in [Carriers -> Steps] /\ job' \in [Carriers -> Jobs]
    BY <1>1
  <2>2. left' \in Numbers
    <3>1. left \in Numbers /\ job[c].mem \in Numbers
      BY <1>0 DEF TypeOK, Numbers
    <3> QED BY <3>1
  <2> QED BY <1>0, <1>1, <1>3, <2>1, <2>2 DEF TypeOK, Steps, Jobs, Waiting, Numbers
<1>5. Turns'
  BY <1>0, <1>2 DEF Turns, Taken
<1>6. AtWork'
  <2> SUFFICES ASSUME NEW q \in Carriers
               PROVE  /\ pc'[q] \in {"sent", "answer"} => job'[q].parts > 0
                      /\ pc'[q] \in {"pages", "read back"} => ~FirstRun(job'[q].mem)
                      /\ pc'[q] = "read back" => job'[q].page > 0
    BY DEF AtWork, FirstRun
  <2> QED BY <1>0, <1>2 DEF AtWork
<1>7. Bounded'
  BY <1>0, <1>2, <1>3 DEF Bounded, Reached
<1>8. OfRecords'
  <2>1. \A r, n : Its(r, n)' <=> Its(r, n)
    BY <1>3 DEF Its
  <2> QED BY <1>0, <1>2, <2>1 DEF OfRecords, Made
<1>9. Onward'
  <2>1. \A q \in Carriers : pc'[q] = "sent" => Newer(job'[q].batch)
    BY <1>0, <1>2 DEF Onward
  <2> QED BY <1>0, <2>1 DEF Onward, Newer
<1>10. Ordered' /\ PassedIsHeld'
  BY <1>0 DEF Ordered, PassedIsHeld
<1>11. Levelled'
  <2> SUFFICES ASSUME faults' = 0
               PROVE  /\ left'.version <= left'.cursor
                      /\ \A q \in Carriers : pc'[q] \notin {"none", "off"} => Straight(pc'[q], job'[q])
    BY DEF Levelled, Taken, Straight
  <2>1. /\ faults = 0 /\ left.version <= left.cursor
        /\ \A q \in Carriers : Taken(q) => Straight(pc[q], job[q])
    BY <1>0, <1>1 DEF Levelled
  <2>2. left'.version <= left'.cursor
    BY <2>1 DEF Straight
  <2> QED BY <1>2, <2>1, <2>2 DEF Taken
<1>12. Sent'
  <2>1. setup = "done" => \A q \in Carriers : pc'[q] \in {"sent", "answer"} =>
          InHand(pc'[q], job'[q].batch)
    BY <1>0, <1>2 DEF Sent
  <2>2. \A q : InHand(pc'[q], job'[q].batch) <=> InHand(pc[q], job[q].batch)'
    BY DEF InHand
  <2> QED BY <2>1, <2>2 DEF Sent
<1>13. Carried'
  <2>1. \A r : InStep(r)' <=> InStep(r)
    BY <1>3 DEF InStep, Seen
  <2>2. setup = "done" => \A r \in Records : Goes(r, left') /\
          \A q \in Carriers : pc'[q] \notin {"none", "off"} => Goes(r, job'[q].mem)
    BY <1>0, <1>2 DEF Carried, Taken
  <2>3. \A r : /\ (Now(r)' > left'.cursor \/ FirstRun(left') \/ r \in skipped' \/ InStep(r)')
                    <=> Goes(r, left')
               /\ \A q : (Now(r)' > job'[q].mem.cursor \/ FirstRun(job'[q].mem) \/ r \in skipped'
                           \/ InStep(r)')
                         <=> Goes(r, job'[q].mem)
    BY <1>3, <2>1 DEF Goes
  <2> QED BY <2>2, <2>3 DEF Carried, Goes, Taken, FirstRun
<1> QED BY <1>4, <1>5, <1>6, <1>7, <1>8, <1>9, <1>10, <1>11, <1>12, <1>13 DEF IInv

\* The queue, once the records of a set T are queued as the store has them.
Again(T, e) ==
  /\ Made(e)
  /\ \A i \in DOMAIN e : e[i].val >= rows[e[i].rec].val
  /\ \A r \in Records : r \in T \/ InStep(r) =>
       /\ \A i \in DOMAIN e : e[i].rec = r => e[i].val = Now(r)
       /\ (\A i \in DOMAIN e : e[i].rec # r) => Seen(rows[r].val) = Seen(Now(r))

LEMMA QueueAgainIs ==
  ASSUME feed \in Seq([rec : Records, op : {"write", "delete"}]), queue \in Seq(Waiting), Once(queue),
         rows \in [Records -> [seq : Nat, val : 0..Latest]],
         OfRecords,
         \A i \in DOMAIN queue : queue[i].val >= rows[queue[i].rec].val,
         NEW T \in SUBSET Records, NEW new \in Seq(Waiting), Once(new),
         \A i \in DOMAIN new : new[i].rec \in T /\ new[i].val = Now(new[i].rec),
         \A r \in T : \E i \in DOMAIN new : new[i] = [rec |-> r, val |-> Now(r)],
         NEW e, e = Enqueue(queue, new)
  PROVE  e \in Seq(Waiting) /\ Once(e) /\ Again(T, e)
<1>1. /\ e \in Seq(Waiting) /\ Once(e)
      /\ \A i \in DOMAIN e :
           \/ \E k \in DOMAIN queue : e[i] = queue[k] /\ \A m \in DOMAIN new : new[m].rec # queue[k].rec
           \/ \E m \in DOMAIN new : e[i] = new[m]
      /\ \A k \in DOMAIN queue : (\A m \in DOMAIN new : new[m].rec # queue[k].rec) =>
           \E i \in DOMAIN e : e[i] = queue[k]
      /\ \A m \in DOMAIN new : \E i \in DOMAIN e : e[i] = new[m]
  <2>1. e \in Seq(Waiting) /\ Once(e) /\ PutBehind(queue, new, e)
    BY EnqueueIs
  <2> QED BY <2>1 DEF PutBehind
<1>2. \A i \in DOMAIN e : e[i].rec \in Records
  <2>1. DOMAIN e = 1..Len(e) /\ e \in [1..Len(e) -> Waiting]
    BY <1>1, LenProperties
  <2> QED BY <2>1 DEF Waiting
<1>3. \A r \in T : \E i \in DOMAIN e : e[i].rec = r
  <2> SUFFICES ASSUME NEW r \in T PROVE \E i \in DOMAIN e : e[i].rec = r
    OBVIOUS
  <2>1. PICK m \in DOMAIN new : new[m] = [rec |-> r, val |-> Now(r)]
    OBVIOUS
  <2>2. PICK i \in DOMAIN e : e[i] = new[m]
    BY <1>1
  <2>3. e[i].rec = r
    BY <2>1, <2>2
  <2> QED BY <2>3
<1>4. ASSUME NEW k \in DOMAIN queue, queue[k].rec \notin T PROVE \E i \in DOMAIN e : e[i] = queue[k]
  <2>1. \A m \in DOMAIN new : new[m].rec # queue[k].rec
    BY <1>4
  <2> QED BY <1>1, <2>1
<1>5. ASSUME NEW i \in DOMAIN e
      PROVE  \/ e[i].rec \notin T /\ \E k \in DOMAIN queue : e[i] = queue[k]
             \/ e[i].rec \in T /\ e[i].val = Now(e[i].rec)
  <2>1. CASE \E k \in DOMAIN queue : e[i] = queue[k] /\ \A m \in DOMAIN new : new[m].rec # queue[k].rec
    <3>1. PICK k \in DOMAIN queue : e[i] = queue[k] /\ \A m \in DOMAIN new : new[m].rec # queue[k].rec
      BY <2>1
    <3>2. ASSUME e[i].rec \in T PROVE FALSE
      <4>1. PICK m \in DOMAIN new : new[m] = [rec |-> e[i].rec, val |-> Now(e[i].rec)]
        BY <3>2
      <4>2. new[m].rec = e[i].rec
        BY <4>1
      <4> QED BY <3>1, <4>2
    <3> QED BY <3>1, <3>2
  <2>2. CASE \E m \in DOMAIN new : e[i] = new[m]
    BY <2>2
  <2> QED BY <1>1, <2>1, <2>2
<1>6. ASSUME NEW i \in DOMAIN e
      PROVE  Its(e[i].rec, e[i].val) /\ e[i].val >= rows[e[i].rec].val
  <2>1. CASE \E k \in DOMAIN queue : e[i] = queue[k]
    BY <2>1 DEF OfRecords, Made
  <2>2. CASE e[i].val = Now(e[i].rec)
    <3> DEFINE r == e[i].rec
    <3>1. r \in Records /\ Its(r, rows[r].val) /\ rows[r].val \in 0..Latest
      BY <1>2 DEF OfRecords
    <3> HIDE DEF r
    <3>2. Its(r, Now(r)) /\ Now(r) \in 0..Latest /\ rows[r].val <= Now(r)
      BY <3>1, NowIs, NoneIsNewer
    <3>3. Latest \in Nat
      BY LenProperties DEF Latest
    <3>4. Now(r) >= rows[r].val
      BY <3>1, <3>2, <3>3
    <3> QED BY <2>2, <3>2, <3>4 DEF r
  <2> QED BY <1>5, <2>1, <2>2
<1>7. ASSUME NEW r \in Records, r \in T \/ InStep(r)
      PROVE  /\ \A i \in DOMAIN e : e[i].rec = r => e[i].val = Now(r)
             /\ (\A i \in DOMAIN e : e[i].rec # r) => Seen(rows[r].val) = Seen(Now(r))
  <2>1. ASSUME NEW i \in DOMAIN e, e[i].rec = r PROVE e[i].val = Now(r)
    <3>1. CASE r \in T
      BY <1>5, <2>1, <3>1
    <3>2. CASE r \notin T
      <4>1. PICK k \in DOMAIN queue : e[i] = queue[k]
        BY <1>5, <2>1, <3>2
      <4> QED BY <1>7, <2>1, <3>2, <4>1 DEF InStep
    <3> QED BY <3>1, <3>2
  <2>2. ASSUME \A i \in DOMAIN e : e[i].rec # r PROVE Seen(rows[r].val) = Seen(Now(r))
    <3>1. r \notin T
      BY <1>3, <2>2
    <3>2. ASSUME NEW k \in DOMAIN queue, queue[k].rec = r PROVE FALSE
      <4>1. PICK i \in DOMAIN e : e[i] = queue[k]
        BY <1>4, <3>1, <3>2
      <4> QED BY <2>2, <3>2, <4>1
    <3> QED BY <1>7, <3>1, <3>2 DEF InStep
  <2> QED BY <2>1, <2>2
<1> QED BY <1>1, <1>6, <1>7 DEF Made, Again

\* The two steps that copy out: the records of a set T are queued as the store has them.
LEMMA QueuedAgain ==
  ASSUME IInv, NEW c \in Carriers, pc[c] \in {"copy", "pages", "read back"},
         NEW x \in {"pages", "remember"}, NEW y \in Jobs,
         NEW T \in SUBSET Records, NEW new \in Seq(Waiting), Once(new),
         \A i \in DOMAIN new : new[i].rec \in T /\ new[i].val = Now(new[i].rec),
         \A r \in T : \E i \in DOMAIN new : new[i] = [rec |-> r, val |-> Now(r)],
         pc' = [pc EXCEPT ![c] = x], job' = [job EXCEPT ![c] = y],
         queue' = Enqueue(queue, new),
         UNCHANGED <<feed, trimmed, left, switch, turn, server, phone, setup, clock, counts>>,
         skipped \subseteq skipped', skipped' \subseteq Records,
         y.batch = job[c].batch, Reached(y),
         x = "pages" => ~FirstRun(y.mem),
         x = "remember" /\ faults = 0 => y.mem.version <= y.mem.cursor,
         setup = "done" => \A r \in Records :
           r \in T \/ Now(r) > y.mem.cursor \/ r \in skipped' \/ InStep(r)
  PROVE  IInv'
<1> USE DEF server, counts
<1>0. /\ TypeOK /\ Turns /\ AtWork /\ Bounded /\ OfRecords /\ Onward
      /\ Ordered /\ PassedIsHeld /\ Levelled /\ Sent /\ Carried
  BY DEF IInv
<1>1. /\ pc \in [Carriers -> Steps] /\ job \in [Carriers -> Jobs]
      /\ feed \in Seq([rec : Records, op : {"write", "delete"}])
      /\ queue \in Seq(Waiting)
      /\ Once(queue)
      /\ rows \in [Records -> [seq : Nat, val : 0..Latest]]
  BY <1>0 DEF TypeOK, Steps, Jobs, Waiting, Numbers, Once
<1>2. /\ pc'[c] = x /\ job'[c] = y
      /\ \A q \in Carriers : q # c => pc'[q] = pc[q] /\ job'[q] = job[q]
  BY <1>1
<1>3. Latest' = Latest /\ Latest \in Nat /\ \A r : Now(r)' = Now(r)
  <2>1. Latest' = Latest /\ Latest \in Nat
    BY <1>1, LenProperties DEF Latest
  <2>2. \A r : Now(r) = LastIn(feed, r)
    BY DEF Now, LastIn, Latest
  <2>3. \A r : Now(r)' = LastIn(feed', r)
    BY DEF Now, LastIn, Latest
  <2> QED BY <2>1, <2>2, <2>3
<1>4. \A q \in Carriers : q # c => ~Taken(q)
  BY <1>0 DEF Turns, Taken
<1>5. PICK e : e = queue'
  OBVIOUS
<1>6. e \in Seq(Waiting) /\ Once(e) /\ Again(T, e)
  <2>1. /\ e = Enqueue(queue, new) /\ OfRecords
        /\ \A i \in DOMAIN queue : queue[i].val >= rows[queue[i].rec].val
    BY <1>0, <1>5 DEF Onward
  <2> QED BY <1>1, <2>1, QueueAgainIs
<1>8. TypeOK'
  <2>1. pc' \in [Carriers -> Steps] /\ job' \in [Carriers -> Jobs]
    BY <1>1 DEF Steps
  <2> QED BY <1>0, <1>3, <1>5, <1>6, <2>1 DEF TypeOK, Once, Steps, Jobs, Waiting, Numbers
<1>9. Turns'
  BY <1>0, <1>2 DEF Turns, Taken
<1>10. AtWork'
  <2> SUFFICES ASSUME NEW q \in Carriers
               PROVE  /\ pc'[q] \in {"sent", "answer"} => job'[q].parts > 0
                      /\ pc'[q] \in {"pages", "read back"} => ~FirstRun(job'[q].mem)
                      /\ pc'[q] = "read back" => job'[q].page > 0
    BY DEF AtWork, FirstRun
  <2> QED BY <1>0, <1>2 DEF AtWork
<1>11. Bounded'
  BY <1>0, <1>2, <1>3 DEF Bounded, Reached
<1>12. OfRecords'
  <2>1. \A r, n : Its(r, n)' <=> Its(r, n)
    BY <1>3 DEF Its
  <2>2. \A i \in DOMAIN queue' : Its(queue'[i].rec, queue'[i].val)
    BY <1>5, <1>6 DEF Made, Again
  <2>3. \A q \in Carriers : job'[q].batch = job[q].batch
    BY <1>2
  <2> QED BY <1>0, <2>1, <2>2, <2>3 DEF OfRecords, Made
<1>13. Onward'
  <2>1. \A i \in DOMAIN queue' : queue'[i].val >= rows[queue'[i].rec].val
    BY <1>5, <1>6 DEF Again
  <2>2. \A q \in Carriers : pc'[q] # "sent"
    BY <1>2, <1>4 DEF Taken
  <2> QED BY <2>1, <2>2 DEF Onward
<1>14. Ordered' /\ PassedIsHeld'
  BY <1>0 DEF Ordered, PassedIsHeld
<1>15. Levelled'
  <2> SUFFICES ASSUME faults = 0
               PROVE  /\ left.version <= left.cursor
                      /\ \A q \in Carriers : pc'[q] \notin {"none", "off"} => Straight(pc'[q], job'[q])
    BY DEF Levelled, Taken, Straight
  <2>1. left.version <= left.cursor
    BY <1>0 DEF Levelled
  <2>2. Straight(x, y)
    BY DEF Straight
  <2> QED BY <1>2, <1>4, <2>1, <2>2 DEF Taken
<1>16. Sent'
  <2>1. \A q \in Carriers : pc'[q] \notin {"sent", "answer"}
    BY <1>2, <1>4 DEF Taken
  <2> QED BY <2>1 DEF Sent
<1>17. ASSUME NEW r \in Records, r \in T \/ InStep(r) PROVE InStep(r)'
  <2>1. /\ \A i \in DOMAIN queue' : queue'[i].rec = r => queue'[i].val = Now(r)
        /\ (\A i \in DOMAIN queue' : queue'[i].rec # r) => Seen(rows[r].val) = Seen(Now(r))
    BY <1>5, <1>6, <1>17 DEF Again
  <2> QED BY <1>3, <2>1 DEF InStep, Seen
<1>18. Carried'
  <2> SUFFICES ASSUME setup = "done", NEW r \in Records
               PROVE  Goes(r, left)' /\ \A q \in Carriers : Taken(q)' => Goes(r, job[q].mem)'
    BY DEF Carried
  <2>1. Goes(r, left) /\ (r \in T \/ Now(r) > y.mem.cursor \/ r \in skipped' \/ InStep(r))
    BY <1>0 DEF Carried
  <2>2. Goes(r, left)'
    BY <1>3, <1>17, <2>1 DEF Goes, FirstRun
  <2>3. ASSUME NEW q \in Carriers, Taken(q)' PROVE Goes(r, job[q].mem)'
    <3>1. q = c
      BY <1>2, <1>4, <2>3 DEF Taken
    <3>2. Now(r)' > job'[q].mem.cursor \/ r \in skipped' \/ InStep(r)'
      BY <1>2, <1>3, <1>17, <2>1, <3>1
    <3> QED BY <3>2 DEF Goes
  <2> QED BY <2>2, <2>3
<1> QED BY <1>8, <1>9, <1>10, <1>11, <1>12, <1>13, <1>14, <1>15, <1>16, <1>18 DEF IInv

\* A carrier that goes on with what it remembered.
LEMMA GoesOn ==
  ASSUME IInv, NEW c \in Carriers, Taken(c), NEW x \in {"remember", "drain", "finish"}, NEW y,
         y.mem.cursor = job[c].mem.cursor, y.mem.version = job[c].mem.version,
         y.version = job[c].version, y.page = job[c].page, y.batch = job[c].batch
  PROVE  /\ Fit(x, y)
         /\ faults = 0 /\ pc[c] \notin {"pages", "read back"} => Straight(x, y)
<1>1. Reached(y) /\ Made(y.batch)
  BY DEF IInv, Bounded, OfRecords, Reached
<1>2. setup = "done" => \A r \in Records : Goes(r, y.mem)
  BY DEF IInv, Carried, Goes, FirstRun
<1>3. faults = 0 /\ pc[c] \notin {"pages", "read back"} => Straight(x, y)
  BY DEF IInv, Levelled, Straight
<1> QED BY <1>1, <1>2, <1>3 DEF Fit

\* A carrier that is gone, or not yet begun, holds nothing.
LEMMA HoldsNothing ==
  ASSUME IInv, NEW c \in Carriers
  PROVE  Idle \in Jobs /\ Fit("none", Idle)
<1>1. Latest \in Nat
  BY LenProperties DEF IInv, TypeOK, Latest
<1>2. Idle \in Jobs
  BY EmptySeq DEF Idle, Jobs, Numbers, Nothing
<1>3. Reached(Idle)
  BY <1>1 DEF Idle, Nothing, Reached
<1>4. Idle.batch = <<>> /\ DOMAIN Idle.batch = {}
  BY DEF Idle
<1>5. Made(Idle.batch)
  BY <1>4 DEF Made
<1> QED BY <1>2, <1>3, <1>5 DEF Fit

\* The kinds, for the carriers.
LEMMA KindsAre ==
  ASSUME IInv
  PROVE  /\ pc \in [Carriers -> Steps] /\ job \in [Carriers -> Jobs]
         /\ left \in Numbers /\ turn \in Carriers \cup {NoOne}
         /\ feed \in Seq([rec : Records, op : {"write", "delete"}])
         /\ queue \in Seq(Waiting) /\ Once(queue) /\ clock \in Nat
         /\ Latest \in Nat
BY LenProperties DEF IInv, TypeOK, Steps, Jobs, Waiting, Numbers, Once, Latest

\* The one that has the turn is the only one past its first question.
LEMMA OnlyOne ==
  ASSUME IInv, NEW c \in Carriers, Taken(c)
  PROVE  turn = c /\ \A q \in Carriers \ {c} : ~Taken(q)
BY DEF IInv, Turns

LEMMA BeginKeeps == ASSUME IInv, NEW c \in Carriers, BeginTurn(c) PROVE IInv'
<1>1. PICK y : y = [Idle EXCEPT !.version = Latest, !.sending = Number(Latest, left),
                                !.mem = left, !.now = clock]
  OBVIOUS
<1>2. /\ left \in Numbers /\ clock \in Nat /\ Latest \in Nat /\ pc \in [Carriers -> Steps]
      /\ job \in [Carriers -> Jobs] /\ turn \in Carriers \cup {NoOne}
  BY KindsAre
<1>3. Number(Latest, left) \in Nat
  BY <1>2 DEF Number, Numbers
<1>4. y \in Jobs
  BY <1>1, <1>2, <1>3, EmptySeq DEF Idle, Jobs, Nothing
<1>5. /\ y.mem = left /\ y.version = Latest /\ y.page = 0 /\ y.batch = <<>>
  BY <1>1 DEF Idle
<1>6. Reached(y)
  BY <1>2, <1>5 DEF IInv, Bounded, Reached
<1>7. Made(y.batch)
  BY <1>5 DEF Made
<1>8. setup = "done" => \A r \in Records : Goes(r, y.mem)
  BY <1>5 DEF IInv, Carried
<1>9. Fit("copy", y)
  BY <1>6, <1>7, <1>8 DEF Fit
<1>10. \A q \in Carriers : ~Taken(q)
  BY CarriersAssumption DEF IInv, Turns, BeginTurn
<1>11. faults = 0 => Straight("copy", y)
  BY <1>5 DEF IInv, Levelled, Straight
<1>12. Alone(c, "copy", y)
  BY <1>1, <1>10, <1>11 DEF BeginTurn, Alone, store, counts
<1> QED BY <1>4, <1>9, <1>12, OnlyCarrier DEF Steps

LEMMA StandDownKeeps == ASSUME IInv, NEW c \in Carriers, StandDown(c) PROVE IInv'
<1>1. PICK y : y = job[c]
  OBVIOUS
<1>2. y \in Jobs /\ job \in [Carriers -> Jobs] /\ turn \in Carriers \cup {NoOne}
  BY <1>1, KindsAre
<1>3. Fit("none", y)
  BY <1>1 DEF IInv, Bounded, OfRecords, Fit
<1>4. Alone(c, "none", y)
  BY <1>1, <1>2 DEF StandDown, Alone, store, counts, IInv, Turns
<1> QED BY <1>2, <1>3, <1>4, OnlyCarrier DEF Steps

LEMMA LevelKeeps == ASSUME IInv, NEW c \in Carriers, Level(c) PROVE IInv'
<1>1. PICK y : y = job[c]
  OBVIOUS
<1>2. y \in Jobs /\ job \in [Carriers -> Jobs] /\ turn \in Carriers \cup {NoOne}
  BY <1>1, KindsAre
<1>3. Taken(c) /\ pc[c] = "copy"
  BY DEF Level, Taken
<1>4. Fit("remember", y) /\ (faults = 0 => Straight("remember", y))
  BY <1>1, <1>3, GoesOn
<1>5. Alone(c, "remember", y)
  BY <1>1, <1>2, <1>3, <1>4, OnlyOne DEF Level, Alone, store, counts
<1> QED BY <1>2, <1>4, <1>5, OnlyCarrier DEF Steps

LEMMA ReadPageKeeps == ASSUME IInv, NEW c \in Carriers, ReadPage(c) PROVE IInv'
<1>1. PICK y : y = [job[c] EXCEPT !.page = PageEnd(job[c].mem.cursor),
                                  !.more = PageEnd(job[c].mem.cursor) < Latest]
  OBVIOUS
<1>2. /\ job \in [Carriers -> Jobs] /\ turn \in Carriers \cup {NoOne} /\ Latest \in Nat
      /\ job[c] \in Jobs /\ job[c].mem \in Numbers
  BY KindsAre DEF Jobs
<1>3. Taken(c)
  BY DEF ReadPage, Reading, Taken
<1>4. job[c].mem.cursor <= Latest /\ job[c].mem.version <= Latest /\ job[c].version <= Latest
  BY DEF IInv, Bounded, Reached
<1>5. ~FirstRun(job[c].mem)
  BY DEF ReadPage, Reading, IInv, AtWork
<1>6. /\ PageEnd(job[c].mem.cursor) \in Nat /\ PageEnd(job[c].mem.cursor) <= Latest
      /\ PageEnd(job[c].mem.cursor) > 0
  <2>1. job[c].mem.cursor \in Nat /\ job[c].mem.version \in Nat /\ PER_READ \in Nat /\ PER_READ > 0
    BY <1>2, SizesAssumption DEF Numbers
  <2>2. Latest > 0
    BY <1>2, <1>4, <1>5, <2>1 DEF FirstRun
  <2> QED BY <1>2, <1>4, <2>1, <2>2 DEF PageEnd, Lower
<1>7. PICK further \in BOOLEAN : further = (PageEnd(job[c].mem.cursor) < Latest)
  <2>1. PICK n : n = PageEnd(job[c].mem.cursor)
    OBVIOUS
  <2>2. PICK l : l = Latest
    OBVIOUS
  <2>3. n \in Int /\ l \in Int
    BY <1>2, <1>6, <2>1, <2>2
  <2>4. (n < l) \in BOOLEAN
    BY <2>3
  <2>5. \E further \in BOOLEAN : further = (n < l)
    <3> DEFINE p == n < l
    <3>1. p \in BOOLEAN
      BY <2>4
    <3> HIDE DEF p
    <3>2. \E further \in BOOLEAN : further = p
      BY <3>1
    <3> QED BY <3>2 DEF p
  <2> QED BY <2>1, <2>2, <2>5
<1>8. /\ y \in Jobs
      /\ y.mem = job[c].mem /\ y.version = job[c].version /\ y.batch = job[c].batch
      /\ y.page = PageEnd(job[c].mem.cursor) /\ y.more = further
  <2>1. y = [job[c] EXCEPT !.page = PageEnd(job[c].mem.cursor), !.more = further]
    BY <1>1, <1>7
  <2> QED BY <1>2, <1>6, <2>1 DEF Jobs
<1>9. Fit("read back", y)
  <2>1. Reached(y)
    BY <1>4, <1>6, <1>8 DEF Reached
  <2>2. Made(y.batch)
    BY <1>8 DEF IInv, OfRecords
  <2>3. setup = "done" => \A r \in Records : Goes(r, y.mem)
    BY <1>3, <1>8 DEF IInv, Carried
  <2> QED BY <1>5, <1>6, <1>8, <2>1, <2>2, <2>3 DEF Fit
<1>10. Straight("read back", y)
  <2>1. job[c].version \in Nat
    BY <1>2 DEF Jobs
  <2>2. ~(PageEnd(job[c].mem.cursor) < Latest) => job[c].version <= PageEnd(job[c].mem.cursor)
    BY <1>2, <1>4, <1>6, <2>1
  <2>3. ~y.more => job[c].version <= PageEnd(job[c].mem.cursor)
    BY <1>7, <1>8, <2>2
  <2> QED BY <1>8, <2>3 DEF Straight
<1>11. Alone(c, "read back", y)
  BY <1>1, <1>2, <1>3, <1>10, OnlyOne DEF ReadPage, Alone, store, counts
<1> QED BY <1>8, <1>9, <1>11, OnlyCarrier DEF Steps

LEMMA CopyFailsKeeps == ASSUME IInv, NEW c \in Carriers, CopyFails(c) PROVE IInv'
<1>1. PICK y : y = [job[c] EXCEPT !.failed = TRUE]
  OBVIOUS
<1>2. job \in [Carriers -> Jobs] /\ job[c] \in Jobs /\ turn \in Carriers \cup {NoOne}
  BY KindsAre
<1>3. Taken(c)
  BY DEF CopyFails, Taken
<1>4. /\ y \in Jobs /\ y.mem = job[c].mem /\ y.version = job[c].version /\ y.page = job[c].page
      /\ y.batch = job[c].batch
  BY <1>1, <1>2 DEF Jobs
<1>5. Fit("remember", y)
  BY <1>3, <1>4, GoesOn
<1>6. faults' # 0
  BY FaultsAdd DEF CopyFails, IInv, TypeOK
<1>7. Alone(c, "remember", y)
  BY <1>1, <1>2, <1>3, <1>6, OnlyOne DEF CopyFails, Alone, store
<1> QED BY <1>4, <1>5, <1>7, OnlyCarrier DEF Steps

LEMMA RefusedKeeps == ASSUME IInv, NEW c \in Carriers, Refused(c) PROVE IInv'
<1>1. PICK wait \in BOOLEAN : job' = [job EXCEPT ![c].failed = TRUE,
                       ![c].mem.until = IF wait THEN job[c].now + 1 ELSE job[c].mem.until]
  BY DEF Refused
<1>2. PICK u : u = IF wait THEN job[c].now + 1 ELSE job[c].mem.until
  OBVIOUS
<1>3. PICK y : y = [job[c] EXCEPT !.failed = TRUE, !.mem.until = u]
  OBVIOUS
<1>4. job \in [Carriers -> Jobs] /\ job[c] \in Jobs /\ turn \in Carriers \cup {NoOne}
  BY KindsAre
<1>5. Taken(c) /\ pc[c] = "sent"
  BY DEF Refused, Taken
<1>6. job[c].mem \in Numbers /\ job[c].now \in Nat /\ u \in Nat
  <2>1. job[c].mem \in Numbers /\ job[c].now \in Nat /\ job[c].mem.until \in Nat
    BY <1>4 DEF Jobs, Numbers
  <2>2. job[c].now + 1 \in Nat
    BY <2>1
  <2> QED BY <1>2, <2>1, <2>2
<1>7. /\ y \in Jobs /\ y.mem.cursor = job[c].mem.cursor /\ y.mem.version = job[c].mem.version
      /\ y.version = job[c].version /\ y.page = job[c].page /\ y.batch = job[c].batch
  BY <1>3, <1>4, <1>6 DEF Jobs, Numbers
<1>8. Fit("finish", y)
  BY <1>5, <1>7, GoesOn
<1>9. faults' # 0
  BY FaultsAdd DEF Refused, IInv, TypeOK
<1>10. job' = [job EXCEPT ![c] = y]
  BY <1>1, <1>2, <1>3, <1>4
<1>11. Alone(c, "finish", y)
  BY <1>4, <1>5, <1>9, <1>10, OnlyOne DEF Refused, Alone, store
<1> QED BY <1>7, <1>8, <1>11, OnlyCarrier DEF Steps

LEMMA AnswerLostKeeps == ASSUME IInv, NEW c \in Carriers, AnswerLost(c) PROVE IInv'
<1>1. PICK y : y = [job[c] EXCEPT !.failed = TRUE]
  OBVIOUS
<1>2. job \in [Carriers -> Jobs] /\ job[c] \in Jobs /\ turn \in Carriers \cup {NoOne}
  BY KindsAre
<1>3. Taken(c)
  BY DEF AnswerLost, Taken
<1>4. /\ y \in Jobs /\ y.mem = job[c].mem /\ y.version = job[c].version /\ y.page = job[c].page
      /\ y.batch = job[c].batch
  BY <1>1, <1>2 DEF Jobs
<1>5. Fit("finish", y)
  BY <1>3, <1>4, GoesOn
<1>6. faults' # 0
  BY FaultsAdd DEF AnswerLost, IInv, TypeOK
<1>7. Alone(c, "finish", y)
  BY <1>1, <1>2, <1>3, <1>6, OnlyOne DEF AnswerLost, Alone, store
<1> QED BY <1>4, <1>5, <1>7, OnlyCarrier DEF Steps

LEMMA DrainedKeeps == ASSUME IInv, NEW c \in Carriers, Drained(c) PROVE IInv'
<1>1. PICK n : n = IF job[c].parts = 0 \/ ~Waits(c) THEN job[c].sending ELSE job[c].mem.placed
  OBVIOUS
<1>2. PICK y : y = [job[c] EXCEPT !.mem.placed = n]
  OBVIOUS
<1>3. job \in [Carriers -> Jobs] /\ job[c] \in Jobs /\ turn \in Carriers \cup {NoOne}
  BY KindsAre
<1>4. Taken(c) /\ pc[c] = "drain"
  BY DEF Drained, Taken
<1>5. job[c].mem \in Numbers /\ n \in Nat
  BY <1>1, <1>3 DEF Jobs, Numbers
<1>6. /\ y \in Jobs /\ y.mem.cursor = job[c].mem.cursor /\ y.mem.version = job[c].mem.version
      /\ y.version = job[c].version /\ y.page = job[c].page /\ y.batch = job[c].batch
  BY <1>2, <1>3, <1>5 DEF Jobs, Numbers
<1>7. Fit("finish", y) /\ (faults = 0 => Straight("finish", y))
  BY <1>4, <1>6, GoesOn
<1>8. job' = [job EXCEPT ![c] = y]
  BY <1>1, <1>2, <1>3 DEF Drained
<1>9. Alone(c, "finish", y)
  BY <1>3, <1>4, <1>7, <1>8, OnlyOne DEF Drained, Alone, store, counts
<1> QED BY <1>6, <1>7, <1>9, OnlyCarrier DEF Steps

LEMMA FinishKeeps == ASSUME IInv, NEW c \in Carriers, Finish(c) PROVE IInv'
<1>1. Idle \in Jobs /\ Fit("none", Idle)
  BY HoldsNothing
<1>2. PICK y : y = Idle
  OBVIOUS
<1>3. Taken(c) /\ pc[c] = "finish"
  BY DEF Finish, Taken
<1>4. Alone(c, "none", y)
  BY <1>2, <1>3, OnlyOne DEF Finish, Release, Alone, counts
<1> QED BY <1>1, <1>2, <1>4, OnlyCarrier DEF Steps

LEMMA DieKeeps == ASSUME IInv, NEW c \in Carriers, Die(c) PROVE IInv'
<1>1. Idle \in Jobs /\ Fit("none", Idle) /\ turn \in Carriers \cup {NoOne}
  BY HoldsNothing, KindsAre
<1>2. PICK y : y = Idle
  OBVIOUS
<1>3. \A q \in Carriers \ {c} : Taken(q) => turn' = q
  BY DEF Die, Release, IInv, Turns
<1>4. Alone(c, "none", y)
  BY <1>1, <1>2, <1>3 DEF Die, Release, Alone, store
<1> QED BY <1>1, <1>2, <1>4, OnlyCarrier DEF Steps

LEMMA RememberKeeps == ASSUME IInv, NEW c \in Carriers, Remember(c) PROVE IInv'
<1>1. Taken(c) /\ pc[c] = "remember"
  BY DEF Remember, Taken
<1>2. /\ job \in [Carriers -> Jobs] /\ job[c] \in Jobs /\ turn \in Carriers \cup {NoOne}
      /\ queue \in Seq(Waiting)
  BY KindsAre
<1>3. CASE job[c].failed
  <2>1. Idle \in Jobs /\ Fit("none", Idle)
    BY HoldsNothing
  <2>2. PICK y : y = Idle
    OBVIOUS
  <2>3. Alone(c, "none", y)
    BY <1>1, <1>3, <2>2, OnlyOne DEF Remember, Release, Alone, counts
  <2> QED BY <2>1, <2>2, <2>3, OnlyCarrier DEF Steps
<1>4. CASE ~job[c].failed
  <2>1. PICK n : n = (Len(queue) + PER_WRITE - 1) \div PER_WRITE
    OBVIOUS
  <2>2. PICK y : y = [job[c] EXCEPT !.parts = n]
    OBVIOUS
  <2>3. PICK x \in {"drain", "finish"} :
          x = IF queue = <<>> \/ Waits(c) THEN "finish" ELSE "drain"
    OBVIOUS
  <2>4. n \in Nat
    <3>1. Len(queue) \in Nat /\ PER_WRITE \in Nat /\ PER_WRITE > 0
      BY <1>2, LenProperties, SizesAssumption
    <3>2. Len(queue) + PER_WRITE - 1 \in Nat
      BY <3>1
    <3> QED BY <2>1, <3>1, <3>2
  <2>5. /\ y \in Jobs /\ y.mem = job[c].mem /\ y.version = job[c].version /\ y.page = job[c].page
        /\ y.batch = job[c].batch
    BY <1>2, <2>2, <2>4 DEF Jobs
  <2>6. Fit(x, y) /\ (faults = 0 => Straight(x, y))
    BY <1>1, <2>5, GoesOn
  <2>7. pc' = [pc EXCEPT ![c] = x] /\ job' = [job EXCEPT ![c] = y]
    BY <1>4, <2>1, <2>2, <2>3 DEF Remember
  <2>8. Alone(c, x, y)
    BY <1>1, <1>2, <1>4, <2>6, <2>7, OnlyOne DEF Remember, Alone, counts
  <2> QED BY <2>5, <2>6, <2>8, OnlyCarrier DEF Steps
<1> QED BY <1>3, <1>4

\* The front of a queue is a list of its first entries.
LEMMA ForemostIs ==
  ASSUME NEW S, NEW q \in Seq(S)
  PROVE  /\ Foremost(q) \in Seq(S) /\ Len(Foremost(q)) \in Nat /\ Len(Foremost(q)) <= Len(q)
         /\ \A i \in DOMAIN Foremost(q) : i \in DOMAIN q /\ Foremost(q)[i] = q[i]
<1>1. /\ Len(q) \in Nat /\ DOMAIN q = 1..Len(q) /\ \A i \in 1..Len(q) : q[i] \in S
  BY LenProperties
<1> DEFINE n == Lower(PER_WRITE, Len(q))
<1>2. n \in Nat /\ n <= Len(q)
  BY <1>1, SizesAssumption DEF Lower
<1>3. Foremost(q) = SubSeq(q, 1, n)
  BY DEF Foremost
<1> HIDE DEF n
<1>4. \A i \in 1..n : q[i] \in S /\ i \in 1..Len(q)
  BY <1>1, <1>2
<1>5. /\ SubSeq(q, 1, n) \in Seq(S)
      /\ Len(SubSeq(q, 1, n)) = IF 1 <= n THEN n - 1 + 1 ELSE 0
      /\ \A i \in 1..(n - 1 + 1) : SubSeq(q, 1, n)[i] = q[1 + i - 1]
  BY <1>2, <1>4, SubSeqProperties
<1>6. Len(SubSeq(q, 1, n)) = n
  BY <1>2, <1>5
<1>7. DOMAIN SubSeq(q, 1, n) = 1..n
  BY <1>5, <1>6, LenProperties
<1>8. \A i \in 1..n : SubSeq(q, 1, n)[i] = q[i]
  BY <1>2, <1>5
<1> QED BY <1>1, <1>2, <1>3, <1>4, <1>5, <1>6, <1>7, <1>8

LEMMA SendKeeps == ASSUME IInv, NEW c \in Carriers, Send(c) PROVE IInv'
<1>1. Taken(c) /\ pc[c] = "drain" /\ job[c].parts > 0
  BY DEF Send, Sending, Taken
<1>2. /\ job \in [Carriers -> Jobs] /\ job[c] \in Jobs /\ turn \in Carriers \cup {NoOne}
      /\ queue \in Seq(Waiting) /\ Once(queue)
  BY KindsAre
<1>3. PICK b : b = Foremost(queue)
  OBVIOUS
<1>4. /\ b \in Seq(Waiting) /\ Len(b) <= Len(queue)
      /\ \A i \in DOMAIN b : i \in DOMAIN queue /\ b[i] = queue[i]
  BY <1>2, <1>3, ForemostIs
<1>5. PICK y : y = [job[c] EXCEPT !.batch = b]
  OBVIOUS
<1>6. /\ y \in Jobs /\ y.mem = job[c].mem /\ y.version = job[c].version /\ y.page = job[c].page
      /\ y.batch = b /\ y.parts = job[c].parts
  BY <1>2, <1>4, <1>5 DEF Jobs
<1>7. Fit("sent", y)
  <2>1. Reached(y)
    BY <1>6 DEF IInv, Bounded, Reached
  <2>2. Made(b)
    BY <1>4 DEF IInv, OfRecords, Made
  <2>3. Newer(b)
    <3> SUFFICES ASSUME NEW i \in DOMAIN b
                 PROVE  /\ b[i].val >= rows[b[i].rec].val
                        /\ \A j \in DOMAIN queue : queue[j].rec = b[i].rec => queue[j].val >= b[i].val
      BY DEF Newer
    <3>1. i \in DOMAIN queue /\ b[i] = queue[i]
      BY <1>4
    <3>2. queue[i].val >= rows[queue[i].rec].val
      BY <3>1 DEF IInv, Onward
    <3>3. queue[i].val \in Int
      <4>1. queue[i] \in Waiting /\ Latest \in Nat
        BY <1>2, <3>1, LenProperties, KindsAre
      <4> QED BY <4>1 DEF Waiting
    <3>4. \A j \in DOMAIN queue : queue[j].rec = queue[i].rec => queue[j].val >= queue[i].val
      BY <1>2, <3>1, <3>3 DEF Once
    <3> QED BY <3>1, <3>2, <3>4
  <2>4. InHand("sent", b)
    BY <1>4 DEF InHand
  <2>5. setup = "done" => \A r \in Records : Goes(r, y.mem)
    BY <1>1, <1>6 DEF IInv, Carried
  <2> QED BY <1>1, <1>6, <2>1, <2>2, <2>3, <2>4, <2>5 DEF Fit
<1>8. faults = 0 => Straight("sent", y)
  BY <1>1, <1>6 DEF IInv, Levelled, Straight
<1>9. Alone(c, "sent", y)
  BY <1>1, <1>2, <1>3, <1>5, <1>8, OnlyOne DEF Send, Alone, store, counts
<1> QED BY <1>6, <1>7, <1>9, OnlyCarrier DEF Steps

\* Numbers of changes are numbers.
LEMMA CountsAre ==
  ASSUME IInv
  PROVE  /\ \A r : Now(r) \in Nat /\ Now(r) <= Latest /\ (Now(r) # 0 => Now(r) \in 1..Latest)
         /\ \A r \in Records : rows[r].val \in Nat /\ rows[r].seq \in Nat
         /\ \A i \in DOMAIN queue :
              queue[i].rec \in Records /\ queue[i].val \in Nat /\ queue[i].val > 0
<1>1. Latest \in Nat /\ queue \in Seq(Waiting)
      /\ feed \in Seq([rec : Records, op : {"write", "delete"}])
  BY KindsAre
<1>2. \A r : Now(r) \in 0..Latest
  BY <1>1, NowIs
<1>3. \A r : Now(r) \in Nat /\ Now(r) <= Latest /\ (Now(r) # 0 => Now(r) \in 1..Latest)
  BY <1>1, <1>2
<1>4. \A r \in Records : rows[r].val \in Nat /\ rows[r].seq \in Nat
  <2>1. rows \in [Records -> [seq : Nat, val : 0..Latest]]
    BY DEF IInv, TypeOK
  <2> QED BY <1>1, <2>1
<1>5. ASSUME NEW i \in DOMAIN queue
      PROVE  queue[i].rec \in Records /\ queue[i].val \in Nat /\ queue[i].val > 0
  <2>1. queue[i] \in Waiting
    BY <1>1, LenProperties
  <2> QED BY <1>1, <2>1 DEF Waiting
<1> QED BY <1>3, <1>4, <1>5

LEMMA CopyWholeKeeps == ASSUME IInv, NEW c \in Carriers, CopyWhole(c) PROVE IInv'
<1>1. PICK new \in Entries(Live) : queue' = Enqueue(queue, new)
  BY DEF CopyWhole
<1>2. PICK y : y = [job[c] EXCEPT !.mem.cursor = Latest, !.mem.version = job[c].version]
  OBVIOUS
<1>3. /\ job \in [Carriers -> Jobs] /\ job[c] \in Jobs /\ Latest \in Nat
      /\ feed \in Seq([rec : Records, op : {"write", "delete"}])
      /\ queue \in Seq(Waiting) /\ pc \in [Carriers -> Steps]
  BY KindsAre
<1>4. job[c].mem \in Numbers /\ job[c].version \in Nat
  BY <1>3 DEF Jobs
<1>5. /\ y \in Jobs /\ y.mem.cursor = Latest /\ y.mem.version = job[c].version
      /\ y.version = job[c].version /\ y.page = job[c].page /\ y.batch = job[c].batch
  BY <1>2, <1>3, <1>4 DEF Jobs, Numbers
<1>6. Live \in SUBSET Records /\ \A r \in Live : Now(r) \in 1..Latest
  <2> SUFFICES ASSUME NEW r \in Live PROVE Now(r) \in 1..Latest
    BY DEF Live
  <2>1. Now(r) # 0
    BY DEF Live, Seen
  <2> QED BY <2>1, CountsAre
<1>7. /\ new \in Seq(Waiting) /\ Once(new)
      /\ \A i \in DOMAIN new : new[i].rec \in Live /\ new[i].val = Now(new[i].rec)
      /\ \A r \in Live : \E i \in DOMAIN new : new[i] = [rec |-> r, val |-> Now(r)]
  BY <1>6, EntriesAre DEF Waiting, Listed
<1>8. Taken(c) /\ pc[c] \in {"copy", "pages"}
  BY DEF CopyWhole, Reading, Taken
<1>9. Reached(y)
  BY <1>3, <1>5 DEF IInv, Bounded, Reached
<1>10. y.mem.version <= y.mem.cursor
  BY <1>5 DEF IInv, Bounded, Reached
<1>11. skipped' = skipped \cup {r \in Records \ Live : Now(r) > job[c].mem.cursor}
  BY DEF CopyWhole
<1>12. ASSUME setup = "done", NEW r \in Records
       PROVE  r \in Live \/ Now(r) > y.mem.cursor \/ r \in skipped' \/ InStep(r)
  <2>1. Goes(r, job[c].mem)
    BY <1>8, <1>12 DEF IInv, Carried
  <2>2. CASE r \notin Live /\ FirstRun(job[c].mem)
    <3>1. job[c].mem.cursor = 0
      BY <2>2 DEF FirstRun
    <3>2. CASE Now(r) > 0
      BY <1>11, <2>2, <3>1, <3>2
    <3>3. CASE Now(r) = 0
      <4>1. \A n \in Nat : Its(r, n) => n = 0
        BY <1>3, <3>3, NoneIsNewer
      <4>2. rows[r].val = 0
        <5>1. Its(r, rows[r].val) /\ rows[r].val \in Nat
          BY CountsAre DEF IInv, OfRecords
        <5> QED BY <4>1, <5>1
      <4>3. ASSUME NEW i \in DOMAIN queue, queue[i].rec = r PROVE FALSE
        <5>1. Its(r, queue[i].val)
          BY <4>3 DEF IInv, OfRecords, Made
        <5>2. queue[i].val \in Nat /\ queue[i].val > 0
          BY <4>3, CountsAre
        <5> QED BY <4>1, <5>1, <5>2
      <4>4. InStep(r)
        BY <3>3, <4>2, <4>3 DEF InStep
      <4> QED BY <4>4
    <3>4. Now(r) \in Nat
      BY CountsAre
    <3> QED BY <3>2, <3>3, <3>4
  <2> QED BY <1>11, <2>1, <2>2 DEF Goes
<1>13. pc' = [pc EXCEPT ![c] = "remember"] /\ job' = [job EXCEPT ![c] = y]
  BY <1>2, <1>3 DEF CopyWhole
<1>14. skipped \subseteq skipped' /\ skipped' \subseteq Records
  BY <1>11 DEF IInv, TypeOK
<1>15. UNCHANGED <<feed, trimmed, left, switch, turn, server, phone, setup, clock, counts>>
  BY DEF CopyWhole
<1> QED BY <1>1, <1>5, <1>6, <1>7, <1>8, <1>9, <1>10, <1>12, <1>13, <1>14, <1>15, QueuedAgain

LEMMA ReadBackKeeps == ASSUME IInv, NEW c \in Carriers, ReadBack(c) PROVE IInv'
<1> DEFINE from == job[c].mem.cursor + 1
           to   == job[c].page
           S == Moved(from, to, "write") \cap Live
           D == Moved(from, to, "delete")
           T == S \cup D
<1>1. PICK a \in Entries(S), b \in Entries(D) : queue' = Enqueue(queue, a \o b)
  BY DEF ReadBack
<1>2. PICK y : y = [job[c] EXCEPT !.mem.cursor = to, !.mem.version = job[c].version]
  OBVIOUS
<1>3. PICK x \in {"pages", "remember"} : x = IF job[c].more THEN "pages" ELSE "remember"
  OBVIOUS
<1>4. /\ job \in [Carriers -> Jobs] /\ job[c] \in Jobs /\ Latest \in Nat
      /\ feed \in Seq([rec : Records, op : {"write", "delete"}])
      /\ pc \in [Carriers -> Steps]
  BY KindsAre
<1>5. /\ job[c].mem \in Numbers /\ job[c].version \in Nat /\ to \in Nat
      /\ job[c].mem.cursor \in Nat /\ from \in Nat \ {0}
  BY <1>4 DEF Jobs, Numbers
<1>6. /\ y \in Jobs /\ y.mem.cursor = to /\ y.mem.version = job[c].version
      /\ y.version = job[c].version /\ y.page = to /\ y.batch = job[c].batch
  BY <1>2, <1>4, <1>5 DEF Jobs, Numbers
<1>7. /\ Taken(c) /\ pc[c] = "read back" /\ to > 0 /\ ~FirstRun(job[c].mem)
      /\ job[c].version <= Latest /\ to <= Latest
  BY DEF ReadBack, Taken, IInv, AtWork, Bounded, Reached
<1>8. /\ S \in SUBSET Records /\ D \in SUBSET Records /\ S \cap D = {}
      /\ \A r \in T : Now(r) \in 1..Latest
      /\ \A r \in Records : Now(r) \in from..to => r \in T
  <2>1. /\ \A op \in {"write", "delete"} : \A r \in Moved(from, to, op) : Now(r) \in 1..Latest
        /\ Moved(from, to, "write") \cap Moved(from, to, "delete") = {}
        /\ \A r \in Records : Now(r) \in from..to =>
             r \in (Moved(from, to, "write") \cap Live) \cup Moved(from, to, "delete")
    BY <1>4, <1>5, <1>7, MovedAre
  <2>2. \A op : Moved(from, to, op) \in SUBSET Records
    BY DEF Moved
  <2> HIDE DEF from, to
  <2> QED BY <2>1, <2>2
<1> HIDE DEF S, D
<1>9. PICK new : new = a \o b
  OBVIOUS
<1>10. /\ new \in Seq(Waiting) /\ Once(new) /\ queue' = Enqueue(queue, new)
       /\ \A i \in DOMAIN new : new[i].rec \in T /\ new[i].val = Now(new[i].rec)
       /\ \A r \in T : \E i \in DOMAIN new : new[i] = [rec |-> r, val |-> Now(r)]
  <2>1. new \in Seq([rec : Records, val : 1..Latest]) /\ Listed(T, new)
    <3> HIDE DEF from, to
    <3> QED BY <1>1, <1>8, <1>9, TogetherAre
  <2> HIDE DEF T
  <2> QED BY <1>1, <1>9, <2>1 DEF Waiting, Listed
<1>11. Reached(y)
  <2> HIDE DEF to
  <2> QED BY <1>6, <1>7 DEF Reached
<1>12. x = "pages" => ~FirstRun(y.mem)
  <2> HIDE DEF to
  <2>0. to > 0
    BY <1>7
  <2>1. to # 0
    BY <2>0
  <2>2. y.mem.cursor # 0
    BY <1>6, <2>1
  <2> QED BY <2>2 DEF FirstRun
<1>13. x = "remember" /\ faults = 0 => y.mem.version <= y.mem.cursor
  <2> SUFFICES ASSUME x = "remember", faults = 0 PROVE job[c].version <= to
    BY <1>6
  <2>1. ~job[c].more
    BY <1>3
  <2>2. Straight(pc[c], job[c])
    BY <1>7 DEF IInv, Levelled
  <2> QED BY <1>7, <2>1, <2>2 DEF Straight
<1>14. ASSUME setup = "done", NEW r \in Records
       PROVE  r \in T \/ Now(r) > y.mem.cursor \/ r \in skipped' \/ InStep(r)
  <2>1. Goes(r, job[c].mem)
    BY <1>7, <1>14 DEF IInv, Carried
  <2>2. ASSUME Now(r) > job[c].mem.cursor PROVE r \in T \/ Now(r) > to
    <3>1. Now(r) \in Nat
      BY CountsAre
    <3>2. Now(r) > to \/ Now(r) \in from..to
      BY <1>5, <2>2, <3>1
    <3> QED BY <1>8, <3>2
  <2>3. skipped' = skipped
    BY DEF ReadBack
  <2> QED BY <1>6, <1>7, <2>1, <2>2, <2>3 DEF Goes
<1>15. pc' = [pc EXCEPT ![c] = x] /\ job' = [job EXCEPT ![c] = y]
  BY <1>2, <1>3, <1>4 DEF ReadBack
<1>16. skipped \subseteq skipped' /\ skipped' \subseteq Records
  BY DEF IInv, TypeOK, ReadBack
<1>17. UNCHANGED <<feed, trimmed, left, switch, turn, server, phone, setup, clock, counts>>
  BY DEF ReadBack
<1>18. T \in SUBSET Records /\ pc[c] \in {"copy", "pages", "read back"}
  BY <1>7, <1>8
<1> HIDE DEF T
<1> QED BY <1>6, <1>10, <1>11, <1>12, <1>13, <1>14, <1>15, <1>16, <1>17, <1>18, QueuedAgain

\* What arrives is shown as it was sent, each past the order's end; all else stays.
Arrived(b) ==
  /\ \A r \in Records :
       \/ \E i \in DOMAIN b : b[i].rec = r /\ i \in Nat /\ i > 0 /\ i <= Len(b)
                              /\ rows'[r] = [seq |-> standing.seq + i, val |-> b[i].val]
       \/ (\A i \in DOMAIN b : b[i].rec # r) /\ rows'[r] = rows[r]
  /\ DOMAIN rows' = Records /\ rows' = [r \in Records |-> rows'[r]]
  /\ standing' \in [seq : Nat, version : Nat] /\ standing'.seq = standing.seq + Len(b)

LEMMA TakingIs ==
  ASSUME NEW b \in Seq(Waiting), NEW version \in Nat, NEW last \in BOOLEAN,
         standing \in [seq : Nat, version : Nat], Taking(b, version, last)
  PROVE  Arrived(b)
<1>1. Len(b) \in Nat /\ DOMAIN b = 1..Len(b)
  BY LenProperties
<1>2. standing' \in [seq : Nat, version : Nat] /\ standing'.seq = standing.seq + Len(b)
  BY <1>1 DEF Taking
<1>3. ASSUME NEW r \in Records
      PROVE  \/ \E i \in DOMAIN b : b[i].rec = r /\ i \in Nat /\ i > 0 /\ i <= Len(b)
                                    /\ rows'[r] = [seq |-> standing.seq + i, val |-> b[i].val]
             \/ (\A i \in DOMAIN b : b[i].rec # r) /\ rows'[r] = rows[r]
  <2>1. CASE \A i \in DOMAIN b : b[i].rec # r
    BY <2>1 DEF Taking
  <2>2. CASE \E i \in DOMAIN b : b[i].rec = r
    <3>1. PICK i : i = CHOOSE k \in DOMAIN b : b[k].rec = r
      OBVIOUS
    <3>2. i \in DOMAIN b /\ b[i].rec = r
      BY <2>2, <3>1
    <3>3. rows'[r] = [seq |-> standing.seq + i, val |-> b[i].val]
      BY <2>2, <3>1 DEF Taking
    <3>4. i \in Nat /\ i > 0 /\ i <= Len(b)
      BY <1>1, <3>2
    <3> QED BY <3>2, <3>3, <3>4
  <2> QED BY <2>1, <2>2
<1>4. DOMAIN rows' = Records /\ rows' = [r \in Records |-> rows'[r]]
  BY DEF Taking
<1> QED BY <1>2, <1>3, <1>4 DEF Arrived

\* What Place changes, and for whom.
LEMMA PlaceIs ==
  ASSUME IInv, NEW c \in Carriers, Place(c)
  PROVE  /\ Taken(c) /\ pc[c] = "sent" /\ Arrived(job[c].batch)
         /\ rows' \in [Records -> [seq : Nat, val : 0..Latest]]
         /\ job[c].batch \in Seq(Waiting)
         /\ Len(job[c].batch) \in Nat /\ standing.seq \in Nat /\ phone.cursor \in Nat
<1>1. /\ job[c].batch \in Seq(Waiting) /\ job[c].sending \in Nat
      /\ standing \in [seq : Nat, version : Nat] /\ Latest \in Nat
      /\ rows \in [Records -> [seq : Nat, val : 0..Latest]] /\ phone.cursor \in Nat
  <2>1. job[c] \in Jobs
    BY KindsAre
  <2> QED BY <2>1, KindsAre DEF Jobs, IInv, TypeOK
<1>2. PICK b : b = job[c].batch
  OBVIOUS
<1>3. PICK last \in BOOLEAN : last = (job[c].parts = 1)
  <2>1. (job[c].parts = 1) \in BOOLEAN
    OBVIOUS
  <2> QED BY <2>1
<1>4. Taking(b, job[c].sending, last)
  BY <1>2, <1>3 DEF Place
<1>5. PICK version : version = job[c].sending
  OBVIOUS
<1>6. Arrived(b)
  BY <1>1, <1>2, <1>4, <1>5, TakingIs
<1>7. \A r \in Records : rows'[r] \in [seq : Nat, val : 0..Latest]
  <2> SUFFICES ASSUME NEW r \in Records PROVE rows'[r] \in [seq : Nat, val : 0..Latest]
    OBVIOUS
  <2>1. ASSUME NEW i \in DOMAIN b, i \in Nat,
               rows'[r] = [seq |-> standing.seq + i, val |-> b[i].val]
        PROVE  rows'[r] \in [seq : Nat, val : 0..Latest]
    <3>1. b[i] \in Waiting
      BY <1>1, <1>2, LenProperties
    <3>2. b[i].val \in 0..Latest /\ standing.seq + i \in Nat
      BY <1>1, <2>1, <3>1 DEF Waiting
    <3> QED BY <2>1, <3>2
  <2> QED BY <1>1, <1>6, <2>1 DEF Arrived
<1>8. rows' \in [Records -> [seq : Nat, val : 0..Latest]]
  BY <1>6, <1>7 DEF Arrived
<1>9. Len(b) \in Nat
  BY <1>1, <1>2, LenProperties
<1> QED BY <1>1, <1>2, <1>6, <1>8, <1>9 DEF Place, Taken

LEMMA PlaceKeeps == ASSUME IInv, NEW c \in Carriers, Place(c) PROVE IInv'
<1>1. PICK b : b = job[c].batch
  OBVIOUS
<1>2. /\ Taken(c) /\ pc[c] = "sent" /\ Arrived(b)
      /\ rows' \in [Records -> [seq : Nat, val : 0..Latest]] /\ b \in Seq(Waiting)
      /\ Len(b) \in Nat /\ standing.seq \in Nat /\ phone.cursor \in Nat
  BY <1>1, PlaceIs
<1>3. /\ pc \in [Carriers -> Steps] /\ job \in [Carriers -> Jobs] /\ job[c] \in Jobs
      /\ queue \in Seq(Waiting) /\ Once(queue) /\ Latest \in Nat
  BY KindsAre
<1>4. PICK n \in Nat : n = standing'.seq
  BY <1>2 DEF Arrived
<1>5. PICK y : y = [job[c] EXCEPT !.answer = n]
  OBVIOUS
<1>6. /\ pc' = [pc EXCEPT ![c] = "answer"] /\ job' = [job EXCEPT ![c] = y]
      /\ UNCHANGED <<store, turn, phone, setup, clock, skipped, counts>>
  BY <1>4, <1>5 DEF Place
<1>7. /\ y \in Jobs /\ y.mem = job[c].mem /\ y.version = job[c].version /\ y.page = job[c].page
      /\ y.batch = b /\ y.parts = job[c].parts /\ y.answer = n
  BY <1>1, <1>3, <1>5 DEF Jobs
<1>8. /\ pc'[c] = "answer" /\ job'[c] = y
      /\ \A q \in Carriers : q # c => pc'[q] = pc[q] /\ job'[q] = job[q]
  BY <1>3, <1>6
<1>9. \A q \in Carriers : q # c => ~Taken(q)
  BY <1>2, OnlyOne
<1>10. Latest' = Latest /\ \A r : Now(r)' = Now(r)
  <2>1. Latest' = Latest
    BY <1>6 DEF Latest, store
  <2>2. \A r : Now(r) = LastIn(feed, r)
    BY DEF Now, LastIn, Latest
  <2>3. \A r : Now(r)' = LastIn(feed', r)
    BY DEF Now, LastIn, Latest
  <2> QED BY <1>6, <2>1, <2>2, <2>3 DEF store
<1>11. PICK shown : shown = rows'
  OBVIOUS
<1>12. /\ standing' \in [seq : Nat, version : Nat] /\ n = standing.seq + Len(b)
       /\ \A r \in Records :
            \/ \E i \in DOMAIN b : b[i].rec = r /\ i \in Nat /\ i > 0 /\ i <= Len(b)
                                   /\ shown[r] = [seq |-> standing.seq + i, val |-> b[i].val]
            \/ (\A i \in DOMAIN b : b[i].rec # r) /\ shown[r] = rows[r]
  BY <1>2, <1>4, <1>11 DEF Arrived
<1>13. TypeOK'
  <2>1. pc' \in [Carriers -> Steps] /\ job' \in [Carriers -> Jobs]
    BY <1>3, <1>6, <1>7 DEF Steps
  <2> QED BY <1>2, <1>6, <1>10, <1>12, <2>1
          DEF IInv, TypeOK, Steps, Jobs, Waiting, Numbers, store, counts
<1>14. Turns'
  <2>1. turn' = turn /\ turn = c
    BY <1>2, <1>6, OnlyOne
  <2> QED BY <1>8, <1>9, <2>1 DEF Turns, Taken
<1>15. AtWork'
  <2>1. AtWork
    BY DEF IInv
  <2> SUFFICES ASSUME NEW q \in Carriers
               PROVE  /\ pc'[q] \in {"sent", "answer"} => job'[q].parts > 0
                      /\ pc'[q] \in {"pages", "read back"} => ~FirstRun(job'[q].mem)
                      /\ pc'[q] = "read back" => job'[q].page > 0
    BY DEF AtWork, FirstRun
  <2> QED BY <1>2, <1>7, <1>8, <2>1 DEF AtWork
<1>16. Bounded'
  <2>1. Bounded
    BY DEF IInv
  <2> QED BY <1>6, <1>7, <1>8, <1>10, <2>1 DEF Bounded, Reached, store
<1>17. OfRecords'
  <2>1. \A r, m : Its(r, m)' <=> Its(r, m)
    BY <1>6, <1>10 DEF Its, store
  <2>2. OfRecords
    BY DEF IInv
  <2>3. \A r \in Records : Its(r, shown[r].val)
    <3> SUFFICES ASSUME NEW r \in Records PROVE Its(r, shown[r].val)
      OBVIOUS
    <3>1. Made(b)
      BY <1>1, <2>2 DEF OfRecords
    <3>2. ASSUME NEW i \in DOMAIN b, b[i].rec = r,
                 shown[r] = [seq |-> standing.seq + i, val |-> b[i].val]
          PROVE  Its(r, shown[r].val)
      BY <3>1, <3>2 DEF Made
    <3> QED BY <1>12, <2>2, <3>2 DEF OfRecords
  <2>4. \A q \in Carriers : job'[q].batch = job[q].batch
    BY <1>1, <1>7, <1>8
  <2> QED BY <1>6, <1>11, <2>1, <2>2, <2>3, <2>4 DEF OfRecords, Made, store
<1>18. \A j \in DOMAIN queue : queue[j].val >= shown[queue[j].rec].val
  <2> SUFFICES ASSUME NEW j \in DOMAIN queue PROVE queue[j].val >= shown[queue[j].rec].val
    OBVIOUS
  <2>1. queue[j].rec \in Records
    BY CountsAre
  <2>2. Onward /\ Newer(b)
    BY <1>1, <1>2 DEF IInv, Onward
  <2>3. ASSUME NEW i \in DOMAIN b, b[i].rec = queue[j].rec,
               shown[queue[j].rec] = [seq |-> standing.seq + i, val |-> b[i].val]
        PROVE  queue[j].val >= shown[queue[j].rec].val
    BY <2>2, <2>3 DEF Newer
  <2> QED BY <1>12, <2>1, <2>2, <2>3 DEF Onward
<1>19. Onward'
  <2>1. \A q \in Carriers : pc'[q] # "sent"
    BY <1>8, <1>9 DEF Taken
  <2> QED BY <1>6, <1>11, <1>18, <2>1 DEF Onward, store
<1>20. Ordered'
  <2>1. Ordered
    BY DEF IInv
  <2>2. \A r \in Records : shown[r].seq <= n
    <3> SUFFICES ASSUME NEW r \in Records PROVE shown[r].seq <= n
      OBVIOUS
    <3>1. ASSUME NEW i \in DOMAIN b, i \in Nat, i <= Len(b),
                 shown[r] = [seq |-> standing.seq + i, val |-> b[i].val]
          PROVE  shown[r].seq <= n
      BY <1>2, <1>12, <3>1
    <3>2. CASE shown[r] = rows[r]
      BY <1>2, <1>12, <2>1, <3>2, CountsAre DEF Ordered
    <3> QED BY <1>12, <3>1, <3>2
  <2>3. phone.cursor <= n
    BY <1>2, <1>12, <2>1 DEF Ordered
  <2> QED BY <1>4, <1>6, <1>11, <2>2, <2>3 DEF Ordered
<1>21. PassedIsHeld'
  <2>1. PassedIsHeld /\ phone.cursor <= standing.seq
    BY DEF IInv, Ordered
  <2>2. ASSUME NEW r \in Records, shown[r].seq \in 1..phone.cursor
        PROVE  phone.copy[r] = shown[r].val
    <3>1. ASSUME NEW i \in DOMAIN b, i \in Nat, i > 0,
                 shown[r] = [seq |-> standing.seq + i, val |-> b[i].val]
          PROVE  FALSE
      BY <1>2, <2>1, <2>2, <3>1
    <3> QED BY <1>12, <2>1, <2>2, <3>1 DEF PassedIsHeld
  <2> QED BY <1>6, <1>11, <2>2 DEF PassedIsHeld
<1>22. Levelled'
  <2>1. Levelled
    BY DEF IInv
  <2> SUFFICES ASSUME faults = 0
               PROVE  /\ left.version <= left.cursor
                      /\ \A q \in Carriers : pc'[q] \notin {"none", "off"} => Straight(pc'[q], job'[q])
    BY <1>6 DEF Levelled, Taken, Straight, store, counts
  <2>2. Straight("answer", y)
    BY <1>2, <1>7, <2>1 DEF Levelled, Straight
  <2> QED BY <1>8, <1>9, <2>1, <2>2 DEF Levelled, Taken
<1>23. Sent'
  <2> SUFFICES ASSUME setup = "done", NEW q \in Carriers, pc'[q] \in {"sent", "answer"}
               PROVE  InHand(pc[q], job[q].batch)'
    BY <1>6 DEF Sent
  <2>1. q = c
    BY <1>8, <1>9 DEF Taken
  <2>2. InHand("sent", b)
    BY <1>1, <1>2 DEF IInv, Sent
  <2>3. \A i \in DOMAIN b : shown[b[i].rec].val = b[i].val
    <3> SUFFICES ASSUME NEW i \in DOMAIN b PROVE shown[b[i].rec].val = b[i].val
      OBVIOUS
    <3>1. \A k \in DOMAIN b : b[k] = queue[k] /\ k \in DOMAIN queue
      <4>1. DOMAIN b = 1..Len(b) /\ DOMAIN queue = 1..Len(queue) /\ Len(queue) \in Nat
        BY <1>2, <1>3, LenProperties
      <4> QED BY <1>2, <2>2, <4>1 DEF InHand
    <3>2. b[i].rec \in Records
      BY <3>1, CountsAre
    <3>3. ASSUME NEW k \in DOMAIN b, b[k].rec = b[i].rec PROVE k = i
      BY <1>3, <3>1, <3>3 DEF Once
    <3>4. PICK k \in DOMAIN b : b[k].rec = b[i].rec
                               /\ shown[b[i].rec] = [seq |-> standing.seq + k, val |-> b[k].val]
      BY <1>12, <3>2
    <3> QED BY <3>3, <3>4
  <2> QED BY <1>6, <1>7, <1>8, <1>11, <2>1, <2>2, <2>3 DEF InHand, store
<1>24. ASSUME setup = "done", NEW r \in Records, InStep(r) PROVE InStep(r)'
  <2>1. ASSUME \A j \in DOMAIN queue : queue[j].rec # r PROVE shown[r] = rows[r]
    <3>1. InHand("sent", b)
      BY <1>1, <1>2, <1>24 DEF IInv, Sent
    <3>2. \A k \in DOMAIN b : b[k] = queue[k] /\ k \in DOMAIN queue
      <4>1. DOMAIN b = 1..Len(b) /\ DOMAIN queue = 1..Len(queue) /\ Len(queue) \in Nat
        BY <1>2, <1>3, LenProperties
      <4> QED BY <1>2, <3>1, <4>1 DEF InHand
    <3>3. \A k \in DOMAIN b : b[k].rec # r
      BY <2>1, <3>2
    <3> QED BY <1>12, <3>3
  <2>2. (\A j \in DOMAIN queue : queue[j].rec # r) => Seen(shown[r].val) = Seen(Now(r))
    BY <1>24, <2>1 DEF InStep
  <2>3. \A j \in DOMAIN queue : queue[j].rec = r => queue[j].val = Now(r)
    BY <1>24 DEF InStep
  <2> QED BY <1>6, <1>10, <1>11, <2>2, <2>3 DEF InStep, Seen, store
<1>25. Carried'
  <2> SUFFICES ASSUME setup = "done", NEW r \in Records
               PROVE  Goes(r, left)' /\ \A q \in Carriers : Taken(q)' => Goes(r, job[q].mem)'
    BY <1>6 DEF Carried
  <2>1. Goes(r, left) /\ Goes(r, y.mem)
    BY <1>2, <1>7 DEF IInv, Carried
  <2>2. Goes(r, left)'
    BY <1>6, <1>10, <1>24, <2>1 DEF Goes, FirstRun, store
  <2>3. ASSUME NEW q \in Carriers, Taken(q)' PROVE Goes(r, job[q].mem)'
    <3>1. q = c
      BY <1>8, <1>9, <2>3 DEF Taken
    <3>2. Now(r)' > y.mem.cursor \/ FirstRun(y.mem) \/ r \in skipped' \/ InStep(r)'
      BY <1>6, <1>10, <1>24, <2>1 DEF Goes
    <3> QED BY <1>8, <3>1, <3>2 DEF Goes, FirstRun
  <2> QED BY <2>2, <2>3
<1> QED BY <1>13, <1>14, <1>15, <1>16, <1>17, <1>19, <1>20, <1>21, <1>22, <1>23, <1>25 DEF IInv

\* Dropping the front of a queue leaves what stood behind it.
RestOf(q, n, d) ==
  /\ \A i \in DOMAIN d : i \in Nat /\ i + n \in DOMAIN q /\ d[i] = q[i + n]
  /\ \A k \in DOMAIN q : k > n => \E i \in DOMAIN d : d[i] = q[k]

LEMMA DropFrontIs ==
  ASSUME NEW S, NEW q \in Seq(S), NEW n \in Nat
  PROVE  DropFront(q, n) \in Seq(S) /\ RestOf(q, n, DropFront(q, n))
<1>1. /\ Len(q) \in Nat /\ DOMAIN q = 1..Len(q) /\ \A i \in 1..Len(q) : q[i] \in S
  BY LenProperties
<1> DEFINE d == SubSeq(q, n + 1, Len(q))
<1>2. \A i \in (n + 1)..Len(q) : q[i] \in S
  BY <1>1
<1>3. n + 1 \in Int /\ Len(q) \in Int
  BY <1>1
<1>4. /\ d \in Seq(S) /\ Len(d) = IF n + 1 <= Len(q) THEN Len(q) - (n + 1) + 1 ELSE 0
      /\ \A i \in 1..(Len(q) - (n + 1) + 1) : d[i] = q[n + 1 + i - 1]
  BY <1>2, <1>3, SubSeqProperties
<1>5. d = DropFront(q, n)
  BY DEF DropFront
<1> HIDE DEF d
<1>6. DOMAIN d = 1..Len(d)
  BY <1>4, LenProperties
<1>7. Len(q) - (n + 1) + 1 = Len(q) - n
  BY <1>1
<1>8. ASSUME NEW i \in DOMAIN d PROVE i \in Nat /\ i + n \in DOMAIN q /\ d[i] = q[i + n]
  <2>1. n + 1 <= Len(q) /\ i \in 1..(Len(q) - n)
    BY <1>1, <1>4, <1>6, <1>7
  <2>2. i + n \in 1..Len(q) /\ n + 1 + i - 1 = i + n /\ i \in Nat
    BY <1>1, <2>1
  <2> QED BY <1>1, <1>4, <1>7, <2>1, <2>2
<1>9. ASSUME NEW k \in DOMAIN q, k > n PROVE \E i \in DOMAIN d : d[i] = q[k]
  <2>1. k - n \in 1..(Len(q) - n) /\ n + 1 <= Len(q) /\ (k - n) + n = k
    BY <1>1, <1>9
  <2>2. k - n \in DOMAIN d
    BY <1>4, <1>6, <1>7, <2>1
  <2>3. d[k - n] = q[k]
    BY <1>8, <2>1, <2>2
  <2> QED BY <2>2, <2>3
<1> QED BY <1>4, <1>5, <1>8, <1>9 DEF RestOf

\* What Answered leaves in the queue, and what it takes out of it.
LEMMA AnsweredIs ==
  ASSUME IInv, NEW c \in Carriers, Answered(c), NEW e, e = queue'
  PROVE  /\ e \in Seq(Waiting) /\ Once(e)
         /\ \A i \in DOMAIN e : \E k \in DOMAIN queue : e[i] = queue[k]
         /\ setup = "done" => \A k \in DOMAIN queue :
              (\E i \in DOMAIN e : e[i] = queue[k]) \/ rows[queue[k].rec].val = queue[k].val
<1>1. queue \in Seq(Waiting) /\ Once(queue) /\ job[c] \in Jobs
  BY KindsAre
<1>2. CASE Short(c)
  BY <1>1, <1>2 DEF Answered
<1>3. CASE ~Short(c)
  <2>1. PICK n \in Nat : n = Len(job[c].batch)
    BY <1>1, LenProperties DEF Jobs
  <2>2. e = DropFront(queue, n)
    BY <1>3, <2>1 DEF Answered
  <2>3. /\ e \in Seq(Waiting)
        /\ \A i \in DOMAIN e : i \in Nat /\ i + n \in DOMAIN queue /\ e[i] = queue[i + n]
        /\ \A k \in DOMAIN queue : k > n => \E i \in DOMAIN e : e[i] = queue[k]
    <3>1. e \in Seq(Waiting) /\ RestOf(queue, n, e)
      BY <1>1, <2>2, DropFrontIs
    <3> QED BY <3>1 DEF RestOf
  <2>4. Once(e)
    <3> SUFFICES ASSUME NEW i \in DOMAIN e, NEW j \in DOMAIN e, e[i].rec = e[j].rec PROVE i = j
      BY DEF Once
    <3>1. i + n = j + n
      BY <1>1, <2>3 DEF Once
    <3> QED BY <2>3, <3>1
  <2>5. ASSUME setup = "done", NEW k \in DOMAIN queue, ~(k > n)
        PROVE  rows[queue[k].rec].val = queue[k].val
    <3>1. InHand("answer", job[c].batch)
      BY <2>5 DEF IInv, Sent, Answered
    <3>2. k \in DOMAIN job[c].batch
      <4>1. DOMAIN queue = 1..Len(queue) /\ DOMAIN job[c].batch = 1..n
        BY <1>1, <2>1, LenProperties DEF Jobs
      <4>2. Len(queue) \in Nat
        BY <1>1, LenProperties
      <4> QED BY <2>5, <4>1, <4>2
    <3> QED BY <3>1, <3>2 DEF InHand
  <2> QED BY <2>3, <2>4, <2>5
<1> QED BY <1>2, <1>3

LEMMA AnsweredKeeps == ASSUME IInv, NEW c \in Carriers, Answered(c) PROVE IInv'
<1>1. PICK e : e = queue'
  OBVIOUS
<1>2. /\ e \in Seq(Waiting) /\ Once(e)
      /\ \A i \in DOMAIN e : \E k \in DOMAIN queue : e[i] = queue[k]
      /\ setup = "done" => \A k \in DOMAIN queue :
           (\E i \in DOMAIN e : e[i] = queue[k]) \/ rows[queue[k].rec].val = queue[k].val
  BY <1>1, AnsweredIs
<1>3. /\ pc \in [Carriers -> Steps] /\ job \in [Carriers -> Jobs] /\ job[c] \in Jobs
      /\ Latest \in Nat /\ queue \in Seq(Waiting)
  BY KindsAre
<1>4. Taken(c) /\ pc[c] = "answer" /\ job[c].parts > 0
  BY DEF Answered, Taken, IInv, AtWork
<1>5. PICK spent \in BOOLEAN :
        /\ IF spent THEN Faulty ELSE UNCHANGED faults
        /\ job' = [job EXCEPT ![c].mem.seq = job[c].answer,
                              ![c].mem.until = IF spent THEN job[c].now + 1
                                               ELSE IF Short(c) THEN job[c].mem.until ELSE 0,
                              ![c].failed = Short(c), ![c].batch = <<>>,
                              ![c].parts = IF Short(c) THEN job[c].parts ELSE job[c].parts - 1]
  BY DEF Answered
<1>6. PICK u : u = IF spent THEN job[c].now + 1 ELSE IF Short(c) THEN job[c].mem.until ELSE 0
  OBVIOUS
<1>7. PICK n : n = IF Short(c) THEN job[c].parts ELSE job[c].parts - 1
  OBVIOUS
<1>8. PICK s \in BOOLEAN : s = Short(c)
  <2>1. Short(c) \in BOOLEAN
    BY DEF Short
  <2> HIDE DEF Short
  <2> QED BY <2>1
<1>9. PICK x \in {"drain", "finish"} : x = IF Short(c) THEN "finish" ELSE "drain"
  OBVIOUS
<1>10. PICK y : y = [job[c] EXCEPT !.mem.seq = job[c].answer, !.mem.until = u, !.failed = s,
                                   !.batch = <<>>, !.parts = n]
  OBVIOUS
<1>11. u \in Nat /\ n \in Nat
  <2>1. job[c].now \in Nat /\ job[c].mem.until \in Nat /\ job[c].parts \in Nat
    BY <1>3 DEF Jobs, Numbers
  <2>2. job[c].now + 1 \in Nat /\ job[c].parts - 1 \in Nat
    BY <1>4, <2>1
  <2> QED BY <1>6, <1>7, <2>1, <2>2
<1>12. /\ y \in Jobs /\ y.mem.cursor = job[c].mem.cursor /\ y.mem.version = job[c].mem.version
       /\ y.version = job[c].version /\ y.page = job[c].page /\ y.batch = <<>>
  BY <1>3, <1>10, <1>11, EmptySeq DEF Jobs, Numbers
<1>13. /\ pc' = [pc EXCEPT ![c] = x] /\ job' = [job EXCEPT ![c] = y]
       /\ UNCHANGED <<feed, trimmed, left, switch, turn, server, phone, setup, clock, skipped,
                      turned, setups>>
       /\ faults' = faults \/ Faulty
  <2>1. pc' = [pc EXCEPT ![c] = x]
    BY <1>9 DEF Answered
  <2>2. job' = [job EXCEPT ![c] = y]
    <3> HIDE DEF Short
    <3> QED BY <1>3, <1>5, <1>6, <1>7, <1>8, <1>10
  <2>3. faults' = faults \/ Faulty
    BY <1>5
  <2>4. UNCHANGED <<feed, trimmed, left, switch, turn, server, phone, setup, clock, skipped,
                    turned, setups>>
    BY DEF Answered
  <2> QED BY <2>1, <2>2, <2>3, <2>4
<1>14. /\ pc'[c] = x /\ job'[c] = y
       /\ \A q \in Carriers : q # c => pc'[q] = pc[q] /\ job'[q] = job[q]
  BY <1>3, <1>13
<1>15. \A q \in Carriers : q # c => ~Taken(q)
  BY <1>4, OnlyOne
<1>16. faults' \in 0..MaxFaults /\ (faults' = 0 => faults = 0)
  BY <1>13, FaultsAdd DEF IInv, TypeOK
<1>17. Latest' = Latest /\ \A r : Now(r)' = Now(r)
  <2>1. Latest' = Latest
    BY <1>13 DEF Latest
  <2>2. \A r : Now(r) = LastIn(feed, r)
    BY DEF Now, LastIn, Latest
  <2>3. \A r : Now(r)' = LastIn(feed', r)
    BY DEF Now, LastIn, Latest
  <2> QED BY <1>13, <2>1, <2>2, <2>3
<1>18. TypeOK'
  <2>1. pc' \in [Carriers -> Steps] /\ job' \in [Carriers -> Jobs]
    BY <1>3, <1>12, <1>13 DEF Steps
  <2> QED BY <1>1, <1>2, <1>13, <1>16, <1>17, <2>1
          DEF IInv, TypeOK, Steps, Jobs, Waiting, Numbers, Once, server
<1>19. Turns'
  <2>1. turn' = turn /\ turn = c
    BY <1>4, <1>13, OnlyOne
  <2> QED BY <1>14, <1>15, <2>1 DEF Turns, Taken
<1>20. AtWork'
  <2>1. AtWork
    BY DEF IInv
  <2> SUFFICES ASSUME NEW q \in Carriers
               PROVE  /\ pc'[q] \in {"sent", "answer"} => job'[q].parts > 0
                      /\ pc'[q] \in {"pages", "read back"} => ~FirstRun(job'[q].mem)
                      /\ pc'[q] = "read back" => job'[q].page > 0
    BY DEF AtWork, FirstRun
  <2> QED BY <1>14, <2>1 DEF AtWork
<1>21. Bounded'
  <2>1. Bounded
    BY DEF IInv
  <2> QED BY <1>12, <1>13, <1>14, <1>17, <2>1 DEF Bounded, Reached
<1>22. OfRecords'
  <2>1. \A r, m : Its(r, m)' <=> Its(r, m)
    BY <1>13, <1>17 DEF Its
  <2>2. OfRecords
    BY DEF IInv
  <2>3. \A i \in DOMAIN e : Its(e[i].rec, e[i].val)
    BY <1>2, <2>2 DEF OfRecords, Made
  <2>4. ASSUME NEW q \in Carriers, NEW i \in DOMAIN job'[q].batch
        PROVE  Its(job'[q].batch[i].rec, job'[q].batch[i].val)
    <3>1. q # c
      BY <1>12, <1>14, <2>4
    <3> QED BY <1>14, <2>2, <2>4, <3>1 DEF OfRecords, Made
  <2> QED BY <1>1, <1>13, <2>1, <2>2, <2>3, <2>4 DEF OfRecords, Made, server
<1>23. Onward'
  <2>1. \A i \in DOMAIN e : e[i].val >= rows[e[i].rec].val
    BY <1>2 DEF IInv, Onward
  <2>2. \A q \in Carriers : pc'[q] # "sent"
    BY <1>14, <1>15 DEF Taken
  <2> QED BY <1>1, <1>13, <2>1, <2>2 DEF Onward, server
<1>24. Ordered' /\ PassedIsHeld'
  BY <1>13 DEF IInv, Ordered, PassedIsHeld, server
<1>25. Levelled'
  <2>1. Levelled
    BY DEF IInv
  <2> SUFFICES ASSUME faults = 0
               PROVE  /\ left.version <= left.cursor
                      /\ \A q \in Carriers : pc'[q] \notin {"none", "off"} => Straight(pc'[q], job'[q])
    BY <1>13, <1>16 DEF Levelled, Taken, Straight
  <2>2. Straight(x, y)
    BY <1>4, <1>12, <2>1 DEF Levelled, Straight
  <2> QED BY <1>14, <1>15, <2>1, <2>2 DEF Levelled, Taken
<1>26. Sent'
  <2>1. \A q \in Carriers : pc'[q] \notin {"sent", "answer"}
    BY <1>14, <1>15 DEF Taken
  <2> QED BY <2>1 DEF Sent
<1>27. ASSUME setup = "done", NEW r \in Records, InStep(r) PROVE InStep(r)'
  <2>1. \A i \in DOMAIN e : e[i].rec = r => e[i].val = Now(r)
    BY <1>2, <1>27 DEF InStep
  <2>2. ASSUME \A i \in DOMAIN e : e[i].rec # r PROVE Seen(rows[r].val) = Seen(Now(r))
    <3>1. CASE \A k \in DOMAIN queue : queue[k].rec # r
      BY <1>27, <3>1 DEF InStep
    <3>2. ASSUME NEW k \in DOMAIN queue, queue[k].rec = r PROVE Seen(rows[r].val) = Seen(Now(r))
      <4>1. queue[k].val = Now(r)
        BY <1>27, <3>2 DEF InStep
      <4>2. rows[r].val = queue[k].val
        BY <1>2, <1>27, <2>2, <3>2
      <4> QED BY <4>1, <4>2
    <3> QED BY <3>1, <3>2
  <2> QED BY <1>1, <1>13, <1>17, <2>1, <2>2 DEF InStep, Seen, server
<1>28. Carried'
  <2> SUFFICES ASSUME setup = "done", NEW r \in Records
               PROVE  Goes(r, left)' /\ \A q \in Carriers : Taken(q)' => Goes(r, job[q].mem)'
    BY <1>13 DEF Carried
  <2>1. Goes(r, left) /\ Goes(r, job[c].mem)
    BY <1>4 DEF IInv, Carried
  <2>2. Goes(r, left)'
    BY <1>13, <1>17, <1>27, <2>1 DEF Goes, FirstRun
  <2>3. ASSUME NEW q \in Carriers, Taken(q)' PROVE Goes(r, job[q].mem)'
    <3>1. q = c
      BY <1>14, <1>15, <2>3 DEF Taken
    <3>2. Now(r)' > y.mem.cursor \/ FirstRun(y.mem) \/ r \in skipped' \/ InStep(r)'
      BY <1>12, <1>13, <1>17, <1>27, <2>1 DEF Goes, FirstRun
    <3> QED BY <1>14, <3>1, <3>2 DEF Goes, FirstRun
  <2> QED BY <2>2, <2>3
<1> QED BY <1>18, <1>19, <1>20, <1>21, <1>22, <1>23, <1>24, <1>25, <1>26, <1>28 DEF IInv

-----------------------------------------------------------------------------
(* The steps that are no carrier's.                                         *)

LEMMA SetOffKeeps ==
  ASSUME IInv, NEW c \in Carriers, SetOff(c),
         UNCHANGED <<store, server, phone, setup, clock, skipped, counts>>
  PROVE  IInv'
<1>1. PICK y : y = job[c]
  OBVIOUS
<1>2. /\ pc \in [Carriers -> Steps] /\ job \in [Carriers -> Jobs] /\ y \in Jobs
      /\ turn \in Carriers \cup {NoOne}
  BY <1>1, KindsAre
<1>3. Fit("off", y)
  BY <1>1 DEF IInv, Bounded, OfRecords, Fit
<1>4. Alone(c, "off", y)
  BY <1>1, <1>2 DEF SetOff, Alone, store, counts, IInv, Turns
<1> QED BY <1>2, <1>3, <1>4, OnlyCarrier DEF Steps

LEMMA WorkStays ==
  ASSUME IInv, UNCHANGED <<feed, left, turn, pc, job, faults>>
  PROVE  Turns' /\ AtWork' /\ Bounded' /\ Levelled'
<1>0. Turns /\ AtWork /\ Bounded /\ Levelled /\ Latest' = Latest
  BY DEF IInv, Latest
<1>1. Turns' /\ AtWork'
  BY <1>0 DEF Turns, AtWork, Taken, FirstRun
<1>2. Bounded'
  BY <1>0 DEF Bounded, Reached
<1>3. Levelled'
  BY <1>0 DEF Levelled, Straight, Taken
<1> QED BY <1>1, <1>2, <1>3

LEMMA ShelfStays ==
  ASSUME IInv, UNCHANGED <<feed, queue, left, pc, job, rows, setup, skipped>>
  PROVE  OfRecords' /\ Onward' /\ Sent' /\ Carried'
<1>0. OfRecords /\ Onward /\ Sent /\ Carried /\ Latest' = Latest
  BY DEF IInv, Latest
<1>1. OfRecords'
  <2>1. \A r, n : Its(r, n)' <=> Its(r, n)
    BY <1>0 DEF Its
  <2> QED BY <1>0, <2>1 DEF OfRecords, Made
<1>2. Onward'
  BY <1>0 DEF Onward, Newer
<1>3. Sent'
  BY <1>0 DEF Sent, InHand
<1>4. Carried'
  <2>1. \A r : Now(r) = LastIn(feed, r)
    BY DEF Now, LastIn, Latest
  <2>2. \A r : Now(r)' = LastIn(feed', r)
    BY DEF Now, LastIn, Latest
  <2>3. \A r : InStep(r)' <=> InStep(r)
    BY <2>1, <2>2 DEF InStep, Seen
  <2>4. \A r : Goes(r, left)' <=> Goes(r, left)
    BY <2>1, <2>2, <2>3 DEF Goes, FirstRun
  <2>5. \A r, q : Goes(r, job[q].mem)' <=> Goes(r, job[q].mem)
    BY <2>1, <2>2, <2>3 DEF Goes, FirstRun
  <2> QED BY <1>0, <2>4, <2>5 DEF Carried, Taken
<1> QED BY <1>1, <1>2, <1>3, <1>4

LEMMA ThrowSwitchKeeps == ASSUME IInv, ThrowSwitch PROVE IInv'
<1>1. turned' \in 0..MaxTurned
  <2>1. turned \in 0..MaxTurned /\ turned < MaxTurned /\ turned' = turned + 1 /\ MaxTurned \in Nat
    BY SizesAssumption DEF IInv, TypeOK, ThrowSwitch
  <2> QED BY <2>1
<1>2. TypeOK'
  BY <1>1 DEF ThrowSwitch, IInv, TypeOK, work, server, Latest
<1>3. Ordered' /\ PassedIsHeld'
  BY DEF ThrowSwitch, IInv, Ordered, PassedIsHeld, server
<1> QED BY <1>2, <1>3, WorkStays, ShelfStays DEF ThrowSwitch, work, server, IInv

LEMMA PauseLiftsKeeps == ASSUME IInv, PauseLifts PROVE IInv'
<1>1. clock' \in Nat
  BY KindsAre DEF PauseLifts, Numbers
<1>2. TypeOK'
  BY <1>1 DEF PauseLifts, IInv, TypeOK, store, work, server, counts, Latest
<1>3. Ordered' /\ PassedIsHeld'
  BY DEF PauseLifts, IInv, Ordered, PassedIsHeld, server
<1> QED BY <1>2, <1>3, WorkStays, ShelfStays DEF PauseLifts, store, work, server, counts, IInv

LEMMA ReadKeeps == ASSUME IInv, Read PROVE IInv'
<1> DEFINE After(r) == rows[r].seq > phone.cursor
           Before(r) == {q \in Records : After(q) /\ rows[q].seq < rows[r].seq}
           page == {r \in Records : After(r) /\ Cardinality(Before(r)) < PER_PAGE}
           places == {rows[r].seq : r \in page}
<1>1. /\ page # {}
      /\ phone' = [cursor |-> CHOOSE n \in places : \A r \in page : rows[r].seq <= n,
                   copy |-> [r \in Records |-> IF r \in page THEN rows[r].val ELSE phone.copy[r]]]
      /\ UNCHANGED <<store, work, server, setup, clock, skipped, counts>>
  BY DEF Read
<1>2. /\ rows \in [Records -> [seq : Nat, val : 0..Latest]] /\ standing.seq \in Nat
      /\ phone.cursor \in Nat /\ phone.copy \in [Records -> 0..Latest]
      /\ \A r \in Records : rows[r].seq <= standing.seq /\ rows[r].seq \in Nat
  BY CountsAre DEF IInv, TypeOK, Ordered
<1>3. \E n \in places : \A r \in page : rows[r].seq <= n
  <2>1. places \in SUBSET (1..standing.seq) /\ places # {}
    <3>1. \A r \in page : rows[r].seq \in 1..standing.seq
      BY <1>2
    <3> QED BY <1>1, <3>1
  <2> HIDE DEF places
  <2>2. \E n \in places : \A m \in places : m <= n
    BY <1>2, <2>1, HasLast
  <2> USE DEF places
  <2> HIDE DEF page
  <2> QED BY <2>2
<1>4. PICK n : n = phone'.cursor
  OBVIOUS
<1>5. n \in places /\ \A r \in page : rows[r].seq <= n
  <2>1. n = CHOOSE m \in places : \A r \in page : rows[r].seq <= m
    BY <1>1, <1>4
  <2> HIDE DEF places, page
  <2> QED BY <1>3, <2>1
<1>6. PICK last \in page : n = rows[last].seq
  BY <1>5
<1>7. n \in Nat /\ n <= standing.seq
  BY <1>2, <1>6
<1>8. ASSUME NEW r \in Records, After(r), rows[r].seq <= n PROVE r \in page
  <2>1. Before(r) \in SUBSET Before(last) /\ Before(last) \in SUBSET Records
    <3>1. ASSUME NEW q \in Records, rows[q].seq < rows[r].seq PROVE rows[q].seq < rows[last].seq
      BY <1>2, <1>6, <1>7, <1>8, <3>1
    <3> QED BY <3>1
  <2>2. /\ Cardinality(Before(r)) <= Cardinality(Before(last))
        /\ Cardinality(Before(last)) \in Nat /\ Cardinality(Before(r)) \in Nat
    <3> HIDE DEF Before
    <3>1. IsFiniteSet(Before(last))
      BY <2>1, RecordsAssumption, FS_Subset
    <3>2. IsFiniteSet(Before(r)) /\ Cardinality(Before(r)) <= Cardinality(Before(last))
      BY <2>1, <3>1, FS_Subset
    <3> QED BY <3>1, <3>2, FS_CardinalityType
  <2>3. Cardinality(Before(last)) < PER_PAGE /\ PER_PAGE \in Nat
    BY <1>6, SizesAssumption
  <2> HIDE DEF Before
  <2>4. Cardinality(Before(r)) < PER_PAGE
    BY <2>2, <2>3
  <2> QED BY <1>8, <2>4
<1>9. PICK copy : copy = phone'.copy
  OBVIOUS
<1>10. /\ copy = [r \in Records |-> IF r \in page THEN rows[r].val ELSE phone.copy[r]]
       /\ phone' = [cursor |-> n, copy |-> copy]
  <2> HIDE DEF page, places
  <2> QED BY <1>1, <1>4, <1>9
<1>11. PassedIsHeld'
  <2>1. ASSUME NEW r \in Records, rows[r].seq \in 1..n PROVE copy[r] = rows[r].val
    <3>1. CASE After(r)
      BY <1>2, <1>7, <1>8, <1>10, <2>1, <3>1
    <3>2. CASE ~After(r)
      <4>1. r \notin page /\ rows[r].seq \in 1..phone.cursor
        BY <1>2, <2>1, <3>2
      <4>2. phone.copy[r] = rows[r].val
        BY <4>1 DEF IInv, PassedIsHeld
      <4> HIDE DEF page
      <4> QED BY <1>10, <4>1, <4>2
    <3> QED BY <3>1, <3>2
  <2> QED BY <1>1, <1>4, <1>9, <2>1 DEF PassedIsHeld, server
<1>12. Ordered'
  <2>1. phone'.cursor = n
    BY <1>4
  <2> QED BY <1>1, <1>2, <1>7, <2>1 DEF Ordered, server
<1>13. phone' \in [cursor : Nat, copy : [Records -> 0..Latest]]
  <2>1. copy \in [Records -> 0..Latest]
    <3> HIDE DEF page
    <3> QED BY <1>2, <1>10
  <2> QED BY <1>7, <1>10, <2>1
<1>14. TypeOK'
  BY <1>1, <1>13 DEF IInv, TypeOK, store, work, server, counts, Latest
<1>15. UNCHANGED <<feed, left, turn, pc, job, faults, queue, rows, setup, skipped>>
  BY <1>1 DEF store, work, server, counts
<1> QED BY <1>11, <1>12, <1>14, <1>15, WorkStays, ShelfStays DEF IInv

LEMMA StandUpKeeps == ASSUME IInv, StandUp PROVE IInv'
<1>1. /\ UNCHANGED <<store, work, clock, skipped, faults, turned>> /\ setup' = "up"
      /\ \/ UNCHANGED <<rows, standing, phone>>
         \/ rows' = Blank /\ standing' = [seq |-> 0, version |-> 0] /\ phone' = Unread
  BY DEF StandUp, server
<1>2. setups' \in 0..MaxSetups
  <2>1. setups \in 0..MaxSetups /\ setups < MaxSetups /\ setups' = setups + 1 /\ MaxSetups \in Nat
    BY SizesAssumption DEF IInv, TypeOK, StandUp
  <2> QED BY <2>1
<1>3. Latest \in Nat /\ Latest' = Latest
  BY <1>1, KindsAre DEF store, Latest
<1>4. \A r \in Records : rows'[r].val = rows[r].val \/ rows'[r].val = 0
  BY <1>1 DEF Blank
<1>5. TypeOK'
  <2>1. /\ Blank \in [Records -> [seq : Nat, val : 0..Latest]]
        /\ Unread \in [cursor : Nat, copy : [Records -> 0..Latest]]
    BY <1>3 DEF Blank, Unread
  <2>2. rows' \in [Records -> [seq : Nat, val : 0..Latest]]
    BY <1>1, <2>1 DEF IInv, TypeOK
  <2>3. standing' \in [seq : Nat, version : Nat]
    <3>1. [seq |-> 0, version |-> 0] \in [seq : Nat, version : Nat]
      OBVIOUS
    <3>2. standing \in [seq : Nat, version : Nat]
      BY DEF IInv, TypeOK
    <3> QED BY <1>1, <3>1, <3>2
  <2>4. phone' \in [cursor : Nat, copy : [Records -> 0..Latest]]
    BY <1>1, <2>1 DEF IInv, TypeOK
  <2> QED BY <1>1, <1>2, <1>3, <2>2, <2>3, <2>4 DEF IInv, TypeOK, store, work
<1>6. Turns' /\ AtWork' /\ Bounded' /\ Levelled'
  BY <1>1, WorkStays DEF store, work
<1>7. OfRecords'
  <2>1. \A r, n : Its(r, n)' <=> Its(r, n)
    BY <1>1, <1>3 DEF Its, store
  <2>2. OfRecords
    BY DEF IInv
  <2>3. \A r \in Records : Its(r, rows'[r].val)
    BY <1>4, <2>2 DEF OfRecords, Its
  <2> QED BY <1>1, <2>1, <2>2, <2>3 DEF OfRecords, Made, store, work
<1>8. Onward'
  <2>1. Onward
    BY DEF IInv
  <2>2. \A i \in DOMAIN queue : queue[i].val >= rows'[queue[i].rec].val
    BY <1>4, <2>1, CountsAre DEF Onward
  <2>3. ASSUME NEW c \in Carriers, pc[c] = "sent", NEW i \in DOMAIN job[c].batch
        PROVE  job[c].batch[i].val >= rows'[job[c].batch[i].rec].val
    <3>1. job[c].batch[i] \in Waiting
      <4>1. job[c] \in Jobs
        BY KindsAre
      <4>2. job[c].batch \in Seq(Waiting)
        BY <4>1 DEF Jobs
      <4> QED BY <2>3, <4>2, LenProperties
    <3>2. job[c].batch[i].val >= 0 /\ job[c].batch[i].rec \in Records
      BY <1>3, <3>1 DEF Waiting
    <3>3. job[c].batch[i].val >= rows[job[c].batch[i].rec].val
      BY <2>1, <2>3 DEF Onward, Newer
    <3> QED BY <1>4, <3>2, <3>3
  <2> QED BY <1>1, <2>1, <2>2, <2>3 DEF Onward, Newer, store, work
<1>9. Ordered' /\ PassedIsHeld'
  <2>1. CASE UNCHANGED <<rows, standing, phone>>
    BY <2>1 DEF IInv, Ordered, PassedIsHeld
  <2>2. CASE rows' = Blank /\ standing' = [seq |-> 0, version |-> 0] /\ phone' = Unread
    BY <2>2 DEF Ordered, PassedIsHeld, Blank, Unread
  <2> QED BY <1>1, <2>1, <2>2
<1>10. Sent' /\ Carried'
  BY <1>1 DEF Sent, Carried
<1> QED BY <1>5, <1>6, <1>7, <1>8, <1>9, <1>10 DEF IInv

LEMMA ForgetKeeps == ASSUME IInv, Forget PROVE IInv'
<1>1. /\ left' = Nothing /\ queue' = <<>> /\ setup' = IF turn = NoOne THEN "done" ELSE "crossed"
      /\ UNCHANGED <<feed, trimmed, switch, turn, pc, job, rows, standing, phone, clock, skipped,
                     faults, turned, setups>>
  BY DEF Forget, work, server, counts
<1>2. Latest \in Nat /\ Latest' = Latest
  BY <1>1, KindsAre DEF Latest
<1>3. TypeOK'
  <2>1. Nothing \in Numbers
    BY DEF Nothing, Numbers
  <2>2. <<>> \in Seq(Waiting) /\ \A i, j \in DOMAIN <<>> : <<>>[i].rec = <<>>[j].rec => i = j
    BY EmptySeq
  <2> QED BY <1>1, <1>2, <2>1, <2>2 DEF IInv, TypeOK, Numbers, Waiting
<1>4. Turns' /\ AtWork'
  BY <1>1 DEF IInv, Turns, AtWork, Taken, FirstRun
<1>5. Bounded'
  BY <1>1, <1>2 DEF IInv, Bounded, Reached, Nothing
<1>6. OfRecords'
  <2>1. \A r, n : Its(r, n)' <=> Its(r, n)
    BY <1>1, <1>2 DEF Its
  <2> QED BY <1>1, <2>1 DEF IInv, OfRecords, Made
<1>7. Onward'
  BY <1>1 DEF IInv, Onward, Newer
<1>8. Ordered' /\ PassedIsHeld'
  BY <1>1 DEF IInv, Ordered, PassedIsHeld
<1>9. Levelled'
  <2> SUFFICES ASSUME faults = 0
               PROVE  /\ left'.version <= left'.cursor
                      /\ \A c \in Carriers : pc[c] \notin {"none", "off"} => Straight(pc[c], job[c])
    BY <1>1 DEF Levelled, Taken, Straight
  <2>1. \A c \in Carriers : pc[c] \notin {"none", "off"} => Straight(pc[c], job[c])
    BY DEF IInv, Levelled, Taken
  <2>2. left'.version <= left'.cursor
    BY <1>1 DEF Nothing
  <2> QED BY <2>1, <2>2
<1>10. setup' = "done" => \A c \in Carriers : pc'[c] \in {"none", "off"}
  BY <1>1, CarriersAssumption DEF IInv, Turns, Taken
<1>11. Sent'
  BY <1>10 DEF Sent
<1>12. Carried'
  <2>1. FirstRun(left')
    BY <1>1 DEF FirstRun, Nothing
  <2> QED BY <1>10, <2>1 DEF Carried, Goes, Taken, FirstRun
<1> QED BY <1>3, <1>4, <1>5, <1>6, <1>7, <1>8, <1>9, <1>11, <1>12 DEF IInv

\* A change made to r, and what it leaves as it was.
LEMMA WriteIs ==
  ASSUME IInv, NEW r \in Records, Write(r)
  PROVE  /\ feed' \in Seq([rec : Records, op : {"write", "delete"}])
         /\ Latest' = Latest + 1 /\ Latest \in Nat
         /\ \A i \in 1..Latest : feed'[i] = feed[i]
         /\ feed'[Latest + 1].rec = r
         /\ Now(r)' = Latest + 1
         /\ \A q \in Records \ {r} : Now(q)' = Now(q)
         /\ \A n : Seen(n) = Seen(n)' \/ n \notin 0..Latest
         /\ \A q, n : Its(q, n) => Its(q, n)'
<1> DEFINE R == [rec : Records, op : {"write", "delete"}]
<1>1. PICK op \in {"write", "delete"} : feed' = Append(feed, [rec |-> r, op |-> op])
  BY DEF Write
<1>2. PICK change \in R : change = [rec |-> r, op |-> op]
  OBVIOUS
<1>3. feed \in Seq(R) /\ Latest = Len(feed) /\ Latest \in Nat
  BY KindsAre DEF Latest
<1> HIDE DEF R
<1>4. /\ feed' \in Seq(R) /\ Len(feed') = Len(feed) + 1
      /\ \A i \in 1..Len(feed) : feed'[i] = feed[i]
      /\ feed'[Len(feed) + 1] = change
  BY <1>1, <1>2, <1>3, AppendProperties
<1>5. Latest' = Latest + 1
  BY <1>3, <1>4 DEF Latest
<1>6. feed'[Latest + 1].rec = r
  BY <1>2, <1>3, <1>4
<1>7. PICK f : f = feed'
  OBVIOUS
<1>8. /\ f \in Seq(R) /\ Len(f) = Latest + 1 /\ f[Latest + 1].rec = r
      /\ \A i \in 1..Latest : f[i] = feed[i]
  BY <1>3, <1>4, <1>6, <1>7
<1>9. \A q : Now(q) = LastIn(feed, q) /\ Now(q)' = LastIn(f, q)
  <2>1. \A q : Now(q) = LastIn(feed, q)
    BY DEF Now, LastIn, Latest
  <2>2. \A q : Now(q)' = LastIn(feed', q)
    BY DEF Now, LastIn, Latest
  <2> QED BY <1>7, <2>1, <2>2
<1>10. LastIn(f, r) = Latest + 1
  <2>1. /\ LastIn(f, r) \in 0..(Latest + 1)
        /\ \A i \in 1..(Latest + 1) : f[i].rec = r => i <= LastIn(f, r)
    BY <1>8, LastIs
  <2>2. Latest + 1 \in 1..(Latest + 1)
    BY <1>3
  <2>3. Latest + 1 <= LastIn(f, r)
    BY <1>8, <2>1, <2>2
  <2> QED BY <1>3, <2>1, <2>3
<1>11. ASSUME NEW q \in Records \ {r} PROVE LastIn(f, q) = LastIn(feed, q)
  <2>1. /\ LastIn(f, q) \in 0..(Latest + 1)
        /\ LastIn(f, q) = 0 \/ (LastIn(f, q) \in 1..(Latest + 1) /\ f[LastIn(f, q)].rec = q)
        /\ \A i \in 1..(Latest + 1) : f[i].rec = q => i <= LastIn(f, q)
    BY <1>8, LastIs
  <2>2. /\ LastIn(feed, q) \in 0..Latest
        /\ LastIn(feed, q) = 0 \/ (LastIn(feed, q) \in 1..Latest /\ feed[LastIn(feed, q)].rec = q)
        /\ \A i \in 1..Latest : feed[i].rec = q => i <= LastIn(feed, q)
    BY <1>3, LastIs
  <2>3. PICK m : m = LastIn(f, q)
    OBVIOUS
  <2>4. PICK k : k = LastIn(feed, q)
    OBVIOUS
  <2>5. m # Latest + 1
    <3>1. ASSUME m = Latest + 1 PROVE FALSE
      <4>1. m # 0
        BY <1>3, <3>1
      <4> QED BY <1>8, <2>1, <2>3, <3>1, <4>1
    <3> QED BY <3>1
  <2>6. m \in 0..Latest
    BY <1>3, <2>1, <2>3, <2>5
  <2>7. m <= k
    <3>1. CASE m = 0
      BY <1>3, <2>2, <2>4, <3>1
    <3>2. CASE m # 0
      <4>1. m \in 1..Latest /\ feed[m].rec = q
        BY <1>3, <1>8, <2>1, <2>3, <2>6, <3>2
      <4> QED BY <2>2, <2>4, <4>1
    <3> QED BY <3>1, <3>2
  <2>8. k <= m
    <3>1. CASE k = 0
      BY <1>3, <2>6, <3>1
    <3>2. CASE k # 0
      <4>1. k \in 1..Latest /\ feed[k].rec = q
        BY <2>2, <2>4, <3>2
      <4>2. k \in 1..(Latest + 1) /\ f[k].rec = q
        BY <1>3, <1>8, <4>1
      <4> QED BY <2>1, <2>3, <4>2
    <3> QED BY <3>1, <3>2
  <2>9. m \in Int /\ k \in Int
    BY <1>3, <2>2, <2>4, <2>6
  <2> QED BY <2>3, <2>4, <2>7, <2>8, <2>9
<1>12. ASSUME NEW n, n \in 0..Latest PROVE Seen(n)' = Seen(n)
  BY <1>3, <1>7, <1>8, <1>12 DEF Seen
<1>13. ASSUME NEW q, NEW n, Its(q, n) PROVE Its(q, n)'
  <2>1. CASE n = 0
    BY <2>1 DEF Its
  <2>2. CASE n \in 1..Latest /\ feed[n].rec = q
    <3>1. n \in 1..(Latest + 1) /\ f[n].rec = q
      BY <1>3, <1>8, <2>2
    <3> QED BY <1>5, <1>7, <3>1 DEF Its
  <2> QED BY <1>13, <2>1, <2>2 DEF Its
<1> QED BY <1>3, <1>4, <1>5, <1>6, <1>9, <1>10, <1>11, <1>12, <1>13 DEF R

LEMMA WriteKeeps == ASSUME IInv, NEW r \in Records, Write(r) PROVE IInv'
<1>1. /\ feed' \in Seq([rec : Records, op : {"write", "delete"}])
      /\ Latest' = Latest + 1 /\ Latest \in Nat
      /\ Now(r)' = Latest + 1
      /\ \A q \in Records \ {r} : Now(q)' = Now(q)
      /\ \A n : Seen(n) = Seen(n)' \/ n \notin 0..Latest
      /\ \A q, n : Its(q, n) => Its(q, n)'
  BY WriteIs
<1>2. /\ UNCHANGED <<queue, left, switch, rows, standing, phone, setup, clock, skipped, turned,
                     setups, turn, job>>
      /\ faults' = faults \/ Faulty
      /\ pc' = pc \/ \E c \in Carriers : pc[c] = "none" /\ pc' = [pc EXCEPT ![c] = "off"]
  BY DEF Write, SetOff, server, work
<1>3. /\ pc \in [Carriers -> Steps] /\ job \in [Carriers -> Jobs] /\ queue \in Seq(Waiting)
      /\ left \in Numbers
  BY KindsAre
<1>4. /\ \A c \in Carriers : pc'[c] \in Steps
      /\ \A c \in Carriers : pc'[c] # pc[c] => pc'[c] = "off"
      /\ pc' \in [Carriers -> Steps]
  BY <1>2, <1>3 DEF Steps
<1>5. faults' \in 0..MaxFaults /\ (faults' = 0 => faults = 0)
  BY <1>2, FaultsAdd DEF IInv, TypeOK
<1>6. TypeOK'
  <2>1. trimmed' \in 0..Latest'
    <3>0. RETAIN \in Nat \ {0}
      BY SizesAssumption
    <3>1. trimmed \in 0..Latest /\ RETAIN \in Nat /\ RETAIN > 0
      <4>1. trimmed \in 0..Latest
        BY DEF IInv, TypeOK
      <4> QED BY <3>0, <4>1
    <3>2. trimmed' = trimmed \/ (Latest + 1 - RETAIN > trimmed /\ trimmed' = Latest + 1 - RETAIN)
      BY DEF Write
    <3> QED BY <1>1, <3>1, <3>2
  <2>2. PICK W : W = Waiting'
    OBVIOUS
  <2>3. Waiting \subseteq W
    BY <1>1, <2>2 DEF Waiting
  <2>4. queue \in Seq(W)
    BY <1>3, <2>3, SeqMonotonic
  <2>5. ASSUME NEW c \in Carriers PROVE job[c] \in Jobs'
    <3>1. job[c] \in Jobs /\ job[c].batch \in Seq(Waiting)
      BY <1>3 DEF Jobs
    <3>2. job[c].batch \in Seq(W)
      BY <2>3, <3>1, SeqMonotonic
    <3> HIDE DEF Waiting
    <3> QED BY <2>2, <3>1, <3>2 DEF Jobs, Numbers
  <2>6. job' \in [Carriers -> Jobs']
    BY <1>2, <1>3, <2>5
  <2>0. \A n \in 0..Latest : n \in 0..Latest'
    BY <1>1
  <2>7. rows' \in [Records -> [seq : Nat, val : 0..Latest']]
    <3>1. rows \in [Records -> [seq : Nat, val : 0..Latest]]
      BY DEF IInv, TypeOK
    <3> QED BY <1>2, <2>0, <3>1
  <2>8. phone' \in [cursor : Nat, copy : [Records -> 0..Latest']]
    <3>1. phone \in [cursor : Nat, copy : [Records -> 0..Latest]]
      BY DEF IInv, TypeOK
    <3> QED BY <1>2, <2>0, <3>1
  <2>9. queue' \in Seq(Waiting') /\ \A i, j \in DOMAIN queue' : queue'[i].rec = queue'[j].rec => i = j
    BY <1>2, <2>2, <2>4 DEF IInv, TypeOK
  <2> QED BY <1>1, <1>2, <1>4, <1>5, <2>1, <2>6, <2>7, <2>8, <2>9
          DEF IInv, TypeOK, Jobs, Numbers, Waiting, Steps
<1>7. Turns' /\ AtWork'
  <2>1. Turns /\ AtWork
    BY DEF IInv
  <2> QED BY <1>2, <1>4, <2>1 DEF Turns, AtWork, Taken, FirstRun
<1>8. Bounded'
  <2>1. ASSUME NEW c \in Carriers PROVE Reached(job[c])'
    <3>1. Reached(job[c]) /\ job[c] \in Jobs
      BY <1>3 DEF IInv, Bounded
    <3>2. /\ job[c].mem.version \in Nat /\ job[c].mem.cursor \in Nat
          /\ job[c].version \in Nat /\ job[c].page \in Nat
      BY <3>1 DEF Jobs, Numbers
    <3> QED BY <1>1, <1>2, <3>1, <3>2 DEF Reached
  <2>2. left'.version <= Latest' /\ left'.cursor <= Latest'
    BY <1>1, <1>2, <1>3 DEF IInv, Bounded, Numbers
  <2> QED BY <2>1, <2>2 DEF Bounded
<1>9. OfRecords'
  BY <1>1, <1>2 DEF IInv, OfRecords, Made
<1>10. Onward'
  BY <1>2, <1>4 DEF IInv, Onward, Newer
<1>11. Ordered' /\ PassedIsHeld'
  BY <1>2 DEF IInv, Ordered, PassedIsHeld
<1>12. Levelled'
  <2>1. Levelled
    BY DEF IInv
  <2> SUFFICES ASSUME faults = 0
               PROVE  /\ left.version <= left.cursor
                      /\ \A c \in Carriers : pc'[c] \notin {"none", "off"} => Straight(pc'[c], job[c])
    BY <1>2, <1>5 DEF Levelled, Taken, Straight
  <2> QED BY <1>4, <2>1 DEF Levelled, Taken
<1>13. Sent'
  <2>1. Sent
    BY DEF IInv
  <2> SUFFICES ASSUME setup = "done", NEW c \in Carriers, pc'[c] \in {"sent", "answer"}
               PROVE  InHand(pc[c], job[c].batch)'
    BY <1>2 DEF Sent
  <2>2. pc'[c] = pc[c]
    BY <1>4
  <2> QED BY <1>2, <2>1, <2>2 DEF Sent, InHand
<1>14. ASSUME NEW q \in Records \ {r}, InStep(q) PROVE InStep(q)'
  <2>1. Now(q)' = Now(q) /\ Now(q) \in 0..Latest /\ rows[q].val \in 0..Latest
    <3>1. rows \in [Records -> [seq : Nat, val : 0..Latest]]
      BY DEF IInv, TypeOK
    <3>2. Now(q) \in Nat /\ Now(q) <= Latest
      BY CountsAre
    <3> QED BY <1>1, <3>1, <3>2
  <2>2. Seen(Now(q))' = Seen(Now(q)) /\ Seen(rows[q].val)' = Seen(rows[q].val)
    <3>1. PICK m : m = Now(q)
      OBVIOUS
    <3>2. PICK k : k = rows[q].val
      OBVIOUS
    <3>3. Seen(m)' = Seen(m) /\ Seen(k)' = Seen(k)
      BY <1>1, <2>1, <3>1, <3>2
    <3> QED BY <1>2, <2>1, <3>1, <3>2, <3>3 DEF Seen
  <2> QED BY <1>2, <1>14, <2>1, <2>2 DEF InStep
<1>15. Carried'
  <2> SUFFICES ASSUME setup = "done", NEW q \in Records
               PROVE  Goes(q, left)' /\ \A c \in Carriers : Taken(c)' => Goes(q, job[c].mem)'
    BY <1>2 DEF Carried
  <2>1. CASE q = r
    <3>1. \A c \in Carriers : job[c].mem.cursor \in Nat /\ job[c].mem.cursor <= Latest
      BY <1>3 DEF IInv, Bounded, Reached, Jobs, Numbers
    <3>2. left.cursor \in Nat /\ left.cursor <= Latest
      BY <1>3 DEF IInv, Bounded, Numbers
    <3>3. Latest + 1 > left.cursor /\ \A c \in Carriers : Latest + 1 > job[c].mem.cursor
      BY <1>1, <3>1, <3>2
    <3> QED BY <1>1, <1>2, <2>1, <3>3 DEF Goes
  <2>2. CASE q # r
    <3>1. Goes(q, left)'
      <4>1. Goes(q, left)
        BY DEF IInv, Carried
      <4> QED BY <1>1, <1>2, <1>14, <2>2, <4>1 DEF Goes, FirstRun
    <3>2. ASSUME NEW c \in Carriers, Taken(c)' PROVE Goes(q, job[c].mem)'
      <4>1. Taken(c)
        BY <1>4, <3>2 DEF Taken
      <4>2. Goes(q, job[c].mem)
        BY <4>1 DEF IInv, Carried
      <4> QED BY <1>1, <1>2, <1>14, <2>2, <4>2 DEF Goes, FirstRun
    <3> QED BY <3>1, <3>2
  <2> QED BY <2>1, <2>2
<1> QED BY <1>6, <1>7, <1>8, <1>9, <1>10, <1>11, <1>12, <1>13, <1>15 DEF IInv

-----------------------------------------------------------------------------
(* What it promises.                                                        *)

LEMMA StartsWell == Init => IInv
<1> SUFFICES ASSUME Init PROVE IInv
  OBVIOUS
<1>1. Latest = 0 /\ feed \in Seq([rec : Records, op : {"write", "delete"}])
  BY EmptySeq DEF Init, Latest
<1>2. <<>> \in Seq(Waiting) /\ DOMAIN <<>> = {}
  BY EmptySeq
<1>3. Nothing \in Numbers
  BY DEF Nothing, Numbers
<1>4. Idle \in Jobs /\ Idle.mem = Nothing /\ Idle.batch = <<>> /\ Idle.version = 0 /\ Idle.page = 0
  BY <1>2, <1>3 DEF Idle, Jobs
<1>5. \A c \in Carriers : pc[c] = "none" /\ job[c] = Idle
  BY DEF Init
<1>6. TypeOK
  <2>1. pc \in [Carriers -> Steps] /\ job \in [Carriers -> Jobs]
    BY <1>4 DEF Init, Steps
  <2>2. /\ rows \in [Records -> [seq : Nat, val : 0..Latest]]
        /\ phone \in [cursor : Nat, copy : [Records -> 0..Latest]]
    BY <1>1 DEF Init, Blank, Unread
  <2>3. MaxFaults \in Nat /\ MaxTurned \in Nat /\ MaxSetups \in Nat
    BY SizesAssumption
  <2>4. 0 \in 0..MaxFaults /\ 0 \in 0..MaxTurned /\ 0 \in 0..MaxSetups
    BY <2>3
  <2>5. trimmed \in 0..Latest /\ queue \in Seq(Waiting) /\ left \in Numbers
    BY <1>1, <1>2, <1>3 DEF Init
  <2>6. \A i, j \in DOMAIN queue : queue[i].rec = queue[j].rec => i = j
    BY <1>2 DEF Init
  <2> QED BY <1>1, <2>1, <2>2, <2>4, <2>5, <2>6
          DEF Init, TypeOK, Waiting, Jobs, Steps, Numbers
<1>7. Turns /\ AtWork /\ Levelled /\ Sent
  BY <1>5 DEF Init, Turns, AtWork, Levelled, Sent, Taken, Nothing
<1>8. Bounded
  BY <1>1, <1>4, <1>5 DEF Init, Bounded, Reached, Nothing
<1>9. OfRecords /\ Onward
  BY <1>2, <1>4, <1>5 DEF Init, OfRecords, Onward, Made, Newer, Its, Blank
<1>10. Ordered /\ PassedIsHeld
  BY DEF Init, Ordered, PassedIsHeld, Blank, Unread
<1>11. Carried
  BY <1>5 DEF Init, Carried, Goes, FirstRun, Nothing, Taken
<1> QED BY <1>6, <1>7, <1>8, <1>9, <1>10, <1>11 DEF IInv

LEMMA EveryStepKeeps == IInv /\ [Next]_vars => IInv'
<1> SUFFICES ASSUME IInv, [Next]_vars PROVE IInv'
  OBVIOUS
<1>1. ASSUME NEW r \in Records, Write(r) PROVE IInv'
  BY <1>1, WriteKeeps
<1>2. ASSUME NEW c \in Carriers, StartUp(c) \/ SendByHand(c) PROVE IInv'
  BY <1>2, SetOffKeeps DEF StartUp, SendByHand
<1>3. ASSUME NEW c \in Carriers, Turn(c) PROVE IInv'
  BY <1>3, BeginKeeps, StandDownKeeps, LevelKeeps, CopyWholeKeeps, ReadPageKeeps, ReadBackKeeps,
     RememberKeeps, SendKeeps, PlaceKeeps, AnsweredKeeps, DrainedKeeps, FinishKeeps DEF Turn
<1>4. ASSUME NEW c \in Carriers, Fault(c) PROVE IInv'
  BY <1>4, CopyFailsKeeps, RefusedKeeps, AnswerLostKeeps, DieKeeps DEF Fault
<1>5. CASE ThrowSwitch \/ PauseLifts \/ Read \/ StandUp \/ Forget
  BY <1>5, ThrowSwitchKeeps, PauseLiftsKeeps, ReadKeeps, StandUpKeeps, ForgetKeeps
<1>6. CASE UNCHANGED vars
  <2>1. UNCHANGED <<feed, trimmed, queue, left, switch, turn, pc, job, rows, standing, phone, setup,
                    clock, skipped, faults, turned, setups>>
    BY <1>6 DEF vars, store, work, server, counts
  <2>2. TypeOK'
    BY <2>1 DEF IInv, TypeOK, Latest
  <2>3. Ordered' /\ PassedIsHeld'
    BY <2>1 DEF IInv, Ordered, PassedIsHeld
  <2> QED BY <2>1, <2>2, <2>3, WorkStays, ShelfStays DEF IInv
<1> QED BY <1>1, <1>2, <1>3, <1>4, <1>5, <1>6 DEF Next

LEMMA Inductive == Spec => []IInv
BY StartsWell, EveryStepKeeps, PTL DEF Spec

\* Every row and file of the Viewer holds a value of its kind and the queue has a
\* record once (carried.rs's enqueue takes off what waited under a key that comes again).
THEOREM RowsAreOfTheirKind == Spec => []TypeOK
<1>1. IInv => TypeOK
  BY DEF IInv
<1> QED BY <1>1, Inductive, PTL

\* No interleaving of carriers, death, refusal, lost answer, trim of the feed or new server
\* leaves a record behind for good (send.rs: the copying out, the sending and what is
\* written down of both).
THEOREM NothingIsLeftBehind == Spec => []CarriedOrWaiting
<1>1. IInv => CarriedOrWaiting
  <2> SUFFICES ASSUME IInv, setup = "done", NEW r \in Records PROVE Followed(r) \/ r \in skipped
    BY DEF CarriedOrWaiting
  <2>1. Goes(r, left)
    BY DEF IInv, Carried
  <2>2. ASSUME InStep(r) PROVE Followed(r)
    <3>1. CASE \A i \in DOMAIN queue : queue[i].rec # r
      BY <2>2, <3>1 DEF InStep, Followed
    <3>2. ASSUME NEW i \in DOMAIN queue, queue[i].rec = r PROVE Followed(r)
      <4>1. queue[i].val = Now(r)
        BY <2>2, <3>2 DEF InStep
      <4>2. queue[i] \in Waiting
        BY KindsAre, LenProperties
      <4>3. queue[i] = [rec |-> r, val |-> Now(r)]
        BY <3>2, <4>1, <4>2 DEF Waiting
      <4> QED BY <4>3 DEF Followed
    <3> QED BY <3>1, <3>2
  <2> QED BY <2>1, <2>2 DEF Goes, Followed
<1> QED BY <1>1, Inductive, PTL

\* A carrier that wrote down the feed's present number has read the feed up to it: the
\* version is asked for before the picture (send.rs's one_turn), never after.
THEOREM LevelCarriersHaveRead == Spec => []LevelMeansRead
<1>1. IInv => LevelMeansRead
  <2> SUFFICES ASSUME IInv, faults = 0, left.version = Latest PROVE left.cursor >= Latest
    BY DEF LevelMeansRead
  <2>1. left.version <= left.cursor
    BY DEF IInv, Levelled
  <2>2. left.version \in Nat /\ left.cursor \in Nat
    BY KindsAre DEF Numbers
  <2> QED BY <2>1, <2>2
<1> QED BY <1>1, Inductive, PTL

\* A phone that reads on from its place in the order holds all it has passed as the Worker
\* does: a record written again takes a new number (worker/src/index.ts, place and read).
THEOREM ThePassedIsHeld == Spec => []PassedIsHeld
<1>1. IInv => PassedIsHeld
  BY DEF IInv
<1> QED BY <1>1, Inductive, PTL

\* A list of changes is a list of records, one longer with each change.
LEMMA MadeIs ==
  ASSUME NEW f \in Seq([rec : Records, op : {"write", "delete"}])
  PROVE  [i \in DOMAIN f |-> f[i].rec] \in Seq(Records) /\ Len([i \in DOMAIN f |-> f[i].rec]) = Len(f)
<1> DEFINE R == [rec : Records, op : {"write", "delete"}]
<1>1. Len(f) \in Nat /\ DOMAIN f = 1..Len(f) /\ \A i \in 1..Len(f) : f[i] \in R
  BY LenProperties
<1>2. [i \in DOMAIN f |-> f[i].rec] \in [1..Len(f) -> Records]
  BY <1>1
<1> QED BY <1>1, <1>2, IsASequence

\* What the phone can be shown of a record is a state the store really brought it to, and
\* only moves on: the queue, the turn and the parts (carried.rs, lock.rs, send.rs, the
\* Worker's place) make a Mirror.
THEOREM ViewerIsAMirror == Spec => ImplementsMirror
<1>1. Init => Shown!Init
  <2> SUFFICES ASSUME Init PROVE Shown!Init
    OBVIOUS
  <2>1. [i \in DOMAIN feed |-> feed[i].rec] = <<>>
    <3>1. feed = <<>> /\ DOMAIN feed = {}
      BY DEF Init
    <3> QED BY <3>1
  <2>2. [r \in Records |-> rows[r].val] = [r \in Records |-> 0]
    BY DEF Init, Blank
  <2> QED BY <2>1, <2>2 DEF Shown!Init, Shown!Nothing
<1>2. IInv /\ [Next]_vars => [Shown!Next]_(Shown!mvars)
  <2> SUFFICES ASSUME IInv, [Next]_vars PROVE [Shown!Next]_(Shown!mvars)
    OBVIOUS
  <2>1. ASSUME NEW r \in Records, Write(r) PROVE Shown!Change
    <3> DEFINE R == [rec : Records, op : {"write", "delete"}]
    <3>1. /\ feed \in Seq(R) /\ feed' \in Seq(R) /\ Latest' = Latest + 1 /\ Latest \in Nat
          /\ \A i \in 1..Latest : feed'[i] = feed[i]
          /\ feed'[Latest + 1].rec = r
      BY <2>1, WriteIs, KindsAre
    <3>2. PICK f : f = feed'
      OBVIOUS
    <3>3. PICK m : m = [i \in DOMAIN feed |-> feed[i].rec]
      OBVIOUS
    <3>4. PICK m2 : m2 = [i \in DOMAIN f |-> f[i].rec]
      OBVIOUS
    <3>5. m \in Seq(Records) /\ Len(m) = Latest /\ m2 \in Seq(Records) /\ Len(m2) = Latest + 1
      <4>1. m \in Seq(Records) /\ Len(m) = Len(feed)
        BY <3>1, <3>3, MadeIs
      <4>2. m2 \in Seq(Records) /\ Len(m2) = Len(f)
        BY <3>1, <3>2, <3>4, MadeIs
      <4> QED BY <3>1, <3>2, <4>1, <4>2 DEF Latest
    <3>6. \A i \in 1..Latest : m2[i] = m[i]
      <4>1. DOMAIN feed = 1..Latest /\ DOMAIN f = 1..(Latest + 1)
        BY <3>1, <3>2, LenProperties DEF Latest
      <4> HIDE DEF R
      <4> QED BY <3>1, <3>2, <3>3, <3>4, <4>1
    <3>7. m2[Latest + 1] = r
      <4>1. DOMAIN f = 1..(Latest + 1)
        BY <3>1, <3>2, LenProperties DEF Latest
      <4>2. Latest + 1 \in DOMAIN f
        BY <3>1, <4>1
      <4> HIDE DEF R
      <4> QED BY <3>1, <3>2, <3>4, <4>2
    <3>8. m2 = Append(m, r)
      <4>1. /\ Append(m, r) \in Seq(Records) /\ Len(Append(m, r)) = Latest + 1
            /\ \A i \in 1..Latest : Append(m, r)[i] = m[i]
            /\ Append(m, r)[Latest + 1] = r
        BY <3>5, AppendProperties
      <4>2. PICK a : a = Append(m, r)
        OBVIOUS
      <4>3. a \in Seq(Records) /\ Len(a) = Len(m2) /\ \A i \in 1..Len(m2) : a[i] = m2[i]
        BY <3>1, <3>5, <3>6, <3>7, <4>1, <4>2
      <4>4. a \in [1..Len(m2) -> Records] /\ m2 \in [1..Len(m2) -> Records]
        BY <3>5, <4>3, LenProperties
      <4> QED BY <4>2, <4>3, <4>4
    <3>9. rows' = rows
      BY <2>1 DEF Write, server
    <3> QED BY <3>2, <3>3, <3>4, <3>8, <3>9 DEF Shown!Change
  <2>2. ASSUME NEW c \in Carriers, Place(c) PROVE Shown!Show
    <3>1. PICK b : b = job[c].batch
      OBVIOUS
    <3>2. Arrived(b) /\ pc[c] = "sent" /\ b \in Seq(Waiting)
      BY <2>2, <3>1, PlaceIs
    <3>3. feed' = feed
      BY <2>2 DEF Place, store
    <3>4. Latest \in Nat /\ feed \in Seq([rec : Records, op : {"write", "delete"}])
          /\ DOMAIN feed = 1..Latest
      BY KindsAre, LenProperties DEF Latest
    <3>5. Len([i \in DOMAIN feed |-> feed[i].rec]) = Latest
      BY <3>4, MadeIs DEF Latest
    <3>6. PICK shown : shown = rows'
      OBVIOUS
    <3>7. ASSUME NEW r \in Records
          PROVE  \/ shown[r].val = rows[r].val
                 \/ \E n \in 1..Latest : n > rows[r].val /\ feed[n].rec = r /\ shown[r].val = n
      <4>1. ASSUME NEW i \in DOMAIN b, b[i].rec = r, shown[r].val = b[i].val, shown[r].val # rows[r].val
            PROVE  \E n \in 1..Latest : n > rows[r].val /\ feed[n].rec = r /\ shown[r].val = n
        <5>1. Newer(b) /\ Made(b)
          BY <3>1, <3>2 DEF IInv, Onward, OfRecords
        <5>2. b[i].val >= rows[r].val /\ Its(r, b[i].val)
          BY <4>1, <5>1 DEF Newer, Made
        <5>3. b[i] \in Waiting
          BY <3>2, LenProperties
        <5>4. b[i].val \in 1..Latest /\ rows[r].val \in Nat
          BY <5>3, CountsAre DEF Waiting
        <5>5. b[i].val > rows[r].val /\ feed[b[i].val].rec = r
          BY <3>4, <4>1, <5>2, <5>4 DEF Its
        <5> QED BY <4>1, <5>4, <5>5
      <4> QED BY <3>2, <3>6, <4>1 DEF Arrived
    <3>8. ASSUME NEW r \in Records
          PROVE  \/ shown[r].val = rows[r].val
                 \/ \E n \in 1..Len([i \in DOMAIN feed |-> feed[i].rec]) :
                      /\ n > rows[r].val /\ [i \in DOMAIN feed |-> feed[i].rec][n] = r
                      /\ shown[r].val = n
      <4>1. \A n \in 1..Latest : [i \in DOMAIN feed |-> feed[i].rec][n] = feed[n].rec
        BY <3>4
      <4> QED BY <3>5, <3>7, <4>1
    <3> QED BY <3>3, <3>6, <3>8 DEF Shown!Show
  <2>3. CASE StandUp
    <3>1. feed' = feed /\ (rows' = rows \/ rows' = Blank)
      BY <2>3 DEF StandUp, store, server
    <3>2. CASE rows' = rows
      BY <3>1, <3>2 DEF Shown!mvars
    <3>3. CASE rows' = Blank
      <4>1. Shown!StandUp
        BY <3>1, <3>3 DEF Shown!StandUp, Shown!Nothing, Blank
      <4> QED BY <4>1 DEF Shown!Next
    <3> QED BY <3>1, <3>2, <3>3
  <2>4. CASE UNCHANGED <<feed, rows>>
    BY <2>4 DEF Shown!mvars
  <2>5. ASSUME NEW c \in Carriers, StartUp(c) \/ SendByHand(c) \/ Turn(c) \/ Fault(c), ~Place(c)
        PROVE  UNCHANGED <<feed, rows>>
    BY <2>5 DEF StartUp, SendByHand, Turn, Fault, BeginTurn, StandDown, Level, CopyWhole, ReadPage,
                ReadBack, Remember, Send, Answered, Drained, Finish, CopyFails, Refused,
                AnswerLost, Die, store, server
  <2>6. ThrowSwitch \/ PauseLifts \/ Read \/ Forget \/ UNCHANGED vars => UNCHANGED <<feed, rows>>
    BY DEF ThrowSwitch, PauseLifts, Read, Forget, vars, store, server
  <2> QED BY <2>1, <2>2, <2>3, <2>4, <2>5, <2>6 DEF Next, Shown!Next
<1> QED BY <1>1, <1>2, Inductive, PTL DEF Spec, ImplementsMirror, Shown!Spec
=============================================================================
