---------------------------- MODULE OutboxProofs ----------------------------
(***************************************************************************)
(* For any number of faces, any page size and any bounds: the outbox never *)
(* answers a walk with a gap, reclaims exactly what was carried, carries   *)
(* each event once and in order, and so implements EventLog.               *)
(*                                                                         *)
(* The argument is one inductive invariant, IInv.  The write lock makes    *)
(* the walking face unique; while it walks nobody moves the cursor, so     *)
(* what it has seen is what is recognised between the cursor and its own   *)
(* position, and a page that was not cut short reaches the last row.       *)
(***************************************************************************)
EXTENDS Outbox, FiniteSetTheorems, SequenceTheorems, TLAPS

\* Exactly the holder of the lock is inside a walk.
LockInv == \A f \in Faces : (lock = f) <=> (pc[f] \in Walking)

\* The standing rows start right past the cursor; retention is not past it.
StoreInv ==
  /\ cursor <= lastId
  /\ truncated <= cursor
  /\ rows = (cursor + 1)..lastId
  /\ gaps = 0

CarriedInv ==
  /\ Log!Rising(carried)
  /\ Range(carried) = known \cap 1..cursor

\* What a walk has seen so far: the recognised rows it stepped over.
SeenInv ==
  \A f \in Faces : pc[f] \in Walking =>
    /\ cursor <= at[f] /\ at[f] <= lastId
    /\ Log!Rising(seen[f])
    /\ Range(seen[f]) = known \cap (cursor + 1)..at[f]

\* A page holds the next rows without a hole, and all of them unless cut.
PageInv ==
  \A f \in Faces :
    /\ pc[f] = "observe" =>
         /\ page[f] \subseteq (at[f] + 1)..lastId
         /\ \A r \in page[f] : (at[f] + 1)..r \subseteq page[f]
         /\ ~more[f] => page[f] = (at[f] + 1)..lastId
    /\ pc[f] = "commit" => at[f] = lastId

IInv == TypeOK /\ LockInv /\ StoreInv /\ CarriedInv /\ SeenInv /\ PageInv

-----------------------------------------------------------------------------
(* Rising sequences and pages.                                             *)

\* Appending something larger than everything in a rising sequence.
LEMMA RisingAppend ==
  ASSUME NEW s \in Seq(Nat), NEW r \in Nat, Log!Rising(s),
         \A x \in Range(s) : x < r
  PROVE  /\ Log!Rising(Append(s, r))
         /\ Range(Append(s, r)) = Range(s) \cup {r}
<1>1. /\ Len(Append(s, r)) = Len(s) + 1
      /\ \A i \in 1..Len(s) : Append(s, r)[i] = s[i] /\ s[i] < r
      /\ Append(s, r)[Len(s) + 1] = r
  BY DEF Range
<1>2. Log!Rising(Append(s, r))
  <2> SUFFICES ASSUME NEW i \in 1..(Len(s) + 1), NEW j \in 1..(Len(s) + 1), i < j
               PROVE  Append(s, r)[i] < Append(s, r)[j]
    BY <1>1 DEF Log!Rising
  <2>1. CASE j = Len(s) + 1
    BY <1>1, <2>1
  <2>2. CASE j # Len(s) + 1
    BY <1>1, <2>2 DEF Log!Rising
  <2> QED BY <2>1, <2>2
<1>3. Range(Append(s, r)) = Range(s) \cup {r}
  <2>1. DOMAIN Append(s, r) = 1..(Len(s) + 1) /\ DOMAIN s = 1..Len(s)
    OBVIOUS
  <2>2. 1..(Len(s) + 1) = 1..Len(s) \cup {Len(s) + 1}
    OBVIOUS
  <2> QED BY <1>1, <2>1, <2>2, Zenon DEF Range
<1> QED BY <1>2, <1>3

\* Concatenating a rising sequence to one it lies entirely above.
LEMMA RisingConcat ==
  ASSUME NEW s \in Seq(Nat), NEW t \in Seq(Nat), Log!Rising(s), Log!Rising(t),
         \A x \in Range(s), y \in Range(t) : x < y
  PROVE  /\ Log!Rising(s \o t)
         /\ Range(s \o t) = Range(s) \cup Range(t)
         /\ Len(s) <= Len(s \o t)
         /\ \A i \in 1..Len(s) : (s \o t)[i] = s[i]
<1>1. /\ Len(s \o t) = Len(s) + Len(t)
      /\ \A i \in 1..Len(s) : (s \o t)[i] = s[i]
      /\ \A i \in (Len(s) + 1)..(Len(s) + Len(t)) :
            i - Len(s) \in 1..Len(t) /\ (s \o t)[i] = t[i - Len(s)]
  OBVIOUS
<1>2. Log!Rising(s \o t)
  <2> SUFFICES ASSUME NEW i \in 1..Len(s \o t), NEW j \in 1..Len(s \o t), i < j
               PROVE  (s \o t)[i] < (s \o t)[j]
    BY DEF Log!Rising
  <2>1. CASE j <= Len(s)
    BY <1>1, <2>1 DEF Log!Rising
  <2>2. CASE i > Len(s)
    <3>1. /\ i - Len(s) \in 1..Len(t) /\ j - Len(s) \in 1..Len(t)
          /\ i - Len(s) < j - Len(s)
          /\ (s \o t)[i] = t[i - Len(s)] /\ (s \o t)[j] = t[j - Len(s)]
      BY <1>1, <2>2
    <3>2. t[i - Len(s)] < t[j - Len(s)]
      BY <3>1 DEF Log!Rising
    <3> QED BY <3>1, <3>2
  <2>3. CASE i <= Len(s) /\ j > Len(s)
    BY <1>1, <2>3 DEF Range
  <2> QED BY <2>1, <2>2, <2>3
<1>3. Range(s \o t) = Range(s) \cup Range(t)
  <2>1. ASSUME NEW x \in Range(s \o t) PROVE x \in Range(s) \cup Range(t)
    <3> PICK i \in 1..Len(s \o t) : x = (s \o t)[i]
      BY DEF Range
    <3> QED BY <1>1 DEF Range
  <2>2. Range(s) \subseteq Range(s \o t)
    BY <1>1 DEF Range
  <2>3. ASSUME NEW y \in Range(t) PROVE y \in Range(s \o t)
    <3> PICK j \in 1..Len(t) : y = t[j]
      BY DEF Range
    <3>1. Len(s) + j \in 1..Len(s \o t) /\ (s \o t)[Len(s) + j] = y
      BY <1>1
    <3>2. Len(s) + j \in DOMAIN (s \o t)
      BY <3>1
    <3> QED BY <3>1, <3>2, Zenon DEF Range
  <2> QED BY <2>1, <2>2, <2>3
<1> QED BY <1>1, <1>2, <1>3

\* One page: past the position, without a hole, and everything unless more.
LEMMA PageShape ==
  ASSUME NEW c \in Nat, TypeOK, StoreInv, cursor <= c, c <= lastId
  PROVE  /\ PageOf(c) \subseteq (c + 1)..lastId
         /\ \A r \in PageOf(c) : (c + 1)..r \subseteq PageOf(c)
         /\ ~(Cardinality(Standing(c)) > PAGE) => PageOf(c) = (c + 1)..lastId
<1> USE SizesAssumption
<1>1. Standing(c) = (c + 1)..lastId
  BY DEF Standing, StoreInv, TypeOK
<1>2. IsFiniteSet(Standing(c))
  BY <1>1, FS_Interval DEF TypeOK
<1> DEFINE Below(r) == {q \in Standing(c) : q < r}
<1>3. \A r \in Nat : /\ IsFiniteSet(Below(r))
                     /\ Cardinality(Below(r)) \in Nat
                     /\ Cardinality(Below(r)) <= Cardinality(Standing(c))
  <2> TAKE r \in Nat
  <2>1. Below(r) \subseteq Standing(c)
    OBVIOUS
  <2> QED BY <1>2, <2>1, FS_Subset, FS_CardinalityType
<1>4. PageOf(c) = {r \in Standing(c) : Cardinality(Below(r)) < PAGE}
  BY DEF PageOf
<1>5. ASSUME NEW r \in PageOf(c), NEW q \in (c + 1)..r
      PROVE  q \in PageOf(c)
  <2>1. r \in Standing(c) /\ r \in Nat /\ q \in Nat /\ q \in Standing(c)
    BY <1>1, <1>4 DEF TypeOK
  <2>2. Below(q) \subseteq Below(r)
    BY <1>1, <2>1 DEF TypeOK
  <2>3. Cardinality(Below(q)) <= Cardinality(Below(r))
    BY <1>3, <2>1, <2>2, FS_Subset
  <2>4. Cardinality(Below(r)) < PAGE
    BY <1>4
  <2>5. Cardinality(Below(q)) < PAGE
    <3> HIDE DEF Below
    <3> QED BY <1>3, <2>1, <2>3, <2>4
  <2> QED BY <1>4, <2>1, <2>5
<1>6. ASSUME ~(Cardinality(Standing(c)) > PAGE), NEW r \in Standing(c)
      PROVE  r \in PageOf(c)
  <2>1. r \in Nat /\ Below(r) \subseteq Standing(c) /\ r \notin Below(r)
    BY <1>1 DEF TypeOK
  <2>2. Cardinality(Below(r)) < Cardinality(Standing(c))
    BY <1>2, <1>3, <2>1, FS_Subset, FS_CardinalityType
  <2> QED BY <1>2, <1>3, <1>4, <1>6, <2>1, <2>2, FS_CardinalityType
<1> QED BY <1>1, <1>4, <1>5, <1>6

-----------------------------------------------------------------------------
(* The invariant is inductive.                                             *)

LEMMA InitIInv == Init => IInv
<1> SUFFICES ASSUME Init PROVE IInv
  OBVIOUS
<1>1. TypeOK
  BY FacesAssumption DEF Init, TypeOK, PCs
<1>2. LockInv
  BY FacesAssumption DEF Init, LockInv, Walking
<1>3. StoreInv
  BY DEF Init, StoreInv
<1>4. CarriedInv
  <2>1. carried = <<>> /\ Len(carried) = 0 /\ DOMAIN carried = {} /\ known = {}
    BY DEF Init
  <2>2. Log!Rising(carried)
    BY <2>1 DEF Log!Rising
  <2>3. Range(carried) = {}
    BY <2>1, Zenon DEF Range
  <2> QED BY <2>1, <2>2, <2>3 DEF CarriedInv
<1>5. SeenInv /\ PageInv
  BY DEF Init, SeenInv, PageInv, Walking
<1> QED BY <1>1, <1>2, <1>3, <1>4, <1>5 DEF IInv

\* A step that leaves the store, the lock and every walk alone, and moves a
\* face between places outside a walk.
LEMMA OutsideStep ==
  ASSUME IInv, NEW f \in Faces,
         pc[f] \notin Walking, pc' \in [Faces -> PCs],
         \A g \in Faces \ {f} : pc'[g] = pc[g],
         pc'[f] \notin Walking,
         seen' \in [Faces -> Seq(Nat)],
         \A g \in Faces \ {f} : seen'[g] = seen[g],
         UNCHANGED <<store, lock, at, page, more, carried, gaps, crashes>>
  PROVE  IInv'
<1>1. TypeOK'
  BY DEF IInv, TypeOK, store
<1>2. LockInv'
  BY DEF IInv, LockInv
<1>3. StoreInv' /\ CarriedInv'
  BY DEF IInv, StoreInv, CarriedInv, Log!Rising, store
<1>4. SeenInv'
  <2> SUFFICES ASSUME NEW g \in Faces, pc'[g] \in Walking
               PROVE  /\ cursor <= at[g] /\ at[g] <= lastId
                      /\ Log!Rising(seen[g]) /\ seen'[g] = seen[g]
                      /\ Range(seen[g]) = known \cap (cursor + 1)..at[g]
    BY DEF SeenInv, store, Log!Rising
  <2>1. g # f /\ pc[g] \in Walking
    OBVIOUS
  <2> QED BY <2>1 DEF IInv, SeenInv
<1>5. PageInv'
  <2> SUFFICES ASSUME NEW g \in Faces
               PROVE  pc'[g] \in {"observe", "commit"} => pc[g] = pc'[g]
    BY DEF IInv, PageInv, store
  <2> QED BY DEF Walking
<1> QED BY <1>1, <1>2, <1>3, <1>4, <1>5 DEF IInv

LEMMA WriteStep ==
  ASSUME IInv, NEW f \in Faces, Write(f)
  PROVE  IInv'
<1> USE FacesAssumption
<1>0. PICK n \in 1..MaxBatch :
         /\ lastId' = lastId + n
         /\ rows' = rows \cup (lastId + 1)..(lastId + n)
         /\ \E k \in SUBSET ((lastId + 1)..(lastId + n)) : known' = known \cup k
  BY DEF Write
<1>1. PICK k \in SUBSET ((lastId + 1)..(lastId + n)) :
         /\ lastId' = lastId + n
         /\ rows' = rows \cup (lastId + 1)..(lastId + n)
         /\ known' = known \cup k
  BY <1>0
<1>2. n \in Nat /\ n > 0 /\ lastId \in Nat
  BY SizesAssumption DEF IInv, TypeOK
<1>3. \A g \in Faces : pc[g] \notin Walking /\ pc'[g] \notin Walking
  <2>1. \A g \in Faces : pc[g] \notin Walking
    BY DEF Write, IInv, LockInv
  <2> QED BY <2>1 DEF Write, Go, IInv, TypeOK, Walking
<1>4. TypeOK'
  <2>1. 1..lastId \subseteq 1..lastId' /\ lastId' \in Nat
    BY <1>1, <1>2
  <2>2. rows' \subseteq 1..lastId' /\ known' \subseteq 1..lastId'
    BY <1>1, <1>2, <2>1 DEF IInv, TypeOK
  <2>3. pc' \in [Faces -> PCs]
    BY DEF Write, Go, IInv, TypeOK, PCs
  <2>4. page' \in [Faces -> SUBSET (1..lastId')]
    BY <2>1 DEF Write, walk, IInv, TypeOK
  <2> QED BY <2>1, <2>2, <2>3, <2>4 DEF Write, walk, IInv, TypeOK
<1>5. LockInv'
  BY <1>3 DEF Write, LockInv, IInv
<1>6. StoreInv'
  BY <1>1, <1>2 DEF Write, IInv, StoreInv, TypeOK
<1>7. CarriedInv'
  <2>1. known' \cap 1..cursor' = known \cap 1..cursor
    BY <1>1, <1>2 DEF Write, IInv, StoreInv, TypeOK
  <2> QED BY <2>1 DEF Write, IInv, CarriedInv, Log!Rising
<1>8. SeenInv' /\ PageInv'
  BY <1>3 DEF SeenInv, PageInv, Walking
<1> QED BY <1>4, <1>5, <1>6, <1>7, <1>8 DEF IInv

LEMMA BeginWalkStep ==
  ASSUME IInv, NEW f \in Faces, BeginWalk(f)
  PROVE  IInv'
<1> USE FacesAssumption DEF BeginWalk, Go
<1>1. TypeOK'
  BY DEF IInv, TypeOK, PCs, store
<1>2. \A g \in Faces : pc[g] \notin Walking
  BY DEF IInv, LockInv
<1>3. \A g \in Faces : pc'[g] = IF g = f THEN "fetch" ELSE pc[g]
  BY DEF IInv, TypeOK
<1>4. LockInv'
  BY <1>2, <1>3 DEF LockInv, Walking
<1>5. StoreInv' /\ CarriedInv'
  BY DEF IInv, StoreInv, CarriedInv, Log!Rising, store
<1>6. SeenInv'
  <2>1. at'[f] = cursor /\ seen'[f] = <<>>
    BY DEF IInv, TypeOK
  <2>2. Log!Rising(seen'[f]) /\ Range(seen'[f]) = {}
    <3>1. Len(seen'[f]) = 0 /\ DOMAIN seen'[f] = {}
      BY <2>1
    <3>2. Log!Rising(seen'[f])
      BY <3>1 DEF Log!Rising
    <3>3. Range(seen'[f]) = {}
      BY <3>1, Zenon DEF Range
    <3> QED BY <3>2, <3>3
  <2> QED BY <1>2, <1>3, <2>1, <2>2 DEF SeenInv, IInv, StoreInv, TypeOK, store, Walking
<1>7. PageInv'
  BY <1>2, <1>3 DEF PageInv, Walking
<1> QED BY <1>1, <1>4, <1>5, <1>6, <1>7 DEF IInv

LEMMA FetchPageStep ==
  ASSUME IInv, NEW f \in Faces, FetchPage(f)
  PROVE  IInv'
<1> USE FacesAssumption
<1>1. pc[f] = "fetch" /\ f = lock /\ cursor <= at[f] /\ at[f] <= lastId
  BY DEF FetchPage, IInv, LockInv, SeenInv, Walking
<1>2. ~(at[f] < truncated)
  BY <1>1 DEF IInv, StoreInv, TypeOK
<1>3. /\ page' = [page EXCEPT ![f] = PageOf(at[f])]
      /\ more' = [more EXCEPT ![f] = Cardinality(Standing(at[f])) > PAGE]
      /\ pc' = [pc EXCEPT ![f] = "observe"]
      /\ UNCHANGED <<at, seen, gaps, cursor, lock>>
      /\ UNCHANGED <<rows, known, lastId, truncated, carried, crashes>>
  BY <1>2 DEF FetchPage
<1>4. /\ PageOf(at[f]) \subseteq (at[f] + 1)..lastId
      /\ \A r \in PageOf(at[f]) : (at[f] + 1)..r \subseteq PageOf(at[f])
      /\ ~(Cardinality(Standing(at[f])) > PAGE) => PageOf(at[f]) = (at[f] + 1)..lastId
  BY <1>1, PageShape DEF IInv, TypeOK
<1>5. TypeOK'
  <2>1. PageOf(at[f]) \subseteq 1..lastId
    BY <1>4 DEF IInv, TypeOK
  <2> QED BY <1>3, <2>1 DEF IInv, TypeOK, PCs
<1>6. LockInv'
  BY <1>1, <1>3 DEF IInv, LockInv, Walking, TypeOK
<1>7. StoreInv' /\ CarriedInv'
  BY <1>3 DEF IInv, StoreInv, CarriedInv, Log!Rising
<1>8. SeenInv'
  <2> SUFFICES ASSUME NEW g \in Faces, pc'[g] \in Walking
               PROVE  pc[g] \in Walking
    BY <1>3 DEF IInv, SeenInv, Log!Rising
  <2> QED BY <1>1, <1>3 DEF IInv, TypeOK, Walking
<1>9. PageInv'
  <2> SUFFICES ASSUME NEW g \in Faces
               PROVE  /\ pc'[g] = "observe" =>
                            /\ page'[g] \subseteq (at[g] + 1)..lastId
                            /\ \A r \in page'[g] : (at[g] + 1)..r \subseteq page'[g]
                            /\ ~more'[g] => page'[g] = (at[g] + 1)..lastId
                      /\ pc'[g] = "commit" => at[g] = lastId
    BY <1>3 DEF PageInv
  <2>1. CASE g = f
    <3>1. page'[f] = PageOf(at[f]) /\ more'[f] = (Cardinality(Standing(at[f])) > PAGE)
          /\ pc'[f] = "observe"
      BY <1>3 DEF IInv, TypeOK
    <3> QED BY <1>4, <2>1, <3>1
  <2>2. CASE g # f
    BY <1>3, <2>2 DEF IInv, TypeOK, PageInv
  <2> QED BY <2>1, <2>2
<1> QED BY <1>5, <1>6, <1>7, <1>8, <1>9 DEF IInv

LEMMA ObserveStep ==
  ASSUME IInv, NEW f \in Faces, Observe(f)
  PROVE  IInv'
<1> USE FacesAssumption
<1>1. PICK r \in page[f] :
        /\ \A q \in page[f] : r <= q
        /\ at' = [at EXCEPT ![f] = r]
        /\ page' = [page EXCEPT ![f] = @ \ {r}]
        /\ seen' = [seen EXCEPT ![f] = IF r \in known THEN Append(@, r) ELSE @]
  BY DEF Observe
<1>2. /\ pc[f] = "observe"
      /\ UNCHANGED <<store, lock, pc, more, carried, gaps, crashes>>
  BY DEF Observe
<1>3. /\ cursor \in Nat /\ at[f] \in Nat /\ lastId \in Nat /\ cursor <= at[f]
      /\ seen[f] \in Seq(Nat)
      /\ Log!Rising(seen[f]) /\ Range(seen[f]) = known \cap (cursor + 1)..at[f]
      /\ page[f] \subseteq (at[f] + 1)..lastId
      /\ (at[f] + 1)..r \subseteq page[f]
      /\ ~more[f] => page[f] = (at[f] + 1)..lastId
  BY <1>1, <1>2 DEF IInv, TypeOK, SeenInv, PageInv, Walking
<1>4. r = at[f] + 1 /\ r \in Nat /\ r <= lastId
  <2>1. r \in (at[f] + 1)..lastId
    BY <1>1, <1>3
  <2>2. at[f] + 1 \in (at[f] + 1)..r
    BY <1>3, <2>1
  <2> QED BY <1>1, <1>3, <2>1, <2>2
<1>5. /\ Log!Rising(seen'[f])
      /\ Range(seen'[f]) = known \cap (cursor + 1)..r
      /\ seen'[f] \in Seq(Nat)
  <2>1. seen'[f] = IF r \in known THEN Append(seen[f], r) ELSE seen[f]
    BY <1>1 DEF IInv, TypeOK
  <2>2. (cursor + 1)..r = (cursor + 1)..at[f] \cup {r}
    BY <1>3, <1>4
  <2>3. CASE r \in known
    <3>1. \A x \in Range(seen[f]) : x < r
      BY <1>3, <1>4
    <3>2. Log!Rising(Append(seen[f], r)) /\ Range(Append(seen[f], r)) = Range(seen[f]) \cup {r}
      BY <1>3, <1>4, <3>1, RisingAppend
    <3>3. seen'[f] = Append(seen[f], r) /\ Append(seen[f], r) \in Seq(Nat)
      BY <1>3, <1>4, <2>1, <2>3
    <3> QED BY <1>3, <2>2, <2>3, <3>2, <3>3
  <2>4. CASE r \notin known
    BY <1>3, <2>1, <2>2, <2>4
  <2> QED BY <2>3, <2>4
<1>6. TypeOK'
  BY <1>1, <1>2, <1>4, <1>5 DEF IInv, TypeOK, store
<1>7. LockInv' /\ StoreInv' /\ CarriedInv'
  BY <1>2 DEF IInv, LockInv, StoreInv, CarriedInv, Log!Rising, store
<1>8. \A g \in Faces \ {f} : at'[g] = at[g] /\ page'[g] = page[g] /\ seen'[g] = seen[g]
  BY <1>1 DEF IInv, TypeOK
<1>9. SeenInv'
  <2> SUFFICES ASSUME NEW g \in Faces, pc'[g] \in Walking
               PROVE  /\ cursor <= at'[g] /\ at'[g] <= lastId
                      /\ Log!Rising(seen'[g])
                      /\ Range(seen'[g]) = known \cap (cursor + 1)..at'[g]
    BY <1>2 DEF SeenInv, store, Log!Rising
  <2>1. CASE g = f
    <3>1. at'[f] = r
      BY <1>1 DEF IInv, TypeOK
    <3> QED BY <1>3, <1>4, <1>5, <2>1, <3>1
  <2>2. CASE g # f
    BY <1>2, <1>8, <2>2 DEF IInv, SeenInv
  <2> QED BY <2>1, <2>2
<1>10. PageInv'
  <2> SUFFICES ASSUME NEW g \in Faces
               PROVE  /\ pc[g] = "observe" =>
                            /\ page'[g] \subseteq (at'[g] + 1)..lastId
                            /\ \A x \in page'[g] : (at'[g] + 1)..x \subseteq page'[g]
                            /\ ~more[g] => page'[g] = (at'[g] + 1)..lastId
                      /\ pc[g] = "commit" => at'[g] = lastId
    BY <1>2 DEF PageInv, store
  <2>1. CASE g = f
    <3>1. at'[f] = at[f] + 1 /\ page'[f] = page[f] \ {at[f] + 1}
      BY <1>1, <1>4 DEF IInv, TypeOK
    <3>2. \A x \in page[f] : (at[f] + 1)..x \subseteq page[f]
      BY <1>2 DEF IInv, PageInv
    <3>3. page'[f] \subseteq (at'[f] + 1)..lastId
      BY <1>3, <3>1
    <3>4. ASSUME NEW x \in page'[f] PROVE (at'[f] + 1)..x \subseteq page'[f]
      BY <1>3, <3>1, <3>2
    <3>5. ~more[f] => page'[f] = (at'[f] + 1)..lastId
      BY <1>3, <3>1
    <3> QED BY <1>2, <2>1, <3>3, <3>4, <3>5
  <2>2. CASE g # f
    BY <1>8, <2>2 DEF IInv, PageInv
  <2> QED BY <2>1, <2>2
<1> QED BY <1>6, <1>7, <1>9, <1>10 DEF IInv

LEMMA PageDoneStep ==
  ASSUME IInv, NEW f \in Faces, PageDone(f)
  PROVE  IInv'
<1>1. /\ pc[f] = "observe" /\ page[f] = {}
      /\ pc' = [pc EXCEPT ![f] = IF more[f] THEN "fetch" ELSE "commit"]
      /\ UNCHANGED <<rows, known, lastId, cursor, truncated, lock, at, page, more, seen,
                     carried, gaps, crashes>>
  BY DEF PageDone, Go, store, walk
<1>2. ~more[f] => at[f] = lastId
  <2>1. /\ cursor \in Nat /\ at[f] \in Nat /\ lastId \in Nat /\ at[f] <= lastId
        /\ ~more[f] => page[f] = (at[f] + 1)..lastId
    BY <1>1 DEF IInv, TypeOK, SeenInv, PageInv, Walking
  <2>2. at[f] < lastId => lastId \in (at[f] + 1)..lastId
    BY <2>1
  <2> QED BY <1>1, <2>1, <2>2
<1>3. TypeOK'
  BY <1>1 DEF IInv, TypeOK, PCs
<1>4. \A g \in Faces : /\ (pc'[g] \in Walking) <=> (pc[g] \in Walking)
                       /\ g # f => pc'[g] = pc[g]
                       /\ pc'[g] # "observe" \/ g # f
                       /\ pc'[f] = "commit" => ~more[f]
  BY <1>1 DEF IInv, TypeOK, Walking
<1>5. LockInv' /\ StoreInv' /\ CarriedInv' /\ SeenInv'
  BY <1>1, <1>4 DEF IInv, LockInv, StoreInv, CarriedInv, SeenInv, Log!Rising
<1>6. PageInv'
  BY <1>1, <1>2, <1>4 DEF IInv, PageInv
<1> QED BY <1>3, <1>5, <1>6 DEF IInv

\* What a committing walk leaves: the cursor at the last row, no row standing.
LEMMA CommitFacts ==
  ASSUME IInv, NEW f \in Faces, CommitWalk(f)
  PROVE  /\ at[f] = lastId /\ cursor' = lastId /\ rows' = {}
         /\ truncated' = truncated \/ truncated' = lastId
         /\ lock = f /\ lock' = NoFace
         /\ Log!Rising(carried') /\ Range(carried') = known \cap 1..lastId
         /\ carried' \in Seq(Nat)
         /\ Len(carried) <= Len(carried')
         /\ \A i \in 1..Len(carried) : carried'[i] = carried[i]
         /\ cursor = lastId => carried' = carried
<1>1. /\ pc[f] = "commit"
      /\ rows' = {r \in rows : r > at[f]}
      /\ truncated' = IF rows' # rows THEN at[f] ELSE truncated
      /\ cursor' = IF at[f] > cursor THEN at[f] ELSE cursor
      /\ lock' = NoFace
      /\ carried' = carried \o seen[f]
  BY DEF CommitWalk, Go
<1>2. /\ at[f] = lastId /\ lock = f /\ lastId \in Nat /\ cursor \in Nat
      /\ cursor <= lastId /\ rows = (cursor + 1)..lastId
      /\ Log!Rising(seen[f]) /\ Range(seen[f]) = known \cap (cursor + 1)..lastId
      /\ seen[f] \in Seq(Nat) /\ carried \in Seq(Nat)
      /\ Log!Rising(carried) /\ Range(carried) = known \cap 1..cursor
      /\ known \subseteq 1..lastId
  BY <1>1 DEF IInv, TypeOK, LockInv, StoreInv, CarriedInv, SeenInv, PageInv, Walking
<1>3. cursor' = lastId /\ rows' = {}
  BY <1>1, <1>2
<1>4. \A x \in Range(carried), y \in Range(seen[f]) : x < y
  BY <1>2
<1>5. /\ Log!Rising(carried')
      /\ Range(carried') = Range(carried) \cup Range(seen[f])
      /\ Len(carried) <= Len(carried')
      /\ \A i \in 1..Len(carried) : carried'[i] = carried[i]
  BY <1>1, <1>2, <1>4, RisingConcat
<1>6. 1..lastId = 1..cursor \cup (cursor + 1)..lastId
  BY <1>2
<1>7. Range(carried') = known \cap 1..lastId
  BY <1>2, <1>5, <1>6
<1>8. ASSUME cursor = lastId PROVE carried' = carried
  <2>1. Range(seen[f]) = {}
    BY <1>2, <1>8
  <2>2. DOMAIN seen[f] = {}
    BY <2>1, Zenon DEF Range
  <2>3. Len(seen[f]) = 0
    <3>1. Len(seen[f]) \in Nat /\ DOMAIN seen[f] = 1..Len(seen[f])
      BY <1>2
    <3>2. Len(seen[f]) # 0 => 1 \in 1..Len(seen[f])
      BY <3>1
    <3> QED BY <2>2, <3>1, <3>2
  <2>4. seen[f] = <<>>
    BY <1>2, <2>3, EmptySeq
  <2>5. carried \o <<>> = carried
    BY <1>2, ConcatEmptySeq
  <2> QED BY <1>1, <2>4, <2>5
<1> QED BY <1>1, <1>2, <1>3, <1>5, <1>7, <1>8

LEMMA CommitWalkStep ==
  ASSUME IInv, NEW f \in Faces, CommitWalk(f)
  PROVE  IInv'
<1> USE FacesAssumption
<1>1. /\ pc' = [pc EXCEPT ![f] = "hand"]
      /\ UNCHANGED <<known, lastId, at, page, more, seen, gaps, crashes>>
  BY DEF CommitWalk, Go, walk
<1>2. /\ cursor' = lastId /\ rows' = {} /\ lock = f /\ lock' = NoFace
      /\ truncated' = truncated \/ truncated' = lastId
      /\ Log!Rising(carried') /\ Range(carried') = known \cap 1..lastId
      /\ carried' \in Seq(Nat)
  BY CommitFacts
<1>3. TypeOK'
  BY <1>1, <1>2 DEF IInv, TypeOK, PCs
<1>4. \A g \in Faces : pc'[g] \notin Walking
  BY <1>1, <1>2 DEF IInv, TypeOK, LockInv, Walking
<1>5. LockInv'
  BY <1>2, <1>4 DEF LockInv
<1>6. StoreInv'
  BY <1>1, <1>2 DEF IInv, TypeOK, StoreInv
<1>7. CarriedInv'
  BY <1>1, <1>2 DEF CarriedInv, Log!Rising
<1>8. SeenInv' /\ PageInv'
  BY <1>4 DEF SeenInv, PageInv, Walking
<1> QED BY <1>3, <1>5, <1>6, <1>7, <1>8 DEF IInv

LEMMA CrashStep ==
  ASSUME IInv, NEW f \in Faces, Crash(f)
  PROVE  IInv'
<1> USE FacesAssumption
<1>1. /\ pc' = [pc EXCEPT ![f] = "off"]
      /\ lock' = IF lock = f THEN NoFace ELSE lock
      /\ seen' = [seen EXCEPT ![f] = <<>>]
      /\ page' = [page EXCEPT ![f] = {}]
      /\ crashes' = crashes + 1
      /\ UNCHANGED <<rows, known, lastId, cursor, truncated, at, more, carried, gaps>>
  BY DEF Crash, store
<1>2. TypeOK'
  BY <1>1 DEF IInv, TypeOK, PCs
<1>3. \A g \in Faces : /\ g # f => pc'[g] = pc[g] /\ seen'[g] = seen[g] /\ page'[g] = page[g]
                       /\ pc'[f] = "off"
  BY <1>1 DEF IInv, TypeOK
<1>4. LockInv'
  BY <1>1, <1>3 DEF IInv, LockInv, Walking
<1>5. StoreInv' /\ CarriedInv'
  BY <1>1 DEF IInv, StoreInv, CarriedInv, Log!Rising
<1>6. SeenInv'
  <2> SUFFICES ASSUME NEW g \in Faces, pc'[g] \in Walking
               PROVE  g # f
    BY <1>1, <1>3 DEF IInv, SeenInv, Log!Rising
  <2> QED BY <1>3 DEF Walking
<1>7. PageInv'
  BY <1>1, <1>3 DEF IInv, PageInv
<1> QED BY <1>2, <1>4, <1>5, <1>6, <1>7 DEF IInv

LEMMA StepIInv == IInv /\ [Next]_vars => IInv'
<1> SUFFICES ASSUME IInv, [Next]_vars PROVE IInv'
  OBVIOUS
<1>1. CASE UNCHANGED vars
  BY <1>1 DEF vars, IInv, TypeOK, LockInv, StoreInv, CarriedInv, SeenInv, PageInv, Log!Rising
<1>2. ASSUME NEW f \in Faces,
             Start(f) \/ Tick(f) \/ BusyTimeout(f) \/ Quit(f) \/ HandOn(f)
      PROVE  IInv'
  <2>1. /\ pc[f] \notin Walking /\ pc' \in [Faces -> PCs] /\ pc'[f] \notin Walking
        /\ \A g \in Faces \ {f} : pc'[g] = pc[g]
        /\ UNCHANGED <<store, lock, at, page, more, carried, gaps, crashes>>
    BY <1>2 DEF Start, Tick, BusyTimeout, Quit, HandOn, Go, walk, IInv, TypeOK, PCs, Walking
  <2>2. /\ seen' \in [Faces -> Seq(Nat)]
        /\ \A g \in Faces \ {f} : seen'[g] = seen[g]
    <3>1. CASE HandOn(f)
      BY <3>1 DEF HandOn, IInv, TypeOK
    <3>2. CASE ~HandOn(f)
      <4>1. UNCHANGED seen
        BY <1>2, <3>2 DEF Start, Tick, BusyTimeout, Quit, walk
      <4> QED BY <4>1 DEF IInv, TypeOK
    <3> QED BY <3>1, <3>2
  <2> QED BY <2>1, <2>2, OutsideStep
<1>3. CASE \E f \in Faces : Write(f) \/ BeginWalk(f) \/ FetchPage(f) \/ Observe(f)
  BY <1>3, WriteStep, BeginWalkStep, FetchPageStep, ObserveStep
<1>4. CASE \E f \in Faces : PageDone(f) \/ CommitWalk(f) \/ Crash(f)
  BY <1>4, PageDoneStep, CommitWalkStep, CrashStep
<1> QED BY <1>1, <1>2, <1>3, <1>4 DEF Next, WalkStep

\* The inductive invariant holds of every behaviour.
THEOREM Invariance == Spec => []IInv
<1> QED BY InitIInv, StepIInv, PTL DEF Spec

-----------------------------------------------------------------------------
(* What it gives.                                                          *)

\* Every variable keeps its type.
THEOREM TypeCorrect == Spec => []TypeOK
<1> QED BY Invariance, PTL DEF IInv

\* No walk under the lock is ever answered Gap: no event is lost to a resync.
THEOREM NoWalkIsGapped == Spec => []NoGap
<1>1. IInv => NoGap
  BY DEF IInv, StoreInv, NoGap
<1> QED BY <1>1, Invariance, PTL

\* The reclaim and the carrying stay one atom, and no event is carried twice
\* or out of order, whichever faces race and wherever one is killed.
THEOREM NothingLostNothingTwice == Spec => [](ReclaimedIffCarried /\ CarriedOnceInOrder)
<1>1. IInv => ReclaimedIffCarried /\ CarriedOnceInOrder
  BY DEF IInv, StoreInv, CarriedInv, ReclaimedIffCarried, CarriedOnceInOrder
<1> QED BY <1>1, Invariance, PTL

\* The outbox with its faces, pages, trims and crashes is an EventLog.
THEOREM ImplementsEventLog == Spec => RefinesLog
<1>1. Init => Log!Init
  BY DEF Init, Log!Init
<1>2. IInv /\ [Next]_vars => [Log!Next]_(Log!evars)
  <2> SUFFICES ASSUME IInv, [Next]_vars PROVE [Log!Next]_(Log!evars)
    OBVIOUS
  <2>1. CASE \E f \in Faces : Write(f)
    <3>1. PICK f \in Faces : Write(f)
      BY <2>1
    <3>2. PICK n \in 1..MaxBatch :
            /\ lastId' = lastId + n
            /\ \E k \in SUBSET ((lastId + 1)..(lastId + n)) : known' = known \cup k
      BY <3>1 DEF Write
    <3>3. PICK k \in SUBSET ((lastId + 1)..(lastId + n)) : known' = known \cup k
      BY <3>2
    <3>4. n \in Nat /\ n > 0 /\ lastId \in Nat /\ known \subseteq 1..lastId
      BY SizesAssumption DEF IInv, TypeOK
    <3>5. lastId' > lastId /\ known' \cap 1..lastId = known /\ known' \subseteq 1..lastId'
      <4>1. lastId' > lastId /\ lastId' = lastId + n
        BY <3>2, <3>4
      <4>2. \A x \in known : x \in 1..lastId /\ x \in 1..(lastId + n)
        BY <3>4
      <4>3. \A x \in k : x \notin 1..lastId /\ x \in 1..(lastId + n)
        BY <3>4
      <4> QED BY <3>3, <4>1, <4>2, <4>3
    <3>6. UNCHANGED <<cursor, carried>>
      BY <3>1 DEF Write
    <3>7. Log!Fire
      BY <3>5, <3>6 DEF Log!Fire
    <3> QED BY <3>7 DEF Log!Next
  <2>2. CASE \E f \in Faces : CommitWalk(f)
    <3>1. PICK f \in Faces : CommitWalk(f)
      BY <2>2
    <3>2. UNCHANGED <<lastId, known>>
      BY <3>1 DEF CommitWalk
    <3>3. CASE cursor = lastId
      BY <3>1, <3>2, <3>3, CommitFacts DEF Log!evars
    <3>4. CASE cursor # lastId
      <4>1. cursor < lastId
        BY <3>4 DEF IInv, TypeOK, StoreInv
      <4>2. Log!Range(carried') = Range(carried')
        BY Zenon DEF Range, Log!Range
      <4>3. Log!Carry
        BY <3>1, <3>2, <4>1, <4>2, CommitFacts DEF Log!Carry
      <4> QED BY <4>3 DEF Log!Next
    <3> QED BY <3>3, <3>4
  <2>3. CASE \E f \in Faces : FetchPage(f)
    <3>1. PICK f \in Faces : FetchPage(f)
      BY <2>3
    <3>2. ~(at[f] < truncated)
      BY <3>1 DEF FetchPage, IInv, TypeOK, StoreInv, SeenInv, Walking
    <3> QED BY <3>1, <3>2 DEF FetchPage, Log!evars
  <2>4. CASE UNCHANGED vars
    BY <2>4 DEF vars, Log!evars
  <2>5. CASE \E f \in Faces : \/ Start(f) \/ Tick(f) \/ BusyTimeout(f) \/ Quit(f)
                              \/ BeginWalk(f) \/ Observe(f) \/ PageDone(f) \/ HandOn(f)
                              \/ Crash(f)
    BY <2>5 DEF Start, Tick, BusyTimeout, Quit, BeginWalk, Observe, PageDone, HandOn, Crash,
                store, Log!evars
  <2> QED BY <2>1, <2>2, <2>3, <2>4, <2>5 DEF Next, WalkStep
<1> QED BY <1>1, <1>2, Invariance, PTL DEF Spec, RefinesLog, Log!Spec
=============================================================================
