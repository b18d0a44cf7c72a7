--------------------------- MODULE SessionsProofs ---------------------------
(***************************************************************************)
(* Theorems about Sessions, each from an inductive invariant that contains *)
(* the one before it.  First what the operators on lists make: sublists,   *)
(* marked lists, the folds that leave out repeated ids or write rows.      *)
(*                                                                         *)
(* TypedInv (RawsInv, of which VersionInv is that versions are told apart, *)
(* and FactsOK) gives the types. KeyInv adds that a key has one session    *)
(* and that a row belongs to a session in memory (RowsHeld), or a restart  *)
(* could bring another one back. CurrentInv adds that active facts are of  *)
(* the version in the index (ActiveInv) and that a call in flight whose    *)
(* version is current replaces what is current (CallsInv).                 *)
(*                                                                         *)
(* StoredInv, for calls without keys, says what row every active fact has: *)
(* ids are made of the number and the position (IdInv), later calls come   *)
(* with later versions (FreshInv), and no other fact writes the row of an  *)
(* active one (KeptInv).                                                   *)
(*                                                                         *)
(* ApartInv, for numbers that are stored under one key each, says that the *)
(* table of facts is the list of facts, that the rows are those of the     *)
(* sessions (HeldInv), and that every fact has its session (OwnerInv).     *)
(*                                                                         *)
(* 0 is not a number in the last two: the model marks with it the ids an   *)
(* edit makes, which the code makes of a prefix of their own.              *)
(***************************************************************************)
EXTENDS Sessions, InductionLemmas, FiniteSetTheorems, SequenceTheorems, TLAPS

(* The positions of a sublist are those it was asked for, each once.       *)
Numbers(nth, list, I) ==
  /\ nth \in [1..Cardinality(I) -> I]
  /\ Sublist(list, I) = [k \in 1..Cardinality(I) |-> list[nth[k]]]
  /\ \A i \in I : \E k \in 1..Cardinality(I) : nth[k] = i
  /\ \A j, k \in 1..Cardinality(I) : nth[j] = nth[k] => j = k

LEMMA SublistIs ==
  ASSUME NEW list, NEW I \in SUBSET Nat, IsFiniteSet(I)
  PROVE  Cardinality(I) \in Nat /\ \E nth : Numbers(nth, list, I)
<1>. DEFINE upTo(i) == {j \in I : j <= i}
            rank == [i \in I |-> Cardinality(upTo(i))]
            c == Cardinality(I)
            Nth(k) == CHOOSE i \in I : Cardinality(upTo(i)) = k
            nth == [k \in 1..c |-> Nth(k)]
<1>1. c \in Nat /\ IsFiniteSet(1..c) /\ Cardinality(1..c) = c
  <2>1. c \in Nat
    BY FS_CardinalityType
  <2>. HIDE DEF c
  <2>. QED  BY <2>1, FS_Interval
<1>2. ASSUME NEW i \in I
      PROVE  IsFiniteSet(upTo(i)) /\ Cardinality(upTo(i)) \in 1..c
  <2>1. upTo(i) \in SUBSET I /\ i \in upTo(i)
    OBVIOUS
  <2>2. IsFiniteSet(upTo(i)) /\ Cardinality(upTo(i)) <= c
    <3>. HIDE DEF upTo
    <3>. QED  BY <2>1, FS_Subset
  <2>3. Cardinality(upTo(i)) \in Nat /\ Cardinality(upTo(i)) # 0
    <3>. HIDE DEF upTo
    <3>. QED  BY <2>1, <2>2, FS_CardinalityType, FS_EmptySet
  <2>. HIDE DEF upTo, c
  <2>. QED  BY <1>1, <2>2, <2>3
<1>3. rank \in [I -> 1..c]
  <2>. HIDE DEF upTo, c
  <2>. QED  BY <1>2
<1>4. ASSUME NEW i \in I, NEW j \in I, i < j PROVE rank[i] # rank[j]
  <2>1. upTo(i) \in SUBSET upTo(j) /\ j \in upTo(j) /\ j \notin upTo(i)
    <3>1. i \in Nat /\ j \in Nat /\ ~(j <= i) /\ j <= j
      BY <1>4
    <3>2. \A h \in I : h <= i => h <= j
      BY <1>4
    <3>. QED  BY <3>1, <3>2
  <2>2. IsFiniteSet(upTo(j)) /\ rank[i] = Cardinality(upTo(i)) /\ rank[j] = Cardinality(upTo(j))
    BY <1>2
  <2>. HIDE DEF upTo, rank
  <2>. QED  BY <2>1, <2>2, FS_Subset
<1>5. \A i, j \in I : rank[i] = rank[j] => i = j
  <2>. HIDE DEF rank
  <2>. QED  BY <1>4
<1>6. rank \in Injection(I, 1..c)
  <2>. HIDE DEF rank, c
  <2>. QED  BY <1>3, <1>5 DEF Injection, IsInjective
<1>7. rank \in Surjection(I, 1..c)
  <2>. HIDE DEF rank
  <2>. QED  BY <1>1, <1>6, FS_Injection
<1>8. \A k \in 1..c : \E i \in I : rank[i] = k
  <2>. HIDE DEF rank, c
  <2>. QED  BY <1>7 DEF Surjection
<1>9. \A k \in 1..c : \E i \in I : Cardinality(upTo(i)) = k
  <2>. HIDE DEF upTo, c
  <2>. QED  BY <1>8
<1>10. \A k \in 1..c : Nth(k) \in I /\ Cardinality(upTo(Nth(k))) = k
  <2>. HIDE DEF upTo, c
  <2>. QED  BY <1>9
<1>11. nth \in [1..c -> I] /\ \A k \in 1..c : rank[nth[k]] = k
  <2>. HIDE DEF upTo, c, Nth
  <2>. QED  BY <1>10
<1>12. Sublist(list, I) = [k \in 1..c |-> list[nth[k]]]
  <2>1. Sublist(list, I) = [k \in 1..c |-> list[Nth(k)]]
    BY DEF Sublist
  <2>. HIDE DEF c, Nth
  <2>. QED  BY <2>1
<1>13. \A i \in I : \E k \in 1..c : nth[k] = i
  <2>. HIDE DEF rank, c, nth
  <2>. QED  BY <1>3, <1>5, <1>11
<1>14. Numbers(nth, list, I)
  <2>. HIDE DEF rank, nth
  <2>. QED  BY <1>11, <1>12, <1>13 DEF Numbers
<1>. HIDE DEF nth
<1>. QED  BY <1>1, <1>14

(* A list from one with as many elements or fewer.                         *)
LEMMA SublistOf ==
  ASSUME NEW V, NEW list \in Seq(V), NEW I \in SUBSET (DOMAIN list)
  PROVE  LET s == Sublist(list, I)
         IN /\ s \in Seq(V)
            /\ \A k \in DOMAIN s : \E i \in I : s[k] = list[i]
            /\ \A i \in I : \E k \in DOMAIN s : s[k] = list[i]
            /\ \A j, k \in DOMAIN s : j # k => \E h, i \in I : h # i /\ s[j] = list[h] /\ s[k] = list[i]
<1>1. Len(list) \in Nat /\ DOMAIN list = 1..Len(list) /\ \A i \in DOMAIN list : list[i] \in V
  OBVIOUS
<1>2. I \in SUBSET Nat /\ IsFiniteSet(I)
  <2>1. IsFiniteSet(1..Len(list))
    BY <1>1, FS_Interval
  <2>. QED  BY <1>1, <2>1, FS_Subset
<1>. DEFINE c == Cardinality(I)
<1>3. c \in Nat /\ \E nth : Numbers(nth, list, I)
  BY <1>2, SublistIs
<1>4. PICK nth : Numbers(nth, list, I)
  BY <1>3
<1>. HIDE DEF c
<1>5. Sublist(list, I) \in Seq(V) /\ DOMAIN Sublist(list, I) = 1..c
  BY <1>1, <1>3, <1>4 DEF Numbers, c
<1>6. /\ \A k \in 1..c : Sublist(list, I)[k] = list[nth[k]] /\ nth[k] \in I
      /\ \A i \in I : \E k \in 1..c : nth[k] = i
      /\ \A j, k \in 1..c : nth[j] = nth[k] => j = k
  BY <1>4 DEF Numbers, c
<1>. QED  BY <1>5, <1>6
-----------------------------------------------------------------------------
(* What a change of status leaves alone.                                   *)
LEMMA MarkedFacts ==
  ASSUME NEW list \in Seq(FactRecords), NEW S, NEW status \in Statuses
  PROVE  LET new == Marked(list, S, status)
         IN /\ new \in Seq(FactRecords) /\ DOMAIN new = DOMAIN list
            /\ \A i \in DOMAIN list :
                 /\ new[i].id = list[i].id /\ new[i].ver = list[i].ver /\ new[i].art = list[i].art
                 /\ new[i].num = list[i].num /\ new[i].raw = list[i].raw
                 /\ new[i].status = IF list[i] \in S THEN status ELSE list[i].status
<1>. DEFINE new == Marked(list, S, status)
<1>1. \A e \in FactRecords :
        /\ [e EXCEPT !.status = status] \in FactRecords
        /\ LET f == [e EXCEPT !.status = status]
           IN f.id = e.id /\ f.ver = e.ver /\ f.art = e.art /\ f.num = e.num /\ f.raw = e.raw
              /\ f.status = status
  BY DEF FactRecords
<1>2. /\ Len(list) \in Nat /\ DOMAIN list = 1..Len(list) /\ \A i \in DOMAIN list : list[i] \in FactRecords
  OBVIOUS
<1>3. new = [i \in DOMAIN list |->
               IF list[i] \in S THEN [list[i] EXCEPT !.status = status] ELSE list[i]]
  BY DEF Marked
<1>. HIDE DEF new
<1>4. \A i \in DOMAIN list : new[i] \in FactRecords
  BY <1>1, <1>2, <1>3
<1>5. new \in Seq(FactRecords) /\ DOMAIN new = DOMAIN list
  BY <1>2, <1>3, <1>4
<1>6. ASSUME NEW i \in DOMAIN list
      PROVE  /\ new[i].id = list[i].id /\ new[i].ver = list[i].ver /\ new[i].art = list[i].art
             /\ new[i].num = list[i].num /\ new[i].raw = list[i].raw
             /\ new[i].status = IF list[i] \in S THEN status ELSE list[i].status
  <2>1. list[i] \in FactRecords
    BY <1>2
  <2>2. CASE list[i] \in S
    <3>1. new[i] = [list[i] EXCEPT !.status = status]
      BY <1>3, <2>2
    <3>. QED  BY <1>1, <2>1, <2>2, <3>1
  <2>3. CASE list[i] \notin S
    BY <1>3, <2>3
  <2>. QED  BY <2>2, <2>3
<1>. QED  BY <1>5, <1>6 DEF new

LEMMA MarkedRaws ==
  ASSUME NEW list \in Seq(RawRecords), NEW S, NEW status \in Statuses
  PROVE  LET new == Marked(list, S, status)
         IN /\ new \in Seq(RawRecords) /\ DOMAIN new = DOMAIN list
            /\ \A i \in DOMAIN list : new[i].ver = list[i].ver /\ new[i].num = list[i].num
                                      /\ new[i].key = list[i].key /\ new[i].art = list[i].art
<1>. DEFINE new == Marked(list, S, status)
<1>1. \A e \in RawRecords :
        /\ [e EXCEPT !.status = status] \in RawRecords
        /\ LET f == [e EXCEPT !.status = status]
           IN f.ver = e.ver /\ f.num = e.num /\ f.key = e.key /\ f.art = e.art
  BY DEF RawRecords
<1>2. /\ Len(list) \in Nat /\ DOMAIN list = 1..Len(list) /\ \A i \in DOMAIN list : list[i] \in RawRecords
  OBVIOUS
<1>3. new = [i \in DOMAIN list |->
               IF list[i] \in S THEN [list[i] EXCEPT !.status = status] ELSE list[i]]
  BY DEF Marked
<1>. HIDE DEF new
<1>4. \A i \in DOMAIN list : new[i] \in RawRecords
  BY <1>1, <1>2, <1>3
<1>5. new \in Seq(RawRecords) /\ DOMAIN new = DOMAIN list
  BY <1>2, <1>3, <1>4
<1>6. ASSUME NEW i \in DOMAIN list
      PROVE  /\ new[i].ver = list[i].ver /\ new[i].num = list[i].num
             /\ new[i].key = list[i].key /\ new[i].art = list[i].art
  <2>1. list[i] \in RawRecords
    BY <1>2
  <2>2. CASE list[i] \in S
    <3>1. new[i] = [list[i] EXCEPT !.status = status]
      BY <1>3, <2>2
    <3>. QED  BY <1>1, <2>1, <3>1
  <2>3. CASE list[i] \notin S
    BY <1>3, <2>3
  <2>. QED  BY <2>2, <2>3
<1>. QED  BY <1>5, <1>6 DEF new

(* What the searches of lists and tables find.                             *)
LEMMA UpsertedIs ==
  ASSUME NEW table \in Seq(FactRecords), NEW row
  PROVE  \/ /\ \A i \in DOMAIN table : table[i].id # row.id
            /\ Upserted(table, row) = Append(table, row)
         \/ \E i \in DOMAIN table :
              table[i].id = row.id /\ Upserted(table, row) = [table EXCEPT ![i] = row]
<1>. DEFINE I == {i \in 1..Len(table) : table[i].id = row.id}
            place == IF I # {} THEN Min(I) ELSE 0
<1>1. Upserted(table, row) = IF place = 0 THEN Append(table, row) ELSE [table EXCEPT ![place] = row]
  BY DEF Upserted, SelectInSeq
<1>2. DOMAIN table = 1..Len(table) /\ Len(table) \in Nat /\ I \subseteq Nat /\ 0 \notin I
  OBVIOUS
<1>3. I # {} => Min(I) \in I
  <2>. HIDE DEF I
  <2>. QED  BY <1>2, MinIs
<1>4. CASE I = {}
  BY <1>1, <1>2, <1>4
<1>5. CASE I # {}
  <2>1. place \in I /\ place # 0
    BY <1>2, <1>3, <1>5
  <2>2. Upserted(table, row) = [table EXCEPT ![place] = row]
    <3>. HIDE DEF place, I
    <3>. QED  BY <1>1, <2>1
  <2>3. place \in DOMAIN table /\ table[place].id = row.id
    <3>. HIDE DEF place
    <3>. QED  BY <1>2, <2>1
  <2>. HIDE DEF place
  <2>. QED  BY <2>2, <2>3
<1>. QED  BY <1>4, <1>5

LEMMA HolderIs ==
  ASSUME raws \in Seq(RawRecords), NEW call
  PROVE  \/ /\ Holder(call) = 0
            /\ call.key = NoKey \/ \A i \in DOMAIN raws : raws[i].key # call.key
         \/ Holder(call) \in DOMAIN raws /\ call.key # NoKey /\ raws[Holder(call)].key = call.key
<1>. DEFINE I == {i \in 1..Len(raws) : raws[i].key = call.key}
            place == IF I # {} THEN Min(I) ELSE 0
<1>1. Holder(call) = IF call.key = NoKey THEN 0 ELSE place
  BY DEF Holder, SelectInSeq
<1>2. DOMAIN raws = 1..Len(raws) /\ Len(raws) \in Nat /\ I \subseteq Nat
  OBVIOUS
<1>3. I # {} => Min(I) \in I
  <2>. HIDE DEF I
  <2>. QED  BY <1>2, MinIs
<1>4. CASE I = {}
  BY <1>1, <1>2, <1>4
<1>5. CASE I # {}
  <2>1. place \in I
    BY <1>3, <1>5
  <2>2. place \in DOMAIN raws /\ raws[place].key = call.key
    <3>. HIDE DEF place
    <3>. QED  BY <1>2, <2>1
  <2>. HIDE DEF place
  <2>. QED  BY <1>1, <2>2
<1>. QED  BY <1>4, <1>5
-----------------------------------------------------------------------------
(* What the recursions of Distinct and FactRows return, by induction along *)
(* the list.                                                               *)
UniqueIds(list) == \A i, j \in DOMAIN list : list[i].id = list[j].id => i = j

LEMMA UniqueIs ==
  ASSUME NEW list \in Seq(FactRecords)
  PROVE  Unique(list) <=> UniqueIds(list)
<1>. DEFINE N == Len(list)
            T == {list[i].id : i \in DOMAIN list}
            f == [i \in 1..N |-> list[i].id]
<1>1. N \in Nat /\ DOMAIN list = 1..N
  OBVIOUS
<1>2. IsFiniteSet(1..N) /\ Cardinality(1..N) = N
  <2>. HIDE DEF N
  <2>. QED  BY <1>1, FS_Interval
<1>3. f \in Surjection(1..N, T)
  <2>1. f \in [1..N -> T] /\ \A t \in T : \E i \in 1..N : f[i] = t
    BY <1>1
  <2>. HIDE DEF f, T, N
  <2>. QED  BY <2>1 DEF Surjection
<1>4. Cardinality(T) = Cardinality(1..N) <=> f \in Injection(1..N, T)
  <2>. HIDE DEF f, T, N
  <2>. QED  BY <1>2, <1>3, FS_Surjection
<1>5. f \in Injection(1..N, T) <=> UniqueIds(list)
  <2>1. f \in [1..N -> T] /\ \A i \in 1..N : f[i] = list[i].id
    BY <1>1
  <2>. HIDE DEF f, T, N
  <2>. QED  BY <1>1, <2>1 DEF Injection, IsInjective, UniqueIds
<1>6. Unique(list) <=> Cardinality(T) = N
  BY DEF Unique
<1>. HIDE DEF T, N, f
<1>. QED  BY <1>2, <1>4, <1>5, <1>6

WithNext(list, k, before) ==
  Append(before, IF \E j \in DOMAIN before : before[j].id = list[k].id
                 THEN [list[k] EXCEPT !.id = Append(list[k].id, k - 1)]
                 ELSE list[k])

DistinctBy(list, done) ==
  /\ done \in [0..Len(list) -> Seq(FactRecords)]
  /\ done[0] = <<>> /\ done[Len(list)] = Distinct(list)
  /\ \A k \in 1..Len(list) : done[k] = WithNext(list, k, done[k - 1])

LEMMA DistinctSteps ==
  ASSUME NEW list \in Seq(FactRecords)
  PROVE  \E done : DistinctBy(list, done)
<1>. DEFINE N == Len(list)
            V == Seq(FactRecords)
            Next(k, before) == WithNext(list, k, before)
            step == [k \in 1..N |-> [before \in V |-> Next(k, before)]]
            Def(d) == [k \in 0..N |-> IF k = 0 THEN <<>> ELSE Next(k, d[k - 1])]
            done == CHOOSE d : d = Def(d)
<1>1. N \in Nat /\ <<>> \in V
  OBVIOUS
<1>2. ASSUME NEW k \in 1..N, NEW before \in V PROVE Next(k, before) \in V
  <2>1. list[k] \in FactRecords /\ k - 1 \in Nat
    OBVIOUS
  <2>2. Append(list[k].id, k - 1) \in Seq(Nat)
    BY <2>1 DEF FactRecords
  <2>3. [list[k] EXCEPT !.id = Append(list[k].id, k - 1)] \in FactRecords
    <3>1. \A e \in FactRecords, id \in Seq(Nat) : [e EXCEPT !.id = id] \in FactRecords
      BY DEF FactRecords
    <3>. QED  BY <2>1, <2>2, <3>1
  <2>. QED  BY <2>1, <2>3 DEF WithNext
<1>3. \E d : d = Def(d)
  <2>1. step \in [1..N -> [V -> V]]
    <3>. HIDE DEF Next, N, V
    <3>. QED  BY <1>2
  <2>2. PICK d : Recursive(d, N, V, <<>>, step)
    <3>. HIDE DEF step, N, V
    <3>. QED  BY <1>1, <2>1, Recursion
  <2>3. \A k \in 1..N : k - 1 \in 0..N /\ step[k][d[k - 1]] = Next(k, d[k - 1])
    <3>. HIDE DEF Next, V
    <3>. QED  BY <2>2 DEF Recursive
  <2>4. d = Def(d)
    <3>. HIDE DEF step, Next, V
    <3>. QED  BY <1>1, <2>2, <2>3 DEF Recursive
  <2>. QED  BY <2>4
<1>4. done = Def(done)
  <2>. HIDE DEF Def
  <2>. QED  BY <1>3
<1>5. Distinct(list) = done[N]
  BY DEF Distinct, WithNext
<1>. HIDE DEF done
<1>6. done[0] = <<>> /\ \A k \in 1..N : done[k] = Next(k, done[k - 1])
  <2>. HIDE DEF Next
  <2>. QED  BY <1>1, <1>4
<1>7. \A k \in 0..N : done[k] \in V
  <2>. DEFINE S == {k \in 0..N : done[k] \in V}
  <2>1. 0 \in S
    <3>. HIDE DEF Next, V
    <3>. QED  BY <1>1, <1>6
  <2>2. ASSUME NEW k \in 0..N, k \in S, k < N PROVE k + 1 \in S
    <3>1. k + 1 \in 1..N /\ (k + 1) - 1 = k
      BY <1>1, <2>2
    <3>. HIDE DEF Next, V
    <3>. QED  BY <1>2, <1>6, <2>2, <3>1
  <2>3. 0..N \subseteq S
    <3>. HIDE DEF S
    <3>. QED  BY <1>1, <2>1, <2>2, SetInductionTo
  <2>. QED  BY <2>3
<1>8. done \in [0..N -> V]
  <2>1. DOMAIN done = 0..N /\ done = [k \in DOMAIN done |-> done[k]]
    <3>. HIDE DEF Next
    <3>. QED  BY <1>4
  <2>. HIDE DEF V
  <2>. QED  BY <1>7, <2>1
<1>9. DistinctBy(list, done)
  <2>. HIDE DEF Next
  <2>. QED  BY <1>5, <1>6, <1>8 DEF DistinctBy, Next
<1>. QED  BY <1>9

LEMMA DistinctIs ==
  ASSUME NEW list \in Seq(FactRecords)
  PROVE  Distinct(list) \in Seq(FactRecords) /\ (list = <<>> => Distinct(list) = <<>>)
<1>1. PICK done : DistinctBy(list, done)
  BY DistinctSteps
<1>2. Len(list) \in 0..Len(list) /\ (list = <<>> => Len(list) = 0)
  OBVIOUS
<1>. QED  BY <1>1, <1>2 DEF DistinctBy

Tables == {t \in Seq(FactRecords) : UniqueIds(t)}

LEMMA UpsertedKeeps ==
  ASSUME NEW table \in Tables, NEW row \in FactRecords
  PROVE  Upserted(table, row) \in Tables
<1>1. table \in Seq(FactRecords) /\ UniqueIds(table) /\ Len(table) \in Nat
      /\ DOMAIN table = 1..Len(table)
  BY DEF Tables
<1>2. CASE /\ \A i \in DOMAIN table : table[i].id # row.id
           /\ Upserted(table, row) = Append(table, row)
  <2>1. /\ Append(table, row) \in Seq(FactRecords) /\ DOMAIN Append(table, row) = 1..Len(table) + 1
        /\ \A i \in 1..Len(table) : Append(table, row)[i] = table[i]
        /\ Append(table, row)[Len(table) + 1] = row
    BY <1>1
  <2>2. UniqueIds(Append(table, row))
    BY <1>1, <1>2, <2>1 DEF UniqueIds
  <2>. QED  BY <1>2, <2>1, <2>2 DEF Tables
<1>3. CASE \E i \in DOMAIN table :
             table[i].id = row.id /\ Upserted(table, row) = [table EXCEPT ![i] = row]
  <2>1. PICK i \in DOMAIN table :
               table[i].id = row.id /\ Upserted(table, row) = [table EXCEPT ![i] = row]
    BY <1>3
  <2>. DEFINE new == [table EXCEPT ![i] = row]
  <2>2. new \in Seq(FactRecords) /\ DOMAIN new = DOMAIN table
        /\ \A j \in DOMAIN table : new[j] = IF j = i THEN row ELSE table[j]
    BY <1>1
  <2>3. \A j \in DOMAIN table : new[j].id = table[j].id
    <3>. HIDE DEF new
    <3>. QED  BY <2>1, <2>2
  <2>4. UniqueIds(new)
    <3>. HIDE DEF new
    <3>. QED  BY <1>1, <2>2, <2>3 DEF UniqueIds
  <2>. QED  BY <2>1, <2>2, <2>4 DEF Tables
<1>. QED  BY <1>1, <1>2, <1>3, UpsertedIs

FactRowsBy(table, list, done) ==
  /\ done \in [0..Len(Distinct(list)) -> Tables]
  /\ done[0] = table /\ done[Len(Distinct(list))] = FactRows(table, list)
  /\ \A k \in 1..Len(Distinct(list)) : done[k] = Upserted(done[k - 1], Distinct(list)[k])

LEMMA FactRowsSteps ==
  ASSUME NEW table \in Tables, NEW list \in Seq(FactRecords)
  PROVE  \E done : FactRowsBy(table, list, done)
<1>. DEFINE new == Distinct(list)
            N == Len(new)
            step == [k \in 1..N |-> [t \in Tables |-> Upserted(t, new[k])]]
            Def(d) == [k \in 0..N |-> IF k = 0 THEN table ELSE Upserted(d[k - 1], new[k])]
            done == CHOOSE d : d = Def(d)
<1>1. N \in Nat /\ \A k \in 1..N : new[k] \in FactRecords
  <2>1. new \in Seq(FactRecords)
    BY DistinctIs
  <2>. HIDE DEF new
  <2>. QED  BY <2>1
<1>. HIDE DEF new
<1>2. ASSUME NEW k \in 1..N, NEW t \in Tables PROVE Upserted(t, new[k]) \in Tables
  BY <1>1, UpsertedKeeps
<1>3. \E d : d = Def(d)
  <2>1. step \in [1..N -> [Tables -> Tables]]
    <3>. HIDE DEF N
    <3>. QED  BY <1>2
  <2>2. PICK d : Recursive(d, N, Tables, table, step)
    <3>. HIDE DEF step, N
    <3>. QED  BY <1>1, <2>1, Recursion
  <2>3. \A k \in 1..N : k - 1 \in 0..N /\ step[k][d[k - 1]] = Upserted(d[k - 1], new[k])
    BY <2>2 DEF Recursive
  <2>4. d = Def(d)
    <3>. HIDE DEF step
    <3>. QED  BY <1>1, <2>2, <2>3 DEF Recursive
  <2>. QED  BY <2>4
<1>4. done = Def(done)
  <2>. HIDE DEF Def
  <2>. QED  BY <1>3
<1>5. FactRows(table, list) = done[N]
  BY DEF FactRows, new
<1>. HIDE DEF done, N
<1>6. done[0] = table /\ \A k \in 1..N : done[k] = Upserted(done[k - 1], new[k])
  BY <1>1, <1>4
<1>7. \A k \in 0..N : done[k] \in Tables
  <2>. DEFINE S == {k \in 0..N : done[k] \in Tables}
  <2>1. 0 \in S
    BY <1>1, <1>6
  <2>2. ASSUME NEW k \in 0..N, k \in S, k < N PROVE k + 1 \in S
    <3>1. k + 1 \in 1..N /\ (k + 1) - 1 = k
      BY <1>1, <2>2
    <3>. QED  BY <1>2, <1>6, <2>2, <3>1
  <2>3. 0..N \subseteq S
    <3>. HIDE DEF S
    <3>. QED  BY <1>1, <2>1, <2>2, SetInductionTo
  <2>. QED  BY <2>3
<1>8. done \in [0..N -> Tables]
  <2>1. DOMAIN done = 0..N /\ done = [k \in DOMAIN done |-> done[k]]
    BY <1>4
  <2>. QED  BY <1>7, <2>1
<1>. QED  BY <1>5, <1>6, <1>8 DEF FactRowsBy, N, new

LEMMA FactRowsIs ==
  ASSUME NEW table \in Tables, NEW list \in Seq(FactRecords)
  PROVE  FactRows(table, list) \in Tables
<1>1. PICK done : FactRowsBy(table, list, done)
  BY FactRowsSteps
<1>2. Len(Distinct(list)) \in 0..Len(Distinct(list))
  <2>1. Distinct(list) \in Seq(FactRecords)
    BY DistinctIs
  <2>. QED  BY <2>1
<1>. QED  BY <1>1, <1>2 DEF FactRowsBy

LEMMA WrittenIs ==
  ASSUME NEW table \in Tables, NEW ids, NEW list \in Seq(FactRecords)
  PROVE  Written(table, ids, list) \in Tables
<1>. DEFINE I == {i \in DOMAIN table : table[i].id \notin ids}
            kept == Deleted(table, ids)
<1>1. table \in Seq(FactRecords) /\ UniqueIds(table)
  BY DEF Tables
<1>2. kept = Sublist(table, I) /\ I \in SUBSET (DOMAIN table)
  BY DEF Deleted
<1>. HIDE DEF I, kept
<1>3. /\ kept \in Seq(FactRecords)
      /\ \A j, k \in DOMAIN kept : j # k => \E h, i \in I : h # i /\ kept[j] = table[h] /\ kept[k] = table[i]
  BY <1>1, <1>2, SublistOf
<1>4. UniqueIds(kept)
  BY <1>1, <1>2, <1>3 DEF UniqueIds
<1>. QED  BY <1>3, <1>4, FactRowsIs DEF Written, Tables, kept

(* A row of a snapshot is a session of its number.                         *)
LEMMA RawSnapshotIs ==
  ASSUME NEW list \in Seq(RawRecords), NEW n \in Nums
  PROVE  RawSnapshot(list)[n] = None \/ \E i \in DOMAIN list :
           RawSnapshot(list)[n] = list[i] /\ list[i].num = n
<1>. DEFINE I == {i \in DOMAIN list : list[i].num = n}
            best == {i \in I : \A j \in I : Rank(list[j].status) <= Rank(list[i].status)}
            ranks == {Rank(list[i].status) : i \in I}
<1>1. RawSnapshot(list)[n] = IF I = {} THEN None ELSE list[Max(best)]
  BY DEF RawSnapshot
<1>2. Len(list) \in Nat /\ DOMAIN list = 1..Len(list) /\ I \subseteq 0..Len(list)
  OBVIOUS
<1>3. CASE I = {}
  BY <1>1, <1>3
<1>4. CASE I # {}
  <2>1. \A status : Rank(status) \in 0..3
    BY DEF Rank
  <2>2. ranks \in SUBSET (0..3) /\ ranks # {}
    <3>. HIDE DEF I
    <3>. QED  BY <1>4, <2>1
  <2>3. PICK r \in ranks : \A s \in ranks : r >= s
    <3>. HIDE DEF ranks
    <3>. QED  BY <2>2, GreatestNatural
  <2>4. best # {}
    <3>. HIDE DEF I
    <3>. QED  BY <2>1, <2>3
  <2>5. Max(best) \in best
    <3>1. best \in SUBSET (0..Len(list))
      BY <1>2
    <3>. HIDE DEF best
    <3>. QED  BY <1>2, <2>4, <3>1, MaxIs
  <2>6. Max(best) \in DOMAIN list /\ list[Max(best)].num = n
    <3>1. \A i \in best : i \in DOMAIN list /\ list[i].num = n
      OBVIOUS
    <3>. HIDE DEF best
    <3>. QED  BY <2>5, <3>1
  <2>. HIDE DEF best, I
  <2>. QED  BY <1>1, <1>4, <2>6
<1>. QED  BY <1>3, <1>4
-----------------------------------------------------------------------------
(* The sessions and their rows.  No two have a version in common, because  *)
(* a version that a call in flight has is nobody else's.                   *)
RawsOK ==
  /\ raws \in Seq(RawRecords)
  /\ rows \in [Nums -> {None} \cup RawRecords]
  /\ calls \in [Calls -> {NoCall} \cup CallRecords]
  /\ last \in 0..MaxVersions

VersionInv ==
  /\ \A i \in DOMAIN raws : raws[i].ver <= last
  /\ \A i, j \in DOMAIN raws : raws[i].ver = raws[j].ver => i = j
  /\ \A n \in Nums : rows[n] # None => rows[n].ver <= last /\ rows[n].num = n
  /\ \A m, n \in Nums : rows[m] # None /\ rows[n] # None /\ rows[m].ver = rows[n].ver => m = n
  /\ \A c \in Calls : InFlight(c) =>
       /\ calls[c].ver <= last
       /\ \A i \in DOMAIN raws : raws[i].ver # calls[c].ver
       /\ \A n \in Nums : rows[n] # None => rows[n].ver # calls[c].ver
       /\ \A d \in Calls : InFlight(d) /\ calls[d].ver = calls[c].ver => d = c

RawsInv == RawsOK /\ VersionInv

(* A list of sessions that were in memory before, each once.               *)
FromRaws(list) ==
  /\ list \in Seq(RawRecords)
  /\ \A i \in DOMAIN list : \E j \in DOMAIN raws :
       list[i].ver = raws[j].ver /\ list[i].num = raws[j].num /\ list[i].key = raws[j].key
  /\ \A i, j \in DOMAIN list : list[i].ver = list[j].ver => i = j

LEMMA NoneIs == None.ver = 0 /\ None \notin RawRecords
<1>1. None.ver = 0
  BY DEF None
<1>2. \A r \in RawRecords : r.ver # 0
  BY DEF RawRecords, Versions
<1>. QED  BY <1>1, <1>2

LEMMA CallIs ==
  ASSUME RawsOK, NEW c \in Calls
  PROVE  /\ InFlight(c) <=> calls[c] \in CallRecords
         /\ calls[c].phase \in {"lock", "extract"} => InFlight(c)
         /\ InFlight(c) => /\ calls[c].ver \in Versions /\ calls[c].num \in Nums /\ calls[c].key \in Keys
                           /\ calls[c].art \in Versions /\ calls[c].phase \in {"lock", "extract"}
<1>1. NoCall.phase = "idle"
  BY DEF NoCall
<1>2. \A k \in CallRecords : /\ k.phase \in {"lock", "extract"} /\ k.ver \in Versions
                             /\ k.num \in Nums /\ k.key \in Keys /\ k.art \in Versions
  BY DEF CallRecords
<1>3. calls[c] = NoCall \/ calls[c] \in CallRecords
  BY DEF RawsOK
<1>. QED  BY <1>1, <1>2, <1>3 DEF InFlight

LEMMA RawIs ==
  ASSUME RawsOK, NEW c \in Calls, InFlight(c), NEW status \in Statuses,
         NEW raw, raw = RawOf(calls[c], status)
  PROVE  raw \in RawRecords /\ raw.ver = calls[c].ver /\ raw.num = calls[c].num
         /\ raw.key = calls[c].key
BY CallIs DEF RawOf, RawRecords

(* A call enters its session and ends.                                     *)
LEMMA Entered ==
  ASSUME RawsInv, NEW c \in Calls, InFlight(c), NEW list, FromRaws(list),
         NEW raw \in RawRecords, raw.ver = calls[c].ver, raw.num = calls[c].num,
         NEW others \in [Nums -> {None} \cup RawRecords],
         \A n \in Nums : others[n] = rows[n] \/ others[n] = None,
         raws' = Append(list, raw), rows' = [others EXCEPT ![raw.num] = raw],
         calls' = [calls EXCEPT ![c] = NoCall], last' = last
  PROVE  RawsInv'
<1>. USE DEF RawsInv
<1>1. raw.num \in Nums /\ Len(list) \in Nat /\ DOMAIN list = 1..Len(list)
  BY DEF RawRecords, FromRaws
<1>2. /\ raws' \in Seq(RawRecords) /\ DOMAIN raws' = 1..Len(list) + 1
      /\ \A i \in 1..Len(list) : raws'[i] = list[i]
      /\ raws'[Len(list) + 1] = raw
  BY <1>1 DEF FromRaws
<1>3. /\ rows' \in [Nums -> {None} \cup RawRecords]
      /\ \A n \in Nums : rows'[n] = IF n = raw.num THEN raw ELSE others[n]
  BY <1>1
<1>4. /\ calls' \in [Calls -> {NoCall} \cup CallRecords]
      /\ \A d \in Calls : (InFlight(d))' <=> InFlight(d) /\ d # c
      /\ \A d \in Calls : (InFlight(d))' => calls'[d] = calls[d]
  BY DEF RawsOK, InFlight
<1>5. RawsOK'
  BY <1>2, <1>3, <1>4 DEF RawsOK
<1>6. \A i \in DOMAIN raws' : raws'[i] = raw \/ \E j \in DOMAIN raws : raws'[i].ver = raws[j].ver
  BY <1>1, <1>2 DEF FromRaws
<1>7. \A j \in DOMAIN raws : raws[j].ver # raw.ver
  BY DEF VersionInv
<1>8. \A i, j \in DOMAIN raws' : raws'[i].ver = raws'[j].ver => i = j
  BY <1>1, <1>2, <1>7 DEF FromRaws
<1>9. \A n \in Nums : rows'[n] # None => \/ n = raw.num /\ rows'[n] = raw
                                         \/ rows'[n] = rows[n] /\ rows[n] # None
  BY <1>3
<1>10. \A n \in Nums : rows[n] # None => rows[n].ver # raw.ver
  BY DEF VersionInv
<1>11. \A m, n \in Nums : rows'[m] # None /\ rows'[n] # None /\ rows'[m].ver = rows'[n].ver => m = n
  BY <1>9, <1>10 DEF VersionInv
<1>12. raw.ver <= last
  BY DEF VersionInv
<1>13. \A n \in Nums : rows'[n] # None => rows'[n].ver <= last' /\ rows'[n].num = n
  BY <1>9, <1>12 DEF VersionInv
<1>14. \A i \in DOMAIN raws' : raws'[i].ver <= last'
  BY <1>6, <1>12 DEF VersionInv
<1>15. ASSUME NEW d \in Calls, (InFlight(d))'
       PROVE  /\ calls'[d].ver <= last'
              /\ \A i \in DOMAIN raws' : raws'[i].ver # calls'[d].ver
              /\ \A n \in Nums : rows'[n] # None => rows'[n].ver # calls'[d].ver
              /\ \A e \in Calls : (InFlight(e))' /\ calls'[e].ver = calls'[d].ver => e = d
  <2>1. d # c /\ InFlight(d) /\ calls'[d] = calls[d] /\ calls[d].ver # raw.ver
    BY <1>4, <1>15 DEF VersionInv
  <2>2. calls'[d].ver <= last'
    BY <2>1 DEF VersionInv
  <2>3. \A i \in DOMAIN raws' : raws'[i].ver # calls'[d].ver
    BY <1>6, <2>1 DEF VersionInv
  <2>4. \A n \in Nums : rows'[n] # None => rows'[n].ver # calls'[d].ver
    BY <1>9, <2>1 DEF VersionInv
  <2>5. \A e \in Calls : (InFlight(e))' /\ calls'[e].ver = calls'[d].ver => e = d
    BY <1>4, <2>1 DEF VersionInv
  <2>. QED  BY <2>2, <2>3, <2>4, <2>5
<1>16. VersionInv'
  BY <1>8, <1>11, <1>13, <1>14, <1>15 DEF VersionInv
<1>. QED  BY <1>5, <1>16
(* An operation of the lifecycle leaves sessions that were there, and its  *)
(* snapshot a row of each number, if it succeeds.                          *)
LEMMA Withdrawn ==
  ASSUME RawsInv, FromRaws(raws'), rows' = RawSnapshot(raws') \/ rows' = rows,
         calls' = calls, last' \in last..MaxVersions
  PROVE  RawsInv'
<1>. USE DEF RawsInv
<1>1. \A i \in DOMAIN raws' : \E j \in DOMAIN raws : raws'[i].ver = raws[j].ver
  BY DEF FromRaws
<1>2. \A i, j \in DOMAIN raws' : raws'[i].ver = raws'[j].ver => i = j
  BY DEF FromRaws
<1>3. raws' \in Seq(RawRecords) /\ Len(raws') \in Nat /\ DOMAIN raws' = 1..Len(raws')
      /\ \A i \in DOMAIN raws' : raws'[i] \in RawRecords
  BY DEF FromRaws
<1>4. last \in Nat /\ last' \in Nat /\ last <= last' /\ last' <= MaxVersions
  BY SessionAssumption DEF RawsOK
<1>5. \A c \in Calls : (InFlight(c))' <=> InFlight(c)
  BY DEF InFlight
<1>6. \A c \in Calls : InFlight(c) => calls[c].ver \in Nat
  BY CallIs DEF Versions
<1>7. \A i \in DOMAIN raws : raws[i].ver \in Nat
  <2>1. \A r \in RawRecords : r.ver \in Nat
    BY DEF RawRecords, Versions
  <2>2. \A i \in DOMAIN raws : raws[i] \in RawRecords
    BY DEF RawsOK
  <2>. QED  BY <2>1, <2>2
<1>8. CASE rows' = RawSnapshot(raws')
  <2>1. \A n \in Nums : rows'[n] = None \/ \E i \in DOMAIN raws' :
          rows'[n] = raws'[i] /\ raws'[i].num = n
    BY <1>3, <1>8, RawSnapshotIs
  <2>2. rows' \in [Nums -> {None} \cup RawRecords]
    <3>1. rows' = [n \in Nums |-> rows'[n]]
      BY <1>8 DEF RawSnapshot
    <3>2. \A n \in Nums : rows'[n] \in {None} \cup RawRecords
      BY <1>3, <2>1
    <3>. QED  BY <3>1, <3>2
  <2>3. RawsOK'
    BY <1>3, <1>4, <2>2 DEF RawsOK
  <2>4. \A n \in Nums : rows'[n] # None => \E j \in DOMAIN raws :
          rows'[n].ver = raws[j].ver /\ rows'[n].num = n
    BY <1>1, <2>1
  <2>5. \A m, n \in Nums : rows'[m] # None /\ rows'[n] # None /\ rows'[m].ver = rows'[n].ver => m = n
    BY <1>2, <2>1
  <2>6. \A i \in DOMAIN raws' : raws'[i].ver <= last'
    BY <1>1, <1>4, <1>7 DEF VersionInv
  <2>7. \A n \in Nums : rows'[n] # None => rows'[n].ver <= last' /\ rows'[n].num = n
    BY <1>4, <1>7, <2>4 DEF VersionInv
  <2>8. ASSUME NEW c \in Calls, (InFlight(c))'
        PROVE  /\ calls'[c].ver <= last'
               /\ \A i \in DOMAIN raws' : raws'[i].ver # calls'[c].ver
               /\ \A n \in Nums : rows'[n] # None => rows'[n].ver # calls'[c].ver
               /\ \A d \in Calls : (InFlight(d))' /\ calls'[d].ver = calls'[c].ver => d = c
    <3>1. InFlight(c) /\ calls'[c].ver = calls[c].ver /\ calls[c].ver \in Nat
      BY <1>5, <1>6, <2>8
    <3>2. calls'[c].ver <= last'
      BY <1>4, <3>1 DEF VersionInv
    <3>3. \A j \in DOMAIN raws : raws[j].ver # calls'[c].ver
      BY <3>1 DEF VersionInv
    <3>4. \A d \in Calls : (InFlight(d))' /\ calls'[d].ver = calls'[c].ver => d = c
      BY <1>5, <3>1 DEF VersionInv
    <3>. QED  BY <1>1, <2>4, <3>2, <3>3, <3>4
  <2>9. VersionInv'
    BY <1>2, <2>5, <2>6, <2>7, <2>8 DEF VersionInv
  <2>. QED  BY <2>3, <2>9
<1>9. CASE rows' = rows
  <2>1. RawsOK'
    BY <1>3, <1>4, <1>9 DEF RawsOK
  <2>2. \A i \in DOMAIN raws' : raws'[i].ver <= last'
    BY <1>1, <1>4, <1>7 DEF VersionInv
  <2>3. \A n \in Nums : rows'[n] # None => rows'[n].ver <= last' /\ rows'[n].num = n
    <3>1. \A n \in Nums : rows[n] # None => rows[n].ver \in Nat
      BY DEF RawsOK, RawRecords, Versions
    <3>. QED  BY <1>4, <1>9, <3>1 DEF VersionInv
  <2>4. ASSUME NEW c \in Calls, (InFlight(c))'
        PROVE  /\ calls'[c].ver <= last'
               /\ \A i \in DOMAIN raws' : raws'[i].ver # calls'[c].ver
               /\ \A n \in Nums : rows'[n] # None => rows'[n].ver # calls'[c].ver
               /\ \A d \in Calls : (InFlight(d))' /\ calls'[d].ver = calls'[c].ver => d = c
    <3>1. InFlight(c) /\ calls'[c].ver = calls[c].ver /\ calls[c].ver \in Nat
      BY <1>5, <1>6, <2>4
    <3>2. calls'[c].ver <= last'
      BY <1>4, <3>1 DEF VersionInv
    <3>3. \A j \in DOMAIN raws : raws[j].ver # calls'[c].ver
      BY <3>1 DEF VersionInv
    <3>4. \A d \in Calls : (InFlight(d))' /\ calls'[d].ver = calls'[c].ver => d = c
      BY <1>5, <3>1 DEF VersionInv
    <3>5. \A n \in Nums : rows'[n] # None => rows'[n].ver # calls'[c].ver
      BY <1>9, <3>1 DEF VersionInv
    <3>. QED  BY <1>1, <3>2, <3>3, <3>4, <3>5
  <2>5. VersionInv'
    BY <1>2, <1>9, <2>2, <2>3, <2>4 DEF VersionInv
  <2>. QED  BY <2>1, <2>5
<1>. QED  BY <1>8, <1>9

(* The lists that are left are lists of sessions that were there. *)
LEMMA FromMarked ==
  ASSUME RawsInv, NEW S, NEW status \in Statuses, NEW list, FromRaws(list)
  PROVE  FromRaws(Marked(list, S, status))
BY MarkedRaws DEF FromRaws

LEMMA FromSublist ==
  ASSUME RawsInv, NEW I \in SUBSET (DOMAIN raws)
  PROVE  FromRaws(Sublist(raws, I))
<1>. DEFINE list == Sublist(raws, I)
<1>1. /\ list \in Seq(RawRecords)
      /\ \A k \in DOMAIN list : \E i \in I : list[k] = raws[i]
      /\ \A j, k \in DOMAIN list : j # k => \E h, i \in I : h # i /\ list[j] = raws[h] /\ list[k] = raws[i]
  BY SublistOf DEF RawsInv, RawsOK
<1>. HIDE DEF list
<1>2. \A i, j \in DOMAIN list : list[i].ver = list[j].ver => i = j
  BY <1>1 DEF RawsInv, VersionInv
<1>3. FromRaws(list)
  BY <1>1, <1>2 DEF FromRaws
<1>. QED  BY <1>3 DEF list

LEMMA FromSame == RawsInv => FromRaws(raws)
BY DEF RawsInv, RawsOK, VersionInv, FromRaws
(* The facts, their table, and the index of the versions. *)
FactsOK ==
  /\ facts \in Seq(FactRecords)
  /\ saved \in Tables
  /\ current \in [Nums -> {None} \cup [art : Versions, ver : Versions]]

FromFacts(list) ==
  /\ list \in Seq(FactRecords)
  /\ \A i \in DOMAIN list : \E j \in DOMAIN facts : list[i] = facts[j]

(* A row of a session that has a key is that of a session in memory.       *)
RowIsHeld(n) ==
  rows[n] # None /\ rows[n].key # NoKey =>
    \E i \in DOMAIN raws : raws[i].ver = rows[n].ver /\ raws[i].key = rows[n].key /\ raws[i].num = n

LEMMA FactsOf ==
  ASSUME FactsOK, NEW I \in SUBSET (DOMAIN facts)
  PROVE  FromFacts(Sublist(facts, I))
<1>. DEFINE list == Sublist(facts, I)
<1>1. /\ list \in Seq(FactRecords)
      /\ \A k \in DOMAIN list : \E i \in I : list[k] = facts[i]
  BY SublistOf DEF FactsOK
<1>. HIDE DEF list
<1>2. FromFacts(list)
  BY <1>1 DEF FromFacts
<1>. QED  BY <1>2 DEF list

(* What a call that replaces the session of its key leaves.                *)
LEMMA KeptIs ==
  ASSUME RawsInv, FactsOK, NEW c \in Calls, InFlight(c), NEW call, call = calls[c]
  PROVE  LET kept == Kept(call)
         IN /\ FromRaws(kept.raws) /\ FromFacts(kept.facts)
            /\ kept.rows \in [Nums -> {None} \cup RawRecords]
            /\ \A n \in Nums : kept.rows[n] = rows[n] \/ kept.rows[n] = None
            /\ OnePerKey /\ call.key # NoKey => \A i \in DOMAIN kept.raws : kept.raws[i].key # call.key
            /\ \A n \in Nums : n # call.num /\ kept.rows[n] # None /\ kept.rows[n].key # NoKey
                                 /\ RowIsHeld(n) =>
                 \E i \in DOMAIN kept.raws : kept.raws[i].ver = kept.rows[n].ver
                   /\ kept.raws[i].key = kept.rows[n].key /\ kept.raws[i].num = n
<1>. DEFINE h == Holder(call)
            kept == Kept(call)
            stale == {j \in DOMAIN facts : facts[j].raw = raws[h].ver}
<1>1. rows \in [Nums -> {None} \cup RawRecords] /\ raws \in Seq(RawRecords)
  BY DEF RawsInv, RawsOK
<1>2. CASE h = 0
  <2>1. kept.raws = raws /\ kept.facts = facts /\ kept.rows = rows
    BY <1>2 DEF Kept
  <2>2. call.key = NoKey \/ \A i \in DOMAIN raws : raws[i].key # call.key
    BY <1>1, <1>2, HolderIs
  <2>3. FromFacts(facts)
    BY DEF FromFacts, FactsOK
  <2>. HIDE DEF kept, h
  <2>4. \A n \in Nums : n # call.num /\ kept.rows[n] # None /\ kept.rows[n].key # NoKey
                          /\ RowIsHeld(n) =>
          \E i \in DOMAIN kept.raws : kept.raws[i].ver = kept.rows[n].ver
            /\ kept.raws[i].key = kept.rows[n].key /\ kept.raws[i].num = n
    BY <2>1 DEF RowIsHeld
  <2>5. FromRaws(kept.raws)
    BY <2>1, FromSame
  <2>. QED  BY <1>1, <2>1, <2>2, <2>3, <2>4, <2>5 DEF kept
<1>3. CASE h # 0
  <2>1. h \in DOMAIN raws /\ call.key # NoKey /\ raws[h].key = call.key
    BY <1>1, <1>3, HolderIs
  <2>2. /\ kept.raws = Sublist(raws, DOMAIN raws \ {h})
        /\ kept.facts = Sublist(facts, DOMAIN facts \ stale)
        /\ kept.rows = [rows EXCEPT ![raws[h].num] = IF raws[h].num = call.num THEN @ ELSE None]
    BY <1>3 DEF Kept
  <2>. HIDE DEF kept, h
  <2>3. FromRaws(kept.raws) /\ FromFacts(kept.facts)
    BY <2>2, FromSublist, FactsOf
  <2>4. /\ kept.rows \in [Nums -> {None} \cup RawRecords]
        /\ \A n \in Nums : kept.rows[n] = IF n = raws[h].num /\ n # call.num THEN None ELSE rows[n]
    BY <1>1, <2>2
  <2>5. /\ \A k \in DOMAIN kept.raws : \E i \in DOMAIN raws \ {h} : kept.raws[k] = raws[i]
        /\ \A i \in DOMAIN raws \ {h} : \E k \in DOMAIN kept.raws : kept.raws[k] = raws[i]
    <3>. DEFINE I == DOMAIN raws \ {h}
    <3>1. I \in SUBSET (DOMAIN raws) /\ kept.raws = Sublist(raws, I)
      BY <2>2
    <3>2. /\ \A k \in DOMAIN kept.raws : \E i \in I : kept.raws[k] = raws[i]
          /\ \A i \in I : \E k \in DOMAIN kept.raws : kept.raws[k] = raws[i]
      <4>. HIDE DEF I
      <4>. QED  BY <1>1, <3>1, SublistOf
    <3>. QED  BY <3>2
  <2>6. OnePerKey => \A i \in DOMAIN kept.raws : kept.raws[i].key # call.key
    BY <2>1, <2>5 DEF OnePerKey
  <2>7. ASSUME NEW n \in Nums, n # call.num, kept.rows[n] # None, kept.rows[n].key # NoKey, RowIsHeld(n)
        PROVE  \E i \in DOMAIN kept.raws : kept.raws[i].ver = kept.rows[n].ver
                 /\ kept.raws[i].key = kept.rows[n].key /\ kept.raws[i].num = n
    <3>1. n # raws[h].num /\ kept.rows[n] = rows[n]
      BY <2>4, <2>7
    <3>2. PICK i \in DOMAIN raws :
                 raws[i].ver = rows[n].ver /\ raws[i].key = rows[n].key /\ raws[i].num = n
      BY <2>7, <3>1 DEF RowIsHeld
    <3>3. i # h
      BY <3>1, <3>2
    <3>. QED  BY <2>5, <3>1, <3>2, <3>3
  <2>. QED  BY <2>1, <2>3, <2>4, <2>6, <2>7 DEF kept
<1>. QED  BY <1>2, <1>3
-----------------------------------------------------------------------------
(* The types, step by step.                                                *)
TypedInv == RawsInv /\ FactsOK

LEMMA TypedInitially == SessionInit => TypedInv
<1>. SUFFICES ASSUME SessionInit PROVE TypedInv
  OBVIOUS
<1>1. /\ raws = <<>> /\ facts = <<>> /\ saved = <<>> /\ last = 0
      /\ current = [n \in Nums |-> None] /\ rows = [n \in Nums |-> None]
      /\ calls = [c \in Calls |-> NoCall]
  BY DEF SessionInit
<1>2. <<>> \in Seq(RawRecords) /\ <<>> \in Seq(FactRecords) /\ DOMAIN <<>> = {}
  OBVIOUS
<1>3. RawsOK
  BY <1>1, <1>2, SessionAssumption DEF RawsOK
<1>4. VersionInv
  BY <1>1, <1>2 DEF VersionInv, InFlight
<1>5. FactsOK
  BY <1>1, <1>2 DEF FactsOK, Tables, UniqueIds
<1>. QED  BY <1>3, <1>4, <1>5 DEF TypedInv, RawsInv

LEMMA StoreTyped ==
  ASSUME TypedInv, NEW c \in Calls, NEW n \in Nums, NEW k \in Keys, Store(c, n, k)
  PROVE  TypedInv'
<1>. USE DEF TypedInv, RawsInv
<1>. DEFINE call == [num |-> n, key |-> k, ver |-> last', old |-> current[n].ver,
                     art |-> IF current[n] = None THEN last' ELSE current[n].art,
                     phase |-> IF k = NoKey THEN "extract" ELSE "lock"]
<1>1. /\ ~InFlight(c) /\ last < MaxVersions /\ last' = last + 1
      /\ calls' = [calls EXCEPT ![c] = call]
      /\ UNCHANGED <<raws, facts, current, rows, saved>>
  BY DEF Store
<1>2. last \in Nat /\ last' \in Versions /\ last' \in 0..MaxVersions /\ last < last'
  BY <1>1, SessionAssumption DEF RawsOK, Versions
<1>3. current[n].ver \in {0} \cup Versions /\ (current[n] # None => current[n].art \in Versions)
  BY NoneIs DEF FactsOK
<1>4. call \in CallRecords
  BY <1>2, <1>3 DEF CallRecords
<1>. DEFINE new == call
<1>5. new.ver = last'
  OBVIOUS
<1>. HIDE DEF new
<1>6. calls' = [calls EXCEPT ![c] = new] /\ new \in CallRecords
  BY <1>1, <1>4 DEF new
<1>. HIDE DEF call
<1>7. /\ calls' \in [Calls -> {NoCall} \cup CallRecords]
      /\ \A d \in Calls : calls'[d] = IF d = c THEN new ELSE calls[d]
  BY <1>6 DEF RawsOK
<1>8. RawsOK' /\ FactsOK'
  BY <1>1, <1>2, <1>7 DEF RawsOK, FactsOK
<1>9. \A i \in DOMAIN raws : raws[i].ver <= last /\ raws[i].ver \in Nat
  <2>1. \A r \in RawRecords : r.ver \in Nat
    BY DEF RawRecords, Versions
  <2>. QED  BY <2>1 DEF RawsOK, VersionInv
<1>10. \A m \in Nums : rows[m] # None => rows[m].ver <= last /\ rows[m].ver \in Nat
  <2>1. \A r \in RawRecords : r.ver \in Nat
    BY DEF RawRecords, Versions
  <2>. QED  BY <2>1 DEF RawsOK, VersionInv
<1>11. \A d \in Calls : InFlight(d) => calls[d].ver <= last /\ calls[d].ver \in Nat
  BY CallIs DEF VersionInv, Versions
<1>12. \A d \in Calls : (InFlight(d))' => d = c \/ InFlight(d)
  BY <1>7 DEF InFlight
<1>13. ASSUME NEW d \in Calls, (InFlight(d))'
       PROVE  /\ calls'[d].ver <= last'
              /\ \A i \in DOMAIN raws : raws[i].ver # calls'[d].ver
              /\ \A m \in Nums : rows[m] # None => rows[m].ver # calls'[d].ver
              /\ \A e \in Calls : (InFlight(e))' /\ calls'[e].ver = calls'[d].ver => e = d
  <2>1. CASE d = c
    <3>1. calls'[d].ver = last'
      BY <1>5, <1>7, <2>1
    <3>2. \A e \in Calls : (InFlight(e))' /\ calls'[e].ver = last' => e = c
      BY <1>2, <1>7, <1>11, <1>12
    <3>. QED  BY <1>2, <1>9, <1>10, <2>1, <3>1, <3>2
  <2>2. CASE d # c
    <3>1. InFlight(d) /\ calls'[d] = calls[d]
      BY <1>7, <1>12, <1>13, <2>2
    <3>2. calls[d].ver <= last /\ calls[d].ver \in Nat
      BY <1>11, <3>1
    <3>3. \A e \in Calls : (InFlight(e))' /\ calls'[e].ver = calls[d].ver => e = d
      BY <1>2, <1>5, <1>7, <1>12, <3>1, <3>2 DEF VersionInv
    <3>4. /\ \A i \in DOMAIN raws : raws[i].ver # calls[d].ver
          /\ \A m \in Nums : rows[m] # None => rows[m].ver # calls[d].ver
      BY <3>1 DEF VersionInv
    <3>. QED  BY <1>2, <3>1, <3>2, <3>3, <3>4
  <2>. QED  BY <2>1, <2>2
<1>14. \A i \in DOMAIN raws : raws[i].ver <= last'
  BY <1>2, <1>9
<1>15. \A m \in Nums : rows[m] # None => rows[m].ver <= last' /\ rows[m].num = m
  BY <1>2, <1>10 DEF VersionInv
<1>16. VersionInv'
  BY <1>1, <1>13, <1>14, <1>15 DEF VersionInv
<1>. QED  BY <1>8, <1>16

LEMMA LockedTyped ==
  ASSUME TypedInv, NEW c \in Calls, Locked(c)
  PROVE  TypedInv'
<1>. USE DEF TypedInv, RawsInv
<1>1. /\ calls[c].phase = "lock" /\ calls' = [calls EXCEPT ![c].phase = "extract"]
      /\ UNCHANGED <<raws, facts, current, rows, saved, last>>
  BY DEF Locked
<1>2. InFlight(c) /\ calls[c] \in CallRecords
  BY <1>1, CallIs
<1>3. \A k \in CallRecords : /\ [k EXCEPT !.phase = "extract"] \in CallRecords
                             /\ [k EXCEPT !.phase = "extract"].ver = k.ver
  BY DEF CallRecords
<1>4. \A d \in Calls : calls'[d] = IF d = c THEN [calls[c] EXCEPT !.phase = "extract"] ELSE calls[d]
  BY <1>1 DEF RawsOK
<1>5. calls' \in [Calls -> {NoCall} \cup CallRecords] /\ \A d \in Calls : calls'[d].ver = calls[d].ver
  BY <1>1, <1>2, <1>3, <1>4 DEF RawsOK
<1>6. \A d \in Calls : (InFlight(d))' => InFlight(d)
  BY <1>2, <1>4 DEF InFlight
<1>7. RawsOK' /\ FactsOK'
  BY <1>1, <1>5 DEF RawsOK, FactsOK
<1>8. VersionInv'
  BY <1>1, <1>5, <1>6 DEF VersionInv
<1>. QED  BY <1>7, <1>8
LEMMA UnreadyTyped ==
  ASSUME TypedInv, NEW c \in Calls, Unready(c)
  PROVE  TypedInv'
<1>. DEFINE raw == RawOf(calls[c], "canonicalization_failed")
<1>1. /\ calls[c].phase = "extract" /\ raws' = Append(raws, raw) /\ rows' = [rows EXCEPT ![raw.num] = raw]
      /\ calls' = [calls EXCEPT ![c] = NoCall] /\ UNCHANGED <<facts, current, saved, last>>
  BY DEF Unready, Free
<1>2. InFlight(c) /\ RawsInv /\ RawsOK /\ FactsOK
  BY <1>1, CallIs DEF TypedInv, RawsInv
<1>3. raw \in RawRecords /\ raw.ver = calls[c].ver /\ raw.num = calls[c].num
  BY <1>2, RawIs DEF Statuses
<1>. HIDE DEF raw
<1>4. FromRaws(raws) /\ rows \in [Nums -> {None} \cup RawRecords]
  BY <1>2, FromSame DEF RawsOK
<1>5. RawsInv'
  BY <1>1, <1>2, <1>3, <1>4, Entered
<1>6. FactsOK'
  BY <1>1, <1>2 DEF FactsOK
<1>. QED  BY <1>5, <1>6 DEF TypedInv

LEMMA EndsTyped ==
  ASSUME TypedInv, NEW c \in Calls, NEW status \in Statuses, Ends(c, status)
  PROVE  TypedInv'
<1>. DEFINE raw == RawOf(calls[c], status)
            kept == Kept(calls[c])
<1>1. /\ calls[c].phase = "extract" /\ raws' = Append(kept.raws, raw) /\ facts' = kept.facts
      /\ rows' = [kept.rows EXCEPT ![raw.num] = raw] /\ saved' = Written(saved, kept.gone, <<>>)
      /\ calls' = [calls EXCEPT ![c] = NoCall] /\ UNCHANGED <<current, last>>
  BY DEF Ends, Free
<1>2. InFlight(c) /\ RawsInv /\ RawsOK /\ FactsOK
  BY <1>1, CallIs DEF TypedInv, RawsInv
<1>3. raw \in RawRecords /\ raw.ver = calls[c].ver /\ raw.num = calls[c].num
  BY <1>2, RawIs
<1>4. /\ FromRaws(kept.raws) /\ FromFacts(kept.facts)
      /\ kept.rows \in [Nums -> {None} \cup RawRecords]
      /\ \A n \in Nums : kept.rows[n] = rows[n] \/ kept.rows[n] = None
  BY <1>2, KeptIs
<1>. HIDE DEF raw, kept
<1>5. RawsInv'
  BY <1>1, <1>2, <1>3, <1>4, Entered
<1>6. saved' \in Tables
  <2>1. <<>> \in Seq(FactRecords)
    OBVIOUS
  <2>. QED  BY <1>1, <1>2, <2>1, WrittenIs DEF FactsOK
<1>7. FactsOK'
  BY <1>1, <1>2, <1>4, <1>6 DEF FactsOK, FromFacts
<1>. QED  BY <1>5, <1>7 DEF TypedInv

LEMMA NewFactsAre ==
  ASSUME RawsOK, NEW c \in Calls, InFlight(c), NEW size \in Nat
  PROVE  LET new == NewFacts(calls[c], size)
         IN /\ new \in Seq(FactRecords) /\ DOMAIN new = 1..size
            /\ \A k \in 1..size : new[k].ver = calls[c].ver /\ new[k].art = calls[c].art
                                  /\ new[k].num = calls[c].num
<1>. DEFINE new == NewFacts(calls[c], size)
<1>1. new = [k \in 1..size |-> FactOf(calls[c], k)]
  BY DEF NewFacts
<1>2. \A k \in 1..size :
        FactOf(calls[c], k) = [id |-> <<calls[c].num, k>>, ver |-> calls[c].ver, art |-> calls[c].art,
                               num |-> calls[c].num, raw |-> calls[c].ver, status |-> "active"]
  BY DEF FactOf
<1>3. /\ calls[c].ver \in Versions /\ calls[c].art \in Versions /\ calls[c].num \in Nums
      /\ calls[c].num \in Nat /\ "active" \in Statuses
  BY CallIs, SessionAssumption DEF Statuses
<1>4. \A k \in 1..size : <<calls[c].num, k>> \in Seq(Nat)
  BY <1>3
<1>5. \A k \in 1..size :
        /\ FactOf(calls[c], k) \in FactRecords
        /\ FactOf(calls[c], k).ver = calls[c].ver /\ FactOf(calls[c], k).art = calls[c].art
        /\ FactOf(calls[c], k).num = calls[c].num
  <2>1. \A id \in Seq(Nat) :
          LET f == [id |-> id, ver |-> calls[c].ver, art |-> calls[c].art, num |-> calls[c].num,
                    raw |-> calls[c].ver, status |-> "active"]
          IN f \in FactRecords /\ f.ver = calls[c].ver /\ f.art = calls[c].art /\ f.num = calls[c].num
    BY <1>3 DEF FactRecords
  <2>. QED  BY <1>2, <1>4, <2>1
<1>. HIDE DEF new
<1>6. new \in Seq(FactRecords) /\ DOMAIN new = 1..size
  BY <1>1, <1>5
<1>7. \A k \in 1..size : new[k].ver = calls[c].ver /\ new[k].art = calls[c].art
                         /\ new[k].num = calls[c].num
  BY <1>1, <1>5
<1>. QED  BY <1>6, <1>7 DEF new

LEMMA FoundTyped ==
  ASSUME TypedInv, NEW c \in Calls, NEW size \in Sizes, Found(c, size)
  PROVE  TypedInv'
<1>. DEFINE call == calls[c]
            raw == RawOf(call, "active")
            kept == Kept(call)
            before == Superseded(kept.facts, call.old)
            new == NewFacts(call, size)
            list == Superseded(kept.raws, call.old)
<1>1. /\ call.phase = "extract" /\ raws' = Append(list, raw) /\ facts' = before \o new
      /\ current' = [current EXCEPT ![call.num] = [art |-> call.art, ver |-> call.ver]]
      /\ rows' = [kept.rows EXCEPT ![call.num] = raw]
      /\ saved' = Written(saved, kept.gone, OfVersion(before, call.old) \o new)
      /\ calls' = [calls EXCEPT ![c] = NoCall] /\ last' = last
  BY DEF Found, Free
<1>2. InFlight(c) /\ RawsInv /\ RawsOK /\ FactsOK
  BY <1>1, CallIs DEF TypedInv, RawsInv
<1>3. raw \in RawRecords /\ raw.ver = calls[c].ver /\ raw.num = calls[c].num
  BY <1>2, RawIs DEF Statuses
<1>4. /\ FromRaws(kept.raws) /\ FromFacts(kept.facts)
      /\ kept.rows \in [Nums -> {None} \cup RawRecords]
      /\ \A n \in Nums : kept.rows[n] = rows[n] \/ kept.rows[n] = None
  BY <1>2, KeptIs
<1>5. new \in Seq(FactRecords)
  BY <1>2, SessionAssumption, NewFactsAre
<1>. HIDE DEF raw, kept, new
<1>6. FromRaws(list) /\ before \in Seq(FactRecords)
  <2>1. "superseded" \in Statuses
    BY DEF Statuses
  <2>. QED  BY <1>2, <1>4, <2>1, FromMarked, MarkedFacts DEF Superseded, FromFacts
<1>. HIDE DEF list, before
<1>7. RawsInv'
  BY <1>1, <1>2, <1>3, <1>4, <1>6, Entered
<1>8. OfVersion(before, call.old) \in Seq(FactRecords)
  <2>. DEFINE I == {i \in DOMAIN before : before[i].ver = call.old}
  <2>1. OfVersion(before, call.old) = Sublist(before, I) /\ I \in SUBSET (DOMAIN before)
    BY DEF OfVersion
  <2>. HIDE DEF I
  <2>. QED  BY <1>6, <2>1, SublistOf
<1>9. saved' \in Tables
  <2>. DEFINE written == OfVersion(before, call.old) \o new
  <2>1. written \in Seq(FactRecords)
    BY <1>5, <1>8
  <2>2. saved' = Written(saved, kept.gone, written)
    BY <1>1
  <2>. HIDE DEF written
  <2>. QED  BY <1>2, <2>1, <2>2, WrittenIs DEF FactsOK
<1>10. current' \in [Nums -> {None} \cup [art : Versions, ver : Versions]]
  <2>1. call.art \in Versions /\ call.ver \in Versions
    BY <1>2, CallIs
  <2>. QED  BY <1>1, <1>2, <2>1 DEF FactsOK
<1>11. facts' \in Seq(FactRecords)
  BY <1>1, <1>5, <1>6
<1>. QED  BY <1>7, <1>9, <1>10, <1>11 DEF TypedInv, FactsOK
LEMMA SnapshotIs ==
  ASSUME FactsOK, facts' \in Seq(FactRecords), Snapshot
  PROVE  (rows' = RawSnapshot(raws') \/ rows' = rows) /\ saved' \in Tables
<1>1. CASE Unique(Distinct(facts'))
  <2>1. Distinct(facts') \in Seq(FactRecords)
    BY DistinctIs
  <2>2. UniqueIds(Distinct(facts'))
    BY <1>1, <2>1, UniqueIs
  <2>. QED  BY <1>1, <2>1, <2>2 DEF Snapshot, Tables
<1>2. CASE ~Unique(Distinct(facts'))
  BY <1>2 DEF Snapshot, FactsOK
<1>. QED  BY <1>1, <1>2

(* What an edit changes: every version of its artifact that was current,   *)
(* and one fact of them has a successor.                                   *)
Successor(f) == [f EXCEPT !.id = <<0, last'>>, !.ver = last']

LEMMA EditIs ==
  ASSUME FactsOK, NEW a, Edit(a)
  PROVE  \E i \in DOMAIN facts :
           /\ facts[i].art = a /\ facts[i].status = "active"
           /\ Alone(a) /\ last < MaxVersions /\ last' = last + 1
           /\ facts' = Append(Marked(facts, {e \in Of(facts, a) : e.status = "active"}, "superseded"),
                              Successor(facts[i]))
           /\ raws' = Marked(raws, {e \in Of(raws, a) : e.status = "active"}, "superseded")
           /\ current' = [current EXCEPT ![facts[i].num] = [art |-> a, ver |-> last']]
           /\ Snapshot /\ calls' = calls
<1>. DEFINE Test(f) == f \in {e \in Of(facts, a) : e.status = "active"}
            I == {i \in 1..Len(facts) : Test(facts[i])}
            place == IF I # {} THEN Min(I) ELSE 0
<1>1. /\ place # 0 /\ Alone(a) /\ last < MaxVersions /\ last' = last + 1
      /\ facts' = Append(Marked(facts, {e \in Of(facts, a) : e.status = "active"}, "superseded"),
                         Successor(facts[place]))
      /\ raws' = Marked(raws, {e \in Of(raws, a) : e.status = "active"}, "superseded")
      /\ current' = [current EXCEPT ![facts[place].num] = [art |-> a, ver |-> last']]
      /\ Snapshot /\ calls' = calls
  BY DEF Edit, SelectInSeq, Successor
<1>2. I \subseteq Nat /\ I \subseteq DOMAIN facts /\ \A i \in I : Test(facts[i])
  BY DEF FactsOK
<1>3. I # {}
  BY <1>1
<1>4. place \in I
  <2>1. Min(I) \in I
    <3>. HIDE DEF I
    <3>. QED  BY <1>2, <1>3, MinIs
  <2>. HIDE DEF I
  <2>. QED  BY <1>3, <2>1
<1>5. \A f : Test(f) => f.art = a /\ f.status = "active"
  BY DEF Of
<1>. HIDE DEF place, I, Test
<1>6. place \in DOMAIN facts /\ facts[place].art = a /\ facts[place].status = "active"
  BY <1>2, <1>4, <1>5
<1>. QED  BY <1>1, <1>6

LEMMA SuccessorIs ==
  ASSUME NEW f \in FactRecords, last' \in Versions
  PROVE  /\ Successor(f) \in FactRecords /\ Successor(f).ver = last' /\ Successor(f).art = f.art
         /\ Successor(f).num = f.num /\ Successor(f).status = f.status
<1>1. <<0, last'>> \in Seq(Nat)
  BY SessionAssumption DEF Versions
<1>2. \A id \in Seq(Nat), v \in Versions :
        LET g == [f EXCEPT !.id = id, !.ver = v]
        IN g \in FactRecords /\ g.ver = v /\ g.art = f.art /\ g.num = f.num /\ g.status = f.status
  BY DEF FactRecords
<1>. QED  BY <1>1, <1>2 DEF Successor

LEMMA EditTyped ==
  ASSUME TypedInv, NEW a, Edit(a)
  PROVE  TypedInv'
<1>1. RawsInv /\ RawsOK /\ FactsOK
  BY DEF TypedInv, RawsInv
<1>2. PICK i \in DOMAIN facts :
           /\ facts[i].art = a /\ facts[i].status = "active"
           /\ Alone(a) /\ last < MaxVersions /\ last' = last + 1
           /\ facts' = Append(Marked(facts, {e \in Of(facts, a) : e.status = "active"}, "superseded"),
                              Successor(facts[i]))
           /\ raws' = Marked(raws, {e \in Of(raws, a) : e.status = "active"}, "superseded")
           /\ current' = [current EXCEPT ![facts[i].num] = [art |-> a, ver |-> last']]
           /\ Snapshot /\ calls' = calls
  BY <1>1, EditIs
<1>3. last' \in last..MaxVersions /\ last' \in Versions /\ "superseded" \in Statuses
  BY <1>1, <1>2, SessionAssumption DEF RawsOK, Versions, Statuses
<1>4. facts[i] \in FactRecords
  BY <1>1 DEF FactsOK
<1>5. facts[i].num \in Nums /\ a \in Versions
  BY <1>2, <1>4 DEF FactRecords
<1>6. facts' \in Seq(FactRecords)
  <2>. DEFINE marked == Marked(facts, {e \in Of(facts, a) : e.status = "active"}, "superseded")
  <2>1. marked \in Seq(FactRecords)
    BY <1>1, <1>3, MarkedFacts DEF FactsOK
  <2>2. Successor(facts[i]) \in FactRecords
    BY <1>3, <1>4, SuccessorIs
  <2>3. facts' = Append(marked, Successor(facts[i]))
    BY <1>2
  <2>. HIDE DEF marked
  <2>. QED  BY <2>1, <2>2, <2>3
<1>7. FromRaws(raws')
  BY <1>1, <1>2, <1>3, FromSame, FromMarked
<1>8. (rows' = RawSnapshot(raws') \/ rows' = rows) /\ saved' \in Tables
  BY <1>1, <1>2, <1>6, SnapshotIs
<1>9. RawsInv'
  BY <1>1, <1>2, <1>3, <1>7, <1>8, Withdrawn
<1>10. current' \in [Nums -> {None} \cup [art : Versions, ver : Versions]]
  BY <1>1, <1>2, <1>3, <1>5 DEF FactsOK
<1>. QED  BY <1>6, <1>8, <1>9, <1>10 DEF TypedInv, FactsOK

(* Retract, purge and redact, once what they leave is known.               *)
LEMMA WithdrawnTyped ==
  ASSUME TypedInv, NEW a, FromRaws(raws'), facts' \in Seq(FactRecords), Snapshot,
         current' = Without(a) \/ current' = current, UNCHANGED <<calls, last>>
  PROVE  TypedInv'
<1>1. RawsInv /\ RawsOK /\ FactsOK
  BY DEF TypedInv, RawsInv
<1>2. (rows' = RawSnapshot(raws') \/ rows' = rows) /\ saved' \in Tables
  BY <1>1, SnapshotIs
<1>3. last' \in last..MaxVersions
  BY <1>1, SessionAssumption DEF RawsOK
<1>4. RawsInv'
  BY <1>1, <1>2, <1>3, Withdrawn
<1>5. current' \in [Nums -> {None} \cup [art : Versions, ver : Versions]]
  BY <1>1 DEF FactsOK, Without
<1>. QED  BY <1>2, <1>4, <1>5 DEF TypedInv, FactsOK

LEMMA LifecycleTyped ==
  ASSUME TypedInv, NEW a, Retract(a) \/ Purge(a) \/ Redact(a)
  PROVE  TypedInv'
<1>1. RawsInv /\ RawsOK /\ FactsOK
  BY DEF TypedInv, RawsInv
<1>2. ASSUME NEW status \in {"retracted", "redacted"},
             facts' = Marked(facts, Of(facts, a), status), raws' = Marked(raws, Of(raws, a), status)
      PROVE  FromRaws(raws') /\ facts' \in Seq(FactRecords)
  <2>1. status \in Statuses
    BY DEF Statuses
  <2>. QED  BY <1>1, <1>2, <2>1, FromSame, FromMarked, MarkedFacts DEF FactsOK
<1>3. CASE Retract(a)
  BY <1>2, <1>3, WithdrawnTyped DEF Retract
<1>4. CASE Redact(a)
  BY <1>2, <1>4, WithdrawnTyped DEF Redact
<1>5. CASE Purge(a)
  <2>. DEFINE I == {i \in DOMAIN raws : raws[i].art # a}
              J == {i \in DOMAIN facts : facts[i].art # a}
  <2>1. raws' = Sublist(raws, I) /\ facts' = Sublist(facts, J)
    BY <1>5 DEF Purge
  <2>2. I \in SUBSET (DOMAIN raws) /\ J \in SUBSET (DOMAIN facts)
    OBVIOUS
  <2>3. FromRaws(raws') /\ facts' \in Seq(FactRecords)
    <3>. HIDE DEF I, J
    <3>. QED  BY <1>1, <2>1, <2>2, FromSublist, FactsOf DEF FromFacts
  <2>. QED  BY <1>5, <2>3, WithdrawnTyped DEF Purge
<1>. QED  BY <1>3, <1>4, <1>5
LEMMA RebuiltIs ==
  ASSUME NEW list \in Seq(FactRecords)
  PROVE  Rebuilt(list) \in [Nums -> {None} \cup [art : Versions, ver : Versions]]
<1>. SUFFICES ASSUME NEW n \in Nums
              PROVE  Rebuilt(list)[n] \in {None} \cup [art : Versions, ver : Versions]
  BY DEF Rebuilt
<1>. DEFINE A == {i \in DOMAIN list : list[i].num = n /\ list[i].status = "active"}
            vers == {list[i].ver : i \in A}
            v == Max(vers)
            newest == CHOOSE i \in A : list[i].ver = v
<1>1. Rebuilt(list)[n] = IF A = {} THEN None ELSE [art |-> list[newest].art, ver |-> v]
  BY DEF Rebuilt
<1>2. \A i \in A : list[i].art \in Versions /\ list[i].ver \in Versions
  <2>1. \A i \in A : list[i] \in FactRecords
    OBVIOUS
  <2>. HIDE DEF A
  <2>. QED  BY <2>1 DEF FactRecords
<1>3. CASE A = {}
  BY <1>1, <1>3
<1>4. CASE A # {}
  <2>1. vers \in SUBSET (0..MaxVersions) /\ vers # {}
    <3>. HIDE DEF A
    <3>. QED  BY <1>2, <1>4 DEF Versions
  <2>2. v \in vers
    <3>. HIDE DEF vers
    <3>. QED  BY <2>1, MaxIs, SessionAssumption
  <2>. HIDE DEF v
  <2>3. \E i \in A : list[i].ver = v
    <3>. HIDE DEF A
    <3>. QED  BY <2>2
  <2>4. newest \in A /\ list[newest].ver = v
    <3>. HIDE DEF A
    <3>. QED  BY <2>3
  <2>. HIDE DEF newest, A
  <2>. QED  BY <1>1, <1>2, <1>4, <2>4
<1>. QED  BY <1>3, <1>4

(* After a restart the sessions in memory are the rows.                    *)
LEMMA RestartIs ==
  ASSUME RawsInv, Restart
  PROVE  /\ raws' \in Seq(RawRecords)
         /\ \A i \in DOMAIN raws' : \E n \in Nums : rows[n] # None /\ raws'[i] = rows[n]
         /\ \A n \in Nums : rows[n] # None => \E i \in DOMAIN raws' : raws'[i] = rows[n]
         /\ \A i, j \in DOMAIN raws' : raws'[i].ver = raws'[j].ver => i = j
<1>. DEFINE I == {n \in Nums : rows[n] # None}
            c == Cardinality(I)
<1>1. I \in SUBSET Nat /\ IsFiniteSet(I) /\ \A n \in I : rows[n] \in RawRecords
  <2>1. I \in SUBSET Nums
    OBVIOUS
  <2>2. \A n \in I : rows[n] \in RawRecords
    BY DEF RawsInv, RawsOK
  <2>. HIDE DEF I
  <2>. QED  BY <2>1, <2>2, SessionAssumption, FS_Subset
<1>2. \A m, n \in I : rows[m].ver = rows[n].ver => m = n
  BY DEF RawsInv, VersionInv
<1>3. raws' = Sublist(rows, I)
  BY DEF Restart
<1>4. c \in Nat /\ \E nth : Numbers(nth, rows, I)
  <2>. HIDE DEF I
  <2>. QED  BY <1>1, SublistIs
<1>5. PICK nth : Numbers(nth, rows, I)
  BY <1>4
<1>6. \A n \in Nums : rows[n] # None <=> n \in I
  OBVIOUS
<1>7. I \subseteq Nums
  OBVIOUS
<1>. HIDE DEF I, c
<1>8. /\ raws' = [k \in 1..c |-> rows[nth[k]]] /\ \A k \in 1..c : nth[k] \in I
      /\ \A n \in I : \E k \in 1..c : nth[k] = n
      /\ \A j, k \in 1..c : nth[j] = nth[k] => j = k
  BY <1>3, <1>5 DEF Numbers, c
<1>9. raws' \in Seq(RawRecords) /\ DOMAIN raws' = 1..c
  <2>1. \A k \in 1..c : rows[nth[k]] \in RawRecords
    BY <1>1, <1>8
  <2>. QED  BY <1>4, <1>8, <2>1
<1>10. \A i, j \in DOMAIN raws' : raws'[i].ver = raws'[j].ver => i = j
  BY <1>2, <1>8, <1>9
<1>. QED  BY <1>6, <1>7, <1>8, <1>9, <1>10

LEMMA RestartTyped == TypedInv /\ Restart => TypedInv'
<1>. SUFFICES ASSUME TypedInv, Restart PROVE TypedInv'
  OBVIOUS
<1>1. RawsInv /\ RawsOK /\ VersionInv /\ FactsOK
  BY DEF TypedInv, RawsInv
<1>2. /\ facts' = saved /\ current' = Rebuilt(saved) /\ calls' = [c \in Calls |-> NoCall]
      /\ UNCHANGED <<rows, saved, last>>
  BY DEF Restart
<1>3. FactsOK'
  <2>1. saved \in Seq(FactRecords)
    BY <1>1 DEF FactsOK, Tables
  <2>. QED  BY <1>1, <1>2, <2>1, RebuiltIs DEF FactsOK
<1>4. /\ raws' \in Seq(RawRecords)
      /\ \A i \in DOMAIN raws' : \E n \in Nums : rows[n] # None /\ raws'[i] = rows[n]
      /\ \A i, j \in DOMAIN raws' : raws'[i].ver = raws'[j].ver => i = j
  BY <1>1, RestartIs
<1>5. RawsOK'
  BY <1>1, <1>2, <1>4 DEF RawsOK
<1>6. \A c \in Calls : ~(InFlight(c))'
  BY <1>2 DEF InFlight
<1>7. \A i \in DOMAIN raws' : raws'[i].ver <= last'
  BY <1>1, <1>2, <1>4 DEF VersionInv
<1>8. VersionInv'
  BY <1>1, <1>2, <1>4, <1>6, <1>7 DEF VersionInv
<1>. QED  BY <1>3, <1>5, <1>8 DEF TypedInv, RawsInv

LEMMA TypedNext == TypedInv /\ [SessionNext]_sessionVars => TypedInv'
<1>. SUFFICES ASSUME TypedInv, [SessionNext]_sessionVars PROVE TypedInv'
  OBVIOUS
<1>1. ASSUME NEW c \in Calls, NEW n \in Nums, NEW k \in Keys, Store(c, n, k) PROVE TypedInv'
  BY <1>1, StoreTyped
<1>2. ASSUME NEW c \in Calls, Locked(c) PROVE TypedInv'
  BY <1>2, LockedTyped
<1>3. ASSUME NEW c \in Calls, Unready(c) PROVE TypedInv'
  BY <1>3, UnreadyTyped
<1>4. ASSUME NEW c \in Calls, TimedOut(c) \/ FoundNothing(c) PROVE TypedInv'
  BY <1>4, EndsTyped DEF TimedOut, FoundNothing, Statuses
<1>5. ASSUME NEW c \in Calls, NEW size \in Sizes, Found(c, size) PROVE TypedInv'
  BY <1>5, FoundTyped
<1>6. ASSUME NEW a \in HeldArtifacts, Edit(a) PROVE TypedInv'
  BY <1>6, EditTyped
<1>7. ASSUME NEW a \in HeldArtifacts, Retract(a) \/ Purge(a) \/ Redact(a) PROVE TypedInv'
  BY <1>7, LifecycleTyped
<1>8. CASE Restart
  BY <1>8, RestartTyped
<1>9. CASE UNCHANGED sessionVars
  BY <1>9 DEF sessionVars, TypedInv, RawsInv, RawsOK, VersionInv, InFlight, FactsOK
<1>. QED  BY <1>1, <1>2, <1>3, <1>4, <1>5, <1>6, <1>7, <1>8, <1>9 DEF SessionNext

LEMMA Typed == SessionSpec => []TypedInv
<1>. QED  BY TypedInitially, TypedNext, PTL DEF SessionSpec

(* The lists and the tables hold what the code puts there, whatever        *)
(* happens: no session is listed twice, no row of facts has the id of      *)
(* another, though versions of a session reuse the ids of their facts, and *)
(* calls for one number overlap.                                           *)
THEOREM SessionTypeCorrect == SessionSpec => []SessionTypeOK
<1>1. TypedInv => SessionTypeOK
  <2>. SUFFICES ASSUME TypedInv PROVE SessionTypeOK
    OBVIOUS
  <2>1. IsInjective([i \in DOMAIN raws |-> raws[i].ver])
    BY DEF TypedInv, RawsInv, VersionInv, IsInjective
  <2>2. saved \in Seq(FactRecords) /\ Unique(saved)
    BY UniqueIs DEF TypedInv, FactsOK, Tables
  <2>3. \A n \in Nums : rows[n] # None => rows[n].num = n
    BY DEF TypedInv, RawsInv, VersionInv
  <2>. QED  BY <2>1, <2>2, <2>3 DEF TypedInv, RawsInv, RawsOK, FactsOK, SessionTypeOK
<1>. QED  BY <1>1, Typed, PTL
-----------------------------------------------------------------------------
(* One session of a key.  A restart reads the rows, so it keeps what holds *)
(* of the sessions in memory if every row with a key is the row of one.    *)
RowsHeld == \A n \in Nums : RowIsHeld(n)

KeyInv == TypedInv /\ OnePerKey /\ ("purge" \notin Events => RowsHeld)

KeyAssumption == "unready" \notin Events /\ ("restart" \in Events => "purge" \notin Events)

LEMMA EntersWithKey ==
  ASSUME TypedInv, OnePerKey, NEW c \in Calls, InFlight(c), NEW list, NEW others, NEW raw \in RawRecords,
         raw.num = calls[c].num, raw.key = calls[c].key, list \in Seq(RawRecords),
         Kept(calls[c]).rows = others, others \in [Nums -> {None} \cup RawRecords],
         DOMAIN list = DOMAIN Kept(calls[c]).raws,
         \A i \in DOMAIN list : LET old == Kept(calls[c]).raws[i] IN
            list[i].ver = old.ver /\ list[i].num = old.num /\ list[i].key = old.key,
         raws' = Append(list, raw), rows' = [others EXCEPT ![raw.num] = raw]
  PROVE  OnePerKey' /\ (RowsHeld => RowsHeld')
<1>. DEFINE call == calls[c]
            kept == Kept(call)
<1>1. RawsInv /\ FactsOK /\ RawsOK
  BY DEF TypedInv, RawsInv
<1>2. /\ FromRaws(kept.raws)
      /\ OnePerKey /\ call.key # NoKey => \A i \in DOMAIN kept.raws : kept.raws[i].key # call.key
      /\ \A n \in Nums : kept.rows[n] = rows[n] \/ kept.rows[n] = None
      /\ \A n \in Nums : n # call.num /\ kept.rows[n] # None /\ kept.rows[n].key # NoKey
                           /\ RowIsHeld(n) =>
           \E i \in DOMAIN kept.raws : kept.raws[i].ver = kept.rows[n].ver
             /\ kept.raws[i].key = kept.rows[n].key /\ kept.raws[i].num = n
  <2>1. FromRaws(kept.raws)
    BY <1>1, KeptIs
  <2>2. OnePerKey /\ call.key # NoKey => \A i \in DOMAIN kept.raws : kept.raws[i].key # call.key
    BY <1>1, KeptIs
  <2>3. \A n \in Nums : kept.rows[n] = rows[n] \/ kept.rows[n] = None
    BY <1>1, KeptIs
  <2>4. \A n \in Nums : n # call.num /\ kept.rows[n] # None /\ kept.rows[n].key # NoKey
                           /\ RowIsHeld(n) =>
           \E i \in DOMAIN kept.raws : kept.raws[i].ver = kept.rows[n].ver
             /\ kept.raws[i].key = kept.rows[n].key /\ kept.raws[i].num = n
    BY <1>1, KeptIs
  <2>. QED  BY <2>1, <2>2, <2>3, <2>4
<1>. HIDE DEF kept
<1>3. \A i \in DOMAIN list : list[i].ver = kept.raws[i].ver /\ list[i].num = kept.raws[i].num
                             /\ list[i].key = kept.raws[i].key
  BY DEF kept
<1>4. DOMAIN list = DOMAIN kept.raws /\ others = kept.rows
  BY DEF kept
<1>. HIDE DEF call
<1>5. raw.num = call.num /\ raw.key = call.key
  BY DEF call
<1>6. Len(list) \in Nat /\ DOMAIN list = 1..Len(list)
  OBVIOUS
<1>7. /\ DOMAIN raws' = 1..Len(list) + 1 /\ raws'[Len(list) + 1] = raw
      /\ \A i \in 1..Len(list) : raws'[i] = list[i]
  BY <1>6
<1>8. \A i, j \in DOMAIN list : list[i].key = list[j].key /\ list[i].key # NoKey => i = j
  <2>1. \A i, j \in DOMAIN kept.raws :
          kept.raws[i].key = kept.raws[j].key /\ kept.raws[i].key # NoKey => i = j
    <3>. SUFFICES ASSUME NEW i \in DOMAIN kept.raws, NEW j \in DOMAIN kept.raws,
                         kept.raws[i].key = kept.raws[j].key, kept.raws[i].key # NoKey
                  PROVE  i = j
      OBVIOUS
    <3>1. PICK g \in DOMAIN raws : kept.raws[i].ver = raws[g].ver /\ kept.raws[i].key = raws[g].key
      BY <1>2 DEF FromRaws
    <3>2. PICK h \in DOMAIN raws : kept.raws[j].ver = raws[h].ver /\ kept.raws[j].key = raws[h].key
      BY <1>2 DEF FromRaws
    <3>3. g = h
      BY <3>1, <3>2 DEF OnePerKey
    <3>. QED  BY <1>2, <3>1, <3>2, <3>3 DEF FromRaws
  <2>. QED  BY <1>3, <1>4, <2>1
<1>9. raw.key # NoKey => \A i \in DOMAIN list : list[i].key # raw.key
  BY <1>2, <1>3, <1>4, <1>5
<1>10. OnePerKey'
  BY <1>6, <1>7, <1>8, <1>9 DEF OnePerKey
<1>11. ASSUME RowsHeld, NEW n \in Nums, rows'[n] # None, rows'[n].key # NoKey
       PROVE  \E i \in DOMAIN raws' : raws'[i].ver = rows'[n].ver /\ raws'[i].key = rows'[n].key
                                      /\ raws'[i].num = n
  <2>1. CASE n = raw.num
    <3>1. rows'[n] = raw
      BY <2>1
    <3>2. Len(list) + 1 \in DOMAIN raws'
      BY <1>6, <1>7
    <3>. QED  BY <1>7, <2>1, <3>1, <3>2
  <2>2. CASE n # raw.num
    <3>1. rows'[n] = kept.rows[n]
      BY <1>4, <2>2
    <3>2. RowIsHeld(n)
      BY <1>11 DEF RowsHeld
    <3>3. PICK i \in DOMAIN list : list[i].ver = rows'[n].ver /\ list[i].key = rows'[n].key
                                   /\ list[i].num = n
      BY <1>2, <1>3, <1>4, <1>5, <1>11, <2>2, <3>1, <3>2
    <3>4. i \in DOMAIN raws' /\ raws'[i] = list[i]
      BY <1>6, <1>7
    <3>. QED  BY <3>3, <3>4
  <2>. QED  BY <2>1, <2>2
<1>12. RowsHeld => RowsHeld'
  BY <1>11 DEF RowsHeld, RowIsHeld
<1>. QED  BY <1>10, <1>12

(* A list that keeps some of the sessions keeps no two of a key.           *)
LEMMA KeysOfSome ==
  ASSUME TypedInv, OnePerKey, FromRaws(raws')
  PROVE  OnePerKey'
<1>. SUFFICES ASSUME NEW i \in DOMAIN raws', NEW j \in DOMAIN raws',
                     raws'[i].key = raws'[j].key, raws'[i].key # NoKey
              PROVE  i = j
  BY DEF OnePerKey
<1>1. PICK g \in DOMAIN raws : raws'[i].ver = raws[g].ver /\ raws'[i].key = raws[g].key
  BY DEF FromRaws
<1>2. PICK h \in DOMAIN raws : raws'[j].ver = raws[h].ver /\ raws'[j].key = raws[h].key
  BY DEF FromRaws
<1>3. g = h
  BY <1>1, <1>2 DEF OnePerKey
<1>. QED  BY <1>1, <1>2, <1>3 DEF FromRaws

(* After a snapshot the rows are those of the sessions; without one they   *)
(* are as held as before if no session was forgotten.                      *)
LEMMA RowsOfSnapshot ==
  ASSUME RowsHeld, FromRaws(raws'),
         \/ rows' = RawSnapshot(raws')
         \/ /\ rows' = rows
            /\ \A i \in DOMAIN raws : \E j \in DOMAIN raws' :
                 raws'[j].ver = raws[i].ver /\ raws'[j].key = raws[i].key /\ raws'[j].num = raws[i].num
  PROVE  RowsHeld'
<1>. SUFFICES ASSUME NEW n \in Nums, rows'[n] # None, rows'[n].key # NoKey
              PROVE  \E i \in DOMAIN raws' : raws'[i].ver = rows'[n].ver
                       /\ raws'[i].key = rows'[n].key /\ raws'[i].num = n
  BY DEF RowsHeld, RowIsHeld
<1>1. CASE rows' = RawSnapshot(raws')
  <2>1. raws' \in Seq(RawRecords)
    BY DEF FromRaws
  <2>2. \E i \in DOMAIN raws' : rows'[n] = raws'[i] /\ raws'[i].num = n
    BY <1>1, <2>1, RawSnapshotIs
  <2>. QED  BY <2>2
<1>2. CASE /\ rows' = rows
           /\ \A i \in DOMAIN raws : \E j \in DOMAIN raws' :
                raws'[j].ver = raws[i].ver /\ raws'[j].key = raws[i].key /\ raws'[j].num = raws[i].num
  BY <1>2 DEF RowsHeld, RowIsHeld
<1>. QED  BY <1>1, <1>2
LEMMA EndsKey ==
  ASSUME TypedInv, OnePerKey, NEW c \in Calls, NEW status \in Statuses, Ends(c, status)
  PROVE  OnePerKey' /\ (RowsHeld => RowsHeld')
<1>. DEFINE raw == RawOf(calls[c], status)
            kept == Kept(calls[c])
            list == kept.raws
            others == kept.rows
<1>1. calls[c].phase = "extract" /\ raws' = Append(list, raw) /\ rows' = [others EXCEPT ![raw.num] = raw]
  BY DEF Ends
<1>2. InFlight(c) /\ RawsInv /\ RawsOK /\ FactsOK
  BY <1>1, CallIs DEF TypedInv, RawsInv
<1>3. raw \in RawRecords /\ raw.num = calls[c].num /\ raw.key = calls[c].key
  BY <1>2, RawIs
<1>4. FromRaws(list) /\ others \in [Nums -> {None} \cup RawRecords]
  BY <1>2, KeptIs
<1>5. list = Kept(calls[c]).raws /\ others = Kept(calls[c]).rows
  OBVIOUS
<1>. HIDE DEF raw, list, others
<1>. QED  BY <1>1, <1>2, <1>3, <1>4, <1>5, EntersWithKey DEF FromRaws

LEMMA FoundKey ==
  ASSUME TypedInv, OnePerKey, NEW c \in Calls, NEW size \in Sizes, Found(c, size)
  PROVE  OnePerKey' /\ (RowsHeld => RowsHeld')
<1>. DEFINE raw == RawOf(calls[c], "active")
            kept == Kept(calls[c])
            list == Superseded(kept.raws, calls[c].old)
            others == kept.rows
<1>1. /\ calls[c].phase = "extract" /\ raws' = Append(list, raw)
      /\ rows' = [others EXCEPT ![calls[c].num] = raw]
  BY DEF Found
<1>2. InFlight(c) /\ RawsInv /\ RawsOK /\ FactsOK
  BY <1>1, CallIs DEF TypedInv, RawsInv
<1>3. raw \in RawRecords /\ raw.num = calls[c].num /\ raw.key = calls[c].key
  BY <1>2, RawIs DEF Statuses
<1>4. FromRaws(kept.raws) /\ others \in [Nums -> {None} \cup RawRecords]
  BY <1>2, KeptIs
<1>5. kept.raws = Kept(calls[c]).raws /\ others = Kept(calls[c]).rows
  OBVIOUS
<1>. HIDE DEF raw, kept, others
<1>6. /\ list \in Seq(RawRecords) /\ DOMAIN list = DOMAIN kept.raws
      /\ \A i \in DOMAIN list : list[i].ver = kept.raws[i].ver /\ list[i].num = kept.raws[i].num
                                /\ list[i].key = kept.raws[i].key
  <2>1. kept.raws \in Seq(RawRecords) /\ "superseded" \in Statuses
    BY <1>4 DEF FromRaws, Statuses
  <2>. QED  BY <2>1, MarkedRaws DEF Superseded
<1>. HIDE DEF list
<1>. QED  BY <1>1, <1>2, <1>3, <1>4, <1>5, <1>6, EntersWithKey

LEMMA KeyOfMarked ==
  ASSUME TypedInv, OnePerKey, NEW S, NEW status \in Statuses, raws' = Marked(raws, S, status),
         facts' \in Seq(FactRecords), Snapshot
  PROVE  OnePerKey' /\ (RowsHeld => RowsHeld')
<1>1. RawsInv /\ FactsOK /\ raws \in Seq(RawRecords)
  BY DEF TypedInv, RawsInv, RawsOK
<1>2. FromRaws(raws')
  BY <1>1, FromSame, FromMarked
<1>3. rows' = RawSnapshot(raws') \/ rows' = rows
  BY <1>1, SnapshotIs
<1>4. DOMAIN raws' = DOMAIN raws /\ \A i \in DOMAIN raws :
        raws'[i].ver = raws[i].ver /\ raws'[i].key = raws[i].key /\ raws'[i].num = raws[i].num
  BY <1>1, MarkedRaws
<1>. QED  BY <1>2, <1>3, <1>4, KeysOfSome, RowsOfSnapshot

LEMMA KeyInitially == SessionInit => KeyInv
<1>. SUFFICES ASSUME SessionInit PROVE KeyInv
  OBVIOUS
<1>1. raws = <<>> /\ rows = [n \in Nums |-> None] /\ DOMAIN <<>> = {}
  BY DEF SessionInit
<1>. QED  BY <1>1, TypedInitially DEF KeyInv, OnePerKey, RowsHeld, RowIsHeld

LEMMA KeyNext == KeyAssumption /\ KeyInv /\ [SessionNext]_sessionVars => KeyInv'
<1>. SUFFICES ASSUME KeyAssumption, KeyInv, [SessionNext]_sessionVars PROVE KeyInv'
  OBVIOUS
<1>. DEFINE Goal == OnePerKey' /\ ("purge" \notin Events => RowsHeld')
<1>. SUFFICES Goal
  BY TypedNext DEF KeyInv
<1>1. /\ TypedInv /\ OnePerKey /\ TypedInv' /\ RawsInv /\ FactsOK
      /\ "purge" \notin Events => RowsHeld
  BY TypedNext DEF KeyInv, TypedInv
<1>2. ASSUME UNCHANGED <<raws, rows>> PROVE Goal
  BY <1>1, <1>2 DEF OnePerKey, RowsHeld, RowIsHeld
<1>3. ASSUME NEW c \in Calls, NEW n \in Nums, NEW k \in Keys, Store(c, n, k) PROVE Goal
  BY <1>2, <1>3 DEF Store
<1>4. ASSUME NEW c \in Calls, Locked(c) PROVE Goal
  BY <1>2, <1>4 DEF Locked
<1>5. ASSUME NEW c \in Calls, TimedOut(c) \/ FoundNothing(c) PROVE Goal
  <2>1. "active" \in Statuses /\ "extraction_failed" \in Statuses
    BY DEF Statuses
  <2>. QED  BY <1>1, <1>5, <2>1, EndsKey DEF TimedOut, FoundNothing
<1>6. ASSUME NEW c \in Calls, NEW size \in Sizes, Found(c, size) PROVE Goal
  BY <1>1, <1>6, FoundKey
<1>7. facts' \in Seq(FactRecords)
  BY <1>1 DEF TypedInv, FactsOK
<1>8. ASSUME NEW a \in HeldArtifacts, Edit(a) PROVE Goal
  <2>1. raws' = Marked(raws, {e \in Of(raws, a) : e.status = "active"}, "superseded") /\ Snapshot
    BY <1>1, <1>8, EditIs
  <2>2. "superseded" \in Statuses
    BY DEF Statuses
  <2>. QED  BY <1>1, <1>7, <2>1, <2>2, KeyOfMarked
<1>9. ASSUME NEW a \in HeldArtifacts, Retract(a) \/ Redact(a) PROVE Goal
  <2>1. PICK status \in {"retracted", "redacted"} : raws' = Marked(raws, Of(raws, a), status) /\ Snapshot
    BY <1>9 DEF Retract, Redact
  <2>2. status \in Statuses
    BY DEF Statuses
  <2>. QED  BY <1>1, <1>7, <2>1, <2>2, KeyOfMarked
<1>10. ASSUME NEW a \in HeldArtifacts, "purge" \in Events, Purge(a) PROVE Goal
  <2>. DEFINE I == {i \in DOMAIN raws : raws[i].art # a}
  <2>1. raws' = Sublist(raws, I) /\ I \in SUBSET (DOMAIN raws)
    BY <1>10 DEF Purge
  <2>2. FromRaws(raws')
    <3>. HIDE DEF I
    <3>. QED  BY <1>1, <2>1, FromSublist
  <2>. QED  BY <1>1, <1>10, <2>2, KeysOfSome
<1>11. ASSUME "restart" \in Events, Restart PROVE Goal
  <2>1. rows' = rows /\ RowsHeld
    BY <1>1, <1>11 DEF Restart, KeyAssumption
  <2>2. /\ \A i \in DOMAIN raws' : \E n \in Nums : rows[n] # None /\ raws'[i] = rows[n]
        /\ \A n \in Nums : rows[n] # None => \E i \in DOMAIN raws' : raws'[i] = rows[n]
        /\ \A i, j \in DOMAIN raws' : raws'[i].ver = raws'[j].ver => i = j
    BY <1>1, <1>11, RestartIs
  <2>3. ASSUME NEW i \in DOMAIN raws', NEW j \in DOMAIN raws',
               raws'[i].key = raws'[j].key, raws'[i].key # NoKey
        PROVE  i = j
    <3>1. PICK m \in Nums : rows[m] # None /\ raws'[i] = rows[m]
      BY <2>2
    <3>2. PICK n \in Nums : rows[n] # None /\ raws'[j] = rows[n]
      BY <2>2
    <3>3. PICK g \in DOMAIN raws : raws[g].ver = rows[m].ver /\ raws[g].key = rows[m].key /\ raws[g].num = m
      BY <2>1, <2>3, <3>1 DEF RowsHeld, RowIsHeld
    <3>4. PICK h \in DOMAIN raws : raws[h].ver = rows[n].ver /\ raws[h].key = rows[n].key /\ raws[h].num = n
      BY <2>1, <2>3, <3>1, <3>2 DEF RowsHeld, RowIsHeld
    <3>5. g = h
      BY <1>1, <2>3, <3>1, <3>2, <3>3, <3>4 DEF OnePerKey
    <3>. QED  BY <2>2, <3>1, <3>2, <3>3, <3>4, <3>5
  <2>4. ASSUME NEW n \in Nums, rows'[n] # None
        PROVE  \E i \in DOMAIN raws' : raws'[i].ver = rows'[n].ver /\ raws'[i].key = rows'[n].key
                                       /\ raws'[i].num = n
    <3>1. rows[n].num = n
      BY <1>1, <2>1, <2>4 DEF RawsInv, VersionInv
    <3>. QED  BY <2>1, <2>2, <2>4, <3>1
  <2>. QED  BY <2>3, <2>4 DEF OnePerKey, RowsHeld, RowIsHeld
<1>12. CASE UNCHANGED sessionVars
  BY <1>2, <1>12 DEF sessionVars
<1>. HIDE DEF Goal
<1>. QED  BY <1>3, <1>4, <1>5, <1>6, <1>8, <1>9, <1>10, <1>11, <1>12 DEF SessionNext, KeyAssumption

(* An upsert replaces the session of its key wherever that is numbered:    *)
(* however calls for one key wait for each other, time out, find nothing   *)
(* or overlap with others of their number, and through edits, retractions, *)
(* redactions and restarts, no two sessions of a key are in memory.  Two   *)
(* provisos: every text can be canonicalized, and no key is both purged    *)
(* from and opened again.                                                  *)
THEOREM KeysAreReplaced ==
  ASSUME KeyAssumption
  PROVE  SessionSpec => []OnePerKey
<1>1. KeyInv => OnePerKey
  BY DEF KeyInv
<1>2. KeyInv /\ [SessionNext]_sessionVars => KeyInv'
  BY KeyNext
<1>. QED  BY <1>1, <1>2, KeyInitially, PTL DEF SessionSpec
-----------------------------------------------------------------------------
(* One version of a session is current, in a process that is not           *)
(* restarted.  What makes it so is older than the step that could break    *)
(* it: a call in flight still names the version that the index has, since  *)
(* no other call or operation for its number came in between.              *)
ActiveInv ==
  \A i \in DOMAIN facts : facts[i].status = "active" =>
    /\ current[facts[i].num] # None
    /\ current[facts[i].num].ver = facts[i].ver /\ current[facts[i].num].art = facts[i].art

CallsInv ==
  \A c \in Calls : InFlight(c) =>
    /\ calls[c].old = current[calls[c].num].ver
    /\ current[calls[c].num] # None => calls[c].art = current[calls[c].num].art
    /\ \A d \in Calls : InFlight(d) /\ calls[d].num = calls[c].num => d = c

CurrentInv == TypedInv /\ ActiveInv /\ CallsInv /\ "overlap" \notin Events

(* What a fact says of its session. *)
LEMMA FactIs ==
  ASSUME FactsOK, NEW i \in DOMAIN facts
  PROVE  facts[i].num \in Nums /\ facts[i].ver \in Versions /\ facts[i].art \in Versions
<1>1. facts[i] \in FactRecords
  BY DEF FactsOK
<1>. QED  BY <1>1 DEF FactRecords

LEMMA CurrentInitially == "overlap" \notin Events /\ SessionInit => CurrentInv
<1>. SUFFICES ASSUME "overlap" \notin Events, SessionInit PROVE CurrentInv
  OBVIOUS
<1>1. facts = <<>> /\ calls = [c \in Calls |-> NoCall] /\ DOMAIN <<>> = {}
  BY DEF SessionInit
<1>. QED  BY <1>1, TypedInitially DEF CurrentInv, ActiveInv, CallsInv, InFlight

LEMMA StoreCurrent ==
  ASSUME CurrentInv, NEW c \in Calls, NEW n \in Nums, NEW k \in Keys, Store(c, n, k)
  PROVE  ActiveInv' /\ CallsInv'
<1>. DEFINE new == [num |-> n, key |-> k, ver |-> last', old |-> current[n].ver,
                    art |-> IF current[n] = None THEN last' ELSE current[n].art,
                    phase |-> IF k = NoKey THEN "extract" ELSE "lock"]
<1>1. /\ ~InFlight(c) /\ Quiet(n) /\ calls' = [calls EXCEPT ![c] = new]
      /\ UNCHANGED <<facts, current>>
  BY DEF Store
<1>2. /\ new.num = n /\ new.old = current[n].ver /\ (current[n] # None => new.art = current[n].art)
  OBVIOUS
<1>. HIDE DEF new
<1>3. \A d \in Calls : calls'[d] = IF d = c THEN new ELSE calls[d]
  BY <1>1 DEF CurrentInv, TypedInv, RawsInv, RawsOK
<1>4. \A d \in Calls : (InFlight(d))' /\ d # c => InFlight(d) /\ calls[d].num # n
  BY <1>1, <1>3 DEF InFlight, Quiet, CurrentInv
<1>5. CallsInv'
  BY <1>1, <1>2, <1>3, <1>4 DEF CurrentInv, CallsInv
<1>6. ActiveInv'
  BY <1>1 DEF CurrentInv, ActiveInv
<1>. QED  BY <1>5, <1>6

(* The calls that are left when one ends, or goes on.                      *)
LEMMA FreeCalls ==
  ASSUME CurrentInv, NEW c \in Calls, Free(c), current' = current
  PROVE  CallsInv'
<1>1. \A d \in Calls : (InFlight(d))' => InFlight(d) /\ calls'[d] = calls[d]
  BY DEF CurrentInv, TypedInv, RawsInv, RawsOK, Free, InFlight
<1>. QED  BY <1>1 DEF CurrentInv, CallsInv

LEMMA LockedCurrent ==
  ASSUME CurrentInv, NEW c \in Calls, Locked(c)
  PROVE  ActiveInv' /\ CallsInv'
<1>1. /\ calls[c].phase = "lock" /\ calls' = [calls EXCEPT ![c].phase = "extract"]
      /\ UNCHANGED <<facts, current>>
  BY DEF Locked
<1>2. InFlight(c) /\ calls[c] \in CallRecords
  BY <1>1, CallIs DEF CurrentInv, TypedInv, RawsInv
<1>3. \A k \in CallRecords : LET l == [k EXCEPT !.phase = "extract"]
                             IN l.num = k.num /\ l.old = k.old /\ l.art = k.art
  BY DEF CallRecords
<1>4. \A d \in Calls : calls'[d] = IF d = c THEN [calls[c] EXCEPT !.phase = "extract"] ELSE calls[d]
  BY <1>1 DEF CurrentInv, TypedInv, RawsInv, RawsOK
<1>5. \A d \in Calls : calls'[d].num = calls[d].num /\ calls'[d].old = calls[d].old
                       /\ calls'[d].art = calls[d].art
  BY <1>2, <1>3, <1>4
<1>6. \A d \in Calls : (InFlight(d))' => InFlight(d)
  BY <1>2, <1>4 DEF InFlight
<1>7. CallsInv'
  BY <1>1, <1>5, <1>6 DEF CurrentInv, CallsInv
<1>8. ActiveInv'
  BY <1>1 DEF CurrentInv, ActiveInv
<1>. QED  BY <1>7, <1>8

LEMMA EndsCurrent ==
  ASSUME CurrentInv, NEW c \in Calls, NEW status \in Statuses, Ends(c, status)
  PROVE  ActiveInv' /\ CallsInv'
<1>1. calls[c].phase = "extract" /\ facts' = Kept(calls[c]).facts /\ Free(c) /\ current' = current
  BY DEF Ends
<1>2. InFlight(c) /\ RawsInv /\ FactsOK
  BY <1>1, CallIs DEF CurrentInv, TypedInv, RawsInv
<1>3. FromFacts(facts')
  BY <1>1, <1>2, KeptIs
<1>4. ActiveInv'
  BY <1>1, <1>3 DEF CurrentInv, ActiveInv, FromFacts
<1>. QED  BY <1>1, <1>4, FreeCalls

LEMMA FoundCurrent ==
  ASSUME CurrentInv, NEW c \in Calls, NEW size \in Sizes, Found(c, size)
  PROVE  ActiveInv' /\ CallsInv'
<1>. DEFINE call == calls[c]
            kept == Kept(call)
            before == Superseded(kept.facts, call.old)
            new == NewFacts(call, size)
            entry == [art |-> call.art, ver |-> call.ver]
<1>1. /\ call.phase = "extract" /\ facts' = before \o new
      /\ current' = [current EXCEPT ![call.num] = entry]
      /\ calls' = [calls EXCEPT ![c] = NoCall]
  BY DEF Found, Free
<1>2. InFlight(c) /\ RawsInv /\ RawsOK /\ FactsOK
  BY <1>1, CallIs DEF CurrentInv, TypedInv, RawsInv
<1>3. FromFacts(kept.facts)
  BY <1>2, KeptIs
<1>4. /\ new \in Seq(FactRecords) /\ DOMAIN new = 1..size /\ size \in Nat
      /\ \A k \in 1..size : new[k].ver = call.ver /\ new[k].art = call.art /\ new[k].num = call.num
  BY <1>2, SessionAssumption, NewFactsAre
<1>5. call.num \in Nums /\ call.ver \in Versions /\ call.art \in Versions
  BY <1>2, CallIs
<1>6. entry.art = call.art /\ entry.ver = call.ver /\ entry # None
  BY <1>5, NoneIs DEF Versions
<1>. HIDE DEF kept, new, entry
<1>7. /\ before \in Seq(FactRecords) /\ DOMAIN before = DOMAIN kept.facts
      /\ \A i \in DOMAIN before :
           /\ before[i].ver = kept.facts[i].ver /\ before[i].art = kept.facts[i].art
           /\ before[i].num = kept.facts[i].num
           /\ before[i].status = "active" =>
                kept.facts[i].ver # call.old /\ kept.facts[i].status = "active"
  <2>. DEFINE S == {e \in ToSet(kept.facts) : e.ver = call.old}
  <2>1. before = Marked(kept.facts, S, "superseded") /\ kept.facts \in Seq(FactRecords)
        /\ "superseded" \in Statuses
    BY <1>3 DEF Superseded, FromFacts, Statuses
  <2>2. \A i \in DOMAIN kept.facts : kept.facts[i] \in S <=> kept.facts[i].ver = call.old
    BY DEF ToSet
  <2>. HIDE DEF S, before
  <2>3. /\ before \in Seq(FactRecords) /\ DOMAIN before = DOMAIN kept.facts
        /\ \A i \in DOMAIN kept.facts :
             /\ before[i].ver = kept.facts[i].ver /\ before[i].art = kept.facts[i].art
             /\ before[i].num = kept.facts[i].num
             /\ before[i].status = IF kept.facts[i] \in S THEN "superseded" ELSE kept.facts[i].status
    BY <2>1, MarkedFacts
  <2>. QED  BY <2>2, <2>3
<1>. HIDE DEF before
<1>8. \A n \in Nums : current'[n] = IF n = call.num THEN entry ELSE current[n]
  BY <1>1, <1>2 DEF FactsOK
<1>9. ASSUME NEW i \in DOMAIN before, before[i].status = "active"
      PROVE  /\ before[i].num \in Nums /\ before[i].num # call.num
             /\ current[before[i].num] # None
             /\ current[before[i].num].ver = before[i].ver /\ current[before[i].num].art = before[i].art
  <2>1. PICK j \in DOMAIN facts : kept.facts[i] = facts[j]
    BY <1>3, <1>7 DEF FromFacts
  <2>2. facts[j].status = "active" /\ facts[j].ver # call.old
    BY <1>7, <1>9, <2>1
  <2>3. /\ current[facts[j].num] # None /\ current[facts[j].num].ver = facts[j].ver
        /\ current[facts[j].num].art = facts[j].art
    BY <2>2 DEF CurrentInv, ActiveInv
  <2>4. call.old = current[call.num].ver
    BY <1>2 DEF CurrentInv, CallsInv
  <2>5. facts[j].num \in Nums
    BY <1>2, FactIs
  <2>. QED  BY <1>7, <2>1, <2>2, <2>3, <2>4, <2>5
<1>10. ASSUME NEW i \in DOMAIN facts', facts'[i].status = "active"
       PROVE  /\ current'[facts'[i].num] # None
              /\ current'[facts'[i].num].ver = facts'[i].ver
              /\ current'[facts'[i].num].art = facts'[i].art
  <2>1. \/ i \in DOMAIN before /\ facts'[i] = before[i]
        \/ \E k \in 1..size : facts'[i] = new[k]
    <3>1. /\ Len(before) \in Nat /\ DOMAIN before = 1..Len(before) /\ Len(new) = size
          /\ DOMAIN facts' = 1..Len(before) + size
          /\ facts'[i] = IF i <= Len(before) THEN before[i] ELSE new[i - Len(before)]
      <4>1. Len(before) \in Nat /\ DOMAIN before = 1..Len(before) /\ Len(new) = size
        BY <1>4, <1>7
      <4>2. DOMAIN facts' = 1..Len(before) + size
        <5>1. before \o new \in Seq(FactRecords) /\ Len(before \o new) = Len(before) + Len(new)
          BY <1>4, <1>7, ConcatProperties
        <5>. QED  BY <1>1, <4>1, <5>1
      <4>. QED  BY <1>1, <1>4, <1>7, <1>10, <4>1, <4>2, ConcatProperties
    <3>. QED  BY <1>4, <3>1
  <2>2. CASE i \in DOMAIN before /\ facts'[i] = before[i]
    BY <1>8, <1>9, <1>10, <2>2
  <2>3. CASE \E k \in 1..size : facts'[i] = new[k]
    BY <1>4, <1>5, <1>6, <1>8, <2>3
  <2>. QED  BY <2>1, <2>2, <2>3
<1>11. ActiveInv'
  BY <1>10 DEF ActiveInv
<1>12. \A d \in Calls : (InFlight(d))' => d # c /\ InFlight(d) /\ calls'[d] = calls[d]
  BY <1>1, <1>2 DEF RawsOK, InFlight
<1>13. \A d \in Calls : (InFlight(d))' => calls[d].num \in Nums /\ calls[d].num # call.num
  BY <1>2, <1>12, CallIs DEF CurrentInv, CallsInv
<1>14. CallsInv'
  BY <1>8, <1>12, <1>13 DEF CurrentInv, CallsInv
<1>. QED  BY <1>11, <1>14
LEMMA EditCurrent ==
  ASSUME CurrentInv, NEW a, Edit(a)
  PROVE  ActiveInv' /\ CallsInv'
<1>1. RawsInv /\ RawsOK /\ FactsOK /\ facts \in Seq(FactRecords)
  BY DEF CurrentInv, TypedInv, RawsInv, FactsOK
<1>. DEFINE S == {e \in Of(facts, a) : e.status = "active"}
            marked == Marked(facts, S, "superseded")
            entry == [art |-> a, ver |-> last']
<1>2. PICK i \in DOMAIN facts :
           /\ facts[i].art = a /\ facts[i].status = "active"
           /\ Alone(a) /\ last < MaxVersions /\ last' = last + 1
           /\ facts' = Append(marked, Successor(facts[i]))
           /\ current' = [current EXCEPT ![facts[i].num] = entry]
           /\ calls' = calls
  BY <1>1, EditIs
<1>. DEFINE n == facts[i].num
            next == Successor(facts[i])
<1>3. n \in Nums /\ last' \in Versions /\ last' # 0
  BY <1>1, <1>2, FactIs, SessionAssumption DEF RawsOK, Versions
<1>4. /\ next \in FactRecords /\ next.ver = last' /\ next.art = a /\ next.num = n
  BY <1>1, <1>2, <1>3, SuccessorIs
<1>5. entry.art = a /\ entry.ver = last' /\ entry # None
  BY <1>3, NoneIs
<1>6. \A j \in DOMAIN facts : facts[j] \in S <=> facts[j].art = a /\ facts[j].status = "active"
  BY DEF Of, ToSet
<1>. HIDE DEF S, entry, next
<1>7. /\ marked \in Seq(FactRecords) /\ DOMAIN marked = DOMAIN facts
      /\ \A j \in DOMAIN facts :
           /\ marked[j].ver = facts[j].ver /\ marked[j].art = facts[j].art
           /\ marked[j].num = facts[j].num
           /\ marked[j].status = "active" => facts[j].status = "active" /\ facts[j].art # a
  <2>1. "superseded" \in Statuses
    BY DEF Statuses
  <2>2. /\ marked \in Seq(FactRecords) /\ DOMAIN marked = DOMAIN facts
        /\ \A j \in DOMAIN facts :
             /\ marked[j].ver = facts[j].ver /\ marked[j].art = facts[j].art
             /\ marked[j].num = facts[j].num
             /\ marked[j].status = IF facts[j] \in S THEN "superseded" ELSE facts[j].status
    BY <1>1, <2>1, MarkedFacts
  <2>. QED  BY <1>6, <2>2
<1>. HIDE DEF marked
<1>8. \A m \in Nums : current'[m] = IF m = n THEN entry ELSE current[m]
  BY <1>1, <1>2 DEF FactsOK
<1>9. current[n] # None /\ current[n].art = a
  BY <1>2 DEF CurrentInv, ActiveInv
<1>10. \A j \in DOMAIN facts' : facts'[j] = next \/ (j \in DOMAIN facts /\ facts'[j] = marked[j])
  <2>1. facts' = Append(marked, next)
    BY <1>2 DEF next
  <2>2. Len(marked) \in Nat /\ DOMAIN marked = 1..Len(marked)
    BY <1>7
  <2>3. /\ Append(marked, next) \in Seq(FactRecords) /\ Len(Append(marked, next)) = Len(marked) + 1
        /\ Append(marked, next)[Len(marked) + 1] = next
        /\ \A j \in 1..Len(marked) : Append(marked, next)[j] = marked[j]
    BY <1>4, <1>7, AppendProperties
  <2>4. DOMAIN facts' = 1..Len(marked) + 1
    <3>1. DOMAIN Append(marked, next) = 1..Len(Append(marked, next))
      BY <2>3, LenProperties
    <3>. QED  BY <2>1, <2>3, <3>1
  <2>. QED  BY <1>7, <2>1, <2>2, <2>3, <2>4
<1>. HIDE DEF n
<1>11. ASSUME NEW j \in DOMAIN facts', facts'[j].status = "active"
       PROVE  /\ current'[facts'[j].num] # None
              /\ current'[facts'[j].num].ver = facts'[j].ver
              /\ current'[facts'[j].num].art = facts'[j].art
  <2>1. CASE facts'[j] = next
    BY <1>3, <1>4, <1>5, <1>8, <2>1
  <2>2. CASE j \in DOMAIN facts /\ facts'[j] = marked[j]
    <3>1. facts[j].status = "active" /\ facts[j].art # a /\ facts[j].num \in Nums
      BY <1>1, <1>7, <1>11, <2>2, FactIs
    <3>2. /\ current[facts[j].num] # None /\ current[facts[j].num].ver = facts[j].ver
          /\ current[facts[j].num].art = facts[j].art
      BY <2>2, <3>1 DEF CurrentInv, ActiveInv
    <3>3. facts[j].num # n
      BY <1>9, <3>1, <3>2
    <3>. QED  BY <1>7, <1>8, <2>2, <3>1, <3>2, <3>3
  <2>. QED  BY <1>10, <2>1, <2>2
<1>12. ActiveInv'
  BY <1>11 DEF ActiveInv
<1>13. \A d \in Calls : InFlight(d) => calls[d].num \in Nums /\ calls[d].num # n
  <2>1. \A d \in Calls : InFlight(d) => calls[d].num \in Nums /\ calls[d].art # a
    BY <1>1, <1>2, CallIs DEF Alone, CurrentInv
  <2>. QED  BY <1>9, <2>1 DEF CurrentInv, CallsInv
<1>14. CallsInv'
  BY <1>2, <1>8, <1>13 DEF CurrentInv, CallsInv, InFlight
<1>. QED  BY <1>12, <1>14

(* Retract, purge and redact: no fact of the artifact is left active.      *)
LEMMA WithdrawnCurrent ==
  ASSUME CurrentInv, NEW a, Alone(a), calls' = calls,
         current' = Without(a) \/ current' = current,
         \A i \in DOMAIN facts' : facts'[i].status = "active" =>
           \E j \in DOMAIN facts : /\ facts[j].status = "active" /\ facts[j].art # a
                                   /\ facts'[i].num = facts[j].num /\ facts'[i].ver = facts[j].ver
                                   /\ facts'[i].art = facts[j].art
  PROVE  ActiveInv' /\ CallsInv'
<1>1. FactsOK /\ RawsOK
  BY DEF CurrentInv, TypedInv, RawsInv
<1>2. \A n \in Nums : current'[n] = current[n] \/ (current[n] # None /\ current[n].art = a)
  <2>1. CASE current' = current
    BY <2>1
  <2>2. CASE current' = Without(a)
    BY <2>2 DEF Without
  <2>. QED  BY <2>1, <2>2
<1>3. ASSUME NEW i \in DOMAIN facts', facts'[i].status = "active"
      PROVE  /\ current'[facts'[i].num] # None
             /\ current'[facts'[i].num].ver = facts'[i].ver
             /\ current'[facts'[i].num].art = facts'[i].art
  <2>1. PICK j \in DOMAIN facts : /\ facts[j].status = "active" /\ facts[j].art # a
                                  /\ facts'[i].num = facts[j].num /\ facts'[i].ver = facts[j].ver
                                  /\ facts'[i].art = facts[j].art
    BY <1>3
  <2>2. /\ current[facts[j].num] # None /\ current[facts[j].num].ver = facts[j].ver
        /\ current[facts[j].num].art = facts[j].art
    BY <2>1 DEF CurrentInv, ActiveInv
  <2>3. facts[j].num \in Nums
    BY <1>1, FactIs
  <2>. QED  BY <1>2, <2>1, <2>2, <2>3
<1>4. ActiveInv'
  BY <1>3 DEF ActiveInv
<1>5. ASSUME NEW c \in Calls, InFlight(c)
      PROVE  current'[calls[c].num] = current[calls[c].num]
  <2>1. calls[c].num \in Nums /\ calls[c].art # a
    BY <1>1, <1>5, CallIs DEF Alone, CurrentInv
  <2>. QED  BY <1>2, <1>5, <2>1 DEF CurrentInv, CallsInv
<1>6. CallsInv'
  BY <1>5 DEF CurrentInv, CallsInv, InFlight
<1>. QED  BY <1>4, <1>6

LEMMA LifecycleCurrent ==
  ASSUME CurrentInv, NEW a, Retract(a) \/ Purge(a) \/ Redact(a)
  PROVE  ActiveInv' /\ CallsInv'
<1>1. FactsOK /\ facts \in Seq(FactRecords)
  BY DEF CurrentInv, TypedInv, FactsOK
<1>2. ASSUME NEW status \in {"retracted", "redacted"}, facts' = Marked(facts, Of(facts, a), status)
      PROVE  \A i \in DOMAIN facts' : facts'[i].status = "active" =>
               \E j \in DOMAIN facts : /\ facts[j].status = "active" /\ facts[j].art # a
                                       /\ facts'[i].num = facts[j].num /\ facts'[i].ver = facts[j].ver
                                       /\ facts'[i].art = facts[j].art
  <2>1. status \in Statuses /\ status # "active"
    BY DEF Statuses
  <2>2. \A j \in DOMAIN facts : facts[j] \in Of(facts, a) <=> facts[j].art = a
    BY DEF Of, ToSet
  <2>3. /\ DOMAIN facts' = DOMAIN facts
        /\ \A j \in DOMAIN facts :
             /\ facts'[j].ver = facts[j].ver /\ facts'[j].art = facts[j].art
             /\ facts'[j].num = facts[j].num
             /\ facts'[j].status = IF facts[j] \in Of(facts, a) THEN status ELSE facts[j].status
    BY <1>1, <1>2, <2>1, MarkedFacts
  <2>. QED  BY <2>1, <2>2, <2>3
<1>3. CASE Retract(a)
  BY <1>2, <1>3, WithdrawnCurrent DEF Retract
<1>4. CASE Redact(a)
  BY <1>2, <1>4, WithdrawnCurrent DEF Redact
<1>5. CASE Purge(a)
  <2>. DEFINE J == {i \in DOMAIN facts : facts[i].art # a}
  <2>1. facts' = Sublist(facts, J) /\ J \in SUBSET (DOMAIN facts) /\ \A j \in J : facts[j].art # a
    BY <1>5 DEF Purge
  <2>. HIDE DEF J
  <2>2. \A i \in DOMAIN facts' : \E j \in J : facts'[i] = facts[j]
    BY <1>1, <2>1, SublistOf
  <2>3. \A i \in DOMAIN facts' : facts'[i].status = "active" =>
               \E j \in DOMAIN facts : /\ facts[j].status = "active" /\ facts[j].art # a
                                       /\ facts'[i].num = facts[j].num /\ facts'[i].ver = facts[j].ver
                                       /\ facts'[i].art = facts[j].art
    BY <2>1, <2>2
  <2>. QED  BY <1>5, <2>3, WithdrawnCurrent DEF Purge
<1>. QED  BY <1>3, <1>4, <1>5

LEMMA CurrentNext ==
  "restart" \notin Events /\ CurrentInv /\ [SessionNext]_sessionVars => CurrentInv'
<1>. SUFFICES ASSUME "restart" \notin Events, CurrentInv, [SessionNext]_sessionVars
              PROVE  CurrentInv'
  OBVIOUS
<1>. DEFINE Goal == ActiveInv' /\ CallsInv'
<1>. SUFFICES Goal
  BY TypedNext DEF CurrentInv
<1>1. ASSUME NEW c \in Calls, NEW n \in Nums, NEW k \in Keys, Store(c, n, k) PROVE Goal
  BY <1>1, StoreCurrent
<1>2. ASSUME NEW c \in Calls, Locked(c) PROVE Goal
  BY <1>2, LockedCurrent
<1>3. ASSUME NEW c \in Calls, Unready(c) PROVE Goal
  <2>1. Free(c) /\ UNCHANGED <<facts, current>>
    BY <1>3 DEF Unready
  <2>2. ActiveInv'
    BY <2>1 DEF CurrentInv, ActiveInv
  <2>. QED  BY <2>1, <2>2, FreeCalls
<1>4. ASSUME NEW c \in Calls, TimedOut(c) \/ FoundNothing(c) PROVE Goal
  <2>1. "active" \in Statuses /\ "extraction_failed" \in Statuses
    BY DEF Statuses
  <2>. QED  BY <1>4, <2>1, EndsCurrent DEF TimedOut, FoundNothing
<1>5. ASSUME NEW c \in Calls, NEW size \in Sizes, Found(c, size) PROVE Goal
  BY <1>5, FoundCurrent
<1>6. ASSUME NEW a \in HeldArtifacts, Edit(a) PROVE Goal
  BY <1>6, EditCurrent
<1>7. ASSUME NEW a \in HeldArtifacts, Retract(a) \/ Purge(a) \/ Redact(a) PROVE Goal
  BY <1>7, LifecycleCurrent
<1>8. CASE UNCHANGED sessionVars
  BY <1>8 DEF sessionVars, CurrentInv, ActiveInv, CallsInv, InFlight
<1>. HIDE DEF Goal
<1>. QED  BY <1>1, <1>2, <1>3, <1>4, <1>5, <1>6, <1>7, <1>8 DEF SessionNext

(* One version of a session is current: whatever is stored, edited,        *)
(* replaced by its key, retracted, purged or redacted in one process, and  *)
(* whatever of it times out, the facts of a number that a recall may use   *)
(* are all of the version the index knows of, if what is of one number     *)
(* comes in turn.                                                          *)
THEOREM OneVersionIsActive ==
  ASSUME "restart" \notin Events, "overlap" \notin Events
  PROVE  SessionSpec => []OneActive
<1>1. CurrentInv => OneActive
  BY DEF CurrentInv, ActiveInv, OneActive, Active
<1>2. CurrentInv /\ [SessionNext]_sessionVars => CurrentInv'
  BY CurrentNext
<1>3. SessionInit => CurrentInv
  BY CurrentInitially
<1>. QED  BY <1>1, <1>2, <1>3, PTL DEF SessionSpec
-----------------------------------------------------------------------------
(* What is active in memory keeps its row, in a process that is not        *)
(* restarted and whose calls have no keys.  The ids that store() and edit  *)
(* give have two parts; the third, which a list gives to an id that it has *)
(* already, is the position, so that no two rows get the same.             *)
TwoParts(list) == \A i \in DOMAIN list : Len(list[i].id) = 2

Fits(e, f, i) ==
  /\ e.ver = f.ver /\ e.status = f.status
  /\ (e.id = f.id \/ e.id = Append(f.id, i - 1))

LEMMA PartsOf ==
  ASSUME NEW id \in Seq(Nat), Len(id) = 2, NEW p \in Nat
  PROVE  /\ SubSeq(id, 1, 2) = id /\ SubSeq(Append(id, p), 1, 2) = id
         /\ Len(Append(id, p)) = 3 /\ Append(id, p)[3] = p
<1>1. ASSUME NEW t, t = Append(id, p)
      PROVE  t \in Seq(Nat) /\ Len(t) = 3 /\ t[3] = p /\ t[1] = id[1] /\ t[2] = id[2]
  <2>1. t \in Seq(Nat) /\ Len(t) = Len(id) + 1 /\ t[Len(id) + 1] = p
    BY <1>1, AppendProperties
  <2>2. t[1] = id[1] /\ t[2] = id[2]
    BY <1>1
  <2>. QED  BY <2>1, <2>2
<1>2. id = <<id[1], id[2]>>
  OBVIOUS
<1>3. ASSUME NEW s \in Seq(Nat), Len(s) >= 2, s[1] = id[1], s[2] = id[2] PROVE SubSeq(s, 1, 2) = id
  <2>1. SubSeq(s, 1, 2) \in Seq(Nat) /\ Len(SubSeq(s, 1, 2)) = 2
        /\ SubSeq(s, 1, 2)[1] = s[1] /\ SubSeq(s, 1, 2)[2] = s[2]
    BY <1>3, SubSeqProperties
  <2>2. \A i \in 1..2 : i = 1 \/ i = 2
    OBVIOUS
  <2>3. Len(SubSeq(s, 1, 2)) = Len(id) /\ \A i \in 1..2 : SubSeq(s, 1, 2)[i] = id[i]
    BY <1>3, <2>1, <2>2
  <2>. QED  BY <2>1, <2>3, SeqEqual
<1>4. SubSeq(id, 1, 2) = id
  BY <1>3
<1>. DEFINE t == Append(id, p)
<1>5. t \in Seq(Nat) /\ Len(t) = 3 /\ t[3] = p /\ t[1] = id[1] /\ t[2] = id[2]
  BY <1>1
<1>. HIDE DEF t
<1>6. SubSeq(t, 1, 2) = id
  BY <1>3, <1>5
<1>. QED  BY <1>4, <1>5, <1>6 DEF t

LEMMA WithNextFits ==
  ASSUME NEW list \in Seq(FactRecords), TwoParts(list), NEW k \in 1..Len(list),
         NEW before \in Seq(FactRecords), Len(before) = k - 1, UniqueIds(before),
         \A i \in 1..k - 1 : Fits(before[i], list[i], i)
  PROVE  LET now == WithNext(list, k, before)
         IN /\ Len(now) = k /\ UniqueIds(now)
            /\ \A i \in 1..k : Fits(now[i], list[i], i)
<1>. DEFINE e == IF \E j \in DOMAIN before : before[j].id = list[k].id
                 THEN [list[k] EXCEPT !.id = Append(list[k].id, k - 1)]
                 ELSE list[k]
            now == WithNext(list, k, before)
<1>1. \A i \in 1..Len(list) : /\ list[i] \in FactRecords /\ list[i].id \in Seq(Nat)
                              /\ Len(list[i].id) = 2
  <2>1. \A i \in 1..Len(list) : list[i] \in FactRecords /\ i \in DOMAIN list
    OBVIOUS
  <2>2. \A f \in FactRecords : f.id \in Seq(Nat)
    BY DEF FactRecords
  <2>. QED  BY <2>1, <2>2 DEF TwoParts
<1>2. k \in Nat /\ k - 1 \in Nat /\ DOMAIN before = 1..k - 1 /\ \A i \in 1..k - 1 : i \in 1..Len(list)
  OBVIOUS
<1>3. \A f \in FactRecords, id \in Seq(Nat) :
        LET g == [f EXCEPT !.id = id]
        IN g \in FactRecords /\ g.id = id /\ g.ver = f.ver /\ g.status = f.status
  BY DEF FactRecords
<1>4. Append(list[k].id, k - 1) \in Seq(Nat)
  BY <1>1, <1>2
<1>5. e \in FactRecords /\ Fits(e, list[k], k)
  BY <1>1, <1>3, <1>4 DEF Fits
<1>6. \A i \in 1..k - 1 : before[i].id # e.id
  <2>1. CASE \E j \in DOMAIN before : before[j].id = list[k].id
    <3>1. e.id = Append(list[k].id, k - 1)
      BY <1>1, <1>3, <1>4, <2>1
    <3>2. Len(e.id) = 3 /\ e.id[3] = k - 1
      BY <1>1, <1>2, <3>1, PartsOf
    <3>. HIDE DEF e
    <3>3. ASSUME NEW i \in 1..k - 1 PROVE before[i].id # e.id
      <4>1. before[i].id = list[i].id \/ before[i].id = Append(list[i].id, i - 1)
        BY DEF Fits
      <4>2. Len(Append(list[i].id, i - 1)) = 3 /\ Append(list[i].id, i - 1)[3] = i - 1
        <5>1. i - 1 \in Nat
          BY <1>2
        <5>. QED  BY <1>1, <1>2, <5>1, PartsOf
      <4>3. i - 1 # k - 1 /\ Len(list[i].id) = 2
        BY <1>1, <1>2
      <4>. QED  BY <3>2, <4>1, <4>2, <4>3
    <3>. QED  BY <3>3
  <2>2. CASE ~\E j \in DOMAIN before : before[j].id = list[k].id
    BY <1>2, <2>2
  <2>. QED  BY <2>1, <2>2
<1>7. now = Append(before, e)
  BY DEF WithNext
<1>. HIDE DEF e, now
<1>8. /\ now \in Seq(FactRecords) /\ Len(now) = k /\ DOMAIN now = 1..k /\ now[k] = e
      /\ \A i \in 1..k - 1 : now[i] = before[i]
  BY <1>2, <1>5, <1>7
<1>9. \A i \in 1..k : i \in 1..k - 1 \/ i = k
  BY <1>2
<1>10. UniqueIds(now)
  BY <1>2, <1>6, <1>8, <1>9 DEF UniqueIds
<1>11. \A i \in 1..k : Fits(now[i], list[i], i)
  BY <1>5, <1>8, <1>9
<1>. QED  BY <1>8, <1>10, <1>11 DEF now

LEMMA DistinctFits ==
  ASSUME NEW list \in Seq(FactRecords), TwoParts(list)
  PROVE  /\ Distinct(list) \in Tables /\ DOMAIN Distinct(list) = DOMAIN list
         /\ \A i \in DOMAIN list : Fits(Distinct(list)[i], list[i], i)
<1>1. PICK done : DistinctBy(list, done)
  BY DistinctSteps
<1>. DEFINE N == Len(list)
            Good(k) == /\ Len(done[k]) = k /\ UniqueIds(done[k])
                       /\ \A i \in 1..k : Fits(done[k][i], list[i], i)
            S == {k \in 0..N : Good(k)}
<1>2. /\ N \in Nat /\ N \in 0..N /\ DOMAIN list = 1..N
      /\ \A k \in 0..N : done[k] \in Seq(FactRecords)
  <2>1. N \in Nat /\ N \in 0..N /\ DOMAIN list = 1..N
    OBVIOUS
  <2>2. done \in [0..N -> Seq(FactRecords)]
    BY <1>1 DEF DistinctBy
  <2>. HIDE DEF N
  <2>. QED  BY <2>1, <2>2
<1>3. 0 \in S
  <2>1. done[0] = <<>>
    BY <1>1 DEF DistinctBy
  <2>. QED  BY <1>2, <2>1 DEF UniqueIds
<1>4. ASSUME NEW k \in 0..N, k \in S, k < N PROVE k + 1 \in S
  <2>1. k + 1 \in 1..N /\ (k + 1) - 1 = k /\ k + 1 \in 0..N
    BY <1>2, <1>4
  <2>2. done[k + 1] = WithNext(list, k + 1, done[k])
    BY <1>1, <2>1 DEF DistinctBy
  <2>3. /\ done[k] \in Seq(FactRecords) /\ Len(done[k]) = (k + 1) - 1 /\ UniqueIds(done[k])
        /\ \A i \in 1..(k + 1) - 1 : Fits(done[k][i], list[i], i)
    BY <1>2, <1>4, <2>1
  <2>4. Good(k + 1)
    BY <2>1, <2>2, <2>3, WithNextFits
  <2>. HIDE DEF Good
  <2>. QED  BY <2>1, <2>4
<1>5. 0..N \subseteq S
  <2>. HIDE DEF S, N
  <2>. QED  BY <1>2, <1>3, <1>4, SetInductionTo
<1>6. Good(N)
  <2>. HIDE DEF Good
  <2>. QED  BY <1>2, <1>5
<1>7. Distinct(list) = done[N]
  BY <1>1 DEF DistinctBy
<1>. HIDE DEF N
<1>. QED  BY <1>2, <1>6, <1>7 DEF Tables

(* Who is written has a row, and who was there, unless its id was.         *)
LEMMA UpsertedHas ==
  ASSUME NEW table \in Tables, NEW row \in FactRecords
  PROVE  LET new == Upserted(table, row)
         IN /\ \E j \in DOMAIN new : new[j] = row
            /\ \A i \in DOMAIN table : table[i].id # row.id => \E j \in DOMAIN new : new[j] = table[i]
<1>1. table \in Seq(FactRecords) /\ Len(table) \in Nat /\ DOMAIN table = 1..Len(table)
  BY DEF Tables
<1>2. CASE Upserted(table, row) = Append(table, row)
  <2>1. /\ DOMAIN Append(table, row) = 1..Len(table) + 1 /\ Append(table, row)[Len(table) + 1] = row
        /\ \A i \in 1..Len(table) : Append(table, row)[i] = table[i]
    BY <1>1
  <2>. QED  BY <1>1, <1>2, <2>1
<1>3. CASE \E i \in DOMAIN table :
             table[i].id = row.id /\ Upserted(table, row) = [table EXCEPT ![i] = row]
  BY <1>1, <1>3
<1>. QED  BY <1>1, <1>2, <1>3, UpsertedIs

LEMMA FactRowsHave ==
  ASSUME NEW table \in Tables, NEW list \in Seq(FactRecords), UniqueIds(Distinct(list))
  PROVE  LET new    == Distinct(list)
             result == FactRows(table, list)
         IN /\ \A k \in DOMAIN new : \E j \in DOMAIN result : result[j] = new[k]
            /\ \A i \in DOMAIN table :
                 (\A k \in DOMAIN new : new[k].id # table[i].id) =>
                   \E j \in DOMAIN result : result[j] = table[i]
<1>1. PICK done : FactRowsBy(table, list, done)
  BY FactRowsSteps
<1>. DEFINE new == Distinct(list)
            N == Len(new)
            In(e, t) == \E j \in DOMAIN t : t[j] = e
            Good(n) == /\ \A k \in 1..n : In(new[k], done[n])
                       /\ \A i \in DOMAIN table :
                            (\A k \in 1..n : new[k].id # table[i].id) => In(table[i], done[n])
            S == {n \in 0..N : Good(n)}
<1>2. /\ N \in Nat /\ DOMAIN new = 1..N /\ \A k \in 1..N : new[k] \in FactRecords
  <2>1. new \in Seq(FactRecords)
    BY DistinctIs
  <2>. HIDE DEF new
  <2>. QED  BY <2>1
<1>3. /\ \A n \in 0..N : done[n] \in Tables
      /\ done[0] = table /\ done[N] = FactRows(table, list)
      /\ \A k \in 1..N : done[k] = Upserted(done[k - 1], new[k])
  BY <1>1 DEF FactRowsBy
<1>4. \A i, j \in 1..N : new[i].id = new[j].id => i = j
  BY <1>2 DEF UniqueIds
<1>. HIDE DEF new, N
<1>5. 0 \in S
  BY <1>2, <1>3
<1>6. ASSUME NEW n \in 0..N, n \in S, n < N PROVE n + 1 \in S
  <2>1. n + 1 \in 1..N /\ (n + 1) - 1 = n /\ n + 1 \in 0..N
    BY <1>2, <1>6
  <2>2. done[n] \in Tables /\ done[n + 1] = Upserted(done[n], new[n + 1]) /\ new[n + 1] \in FactRecords
    BY <1>2, <1>3, <2>1
  <2>3. /\ In(new[n + 1], done[n + 1])
        /\ \A e : In(e, done[n]) /\ e.id # new[n + 1].id => In(e, done[n + 1])
    BY <2>2, UpsertedHas
  <2>4. \A k \in 1..n + 1 : (k \in 1..n /\ k \in 1..N /\ k # n + 1) \/ k = n + 1
    BY <1>2, <2>1
  <2>5. Good(n)
    BY <1>6
  <2>6. \A k \in 1..n + 1 : In(new[k], done[n + 1])
    <3>. HIDE DEF In
    <3>. QED  BY <1>4, <2>1, <2>3, <2>4, <2>5
  <2>7. \A i \in DOMAIN table :
          (\A k \in 1..n + 1 : new[k].id # table[i].id) => In(table[i], done[n + 1])
    <3>1. n + 1 \in 1..n + 1 /\ \A k \in 1..n : k \in 1..n + 1
      BY <2>1
    <3>. HIDE DEF In
    <3>. QED  BY <2>3, <2>5, <3>1
  <2>. QED  BY <2>1, <2>6, <2>7
<1>7. 0..N \subseteq S
  <2>. HIDE DEF S
  <2>. QED  BY <1>2, <1>5, <1>6, SetInductionTo
<1>8. Good(N)
  BY <1>2, <1>7
<1>. QED  BY <1>2, <1>3, <1>8 DEF new

(* With nothing to delete. *)
LEMMA WrittenHas ==
  ASSUME NEW table \in Tables, NEW list \in Seq(FactRecords), UniqueIds(Distinct(list))
  PROVE  LET new    == Distinct(list)
             result == Written(table, {}, list)
         IN /\ \A k \in DOMAIN new : \E j \in DOMAIN result : result[j] = new[k]
            /\ \A i \in DOMAIN table :
                 (\A k \in DOMAIN new : new[k].id # table[i].id) =>
                   \E j \in DOMAIN result : result[j] = table[i]
<1>. DEFINE I == {i \in DOMAIN table : table[i].id \notin {}}
            kept == Deleted(table, {})
<1>1. table \in Seq(FactRecords) /\ UniqueIds(table) /\ I = DOMAIN table
  BY DEF Tables
<1>2. kept = Sublist(table, I)
  BY DEF Deleted
<1>. HIDE DEF I, kept
<1>3. /\ kept \in Seq(FactRecords)
      /\ \A i \in DOMAIN table : \E k \in DOMAIN kept : kept[k] = table[i]
      /\ \A j, k \in DOMAIN kept : j # k =>
           \E h, i \in DOMAIN table : h # i /\ kept[j] = table[h] /\ kept[k] = table[i]
  BY <1>1, <1>2, SublistOf
<1>4. kept \in Tables
  BY <1>1, <1>3 DEF UniqueIds, Tables
<1>5. Written(table, {}, list) = FactRows(kept, list)
  BY DEF Written, kept
<1>6. LET new == Distinct(list)
          result == FactRows(kept, list)
      IN /\ \A k \in DOMAIN new : \E j \in DOMAIN result : result[j] = new[k]
         /\ \A i \in DOMAIN kept :
              (\A k \in DOMAIN new : new[k].id # kept[i].id) =>
                \E j \in DOMAIN result : result[j] = kept[i]
  BY <1>4, FactRowsHave
<1>. QED  BY <1>3, <1>5, <1>6

(* The ids tell the session or, of what an edit made, the version.         *)
IdOf(f) ==
  /\ Len(f.id) = 2
  /\ f.id[1] = 0 => f.id[2] = f.ver
  /\ f.id[1] # 0 => f.id[1] = f.num

IdInv == \A i \in DOMAIN facts : IdOf(facts[i])

(* The version of a call in flight is new, and the current version of a    *)
(* number has facts of this number only.                                   *)
FreshInv ==
  /\ \A i \in DOMAIN facts : facts[i].ver <= last
  /\ \A n \in Nums : current[n].ver <= last
  /\ \A c \in Calls : InFlight(c) =>
       /\ \A i \in DOMAIN facts : facts[i].ver # calls[c].ver
       /\ \A n \in Nums : current[n].ver # calls[c].ver
  /\ \A i \in DOMAIN facts, n \in Nums : facts[i].ver = current[n].ver => facts[i].num = n

IsRowOf(e, f) == e.status = "active" /\ SubSeq(e.id, 1, 2) = f.id /\ e.ver = f.ver

KeptInv ==
  \A i \in DOMAIN facts : facts[i].status = "active" =>
    \E j \in DOMAIN saved : IsRowOf(saved[j], facts[i])

StoredInv == CurrentInv /\ IdInv /\ FreshInv /\ KeptInv

PlainAssumption ==
  "restart" \notin Events /\ "overlap" \notin Events /\ Keys \subseteq {NoKey} /\ 0 \notin Nums

(* The facts that are left are some that were there. *)
FactsFrom(list) ==
  \A i \in DOMAIN list : \E j \in DOMAIN facts :
    list[i].ver = facts[j].ver /\ list[i].num = facts[j].num /\ list[i].id = facts[j].id

LEMMA VersionsArePositive ==
  ASSUME CurrentInv
  PROVE  /\ \A i \in DOMAIN facts : facts[i].ver \in Nat \ {0} /\ facts[i].num \in Nums
                                    /\ facts[i].id \in Seq(Nat)
         /\ \A n \in Nums : current[n].ver \in Nat
         /\ \A c \in Calls : InFlight(c) => calls[c].ver \in Nat \ {0} /\ calls[c].ver <= last
         /\ None.ver = 0 /\ last \in Nat
<1>1. RawsOK /\ VersionInv /\ FactsOK
  BY DEF CurrentInv, TypedInv, RawsInv
<1>2. Versions \subseteq Nat \ {0} /\ last \in Nat
  BY <1>1, SessionAssumption DEF Versions, RawsOK
<1>3. \A f \in FactRecords : f.ver \in Versions /\ f.num \in Nums /\ f.id \in Seq(Nat)
  BY DEF FactRecords
<1>4. \A n \in Nums : current[n].ver \in Nat
  <2>1. \A n \in Nums : current[n] = None \/ current[n] \in [art : Versions, ver : Versions]
    BY <1>1 DEF FactsOK
  <2>2. \A e \in [art : Versions, ver : Versions] : e.ver \in Nat
    BY <1>2
  <2>. QED  BY <2>1, <2>2, NoneIs
<1>5. \A i \in DOMAIN facts : facts[i] \in FactRecords
  BY <1>1 DEF FactsOK
<1>6. \A c \in Calls : InFlight(c) => calls[c].ver \in Versions /\ calls[c].ver <= last
  BY <1>1, CallIs DEF VersionInv
<1>. QED  BY <1>2, <1>3, <1>4, <1>5, <1>6, NoneIs

LEMMA FitsIsRow ==
  ASSUME NEW e, NEW f, NEW i, i - 1 \in Nat, Fits(e, f, i), f.id \in Seq(Nat), Len(f.id) = 2
  PROVE  SubSeq(e.id, 1, 2) = f.id /\ (f.status = "active" => IsRowOf(e, f))
<1>1. SubSeq(f.id, 1, 2) = f.id /\ SubSeq(Append(f.id, i - 1), 1, 2) = f.id
  BY PartsOf
<1>. QED  BY <1>1 DEF Fits, IsRowOf

LEMMA FreshStays ==
  ASSUME StoredInv, FactsFrom(facts'), last' = last,
         \A n \in Nums : current'[n] = current[n] \/ current'[n] = None,
         \A c \in Calls : (InFlight(c))' => InFlight(c) /\ calls'[c].ver = calls[c].ver
  PROVE  IdInv' /\ FreshInv'
<1>. USE DEF StoredInv
<1>1. IdInv'
  BY DEF IdInv, IdOf, FactsFrom
<1>2. FreshInv'
  BY VersionsArePositive DEF FreshInv, FactsFrom
<1>. QED  BY <1>1, <1>2

LEMMA SnapshotKeeps ==
  ASSUME facts' \in Seq(FactRecords), IdInv', Snapshot
  PROVE  KeptInv'
<1>1. TwoParts(facts')
  BY DEF IdInv, IdOf, TwoParts
<1>. DEFINE new == Distinct(facts')
<1>2. /\ new \in Tables /\ DOMAIN new = DOMAIN facts'
      /\ \A i \in DOMAIN facts' : Fits(new[i], facts'[i], i)
  BY <1>1, DistinctFits
<1>3. saved' = new
  BY <1>2, UniqueIs DEF Snapshot, Tables
<1>. HIDE DEF new
<1>4. ASSUME NEW i \in DOMAIN facts', facts'[i].status = "active"
      PROVE  IsRowOf(new[i], facts'[i])
  <2>1. facts'[i].id \in Seq(Nat) /\ Len(facts'[i].id) = 2 /\ i - 1 \in Nat
    <3>1. facts'[i] \in FactRecords /\ i \in 1..Len(facts')
      OBVIOUS
    <3>2. \A f \in FactRecords : f.id \in Seq(Nat)
      BY DEF FactRecords
    <3>. QED  BY <1>1, <3>1, <3>2 DEF TwoParts
  <2>2. Fits(new[i], facts'[i], i)
    BY <1>2
  <2>. QED  BY <1>4, <2>1, <2>2, FitsIsRow
<1>. QED  BY <1>2, <1>3, <1>4 DEF KeptInv

LEMMA StoreStored ==
  ASSUME StoredInv, NEW c \in Calls, NEW n \in Nums, NEW k \in Keys, Store(c, n, k)
  PROVE  IdInv' /\ FreshInv' /\ KeptInv'
<1>. USE DEF StoredInv
<1>. DEFINE new == [num |-> n, key |-> k, ver |-> last', old |-> current[n].ver,
                    art |-> IF current[n] = None THEN last' ELSE current[n].art,
                    phase |-> IF k = NoKey THEN "extract" ELSE "lock"]
<1>1. /\ calls' = [calls EXCEPT ![c] = new] /\ last' = last + 1 /\ new.ver = last'
      /\ UNCHANGED <<facts, current, saved>>
  BY DEF Store
<1>. HIDE DEF new
<1>2. \A d \in Calls : calls'[d] = IF d = c THEN new ELSE calls[d]
  BY <1>1 DEF CurrentInv, TypedInv, RawsInv, RawsOK
<1>3. \A d \in Calls : (InFlight(d))' /\ d # c => InFlight(d)
  BY <1>2 DEF InFlight
<1>4. FreshInv'
  BY <1>1, <1>2, <1>3, VersionsArePositive DEF FreshInv
<1>5. IdInv' /\ KeptInv'
  BY <1>1 DEF IdInv, KeptInv
<1>. QED  BY <1>4, <1>5

LEMMA LockedStored ==
  ASSUME StoredInv, NEW c \in Calls, Locked(c)
  PROVE  IdInv' /\ FreshInv' /\ KeptInv'
<1>. USE DEF StoredInv
<1>1. /\ calls[c].phase = "lock" /\ calls' = [calls EXCEPT ![c].phase = "extract"]
      /\ UNCHANGED <<facts, current, saved, last>>
  BY DEF Locked
<1>2. InFlight(c) /\ calls[c] \in CallRecords
  BY <1>1, CallIs DEF CurrentInv, TypedInv, RawsInv
<1>3. \A l \in CallRecords : [l EXCEPT !.phase = "extract"].ver = l.ver
  BY DEF CallRecords
<1>4. \A d \in Calls : calls'[d] = IF d = c THEN [calls[c] EXCEPT !.phase = "extract"] ELSE calls[d]
  BY <1>1 DEF CurrentInv, TypedInv, RawsInv, RawsOK
<1>5. \A d \in Calls : (InFlight(d))' => InFlight(d) /\ calls'[d].ver = calls[d].ver
  BY <1>2, <1>3, <1>4 DEF InFlight
<1>6. FactsFrom(facts')
  BY <1>1 DEF FactsFrom
<1>7. KeptInv'
  BY <1>1 DEF KeptInv
<1>. QED  BY <1>1, <1>5, <1>6, <1>7, FreshStays

(* A call that ends without facts of its own. *)
LEMMA EndsStored ==
  ASSUME StoredInv, PlainAssumption, NEW c \in Calls,
         Unready(c) \/ \E status \in Statuses : Ends(c, status)
  PROVE  IdInv' /\ FreshInv' /\ KeptInv'
<1>. USE DEF StoredInv
<1>1. FactsOK /\ RawsOK
  BY DEF CurrentInv, TypedInv, RawsInv
<1>2. calls[c].phase = "extract"
  BY DEF Unready, Ends
<1>3. calls[c].key = NoKey
  BY <1>1, <1>2, CallIs DEF PlainAssumption
<1>4. Kept(calls[c]) = [raws |-> raws, facts |-> facts, gone |-> {}, rows |-> rows]
  BY <1>3 DEF Kept, Holder
<1>5. /\ UNCHANGED <<facts, current, last>> /\ calls' = [calls EXCEPT ![c] = NoCall]
      /\ saved' = saved \/ saved' = Written(saved, {}, <<>>)
  BY <1>4 DEF Unready, Ends, Free
<1>6. \A d \in Calls : (InFlight(d))' => InFlight(d) /\ calls'[d].ver = calls[d].ver
  BY <1>1, <1>5 DEF RawsOK, InFlight
<1>7. \A j \in DOMAIN saved : \E k \in DOMAIN saved' : saved'[k] = saved[j]
  <2>1. CASE saved' = saved
    BY <2>1
  <2>2. CASE saved' = Written(saved, {}, <<>>)
    <3>1. ASSUME NEW list \in Seq(FactRecords), list = <<>>, saved' = Written(saved, {}, list)
          PROVE  \A j \in DOMAIN saved : \E k \in DOMAIN saved' : saved'[k] = saved[j]
      <4>1. Distinct(list) = <<>>
        BY <3>1, DistinctIs
      <4>2. DOMAIN Distinct(list) = {}
        BY <4>1
      <4>3. UniqueIds(Distinct(list))
        BY <4>2 DEF UniqueIds
      <4>4. saved \in Tables
        BY <1>1 DEF FactsOK
      <4>5. \A i \in DOMAIN saved :
              (\A k \in DOMAIN Distinct(list) : Distinct(list)[k].id # saved[i].id) =>
                \E j \in DOMAIN saved' : saved'[j] = saved[i]
        BY <3>1, <4>3, <4>4, WrittenHas
      <4>. QED  BY <4>2, <4>5
    <3>2. <<>> \in Seq(FactRecords)
      OBVIOUS
    <3>. QED  BY <2>2, <3>1, <3>2
  <2>. QED  BY <1>5, <2>1, <2>2
<1>8. KeptInv'
  BY <1>5, <1>7 DEF KeptInv
<1>9. FactsFrom(facts')
  BY <1>5 DEF FactsFrom
<1>. QED  BY <1>5, <1>6, <1>8, <1>9, FreshStays

(* What a call writes: the facts of the version before, and its own.       *)
Writes(c, size, before, new, list) ==
  /\ InFlight(c) /\ size \in Nat
  /\ before \in Seq(FactRecords) /\ DOMAIN before = DOMAIN facts
  /\ \A i \in DOMAIN facts :
       /\ before[i].id = facts[i].id /\ before[i].ver = facts[i].ver /\ before[i].num = facts[i].num
       /\ before[i].status = "active" => facts[i].status = "active" /\ facts[i].ver # calls[c].old
  /\ new \in Seq(FactRecords) /\ DOMAIN new = 1..size
  /\ \A k \in 1..size : /\ new[k].id = <<calls[c].num, k>> /\ new[k].ver = calls[c].ver
                        /\ new[k].num = calls[c].num /\ new[k].status = "active"
  /\ facts' = before \o new
  /\ list \in Seq(FactRecords)
  /\ \A k \in DOMAIN list :
       \/ \E i \in DOMAIN facts : before[i].ver = calls[c].old /\ list[k] = before[i]
       \/ \E m \in 1..size : list[k] = new[m]
  /\ \A m \in 1..size : \E k \in DOMAIN list : list[k] = new[m]
  /\ saved' = Written(saved, {}, list)
  /\ current' = [current EXCEPT ![calls[c].num] = [art |-> calls[c].art, ver |-> calls[c].ver]]
  /\ calls' = [calls EXCEPT ![c] = NoCall] /\ last' = last

LEMMA FoundWrites ==
  ASSUME StoredInv, PlainAssumption, NEW c \in Calls, NEW size \in Sizes, Found(c, size)
  PROVE  \E before, new, list : Writes(c, size, before, new, list)
<1>. USE DEF StoredInv
<1>. DEFINE call == calls[c]
            kept == Kept(call)
            S == {e \in ToSet(facts) : e.ver = call.old}
            before == Superseded(facts, call.old)
            new == NewFacts(call, size)
            I == {i \in DOMAIN before : before[i].ver = call.old}
            own == OfVersion(before, call.old)
            list == own \o new
<1>1. call.phase = "extract"
  BY DEF Found
<1>2. InFlight(c) /\ RawsOK /\ FactsOK /\ facts \in Seq(FactRecords)
  BY <1>1, CallIs DEF CurrentInv, TypedInv, RawsInv, FactsOK
<1>3. call.key = NoKey
  BY <1>2, CallIs DEF PlainAssumption
<1>4. kept = [raws |-> raws, facts |-> facts, gone |-> {}, rows |-> rows]
  BY <1>3 DEF Kept, Holder
<1>5. /\ facts' = before \o new /\ saved' = Written(saved, {}, list)
      /\ current' = [current EXCEPT ![call.num] = [art |-> call.art, ver |-> call.ver]]
      /\ calls' = [calls EXCEPT ![c] = NoCall] /\ last' = last
  BY <1>4 DEF Found, Free
<1>6. /\ new \in Seq(FactRecords) /\ DOMAIN new = 1..size /\ size \in Nat
      /\ \A k \in 1..size : new[k].ver = call.ver /\ new[k].num = call.num
  BY <1>2, SessionAssumption, NewFactsAre
<1>7. \A k \in 1..size : new[k].id = <<call.num, k>> /\ new[k].status = "active"
  BY DEF NewFacts, FactOf
<1>8. /\ before \in Seq(FactRecords) /\ DOMAIN before = DOMAIN facts
      /\ \A i \in DOMAIN facts :
           /\ before[i].id = facts[i].id /\ before[i].ver = facts[i].ver /\ before[i].num = facts[i].num
           /\ before[i].status = "active" => facts[i].status = "active" /\ facts[i].ver # call.old
  <2>1. before = Marked(facts, S, "superseded") /\ "superseded" \in Statuses
    BY DEF Superseded, Statuses
  <2>2. \A i \in DOMAIN facts : facts[i] \in S <=> facts[i].ver = call.old
    BY DEF ToSet
  <2>. HIDE DEF S, before
  <2>3. /\ before \in Seq(FactRecords) /\ DOMAIN before = DOMAIN facts
        /\ \A i \in DOMAIN facts :
             /\ before[i].id = facts[i].id /\ before[i].ver = facts[i].ver
             /\ before[i].num = facts[i].num
             /\ before[i].status = IF facts[i] \in S THEN "superseded" ELSE facts[i].status
    BY <1>2, <2>1, MarkedFacts
  <2>. QED  BY <2>2, <2>3
<1>. HIDE DEF before, new
<1>9. /\ own \in Seq(FactRecords)
      /\ \A k \in DOMAIN own : \E i \in DOMAIN facts : before[i].ver = call.old /\ own[k] = before[i]
  <2>1. own = Sublist(before, I) /\ I \in SUBSET (DOMAIN before)
    BY DEF OfVersion
  <2>2. \A i \in I : i \in DOMAIN facts /\ before[i].ver = call.old
    BY <1>8
  <2>. HIDE DEF I, own
  <2>. QED  BY <1>8, <2>1, <2>2, SublistOf
<1>. HIDE DEF own
<1>10. /\ list \in Seq(FactRecords) /\ Len(own) \in Nat /\ DOMAIN own = 1..Len(own)
       /\ DOMAIN list = 1..Len(own) + size
       /\ \A k \in 1..Len(own) : list[k] = own[k]
       /\ \A m \in 1..size : list[Len(own) + m] = new[m]
  <2>1. Len(own) \in Nat /\ DOMAIN own = 1..Len(own) /\ Len(new) = size
    BY <1>6, <1>9
  <2>2. own \o new \in Seq(FactRecords) /\ Len(own \o new) = Len(own) + Len(new)
    BY <1>6, <1>9, ConcatProperties
  <2>. QED  BY <1>6, <1>9, <2>1, <2>2, ConcatProperties
<1>. HIDE DEF list
<1>11. \A k \in DOMAIN list :
         \/ \E i \in DOMAIN facts : before[i].ver = call.old /\ list[k] = before[i]
         \/ \E m \in 1..size : list[k] = new[m]
  <2>1. ASSUME NEW k \in DOMAIN list, k \notin 1..Len(own) PROVE \E m \in 1..size : list[k] = new[m]
    <3>1. k - Len(own) \in 1..size /\ k = Len(own) + (k - Len(own))
      BY <1>6, <1>10, <2>1
    <3>. QED  BY <1>10, <3>1
  <2>. QED  BY <1>9, <1>10, <2>1
<1>12. \A m \in 1..size : \E k \in DOMAIN list : list[k] = new[m]
  <2>1. \A m \in 1..size : Len(own) + m \in DOMAIN list
    BY <1>6, <1>10
  <2>. QED  BY <1>10, <2>1
<1>13. Writes(c, size, before, new, list)
  BY <1>2, <1>5, <1>6, <1>7, <1>8, <1>10, <1>11, <1>12 DEF Writes
<1>. QED  BY <1>13

LEMMA FoundStored ==
  ASSUME StoredInv, PlainAssumption, NEW c \in Calls, NEW size \in Sizes, Found(c, size)
  PROVE  IdInv' /\ FreshInv' /\ KeptInv'
<1>. USE DEF StoredInv, Writes
<1>. DEFINE call == calls[c]
            n == call.num
<1>1. PICK before, new, list : Writes(c, size, before, new, list)
  BY FoundWrites
<1>2. /\ n \in Nums /\ n \in Nat /\ n # 0 /\ RawsOK /\ VersionInv /\ FactsOK
      /\ call.ver \in Nat \ {0} /\ call.ver <= last
      /\ call.old = current[n].ver
  <2>1. RawsOK /\ VersionInv /\ FactsOK
    BY DEF CurrentInv, TypedInv, RawsInv
  <2>2. n \in Nums
    BY <1>1, <2>1, CallIs
  <2>. QED  BY <1>1, <2>1, <2>2, VersionsArePositive, SessionAssumption
            DEF PlainAssumption, CurrentInv, CallsInv
<1>3. \A i \in DOMAIN facts' :
        \/ i \in DOMAIN facts /\ facts'[i] = before[i]
        \/ \E k \in 1..size : facts'[i] = new[k]
  <2>1. /\ Len(before) \in Nat /\ DOMAIN before = 1..Len(before) /\ Len(new) = size
    BY <1>1
  <2>2. before \o new \in Seq(FactRecords) /\ Len(before \o new) = Len(before) + Len(new)
    BY <1>1, ConcatProperties
  <2>3. DOMAIN facts' = 1..Len(before) + size
    BY <1>1, <2>1, <2>2
  <2>4. ASSUME NEW i \in DOMAIN facts'
        PROVE  facts'[i] = IF i <= Len(before) THEN before[i] ELSE new[i - Len(before)]
    BY <1>1, <2>1, <2>3, ConcatProperties
  <2>5. \A i \in DOMAIN facts' : i <= Len(before) => i \in DOMAIN facts
    BY <1>1, <2>1, <2>3
  <2>6. \A i \in DOMAIN facts' : ~(i <= Len(before)) => i - Len(before) \in 1..size
    BY <1>1, <2>1, <2>3
  <2>. QED  BY <2>4, <2>5, <2>6
<1>4. \A m \in Nums : current'[m] = IF m = n THEN [art |-> call.art, ver |-> call.ver] ELSE current[m]
  BY <1>1, <1>2 DEF FactsOK
<1>5. [art |-> call.art, ver |-> call.ver].ver = call.ver
  OBVIOUS
<1>6. \A d \in Calls : (InFlight(d))' =>
        InFlight(d) /\ calls'[d] = calls[d] /\ calls[d].ver # call.ver
  BY <1>1, <1>2 DEF RawsOK, InFlight, VersionInv
<1>7. \A k \in 1..size : /\ Len(new[k].id) = 2 /\ new[k].id[1] = n
  <2>1. \A x, y : Len(<<x, y>>) = 2 /\ <<x, y>>[1] = x
    OBVIOUS
  <2>2. \A k \in 1..size : new[k].id = <<n, k>>
    BY <1>1
  <2>. QED  BY <2>1, <2>2
<1>. HIDE DEF n, call
<1>8. IdInv'
  <2>1. \A k \in 1..size : IdOf(new[k])
    BY <1>1, <1>2, <1>7 DEF IdOf
  <2>2. \A i \in DOMAIN facts : IdOf(before[i])
    <3>1. \A i \in DOMAIN facts : IdOf(facts[i])
      BY DEF IdInv
    <3>2. \A i \in DOMAIN facts : before[i].id = facts[i].id /\ before[i].ver = facts[i].ver
                                  /\ before[i].num = facts[i].num
      BY <1>1
    <3>. QED  BY <3>1, <3>2 DEF IdOf
  <2>. QED  BY <1>3, <2>1, <2>2 DEF IdInv
<1>9. \A i \in DOMAIN facts' :
        \/ \E j \in DOMAIN facts : facts'[i].ver = facts[j].ver /\ facts'[i].num = facts[j].num
        \/ facts'[i].ver = call.ver /\ facts'[i].num = n
  <2>1. \A i \in DOMAIN facts : before[i].ver = facts[i].ver /\ before[i].num = facts[i].num
    BY <1>1
  <2>2. \A k \in 1..size : new[k].ver = call.ver /\ new[k].num = n
    BY <1>1 DEF call, n
  <2>. QED  BY <1>3, <2>1, <2>2
<1>10. /\ \A j \in DOMAIN facts : facts[j].ver <= last /\ facts[j].ver # call.ver
       /\ \A m \in Nums : current[m].ver <= last /\ current[m].ver # call.ver
  BY <1>1 DEF FreshInv, call
<1>11. FreshInv'
  <2>1. \A i \in DOMAIN facts' : facts'[i].ver <= last'
    BY <1>1, <1>2, <1>9, <1>10
  <2>2. \A m \in Nums : current'[m].ver <= last'
    BY <1>1, <1>2, <1>4, <1>5, <1>10
  <2>3. ASSUME NEW d \in Calls, (InFlight(d))'
        PROVE  /\ \A i \in DOMAIN facts' : facts'[i].ver # calls'[d].ver
               /\ \A m \in Nums : current'[m].ver # calls'[d].ver
    <3>1. InFlight(d) /\ calls'[d] = calls[d] /\ calls[d].ver # call.ver
      BY <1>6, <2>3
    <3>2. /\ \A j \in DOMAIN facts : facts[j].ver # calls[d].ver
          /\ \A m \in Nums : current[m].ver # calls[d].ver
      BY <3>1 DEF FreshInv
    <3>. QED  BY <1>4, <1>5, <1>9, <3>1, <3>2
  <2>4. ASSUME NEW i \in DOMAIN facts', NEW m \in Nums, facts'[i].ver = current'[m].ver
        PROVE  facts'[i].num = m
    <3>1. CASE m = n
      BY <1>4, <1>5, <1>9, <1>10, <2>4, <3>1
    <3>2. CASE m # n
      <4>1. current'[m] = current[m]
        BY <1>4, <3>2
      <4>. QED  BY <1>9, <1>10, <2>4, <4>1 DEF FreshInv
    <3>. QED  BY <3>1, <3>2
  <2>. QED  BY <2>1, <2>2, <2>3, <2>4 DEF FreshInv
<1>12. /\ \A k \in DOMAIN list : list[k].id \in Seq(Nat) /\ Len(list[k].id) = 2 /\ k - 1 \in Nat
       /\ TwoParts(list)
  <2>1. \A i \in DOMAIN facts : Len(before[i].id) = 2
    BY <1>1 DEF IdInv, IdOf
  <2>2. \A k \in DOMAIN list : Len(list[k].id) = 2
    BY <1>1, <1>7, <2>1
  <2>3. \A f \in FactRecords : f.id \in Seq(Nat)
    BY DEF FactRecords
  <2>4. \A k \in DOMAIN list : list[k] \in FactRecords /\ k - 1 \in Nat
    BY <1>1
  <2>. QED  BY <2>2, <2>3, <2>4 DEF TwoParts
<1>. DEFINE made == Distinct(list)
<1>13. /\ UniqueIds(made) /\ DOMAIN made = DOMAIN list
       /\ \A k \in DOMAIN list : Fits(made[k], list[k], k)
  BY <1>1, <1>12, DistinctFits DEF Tables
<1>14. /\ \A k \in DOMAIN list : \E j \in DOMAIN saved' : saved'[j] = made[k]
       /\ \A j \in DOMAIN saved :
            (\A k \in DOMAIN list : made[k].id # saved[j].id) =>
              \E l \in DOMAIN saved' : saved'[l] = saved[j]
  <2>1. saved \in Tables
    BY <1>2 DEF FactsOK
  <2>2. list \in Seq(FactRecords) /\ saved' = Written(saved, {}, list)
    BY <1>1
  <2>3. /\ \A k \in DOMAIN made :
             \E j \in DOMAIN Written(saved, {}, list) : Written(saved, {}, list)[j] = made[k]
        /\ \A j \in DOMAIN saved :
             (\A k \in DOMAIN made : made[k].id # saved[j].id) =>
               \E l \in DOMAIN Written(saved, {}, list) : Written(saved, {}, list)[l] = saved[j]
    BY <1>13, <2>1, <2>2, WrittenHas
  <2>. HIDE DEF made
  <2>. QED  BY <1>13, <2>2, <2>3
<1>. HIDE DEF made
<1>15. \A k \in DOMAIN list : /\ SubSeq(made[k].id, 1, 2) = list[k].id
                              /\ list[k].status = "active" => IsRowOf(made[k], list[k])
  BY <1>12, <1>13, FitsIsRow
<1>16. ASSUME NEW i \in DOMAIN facts, facts'[i] = before[i], before[i].status = "active"
       PROVE  \E l \in DOMAIN saved' : IsRowOf(saved'[l], before[i])
  <2>1. facts[i].status = "active" /\ facts[i].ver # call.old
    BY <1>1, <1>16 DEF call
  <2>2. facts[i].num # n
    BY <1>2, <2>1 DEF CurrentInv, ActiveInv
  <2>3. PICK j \in DOMAIN saved : IsRowOf(saved[j], facts[i])
    BY <2>1 DEF KeptInv
  <2>4. IdOf(facts[i])
    BY DEF IdInv
  <2>5. ASSUME NEW k \in DOMAIN list PROVE list[k].id # facts[i].id
    <3>1. CASE \E m \in 1..size : list[k] = new[m]
      BY <1>2, <1>7, <2>2, <2>4, <3>1 DEF IdOf
    <3>2. CASE \E p \in DOMAIN facts : before[p].ver = call.old /\ list[k] = before[p]
      <4>1. PICK p \in DOMAIN facts : facts[p].ver = call.old /\ list[k].id = facts[p].id
        BY <1>1, <3>2
      <4>2. facts[p].num = n
        BY <1>2, <4>1 DEF FreshInv
      <4>3. IdOf(facts[p])
        BY DEF IdInv
      <4>. QED  BY <2>1, <2>2, <2>4, <4>1, <4>2, <4>3 DEF IdOf
    <3>. QED  BY <1>1, <3>1, <3>2 DEF call
  <2>6. \A k \in DOMAIN list : made[k].id # saved[j].id
    BY <1>15, <2>3, <2>5 DEF IsRowOf
  <2>7. PICK l \in DOMAIN saved' : saved'[l] = saved[j]
    BY <1>14, <2>6
  <2>8. before[i].id = facts[i].id /\ before[i].ver = facts[i].ver
    BY <1>1
  <2>. QED  BY <2>3, <2>7, <2>8 DEF IsRowOf
<1>17. ASSUME NEW m \in 1..size PROVE \E l \in DOMAIN saved' : IsRowOf(saved'[l], new[m])
  <2>1. PICK k \in DOMAIN list : list[k] = new[m]
    BY <1>1
  <2>2. new[m].status = "active"
    BY <1>1
  <2>. QED  BY <1>14, <1>15, <2>1, <2>2
<1>18. KeptInv'
  BY <1>3, <1>16, <1>17 DEF KeptInv
<1>. QED  BY <1>8, <1>11, <1>18

LEMMA EditStored ==
  ASSUME StoredInv, NEW a, Edit(a)
  PROVE  IdInv' /\ FreshInv' /\ KeptInv'
<1>. USE DEF StoredInv
<1>1. FactsOK /\ RawsOK /\ facts \in Seq(FactRecords)
  BY DEF CurrentInv, TypedInv, RawsInv, FactsOK
<1>. DEFINE S == {e \in Of(facts, a) : e.status = "active"}
            marked == Marked(facts, S, "superseded")
            entry == [art |-> a, ver |-> last']
<1>2. PICK i \in DOMAIN facts :
           /\ facts[i].art = a /\ facts[i].status = "active"
           /\ Alone(a) /\ last < MaxVersions /\ last' = last + 1
           /\ facts' = Append(marked, Successor(facts[i]))
           /\ current' = [current EXCEPT ![facts[i].num] = entry]
           /\ Snapshot /\ calls' = calls
  BY <1>1, EditIs
<1>. DEFINE n == facts[i].num
            next == Successor(facts[i])
<1>3. n \in Nums /\ last' \in Versions /\ last' \in Nat \ {0} /\ facts[i] \in FactRecords
  BY <1>1, <1>2, FactIs, SessionAssumption DEF RawsOK, Versions
<1>4. next \in FactRecords /\ next.ver = last' /\ next.num = n /\ next.id = <<0, last'>>
  <2>1. \A f \in FactRecords, id \in Seq(Nat), v \in Versions : [f EXCEPT !.id = id, !.ver = v].id = id
    BY DEF FactRecords
  <2>2. <<0, last'>> \in Seq(Nat)
    BY <1>3
  <2>. QED  BY <1>3, <2>1, <2>2, SuccessorIs DEF Successor
<1>5. entry.ver = last'
  OBVIOUS
<1>6. /\ marked \in Seq(FactRecords) /\ DOMAIN marked = DOMAIN facts
      /\ \A j \in DOMAIN facts :
           marked[j].id = facts[j].id /\ marked[j].ver = facts[j].ver /\ marked[j].num = facts[j].num
  <2>1. "superseded" \in Statuses
    BY DEF Statuses
  <2>. HIDE DEF S
  <2>. QED  BY <1>1, <2>1, MarkedFacts
<1>. HIDE DEF marked, next, entry
<1>7. \A m \in Nums : current'[m] = IF m = n THEN entry ELSE current[m]
  BY <1>1, <1>2 DEF FactsOK
<1>8. /\ facts' \in Seq(FactRecords)
      /\ \A j \in DOMAIN facts' : facts'[j] = next \/ (j \in DOMAIN facts /\ facts'[j] = marked[j])
  <2>1. facts' = Append(marked, next)
    BY <1>2 DEF next
  <2>2. Len(marked) \in Nat /\ DOMAIN marked = 1..Len(marked)
    BY <1>6
  <2>3. /\ Append(marked, next) \in Seq(FactRecords) /\ Len(Append(marked, next)) = Len(marked) + 1
        /\ Append(marked, next)[Len(marked) + 1] = next
        /\ \A j \in 1..Len(marked) : Append(marked, next)[j] = marked[j]
    BY <1>4, <1>6, AppendProperties
  <2>4. DOMAIN facts' = 1..Len(marked) + 1
    <3>1. DOMAIN Append(marked, next) = 1..Len(Append(marked, next))
      BY <2>3, LenProperties
    <3>. QED  BY <2>1, <2>3, <3>1
  <2>. QED  BY <1>6, <2>1, <2>2, <2>3, <2>4
<1>. HIDE DEF n
<1>9. \A j \in DOMAIN facts' :
        \/ facts'[j].ver = last' /\ facts'[j].num = n /\ IdOf(facts'[j])
        \/ \E h \in DOMAIN facts : /\ facts'[j].ver = facts[h].ver /\ facts'[j].num = facts[h].num
                                   /\ IdOf(facts'[j])
  <2>1. IdOf(next)
    <3>1. \A x, y : Len(<<x, y>>) = 2 /\ <<x, y>>[1] = x /\ <<x, y>>[2] = y
      OBVIOUS
    <3>. QED  BY <1>4, <3>1 DEF IdOf
  <2>2. \A j \in DOMAIN facts : IdOf(marked[j])
    BY <1>6 DEF IdInv, IdOf
  <2>. QED  BY <1>4, <1>6, <1>8, <2>1, <2>2
<1>10. IdInv'
  BY <1>9 DEF IdInv
<1>11. /\ \A j \in DOMAIN facts : facts[j].ver <= last /\ facts[j].ver \in Nat
       /\ \A m \in Nums : current[m].ver <= last /\ current[m].ver \in Nat
       /\ \A c \in Calls : InFlight(c) => calls[c].ver <= last /\ calls[c].ver \in Nat
       /\ last \in Nat /\ last' = last + 1
  BY <1>2, VersionsArePositive DEF FreshInv
<1>12. FreshInv'
  <2>1. \A j \in DOMAIN facts' : facts'[j].ver <= last'
    BY <1>9, <1>11
  <2>2. \A m \in Nums : current'[m].ver <= last'
    BY <1>5, <1>7, <1>11
  <2>3. ASSUME NEW d \in Calls, (InFlight(d))'
        PROVE  /\ \A j \in DOMAIN facts' : facts'[j].ver # calls'[d].ver
               /\ \A m \in Nums : current'[m].ver # calls'[d].ver
    <3>1. InFlight(d) /\ calls'[d] = calls[d]
      BY <1>2, <2>3 DEF InFlight
    <3>2. /\ \A j \in DOMAIN facts : facts[j].ver # calls[d].ver
          /\ \A m \in Nums : current[m].ver # calls[d].ver
      BY <3>1 DEF FreshInv
    <3>3. calls[d].ver # last'
      BY <1>11, <3>1
    <3>. QED  BY <1>5, <1>7, <1>9, <3>1, <3>2, <3>3
  <2>4. ASSUME NEW j \in DOMAIN facts', NEW m \in Nums, facts'[j].ver = current'[m].ver
        PROVE  facts'[j].num = m
    <3>1. CASE m = n
      <4>1. facts'[j].ver = last'
        BY <1>5, <1>7, <2>4, <3>1
      <4>. QED  BY <1>9, <1>11, <3>1, <4>1
    <3>2. CASE m # n
      <4>1. current'[m] = current[m] /\ current[m].ver # last'
        BY <1>7, <1>11, <3>2
      <4>. QED  BY <1>9, <2>4, <4>1 DEF FreshInv
    <3>. QED  BY <3>1, <3>2
  <2>. QED  BY <2>1, <2>2, <2>3, <2>4 DEF FreshInv
<1>. QED  BY <1>2, <1>8, <1>10, <1>12, SnapshotKeeps

LEMMA LifecycleStored ==
  ASSUME StoredInv, NEW a, Retract(a) \/ Purge(a) \/ Redact(a)
  PROVE  IdInv' /\ FreshInv' /\ KeptInv'
<1>. USE DEF StoredInv
<1>1. facts \in Seq(FactRecords) /\ Snapshot /\ calls' = calls /\ last' = last
  BY DEF CurrentInv, TypedInv, FactsOK, Retract, Purge, Redact
<1>2. FactsFrom(facts') /\ facts' \in Seq(FactRecords)
  <2>1. ASSUME NEW status \in {"retracted", "redacted"}, facts' = Marked(facts, Of(facts, a), status)
        PROVE  FactsFrom(facts') /\ facts' \in Seq(FactRecords)
    <3>1. status \in Statuses
      BY DEF Statuses
    <3>2. /\ facts' \in Seq(FactRecords) /\ DOMAIN facts' = DOMAIN facts
          /\ \A j \in DOMAIN facts : /\ facts'[j].id = facts[j].id /\ facts'[j].ver = facts[j].ver
                                     /\ facts'[j].num = facts[j].num
      BY <1>1, <2>1, <3>1, MarkedFacts
    <3>. QED  BY <3>2 DEF FactsFrom
  <2>2. CASE Retract(a)
    BY <2>1, <2>2 DEF Retract
  <2>3. CASE Redact(a)
    BY <2>1, <2>3 DEF Redact
  <2>4. CASE Purge(a)
    <3>. DEFINE J == {i \in DOMAIN facts : facts[i].art # a}
    <3>1. facts' = Sublist(facts, J) /\ J \in SUBSET (DOMAIN facts)
      BY <2>4 DEF Purge
    <3>. HIDE DEF J
    <3>2. facts' \in Seq(FactRecords) /\ \A i \in DOMAIN facts' : \E j \in J : facts'[i] = facts[j]
      BY <1>1, <3>1, SublistOf
    <3>. QED  BY <3>1, <3>2 DEF FactsFrom
  <2>. QED  BY <2>2, <2>3, <2>4
<1>3. \A n \in Nums : current'[n] = current[n] \/ current'[n] = None
  <2>1. CASE Retract(a) \/ Purge(a)
    BY <2>1 DEF Retract, Purge, Without
  <2>2. CASE Redact(a)
    BY <2>2 DEF Redact
  <2>. QED  BY <2>1, <2>2
<1>4. \A c \in Calls : (InFlight(c))' => InFlight(c) /\ calls'[c].ver = calls[c].ver
  BY <1>1 DEF InFlight
<1>5. IdInv' /\ FreshInv'
  BY <1>1, <1>2, <1>3, <1>4, FreshStays
<1>. QED  BY <1>1, <1>2, <1>5, SnapshotKeeps

LEMMA StoredInitially == "overlap" \notin Events /\ SessionInit => StoredInv
<1>. SUFFICES ASSUME "overlap" \notin Events, SessionInit PROVE StoredInv
  OBVIOUS
<1>1. /\ facts = <<>> /\ DOMAIN facts = {} /\ calls = [c \in Calls |-> NoCall] /\ last = 0
      /\ current = [n \in Nums |-> None]
  BY DEF SessionInit
<1>. QED  BY <1>1, CurrentInitially, NoneIs DEF StoredInv, IdInv, FreshInv, KeptInv, InFlight

LEMMA StoredNext ==
  PlainAssumption /\ StoredInv /\ [SessionNext]_sessionVars => StoredInv'
<1>. SUFFICES ASSUME PlainAssumption, StoredInv, [SessionNext]_sessionVars
              PROVE  StoredInv'
  OBVIOUS
<1>. DEFINE Goal == IdInv' /\ FreshInv' /\ KeptInv'
<1>. SUFFICES Goal
  BY CurrentNext DEF StoredInv, PlainAssumption
<1>1. ASSUME NEW c \in Calls, NEW n \in Nums, NEW k \in Keys, Store(c, n, k) PROVE Goal
  BY <1>1, StoreStored
<1>2. ASSUME NEW c \in Calls, Locked(c) PROVE Goal
  BY <1>2, LockedStored
<1>3. ASSUME NEW c \in Calls, Unready(c) \/ TimedOut(c) \/ FoundNothing(c) PROVE Goal
  <2>1. "active" \in Statuses /\ "extraction_failed" \in Statuses
    BY DEF Statuses
  <2>. QED  BY <1>3, <2>1, EndsStored DEF TimedOut, FoundNothing
<1>4. ASSUME NEW c \in Calls, NEW size \in Sizes, Found(c, size) PROVE Goal
  BY <1>4, FoundStored
<1>5. ASSUME NEW a \in HeldArtifacts, Edit(a) PROVE Goal
  BY <1>5, EditStored
<1>6. ASSUME NEW a \in HeldArtifacts, Retract(a) \/ Purge(a) \/ Redact(a) PROVE Goal
  BY <1>6, LifecycleStored
<1>7. CASE UNCHANGED sessionVars
  BY <1>7 DEF sessionVars, StoredInv, IdInv, FreshInv, KeptInv, InFlight
<1>8. "restart" \notin Events
  BY DEF PlainAssumption
<1>. HIDE DEF Goal
<1>. QED  BY <1>1, <1>2, <1>3, <1>4, <1>5, <1>6, <1>7, <1>8 DEF SessionNext

(* What a recall may use of sessions without keys is on disk, in a process *)
(* that is not restarted and gets what is of one number in turn: no fact   *)
(* that is active in memory has lost its row, or its status there, to      *)
(* another version that shares its ids.                                    *)
THEOREM ActiveStaysStored ==
  ASSUME PlainAssumption
  PROVE  SessionSpec => []ActiveIsKept
<1>1. StoredInv => ActiveIsKept
  <2>. SUFFICES ASSUME StoredInv PROVE ActiveIsKept
    OBVIOUS
  <2>1. ASSUME NEW i \in Active(facts)
        PROVE  <<SubSeq(facts[i].id, 1, 2), facts[i].ver>> \in Content(saved)
    <3>1. i \in DOMAIN facts /\ facts[i].status = "active"
      BY DEF Active
    <3>2. PICK j \in DOMAIN saved : IsRowOf(saved[j], facts[i])
      BY <3>1 DEF StoredInv, KeptInv
    <3>3. facts[i].id \in Seq(Nat) /\ Len(facts[i].id) = 2
      BY <3>1, VersionsArePositive DEF StoredInv, IdInv, IdOf
    <3>4. SubSeq(facts[i].id, 1, 2) = facts[i].id
      BY <3>3, PartsOf
    <3>5. j \in Active(saved) /\ SubSeq(saved[j].id, 1, 2) = facts[i].id /\ saved[j].ver = facts[i].ver
      BY <3>2 DEF Active, IsRowOf
    <3>. QED  BY <3>4, <3>5 DEF Content
  <2>. QED  BY <2>1 DEF ActiveIsKept, Content
<1>2. StoredInv /\ [SessionNext]_sessionVars => StoredInv'
  BY StoredNext
<1>3. SessionInit => StoredInv
  BY StoredInitially DEF PlainAssumption
<1>. QED  BY <1>1, <1>2, <1>3, PTL DEF SessionSpec
-----------------------------------------------------------------------------
(* Where every session has a key, no id is given twice: then a list is     *)
(* written as it is.                                                       *)
LEMMA SublistAll ==
  ASSUME NEW V, NEW list \in Seq(V)
  PROVE  Sublist(list, DOMAIN list) = list
<1>. DEFINE N == Len(list)
            D == DOMAIN list
            upTo(i) == {j \in D : j <= i}
            Nth(k) == CHOOSE i \in D : Cardinality(upTo(i)) = k
<1>1. N \in Nat /\ D = 1..N
  OBVIOUS
<1>. HIDE DEF N, D
<1>2. Cardinality(D) = N
  BY <1>1, FS_Interval
<1>3. ASSUME NEW i \in D PROVE Cardinality(upTo(i)) = i
  <2>1. upTo(i) = 1..i /\ i \in Nat
    BY <1>1
  <2>2. Cardinality(1..i) = i
    BY <2>1, FS_Interval
  <2>. QED  BY <2>1, <2>2
<1>4. ASSUME NEW k \in D PROVE Nth(k) = k
  <2>. HIDE DEF upTo
  <2>. QED  BY <1>3, <1>4
<1>5. Sublist(list, D) = [k \in 1..Cardinality(D) |-> list[Nth(k)]]
  BY DEF Sublist
<1>6. list = [k \in D |-> list[k]]
  BY DEF D
<1>7. \A k \in D : list[Nth(k)] = list[k]
  <2>. HIDE DEF Nth
  <2>. QED  BY <1>4
<1>8. [k \in 1..Cardinality(D) |-> list[Nth(k)]] = [k \in D |-> list[k]]
  <2>. HIDE DEF Nth
  <2>. QED  BY <1>1, <1>2, <1>7
<1>9. Sublist(list, D) = list
  <2>. HIDE DEF Nth
  <2>. QED  BY <1>5, <1>6, <1>8
<1>. QED  BY <1>9 DEF D

LEMMA DistinctSame ==
  ASSUME NEW list \in Tables
  PROVE  Distinct(list) = list
<1>. DEFINE N == Len(list)
<1>1. list \in Seq(FactRecords) /\ UniqueIds(list) /\ N \in Nat /\ DOMAIN list = 1..N
  BY DEF Tables
<1>2. PICK done : DistinctBy(list, done)
  BY <1>1, DistinctSteps
<1>. DEFINE Same(k) == Len(done[k]) = k /\ \A i \in 1..k : done[k][i] = list[i]
            S == {k \in 0..N : Same(k)}
<1>3. \A k \in 0..N : done[k] \in Seq(FactRecords)
  BY <1>2 DEF DistinctBy
<1>4. 0 \in S
  <2>1. done[0] = <<>>
    BY <1>2 DEF DistinctBy
  <2>. QED  BY <1>1, <2>1
<1>5. ASSUME NEW k \in 0..N, k \in S, k < N PROVE k + 1 \in S
  <2>1. k + 1 \in 1..N /\ k \in Nat /\ k + 1 - 1 = k
    BY <1>1, <1>5
  <2>2. done[k + 1] = WithNext(list, k + 1, done[k])
    BY <1>2, <2>1 DEF DistinctBy
  <2>3. Same(k) /\ DOMAIN done[k] = 1..k /\ done[k] \in Seq(FactRecords)
    BY <1>3, <1>5
  <2>4. ~ \E j \in DOMAIN done[k] : done[k][j].id = list[k + 1].id
    <3>1. \A j \in 1..k : j \in DOMAIN list /\ j # k + 1 /\ k + 1 \in DOMAIN list
      BY <1>1, <2>1
    <3>. QED  BY <1>1, <2>3, <3>1 DEF UniqueIds
  <2>5. done[k + 1] = Append(done[k], list[k + 1])
    BY <2>2, <2>4 DEF WithNext
  <2>6. Same(k + 1)
    <3>1. list[k + 1] \in FactRecords
      BY <1>1, <2>1
    <3>. QED  BY <2>1, <2>3, <2>5, <3>1
  <2>. QED  BY <2>1, <2>6
<1>6. N \in S
  <2>. HIDE DEF S
  <2>1. 0..N \subseteq S
    BY <1>1, <1>4, <1>5, SetInductionTo
  <2>. QED  BY <1>1, <2>1
<1>7. done[N] = Distinct(list) /\ done[N] \in Seq(FactRecords)
  BY <1>1, <1>2, <1>3 DEF DistinctBy
<1>8. Same(N)
  BY <1>6
<1>. HIDE DEF S, N
<1>. QED  BY <1>1, <1>7, <1>8

LEMMA FactRowsAppend ==
  ASSUME NEW table \in Tables, NEW list \in Tables,
         \A i \in DOMAIN table, j \in DOMAIN list : table[i].id # list[j].id
  PROVE  FactRows(table, list) = table \o list
<1>. DEFINE N == Len(list)
            T == Len(table)
<1>1. /\ list \in Seq(FactRecords) /\ UniqueIds(list) /\ N \in Nat /\ DOMAIN list = 1..N
      /\ table \in Seq(FactRecords) /\ T \in Nat /\ DOMAIN table = 1..T
  BY DEF Tables
<1>2. PICK done : FactRowsBy(table, list, done)
  BY <1>1, FactRowsSteps
<1>3. /\ done \in [0..N -> Tables] /\ done[0] = table /\ done[N] = FactRows(table, list)
      /\ \A k \in 1..N : done[k] = Upserted(done[k - 1], list[k])
  BY <1>2, DistinctSame DEF FactRowsBy
<1>. DEFINE Same(k) == /\ Len(done[k]) = T + k
                       /\ \A i \in 1..T : done[k][i] = table[i]
                       /\ \A i \in 1..k : done[k][T + i] = list[i]
            S == {k \in 0..N : Same(k)}
<1>4. \A k \in 0..N : done[k] \in Tables /\ done[k] \in Seq(FactRecords)
  BY <1>3 DEF Tables
<1>5. 0 \in S
  BY <1>1, <1>3
<1>6. ASSUME NEW k \in 0..N, k \in S, k < N PROVE k + 1 \in S
  <2>1. k + 1 \in 1..N /\ k \in Nat /\ k + 1 - 1 = k
    BY <1>1, <1>6
  <2>2. done[k + 1] = Upserted(done[k], list[k + 1])
    BY <1>3, <2>1
  <2>3. Same(k) /\ DOMAIN done[k] = 1..(T + k) /\ done[k] \in Seq(FactRecords)
    BY <1>4, <1>6
  <2>4. ASSUME NEW i \in DOMAIN done[k] PROVE done[k][i].id # list[k + 1].id
    <3>1. k + 1 \in DOMAIN list
      BY <1>1, <2>1
    <3>2. CASE i \in 1..T
      BY <1>1, <2>3, <3>1, <3>2
    <3>3. CASE i \notin 1..T
      <4>. DEFINE j == i - T
      <4>1. j \in 1..k /\ i = T + j
        BY <1>1, <2>1, <2>3, <3>3
      <4>2. j \in DOMAIN list /\ j # k + 1
        BY <1>1, <2>1, <4>1
      <4>3. done[k][i] = list[j]
        BY <2>3, <4>1
      <4>. HIDE DEF j
      <4>. QED  BY <1>1, <3>1, <4>2, <4>3 DEF UniqueIds
    <3>. QED  BY <3>2, <3>3
  <2>5. done[k + 1] = Append(done[k], list[k + 1])
    <3>. DEFINE row == list[k + 1]
                before == done[k]
    <3>1. before \in Seq(FactRecords) /\ \A i \in DOMAIN before : before[i].id # row.id
      BY <2>3, <2>4
    <3>. HIDE DEF row, before
    <3>2. Upserted(before, row) = Append(before, row)
      BY <3>1, UpsertedIs
    <3>. QED  BY <2>2, <3>2 DEF row, before
  <2>6. Same(k + 1)
    <3>1. list[k + 1] \in FactRecords
      BY <1>1, <2>1
    <3>2. /\ Len(done[k + 1]) = T + k + 1
          /\ \A i \in 1..(T + k) : done[k + 1][i] = done[k][i]
          /\ done[k + 1][T + k + 1] = list[k + 1]
      BY <1>1, <2>1, <2>3, <2>5, <3>1
    <3>3. ASSUME NEW i \in 1..T PROVE done[k + 1][i] = table[i]
      <4>1. i \in 1..(T + k) /\ done[k][i] = table[i]
        BY <1>1, <2>1, <2>3
      <4>. HIDE DEF T
      <4>. QED  BY <3>2, <4>1
    <3>4. ASSUME NEW i \in 1..(k + 1) PROVE done[k + 1][T + i] = list[i]
      <4>1. CASE i \in 1..k
        BY <1>1, <2>1, <2>3, <3>2, <4>1
      <4>2. CASE i = k + 1
        BY <1>1, <2>1, <3>2, <4>2
      <4>. QED  BY <2>1, <4>1, <4>2
    <3>. QED  BY <1>1, <2>1, <3>2, <3>3, <3>4
  <2>. QED  BY <2>1, <2>6
<1>7. N \in S
  <2>. HIDE DEF S
  <2>1. 0..N \subseteq S
    BY <1>1, <1>5, <1>6, SetInductionTo
  <2>. QED  BY <1>1, <2>1
<1>8. Same(N) /\ done[N] \in Seq(FactRecords) /\ done[N] = FactRows(table, list)
  BY <1>1, <1>3, <1>4, <1>7
<1>. DEFINE both == table \o list
<1>9. /\ both \in Seq(FactRecords) /\ Len(both) = T + N
      /\ \A i \in 1..T : both[i] = table[i]
      /\ \A i \in 1..N : both[T + i] = list[i]
  BY <1>1
<1>. HIDE DEF S, N, T, both
<1>10. ASSUME NEW i \in 1..(T + N) PROVE done[N][i] = both[i]
  <2>1. CASE i \in 1..T
    BY <1>8, <1>9, <2>1
  <2>2. CASE i \notin 1..T
    <3>1. i - T \in 1..N /\ i = T + (i - T)
      BY <1>1, <2>2
    <3>. QED  BY <1>8, <1>9, <3>1
  <2>. QED  BY <2>1, <2>2
<1>11. done[N] = both
  BY <1>1, <1>8, <1>9, <1>10
<1>. QED  BY <1>8, <1>11 DEF both

LEMMA DeletedSame ==
  ASSUME NEW list \in Tables, NEW stale \in SUBSET (DOMAIN list)
  PROVE  Deleted(list, {list[j].id : j \in stale}) = Sublist(list, DOMAIN list \ stale)
<1>. DEFINE ids == {list[j].id : j \in stale}
<1>1. UniqueIds(list)
  BY DEF Tables
<1>2. ASSUME NEW i \in DOMAIN list PROVE list[i].id \notin ids <=> i \in DOMAIN list \ stale
  BY <1>1 DEF UniqueIds
<1>3. {i \in DOMAIN list : list[i].id \notin ids} = DOMAIN list \ stale
  <2>. HIDE DEF ids
  <2>. QED  BY <1>2
<1>. QED  BY <1>3 DEF Deleted

(* The row of a number, when one session has it. *)
LEMMA RawSnapshotHas ==
  ASSUME NEW list \in Seq(RawRecords), NEW i \in DOMAIN list, list[i].num \in Nums,
         \A j \in DOMAIN list : list[j].num = list[i].num => j = i
  PROVE  RawSnapshot(list)[list[i].num] = list[i]
<1>. DEFINE n == list[i].num
            I == {j \in DOMAIN list : list[j].num = n}
            best == {j \in I : \A k \in I : Rank(list[k].status) <= Rank(list[j].status)}
<1>1. RawSnapshot(list)[n] = IF I = {} THEN None ELSE list[Max(best)]
  BY DEF RawSnapshot
<1>2. I = {i}
  OBVIOUS
<1>3. Rank(list[i].status) \in 0..3
  BY DEF Rank
<1>4. best = {i}
  BY <1>2, <1>3
<1>5. i \in Nat
  OBVIOUS
<1>6. Max({i}) = i
  <2>1. {i} \in SUBSET (0..i) /\ {i} # {}
    BY <1>5
  <2>2. Max({i}) \in {i}
    BY <1>5, <2>1, MaxIs
  <2>. QED  BY <2>2
<1>. HIDE DEF I, best, n
<1>7. RawSnapshot(list)[n] = list[i]
  BY <1>1, <1>2, <1>4, <1>6
<1>. QED  BY <1>7 DEF n
-----------------------------------------------------------------------------
(* Sessions with keys, each number with one key: the table of facts is the *)
(* list of facts.  No two facts have one id, because a session leaves with *)
(* all its facts, edited ones too, before its number is used again; so no  *)
(* row is renamed, no snapshot refused, and a restart reads back what was. *)

(* The rows are those of the sessions, which have the keys they may have.  *)
HeldInv ==
  /\ \A i \in DOMAIN raws :
       rows[raws[i].num] = raws[i] /\ <<raws[i].num, raws[i].key>> \in Uses
  /\ \A n \in Nums : rows[n] # None => \E i \in DOMAIN raws : raws[i] = rows[n]
  /\ \A c \in Calls : InFlight(c) => <<calls[c].num, calls[c].key>> \in Uses

(* Every fact is of a session in memory. *)
HasOwner(f, list) ==
  \E j \in DOMAIN list : list[j].ver = f.raw /\ list[j].num = f.num /\ list[j].art = f.art

OwnerInv ==
  /\ \A i \in DOMAIN facts : HasOwner(facts[i], raws)
  /\ \A i \in DOMAIN raws, n \in Nums : raws[i].ver = current[n].ver => raws[i].num = n

ApartInv ==
  CurrentInv /\ IdInv /\ FreshInv /\ OnePerKey /\ saved = facts /\ HeldInv /\ OwnerInv

ApartAssumption ==
  /\ \A n \in Nums : \A k, l \in Keys : <<n, k>> \in Uses /\ <<n, l>> \in Uses => k = l
  /\ NoKey \notin Keys /\ 0 \notin Nums /\ "unready" \notin Events /\ "overlap" \notin Events

(* What a replaced session leaves has nothing of its number or key. *)
Leaves(call, kept) ==
  /\ kept.raws \in Seq(RawRecords) /\ kept.facts \in Tables
  /\ \A k \in DOMAIN kept.raws : \E i \in DOMAIN raws :
       kept.raws[k] = raws[i] /\ raws[i].num # call.num /\ kept.rows[raws[i].num] = raws[i]
  /\ \A k \in DOMAIN kept.facts : \E i \in DOMAIN facts :
       kept.facts[k] = facts[i] /\ facts[i].num # call.num /\ HasOwner(facts[i], kept.raws)
  /\ kept.rows \in [Nums -> {None} \cup RawRecords]
  /\ \A n \in Nums : n # call.num /\ kept.rows[n] # None =>
       \E k \in DOMAIN kept.raws : kept.raws[k] = kept.rows[n]
  /\ Deleted(facts, kept.gone) = kept.facts

LEMMA ApartTypes ==
  ASSUME ApartInv
  PROVE  /\ TypedInv /\ RawsInv /\ RawsOK /\ VersionInv /\ FactsOK /\ CurrentInv
         /\ facts \in Seq(FactRecords) /\ facts \in Tables
         /\ \A r \in RawRecords : r.num \in Nums /\ r.key \in Keys /\ r.ver \in Versions
         /\ \A i \in DOMAIN raws : raws[i] \in RawRecords
<1>1. TypedInv /\ CurrentInv /\ saved = facts
  BY DEF ApartInv, CurrentInv
<1>2. RawsInv /\ RawsOK /\ VersionInv /\ FactsOK
  BY <1>1 DEF TypedInv, RawsInv
<1>3. facts \in Seq(FactRecords) /\ facts \in Tables
  BY <1>1, <1>2 DEF FactsOK
<1>4. \A r \in RawRecords : r.num \in Nums /\ r.key \in Keys /\ r.ver \in Versions
  BY DEF RawRecords
<1>5. \A i \in DOMAIN raws : raws[i] \in RawRecords
  BY <1>2 DEF RawsOK
<1>. QED  BY <1>1, <1>2, <1>3, <1>4, <1>5

(* One session of each number. *)
LEMMA OnePerNumber ==
  ASSUME ApartInv, NEW i \in DOMAIN raws, NEW j \in DOMAIN raws, raws[i].num = raws[j].num
  PROVE  i = j
<1>1. raws[i] = raws[j]
  BY DEF ApartInv, HeldInv
<1>. QED  BY <1>1, ApartTypes DEF VersionInv

LEMMA KeptApart ==
  ASSUME ApartInv, ApartAssumption, NEW c \in Calls, InFlight(c), NEW call, call = calls[c]
  PROVE  Leaves(call, Kept(call))
<1>. DEFINE h == Holder(call)
            kept == Kept(call)
            stale == {j \in DOMAIN facts : facts[j].raw = raws[h].ver}
<1>1. /\ rows \in [Nums -> {None} \cup RawRecords] /\ raws \in Seq(RawRecords) /\ RawsOK
      /\ facts \in Seq(FactRecords) /\ facts \in Tables
      /\ \A r \in RawRecords : r.num \in Nums /\ r.key \in Keys /\ r.ver \in Versions
      /\ \A i \in DOMAIN raws : raws[i] \in RawRecords
  BY ApartTypes DEF RawsOK
<1>2. /\ call.num \in Nums /\ call.key \in Keys /\ call.key # NoKey /\ <<call.num, call.key>> \in Uses
  BY <1>1, CallIs DEF ApartAssumption, ApartInv, HeldInv
<1>3. \A i \in DOMAIN raws : raws[i].num = call.num => raws[i].key = call.key
  BY <1>1, <1>2 DEF ApartAssumption, ApartInv, HeldInv
<1>4. \A i \in DOMAIN facts : HasOwner(facts[i], raws)
  BY DEF ApartInv, OwnerInv
<1>5. \A n \in Nums : rows[n] # None => rows[n].num = n /\ \E i \in DOMAIN raws : raws[i] = rows[n]
  BY ApartTypes DEF VersionInv, ApartInv, HeldInv
<1>6. \A i \in DOMAIN raws : rows[raws[i].num] = raws[i]
  BY DEF ApartInv, HeldInv
<1>7. CASE h = 0
  <2>1. kept.raws = raws /\ kept.facts = facts /\ kept.rows = rows /\ kept.gone = {}
    BY <1>7 DEF Kept
  <2>2. \A i \in DOMAIN raws : raws[i].key # call.key
    BY <1>1, <1>2, <1>7, HolderIs
  <2>3. \A i \in DOMAIN raws : raws[i].num # call.num
    BY <1>3, <2>2
  <2>4. \A i \in DOMAIN facts : facts[i].num # call.num
    BY <1>4, <2>3 DEF HasOwner
  <2>5. Deleted(facts, {}) = facts
    <3>1. {i \in DOMAIN facts : facts[i].id \notin {}} = DOMAIN facts
      OBVIOUS
    <3>2. Sublist(facts, DOMAIN facts) = facts
      BY <1>1, SublistAll
    <3>. QED  BY <3>1, <3>2 DEF Deleted
  <2>. HIDE DEF kept
  <2>. QED  BY <1>1, <1>4, <1>5, <1>6, <2>1, <2>3, <2>4, <2>5 DEF Leaves, kept
<1>8. CASE h # 0
  <2>1. h \in DOMAIN raws /\ raws[h].key = call.key
    BY <1>1, <1>8, HolderIs
  <2>2. /\ kept.raws = Sublist(raws, DOMAIN raws \ {h})
        /\ kept.facts = Sublist(facts, DOMAIN facts \ stale)
        /\ kept.gone = {facts[j].id : j \in stale}
        /\ kept.rows = [rows EXCEPT ![raws[h].num] = IF raws[h].num = call.num THEN @ ELSE None]
    BY <1>8 DEF Kept
  <2>3. stale \in SUBSET (DOMAIN facts) /\ \A j \in DOMAIN facts : j \in stale <=> facts[j].raw = raws[h].ver
    OBVIOUS
  <2>. HIDE DEF kept, h, stale
  <2>4. /\ kept.rows \in [Nums -> {None} \cup RawRecords]
        /\ \A n \in Nums : kept.rows[n] = IF n = raws[h].num /\ n # call.num THEN None ELSE rows[n]
    BY <1>1, <2>2
  <2>5. /\ kept.raws \in Seq(RawRecords)
        /\ \A k \in DOMAIN kept.raws : \E i \in DOMAIN raws \ {h} : kept.raws[k] = raws[i]
        /\ \A i \in DOMAIN raws \ {h} : \E k \in DOMAIN kept.raws : kept.raws[k] = raws[i]
    <3>. DEFINE I == DOMAIN raws \ {h}
    <3>1. I \in SUBSET (DOMAIN raws) /\ kept.raws = Sublist(raws, I)
      BY <2>2
    <3>2. /\ kept.raws \in Seq(RawRecords)
          /\ \A k \in DOMAIN kept.raws : \E i \in I : kept.raws[k] = raws[i]
          /\ \A i \in I : \E k \in DOMAIN kept.raws : kept.raws[k] = raws[i]
      <4>. HIDE DEF I
      <4>. QED  BY <1>1, <3>1, SublistOf
    <3>. QED  BY <3>2
  <2>6. ASSUME NEW i \in DOMAIN raws \ {h}
        PROVE  raws[i].num # call.num /\ raws[i].num # raws[h].num
    <3>1. raws[i].key # call.key
      BY <1>2, <2>1 DEF ApartInv, OnePerKey
    <3>. QED  BY <1>3, <2>1, <3>1, OnePerNumber
  <2>7. /\ kept.facts \in Seq(FactRecords)
        /\ \A k \in DOMAIN kept.facts : \E i \in DOMAIN facts \ stale : kept.facts[k] = facts[i]
        /\ \A j, k \in DOMAIN kept.facts : j # k =>
             \E g, i \in DOMAIN facts : g # i /\ kept.facts[j] = facts[g] /\ kept.facts[k] = facts[i]
    <3>. DEFINE I == DOMAIN facts \ stale
    <3>1. I \in SUBSET (DOMAIN facts) /\ kept.facts = Sublist(facts, I)
      BY <2>2
    <3>. DEFINE list == kept.facts
    <3>2. list = Sublist(facts, I)
      BY <3>1
    <3>3. \A i \in I : i \in DOMAIN facts
      OBVIOUS
    <3>. HIDE DEF I, list
    <3>4. /\ list \in Seq(FactRecords)
          /\ \A k \in DOMAIN list : \E i \in I : list[k] = facts[i]
          /\ \A j, k \in DOMAIN list : j # k =>
               \E g, i \in I : g # i /\ list[j] = facts[g] /\ list[k] = facts[i]
      BY <1>1, <3>1, <3>2, SublistOf
    <3>5. \A j, k \in DOMAIN list : j # k =>
            \E g, i \in DOMAIN facts : g # i /\ list[j] = facts[g] /\ list[k] = facts[i]
      BY <3>3, <3>4
    <3>. QED  BY <3>4, <3>5 DEF I, list
  <2>8. kept.facts \in Tables
    <3>1. UniqueIds(facts)
      BY <1>1 DEF Tables
    <3>2. UniqueIds(kept.facts)
      BY <2>7, <3>1 DEF UniqueIds
    <3>. QED  BY <2>7, <3>2 DEF Tables
  <2>9. ASSUME NEW i \in DOMAIN facts \ stale
        PROVE  facts[i].num # call.num /\ HasOwner(facts[i], kept.raws)
    <3>1. PICK j \in DOMAIN raws :
             raws[j].ver = facts[i].raw /\ raws[j].num = facts[i].num /\ raws[j].art = facts[i].art
      BY <1>4 DEF HasOwner
    <3>2. j # h
      BY <2>3, <2>9, <3>1
    <3>3. PICK k \in DOMAIN kept.raws : kept.raws[k] = raws[j]
      BY <2>5, <3>2
    <3>. QED  BY <2>6, <3>1, <3>2, <3>3 DEF HasOwner
  <2>10. Deleted(facts, kept.gone) = kept.facts
    BY <1>1, <2>2, <2>3, DeletedSame
  <2>11. ASSUME NEW k \in DOMAIN kept.raws
         PROVE  \E i \in DOMAIN raws :
                  kept.raws[k] = raws[i] /\ raws[i].num # call.num /\ kept.rows[raws[i].num] = raws[i]
    <3>1. PICK i \in DOMAIN raws \ {h} : kept.raws[k] = raws[i]
      BY <2>5
    <3>2. raws[i].num \in Nums
      BY <1>1
    <3>. QED  BY <1>6, <2>4, <2>6, <3>1, <3>2
  <2>12. ASSUME NEW n \in Nums, n # call.num, kept.rows[n] # None
         PROVE  \E k \in DOMAIN kept.raws : kept.raws[k] = kept.rows[n]
    <3>1. n # raws[h].num /\ kept.rows[n] = rows[n]
      BY <2>4, <2>12
    <3>2. PICK i \in DOMAIN raws : raws[i] = rows[n] /\ rows[n].num = n
      BY <1>5, <2>12, <3>1
    <3>. QED  BY <2>5, <3>1, <3>2
  <2>. QED  BY <2>4, <2>5, <2>7, <2>8, <2>9, <2>10, <2>11, <2>12 DEF Leaves, kept
<1>. QED  BY <1>7, <1>8

(* The rows and owners after a session came to its number. *)
LEMMA EntersApart ==
  ASSUME ApartInv, NEW c \in Calls, InFlight(c), NEW kept, Leaves(calls[c], kept),
         NEW raw \in RawRecords, raw.num = calls[c].num, raw.key = calls[c].key,
         raws' = Append(kept.raws, raw), rows' = [kept.rows EXCEPT ![raw.num] = raw],
         calls' = [calls EXCEPT ![c] = NoCall]
  PROVE  /\ HeldInv'
         /\ \A f : HasOwner(f, kept.raws) => HasOwner(f, raws')
<1>1. /\ kept.raws \in Seq(RawRecords) /\ raw.num \in Nums
      /\ DOMAIN raws' = 1..(Len(kept.raws) + 1) /\ DOMAIN kept.raws = 1..Len(kept.raws)
      /\ Len(kept.raws) \in Nat
      /\ \A i \in DOMAIN kept.raws : raws'[i] = kept.raws[i]
      /\ raws'[Len(kept.raws) + 1] = raw
  BY ApartTypes DEF Leaves
<1>2. \A n \in Nums : rows'[n] = IF n = raw.num THEN raw ELSE kept.rows[n]
  BY <1>1 DEF Leaves
<1>3. ASSUME NEW i \in DOMAIN raws'
      PROVE  rows'[raws'[i].num] = raws'[i] /\ <<raws'[i].num, raws'[i].key>> \in Uses
  <2>1. CASE i \in DOMAIN kept.raws
    <3>1. PICK j \in DOMAIN raws : kept.raws[i] = raws[j] /\ raws[j].num # raw.num
                                   /\ kept.rows[raws[j].num] = raws[j]
      BY <2>1 DEF Leaves
    <3>2. raws[j].num \in Nums /\ <<raws[j].num, raws[j].key>> \in Uses
      BY ApartTypes DEF ApartInv, HeldInv
    <3>. QED  BY <1>1, <1>2, <2>1, <3>1, <3>2
  <2>2. CASE i = Len(kept.raws) + 1
    <3>1. <<raw.num, raw.key>> \in Uses
      BY DEF ApartInv, HeldInv
    <3>2. raws'[i] = raw /\ rows'[raw.num] = raw
      BY <1>1, <1>2, <2>2
    <3>. QED  BY <3>1, <3>2
  <2>3. i \in DOMAIN kept.raws \/ i = Len(kept.raws) + 1
    BY <1>1
  <2>. QED  BY <2>1, <2>2, <2>3
<1>4. ASSUME NEW n \in Nums, rows'[n] # None
      PROVE  \E i \in DOMAIN raws' : raws'[i] = rows'[n]
  <2>1. CASE n = raw.num
    BY <1>1, <1>2, <2>1
  <2>2. CASE n # raw.num
    <3>1. PICK k \in DOMAIN kept.raws : kept.raws[k] = kept.rows[n]
      BY <1>2, <1>4, <2>2 DEF Leaves
    <3>. QED  BY <1>1, <1>2, <2>2, <3>1
  <2>. QED  BY <2>1, <2>2
<1>5. \A d \in Calls : (InFlight(d))' => <<calls'[d].num, calls'[d].key>> \in Uses
  <2>1. \A d \in Calls : calls'[d] = IF d = c THEN NoCall ELSE calls[d]
    BY ApartTypes DEF RawsOK
  <2>. QED  BY <2>1 DEF InFlight, ApartInv, HeldInv
<1>6. ASSUME NEW f, HasOwner(f, kept.raws) PROVE HasOwner(f, raws')
  BY <1>1, <1>6 DEF HasOwner
<1>. QED  BY <1>3, <1>4, <1>5, <1>6 DEF HeldInv

LEMMA MarkedNone ==
  ASSUME NEW V, NEW list \in Seq(V), NEW S, NEW status, \A i \in DOMAIN list : list[i] \notin S
  PROVE  Marked(list, S, status) = list
<1>1. list = [i \in DOMAIN list |-> list[i]]
  OBVIOUS
<1>2. Marked(list, S, status) = [i \in DOMAIN list |-> list[i]]
  BY DEF Marked
<1>. QED  BY <1>1, <1>2

(* The table holds, row by row, what is active. *)
LEMMA ApartStored == ApartInv => StoredInv
<1>. SUFFICES ASSUME ApartInv PROVE KeptInv
  BY DEF ApartInv, StoredInv
<1>1. CurrentInv /\ IdInv /\ saved = facts
  BY DEF ApartInv
<1>2. ASSUME NEW i \in DOMAIN facts, facts[i].status = "active"
      PROVE  IsRowOf(saved[i], facts[i])
  <2>1. facts[i].id \in Seq(Nat) /\ Len(facts[i].id) = 2
    BY <1>1, VersionsArePositive DEF IdInv, IdOf
  <2>2. SubSeq(facts[i].id, 1, 2) = facts[i].id
    BY <2>1, PartsOf
  <2>. QED  BY <1>1, <1>2, <2>2 DEF IsRowOf
<1>. QED  BY <1>1, <1>2 DEF KeptInv

(* A call that comes, or gets the lock, changes no table. *)
LEMMA WaitingApart ==
  ASSUME ApartInv, NEW c \in Calls,
         \/ \E n \in Nums, k \in Keys : <<n, k>> \in Uses /\ Store(c, n, k)
         \/ Locked(c)
  PROVE  ApartInv'
<1>1. CurrentInv /\ StoredInv /\ TypedInv /\ RawsOK
  BY ApartStored, ApartTypes
<1>2. TypedInv' /\ ActiveInv' /\ CallsInv' /\ IdInv' /\ FreshInv'
  <2>1. CASE \E n \in Nums, k \in Keys : <<n, k>> \in Uses /\ Store(c, n, k)
    BY <1>1, <2>1, StoreTyped, StoreCurrent, StoreStored
  <2>2. CASE Locked(c)
    BY <1>1, <2>2, LockedTyped, LockedCurrent, LockedStored
  <2>. QED  BY <2>1, <2>2
<1>3. UNCHANGED <<raws, facts, current, rows, saved>>
  BY DEF Store, Locked
<1>4. ASSUME NEW d \in Calls, (InFlight(d))' PROVE <<calls'[d].num, calls'[d].key>> \in Uses
  <2>1. CASE d # c
    <3>1. calls'[d] = calls[d]
      BY <1>1, <2>1 DEF Store, Locked, RawsOK
    <3>. QED  BY <1>4, <3>1 DEF InFlight, ApartInv, HeldInv
  <2>2. CASE d = c /\ Locked(c)
    <3>1. InFlight(c) /\ calls[c] \in CallRecords
      BY <1>1, <2>2, CallIs DEF Locked
    <3>2. \A l \in CallRecords : /\ [l EXCEPT !.phase = "extract"].num = l.num
                                 /\ [l EXCEPT !.phase = "extract"].key = l.key
      BY DEF CallRecords
    <3>3. calls'[c] = [calls[c] EXCEPT !.phase = "extract"]
      BY <1>1, <2>2 DEF Locked, RawsOK
    <3>4. calls'[c].num = calls[c].num /\ calls'[c].key = calls[c].key
      BY <3>1, <3>2, <3>3
    <3>. QED  BY <2>2, <3>1, <3>4 DEF ApartInv, HeldInv
  <2>3. CASE d = c /\ \E n \in Nums, k \in Keys : <<n, k>> \in Uses /\ Store(c, n, k)
    <3>1. PICK n \in Nums, k \in Keys : <<n, k>> \in Uses /\ Store(c, n, k)
      BY <2>3
    <3>2. calls'[c].num = n /\ calls'[c].key = k
      BY <1>1, <3>1 DEF Store, RawsOK
    <3>. QED  BY <2>3, <3>1, <3>2
  <2>. QED  BY <2>1, <2>2, <2>3
<1>5. OnePerKey' /\ (saved = facts)' /\ OwnerInv'
  BY <1>3 DEF ApartInv, OnePerKey, OwnerInv, HasOwner
<1>6. HeldInv'
  BY <1>3, <1>4 DEF ApartInv, HeldInv
<1>. QED  BY <1>2, <1>5, <1>6 DEF ApartInv, CurrentInv

(* A call ends without facts of its own. *)
LEMMA EndsApart ==
  ASSUME ApartInv, ApartAssumption, NEW c \in Calls, NEW status \in Statuses, Ends(c, status)
  PROVE  ApartInv'
<1>. DEFINE call == calls[c]
            raw == RawOf(call, status)
            kept == Kept(call)
<1>1. /\ call.phase = "extract" /\ raws' = Append(kept.raws, raw) /\ facts' = kept.facts
      /\ rows' = [kept.rows EXCEPT ![raw.num] = raw] /\ saved' = Written(saved, kept.gone, <<>>)
      /\ calls' = [calls EXCEPT ![c] = NoCall] /\ Free(c) /\ UNCHANGED <<current, last>>
  BY DEF Ends, Free
<1>2. CurrentInv /\ StoredInv /\ TypedInv /\ RawsOK /\ VersionInv /\ OnePerKey /\ saved = facts
  BY ApartStored, ApartTypes DEF ApartInv
<1>3. InFlight(c)
  BY <1>1, <1>2, CallIs
<1>4. TypedInv' /\ ActiveInv' /\ CallsInv' /\ OnePerKey'
  BY <1>2, EndsTyped, EndsCurrent, EndsKey
<1>5. raw \in RawRecords /\ raw.ver = call.ver /\ raw.num = call.num /\ raw.key = call.key
  BY <1>2, <1>3, RawIs
<1>6. Leaves(call, kept)
  BY <1>3, KeptApart
<1>. HIDE DEF raw, kept
<1>7. kept.facts \in Tables /\ \A k \in DOMAIN kept.facts : \E i \in DOMAIN facts :
        kept.facts[k] = facts[i] /\ HasOwner(facts[i], kept.raws)
  BY <1>6 DEF Leaves
<1>8. IdInv' /\ FreshInv'
  <2>1. FactsFrom(facts')
    BY <1>1, <1>7 DEF FactsFrom
  <2>2. \A d \in Calls : (InFlight(d))' => InFlight(d) /\ calls'[d].ver = calls[d].ver
    BY <1>1, <1>2 DEF RawsOK, InFlight
  <2>. QED  BY <1>1, <1>2, <2>1, <2>2, FreshStays
<1>9. (saved = facts)'
  <2>1. <<>> \in Tables
    BY DEF Tables, UniqueIds
  <2>2. Deleted(saved, kept.gone) = kept.facts
    BY <1>2, <1>6 DEF Leaves
  <2>3. FactRows(kept.facts, <<>>) = kept.facts \o <<>>
    <3>1. DOMAIN <<>> = {}
      OBVIOUS
    <3>2. ASSUME NEW list \in Tables, DOMAIN list = {}
          PROVE  FactRows(kept.facts, list) = kept.facts \o list
      BY <1>7, <3>2, FactRowsAppend
    <3>. QED  BY <2>1, <3>1, <3>2
  <2>4. kept.facts \o <<>> = kept.facts
    BY <1>7 DEF Tables
  <2>. QED  BY <1>1, <2>2, <2>3, <2>4 DEF Written
<1>10. HeldInv' /\ \A f : HasOwner(f, kept.raws) => HasOwner(f, raws')
  <2>. HIDE DEF call
  <2>. QED  BY <1>1, <1>3, <1>5, <1>6, EntersApart DEF call
<1>11. OwnerInv'
  <2>1. \A i \in DOMAIN facts' : HasOwner(facts'[i], raws')
    BY <1>1, <1>7, <1>10
  <2>2. ASSUME NEW i \in DOMAIN raws', NEW n \in Nums, raws'[i].ver = current'[n].ver
        PROVE  raws'[i].num = n
    <3>1. CASE \E j \in DOMAIN raws : raws'[i] = raws[j]
      BY <1>1, <2>2, <3>1 DEF ApartInv, OwnerInv
    <3>2. CASE raws'[i] = raw
      BY <1>1, <1>3, <1>5, <2>2, <3>2 DEF ApartInv, FreshInv
    <3>3. raws'[i] = raw \/ \E k \in DOMAIN kept.raws : raws'[i] = kept.raws[k]
      BY <1>1, <1>6 DEF Leaves
    <3>4. \A k \in DOMAIN kept.raws : \E j \in DOMAIN raws : kept.raws[k] = raws[j]
      BY <1>6 DEF Leaves
    <3>. QED  BY <3>1, <3>2, <3>3, <3>4
  <2>. QED  BY <2>1, <2>2 DEF OwnerInv
<1>. QED  BY <1>4, <1>8, <1>9, <1>10, <1>11 DEF ApartInv, CurrentInv

NoneShared(list, new) == \A i \in DOMAIN list, k \in DOMAIN new : list[i].id # new[k].id

AreOf(call, new) ==
  \A k \in DOMAIN new :
    IdOf(new[k]) /\ new[k].ver = call.ver /\ new[k].art = call.art /\ new[k].num = call.num
    /\ new[k].raw = call.ver

(* The facts of an extraction, which are nobody else's. *)
LEMMA NewFactsApart ==
  ASSUME ApartInv, ApartAssumption, NEW c \in Calls, InFlight(c), NEW size \in Nat,
         NEW kept, Leaves(calls[c], kept), NEW new, new = NewFacts(calls[c], size)
  PROVE  new \in Tables /\ DOMAIN new = 1..size /\ AreOf(calls[c], new) /\ NoneShared(kept.facts, new)
<1>. DEFINE call == calls[c]
<1>1. RawsOK /\ FactsOK /\ call.num \in Nums /\ call.num \in Nat /\ call.num # 0
  BY ApartTypes, CallIs, SessionAssumption DEF ApartAssumption
<1>2. /\ new \in Seq(FactRecords) /\ DOMAIN new = 1..size
      /\ \A k \in 1..size : new[k].ver = call.ver /\ new[k].art = call.art /\ new[k].num = call.num
  BY <1>1, NewFactsAre
<1>3. \A k \in 1..size : new[k].id = <<call.num, k>> /\ new[k].raw = call.ver
  BY DEF NewFacts, FactOf
<1>. HIDE DEF call
<1>4. \A k \in 1..size : Len(new[k].id) = 2 /\ new[k].id[1] = call.num /\ new[k].id[2] = k
  <2>1. \A x, y : Len(<<x, y>>) = 2 /\ <<x, y>>[1] = x /\ <<x, y>>[2] = y
    OBVIOUS
  <2>. QED  BY <1>3, <2>1
<1>5. UniqueIds(new)
  BY <1>2, <1>4 DEF UniqueIds
<1>6. \A k \in 1..size : IdOf(new[k])
  BY <1>1, <1>2, <1>4 DEF IdOf
<1>7. ASSUME NEW i \in DOMAIN kept.facts, NEW k \in DOMAIN new PROVE kept.facts[i].id # new[k].id
  <2>1. PICK j \in DOMAIN facts : kept.facts[i] = facts[j] /\ facts[j].num # call.num
    BY DEF Leaves, call
  <2>2. IdOf(facts[j])
    BY DEF ApartInv, IdInv
  <2>. QED  BY <1>1, <1>2, <1>4, <2>1, <2>2 DEF IdOf
<1>. QED  BY <1>2, <1>3, <1>5, <1>6, <1>7 DEF Tables, NoneShared, AreOf, call

(* Nothing of the version before is left when a call finds its facts.      *)
LEMMA FoundIs ==
  ASSUME ApartInv, ApartAssumption, NEW c \in Calls, NEW size \in Sizes, Found(c, size)
  PROVE  LET kept == Kept(calls[c])
             raw  == RawOf(calls[c], "active")
             new  == NewFacts(calls[c], size)
         IN /\ InFlight(c) /\ Leaves(calls[c], kept)
            /\ raws' = Append(kept.raws, raw) /\ facts' = kept.facts \o new /\ saved' = facts'
            /\ rows' = [kept.rows EXCEPT ![calls[c].num] = raw]
            /\ current' = [current EXCEPT ![calls[c].num] = [art |-> calls[c].art, ver |-> calls[c].ver]]
            /\ calls' = [calls EXCEPT ![c] = NoCall] /\ last' = last
<1>. DEFINE call == calls[c]
            kept == Kept(call)
            raw == RawOf(call, "active")
            new == NewFacts(call, size)
            before == Superseded(kept.facts, call.old)
<1>1. CurrentInv /\ RawsOK /\ FactsOK /\ saved = facts
  BY ApartTypes DEF ApartInv
<1>2. call.phase = "extract" /\ InFlight(c)
  BY <1>1, CallIs DEF Found
<1>3. Leaves(call, kept)
  BY <1>2, KeptApart
<1>4. /\ raws' = Append(Superseded(kept.raws, call.old), raw)
      /\ facts' = before \o new
      /\ current' = [current EXCEPT ![call.num] = [art |-> call.art, ver |-> call.ver]]
      /\ rows' = [kept.rows EXCEPT ![call.num] = raw]
      /\ saved' = Written(saved, kept.gone, OfVersion(before, call.old) \o new)
      /\ calls' = [calls EXCEPT ![c] = NoCall] /\ last' = last
  BY DEF Found, Free
<1>5. call.num \in Nums /\ call.old = current[call.num].ver
  BY <1>1, <1>2, CallIs DEF CurrentInv, CallsInv
<1>6. size \in Nat
  BY SessionAssumption
<1>7. new \in Tables /\ NoneShared(kept.facts, new)
  <2>. HIDE DEF kept, call
  <2>1. InFlight(c) /\ Leaves(calls[c], kept)
    BY <1>2, <1>3 DEF call
  <2>2. new = NewFacts(calls[c], size)
    BY DEF call
  <2>. HIDE DEF new
  <2>. QED  BY <1>6, <2>1, <2>2, NewFactsApart
<1>. HIDE DEF kept, raw, new, call
<1>8. kept.raws \in Seq(RawRecords) /\ kept.facts \in Tables /\ kept.facts \in Seq(FactRecords)
  BY <1>3 DEF Leaves, Tables
<1>9. \A k \in DOMAIN kept.raws : kept.raws[k].ver # call.old
  BY <1>3, <1>5 DEF Leaves, ApartInv, OwnerInv
<1>10. \A k \in DOMAIN kept.facts : kept.facts[k].ver # call.old
  BY <1>3, <1>5 DEF Leaves, ApartInv, FreshInv
<1>11. Superseded(kept.raws, call.old) = kept.raws
  <2>. DEFINE S == {e \in ToSet(kept.raws) : e.ver = call.old}
  <2>1. \A k \in DOMAIN kept.raws : kept.raws[k] \notin S
    BY <1>9
  <2>2. Superseded(kept.raws, call.old) = Marked(kept.raws, S, "superseded")
    BY DEF Superseded
  <2>. HIDE DEF S
  <2>. QED  BY <1>8, <2>1, <2>2, MarkedNone
<1>12. before = kept.facts
  <2>. DEFINE S == {e \in ToSet(kept.facts) : e.ver = call.old}
  <2>1. \A k \in DOMAIN kept.facts : kept.facts[k] \notin S
    BY <1>10
  <2>2. before = Marked(kept.facts, S, "superseded")
    BY DEF Superseded
  <2>. HIDE DEF S, before
  <2>. QED  BY <1>8, <2>1, <2>2, MarkedNone
<1>. HIDE DEF before
<1>13. OfVersion(before, call.old) \o new = new
  <2>. DEFINE I == {i \in DOMAIN before : before[i].ver = call.old}
              none == Sublist(before, I)
  <2>1. I = {}
    BY <1>10, <1>12
  <2>2. OfVersion(before, call.old) = none
    BY DEF OfVersion
  <2>. HIDE DEF I
  <2>3. I \in SUBSET (DOMAIN before) /\ before \in Seq(FactRecords)
    BY <1>8, <1>12, <2>1
  <2>4. none \in Seq(FactRecords) /\ \A k \in DOMAIN none : \E i \in I : none[k] = before[i]
    BY <2>3, SublistOf
  <2>. HIDE DEF none
  <2>5. Len(none) = 0
    BY <2>1, <2>4
  <2>6. none = <<>>
    BY <2>4, <2>5
  <2>7. <<>> \o new = new
    BY <1>7 DEF Tables
  <2>. QED  BY <2>2, <2>6, <2>7
<1>14. Deleted(saved, kept.gone) = kept.facts
  BY <1>1, <1>3 DEF Leaves
<1>15. saved' = FactRows(kept.facts, new)
  BY <1>4, <1>13, <1>14 DEF Written
<1>16. FactRows(kept.facts, new) = kept.facts \o new
  BY <1>7, <1>8, FactRowsAppend DEF NoneShared
<1>. QED  BY <1>2, <1>3, <1>4, <1>11, <1>12, <1>15, <1>16 DEF kept, raw, new, call

LEMMA FoundApart ==
  ASSUME ApartInv, ApartAssumption, NEW c \in Calls, NEW size \in Sizes, Found(c, size)
  PROVE  ApartInv'
<1>. DEFINE call == calls[c]
            raw == RawOf(call, "active")
            kept == Kept(call)
            new == NewFacts(call, size)
            entry == [art |-> call.art, ver |-> call.ver]
<1>1. /\ CurrentInv /\ TypedInv /\ RawsOK /\ FactsOK /\ VersionInv /\ OnePerKey /\ IdInv /\ FreshInv
      /\ size \in Nat
  BY ApartTypes, SessionAssumption DEF ApartInv
<1>2. /\ InFlight(c) /\ Leaves(call, kept)
      /\ raws' = Append(kept.raws, raw) /\ facts' = kept.facts \o new /\ saved' = facts'
      /\ rows' = [kept.rows EXCEPT ![call.num] = raw]
      /\ current' = [current EXCEPT ![call.num] = entry]
      /\ calls' = [calls EXCEPT ![c] = NoCall] /\ last' = last
  BY FoundIs
<1>3. TypedInv' /\ ActiveInv' /\ CallsInv' /\ OnePerKey'
  BY <1>1, FoundTyped, FoundCurrent, FoundKey
<1>4. /\ raw \in RawRecords /\ raw.ver = call.ver /\ raw.num = call.num /\ raw.key = call.key
      /\ raw.art = call.art
  <2>1. "active" \in Statuses
    BY DEF Statuses
  <2>. QED  BY <1>1, <1>2, <2>1, RawIs DEF RawOf
<1>5. /\ call.num \in Nums /\ call.ver <= last
      /\ \A d \in Calls : InFlight(d) /\ d # c => calls[d].ver # call.ver
  BY <1>1, <1>2, CallIs DEF VersionInv
<1>6. /\ new \in Tables /\ DOMAIN new = 1..size
      /\ \A k \in 1..size : /\ IdOf(new[k]) /\ new[k].ver = call.ver /\ new[k].art = call.art
                            /\ new[k].num = call.num /\ new[k].raw = call.ver
  <2>. HIDE DEF kept, call
  <2>1. InFlight(c) /\ Leaves(calls[c], kept)
    BY <1>2 DEF call
  <2>2. new = NewFacts(calls[c], size) /\ call = calls[c]
    BY DEF call
  <2>. HIDE DEF new
  <2>3. new \in Tables /\ DOMAIN new = 1..size /\ AreOf(call, new)
    BY <1>1, <2>1, <2>2, NewFactsApart
  <2>. QED  BY <2>3 DEF AreOf
<1>7. HeldInv' /\ \A f : HasOwner(f, kept.raws) => HasOwner(f, raws')
  <2>. HIDE DEF kept, raw
  <2>. QED  BY <1>2, <1>4, EntersApart
<1>8. entry.ver = call.ver
  OBVIOUS
<1>9. \A m \in Nums : current'[m] = IF m = call.num THEN entry ELSE current[m]
  BY <1>1, <1>2 DEF FactsOK
<1>10. \A d \in Calls : (InFlight(d))' => d # c /\ InFlight(d) /\ calls'[d] = calls[d]
  BY <1>1, <1>2 DEF RawsOK, InFlight
<1>. HIDE DEF kept, raw, new, entry
<1>11. /\ \A j \in DOMAIN facts : facts[j].ver <= last /\ facts[j].ver # call.ver
       /\ \A m \in Nums : current[m].ver <= last /\ current[m].ver # call.ver
       /\ \A j \in DOMAIN raws : raws[j].ver # call.ver
  BY <1>1, <1>2 DEF FreshInv, VersionInv
<1>. HIDE DEF call
<1>12. ASSUME NEW i \in DOMAIN facts'
       PROVE  \/ \E k \in 1..size : facts'[i] = new[k]
              \/ \E j \in DOMAIN facts : facts'[i] = facts[j] /\ HasOwner(facts[j], kept.raws)
  <2>1. kept.facts \in Seq(FactRecords) /\ new \in Seq(FactRecords)
    BY <1>2, <1>6 DEF Leaves, Tables
  <2>2. CASE i \in DOMAIN kept.facts
    <3>1. facts'[i] = kept.facts[i]
      BY <1>2, <2>1, <2>2
    <3>. QED  BY <1>2, <2>2, <3>1 DEF Leaves
  <2>3. CASE i \notin DOMAIN kept.facts
    <3>1. /\ Len(kept.facts) \in Nat /\ DOMAIN kept.facts = 1..Len(kept.facts) /\ Len(new) = size
          /\ facts' \in Seq(FactRecords) /\ Len(facts') = Len(kept.facts) + Len(new)
      BY <1>1, <1>2, <1>6, <2>1, ConcatProperties
    <3>2. i - Len(kept.facts) \in 1..size
      BY <1>1, <2>3, <3>1
    <3>3. facts'[i] = new[i - Len(kept.facts)]
      BY <1>2, <2>1, <2>3, <3>1, ConcatProperties
    <3>. QED  BY <3>2, <3>3
  <2>. QED  BY <2>2, <2>3
<1>13. IdInv'
  BY <1>1, <1>6, <1>12 DEF IdInv
<1>14. \A i \in DOMAIN facts' :
         \/ facts'[i].ver = call.ver /\ facts'[i].num = call.num
         \/ \E j \in DOMAIN facts : facts'[i] = facts[j]
  BY <1>6, <1>12
<1>15. FreshInv'
  <2>1. \A i \in DOMAIN facts' : facts'[i].ver <= last'
    BY <1>2, <1>5, <1>11, <1>14
  <2>2. \A m \in Nums : current'[m].ver <= last'
    BY <1>2, <1>5, <1>8, <1>9, <1>11
  <2>3. ASSUME NEW d \in Calls, (InFlight(d))'
        PROVE  /\ \A i \in DOMAIN facts' : facts'[i].ver # calls'[d].ver
               /\ \A m \in Nums : current'[m].ver # calls'[d].ver
    <3>1. InFlight(d) /\ calls'[d] = calls[d] /\ calls[d].ver # call.ver
      BY <1>5, <1>10, <2>3
    <3>2. /\ \A j \in DOMAIN facts : facts[j].ver # calls[d].ver
          /\ \A m \in Nums : current[m].ver # calls[d].ver
      BY <1>1, <3>1 DEF FreshInv
    <3>. QED  BY <1>8, <1>9, <1>14, <3>1, <3>2
  <2>4. ASSUME NEW i \in DOMAIN facts', NEW m \in Nums, facts'[i].ver = current'[m].ver
        PROVE  facts'[i].num = m
    <3>1. CASE m = call.num
      BY <1>8, <1>9, <1>11, <1>14, <2>4, <3>1
    <3>2. CASE m # call.num
      <4>1. current'[m] = current[m] /\ current[m].ver # call.ver
        BY <1>9, <1>11, <3>2
      <4>. QED  BY <1>1, <1>14, <2>4, <4>1 DEF FreshInv
    <3>. QED  BY <3>1, <3>2
  <2>. QED  BY <2>1, <2>2, <2>3, <2>4 DEF FreshInv
<1>16. OwnerInv'
  <2>1. kept.raws \in Seq(RawRecords) /\ \A k \in DOMAIN kept.raws : \E j \in DOMAIN raws : kept.raws[k] = raws[j]
    BY <1>2 DEF Leaves
  <2>2. /\ Len(kept.raws) + 1 \in DOMAIN raws' /\ raws'[Len(kept.raws) + 1] = raw
        /\ \A i \in DOMAIN raws' : raws'[i] = raw \/ \E k \in DOMAIN kept.raws : raws'[i] = kept.raws[k]
    BY <1>2, <2>1
  <2>3. ASSUME NEW i \in DOMAIN facts' PROVE HasOwner(facts'[i], raws')
    <3>1. CASE \E k \in 1..size : facts'[i] = new[k]
      BY <1>4, <1>6, <2>2, <3>1 DEF HasOwner
    <3>2. CASE \E j \in DOMAIN facts : facts'[i] = facts[j] /\ HasOwner(facts[j], kept.raws)
      BY <1>7, <3>2
    <3>. QED  BY <1>12, <3>1, <3>2
  <2>4. ASSUME NEW i \in DOMAIN raws', NEW m \in Nums, raws'[i].ver = current'[m].ver
        PROVE  raws'[i].num = m
    <3>1. raws'[i] = raw \/ \E j \in DOMAIN raws : raws'[i] = raws[j]
      BY <2>1, <2>2
    <3>2. CASE m = call.num
      BY <1>4, <1>8, <1>9, <1>11, <2>4, <3>1, <3>2
    <3>3. CASE m # call.num
      <4>1. current'[m] = current[m] /\ current[m].ver # call.ver
        BY <1>9, <1>11, <3>3
      <4>. QED  BY <1>4, <2>4, <3>1, <4>1 DEF ApartInv, OwnerInv
    <3>. QED  BY <3>2, <3>3
  <2>. QED  BY <2>3, <2>4 DEF OwnerInv
<1>. QED  BY <1>2, <1>3, <1>7, <1>13, <1>15, <1>16 DEF ApartInv, CurrentInv

(* A snapshot writes the lists as they are, for every id is in them once.  *)
LEMMA SnapshotApart ==
  ASSUME ApartInv, TypedInv', UniqueIds(facts'), Snapshot, FromRaws(raws'), calls' = calls
  PROVE  (saved = facts)' /\ HeldInv' /\ OnePerKey'
<1>1. TypedInv /\ RawsOK /\ OnePerKey /\ \A i \in DOMAIN raws : raws[i].num \in Nums
  BY ApartTypes DEF ApartInv
<1>2. OnePerKey'
  BY <1>1, KeysOfSome
<1>3. facts' \in Seq(FactRecords) /\ facts' \in Tables
  BY DEF TypedInv, FactsOK, Tables
<1>4. Distinct(facts') = facts' /\ Unique(facts')
  BY <1>3, DistinctSame, UniqueIs
<1>5. saved' = facts' /\ rows' = RawSnapshot(raws')
  BY <1>4 DEF Snapshot
<1>6. /\ raws' \in Seq(RawRecords)
      /\ \A i \in DOMAIN raws' : \E j \in DOMAIN raws :
           raws'[i].ver = raws[j].ver /\ raws'[i].num = raws[j].num /\ raws'[i].key = raws[j].key
      /\ \A i, j \in DOMAIN raws' : raws'[i].ver = raws'[j].ver => i = j
  BY DEF FromRaws
<1>7. ASSUME NEW i \in DOMAIN raws', NEW j \in DOMAIN raws', raws'[j].num = raws'[i].num
      PROVE  j = i
  <2>1. PICK g \in DOMAIN raws : raws'[i].ver = raws[g].ver /\ raws'[i].num = raws[g].num
    BY <1>6
  <2>2. PICK h \in DOMAIN raws : raws'[j].ver = raws[h].ver /\ raws'[j].num = raws[h].num
    BY <1>6
  <2>3. g = h
    BY <1>7, <2>1, <2>2, OnePerNumber
  <2>. QED  BY <1>6, <2>1, <2>2, <2>3
<1>8. ASSUME NEW i \in DOMAIN raws'
      PROVE  rows'[raws'[i].num] = raws'[i] /\ <<raws'[i].num, raws'[i].key>> \in Uses
  <2>1. PICK g \in DOMAIN raws : raws'[i].num = raws[g].num /\ raws'[i].key = raws[g].key
    BY <1>6
  <2>2. raws'[i].num \in Nums
    BY <1>1, <2>1
  <2>3. RawSnapshot(raws')[raws'[i].num] = raws'[i]
    BY <1>6, <1>7, <2>2, RawSnapshotHas
  <2>4. <<raws[g].num, raws[g].key>> \in Uses
    BY DEF ApartInv, HeldInv
  <2>. QED  BY <1>5, <2>1, <2>3, <2>4
<1>9. ASSUME NEW n \in Nums, rows'[n] # None PROVE \E i \in DOMAIN raws' : raws'[i] = rows'[n]
  BY <1>5, <1>6, <1>9, RawSnapshotIs
<1>10. \A c \in Calls : (InFlight(c))' => <<calls'[c].num, calls'[c].key>> \in Uses
  BY DEF ApartInv, HeldInv, InFlight
<1>11. HeldInv'
  BY <1>8, <1>9, <1>10 DEF HeldInv
<1>. QED  BY <1>2, <1>5, <1>11

(* The owners after statuses changed. *)
LEMMA OwnersMarked ==
  ASSUME RawsOK, NEW S, NEW status \in Statuses, raws' = Marked(raws, S, status)
  PROVE  /\ \A f, g : f.raw = g.raw /\ f.num = g.num /\ f.art = g.art /\ HasOwner(f, raws) =>
              HasOwner(g, raws')
         /\ \A i \in DOMAIN raws' : \E j \in DOMAIN raws :
              raws'[i].ver = raws[j].ver /\ raws'[i].num = raws[j].num
<1>1. /\ DOMAIN raws' = DOMAIN raws
      /\ \A i \in DOMAIN raws : raws'[i].ver = raws[i].ver /\ raws'[i].num = raws[i].num
                                /\ raws'[i].art = raws[i].art
  BY MarkedRaws DEF RawsOK
<1>. QED  BY <1>1 DEF HasOwner

LEMMA EditApart ==
  ASSUME ApartInv, ApartAssumption, NEW a, Edit(a)
  PROVE  ApartInv'
<1>. DEFINE S == {e \in Of(facts, a) : e.status = "active"}
            marked == Marked(facts, S, "superseded")
            entry == [art |-> a, ver |-> last']
<1>1. /\ CurrentInv /\ StoredInv /\ TypedInv /\ RawsInv /\ RawsOK /\ VersionInv /\ FactsOK /\ IdInv
      /\ FreshInv /\ facts \in Tables /\ facts \in Seq(FactRecords)
  BY ApartStored, ApartTypes DEF ApartInv
<1>2. TypedInv' /\ ActiveInv' /\ CallsInv' /\ IdInv' /\ FreshInv'
  BY <1>1, EditTyped, EditCurrent, EditStored
<1>3. PICK i \in DOMAIN facts :
           /\ last' = last + 1
           /\ facts' = Append(marked, Successor(facts[i]))
           /\ raws' = Marked(raws, {e \in Of(raws, a) : e.status = "active"}, "superseded")
           /\ current' = [current EXCEPT ![facts[i].num] = entry]
           /\ Snapshot /\ calls' = calls
  BY <1>1, EditIs
<1>. DEFINE next == Successor(facts[i])
<1>4. "superseded" \in Statuses
  BY DEF Statuses
<1>5. last \in Nat /\ last' \in Nat /\ \A j \in DOMAIN facts : facts[j].ver <= last
  BY <1>1, <1>3, VersionsArePositive DEF FreshInv
<1>6. /\ marked \in Seq(FactRecords) /\ DOMAIN marked = DOMAIN facts
      /\ \A j \in DOMAIN facts :
           marked[j].id = facts[j].id /\ marked[j].raw = facts[j].raw
           /\ marked[j].num = facts[j].num /\ marked[j].art = facts[j].art
  <2>. HIDE DEF S
  <2>. QED  BY <1>1, <1>4, MarkedFacts
<1>7. /\ next.id = <<0, last'>> /\ next.raw = facts[i].raw /\ next.num = facts[i].num
      /\ next.art = facts[i].art
  <2>1. \A f \in FactRecords : \A id, v :
          LET g == [f EXCEPT !.id = id, !.ver = v]
          IN g.id = id /\ g.raw = f.raw /\ g.num = f.num /\ g.art = f.art
    BY DEF FactRecords
  <2>2. facts[i] \in FactRecords
    BY <1>1
  <2>. QED  BY <2>1, <2>2 DEF Successor
<1>8. \A x, y : Len(<<x, y>>) = 2 /\ <<x, y>>[1] = x /\ <<x, y>>[2] = y
  OBVIOUS
<1>. HIDE DEF marked, next, S
<1>9. facts' = Append(marked, next) /\ entry.ver = last'
  BY <1>3 DEF next
<1>. HIDE DEF entry
<1>10. /\ DOMAIN facts' = 1..(Len(marked) + 1) /\ DOMAIN marked = 1..Len(marked) /\ Len(marked) \in Nat
       /\ \A j \in DOMAIN marked : facts'[j] = marked[j]
       /\ facts'[Len(marked) + 1] = next
  BY <1>6, <1>9
<1>11. \A j \in DOMAIN facts : facts[j].id # next.id
  <2>1. next.id[1] = 0 /\ next.id[2] = last'
    BY <1>7, <1>8
  <2>2. ASSUME NEW j \in DOMAIN facts, facts[j].id[1] = 0 PROVE facts[j].id[2] # last'
    <3>1. IdOf(facts[j]) /\ facts[j].ver \in Nat
      BY <1>1, VersionsArePositive DEF IdInv
    <3>. QED  BY <1>3, <1>5, <2>2, <3>1 DEF IdOf
  <2>. QED  BY <2>1, <2>2
<1>12. \A j \in DOMAIN facts' : j \in DOMAIN marked \/ j = Len(marked) + 1
  BY <1>10
<1>13. UniqueIds(facts')
  <2>1. UniqueIds(marked)
    BY <1>1, <1>6 DEF Tables, UniqueIds
  <2>2. \A j \in DOMAIN marked : marked[j].id # next.id
    BY <1>6, <1>11
  <2>. QED  BY <1>10, <1>12, <2>1, <2>2 DEF UniqueIds
<1>14. FromRaws(raws')
  BY <1>1, <1>3, <1>4, FromSame, FromMarked
<1>15. (saved = facts)' /\ HeldInv' /\ OnePerKey'
  BY <1>2, <1>3, <1>13, <1>14, SnapshotApart
<1>16. /\ \A f, g : f.raw = g.raw /\ f.num = g.num /\ f.art = g.art /\ HasOwner(f, raws) =>
            HasOwner(g, raws')
       /\ \A h \in DOMAIN raws' : \E j \in DOMAIN raws :
            raws'[h].ver = raws[j].ver /\ raws'[h].num = raws[j].num
  <2>. DEFINE R == {e \in Of(raws, a) : e.status = "active"}
  <2>1. raws' = Marked(raws, R, "superseded")
    BY <1>3
  <2>. HIDE DEF R
  <2>. QED  BY <1>1, <1>4, <2>1, OwnersMarked
<1>17. \A j \in DOMAIN facts : HasOwner(facts[j], raws)
  BY DEF ApartInv, OwnerInv
<1>18. \A j \in DOMAIN facts' : HasOwner(facts'[j], raws')
  <2>1. HasOwner(next, raws')
    BY <1>7, <1>16, <1>17
  <2>2. \A j \in DOMAIN marked : HasOwner(marked[j], raws')
    BY <1>6, <1>16, <1>17
  <2>. QED  BY <1>10, <1>12, <2>1, <2>2
<1>19. ASSUME NEW h \in DOMAIN raws', NEW m \in Nums, raws'[h].ver = current'[m].ver
       PROVE  raws'[h].num = m
  <2>1. PICK j \in DOMAIN raws : raws'[h].ver = raws[j].ver /\ raws'[h].num = raws[j].num
    BY <1>16
  <2>2. raws[j].ver <= last /\ raws[j].ver \in Nat
    BY <1>1, ApartTypes DEF VersionInv, Versions
  <2>3. current'[m] = current[m] \/ current'[m] = entry
    BY <1>1, <1>3 DEF FactsOK
  <2>4. current'[m] = current[m]
    BY <1>3, <1>5, <1>9, <1>19, <2>1, <2>2, <2>3
  <2>. QED  BY <1>19, <2>1, <2>4 DEF ApartInv, OwnerInv
<1>20. OwnerInv'
  BY <1>18, <1>19 DEF OwnerInv
<1>. QED  BY <1>2, <1>15, <1>20 DEF ApartInv, CurrentInv

(* Owners of the versions that the index still has. *)
LEMMA OwnersStay ==
  ASSUME ApartInv, \A i \in DOMAIN facts' : HasOwner(facts'[i], raws'),
         \A i \in DOMAIN raws' : \E j \in DOMAIN raws :
           raws'[i].ver = raws[j].ver /\ raws'[i].num = raws[j].num,
         \A n \in Nums : current'[n] = current[n] \/ current'[n] = None
  PROVE  OwnerInv'
<1>1. \A j \in DOMAIN raws : raws[j].ver # 0
  BY ApartTypes DEF Versions
<1>2. ASSUME NEW i \in DOMAIN raws', NEW n \in Nums, raws'[i].ver = current'[n].ver
      PROVE  raws'[i].num = n
  <2>1. PICK j \in DOMAIN raws : raws'[i].ver = raws[j].ver /\ raws'[i].num = raws[j].num
    OBVIOUS
  <2>2. current'[n] = current[n]
    BY <1>1, <1>2, <2>1, NoneIs
  <2>. QED  BY <1>2, <2>1, <2>2 DEF ApartInv, OwnerInv
<1>. QED  BY <1>2 DEF OwnerInv

LEMMA LifecycleApart ==
  ASSUME ApartInv, NEW a, Retract(a) \/ Purge(a) \/ Redact(a)
  PROVE  ApartInv'
<1>1. /\ StoredInv /\ TypedInv /\ CurrentInv /\ RawsInv /\ RawsOK /\ FactsOK
      /\ facts \in Tables /\ facts \in Seq(FactRecords) /\ raws \in Seq(RawRecords)
  BY ApartStored, ApartTypes DEF RawsOK
<1>2. TypedInv' /\ ActiveInv' /\ CallsInv' /\ IdInv' /\ FreshInv'
  BY <1>1, LifecycleTyped, LifecycleCurrent, LifecycleStored
<1>3. Snapshot /\ calls' = calls
  BY DEF Retract, Purge, Redact
<1>4. \A n \in Nums : current'[n] = current[n] \/ current'[n] = None
  <2>1. CASE Retract(a) \/ Purge(a)
    BY <2>1 DEF Retract, Purge, Without
  <2>2. CASE Redact(a)
    BY <2>2 DEF Redact
  <2>. QED  BY <2>1, <2>2
<1>5. \A j \in DOMAIN facts : HasOwner(facts[j], raws)
  BY DEF ApartInv, OwnerInv
<1>. DEFINE Goal == /\ UniqueIds(facts') /\ FromRaws(raws')
                    /\ \A i \in DOMAIN facts' : HasOwner(facts'[i], raws')
<1>6. ASSUME NEW status \in {"retracted", "redacted"},
             facts' = Marked(facts, Of(facts, a), status), raws' = Marked(raws, Of(raws, a), status)
      PROVE  Goal
  <2>1. status \in Statuses
    BY DEF Statuses
  <2>2. /\ DOMAIN facts' = DOMAIN facts
        /\ \A j \in DOMAIN facts :
             /\ facts'[j].id = facts[j].id /\ facts'[j].raw = facts[j].raw
             /\ facts'[j].num = facts[j].num /\ facts'[j].art = facts[j].art
    BY <1>1, <1>6, <2>1, MarkedFacts
  <2>3. UniqueIds(facts')
    BY <1>1, <2>2 DEF Tables, UniqueIds
  <2>4. FromRaws(raws')
    BY <1>1, <1>6, <2>1, FromSame, FromMarked
  <2>5. \A f, g : f.raw = g.raw /\ f.num = g.num /\ f.art = g.art /\ HasOwner(f, raws) =>
            HasOwner(g, raws')
    BY <1>1, <1>6, <2>1, OwnersMarked
  <2>. QED  BY <1>5, <2>2, <2>3, <2>4, <2>5
<1>7. ASSUME Purge(a) PROVE Goal
  <2>. DEFINE I == {i \in DOMAIN raws : raws[i].art # a}
              J == {i \in DOMAIN facts : facts[i].art # a}
  <2>1. raws' = Sublist(raws, I) /\ facts' = Sublist(facts, J)
    BY <1>7 DEF Purge
  <2>2. I \in SUBSET (DOMAIN raws) /\ J \in SUBSET (DOMAIN facts)
    OBVIOUS
  <2>3. /\ \A i \in DOMAIN raws : raws[i].art # a => i \in I
        /\ \A j \in J : facts[j].art # a
    OBVIOUS
  <2>. HIDE DEF I, J
  <2>4. FromRaws(raws')
    BY <1>1, <2>1, <2>2, FromSublist
  <2>5. \A i \in I : \E k \in DOMAIN raws' : raws'[k] = raws[i]
    BY <1>1, <2>1, <2>2, SublistOf
  <2>6. /\ \A k \in DOMAIN facts' : \E j \in J : facts'[k] = facts[j]
        /\ \A h, k \in DOMAIN facts' : h # k =>
             \E g, j \in J : g # j /\ facts'[h] = facts[g] /\ facts'[k] = facts[j]
    BY <1>1, <2>1, <2>2, SublistOf
  <2>7. UniqueIds(facts')
    BY <1>1, <2>2, <2>6 DEF Tables, UniqueIds
  <2>8. ASSUME NEW k \in DOMAIN facts' PROVE HasOwner(facts'[k], raws')
    <3>1. PICK j \in J : facts'[k] = facts[j]
      BY <2>6
    <3>2. PICK i \in DOMAIN raws :
             raws[i].ver = facts[j].raw /\ raws[i].num = facts[j].num /\ raws[i].art = facts[j].art
      BY <1>5, <2>2 DEF HasOwner
    <3>3. i \in I
      BY <2>3, <3>2
    <3>. QED  BY <2>5, <3>1, <3>2, <3>3 DEF HasOwner
  <2>. QED  BY <2>4, <2>7, <2>8
<1>8. Goal
  <2>1. CASE Retract(a)
    BY <1>6, <2>1 DEF Retract
  <2>2. CASE Redact(a)
    BY <1>6, <2>2 DEF Redact
  <2>. HIDE DEF Goal
  <2>. QED  BY <1>7, <2>1, <2>2
<1>9. (saved = facts)' /\ HeldInv' /\ OnePerKey'
  BY <1>2, <1>3, <1>8, SnapshotApart
<1>10. OwnerInv'
  <2>1. \A i \in DOMAIN raws' : \E j \in DOMAIN raws :
          raws'[i].ver = raws[j].ver /\ raws'[i].num = raws[j].num
    BY <1>8 DEF FromRaws
  <2>. QED  BY <1>4, <1>8, <2>1, OwnersStay
<1>. QED  BY <1>2, <1>9, <1>10 DEF ApartInv, CurrentInv

(* What a restart finds is what was there. *)
LEMMA RestartApart ==
  ASSUME ApartInv, Restart
  PROVE  ApartInv'
<1>1. /\ CurrentInv /\ ActiveInv /\ StoredInv /\ TypedInv /\ RawsInv /\ VersionInv /\ FactsOK
      /\ OnePerKey /\ facts \in Seq(FactRecords)
  BY ApartStored, ApartTypes DEF ApartInv, CurrentInv
<1>2. TypedInv'
  BY <1>1, RestartTyped
<1>3. /\ facts' = facts /\ current' = Rebuilt(facts) /\ calls' = [c \in Calls |-> NoCall]
      /\ UNCHANGED <<rows, saved, last>>
  BY DEF Restart, ApartInv
<1>4. \A c \in Calls : ~(InFlight(c))'
  BY <1>3 DEF InFlight
<1>5. /\ \A i \in DOMAIN raws' : \E n \in Nums : rows[n] # None /\ raws'[i] = rows[n]
      /\ \A n \in Nums : rows[n] # None => \E i \in DOMAIN raws' : raws'[i] = rows[n]
      /\ \A i, j \in DOMAIN raws' : raws'[i].ver = raws'[j].ver => i = j
  BY <1>1, RestartIs
<1>6. \A n \in Nums : rows[n] # None => rows[n].num = n /\ \E j \in DOMAIN raws : raws[j] = rows[n]
  BY <1>1 DEF VersionInv, ApartInv, HeldInv
<1>7. \A i \in DOMAIN raws' : \E j \in DOMAIN raws : raws'[i] = raws[j]
  BY <1>5, <1>6
<1>8. \A i \in DOMAIN raws : \E k \in DOMAIN raws' : raws'[k] = raws[i]
  <2>1. \A i \in DOMAIN raws : raws[i].num \in Nums /\ raws[i] # None /\ rows[raws[i].num] = raws[i]
    BY ApartTypes, NoneIs DEF ApartInv, HeldInv
  <2>. QED  BY <1>5, <2>1
<1>9. ASSUME NEW n \in Nums
      PROVE  /\ current'[n] = current[n] \/ current'[n] = None
             /\ \A i \in DOMAIN facts : facts[i].num = n /\ facts[i].status = "active" =>
                  current'[n] = current[n]
  <2>. DEFINE A == {i \in DOMAIN facts : facts[i].num = n /\ facts[i].status = "active"}
              vers == {facts[i].ver : i \in A}
              v == Max(vers)
              newest == CHOOSE i \in A : facts[i].ver = v
  <2>1. current'[n] = IF A = {} THEN None ELSE [art |-> facts[newest].art, ver |-> v]
    BY <1>3 DEF Rebuilt
  <2>2. \A i \in A : /\ current[n] # None /\ facts[i].ver = current[n].ver
                     /\ facts[i].art = current[n].art
    BY <1>1 DEF ActiveInv
  <2>3. ASSUME A # {} PROVE current'[n] = current[n]
    <3>1. current[n] \in [art : Versions, ver : Versions]
      BY <1>1, <2>2, <2>3 DEF FactsOK
    <3>2. vers = {current[n].ver}
      BY <2>2, <2>3
    <3>3. v = current[n].ver
      <4>1. current[n].ver \in Nat
        BY <3>1 DEF Versions
      <4>2. vers \in SUBSET (0..current[n].ver) /\ vers # {}
        BY <3>2, <4>1
      <4>3. v \in vers
        <5>. HIDE DEF vers
        <5>. QED  BY <4>1, <4>2, MaxIs
      <4>. HIDE DEF vers
      <4>. QED  BY <3>2, <4>3
    <3>. HIDE DEF v, vers
    <3>4. newest \in A
      <4>1. \E i \in A : facts[i].ver = v
        BY <2>2, <2>3, <3>3
      <4>. HIDE DEF A
      <4>. QED  BY <4>1
    <3>. HIDE DEF newest, A
    <3>5. current'[n] = [art |-> current[n].art, ver |-> current[n].ver]
      BY <2>1, <2>2, <2>3, <3>3, <3>4
    <3>. QED  BY <3>1, <3>5
  <2>4. CASE A = {}
    BY <2>1, <2>4
  <2>5. \A i \in DOMAIN facts : facts[i].num = n /\ facts[i].status = "active" => A # {}
    OBVIOUS
  <2>. HIDE DEF A
  <2>. QED  BY <2>1, <2>3, <2>5
<1>10. ActiveInv'
  <2>1. \A i \in DOMAIN facts : facts[i].num \in Nums
    BY <1>1, FactIs
  <2>. QED  BY <1>1, <1>3, <1>9, <2>1 DEF ActiveInv
<1>11. CallsInv'
  BY <1>4 DEF CallsInv
<1>12. IdInv' /\ FreshInv'
  <2>1. FactsFrom(facts')
    BY <1>3 DEF FactsFrom
  <2>. QED  BY <1>1, <1>3, <1>4, <1>9, <2>1, FreshStays
<1>13. OnePerKey'
  BY <1>1, <1>5, <1>7 DEF OnePerKey
<1>14. (saved = facts)'
  BY <1>3 DEF ApartInv
<1>15. HeldInv'
  <2>1. \A i \in DOMAIN raws' : rows'[raws'[i].num] = raws'[i] /\ <<raws'[i].num, raws'[i].key>> \in Uses
    BY <1>3, <1>7 DEF ApartInv, HeldInv
  <2>2. \A n \in Nums : rows'[n] # None => \E i \in DOMAIN raws' : raws'[i] = rows'[n]
    BY <1>3, <1>5
  <2>. QED  BY <1>4, <2>1, <2>2 DEF HeldInv
<1>16. OwnerInv'
  <2>1. \A i \in DOMAIN facts' : HasOwner(facts'[i], raws')
    BY <1>3, <1>8 DEF ApartInv, OwnerInv, HasOwner
  <2>2. \A i \in DOMAIN raws' : \E j \in DOMAIN raws :
          raws'[i].ver = raws[j].ver /\ raws'[i].num = raws[j].num
    BY <1>7
  <2>. QED  BY <1>9, <2>1, <2>2, OwnersStay
<1>. QED  BY <1>2, <1>10, <1>11, <1>12, <1>13, <1>14, <1>15, <1>16 DEF ApartInv, CurrentInv

LEMMA ApartInitially == "overlap" \notin Events /\ SessionInit => ApartInv
<1>. SUFFICES ASSUME "overlap" \notin Events, SessionInit PROVE ApartInv
  OBVIOUS
<1>1. /\ facts = <<>> /\ saved = <<>> /\ raws = <<>> /\ DOMAIN <<>> = {}
      /\ rows = [n \in Nums |-> None] /\ calls = [c \in Calls |-> NoCall]
  BY DEF SessionInit
<1>2. CurrentInv /\ IdInv /\ FreshInv
  BY StoredInitially DEF StoredInv
<1>3. OnePerKey /\ HeldInv /\ OwnerInv
  BY <1>1 DEF OnePerKey, HeldInv, OwnerInv, InFlight
<1>. QED  BY <1>1, <1>2, <1>3 DEF ApartInv

LEMMA ApartNext ==
  ApartAssumption /\ ApartInv /\ [SessionNext]_sessionVars => ApartInv'
<1>. SUFFICES ASSUME ApartAssumption, ApartInv, [SessionNext]_sessionVars
              PROVE  ApartInv'
  OBVIOUS
<1>1. ASSUME NEW c \in Calls, \/ \E n \in Nums, k \in Keys : <<n, k>> \in Uses /\ Store(c, n, k)
                              \/ Locked(c)
      PROVE  ApartInv'
  BY <1>1, WaitingApart
<1>2. ASSUME NEW c \in Calls, TimedOut(c) \/ FoundNothing(c) PROVE ApartInv'
  <2>1. "active" \in Statuses /\ "extraction_failed" \in Statuses
    BY DEF Statuses
  <2>. QED  BY <1>2, <2>1, EndsApart DEF TimedOut, FoundNothing
<1>3. ASSUME NEW c \in Calls, NEW size \in Sizes, Found(c, size) PROVE ApartInv'
  BY <1>3, FoundApart
<1>4. ASSUME NEW a \in HeldArtifacts, Edit(a) PROVE ApartInv'
  BY <1>4, EditApart
<1>5. ASSUME NEW a \in HeldArtifacts, Retract(a) \/ Purge(a) \/ Redact(a) PROVE ApartInv'
  BY <1>5, LifecycleApart
<1>6. CASE Restart
  BY <1>6, RestartApart
<1>7. CASE UNCHANGED sessionVars
  <2>1. UNCHANGED <<raws, facts, current, rows, saved, calls, last>>
    BY <1>7 DEF sessionVars
  <2>2. CurrentInv'
    BY <2>1 DEF ApartInv, CurrentInv, TypedInv, RawsInv, RawsOK, VersionInv, FactsOK, ActiveInv,
                CallsInv, InFlight
  <2>3. IdInv' /\ FreshInv' /\ OnePerKey' /\ (saved = facts)'
    BY <2>1 DEF ApartInv, IdInv, FreshInv, OnePerKey, InFlight
  <2>4. HeldInv' /\ OwnerInv'
    BY <2>1 DEF ApartInv, HeldInv, OwnerInv, InFlight
  <2>. QED  BY <2>2, <2>3, <2>4 DEF ApartInv
<1>8. "unready" \notin Events
  BY DEF ApartAssumption
<1>. QED  BY <1>1, <1>2, <1>3, <1>4, <1>5, <1>6, <1>7, <1>8 DEF SessionNext

LEMMA Apart ==
  ASSUME ApartAssumption
  PROVE  SessionSpec => []ApartInv
<1>1. ApartInv /\ [SessionNext]_sessionVars => ApartInv'
  BY ApartNext
<1>2. SessionInit => ApartInv
  BY ApartInitially DEF ApartAssumption
<1>. QED  BY <1>1, <1>2, PTL DEF SessionSpec

(* Where every number is stored under one key, what a recall may use is on  *)
(* disk and what is on disk a recall may use: whatever is stored, replaced, *)
(* timed out, edited, retracted, purged, redacted and restarted, the facts  *)
(* active in memory are those active in the table.  The provisos: every     *)
(* text can be canonicalized, every call has a key, what is of one number   *)
(* comes in turn, and 0 is no number (an edit marks with it the ids it      *)
(* makes).                                                                  *)
THEOREM KeyedIsSaved ==
  ASSUME ApartAssumption
  PROVE  SessionSpec => []ActiveIsSaved
<1>1. ApartInv => ActiveIsSaved
  BY DEF ApartInv, ActiveIsSaved
<1>. QED  BY <1>1, Apart, PTL

(* Where every number is stored under one key, a key has one session and a  *)
(* number one active version, after a restart and a purge too: the version  *)
(* index that a restart makes of the facts knows the version the process    *)
(* before it had.                                                           *)
THEOREM KeyedIsOneVersion ==
  ASSUME ApartAssumption
  PROVE  SessionSpec => []OneActive /\ []OnePerKey
<1>1. ApartInv => OneActive /\ OnePerKey
  BY DEF ApartInv, CurrentInv, ActiveInv, OneActive, Active
<1>. QED  BY <1>1, Apart, PTL
=============================================================================
