--------------------------- MODULE DashboardProofs ---------------------------
(***************************************************************************)
(* Proofs about the terminal's list, for every number of downloads, events *)
(* under way and calls: its types, that no request to the user is lost,    *)
(* that messages do not move the selection, and that the list is true when *)
(* nothing is under way.                                                   *)
(***************************************************************************)
EXTENDS Dashboard, FiniteSetTheorems, SequenceTheorems, TLAPS

Tabs == {"queued", "active", "done"}
Rows == [id : Ids, done : BOOLEAN, err : BOOLEAN, paused : BOOLEAN, pausing : BOOLEAN,
         resuming : BOOLEAN, started : BOOLEAN]
Distinct(rs) == \A i, j \in DOMAIN rs : rs[i].id = rs[j].id => i = j

(* A list in which one row was added or changed, or from which one is gone.*)
Becomes(rs, qs, id, r) ==
  /\ qs \in Seq(Rows) /\ Distinct(qs)
  /\ RowIds(qs) = RowIds(rs) \cup {id}
  /\ FindDownloadByID(qs, id) = r
  /\ \A x \in RowIds(rs) \ {id} : FindDownloadByID(qs, x) = FindDownloadByID(rs, x)
Loses(rs, qs, id) ==
  /\ qs \in Seq(Rows) /\ Distinct(qs)
  /\ RowIds(qs) = RowIds(rs) \ {id}
  /\ \A x \in RowIds(qs) : FindDownloadByID(qs, x) = FindDownloadByID(rs, x)

-----------------------------------------------------------------------------
(* Rows.                                                                   *)
LEMMA SeqTypes ==
  ASSUME NEW S, NEW s \in Seq(S)
  PROVE  /\ Len(s) \in Nat /\ DOMAIN s = 1 .. Len(s)
         /\ \A i \in DOMAIN s : s[i] \in S
  BY LenProperties, ElementOfSeq

(* A row that is found is the only one with its id.                        *)
LEMMA FoundRow ==
  ASSUME NEW rs \in Seq(Rows), NEW id \in RowIds(rs)
  PROVE  \E i \in DOMAIN rs : rs[i].id = id /\ FindDownloadByID(rs, id) = rs[i]
  BY DEF RowIds, FindDownloadByID

LEMMA OnlyRow ==
  ASSUME NEW rs \in Seq(Rows), Distinct(rs), NEW i \in DOMAIN rs
  PROVE  rs[i].id \in RowIds(rs) /\ FindDownloadByID(rs, rs[i].id) = rs[i]
  BY DEF RowIds, FindDownloadByID, Distinct

LEMMA FoundType ==
  ASSUME NEW rs \in Seq(Rows), NEW id \in RowIds(rs)
  PROVE  FindDownloadByID(rs, id) \in Rows /\ FindDownloadByID(rs, id).id = id /\ id \in Ids
<1>1. PICK i \in DOMAIN rs : rs[i].id = id /\ FindDownloadByID(rs, id) = rs[i]
  BY FoundRow
<1>2. rs[i] \in Rows
  BY SeqTypes
<1> QED BY <1>1, <1>2 DEF Rows

LEMMA NewRow ==
  ASSUME NEW id \in Ids
  PROVE  NewDownloadModel(id) \in Rows /\ NewDownloadModel(id).id = id
  BY DEF NewDownloadModel, Rows

LEMMA PutBecomes ==
  ASSUME NEW rs \in Seq(Rows), Distinct(rs), NEW r \in Rows, r.id \in RowIds(rs)
  PROVE  Becomes(rs, Put(rs, r), r.id, r)
<1> DEFINE qs == Put(rs, r)
<1>1. /\ Len(rs) \in Nat /\ DOMAIN rs = 1 .. Len(rs)
      /\ \A i \in DOMAIN rs : rs[i] \in Rows
  BY SeqTypes
<1>2. /\ DOMAIN qs = DOMAIN rs
      /\ \A i \in DOMAIN rs : qs[i] = IF rs[i].id = r.id THEN r ELSE rs[i]
  BY DEF Put
<1>3. qs \in Seq(Rows)
  <2>1. \A i \in DOMAIN rs : qs[i] \in Rows
    BY <1>1, <1>2
  <2>2. qs \in [1 .. Len(rs) -> Rows]
    BY <2>1, <1>1 DEF Put
  <2> QED BY <2>2, <1>1
<1>4. \A i \in DOMAIN rs : qs[i].id = rs[i].id
  BY <1>2
<1>5. Distinct(qs) /\ RowIds(qs) = RowIds(rs)
  BY <1>2, <1>4 DEF Distinct, RowIds
<1>6. FindDownloadByID(qs, r.id) = r
  BY <1>2, <1>4, <1>3, <1>5, FoundRow
<1>7. ASSUME NEW x \in RowIds(rs) \ {r.id}
      PROVE  FindDownloadByID(qs, x) = FindDownloadByID(rs, x)
  <2>1. PICK i \in DOMAIN rs : rs[i].id = x /\ FindDownloadByID(rs, x) = rs[i]
    BY FoundRow
  <2>2. qs[i] = rs[i]
    BY <2>1, <1>2
  <2> QED BY <2>1, <2>2, <1>2, <1>3, <1>5, OnlyRow
<1> QED BY <1>3, <1>5, <1>6, <1>7 DEF Becomes

LEMMA AppendBecomes ==
  ASSUME NEW rs \in Seq(Rows), Distinct(rs), NEW r \in Rows, r.id \notin RowIds(rs)
  PROVE  Becomes(rs, Append(rs, r), r.id, r)
<1> DEFINE qs == Append(rs, r)
<1>1. /\ Len(rs) \in Nat /\ DOMAIN rs = 1 .. Len(rs)
  BY SeqTypes
<1>2. /\ qs \in Seq(Rows) /\ DOMAIN qs = 1 .. (Len(rs) + 1)
      /\ \A i \in 1 .. Len(rs) : qs[i] = rs[i]
      /\ qs[Len(rs) + 1] = r
  BY <1>1, AppendProperties, LenProperties
<1>3. \A i \in DOMAIN qs : (i \in DOMAIN rs /\ qs[i] = rs[i]) \/ (i = Len(rs) + 1 /\ qs[i] = r)
  BY <1>1, <1>2
<1>4. \A i \in DOMAIN rs : i \in DOMAIN qs /\ qs[i] = rs[i]
  BY <1>1, <1>2
<1>5. Len(rs) + 1 \in DOMAIN qs
  BY <1>1, <1>2
<1>6. Distinct(qs)
  BY <1>3 DEF Distinct, RowIds
<1>7. RowIds(qs) = RowIds(rs) \cup {r.id}
  BY <1>2, <1>3, <1>4, <1>5 DEF RowIds
<1>8. FindDownloadByID(qs, r.id) = r
  BY <1>2, <1>5, <1>6, OnlyRow
<1>9. ASSUME NEW x \in RowIds(rs) \ {r.id}
      PROVE  FindDownloadByID(qs, x) = FindDownloadByID(rs, x)
  <2>1. PICK i \in DOMAIN rs : rs[i].id = x /\ FindDownloadByID(rs, x) = rs[i]
    BY FoundRow
  <2>2. i \in DOMAIN qs /\ qs[i] = rs[i]
    BY <1>4
  <2>3. FindDownloadByID(qs, qs[i].id) = qs[i]
    BY <1>2, <1>6, <2>2, OnlyRow
  <2> QED BY <2>1, <2>2, <2>3
<1> QED BY <1>2, <1>6, <1>7, <1>8, <1>9 DEF Becomes

(* Where the entries are that are left when one is removed.                *)
LEMMA RemovedEntries ==
  ASSUME NEW rs \in Seq(Rows), NEW k \in DOMAIN rs
  PROVE  /\ RemoveAt(rs, k) \in Seq(Rows)
         /\ DOMAIN RemoveAt(rs, k) = 1 .. (Len(rs) - 1)
         /\ \A i \in 1 .. (Len(rs) - 1) : RemoveAt(rs, k)[i] = IF i < k THEN rs[i] ELSE rs[i + 1]
<1>1. /\ Len(rs) \in Nat /\ DOMAIN rs = 1 .. Len(rs) /\ k \in 1 .. Len(rs)
      /\ \A i \in DOMAIN rs : rs[i] \in Rows
  BY SeqTypes
<1> DEFINE a == SubSeq(rs, 1, k - 1)
           b == SubSeq(rs, k + 1, Len(rs))
<1>2. /\ a \in Seq(Rows) /\ Len(a) = k - 1
      /\ \A i \in 1 .. (k - 1) : a[i] = rs[i]
  <2>1. \A i \in 1 .. (k - 1) : rs[i] \in Rows
    BY <1>1
  <2>2. /\ SubSeq(rs, 1, k - 1) \in Seq(Rows)
        /\ Len(SubSeq(rs, 1, k - 1)) = IF 1 <= k - 1 THEN k - 1 - 1 + 1 ELSE 0
        /\ \A i \in 1 .. (k - 1) - 1 + 1 : SubSeq(rs, 1, k - 1)[i] = rs[1 + i - 1]
    BY <2>1, <1>1, SubSeqProperties
  <2> QED BY <2>2, <1>1
<1>3. /\ b \in Seq(Rows) /\ Len(b) = Len(rs) - k
      /\ \A i \in 1 .. (Len(rs) - k) : b[i] = rs[k + i]
  <2>1. \A i \in (k + 1) .. Len(rs) : rs[i] \in Rows
    BY <1>1
  <2>2. /\ b \in Seq(Rows)
        /\ Len(b) = IF k + 1 <= Len(rs) THEN Len(rs) - (k + 1) + 1 ELSE 0
        /\ \A i \in 1 .. Len(rs) - (k + 1) + 1 : b[i] = rs[(k + 1) + i - 1]
    BY <2>1, <1>1, SubSeqProperties
  <2> QED BY <2>2, <1>1
<1> HIDE DEF a, b
<1>4. /\ a \o b \in Seq(Rows) /\ Len(a \o b) = Len(rs) - 1
      /\ \A i \in 1 .. (Len(rs) - 1) : (a \o b)[i] = IF i <= k - 1 THEN a[i] ELSE b[i - (k - 1)]
  <2>1. /\ a \o b \in Seq(Rows) /\ Len(a \o b) = Len(a) + Len(b)
        /\ \A i \in 1 .. Len(a) + Len(b) : (a \o b)[i] = IF i <= Len(a) THEN a[i] ELSE b[i - Len(a)]
    BY <1>2, <1>3, ConcatProperties
  <2> QED BY <2>1, <1>1, <1>2, <1>3
<1>5. DOMAIN (a \o b) = 1 .. (Len(rs) - 1)
  BY <1>4, SeqTypes
<1>6. ASSUME NEW i \in 1 .. (Len(rs) - 1)
      PROVE  (a \o b)[i] = IF i < k THEN rs[i] ELSE rs[i + 1]
  <2>1. CASE i < k
    BY <2>1, <1>1, <1>2, <1>4
  <2>2. CASE ~(i < k)
    <3>1. i - (k - 1) \in 1 .. (Len(rs) - k) /\ k + (i - (k - 1)) = i + 1
      BY <2>2, <1>1
    <3>2. (a \o b)[i] = b[i - (k - 1)]
      BY <2>2, <1>1, <1>4
    <3>3. b[i - (k - 1)] = rs[k + (i - (k - 1))]
      BY <3>1, <1>3
    <3> QED BY <2>2, <3>1, <3>2, <3>3
  <2> QED BY <2>1, <2>2
<1>7. RemoveAt(rs, k) = a \o b
  BY DEF RemoveAt, a, b
<1> QED BY <1>4, <1>5, <1>6, <1>7

LEMMA RemoveLoses ==
  ASSUME NEW rs \in Seq(Rows), Distinct(rs), NEW id
  PROVE  Loses(rs, RemoveDownloadByID(rs, id), id)
<1>1. CASE id \notin RowIds(rs)
  BY <1>1 DEF RemoveDownloadByID, Loses
<1>2. CASE id \in RowIds(rs)
  <2> DEFINE k == CHOOSE i \in DOMAIN rs : rs[i].id = id
             qs == RemoveAt(rs, k)
  <2>1. k \in DOMAIN rs /\ rs[k].id = id
    BY <1>2 DEF RowIds
  <2>2. /\ Len(rs) \in Nat /\ DOMAIN rs = 1 .. Len(rs)
    BY SeqTypes
  <2> HIDE DEF k
  <2>3. /\ qs \in Seq(Rows) /\ DOMAIN qs = 1 .. (Len(rs) - 1)
        /\ \A i \in 1 .. (Len(rs) - 1) : qs[i] = IF i < k THEN rs[i] ELSE rs[i + 1]
    BY <2>1, RemovedEntries
  <2> HIDE DEF qs
  <2>4. \A i \in DOMAIN qs : \/ i \in DOMAIN rs /\ i # k /\ i < k /\ qs[i] = rs[i]
                             \/ i + 1 \in DOMAIN rs /\ ~(i < k) /\ i + 1 # k /\ qs[i] = rs[i + 1]
    BY <2>1, <2>2, <2>3
  <2>5. \A i \in DOMAIN rs \ {k} : \E j \in DOMAIN qs : qs[j] = rs[i]
    <3> SUFFICES ASSUME NEW i \in DOMAIN rs \ {k} PROVE \E j \in DOMAIN qs : qs[j] = rs[i]
      OBVIOUS
    <3>1. CASE i < k
      BY <3>1, <2>1, <2>2, <2>3
    <3>2. CASE ~(i < k)
      <4>1. i - 1 \in DOMAIN qs /\ ~(i - 1 < k) /\ (i - 1) + 1 = i
        BY <3>2, <2>1, <2>2, <2>3
      <4> QED BY <4>1, <2>3
    <3> QED BY <3>1, <3>2
  <2>6. Distinct(qs)
    <3> SUFFICES ASSUME NEW i \in DOMAIN qs, NEW j \in DOMAIN qs, qs[i].id = qs[j].id
                 PROVE  i = j
      BY DEF Distinct
    <3>1. i \in Nat /\ j \in Nat /\ k \in Nat
      BY <2>1, <2>2, <2>3
    <3> QED BY <3>1, <2>4 DEF Distinct
  <2>7. \A i \in DOMAIN rs \ {k} : rs[i].id # id
    BY <2>1 DEF Distinct
  <2>8. RowIds(qs) = RowIds(rs) \ {id}
    <3>1. \A i \in DOMAIN qs : \E j \in DOMAIN rs \ {k} : qs[i] = rs[j]
      BY <2>4
    <3> QED BY <3>1, <2>5, <2>7, <2>1 DEF RowIds
  <2>9. ASSUME NEW x \in RowIds(qs)
        PROVE  FindDownloadByID(qs, x) = FindDownloadByID(rs, x)
    <3>1. PICK i \in DOMAIN rs : rs[i].id = x /\ FindDownloadByID(rs, x) = rs[i]
      BY <2>8, FoundRow
    <3>2. i # k
      BY <3>1, <2>1, <2>8
    <3>3. PICK j \in DOMAIN qs : qs[j] = rs[i]
      BY <3>2, <2>5
    <3> QED BY <3>1, <3>3, <2>3, <2>6, OnlyRow
  <2>10. RemoveDownloadByID(rs, id) = qs
    BY <1>2 DEF RemoveDownloadByID, k, qs
  <2> QED BY <2>3, <2>6, <2>8, <2>9, <2>10 DEF Loses
<1> QED BY <1>1, <1>2

(* A row under a new id.                                                   *)
Renamed(rs, old, new) ==
  [i \in DOMAIN rs |-> IF rs[i].id = old THEN [rs[i] EXCEPT !.id = new] ELSE rs[i]]
Renames(rs, qs, old, new) ==
  /\ qs \in Seq(Rows) /\ Distinct(qs)
  /\ RowIds(qs) = (RowIds(rs) \ {old}) \cup {new}
  /\ FindDownloadByID(qs, new) = [FindDownloadByID(rs, old) EXCEPT !.id = new]
  /\ \A x \in RowIds(rs) \ {old} : FindDownloadByID(qs, x) = FindDownloadByID(rs, x)

LEMMA RenamedRenames ==
  ASSUME NEW rs \in Seq(Rows), Distinct(rs), NEW old \in RowIds(rs), NEW new \in Ids,
         new \notin RowIds(rs)
  PROVE  Renames(rs, Renamed(rs, old, new), old, new)
<1> DEFINE qs == Renamed(rs, old, new)
<1>1. /\ Len(rs) \in Nat /\ DOMAIN rs = 1 .. Len(rs)
      /\ \A i \in DOMAIN rs : rs[i] \in Rows
  BY SeqTypes
<1>2. /\ DOMAIN qs = DOMAIN rs
      /\ \A i \in DOMAIN rs : qs[i] = IF rs[i].id = old THEN [rs[i] EXCEPT !.id = new] ELSE rs[i]
  BY DEF Renamed
<1>3. qs \in Seq(Rows)
  <2>1. \A i \in DOMAIN rs : qs[i] \in Rows
    BY <1>1, <1>2 DEF Rows
  <2>2. qs \in [1 .. Len(rs) -> Rows]
    BY <2>1, <1>1 DEF Renamed
  <2> QED BY <2>2, <1>1
<1>4. \A i \in DOMAIN rs : qs[i].id = IF rs[i].id = old THEN new ELSE rs[i].id
  BY <1>1, <1>2 DEF Rows
<1>5. \A i \in DOMAIN rs : rs[i].id # new
  BY DEF RowIds
<1> HIDE DEF qs
<1>6. Distinct(qs)
  BY <1>2, <1>4, <1>5 DEF Distinct
<1>7. RowIds(qs) = (RowIds(rs) \ {old}) \cup {new}
  BY <1>2, <1>4, <1>5 DEF RowIds
<1>8. ASSUME NEW i \in DOMAIN rs
      PROVE  FindDownloadByID(qs, qs[i].id) = qs[i] /\ FindDownloadByID(rs, rs[i].id) = rs[i]
  BY <1>2, <1>3, <1>6, OnlyRow
<1>9. FindDownloadByID(qs, new) = [FindDownloadByID(rs, old) EXCEPT !.id = new]
  <2>1. PICK i \in DOMAIN rs : rs[i].id = old
    BY DEF RowIds
  <2> QED BY <2>1, <1>2, <1>4, <1>8
<1>10. ASSUME NEW x \in RowIds(rs) \ {old}
      PROVE  FindDownloadByID(qs, x) = FindDownloadByID(rs, x)
  <2>1. PICK i \in DOMAIN rs : rs[i].id = x
    BY DEF RowIds
  <2> QED BY <2>1, <1>2, <1>4, <1>8
<1> QED BY <1>3, <1>6, <1>7, <1>9, <1>10 DEF Renames, qs

(* The elements of a finite set in some order, each once.                  *)
LEMMA Listing ==
  ASSUME NEW S, IsFiniteSet(S)
  PROVE  /\ SetToSeq(S) \in [1 .. Cardinality(S) -> S] /\ Cardinality(S) \in Nat
         /\ SetToSeq(S) \in Seq(S) /\ Len(SetToSeq(S)) = Cardinality(S)
         /\ \A i, j \in 1 .. Cardinality(S) : SetToSeq(S)[i] = SetToSeq(S)[j] => i = j
         /\ \A x \in S : \E i \in 1 .. Cardinality(S) : SetToSeq(S)[i] = x
<1> DEFINE n == Cardinality(S)
<1>1. n \in Nat /\ ExistsBijection(1 .. n, S)
  BY FS_CardinalityType
<1>2. \E f \in [1 .. n -> S] : IsInjective(f)
  BY <1>1 DEF ExistsBijection, Bijection, Injection
<1>3. SetToSeq(S) \in [1 .. n -> S] /\ IsInjective(SetToSeq(S))
  BY <1>2 DEF SetToSeq
<1> DEFINE f == SetToSeq(S)
<1> HIDE DEF f
<1>4. f \in Injection(1 .. n, S)
  BY <1>3 DEF Injection, f
<1>5. IsFiniteSet(1 .. n) /\ Cardinality(1 .. n) = n
  <2>1. IsFiniteSet(1 .. n) /\ Cardinality(1 .. n) = IF 1 > n THEN 0 ELSE n - 1 + 1
    BY <1>1, FS_Interval
  <2> QED BY <2>1, <1>1
<1>6. f \in Surjection(1 .. n, S)
  BY <1>4, <1>5, FS_Injection
<1>7. \A x \in S : \E i \in 1 .. n : f[i] = x
  BY <1>6 DEF Surjection
<1>8. \A i, j \in 1 .. n : f[i] = f[j] => i = j
  BY <1>3 DEF IsInjective, f
<1>9. f \in Seq(S) /\ Len(f) = n
  <2>1. f \in [1 .. n -> S]
    BY <1>3 DEF f
  <2>2. f \in Seq(S)
    BY <2>1, <1>1
  <2>3. DOMAIN f = 1 .. Len(f) /\ Len(f) \in Nat
    BY <2>2, SeqTypes
  <2> QED BY <2>1, <2>2, <2>3, <1>1
<1> QED BY <1>1, <1>3, <1>7, <1>8, <1>9 DEF f

(* Rows for a batch.                                                       *)
Batch(rs, ds) ==
  LET new == SetToSeq(ds) IN rs \o [i \in DOMAIN new |-> NewDownloadModel(Temp(new[i]))]

LEMMA BatchRows ==
  ASSUME NEW rs \in Seq(Rows), Distinct(rs), NEW ds \in SUBSET Downloads, IsFiniteSet(ds),
         \A d \in ds : Temp(d) \notin RowIds(rs)
  PROVE  /\ Batch(rs, ds) \in Seq(Rows) /\ Distinct(Batch(rs, ds))
         /\ RowIds(Batch(rs, ds)) = RowIds(rs) \cup {Temp(d) : d \in ds}
         /\ \A x \in RowIds(rs) : FindDownloadByID(Batch(rs, ds), x) = FindDownloadByID(rs, x)
         /\ \A d \in ds :
              FindDownloadByID(Batch(rs, ds), Temp(d)) = NewDownloadModel(Temp(d))
<1> DEFINE n == Cardinality(ds)
           new == SetToSeq(ds)
           add == [i \in DOMAIN new |-> NewDownloadModel(Temp(new[i]))]
           qs == Batch(rs, ds)
<1>1. /\ n \in Nat /\ DOMAIN new = 1 .. n
      /\ \A i \in 1 .. n : new[i] \in ds
      /\ \A i, j \in 1 .. n : new[i] = new[j] => i = j
      /\ \A x \in ds : \E i \in 1 .. n : new[i] = x
  BY Listing
<1>2. Len(rs) \in Nat /\ DOMAIN rs = 1 .. Len(rs)
  BY SeqTypes
<1> HIDE DEF new, n
<1>3. \A i \in 1 .. n : add[i] \in Rows /\ add[i] = NewDownloadModel(Temp(new[i])) /\ add[i].id = Temp(new[i])
  BY <1>1, NewRow DEF Temp, Ids
<1>4. add \in Seq(Rows) /\ Len(add) = n
  <2>1. add \in [1 .. n -> Rows]
    BY <1>1, <1>3
  <2>2. add \in Seq(Rows)
    BY <2>1, <1>1
  <2> QED BY <2>1, <2>2, <1>1, SeqTypes
<1> HIDE DEF add
<1>5. /\ qs \in Seq(Rows) /\ Len(qs) = Len(rs) + n
      /\ \A i \in 1 .. Len(rs) + n : qs[i] = IF i <= Len(rs) THEN rs[i] ELSE add[i - Len(rs)]
  <2>1. qs = rs \o add
    BY DEF Batch, add, new
  <2>2. /\ rs \o add \in Seq(Rows) /\ Len(rs \o add) = Len(rs) + Len(add)
        /\ \A i \in 1 .. Len(rs) + Len(add) :
             (rs \o add)[i] = IF i <= Len(rs) THEN rs[i] ELSE add[i - Len(rs)]
    BY <1>4, ConcatProperties
  <2> QED BY <2>1, <2>2, <1>4
<1>6. DOMAIN qs = 1 .. Len(rs) + n
  BY <1>5, SeqTypes
<1> HIDE DEF qs
<1>7. \A i \in DOMAIN qs : \/ i \in DOMAIN rs /\ qs[i] = rs[i]
                           \/ ~(i <= Len(rs)) /\ i - Len(rs) \in 1 .. n
                              /\ qs[i] = NewDownloadModel(Temp(new[i - Len(rs)]))
                              /\ qs[i].id = Temp(new[i - Len(rs)])
  <2> SUFFICES ASSUME NEW i \in DOMAIN qs, ~(i <= Len(rs)) PROVE i - Len(rs) \in 1 .. n
    BY <1>2, <1>3, <1>5, <1>6
  <2> QED BY <1>1, <1>2, <1>6
<1>8. \A i \in DOMAIN rs : i \in DOMAIN qs /\ qs[i] = rs[i]
  BY <1>1, <1>2, <1>5, <1>6
<1>9. \A i \in 1 .. n : Len(rs) + i \in DOMAIN qs /\ qs[Len(rs) + i] = NewDownloadModel(Temp(new[i]))
                        /\ qs[Len(rs) + i].id = Temp(new[i])
  <2> SUFFICES ASSUME NEW i \in 1 .. n
               PROVE  Len(rs) + i \in DOMAIN qs /\ qs[Len(rs) + i] = add[i]
    BY <1>3
  <2>1. Len(rs) + i \in 1 .. Len(rs) + n /\ ~(Len(rs) + i <= Len(rs)) /\ Len(rs) + i - Len(rs) = i
    BY <1>1, <1>2
  <2> QED BY <2>1, <1>5, <1>6
<1>10. \A i \in DOMAIN rs, d \in ds : rs[i].id # Temp(d)
  BY DEF RowIds
<1>11. Distinct(qs)
  <2> SUFFICES ASSUME NEW i \in DOMAIN qs, NEW j \in DOMAIN qs, qs[i].id = qs[j].id
               PROVE  i = j
    BY DEF Distinct
  <2>1. CASE i \in DOMAIN rs /\ j \in DOMAIN rs
    BY <2>1, <1>8 DEF Distinct
  <2>2. CASE ~(i <= Len(rs)) /\ ~(j <= Len(rs))
    <3>1. i - Len(rs) = j - Len(rs)
      <4>1. /\ i - Len(rs) \in 1 .. n /\ qs[i].id = Temp(new[i - Len(rs)])
            /\ j - Len(rs) \in 1 .. n /\ qs[j].id = Temp(new[j - Len(rs)])
        BY <2>2, <1>2, <1>7
      <4>2. new[i - Len(rs)] = new[j - Len(rs)]
        <5>1. Temp(new[i - Len(rs)]) = Temp(new[j - Len(rs)])
          BY <4>1
        <5>2. \A a, b : Temp(a) = Temp(b) => a = b
          BY DEF Temp
        <5> QED BY <5>1, <5>2
      <4> QED BY <4>1, <4>2, <1>1
    <3> QED BY <3>1, <1>2, <1>6
  <2> QED BY <2>1, <2>2, <1>1, <1>7, <1>8, <1>10
<1>12. RowIds(qs) = RowIds(rs) \cup {Temp(d) : d \in ds}
  <2>1. \A i \in DOMAIN qs : qs[i].id \in RowIds(rs) \cup {Temp(d) : d \in ds}
    BY <1>1, <1>7 DEF RowIds
  <2>2. \A i \in DOMAIN rs : \E j \in DOMAIN qs : rs[i].id = qs[j].id
    BY <1>8
  <2>3. \A d \in ds : \E j \in DOMAIN qs : Temp(d) = qs[j].id
    BY <1>1, <1>9
  <2> QED BY <2>1, <2>2, <2>3 DEF RowIds
<1>13. ASSUME NEW x \in RowIds(rs)
       PROVE  FindDownloadByID(qs, x) = FindDownloadByID(rs, x)
  <2>1. PICK i \in DOMAIN rs : rs[i].id = x /\ FindDownloadByID(rs, x) = rs[i]
    BY FoundRow
  <2>2. i \in DOMAIN qs /\ qs[i] = rs[i]
    BY <1>8
  <2>3. FindDownloadByID(qs, qs[i].id) = qs[i]
    BY <2>2, <1>5, <1>11, OnlyRow
  <2> QED BY <2>1, <2>2, <2>3
<1>14. ASSUME NEW d \in ds
       PROVE  FindDownloadByID(qs, Temp(d)) = NewDownloadModel(Temp(d))
  <2>1. PICK i \in 1 .. n : new[i] = d
    BY <1>1
  <2>2. FindDownloadByID(qs, qs[Len(rs) + i].id) = qs[Len(rs) + i]
    BY <1>5, <1>9, <1>11, OnlyRow
  <2> QED BY <2>1, <2>2, <1>9
<1> QED BY <1>5, <1>11, <1>12, <1>13, <1>14 DEF qs

-----------------------------------------------------------------------------
(* What a tab shows.                                                       *)
LEMMA NthIsThere ==
  ASSUME NEW I \in SUBSET Nat, IsFiniteSet(I)
  PROVE  /\ Cardinality(I) \in Nat
         /\ \A n \in 1 .. Cardinality(I) : Nth(I, n) \in I
         /\ \A i \in I : \E n \in 1 .. Cardinality(I) : Nth(I, n) = i
<1> DEFINE Up(i) == {j \in I : j <= i}
           rank == [i \in I |-> Cardinality(Up(i))]
           N == Cardinality(I)
<1>1. N \in Nat
  BY FS_CardinalityType
<1>2. ASSUME NEW i \in I
      PROVE  IsFiniteSet(Up(i)) /\ Cardinality(Up(i)) \in 1 .. N
  <2>1. Up(i) \in SUBSET I /\ i \in Up(i)
    OBVIOUS
  <2>2. IsFiniteSet(Up(i)) /\ Cardinality(Up(i)) <= N
    BY <2>1, FS_Subset
  <2>3. Cardinality(Up(i)) \in Nat /\ Cardinality(Up(i)) # 0
    BY <2>1, <2>2, FS_CardinalityType, FS_EmptySet
  <2> QED BY <2>2, <2>3, <1>1
<1>3. ASSUME NEW i \in I, NEW j \in I, i < j
      PROVE  rank[i] # rank[j]
  <2>1. Up(i) \in SUBSET Up(j) /\ j \in Up(j) /\ j \notin Up(i)
    <3>1. i \in Nat /\ j \in Nat /\ \A k \in I : k \in Nat
      OBVIOUS
    <3>2. \A k \in I : k <= i => k <= j
      BY <3>1, <1>3
    <3>3. j <= j /\ ~(j <= i)
      BY <3>1, <1>3
    <3> QED BY <3>2, <3>3
  <2>2. Cardinality(Up(i)) # Cardinality(Up(j))
    BY <2>1, <1>2, FS_Subset
  <2> QED BY <2>2
<1>5. rank \in [I -> 1 .. N] /\ \A i \in I : rank[i] = Cardinality(Up(i))
  BY <1>2
<1> HIDE DEF rank
<1>4. \A i, j \in I : rank[i] = rank[j] => i = j
  <2> SUFFICES ASSUME NEW i \in I, NEW j \in I, i # j
               PROVE  rank[i] # rank[j]
    OBVIOUS
  <2>1. i < j \/ j < i
    OBVIOUS
  <2> QED BY <2>1, <1>3
<1>6. rank \in Injection(I, 1 .. N)
  <2>1. IsInjective(rank)
    <3> SUFFICES ASSUME NEW i \in I, NEW j \in I, rank[i] = rank[j] PROVE i = j
      BY <1>5 DEF IsInjective
    <3> QED BY <1>4, <1>5
  <2> QED BY <2>1, <1>5 DEF Injection
<1>7. IsFiniteSet(1 .. N) /\ Cardinality(1 .. N) = N
  <2>1. IsFiniteSet(1 .. N) /\ Cardinality(1 .. N) = IF 1 > N THEN 0 ELSE N - 1 + 1
    BY <1>1, FS_Interval
  <2> QED BY <2>1, <1>1
<1>8. rank \in Surjection(I, 1 .. N)
  BY <1>6, <1>7, FS_Injection
<1>9. \A n \in 1 .. N : \E i \in I : Cardinality(Up(i)) = n
  BY <1>5, <1>8 DEF Surjection
<1>10. \A n \in 1 .. N : Nth(I, n) \in I /\ Cardinality(Up(Nth(I, n))) = n
  BY <1>9 DEF Nth
<1>11. ASSUME NEW i \in I PROVE Nth(I, Cardinality(Up(i))) = i
  <2>1. Cardinality(Up(i)) \in 1 .. N
    BY <1>2
  <2>2. Nth(I, Cardinality(Up(i))) \in I
        /\ Cardinality(Up(Nth(I, Cardinality(Up(i))))) = Cardinality(Up(i))
    BY <2>1, <1>10
  <2> QED BY <2>2, <1>4, <1>5
<1> QED BY <1>1, <1>2, <1>10, <1>11

LEMMA FilteredFacts ==
  ASSUME NEW rs \in Seq(Rows), NEW t
  PROVE  /\ Filtered(rs, t) \in Seq(Ids)
         /\ \A n \in DOMAIN Filtered(rs, t) :
              \E i \in DOMAIN rs : rs[i].id = Filtered(rs, t)[n] /\ TabOf(rs[i]) = t
         /\ \A i \in DOMAIN rs : TabOf(rs[i]) = t =>
              \E n \in DOMAIN Filtered(rs, t) : Filtered(rs, t)[n] = rs[i].id
<1> DEFINE shown == {i \in DOMAIN rs : TabOf(rs[i]) = t}
           N == Cardinality(shown)
           is == Filtered(rs, t)
<1>1. /\ Len(rs) \in Nat /\ DOMAIN rs = 1 .. Len(rs)
      /\ \A i \in DOMAIN rs : rs[i] \in Rows
  BY SeqTypes
<1>2. shown \in SUBSET Nat /\ IsFiniteSet(shown)
  <2>1. IsFiniteSet(1 .. Len(rs)) /\ shown \in SUBSET (1 .. Len(rs))
    BY <1>1, FS_Interval
  <2> QED BY <2>1, FS_Subset
<1>3. /\ N \in Nat
      /\ \A n \in 1 .. N : Nth(shown, n) \in shown
      /\ \A i \in shown : \E n \in 1 .. N : Nth(shown, n) = i
  BY <1>2, NthIsThere
<1>4. is = [n \in 1 .. N |-> rs[Nth(shown, n)].id]
  BY DEF Filtered
<1> HIDE DEF is
<1>5. is \in Seq(Ids)
  <2>1. \A n \in 1 .. N : rs[Nth(shown, n)].id \in Ids
    BY <1>1, <1>3 DEF Rows
  <2>2. is \in [1 .. N -> Ids]
    BY <2>1, <1>4
  <2> QED BY <2>2, <1>3
<1>6. DOMAIN is = 1 .. N /\ \A n \in 1 .. N : is[n] = rs[Nth(shown, n)].id
  BY <1>4
<1> QED BY <1>3, <1>5, <1>6 DEF is

(* After a refresh the target is selected, unless it has gone from a tab   *)
(* that is pinned.                                                         *)
Shown(rs) ==
  /\ items' \in Seq(Ids) /\ cursor' \in Nat \ {0} /\ tab' \in Tabs
  /\ \A n \in DOMAIN items' : items'[n] \in RowIds(rs)

LEMMA ShowFacts ==
  ASSUME NEW rs \in Seq(Rows), NEW target, NEW t \in Tabs, cursor \in Nat \ {0},
         Show(rs, target, t)
  PROVE  /\ Shown(rs)
         /\ target \in RowIds(rs) =>
              \/ Selected' = target
              \/ pinned /\ tab' = t /\ TabOf(FindDownloadByID(rs, target)) # t
<1> DEFINE here == Filtered(rs, t)
           home == IF ~Contains(here, target) /\ target \in RowIds(rs) /\ ~pinned
                   THEN TabOf(FindDownloadByID(rs, target)) ELSE t
           is == Filtered(rs, home)
<1>1. /\ tab' = home
      /\ IF Contains(is, target)
         THEN items' = is /\ cursor' = CHOOSE i \in DOMAIN is : is[i] = target
         ELSE SetItems(is)
  BY DEF Show
<1>2. home \in Tabs
  BY DEF TabOf, Tabs
<1>3. ASSUME NEW u
      PROVE  /\ Filtered(rs, u) \in Seq(Ids)
             /\ DOMAIN Filtered(rs, u) = 1 .. Len(Filtered(rs, u)) /\ Len(Filtered(rs, u)) \in Nat
             /\ \A n \in DOMAIN Filtered(rs, u) : Filtered(rs, u)[n] \in RowIds(rs)
             /\ target \in RowIds(rs) /\ TabOf(FindDownloadByID(rs, target)) = u
                  => Contains(Filtered(rs, u), target)
  <2>1. Filtered(rs, u) \in Seq(Ids)
    BY FilteredFacts
  <2>2. DOMAIN Filtered(rs, u) = 1 .. Len(Filtered(rs, u)) /\ Len(Filtered(rs, u)) \in Nat
    BY <2>1, SeqTypes
  <2>3. \A n \in DOMAIN Filtered(rs, u) : Filtered(rs, u)[n] \in RowIds(rs)
    BY FilteredFacts DEF RowIds
  <2>4. ASSUME target \in RowIds(rs), TabOf(FindDownloadByID(rs, target)) = u
        PROVE  Contains(Filtered(rs, u), target)
    <3>1. PICK i \in DOMAIN rs : rs[i].id = target /\ FindDownloadByID(rs, target) = rs[i]
      BY <2>4, FoundRow
    <3>2. \E n \in DOMAIN Filtered(rs, u) : Filtered(rs, u)[n] = target
      BY <2>4, <3>1, FilteredFacts
    <3> QED BY <3>2, <2>2 DEF Contains
  <2> QED BY <2>1, <2>2, <2>3, <2>4
<1> HIDE DEF home
<1>4. items' = is
  BY <1>1 DEF SetItems
<1>5. CASE Contains(is, target)
  <2>1. cursor' \in DOMAIN is /\ is[cursor'] = target
    <3>1. \E i \in DOMAIN is : is[i] = target
      BY <1>3, <1>5 DEF Contains
    <3> QED BY <3>1, <1>1, <1>5
  <2>2. Selected' = target
    BY <2>1, <1>4 DEF Selected
  <2>3. cursor' \in Nat \ {0}
    BY <2>1, <1>3
  <2> QED BY <1>1, <1>2, <1>3, <1>4, <2>2, <2>3 DEF Shown
<1>6. CASE ~Contains(is, target)
  <2>1. cursor' \in Nat \ {0}
    <3>1. cursor' \in IF cursor = 1 \/ cursor <= Len(is) THEN {cursor} ELSE 1 .. cursor
      BY <1>1, <1>6 DEF SetItems
    <3> QED BY <3>1
  <2>2. ASSUME target \in RowIds(rs)
        PROVE  pinned /\ tab' = t /\ TabOf(FindDownloadByID(rs, target)) # t
    BY <2>2, <1>1, <1>3, <1>6 DEF home
  <2> QED BY <1>1, <1>2, <1>3, <1>4, <2>1, <2>2 DEF Shown
<1> QED BY <1>5, <1>6

-----------------------------------------------------------------------------
(* The events under way about d: whether one is of a kind in ks; whether   *)
(* the last that is about the pause says it is paused; whether the first   *)
(* makes a row; whether none follows its removal, and none asks for it     *)
(* twice.                                                                  *)
EventKinds == {"queued", "started", "progress", "complete", "error", "paused", "resumed",
               "removed", "request"}
Events == [kind : EventKinds, d : Downloads]
Makes == {"queued", "started"}

Pend(s, d, ks) == \E i \in DOMAIN s : s[i].d = d /\ s[i].kind \in ks
PauseLast(s, d) ==
  \E i \in DOMAIN s :
    /\ s[i].d = d /\ s[i].kind = "paused"
    /\ \A j \in DOMAIN s : j > i /\ s[j].d = d => s[j].kind \notin {"resumed", "started"}
MadeFirst(s, d) ==
  \A i \in DOMAIN s : s[i].d = d =>
    \E j \in DOMAIN s : j <= i /\ s[j].d = d /\ s[j].kind \in Makes
RemovedLast(s, d) ==
  \A i, j \in DOMAIN s : s[i].d = d /\ s[i].kind = "removed" /\ s[j].d = d => j <= i
AskedOnce(s, d) ==
  \A i, j \in DOMAIN s :
    s[i].d = d /\ s[i].kind = "request" /\ s[j].d = d /\ s[j].kind = "request" => i = j

(* Two streams that say the same of d.                                     *)
SameEvents(s, t, d) ==
  /\ \A ks : Pend(t, d, ks) <=> Pend(s, d, ks)
  /\ PauseLast(t, d) <=> PauseLast(s, d)
  /\ MadeFirst(t, d) <=> MadeFirst(s, d)
  /\ RemovedLast(t, d) <=> RemovedLast(s, d)
  /\ AskedOnce(t, d) <=> AskedOnce(s, d)

LEMMA AppendedOther ==
  ASSUME NEW s \in Seq(Events), NEW e \in Events, NEW d, e.d # d
  PROVE  SameEvents(s, Append(s, e), d)
<1> DEFINE t == Append(s, e)
<1>1. Len(s) \in Nat /\ DOMAIN s = 1 .. Len(s)
  BY SeqTypes
<1>2. /\ DOMAIN t = 1 .. (Len(s) + 1)
      /\ \A i \in 1 .. Len(s) : t[i] = s[i]
      /\ t[Len(s) + 1] = e
  BY <1>1, AppendProperties, LenProperties
<1>3. \A i \in DOMAIN s : i \in DOMAIN t /\ t[i] = s[i]
  BY <1>1, <1>2
<1>4. \A i \in DOMAIN t : t[i].d = d => i \in DOMAIN s /\ t[i] = s[i]
  BY <1>1, <1>2
<1> HIDE DEF t
<1>5. \A ks : Pend(t, d, ks) <=> Pend(s, d, ks)
  BY <1>3, <1>4 DEF Pend
<1>6. PauseLast(t, d) <=> PauseLast(s, d)
  BY <1>3, <1>4 DEF PauseLast
<1>7. MadeFirst(t, d) <=> MadeFirst(s, d)
  BY <1>3, <1>4 DEF MadeFirst
<1>8. RemovedLast(t, d) <=> RemovedLast(s, d)
  BY <1>3, <1>4 DEF RemovedLast
<1>9. AskedOnce(t, d) <=> AskedOnce(s, d)
  BY <1>3, <1>4 DEF AskedOnce
<1> QED BY <1>5, <1>6, <1>7, <1>8, <1>9 DEF SameEvents, t

LEMMA AppendedOwn ==
  ASSUME NEW s \in Seq(Events), NEW e \in Events
  PROVE  LET t == Append(s, e) IN
         /\ \A ks : Pend(t, e.d, ks) <=> Pend(s, e.d, ks) \/ e.kind \in ks
         /\ PauseLast(t, e.d) <=>
              e.kind = "paused" \/ (PauseLast(s, e.d) /\ e.kind \notin {"resumed", "started"})
         /\ MadeFirst(s, e.d) /\ (Pend(s, e.d, EventKinds) \/ e.kind \in Makes)
              => MadeFirst(t, e.d)
         /\ ~Pend(s, e.d, {"removed"}) => RemovedLast(t, e.d)
         /\ AskedOnce(s, e.d) /\ (e.kind # "request" \/ ~Pend(s, e.d, {"request"}))
              => AskedOnce(t, e.d)
<1> DEFINE t == Append(s, e)
           n == Len(s) + 1
           d == e.d
<1>1. Len(s) \in Nat /\ DOMAIN s = 1 .. Len(s) /\ \A i \in DOMAIN s : s[i].kind \in EventKinds
  <2>1. /\ Len(s) \in Nat /\ DOMAIN s = 1 .. Len(s)
        /\ \A i \in DOMAIN s : s[i] \in Events
    BY SeqTypes
  <2> QED BY <2>1 DEF Events
<1>2. /\ DOMAIN t = 1 .. n
      /\ \A i \in 1 .. Len(s) : t[i] = s[i]
      /\ t[n] = e
  BY <1>1, AppendProperties, LenProperties
<1>3. \A i \in DOMAIN s : i \in DOMAIN t /\ t[i] = s[i] /\ n > i /\ ~(i > n) /\ i # n
  BY <1>1, <1>2
<1>4. \A i \in DOMAIN t : (i \in DOMAIN s /\ t[i] = s[i]) \/ (i = n /\ t[i] = e)
  BY <1>1, <1>2
<1>5. n \in DOMAIN t /\ t[n] = e /\ ~(n > n) /\ n <= n
  BY <1>1, <1>2
<1>6. \A i \in DOMAIN t : i <= n
  BY <1>1, <1>2
<1> HIDE DEF t, n, d
<1>7. \A ks : Pend(t, d, ks) <=> Pend(s, d, ks) \/ e.kind \in ks
  BY <1>3, <1>4, <1>5 DEF Pend, d
<1>8. PauseLast(t, d) <=>
        e.kind = "paused" \/ (PauseLast(s, d) /\ e.kind \notin {"resumed", "started"})
  <2>1. ASSUME e.kind = "paused" PROVE PauseLast(t, d)
    BY <2>1, <1>3, <1>4, <1>5 DEF PauseLast, d
  <2>2. ASSUME PauseLast(s, d), e.kind \notin {"resumed", "started"} PROVE PauseLast(t, d)
    <3>1. PICK i \in DOMAIN s :
            /\ s[i].d = d /\ s[i].kind = "paused"
            /\ \A j \in DOMAIN s : j > i /\ s[j].d = d => s[j].kind \notin {"resumed", "started"}
      BY <2>2 DEF PauseLast
    <3>2. \A j \in DOMAIN t : j > i /\ t[j].d = d => t[j].kind \notin {"resumed", "started"}
      BY <2>2, <3>1, <1>4
    <3> QED BY <3>1, <3>2, <1>3 DEF PauseLast
  <2>3. ASSUME PauseLast(t, d), e.kind # "paused"
        PROVE  PauseLast(s, d) /\ e.kind \notin {"resumed", "started"}
    <3>1. PICK i \in DOMAIN t :
            /\ t[i].d = d /\ t[i].kind = "paused"
            /\ \A j \in DOMAIN t : j > i /\ t[j].d = d => t[j].kind \notin {"resumed", "started"}
      BY <2>3 DEF PauseLast
    <3>2. i \in DOMAIN s /\ t[i] = s[i]
      BY <3>1, <2>3, <1>4
    <3>3. e.kind \notin {"resumed", "started"}
      BY <3>1, <3>2, <1>3, <1>5 DEF d
    <3> QED BY <3>1, <3>2, <3>3, <1>3 DEF PauseLast
  <2> QED BY <2>1, <2>2, <2>3
<1>9. ASSUME MadeFirst(s, d), Pend(s, d, EventKinds) \/ e.kind \in Makes
      PROVE  MadeFirst(t, d)
  <2> SUFFICES ASSUME NEW i \in DOMAIN t, t[i].d = d
               PROVE  \E j \in DOMAIN t : j <= i /\ t[j].d = d /\ t[j].kind \in Makes
    BY DEF MadeFirst
  <2>1. CASE i \in DOMAIN s
    BY <2>1, <1>3, <1>9 DEF MadeFirst
  <2>2. CASE i = n /\ e.kind \in Makes
    BY <2>2, <1>5 DEF d
  <2>3. CASE i = n /\ Pend(s, d, EventKinds)
    <3>1. PICK k \in DOMAIN s : s[k].d = d
      BY <2>3 DEF Pend
    <3>2. PICK j \in DOMAIN s : s[j].d = d /\ s[j].kind \in Makes
      BY <3>1, <1>9 DEF MadeFirst
    <3> QED BY <2>3, <3>2, <1>3, <1>6
  <2> QED BY <2>1, <2>2, <2>3, <1>4, <1>9
<1>10. ~Pend(s, d, {"removed"}) => RemovedLast(t, d)
  BY <1>3, <1>4, <1>6 DEF RemovedLast, Pend
<1>11. AskedOnce(s, d) /\ (e.kind # "request" \/ ~Pend(s, d, {"request"})) => AskedOnce(t, d)
  BY <1>3, <1>4 DEF AskedOnce, Pend
<1> QED BY <1>7, <1>8, <1>9, <1>10, <1>11 DEF t, d

(* The first event is taken.                                               *)
LEMMA TailEntries ==
  ASSUME NEW s \in Seq(Events), s # <<>>
  PROVE  /\ Head(s) = s[1] /\ 1 \in DOMAIN s /\ Tail(s) \in Seq(Events)
         /\ \A i \in DOMAIN Tail(s) :
              i \in Nat /\ i + 1 \in DOMAIN s /\ i + 1 # 1 /\ Tail(s)[i] = s[i + 1]
         /\ \A i \in DOMAIN s : i \in Nat /\ 1 <= i /\
              (i = 1 \/ (i - 1 \in DOMAIN Tail(s) /\ (i - 1) + 1 = i /\ Tail(s)[i - 1] = s[i]))
<1>1. Len(s) \in Nat \ {0} /\ DOMAIN s = 1 .. Len(s)
  BY SeqTypes, EmptySeq
<1>2. /\ Tail(s) \in Seq(Events) /\ Len(Tail(s)) = Len(s) - 1
      /\ \A i \in 1 .. Len(Tail(s)) : Tail(s)[i] = s[i + 1]
  BY HeadTailProperties
<1>3. DOMAIN Tail(s) = 1 .. (Len(s) - 1)
  BY <1>2, SeqTypes
<1>4. Head(s) = s[1]
  BY DEF Head
<1>5. ASSUME NEW i \in DOMAIN s, i # 1
      PROVE  i - 1 \in DOMAIN Tail(s) /\ (i - 1) + 1 = i
  BY <1>1, <1>3, <1>5
<1> QED BY <1>1, <1>2, <1>3, <1>4, <1>5

LEMMA TakenOther ==
  ASSUME NEW s \in Seq(Events), s # <<>>, NEW d, Head(s).d # d
  PROVE  SameEvents(s, Tail(s), d)
<1> DEFINE t == Tail(s)
<1>1. /\ \A i \in DOMAIN t : i \in Nat /\ i + 1 \in DOMAIN s /\ t[i] = s[i + 1]
      /\ \A i \in DOMAIN s : s[i].d = d =>
           i \in Nat /\ i - 1 \in DOMAIN t /\ (i - 1) + 1 = i /\ t[i - 1] = s[i]
  BY TailEntries
<1> HIDE DEF t
<1>2. \A ks : Pend(t, d, ks) <=> Pend(s, d, ks)
  BY <1>1 DEF Pend
<1>3. PauseLast(t, d) <=> PauseLast(s, d)
  <2>1. ASSUME NEW i \in DOMAIN t, t[i].d = d, t[i].kind = "paused",
               \A j \in DOMAIN t : j > i /\ t[j].d = d => t[j].kind \notin {"resumed", "started"}
        PROVE  PauseLast(s, d)
    <3>1. ASSUME NEW j \in DOMAIN s, j > i + 1, s[j].d = d
          PROVE  s[j].kind \notin {"resumed", "started"}
      <4>1. j - 1 \in DOMAIN t /\ j - 1 > i /\ t[j - 1] = s[j]
        BY <3>1, <1>1
      <4> QED BY <4>1, <3>1, <2>1
    <3> QED BY <3>1, <2>1, <1>1 DEF PauseLast
  <2>2. ASSUME NEW i \in DOMAIN s, s[i].d = d, s[i].kind = "paused",
               \A j \in DOMAIN s : j > i /\ s[j].d = d => s[j].kind \notin {"resumed", "started"}
        PROVE  PauseLast(t, d)
    <3>1. ASSUME NEW j \in DOMAIN t, j > i - 1, t[j].d = d
          PROVE  t[j].kind \notin {"resumed", "started"}
      <4>1. j + 1 \in DOMAIN s /\ j + 1 > i /\ s[j + 1] = t[j]
        BY <3>1, <2>2, <1>1
      <4> QED BY <4>1, <3>1, <2>2
    <3> QED BY <3>1, <2>2, <1>1 DEF PauseLast
  <2> QED BY <2>1, <2>2 DEF PauseLast
<1>4. MadeFirst(t, d) <=> MadeFirst(s, d)
  <2>1. ASSUME MadeFirst(t, d), NEW i \in DOMAIN s, s[i].d = d
        PROVE  \E j \in DOMAIN s : j <= i /\ s[j].d = d /\ s[j].kind \in Makes
    <3>1. PICK j \in DOMAIN t : j <= i - 1 /\ t[j].d = d /\ t[j].kind \in Makes
      BY <2>1, <1>1 DEF MadeFirst
    <3>2. j + 1 \in DOMAIN s /\ j + 1 <= i /\ s[j + 1] = t[j]
      BY <3>1, <2>1, <1>1
    <3> QED BY <3>1, <3>2
  <2>2. ASSUME MadeFirst(s, d), NEW i \in DOMAIN t, t[i].d = d
        PROVE  \E j \in DOMAIN t : j <= i /\ t[j].d = d /\ t[j].kind \in Makes
    <3>1. PICK j \in DOMAIN s : j <= i + 1 /\ s[j].d = d /\ s[j].kind \in Makes
      BY <2>2, <1>1 DEF MadeFirst
    <3>2. j - 1 \in DOMAIN t /\ j - 1 <= i /\ t[j - 1] = s[j]
      BY <3>1, <2>2, <1>1
    <3> QED BY <3>1, <3>2
  <2> QED BY <2>1, <2>2 DEF MadeFirst
<1>5. RemovedLast(t, d) <=> RemovedLast(s, d)
  <2>1. ASSUME RemovedLast(t, d), NEW i \in DOMAIN s, NEW j \in DOMAIN s,
               s[i].d = d, s[i].kind = "removed", s[j].d = d
        PROVE  j <= i
    <3>1. j - 1 <= i - 1
      BY <2>1, <1>1 DEF RemovedLast
    <3> QED BY <3>1, <2>1, <1>1
  <2>2. ASSUME RemovedLast(s, d), NEW i \in DOMAIN t, NEW j \in DOMAIN t,
               t[i].d = d, t[i].kind = "removed", t[j].d = d
        PROVE  j <= i
    <3>1. j + 1 <= i + 1
      BY <2>2, <1>1 DEF RemovedLast
    <3> QED BY <3>1, <2>2, <1>1
  <2> QED BY <2>1, <2>2 DEF RemovedLast
<1>6. AskedOnce(t, d) <=> AskedOnce(s, d)
  <2>1. ASSUME AskedOnce(t, d), NEW i \in DOMAIN s, NEW j \in DOMAIN s,
               s[i].d = d, s[i].kind = "request", s[j].d = d, s[j].kind = "request"
        PROVE  j = i
    <3>1. j - 1 = i - 1
      BY <2>1, <1>1 DEF AskedOnce
    <3> QED BY <3>1, <2>1, <1>1
  <2>2. ASSUME AskedOnce(s, d), NEW i \in DOMAIN t, NEW j \in DOMAIN t,
               t[i].d = d, t[i].kind = "request", t[j].d = d, t[j].kind = "request"
        PROVE  j = i
    <3>1. j + 1 = i + 1
      BY <2>2, <1>1 DEF AskedOnce
    <3> QED BY <3>1, <2>2, <1>1
  <2> QED BY <2>1, <2>2 DEF AskedOnce
<1> QED BY <1>2, <1>3, <1>4, <1>5, <1>6 DEF SameEvents, t

LEMMA TakenOwn ==
  ASSUME NEW s \in Seq(Events), s # <<>>
  PROVE  LET t == Tail(s) d == Head(s).d k == Head(s).kind IN
         /\ d \in Downloads /\ k \in EventKinds
         /\ \A ks : Pend(s, d, ks) <=> Pend(t, d, ks) \/ k \in ks
         /\ PauseLast(s, d) <=>
              PauseLast(t, d) \/ (k = "paused" /\ ~Pend(t, d, {"resumed", "started"}))
         /\ MadeFirst(s, d) => k \in Makes
         /\ RemovedLast(s, d) => RemovedLast(t, d)
         /\ RemovedLast(s, d) /\ k = "removed" => ~Pend(t, d, EventKinds)
         /\ AskedOnce(s, d) => AskedOnce(t, d)
         /\ AskedOnce(s, d) /\ k = "request" => ~Pend(t, d, {"request"})
<1> DEFINE t == Tail(s)
           d == Head(s).d
           k == Head(s).kind
<1>1. /\ Head(s) = s[1] /\ 1 \in DOMAIN s
      /\ \A i \in DOMAIN t : i \in Nat /\ i + 1 \in DOMAIN s /\ i + 1 # 1 /\ t[i] = s[i + 1]
      /\ \A i \in DOMAIN s : i \in Nat /\ 1 <= i /\
           (i = 1 \/ (i - 1 \in DOMAIN t /\ (i - 1) + 1 = i /\ t[i - 1] = s[i]))
  BY TailEntries
<1>2. d \in Downloads /\ k \in EventKinds
  <2>1. s[1] \in Events
    BY <1>1, SeqTypes
  <2> QED BY <2>1, <1>1 DEF Events
<1>3. s[1].d = d /\ s[1].kind = k
  BY <1>1
<1> HIDE DEF t, d, k
<1>4. \A ks : Pend(s, d, ks) <=> Pend(t, d, ks) \/ k \in ks
  BY <1>1, <1>3 DEF Pend
<1>5. PauseLast(s, d) <=>
        PauseLast(t, d) \/ (k = "paused" /\ ~Pend(t, d, {"resumed", "started"}))
  <2>1. ASSUME NEW i \in DOMAIN t, t[i].d = d, t[i].kind = "paused",
               \A j \in DOMAIN t : j > i /\ t[j].d = d => t[j].kind \notin {"resumed", "started"}
        PROVE  PauseLast(s, d)
    <3>1. ASSUME NEW j \in DOMAIN s, j > i + 1, s[j].d = d
          PROVE  s[j].kind \notin {"resumed", "started"}
      <4>1. j - 1 \in DOMAIN t /\ j - 1 > i /\ t[j - 1] = s[j]
        BY <3>1, <1>1
      <4> QED BY <4>1, <3>1, <2>1
    <3> QED BY <3>1, <2>1, <1>1 DEF PauseLast
  <2>2. ASSUME k = "paused", ~Pend(t, d, {"resumed", "started"})
        PROVE  PauseLast(s, d)
    <3>1. ASSUME NEW j \in DOMAIN s, j > 1, s[j].d = d
          PROVE  s[j].kind \notin {"resumed", "started"}
      <4>1. j - 1 \in DOMAIN t /\ t[j - 1] = s[j]
        BY <3>1, <1>1
      <4> QED BY <4>1, <3>1, <2>2 DEF Pend
    <3> QED BY <3>1, <2>2, <1>1, <1>3 DEF PauseLast
  <2>3. ASSUME NEW i \in DOMAIN s, s[i].d = d, s[i].kind = "paused",
               \A j \in DOMAIN s : j > i /\ s[j].d = d => s[j].kind \notin {"resumed", "started"}
        PROVE  PauseLast(t, d) \/ (k = "paused" /\ ~Pend(t, d, {"resumed", "started"}))
    <3>1. ASSUME NEW j \in DOMAIN t, j > i - 1, t[j].d = d
          PROVE  t[j].kind \notin {"resumed", "started"}
      <4>1. j + 1 \in DOMAIN s /\ j + 1 > i /\ s[j + 1] = t[j]
        BY <3>1, <2>3, <1>1
      <4> QED BY <4>1, <3>1, <2>3
    <3>2. CASE i = 1
      <4>1. \A j \in DOMAIN t : j > i - 1
        BY <3>2, <1>1
      <4> QED BY <4>1, <3>1, <3>2, <2>3, <1>3 DEF Pend
    <3>3. CASE i # 1
      BY <3>1, <3>3, <2>3, <1>1 DEF PauseLast
    <3> QED BY <3>2, <3>3
  <2> QED BY <2>1, <2>2, <2>3 DEF PauseLast
<1>6. MadeFirst(s, d) => k \in Makes
  <2> SUFFICES ASSUME MadeFirst(s, d) PROVE k \in Makes
    OBVIOUS
  <2>1. PICK j \in DOMAIN s : j <= 1 /\ s[j].kind \in Makes
    BY <1>1, <1>3 DEF MadeFirst
  <2>2. j = 1
    BY <2>1, <1>1
  <2> QED BY <2>1, <2>2, <1>3
<1>7. RemovedLast(s, d) => RemovedLast(t, d)
  <2> SUFFICES ASSUME RemovedLast(s, d), NEW i \in DOMAIN t, NEW j \in DOMAIN t,
                      t[i].d = d, t[i].kind = "removed", t[j].d = d
               PROVE  j <= i
    BY DEF RemovedLast
  <2>1. /\ i + 1 \in DOMAIN s /\ s[i + 1] = t[i]
        /\ j + 1 \in DOMAIN s /\ s[j + 1] = t[j]
    BY <1>1
  <2>2. j + 1 <= i + 1
    BY <2>1 DEF RemovedLast
  <2> QED BY <2>2, <1>1
<1>8. RemovedLast(s, d) /\ k = "removed" => ~Pend(t, d, EventKinds)
  <2> SUFFICES ASSUME RemovedLast(s, d), k = "removed", NEW j \in DOMAIN t, t[j].d = d
               PROVE  FALSE
    BY DEF Pend
  <2>1. j + 1 <= 1
    BY <1>1, <1>3 DEF RemovedLast
  <2> QED BY <2>1, <1>1
<1>9. AskedOnce(s, d) => AskedOnce(t, d)
  <2> SUFFICES ASSUME AskedOnce(s, d), NEW i \in DOMAIN t, NEW j \in DOMAIN t,
                      t[i].d = d, t[i].kind = "request", t[j].d = d, t[j].kind = "request"
               PROVE  i = j
    BY DEF AskedOnce
  <2>1. /\ i + 1 \in DOMAIN s /\ s[i + 1] = t[i]
        /\ j + 1 \in DOMAIN s /\ s[j + 1] = t[j]
    BY <1>1
  <2>2. i + 1 = j + 1
    BY <2>1 DEF AskedOnce
  <2> QED BY <2>2, <1>1
<1>10. AskedOnce(s, d) /\ k = "request" => ~Pend(t, d, {"request"})
  BY <1>1, <1>3 DEF AskedOnce, Pend
<1> QED BY <1>2, <1>4, <1>5, <1>6, <1>7, <1>8, <1>9, <1>10 DEF t, d, k

-----------------------------------------------------------------------------
(* What is known of every download, whichever slips happen.                *)
Places == {"no", "requested", "declined", "called", "dispatched", "done", "failed", "stored"}
ResultKinds == {"enqueueSuccess", "enqueueError", "resumeResult"}
Due(kind, d) == [kind |-> kind, d |-> d] \in results

Types ==
  /\ TypeOK
  /\ stream \in Seq(Events)
  /\ results \subseteq [kind : ResultKinds, d : Downloads]
  /\ enq \in [Downloads -> [at : Places, via : {"none", "temp", "real"}]]
  /\ turns \in Nat /\ lost \subseteq Downloads

(* An enqueue that was not made, not yet, or in vain.                      *)
Unasked == {"no", "requested", "declined"}
Unsent == Unasked \cup {"called", "failed"}

(* A request is under way, or before the user, or has been answered.  A    *)
(* download has rows only once it is enqueued, and a temporary one only if *)
(* that was done under a temporary id; the service tells of it only when   *)
(* it has it; and a result is one of what was called.                      *)
ListFine(d) ==
  /\ AskedOnce(stream, d)
  /\ Pend(stream, d, {"request"}) => enq[d].at = "requested" /\ asked # d
  /\ asked = d => enq[d].at = "requested"
  /\ Has(Temp(d)) => enq[d].via = "temp"
  /\ enq[d].at \in Unasked => ~Has(Temp(d)) /\ ~Has(Real(d))
  /\ enq[d].at \in Unsent <=> svc[d] = "none"
  /\ enq[d].at \in Unsent => ~Pend(stream, d, EventKinds \ {"request"})
  /\ enq[d].at \in Unsent /\ Has(Real(d)) => enq[d].via = "real"
  /\ Due("enqueueError", d) => enq[d].at = "failed" /\ enq[d].via # "none"
  /\ Due("enqueueSuccess", d) => enq[d].at = "done" /\ enq[d].via # "none"
  /\ Due("resumeResult", d) => enq[d].at = "done" /\ enq[d].via = "none"
  /\ enq[d].at = "stored" => enq[d].via = "none"

Asking == dialog \in {"confirm", "duplicate"} \/ (dialog = "picker" /\ origin = "confirm")
ItemsAreRows == \A n \in DOMAIN items : items[n] \in RowIds(rows)

ListInv ==
  /\ Types /\ ItemsAreRows /\ Distinct(rows)
  /\ Asking => asked # "none"
  /\ \A d \in Downloads : ListFine(d)

(* A step that is not about e.                                             *)
RowsStay(e) ==
  \A id \in {Temp(e), Real(e)} :
    /\ id \in RowIds(rows') <=> id \in RowIds(rows)
    /\ id \in RowIds(rows) => FindDownloadByID(rows', id) = FindDownloadByID(rows, id)
Aloof(e) ==
  /\ RowsStay(e)
  /\ SameEvents(stream, stream', e)
  /\ \A kind : Due(kind, e)' <=> Due(kind, e)
  /\ svc'[e] = svc[e] /\ enq'[e] = enq[e]
  /\ asked' = e => asked = e

LEMMA AloofFine ==
  ASSUME NEW e \in Downloads, Aloof(e), ListFine(e)
  PROVE  ListFine(e)'
  BY DEF Aloof, RowsStay, SameEvents, ListFine, Has

(* The stream gets an event of d, or loses one.                            *)
Sends(k, d) == k \in EventKinds /\ stream' = Append(stream, Event(k, d))
Takes(k, d) == stream # <<>> /\ Head(stream) = Event(k, d) /\ stream' = Tail(stream)
Streams(d) == stream' = stream \/ \E k \in EventKinds : Sends(k, d) \/ Takes(k, d)

LEMMA EventType ==
  ASSUME NEW k \in EventKinds, NEW d \in Downloads
  PROVE  Event(k, d) \in Events /\ Event(k, d).kind = k /\ Event(k, d).d = d
  BY DEF Event, Events

LEMMA StreamStep ==
  ASSUME stream \in Seq(Events), NEW d \in Downloads, Streams(d)
  PROVE  stream' \in Seq(Events) /\ \A e : e # d => SameEvents(stream, stream', e)
<1>1. CASE stream' = stream
  BY <1>1 DEF SameEvents
<1>2. ASSUME NEW k \in EventKinds, Sends(k, d)
      PROVE  stream' \in Seq(Events) /\ \A e : e # d => SameEvents(stream, stream', e)
  BY <1>2, EventType, AppendedOther, AppendProperties DEF Sends
<1>3. ASSUME NEW k \in EventKinds, Takes(k, d)
      PROVE  stream' \in Seq(Events) /\ \A e : e # d => SameEvents(stream, stream', e)
  BY <1>3, EventType, TakenOther, TailEntries DEF Takes
<1> QED BY <1>1, <1>2, <1>3 DEF Streams

LEMMA Sent ==
  ASSUME stream \in Seq(Events), NEW k, NEW d \in Downloads, Sends(k, d)
  PROVE  /\ \A ks : Pend(stream', d, ks) <=> Pend(stream, d, ks) \/ k \in ks
         /\ PauseLast(stream', d) <=>
              k = "paused" \/ (PauseLast(stream, d) /\ k \notin {"resumed", "started"})
         /\ MadeFirst(stream, d) /\ (Pend(stream, d, EventKinds) \/ k \in Makes)
              => MadeFirst(stream', d)
         /\ ~Pend(stream, d, {"removed"}) => RemovedLast(stream', d)
         /\ AskedOnce(stream, d) /\ (k # "request" \/ ~Pend(stream, d, {"request"}))
              => AskedOnce(stream', d)
<1> DEFINE e == Event(k, d)
<1>1. e \in Events /\ e.kind = k /\ e.d = d /\ stream' = Append(stream, e)
  BY EventType DEF Sends
<1> HIDE DEF e
<1>2. LET t == Append(stream, e) IN
         /\ \A ks : Pend(t, e.d, ks) <=> Pend(stream, e.d, ks) \/ e.kind \in ks
         /\ PauseLast(t, e.d) <=>
              e.kind = "paused" \/ (PauseLast(stream, e.d) /\ e.kind \notin {"resumed", "started"})
         /\ MadeFirst(stream, e.d) /\ (Pend(stream, e.d, EventKinds) \/ e.kind \in Makes)
              => MadeFirst(t, e.d)
         /\ ~Pend(stream, e.d, {"removed"}) => RemovedLast(t, e.d)
         /\ AskedOnce(stream, e.d) /\ (e.kind # "request" \/ ~Pend(stream, e.d, {"request"}))
              => AskedOnce(t, e.d)
  BY <1>1, AppendedOwn
<1> QED BY <1>1, <1>2

LEMMA Taken ==
  ASSUME stream \in Seq(Events), NEW k, NEW d, Takes(k, d)
  PROVE  /\ d \in Downloads /\ k \in EventKinds
         /\ \A ks : Pend(stream, d, ks) <=> Pend(stream', d, ks) \/ k \in ks
         /\ PauseLast(stream, d) <=>
              PauseLast(stream', d) \/ (k = "paused" /\ ~Pend(stream', d, {"resumed", "started"}))
         /\ MadeFirst(stream, d) => k \in Makes
         /\ RemovedLast(stream, d) => RemovedLast(stream', d)
         /\ RemovedLast(stream, d) /\ k = "removed" => ~Pend(stream', d, EventKinds)
         /\ AskedOnce(stream, d) => AskedOnce(stream', d)
         /\ AskedOnce(stream, d) /\ k = "request" => ~Pend(stream', d, {"request"})
<1>1. Head(stream).d = d /\ Head(stream).kind = k /\ stream' = Tail(stream) /\ stream # <<>>
  BY DEF Takes, Event
<1>2. LET t == Tail(stream) c == Head(stream).d l == Head(stream).kind IN
         /\ c \in Downloads /\ l \in EventKinds
         /\ \A ks : Pend(stream, c, ks) <=> Pend(t, c, ks) \/ l \in ks
         /\ PauseLast(stream, c) <=>
              PauseLast(t, c) \/ (l = "paused" /\ ~Pend(t, c, {"resumed", "started"}))
         /\ MadeFirst(stream, c) => l \in Makes
         /\ RemovedLast(stream, c) => RemovedLast(t, c)
         /\ RemovedLast(stream, c) /\ l = "removed" => ~Pend(t, c, EventKinds)
         /\ AskedOnce(stream, c) => AskedOnce(t, c)
         /\ AskedOnce(stream, c) /\ l = "request" => ~Pend(t, c, {"request"})
  BY <1>1, TakenOwn
<1> QED BY <1>1, <1>2

-----------------------------------------------------------------------------
(* Steps of the service leave the interface alone.                         *)
SvcStates == {"none", "queued", "active", "pausing", "paused", "complete", "error", "removed"}
EnqStates == [at : Places, via : {"none", "temp", "real"}]
ResultsAbout(d) ==
  /\ results' \subseteq [kind : ResultKinds, d : Downloads]
  /\ \A kind, e : e # d => (Due(kind, e)' <=> Due(kind, e))
ServiceAbout(d) ==
  /\ InterfaceKeeps /\ Streams(d) /\ ResultsAbout(d)
  /\ svc' = svc \/ \E s \in SvcStates : svc' = [svc EXCEPT ![d] = s]
  /\ enq' = enq \/ \E p \in EnqStates : enq' = [enq EXCEPT ![d] = p]
  /\ turns' \in Nat /\ lost' \subseteq Downloads
OthersAloof(d) == \A e \in Downloads \ {d} : Aloof(e)

LEMMA ServiceFrame ==
  ASSUME ListInv, NEW d \in Downloads, ServiceAbout(d)
  PROVE  /\ Types' /\ ItemsAreRows' /\ Distinct(rows)' /\ (Asking => asked # "none")'
         /\ OthersAloof(d) /\ rows' = rows /\ asked' = asked
<1> USE DEF ListInv, Types
<1>1. /\ rows' = rows /\ items' = items /\ cursor' = cursor /\ tab' = tab /\ pinned' = pinned
      /\ dialog' = dialog /\ origin' = origin /\ asked' = asked /\ awaiting' = awaiting
  BY DEF ServiceAbout, InterfaceKeeps, list, dialogs
<1>2. stream' \in Seq(Events) /\ \A e : e # d => SameEvents(stream, stream', e)
  BY StreamStep DEF ServiceAbout
<1>3. /\ svc' \in [Downloads -> SvcStates]
      /\ \A e \in Downloads \ {d} : svc'[e] = svc[e]
  BY DEF ServiceAbout, TypeOK, SvcStates
<1>4. /\ enq' \in [Downloads -> EnqStates]
      /\ \A e \in Downloads \ {d} : enq'[e] = enq[e]
  BY DEF ServiceAbout, EnqStates
<1>5. Types'
  BY <1>1, <1>2, <1>3, <1>4 DEF ServiceAbout, ResultsAbout, TypeOK, SvcStates, EnqStates
<1>6. ItemsAreRows' /\ Distinct(rows)' /\ (Asking => asked # "none")'
  BY <1>1 DEF ItemsAreRows, Distinct, Asking
<1>7. OthersAloof(d)
  BY <1>1, <1>2, <1>3, <1>4 DEF OthersAloof, Aloof, RowsStay, ServiceAbout, ResultsAbout
<1> QED BY <1>1, <1>5, <1>6, <1>7

(* What a step of the service does with d.                                 *)
LEMMA ResultsGrow ==
  ASSUME results \subseteq [kind : ResultKinds, d : Downloads], NEW d \in Downloads,
         NEW k \in ResultKinds, NEW c \in BOOLEAN,
         results' = results \cup IF c THEN {} ELSE {[kind |-> k, d |-> d]}
  PROVE  ResultsAbout(d) /\ \A l : Due(l, d)' <=> Due(l, d) \/ (~c /\ l = k)
<1>1. \A l, e : [kind |-> l, d |-> e] = [kind |-> k, d |-> d] <=> l = k /\ e = d
  OBVIOUS
<1> QED BY <1>1 DEF ResultsAbout, Due

LEMMA ResultsShrink ==
  ASSUME results \subseteq [kind : ResultKinds, d : Downloads], NEW d, NEW k,
         results' = results \ {[kind |-> k, d |-> d]}
  PROVE  ResultsAbout(d) /\ \A l : Due(l, d)' <=> Due(l, d) /\ l # k
<1>1. \A l, e : [kind |-> l, d |-> e] = [kind |-> k, d |-> d] <=> l = k /\ e = d
  OBVIOUS
<1> QED BY <1>1 DEF ResultsAbout, Due

LEMMA ResultsSame ==
  ASSUME results \subseteq [kind : ResultKinds, d : Downloads], NEW d, results' = results
  PROVE  ResultsAbout(d) /\ \A l : Due(l, d)' <=> Due(l, d)
  BY DEF ResultsAbout, Due

(* The place of an enqueue.                                                *)
LEMMA EnqMoves ==
  ASSUME enq \in [Downloads -> EnqStates], NEW d \in Downloads, NEW l \in Places, EnqAt(d, l)
  PROVE  /\ enq'[d].at = l /\ enq'[d].via = enq[d].via
         /\ \E p \in EnqStates : enq' = [enq EXCEPT ![d] = p]
<1>1. enq[d] \in EnqStates
  OBVIOUS
<1>2. enq' = [enq EXCEPT ![d] = [enq[d] EXCEPT !.at = l]]
  BY DEF EnqAt
<1>3. [enq[d] EXCEPT !.at = l] \in EnqStates
  BY <1>1 DEF EnqStates
<1>4. enq'[d] = [enq[d] EXCEPT !.at = l]
  BY <1>2
<1> QED BY <1>1, <1>2, <1>3, <1>4 DEF EnqStates

(* How a step of the service that is about d goes.                         *)
LEMMA EnqueueSteps ==
  ASSUME ListInv, NEW d \in Downloads,
         EnqueueFails(d) \/ Dispatch(d) \/ PublishQueued(d) \/ AddElsewhere(d)
           \/ RequestElsewhere(d) \/ ResumeStored(d)
  PROVE  ServiceAbout(d) /\ ListFine(d)'
<1> USE DEF ListInv, Types
<1>0. /\ enq \in [Downloads -> EnqStates] /\ svc \in [Downloads -> SvcStates]
      /\ enq[d] \in EnqStates /\ svc[d] \in SvcStates
      /\ results \subseteq [kind : ResultKinds, d : Downloads]
      /\ turns \in Nat /\ lost \subseteq Downloads
      /\ ListFine(d)
  BY DEF TypeOK, SvcStates, EnqStates
<1>1. CASE EnqueueFails(d)
  <2>1. ResultsAbout(d) /\ \A l : Due(l, d)' <=>
          Due(l, d) \/ (~(enq[d].via = "none") /\ l = "enqueueError")
    BY <1>0, <1>1, ResultsGrow DEF EnqueueFails, ResultKinds
  <2>2. /\ enq'[d].at = "failed" /\ enq'[d].via = enq[d].via
        /\ \E p \in EnqStates : enq' = [enq EXCEPT ![d] = p]
    BY <1>0, <1>1, EnqMoves DEF EnqueueFails, Places
  <2>3. /\ InterfaceKeeps /\ stream' = stream /\ svc' = svc /\ turns' = turns /\ lost' = lost
        /\ enq[d].at = "called"
    BY <1>1 DEF EnqueueFails, counts
  <2>4. ServiceAbout(d)
    BY <2>1, <2>2, <2>3, <1>0 DEF ServiceAbout, Streams
  <2>5. rows' = rows /\ asked' = asked
    BY <2>4, ServiceFrame
  <2>6. ListFine(d)'
    BY <2>1, <2>2, <2>3, <2>5, <1>0 DEF ListFine, Has, Unsent, Unasked
  <2> QED BY <2>4, <2>6
<1>2. CASE Dispatch(d)
  <2>1. ResultsAbout(d) /\ \A l : Due(l, d)' <=> Due(l, d)
    BY <1>0, <1>2, ResultsSame DEF Dispatch
  <2>2. /\ enq'[d].at = "dispatched" /\ enq'[d].via = enq[d].via
        /\ \E p \in EnqStates : enq' = [enq EXCEPT ![d] = p]
    BY <1>0, <1>2, EnqMoves DEF Dispatch, Places
  <2>3. /\ InterfaceKeeps /\ stream' = stream /\ turns' = turns /\ lost' = lost
        /\ enq[d].at = "called" /\ svc' = [svc EXCEPT ![d] = "queued"] /\ svc'[d] = "queued"
    BY <1>0, <1>2 DEF Dispatch, counts, ServiceIs
  <2>4. ServiceAbout(d)
    BY <2>1, <2>2, <2>3, <1>0 DEF ServiceAbout, Streams, SvcStates
  <2>5. rows' = rows /\ asked' = asked
    BY <2>4, ServiceFrame
  <2>6. ListFine(d)'
    BY <2>1, <2>2, <2>3, <2>5, <1>0 DEF ListFine, Has, Unsent, Unasked
  <2> QED BY <2>4, <2>6
<1>3. CASE PublishQueued(d)
  <2>1. ResultsAbout(d) /\ \A l : Due(l, d)' <=>
          Due(l, d) \/ (~(enq[d].via = "none") /\ l = "enqueueSuccess")
    BY <1>0, <1>3, ResultsGrow DEF PublishQueued, ResultKinds
  <2>2. /\ enq'[d].at = "done" /\ enq'[d].via = enq[d].via
        /\ \E p \in EnqStates : enq' = [enq EXCEPT ![d] = p]
    BY <1>0, <1>3, EnqMoves DEF PublishQueued, Places
  <2>3. /\ InterfaceKeeps /\ Sends("queued", d) /\ turns' = turns /\ lost' = lost
        /\ enq[d].at = "dispatched" /\ svc' = svc
    BY <1>3 DEF PublishQueued, counts, Publish, Sends, EventKinds
  <2>4. ServiceAbout(d)
    BY <2>1, <2>2, <2>3, <1>0 DEF ServiceAbout, Streams, Sends
  <2>5. rows' = rows /\ asked' = asked
    BY <2>4, ServiceFrame
  <2>6. /\ Pend(stream', d, {"request"}) <=> Pend(stream, d, {"request"})
        /\ AskedOnce(stream, d) => AskedOnce(stream', d)
    BY <2>3, Sent
  <2>7. ListFine(d)'
    BY <2>1, <2>2, <2>3, <2>5, <2>6, <1>0 DEF ListFine, Has, Unsent, Unasked
  <2> QED BY <2>4, <2>7
<1>4. CASE AddElsewhere(d)
  <2>1. ResultsAbout(d) /\ \A l : Due(l, d)' <=> Due(l, d)
    BY <1>0, <1>4, ResultsSame DEF AddElsewhere
  <2>2. /\ enq'[d].at = "called" /\ enq'[d].via = "none"
        /\ \E p \in EnqStates : enq' = [enq EXCEPT ![d] = p]
    BY <1>0, <1>4 DEF AddElsewhere, Places, EnqStates
  <2>3. /\ InterfaceKeeps /\ stream' = stream /\ turns' = turns /\ lost' = lost
        /\ enq[d].at = "no" /\ svc' = svc
    BY <1>4 DEF AddElsewhere, counts
  <2>4. ServiceAbout(d)
    BY <2>1, <2>2, <2>3, <1>0 DEF ServiceAbout, Streams
  <2>5. rows' = rows /\ asked' = asked
    BY <2>4, ServiceFrame
  <2>6. ListFine(d)'
    BY <2>1, <2>2, <2>3, <2>5, <1>0 DEF ListFine, Has, Unsent, Unasked
  <2> QED BY <2>4, <2>6
<1>5. CASE RequestElsewhere(d)
  <2>1. ResultsAbout(d) /\ \A l : Due(l, d)' <=> Due(l, d)
    BY <1>0, <1>5, ResultsSame DEF RequestElsewhere
  <2>2. /\ enq'[d].at = "requested" /\ enq'[d].via = enq[d].via
        /\ \E p \in EnqStates : enq' = [enq EXCEPT ![d] = p]
    BY <1>0, <1>5, EnqMoves DEF RequestElsewhere, Places
  <2>3. /\ InterfaceKeeps /\ Sends("request", d) /\ turns' = turns /\ lost' = lost
        /\ enq[d].at = "no" /\ svc' = svc
    BY <1>5 DEF RequestElsewhere, counts, Publish, Sends, EventKinds
  <2>4. ServiceAbout(d)
    BY <2>1, <2>2, <2>3, <1>0 DEF ServiceAbout, Streams, Sends
  <2>5. rows' = rows /\ asked' = asked
    BY <2>4, ServiceFrame
  <2>6. /\ (~Pend(stream, d, {"request"}) /\ AskedOnce(stream, d)) => AskedOnce(stream', d)
        /\ Pend(stream', d, EventKinds \ {"request"}) <=> Pend(stream, d, EventKinds \ {"request"})
    BY <2>3, Sent
  <2>7. ListFine(d)'
    BY <2>1, <2>2, <2>3, <2>5, <2>6, <1>0 DEF ListFine, Has, Unsent, Unasked
  <2> QED BY <2>4, <2>7
<1>6. CASE ResumeStored(d)
  <2>1. /\ enq'[d].at = "done" /\ enq'[d].via = enq[d].via
        /\ \E p \in EnqStates : enq' = [enq EXCEPT ![d] = p]
    BY <1>0, <1>6, EnqMoves DEF ResumeStored, Places
  <2>2. InterfaceKeeps /\ turns' = turns /\ lost' = lost /\ enq[d].at = "stored"
    BY <1>6 DEF ResumeStored, counts
  <2>3. svc[d] # "none" /\ enq[d].via = "none" /\ ~Pend(stream, d, {"request"}) /\ asked # d
    BY <2>2, <1>0 DEF ListFine, Unsent, Unasked
  <2>4. CASE /\ svc' = [svc EXCEPT ![d] = "queued"] /\ Sends("resumed", d)
             /\ results' = results \cup {[kind |-> "resumeResult", d |-> d]}
    <3>1. ResultsAbout(d) /\ \A l : Due(l, d)' <=> Due(l, d) \/ (~FALSE /\ l = "resumeResult")
      BY <1>0, <2>4, ResultsGrow DEF ResultKinds
    <3>2. ServiceAbout(d)
      BY <2>1, <2>2, <2>4, <3>1, <1>0 DEF ServiceAbout, Streams, SvcStates, Sends
    <3>3. rows' = rows /\ asked' = asked
      BY <3>2, ServiceFrame
    <3>4. /\ Pend(stream', d, {"request"}) <=> Pend(stream, d, {"request"})
          /\ AskedOnce(stream, d) => AskedOnce(stream', d)
      BY <2>4, Sent
    <3>5. svc'[d] = "queued"
      BY <2>4, <1>0
    <3>6. ListFine(d)'
      BY <2>1, <2>2, <2>3, <3>1, <3>3, <3>4, <3>5, <1>0 DEF ListFine, Has, Unsent, Unasked
    <3> QED BY <3>2, <3>6
  <2>5. CASE UNCHANGED <<svc, stream, results>>
    <3>1. ResultsAbout(d) /\ \A l : Due(l, d)' <=> Due(l, d)
      BY <1>0, <2>5, ResultsSame
    <3>2. ServiceAbout(d)
      BY <2>1, <2>2, <2>5, <3>1, <1>0 DEF ServiceAbout, Streams
    <3>3. rows' = rows /\ asked' = asked
      BY <3>2, ServiceFrame
    <3>4. ListFine(d)'
      BY <2>1, <2>2, <2>3, <2>5, <3>1, <3>3, <1>0 DEF ListFine, Has, Unsent, Unasked
    <3> QED BY <3>2, <3>4
  <2> QED BY <2>4, <2>5, <1>6 DEF ResumeStored, ServiceIs, Publish, Sends, EventKinds
<1> QED BY <1>1, <1>2, <1>3, <1>4, <1>5, <1>6

-----------------------------------------------------------------------------
(* A step that is about d.                                                 *)
Dialogs == {"picker", "batchpicker", "dashboard", "input", "confirm", "duplicate",
            "batchconfirm", "other"}
RowsAbout(d) == rows' \in Seq(Rows) /\ Distinct(rows') /\ \A e \in Downloads \ {d} : RowsStay(e)
ListView ==
  \/ Shown(rows')
  \/ /\ items' \in Seq(Ids) /\ cursor' \in Nat \ {0} /\ tab' \in Tabs
     /\ items' = items /\ RowIds(rows) \subseteq RowIds(rows')
DialogsAbout(d) ==
  /\ dialog' \in Dialogs /\ origin' \in {"none", "input", "confirm"}
  /\ asked' \in Downloads \cup {"none"} /\ awaiting' \subseteq Downloads
  /\ asked' \in {asked, d, "none"} /\ (Asking => asked # "none")'
StepAbout(d) ==
  /\ RowsAbout(d) /\ ListView /\ pinned' \in BOOLEAN
  /\ DialogsAbout(d) /\ Streams(d) /\ ResultsAbout(d)
  /\ svc' = svc \/ \E s \in SvcStates : svc' = [svc EXCEPT ![d] = s]
  /\ enq' = enq \/ \E p \in EnqStates : enq' = [enq EXCEPT ![d] = p]
  /\ turns' \in Nat /\ lost' \subseteq Downloads /\ lost \subseteq lost'

LEMMA StepFrame ==
  ASSUME ListInv, NEW d \in Downloads, StepAbout(d)
  PROVE  /\ Types' /\ ItemsAreRows' /\ Distinct(rows)' /\ (Asking => asked # "none")'
         /\ OthersAloof(d)
<1> USE DEF ListInv, Types
<1>1. stream' \in Seq(Events) /\ \A e : e # d => SameEvents(stream, stream', e)
  BY StreamStep DEF StepAbout
<1>2. /\ svc' \in [Downloads -> SvcStates]
      /\ \A e \in Downloads \ {d} : svc'[e] = svc[e]
  BY DEF StepAbout, TypeOK, SvcStates
<1>3. /\ enq' \in [Downloads -> EnqStates]
      /\ \A e \in Downloads \ {d} : enq'[e] = enq[e]
  BY DEF StepAbout, EnqStates
<1>4. items' \in Seq(Ids) /\ cursor' \in Nat \ {0} /\ tab' \in Tabs /\ ItemsAreRows'
  BY DEF StepAbout, ListView, Shown, ItemsAreRows
<1>5. TypeOK'
  BY <1>2, <1>4 DEF StepAbout, TypeOK, RowsAbout, Rows, Tabs, Pickers, DialogsAbout, Dialogs,
                    SvcStates
<1>6. Types'
  BY <1>1, <1>3, <1>5 DEF StepAbout, ResultsAbout, EnqStates
<1>7. OthersAloof(d)
  <2> SUFFICES ASSUME NEW e \in Downloads \ {d} PROVE Aloof(e)
    BY DEF OthersAloof
  <2>1. e # "none"
    BY DashboardAssumption
  <2> QED BY <2>1, <1>1, <1>2, <1>3
          DEF Aloof, StepAbout, RowsAbout, ResultsAbout, DialogsAbout
<1> QED BY <1>4, <1>6, <1>7 DEF StepAbout, RowsAbout, DialogsAbout

(* What keeps ListInv.                                                     *)
LEMMA StepFine ==
  ASSUME ListInv, NEW d \in Downloads, StepAbout(d), ListFine(d)'
  PROVE  ListInv'
<1>1. /\ Types' /\ ItemsAreRows' /\ Distinct(rows)' /\ (Asking => asked # "none")'
      /\ OthersAloof(d)
  BY StepFrame
<1>2. \A e \in Downloads \ {d} : ListFine(e)'
  BY <1>1, AloofFine DEF OthersAloof, ListInv
<1> QED BY <1>1, <1>2 DEF ListInv

(* A step that is about no download.                                       *)
Rests ==
  /\ rows' = rows /\ ListView /\ pinned' \in BOOLEAN
  /\ dialog' \in Dialogs /\ origin' \in {"none", "input", "confirm"}
  /\ asked' = asked /\ awaiting' = awaiting /\ (Asking => asked # "none")'
  /\ stream' = stream /\ results' = results /\ svc' = svc /\ enq' = enq
  /\ turns' \in Nat /\ lost' = lost

LEMMA RestsFine ==
  ASSUME ListInv, Rests
  PROVE  ListInv' /\ \A e \in Downloads : Aloof(e)
<1> USE DEF ListInv, Types
<1>1. items' \in Seq(Ids) /\ cursor' \in Nat \ {0} /\ tab' \in Tabs /\ ItemsAreRows'
  BY DEF Rests, ListView, Shown, ItemsAreRows
<1>2. Types'
  BY <1>1 DEF Rests, TypeOK, Tabs, Pickers, Dialogs
<1>3. \A e \in Downloads : Aloof(e)
  BY DEF Rests, Aloof, RowsStay, SameEvents, Due
<1>4. \A e \in Downloads : ListFine(e)'
  BY <1>3, AloofFine
<1> QED BY <1>1, <1>2, <1>3, <1>4 DEF Rests, Distinct

LEMMA ServiceIsAbout ==
  ASSUME ListInv, NEW d \in Downloads, ServiceAbout(d), lost \subseteq lost'
  PROVE  StepAbout(d)
<1> USE DEF ListInv, Types
<1>1. /\ rows' = rows /\ items' = items /\ cursor' = cursor /\ tab' = tab /\ pinned' = pinned
      /\ dialog' = dialog /\ origin' = origin /\ asked' = asked /\ awaiting' = awaiting
  BY DEF ServiceAbout, InterfaceKeeps, list, dialogs
<1>2. RowsAbout(d) /\ ListView /\ pinned' \in BOOLEAN /\ DialogsAbout(d)
  BY <1>1 DEF RowsAbout, RowsStay, ListView, DialogsAbout, TypeOK, Rows, Tabs, Pickers, Dialogs,
              Asking, Distinct
<1> QED BY <1>2 DEF StepAbout, ServiceAbout

(* Ids that belong to different downloads, or are of different kinds.      *)
LEMMA IdFacts ==
  ASSUME NEW d \in Downloads
  PROVE  /\ Temp(d) \in Ids /\ Real(d) \in Ids /\ Temp(d) # Real(d) /\ Temp(d)[2] = d /\ Real(d)[2] = d
         /\ \A e : e # d => /\ Temp(e) # Temp(d) /\ Real(e) # Real(d)
                            /\ Temp(e) # Real(d) /\ Real(e) # Temp(d)
  BY DEF Temp, Real, Ids

LEMMA BecomesAbout ==
  ASSUME NEW d \in Downloads, NEW id \in {Temp(d), Real(d)}, NEW r, Becomes(rows, rows', id, r)
  PROVE  RowsAbout(d) /\ RowIds(rows) \subseteq RowIds(rows')
<1>1. \A e \in Downloads \ {d} : Temp(e) # id /\ Real(e) # id
  BY IdFacts
<1> QED BY <1>1 DEF RowsAbout, RowsStay, Becomes

LEMMA LosesAbout ==
  ASSUME NEW d \in Downloads, NEW id \in {Temp(d), Real(d)}, Loses(rows, rows', id)
  PROVE  RowsAbout(d)
<1>1. \A e \in Downloads \ {d} : Temp(e) # id /\ Real(e) # id
  BY IdFacts
<1> QED BY <1>1 DEF RowsAbout, RowsStay, Loses

LEMMA RenamesAbout ==
  ASSUME NEW d \in Downloads, Renames(rows, rows', Temp(d), Real(d))
  PROVE  RowsAbout(d)
<1>1. \A e \in Downloads \ {d} : \A i \in {Temp(e), Real(e)} : i # Temp(d) /\ i # Real(d)
  BY IdFacts
<1> QED BY <1>1 DEF RowsAbout, RowsStay, Renames

LEMMA SameAbout ==
  ASSUME ListInv, NEW d, rows' = rows
  PROVE  RowsAbout(d)
  BY DEF RowsAbout, RowsStay, ListInv, Types, TypeOK, Rows, Distinct

LEMMA UpdateShows ==
  ASSUME ListInv, NEW rs \in Seq(Rows), NEW forced, UpdateListItems(rs, forced)
  PROVE  rows' = rs /\ Shown(rows') /\ ListView
<1>1. rows' = rs /\ Show(rs, IF forced # None THEN forced ELSE Selected, tab)
  BY DEF UpdateListItems
<1>2. tab \in Tabs /\ cursor \in Nat \ {0}
  BY DEF ListInv, Types, TypeOK, Tabs
<1>3. Shown(rs)
  BY <1>1, <1>2, ShowFacts
<1> QED BY <1>1, <1>3 DEF ListView

-----------------------------------------------------------------------------
(* Workers and calls: they change what the service does with d and tell of *)
(* it, and only once the service has d.                                    *)
Serves(d) ==
  /\ Streams(d)
  /\ svc' = svc \/ \E s \in SvcStates : svc' = [svc EXCEPT ![d] = s]
  /\ svc'[d] = "none" <=> svc[d] = "none"
  /\ svc[d] = "none" => stream' = stream
  /\ Pend(stream', d, {"request"}) <=> Pend(stream, d, {"request"})
  /\ AskedOnce(stream, d) => AskedOnce(stream', d)

LEMMA SendServes ==
  ASSUME ListInv, NEW d \in Downloads, NEW k \in EventKinds \ {"request"}, Sends(k, d),
         svc[d] # "none", svc' = svc \/ \E s \in SvcStates \ {"none"} : svc' = [svc EXCEPT ![d] = s]
  PROVE  Serves(d)
<1> USE DEF ListInv, Types
<1>1. svc \in [Downloads -> SvcStates]
  BY DEF TypeOK, SvcStates
<1>2. svc'[d] # "none"
  BY <1>1
<1>3. /\ Pend(stream', d, {"request"}) <=> Pend(stream, d, {"request"})
      /\ AskedOnce(stream, d) => AskedOnce(stream', d)
  BY Sent
<1>4. Streams(d)
  BY DEF Streams
<1> QED BY <1>2, <1>3, <1>4 DEF Serves

LEMMA SilentServes ==
  ASSUME ListInv, NEW d \in Downloads, stream' = stream,
         svc' = svc \/ (svc[d] # "none" /\ \E s \in SvcStates \ {"none"} : svc' = [svc EXCEPT ![d] = s])
  PROVE  Serves(d)
<1> USE DEF ListInv, Types
<1>1. svc \in [Downloads -> SvcStates]
  BY DEF TypeOK, SvcStates
<1>2. svc'[d] = "none" <=> svc[d] = "none"
  BY <1>1
<1> QED BY <1>2 DEF Serves, Streams

(* How the calls of the service go.                                        *)
Pauses(d, answer) ==
  \/ /\ svc[d] \in {"active", "pausing"} /\ Paused(d) /\ answer = "nil"
     /\ svc' = [svc EXCEPT ![d] = "pausing"] /\ svc'[d] = "pausing" /\ stream' = stream
  \/ svc[d] = "complete" /\ answer = "nil" /\ svc' = svc /\ stream' = stream
  \/ /\ svc[d] \in {"paused", "complete", "error"} \/ ("waiting" \in Slips /\ svc[d] = "queued")
     /\ answer = "nil" /\ svc' = svc /\ Sends("paused", d)
  \/ svc[d] \in {"none", "removed"} /\ answer = "error" /\ svc' = svc /\ stream' = stream
Resumes(d, answer) ==
  \/ /\ svc[d] = "paused" \/ (svc[d] = "error" /\ "revived" \in Slips)
     /\ answer = "nil" /\ Sends("resumed", d)
     /\ svc' = [svc EXCEPT ![d] = "queued"] /\ svc'[d] = "queued"
  \/ /\ svc[d] \in {"pausing", "complete", "none", "removed"}
     /\ answer = "error" /\ svc' = svc /\ stream' = stream
Deletes(d) ==
  \/ svc[d] \in {"none", "removed"} /\ svc' = svc /\ stream' = stream
  \/ /\ svc[d] \notin {"none", "removed"} /\ Known(d) /\ Sends("removed", d)
     /\ svc' = [svc EXCEPT ![d] = "removed"] /\ svc'[d] = "removed"

LEMMA CallsServe ==
  ASSUME ListInv, NEW d \in Downloads
  PROVE  /\ \A answer : PauseOf(d, answer) => Pauses(d, answer) /\ Serves(d)
         /\ \A answer : ResumeOf(d, answer) => Resumes(d, answer) /\ Serves(d)
         /\ DeleteOf(d) => Deletes(d) /\ Serves(d)
<1>1. svc \in [Downloads -> SvcStates]
  BY DEF ListInv, Types, TypeOK, SvcStates
<1> USE DEF ServiceIs, Publish
<1>2. ASSUME NEW answer, PauseOf(d, answer)
      PROVE  Pauses(d, answer)
  BY <1>1, <1>2 DEF PauseOf, Pauses, Sends, EventKinds
<1>3. ASSUME NEW answer, ResumeOf(d, answer)
      PROVE  Resumes(d, answer)
  BY <1>1, <1>3 DEF ResumeOf, Resumes, Sends, EventKinds
<1>4. ASSUME DeleteOf(d)
      PROVE  Deletes(d)
  BY <1>1, <1>4 DEF DeleteOf, Deletes, Sends, EventKinds
<1>5. ASSUME NEW answer, Pauses(d, answer)
      PROVE  Serves(d)
  <2>1. CASE stream' = stream
    BY <2>1, <1>5, SilentServes DEF Pauses, SvcStates
  <2>2. CASE Sends("paused", d) /\ svc' = svc /\ svc[d] # "none"
    BY <2>2, SendServes DEF EventKinds
  <2> QED BY <2>1, <2>2, <1>5 DEF Pauses
<1>6. ASSUME NEW answer, Resumes(d, answer)
      PROVE  Serves(d)
  <2>1. CASE stream' = stream /\ svc' = svc
    BY <2>1, SilentServes
  <2>2. CASE Sends("resumed", d) /\ svc' = [svc EXCEPT ![d] = "queued"] /\ svc[d] # "none"
    BY <2>2, SendServes DEF EventKinds, SvcStates
  <2> QED BY <2>1, <2>2, <1>6 DEF Resumes
<1>7. ASSUME Deletes(d)
      PROVE  Serves(d)
  <2>1. CASE stream' = stream /\ svc' = svc
    BY <2>1, SilentServes
  <2>2. CASE Sends("removed", d) /\ svc' = [svc EXCEPT ![d] = "removed"] /\ svc[d] # "none"
    BY <2>2, SendServes DEF EventKinds, SvcStates
  <2> QED BY <2>1, <2>2, <1>7 DEF Deletes
<1> QED BY <1>2, <1>3, <1>4, <1>5, <1>6, <1>7

(* Workers, and calls of other clients.                                    *)
Does(d, from, to, e) ==
  svc[d] = from /\ svc' = [svc EXCEPT ![d] = to] /\ svc'[d] = to /\ Sends(e, d)
Working(d) ==
  \/ Does(d, "queued", "active", "started") \/ Does(d, "active", "active", "progress")
  \/ Does(d, "active", "complete", "complete") \/ Does(d, "pausing", "complete", "complete")
  \/ Does(d, "active", "error", "error") \/ Does(d, "pausing", "paused", "paused")
ServedOnly ==
  /\ InterfaceKeeps /\ results' = results /\ enq' = enq /\ lost' = lost /\ turns' \in Nat

LEMMA WorkSteps ==
  ASSUME ListInv, NEW d \in Downloads,
         Starts(d) \/ Progresses(d) \/ Completes(d) \/ Fails(d) \/ Stops(d)
  PROVE  Working(d) /\ Serves(d) /\ ServedOnly
<1>1. svc \in [Downloads -> SvcStates] /\ turns \in Nat
  BY DEF ListInv, Types, TypeOK, SvcStates
<1>2. ASSUME NEW from, NEW to, NEW e \in EventKinds, Works(d, from, to, e)
      PROVE  Does(d, from, to, e) /\ ServedOnly
  BY <1>1, <1>2 DEF Works, Does, ServiceIs, Publish, Sends, ServedOnly, counts
<1>3. Working(d) /\ ServedOnly
  <2>1. {"started", "progress", "complete", "error", "paused"} \subseteq EventKinds
    BY DEF EventKinds
  <2> QED BY <1>2, <2>1 DEF Starts, Progresses, Completes, Fails, Stops, Working
<1>4. ASSUME NEW from \in SvcStates \ {"none"}, NEW to \in SvcStates \ {"none"},
             NEW e \in EventKinds \ {"request"}, Does(d, from, to, e)
      PROVE  Serves(d)
  BY <1>4, SendServes DEF Does
<1>5. Serves(d)
  BY <1>3, <1>4 DEF Working, SvcStates, EventKinds
<1> QED BY <1>3, <1>5

LEMMA CallElsewhereStep ==
  ASSUME ListInv, NEW d \in Downloads, CallElsewhere(d)
  PROVE  /\ (\E answer \in {"nil", "error"} : Pauses(d, answer) \/ Resumes(d, answer)) \/ Deletes(d)
         /\ Serves(d) /\ ServedOnly
<1>1. ServedOnly
  BY DEF CallElsewhere, Turn, ServedOnly, ListInv, Types
<1> QED BY <1>1, CallsServe DEF CallElsewhere

LEMMA ServedFine ==
  ASSUME ListInv, NEW d \in Downloads, Serves(d), ServedOnly
  PROVE  ServiceAbout(d) /\ ListFine(d)' /\ lost' = lost
<1> USE DEF ListInv, Types
<1>1. ResultsAbout(d) /\ \A l : Due(l, d)' <=> Due(l, d)
  BY ResultsSame DEF ServedOnly
<1>2. ServiceAbout(d)
  BY <1>1 DEF ServiceAbout, Serves, ServedOnly
<1>3. rows' = rows /\ asked' = asked
  BY <1>2, ServiceFrame
<1>4. ListFine(d)'
  BY <1>1, <1>3 DEF ListFine, Serves, ServedOnly, Has
<1> QED BY <1>2, <1>4 DEF ServedOnly

-----------------------------------------------------------------------------
(* Messages of the service: what they do to the rows of d.                 *)
RowOf(d) == IF Has(Real(d)) THEN Row(Real(d)) ELSE NewDownloadModel(Real(d))
TempStays(d) ==
  (Has(Temp(d))' <=> Has(Temp(d))) /\ (Has(Temp(d)) => Row(Temp(d))' = Row(Temp(d)))
RealStays(d) == (Has(Real(d))' <=> Has(Real(d))) /\ RowOf(d)' = RowOf(d)
Told(k, d) ==
  /\ k \in EventKinds /\ Takes(k, d)
  /\ UNCHANGED <<results, svc, enq, turns, lost, pinned, dialog, origin, asked, awaiting>>

LEMMA RowOfType ==
  ASSUME ListInv, NEW d \in Downloads
  PROVE  RowOf(d) \in Rows /\ RowOf(d).id = Real(d)
         /\ \A id \in {Temp(d), Real(d)} : Has(id) => Row(id) \in Rows /\ Row(id).id = id
<1>1. rows \in Seq(Rows)
  BY DEF ListInv, Types, TypeOK, Rows
<1>2. \A id \in {Temp(d), Real(d)} : Has(id) => Row(id) \in Rows /\ Row(id).id = id
  BY <1>1, FoundType DEF Has, Row
<1>3. NewDownloadModel(Real(d)) \in Rows /\ NewDownloadModel(Real(d)).id = Real(d)
  BY NewRow, IdFacts
<1> QED BY <1>2, <1>3 DEF RowOf

LEMMA PutOrAppend ==
  ASSUME ListInv, NEW r \in Rows, NEW rs,
         (Has(r.id) /\ rs = Put(rows, r)) \/ (~Has(r.id) /\ rs = Append(rows, r))
  PROVE  Becomes(rows, rs, r.id, r) /\ rs \in Seq(Rows)
<1>1. rows \in Seq(Rows) /\ Distinct(rows)
  BY DEF ListInv, Types, TypeOK, Rows
<1>2. Becomes(rows, rs, r.id, r)
  BY <1>1, PutBecomes, AppendBecomes DEF Has
<1> QED BY <1>2 DEF Becomes

LEMMA RealBecomes ==
  ASSUME NEW d \in Downloads, NEW r, Becomes(rows, rows', Real(d), r)
  PROVE  RowsAbout(d) /\ Has(Real(d))' /\ RowOf(d)' = r /\ TempStays(d)
<1>1. RowsAbout(d) /\ Temp(d) # Real(d)
  BY BecomesAbout, IdFacts
<1>2. Has(Real(d))' /\ Row(Real(d))' = r
  BY DEF Becomes, Has, Row
<1>3. TempStays(d)
  BY <1>1 DEF Becomes, Has, Row, TempStays
<1> QED BY <1>1, <1>2, <1>3 DEF RowOf

LEMMA RowsSame ==
  ASSUME ListInv, NEW d \in Downloads, rows' = rows
  PROVE  RowsAbout(d) /\ RealStays(d) /\ TempStays(d)
<1>1. RowsAbout(d)
  BY SameAbout
<1>2. \A id : (Has(id)' <=> Has(id)) /\ Row(id)' = Row(id)
  BY DEF Has, Row
<1> QED BY <1>1, <1>2 DEF RealStays, TempStays, RowOf

LEMMA ReceivedTold ==
  ASSUME NEW k \in EventKinds, NEW d, Receive(Event(k, d)), Keeps
  PROVE  Told(k, d)
  BY DEF Receive, Keeps, Told, Takes, counts, dialogs, service

LEMMA ListSame ==
  ASSUME ListInv, rows' = rows, UNCHANGED list
  PROVE  ListView
  BY DEF list, ListView, ListInv, Types, TypeOK, Tabs

LEMMA QueuedStep ==
  ASSUME ListInv, NEW d \in Downloads, Queued(d)
  PROVE  /\ Told("queued", d) /\ RowsAbout(d) /\ ListView /\ TempStays(d)
         /\ Has(Real(d))' /\ RowOf(d)' = RowOf(d)
<1>1. Told("queued", d)
  BY ReceivedTold DEF Queued, EventKinds
<1>2. CASE Has(Real(d))
  BY <1>1, <1>2, RowsSame, ListSame DEF Queued, RealStays
<1>3. CASE ~Has(Real(d))
  <2> DEFINE r == NewDownloadModel(Real(d))
             rs == Append(rows, r)
  <2>1. r \in Rows /\ r.id = Real(d)
    BY NewRow, IdFacts
  <2>2. Becomes(rows, rs, Real(d), r) /\ rs \in Seq(Rows)
    BY <1>3, <2>1, PutOrAppend
  <2>3. rows' = rs /\ ListView
    BY <1>3, <2>2, UpdateShows DEF Queued
  <2>4. RowsAbout(d) /\ Has(Real(d))' /\ RowOf(d)' = r /\ TempStays(d)
    BY <2>2, <2>3, RealBecomes
  <2> QED BY <1>1, <1>3, <2>3, <2>4 DEF RowOf
<1> QED BY <1>2, <1>3

LEMMA StartedStep ==
  ASSUME ListInv, NEW d \in Downloads, Started(d)
  PROVE  /\ Told("started", d) /\ RowsAbout(d) /\ ListView /\ TempStays(d)
         /\ Has(Real(d))' /\ RowOf(d)'.paused = FALSE /\ RowOf(d)'.pausing = FALSE
         /\ RowOf(d)'.done = RowOf(d).done /\ RowOf(d)'.err = RowOf(d).err
<1> DEFINE r == IF Has(Real(d))
                THEN [Row(Real(d)) EXCEPT !.paused = FALSE, !.pausing = FALSE, !.started = TRUE]
                ELSE [NewDownloadModel(Real(d)) EXCEPT !.started = TRUE]
           rs == IF Has(Real(d)) THEN Put(rows, r) ELSE Append(rows, r)
<1>1. Told("started", d)
  BY ReceivedTold DEF Started, EventKinds
<1>2. /\ r \in Rows /\ r.id = Real(d) /\ r.paused = FALSE /\ r.pausing = FALSE
      /\ r.done = RowOf(d).done /\ r.err = RowOf(d).err
  <2>1. CASE Has(Real(d))
    BY <2>1, RowOfType DEF RowOf, Rows
  <2>2. CASE ~Has(Real(d))
    BY <2>2, IdFacts DEF RowOf, Rows, NewDownloadModel
  <2> QED BY <2>1, <2>2
<1>3. UpdateListItems(rs, Real(d))
  BY DEF Started
<1> HIDE DEF r
<1>4. Becomes(rows, rs, Real(d), r) /\ rs \in Seq(Rows)
  BY <1>2, PutOrAppend
<1>5. rows' = rs /\ ListView
  BY <1>3, <1>4, UpdateShows
<1>6. RowsAbout(d) /\ Has(Real(d))' /\ RowOf(d)' = r /\ TempStays(d)
  BY <1>4, <1>5, RealBecomes
<1> QED BY <1>1, <1>2, <1>5, <1>6

LEMMA ErrorStep ==
  ASSUME ListInv, NEW d \in Downloads, Error(d)
  PROVE  /\ Told("error", d) /\ RowsAbout(d) /\ ListView /\ TempStays(d)
         /\ Has(Real(d))' /\ RowOf(d)'.paused = RowOf(d).paused
         /\ RowOf(d)'.pausing = RowOf(d).pausing
         /\ RowOf(d)'.done = TRUE /\ RowOf(d)'.err = TRUE
<1> DEFINE r == [RowOf(d) EXCEPT !.err = TRUE, !.done = TRUE]
           rs == IF Has(Real(d)) THEN Put(rows, r) ELSE Append(rows, r)
<1>1. Told("error", d)
  BY ReceivedTold DEF Error, EventKinds
<1>2. /\ r \in Rows /\ r.id = Real(d) /\ r.paused = RowOf(d).paused
      /\ r.pausing = RowOf(d).pausing /\ r.done = TRUE /\ r.err = TRUE
  BY RowOfType DEF Rows
<1>3. UpdateListItems(rs, None)
  BY DEF Error, RowOf
<1> HIDE DEF r
<1>4. Becomes(rows, rs, Real(d), r) /\ rs \in Seq(Rows)
  BY <1>2, PutOrAppend
<1>5. rows' = rs /\ ListView
  BY <1>3, <1>4, UpdateShows
<1>6. RowsAbout(d) /\ Has(Real(d))' /\ RowOf(d)' = r /\ TempStays(d)
  BY <1>4, <1>5, RealBecomes
<1> QED BY <1>1, <1>2, <1>5, <1>6

(* Messages that change the row of d, if there is one, to r.               *)
LEMMA ChangeRow ==
  ASSUME ListInv, NEW d \in Downloads, NEW r \in Rows, r.id = Real(d), NEW forced,
         UpdateListItems(IF Has(Real(d)) THEN Put(rows, r) ELSE rows, forced)
  PROVE  /\ RowsAbout(d) /\ ListView /\ TempStays(d)
         /\ Has(Real(d))' <=> Has(Real(d))
         /\ RowOf(d)' = IF Has(Real(d)) THEN r ELSE RowOf(d)
<1>1. CASE Has(Real(d))
  <2>1. Becomes(rows, Put(rows, r), Real(d), r) /\ Put(rows, r) \in Seq(Rows)
    BY <1>1, PutOrAppend
  <2>2. rows' = Put(rows, r) /\ ListView
    BY <1>1, <2>1, UpdateShows
  <2> QED BY <1>1, <2>1, <2>2, RealBecomes
<1>2. CASE ~Has(Real(d))
  <2>1. rows \in Seq(Rows)
    BY DEF ListInv, Types, TypeOK, Rows
  <2>2. rows' = rows /\ ListView
    BY <1>2, <2>1, UpdateShows
  <2> QED BY <1>2, <2>2, RowsSame DEF RealStays
<1> QED BY <1>1, <1>2

LEMMA ProgressStep ==
  ASSUME ListInv, NEW d \in Downloads, Progress(d)
  PROVE  /\ Told("progress", d) /\ RowsAbout(d) /\ ListView /\ TempStays(d)
         /\ Has(Real(d))' <=> Has(Real(d))
         /\ RowOf(d)'.done = RowOf(d).done /\ RowOf(d)'.err = RowOf(d).err
         /\ RowOf(d)'.paused = RowOf(d).paused /\ RowOf(d)'.pausing = RowOf(d).pausing
<1>1. Told("progress", d)
  BY ReceivedTold DEF Progress, EventKinds
<1>2. CASE Has(Real(d)) /\ ~Row(Real(d)).done /\ ~Row(Real(d)).paused
  <2>1. PICK b \in {Row(Real(d)).resuming, FALSE} :
          UpdateListItems(Put(rows, [Row(Real(d)) EXCEPT !.resuming = b]), None)
    BY <1>2 DEF Progress
  <2> DEFINE r == [Row(Real(d)) EXCEPT !.resuming = b]
  <2>2. r \in Rows /\ r.id = Real(d) /\ r.paused = RowOf(d).paused
        /\ r.pausing = RowOf(d).pausing /\ r.done = RowOf(d).done /\ r.err = RowOf(d).err
    BY <1>2, RowOfType DEF Rows, RowOf
  <2>3. UpdateListItems(IF Has(Real(d)) THEN Put(rows, r) ELSE rows, None)
    BY <1>2, <2>1
  <2> HIDE DEF r
  <2> QED BY <1>1, <1>2, <2>2, <2>3, ChangeRow
<1>3. CASE UNCHANGED <<rows, list>>
  BY <1>1, <1>3, RowsSame, ListSame DEF RealStays
<1> QED BY <1>2, <1>3 DEF Progress

LEMMA CompleteStep ==
  ASSUME ListInv, NEW d \in Downloads, Complete(d)
  PROVE  /\ Told("complete", d) /\ RowsAbout(d) /\ ListView /\ TempStays(d)
         /\ Has(Real(d))' <=> Has(Real(d))
         /\ RowOf(d)'.done = (RowOf(d).done \/ Has(Real(d)))
         /\ RowOf(d)'.err = RowOf(d).err
         /\ RowOf(d)'.paused = RowOf(d).paused /\ RowOf(d)'.pausing = RowOf(d).pausing
<1> DEFINE r == [RowOf(d) EXCEPT !.done = TRUE]
<1>1. Told("complete", d)
  BY ReceivedTold DEF Complete, EventKinds
<1>2. r \in Rows /\ r.id = Real(d) /\ r.paused = RowOf(d).paused
      /\ r.pausing = RowOf(d).pausing /\ r.done = TRUE /\ r.err = RowOf(d).err
      /\ RowOf(d).done \in BOOLEAN
  BY RowOfType DEF Rows
<1>3. UpdateListItems(IF Has(Real(d)) THEN Put(rows, r) ELSE rows, None)
  BY DEF Complete, RowOf
<1> HIDE DEF r
<1>4. /\ RowsAbout(d) /\ ListView /\ TempStays(d)
      /\ Has(Real(d))' <=> Has(Real(d))
      /\ RowOf(d)' = IF Has(Real(d)) THEN r ELSE RowOf(d)
  BY <1>2, <1>3, ChangeRow
<1>5. CASE Has(Real(d))
  BY <1>1, <1>2, <1>4, <1>5
<1>6. CASE ~Has(Real(d))
  <2>1. RowOf(d)' = RowOf(d)
    BY <1>4, <1>6
  <2> QED BY <1>1, <1>2, <1>4, <1>6, <2>1
<1> QED BY <1>5, <1>6

LEMMA PausedOrResumedStep ==
  ASSUME ListInv, NEW d \in Downloads, NEW kind \in {"paused", "resumed"},
         PausedOrResumed(d, kind)
  PROVE  /\ Told(kind, d) /\ RowsAbout(d) /\ ListView /\ TempStays(d)
         /\ Has(Real(d))' <=> Has(Real(d))
         /\ RowOf(d)'.done = RowOf(d).done /\ RowOf(d)'.err = RowOf(d).err
         /\ Has(Real(d)) => RowOf(d)'.paused = (kind = "paused") /\ RowOf(d)'.pausing = FALSE
         /\ ~Has(Real(d)) => RowOf(d)' = RowOf(d)
<1> DEFINE r == [RowOf(d) EXCEPT !.paused = (kind = "paused"), !.pausing = FALSE,
                                 !.resuming = (kind = "resumed")]
<1>1. Told(kind, d)
  BY ReceivedTold DEF PausedOrResumed, EventKinds
<1>2. r \in Rows /\ r.id = Real(d) /\ r.paused = (kind = "paused")
      /\ r.pausing = FALSE /\ r.done = RowOf(d).done /\ r.err = RowOf(d).err
  BY RowOfType DEF Rows
<1>3. UpdateListItems(IF Has(Real(d)) THEN Put(rows, r) ELSE rows, None)
  BY DEF PausedOrResumed, RowOf
<1> HIDE DEF r
<1>4. /\ RowsAbout(d) /\ ListView /\ TempStays(d)
      /\ Has(Real(d))' <=> Has(Real(d))
      /\ RowOf(d)' = IF Has(Real(d)) THEN r ELSE RowOf(d)
  BY <1>2, <1>3, ChangeRow
<1>5. CASE Has(Real(d))
  BY <1>1, <1>2, <1>4, <1>5
<1>6. CASE ~Has(Real(d))
  <2>1. RowOf(d)' = RowOf(d)
    BY <1>4, <1>6
  <2> QED BY <1>1, <1>2, <1>4, <1>6, <2>1
<1> QED BY <1>5, <1>6

(* The row with an id of d is gone, and the other row stays.               *)
LEMMA RealLoses ==
  ASSUME NEW d \in Downloads, Loses(rows, rows', Real(d))
  PROVE  RowsAbout(d) /\ ~Has(Real(d))' /\ TempStays(d)
<1>1. RowsAbout(d) /\ Temp(d) # Real(d)
  BY LosesAbout, IdFacts
<1> QED BY <1>1 DEF Loses, Has, Row, TempStays

LEMMA RemovedStep ==
  ASSUME ListInv, NEW d \in Downloads, Removed(d)
  PROVE  /\ Told("removed", d) /\ RowsAbout(d) /\ ListView /\ TempStays(d)
         /\ ~Has(Real(d))'
<1>1. Told("removed", d)
  BY ReceivedTold DEF Removed, EventKinds
<1>2. CASE Has(Real(d))
  <2>1. Loses(rows, RemoveDownloadByID(rows, Real(d)), Real(d))
    BY RemoveLoses DEF ListInv, Types, TypeOK, Rows
  <2>2. RemoveDownloadByID(rows, Real(d)) \in Seq(Rows)
    BY <2>1 DEF Loses
  <2>3. rows' = RemoveDownloadByID(rows, Real(d)) /\ ListView
    BY <1>2, <2>2, UpdateShows DEF Removed
  <2> QED BY <1>1, <2>1, <2>3, RealLoses
<1>3. CASE ~Has(Real(d))
  <2>1. rows' = rows /\ UNCHANGED list
    BY <1>3 DEF Removed
  <2>2. RowsAbout(d) /\ RealStays(d) /\ TempStays(d)
    BY <2>1, RowsSame
  <2> QED BY <1>1, <1>3, <2>1, <2>2, ListSame DEF RealStays
<1> QED BY <1>2, <1>3

(* The message of d that is not a request leaves ListInv as it is.         *)
LEMMA ToldFine ==
  ASSUME ListInv, NEW d \in Downloads, NEW k \in EventKinds \ {"request"}, Told(k, d),
         RowsAbout(d), ListView, TempStays(d)
  PROVE  StepAbout(d) /\ ListFine(d)'
<1> USE DEF ListInv, Types
<1>1. ResultsAbout(d) /\ \A l : Due(l, d)' <=> Due(l, d)
  BY ResultsSame DEF Told
<1>2. DialogsAbout(d) /\ pinned' \in BOOLEAN
  BY DEF DialogsAbout, Told, TypeOK, Pickers, Dialogs, Asking
<1>3. StepAbout(d)
  BY <1>1, <1>2 DEF StepAbout, Told, Streams
<1>4. /\ \A ks : Pend(stream', d, ks) => Pend(stream, d, ks)
      /\ AskedOnce(stream, d) => AskedOnce(stream', d)
      /\ Pend(stream, d, EventKinds \ {"request"})
  BY Taken DEF Told
<1>5. enq[d].at \notin Unsent
  BY <1>4 DEF ListFine
<1>6. ListFine(d)'
  BY <1>1, <1>4, <1>5 DEF ListFine, Told, TempStays, Unsent
<1> QED BY <1>3, <1>6

(* Results of commands.                                                    *)
Answer(k, d) ==
  /\ Due(k, d) /\ results' = results \ {[kind |-> k, d |-> d]}
  /\ UNCHANGED <<stream, svc, enq, turns, lost, pinned, dialog, origin, asked, awaiting>>

LEMMA ResultAnswer ==
  ASSUME NEW k, NEW d, Result([kind |-> k, d |-> d])
  PROVE  Answer(k, d)
  BY DEF Result, Answer, Due, counts, dialogs, service

LEMMA AnswerAbout ==
  ASSUME ListInv, NEW d \in Downloads, NEW k, Answer(k, d), RowsAbout(d), ListView
  PROVE  StepAbout(d) /\ \A l : Due(l, d)' <=> Due(l, d) /\ l # k
<1> USE DEF ListInv, Types
<1>1. ResultsAbout(d) /\ \A l : Due(l, d)' <=> Due(l, d) /\ l # k
  BY ResultsShrink DEF Answer
<1>2. DialogsAbout(d) /\ pinned' \in BOOLEAN
  BY DEF DialogsAbout, Answer, TypeOK, Pickers, Dialogs, Asking
<1> QED BY <1>1, <1>2 DEF StepAbout, Answer, Streams

LEMMA EnqueueSuccessStep ==
  ASSUME ListInv, NEW d \in Downloads, EnqueueSuccess(d)
  PROVE  /\ Answer("enqueueSuccess", d) /\ RowsAbout(d) /\ ListView
         /\ ~Has(Temp(d))' /\ (Has(Real(d))' <=> Has(Real(d)) \/ Has(Temp(d)))
         /\ RowOf(d)' = IF Has(Real(d)) \/ ~Has(Temp(d)) THEN RowOf(d)
                        ELSE [Row(Temp(d)) EXCEPT !.id = Real(d)]
<1> DEFINE rs == IF ~Has(Temp(d)) \/ enq[d].via # "temp" THEN rows
                 ELSE IF Has(Real(d)) THEN RemoveDownloadByID(rows, Temp(d))
                 ELSE Renamed(rows, Temp(d), Real(d))
<1>1. Answer("enqueueSuccess", d)
  BY ResultAnswer DEF EnqueueSuccess
<1>2. rows \in Seq(Rows) /\ Distinct(rows)
  BY DEF ListInv, Types, TypeOK, Rows
<1>3. \E forced : UpdateListItems(rs, forced)
  BY DEF EnqueueSuccess, Renamed
<1>4. Has(Temp(d)) => enq[d].via = "temp"
  BY DEF ListInv, ListFine
<1>5. Temp(d) \in Ids /\ Real(d) \in Ids /\ Temp(d) # Real(d)
  BY IdFacts
<1>6. CASE ~Has(Temp(d))
  <2>1. rows' = rows /\ ListView
    BY <1>2, <1>3, <1>6, UpdateShows
  <2> QED BY <1>1, <1>6, <2>1, RowsSame DEF RealStays, TempStays
<1>7. CASE Has(Temp(d)) /\ Has(Real(d))
  <2>1. Loses(rows, rs, Temp(d)) /\ rs \in Seq(Rows)
    BY <1>2, <1>4, <1>7, RemoveLoses DEF Loses
  <2>2. rows' = rs /\ ListView
    BY <1>3, <2>1, UpdateShows
  <2>3. Loses(rows, rows', Temp(d))
    BY <2>1, <2>2
  <2>4. RowsAbout(d)
    BY <2>3, LosesAbout
  <2>5. ~Has(Temp(d))' /\ Has(Real(d))' /\ Row(Real(d))' = Row(Real(d))
    BY <2>3, <1>5, <1>7 DEF Loses, Has, Row
  <2> QED BY <1>1, <1>7, <2>2, <2>4, <2>5 DEF RowOf
<1>8. CASE Has(Temp(d)) /\ ~Has(Real(d))
  <2>1. Renames(rows, rs, Temp(d), Real(d)) /\ rs \in Seq(Rows)
    BY <1>2, <1>4, <1>5, <1>8, RenamedRenames DEF Renames, Has
  <2>2. rows' = rs /\ ListView
    BY <1>3, <2>1, UpdateShows
  <2>3. Renames(rows, rows', Temp(d), Real(d))
    BY <2>1, <2>2
  <2>4. RowsAbout(d)
    BY <2>3, RenamesAbout
  <2>5. ~Has(Temp(d))' /\ Has(Real(d))' /\ Row(Real(d))' = [Row(Temp(d)) EXCEPT !.id = Real(d)]
    BY <2>3, <1>5 DEF Renames, Has, Row
  <2> QED BY <1>1, <1>8, <2>2, <2>4, <2>5 DEF RowOf
<1> QED BY <1>6, <1>7, <1>8

LEMMA EnqueueErrorStep ==
  ASSUME ListInv, NEW d \in Downloads, EnqueueError(d)
  PROVE  /\ Answer("enqueueError", d) /\ RowsAbout(d) /\ ListView
         /\ \/ /\ enq[d].via = "temp" /\ RealStays(d)
               /\ Has(Temp(d))' /\ Row(Temp(d))'.done = TRUE /\ Row(Temp(d))'.err = TRUE
            \/ /\ enq[d].via = "real" /\ TempStays(d)
               /\ Has(Real(d))' /\ Row(Real(d))'.done = TRUE /\ Row(Real(d))'.err = TRUE
<1> DEFINE id == IF enq[d].via = "temp" THEN Temp(d) ELSE Real(d)
           failed(q) == [q EXCEPT !.err = TRUE, !.done = TRUE, !.paused = FALSE,
                                  !.pausing = FALSE, !.resuming = FALSE]
           old == IF Has(id) THEN Row(id) ELSE NewDownloadModel(id)
           r == failed(old)
           rs == IF Has(id) THEN Put(rows, r) ELSE Append(rows, r)
<1>1. Answer("enqueueError", d)
  BY ResultAnswer DEF EnqueueError
<1>2. Due("enqueueError", d) /\ enq[d].via \in {"temp", "real"}
  BY <1>1 DEF Answer, ListInv, ListFine, Types
<1>3. Temp(d) \in Ids /\ Real(d) \in Ids /\ Temp(d) # Real(d)
  BY IdFacts
<1>4. id \in {Temp(d), Real(d)} /\ id \in Ids
  BY <1>3
<1>5. UpdateListItems(rs, None)
  <2>1. CASE enq[d].via = "temp"
    BY <2>1 DEF EnqueueError
  <2>2. CASE enq[d].via # "temp"
    BY <2>2 DEF EnqueueError
  <2> QED BY <2>1, <2>2
<1> HIDE DEF id
<1>6. old \in Rows /\ old.id = id
  BY <1>4, NewRow, RowOfType
<1>7. r \in Rows /\ r.id = id /\ r.done = TRUE /\ r.err = TRUE
  BY <1>6 DEF Rows
<1> HIDE DEF r
<1>8. Becomes(rows, rs, id, r) /\ rs \in Seq(Rows)
  BY <1>7, PutOrAppend
<1>9. rows' = rs /\ ListView
  BY <1>5, <1>8, UpdateShows
<1>10. Becomes(rows, rows', id, r)
  BY <1>8, <1>9
<1>11. RowsAbout(d)
  BY <1>4, <1>10, BecomesAbout
<1>12. id \in RowIds(rows') /\ FindDownloadByID(rows', id) = r
  BY <1>10 DEF Becomes
<1>13. CASE enq[d].via = "temp"
  <2>1. id = Temp(d)
    BY <1>13 DEF id
  <2>2. (Has(Real(d))' <=> Has(Real(d))) /\ (Has(Real(d)) => Row(Real(d))' = Row(Real(d)))
    BY <2>1, <1>3, <1>10 DEF Becomes, Has, Row
  <2>3. RealStays(d)
    BY <2>2 DEF RealStays, RowOf
  <2> QED BY <1>1, <1>7, <1>9, <1>11, <1>12, <1>13, <2>1, <2>3 DEF Has, Row
<1>14. CASE enq[d].via = "real"
  <2>1. id = Real(d)
    BY <1>14 DEF id
  <2>2. TempStays(d)
    BY <2>1, <1>10, RealBecomes
  <2> QED BY <1>1, <1>7, <1>9, <1>11, <1>12, <1>14, <2>1, <2>2 DEF Has, Row
<1> QED BY <1>2, <1>13, <1>14

LEMMA ResumeResultStep ==
  ASSUME ListInv, NEW d \in Downloads, ResumeResult(d)
  PROVE  /\ Answer("resumeResult", d) /\ RowsAbout(d) /\ ListView /\ TempStays(d)
         /\ Has(Real(d))' <=> Has(Real(d))
         /\ RowOf(d)'.paused = FALSE /\ RowOf(d)'.pausing = FALSE
         /\ RowOf(d)'.done = RowOf(d).done /\ RowOf(d)'.err = RowOf(d).err
<1>1. Answer("resumeResult", d)
  BY ResultAnswer DEF ResumeResult
<1>2. /\ items' = items /\ items \in Seq(Ids) /\ cursor' = cursor /\ tab' = tab
      /\ cursor \in Nat \ {0} /\ tab \in Tabs
  BY DEF ResumeResult, list, ListInv, Types, TypeOK, Tabs
<1>3. CASE Has(Real(d))
  <2> DEFINE r == [Row(Real(d)) EXCEPT !.paused = FALSE, !.pausing = FALSE, !.resuming = TRUE]
  <2>1. r \in Rows /\ r.id = Real(d) /\ r.paused = FALSE /\ r.pausing = FALSE
        /\ r.done = RowOf(d).done /\ r.err = RowOf(d).err
    BY <1>3, RowOfType DEF RowOf, Rows
  <2>2. rows' = Put(rows, r)
    BY <1>3 DEF ResumeResult
  <2> HIDE DEF r
  <2>3. Becomes(rows, rows', Real(d), r)
    BY <2>1, <2>2, <1>3, PutOrAppend
  <2>4. RowsAbout(d) /\ RowIds(rows) \subseteq RowIds(rows')
    BY <2>3, BecomesAbout
  <2>5. Has(Real(d))' /\ RowOf(d)' = r /\ TempStays(d)
    BY <2>3, RealBecomes
  <2> QED BY <1>1, <1>2, <1>3, <2>1, <2>4, <2>5 DEF ListView
<1>4. CASE ~Has(Real(d))
  <2>1. rows' = rows /\ UNCHANGED list
    BY <1>4 DEF ResumeResult
  <2>2. RowsAbout(d) /\ RealStays(d) /\ TempStays(d) /\ ListView
    BY <2>1, RowsSame, ListSame
  <2>3. /\ RowOf(d)' = RowOf(d) /\ RowOf(d).paused = FALSE /\ RowOf(d).pausing = FALSE
        /\ Has(Real(d))' <=> Has(Real(d))
    BY <1>4, <2>2 DEF RealStays, RowOf, NewDownloadModel
  <2> QED BY <1>1, <2>2, <2>3
<1> QED BY <1>3, <1>4

LEMMA AnswersFine ==
  ASSUME ListInv, NEW d \in Downloads, EnqueueSuccess(d) \/ EnqueueError(d) \/ ResumeResult(d)
  PROVE  StepAbout(d) /\ ListFine(d)'
<1> USE DEF ListInv
<1>1. CASE EnqueueSuccess(d)
  <2>1. StepAbout(d) /\ \A l : Due(l, d)' <=> Due(l, d) /\ l # "enqueueSuccess"
    BY <1>1, EnqueueSuccessStep, AnswerAbout
  <2>2. Answer("enqueueSuccess", d) /\ ~Has(Temp(d))'
    BY <1>1, EnqueueSuccessStep
  <2>3. ListFine(d)'
    BY <2>1, <2>2 DEF ListFine, Answer, Unsent, Unasked
  <2> QED BY <2>1, <2>3
<1>2. CASE EnqueueError(d)
  <2>1. StepAbout(d) /\ \A l : Due(l, d)' <=> Due(l, d) /\ l # "enqueueError"
    BY <1>2, EnqueueErrorStep, AnswerAbout
  <2>2. Answer("enqueueError", d)
    BY <1>2, EnqueueErrorStep
  <2>3. /\ Has(Temp(d))' => enq[d].via = "temp"
        /\ Has(Real(d))' => enq[d].via = "real" \/ Has(Real(d))
    BY <1>2, EnqueueErrorStep DEF RealStays, TempStays, ListFine
  <2>4. ListFine(d)'
    BY <2>1, <2>2, <2>3 DEF ListFine, Answer, Unsent, Unasked
  <2> QED BY <2>1, <2>4
<1>3. CASE ResumeResult(d)
  <2>1. StepAbout(d) /\ \A l : Due(l, d)' <=> Due(l, d) /\ l # "resumeResult"
    BY <1>3, ResumeResultStep, AnswerAbout
  <2>2. /\ Answer("resumeResult", d)
        /\ (Has(Temp(d))' <=> Has(Temp(d))) /\ (Has(Real(d))' <=> Has(Real(d)))
    BY <1>3, ResumeResultStep DEF TempStays
  <2>3. ListFine(d)'
    BY <2>1, <2>2 DEF ListFine, Answer, Unsent, Unasked
  <2> QED BY <2>1, <2>3
<1> QED BY <1>1, <1>2, <1>3

-----------------------------------------------------------------------------
(* A picker takes a message.                                               *)
LEMMA SwallowStep ==
  ASSUME ListInv, Swallow
  PROVE  \E d \in Downloads : lost' = lost \cup {d} /\ StepAbout(d) /\ ListFine(d)'
<1> USE DEF ListInv, Types
<1>1. /\ InterfaceKeeps /\ svc' = svc /\ enq' = enq /\ turns' \in Nat
  BY DEF Swallow, Turn, service
<1>2. /\ rows' = rows /\ items' = items /\ cursor' = cursor /\ tab' = tab /\ pinned' = pinned
      /\ dialog' = dialog /\ origin' = origin /\ asked' = asked /\ awaiting' = awaiting
  BY <1>1 DEF InterfaceKeeps, list, dialogs
<1>3. \A id : Has(id)' <=> Has(id)
  BY <1>2 DEF Has
<1>4. CASE /\ stream # <<>> /\ stream' = Tail(stream) /\ UNCHANGED results
           /\ lost' = lost \cup {Head(stream).d}
  <2>1. Head(stream) \in Events
    BY <1>4, TailEntries, SeqTypes
  <2>2. PICK d \in Downloads, k \in EventKinds : Head(stream) = Event(k, d) /\ d = Head(stream).d
    BY <2>1 DEF Events, Event
  <2>3. Takes(k, d)
    BY <1>4, <2>2 DEF Takes
  <2>4. ResultsAbout(d) /\ \A l : Due(l, d)' <=> Due(l, d)
    BY <1>4, ResultsSame
  <2>5. lost' = lost \cup {d}
    BY <1>4, <2>2
  <2>6. ServiceAbout(d)
    BY <1>1, <2>2, <2>3, <2>4, <2>5 DEF ServiceAbout, Streams
  <2>7. StepAbout(d)
    BY <2>2, <2>5, <2>6, ServiceIsAbout
  <2>8. /\ \A ks : Pend(stream', d, ks) => Pend(stream, d, ks)
        /\ AskedOnce(stream, d) => AskedOnce(stream', d)
    BY <2>3, Taken
  <2>9. ListFine(d)'
    BY <1>1, <1>2, <1>3, <2>2, <2>4, <2>8 DEF ListFine
  <2> QED BY <2>2, <2>5, <2>7, <2>9
<1>5. ASSUME NEW r \in results, results' = results \ {r}, UNCHANGED stream,
             lost' = lost \cup {r.d}
      PROVE  \E d \in Downloads : lost' = lost \cup {d} /\ StepAbout(d) /\ ListFine(d)'
  <2>1. PICK d \in Downloads, k \in ResultKinds : r = [kind |-> k, d |-> d] /\ d = r.d
    OBVIOUS
  <2>2. ResultsAbout(d) /\ \A l : Due(l, d)' <=> Due(l, d) /\ l # k
    BY <2>1, <1>5, ResultsShrink
  <2>3. lost' = lost \cup {d}
    BY <1>5, <2>1
  <2>4. ServiceAbout(d)
    BY <1>1, <1>5, <2>1, <2>2, <2>3 DEF ServiceAbout, Streams
  <2>5. StepAbout(d)
    BY <2>1, <2>3, <2>4, ServiceIsAbout
  <2>6. ListFine(d)'
    BY <1>1, <1>2, <1>3, <1>5, <2>1, <2>2 DEF ListFine
  <2> QED BY <2>1, <2>3, <2>5, <2>6
<1> QED BY <1>4, <1>5 DEF Swallow

-----------------------------------------------------------------------------
(* Starts.                                                                 *)
Begun(d, via) ==
  /\ enq'[d].at = "called" /\ enq'[d].via = via
  /\ Has(Temp(d))' <=> via = "temp"
  /\ Has(Real(d))' <=> via = "real"
  /\ RowOf(d)' = NewDownloadModel(Real(d))
  /\ via = "temp" => Row(Temp(d))' = NewDownloadModel(Temp(d))
Begins(d, via) ==
  /\ Begun(d, via) /\ svc' = svc
  /\ \E p \in EnqStates : enq' = [enq EXCEPT ![d] = p]
  /\ RowsAbout(d) /\ ListView

LEMMA StartBegins ==
  ASSUME ListInv, NEW d \in Downloads, NEW via \in {"temp", "real"}, enq[d].at \in Unasked,
         StartDownload(d, via)
  PROVE  Begins(d, via)
<1> USE DEF ListInv, Types
<1> DEFINE id == IF via = "temp" THEN Temp(d) ELSE Real(d)
           r == NewDownloadModel(id)
<1>1. ~Has(Temp(d)) /\ ~Has(Real(d)) /\ Temp(d) # Real(d)
  BY IdFacts DEF ListFine
<1>2. id \in Ids /\ r \in Rows /\ r.id = id /\ ~Has(id) /\ id \in {Temp(d), Real(d)}
  BY <1>1, IdFacts, NewRow
<1>3. /\ rows' = Append(rows, r) /\ Show(Append(rows, r), id, IF pinned THEN tab ELSE "queued")
      /\ enq' = [enq EXCEPT ![d] = [at |-> "called", via |-> via]] /\ svc' = svc
  BY DEF StartDownload
<1> HIDE DEF id, r
<1>4. Becomes(rows, rows', id, r) /\ Append(rows, r) \in Seq(Rows)
  BY <1>2, <1>3, PutOrAppend
<1>5. RowsAbout(d)
  BY <1>2, <1>4, BecomesAbout
<1>6. ListView
  <2>1. (IF pinned THEN tab ELSE "queued") \in Tabs /\ cursor \in Nat \ {0}
    BY DEF TypeOK, Tabs
  <2>2. Shown(Append(rows, r))
    BY <2>1, <1>3, <1>4, ShowFacts
  <2> QED BY <2>2, <1>3 DEF ListView
<1>7. /\ enq'[d].at = "called" /\ enq'[d].via = via
      /\ \E p \in EnqStates : enq' = [enq EXCEPT ![d] = p]
  <2>1. [at |-> "called", via |-> via] \in EnqStates /\ enq \in [Downloads -> EnqStates]
    BY DEF EnqStates, Places
  <2> QED BY <2>1, <1>3
<1>8. id \in RowIds(rows') /\ FindDownloadByID(rows', id) = r /\ RowIds(rows') = RowIds(rows) \cup {id}
  BY <1>4 DEF Becomes
<1>9. CASE via = "temp"
  <2>1. id = Temp(d) /\ r = NewDownloadModel(Temp(d))
    BY <1>9 DEF id, r
  <2> QED BY <2>1, <1>1, <1>3, <1>5, <1>6, <1>7, <1>8, <1>9 DEF Begins, Begun, Has, Row, RowOf
<1>10. CASE via = "real"
  <2>1. id = Real(d) /\ r = NewDownloadModel(Real(d))
    BY <1>10 DEF id, r
  <2> QED BY <2>1, <1>1, <1>3, <1>5, <1>6, <1>7, <1>8, <1>10 DEF Begins, Begun, Has, Row, RowOf
<1> QED BY <1>9, <1>10

LEMMA BeginsFine ==
  ASSUME ListInv, NEW d \in Downloads, NEW via \in {"temp", "real"}, enq[d].at \in Unasked,
         Begins(d, via), stream' = stream \/ Takes("request", d),
         ~Pend(stream', d, {"request"}), results' = results, asked' # d, DialogsAbout(d),
         pinned' = pinned, UNCHANGED counts
  PROVE  StepAbout(d) /\ ListFine(d)'
<1> USE DEF ListInv, Types
<1>1. ResultsAbout(d) /\ \A l : Due(l, d)' <=> Due(l, d)
  BY ResultsSame
<1>2. StepAbout(d)
  BY <1>1 DEF StepAbout, Begins, Streams, EventKinds, counts, TypeOK
<1>3. /\ \A ks : Pend(stream', d, ks) => Pend(stream, d, ks)
      /\ AskedOnce(stream, d) => AskedOnce(stream', d)
  BY Taken
<1>4. ListFine(d)'
  BY <1>1, <1>3 DEF ListFine, Begins, Begun, Unsent, Unasked
<1> QED BY <1>2, <1>4

(* The user is asked, and answers.                                         *)
LEMMA AskFine ==
  ASSUME ListInv, NEW d \in Downloads, NEW about \in {"duplicate", "confirm"}, Ask(d, about),
         enq[d].at \in Unasked, enq'[d].at = "requested", enq'[d].via = enq[d].via,
         enq' = enq \/ \E p \in EnqStates : enq' = [enq EXCEPT ![d] = p],
         stream' = stream \/ Takes("request", d),
         ~Pend(stream', d, {"request"}), results' = results,
         pinned' = pinned, UNCHANGED counts
  PROVE  StepAbout(d) /\ ListFine(d)' /\ rows' = rows /\ svc' = svc
<1> USE DEF ListInv, Types
<1>1. ResultsAbout(d) /\ \A l : Due(l, d)' <=> Due(l, d)
  BY ResultsSame
<1>2. rows' = rows /\ svc' = svc /\ asked' = d /\ UNCHANGED list
  BY DEF Ask
<1>3. RowsAbout(d) /\ ListView
  BY <1>2, SameAbout, ListSame
<1>4. DialogsAbout(d)
  <2>1. d # "none"
    BY DashboardAssumption
  <2> QED BY <2>1 DEF Ask, DialogsAbout, Dialogs, TypeOK, Asking
<1>5. StepAbout(d)
  BY <1>1, <1>2, <1>3, <1>4 DEF StepAbout, Streams, EventKinds, counts, TypeOK
<1>6. /\ \A ks : Pend(stream', d, ks) => Pend(stream, d, ks)
      /\ AskedOnce(stream, d) => AskedOnce(stream', d)
  BY Taken
<1>7. ListFine(d)'
  BY <1>1, <1>2, <1>6 DEF ListFine, Unsent, Unasked, Has
<1> QED BY <1>2, <1>5, <1>7

(* What may become of a request: it is asked about, started, or declined.  *)
Decides(d) ==
  /\ d \notin lost' \/ lost' = lost
  /\ enq[d].at \in Unasked /\ svc' = svc /\ results' = results
  /\ \/ \E via \in {"temp", "real"} : Begins(d, via)
     \/ rows' = rows /\ enq'[d].at \in Unasked

LEMMA RequestStep ==
  ASSUME ListInv, NEW d \in Downloads, Request(d)
  PROVE  StepAbout(d) /\ ListFine(d)' /\ Decides(d)
<1> USE DEF ListInv, Types
<1>1. /\ Takes("request", d) /\ results' = results /\ UNCHANGED counts /\ pinned' = pinned
  BY DEF Request, Receive, Takes
<1>2. /\ Pend(stream, d, {"request"}) /\ ~Pend(stream', d, {"request"})
  BY <1>1, Taken DEF ListFine
<1>3. enq[d].at = "requested" /\ asked # d
  BY <1>2 DEF ListFine
<1>4. ASSUME NEW about \in {"duplicate", "confirm"}, Ask(d, about), UNCHANGED enq
      PROVE  StepAbout(d) /\ ListFine(d)' /\ Decides(d)
  BY <1>1, <1>2, <1>3, <1>4, AskFine DEF Unasked, Decides, counts
<1>5. ASSUME StartDownload(d, "real"), UNCHANGED dialogs
      PROVE  StepAbout(d) /\ ListFine(d)' /\ Decides(d)
  <2>1. Begins(d, "real")
    BY <1>3, <1>5, StartBegins DEF Unasked
  <2>2. DialogsAbout(d) /\ asked' # d
    BY <1>3, <1>5 DEF dialogs, DialogsAbout, TypeOK, Pickers, Dialogs, Asking
  <2>3. svc' = svc
    BY <2>1 DEF Begins
  <2> QED BY <1>1, <1>2, <1>3, <2>1, <2>2, <2>3, BeginsFine DEF Unasked, Decides, counts
<1> QED BY <1>4, <1>5 DEF Request

LEMMA SubmitInputFormStep ==
  ASSUME ListInv, NEW d \in Downloads, SubmitInputForm(d)
  PROVE  StepAbout(d) /\ ListFine(d)' /\ Decides(d)
<1> USE DEF ListInv, Types
<1>1. /\ stream' = stream /\ results' = results /\ UNCHANGED counts /\ pinned' = pinned
      /\ enq[d].at = "no" /\ dialog = "input"
  BY DEF SubmitInputForm, Quiet
<1>2. ~Pend(stream', d, {"request"}) /\ asked # d /\ enq[d].at \in Unasked
  BY <1>1 DEF ListFine, Unasked
<1>3. CASE Ask(d, "duplicate") /\ EnqAt(d, "requested")
  <2>1. /\ enq'[d].at = "requested" /\ enq'[d].via = enq[d].via
        /\ \E p \in EnqStates : enq' = [enq EXCEPT ![d] = p]
    BY <1>3, EnqMoves DEF EnqStates, Places
  <2> QED BY <1>1, <1>2, <1>3, <2>1, AskFine DEF Decides, counts, Unasked
<1>4. CASE StartDownload(d, "temp") /\ dialog' = "dashboard" /\ UNCHANGED <<origin, asked, awaiting>>
  <2>1. Begins(d, "temp")
    BY <1>2, <1>4, StartBegins
  <2>2. DialogsAbout(d) /\ asked' # d
    BY <1>2, <1>4 DEF DialogsAbout, TypeOK, Pickers, Dialogs, Asking
  <2>3. svc' = svc
    BY <2>1 DEF Begins
  <2> QED BY <1>1, <1>2, <2>1, <2>2, <2>3, BeginsFine DEF Decides, counts
<1> QED BY <1>3, <1>4 DEF SubmitInputForm

(* The answer to what the user is asked about.                             *)
LEMMA AnsweredStep ==
  ASSUME ListInv, NEW d \in Downloads, d = asked, Answered, stream' = stream, results' = results, UNCHANGED counts,
         pinned' = pinned,
         \/ StartDownload(d, "temp") /\ UNCHANGED origin
         \/ /\ EnqAt(d, "declined") /\ UNCHANGED <<rows, items, tab, svc>>
            /\ origin' \in {origin, "none"} /\ cursor' \in {cursor} \cup DOMAIN items
  PROVE  StepAbout(d) /\ ListFine(d)' /\ Decides(d)
<1> USE DEF ListInv, Types
<1>2. asked' = "none" /\ asked' # d /\ dialog' = "dashboard" /\ awaiting' \subseteq Downloads
      /\ origin' \in {origin, "none"}
  BY DashboardAssumption DEF Answered, TypeOK
<1>3. DialogsAbout(d)
  BY <1>2 DEF DialogsAbout, TypeOK, Dialogs, Asking
<1>4. enq[d].at = "requested" /\ ~Pend(stream, d, {"request"}) /\ ~Has(Temp(d)) /\ ~Has(Real(d))
  BY DEF ListFine, Unasked
<1>5. CASE StartDownload(d, "temp")
  <2>1. Begins(d, "temp")
    BY <1>4, <1>5, StartBegins DEF Unasked
  <2>2. svc' = svc
    BY <2>1 DEF Begins
  <2>3. ~Pend(stream', d, {"request"}) /\ enq[d].at \in Unasked
    BY <1>4 DEF Unasked
  <2>4. StepAbout(d) /\ ListFine(d)'
    BY <1>2, <1>3, <2>1, <2>3, BeginsFine
  <2>5. Decides(d)
    BY <2>1, <2>2, <2>3 DEF Decides, counts
  <2> QED BY <2>4, <2>5
<1>6. CASE /\ EnqAt(d, "declined") /\ UNCHANGED <<rows, items, tab, svc>>
           /\ cursor' \in {cursor} \cup DOMAIN items
  <2>1. /\ enq'[d].at = "declined" /\ enq'[d].via = enq[d].via
        /\ \E p \in EnqStates : enq' = [enq EXCEPT ![d] = p]
    BY <1>6, EnqMoves DEF EnqStates, Places
  <2>2. RowsAbout(d) /\ ListView
    <3>1. RowsAbout(d)
      BY <1>6, SameAbout
    <3>2. cursor' \in Nat \ {0}
      BY <1>6, SeqTypes DEF TypeOK
    <3> QED BY <1>6, <3>1, <3>2 DEF ListView, TypeOK, Tabs
  <2>3. ResultsAbout(d) /\ \A l : Due(l, d)' <=> Due(l, d)
    BY ResultsSame
  <2>4. StepAbout(d)
    BY <1>3, <1>6, <2>1, <2>2, <2>3 DEF StepAbout, Streams, counts, TypeOK
  <2>5. rows' = rows /\ svc' = svc /\ stream' = stream
    BY <1>6
  <2>6. ListFine(d)'
    BY <1>2, <1>4, <2>1, <2>3, <2>5 DEF ListFine, Unsent, Unasked, Has
  <2>7. Decides(d)
    BY <1>4, <2>1, <2>5 DEF Decides, counts, Unasked
  <2> QED BY <2>4, <2>6, <2>7
<1> QED BY <1>5, <1>6

-----------------------------------------------------------------------------
(* Dialogs that answer nothing, and keys that move about.                  *)
LEMMA DialogsRest ==
  ASSUME ListInv,
         \/ UpdateExtensionConfirmation /\ dialog' = "duplicate"
            /\ UNCHANGED <<rows, list, origin, asked, awaiting, service>>
         \/ OpenDirectoryPicker \/ UpdateFilePicker \/ OtherDialogs \/ UpdateNotice
  PROVE  Rests
<1> USE DEF ListInv, Types
<1>1. /\ UNCHANGED <<rows, list, asked, awaiting, service>> /\ Quiet
      /\ dialog' \in Dialogs /\ origin' \in {"none", "input", "confirm"}
      /\ Asking' => Asking
  <2> USE DEF TypeOK, Asking, Pickers, Dialogs
  <2>1. CASE UpdateExtensionConfirmation /\ dialog' = "duplicate"
             /\ UNCHANGED <<rows, list, origin, asked, awaiting, service>>
    BY <2>1 DEF UpdateExtensionConfirmation
  <2>2. CASE OpenDirectoryPicker
    BY <2>2 DEF OpenDirectoryPicker, Opens
  <2>3. CASE UpdateFilePicker
    BY <2>3 DEF UpdateFilePicker, Opens
  <2>4. CASE OtherDialogs
    BY <2>4 DEF OtherDialogs, OpenDialog, Opens
  <2>5. CASE UpdateNotice
    BY <2>5 DEF UpdateNotice
  <2> QED BY <2>1, <2>2, <2>3, <2>4, <2>5
<1>2. rows' = rows /\ ListView
  BY <1>1, ListSame
<1> QED BY <1>1, <1>2 DEF Rests, Quiet, counts, service, TypeOK

LEMMA KeysRest ==
  ASSUME ListInv,
         Refresh \/ Move \/ PinTab \/ \E t \in Tabs : SwitchTab(t)
  PROVE  Rests
<1> USE DEF ListInv, Types
<1>1. /\ rows' = rows /\ UNCHANGED <<dialogs, service, stream, results, counts>>
      /\ pinned' \in BOOLEAN
  <2>1. CASE Refresh
    BY <2>1 DEF Refresh, UpdateListItems, Keeps, TypeOK
  <2>2. CASE Move
    BY <2>2 DEF Move, Key, TypeOK
  <2>3. CASE PinTab
    BY <2>3 DEF PinTab, Key, TypeOK
  <2>4. ASSUME NEW t \in Tabs, SwitchTab(t)
        PROVE  /\ rows' = rows /\ UNCHANGED <<dialogs, service, stream, results, counts>>
               /\ pinned' \in BOOLEAN
    BY <2>4 DEF SwitchTab, Key, TypeOK
  <2> QED BY <2>1, <2>2, <2>3, <2>4
<1>2. rows \in Seq(Rows) /\ items \in Seq(Ids) /\ tab \in Tabs /\ cursor \in Nat \ {0}
  BY DEF TypeOK, Rows, Tabs
<1>3. ListView
  <2>1. CASE Refresh
    BY <2>1, <1>2, UpdateShows DEF Refresh
  <2>2. CASE Move
    <3>1. cursor' \in Nat \ {0}
      BY <2>2, <1>2, SeqTypes DEF Move
    <3> QED BY <2>2, <3>1, <1>2 DEF Move, ListView
  <2>3. CASE PinTab
    BY <2>3, ListSame DEF PinTab
  <2>4. ASSUME NEW t \in Tabs, SwitchTab(t)
        PROVE  ListView
    <3>1. items' = Filtered(rows, t) /\ cursor' = 1 /\ tab' = t /\ rows' = rows
      BY <2>4 DEF SwitchTab
    <3>2. Filtered(rows, t) \in Seq(Ids)
          /\ \A n \in DOMAIN Filtered(rows, t) : Filtered(rows, t)[n] \in RowIds(rows)
      <4>1. /\ Filtered(rows, t) \in Seq(Ids)
            /\ \A n \in DOMAIN Filtered(rows, t) :
                 \E i \in DOMAIN rows : rows[i].id = Filtered(rows, t)[n] /\ TabOf(rows[i]) = t
        BY <1>2, FilteredFacts
      <4> QED BY <4>1 DEF RowIds
    <3> QED BY <3>1, <3>2 DEF ListView, Shown
  <2> QED BY <2>1, <2>2, <2>3, <2>4
<1> QED BY <1>1, <1>3 DEF Rests, dialogs, service, counts, TypeOK, Pickers, Dialogs, Asking

(* The user deletes, pauses or resumes what is selected.                   *)
LEMMA DeleteStep ==
  ASSUME ListInv, NEW d \in Downloads, Delete(d)
  PROVE  /\ StepAbout(d) /\ ListFine(d)' /\ results' = results /\ enq' = enq /\ lost' = lost
         /\ \/ /\ Selected = Temp(d) /\ ~Has(Temp(d))' /\ RealStays(d)
               /\ svc' = svc /\ stream' = stream
            \/ /\ Selected = Real(d) /\ ~Has(Real(d))' /\ TempStays(d) /\ Deletes(d)
<1> USE DEF ListInv, Types
<1>1. /\ UNCHANGED <<dialogs, results, pinned, enq, lost>> /\ turns' \in Nat
  BY DEF Delete, Key, Turn
<1>2. PICK id \in {Temp(d), Real(d)} :
        /\ Selected = id
        /\ id = Temp(d) => UNCHANGED <<svc, stream>>
        /\ id = Real(d) => DeleteOf(d)
  BY IdFacts DEF Delete
<1>3. Serves(d) /\ (id = Real(d) => Deletes(d))
  BY <1>2, SilentServes, CallsServe
<1>4. Loses(rows, rows', id) /\ ListView
  <2>1. Loses(rows, RemoveDownloadByID(rows, id), id)
    BY RemoveLoses DEF TypeOK, Rows
  <2>2. RemoveDownloadByID(rows, id) \in Seq(Rows)
    BY <2>1 DEF Loses
  <2>3. UpdateListItems(RemoveDownloadByID(rows, id), None)
    BY <1>2 DEF Delete
  <2> QED BY <2>1, <2>2, <2>3, UpdateShows
<1>5. RowsAbout(d)
  BY <1>4, LosesAbout
<1>6. ResultsAbout(d) /\ \A l : Due(l, d)' <=> Due(l, d)
  BY <1>1, ResultsSame
<1>7. DialogsAbout(d)
  BY <1>1 DEF dialogs, DialogsAbout, TypeOK, Pickers, Dialogs, Asking
<1>8. StepAbout(d)
  BY <1>1, <1>3, <1>4, <1>5, <1>6, <1>7 DEF StepAbout, Serves, TypeOK
<1>9. /\ Has(Temp(d))' => Has(Temp(d))
      /\ Has(Real(d))' => Has(Real(d))
  BY <1>4 DEF Loses, Has
<1>10. ListFine(d)'
  <2>1. asked' = asked
    BY <1>1 DEF dialogs
  <2> QED BY <2>1, <1>1, <1>3, <1>6, <1>9 DEF ListFine, Serves
<1>11. CASE id = Temp(d)
  <2>1. Temp(d) # Real(d)
    BY IdFacts
  <2>2. RealStays(d) /\ ~Has(Temp(d))'
    BY <1>4, <1>11, <2>1 DEF RealStays, RowOf, Loses, Has, Row
  <2> QED BY <1>1, <1>2, <1>8, <1>10, <1>11, <2>2
<1>12. CASE id = Real(d)
  <2>1. TempStays(d) /\ ~Has(Real(d))'
    BY <1>4, <1>12, RealLoses
  <2> QED BY <1>1, <1>2, <1>3, <1>8, <1>10, <1>12, <2>1
<1> QED BY <1>11, <1>12

LEMMA PauseStep ==
  ASSUME ListInv, NEW d \in Downloads, Pause(d)
  PROVE  /\ StepAbout(d) /\ ListFine(d)' /\ results' = results /\ enq' = enq /\ lost' = lost
         /\ TempStays(d) /\ Has(Real(d)) /\ Has(Real(d))' /\ RowOf(d).done = FALSE
         /\ RowOf(d)'.done = RowOf(d).done /\ RowOf(d)'.err = RowOf(d).err
         /\ \/ /\ RowOf(d).paused /\ Resumes(d, "nil")
               /\ RowOf(d)'.paused = FALSE /\ RowOf(d)'.pausing = RowOf(d).pausing
            \/ /\ RowOf(d).paused /\ Resumes(d, "error")
               /\ RowOf(d)'.paused = RowOf(d).paused /\ RowOf(d)'.pausing = RowOf(d).pausing
            \/ /\ ~RowOf(d).paused /\ Pauses(d, "nil")
               /\ RowOf(d)'.paused = RowOf(d).paused /\ RowOf(d)'.pausing = TRUE
            \/ ~RowOf(d).paused /\ Pauses(d, "error") /\ RowOf(d)' = RowOf(d)
<1> USE DEF ListInv, Types
<1> DEFINE r == Row(Real(d))
           Outcome(a, b, c, e) ==
             /\ Serves(d) /\ UpdateListItems(IF Has(Real(d)) THEN Put(rows, e) ELSE rows, None)
             /\ e \in Rows /\ e.id = Real(d) /\ e.done = r.done /\ e.err = r.err
             /\ a /\ e.paused = b /\ e.pausing = c
<1>1. /\ UNCHANGED <<dialogs, results, pinned, enq, lost>> /\ turns' \in Nat
      /\ Has(Real(d)) /\ ~r.done /\ RowOf(d) = r
  BY DEF Pause, Key, Turn, RowOf
<1>2. r \in Rows /\ r.id = Real(d)
  BY <1>1, RowOfType
<1>3. \E e : \/ Outcome(r.paused /\ Resumes(d, "nil"), FALSE, r.pausing, e)
             \/ Outcome(r.paused /\ Resumes(d, "error"), r.paused, r.pausing, e)
             \/ Outcome(~r.paused /\ Pauses(d, "nil"), r.paused, TRUE, e)
             \/ Outcome(~r.paused /\ Pauses(d, "error") /\ e = r, r.paused, r.pausing, e)
  <2>1. CASE r.paused /\ ResumeOf(d, "nil")
             /\ UpdateListItems(Put(rows, [r EXCEPT !.paused = FALSE, !.resuming = TRUE]), None)
    <3> DEFINE e == [r EXCEPT !.paused = FALSE, !.resuming = TRUE]
    <3>1. e \in Rows /\ e.id = r.id /\ e.done = r.done /\ e.err = r.err /\ e.paused = FALSE
          /\ e.pausing = r.pausing
      BY <1>2 DEF Rows
    <3>2. Outcome(r.paused /\ Resumes(d, "nil"), FALSE, r.pausing, e)
      BY <1>1, <1>2, <2>1, <3>1, CallsServe
    <3> QED BY <3>2
  <2>2. CASE r.paused /\ ResumeOf(d, "error")
             /\ UpdateListItems(Put(rows, [r EXCEPT !.resuming = FALSE]), None)
    <3> DEFINE e == [r EXCEPT !.resuming = FALSE]
    <3>1. e \in Rows /\ e.id = r.id /\ e.done = r.done /\ e.err = r.err /\ e.paused = r.paused
          /\ e.pausing = r.pausing
      BY <1>2 DEF Rows
    <3>2. Outcome(r.paused /\ Resumes(d, "error"), r.paused, r.pausing, e)
      BY <1>1, <1>2, <2>2, <3>1, CallsServe
    <3> QED BY <3>2
  <2>3. CASE ~r.paused /\ PauseOf(d, "nil")
             /\ UpdateListItems(Put(rows, [r EXCEPT !.resuming = FALSE, !.pausing = TRUE]), None)
    <3> DEFINE e == [r EXCEPT !.resuming = FALSE, !.pausing = TRUE]
    <3>1. e \in Rows /\ e.id = r.id /\ e.done = r.done /\ e.err = r.err /\ e.paused = r.paused
          /\ e.pausing = TRUE
      BY <1>2 DEF Rows
    <3>2. Outcome(~r.paused /\ Pauses(d, "nil"), r.paused, TRUE, e)
      BY <1>1, <1>2, <2>3, <3>1, CallsServe
    <3> QED BY <3>2
  <2>4. CASE ~r.paused /\ PauseOf(d, "error") /\ UpdateListItems(rows, None)
    <3>1. rows \in Seq(Rows) /\ Distinct(rows)
      BY DEF TypeOK, Rows
    <3>2. Put(rows, r) = rows
      <4>1. \A i \in DOMAIN rows : rows[i].id = r.id => rows[i] = r
        BY <1>1, <1>2, <3>1, OnlyRow DEF Row
      <4>2. [i \in DOMAIN rows |-> IF rows[i].id = r.id THEN r ELSE rows[i]]
              = [i \in DOMAIN rows |-> rows[i]]
        BY <4>1
      <4>3. rows = [i \in DOMAIN rows |-> rows[i]]
        BY <3>1, SeqTypes
      <4> QED BY <4>2, <4>3 DEF Put
    <3>3. Outcome(~r.paused /\ Pauses(d, "error") /\ r = r, r.paused, r.pausing, r)
      BY <1>1, <1>2, <2>4, <3>2, CallsServe
    <3> QED BY <3>3
  <2> QED BY <2>1, <2>2, <2>3, <2>4 DEF Pause
<1>4. PICK e :
             \/ Outcome(r.paused /\ Resumes(d, "nil"), FALSE, r.pausing, e)
             \/ Outcome(r.paused /\ Resumes(d, "error"), r.paused, r.pausing, e)
             \/ Outcome(~r.paused /\ Pauses(d, "nil"), r.paused, TRUE, e)
             \/ Outcome(~r.paused /\ Pauses(d, "error") /\ e = r, r.paused, r.pausing, e)
  BY <1>3
<1>5. /\ Serves(d) /\ UpdateListItems(IF Has(Real(d)) THEN Put(rows, e) ELSE rows, None)
      /\ e \in Rows /\ e.id = Real(d) /\ e.done = r.done /\ e.err = r.err
  BY <1>4
<1>6. /\ RowsAbout(d) /\ ListView /\ TempStays(d) /\ Has(Real(d))' /\ RowOf(d)' = e
  BY <1>1, <1>5, ChangeRow
<1>7. ResultsAbout(d) /\ \A l : Due(l, d)' <=> Due(l, d)
  BY <1>1, ResultsSame
<1>8. DialogsAbout(d)
  BY <1>1 DEF dialogs, DialogsAbout, TypeOK, Pickers, Dialogs, Asking
<1>9. StepAbout(d)
  BY <1>1, <1>5, <1>6, <1>7, <1>8 DEF StepAbout, Serves, TypeOK
<1>10. ListFine(d)'
  <2>1. asked' = asked /\ (Has(Temp(d))' <=> Has(Temp(d))) /\ (Has(Real(d))' <=> Has(Real(d)))
    BY <1>1, <1>6 DEF dialogs, TempStays
  <2> QED BY <2>1, <1>1, <1>5, <1>7 DEF ListFine, Serves
<1>11. \/ r.paused /\ Resumes(d, "nil") /\ e.paused = FALSE /\ e.pausing = r.pausing
       \/ r.paused /\ Resumes(d, "error") /\ e.paused = r.paused /\ e.pausing = r.pausing
       \/ ~r.paused /\ Pauses(d, "nil") /\ e.paused = r.paused /\ e.pausing = TRUE
       \/ ~r.paused /\ Pauses(d, "error") /\ e = r
  BY <1>4
<1> HIDE DEF Outcome
<1>12. r.done = FALSE
  BY <1>1, <1>2 DEF Rows
<1> QED BY <1>1, <1>5, <1>6, <1>9, <1>10, <1>11, <1>12

(* A batch.                                                                *)
LEMMA BatchStep ==
  ASSUME ListInv, NEW ds \in SUBSET Downloads, UpdateBatchConfirm(ds)
  PROVE  /\ ListInv' /\ lost' = lost /\ svc' = svc
         /\ \A e \in Downloads \ ds : Aloof(e)
         /\ \A d \in ds : Begun(d, "temp") /\ enq[d].at \in Unasked /\ results' = results
<1> USE DEF ListInv, Types
<1> DEFINE rs == Batch(rows, ds)
<1>1. /\ dialog = "batchconfirm" /\ ds # {} /\ \A d \in ds : enq[d].at = "no"
      /\ dialog' = "dashboard" /\ UNCHANGED <<origin, asked, awaiting, svc>>
      /\ rows' = rs /\ Show(rs, Last(rs).id, IF pinned THEN tab ELSE "queued")
      /\ enq' = [d \in Downloads |-> IF d \in ds THEN [at |-> "called", via |-> "temp"] ELSE enq[d]]
      /\ Quiet
  BY DEF UpdateBatchConfirm, Batch
<1> HIDE DEF rs
<1>2. rows \in Seq(Rows) /\ IsFiniteSet(ds)
  BY DashboardAssumption, FS_Subset DEF TypeOK, Rows
<1>3. \A d \in ds : ~Has(Temp(d)) /\ ~Has(Real(d)) /\ enq[d].at \in Unasked
  BY <1>1 DEF ListFine, Unasked
<1>4. /\ rows' \in Seq(Rows) /\ Distinct(rows')
      /\ RowIds(rows') = RowIds(rows) \cup {Temp(d) : d \in ds}
      /\ \A x \in RowIds(rows) : FindDownloadByID(rows', x) = FindDownloadByID(rows, x)
      /\ \A d \in ds : FindDownloadByID(rows', Temp(d)) = NewDownloadModel(Temp(d))
  BY <1>1, <1>2, <1>3, BatchRows DEF rs, Has
<1>5. Shown(rows')
  <2>1. (IF pinned THEN tab ELSE "queued") \in Tabs /\ cursor \in Nat \ {0}
    BY DEF TypeOK, Tabs
  <2> QED BY <2>1, <1>1, <1>4, ShowFacts
<1>6. /\ enq' \in [Downloads -> EnqStates]
      /\ \A d \in ds : enq'[d].at = "called" /\ enq'[d].via = "temp"
      /\ \A e \in Downloads \ ds : enq'[e] = enq[e]
  BY <1>1 DEF EnqStates, Places
<1>7. /\ stream' = stream /\ results' = results /\ pinned' = pinned /\ turns' = turns
      /\ lost' = lost /\ asked' = asked /\ svc' = svc
  BY <1>1 DEF Quiet, counts
<1>8. Types'
  BY <1>1, <1>4, <1>5, <1>6, <1>7 DEF TypeOK, Rows, Shown, Tabs, Pickers, EnqStates
<1>9. ItemsAreRows' /\ Distinct(rows)' /\ (Asking => asked # "none")'
  BY <1>1, <1>4, <1>5 DEF ItemsAreRows, Shown, Asking
<1>10. ASSUME NEW e \in Downloads \ ds
       PROVE  Aloof(e)
  <2>1. \A d \in ds : Temp(d) # Temp(e) /\ Temp(d) # Real(e)
    BY IdFacts
  <2>2. RowsStay(e)
    BY <1>4, <2>1 DEF RowsStay
  <2> QED BY <2>2, <1>6, <1>7 DEF Aloof, SameEvents, Due
<1>11. ASSUME NEW d \in ds
       PROVE  Begun(d, "temp")
  <2>1. \A e \in ds : Temp(e) # Real(d)
    BY IdFacts
  <2>2. Has(Temp(d))' /\ Row(Temp(d))' = NewDownloadModel(Temp(d))
    BY <1>4 DEF Has, Row
  <2>3. ~Has(Real(d))'
    BY <1>3, <1>4, <2>1 DEF Has
  <2> QED BY <2>2, <2>3, <1>6 DEF Begun, RowOf
<1>12. ASSUME NEW d \in ds
       PROVE  ListFine(d)'
  <2>1. \A l : Due(l, d)' <=> Due(l, d)
    BY <1>7 DEF Due
  <2>2. /\ enq[d].at = "no" /\ svc[d] = "none" /\ asked # d /\ AskedOnce(stream, d)
        /\ ~Pend(stream, d, {"request"}) /\ ~Pend(stream, d, EventKinds \ {"request"})
        /\ \A l \in ResultKinds : ~Due(l, d)
    BY <1>1 DEF ListFine, Unsent, Unasked, ResultKinds
  <2>3. /\ enq'[d].at = "called" /\ enq'[d].via = "temp" /\ ~Has(Real(d))'
    BY <1>11 DEF Begun
  <2> QED BY <2>1, <2>2, <2>3, <1>7 DEF ListFine, Unsent, Unasked, ResultKinds
<1>13. \A e \in Downloads : ListFine(e)'
  BY <1>10, <1>12, AloofFine
<1> QED BY <1>3, <1>7, <1>8, <1>9, <1>10, <1>11, <1>13

-----------------------------------------------------------------------------
(* The initial state.                                                      *)
LEMMA InitRows ==
  ASSUME Init
  PROVE  \E status \in Listed, auto \in BOOLEAN :
           /\ rows \in Seq(Rows) /\ Distinct(rows)
           /\ RowIds(rows) = {Real(d) : d \in Stored}
           /\ \A d \in Stored : FindDownloadByID(rows, Real(d)) = StoredRow(d, status[d], auto)
           /\ svc = [d \in Downloads |->
                      IF d \notin Stored THEN "none"
                      ELSE IF status[d] = "complete" THEN "complete" ELSE "paused"]
           /\ enq = [d \in Downloads |->
                      [at |-> IF d \notin Stored THEN "no"
                              ELSE IF ToResume(status[d], auto) THEN "stored" ELSE "done",
                       via |-> "none"]]
<1>1. PICK status \in Listed, auto \in BOOLEAN :
           /\ rows = LET ds == SetToSeq(Stored)
                     IN  [i \in DOMAIN ds |-> StoredRow(ds[i], status[ds[i]], auto)]
           /\ svc = [d \in Downloads |->
                      IF d \notin Stored THEN "none"
                      ELSE IF status[d] = "complete" THEN "complete" ELSE "paused"]
           /\ enq = [d \in Downloads |->
                      [at |-> IF d \notin Stored THEN "no"
                              ELSE IF ToResume(status[d], auto) THEN "stored" ELSE "done",
                       via |-> "none"]]
  BY DEF Init
<1> DEFINE n == Cardinality(Stored)
           f == SetToSeq(Stored)
           Given(d) == StoredRow(d, status[d], auto)
<1>2. IsFiniteSet(Stored) /\ Stored \subseteq Downloads
  BY DashboardAssumption, FS_Subset
<1>3. /\ n \in Nat /\ DOMAIN f = 1 .. n
      /\ \A i \in 1 .. n : f[i] \in Stored
      /\ \A i, j \in 1 .. n : f[i] = f[j] => i = j
      /\ \A x \in Stored : \E i \in 1 .. n : f[i] = x
  BY <1>2, Listing
<1>4. rows = [i \in 1 .. n |-> Given(f[i])]
  BY <1>1, <1>3
<1> HIDE DEF f, n
<1>5. ASSUME NEW d \in Stored
      PROVE  Given(d) \in Rows /\ Given(d).id = Real(d)
  <2>1. NewDownloadModel(Real(d)) \in Rows /\ NewDownloadModel(Real(d)).id = Real(d)
    BY <1>2, IdFacts, NewRow
  <2>2. ToResume(status[d], auto) \in BOOLEAN
    BY DEF ToResume
  <2> QED BY <2>1, <2>2 DEF StoredRow, Rows
<1> HIDE DEF Given
<1>6. rows \in Seq(Rows)
  <2>1. rows \in [1 .. n -> Rows]
    BY <1>3, <1>4, <1>5
  <2> QED BY <2>1, <1>3
<1>7. DOMAIN rows = 1 .. n /\ \A i \in 1 .. n : rows[i] = Given(f[i]) /\ rows[i].id = Real(f[i])
  BY <1>3, <1>4, <1>5
<1>8. \A a, b : Real(a) = Real(b) => a = b
  BY DEF Real
<1>9. Distinct(rows)
  BY <1>3, <1>7, <1>8 DEF Distinct
<1>10. RowIds(rows) = {Real(d) : d \in Stored}
  BY <1>3, <1>7 DEF RowIds
<1>11. ASSUME NEW d \in Stored
       PROVE  FindDownloadByID(rows, Real(d)) = Given(d)
  <2>1. PICK i \in 1 .. n : f[i] = d
    BY <1>3
  <2>2. FindDownloadByID(rows, rows[i].id) = rows[i]
    BY <1>6, <1>7, <1>9, OnlyRow
  <2> QED BY <2>1, <2>2, <1>7
<1> QED BY <1>1, <1>6, <1>9, <1>10, <1>11 DEF Given

LEMMA InitFine ==
  ASSUME Init
  PROVE  ListInv
<1>1. PICK status \in Listed, auto \in BOOLEAN :
           /\ rows \in Seq(Rows) /\ Distinct(rows)
           /\ RowIds(rows) = {Real(d) : d \in Stored}
           /\ \A d \in Stored : FindDownloadByID(rows, Real(d)) = StoredRow(d, status[d], auto)
           /\ svc = [d \in Downloads |->
                      IF d \notin Stored THEN "none"
                      ELSE IF status[d] = "complete" THEN "complete" ELSE "paused"]
           /\ enq = [d \in Downloads |->
                      [at |-> IF d \notin Stored THEN "no"
                              ELSE IF ToResume(status[d], auto) THEN "stored" ELSE "done",
                       via |-> "none"]]
  BY InitRows
<1>2. /\ items = <<>> /\ cursor = 1 /\ tab = "queued" /\ pinned = FALSE
      /\ dialog = "dashboard" /\ origin = "none" /\ asked = "none" /\ awaiting = {}
      /\ stream = <<>> /\ results = {} /\ turns = 0 /\ lost = {}
  BY DEF Init
<1>3. <<>> \in Seq(Ids) /\ <<>> \in Seq(Events) /\ \A x : x \notin DOMAIN <<>>
  OBVIOUS
<1>4. Types
  <2>1. svc \in [Downloads -> SvcStates]
    BY <1>1 DEF SvcStates
  <2>2. enq \in [Downloads -> EnqStates]
    BY <1>1 DEF EnqStates, Places
  <2>3. TypeOK
    <3>1. rows \in Seq([id : Ids, done : BOOLEAN, err : BOOLEAN, paused : BOOLEAN,
                        pausing : BOOLEAN, resuming : BOOLEAN, started : BOOLEAN])
      BY <1>1 DEF Rows
    <3>2. items \in Seq(Ids) /\ cursor \in Nat \ {0} /\ tab \in {"queued", "active", "done"}
      BY <1>2, <1>3
    <3>3. /\ pinned \in BOOLEAN /\ dialog = "dashboard" /\ origin \in {"none", "input", "confirm"}
          /\ asked \in Downloads \cup {"none"} /\ awaiting \subseteq Downloads
      BY <1>2
    <3> QED BY <2>1, <3>1, <3>2, <3>3 DEF TypeOK, SvcStates
  <2> QED BY <1>2, <1>3, <2>2, <2>3 DEF Types, EnqStates
<1>5. ItemsAreRows /\ ~Asking
  BY <1>2, <1>3 DEF ItemsAreRows, Asking
<1>6. ASSUME NEW d \in Downloads
      PROVE  ListFine(d)
  <2>1. /\ \A ks : ~Pend(stream, d, ks)
        /\ AskedOnce(stream, d) /\ \A l : ~Due(l, d)
    BY <1>2, <1>3 DEF Pend, AskedOnce, Due
  <2>2. asked # d
    BY <1>2, DashboardAssumption
  <2>3. ~Has(Temp(d)) /\ (Has(Real(d)) <=> d \in Stored)
    BY <1>1 DEF Has, Temp, Real
  <2> QED BY <2>1, <2>2, <2>3, <1>1 DEF ListFine, Unsent, Unasked
<1> QED BY <1>1, <1>4, <1>5, <1>6 DEF ListInv

(* Every step keeps what is known of every download.                       *)
LEMMA NextFine ==
  ASSUME ListInv, [Next]_vars
  PROVE  ListInv'
<1>1. ASSUME NEW d \in Downloads, StepAbout(d), ListFine(d)'
      PROVE  ListInv'
  BY <1>1, StepFine
<1>2. ASSUME Rests
      PROVE  ListInv'
  BY <1>2, RestsFine
<1>3. ASSUME TheService
      PROVE  ListInv'
  <2> PICK d \in Downloads :
        \/ EnqueueFails(d) \/ Dispatch(d) \/ PublishQueued(d)
        \/ AddElsewhere(d) \/ RequestElsewhere(d) \/ CallElsewhere(d) \/ ResumeStored(d)
        \/ Starts(d) \/ Progresses(d) \/ Completes(d) \/ Fails(d) \/ Stops(d)
    BY <1>3 DEF TheService
  <2>1. CASE EnqueueFails(d) \/ Dispatch(d) \/ PublishQueued(d) \/ AddElsewhere(d)
             \/ RequestElsewhere(d) \/ ResumeStored(d)
    <3>1. ServiceAbout(d) /\ ListFine(d)'
      BY <2>1, EnqueueSteps
    <3>2. lost' = lost
      BY <2>1 DEF EnqueueFails, Dispatch, PublishQueued, AddElsewhere, RequestElsewhere,
                  ResumeStored, counts
    <3> QED BY <3>1, <3>2, <1>1, ServiceIsAbout
  <2>2. CASE CallElsewhere(d)
    BY <2>2, <1>1, CallElsewhereStep, ServedFine, ServiceIsAbout
  <2>3. CASE Starts(d) \/ Progresses(d) \/ Completes(d) \/ Fails(d) \/ Stops(d)
    BY <2>3, <1>1, WorkSteps, ServedFine, ServiceIsAbout
  <2> QED BY <2>1, <2>2, <2>3
<1>4. ASSUME Message
      PROVE  ListInv'
  <2>1. CASE Refresh
    BY <2>1, <1>2, KeysRest
  <2>2. ASSUME NEW d \in Downloads, NEW k \in EventKinds \ {"request"}, Told(k, d),
               RowsAbout(d), ListView, TempStays(d)
        PROVE  ListInv'
    BY <2>2, <1>1, ToldFine
  <2>3. ASSUME NEW d \in Downloads,
               \/ Progress(d) \/ Complete(d) \/ Error(d) \/ Removed(d)
               \/ \E kind \in {"paused", "resumed"} : PausedOrResumed(d, kind)
               \/ Queued(d) \/ Started(d)
        PROVE  ListInv'
    <3>1. \E k \in EventKinds \ {"request"} :
            Told(k, d) /\ RowsAbout(d) /\ ListView /\ TempStays(d)
      <4>1. {"progress", "complete", "error", "removed", "paused", "resumed", "queued", "started"}
              \subseteq EventKinds \ {"request"}
        BY DEF EventKinds
      <4> QED BY <2>3, <4>1, ProgressStep, CompleteStep, ErrorStep, RemovedStep,
                 PausedOrResumedStep, QueuedStep, StartedStep
    <3> QED BY <3>1, <2>2
  <2>4. ASSUME NEW d \in Downloads, Request(d)
        PROVE  ListInv'
    BY <2>4, <1>1, RequestStep
  <2>5. ASSUME NEW d \in Downloads, EnqueueSuccess(d) \/ EnqueueError(d) \/ ResumeResult(d)
        PROVE  ListInv'
    BY <2>5, <1>1, AnswersFine
  <2> QED BY <1>4, <2>1, <2>3, <2>4, <2>5 DEF Message
<1>5. ASSUME Swallow
      PROVE  ListInv'
  BY <1>5, <1>1, SwallowStep
<1>6. ASSUME Dialog
      PROVE  ListInv'
  <2>1. ASSUME NEW d \in Downloads, SubmitInputForm(d)
        PROVE  ListInv'
    BY <2>1, <1>1, SubmitInputFormStep
  <2>2. ASSUME NEW ds \in SUBSET Downloads, UpdateBatchConfirm(ds)
        PROVE  ListInv'
    BY <2>2, BatchStep
  <2>3. CASE \/ UpdateExtensionConfirmation /\ dialog' = "duplicate"
                /\ UNCHANGED <<rows, list, origin, asked, awaiting, service>>
             \/ OpenDirectoryPicker \/ UpdateFilePicker \/ OtherDialogs \/ UpdateNotice
    BY <2>3, <1>2, DialogsRest
  <2>4. ASSUME Asking, NEW d \in Downloads, d = asked, Answered, Quiet,
           \/ StartDownload(asked, "temp") /\ UNCHANGED origin
           \/ /\ EnqAt(asked, "declined") /\ UNCHANGED <<rows, items, tab, svc>>
              /\ origin' \in {origin, "none"} /\ cursor' \in {cursor} \cup DOMAIN items
        PROVE  ListInv'
    <3>1. StepAbout(d) /\ ListFine(d)'
      BY <2>4, AnsweredStep DEF Quiet
    <3> QED BY <3>1, <1>1
  <2>5. CASE UpdateExtensionConfirmation
    BY <2>3, <2>4, <2>5 DEF UpdateExtensionConfirmation, Asking, ListInv, Types, TypeOK
  <2>6. CASE UpdateDuplicateWarning
    BY <2>4, <2>6 DEF UpdateDuplicateWarning, Asking, ListInv, Types, TypeOK
  <2>7. CASE Decline
    BY <2>4, <2>7 DEF Decline, Asking, ListInv, Types, TypeOK
  <2> QED BY <1>6, <2>1, <2>2, <2>3, <2>5, <2>6, <2>7 DEF Dialog
<1>7. ASSUME DashboardKey
      PROVE  ListInv'
  <2>1. CASE Move \/ PinTab \/ \E t \in Tabs : SwitchTab(t)
    BY <2>1, <1>2, KeysRest
  <2>2. ASSUME NEW d \in Downloads, Delete(d) \/ Pause(d)
        PROVE  ListInv'
    BY <2>2, <1>1, DeleteStep, PauseStep
  <2> QED BY <1>7, <2>1, <2>2 DEF DashboardKey, Tabs
<1>8. ASSUME UNCHANGED vars
      PROVE  ListInv'
  <2>1. Rests
    BY <1>8, ListSame DEF vars, Rests, list, dialogs, service, counts, ListInv, Types, TypeOK,
                          Pickers, Dialogs, Asking
  <2> QED BY <2>1, <1>2
<1> QED BY <1>3, <1>4, <1>5, <1>6, <1>7, <1>8 DEF Next

LEMMA AlwaysFine ==
  Spec => []ListInv
<1>1. Init => ListInv
  BY InitFine
<1>2. ListInv /\ [Next]_vars => ListInv'
  BY NextFine
<1> QED BY <1>1, <1>2, PTL DEF Spec

(* Every variable keeps the shape of the fields of RootModel, whatever     *)
(* messages and keys Update is given, and with every slip (model.go).      *)
THEOREM DashboardTypes ==
  Spec => []TypeOK
<1>1. ListInv => TypeOK
  BY DEF ListInv, Types
<1> QED BY <1>1, AlwaysFine, PTL

-----------------------------------------------------------------------------
(* A request that was put to the user stays in front of him until he has   *)
(* answered it, unless another one or a notice overlaps with it, which the *)
(* code does not rule out.                                                 *)
NoOverlap == "overlap" \notin Slips

LEMMA RequestsStep ==
  ASSUME NoOverlap, RequestsKept, [Next]_vars
  PROVE  RequestsKept'
<1> USE DEF RequestsKept
<1>1. ASSUME UNCHANGED <<dialog, origin, asked, awaiting>>
      PROVE  RequestsKept'
  BY <1>1
<1>2. ASSUME NEW d, NEW about \in {"duplicate", "confirm"}, Ask(d, about), awaiting = {}
      PROVE  RequestsKept'
  BY <1>2 DEF Ask
<1>3. ASSUME Answered
      PROVE  RequestsKept'
  BY <1>3 DEF Answered
<1>4. ASSUME TheService
      PROVE  RequestsKept'
  <2>1. InterfaceKeeps
    BY <1>4 DEF TheService, EnqueueFails, Dispatch, PublishQueued, AddElsewhere, RequestElsewhere,
      CallElsewhere, ResumeStored, Starts, Progresses, Completes, Fails, Stops, Works
  <2> QED BY <2>1, <1>1 DEF InterfaceKeeps, dialogs
<1>5. ASSUME Message
      PROVE  RequestsKept'
  <2>1. ASSUME NEW d \in Downloads, Request(d)
        PROVE  RequestsKept'
    <3>1. awaiting = {}
      BY <2>1 DEF Request, NoOverlap
    <3> QED BY <2>1, <3>1, <1>1, <1>2 DEF Request, dialogs
  <2>2. ASSUME NEW d \in Downloads, EnqueueSuccess(d) \/ EnqueueError(d) \/ ResumeResult(d)
        PROVE  RequestsKept'
    BY <2>2, <1>1 DEF EnqueueSuccess, EnqueueError, ResumeResult, Result, dialogs
  <2>3. ASSUME Keeps
        PROVE  RequestsKept'
    BY <2>3, <1>1 DEF Keeps, dialogs
  <2> QED BY <1>5, <2>1, <2>2, <2>3
          DEF Message, Refresh, Progress, Complete, Error, Removed, PausedOrResumed, Queued, Started
<1>6. ASSUME Swallow
      PROVE  RequestsKept'
  BY <1>6, <1>1 DEF Swallow, InterfaceKeeps, dialogs
<1>7. ASSUME Dialog
      PROVE  RequestsKept'
  <2>1. CASE UpdateExtensionConfirmation
    BY <2>1, <1>3 DEF UpdateExtensionConfirmation
  <2>2. CASE UpdateDuplicateWarning
    BY <2>2, <1>3 DEF UpdateDuplicateWarning
  <2>3. CASE Decline
    BY <2>3, <1>3 DEF Decline
  <2>4. CASE OpenDirectoryPicker
    BY <2>4 DEF OpenDirectoryPicker, Opens
  <2>5. CASE UpdateFilePicker
    BY <2>5 DEF UpdateFilePicker, Opens
  <2>6. CASE OtherDialogs
    BY <2>6 DEF OtherDialogs, OpenDialog, Opens
  <2>7. CASE UpdateNotice
    BY <2>7 DEF UpdateNotice, NoOverlap
  <2>8. ASSUME NEW d \in Downloads, SubmitInputForm(d)
        PROVE  RequestsKept'
    <3>1. dialog = "input" /\ awaiting = {}
      BY <2>8 DEF SubmitInputForm
    <3> QED BY <2>8, <3>1, <1>2 DEF SubmitInputForm
  <2>9. ASSUME NEW ds \in SUBSET Downloads, UpdateBatchConfirm(ds)
        PROVE  RequestsKept'
    BY <2>9 DEF UpdateBatchConfirm
  <2> QED BY <1>7, <2>1, <2>2, <2>3, <2>4, <2>5, <2>6, <2>7, <2>8, <2>9 DEF Dialog
<1>8. ASSUME DashboardKey
      PROVE  RequestsKept'
  BY <1>8, <1>1 DEF DashboardKey, Move, PinTab, SwitchTab, Delete, Pause, Key, dialogs
<1> QED BY <1>1, <1>4, <1>5, <1>6, <1>7, <1>8 DEF Next, vars, dialogs

(* A request that was put to the user stays in front of him, with what it  *)
(* asks about, until he has answered it, if no second request and no       *)
(* update notice comes meanwhile, which take its place (update_modals.go). *)
THEOREM RequestsAreKept ==
  ASSUME NoOverlap
  PROVE  Spec => []RequestsKept
<1>1. Init => RequestsKept
  BY DEF Init, RequestsKept
<1>2. RequestsKept /\ [Next]_vars => RequestsKept'
  BY RequestsStep
<1> QED BY <1>1, <1>2, PTL DEF Spec

-----------------------------------------------------------------------------
(* The selection.                                                          *)
SelectionStays ==
  LET kept == IF Selected \in RowIds(rows') THEN Selected ELSE Real(Selected[2]) IN
  kept \in RowIds(rows') =>
    \/ Selected' = kept
    \/ pinned /\ tab' = tab /\ TabOf(FindDownloadByID(rows', kept)) # tab

LEMMA SelectedRow ==
  ASSUME ListInv, Selected # None
  PROVE  Selected \in RowIds(rows)
  BY DEF ListInv, ItemsAreRows, Selected

(* A refresh that selects the target keeps it in front.                    *)
LEMMA RefreshKeeps ==
  ASSUME ListInv, NEW rs \in Seq(Rows), NEW forced, UpdateListItems(rs, forced),
         NEW target, target = IF forced # None THEN forced ELSE Selected,
         target \in RowIds(rs)
  PROVE  \/ Selected' = target
         \/ pinned /\ tab' = tab /\ TabOf(FindDownloadByID(rows', target)) # tab
<1>1. rows' = rs /\ Show(rs, target, tab)
  BY DEF UpdateListItems
<1>2. tab \in Tabs /\ cursor \in Nat \ {0}
  BY DEF ListInv, Types, TypeOK, Tabs
<1> QED BY <1>1, <1>2, ShowFacts

LEMMA NoRowGoes ==
  ASSUME ListInv, Selected # None, NEW rs \in Seq(Rows), UpdateListItems(rs, None),
         RowIds(rows) \subseteq RowIds(rs)
  PROVE  SelectionStays
<1>1. Selected \in RowIds(rs)
  BY SelectedRow
<1>2. rows' = rs
  BY DEF UpdateListItems
<1>3. PICK target : target = Selected
  OBVIOUS
<1>4. \/ Selected' = target
      \/ pinned /\ tab' = tab /\ TabOf(FindDownloadByID(rows', target)) # tab
  BY <1>1, <1>3, RefreshKeeps
<1> QED BY <1>1, <1>2, <1>3, <1>4 DEF SelectionStays

LEMMA ListRests ==
  ASSUME ListInv, Selected # None, RowIds(rows) \subseteq RowIds(rows'), UNCHANGED list
  PROVE  SelectionStays
  BY SelectedRow DEF SelectionStays, list, Selected

LEMMA PutKeepsSelection ==
  ASSUME ListInv, Selected # None, NEW r \in Rows, Has(r.id), UpdateListItems(Put(rows, r), None)
  PROVE  SelectionStays
<1>1. Becomes(rows, Put(rows, r), r.id, r) /\ Put(rows, r) \in Seq(Rows)
  BY PutOrAppend
<1> QED BY <1>1, NoRowGoes DEF Becomes

LEMMA AppendKeepsSelection ==
  ASSUME ListInv, Selected # None, NEW r \in Rows, ~Has(r.id), UpdateListItems(Append(rows, r), None)
  PROVE  SelectionStays
<1>1. Becomes(rows, Append(rows, r), r.id, r) /\ Append(rows, r) \in Seq(Rows)
  BY PutOrAppend
<1> QED BY <1>1, NoRowGoes DEF Becomes

(* The messages that are not about a new or a starting download.           *)
LEMMA EventsKeepSelection ==
  ASSUME ListInv, Selected # None, NEW d \in Downloads,
         \/ Progress(d) \/ Complete(d) \/ Error(d) \/ Removed(d)
         \/ \E kind \in {"paused", "resumed"} : PausedOrResumed(d, kind)
  PROVE  SelectionStays
<1> DEFINE r == Row(Real(d))
<1>1. rows \in Seq(Rows) /\ Distinct(rows)
  BY DEF ListInv, Types, TypeOK, Rows
<1>2. Has(Real(d)) => r \in Rows /\ r.id = Real(d)
  BY RowOfType
<1>3. NewDownloadModel(Real(d)) \in Rows /\ NewDownloadModel(Real(d)).id = Real(d)
  BY IdFacts, NewRow
<1>4. ASSUME UpdateListItems(rows, None)
      PROVE  SelectionStays
  BY <1>1, <1>4, NoRowGoes
<1>5. ASSUME NEW q \in Rows, q.id = Real(d),
             \/ Has(Real(d)) /\ UpdateListItems(Put(rows, q), None)
             \/ ~Has(Real(d)) /\ UpdateListItems(Append(rows, q), None)
      PROVE  SelectionStays
  BY <1>5, PutKeepsSelection, AppendKeepsSelection
<1>6. CASE UNCHANGED <<rows, list>>
  BY <1>6, ListRests
<1>7. CASE Progress(d)
  <2>1. CASE Has(Real(d)) /\ ~Row(Real(d)).done /\ ~Row(Real(d)).paused
    <3>1. PICK b \in {r.resuming, FALSE} :
            UpdateListItems(Put(rows, [r EXCEPT !.resuming = b]), None)
      BY <1>7, <2>1 DEF Progress
    <3>2. [r EXCEPT !.resuming = b] \in Rows /\ [r EXCEPT !.resuming = b].id = Real(d)
      BY <1>2, <2>1 DEF Rows
    <3> QED BY <2>1, <3>1, <3>2, <1>5
  <2> QED BY <1>6, <1>7, <2>1 DEF Progress
<1>8. CASE Complete(d)
  <2>1. CASE Has(Real(d))
    <3>1. [r EXCEPT !.done = TRUE] \in Rows /\ [r EXCEPT !.done = TRUE].id = Real(d)
      BY <1>2, <2>1 DEF Rows
    <3>2. UpdateListItems(Put(rows, [r EXCEPT !.done = TRUE]), None)
      BY <1>8, <2>1 DEF Complete
    <3> QED BY <2>1, <3>1, <3>2, <1>5
  <2>2. CASE ~Has(Real(d))
    BY <1>4, <1>8, <2>2 DEF Complete
  <2> QED BY <2>1, <2>2
<1>9. CASE Error(d)
  <2>1. CASE Has(Real(d))
    <3> DEFINE q == [r EXCEPT !.err = TRUE, !.done = TRUE]
    <3>1. q \in Rows /\ q.id = Real(d)
      BY <1>2, <2>1 DEF Rows
    <3>2. UpdateListItems(Put(rows, q), None)
      BY <1>9, <2>1 DEF Error
    <3> QED BY <2>1, <3>1, <3>2, <1>5
  <2>2. CASE ~Has(Real(d))
    <3> DEFINE q == [NewDownloadModel(Real(d)) EXCEPT !.err = TRUE, !.done = TRUE]
    <3>1. q \in Rows /\ q.id = Real(d)
      BY <1>3 DEF Rows
    <3>2. UpdateListItems(Append(rows, q), None)
      BY <1>9, <2>2 DEF Error
    <3> QED BY <2>2, <3>1, <3>2, <1>5
  <2> QED BY <2>1, <2>2
<1>10. ASSUME NEW kind \in {"paused", "resumed"}, PausedOrResumed(d, kind)
       PROVE  SelectionStays
  <2>1. CASE Has(Real(d))
    <3> DEFINE q == [r EXCEPT !.paused = (kind = "paused"), !.pausing = FALSE,
                              !.resuming = (kind = "resumed")]
    <3>1. (kind = "paused") \in BOOLEAN /\ (kind = "resumed") \in BOOLEAN
      OBVIOUS
    <3>2. q \in Rows /\ q.id = Real(d)
      BY <1>2, <2>1, <3>1 DEF Rows
    <3>3. UpdateListItems(Put(rows, q), None)
      BY <1>10, <2>1 DEF PausedOrResumed
    <3> QED BY <2>1, <3>2, <3>3, <1>5
  <2>2. CASE ~Has(Real(d))
    BY <1>4, <1>10, <2>2 DEF PausedOrResumed
  <2> QED BY <2>1, <2>2
<1>11. CASE Removed(d)
  <2>1. CASE Has(Real(d))
    <3> DEFINE rs == RemoveDownloadByID(rows, Real(d))
    <3>1. Loses(rows, rs, Real(d)) /\ UpdateListItems(rs, None) /\ rows' = rs
      BY <1>1, <1>11, <2>1, RemoveLoses DEF Removed, UpdateListItems
    <3>2. rs \in Seq(Rows) /\ RowIds(rs) = RowIds(rows) \ {Real(d)}
      BY <3>1 DEF Loses
    <3> HIDE DEF rs
    <3>3. PICK target : target = Selected
      OBVIOUS
    <3>4. target \in RowIds(rows)
      BY <3>3, SelectedRow
    <3>5. CASE target # Real(d)
      <4>1. target \in RowIds(rs)
        BY <3>2, <3>4, <3>5
      <4>2. \/ Selected' = target
            \/ pinned /\ tab' = tab /\ TabOf(FindDownloadByID(rows', target)) # tab
        BY <3>1, <3>2, <3>3, <4>1, RefreshKeeps
      <4> QED BY <3>1, <3>3, <4>1, <4>2 DEF SelectionStays
    <3>6. CASE target = Real(d)
      <4>1. Real(Selected[2]) = Real(d) /\ Real(d) \notin RowIds(rows') /\ Selected = Real(d)
        BY <3>1, <3>2, <3>3, <3>6, IdFacts
      <4> QED BY <4>1 DEF SelectionStays
    <3> QED BY <3>5, <3>6
  <2> QED BY <1>6, <1>11, <2>1 DEF Removed
<1> QED BY <1>7, <1>8, <1>9, <1>10, <1>11

LEMMA AnswersKeepSelection ==
  ASSUME ListInv, Selected # None, NEW d \in Downloads,
         EnqueueSuccess(d) \/ EnqueueError(d) \/ ResumeResult(d)
  PROVE  SelectionStays
<1>1. rows \in Seq(Rows) /\ Distinct(rows)
  BY DEF ListInv, Types, TypeOK, Rows
<1>2. CASE EnqueueSuccess(d)
  <2> DEFINE rs == IF ~Has(Temp(d)) \/ enq[d].via # "temp" THEN rows
                   ELSE IF Has(Real(d)) THEN RemoveDownloadByID(rows, Temp(d))
                   ELSE Renamed(rows, Temp(d), Real(d))
             forced == IF Has(Temp(d)) /\ Selected = Temp(d) THEN Real(d) ELSE None
  <2>1. UpdateListItems(rs, forced) /\ rows' = rs
    BY <1>2 DEF EnqueueSuccess, Renamed, UpdateListItems
  <2>2. Has(Temp(d)) => enq[d].via = "temp"
    BY DEF ListInv, ListFine
  <2>3. Temp(d) \in Ids /\ Real(d) \in Ids /\ Temp(d) # Real(d) /\ Real(d) # None
    BY IdFacts, DashboardAssumption DEF Real, None
  <2>4. /\ rs \in Seq(Rows)
        /\ Has(Temp(d)) => RowIds(rs) = (RowIds(rows) \ {Temp(d)}) \cup {Real(d)}
        /\ ~Has(Temp(d)) => rs = rows
    <3>1. CASE ~Has(Temp(d))
      BY <1>1, <3>1
    <3>2. CASE Has(Temp(d)) /\ Has(Real(d))
      <4>1. Loses(rows, rs, Temp(d))
        BY <1>1, <2>2, <3>2, RemoveLoses
      <4> QED BY <2>3, <3>2, <4>1 DEF Loses, Has
    <3>3. CASE Has(Temp(d)) /\ ~Has(Real(d))
      <4>1. Renames(rows, rs, Temp(d), Real(d))
        BY <1>1, <2>2, <2>3, <3>3, RenamedRenames DEF Has
      <4> QED BY <3>3, <4>1 DEF Renames
    <3> QED BY <3>1, <3>2, <3>3
  <2> HIDE DEF rs
  <2>5. PICK sel : sel = Selected
    OBVIOUS
  <2>6. sel \in RowIds(rows)
    BY <2>5, SelectedRow
  <2>7. CASE Has(Temp(d)) /\ sel = Temp(d)
    <3>1. forced = Real(d) /\ Real(d) \in RowIds(rs)
      BY <2>4, <2>5, <2>7
    <3>2. \/ Selected' = Real(d)
          \/ pinned /\ tab' = tab /\ TabOf(FindDownloadByID(rows', Real(d))) # tab
      BY <2>1, <2>3, <2>4, <3>1, RefreshKeeps
    <3>3. Selected \notin RowIds(rows') /\ Real(Selected[2]) = Real(d)
      BY <2>1, <2>3, <2>4, <2>5, <2>7, IdFacts
    <3> QED BY <3>2, <3>3 DEF SelectionStays
  <2>8. CASE ~(Has(Temp(d)) /\ sel = Temp(d))
    <3>1. forced = None /\ sel \in RowIds(rs)
      BY <2>4, <2>5, <2>6, <2>8 DEF Has
    <3>2. \/ Selected' = sel
          \/ pinned /\ tab' = tab /\ TabOf(FindDownloadByID(rows', sel)) # tab
      BY <2>1, <2>4, <2>5, <3>1, RefreshKeeps
    <3> QED BY <2>1, <2>5, <3>1, <3>2 DEF SelectionStays
  <2> QED BY <2>7, <2>8
<1>3. CASE EnqueueError(d)
  <2>1. PICK id \in {Temp(d), Real(d)} : id = IF enq[d].via = "temp" THEN Temp(d) ELSE Real(d)
    OBVIOUS
  <2> DEFINE failed(q) == [q EXCEPT !.err = TRUE, !.done = TRUE, !.paused = FALSE,
                                    !.pausing = FALSE, !.resuming = FALSE]
             old == IF Has(id) THEN Row(id) ELSE NewDownloadModel(id)
  <2>2. UpdateListItems(IF Has(id) THEN Put(rows, failed(old)) ELSE Append(rows, failed(old)), None)
    BY <1>3, <2>1 DEF EnqueueError
  <2>3. old \in Rows /\ old.id = id
    BY IdFacts, NewRow, RowOfType
  <2>4. failed(old) \in Rows /\ failed(old).id = id
    BY <2>3 DEF Rows
  <2> HIDE DEF old, failed
  <2> QED BY <2>2, <2>4, PutKeepsSelection, AppendKeepsSelection
<1>4. CASE ResumeResult(d)
  <2>1. UNCHANGED list
    BY <1>4 DEF ResumeResult
  <2>2. RowIds(rows) \subseteq RowIds(rows')
    <3>1. CASE Has(Real(d))
      <4> DEFINE r == [Row(Real(d)) EXCEPT !.paused = FALSE, !.pausing = FALSE, !.resuming = TRUE]
      <4>1. r \in Rows /\ r.id = Real(d)
        BY <3>1, RowOfType DEF Rows
      <4>2. rows' = Put(rows, r)
        BY <1>4, <3>1 DEF ResumeResult
      <4> HIDE DEF r
      <4>3. Becomes(rows, Put(rows, r), r.id, r)
        BY <3>1, <4>1, PutOrAppend
      <4> QED BY <4>2, <4>3 DEF Becomes
    <3>2. CASE ~Has(Real(d))
      BY <1>4, <3>2 DEF ResumeResult
    <3> QED BY <3>1, <3>2
  <2> QED BY <2>1, <2>2, ListRests
<1> QED BY <1>2, <1>3, <1>4

(* Nothing else is such a message.                                         *)
LEMMA StreamsDiffer ==
  ASSUME stream \in Seq(Events), stream # <<>>
  PROVE  Tail(stream) # stream /\ \A e \in Events : Append(stream, e) # Tail(stream)
<1>1. Len(stream) \in Nat \ {0}
  BY SeqTypes, EmptySeq
<1>2. Len(Tail(stream)) = Len(stream) - 1
  BY HeadTailProperties
<1>3. \A e \in Events : Len(Append(stream, e)) = Len(stream) + 1
  BY AppendProperties
<1>4. \A n \in Nat : n - 1 # n /\ n + 1 # n - 1
  OBVIOUS
<1>5. Len(Tail(stream)) # Len(stream) /\ \A e \in Events : Len(Append(stream, e)) # Len(Tail(stream))
  BY <1>1, <1>2, <1>3, <1>4, Zenon
<1>6. \A s, t : Len(s) # Len(t) => s # t
  BY Zenon
<1> QED BY <1>5, <1>6, Zenon

LEMMA OnlyMessagesAreQuiet ==
  ASSUME ListInv, Next, QuietMessage
  PROVE  \E d \in Downloads :
           \/ Progress(d) \/ Complete(d) \/ Error(d) \/ Removed(d)
           \/ \E kind \in {"paused", "resumed"} : PausedOrResumed(d, kind)
           \/ EnqueueSuccess(d) \/ EnqueueError(d) \/ ResumeResult(d)
<1> USE DEF ListInv, Types
<1>1. /\ svc' = svc /\ enq' = enq /\ lost' = lost /\ turns' = turns
      /\ \/ results' # results
         \/ /\ stream # <<>> /\ stream' = Tail(stream)
            /\ Head(stream).kind \notin {"queued", "started", "request"}
  BY DEF QuietMessage, service, counts
<1>2. ~Turn
  BY <1>1 DEF Turn
<1>3. ASSUME results' = results, stream' = stream PROVE FALSE
  BY <1>1, <1>3, StreamsDiffer
<1>4. ASSUME results' = results, NEW k \in EventKinds, NEW d \in Downloads, Sends(k, d) PROVE FALSE
  BY <1>1, <1>4, StreamsDiffer, EventType DEF Sends
<1>5. ASSUME NEW d \in Downloads, NEW l \in Places, EnqAt(d, l), enq[d].at # l PROVE FALSE
  BY <1>1, <1>5, EnqMoves DEF EnqStates
<1>6. ~TheService
  <2> SUFFICES ASSUME TheService PROVE FALSE
    OBVIOUS
  <2> PICK d \in Downloads :
        \/ EnqueueFails(d) \/ Dispatch(d) \/ PublishQueued(d)
        \/ AddElsewhere(d) \/ RequestElsewhere(d) \/ CallElsewhere(d) \/ ResumeStored(d)
        \/ Starts(d) \/ Progresses(d) \/ Completes(d) \/ Fails(d) \/ Stops(d)
    BY DEF TheService
  <2>1. CASE EnqueueFails(d) \/ Dispatch(d) \/ PublishQueued(d) \/ RequestElsewhere(d) \/ ResumeStored(d)
    BY <2>1, <1>5 DEF EnqueueFails, Dispatch, PublishQueued, RequestElsewhere, ResumeStored, Places
  <2>2. CASE AddElsewhere(d)
    BY <2>2, <1>1 DEF AddElsewhere
  <2>3. CASE CallElsewhere(d)
    BY <2>3, <1>2 DEF CallElsewhere
  <2>4. CASE Starts(d) \/ Progresses(d) \/ Completes(d) \/ Fails(d) \/ Stops(d)
    <3>1. Working(d) /\ ServedOnly
      BY <2>4, WorkSteps
    <3> QED BY <3>1, <1>4 DEF Working, Does, ServedOnly, EventKinds
  <2> QED BY <2>1, <2>2, <2>3, <2>4
<1>7. ~Swallow
  BY <1>2 DEF Swallow
<1>8. ~Dialog
  <2> SUFFICES ASSUME Dialog PROVE FALSE
    OBVIOUS
  <2>1. Quiet
    BY DEF Dialog, UpdateExtensionConfirmation, UpdateDuplicateWarning, Decline, OpenDirectoryPicker,
      UpdateFilePicker, OtherDialogs, OpenDialog, UpdateNotice, SubmitInputForm, UpdateBatchConfirm,
      Opens
  <2> QED BY <2>1, <1>3 DEF Quiet
<1>9. ~DashboardKey
  <2>1. ~(Move \/ PinTab \/ \E t \in {"queued", "active", "done"} : SwitchTab(t))
    BY <1>3 DEF Move, PinTab, SwitchTab, Key
  <2>2. ~\E d \in Downloads : Delete(d) \/ Pause(d)
    BY <1>2 DEF Delete, Pause
  <2> QED BY <2>1, <2>2 DEF DashboardKey
<1>10. ~Refresh
  BY <1>3 DEF Refresh
<1>11. ASSUME NEW d \in Downloads, NEW k \in {"queued", "started", "request"}, Receive(Event(k, d))
       PROVE  FALSE
  <2>1. Head(stream).kind = k /\ results' = results
    BY <1>11 DEF Receive, Event
  <2> QED BY <2>1, <1>1
<1>12. ASSUME NEW d \in Downloads, Queued(d) \/ Started(d) \/ Request(d)
       PROVE  FALSE
  BY <1>11, <1>12 DEF Queued, Started, Request
<1>13. Message
  BY <1>6, <1>7, <1>8, <1>9 DEF Next
<1> QED BY <1>10, <1>12, <1>13 DEF Message

(* A message that is not about a new or a starting download does not move  *)
(* the selection, whatever rows it adds, removes, renames or moves to      *)
(* another tab: UpdateListItems finds it again by its id (list.go).        *)
THEOREM SelectionIsKept ==
  Spec => CursorStays
<1>1. ASSUME ListInv, [Next]_vars
      PROVE  [QuietMessage /\ Selected # None =>
                LET kept == IF Selected \in RowIds(rows') THEN Selected ELSE Real(Selected[2]) IN
                kept \in RowIds(rows') =>
                  \/ Selected' = kept
                  \/ pinned /\ tab' = tab /\ TabOf(FindDownloadByID(rows', kept)) # tab]_vars
  <2> SUFFICES ASSUME Next, QuietMessage, Selected # None
               PROVE  SelectionStays
    BY <1>1 DEF SelectionStays
  <2> QED BY <1>1, OnlyMessagesAreQuiet, EventsKeepSelection, AnswersKeepSelection
<1> QED BY <1>1, AlwaysFine, PTL DEF Spec, CursorStays

-----------------------------------------------------------------------------
(* What the rows will say when the events under way have been handled.     *)
WillBeDone(d) == RowOf(d).done \/ Pend(stream, d, {"complete", "error"})
WillBeErr(d) == RowOf(d).err \/ Pend(stream, d, {"error"})
WillBePaused(d) ==
  PauseLast(stream, d) \/ (RowOf(d).paused /\ ~Pend(stream, d, {"resumed", "started"}))
WillBePausing(d) ==
  RowOf(d).pausing /\ ~Pend(stream, d, {"paused", "resumed", "started"})

(* A download the service has: its row, or the first event, is there.      *)
Truthful(d) ==
  /\ WillBeDone(d) <=> svc[d] \in {"complete", "error"}
  /\ WillBeErr(d) <=> svc[d] = "error"
  /\ svc[d] = "paused" => WillBePaused(d)
  /\ svc[d] \in {"queued", "active"} => ~WillBePaused(d)
  /\ svc[d] = "active" => ~WillBePausing(d)
  /\ ~Has(Real(d)) => MadeFirst(stream, d)
  /\ ~Has(Real(d)) /\ ~Pend(stream, d, EventKinds) => enq[d].at = "dispatched" /\ svc[d] = "queued"
  /\ Due("resumeResult", d) => svc[d] \in {"queued", "active", "complete", "error"}
  /\ ~Pend(stream, d, {"removed"})

(* One that was removed.                                                   *)
Leaving(d) ==
  /\ enq[d].at \in {"done", "stored"} /\ ~Due("enqueueSuccess", d)
  /\ Has(Real(d)) \/ Pend(stream, d, EventKinds) => Pend(stream, d, {"removed"})
  /\ RemovedLast(stream, d)

(* One that the service does not have yet, or has refused.                 *)
Waiting(d) ==
  /\ enq[d].at = "called" => RowOf(d) = NewDownloadModel(Real(d))
  /\ enq[d].at = "failed" =>
       Due("enqueueError", d) \/
         \A id \in {Temp(d), Real(d)} : Has(id) => Row(id).done /\ Row(id).err

(* The temporary row.                                                      *)
TempFine(d) ==
  Has(Temp(d)) =>
    /\ enq[d].at \in {"called", "dispatched", "failed"} \/ Due("enqueueSuccess", d)
    /\ enq[d].at # "failed" => Row(Temp(d)) = NewDownloadModel(Temp(d))

Right(d) ==
  /\ svc[d] \notin {"none", "removed"} => Truthful(d)
  /\ svc[d] = "removed" => Leaving(d)
  /\ svc[d] = "none" => Waiting(d)
  /\ TempFine(d)

RowsRight == \A d \in Downloads \ lost : Right(d)
(* None of the slips that break ListIsTrue happens.                        *)
Orderly == Slips \subseteq {"overlap"}

LEMMA AloofRight ==
  ASSUME NEW e \in Downloads, Aloof(e), Right(e)
  PROVE  Right(e)'
<1>1. /\ Has(Temp(e))' <=> Has(Temp(e))
      /\ Has(Real(e))' <=> Has(Real(e))
      /\ Has(Temp(e)) => Row(Temp(e))' = Row(Temp(e))
      /\ Has(Real(e)) => Row(Real(e))' = Row(Real(e))
  BY DEF Aloof, RowsStay, Has, Row
<1>2. RowOf(e)' = RowOf(e)
  BY <1>1 DEF RowOf
<1>3. /\ \A ks : Pend(stream', e, ks) <=> Pend(stream, e, ks)
      /\ PauseLast(stream', e) <=> PauseLast(stream, e)
      /\ MadeFirst(stream', e) <=> MadeFirst(stream, e)
      /\ RemovedLast(stream', e) <=> RemovedLast(stream, e)
      /\ \A l : Due(l, e)' <=> Due(l, e)
      /\ svc'[e] = svc[e] /\ enq'[e] = enq[e]
  BY DEF Aloof, SameEvents
<1>4. /\ WillBeDone(e)' <=> WillBeDone(e)
      /\ WillBeErr(e)' <=> WillBeErr(e)
      /\ WillBePaused(e)' <=> WillBePaused(e)
      /\ WillBePausing(e)' <=> WillBePausing(e)
  BY <1>2, <1>3 DEF WillBeDone, WillBeErr, WillBePaused, WillBePausing
<1>5. Truthful(e) => Truthful(e)'
  BY <1>1, <1>3, <1>4 DEF Truthful
<1>6. Leaving(e) => Leaving(e)'
  BY <1>1, <1>3 DEF Leaving
<1>7. Waiting(e) => Waiting(e)'
  BY <1>1, <1>2, <1>3 DEF Waiting
<1>8. TempFine(e) => TempFine(e)'
  BY <1>1, <1>3 DEF TempFine
<1> QED BY <1>3, <1>5, <1>6, <1>7, <1>8 DEF Right

LEMMA StepRight ==
  ASSUME ListInv, RowsRight, NEW d \in Downloads, StepAbout(d), d \notin lost' => Right(d)'
  PROVE  RowsRight'
<1>1. OthersAloof(d) /\ lost \subseteq lost'
  BY StepFrame DEF StepAbout
<1>2. \A e \in Downloads \ {d} : e \notin lost' => Right(e)'
  BY <1>1, AloofRight DEF OthersAloof, RowsRight
<1> QED BY <1>2 DEF RowsRight

(* How the ends of the stream and the absence of events are told.          *)
LEMMA PendFacts ==
  ASSUME NEW s \in Seq(Events), NEW d
  PROVE  /\ \A ks : Pend(s, d, ks) => Pend(s, d, EventKinds)
         /\ \A ks, ls : ks \subseteq ls /\ Pend(s, d, ks) => Pend(s, d, ls)
         /\ PauseLast(s, d) => Pend(s, d, {"paused"})
         /\ ~Pend(s, d, EventKinds) => MadeFirst(s, d)
<1>0. \A i \in DOMAIN s : s[i] \in Events
  BY SeqTypes
<1>1. \A i \in DOMAIN s : s[i].kind \in EventKinds
  BY <1>0 DEF Events
<1> QED BY <1>1 DEF Pend, PauseLast, MadeFirst

LEMMA FlagTypes ==
  ASSUME ListInv, NEW d \in Downloads
  PROVE  /\ RowOf(d).done \in BOOLEAN /\ RowOf(d).err \in BOOLEAN
         /\ RowOf(d).paused \in BOOLEAN /\ RowOf(d).pausing \in BOOLEAN
  BY RowOfType DEF Rows

LEMMA NewFlags ==
  ASSUME NEW id
  PROVE  /\ NewDownloadModel(id).done = FALSE /\ NewDownloadModel(id).err = FALSE
         /\ NewDownloadModel(id).paused = FALSE /\ NewDownloadModel(id).pausing = FALSE
  BY DEF NewDownloadModel

(* What of the places of an enqueue and the service is known of d.         *)
LEMMA PlaceFacts ==
  ASSUME ListInv, NEW d \in Downloads
  PROVE  /\ enq[d].at \in Unsent <=> svc[d] = "none"
         /\ svc[d] # "none" =>
              enq[d].at \in {"dispatched", "done", "stored"} /\ ~Pend(stream, d, {"request"})
         /\ enq[d].via = "none" \/ enq[d].via = "real" => ~Has(Temp(d))
         /\ svc[d] \in SvcStates
<1>1. enq[d].at \in Places
  BY DEF ListInv, Types
<1> QED BY <1>1 DEF ListInv, ListFine, Unsent, Unasked, Places, Types, TypeOK, SvcStates

(* Truth is kept when no forecast changes.                                 *)
LEMMA ForecastKept ==
  ASSUME NEW d, Truthful(d), svc'[d] = svc[d],
         WillBeDone(d)' <=> WillBeDone(d), WillBeErr(d)' <=> WillBeErr(d),
         svc[d] \in {"paused", "queued", "active"} => (WillBePaused(d)' <=> WillBePaused(d)),
         WillBePausing(d)' => WillBePausing(d), Has(Real(d))',
         Due("resumeResult", d)' => Due("resumeResult", d), ~Pend(stream', d, {"removed"})
  PROVE  Truthful(d)'
  BY DEF Truthful

-----------------------------------------------------------------------------
(* Messages of the service.                                                *)
LEMMA ToldTruthful ==
  ASSUME ListInv, NEW d \in Downloads, Truthful(d), svc[d] # "none",
         \/ Progress(d) \/ Complete(d) \/ Error(d)
         \/ \E kind \in {"paused", "resumed"} : PausedOrResumed(d, kind)
         \/ Queued(d) \/ Started(d)
  PROVE  Truthful(d)'
<1> DEFINE Effects(k) ==
      /\ \A ks : Pend(stream, d, ks) <=> Pend(stream', d, ks) \/ k \in ks
      /\ PauseLast(stream, d) <=>
           PauseLast(stream', d) \/ (k = "paused" /\ ~Pend(stream', d, {"resumed", "started"}))
      /\ Has(Real(d)) \/ k \in Makes
      /\ svc'[d] = svc[d] /\ (Due("resumeResult", d)' <=> Due("resumeResult", d))
<1>1. ASSUME NEW k, Told(k, d)
      PROVE  Effects(k)
  <2>1. /\ \A ks : Pend(stream, d, ks) <=> Pend(stream', d, ks) \/ k \in ks
        /\ PauseLast(stream, d) <=>
             PauseLast(stream', d) \/ (k = "paused" /\ ~Pend(stream', d, {"resumed", "started"}))
        /\ MadeFirst(stream, d) => k \in Makes
    BY <1>1, Taken DEF Told, ListInv, Types
  <2>2. Has(Real(d)) \/ k \in Makes
    BY <2>1 DEF Truthful
  <2>3. svc'[d] = svc[d] /\ (Due("resumeResult", d)' <=> Due("resumeResult", d))
    BY <1>1 DEF Told, Due
  <2> QED BY <2>1, <2>2, <2>3
<1>2. /\ RowOf(d).done \in BOOLEAN /\ RowOf(d).err \in BOOLEAN
      /\ RowOf(d).paused \in BOOLEAN /\ RowOf(d).pausing \in BOOLEAN
  BY FlagTypes
<1>3. ~Pend(stream, d, {"removed"})
  BY DEF Truthful
<1> USE DEF WillBeDone, WillBeErr, WillBePaused, WillBePausing, Makes
<1>4. CASE Queued(d)
  <2>1. Effects("queued") /\ Has(Real(d))' /\ RowOf(d)' = RowOf(d)
    BY <1>1, <1>4, QueuedStep
  <2> QED BY <2>1, <1>2, <1>3, ForecastKept
<1>5. CASE Started(d)
  <2>1. /\ Effects("started") /\ Has(Real(d))' /\ RowOf(d)'.paused = FALSE /\ RowOf(d)'.pausing = FALSE
        /\ RowOf(d)'.done = RowOf(d).done /\ RowOf(d)'.err = RowOf(d).err
    BY <1>1, <1>5, StartedStep
  <2> QED BY <2>1, <1>2, <1>3, ForecastKept
<1>6. CASE Progress(d)
  <2>1. /\ Effects("progress") /\ (Has(Real(d))' <=> Has(Real(d)))
        /\ RowOf(d)'.done = RowOf(d).done /\ RowOf(d)'.err = RowOf(d).err
        /\ RowOf(d)'.paused = RowOf(d).paused /\ RowOf(d)'.pausing = RowOf(d).pausing
    BY <1>1, <1>6, ProgressStep
  <2> QED BY <2>1, <1>2, <1>3, ForecastKept
<1>7. CASE Complete(d)
  <2>1. /\ Effects("complete") /\ (Has(Real(d))' <=> Has(Real(d)))
        /\ RowOf(d)'.done = (RowOf(d).done \/ Has(Real(d))) /\ RowOf(d)'.err = RowOf(d).err
        /\ RowOf(d)'.paused = RowOf(d).paused /\ RowOf(d)'.pausing = RowOf(d).pausing
    BY <1>1, <1>7, CompleteStep
  <2> QED BY <2>1, <1>2, <1>3, ForecastKept
<1>8. CASE Error(d)
  <2>1. /\ Effects("error") /\ Has(Real(d))'
        /\ RowOf(d)'.done = TRUE /\ RowOf(d)'.err = TRUE
        /\ RowOf(d)'.paused = RowOf(d).paused /\ RowOf(d)'.pausing = RowOf(d).pausing
    BY <1>1, <1>8, ErrorStep
  <2> QED BY <2>1, <1>2, <1>3, ForecastKept
<1>9. ASSUME NEW kind \in {"paused", "resumed"}, PausedOrResumed(d, kind)
      PROVE  Truthful(d)'
  <2>1. /\ Effects(kind) /\ (Has(Real(d))' <=> Has(Real(d)))
        /\ RowOf(d)'.done = RowOf(d).done /\ RowOf(d)'.err = RowOf(d).err
        /\ Has(Real(d)) => RowOf(d)'.paused = (kind = "paused") /\ RowOf(d)'.pausing = FALSE
    BY <1>1, <1>9, PausedOrResumedStep
  <2>2. Has(Real(d)) /\ RowOf(d)'.paused = (kind = "paused") /\ RowOf(d)'.pausing = FALSE
    BY <2>1
  <2>3. CASE kind = "paused"
    BY <2>1, <2>2, <2>3, <1>2, <1>3, ForecastKept
  <2>4. CASE kind = "resumed"
    BY <2>1, <2>2, <2>4, <1>2, <1>3, ForecastKept
  <2> QED BY <2>3, <2>4
<1> QED BY <1>4, <1>5, <1>6, <1>7, <1>8, <1>9

LEMMA ToldRight ==
  ASSUME ListInv, NEW d \in Downloads, Right(d),
         \/ Progress(d) \/ Complete(d) \/ Error(d) \/ Removed(d)
         \/ \E kind \in {"paused", "resumed"} : PausedOrResumed(d, kind)
         \/ Queued(d) \/ Started(d)
  PROVE  StepAbout(d) /\ Right(d)'
<1>1. PICK k \in EventKinds \ {"request"} :
        /\ Told(k, d) /\ RowsAbout(d) /\ ListView /\ TempStays(d)
        /\ k = "removed" => Removed(d) /\ ~Has(Real(d))'
        /\ k # "removed" => ~Removed(d)
  <2>1. {"progress", "complete", "error", "removed", "paused", "resumed", "queued", "started"}
          \subseteq EventKinds \ {"request"}
    BY DEF EventKinds
  <2>2. ASSUME NEW k, Told(k, d), Removed(d) PROVE k = "removed"
    BY <2>2, RemovedStep DEF Told, Takes, Event
  <2> QED BY <2>1, <2>2, ProgressStep, CompleteStep, ErrorStep, RemovedStep,
             PausedOrResumedStep, QueuedStep, StartedStep
<1>2. StepAbout(d)
  BY <1>1, ToldFine
<1>3. /\ \A ks : Pend(stream, d, ks) <=> Pend(stream', d, ks) \/ k \in ks
      /\ RemovedLast(stream, d) => RemovedLast(stream', d)
      /\ RemovedLast(stream, d) /\ k = "removed" => ~Pend(stream', d, EventKinds)
  BY <1>1, Taken DEF Told, ListInv, Types
<1>4. svc'[d] = svc[d] /\ enq'[d] = enq[d] /\ \A l : Due(l, d)' <=> Due(l, d)
  BY <1>1 DEF Told, Due
<1>5. svc[d] # "none"
  BY <1>1, <1>3 DEF ListInv, ListFine
<1>6. TempFine(d)'
  BY <1>1, <1>4 DEF TempStays, TempFine, Right
<1>7. CASE svc[d] = "removed"
  <2>1. Leaving(d)
    BY <1>7 DEF Right
  <2>2. Leaving(d)'
    BY <2>1, <1>1, <1>3, <1>4 DEF Leaving
  <2> QED BY <2>2, <1>2, <1>4, <1>6, <1>7 DEF Right
<1>8. CASE svc[d] # "removed"
  <2>1. Truthful(d)
    BY <1>5, <1>8 DEF Right
  <2>2. k # "removed"
    BY <2>1, <1>3 DEF Truthful
  <2>3. Truthful(d)'
    BY <2>1, <2>2, <1>1, <1>5, ToldTruthful
  <2> QED BY <2>3, <1>2, <1>4, <1>5, <1>6, <1>8 DEF Right
<1> QED BY <1>7, <1>8

-----------------------------------------------------------------------------
(* The service.                                                            *)
LEMMA NothingPends ==
  ASSUME ListInv, NEW d \in Downloads, enq[d].at \in {"called", "failed"}
  PROVE  /\ \A ks : ks \subseteq EventKinds => ~Pend(stream, d, ks)
         /\ ~PauseLast(stream, d) /\ MadeFirst(stream, d)
<1>1. ~Pend(stream, d, EventKinds \ {"request"}) /\ ~Pend(stream, d, {"request"})
  BY DEF ListInv, ListFine, Unsent
<1>2. ~Pend(stream, d, EventKinds)
  BY <1>1 DEF Pend
<1>3. stream \in Seq(Events)
  BY DEF ListInv, Types
<1> QED BY <1>2, <1>3, PendFacts

(* A row that is not there yet is made before anything else is told of it. *)
LEMMA SentTruthful ==
  ASSUME ListInv, NEW d \in Downloads, Truthful(d), RealStays(d),
         NEW k \in EventKinds \ {"removed"}, Sends(k, d),
         svc[d] # "queued" \/ k \in Makes
  PROVE  /\ ~Has(Real(d))' => MadeFirst(stream', d)
         /\ Pend(stream', d, EventKinds) /\ ~Pend(stream', d, {"removed"})
<1>1. /\ \A ks : Pend(stream', d, ks) <=> Pend(stream, d, ks) \/ k \in ks
      /\ MadeFirst(stream, d) /\ (Pend(stream, d, EventKinds) \/ k \in Makes)
           => MadeFirst(stream', d)
  BY Sent DEF ListInv, Types
<1>2. ~Has(Real(d)) => MadeFirst(stream, d) /\ (Pend(stream, d, EventKinds) \/ k \in Makes)
  BY DEF Truthful
<1> QED BY <1>1, <1>2 DEF RealStays, Truthful

LEMMA TempRight ==
  ASSUME NEW d, TempFine(d), TempStays(d), enq'[d] = enq[d],
         Due("enqueueSuccess", d)' <=> Due("enqueueSuccess", d)
  PROVE  TempFine(d)'
  BY DEF TempFine, TempStays

LEMMA EnqueueFailsRight ==
  ASSUME ListInv, NEW d \in Downloads, Right(d), EnqueueFails(d), RealStays(d), TempStays(d)
  PROVE  Right(d)'
<1>1. enq[d].at = "called" /\ svc'[d] = svc[d] /\ svc[d] = "none"
  BY DEF EnqueueFails, ListInv, ListFine, Unsent
<1>2. enq'[d].at = "failed" /\ enq'[d].via = enq[d].via
  BY EnqMoves DEF EnqueueFails, ListInv, Types, EnqStates, Places
<1>3. enq[d].via = "none" \/ Due("enqueueError", d)'
  BY ResultsGrow DEF EnqueueFails, ListInv, Types, ResultKinds
<1>4. enq[d].via = "none" => ~Has(Temp(d))' /\ ~Has(Real(d))'
  BY <1>1 DEF ListInv, ListFine, Unsent, RealStays, TempStays
<1>5. Waiting(d)'
  BY <1>2, <1>3, <1>4 DEF Waiting
<1>6. TempFine(d)'
  BY <1>2 DEF TempFine
<1> QED BY <1>1, <1>5, <1>6 DEF Right

LEMMA DispatchRight ==
  ASSUME ListInv, NEW d \in Downloads, Right(d), Dispatch(d), RealStays(d), TempStays(d)
  PROVE  Right(d)'
<1>1. enq[d].at = "called" /\ svc'[d] = "queued" /\ svc[d] = "none"
      /\ stream' = stream /\ results' = results
  BY DEF Dispatch, ListInv, ListFine, Unsent, ServiceIs, Types, TypeOK
<1>2. enq'[d].at = "dispatched" /\ enq'[d].via = enq[d].via
  BY EnqMoves DEF Dispatch, ListInv, Types, EnqStates, Places
<1>3. /\ \A ks : ks \subseteq EventKinds => ~Pend(stream', d, ks)
      /\ ~PauseLast(stream', d) /\ MadeFirst(stream', d)
  BY <1>1, NothingPends
<1>4. RowOf(d)' = NewDownloadModel(Real(d))
  BY <1>1 DEF Right, Waiting, RealStays
<1>5. ~Due("resumeResult", d)'
  BY <1>1 DEF ListInv, ListFine, Due
<1>6. /\ {"complete", "error"} \subseteq EventKinds /\ {"error"} \subseteq EventKinds
      /\ {"removed"} \subseteq EventKinds
  BY DEF EventKinds
<1>7. ~WillBeDone(d)' /\ ~WillBeErr(d)' /\ ~WillBePaused(d)' /\ ~WillBePausing(d)'
  BY <1>3, <1>4, <1>6, NewFlags DEF WillBeDone, WillBeErr, WillBePaused, WillBePausing
<1>8. Truthful(d)'
  BY <1>1, <1>2, <1>3, <1>5, <1>6, <1>7 DEF Truthful
<1>9. TempFine(d)'
  BY <1>1, <1>2 DEF Right, TempFine, TempStays
<1> QED BY <1>1, <1>8, <1>9 DEF Right

LEMMA PublishQueuedRight ==
  ASSUME ListInv, NEW d \in Downloads, Right(d), PublishQueued(d), RealStays(d), TempStays(d)
  PROVE  Right(d)'
<1>1. enq[d].at = "dispatched" /\ svc'[d] = svc[d] /\ svc[d] # "none" /\ Sends("queued", d)
  BY DEF PublishQueued, ListInv, ListFine, Unsent, Unasked, Publish, Sends, EventKinds
<1>2. enq'[d].at = "done" /\ enq'[d].via = enq[d].via
  BY EnqMoves DEF PublishQueued, ListInv, Types, EnqStates, Places
<1>3. \A l : Due(l, d)' <=> Due(l, d) \/ (enq[d].via # "none" /\ l = "enqueueSuccess")
  BY ResultsGrow DEF PublishQueued, ListInv, Types, ResultKinds
<1>4. svc[d] # "removed" /\ Truthful(d)
  BY <1>1 DEF Right, Leaving
<1>5. /\ \A ks : Pend(stream', d, ks) <=> Pend(stream, d, ks) \/ "queued" \in ks
      /\ PauseLast(stream', d) <=> PauseLast(stream, d)
  BY <1>1, Sent DEF ListInv, Types
<1>6. /\ ~Has(Real(d))' => MadeFirst(stream', d)
      /\ Pend(stream', d, EventKinds) /\ ~Pend(stream', d, {"removed"})
  BY <1>1, <1>4, SentTruthful DEF EventKinds, Makes
<1>7. /\ WillBeDone(d)' <=> WillBeDone(d)
      /\ WillBeErr(d)' <=> WillBeErr(d)
      /\ WillBePaused(d)' <=> WillBePaused(d)
      /\ WillBePausing(d)' <=> WillBePausing(d)
  BY <1>5 DEF RealStays, WillBeDone, WillBeErr, WillBePaused, WillBePausing
<1>8. Truthful(d)'
  BY <1>1, <1>3, <1>4, <1>6, <1>7 DEF Truthful
<1>9. TempFine(d)'
  <2>1. Has(Temp(d)) => enq[d].via = "temp" /\ Row(Temp(d)) = NewDownloadModel(Temp(d))
    BY <1>1 DEF Right, TempFine, ListInv, ListFine
  <2> QED BY <2>1, <1>3 DEF TempFine, TempStays
<1> QED BY <1>1, <1>4, <1>8, <1>9 DEF Right

LEMMA ElsewhereRight ==
  ASSUME ListInv, NEW d \in Downloads, Right(d), AddElsewhere(d) \/ RequestElsewhere(d),
         RealStays(d), TempStays(d)
  PROVE  Right(d)'
<1>1. enq[d].at = "no" /\ svc'[d] = svc[d] /\ svc[d] = "none" /\ ~Has(Temp(d))' /\ ~Has(Real(d))'
  BY DEF AddElsewhere, RequestElsewhere, ListInv, ListFine, Unsent, Unasked, RealStays, TempStays
<1>2. enq'[d].at \in {"called", "requested"}
  BY DEF AddElsewhere, RequestElsewhere, EnqAt, ListInv, Types
<1>3. RowOf(d)' = NewDownloadModel(Real(d))
  BY <1>1 DEF RowOf
<1>4. Waiting(d)'
  BY <1>2, <1>3 DEF Waiting
<1>5. TempFine(d)'
  BY <1>1 DEF TempFine
<1> QED BY <1>1, <1>4, <1>5 DEF Right

LEMMA ResumeStoredRight ==
  ASSUME ListInv, NEW d \in Downloads, Right(d), ResumeStored(d), RealStays(d), TempStays(d)
  PROVE  Right(d)'
<1>1. enq[d].at = "stored" /\ svc[d] # "none" /\ ~Has(Temp(d))'
  BY DEF ResumeStored, ListInv, ListFine, Unsent, Unasked, TempStays
<1>2. enq'[d].at = "done"
  BY EnqMoves DEF ResumeStored, ListInv, Types, EnqStates, Places
<1>3. TempFine(d)'
  BY <1>1 DEF TempFine
<1>4. CASE /\ svc[d] = "paused" /\ ServiceIs(d, "queued") /\ Publish(Event("resumed", d))
           /\ results' = results \cup {[kind |-> "resumeResult", d |-> d]}
  <2>1. Sends("resumed", d) /\ svc'[d] = "queued" /\ Truthful(d)
    BY <1>4 DEF Publish, Sends, EventKinds, ServiceIs, Right, ListInv, Types, TypeOK
  <2>2. /\ \A ks : Pend(stream', d, ks) <=> Pend(stream, d, ks) \/ "resumed" \in ks
        /\ ~PauseLast(stream', d)
    BY <2>1, Sent DEF ListInv, Types
  <2>3. /\ ~Has(Real(d))' => MadeFirst(stream', d)
        /\ Pend(stream', d, EventKinds) /\ ~Pend(stream', d, {"removed"})
    BY <1>4, <2>1, SentTruthful DEF EventKinds
  <2>4. ~WillBeDone(d)' /\ ~WillBeErr(d)' /\ ~WillBePaused(d)'
    BY <1>4, <2>1, <2>2 DEF RealStays, Truthful, WillBeDone, WillBeErr, WillBePaused
  <2>5. Truthful(d)'
    BY <2>1, <2>3, <2>4 DEF Truthful
  <2> QED BY <1>3, <2>1, <2>5 DEF Right
<1>5. CASE svc[d] # "paused" /\ UNCHANGED <<svc, stream, results>>
  <2>1. svc'[d] = svc[d] /\ \A l : Due(l, d)' <=> Due(l, d)
    BY <1>5 DEF Due
  <2>2. /\ WillBeDone(d)' <=> WillBeDone(d)
        /\ WillBeErr(d)' <=> WillBeErr(d)
        /\ WillBePaused(d)' <=> WillBePaused(d)
        /\ WillBePausing(d)' <=> WillBePausing(d)
    BY <1>5 DEF RealStays, WillBeDone, WillBeErr, WillBePaused, WillBePausing
  <2>3. Truthful(d) => Truthful(d)'
    BY <1>1, <1>5, <2>1, <2>2 DEF Truthful, RealStays
  <2>4. Leaving(d) => Leaving(d)'
    BY <1>2, <1>5, <2>1 DEF Leaving, RealStays
  <2> QED BY <1>1, <1>3, <2>1, <2>3, <2>4 DEF Right
<1> QED BY <1>4, <1>5 DEF ResumeStored

LEMMA WorkingRight ==
  ASSUME ListInv, NEW d \in Downloads, Right(d), Working(d), RealStays(d), TempStays(d),
         results' = results, enq' = enq
  PROVE  Right(d)'
<1>1. PICK k \in {"started", "progress", "complete", "error", "paused"} :
        /\ \/ svc[d] = "queued" /\ svc'[d] = "active" /\ k = "started"
           \/ svc[d] = "active" /\ svc'[d] = "active" /\ k = "progress"
           \/ svc[d] \in {"active", "pausing"} /\ svc'[d] = "complete" /\ k = "complete"
           \/ svc[d] = "active" /\ svc'[d] = "error" /\ k = "error"
           \/ svc[d] = "pausing" /\ svc'[d] = "paused" /\ k = "paused"
        /\ Sends(k, d)
  BY DEF Working, Does
<1>2. Truthful(d)
  BY <1>1 DEF Right
<1>3. /\ \A ks : Pend(stream', d, ks) <=> Pend(stream, d, ks) \/ k \in ks
      /\ PauseLast(stream', d) <=>
           k = "paused" \/ (PauseLast(stream, d) /\ k \notin {"resumed", "started"})
  BY <1>1, Sent DEF ListInv, Types
<1>4. /\ ~Has(Real(d))' => MadeFirst(stream', d)
      /\ Pend(stream', d, EventKinds) /\ ~Pend(stream', d, {"removed"})
  BY <1>1, <1>2, SentTruthful DEF EventKinds, Makes
<1>5. \A l : Due(l, d)' <=> Due(l, d)
  BY DEF Due
<1> USE DEF WillBeDone, WillBeErr, WillBePaused, WillBePausing, RealStays
<1>6. /\ WillBeDone(d)' <=> svc'[d] \in {"complete", "error"}
      /\ WillBeErr(d)' <=> svc'[d] = "error"
  BY <1>1, <1>2, <1>3 DEF Truthful
<1>7. /\ svc'[d] = "paused" => WillBePaused(d)'
      /\ svc'[d] \in {"queued", "active"} => ~WillBePaused(d)'
      /\ svc'[d] = "active" => ~WillBePausing(d)'
  BY <1>1, <1>2, <1>3 DEF Truthful
<1>8. Due("resumeResult", d)' => svc'[d] \in {"queued", "active", "complete", "error"}
  BY <1>1, <1>2, <1>5 DEF Truthful
<1>9. Truthful(d)'
  BY <1>4, <1>6, <1>7, <1>8 DEF Truthful
<1>10. TempFine(d)'
  BY <1>5, TempRight DEF Right
<1> QED BY <1>1, <1>9, <1>10 DEF Right

(* Calls to pause, resume and delete, by another client or by a key.       *)
LEMMA PausesRight ==
  ASSUME Orderly, ListInv, NEW d \in Downloads, Right(d), NEW answer, Pauses(d, answer),
         TempStays(d), Has(Real(d))' <=> Has(Real(d)), results' = results, enq' = enq,
         RowOf(d)'.done = RowOf(d).done, RowOf(d)'.err = RowOf(d).err,
         RowOf(d)'.paused = RowOf(d).paused, answer = "error" => RowOf(d)' = RowOf(d)
  PROVE  Right(d)'
<1>1. \A l : Due(l, d)' <=> Due(l, d)
  BY DEF Due
<1>2. TempFine(d)'
  BY <1>1, TempRight DEF Right
<1> USE DEF WillBeDone, WillBeErr, WillBePaused, WillBePausing
<1>3. CASE /\ svc[d] \in {"active", "pausing"} /\ Paused(d)
           /\ svc'[d] = "pausing" /\ stream' = stream
  <2>1. Truthful(d)
    BY <1>3 DEF Right
  <2>2. ~Due("resumeResult", d)'
    <3>1. ~\E r \in results : r.kind = "resumeResult" /\ r.d = d
      BY <1>3 DEF Paused, Orderly
    <3> QED BY <3>1, <1>1 DEF Due
  <2>3. ~WillBeDone(d)' /\ ~WillBeErr(d)'
    BY <2>1, <1>3 DEF Truthful
  <2>4. ~Has(Real(d))' => MadeFirst(stream', d) /\ Pend(stream', d, EventKinds)
    BY <2>1, <1>3 DEF Truthful
  <2>5. Truthful(d)'
    BY <2>1, <2>2, <2>3, <2>4, <1>3 DEF Truthful
  <2> QED BY <2>5, <1>2, <1>3 DEF Right
<1>4. CASE svc[d] = "complete" /\ svc' = svc /\ stream' = stream
  <2>1. Truthful(d)
    BY <1>4 DEF Right
  <2>2. Truthful(d)'
    BY <2>1, <1>1, <1>4 DEF Truthful
  <2> QED BY <2>2, <1>2, <1>4 DEF Right
<1>5. CASE svc[d] \in {"paused", "complete", "error"} /\ svc' = svc /\ Sends("paused", d)
  <2>1. Truthful(d)
    BY <1>5 DEF Right
  <2>2. /\ \A ks : Pend(stream', d, ks) <=> Pend(stream, d, ks) \/ "paused" \in ks
        /\ PauseLast(stream', d)
        /\ MadeFirst(stream, d) /\ Pend(stream, d, EventKinds) => MadeFirst(stream', d)
    BY <1>5, Sent DEF ListInv, Types
  <2>3. /\ ~Has(Real(d))' => MadeFirst(stream', d)
        /\ Pend(stream', d, EventKinds) /\ ~Pend(stream', d, {"removed"})
    BY <2>1, <2>2, <1>5 DEF Truthful, EventKinds
  <2>4. /\ WillBeDone(d)' <=> WillBeDone(d)
        /\ WillBeErr(d)' <=> WillBeErr(d)
        /\ WillBePaused(d)'
    BY <2>2
  <2>5. Truthful(d)'
    BY <2>1, <2>3, <2>4, <1>1, <1>5 DEF Truthful
  <2> QED BY <2>5, <1>2, <1>5 DEF Right
<1>6. CASE svc[d] \in {"none", "removed"} /\ answer = "error" /\ svc' = svc /\ stream' = stream
  <2>1. Leaving(d) => Leaving(d)'
    BY <1>1, <1>6 DEF Leaving
  <2>2. Waiting(d) => Waiting(d)'
    BY <1>1, <1>6 DEF Waiting, TempStays, RowOf
  <2> QED BY <2>1, <2>2, <1>2, <1>6 DEF Right
<1> QED BY <1>3, <1>4, <1>5, <1>6 DEF Pauses, Orderly

LEMMA ResumesRight ==
  ASSUME Orderly, ListInv, NEW d \in Downloads, Right(d), NEW answer, Resumes(d, answer),
         TempStays(d), Has(Real(d))' <=> Has(Real(d)), results' = results, enq' = enq,
         RowOf(d)'.done = RowOf(d).done, RowOf(d)'.err = RowOf(d).err,
         answer = "error" =>
           /\ RowOf(d)'.paused = RowOf(d).paused /\ RowOf(d)'.pausing = RowOf(d).pausing
           /\ \/ RowOf(d)' = RowOf(d)
              \/ Has(Real(d)) /\ RowOf(d).paused /\ RowOf(d).done = FALSE
  PROVE  Right(d)'
<1>1. \A l : Due(l, d)' <=> Due(l, d)
  BY DEF Due
<1>2. TempFine(d)'
  BY <1>1, TempRight DEF Right
<1> USE DEF WillBeDone, WillBeErr, WillBePaused, WillBePausing
<1>3. CASE svc[d] = "paused" /\ Sends("resumed", d) /\ svc'[d] = "queued"
  <2>1. Truthful(d)
    BY <1>3 DEF Right
  <2>2. /\ \A ks : Pend(stream', d, ks) <=> Pend(stream, d, ks) \/ "resumed" \in ks
        /\ ~PauseLast(stream', d)
        /\ MadeFirst(stream, d) /\ Pend(stream, d, EventKinds) => MadeFirst(stream', d)
    BY <1>3, Sent DEF ListInv, Types
  <2>3. /\ ~Has(Real(d))' => MadeFirst(stream', d)
        /\ Pend(stream', d, EventKinds) /\ ~Pend(stream', d, {"removed"})
    BY <2>1, <2>2, <1>3 DEF Truthful, EventKinds
  <2>4. ~WillBeDone(d)' /\ ~WillBeErr(d)' /\ ~WillBePaused(d)'
    BY <2>1, <2>2, <1>3 DEF Truthful
  <2>5. Truthful(d)'
    BY <2>3, <2>4, <1>3 DEF Truthful
  <2> QED BY <2>5, <1>2, <1>3 DEF Right
<1>4. CASE /\ svc[d] \in {"pausing", "complete", "none", "removed"}
           /\ answer = "error" /\ svc' = svc /\ stream' = stream
  <2>1. Truthful(d) => Truthful(d)'
    BY <1>1, <1>4 DEF Truthful
  <2>2. Leaving(d) => Leaving(d)'
    BY <1>1, <1>4 DEF Leaving
  <2>3. Waiting(d) => Waiting(d)'
    <3>1. CASE RowOf(d)' = RowOf(d)
      BY <3>1, <1>1 DEF Waiting, TempStays, RowOf
    <3>2. CASE Has(Real(d)) /\ RowOf(d).paused /\ RowOf(d).done = FALSE
      <4>1. Waiting(d) => enq[d].at # "called"
        BY <3>2, NewFlags DEF Waiting
      <4>2. Waiting(d) /\ enq[d].at = "failed" => Due("enqueueError", d)
        BY <3>2 DEF Waiting, RowOf
      <4> QED BY <4>1, <4>2, <1>1 DEF Waiting
    <3> QED BY <3>1, <3>2, <1>4
  <2> QED BY <2>1, <2>2, <2>3, <1>2, <1>4 DEF Right
<1> QED BY <1>3, <1>4 DEF Resumes, Orderly

LEMMA DeletesRight ==
  ASSUME Orderly, ListInv, NEW d \in Downloads, Right(d), Deletes(d),
         TempStays(d), Has(Real(d))' => Has(Real(d)), results' = results, enq' = enq,
         Has(Real(d))' => RowOf(d)' = RowOf(d),
         ~Has(Real(d))' => RowOf(d)' = NewDownloadModel(Real(d))
  PROVE  Right(d)'
<1>1. \A l : Due(l, d)' <=> Due(l, d)
  BY DEF Due
<1>2. TempFine(d)'
  BY <1>1, TempRight DEF Right
<1>3. CASE svc[d] = "removed" /\ svc' = svc /\ stream' = stream
  <2>1. Leaving(d)'
    BY <1>1, <1>3 DEF Leaving, Right
  <2> QED BY <2>1, <1>2, <1>3 DEF Right
<1>4. CASE svc[d] = "none" /\ svc' = svc /\ stream' = stream
  <2>1. Waiting(d)
    BY <1>4 DEF Right
  <2>2. enq[d].at = "called" => RowOf(d)' = NewDownloadModel(Real(d))
    BY <2>1 DEF Waiting
  <2>3. Has(Real(d))' => Row(Real(d))' = Row(Real(d))
    BY DEF RowOf
  <2>4. Waiting(d)'
    BY <2>1, <2>2, <2>3, <1>1 DEF Waiting, TempStays
  <2> QED BY <2>4, <1>2, <1>4 DEF Right
<1>5. CASE svc[d] \notin {"none", "removed"} /\ Known(d) /\ Sends("removed", d) /\ svc'[d] = "removed"
  <2>1. Truthful(d)
    BY <1>5 DEF Right
  <2>2. enq[d].at \in {"stored", "done"} /\ ~\E r \in results : r.kind = "enqueueSuccess" /\ r.d = d
    BY <1>5 DEF Known, Orderly
  <2>3. ~Due("enqueueSuccess", d)'
    BY <2>2, <1>1 DEF Due
  <2>4. /\ \A ks : Pend(stream', d, ks) <=> Pend(stream, d, ks) \/ "removed" \in ks
        /\ RemovedLast(stream', d)
    BY <2>1, <1>5, Sent DEF ListInv, Types, Truthful
  <2>5. Leaving(d)'
    BY <2>2, <2>3, <2>4 DEF Leaving
  <2> QED BY <2>5, <1>2, <1>5 DEF Right
<1> QED BY <1>3, <1>4, <1>5 DEF Deletes

LEMMA ServiceRight ==
  ASSUME Orderly, ListInv, NEW d \in Downloads, Right(d),
         \/ EnqueueFails(d) \/ Dispatch(d) \/ PublishQueued(d)
         \/ AddElsewhere(d) \/ RequestElsewhere(d) \/ CallElsewhere(d) \/ ResumeStored(d)
         \/ Starts(d) \/ Progresses(d) \/ Completes(d) \/ Fails(d) \/ Stops(d)
  PROVE  Right(d)'
<1>1. rows' = rows
  BY EnqueueSteps, WorkSteps, CallElsewhereStep DEF ServiceAbout, ServedOnly, InterfaceKeeps
<1>2. RealStays(d) /\ TempStays(d)
  BY <1>1, RowsSame
<1>3. CASE Starts(d) \/ Progresses(d) \/ Completes(d) \/ Fails(d) \/ Stops(d)
  <2>1. Working(d) /\ results' = results /\ enq' = enq
    BY <1>3, WorkSteps DEF ServedOnly
  <2> QED BY <2>1, <1>2, WorkingRight
<1>4. CASE CallElsewhere(d)
  <2>1. /\ (\E answer \in {"nil", "error"} : Pauses(d, answer) \/ Resumes(d, answer)) \/ Deletes(d)
        /\ results' = results /\ enq' = enq
    BY <1>4, CallElsewhereStep DEF ServedOnly
  <2>2. /\ Has(Real(d))' <=> Has(Real(d))
        /\ RowOf(d)' = RowOf(d)
        /\ ~Has(Real(d)) => RowOf(d) = NewDownloadModel(Real(d))
    BY <1>2 DEF RealStays, RowOf
  <2>3. ASSUME NEW answer, Pauses(d, answer) PROVE Right(d)'
    BY <2>1, <2>2, <2>3, <1>2, PausesRight
  <2>4. ASSUME NEW answer, Resumes(d, answer) PROVE Right(d)'
    BY <2>1, <2>2, <2>4, <1>2, ResumesRight
  <2>5. CASE Deletes(d)
    BY <2>1, <2>2, <2>5, <1>2, DeletesRight
  <2> QED BY <2>1, <2>3, <2>4, <2>5
<1> QED BY <1>2, <1>3, <1>4, EnqueueFailsRight, DispatchRight, PublishQueuedRight, ElsewhereRight,
           ResumeStoredRight

(* Answers.                                                                *)
LEMMA AnswerTruthful ==
  ASSUME NEW d, NEW k, Truthful(d), Answer(k, d),
         Has(Real(d)) => Has(Real(d))',
         RowOf(d)'.done = RowOf(d).done, RowOf(d)'.err = RowOf(d).err,
         \/ RowOf(d)'.paused = RowOf(d).paused /\ RowOf(d)'.pausing = RowOf(d).pausing
         \/ /\ RowOf(d)'.paused = FALSE /\ RowOf(d)'.pausing = FALSE
            /\ svc[d] # "paused"
  PROVE  Truthful(d)'
<1>1. svc' = svc /\ stream' = stream /\ enq' = enq /\ \A l : Due(l, d)' => Due(l, d)
  BY DEF Answer, Due
<1>2. /\ WillBeDone(d)' <=> WillBeDone(d)
      /\ WillBeErr(d)' <=> WillBeErr(d)
      /\ svc[d] = "paused" => (WillBePaused(d)' <=> WillBePaused(d))
      /\ WillBePaused(d)' => WillBePaused(d)
      /\ WillBePausing(d)' => WillBePausing(d)
  BY <1>1 DEF WillBeDone, WillBeErr, WillBePaused, WillBePausing
<1> QED BY <1>1, <1>2 DEF Truthful

LEMMA EnqueueSuccessRight ==
  ASSUME ListInv, NEW d \in Downloads, Right(d), EnqueueSuccess(d)
  PROVE  Right(d)'
<1>1. /\ Answer("enqueueSuccess", d)
      /\ ~Has(Temp(d))' /\ (Has(Real(d))' <=> Has(Real(d)) \/ Has(Temp(d)))
      /\ RowOf(d)' = IF Has(Real(d)) \/ ~Has(Temp(d)) THEN RowOf(d)
                     ELSE [Row(Temp(d)) EXCEPT !.id = Real(d)]
  BY EnqueueSuccessStep
<1>2. enq[d].at = "done" /\ svc[d] # "none" /\ svc'[d] = svc[d]
  BY <1>1 DEF Answer, ListInv, ListFine, Unsent, Unasked
<1>3. Truthful(d) /\ svc[d] # "removed"
  BY <1>1, <1>2 DEF Right, Leaving, Answer
<1>4. Has(Temp(d)) => Row(Temp(d)) = NewDownloadModel(Temp(d))
  BY <1>2 DEF Right, TempFine
<1>5. Has(Temp(d)) => LET r == Row(Temp(d)) q == [r EXCEPT !.id = Real(d)] IN
        /\ q.done = r.done /\ q.err = r.err /\ q.paused = r.paused /\ q.pausing = r.pausing
  BY RowOfType DEF Rows
<1>6. /\ RowOf(d)'.done = RowOf(d).done /\ RowOf(d)'.err = RowOf(d).err
      /\ RowOf(d)'.paused = RowOf(d).paused /\ RowOf(d)'.pausing = RowOf(d).pausing
  <2>1. CASE Has(Real(d)) \/ ~Has(Temp(d))
    BY <2>1, <1>1
  <2>2. CASE ~Has(Real(d)) /\ Has(Temp(d))
    <3>1. RowOf(d) = NewDownloadModel(Real(d)) /\ RowOf(d)' = [Row(Temp(d)) EXCEPT !.id = Real(d)]
      BY <2>2, <1>1 DEF RowOf
    <3> QED BY <2>2, <3>1, <1>4, <1>5, NewFlags
  <2> QED BY <2>1, <2>2
<1>7. Truthful(d)'
  BY <1>1, <1>3, <1>6, AnswerTruthful
<1> QED BY <1>1, <1>2, <1>3, <1>7 DEF Right, TempFine

LEMMA EnqueueErrorRight ==
  ASSUME ListInv, NEW d \in Downloads, EnqueueError(d)
  PROVE  Right(d)'
<1>1. /\ Answer("enqueueError", d)
      /\ \/ /\ enq[d].via = "temp" /\ RealStays(d)
            /\ Has(Temp(d))' /\ Row(Temp(d))'.done = TRUE /\ Row(Temp(d))'.err = TRUE
         \/ /\ enq[d].via = "real" /\ TempStays(d)
            /\ Has(Real(d))' /\ Row(Real(d))'.done = TRUE /\ Row(Real(d))'.err = TRUE
  BY EnqueueErrorStep
<1>2. enq[d].at = "failed" /\ svc[d] = "none" /\ svc'[d] = svc[d] /\ enq'[d] = enq[d]
  BY <1>1 DEF Answer, ListInv, ListFine, Unsent
<1>3. /\ Has(Real(d)) => enq[d].via = "real"
      /\ Has(Temp(d)) => enq[d].via = "temp"
  BY <1>2 DEF ListInv, ListFine, Unsent
<1>4. \A id \in {Temp(d), Real(d)} : Has(id)' => Row(id)'.done /\ Row(id)'.err
  BY <1>1, <1>3 DEF RealStays, TempStays
<1>5. Waiting(d)'
  BY <1>2, <1>4 DEF Waiting
<1> QED BY <1>2, <1>5 DEF Right, TempFine

LEMMA ResumeResultRight ==
  ASSUME ListInv, NEW d \in Downloads, Right(d), ResumeResult(d)
  PROVE  Right(d)'
<1>1. /\ Answer("resumeResult", d) /\ TempStays(d)
      /\ Has(Real(d))' <=> Has(Real(d))
      /\ RowOf(d)'.paused = FALSE /\ RowOf(d)'.pausing = FALSE
      /\ RowOf(d)'.done = RowOf(d).done /\ RowOf(d)'.err = RowOf(d).err
  BY ResumeResultStep
<1>2. svc[d] # "none" /\ svc'[d] = svc[d] /\ stream' = stream /\ enq' = enq
  BY <1>1 DEF Answer, ListInv, ListFine, Unsent, Unasked
<1>3. /\ Due("resumeResult", d)
      /\ \A l : Due(l, d)' <=> Due(l, d) /\ l # "resumeResult"
  BY <1>1 DEF Answer, Due
<1>4. Truthful(d) => svc[d] # "paused"
  BY <1>3 DEF Truthful
<1>5. Truthful(d) => Truthful(d)'
  BY <1>1, <1>4, AnswerTruthful
<1>6. Leaving(d) => Leaving(d)'
  BY <1>1, <1>2, <1>3 DEF Leaving
<1>7. TempFine(d)'
  BY <1>1, <1>2, <1>3, TempRight DEF Right
<1> QED BY <1>2, <1>5, <1>6, <1>7 DEF Right

(* A download that begins, or that the user was asked about.               *)
LEMMA BegunRight ==
  ASSUME NEW d, NEW via \in {"temp", "real"}, Begun(d, via), svc'[d] = "none"
  PROVE  Right(d)'
BY DEF Begun, Right, Waiting, TempFine

LEMMA DecidesRight ==
  ASSUME ListInv, NEW d \in Downloads, Decides(d)
  PROVE  Right(d)'
<1>1. svc'[d] = "none" /\ ~Has(Temp(d))
  BY DEF Decides, ListInv, ListFine, Unsent
<1>2. ASSUME NEW via \in {"temp", "real"}, Begins(d, via)
      PROVE  Right(d)'
  BY <1>1, <1>2, BegunRight DEF Begins
<1>3. CASE rows' = rows /\ enq'[d].at \in Unasked
  <2>1. ~Has(Temp(d))'
    BY <1>1, <1>3 DEF Has
  <2> QED BY <2>1, <1>1, <1>3 DEF Right, Waiting, TempFine, Unasked
<1> QED BY <1>2, <1>3 DEF Decides

(* Keys.                                                                   *)
LEMMA DeleteRight ==
  ASSUME Orderly, ListInv, NEW d \in Downloads, Right(d), Delete(d)
  PROVE  Right(d)'
<1>1. /\ results' = results /\ enq' = enq
      /\ \/ ~Has(Temp(d))' /\ RealStays(d) /\ svc' = svc /\ stream' = stream
         \/ ~Has(Real(d))' /\ TempStays(d) /\ Deletes(d)
  BY DeleteStep
<1>2. CASE ~Has(Temp(d))' /\ RealStays(d) /\ svc' = svc /\ stream' = stream
  <2>1. \A l : Due(l, d)' <=> Due(l, d)
    BY <1>1 DEF Due
  <2>2. /\ WillBeDone(d)' <=> WillBeDone(d)
        /\ WillBeErr(d)' <=> WillBeErr(d)
        /\ WillBePaused(d)' <=> WillBePaused(d)
        /\ WillBePausing(d)' <=> WillBePausing(d)
    BY <1>2 DEF RealStays, WillBeDone, WillBeErr, WillBePaused, WillBePausing
  <2>3. Truthful(d) => Truthful(d)'
    BY <1>1, <1>2, <2>1, <2>2 DEF Truthful, RealStays
  <2>4. Leaving(d) => Leaving(d)'
    BY <1>1, <1>2, <2>1 DEF Leaving, RealStays
  <2>5. Has(Real(d)) => Row(Real(d))' = Row(Real(d))
    BY <1>2 DEF RealStays, RowOf
  <2>6. Waiting(d) => Waiting(d)'
    BY <1>1, <1>2, <2>1, <2>5 DEF Waiting, RealStays
  <2> QED BY <1>2, <2>3, <2>4, <2>6 DEF Right, TempFine
<1>3. CASE ~Has(Real(d))' /\ TempStays(d) /\ Deletes(d)
  <2>1. RowOf(d)' = NewDownloadModel(Real(d))
    BY <1>3 DEF RowOf
  <2> QED BY <1>1, <1>3, <2>1, DeletesRight
<1> QED BY <1>1, <1>2, <1>3

LEMMA PauseRight ==
  ASSUME Orderly, ListInv, NEW d \in Downloads, Right(d), Pause(d)
  PROVE  Right(d)'
<1>1. /\ results' = results /\ enq' = enq
      /\ TempStays(d) /\ Has(Real(d)) /\ Has(Real(d))' /\ RowOf(d).done = FALSE
      /\ RowOf(d)'.done = RowOf(d).done /\ RowOf(d)'.err = RowOf(d).err
      /\ \/ /\ RowOf(d).paused /\ Resumes(d, "nil")
            /\ RowOf(d)'.paused = FALSE /\ RowOf(d)'.pausing = RowOf(d).pausing
         \/ /\ RowOf(d).paused /\ Resumes(d, "error")
            /\ RowOf(d)'.paused = RowOf(d).paused /\ RowOf(d)'.pausing = RowOf(d).pausing
         \/ /\ ~RowOf(d).paused /\ Pauses(d, "nil")
            /\ RowOf(d)'.paused = RowOf(d).paused /\ RowOf(d)'.pausing = TRUE
         \/ ~RowOf(d).paused /\ Pauses(d, "error") /\ RowOf(d)' = RowOf(d)
  BY PauseStep
<1>2. CASE RowOf(d).paused /\ Resumes(d, "nil")
  BY <1>1, <1>2, ResumesRight
<1>3. CASE /\ RowOf(d).paused /\ Resumes(d, "error")
           /\ RowOf(d)'.paused = RowOf(d).paused /\ RowOf(d)'.pausing = RowOf(d).pausing
  BY <1>1, <1>3, ResumesRight
<1>4. CASE Pauses(d, "nil") /\ RowOf(d)'.paused = RowOf(d).paused
  BY <1>1, <1>4, PausesRight
<1>5. CASE Pauses(d, "error") /\ RowOf(d)' = RowOf(d)
  BY <1>1, <1>5, PausesRight
<1> QED BY <1>1, <1>2, <1>3, <1>4, <1>5

-----------------------------------------------------------------------------
LEMMA InitRight ==
  ASSUME Init
  PROVE  RowsRight
<1>1. PICK status \in Listed, auto \in BOOLEAN :
        /\ RowIds(rows) = {Real(d) : d \in Stored}
        /\ \A d \in Stored : FindDownloadByID(rows, Real(d)) = StoredRow(d, status[d], auto)
        /\ svc = [d \in Downloads |->
                   IF d \notin Stored THEN "none"
                   ELSE IF status[d] = "complete" THEN "complete" ELSE "paused"]
        /\ enq = [d \in Downloads |->
                   [at |-> IF d \notin Stored THEN "no"
                           ELSE IF ToResume(status[d], auto) THEN "stored" ELSE "done",
                    via |-> "none"]]
  BY InitRows
<1>2. stream = <<>> /\ results = {}
  BY DEF Init
<1> SUFFICES ASSUME NEW d \in Downloads PROVE Right(d)
  BY DEF RowsRight
<1>3. /\ \A ks : ~Pend(stream, d, ks)
      /\ ~PauseLast(stream, d) /\ \A l : ~Due(l, d)
  BY <1>2 DEF Pend, PauseLast, Due
<1>4. ~Has(Temp(d)) /\ (Has(Real(d)) <=> d \in Stored)
  BY <1>1 DEF Has, Temp, Real
<1>5. CASE d \notin Stored
  BY <1>1, <1>4, <1>5 DEF Right, Waiting, TempFine
<1>6. CASE d \in Stored
  <2>1. RowOf(d) = StoredRow(d, status[d], auto)
    BY <1>1, <1>4, <1>6 DEF RowOf, Row
  <2>2. /\ RowOf(d).done <=> status[d] = "complete"
        /\ RowOf(d).err = FALSE
        /\ RowOf(d).paused <=> status[d] # "complete"
    BY <2>1 DEF StoredRow, NewDownloadModel
  <2>3. svc[d] = IF status[d] = "complete" THEN "complete" ELSE "paused"
    BY <1>1, <1>6
  <2>4. Truthful(d)
    BY <1>3, <1>4, <1>6, <2>2, <2>3 DEF Truthful, WillBeDone, WillBeErr, WillBePaused
  <2> QED BY <1>4, <2>3, <2>4 DEF Right, TempFine
<1> QED BY <1>5, <1>6

(* Every step keeps what the rows will say.                                *)
LEMMA NextRight ==
  ASSUME Orderly, ListInv, RowsRight, [Next]_vars
  PROVE  RowsRight'
<1>1. ASSUME NEW d \in Downloads, StepAbout(d), Right(d) => Right(d)'
      PROVE  RowsRight'
  <2>1. lost \subseteq lost'
    BY <1>1 DEF StepAbout
  <2>2. d \notin lost' => Right(d)'
    BY <1>1, <2>1 DEF RowsRight
  <2> QED BY <1>1, <2>2, StepRight
<1>2. ASSUME Rests
      PROVE  RowsRight'
  <2>1. \A e \in Downloads : Aloof(e)
    BY <1>2, RestsFine
  <2>2. lost' = lost
    BY <1>2 DEF Rests
  <2> QED BY <2>1, <2>2, AloofRight DEF RowsRight
<1>3. ASSUME TheService
      PROVE  RowsRight'
  <2> PICK d \in Downloads :
        \/ EnqueueFails(d) \/ Dispatch(d) \/ PublishQueued(d)
        \/ AddElsewhere(d) \/ RequestElsewhere(d) \/ CallElsewhere(d) \/ ResumeStored(d)
        \/ Starts(d) \/ Progresses(d) \/ Completes(d) \/ Fails(d) \/ Stops(d)
    BY <1>3 DEF TheService
  <2>1. Right(d) => Right(d)'
    BY ServiceRight
  <2>2. StepAbout(d)
    <3>1. CASE EnqueueFails(d) \/ Dispatch(d) \/ PublishQueued(d) \/ AddElsewhere(d)
               \/ RequestElsewhere(d) \/ ResumeStored(d)
      <4>1. ServiceAbout(d)
        BY <3>1, EnqueueSteps
      <4>2. lost' = lost
        BY <3>1 DEF EnqueueFails, Dispatch, PublishQueued, AddElsewhere, RequestElsewhere,
                    ResumeStored, counts
      <4> QED BY <4>1, <4>2, ServiceIsAbout
    <3>2. CASE CallElsewhere(d)
      BY <3>2, CallElsewhereStep, ServedFine, ServiceIsAbout
    <3>3. CASE Starts(d) \/ Progresses(d) \/ Completes(d) \/ Fails(d) \/ Stops(d)
      BY <3>3, WorkSteps, ServedFine, ServiceIsAbout
    <3> QED BY <3>1, <3>2, <3>3
  <2> QED BY <2>1, <2>2, <1>1
<1>4. ASSUME Message
      PROVE  RowsRight'
  <2>1. CASE Refresh
    BY <2>1, <1>2, KeysRest
  <2>2. ASSUME NEW d \in Downloads,
               \/ Progress(d) \/ Complete(d) \/ Error(d) \/ Removed(d)
               \/ \E kind \in {"paused", "resumed"} : PausedOrResumed(d, kind)
               \/ Queued(d) \/ Started(d)
        PROVE  RowsRight'
    <3>1. CASE d \in lost
      <4>1. StepAbout(d) /\ lost' = lost
        <5>1. \E k \in EventKinds \ {"request"} :
                Told(k, d) /\ RowsAbout(d) /\ ListView /\ TempStays(d)
          <6>1. {"progress", "complete", "error", "removed", "paused", "resumed", "queued",
                 "started"} \subseteq EventKinds \ {"request"}
            BY DEF EventKinds
          <6> QED BY <2>2, <6>1, ProgressStep, CompleteStep, ErrorStep, RemovedStep,
                     PausedOrResumedStep, QueuedStep, StartedStep
        <5> QED BY <5>1, ToldFine DEF Told
      <4> QED BY <3>1, <4>1, StepRight
    <3>2. CASE d \notin lost
      BY <2>2, <3>2, <1>1, ToldRight DEF RowsRight
    <3> QED BY <3>1, <3>2
  <2>3. ASSUME NEW d \in Downloads, Request(d)
        PROVE  RowsRight'
    BY <2>3, <1>1, RequestStep, DecidesRight
  <2>4. ASSUME NEW d \in Downloads, EnqueueSuccess(d) \/ EnqueueError(d) \/ ResumeResult(d)
        PROVE  RowsRight'
    BY <2>4, <1>1, AnswersFine, EnqueueSuccessRight, EnqueueErrorRight, ResumeResultRight
  <2> QED BY <1>4, <2>1, <2>2, <2>3, <2>4 DEF Message
<1>5. ASSUME Swallow
      PROVE  RowsRight'
  <2>1. PICK d \in Downloads : lost' = lost \cup {d} /\ StepAbout(d)
    BY <1>5, SwallowStep
  <2> QED BY <2>1, StepRight
<1>6. ASSUME Dialog
      PROVE  RowsRight'
  <2>1. ASSUME NEW d \in Downloads, SubmitInputForm(d)
        PROVE  RowsRight'
    BY <2>1, <1>1, SubmitInputFormStep, DecidesRight
  <2>2. ASSUME NEW ds \in SUBSET Downloads, UpdateBatchConfirm(ds)
        PROVE  RowsRight'
    <3>1. /\ lost' = lost /\ svc' = svc
          /\ \A e \in Downloads \ ds : Aloof(e)
          /\ \A d \in ds : Begun(d, "temp") /\ enq[d].at \in Unasked
      BY <2>2, BatchStep
    <3>2. ASSUME NEW d \in ds
          PROVE  Right(d)'
      <4>1. svc'[d] = "none"
        BY <3>1 DEF ListInv, ListFine, Unsent
      <4> QED BY <3>1, <4>1, BegunRight
    <3>3. ASSUME NEW d \in Downloads \ ds, Right(d)
          PROVE  Right(d)'
      BY <3>1, <3>3, AloofRight
    <3> QED BY <3>1, <3>2, <3>3 DEF RowsRight
  <2>3. CASE \/ UpdateExtensionConfirmation /\ dialog' = "duplicate"
                /\ UNCHANGED <<rows, list, origin, asked, awaiting, service>>
             \/ OpenDirectoryPicker \/ UpdateFilePicker \/ OtherDialogs \/ UpdateNotice
    BY <2>3, <1>2, DialogsRest
  <2>4. ASSUME Asking, NEW d \in Downloads, d = asked, Answered, Quiet,
           \/ StartDownload(asked, "temp") /\ UNCHANGED origin
           \/ /\ EnqAt(asked, "declined") /\ UNCHANGED <<rows, items, tab, svc>>
              /\ origin' \in {origin, "none"} /\ cursor' \in {cursor} \cup DOMAIN items
        PROVE  RowsRight'
    <3>1. StepAbout(d) /\ Decides(d)
      BY <2>4, AnsweredStep DEF Quiet
    <3> QED BY <3>1, <1>1, DecidesRight
  <2>5. CASE UpdateExtensionConfirmation
    BY <2>3, <2>4, <2>5 DEF UpdateExtensionConfirmation, Asking, ListInv, Types, TypeOK
  <2>6. CASE UpdateDuplicateWarning
    BY <2>4, <2>6 DEF UpdateDuplicateWarning, Asking, ListInv, Types, TypeOK
  <2>7. CASE Decline
    BY <2>4, <2>7 DEF Decline, Asking, ListInv, Types, TypeOK
  <2> QED BY <1>6, <2>1, <2>2, <2>3, <2>5, <2>6, <2>7 DEF Dialog
<1>7. ASSUME DashboardKey
      PROVE  RowsRight'
  <2>1. CASE Move \/ PinTab \/ \E t \in Tabs : SwitchTab(t)
    BY <2>1, <1>2, KeysRest
  <2>2. ASSUME NEW d \in Downloads, Delete(d) \/ Pause(d)
        PROVE  RowsRight'
    BY <2>2, <1>1, DeleteStep, PauseStep, DeleteRight, PauseRight
  <2> QED BY <1>7, <2>1, <2>2 DEF DashboardKey, Tabs
<1>8. ASSUME UNCHANGED vars
      PROVE  RowsRight'
  <2>1. Rests
    BY <1>8, ListSame DEF vars, Rests, list, dialogs, service, counts, ListInv, Types, TypeOK,
                          Pickers, Dialogs, Asking
  <2> QED BY <2>1, <1>2
<1> QED BY <1>3, <1>4, <1>5, <1>6, <1>7, <1>8 DEF Next

-----------------------------------------------------------------------------
(* The rows of a download are those under its two ids.                     *)
LEMMA RowsByIds ==
  ASSUME ListInv, NEW d \in Downloads
  PROVE  /\ \A i \in RowsOf(d) :
              \E id \in {Temp(d), Real(d)} : Has(id) /\ rows[i].id = id /\ rows[i] = Row(id)
         /\ \A id \in {Temp(d), Real(d)} : Has(id) => \E i \in RowsOf(d) : rows[i].id = id
         /\ \A i, j \in RowsOf(d) : rows[i].id = rows[j].id => i = j
<1>1. rows \in Seq(Rows) /\ Distinct(rows)
  BY DEF ListInv, Types, TypeOK, Rows
<1>2. ASSUME NEW i \in RowsOf(d)
      PROVE  \E id \in {Temp(d), Real(d)} : Has(id) /\ rows[i].id = id /\ rows[i] = Row(id)
  <2>1. i \in DOMAIN rows /\ rows[i].id[2] = d
    BY DEF RowsOf
  <2>2. rows[i] \in Rows /\ rows[i].id \in RowIds(rows) /\ Row(rows[i].id) = rows[i]
    BY <2>1, <1>1, SeqTypes, OnlyRow DEF Row
  <2>3. rows[i].id \in {Temp(d), Real(d)}
    BY <2>1, <2>2 DEF Rows, Ids, Temp, Real
  <2> QED BY <2>2, <2>3 DEF Has
<1>3. ASSUME NEW id \in {Temp(d), Real(d)}, Has(id)
      PROVE  \E i \in RowsOf(d) : rows[i].id = id
  <2>1. PICK i \in DOMAIN rows : rows[i].id = id
    BY <1>3 DEF Has, RowIds
  <2>2. id[2] = d
    BY IdFacts
  <2> QED BY <2>1, <2>2 DEF RowsOf
<1>4. \A i, j \in RowsOf(d) : rows[i].id = rows[j].id => i = j
  BY <1>1 DEF Distinct, RowsOf
<1> QED BY <1>2, <1>3, <1>4

LEMMA OneRow ==
  ASSUME ListInv, NEW d \in Downloads, ~Has(Temp(d)) \/ ~Has(Real(d))
  PROVE  /\ Cardinality(RowsOf(d)) <= 1
         /\ ~Has(Temp(d)) /\ ~Has(Real(d)) => RowsOf(d) = {}
         /\ ~Has(Temp(d)) /\ Has(Real(d)) =>
              Cardinality(RowsOf(d)) = 1 /\ TheRow(d).id = Real(d) /\ TheRow(d) = Row(Real(d))
<1>1. /\ \A i \in RowsOf(d) :
           \E id \in {Temp(d), Real(d)} : Has(id) /\ rows[i].id = id /\ rows[i] = Row(id)
      /\ \A id \in {Temp(d), Real(d)} : Has(id) => \E i \in RowsOf(d) : rows[i].id = id
      /\ \A i, j \in RowsOf(d) : rows[i].id = rows[j].id => i = j
  BY RowsByIds
<1>2. \A i, j \in RowsOf(d) : i = j
  BY <1>1
<1>3. RowsOf(d) = {} \/ \E i : RowsOf(d) = {i}
  BY <1>2
<1>4. RowsOf(d) # {} => Cardinality(RowsOf(d)) = 1
  BY <1>3, FS_Singleton
<1>5. Cardinality(RowsOf(d)) <= 1
  BY <1>4, FS_EmptySet
<1>6. ~Has(Temp(d)) /\ ~Has(Real(d)) => RowsOf(d) = {}
  BY <1>1
<1>7. ASSUME ~Has(Temp(d)), Has(Real(d))
      PROVE  Cardinality(RowsOf(d)) = 1 /\ TheRow(d).id = Real(d) /\ TheRow(d) = Row(Real(d))
  <2>1. RowsOf(d) # {}
    BY <1>1, <1>7
  <2>2. \A i \in RowsOf(d) : rows[i].id = Real(d) /\ rows[i] = Row(Real(d))
    BY <1>1, <1>7
  <2>3. (CHOOSE i \in RowsOf(d) : TRUE) \in RowsOf(d)
    BY <2>1
  <2> QED BY <1>4, <2>1, <2>2, <2>3 DEF TheRow
<1> QED BY <1>5, <1>6, <1>7

LEMMA RightIsTrue ==
  ASSUME ListInv, RowsRight
  PROVE  ListIsTrue
<1> SUFFICES ASSUME AtRest, NEW d \in Downloads \ lost
             PROVE  LET s == svc[d] IN
                    IF enq[d].at = "failed"
                    THEN Cardinality(RowsOf(d)) <= 1 /\ \A i \in RowsOf(d) : rows[i].done /\ rows[i].err
                    ELSE IF s \in {"none", "removed"} THEN RowsOf(d) = {}
                    ELSE /\ Cardinality(RowsOf(d)) = 1 /\ TheRow(d).id = Real(d)
                         /\ TheRow(d).done = (s \in {"complete", "error"})
                         /\ TheRow(d).err = (s = "error")
                         /\ s = "paused" => TheRow(d).paused
                         /\ s \in {"queued", "active"} => ~TheRow(d).paused
                         /\ s = "active" => ~TheRow(d).pausing
  BY DEF ListIsTrue
<1>1. /\ \A ks : ~Pend(stream, d, ks)
      /\ ~PauseLast(stream, d) /\ \A l : ~Due(l, d)
      /\ enq[d].at \notin {"called", "dispatched"}
  BY DEF AtRest, EnqueueRuns, Pend, PauseLast, Due
<1>2. Right(d) /\ ListFine(d) /\ enq[d].at \in Places
  BY DEF RowsRight, ListInv, Types
<1>3. CASE enq[d].at = "failed"
  <2>1. svc[d] = "none" /\ (~Has(Temp(d)) \/ ~Has(Real(d)))
    BY <1>2, <1>3 DEF ListFine, Unsent
  <2>2. \A id \in {Temp(d), Real(d)} : Has(id) => Row(id).done /\ Row(id).err
    BY <2>1, <1>1, <1>2, <1>3 DEF Right, Waiting
  <2>3. \A i \in RowsOf(d) : rows[i].done /\ rows[i].err
    BY <2>2, RowsByIds
  <2>4. Cardinality(RowsOf(d)) <= 1
    BY <2>1, OneRow
  <2> QED BY <1>3, <2>3, <2>4
<1>4. CASE enq[d].at # "failed"
  <2>1. ~Has(Temp(d))
    BY <1>1, <1>2, <1>4 DEF Right, TempFine
  <2>2. CASE svc[d] \in {"none", "removed"}
    <3>1. ~Has(Real(d))
      BY <1>1, <1>2, <1>4, <2>2 DEF Right, Leaving, ListFine, Unsent, Unasked
    <3> QED BY <1>4, <2>1, <2>2, <3>1, OneRow
  <2>3. CASE svc[d] \notin {"none", "removed"}
    <3>1. Truthful(d) /\ Has(Real(d))
      BY <1>1, <1>2, <2>3 DEF Right, Truthful
    <3>2. Cardinality(RowsOf(d)) = 1 /\ TheRow(d).id = Real(d) /\ TheRow(d) = RowOf(d)
      BY <2>1, <3>1, OneRow DEF RowOf
    <3>3. RowOf(d).done \in BOOLEAN /\ RowOf(d).err \in BOOLEAN
      BY FlagTypes
    <3>4. /\ RowOf(d).done <=> svc[d] \in {"complete", "error"}
          /\ RowOf(d).err <=> svc[d] = "error"
          /\ svc[d] = "paused" => RowOf(d).paused
          /\ svc[d] \in {"queued", "active"} => ~RowOf(d).paused
          /\ svc[d] = "active" => ~RowOf(d).pausing
      BY <3>1, <1>1 DEF Truthful, WillBeDone, WillBeErr, WillBePaused, WillBePausing
    <3>5. /\ RowOf(d).done = (svc[d] \in {"complete", "error"})
          /\ RowOf(d).err = (svc[d] = "error")
      BY <3>3, <3>4
    <3> QED BY <1>4, <2>3, <3>2, <3>4, <3>5
  <2> QED BY <2>2, <2>3
<1> QED BY <1>3, <1>4

(* When nothing is under way, the list says what is, of every download no  *)
(* picker has taken a message of and in whatever order events, results and *)
(* keys came; unless a download was removed before its id was known,       *)
(* paused before its resume was answered or while it waited for a worker,  *)
(* or revived after it failed (update_events.go, update_dashboard.go).     *)
THEOREM ListIsAlwaysTrue ==
  ASSUME Orderly
  PROVE  Spec => []ListIsTrue
<1>1. Init => ListInv /\ RowsRight
  BY InitFine, InitRight
<1>2. ListInv /\ RowsRight /\ [Next]_vars => (ListInv /\ RowsRight)'
  BY NextFine, NextRight
<1>3. ListInv /\ RowsRight => ListIsTrue
  BY RightIsTrue
<1> QED BY <1>1, <1>2, <1>3, PTL DEF Spec
=============================================================================
