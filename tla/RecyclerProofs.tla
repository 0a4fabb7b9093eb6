--------------------------- MODULE RecyclerProofs ---------------------------
(***************************************************************************)
(* Proofs about Recycler and RecyclerMachine, for any items and any number *)
(* of slots: what its operations do to a storage, which IoProofs and       *)
(* EventLoopProofs rest on as well; that a user who may do anything never  *)
(* breaks the storage; and that the storage is the finite map of SlotMap.  *)
(***************************************************************************)
EXTENDS RecyclerMachine, FiniteSetTheorems, SequenceTheorems, TLAPS

\* Options are closed under the two constructors and hold what was put in.
LEMMA OptionFacts ==
    ASSUME NEW T, NEW item \in T
    PROVE  /\ None \in Option(T)
           /\ Some(item) \in Option(T)
           /\ Some(item) # None
           /\ Some(item)[1] = item
           /\ \A o \in Option(T) : o # None => o[1] \in T
BY DEF None, Some, Option

\* An item read from a valid slot has the items' type.
LEMMA AtType ==
    ASSUME NEW T, NEW r \in RecyclerOf(T), NEW idx, Valid(r, idx)
    PROVE  At(r, idx) \in T /\ idx \in Nat
BY DEF RecyclerOf, Valid, At, Option, None

\* The empty storage is sound and has no valid index.
LEMMA EmptyFacts ==
    ASSUME NEW T
    PROVE  /\ EmptyRecycler \in RecyclerOf(T)
           /\ RecyclerOK(EmptyRecycler)
           /\ \A idx : ~Valid(EmptyRecycler, idx)
BY DEF EmptyRecycler, RecyclerOf, RecyclerOK, Valid

\* Assigning through a valid index changes that item and nothing else.
LEMMA UpdateFacts ==
    ASSUME NEW T, NEW r \in RecyclerOf(T), RecyclerOK(r),
           NEW idx, Valid(r, idx), NEW item \in T
    PROVE  /\ Update(r, idx, item) \in RecyclerOf(T)
           /\ RecyclerOK(Update(r, idx, item))
           /\ \A other : Valid(Update(r, idx, item), other) <=> Valid(r, other)
           /\ At(Update(r, idx, item), idx) = item
           /\ \A other : Valid(r, other) /\ other # idx =>
                  At(Update(r, idx, item), other) = At(r, other)
<1> DEFINE u == Update(r, idx, item)
<1>1. /\ Some(item) \in Option(T) /\ Some(item) # None /\ Some(item)[1] = item
  BY OptionFacts
<1>2. /\ r.data \in Seq(Option(T)) /\ r.free \in Seq(Nat)
      /\ idx \in 0 .. Len(r.data) - 1 /\ r.data[idx + 1] # None
  BY DEF RecyclerOf, Valid
<1>3. /\ u \in RecyclerOf(T)
      /\ u.free = r.free
      /\ u.data = [r.data EXCEPT ![idx + 1] = Some(item)]
      /\ Len(u.data) = Len(r.data)
  BY <1>1, <1>2 DEF RecyclerOf, Update
<1>4. \A k \in 0 .. Len(r.data) - 1 :
          u.data[k + 1] = IF k = idx THEN Some(item) ELSE r.data[k + 1]
  BY <1>2, <1>3
<1> HIDE DEF u
<1>5. RecyclerOK(u)
  <2>1. \A k \in 0 .. Len(r.data) - 1 : u.data[k + 1] = None <=> r.data[k + 1] = None
    BY <1>1, <1>2, <1>4
  <2> QED BY <2>1, <1>2, <1>3 DEF RecyclerOK
<1>6. \A other : Valid(u, other) <=> Valid(r, other)
  BY <1>1, <1>2, <1>3, <1>4 DEF Valid
<1>7. At(u, idx) = item
  BY <1>1, <1>2, <1>4 DEF At
<1>8. \A other : Valid(r, other) /\ other # idx => At(u, other) = At(r, other)
  BY <1>2, <1>4 DEF At, Valid
<1> QED BY <1>3, <1>5, <1>6, <1>7, <1>8 DEF u

\* Popping a stack keeps all of it but the last entry.
LEMMA PopFacts ==
    ASSUME NEW T, NEW s \in Seq(T), Len(s) > 0
    PROVE  /\ SubSeq(s, 1, Len(s) - 1) \in Seq(T)
           /\ Len(SubSeq(s, 1, Len(s) - 1)) = Len(s) - 1
           /\ \A k \in 1 .. Len(s) - 1 : SubSeq(s, 1, Len(s) - 1)[k] = s[k]
<1> DEFINE m == Len(s) - 1
           p == SubSeq(s, 1, m)
<1>1. m \in Nat /\ 1 \in Int /\ m \in Int /\ \A i \in 1 .. m : s[i] \in T
  OBVIOUS
<1> HIDE DEF m
<1>2. /\ p \in Seq(T)
      /\ Len(p) = IF 1 <= m THEN m - 1 + 1 ELSE 0
      /\ \A i \in 1 .. m - 1 + 1 : p[i] = s[1 + i - 1]
  BY <1>1, SubSeqProperties
<1> HIDE DEF p
<1>3. Len(p) = m /\ \A i \in 1 .. m : p[i] = s[i]
  <2>1. m - 1 + 1 = m /\ (~(1 <= m) => m = 0) /\ \A i \in Int : 1 + i - 1 = i
    BY <1>1
  <2> QED BY <1>1, <1>2, <2>1
<1> QED BY <1>2, <1>3 DEF p, m

\* Storing gives an index that was not valid before, and changes no other item.
LEMMA StoreFacts ==
    ASSUME NEW T, NEW r \in RecyclerOf(T), RecyclerOK(r), NEW item \in T
    PROVE  /\ StoreAsserts(r)
           /\ StoreIdx(r) \in Nat
           /\ StoreIdx(r) <= Len(r.data)
           /\ Store(r, item) \in RecyclerOf(T)
           /\ RecyclerOK(Store(r, item))
           /\ Len(Store(r, item).data) =
                  IF r.free # << >> THEN Len(r.data) ELSE Len(r.data) + 1
           /\ ~Valid(r, StoreIdx(r))
           /\ \A other : Valid(Store(r, item), other) <=>
                             Valid(r, other) \/ other = StoreIdx(r)
           /\ At(Store(r, item), StoreIdx(r)) = item
           /\ \A other : Valid(r, other) => At(Store(r, item), other) = At(r, other)
<1> DEFINE s == Store(r, item)
           i == StoreIdx(r)
<1>0. PICK O : O = Option(T)
  OBVIOUS
<1>1. PICK o \in O : o = Some(item) /\ o # None /\ o[1] = item
  BY <1>0, OptionFacts
<1>2. PICK d \in Seq(O), f \in Seq(Nat) : r.data = d /\ r.free = f
  BY <1>0 DEF RecyclerOf
<1>3. PICK n \in Nat : n = Len(d) /\ n = Len(r.data)
  BY <1>2
<1>4. PICK m \in Nat : m = Len(f) /\ m = Len(r.free)
  BY <1>2
<1>5. /\ \A k \in 1 .. m : f[k] \in 0 .. n - 1 /\ d[f[k] + 1] = None
      /\ \A j, k \in 1 .. m : f[j] = f[k] => j = k
      /\ \A idx \in 0 .. n - 1 : d[idx + 1] = None => \E k \in 1 .. m : f[k] = idx
  BY <1>2, <1>3, <1>4 DEF RecyclerOK
<1>a. CASE r.free # << >>
  <2>1. m > 0
    BY <1>a, <1>2, <1>4
  <2>2. i = f[m]
    BY <1>a, <1>2, <1>4 DEF StoreIdx
  <2>3. i \in 0 .. n - 1 /\ i + 1 \in 1 .. n /\ d[i + 1] = None
    BY <1>5, <2>1, <2>2
  <2>4. s = [data |-> [d EXCEPT ![i + 1] = o], free |-> SubSeq(f, 1, m - 1)]
    BY <1>1, <1>a, <1>2, <1>4 DEF Store
  <2> HIDE DEF i, s
  <2>5. PICK e : e = [d EXCEPT ![i + 1] = o]
    OBVIOUS
  <2>6. /\ e \in Seq(O) /\ Len(e) = n
        /\ \A k \in 1 .. n : e[k] = IF k = i + 1 THEN o ELSE d[k]
    <3>1. i + 1 \in 1 .. Len(d)
      BY <2>3, <1>3
    <3>2. /\ [d EXCEPT ![i + 1] = o] \in Seq(O)
          /\ Len([d EXCEPT ![i + 1] = o]) = Len(d)
          /\ \A k \in 1 .. Len(d) : [d EXCEPT ![i + 1] = o][k] =
                                        IF k = i + 1 THEN o ELSE d[k]
      BY <3>1
    <3> QED BY <3>2, <2>5, <1>3, Zenon
  <2>7. \A k \in 0 .. n - 1 : e[k + 1] = IF k = i THEN o ELSE d[k + 1]
    BY <2>3, <2>6
  <2>8. PICK g : g = SubSeq(f, 1, m - 1)
    OBVIOUS
  <2>9. g \in Seq(Nat) /\ Len(g) = m - 1 /\ \A k \in 1 .. m - 1 : g[k] = f[k]
    <3>1. /\ SubSeq(f, 1, Len(f) - 1) \in Seq(Nat)
          /\ Len(SubSeq(f, 1, Len(f) - 1)) = Len(f) - 1
          /\ \A k \in 1 .. Len(f) - 1 : SubSeq(f, 1, Len(f) - 1)[k] = f[k]
      <4>1. Len(f) > 0
        BY <2>1, <1>4
      <4> QED BY <4>1, PopFacts, Zenon
    <3> QED BY <3>1, <2>8, <1>4
  <2>10. s.data = e /\ s.free = g /\ s = [data |-> e, free |-> g]
    BY <2>4, <2>5, <2>8
  <2>11. s \in RecyclerOf(T)
    BY <1>0, <2>10, <2>6, <2>9 DEF RecyclerOf
  <2>12. RecyclerOK(s)
    <3>1. \A k \in 1 .. m - 1 : g[k] \in 0 .. n - 1 /\ g[k] # i /\ d[g[k] + 1] = None
      <4> SUFFICES ASSUME NEW k \in 1 .. m - 1
                   PROVE  g[k] \in 0 .. n - 1 /\ g[k] # i /\ d[g[k] + 1] = None
        OBVIOUS
      <4>1. k \in 1 .. m /\ k # m /\ m \in 1 .. m
        BY <2>1
      <4>2. g[k] = f[k]
        BY <2>9
      <4> QED BY <4>1, <4>2, <1>5, <2>2
    <3>2. \A k \in 1 .. m - 1 : e[g[k] + 1] = None
      BY <3>1, <2>7
    <3>3. \A j, k \in 1 .. m - 1 : g[j] = g[k] => j = k
      BY <1>5, <2>9
    <3>4. ASSUME NEW idx \in 0 .. n - 1, e[idx + 1] = None
          PROVE  \E k \in 1 .. m - 1 : g[k] = idx
      <4>1. idx # i /\ d[idx + 1] = None
        BY <3>4, <2>7, <1>1
      <4>2. PICK k \in 1 .. m : f[k] = idx
        BY <4>1, <1>5
      <4>3. k \in 1 .. m - 1
        BY <4>1, <4>2, <2>1, <2>2
      <4> QED BY <4>2, <4>3, <2>9
    <3> QED BY <3>1, <3>2, <3>3, <3>4, <2>6, <2>9, <2>10 DEF RecyclerOK
  <2>13. ~Valid(r, i)
    BY <2>3, <1>2 DEF Valid
  <2>14. \A other : Valid(s, other) <=> Valid(r, other) \/ other = i
    BY <2>3, <2>6, <2>7, <2>10, <1>1, <1>2, <1>3 DEF Valid
  <2>15. At(s, i) = item
    BY <2>3, <2>7, <2>10, <1>1 DEF At
  <2>16. \A other : Valid(r, other) => At(s, other) = At(r, other)
    BY <2>7, <2>10, <2>13, <1>2, <1>3 DEF At, Valid
  <2>17. StoreAsserts(r)
    BY <2>3, <1>2, <1>3 DEF StoreAsserts, i
  <2>18. i \in Nat /\ i <= Len(r.data) /\ Len(s.data) = Len(r.data)
    BY <2>3, <2>6, <2>10, <1>3
  <2> QED BY <1>a, <2>11, <2>12, <2>13, <2>14, <2>15, <2>16, <2>17, <2>18 DEF s, i
<1>b. CASE r.free = << >>
  <2>1. i = n /\ m = 0
    BY <1>b, <1>2, <1>3, <1>4 DEF StoreIdx
  <2>2. s = [data |-> Append(d, o), free |-> f]
    BY <1>1, <1>b, <1>2 DEF Store
  <2> HIDE DEF i, s
  <2>3. PICK e : e = Append(d, o)
    OBVIOUS
  <2>4. /\ e \in Seq(O) /\ Len(e) = n + 1 /\ e[n + 1] = o
        /\ \A k \in 1 .. n : e[k] = d[k]
    <3>1. /\ Append(d, o) \in Seq(O)
          /\ Len(Append(d, o)) = Len(d) + 1
          /\ Append(d, o)[Len(d) + 1] = o
          /\ \A k \in 1 .. Len(d) : Append(d, o)[k] = d[k]
      OBVIOUS
    <3> QED BY <3>1, <2>3, <1>3, Zenon
  <2>5. \A k \in 0 .. n : e[k + 1] = IF k = n THEN o ELSE d[k + 1]
    BY <2>4
  <2>6. s.data = e /\ s.free = f /\ s = [data |-> e, free |-> f]
    BY <2>2, <2>3
  <2>7. s \in RecyclerOf(T)
    BY <1>0, <2>4, <2>6 DEF RecyclerOf
  <2>8. \A k \in 0 .. n - 1 : d[k + 1] # None
    BY <1>5, <2>1
  <2>9. \A k \in 0 .. n : e[k + 1] # None
    <3>1. \A k \in 0 .. n : k = n \/ k \in 0 .. n - 1
      OBVIOUS
    <3> QED BY <3>1, <2>5, <2>8, <1>1
  <2>10. RecyclerOK(s)
    <3>1. Len(s.data) = n + 1 /\ Len(s.free) = 0 /\ n + 1 - 1 = n
      BY <2>1, <2>4, <2>6, <1>2, <1>4
    <3>2. /\ \A k \in 1 .. 0 : FALSE
          /\ \A k \in 0 .. n + 1 - 1 : s.data[k + 1] # None
      BY <2>6, <2>9
    <3> QED BY <3>1, <3>2 DEF RecyclerOK
  <2>11. ~Valid(r, i)
    BY <2>1, <1>3 DEF Valid
  <2>12. \A other : Valid(s, other) <=> Valid(r, other) \/ other = i
    <3>1. \A other : other \in 0 .. n <=> other \in 0 .. n - 1 \/ other = n
      OBVIOUS
    <3>2. \A other : Valid(s, other) <=> other \in 0 .. n
      BY <2>4, <2>6, <2>9 DEF Valid
    <3>3. \A other : Valid(r, other) <=> other \in 0 .. n - 1
      BY <2>8, <1>2, <1>3 DEF Valid
    <3> QED BY <3>1, <3>2, <3>3, <2>1
  <2>13. At(s, i) = item
    BY <2>1, <2>4, <2>6, <1>1 DEF At
  <2>14. \A other : Valid(r, other) => At(s, other) = At(r, other)
    <3> SUFFICES ASSUME NEW other, Valid(r, other) PROVE At(s, other) = At(r, other)
      OBVIOUS
    <3>1. other \in 0 .. n /\ other # n
      BY <1>2, <1>3 DEF Valid
    <3>2. e[other + 1] = d[other + 1]
      BY <3>1, <2>5
    <3> QED BY <3>2, <2>6, <1>2 DEF At
  <2>15. StoreAsserts(r)
    BY <1>b DEF StoreAsserts
  <2>16. i \in Nat /\ i <= Len(r.data) /\ Len(s.data) = Len(r.data) + 1
    BY <2>1, <2>4, <2>6, <1>3
  <2> QED BY <1>b, <2>7, <2>10, <2>11, <2>12, <2>13, <2>14, <2>15, <2>16 DEF s, i
<1> QED BY <1>a, <1>b

\* Releasing a valid index ends that item and changes no other.
LEMMA ReleaseFacts ==
    ASSUME NEW T, NEW r \in RecyclerOf(T), RecyclerOK(r), NEW idx, Valid(r, idx)
    PROVE  /\ Release(r, idx) \in RecyclerOf(T)
           /\ RecyclerOK(Release(r, idx))
           /\ Len(Release(r, idx).data) = Len(r.data)
           /\ \A other : Valid(Release(r, idx), other) <=> Valid(r, other) /\ other # idx
           /\ \A other : Valid(r, other) /\ other # idx =>
                  At(Release(r, idx), other) = At(r, other)
<1> DEFINE s == Release(r, idx)
<1>0. PICK O : O = Option(T)
  OBVIOUS
<1>1. PICK o \in O : o = None
  <2>1. None \in Option(T)
    BY DEF None, Option
  <2> QED BY <2>1, <1>0, Zenon
<1>2. PICK d \in Seq(O), f \in Seq(Nat) : r.data = d /\ r.free = f
  BY <1>0 DEF RecyclerOf
<1>3. PICK n \in Nat : n = Len(d) /\ n = Len(r.data)
  BY <1>2
<1>4. PICK m \in Nat : m = Len(f) /\ m = Len(r.free)
  BY <1>2
<1>5. /\ \A k \in 1 .. m : f[k] \in 0 .. n - 1 /\ d[f[k] + 1] = o
      /\ \A j, k \in 1 .. m : f[j] = f[k] => j = k
      /\ \A i \in 0 .. n - 1 : d[i + 1] = o => \E k \in 1 .. m : f[k] = i
  BY <1>1, <1>2, <1>3, <1>4 DEF RecyclerOK
<1>6. idx \in 0 .. n - 1 /\ idx \in Nat /\ d[idx + 1] # o
  BY <1>1, <1>2, <1>3 DEF Valid
<1>7. s = [data |-> [d EXCEPT ![idx + 1] = o], free |-> Append(f, idx)]
  BY <1>1, <1>2 DEF Release
<1> HIDE DEF s
<1>8. PICK e : e = [d EXCEPT ![idx + 1] = o]
  OBVIOUS
<1>9. e \in Seq(O) /\ Len(e) = n /\ \A k \in 0 .. n - 1 :
          e[k + 1] = IF k = idx THEN o ELSE d[k + 1]
  <2>1. idx + 1 \in 1 .. Len(d)
    BY <1>3, <1>6
  <2>2. /\ [d EXCEPT ![idx + 1] = o] \in Seq(O)
        /\ Len([d EXCEPT ![idx + 1] = o]) = Len(d)
        /\ \A k \in 1 .. Len(d) : [d EXCEPT ![idx + 1] = o][k] =
                                      IF k = idx + 1 THEN o ELSE d[k]
    BY <2>1
  <2>3. \A k \in 0 .. n - 1 : k + 1 \in 1 .. n /\ (k + 1 = idx + 1 <=> k = idx)
    BY <1>6
  <2> QED BY <2>2, <2>3, <1>3, <1>8, Zenon
<1>10. PICK g : g = Append(f, idx)
  OBVIOUS
<1>11. g \in Seq(Nat) /\ Len(g) = m + 1 /\ g[m + 1] = idx /\ \A k \in 1 .. m : g[k] = f[k]
  <2>1. /\ Append(f, idx) \in Seq(Nat)
        /\ Len(Append(f, idx)) = Len(f) + 1
        /\ Append(f, idx)[Len(f) + 1] = idx
        /\ \A k \in 1 .. Len(f) : Append(f, idx)[k] = f[k]
    BY <1>6, AppendProperties
  <2> QED BY <2>1, <1>4, <1>10, Zenon
<1>12. s.data = e /\ s.free = g /\ s = [data |-> e, free |-> g]
  BY <1>7, <1>8, <1>10
<1>13. s \in RecyclerOf(T)
  BY <1>0, <1>9, <1>11, <1>12 DEF RecyclerOf
<1>14. RecyclerOK(s)
  <2>1. \A k \in 1 .. m + 1 : k \in 1 .. m \/ k = m + 1
    OBVIOUS
  <2>2. \A k \in 1 .. m : f[k] # idx
    BY <1>5, <1>6
  <2>3. \A k \in 1 .. m + 1 : g[k] \in 0 .. n - 1 /\ e[g[k] + 1] = o
    <3>1. \A k \in 1 .. m : g[k] \in 0 .. n - 1 /\ e[g[k] + 1] = o
      BY <1>5, <1>9, <1>11
    <3>2. g[m + 1] \in 0 .. n - 1 /\ e[g[m + 1] + 1] = o
      BY <1>6, <1>9, <1>11
    <3> QED BY <2>1, <3>1, <3>2
  <2>4. \A j, k \in 1 .. m + 1 : g[j] = g[k] => j = k
    BY <2>1, <2>2, <1>5, <1>11
  <2>5. ASSUME NEW i \in 0 .. n - 1, e[i + 1] = o
        PROVE  \E k \in 1 .. m + 1 : g[k] = i
    <3>1. CASE i = idx
      BY <3>1, <1>11
    <3>2. CASE i # idx
      <4>1. PICK k \in 1 .. m : f[k] = i
        BY <3>2, <2>5, <1>5, <1>9
      <4>2. k \in 1 .. m + 1 /\ g[k] = i
        BY <4>1, <1>11
      <4> QED BY <4>2
    <3> QED BY <3>1, <3>2
  <2> QED BY <2>3, <2>4, <2>5, <1>1, <1>9, <1>11, <1>12 DEF RecyclerOK
<1>15. \A other : Valid(s, other) <=> Valid(r, other) /\ other # idx
  BY <1>1, <1>2, <1>3, <1>6, <1>9, <1>12 DEF Valid
<1>16. \A other : Valid(r, other) /\ other # idx => At(s, other) = At(r, other)
  <2> SUFFICES ASSUME NEW other, Valid(r, other), other # idx
               PROVE  At(s, other) = At(r, other)
    OBVIOUS
  <2>1. other \in 0 .. n - 1
    BY <1>3 DEF Valid
  <2>2. e[other + 1] = d[other + 1]
    BY <2>1, <1>9
  <2> QED BY <2>2, <1>2, <1>12 DEF At
<1>17. Len(s.data) = Len(r.data)
  BY <1>3, <1>9, <1>12
<1> QED BY <1>13, <1>14, <1>15, <1>16, <1>17 DEF s

\* The used indexes are the valid ones.
LEMMA UsedIsValid ==
    ASSUME NEW r, NEW idx
    PROVE  idx \in Used(r) <=> Valid(r, idx)
BY DEF Used, Valid

\* len counts the items: its subtraction never underflows.
LEMMA LenIsCount ==
    ASSUME NEW T, NEW r \in RecyclerOf(T), RecyclerOK(r)
    PROVE  /\ IsFiniteSet(Used(r))
           /\ RecyclerLen(r) = Cardinality(Used(r))
           /\ RecyclerLen(r) \in Nat
<1>0. PICK O : O = Option(T)
  OBVIOUS
<1>1. PICK d \in Seq(O), f \in Seq(Nat) : r.data = d /\ r.free = f
  BY <1>0 DEF RecyclerOf
<1>2. PICK n \in Nat : n = Len(d) /\ n = Len(r.data)
  BY <1>1
<1>3. PICK m \in Nat : m = Len(f) /\ m = Len(r.free)
  BY <1>1
<1> DEFINE Slots == 0 .. n - 1
           Free == {i \in Slots : d[i + 1] = None}
<1>4. /\ \A k \in 1 .. m : f[k] \in Free
      /\ \A j, k \in 1 .. m : f[j] = f[k] => j = k
      /\ \A i \in Free : \E k \in 1 .. m : f[k] = i
  BY <1>1, <1>2, <1>3 DEF RecyclerOK
<1>5. IsFiniteSet(Slots) /\ Cardinality(Slots) = n
  <2>1. 0 \in Int /\ n - 1 \in Int
    OBVIOUS
  <2>2. /\ IsFiniteSet(0 .. n - 1)
        /\ Cardinality(0 .. n - 1) = IF 0 > n - 1 THEN 0 ELSE (n - 1) - 0 + 1
    BY <2>1, FS_Interval
  <2>3. (IF 0 > n - 1 THEN 0 ELSE (n - 1) - 0 + 1) = n
    OBVIOUS
  <2> QED BY <2>2, <2>3
<1>6. IsFiniteSet(1 .. m) /\ Cardinality(1 .. m) = m
  <2>1. /\ IsFiniteSet(1 .. m)
        /\ Cardinality(1 .. m) = IF 1 > m THEN 0 ELSE m - 1 + 1
    BY FS_Interval
  <2>2. (IF 1 > m THEN 0 ELSE m - 1 + 1) = m
    OBVIOUS
  <2> QED BY <2>1, <2>2
<1>7. f \in Bijection(1 .. m, Free)
  <2>1. f \in [1 .. m -> Free]
    <3>1. f \in [1 .. Len(f) -> Nat]
      BY LenProperties
    <3> HIDE DEF Free
    <3> QED BY <3>1, <1>3, <1>4
  <2> HIDE DEF Free
  <2> QED BY <2>1, <1>4 DEF Bijection, Injection, Surjection, IsInjective
<1>8. IsFiniteSet(Free) /\ Cardinality(Free) = m
  BY <1>6, <1>7, FS_Bijection DEF ExistsBijection
<1>9. Used(r) = Slots \ Free
  BY <1>1, <1>2 DEF Used
<1>10. Slots \cap Free = Free
  OBVIOUS
<1> HIDE DEF Slots, Free
<1>11. IsFiniteSet(Slots \ Free) /\ Cardinality(Slots \ Free) = n - m
  <2>1. /\ IsFiniteSet(Slots \ Free)
        /\ Cardinality(Slots \ Free) = Cardinality(Slots) - Cardinality(Slots \cap Free)
    BY <1>5, FS_Difference, Zenon
  <2> QED BY <2>1, <1>5, <1>8, <1>10
<1>12. Cardinality(Slots \ Free) \in Nat
  BY <1>11, FS_CardinalityType
<1> QED BY <1>2, <1>3, <1>9, <1>11, <1>12 DEF RecyclerLen

-----------------------------------------------------------------------------
(* A user who may do anything.                                             *)

RInv == StorageTypeOK /\ RecyclerOK(rec)

\* The empty storage.
LEMMA MachineInit == StorageInit => RInv
BY EmptyFacts, MaxSlotsAssumption DEF StorageInit, RInv, StorageTypeOK, EmptyRecycler

\* What the operations that change the storage do to it and to its items.
LEMMA StoreStep ==
    ASSUME RInv, NEW item \in Item, StoreItem(item)
    PROVE  /\ RInv'
           /\ StoreIdx(rec) \in Index /\ ~Valid(rec, StoreIdx(rec))
           /\ answer' = << "index", StoreIdx(rec) >>
           /\ \A id : Valid(rec', id) <=> Valid(rec, id) \/ id = StoreIdx(rec)
           /\ At(rec', StoreIdx(rec)) = item
           /\ \A id : Valid(rec, id) => At(rec', id) = At(rec, id)
<1>1. rec \in RecyclerOf(Item) /\ RecyclerOK(rec) /\ Len(rec.data) <= MaxSlots
  BY DEF RInv, StorageTypeOK
<1>2. StoreAsserts(rec)
  BY <1>1, StoreFacts
<1>3. rec' = Store(rec, item) /\ answer' = << "index", StoreIdx(rec) >>
  BY <1>2 DEF StoreItem
<1>4. PICK after : after = Store(rec, item)
  OBVIOUS
<1>5. /\ after \in RecyclerOf(Item) /\ RecyclerOK(after)
      /\ StoreIdx(rec) \in Nat /\ StoreIdx(rec) <= Len(rec.data)
      /\ Len(after.data) = IF rec.free # << >> THEN Len(rec.data) ELSE Len(rec.data) + 1
      /\ ~Valid(rec, StoreIdx(rec))
      /\ \A id : Valid(after, id) <=> Valid(rec, id) \/ id = StoreIdx(rec)
      /\ At(after, StoreIdx(rec)) = item
      /\ \A id : Valid(rec, id) => At(after, id) = At(rec, id)
  BY <1>1, <1>4, StoreFacts
<1>6. Len(rec.data) \in Nat /\ (rec.free # << >> \/ Len(rec.data) < MaxSlots)
  BY <1>1 DEF RecyclerOf, StoreItem
<1>7. Len(after.data) <= MaxSlots /\ StoreIdx(rec) \in Index
  BY <1>1, <1>5, <1>6, MaxSlotsAssumption DEF Index
<1> QED BY <1>3, <1>4, <1>5, <1>7 DEF RInv, StorageTypeOK

LEMMA ReleaseStep ==
    ASSUME RInv, NEW idx \in Index, Valid(rec, idx), rec' = Release(rec, idx)
    PROVE  /\ RInv'
           /\ \A id : Valid(rec', id) <=> Valid(rec, id) /\ id # idx
           /\ \A id : Valid(rec, id) /\ id # idx => At(rec', id) = At(rec, id)
<1>1. rec \in RecyclerOf(Item) /\ RecyclerOK(rec) /\ Len(rec.data) <= MaxSlots
  BY DEF RInv, StorageTypeOK
<1>2. PICK after : after = Release(rec, idx)
  OBVIOUS
<1>3. /\ after \in RecyclerOf(Item) /\ RecyclerOK(after)
      /\ Len(after.data) = Len(rec.data)
      /\ \A id : Valid(after, id) <=> Valid(rec, id) /\ id # idx
      /\ \A id : Valid(rec, id) /\ id # idx => At(after, id) = At(rec, id)
  BY <1>1, <1>2, ReleaseFacts
<1> QED BY <1>1, <1>2, <1>3 DEF RInv, StorageTypeOK

LEMMA AssignStep ==
    ASSUME RInv, NEW idx \in Index, Valid(rec, idx), NEW item \in Item,
           rec' = Update(rec, idx, item)
    PROVE  /\ RInv'
           /\ \A id : Valid(rec', id) <=> Valid(rec, id)
           /\ At(rec', idx) = item
           /\ \A id : Valid(rec, id) /\ id # idx => At(rec', id) = At(rec, id)
<1>1. rec \in RecyclerOf(Item) /\ RecyclerOK(rec) /\ Len(rec.data) <= MaxSlots
  BY DEF RInv, StorageTypeOK
<1>2. PICK after : after = Update(rec, idx, item)
  OBVIOUS
<1>3. /\ after \in RecyclerOf(Item) /\ RecyclerOK(after)
      /\ \A id : Valid(after, id) <=> Valid(rec, id)
      /\ At(after, idx) = item
      /\ \A id : Valid(rec, id) /\ id # idx => At(after, id) = At(rec, id)
  BY <1>1, <1>2, UpdateFacts
<1>4. Len(after.data) = Len(rec.data)
  BY <1>1, <1>2 DEF Update, RecyclerOf
<1> QED BY <1>1, <1>2, <1>3, <1>4 DEF RInv, StorageTypeOK

LEMMA MachineStep == RInv /\ [StorageNext]_machine => RInv'
<1> SUFFICES ASSUME RInv, [StorageNext]_machine PROVE RInv'
  OBVIOUS
<1>1. CASE rec' = rec
  BY <1>1 DEF RInv, StorageTypeOK
<1>2. CASE \E item \in Item : StoreItem(item)
  BY <1>2, StoreStep
<1>3. CASE \E idx \in Index : ReleaseItem(idx)
  BY <1>1, <1>3, ReleaseStep DEF ReleaseItem
<1>4. CASE \E idx \in Index, item \in Item : AssignItem(idx, item)
  BY <1>1, <1>4, AssignStep DEF AssignItem
<1> QED BY <1>1, <1>2, <1>3, <1>4 DEF StorageNext, ReadItem, CountItems, machine

\* The free stack and the slots agree, whatever indexes the user tries, and the
\* storage needs no more slots than items were ever stored at once.
THEOREM StorageStaysSound == StorageSpec => []StorageSound
<1>1. RInv => StorageSound
  BY DEF RInv, StorageSound
<1> QED BY <1>1, MachineInit, MachineStep, PTL DEF StorageSpec

-----------------------------------------------------------------------------
(* Refinement.                                                             *)

Items == [idx \in Used(rec) |-> At(rec, idx)]

LEMMA ItemsFacts ==
    /\ \A id : id \in DOMAIN Items <=> Valid(rec, id)
    /\ \A id : Valid(rec, id) => Items[id] = At(rec, id)
BY UsedIsValid DEF Items

LEMMA ItemsFactsPrime ==
    /\ \A id : id \in DOMAIN Items' <=> Valid(rec', id)
    /\ \A id : Valid(rec', id) => Items'[id] = At(rec', id)
BY UsedIsValid DEF Items

LEMMA MapInit == StorageInit => Map!Init
<1> SUFFICES ASSUME StorageInit PROVE Map!Init
  OBVIOUS
<1>1. \A id : ~Valid(rec, id)
  BY EmptyFacts DEF StorageInit
<1>2. DOMAIN Items = {}
  BY <1>1, ItemsFacts
<1> QED BY <1>2 DEF Map!Init, Items, StorageInit

LEMMA MapStep == RInv /\ [StorageNext]_machine => [Map!Next]_(Map!vars)
<1> SUFFICES ASSUME RInv, [StorageNext]_machine PROVE [Map!Next]_(Map!vars)
  OBVIOUS
<1>1. ASSUME NEW item \in Item, StoreItem(item) PROVE Map!Store(item)
  <2>1. PICK i : i = StoreIdx(rec)
    OBVIOUS
  <2>2. /\ i \in Index /\ ~Valid(rec, i)
        /\ answer' = << "index", i >>
        /\ \A id : Valid(rec', id) <=> Valid(rec, id) \/ id = i
        /\ At(rec', i) = item
        /\ \A id : Valid(rec, id) => At(rec', id) = At(rec, id)
    BY <1>1, <2>1, StoreStep
  <2>3. i \in DOMAIN Items' \ DOMAIN Items
    BY <2>2, ItemsFacts, ItemsFactsPrime
  <2>4. DOMAIN Items' = DOMAIN Items \cup {i}
    BY <2>2, ItemsFacts, ItemsFactsPrime
  <2>5. Items'[i] = item /\ \A other \in DOMAIN Items : Items'[other] = Items[other]
    BY <2>2, ItemsFacts, ItemsFactsPrime
  <2> QED BY <2>2, <2>3, <2>4, <2>5 DEF Map!Store, Items
<1>2. ASSUME NEW idx \in Index, ReleaseItem(idx)
      PROVE  Map!Refuse(idx) \/ (idx \in DOMAIN Items /\ Map!Release(idx))
  <2>1. CASE ~Valid(rec, idx)
    <3>1. idx \notin DOMAIN Items /\ answer' = << "panic", idx >> /\ Items' = Items
      BY <1>2, <2>1, ItemsFacts DEF ReleaseItem, Items
    <3> QED BY <3>1 DEF Map!Refuse, Items
  <2>2. CASE Valid(rec, idx)
    <3>1. rec' = Release(rec, idx) /\ answer' = << "item", At(rec, idx) >>
      BY <1>2, <2>2 DEF ReleaseItem
    <3>2. /\ \A id : Valid(rec', id) <=> Valid(rec, id) /\ id # idx
          /\ \A id : Valid(rec, id) /\ id # idx => At(rec', id) = At(rec, id)
      BY <2>2, <3>1, ReleaseStep
    <3>3. idx \in DOMAIN Items /\ Items[idx] = At(rec, idx)
      BY <2>2, ItemsFacts
    <3>4. DOMAIN Items' = DOMAIN Items \ {idx}
      BY <3>2, ItemsFacts, ItemsFactsPrime
    <3>5. \A other \in DOMAIN Items \ {idx} : Items'[other] = Items[other]
      BY <3>2, ItemsFacts, ItemsFactsPrime
    <3>6. Items' = [other \in DOMAIN Items \ {idx} |-> Items[other]]
      <4>1. Items' = [other \in DOMAIN Items' |-> Items'[other]]
        BY DEF Items
      <4> QED BY <3>4, <3>5, <4>1
    <3> QED BY <3>1, <3>3, <3>6 DEF Map!Release, Items
  <2> QED BY <2>1, <2>2
<1>3. ASSUME NEW idx \in Index, ReadItem(idx)
      PROVE  Map!Refuse(idx) \/ (idx \in DOMAIN Items /\ Map!Read(idx))
  <2>1. Items' = Items
    BY <1>3 DEF ReadItem, Items
  <2>2. CASE ~Valid(rec, idx)
    <3>1. idx \notin DOMAIN Items /\ answer' = << "panic", idx >>
      BY <1>3, <2>2, ItemsFacts DEF ReadItem
    <3> QED BY <2>1, <3>1 DEF Map!Refuse, Items
  <2>3. CASE Valid(rec, idx)
    <3>1. idx \in DOMAIN Items /\ answer' = << "item", Items[idx] >>
      BY <1>3, <2>3, ItemsFacts DEF ReadItem
    <3> QED BY <2>1, <3>1 DEF Map!Read, Items
  <2> QED BY <2>2, <2>3
<1>4. ASSUME NEW idx \in Index, NEW item \in Item, AssignItem(idx, item)
      PROVE  Map!Refuse(idx) \/ (idx \in DOMAIN Items /\ Map!Assign(idx, item))
  <2>1. CASE ~Valid(rec, idx)
    <3>1. idx \notin DOMAIN Items /\ answer' = << "panic", idx >> /\ Items' = Items
      BY <1>4, <2>1, ItemsFacts DEF AssignItem, Items
    <3> QED BY <3>1 DEF Map!Refuse, Items
  <2>2. CASE Valid(rec, idx)
    <3>1. rec' = Update(rec, idx, item) /\ answer' = << "none" >>
      BY <1>4, <2>2 DEF AssignItem
    <3>2. /\ \A id : Valid(rec', id) <=> Valid(rec, id)
          /\ At(rec', idx) = item
          /\ \A id : Valid(rec, id) /\ id # idx => At(rec', id) = At(rec, id)
      BY <2>2, <3>1, AssignStep
    <3>3. idx \in DOMAIN Items /\ DOMAIN Items' = DOMAIN Items
      BY <2>2, <3>2, ItemsFacts, ItemsFactsPrime
    <3>4. \A other \in DOMAIN Items : Items'[other] = IF other = idx THEN item ELSE Items[other]
      BY <3>2, ItemsFacts, ItemsFactsPrime
    <3>5. Items' = [Items EXCEPT ![idx] = item]
      <4>1. /\ Items' = [other \in DOMAIN Items' |-> Items'[other]]
            /\ Items = [other \in DOMAIN Items |-> Items[other]]
        BY DEF Items
      <4> QED BY <3>3, <3>4, <4>1
    <3> QED BY <3>1, <3>3, <3>5 DEF Map!Assign, Items
  <2> QED BY <2>1, <2>2
<1>5. ASSUME CountItems PROVE Map!Count
  <2>1. DOMAIN Items = Used(rec) /\ Items' = Items
    BY <1>5 DEF CountItems, Items
  <2>2. RecyclerLen(rec) = Cardinality(Used(rec))
    BY LenIsCount DEF RInv, StorageTypeOK
  <2>3. Map!Cardinality(Used(rec)) = Cardinality(Used(rec))
    BY DEF Map!Cardinality, Cardinality
  <2> QED BY <1>5, <2>1, <2>2, <2>3 DEF CountItems, Map!Count, Items
<1>6. ASSUME UNCHANGED machine PROVE UNCHANGED Map!vars
  BY <1>6 DEF machine, Map!vars
<1> QED BY <1>1, <1>2, <1>3, <1>4, <1>5, <1>6 DEF StorageNext, Map!Next, Items

\* The Recycler is a finite map: a stored item gets an index no other has, keeps
\* it until it is released, and an index without an item is refused.
THEOREM RecyclerIsSlotMap == StorageSpec => IsSlotMap
<1> QED BY MapInit, MapStep, MachineInit, MachineStep, PTL DEF StorageSpec, IsSlotMap, Map!Spec
=============================================================================
