-------------------------- MODULE ItemImages_proofs --------------------------
(***************************************************************************)
(* The photos of an item and its cover, for any number of photos and of    *)
(* requests and tasks that overlap and fail: proofs about ItemImages.      *)
(*                                                                         *)
(* First what the edits of the array do to it; then the types; then that   *)
(* no photo is listed twice but by an order that names it twice; then what *)
(* holds of an array that no write went over.                              *)
(***************************************************************************)
EXTENDS ItemImages, FiniteSetTheorems, FunctionTheorems, SequenceTheorems, TLAPS

USE ItemImagesAssumption

-----------------------------------------------------------------------------
(***************************************************************************)
(* Subsequences.                                                           *)
(***************************************************************************)

\* A finite set of numbers has an increasing enumeration, and it is onto: the
\* number of elements up to n is a bijection from K to 1..Cardinality(K).
LEMMA Enumeration ==
  ASSUME NEW K \in SUBSET Nat, IsFiniteSet(K)
  PROVE  LET f == InOrder(K)
         IN /\ Cardinality(K) \in Nat
            /\ f \in [1..Cardinality(K) -> K]
            /\ \A j, k \in 1..Cardinality(K) : j < k => f[j] < f[k]
            /\ \A n \in K : \E k \in 1..Cardinality(K) : f[k] = n
<1> DEFINE size == Cardinality(K)
           upTo(n) == {m \in K : m <= n}
           rank == [n \in K |-> Cardinality(upTo(n))]
<1>1. size \in Nat
  BY FS_CardinalityType
<1>2. IsFiniteSet(1..size) /\ Cardinality(1..size) = size
  BY <1>1, FS_Interval
<1>3. ASSUME NEW n \in K
      PROVE  rank[n] \in 1..size
  <2>1. upTo(n) \in SUBSET K /\ n \in upTo(n)
    OBVIOUS
  <2>2. IsFiniteSet(upTo(n)) /\ Cardinality(upTo(n)) <= size /\ Cardinality(upTo(n)) \in Nat
    BY <2>1, FS_Subset, FS_CardinalityType
  <2>3. Cardinality(upTo(n)) # 0
    BY <2>1, <2>2, FS_EmptySet
  <2> QED
    BY <1>1, <2>2, <2>3
<1>4. ASSUME NEW m \in K, NEW n \in K, m < n
      PROVE  rank[m] < rank[n]
  <2>1. upTo(m) \in SUBSET upTo(n) /\ n \in upTo(n) /\ n \notin upTo(m)
    <3>1. m \in Nat /\ n \in Nat /\ \A x \in K : x \in Nat
      OBVIOUS
    <3>2. \A x \in K : x <= m => x <= n
      BY <1>4, <3>1
    <3>3. n <= n /\ ~(n <= m)
      BY <1>4, <3>1
    <3> QED
      BY <3>2, <3>3
  <2>2. upTo(n) \in SUBSET K
    OBVIOUS
  <2>3. IsFiniteSet(upTo(n))
    BY <2>2, FS_Subset
  <2>4. Cardinality(upTo(m)) <= Cardinality(upTo(n)) /\ Cardinality(upTo(m)) # Cardinality(upTo(n))
    BY <2>1, <2>3, FS_Subset
  <2> QED
    BY <1>3, <2>4
<1> HIDE DEF rank
<1>5. rank \in Injection(K, 1..size)
  <2>1. rank \in [K -> 1..size]
    BY <1>3 DEF rank
  <2>2. \A m, n \in K : rank[m] = rank[n] => m = n
    <3> SUFFICES ASSUME NEW m \in K, NEW n \in K, rank[m] = rank[n]
                 PROVE  m = n
      OBVIOUS
    <3>1. rank[m] \in Nat /\ m \in Nat /\ n \in Nat
      BY <1>3
    <3> QED
      BY <1>4, <3>1
  <2> QED
    BY <2>1, <2>2 DEF Injection, IsInjective
<1>6. rank \in Surjection(K, 1..size)
  BY <1>2, <1>5, FS_Injection
<1>7. \A k \in 1..size : \E n \in K : rank[n] = k
  BY <1>6 DEF Surjection
<1> DEFINE g == [k \in 1..size |-> CHOOSE n \in K : rank[n] = k]
<1>8. \A k \in 1..size : g[k] \in K /\ rank[g[k]] = k
  BY <1>7
<1>9. g \in [1..size -> K]
  BY <1>8
<1>10. \A j, k \in DOMAIN g : j < k => g[j] < g[k]
  <2> SUFFICES ASSUME NEW j \in 1..size, NEW k \in 1..size, j < k, ~(g[j] < g[k])
               PROVE  FALSE
    OBVIOUS
  <2>1. g[j] \in K /\ g[k] \in K /\ rank[g[j]] = j /\ rank[g[k]] = k
    BY <1>8
  <2> HIDE DEF g
  <2>2. g[k] < g[j] \/ g[k] = g[j]
    <3>1. g[j] \in Nat /\ g[k] \in Nat
      BY <2>1
    <3> QED
      BY <3>1
  <2>3. ~(rank[g[k]] < rank[g[j]]) /\ rank[g[k]] # rank[g[j]]
    BY <1>1, <2>1
  <2> QED
    BY <1>4, <2>1, <2>2, <2>3
<1> HIDE DEF g
<1> DEFINE f == InOrder(K)
<1>11. f \in [1..size -> K] /\ \A j, k \in DOMAIN f : j < k => f[j] < f[k]
  BY <1>9, <1>10 DEF InOrder
<1> HIDE DEF f
<1>12. f \in Injection(1..size, K)
  <2>1. ASSUME NEW j \in 1..size, NEW k \in 1..size, f[j] = f[k]
        PROVE  j = k
    <3>1. f[j] \in Nat /\ f[k] \in Nat
      BY <1>11
    <3>2. ~(j < k) /\ ~(k < j)
      BY <1>11, <2>1, <3>1
    <3> QED
      BY <1>1, <3>2
  <2> QED
    BY <1>11, <2>1 DEF Injection, IsInjective
<1>13. f \in Surjection(1..size, K)
  BY <1>2, <1>12, FS_Injection
<1> QED
  BY <1>1, <1>11, <1>13 DEF f, Surjection

\* What a subsequence has, and that it keeps apart what was apart.
LEMMA SelectedFacts ==
  ASSUME NEW S, NEW s \in Seq(S), NEW K \in SUBSET DOMAIN s
  PROVE  LET t == Selected(s, K)
         IN /\ t \in Seq(S)
            /\ \A k \in DOMAIN t : \E n \in K : t[k] = s[n]
            /\ \A n \in K : \E k \in DOMAIN t : t[k] = s[n]
            /\ \A j, k \in DOMAIN t : j # k =>
                 \E m, n \in K : m # n /\ t[j] = s[m] /\ t[k] = s[n]
<1> DEFINE f == InOrder(K)
           size == Cardinality(K)
           t == Selected(s, K)
<1>1. DOMAIN s = 1..Len(s) /\ Len(s) \in Nat /\ DOMAIN s \in SUBSET Nat
  OBVIOUS
<1>2. IsFiniteSet(K)
  <2>1. IsFiniteSet(1..Len(s))
    BY <1>1, FS_Interval
  <2> QED
    BY <1>1, <2>1, FS_Subset
<1>3. /\ size \in Nat /\ f \in [1..size -> K]
      /\ \A j, k \in 1..size : j < k => f[j] < f[k]
      /\ \A n \in K : \E k \in 1..size : f[k] = n
  BY <1>1, <1>2, Enumeration
<1>4. t = [k \in 1..size |-> s[f[k]]]
  BY <1>3 DEF Selected
<1> HIDE DEF f, size, t
<1>5. \A k \in 1..size : f[k] \in K /\ t[k] = s[f[k]] /\ t[k] \in S
  BY <1>3, <1>4
<1>6. t \in Seq(S)
  BY <1>3, <1>4, <1>5
<1>7. DOMAIN t = 1..size
  BY <1>4
<1>8. ASSUME NEW j \in 1..size, NEW k \in 1..size, j # k
      PROVE  f[j] # f[k]
  <2>1. f[j] \in Nat /\ f[k] \in Nat /\ (j < k \/ k < j)
    BY <1>1, <1>3, <1>8
  <2> QED
    BY <1>3, <2>1
<1> QED
  BY <1>3, <1>5, <1>6, <1>7, <1>8 DEF t
-----------------------------------------------------------------------------
(***************************************************************************)
(* What the edits do to an array whose duplicates are known.               *)
(***************************************************************************)

\* No photo twice in s but those of twice, and no two photos its cover:
\* OneOfEach of any array.
Apart(s, twice) ==
  \A m, n \in DOMAIN s :
    m # n => /\ s[m].id = s[n].id => s[m].id \in twice
             /\ s[m].isCover /\ s[n].isCover => s[m].id = s[n].id

Photos == Seq(Photo)

\* Array t has the photos ids of s, as small as they were, none twice but those
\* of twice; and if none is, a cover if s has.
Edits(s, t, ids, twice) ==
  /\ t \in Photos /\ Apart(t, twice)
  /\ Ids(t) = ids
  /\ \A p \in Elements(t) : \E q \in Elements(s) : q.id = p.id /\ q.small = p.small
  /\ twice = {} /\ HasCover(s) /\ t # <<>> => HasCover(t)

\* No two photos of an array of elements of s are its cover.
LEMMA PartApart ==
  ASSUME NEW s \in Photos, NEW some, Apart(s, some),
         NEW t \in Photos, NEW twice, Elements(t) \subseteq Elements(s),
         \A j, k \in DOMAIN t : j # k /\ t[j].id = t[k].id => t[j].id \in twice
  PROVE  Apart(t, twice)
<1> SUFFICES ASSUME NEW j \in DOMAIN t, NEW k \in DOMAIN t, j # k,
                    t[j].isCover, t[k].isCover
             PROVE  t[j].id = t[k].id
  BY DEF Apart
<1>1. t[j] \in Elements(s) /\ t[k] \in Elements(s)
  BY DEF Elements
<1>2. PICK m \in DOMAIN s, n \in DOMAIN s : t[j] = s[m] /\ t[k] = s[n]
  BY <1>1 DEF Elements
<1> QED
  BY <1>2 DEF Apart

LEMMA RestFacts ==
  ASSUME NEW s \in Photos, NEW twice, Apart(s, twice), NEW ids
  PROVE  LET t == Rest(s, ids)
         IN /\ t \in Photos /\ Apart(t, twice)
            /\ Elements(t) = {p \in Elements(s) : p.id \notin ids}
<1> DEFINE K == {n \in DOMAIN s : s[n].id \notin ids}
           t == Selected(s, K)
<1>1. K \in SUBSET DOMAIN s /\ s \in Seq(Photo)
  BY DEF Photos
<1> HIDE DEF K
<1>2. /\ t \in Photos
      /\ \A k \in DOMAIN t : \E n \in K : t[k] = s[n]
      /\ \A n \in K : \E k \in DOMAIN t : t[k] = s[n]
      /\ \A j, k \in DOMAIN t : j # k =>
           \E m, n \in K : m # n /\ t[j] = s[m] /\ t[k] = s[n]
  BY <1>1, SelectedFacts DEF Photos
<1> HIDE DEF t
<1>3. Elements(t) = {p \in Elements(s) : p.id \notin ids}
  BY <1>2 DEF Elements, K
<1>4. Apart(t, twice)
  <2>1. \A j, k \in DOMAIN t : j # k /\ t[j].id = t[k].id => t[j].id \in twice
    BY <1>1, <1>2 DEF Apart
  <2> QED
    BY <1>2, <1>3, <2>1, PartApart
<1> QED
  BY <1>2, <1>3, <1>4 DEF t, K, Rest

\* A photo is removed.
LEMMA WithoutEdits ==
  ASSUME NEW s \in Photos, NEW twice, Apart(s, twice), NEW i \in Ids(s)
  PROVE  Edits(s, Without(s, i), Ids(s) \ {i}, twice)
<1> DEFINE rest == Rest(s, {i})
           wasCover == WasCover(s, i)
           heirs == [rest EXCEPT ![1].isCover = TRUE]
<1>1. rest \in Photos /\ Apart(rest, twice) /\ Elements(rest) = {p \in Elements(s) : p.id # i}
  BY RestFacts
<1>2. Ids(rest) = Ids(s) \ {i}
  BY <1>1 DEF Ids
<1> HIDE DEF rest
<1>3. CASE rest # <<>> /\ wasCover
  <2>1. Without(s, i) = heirs
    BY <1>3 DEF Without, rest
  <2>2. /\ 1 \in DOMAIN rest
        /\ rest[1] \in Photo
    BY <1>1, <1>3 DEF Photos
  <2>3. /\ heirs \in Photos /\ DOMAIN heirs = DOMAIN rest
        /\ \A n \in DOMAIN rest : /\ heirs[n].id = rest[n].id
                                  /\ heirs[n].small = rest[n].small
                                  /\ n # 1 => heirs[n] = rest[n]
        /\ heirs[1].isCover
    <3> DEFINE x == [rest[1] EXCEPT !.isCover = TRUE]
    <3>1. x \in Photo /\ x.id = rest[1].id /\ x.small = rest[1].small /\ x.isCover
      BY <2>2 DEF Photo
    <3>2. heirs = [rest EXCEPT ![1] = x]
      BY <1>1, <2>2 DEF Photos
    <3> HIDE DEF x, heirs
    <3> QED
      BY <1>1, <2>2, <3>1, <3>2 DEF Photos
  <2> HIDE DEF heirs
  <2>4. \A n \in DOMAIN rest : ~rest[n].isCover
    <3>1. PICK m \in DOMAIN s : s[m].id = i /\ s[m].isCover
      BY <1>3 DEF WasCover, Listed
    <3>2. ASSUME NEW n \in DOMAIN rest, rest[n].isCover
          PROVE  FALSE
      <4>1. rest[n] \in Elements(rest)
        BY DEF Elements
      <4>2. PICK k \in DOMAIN s : rest[n] = s[k] /\ s[k].id # i
        BY <1>1, <4>1 DEF Elements
      <4> QED
        BY <3>1, <3>2, <4>2 DEF Apart
    <3> QED
      BY <3>2
  <2>5. Apart(heirs, twice)
    BY <1>1, <2>3, <2>4 DEF Apart
  <2>6. Ids(heirs) = Ids(s) \ {i}
    BY <1>2, <2>3 DEF Ids, Elements
  <2>7. ASSUME NEW p \in Elements(heirs)
        PROVE  \E q \in Elements(s) : q.id = p.id /\ q.small = p.small
    <3>1. PICK n \in DOMAIN rest : p.id = rest[n].id /\ p.small = rest[n].small
      BY <2>3 DEF Elements
    <3>2. rest[n] \in Elements(s)
      BY <1>1 DEF Elements
    <3> QED
      BY <3>1, <3>2
  <2>8. HasCover(heirs)
    BY <2>2, <2>3 DEF HasCover, Elements
  <2> QED
    BY <2>1, <2>3, <2>5, <2>6, <2>7, <2>8 DEF Edits
<1>4. CASE ~(rest # <<>> /\ wasCover)
  <2>1. Without(s, i) = rest
    BY <1>4 DEF Without, rest
  <2>2. ASSUME twice = {}, HasCover(s), rest # <<>>
        PROVE  HasCover(rest)
    <3>1. PICK m \in DOMAIN s : s[m].isCover
      BY <2>2 DEF HasCover, Elements
    <3>2. s[m].id # i
      <4> SUFFICES ASSUME s[m].id = i PROVE FALSE
        OBVIOUS
      <4>1. m \in Listed(s, i) /\ m \in Nat
        BY DEF Listed, Photos
      <4>2. \A n \in Listed(s, i) : n = m
        BY <2>2 DEF Listed, Apart
      <4>3. \A n \in Listed(s, i) : m <= n
        BY <4>1, <4>2
      <4> QED
        BY <1>4, <2>2, <3>1, <4>1, <4>3 DEF WasCover
    <3>3. s[m] \in Elements(rest)
      BY <1>1, <3>2 DEF Elements
    <3> QED
      BY <3>1, <3>3 DEF HasCover
  <2> QED
    BY <1>1, <1>2, <2>1, <2>2 DEF Edits
<1> QED
  BY <1>3, <1>4

\* A photo of the array becomes its cover.
LEMMA WithCoverEdits ==
  ASSUME NEW s \in Photos, NEW twice, Apart(s, twice), NEW i \in Ids(s)
  PROVE  Edits(s, WithCover(s, i), Ids(s), twice)
<1> DEFINE t == WithCover(s, i)
<1>1. \A n \in DOMAIN s : s[n] \in Photo
  BY DEF Photos
<1>2. /\ t \in Photos /\ DOMAIN t = DOMAIN s
      /\ \A n \in DOMAIN s : /\ t[n].id = s[n].id /\ t[n].small = s[n].small
                             /\ t[n].isCover <=> s[n].id = i
  <2>1. \A n \in DOMAIN s : [s[n] EXCEPT !.isCover = (s[n].id = i)] \in Photo
    BY <1>1 DEF Photo
  <2>2. t = [n \in 1..Len(s) |-> [s[n] EXCEPT !.isCover = (s[n].id = i)]] /\ Len(s) \in Nat
        /\ DOMAIN s = 1..Len(s)
    BY DEF WithCover, Photos
  <2> HIDE DEF t
  <2>3. t \in [1..Len(s) -> Photo]
    BY <2>1, <2>2
  <2>4. t \in Photos
    BY <2>2, <2>3 DEF Photos
  <2> QED
    BY <1>1, <2>2, <2>4 DEF Photo
<1> HIDE DEF t
<1>3. Apart(t, twice)
  BY <1>2 DEF Apart
<1>4. Ids(t) = Ids(s)
  BY <1>2 DEF Ids, Elements
<1>5. HasCover(t)
  BY <1>2 DEF HasCover, Ids, Elements
<1>6. \A p \in Elements(t) : \E q \in Elements(s) : q.id = p.id /\ q.small = p.small
  BY <1>2 DEF Elements
<1> QED
  BY <1>2, <1>3, <1>4, <1>5, <1>6 DEF Edits, t

\* The photo an order takes for an id is one of the array with that id.
LEMMA PhotoOfFacts ==
  ASSUME NEW s \in Photos, NEW i \in Ids(s)
  PROVE  PhotoOf(s, i) \in Elements(s) /\ PhotoOf(s, i).id = i
<1> DEFINE K == Listed(s, i)
           size == Cardinality(K)
           f == InOrder(K)
<1>1. DOMAIN s = 1..Len(s) /\ Len(s) \in Nat /\ K \in SUBSET Nat /\ K \subseteq DOMAIN s
  BY DEF Photos, Listed
<1>2. IsFiniteSet(K)
  <2>1. IsFiniteSet(1..Len(s))
    BY <1>1, FS_Interval
  <2> QED
    BY <1>1, <2>1, FS_Subset
<1>3. PICK n \in K : TRUE
  BY DEF Ids, Elements, Listed
<1> HIDE DEF K
<1>4. /\ size \in Nat /\ f \in [1..size -> K]
      /\ \A j, k \in 1..size : j < k => f[j] < f[k]
      /\ \A m \in K : \E k \in 1..size : f[k] = m
  BY <1>1, <1>2, Enumeration
<1> HIDE DEF f, size
<1>5. size \in 1..size
  <2>1. PICK k \in 1..size : f[k] = n
    BY <1>3, <1>4
  <2> QED
    BY <1>4, <2>1
<1>6. f[size] \in K /\ \A m \in K : m <= f[size]
  <2>1. ASSUME NEW m \in K PROVE m <= f[size]
    <3>1. PICK k \in 1..size : f[k] = m
      BY <1>4
    <3>2. k = size \/ k < size
      BY <1>4
    <3>3. m \in Nat /\ f[size] \in Nat
      BY <1>1, <1>4, <1>5
    <3>4. k < size => m < f[size]
      BY <1>4, <1>5, <3>1
    <3> QED
      BY <3>1, <3>2, <3>3, <3>4
  <2> QED
    BY <1>4, <1>5, <2>1
<1> DEFINE last == CHOOSE m \in K : \A k \in K : k <= m
<1>7. last \in K
  BY <1>6
<1>8. PhotoOf(s, i) = s[last]
  BY DEF PhotoOf, K
<1> HIDE DEF last
<1> QED
  BY <1>1, <1>7, <1>8 DEF K, Listed, Elements

\* The photos are put in another order, which may name one twice.
LEMMA ReorderedEdits ==
  ASSUME NEW s \in Photos, NEW some, Apart(s, some), NEW list \in Seq(Images)
  PROVE  Edits(s, Reordered(s, list), Ids(s), some \cup (Repeated(list) \cap Ids(s)))
<1> DEFINE twice == some \cup (Repeated(list) \cap Ids(s))
           K == {n \in DOMAIN list : list[n] \in Ids(s)}
           named == Selected(list, K)
           first == [n \in DOMAIN named |-> PhotoOf(s, named[n])]
           last == Rest(s, Elements(list))
           t == first \o last
<1>1. /\ named \in Seq(Images)
      /\ \A k \in DOMAIN named : \E n \in K : named[k] = list[n]
      /\ \A n \in K : \E k \in DOMAIN named : named[k] = list[n]
      /\ \A j, k \in DOMAIN named : j # k =>
           \E m, n \in K : m # n /\ named[j] = list[m] /\ named[k] = list[n]
  <2>1. K \in SUBSET DOMAIN list
    OBVIOUS
  <2> HIDE DEF K, twice
  <2> QED
    BY <2>1, SelectedFacts
<1>2. /\ last \in Photos /\ Apart(last, some)
      /\ Elements(last) = {p \in Elements(s) : p.id \notin Elements(list)}
  BY RestFacts
<1> HIDE DEF named, last
<1>3. ASSUME NEW n \in DOMAIN named
      PROVE  /\ first[n] \in Elements(s) /\ first[n].id = named[n]
             /\ named[n] \in Elements(list) /\ named[n] \in Ids(s)
  <2>1. named[n] \in Ids(s) /\ named[n] \in Elements(list)
    BY <1>1 DEF Elements
  <2>2. first[n] = PhotoOf(s, named[n])
    OBVIOUS
  <2> QED
    BY <2>1, <2>2, PhotoOfFacts
<1>4. first \in Photos /\ DOMAIN first = DOMAIN named
  <2>1. \A n \in DOMAIN named : first[n] \in Photo
    BY <1>3 DEF Elements, Photos
  <2>2. DOMAIN named = 1..Len(named) /\ Len(named) \in Nat
    BY <1>1
  <2>3. first \in [1..Len(named) -> Photo]
    BY <2>1, <2>2
  <2> QED
    BY <2>2, <2>3 DEF Photos
<1> HIDE DEF first
<1>5. /\ t \in Photos
      /\ \A n \in DOMAIN t : \/ n \in DOMAIN first /\ t[n] = first[n]
                             \/ /\ n - Len(first) \in DOMAIN last
                                /\ t[n] = last[n - Len(first)]
                                /\ n \notin DOMAIN first
      /\ \A n \in DOMAIN first : n \in DOMAIN t /\ t[n] = first[n]
      /\ \A n \in DOMAIN last : \E m \in DOMAIN t : t[m] = last[n]
  <2>1. /\ t \in Photos /\ Len(t) = Len(first) + Len(last)
        /\ \A n \in 1..Len(t) : t[n] = IF n <= Len(first) THEN first[n]
                                       ELSE last[n - Len(first)]
    BY <1>2, <1>4 DEF Photos
  <2>2. /\ DOMAIN t = 1..Len(t) /\ DOMAIN first = 1..Len(first)
        /\ DOMAIN last = 1..Len(last)
        /\ Len(first) \in Nat /\ Len(last) \in Nat
    BY <1>2, <1>4, <2>1 DEF Photos
  <2> HIDE DEF t
  <2>3. \A n \in DOMAIN last : n + Len(first) \in DOMAIN t /\ t[n + Len(first)] = last[n]
    BY <2>1, <2>2
  <2> QED
    BY <2>1, <2>2, <2>3
<1> HIDE DEF t
<1>6. Elements(t) = Elements(first) \cup Elements(last)
  BY <1>5 DEF Elements
<1>7. Elements(t) \subseteq Elements(s)
  <2>1. Elements(first) \subseteq Elements(s)
    <3> SUFFICES ASSUME NEW n \in DOMAIN first PROVE first[n] \in Elements(s)
      BY DEF Elements
    <3> QED
      BY <1>3, <1>4
  <2> QED
    BY <1>2, <1>6, <2>1
<1>8. ASSUME NEW j \in DOMAIN t, NEW k \in DOMAIN t, j # k, t[j].id = t[k].id
      PROVE  t[j].id \in twice
  <2>1. ASSUME NEW m \in DOMAIN first, NEW n \in DOMAIN first, m # n, first[m].id = first[n].id
        PROVE  first[m].id \in twice
    <3>1. m \in DOMAIN named /\ n \in DOMAIN named /\ named[m] = named[n]
          /\ first[m].id = named[m] /\ named[m] \in Ids(s) /\ named[m] \in Elements(list)
      BY <1>3, <1>4, <2>1
    <3>2. \E x, y \in DOMAIN list : x # y /\ list[x] = named[m] /\ list[y] = named[m]
      BY <1>1, <2>1, <3>1
    <3>3. named[m] \in Repeated(list)
      BY <3>1, <3>2 DEF Repeated
    <3> QED
      BY <3>1, <3>3
  <2>2. ASSUME NEW m \in DOMAIN first, NEW n \in DOMAIN last
        PROVE  first[m].id # last[n].id
    <3>1. first[m].id \in Elements(list)
      BY <1>3, <1>4
    <3>2. last[n].id \notin Elements(list)
      BY <1>2 DEF Elements
    <3> QED
      BY <3>1, <3>2
  <2>3. ASSUME NEW m \in DOMAIN last, NEW n \in DOMAIN last, m # n, last[m].id = last[n].id
        PROVE  last[m].id \in twice
    BY <1>2, <2>3 DEF Apart
  <2>4. j \in Int /\ k \in Int /\ Len(first) \in Int
    BY <1>4, <1>5 DEF Photos
  <2>5. j - Len(first) # k - Len(first)
    BY <1>8, <2>4
  <2> HIDE DEF twice
  <2>6. CASE j \in DOMAIN first /\ k \in DOMAIN first
    BY <1>5, <1>8, <2>1, <2>6
  <2>7. CASE j \notin DOMAIN first /\ k \notin DOMAIN first
    BY <1>5, <1>8, <2>3, <2>5, <2>7
  <2>8. CASE j \in DOMAIN first /\ k \notin DOMAIN first
    BY <1>5, <1>8, <2>2, <2>8
  <2>9. CASE j \notin DOMAIN first /\ k \in DOMAIN first
    BY <1>5, <1>8, <2>2, <2>9
  <2> QED
    BY <2>6, <2>7, <2>8, <2>9
<1>9. Apart(t, twice)
  BY <1>5, <1>7, <1>8, PartApart
<1>10. ASSUME NEW p \in Elements(s)
       PROVE  /\ \E q \in Elements(t) : q.id = p.id
              /\ twice = {} => p \in Elements(t)
  <2>1. PICK m \in DOMAIN s : p = s[m]
    BY DEF Elements
  <2>2. CASE p.id \notin Elements(list)
    BY <1>2, <1>6, <2>2
  <2>3. CASE p.id \in Elements(list)
    <3>1. PICK n \in DOMAIN list : list[n] = p.id
      BY <2>3 DEF Elements
    <3>2. n \in K
      BY <3>1 DEF Ids
    <3>3. PICK k \in DOMAIN named : named[k] = p.id
      BY <1>1, <3>1, <3>2
    <3>4. first[k] \in Elements(s) /\ first[k].id = p.id /\ k \in DOMAIN first
      BY <1>3, <1>4, <3>3
    <3>5. first[k] \in Elements(t)
      BY <1>6, <3>4 DEF Elements
    <3>6. ASSUME twice = {} PROVE first[k] = p
      <4>1. some = {}
        BY <3>6
      <4> QED
        BY <2>1, <3>4, <4>1 DEF Elements, Apart
    <3> QED
      BY <3>4, <3>5, <3>6
  <2> QED
    BY <2>2, <2>3
<1>11. Ids(t) = Ids(s)
  BY <1>7, <1>10 DEF Ids
<1>12. twice = {} /\ HasCover(s) => HasCover(t)
  BY <1>10 DEF HasCover
<1>13. Edits(s, t, Ids(s), twice)
  BY <1>5, <1>7, <1>9, <1>11, <1>12 DEF Edits
<1>14. Reordered(s, list) = t
  BY DEF Reordered, t, first, last, named
<1> QED
  BY <1>13, <1>14

\* The small variants of a photo are stored.
LEMMA VariantsEdits ==
  ASSUME NEW s \in Photos, NEW twice, Apart(s, twice), NEW i \in Images
  PROVE  LET t == WithVariants(s, i)
         IN /\ t \in Photos /\ Apart(t, twice) /\ Ids(t) = Ids(s)
            /\ \A p \in Elements(t) :
                 \/ p.id = i /\ p.small
                 \/ p.id # i /\ p \in Elements(s)
            /\ HasCover(s) => HasCover(t)
<1> DEFINE t == WithVariants(s, i)
           small(p) == [p EXCEPT !.small = TRUE]
<1>1. /\ \A n \in DOMAIN s : s[n] \in Photo
      /\ DOMAIN s = 1..Len(s) /\ Len(s) \in Nat
  BY DEF Photos
<1>2. ASSUME NEW p \in Photo
      PROVE  /\ small(p) \in Photo /\ small(p).small
             /\ small(p).id = p.id /\ small(p).isCover = p.isCover
  BY DEF Photo
<1>3. t = [n \in 1..Len(s) |-> IF s[n].id = i THEN small(s[n]) ELSE s[n]]
  BY <1>1 DEF WithVariants
<1> HIDE DEF t, small
<1>4. /\ DOMAIN t = DOMAIN s
      /\ \A n \in DOMAIN s : /\ t[n] \in Photo /\ t[n].id = s[n].id
                             /\ t[n].isCover = s[n].isCover
                             /\ \/ s[n].id = i /\ t[n].small
                                \/ s[n].id # i /\ t[n] = s[n]
  BY <1>1, <1>2, <1>3
<1>5. t \in Photos
  <2>1. t \in [1..Len(s) -> Photo]
    BY <1>1, <1>3, <1>4
  <2> QED
    BY <1>1, <2>1 DEF Photos
<1>6. Apart(t, twice)
  BY <1>4 DEF Apart
<1>7. Ids(t) = Ids(s)
  BY <1>4 DEF Ids, Elements
<1>8. HasCover(s) => HasCover(t)
  BY <1>4 DEF HasCover, Elements
<1>9. \A p \in Elements(t) :
        (p.id = i /\ p.small) \/ (p.id # i /\ p \in Elements(s))
  BY <1>4 DEF Elements
<1> QED
  BY <1>5, <1>6, <1>7, <1>8, <1>9 DEF t

LEMMA ElementsAppend ==
  ASSUME NEW S, NEW s \in Seq(S), NEW x \in S
  PROVE  Elements(Append(s, x)) = Elements(s) \cup {x}
<1> DEFINE t == Append(s, x)
<1>1. /\ DOMAIN s = 1..Len(s) /\ Len(s) \in Nat
      /\ DOMAIN t = 1..(Len(s) + 1) /\ t[Len(s) + 1] = x
      /\ \A n \in 1..Len(s) : t[n] = s[n]
  OBVIOUS
<1> HIDE DEF t
<1>2. \A n \in DOMAIN t : n = Len(s) + 1 \/ n \in DOMAIN s
  BY <1>1
<1>3. \A n \in DOMAIN s : n \in DOMAIN t
  BY <1>1
<1>4. Len(s) + 1 \in DOMAIN t
  BY <1>1
<1>5. Elements(t) = Elements(s) \cup {x}
  BY <1>1, <1>2, <1>3, <1>4 DEF Elements
<1> QED
  BY <1>5 DEF t

\* A confirmed photo comes last.
LEMMA AppendFacts ==
  ASSUME NEW s \in Photos, NEW p \in Photo, NEW twice
  PROVE  /\ Append(s, p) \in Photos
         /\ Elements(Append(s, p)) = Elements(s) \cup {p}
         /\ Ids(Append(s, p)) = Ids(s) \cup {p.id}
         /\ (Apart(s, twice) /\ p.id \notin Ids(s) /\ ~p.isCover) => Apart(Append(s, p), twice)
<1> DEFINE t == Append(s, p)
<1>1. /\ t \in Photos /\ DOMAIN s = 1..Len(s) /\ Len(s) \in Nat
      /\ DOMAIN t = 1..(Len(s) + 1) /\ t[Len(s) + 1] = p
      /\ \A n \in 1..Len(s) : t[n] = s[n]
  BY DEF Photos
<1> HIDE DEF t
<1>2. \A n \in DOMAIN t : n = Len(s) + 1 \/ n \in DOMAIN s
  BY <1>1
<1>3. Elements(t) = Elements(s) \cup {p}
  BY ElementsAppend DEF t, Photos
<1>4. Ids(t) = Ids(s) \cup {p.id}
  BY <1>3 DEF Ids
<1>5. ASSUME Apart(s, twice), p.id \notin Ids(s), ~p.isCover
      PROVE  Apart(t, twice)
  BY <1>1, <1>2, <1>5 DEF Apart, Ids, Elements
<1> QED
  BY <1>1, <1>3, <1>4, <1>5 DEF t

\* Lists of ids a client may send are sequences, of at least one id.
LEMMA ListsFacts ==
  ASSUME NEW list \in Lists(MaxBatch)
  PROVE  /\ list \in Seq(Images) /\ list # <<>>
         /\ Repeated(list) = {} => \A j, k \in DOMAIN list : list[j] = list[k] => j = k
<1>1. PICK k \in 1..MaxBatch : list \in [1..k -> Images]
  BY DEF Lists
<1>2. Repeated(list) = {} => \A j, m \in DOMAIN list : list[j] = list[m] => j = m
  BY DEF Repeated, Elements
<1>3. k \in Nat \ {0}
  BY <1>1
<1>4. list \in Seq(Images) /\ Len(list) = k
  BY <1>1, <1>3
<1> QED
  BY <1>2, <1>3, <1>4, EmptySeq

\* What a list of ids has once its head is taken.
LEMMA TailFacts ==
  ASSUME NEW list \in Seq(Images), list # <<>>
  PROVE  /\ Head(list) \in Images /\ Tail(list) \in Seq(Images)
         /\ Elements(list) = {Head(list)} \cup Elements(Tail(list))
         /\ Len(list) \in Nat \ {0}
         /\ Len(list) = 1 <=> Tail(list) = <<>>
         /\ (\A j, k \in DOMAIN list : list[j] = list[k] => j = k) =>
              /\ Head(list) \notin Elements(Tail(list))
              /\ \A j, k \in DOMAIN Tail(list) : Tail(list)[j] = Tail(list)[k] => j = k
<1> DEFINE t == Tail(list)
<1>1. /\ Len(list) \in Nat \ {0} /\ DOMAIN list = 1..Len(list)
      /\ Head(list) = list[1] /\ t \in Seq(Images) /\ Len(t) = Len(list) - 1
      /\ DOMAIN t = 1..(Len(list) - 1)
      /\ \A n \in 1..(Len(list) - 1) : t[n] = list[n + 1]
  BY EmptySeq, HeadTailProperties
<1>2. list[1] \in Images
  BY <1>1
<1> HIDE DEF t
<1>3. \A n \in DOMAIN list : n = 1 \/ (n - 1 \in DOMAIN t /\ list[n] = t[n - 1])
  <2> SUFFICES ASSUME NEW n \in 1..Len(list), n # 1
               PROVE  n - 1 \in DOMAIN t /\ list[n] = t[n - 1]
    BY <1>1
  <2>1. n - 1 \in 1..(Len(list) - 1) /\ (n - 1) + 1 = n
    BY <1>1
  <2> QED
    BY <1>1, <2>1
<1>4. \A n \in DOMAIN t : n + 1 \in DOMAIN list /\ t[n] = list[n + 1] /\ n + 1 # 1
  BY <1>1
<1>5. Elements(list) = {Head(list)} \cup Elements(t)
  <2>1. Elements(list) \subseteq {Head(list)} \cup Elements(t)
    BY <1>1, <1>3 DEF Elements
  <2>2. 1 \in DOMAIN list
    BY <1>1
  <2>3. Elements(t) \subseteq Elements(list)
    BY <1>4 DEF Elements
  <2>4. Head(list) \in Elements(list)
    BY <1>1, <2>2 DEF Elements
  <2> QED
    BY <2>1, <2>3, <2>4
<1>6. Len(list) = 1 <=> t = <<>>
  <2>1. t = <<>> <=> Len(t) = 0
    BY <1>1, EmptySeq
  <2> QED
    BY <1>1, <2>1
<1>7. ASSUME \A j, k \in DOMAIN list : list[j] = list[k] => j = k
      PROVE  /\ Head(list) \notin Elements(t)
             /\ \A j, k \in DOMAIN t : t[j] = t[k] => j = k
  <2>1. ASSUME NEW n \in DOMAIN t PROVE t[n] # Head(list)
    <3>1. 1 \in DOMAIN list
      BY <1>1
    <3> QED
      BY <1>1, <1>4, <1>7, <3>1
  <2>2. ASSUME NEW j \in DOMAIN t, NEW k \in DOMAIN t, t[j] = t[k] PROVE j = k
    <3>1. j + 1 = k + 1 /\ j \in Int /\ k \in Int
      BY <1>1, <1>4, <1>7, <2>2
    <3> QED
      BY <3>1
  <2> QED
    BY <2>1, <2>2 DEF Elements
<1> QED
  BY <1>1, <1>2, <1>5, <1>6, <1>7 DEF t

-----------------------------------------------------------------------------
(***************************************************************************)
(* Types.                                                                  *)
(***************************************************************************)
LEMMA ElementsType ==
  ASSUME NEW S, NEW s \in Seq(S)
  PROVE  Elements(s) \subseteq S
BY DEF Elements

LEMMA PhotoTypes ==
  ASSUME NEW s \in Photos
  PROVE  Elements(s) \subseteq Photo /\ Ids(s) \subseteq Images
<1>1. Elements(s) \subseteq Photo
  BY ElementsType DEF Photos
<1> QED
  BY <1>1 DEF Ids, Photo

\* The list a request is at has an element.
Filled(r) == IF r.step \in TaskSteps THEN r.tasks # <<>>
             ELSE r.step # "write" => r.todo # <<>>

LEMMA RequestFields ==
  ASSUME NEW r \in Request
  PROVE  /\ r # Idle
         /\ r.op \in Ops /\ r.step \in Steps
         /\ r.todo \in Seq(Images) /\ r.view \in Photos /\ r.tasks \in Seq(Images)
BY DEF Request, Idle, Steps, Photos

\* A step of handler h replaces its request by r.
LEMMA Replaced ==
  ASSUME TypeOK, NEW h \in Handlers, NEW r \in Request \cup {Idle},
         r # Idle => Filled(r), req' = [req EXCEPT ![h] = r]
  PROVE  /\ req' \in [Handlers -> {Idle} \cup Request]
         /\ req'[h] = r
         /\ \A g \in Handlers \ {h} : req'[g] = req[g]
         /\ \A g \in Busy' : Filled(req'[g])
<1>1. req \in [Handlers -> {Idle} \cup Request]
  BY DEF TypeOK
<1>2. \A g \in Handlers : req[g] # Idle => Filled(req[g])
  BY DEF TypeOK, Busy, Filled
<1> QED
  BY <1>1, <1>2 DEF Busy

\* The request a handler is at.
LEMMA AtFacts ==
  ASSUME TypeOK, NEW h \in Handlers, req[h] # Idle
  PROVE  /\ req[h] \in Request /\ Filled(req[h]) /\ h \in Busy
         /\ req[h].op \in Ops /\ req[h].step \in Steps
         /\ req[h].todo \in Seq(Images) /\ req[h].view \in Photos
         /\ req[h].tasks \in Seq(Images)
<1>1. req[h] \in Request /\ h \in Busy /\ Filled(req[h])
  BY DEF TypeOK, Busy, Filled
<1> QED
  BY <1>1, RequestFields

\* What a request is after each of its steps.
Added(r)    == [r EXCEPT !.todo = Tail(@), !.tasks = Append(@, Head(r.todo)),
                         !.step = IF Len(r.todo) = 1 THEN "generate" ELSE "append"]
Covered(r)  == [r EXCEPT !.step = "generate", !.todo = <<>>, !.tasks = r.todo]
Reads(r, s) == [r EXCEPT !.view = s, !.step = "writeVariants"]
NextOf(r)   == IF Len(r.tasks) = 1 THEN Idle
               ELSE [r EXCEPT !.step = "generate", !.view = <<>>, !.tasks = Tail(@)]

LEMMA BeginType ==
  ASSUME TypeOK, NEW h \in Handlers, NEW op \in Ops,
         NEW step \in Steps \ TaskSteps, NEW todo \in Seq(Images), todo # <<>>,
         NEW view \in Photos, Begin(h, op, step, todo, view)
  PROVE  LET r == [op |-> op, step |-> step, todo |-> todo, view |-> view, tasks |-> <<>>]
         IN r \in Request /\ Filled(r) /\ req[h] = Idle /\ req' = [req EXCEPT ![h] = r]
<1>1. <<>> \in Seq(Images)
  OBVIOUS
<1> QED
  BY <1>1 DEF Begin, Request, Filled, Photos

LEMMA AddedType ==
  ASSUME NEW r \in Request, r.step = "append", r.todo # <<>>
  PROVE  /\ Added(r) \in Request /\ Filled(Added(r))
         /\ Added(r).op = r.op /\ Added(r).todo = Tail(r.todo)
         /\ Added(r).tasks = Append(r.tasks, Head(r.todo)) /\ Added(r).view = r.view
         /\ Added(r).step = IF Tail(r.todo) = <<>> THEN "generate" ELSE "append"
<1>1. /\ Tail(r.todo) \in Seq(Images) /\ Head(r.todo) \in Images
      /\ Len(r.todo) = 1 <=> Tail(r.todo) = <<>>
  BY RequestFields, TailFacts
<1>2. Append(r.tasks, Head(r.todo)) \in Seq(Images) /\ Append(r.tasks, Head(r.todo)) # <<>>
  <2>1. r.tasks \in Seq(Images)
    BY RequestFields
  <2> QED
    BY <1>1, <2>1, AppendProperties
<1> DEFINE s == Added(r)
<1>3. /\ s.op = r.op /\ s.todo = Tail(r.todo) /\ s.view = r.view
      /\ s.tasks = Append(r.tasks, Head(r.todo))
      /\ s.step = IF Len(r.todo) = 1 THEN "generate" ELSE "append"
  BY DEF Added, Request
<1>4. s \in Request
  BY <1>1, <1>2 DEF Added, Request, Steps
<1> HIDE DEF s
<1>5. Filled(s)
  BY <1>1, <1>2, <1>3 DEF Filled, TaskSteps
<1> QED
  BY <1>1, <1>3, <1>4, <1>5 DEF s

LEMMA CoveredType ==
  ASSUME NEW r \in Request, r.todo # <<>>
  PROVE  /\ Covered(r) \in Request /\ Filled(Covered(r))
         /\ Covered(r).op = r.op /\ Covered(r).step = "generate"
<1>1. /\ Covered(r).op = r.op /\ Covered(r).step = "generate"
      /\ Covered(r).tasks = r.todo
  BY DEF Covered, Request
<1>2. <<>> \in Seq(Images)
  OBVIOUS
<1>3. Covered(r) \in Request
  BY <1>2 DEF Covered, Request, Steps
<1> QED
  BY <1>1, <1>3 DEF Filled, TaskSteps

LEMMA ReadsType ==
  ASSUME NEW r \in Request, r.tasks # <<>>, NEW s \in Photos
  PROVE  /\ Reads(r, s) \in Request /\ Filled(Reads(r, s))
         /\ Reads(r, s).op = r.op /\ Reads(r, s).step = "writeVariants"
         /\ Reads(r, s).view = s /\ Reads(r, s).tasks = r.tasks
<1>1. /\ Reads(r, s).op = r.op /\ Reads(r, s).step = "writeVariants"
      /\ Reads(r, s).view = s /\ Reads(r, s).tasks = r.tasks
  BY DEF Reads, Request
<1>2. Reads(r, s) \in Request
  BY DEF Reads, Request, Steps, Photos
<1> QED
  BY <1>1, <1>2 DEF Filled, TaskSteps

LEMMA StepType ==
  ASSUME NEW r \in Request, NEW step \in Steps,
         \/ step \in TaskSteps /\ r.tasks # <<>>
         \/ step = "write"
  PROVE  LET s == [r EXCEPT !.step = step]
         IN /\ s \in Request /\ Filled(s) /\ s.op = r.op /\ s.step = step
            /\ s.todo = r.todo /\ s.view = r.view /\ s.tasks = r.tasks
<1> DEFINE s == [r EXCEPT !.step = step]
<1>1. s = [op |-> r.op, step |-> step, todo |-> r.todo, view |-> r.view, tasks |-> r.tasks]
  BY DEF Request
<1> HIDE DEF s
<1>2. s \in Request
  BY <1>1 DEF Request
<1>3. Filled(s)
  BY <1>1 DEF Filled, TaskSteps
<1> QED
  BY <1>1, <1>2, <1>3 DEF s

LEMMA NextOfType ==
  ASSUME NEW r \in Request, r.tasks # <<>>
  PROVE  LET s == NextOf(r)
         IN \/ s = Idle /\ Tail(r.tasks) = <<>>
            \/ /\ s \in Request /\ Filled(s) /\ s.op = r.op /\ s.step = "generate"
               /\ s.tasks = Tail(r.tasks)
<1>1. Len(r.tasks) = 1 <=> Tail(r.tasks) = <<>>
  BY RequestFields, TailFacts
<1>2. Tail(r.tasks) \in Seq(Images)
  BY RequestFields, TailFacts
<1>3. CASE Len(r.tasks) = 1
  BY <1>1, <1>3 DEF NextOf
<1>4. CASE Len(r.tasks) # 1
  <2>1. NextOf(r) = [op |-> r.op, step |-> "generate", todo |-> r.todo, view |-> <<>>,
                     tasks |-> Tail(r.tasks)]
    BY <1>4 DEF NextOf, Request
  <2>2. <<>> \in Seq(Photo)
    OBVIOUS
  <2> QED
    BY <1>1, <1>2, <1>4, <2>1, <2>2 DEF Filled, TaskSteps, Request, Steps
<1> QED
  BY <1>3, <1>4

\* The steps replace the request of their handler.
LEMMA AddPhotoReq ==
  ASSUME TypeOK, NEW h \in Handlers, AddPhoto(h)
  PROVE  req' = [req EXCEPT ![h] = Added(req[h])]
BY DEF AddPhoto, Added, TypeOK

LEMMA DeleteBlobReq ==
  ASSUME TypeOK, NEW h \in Handlers, DeleteBlob(h)
  PROVE  req' = [req EXCEPT ![h] = [req[h] EXCEPT !.step = "write"]]
BY DEF DeleteBlob, Goto, TypeOK

LEMMA NextTaskReq ==
  ASSUME TypeOK, NEW h \in Handlers, NextTask(h)
  PROVE  req' = [req EXCEPT ![h] = NextOf(req[h])]
BY DEF NextTask, NextOf, End, TypeOK

LEMMA CoveredReq ==
  ASSUME TypeOK, NEW h \in Handlers, SetCover(h)
  PROVE  req' = [req EXCEPT ![h] =
                   IF req[h].op = "confirm_cover" THEN Covered(req[h]) ELSE Idle]
BY DEF SetCover, Covered, End, TypeOK

LEMMA ReadsReq ==
  ASSUME TypeOK, NEW h \in Handlers,
         req' = [req EXCEPT ![h].view = photos, ![h].step = "writeVariants"]
  PROVE  req' = [req EXCEPT ![h] = Reads(req[h], photos)]
BY DEF Reads, TypeOK

-----------------------------------------------------------------------------
(***************************************************************************)
(* What every reachable state has: whatever overlaps and fails.            *)
(***************************************************************************)
Distinct(list) == \A j, k \in DOMAIN list : list[j] = list[k] => j = k

WriteOps   == {"delete_item_image", "set_item_image_cover", "reorder_item_images"}
ConfirmOps == {"confirm_item_images", "confirm_cover"}

\* What a request is about to edit its array by.
Aims(r) == r.op # "reorder_item_images" => \E i \in Ids(r.view) : r.todo = <<i>>

\* The step a request is at, by its kind; a confirm adds photos of its own,
\* and an array it read lists no photo twice but those doubled by then.
Staged(r, known, originals, listed, twice) ==
  /\ r.step = "append" =>
       /\ r.op = "confirm_item_images"
       /\ Distinct(r.todo)
       /\ Elements(r.todo) \subseteq (known \cap originals) \ listed
  /\ r.step = "setCover" => r.op \in {"confirm_cover", "cover_from_item"}
  /\ r.step \in {"deleteBlob", "write"} => r.op \in WriteOps /\ Aims(r)
  /\ r.step = "deleteBlob" => r.op = "delete_item_image"
  /\ r.step = "generate" => r.op \in ConfirmOps
  /\ r.step \in {"reread", "writeVariants"} => r.op = "confirm_item_images"
  /\ r.step = "setVariants" => r.op = "confirm_cover"
  /\ r.step \in {"deleteBlob", "write", "writeVariants"} =>
       Apart(r.view, twice) /\ Ids(r.view) \subseteq listed

\* Two confirms are of different photos.
Parted(r, s) == (r.step = "append" /\ s.step = "append") =>
                   Elements(r.todo) \cap Elements(s.todo) = {}

ListInv ==
  /\ Apart(photos, doubled) /\ Ids(photos) \subseteq added
  /\ added \subseteq confirmed /\ removed \subseteq added
  /\ ~exists => photos = <<>>
  /\ \A h \in Busy : Staged(req[h], confirmed, stored, added, doubled)
  /\ \A g, h \in Busy : g # h => Parted(req[g], req[h])

LEMMA StagedKept ==
  ASSUME NEW r, NEW known, NEW originals, NEW listed,
         NEW known2, NEW originals2, NEW listed2, NEW twice, NEW twice2,
         Staged(r, known, originals, listed, twice),
         known \subseteq known2, listed \subseteq listed2, twice \subseteq twice2,
         r.step = "append" =>
           \A i \in Elements(r.todo) :
             (i \in originals => i \in originals2) /\ (i \in listed2 => i \in listed)
  PROVE  Staged(r, known2, originals2, listed2, twice2)
<1>1. r.step = "append" => Elements(r.todo) \subseteq (known2 \cap originals2) \ listed2
  BY DEF Staged
<1>2. /\ Ids(r.view) \subseteq listed => Ids(r.view) \subseteq listed2
      /\ Apart(r.view, twice) => Apart(r.view, twice2)
  BY DEF Apart
<1> QED
  BY <1>1, <1>2 DEF Staged

\* The requests after a step of handler h that replaces its request by r.
LEMMA RequestsKept ==
  ASSUME TypeOK, ListInv, NEW h \in Handlers, NEW r \in Request \cup {Idle},
         r # Idle => Filled(r), req' = [req EXCEPT ![h] = r],
         confirmed \subseteq confirmed', added \subseteq added', doubled \subseteq doubled',
         \A g \in Busy : g # h /\ req[g].step = "append" =>
           \A i \in Elements(req[g].todo) :
             (i \in stored => i \in stored') /\ (i \in added' => i \in added),
         r # Idle => /\ Staged(r, confirmed', stored', added', doubled')
                     /\ \A g \in Busy : g # h => Parted(r, req[g])
  PROVE  /\ \A g \in Busy' : Staged(req'[g], confirmed', stored', added', doubled')
         /\ \A g, k \in Busy' : g # k => Parted(req'[g], req'[k])
<1>1. /\ req'[h] = r
      /\ \A g \in Handlers \ {h} : req'[g] = req[g]
  BY Replaced
<1>2. \A g \in Busy' : (g = h /\ r # Idle) \/ (g # h /\ g \in Busy /\ req'[g] = req[g])
  BY <1>1 DEF Busy
<1>3. \A g \in Busy : g # h => Staged(req[g], confirmed', stored', added', doubled')
  BY StagedKept DEF ListInv
<1>4. \A g \in Busy' : Staged(req'[g], confirmed', stored', added', doubled')
  BY <1>1, <1>2, <1>3
<1>5. ASSUME NEW g \in Busy', NEW k \in Busy', g # k
      PROVE  Parted(req'[g], req'[k])
  BY <1>1, <1>2, <1>5 DEF ListInv, Parted
<1> QED
  BY <1>4, <1>5

\* A step is sound for the types and the lists if it replaces the request of h
\* by r, and what it does to the rest of the state has these properties.
Sound(h, r) ==
  /\ r \in Request \cup {Idle} /\ (r # Idle => Filled(r))
  /\ req' = [req EXCEPT ![h] = r]
  /\ confirmed \subseteq confirmed' /\ added \subseteq added' /\ doubled \subseteq doubled'
  /\ \A g \in Busy : g # h /\ req[g].step = "append" =>
       \A i \in Elements(req[g].todo) :
         (i \in stored => i \in stored') /\ (i \in added' => i \in added)
  /\ r # Idle => /\ Staged(r, confirmed', stored', added', doubled')
                 /\ \A g \in Busy : g # h => Parted(r, req[g])
  /\ exists' \in BOOLEAN /\ (exists' => exists) /\ photos' \in Photos /\ cover' \in CoverImage
  /\ ~exists' => photos' = <<>>
  /\ Apart(photos', doubled') /\ Ids(photos') \subseteq added'
  /\ added' \subseteq confirmed' /\ removed' \subseteq added'
  /\ confirmed' \cup stored' \cup unsmall' \cup torn' \cup doubled' \subseteq Images
  /\ crossed' \in Nat

LEMMA SoundKeeps ==
  ASSUME TypeOK, ListInv, NEW h \in Handlers, NEW r, Sound(h, r)
  PROVE  TypeOK' /\ ListInv'
<1>1. /\ req' \in [Handlers -> {Idle} \cup Request]
      /\ \A g \in Busy' : Filled(req'[g])
  BY Replaced DEF Sound
<1>2. /\ \A g \in Busy' : Staged(req'[g], confirmed', stored', added', doubled')
      /\ \A g, k \in Busy' : g # k => Parted(req'[g], req'[k])
  BY RequestsKept DEF Sound
<1>3. TypeOK'
  BY <1>1 DEF Sound, TypeOK, Photos, Filled
<1>4. ListInv'
  BY <1>2 DEF Sound, ListInv
<1> QED
  BY <1>3, <1>4

\* What every step starts from.
LEMMA TypeFacts ==
  ASSUME TypeOK
  PROVE  /\ exists \in BOOLEAN /\ photos \in Photos /\ cover \in CoverImage
         /\ confirmed \subseteq Images /\ stored \subseteq Images
         /\ unsmall \subseteq Images /\ torn \subseteq Images
         /\ doubled \subseteq Images /\ crossed \in Nat
         /\ Ids(photos) \subseteq Images /\ Elements(photos) \subseteq Photo
BY PhotoTypes DEF TypeOK, Photos

LEMMA BeginConfirmSound ==
  ASSUME TypeOK, ListInv, NEW h \in Handlers, BeginConfirm(h)
  PROVE  \E r \in Request : /\ Sound(h, r) /\ req[h] = Idle
                            /\ UNCHANGED <<exists, photos, added, removed, unsmall, torn, doubled, crossed>>
                            /\ stored \subseteq stored' /\ r.op # "delete_item_image"
<1>1. PICK list \in Lists(MaxBatch) :
        /\ Elements(list) \cap confirmed = {} /\ Repeated(list) = {}
        /\ \/ Begin(h, "confirm_item_images", "append", list, <<>>)
           \/ Begin(h, "confirm_cover", "setCover", list, <<>>)
        /\ stored' = stored \cup Elements(list)
        /\ confirmed' = confirmed \cup Elements(list)
        /\ UNCHANGED <<exists, photos, cover, added, removed, unsmall, torn, doubled, crossed>>
  BY DEF BeginConfirm
<1>2. list \in Seq(Images) /\ list # <<>> /\ Distinct(list)
  BY <1>1, ListsFacts DEF Distinct
<1>3. Elements(list) \subseteq Images
  BY <1>2, ElementsType
<1>4. <<>> \in Photos
  BY DEF Photos
<1>5. PICK op \in ConfirmOps, step \in {"append", "setCover"} :
        /\ op = "confirm_item_images" <=> step = "append"
        /\ Begin(h, op, step, list, <<>>)
  BY <1>1 DEF ConfirmOps
<1> DEFINE r == [op |-> op, step |-> step, todo |-> list, view |-> <<>>, tasks |-> <<>>]
<1>6. r \in Request /\ Filled(r) /\ req[h] = Idle /\ req' = [req EXCEPT ![h] = r]
  <2>1. op \in Ops /\ step \in Steps \ TaskSteps
    BY DEF ConfirmOps, Ops, Steps, TaskSteps
  <2> QED
    BY <1>2, <1>4, <1>5, <2>1, BeginType
<1>7. /\ r.op = op /\ r.step = step /\ r.todo = list
  OBVIOUS
<1> HIDE DEF r
<1>8. Staged(r, confirmed', stored', added', doubled')
  BY <1>1, <1>2, <1>5, <1>7 DEF Staged, ListInv, ConfirmOps, TaskSteps
<1>9. \A g \in Busy : g # h => Parted(r, req[g])
  BY <1>1, <1>7 DEF Parted, ListInv, Staged
<1>10. Sound(h, r)
  BY <1>1, <1>3, <1>6, <1>8, <1>9, TypeFacts DEF Sound, ListInv
<1> QED
  BY <1>1, <1>6, <1>7, <1>10 DEF ConfirmOps

LEMMA BeginEditSound ==
  ASSUME TypeOK, ListInv, NEW h \in Handlers, BeginEdit(h)
  PROVE  \E r \in Request : Sound(h, r) /\ req[h] = Idle /\ r.tasks = <<>>
<1> DEFINE Starts(op, step, todo, view) ==
             /\ Begin(h, op, step, todo, view)
             /\ todo # <<>>
             /\ op = "delete_item_image" <=> step = "deleteBlob"
             /\ op = "cover_from_item" <=> step = "setCover"
             /\ step # "setCover" =>
                  /\ view = photos
                  /\ op # "reorder_item_images" => \E i \in Ids(photos) : todo = <<i>>
<1>1. PICK op \in EditOps, step \in {"deleteBlob", "write", "setCover"}, todo \in Seq(Images),
           view \in {<<>>, photos} :
        Starts(op, step, todo, view)
  <2>1. \A i \in Ids(photos) : <<i>> \in Seq(Images) /\ <<i>> # <<>>
    BY TypeFacts
  <2>2. \A list \in Lists(MaxBatch) : list \in Seq(Images) /\ list # <<>>
    BY ListsFacts
  <2>3. \/ \E i \in Ids(photos) :
             \/ Begin(h, "delete_item_image", "deleteBlob", <<i>>, photos)
             \/ Begin(h, "set_item_image_cover", "write", <<i>>, photos)
             \/ Begin(h, "cover_from_item", "setCover", <<i>>, <<>>)
        \/ \E list \in Lists(MaxBatch) :
             Begin(h, "reorder_item_images", "write", list, photos)
    BY DEF BeginEdit
  <2>4. CASE \E list \in Lists(MaxBatch) :
               Begin(h, "reorder_item_images", "write", list, photos)
    BY <2>2, <2>4 DEF EditOps
  <2>5. ASSUME NEW i \in Ids(photos),
               \/ Begin(h, "delete_item_image", "deleteBlob", <<i>>, photos)
               \/ Begin(h, "set_item_image_cover", "write", <<i>>, photos)
               \/ Begin(h, "cover_from_item", "setCover", <<i>>, <<>>)
        PROVE  \E op \in EditOps, step \in {"deleteBlob", "write", "setCover"},
                  todo \in Seq(Images), view \in {<<>>, photos} :
                 Starts(op, step, todo, view)
    <3>1. <<i>> \in Seq(Images) /\ <<i>> # <<>>
      BY <2>1
    <3> DEFINE todo == <<i>>
    <3>2. CASE Begin(h, "delete_item_image", "deleteBlob", todo, photos)
      <4>1. Starts("delete_item_image", "deleteBlob", todo, photos)
        BY <3>1, <3>2
      <4> QED
        BY <3>1, <4>1 DEF EditOps
    <3>3. CASE Begin(h, "set_item_image_cover", "write", todo, photos)
      <4>1. Starts("set_item_image_cover", "write", todo, photos)
        BY <3>1, <3>3
      <4> QED
        BY <3>1, <4>1 DEF EditOps
    <3>4. CASE Begin(h, "cover_from_item", "setCover", todo, <<>>)
      <4>1. Starts("cover_from_item", "setCover", todo, <<>>)
        BY <3>1, <3>4
      <4> QED
        BY <3>1, <4>1 DEF EditOps
    <3> QED
      BY <2>5, <3>2, <3>3, <3>4
  <2> QED
    BY <2>3, <2>4, <2>5
<1>2. view \in Photos
  <2>1. <<>> \in Photos
    BY DEF Photos
  <2> QED
    BY <2>1, TypeFacts
<1> DEFINE r == [op |-> op, step |-> step, todo |-> todo, view |-> view, tasks |-> <<>>]
<1>3. r \in Request /\ Filled(r) /\ req[h] = Idle /\ req' = [req EXCEPT ![h] = r]
  <2>1. op \in Ops /\ step \in Steps \ TaskSteps
    BY DEF EditOps, Ops, Steps, TaskSteps
  <2> QED
    BY <1>1, <1>2, <2>1, BeginType
<1>4. r.op = op /\ r.step = step /\ r.todo = todo /\ r.view = view /\ r.tasks = <<>>
  OBVIOUS
<1> HIDE DEF r
<1>5. UNCHANGED <<exists, photos, cover, stored, history>>
  BY DEF BeginEdit
<1>6. Staged(r, confirmed', stored', added', doubled')
  BY <1>1, <1>4, <1>5 DEF Staged, ListInv, EditOps, WriteOps, TaskSteps, Aims, history
<1>7. \A g \in Busy : g # h => Parted(r, req[g])
  BY <1>1, <1>4 DEF Parted
<1>8. Sound(h, r)
  BY <1>3, <1>5, <1>6, <1>7, TypeFacts DEF Sound, ListInv, history
<1> QED
  BY <1>3, <1>4, <1>8

LEMMA AddPhotoSound ==
  ASSUME TypeOK, ListInv, NEW h \in Handlers, AddPhoto(h)
  PROVE  LET i == Head(req[h].todo)
         IN /\ Sound(h, Added(req[h]))
            /\ i \in (confirmed \cap stored) \ added /\ i \in Elements(req[h].todo)
            /\ photos' = Append(photos, [id |-> i, isCover |-> FALSE, small |-> FALSE])
            /\ req[h].op = "confirm_item_images"
<1> DEFINE r == req[h]
           i == Head(r.todo)
           p == [id |-> i, isCover |-> FALSE, small |-> FALSE]
<1>1. /\ r # Idle /\ r.step = "append" /\ exists
      /\ photos' = Append(photos, p)
      /\ added' = added \cup {i}
      /\ UNCHANGED <<exists, cover, stored, confirmed, removed, unsmall, torn, doubled, crossed>>
  BY DEF AddPhoto, At
<1>2. /\ r \in Request /\ Filled(r) /\ h \in Busy /\ r.todo \in Seq(Images)
  BY <1>1, AtFacts
<1>3. r.todo # <<>>
  BY <1>1, <1>2 DEF Filled, TaskSteps
<1>4. /\ Staged(r, confirmed, stored, added, doubled)
      /\ \A g \in Busy : g # h => Parted(req[g], r)
  BY <1>2 DEF ListInv
<1>5. /\ r.op = "confirm_item_images" /\ Distinct(r.todo)
      /\ Elements(r.todo) \subseteq (confirmed \cap stored) \ added
  BY <1>1, <1>4 DEF Staged
<1>6. /\ i \in Images /\ Elements(r.todo) = {i} \cup Elements(Tail(r.todo))
      /\ i \notin Elements(Tail(r.todo)) /\ Distinct(Tail(r.todo))
  BY <1>2, <1>3, <1>5, TailFacts DEF Distinct
<1> DEFINE s == Added(r)
<1>7. /\ s \in Request /\ Filled(s) /\ s.op = r.op /\ s.todo = Tail(r.todo)
      /\ s.step \in {"generate", "append"}
  BY <1>1, <1>2, <1>3, AddedType
<1>8. req' = [req EXCEPT ![h] = s]
  BY AddPhotoReq
<1> HIDE DEF s
<1>9. Staged(s, confirmed', stored', added', doubled')
  BY <1>1, <1>5, <1>6, <1>7 DEF Staged, ConfirmOps, TaskSteps
<1>10. \A g \in Busy : g # h => Parted(s, req[g])
  BY <1>1, <1>4, <1>6, <1>7 DEF Parted
<1>11. \A g \in Busy : g # h /\ req[g].step = "append" =>
         \A k \in Elements(req[g].todo) : k \in added' => k \in added
  BY <1>1, <1>4, <1>6 DEF Parted
<1>12. p \in Photo /\ p.id = i /\ ~p.isCover
  BY <1>6 DEF Photo
<1> HIDE DEF p
<1>13. photos' \in Photos /\ Ids(photos') = Ids(photos) \cup {i} /\ Apart(photos', doubled')
  <2>1. i \notin Ids(photos)
    BY <1>5, <1>6 DEF ListInv
  <2> QED
    BY <1>1, <1>12, <2>1, AppendFacts, TypeFacts DEF ListInv
<1>14. Sound(h, s)
  BY <1>1, <1>5, <1>6, <1>7, <1>8, <1>9, <1>10, <1>11, <1>13, TypeFacts DEF Sound, ListInv
<1> QED
  BY <1>1, <1>5, <1>6, <1>14 DEF s, p

\* What a request writes back: its array edited, which the request aims at.
LEMMA EditedFacts ==
  ASSUME NEW r \in Request, r.op \in WriteOps, Aims(r), NEW twice, Apart(r.view, twice)
  PROVE  /\ r.op = "delete_item_image" =>
              /\ r.todo = <<Head(r.todo)>> /\ Head(r.todo) \in Ids(r.view)
              /\ Edits(r.view, Edited(r), Ids(r.view) \ {Head(r.todo)}, twice)
         /\ r.op = "set_item_image_cover" => Edits(r.view, Edited(r), Ids(r.view), twice)
         /\ r.op = "reorder_item_images" =>
              Edits(r.view, Edited(r), Ids(r.view), twice \cup (Repeated(r.todo) \cap Ids(r.view)))
<1>1. r.view \in Photos /\ r.todo \in Seq(Images)
  BY RequestFields
<1>2. CASE r.op = "reorder_item_images"
  <2>1. Edited(r) = Reordered(r.view, r.todo)
    BY <1>2 DEF Edited
  <2> QED
    BY <1>1, <1>2, <2>1, ReorderedEdits
<1>3. CASE r.op # "reorder_item_images"
  <2>1. PICK i \in Ids(r.view) : r.todo = <<i>>
    BY <1>3 DEF Aims
  <2>2. Head(r.todo) = i
    BY <2>1
  <2>3. CASE r.op = "delete_item_image"
    <3>1. Edited(r) = Without(r.view, i)
      BY <2>2, <2>3 DEF Edited
    <3> QED
      BY <1>1, <2>1, <2>2, <2>3, <3>1, WithoutEdits
  <2>4. CASE r.op = "set_item_image_cover"
    <3>1. Edited(r) = WithCover(r.view, i)
      BY <2>2, <2>4 DEF Edited
    <3> QED
      BY <1>1, <2>4, <3>1, WithCoverEdits
  <2> QED
    BY <1>3, <2>3, <2>4 DEF WriteOps
<1> QED
  BY <1>2, <1>3

\* A request at the step of a handler is at it in its op.
LEMMA StagedAt ==
  ASSUME TypeOK, ListInv, NEW h \in Handlers, req[h] # Idle
  PROVE  /\ req[h] \in Request /\ Filled(req[h]) /\ h \in Busy
         /\ Staged(req[h], confirmed, stored, added, doubled)
BY AtFacts DEF ListInv

LEMMA DeleteBlobSound ==
  ASSUME TypeOK, ListInv, NEW h \in Handlers, DeleteBlob(h)
  PROVE  LET r == req[h]
             s == [r EXCEPT !.step = "write"]
         IN /\ Sound(h, s) /\ r.todo = <<Head(r.todo)>>
            /\ s \in Request /\ s.op = r.op /\ s.todo = r.todo
            /\ r.op = "delete_item_image"
            /\ stored' \in {stored, stored \ {Head(r.todo)}}
<1> DEFINE r == req[h]
           i == Head(r.todo)
           s == [r EXCEPT !.step = "write"]
<1>1. /\ r # Idle /\ r.step = "deleteBlob"
      /\ stored' \in {stored, stored \ {i}}
      /\ UNCHANGED <<exists, photos, cover, history>>
  BY DEF DeleteBlob, At
<1>2. /\ r \in Request /\ h \in Busy /\ Staged(r, confirmed, stored, added, doubled)
  BY <1>1, StagedAt
<1>3. /\ r.op = "delete_item_image" /\ Aims(r) /\ Apart(r.view, doubled)
      /\ Ids(r.view) \subseteq added /\ r.op \in WriteOps
  BY <1>1, <1>2 DEF Staged
<1>4. r.todo = <<i>> /\ i \in added
  BY <1>2, <1>3, EditedFacts
<1>5. /\ s \in Request /\ Filled(s) /\ s.op = r.op /\ s.step = "write"
      /\ s.todo = r.todo /\ s.view = r.view
  BY <1>2, StepType DEF Steps
<1>6. req' = [req EXCEPT ![h] = s]
  BY DeleteBlobReq
<1> HIDE DEF s
<1>7. Staged(s, confirmed', stored', added', doubled')
  BY <1>1, <1>3, <1>5 DEF Staged, Aims, TaskSteps, history
<1>8. \A g \in Busy : Parted(s, req[g])
  BY <1>5 DEF Parted
<1>9. \A g \in Busy : req[g].step = "append" =>
        \A k \in Elements(req[g].todo) : k # i
  BY <1>4 DEF ListInv, Staged
<1>10. stored' \subseteq Images
  BY <1>1, TypeFacts
<1>11. Sound(h, s)
  <2>1. \A g \in Busy : g # h /\ req[g].step = "append" =>
          \A k \in Elements(req[g].todo) :
            (k \in stored => k \in stored') /\ (k \in added' => k \in added)
    BY <1>1, <1>9 DEF history
  <2> QED
    BY <1>1, <1>5, <1>6, <1>7, <1>8, <1>10, <2>1, TypeFacts DEF Sound, ListInv, history
<1> QED
  BY <1>1, <1>3, <1>4, <1>5, <1>11 DEF s

LEMMA WriteSound ==
  ASSUME TypeOK, ListInv, NEW h \in Handlers, Write(h)
  PROVE  LET r == req[h]
             i == Head(r.todo)
         IN /\ Sound(h, Idle)
            /\ r.op \in WriteOps
            /\ r.op = "delete_item_image" => /\ i \in added /\ r.todo = <<i>>
                                             /\ Edits(r.view, photos', Ids(r.view) \ {i}, doubled')
            /\ r.op # "delete_item_image" => Edits(r.view, photos', Ids(r.view), doubled')
            /\ crossed' = 0 => r.view = photos /\ crossed = 0
<1> DEFINE r == req[h]
           i == Head(r.todo)
<1>1. /\ r # Idle /\ r.step = "write" /\ exists
      /\ photos' = Edited(r)
      /\ removed' = IF r.op = "delete_item_image" THEN removed \cup {i} ELSE removed
      /\ doubled' = IF r.op = "reorder_item_images"
                    THEN doubled \cup (Repeated(r.todo) \cap Ids(r.view)) ELSE doubled
      /\ crossed' = crossed + IF r.view # photos THEN 1 ELSE 0
      /\ req' = [req EXCEPT ![h] = Idle]
      /\ UNCHANGED <<exists, cover, stored, confirmed, added, unsmall, torn>>
  BY DEF Write, At, End
<1>2. /\ r \in Request /\ Staged(r, confirmed, stored, added, doubled)
  BY <1>1, StagedAt
<1>3. /\ Aims(r) /\ Apart(r.view, doubled) /\ Ids(r.view) \subseteq added /\ r.op \in WriteOps
  BY <1>1, <1>2 DEF Staged
<1>4. /\ r.op = "delete_item_image" => /\ i \in Ids(r.view) /\ r.todo = <<i>>
                                       /\ Edits(r.view, photos', Ids(r.view) \ {i}, doubled')
      /\ r.op # "delete_item_image" => Edits(r.view, photos', Ids(r.view), doubled')
      /\ doubled \subseteq doubled' /\ doubled' \subseteq Images
  <2>1. doubled \subseteq Images /\ Ids(r.view) \subseteq Images
    BY <1>2, RequestFields, PhotoTypes, TypeFacts
  <2> QED
    BY <1>1, <1>2, <1>3, <2>1, EditedFacts DEF WriteOps
<1>5. photos' \in Photos /\ Apart(photos', doubled') /\ Ids(photos') \subseteq added
  BY <1>3, <1>4 DEF Edits
<1>6. removed' \subseteq added
  BY <1>1, <1>3, <1>4 DEF ListInv
<1>7. crossed' \in Nat /\ (crossed' = 0 => r.view = photos /\ crossed = 0)
  <2>1. crossed \in Nat
    BY TypeFacts
  <2>2. CASE r.view # photos
    BY <1>1, <2>1, <2>2
  <2>3. CASE r.view = photos
    BY <1>1, <2>1, <2>3
  <2> QED
    BY <2>2, <2>3
<1>8. Sound(h, Idle)
  BY <1>1, <1>4, <1>5, <1>6, <1>7, TypeFacts DEF Sound, ListInv
<1> QED
  BY <1>3, <1>4, <1>7, <1>8

LEMMA EndSound ==
  ASSUME TypeOK, ListInv, NEW h \in Handlers, End(h),
         UNCHANGED <<exists, photos, stored, confirmed, added, removed, doubled, crossed>>,
         cover' \in CoverImage, unsmall' \cup torn' \subseteq Images
  PROVE  Sound(h, Idle)
BY TypeFacts DEF Sound, ListInv, End

\* The next task of a confirm.
LEMMA NextOfSound ==
  ASSUME TypeOK, ListInv, NEW h \in Handlers, req[h] # Idle, req[h].step \in TaskSteps,
         NextTask(h), UNCHANGED <<exists, stored, confirmed, added, removed, torn, doubled>>,
         cover' \in CoverImage, unsmall' \subseteq Images, crossed' \in Nat,
         photos' \in Photos, Apart(photos', doubled'), Ids(photos') \subseteq added,
         ~exists => photos' = <<>>
  PROVE  /\ Sound(h, NextOf(req[h]))
         /\ req[h].tasks \in Seq(Images) /\ req[h].tasks # <<>>
<1> DEFINE r == req[h]
           s == NextOf(r)
<1>1. r \in Request /\ Filled(r) /\ Staged(r, confirmed, stored, added, doubled)
  BY StagedAt
<1>2. r.tasks # <<>> /\ r.tasks \in Seq(Images)
  BY <1>1, RequestFields DEF Filled
<1>3. r.op \in ConfirmOps
  BY <1>1 DEF Staged, TaskSteps, ConfirmOps
<1>4. s = Idle \/ (s \in Request /\ Filled(s) /\ s.op = r.op /\ s.step = "generate")
  BY <1>1, <1>2, NextOfType
<1>5. req' = [req EXCEPT ![h] = s]
  BY NextTaskReq
<1> HIDE DEF s
<1>6. s # Idle => Staged(s, confirmed', stored', added', doubled')
  BY <1>3, <1>4 DEF Staged, TaskSteps
<1>7. s # Idle => \A g \in Busy : Parted(s, req[g])
  BY <1>4 DEF Parted
<1>8. Sound(h, s)
  BY <1>4, <1>5, <1>6, <1>7, TypeFacts DEF Sound, ListInv
<1> QED
  BY <1>2, <1>8 DEF s

LEMMA SetCoverSound ==
  ASSUME TypeOK, ListInv, NEW h \in Handlers, SetCover(h)
  PROVE  LET r == req[h]
             s == IF r.op = "confirm_cover" THEN Covered(r) ELSE Idle
         IN /\ Sound(h, s) /\ r.op \in {"confirm_cover", "cover_from_item"}
            /\ s # Idle => s.op = r.op
<1> DEFINE r == req[h]
           s == IF r.op = "confirm_cover" THEN Covered(r) ELSE Idle
<1>1. /\ r # Idle /\ r.step = "setCover"
      /\ cover' = [id |-> Head(r.todo), small |-> FALSE]
      /\ UNCHANGED <<exists, photos, stored, history>>
  BY DEF SetCover, At
<1>2. /\ r \in Request /\ Filled(r) /\ Staged(r, confirmed, stored, added, doubled)
  BY <1>1, StagedAt
<1>3. r.todo # <<>> /\ r.todo \in Seq(Images)
  BY <1>1, <1>2, RequestFields DEF Filled, TaskSteps
<1>4. Head(r.todo) \in Images
  BY <1>3, TailFacts
<1>5. r.op \in {"confirm_cover", "cover_from_item"}
  BY <1>1, <1>2 DEF Staged
<1>6. s = Idle \/ (/\ s \in Request /\ Filled(s) /\ s.op = r.op /\ s.step = "generate"
                   /\ s.op = "confirm_cover")
  BY <1>2, <1>3, CoveredType
<1>7. req' = [req EXCEPT ![h] = s]
  BY CoveredReq
<1> HIDE DEF s
<1>8. s # Idle => Staged(s, confirmed', stored', added', doubled')
  BY <1>6 DEF Staged, TaskSteps, ConfirmOps
<1>9. s # Idle => \A g \in Busy : Parted(s, req[g])
  BY <1>6 DEF Parted
<1>10. cover' \in CoverImage
  BY <1>1, <1>4 DEF CoverImage
<1>11. Sound(h, s)
  BY <1>1, <1>6, <1>7, <1>8, <1>9, <1>10, TypeFacts DEF Sound, ListInv, history
<1> QED
  BY <1>5, <1>6, <1>11 DEF s

LEMMA GenerateSound ==
  ASSUME TypeOK, ListInv, NEW h \in Handlers, Generate(h)
  PROVE  LET r == req[h]
             s == [r EXCEPT !.step = IF r.op = "confirm_cover" THEN "setVariants" ELSE "reread"]
         IN /\ r.tasks \in Seq(Images) /\ r.tasks # <<>>
            /\ \/ /\ Sound(h, s) /\ UNCHANGED unsmall
                  /\ s \in Request /\ s.op = r.op /\ s.tasks = r.tasks
               \/ Sound(h, NextOf(r)) /\ unsmall' = unsmall \cup {Head(r.tasks)}
<1> DEFINE r == req[h]
           step == IF r.op = "confirm_cover" THEN "setVariants" ELSE "reread"
           s == [r EXCEPT !.step = step]
<1>1. /\ r # Idle /\ r.step = "generate"
      /\ UNCHANGED <<exists, photos, cover, stored, confirmed, added, removed, torn, doubled, crossed>>
      /\ \/ Goto(h, step) /\ UNCHANGED unsmall
         \/ NextTask(h) /\ unsmall' = unsmall \cup {Head(r.tasks)}
  BY DEF Generate, At
<1>2. /\ r \in Request /\ Filled(r) /\ Staged(r, confirmed, stored, added, doubled)
  BY <1>1, StagedAt
<1>3. r.tasks # <<>> /\ r.tasks \in Seq(Images) /\ r.op \in ConfirmOps
  BY <1>1, <1>2, RequestFields DEF Filled, TaskSteps, Staged
<1>4. Head(r.tasks) \in Images
  BY <1>3, TailFacts
<1>5. CASE Goto(h, step) /\ UNCHANGED unsmall
  <2>1. step \in TaskSteps /\ step \in Steps
    BY DEF TaskSteps, Steps
  <2>2. /\ s \in Request /\ Filled(s) /\ s.op = r.op /\ s.step = step /\ s.tasks = r.tasks
    BY <1>2, <1>3, <2>1, StepType
  <2>3. req' = [req EXCEPT ![h] = s]
    BY <1>5 DEF Goto, TypeOK
  <2>4. \/ step = "setVariants" /\ r.op = "confirm_cover"
        \/ step = "reread" /\ r.op = "confirm_item_images"
    BY <1>3 DEF ConfirmOps
  <2> HIDE DEF s, step
  <2>5. Staged(s, confirmed', stored', added', doubled')
    BY <2>2, <2>4 DEF Staged, TaskSteps, ConfirmOps
  <2>6. \A g \in Busy : Parted(s, req[g])
    BY <2>2, <2>4 DEF Parted
  <2>7. Sound(h, s)
    BY <1>1, <1>5, <2>2, <2>3, <2>5, <2>6, TypeFacts DEF Sound, ListInv
  <2> QED
    BY <1>3, <1>5, <2>2, <2>7 DEF s, step
<1>6. CASE NextTask(h) /\ unsmall' = unsmall \cup {Head(r.tasks)}
  <2>1. Sound(h, NextOf(r))
    BY <1>1, <1>4, <1>6, NextOfSound, TypeFacts DEF TaskSteps, ListInv
  <2> QED
    BY <1>3, <1>6, <2>1
<1> QED
  BY <1>1, <1>5, <1>6

LEMMA RereadSound ==
  ASSUME TypeOK, ListInv, NEW h \in Handlers, Reread(h)
  PROVE  LET r == req[h]
             s == IF exists THEN Reads(r, photos) ELSE NextOf(r)
         IN /\ Sound(h, s) /\ r.op = "confirm_item_images"
            /\ r.tasks \in Seq(Images) /\ r.tasks # <<>>
            /\ exists => s \in Request /\ s.op = r.op /\ s.tasks = r.tasks
<1> DEFINE r == req[h]
           s == Reads(r, photos)
<1>1. /\ r # Idle /\ r.step = "reread"
      /\ UNCHANGED <<exists, photos, cover, stored, history>>
      /\ exists => req' = [req EXCEPT ![h].view = photos, ![h].step = "writeVariants"]
      /\ ~exists => NextTask(h)
  BY DEF Reread, At
<1>2. /\ r \in Request /\ Filled(r) /\ Staged(r, confirmed, stored, added, doubled)
  BY <1>1, StagedAt
<1>3. r.tasks # <<>> /\ r.tasks \in Seq(Images) /\ r.op = "confirm_item_images"
  BY <1>1, <1>2, RequestFields DEF Filled, TaskSteps, Staged
<1>4. CASE exists
  <2>1. /\ s \in Request /\ Filled(s) /\ s.op = r.op /\ s.step = "writeVariants"
        /\ s.view = photos /\ s.tasks = r.tasks
    BY <1>2, <1>3, ReadsType, TypeFacts
  <2>2. req' = [req EXCEPT ![h] = s]
    BY <1>1, <1>4, ReadsReq
  <2> HIDE DEF s
  <2>3. Staged(s, confirmed', stored', added', doubled')
    BY <1>1, <1>3, <2>1 DEF Staged, TaskSteps, ListInv, history
  <2>4. \A g \in Busy : Parted(s, req[g])
    BY <2>1 DEF Parted
  <2>5. Sound(h, s)
    BY <1>1, <2>1, <2>2, <2>3, <2>4, TypeFacts DEF Sound, ListInv, history
  <2> QED
    BY <1>3, <1>4, <2>1, <2>5 DEF s
<1>5. CASE ~exists
  <2>1. Sound(h, NextOf(r))
    BY <1>1, <1>5, NextOfSound, TypeFacts DEF TaskSteps, ListInv, history
  <2> QED
    BY <1>3, <1>5, <2>1
<1> QED
  BY <1>4, <1>5

LEMMA WriteVariantsSound ==
  ASSUME TypeOK, ListInv, NEW h \in Handlers, WriteVariants(h)
  PROVE  LET r == req[h]
         IN /\ Sound(h, NextOf(r)) /\ r.op = "confirm_item_images"
            /\ r.tasks \in Seq(Images) /\ r.tasks # <<>>
            /\ r.view \in Photos /\ Apart(r.view, doubled)
            /\ exists => photos' = WithVariants(r.view, Head(r.tasks))
            /\ exists /\ crossed' = 0 => r.view = photos /\ crossed = 0
            /\ ~exists => UNCHANGED <<photos, crossed>>
<1> DEFINE r == req[h]
           i == Head(r.tasks)
           t == WithVariants(r.view, i)
<1>1. /\ r # Idle /\ r.step = "writeVariants"
      /\ photos' = IF exists THEN t ELSE photos
      /\ crossed' = crossed + IF exists /\ r.view # photos THEN 1 ELSE 0
      /\ NextTask(h)
      /\ UNCHANGED <<exists, cover, stored, confirmed, added, removed, unsmall, torn, doubled>>
  BY DEF WriteVariants, At
<1>2. /\ r \in Request /\ Filled(r) /\ Staged(r, confirmed, stored, added, doubled)
  BY <1>1, StagedAt
<1>3. /\ r.tasks # <<>> /\ r.tasks \in Seq(Images) /\ r.op = "confirm_item_images"
      /\ r.view \in Photos /\ Apart(r.view, doubled) /\ Ids(r.view) \subseteq added
  BY <1>1, <1>2, RequestFields DEF Filled, TaskSteps, Staged
<1>4. i \in Images
  BY <1>3, TailFacts
<1>5. t \in Photos /\ Apart(t, doubled) /\ Ids(t) = Ids(r.view)
  BY <1>3, <1>4, VariantsEdits
<1> HIDE DEF t
<1>6. /\ photos' \in Photos /\ Apart(photos', doubled') /\ Ids(photos') \subseteq added
      /\ ~exists => photos' = <<>>
  BY <1>1, <1>3, <1>5, TypeFacts DEF ListInv
<1>7. /\ crossed' \in Nat
      /\ exists /\ crossed' = 0 => r.view = photos /\ crossed = 0
      /\ ~exists => crossed' = crossed
  <2>1. crossed \in Nat
    BY TypeFacts
  <2>2. CASE exists /\ r.view # photos
    BY <1>1, <2>1, <2>2
  <2>3. CASE ~(exists /\ r.view # photos)
    BY <1>1, <2>1, <2>3
  <2> QED
    BY <2>2, <2>3
<1>8. Sound(h, NextOf(r))
  BY <1>1, <1>6, <1>7, NextOfSound, TypeFacts DEF TaskSteps
<1> QED
  BY <1>1, <1>3, <1>7, <1>8 DEF t

LEMMA SetVariantsSound ==
  ASSUME TypeOK, ListInv, NEW h \in Handlers, SetVariants(h)
  PROVE  Sound(h, NextOf(req[h])) /\ req[h].op = "confirm_cover"
<1> DEFINE r == req[h]
<1>1. /\ r # Idle /\ r.step = "setVariants"
      /\ cover' = [id |-> Head(r.tasks), small |-> TRUE]
      /\ NextTask(h)
      /\ UNCHANGED <<exists, photos, stored, history>>
  BY DEF SetVariants, At
<1>2. /\ r \in Request /\ Filled(r) /\ Staged(r, confirmed, stored, added, doubled)
  BY <1>1, StagedAt
<1>3. r.tasks # <<>> /\ r.tasks \in Seq(Images) /\ r.op = "confirm_cover"
  BY <1>1, <1>2, RequestFields DEF Filled, TaskSteps, Staged
<1>4. cover' \in CoverImage
  <2>1. Head(r.tasks) \in Images
    BY <1>3, TailFacts
  <2> QED
    BY <1>1, <2>1 DEF CoverImage
<1>5. Sound(h, NextOf(r))
  BY <1>1, <1>4, NextOfSound, TypeFacts DEF TaskSteps, ListInv, history
<1> QED
  BY <1>3, <1>5

LEMMA FailSound ==
  ASSUME TypeOK, ListInv, NEW h \in Handlers, Fail(h)
  PROVE  Sound(h, Idle) /\ req[h] \in Request
<1> DEFINE r == req[h]
<1>1. /\ r # Idle
      /\ End(h)
      /\ unsmall' = unsmall \cup Elements(r.tasks)
      /\ torn' = IF r.op = "delete_item_image" THEN torn \cup (Elements(r.todo) \ stored)
                 ELSE torn
      /\ UNCHANGED <<exists, photos, cover, stored, confirmed, added, removed, doubled, crossed>>
  BY DEF Fail
<1>2. r \in Request /\ r.todo \in Seq(Images) /\ r.tasks \in Seq(Images)
  BY <1>1, AtFacts
<1>3. Elements(r.todo) \subseteq Images /\ Elements(r.tasks) \subseteq Images
  BY <1>2, ElementsType
<1>4. unsmall' \cup torn' \subseteq Images
  BY <1>1, <1>3, TypeFacts
<1> QED
  BY <1>1, <1>2, <1>4, EndSound, TypeFacts

LEMMA MissingSound ==
  ASSUME TypeOK, ListInv, NEW h \in Handlers, Missing(h)
  PROVE  Sound(h, Idle) /\ ~exists
<1>1. ~exists /\ End(h) /\ UNCHANGED <<exists, photos, cover, stored, history>>
  BY DEF Missing
<1> QED
  BY <1>1, EndSound, TypeFacts DEF history

\* A step of the client with the item or the cover as a whole.
LEMMA WholeKeeps ==
  ASSUME TypeOK, ListInv, RemoveItem \/ DeleteCover \/ UNCHANGED vars
  PROVE  TypeOK' /\ ListInv'
<1>1. Apart(<<>>, doubled) /\ Ids(<<>>) = {} /\ <<>> \in Seq(Photo)
  BY DEF Apart, Ids, Elements
<1>2. CASE RemoveItem
  BY <1>1, <1>2 DEF RemoveItem, TypeOK, ListInv, Busy, history
<1>3. CASE DeleteCover
  BY <1>3 DEF DeleteCover, TypeOK, ListInv, Busy, CoverImage, history
<1>4. CASE UNCHANGED vars
  BY <1>4 DEF vars, TypeOK, ListInv, Busy, history
<1> QED
  BY <1>2, <1>3, <1>4

\* Every step of a handler is sound.
LEMMA HandlerSound ==
  ASSUME TypeOK, ListInv, NEW h \in Handlers,
         BeginConfirm(h) \/ BeginEdit(h) \/ Proceed(h) \/ Fail(h)
  PROVE  \E r : Sound(h, r)
<1>1. CASE BeginConfirm(h) \/ BeginEdit(h) \/ Fail(h)
  BY <1>1, BeginConfirmSound, BeginEditSound, FailSound
<1>2. CASE AddPhoto(h) \/ DeleteBlob(h) \/ Write(h) \/ Missing(h) \/ SetCover(h)
  BY <1>2, AddPhotoSound, DeleteBlobSound, WriteSound, MissingSound, SetCoverSound
<1>3. CASE Generate(h) \/ Reread(h) \/ WriteVariants(h) \/ SetVariants(h)
  BY <1>3, GenerateSound, RereadSound, WriteVariantsSound, SetVariantsSound
<1> QED
  BY <1>1, <1>2, <1>3 DEF Proceed

LEMMA InitLists == Init => TypeOK /\ ListInv
<1> SUFFICES ASSUME Init PROVE TypeOK /\ ListInv
  OBVIOUS
<1>1. <<>> \in Seq(Photo)
  OBVIOUS
<1>2. TypeOK
  BY <1>1 DEF Init, TypeOK, Busy, CoverImage
<1>3. Apart(photos, doubled) /\ Ids(photos) = {}
  BY DEF Init, Apart, Ids, Elements
<1> QED
  BY <1>2, <1>3 DEF Init, ListInv, Busy

LEMMA NextLists == TypeOK /\ ListInv /\ [Next]_vars => TypeOK' /\ ListInv'
<1> SUFFICES ASSUME TypeOK, ListInv, [Next]_vars
             PROVE  TypeOK' /\ ListInv'
  OBVIOUS
<1>1. CASE RemoveItem \/ DeleteCover \/ UNCHANGED vars
  BY <1>1, WholeKeeps
<1>2. ASSUME NEW h \in Handlers, BeginConfirm(h) \/ BeginEdit(h) \/ Proceed(h) \/ Fail(h)
      PROVE  TypeOK' /\ ListInv'
  BY <1>2, HandlerSound, SoundKeeps
<1> QED
  BY <1>1, <1>2 DEF Next

\* Every reachable state is well typed: a background task has a photo to make
\* variants of, every other step but a write an id to deal with, and the
\* arrays written back (routers/sales.py) are arrays of photos.
THEOREM TypeCorrect == Spec => []TypeOK
BY InitLists, NextLists, PTL DEF Spec

\* However requests and tasks overlap or fail, no photo is listed twice but one
\* that an order named twice (reorder_item_images takes such a list), and no two
\* photos are the item's cover (set_item_image_cover, delete_item_image).
THEOREM EachListedOnce == Spec => []OneOfEach
<1>1. ListInv => OneOfEach
  BY DEF ListInv, Apart, OneOfEach
<1> QED
  BY <1>1, InitLists, NextLists, PTL DEF Spec

-----------------------------------------------------------------------------
(***************************************************************************)
(* What no write went over.                                                *)
(***************************************************************************)

\* The steps that leave the array of the item alone.
Aside(h) ==
  \/ BeginConfirm(h) \/ BeginEdit(h) \/ DeleteBlob(h) \/ Missing(h) \/ SetCover(h)
  \/ Generate(h) \/ Reread(h) \/ SetVariants(h) \/ Fail(h)

LEMMA AsideKeeps ==
  ASSUME NEW h \in Handlers, Aside(h)
  PROVE  UNCHANGED <<exists, photos, added, removed, crossed>>
BY DEF Aside, BeginConfirm, BeginEdit, DeleteBlob, Missing, SetCover, Generate, Reread,
       SetVariants, Fail, history

LEMMA NextCases ==
  ASSUME [Next]_vars
  PROVE  \/ RemoveItem \/ DeleteCover \/ UNCHANGED vars
         \/ \E h \in Handlers : AddPhoto(h) \/ Write(h) \/ WriteVariants(h) \/ Aside(h)
BY DEF Next, Proceed, Aside

\* As long as no array was written back over another write, the item lists
\* exactly the photos confirmed and not removed, whatever overlaps and fails.
\* (confirm_item_images, delete_item_image, reorder_item_images and the
\* variants task in routers/sales.py)
THEOREM ListsConfirmed == Spec => []ListedAsConfirmed
<1>1. Init => ListedAsConfirmed
  BY DEF Init, ListedAsConfirmed, Ids, Elements
<1>2. TypeOK /\ ListInv /\ ListedAsConfirmed /\ [Next]_vars => ListedAsConfirmed'
  <2> SUFFICES ASSUME TypeOK, ListInv, ListedAsConfirmed, [Next]_vars, exists', crossed' = 0
               PROVE  Ids(photos') = added' \ removed'
    BY DEF ListedAsConfirmed
  <2>1. CASE RemoveItem \/ DeleteCover \/ UNCHANGED vars
    BY <2>1 DEF RemoveItem, DeleteCover, vars, history, ListedAsConfirmed
  <2>2. ASSUME NEW h \in Handlers, Aside(h)
        PROVE  Ids(photos') = added' \ removed'
    BY <2>2, AsideKeeps DEF ListedAsConfirmed
  <2>3. ASSUME NEW h \in Handlers, AddPhoto(h)
        PROVE  Ids(photos') = added' \ removed'
    <3> DEFINE i == Head(req[h].todo)
               p == [id |-> i, isCover |-> FALSE, small |-> FALSE]
    <3>1. i \in Images /\ i \notin added /\ photos' = Append(photos, p)
      BY <2>3, AddPhotoSound, TypeFacts
    <3>2. added' = added \cup {i} /\ UNCHANGED <<exists, removed, crossed>>
      BY <2>3 DEF AddPhoto
    <3>3. p \in Photo /\ p.id = i
      BY <3>1 DEF Photo
    <3> HIDE DEF p
    <3>4. Ids(photos') = Ids(photos) \cup {i}
      BY <3>1, <3>3, AppendFacts, TypeFacts
    <3> QED
      BY <3>1, <3>2, <3>4 DEF ListedAsConfirmed, ListInv
  <2>4. ASSUME NEW h \in Handlers, Write(h)
        PROVE  Ids(photos') = added' \ removed'
    <3> DEFINE r == req[h]
               i == Head(r.todo)
    <3>1. /\ r.op = "delete_item_image" => Ids(photos') = Ids(photos) \ {i}
          /\ r.op # "delete_item_image" => Ids(photos') = Ids(photos)
          /\ crossed = 0
      BY <2>4, WriteSound DEF Edits
    <3>2. /\ removed' = IF r.op = "delete_item_image" THEN removed \cup {i} ELSE removed
          /\ UNCHANGED <<exists, added>>
      BY <2>4 DEF Write
    <3> QED
      BY <3>1, <3>2 DEF ListedAsConfirmed
  <2>5. ASSUME NEW h \in Handlers, WriteVariants(h)
        PROVE  Ids(photos') = added' \ removed'
    <3> DEFINE i == Head(req[h].tasks)
    <3>1. UNCHANGED <<exists, added, removed>>
      BY <2>5 DEF WriteVariants
    <3>2. /\ photos' = WithVariants(photos, i) /\ crossed = 0
          /\ req[h].tasks \in Seq(Images) /\ req[h].tasks # <<>>
      BY <2>5, <3>1, WriteVariantsSound
    <3>3. i \in Images
      BY <3>2, TailFacts
    <3>4. Ids(photos') = Ids(photos)
      BY <3>2, <3>3, VariantsEdits, TypeFacts DEF ListInv
    <3> QED
      BY <3>1, <3>2, <3>4 DEF ListedAsConfirmed
  <2> QED
    BY <2>1, <2>2, <2>3, <2>4, <2>5, NextCases
<1> QED
  BY <1>1, <1>2, InitLists, NextLists, PTL DEF Spec

\* Only a removal deletes an original, and it names the photo until it ends.
LEMMA RemovesOnlyAtWrites ==
  ASSUME TypeOK, ListInv, NEW h \in Handlers, req[h] # Idle,
         req[h].step \notin {"deleteBlob", "write"}
  PROVE  req[h].op # "delete_item_image"
<1>1. req[h] \in Request /\ Staged(req[h], confirmed, stored, added, doubled)
  BY StagedAt
<1>2. req[h].step \in Steps
  BY <1>1, RequestFields
<1> QED
  BY <1>1, <1>2 DEF Staged, Steps, ConfirmOps

Removing(i) == \E h \in Busy : req[h].op = "delete_item_image" /\ i \in Elements(req[h].todo)

HasOriginal(i) == i \in stored \/ i \in torn \/ Removing(i)

OriginalsInv == crossed = 0 => \A i \in Ids(photos) : HasOriginal(i)

\* A photo of no removal that ends here has its original as before.
LEMMA RemovingKept ==
  ASSUME TypeOK, NEW h \in Handlers, NEW r, Sound(h, r), NEW i, Removing(i),
         \/ req[h] = Idle \/ req[h].op # "delete_item_image" \/ i \notin Elements(req[h].todo)
         \/ r # Idle /\ r.op = req[h].op /\ r.todo = req[h].todo
  PROVE  Removing(i)'
<1>1. /\ req'[h] = r
      /\ \A g \in Handlers \ {h} : req'[g] = req[g]
  BY Replaced DEF Sound
<1> QED
  BY <1>1 DEF Removing, Busy

LEMMA AsideOriginals ==
  ASSUME TypeOK, ListInv, NEW h \in Handlers, Aside(h), exists, NEW i, HasOriginal(i)
  PROVE  HasOriginal(i)'
<1>1. CASE BeginConfirm(h)
  BY <1>1, BeginConfirmSound, RemovingKept DEF HasOriginal
<1>2. CASE BeginEdit(h)
  <2>1. UNCHANGED <<stored, torn>>
    BY <1>2 DEF BeginEdit, history
  <2> QED
    BY <1>2, <2>1, BeginEditSound, RemovingKept DEF HasOriginal
<1>3. CASE DeleteBlob(h)
  <2> DEFINE r == req[h]
             s == [r EXCEPT !.step = "write"]
  <2>1. /\ Sound(h, s) /\ s \in Request /\ s.op = r.op /\ s.todo = r.todo
        /\ r.op = "delete_item_image"
        /\ stored' \in {stored, stored \ {Head(r.todo)}} /\ r.todo = <<Head(r.todo)>>
    BY <1>3, DeleteBlobSound
  <2>2. torn' = torn /\ r # Idle
    BY <1>3 DEF DeleteBlob, At, history
  <2>3. s # Idle
    BY <2>1, RequestFields
  <2> HIDE DEF s
  <2>4. Removing(i) => Removing(i)'
    BY <2>1, <2>3, RemovingKept
  <2>5. ASSUME i = Head(r.todo)
        PROVE  Removing(i)'
    <3>1. h \in Busy
      BY <2>2, StagedAt
    <3>2. i \in Elements(r.todo)
      <4> DEFINE one == <<Head(r.todo)>>
      <4>1. Head(r.todo) \in Elements(one)
        <5>1. 1 \in DOMAIN one /\ one[1] = Head(r.todo)
          OBVIOUS
        <5> QED
          BY <5>1 DEF Elements
      <4> QED
        BY <2>1, <2>5, <4>1
    <3>3. Removing(i)
      BY <2>1, <3>1, <3>2 DEF Removing
    <3> QED
      BY <2>4, <3>3
  <2> QED
    BY <2>1, <2>2, <2>4, <2>5 DEF HasOriginal
<1>4. CASE Missing(h)
  BY <1>4, MissingSound
<1>5. ASSUME SetCover(h) \/ Generate(h) \/ Reread(h) \/ SetVariants(h)
      PROVE  HasOriginal(i)'
  <2>1. req[h] # Idle /\ req[h].step \notin {"deleteBlob", "write"}
    BY <1>5 DEF SetCover, Generate, Reread, SetVariants, At
  <2>2. req[h].op # "delete_item_image"
    BY <2>1, RemovesOnlyAtWrites
  <2>3. \E r : Sound(h, r)
    BY <1>5, HandlerSound DEF Proceed
  <2>4. UNCHANGED <<stored, torn>>
    BY <1>5 DEF SetCover, Generate, Reread, SetVariants, history
  <2> QED
    BY <2>2, <2>3, <2>4, RemovingKept DEF HasOriginal
<1>6. CASE Fail(h)
  <2>1. /\ stored' = stored
        /\ torn' = IF req[h].op = "delete_item_image"
                   THEN torn \cup (Elements(req[h].todo) \ stored) ELSE torn
    BY <1>6 DEF Fail
  <2>2. Sound(h, Idle)
    BY <1>6, FailSound
  <2> QED
    BY <2>1, <2>2, RemovingKept DEF HasOriginal
<1> QED
  BY <1>1, <1>2, <1>3, <1>4, <1>5, <1>6 DEF Aside

\* As long as no array was written back over another write, a listed photo
\* has its original in storage, but while its removal is under way or after
\* it failed half way: delete_item_image deletes the original first.
THEOREM OriginalsStored == Spec => []ListedAreStored
<1>1. Init => OriginalsInv
  BY DEF Init, OriginalsInv, Ids, Elements
<1>2. TypeOK /\ ListInv /\ OriginalsInv /\ [Next]_vars => OriginalsInv'
  <2> SUFFICES ASSUME TypeOK, ListInv, OriginalsInv, [Next]_vars, crossed' = 0,
                      NEW i \in Ids(photos')
               PROVE  HasOriginal(i)'
    BY DEF OriginalsInv
  <2>1. Ids(<<>>) = {}
    BY DEF Ids, Elements
  <2>2. CASE RemoveItem \/ DeleteCover \/ UNCHANGED vars
    BY <2>1, <2>2 DEF RemoveItem, DeleteCover, vars, history, OriginalsInv, HasOriginal,
                      Removing, Busy
  <2>3. ASSUME NEW h \in Handlers, Aside(h)
        PROVE  HasOriginal(i)'
    <3>1. UNCHANGED <<exists, photos, crossed>>
      BY <2>3, AsideKeeps
    <3>2. exists
      BY <2>1, <3>1 DEF ListInv
    <3> QED
      BY <2>3, <3>1, <3>2, AsideOriginals DEF OriginalsInv
  <2>4. ASSUME NEW h \in Handlers, AddPhoto(h)
        PROVE  HasOriginal(i)'
    <3> DEFINE k == Head(req[h].todo)
               p == [id |-> k, isCover |-> FALSE, small |-> FALSE]
    <3>1. /\ k \in Images /\ k \in stored /\ photos' = Append(photos, p)
          /\ Sound(h, Added(req[h])) /\ req[h].op # "delete_item_image"
      BY <2>4, AddPhotoSound, TypeFacts
    <3>2. UNCHANGED <<stored, torn, doubled, crossed>>
      BY <2>4 DEF AddPhoto
    <3>3. p \in Photo /\ p.id = k
      BY <3>1 DEF Photo
    <3> HIDE DEF p
    <3>4. i = k \/ i \in Ids(photos)
      BY <3>1, <3>3, AppendFacts, TypeFacts
    <3> QED
      BY <3>1, <3>2, <3>4, RemovingKept DEF OriginalsInv, HasOriginal
  <2>5. ASSUME NEW h \in Handlers, Write(h)
        PROVE  HasOriginal(i)'
    <3> DEFINE r == req[h]
               k == Head(r.todo)
    <3>1. /\ Sound(h, Idle) /\ crossed = 0
          /\ r.op = "delete_item_image" =>
               Ids(photos') = Ids(photos) \ {k} /\ r.todo = <<k>>
          /\ r.op # "delete_item_image" => Ids(photos') = Ids(photos)
      BY <2>5, WriteSound DEF Edits
    <3>2. UNCHANGED <<stored, torn>>
      BY <2>5 DEF Write
    <3>3. Elements(<<k>>) = {k}
      BY DEF Elements
    <3>4. r.op # "delete_item_image" \/ i \notin Elements(r.todo)
      BY <3>1, <3>3
    <3> QED
      BY <3>1, <3>2, <3>4, RemovingKept DEF OriginalsInv, HasOriginal
  <2>6. ASSUME NEW h \in Handlers, WriteVariants(h)
        PROVE  HasOriginal(i)'
    <3> DEFINE k == Head(req[h].tasks)
    <3>1. UNCHANGED <<exists, stored, torn>>
      BY <2>6 DEF WriteVariants
    <3>2. exists
      BY <2>1, <2>6, <3>1, SoundKeeps, WriteVariantsSound DEF ListInv
    <3>3. /\ photos' = WithVariants(photos, k) /\ crossed = 0
          /\ req[h].tasks \in Seq(Images) /\ req[h].tasks # <<>>
          /\ Sound(h, NextOf(req[h])) /\ req[h].op # "delete_item_image"
      BY <2>6, <3>2, WriteVariantsSound
    <3>4. k \in Images
      BY <3>3, TailFacts
    <3>5. Ids(photos') = Ids(photos)
      BY <3>3, <3>4, VariantsEdits, TypeFacts DEF ListInv
    <3> QED
      BY <3>1, <3>3, <3>5, RemovingKept DEF OriginalsInv, HasOriginal
  <2> QED
    BY <2>2, <2>3, <2>4, <2>5, <2>6, NextCases
<1>3. OriginalsInv => ListedAreStored
  BY DEF OriginalsInv, ListedAreStored, HasOriginal, Removing
<1> QED
  BY <1>1, <1>2, <1>3, InitLists, NextLists, PTL DEF Spec

\* A background task for the variants of photo i is still to come.
Coming(i) ==
  \E h \in Busy : req[h].op = "confirm_item_images" /\ i \in Elements(req[h].tasks)

Expected(p) == p.small \/ p.id \in unsmall \/ Coming(p.id)

VariantsInv == crossed = 0 => \A p \in Elements(photos) : Expected(p)

LEMMA ComingKept ==
  ASSUME TypeOK, NEW h \in Handlers, NEW r, Sound(h, r), NEW i, Coming(i),
         \/ req[h] = Idle \/ req[h].op # "confirm_item_images"
         \/ i \notin Elements(req[h].tasks)
         \/ r \in Request /\ r.op = req[h].op /\ i \in Elements(r.tasks)
  PROVE  Coming(i)'
<1>1. /\ req'[h] = r
      /\ \A g \in Handlers \ {h} : req'[g] = req[g]
  BY Replaced DEF Sound
<1>2. r \in Request => r # Idle
  BY RequestFields
<1> QED
  BY <1>1, <1>2 DEF Coming, Busy

\* The next task leaves out only the photo whose task it was.
LEMMA NextOfComing ==
  ASSUME TypeOK, NEW h \in Handlers, req[h] # Idle, req[h].tasks # <<>>,
         Sound(h, NextOf(req[h])), NEW i, Coming(i), i # Head(req[h].tasks)
  PROVE  Coming(i)'
<1> DEFINE r == req[h]
<1>1. r \in Request /\ r.tasks \in Seq(Images)
  BY AtFacts
<1>2. Elements(r.tasks) = {Head(r.tasks)} \cup Elements(Tail(r.tasks))
  BY <1>1, TailFacts
<1>3. Elements(<<>>) = {}
  BY DEF Elements
<1>4. CASE NextOf(r) = Idle /\ Tail(r.tasks) = <<>>
  <2>1. i \notin Elements(r.tasks)
    BY <1>2, <1>3, <1>4
  <2> QED
    BY <2>1, ComingKept
<1>5. CASE /\ NextOf(r) \in Request /\ NextOf(r).op = r.op
           /\ NextOf(r).tasks = Tail(r.tasks)
  BY <1>2, <1>5, ComingKept
<1> QED
  BY <1>1, <1>4, <1>5, NextOfType

LEMMA AsideVariants ==
  ASSUME TypeOK, ListInv, NEW h \in Handlers, Aside(h), exists, NEW p, Expected(p)
  PROVE  Expected(p)'
<1> DEFINE r == req[h]
<1>1. CASE BeginConfirm(h)
  BY <1>1, BeginConfirmSound, ComingKept DEF Expected
<1>2. CASE BeginEdit(h)
  <2>1. unsmall' = unsmall
    BY <1>2 DEF BeginEdit, history
  <2> QED
    BY <1>2, <2>1, BeginEditSound, ComingKept DEF Expected
<1>3. CASE DeleteBlob(h)
  <2>1. unsmall' = unsmall
    BY <1>3 DEF DeleteBlob, history
  <2> QED
    BY <1>3, <2>1, DeleteBlobSound, ComingKept DEF Expected
<1>4. CASE Missing(h)
  BY <1>4, MissingSound
<1>5. CASE SetCover(h)
  <2>1. unsmall' = unsmall
    BY <1>5 DEF SetCover, history
  <2> QED
    BY <1>5, <2>1, SetCoverSound, ComingKept DEF Expected
<1>6. CASE Generate(h)
  <2> DEFINE s == [r EXCEPT !.step = IF r.op = "confirm_cover" THEN "setVariants"
                                     ELSE "reread"]
  <2>1. /\ r.tasks # <<>>
        /\ \/ /\ Sound(h, s) /\ UNCHANGED unsmall
              /\ s \in Request /\ s.op = r.op /\ s.tasks = r.tasks
           \/ Sound(h, NextOf(r)) /\ unsmall' = unsmall \cup {Head(r.tasks)}
    BY <1>6, GenerateSound
  <2> HIDE DEF s
  <2>2. r # Idle
    BY <1>6 DEF Generate, At
  <2>3. CASE /\ Sound(h, s) /\ UNCHANGED unsmall
             /\ s \in Request /\ s.op = r.op /\ s.tasks = r.tasks
    BY <2>3, ComingKept DEF Expected
  <2>4. CASE Sound(h, NextOf(r)) /\ unsmall' = unsmall \cup {Head(r.tasks)}
    BY <2>1, <2>2, <2>4, NextOfComing DEF Expected
  <2> QED
    BY <2>1, <2>3, <2>4
<1>7. CASE Reread(h)
  <2>1. unsmall' = unsmall
    BY <1>7 DEF Reread, history
  <2>2. PICK s \in Request : Sound(h, s) /\ s.op = r.op /\ s.tasks = r.tasks
    BY <1>7, RereadSound
  <2> QED
    BY <2>1, <2>2, ComingKept DEF Expected
<1>8. CASE SetVariants(h)
  <2>1. unsmall' = unsmall
    BY <1>8 DEF SetVariants, history
  <2> QED
    BY <1>8, <2>1, SetVariantsSound, ComingKept DEF Expected
<1>9. CASE Fail(h)
  <2>1. unsmall' = unsmall \cup Elements(r.tasks)
    BY <1>9 DEF Fail
  <2> QED
    BY <1>9, <2>1, FailSound, ComingKept DEF Expected
<1> QED
  BY <1>1, <1>2, <1>3, <1>4, <1>5, <1>6, <1>7, <1>8, <1>9 DEF Aside

\* A write of the array leaves small what was small, and the variants task
\* makes its photo small.
LEMMA WritesVariants ==
  ASSUME TypeOK, ListInv, VariantsInv, crossed' = 0, NEW h \in Handlers,
         AddPhoto(h) \/ Write(h) \/ WriteVariants(h), exists', NEW p \in Elements(photos')
  PROVE  Expected(p)'
<1> DEFINE r == req[h]
<1>1. CASE AddPhoto(h)
  <2> DEFINE i == Head(r.todo)
             q == [id |-> i, isCover |-> FALSE, small |-> FALSE]
             s == Added(r)
  <2>1. /\ i \in Images /\ photos' = Append(photos, q)
        /\ Sound(h, s) /\ r.op = "confirm_item_images"
    BY <1>1, AddPhotoSound, TypeFacts
  <2>2. UNCHANGED <<unsmall, crossed>> /\ r # Idle /\ r.step = "append"
    BY <1>1 DEF AddPhoto, At
  <2>3. r \in Request /\ r.todo # <<>> /\ r.tasks \in Seq(Images)
    BY <2>2, AtFacts DEF Filled, TaskSteps
  <2>4. s \in Request /\ s.op = r.op /\ s.tasks = Append(r.tasks, i)
    BY <2>2, <2>3, AddedType
  <2>5. Elements(s.tasks) = Elements(r.tasks) \cup {i}
    BY <2>1, <2>3, <2>4, ElementsAppend
  <2> HIDE DEF s
  <2>6. q \in Photo /\ q.id = i
    BY <2>1 DEF Photo
  <2> HIDE DEF q
  <2>7. p = q \/ p \in Elements(photos)
    BY <2>1, <2>6, AppendFacts, TypeFacts
  <2>8. CASE p = q
    <3>1. req'[h] = s /\ s # Idle
      BY <2>1, <2>4, Replaced, RequestFields DEF Sound
    <3> QED
      BY <2>1, <2>4, <2>5, <2>6, <2>8, <3>1 DEF Expected, Coming, Busy
  <2>9. CASE p \in Elements(photos)
    BY <2>1, <2>2, <2>4, <2>5, <2>9, ComingKept DEF Expected, VariantsInv
  <2> QED
    BY <2>7, <2>8, <2>9
<1>2. CASE Write(h)
  <2>1. /\ Sound(h, Idle) /\ crossed = 0 /\ r.op # "confirm_item_images"
        /\ \E q \in Elements(photos) : q.id = p.id /\ q.small = p.small
    BY <1>2, WriteSound DEF Edits, WriteOps
  <2>2. unsmall' = unsmall
    BY <1>2 DEF Write
  <2>3. PICK q \in Elements(photos) : q.id = p.id /\ q.small = p.small
    BY <2>1
  <2>4. CASE p.small
    BY <2>4 DEF Expected
  <2>5. CASE ~p.small
    <3>1. ~q.small
      BY <2>3, <2>5
    <3>2. p.id \in unsmall \/ Coming(p.id)
      BY <2>1, <2>3, <3>1 DEF VariantsInv, Expected
    <3> QED
      BY <2>1, <2>2, <3>2, ComingKept DEF Expected
  <2> QED
    BY <2>4, <2>5
<1>3. CASE WriteVariants(h)
  <2> DEFINE i == Head(r.tasks)
  <2>1. UNCHANGED <<exists, unsmall>> /\ r # Idle
    BY <1>3 DEF WriteVariants, At
  <2>2. /\ photos' = WithVariants(photos, i) /\ crossed = 0
        /\ r.tasks \in Seq(Images) /\ r.tasks # <<>> /\ Sound(h, NextOf(r))
    BY <1>3, <2>1, WriteVariantsSound
  <2>3. i \in Images
    BY <2>2, TailFacts
  <2>4. p.small \/ (p.id # i /\ p \in Elements(photos))
    BY <2>2, <2>3, VariantsEdits, TypeFacts DEF ListInv
  <2>5. CASE p.small
    BY <2>5 DEF Expected
  <2>6. CASE p.id # i /\ p \in Elements(photos)
    BY <2>1, <2>2, <2>6, NextOfComing DEF Expected, VariantsInv
  <2> QED
    BY <2>4, <2>5, <2>6
<1> QED
  BY <1>1, <1>2, <1>3

\* Once no request or task is left, every listed photo has its variants, each
\* photo of a request its own, unless its task failed or died, or a write went
\* over another (generate_and_store_variants).
THEOREM VariantsCome == Spec => []VariantsArrive
<1>1. Init => VariantsInv
  BY DEF Init, VariantsInv, Elements
<1>2. TypeOK /\ ListInv /\ VariantsInv /\ [Next]_vars => VariantsInv'
  <2> SUFFICES ASSUME TypeOK, ListInv, VariantsInv, [Next]_vars, crossed' = 0,
                      NEW p \in Elements(photos')
               PROVE  Expected(p)'
    BY DEF VariantsInv
  <2>1. exists'
    <3>1. Elements(<<>>) = {}
      BY DEF Elements
    <3> QED
      BY <3>1, NextLists DEF ListInv
  <2>2. CASE RemoveItem \/ DeleteCover \/ UNCHANGED vars
    BY <2>1, <2>2 DEF RemoveItem, DeleteCover, vars, history, VariantsInv, Expected,
                      Coming, Busy
  <2>3. ASSUME NEW h \in Handlers, Aside(h)
        PROVE  Expected(p)'
    BY <2>1, <2>3, AsideKeeps, AsideVariants DEF VariantsInv
  <2>4. ASSUME NEW h \in Handlers, AddPhoto(h) \/ Write(h) \/ WriteVariants(h)
        PROVE  Expected(p)'
    BY <2>1, <2>4, WritesVariants
  <2> QED
    BY <2>2, <2>3, <2>4, NextCases
<1>3. TypeOK /\ VariantsInv => VariantsArrive
  BY DEF VariantsInv, VariantsArrive, Expected, Coming
<1> QED
  BY <1>1, <1>2, <1>3, InitLists, NextLists, PTL DEF Spec

\* No write, as long as it goes over no other and no order named a photo twice,
\* leaves an item that has a cover and keeps photos without one: not the
\* removal of the cover, not an order, not the variants task, whatever overlaps
\* and fails.
\* (delete_item_image, set_item_image_cover, reorder_item_images)
THEOREM CoverStays == Spec => CoverKept
<1>1. TypeOK /\ ListInv /\ [Next]_vars =>
        [(crossed' = 0 /\ doubled' = {} /\ HasCover(photos) /\ photos' # <<>>) => HasCover(photos')]_vars
  <2> SUFFICES ASSUME TypeOK, ListInv, [Next]_vars,
                      crossed' = 0, doubled' = {}, HasCover(photos), photos' # <<>>
               PROVE  HasCover(photos')
    OBVIOUS
  <2>1. CASE RemoveItem \/ DeleteCover \/ UNCHANGED vars
    BY <2>1 DEF RemoveItem, DeleteCover, vars
  <2>2. ASSUME NEW h \in Handlers, Aside(h)
        PROVE  HasCover(photos')
    BY <2>2, AsideKeeps
  <2>3. ASSUME NEW h \in Handlers, AddPhoto(h)
        PROVE  HasCover(photos')
    <3> DEFINE i == Head(req[h].todo)
               p == [id |-> i, isCover |-> FALSE, small |-> FALSE]
    <3>1. i \in Images /\ photos' = Append(photos, p)
      BY <2>3, AddPhotoSound, TypeFacts
    <3>2. p \in Photo
      BY <3>1 DEF Photo
    <3> HIDE DEF p
    <3> QED
      BY <3>1, <3>2, AppendFacts, TypeFacts DEF HasCover
  <2>4. ASSUME NEW h \in Handlers, Write(h)
        PROVE  HasCover(photos')
    BY <2>4, WriteSound DEF Edits
  <2>5. ASSUME NEW h \in Handlers, WriteVariants(h)
        PROVE  HasCover(photos')
    <3> DEFINE i == Head(req[h].tasks)
    <3>1. /\ photos' = WithVariants(photos, i) \/ photos' = photos
          /\ req[h].tasks \in Seq(Images) /\ req[h].tasks # <<>>
      BY <2>5, WriteVariantsSound
    <3>2. i \in Images
      BY <3>1, TailFacts
    <3> QED
      BY <3>1, <3>2, VariantsEdits, TypeFacts DEF ListInv
  <2> QED
    BY <2>1, <2>2, <2>3, <2>4, <2>5, NextCases
<1> QED
  BY <1>1, InitLists, NextLists, PTL DEF Spec, CoverKept
=============================================================================
