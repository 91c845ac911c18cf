---------------------------- MODULE LuaTableProofs -----------------------------
(***************************************************************************)
(* That a table keeps each key in one place, implements a partial map,     *)
(* that its length is a border, and that an undisturbed traversal is exact: *)
(* for any MaxInt, keys and values, wherever the hash puts them.            *)
(***************************************************************************)
EXTENDS LuaTable, FiniteSetTheorems, SequenceTheorems, WellFoundedInduction,
        TLAPS

\* Induction over the naturals is stated with a set instead of a predicate, so
\* that it can be cited with no operator to instantiate.

\* A nonempty set of naturals has a least element: among the initial segments
\* of its elements, which are finite, one is minimal for inclusion.
LEMMA LeastElement ==
  ASSUME NEW S \in SUBSET Nat, S # {}
  PROVE  \E n \in S : \A m \in S : n <= m
<1> DEFINE T == {0..n : n \in S}
<1>1. T \subseteq FiniteSubsetsOf(Nat)
  <2>1. \A n \in S : IsFiniteSet(0..n) /\ 0..n \subseteq Nat
    BY FS_Interval
  <2> QED  BY <2>1 DEF FiniteSubsetsOf
<1>2. T # {}
  OBVIOUS
<1>3. IsWellFoundedOn(StrictSubsetOrdering(Nat), FiniteSubsetsOf(Nat))
  BY FS_StrictSubsetOrderingWellFounded
<1> HIDE DEF T
<1>4. PICK X \in T : \A Y \in T : <<Y, X>> \notin StrictSubsetOrdering(Nat)
  BY <1>1, <1>2, <1>3, WFMin
<1> USE DEF T
<1>5. PICK n \in S : X = 0..n
  BY <1>4
<1>6. ASSUME NEW m \in S  PROVE  n <= m
  <2>1. SUFFICES ASSUME m < n  PROVE  FALSE
    OBVIOUS
  <2>2. 0..m \subseteq 0..n /\ 0..m # 0..n
    <3>1. n \in 0..n /\ n \notin 0..m
      BY <2>1
    <3> QED  BY <2>1, <3>1
  <2>3. 0..m \in SUBSET Nat /\ 0..n \in SUBSET Nat
    OBVIOUS
  <2>4. <<0..m, 0..n>> \in StrictSubsetOrdering(Nat)
    BY <2>2, <2>3, Zenon DEF StrictSubsetOrdering
  <2> QED  BY <1>4, <1>5, <2>4
<1> QED  BY <1>6

\* A set of naturals that holds 0 and every successor holds every natural.
LEMMA SetInduction ==
  ASSUME NEW S, 0 \in S, \A n \in Nat : n \in S => n + 1 \in S
  PROVE  Nat \subseteq S
<1>1. SUFFICES ASSUME Nat \ S # {}  PROVE FALSE
  OBVIOUS
<1>2. PICK n \in Nat \ S : \A m \in Nat \ S : n <= m
  BY <1>1, LeastElement
<1>3. n # 0 /\ n - 1 \in Nat
  BY <1>2
<1>4. n - 1 \in S
  BY <1>2, <1>3
<1> QED  BY <1>2, <1>3, <1>4

\* The array part leaves room for one more key.
Bounded == Size < MaxInt

Safe == TypeOK /\ Bounded /\ OnePlace

\* The keys with a value in the array part.
Arrayed == {i \in DOMAIN array : array[i] # Nil}

\* The keys that a traversal should have returned when it is at a key: those of
\* the array up to there, then those in the buckets up to there.
Passed(x) ==
  IF x = Nil \/ InArray(x) THEN {i \in Arrayed : i <= Index(x)}
  ELSE Arrayed \cup {k \in Hashed : \E m, n \in DOMAIN order :
                       m <= n /\ order[m] = k /\ order[n] = x}

OnItsWay ==
  /\ at # Nil => Get(at) # Nil
  /\ \A i, j \in DOMAIN seen : seen[i] = seen[j] => i = j
  /\ {seen[i] : i \in DOMAIN seen} = Passed(at)

WalkInv ==
  /\ going => ended = "none"
  /\ ~altered /\ ~rebuilt => (going => OnItsWay) /\ (ended # "none" => Exact)

-----------------------------------------------------------------------------
(* Keys, and what get reads.                                               *)

LEMMA CanonicalKeys ==
  /\ \A k \in Given : IsKey(k) => Canonical(k) \in Key
  /\ \A k \in Key : k \in Given /\ IsKey(k) /\ Canonical(k) = k
  /\ Ints \subseteq Key /\ Nil \notin Key
BY LuaTableAssumption DEF Given, IsKey, Canonical, Key, Ints

LEMMA Indexes ==
  /\ \A k \in Given : Index(k) \in 0..MaxInt
  /\ \A k \in Given : Canonical(k) \in Ints => Index(k) = Canonical(k)
  /\ \A k \in Given : Canonical(k) \notin Ints => Index(k) = 0
  /\ \A k \in Ints : Index(k) = k
  /\ Index(Nil) = 0
<1>1. MaxInt \in Nat
  BY LuaTableAssumption
<1>2. \A k \in Given : Canonical(k) \in Ints => Index(k) = Canonical(k)
  BY DEF Index
<1>3. \A k \in Given : Canonical(k) \notin Ints => Index(k) = 0
  BY DEF Index
<1>4. \A k \in Ints : Index(k) = k
  BY CanonicalKeys DEF Index
<1>5. Nil \in Given /\ Canonical(Nil) = Nil /\ Nil \notin Ints
  BY LuaTableAssumption DEF Canonical, Given
<1>6. \A k \in Given : Index(k) \in 0..MaxInt
  BY <1>1 DEF Index, Ints
<1> QED  BY <1>2, <1>3, <1>4, <1>5, <1>6

LEMMA Sizes ==
  ASSUME TypeOK, Bounded
  PROVE  /\ Size \in Nat /\ Size < MaxInt /\ MaxInt \in Nat
         /\ DOMAIN array = 1..Size /\ 1..Size \subseteq Ints
         /\ \A i \in 1..Size : array[i] \in Value \cup {Nil}
<1>1. MaxInt \in Nat
  BY LuaTableAssumption
<1>2. Size \in Nat /\ DOMAIN array = 1..Size /\ \A i \in 1..Size : array[i] \in Value \cup {Nil}
  BY DEF TypeOK, Size
<1> QED  BY <1>1, <1>2 DEF Bounded, Ints

\* Which part a key is in.
LEMMA Reads ==
  ASSUME TypeOK, Bounded
  PROVE  /\ \A k \in Given : InArray(k) <=> IsKey(k) /\ Canonical(k) \in 1..Size
         /\ \A k \in Given : Canonical(k) \in 1..Size => Index(k) = Canonical(k)
         /\ \A k \in Key : InArray(k) <=> k \in 1..Size
         /\ \A k \in Key : Get(k) = IF k \in 1..Size THEN array[k] ELSE field[k]
<1>1. Size \in Nat /\ 1..Size \subseteq Ints
  BY Sizes
<1>2. \A k \in Given : Canonical(k) \in 1..Size => Index(k) = Canonical(k)
  BY <1>1, Indexes
<1>3. \A k \in Given : Index(k) \in 1..Size => Canonical(k) \in Ints /\ Index(k) = Canonical(k)
  BY <1>1, Indexes
<1>4. \A k \in Given : Canonical(k) \in Ints => IsKey(k)
  BY LuaTableAssumption DEF IsKey, Canonical
<1>5. \A k \in Given : InArray(k) <=> IsKey(k) /\ Canonical(k) \in 1..Size
  BY <1>1, <1>2, <1>3, <1>4 DEF InArray
<1>6. \A k \in Key : InArray(k) <=> k \in 1..Size
  BY <1>5, CanonicalKeys
<1>7. \A k \in Key : Get(k) = IF k \in 1..Size THEN array[k] ELSE field[k]
  BY <1>2, <1>6, CanonicalKeys DEF Get
<1> QED  BY <1>2, <1>5, <1>6, <1>7

LEMMA ReadsNext ==
  ASSUME TypeOK', Bounded'
  PROVE  /\ \A k \in Key : InArray(k)' <=> k \in 1..Size'
         /\ \A k \in Key : Get(k)' = IF k \in 1..Size' THEN array'[k] ELSE field'[k]
<1>1. Size' \in Nat /\ Size' < MaxInt /\ MaxInt \in Nat
  BY LuaTableAssumption DEF TypeOK, Size, Bounded
<1>2. \A k \in Ints : Index(k) = k
  BY Indexes
<1>3. \A k \in Key : Canonical(k) = k /\ IsKey(k) /\ (k \notin Ints => Index(k) = 0)
  BY CanonicalKeys, Indexes
<1>4. \A k \in Key : InArray(k)' <=> k \in 1..Size'
  BY <1>1, <1>2, <1>3 DEF InArray, Ints
<1> QED  BY <1>1, <1>2, <1>3, <1>4 DEF Get, Ints

-----------------------------------------------------------------------------
(* Orders of the hash part.                                                *)

\* The order s and the fields f agree, beside an array of n values.
Agree(s, f, n) ==
  /\ s \in Seq(Key) /\ f \in [Key -> Value \cup {Nil}]
  /\ \A i, j \in DOMAIN s : s[i] = s[j] => i = j
  /\ {s[i] : i \in DOMAIN s} = {k \in Key : f[k] # Nil}
  /\ \A i \in DOMAIN s : s[i] \notin 1..n

LEMMA SafeAgree ==
  ASSUME TypeOK, Bounded
  PROVE  OnePlace <=> Agree(order, field, Size)
<1>1. \A i \in DOMAIN order : order[i] \in Key
  BY DEF TypeOK
<1>2. \A k \in Hashed : ~InArray(k) <=> k \notin 1..Size
  BY <1>1, Reads DEF Hashed
<1>3. (\A k \in Hashed : ~InArray(k)) <=> \A i \in DOMAIN order : order[i] \notin 1..Size
  BY <1>2 DEF Hashed
<1>4. order \in Seq(Key) /\ field \in [Key -> Value \cup {Nil}]
  BY DEF TypeOK
<1> QED  BY <1>3, <1>4 DEF OnePlace, Agree, Hashed

LEMMA AgreeSafeNext ==
  ASSUME TypeOK', Bounded', Agree(order', field', Size')
  PROVE  Safe'
<1>1. \A i \in DOMAIN order' : order'[i] \in Key
  BY DEF TypeOK
<1>2. \A k \in Hashed' : k \in Key /\ k \notin 1..Size'
  BY <1>1 DEF Hashed, Agree
<1>3. \A k \in Hashed' : ~InArray(k)'
  BY <1>2, ReadsNext
<1>4. Hashed' = {k \in Key : field'[k] # Nil}
  BY DEF Agree, Hashed
<1>5. \A i, j \in DOMAIN order' : order'[i] = order'[j] => i = j
  BY DEF Agree
<1>6. OnePlace'
  BY <1>3, <1>4, <1>5 DEF OnePlace
<1> QED  BY <1>6 DEF Safe

LEMMA HashedIsFinite ==
  ASSUME NEW S, NEW s \in Seq(S)
  PROVE  /\ IsFiniteSet({s[i] : i \in DOMAIN s})
         /\ Cardinality({s[i] : i \in DOMAIN s}) \in Nat
<1>1. IsFiniteSet(1..Len(s))
  BY FS_Interval
<1>2. s \in [1..Len(s) -> {s[i] : i \in DOMAIN s}] /\ DOMAIN s = 1..Len(s)
  OBVIOUS
<1>3. s \in Surjection(1..Len(s), {s[i] : i \in DOMAIN s})
  BY <1>2 DEF Surjection
<1>4. IsFiniteSet({s[i] : i \in DOMAIN s})
  BY <1>1, <1>3, FS_Surjection
<1> QED  BY <1>4, FS_CardinalityType

LEMMA OrdersAre ==
  ASSUME NEW S \in SUBSET Key, IsFiniteSet(S), NEW s \in Orders(S)
  PROVE  /\ s \in Seq(Key) /\ Len(s) = Cardinality(S) /\ DOMAIN s = 1..Cardinality(S)
         /\ \A i, j \in DOMAIN s : s[i] = s[j] => i = j
         /\ {s[i] : i \in DOMAIN s} = S
<1> DEFINE n == Cardinality(S)
<1>1. n \in Nat
  BY FS_CardinalityType
<1>2. /\ s \in [1..n -> S]
      /\ \A a, b \in 1..n : s[a] = s[b] => a = b
      /\ \A t \in S : \E i \in 1..n : s[i] = t
  BY DEF Orders, Bijection, Injection, Surjection, IsInjective
<1> HIDE DEF n
<1>3. s \in Seq(Key) /\ Len(s) = n /\ DOMAIN s = 1..n
  BY <1>1, <1>2
<1> QED  BY <1>2, <1>3 DEF n

\* The value of a key that is there is replaced.
LEMMA AgreeReplaced ==
  ASSUME NEW s, NEW f, NEW n, Agree(s, f, n), NEW c \in Key, f[c] # Nil, NEW v \in Value
  PROVE  Agree(s, [f EXCEPT ![c] = v], n)
<1>1. v # Nil
  BY LuaTableAssumption
<1> QED  BY <1>1 DEF Agree

\* An insertion moves what comes after it.
LEMMA InsertedElements ==
  ASSUME NEW S, NEW s \in Seq(S), NEW c \in S, NEW i \in 1..(Len(s) + 1)
  PROVE  LET t == InsertedAt(s, i, c)
         IN  /\ t \in Seq(S) /\ Len(t) = Len(s) + 1
             /\ \A j \in 1..(Len(s) + 1) :
                  t[j] = IF j < i THEN s[j] ELSE IF j = i THEN c ELSE s[j - 1]
<1> DEFINE a == SubSeq(s, 1, i - 1)
           b == <<c>>
           d == SubSeq(s, i, Len(s))
           n == Len(s)
<1>1. n \in Nat /\ i \in Nat /\ i >= 1 /\ i <= n + 1 /\ \A j \in 1..n : s[j] \in S
  OBVIOUS
<1>2. /\ a \in Seq(S) /\ Len(a) = i - 1
      /\ \A j \in 1..(i - 1) : a[j] = s[j]
  <2>1. \A j \in 1..(i - 1) : s[j] \in S
    BY <1>1
  <2>2. /\ a \in Seq(S) /\ Len(a) = IF 1 <= i - 1 THEN (i - 1) - 1 + 1 ELSE 0
        /\ \A j \in 1..((i - 1) - 1 + 1) : a[j] = s[1 + j - 1]
    BY <2>1, SubSeqProperties
  <2> HIDE DEF a, n
  <2> QED  BY <1>1, <2>2
<1>3. /\ d \in Seq(S) /\ Len(d) = n - i + 1
      /\ \A j \in 1..(n - i + 1) : d[j] = s[i + j - 1]
  <2>1. \A j \in i..n : s[j] \in S
    BY <1>1
  <2>2. /\ d \in Seq(S) /\ Len(d) = IF i <= n THEN n - i + 1 ELSE 0
        /\ \A j \in 1..(n - i + 1) : d[j] = s[i + j - 1]
    BY <2>1, SubSeqProperties
  <2> HIDE DEF d, n
  <2> QED  BY <1>1, <2>2
<1>4. b \in Seq(S) /\ Len(b) = 1 /\ b[1] = c
  OBVIOUS
<1> DEFINE ab == a \o b
           t == ab \o d
<1>5. InsertedAt(s, i, c) = t
  BY DEF InsertedAt
<1> HIDE DEF a, b, d, n
<1>6. /\ ab \in Seq(S) /\ Len(ab) = i
      /\ \A j \in 1..i : ab[j] = IF j <= i - 1 THEN a[j] ELSE b[j - (i - 1)]
  <2>1. /\ ab \in Seq(S) /\ Len(ab) = Len(a) + Len(b)
        /\ \A j \in 1..(Len(a) + Len(b)) : ab[j] = IF j <= Len(a) THEN a[j] ELSE b[j - Len(a)]
    BY <1>2, <1>4, ConcatProperties
  <2> HIDE DEF ab
  <2> QED  BY <1>1, <1>2, <1>4, <2>1
<1> HIDE DEF ab
<1>7. /\ t \in Seq(S) /\ Len(t) = n + 1
      /\ \A j \in 1..(n + 1) : t[j] = IF j <= i THEN ab[j] ELSE d[j - i]
  <2>1. /\ t \in Seq(S) /\ Len(t) = Len(ab) + Len(d)
        /\ \A j \in 1..(Len(ab) + Len(d)) :
             t[j] = IF j <= Len(ab) THEN ab[j] ELSE d[j - Len(ab)]
    BY <1>3, <1>6, ConcatProperties
  <2> HIDE DEF t
  <2> QED  BY <1>1, <1>3, <1>6, <2>1
<1> HIDE DEF t
<1>8. \A j \in 1..(n + 1) : t[j] = IF j < i THEN s[j] ELSE IF j = i THEN c ELSE s[j - 1]
  <2> TAKE j \in 1..(n + 1)
  <2>1. CASE j < i
    BY <1>1, <1>2, <1>6, <1>7, <2>1
  <2>2. CASE j = i
    BY <1>1, <1>4, <1>6, <1>7, <2>2
  <2>3. CASE j > i
    <3>1. j - i \in 1..(n - i + 1) /\ i + (j - i) - 1 = j - 1
      BY <1>1, <2>3
    <3>2. d[j - i] = s[j - 1]
      BY <1>3, <3>1
    <3> QED  BY <1>1, <1>7, <2>3, <3>2
  <2> QED  BY <1>1, <2>1, <2>2, <2>3
<1> QED  BY <1>5, <1>7, <1>8 DEF n

\* A key comes into the order, wherever it comes.
LEMMA AgreeInserted ==
  ASSUME NEW s, NEW f, NEW n, Agree(s, f, n), NEW c \in Key, f[c] = Nil, c \notin 1..n,
         NEW v \in Value, NEW i \in 1..(Len(s) + 1)
  PROVE  Agree(InsertedAt(s, i, c), [f EXCEPT ![c] = v], n)
<1> DEFINE t == InsertedAt(s, i, c)
           g == [f EXCEPT ![c] = v]
<1>0. v # Nil
  BY LuaTableAssumption
<1>1. s \in Seq(Key) /\ Len(s) \in Nat /\ i \in Nat /\ DOMAIN s = 1..Len(s)
  BY DEF Agree
<1>2. /\ t \in Seq(Key) /\ DOMAIN t = 1..(Len(s) + 1)
      /\ \A j \in DOMAIN t : t[j] = IF j < i THEN s[j] ELSE IF j = i THEN c ELSE s[j - 1]
  <2>1. /\ t \in Seq(Key) /\ Len(t) = Len(s) + 1
        /\ \A j \in 1..(Len(s) + 1) :
             t[j] = IF j < i THEN s[j] ELSE IF j = i THEN c ELSE s[j - 1]
    BY <1>1, InsertedElements
  <2> HIDE DEF t
  <2> QED  BY <2>1
<1>3. \A j \in DOMAIN s : s[j] # c
  BY DEF Agree
<1>4. g \in [Key -> Value \cup {Nil}] /\ {k \in Key : g[k] # Nil} = {k \in Key : f[k] # Nil} \cup {c}
  BY <1>0 DEF Agree
<1> HIDE DEF t, g
<1>5. \A a, b \in DOMAIN t : t[a] = t[b] => a = b
  <2>1. \A a, b \in DOMAIN s : s[a] = s[b] => a = b
    BY DEF Agree
  <2> QED  BY <1>1, <1>2, <1>3, <2>1
<1>6. {t[j] : j \in DOMAIN t} = {s[j] : j \in DOMAIN s} \cup {c}
  <2>1. \A j \in DOMAIN s : \E m \in DOMAIN t : t[m] = s[j]
    <3> TAKE j \in DOMAIN s
    <3>1. CASE j < i
      BY <1>1, <1>2, <3>1
    <3>2. CASE j >= i
      <4>1. j + 1 \in DOMAIN t /\ t[j + 1] = s[j]
        BY <1>1, <1>2, <3>2
      <4> QED  BY <4>1
    <3> QED  BY <1>1, <3>1, <3>2
  <2>2. i \in DOMAIN t /\ t[i] = c
    BY <1>1, <1>2
  <2>3. \A m \in DOMAIN t : t[m] = c \/ \E j \in DOMAIN s : t[m] = s[j]
    <3> TAKE m \in DOMAIN t
    <3>1. CASE m < i
      BY <1>1, <1>2, <3>1
    <3>2. CASE m > i
      <4>1. m - 1 \in DOMAIN s /\ t[m] = s[m - 1]
        BY <1>1, <1>2, <3>2
      <4> QED  BY <4>1
    <3> QED  BY <1>1, <1>2, <3>1, <3>2
  <2> QED  BY <2>1, <2>2, <2>3
<1>7. \A j \in DOMAIN t : t[j] \notin 1..n
  <2>1. \A x \in {s[j] : j \in DOMAIN s} \cup {c} : x \notin 1..n
    BY DEF Agree
  <2> QED  BY <1>6, <2>1
<1>8. {s[j] : j \in DOMAIN s} = {k \in Key : f[k] # Nil}
  BY DEF Agree
<1>9. Agree(t, g, n)
  BY <1>2, <1>4, <1>5, <1>6, <1>7, <1>8 DEF Agree
<1> QED  BY <1>9 DEF t, g

\* The buckets are rebuilt, without the keys of S.
Cleared(f, S) == [x \in Key |-> IF x \in S THEN Nil ELSE f[x]]

LEMMA AgreeRebuilt ==
  ASSUME NEW s, NEW f, NEW n, Agree(s, f, n), NEW S, NEW m,
         \A k \in Range(s) \ S : k \notin 1..m,
         NEW t \in Orders(Range(s) \ S)
  PROVE  /\ Agree(t, Cleared(f, S), m)
         /\ Len(t) \in Nat
<1> DEFINE K == Range(s)
           g == Cleared(f, S)
<1>1. IsFiniteSet(K) /\ K \subseteq Key
  BY HashedIsFinite DEF Agree, Range
<1>2. K = {k \in Key : f[k] # Nil} /\ f \in [Key -> Value \cup {Nil}]
  BY DEF Agree, Range
<1> HIDE DEF K
<1>3. IsFiniteSet(K \ S) /\ K \ S \subseteq Key /\ t \in Orders(K \ S)
  BY <1>1, FS_Subset DEF K
<1>4. /\ t \in Seq(Key) /\ (\A i, j \in DOMAIN t : t[i] = t[j] => i = j)
      /\ {t[i] : i \in DOMAIN t} = K \ S
  BY <1>3, OrdersAre
<1>5. g \in [Key -> Value \cup {Nil}] /\ {k \in Key : g[k] # Nil} = K \ S
  BY <1>2 DEF Cleared
<1>6. \A i \in DOMAIN t : t[i] \notin 1..m
  BY <1>4 DEF K
<1> HIDE DEF g
<1>7. Agree(t, g, m) /\ Len(t) \in Nat
  BY <1>4, <1>5, <1>6 DEF Agree
<1> QED  BY <1>7 DEF g

\* They are rebuilt with a new key.
LEMMA AgreeRebuiltWith ==
  ASSUME NEW s, NEW f, NEW n, Agree(s, f, n), NEW c \in Key, c \notin 1..n, NEW v \in Value,
         NEW t \in Orders({s[i] : i \in DOMAIN s} \cup {c})
  PROVE  Agree(t, [f EXCEPT ![c] = v], n)
<1> DEFINE K == {s[i] : i \in DOMAIN s}
           g == [f EXCEPT ![c] = v]
<1>0. v # Nil
  BY LuaTableAssumption
<1>1. IsFiniteSet(K) /\ K \subseteq Key
  BY HashedIsFinite DEF Agree
<1>2. K = {k \in Key : f[k] # Nil} /\ f \in [Key -> Value \cup {Nil}] /\ \A k \in K : k \notin 1..n
  BY DEF Agree
<1> HIDE DEF K
<1>3. IsFiniteSet(K \cup {c}) /\ K \cup {c} \subseteq Key /\ t \in Orders(K \cup {c})
  BY <1>1, FS_AddElement DEF K
<1>4. /\ t \in Seq(Key) /\ (\A i, j \in DOMAIN t : t[i] = t[j] => i = j)
      /\ {t[i] : i \in DOMAIN t} = K \cup {c}
  BY <1>3, OrdersAre
<1>5. g \in [Key -> Value \cup {Nil}] /\ {k \in Key : g[k] # Nil} = K \cup {c}
  BY <1>0, <1>2
<1>6. \A i \in DOMAIN t : t[i] \notin 1..n
  BY <1>2, <1>4
<1> HIDE DEF g
<1>7. Agree(t, g, n)
  BY <1>4, <1>5, <1>6 DEF Agree
<1> QED  BY <1>7 DEF g

-----------------------------------------------------------------------------
(* Sizes of the array and of the hash part.                                *)

LEMMA LeastIsThere ==
  ASSUME NEW S \in SUBSET Nat, S # {}
  PROVE  LeastIn(S) \in S /\ \A m \in S : LeastIn(S) <= m
<1>1. \E n \in S : \A m \in S : n <= m
  BY LeastElement
<1> QED  BY <1>1 DEF LeastIn

LEMMA GreatestIsThere ==
  ASSUME NEW S \in SUBSET Nat, S # {}, NEW top \in Nat, \A m \in S : m <= top
  PROVE  GreatestIn(S) \in S /\ \A m \in S : m <= GreatestIn(S)
<1> DEFINE U == {u \in Nat : \A m \in S : m <= u}
<1>1. PICK u \in U : \A w \in U : u <= w
  <2>1. U \in SUBSET Nat /\ top \in U
    OBVIOUS
  <2> QED  BY <2>1, LeastElement
<1>2. u \in S
  <2>1. SUFFICES ASSUME u \notin S PROVE FALSE
    OBVIOUS
  <2>2. \A m \in S : m < u
    BY <1>1, <2>1
  <2>3. u - 1 \in U
    <3>1. u - 1 \in Nat
      <4>1. PICK m : m \in S
        OBVIOUS
      <4>2. m \in Nat /\ m < u /\ u \in Nat
        BY <1>1, <2>2, <4>1
      <4> QED  BY <4>2
    <3>2. \A m \in S : m <= u - 1
      BY <1>1, <2>2
    <3> QED  BY <3>1, <3>2
  <2> QED  BY <1>1, <2>3
<1>3. \A m \in S : m <= u
  BY <1>1
<1> QED  BY <1>2, <1>3 DEF GreatestIn

LEMMA Rooms ==
  ASSUME NEW held \in Nat, NEW total \in Nat, NEW extra \in Nat,
         NEW n \in RoomAfter(held, total, extra)
  PROVE  n \in Nat /\ n >= extra
<1> DEFINE enough == {b \in Buckets : b >= held + extra /\ b > total}
<1>1. CASE held + extra <= total \div 2
  <2>1. n = total - held
    BY <1>1 DEF RoomAfter
  <2>2. total \div 2 <= total
    OBVIOUS
  <2> QED  BY <1>1, <2>1, <2>2
<1>2. CASE ~(held + extra <= total \div 2)
  <2>1. enough # {} /\ n = LeastIn(enough) - held
    BY <1>2 DEF RoomAfter
  <2>2. enough \in SUBSET Nat
    BY LuaTableAssumption
  <2>3. LeastIn(enough) \in enough
    BY <2>1, <2>2, LeastIsThere
  <2> QED  BY <2>1, <2>2, <2>3
<1> QED  BY <1>1, <1>2

\* An array that grows takes the size that was chosen for it, or more.
LEMMA ArrayGrows ==
  ASSUME TypeOK, NEW k, OptimalSize(k) > Size
  PROVE  Grown(OptimalSize(k)) \in Nat /\ Grown(OptimalSize(k)) > Size
<1> DEFINE o == OptimalSize(k)
           C == Candidates(k)
           Good(n) == /\ n \div 2 < Cardinality(C)
                      /\ BelowPower(C, n \div 2) # BelowPower(C, n)
                      /\ Cardinality(BelowPower(C, n)) > n \div 2
           sizes == {n \in Powers : Good(n)}
<1>1. Size \in Nat /\ spare \in Nat /\ MaxInt \in Nat /\ FirstArray \in Nat
  BY LuaTableAssumption DEF TypeOK, Size
<1>2. o = IF sizes = {} THEN 0 ELSE GreatestIn(sizes)
  BY DEF OptimalSize
<1>3. sizes \in SUBSET Nat /\ \A m \in sizes : m <= 2 * MaxInt
  BY <1>1 DEF Powers
<1> HIDE DEF o, sizes
<1>4. o \in Nat
  <2>1. CASE sizes = {}
    BY <1>2, <2>1
  <2>2. CASE sizes # {}
    <3>1. 2 * MaxInt \in Nat
      BY <1>1
    <3>2. GreatestIn(sizes) \in sizes
      BY <1>3, <2>2, <3>1, GreatestIsThere
    <3> QED  BY <1>2, <1>3, <2>2, <3>2
  <2> QED  BY <2>1, <2>2
<1>5. o > Size
  BY DEF o
<1>6. Grown(o) \in Nat /\ Grown(o) >= o
  <2>1. CASE o <= Size + spare
    BY <1>1, <2>1 DEF Grown
  <2>2. CASE ~(o <= Size + spare)
    <3> DEFINE T == {2 * (Size + spare), o, FirstArray}
               top == 2 * (Size + spare) + o + FirstArray
    <3>1. T \in SUBSET Nat /\ T # {} /\ top \in Nat /\ o \in T /\ \A m \in T : m <= top
      <4>1. 2 * (Size + spare) \in Nat
        BY <1>1
      <4>2. top \in Nat /\ 2 * (Size + spare) <= top /\ o <= top /\ FirstArray <= top
        BY <1>1, <1>4, <4>1
      <4> HIDE DEF top
      <4> QED  BY <1>1, <1>4, <4>1, <4>2
    <3>2. Grown(o) = GreatestIn(T)
      BY <2>2 DEF Grown
    <3> HIDE DEF T, top
    <3>3. GreatestIn(T) \in T /\ \A m \in T : m <= GreatestIn(T)
      BY <3>1, GreatestIsThere
    <3> QED  BY <3>1, <3>2, <3>3
  <2> QED  BY <2>1, <2>2
<1>7. Grown(o) > Size
  BY <1>1, <1>4, <1>5, <1>6
<1> QED  BY <1>6, <1>7 DEF o

-----------------------------------------------------------------------------
(* Assignments.                                                            *)

LEMMA PlacedAgrees ==
  ASSUME NEW rest, NEW f, NEW n, Agree(rest, f, n),
         NEW c \in Key, c \notin 1..n, NEW v \in Value, f[c] = field[c],
         NEW free \in Nat, NEW used \in Nat, Placed(c, rest, free, used)
  PROVE  /\ Agree(order', [f EXCEPT ![c] = v], n)
         /\ room' \in Nat /\ worn' \in Nat
<1>1. CASE field[c] # Nil /\ order' = rest /\ room' = free /\ worn' = used
  <2>1. Agree(rest, [f EXCEPT ![c] = v], n)
    BY <1>1, AgreeReplaced
  <2> QED  BY <1>1, <2>1
<1>2. CASE /\ field[c] = Nil
           /\ \E i \in 1..(Len(rest) + 1) : order' = InsertedAt(rest, i, c)
           /\ \/ free > 0 /\ room' = free - 1 /\ worn' = used
              \/ used > 0 /\ worn' = used - 1 /\ room' = free
  <2>1. PICK i \in 1..(Len(rest) + 1) : order' = InsertedAt(rest, i, c)
    BY <1>2
  <2>2. Agree(InsertedAt(rest, i, c), [f EXCEPT ![c] = v], n)
    BY <1>2, AgreeInserted
  <2>3. room' \in Nat /\ worn' \in Nat
    BY <1>2
  <2> QED  BY <2>1, <2>2, <2>3
<1>3. CASE /\ field[c] = Nil /\ free = 0
           /\ order' \in Orders({rest[i] : i \in DOMAIN rest} \cup {c})
           /\ worn' = 0
           /\ room' \in {m - 1 : m \in RoomAfter(Len(rest), Len(rest) + used, 1)}
  <2>1. PICK t \in Orders({rest[i] : i \in DOMAIN rest} \cup {c}) : order' = t
    BY <1>3
  <2>2. Agree(t, [f EXCEPT ![c] = v], n)
    BY AgreeRebuiltWith
  <2>3. PICK m \in RoomAfter(Len(rest), Len(rest) + used, 1) : room' = m - 1
    BY <1>3
  <2>4. Len(rest) \in Nat /\ Len(rest) + used \in Nat /\ 1 \in Nat
    BY DEF Agree
  <2>5. m \in Nat /\ m >= 1
    BY <2>4, Rooms
  <2>6. room' \in Nat /\ worn' \in Nat
    BY <1>3, <2>3, <2>5
  <2> QED  BY <2>1, <2>2, <2>6
<1> QED  BY <1>1, <1>2, <1>3 DEF Placed

\* What an assignment does to the map that the table is, and that it leaves a
\* traversal alone unless a flag says otherwise.
Writes(k, v) == \A x \in Key : Get(x)' = IF x = Canonical(k) THEN v ELSE Get(x)

Calm ==
  ~altered' /\ ~rebuilt' =>
    /\ ~altered /\ ~rebuilt /\ order' = order /\ Size' = Size
    /\ \A i \in 1..Size : array'[i] = Nil <=> array[i] = Nil

Effects(k, v) ==
  /\ Calm
  /\ IF IsKey(k) THEN answer' = Get(Canonical(k)) /\ Writes(k, v)
     ELSE answer' = BadKey /\ \A x \in Key : Get(x)' = Get(x)

\* From the state of the two parts to the content of the table.
LEMMA WritesHash ==
  ASSUME Safe, TypeOK', Bounded', NEW k \in Given, IsKey(k), ~InArray(k), NEW v,
         array' = array, field' = [field EXCEPT ![Canonical(k)] = v]
  PROVE  Writes(k, v) /\ Get(Canonical(k)) = field[Canonical(k)]
<1>1. Canonical(k) \in Key /\ Canonical(k) \notin 1..Size
  BY CanonicalKeys, Reads DEF Safe
<1>2. Size' = Size
  BY DEF Size
<1>3. \A x \in Key : Get(x)' = IF x \in 1..Size THEN array[x] ELSE field'[x]
  BY <1>2, ReadsNext
<1>4. \A x \in Key : Get(x) = IF x \in 1..Size THEN array[x] ELSE field[x]
  BY Reads DEF Safe
<1>5. field \in [Key -> Value \cup {Nil}]
  BY DEF Safe, TypeOK
<1> QED  BY <1>1, <1>3, <1>4, <1>5 DEF Writes

LEMMA ArrayIsWritten ==
  ASSUME Safe, NEW k \in Given, NEW v \in Value \cup {Nil}, AssignArray(k, v), calls' \in Nat
  PROVE  Safe' /\ Effects(k, v) /\ UNCHANGED walk
<1> DEFINE c == Canonical(k)
<1>1. IsKey(k) /\ c \in Key /\ c \in 1..Size /\ Index(k) = c
  BY Reads, CanonicalKeys DEF Safe, AssignArray
<1>2. /\ Size \in Nat /\ Size < MaxInt /\ DOMAIN array = 1..Size
      /\ array \in Seq(Value \cup {Nil})
  BY Sizes DEF Safe, TypeOK
<1>3. /\ array' = [array EXCEPT ![c] = v] /\ answer' = array[c]
      /\ altered' = (altered \/ (v = Nil) # (array[c] = Nil))
      /\ UNCHANGED <<spare, hash, walk, rebuilt>>
  BY <1>1 DEF AssignArray, Altered
<1> HIDE DEF c
<1>4. array' \in Seq(Value \cup {Nil}) /\ Size' = Size
  BY <1>1, <1>2, <1>3 DEF Size
<1>5. array[c] \in Value \cup {Nil}
  BY <1>1, <1>2
<1>6. TypeOK' /\ Bounded'
  <2>1. altered' \in BOOLEAN
    BY <1>3
  <2> QED  BY <1>2, <1>3, <1>4, <1>5, <2>1 DEF Safe, TypeOK, Bounded, hash, walk
<1>7. Safe'
  <2>1. Agree(order, field, Size)
    BY SafeAgree DEF Safe
  <2>2. Agree(order', field', Size')
    BY <1>3, <1>4, <2>1 DEF hash
  <2> QED  BY <1>6, <2>2, AgreeSafeNext
<1>8. Writes(k, v) /\ answer' = Get(c)
  <2>1. \A x \in Key : Get(x)' = IF x \in 1..Size THEN array'[x] ELSE field[x]
    BY <1>3, <1>4, <1>6, ReadsNext DEF hash
  <2>2. \A x \in Key : Get(x) = IF x \in 1..Size THEN array[x] ELSE field[x]
    BY Reads DEF Safe
  <2>3. \A x \in 1..Size : array'[x] = IF x = c THEN v ELSE array[x]
    BY <1>1, <1>2, <1>3
  <2> QED  BY <1>1, <1>3, <2>1, <2>2, <2>3 DEF Writes, c
<1>9. Calm
  <2>1. \A i \in 1..Size : array'[i] = IF i = c THEN v ELSE array[i]
    BY <1>1, <1>2, <1>3
  <2> QED  BY <1>1, <1>3, <1>4, <2>1 DEF Calm, hash
<1> QED  BY <1>1, <1>3, <1>7, <1>8, <1>9 DEF Effects, c

LEMMA KeyIsRefused ==
  ASSUME Safe, NEW k \in Given, RefuseKey(k), calls' \in Nat
  PROVE  Safe' /\ UNCHANGED walk /\ \A v \in Value \cup {Nil} : Effects(k, v)
<1>1. ~IsKey(k) /\ answer' = BadKey /\ UNCHANGED <<array, spare, hash, walk, flags>>
  BY DEF RefuseKey
<1>2. UNCHANGED <<array, spare, field, order, room, worn, at, going, seen, ended, altered, rebuilt>>
  BY <1>1 DEF hash, walk, flags
<1>3. TypeOK' /\ Bounded' /\ Size' = Size
  BY <1>1, <1>2 DEF Safe, TypeOK, Bounded, Size
<1>4. Safe'
  <2>1. Agree(order', field', Size')
    BY <1>2, <1>3, SafeAgree DEF Safe
  <2> QED  BY <1>3, <2>1, AgreeSafeNext
<1>5. \A x \in Key : Get(x)' = Get(x)
  BY <1>2, <1>3, Reads, ReadsNext DEF Safe
<1>6. Calm
  BY <1>2, <1>3 DEF Calm
<1> QED  BY <1>1, <1>4, <1>5, <1>6 DEF Effects

LEMMA KeyIsRemoved ==
  ASSUME Safe, NEW k \in Given, AssignNil(k), calls' \in Nat
  PROVE  Safe' /\ Effects(k, Nil) /\ UNCHANGED walk
<1> DEFINE c == Canonical(k)
           K == Range(order)
<1>1. IsKey(k) /\ ~InArray(k) /\ c \in Key /\ c \notin 1..Size
  BY Reads, CanonicalKeys DEF Safe, AssignNil
<1>2. /\ answer' = field[c] /\ altered' = (altered \/ field[c] # Nil)
      /\ UNCHANGED <<array, spare, at, going, seen, ended, rebuilt>> /\ UNCHANGED walk
      /\ \/ field[c] = Nil /\ UNCHANGED <<field, order, room, worn>>
         \/ /\ field[c] # Nil
            /\ field' = [field EXCEPT ![c] = Nil] /\ order' \in Without({c})
            /\ \/ room' = room + 1 /\ UNCHANGED worn
               \/ worn' = worn + 1 /\ UNCHANGED room
  BY DEF AssignNil, Altered, walk, hash
<1>3. Size' = Size /\ Bounded' /\ Agree(order, field, Size)
  BY <1>2, SafeAgree DEF Size, Bounded, Safe
<1> HIDE DEF c, K
<1>4. /\ field \in [Key -> Value \cup {Nil}] /\ field[c] \in Value \cup {Nil}
      /\ room \in Nat /\ worn \in Nat
  BY <1>1 DEF Safe, TypeOK
<1>5. field' = [field EXCEPT ![c] = Nil] /\ Agree(order', field', Size')
  <2>1. CASE field[c] = Nil
    BY <1>2, <1>3, <1>4, <2>1
  <2>2. CASE field[c] # Nil
    <3>1. order' \in Orders(K \ {c}) /\ field' = [field EXCEPT ![c] = Nil]
      BY <1>2, <2>2 DEF Without, Hashed, K, Range
    <3>2. PICK t \in Orders(K \ {c}) : order' = t
      BY <3>1
    <3>3. \A x \in K \ {c} : x \notin 1..Size
      BY <1>3 DEF Agree, K, Range
    <3>4. Agree(t, Cleared(field, {c}), Size)
      BY <1>3, <3>3, AgreeRebuilt DEF K
    <3>5. Cleared(field, {c}) = [field EXCEPT ![c] = Nil]
      BY <1>4 DEF Cleared
    <3> QED  BY <1>3, <3>1, <3>2, <3>4, <3>5
  <2> QED  BY <2>1, <2>2
<1>6. room' \in Nat /\ worn' \in Nat /\ altered' \in BOOLEAN
  BY <1>2, <1>4
<1>7. TypeOK'
  <2>1. order' \in Seq(Key) /\ field' \in [Key -> Value \cup {Nil}]
    BY <1>5 DEF Agree
  <2> QED  BY <1>2, <1>4, <1>6, <2>1 DEF Safe, TypeOK
<1>8. Safe'
  BY <1>3, <1>5, <1>7, AgreeSafeNext
<1>9. Writes(k, Nil) /\ Get(c) = field[c]
  BY <1>1, <1>2, <1>3, <1>5, <1>7, WritesHash DEF c
<1>10. Calm
  BY <1>2, <1>3 DEF Calm
<1> QED  BY <1>1, <1>2, <1>8, <1>9, <1>10 DEF Effects, c

LEMMA HashIsWritten ==
  ASSUME Safe, NEW k \in Given, NEW v \in Value, AssignHash(k, v), calls' \in Nat
  PROVE  Safe' /\ Effects(k, v) /\ UNCHANGED walk
<1> DEFINE c == Canonical(k)
<1>1. IsKey(k) /\ ~InArray(k) /\ c \in Key /\ c \notin 1..Size
  BY Reads, CanonicalKeys DEF Safe, AssignHash
<1>2. /\ answer' = field[c] /\ altered' = (altered \/ field[c] = Nil)
      /\ UNCHANGED <<array, spare, at, going, seen, ended, rebuilt>> /\ UNCHANGED walk
      /\ field' = [field EXCEPT ![c] = v] /\ Placed(c, order, room, worn) /\ room > 0
  BY DEF AssignHash, Put, Altered, walk
<1>3. Size' = Size /\ Bounded' /\ Agree(order, field, Size)
  BY <1>2, SafeAgree DEF Size, Bounded, Safe
<1> HIDE DEF c
<1>4. /\ field \in [Key -> Value \cup {Nil}] /\ field[c] \in Value \cup {Nil}
      /\ room \in Nat /\ worn \in Nat
  BY <1>1 DEF Safe, TypeOK
<1>5. Agree(order', field', Size') /\ room' \in Nat /\ worn' \in Nat
  BY <1>1, <1>2, <1>3, <1>4, PlacedAgrees
<1>6. TypeOK'
  <2>1. order' \in Seq(Key) /\ field' \in [Key -> Value \cup {Nil}] /\ altered' \in BOOLEAN
    BY <1>2, <1>5 DEF Agree
  <2> QED  BY <1>2, <1>4, <1>5, <2>1 DEF Safe, TypeOK
<1>7. Safe'
  BY <1>3, <1>5, <1>6, AgreeSafeNext
<1>8. Writes(k, v) /\ Get(c) = field[c]
  BY <1>1, <1>2, <1>3, <1>6, WritesHash DEF c
<1>9. Calm
  <2>1. altered' \/ order' = order
    BY <1>2 DEF Placed
  <2> QED  BY <1>2, <1>3, <2>1 DEF Calm
<1> QED  BY <1>1, <1>2, <1>7, <1>8, <1>9 DEF Effects, c

LEMMA HashGrows ==
  ASSUME Safe, NEW k \in Given, NEW v \in Value, GrowHash(k, v), calls' \in Nat
  PROVE  Safe' /\ Effects(k, v) /\ UNCHANGED walk
<1> DEFINE c == Canonical(k)
           K == Range(order)
           held == Len(order)
<1>1. IsKey(k) /\ ~InArray(k) /\ c \in Key /\ c \notin 1..Size
  BY Reads, CanonicalKeys DEF Safe, GrowHash
<1>2. /\ UNCHANGED <<array, spare, at, going, seen, ended>> /\ UNCHANGED walk
      /\ rebuilt' /\ rebuilt' \in BOOLEAN
      /\ altered' = (altered \/ field[c] = Nil)
      /\ IF held = 0 THEN Put(c, v, order, room, worn)
         ELSE \E s \in Orders(Hashed), n \in RoomAfter(held, held + worn, held) : Put(c, v, s, n, 0)
  BY DEF GrowHash, Altered, Rebuilt, walk
<1>3. Size' = Size /\ Bounded' /\ Agree(order, field, Size)
  BY <1>2, SafeAgree DEF Size, Bounded, Safe
<1>4. /\ field \in [Key -> Value \cup {Nil}] /\ field[c] \in Value \cup {Nil}
      /\ room \in Nat /\ worn \in Nat /\ held \in Nat
  BY <1>1 DEF Safe, TypeOK
<1> HIDE DEF c, K, held
<1>5. /\ answer' = field[c] /\ field' = [field EXCEPT ![c] = v]
      /\ Agree(order', field', Size') /\ room' \in Nat /\ worn' \in Nat
  <2>1. CASE held = 0
    <3>1. answer' = field[c] /\ field' = [field EXCEPT ![c] = v] /\ Placed(c, order, room, worn)
      BY <1>2, <2>1 DEF Put
    <3> QED  BY <1>1, <1>3, <1>4, <3>1, PlacedAgrees
  <2>2. CASE held # 0
    <3>1. PICK s \in Orders(Hashed), n \in RoomAfter(held, held + worn, held) : Put(c, v, s, n, 0)
      BY <1>2, <2>2
    <3>2. answer' = field[c] /\ field' = [field EXCEPT ![c] = v] /\ Placed(c, s, n, 0)
      BY <3>1 DEF Put
    <3>3. n \in Nat
      <4>1. held + worn \in Nat
        BY <1>4
      <4> QED  BY <1>4, <4>1, Rooms
    <3>4. s \in Orders(K \ {}) /\ \A x \in K \ {} : x \notin 1..Size
      <4>1. K \ {} = Hashed
        BY DEF Hashed, K, Range
      <4>2. s \in Orders(Hashed)
        OBVIOUS
      <4>3. \A x \in K \ {} : x \notin 1..Size
        BY <1>3 DEF Agree, K, Range
      <4> QED  BY <4>1, <4>2, <4>3
    <3>5. Agree(s, Cleared(field, {}), Size)
      BY <1>3, <3>4, AgreeRebuilt DEF K
    <3>6. Cleared(field, {}) = field
      BY <1>4 DEF Cleared
    <3>7. Agree(s, field, Size)
      BY <3>5, <3>6
    <3> QED  BY <1>1, <1>3, <3>2, <3>3, <3>7, PlacedAgrees
  <2> QED  BY <2>1, <2>2
<1>6. TypeOK'
  <2>1. order' \in Seq(Key) /\ field' \in [Key -> Value \cup {Nil}] /\ altered' \in BOOLEAN
    BY <1>2, <1>5 DEF Agree
  <2> QED  BY <1>2, <1>4, <1>5, <2>1 DEF Safe, TypeOK
<1>7. Safe'
  BY <1>3, <1>5, <1>6, AgreeSafeNext
<1>8. Writes(k, v) /\ Get(c) = field[c]
  BY <1>1, <1>2, <1>3, <1>5, <1>6, WritesHash DEF c
<1>9. Calm
  BY <1>2 DEF Calm
<1> QED  BY <1>1, <1>2, <1>5, <1>7, <1>8, <1>9 DEF Effects, c

LEMMA ArrayGrowsOver ==
  ASSUME Safe, NEW k \in Given, NEW v \in Value, GrowArray(k, v), calls' \in Nat
  PROVE  Safe' /\ Effects(k, v) /\ UNCHANGED walk
<1> DEFINE c == Canonical(k)
           size == Grown(OptimalSize(k))
           T == Taken(size)
           larger == LargerArray(size)
           rest == Cleared(field, T)
<1>1. IsKey(k) /\ ~InArray(k) /\ c \in Key /\ c \notin 1..Size
  BY Reads, CanonicalKeys DEF Safe, GrowArray
<1>2. /\ size \in Nat /\ size > Size /\ size < MaxInt
      /\ Size \in Nat /\ Size < MaxInt /\ MaxInt \in Nat /\ DOMAIN array = 1..Size
  BY Sizes, ArrayGrows DEF Safe, GrowArray
<1>3. PICK free \in 0..Cardinality(T), kept \in Without(T) :
        LET used == worn + Cardinality(T) - free
        IN  IF c \in 1..size
            THEN /\ array' = [larger EXCEPT ![c] = v] /\ field' = rest
                 /\ order' = kept /\ room' = free /\ worn' = used
            ELSE /\ array' = larger
                 /\ field' = [x \in Key |-> IF x = c THEN v ELSE IF x \in T THEN Nil ELSE field[x]]
                 /\ Placed(c, kept, free, used)
  BY DEF GrowArray, PutBeside, Cleared
<1>4. /\ spare' = 0 /\ answer' = field[c] /\ altered' = (altered \/ field[c] = Nil) /\ rebuilt'
      /\ rebuilt' \in BOOLEAN
      /\ UNCHANGED walk /\ UNCHANGED <<at, going, seen, ended>>
  BY DEF GrowArray, Altered, Rebuilt, walk
<1>5. Agree(order, field, Size)
  BY SafeAgree DEF Safe
<1>6. /\ field \in [Key -> Value \cup {Nil}] /\ field[c] \in Value \cup {Nil}
      /\ room \in Nat /\ worn \in Nat
      /\ \A i \in 1..Size : array[i] \in Value \cup {Nil}
  BY <1>1, Sizes DEF Safe, TypeOK
<1> HIDE DEF c, size
<1>7. /\ T = {i \in Ints : field[i] # Nil /\ i <= size}
      /\ IsFiniteSet(T) /\ Cardinality(T) \in Nat
  <2>1. Hashed = {x \in Key : field[x] # Nil} /\ Ints \subseteq Key
    BY <1>5, CanonicalKeys DEF Agree, Hashed
  <2>2. IsFiniteSet(Hashed)
    BY <1>5, HashedIsFinite DEF Agree, Hashed
  <2>3. T \subseteq Hashed
    BY DEF Taken
  <2>4. IsFiniteSet(T) /\ Cardinality(T) \in Nat
    BY <2>2, <2>3, FS_Subset, FS_CardinalityType
  <2> QED  BY <2>1, <2>4 DEF Taken
<1>8. /\ larger \in Seq(Value \cup {Nil}) /\ Len(larger) = size
      /\ \A i \in 1..size : larger[i] = IF i <= Size THEN array[i] ELSE field[i]
  <2>1. larger = [i \in 1..size |-> IF i <= Size THEN array[i] ELSE IF i \in T THEN field[i] ELSE Nil]
    BY DEF LargerArray
  <2>2. 1..size \subseteq Ints /\ 1..size \subseteq Key
    BY <1>2, CanonicalKeys DEF Ints
  <2>3. \A i \in 1..size : i > Size /\ i \notin T => field[i] = Nil
    BY <1>2, <1>7, <2>2
  <2>4. \A i \in 1..size : larger[i] = IF i <= Size THEN array[i] ELSE field[i]
    BY <1>2, <2>1, <2>3
  <2>5. \A i \in 1..size : larger[i] \in Value \cup {Nil}
    BY <1>2, <1>6, <2>2, <2>4
  <2> HIDE DEF larger
  <2> QED  BY <1>2, <2>1, <2>4, <2>5
<1> HIDE DEF larger, T
<1>9. Agree(kept, rest, size) /\ Len(kept) \in Nat
  <2>1. kept \in Orders(Range(order) \ T)
    BY DEF Without, Hashed, Range
  <2>2. \A x \in Range(order) \ T : x \notin 1..size
    <3>1. \A x \in Range(order) : x \in Key /\ field[x] # Nil
      BY <1>5 DEF Agree, Range
    <3>2. 1..size \subseteq Ints
      BY <1>2 DEF Ints
    <3> QED  BY <1>2, <1>7, <3>1, <3>2
  <2> QED  BY <1>5, <2>1, <2>2, AgreeRebuilt
<1>10. worn + Cardinality(T) - free \in Nat /\ free \in Nat
  BY <1>6, <1>7
<1>11. rest \in [Key -> Value \cup {Nil}] /\ \A x \in Key : rest[x] = IF x \in T THEN Nil ELSE field[x]
  BY <1>6 DEF Cleared
<1>12. /\ array' \in Seq(Value \cup {Nil}) /\ Len(array') = size
       /\ \A i \in 1..size : array'[i] = IF i = c THEN v ELSE larger[i]
       /\ field' = IF c \in 1..size THEN rest ELSE [rest EXCEPT ![c] = v]
       /\ Agree(order', field', size) /\ room' \in Nat /\ worn' \in Nat
  <2>1. CASE c \in 1..size
    <3>1. /\ array' = [larger EXCEPT ![c] = v] /\ field' = rest
          /\ order' = kept /\ room' = free /\ worn' = worn + Cardinality(T) - free
      BY <1>3, <2>1
    <3>2. /\ array' \in Seq(Value \cup {Nil}) /\ Len(array') = size
          /\ \A i \in 1..size : array'[i] = IF i = c THEN v ELSE larger[i]
      <4> HIDE DEF rest
      <4> QED  BY <1>2, <1>8, <2>1, <3>1
    <3> QED  BY <1>9, <1>10, <2>1, <3>1, <3>2
  <2>2. CASE c \notin 1..size
    <3>1. /\ array' = larger /\ Placed(c, kept, free, worn + Cardinality(T) - free)
          /\ field' = [x \in Key |-> IF x = c THEN v ELSE IF x \in T THEN Nil ELSE field[x]]
      BY <1>3, <2>2
    <3>2. field' = [rest EXCEPT ![c] = v]
      BY <1>1, <1>11, <3>1
    <3>3. c \notin T
      <4>1. CASE c \in Ints
        BY <1>2, <1>7, <2>2, <4>1 DEF Ints
      <4>2. CASE c \notin Ints
        BY <1>7, <4>2
      <4> QED  BY <4>1, <4>2
    <3>4. rest[c] = field[c]
      BY <1>1, <1>11, <3>3
    <3> HIDE DEF rest
    <3>5. Agree(order', field', size) /\ room' \in Nat /\ worn' \in Nat
      BY <1>1, <1>9, <1>10, <2>2, <3>1, <3>2, <3>4, PlacedAgrees
    <3> QED  BY <1>8, <2>2, <3>1, <3>2, <3>5
  <2> QED  BY <2>1, <2>2
<1>13. TypeOK' /\ Bounded' /\ Size' = size
  <2>1. order' \in Seq(Key) /\ field' \in [Key -> Value \cup {Nil}] /\ altered' \in BOOLEAN
    BY <1>4, <1>12 DEF Agree
  <2>2. Size' = size
    BY <1>12 DEF Size
  <2> QED  BY <1>2, <1>4, <1>6, <1>12, <2>1, <2>2 DEF Safe, TypeOK, Bounded
<1>14. Safe'
  BY <1>12, <1>13, AgreeSafeNext
<1>15. Writes(k, v) /\ field[c] = Get(c)
  <2>1. \A x \in Key : Get(x)' = IF x \in 1..size THEN array'[x] ELSE field'[x]
    BY <1>13, ReadsNext
  <2>2. \A x \in Key : Get(x) = IF x \in 1..Size THEN array[x] ELSE field[x]
    BY Reads DEF Safe
  <2>3. ASSUME NEW x \in Key  PROVE Get(x)' = IF x = c THEN v ELSE Get(x)
    <3>1. CASE x \in 1..size
      <4>1. Get(x)' = IF x = c THEN v ELSE IF x <= Size THEN array[x] ELSE field[x]
        BY <1>8, <1>12, <2>1, <3>1
      <4>2. x <= Size <=> x \in 1..Size
        BY <1>2, <3>1
      <4> QED  BY <1>1, <2>2, <4>1, <4>2
    <3>2. CASE x \notin 1..size
      <4>1. x \notin 1..Size
        BY <1>2, <3>2
      <4>2. x \in T => FALSE
        BY <1>2, <1>7, <3>2 DEF Ints
      <4>3. field'[x] = IF x = c THEN v ELSE field[x]
        BY <1>11, <1>12, <3>2, <4>2
      <4> QED  BY <2>1, <2>2, <3>2, <4>1, <4>3
    <3> QED  BY <3>1, <3>2
  <2>4. Get(c) = field[c]
    BY <1>1, <2>2
  <2> QED  BY <2>3, <2>4 DEF Writes, c
<1>16. Calm
  BY <1>4 DEF Calm
<1> QED  BY <1>1, <1>4, <1>14, <1>15, <1>16 DEF Effects, c

LEMMA AssignIsSafe ==
  ASSUME Safe, NEW k \in Given, NEW v \in Value \cup {Nil}, Assign(k, v)
  PROVE  Safe' /\ Effects(k, v) /\ UNCHANGED walk
<1>1. calls' \in Nat
  BY DEF Assign, Safe, TypeOK
<1>2. CASE AssignArray(k, v)
  BY <1>1, <1>2, ArrayIsWritten
<1>3. CASE RefuseKey(k)
  BY <1>1, <1>3, KeyIsRefused
<1>4. CASE v = Nil /\ AssignNil(k)
  BY <1>1, <1>4, KeyIsRemoved
<1>5. CASE AssignHash(k, v)
  <2>1. v \in Value
    BY <1>5 DEF AssignHash
  <2> QED  BY <1>1, <1>5, <2>1, HashIsWritten
<1>6. CASE GrowArray(k, v)
  <2>1. v \in Value
    BY <1>6 DEF GrowArray
  <2> QED  BY <1>1, <1>6, <2>1, ArrayGrowsOver
<1>7. CASE GrowHash(k, v)
  <2>1. v \in Value
    BY <1>7 DEF GrowHash
  <2> QED  BY <1>1, <1>7, <2>1, HashGrows
<1> QED  BY <1>2, <1>3, <1>4, <1>5, <1>6, <1>7 DEF Assign

-----------------------------------------------------------------------------
(* The traversal.                                                          *)

LEMMA HeldIs ==
  ASSUME Safe
  PROVE  /\ Held = Arrayed \cup Hashed /\ Arrayed \cap Hashed = {}
         /\ Arrayed = {i \in 1..Size : array[i] # Nil}
         /\ Hashed = {k \in Key : field[k] # Nil}
<1>1. Hashed = {k \in Key : field[k] # Nil} /\ \A k \in Hashed : ~InArray(k)
  BY DEF Safe, OnePlace
<1>2. \A k \in Key : InArray(k) <=> k \in 1..Size
  BY Reads DEF Safe
<1>3. Arrayed = {i \in 1..Size : array[i] # Nil} /\ 1..Size \subseteq Key
  BY Sizes, CanonicalKeys DEF Arrayed, Safe
<1>4. \A k \in Key : Get(k) = IF k \in 1..Size THEN array[k] ELSE field[k]
  BY Reads DEF Safe
<1>5. \A k \in Hashed : k \in Key /\ k \notin 1..Size
  BY <1>1, <1>2
<1>6. Arrayed \cap Hashed = {}
  BY <1>3, <1>5
<1>7. Held = Arrayed \cup Hashed
  BY <1>1, <1>3, <1>4, <1>5 DEF Held
<1> QED  BY <1>1, <1>3, <1>6, <1>7

\* What next finds after x is a key that the traversal has not passed, and with
\* it all it has passed there; without one, it has passed all there is.
LEMMA NextIsNew ==
  ASSUME Safe, NEW x \in Key \cup {Nil}, x # Nil => Get(x) # Nil
  PROVE  \/ NextKey(x) = Last /\ Passed(x) = Held
         \/ \E k \in Key : /\ NextKey(x) = Found(k) /\ Get(k) # Nil
                           /\ k \notin Passed(x) /\ Passed(k) = Passed(x) \cup {k}
<1> DEFINE i == Index(x)
           after == InArrayAfter(i)
<1>1. /\ Size \in Nat /\ Size < MaxInt /\ MaxInt \in Nat
      /\ DOMAIN array = 1..Size /\ 1..Size \subseteq Ints /\ Ints \subseteq Key
  BY Sizes, CanonicalKeys DEF Safe
<1>2. /\ Held = Arrayed \cup Hashed /\ Arrayed \cap Hashed = {}
      /\ Arrayed = {j \in 1..Size : array[j] # Nil}
      /\ Hashed = {k \in Key : field[k] # Nil}
  BY HeldIs
<1>3. /\ order \in Seq(Key) /\ Len(order) \in Nat /\ DOMAIN order = 1..Len(order)
      /\ \A m, n \in DOMAIN order : order[m] = order[n] => m = n
      /\ Hashed = {order[n] : n \in DOMAIN order}
  BY DEF Safe, TypeOK, OnePlace, Hashed
<1>4. /\ \A k \in Key : InArray(k) <=> k \in 1..Size
      /\ \A k \in Key : Get(k) = IF k \in 1..Size THEN array[k] ELSE field[k]
      /\ \A k \in 1..Size : Index(k) = k
      /\ Index(Nil) = 0 /\ Nil \notin Key
      /\ \A k \in Key : Canonical(k) = k
  BY <1>1, Reads, Indexes, CanonicalKeys DEF Safe
<1>5. \A k \in Hashed : k \in Key /\ ~InArray(k) /\ k # Nil /\ Get(k) # Nil
  BY <1>2, <1>4 DEF Safe, OnePlace
<1>6. ASSUME x = Nil \/ InArray(x), after # {}
      PROVE  \E k \in Key : /\ NextKey(x) = Found(k) /\ Get(k) # Nil
                            /\ k \notin Passed(x) /\ Passed(k) = Passed(x) \cup {k}
  <2>1. i \in 0..Size
    BY <1>1, <1>4, <1>6
  <2>2. after = {j \in Arrayed : j > i} /\ after \in SUBSET Nat
    BY <1>1, <1>2 DEF InArrayAfter
  <2> DEFINE k == LeastIn(after)
  <2>3. k \in after /\ \A m \in after : k <= m
    BY <1>6, <2>2, LeastIsThere
  <2>4. NextKey(x) = Found(k)
    BY <1>6 DEF NextKey
  <2> HIDE DEF k, i, after
  <2>5. k \in Arrayed /\ k \in 1..Size /\ k > i /\ k \in Key
    BY <1>1, <1>2, <2>2, <2>3
  <2>6. Get(k) # Nil /\ InArray(k) /\ Index(k) = k
    BY <1>2, <1>4, <2>5
  <2>7. Passed(x) = {j \in Arrayed : j <= i}
    BY <1>6 DEF Passed, i
  <2>8. Passed(k) = {j \in Arrayed : j <= k}
    BY <2>6 DEF Passed
  <2>9. \A j \in Arrayed : j <= k <=> (j <= i \/ j = k)
    <3>1. \A j \in Arrayed : j \in Nat
      BY <1>1, <1>2
    <3>2. \A j \in Arrayed : j > i => k <= j
      BY <2>2, <2>3
    <3> QED  BY <2>1, <2>5, <3>1, <3>2
  <2>10. k \notin Passed(x) /\ Passed(k) = Passed(x) \cup {k}
    <3>1. k <= k /\ ~(k <= i)
      BY <1>1, <2>1, <2>5
    <3>2. k \notin {j \in Arrayed : j <= i}
      BY <3>1
    <3>3. {j \in Arrayed : j <= k} = {j \in Arrayed : j <= i} \cup {k}
      BY <2>5, <2>9, <3>1
    <3> QED  BY <2>7, <2>8, <3>2, <3>3
  <2> QED  BY <2>4, <2>5, <2>6, <2>10
<1>7. ASSUME x = Nil \/ InArray(x), after = {}
      PROVE  \/ NextKey(x) = Last /\ Passed(x) = Held
             \/ \E k \in Key : /\ NextKey(x) = Found(k) /\ Get(k) # Nil
                               /\ k \notin Passed(x) /\ Passed(k) = Passed(x) \cup {k}
  <2>1. i \in 0..Size
    BY <1>1, <1>4, <1>7
  <2>2. ~(x # Nil /\ array[i] = Nil)
    BY <1>4, <1>7
  <2>3. NextKey(x) = FirstHashed(1)
    BY <1>7, <2>2 DEF NextKey
  <2>4. Passed(x) = Arrayed
    <3>1. \A j \in Arrayed : j <= i
      BY <1>1, <1>2, <1>7, <2>1 DEF InArrayAfter
    <3> QED  BY <1>7, <3>1 DEF Passed
  <2> HIDE DEF i, after
  <2>5. CASE Len(order) = 0
    <3>1. Hashed = {}
      BY <1>3, <2>5
    <3>2. NextKey(x) = Last
      BY <2>3, <2>5 DEF FirstHashed
    <3> QED  BY <1>2, <2>4, <3>1, <3>2
  <2>6. CASE Len(order) > 0
    <3> DEFINE k == order[1]
    <3>1. 1 \in DOMAIN order /\ k \in Hashed /\ NextKey(x) = Found(k)
      BY <1>3, <2>3, <2>6 DEF FirstHashed
    <3>2. k \in Key /\ ~InArray(k) /\ k # Nil /\ Get(k) # Nil
      BY <1>5, <3>1
    <3>3. {y \in Hashed : \E m, n \in DOMAIN order : m <= n /\ order[m] = y /\ order[n] = k} = {k}
      <4>1. \A m, n \in DOMAIN order : m <= n /\ order[n] = order[1] => order[m] = order[1]
        BY <1>3, <3>1
      <4>2. 1 <= 1
        OBVIOUS
      <4> QED  BY <3>1, <4>1, <4>2
    <3>4. Passed(k) = Arrayed \cup {k}
      BY <3>2, <3>3 DEF Passed
    <3>5. k \notin Arrayed
      BY <1>2, <3>1
    <3> QED  BY <2>4, <3>1, <3>2, <3>4, <3>5
  <2> QED  BY <1>3, <2>5, <2>6
<1>8. ASSUME ~(x = Nil \/ InArray(x))
      PROVE  \/ NextKey(x) = Last /\ Passed(x) = Held
             \/ \E k \in Key : /\ NextKey(x) = Found(k) /\ Get(k) # Nil
                               /\ k \notin Passed(x) /\ Passed(k) = Passed(x) \cup {k}
  <2>1. x \in Key /\ x \in Hashed /\ Canonical(x) = x
    BY <1>2, <1>4, <1>8
  <2> DEFINE p == CHOOSE n \in DOMAIN order : order[n] = x
  <2>2. p \in DOMAIN order /\ order[p] = x
    BY <1>3, <2>1
  <2>3. NextKey(x) = FirstHashed(p + 1)
    BY <1>8, <2>1 DEF NextKey
  <2> HIDE DEF p
  <2> DEFINE upto(n) == {order[m] : m \in {j \in DOMAIN order : j <= n}}
  <2>4. Passed(x) = Arrayed \cup upto(p)
    <3>1. {k \in Hashed : \E m, n \in DOMAIN order : m <= n /\ order[m] = k /\ order[n] = x}
            = upto(p)
      BY <1>3, <2>2
    <3> QED  BY <1>8, <3>1 DEF Passed
  <2>5. CASE p + 1 > Len(order)
    <3>1. NextKey(x) = Last
      BY <2>3, <2>5 DEF FirstHashed
    <3>2. upto(p) = Hashed
      BY <1>3, <2>2, <2>5
    <3> QED  BY <1>2, <2>4, <3>1, <3>2
  <2>6. CASE p + 1 <= Len(order)
    <3> DEFINE q == p + 1
               k == order[q]
    <3>1. q \in DOMAIN order /\ k \in Hashed /\ NextKey(x) = Found(k)
      BY <1>3, <2>2, <2>3, <2>6 DEF FirstHashed
    <3>2. k \in Key /\ ~InArray(k) /\ k # Nil /\ Get(k) # Nil
      BY <1>5, <3>1
    <3>3. Passed(k) = Arrayed \cup upto(q)
      <4>1. {y \in Hashed : \E m, n \in DOMAIN order : m <= n /\ order[m] = y /\ order[n] = k}
              = upto(q)
        BY <1>3, <3>1
      <4> QED  BY <3>2, <4>1 DEF Passed
    <3>4. upto(q) = upto(p) \cup {k} /\ k \notin upto(p)
      BY <1>3, <2>2, <3>1
    <3>5. k \notin Arrayed
      BY <1>2, <3>1
    <3>6. k \notin Passed(x) /\ Passed(k) = Passed(x) \cup {k}
      BY <2>4, <3>3, <3>4, <3>5
    <3> QED  BY <3>1, <3>2, <3>6
  <2> QED  BY <1>3, <2>2, <2>5, <2>6
<1> QED  BY <1>6, <1>7, <1>8

LEMMA NextIsKey ==
  ASSUME Safe, NEW x \in Key \cup {Nil}, NextKey(x).found
  PROVE  NextKey(x).key \in Key
<1> DEFINE i == Index(x)
           after == InArrayAfter(i)
<1>1. DOMAIN array = 1..Size /\ 1..Size \subseteq Key /\ 1..Size \subseteq Nat
  BY Sizes, CanonicalKeys DEF Safe
<1>2. order \in Seq(Key) /\ DOMAIN order = 1..Len(order) /\ Len(order) \in Nat
  BY DEF Safe, TypeOK
<1>3. ASSUME NEW m \in Nat \ {0}, FirstHashed(m).found  PROVE FirstHashed(m).key \in Key
  <2>1. m \in DOMAIN order /\ FirstHashed(m) = Found(order[m])
    BY <1>2, <1>3 DEF FirstHashed, Last
  <2> QED  BY <1>2, <2>1 DEF Found
<1>4. ASSUME after # {}  PROVE LeastIn(after) \in Key
  <2>1. after \in SUBSET Nat /\ after \subseteq 1..Size
    BY <1>1 DEF InArrayAfter
  <2>2. LeastIn(after) \in after
    BY <1>4, <2>1, LeastIsThere
  <2> QED  BY <1>1, <2>1, <2>2
<1> HIDE DEF i, after
<1>5. CASE x = Nil \/ InArray(x)
  <2>1. CASE after # {}
    BY <1>4, <1>5, <2>1 DEF NextKey, Found, i, after
  <2>2. CASE after = {} /\ ~(x # Nil /\ array[i] = Nil)
    <3>1. NextKey(x) = FirstHashed(1)
      BY <1>5, <2>2 DEF NextKey, i, after
    <3> QED  BY <1>3, <3>1
  <2>3. CASE after = {} /\ (x # Nil /\ array[i] = Nil)
    BY <1>5, <2>3 DEF NextKey, NotFound, i, after
  <2> QED  BY <2>1, <2>2, <2>3
<1>6. CASE ~(x = Nil \/ InArray(x)) /\ Canonical(x) \in Hashed
  <2> DEFINE p == CHOOSE n \in DOMAIN order : order[n] = Canonical(x)
  <2>1. p \in DOMAIN order
    BY <1>6 DEF Hashed
  <2>2. NextKey(x) = FirstHashed(p + 1)
    BY <1>6 DEF NextKey
  <2> HIDE DEF p
  <2>3. p + 1 \in Nat \ {0}
    BY <1>2, <2>1
  <2> QED  BY <1>3, <2>2, <2>3
<1>7. CASE ~(x = Nil \/ InArray(x)) /\ Canonical(x) \notin Hashed
  BY <1>7 DEF NextKey, NotFound
<1> QED  BY <1>5, <1>6, <1>7

LEMMA WalkIsSafe ==
  ASSUME Safe, StartWalk \/ StepWalk
  PROVE  Safe' /\ UNCHANGED <<Content, answer>>
<1>1. UNCHANGED <<array, spare, field, order, room, worn, answer, calls>>
  BY DEF StartWalk, StepWalk, hash
<1>2. /\ at' \in Key \cup {Nil} /\ going' \in BOOLEAN /\ seen' \in Seq(Key)
      /\ ended' \in {"none", "last", "error"} /\ altered' \in BOOLEAN /\ rebuilt' \in BOOLEAN
  <2>1. /\ at \in Key \cup {Nil} /\ going \in BOOLEAN /\ seen \in Seq(Key)
        /\ ended \in {"none", "last", "error"} /\ altered \in BOOLEAN /\ rebuilt \in BOOLEAN
    BY DEF Safe, TypeOK
  <2>2. CASE StartWalk
    <3>1. at' = Nil /\ going' = TRUE /\ ended' = "none" /\ altered' = FALSE /\ rebuilt' = FALSE
      BY <2>2 DEF StartWalk
    <3>2. seen' = <<>>
      BY <2>2 DEF StartWalk
    <3>3. <<>> \in Seq(Key)
      OBVIOUS
    <3> QED  BY <3>1, <3>2, <3>3
  <2>3. CASE StepWalk
    <3>1. UNCHANGED <<altered, rebuilt>>
      BY <2>3 DEF StepWalk, flags
    <3>2. CASE NextKey(at).found
      <4>1. NextKey(at).key \in Key
        BY <2>1, <3>2, NextIsKey
      <4>2. /\ at' = NextKey(at).key /\ seen' = Append(seen, NextKey(at).key)
            /\ UNCHANGED <<going, ended>>
        BY <2>3, <3>2 DEF StepWalk
      <4> QED  BY <2>1, <3>1, <4>1, <4>2
    <3>3. CASE ~NextKey(at).found
      <4>1. going' = FALSE /\ ended' \in {"last", "error"} /\ UNCHANGED <<at, seen>>
        BY <2>3, <3>3 DEF StepWalk
      <4> QED  BY <2>1, <3>1, <4>1
    <3> QED  BY <3>2, <3>3
  <2> QED  BY <2>2, <2>3
<1>3. TypeOK' /\ Bounded' /\ Size' = Size
  BY <1>1, <1>2 DEF Safe, TypeOK, Bounded, Size
<1>4. Safe'
  <2>1. Agree(order', field', Size')
    BY <1>1, <1>3, SafeAgree DEF Safe
  <2> QED  BY <1>3, <2>1, AgreeSafeNext
<1>5. UNCHANGED <<Content, answer>>
  <2>1. \A k \in Key : Get(k)' = Get(k)
    BY <1>1, <1>3, Reads, ReadsNext DEF Safe
  <2> QED  BY <1>1, <2>1 DEF Content
<1> QED  BY <1>4, <1>5

LEMMA TableStarts == Init => Safe /\ WalkInv
<1> SUFFICES ASSUME Init PROVE Safe /\ WalkInv
  OBVIOUS
<1>1. LeastIn(Buckets) \in Nat /\ FirstArray \in Nat /\ MaxInt \in Nat \ {0}
  BY LeastIsThere, LuaTableAssumption
<1>2. Size = 0
  BY DEF Init, Size
<1>3. TypeOK
  <2>1. <<>> \in Seq(Key) /\ <<>> \in Seq(Value \cup {Nil})
    OBVIOUS
  <2>2. array \in Seq(Value \cup {Nil}) /\ order \in Seq(Key) /\ seen \in Seq(Key)
    BY <2>1 DEF Init
  <2>3. /\ spare \in Nat /\ room \in Nat /\ worn \in Nat /\ calls \in Nat
        /\ field \in [Key -> Value \cup {Nil}]
    BY <1>1 DEF Init
  <2>4. /\ answer \in Value \cup {Nil, BadKey} /\ at \in Key \cup {Nil} /\ going \in BOOLEAN
        /\ ended \in {"none", "last", "error"} /\ altered \in BOOLEAN /\ rebuilt \in BOOLEAN
    BY DEF Init
  <2> QED  BY <2>2, <2>3, <2>4 DEF TypeOK
<1>4. Bounded
  BY <1>1, <1>2 DEF Bounded
<1>5. OnePlace
  <2>1. order = <<>> /\ field = [k \in Key |-> Nil]
    BY DEF Init
  <2>2. DOMAIN order = {}
    BY <2>1
  <2> QED  BY <2>1, <2>2 DEF OnePlace, Hashed
<1>6. WalkInv
  BY DEF Init, WalkInv
<1> QED  BY <1>3, <1>4, <1>5, <1>6 DEF Safe

LEMMA TableSteps ==
  ASSUME Safe, [Next]_vars
  PROVE  Safe'
<1>1. CASE \E k \in Given, v \in Value \cup {Nil} : Assign(k, v)
  BY <1>1, AssignIsSafe
<1>2. CASE StartWalk \/ StepWalk
  BY <1>2, WalkIsSafe
<1>3. CASE UNCHANGED vars
  <2>1. UNCHANGED <<array, spare, field, order, room, worn, answer, calls, at, going, seen, ended, altered, rebuilt>>
    BY <1>3 DEF vars, hash, walk, flags
  <2>2. TypeOK' /\ Bounded' /\ Size' = Size
    BY <2>1 DEF Safe, TypeOK, Bounded, Size
  <2>3. Agree(order', field', Size')
    BY <2>1, <2>2, SafeAgree DEF Safe
  <2> QED  BY <2>2, <2>3, AgreeSafeNext
<1> QED  BY <1>1, <1>2, <1>3 DEF Next

LEMMA TableIsSafe == Spec => []Safe
<1>1. Init => Safe
  BY TableStarts
<1>2. Safe /\ [Next]_vars => Safe'
  BY TableSteps
<1> QED  BY <1>1, <1>2, PTL DEF Spec

\* The types of the table's variables hold, whatever is assigned.
THEOREM TableTypes == Spec => []TypeOK
<1>1. Safe => TypeOK
  BY DEF Safe
<1> QED  BY <1>1, TableIsSafe, PTL

\* Growth, removal and rebuilt buckets never put a key into both parts of a
\* table, nor into two buckets, nor where get would not look for it.
THEOREM KeysAreInOnePlace == Spec => []OnePlace
<1>1. Safe => OnePlace
  BY DEF Safe
<1> QED  BY <1>1, TableIsSafe, PTL

\* A table is the partial map that scripts see: whatever RawTable moves where,
\* an assignment changes the value of its key, and no other, and answers with the
\* value that was there.
THEOREM TableIsAMap == Spec => IsMap
<1>1. Init => AsMap!Init
  <2> SUFFICES ASSUME Init PROVE AsMap!Init
    OBVIOUS
  <2>1. \A k \in Key : Get(k) = Nil
    <3>1. Safe
      BY TableStarts
    <3>2. \A k \in Key : Get(k) = IF k \in 1..Size THEN array[k] ELSE field[k]
      BY <3>1, Reads DEF Safe
    <3>3. Size = 0 /\ field = [k \in Key |-> Nil]
      BY DEF Init, Size
    <3> QED  BY <3>2, <3>3
  <2> QED  BY <2>1 DEF AsMap!Init, Content, Init
<1>2. Safe /\ [Next]_vars => [AsMap!Next]_<<Content, answer>>
  <2> SUFFICES ASSUME Safe, [Next]_vars PROVE [AsMap!Next]_<<Content, answer>>
    OBVIOUS
  <2>1. ASSUME NEW k \in Given, NEW v \in Value \cup {Nil}, Assign(k, v)
        PROVE  AsMap!Next
    <3>1. Effects(k, v)
      BY <2>1, AssignIsSafe
    <3>2. CASE IsKey(k)
      <4> DEFINE c == Canonical(k)
      <4>1. c \in Key /\ answer' = Get(c) /\ \A x \in Key : Get(x)' = IF x = c THEN v ELSE Get(x)
        BY <3>1, <3>2, CanonicalKeys DEF Effects, Writes
      <4> HIDE DEF c
      <4>2. Content' = [Content EXCEPT ![c] = v] /\ answer' = Content[c]
        BY <4>1 DEF Content
      <4> QED  BY <4>1, <4>2 DEF AsMap!Next, AsMap!Assign
    <3>3. CASE ~IsKey(k)
      <4>1. answer' = BadKey /\ \A x \in Key : Get(x)' = Get(x)
        BY <3>1, <3>3 DEF Effects
      <4>2. Content' = Content
        BY <4>1 DEF Content
      <4> QED  BY <4>1, <4>2 DEF AsMap!Next, AsMap!Refuse
    <3> QED  BY <3>2, <3>3
  <2>2. CASE StartWalk \/ StepWalk
    BY <2>2, WalkIsSafe
  <2>3. CASE UNCHANGED vars
    <3>1. UNCHANGED <<array, field, answer>>
      BY <2>3 DEF vars, hash
    <3>2. \A k \in Key : Get(k)' = Get(k)
      BY <3>1 DEF Get, InArray, Size
    <3> QED  BY <3>1, <3>2 DEF Content
  <2> QED  BY <2>1, <2>2, <2>3 DEF Next
<1> QED  BY <1>1, <1>2, TableIsSafe, PTL DEF Spec, IsMap, AsMap!Spec

-----------------------------------------------------------------------------
(* The traversal is exact.                                                 *)

LEMMA HeldNext ==
  ASSUME Safe'
  PROVE  Held' = Arrayed' \cup Hashed'
<1>1. Hashed' = {k \in Key : field'[k] # Nil} /\ \A k \in Hashed' : ~InArray(k)'
  BY DEF Safe, OnePlace
<1>2. /\ \A k \in Key : InArray(k)' <=> k \in 1..Size'
      /\ \A k \in Key : Get(k)' = IF k \in 1..Size' THEN array'[k] ELSE field'[k]
  BY ReadsNext DEF Safe
<1>3. Arrayed' = {i \in 1..Size' : array'[i] # Nil} /\ 1..Size' \subseteq Key
  <2>1. Size' \in Nat /\ Size' < MaxInt /\ MaxInt \in Nat /\ DOMAIN array' = 1..Size'
    BY LuaTableAssumption DEF Safe, TypeOK, Size, Bounded
  <2> QED  BY <2>1, CanonicalKeys DEF Arrayed, Ints
<1>4. \A k \in Hashed' : k \in Key /\ k \notin 1..Size'
  BY <1>1, <1>2
<1> QED  BY <1>1, <1>2, <1>3, <1>4 DEF Held

\* Where the keys are in the same places, a traversal has passed the same ones.
LEMMA PassedStays ==
  ASSUME Safe, Safe', order' = order, Size' = Size,
         \A i \in 1..Size : array'[i] = Nil <=> array[i] = Nil
  PROVE  /\ Held' = Held
         /\ \A x \in Key \cup {Nil} : Passed(x)' = Passed(x)
         /\ \A k \in Key : Get(k)' # Nil <=> Get(k) # Nil
<1>1. DOMAIN array = 1..Size /\ DOMAIN array' = 1..Size
  BY Sizes DEF Safe, TypeOK, Size
<1>2. Arrayed' = Arrayed
  BY <1>1 DEF Arrayed
<1>3. Hashed' = Hashed
  BY DEF Hashed
<1>4. Held' = Held
  BY <1>2, <1>3, HeldIs, HeldNext
<1>5. \A x \in Key \cup {Nil} : Passed(x)' = Passed(x)
  <2>1. \A x \in Key \cup {Nil} : InArray(x)' <=> InArray(x)
    BY DEF InArray
  <2> QED  BY <1>2, <1>3, <2>1 DEF Passed
<1>6. \A k \in Key : Get(k)' # Nil <=> Get(k) # Nil
  BY <1>4 DEF Held
<1> QED  BY <1>4, <1>5, <1>6

LEMMA AppendedKey ==
  ASSUME NEW s \in Seq(Key), NEW k \in Key, k \notin {s[i] : i \in DOMAIN s},
         \A i, j \in DOMAIN s : s[i] = s[j] => i = j
  PROVE  LET t == Append(s, k)
         IN  /\ \A i, j \in DOMAIN t : t[i] = t[j] => i = j
             /\ {t[i] : i \in DOMAIN t} = {s[i] : i \in DOMAIN s} \cup {k}
<1> DEFINE t == Append(s, k)
           n == Len(s)
<1>1. /\ n \in Nat /\ DOMAIN s = 1..n /\ DOMAIN t = 1..(n + 1)
      /\ t[n + 1] = k /\ \A i \in 1..n : t[i] = s[i]
  OBVIOUS
<1> HIDE DEF t, n
<1>2. \A i \in 1..(n + 1) : i = n + 1 \/ i \in 1..n
  BY <1>1
<1>3. \A i, j \in DOMAIN t : t[i] = t[j] => i = j
  BY <1>1, <1>2
<1>4. {t[i] : i \in DOMAIN t} = {s[i] : i \in DOMAIN s} \cup {k}
  BY <1>1, <1>2
<1> QED  BY <1>3, <1>4 DEF t

LEMMA WalkSteps ==
  ASSUME Safe, Safe', WalkInv, [Next]_vars
  PROVE  WalkInv'
<1>1. at \in Key \cup {Nil} /\ going \in BOOLEAN /\ seen \in Seq(Key)
  BY DEF Safe, TypeOK
<1>2. CASE \E k \in Given, v \in Value \cup {Nil} : Assign(k, v)
  <2>1. Calm /\ UNCHANGED <<at, going, seen, ended>>
    BY <1>2, AssignIsSafe DEF Effects, walk
  <2>2. CASE altered' \/ rebuilt'
    BY <2>1, <2>2 DEF WalkInv
  <2>3. CASE ~altered' /\ ~rebuilt'
    <3>1. /\ ~altered /\ ~rebuilt /\ order' = order /\ Size' = Size
          /\ \A i \in 1..Size : array'[i] = Nil <=> array[i] = Nil
      BY <2>1, <2>3 DEF Calm
    <3>2. /\ Held' = Held /\ Passed(at)' = Passed(at)
          /\ at # Nil => (Get(at)' # Nil <=> Get(at) # Nil)
      <4>1. PICK x \in Key \cup {Nil} : x = at
        BY <1>1
      <4>2. /\ Held' = Held /\ Passed(x)' = Passed(x)
            /\ x # Nil => (Get(x)' # Nil <=> Get(x) # Nil)
        BY <3>1, PassedStays
      <4>3. at' = x
        BY <2>1, <4>1
      <4>4. Passed(at)' = Passed(x)'
        BY <4>3 DEF Passed, InArray, Index, Canonical
      <4>5. Get(at)' = Get(x)'
        BY <4>3 DEF Get, InArray, Index, Canonical, IsKey
      <4> QED  BY <4>1, <4>2, <4>3, <4>4, <4>5
    <3>3. OnItsWay => OnItsWay'
      BY <2>1, <3>2 DEF OnItsWay
    <3>4. Exact => Exact'
      BY <2>1, <3>2 DEF Exact
    <3> QED  BY <2>1, <3>1, <3>3, <3>4 DEF WalkInv
  <2> QED  BY <2>2, <2>3
<1>3. CASE StartWalk
  <2>1. at' = Nil /\ going' /\ seen' = <<>> /\ ended' = "none"
    BY <1>3 DEF StartWalk
  <2>2. UNCHANGED <<array, order>>
    BY <1>3 DEF StartWalk, hash
  <2>3. Arrayed' = Arrayed /\ \A i \in Arrayed : ~(i <= 0)
    BY <2>2, HeldIs, Sizes DEF Arrayed, Safe
  <2>4. Passed(at)' = {}
    BY <2>1, <2>3, Indexes DEF Passed
  <2>5. DOMAIN seen' = {}
    BY <2>1
  <2>6. OnItsWay'
    BY <2>1, <2>4, <2>5 DEF OnItsWay
  <2> QED  BY <2>1, <2>6 DEF WalkInv
<1>4. CASE StepWalk
  <2>1. UNCHANGED <<array, field, order, altered, rebuilt>>
    BY <1>4 DEF StepWalk, hash, flags
  <2>2. going = TRUE /\ ended = "none"
    BY <1>1, <1>4 DEF StepWalk, WalkInv
  <2>3. /\ NextKey(at).found => /\ at' = NextKey(at).key /\ seen' = Append(seen, NextKey(at).key)
                                /\ UNCHANGED <<going, ended>>
        /\ ~NextKey(at).found => /\ going' = FALSE /\ UNCHANGED <<at, seen>>
                                 /\ ended' = IF NextKey(at) = Last THEN "last" ELSE "error"
    BY <1>4 DEF StepWalk
  <2>4. going' => ended' = "none"
    BY <2>2, <2>3
  <2>5. CASE altered \/ rebuilt
    BY <2>1, <2>4, <2>5 DEF WalkInv
  <2>6. CASE ~altered /\ ~rebuilt
    <3>1. OnItsWay
      BY <2>2, <2>6 DEF WalkInv
    <3>2. /\ at # Nil => Get(at) # Nil
          /\ \A i, j \in DOMAIN seen : seen[i] = seen[j] => i = j
          /\ {seen[i] : i \in DOMAIN seen} = Passed(at)
      BY <3>1 DEF OnItsWay
    <3>3. /\ Held' = Held /\ \A x \in Key \cup {Nil} : Passed(x)' = Passed(x)
          /\ \A k \in Key : Get(k)' # Nil <=> Get(k) # Nil
      <4>1. Size' = Size
        BY <2>1 DEF Size
      <4> QED  BY <2>1, <4>1, PassedStays
    <3>4. CASE NextKey(at) = Last /\ Passed(at) = Held
      <4>1. going' = FALSE /\ ended' = "last" /\ seen' = seen
        BY <2>3, <3>4 DEF Last
      <4>2. Exact'
        BY <3>2, <3>3, <3>4, <4>1 DEF Exact
      <4> QED  BY <4>1, <4>2 DEF WalkInv
    <3>5. CASE \E k \in Key : /\ NextKey(at) = Found(k) /\ Get(k) # Nil
                              /\ k \notin Passed(at) /\ Passed(k) = Passed(at) \cup {k}
      <4>1. PICK k \in Key : /\ NextKey(at) = Found(k) /\ Get(k) # Nil
                             /\ k \notin Passed(at) /\ Passed(k) = Passed(at) \cup {k}
        BY <3>5
      <4>2. at' = k /\ seen' = Append(seen, k) /\ going' = going /\ ended' = "none"
        BY <2>2, <2>3, <4>1 DEF Found
      <4>3. /\ \A i, j \in DOMAIN seen' : seen'[i] = seen'[j] => i = j
            /\ {seen'[i] : i \in DOMAIN seen'} = Passed(k)
        <5>1. k \notin {seen[i] : i \in DOMAIN seen}
          BY <3>2, <4>1
        <5>2. /\ \A i, j \in DOMAIN Append(seen, k) :
                   Append(seen, k)[i] = Append(seen, k)[j] => i = j
              /\ {Append(seen, k)[i] : i \in DOMAIN Append(seen, k)}
                    = {seen[i] : i \in DOMAIN seen} \cup {k}
          BY <1>1, <3>2, <5>1, AppendedKey
        <5> QED  BY <3>2, <4>1, <4>2, <5>2
      <4>4. Passed(at)' = Passed(k) /\ Get(at)' # Nil
        <5>1. Passed(k)' = Passed(k) /\ Get(k)' # Nil
          BY <3>3, <4>1
        <5> QED  BY <4>2, <5>1 DEF Passed, InArray, Get
      <4>5. OnItsWay'
        BY <4>3, <4>4 DEF OnItsWay
      <4> QED  BY <4>2, <4>5 DEF WalkInv
    <3> QED  BY <1>1, <3>2, <3>4, <3>5, NextIsNew
  <2> QED  BY <2>5, <2>6
<1>5. CASE UNCHANGED vars
  <2>1. UNCHANGED <<array, field, order, at, going, seen, ended, altered, rebuilt>>
    BY <1>5 DEF vars, hash, walk, flags
  <2> QED
    BY <2>1 DEF WalkInv, OnItsWay, Exact, Held, Get, InArray, Size, Passed, Arrayed, Hashed,
                Index, Canonical, IsKey
<1> QED  BY <1>2, <1>3, <1>4, <1>5 DEF Next

\* A traversal with next, between whose steps a script may assign to the fields
\* there are, returns every key once and ends, unless a key came or went or the
\* buckets were rebuilt.
THEOREM TraversalIsExact == Spec => []WalkIsExact
<1>1. Init => WalkInv
  BY TableStarts
<1>2. Safe /\ Safe' /\ WalkInv /\ [Next]_vars => WalkInv'
  BY WalkSteps
<1>3. WalkInv => WalkIsExact
  BY DEF WalkInv, WalkIsExact
<1> QED  BY <1>1, <1>2, <1>3, TableIsSafe, PTL DEF Spec

-----------------------------------------------------------------------------
(* The length.  Both searches are recursive functions: that they are there *)
(* is shown by induction on the distance that is left.                     *)

Spans == (0..MaxInt) \X (0..MaxInt)
Span(p) == p[2] - p[1]

\* One step of the binary search.
Halved(nils, f, p) ==
  LET mid == p[1] + (p[2] - p[1]) \div 2
  IN  IF p[2] - p[1] <= 1 THEN p[1]
      ELSE IF mid \in nils THEN f[<<p[1], mid>>] ELSE f[<<mid, p[2]>>]

LEMMA MidIsBetween ==
  ASSUME NEW p \in Spans, Span(p) > 1
  PROVE  LET mid == p[1] + (p[2] - p[1]) \div 2
         IN  /\ mid \in 0..MaxInt /\ p[1] < mid /\ mid < p[2]
             /\ <<p[1], mid>> \in Spans /\ Span(<<p[1], mid>>) < Span(p)
             /\ <<mid, p[2]>> \in Spans /\ Span(<<mid, p[2]>>) < Span(p)
<1> DEFINE a == p[1]
           b == p[2]
           mid == a + (b - a) \div 2
<1>1. a \in 0..MaxInt /\ b \in 0..MaxInt /\ MaxInt \in Nat /\ b - a > 1
  BY LuaTableAssumption DEF Spans, Span
<1> HIDE DEF a, b
<1>2. (b - a) \div 2 \in Nat /\ (b - a) \div 2 >= 1 /\ (b - a) \div 2 < b - a
  BY <1>1
<1>3. mid \in 0..MaxInt /\ a < mid /\ mid < b
  BY <1>1, <1>2
<1> HIDE DEF mid
<1>4. <<a, mid>> \in Spans /\ <<mid, b>> \in Spans
  BY <1>1, <1>3 DEF Spans
<1>5. mid - a < b - a /\ b - mid < b - a
  BY <1>1, <1>3
<1>6. Span(<<a, mid>>) < b - a /\ Span(<<mid, b>>) < b - a
  BY <1>5 DEF Span
<1> QED  BY <1>3, <1>4, <1>6 DEF a, b, mid, Span

LEMMA HalvedAgrees ==
  ASSUME NEW nils, NEW f, NEW g, NEW p \in Spans,
         \A q \in Spans : Span(q) < Span(p) => f[q] = g[q]
  PROVE  Halved(nils, f, p) = Halved(nils, g, p)
<1> DEFINE mid == p[1] + (p[2] - p[1]) \div 2
<1>1. CASE Span(p) > 1
  <2>1. f[<<p[1], mid>>] = g[<<p[1], mid>>] /\ f[<<mid, p[2]>>] = g[<<mid, p[2]>>]
    BY <1>1, MidIsBetween
  <2> QED  BY <2>1 DEF Halved
<1>2. CASE ~(Span(p) > 1)
  <2>1. p[2] - p[1] <= 1
    BY <1>2, LuaTableAssumption DEF Span, Spans
  <2> QED  BY <2>1 DEF Halved
<1> QED  BY <1>1, <1>2

LEMMA SearchExists ==
  ASSUME NEW nils
  PROVE  \E f : f = [p \in Spans |-> Halved(nils, f, p)]
<1> DEFINE Right(f, n) == \A p \in Spans : Span(p) <= n => f[p] = Halved(nils, f, p)
           I == {n \in Nat : \E f : Right(f, n)}
<1>1. \A p \in Spans : Span(p) \in Int /\ Span(p) <= MaxInt
  BY LuaTableAssumption DEF Spans, Span
<1>2. 0 \in I
  <2> DEFINE f == [p \in Spans |-> p[1]]
  <2>1. ASSUME NEW p \in Spans, Span(p) <= 0  PROVE f[p] = Halved(nils, f, p)
    <3>1. p[2] - p[1] <= 1
      BY <1>1, <2>1 DEF Span
    <3> QED  BY <3>1 DEF Halved
  <2>2. Right(f, 0)
    BY <2>1
  <2> QED  BY <2>2
<1>3. ASSUME NEW n \in Nat, n \in I  PROVE n + 1 \in I
  <2>1. PICK f : Right(f, n)
    BY <1>3
  <2> DEFINE g == [p \in Spans |-> IF Span(p) <= n THEN f[p] ELSE Halved(nils, f, p)]
  <2>2. \A q \in Spans : Span(q) <= n => f[q] = g[q]
    OBVIOUS
  <2>3. ASSUME NEW p \in Spans, Span(p) <= n + 1  PROVE g[p] = Halved(nils, g, p)
    <3>1. g[p] = Halved(nils, f, p)
      BY <2>1
    <3>2. \A q \in Spans : Span(q) < Span(p) => f[q] = g[q]
      <4>1. \A q \in Spans : Span(q) < Span(p) => Span(q) <= n
        BY <1>1, <2>3
      <4> HIDE DEF g
      <4> QED  BY <2>2, <4>1
    <3> HIDE DEF g
    <3>3. Halved(nils, f, p) = Halved(nils, g, p)
      BY <3>2, HalvedAgrees
    <3> QED  BY <3>1, <3>3
  <2>4. Right(g, n + 1)
    <3> HIDE DEF g
    <3> QED  BY <2>3
  <2> HIDE DEF g, Right
  <2> QED  BY <2>4
<1>4. Nat \subseteq I
  <2> HIDE DEF I
  <2> QED  BY <1>2, <1>3, SetInduction
<1>5. PICK f : Right(f, MaxInt)
  BY <1>4, LuaTableAssumption
<1> DEFINE g == [p \in Spans |-> f[p]]
<1>6. ASSUME NEW p \in Spans  PROVE g[p] = Halved(nils, g, p)
  <2>1. f[p] = Halved(nils, f, p)
    BY <1>1, <1>5
  <2>2. \A q \in Spans : Span(q) < Span(p) => f[q] = g[q]
    OBVIOUS
  <2>3. g[p] = f[p]
    OBVIOUS
  <2> HIDE DEF g
  <2>4. Halved(nils, f, p) = Halved(nils, g, p)
    BY <2>2, HalvedAgrees
  <2> QED  BY <2>1, <2>3, <2>4
<1>7. g = [p \in Spans |-> g[p]]
  OBVIOUS
<1> HIDE DEF g
<1>8. g = [p \in Spans |-> Halved(nils, g, p)]
  <2>1. [p \in Spans |-> g[p]] = [p \in Spans |-> Halved(nils, g, p)]
    BY <1>6
  <2> QED  BY <1>7, <2>1
<1> QED  BY <1>8

LEMMA SearchIs ==
  ASSUME NEW nils
  PROVE  \E f : /\ \A p \in Spans : f[p] = Halved(nils, f, p)
                /\ \A lo, hi : BorderIn(lo, hi, nils) = f[<<lo, hi>>]
<1> DEFINE f == CHOOSE f : f = [p \in Spans |-> Halved(nils, f, p)]
<1>1. f = [p \in Spans |-> Halved(nils, f, p)]
  BY SearchExists
<1>2. \A lo, hi : BorderIn(lo, hi, nils) = f[<<lo, hi>>]
  BY DEF BorderIn, Spans, Halved
<1> HIDE DEF f
<1>3. \A p \in Spans : f[p] = Halved(nils, f, p)
  BY <1>1
<1> QED  BY <1>2, <1>3

\* Between an end that is zero or a key, and one that is none, the search ends at
\* a border.
LEMMA SearchFindsBorder ==
  ASSUME NEW nils, NEW lo \in 0..MaxInt, NEW hi \in 0..MaxInt, lo < hi, hi \in nils
  PROVE  LET b == BorderIn(lo, hi, nils)
         IN  /\ b \in lo..(hi - 1) /\ (b = lo \/ b \notin nils) /\ b + 1 \in nils
<1> DEFINE Border(b, p) == /\ b \in p[1]..(p[2] - 1) /\ (b = p[1] \/ b \notin nils)
                           /\ b + 1 \in nils
           Fit(p) == p \in Spans /\ p[1] < p[2] /\ p[2] \in nils
<1>1. PICK f : /\ \A p \in Spans : f[p] = Halved(nils, f, p)
               /\ \A a, b : BorderIn(a, b, nils) = f[<<a, b>>]
  BY SearchIs
<1> DEFINE I == {n \in Nat : \A p \in Spans : Fit(p) /\ Span(p) <= n => Border(f[p], p)}
<1>2. \A p \in Spans : /\ p[1] \in 0..MaxInt /\ p[2] \in 0..MaxInt /\ MaxInt \in Nat
                       /\ Span(p) = p[2] - p[1] /\ Span(p) \in Int
  BY LuaTableAssumption DEF Spans, Span
<1>3. 0 \in I
  BY <1>2
<1>4. ASSUME NEW n \in Nat, n \in I  PROVE n + 1 \in I
  <2>1. SUFFICES ASSUME NEW p \in Spans, Fit(p), Span(p) <= n + 1
                 PROVE  Border(f[p], p)
    OBVIOUS
  <2>2. f[p] = Halved(nils, f, p)
    BY <1>1
  <2>3. \A q \in Spans : Fit(q) /\ Span(q) <= n => Border(f[q], q)
    BY <1>4
  <2>4. CASE Span(p) <= 1
    <3>1. f[p] = p[1]
      BY <1>2, <2>2, <2>4 DEF Halved
    <3>2. p[1] + 1 = p[2]
      BY <1>2, <2>1, <2>4
    <3> QED  BY <1>2, <2>1, <3>1, <3>2
  <2>5. CASE Span(p) > 1
    <3> DEFINE mid == p[1] + (p[2] - p[1]) \div 2
    <3>1. /\ mid \in 0..MaxInt /\ p[1] < mid /\ mid < p[2]
          /\ <<p[1], mid>> \in Spans /\ Span(<<p[1], mid>>) < Span(p)
          /\ <<mid, p[2]>> \in Spans /\ Span(<<mid, p[2]>>) < Span(p)
      BY <2>5, MidIsBetween
    <3>2. f[p] = IF mid \in nils THEN f[<<p[1], mid>>] ELSE f[<<mid, p[2]>>]
      <4>1. ~(p[2] - p[1] <= 1)
        BY <1>2, <2>5
      <4> QED  BY <2>2, <4>1 DEF Halved
    <3> HIDE DEF mid
    <3>3. CASE mid \in nils
      <4> DEFINE q == <<p[1], mid>>
      <4>1. q \in Spans /\ q[1] = p[1] /\ q[2] = mid /\ Span(q) <= n /\ f[p] = f[q]
        BY <1>2, <2>1, <3>1, <3>2, <3>3
      <4> HIDE DEF q
      <4>2. Border(f[q], q)
        BY <2>3, <3>1, <3>3, <4>1
      <4> QED  BY <1>2, <3>1, <4>1, <4>2
    <3>4. CASE mid \notin nils
      <4> DEFINE q == <<mid, p[2]>>
      <4>1. q \in Spans /\ q[1] = mid /\ q[2] = p[2] /\ Span(q) <= n /\ f[p] = f[q]
        BY <1>2, <2>1, <3>1, <3>2, <3>4
      <4> HIDE DEF q
      <4>2. Border(f[q], q)
        BY <2>1, <2>3, <3>1, <3>4, <4>1
      <4>3. f[p] \in p[1]..(p[2] - 1) /\ f[p] + 1 \in nils /\ f[p] \notin nils
        BY <1>2, <3>1, <3>4, <4>1, <4>2
      <4> QED  BY <4>3
    <3> QED  BY <3>3, <3>4
  <2> QED  BY <1>2, <2>4, <2>5
<1>5. Nat \subseteq I
  <2> HIDE DEF I
  <2> QED  BY <1>3, <1>4, SetInduction
<1> DEFINE p == <<lo, hi>>
<1>6. p \in Spans /\ p[1] = lo /\ p[2] = hi /\ BorderIn(lo, hi, nils) = f[p]
  BY <1>1 DEF Spans
<1> HIDE DEF p
<1>7. Fit(p) /\ Span(p) <= MaxInt /\ MaxInt \in Nat
  BY <1>2, <1>6
<1>8. Border(f[p], p)
  BY <1>5, <1>6, <1>7
<1> QED  BY <1>6, <1>8

\* One step of the doubling.
Twice(f, n) ==
  IF field[n] = Nil THEN n
  ELSE IF n = MaxInt THEN 0
  ELSE IF 2 * n <= MaxInt THEN f[2 * n] ELSE f[MaxInt]

LEMMA TwiceAgrees ==
  ASSUME NEW f, NEW g, NEW n \in Ints, \A m \in Ints : m > n => f[m] = g[m]
  PROVE  Twice(f, n) = Twice(g, n)
<1>1. n \in Nat /\ n >= 1 /\ n <= MaxInt /\ MaxInt \in Nat
  BY LuaTableAssumption DEF Ints
<1>2. n # MaxInt => MaxInt \in Ints /\ MaxInt > n
  BY <1>1 DEF Ints
<1>3. 2 * n <= MaxInt => 2 * n \in Ints /\ 2 * n > n
  BY <1>1 DEF Ints
<1> QED  BY <1>2, <1>3 DEF Twice

LEMMA DoublingExists == \E f : f = [n \in Ints |-> Twice(f, n)]
<1> DEFINE Right(f, d) == \A n \in Ints : MaxInt - n <= d => f[n] = Twice(f, n)
           I == {d \in Nat : \E f : Right(f, d)}
<1>1. MaxInt \in Nat /\ \A n \in Ints : n \in Nat /\ n >= 1 /\ n <= MaxInt /\ MaxInt - n \in Nat
  BY LuaTableAssumption DEF Ints
<1>2. 0 \in I
  <2> DEFINE f == [n \in Ints |-> IF field[n] = Nil THEN n ELSE 0]
  <2>1. ASSUME NEW n \in Ints, MaxInt - n <= 0  PROVE f[n] = Twice(f, n)
    <3>1. n = MaxInt
      BY <1>1, <2>1
    <3> QED  BY <3>1 DEF Twice
  <2>2. Right(f, 0)
    BY <2>1
  <2> QED  BY <2>2
<1>3. ASSUME NEW d \in Nat, d \in I  PROVE d + 1 \in I
  <2>1. PICK f : Right(f, d)
    BY <1>3
  <2> DEFINE g == [n \in Ints |-> IF MaxInt - n <= d THEN f[n] ELSE Twice(f, n)]
  <2>2. \A m \in Ints : MaxInt - m <= d => f[m] = g[m]
    OBVIOUS
  <2>3. ASSUME NEW n \in Ints, MaxInt - n <= d + 1  PROVE g[n] = Twice(g, n)
    <3>1. g[n] = Twice(f, n)
      BY <2>1
    <3>2. \A m \in Ints : m > n => f[m] = g[m]
      <4>1. \A m \in Ints : m > n => MaxInt - m <= d
        BY <1>1, <2>3
      <4> HIDE DEF g
      <4> QED  BY <2>2, <4>1
    <3> HIDE DEF g
    <3>3. Twice(f, n) = Twice(g, n)
      BY <3>2, TwiceAgrees
    <3> QED  BY <3>1, <3>3
  <2>4. Right(g, d + 1)
    <3> HIDE DEF g
    <3> QED  BY <2>3
  <2> HIDE DEF g, Right
  <2> QED  BY <2>4
<1>4. Nat \subseteq I
  <2> HIDE DEF I
  <2> QED  BY <1>2, <1>3, SetInduction
<1>5. PICK f : Right(f, MaxInt)
  BY <1>1, <1>4
<1> DEFINE g == [n \in Ints |-> f[n]]
<1>6. ASSUME NEW n \in Ints  PROVE g[n] = Twice(g, n)
  <2>1. f[n] = Twice(f, n)
    BY <1>1, <1>5
  <2>2. \A m \in Ints : m > n => f[m] = g[m]
    OBVIOUS
  <2>3. g[n] = f[n]
    OBVIOUS
  <2> HIDE DEF g
  <2>4. Twice(f, n) = Twice(g, n)
    BY <2>2, TwiceAgrees
  <2> QED  BY <2>1, <2>3, <2>4
<1>7. g = [n \in Ints |-> g[n]]
  OBVIOUS
<1> HIDE DEF g
<1>8. g = [n \in Ints |-> Twice(g, n)]
  <2>1. [n \in Ints |-> g[n]] = [n \in Ints |-> Twice(g, n)]
    BY <1>6
  <2> QED  BY <1>7, <2>1
<1> QED  BY <1>8

\* The doubling ends at an integer that is no key, or finds the largest to be one.
LEMMA DoublingEnds ==
  ASSUME NEW from \in Ints
  PROVE  \/ Doubled(from) = 0 /\ field[MaxInt] # Nil
         \/ Doubled(from) \in from..MaxInt /\ field[Doubled(from)] = Nil
<1> DEFINE f == CHOOSE f : f = [n \in Ints |-> Twice(f, n)]
           Ends(n) == \/ f[n] = 0 /\ field[MaxInt] # Nil
                      \/ f[n] \in n..MaxInt /\ field[f[n]] = Nil
           I == {d \in Nat : \A n \in Ints : MaxInt - n <= d => Ends(n)}
<1>1. f = [n \in Ints |-> Twice(f, n)]
  BY DoublingExists
<1>2. Doubled(from) = f[from]
  BY DEF Doubled, Twice
<1> HIDE DEF f
<1>3. \A n \in Ints : f[n] = Twice(f, n)
  BY <1>1
<1>4. MaxInt \in Nat /\ \A n \in Ints : n \in Nat /\ n >= 1 /\ n <= MaxInt /\ MaxInt - n \in Nat
  BY LuaTableAssumption DEF Ints
<1>5. 0 \in I
  <2>1. SUFFICES ASSUME NEW n \in Ints, MaxInt - n <= 0  PROVE Ends(n)
    OBVIOUS
  <2>2. n = MaxInt
    BY <1>4, <2>1
  <2>3. f[n] = IF field[n] = Nil THEN n ELSE 0
    BY <1>3, <2>2 DEF Twice
  <2> QED  BY <1>4, <2>2, <2>3
<1>6. ASSUME NEW d \in Nat, d \in I  PROVE d + 1 \in I
  <2>1. SUFFICES ASSUME NEW n \in Ints, MaxInt - n <= d + 1  PROVE Ends(n)
    OBVIOUS
  <2>2. f[n] = Twice(f, n)
    BY <1>3
  <2>3. CASE field[n] = Nil
    BY <1>4, <2>2, <2>3 DEF Twice
  <2>4. CASE field[n] # Nil /\ n = MaxInt
    BY <2>2, <2>4 DEF Twice
  <2>5. CASE field[n] # Nil /\ n # MaxInt
    <3> DEFINE m == IF 2 * n <= MaxInt THEN 2 * n ELSE MaxInt
    <3>1. f[n] = f[m]
      BY <2>2, <2>5 DEF Twice
    <3>2. m \in Ints /\ m > n /\ MaxInt - m <= d
      BY <1>4, <2>1, <2>5 DEF Ints
    <3> HIDE DEF m
    <3>3. Ends(m)
      BY <1>6, <3>2
    <3> QED  BY <1>4, <3>1, <3>2, <3>3
  <2> QED  BY <2>3, <2>4, <2>5
<1>7. Nat \subseteq I
  <2> HIDE DEF I
  <2> QED  BY <1>5, <1>6, SetInduction
<1>8. Ends(from)
  BY <1>4, <1>7
<1> QED  BY <1>2, <1>8

LEMMA LengthFindsBorder ==
  ASSUME Safe
  PROVE  LengthIsBorder
<1>1. /\ Size \in Nat /\ Size < MaxInt /\ MaxInt \in Nat
      /\ DOMAIN array = 1..Size /\ 1..Size \subseteq Ints /\ Ints \subseteq Key
  BY Sizes, CanonicalKeys DEF Safe
<1>2. \A k \in Ints : Get(k) = IF k \in 1..Size THEN array[k] ELSE field[k]
  BY <1>1, Reads DEF Safe
<1>3. CASE Size > 0 /\ array[Size] = Nil
  <2> DEFINE nils == {i \in DOMAIN array : array[i] = Nil}
             b == BorderIn(0, Size, nils)
  <2>1. 0 \in 0..MaxInt /\ Size \in 0..MaxInt /\ 0 < Size /\ Size \in nils
    BY <1>1, <1>3
  <2>2. Length = b
    BY <1>3 DEF Length
  <2>3. b \in 0..(Size - 1) /\ (b = 0 \/ b \notin nils) /\ b + 1 \in nils
    BY <2>1, SearchFindsBorder
  <2> HIDE DEF b
  <2>4. b \in 1..Size => b \in Ints /\ Get(b) = array[b]
    BY <1>1, <1>2
  <2>5. b + 1 \in 1..Size /\ b + 1 \in Ints /\ Get(b + 1) = Nil
    BY <1>1, <1>2, <2>3
  <2>6. b = 0 \/ Get(b) # Nil
    BY <1>1, <2>3, <2>4
  <2> QED  BY <2>2, <2>5, <2>6 DEF LengthIsBorder
<1>4. CASE ~(Size > 0 /\ array[Size] = Nil) /\ order = <<>>
  <2>1. Length = Size
    BY <1>4 DEF Length
  <2>2. Size + 1 \in Ints /\ Size + 1 \notin 1..Size
    BY <1>1 DEF Ints
  <2>3. field[Size + 1] = Nil
    <3>1. DOMAIN order = {}
      BY <1>4
    <3>2. {k \in Key : field[k] # Nil} = {}
      BY <3>1 DEF Safe, OnePlace, Hashed
    <3> QED  BY <1>1, <2>2, <3>2
  <2>4. Get(Size + 1) = Nil
    BY <1>2, <2>2, <2>3
  <2>5. Size = 0 \/ Get(Size) # Nil
    BY <1>1, <1>2, <1>4
  <2> QED  BY <2>1, <2>4, <2>5 DEF LengthIsBorder
<1>5. CASE ~(Size > 0 /\ array[Size] = Nil) /\ order # <<>>
  <2> DEFINE top == Doubled(Size + 1)
             nils == {i \in Ints : field[i] = Nil}
             b == BorderIn(Size, top, nils)
  <2>1. Size + 1 \in Ints
    BY <1>1 DEF Ints
  <2>2. \/ top = 0 /\ field[MaxInt] # Nil
        \/ top \in (Size + 1)..MaxInt /\ field[top] = Nil
    BY <2>1, DoublingEnds
  <2>3. Length = IF top = 0 THEN MaxInt ELSE b
    BY <1>5 DEF Length
  <2> HIDE DEF top
  <2>4. CASE top = 0 /\ field[MaxInt] # Nil
    <3>1. MaxInt \in Ints /\ MaxInt \notin 1..Size
      BY <1>1 DEF Ints
    <3>2. Get(MaxInt) # Nil
      BY <1>2, <2>4, <3>1
    <3> QED  BY <2>3, <2>4, <3>2 DEF LengthIsBorder
  <2>5. CASE top \in (Size + 1)..MaxInt /\ field[top] = Nil
    <3>1. Size \in 0..MaxInt /\ top \in 0..MaxInt /\ Size < top /\ top \in nils /\ top # 0
      BY <1>1, <2>5 DEF Ints
    <3>2. b \in Size..(top - 1) /\ (b = Size \/ b \notin nils) /\ b + 1 \in nils
      BY <3>1, SearchFindsBorder
    <3>3. Length = b
      BY <2>3, <3>1
    <3> HIDE DEF b
    <3>4. b + 1 \in Ints /\ b + 1 \notin 1..Size /\ field[b + 1] = Nil
      BY <1>1, <2>5, <3>2
    <3>5. Get(b + 1) = Nil
      BY <1>2, <3>4
    <3>6. CASE b = Size
      <4>1. Size = 0 \/ (Size \in 1..Size /\ Size \in Ints /\ array[Size] # Nil)
        BY <1>1, <1>5
      <4> QED  BY <1>2, <3>3, <3>5, <3>6, <4>1 DEF LengthIsBorder
    <3>7. CASE b # Size
      <4>1. b \in Ints /\ b \notin 1..Size /\ field[b] # Nil
        BY <1>1, <2>5, <3>2, <3>7 DEF Ints
      <4>2. Get(b) # Nil
        BY <1>2, <4>1
      <4> QED  BY <3>3, <3>5, <4>2 DEF LengthIsBorder
    <3> QED  BY <3>6, <3>7
  <2> QED  BY <2>2, <2>4, <2>5
<1> QED  BY <1>3, <1>4, <1>5

\* "will always return a table border": the length is zero or a key with a value,
\* and the integer after it has none, up to the largest integer there is.
THEOREM LengthIsAlwaysBorder == Spec => []LengthIsBorder
<1>1. Safe => LengthIsBorder
  BY LengthFindsBorder
<1> QED  BY <1>1, TableIsSafe, PTL
=============================================================================
