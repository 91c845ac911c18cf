------------------------------- MODULE LuaTable --------------------------------
(***************************************************************************)
(* The tables of piccolo (src/table/raw.rs, src/table/table.rs): an array  *)
(* part for the keys 1..n, a hash part for the others, and a script that   *)
(* assigns while it traverses the table with next.                         *)
(*                                                                         *)
(* Keys are integers up to MaxInt, floats, and Others, which compare only  *)
(* by identity.   The hash part is a field per key and the order of the     *)
(* keys in its buckets.  Where a key goes, and what the order is once the  *)
(* buckets are rebuilt, is up to the hash: any place, any order.           *)
(* hashbrown and Vec are known by what raw.rs asks of them: room, the free *)
(* buckets left before it must grow; worn, the emptied ones it may reuse;  *)
(* spare, the reserved capacity of the array.                              *)
(***************************************************************************)
EXTENDS Integers, Sequences, FiniteSets, Functions

CONSTANTS
  MaxInt,      \* i64::MAX
  Others,      \* keys that are neither floats nor positive integers
  Floats,      \* keys that are floats
  IntOf(_),    \* the integer a float is equal to, or Nil
  NaN,         \* the float that is no key
  Value, Nil, BadKey,
  FirstArray,  \* the least capacity Vec allocates
  Buckets,     \* how many keys a hash part of each size holds, up to a bound
  MaxCalls,    \* bound: how many assignments
  MaxSeen      \* bound: how many steps a traversal takes

Ints == 1..MaxInt
Given == Ints \cup Others \cup Floats \cup {NaN, Nil}

\* canonical_key, and the keys it returns.
Canonical(k) == IF k \in Floats /\ IntOf(k) # Nil THEN IntOf(k) ELSE k
Key == Ints \cup Others \cup {f \in Floats : IntOf(f) = Nil}
IsKey(k) == k \notin {Nil, NaN}

ASSUME LuaTableAssumption ==
  /\ MaxInt \in Nat \ {0} /\ FirstArray \in Nat \ {0} /\ MaxSeen \in Nat
  /\ MaxCalls \in Nat
  /\ \A f \in Floats : IntOf(f) \in Ints \cup {Nil}
  /\ Nil \notin Ints \cup Others \cup Floats \cup Value /\ NaN \notin Ints \cup Others \cup Floats
  /\ NaN # Nil /\ BadKey \notin Value \cup {Nil}
  /\ Ints \cap Others = {} /\ Ints \cap Floats = {} /\ Others \cap Floats = {}
  /\ Buckets \in (SUBSET Nat) \ {{}}

VARIABLES
  array,     \* the array part, a value or Nil for each of 1..n
  spare,
  field,     \* the hash part: the value of each of its keys, Nil for no key
  order,     \* its keys in the order of their buckets
  room, worn,
  answer,    \* what the last assignment returned
  calls,     \* how many there were
  at,        \* the key a traversal has reached: Nil at the start
  going,     \* a traversal is under way
  seen,      \* what it has returned
  ended,     \* how it ended: "none", "last", "error"
  altered,   \* history: a key came or went since the last one began
  rebuilt    \* history: the buckets were rebuilt since the last one began

hash == <<field, order, room, worn>>
walk == <<at, going, seen, ended>>
flags == <<altered, rebuilt>>
vars == <<array, spare, hash, answer, calls, walk, flags>>

Size == Len(array)

\* to_array_index, counted from one; zero where there is none.
Index(k) == LET c == Canonical(k) IN IF c \in Ints THEN c ELSE 0
InArray(k) == Index(k) \in 1..Size

\* RawTable::get.
Get(k) ==
  IF InArray(k) THEN array[Index(k)]
  ELSE IF IsKey(k) THEN field[Canonical(k)] ELSE Nil

Content == [k \in Key |-> Get(k)]

-----------------------------------------------------------------------------
(* RawTable::set.                                                          *)

\* Orders that rebuilt buckets may have, for the keys S.
Orders(S) == Bijection(1..Cardinality(S), S)

Hashed == {order[i] : i \in DOMAIN order}

InsertedAt(s, i, k) == SubSeq(s, 1, i - 1) \o <<k>> \o SubSeq(s, i, Len(s))
\* Mutant: an emptied bucket keeps its key.
WithKeys(S) == {order}

\* The order without the keys of S: the others stay where they are.
Without(S) ==
  {s \in Orders(Hashed \ S) :
     \A i, j \in DOMAIN s, m, n \in DOMAIN order :
       i < j /\ s[i] = order[m] /\ s[j] = order[n] => m < n}

LeastIn(S) == CHOOSE n \in S : \A m \in S : n <= m
GreatestIn(S) == CHOOSE n \in S : \A m \in S : m <= n

\* The size of the array "such that at least half of the elements in the array
\* would be in use": a power of two, with the key that is being assigned.
Candidates(k) ==
  {<<"array", i>> : i \in {j \in DOMAIN array : array[j] # Nil}}
    \cup {<<"hash", i>> : i \in Hashed \cap Ints}
    \cup {<<"new", i>> : i \in {Index(k)} \ {0}}

BelowPower(C, n) == {c \in C : c[2] <= n}

\* No key is larger than MaxInt: none makes a size beyond twice of it a better one.
Powers == {n \in 1..(2 * MaxInt) : \E i \in 0..MaxInt : n = 2^i}

OptimalSize(k) ==
  LET C == Candidates(k)
      Good(n) == /\ n \div 2 < Cardinality(C)
                 /\ BelowPower(C, n \div 2) # BelowPower(C, n)
                 /\ Cardinality(BelowPower(C, n)) > n \div 2
      sizes == {n \in Powers : Good(n)}
  IN  IF sizes = {} THEN 0 ELSE GreatestIn(sizes)

\* Vec::reserve, after which the code uses all of the capacity.  No memory holds
\* an array of i64::MAX values.
Grown(size) ==
  IF size <= Size + spare THEN Size + spare
  ELSE GreatestIn({2 * (Size + spare), size, FirstArray})

Altered(changes) == altered' = (altered \/ changes)
Rebuilt(changes) == rebuilt' = (rebuilt \/ changes)

AssignArray(k, v) ==
  /\ IsKey(k) /\ InArray(k)
  /\ array' = [array EXCEPT ![Index(k)] = v]
  /\ answer' = array[Index(k)]
  /\ Altered((v = Nil) # (array[Index(k)] = Nil))
  /\ UNCHANGED <<spare, hash, walk, rebuilt>>

RefuseKey(k) ==
  /\ ~IsKey(k)
  /\ answer' = BadKey
  /\ UNCHANGED <<array, spare, hash, walk, flags>>

AssignNil(k) ==
  LET c == Canonical(k)
  IN  /\ IsKey(k) /\ ~InArray(k)
      /\ answer' = field[c]
      /\ \/ field[c] = Nil /\ UNCHANGED hash
         \/ /\ field[c] # Nil
            /\ field' = [field EXCEPT ![c] = Nil] /\ order' \in Without({c})
            /\ \/ room' = room + 1 /\ UNCHANGED worn
               \/ worn' = worn + 1 /\ UNCHANGED room
      /\ Altered(field[c] # Nil)
      /\ UNCHANGED <<array, spare, walk, rebuilt>>

\* What hashbrown has free after reserving room for extra keys beside held ones;
\* nothing where no size of Buckets is enough.
RoomAfter(held, total, extra) ==
  IF held + extra <= total \div 2 THEN {total - held}
  ELSE LET enough == {b \in Buckets : b >= held + extra /\ b > total}
       IN  IF enough = {} THEN {} ELSE {LeastIn(enough) - held}

\* A field that is there is replaced, one that is not goes into some bucket.
\* rest is the order the buckets are in, free and used how many are left: without
\* a free one they are rebuilt, unless a used one comes first.
Placed(c, rest, free, used) ==
  \/ field[c] # Nil /\ order' = rest /\ room' = free /\ worn' = used
  \/ /\ field[c] = Nil
     /\ \E i \in 1..(Len(rest) + 1) : order' = InsertedAt(rest, i, c)
     /\ \/ free > 0 /\ room' = free - 1 /\ worn' = used
        \/ used > 0 /\ worn' = used - 1 /\ room' = free
  \/ /\ field[c] = Nil /\ free = 0
     /\ order' \in Orders({rest[i] : i \in DOMAIN rest} \cup {c})
     /\ worn' = 0
     /\ room' \in {n - 1 : n \in RoomAfter(Len(rest), Len(rest) + used, 1)}

Put(c, v, rest, free, used) ==
  /\ field' = [field EXCEPT ![c] = v]
  /\ answer' = field[c]
  /\ Placed(c, rest, free, used)

AssignHash(k, v) ==
  /\ IsKey(k) /\ ~InArray(k) /\ v # Nil /\ room > 0
  /\ Put(Canonical(k), v, order, room, worn)
  /\ Altered(field[Canonical(k)] = Nil)
  /\ UNCHANGED <<array, spare, walk, rebuilt>>

\* The buckets are full, and the array would be more than half used if it were
\* larger: it takes what belongs into it out of the hash part.
Taken(size) == {i \in Hashed \cap Ints : i <= size}

\* Mutant: what the array takes is not put there.
LargerArrayEmpty(size) ==
  [i \in 1..size |-> IF i <= Size THEN array[i] ELSE Nil]

LargerArray(size) ==
  [i \in 1..size |-> IF i <= Size THEN array[i]
                     ELSE IF i \in Taken(size) THEN field[i] ELSE Nil]

\* As Put, when the keys of taken have gone to the array.
PutBeside(c, v, rest, free, used, taken) ==
  /\ field' = [x \in Key |-> IF x = c THEN v ELSE IF x \in taken THEN Nil ELSE field[x]]
  /\ Placed(c, rest, free, used)

GrowArray(k, v) ==
  LET size == Grown(OptimalSize(k))
      c == Canonical(k)
  IN  /\ IsKey(k) /\ ~InArray(k) /\ v # Nil /\ room = 0
      /\ OptimalSize(k) > Size /\ size < MaxInt
      /\ spare' = 0
      /\ answer' = field[c]
      /\ Altered(field[c] = Nil) /\ Rebuilt(TRUE)
      /\ \E free \in 0..Cardinality(Taken(size)), kept \in Without(Taken(size)) :
           LET used == worn + Cardinality(Taken(size)) - free
           IN  IF c \in 1..size
               THEN /\ array' = [LargerArray(size) EXCEPT ![c] = v]
                    /\ field' = [x \in Key |-> IF x \in Taken(size) THEN Nil ELSE field[x]]
                    /\ order' = kept /\ room' = free /\ worn' = used
               ELSE /\ array' = LargerArray(size)
                    /\ PutBeside(c, v, kept, free, used, Taken(size))
      /\ UNCHANGED walk

\* They are full, and the array is right as it is: the hash part doubles.
GrowHash(k, v) ==
  LET held == Len(order)
      c == Canonical(k)
  IN  /\ IsKey(k) /\ ~InArray(k) /\ v # Nil /\ room = 0
      /\ OptimalSize(k) <= Size
      /\ IF held = 0 THEN Put(c, v, order, room, worn)
         ELSE \E s \in Orders(Hashed), n \in RoomAfter(held, held + worn, held) :
                Put(c, v, s, n, 0)
      /\ Altered(field[c] = Nil) /\ Rebuilt(TRUE)
      /\ UNCHANGED <<array, spare, walk>>

Held == {k \in Key : Get(k) # Nil}

Assign(k, v) ==
  /\ calls < MaxCalls /\ calls' = calls + 1
  /\ \/ AssignArray(k, v) \/ RefuseKey(k)
     \/ v = Nil /\ AssignNil(k)
     \/ AssignHash(k, v) \/ GrowArray(k, v) \/ GrowHash(k, v)

-----------------------------------------------------------------------------
(* RawTable::next, and a script that walks over a table with it.           *)

Found(k) == [found |-> TRUE, key |-> k]
Last == [found |-> FALSE, key |-> Nil]
NotFound == [found |-> FALSE, key |-> BadKey]

FirstHashed(from) == IF from > Len(order) THEN Last ELSE Found(order[from])

InArrayAfter(i) == {j \in DOMAIN array : j > i /\ array[j] # Nil}

\* Mutant: the search goes on one bucket too late.
NextKeySkips(k) ==
  LET after == InArrayAfter(Index(k))
      At(n) == order[n] = Canonical(k)
  IN  IF k = Nil \/ InArray(k)
      THEN IF after # {} THEN Found(LeastIn(after)) ELSE FirstHashed(1)
      ELSE IF Canonical(k) \in Hashed THEN FirstHashed((CHOOSE n \in DOMAIN order : At(n)) + 2)
      ELSE NotFound

NextKey(k) ==
  LET i == Index(k)
      after == InArrayAfter(i)
      c == Canonical(k)
  IN  IF k = Nil \/ InArray(k)
      THEN IF after # {} THEN Found(LeastIn(after))
           ELSE IF k # Nil /\ array[i] = Nil THEN NotFound
           ELSE FirstHashed(1)
      ELSE IF c \in Hashed
      THEN FirstHashed((CHOOSE n \in DOMAIN order : order[n] = c) + 1)
      ELSE NotFound

StartWalk ==
  /\ ~going
  /\ going' = TRUE /\ at' = Nil /\ seen' = <<>> /\ ended' = "none"
  /\ altered' = FALSE /\ rebuilt' = FALSE
  /\ UNCHANGED <<array, spare, hash, answer, calls>>

StepWalk ==
  /\ going /\ Len(seen) < MaxSeen
  /\ LET n == NextKey(at)
     IN  IF n.found
         THEN /\ at' = n.key /\ seen' = Append(seen, n.key)
              /\ UNCHANGED <<going, ended>>
         ELSE /\ going' = FALSE
              /\ ended' = IF n = Last THEN "last" ELSE "error"
              /\ UNCHANGED <<at, seen>>
  /\ UNCHANGED <<array, spare, hash, answer, calls, flags>>

-----------------------------------------------------------------------------
(* RawTable::length: a binary search for a border.                         *)

\* Between lo, which is zero or a key of the table, and hi, which is none.
BorderIn(lo, hi, nils) ==
  LET search[p \in (0..MaxInt) \X (0..MaxInt)] ==
        LET mid == p[1] + (p[2] - p[1]) \div 2
        IN  IF p[2] - p[1] <= 1 THEN p[1]
            ELSE IF mid \in nils THEN search[<<p[1], mid>>] ELSE search[<<mid, p[2]>>]
  IN  search[<<lo, hi>>]

\* Mutant: the upper end is doubled once.
DoubledOnce(from) == IF field[from] = Nil THEN from ELSE LeastIn({2 * from, MaxInt})

\* The upper end is doubled until it is no key, or until it is the largest
\* integer and a key: 0 then.
Doubled(from) ==
  LET double[n \in Ints] ==
        IF field[n] = Nil THEN n
        ELSE IF n = MaxInt THEN 0
        ELSE IF 2 * n <= MaxInt THEN double[2 * n] ELSE double[MaxInt]
  IN  double[from]

Length ==
  IF Size > 0 /\ array[Size] = Nil THEN BorderIn(0, Size, {i \in DOMAIN array : array[i] = Nil})
  ELSE IF order = <<>> THEN Size
  ELSE LET top == Doubled(Size + 1)
       IN  IF top = 0 THEN MaxInt ELSE BorderIn(Size, top, {i \in Ints : field[i] = Nil})

-----------------------------------------------------------------------------
\* A new table, or one that NewTable has reserved space for.
Init ==
  /\ array = <<>> /\ spare \in {0, FirstArray}
  /\ field = [k \in Key |-> Nil] /\ order = <<>>
  /\ room \in {0, LeastIn(Buckets)} /\ worn = 0
  /\ answer = Nil /\ calls = 0
  /\ at = Nil /\ going = FALSE /\ seen = <<>> /\ ended = "none"
  /\ altered = FALSE /\ rebuilt = FALSE

Next ==
  \/ \E k \in Given, v \in Value \cup {Nil} : Assign(k, v)
  \/ StartWalk
  \/ StepWalk

Spec == Init /\ [][Next]_vars

-----------------------------------------------------------------------------
TypeOK ==
  /\ array \in Seq(Value \cup {Nil}) /\ spare \in Nat
  /\ field \in [Key -> Value \cup {Nil}]
  /\ order \in Seq(Key) /\ room \in Nat /\ worn \in Nat
  /\ answer \in Value \cup {Nil, BadKey} /\ calls \in Nat
  /\ at \in Key \cup {Nil} /\ going \in BOOLEAN /\ seen \in Seq(Key)
  /\ ended \in {"none", "last", "error"}
  /\ altered \in BOOLEAN /\ rebuilt \in BOOLEAN

\* The buckets hold every key of the hash part once, and none that get would look
\* for in the array.
OnePlace ==
  /\ \A i, j \in DOMAIN order : order[i] = order[j] => i = j
  /\ Hashed = {k \in Key : field[k] # Nil}
  /\ \A k \in Hashed : ~InArray(k)

\* A table is a partial map, whichever part a key is in and however it moves.
AsMap == INSTANCE TableSpec WITH content <- Content
IsMap == AsMap!Spec

\* "will always return a table border" (README.md of piccolo).
LengthIsBorder ==
  /\ Length = 0 \/ Get(Length) # Nil
  /\ Length = MaxInt \/ Get(Length + 1) = Nil

\* A traversal in which no key came or went and no bucket was rebuilt returns
\* every key once and then ends.
Exact ==
  /\ ended = "last"
  /\ \A i, j \in DOMAIN seen : seen[i] = seen[j] => i = j
  /\ {seen[i] : i \in DOMAIN seen} = Held

WalkIsExact == ended # "none" /\ ~altered /\ ~rebuilt => Exact

\* COMPATIBILITY.md of piccolo lists next as implemented, "near 1:1 PUC-Lua
\* behavior", and PUC-Lua lets a traversal assign to the fields there are.
WalkSurvivesUpdates == ended # "none" /\ ~altered => Exact
================================================================================
