------------------------------ MODULE LruCache ------------------------------
(***************************************************************************)
(* hashlink::LruCache as noise.rs and p2p.rs use it.  A cache is a record: *)
(* `map` gives every key its value, or Absent, and `order` holds the keys  *)
(* that have one, from the least to the most recently used.                *)
(*                                                                         *)
(* get, get_mut and insert use a key; contains_key and entry do not.       *)
(* insert removes the least recently used key if the cache is then too     *)
(* large.  entry does that beforehand, and so may remove the very key it   *)
(* is asked for, or leave one key too many.                                *)
(***************************************************************************)
EXTENDS Naturals, Sequences

CONSTANTS
    Capacity,  \* the number of keys insert leaves
    Absent     \* absence of a value

Empty(Keys) == [map |-> [k \in Keys |-> Absent], order |-> <<>>]

Contains(c, k) == c.map[k] # Absent

Occurs(order, k) == \E i \in DOMAIN order : order[i] = k

Place(order, k) == CHOOSE i \in DOMAIN order : order[i] = k

\* No key is in `order` twice.
Without(order, k) ==
    IF Occurs(order, k)
      THEN [i \in 1..(Len(order) - 1) |->
              IF i < Place(order, k) THEN order[i] ELSE order[i + 1]]
      ELSE order

Remove(c, k) == [map |-> [c.map EXCEPT ![k] = Absent],
                 order |-> Without(c.order, k)]

Evicted(c) == IF Len(c.order) > Capacity THEN Remove(c, Head(c.order)) ELSE c

\* Mutant: a key that is used again keeps its old place too.
PutAgain(c, k, v) == [map |-> [c.map EXCEPT ![k] = v],
                      order |-> Append(c.order, k)]

Put(c, k, v) == [map |-> [c.map EXCEPT ![k] = v],
                 order |-> Append(Without(c.order, k), k)]

Used(c, k) == IF Contains(c, k) THEN Put(c, k, c.map[k]) ELSE c

Insert(c, k, v) == Evicted(Put(c, k, v))

EntryOr(c, k, v) ==
    IF Contains(Evicted(c), k) THEN Evicted(c) ELSE Put(Evicted(c), k, v)

Once(order) == \A i, j \in DOMAIN order : order[i] = order[j] => i = j

\* The keys in `order` are those with a value, each once.
Coherent(c) ==
    /\ Once(c.order)
    /\ \A k \in DOMAIN c.map :
         Contains(c, k) <=> Occurs(c.order, k)

CacheOf(c, Keys, Values) ==
    /\ c.map \in [Keys -> Values \cup {Absent}]
    /\ c.order \in Seq(Keys)
    /\ Coherent(c)

-----------------------------------------------------------------------------
(* What the operations preserve *)

\* Without takes out its key and no other.
LEMMA WithoutKey ==
    ASSUME NEW S, NEW order \in Seq(S), Once(order), NEW k \in S
    PROVE  /\ Without(order, k) \in Seq(S)
           /\ Once(Without(order, k))
           /\ \A j \in S :
                Occurs(Without(order, k), j) <=> j # k /\ Occurs(order, j)
           /\ Len(Without(order, k)) =
                IF Occurs(order, k) THEN Len(order) - 1 ELSE Len(order)
<1> DEFINE w == Without(order, k)
<1>1. CASE Occurs(order, k)
  <2>1. Place(order, k) \in 1..Len(order) /\ order[Place(order, k)] = k
    BY <1>1 DEF Occurs, Place
  <2>2. w = [i \in 1..(Len(order) - 1) |->
               IF i < Place(order, k) THEN order[i] ELSE order[i + 1]]
    BY <1>1 DEF Without
  <2>3. w \in Seq(S) /\ Len(w) = Len(order) - 1
    BY <2>1, <2>2
  <2>4. Once(w)
    BY <2>1, <2>2, <2>3 DEF Once
  <2>5. ASSUME NEW i \in DOMAIN w
        PROVE  w[i] # k /\ \E h \in DOMAIN order : order[h] = w[i]
    BY <2>1, <2>2, <2>3 DEF Once
  <2>6. ASSUME NEW h \in DOMAIN order, order[h] # k
        PROVE  \E i \in DOMAIN w : w[i] = order[h]
    <3>1. CASE h < Place(order, k)
      BY <3>1, <2>6, <2>1, <2>2, <2>3
    <3>2. CASE h > Place(order, k)
      <4>1. h - 1 \in DOMAIN w /\ w[h - 1] = order[h]
        BY <3>2, <2>6, <2>1, <2>2, <2>3
      <4> QED BY <4>1
    <3> QED BY <3>1, <3>2, <2>6, <2>1
  <2>7. ASSUME NEW j \in S
        PROVE  Occurs(w, j) <=> j # k /\ Occurs(order, j)
    BY <2>5, <2>6 DEF Occurs
  <2> QED BY <1>1, <2>3, <2>4, <2>7
<1>2. CASE ~Occurs(order, k)
  BY <1>2 DEF Without, Occurs
<1> QED BY <1>1, <1>2

\* A cache without one of its keys is a cache.
LEMMA RemoveKeeps ==
    ASSUME NEW Keys, NEW Values, NEW c, CacheOf(c, Keys, Values), NEW k \in Keys
    PROVE  /\ CacheOf(Remove(c, k), Keys, Values)
           /\ Len(Remove(c, k).order) =
                IF Contains(c, k) THEN Len(c.order) - 1 ELSE Len(c.order)
<1> DEFINE r == Remove(c, k)
           w == Without(c.order, k)
<1>1. r.map = [c.map EXCEPT ![k] = Absent] /\ r.order = w
  BY DEF Remove
<1>2. c.order \in Seq(Keys) /\ Once(c.order)
  BY DEF CacheOf, Coherent
<1>3. /\ w \in Seq(Keys) /\ Once(w)
      /\ \A j \in Keys : Occurs(w, j) <=> j # k /\ Occurs(c.order, j)
      /\ Len(w) = IF Occurs(c.order, k) THEN Len(c.order) - 1 ELSE Len(c.order)
  BY <1>2, WithoutKey
<1> HIDE DEF w, r
<1>4. /\ \A j \in Keys : r.map[j] = IF j = k THEN Absent ELSE c.map[j]
      /\ r.map \in [Keys -> Values \cup {Absent}]
  BY <1>1 DEF CacheOf
<1>5. /\ DOMAIN c.map = Keys /\ DOMAIN r.map = Keys
      /\ \A j \in Keys : Contains(c, j) <=> Occurs(c.order, j)
  BY <1>4 DEF CacheOf, Coherent
<1>6. CacheOf(r, Keys, Values)
  BY <1>1, <1>3, <1>4, <1>5 DEF CacheOf, Coherent, Contains
<1>7. Len(r.order) = IF Contains(c, k) THEN Len(c.order) - 1 ELSE Len(c.order)
  BY <1>1, <1>3, <1>5
<1> QED BY <1>6, <1>7 DEF r

\* A cache in which a key is used is a cache.
LEMMA PutKeeps ==
    ASSUME NEW Keys, NEW Values, NEW c, CacheOf(c, Keys, Values), NEW k \in Keys,
           NEW v \in Values, v # Absent
    PROVE  /\ CacheOf(Put(c, k, v), Keys, Values)
           /\ Len(Put(c, k, v).order) =
                IF Contains(c, k) THEN Len(c.order) ELSE Len(c.order) + 1
<1> DEFINE r == Put(c, k, v)
           w == Without(c.order, k)
<1>1. r.map = [c.map EXCEPT ![k] = v] /\ r.order = Append(w, k)
  BY DEF Put
<1>2. r.map \in [Keys -> Values \cup {Absent}]
  BY <1>1 DEF CacheOf
<1>3. c.order \in Seq(Keys) /\ Once(c.order)
  BY DEF CacheOf, Coherent
<1>4. /\ w \in Seq(Keys) /\ Once(w)
      /\ \A j \in Keys : Occurs(w, j) <=> j # k /\ Occurs(c.order, j)
      /\ Len(w) = IF Occurs(c.order, k) THEN Len(c.order) - 1 ELSE Len(c.order)
  BY <1>3, WithoutKey
<1> HIDE DEF w
<1>5. /\ r.order \in Seq(Keys) /\ Len(r.order) = Len(w) + 1
      /\ DOMAIN r.order = 1..(Len(w) + 1) /\ DOMAIN w = 1..Len(w)
      /\ r.order[Len(w) + 1] = k
      /\ \A i \in DOMAIN w : r.order[i] = w[i]
  BY <1>1, <1>4
<1> HIDE DEF r
<1>6. Once(r.order)
  <2>1. \A i \in DOMAIN w : w[i] # k
    BY <1>4 DEF Occurs
  <2> QED BY <1>4, <1>5, <2>1 DEF Once
<1>7. ASSUME NEW j \in Keys
      PROVE  Occurs(r.order, j) <=> j = k \/ Occurs(c.order, j)
  <2>1. Len(w) \in Nat
    BY <1>4
  <2>2. Occurs(r.order, j) <=> j = k \/ Occurs(w, j)
    BY <1>5, <2>1 DEF Occurs
  <2> QED BY <1>4, <2>2
<1>8. \A j \in Keys : r.map[j] = IF j = k THEN v ELSE c.map[j]
  BY <1>1 DEF CacheOf
<1>9. /\ DOMAIN c.map = Keys /\ DOMAIN r.map = Keys
      /\ \A j \in Keys : Contains(c, j) <=> Occurs(c.order, j)
  BY <1>2 DEF CacheOf, Coherent
<1>10. Coherent(r)
  BY <1>6, <1>7, <1>8, <1>9 DEF Coherent, Contains
<1>11. Len(r.order) = IF Contains(c, k) THEN Len(c.order) ELSE Len(c.order) + 1
  BY <1>3, <1>4, <1>5, <1>9
<1>12. CacheOf(r, Keys, Values)
  BY <1>2, <1>5, <1>10 DEF CacheOf
<1> QED BY <1>11, <1>12 DEF r

\* Eviction leaves a cache that is not too large if it was so by one key.
LEMMA EvictedKeeps ==
    ASSUME NEW Keys, NEW Values, NEW c, CacheOf(c, Keys, Values), Capacity \in Nat
    PROVE  /\ CacheOf(Evicted(c), Keys, Values)
           /\ Len(c.order) <= Capacity + 1 => Len(Evicted(c).order) <= Capacity
<1>1. CASE Len(c.order) > Capacity
  <2>1. Head(c.order) \in Keys /\ Contains(c, Head(c.order))
    <3>1. c.order \in Seq(Keys) /\ Len(c.order) \in Nat
      BY DEF CacheOf
    <3>2. 1 \in DOMAIN c.order /\ Head(c.order) = c.order[1]
      BY <1>1, <3>1
    <3> QED BY <3>1, <3>2 DEF CacheOf, Coherent, Occurs
  <2>2. Len(c.order) \in Nat
    BY DEF CacheOf
  <2> QED BY <1>1, <2>1, <2>2, RemoveKeeps DEF Evicted
<1>2. CASE ~(Len(c.order) > Capacity)
  <2>1. Len(c.order) \in Nat
    BY DEF CacheOf
  <2> QED BY <1>2, <2>1 DEF Evicted
<1> QED BY <1>1, <1>2

\* insert leaves a cache that is not too large.
LEMMA InsertKeeps ==
    ASSUME NEW Keys, NEW Values, NEW c, CacheOf(c, Keys, Values), NEW k \in Keys,
           NEW v \in Values, v # Absent, Capacity \in Nat
    PROVE  /\ CacheOf(Insert(c, k, v), Keys, Values)
           /\ Len(c.order) <= Capacity => Len(Insert(c, k, v).order) <= Capacity
<1> DEFINE p == Put(c, k, v)
<1>1. CacheOf(p, Keys, Values) /\ Len(p.order) \in {Len(c.order), Len(c.order) + 1}
  BY PutKeeps
<1>2. Len(c.order) \in Nat
  BY DEF CacheOf
<1>3. Insert(c, k, v) = Evicted(p)
  BY DEF Insert
<1> HIDE DEF p
<1>4. /\ CacheOf(Evicted(p), Keys, Values)
      /\ Len(p.order) <= Capacity + 1 => Len(Evicted(p).order) <= Capacity
  BY <1>1, EvictedKeeps
<1> QED BY <1>1, <1>2, <1>3, <1>4

\* A use of a key leaves every value where it is.
LEMMA UsedKeeps ==
    ASSUME NEW Keys, NEW Values, NEW c, CacheOf(c, Keys, Values), NEW k \in Keys
    PROVE  /\ CacheOf(Used(c, k), Keys, Values)
           /\ Used(c, k).map = c.map
           /\ Len(Used(c, k).order) = Len(c.order)
<1>1. CASE Contains(c, k)
  <2> DEFINE v == c.map[k]
  <2>1. v \in Values /\ v # Absent /\ [c.map EXCEPT ![k] = v] = c.map
    BY <1>1 DEF Contains, CacheOf
  <2>2. Used(c, k) = Put(c, k, v) /\ Put(c, k, v).map = c.map
    BY <1>1, <2>1 DEF Used, Put
  <2> HIDE DEF v
  <2> QED BY <1>1, <2>1, <2>2, PutKeeps
<1>2. CASE ~Contains(c, k)
  BY <1>2 DEF Used
<1> QED BY <1>1, <1>2

\* The values after a change of one, and after an eviction.
LEMMA PutMap ==
    ASSUME NEW c, NEW k \in DOMAIN c.map, NEW v
    PROVE  /\ DOMAIN Put(c, k, v).map = DOMAIN c.map
           /\ Put(c, k, v).map[k] = v
           /\ \A j \in DOMAIN c.map \ {k} : Put(c, k, v).map[j] = c.map[j]
  BY DEF Put

LEMMA EvictedMap ==
    ASSUME NEW c
    PROVE  /\ DOMAIN Evicted(c).map = DOMAIN c.map
           /\ \A k \in DOMAIN c.map : Evicted(c).map[k] \in {c.map[k], Absent}
  BY DEF Evicted, Remove

\* entry gives its key a value and leaves one key too many at most; what a
\* cache that is not too large holds stays.
LEMMA EntryOrKeeps ==
    ASSUME NEW Keys, NEW Values, NEW c, CacheOf(c, Keys, Values), NEW k \in Keys,
           NEW v \in Values, v # Absent, Capacity \in Nat
    PROVE  LET e == EntryOr(c, k, v) IN
           /\ CacheOf(e, Keys, Values)
           /\ e.map[k] \in {c.map[k], v} /\ e.map[k] # Absent
           /\ \A j \in Keys \ {k} : e.map[j] \in {c.map[j], Absent}
           /\ Len(c.order) <= Capacity =>
                /\ \A j \in Keys : Contains(c, j) => e.map[j] = c.map[j]
                /\ Contains(c, k) => e = c
<1> DEFINE d == Evicted(c)
           e == EntryOr(c, k, v)
<1>1. /\ CacheOf(d, Keys, Values) /\ DOMAIN c.map = Keys /\ DOMAIN d.map = Keys
      /\ \A j \in Keys : d.map[j] \in {c.map[j], Absent}
  <2>1. CacheOf(d, Keys, Values)
    BY EvictedKeeps
  <2> QED BY <2>1, EvictedMap DEF CacheOf
<1>2. Len(c.order) <= Capacity => d = c
  <2>1. Len(c.order) \in Nat
    BY DEF CacheOf
  <2> QED BY <2>1 DEF Evicted
<1>3. e = IF Contains(d, k) THEN d ELSE Put(d, k, v)
  BY DEF EntryOr
<1> HIDE DEF d
<1>4. /\ CacheOf(Put(d, k, v), Keys, Values)
      /\ Put(d, k, v).map[k] = v
      /\ \A j \in Keys \ {k} : Put(d, k, v).map[j] = d.map[j]
  BY <1>1, PutKeeps, PutMap
<1> HIDE DEF e
<1>5. CASE Contains(d, k)
  BY <1>1, <1>2, <1>3, <1>5 DEF Contains, e
<1>6. CASE ~Contains(d, k)
  BY <1>1, <1>2, <1>3, <1>4, <1>6 DEF Contains, e
<1> QED BY <1>5, <1>6

\* insert removes nothing where there is room.
LEMMA InsertWithRoom ==
    ASSUME NEW Keys, NEW Values, NEW c, CacheOf(c, Keys, Values), NEW k \in Keys,
           NEW v \in Values, v # Absent, Capacity \in Nat, ~Contains(c, k),
           Len(c.order) < Capacity
    PROVE  Insert(c, k, v) = Put(c, k, v)
<1>1. Len(c.order) \in Nat
  BY DEF CacheOf
<1>2. ~(Len(Put(c, k, v).order) > Capacity)
  BY <1>1, PutKeeps
<1> QED BY <1>2 DEF Insert, Evicted

=============================================================================
