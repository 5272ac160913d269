-------------------------- MODULE FeatureFlagsProofs ---------------------------
(***************************************************************************)
(* Proofs about FeatureFlags for any workers, flags, sizes of the in-memory *)
(* cache and thresholds of the breaker, and the lemmas about InMemoryCache  *)
(* they rest on: the content of the cache after each of its methods.        *)
(***************************************************************************)
EXTENDS FeatureFlags, FiniteSetTheorems, SequenceTheorems, TLAPS

-----------------------------------------------------------------------------
(* The places of a sequence *)

\* The places of a sequence are counted without gaps: each has a number, and each
\* number up to their count has one place.
LEMMA PlacesAreCounted ==
  ASSUME NEW m \in Nat, NEW places \in SUBSET (1..m)
  PROVE  /\ Cardinality(places) \in 0..m
         /\ \A n \in 1..Cardinality(places) : Place(places, n) \in places
         /\ \A i \in places : \E n \in 1..Cardinality(places) : Place(places, n) = i
         /\ \A n, o \in 1..Cardinality(places) : Place(places, n) = Place(places, o) => n = o
<1> DEFINE card == Cardinality(places)
           UpTo(i) == {j \in places : j <= i}
           number == [i \in places |-> Cardinality(UpTo(i))]
<1>0. \A i \in places : i \in Nat
  OBVIOUS
<1>1. IsFiniteSet(places) /\ card \in Nat /\ card <= m
  <2>1. IsFiniteSet(1..m) /\ Cardinality(1..m) = m
    BY FS_Interval
  <2> QED BY <2>1, FS_Subset, FS_CardinalityType
<1>2. \A i \in places : /\ IsFiniteSet(UpTo(i)) /\ Cardinality(UpTo(i)) \in Nat
                        /\ Cardinality(UpTo(i)) <= card
  <2> SUFFICES ASSUME NEW i \in places
               PROVE  /\ IsFiniteSet(UpTo(i)) /\ Cardinality(UpTo(i)) \in Nat
                      /\ Cardinality(UpTo(i)) <= card
    OBVIOUS
  <2>1. UpTo(i) \in SUBSET places
    OBVIOUS
  <2> HIDE DEF UpTo
  <2> QED BY <1>1, <2>1, FS_Subset, FS_CardinalityType
<1>3. \A i \in places : number[i] \in 1..card
  <2> SUFFICES ASSUME NEW i \in places PROVE Cardinality(UpTo(i)) \in 1..card
    OBVIOUS
  <2>1. UpTo(i) # {}
    OBVIOUS
  <2> HIDE DEF UpTo
  <2>2. Cardinality(UpTo(i)) # 0
    BY <1>2, <2>1, FS_EmptySet
  <2> QED BY <1>1, <1>2, <2>2
<1>4. \A i, j \in places : number[i] = number[j] => i = j
  <2>1. ASSUME NEW i \in places, NEW j \in places, i < j PROVE Cardinality(UpTo(i)) # Cardinality(UpTo(j))
    <3>1. UpTo(i) \in SUBSET UpTo(j) /\ j \in UpTo(j) /\ j \notin UpTo(i)
      <4>1. \A k \in places : k <= i => k <= j
        BY <1>0, <2>1
      <4>2. ~(j <= i) /\ j <= j
        BY <1>0, <2>1
      <4> QED BY <4>1, <4>2
    <3> DEFINE small == UpTo(i)
               large == UpTo(j)
    <3>2. IsFiniteSet(large) /\ small \in SUBSET large /\ small # large
      BY <1>2, <3>1
    <3> HIDE DEF small, large
    <3>3. Cardinality(small) # Cardinality(large)
      BY <3>2, FS_Subset
    <3> QED BY <3>3 DEF small, large
  <2> HIDE DEF UpTo
  <2>2. \A i, j \in places : i < j => number[i] # number[j]
    BY <2>1
  <2> QED BY <1>0, <2>2
<1>5. \A n \in 1..card : \E i \in places : number[i] = n
  <2>1. number \in Injection(places, 1..card)
    BY <1>3, <1>4 DEF Injection, IsInjective
  <2>2. IsFiniteSet(1..card) /\ Cardinality(1..card) = card
    BY <1>1, FS_Interval
  <2> HIDE DEF number
  <2>3. number \in Surjection(places, 1..card)
    BY <2>1, <2>2, FS_Injection
  <2> QED BY <2>3 DEF Surjection
<1>6. \A n \in 1..card : Place(places, n) \in places /\ number[Place(places, n)] = n
  <2> SUFFICES ASSUME NEW n \in 1..card
               PROVE  Place(places, n) \in places /\ Cardinality(UpTo(Place(places, n))) = n
    OBVIOUS
  <2>1. \E i \in places : Cardinality({j \in places : j <= i}) = n
    BY <1>5
  <2> QED BY <2>1 DEF Place
<1> HIDE DEF number, card
<1>7. \A i \in places : Place(places, number[i]) = i
  BY <1>3, <1>4, <1>6
<1> QED BY <1>1, <1>3, <1>6, <1>7 DEF card

-----------------------------------------------------------------------------
(* The content of a cache *)

\* A function on 1..n is a sequence of length n.
LEMMA LenOfCounted ==
  ASSUME NEW S, NEW n \in Nat, NEW f, f = [i \in 1..n |-> f[i]], \A i \in 1..n : f[i] \in S
  PROVE  f \in Seq(S) /\ Len(f) = n
OBVIOUS

Entry == [key : Flags \cup Others, value : Values, life : Lives]
EntriesOf(cache) == {cache[i] : i \in DOMAIN cache}
KeysDiffer(cache) == \A i, j \in DOMAIN cache : cache[i].key = cache[j].key => i = j
Caches == {cache \in Seq(Entry) : KeysDiffer(cache)}
IsCache(cache) == cache \in Caches

\* What is left of a sequence without its first elements.
LEMMA RestOfSeq ==
  ASSUME NEW S, NEW s \in Seq(S), NEW k \in Nat, k <= Len(s)
  PROVE  LET rest == SubSeq(s, k + 1, Len(s))
         IN /\ rest \in Seq(S) /\ Len(rest) = Len(s) - k
            /\ \A i \in 1..(Len(s) - k) : rest[i] = s[k + i]
<1> DEFINE n == Len(s)
<1>1. n \in Nat /\ \A i \in 1..n : s[i] \in S
  OBVIOUS
<1> HIDE DEF n
<1>2. k + 1 \in Int /\ n \in Int /\ \A i \in (k + 1)..n : s[i] \in S
  BY <1>1
<1>3. /\ SubSeq(s, k + 1, n) \in Seq(S)
      /\ Len(SubSeq(s, k + 1, n)) = IF k + 1 <= n THEN n - (k + 1) + 1 ELSE 0
      /\ \A i \in 1..(n - (k + 1) + 1) : SubSeq(s, k + 1, n)[i] = s[(k + 1) + i - 1]
  BY <1>2, SubSeqProperties
<1>4. /\ n - (k + 1) + 1 = n - k
      /\ (IF k + 1 <= n THEN n - (k + 1) + 1 ELSE 0) = n - k
      /\ \A i \in Int : (k + 1) + i - 1 = k + i
  BY <1>1 DEF n
<1>5. \A i \in 1..(n - k) : SubSeq(s, k + 1, n)[i] = s[k + i]
  BY <1>1, <1>3, <1>4
<1> QED BY <1>3, <1>4, <1>5 DEF n

\* A selection of a cache has the entries at the selected places, each once.
LEMMA KeptEntries ==
  ASSUME NEW cache, IsCache(cache), NEW places \in SUBSET (DOMAIN cache)
  PROVE  /\ IsCache(Kept(cache, places)) /\ Len(Kept(cache, places)) <= Len(cache)
         /\ EntriesOf(Kept(cache, places)) = {cache[i] : i \in places}
<1> DEFINE m == Len(cache)
           card == Cardinality(places)
           kept == Kept(cache, places)
<1>1. m \in Nat /\ DOMAIN cache = 1..m /\ \A i \in 1..m : cache[i] \in Entry
  BY DEF IsCache, Caches
<1>2. /\ card \in 0..m
      /\ \A n \in 1..card : Place(places, n) \in places
      /\ \A i \in places : \E n \in 1..card : Place(places, n) = i
      /\ \A n, o \in 1..card : Place(places, n) = Place(places, o) => n = o
  BY <1>1, PlacesAreCounted
<1>3. DOMAIN kept = 1..card /\ \A n \in 1..card : kept[n] = cache[Place(places, n)]
  BY DEF Kept
<1>4. kept = [n \in 1..card |-> kept[n]] /\ \A n \in 1..card : kept[n] \in Entry
  BY <1>1, <1>2, <1>3 DEF Kept
<1> HIDE DEF kept, card, m
<1>5. kept \in Seq(Entry) /\ Len(kept) = card
  BY <1>2, <1>4, LenOfCounted
<1>6. KeysDiffer(kept)
  BY <1>1, <1>2, <1>3 DEF IsCache, Caches, KeysDiffer
<1>7. EntriesOf(kept) = {cache[i] : i \in places}
  BY <1>2, <1>3 DEF EntriesOf
<1> QED BY <1>1, <1>2, <1>5, <1>6, <1>7 DEF IsCache, Caches, kept, m

\* Deleting keys leaves the other entries.
LEMMA WithoutEntries ==
  ASSUME NEW cache, IsCache(cache), NEW keys
  PROVE  /\ IsCache(Without(cache, keys)) /\ Len(Without(cache, keys)) <= Len(cache)
         /\ EntriesOf(Without(cache, keys)) = {e \in EntriesOf(cache) : e.key \notin keys}
<1> DEFINE places == {i \in DOMAIN cache : cache[i].key \notin keys}
<1>1. {cache[i] : i \in places} = {e \in EntriesOf(cache) : e.key \notin keys}
  BY DEF EntriesOf
<1>2. places \in SUBSET (DOMAIN cache) /\ Without(cache, keys) = Kept(cache, places)
  BY DEF Without
<1> HIDE DEF places
<1> QED BY <1>1, <1>2, KeptEntries

\* The cleanup leaves the entries that have not expired.
LEMMA CleanedEntries ==
  ASSUME NEW cache, IsCache(cache)
  PROVE  /\ IsCache(CleanupExpired(cache)) /\ Len(CleanupExpired(cache)) <= Len(cache)
         /\ EntriesOf(CleanupExpired(cache)) = {e \in EntriesOf(cache) : ~IsExpired(e)}
<1> DEFINE places == {i \in DOMAIN cache : ~IsExpired(cache[i])}
<1>1. {cache[i] : i \in places} = {e \in EntriesOf(cache) : ~IsExpired(e)}
  BY DEF EntriesOf
<1>2. places \in SUBSET (DOMAIN cache) /\ CleanupExpired(cache) = Kept(cache, places)
  BY DEF CleanupExpired
<1> HIDE DEF places
<1> QED BY <1>1, <1>2, KeptEntries

\* Making room invents nothing, and leaves room unless the cache had outgrown its
\* limit, when it makes it smaller at least.
LEMMA RoomMade ==
  ASSUME NEW cache, IsCache(cache)
  PROVE  /\ IsCache(MakeRoom(cache)) /\ EntriesOf(MakeRoom(cache)) \subseteq EntriesOf(cache)
         /\ Len(MakeRoom(cache)) < MaxSize \/ Len(MakeRoom(cache)) < Len(cache)
<1> DEFINE cleaned == CleanupExpired(cache)
           share == MaxSize \div Share
           rest == SubSeq(cleaned, share + 1, Len(cleaned))
<1>1. /\ IsCache(cleaned) /\ Len(cleaned) <= Len(cache)
      /\ EntriesOf(cleaned) \subseteq EntriesOf(cache)
  BY CleanedEntries
<1>2. Len(cache) \in Nat /\ Len(cleaned) \in Nat /\ DOMAIN cleaned = 1..Len(cleaned)
      /\ cleaned \in Seq(Entry) /\ \A i \in 1..Len(cleaned) : cleaned[i] \in Entry
  BY <1>1 DEF IsCache, Caches
<1>3. share \in 1..MaxSize
  BY CacheSizeAssumption
<1> HIDE DEF share, cleaned
<1>4. CASE Len(cleaned) >= MaxSize
  <2>1. share + 1 \in Int /\ Len(cleaned) \in Int
        /\ \A i \in (share + 1)..Len(cleaned) : cleaned[i] \in Entry
    BY <1>2, <1>3
  <2>2. /\ rest \in Seq(Entry) /\ Len(rest) = Len(cleaned) - share
        /\ \A i \in 1..(Len(cleaned) - share) : rest[i] = cleaned[share + i]
    <3>1. share \in Nat /\ share <= Len(cleaned)
      BY <1>2, <1>3, <1>4, CacheSizeAssumption
    <3> QED BY <1>2, <3>1, RestOfSeq
  <2> HIDE DEF rest
  <2>3. DOMAIN rest = 1..(Len(cleaned) - share)
    BY <2>2
  <2>4. \A i \in 1..(Len(cleaned) - share) : share + i \in 1..Len(cleaned)
    BY <1>2, <1>3
  <2>5. KeysDiffer(rest)
    <3> SUFFICES ASSUME NEW i \in 1..(Len(cleaned) - share), NEW j \in 1..(Len(cleaned) - share),
                        rest[i].key = rest[j].key
                 PROVE  i = j
      BY <2>3 DEF KeysDiffer
    <3>1. share + i = share + j
      BY <1>1, <1>2, <2>2, <2>4 DEF IsCache, Caches, KeysDiffer
    <3> QED BY <1>3, <3>1
  <2>6. EntriesOf(rest) \subseteq EntriesOf(cleaned)
    BY <1>2, <2>2, <2>3, <2>4 DEF EntriesOf
  <2>7. IsCache(rest) /\ EntriesOf(rest) \subseteq EntriesOf(cache) /\ Len(rest) < Len(cache)
    BY <1>1, <1>2, <1>3, <2>2, <2>5, <2>6 DEF IsCache, Caches
  <2>8. Len(cache) >= MaxSize
    BY <1>1, <1>2, <1>4, CacheSizeAssumption
  <2> QED BY <1>2, <1>4, <2>7, <2>8, CacheSizeAssumption DEF MakeRoom, rest, cleaned, share
<1>5. CASE Len(cleaned) < MaxSize
  BY <1>1, <1>2, <1>5, CacheSizeAssumption DEF MakeRoom, cleaned
<1> QED BY <1>2, <1>4, <1>5, CacheSizeAssumption

\* What is put replaces the entry of its key and leaves the others.
LEMMA PutEntries ==
  ASSUME NEW cache, IsCache(cache), NEW e \in Entry
  PROVE  /\ IsCache(Put(cache, e)) /\ Len(Put(cache, e)) <= Len(cache) + 1
         /\ EntriesOf(Put(cache, e)) = {x \in EntriesOf(cache) : x.key # e.key} \cup {e}
<1>1. /\ Len(cache) \in Nat /\ DOMAIN cache = 1..Len(cache) /\ cache \in Seq(Entry)
      /\ \A i \in 1..Len(cache) : cache[i] \in Entry
  BY DEF IsCache, Caches
<1>2. CASE e.key \in KeysOf(cache)
  <2> DEFINE after == [i \in 1..Len(cache) |-> IF cache[i].key = e.key THEN e ELSE cache[i]]
  <2>1. Put(cache, e) = after
    BY <1>1, <1>2 DEF Put
  <2>2. after \in Seq(Entry) /\ Len(after) = Len(cache)
    BY <1>1, LenOfCounted
  <2>3. KeysDiffer(after)
    BY <1>1 DEF IsCache, Caches, KeysDiffer
  <2>4. EntriesOf(after) = {x \in EntriesOf(cache) : x.key # e.key} \cup {e}
    BY <1>1, <1>2 DEF EntriesOf, KeysOf
  <2> HIDE DEF after
  <2> QED BY <1>1, <2>1, <2>2, <2>3, <2>4 DEF IsCache, Caches
<1>3. CASE e.key \notin KeysOf(cache)
  <2> DEFINE after == Append(cache, e)
  <2>1. Put(cache, e) = after
    BY <1>3 DEF Put
  <2>2. /\ after \in Seq(Entry) /\ Len(after) = Len(cache) + 1
        /\ DOMAIN after = 1..(Len(cache) + 1)
        /\ \A i \in 1..Len(cache) : after[i] = cache[i]
        /\ after[Len(cache) + 1] = e
    BY <1>1
  <2> HIDE DEF after
  <2>3. \A i \in 1..Len(cache) : cache[i].key # e.key
    BY <1>1, <1>3 DEF KeysOf
  <2>4. KeysDiffer(after)
    BY <1>1, <2>2, <2>3 DEF IsCache, Caches, KeysDiffer
  <2>5. EntriesOf(after) = {x \in EntriesOf(cache) : x.key # e.key} \cup {e}
    <3>1. \A i \in 1..(Len(cache) + 1) : i \in 1..Len(cache) \/ i = Len(cache) + 1
      BY <1>1
    <3>2. \A i \in 1..Len(cache) : i \in 1..(Len(cache) + 1)
      BY <1>1
    <3>3. Len(cache) + 1 \in 1..(Len(cache) + 1)
      BY <1>1
    <3> QED BY <1>1, <2>2, <2>3, <3>1, <3>2, <3>3 DEF EntriesOf
  <2> QED BY <1>1, <2>1, <2>2, <2>4, <2>5 DEF IsCache, Caches
<1> QED BY <1>2, <1>3

\* A cache has at most one entry for a key.
LEMMA OneEntry ==
  ASSUME NEW cache, IsCache(cache), NEW x \in EntriesOf(cache), NEW y \in EntriesOf(cache), x.key = y.key
  PROVE  x = y
BY DEF IsCache, Caches, KeysDiffer, EntriesOf

\* A cache has as many keys as entries.
LEMMA CacheSize ==
  ASSUME NEW cache, IsCache(cache)
  PROVE  Cardinality(KeysOf(cache)) = Len(cache)
<1> DEFINE n == Len(cache)
           key == [i \in 1..n |-> cache[i].key]
<1>1. n \in Nat /\ DOMAIN cache = 1..n /\ \A i, j \in 1..n : cache[i].key = cache[j].key => i = j
  BY DEF IsCache, Caches, KeysDiffer
<1> HIDE DEF n
<1>2. key \in [1..n -> KeysOf(cache)]
  BY <1>1 DEF KeysOf
<1>3. IsInjective(key)
  BY <1>1 DEF IsInjective
<1>4. \A k \in KeysOf(cache) : \E i \in 1..n : key[i] = k
  BY <1>1 DEF KeysOf
<1> HIDE DEF key
<1>5. key \in Bijection(1..n, KeysOf(cache))
  BY <1>2, <1>3, <1>4 DEF Bijection, Injection, Surjection
<1>6. ExistsBijection(1..n, KeysOf(cache))
  BY <1>5 DEF ExistsBijection
<1> QED BY <1>1, <1>6, FS_CountingElements DEF n

\* What get() finds after keys were deleted.
LEMMA WithoutFinds ==
  ASSUME NEW cache, IsCache(cache), NEW keys
  PROVE  \A g : Found(Without(cache, keys), g) = IF g \in keys THEN {} ELSE Found(cache, g)
<1>1. EntriesOf(Without(cache, keys)) = {e \in EntriesOf(cache) : e.key \notin keys}
  BY WithoutEntries
<1>2. \A c, g : Found(c, g) = {e \in EntriesOf(c) : e.key = g /\ ~IsExpired(e)}
  BY DEF Found, EntriesOf
<1> QED BY <1>1, <1>2

\* What get() finds after set(): the new entry, and of every other key what it found before, or
\* nothing of a key that was evicted.
LEMMA SetFinds ==
  ASSUME NEW cache, IsCache(cache), NEW e \in Entry
  PROVE  /\ IsCache(AfterSet(cache, e))
         /\ Len(AfterSet(cache, e)) <= MaxSize \/ Len(AfterSet(cache, e)) <= Len(cache)
         /\ Found(AfterSet(cache, e), e.key) = IF IsExpired(e) THEN {} ELSE {e}
         /\ \A g : g # e.key =>
              \/ Found(AfterSet(cache, e), g) = Found(cache, g)
              \/ Found(AfterSet(cache, e), g) = {} /\ g \notin KeysOf(AfterSet(cache, e))
<1> DEFINE room == MakeRoom(cache)
           after == AfterSet(cache, e)
<1>1. /\ IsCache(room) /\ EntriesOf(room) \subseteq EntriesOf(cache)
      /\ Len(room) < MaxSize \/ Len(room) < Len(cache)
  BY RoomMade
<1>2. /\ IsCache(after) /\ Len(after) <= Len(room) + 1
      /\ EntriesOf(after) = {x \in EntriesOf(room) : x.key # e.key} \cup {e}
  BY <1>1, PutEntries DEF AfterSet
<1>3. Len(after) \in Nat /\ Len(room) \in Nat /\ Len(cache) \in Nat
  BY <1>1, <1>2 DEF IsCache, Caches
<1> HIDE DEF after, room
<1>4. \A c, g : Found(c, g) = {x \in EntriesOf(c) : x.key = g /\ ~IsExpired(x)}
  BY DEF Found, EntriesOf
<1>5. \A g : g \in KeysOf(after) <=> \E x \in EntriesOf(after) : x.key = g
  BY DEF KeysOf, EntriesOf
<1>6. Found(after, e.key) = IF IsExpired(e) THEN {} ELSE {e}
  BY <1>2, <1>4
<1>7. ASSUME NEW g, g # e.key, g \in KeysOf(after) PROVE Found(after, g) = Found(cache, g)
  <2>1. PICK x \in EntriesOf(after) : x.key = g
    BY <1>5, <1>7
  <2>2. x \in EntriesOf(cache)
    BY <1>1, <1>2, <1>7, <2>1
  <2>3. \A y \in EntriesOf(cache) : y.key = g => y = x
    BY <2>1, <2>2, OneEntry
  <2>4. \A y \in EntriesOf(after) : y.key = g => y = x
    BY <1>2, <2>1, OneEntry
  <2> QED BY <1>4, <2>1, <2>2, <2>3, <2>4
<1>8. ASSUME NEW g, g \notin KeysOf(after) PROVE Found(after, g) = {}
  BY <1>4, <1>5, <1>8
<1>9. Len(after) <= MaxSize \/ Len(after) <= Len(cache)
  BY <1>1, <1>2, <1>3, CacheSizeAssumption
<1> QED BY <1>2, <1>6, <1>7, <1>8, <1>9 DEF after

\* setnx() changes nothing of other keys.
LEMMA SetnxFinds ==
  ASSUME NEW cache, IsCache(cache), NEW e \in Entry
  PROVE  /\ IsCache(AfterSetnx(cache, e))
         /\ \A g : g # e.key => Found(AfterSetnx(cache, e), g) = Found(cache, g)
<1>1. \A c, g : Found(c, g) = {x \in EntriesOf(c) : x.key = g /\ ~IsExpired(x)}
  BY DEF Found, EntriesOf
<1> QED BY <1>1, PutEntries DEF AfterSetnx

\* get() finds what it would find again, of every key.
LEMMA GetFinds ==
  ASSUME NEW cache, IsCache(cache), NEW key
  PROVE  /\ IsCache(AfterGet(cache, key)) /\ Len(AfterGet(cache, key)) <= Len(cache)
         /\ \A g : Found(AfterGet(cache, key), g) = Found(cache, g)
<1>1. Len(cache) \in Nat
  BY DEF IsCache, Caches
<1>2. CASE Found(cache, key) # {}
  <2>1. AfterGet(cache, key) = cache
    BY <1>2 DEF AfterGet
  <2> QED BY <1>1, <2>1
<1>3. CASE Found(cache, key) = {}
  <2> DEFINE after == Without(cache, {key})
  <2>1. AfterGet(cache, key) = after
    BY <1>3 DEF AfterGet
  <2>2. IsCache(after) /\ Len(after) <= Len(cache)
    BY WithoutEntries
  <2>3. \A g : Found(after, g) = IF g \in {key} THEN {} ELSE Found(cache, g)
    BY WithoutFinds
  <2> HIDE DEF after
  <2> QED BY <1>3, <2>1, <2>2, <2>3
<1> QED BY <1>2, <1>3

\* An entry that expires is not found any more, and the others are.
LEMMA ExpiryFinds ==
  ASSUME NEW cache, IsCache(cache), NEW i \in DOMAIN cache
  PROVE  LET after == [cache EXCEPT ![i].life = "expired"]
         IN /\ IsCache(after) /\ Len(after) = Len(cache)
            /\ \A g : Found(after, g) = IF g = cache[i].key THEN {} ELSE Found(cache, g)
<1> DEFINE n == Len(cache)
           old == [cache[i] EXCEPT !.life = "expired"]
           after == [j \in 1..n |-> IF j = i THEN old ELSE cache[j]]
<1>1. /\ n \in Nat /\ DOMAIN cache = 1..n /\ \A j \in 1..n : cache[j] \in Entry
      /\ cache = [j \in 1..n |-> cache[j]] /\ KeysDiffer(cache)
  BY DEF IsCache, Caches
<1>2. [cache EXCEPT ![i].life = "expired"] = after
  BY <1>1
<1>3. old \in Entry /\ old.key = cache[i].key /\ IsExpired(old)
  BY <1>1 DEF Entry, Lives, IsExpired
<1> HIDE DEF old, n
<1>4. after \in Seq(Entry) /\ Len(after) = n
  BY <1>1, <1>3, LenOfCounted
<1>5. DOMAIN after = 1..n /\ \A j \in 1..n : after[j] = IF j = i THEN old ELSE cache[j]
  OBVIOUS
<1> HIDE DEF after
<1>6. KeysDiffer(after)
  BY <1>1, <1>3, <1>5 DEF KeysDiffer
<1>7. \A g : Found(after, g) = IF g = cache[i].key THEN {} ELSE Found(cache, g)
  <2> SUFFICES ASSUME NEW g PROVE Found(after, g) = IF g = cache[i].key THEN {} ELSE Found(cache, g)
    OBVIOUS
  <2>1. \A c, x : x \in Found(c, g) <=> \E j \in DOMAIN c : x = c[j] /\ c[j].key = g /\ ~IsExpired(c[j])
    BY DEF Found
  <2>2. CASE g = cache[i].key
    <3>1. \A j \in 1..n : after[j].key = g => IsExpired(after[j])
      BY <1>1, <1>3, <1>5, <2>2 DEF KeysDiffer
    <3> QED BY <1>5, <2>1, <2>2, <3>1
  <2>3. CASE g # cache[i].key
    <3>1. \A j \in 1..n : j # i => after[j] = cache[j]
      BY <1>5
    <3>2. after[i].key # g
      BY <1>1, <1>3, <1>5, <2>3
    <3>3. \A x : x \in Found(after, g) <=> x \in Found(cache, g)
      BY <1>1, <1>5, <2>1, <2>3, <3>1, <3>2
    <3> QED BY <2>3, <3>3
  <2> QED BY <2>2, <2>3
<1> QED BY <1>2, <1>4, <1>6, <1>7 DEF IsCache, Caches, n

\* What set() makes room by is what it does not find any more: entries that had not expired
\* are evicted only from a cache that is full of such, and only the oldest share of them.
LEMMA EvictedAreOldest ==
  ASSUME NEW cache, IsCache(cache), NEW e \in Entry, NEW g, g # e.key,
         Found(AfterSet(cache, e), g) # Found(cache, g)
  PROVE  LET cleaned == CleanupExpired(cache)
         IN /\ Len(cleaned) >= MaxSize
            /\ \E i \in 1..(MaxSize \div Share) : cleaned[i].key = g
<1> DEFINE cleaned == CleanupExpired(cache)
           share == MaxSize \div Share
           rest == SubSeq(cleaned, share + 1, Len(cleaned))
<1>1. /\ IsCache(cleaned) /\ Len(cleaned) <= Len(cache)
      /\ EntriesOf(cleaned) = {x \in EntriesOf(cache) : ~IsExpired(x)}
  BY CleanedEntries
<1>2. Len(cache) \in Nat /\ Len(cleaned) \in Nat /\ DOMAIN cleaned = 1..Len(cleaned)
      /\ cleaned \in Seq(Entry)
  BY <1>1 DEF IsCache, Caches
<1>3. share \in Nat /\ share <= MaxSize
  BY CacheSizeAssumption
<1>4. MakeRoom(cache) = IF Len(cache) < MaxSize THEN cache
                        ELSE IF Len(cleaned) < MaxSize THEN cleaned ELSE rest
  BY DEF MakeRoom
<1> HIDE DEF cleaned, share
<1>5. \A c, h : Found(c, h) = {x \in EntriesOf(c) : x.key = h /\ ~IsExpired(x)}
  BY DEF Found, EntriesOf
<1>6. Found(AfterSet(cache, e), g) = Found(MakeRoom(cache), g)
  <2>1. EntriesOf(AfterSet(cache, e)) = {x \in EntriesOf(MakeRoom(cache)) : x.key # e.key} \cup {e}
    BY RoomMade, PutEntries DEF AfterSet
  <2> QED BY <1>5, <2>1
<1>7. Found(cleaned, g) = Found(cache, g)
  BY <1>1, <1>5
<1>8. ~(Len(cache) < MaxSize) /\ ~(Len(cleaned) < MaxSize) /\ Found(rest, g) # Found(cleaned, g)
  BY <1>4, <1>6, <1>7
<1>9. share <= Len(cleaned)
  BY <1>2, <1>3, <1>8, CacheSizeAssumption
<1>10. /\ rest \in Seq(Entry) /\ Len(rest) = Len(cleaned) - share
       /\ \A i \in 1..(Len(cleaned) - share) : rest[i] = cleaned[share + i]
  BY <1>2, <1>3, <1>9, RestOfSeq
<1> HIDE DEF rest
<1>11. EntriesOf(rest) = {cleaned[i] : i \in (share + 1)..Len(cleaned)}
  <2>1. DOMAIN rest = 1..(Len(cleaned) - share)
    BY <1>10
  <2>2. \A i \in (share + 1)..Len(cleaned) :
          i - share \in 1..(Len(cleaned) - share) /\ share + (i - share) = i
    BY <1>2, <1>3
  <2>3. \A i \in 1..(Len(cleaned) - share) : share + i \in (share + 1)..Len(cleaned)
    BY <1>2, <1>3
  <2> QED BY <1>10, <2>1, <2>2, <2>3 DEF EntriesOf
<1>12. \A x \in EntriesOf(cleaned) : x \notin EntriesOf(rest) => \E i \in 1..share : cleaned[i] = x
  <2>1. \A i \in 1..Len(cleaned) : i \in (share + 1)..Len(cleaned) \/ i \in 1..share
    BY <1>2, <1>3
  <2> QED BY <1>2, <1>11, <2>1 DEF EntriesOf
<1>13. EntriesOf(rest) \subseteq EntriesOf(cleaned)
  <2>1. \A i \in (share + 1)..Len(cleaned) : i \in 1..Len(cleaned)
    BY <1>2, <1>3
  <2> QED BY <1>2, <1>11, <2>1 DEF EntriesOf
<1>14. \E x \in EntriesOf(cleaned) : x.key = g /\ x \notin EntriesOf(rest)
  BY <1>5, <1>8, <1>13
<1>15. \E i \in 1..share : cleaned[i].key = g
  BY <1>12, <1>14
<1>16. Len(cleaned) >= MaxSize
  BY <1>2, <1>8, CacheSizeAssumption
<1> QED BY <1>15, <1>16 DEF cleaned, share

\* The in-memory cache is a map with times to live that forgets by eviction only: set() and
\* setnx() are found, the latter unless something was before; a delete takes its keys and no
\* others; and what set() drops of other keys is among the oldest share of a cache that is
\* full of entries that have not expired.
THEOREM CacheIsMap ==
  ASSUME NEW cache, IsCache(cache), NEW e \in Entry, ~IsExpired(e), NEW keys
  PROVE  /\ Found(AfterSet(cache, e), e.key) = {e}
         /\ Found(AfterSetnx(cache, e), e.key)
              = IF Found(cache, e.key) = {} THEN {e} ELSE Found(cache, e.key)
         /\ \A g : Found(AfterDeletePattern(cache, keys), g) = IF g \in keys THEN {} ELSE Found(cache, g)
         /\ \A g : g # e.key =>
              /\ Found(AfterSetnx(cache, e), g) = Found(cache, g)
              /\ \/ Found(AfterSet(cache, e), g) = Found(cache, g)
                 \/ /\ Found(AfterSet(cache, e), g) = {}
                    /\ Len(CleanupExpired(cache)) >= MaxSize
                    /\ \E i \in 1..(MaxSize \div Share) : CleanupExpired(cache)[i].key = g
<1>1. Found(AfterSet(cache, e), e.key) = {e}
  BY SetFinds
<1>2. Found(AfterSetnx(cache, e), e.key) = IF Found(cache, e.key) = {} THEN {e} ELSE Found(cache, e.key)
  <2>1. \A c, g : Found(c, g) = {x \in EntriesOf(c) : x.key = g /\ ~IsExpired(x)}
    BY DEF Found, EntriesOf
  <2>2. EntriesOf(Put(cache, e)) = {x \in EntriesOf(cache) : x.key # e.key} \cup {e}
    BY PutEntries
  <2>3. Found(Put(cache, e), e.key) = {e}
    BY <2>1, <2>2
  <2> QED BY <2>3 DEF AfterSetnx
<1>3. \A g : Found(AfterDeletePattern(cache, keys), g) = IF g \in keys THEN {} ELSE Found(cache, g)
  BY WithoutFinds DEF AfterDeletePattern
<1>4. ASSUME NEW g, g # e.key
      PROVE  /\ Found(AfterSetnx(cache, e), g) = Found(cache, g)
             /\ \/ Found(AfterSet(cache, e), g) = Found(cache, g)
                \/ /\ Found(AfterSet(cache, e), g) = {}
                   /\ Len(CleanupExpired(cache)) >= MaxSize
                   /\ \E i \in 1..(MaxSize \div Share) : CleanupExpired(cache)[i].key = g
  <2>1. Found(AfterSetnx(cache, e), g) = Found(cache, g)
    BY <1>4, SetnxFinds
  <2>2. Found(AfterSet(cache, e), g) = Found(cache, g) \/ Found(AfterSet(cache, e), g) = {}
    BY <1>4, SetFinds
  <2>3. ASSUME Found(AfterSet(cache, e), g) # Found(cache, g)
        PROVE  /\ Len(CleanupExpired(cache)) >= MaxSize
               /\ \E i \in 1..(MaxSize \div Share) : CleanupExpired(cache)[i].key = g
    BY <1>4, <2>3, EvictedAreOldest
  <2> QED BY <2>1, <2>2, <2>3
<1> QED BY <1>1, <1>2, <1>3, <1>4

-----------------------------------------------------------------------------
(* Types *)

Stored == [value : Values \cup {"unset"}, life : Lives]
Request == [flag : Flags, value : Values \cup {"unset"}, ttl : BOOLEAN, mayExpire : BOOLEAN]

\* TypeOK as an inductive invariant: it says of the caches what their methods keep.
Types ==
  /\ fallback \in BOOLEAN /\ up \in BOOLEAN
  /\ mode \in [Workers -> {"redis", "memory", "nowhere"}]
  /\ redis \in [Flags -> Stored]
  /\ memory \in [Workers -> Caches]
  /\ \A w \in Workers : mode[w] # "memory" => memory[w] = << >>
  /\ brk \in [Workers -> Breaker]
  /\ doing \in [Workers -> {"nothing", "check", "set", "clear"}]
  /\ about \in [Workers -> Request]
  /\ asked \in [Flags -> Owed]
  /\ writes \in 0..MaxWrites

\* What the breaker's steps return is a breaker.
LEMMA BreakerSteps ==
  ASSUME NEW b \in Breaker
  PROVE  /\ Entered(b) \in Breaker /\ Succeeded(b) \in Breaker /\ Closed \in Breaker
         /\ Failed(b) \in Breaker /\ Expired(b) \in Breaker
<1>1. Closed \in Breaker /\ Opened \in Breaker
  BY ThresholdAssumption DEF Closed, Opened, Breaker
<1>2. Entered(b) \in Breaker /\ Expired(b) \in Breaker
  BY DEF Entered, Expired, Breaker
<1>3. ASSUME b.failures + 1 < Threshold PROVE [b EXCEPT !.failures = @ + 1] \in Breaker
  BY <1>3, ThresholdAssumption DEF Breaker
<1> QED BY <1>1, <1>2, <1>3 DEF Succeeded, Failed

\* The constants of the model have their types.
LEMMA ConstantTypes ==
  /\ Missing \in Stored /\ NothingOwed \in Owed /\ NoRequest \in Request
  /\ \A ttl \in BOOLEAN : Life(ttl) \in Lives
  /\ \A f, p : TimeToLive(f, p) \in BOOLEAN /\ MayExpire(f, p) \in BOOLEAN
  /\ << >> \in Caches
<1>1. << >> \in Caches
  BY DEF Caches, KeysDiffer
<1>2. Missing \in Stored /\ NothingOwed \in Owed
  BY DEF Missing, Stored, Lives, NothingOwed, Owed, Values
<1>3. NoRequest \in Request
  BY FlagsAssumption DEF NoRequest, Request
<1>4. \A ttl \in BOOLEAN : Life(ttl) \in Lives
  BY DEF Life, Lives
<1>5. \A f, p : TimeToLive(f, p) \in BOOLEAN /\ MayExpire(f, p) \in BOOLEAN
  BY DEF TimeToLive, MayExpire
<1> QED BY <1>1, <1>2, <1>3, <1>4, <1>5

\* What Redis executes is a value with a life.
LEMMA ExecutedType == ASSUME NEW r \in Request PROVE Executed(r) \in Stored
BY ConstantTypes DEF Executed, Request, Stored

\* What is asked, dropped or evicted leaves a debt for every flag.
LEMMA DebtTypes ==
  ASSUME asked \in [Flags -> Owed], NEW where \in Workers \cup {"redis", "nowhere"}
  PROVE  /\ \A f \in Flags, value \in Values \cup {"unset"}, m \in BOOLEAN :
              Asks(f, value, m, where) => asked' \in [Flags -> Owed]
         /\ \A f \in Flags : Dropped(f) => asked' \in [Flags -> Owed]
         /\ \A gone : Evicts(where, gone) => asked' \in [Flags -> Owed]
<1>1. ASSUME NEW f \in Flags, NEW value \in Values \cup {"unset"}, NEW m \in BOOLEAN,
             Asks(f, value, m, where)
      PROVE  asked' \in [Flags -> Owed]
  BY <1>1 DEF Asks, Owed
<1>2. ASSUME NEW f \in Flags, Dropped(f) PROVE asked' \in [Flags -> Owed]
  BY <1>2, ConstantTypes DEF Dropped
<1>3. ASSUME NEW gone, Evicts(where, gone) PROVE asked' \in [Flags -> Owed]
  BY <1>3, ConstantTypes DEF Evicts
<1> QED BY <1>1, <1>2, <1>3

\* A cache is as TypeOK says.
LEMMA TypesSuffice == Types => TypeOK
<1> SUFFICES ASSUME Types PROVE TypeOK
  OBVIOUS
<1>1. ASSUME NEW w \in Workers
      PROVE  /\ \A i \in DOMAIN memory[w] : memory[w][i] \in [key : Flags \cup Others, value : Values, life : Lives]
             /\ Cardinality(KeysOf(memory[w])) = Len(memory[w])
  <2>1. IsCache(memory[w])
    BY DEF Types, IsCache
  <2>2. memory[w] \in Seq(Entry)
    BY <2>1 DEF IsCache, Caches
  <2>3. \A i \in DOMAIN memory[w] : memory[w][i] \in Entry
    BY <2>2
  <2> QED BY <2>1, <2>3, CacheSize DEF Entry
<1> QED BY <1>1 DEF Types, TypeOK, Stored, Request

\* At the start every cache is empty and every call is idle.
LEMMA InitTypes == Init => Types
<1> SUFFICES ASSUME Init PROVE Types
  OBVIOUS
<1>1. Closed \in Breaker
  BY ThresholdAssumption DEF Closed, Breaker
<1> QED BY <1>1, ConstantTypes, FlagsAssumption DEF Init, Types

\* A call to Redis keeps the types.
LEMMA RedisCallTypes ==
  ASSUME Types, NEW w \in Workers, NEW kind \in {"check", "set", "clear"}, NEW r \in Request,
         RedisCall(w, kind, r), writes' \in 0..MaxWrites
  PROVE  Types'
BY BreakerSteps DEF RedisCall, Types, conn

\* The end of a call to Redis keeps the types.
LEMMA EndsTypes ==
  ASSUME Types, NEW w \in Workers, NEW b \in Breaker, Ends(w, b),
         redis' \in [Flags -> Stored], asked' \in [Flags -> Owed]
  PROVE  Types'
BY ConstantTypes DEF Ends, Types, conn

\* A step in the memory of a worker keeps the types.
LEMMA InMemoryTypes ==
  ASSUME Types, NEW w \in Workers, On(w, "memory"), NEW after \in Caches,
         memory' = [memory EXCEPT ![w] = after], asked' \in [Flags -> Owed], writes' \in 0..MaxWrites,
         UNCHANGED <<conn, redis, brk, doing, about>>
  PROVE  Types'
BY DEF On, Types, conn

\* The writes are counted up to their bound.
LEMMA WrittenType == ASSUME Types, Written PROVE writes' \in 0..MaxWrites
BY FlagsAssumption DEF Written, Types

-----------------------------------------------------------------------------
(* Debts: what each store still owes *)

\* A worker waits for Redis only where it uses Redis, and what it writes gets a time to
\* live only if it may expire.
Calls ==
  \A w \in Workers : /\ doing[w] # "nothing" => mode[w] = "redis"
                     /\ about[w].ttl => about[w].mayExpire

\* What a worker's own cache keeps of a flag it was asked for.
Remembers(w, f) ==
  LET found == Found(memory[w], f)
  IN IF asked[f].value = "unset" THEN found = {}
     ELSE \E e \in found : e.value = asked[f].value /\ (e.life = "live" => asked[f].mayExpire)

\* A store that owes a flag has it, and lets go of it by itself only if it may.  This
\* is KillSwitchHolds made inductive: it does not depend on whether Redis answers, and
\* it follows the lives of the entries.
Debt(f) ==
  /\ asked[f].at = "redis" => /\ redis[f].value = asked[f].value
                              /\ redis[f].life = "live" => asked[f].mayExpire
  /\ asked[f].at = "nowhere" => asked[f].value = "unset"
  /\ \A w \in Workers : asked[f].at = w => mode[w] = "memory" /\ Remembers(w, f)

Invariant == Types /\ Calls /\ \A f \in Flags : Debt(f)

\* A flag of which nothing is owed.
LEMMA DebtDropped ==
  ASSUME NEW f \in Flags, asked'[f] = NothingOwed
  PROVE  Debt(f)'
<1>1. asked'[f].at = "nowhere" /\ asked'[f].value = "unset"
  BY DEF NothingOwed
<1>2. \A w \in Workers : w # "nowhere"
  BY FlagsAssumption
<1> QED BY <1>1, <1>2 DEF Debt

\* A flag that its store keeps as it was.
LEMMA DebtKept ==
  ASSUME NEW f \in Flags, Debt(f), asked'[f] = asked[f],
         asked[f].at = "redis" => redis'[f] = redis[f],
         \A w \in Workers : asked[f].at = w =>
            mode'[w] = mode[w] /\ Found(memory'[w], f) = Found(memory[w], f)
  PROVE  Debt(f)'
BY DEF Debt, Remembers

\* A flag that was asked for of Redis and is there.
LEMMA DebtInRedis ==
  ASSUME NEW f \in Flags, asked'[f].at = "redis", redis'[f].value = asked'[f].value,
         redis'[f].life = "live" => asked'[f].mayExpire
  PROVE  Debt(f)'
<1>1. \A w \in Workers : w # "redis"
  BY FlagsAssumption
<1> QED BY <1>1 DEF Debt

\* A flag that was asked for of a worker without Redis and is in its cache.
LEMMA DebtInMemory ==
  ASSUME NEW f \in Flags, NEW w \in Workers, asked'[f].at = w, mode'[w] = "memory", Remembers(w, f)'
  PROVE  Debt(f)'
<1>1. w # "redis" /\ w # "nowhere"
  BY FlagsAssumption
<1> QED BY <1>1 DEF Debt

\* A flag that is set with a time to live is one that may expire.
LEMMA OnlyTheseExpire == \A f, p : TimeToLive(f, p) => MayExpire(f, p)
BY DEF TimeToLive, MayExpire

\* Nothing is owed to anyone at the start.
LEMMA InitInvariant == Init => Invariant
<1> SUFFICES ASSUME Init PROVE Invariant
  OBVIOUS
<1>1. ASSUME NEW f \in Flags PROVE Debt(f)
  <2>1. asked[f].at = "nowhere" /\ asked[f].value = "unset"
    BY DEF Init, NothingOwed
  <2>2. \A w \in Workers : w # "nowhere"
    BY FlagsAssumption
  <2> QED BY <2>1, <2>2 DEF Debt
<1>2. Calls
  BY DEF Init, Calls, NoRequest
<1> QED BY <1>1, <1>2, InitTypes DEF Invariant

\* A call to Redis changes nothing that is owed.
LEMMA RedisCallInvariant ==
  ASSUME Invariant, NEW w \in Workers, NEW kind \in {"check", "set", "clear"}, NEW r \in Request,
         r.ttl => r.mayExpire, RedisCall(w, kind, r), writes' \in 0..MaxWrites
  PROVE  Invariant'
<1>1. Types'
  BY RedisCallTypes DEF Invariant
<1>2. Calls'
  BY DEF Invariant, Calls, Types, RedisCall, On, conn
<1>3. ASSUME NEW f \in Flags PROVE Debt(f)'
  BY DebtKept DEF Invariant, RedisCall, conn
<1> QED BY <1>1, <1>2, <1>3 DEF Invariant

\* The end of a call leaves a worker waiting for nothing.
LEMMA EndsCalls ==
  ASSUME Invariant, NEW w \in Workers, NEW b, Ends(w, b)
  PROVE  Calls'
<1>1. NoRequest.ttl = FALSE
  BY DEF NoRequest
<1> QED BY <1>1 DEF Invariant, Calls, Types, Ends, conn

\* A step that leaves this cache to a worker settles a flag: nothing is owed of it, or the
\* worker keeps what it owes, or owes what it has now.
Settles(w, after, f) ==
  \/ asked'[f] = NothingOwed
  \/ asked'[f] = asked[f] /\ (asked[f].at = w => Found(after, f) = Found(memory[w], f))
  \/ asked'[f].at = w /\ Remembers(w, f)'

\* A step in the memory of a worker that settles every flag.
LEMMA InMemoryInvariant ==
  ASSUME Invariant, NEW w \in Workers, InMemory(w), NEW after \in Caches,
         memory' = [memory EXCEPT ![w] = after], asked' \in [Flags -> Owed], writes' \in 0..MaxWrites,
         \A f \in Flags : Settles(w, after, f)
  PROVE  Invariant'
<1>1. Types'
  BY InMemoryTypes DEF InMemory, Invariant
<1>2. Calls'
  BY DEF Invariant, Calls, InMemory, conn
<1>3. ASSUME NEW f \in Flags PROVE Debt(f)'
  <2>1. CASE asked'[f] = NothingOwed
    BY <2>1, DebtDropped
  <2>2. CASE asked'[f] = asked[f] /\ (asked[f].at = w => Found(after, f) = Found(memory[w], f))
    <3>1. \A v \in Workers : memory'[v] = IF v = w THEN after ELSE memory[v]
      BY DEF Invariant, Types
    <3> QED BY <2>2, <3>1, DebtKept DEF Invariant, InMemory, conn
  <2>3. CASE asked'[f].at = w /\ Remembers(w, f)'
    BY <2>3, DebtInMemory DEF InMemory, On, conn
  <2> QED BY <2>1, <2>2, <2>3 DEF Settles
<1> QED BY <1>1, <1>2, <1>3 DEF Invariant

\* The steps of a worker without Redis.
LEMMA MemoryStep ==
  ASSUME Invariant, NEW w \in Workers,
         \/ \E f \in Flags : CheckInMemory(w, f) \/ ClearInMemory(w, f)
         \/ \E f \in Flags, value \in Values, persistent \in Persistence : SetInMemory(w, f, value, persistent)
         \/ \E k \in Others : CachesOther(w, k) \/ MarksOther(w, k)
         \/ DeletesOthers(w)
  PROVE  Invariant'
<1> DEFINE cache == memory[w]
<1>1. /\ IsCache(cache) /\ Types /\ asked \in [Flags -> Owed] /\ writes \in 0..MaxWrites
      /\ \A f \in Flags : Debt(f)
      /\ w \in Workers \cup {"redis", "nowhere"}
  BY DEF Invariant, Types, IsCache
<1>2. \A after : memory' = [memory EXCEPT ![w] = after] => memory'[w] = after
  BY <1>1 DEF Types
<1> HIDE DEF cache
<1>3. ASSUME NEW f \in Flags, CheckInMemory(w, f) PROVE Invariant'
  <2> DEFINE after == AfterGet(cache, f)
  <2>1. after \in Caches /\ \A g : Found(after, g) = Found(cache, g)
    BY <1>1, GetFinds DEF IsCache
  <2>2. /\ InMemory(w) /\ memory' = [memory EXCEPT ![w] = after]
        /\ asked' = asked /\ writes' = writes
    BY <1>3 DEF CheckInMemory, cache
  <2> HIDE DEF after
  <2>3. \A g \in Flags : Settles(w, after, g)
    BY <2>1, <2>2 DEF Settles, cache
  <2>4. asked' \in [Flags -> Owed] /\ writes' \in 0..MaxWrites
    BY <1>1, <2>2
  <2> QED BY <2>1, <2>2, <2>3, <2>4, InMemoryInvariant
<1>4. ASSUME NEW f \in Flags, ClearInMemory(w, f) PROVE Invariant'
  <2> DEFINE after == AfterDelete(cache, f)
  <2>1. after \in Caches /\ \A g : Found(after, g) = IF g \in {f} THEN {} ELSE Found(cache, g)
    BY <1>1, WithoutEntries, WithoutFinds DEF IsCache, AfterDelete
  <2>2. InMemory(w) /\ memory' = [memory EXCEPT ![w] = after] /\ Written /\ Asks(f, "unset", FALSE, w)
    BY <1>4 DEF ClearInMemory, cache
  <2> HIDE DEF after
  <2>3. asked' \in [Flags -> Owed] /\ writes' \in 0..MaxWrites
    BY <1>1, <2>2, DebtTypes, WrittenType
  <2>4. ASSUME NEW g \in Flags, g # f
        PROVE  asked'[g] = asked[g] /\ Found(after, g) = Found(cache, g)
    BY <1>1, <2>1, <2>2, <2>4 DEF Asks
  <2>5. asked'[f].at = w /\ Remembers(w, f)'
    BY <1>1, <1>2, <2>1, <2>2 DEF Asks, Remembers
  <2>6. \A g \in Flags : Settles(w, after, g)
    BY <2>4, <2>5 DEF Settles, cache
  <2> QED BY <2>1, <2>2, <2>3, <2>6, InMemoryInvariant
<1>5. ASSUME NEW f \in Flags, NEW value \in Values, NEW persistent \in Persistence,
             SetInMemory(w, f, value, persistent)
      PROVE  Invariant'
  <2> DEFINE e == [key |-> f, value |-> value, life |-> Life(TimeToLive(f, persistent))]
             after == AfterSet(cache, e)
             gone == {g \in Flags \ KeysOf(after) : Found(cache, g) # {}}
             owed == [value |-> value, mayExpire |-> MayExpire(f, persistent), at |-> w]
  <2>1. e \in Entry /\ e.key = f /\ e.value = value /\ ~IsExpired(e)
        /\ (e.life = "live" => MayExpire(f, persistent))
    BY ConstantTypes, OnlyTheseExpire DEF Entry, Life, IsExpired
  <2>2. /\ InMemory(w) /\ Written /\ memory' = [memory EXCEPT ![w] = after]
        /\ asked' = [g \in Flags |-> CASE g = f -> owed
                                       [] g \in gone /\ asked[g].at = w -> NothingOwed
                                       [] OTHER -> asked[g]]
    BY <1>5 DEF SetInMemory, cache
  <2> HIDE DEF e
  <2>3. /\ after \in Caches /\ Found(after, f) = {e}
        /\ \A g : g # f => \/ Found(after, g) = Found(cache, g)
                           \/ Found(after, g) = {} /\ g \notin KeysOf(after)
    BY <1>1, <2>1, SetFinds DEF IsCache
  <2> HIDE DEF after
  <2>4. owed \in Owed /\ owed.at = w /\ owed.value = value /\ value # "unset"
        /\ owed.mayExpire = MayExpire(f, persistent)
    BY ConstantTypes DEF Owed, Values
  <2> HIDE DEF owed
  <2>5. asked' \in [Flags -> Owed] /\ writes' \in 0..MaxWrites
    <3>1. writes' \in 0..MaxWrites
      BY <1>1, <2>2, WrittenType
    <3> QED BY <1>1, <2>2, <2>4, <3>1, ConstantTypes
  <2>6. asked'[f] = owed
    <3>1. f \in KeysOf(after)
      BY <2>1, <2>3 DEF Found, KeysOf
    <3>2. f \notin gone
      BY <3>1
    <3> HIDE DEF gone
    <3> QED BY <2>2, <3>2
  <2>7. Remembers(w, f)'
    BY <1>2, <2>1, <2>2, <2>3, <2>4, <2>6 DEF Remembers
  <2>8. ASSUME NEW g \in Flags, g # f
        PROVE  \/ asked'[g] = NothingOwed
               \/ asked'[g] = asked[g] /\ (asked[g].at = w => Found(after, g) = Found(cache, g))
    <3>1. CASE g \in gone /\ asked[g].at = w
      BY <2>2, <2>8, <3>1
    <3>2. CASE ~(g \in gone /\ asked[g].at = w)
      <4>1. asked'[g] = asked[g]
        BY <2>2, <2>8, <3>2
      <4>2. asked[g].at = w => Found(after, g) = Found(cache, g)
        BY <2>3, <2>8, <3>2
      <4> QED BY <4>1, <4>2
    <3> QED BY <3>1, <3>2
  <2> HIDE DEF gone
  <2>9. \A g \in Flags : Settles(w, after, g)
    BY <2>4, <2>6, <2>7, <2>8 DEF Settles, cache
  <2> QED BY <2>2, <2>3, <2>5, <2>9, InMemoryInvariant
<1>6. ASSUME NEW k \in Others, CachesOther(w, k) PROVE Invariant'
  <2> DEFINE e == [key |-> k, value |-> "on", life |-> "live"]
             after == AfterSet(cache, e)
             gone == {g \in Flags \ KeysOf(after) : Found(cache, g) # {}}
  <2>1. e \in Entry /\ e.key = k
    BY DEF Entry, Values, Lives
  <2>2. InMemory(w) /\ Written /\ memory' = [memory EXCEPT ![w] = after] /\ Evicts(w, gone)
    BY <1>6 DEF CachesOther, cache
  <2> HIDE DEF e
  <2>3. /\ after \in Caches
        /\ \A g : g # k => \/ Found(after, g) = Found(cache, g)
                           \/ Found(after, g) = {} /\ g \notin KeysOf(after)
    BY <1>1, <2>1, SetFinds DEF IsCache
  <2> HIDE DEF after
  <2>4. asked' \in [Flags -> Owed] /\ writes' \in 0..MaxWrites
    BY <1>1, <2>2, DebtTypes, WrittenType
  <2>5. ASSUME NEW g \in Flags
        PROVE  \/ asked'[g] = NothingOwed
               \/ asked'[g] = asked[g] /\ (asked[g].at = w => Found(after, g) = Found(cache, g))
    <3>0. g # k
      BY FlagsAssumption
    <3>1. CASE g \in gone /\ asked[g].at = w
      BY <2>2, <3>1 DEF Evicts
    <3>2. CASE ~(g \in gone /\ asked[g].at = w)
      BY <2>2, <2>3, <3>0, <3>2 DEF Evicts
    <3> QED BY <3>1, <3>2
  <2> HIDE DEF gone
  <2>6. \A g \in Flags : Settles(w, after, g)
    BY <2>5 DEF Settles, cache
  <2> QED BY <2>2, <2>3, <2>4, <2>6, InMemoryInvariant
<1>7. ASSUME NEW k \in Others, MarksOther(w, k) PROVE Invariant'
  <2> DEFINE e == [key |-> k, value |-> "on", life |-> "live"]
             after == AfterSetnx(cache, e)
  <2>1. e \in Entry /\ e.key = k
    BY DEF Entry, Values, Lives
  <2>2. InMemory(w) /\ Written /\ memory' = [memory EXCEPT ![w] = after] /\ asked' = asked
    BY <1>7 DEF MarksOther, cache
  <2> HIDE DEF e
  <2>3. after \in Caches /\ \A g : g # k => Found(after, g) = Found(cache, g)
    BY <1>1, <2>1, SetnxFinds DEF IsCache
  <2> HIDE DEF after
  <2>4. writes' \in 0..MaxWrites /\ \A g \in Flags : g # k
    BY <1>1, <2>2, WrittenType, FlagsAssumption
  <2>5. \A g \in Flags : Settles(w, after, g)
    BY <2>2, <2>3, <2>4 DEF Settles, cache
  <2> QED BY <1>1, <2>2, <2>3, <2>4, <2>5, InMemoryInvariant
<1>8. ASSUME DeletesOthers(w) PROVE Invariant'
  <2> DEFINE after == AfterDeletePattern(cache, Others)
  <2>1. after \in Caches /\ \A g : Found(after, g) = IF g \in Others THEN {} ELSE Found(cache, g)
    BY <1>1, WithoutEntries, WithoutFinds DEF IsCache, AfterDeletePattern
  <2>2. InMemory(w) /\ memory' = [memory EXCEPT ![w] = after] /\ asked' = asked /\ writes' = writes
    BY <1>8 DEF DeletesOthers, cache
  <2> HIDE DEF after
  <2>3. \A g \in Flags : Found(after, g) = Found(cache, g)
    BY <2>1, FlagsAssumption
  <2>4. \A g \in Flags : Settles(w, after, g)
    BY <2>2, <2>3 DEF Settles, cache
  <2>5. asked' \in [Flags -> Owed] /\ writes' \in 0..MaxWrites
    BY <1>1, <2>2
  <2> QED BY <2>1, <2>2, <2>4, <2>5, InMemoryInvariant
<1> QED BY <1>3, <1>4, <1>5, <1>6, <1>7, <1>8
\* A step of Redis settles a flag: nothing is owed of it, or what is owed is left as it was,
\* or Redis has what it owes now.
SettlesInRedis(f) ==
  \/ asked'[f] = NothingOwed
  \/ asked'[f] = asked[f] /\ redis'[f] = redis[f]
  \/ /\ asked'[f].at = "redis" /\ redis'[f].value = asked'[f].value
     /\ redis'[f].life = "live" => asked'[f].mayExpire

\* A step that leaves the workers' caches settles the debts it touches.
LEMMA DebtSettled ==
  ASSUME NEW f \in Flags, Debt(f), SettlesInRedis(f), UNCHANGED <<mode, memory>>
  PROVE  Debt(f)'
<1>1. CASE asked'[f] = NothingOwed
  BY <1>1, DebtDropped
<1>2. CASE asked'[f] = asked[f] /\ redis'[f] = redis[f]
  BY <1>2, DebtKept
<1>3. CASE /\ asked'[f].at = "redis" /\ redis'[f].value = asked'[f].value
           /\ redis'[f].life = "live" => asked'[f].mayExpire
  BY <1>3, DebtInRedis
<1> QED BY <1>1, <1>2, <1>3 DEF SettlesInRedis

\* The end of a call to Redis that settles every flag.
LEMMA EndsInvariant ==
  ASSUME Invariant, NEW w \in Workers, NEW b \in Breaker, Ends(w, b),
         redis' \in [Flags -> Stored], asked' \in [Flags -> Owed], \A f \in Flags : SettlesInRedis(f)
  PROVE  Invariant'
<1>1. Types'
  BY EndsTypes DEF Invariant
<1>2. Calls'
  BY EndsCalls
<1>3. \A f \in Flags : Debt(f)'
  BY DebtSettled DEF Invariant, Ends, conn
<1> QED BY <1>1, <1>2, <1>3 DEF Invariant

\* A call to Redis begins.
LEMMA CallStep ==
  ASSUME Invariant, NEW w \in Workers,
         \/ CheckOnRedis(w)
         \/ \E f \in Flags : ClearOnRedis(w, f)
         \/ \E f \in Flags, value \in Values, persistent \in Persistence : SetOnRedis(w, f, value, persistent)
  PROVE  Invariant'
<1>1. CASE CheckOnRedis(w)
  <2>1. RedisCall(w, "check", NoRequest) /\ writes' \in 0..MaxWrites
    BY <1>1 DEF CheckOnRedis, Invariant, Types
  <2>2. NoRequest \in Request /\ ~NoRequest.ttl
    BY ConstantTypes DEF NoRequest
  <2> QED BY <2>1, <2>2, RedisCallInvariant
<1>2. ASSUME NEW f \in Flags, ClearOnRedis(w, f) PROVE Invariant'
  <2> DEFINE r == [NoRequest EXCEPT !.flag = f]
  <2>1. RedisCall(w, "clear", r) /\ writes' \in 0..MaxWrites
    BY <1>2, WrittenType DEF ClearOnRedis, Invariant
  <2>2. r \in Request /\ ~r.ttl
    BY DEF NoRequest, Request
  <2> HIDE DEF r
  <2> QED BY <2>1, <2>2, RedisCallInvariant
<1>3. ASSUME NEW f \in Flags, NEW value \in Values, NEW persistent \in Persistence,
             SetOnRedis(w, f, value, persistent)
      PROVE  Invariant'
  <2> DEFINE r == [flag |-> f, value |-> value, ttl |-> TimeToLive(f, persistent),
                   mayExpire |-> MayExpire(f, persistent)]
  <2>1. RedisCall(w, "set", r) /\ writes' \in 0..MaxWrites
    BY <1>3, WrittenType DEF SetOnRedis, Invariant
  <2>2. r \in Request /\ (r.ttl => r.mayExpire)
    BY ConstantTypes, OnlyTheseExpire DEF Request
  <2> HIDE DEF r
  <2> QED BY <2>1, <2>2, RedisCallInvariant
<1> QED BY <1>1, <1>2, <1>3

\* What Redis executes is what was asked for, and lives only as long as that may.
LEMMA ExecutedIsAsked ==
  ASSUME NEW r \in Request, r.ttl => r.mayExpire
  PROVE  Executed(r).value = r.value /\ (Executed(r).life = "live" => r.mayExpire)
<1>1. CASE r.value = "unset"
  BY <1>1 DEF Executed, Missing
<1>2. CASE r.value # "unset"
  BY <1>2 DEF Executed, Life, Request
<1> QED BY <1>1, <1>2

\* A call to Redis ends.
LEMMA ReturnStep ==
  ASSUME Invariant, NEW w \in Workers, Returns(w)
  PROVE  Invariant'
<1> DEFINE r == about[w]
           executed == [redis EXCEPT ![r.flag] = Executed(r)]
<1>1. /\ r \in Request /\ r.flag \in Flags /\ (r.ttl => r.mayExpire) /\ brk[w] \in Breaker
      /\ redis \in [Flags -> Stored] /\ asked \in [Flags -> Owed]
      /\ r.value \in Values \cup {"unset"} /\ r.mayExpire \in BOOLEAN
  BY DEF Invariant, Types, Calls, Request
<1>2. Succeeded(brk[w]) \in Breaker /\ Failed(brk[w]) \in Breaker
  BY <1>1, BreakerSteps
<1>3. executed \in [Flags -> Stored] /\ executed[r.flag] = Executed(r)
      /\ \A f \in Flags : f # r.flag => executed[f] = redis[f]
  BY <1>1, ExecutedType
<1>4. Executed(r).value = r.value /\ (Executed(r).life = "live" => r.mayExpire)
  BY <1>1, ExecutedIsAsked
<1> HIDE DEF r, executed
<1>5. CASE Checked(w) \/ CheckFails(w)
  <2>1. redis' = redis /\ asked' = asked /\ \E b \in Breaker : Ends(w, b)
    BY <1>2, <1>5 DEF Checked, CheckFails
  <2>2. \A f \in Flags : SettlesInRedis(f)
    BY <2>1 DEF SettlesInRedis
  <2> QED BY <1>1, <2>1, <2>2, EndsInvariant
<1>6. CASE WriteSucceeds(w)
  <2>1. /\ redis' = executed /\ Ends(w, Succeeded(brk[w]))
        /\ Asks(r.flag, r.value, r.mayExpire, "redis")
    BY <1>6 DEF WriteSucceeds, r, executed
  <2>2. asked' \in [Flags -> Owed]
    BY <1>1, <2>1, DebtTypes
  <2>3. \A f \in Flags : f # r.flag => asked'[f] = asked[f]
    BY <1>1, <2>1 DEF Asks
  <2>4. asked'[r.flag] = [value |-> r.value, mayExpire |-> r.mayExpire, at |-> "redis"]
    BY <1>1, <2>1 DEF Asks
  <2>5. \A f \in Flags : SettlesInRedis(f)
    BY <1>3, <1>4, <2>1, <2>3, <2>4 DEF SettlesInRedis
  <2> QED BY <1>2, <1>3, <2>1, <2>2, <2>5, EndsInvariant
<1>7. CASE WriteFails(w)
  <2>1. /\ redis' \in {redis, executed} /\ Ends(w, Failed(brk[w])) /\ Dropped(r.flag)
    BY <1>7 DEF WriteFails, r, executed
  <2>2. asked' \in [Flags -> Owed] /\ redis' \in [Flags -> Stored]
    BY <1>1, <1>3, <2>1, DebtTypes
  <2>3. asked'[r.flag] = NothingOwed /\ \A f \in Flags : f # r.flag => asked'[f] = asked[f]
    BY <1>1, <2>1 DEF Dropped
  <2>4. \A f \in Flags : SettlesInRedis(f)
    BY <1>3, <2>1, <2>3 DEF SettlesInRedis
  <2> QED BY <1>2, <2>1, <2>2, <2>4, EndsInvariant
<1> QED BY <1>5, <1>6, <1>7 DEF Returns
\* Entries expire, in the order of time.
LEMMA ExpiryStep ==
  ASSUME Invariant, NEW w \in Workers, ExpiresInMemory(w)
  PROVE  Invariant'
<1>1. PICK i \in DOMAIN memory[w] :
        /\ memory[w][i].life = "live"
        /\ memory' = [memory EXCEPT ![w][i].life = "expired"]
        /\ ExpiresAt(w, {memory[w][i].key})
        /\ UNCHANGED <<conn, redis, brk, doing, about, writes>>
  BY DEF ExpiresInMemory
<1> DEFINE cache == memory[w]
           k == cache[i].key
           after == [cache EXCEPT ![i].life = "expired"]
           gone == {f \in {k} \cap Flags : asked[f].mayExpire}
<1>2. /\ IsCache(cache) /\ Types /\ memory \in [Workers -> Caches] /\ mode \in [Workers -> {"redis", "memory", "nowhere"}]
      /\ asked \in [Flags -> Owed] /\ w \in Workers \cup {"redis", "nowhere"}
      /\ \A f \in Flags : Debt(f)
  BY DEF Invariant, Types, IsCache
<1>3. memory' = [memory EXCEPT ![w] = after] /\ Evicts(w, gone)
  BY <1>1, <1>2 DEF ExpiresAt
<1>4. On(w, "memory")
  <2>1. memory[w] # << >>
    BY <1>1
  <2> QED BY <1>2, <2>1 DEF Types, On
<1>5. after \in Caches /\ \A g : Found(after, g) = IF g = k THEN {} ELSE Found(cache, g)
  BY <1>1, <1>2, ExpiryFinds DEF IsCache
<1>6. cache[i] \in Found(cache, k)
  BY <1>1 DEF Found, IsExpired
<1>7. cache[i] \in EntriesOf(cache) /\ \A x \in Found(cache, k) : x \in EntriesOf(cache) /\ x.key = k
  BY <1>1 DEF Found, EntriesOf
<1>8. \A x \in Found(cache, k) : x = cache[i]
  BY <1>2, <1>7, OneEntry
<1> HIDE DEF after
<1>9. asked' \in [Flags -> Owed]
  BY <1>2, <1>3, DebtTypes
<1>10. Types'
  BY <1>1, <1>2, <1>3, <1>4, <1>5, <1>9, InMemoryTypes DEF Types
<1>11. Calls'
  BY <1>1 DEF Invariant, Calls, conn
<1>12. ASSUME NEW f \in Flags PROVE Debt(f)'
  <2>1. \A v \in Workers : memory'[v] = IF v = w THEN after ELSE memory[v]
    BY <1>2, <1>3
  <2>2. mode' = mode /\ redis' = redis
    BY <1>1 DEF conn
  <2>3. CASE f \in gone /\ asked[f].at = w
    BY <1>3, <2>3, DebtDropped DEF Evicts
  <2>4. CASE ~(f \in gone /\ asked[f].at = w)
    <3>1. asked'[f] = asked[f]
      BY <1>3, <2>4 DEF Evicts
    <3>2. asked[f].at = w => Found(after, f) = Found(cache, f)
      <4> SUFFICES ASSUME asked[f].at = w, f = k PROVE FALSE
        BY <1>5
      <4>1. ~asked[f].mayExpire
        BY <2>4
      <4>2. Remembers(w, f)
        BY <1>2 DEF Debt
      <4> QED BY <1>1, <1>6, <1>8, <4>1, <4>2 DEF Remembers
    <3> HIDE DEF cache, k, gone
    <3>3. \A v \in Workers : asked[f].at = v =>
             mode'[v] = mode[v] /\ Found(memory'[v], f) = Found(memory[v], f)
      BY <2>1, <2>2, <3>2 DEF cache
    <3> QED BY <1>2, <2>2, <3>1, <3>3, DebtKept
  <2> QED BY <2>3, <2>4
<1> QED BY <1>10, <1>11, <1>12 DEF Invariant

\* A worker is restarted.
LEMMA RestartStep ==
  ASSUME Invariant, NEW w \in Workers, Restarts(w)
  PROVE  Invariant'
<1> DEFINE r == about[w]
           executed == [redis EXCEPT ![r.flag] = Executed(r)]
<1>1. /\ r \in Request /\ r.flag \in Flags /\ redis \in [Flags -> Stored] /\ asked \in [Flags -> Owed]
      /\ mode \in [Workers -> {"redis", "memory", "nowhere"}] /\ memory \in [Workers -> Caches]
      /\ (doing[w] # "nothing" => mode[w] = "redis") /\ w \in Workers \cup {"redis", "nowhere"}
      /\ \A f \in Flags : Debt(f)
  BY DEF Invariant, Types, Calls, Request
<1>2. executed \in [Flags -> Stored] /\ \A f \in Flags : f # r.flag => executed[f] = redis[f]
  BY <1>1, ExecutedType
<1>3. Connected \in {"redis", "memory", "nowhere"}
  BY DEF Connected
<1>4. /\ mode' = [mode EXCEPT ![w] = Connected] /\ memory' = [memory EXCEPT ![w] = << >>]
      /\ UNCHANGED <<fallback, up, writes>>
  BY DEF Restarts
<1>5. \A v \in Workers : v # w => mode'[v] = mode[v] /\ memory'[v] = memory[v]
  BY <1>1, <1>4
<1> HIDE DEF r, executed
<1>6. /\ redis' \in [Flags -> Stored] /\ asked' \in [Flags -> Owed]
      /\ \A f \in Flags : Debt(f)'
  <2>1. CASE doing[w] \in {"set", "clear"}
    <3>1. redis' \in {redis, executed} /\ Dropped(r.flag)
      BY <2>1 DEF Restarts, r, executed
    <3>2. asked'[r.flag] = NothingOwed /\ \A f \in Flags : f # r.flag => asked'[f] = asked[f]
      BY <1>1, <3>1 DEF Dropped
    <3>3. mode[w] = "redis"
      BY <1>1, <2>1
    <3>4. ASSUME NEW f \in Flags, f # r.flag PROVE Debt(f)'
      <4>1. asked'[f] = asked[f] /\ redis'[f] = redis[f]
        BY <1>2, <3>1, <3>2, <3>4
      <4>2. asked[f].at # w
        BY <1>1, <3>3 DEF Debt
      <4> QED BY <1>1, <1>5, <4>1, <4>2, DebtKept
    <3>5. ASSUME NEW f \in Flags, f = r.flag PROVE Debt(f)'
      BY <3>2, <3>5, DebtDropped
    <3> QED BY <1>1, <1>2, <3>1, <3>4, <3>5, DebtTypes
  <2>2. CASE doing[w] \notin {"set", "clear"}
    <3>1. Evicts(w, Flags) /\ redis' = redis
      BY <2>2 DEF Restarts
    <3>2. ASSUME NEW f \in Flags PROVE Debt(f)'
      <4>1. CASE asked[f].at = w
        BY <3>1, <4>1, DebtDropped DEF Evicts
      <4>2. CASE asked[f].at # w
        BY <1>1, <1>5, <3>1, <4>2, DebtKept DEF Evicts
      <4> QED BY <4>1, <4>2
    <3> QED BY <1>1, <3>1, <3>2, DebtTypes
  <2> QED BY <2>1, <2>2
<1>7. /\ brk' = [brk EXCEPT ![w] = Closed] /\ doing' = [doing EXCEPT ![w] = "nothing"]
      /\ about' = [about EXCEPT ![w] = NoRequest]
  BY DEF Restarts
<1>8. Types'
  <2>1. Closed \in Breaker
    BY ThresholdAssumption DEF Closed, Breaker
  <2>2. \A v \in Workers : mode'[v] # "memory" => memory'[v] = << >>
    BY <1>1, <1>4, <1>5 DEF Invariant, Types
  <2>3. mode' \in [Workers -> {"redis", "memory", "nowhere"}] /\ memory' \in [Workers -> Caches]
    BY <1>1, <1>3, <1>4, ConstantTypes
  <2> QED BY <1>4, <1>6, <1>7, <2>1, <2>2, <2>3, ConstantTypes DEF Invariant, Types
<1>9. Calls'
  <2>1. NoRequest.ttl = FALSE
    BY DEF NoRequest
  <2>2. \A v \in Workers : /\ doing'[v] = IF v = w THEN "nothing" ELSE doing[v]
                           /\ about'[v] = IF v = w THEN NoRequest ELSE about[v]
    BY <1>7 DEF Invariant, Types
  <2> QED BY <1>5, <2>1, <2>2 DEF Invariant, Calls
<1> QED BY <1>6, <1>8, <1>9 DEF Invariant

\* Redis loses a flag, or expires it.
LEMMA LossStep ==
  ASSUME Invariant, NEW f \in Flags, ExpiresInRedis(f) \/ EvictedFromRedis(f)
  PROVE  Invariant'
<1>1. redis' = [redis EXCEPT ![f] = Missing] /\ UNCHANGED <<conn, memory, brk, doing, about, writes>>
  BY DEF ExpiresInRedis, EvictedFromRedis
<1>2. redis \in [Flags -> Stored] /\ asked \in [Flags -> Owed] /\ Debt(f)
  BY DEF Invariant, Types
<1>3. asked' \in [Flags -> Owed]
  BY <1>2, DebtTypes DEF ExpiresInRedis, EvictedFromRedis, ExpiresAt
<1>4. asked'[f] = NothingOwed \/ (asked'[f] = asked[f] /\ asked[f].at # "redis")
  BY <1>2 DEF ExpiresInRedis, EvictedFromRedis, ExpiresAt, Evicts, Debt
<1>5. \A g \in Flags : g # f => asked'[g] = asked[g] /\ redis'[g] = redis[g]
  BY <1>1, <1>2 DEF ExpiresInRedis, EvictedFromRedis, ExpiresAt, Evicts
<1>6. Types'
  BY <1>1, <1>2, <1>3, ConstantTypes DEF Invariant, Types, conn
<1>7. Calls'
  BY <1>1 DEF Invariant, Calls, conn
<1>8. ASSUME NEW g \in Flags PROVE Debt(g)'
  <2>1. CASE asked'[g] = NothingOwed
    BY <2>1, DebtDropped
  <2>2. CASE asked'[g] # NothingOwed
    BY <1>1, <1>4, <1>5, <2>2, DebtKept DEF Invariant, conn
  <2> QED BY <2>1, <2>2
<1> QED BY <1>6, <1>7, <1>8 DEF Invariant

\* Whatever leaves the stores alone leaves the debts as they were.
LEMMA OtherStep ==
  ASSUME Invariant,
         \/ \E w \in Workers, f \in Flags : WriteNowhere(w, f)
         \/ \E w \in Workers : BreakerExpires(w)
         \/ RedisGoesDownOrUp
         \/ UNCHANGED vars
  PROVE  Invariant'
<1>1. /\ UNCHANGED <<mode, redis, memory, doing, about>>
      /\ \A f \in Flags : asked'[f] = NothingOwed \/ asked'[f] = asked[f]
  BY DEF Invariant, Types, WriteNowhere, Dropped, BreakerExpires, RedisGoesDownOrUp, vars, conn
<1>2. asked' \in [Flags -> Owed]
  BY <1>1, ConstantTypes DEF Invariant, Types, WriteNowhere, Dropped, BreakerExpires, RedisGoesDownOrUp, vars
<1>3. /\ fallback' \in BOOLEAN /\ up' \in BOOLEAN /\ writes' \in 0..MaxWrites
      /\ brk' \in [Workers -> Breaker]
  <2>1. ASSUME NEW w \in Workers, NEW f \in Flags, WriteNowhere(w, f)
        PROVE  writes' \in 0..MaxWrites
    BY <2>1, WrittenType DEF WriteNowhere, Invariant
  <2>2. ASSUME NEW w \in Workers, BreakerExpires(w)
        PROVE  brk' \in [Workers -> Breaker]
    BY <2>2, BreakerSteps DEF BreakerExpires, Invariant, Types
  <2> QED BY <2>1, <2>2 DEF Invariant, Types, WriteNowhere, BreakerExpires, RedisGoesDownOrUp, vars, conn
<1>4. Types' /\ Calls'
  BY <1>1, <1>2, <1>3 DEF Invariant, Types, Calls
<1>5. \A f \in Flags : Debt(f)'
  BY <1>1, DebtDropped, DebtKept DEF Invariant
<1> QED BY <1>4, <1>5 DEF Invariant

\* Every step keeps the invariant.
LEMMA StepInvariant == Invariant /\ [Next]_vars => Invariant'
<1> SUFFICES ASSUME Invariant, [Next]_vars PROVE Invariant'
  OBVIOUS
<1>1. ASSUME NEW w \in Workers, Check(w) PROVE Invariant'
  BY <1>1, CallStep, MemoryStep DEF Check
<1>2. ASSUME NEW w \in Workers, Write(w) PROVE Invariant'
  BY <1>2, CallStep, MemoryStep, OtherStep DEF Write
<1>3. ASSUME NEW w \in Workers, Returns(w) PROVE Invariant'
  BY <1>3, ReturnStep
<1>4. ASSUME NEW w \in Workers, BreakerExpires(w) \/ ExpiresInMemory(w) \/ Restarts(w) PROVE Invariant'
  BY <1>4, OtherStep, ExpiryStep, RestartStep
<1>5. ASSUME NEW f \in Flags, ExpiresInRedis(f) \/ EvictedFromRedis(f) PROVE Invariant'
  BY <1>5, LossStep
<1>6. CASE RedisGoesDownOrUp \/ UNCHANGED vars
  BY <1>6, OtherStep
<1> QED BY <1>1, <1>2, <1>3, <1>4, <1>5, <1>6 DEF Next
-----------------------------------------------------------------------------
(* Theorems *)

\* The invariant holds in every reachable state.
THEOREM InvariantHolds == Spec => []Invariant
BY InitInvariant, StepInvariant, PTL DEF Spec

\* Every variable keeps its type, the in-memory cache of a worker has each key once, and
\* only a worker without Redis has one.
THEOREM TypeCorrect == Spec => []TypeOK
<1>1. Invariant => TypeOK
  BY TypesSuffice DEF Invariant
<1> QED BY <1>1, InvariantHolds, PTL

\* A flag is read as what was asked for last of the store that is read.
LEMMA DebtIsRead ==
  ASSUME Invariant, NEW w \in Workers, NEW f \in Flags, asked[f].at = Store(w)
  PROVE  ValueFor(w, f) = asked[f].value
<1>1. /\ mode[w] \in {"redis", "memory", "nowhere"} /\ IsCache(memory[w]) /\ Debt(f)
      /\ asked[f].value \in Values \cup {"unset"}
  BY DEF Invariant, Types, Owed, IsCache
<1>2. CASE mode[w] = "redis"
  BY <1>1, <1>2 DEF Store, ValueFor, Debt
<1>3. CASE mode[w] = "nowhere"
  BY <1>1, <1>3 DEF Store, ValueFor, Debt
<1>4. CASE mode[w] = "memory"
  <2> DEFINE found == Found(memory[w], f)
  <2>1. Remembers(w, f)
    BY <1>1, <1>4 DEF Store, Debt
  <2>2. ValueFor(w, f) = IF found = {} THEN "unset" ELSE (CHOOSE e \in found : TRUE).value
    BY <1>4 DEF ValueFor
  <2>3. \A x, y \in found : x = y
    <3>1. \A x \in found : x \in EntriesOf(memory[w]) /\ x.key = f
      BY DEF Found, EntriesOf
    <3> HIDE DEF found
    <3> QED BY <1>1, <3>1, OneEntry
  <2>4. IF asked[f].value = "unset" THEN found = {} ELSE \E e \in found : e.value = asked[f].value
    BY <2>1 DEF Remembers
  <2> HIDE DEF found
  <2>5. CASE asked[f].value = "unset"
    BY <2>2, <2>4, <2>5
  <2>6. CASE asked[f].value # "unset"
    <3>1. PICK e \in found : e.value = asked[f].value
      BY <2>4, <2>6
    <3>2. (CHOOSE x \in found : TRUE) = e
      BY <2>3, <3>1
    <3> QED BY <2>2, <3>1, <3>2
  <2> QED BY <2>5, <2>6
<1> QED BY <1>1, <1>2, <1>3, <1>4

\* While a worker can read its store, a flag answers what was asked for last of it: a
\* critical flag never goes back to its default by itself.
THEOREM KillSwitch == Spec => []KillSwitchHolds
<1>1. Invariant => KillSwitchHolds
  BY DebtIsRead DEF KillSwitchHolds
<1> QED BY <1>1, InvariantHolds, PTL

\* A step in the memory of a worker leaves it no larger than its limit or than it was,
\* unless it is a marker.
LEMMA GrowthStep ==
  ASSUME Invariant, NEW w \in Workers, Check(w) \/ Write(w),
         \A k \in Others : ~MarksOther(w, k)
  PROVE  Len(memory'[w]) <= MaxSize \/ Len(memory'[w]) <= Len(memory[w])
<1> DEFINE cache == memory[w]
<1>1. IsCache(cache) /\ Len(cache) \in Nat /\ Types
  BY DEF Invariant, Types, IsCache, Caches
<1>2. \A after : memory' = [memory EXCEPT ![w] = after] => memory'[w] = after
  BY <1>1 DEF Types
<1> HIDE DEF cache
<1>3. ASSUME memory' = memory PROVE Len(memory'[w]) <= Len(memory[w])
  BY <1>1, <1>3 DEF cache
<1>4. ASSUME NEW f \in Flags, CheckInMemory(w, f) PROVE Len(memory'[w]) <= Len(memory[w])
  <2>1. memory'[w] = AfterGet(cache, f)
    BY <1>2, <1>4 DEF CheckInMemory, cache
  <2> QED BY <1>1, <2>1, GetFinds DEF cache
<1>5. ASSUME NEW f \in Flags, ClearInMemory(w, f) PROVE Len(memory'[w]) <= Len(memory[w])
  <2>1. memory'[w] = Without(cache, {f})
    BY <1>2, <1>5 DEF ClearInMemory, AfterDelete, cache
  <2> QED BY <1>1, <2>1, WithoutEntries DEF cache
<1>6. ASSUME NEW f \in Flags, NEW value \in Values, NEW persistent \in Persistence,
             SetInMemory(w, f, value, persistent)
      PROVE  Len(memory'[w]) <= MaxSize \/ Len(memory'[w]) <= Len(memory[w])
  <2> DEFINE e == [key |-> f, value |-> value, life |-> Life(TimeToLive(f, persistent))]
  <2>1. e \in Entry
    BY ConstantTypes DEF Entry
  <2>2. memory'[w] = AfterSet(cache, e)
    BY <1>2, <1>6 DEF SetInMemory, cache
  <2> HIDE DEF e
  <2> QED BY <1>1, <2>1, <2>2, SetFinds DEF cache
<1>7. ASSUME NEW k \in Others, CachesOther(w, k)
      PROVE  Len(memory'[w]) <= MaxSize \/ Len(memory'[w]) <= Len(memory[w])
  <2> DEFINE e == [key |-> k, value |-> "on", life |-> "live"]
  <2>1. e \in Entry
    BY DEF Entry, Values, Lives
  <2>2. memory'[w] = AfterSet(cache, e)
    BY <1>2, <1>7 DEF CachesOther, cache
  <2> HIDE DEF e
  <2> QED BY <1>1, <2>1, <2>2, SetFinds DEF cache
<1>8. ASSUME DeletesOthers(w) PROVE Len(memory'[w]) <= Len(memory[w])
  <2>1. memory'[w] = Without(cache, Others)
    BY <1>2, <1>8 DEF DeletesOthers, AfterDeletePattern, cache
  <2> QED BY <1>1, <2>1, WithoutEntries DEF cache
<1>9. CASE \/ CheckOnRedis(w)
           \/ \E f \in Flags : ClearOnRedis(w, f) \/ WriteNowhere(w, f)
           \/ \E f \in Flags, value \in Values, persistent \in Persistence : SetOnRedis(w, f, value, persistent)
  BY <1>3, <1>9 DEF CheckOnRedis, ClearOnRedis, SetOnRedis, RedisCall, WriteNowhere
<1> QED BY <1>4, <1>5, <1>6, <1>7, <1>8, <1>9 DEF Check, Write

\* The in-memory cache of a worker outgrows its limit only by the markers of setnx().
THEOREM GrowsByMarkers == Spec => GrowsOnlyByMarkers
<1> DEFINE Bounded(w) == Len(memory'[w]) <= MaxSize \/ Len(memory'[w]) <= Len(memory[w])
           Grows == \A w \in Workers :
                      Len(memory'[w]) > MaxSize /\ Len(memory'[w]) > Len(memory[w]) =>
                        \E k \in Others : MarksOther(w, k)
<1>1. ASSUME Invariant, Invariant', [Next]_vars PROVE Grows
  <2>1. \A v \in Workers : IsCache(memory[v]) /\ Len(memory[v]) \in Nat /\ Len(memory'[v]) \in Nat
    BY <1>1 DEF Invariant, Types, IsCache, Caches
  <2>2. SUFFICES ASSUME NEW w \in Workers, \A k \in Others : ~MarksOther(w, k) PROVE Bounded(w)
    BY <2>1, CacheSizeAssumption
  <2>3. ASSUME memory'[w] = memory[w] PROVE Bounded(w)
    BY <2>1, <2>3
  <2>4. ASSUME NEW v \in Workers, v # w,
               Check(v) \/ Write(v) \/ ExpiresInMemory(v) \/ Restarts(v)
        PROVE  memory'[w] = memory[w]
    BY <1>1, <2>4 DEF Check, CheckOnRedis, CheckInMemory, Write, ClearOnRedis, ClearInMemory, WriteNowhere,
                      SetOnRedis, SetInMemory, CachesOther, MarksOther, DeletesOthers, RedisCall,
                      ExpiresInMemory, Restarts, Invariant, Types
  <2>5. ASSUME Check(w) \/ Write(w) PROVE Bounded(w)
    BY <1>1, <2>2, <2>5, GrowthStep
  <2>6. ASSUME ExpiresInMemory(w) PROVE Bounded(w)
    <3>1. PICK i \in DOMAIN memory[w] : memory' = [memory EXCEPT ![w][i].life = "expired"]
      BY <2>6 DEF ExpiresInMemory
    <3>2. memory'[w] = [memory[w] EXCEPT ![i].life = "expired"]
      BY <1>1, <3>1 DEF Invariant, Types
    <3>3. Len(memory'[w]) = Len(memory[w])
      BY <2>1, <3>2, ExpiryFinds
    <3> QED BY <2>1, <3>3
  <2>7. ASSUME Restarts(w) PROVE Bounded(w)
    <3>1. memory'[w] = << >>
      BY <1>1, <2>7 DEF Restarts, Invariant, Types
    <3> QED BY <2>1, <3>1
  <2>8. CASE \/ \E v \in Workers : Returns(v) \/ BreakerExpires(v)
             \/ \E f \in Flags : ExpiresInRedis(f) \/ EvictedFromRedis(f)
             \/ RedisGoesDownOrUp
             \/ UNCHANGED vars
    <3>1. memory' = memory
      BY <2>8 DEF Returns, Checked, CheckFails, WriteSucceeds, WriteFails, Ends, BreakerExpires,
                  ExpiresInRedis, EvictedFromRedis, RedisGoesDownOrUp, vars
    <3> QED BY <2>3, <3>1
  <2> HIDE DEF Bounded
  <2> QED BY <1>1, <2>3, <2>4, <2>5, <2>6, <2>7, <2>8 DEF Next
<1>2. Invariant /\ Invariant' /\ [Next]_vars => [Grows]_vars
  BY <1>1
<1> QED BY <1>2, InvariantHolds, PTL DEF Spec, GrowsOnlyByMarkers
===============================================================================
