---------------------------- MODULE InMemoryCache -----------------------------
(***************************************************************************)
(* InMemoryCache (core/infrastructure/cache/service.py): a dict with times  *)
(* of expiry.  A Python dict keeps the order of insertion, and a key that is *)
(* overwritten keeps its place: the cache is a sequence of entries.  Every   *)
(* method holds the lock without awaiting anything: it is one step.          *)
(***************************************************************************)
EXTENDS Naturals, Sequences, FiniteSets

CONSTANTS MaxSize,   \* max_size
          Share      \* one of so many entries is evicted when the cache is full: 10

ASSUME CacheSizeAssumption == MaxSize \in Nat /\ Share \in Nat \ {0} /\ MaxSize >= Share

\* An entry without a time to live lasts; another one lives and has expired later.
Lives == {"lasting", "live", "expired"}

Life(ttl) == IF ttl THEN "live" ELSE "lasting"

KeysOf(cache) == {cache[i].key : i \in DOMAIN cache}

\* The n-th of some places of a sequence, and the entries at these places in their order:
\* SelectSeq with a set for its predicate, which lemmas can be stated about.
Place(places, n) == CHOOSE i \in places : Cardinality({j \in places : j <= i}) = n
Kept(cache, places) == [n \in 1..Cardinality(places) |-> cache[Place(places, n)]]

Without(cache, keys) == Kept(cache, {i \in DOMAIN cache : cache[i].key \notin keys})

IsExpired(e) == e.life = "expired"

\* The entry of a key, if it has not expired.
Found(cache, key) ==
  {e \in {cache[i] : i \in DOMAIN cache} : e.key = key /\ ~IsExpired(e)}

\* get() deletes an entry that has expired.
AfterGet(cache, key) == IF Found(cache, key) = {} THEN Without(cache, {key}) ELSE cache

CleanupExpired(cache) == Kept(cache, {i \in DOMAIN cache : ~IsExpired(cache[i])})

\* dict.__setitem__
Put(cache, e) ==
  IF e.key \in KeysOf(cache)
  THEN [i \in DOMAIN cache |-> IF cache[i].key = e.key THEN e ELSE cache[i]]
  ELSE Append(cache, e)

\* Mutant: expired entries are cleaned up, and nothing else.
MakeRoomOfExpired(cache) == IF Len(cache) >= MaxSize THEN CleanupExpired(cache) ELSE cache

\* The eviction of a full cache: expired entries, and if that does not do the oldest.
MakeRoom(cache) ==
  LET cleaned == CleanupExpired(cache)
  IN IF Len(cache) < MaxSize THEN cache
     ELSE IF Len(cleaned) < MaxSize THEN cleaned
     ELSE SubSeq(cleaned, MaxSize \div Share + 1, Len(cleaned))

AfterSet(cache, e) == Put(MakeRoom(cache), e)

\* setnx() makes no room.
AfterSetnx(cache, e) == IF Found(cache, e.key) # {} THEN cache ELSE Put(cache, e)

AfterDelete(cache, key) == Without(cache, {key})

\* delete_pattern() of a pattern that matches these keys.
AfterDeletePattern(cache, keys) == Without(cache, keys)
===============================================================================
