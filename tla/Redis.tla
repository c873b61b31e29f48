------------------------------- MODULE Redis -------------------------------
(***************************************************************************)
(* RedisService: a cache of what the handlers read.  A key is a tuple, its *)
(* kind and what it is about; a key that is absent or has expired is not   *)
(* in the domain of cache.                                                  *)
(***************************************************************************)
EXTENDS Handlers

VARIABLE cache   \* the keys that Redis holds and their values

RedisInit == cache = <<>>

-----------------------------------------------------------------------------

\* getOrSet: the steps of one read through the cache.  The callback ("select") belongs to
\* the module that owns the table.
GetOrSet(k) == <<<<"get", k>>, <<"select", k>>, <<"set", k>>>>

\* A hit skips the callback and the set.
CacheGet(r) ==
  /\ At(r, "get")
  /\ LET k == Arg(r, 1) IN
     IF k \in DOMAIN cache
       THEN Goes(r, SubSeq(req[r].todo, 4, Len(req[r].todo)), With(req[r].got, k[1], cache[k]))
       ELSE Continue(r)
  /\ UNCHANGED cache

CacheSet(r) ==
  /\ At(r, "set")
  /\ cache' = With(cache, Arg(r, 1), Got(r, Arg(r, 1)[1]))
  /\ Continue(r)

\* set, get and delete, called directly.  A get of an absent key reads nothing.
CachePut(r) ==
  /\ At(r, "put")
  /\ cache' = With(cache, Arg(r, 1), Arg(r, 2))
  /\ Continue(r)

CachePeek(r) ==
  /\ At(r, "peek")
  /\ LET k == Arg(r, 1) IN
     IF k \in DOMAIN cache THEN Read(r, k[1], cache[k])
     ELSE Goes(r, Tail(req[r].todo), Without(req[r].got, {k[1]}))
  /\ UNCHANGED cache

CacheDelete(r) ==
  /\ At(r, "delete")
  /\ cache' = Without(cache, {Arg(r, 1)})
  /\ Continue(r)

\* deleteByPattern: SCAN finds the keys that match, UNLINK removes them.
CacheScan(r) ==
  /\ At(r, "scan")
  /\ LET found == Arg(r, 1) \cap DOMAIN cache IN
     Do(r, IF found = {} THEN <<>> ELSE <<<<"unlink", found>>>>)
  /\ UNCHANGED cache

CacheUnlink(r) ==
  /\ At(r, "unlink")
  /\ cache' = Without(cache, Arg(r, 1))
  /\ Continue(r)

RedisSteps(r) ==
  \/ CacheGet(r) \/ CacheSet(r) \/ CachePut(r) \/ CachePeek(r)
  \/ CacheDelete(r) \/ CacheScan(r) \/ CacheUnlink(r)

\* Mutant of Expire: the statuses of users and the pages of types are set without a TTL.
ExpireAllButSome(k) ==
  /\ mix.lasting /\ k \in DOMAIN cache /\ k[1] \notin {"status", "listings"}
  /\ cache' = Without(cache, {k})
  /\ UNCHANGED handlerVars

\* The TTL every key is set with runs out.
Expire(k) ==
  /\ mix.lasting /\ k \in DOMAIN cache
  /\ cache' = Without(cache, {k})
  /\ UNCHANGED handlerVars

\* What a reader gets from a key is v, whether it is cached or not.
Agrees(k, v) == k \in DOMAIN cache => cache[k] = v
=============================================================================
