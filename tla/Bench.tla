------------------------------- MODULE Bench -------------------------------
(***************************************************************************)
(* The benchmark wrappers of src/bench/cache.go (lines 32-326): six types *)
(* behind one Cache interface (Get, Set, Del), called by the goroutines of *)
(* a benchmark, each wrapping a cache library.  Set with track on first   *)
(* asks the library whether the key is present and logs a Hit or a Miss. *)
(*                                                                         *)
(* The libraries are not in this tree and are abstracted to what the      *)
(* wrappers rely on: ristretto, bigcache, fastcache, freecache and         *)
(* goburrow are maps safe for concurrent use that may drop any entry on   *)
(* their own (capacity, expiry, admission); groupcache's lru.Cache is not  *)
(* safe for concurrent use and is modelled exactly: a recency list of at  *)
(* most Capacity keys, most recent first, where Add moves or pushes a key *)
(* to the front and evicts the back, Get moves a hit to the front and     *)
(* Remove unlinks.  A call into lru.Cache takes two steps (enter, leave); *)
(* two goroutines inside it at once are a data race, whose outcome is     *)
(* undefined: from then on lruRaced is TRUE and the list may be anything. *)
(* A Get of a thread-safe library changes no state and is not modelled,   *)
(* and values are abstracted away: only freecache looks at them (size).   *)
(***************************************************************************)
EXTENDS Naturals, Sequences, SequencesExt, FiniteSets, Functions

CONSTANTS
    Procs,      \* benchmark goroutines
    Keys,       \* keys
    Vals,       \* the []byte values the benchmark sets
    LargeVals,  \* values freecache refuses (ErrLargeEntry)
    Wrappers,   \* the constructors a run may pick
    Track,      \* the track argument of the constructor
    Capacity,   \* the capacity argument (lru.New(capacity))
    MaxSets,    \* bound on the Sets a behaviour makes
    None

AllWrappers == {"ristretto", "basemutex", "bigcache", "fastcache",
                "freecache", "goburrow"}
Libs == AllWrappers \ {"basemutex"}

ASSUME BenchAssumption ==
    /\ Wrappers \subseteq AllWrappers /\ Wrappers # {}
    /\ LargeVals \subseteq Vals
    /\ Track \in BOOLEAN
    /\ Capacity \in Nat \ {0}
    /\ MaxSets \in Nat
    /\ None \notin Procs /\ IsFiniteSet(Procs)

VARIABLES
    wrapper,   \* which NewBench* built the cache
    cache,     \* the keys a thread-safe library holds
    lru,       \* lru.Cache's list, most recently used first
    mu,        \* BenchBaseMutex's mutex: its holder or None
    inLru,     \* goroutines executing inside lru.Cache
    lruRaced,  \* two goroutines have been inside lru.Cache at once
    hits,      \* the PolicyLog's Hit count
    misses,    \* the PolicyLog's Miss count
    sets,      \* Sets started
    pc,        \* where each goroutine is
    arg,       \* each goroutine's call: op, key, value
    panicked   \* log.Panic has ended the benchmark

vars == <<wrapper, cache, lru, mu, inLru, lruRaced, hits, misses, sets, pc,
          arg, panicked>>

Pcs == {"idle", "check", "write", "lock", "inLru", "del"}
Calls == [op : {"get", "set", "del"}, key : Keys, val : Vals \cup {None}]

(* The constructors.  Each library gets its size from capacity; that is   *)
(* left to LibEvict, which may drop an entry at any time.  Every wrapper   *)
(* but BenchRistretto starts with an empty Log.                             *)
NewBenchRistretto == wrapper = "ristretto" /\ cache = {}
NewBenchBaseMutex == wrapper = "basemutex" /\ lru = <<>> /\ hits = 0 /\ misses = 0
NewBenchBigCache == wrapper = "bigcache" /\ cache = {} /\ hits = 0 /\ misses = 0
NewBenchFastCache == wrapper = "fastcache" /\ cache = {} /\ hits = 0 /\ misses = 0
NewBenchFreeCache == wrapper = "freecache" /\ cache = {} /\ hits = 0 /\ misses = 0
NewBenchGoburrow == wrapper = "goburrow" /\ cache = {} /\ hits = 0 /\ misses = 0

Init ==
    /\ \/ "ristretto" \in Wrappers /\ NewBenchRistretto
       \/ "basemutex" \in Wrappers /\ NewBenchBaseMutex
       \/ "bigcache" \in Wrappers /\ NewBenchBigCache
       \/ "fastcache" \in Wrappers /\ NewBenchFastCache
       \/ "freecache" \in Wrappers /\ NewBenchFreeCache
       \/ "goburrow" \in Wrappers /\ NewBenchGoburrow
    /\ cache = {}
    /\ lru = <<>>
    /\ mu = None
    /\ inLru = {}
    /\ lruRaced = FALSE
    /\ hits = 0 /\ misses = 0 /\ sets = 0
    /\ pc = [p \in Procs |-> "idle"]
    /\ arg = [p \in Procs |-> None]
    /\ panicked = FALSE

Running(p) == ~panicked /\ pc[p] = "idle"
Goto(p, where) == pc' = [pc EXCEPT ![p] = where]
Call(p, op, k, v) == arg' = [arg EXCEPT ![p] = [op |-> op, key |-> k, val |-> v]]
Return(p) == Goto(p, "idle") /\ arg' = [arg EXCEPT ![p] = None]

(* The track check of a Set: c.cache.Get(key) != nil logs a Hit, else a   *)
(* Miss.                                                                    *)
LogCheck(present) ==
    IF present THEN hits' = hits + 1 /\ UNCHANGED misses
               ELSE misses' = misses + 1 /\ UNCHANGED hits

-----------------------------------------------------------------------------
(* Set on a thread-safe library, through the Cache interface: the track *)
(* check, if any, and the write are separate calls into the library.       *)
(* BenchRistretto keeps no log of its own.                                  *)
LibSetCall(p, k, v) ==
    /\ Running(p) /\ wrapper \in Libs /\ sets < MaxSets
    /\ sets' = sets + 1
    /\ Call(p, "set", k, v)
    /\ Goto(p, IF Track /\ wrapper # "ristretto" THEN "check" ELSE "write")
    /\ UNCHANGED <<wrapper, cache, lru, mu, inLru, lruRaced, hits, misses,
                   panicked>>

(* The track check of wrapper w's Set.                                      *)
TrackCheck(p, w) ==
    /\ ~panicked /\ pc[p] = "check" /\ wrapper = w
    /\ LogCheck(arg[p].key \in cache)
    /\ Goto(p, "write")
    /\ UNCHANGED <<wrapper, cache, lru, mu, inLru, lruRaced, sets, arg,
                   panicked>>

BigCacheSetCheck(p) == TrackCheck(p, "bigcache")
FastCacheSetCheck(p) == TrackCheck(p, "fastcache")
FreeCacheSetCheck(p) == TrackCheck(p, "freecache")
GoburrowSetCheck(p) == TrackCheck(p, "goburrow")

(* The write of wrapper w's Set: the library holds the key afterwards, or *)
(* it refused it (stored = FALSE), or log.Panic ended the benchmark.       *)
WriteStep(p, w, stored, panics) ==
    /\ ~panicked /\ pc[p] = "write" /\ wrapper = w
    /\ IF panics THEN panicked' = TRUE /\ UNCHANGED cache
       ELSE /\ cache' = IF stored THEN cache \cup {arg[p].key} ELSE cache
            /\ UNCHANGED panicked
    /\ Return(p)
    /\ UNCHANGED <<wrapper, lru, mu, inLru, lruRaced, sets>>

SetWrite(p, w, stored, panics) ==
    WriteStep(p, w, stored, panics) /\ UNCHANGED <<hits, misses>>

SetWriteRelog(p, w, stored, panics) ==
    WriteStep(p, w, stored, panics) /\ LogCheck(arg[p].key \in cache)

(* cache.Set(key, value, 1): the policy or the set buffer may drop it.     *)
RistrettoSet(p) == \E stored \in BOOLEAN : SetWrite(p, "ristretto", stored, FALSE)

(* bigcache.Set of a []byte value; its errors are log.Panic.                *)
BigCacheSetWrite(p) == SetWrite(p, "bigcache", TRUE, FALSE)

(* fastcache stores "*" whatever the value; it reports no error.            *)
FastCacheSetWrite(p) == SetWrite(p, "fastcache", TRUE, FALSE)

(* freecache.Set of an entry too large for a segment returns ErrLargeEntry *)
(* and log.Panic ends the benchmark.                                        *)
FreeCacheSetWriteRelog(p) ==
    SetWriteRelog(p, "freecache", TRUE, arg[p].val \in LargeVals)

FreeCacheSetWrite(p) == SetWrite(p, "freecache", TRUE, arg[p].val \in LargeVals)

GoburrowSetWrite(p) == SetWrite(p, "goburrow", TRUE, FALSE)

(* Del of wrapper w on a thread-safe library.                                *)
LibDel(p, k, w, panics) ==
    /\ Running(p) /\ wrapper = w
    /\ IF panics THEN panicked' = TRUE /\ UNCHANGED cache
                 ELSE cache' = cache \ {k} /\ UNCHANGED panicked
    /\ UNCHANGED <<wrapper, lru, mu, inLru, lruRaced, hits, misses, sets, pc,
                   arg>>

RistrettoDel(p, k) == LibDel(p, k, "ristretto", FALSE)

(* bigcache.Delete of an absent key returns ErrEntryNotFound, and           *)
(* log.Panic ends the benchmark.                                            *)
BigCacheDel(p, k) == LibDel(p, k, "bigcache", k \notin cache)

FastCacheDel(p, k) == LibDel(p, k, "fastcache", FALSE)
FreeCacheDel(p, k) == LibDel(p, k, "freecache", FALSE)
GoburrowDel(p, k) == LibDel(p, k, "goburrow", FALSE)

(* The library drops an entry on its own: an eviction at capacity,        *)
(* bigcache's LifeWindow, ristretto's policy.                               *)
LibEvict(k) ==
    /\ ~panicked /\ wrapper \in Libs /\ k \in cache
    /\ cache' = cache \ {k}
    /\ UNCHANGED <<wrapper, lru, mu, inLru, lruRaced, hits, misses, sets, pc,
                   arg, panicked>>

-----------------------------------------------------------------------------
(* lru.Cache: Get moves a hit to the front; Add moves or pushes the key to *)
(* the front and removes the oldest entry past Capacity; Remove unlinks.   *)
(* Each unlinks the one list element lru.Cache's map holds for the key:   *)
(* RemoveFirst.                                                             *)
LruGet(l, k) == IF k \in ToSet(l) THEN Cons(k, RemoveFirst(l, k)) ELSE l

LruAdd(l, k) ==
    LET l2 == Cons(k, RemoveFirst(l, k))
    IN  IF Len(l2) > Capacity THEN Front(l2) ELSE l2

(* The list a call into lru.Cache leaves: the call's result, or, after a  *)
(* data race on it, any list.                                               *)
LruAfter(l2) ==
    IF lruRaced THEN lru' \in BoundedSeq(Keys, Capacity) ELSE lru' = l2

(* Entering lru.Cache while another goroutine is inside it is a race.     *)
EnterLru(p) ==
    /\ inLru' = inLru \cup {p}
    /\ lruRaced' = (lruRaced \/ inLru # {})

(* BenchBaseMutex.Get and Set: c.Lock() is next.                          *)
MutexGetCall(p, k) ==
    /\ Running(p) /\ wrapper = "basemutex"
    /\ Call(p, "get", k, None)
    /\ Goto(p, "lock")
    /\ UNCHANGED <<wrapper, cache, lru, mu, inLru, lruRaced, hits, misses, sets,
                   panicked>>

MutexSetCall(p, k, v) ==
    /\ Running(p) /\ wrapper = "basemutex" /\ sets < MaxSets
    /\ sets' = sets + 1
    /\ Call(p, "set", k, v)
    /\ Goto(p, "lock")
    /\ UNCHANGED <<wrapper, cache, lru, mu, inLru, lruRaced, hits, misses,
                   panicked>>

MutexLockUnguarded(p) ==
    /\ ~panicked /\ pc[p] = "lock"
    /\ mu' = p
    /\ EnterLru(p)
    /\ Goto(p, "inLru")
    /\ UNCHANGED <<wrapper, cache, lru, hits, misses, sets, arg, panicked>>

MutexLock(p) ==
    /\ ~panicked /\ pc[p] = "lock" /\ mu = None
    /\ mu' = p
    /\ EnterLru(p)
    /\ Goto(p, "inLru")
    /\ UNCHANGED <<wrapper, cache, lru, hits, misses, sets, arg, panicked>>

MutexLeaveKeepsLock(p) ==
    /\ ~panicked /\ pc[p] = "inLru"
    /\ LruAfter(IF arg[p].op = "get" THEN LruGet(lru, arg[p].key)
                ELSE LruAdd(lru, arg[p].key))
    /\ UNCHANGED <<hits, misses>>
    /\ inLru' = inLru \ {p}
    /\ Return(p)
    /\ UNCHANGED <<wrapper, cache, mu, lruRaced, sets, panicked>>

(* Get's lru.Get, or Set's track lru.Get and lru.Add; then the deferred   *)
(* c.Unlock().                                                              *)
MutexLeave(p) ==
    LET k == arg[p].key
    IN  /\ ~panicked /\ pc[p] = "inLru"
        /\ IF arg[p].op = "get"
             THEN LruAfter(LruGet(lru, k)) /\ UNCHANGED <<hits, misses>>
             ELSE /\ LruAfter(LruAdd(lru, k))
                  /\ IF Track THEN LogCheck(k \in ToSet(lru))
                              ELSE UNCHANGED <<hits, misses>>
        /\ inLru' = inLru \ {p}
        /\ mu' = None
        /\ Return(p)
        /\ UNCHANGED <<wrapper, cache, lruRaced, sets, panicked>>

(* BenchBaseMutex.Del: lru.Remove, without the mutex.                       *)
MutexDelEnter(p, k) ==
    /\ Running(p) /\ wrapper = "basemutex"
    /\ EnterLru(p)
    /\ Call(p, "del", k, None)
    /\ Goto(p, "del")
    /\ UNCHANGED <<wrapper, cache, lru, mu, hits, misses, sets, panicked>>

MutexDelLeave(p) ==
    /\ ~panicked /\ pc[p] = "del"
    /\ LruAfter(RemoveFirst(lru, arg[p].key))
    /\ inLru' = inLru \ {p}
    /\ Return(p)
    /\ UNCHANGED <<wrapper, cache, mu, lruRaced, hits, misses, sets, panicked>>

Next ==
    \/ \E p \in Procs :
          \/ \E k \in Keys :
                \/ RistrettoDel(p, k) \/ BigCacheDel(p, k) \/ FastCacheDel(p, k)
                \/ FreeCacheDel(p, k) \/ GoburrowDel(p, k)
                \/ MutexGetCall(p, k) \/ MutexDelEnter(p, k)
                \/ \E v \in Vals : LibSetCall(p, k, v) \/ MutexSetCall(p, k, v)
          \/ BigCacheSetCheck(p) \/ FastCacheSetCheck(p)
          \/ FreeCacheSetCheck(p) \/ GoburrowSetCheck(p)
          \/ RistrettoSet(p) \/ BigCacheSetWrite(p) \/ FastCacheSetWrite(p)
          \/ FreeCacheSetWrite(p) \/ GoburrowSetWrite(p)
          \/ MutexLock(p) \/ MutexLeave(p) \/ MutexDelLeave(p)
    \/ \E k \in Keys : LibEvict(k)

(* Go's scheduler runs every runnable goroutine, and sync.Mutex hands the  *)
(* lock to a waiter that has waited over 1 ms (starvation mode), so a      *)
(* goroutine that keeps finding the mutex free eventually takes it.         *)
Fairness ==
    \A p \in Procs :
        /\ WF_vars(BigCacheSetCheck(p) \/ FastCacheSetCheck(p)
                   \/ FreeCacheSetCheck(p) \/ GoburrowSetCheck(p))
        /\ WF_vars(RistrettoSet(p) \/ BigCacheSetWrite(p) \/ FastCacheSetWrite(p)
                   \/ FreeCacheSetWrite(p) \/ GoburrowSetWrite(p))
        /\ SF_vars(MutexLock(p))
        /\ WF_vars(MutexLeave(p)) /\ WF_vars(MutexDelLeave(p))

Spec == Init /\ [][Next]_vars
FairSpec == Spec /\ Fairness

-----------------------------------------------------------------------------
(* Every variable keeps its type, and every Set logs at most once: the     *)
(* PolicyLog never counts more Hits and Misses than Sets were made.        *)
TypeOK ==
    /\ wrapper \in Wrappers
    /\ cache \subseteq Keys
    /\ lru \in Seq(Keys)
    /\ mu \in Procs \cup {None}
    /\ inLru \subseteq Procs /\ lruRaced \in BOOLEAN
    /\ hits \in Nat /\ misses \in Nat /\ sets \in 0..MaxSets
    /\ hits + misses <= sets
    /\ pc \in [Procs -> Pcs]
    /\ arg \in [Procs -> Calls \cup {None}]
    /\ panicked \in BOOLEAN

(* The mutex keeps BenchBaseMutex's Gets and Sets out of lru.Cache at the  *)
(* same time: whenever two goroutines are inside it, one of them is in    *)
(* Del, which calls lru.Remove without c.Lock().                           *)
OnlyDelRaces == \A p, q \in inLru : p # q => "del" \in {pc[p], pc[q]}

(* Every call a goroutine makes returns, unless log.Panic has ended the    *)
(* benchmark: BenchBaseMutex's mutex is always released.                    *)
CallsReturn == \A p \in Procs : pc[p] # "idle" ~> (pc[p] = "idle" \/ panicked)
=============================================================================
