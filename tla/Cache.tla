------------------------------- MODULE Cache -------------------------------
(***************************************************************************)
(* The cache coordinator of src/cache.go together with the store it       *)
(* writes (src/store.go) and the admission/eviction policy it consults.   *)
(*                                                                         *)
(* Cache.Get, Cache.Set and Cache.Del are called by any number of         *)
(* goroutines.  Each call is a sequence of atomic steps: one call into    *)
(* the policy (which serialises its callers with its own mutex), then     *)
(* calls into the store (a sync.Map, atomic per call) and atomic          *)
(* operations on the reset counter Cache.used.  Nothing makes the whole   *)
(* of Set or Del atomic, so the steps of different goroutines interleave. *)
(*                                                                         *)
(* The policy (TinyLFU admission, sampled-LFU eviction, a 4-bit sketch    *)
(* with a doorkeeper) is not under src/ and is modelled from the spec,    *)
(* section 4.5.  Its eviction loop runs under the policy mutex; the model *)
(* makes each iteration one step of the goroutine holding plock.          *)
(***************************************************************************)
EXTENDS Naturals, Sequences, FiniteSets, Functions, FiniteSetsExt

CONSTANTS
    Procs,        \* goroutines calling the cache
    Keys,         \* keys (hashes) the callers use
    Vals,         \* values the callers store
    Costs,        \* costs the callers pass to Set
    NumCounters,  \* Config.NumCounters; also the reset window Cache.size
    MaxCost,      \* Config.MaxCost as given (0 means "use NumCounters")
    LfuSample,    \* number of entries the policy samples per eviction (5)
    CounterMax,   \* saturation value of a sketch counter (15, 4 bits)
    UsedModulus,  \* 2^64: Cache.used is a uint64
    Nil,          \* what the store returns for an absent key
    NoCost,       \* the policy tracks no cost for this key
    None          \* no goroutine / no argument

ASSUME CacheAssumption ==
    /\ Procs # {} /\ Keys # {}
    /\ Costs \subseteq Nat
    /\ NumCounters \in Nat /\ MaxCost \in Nat
    /\ LfuSample \in Nat \ {0}
    /\ CounterMax \in Nat
    /\ UsedModulus \in Nat /\ NumCounters < UsedModulus
    /\ Nil \notin Vals /\ NoCost \notin Nat /\ None \notin Procs

VARIABLES
    data,      \* Cache.data: the store, key -> value or Nil
    keyCosts,  \* policy: key -> cost of a tracked key, NoCost otherwise
    costUsed,  \* policy: the cost it believes is in use
    sketch,    \* policy: frequency counter of each key (CM4 row minimum)
    door,      \* policy: the doorkeeper, keys seen once since the last Res
    plock,     \* the goroutine holding the policy mutex, or None
    used,      \* Cache.used: Sets since the last reset, uint64
    pc,        \* where each goroutine is in its current call
    args,      \* the key, value and cost of each goroutine's current call
    victims    \* victims returned by policy.Add, not yet deleted from data

vars == <<data, keyCosts, costUsed, sketch, door, plock, used, pc, args, victims>>

(* NewCache: a zero MaxCost defaults to NumCounters; size = NumCounters.   *)
PolicyMaxCost == IF MaxCost = 0 /\ NumCounters # 0 THEN NumCounters ELSE MaxCost
size == NumCounters

SetArgs == [key : Keys, val : Vals, cost : Costs]
DelArgs == [key : Keys]
Pcs == {"idle", "setSample", "setEvict", "setIncr", "setReset", "setRes", "delData"}

Tracked == {k \in Keys : keyCosts[k] # NoCost}

-----------------------------------------------------------------------------
(* The policy, from the spec (4.1, 4.2, 4.5).                              *)

(* Mutation (of Increment below): the 4-bit counter is not saturated.      *)
IncrementNoSaturation(k) ==
    IF k \notin door
    THEN /\ door' = door \cup {k}
         /\ UNCHANGED sketch
    ELSE /\ sketch' = [sketch EXCEPT ![k] = @ + 1]
         /\ UNCHANGED door

(* push of one key: the first sighting goes to the doorkeeper, later ones  *)
(* to the saturating sketch counter.                                       *)
Increment(k) ==
    IF k \notin door
    THEN /\ door' = door \cup {k}
         /\ UNCHANGED sketch
    ELSE /\ sketch' = [sketch EXCEPT ![k] = IF @ < CounterMax THEN @ + 1 ELSE @]
         /\ UNCHANGED door

(* estimate of the incoming key: sketch plus one on a doorkeeper hit.      *)
Estimate(k) == sketch[k] + (IF k \in door THEN 1 ELSE 0)

(* add the key with its cost to the policy map.                            *)
Track(k, c) ==
    /\ keyCosts' = [keyCosts EXCEPT ![k] = c]
    /\ costUsed' = costUsed + c

(* the eviction sample: min(LfuSample, |tracked|) tracked keys.            *)
Samples == kSubset(IF LfuSample < Cardinality(Tracked)
                   THEN LfuSample ELSE Cardinality(Tracked), Tracked)

(* v has the lowest frequency in sample s (ties: any, map order is random) *)
MinOfSample(v, s) == v \in s /\ \A o \in s : sketch[v] <= sketch[o]

(* Res: halve every counter and clear the doorkeeper.                      *)
Res ==
    /\ sketch' = [k \in Keys |-> sketch[k] \div 2]
    /\ door' = {}

-----------------------------------------------------------------------------
(* The store (syncMap): each call is atomic.                                *)

StoreSet(k, v) == data' = [data EXCEPT ![k] = v]
StoreDel(k) == data' = [data EXCEPT ![k] = Nil]

-----------------------------------------------------------------------------
(* Mutations: each is an action below with a plausible bug, substituted   *)
(* for it to confirm that a property catches that bug.                    *)

(* Mutation: the cost update adds the new cost without taking off the old. *)
SetUpdateKeepsOldCost(p, k, v, c) ==
    /\ pc[p] = "idle" /\ plock = None
    /\ keyCosts[k] # NoCost
    /\ keyCosts' = [keyCosts EXCEPT ![k] = c]
    /\ costUsed' = costUsed + c
    /\ pc' = [pc EXCEPT ![p] = "setEvict"]
    /\ args' = [args EXCEPT ![p] = [key |-> k, val |-> v, cost |-> c]]
    /\ UNCHANGED <<data, sketch, door, plock, used, victims>>

(* Mutation: the victim is not deleted from the store.                    *)
SetEvictVictimKeepsData(p) ==
    /\ pc[p] = "setEvict"
    /\ victims[p] # <<>>
    /\ used' = (used + UsedModulus - 1) % UsedModulus
    /\ victims' = [victims EXCEPT ![p] = Tail(@)]
    /\ UNCHANGED <<data, keyCosts, costUsed, sketch, door, plock, pc, args>>

-----------------------------------------------------------------------------
Init ==
    /\ data = [k \in Keys |-> Nil]
    /\ keyCosts = [k \in Keys |-> NoCost]
    /\ costUsed = 0
    /\ sketch = [k \in Keys |-> 0]
    /\ door = {}
    /\ plock = None
    /\ used = 0
    /\ pc = [p \in Procs |-> "idle"]
    /\ args = [p \in Procs |-> None]
    /\ victims = [p \in Procs |-> <<>>]

(* Cache.Get: buffer.Push(key) then data.Get(key).  The push reaches the   *)
(* policy only when it is free; a dropped or still-buffered push, like the *)
(* read itself, changes nothing and is a stuttering step.                  *)
Get(p, k) ==
    /\ pc[p] = "idle"
    /\ plock = None
    /\ Increment(k)
    /\ UNCHANGED <<data, keyCosts, costUsed, plock, used, pc, args, victims>>

(* Cache.Set calls policy.Add(key, cost) under the policy mutex.  Four     *)
(* outcomes, in the spec's order: a tracked key has its cost updated       *)
(* (eviction is left to the next admission of a new key); a cost above the *)
(* budget is rejected (Set returns false having changed nothing, a         *)
(* stuttering step); a cost that fits is admitted; otherwise the eviction  *)
(* loop starts, still holding the mutex.                                   *)
SetUpdate(p, k, v, c) ==
    /\ pc[p] = "idle" /\ plock = None
    /\ keyCosts[k] # NoCost
    /\ keyCosts' = [keyCosts EXCEPT ![k] = c]
    /\ costUsed' = costUsed - keyCosts[k] + c
    /\ pc' = [pc EXCEPT ![p] = "setEvict"]
    /\ args' = [args EXCEPT ![p] = [key |-> k, val |-> v, cost |-> c]]
    /\ UNCHANGED <<data, sketch, door, plock, used, victims>>

SetAdmit(p, k, v, c) ==
    /\ pc[p] = "idle" /\ plock = None
    /\ keyCosts[k] = NoCost
    /\ c <= PolicyMaxCost
    /\ costUsed + c <= PolicyMaxCost
    /\ Track(k, c)
    /\ pc' = [pc EXCEPT ![p] = "setEvict"]
    /\ args' = [args EXCEPT ![p] = [key |-> k, val |-> v, cost |-> c]]
    /\ UNCHANGED <<data, sketch, door, plock, used, victims>>

SetStartEvict(p, k, v, c) ==
    /\ pc[p] = "idle" /\ plock = None
    /\ keyCosts[k] = NoCost
    /\ c <= PolicyMaxCost
    /\ costUsed + c > PolicyMaxCost
    /\ plock' = p
    /\ pc' = [pc EXCEPT ![p] = "setSample"]
    /\ args' = [args EXCEPT ![p] = [key |-> k, val |-> v, cost |-> c]]
    /\ UNCHANGED <<data, keyCosts, costUsed, sketch, door, used, victims>>

(* One iteration of the eviction loop: sample, take the least frequent     *)
(* candidate; an incoming estimate below it rejects the Set, and Cache.Set *)
(* then returns at once, dropping the victims already taken from the      *)
(* policy map.                                                             *)
SetSampleReject(p) ==
    /\ pc[p] = "setSample"
    /\ \E s \in Samples, v \in Keys :
          MinOfSample(v, s) /\ Estimate(args[p].key) < sketch[v]
    /\ plock' = None
    /\ pc' = [pc EXCEPT ![p] = "idle"]
    /\ victims' = [victims EXCEPT ![p] = <<>>]
    /\ args' = [args EXCEPT ![p] = None]
    /\ UNCHANGED <<data, keyCosts, costUsed, sketch, door, used>>

(* Otherwise the candidate is evicted from the policy map; once the       *)
(* incoming cost fits, the key is admitted and the mutex released.        *)
EvictCandidate(p, v) ==
    /\ pc[p] = "setSample"
    /\ \E s \in Samples : MinOfSample(v, s)
    /\ Estimate(args[p].key) >= sketch[v]
    /\ victims' = [victims EXCEPT ![p] = Append(@, v)]

SetEvictOne(p) ==
    \E v \in Keys :
       /\ EvictCandidate(p, v)
       /\ costUsed - keyCosts[v] + args[p].cost > PolicyMaxCost
       /\ keyCosts' = [keyCosts EXCEPT ![v] = NoCost]
       /\ costUsed' = costUsed - keyCosts[v]
       /\ UNCHANGED <<data, sketch, door, plock, used, pc, args>>

SetEvictAdmit(p) ==
    \E v \in Keys :
       /\ EvictCandidate(p, v)
       /\ costUsed - keyCosts[v] + args[p].cost <= PolicyMaxCost
       /\ keyCosts' = [keyCosts EXCEPT ![v] = NoCost, ![args[p].key] = args[p].cost]
       /\ costUsed' = costUsed - keyCosts[v] + args[p].cost
       /\ plock' = None
       /\ pc' = [pc EXCEPT ![p] = "setEvict"]
       /\ UNCHANGED <<data, sketch, door, used, args>>

(* for each victim: data.Del(victim); used--; notify(victim).             *)
SetEvictVictim(p) ==
    /\ pc[p] = "setEvict"
    /\ victims[p] # <<>>
    /\ StoreDel(Head(victims[p]))
    /\ used' = (used + UsedModulus - 1) % UsedModulus
    /\ victims' = [victims EXCEPT ![p] = Tail(@)]
    /\ UNCHANGED <<keyCosts, costUsed, sketch, door, plock, pc, args>>

(* data.Set(key, val).                                                     *)
SetStore(p) ==
    /\ pc[p] = "setEvict"
    /\ victims[p] = <<>>
    /\ StoreSet(args[p].key, args[p].val)
    /\ pc' = [pc EXCEPT ![p] = "setIncr"]
    /\ UNCHANGED <<keyCosts, costUsed, sketch, door, plock, used, args, victims>>

(* if atomic.AddUint64(&c.used, 1) == c.size: the reset is due.           *)
SetIncr(p) ==
    LET u == (used + 1) % UsedModulus IN
    /\ pc[p] = "setIncr"
    /\ used' = u
    /\ pc' = [pc EXCEPT ![p] = IF u = size THEN "setReset" ELSE "idle"]
    /\ args' = [args EXCEPT ![p] = IF u = size THEN @ ELSE None]
    /\ UNCHANGED <<data, keyCosts, costUsed, sketch, door, plock, victims>>

(* atomic.StoreUint64(&c.used, c.size/2).                                 *)
SetReset(p) ==
    /\ pc[p] = "setReset"
    /\ used' = size \div 2
    /\ pc' = [pc EXCEPT ![p] = "setRes"]
    /\ UNCHANGED <<data, keyCosts, costUsed, sketch, door, plock, args, victims>>

(* c.policy.Res(), under the policy mutex.                                 *)
SetRes(p) ==
    /\ pc[p] = "setRes"
    /\ plock = None
    /\ Res
    /\ pc' = [pc EXCEPT ![p] = "idle"]
    /\ args' = [args EXCEPT ![p] = None]
    /\ UNCHANGED <<data, keyCosts, costUsed, plock, used, victims>>

(* Cache.Del: policy.Del(key), then data.Del(key).                         *)
DelPolicy(p, k) ==
    /\ pc[p] = "idle" /\ plock = None
    /\ keyCosts' = [keyCosts EXCEPT ![k] = NoCost]
    /\ costUsed' = IF keyCosts[k] = NoCost THEN costUsed ELSE costUsed - keyCosts[k]
    /\ pc' = [pc EXCEPT ![p] = "delData"]
    /\ args' = [args EXCEPT ![p] = [key |-> k]]
    /\ UNCHANGED <<data, sketch, door, plock, used, victims>>

DelData(p) ==
    /\ pc[p] = "delData"
    /\ StoreDel(args[p].key)
    /\ pc' = [pc EXCEPT ![p] = "idle"]
    /\ args' = [args EXCEPT ![p] = None]
    /\ UNCHANGED <<keyCosts, costUsed, sketch, door, plock, used, victims>>

Next ==
    \E p \in Procs :
       \/ \E k \in Keys :
             \/ Get(p, k)
             \/ DelPolicy(p, k)
             \/ \E v \in Vals, c \in Costs :
                   \/ SetUpdate(p, k, v, c)
                   \/ SetAdmit(p, k, v, c)
                   \/ SetStartEvict(p, k, v, c)
       \/ SetSampleReject(p)
       \/ SetEvictOne(p)
       \/ SetEvictAdmit(p)
       \/ SetEvictVictim(p)
       \/ SetStore(p)
       \/ SetIncr(p)
       \/ SetReset(p)
       \/ SetRes(p)
       \/ DelData(p)

Spec == Init /\ [][Next]_vars

-----------------------------------------------------------------------------
(* Properties.                                                              *)

(* Every variable holds a value of its type.                               *)
TypeOK ==
    /\ data \in [Keys -> Vals \cup {Nil}]
    /\ keyCosts \in [Keys -> Costs \cup {NoCost}]
    /\ costUsed \in Int
    /\ sketch \in [Keys -> 0..CounterMax]
    /\ door \subseteq Keys
    /\ plock \in Procs \cup {None}
    /\ used \in 0..(UsedModulus - 1)
    /\ pc \in [Procs -> Pcs]
    /\ args \in [Procs -> SetArgs \cup DelArgs \cup {None}]
    /\ victims \in [Procs -> Seq(Keys)]

(* The policy's cost counter equals the sum of the costs in its map, after *)
(* any sequence of admissions, cost updates, evictions and deletes of all  *)
(* the goroutines (policy.Add, policy.Del).                                *)
CostAccounting == costUsed = SumFunctionOnSet(keyCosts, Tracked)

(* When no call is in flight, the store holds exactly the keys the policy *)
(* tracks: Cache.Set stores only admitted keys and deletes the victims,    *)
(* Cache.Del removes the key from both.                                    *)
StoreTrackedWhenIdle ==
    (\A p \in Procs : pc[p] = "idle") =>
        {k \in Keys : data[k] # Nil} = Tracked

(* At most one Set has seen atomic.AddUint64(&c.used, 1) return c.size   *)
(* and not yet stored c.size/2: each climb of c.used to c.size triggers    *)
(* policy.Res once.  Two such Sets halve the sketch twice for one window.  *)
SingleResetTrigger ==
    Cardinality({p \in Procs : pc[p] = "setReset"}) <= 1

=============================================================================
