-------------------------------- MODULE TTL --------------------------------
(***************************************************************************)
(* The expiration wheel of src/unnamed/part_001 (ttl.go) together with the *)
(* two goroutines that use it: the writer, which sets and deletes items of *)
(* the store and files their expirations in the wheel, and the sweeper,    *)
(* which on every tick of a ticker calls expirationMap.CleanUp.            *)
(*                                                                         *)
(* Time is whole seconds since a minute boundary: now % 60 is what         *)
(* time.Time.Second() returns, the value timeToBucket divides.  The writer *)
(* and the store are modelled from the specification (they are not part   *)
(* of this source tree): Set overwrites the item and moves its entry from  *)
(* the old expiration's bucket to the new one (Delete then Add), Del       *)
(* removes an item whose conflict matches and its bucket entry, and both   *)
(* run under the store's lock, so each is one step.  CleanUp detaches its  *)
(* bucket under the wheel's lock and then deletes the keys one by one      *)
(* outside it, so the writer can run between two of those deletes.         *)
(***************************************************************************)
EXTENDS Naturals

CONSTANTS
    Keys,           \* key hashes
    Conflicts,      \* conflict hashes (all nonzero)
    TTLs,           \* durations a Set may give, in seconds; 0 is "never"
    BucketSizeSecs, \* bucketSizeSecs
    TickPhase,      \* now % BucketSizeSecs at which the cleanup ticker fires
    MaxTime,        \* the clock stops here
    None            \* absent item, or key absent from a bucket

ASSUME TTLAssumption ==
    /\ Keys # {} /\ Conflicts # {}
    /\ TTLs \subseteq Nat
    /\ BucketSizeSecs \in Nat \ {0}
    /\ 60 % BucketSizeSecs = 0
    /\ TickPhase \in 0..(BucketSizeSecs - 1)
    /\ MaxTime \in Nat
    /\ None \notin Conflicts

VARIABLES
    now,      \* the clock, in seconds
    store,    \* store: key -> [conflict, exp] (exp = 0: never expires)
    buckets,  \* expirationMap.buckets: bucket number -> (key -> conflict)
    tracked,  \* the keys the policy holds
    due,      \* the ticker has fired and CleanUp has not yet started
    sweep     \* the bucket CleanUp detached and has not finished deleting

vars == <<now, store, buckets, tracked, due, sweep>>

Item == [conflict : Conflicts, exp : Nat]

(* The bucket numbers timeToBucket can return.                             *)
BucketNums == 0..(60 \div BucketSizeSecs - 1)

EmptyBucket == [k \in Keys |-> None]

(* timeToBucket: t.Second() / bucketSizeSecs.                              *)
timeToBucket(t) == (t % 60) \div BucketSizeSecs

(* m.buckets[b] of a Go map: a missing bucket reads as an empty one.       *)
BucketAt(b) == IF b \in BucketNums THEN buckets[b] ELSE EmptyBucket

(* An expiration wheel with k filed in the bucket of exp; a zero           *)
(* expiration is not filed (expirationMap.Add).                            *)
AddStoresExpiry(bs, k, c, exp) ==
    IF exp = 0 THEN bs
    ELSE [bs EXCEPT ![timeToBucket(exp)][k] = exp]

Add(bs, k, c, exp) ==
    IF exp = 0 THEN bs
    ELSE [bs EXCEPT ![timeToBucket(exp)][k] = c]

(* expirationMap.Delete: remove k from the bucket of exp, if it exists.   *)
Delete(bs, k, exp) == [bs EXCEPT ![timeToBucket(exp)][k] = None]

(* The absolute expiration a Set at the current time with this TTL gets.  *)
ExpOf(ttl) == IF ttl = 0 THEN 0 ELSE now + ttl

Init ==
    /\ now = 0
    /\ store = [k \in Keys |-> None]
    /\ buckets = [b \in BucketNums |-> EmptyBucket]
    /\ tracked = {}
    /\ due = FALSE
    /\ sweep = EmptyBucket

(* The writer sets k: the store keeps the new item, the wheel moves the   *)
(* key from the old expiration's bucket to the new one, the policy tracks *)
(* it.                                                                     *)
Set(k, c, ttl) ==
    LET exp == ExpOf(ttl)
        moved == IF store[k] = None THEN buckets
                 ELSE Delete(buckets, k, store[k].exp)
    IN  /\ store' = [store EXCEPT ![k] = [conflict |-> c, exp |-> exp]]
        /\ buckets' = Add(moved, k, c, exp)
        /\ tracked' = tracked \cup {k}
        /\ UNCHANGED <<now, due, sweep>>

(* The writer deletes k with conflict c: the policy forgets k; the store  *)
(* and the wheel drop it only when the stored conflict matches.            *)
Del(k, c) ==
    /\ tracked' = tracked \ {k}
    /\ IF store[k] # None /\ store[k].conflict = c
         THEN /\ store' = [store EXCEPT ![k] = None]
              /\ buckets' = Delete(buckets, k, store[k].exp)
         ELSE UNCHANGED <<store, buckets>>
    /\ UNCHANGED <<now, due, sweep>>

(* One second passes; the ticker fires when now reaches its phase.  The   *)
(* clock waits for the previous CleanUp to finish: the sweeper keeps up.  *)
Tick ==
    /\ now < MaxTime
    /\ ~due
    /\ sweep = EmptyBucket
    /\ now' = now + 1
    /\ due' = ((now + 1) % BucketSizeSecs = TickPhase)
    /\ UNCHANGED <<store, buckets, tracked, sweep>>

CleanUpDetachLagging ==
    LET b == timeToBucket(now) - 2
    IN  /\ due
        /\ sweep' = BucketAt(b)
        /\ buckets' = IF b \in BucketNums THEN [buckets EXCEPT ![b] = EmptyBucket]
                      ELSE buckets
        /\ due' = FALSE
        /\ UNCHANGED <<now, store, tracked>>

(* CleanUp, under the wheel's lock: take the bucket before the current    *)
(* one and remove it from the map.                                         *)
CleanUpDetach ==
    LET b == timeToBucket(now) - 1
    IN  /\ due
        /\ sweep' = BucketAt(b)
        /\ buckets' = IF b \in BucketNums THEN [buckets EXCEPT ![b] = EmptyBucket]
                      ELSE buckets
        /\ due' = FALSE
        /\ UNCHANGED <<now, store, tracked>>

(* CleanUp, outside the lock, one key of the detached bucket:              *)
(* store.Del(key, 0) whatever the stored conflict, policy.Cost (a read),  *)
(* onEvict.  The policy is not told.                                       *)
CleanUpKey(k) ==
    /\ sweep[k] # None
    /\ store' = [store EXCEPT ![k] = None]
    /\ sweep' = [sweep EXCEPT ![k] = None]
    /\ UNCHANGED <<now, buckets, tracked, due>>

Next ==
    \/ \E k \in Keys, c \in Conflicts, ttl \in TTLs : Set(k, c, ttl)
    \/ \E k \in Keys, c \in Conflicts : Del(k, c)
    \/ Tick
    \/ CleanUpDetach
    \/ \E k \in Keys : CleanUpKey(k)

Spec == Init /\ [][Next]_vars

-----------------------------------------------------------------------------
(* Every variable keeps its type: in particular a bucket maps a key to    *)
(* the conflict it was filed with, never to anything else.                 *)
TypeOK ==
    /\ now \in 0..MaxTime
    /\ store \in [Keys -> Item \cup {None}]
    /\ buckets \in [BucketNums -> [Keys -> Conflicts \cup {None}]]
    /\ tracked \subseteq Keys
    /\ due \in BOOLEAN
    /\ sweep \in [Keys -> Conflicts \cup {None}]

(* Specification, property 7: an item that expires at t is gone from the  *)
(* store by t + 2 bucket widths, given a sweeper that runs CleanUp on     *)
(* every tick.                                                              *)
ExpiredRemovedInTime ==
    \A k \in Keys :
        store[k] # None /\ store[k].exp # 0 =>
            now < store[k].exp + 2 * BucketSizeSecs

(* A store delete made by CleanUp.                                         *)
SweptOut(k) == sweep[k] # None /\ sweep'[k] = None /\ store[k] # None

(* Specification, 4.6: "all entries in that bucket are strictly expired": *)
(* CleanUp never deletes an item whose expiration is still ahead.          *)
NoPrematureRemoval ==
    [][\A k \in Keys : SweptOut(k) => store[k].exp # 0 /\ store[k].exp <= now]_vars

(* Specification, 4.6: CleanUp calls policy.del for each key it removes,  *)
(* so once it is done every key the policy tracks has an item in the     *)
(* store.                                                                   *)
SweptKeysUntracked ==
    sweep = EmptyBucket => \A k \in tracked : store[k] # None
=============================================================================
