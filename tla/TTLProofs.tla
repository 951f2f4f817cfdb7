----------------------------- MODULE TTLProofs ------------------------------
(***************************************************************************)
(* Proofs about the expiration wheel of TTL.tla for every set of keys,    *)
(* conflicts and TTLs and every bucket width that divides a minute.        *)
(***************************************************************************)
EXTENDS TTL, TLAPS

USE TTLAssumption

(* timeToBucket always names a bucket of the wheel: t.Second() is below   *)
(* 60 and the bucket width divides 60.                                     *)
LEMMA BucketInWheel == \A t \in Nat : timeToBucket(t) \in BucketNums
<1> TAKE t \in Nat
<1> DEFINE x == t % 60
           n == 60 \div BucketSizeSecs
<1>1. x \in 0..59
  OBVIOUS
<1>2. n * BucketSizeSecs = 60
  OBVIOUS
<1>3. (x \div BucketSizeSecs) * BucketSizeSecs <= x /\ x \div BucketSizeSecs \in Nat
  BY <1>1
<1>4. x \div BucketSizeSecs < n
  BY <1>1, <1>2, <1>3
<1> QED  BY <1>3, <1>4 DEF timeToBucket, BucketNums

(* Every step of the writer, the clock and the sweeper keeps the types.    *)
LEMMA NextTypeOK == TypeOK /\ [Next]_vars => TypeOK'
<1> SUFFICES ASSUME TypeOK, [Next]_vars PROVE TypeOK'
  OBVIOUS
<1> USE DEF TypeOK, EmptyBucket
<1>1. ASSUME NEW k \in Keys, NEW c \in Conflicts, NEW ttl \in TTLs, Set(k, c, ttl)
      PROVE TypeOK'
  <2> DEFINE moved == IF store[k] = None THEN buckets
                      ELSE Delete(buckets, k, store[k].exp)
  <2>1. ExpOf(ttl) \in Nat
    BY DEF ExpOf
  <2>2. moved \in [BucketNums -> [Keys -> Conflicts \cup {None}]]
    BY BucketInWheel DEF Delete, Item
  <2>3. Add(moved, k, c, ExpOf(ttl)) \in [BucketNums -> [Keys -> Conflicts \cup {None}]]
    BY <2>1, <2>2, BucketInWheel DEF Add
  <2> QED  BY <1>1, <2>1, <2>3 DEF Set, Item
<1>2. ASSUME NEW k \in Keys, NEW c \in Conflicts, Del(k, c) PROVE TypeOK'
  <2>1. CASE store[k] # None /\ store[k].conflict = c
    <3>1. store[k].exp \in Nat
      BY <2>1 DEF Item
    <3>2. timeToBucket(store[k].exp) \in BucketNums
      BY <3>1, BucketInWheel
    <3>3. Delete(buckets, k, store[k].exp) \in [BucketNums -> [Keys -> Conflicts \cup {None}]]
      BY <3>2 DEF Delete
    <3> QED  BY <1>2, <2>1, <3>3 DEF Del
  <2>2. CASE ~(store[k] # None /\ store[k].conflict = c)
    BY <1>2, <2>2 DEF Del
  <2> QED  BY <2>1, <2>2
<1>3. CASE Tick
  BY <1>3 DEF Tick
<1>4. CASE CleanUpDetach
  BY <1>4 DEF CleanUpDetach, BucketAt
<1>5. ASSUME NEW k \in Keys, CleanUpKey(k) PROVE TypeOK'
  BY <1>5 DEF CleanUpKey
<1>6. CASE UNCHANGED vars
  BY <1>6 DEF vars
<1> QED  BY <1>1, <1>2, <1>3, <1>4, <1>5, <1>6 DEF Next

-----------------------------------------------------------------------------
(* The clock stays within the first minute and no expiration the writer   *)
(* can give reaches the next one: where t.Second() and the epoch second   *)
(* agree (ttl_last_bucket shows the claim failing beyond it).              *)
WithinMinute == \A t \in TTLs \cup {0} : MaxTime + t < 60

(* The second at which the ticker's CleanUp takes bucket b: the tick of   *)
(* phase TickPhase in the bucket after b.                                  *)
DetachTime(b) == (b + 1) * BucketSizeSecs + TickPhase

(* An item that expires is filed in the bucket of its expiration, whose    *)
(* CleanUp is still ahead or due now, or it is in the bucket the sweeper   *)
(* has detached, which the clock waits for.                                 *)
ExpiryTracked(k) ==
    LET e == store[k].exp
        b == timeToBucket(e)
    IN  /\ e < 60
        /\ \/ /\ buckets[b][k] # None
              /\ now <= DetachTime(b)
              /\ now = DetachTime(b) => due
           \/ /\ sweep[k] # None
              /\ now < e + 2 * BucketSizeSecs

(* The ticker fires only at its phase and only with the sweeper idle.      *)
TickerIdle == due => now % BucketSizeSecs = TickPhase /\ sweep = EmptyBucket

(* Within the minute an expiration lies in the width of its bucket.       *)
LEMMA ExpiryInBucket ==
    \A e \in 0..59 : /\ timeToBucket(e) * BucketSizeSecs <= e
                    /\ e < (timeToBucket(e) + 1) * BucketSizeSecs
BY DEF timeToBucket

(* The ticker fires at a bucket's detach time, and CleanUp then takes      *)
(* exactly that bucket.                                                     *)
LEMMA DetachTakesBucket ==
    \A b \in Nat :
        /\ DetachTime(b) % BucketSizeSecs = TickPhase
        /\ DetachTime(b) < 60 => timeToBucket(DetachTime(b)) - 1 = b
<1> TAKE b \in Nat
<1>1. DetachTime(b) \div BucketSizeSecs = b + 1
  BY DEF DetachTime
<1>2. DetachTime(b) % BucketSizeSecs = TickPhase
  BY <1>1 DEF DetachTime
<1> QED  BY <1>1, <1>2 DEF timeToBucket, DetachTime

TimedInv ==
    /\ TypeOK
    /\ now < 60
    /\ TickerIdle
    /\ \A k \in Keys : store[k] # None /\ store[k].exp # 0 => ExpiryTracked(k)

(* An item is expiring: it is stored with a nonzero expiration.             *)
Expiring(k) == store[k] # None /\ store[k].exp # 0

(* A step that leaves a key's item, bucket entries and sweep entry, the    *)
(* clock and the ticker alone keeps what is known of that key's expiry.    *)
LEMMA KeyFrame ==
    ASSUME TypeOK, NEW j \in Keys,
           Expiring(j) => ExpiryTracked(j),
           store'[j] = store[j], sweep'[j] = sweep[j],
           \A x \in BucketNums : buckets'[x][j] = buckets[x][j],
           now' = now, due' = due
    PROVE  Expiring(j)' => ExpiryTracked(j)'
<1> SUFFICES ASSUME Expiring(j)' PROVE ExpiryTracked(j)'
  OBVIOUS
<1>1. store[j] \in Item /\ Expiring(j)
  BY DEF Expiring, TypeOK
<1>2. timeToBucket(store[j].exp) \in BucketNums
  BY <1>1, BucketInWheel DEF Item
<1> QED  BY <1>1, <1>2 DEF ExpiryTracked

(* The sweeper's steps and the clock keep the timing invariant.            *)
LEMMA TickTimed ==
    ASSUME WithinMinute, TimedInv, Tick PROVE TimedInv'
<1>0. /\ TypeOK /\ TickerIdle
      /\ \A k \in Keys : Expiring(k) => ExpiryTracked(k)
  BY DEF TimedInv, Expiring
<1>1. TypeOK'
  BY <1>0, NextTypeOK DEF Next
<1>2. now' < 60 /\ TickerIdle'
  BY <1>0 DEF Tick, TickerIdle, WithinMinute, TypeOK
<1>3. ASSUME NEW k \in Keys, Expiring(k)' PROVE ExpiryTracked(k)'
  <2> DEFINE e == store[k].exp
             b == timeToBucket(e)
  <2>1. Expiring(k) /\ e \in Nat
    BY <1>0, <1>3 DEF Tick, Expiring, TypeOK, Item, e
  <2>2. ExpiryTracked(k)
    BY <1>0, <2>1
  <2>3. b \in BucketNums
    BY <2>1, BucketInWheel DEF b
  <2>4. sweep[k] = None /\ ~due
    BY DEF Tick, EmptyBucket
  <2>5. DetachTime(b) \in Nat
    BY <2>3 DEF DetachTime, BucketNums
  <2>6. /\ e < 60
        /\ buckets[b][k] # None
        /\ now <= DetachTime(b)
        /\ now = DetachTime(b) => due
    BY <2>2, <2>4 DEF ExpiryTracked, e, b
  <2>7. now < DetachTime(b)
    <3>1. now # DetachTime(b)
      BY <2>4, <2>6
    <3>2. now \in Nat
      BY <1>0 DEF TypeOK
    <3> QED  BY <2>5, <2>6, <3>1, <3>2
  <2>8. now' <= DetachTime(b) /\ (now' = DetachTime(b) => due')
    <3>1. now \in Nat /\ now' = now + 1
      BY <1>0 DEF Tick, TypeOK
    <3>2. due' = ((now + 1) % BucketSizeSecs = TickPhase)
      BY DEF Tick
    <3>3. DetachTime(b) % BucketSizeSecs = TickPhase
      BY <2>3, DetachTakesBucket DEF BucketNums
    <3>4. now' <= DetachTime(b)
      BY <2>5, <2>7, <3>1
    <3>5. now' = DetachTime(b) => (now + 1) % BucketSizeSecs = TickPhase
      BY <3>1, <3>3
    <3> QED  BY <3>2, <3>4, <3>5
  <2>9. UNCHANGED <<store, buckets, sweep>>
    BY DEF Tick
  <2> QED  BY <2>6, <2>8, <2>9 DEF ExpiryTracked, e, b
<1> QED  BY <1>1, <1>2, <1>3 DEF TimedInv, Expiring

(* CleanUp deleting one key of its detached bucket forgets that key's item *)
(* and leaves every other key's expiry where it was.                        *)
LEMMA CleanUpKeyTimed ==
    ASSUME TimedInv, NEW k \in Keys, CleanUpKey(k) PROVE TimedInv'
<1>0. /\ TypeOK /\ now < 60 /\ TickerIdle
      /\ \A j \in Keys : Expiring(j) => ExpiryTracked(j)
  BY DEF TimedInv, Expiring
<1>1. TypeOK'
  BY <1>0, NextTypeOK DEF Next
<1>2. ~due /\ ~due'
  BY <1>0 DEF CleanUpKey, TickerIdle, EmptyBucket
<1>3. now' < 60 /\ TickerIdle'
  BY <1>0, <1>2 DEF CleanUpKey, TickerIdle
<1>4. ASSUME NEW j \in Keys, Expiring(j)' PROVE ExpiryTracked(j)'
  <2>1. j # k
    BY <1>0, <1>4 DEF CleanUpKey, Expiring, TypeOK
  <2> QED  BY <1>0, <1>4, <2>1, KeyFrame DEF CleanUpKey, TypeOK
<1> QED  BY <1>1, <1>3, <1>4 DEF TimedInv, Expiring

(* The writer's Del either removes the key's item or changes nothing.      *)
LEMMA DelTimed ==
    ASSUME TimedInv, NEW k \in Keys, NEW c \in Conflicts, Del(k, c)
    PROVE  TimedInv'
<1>0. /\ TypeOK /\ now < 60 /\ TickerIdle
      /\ \A j \in Keys : Expiring(j) => ExpiryTracked(j)
  BY DEF TimedInv, Expiring
<1>1. TypeOK'
  BY <1>0, NextTypeOK DEF Next
<1>2. now' < 60 /\ TickerIdle'
  BY <1>0 DEF Del, TickerIdle
<1>3. CASE store[k] # None /\ store[k].conflict = c
  <2>1. store[k].exp \in Nat
    BY <1>0, <1>3 DEF TypeOK, Item
  <2>2. timeToBucket(store[k].exp) \in BucketNums
    BY <2>1, BucketInWheel
  <2>3. /\ store' = [store EXCEPT ![k] = None]
        /\ buckets' = [buckets EXCEPT ![timeToBucket(store[k].exp)][k] = None]
    BY <1>3 DEF Del, Delete
  <2>4. ASSUME NEW j \in Keys, Expiring(j)' PROVE ExpiryTracked(j)'
    <3>1. j # k
      BY <1>0, <2>3, <2>4 DEF Expiring, TypeOK
    <3> QED  BY <1>0, <2>2, <2>3, <2>4, <3>1, KeyFrame DEF Del, TypeOK
  <2> QED  BY <1>1, <1>2, <2>4 DEF TimedInv, Expiring
<1>4. CASE ~(store[k] # None /\ store[k].conflict = c)
  <2>1. UNCHANGED <<now, store, buckets, due, sweep>>
    BY <1>4 DEF Del
  <2> QED  BY <1>0, <1>1, <1>2, <2>1, KeyFrame DEF TimedInv, Expiring
<1> QED  BY <1>3, <1>4

(* The writer's Set files the new expiration in a bucket whose CleanUp is  *)
(* ahead: the expiration lies after now, so its bucket's detach time does   *)
(* too.  Set touches only its own key's entries.                             *)
LEMMA SetTimed ==
    ASSUME WithinMinute, TimedInv,
           NEW k \in Keys, NEW c \in Conflicts, NEW ttl \in TTLs, Set(k, c, ttl)
    PROVE  TimedInv'
<1> DEFINE moved == IF store[k] = None THEN buckets
                    ELSE Delete(buckets, k, store[k].exp)
<1>0. /\ TypeOK /\ now < 60 /\ TickerIdle
      /\ \A j \in Keys : Expiring(j) => ExpiryTracked(j)
  BY DEF TimedInv, Expiring
<1>1. TypeOK'
  BY <1>0, NextTypeOK DEF Next
<1>2. now' < 60 /\ TickerIdle'
  BY <1>0 DEF Set, TickerIdle
<1>3. moved \in [BucketNums -> [Keys -> Conflicts \cup {None}]]
      /\ \A x \in BucketNums, j \in Keys \ {k} : moved[x][j] = buckets[x][j]
  BY <1>0, BucketInWheel DEF Delete, TypeOK, Item
<1>4. buckets' = Add(moved, k, c, ExpOf(ttl))
  BY DEF Set
<1>5. ASSUME NEW j \in Keys \ {k}, Expiring(j)' PROVE ExpiryTracked(j)'
  <2>1. \A x \in BucketNums : buckets'[x][j] = buckets[x][j]
    BY <1>0, <1>3, <1>4, BucketInWheel DEF Add, ExpOf, TypeOK
  <2> QED  BY <1>0, <1>5, <2>1, KeyFrame DEF Set, TypeOK
<1>6. ASSUME Expiring(k)' PROVE ExpiryTracked(k)'
  <2> DEFINE e == now + ttl
             b == timeToBucket(e)
  <2>1. ttl # 0 /\ store'[k].exp = e /\ now \in 0..MaxTime
    BY <1>0, <1>6 DEF Set, Expiring, ExpOf, TypeOK
  <2>2. e \in 1..59
    BY <2>1 DEF WithinMinute, e
  <2>3. b \in BucketNums
    BY <2>2, BucketInWheel DEF b
  <2>4. buckets'[b][k] = c
    BY <1>3, <1>4, <2>1, <2>3 DEF Add, ExpOf, e, b
  <2>5. now < DetachTime(b)
    <3>1. e < (b + 1) * BucketSizeSecs
      BY <2>2, ExpiryInBucket DEF b
    <3>2. b \in Nat
      BY <2>3 DEF BucketNums
    <3> QED  BY <2>1, <3>1, <3>2 DEF DetachTime, e
  <2>6. /\ now' = now /\ now' <= DetachTime(b) /\ now' # DetachTime(b)
        /\ buckets'[b][k] # None
    <3>1. DetachTime(b) \in Nat /\ now' = now
      BY <2>3 DEF DetachTime, BucketNums, Set
    <3>2. buckets'[b][k] # None
      BY <2>4
    <3> QED  BY <2>1, <2>5, <3>1, <3>2
  <2>7. store'[k].exp = e /\ e < 60
    BY <2>1, <2>2
  <2> QED  BY <2>6, <2>7, Zenon DEF ExpiryTracked, b
<1> QED  BY <1>1, <1>2, <1>5, <1>6 DEF TimedInv, Expiring

(* CleanUp's detach at a bucket's detach time takes exactly that bucket:   *)
(* its items move to the sweeper, due before two bucket widths have passed *)
(* since they expired, and every other filed bucket's detach time is ahead. *)
LEMMA CleanUpDetachTimed ==
    ASSUME TimedInv, CleanUpDetach PROVE TimedInv'
<1> DEFINE b0 == timeToBucket(now) - 1
<1>0. /\ TypeOK /\ now < 60 /\ TickerIdle
      /\ \A j \in Keys : Expiring(j) => ExpiryTracked(j)
  BY DEF TimedInv, Expiring
<1>1. TypeOK'
  BY <1>0, NextTypeOK DEF Next
<1>2. now' < 60 /\ TickerIdle'
  BY <1>0 DEF CleanUpDetach, TickerIdle
<1>3. due /\ sweep = EmptyBucket /\ now \in Nat
  BY <1>0 DEF CleanUpDetach, TickerIdle, TypeOK
<1>4. ASSUME NEW k \in Keys, Expiring(k)' PROVE ExpiryTracked(k)'
  <2> DEFINE e == store[k].exp
             b == timeToBucket(e)
  <2>1. Expiring(k) /\ e \in 0..59 /\ UNCHANGED <<now, store>>
    <3>1. Expiring(k) /\ e \in Nat /\ UNCHANGED <<now, store>>
      BY <1>0, <1>4 DEF CleanUpDetach, Expiring, TypeOK, Item, e
    <3>2. e < 60
      BY <1>0, <3>1 DEF ExpiryTracked, e
    <3> QED  BY <3>1, <3>2
  <2>2. b \in BucketNums /\ DetachTime(b) \in Nat
    BY <2>1, BucketInWheel DEF b, DetachTime, BucketNums
  <2>3. /\ buckets[b][k] # None
        /\ now <= DetachTime(b)
    BY <1>0, <1>3, <2>1 DEF ExpiryTracked, e, b, EmptyBucket
  <2>4. CASE b = b0
    <3>1. sweep'[k] # None
      BY <2>2, <2>3, <2>4 DEF CleanUpDetach, BucketAt
    <3>2. now < e + 2 * BucketSizeSecs
      <4>1. b * BucketSizeSecs <= e
        BY <2>1, ExpiryInBucket DEF b
      <4>2. DetachTime(b) = b * BucketSizeSecs + BucketSizeSecs + TickPhase
        BY <2>2 DEF DetachTime, BucketNums
      <4>3. TickPhase < BucketSizeSecs /\ e \in Nat
        BY <2>1
      <4> QED  BY <1>3, <2>2, <2>3, <4>1, <4>2, <4>3 DEF BucketNums
    <3> QED  BY <2>1, <3>1, <3>2 DEF ExpiryTracked, e
  <2>5. CASE b # b0
    <3>1. buckets'[b] = buckets[b]
      BY <2>2, <2>5 DEF CleanUpDetach
    <3>2. now # DetachTime(b)
      BY <1>0, <2>2, <2>5, DetachTakesBucket DEF BucketNums
    <3>3. now' <= DetachTime(b) /\ now' # DetachTime(b)
      BY <1>3, <2>1, <2>2, <2>3, <3>2
    <3> QED  BY <2>1, <2>3, <3>1, <3>3 DEF ExpiryTracked, e, b
  <2> QED  BY <2>4, <2>5
<1> QED  BY <1>1, <1>2, <1>4 DEF TimedInv, Expiring

(* The wheel, the store and the sweeper start empty.                       *)
LEMMA InitTypeOK == Init => TypeOK
<1> SUFFICES ASSUME Init PROVE TypeOK
  OBVIOUS
<1>1. now \in 0..MaxTime /\ due \in BOOLEAN /\ tracked \subseteq Keys
  <2>1. now \in 0..MaxTime
    BY DEF Init
  <2>2. due \in BOOLEAN
    BY DEF Init
  <2>3. tracked \subseteq Keys
    BY DEF Init
  <2> QED  BY <2>1, <2>2, <2>3
<1>2. store \in [Keys -> Item \cup {None}] /\ sweep \in [Keys -> Conflicts \cup {None}]
  BY DEF Init, EmptyBucket
<1>3. buckets \in [BucketNums -> [Keys -> Conflicts \cup {None}]]
  BY DEF Init, EmptyBucket
<1> QED  BY <1>1, <1>2, <1>3 DEF TypeOK

(* The clock, the store, the wheel and the sweeper's bucket keep their     *)
(* types: in particular every expiration is filed in a bucket of the wheel *)
(* and a bucket maps a key to the conflict it was filed with.              *)
THEOREM TTLTypeCorrect == Spec => []TypeOK
BY InitTypeOK, NextTypeOK, PTL DEF Spec

-----------------------------------------------------------------------------
(* Within the minute every step keeps the timing invariant.                *)
LEMMA NextTimed ==
    ASSUME WithinMinute, TimedInv, [Next]_vars PROVE TimedInv'
<1>1. CASE UNCHANGED vars
  BY <1>1 DEF vars, TimedInv, TypeOK, TickerIdle, ExpiryTracked
<1> QED  BY <1>1, SetTimed, DelTimed, TickTimed, CleanUpDetachTimed,
            CleanUpKeyTimed DEF Next

(* The wheel starts empty, the clock at zero, the ticker idle.             *)
LEMMA InitTimed == ASSUME WithinMinute, Init PROVE TimedInv
<1>1. TypeOK
  BY InitTypeOK
<1> QED  BY <1>1 DEF Init, TimedInv, TickerIdle, WithinMinute

(* Specification, property 7, for every bucket width dividing a minute,    *)
(* every ticker phase, every set of keys and TTLs: while the clock and the *)
(* expirations stay within the first minute, an item that expires at t is  *)
(* gone from the store by t + 2 bucket widths (CleanUp on every tick takes *)
(* the bucket before the current one, and the clock waits for it).          *)
THEOREM ExpiryInTime ==
    ASSUME WithinMinute PROVE Spec => []ExpiredRemovedInTime
<1>1. TimedInv => ExpiredRemovedInTime
  <2> SUFFICES ASSUME TimedInv, NEW k \in Keys, store[k] # None, store[k].exp # 0
               PROVE  now < store[k].exp + 2 * BucketSizeSecs
    BY DEF ExpiredRemovedInTime
  <2> DEFINE e == store[k].exp
             b == timeToBucket(e)
  <2>1. ExpiryTracked(k) /\ e \in 0..59 /\ now \in Nat
    <3>1. ExpiryTracked(k) /\ e \in Nat /\ now \in Nat
      BY DEF TimedInv, TypeOK, Item, e
    <3> QED  BY <3>1 DEF ExpiryTracked, e
  <2>2. b \in BucketNums
    BY <2>1, BucketInWheel DEF b
  <2>3. CASE now <= DetachTime(b)
    <3>1. DetachTime(b) = b * BucketSizeSecs + BucketSizeSecs + TickPhase
      BY <2>2 DEF DetachTime, BucketNums
    <3>2. b * BucketSizeSecs <= e
      BY <2>1, ExpiryInBucket DEF b
    <3> QED  BY <2>1, <2>2, <2>3, <3>1, <3>2 DEF BucketNums
  <2> QED  BY <2>1, <2>3 DEF ExpiryTracked, e, b
<1> QED  BY <1>1, InitTimed, NextTimed, PTL DEF Spec
=============================================================================
