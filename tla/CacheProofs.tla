---------------------------- MODULE CacheProofs ----------------------------
(***************************************************************************)
(* Proofs about the Cache specification, for every value of its constants *)
(* that satisfies CacheAssumption.                                         *)
(*                                                                         *)
(* TypeOK is not inductive on its own: SetStore, SetEvictAdmit and DelData *)
(* read the arguments of the goroutine's call, so the invariant must say   *)
(* that a goroutine in the middle of a Set holds Set arguments and one in  *)
(* the middle of a Del holds Del arguments (ArgsMatchPc), and that the    *)
(* eviction loop's goroutine holds the policy mutex.                       *)
(***************************************************************************)
EXTENDS Cache, SequenceTheorems, TLAPS

SetPcs == {"setSample", "setEvict", "setIncr", "setReset", "setRes"}

(* A goroutine inside Set holds Set arguments, one inside Del Del ones.    *)
ArgsMatchPc ==
    \A p \in Procs :
        /\ pc[p] \in SetPcs => args[p] \in SetArgs
        /\ pc[p] = "delData" => args[p] \in DelArgs

(* A goroutine in the eviction loop holds the policy mutex and its        *)
(* incoming key is untracked: SetEvictAdmit tracks args[p].key, and the    *)
(* proof that TypeOK and the store property survive the loop needs it.     *)
EvictionLoopExclusive ==
    \A p \in Procs : pc[p] = "setSample" =>
        /\ plock = p
        /\ keyCosts[args[p].key] = NoCost

IInv == TypeOK /\ ArgsMatchPc /\ EvictionLoopExclusive

USE CacheAssumption

LEMMA InitIInv == Init => IInv
<1> SUFFICES ASSUME Init PROVE IInv
  OBVIOUS
<1>1. victims \in [Procs -> Seq(Keys)]
  BY DEF Init
<1>2. used \in 0..(UsedModulus - 1)
  BY DEF Init
<1>3. TypeOK
  BY <1>1, <1>2 DEF Init, TypeOK, Pcs
<1>4. ArgsMatchPc /\ EvictionLoopExclusive
  BY DEF Init, ArgsMatchPc, EvictionLoopExclusive, SetPcs
<1>5. QED
  BY <1>3, <1>4 DEF IInv

LEMMA NextIInv == IInv /\ [Next]_vars => IInv'
<1> SUFFICES ASSUME IInv, [Next]_vars PROVE IInv'
  OBVIOUS
<1> USE DEF IInv, TypeOK, ArgsMatchPc, EvictionLoopExclusive, Pcs, SetPcs,
            SetArgs, DelArgs
<1>1. ASSUME NEW p \in Procs, NEW k \in Keys, Get(p, k) PROVE IInv'
  <2>1. sketch' \in [Keys -> 0..CounterMax] /\ door' \subseteq Keys
    <3>1. CASE k \notin door
      BY <1>1, <3>1 DEF Get, Increment
    <3>2. CASE k \in door
      <4>1. sketch' = [sketch EXCEPT ![k] = IF @ < CounterMax THEN @ + 1 ELSE @]
        BY <1>1, <3>2 DEF Get, Increment
      <4>2. door' = door
        BY <1>1, <3>2 DEF Get, Increment
      <4>3. QED
        BY <4>1, <4>2
    <3>3. QED
      BY <3>1, <3>2
  <2>2. UNCHANGED <<data, keyCosts, costUsed, plock, used, pc, args, victims>>
    BY <1>1 DEF Get
  <2>3. QED
    BY <2>1, <2>2
<1>2. ASSUME NEW p \in Procs, NEW k \in Keys, DelPolicy(p, k) PROVE IInv'
  BY <1>2 DEF DelPolicy
<1>3. ASSUME NEW p \in Procs, NEW k \in Keys, NEW v \in Vals, NEW c \in Costs,
             SetUpdate(p, k, v, c)
      PROVE IInv'
  BY <1>3 DEF SetUpdate
<1>4. ASSUME NEW p \in Procs, NEW k \in Keys, NEW v \in Vals, NEW c \in Costs,
             SetAdmit(p, k, v, c)
      PROVE IInv'
  BY <1>4 DEF SetAdmit, Track
<1>5. ASSUME NEW p \in Procs, NEW k \in Keys, NEW v \in Vals, NEW c \in Costs,
             SetStartEvict(p, k, v, c)
      PROVE IInv'
  BY <1>5 DEF SetStartEvict
<1>6. ASSUME NEW p \in Procs, SetSampleReject(p) PROVE IInv'
  BY <1>6 DEF SetSampleReject
<1>7. ASSUME NEW p \in Procs, SetEvictOne(p) PROVE IInv'
  BY <1>7 DEF SetEvictOne, EvictCandidate
<1>8. ASSUME NEW p \in Procs, SetEvictAdmit(p) PROVE IInv'
  <2>1. PICK v \in Keys :
          /\ EvictCandidate(p, v)
          /\ keyCosts' = [keyCosts EXCEPT ![v] = NoCost, ![args[p].key] = args[p].cost]
          /\ costUsed' = costUsed - keyCosts[v] + args[p].cost
          /\ plock' = None
          /\ pc' = [pc EXCEPT ![p] = "setEvict"]
          /\ UNCHANGED <<data, sketch, door, used, args>>
    BY <1>8 DEF SetEvictAdmit
  <2>2. pc[p] = "setSample" /\ args[p] \in SetArgs /\ plock = p
    BY <2>1 DEF EvictCandidate
  <2>3. victims' \in [Procs -> Seq(Keys)]
    BY <2>1 DEF EvictCandidate
  <2>4. keyCosts' \in [Keys -> Costs \cup {NoCost}]
    BY <2>1, <2>2
  <2>5. \A q \in Procs : pc'[q] # "setSample"
    BY <2>1, <2>2
  <2>6. v \in Tracked
    BY <2>1 DEF EvictCandidate, Samples, kSubset, MinOfSample
  <2>7. costUsed' \in Int
    BY <2>1, <2>2, <2>6, CacheAssumption DEF Tracked
  <2>8. QED
    BY <2>1, <2>2, <2>3, <2>4, <2>5, <2>7
<1>9. ASSUME NEW p \in Procs, SetEvictVictim(p) PROVE IInv'
  BY <1>9 DEF SetEvictVictim, StoreDel
<1>10. ASSUME NEW p \in Procs, SetStore(p) PROVE IInv'
  BY <1>10 DEF SetStore, StoreSet
<1>11. ASSUME NEW p \in Procs, SetIncr(p) PROVE IInv'
  BY <1>11 DEF SetIncr
<1>12. ASSUME NEW p \in Procs, SetReset(p) PROVE IInv'
  BY <1>12 DEF SetReset, size
<1>13. ASSUME NEW p \in Procs, SetRes(p) PROVE IInv'
  BY <1>13 DEF SetRes, Res
<1>14. ASSUME NEW p \in Procs, DelData(p) PROVE IInv'
  BY <1>14 DEF DelData, StoreDel
<1>15. CASE UNCHANGED vars
  BY <1>15 DEF vars
<1>16. QED
  BY <1>1, <1>2, <1>3, <1>4, <1>5, <1>6, <1>7, <1>8, <1>9, <1>10, <1>11,
     <1>12, <1>13, <1>14, <1>15 DEF Next

LEMMA IInvAlways == Spec => []IInv
  BY InitIInv, NextIInv, PTL DEF Spec

(* Every variable of the cache keeps its type in every reachable state.   *)
THEOREM TypeCorrect == Spec => []TypeOK
  BY IInvAlways, PTL DEF IInv

-----------------------------------------------------------------------------
(* With one goroutine and one cost for every item, the store and the       *)
(* policy agree between calls.  The two conditions are what the runs        *)
(* cache_set_del_race and cache_rejected_admission show to be needed.       *)
SingleCaller == \E q \in Procs : Procs = {q}
UniformCost == \E c0 \in Nat : Costs \subseteq {c0}

Stored == {k \in Keys : data[k] # Nil}

(* Where a call is, how the store differs from the policy's map: a Set     *)
(* that has been admitted has not stored its key yet and still has its     *)
(* victims in the store; a Del has left the policy and not yet the store.   *)
StoreMatchesPolicy(p) ==
    /\ pc[p] \in {"idle", "setSample", "setIncr", "setReset", "setRes"} =>
          Stored = Tracked /\ victims[p] = <<>>
    /\ pc[p] = "setEvict" =>
          /\ Len(victims[p]) <= 1
          /\ Tracked = (Stored \ Range(victims[p])) \cup {args[p].key}
          /\ Range(victims[p]) \cap (Tracked \cup {args[p].key}) = {}
    /\ pc[p] = "delData" => Tracked = Stored \ {args[p].key} /\ victims[p] = <<>>

SeqIInv ==
    /\ IInv
    /\ costUsed <= PolicyMaxCost
    /\ \A p \in Procs : StoreMatchesPolicy(p)

(* Giving a key a cost tracks it; setting it to NoCost untracks it.        *)
LEMMA TrackedExcept ==
    ASSUME NEW kc \in [Keys -> Costs \cup {NoCost}], NEW k \in Keys,
           NEW c \in Costs \cup {NoCost}
    PROVE  {j \in Keys : [kc EXCEPT ![k] = c][j] # NoCost} =
              IF c = NoCost THEN {j \in Keys : kc[j] # NoCost} \ {k}
              ELSE {j \in Keys : kc[j] # NoCost} \cup {k}
  OBVIOUS

(* Storing a value adds the key to the store; deleting it removes it.       *)
LEMMA StoredExcept ==
    ASSUME NEW d \in [Keys -> Vals \cup {Nil}], NEW k \in Keys,
           NEW x \in Vals \cup {Nil}
    PROVE  {j \in Keys : [d EXCEPT ![k] = x][j] # Nil} =
              IF x = Nil THEN {j \in Keys : d[j] # Nil} \ {k}
              ELSE {j \in Keys : d[j] # Nil} \cup {k}
  OBVIOUS

(* A victim list of at most one key: empty, or that key alone.             *)
LEMMA ShortVictims ==
    ASSUME NEW s \in Seq(Keys), Len(s) <= 1
    PROVE  \/ s = <<>> /\ Range(s) = {}
           \/ /\ s = <<s[1]>> /\ s[1] \in Keys /\ Range(s) = {s[1]}
              /\ Tail(s) = <<>> /\ Head(s) = s[1]
<1>0. Len(s) \in Nat /\ DOMAIN s = 1..Len(s)
  BY LenProperties
<1>1. CASE Len(s) = 0
  BY <1>0, <1>1, EmptySeq DEF Range
<1>2. CASE Len(s) = 1
  <2>1. s[1] \in Keys /\ DOMAIN s = {1}
    BY <1>0, <1>2, LenProperties
  <2>2. s = <<s[1]>>
    BY <1>2, <2>1, SeqEqual
  <2>3. Range(s) = {s[1]}
    BY <2>1 DEF Range
  <2>4. Tail(s) = <<>> /\ Head(s) = s[1]
    <3>1. s # <<>>
      BY <1>2
    <3>2. Tail(s) \in Seq(Keys) /\ Len(Tail(s)) = 0
      BY <1>2, <3>1, HeadTailProperties
    <3> QED  BY <3>2, EmptySeq
  <2> QED  BY <2>1, <2>2, <2>3, <2>4
<1> QED  BY <1>0, <1>1, <1>2

(* The steps that start a call from idle keep the store and the policy in  *)
(* step: Get changes neither, Del untracks its key, Set's policy.Add either *)
(* tracks its key (admission, cost update) or enters the eviction loop.     *)
LEMMA IdleStepsSeq ==
    ASSUME UniformCost, SeqIInv, NEW p \in Procs, NEW k \in Keys,
           \/ Get(p, k)
           \/ DelPolicy(p, k)
           \/ \E v \in Vals, c \in Costs :
                 SetUpdate(p, k, v, c) \/ SetAdmit(p, k, v, c) \/ SetStartEvict(p, k, v, c)
    PROVE  costUsed' <= PolicyMaxCost /\ StoreMatchesPolicy(p)'
<1>0. PICK c0 \in Nat : Costs \subseteq {c0}
  BY DEF UniformCost
<1>1. /\ TypeOK /\ costUsed <= PolicyMaxCost
      /\ pc[p] = "idle" => Stored = Tracked /\ victims[p] = <<>>
  BY DEF SeqIInv, IInv, StoreMatchesPolicy
<1>2. PolicyMaxCost \in Nat
  BY DEF PolicyMaxCost
<1>3. CASE Get(p, k)
  <2>1. UNCHANGED <<data, keyCosts, costUsed, pc, args, victims>>
    BY <1>3 DEF Get
  <2> QED  BY <1>1, <2>1 DEF SeqIInv, StoreMatchesPolicy, Stored, Tracked
<1>4. CASE DelPolicy(p, k)
  <2>1. Tracked' = Tracked \ {k}
    BY <1>1, <1>4, TrackedExcept DEF DelPolicy, Tracked, TypeOK
  <2>2. costUsed' \in Int /\ costUsed' <= costUsed
    <3>1. CASE keyCosts[k] = NoCost
      BY <1>1, <3>1, <1>4 DEF DelPolicy, TypeOK
    <3>2. CASE keyCosts[k] # NoCost
      <4>1. keyCosts[k] \in Nat /\ costUsed \in Int
        BY <1>1, <3>2 DEF TypeOK
      <4> QED  BY <1>4, <3>2, <4>1 DEF DelPolicy
    <3> QED  BY <3>1, <3>2
  <2>3. /\ Stored' = Stored /\ pc'[p] = "delData" /\ args'[p].key = k
        /\ victims' = victims /\ Stored = Tracked /\ victims[p] = <<>>
    BY <1>1, <1>4 DEF DelPolicy, Stored, TypeOK
  <2> QED  BY <1>1, <1>2, <2>1, <2>2, <2>3 DEF StoreMatchesPolicy, TypeOK
<1>5. ASSUME NEW v \in Vals, NEW c \in Costs,
             SetUpdate(p, k, v, c) \/ SetAdmit(p, k, v, c)
      PROVE  costUsed' <= PolicyMaxCost /\ StoreMatchesPolicy(p)'
  <2>1. /\ pc[p] = "idle" /\ pc'[p] = "setEvict" /\ args'[p].key = k
        /\ UNCHANGED <<data, victims>>
        /\ keyCosts' = [keyCosts EXCEPT ![k] = c]
    BY <1>1, <1>5 DEF SetUpdate, SetAdmit, Track, TypeOK
  <2>2. Tracked' = Tracked \cup {k} /\ Stored' = Stored
    BY <1>1, <2>1, TrackedExcept, CacheAssumption DEF Tracked, Stored, TypeOK
  <2>3. costUsed' <= PolicyMaxCost
    <3>1. CASE SetUpdate(p, k, v, c)
      <4>1. keyCosts[k] \in Costs /\ c \in Costs
        BY <1>1, <3>1 DEF SetUpdate, TypeOK
      <4>2. keyCosts[k] = c /\ costUsed \in Int /\ c \in Nat
        BY <1>0, <1>1, <4>1 DEF TypeOK
      <4>3. costUsed' = costUsed - keyCosts[k] + c
        BY <3>1 DEF SetUpdate
      <4> QED  BY <1>1, <4>2, <4>3
    <3>2. CASE SetAdmit(p, k, v, c)
      BY <3>2 DEF SetAdmit, Track
    <3> QED  BY <1>5, <3>1, <3>2
  <2>4. victims'[p] = <<>> /\ Len(victims'[p]) = 0 /\ Range(victims'[p]) = {}
    BY <1>1, <2>1 DEF Range
  <2> QED  BY <1>1, <2>1, <2>2, <2>3, <2>4 DEF StoreMatchesPolicy
<1>6. ASSUME NEW v \in Vals, NEW c \in Costs, SetStartEvict(p, k, v, c)
      PROVE  costUsed' <= PolicyMaxCost /\ StoreMatchesPolicy(p)'
  <2>1. /\ pc[p] = "idle" /\ pc'[p] = "setSample"
        /\ UNCHANGED <<data, keyCosts, costUsed, victims>>
    BY <1>1, <1>6 DEF SetStartEvict, TypeOK
  <2> QED  BY <1>1, <2>1 DEF StoreMatchesPolicy, Stored, Tracked
<1> QED  BY <1>3, <1>4, <1>5, <1>6

(* A candidate of the eviction sample is a tracked key.                     *)
LEMMA CandidateTracked ==
    ASSUME NEW p \in Procs, NEW v \in Keys, EvictCandidate(p, v) PROVE v \in Tracked
  BY DEF EvictCandidate, Samples, kSubset, MinOfSample

(* The eviction loop with one cost for every item: its first candidate      *)
(* always makes room (SetEvictOne is never enabled, the policy's cost being *)
(* within the budget), so at most one victim is taken, and a rejection     *)
(* comes before any victim.                                                  *)
LEMMA LoopStepsSeq ==
    ASSUME UniformCost, SeqIInv, NEW p \in Procs,
           SetSampleReject(p) \/ SetEvictOne(p) \/ SetEvictAdmit(p)
    PROVE  costUsed' <= PolicyMaxCost /\ StoreMatchesPolicy(p)'
<1>0. PICK c0 \in Nat : Costs \subseteq {c0}
  BY DEF UniformCost
<1>1. /\ TypeOK /\ costUsed <= PolicyMaxCost
      /\ pc[p] = "setSample" =>
            /\ Stored = Tracked /\ victims[p] = <<>>
            /\ args[p] \in SetArgs /\ keyCosts[args[p].key] = NoCost
  BY DEF SeqIInv, IInv, StoreMatchesPolicy, ArgsMatchPc, EvictionLoopExclusive, SetPcs
<1>2. ASSUME NEW v \in Keys, EvictCandidate(p, v)
      PROVE  /\ pc[p] = "setSample" /\ v \in Tracked /\ v # args[p].key
             /\ keyCosts[v] = c0 /\ args[p].cost = c0 /\ costUsed \in Int
  <2>1. pc[p] = "setSample" /\ v \in Tracked
    BY <1>2, CandidateTracked DEF EvictCandidate
  <2>2. keyCosts[v] \in Costs /\ args[p].cost \in Costs /\ costUsed \in Int
    BY <1>1, <2>1 DEF Tracked, TypeOK, SetArgs
  <2> QED  BY <1>0, <1>1, <2>1, <2>2 DEF Tracked
<1>3. CASE SetSampleReject(p)
  <2>1. /\ pc[p] = "setSample" /\ pc'[p] = "idle" /\ victims'[p] = <<>>
        /\ UNCHANGED <<data, keyCosts, costUsed>>
    BY <1>1, <1>3 DEF SetSampleReject, TypeOK
  <2> QED  BY <1>1, <2>1 DEF StoreMatchesPolicy, Stored, Tracked
<1>4. CASE SetEvictOne(p)
  <2>1. PICK v \in Keys :
          /\ EvictCandidate(p, v)
          /\ costUsed - keyCosts[v] + args[p].cost > PolicyMaxCost
    BY <1>4 DEF SetEvictOne
  <2>2. keyCosts[v] = c0 /\ args[p].cost = c0 /\ costUsed \in Int
    BY <1>2, <2>1
  <2>3. PolicyMaxCost \in Nat
    BY DEF PolicyMaxCost
  <2> QED  BY <1>1, <2>1, <2>2, <2>3
<1>5. CASE SetEvictAdmit(p)
  <2>1. PICK v \in Keys :
          /\ EvictCandidate(p, v)
          /\ keyCosts' = [keyCosts EXCEPT ![v] = NoCost, ![args[p].key] = args[p].cost]
          /\ costUsed' = costUsed - keyCosts[v] + args[p].cost
          /\ pc' = [pc EXCEPT ![p] = "setEvict"]
          /\ UNCHANGED <<data, args>>
    BY <1>5 DEF SetEvictAdmit
  <2> DEFINE K == args[p].key
  <2>2. /\ pc[p] = "setSample" /\ v \in Tracked /\ v # K
        /\ keyCosts[v] = c0 /\ args[p].cost = c0 /\ costUsed \in Int
    BY <1>2, <2>1
  <2>3. K \in Keys /\ args[p].cost \in Costs /\ Stored = Tracked /\ victims[p] = <<>>
    BY <1>1, <2>2 DEF SetArgs
  <2>4. Tracked' = (Tracked \ {v}) \cup {K}
    <3>1. [keyCosts EXCEPT ![v] = NoCost] \in [Keys -> Costs \cup {NoCost}]
      BY <1>1 DEF TypeOK
    <3>2. {j \in Keys : [keyCosts EXCEPT ![v] = NoCost][j] # NoCost} = Tracked \ {v}
      BY <1>1, TrackedExcept DEF Tracked, TypeOK
    <3>3. keyCosts' = [[keyCosts EXCEPT ![v] = NoCost] EXCEPT ![K] = args[p].cost]
      BY <2>1
    <3>4. args[p].cost # NoCost
      BY <2>3, CacheAssumption
    <3> QED  BY <2>3, <3>1, <3>2, <3>3, <3>4, TrackedExcept DEF Tracked
  <2>5. victims'[p] = <<v>> /\ Len(victims'[p]) = 1 /\ Range(victims'[p]) = {v}
    BY <1>1, <2>1, <2>3 DEF EvictCandidate, Range, TypeOK
  <2>6. costUsed' = costUsed
    BY <2>1, <2>2
  <2>7. Stored' = Stored /\ pc'[p] = "setEvict" /\ args'[p].key = K
    BY <1>1, <2>1 DEF Stored, TypeOK
  <2>8. Tracked' = (Stored' \ Range(victims'[p])) \cup {args'[p].key}
    BY <2>3, <2>4, <2>5, <2>7
  <2>9. Range(victims'[p]) \cap (Tracked' \cup {args'[p].key}) = {}
    BY <2>2, <2>4, <2>5, <2>7
  <2> QED  BY <1>1, <2>5, <2>6, <2>7, <2>8, <2>9 DEF StoreMatchesPolicy
<1> QED  BY <1>3, <1>4, <1>5

(* The steps after policy.Add: deleting the victim (at most one) from the  *)
(* store, storing the key, the reset bookkeeping and Del's store delete.    *)
LEMMA TailStepsSeq ==
    ASSUME SeqIInv, NEW p \in Procs,
           \/ SetEvictVictim(p) \/ SetStore(p) \/ SetIncr(p)
           \/ SetReset(p) \/ SetRes(p) \/ DelData(p)
    PROVE  costUsed' <= PolicyMaxCost /\ StoreMatchesPolicy(p)'
<1>1. /\ TypeOK /\ ArgsMatchPc /\ costUsed <= PolicyMaxCost
      /\ StoreMatchesPolicy(p)
  BY DEF SeqIInv, IInv
<1>2. CASE SetEvictVictim(p)
  <2> DEFINE K == args[p].key
             s == victims[p]
  <2>1. /\ pc[p] = "setEvict" /\ s # <<>> /\ s \in Seq(Keys) /\ Len(s) <= 1
        /\ Tracked = (Stored \ Range(s)) \cup {K}
    BY <1>1, <1>2 DEF SetEvictVictim, StoreMatchesPolicy, TypeOK
  <2>2. s = <<s[1]>> /\ s[1] \in Keys /\ Range(s) = {s[1]}
        /\ Tail(s) = <<>> /\ Head(s) = s[1]
    BY <2>1, ShortVictims, EmptySeq DEF s
  <2>3. Stored' = Stored \ {s[1]}
    BY <1>1, <1>2, <2>2, StoredExcept DEF SetEvictVictim, StoreDel, Stored, TypeOK, s
  <2>4. /\ victims'[p] = <<>>
        /\ pc'[p] = "setEvict" /\ args'[p].key = K /\ Tracked' = Tracked
        /\ costUsed' = costUsed
    BY <1>1, <1>2, <2>2 DEF SetEvictVictim, Tracked, TypeOK, s
  <2>6. Range(victims'[p]) = {} /\ Len(victims'[p]) = 0
    BY <2>4, EmptySeq DEF Range
  <2>5. Tracked' = (Stored' \ Range(victims'[p])) \cup {args'[p].key}
    BY <2>1, <2>2, <2>3, <2>4, <2>6 DEF K, s
  <2> QED  BY <1>1, <2>4, <2>5, <2>6 DEF StoreMatchesPolicy
<1>3. CASE SetStore(p)
  <2> DEFINE K == args[p].key
  <2>1. /\ pc[p] = "setEvict" /\ victims[p] = <<>>
        /\ args[p] \in SetArgs /\ Tracked = Stored \cup {K}
    BY <1>1, <1>3, EmptySeq DEF SetStore, StoreMatchesPolicy, ArgsMatchPc, SetPcs,
                                Range, K
  <2>2. Stored' = Stored \cup {K}
    BY <1>1, <1>3, <2>1, StoredExcept, CacheAssumption
       DEF SetStore, StoreSet, Stored, TypeOK, SetArgs, K
  <2>3. /\ pc'[p] = "setIncr" /\ victims'[p] = <<>> /\ Tracked' = Tracked
        /\ costUsed' = costUsed
    BY <1>1, <1>3, <2>1 DEF SetStore, Tracked, TypeOK
  <2> QED  BY <1>1, <2>1, <2>2, <2>3 DEF StoreMatchesPolicy
<1>4. ASSUME SetIncr(p) \/ SetReset(p) \/ SetRes(p)
      PROVE  costUsed' <= PolicyMaxCost /\ StoreMatchesPolicy(p)'
  <2>1. /\ pc[p] \in {"setIncr", "setReset", "setRes"}
        /\ pc'[p] \in {"idle", "setReset", "setRes"}
        /\ UNCHANGED <<data, keyCosts, costUsed, victims>>
    BY <1>1, <1>4 DEF SetIncr, SetReset, SetRes, Res, TypeOK
  <2> QED  BY <1>1, <2>1 DEF StoreMatchesPolicy, Stored, Tracked
<1>5. CASE DelData(p)
  <2> DEFINE K == args[p].key
  <2>1. /\ pc[p] = "delData" /\ args[p] \in DelArgs
        /\ Tracked = Stored \ {K} /\ victims[p] = <<>>
    BY <1>1, <1>5 DEF DelData, StoreMatchesPolicy, ArgsMatchPc, K
  <2>2. Stored' = Stored \ {K}
    BY <1>1, <1>5, <2>1, StoredExcept DEF DelData, StoreDel, Stored, TypeOK, DelArgs, K
  <2>3. /\ pc'[p] = "idle" /\ victims'[p] = <<>> /\ Tracked' = Tracked
        /\ costUsed' = costUsed
    BY <1>1, <1>5, <2>1 DEF DelData, Tracked, TypeOK
  <2> QED  BY <1>1, <2>1, <2>2, <2>3 DEF StoreMatchesPolicy
<1> QED  BY <1>2, <1>3, <1>4, <1>5


LEMMA InitSeq == Init => SeqIInv
<1> SUFFICES ASSUME Init PROVE SeqIInv
  OBVIOUS
<1>1. PolicyMaxCost \in Nat
  BY DEF PolicyMaxCost
<1>2. Stored = {} /\ Tracked = {}
  BY CacheAssumption DEF Init, Stored, Tracked
<1> QED  BY <1>1, <1>2, InitIInv DEF Init, SeqIInv, StoreMatchesPolicy

(* With a single caller every step is one of its own, so the lemmas above   *)
(* cover them all.                                                           *)
LEMMA NextSeq ==
    ASSUME SingleCaller, UniformCost, SeqIInv, [Next]_vars PROVE SeqIInv'
<1>0. PICK q \in Procs : Procs = {q}
  BY DEF SingleCaller
<1>1. IInv'
  BY NextIInv DEF SeqIInv
<1>2. costUsed' <= PolicyMaxCost /\ StoreMatchesPolicy(q)'
  <2>1. CASE UNCHANGED vars
    BY <2>1 DEF SeqIInv, vars, StoreMatchesPolicy, Stored, Tracked
  <2>2. ASSUME NEW p \in Procs, NEW k \in Keys,
               \/ Get(p, k)
               \/ DelPolicy(p, k)
               \/ \E v \in Vals, c \in Costs :
                     SetUpdate(p, k, v, c) \/ SetAdmit(p, k, v, c) \/ SetStartEvict(p, k, v, c)
        PROVE  costUsed' <= PolicyMaxCost /\ StoreMatchesPolicy(q)'
    BY <1>0, <2>2, IdleStepsSeq
  <2>3. ASSUME NEW p \in Procs,
               SetSampleReject(p) \/ SetEvictOne(p) \/ SetEvictAdmit(p)
        PROVE  costUsed' <= PolicyMaxCost /\ StoreMatchesPolicy(q)'
    BY <1>0, <2>3, LoopStepsSeq
  <2>4. ASSUME NEW p \in Procs,
               \/ SetEvictVictim(p) \/ SetStore(p) \/ SetIncr(p)
               \/ SetReset(p) \/ SetRes(p) \/ DelData(p)
        PROVE  costUsed' <= PolicyMaxCost /\ StoreMatchesPolicy(q)'
    BY <1>0, <2>4, TailStepsSeq
  <2> QED  BY <2>1, <2>2, <2>3, <2>4 DEF Next
<1> QED  BY <1>0, <1>1, <1>2 DEF SeqIInv

(* With one goroutine calling the cache and one cost for every item, the    *)
(* store holds exactly the keys the policy tracks whenever no call is in    *)
(* flight: Cache.Set stores only what policy.Add admitted and deletes its    *)
(* victims, Cache.Del removes its key from both.  For every key set, value  *)
(* set, cost and budget.                                                     *)
THEOREM StoreTrackedBetweenCalls ==
    ASSUME SingleCaller, UniformCost PROVE Spec => []StoreTrackedWhenIdle
<1>1. SeqIInv => StoreTrackedWhenIdle
  <2>1. PICK q \in Procs : Procs = {q}
    BY DEF SingleCaller
  <2> QED  BY <2>1 DEF SeqIInv, StoreMatchesPolicy, StoreTrackedWhenIdle, Stored
<1> QED  BY <1>1, InitSeq, NextSeq, PTL DEF Spec

=============================================================================
