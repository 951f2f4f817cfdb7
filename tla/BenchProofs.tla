----------------------------- MODULE BenchProofs -----------------------------
(***************************************************************************)
(* Proofs about the benchmark wrappers of Bench.tla, for every set of     *)
(* goroutines, keys and values, every capacity and every bound on Sets:   *)
(* every Set logs at most once, and the mutex confines every overlap of   *)
(* two goroutines inside lru.Cache to one that involves a Del.             *)
(***************************************************************************)
EXTENDS Bench, SequenceTheorems, FiniteSetTheorems, TLAPS

\* (BenchAssumption is cited where a proof needs it.)

-----------------------------------------------------------------------------
(* The list operations lru.Cache is modelled with, on sequences given     *)
(* index by index.                                                          *)

(* Unlinking the i-th element shifts the ones after it down by one.        *)
LEMMA RemoveAtShape ==
    ASSUME NEW S, NEW s \in Seq(S), NEW i \in 1..Len(s)
    PROVE  /\ RemoveAt(s, i) \in Seq(S)
           /\ Len(RemoveAt(s, i)) = Len(s) - 1
           /\ \A j \in 1..Len(s) - 1 :
                 RemoveAt(s, i)[j] = IF j < i THEN s[j] ELSE s[j + 1]
<1> DEFINE a == SubSeq(s, 1, i - 1)
           b == SubSeq(s, i + 1, Len(s))
<1> HIDE DEF a, b
<1>0. Len(s) \in Nat /\ \A j \in 1..Len(s) : s[j] \in S
  BY ElementOfSeq, LenProperties
<1>1. a \in Seq(S) /\ Len(a) = i - 1 /\ \A j \in 1..i - 1 : a[j] = s[j]
  BY <1>0, SubSeqProperties DEF a
<1>2. b \in Seq(S) /\ Len(b) = Len(s) - i /\ \A j \in 1..Len(s) - i : b[j] = s[i + j]
  BY <1>0, SubSeqProperties DEF b
<1>3. /\ a \o b \in Seq(S) /\ Len(a \o b) = Len(a) + Len(b)
      /\ \A j \in 1..Len(a) + Len(b) : (a \o b)[j] = IF j <= Len(a) THEN a[j] ELSE b[j - Len(a)]
  BY <1>1, <1>2, ConcatProperties
<1>4. RemoveAt(s, i) = a \o b
  BY DEF RemoveAt, a, b
<1>6. Len(s) \in Nat /\ Len(a) = i - 1 /\ Len(b) = Len(s) - i
  BY <1>0, <1>1, <1>2
<1>7. Len(s) - 1 = Len(a) + Len(b)
  BY <1>6
<1>5. ASSUME NEW j \in 1..Len(s) - 1
      PROVE  (a \o b)[j] = IF j < i THEN s[j] ELSE s[j + 1]
  <2>1. (a \o b)[j] = IF j <= i - 1 THEN a[j] ELSE b[j - (i - 1)]
    BY <1>3, <1>6, <1>7
  <2>2. CASE j < i
    BY <1>1, <2>1, <2>2
  <2>3. CASE j >= i
    <3>1. j - (i - 1) \in 1..Len(s) - i
      BY <1>6, <2>3
    <3>2. b[j - (i - 1)] = s[j + 1]
      BY <1>2, <3>1
    <3> QED  BY <2>1, <2>3, <3>2
  <2>4. j < i \/ j >= i
    BY <1>6
  <2> QED  BY <2>2, <2>3, <2>4, Zenon
<1> QED  BY <1>3, <1>4, <1>5, <1>7

(* Cons puts the element in front of the others.                           *)
LEMMA ConsShape ==
    ASSUME NEW S, NEW s \in Seq(S), NEW e \in S
    PROVE  /\ Cons(e, s) \in Seq(S)
           /\ Len(Cons(e, s)) = Len(s) + 1
           /\ Cons(e, s)[1] = e
           /\ \A j \in 2..Len(s) + 1 : Cons(e, s)[j] = s[j - 1]
<1>1. <<e>> \in Seq(S) /\ Len(<<e>>) = 1
  OBVIOUS
<1> QED  BY <1>1, ConcatProperties, LenProperties DEF Cons

(* Front drops the last element.                                           *)
LEMMA FrontShape ==
    ASSUME NEW S, NEW s \in Seq(S), Len(s) > 0
    PROVE  /\ Front(s) \in Seq(S)
           /\ Len(Front(s)) = Len(s) - 1
           /\ \A j \in 1..Len(s) - 1 : Front(s)[j] = s[j]
<1>0. Len(s) \in Nat /\ \A j \in 1..Len(s) : s[j] \in S
  BY ElementOfSeq, LenProperties
<1>1. Front(s) = SubSeq(s, 1, Len(s) - 1)
  BY DEF Front
<1> DEFINE n == Len(s) - 1
<1> HIDE DEF n
<1>2. n \in Nat /\ \A j \in 1..n : s[j] \in S
  BY <1>0 DEF n
<1>3. /\ SubSeq(s, 1, n) \in Seq(S)
      /\ Len(SubSeq(s, 1, n)) = IF 1 <= n THEN n - 1 + 1 ELSE 0
      /\ \A j \in 1..n - 1 + 1 : SubSeq(s, 1, n)[j] = s[1 + j - 1]
  BY <1>2, SubSeqProperties
<1>4. /\ SubSeq(s, 1, n) \in Seq(S)
      /\ Len(SubSeq(s, 1, n)) = n
      /\ \A j \in 1..n : SubSeq(s, 1, n)[j] = s[j]
  BY <1>2, <1>3
<1>5. Front(s) = SubSeq(s, 1, n)
  BY <1>1 DEF n
<1> QED  BY <1>4, <1>5 DEF n

(* lru.Cache's list holds each key once; unlinking a key from such a list *)
(* leaves every other key once, and one fewer if the key was there.        *)
LEMMA RemoveFirstInjective ==
    ASSUME NEW S, NEW s \in Seq(S), IsInjective(s), NEW e
    PROVE  /\ RemoveFirst(s, e) \in Seq(S)
           /\ IsInjective(RemoveFirst(s, e))
           /\ ToSet(RemoveFirst(s, e)) = ToSet(s) \ {e}
           /\ Len(RemoveFirst(s, e)) = IF e \in ToSet(s) THEN Len(s) - 1 ELSE Len(s)
<1>0. Len(s) \in Nat /\ DOMAIN s = 1..Len(s)
  BY LenProperties
<1>1. CASE e \notin ToSet(s)
  <2>1. ~\E i \in 1..Len(s) : s[i] = e
    BY <1>0, <1>1 DEF ToSet
  <2>2. RemoveFirst(s, e) = s
    BY <2>1 DEF RemoveFirst
  <2> QED  BY <1>1, <2>2
<1>2. CASE e \in ToSet(s)
  <2>1. PICK i \in 1..Len(s) : s[i] = e
    BY <1>0, <1>2 DEF ToSet
  <2>2. \A j \in 1..Len(s) : s[j] = e <=> j = i
    BY <1>0, <2>1 DEF IsInjective
  <2>3. {j \in 1..Len(s) : s[j] = e} = {i}
    BY <2>2
  <2>4. RemoveFirst(s, e) = RemoveAt(s, i)
    BY <2>1, <2>3 DEF RemoveFirst, SelectInSeq, Min
  <2> DEFINE r == RemoveAt(s, i)
             f(j) == IF j < i THEN j ELSE j + 1
  <2>5. /\ r \in Seq(S) /\ Len(r) = Len(s) - 1
        /\ \A j \in 1..Len(s) - 1 : f(j) \in 1..Len(s) \ {i} /\ r[j] = s[f(j)]
    <3>1. /\ r \in Seq(S) /\ Len(r) = Len(s) - 1
          /\ \A j \in 1..Len(s) - 1 : r[j] = IF j < i THEN s[j] ELSE s[j + 1]
      BY <2>1, RemoveAtShape DEF r
    <3>2. \A j \in 1..Len(s) - 1 : f(j) \in 1..Len(s) \ {i}
      BY <1>0, <2>1 DEF f
    <3> QED  BY <3>1, <3>2 DEF f
  <2>6. DOMAIN r = 1..Len(s) - 1
    BY <2>5, LenProperties
  <2>7. IsInjective(r)
    <3> SUFFICES ASSUME NEW j \in 1..Len(s) - 1, NEW k \in 1..Len(s) - 1, r[j] = r[k]
                 PROVE  j = k
      BY <2>6 DEF IsInjective
    <3>1. s[f(j)] = s[f(k)]
      BY <2>5
    <3>2. f(j) = f(k)
      BY <1>0, <2>5, <3>1 DEF IsInjective
    <3> QED  BY <3>2
  <2>8. ToSet(r) = ToSet(s) \ {e}
    <3>1. ASSUME NEW j \in 1..Len(s) - 1 PROVE r[j] \in ToSet(s) \ {e}
      BY <1>0, <2>2, <2>5 DEF ToSet
    <3>2. ASSUME NEW m \in 1..Len(s), m # i PROVE \E j \in 1..Len(s) - 1 : r[j] = s[m]
      <4>1. CASE m < i
        BY <2>5, <4>1
      <4>2. CASE m > i
        <5>1. m - 1 \in 1..Len(s) - 1 /\ f(m - 1) = m
          BY <4>2
        <5> QED  BY <2>5, <5>1
      <4> QED  BY <3>2, <4>1, <4>2
    <3>3. ToSet(r) \subseteq ToSet(s) \ {e}
      BY <2>6, <3>1 DEF ToSet
    <3>4. ASSUME NEW x \in ToSet(s) \ {e} PROVE x \in ToSet(r)
      <4>1. PICK m \in 1..Len(s) : s[m] = x
        BY <1>0 DEF ToSet
      <4>2. m # i
        BY <2>1, <4>1
      <4>3. PICK j \in 1..Len(s) - 1 : r[j] = x
        BY <3>2, <4>1, <4>2
      <4> QED  BY <2>6, <4>3 DEF ToSet
    <3> QED  BY <3>3, <3>4
  <2> QED  BY <1>2, <2>4, <2>5, <2>7, <2>8
<1> QED  BY <1>1, <1>2


(* Pushing a key that is not in the list keeps every key once.             *)
LEMMA ConsInjective ==
    ASSUME NEW S, NEW s \in Seq(S), IsInjective(s), NEW e \in S, e \notin ToSet(s)
    PROVE  /\ Cons(e, s) \in Seq(S) /\ Len(Cons(e, s)) = Len(s) + 1
           /\ IsInjective(Cons(e, s))
<1>0. Len(s) \in Nat /\ DOMAIN s = 1..Len(s)
  BY LenProperties
<1>1. /\ Cons(e, s) \in Seq(S) /\ Len(Cons(e, s)) = Len(s) + 1
      /\ Cons(e, s)[1] = e /\ \A j \in 2..Len(s) + 1 : Cons(e, s)[j] = s[j - 1]
  BY ConsShape
<1>2. DOMAIN Cons(e, s) = 1..Len(s) + 1
  BY <1>1, LenProperties
<1>3. \A j \in 2..Len(s) + 1 : Cons(e, s)[j] # e
  BY <1>0, <1>1 DEF ToSet
<1> SUFFICES ASSUME NEW a \in 1..Len(s) + 1, NEW b \in 1..Len(s) + 1,
                    Cons(e, s)[a] = Cons(e, s)[b]
             PROVE  a = b
  BY <1>1, <1>2 DEF IsInjective
<1>4. CASE a = 1 \/ b = 1
  BY <1>0, <1>1, <1>3, <1>4
<1>5. CASE a # 1 /\ b # 1
  <2>1. a - 1 \in DOMAIN s /\ b - 1 \in DOMAIN s /\ s[a - 1] = s[b - 1]
    BY <1>0, <1>1, <1>5
  <2> QED  BY <2>1 DEF IsInjective
<1> QED  BY <1>4, <1>5

(* Dropping the last key keeps every other key once.                       *)
LEMMA FrontInjective ==
    ASSUME NEW S, NEW s \in Seq(S), IsInjective(s), Len(s) > 0
    PROVE  /\ Front(s) \in Seq(S) /\ Len(Front(s)) = Len(s) - 1
           /\ IsInjective(Front(s))
<1>1. /\ Front(s) \in Seq(S) /\ Len(Front(s)) = Len(s) - 1
      /\ \A j \in 1..Len(s) - 1 : Front(s)[j] = s[j]
  BY FrontShape
<1>2. DOMAIN Front(s) = 1..Len(s) - 1 /\ DOMAIN s = 1..Len(s)
  BY <1>1, LenProperties
<1> QED  BY <1>1, <1>2 DEF IsInjective

(* The list operations lru.Cache performs keep a well-formed list          *)
(* well-formed: every key once, at most Capacity of them.                  *)
WellFormedList(l) == l \in Seq(Keys) /\ IsInjective(l) /\ Len(l) <= Capacity

LEMMA LruRemoveWellFormed ==
    ASSUME NEW l, WellFormedList(l), NEW k
    PROVE  WellFormedList(RemoveFirst(l, k))
<1>1. Len(l) \in Nat
  BY DEF WellFormedList
<1>2. /\ RemoveFirst(l, k) \in Seq(Keys) /\ IsInjective(RemoveFirst(l, k))
      /\ Len(RemoveFirst(l, k)) = IF k \in ToSet(l) THEN Len(l) - 1 ELSE Len(l)
  BY RemoveFirstInjective DEF WellFormedList
<1>3. Len(RemoveFirst(l, k)) <= Capacity
  BY <1>1, <1>2, BenchAssumption DEF WellFormedList
<1> QED  BY <1>2, <1>3 DEF WellFormedList

LEMMA LruGetWellFormed ==
    ASSUME NEW l, WellFormedList(l), NEW k \in Keys
    PROVE  WellFormedList(LruGet(l, k))
<1>1. CASE k \in ToSet(l)
  <2> DEFINE r == RemoveFirst(l, k)
  <2>1. r \in Seq(Keys) /\ IsInjective(r) /\ ToSet(r) = ToSet(l) \ {k}
        /\ Len(r) = Len(l) - 1
    BY <1>1, RemoveFirstInjective DEF WellFormedList
  <2>2. Cons(k, r) \in Seq(Keys) /\ Len(Cons(k, r)) = Len(r) + 1 /\ IsInjective(Cons(k, r))
    BY <2>1, ConsInjective
  <2> QED  BY <1>1, <2>1, <2>2 DEF LruGet, WellFormedList
<1>2. CASE k \notin ToSet(l)
  BY <1>2 DEF LruGet
<1> QED  BY <1>1, <1>2

LEMMA LruAddWellFormed ==
    ASSUME NEW l, WellFormedList(l), NEW k \in Keys
    PROVE  WellFormedList(LruAdd(l, k))
<1> DEFINE r == RemoveFirst(l, k)
           l2 == Cons(k, r)
<1>0. Len(l) \in Nat /\ Capacity \in Nat
  BY BenchAssumption DEF WellFormedList
<1>1. r \in Seq(Keys) /\ IsInjective(r) /\ ToSet(r) = ToSet(l) \ {k} /\ Len(r) <= Len(l)
  BY <1>0, RemoveFirstInjective DEF WellFormedList
<1>2. l2 \in Seq(Keys) /\ Len(l2) = Len(r) + 1 /\ IsInjective(l2)
  BY <1>1, ConsInjective
<1>3. CASE Len(l2) > Capacity
  <2>1. Front(l2) \in Seq(Keys) /\ Len(Front(l2)) = Len(l2) - 1 /\ IsInjective(Front(l2))
    BY <1>0, <1>2, <1>3, FrontInjective
  <2>2. Len(Front(l2)) <= Capacity
    BY <1>0, <1>1, <1>2, <2>1 DEF WellFormedList
  <2> QED  BY <1>3, <2>1, <2>2 DEF LruAdd, WellFormedList
<1>4. CASE ~(Len(l2) > Capacity)
  <2>1. Len(l2) <= Capacity
    BY <1>0, <1>1, <1>2, <1>4
  <2> QED  BY <1>2, <1>4, <2>1 DEF LruAdd, WellFormedList
<1> QED  BY <1>3, <1>4


-----------------------------------------------------------------------------
(* The inductive invariant.                                                 *)

(* A goroutine inside a call holds its arguments, and one waiting for or   *)
(* holding BenchBaseMutex's mutex is in a Get or a Set.                     *)
ArgsMatchPc ==
    \A p \in Procs :
        /\ pc[p] # "idle" => arg[p] \in Calls
        /\ pc[p] \in {"lock", "inLru"} => arg[p].op # "del"

(* A Set that will still log: its track check is next (thread-safe        *)
(* wrappers), or it is in BenchBaseMutex.Set with track on.                *)
Pending(p) ==
    \/ pc[p] = "check"
    \/ Track /\ pc[p] \in {"lock", "inLru"} /\ arg[p].op = "set"

PendingLogs == {p \in Procs : Pending(p)}

(* The Log's counts plus the logs still to come never exceed the Sets.     *)
LogBudget == hits + misses + Cardinality(PendingLogs) <= sets

(* Until a data race hits it, lru.Cache holds each key at most once and    *)
(* never more than Capacity keys.  TypeOK needs it: LruGet and LruAdd      *)
(* keep lru a sequence of keys only on a list they can unlink from.       *)
LruWellFormed == ~lruRaced => IsInjective(lru) /\ Len(lru) <= Capacity

IInv == TypeOK /\ ArgsMatchPc /\ LogBudget /\ LruWellFormed


(* Two subsets of a finite set that differ at most in p differ in size by *)
(* p's membership.                                                          *)
LEMMA CountStep ==
    ASSUME NEW U, IsFiniteSet(U), NEW A \in SUBSET U, NEW B \in SUBSET U, NEW p,
           A \ {p} = B \ {p}
    PROVE  /\ Cardinality(A) \in Nat /\ Cardinality(B) \in Nat
           /\ Cardinality(B) = Cardinality(A) + (IF p \in B THEN 1 ELSE 0)
                                              - (IF p \in A THEN 1 ELSE 0)
<1>1. IsFiniteSet(A) /\ IsFiniteSet(B)
  BY FS_Subset
<1>2. Cardinality(A) \in Nat /\ Cardinality(B) \in Nat
  BY <1>1, FS_CardinalityType
<1>3. Cardinality(A \ {p}) = IF p \in A THEN Cardinality(A) - 1 ELSE Cardinality(A)
  BY <1>1, FS_RemoveElement
<1>4. Cardinality(B \ {p}) = IF p \in B THEN Cardinality(B) - 1 ELSE Cardinality(B)
  BY <1>1, FS_RemoveElement
<1>5. Cardinality(A \ {p}) = Cardinality(B \ {p})
  OBVIOUS
<1> QED  BY <1>2, <1>3, <1>4, <1>5

(* The goroutines start idle with empty logs and an empty list.            *)
LEMMA InitIInv == Init => IInv
<1> SUFFICES ASSUME Init PROVE IInv
  OBVIOUS
<1>1. wrapper \in Wrappers
  BY DEF Init, NewBenchRistretto, NewBenchBaseMutex, NewBenchBigCache,
         NewBenchFastCache, NewBenchFreeCache, NewBenchGoburrow
<1>2. PendingLogs = {} /\ Cardinality(PendingLogs) = 0
  BY FS_EmptySet DEF Init, PendingLogs, Pending
<1>3. lru = <<>> /\ <<>> \in Seq(Keys) /\ IsInjective(lru)
  BY DEF Init, IsInjective
<1>4. BenchAssumption
  BY BenchAssumption
<1>5. TypeOK
  <2>1. /\ cache = {} /\ mu = None /\ inLru = {} /\ lruRaced = FALSE
        /\ hits = 0 /\ misses = 0 /\ sets = 0 /\ panicked = FALSE
        /\ pc = [p \in Procs |-> "idle"] /\ arg = [p \in Procs |-> None]
    BY DEF Init
  <2>2. pc \in [Procs -> Pcs] /\ arg \in [Procs -> Calls \cup {None}]
    BY <2>1 DEF Pcs
  <2>3. /\ hits \in Nat /\ misses \in Nat /\ sets \in 0..MaxSets
        /\ hits + misses <= sets
    BY <1>4, <2>1
  <2>4. mu \in Procs \cup {None} /\ lruRaced \in BOOLEAN /\ panicked \in BOOLEAN
    BY <2>1
  <2> QED  BY <1>1, <1>3, <2>1, <2>2, <2>3, <2>4 DEF TypeOK
<1>6. ArgsMatchPc /\ LogBudget
  BY <1>2 DEF Init, ArgsMatchPc, LogBudget
<1>7. LruWellFormed
  BY <1>3, <1>4 DEF LruWellFormed
<1> QED  BY <1>5, <1>6, <1>7 DEF IInv

(* A step that moves only goroutine p, makes dl logs and starts ds Sets    *)
(* keeps the log budget when p's logs still to come shrink by at least dl  *)
(* less ds.                                                                 *)
LEMMA BudgetStep ==
    ASSUME IInv, NEW p \in Procs,
           \A q \in Procs \ {p} : pc'[q] = pc[q] /\ arg'[q] = arg[q],
           NEW dl \in Nat, NEW ds \in Nat,
           hits' \in Nat, misses' \in Nat,
           hits' + misses' = hits + misses + dl, sets' = sets + ds,
           (IF Pending(p)' THEN 1 ELSE 0) + dl <= (IF Pending(p) THEN 1 ELSE 0) + ds
    PROVE  LogBudget' /\ hits' + misses' <= sets'
<1> DEFINE x == IF Pending(p) THEN 1 ELSE 0
           x2 == IF Pending(p)' THEN 1 ELSE 0
           c == Cardinality(PendingLogs)
           c2 == Cardinality(PendingLogs')
           h2 == hits'
           m2 == misses'
           s2 == sets'
<1>1. PendingLogs \in SUBSET Procs /\ PendingLogs' \in SUBSET Procs
  BY DEF PendingLogs
<1>2. PendingLogs \ {p} = PendingLogs' \ {p}
  BY DEF PendingLogs, Pending
<1>3. /\ x = IF p \in PendingLogs THEN 1 ELSE 0
      /\ x2 = IF p \in PendingLogs' THEN 1 ELSE 0
  BY DEF PendingLogs
<1>4. c \in Nat /\ c2 \in Nat /\ c2 = c + x2 - x
  BY <1>1, <1>2, <1>3, BenchAssumption, CountStep
<1>5. hits \in Nat /\ misses \in Nat /\ sets \in Nat /\ hits + misses + c <= sets
  BY DEF IInv, TypeOK, LogBudget
<1>6. /\ x \in {0, 1} /\ x2 \in {0, 1} /\ h2 \in Nat /\ m2 \in Nat
      /\ h2 + m2 = hits + misses + dl /\ s2 = sets + ds /\ x2 + dl <= x + ds
  OBVIOUS
<1> HIDE DEF x, x2, c, c2, h2, m2, s2
<1>7. h2 + m2 + c2 <= s2 /\ h2 + m2 <= s2
  BY <1>4, <1>5, <1>6
<1> QED  BY <1>7 DEF LogBudget, c2, h2, m2, s2

(* A call into lru.Cache leaves a well-formed list when it starts from    *)
(* one and no race has happened; after a race the list is any list.        *)
LEMMA LruAfterStep ==
    ASSUME NEW l2, lruRaced \in BOOLEAN, lruRaced' = lruRaced,
           ~lruRaced => WellFormedList(l2), LruAfter(l2)
    PROVE  lru' \in Seq(Keys) /\ LruWellFormed'
<1>1. CASE lruRaced
  <2>1. PICK m \in 0..Capacity : lru' \in [1..m -> Keys]
    BY <1>1 DEF LruAfter, BoundedSeq, SeqOf
  <2>2. lru' \in Seq(Keys)
    BY <2>1, BenchAssumption
  <2> QED  BY <1>1, <2>2 DEF LruWellFormed
<1>2. CASE ~lruRaced
  BY <1>2 DEF LruAfter, WellFormedList, LruWellFormed
<1> QED  BY <1>1, <1>2

(* LibSetCall starts a Set on a thread-safe library: one more Set, and at *)
(* most one log to come.                                                    *)
LEMMA LibSetCallIInv ==
    ASSUME IInv, NEW p \in Procs, NEW k \in Keys, NEW v \in Vals,
           LibSetCall(p, k, v)
    PROVE  IInv'
<1>1. ArgsMatchPc'
  BY DEF IInv, TypeOK, ArgsMatchPc, LibSetCall, Call, Goto, Calls
<1>2. LogBudget' /\ hits' + misses' <= sets'
  <2>1. ~Pending(p)
    BY DEF LibSetCall, Running, Pending
  <2>2. \A q \in Procs \ {p} : pc'[q] = pc[q] /\ arg'[q] = arg[q]
    BY DEF IInv, TypeOK, LibSetCall, Call, Goto
  <2>3. /\ hits' = hits /\ misses' = misses /\ sets' = sets + 1
        /\ hits \in Nat /\ misses \in Nat
    BY DEF LibSetCall, IInv, TypeOK
  <2> QED  BY <2>1, <2>2, <2>3, BudgetStep
<1>3. LruWellFormed'
  BY DEF IInv, LruWellFormed, LibSetCall
<1>4. TypeOK'
  <2>1. pc' \in [Procs -> Pcs] /\ arg' \in [Procs -> Calls \cup {None}]
    BY DEF IInv, TypeOK, LibSetCall, Call, Goto, Calls, Pcs
  <2>2. sets' \in 0..MaxSets /\ hits' \in Nat /\ misses' \in Nat
    BY BenchAssumption DEF IInv, TypeOK, LibSetCall
  <2> QED  BY <1>2, <2>1, <2>2 DEF IInv, TypeOK, LibSetCall
<1> QED  BY <1>1, <1>2, <1>3, <1>4 DEF IInv

(* The track check of a thread-safe wrapper makes the one log its Set had *)
(* still to come.                                                           *)
LEMMA TrackCheckIInv ==
    ASSUME IInv, NEW p \in Procs, NEW w, TrackCheck(p, w)
    PROVE  IInv'
<1>1. ArgsMatchPc'
  BY DEF IInv, TypeOK, ArgsMatchPc, TrackCheck, Goto
<1>2. LogBudget' /\ hits' + misses' <= sets'
  <2>1. Pending(p) /\ ~Pending(p)'
    BY DEF IInv, TypeOK, TrackCheck, Goto, Pending
  <2>2. \A q \in Procs \ {p} : pc'[q] = pc[q] /\ arg'[q] = arg[q]
    BY DEF IInv, TypeOK, TrackCheck, Goto
  <2>3. /\ hits' + misses' = hits + misses + 1 /\ sets' = sets + 0
        /\ hits' \in Nat /\ misses' \in Nat
    BY DEF TrackCheck, LogCheck, IInv, TypeOK
  <2>4. (IF Pending(p)' THEN 1 ELSE 0) + 1 <= (IF Pending(p) THEN 1 ELSE 0) + 0
    BY <2>1
  <2> QED  BY <2>2, <2>3, <2>4, BudgetStep
<1>3. LruWellFormed'
  BY DEF IInv, LruWellFormed, TrackCheck
<1>4. TypeOK'
  <2>1. pc' \in [Procs -> Pcs]
    BY DEF IInv, TypeOK, TrackCheck, Goto, Pcs
  <2>2. hits' \in Nat /\ misses' \in Nat
    BY DEF IInv, TypeOK, TrackCheck, LogCheck
  <2> QED  BY <1>2, <2>1, <2>2 DEF IInv, TypeOK, TrackCheck
<1> QED  BY <1>1, <1>2, <1>3, <1>4 DEF IInv

(* The write of a thread-safe wrapper's Set returns with no log to come.   *)
LEMMA SetWriteIInv ==
    ASSUME IInv, NEW p \in Procs, NEW w, NEW stored \in BOOLEAN,
           NEW panics \in BOOLEAN, SetWrite(p, w, stored, panics)
    PROVE  IInv'
<1>1. arg[p] \in Calls
  BY DEF IInv, ArgsMatchPc, SetWrite, WriteStep
<1>2. ArgsMatchPc'
  BY DEF IInv, TypeOK, ArgsMatchPc, SetWrite, WriteStep, Return, Goto
<1>3. LogBudget' /\ hits' + misses' <= sets'
  <2>1. ~Pending(p) /\ ~Pending(p)'
    BY DEF IInv, TypeOK, SetWrite, WriteStep, Return, Goto, Pending
  <2>2. \A q \in Procs \ {p} : pc'[q] = pc[q] /\ arg'[q] = arg[q]
    BY DEF IInv, TypeOK, SetWrite, WriteStep, Return, Goto
  <2>3. /\ hits' + misses' = hits + misses + 0 /\ sets' = sets + 0
        /\ hits' \in Nat /\ misses' \in Nat
    BY DEF SetWrite, WriteStep, IInv, TypeOK
  <2>4. (IF Pending(p)' THEN 1 ELSE 0) + 0 <= (IF Pending(p) THEN 1 ELSE 0) + 0
    BY <2>1
  <2> QED  BY <2>2, <2>3, <2>4, BudgetStep
<1>4. LruWellFormed'
  BY DEF IInv, LruWellFormed, SetWrite, WriteStep
<1>5. TypeOK'
  <2>1. pc' \in [Procs -> Pcs] /\ arg' \in [Procs -> Calls \cup {None}]
    BY DEF IInv, TypeOK, SetWrite, WriteStep, Return, Goto, Pcs
  <2>2. cache' \subseteq Keys /\ panicked' \in BOOLEAN
    BY <1>1 DEF IInv, TypeOK, SetWrite, WriteStep, Calls
  <2> QED  BY <1>3, <2>1, <2>2 DEF IInv, TypeOK, SetWrite, WriteStep
<1> QED  BY <1>2, <1>3, <1>4, <1>5 DEF IInv

(* A Del on a thread-safe library moves no goroutine and logs nothing.     *)
LEMMA LibDelIInv ==
    ASSUME IInv, NEW p \in Procs, NEW k \in Keys, NEW w, NEW panics \in BOOLEAN,
           LibDel(p, k, w, panics)
    PROVE  IInv'
<1>1. PendingLogs' = PendingLogs
  BY DEF LibDel, PendingLogs, Pending
<1>2. TypeOK'
  BY DEF IInv, TypeOK, LibDel
<1> QED  BY <1>1, <1>2 DEF IInv, ArgsMatchPc, LogBudget, LruWellFormed, LibDel

(* An entry the library drops on its own changes nothing else.             *)
LEMMA LibEvictIInv ==
    ASSUME IInv, NEW k \in Keys, LibEvict(k)
    PROVE  IInv'
<1>1. PendingLogs' = PendingLogs
  BY DEF LibEvict, PendingLogs, Pending
<1>2. TypeOK'
  BY DEF IInv, TypeOK, LibEvict
<1> QED  BY <1>1, <1>2 DEF IInv, ArgsMatchPc, LogBudget, LruWellFormed, LibEvict


(* BenchBaseMutex.Get's call: a Get never logs.                            *)
LEMMA MutexGetCallIInv ==
    ASSUME IInv, NEW p \in Procs, NEW k \in Keys, MutexGetCall(p, k)
    PROVE  IInv'
<1>1. ArgsMatchPc'
  BY DEF IInv, TypeOK, ArgsMatchPc, MutexGetCall, Call, Goto, Calls
<1>2. LogBudget' /\ hits' + misses' <= sets'
  <2>1. ~Pending(p) /\ ~Pending(p)'
    BY DEF IInv, TypeOK, MutexGetCall, Running, Call, Goto, Pending
  <2>2. \A q \in Procs \ {p} : pc'[q] = pc[q] /\ arg'[q] = arg[q]
    BY DEF IInv, TypeOK, MutexGetCall, Call, Goto
  <2>3. /\ hits' + misses' = hits + misses + 0 /\ sets' = sets + 0
        /\ hits' \in Nat /\ misses' \in Nat
    BY DEF MutexGetCall, IInv, TypeOK
  <2>4. (IF Pending(p)' THEN 1 ELSE 0) + 0 <= (IF Pending(p) THEN 1 ELSE 0) + 0
    BY <2>1
  <2> QED  BY <2>2, <2>3, <2>4, BudgetStep
<1>3. LruWellFormed'
  BY DEF IInv, LruWellFormed, MutexGetCall
<1>4. TypeOK'
  <2>1. pc' \in [Procs -> Pcs] /\ arg' \in [Procs -> Calls \cup {None}]
    BY DEF IInv, TypeOK, MutexGetCall, Call, Goto, Calls, Pcs
  <2> QED  BY <1>2, <2>1 DEF IInv, TypeOK, MutexGetCall
<1> QED  BY <1>1, <1>2, <1>3, <1>4 DEF IInv

(* BenchBaseMutex.Set's call: one more Set, whose log (with track on) is  *)
(* still to come.                                                           *)
LEMMA MutexSetCallIInv ==
    ASSUME IInv, NEW p \in Procs, NEW k \in Keys, NEW v \in Vals,
           MutexSetCall(p, k, v)
    PROVE  IInv'
<1>1. ArgsMatchPc'
  BY DEF IInv, TypeOK, ArgsMatchPc, MutexSetCall, Call, Goto, Calls
<1>2. LogBudget' /\ hits' + misses' <= sets'
  <2>1. ~Pending(p)
    BY DEF MutexSetCall, Running, Pending
  <2>2. \A q \in Procs \ {p} : pc'[q] = pc[q] /\ arg'[q] = arg[q]
    BY DEF IInv, TypeOK, MutexSetCall, Call, Goto
  <2>3. /\ hits' + misses' = hits + misses + 0 /\ sets' = sets + 1
        /\ hits' \in Nat /\ misses' \in Nat
    BY DEF MutexSetCall, IInv, TypeOK
  <2>4. (IF Pending(p)' THEN 1 ELSE 0) + 0 <= (IF Pending(p) THEN 1 ELSE 0) + 1
    BY <2>1
  <2> QED  BY <2>2, <2>3, <2>4, BudgetStep
<1>3. LruWellFormed'
  BY DEF IInv, LruWellFormed, MutexSetCall
<1>4. TypeOK'
  <2>1. pc' \in [Procs -> Pcs] /\ arg' \in [Procs -> Calls \cup {None}]
    BY DEF IInv, TypeOK, MutexSetCall, Call, Goto, Calls, Pcs
  <2>2. sets' \in 0..MaxSets
    BY BenchAssumption DEF IInv, TypeOK, MutexSetCall
  <2> QED  BY <1>2, <2>1, <2>2 DEF IInv, TypeOK, MutexSetCall
<1> QED  BY <1>1, <1>2, <1>3, <1>4 DEF IInv

(* c.Lock(): the holder enters lru.Cache; its log still to come moves     *)
(* with it.                                                                 *)
LEMMA MutexLockIInv ==
    ASSUME IInv, NEW p \in Procs, MutexLock(p)
    PROVE  IInv'
<1>1. ArgsMatchPc'
  BY DEF IInv, TypeOK, ArgsMatchPc, MutexLock, Goto
<1>2. LogBudget' /\ hits' + misses' <= sets'
  <2>1. Pending(p)' = Pending(p)
    BY DEF IInv, TypeOK, MutexLock, Goto, Pending
  <2>2. \A q \in Procs \ {p} : pc'[q] = pc[q] /\ arg'[q] = arg[q]
    BY DEF IInv, TypeOK, MutexLock, Goto
  <2>3. /\ hits' + misses' = hits + misses + 0 /\ sets' = sets + 0
        /\ hits' \in Nat /\ misses' \in Nat
    BY DEF MutexLock, IInv, TypeOK
  <2>4. (IF Pending(p)' THEN 1 ELSE 0) + 0 <= (IF Pending(p) THEN 1 ELSE 0) + 0
    BY <2>1
  <2> QED  BY <2>2, <2>3, <2>4, BudgetStep
<1>3. LruWellFormed'
  BY DEF IInv, LruWellFormed, MutexLock, EnterLru
<1>4. TypeOK'
  <2>1. pc' \in [Procs -> Pcs]
    BY DEF IInv, TypeOK, MutexLock, Goto, Pcs
  <2>2. mu' \in Procs \cup {None} /\ inLru' \subseteq Procs /\ lruRaced' \in BOOLEAN
    BY DEF IInv, TypeOK, MutexLock, EnterLru
  <2> QED  BY <1>2, <2>1, <2>2 DEF IInv, TypeOK, MutexLock
<1> QED  BY <1>1, <1>2, <1>3, <1>4 DEF IInv


(* Before any race, the list lru.Cache is called on is well formed.        *)
LEMMA LruBefore ==
    ASSUME IInv
    PROVE  ~lruRaced => WellFormedList(lru)
BY DEF IInv, TypeOK, LruWellFormed, WellFormedList

(* Leaving lru.Cache and unlocking: a Get returns, a Set with track on    *)
(* makes the log it had still to come, and the list stays well formed.    *)
LEMMA MutexLeaveIInv ==
    ASSUME IInv, NEW p \in Procs, MutexLeave(p)
    PROVE  IInv'
<1> DEFINE k == arg[p].key
<1>0. /\ arg[p] \in Calls /\ arg[p].op \in {"get", "set"} /\ k \in Keys
      /\ Track \in BOOLEAN
  BY BenchAssumption DEF IInv, ArgsMatchPc, MutexLeave, Calls
<1>1. ArgsMatchPc'
  BY DEF IInv, TypeOK, ArgsMatchPc, MutexLeave, Return, Goto
<1>2. LogBudget' /\ hits' + misses' <= sets'
  <2>1. ~Pending(p)'
    BY DEF IInv, TypeOK, MutexLeave, Return, Goto, Pending
  <2>2. \A q \in Procs \ {p} : pc'[q] = pc[q] /\ arg'[q] = arg[q]
    BY DEF IInv, TypeOK, MutexLeave, Return, Goto
  <2>3. sets' = sets + 0 /\ hits' \in Nat /\ misses' \in Nat
    BY <1>0 DEF MutexLeave, LogCheck, IInv, TypeOK
  <2>4. CASE arg[p].op = "set" /\ Track
    <3>1. Pending(p)
      BY <2>4 DEF MutexLeave, Pending
    <3>2. hits' + misses' = hits + misses + 1
      BY <2>4 DEF MutexLeave, LogCheck, IInv, TypeOK
    <3>3. (IF Pending(p)' THEN 1 ELSE 0) + 1 <= (IF Pending(p) THEN 1 ELSE 0) + 0
      BY <2>1, <3>1
    <3> QED  BY <2>2, <2>3, <3>2, <3>3, BudgetStep
  <2>5. CASE ~(arg[p].op = "set" /\ Track)
    <3>1. hits' + misses' = hits + misses + 0
      BY <1>0, <2>5 DEF MutexLeave, IInv, TypeOK
    <3>2. (IF Pending(p)' THEN 1 ELSE 0) + 0 <= (IF Pending(p) THEN 1 ELSE 0) + 0
      BY <2>1
    <3> QED  BY <2>2, <2>3, <3>1, <3>2, BudgetStep
  <2> QED  BY <2>4, <2>5
<1>3. lru' \in Seq(Keys) /\ LruWellFormed'
  <2>1. ~lruRaced => WellFormedList(lru)
    BY LruBefore
  <2>2. lruRaced \in BOOLEAN /\ lruRaced' = lruRaced
    BY DEF IInv, TypeOK, MutexLeave
  <2>3. CASE arg[p].op = "get"
    <3>1. ~lruRaced => WellFormedList(LruGet(lru, k))
      BY <1>0, <2>1, LruGetWellFormed
    <3>2. LruAfter(LruGet(lru, k))
      BY <2>3 DEF MutexLeave
    <3> QED  BY <2>2, <3>1, <3>2, LruAfterStep
  <2>4. CASE arg[p].op = "set"
    <3>1. ~lruRaced => WellFormedList(LruAdd(lru, k))
      BY <1>0, <2>1, LruAddWellFormed
    <3>2. LruAfter(LruAdd(lru, k))
      BY <2>4 DEF MutexLeave
    <3> QED  BY <2>2, <3>1, <3>2, LruAfterStep
  <2> QED  BY <1>0, <2>3, <2>4
<1>4. TypeOK'
  <2>1. pc' \in [Procs -> Pcs] /\ arg' \in [Procs -> Calls \cup {None}]
    BY DEF IInv, TypeOK, MutexLeave, Return, Goto, Pcs
  <2>2. mu' \in Procs \cup {None} /\ inLru' \subseteq Procs
    BY DEF IInv, TypeOK, MutexLeave
  <2>3. hits' \in Nat /\ misses' \in Nat
    BY <1>0 DEF IInv, TypeOK, MutexLeave, LogCheck
  <2> QED  BY <1>2, <1>3, <2>1, <2>2, <2>3 DEF IInv, TypeOK, MutexLeave
<1> QED  BY <1>1, <1>2, <1>3, <1>4 DEF IInv


(* BenchBaseMutex.Del enters lru.Cache without the mutex: a race from then *)
(* on if another goroutine is inside, and no log.                           *)
LEMMA MutexDelEnterIInv ==
    ASSUME IInv, NEW p \in Procs, NEW k \in Keys, MutexDelEnter(p, k)
    PROVE  IInv'
<1>1. ArgsMatchPc'
  BY DEF IInv, TypeOK, ArgsMatchPc, MutexDelEnter, Call, Goto, Calls
<1>2. LogBudget' /\ hits' + misses' <= sets'
  <2>1. ~Pending(p) /\ ~Pending(p)'
    BY DEF IInv, TypeOK, MutexDelEnter, Running, Call, Goto, Pending
  <2>2. \A q \in Procs \ {p} : pc'[q] = pc[q] /\ arg'[q] = arg[q]
    BY DEF IInv, TypeOK, MutexDelEnter, Call, Goto
  <2>3. /\ hits' + misses' = hits + misses + 0 /\ sets' = sets + 0
        /\ hits' \in Nat /\ misses' \in Nat
    BY DEF MutexDelEnter, IInv, TypeOK
  <2>4. (IF Pending(p)' THEN 1 ELSE 0) + 0 <= (IF Pending(p) THEN 1 ELSE 0) + 0
    BY <2>1
  <2> QED  BY <2>2, <2>3, <2>4, BudgetStep
<1>3. LruWellFormed'
  BY DEF IInv, LruWellFormed, MutexDelEnter, EnterLru
<1>4. TypeOK'
  <2>1. pc' \in [Procs -> Pcs] /\ arg' \in [Procs -> Calls \cup {None}]
    BY DEF IInv, TypeOK, MutexDelEnter, Call, Goto, Calls, Pcs
  <2>2. inLru' \subseteq Procs /\ lruRaced' \in BOOLEAN
    BY DEF IInv, TypeOK, MutexDelEnter, EnterLru
  <2> QED  BY <1>2, <2>1, <2>2 DEF IInv, TypeOK, MutexDelEnter
<1> QED  BY <1>1, <1>2, <1>3, <1>4 DEF IInv

(* lru.Remove returns: the key is unlinked, and the list stays well formed *)
(* unless a race has happened.                                              *)
LEMMA MutexDelLeaveIInv ==
    ASSUME IInv, NEW p \in Procs, MutexDelLeave(p)
    PROVE  IInv'
<1>1. ArgsMatchPc'
  BY DEF IInv, TypeOK, ArgsMatchPc, MutexDelLeave, Return, Goto
<1>2. LogBudget' /\ hits' + misses' <= sets'
  <2>1. ~Pending(p) /\ ~Pending(p)'
    BY DEF IInv, TypeOK, MutexDelLeave, Return, Goto, Pending
  <2>2. \A q \in Procs \ {p} : pc'[q] = pc[q] /\ arg'[q] = arg[q]
    BY DEF IInv, TypeOK, MutexDelLeave, Return, Goto
  <2>3. /\ hits' + misses' = hits + misses + 0 /\ sets' = sets + 0
        /\ hits' \in Nat /\ misses' \in Nat
    BY DEF MutexDelLeave, IInv, TypeOK
  <2>4. (IF Pending(p)' THEN 1 ELSE 0) + 0 <= (IF Pending(p) THEN 1 ELSE 0) + 0
    BY <2>1
  <2> QED  BY <2>2, <2>3, <2>4, BudgetStep
<1>3. lru' \in Seq(Keys) /\ LruWellFormed'
  <2>1. ~lruRaced => WellFormedList(RemoveFirst(lru, arg[p].key))
    BY LruBefore, LruRemoveWellFormed
  <2>2. lruRaced \in BOOLEAN /\ lruRaced' = lruRaced
    BY DEF IInv, TypeOK, MutexDelLeave
  <2> QED  BY <2>1, <2>2, LruAfterStep DEF MutexDelLeave
<1>4. TypeOK'
  <2>1. pc' \in [Procs -> Pcs] /\ arg' \in [Procs -> Calls \cup {None}]
    BY DEF IInv, TypeOK, MutexDelLeave, Return, Goto, Pcs
  <2>2. inLru' \subseteq Procs
    BY DEF IInv, TypeOK, MutexDelLeave
  <2> QED  BY <1>2, <1>3, <2>1, <2>2 DEF IInv, TypeOK, MutexDelLeave
<1> QED  BY <1>1, <1>2, <1>3, <1>4 DEF IInv


(* Every step of the benchmark keeps the inductive invariant.              *)
LEMMA NextIInv == IInv /\ [Next]_vars => IInv'
<1> SUFFICES ASSUME IInv, [Next]_vars PROVE IInv'
  OBVIOUS
<1>1. ASSUME NEW p \in Procs, NEW k \in Keys,
             \/ RistrettoDel(p, k) \/ BigCacheDel(p, k) \/ FastCacheDel(p, k)
             \/ FreeCacheDel(p, k) \/ GoburrowDel(p, k)
      PROVE  IInv'
  <2>1. (k \notin cache) \in BOOLEAN /\ FALSE \in BOOLEAN
    OBVIOUS
  <2> QED  BY <1>1, <2>1, LibDelIInv
         DEF RistrettoDel, BigCacheDel, FastCacheDel, FreeCacheDel, GoburrowDel
<1>2. ASSUME NEW p \in Procs, NEW k \in Keys, MutexGetCall(p, k) \/ MutexDelEnter(p, k)
      PROVE  IInv'
  BY <1>2, MutexGetCallIInv, MutexDelEnterIInv
<1>3. ASSUME NEW p \in Procs, NEW k \in Keys, NEW v \in Vals,
             LibSetCall(p, k, v) \/ MutexSetCall(p, k, v)
      PROVE  IInv'
  BY <1>3, LibSetCallIInv, MutexSetCallIInv
<1>4. ASSUME NEW p \in Procs,
             \/ BigCacheSetCheck(p) \/ FastCacheSetCheck(p)
             \/ FreeCacheSetCheck(p) \/ GoburrowSetCheck(p)
      PROVE  IInv'
  BY <1>4, TrackCheckIInv
  DEF BigCacheSetCheck, FastCacheSetCheck, FreeCacheSetCheck, GoburrowSetCheck
<1>5. ASSUME NEW p \in Procs,
             \/ RistrettoSet(p) \/ BigCacheSetWrite(p) \/ FastCacheSetWrite(p)
             \/ FreeCacheSetWrite(p) \/ GoburrowSetWrite(p)
      PROVE  IInv'
  <2>1. (arg[p].val \in LargeVals) \in BOOLEAN /\ TRUE \in BOOLEAN /\ FALSE \in BOOLEAN
    OBVIOUS
  <2> QED  BY <1>5, <2>1, SetWriteIInv
         DEF RistrettoSet, BigCacheSetWrite, FastCacheSetWrite, FreeCacheSetWrite,
             GoburrowSetWrite
<1>6. ASSUME NEW p \in Procs, MutexLock(p) \/ MutexLeave(p) \/ MutexDelLeave(p)
      PROVE  IInv'
  BY <1>6, MutexLockIInv, MutexLeaveIInv, MutexDelLeaveIInv
<1>7. ASSUME NEW k \in Keys, LibEvict(k)
      PROVE  IInv'
  BY <1>7, LibEvictIInv
<1>8. CASE UNCHANGED vars
  <2>1. PendingLogs' = PendingLogs
    BY <1>8 DEF vars, PendingLogs, Pending
  <2> QED  BY <1>8, <2>1 DEF vars, IInv, TypeOK, ArgsMatchPc, LogBudget, LruWellFormed
<1> QED  BY <1>1, <1>2, <1>3, <1>4, <1>5, <1>6, <1>7, <1>8 DEF Next

(* Every variable keeps its type, and bench.PolicyLog never counts more    *)
(* Hits and Misses than the Sets the wrappers were asked to make: each Set *)
(* logs at most once, through any interleaving of the goroutines.          *)
THEOREM BenchTypeCorrect == Spec => []TypeOK
<1>1. IInv => TypeOK
  BY DEF IInv
<1> QED  BY <1>1, InitIInv, NextIInv, PTL DEF Spec


-----------------------------------------------------------------------------
(* The mutex section.  The goroutines inside lru.Cache are those in the    *)
(* section of Get or Set and those in Del, and one in the section holds    *)
(* the mutex.                                                               *)
MutexInv ==
    /\ inLru = {p \in Procs : pc[p] \in {"inLru", "del"}}
    /\ \A p \in Procs : pc[p] = "inLru" => mu = p

LEMMA InitMutexInv == Init => MutexInv
BY DEF Init, MutexInv

(* Each step keeps the mutex section's invariant.                          *)
LEMMA NextMutexInv == IInv /\ MutexInv /\ [Next]_vars => MutexInv'
<1> SUFFICES ASSUME IInv, MutexInv, [Next]_vars PROVE MutexInv'
  OBVIOUS
<1> USE DEF IInv, TypeOK, MutexInv
<1>1. ASSUME NEW p \in Procs, NEW k \in Keys, NEW w, NEW panics,
             LibDel(p, k, w, panics)
      PROVE  MutexInv'
  BY <1>1 DEF LibDel
<1>2. ASSUME NEW p \in Procs, NEW k \in Keys,
             \/ RistrettoDel(p, k) \/ BigCacheDel(p, k) \/ FastCacheDel(p, k)
             \/ FreeCacheDel(p, k) \/ GoburrowDel(p, k)
      PROVE  MutexInv'
  BY <1>1, <1>2
  DEF RistrettoDel, BigCacheDel, FastCacheDel, FreeCacheDel, GoburrowDel
<1>3. ASSUME NEW p \in Procs, NEW k \in Keys, MutexGetCall(p, k)
      PROVE  MutexInv'
  BY <1>3 DEF MutexGetCall, Running, Call, Goto
<1>4. ASSUME NEW p \in Procs, NEW k \in Keys, MutexDelEnter(p, k)
      PROVE  MutexInv'
  BY <1>4 DEF MutexDelEnter, Running, EnterLru, Call, Goto
<1>5. ASSUME NEW p \in Procs, NEW k \in Keys, NEW v \in Vals, LibSetCall(p, k, v)
      PROVE  MutexInv'
  BY <1>5 DEF LibSetCall, Running, Call, Goto
<1>6. ASSUME NEW p \in Procs, NEW k \in Keys, NEW v \in Vals, MutexSetCall(p, k, v)
      PROVE  MutexInv'
  BY <1>6 DEF MutexSetCall, Running, Call, Goto
<1>7. ASSUME NEW p \in Procs, NEW w, TrackCheck(p, w)
      PROVE  MutexInv'
  BY <1>7 DEF TrackCheck, Goto
<1>8. ASSUME NEW p \in Procs,
             \/ BigCacheSetCheck(p) \/ FastCacheSetCheck(p)
             \/ FreeCacheSetCheck(p) \/ GoburrowSetCheck(p)
      PROVE  MutexInv'
  BY <1>7, <1>8
  DEF BigCacheSetCheck, FastCacheSetCheck, FreeCacheSetCheck, GoburrowSetCheck
<1>9. ASSUME NEW p \in Procs, NEW w, NEW stored, NEW panics,
             SetWrite(p, w, stored, panics)
      PROVE  MutexInv'
  BY <1>9 DEF SetWrite, WriteStep, Return, Goto
<1>10. ASSUME NEW p \in Procs,
              \/ RistrettoSet(p) \/ BigCacheSetWrite(p) \/ FastCacheSetWrite(p)
              \/ FreeCacheSetWrite(p) \/ GoburrowSetWrite(p)
       PROVE  MutexInv'
  BY <1>9, <1>10
  DEF RistrettoSet, BigCacheSetWrite, FastCacheSetWrite, FreeCacheSetWrite,
      GoburrowSetWrite
<1>11. ASSUME NEW p \in Procs, MutexLock(p)
       PROVE  MutexInv'
  <2>1. \A q \in Procs : pc[q] # "inLru"
    BY <1>11, BenchAssumption DEF MutexLock
  <2> QED  BY <1>11, <2>1 DEF MutexLock, EnterLru, Goto
<1>12. ASSUME NEW p \in Procs, MutexLeave(p)
       PROVE  MutexInv'
  <2>1. \A q \in Procs : pc[q] = "inLru" => q = p
    BY <1>12 DEF MutexLeave
  <2> QED  BY <1>12, <2>1 DEF MutexLeave, Return, Goto
<1>13. ASSUME NEW p \in Procs, MutexDelLeave(p)
       PROVE  MutexInv'
  BY <1>13 DEF MutexDelLeave, Return, Goto
<1>14. ASSUME NEW k \in Keys, LibEvict(k)
       PROVE  MutexInv'
  BY <1>14 DEF LibEvict
<1>15. CASE UNCHANGED vars
  BY <1>15 DEF vars
<1> QED  BY <1>2, <1>3, <1>4, <1>5, <1>6, <1>8, <1>10, <1>11, <1>12, <1>13,
            <1>14, <1>15 DEF Next

(* BenchBaseMutex's mutex keeps its Gets and Sets from racing each other:  *)
(* whenever two goroutines are inside lru.Cache, one of them is in Del,    *)
(* which calls lru.Remove without c.Lock().                                *)
THEOREM OnlyDelRacesHolds == Spec => []OnlyDelRaces
<1>1. IInv /\ MutexInv => OnlyDelRaces
  BY DEF IInv, TypeOK, MutexInv, OnlyDelRaces
<1>2. Init => IInv /\ MutexInv
  BY InitIInv, InitMutexInv
<1>3. IInv /\ MutexInv /\ [Next]_vars => (IInv /\ MutexInv)'
  BY NextIInv, NextMutexInv
<1> QED  BY <1>1, <1>2, <1>3, PTL DEF Spec

=============================================================================
