------------------------------- MODULE Store -------------------------------
(***************************************************************************)
(* The two implementations of the store interface in src/store.go:        *)
(* syncMap, a sync.Map whose calls are each atomic and whose Run (Range)  *)
(* holds no lock, and lockedMap, a Go map under a sync.RWMutex: Get and    *)
(* Run take the read lock, Set and Del the write lock, and Run calls its  *)
(* callback for each key while it holds the read lock.                     *)
(*                                                                         *)
(* sync.RWMutex is modelled with its writer preference: Lock first takes   *)
(* the writer mutex and announces itself (wpending), which stops new       *)
(* RLock calls, then waits for the readers present to leave.  A writer's  *)
(* critical section (one map assignment) is one step with the acquisition *)
(* and the release.  A Run's callback may read the store it iterates.      *)
(***************************************************************************)
EXTENDS Naturals, FiniteSets

CONSTANTS
    Procs,      \* goroutines using the store
    Keys,       \* key hashes
    Vals,       \* values
    Impls,      \* the implementations a behaviour may use
    ReentrantImpls, \* implementations whose Run callback calls Get on the store
    Nil,        \* absent value (what Get returns for a missing key)
    None

ASSUME StoreAssumption ==
    /\ Impls \subseteq {"sync", "locked"} /\ Impls # {}
    /\ ReentrantImpls \subseteq Impls
    /\ Nil \notin Vals /\ None \notin Procs

VARIABLES
    impl,      \* newSyncMap or newLockedMap
    data,      \* the map: key -> value or Nil
    rcount,    \* read locks each goroutine holds
    wpending,  \* the writer that has announced itself and waits for readers
    pc,        \* where each goroutine is
    arg,       \* the key and value of each goroutine's call
    toVisit,   \* keys the goroutine's Run has still to visit
    snap       \* the map when the goroutine's Run took the read lock

vars == <<impl, data, rcount, wpending, pc, arg, toVisit, snap>>

Pcs == {"idle", "rlock", "wlock", "wwait", "runRLock", "runLoop", "cbRLock"}
Args == [key : Keys, val : Vals \cup {Nil}]
Present == {k \in Keys : data[k] # Nil}

(* RLock returns at once only when no writer is announced.                *)
RLockFree == wpending = None
NoReaders == \A q \in Procs : rcount[q] = 0

Init ==
    /\ impl \in Impls
    /\ data = [k \in Keys |-> Nil]
    /\ rcount = [p \in Procs |-> 0]
    /\ wpending = None
    /\ pc = [p \in Procs |-> "idle"]
    /\ arg = [p \in Procs |-> None]
    /\ toVisit = [p \in Procs |-> {}]
    /\ snap = [p \in Procs |-> data]

Idle(p) == pc[p] = "idle"

-----------------------------------------------------------------------------
(* syncMap: Set (Store) and Del (Delete, v = Nil) are one atomic step     *)
(* each; its Get is a Load, which changes nothing.                          *)
SyncWrite(p, k, v) ==
    /\ impl = "sync" /\ Idle(p)
    /\ data' = [data EXCEPT ![k] = v]
    /\ UNCHANGED <<impl, rcount, wpending, pc, arg, toVisit, snap>>

(* syncMap.Run is sync.Map.Range: every key is a candidate once, and it is *)
(* passed to f if it is present when Range reaches it.                     *)
SyncRun(p) ==
    /\ impl = "sync" /\ Idle(p)
    /\ pc' = [pc EXCEPT ![p] = "runLoop"]
    /\ toVisit' = [toVisit EXCEPT ![p] = Keys]
    /\ snap' = [snap EXCEPT ![p] = data]
    /\ UNCHANGED <<impl, data, rcount, wpending, arg>>

-----------------------------------------------------------------------------
(* lockedMap.Get: RLock, read, RUnlock; it waits while a writer is        *)
(* announced.                                                               *)
LockedGetCall(p, k) ==
    /\ impl = "locked" /\ Idle(p)
    /\ pc' = [pc EXCEPT ![p] = "rlock"]
    /\ UNCHANGED <<impl, data, rcount, wpending, arg, toVisit, snap>>

LockedGetReadNoRUnlock(p) ==
    /\ pc[p] = "rlock" /\ RLockFree
    /\ rcount' = [rcount EXCEPT ![p] = @ + 1]
    /\ pc' = [pc EXCEPT ![p] = "idle"]
    /\ UNCHANGED <<impl, data, wpending, arg, toVisit, snap>>

LockedGetRead(p) ==
    /\ pc[p] = "rlock" /\ RLockFree
    /\ pc' = [pc EXCEPT ![p] = "idle"]
    /\ UNCHANGED <<impl, data, rcount, wpending, arg, toVisit, snap>>

(* lockedMap.Set and Del: Lock (writer mutex, then wait for the readers), *)
(* assign or delete, Unlock.                                               *)
LockedWriteCall(p, k, v) ==
    /\ impl = "locked" /\ Idle(p)
    /\ pc' = [pc EXCEPT ![p] = "wlock"]
    /\ arg' = [arg EXCEPT ![p] = [key |-> k, val |-> v]]
    /\ UNCHANGED <<impl, data, rcount, wpending, toVisit, snap>>

LockedAnnounce(p) ==
    /\ pc[p] = "wlock" /\ wpending = None
    /\ wpending' = p
    /\ pc' = [pc EXCEPT ![p] = "wwait"]
    /\ UNCHANGED <<impl, data, rcount, arg, toVisit, snap>>

LockedWriteNoWait(p) ==
    /\ pc[p] = "wwait"
    /\ data' = [data EXCEPT ![arg[p].key] = arg[p].val]
    /\ wpending' = None
    /\ pc' = [pc EXCEPT ![p] = "idle"]
    /\ arg' = [arg EXCEPT ![p] = None]
    /\ UNCHANGED <<impl, rcount, toVisit, snap>>

LockedWrite(p) ==
    /\ pc[p] = "wwait" /\ NoReaders
    /\ data' = [data EXCEPT ![arg[p].key] = arg[p].val]
    /\ wpending' = None
    /\ pc' = [pc EXCEPT ![p] = "idle"]
    /\ arg' = [arg EXCEPT ![p] = None]
    /\ UNCHANGED <<impl, rcount, toVisit, snap>>

(* lockedMap.Run: RLock, then f(k, v) for each key of the map.             *)
LockedRunCall(p) ==
    /\ impl = "locked" /\ Idle(p)
    /\ pc' = [pc EXCEPT ![p] = "runRLock"]
    /\ UNCHANGED <<impl, data, rcount, wpending, arg, toVisit, snap>>

LockedRunRLock(p) ==
    /\ pc[p] = "runRLock" /\ RLockFree
    /\ rcount' = [rcount EXCEPT ![p] = @ + 1]
    /\ pc' = [pc EXCEPT ![p] = "runLoop"]
    /\ toVisit' = [toVisit EXCEPT ![p] = Present]
    /\ snap' = [snap EXCEPT ![p] = data]
    /\ UNCHANGED <<impl, data, wpending, arg>>

-----------------------------------------------------------------------------
(* One iteration of Run: the callback gets k if k is still present, and   *)
(* for the implementations of ReentrantImpls it calls Get on the same     *)
(* store, which for lockedMap is a second RLock.                            *)
RunVisit(p, k) ==
    /\ pc[p] = "runLoop" /\ k \in toVisit[p]
    /\ toVisit' = [toVisit EXCEPT ![p] = @ \ {k}]
    /\ pc' = [pc EXCEPT ![p] = IF impl \in ReentrantImpls /\ data[k] # Nil
                                THEN "cbRLock" ELSE "runLoop"]
    /\ UNCHANGED <<impl, data, rcount, wpending, arg, snap>>

(* The callback's own Get: a Load of the sync.Map, or lockedMap's RLock    *)
(* (which waits behind an announced writer), read, RUnlock.                 *)
CallbackGet(p) ==
    /\ pc[p] = "cbRLock" /\ (impl = "sync" \/ RLockFree)
    /\ pc' = [pc EXCEPT ![p] = "runLoop"]
    /\ UNCHANGED <<impl, data, rcount, wpending, arg, toVisit, snap>>

(* f returns false, or every key has been visited: Run returns, and the   *)
(* deferred RUnlock of lockedMap releases the read lock.                   *)
RunEnd(p) ==
    /\ pc[p] = "runLoop"
    /\ rcount' = [rcount EXCEPT ![p] = 0]
    /\ pc' = [pc EXCEPT ![p] = "idle"]
    /\ toVisit' = [toVisit EXCEPT ![p] = {}]
    /\ UNCHANGED <<impl, data, wpending, arg, snap>>

Next ==
    \E p \in Procs :
       \/ \E k \in Keys :
             \/ LockedGetCall(p, k) \/ RunVisit(p, k)
             \/ \E v \in Vals \cup {Nil} : SyncWrite(p, k, v) \/ LockedWriteCall(p, k, v)
       \/ SyncRun(p) \/ LockedRunCall(p) \/ LockedRunRLock(p)
       \/ LockedGetRead(p) \/ LockedAnnounce(p) \/ LockedWrite(p)
       \/ CallbackGet(p) \/ RunEnd(p)

Spec == Init /\ [][Next]_vars

-----------------------------------------------------------------------------
(* Every variable keeps its type.                                           *)
TypeOK ==
    /\ impl \in Impls
    /\ data \in [Keys -> Vals \cup {Nil}]
    /\ rcount \in [Procs -> 0..1]
    /\ wpending \in Procs \cup {None}
    /\ pc \in [Procs -> Pcs]
    /\ arg \in [Procs -> Args \cup {None}]
    /\ toVisit \in [Procs -> SUBSET Keys]
    /\ snap \in [Procs -> [Keys -> Vals \cup {Nil}]]

(* lockedMap.Run iterates a consistent map: while a goroutine is inside    *)
(* Run, Set and Del of every other goroutine wait, so the map it iterates *)
(* is the one it found when it took the read lock.                          *)
LockedRunSeesSnapshot ==
    \A p \in Procs :
        impl = "locked" /\ pc[p] \in {"runLoop", "cbRLock"} => data = snap[p]

(* No goroutine waits for a read lock while it holds one and a writer,    *)
(* announced after its first RLock, waits for it to let go: Run's callback *)
(* reading the same lockedMap never blocks forever.                         *)
NoReadLockCycle ==
    \A p \in Procs : ~(pc[p] = "cbRLock" /\ rcount[p] > 0 /\ wpending # None)

-----------------------------------------------------------------------------
(* The Run a goroutine is inside, as the atomic store sees it: a Run of    *)
(* lockedMap, which holds the read lock, iterates the map it found when it *)
(* took the lock; a Run of syncMap holds nothing and is not atomic, so it  *)
(* is not one (its steps are stutters of the atomic store).                 *)
InLockedRun(p) == impl = "locked" /\ pc[p] \in {"runLoop", "cbRLock"}

runIter == [p \in Procs |-> IF InLockedRun(p) THEN snap[p] ELSE None]

Abs == INSTANCE AtomicStore WITH iter <- runIter

(* The store implements the atomic store: every Set and Del of either      *)
(* implementation is a write while no lockedMap.Run is in progress, and a *)
(* lockedMap.Run begins, iterates and ends around an unchanging map.        *)
AtomicStoreSpec == Abs!Spec
=============================================================================
