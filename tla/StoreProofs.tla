---------------------------- MODULE StoreProofs -----------------------------
(***************************************************************************)
(* Proofs about the store implementations of Store.tla for every set of    *)
(* goroutines, keys and values: type correctness, the snapshot seen by    *)
(* lockedMap.Run, and that both implementations refine the atomic store   *)
(* of AtomicStore.tla.                                                     *)
(*                                                                         *)
(* The invariants are not inductive as they stand.  What the proofs need  *)
(* besides them: a goroutine between Lock and the assignment carries a    *)
(* key and a value (ArgsAtWrite), and a goroutine holds a read lock       *)
(* exactly while it is inside lockedMap.Run (ReadLockHeld), which is what *)
(* makes the writer's wait for NoReaders exclude every Run in progress.    *)
(***************************************************************************)
EXTENDS Store, TLAPS

USE StoreAssumption

ArgsAtWrite == \A p \in Procs : pc[p] \in {"wlock", "wwait"} => arg[p] \in Args

ReadLockHeld == \A p \in Procs : rcount[p] = IF InLockedRun(p) THEN 1 ELSE 0

(* Only lockedMap's calls wait for its lock.                                *)
LockedPcs == \A p \in Procs :
                pc[p] \in {"rlock", "wlock", "wwait", "runRLock"} => impl = "locked"

IInv == TypeOK /\ LockedPcs /\ ArgsAtWrite /\ ReadLockHeld /\ LockedRunSeesSnapshot

-----------------------------------------------------------------------------
(* The goroutines start idle on an empty map.                              *)
LEMMA InitIInv == Init => IInv
BY DEF Init, IInv, TypeOK, LockedPcs, ArgsAtWrite, ReadLockHeld, LockedRunSeesSnapshot,
       InLockedRun, Pcs

(* Every step of a goroutine keeps the strengthened invariant.             *)
LEMMA NextIInv == IInv /\ [Next]_vars => IInv'
<1> SUFFICES ASSUME IInv, [Next]_vars PROVE IInv'
  OBVIOUS
<1> USE DEF IInv, TypeOK, LockedPcs, ArgsAtWrite, ReadLockHeld, LockedRunSeesSnapshot,
            InLockedRun, Pcs, Idle
<1>1. ASSUME NEW p \in Procs, NEW k \in Keys, NEW v \in Vals \cup {Nil},
             SyncWrite(p, k, v)
      PROVE IInv'
  BY <1>1 DEF SyncWrite
<1>2. ASSUME NEW p \in Procs, SyncRun(p) PROVE IInv'
  BY <1>2 DEF SyncRun
<1>3. ASSUME NEW p \in Procs, NEW k \in Keys, LockedGetCall(p, k) PROVE IInv'
  BY <1>3 DEF LockedGetCall
<1>4. ASSUME NEW p \in Procs, LockedGetRead(p) PROVE IInv'
  BY <1>4 DEF LockedGetRead
<1>5. ASSUME NEW p \in Procs, NEW k \in Keys, NEW v \in Vals \cup {Nil},
             LockedWriteCall(p, k, v)
      PROVE IInv'
  BY <1>5 DEF LockedWriteCall, Args
<1>6. ASSUME NEW p \in Procs, LockedAnnounce(p) PROVE IInv'
  BY <1>6 DEF LockedAnnounce
<1>7. ASSUME NEW p \in Procs, LockedWrite(p) PROVE IInv'
  <2>1. arg[p] \in Args
    BY <1>7 DEF LockedWrite
  <2>2. \A q \in Procs : ~InLockedRun(q)
    BY <1>7 DEF LockedWrite, NoReaders
  <2>3. TypeOK'
    BY <1>7, <2>1 DEF LockedWrite, Args
  <2>4. (LockedPcs /\ ArgsAtWrite /\ ReadLockHeld)'
    BY <1>7 DEF LockedWrite
  <2>5. LockedRunSeesSnapshot'
    BY <1>7, <2>2 DEF LockedWrite
  <2> QED  BY <2>3, <2>4, <2>5
<1>8. ASSUME NEW p \in Procs, LockedRunCall(p) PROVE IInv'
  BY <1>8 DEF LockedRunCall
<1>9. ASSUME NEW p \in Procs, LockedRunRLock(p) PROVE IInv'
  <2>1. rcount[p] = 0 /\ rcount'[p] = 1
    BY <1>9 DEF LockedRunRLock
  <2>2. TypeOK'
    BY <1>9, <2>1 DEF LockedRunRLock, Present
  <2>3. ReadLockHeld'
    BY <1>9, <2>1 DEF LockedRunRLock
  <2>4. (LockedPcs /\ ArgsAtWrite /\ LockedRunSeesSnapshot)'
    BY <1>9 DEF LockedRunRLock
  <2> QED  BY <2>2, <2>3, <2>4
<1>10. ASSUME NEW p \in Procs, NEW k \in Keys, RunVisit(p, k) PROVE IInv'
  BY <1>10 DEF RunVisit
<1>11. ASSUME NEW p \in Procs, CallbackGet(p) PROVE IInv'
  BY <1>11 DEF CallbackGet
<1>12. ASSUME NEW p \in Procs, RunEnd(p) PROVE IInv'
  BY <1>12 DEF RunEnd
<1>13. CASE UNCHANGED vars
  BY <1>13 DEF vars
<1> QED  BY <1>1, <1>2, <1>3, <1>4, <1>5, <1>6, <1>7, <1>8, <1>9, <1>10,
            <1>11, <1>12, <1>13 DEF Next

-----------------------------------------------------------------------------
(* Every variable of both store implementations keeps its type.            *)
THEOREM StoreTypeCorrect == Spec => []TypeOK
<1>1. IInv => TypeOK
  BY DEF IInv
<1> QED  BY <1>1, InitIInv, NextIInv, PTL DEF Spec

(* lockedMap.Run iterates an unchanging map: while a goroutine is inside   *)
(* Run (its loop or its callback), Set and Del wait on the write lock, so  *)
(* the map equals the one it found when RLock returned.                     *)
THEOREM RunSnapshot == Spec => []LockedRunSeesSnapshot
<1>1. IInv => LockedRunSeesSnapshot
  BY DEF IInv
<1> QED  BY <1>1, InitIInv, NextIInv, PTL DEF Spec

-----------------------------------------------------------------------------
(* A step that leaves the map and every goroutine's Run alone is a stutter  *)
(* of the atomic store.                                                      *)
LEMMA RunIterUnchanged ==
    ASSUME UNCHANGED <<impl, data>>,
           \A q \in Procs : InLockedRun(q)' = InLockedRun(q),
           \A q \in Procs : InLockedRun(q) => snap'[q] = snap[q]
    PROVE  UNCHANGED <<data, runIter>>
BY DEF runIter

(* Both store implementations refine the atomic store: the initial map is  *)
(* empty with no Run in progress, a Set or Del is a write while no         *)
(* lockedMap.Run is in progress, lockedMap's RLock in Run begins a Run and *)
(* its deferred RUnlock ends it, and every other step is a stutter.         *)
THEOREM StoreRefinesAtomic == Spec => AtomicStoreSpec
<1>1. Init => Abs!Init
  BY DEF Init, Abs!Init, runIter, InLockedRun
<1>2. IInv /\ [Next]_vars => [Abs!Next]_<<data, runIter>>
  <2> SUFFICES ASSUME IInv, [Next]_vars PROVE [Abs!Next]_<<data, runIter>>
    OBVIOUS
  <2> USE DEF IInv, TypeOK, Idle
  <2>1. ASSUME NEW p \in Procs, NEW k \in Keys, NEW v \in Vals \cup {Nil},
               SyncWrite(p, k, v)
        PROVE Abs!Write(k, v)
    BY <2>1 DEF SyncWrite, Abs!Write, runIter, InLockedRun
  <2>2. ASSUME NEW p \in Procs, NEW k \in Keys, NEW v \in Vals \cup {Nil},
               LockedWriteCall(p, k, v)
        PROVE UNCHANGED <<data, runIter>>
    BY <2>2, RunIterUnchanged DEF LockedWriteCall, InLockedRun
  <2>3. ASSUME NEW p \in Procs, LockedWrite(p)
        PROVE /\ arg[p].key \in Keys /\ arg[p].val \in Vals \cup {Nil}
              /\ Abs!Write(arg[p].key, arg[p].val)
    <3>0. arg[p] \in Args
      BY <2>3 DEF LockedWrite, ArgsAtWrite
    <3>1. \A q \in Procs : ~InLockedRun(q)
      BY <2>3 DEF LockedWrite, NoReaders, ReadLockHeld
    <3>2. \A q \in Procs : ~InLockedRun(q)'
      BY <2>3, <3>1 DEF LockedWrite, InLockedRun
    <3> QED  BY <2>3, <3>0, <3>1, <3>2 DEF LockedWrite, Abs!Write, runIter, Args
  <2>4. ASSUME NEW p \in Procs, LockedRunRLock(p) PROVE Abs!RunBegin(p)
    <3>1. impl = "locked"
      BY <2>4 DEF LockedRunRLock, LockedPcs
    <3>2. ~InLockedRun(p) /\ InLockedRun(p)'
      BY <2>4, <3>1 DEF LockedRunRLock, InLockedRun
    <3> QED  BY <2>4, <3>2 DEF LockedRunRLock, Abs!RunBegin, runIter, InLockedRun
  <2>5. ASSUME NEW p \in Procs, RunEnd(p)
        PROVE [Abs!RunEnd(p)]_<<data, runIter>>
    <3>1. CASE impl = "locked"
      BY <2>5, <3>1 DEF RunEnd, Abs!RunEnd, runIter, InLockedRun
    <3>2. CASE impl # "locked"
      BY <2>5, <3>2, RunIterUnchanged DEF RunEnd, InLockedRun
    <3> QED  BY <3>1, <3>2
  <2>6. ASSUME NEW p \in Procs,
               \/ SyncRun(p) \/ LockedRunCall(p) \/ LockedGetRead(p)
               \/ LockedAnnounce(p) \/ CallbackGet(p)
               \/ \E k \in Keys : LockedGetCall(p, k) \/ RunVisit(p, k)
        PROVE UNCHANGED <<data, runIter>>
    BY <2>6, RunIterUnchanged
       DEF SyncRun, LockedRunCall, LockedGetRead, LockedAnnounce, CallbackGet,
           LockedGetCall, RunVisit, InLockedRun
  <2>7. CASE UNCHANGED vars
    BY <2>7 DEF vars, runIter, InLockedRun
  <2> QED  BY <2>1, <2>2, <2>3, <2>4, <2>5, <2>6, <2>7 DEF Next, Abs!Next
<1> QED  BY <1>1, <1>2, InitIInv, NextIInv, PTL
         DEF Spec, AtomicStoreSpec, Abs!Spec
=============================================================================
