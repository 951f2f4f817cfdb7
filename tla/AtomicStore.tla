---------------------------- MODULE AtomicStore ----------------------------
(***************************************************************************)
(* What the store interface of src/store.go promises, stated for a store  *)
(* whose operations are atomic: a map from keys to values, Set and Del     *)
(* (Write) replace one entry, and Run iterates a fixed copy of the map.    *)
(* iter[p] is the copy goroutine p's Run is iterating, None outside Run.   *)
(* A write happens only when no Run is in progress, so every Run sees     *)
(* the map as it was when the Run began.  Get changes nothing and is a    *)
(* stutter.                                                                *)
(***************************************************************************)
CONSTANTS Procs, Keys, Vals, Nil, None

VARIABLES data, iter

Maps == [Keys -> Vals \cup {Nil}]

Init ==
    /\ data = [k \in Keys |-> Nil]
    /\ iter = [p \in Procs |-> None]

(* Set(k, v), or Del(k) with v = Nil, while no Run is iterating.           *)
Write(k, v) ==
    /\ \A q \in Procs : iter[q] = None
    /\ data' = [data EXCEPT ![k] = v]
    /\ UNCHANGED iter

(* Run begins: from here on its callback is given the entries of data.     *)
RunBegin(p) ==
    /\ iter[p] = None
    /\ iter' = [iter EXCEPT ![p] = data]
    /\ UNCHANGED data

(* Run returns.                                                            *)
RunEnd(p) ==
    /\ iter[p] # None
    /\ iter' = [iter EXCEPT ![p] = None]
    /\ UNCHANGED data

Next ==
    \/ \E k \in Keys, v \in Vals \cup {Nil} : Write(k, v)
    \/ \E p \in Procs : RunBegin(p) \/ RunEnd(p)

Spec == Init /\ [][Next]_<<data, iter>>
=============================================================================
