------------------------------- MODULE Mutex -------------------------------
(***************************************************************************)
(* What the store asks of a backend's lock() (oath/backend.go, the          *)
(* storeBackend interface): at most one caller is between lock() and the    *)
(* release function lock() returned.  Registry takes its critical sections  *)
(* to be exclusive in exactly this sense; StoreLock shows when the lock     *)
(* file of oath/lock.go delivers it.                                        *)
(***************************************************************************)
CONSTANT Proc

VARIABLE holders   \* the callers that lock() returned to and that have not released

Init == holders = {}

Acquire(p) ==
    /\ holders = {}
    /\ holders' = {p}

Release(p) ==
    /\ holders = {p}
    /\ holders' = {}

Next == \E p \in Proc : Acquire(p) \/ Release(p)

Spec == Init /\ [][Next]_holders
=============================================================================
