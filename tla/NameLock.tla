------------------------------- MODULE NameLock -------------------------------
(***************************************************************************)
(* What the lock around commitAndRegister promises: one process at a time  *)
(* is inside, for one (environment, tld, owner, label).                    *)
(***************************************************************************)
CONSTANT Procs

VARIABLE inside     \* the processes between getting the lock and giving it up

Init == inside = {}

Enter(p) == inside = {} /\ inside' = {p}

Leave(p) == inside = {p} /\ inside' = {}

Next == \E p \in Procs : Enter(p) \/ Leave(p)

Spec == Init /\ [][Next]_inside
===============================================================================
