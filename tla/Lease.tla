-------------------------------- MODULE Lease --------------------------------
(***************************************************************************)
(* What the eviction lock promises: a lease that one instance has at a     *)
(* time.  It is granted only while nobody else has it, and it ends by      *)
(* itself; it never passes from one instance to another without a moment   *)
(* in which it is free.                                                    *)
(***************************************************************************)
CONSTANT Instances

VARIABLE holders   \* the instances that have the lease, one at most

Init == holders = {}

Grant(i) == holders \subseteq {i} /\ holders' = {i}

Lapse == holders' = {}

Next == (\E i \in Instances : Grant(i)) \/ Lapse

Spec == Init /\ [][Next]_holders
==============================================================================
