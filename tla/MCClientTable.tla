---------------------------- MODULE MCClientTable ----------------------------
(***************************************************************************)
(* Small instances of ClientTable: two local endpoints of two application  *)
(* threads, or one and a remote endpoint behind two transports.            *)
(***************************************************************************)
EXTENDS ClientTable, TLC

CONSTANTS t1, t2, w, a1, a2, b, here, there, x1, x2, r1, r2, r3

MCProcOf == [a \in Addrs |-> IF a = b THEN there ELSE here]
MCOwner == [a \in Addrs \ {b} |-> IF a = a1 \/ t2 \notin Threads THEN t1 ELSE t2]
MCWorker == [x \in Xports |-> IF x = x2 /\ t2 \in Threads THEN t2 ELSE w]
MCReach == [x \in Xports |-> {b} \cap Addrs]
MCPriority == [x \in Xports |-> IF x = x2 THEN 2 ELSE 1]

RecordSymmetry == Permutations(Records)
=============================================================================
