---------------------------- MODULE MCFlowControl ----------------------------
(***************************************************************************)
(* A small instance of FlowControl: the reader on router home, senders     *)
(* there and on router away.                                               *)
(***************************************************************************)
EXTENDS FlowControl

CONSTANTS home, away, l1, s1, s2, r1, r2, r3

MCRouterOf == [s \in Senders |-> IF s = l1 THEN home ELSE away]
=============================================================================
