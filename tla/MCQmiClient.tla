------------------------------ MODULE MCQmiClient ------------------------------
(***************************************************************************)
(* Small instances of QmiClient: what each of two threads does.            *)
(***************************************************************************)
EXTENDS QmiClient, TLC

CONSTANTS u1, u2, t1, t2

Sending == (u1 :> {"timed"}) @@ (u2 :> {"async"})
Managing == (u1 :> {"sync", "async", "release_async"}) @@ (u2 :> {"delete", "register", "release"})
Waiting == (u1 :> {"sync"}) @@ (u2 :> {"release"})

SymTxns == Permutations(Txns)
=============================================================================
