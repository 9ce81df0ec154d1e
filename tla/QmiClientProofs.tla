---------------------------- MODULE QmiClientProofs ----------------------------
(***************************************************************************)
(* QmiClient for any number of threads and transactions: its types, the    *)
(* reference counts of transactions and of the client, and the loss of the *)
(* server while the client connects.                                       *)
(***************************************************************************)
EXTENDS QmiClient, FiniteSetTheorems, TLAPS

USE QmiAssumption

-----------------------------------------------------------------------------
(***************************************************************************)
(* Where a thread is says what it does and what it carries.                *)
(***************************************************************************)

FlushPcs == {"fl_addr", "fl_send", "fl_sent", "fl_bad", "fl_log", "fl_fail", "fl_drop"}
CleanupPcs == {"cu_queue", "cu_give", "cu_fail", "cu_drop"}
DeletePcs == {"del_queue", "del_give", "del_list", "del_drop"}
ReleaseOps == {"release", "release_async"}

OpShape(u) ==
  /\ pc[u] \in {"enter", "check", "ref", "queue"} \cup FlushPcs => op[u] \in Calls
  /\ pc[u] \in {"own", "arm", "wait", "inval", "remove", "drop"} => op[u] \in Sync
  /\ pc[u] \in {"fail", "put_handle"} => op[u] = "async"
  /\ pc[u] \in CleanupPcs => op[u] \in Calls \cup ReleaseOps
  /\ pc[u] \in DeletePcs => op[u] = "delete"
  /\ pc[u] \in {"idle", "blocked"} => op[u] = "none"
  /\ pc[u] \in {"probe", "unlink", "rel_stop", "rel_close"} => op[u] \in ReleaseOps
  /\ pc[u] \in {"reg", "reg_call"} => op[u] = "register"

CurShape(u) ==
  /\ cur[u] \in used \cup {Null}
  /\ op[u] \in Calls /\ pc[u] \notin {"enter", "put"} => cur[u] \in used
  /\ op[u] = "delete" /\ pc[u] # "put" => cur[u] \in used

CarryShape(th) ==
  /\ carry[th] \subseteq used
  /\ pc[th] \in {"fl_sent", "fl_bad", "fl_fail", "fl_drop", "found", "decode", "rx_drop"}
       => work[th] \in used /\ carry[th] = {work[th]}
  /\ pc[th] \in {"queue", "del_give", "del_drop"} => carry[th] = {cur[th]}
  /\ pc[th] = "cu_drop" => work[th] \in carry[th]
  /\ pc[th] \notin {"fl_sent", "fl_bad", "fl_fail", "fl_drop", "found", "decode", "rx_drop",
                    "queue", "del_give", "del_drop", "cu_give", "cu_fail", "cu_drop"}
       => carry[th] = {}

Shape ==
  /\ list \subseteq used /\ queue \subseteq used /\ handles \subseteq used
  /\ \A u \in Users : OpShape(u) /\ CurShape(u)
  /\ \A th \in Threads : CarryShape(th)

USE DEF At, Goto, Carry

-----------------------------------------------------------------------------
(***************************************************************************)
(* Types                                                                   *)
(***************************************************************************)

NumberType ==
  /\ id \in [Txns -> 0..MaxId] /\ ref \in [Txns -> Int] /\ reports \in [Txns -> Nat]
  /\ nextId \in 1..MaxId
  /\ cref \in Int

SetType ==
  /\ used \subseteq Txns /\ list \subseteq Txns /\ queue \subseteq Txns
  /\ handles \subseteq Txns /\ requests \subseteq [id : 0..MaxId, for : Txns]

TxnFlags ==
  /\ kind \in [Txns -> Calls] /\ buf \in [Txns -> BOOLEAN] /\ sig \in [Txns -> BOOLEAN]
  /\ pending \in [Txns -> BOOLEAN]

ClientFlags ==
  /\ valid \in BOOLEAN /\ accepting \in BOOLEAN /\ handle \in BOOLEAN /\ linked \in BOOLEAN
  /\ opening \in {"open", "live", "fill", "lookup", "done", "failed"}
  /\ crashed \in BOOLEAN

ErrorFlags == errCb \in BOOLEAN /\ errPending \in BOOLEAN /\ told \in BOOLEAN

NetworkFlags ==
  /\ server \in {"up", "gone"} /\ notice \in BOOLEAN /\ waiting \in BOOLEAN
  /\ attached \in BOOLEAN /\ closing \in BOOLEAN

ThreadType ==
  /\ pc \in [Threads -> Pcs] /\ op \in [Threads -> OpNames]
  /\ cur \in [Threads -> Txns \cup {Null}] /\ work \in [Threads -> Txns \cup {Null}]
  /\ carry \in [Threads -> SUBSET Txns]

\* The parts of the type invariant make it up.
LEMMA TypePartsNext ==
  ASSUME NumberType', SetType', TxnFlags', ClientFlags', ErrorFlags', NetworkFlags',
         ThreadType'
  PROVE  TypeOK'
  BY DEF TypeOK, NumberType, SetType, TxnFlags, ClientFlags, ErrorFlags, NetworkFlags,
         ThreadType

\* One place of a function
\* A Boolean function changed at one place is one still.
LEMMA BoolPoint ==
  ASSUME NEW S, NEW f \in [S -> BOOLEAN], NEW x, NEW b \in BOOLEAN
  PROVE  [f EXCEPT ![x] = b] \in [S -> BOOLEAN]
  BY Zenon

\* Giving up a reference keeps the counts integers.
LEMMA DecType ==
  ASSUME ref \in [Txns -> Int], NEW t, Dec(t)
  PROVE  ref' \in [Txns -> Int]
  <1>1. CASE t \in Txns BY <1>1 DEF Dec
  <1>2. CASE t \notin Txns BY <1>2 DEF Dec
  <1> QED BY <1>1, <1>2

\* Taking one does, too, whether the memory is freed or not.
LEMMA IncType ==
  ASSUME ref \in [Txns -> Int], crashed \in BOOLEAN, NEW t, Inc(t)
  PROVE  ref' \in [Txns -> Int] /\ crashed' \in BOOLEAN
  <1>1. ref' \in [Txns -> Int]
    <2>1. CASE t \in live BY <2>1 DEF Inc, live
    <2>2. CASE t \notin live BY <2>2 DEF Inc
    <2> QED BY <2>1, <2>2
  <1>2. crashed' \in BOOLEAN BY Zenon DEF Inc
  <1> QED BY <1>1, <1>2

\* handle_txn_error keeps outcome, signal and reports in their types.
LEMMA FailType ==
  ASSUME TypeOK, NEW t, Fail(t)
  PROVE  /\ pending' \in [Txns -> BOOLEAN] /\ sig' \in [Txns -> BOOLEAN]
         /\ reports' \in [Txns -> Nat]
  <1>1. pending' \in [Txns -> BOOLEAN] BY BoolPoint, Zenon DEF Fail, TypeOK
  <1>2. sig' \in [Txns -> BOOLEAN]
    <2>1. CASE kind[t] \in Sync
      <3>1. sig' = [sig EXCEPT ![t] = TRUE] BY <2>1 DEF Fail
      <3>2. sig \in [Txns -> BOOLEAN] BY DEF TypeOK
      <3> QED BY <3>1, <3>2, BoolPoint
    <2>2. CASE kind[t] \notin Sync BY <2>2, Zenon DEF Fail, TypeOK
    <2> QED BY <2>1, <2>2
  <1>3. reports' \in [Txns -> Nat]
    <2>1. CASE t \in Txns BY <2>1 DEF Fail, TypeOK
    <2>2. CASE t \notin Txns BY <2>2 DEF Fail, TypeOK
    <2> QED BY <2>1, <2>2
  <1> QED BY <1>1, <1>2, <1>3

\* Every step keeps the types: one step of the proof per action of the model.
LEMMA TypeStep ==
  ASSUME TypeOK, Shape, [Next]_vars
  PROVE  TypeOK'
  <1>1. ASSUME NEW u \in Users, BeginCall(u) PROVE TypeOK'
    <2>1. SetType' /\ TxnFlags' /\ ClientFlags' /\ ErrorFlags' /\ NetworkFlags'
      BY <1>1 DEF BeginCall, TypeOK, SetType, TxnFlags, ClientFlags, ErrorFlags,
         NetworkFlags, born, result, txnVars, lists, errors, network, hands
    <2>2. NumberType'
      BY <1>1 DEF BeginCall, TypeOK, NumberType, born, result, txnVars, lists, errors,
         network, hands, GetRef
    <2>3. ThreadType'
      BY <1>1 DEF BeginCall, TypeOK, ThreadType, born, result, txnVars, lists, errors,
         network, hands, GetRef, Threads, Sync, Calls, Pcs, OpNames, Shape, CurShape,
         CarryShape, OpShape, FlushPcs, CleanupPcs
    <2> QED BY <2>1, <2>2, <2>3, TypePartsNext
  <1>2. ASSUME NEW u \in Users, NoTxn(u) PROVE TypeOK'
    <2>1. NumberType' /\ SetType' /\ TxnFlags' /\ ClientFlags' /\ ErrorFlags' /\
      NetworkFlags'
      BY <1>2 DEF NoTxn, TypeOK, NumberType, SetType, TxnFlags, ClientFlags, ErrorFlags,
         NetworkFlags, born, result, txnVars, lists, client, errors, network, app, rest,
         hands
    <2>2. ThreadType'
      BY <1>2 DEF NoTxn, TypeOK, ThreadType, born, result, txnVars, lists, client, errors,
         network, app, rest, hands, Threads, Sync, Calls, Pcs, OpNames, Shape, CurShape,
         CarryShape, OpShape, FlushPcs, CleanupPcs
    <2> QED BY <2>1, <2>2, TypePartsNext
  <1>3. ASSUME NEW u \in Users, GetTxn(u) PROVE TypeOK'
    <2>1. ClientFlags' /\ ErrorFlags' /\ NetworkFlags'
      BY <1>3 DEF GetTxn, TypeOK, ClientFlags, ErrorFlags, NetworkFlags, result, client,
         errors, network, hands
    <2>2. NumberType'
      BY <1>3 DEF GetTxn, TypeOK, NumberType, result, client, errors, network, hands,
         NextId
    <2>3. SetType'
      BY <1>3 DEF GetTxn, TypeOK, SetType, result, client, errors, network, hands, Shape,
         CurShape, CarryShape, Threads, Calls
    <2>4. TxnFlags'
      BY <1>3, BoolPoint DEF GetTxn, TypeOK, TxnFlags, result, client, errors, network,
         hands
    <2>5. ThreadType'
      BY <1>3 DEF GetTxn, TypeOK, ThreadType, result, client, errors, network, hands,
         Threads, Sync, Calls, Pcs, OpNames, Shape, CurShape, CarryShape, OpShape,
         FlushPcs, CleanupPcs
    <2> QED BY <2>1, <2>2, <2>3, <2>4, <2>5, TypePartsNext
  <1>4. ASSUME NEW u \in Users, Own(u) PROVE TypeOK'
    <2>1. SetType' /\ TxnFlags' /\ ErrorFlags' /\ NetworkFlags'
      BY <1>4 DEF Own, TypeOK, SetType, TxnFlags, ErrorFlags, NetworkFlags, born, result,
         lists, client, errors, network, hands
    <2>2. NumberType'
      BY <1>4, IncType DEF Own, TypeOK, NumberType, born, result, lists, client, errors,
         network, hands
    <2>3. ClientFlags'
      BY <1>4, IncType DEF Own, TypeOK, ClientFlags, born, result, lists, client, errors,
         network, hands
    <2>4. ThreadType'
      BY <1>4 DEF Own, TypeOK, ThreadType, born, result, lists, client, errors, network,
         hands, Threads, Sync, Calls, Pcs, OpNames, Shape, CurShape, CarryShape,
         OpShape, FlushPcs, CleanupPcs
    <2> QED BY <2>1, <2>2, <2>3, <2>4, TypePartsNext
  <1>5. ASSUME NEW u \in Users, Arm(u) PROVE TypeOK'
    <2>1. NumberType' /\ SetType' /\ ClientFlags' /\ ErrorFlags' /\ NetworkFlags'
      BY <1>5 DEF Arm, TypeOK, NumberType, SetType, ClientFlags, ErrorFlags, NetworkFlags,
         born, lists, client, errors, network, app, rest, hands
    <2>2. TxnFlags'
      BY <1>5, BoolPoint DEF Arm, TypeOK, TxnFlags, born, lists, client, errors, network,
         app, rest, hands
    <2>3. ThreadType'
      BY <1>5 DEF Arm, TypeOK, ThreadType, born, lists, client, errors, network, app, rest,
         hands, Threads, Sync, Calls, Pcs, OpNames, Shape, CurShape, CarryShape,
         OpShape, FlushPcs, CleanupPcs
    <2> QED BY <2>1, <2>2, <2>3, TypePartsNext
  <1>6. ASSUME NEW u \in Users, Check(u) PROVE TypeOK'
    <2>1. NumberType' /\ SetType' /\ TxnFlags' /\ ClientFlags' /\ ErrorFlags' /\
      NetworkFlags'
      BY <1>6 DEF Check, TypeOK, NumberType, SetType, TxnFlags, ClientFlags, ErrorFlags,
         NetworkFlags, born, result, txnVars, lists, client, errors, network, app, rest,
         hands
    <2>2. ThreadType'
      BY <1>6 DEF Check, TypeOK, ThreadType, born, result, txnVars, lists, client, errors,
         network, app, rest, hands, Failing, Threads, Sync, Calls, Pcs, OpNames, Shape,
         CurShape, CarryShape, OpShape, FlushPcs, CleanupPcs
    <2> QED BY <2>1, <2>2, TypePartsNext
  <1>7. ASSUME NEW u \in Users, TakeRef(u) PROVE TypeOK'
    <2>1. SetType' /\ TxnFlags' /\ ErrorFlags' /\ NetworkFlags'
      BY <1>7 DEF TakeRef, TypeOK, SetType, TxnFlags, ErrorFlags, NetworkFlags, born,
         result, lists, client, errors, network
    <2>2. NumberType'
      BY <1>7, IncType DEF TakeRef, TypeOK, NumberType, born, result, lists, client,
         errors, network
    <2>3. ClientFlags'
      BY <1>7, IncType DEF TakeRef, TypeOK, ClientFlags, born, result, lists, client,
         errors, network
    <2>4. ThreadType'
      BY <1>7 DEF TakeRef, TypeOK, ThreadType, born, result, lists, client, errors,
         network, Threads, Sync, Calls, Pcs, OpNames, Shape, CurShape, CarryShape,
         OpShape, FlushPcs, CleanupPcs
    <2> QED BY <2>1, <2>2, <2>3, <2>4, TypePartsNext
  <1>8. ASSUME NEW u \in Users, Enqueue(u) PROVE TypeOK'
    <2>1. NumberType' /\ TxnFlags' /\ ClientFlags' /\ ErrorFlags' /\ NetworkFlags'
      BY <1>8 DEF Enqueue, TypeOK, NumberType, TxnFlags, ClientFlags, ErrorFlags,
         NetworkFlags, born, result, txnVars, client, errors, network, app, rest
    <2>2. SetType'
      BY <1>8 DEF Enqueue, TypeOK, SetType, born, result, txnVars, client, errors, network,
         app, rest, Shape, CurShape, CarryShape, Threads, Calls
    <2>3. ThreadType'
      BY <1>8 DEF Enqueue, TypeOK, ThreadType, born, result, txnVars, client, errors,
         network, app, rest, Threads, Sync, Calls, Pcs, OpNames, Shape, CurShape,
         CarryShape, OpShape, FlushPcs, CleanupPcs
    <2> QED BY <2>1, <2>2, <2>3, TypePartsNext
  <1>9. ASSUME NEW u \in Users, Refuse(u) PROVE TypeOK'
    <2>1. SetType' /\ TxnFlags' /\ ClientFlags' /\ ErrorFlags' /\ NetworkFlags'
      BY <1>9 DEF Refuse, TypeOK, SetType, TxnFlags, ClientFlags, ErrorFlags, NetworkFlags,
         born, result, lists, client, errors, network, app, rest
    <2>2. NumberType'
      BY <1>9, DecType DEF Refuse, TypeOK, NumberType, born, result, lists, client, errors,
         network, app, rest
    <2>3. ThreadType'
      BY <1>9 DEF Refuse, TypeOK, ThreadType, born, result, lists, client, errors, network,
         app, rest, Failing, Threads, Sync, Calls, Pcs, OpNames, Shape, CurShape,
         CarryShape, OpShape, FlushPcs, CleanupPcs
    <2> QED BY <2>1, <2>2, <2>3, TypePartsNext
  <1>10. ASSUME NEW u \in Users, Wake(u) PROVE TypeOK'
    <2>1. NumberType' /\ SetType' /\ ClientFlags' /\ ErrorFlags' /\ NetworkFlags'
      BY <1>10 DEF Wake, TypeOK, NumberType, SetType, ClientFlags, ErrorFlags, NetworkFlags,
         born, lists, client, errors, network, app, rest, hands
    <2>2. TxnFlags'
      BY <1>10, BoolPoint DEF Wake, TypeOK, TxnFlags, born, lists, client, errors, network,
         app, rest, hands
    <2>3. ThreadType'
      BY <1>10 DEF Wake, TypeOK, ThreadType, born, lists, client, errors, network, app,
         rest, hands, Threads, Sync, Calls, Pcs, OpNames, Shape, CurShape, CarryShape,
         OpShape, FlushPcs, CleanupPcs
    <2> QED BY <2>1, <2>2, <2>3, TypePartsNext
  <1>11. ASSUME NEW u \in Users, TimeOut(u) PROVE TypeOK'
    <2>1. NumberType' /\ SetType' /\ ClientFlags' /\ ErrorFlags' /\ NetworkFlags'
      BY <1>11 DEF TimeOut, TypeOK, NumberType, SetType, ClientFlags, ErrorFlags,
         NetworkFlags, born, lists, client, errors, network, app, rest, hands
    <2>2. TxnFlags'
      BY <1>11, BoolPoint DEF TimeOut, TypeOK, TxnFlags, born, lists, client, errors,
         network, app, rest, hands
    <2>3. ThreadType'
      BY <1>11 DEF TimeOut, TypeOK, ThreadType, born, lists, client, errors, network, app,
         rest, hands, Threads, Sync, Calls, Pcs, OpNames, Shape, CurShape, CarryShape,
         OpShape, FlushPcs, CleanupPcs
    <2> QED BY <2>1, <2>2, <2>3, TypePartsNext
  <1>12. ASSUME NEW u \in Users, Invalidate(u) PROVE TypeOK'
    <2>1. NumberType' /\ SetType' /\ ClientFlags' /\ ErrorFlags' /\ NetworkFlags'
      BY <1>12 DEF Invalidate, TypeOK, NumberType, SetType, ClientFlags, ErrorFlags,
         NetworkFlags, born, result, lists, client, errors, network, app, rest, hands
    <2>2. TxnFlags'
      BY <1>12, BoolPoint DEF Invalidate, TypeOK, TxnFlags, born, result, lists, client,
         errors, network, app, rest, hands
    <2>3. ThreadType'
      BY <1>12 DEF Invalidate, TypeOK, ThreadType, born, result, lists, client, errors,
         network, app, rest, hands, Threads, Sync, Calls, Pcs, OpNames, Shape, CurShape,
         CarryShape, OpShape, FlushPcs, CleanupPcs
    <2> QED BY <2>1, <2>2, <2>3, TypePartsNext
  <1>13. ASSUME NEW u \in Users, RemoveSync(u) PROVE TypeOK'
    <2>1. TxnFlags' /\ ClientFlags' /\ ErrorFlags' /\ NetworkFlags'
      BY <1>13 DEF RemoveSync, TypeOK, TxnFlags, ClientFlags, ErrorFlags, NetworkFlags,
         born, result, client, errors, network, app, rest, hands
    <2>2. NumberType'
      BY <1>13, DecType DEF RemoveSync, TypeOK, NumberType, born, result, client, errors,
         network, app, rest, hands
    <2>3. SetType'
      BY <1>13 DEF RemoveSync, TypeOK, SetType, born, result, client, errors, network, app,
         rest, hands, Shape, CurShape, CarryShape, Threads, Calls
    <2>4. ThreadType'
      BY <1>13 DEF RemoveSync, TypeOK, ThreadType, born, result, client, errors, network,
         app, rest, hands, Threads, Sync, Calls, Pcs, OpNames, Shape, CurShape,
         CarryShape, OpShape, FlushPcs, CleanupPcs
    <2> QED BY <2>1, <2>2, <2>3, <2>4, TypePartsNext
  <1>14. ASSUME NEW u \in Users, DropOwn(u) PROVE TypeOK'
    <2>1. SetType' /\ TxnFlags' /\ ClientFlags' /\ ErrorFlags' /\ NetworkFlags'
      BY <1>14 DEF DropOwn, TypeOK, SetType, TxnFlags, ClientFlags, ErrorFlags,
         NetworkFlags, born, lists, client, errors, network, app, rest, hands
    <2>2. NumberType'
      <3>1. ref' \in [Txns -> Int] BY <1>14, DecType DEF DropOwn, TypeOK
      <3>2. reports' \in [Txns -> Nat]
        <4>1. cur[u] \in Txns
          BY <1>14 DEF DropOwn, TypeOK, Shape, OpShape, CurShape, Sync, Calls
        <4> QED BY <1>14, <4>1 DEF DropOwn, TypeOK
      <3>3. id' = id /\ nextId' = nextId /\ cref' = cref BY <1>14 DEF DropOwn, born, lists, rest, client
      <3> QED BY <3>1, <3>2, <3>3 DEF NumberType, TypeOK
    <2>3. ThreadType'
      BY <1>14 DEF DropOwn, TypeOK, ThreadType, born, lists, client, errors, network, app,
         rest, hands, Threads, Sync, Calls, Pcs, OpNames, Shape, CurShape, CarryShape,
         OpShape, FlushPcs, CleanupPcs
    <2> QED BY <2>1, <2>2, <2>3, TypePartsNext
  <1>15. ASSUME NEW u \in Users, AsyncFails(u) PROVE TypeOK'
    <2>1. TxnFlags' /\ ClientFlags' /\ ErrorFlags' /\ NetworkFlags'
      BY <1>15 DEF AsyncFails, TypeOK, TxnFlags, ClientFlags, ErrorFlags, NetworkFlags,
         born, client, errors, network, app, rest, hands
    <2>2. NumberType'
      BY <1>15, DecType DEF AsyncFails, TypeOK, NumberType, born, client, errors, network,
         app, rest, hands
    <2>3. SetType'
      BY <1>15 DEF AsyncFails, TypeOK, SetType, born, client, errors, network, app, rest,
         hands, Shape, CurShape, CarryShape, Threads, Calls
    <2>4. ThreadType'
      BY <1>15 DEF AsyncFails, TypeOK, ThreadType, born, client, errors, network, app, rest,
         hands, Threads, Sync, Calls, Pcs, OpNames, Shape, CurShape, CarryShape,
         OpShape, FlushPcs, CleanupPcs
    <2> QED BY <2>1, <2>2, <2>3, <2>4, TypePartsNext
  <1>16. ASSUME NEW u \in Users, PutRef(u) PROVE TypeOK'
    <2>1. TxnFlags' /\ ErrorFlags' /\ NetworkFlags'
      BY <1>16 DEF PutRef, TypeOK, TxnFlags, ErrorFlags, NetworkFlags, born, result,
         txnVars, lists, errors, network, hands
    <2>2. NumberType'
      BY <1>16 DEF PutRef, TypeOK, NumberType, born, result, txnVars, lists, errors,
         network, hands, PutClient
    <2>3. SetType'
      BY <1>16 DEF PutRef, TypeOK, SetType, born, result, txnVars, lists, errors, network,
         hands, Shape, OpShape, CurShape, Calls
    <2>4. ClientFlags'
      BY <1>16 DEF PutRef, TypeOK, ClientFlags, born, result, txnVars, lists, errors,
         network, hands, PutClient
    <2>5. ThreadType'
      BY <1>16 DEF PutRef, TypeOK, ThreadType, born, result, txnVars, lists, errors,
         network, hands, Threads, Sync, Calls, Pcs, OpNames, Shape, CurShape,
         CarryShape, OpShape, FlushPcs, CleanupPcs
    <2> QED BY <2>1, <2>2, <2>3, <2>4, <2>5, TypePartsNext
  <1>17. ASSUME NEW u \in Users, BeginDelete(u) PROVE TypeOK'
    <2>1. SetType' /\ TxnFlags' /\ ClientFlags' /\ ErrorFlags' /\ NetworkFlags'
      BY <1>17 DEF BeginDelete, TypeOK, SetType, TxnFlags, ClientFlags, ErrorFlags,
         NetworkFlags, born, result, txnVars, lists, errors, network, hands
    <2>2. NumberType'
      BY <1>17 DEF BeginDelete, TypeOK, NumberType, born, result, txnVars, lists, errors,
         network, hands, GetRef
    <2>3. ThreadType'
      BY <1>17 DEF BeginDelete, TypeOK, ThreadType, born, result, txnVars, lists, errors,
         network, hands, GetRef, Threads, Sync, Calls, Pcs, OpNames, Shape, CurShape,
         CarryShape, OpShape, FlushPcs, CleanupPcs
    <2> QED BY <2>1, <2>2, <2>3, TypePartsNext
  <1>18. ASSUME NEW u \in Users, DeleteQueued(u) PROVE TypeOK'
    <2>1. NumberType' /\ TxnFlags' /\ ClientFlags' /\ ErrorFlags' /\ NetworkFlags'
      BY <1>18 DEF DeleteQueued, TypeOK, NumberType, TxnFlags, ClientFlags, ErrorFlags,
         NetworkFlags, born, result, txnVars, client, errors, network, app, rest
    <2>2. SetType'
      BY <1>18 DEF DeleteQueued, TypeOK, SetType, born, result, txnVars, client, errors,
         network, app, rest, Shape, CurShape, CarryShape, Threads, Calls
    <2>3. ThreadType'
      BY <1>18 DEF DeleteQueued, TypeOK, ThreadType, born, result, txnVars, client, errors,
         network, app, rest, Threads, Sync, Calls, Pcs, OpNames, Shape, CurShape,
         CarryShape, OpShape, FlushPcs, CleanupPcs
    <2> QED BY <2>1, <2>2, <2>3, TypePartsNext
  <1>19. ASSUME NEW u \in Users, DeleteGive(u) PROVE TypeOK'
    <2>1. SetType' /\ TxnFlags' /\ ClientFlags' /\ ErrorFlags' /\ NetworkFlags'
      BY <1>19 DEF DeleteGive, TypeOK, SetType, TxnFlags, ClientFlags, ErrorFlags,
         NetworkFlags, born, result, lists, client, errors, network, app, rest
    <2>2. NumberType'
      BY <1>19, DecType DEF DeleteGive, TypeOK, NumberType, born, result, lists, client,
         errors, network, app, rest
    <2>3. ThreadType'
      BY <1>19 DEF DeleteGive, TypeOK, ThreadType, born, result, lists, client, errors,
         network, app, rest, Threads, Sync, Calls, Pcs, OpNames, Shape, CurShape,
         CarryShape, OpShape, FlushPcs, CleanupPcs
    <2> QED BY <2>1, <2>2, <2>3, TypePartsNext
  <1>20. ASSUME NEW u \in Users, DeleteListed(u) PROVE TypeOK'
    <2>1. TxnFlags' /\ ClientFlags' /\ ErrorFlags' /\ NetworkFlags'
      BY <1>20 DEF DeleteListed, TypeOK, TxnFlags, ClientFlags, ErrorFlags, NetworkFlags,
         born, client, errors, network, app, rest
    <2>2. NumberType'
      BY <1>20 DEF DeleteListed, TypeOK, NumberType, born, client, errors, network, app,
         rest
    <2>3. SetType'
      BY <1>20 DEF DeleteListed, TypeOK, SetType, born, client, errors, network, app, rest,
         Shape, CurShape, CarryShape, Threads, Calls
    <2>4. ThreadType'
      BY <1>20, SMTT(30) DEF DeleteListed, TypeOK, ThreadType, born, client, errors, network, app,
         rest, Threads, Sync, Calls, Pcs, OpNames, Shape, CurShape, CarryShape, OpShape,
         FlushPcs, CleanupPcs
    <2> QED BY <2>1, <2>2, <2>3, <2>4, TypePartsNext
  <1>21. ASSUME NEW u \in Users, DeleteDrop(u) PROVE TypeOK'
    <2>1. SetType' /\ ClientFlags' /\ ErrorFlags' /\ NetworkFlags'
      BY <1>21 DEF DeleteDrop, TypeOK, SetType, ClientFlags, ErrorFlags, NetworkFlags, born,
         result, lists, client, errors, network, app, rest
    <2>2. NumberType'
      BY <1>21, DecType DEF DeleteDrop, TypeOK, NumberType, born, result, lists, client,
         errors, network, app, rest
    <2>3. TxnFlags'
      BY <1>21, BoolPoint DEF DeleteDrop, TypeOK, TxnFlags, born, result, lists, client,
         errors, network, app, rest
    <2>4. ThreadType'
      BY <1>21 DEF DeleteDrop, TypeOK, ThreadType, born, result, lists, client, errors,
         network, app, rest, Threads, Sync, Calls, Pcs, OpNames, Shape, CurShape,
         CarryShape, OpShape, FlushPcs, CleanupPcs
    <2> QED BY <2>1, <2>2, <2>3, <2>4, TypePartsNext
  <1>22. ASSUME NEW u \in Users, BeginRelease(u) PROVE TypeOK'
    <2>1. SetType' /\ TxnFlags' /\ ClientFlags' /\ ErrorFlags' /\ NetworkFlags'
      BY <1>22 DEF BeginRelease, TypeOK, SetType, TxnFlags, ClientFlags, ErrorFlags,
         NetworkFlags, born, result, txnVars, lists, errors, network, hands
    <2>2. NumberType'
      BY <1>22 DEF BeginRelease, TypeOK, NumberType, born, result, txnVars, lists, errors,
         network, hands, GetRef
    <2>3. ThreadType'
      BY <1>22 DEF BeginRelease, TypeOK, ThreadType, born, result, txnVars, lists, errors,
         network, hands, GetRef, Threads, Sync, Calls, Pcs, OpNames, Shape, CurShape,
         CarryShape, OpShape, FlushPcs, CleanupPcs
    <2> QED BY <2>1, <2>2, <2>3, TypePartsNext
  <1>23. ASSUME NEW u \in Users, EndProbe(u) PROVE TypeOK'
    <2>1. SetType' /\ TxnFlags' /\ ErrorFlags' /\ NetworkFlags'
      BY <1>23 DEF EndProbe, TypeOK, SetType, TxnFlags, ErrorFlags, NetworkFlags, born,
         result, txnVars, lists, errors, network, app, hands
    <2>2. NumberType'
      BY <1>23 DEF EndProbe, TypeOK, NumberType, born, result, txnVars, lists, errors,
         network, app, hands, PutClient
    <2>3. ClientFlags'
      BY <1>23 DEF EndProbe, TypeOK, ClientFlags, born, result, txnVars, lists, errors,
         network, app, hands, PutClient
    <2>4. ThreadType'
      BY <1>23 DEF EndProbe, TypeOK, ThreadType, born, result, txnVars, lists, errors,
         network, app, hands, Threads, Sync, Calls, Pcs, OpNames, Shape, CurShape,
         CarryShape, OpShape, FlushPcs, CleanupPcs
    <2> QED BY <2>1, <2>2, <2>3, <2>4, TypePartsNext
  <1>24. ASSUME NEW u \in Users, Unlink(u) PROVE TypeOK'
    <2>1. SetType' /\ TxnFlags' /\ ErrorFlags' /\ NetworkFlags'
      BY <1>24 DEF Unlink, TypeOK, SetType, TxnFlags, ErrorFlags, NetworkFlags, born,
         result, txnVars, lists, errors, network, app, hands
    <2>2. NumberType'
      BY <1>24 DEF Unlink, TypeOK, NumberType, born, result, txnVars, lists, errors,
         network, app, hands
    <2>3. ClientFlags'
      BY <1>24 DEF Unlink, TypeOK, ClientFlags, born, result, txnVars, lists, errors,
         network, app, hands
    <2>4. ThreadType'
      BY <1>24 DEF Unlink, TypeOK, ThreadType, born, result, txnVars, lists, errors,
         network, app, hands, Threads, Sync, Calls, Pcs, OpNames, Shape, CurShape,
         CarryShape, OpShape, FlushPcs, CleanupPcs
    <2> QED BY <2>1, <2>2, <2>3, <2>4, TypePartsNext
  <1>25. ASSUME NEW u \in Users, NoRelease(u) PROVE TypeOK'
    <2>1. NumberType' /\ SetType' /\ TxnFlags' /\ ClientFlags' /\ ErrorFlags' /\
      NetworkFlags'
      BY <1>25 DEF NoRelease, TypeOK, NumberType, SetType, TxnFlags, ClientFlags,
         ErrorFlags, NetworkFlags, born, result, txnVars, lists, client, errors,
         network, hands
    <2>2. ThreadType'
      BY <1>25 DEF NoRelease, TypeOK, ThreadType, born, result, txnVars, lists, client,
         errors, network, hands, Threads, Sync, Calls, Pcs, OpNames, Shape, CurShape,
         CarryShape, OpShape, FlushPcs, CleanupPcs
    <2> QED BY <2>1, <2>2, TypePartsNext
  <1>26. ASSUME NEW u \in Users, BeginReleaseAsync(u) PROVE TypeOK'
    <2>1. SetType' /\ TxnFlags' /\ ErrorFlags' /\ NetworkFlags'
      BY <1>26 DEF BeginReleaseAsync, TypeOK, SetType, TxnFlags, ErrorFlags, NetworkFlags,
         born, result, txnVars, lists, errors, network, hands
    <2>2. NumberType'
      BY <1>26 DEF BeginReleaseAsync, TypeOK, NumberType, born, result, txnVars, lists,
         errors, network, hands, GetRef
    <2>3. ClientFlags'
      BY <1>26 DEF BeginReleaseAsync, TypeOK, ClientFlags, born, result, txnVars, lists,
         errors, network, hands
    <2>4. ThreadType'
      BY <1>26 DEF BeginReleaseAsync, TypeOK, ThreadType, born, result, txnVars, lists,
         errors, network, hands, GetRef, Threads, Sync, Calls, Pcs, OpNames, Shape,
         CurShape, CarryShape, OpShape, FlushPcs, CleanupPcs
    <2> QED BY <2>1, <2>2, <2>3, <2>4, TypePartsNext
  <1>27. ASSUME NEW u \in Users, ReleaseStop(u) PROVE TypeOK'
    <2>1. NumberType' /\ SetType' /\ TxnFlags' /\ ErrorFlags' /\ NetworkFlags'
      BY <1>27 DEF ReleaseStop, TypeOK, NumberType, SetType, TxnFlags, ErrorFlags,
         NetworkFlags, born, result, txnVars, lists, errors, network, app, hands
    <2>2. ClientFlags'
      BY <1>27 DEF ReleaseStop, TypeOK, ClientFlags, born, result, txnVars, lists, errors,
         network, app, hands
    <2>3. ThreadType'
      BY <1>27 DEF ReleaseStop, TypeOK, ThreadType, born, result, txnVars, lists, errors,
         network, app, hands, Threads, Sync, Calls, Pcs, OpNames, Shape, CurShape,
         CarryShape, OpShape, FlushPcs, CleanupPcs
    <2> QED BY <2>1, <2>2, <2>3, TypePartsNext
  <1>28. ASSUME NEW u \in Users, ReleaseClose(u) PROVE TypeOK'
    <2>1. NumberType' /\ SetType' /\ TxnFlags' /\ ErrorFlags'
      BY <1>28 DEF ReleaseClose, TypeOK, NumberType, SetType, TxnFlags, ErrorFlags, born,
         result, txnVars, lists, errors, app, hands
    <2>2. ClientFlags'
      BY <1>28 DEF ReleaseClose, TypeOK, ClientFlags, born, result, txnVars, lists, errors,
         app, hands
    <2>3. NetworkFlags'
      BY <1>28 DEF ReleaseClose, TypeOK, NetworkFlags, born, result, txnVars, lists, errors,
         app, hands
    <2>4. ThreadType'
      BY <1>28 DEF ReleaseClose, TypeOK, ThreadType, born, result, txnVars, lists, errors,
         app, hands, Threads, Sync, Calls, Pcs, OpNames, Shape, CurShape, CarryShape,
         OpShape, FlushPcs, CleanupPcs
    <2> QED BY <2>1, <2>2, <2>3, <2>4, TypePartsNext
  <1>29. ASSUME NEW u \in Users, Unblock(u) PROVE TypeOK'
    <2>1. NumberType' /\ SetType' /\ TxnFlags' /\ ClientFlags' /\ ErrorFlags' /\
      NetworkFlags'
      BY <1>29 DEF Unblock, TypeOK, NumberType, SetType, TxnFlags, ClientFlags, ErrorFlags,
         NetworkFlags, born, result, txnVars, lists, client, errors, network, app, rest,
         hands
    <2>2. ThreadType'
      BY <1>29 DEF Unblock, TypeOK, ThreadType, born, result, txnVars, lists, client,
         errors, network, app, rest, hands, Threads, Sync, Calls, Pcs, OpNames, Shape,
         CurShape, CarryShape, OpShape, FlushPcs, CleanupPcs
    <2> QED BY <2>1, <2>2, TypePartsNext
  <1>30. ASSUME NEW u \in Users, BeginRegister(u) PROVE TypeOK'
    <2>1. SetType' /\ TxnFlags' /\ ClientFlags' /\ ErrorFlags' /\ NetworkFlags'
      BY <1>30 DEF BeginRegister, TypeOK, SetType, TxnFlags, ClientFlags, ErrorFlags,
         NetworkFlags, born, result, txnVars, lists, errors, network, hands
    <2>2. NumberType'
      BY <1>30 DEF BeginRegister, TypeOK, NumberType, born, result, txnVars, lists, errors,
         network, hands, GetRef
    <2>3. ThreadType'
      BY <1>30 DEF BeginRegister, TypeOK, ThreadType, born, result, txnVars, lists, errors,
         network, hands, GetRef, Threads, Sync, Calls, Pcs, OpNames, Shape, CurShape,
         CarryShape, OpShape, FlushPcs, CleanupPcs
    <2> QED BY <2>1, <2>2, <2>3, TypePartsNext
  <1>31. ASSUME NEW u \in Users, RegisterErrorCb(u) PROVE TypeOK'
    <2>1. NumberType' /\ SetType' /\ TxnFlags' /\ ClientFlags' /\ NetworkFlags'
      BY <1>31 DEF RegisterErrorCb, TypeOK, NumberType, SetType, TxnFlags, ClientFlags,
         NetworkFlags, born, result, txnVars, lists, client, network, app, hands
    <2>2. ErrorFlags'
      BY <1>31 DEF RegisterErrorCb, TypeOK, ErrorFlags, born, result, txnVars, lists,
         client, network, app, hands
    <2>3. ThreadType'
      BY <1>31 DEF RegisterErrorCb, TypeOK, ThreadType, born, result, txnVars, lists,
         client, network, app, hands, Threads, Sync, Calls, Pcs, OpNames, Shape,
         CurShape, CarryShape, OpShape, FlushPcs, CleanupPcs
    <2> QED BY <2>1, <2>2, <2>3, TypePartsNext
  <1>32. ASSUME NEW u \in Users, RegisterCall(u) PROVE TypeOK'
    <2>1. NumberType' /\ SetType' /\ TxnFlags' /\ ClientFlags' /\ NetworkFlags'
      BY <1>32 DEF RegisterCall, TypeOK, NumberType, SetType, TxnFlags, ClientFlags,
         NetworkFlags, born, result, txnVars, lists, client, network, app, hands
    <2>2. ErrorFlags'
      BY <1>32 DEF RegisterCall, TypeOK, ErrorFlags, born, result, txnVars, lists, client,
         network, app, hands
    <2>3. ThreadType'
      BY <1>32 DEF RegisterCall, TypeOK, ThreadType, born, result, txnVars, lists, client,
         network, app, hands, Threads, Sync, Calls, Pcs, OpNames, Shape, CurShape,
         CarryShape, OpShape, FlushPcs, CleanupPcs
    <2> QED BY <2>1, <2>2, <2>3, TypePartsNext
  <1>33. ASSUME NEW th \in Users \cup {Loss, Resumer}, CleanupQueue(th) PROVE TypeOK'
    <2>1. NumberType' /\ TxnFlags' /\ ClientFlags' /\ ErrorFlags' /\ NetworkFlags'
      BY <1>33 DEF CleanupQueue, TypeOK, NumberType, TxnFlags, ClientFlags, ErrorFlags,
         NetworkFlags, born, result, txnVars, client, errors, network, app, rest
    <2>2. SetType'
      BY <1>33 DEF CleanupQueue, TypeOK, SetType, born, result, txnVars, client, errors,
         network, app, rest, Shape, CurShape, CarryShape, Threads, Calls
    <2>3. ThreadType'
      BY <1>33 DEF CleanupQueue, TypeOK, ThreadType, born, result, txnVars, client, errors,
         network, app, rest, Threads, Sync, Calls, Pcs, OpNames, Shape, CurShape,
         CarryShape, OpShape, FlushPcs, CleanupPcs
    <2> QED BY <2>1, <2>2, <2>3, TypePartsNext
  <1>34. ASSUME NEW th \in Users \cup {Loss, Resumer}, CleanupGive(th) PROVE TypeOK'
    <2>1. SetType' /\ TxnFlags' /\ ClientFlags' /\ ErrorFlags' /\ NetworkFlags'
      BY <1>34 DEF CleanupGive, TypeOK, SetType, TxnFlags, ClientFlags, ErrorFlags,
         NetworkFlags, born, result, lists, client, errors, network, app, rest
    <2>2. NumberType'
      BY <1>34, DecType DEF CleanupGive, TypeOK, NumberType, born, result, lists, client,
         errors, network, app, rest
    <2>3. ThreadType'
      BY <1>34 DEF CleanupGive, TypeOK, ThreadType, born, result, lists, client, errors,
         network, app, rest, Threads, Sync, Calls, Pcs, OpNames, Shape, CurShape,
         CarryShape, OpShape, FlushPcs, CleanupPcs
    <2> QED BY <2>1, <2>2, <2>3, TypePartsNext
  <1>35. ASSUME NEW th \in Users \cup {Loss, Resumer}, CleanupList(th) PROVE TypeOK'
    <2>1. NumberType' /\ TxnFlags' /\ ClientFlags' /\ ErrorFlags' /\ NetworkFlags'
      BY <1>35 DEF CleanupList, TypeOK, NumberType, TxnFlags, ClientFlags, ErrorFlags,
         NetworkFlags, born, result, txnVars, client, errors, network, app, rest
    <2>2. SetType'
      BY <1>35 DEF CleanupList, TypeOK, SetType, born, result, txnVars, client, errors,
         network, app, rest, Shape, CurShape, CarryShape, Threads, Calls
    <2>3. ThreadType'
      BY <1>35 DEF CleanupList, TypeOK, ThreadType, born, result, txnVars, client, errors,
         network, app, rest, AfterCleanup, AfterFlush, Threads, Sync, Calls, Pcs,
         OpNames, Shape, CurShape, CarryShape, OpShape, FlushPcs, CleanupPcs
    <2> QED BY <2>1, <2>2, <2>3, TypePartsNext
  <1>36. ASSUME NEW th \in Users \cup {Loss, Resumer}, CleanupFail(th) PROVE TypeOK'
    <2>1. SetType' /\ ClientFlags' /\ ErrorFlags' /\ NetworkFlags'
      BY <1>36 DEF CleanupFail, TypeOK, SetType, ClientFlags, ErrorFlags, NetworkFlags,
         born, lists, client, errors, network, app, rest
    <2>2. NumberType'
      BY <1>36, FailType DEF CleanupFail, TypeOK, NumberType, born, lists, client, errors,
         network, app, rest
    <2>3. TxnFlags'
      BY <1>36, FailType, BoolPoint DEF CleanupFail, TypeOK, TxnFlags, born, lists, client,
         errors, network, app, rest
    <2>4. ThreadType'
      BY <1>36 DEF CleanupFail, TypeOK, ThreadType, born, lists, client, errors, network,
         app, rest, Threads, Sync, Calls, Pcs, OpNames, Shape, CurShape, CarryShape,
         OpShape, FlushPcs, CleanupPcs
    <2> QED BY <2>1, <2>2, <2>3, <2>4, TypePartsNext
  <1>37. ASSUME NEW th \in Users \cup {Loss, Resumer}, CleanupDrop(th) PROVE TypeOK'
    <2>1. SetType' /\ ClientFlags' /\ ErrorFlags' /\ NetworkFlags'
      BY <1>37 DEF CleanupDrop, TypeOK, SetType, ClientFlags, ErrorFlags, NetworkFlags,
         born, result, lists, client, errors, network, app, rest
    <2>2. NumberType'
      BY <1>37, DecType DEF CleanupDrop, TypeOK, NumberType, born, result, lists, client,
         errors, network, app, rest
    <2>3. TxnFlags'
      BY <1>37, BoolPoint DEF CleanupDrop, TypeOK, TxnFlags, born, result, lists, client,
         errors, network, app, rest
    <2>4. ThreadType'
      BY <1>37 DEF CleanupDrop, TypeOK, ThreadType, born, result, lists, client, errors,
         network, app, rest, AfterCleanup, AfterFlush, Threads, Sync, Calls, Pcs,
         OpNames, Shape, CurShape, CarryShape, OpShape, FlushPcs, CleanupPcs
    <2> QED BY <2>1, <2>2, <2>3, <2>4, TypePartsNext
  <1>38. ASSUME NEW th \in Users \cup {Loss, Resumer}, FlushAddress(th) PROVE TypeOK'
    <2>1. NumberType' /\ SetType' /\ TxnFlags' /\ ClientFlags' /\ ErrorFlags' /\
      NetworkFlags'
      BY <1>38 DEF FlushAddress, TypeOK, NumberType, SetType, TxnFlags, ClientFlags,
         ErrorFlags, NetworkFlags, born, result, txnVars, lists, client, errors,
         network, app, rest, hands
    <2>2. ThreadType'
      BY <1>38 DEF FlushAddress, TypeOK, ThreadType, born, result, txnVars, lists, client,
         errors, network, app, rest, hands, Threads, Sync, Calls, Pcs, OpNames, Shape,
         CurShape, CarryShape, OpShape, FlushPcs, CleanupPcs
    <2> QED BY <2>1, <2>2, TypePartsNext
  <1>39. ASSUME NEW th \in Users \cup {Loss, Resumer}, FlushEnd(th) PROVE TypeOK'
    <2>1. NumberType' /\ SetType' /\ TxnFlags' /\ ClientFlags' /\ ErrorFlags' /\
      NetworkFlags'
      BY <1>39 DEF FlushEnd, TypeOK, NumberType, SetType, TxnFlags, ClientFlags, ErrorFlags,
         NetworkFlags, born, result, txnVars, lists, client, errors, network, app, rest,
         hands
    <2>2. ThreadType'
      BY <1>39 DEF FlushEnd, TypeOK, ThreadType, born, result, txnVars, lists, client,
         errors, network, app, rest, hands, AfterFlush, Threads, Sync, Calls, Pcs,
         OpNames, Shape, CurShape, CarryShape, OpShape, FlushPcs, CleanupPcs
    <2> QED BY <2>1, <2>2, TypePartsNext
  <1>40. ASSUME NEW th \in Users \cup {Loss, Resumer}, FlushBusy(th) PROVE TypeOK'
    <2>1. NumberType' /\ SetType' /\ TxnFlags' /\ ClientFlags' /\ ErrorFlags'
      BY <1>40 DEF FlushBusy, TypeOK, NumberType, SetType, TxnFlags, ClientFlags,
         ErrorFlags, born, result, txnVars, lists, client, errors, app, hands
    <2>2. NetworkFlags'
      BY <1>40 DEF FlushBusy, TypeOK, NetworkFlags, born, result, txnVars, lists, client,
         errors, app, hands
    <2>3. ThreadType'
      BY <1>40 DEF FlushBusy, TypeOK, ThreadType, born, result, txnVars, lists, client,
         errors, app, hands, AfterFlush, Threads, Sync, Calls, Pcs, OpNames, Shape,
         CurShape, CarryShape, OpShape, FlushPcs, CleanupPcs
    <2> QED BY <2>1, <2>2, <2>3, TypePartsNext
  <1>41. ASSUME NEW th \in Users \cup {Loss, Resumer}, FlushSend(th) PROVE TypeOK'
    <2>1. NumberType' /\ TxnFlags' /\ ClientFlags' /\ ErrorFlags' /\ NetworkFlags'
      BY <1>41 DEF FlushSend, TypeOK, NumberType, TxnFlags, ClientFlags, ErrorFlags,
         NetworkFlags, born, result, txnVars, client, errors, app
    <2>2. SetType'
      BY <1>41 DEF FlushSend, TypeOK, SetType, born, result, txnVars, client, errors, app,
         Shape, CurShape, CarryShape, Threads, Calls
    <2>3. ThreadType'
      BY <1>41 DEF FlushSend, TypeOK, ThreadType, born, result, txnVars, client, errors,
         app, Threads, Sync, Calls, Pcs, OpNames, Shape, CurShape, CarryShape, OpShape,
         FlushPcs, CleanupPcs
    <2> QED BY <2>1, <2>2, <2>3, TypePartsNext
  <1>42. ASSUME NEW th \in Users \cup {Loss, Resumer}, FlushGive(th) PROVE TypeOK'
    <2>1. SetType' /\ TxnFlags' /\ ClientFlags' /\ ErrorFlags' /\ NetworkFlags'
      BY <1>42 DEF FlushGive, TypeOK, SetType, TxnFlags, ClientFlags, ErrorFlags,
         NetworkFlags, born, result, lists, client, errors, network, app, rest
    <2>2. NumberType'
      BY <1>42, DecType DEF FlushGive, TypeOK, NumberType, born, result, lists, client,
         errors, network, app, rest
    <2>3. ThreadType'
      BY <1>42 DEF FlushGive, TypeOK, ThreadType, born, result, lists, client, errors,
         network, app, rest, Threads, Sync, Calls, Pcs, OpNames, Shape, CurShape,
         CarryShape, OpShape, FlushPcs, CleanupPcs
    <2> QED BY <2>1, <2>2, <2>3, TypePartsNext
  <1>43. ASSUME NEW th \in Users \cup {Loss, Resumer}, FlushFind(th) PROVE TypeOK'
    <2>1. NumberType' /\ TxnFlags' /\ ClientFlags' /\ ErrorFlags' /\ NetworkFlags'
      BY <1>43 DEF FlushFind, TypeOK, NumberType, TxnFlags, ClientFlags, ErrorFlags,
         NetworkFlags, born, result, txnVars, client, errors, network, app, rest
    <2>2. SetType'
      BY <1>43 DEF FlushFind, TypeOK, SetType, born, result, txnVars, client, errors,
         network, app, rest, Shape, CurShape, CarryShape, Threads, Calls
    <2>3. ThreadType'
      BY <1>43 DEF FlushFind, TypeOK, ThreadType, born, result, txnVars, client, errors,
         network, app, rest, Threads, Sync, Calls, Pcs, OpNames, Shape, CurShape,
         CarryShape, OpShape, FlushPcs, CleanupPcs
    <2> QED BY <2>1, <2>2, <2>3, TypePartsNext
  <1>44. ASSUME NEW th \in Users \cup {Loss, Resumer}, FlushFail(th) PROVE TypeOK'
    <2>1. SetType' /\ ClientFlags' /\ ErrorFlags' /\ NetworkFlags'
      BY <1>44 DEF FlushFail, TypeOK, SetType, ClientFlags, ErrorFlags, NetworkFlags, born,
         lists, client, errors, network, app, rest, hands
    <2>2. NumberType'
      BY <1>44, FailType DEF FlushFail, TypeOK, NumberType, born, lists, client, errors,
         network, app, rest, hands
    <2>3. TxnFlags'
      BY <1>44, FailType, BoolPoint DEF FlushFail, TypeOK, TxnFlags, born, lists, client,
         errors, network, app, rest, hands
    <2>4. ThreadType'
      BY <1>44 DEF FlushFail, TypeOK, ThreadType, born, lists, client, errors, network, app,
         rest, hands, Threads, Sync, Calls, Pcs, OpNames, Shape, CurShape, CarryShape,
         OpShape, FlushPcs, CleanupPcs
    <2> QED BY <2>1, <2>2, <2>3, <2>4, TypePartsNext
  <1>45. ASSUME NEW th \in Users \cup {Loss, Resumer}, FlushDrop(th) PROVE TypeOK'
    <2>1. SetType' /\ TxnFlags' /\ ClientFlags' /\ ErrorFlags' /\ NetworkFlags'
      BY <1>45 DEF FlushDrop, TypeOK, SetType, TxnFlags, ClientFlags, ErrorFlags,
         NetworkFlags, born, result, lists, client, errors, network, app, rest
    <2>2. NumberType'
      BY <1>45, DecType DEF FlushDrop, TypeOK, NumberType, born, result, lists, client,
         errors, network, app, rest
    <2>3. ThreadType'
      BY <1>45 DEF FlushDrop, TypeOK, ThreadType, born, result, lists, client, errors,
         network, app, rest, Threads, Sync, Calls, Pcs, OpNames, Shape, CurShape,
         CarryShape, OpShape, FlushPcs, CleanupPcs
    <2> QED BY <2>1, <2>2, <2>3, TypePartsNext
  <1>46. ASSUME LoseServer PROVE TypeOK'
    <2>1. NumberType' /\ SetType' /\ TxnFlags' /\ ErrorFlags'
      BY <1>46 DEF LoseServer, TypeOK, NumberType, SetType, TxnFlags, ErrorFlags, born,
         result, txnVars, lists, errors, hands
    <2>2. ClientFlags'
      BY <1>46 DEF LoseServer, TypeOK, ClientFlags, born, result, txnVars, lists, errors,
         hands
    <2>3. NetworkFlags'
      BY <1>46 DEF LoseServer, TypeOK, NetworkFlags, born, result, txnVars, lists, errors,
         hands
    <2>4. ThreadType'
      BY <1>46 DEF LoseServer, TypeOK, ThreadType, born, result, txnVars, lists, errors,
         hands, Threads, Sync, Calls, Pcs, OpNames, Shape, CurShape, CarryShape,
         OpShape, FlushPcs, CleanupPcs
    <2> QED BY <2>1, <2>2, <2>3, <2>4, TypePartsNext
  <1>47. ASSUME Notify PROVE TypeOK'
    <2>1. NumberType' /\ SetType' /\ TxnFlags' /\ ClientFlags' /\ NetworkFlags'
      BY <1>47 DEF Notify, TypeOK, NumberType, SetType, TxnFlags, ClientFlags, NetworkFlags,
         born, result, txnVars, lists, client, network, app, hands
    <2>2. ErrorFlags'
      BY <1>47 DEF Notify, TypeOK, ErrorFlags, born, result, txnVars, lists, client,
         network, app, hands
    <2>3. ThreadType'
      BY <1>47 DEF Notify, TypeOK, ThreadType, born, result, txnVars, lists, client,
         network, app, hands, Threads, Sync, Calls, Pcs, OpNames, Shape, CurShape,
         CarryShape, OpShape, FlushPcs, CleanupPcs
    <2> QED BY <2>1, <2>2, <2>3, TypePartsNext
  <1>48. ASSUME ErrorCall PROVE TypeOK'
    <2>1. NumberType' /\ SetType' /\ TxnFlags' /\ ClientFlags' /\ NetworkFlags'
      BY <1>48 DEF ErrorCall, TypeOK, NumberType, SetType, TxnFlags, ClientFlags,
         NetworkFlags, born, result, txnVars, lists, client, network, app, hands
    <2>2. ErrorFlags'
      BY <1>48 DEF ErrorCall, TypeOK, ErrorFlags, born, result, txnVars, lists, client,
         network, app, hands
    <2>3. ThreadType'
      BY <1>48 DEF ErrorCall, TypeOK, ThreadType, born, result, txnVars, lists, client,
         network, app, hands, Threads, Sync, Calls, Pcs, OpNames, Shape, CurShape,
         CarryShape, OpShape, FlushPcs, CleanupPcs
    <2> QED BY <2>1, <2>2, <2>3, TypePartsNext
  <1>49. ASSUME Resume PROVE TypeOK'
    <2>1. NumberType' /\ SetType' /\ TxnFlags' /\ ClientFlags' /\ ErrorFlags'
      BY <1>49 DEF Resume, TypeOK, NumberType, SetType, TxnFlags, ClientFlags, ErrorFlags,
         born, result, txnVars, lists, client, errors, app, hands
    <2>2. NetworkFlags'
      BY <1>49 DEF Resume, TypeOK, NetworkFlags, born, result, txnVars, lists, client,
         errors, app, hands
    <2>3. ThreadType'
      BY <1>49 DEF Resume, TypeOK, ThreadType, born, result, txnVars, lists, client, errors,
         app, hands, Threads, Sync, Calls, Pcs, OpNames, Shape, CurShape, CarryShape,
         OpShape, FlushPcs, CleanupPcs
    <2> QED BY <2>1, <2>2, <2>3, TypePartsNext
  <1>50. ASSUME Closed PROVE TypeOK'
    <2>1. SetType' /\ TxnFlags' /\ ErrorFlags' /\ ThreadType'
      BY <1>50 DEF Closed, TypeOK, SetType, TxnFlags, ErrorFlags, ThreadType, born, result,
         txnVars, lists, errors, app, hands
    <2>2. NumberType'
      BY <1>50 DEF Closed, TypeOK, NumberType, born, result, txnVars, lists, errors, app,
         hands, PutClient
    <2>3. ClientFlags'
      BY <1>50 DEF Closed, TypeOK, ClientFlags, born, result, txnVars, lists, errors, app,
         hands, PutClient
    <2>4. NetworkFlags'
      BY <1>50 DEF Closed, TypeOK, NetworkFlags, born, result, txnVars, lists, errors, app,
         hands
    <2> QED BY <2>1, <2>2, <2>3, <2>4, TypePartsNext
  <1>51. ASSUME Receive PROVE TypeOK'
    <2>1. NumberType' /\ TxnFlags' /\ ClientFlags' /\ ErrorFlags' /\ NetworkFlags'
      BY <1>51 DEF Receive, TypeOK, NumberType, TxnFlags, ClientFlags, ErrorFlags,
         NetworkFlags, born, result, txnVars, client, errors, hands
    <2>2. SetType'
      BY <1>51 DEF Receive, TypeOK, SetType, born, result, txnVars, client, errors, hands,
         Shape, CurShape, CarryShape, Threads, Calls
    <2>3. ThreadType'
      BY <1>51 DEF Receive, TypeOK, ThreadType, born, result, txnVars, client, errors,
         hands, Threads, Sync, Calls, Pcs, OpNames, Shape, CurShape, CarryShape,
         OpShape, FlushPcs, CleanupPcs
    <2> QED BY <2>1, <2>2, <2>3, TypePartsNext
  <1>52. ASSUME Mismatch PROVE TypeOK'
    <2>1. SetType' /\ ClientFlags' /\ ErrorFlags' /\ NetworkFlags'
      BY <1>52 DEF Mismatch, TypeOK, SetType, ClientFlags, ErrorFlags, NetworkFlags, born,
         lists, client, errors, network, app, rest, hands
    <2>2. NumberType'
      BY <1>52, FailType DEF Mismatch, TypeOK, NumberType, born, lists, client, errors,
         network, app, rest, hands
    <2>3. TxnFlags'
      BY <1>52, FailType, BoolPoint DEF Mismatch, TypeOK, TxnFlags, born, lists, client,
         errors, network, app, rest, hands
    <2>4. ThreadType'
      BY <1>52 DEF Mismatch, TypeOK, ThreadType, born, lists, client, errors, network, app,
         rest, hands, Threads, Sync, Calls, Pcs, OpNames, Shape, CurShape, CarryShape,
         OpShape, FlushPcs, CleanupPcs
    <2> QED BY <2>1, <2>2, <2>3, <2>4, TypePartsNext
  <1>53. ASSUME LockTxn PROVE TypeOK'
    <2>1. NumberType' /\ SetType' /\ TxnFlags' /\ ClientFlags' /\ ErrorFlags' /\
      NetworkFlags'
      BY <1>53 DEF LockTxn, TypeOK, NumberType, SetType, TxnFlags, ClientFlags, ErrorFlags,
         NetworkFlags, born, result, txnVars, lists, client, errors, network, app, rest,
         hands
    <2>2. ThreadType'
      BY <1>53 DEF LockTxn, TypeOK, ThreadType, born, result, txnVars, lists, client,
         errors, network, app, rest, hands, Threads, Sync, Calls, Pcs, OpNames, Shape,
         CurShape, CarryShape, OpShape, FlushPcs, CleanupPcs
    <2> QED BY <2>1, <2>2, TypePartsNext
  <1>54. ASSUME Decode PROVE TypeOK'
    <2>1. SetType' /\ ClientFlags' /\ ErrorFlags' /\ NetworkFlags'
      BY <1>54 DEF Decode, TypeOK, SetType, ClientFlags, ErrorFlags, NetworkFlags, born,
         lists, client, errors, network, app, rest, hands
    <2>2. NumberType'
      BY <1>54 DEF Decode, TypeOK, NumberType, born, lists, client, errors, network, app,
         rest, hands
    <2>3. TxnFlags'
      BY <1>54, BoolPoint DEF Decode, TypeOK, TxnFlags, born, lists, client, errors,
         network, app, rest, hands
    <2>4. ThreadType'
      BY <1>54 DEF Decode, TypeOK, ThreadType, born, lists, client, errors, network, app,
         rest, hands, Threads, Sync, Calls, Pcs, OpNames, Shape, CurShape, CarryShape,
         OpShape, FlushPcs, CleanupPcs
    <2> QED BY <2>1, <2>2, <2>3, <2>4, TypePartsNext
  <1>55. ASSUME ReceiveDrop PROVE TypeOK'
    <2>1. SetType' /\ TxnFlags' /\ ClientFlags' /\ ErrorFlags' /\ NetworkFlags'
      BY <1>55 DEF ReceiveDrop, TypeOK, SetType, TxnFlags, ClientFlags, ErrorFlags,
         NetworkFlags, born, result, lists, client, errors, network
    <2>2. NumberType'
      BY <1>55, DecType DEF ReceiveDrop, TypeOK, NumberType, born, result, lists, client,
         errors, network
    <2>3. ThreadType'
      BY <1>55 DEF ReceiveDrop, TypeOK, ThreadType, born, result, lists, client, errors,
         network, Threads, Sync, Calls, Pcs, OpNames, Shape, CurShape, CarryShape,
         OpShape, FlushPcs, CleanupPcs
    <2> QED BY <2>1, <2>2, <2>3, TypePartsNext
  <1>56. ASSUME OpenPort PROVE TypeOK'
    <2>1. SetType' /\ TxnFlags' /\ ErrorFlags' /\ ThreadType'
      BY <1>56 DEF OpenPort, TypeOK, SetType, TxnFlags, ErrorFlags, ThreadType, born,
         result, txnVars, lists, errors, hands
    <2>2. NumberType'
      BY <1>56 DEF OpenPort, TypeOK, NumberType, born, result, txnVars, lists, errors,
         hands
    <2>3. ClientFlags'
      BY <1>56 DEF OpenPort, TypeOK, ClientFlags, born, result, txnVars, lists, errors,
         hands
    <2>4. NetworkFlags'
      BY <1>56 DEF OpenPort, TypeOK, NetworkFlags, born, result, txnVars, lists, errors,
         hands
    <2> QED BY <2>1, <2>2, <2>3, <2>4, TypePartsNext
  <1>56a. ASSUME AddXport PROVE TypeOK'
    <2>1. SetType' /\ TxnFlags' /\ ErrorFlags' /\ ThreadType'
      BY <1>56a DEF AddXport, TypeOK, SetType, TxnFlags, ErrorFlags, ThreadType, born,
         result, txnVars, lists, errors, network, hands
    <2>2. NumberType'
      BY <1>56a DEF AddXport, TypeOK, NumberType, born, result, txnVars, lists, errors,
         network, hands
    <2>3. ClientFlags'
      BY <1>56a DEF AddXport, TypeOK, ClientFlags, born, result, txnVars, lists, errors,
         network, hands
    <2>4. NetworkFlags'
      BY <1>56a DEF AddXport, TypeOK, NetworkFlags, born, result, txnVars, lists, errors,
         network, hands
    <2> QED BY <2>1, <2>2, <2>3, <2>4, TypePartsNext
  <1>57. ASSUME FillAddress PROVE TypeOK'
    <2>1. NumberType' /\ SetType' /\ TxnFlags' /\ ErrorFlags' /\ NetworkFlags' /\
      ThreadType'
      BY <1>57 DEF FillAddress, TypeOK, NumberType, SetType, TxnFlags, ErrorFlags,
         NetworkFlags, ThreadType, born, result, txnVars, lists, errors, network, hands
    <2>2. ClientFlags'
      BY <1>57 DEF FillAddress, TypeOK, ClientFlags, born, result, txnVars, lists, errors,
         network, hands
    <2> QED BY <2>1, <2>2, TypePartsNext
  <1>58. ASSUME LookupAgain PROVE TypeOK'
    <2>1. SetType' /\ TxnFlags' /\ ErrorFlags' /\ ThreadType'
      BY <1>58 DEF LookupAgain, TypeOK, SetType, TxnFlags, ErrorFlags, ThreadType, born,
         result, txnVars, lists, errors, hands
    <2>2. NumberType'
      BY <1>58 DEF LookupAgain, TypeOK, NumberType, born, result, txnVars, lists, errors,
         hands, PutClient
    <2>3. ClientFlags'
      BY <1>58 DEF LookupAgain, TypeOK, ClientFlags, born, result, txnVars, lists, errors,
         hands, PutClient
    <2>4. NetworkFlags'
      BY <1>58 DEF LookupAgain, TypeOK, NetworkFlags, born, result, txnVars, lists, errors,
         hands
    <2> QED BY <2>1, <2>2, <2>3, <2>4, TypePartsNext
  <1>59. ASSUME ServerGone PROVE TypeOK'
    <2>1. NumberType' /\ SetType' /\ TxnFlags' /\ ClientFlags' /\ ErrorFlags' /\
      ThreadType'
      BY <1>59 DEF ServerGone, TypeOK, NumberType, SetType, TxnFlags, ClientFlags,
         ErrorFlags, ThreadType, born, result, txnVars, lists, client, errors, app,
         hands
    <2>2. NetworkFlags'
      BY <1>59 DEF ServerGone, TypeOK, NetworkFlags, born, result, txnVars, lists, client,
         errors, app, hands
    <2> QED BY <2>1, <2>2, TypePartsNext
  <1>60. CASE UNCHANGED vars
    BY <1>60 DEF TypeOK, born, result, txnVars, lists, client, errors, network, app, rest,
      hands, vars, vars
  <1> QED
    BY <1>1, <1>2, <1>3, <1>4, <1>5, <1>6, <1>7, <1>8, <1>9, <1>10, <1>11, <1>12,
       <1>13, <1>14, <1>15, <1>16, <1>17, <1>18, <1>19, <1>20, <1>21, <1>22, <1>23,
       <1>24, <1>25, <1>26, <1>27, <1>28, <1>29, <1>30, <1>31, <1>32, <1>33, <1>34,
       <1>35, <1>36, <1>37, <1>38, <1>39, <1>40, <1>41, <1>42, <1>43, <1>44, <1>45,
       <1>46, <1>47, <1>48, <1>49, <1>50, <1>51, <1>52, <1>53, <1>54, <1>55, <1>56,
       <1>56a, <1>57, <1>58, <1>59, <1>60, Zenon DEF Next, Call, Delete, Release,
       Register, Cleanup, Flush, Router, Opening

-----------------------------------------------------------------------------
(***************************************************************************)
(* Shape                                                                   *)
(***************************************************************************)

\* A step of thread th changes the shape of th only.
LEMMA ShapeFrame ==
  ASSUME TypeOK, Shape, NEW th \in Threads, NEW l, Goto(th, l),
         used \subseteq used',
         list' \subseteq used', queue' \subseteq used', handles' \subseteq used',
         \A x \in Threads \ {th} : /\ op'[x] = op[x] /\ cur'[x] = cur[x]
                                   /\ carry'[x] = carry[x] /\ work'[x] = work[x],
         th \in Users => OpShape(th)' /\ CurShape(th)',
         CarryShape(th)'
  PROVE  Shape'
  <1>1. \A x \in Threads \ {th} : pc'[x] = pc[x] BY DEF TypeOK
  <1>2. ASSUME NEW u \in Users PROVE OpShape(u)' /\ CurShape(u)'
    <2>1. CASE u = th BY <2>1
    <2>2. CASE u # th
      <3>1. u \in Threads \ {th} BY <2>2 DEF Threads
      <3>2. pc'[u] = pc[u] /\ op'[u] = op[u] /\ cur'[u] = cur[u] BY <1>1, <3>1
      <3>3. OpShape(u) /\ CurShape(u) BY DEF Shape
      <3>4. OpShape(u)' BY <3>2, <3>3 DEF OpShape
      <3>5. CurShape(u)' BY <3>2, <3>3 DEF CurShape
      <3> QED BY <3>4, <3>5
    <2> QED BY <2>1, <2>2
  <1>3. ASSUME NEW x \in Threads PROVE CarryShape(x)'
    <2>1. CASE x = th BY <2>1
    <2>2. CASE x # th
      <3>1. /\ pc'[x] = pc[x] /\ cur'[x] = cur[x]
            /\ carry'[x] = carry[x] /\ work'[x] = work[x]
        BY <1>1, <2>2
      <3>2. CarryShape(x) BY DEF Shape
      <3> QED BY <3>1, <3>2 DEF CarryShape
    <2> QED BY <2>1, <2>2
  <1> QED BY <1>2, <1>3 DEF Shape

\* A step that moves no thread keeps all shapes.
LEMMA ShapeSame ==
  ASSUME Shape, UNCHANGED <<pc, op, cur, carry, work>>,
         used \subseteq used',
         list' \subseteq used', queue' \subseteq used', handles' \subseteq used'
  PROVE  Shape'
  <1>1. ASSUME NEW u \in Users PROVE OpShape(u)' /\ CurShape(u)'
    <2>1. OpShape(u) /\ CurShape(u) BY DEF Shape
    <2>2. OpShape(u)' BY <2>1 DEF OpShape
    <2>3. CurShape(u)' BY <2>1 DEF CurShape
    <2> QED BY <2>2, <2>3
  <1>2. ASSUME NEW x \in Threads PROVE CarryShape(x)'
    <2>1. CarryShape(x) BY DEF Shape
    <2> QED BY <2>1 DEF CarryShape
  <1> QED BY <1>1, <1>2 DEF Shape

\* Every step keeps what a thread does and carries in line with where it is.
LEMMA ShapeStep ==
  ASSUME TypeOK, Shape, [Next]_vars
  PROVE  Shape'
  <1>1. ASSUME NEW u \in Users, BeginCall(u) PROVE Shape'
    <2>1. u \in Threads
      BY DEF Threads
    <2>2. /\ used \subseteq used'
           /\ list' \subseteq used' /\ queue' \subseteq used' /\ handles' \subseteq used'
      BY <1>1 DEF BeginCall, TypeOK, Shape, OpShape, CurShape, CarryShape, FlushPcs, Calls,
         Sync, born, result, txnVars, lists, errors, network, hands
    <2>3. \A x \in Threads \ {u} :
             /\ op'[x] = op[x] /\ cur'[x] = cur[x]
             /\ carry'[x] = carry[x] /\ work'[x] = work[x]
      BY <1>1, <2>1 DEF BeginCall, TypeOK, GetRef, born, result, txnVars, lists, errors,
         network, hands
    <2>4. u \in Users => OpShape(u)'
      BY <1>1, <2>1 DEF BeginCall, TypeOK, Shape, OpShape, FlushPcs, CleanupPcs, DeletePcs,
         ReleaseOps, Calls, Sync, GetRef, born, result, txnVars, lists, errors, network,
         hands
    <2>5. u \in Users => CurShape(u)'
      BY <1>1, <2>1 DEF BeginCall, TypeOK, Shape, OpShape, CurShape, CarryShape, FlushPcs,
         CleanupPcs, DeletePcs, ReleaseOps, Calls, Sync, GetRef, born, result, txnVars,
         lists, errors, network, hands
    <2>6. CarryShape(u)'
      BY <1>1, <2>1 DEF BeginCall, TypeOK, Shape, OpShape, CurShape, CarryShape, FlushPcs,
         CleanupPcs, DeletePcs, ReleaseOps, Calls, Sync, GetRef, born, result, txnVars,
         lists, errors, network, hands
    <2>7. Goto(u, "enter")
      BY <1>1 DEF BeginCall
    <2> QED BY <2>1, <2>2, <2>3, <2>4, <2>5, <2>6, <2>7, ShapeFrame
  <1>2. ASSUME NEW u \in Users, NoTxn(u) PROVE Shape'
    <2>1. u \in Threads
      BY DEF Threads
    <2>2. /\ used \subseteq used'
           /\ list' \subseteq used' /\ queue' \subseteq used' /\ handles' \subseteq used'
      BY <1>2 DEF NoTxn, TypeOK, Shape, OpShape, CurShape, CarryShape, FlushPcs, Calls,
         Sync, born, result, txnVars, lists, client, errors, network, app, rest, hands
    <2>3. \A x \in Threads \ {u} :
             /\ op'[x] = op[x] /\ cur'[x] = cur[x]
             /\ carry'[x] = carry[x] /\ work'[x] = work[x]
      BY <1>2, <2>1 DEF NoTxn, TypeOK, born, result, txnVars, lists, client, errors,
         network, app, rest, hands
    <2>4. u \in Users => OpShape(u)'
      BY <1>2, <2>1 DEF NoTxn, TypeOK, Shape, OpShape, FlushPcs, CleanupPcs, DeletePcs,
         ReleaseOps, Calls, Sync, born, result, txnVars, lists, client, errors, network,
         app, rest, hands
    <2>5. u \in Users => CurShape(u)'
      BY <1>2, <2>1 DEF NoTxn, TypeOK, Shape, OpShape, CurShape, CarryShape, FlushPcs,
         CleanupPcs, DeletePcs, ReleaseOps, Calls, Sync, born, result, txnVars, lists,
         client, errors, network, app, rest, hands
    <2>6. CarryShape(u)'
      BY <1>2, <2>1 DEF NoTxn, TypeOK, Shape, OpShape, CurShape, CarryShape, FlushPcs,
         CleanupPcs, DeletePcs, ReleaseOps, Calls, Sync, born, result, txnVars, lists,
         client, errors, network, app, rest, hands
    <2>7. Goto(u, "put")
      BY <1>2 DEF NoTxn
    <2> QED BY <2>1, <2>2, <2>3, <2>4, <2>5, <2>6, <2>7, ShapeFrame
  <1>3. ASSUME NEW u \in Users, GetTxn(u) PROVE Shape'
    <2>1. u \in Threads
      BY DEF Threads
    <2>2. /\ used \subseteq used'
           /\ list' \subseteq used' /\ queue' \subseteq used' /\ handles' \subseteq used'
      BY <1>3 DEF GetTxn, TypeOK, Shape, OpShape, CurShape, CarryShape, FlushPcs, Calls,
         Sync, result, client, errors, network, hands
    <2>3. \A x \in Threads \ {u} :
             /\ op'[x] = op[x] /\ cur'[x] = cur[x]
             /\ carry'[x] = carry[x] /\ work'[x] = work[x]
      BY <1>3, <2>1 DEF GetTxn, TypeOK, result, client, errors, network, hands
    <2>4. u \in Users => OpShape(u)'
      BY <1>3, <2>1 DEF GetTxn, TypeOK, Shape, OpShape, FlushPcs, CleanupPcs, DeletePcs,
         ReleaseOps, Calls, Sync, result, client, errors, network, hands
    <2>5. u \in Users => CurShape(u)'
      BY <1>3, <2>1 DEF GetTxn, TypeOK, Shape, OpShape, CurShape, CarryShape, FlushPcs,
         CleanupPcs, DeletePcs, ReleaseOps, Calls, Sync, result, client, errors,
         network, hands
    <2>6. CarryShape(u)'
      BY <1>3, <2>1 DEF GetTxn, TypeOK, Shape, OpShape, CurShape, CarryShape, FlushPcs,
         CleanupPcs, DeletePcs, ReleaseOps, Calls, Sync, result, client, errors,
         network, hands
    <2>7. Goto(u, IF op[u] \in Sync THEN "own" ELSE "check")
      BY <1>3 DEF GetTxn
    <2> QED BY <2>1, <2>2, <2>3, <2>4, <2>5, <2>6, <2>7, ShapeFrame
  <1>4. ASSUME NEW u \in Users, Own(u) PROVE Shape'
    <2>1. u \in Threads
      BY DEF Threads
    <2>2. /\ used \subseteq used'
           /\ list' \subseteq used' /\ queue' \subseteq used' /\ handles' \subseteq used'
      BY <1>4 DEF Own, TypeOK, Shape, OpShape, CurShape, CarryShape, FlushPcs, Calls, Sync,
         born, result, lists, client, errors, network, hands
    <2>3. \A x \in Threads \ {u} :
             /\ op'[x] = op[x] /\ cur'[x] = cur[x]
             /\ carry'[x] = carry[x] /\ work'[x] = work[x]
      BY <1>4, <2>1 DEF Own, TypeOK, born, result, lists, client, errors, network, hands
    <2>4. u \in Users => OpShape(u)'
      BY <1>4, <2>1 DEF Own, TypeOK, Shape, OpShape, FlushPcs, CleanupPcs, DeletePcs,
         ReleaseOps, Calls, Sync, born, result, lists, client, errors, network, hands
    <2>5. u \in Users => CurShape(u)'
      BY <1>4, <2>1 DEF Own, TypeOK, Shape, OpShape, CurShape, CarryShape, FlushPcs,
         CleanupPcs, DeletePcs, ReleaseOps, Calls, Sync, born, result, lists, client,
         errors, network, hands
    <2>6. CarryShape(u)'
      BY <1>4, <2>1 DEF Own, TypeOK, Shape, OpShape, CurShape, CarryShape, FlushPcs,
         CleanupPcs, DeletePcs, ReleaseOps, Calls, Sync, born, result, lists, client,
         errors, network, hands
    <2>7. Goto(u, "arm")
      BY <1>4 DEF Own
    <2> QED BY <2>1, <2>2, <2>3, <2>4, <2>5, <2>6, <2>7, ShapeFrame
  <1>5. ASSUME NEW u \in Users, Arm(u) PROVE Shape'
    <2>1. u \in Threads
      BY DEF Threads
    <2>2. /\ used \subseteq used'
           /\ list' \subseteq used' /\ queue' \subseteq used' /\ handles' \subseteq used'
      BY <1>5 DEF Arm, TypeOK, Shape, OpShape, CurShape, CarryShape, FlushPcs, Calls, Sync,
         born, lists, client, errors, network, app, rest, hands
    <2>3. \A x \in Threads \ {u} :
             /\ op'[x] = op[x] /\ cur'[x] = cur[x]
             /\ carry'[x] = carry[x] /\ work'[x] = work[x]
      BY <1>5, <2>1 DEF Arm, TypeOK, born, lists, client, errors, network, app, rest, hands
    <2>4. u \in Users => OpShape(u)'
      BY <1>5, <2>1 DEF Arm, TypeOK, Shape, OpShape, FlushPcs, CleanupPcs, DeletePcs,
         ReleaseOps, Calls, Sync, born, lists, client, errors, network, app, rest, hands
    <2>5. u \in Users => CurShape(u)'
      BY <1>5, <2>1 DEF Arm, TypeOK, Shape, OpShape, CurShape, CarryShape, FlushPcs,
         CleanupPcs, DeletePcs, ReleaseOps, Calls, Sync, born, lists, client, errors,
         network, app, rest, hands
    <2>6. CarryShape(u)'
      BY <1>5, <2>1 DEF Arm, TypeOK, Shape, OpShape, CurShape, CarryShape, FlushPcs,
         CleanupPcs, DeletePcs, ReleaseOps, Calls, Sync, born, lists, client, errors,
         network, app, rest, hands
    <2>7. Goto(u, "check")
      BY <1>5 DEF Arm
    <2> QED BY <2>1, <2>2, <2>3, <2>4, <2>5, <2>6, <2>7, ShapeFrame
  <1>6. ASSUME NEW u \in Users, Check(u) PROVE Shape'
    <2>1. u \in Threads
      BY DEF Threads
    <2>2. /\ used \subseteq used'
           /\ list' \subseteq used' /\ queue' \subseteq used' /\ handles' \subseteq used'
      BY <1>6 DEF Check, TypeOK, Shape, OpShape, CurShape, CarryShape, FlushPcs, Calls,
         Sync, born, result, txnVars, lists, client, errors, network, app, rest, hands
    <2>3. \A x \in Threads \ {u} :
             /\ op'[x] = op[x] /\ cur'[x] = cur[x]
             /\ carry'[x] = carry[x] /\ work'[x] = work[x]
      BY <1>6, <2>1 DEF Check, TypeOK, born, result, txnVars, lists, client, errors,
         network, app, rest, hands
    <2>4. u \in Users => OpShape(u)'
      BY <1>6, <2>1 DEF Check, TypeOK, Shape, OpShape, FlushPcs, CleanupPcs, DeletePcs,
         ReleaseOps, Calls, Sync, Failing, born, result, txnVars, lists, client, errors,
         network, app, rest, hands
    <2>5. u \in Users => CurShape(u)'
      BY <1>6, <2>1 DEF Check, TypeOK, Shape, OpShape, CurShape, CarryShape, FlushPcs,
         CleanupPcs, DeletePcs, ReleaseOps, Calls, Sync, Failing, born, result, txnVars,
         lists, client, errors, network, app, rest, hands
    <2>6. CarryShape(u)'
      BY <1>6, <2>1 DEF Check, TypeOK, Shape, OpShape, CurShape, CarryShape, FlushPcs,
         CleanupPcs, DeletePcs, ReleaseOps, Calls, Sync, Failing, born, result, txnVars,
         lists, client, errors, network, app, rest, hands
    <2>7. PICK l : Goto(u, l)
      BY <1>6 DEF Check
    <2> QED BY <2>1, <2>2, <2>3, <2>4, <2>5, <2>6, <2>7, ShapeFrame
  <1>7. ASSUME NEW u \in Users, TakeRef(u) PROVE Shape'
    <2>1. u \in Threads
      BY DEF Threads
    <2>2. /\ used \subseteq used'
           /\ list' \subseteq used' /\ queue' \subseteq used' /\ handles' \subseteq used'
      BY <1>7 DEF TakeRef, TypeOK, Shape, OpShape, CurShape, CarryShape, FlushPcs, Calls,
         Sync, born, result, lists, client, errors, network
    <2>3. \A x \in Threads \ {u} :
             /\ op'[x] = op[x] /\ cur'[x] = cur[x]
             /\ carry'[x] = carry[x] /\ work'[x] = work[x]
      BY <1>7, <2>1 DEF TakeRef, TypeOK, born, result, lists, client, errors, network
    <2>4. u \in Users => OpShape(u)'
      BY <1>7, <2>1 DEF TakeRef, TypeOK, Shape, OpShape, FlushPcs, CleanupPcs, DeletePcs,
         ReleaseOps, Calls, Sync, born, result, lists, client, errors, network
    <2>5. u \in Users => CurShape(u)'
      BY <1>7, <2>1 DEF TakeRef, TypeOK, Shape, OpShape, CurShape, CarryShape, FlushPcs,
         CleanupPcs, DeletePcs, ReleaseOps, Calls, Sync, born, result, lists, client,
         errors, network
    <2>6. CarryShape(u)'
      BY <1>7, <2>1 DEF TakeRef, TypeOK, Shape, OpShape, CurShape, CarryShape, FlushPcs,
         CleanupPcs, DeletePcs, ReleaseOps, Calls, Sync, born, result, lists, client,
         errors, network
    <2>7. Goto(u, "queue")
      BY <1>7 DEF TakeRef
    <2> QED BY <2>1, <2>2, <2>3, <2>4, <2>5, <2>6, <2>7, ShapeFrame
  <1>8. ASSUME NEW u \in Users, Enqueue(u) PROVE Shape'
    <2>1. u \in Threads
      BY DEF Threads
    <2>2. /\ used \subseteq used'
           /\ list' \subseteq used' /\ queue' \subseteq used' /\ handles' \subseteq used'
      BY <1>8 DEF Enqueue, TypeOK, Shape, OpShape, CurShape, CarryShape, FlushPcs, Calls,
         Sync, born, result, txnVars, client, errors, network, app, rest
    <2>3. \A x \in Threads \ {u} :
             /\ op'[x] = op[x] /\ cur'[x] = cur[x]
             /\ carry'[x] = carry[x] /\ work'[x] = work[x]
      BY <1>8, <2>1 DEF Enqueue, TypeOK, born, result, txnVars, client, errors, network,
         app, rest
    <2>4. u \in Users => OpShape(u)'
      BY <1>8, <2>1 DEF Enqueue, TypeOK, Shape, OpShape, FlushPcs, CleanupPcs, DeletePcs,
         ReleaseOps, Calls, Sync, born, result, txnVars, client, errors, network, app,
         rest
    <2>5. u \in Users => CurShape(u)'
      BY <1>8, <2>1 DEF Enqueue, TypeOK, Shape, OpShape, CurShape, CarryShape, FlushPcs,
         CleanupPcs, DeletePcs, ReleaseOps, Calls, Sync, born, result, txnVars, client,
         errors, network, app, rest
    <2>6. CarryShape(u)'
      BY <1>8, <2>1 DEF Enqueue, TypeOK, Shape, OpShape, CurShape, CarryShape, FlushPcs,
         CleanupPcs, DeletePcs, ReleaseOps, Calls, Sync, born, result, txnVars, client,
         errors, network, app, rest
    <2>7. Goto(u, "fl_addr")
      BY <1>8 DEF Enqueue
    <2> QED BY <2>1, <2>2, <2>3, <2>4, <2>5, <2>6, <2>7, ShapeFrame
  <1>9. ASSUME NEW u \in Users, Refuse(u) PROVE Shape'
    <2>1. u \in Threads
      BY DEF Threads
    <2>2. /\ used \subseteq used'
           /\ list' \subseteq used' /\ queue' \subseteq used' /\ handles' \subseteq used'
      BY <1>9 DEF Refuse, TypeOK, Shape, OpShape, CurShape, CarryShape, FlushPcs, Calls,
         Sync, born, result, lists, client, errors, network, app, rest
    <2>3. \A x \in Threads \ {u} :
             /\ op'[x] = op[x] /\ cur'[x] = cur[x]
             /\ carry'[x] = carry[x] /\ work'[x] = work[x]
      BY <1>9, <2>1 DEF Refuse, TypeOK, born, result, lists, client, errors, network, app,
         rest
    <2>4. u \in Users => OpShape(u)'
      BY <1>9, <2>1 DEF Refuse, TypeOK, Shape, OpShape, FlushPcs, CleanupPcs, DeletePcs,
         ReleaseOps, Calls, Sync, Failing, born, result, lists, client, errors, network,
         app, rest
    <2>5. u \in Users => CurShape(u)'
      BY <1>9, <2>1 DEF Refuse, TypeOK, Shape, OpShape, CurShape, CarryShape, FlushPcs,
         CleanupPcs, DeletePcs, ReleaseOps, Calls, Sync, Failing, born, result, lists,
         client, errors, network, app, rest
    <2>6. CarryShape(u)'
      BY <1>9, <2>1 DEF Refuse, TypeOK, Shape, OpShape, CurShape, CarryShape, FlushPcs,
         CleanupPcs, DeletePcs, ReleaseOps, Calls, Sync, Failing, born, result, lists,
         client, errors, network, app, rest
    <2>7. Goto(u, Failing(u))
      BY <1>9 DEF Refuse
    <2> QED BY <2>1, <2>2, <2>3, <2>4, <2>5, <2>6, <2>7, ShapeFrame
  <1>10. ASSUME NEW u \in Users, Wake(u) PROVE Shape'
    <2>1. u \in Threads
      BY DEF Threads
    <2>2. /\ used \subseteq used'
           /\ list' \subseteq used' /\ queue' \subseteq used' /\ handles' \subseteq used'
      BY <1>10 DEF Wake, TypeOK, Shape, OpShape, CurShape, CarryShape, FlushPcs, Calls,
         Sync, born, lists, client, errors, network, app, rest, hands
    <2>3. \A x \in Threads \ {u} :
             /\ op'[x] = op[x] /\ cur'[x] = cur[x]
             /\ carry'[x] = carry[x] /\ work'[x] = work[x]
      BY <1>10, <2>1 DEF Wake, TypeOK, born, lists, client, errors, network, app, rest,
         hands
    <2>4. u \in Users => OpShape(u)'
      BY <1>10, <2>1 DEF Wake, TypeOK, Shape, OpShape, FlushPcs, CleanupPcs, DeletePcs,
         ReleaseOps, Calls, Sync, born, lists, client, errors, network, app, rest, hands
    <2>5. u \in Users => CurShape(u)'
      BY <1>10, <2>1 DEF Wake, TypeOK, Shape, OpShape, CurShape, CarryShape, FlushPcs,
         CleanupPcs, DeletePcs, ReleaseOps, Calls, Sync, born, lists, client, errors,
         network, app, rest, hands
    <2>6. CarryShape(u)'
      BY <1>10, <2>1 DEF Wake, TypeOK, Shape, OpShape, CurShape, CarryShape, FlushPcs,
         CleanupPcs, DeletePcs, ReleaseOps, Calls, Sync, born, lists, client, errors,
         network, app, rest, hands
    <2>7. Goto(u, IF pending[cur[u]] THEN "wait" ELSE "inval")
      BY <1>10 DEF Wake
    <2> QED BY <2>1, <2>2, <2>3, <2>4, <2>5, <2>6, <2>7, ShapeFrame
  <1>11. ASSUME NEW u \in Users, TimeOut(u) PROVE Shape'
    <2>1. u \in Threads
      BY DEF Threads
    <2>2. /\ used \subseteq used'
           /\ list' \subseteq used' /\ queue' \subseteq used' /\ handles' \subseteq used'
      BY <1>11 DEF TimeOut, TypeOK, Shape, OpShape, CurShape, CarryShape, FlushPcs, Calls,
         Sync, born, lists, client, errors, network, app, rest, hands
    <2>3. \A x \in Threads \ {u} :
             /\ op'[x] = op[x] /\ cur'[x] = cur[x]
             /\ carry'[x] = carry[x] /\ work'[x] = work[x]
      BY <1>11, <2>1 DEF TimeOut, TypeOK, born, lists, client, errors, network, app, rest,
         hands
    <2>4. u \in Users => OpShape(u)'
      BY <1>11, <2>1 DEF TimeOut, TypeOK, Shape, OpShape, FlushPcs, CleanupPcs, DeletePcs,
         ReleaseOps, Calls, Sync, born, lists, client, errors, network, app, rest, hands
    <2>5. u \in Users => CurShape(u)'
      BY <1>11, <2>1 DEF TimeOut, TypeOK, Shape, OpShape, CurShape, CarryShape, FlushPcs,
         CleanupPcs, DeletePcs, ReleaseOps, Calls, Sync, born, lists, client, errors,
         network, app, rest, hands
    <2>6. CarryShape(u)'
      BY <1>11, <2>1 DEF TimeOut, TypeOK, Shape, OpShape, CurShape, CarryShape, FlushPcs,
         CleanupPcs, DeletePcs, ReleaseOps, Calls, Sync, born, lists, client, errors,
         network, app, rest, hands
    <2>7. Goto(u, "inval")
      BY <1>11 DEF TimeOut
    <2> QED BY <2>1, <2>2, <2>3, <2>4, <2>5, <2>6, <2>7, ShapeFrame
  <1>12. ASSUME NEW u \in Users, Invalidate(u) PROVE Shape'
    <2>1. u \in Threads
      BY DEF Threads
    <2>2. /\ used \subseteq used'
           /\ list' \subseteq used' /\ queue' \subseteq used' /\ handles' \subseteq used'
      BY <1>12 DEF Invalidate, TypeOK, Shape, OpShape, CurShape, CarryShape, FlushPcs,
         Calls, Sync, born, result, lists, client, errors, network, app, rest, hands
    <2>3. \A x \in Threads \ {u} :
             /\ op'[x] = op[x] /\ cur'[x] = cur[x]
             /\ carry'[x] = carry[x] /\ work'[x] = work[x]
      BY <1>12, <2>1 DEF Invalidate, TypeOK, born, result, lists, client, errors, network,
         app, rest, hands
    <2>4. u \in Users => OpShape(u)'
      BY <1>12, <2>1 DEF Invalidate, TypeOK, Shape, OpShape, FlushPcs, CleanupPcs,
         DeletePcs, ReleaseOps, Calls, Sync, born, result, lists, client, errors,
         network, app, rest, hands
    <2>5. u \in Users => CurShape(u)'
      BY <1>12, <2>1 DEF Invalidate, TypeOK, Shape, OpShape, CurShape, CarryShape, FlushPcs,
         CleanupPcs, DeletePcs, ReleaseOps, Calls, Sync, born, result, lists, client,
         errors, network, app, rest, hands
    <2>6. CarryShape(u)'
      BY <1>12, <2>1 DEF Invalidate, TypeOK, Shape, OpShape, CurShape, CarryShape, FlushPcs,
         CleanupPcs, DeletePcs, ReleaseOps, Calls, Sync, born, result, lists, client,
         errors, network, app, rest, hands
    <2>7. Goto(u, "remove")
      BY <1>12 DEF Invalidate
    <2> QED BY <2>1, <2>2, <2>3, <2>4, <2>5, <2>6, <2>7, ShapeFrame
  <1>13. ASSUME NEW u \in Users, RemoveSync(u) PROVE Shape'
    <2>1. u \in Threads
      BY DEF Threads
    <2>2. /\ used \subseteq used'
           /\ list' \subseteq used' /\ queue' \subseteq used' /\ handles' \subseteq used'
      BY <1>13 DEF RemoveSync, TypeOK, Shape, OpShape, CurShape, CarryShape, FlushPcs,
         Calls, Sync, born, result, client, errors, network, app, rest, hands
    <2>3. \A x \in Threads \ {u} :
             /\ op'[x] = op[x] /\ cur'[x] = cur[x]
             /\ carry'[x] = carry[x] /\ work'[x] = work[x]
      BY <1>13, <2>1 DEF RemoveSync, TypeOK, born, result, client, errors, network, app,
         rest, hands
    <2>4. u \in Users => OpShape(u)'
      BY <1>13, <2>1 DEF RemoveSync, TypeOK, Shape, OpShape, FlushPcs, CleanupPcs,
         DeletePcs, ReleaseOps, Calls, Sync, born, result, client, errors, network, app,
         rest, hands
    <2>5. u \in Users => CurShape(u)'
      BY <1>13, <2>1 DEF RemoveSync, TypeOK, Shape, OpShape, CurShape, CarryShape, FlushPcs,
         CleanupPcs, DeletePcs, ReleaseOps, Calls, Sync, born, result, client, errors,
         network, app, rest, hands
    <2>6. CarryShape(u)'
      BY <1>13, <2>1 DEF RemoveSync, TypeOK, Shape, OpShape, CurShape, CarryShape, FlushPcs,
         CleanupPcs, DeletePcs, ReleaseOps, Calls, Sync, born, result, client, errors,
         network, app, rest, hands
    <2>7. Goto(u, "drop")
      BY <1>13 DEF RemoveSync
    <2> QED BY <2>1, <2>2, <2>3, <2>4, <2>5, <2>6, <2>7, ShapeFrame
  <1>14. ASSUME NEW u \in Users, DropOwn(u) PROVE Shape'
    <2>1. u \in Threads
      BY DEF Threads
    <2>2. /\ used \subseteq used'
           /\ list' \subseteq used' /\ queue' \subseteq used' /\ handles' \subseteq used'
      BY <1>14 DEF DropOwn, TypeOK, Shape, OpShape, CurShape, CarryShape, FlushPcs, Calls,
         Sync, born, lists, client, errors, network, app, rest, hands
    <2>3. \A x \in Threads \ {u} :
             /\ op'[x] = op[x] /\ cur'[x] = cur[x]
             /\ carry'[x] = carry[x] /\ work'[x] = work[x]
      BY <1>14, <2>1 DEF DropOwn, TypeOK, born, lists, client, errors, network, app, rest,
         hands
    <2>4. u \in Users => OpShape(u)'
      BY <1>14, <2>1 DEF DropOwn, TypeOK, Shape, OpShape, FlushPcs, CleanupPcs, DeletePcs,
         ReleaseOps, Calls, Sync, born, lists, client, errors, network, app, rest, hands
    <2>5. u \in Users => CurShape(u)'
      BY <1>14, <2>1 DEF DropOwn, TypeOK, Shape, OpShape, CurShape, CarryShape, FlushPcs,
         CleanupPcs, DeletePcs, ReleaseOps, Calls, Sync, born, lists, client, errors,
         network, app, rest, hands
    <2>6. CarryShape(u)'
      BY <1>14, <2>1 DEF DropOwn, TypeOK, Shape, OpShape, CurShape, CarryShape, FlushPcs,
         CleanupPcs, DeletePcs, ReleaseOps, Calls, Sync, born, lists, client, errors,
         network, app, rest, hands
    <2>7. Goto(u, "put")
      BY <1>14 DEF DropOwn
    <2> QED BY <2>1, <2>2, <2>3, <2>4, <2>5, <2>6, <2>7, ShapeFrame
  <1>15. ASSUME NEW u \in Users, AsyncFails(u) PROVE Shape'
    <2>1. u \in Threads
      BY DEF Threads
    <2>2. /\ used \subseteq used'
           /\ list' \subseteq used' /\ queue' \subseteq used' /\ handles' \subseteq used'
      BY <1>15 DEF AsyncFails, TypeOK, Shape, OpShape, CurShape, CarryShape, FlushPcs,
         Calls, Sync, born, client, errors, network, app, rest, hands
    <2>3. \A x \in Threads \ {u} :
             /\ op'[x] = op[x] /\ cur'[x] = cur[x]
             /\ carry'[x] = carry[x] /\ work'[x] = work[x]
      BY <1>15, <2>1 DEF AsyncFails, TypeOK, born, client, errors, network, app, rest, hands
    <2>4. u \in Users => OpShape(u)'
      BY <1>15, <2>1 DEF AsyncFails, TypeOK, Shape, OpShape, FlushPcs, CleanupPcs,
         DeletePcs, ReleaseOps, Calls, Sync, born, client, errors, network, app, rest,
         hands
    <2>5. u \in Users => CurShape(u)'
      BY <1>15, <2>1 DEF AsyncFails, TypeOK, Shape, OpShape, CurShape, CarryShape, FlushPcs,
         CleanupPcs, DeletePcs, ReleaseOps, Calls, Sync, born, client, errors, network,
         app, rest, hands
    <2>6. CarryShape(u)'
      BY <1>15, <2>1 DEF AsyncFails, TypeOK, Shape, OpShape, CurShape, CarryShape, FlushPcs,
         CleanupPcs, DeletePcs, ReleaseOps, Calls, Sync, born, client, errors, network,
         app, rest, hands
    <2>7. Goto(u, "put")
      BY <1>15 DEF AsyncFails
    <2> QED BY <2>1, <2>2, <2>3, <2>4, <2>5, <2>6, <2>7, ShapeFrame
  <1>16. ASSUME NEW u \in Users, PutRef(u) PROVE Shape'
    <2>1. u \in Threads
      BY DEF Threads
    <2>2. /\ used \subseteq used'
           /\ list' \subseteq used' /\ queue' \subseteq used' /\ handles' \subseteq used'
      BY <1>16 DEF PutRef, TypeOK, Shape, OpShape, CurShape, CarryShape, FlushPcs, Calls,
         Sync, born, result, txnVars, lists, errors, network, hands
    <2>3. \A x \in Threads \ {u} :
             /\ op'[x] = op[x] /\ cur'[x] = cur[x]
             /\ carry'[x] = carry[x] /\ work'[x] = work[x]
      BY <1>16, <2>1 DEF PutRef, TypeOK, born, result, txnVars, lists, errors, network,
         hands
    <2>4. u \in Users => OpShape(u)'
      BY <1>16, <2>1 DEF PutRef, TypeOK, Shape, OpShape, FlushPcs, CleanupPcs, DeletePcs,
         ReleaseOps, Calls, Sync, born, result, txnVars, lists, errors, network, hands
    <2>5. u \in Users => CurShape(u)'
      BY <1>16, <2>1 DEF PutRef, TypeOK, Shape, OpShape, CurShape, CarryShape, FlushPcs,
         CleanupPcs, DeletePcs, ReleaseOps, Calls, Sync, born, result, txnVars, lists,
         errors, network, hands
    <2>6. CarryShape(u)'
      BY <1>16, <2>1 DEF PutRef, TypeOK, Shape, OpShape, CurShape, CarryShape, FlushPcs,
         CleanupPcs, DeletePcs, ReleaseOps, Calls, Sync, born, result, txnVars, lists,
         errors, network, hands
    <2>7. Goto(u, IF op[u] = "release" THEN "blocked" ELSE "idle")
      BY <1>16 DEF PutRef
    <2> QED BY <2>1, <2>2, <2>3, <2>4, <2>5, <2>6, <2>7, ShapeFrame
  <1>17. ASSUME NEW u \in Users, BeginDelete(u) PROVE Shape'
    <2>1. u \in Threads
      BY DEF Threads
    <2>2. /\ used \subseteq used'
           /\ list' \subseteq used' /\ queue' \subseteq used' /\ handles' \subseteq used'
      BY <1>17 DEF BeginDelete, TypeOK, Shape, OpShape, CurShape, CarryShape, FlushPcs,
         Calls, Sync, born, result, txnVars, lists, errors, network, hands
    <2>3. \A x \in Threads \ {u} :
             /\ op'[x] = op[x] /\ cur'[x] = cur[x]
             /\ carry'[x] = carry[x] /\ work'[x] = work[x]
      BY <1>17, <2>1 DEF BeginDelete, TypeOK, GetRef, born, result, txnVars, lists, errors,
         network, hands
    <2>4. u \in Users => OpShape(u)'
      BY <1>17, <2>1 DEF BeginDelete, TypeOK, Shape, OpShape, FlushPcs, CleanupPcs,
         DeletePcs, ReleaseOps, Calls, Sync, GetRef, born, result, txnVars, lists,
         errors, network, hands
    <2>5. u \in Users => CurShape(u)'
      BY <1>17, <2>1 DEF BeginDelete, TypeOK, Shape, OpShape, CurShape, CarryShape,
         FlushPcs, CleanupPcs, DeletePcs, ReleaseOps, Calls, Sync, GetRef, born, result,
         txnVars, lists, errors, network, hands
    <2>6. CarryShape(u)'
      BY <1>17, <2>1 DEF BeginDelete, TypeOK, Shape, OpShape, CurShape, CarryShape,
         FlushPcs, CleanupPcs, DeletePcs, ReleaseOps, Calls, Sync, GetRef, born, result,
         txnVars, lists, errors, network, hands
    <2>7. Goto(u, "del_queue")
      BY <1>17 DEF BeginDelete
    <2> QED BY <2>1, <2>2, <2>3, <2>4, <2>5, <2>6, <2>7, ShapeFrame
  <1>18. ASSUME NEW u \in Users, DeleteQueued(u) PROVE Shape'
    <2>1. u \in Threads
      BY DEF Threads
    <2>2. /\ used \subseteq used'
           /\ list' \subseteq used' /\ queue' \subseteq used' /\ handles' \subseteq used'
      BY <1>18 DEF DeleteQueued, TypeOK, Shape, OpShape, CurShape, CarryShape, FlushPcs,
         Calls, Sync, born, result, txnVars, client, errors, network, app, rest
    <2>3. \A x \in Threads \ {u} :
             /\ op'[x] = op[x] /\ cur'[x] = cur[x]
             /\ carry'[x] = carry[x] /\ work'[x] = work[x]
      BY <1>18, <2>1 DEF DeleteQueued, TypeOK, born, result, txnVars, client, errors,
         network, app, rest
    <2>4. u \in Users => OpShape(u)'
      BY <1>18, <2>1 DEF DeleteQueued, TypeOK, Shape, OpShape, FlushPcs, CleanupPcs,
         DeletePcs, ReleaseOps, Calls, Sync, born, result, txnVars, client, errors,
         network, app, rest
    <2>5. u \in Users => CurShape(u)'
      BY <1>18, <2>1 DEF DeleteQueued, TypeOK, Shape, OpShape, CurShape, CarryShape,
         FlushPcs, CleanupPcs, DeletePcs, ReleaseOps, Calls, Sync, born, result,
         txnVars, client, errors, network, app, rest
    <2>6. CarryShape(u)'
      BY <1>18, <2>1 DEF DeleteQueued, TypeOK, Shape, OpShape, CurShape, CarryShape,
         FlushPcs, CleanupPcs, DeletePcs, ReleaseOps, Calls, Sync, born, result,
         txnVars, client, errors, network, app, rest
    <2>7. Goto(u, IF cur[u] \in queue THEN "del_give" ELSE "del_list")
      BY <1>18 DEF DeleteQueued
    <2> QED BY <2>1, <2>2, <2>3, <2>4, <2>5, <2>6, <2>7, ShapeFrame
  <1>19. ASSUME NEW u \in Users, DeleteGive(u) PROVE Shape'
    <2>1. u \in Threads
      BY DEF Threads
    <2>2. /\ used \subseteq used'
           /\ list' \subseteq used' /\ queue' \subseteq used' /\ handles' \subseteq used'
      BY <1>19 DEF DeleteGive, TypeOK, Shape, OpShape, CurShape, CarryShape, FlushPcs,
         Calls, Sync, born, result, lists, client, errors, network, app, rest
    <2>3. \A x \in Threads \ {u} :
             /\ op'[x] = op[x] /\ cur'[x] = cur[x]
             /\ carry'[x] = carry[x] /\ work'[x] = work[x]
      BY <1>19, <2>1 DEF DeleteGive, TypeOK, born, result, lists, client, errors, network,
         app, rest
    <2>4. u \in Users => OpShape(u)'
      BY <1>19, <2>1 DEF DeleteGive, TypeOK, Shape, OpShape, FlushPcs, CleanupPcs,
         DeletePcs, ReleaseOps, Calls, Sync, born, result, lists, client, errors,
         network, app, rest
    <2>5. u \in Users => CurShape(u)'
      BY <1>19, <2>1 DEF DeleteGive, TypeOK, Shape, OpShape, CurShape, CarryShape, FlushPcs,
         CleanupPcs, DeletePcs, ReleaseOps, Calls, Sync, born, result, lists, client,
         errors, network, app, rest
    <2>6. CarryShape(u)'
      BY <1>19, <2>1 DEF DeleteGive, TypeOK, Shape, OpShape, CurShape, CarryShape, FlushPcs,
         CleanupPcs, DeletePcs, ReleaseOps, Calls, Sync, born, result, lists, client,
         errors, network, app, rest
    <2>7. Goto(u, "del_list")
      BY <1>19 DEF DeleteGive
    <2> QED BY <2>1, <2>2, <2>3, <2>4, <2>5, <2>6, <2>7, ShapeFrame
  <1>20. ASSUME NEW u \in Users, DeleteListed(u) PROVE Shape'
    <2>1. u \in Threads
      BY DEF Threads
    <2>2. /\ used \subseteq used'
           /\ list' \subseteq used' /\ queue' \subseteq used' /\ handles' \subseteq used'
      BY <1>20 DEF DeleteListed, TypeOK, Shape, OpShape, CurShape, CarryShape, FlushPcs,
         Calls, Sync, born, client, errors, network, app, rest
    <2>3. \A x \in Threads \ {u} :
             /\ op'[x] = op[x] /\ cur'[x] = cur[x]
             /\ carry'[x] = carry[x] /\ work'[x] = work[x]
      BY <1>20, <2>1 DEF DeleteListed, TypeOK, born, client, errors, network, app, rest
    <2>4. u \in Users => OpShape(u)'
      BY <1>20, <2>1 DEF DeleteListed, TypeOK, Shape, OpShape, FlushPcs, CleanupPcs,
         DeletePcs, ReleaseOps, Calls, Sync, born, client, errors, network, app, rest
    <2>5. u \in Users => CurShape(u)'
      BY <1>20, <2>1 DEF DeleteListed, TypeOK, Shape, OpShape, CurShape, CarryShape,
         FlushPcs, CleanupPcs, DeletePcs, ReleaseOps, Calls, Sync, born, client, errors,
         network, app, rest
    <2>6. CarryShape(u)'
      BY <1>20, <2>1 DEF DeleteListed, TypeOK, Shape, OpShape, CurShape, CarryShape,
         FlushPcs, CleanupPcs, DeletePcs, ReleaseOps, Calls, Sync, born, client, errors,
         network, app, rest
    <2>7. PICK l : Goto(u, l)
      BY <1>20 DEF DeleteListed
    <2> QED BY <2>1, <2>2, <2>3, <2>4, <2>5, <2>6, <2>7, ShapeFrame
  <1>21. ASSUME NEW u \in Users, DeleteDrop(u) PROVE Shape'
    <2>1. u \in Threads
      BY DEF Threads
    <2>2. /\ used \subseteq used'
           /\ list' \subseteq used' /\ queue' \subseteq used' /\ handles' \subseteq used'
      BY <1>21 DEF DeleteDrop, TypeOK, Shape, OpShape, CurShape, CarryShape, FlushPcs,
         Calls, Sync, born, result, lists, client, errors, network, app, rest
    <2>3. \A x \in Threads \ {u} :
             /\ op'[x] = op[x] /\ cur'[x] = cur[x]
             /\ carry'[x] = carry[x] /\ work'[x] = work[x]
      BY <1>21, <2>1 DEF DeleteDrop, TypeOK, born, result, lists, client, errors, network,
         app, rest
    <2>4. u \in Users => OpShape(u)'
      BY <1>21, <2>1 DEF DeleteDrop, TypeOK, Shape, OpShape, FlushPcs, CleanupPcs,
         DeletePcs, ReleaseOps, Calls, Sync, born, result, lists, client, errors,
         network, app, rest
    <2>5. u \in Users => CurShape(u)'
      BY <1>21, <2>1 DEF DeleteDrop, TypeOK, Shape, OpShape, CurShape, CarryShape, FlushPcs,
         CleanupPcs, DeletePcs, ReleaseOps, Calls, Sync, born, result, lists, client,
         errors, network, app, rest
    <2>6. CarryShape(u)'
      BY <1>21, <2>1 DEF DeleteDrop, TypeOK, Shape, OpShape, CurShape, CarryShape, FlushPcs,
         CleanupPcs, DeletePcs, ReleaseOps, Calls, Sync, born, result, lists, client,
         errors, network, app, rest
    <2>7. Goto(u, "put")
      BY <1>21 DEF DeleteDrop
    <2> QED BY <2>1, <2>2, <2>3, <2>4, <2>5, <2>6, <2>7, ShapeFrame
  <1>22. ASSUME NEW u \in Users, BeginRelease(u) PROVE Shape'
    <2>1. u \in Threads
      BY DEF Threads
    <2>2. /\ used \subseteq used'
           /\ list' \subseteq used' /\ queue' \subseteq used' /\ handles' \subseteq used'
      BY <1>22 DEF BeginRelease, TypeOK, Shape, OpShape, CurShape, CarryShape, FlushPcs,
         Calls, Sync, born, result, txnVars, lists, errors, network, hands
    <2>3. \A x \in Threads \ {u} :
             /\ op'[x] = op[x] /\ cur'[x] = cur[x]
             /\ carry'[x] = carry[x] /\ work'[x] = work[x]
      BY <1>22, <2>1 DEF BeginRelease, TypeOK, GetRef, born, result, txnVars, lists, errors,
         network, hands
    <2>4. u \in Users => OpShape(u)'
      BY <1>22, <2>1 DEF BeginRelease, TypeOK, Shape, OpShape, FlushPcs, CleanupPcs,
         DeletePcs, ReleaseOps, Calls, Sync, GetRef, born, result, txnVars, lists,
         errors, network, hands
    <2>5. u \in Users => CurShape(u)'
      BY <1>22, <2>1 DEF BeginRelease, TypeOK, Shape, OpShape, CurShape, CarryShape,
         FlushPcs, CleanupPcs, DeletePcs, ReleaseOps, Calls, Sync, GetRef, born, result,
         txnVars, lists, errors, network, hands
    <2>6. CarryShape(u)'
      BY <1>22, <2>1 DEF BeginRelease, TypeOK, Shape, OpShape, CurShape, CarryShape,
         FlushPcs, CleanupPcs, DeletePcs, ReleaseOps, Calls, Sync, GetRef, born, result,
         txnVars, lists, errors, network, hands
    <2>7. Goto(u, "probe")
      BY <1>22 DEF BeginRelease
    <2> QED BY <2>1, <2>2, <2>3, <2>4, <2>5, <2>6, <2>7, ShapeFrame
  <1>23. ASSUME NEW u \in Users, EndProbe(u) PROVE Shape'
    <2>1. u \in Threads
      BY DEF Threads
    <2>2. /\ used \subseteq used'
           /\ list' \subseteq used' /\ queue' \subseteq used' /\ handles' \subseteq used'
      BY <1>23 DEF EndProbe, TypeOK, Shape, OpShape, CurShape, CarryShape, FlushPcs, Calls,
         Sync, born, result, txnVars, lists, errors, network, app, hands
    <2>3. \A x \in Threads \ {u} :
             /\ op'[x] = op[x] /\ cur'[x] = cur[x]
             /\ carry'[x] = carry[x] /\ work'[x] = work[x]
      BY <1>23, <2>1 DEF EndProbe, TypeOK, born, result, txnVars, lists, errors, network,
         app, hands
    <2>4. u \in Users => OpShape(u)'
      BY <1>23, <2>1 DEF EndProbe, TypeOK, Shape, OpShape, FlushPcs, CleanupPcs, DeletePcs,
         ReleaseOps, Calls, Sync, born, result, txnVars, lists, errors, network, app,
         hands
    <2>5. u \in Users => CurShape(u)'
      BY <1>23, <2>1 DEF EndProbe, TypeOK, Shape, OpShape, CurShape, CarryShape, FlushPcs,
         CleanupPcs, DeletePcs, ReleaseOps, Calls, Sync, born, result, txnVars, lists,
         errors, network, app, hands
    <2>6. CarryShape(u)'
      BY <1>23, <2>1 DEF EndProbe, TypeOK, Shape, OpShape, CurShape, CarryShape, FlushPcs,
         CleanupPcs, DeletePcs, ReleaseOps, Calls, Sync, born, result, txnVars, lists,
         errors, network, app, hands
    <2>7. Goto(u, "unlink")
      BY <1>23 DEF EndProbe
    <2> QED BY <2>1, <2>2, <2>3, <2>4, <2>5, <2>6, <2>7, ShapeFrame
  <1>24. ASSUME NEW u \in Users, Unlink(u) PROVE Shape'
    <2>1. u \in Threads
      BY DEF Threads
    <2>2. /\ used \subseteq used'
           /\ list' \subseteq used' /\ queue' \subseteq used' /\ handles' \subseteq used'
      BY <1>24 DEF Unlink, TypeOK, Shape, OpShape, CurShape, CarryShape, FlushPcs, Calls,
         Sync, born, result, txnVars, lists, errors, network, app, hands
    <2>3. \A x \in Threads \ {u} :
             /\ op'[x] = op[x] /\ cur'[x] = cur[x]
             /\ carry'[x] = carry[x] /\ work'[x] = work[x]
      BY <1>24, <2>1 DEF Unlink, TypeOK, born, result, txnVars, lists, errors, network, app,
         hands
    <2>4. u \in Users => OpShape(u)'
      BY <1>24, <2>1 DEF Unlink, TypeOK, Shape, OpShape, FlushPcs, CleanupPcs, DeletePcs,
         ReleaseOps, Calls, Sync, born, result, txnVars, lists, errors, network, app,
         hands
    <2>5. u \in Users => CurShape(u)'
      BY <1>24, <2>1 DEF Unlink, TypeOK, Shape, OpShape, CurShape, CarryShape, FlushPcs,
         CleanupPcs, DeletePcs, ReleaseOps, Calls, Sync, born, result, txnVars, lists,
         errors, network, app, hands
    <2>6. CarryShape(u)'
      BY <1>24, <2>1 DEF Unlink, TypeOK, Shape, OpShape, CurShape, CarryShape, FlushPcs,
         CleanupPcs, DeletePcs, ReleaseOps, Calls, Sync, born, result, txnVars, lists,
         errors, network, app, hands
    <2>7. Goto(u, "rel_stop")
      BY <1>24 DEF Unlink
    <2> QED BY <2>1, <2>2, <2>3, <2>4, <2>5, <2>6, <2>7, ShapeFrame
  <1>25. ASSUME NEW u \in Users, NoRelease(u) PROVE Shape'
    <2>1. u \in Threads
      BY DEF Threads
    <2>2. /\ used \subseteq used'
           /\ list' \subseteq used' /\ queue' \subseteq used' /\ handles' \subseteq used'
      BY <1>25 DEF NoRelease, TypeOK, Shape, OpShape, CurShape, CarryShape, FlushPcs, Calls,
         Sync, born, result, txnVars, lists, client, errors, network, hands
    <2>3. \A x \in Threads \ {u} :
             /\ op'[x] = op[x] /\ cur'[x] = cur[x]
             /\ carry'[x] = carry[x] /\ work'[x] = work[x]
      BY <1>25, <2>1 DEF NoRelease, TypeOK, born, result, txnVars, lists, client, errors,
         network, hands
    <2>4. u \in Users => OpShape(u)'
      BY <1>25, <2>1 DEF NoRelease, TypeOK, Shape, OpShape, FlushPcs, CleanupPcs, DeletePcs,
         ReleaseOps, Calls, Sync, born, result, txnVars, lists, client, errors, network,
         hands
    <2>5. u \in Users => CurShape(u)'
      BY <1>25, <2>1 DEF NoRelease, TypeOK, Shape, OpShape, CurShape, CarryShape, FlushPcs,
         CleanupPcs, DeletePcs, ReleaseOps, Calls, Sync, born, result, txnVars, lists,
         client, errors, network, hands
    <2>6. CarryShape(u)'
      BY <1>25, <2>1 DEF NoRelease, TypeOK, Shape, OpShape, CurShape, CarryShape, FlushPcs,
         CleanupPcs, DeletePcs, ReleaseOps, Calls, Sync, born, result, txnVars, lists,
         client, errors, network, hands
    <2>7. Goto(u, "idle")
      BY <1>25 DEF NoRelease
    <2> QED BY <2>1, <2>2, <2>3, <2>4, <2>5, <2>6, <2>7, ShapeFrame
  <1>26. ASSUME NEW u \in Users, BeginReleaseAsync(u) PROVE Shape'
    <2>1. u \in Threads
      BY DEF Threads
    <2>2. /\ used \subseteq used'
           /\ list' \subseteq used' /\ queue' \subseteq used' /\ handles' \subseteq used'
      BY <1>26 DEF BeginReleaseAsync, TypeOK, Shape, OpShape, CurShape, CarryShape,
         FlushPcs, Calls, Sync, born, result, txnVars, lists, errors, network, hands
    <2>3. \A x \in Threads \ {u} :
             /\ op'[x] = op[x] /\ cur'[x] = cur[x]
             /\ carry'[x] = carry[x] /\ work'[x] = work[x]
      BY <1>26, <2>1 DEF BeginReleaseAsync, TypeOK, GetRef, born, result, txnVars, lists,
         errors, network, hands
    <2>4. u \in Users => OpShape(u)'
      BY <1>26, <2>1 DEF BeginReleaseAsync, TypeOK, Shape, OpShape, FlushPcs, CleanupPcs,
         DeletePcs, ReleaseOps, Calls, Sync, GetRef, born, result, txnVars, lists,
         errors, network, hands
    <2>5. u \in Users => CurShape(u)'
      BY <1>26, <2>1 DEF BeginReleaseAsync, TypeOK, Shape, OpShape, CurShape, CarryShape,
         FlushPcs, CleanupPcs, DeletePcs, ReleaseOps, Calls, Sync, GetRef, born, result,
         txnVars, lists, errors, network, hands
    <2>6. CarryShape(u)'
      BY <1>26, <2>1 DEF BeginReleaseAsync, TypeOK, Shape, OpShape, CurShape, CarryShape,
         FlushPcs, CleanupPcs, DeletePcs, ReleaseOps, Calls, Sync, GetRef, born, result,
         txnVars, lists, errors, network, hands
    <2>7. Goto(u, "rel_stop")
      BY <1>26 DEF BeginReleaseAsync
    <2> QED BY <2>1, <2>2, <2>3, <2>4, <2>5, <2>6, <2>7, ShapeFrame
  <1>27. ASSUME NEW u \in Users, ReleaseStop(u) PROVE Shape'
    <2>1. u \in Threads
      BY DEF Threads
    <2>2. /\ used \subseteq used'
           /\ list' \subseteq used' /\ queue' \subseteq used' /\ handles' \subseteq used'
      BY <1>27 DEF ReleaseStop, TypeOK, Shape, OpShape, CurShape, CarryShape, FlushPcs,
         Calls, Sync, born, result, txnVars, lists, errors, network, app, hands
    <2>3. \A x \in Threads \ {u} :
             /\ op'[x] = op[x] /\ cur'[x] = cur[x]
             /\ carry'[x] = carry[x] /\ work'[x] = work[x]
      BY <1>27, <2>1 DEF ReleaseStop, TypeOK, born, result, txnVars, lists, errors, network,
         app, hands
    <2>4. u \in Users => OpShape(u)'
      BY <1>27, <2>1 DEF ReleaseStop, TypeOK, Shape, OpShape, FlushPcs, CleanupPcs,
         DeletePcs, ReleaseOps, Calls, Sync, born, result, txnVars, lists, errors,
         network, app, hands
    <2>5. u \in Users => CurShape(u)'
      BY <1>27, <2>1 DEF ReleaseStop, TypeOK, Shape, OpShape, CurShape, CarryShape,
         FlushPcs, CleanupPcs, DeletePcs, ReleaseOps, Calls, Sync, born, result,
         txnVars, lists, errors, network, app, hands
    <2>6. CarryShape(u)'
      BY <1>27, <2>1 DEF ReleaseStop, TypeOK, Shape, OpShape, CurShape, CarryShape,
         FlushPcs, CleanupPcs, DeletePcs, ReleaseOps, Calls, Sync, born, result,
         txnVars, lists, errors, network, app, hands
    <2>7. Goto(u, "cu_queue")
      BY <1>27 DEF ReleaseStop
    <2> QED BY <2>1, <2>2, <2>3, <2>4, <2>5, <2>6, <2>7, ShapeFrame
  <1>28. ASSUME NEW u \in Users, ReleaseClose(u) PROVE Shape'
    <2>1. u \in Threads
      BY DEF Threads
    <2>2. /\ used \subseteq used'
           /\ list' \subseteq used' /\ queue' \subseteq used' /\ handles' \subseteq used'
      BY <1>28 DEF ReleaseClose, TypeOK, Shape, OpShape, CurShape, CarryShape, FlushPcs,
         Calls, Sync, born, result, txnVars, lists, errors, app, hands
    <2>3. \A x \in Threads \ {u} :
             /\ op'[x] = op[x] /\ cur'[x] = cur[x]
             /\ carry'[x] = carry[x] /\ work'[x] = work[x]
      BY <1>28, <2>1 DEF ReleaseClose, TypeOK, born, result, txnVars, lists, errors, app,
         hands
    <2>4. u \in Users => OpShape(u)'
      BY <1>28, <2>1 DEF ReleaseClose, TypeOK, Shape, OpShape, FlushPcs, CleanupPcs,
         DeletePcs, ReleaseOps, Calls, Sync, born, result, txnVars, lists, errors, app,
         hands
    <2>5. u \in Users => CurShape(u)'
      BY <1>28, <2>1 DEF ReleaseClose, TypeOK, Shape, OpShape, CurShape, CarryShape,
         FlushPcs, CleanupPcs, DeletePcs, ReleaseOps, Calls, Sync, born, result,
         txnVars, lists, errors, app, hands
    <2>6. CarryShape(u)'
      BY <1>28, <2>1 DEF ReleaseClose, TypeOK, Shape, OpShape, CurShape, CarryShape,
         FlushPcs, CleanupPcs, DeletePcs, ReleaseOps, Calls, Sync, born, result,
         txnVars, lists, errors, app, hands
    <2>7. Goto(u, "put")
      BY <1>28 DEF ReleaseClose
    <2> QED BY <2>1, <2>2, <2>3, <2>4, <2>5, <2>6, <2>7, ShapeFrame
  <1>29. ASSUME NEW u \in Users, Unblock(u) PROVE Shape'
    <2>1. u \in Threads
      BY DEF Threads
    <2>2. /\ used \subseteq used'
           /\ list' \subseteq used' /\ queue' \subseteq used' /\ handles' \subseteq used'
      BY <1>29 DEF Unblock, TypeOK, Shape, OpShape, CurShape, CarryShape, FlushPcs, Calls,
         Sync, born, result, txnVars, lists, client, errors, network, app, rest, hands
    <2>3. \A x \in Threads \ {u} :
             /\ op'[x] = op[x] /\ cur'[x] = cur[x]
             /\ carry'[x] = carry[x] /\ work'[x] = work[x]
      BY <1>29, <2>1 DEF Unblock, TypeOK, born, result, txnVars, lists, client, errors,
         network, app, rest, hands
    <2>4. u \in Users => OpShape(u)'
      BY <1>29, <2>1 DEF Unblock, TypeOK, Shape, OpShape, FlushPcs, CleanupPcs, DeletePcs,
         ReleaseOps, Calls, Sync, born, result, txnVars, lists, client, errors, network,
         app, rest, hands
    <2>5. u \in Users => CurShape(u)'
      BY <1>29, <2>1 DEF Unblock, TypeOK, Shape, OpShape, CurShape, CarryShape, FlushPcs,
         CleanupPcs, DeletePcs, ReleaseOps, Calls, Sync, born, result, txnVars, lists,
         client, errors, network, app, rest, hands
    <2>6. CarryShape(u)'
      BY <1>29, <2>1 DEF Unblock, TypeOK, Shape, OpShape, CurShape, CarryShape, FlushPcs,
         CleanupPcs, DeletePcs, ReleaseOps, Calls, Sync, born, result, txnVars, lists,
         client, errors, network, app, rest, hands
    <2>7. Goto(u, "idle")
      BY <1>29 DEF Unblock
    <2> QED BY <2>1, <2>2, <2>3, <2>4, <2>5, <2>6, <2>7, ShapeFrame
  <1>30. ASSUME NEW u \in Users, BeginRegister(u) PROVE Shape'
    <2>1. u \in Threads
      BY DEF Threads
    <2>2. /\ used \subseteq used'
           /\ list' \subseteq used' /\ queue' \subseteq used' /\ handles' \subseteq used'
      BY <1>30 DEF BeginRegister, TypeOK, Shape, OpShape, CurShape, CarryShape, FlushPcs,
         Calls, Sync, born, result, txnVars, lists, errors, network, hands
    <2>3. \A x \in Threads \ {u} :
             /\ op'[x] = op[x] /\ cur'[x] = cur[x]
             /\ carry'[x] = carry[x] /\ work'[x] = work[x]
      BY <1>30, <2>1 DEF BeginRegister, TypeOK, GetRef, born, result, txnVars, lists,
         errors, network, hands
    <2>4. u \in Users => OpShape(u)'
      BY <1>30, <2>1 DEF BeginRegister, TypeOK, Shape, OpShape, FlushPcs, CleanupPcs,
         DeletePcs, ReleaseOps, Calls, Sync, GetRef, born, result, txnVars, lists,
         errors, network, hands
    <2>5. u \in Users => CurShape(u)'
      BY <1>30, <2>1 DEF BeginRegister, TypeOK, Shape, OpShape, CurShape, CarryShape,
         FlushPcs, CleanupPcs, DeletePcs, ReleaseOps, Calls, Sync, GetRef, born, result,
         txnVars, lists, errors, network, hands
    <2>6. CarryShape(u)'
      BY <1>30, <2>1 DEF BeginRegister, TypeOK, Shape, OpShape, CurShape, CarryShape,
         FlushPcs, CleanupPcs, DeletePcs, ReleaseOps, Calls, Sync, GetRef, born, result,
         txnVars, lists, errors, network, hands
    <2>7. Goto(u, "reg")
      BY <1>30 DEF BeginRegister
    <2> QED BY <2>1, <2>2, <2>3, <2>4, <2>5, <2>6, <2>7, ShapeFrame
  <1>31. ASSUME NEW u \in Users, RegisterErrorCb(u) PROVE Shape'
    <2>1. u \in Threads
      BY DEF Threads
    <2>2. /\ used \subseteq used'
           /\ list' \subseteq used' /\ queue' \subseteq used' /\ handles' \subseteq used'
      BY <1>31 DEF RegisterErrorCb, TypeOK, Shape, OpShape, CurShape, CarryShape, FlushPcs,
         Calls, Sync, born, result, txnVars, lists, client, network, app, hands
    <2>3. \A x \in Threads \ {u} :
             /\ op'[x] = op[x] /\ cur'[x] = cur[x]
             /\ carry'[x] = carry[x] /\ work'[x] = work[x]
      BY <1>31, <2>1 DEF RegisterErrorCb, TypeOK, born, result, txnVars, lists, client,
         network, app, hands
    <2>4. u \in Users => OpShape(u)'
      BY <1>31, <2>1 DEF RegisterErrorCb, TypeOK, Shape, OpShape, FlushPcs, CleanupPcs,
         DeletePcs, ReleaseOps, Calls, Sync, born, result, txnVars, lists, client,
         network, app, hands
    <2>5. u \in Users => CurShape(u)'
      BY <1>31, <2>1 DEF RegisterErrorCb, TypeOK, Shape, OpShape, CurShape, CarryShape,
         FlushPcs, CleanupPcs, DeletePcs, ReleaseOps, Calls, Sync, born, result,
         txnVars, lists, client, network, app, hands
    <2>6. CarryShape(u)'
      BY <1>31, <2>1 DEF RegisterErrorCb, TypeOK, Shape, OpShape, CurShape, CarryShape,
         FlushPcs, CleanupPcs, DeletePcs, ReleaseOps, Calls, Sync, born, result,
         txnVars, lists, client, network, app, hands
    <2>7. Goto(u, IF errPending THEN "reg_call" ELSE "put")
      BY <1>31 DEF RegisterErrorCb
    <2> QED BY <2>1, <2>2, <2>3, <2>4, <2>5, <2>6, <2>7, ShapeFrame
  <1>32. ASSUME NEW u \in Users, RegisterCall(u) PROVE Shape'
    <2>1. u \in Threads
      BY DEF Threads
    <2>2. /\ used \subseteq used'
           /\ list' \subseteq used' /\ queue' \subseteq used' /\ handles' \subseteq used'
      BY <1>32 DEF RegisterCall, TypeOK, Shape, OpShape, CurShape, CarryShape, FlushPcs,
         Calls, Sync, born, result, txnVars, lists, client, network, app, hands
    <2>3. \A x \in Threads \ {u} :
             /\ op'[x] = op[x] /\ cur'[x] = cur[x]
             /\ carry'[x] = carry[x] /\ work'[x] = work[x]
      BY <1>32, <2>1 DEF RegisterCall, TypeOK, born, result, txnVars, lists, client,
         network, app, hands
    <2>4. u \in Users => OpShape(u)'
      BY <1>32, <2>1 DEF RegisterCall, TypeOK, Shape, OpShape, FlushPcs, CleanupPcs,
         DeletePcs, ReleaseOps, Calls, Sync, born, result, txnVars, lists, client,
         network, app, hands
    <2>5. u \in Users => CurShape(u)'
      BY <1>32, <2>1 DEF RegisterCall, TypeOK, Shape, OpShape, CurShape, CarryShape,
         FlushPcs, CleanupPcs, DeletePcs, ReleaseOps, Calls, Sync, born, result,
         txnVars, lists, client, network, app, hands
    <2>6. CarryShape(u)'
      BY <1>32, <2>1 DEF RegisterCall, TypeOK, Shape, OpShape, CurShape, CarryShape,
         FlushPcs, CleanupPcs, DeletePcs, ReleaseOps, Calls, Sync, born, result,
         txnVars, lists, client, network, app, hands
    <2>7. Goto(u, "put")
      BY <1>32 DEF RegisterCall
    <2> QED BY <2>1, <2>2, <2>3, <2>4, <2>5, <2>6, <2>7, ShapeFrame
  <1>33. ASSUME NEW th \in Users \cup {Loss, Resumer}, CleanupQueue(th) PROVE Shape'
    <2>1. th \in Threads
      BY DEF Threads
    <2>2. /\ used \subseteq used'
           /\ list' \subseteq used' /\ queue' \subseteq used' /\ handles' \subseteq used'
      BY <1>33 DEF CleanupQueue, TypeOK, Shape, OpShape, CurShape, CarryShape, FlushPcs,
         Calls, Sync, born, result, txnVars, client, errors, network, app, rest
    <2>3. \A x \in Threads \ {th} :
             /\ op'[x] = op[x] /\ cur'[x] = cur[x]
             /\ carry'[x] = carry[x] /\ work'[x] = work[x]
      BY <1>33, <2>1 DEF CleanupQueue, TypeOK, born, result, txnVars, client, errors,
         network, app, rest
    <2>4. th \in Users => OpShape(th)'
      BY <1>33, <2>1 DEF CleanupQueue, TypeOK, Shape, OpShape, FlushPcs, CleanupPcs,
         DeletePcs, ReleaseOps, Calls, Sync, born, result, txnVars, client, errors,
         network, app, rest
    <2>5. th \in Users => CurShape(th)'
      BY <1>33, <2>1 DEF CleanupQueue, TypeOK, Shape, OpShape, CurShape, CarryShape,
         FlushPcs, CleanupPcs, DeletePcs, ReleaseOps, Calls, Sync, born, result,
         txnVars, client, errors, network, app, rest
    <2>6. CarryShape(th)'
      BY <1>33, <2>1 DEF CleanupQueue, TypeOK, Shape, OpShape, CurShape, CarryShape,
         FlushPcs, CleanupPcs, DeletePcs, ReleaseOps, Calls, Sync, born, result,
         txnVars, client, errors, network, app, rest
    <2>7. Goto(th, "cu_give")
      BY <1>33 DEF CleanupQueue
    <2> QED BY <2>1, <2>2, <2>3, <2>4, <2>5, <2>6, <2>7, ShapeFrame
  <1>34. ASSUME NEW th \in Users \cup {Loss, Resumer}, CleanupGive(th) PROVE Shape'
    <2>1. th \in Threads
      BY DEF Threads
    <2>2. /\ used \subseteq used'
           /\ list' \subseteq used' /\ queue' \subseteq used' /\ handles' \subseteq used'
      BY <1>34 DEF CleanupGive, TypeOK, Shape, born, result, lists, client, errors, network,
         app, rest
    <2>3. \A x \in Threads \ {th} :
             /\ op'[x] = op[x] /\ cur'[x] = cur[x]
             /\ carry'[x] = carry[x] /\ work'[x] = work[x]
      BY <1>34, <2>1 DEF CleanupGive, TypeOK, born, result, lists, client, errors, network,
         app, rest
    <2>4. th \in Users => OpShape(th)' /\ CurShape(th)'
      BY <1>34, <2>1 DEF CleanupGive, TypeOK, Shape, OpShape, CurShape, CarryShape,
         FlushPcs, CleanupPcs, DeletePcs, ReleaseOps, Calls, Sync, born, result, lists,
         client, errors, network, app, rest
    <2>5. CarryShape(th)'
      BY <1>34, <2>1 DEF CleanupGive, TypeOK, Shape, OpShape, CurShape, CarryShape,
         FlushPcs, CleanupPcs, DeletePcs, ReleaseOps, Calls, Sync, born, result, lists,
         client, errors, network, app, rest
    <2>6. Goto(th, "cu_give")
      BY <1>34, <2>1 DEF CleanupGive, TypeOK, born, result, lists, client, errors, network,
         app, rest
    <2> QED BY <2>1, <2>2, <2>3, <2>4, <2>5, <2>6, ShapeFrame
  <1>35. ASSUME NEW th \in Users \cup {Loss, Resumer}, CleanupList(th) PROVE Shape'
    <2>1. th \in Threads
      BY DEF Threads
    <2>2. /\ used \subseteq used'
           /\ list' \subseteq used' /\ queue' \subseteq used' /\ handles' \subseteq used'
      BY <1>35 DEF CleanupList, TypeOK, Shape, OpShape, CurShape, CarryShape, FlushPcs,
         Calls, Sync, born, result, txnVars, client, errors, network, app, rest
    <2>3. \A x \in Threads \ {th} :
             /\ op'[x] = op[x] /\ cur'[x] = cur[x]
             /\ carry'[x] = carry[x] /\ work'[x] = work[x]
      BY <1>35, <2>1 DEF CleanupList, TypeOK, born, result, txnVars, client, errors,
         network, app, rest
    <2>4. th \in Users => OpShape(th)'
      BY <1>35, <2>1 DEF CleanupList, TypeOK, Shape, OpShape, FlushPcs, CleanupPcs,
         DeletePcs, ReleaseOps, Calls, Sync, AfterCleanup, AfterFlush, born, result,
         txnVars, client, errors, network, app, rest
    <2>5. th \in Users => CurShape(th)'
      BY <1>35, <2>1 DEF CleanupList, TypeOK, Shape, OpShape, CurShape, CarryShape,
         FlushPcs, CleanupPcs, DeletePcs, ReleaseOps, Calls, Sync, AfterCleanup,
         AfterFlush, born, result, txnVars, client, errors, network, app, rest
    <2>6. CarryShape(th)'
      BY <1>35, <2>1 DEF CleanupList, TypeOK, Shape, OpShape, CurShape, CarryShape,
         FlushPcs, CleanupPcs, DeletePcs, ReleaseOps, Calls, Sync, AfterCleanup,
         AfterFlush, born, result, txnVars, client, errors, network, app, rest
    <2>7. Goto(th, IF list = {} THEN AfterCleanup(th) ELSE "cu_fail")
      BY <1>35 DEF CleanupList
    <2> QED BY <2>1, <2>2, <2>3, <2>4, <2>5, <2>6, <2>7, ShapeFrame
  <1>36. ASSUME NEW th \in Users \cup {Loss, Resumer}, CleanupFail(th) PROVE Shape'
    <2>1. th \in Threads
      BY DEF Threads
    <2>2. /\ used \subseteq used'
           /\ list' \subseteq used' /\ queue' \subseteq used' /\ handles' \subseteq used'
      BY <1>36 DEF CleanupFail, TypeOK, Shape, OpShape, CurShape, CarryShape, FlushPcs,
         Calls, Sync, born, lists, client, errors, network, app, rest
    <2>3. \A x \in Threads \ {th} :
             /\ op'[x] = op[x] /\ cur'[x] = cur[x]
             /\ carry'[x] = carry[x] /\ work'[x] = work[x]
      BY <1>36, <2>1 DEF CleanupFail, TypeOK, born, lists, client, errors, network, app,
         rest
    <2>4. th \in Users => OpShape(th)'
      BY <1>36, <2>1 DEF CleanupFail, TypeOK, Shape, OpShape, FlushPcs, CleanupPcs,
         DeletePcs, ReleaseOps, Calls, Sync, born, lists, client, errors, network, app,
         rest
    <2>5. th \in Users => CurShape(th)'
      BY <1>36, <2>1 DEF CleanupFail, TypeOK, Shape, OpShape, CurShape, CarryShape,
         FlushPcs, CleanupPcs, DeletePcs, ReleaseOps, Calls, Sync, born, lists, client,
         errors, network, app, rest
    <2>6. CarryShape(th)'
      BY <1>36, <2>1 DEF CleanupFail, TypeOK, Shape, OpShape, CurShape, CarryShape,
         FlushPcs, CleanupPcs, DeletePcs, ReleaseOps, Calls, Sync, born, lists, client,
         errors, network, app, rest
    <2>7. Goto(th, "cu_drop")
      BY <1>36 DEF CleanupFail
    <2> QED BY <2>1, <2>2, <2>3, <2>4, <2>5, <2>6, <2>7, ShapeFrame
  <1>37. ASSUME NEW th \in Users \cup {Loss, Resumer}, CleanupDrop(th) PROVE Shape'
    <2>1. th \in Threads
      BY DEF Threads
    <2>2. /\ used \subseteq used'
           /\ list' \subseteq used' /\ queue' \subseteq used' /\ handles' \subseteq used'
      BY <1>37 DEF CleanupDrop, TypeOK, Shape, OpShape, CurShape, CarryShape, FlushPcs,
         Calls, Sync, born, result, lists, client, errors, network, app, rest
    <2>3. \A x \in Threads \ {th} :
             /\ op'[x] = op[x] /\ cur'[x] = cur[x]
             /\ carry'[x] = carry[x] /\ work'[x] = work[x]
      BY <1>37, <2>1 DEF CleanupDrop, TypeOK, born, result, lists, client, errors, network,
         app, rest
    <2>4. th \in Users => OpShape(th)'
      BY <1>37, <2>1 DEF CleanupDrop, TypeOK, Shape, OpShape, FlushPcs, CleanupPcs,
         DeletePcs, ReleaseOps, Calls, Sync, AfterCleanup, AfterFlush, born, result,
         lists, client, errors, network, app, rest
    <2>5. th \in Users => CurShape(th)'
      BY <1>37, <2>1 DEF CleanupDrop, TypeOK, Shape, OpShape, CurShape, CarryShape,
         FlushPcs, CleanupPcs, DeletePcs, ReleaseOps, Calls, Sync, AfterCleanup,
         AfterFlush, born, result, lists, client, errors, network, app, rest
    <2>6. CarryShape(th)'
      BY <1>37, <2>1 DEF CleanupDrop, TypeOK, Shape, OpShape, CurShape, CarryShape,
         FlushPcs, CleanupPcs, DeletePcs, ReleaseOps, Calls, Sync, AfterCleanup,
         AfterFlush, born, result, lists, client, errors, network, app, rest
    <2>7. Goto(th, IF carry[th] = {work[th]} THEN AfterCleanup(th) ELSE "cu_fail")
      BY <1>37 DEF CleanupDrop
    <2> QED BY <2>1, <2>2, <2>3, <2>4, <2>5, <2>6, <2>7, ShapeFrame
  <1>38. ASSUME NEW th \in Users \cup {Loss, Resumer}, FlushAddress(th) PROVE Shape'
    <2>1. th \in Threads
      BY DEF Threads
    <2>2. /\ used \subseteq used'
           /\ list' \subseteq used' /\ queue' \subseteq used' /\ handles' \subseteq used'
      BY <1>38 DEF FlushAddress, TypeOK, Shape, OpShape, CurShape, CarryShape, FlushPcs,
         Calls, Sync, born, result, txnVars, lists, client, errors, network, app, rest,
         hands
    <2>3. \A x \in Threads \ {th} :
             /\ op'[x] = op[x] /\ cur'[x] = cur[x]
             /\ carry'[x] = carry[x] /\ work'[x] = work[x]
      BY <1>38, <2>1 DEF FlushAddress, TypeOK, born, result, txnVars, lists, client, errors,
         network, app, rest, hands
    <2>4. th \in Users => OpShape(th)'
      BY <1>38, <2>1 DEF FlushAddress, TypeOK, Shape, OpShape, FlushPcs, CleanupPcs,
         DeletePcs, ReleaseOps, Calls, Sync, born, result, txnVars, lists, client,
         errors, network, app, rest, hands
    <2>5. th \in Users => CurShape(th)'
      BY <1>38, <2>1 DEF FlushAddress, TypeOK, Shape, OpShape, CurShape, CarryShape,
         FlushPcs, CleanupPcs, DeletePcs, ReleaseOps, Calls, Sync, born, result,
         txnVars, lists, client, errors, network, app, rest, hands
    <2>6. CarryShape(th)'
      BY <1>38, <2>1 DEF FlushAddress, TypeOK, Shape, OpShape, CurShape, CarryShape,
         FlushPcs, CleanupPcs, DeletePcs, ReleaseOps, Calls, Sync, born, result,
         txnVars, lists, client, errors, network, app, rest, hands
    <2>7. Goto(th, IF valid THEN "fl_send" ELSE "cu_queue")
      BY <1>38 DEF FlushAddress
    <2> QED BY <2>1, <2>2, <2>3, <2>4, <2>5, <2>6, <2>7, ShapeFrame
  <1>39. ASSUME NEW th \in Users \cup {Loss, Resumer}, FlushEnd(th) PROVE Shape'
    <2>1. th \in Threads
      BY DEF Threads
    <2>2. /\ used \subseteq used'
           /\ list' \subseteq used' /\ queue' \subseteq used' /\ handles' \subseteq used'
      BY <1>39 DEF FlushEnd, TypeOK, Shape, OpShape, CurShape, CarryShape, FlushPcs, Calls,
         Sync, born, result, txnVars, lists, client, errors, network, app, rest, hands
    <2>3. \A x \in Threads \ {th} :
             /\ op'[x] = op[x] /\ cur'[x] = cur[x]
             /\ carry'[x] = carry[x] /\ work'[x] = work[x]
      BY <1>39, <2>1 DEF FlushEnd, TypeOK, born, result, txnVars, lists, client, errors,
         network, app, rest, hands
    <2>4. th \in Users => OpShape(th)'
      BY <1>39, <2>1 DEF FlushEnd, TypeOK, Shape, OpShape, FlushPcs, CleanupPcs, DeletePcs,
         ReleaseOps, Calls, Sync, AfterFlush, born, result, txnVars, lists, client,
         errors, network, app, rest, hands
    <2>5. th \in Users => CurShape(th)'
      BY <1>39, <2>1 DEF FlushEnd, TypeOK, Shape, OpShape, CurShape, CarryShape, FlushPcs,
         CleanupPcs, DeletePcs, ReleaseOps, Calls, Sync, AfterFlush, born, result,
         txnVars, lists, client, errors, network, app, rest, hands
    <2>6. CarryShape(th)'
      BY <1>39, <2>1 DEF FlushEnd, TypeOK, Shape, OpShape, CurShape, CarryShape, FlushPcs,
         CleanupPcs, DeletePcs, ReleaseOps, Calls, Sync, AfterFlush, born, result,
         txnVars, lists, client, errors, network, app, rest, hands
    <2>7. Goto(th, AfterFlush(th))
      BY <1>39 DEF FlushEnd
    <2> QED BY <2>1, <2>2, <2>3, <2>4, <2>5, <2>6, <2>7, ShapeFrame
  <1>40. ASSUME NEW th \in Users \cup {Loss, Resumer}, FlushBusy(th) PROVE Shape'
    <2>1. th \in Threads
      BY DEF Threads
    <2>2. /\ used \subseteq used'
           /\ list' \subseteq used' /\ queue' \subseteq used' /\ handles' \subseteq used'
      BY <1>40 DEF FlushBusy, TypeOK, Shape, OpShape, CurShape, CarryShape, FlushPcs, Calls,
         Sync, born, result, txnVars, lists, client, errors, app, hands
    <2>3. \A x \in Threads \ {th} :
             /\ op'[x] = op[x] /\ cur'[x] = cur[x]
             /\ carry'[x] = carry[x] /\ work'[x] = work[x]
      BY <1>40, <2>1 DEF FlushBusy, TypeOK, born, result, txnVars, lists, client, errors,
         app, hands
    <2>4. th \in Users => OpShape(th)'
      BY <1>40, <2>1 DEF FlushBusy, TypeOK, Shape, OpShape, FlushPcs, CleanupPcs, DeletePcs,
         ReleaseOps, Calls, Sync, AfterFlush, born, result, txnVars, lists, client,
         errors, app, hands
    <2>5. th \in Users => CurShape(th)'
      BY <1>40, <2>1 DEF FlushBusy, TypeOK, Shape, OpShape, CurShape, CarryShape, FlushPcs,
         CleanupPcs, DeletePcs, ReleaseOps, Calls, Sync, AfterFlush, born, result,
         txnVars, lists, client, errors, app, hands
    <2>6. CarryShape(th)'
      BY <1>40, <2>1 DEF FlushBusy, TypeOK, Shape, OpShape, CurShape, CarryShape, FlushPcs,
         CleanupPcs, DeletePcs, ReleaseOps, Calls, Sync, AfterFlush, born, result,
         txnVars, lists, client, errors, app, hands
    <2>7. Goto(th, AfterFlush(th))
      BY <1>40 DEF FlushBusy
    <2> QED BY <2>1, <2>2, <2>3, <2>4, <2>5, <2>6, <2>7, ShapeFrame
  <1>41. ASSUME NEW th \in Users \cup {Loss, Resumer}, FlushSend(th) PROVE Shape'
    <2>1. th \in Threads
      BY DEF Threads
    <2>2. /\ used \subseteq used'
           /\ list' \subseteq used' /\ queue' \subseteq used' /\ handles' \subseteq used'
      BY <1>41 DEF FlushSend, TypeOK, Shape, OpShape, CurShape, CarryShape, FlushPcs, Calls,
         Sync, born, result, txnVars, client, errors, app
    <2>3. \A x \in Threads \ {th} :
             /\ op'[x] = op[x] /\ cur'[x] = cur[x]
             /\ carry'[x] = carry[x] /\ work'[x] = work[x]
      BY <1>41, <2>1 DEF FlushSend, TypeOK, born, result, txnVars, client, errors, app
    <2>4. th \in Users => OpShape(th)'
      BY <1>41, <2>1 DEF FlushSend, TypeOK, Shape, OpShape, FlushPcs, CleanupPcs, DeletePcs,
         ReleaseOps, Calls, Sync, born, result, txnVars, client, errors, app
    <2>5. th \in Users => CurShape(th)'
      BY <1>41, <2>1 DEF FlushSend, TypeOK, Shape, OpShape, CurShape, CarryShape, FlushPcs,
         CleanupPcs, DeletePcs, ReleaseOps, Calls, Sync, born, result, txnVars, client,
         errors, app
    <2>6. CarryShape(th)'
      BY <1>41, <2>1 DEF FlushSend, TypeOK, Shape, OpShape, CurShape, CarryShape, FlushPcs,
         CleanupPcs, DeletePcs, ReleaseOps, Calls, Sync, born, result, txnVars, client,
         errors, app
    <2>7. PICK l : Goto(th, l)
      BY <1>41 DEF FlushSend
    <2> QED BY <2>1, <2>2, <2>3, <2>4, <2>5, <2>6, <2>7, ShapeFrame
  <1>42. ASSUME NEW th \in Users \cup {Loss, Resumer}, FlushGive(th) PROVE Shape'
    <2>1. th \in Threads
      BY DEF Threads
    <2>2. /\ used \subseteq used'
           /\ list' \subseteq used' /\ queue' \subseteq used' /\ handles' \subseteq used'
      BY <1>42 DEF FlushGive, TypeOK, Shape, OpShape, CurShape, CarryShape, FlushPcs, Calls,
         Sync, born, result, lists, client, errors, network, app, rest
    <2>3. \A x \in Threads \ {th} :
             /\ op'[x] = op[x] /\ cur'[x] = cur[x]
             /\ carry'[x] = carry[x] /\ work'[x] = work[x]
      BY <1>42, <2>1 DEF FlushGive, TypeOK, born, result, lists, client, errors, network,
         app, rest
    <2>4. th \in Users => OpShape(th)'
      BY <1>42, <2>1 DEF FlushGive, TypeOK, Shape, OpShape, FlushPcs, CleanupPcs, DeletePcs,
         ReleaseOps, Calls, Sync, born, result, lists, client, errors, network, app,
         rest
    <2>5. th \in Users => CurShape(th)'
      BY <1>42, <2>1 DEF FlushGive, TypeOK, Shape, OpShape, CurShape, CarryShape, FlushPcs,
         CleanupPcs, DeletePcs, ReleaseOps, Calls, Sync, born, result, lists, client,
         errors, network, app, rest
    <2>6. CarryShape(th)'
      BY <1>42, <2>1 DEF FlushGive, TypeOK, Shape, OpShape, CurShape, CarryShape, FlushPcs,
         CleanupPcs, DeletePcs, ReleaseOps, Calls, Sync, born, result, lists, client,
         errors, network, app, rest
    <2>7. Goto(th, IF pc[th] = "fl_sent" THEN "fl_send" ELSE "fl_log")
      BY <1>42 DEF FlushGive
    <2> QED BY <2>1, <2>2, <2>3, <2>4, <2>5, <2>6, <2>7, ShapeFrame
  <1>43. ASSUME NEW th \in Users \cup {Loss, Resumer}, FlushFind(th) PROVE Shape'
    <2>1. th \in Threads
      BY DEF Threads
    <2>2. /\ used \subseteq used'
           /\ list' \subseteq used' /\ queue' \subseteq used' /\ handles' \subseteq used'
      BY <1>43 DEF FlushFind, TypeOK, Shape, OpShape, CurShape, CarryShape, FlushPcs, Calls,
         Sync, born, result, txnVars, client, errors, network, app, rest
    <2>3. \A x \in Threads \ {th} :
             /\ op'[x] = op[x] /\ cur'[x] = cur[x]
             /\ carry'[x] = carry[x] /\ work'[x] = work[x]
      BY <1>43, <2>1 DEF FlushFind, TypeOK, born, result, txnVars, client, errors, network,
         app, rest
    <2>4. th \in Users => OpShape(th)'
      BY <1>43, <2>1 DEF FlushFind, TypeOK, Shape, OpShape, FlushPcs, CleanupPcs, DeletePcs,
         ReleaseOps, Calls, Sync, born, result, txnVars, client, errors, network, app,
         rest
    <2>5. th \in Users => CurShape(th)'
      BY <1>43, <2>1 DEF FlushFind, TypeOK, Shape, OpShape, CurShape, CarryShape, FlushPcs,
         CleanupPcs, DeletePcs, ReleaseOps, Calls, Sync, born, result, txnVars, client,
         errors, network, app, rest
    <2>6. CarryShape(th)'
      BY <1>43, <2>1 DEF FlushFind, TypeOK, Shape, OpShape, CurShape, CarryShape, FlushPcs,
         CleanupPcs, DeletePcs, ReleaseOps, Calls, Sync, born, result, txnVars, client,
         errors, network, app, rest
    <2>7. PICK l : Goto(th, l)
      BY <1>43 DEF FlushFind
    <2> QED BY <2>1, <2>2, <2>3, <2>4, <2>5, <2>6, <2>7, ShapeFrame
  <1>44. ASSUME NEW th \in Users \cup {Loss, Resumer}, FlushFail(th) PROVE Shape'
    <2>1. th \in Threads
      BY DEF Threads
    <2>2. /\ used \subseteq used'
           /\ list' \subseteq used' /\ queue' \subseteq used' /\ handles' \subseteq used'
      BY <1>44 DEF FlushFail, TypeOK, Shape, OpShape, CurShape, CarryShape, FlushPcs, Calls,
         Sync, born, lists, client, errors, network, app, rest, hands
    <2>3. \A x \in Threads \ {th} :
             /\ op'[x] = op[x] /\ cur'[x] = cur[x]
             /\ carry'[x] = carry[x] /\ work'[x] = work[x]
      BY <1>44, <2>1 DEF FlushFail, TypeOK, born, lists, client, errors, network, app, rest,
         hands
    <2>4. th \in Users => OpShape(th)'
      BY <1>44, <2>1 DEF FlushFail, TypeOK, Shape, OpShape, FlushPcs, CleanupPcs, DeletePcs,
         ReleaseOps, Calls, Sync, born, lists, client, errors, network, app, rest, hands
    <2>5. th \in Users => CurShape(th)'
      BY <1>44, <2>1 DEF FlushFail, TypeOK, Shape, OpShape, CurShape, CarryShape, FlushPcs,
         CleanupPcs, DeletePcs, ReleaseOps, Calls, Sync, born, lists, client, errors,
         network, app, rest, hands
    <2>6. CarryShape(th)'
      BY <1>44, <2>1 DEF FlushFail, TypeOK, Shape, OpShape, CurShape, CarryShape, FlushPcs,
         CleanupPcs, DeletePcs, ReleaseOps, Calls, Sync, born, lists, client, errors,
         network, app, rest, hands
    <2>7. Goto(th, "fl_drop")
      BY <1>44 DEF FlushFail
    <2> QED BY <2>1, <2>2, <2>3, <2>4, <2>5, <2>6, <2>7, ShapeFrame
  <1>45. ASSUME NEW th \in Users \cup {Loss, Resumer}, FlushDrop(th) PROVE Shape'
    <2>1. th \in Threads
      BY DEF Threads
    <2>2. /\ used \subseteq used'
           /\ list' \subseteq used' /\ queue' \subseteq used' /\ handles' \subseteq used'
      BY <1>45 DEF FlushDrop, TypeOK, Shape, OpShape, CurShape, CarryShape, FlushPcs, Calls,
         Sync, born, result, lists, client, errors, network, app, rest
    <2>3. \A x \in Threads \ {th} :
             /\ op'[x] = op[x] /\ cur'[x] = cur[x]
             /\ carry'[x] = carry[x] /\ work'[x] = work[x]
      BY <1>45, <2>1 DEF FlushDrop, TypeOK, born, result, lists, client, errors, network,
         app, rest
    <2>4. th \in Users => OpShape(th)'
      BY <1>45, <2>1 DEF FlushDrop, TypeOK, Shape, OpShape, FlushPcs, CleanupPcs, DeletePcs,
         ReleaseOps, Calls, Sync, born, result, lists, client, errors, network, app,
         rest
    <2>5. th \in Users => CurShape(th)'
      BY <1>45, <2>1 DEF FlushDrop, TypeOK, Shape, OpShape, CurShape, CarryShape, FlushPcs,
         CleanupPcs, DeletePcs, ReleaseOps, Calls, Sync, born, result, lists, client,
         errors, network, app, rest
    <2>6. CarryShape(th)'
      BY <1>45, <2>1 DEF FlushDrop, TypeOK, Shape, OpShape, CurShape, CarryShape, FlushPcs,
         CleanupPcs, DeletePcs, ReleaseOps, Calls, Sync, born, result, lists, client,
         errors, network, app, rest
    <2>7. Goto(th, "fl_send")
      BY <1>45 DEF FlushDrop
    <2> QED BY <2>1, <2>2, <2>3, <2>4, <2>5, <2>6, <2>7, ShapeFrame
  <1>46. ASSUME LoseServer PROVE Shape'
    <2>1. CASE valid
      <3>1. Loss \in Threads
        BY DEF Threads
      <3>2. /\ used \subseteq used'
             /\ list' \subseteq used' /\ queue' \subseteq used' /\ handles' \subseteq used'
        BY <1>46, <2>1 DEF LoseServer, TypeOK, Shape, born, result, txnVars, lists, errors,
           hands
      <3>3. \A x \in Threads \ {Loss} :
               /\ op'[x] = op[x] /\ cur'[x] = cur[x]
               /\ carry'[x] = carry[x] /\ work'[x] = work[x]
        BY <1>46, <2>1, <3>1 DEF LoseServer, TypeOK, born, result, txnVars, lists, errors,
           hands
      <3>4. Loss \notin Users
        OBVIOUS
      <3>5. CarryShape(Loss)'
        BY <1>46, <2>1, <3>1 DEF LoseServer, TypeOK, Shape, OpShape, CurShape, CarryShape,
           FlushPcs, CleanupPcs, DeletePcs, ReleaseOps, Calls, Sync, born, result,
           txnVars, lists, errors, hands
      <3>6. Goto(Loss, "cu_queue")
        BY <1>46, <2>1, <3>1 DEF LoseServer, TypeOK, born, result, txnVars, lists, errors,
           hands
      <3> QED BY <3>1, <3>2, <3>3, <3>4, <3>5, <3>6, ShapeFrame
    <2>2. CASE ~valid
      BY <1>46, <2>2, ShapeSame DEF LoseServer, Shape, born, result, txnVars, lists, errors,
         hands
    <2> QED BY <1>46, <2>1, <2>2 DEF LoseServer
  <1>47. ASSUME Notify PROVE Shape'
    <2>1. CASE errCb
      <3>1. Loss \in Threads
        BY DEF Threads
      <3>2. /\ used \subseteq used'
             /\ list' \subseteq used' /\ queue' \subseteq used' /\ handles' \subseteq used'
        BY <1>47, <2>1 DEF Notify, TypeOK, Shape, born, result, txnVars, lists, client,
           network, app, hands
      <3>3. \A x \in Threads \ {Loss} :
               /\ op'[x] = op[x] /\ cur'[x] = cur[x]
               /\ carry'[x] = carry[x] /\ work'[x] = work[x]
        BY <1>47, <2>1, <3>1 DEF Notify, TypeOK, born, result, txnVars, lists, client,
           network, app, hands
      <3>4. Loss \notin Users
        OBVIOUS
      <3>5. CarryShape(Loss)'
        BY <1>47, <2>1, <3>1 DEF Notify, TypeOK, Shape, OpShape, CurShape, CarryShape,
           FlushPcs, CleanupPcs, DeletePcs, ReleaseOps, Calls, Sync, born, result,
           txnVars, lists, client, network, app, hands
      <3>6. Goto(Loss, "err_call")
        BY <1>47, <2>1, <3>1 DEF Notify, TypeOK, born, result, txnVars, lists, client,
           network, app, hands
      <3> QED BY <3>1, <3>2, <3>3, <3>4, <3>5, <3>6, ShapeFrame
    <2>2. CASE ~errCb
      <3>1. Loss \in Threads
        BY DEF Threads
      <3>2. /\ used \subseteq used'
             /\ list' \subseteq used' /\ queue' \subseteq used' /\ handles' \subseteq used'
        BY <1>47, <2>2 DEF Notify, TypeOK, Shape, born, result, txnVars, lists, client,
           network, app, hands
      <3>3. \A x \in Threads \ {Loss} :
               /\ op'[x] = op[x] /\ cur'[x] = cur[x]
               /\ carry'[x] = carry[x] /\ work'[x] = work[x]
        BY <1>47, <2>2, <3>1 DEF Notify, TypeOK, born, result, txnVars, lists, client,
           network, app, hands
      <3>4. Loss \notin Users
        OBVIOUS
      <3>5. CarryShape(Loss)'
        BY <1>47, <2>2, <3>1 DEF Notify, TypeOK, Shape, OpShape, CurShape, CarryShape,
           FlushPcs, CleanupPcs, DeletePcs, ReleaseOps, Calls, Sync, born, result,
           txnVars, lists, client, network, app, hands
      <3>6. Goto(Loss, "idle")
        BY <1>47, <2>2, <3>1 DEF Notify, TypeOK, born, result, txnVars, lists, client,
           network, app, hands
      <3> QED BY <3>1, <3>2, <3>3, <3>4, <3>5, <3>6, ShapeFrame
    <2> QED BY <2>1, <2>2
  <1>48. ASSUME ErrorCall PROVE Shape'
    <2>1. Loss \in Threads
      BY DEF Threads
    <2>2. /\ used \subseteq used'
           /\ list' \subseteq used' /\ queue' \subseteq used' /\ handles' \subseteq used'
      BY <1>48 DEF ErrorCall, TypeOK, Shape, OpShape, CurShape, CarryShape, FlushPcs, Calls,
         Sync, born, result, txnVars, lists, client, network, app, hands
    <2>3. \A x \in Threads \ {Loss} :
             /\ op'[x] = op[x] /\ cur'[x] = cur[x]
             /\ carry'[x] = carry[x] /\ work'[x] = work[x]
      BY <1>48, <2>1 DEF ErrorCall, TypeOK, born, result, txnVars, lists, client, network,
         app, hands
    <2>4. Loss \notin Users
      OBVIOUS
    <2>5. CarryShape(Loss)'
      BY <1>48, <2>1 DEF ErrorCall, TypeOK, Shape, OpShape, CurShape, CarryShape, FlushPcs,
         CleanupPcs, DeletePcs, ReleaseOps, Calls, Sync, born, result, txnVars, lists,
         client, network, app, hands
    <2>6. Goto(Loss, "idle")
      BY <1>48 DEF ErrorCall
    <2> QED BY <2>1, <2>2, <2>3, <2>4, <2>5, <2>6, ShapeFrame
  <1>49. ASSUME Resume PROVE Shape'
    <2>1. Resumer \in Threads
      BY DEF Threads
    <2>2. /\ used \subseteq used'
           /\ list' \subseteq used' /\ queue' \subseteq used' /\ handles' \subseteq used'
      BY <1>49 DEF Resume, TypeOK, Shape, OpShape, CurShape, CarryShape, FlushPcs, Calls,
         Sync, born, result, txnVars, lists, client, errors, app, hands
    <2>3. \A x \in Threads \ {Resumer} :
             /\ op'[x] = op[x] /\ cur'[x] = cur[x]
             /\ carry'[x] = carry[x] /\ work'[x] = work[x]
      BY <1>49, <2>1 DEF Resume, TypeOK, born, result, txnVars, lists, client, errors, app,
         hands
    <2>4. Resumer \notin Users
      OBVIOUS
    <2>5. CarryShape(Resumer)'
      BY <1>49, <2>1 DEF Resume, TypeOK, Shape, OpShape, CurShape, CarryShape, FlushPcs,
         CleanupPcs, DeletePcs, ReleaseOps, Calls, Sync, born, result, txnVars, lists,
         client, errors, app, hands
    <2>6. Goto(Resumer, "fl_addr")
      BY <1>49 DEF Resume
    <2> QED BY <2>1, <2>2, <2>3, <2>4, <2>5, <2>6, ShapeFrame
  <1>50. ASSUME Closed PROVE Shape'
    BY <1>50, ShapeSame DEF Closed, Shape, born, result, txnVars, lists, errors, app, hands, PutClient
  <1>51. ASSUME Receive PROVE Shape'
    <2>1. CASE \E t \in list : /\ list' = list \ {t}
                              /\ Carry(Rx, {t})
                              /\ work' = [work EXCEPT ![Rx] = t]
                              /\ \E v : cur' = [cur EXCEPT ![Rx] = v]
                              /\ Goto(Rx, "found")
      <3>1. Rx \in Threads
        BY DEF Threads
      <3>2. /\ used \subseteq used'
             /\ list' \subseteq used' /\ queue' \subseteq used' /\ handles' \subseteq used'
        BY <1>51, <2>1 DEF Receive, TypeOK, Shape, born, result, txnVars, client, errors,
           hands
      <3>3. \A x \in Threads \ {Rx} :
               /\ op'[x] = op[x] /\ cur'[x] = cur[x]
               /\ carry'[x] = carry[x] /\ work'[x] = work[x]
        BY <1>51, <2>1, <3>1 DEF Receive, TypeOK, born, result, txnVars, client, errors,
           hands
      <3>4. Rx \notin Users
        OBVIOUS
      <3>5. CarryShape(Rx)'
        BY <1>51, <2>1, <3>1 DEF Receive, TypeOK, Shape, OpShape, CurShape, CarryShape,
           FlushPcs, CleanupPcs, DeletePcs, ReleaseOps, Calls, Sync, born, result,
           txnVars, client, errors, hands
      <3>6. Goto(Rx, "found")
        BY <1>51, <2>1, <3>1 DEF Receive, TypeOK, born, result, txnVars, client, errors,
           hands
      <3> QED BY <3>1, <3>2, <3>3, <3>4, <3>5, <3>6, ShapeFrame
    <2>2. CASE UNCHANGED <<list, cur, pc, hands>>
      BY <1>51, <2>2, ShapeSame DEF Receive, Shape, born, result, txnVars, client, errors,
         hands
    <2> QED BY <1>51, <2>1, <2>2 DEF Receive
  <1>52. ASSUME Mismatch PROVE Shape'
    <2>1. Rx \in Threads
      BY DEF Threads
    <2>2. /\ used \subseteq used'
           /\ list' \subseteq used' /\ queue' \subseteq used' /\ handles' \subseteq used'
      BY <1>52 DEF Mismatch, TypeOK, Shape, OpShape, CurShape, CarryShape, FlushPcs, Calls,
         Sync, born, lists, client, errors, network, app, rest, hands
    <2>3. \A x \in Threads \ {Rx} :
             /\ op'[x] = op[x] /\ cur'[x] = cur[x]
             /\ carry'[x] = carry[x] /\ work'[x] = work[x]
      BY <1>52, <2>1 DEF Mismatch, TypeOK, born, lists, client, errors, network, app, rest,
         hands
    <2>4. Rx \notin Users
      OBVIOUS
    <2>5. CarryShape(Rx)'
      BY <1>52, <2>1 DEF Mismatch, TypeOK, Shape, OpShape, CurShape, CarryShape, FlushPcs,
         CleanupPcs, DeletePcs, ReleaseOps, Calls, Sync, born, lists, client, errors,
         network, app, rest, hands
    <2>6. Goto(Rx, "rx_drop")
      BY <1>52 DEF Mismatch
    <2> QED BY <2>1, <2>2, <2>3, <2>4, <2>5, <2>6, ShapeFrame
  <1>53. ASSUME LockTxn PROVE Shape'
    <2>1. Rx \in Threads
      BY DEF Threads
    <2>2. /\ used \subseteq used'
           /\ list' \subseteq used' /\ queue' \subseteq used' /\ handles' \subseteq used'
      BY <1>53 DEF LockTxn, TypeOK, Shape, OpShape, CurShape, CarryShape, FlushPcs, Calls,
         Sync, born, result, txnVars, lists, client, errors, network, app, rest, hands
    <2>3. \A x \in Threads \ {Rx} :
             /\ op'[x] = op[x] /\ cur'[x] = cur[x]
             /\ carry'[x] = carry[x] /\ work'[x] = work[x]
      BY <1>53, <2>1 DEF LockTxn, TypeOK, born, result, txnVars, lists, client, errors,
         network, app, rest, hands
    <2>4. Rx \notin Users
      OBVIOUS
    <2>5. CarryShape(Rx)'
      BY <1>53, <2>1 DEF LockTxn, TypeOK, Shape, OpShape, CurShape, CarryShape, FlushPcs,
         CleanupPcs, DeletePcs, ReleaseOps, Calls, Sync, born, result, txnVars, lists,
         client, errors, network, app, rest, hands
    <2>6. Goto(Rx, IF buf[work[Rx]] THEN "decode" ELSE "rx_drop")
      BY <1>53 DEF LockTxn
    <2> QED BY <2>1, <2>2, <2>3, <2>4, <2>5, <2>6, ShapeFrame
  <1>54. ASSUME Decode PROVE Shape'
    <2>1. Rx \in Threads
      BY DEF Threads
    <2>2. /\ used \subseteq used'
           /\ list' \subseteq used' /\ queue' \subseteq used' /\ handles' \subseteq used'
      BY <1>54 DEF Decode, TypeOK, Shape, OpShape, CurShape, CarryShape, FlushPcs, Calls,
         Sync, born, lists, client, errors, network, app, rest, hands
    <2>3. \A x \in Threads \ {Rx} :
             /\ op'[x] = op[x] /\ cur'[x] = cur[x]
             /\ carry'[x] = carry[x] /\ work'[x] = work[x]
      BY <1>54, <2>1 DEF Decode, TypeOK, born, lists, client, errors, network, app, rest,
         hands
    <2>4. Rx \notin Users
      OBVIOUS
    <2>5. CarryShape(Rx)'
      BY <1>54, <2>1 DEF Decode, TypeOK, Shape, OpShape, CurShape, CarryShape, FlushPcs,
         CleanupPcs, DeletePcs, ReleaseOps, Calls, Sync, born, lists, client, errors,
         network, app, rest, hands
    <2>6. Goto(Rx, "rx_drop")
      BY <1>54 DEF Decode
    <2> QED BY <2>1, <2>2, <2>3, <2>4, <2>5, <2>6, ShapeFrame
  <1>55. ASSUME ReceiveDrop PROVE Shape'
    <2>1. Rx \in Threads
      BY DEF Threads
    <2>2. /\ used \subseteq used'
           /\ list' \subseteq used' /\ queue' \subseteq used' /\ handles' \subseteq used'
      BY <1>55 DEF ReceiveDrop, TypeOK, Shape, OpShape, CurShape, CarryShape, FlushPcs,
         Calls, Sync, born, result, lists, client, errors, network
    <2>3. \A x \in Threads \ {Rx} :
             /\ op'[x] = op[x] /\ cur'[x] = cur[x]
             /\ carry'[x] = carry[x] /\ work'[x] = work[x]
      BY <1>55, <2>1 DEF ReceiveDrop, TypeOK, born, result, lists, client, errors, network
    <2>4. Rx \notin Users
      OBVIOUS
    <2>5. CarryShape(Rx)'
      BY <1>55, <2>1 DEF ReceiveDrop, TypeOK, Shape, OpShape, CurShape, CarryShape,
         FlushPcs, CleanupPcs, DeletePcs, ReleaseOps, Calls, Sync, born, result, lists,
         client, errors, network
    <2>6. Goto(Rx, "idle")
      BY <1>55 DEF ReceiveDrop
    <2> QED BY <2>1, <2>2, <2>3, <2>4, <2>5, <2>6, ShapeFrame
  <1>56. ASSUME OpenPort PROVE Shape'
    BY <1>56, ShapeSame DEF OpenPort, Shape, born, result, txnVars, lists, errors, hands
  <1>56a. ASSUME AddXport PROVE Shape'
    BY <1>56a, ShapeSame DEF AddXport, Shape, born, result, txnVars, lists, errors, network, hands
  <1>57. ASSUME FillAddress PROVE Shape'
    BY <1>57, ShapeSame DEF FillAddress, Shape, born, result, txnVars, lists, errors, network, hands
  <1>58. ASSUME LookupAgain PROVE Shape'
    BY <1>58, ShapeSame DEF LookupAgain, Shape, born, result, txnVars, lists, errors, hands, PutClient
  <1>59. ASSUME ServerGone PROVE Shape'
    BY <1>59, ShapeSame DEF ServerGone, Shape, born, result, txnVars, lists, client, errors, app, hands
  <1>60. CASE UNCHANGED vars
    BY <1>60, ShapeSame DEF Shape, born, result, txnVars, lists, client, errors, network,
      app, rest, hands, vars, vars
  <1> QED
    BY <1>1, <1>2, <1>3, <1>4, <1>5, <1>6, <1>7, <1>8, <1>9, <1>10, <1>11, <1>12,
       <1>13, <1>14, <1>15, <1>16, <1>17, <1>18, <1>19, <1>20, <1>21, <1>22, <1>23,
       <1>24, <1>25, <1>26, <1>27, <1>28, <1>29, <1>30, <1>31, <1>32, <1>33, <1>34,
       <1>35, <1>36, <1>37, <1>38, <1>39, <1>40, <1>41, <1>42, <1>43, <1>44, <1>45,
       <1>46, <1>47, <1>48, <1>49, <1>50, <1>51, <1>52, <1>53, <1>54, <1>55, <1>56,
       <1>56a, <1>57, <1>58, <1>59, <1>60, Zenon DEF Next, Call, Delete, Release,
       Register, Cleanup, Flush, Router, Opening

-----------------------------------------------------------------------------
(***************************************************************************)
(* The invariant of types and shapes                                       *)
(***************************************************************************)

\* Types and shapes hold when the client is allocated.
LEMMA ShapeInit ==
  ASSUME Init
  PROVE  TypeOK /\ Shape
  <1>1. TypeOK
    <2>1. NumberType BY DEF Init, NumberType
    <2>2. SetType /\ ClientFlags /\ ErrorFlags /\ NetworkFlags
      BY DEF Init, SetType, ClientFlags, ErrorFlags, NetworkFlags
    <2>3. TxnFlags BY DEF Init, TxnFlags, Calls, Sync
    <2>4. pc \in [Threads -> Pcs] BY DEF Init, Pcs
    <2>5. op \in [Threads -> OpNames] BY DEF Init, OpNames, Calls, Sync
    <2>6. ThreadType BY <2>4, <2>5 DEF Init, ThreadType
    <2> QED
      BY <2>1, <2>2, <2>3, <2>6 DEF TypeOK, NumberType, SetType, ClientFlags, ErrorFlags,
         NetworkFlags, TxnFlags, ThreadType
  <1>2. ASSUME NEW u \in Users PROVE OpShape(u) /\ CurShape(u)
    <2>1. pc[u] = "idle" /\ op[u] = "none" /\ cur[u] = Null BY DEF Init, Threads
    <2> QED BY <2>1 DEF OpShape, CurShape, FlushPcs, CleanupPcs, DeletePcs, Calls, Sync
  <1>3. ASSUME NEW th \in Threads PROVE CarryShape(th)
    <2>1. pc[th] = "idle" /\ carry[th] = {} BY DEF Init
    <2> QED BY <2>1 DEF CarryShape
  <1> QED BY <1>1, <1>2, <1>3 DEF Init, Shape

\* The variables have their types, for any threads, transactions and masks: no step
\* writes outside the transactions that were made, and the next id is never 0.
THEOREM TypeCorrect == Spec => []TypeOK
  <1>1. Init => TypeOK /\ Shape BY ShapeInit
  <1>2. TypeOK /\ Shape /\ [Next]_vars => TypeOK' /\ Shape' BY TypeStep, ShapeStep
  <1> QED BY <1>1, <1>2, PTL DEF Spec

-----------------------------------------------------------------------------
(***************************************************************************)
(* Counting references                                                     *)
(***************************************************************************)

\* A set that gains or loses one element
LEMMA CountOne ==
  ASSUME NEW S, IsFiniteSet(S), NEW T, NEW x, T \ {x} = S \ {x}
  PROVE  /\ IsFiniteSet(T)
         /\ Cardinality(S) \in Nat /\ Cardinality(T) \in Nat
         /\ Cardinality(T) = Cardinality(S) + One(x \in T) - One(x \in S)
  <1>1. CASE x \in S
    <2>1. CASE x \in T
      <3>1. S = T BY <1>1, <2>1
      <3> QED BY <1>1, <2>1, <3>1, FS_CardinalityType DEF One
    <2>2. CASE x \notin T
      <3>1. T = S \ {x} BY <1>1, <2>2
      <3> QED BY <1>1, <2>2, <3>1, FS_CardinalityType, FS_RemoveElement DEF One
    <2> QED BY <2>1, <2>2
  <1>2. CASE x \notin S
    <2>1. CASE x \in T
      <3>1. T = S \cup {x} BY <1>2, <2>1
      <3> QED BY <1>2, <2>1, <3>1, FS_CardinalityType, FS_AddElement DEF One
    <2>2. CASE x \notin T
      <3>1. S = T BY <1>2, <2>2
      <3> QED BY <1>2, <2>2, <3>1, FS_CardinalityType DEF One
    <2> QED BY <2>1, <2>2
  <1> QED BY <1>1, <1>2

\* The threads are finitely many, so that what they hold can be counted.
LEMMA ThreadsFinite == IsFiniteSet(Threads)
  <1>1. IsFiniteSet({Loss, Resumer, Rx})
    <2>1. IsFiniteSet({}) BY FS_EmptySet
    <2>2. IsFiniteSet({} \cup {Loss}) BY <2>1, FS_AddElement
    <2>3. IsFiniteSet(({} \cup {Loss}) \cup {Resumer}) BY <2>2, FS_AddElement
    <2>4. IsFiniteSet((({} \cup {Loss}) \cup {Resumer}) \cup {Rx}) BY <2>3, FS_AddElement
    <2>5. (({} \cup {Loss}) \cup {Resumer}) \cup {Rx} = {Loss, Resumer, Rx} OBVIOUS
    <2> QED BY <2>4, <2>5
  <1> QED BY <1>1, FS_Union DEF Threads

\* So are those that hold a reference on a transaction.
LEMMA HoldersFinite ==
  ASSUME NEW t
  PROVE  /\ IsFiniteSet(Callers(t)) /\ IsFiniteSet(Carriers(t))
         /\ Cardinality(Callers(t)) \in Nat /\ Cardinality(Carriers(t)) \in Nat
  <1>1. IsFiniteSet(Callers(t)) BY FS_Subset DEF Callers
  <1>2. IsFiniteSet(Carriers(t)) BY FS_Subset, ThreadsFinite DEF Carriers
  <1> QED BY <1>1, <1>2, FS_CardinalityType

\* Only thread th carries other transactions than before.
OnlyCarrier(th) == \A x \in Threads \ {th} : carry'[x] = carry[x]

\* The references of the calls stay.
CallersStay == \A u \in Users : /\ Owning(u)' <=> Owning(u)
                                /\ Owning(u) => cur'[u] = cur[u]

\* What thread th takes out or gives up is what the count of carriers changes by.
LEMMA CarryCount ==
  ASSUME TypeOK, NEW th \in Threads, OnlyCarrier(th), NEW t \in Txns
  PROVE  Cardinality(Carriers(t)') = Cardinality(Carriers(t))
                                       + One(t \in carry'[th]) - One(t \in carry[th])
  <1>1. Carriers(t)' \ {th} = Carriers(t) \ {th} BY DEF Carriers, OnlyCarrier
  <1>2. IsFiniteSet(Carriers(t)) BY HoldersFinite
  <1>3. /\ (th \in Carriers(t)) <=> (t \in carry[th])
        /\ (th \in Carriers(t)') <=> (t \in carry'[th])
    BY DEF Carriers
  <1>4. One(th \in Carriers(t)) = One(t \in carry[th])
        /\ One(th \in Carriers(t)') = One(t \in carry'[th])
    BY <1>3 DEF One
  <1> QED BY <1>1, <1>2, <1>4, CountOne

\* The calls that have a reference on t are the same.
LEMMA CallersKept ==
  ASSUME CallersStay, NEW t
  PROVE  Callers(t)' = Callers(t)
  BY DEF Callers, CallersStay

\* What a step adds to ref_count of a transaction is what it adds to its references.
LEMMA RefsFrame ==
  ASSUME TypeOK, RefsExact, ~crashed,
         NEW th \in Threads, OnlyCarrier(th), CallersStay,
         \A t \in Txns :
           ref'[t] = ref[t] + (One(t \in list') - One(t \in list))
                       + (One(t \in queue') - One(t \in queue))
                       + (One(t \in carry'[th]) - One(t \in carry[th]))
  PROVE  RefsExact'
  <1> SUFFICES ASSUME NEW t \in Txns PROVE ref'[t] = References(t)'
    BY DEF RefsExact
  <1> DEFINE a == One(t \in list)   b == One(t \in queue)   c == One(t \in carry[th])
             d == One(t \in list')  e == One(t \in queue')  f == One(t \in carry'[th])
             m == Cardinality(Callers(t))  n == Cardinality(Carriers(t))
             k == Cardinality(Carriers(t)')
  <1>1. a \in Int /\ b \in Int /\ c \in Int /\ d \in Int /\ e \in Int /\ f \in Int
    BY DEF One
  <1>2. m \in Nat /\ n \in Nat BY HoldersFinite
  <1>3. ref[t] = a + b + m + n BY DEF RefsExact, References
  <1>4. k = n + f - c BY CarryCount
  <1>5. Callers(t)' = Callers(t) BY CallersKept
  <1>6. References(t)' = d + e + m + k BY <1>5 DEF References
  <1>7. ref'[t] = ref[t] + (d - a) + (e - b) + (f - c) OBVIOUS
  <1> HIDE DEF a, b, c, d, e, f, m, n, k
  <1> QED BY <1>1, <1>2, <1>3, <1>4, <1>6, <1>7

\* Nothing refers to memory that is not a transaction yet.
LEMMA Unborn ==
  ASSUME TypeOK, Shape, RefsExact, ~crashed, NEW t \in Txns \ used
  PROVE  ref[t] = 0
  <1>1. Callers(t) = {}
    <2>1. ASSUME NEW u \in Users PROVE cur[u] # t
      BY DEF Shape, CurShape
    <2> QED BY <2>1 DEF Callers
  <1>2. Carriers(t) = {}
    <2>1. ASSUME NEW th \in Threads PROVE t \notin carry[th]
      BY DEF Shape, CarryShape
    <2> QED BY <2>1 DEF Carriers
  <1>3. t \notin list /\ t \notin queue BY DEF Shape
  <1>4. ref[t] = References(t) BY DEF RefsExact
  <1> QED BY <1>1, <1>2, <1>3, <1>4, FS_EmptySet DEF References, One

\* A step of th leaves the references of calls alone if it leaves that of th alone.
LEMMA CallersFrame ==
  ASSUME TypeOK, NEW th \in Threads, NEW l, Goto(th, l),
         \A x \in Threads \ {th} : op'[x] = op[x] /\ cur'[x] = cur[x],
         th \in Users => /\ Owning(th)' <=> Owning(th)
                         /\ Owning(th) => cur'[th] = cur[th]
  PROVE  CallersStay
  <1> SUFFICES ASSUME NEW u \in Users
               PROVE  (Owning(u)' <=> Owning(u)) /\ (Owning(u) => cur'[u] = cur[u])
    BY DEF CallersStay
  <1>1. CASE u = th BY <1>1
  <1>2. CASE u # th
    <2>1. u \in Threads \ {th} BY <1>2 DEF Threads
    <2>2. pc'[u] = pc[u] /\ op'[u] = op[u] /\ cur'[u] = cur[u] BY <2>1 DEF TypeOK
    <2> QED BY <2>2 DEF Owning
  <1> QED BY <1>1, <1>2

\* So does a step that moves no thread.
LEMMA CallersSame ==
  ASSUME UNCHANGED <<pc, op, cur>>
  PROVE  CallersStay
  BY DEF CallersStay, Owning

\* A step that changes no count, list or hand keeps the counts exact.
LEMMA RefsSame ==
  ASSUME RefsExact, UNCHANGED <<ref, list, queue, carry, crashed>>, CallersStay
  PROVE  RefsExact'
  <1> SUFFICES ASSUME ~crashed, NEW t \in Txns PROVE ref'[t] = References(t)'
    BY DEF RefsExact
  <1>1. ref[t] = References(t) BY DEF RefsExact
  <1>2. Callers(t)' = Callers(t) BY CallersKept
  <1>3. Carriers(t)' = Carriers(t) BY DEF Carriers
  <1> QED BY <1>1, <1>2, <1>3 DEF References, One

\* A call takes its own reference, or gives it up.
LEMMA RefsOwn ==
  ASSUME TypeOK, RefsExact, ~crashed, UNCHANGED <<list, queue, carry, cur>>,
         NEW u \in Users, \A v \in Users \ {u} : Owning(v)' <=> Owning(v),
         \A t \in Txns :
           ref'[t] = ref[t] + One(u \in Callers(t)') - One(u \in Callers(t))
  PROVE  RefsExact'
  <1> SUFFICES ASSUME NEW t \in Txns PROVE ref'[t] = References(t)'
    BY DEF RefsExact
  <1> DEFINE a == One(t \in list)       b == One(t \in queue)
             c == One(u \in Callers(t)) d == One(u \in Callers(t)')
             m == Cardinality(Callers(t)) n == Cardinality(Carriers(t))
             k == Cardinality(Callers(t)')
  <1>1. a \in Int /\ b \in Int /\ c \in Int /\ d \in Int BY DEF One
  <1>2. m \in Nat /\ n \in Nat BY HoldersFinite
  <1>3. ref[t] = a + b + m + n BY DEF RefsExact, References
  <1>4. k = m + d - c
    <2>1. Callers(t)' \ {u} = Callers(t) \ {u} BY DEF Callers
    <2>2. IsFiniteSet(Callers(t)) BY HoldersFinite
    <2> QED BY <2>1, <2>2, CountOne
  <1>5. Carriers(t)' = Carriers(t) BY DEF Carriers
  <1>6. References(t)' = a + b + k + n BY <1>5 DEF References, One
  <1>7. ref'[t] = ref[t] + d - c OBVIOUS
  <1> HIDE DEF a, b, c, d, m, n, k
  <1> QED BY <1>1, <1>2, <1>3, <1>4, <1>6, <1>7

\* Once freed memory was written nothing is claimed any more.
LEMMA RefsCrash ==
  ASSUME crashed'
  PROVE  RefsExact'
  BY DEF RefsExact

-----------------------------------------------------------------------------
(***************************************************************************)
(* Every call has a transaction of its own, in tx_q only once it sent it.  *)
(***************************************************************************)

HasTxn(u) == op[u] \in Calls /\ pc[u] \notin {"enter", "put"}
Early == {"own", "arm", "check", "ref", "queue"}

OwnTxns ==
  /\ \A u, v \in Users : u # v /\ HasTxn(u) /\ HasTxn(v) => cur[u] # cur[v]
  /\ \A u \in Users : pc[u] \in Early => cur[u] \notin queue

\* A step that makes no call and queues nothing keeps it.
LEMMA OwnTxnsFrame ==
  ASSUME OwnTxns, queue' \subseteq queue,
         \A u \in Users :
           /\ HasTxn(u)' => HasTxn(u) /\ cur'[u] = cur[u]
           /\ pc'[u] \in Early => pc[u] \in Early /\ cur'[u] = cur[u]
  PROVE  OwnTxns'
  BY DEF OwnTxns

\* Every step keeps the transactions of calls apart and unsent ones out of tx_q.
LEMMA OwnTxnsStep ==
  ASSUME TypeOK, Shape, OwnTxns, [Next]_vars
  PROVE  OwnTxns'
  <1>1. ASSUME NEW u \in Users, BeginCall(u) PROVE OwnTxns'
    <2>1. queue' \subseteq queue
      BY <1>1 DEF BeginCall, born, result, txnVars, lists, errors, network, hands
    <2>2. ASSUME NEW x \in Users
          PROVE  /\ HasTxn(x)' => HasTxn(x) /\ cur'[x] = cur[x]
                 /\ pc'[x] \in Early => pc[x] \in Early /\ cur'[x] = cur[x]
      BY <1>1 DEF BeginCall, TypeOK, Shape, OpShape, HasTxn, Early, Threads, FlushPcs,
         CleanupPcs, DeletePcs, ReleaseOps, Calls, Sync, GetRef, born, result, txnVars,
         lists, errors, network, hands
    <2> QED BY <2>1, <2>2, OwnTxnsFrame
  <1>2. ASSUME NEW u \in Users, NoTxn(u) PROVE OwnTxns'
    <2>1. queue' \subseteq queue
      BY <1>2 DEF NoTxn, born, result, txnVars, lists, client, errors, network, app, rest,
         hands
    <2>2. ASSUME NEW x \in Users
          PROVE  /\ HasTxn(x)' => HasTxn(x) /\ cur'[x] = cur[x]
                 /\ pc'[x] \in Early => pc[x] \in Early /\ cur'[x] = cur[x]
      BY <1>2 DEF NoTxn, TypeOK, Shape, OpShape, HasTxn, Early, Threads, FlushPcs,
         CleanupPcs, DeletePcs, ReleaseOps, Calls, Sync, born, result, txnVars, lists,
         client, errors, network, app, rest, hands
    <2> QED BY <2>1, <2>2, OwnTxnsFrame
  <1>3. ASSUME NEW u \in Users, GetTxn(u) PROVE OwnTxns'
    <2>1. PICK t \in Txns \ used : cur' = [cur EXCEPT ![u] = t]
      BY <1>3 DEF GetTxn
    <2>2. \A x \in Users : x # u => cur'[x] = cur[x] /\ op'[x] = op[x] /\ pc'[x] = pc[x]
      BY <1>3, <2>1 DEF GetTxn, TypeOK, Threads
    <2>3. cur'[u] = t BY <2>1 DEF TypeOK, Threads
    <2>4. queue' = queue BY <1>3 DEF GetTxn
    <2>5. \A x \in Users : cur[x] # t BY DEF Shape, CurShape
    <2>6. t \notin queue BY DEF Shape
    <2> QED BY <2>2, <2>3, <2>4, <2>5, <2>6 DEF OwnTxns, HasTxn
  <1>4. ASSUME NEW u \in Users, Own(u) PROVE OwnTxns'
    <2>1. queue' \subseteq queue
      BY <1>4 DEF Own, born, result, lists, client, errors, network, hands
    <2>2. ASSUME NEW x \in Users
          PROVE  /\ HasTxn(x)' => HasTxn(x) /\ cur'[x] = cur[x]
                 /\ pc'[x] \in Early => pc[x] \in Early /\ cur'[x] = cur[x]
      BY <1>4 DEF Own, TypeOK, Shape, OpShape, HasTxn, Early, Threads, FlushPcs,
         CleanupPcs, DeletePcs, ReleaseOps, Calls, Sync, born, result, lists, client,
         errors, network, hands
    <2> QED BY <2>1, <2>2, OwnTxnsFrame
  <1>5. ASSUME NEW u \in Users, Arm(u) PROVE OwnTxns'
    <2>1. queue' \subseteq queue
      BY <1>5 DEF Arm, born, lists, client, errors, network, app, rest, hands
    <2>2. ASSUME NEW x \in Users
          PROVE  /\ HasTxn(x)' => HasTxn(x) /\ cur'[x] = cur[x]
                 /\ pc'[x] \in Early => pc[x] \in Early /\ cur'[x] = cur[x]
      BY <1>5 DEF Arm, TypeOK, Shape, OpShape, HasTxn, Early, Threads, FlushPcs,
         CleanupPcs, DeletePcs, ReleaseOps, Calls, Sync, born, lists, client, errors,
         network, app, rest, hands
    <2> QED BY <2>1, <2>2, OwnTxnsFrame
  <1>6. ASSUME NEW u \in Users, Check(u) PROVE OwnTxns'
    <2>1. queue' \subseteq queue
      BY <1>6 DEF Check, born, result, txnVars, lists, client, errors, network, app, rest,
         hands
    <2>2. ASSUME NEW x \in Users
          PROVE  /\ HasTxn(x)' => HasTxn(x) /\ cur'[x] = cur[x]
                 /\ pc'[x] \in Early => pc[x] \in Early /\ cur'[x] = cur[x]
      BY <1>6 DEF Check, TypeOK, Shape, OpShape, HasTxn, Early, Threads, FlushPcs,
         CleanupPcs, DeletePcs, ReleaseOps, Calls, Sync, Failing, born, result, txnVars,
         lists, client, errors, network, app, rest, hands
    <2> QED BY <2>1, <2>2, OwnTxnsFrame
  <1>7. ASSUME NEW u \in Users, TakeRef(u) PROVE OwnTxns'
    <2>1. queue' \subseteq queue
      BY <1>7 DEF TakeRef, born, result, lists, client, errors, network
    <2>2. ASSUME NEW x \in Users
          PROVE  /\ HasTxn(x)' => HasTxn(x) /\ cur'[x] = cur[x]
                 /\ pc'[x] \in Early => pc[x] \in Early /\ cur'[x] = cur[x]
      BY <1>7 DEF TakeRef, TypeOK, Shape, OpShape, HasTxn, Early, Threads, FlushPcs,
         CleanupPcs, DeletePcs, ReleaseOps, Calls, Sync, born, result, lists, client,
         errors, network
    <2> QED BY <2>1, <2>2, OwnTxnsFrame
  <1>8. ASSUME NEW u \in Users, Enqueue(u) PROVE OwnTxns'
    <2>1. pc[u] = "queue" /\ pc'[u] = "fl_addr" /\ cur' = cur /\ op' = op
      BY <1>8 DEF Enqueue, TypeOK, Threads, rest, app
    <2>2. \A x \in Users : x # u => pc'[x] = pc[x] BY <1>8 DEF Enqueue, TypeOK, Threads
    <2>3. queue' = queue \cup {cur[u]} BY <1>8 DEF Enqueue
    <2>4. HasTxn(u) BY <2>1 DEF Shape, OpShape, HasTxn
    <2>5. \A x \in Users : pc[x] \in Early => HasTxn(x)
      BY DEF Shape, OpShape, HasTxn, Early, Calls
    <2> QED BY <2>1, <2>2, <2>3, <2>4, <2>5 DEF OwnTxns, HasTxn, Early
  <1>9. ASSUME NEW u \in Users, Refuse(u) PROVE OwnTxns'
    <2>1. queue' \subseteq queue
      BY <1>9 DEF Refuse, born, result, lists, client, errors, network, app, rest
    <2>2. ASSUME NEW x \in Users
          PROVE  /\ HasTxn(x)' => HasTxn(x) /\ cur'[x] = cur[x]
                 /\ pc'[x] \in Early => pc[x] \in Early /\ cur'[x] = cur[x]
      BY <1>9 DEF Refuse, TypeOK, Shape, OpShape, HasTxn, Early, Threads, FlushPcs,
         CleanupPcs, DeletePcs, ReleaseOps, Calls, Sync, Failing, born, result, lists,
         client, errors, network, app, rest
    <2> QED BY <2>1, <2>2, OwnTxnsFrame
  <1>10. ASSUME NEW u \in Users, Wake(u) PROVE OwnTxns'
    <2>1. queue' \subseteq queue
      BY <1>10 DEF Wake, born, lists, client, errors, network, app, rest, hands
    <2>2. ASSUME NEW x \in Users
          PROVE  /\ HasTxn(x)' => HasTxn(x) /\ cur'[x] = cur[x]
                 /\ pc'[x] \in Early => pc[x] \in Early /\ cur'[x] = cur[x]
      BY <1>10 DEF Wake, TypeOK, Shape, OpShape, HasTxn, Early, Threads, FlushPcs,
         CleanupPcs, DeletePcs, ReleaseOps, Calls, Sync, born, lists, client, errors,
         network, app, rest, hands
    <2> QED BY <2>1, <2>2, OwnTxnsFrame
  <1>11. ASSUME NEW u \in Users, TimeOut(u) PROVE OwnTxns'
    <2>1. queue' \subseteq queue
      BY <1>11 DEF TimeOut, born, lists, client, errors, network, app, rest, hands
    <2>2. ASSUME NEW x \in Users
          PROVE  /\ HasTxn(x)' => HasTxn(x) /\ cur'[x] = cur[x]
                 /\ pc'[x] \in Early => pc[x] \in Early /\ cur'[x] = cur[x]
      BY <1>11 DEF TimeOut, TypeOK, Shape, OpShape, HasTxn, Early, Threads, FlushPcs,
         CleanupPcs, DeletePcs, ReleaseOps, Calls, Sync, born, lists, client, errors,
         network, app, rest, hands
    <2> QED BY <2>1, <2>2, OwnTxnsFrame
  <1>12. ASSUME NEW u \in Users, Invalidate(u) PROVE OwnTxns'
    <2>1. queue' \subseteq queue
      BY <1>12 DEF Invalidate, born, result, lists, client, errors, network, app, rest,
         hands
    <2>2. ASSUME NEW x \in Users
          PROVE  /\ HasTxn(x)' => HasTxn(x) /\ cur'[x] = cur[x]
                 /\ pc'[x] \in Early => pc[x] \in Early /\ cur'[x] = cur[x]
      BY <1>12 DEF Invalidate, TypeOK, Shape, OpShape, HasTxn, Early, Threads, FlushPcs,
         CleanupPcs, DeletePcs, ReleaseOps, Calls, Sync, born, result, lists, client,
         errors, network, app, rest, hands
    <2> QED BY <2>1, <2>2, OwnTxnsFrame
  <1>13. ASSUME NEW u \in Users, RemoveSync(u) PROVE OwnTxns'
    <2>1. queue' \subseteq queue
      BY <1>13 DEF RemoveSync, born, result, client, errors, network, app, rest, hands
    <2>2. ASSUME NEW x \in Users
          PROVE  /\ HasTxn(x)' => HasTxn(x) /\ cur'[x] = cur[x]
                 /\ pc'[x] \in Early => pc[x] \in Early /\ cur'[x] = cur[x]
      BY <1>13 DEF RemoveSync, TypeOK, Shape, OpShape, HasTxn, Early, Threads, FlushPcs,
         CleanupPcs, DeletePcs, ReleaseOps, Calls, Sync, born, result, client, errors,
         network, app, rest, hands
    <2> QED BY <2>1, <2>2, OwnTxnsFrame
  <1>14. ASSUME NEW u \in Users, DropOwn(u) PROVE OwnTxns'
    <2>1. queue' \subseteq queue
      BY <1>14 DEF DropOwn, born, lists, client, errors, network, app, rest, hands
    <2>2. ASSUME NEW x \in Users
          PROVE  /\ HasTxn(x)' => HasTxn(x) /\ cur'[x] = cur[x]
                 /\ pc'[x] \in Early => pc[x] \in Early /\ cur'[x] = cur[x]
      BY <1>14 DEF DropOwn, TypeOK, Shape, OpShape, HasTxn, Early, Threads, FlushPcs,
         CleanupPcs, DeletePcs, ReleaseOps, Calls, Sync, born, lists, client, errors,
         network, app, rest, hands
    <2> QED BY <2>1, <2>2, OwnTxnsFrame
  <1>15. ASSUME NEW u \in Users, AsyncFails(u) PROVE OwnTxns'
    <2>1. queue' \subseteq queue
      BY <1>15 DEF AsyncFails, born, client, errors, network, app, rest, hands
    <2>2. ASSUME NEW x \in Users
          PROVE  /\ HasTxn(x)' => HasTxn(x) /\ cur'[x] = cur[x]
                 /\ pc'[x] \in Early => pc[x] \in Early /\ cur'[x] = cur[x]
      BY <1>15 DEF AsyncFails, TypeOK, Shape, OpShape, HasTxn, Early, Threads, FlushPcs,
         CleanupPcs, DeletePcs, ReleaseOps, Calls, Sync, born, client, errors, network,
         app, rest, hands
    <2> QED BY <2>1, <2>2, OwnTxnsFrame
  <1>16. ASSUME NEW u \in Users, PutRef(u) PROVE OwnTxns'
    <2>1. queue' \subseteq queue
      BY <1>16 DEF PutRef, born, result, txnVars, lists, errors, network, hands
    <2>2. ASSUME NEW x \in Users
          PROVE  /\ HasTxn(x)' => HasTxn(x) /\ cur'[x] = cur[x]
                 /\ pc'[x] \in Early => pc[x] \in Early /\ cur'[x] = cur[x]
      BY <1>16 DEF PutRef, TypeOK, Shape, OpShape, HasTxn, Early, Threads, FlushPcs,
         CleanupPcs, DeletePcs, ReleaseOps, Calls, Sync, born, result, txnVars, lists,
         errors, network, hands
    <2> QED BY <2>1, <2>2, OwnTxnsFrame
  <1>17. ASSUME NEW u \in Users, BeginDelete(u) PROVE OwnTxns'
    <2>1. queue' \subseteq queue
      BY <1>17 DEF BeginDelete, born, result, txnVars, lists, errors, network, hands
    <2>2. ASSUME NEW x \in Users
          PROVE  /\ HasTxn(x)' => HasTxn(x) /\ cur'[x] = cur[x]
                 /\ pc'[x] \in Early => pc[x] \in Early /\ cur'[x] = cur[x]
      BY <1>17 DEF BeginDelete, TypeOK, Shape, OpShape, HasTxn, Early, Threads, FlushPcs,
         CleanupPcs, DeletePcs, ReleaseOps, Calls, Sync, GetRef, born, result, txnVars,
         lists, errors, network, hands
    <2> QED BY <2>1, <2>2, OwnTxnsFrame
  <1>18. ASSUME NEW u \in Users, DeleteQueued(u) PROVE OwnTxns'
    <2>1. queue' \subseteq queue
      BY <1>18 DEF DeleteQueued, born, result, txnVars, client, errors, network, app, rest
    <2>2. ASSUME NEW x \in Users
          PROVE  /\ HasTxn(x)' => HasTxn(x) /\ cur'[x] = cur[x]
                 /\ pc'[x] \in Early => pc[x] \in Early /\ cur'[x] = cur[x]
      BY <1>18 DEF DeleteQueued, TypeOK, Shape, OpShape, HasTxn, Early, Threads, FlushPcs,
         CleanupPcs, DeletePcs, ReleaseOps, Calls, Sync, born, result, txnVars, client,
         errors, network, app, rest
    <2> QED BY <2>1, <2>2, OwnTxnsFrame
  <1>19. ASSUME NEW u \in Users, DeleteGive(u) PROVE OwnTxns'
    <2>1. queue' \subseteq queue
      BY <1>19 DEF DeleteGive, born, result, lists, client, errors, network, app, rest
    <2>2. ASSUME NEW x \in Users
          PROVE  /\ HasTxn(x)' => HasTxn(x) /\ cur'[x] = cur[x]
                 /\ pc'[x] \in Early => pc[x] \in Early /\ cur'[x] = cur[x]
      BY <1>19 DEF DeleteGive, TypeOK, Shape, OpShape, HasTxn, Early, Threads, FlushPcs,
         CleanupPcs, DeletePcs, ReleaseOps, Calls, Sync, born, result, lists, client,
         errors, network, app, rest
    <2> QED BY <2>1, <2>2, OwnTxnsFrame
  <1>20. ASSUME NEW u \in Users, DeleteListed(u) PROVE OwnTxns'
    <2>1. queue' \subseteq queue
      BY <1>20 DEF DeleteListed, born, client, errors, network, app, rest
    <2>2. ASSUME NEW x \in Users
          PROVE  /\ HasTxn(x)' => HasTxn(x) /\ cur'[x] = cur[x]
                 /\ pc'[x] \in Early => pc[x] \in Early /\ cur'[x] = cur[x]
      BY <1>20 DEF DeleteListed, TypeOK, Shape, OpShape, HasTxn, Early, Threads, FlushPcs,
         CleanupPcs, DeletePcs, ReleaseOps, Calls, Sync, born, client, errors, network,
         app, rest
    <2> QED BY <2>1, <2>2, OwnTxnsFrame
  <1>21. ASSUME NEW u \in Users, DeleteDrop(u) PROVE OwnTxns'
    <2>1. queue' \subseteq queue
      BY <1>21 DEF DeleteDrop, born, result, lists, client, errors, network, app, rest
    <2>2. ASSUME NEW x \in Users
          PROVE  /\ HasTxn(x)' => HasTxn(x) /\ cur'[x] = cur[x]
                 /\ pc'[x] \in Early => pc[x] \in Early /\ cur'[x] = cur[x]
      BY <1>21 DEF DeleteDrop, TypeOK, Shape, OpShape, HasTxn, Early, Threads, FlushPcs,
         CleanupPcs, DeletePcs, ReleaseOps, Calls, Sync, born, result, lists, client,
         errors, network, app, rest
    <2> QED BY <2>1, <2>2, OwnTxnsFrame
  <1>22. ASSUME NEW u \in Users, BeginRelease(u) PROVE OwnTxns'
    <2>1. queue' \subseteq queue
      BY <1>22 DEF BeginRelease, born, result, txnVars, lists, errors, network, hands
    <2>2. ASSUME NEW x \in Users
          PROVE  /\ HasTxn(x)' => HasTxn(x) /\ cur'[x] = cur[x]
                 /\ pc'[x] \in Early => pc[x] \in Early /\ cur'[x] = cur[x]
      BY <1>22 DEF BeginRelease, TypeOK, Shape, OpShape, HasTxn, Early, Threads, FlushPcs,
         CleanupPcs, DeletePcs, ReleaseOps, Calls, Sync, GetRef, born, result, txnVars,
         lists, errors, network, hands
    <2> QED BY <2>1, <2>2, OwnTxnsFrame
  <1>23. ASSUME NEW u \in Users, EndProbe(u) PROVE OwnTxns'
    <2>1. queue' \subseteq queue
      BY <1>23 DEF EndProbe, born, result, txnVars, lists, errors, network, app, hands
    <2>2. ASSUME NEW x \in Users
          PROVE  /\ HasTxn(x)' => HasTxn(x) /\ cur'[x] = cur[x]
                 /\ pc'[x] \in Early => pc[x] \in Early /\ cur'[x] = cur[x]
      BY <1>23 DEF EndProbe, TypeOK, Shape, OpShape, HasTxn, Early, Threads, FlushPcs,
         CleanupPcs, DeletePcs, ReleaseOps, Calls, Sync, born, result, txnVars, lists,
         errors, network, app, hands
    <2> QED BY <2>1, <2>2, OwnTxnsFrame
  <1>24. ASSUME NEW u \in Users, Unlink(u) PROVE OwnTxns'
    <2>1. queue' \subseteq queue
      BY <1>24 DEF Unlink, born, result, txnVars, lists, errors, network, app, hands
    <2>2. ASSUME NEW x \in Users
          PROVE  /\ HasTxn(x)' => HasTxn(x) /\ cur'[x] = cur[x]
                 /\ pc'[x] \in Early => pc[x] \in Early /\ cur'[x] = cur[x]
      BY <1>24 DEF Unlink, TypeOK, Shape, OpShape, HasTxn, Early, Threads, FlushPcs,
         CleanupPcs, DeletePcs, ReleaseOps, Calls, Sync, born, result, txnVars, lists,
         errors, network, app, hands
    <2> QED BY <2>1, <2>2, OwnTxnsFrame
  <1>25. ASSUME NEW u \in Users, NoRelease(u) PROVE OwnTxns'
    <2>1. queue' \subseteq queue
      BY <1>25 DEF NoRelease, born, result, txnVars, lists, client, errors, network, hands
    <2>2. ASSUME NEW x \in Users
          PROVE  /\ HasTxn(x)' => HasTxn(x) /\ cur'[x] = cur[x]
                 /\ pc'[x] \in Early => pc[x] \in Early /\ cur'[x] = cur[x]
      BY <1>25 DEF NoRelease, TypeOK, Shape, OpShape, HasTxn, Early, Threads, FlushPcs,
         CleanupPcs, DeletePcs, ReleaseOps, Calls, Sync, born, result, txnVars, lists,
         client, errors, network, hands
    <2> QED BY <2>1, <2>2, OwnTxnsFrame
  <1>26. ASSUME NEW u \in Users, BeginReleaseAsync(u) PROVE OwnTxns'
    <2>1. queue' \subseteq queue
      BY <1>26 DEF BeginReleaseAsync, born, result, txnVars, lists, errors, network, hands
    <2>2. ASSUME NEW x \in Users
          PROVE  /\ HasTxn(x)' => HasTxn(x) /\ cur'[x] = cur[x]
                 /\ pc'[x] \in Early => pc[x] \in Early /\ cur'[x] = cur[x]
      BY <1>26 DEF BeginReleaseAsync, TypeOK, Shape, OpShape, HasTxn, Early, Threads,
         FlushPcs, CleanupPcs, DeletePcs, ReleaseOps, Calls, Sync, GetRef, born, result,
         txnVars, lists, errors, network, hands
    <2> QED BY <2>1, <2>2, OwnTxnsFrame
  <1>27. ASSUME NEW u \in Users, ReleaseStop(u) PROVE OwnTxns'
    <2>1. queue' \subseteq queue
      BY <1>27 DEF ReleaseStop, born, result, txnVars, lists, errors, network, app, hands
    <2>2. ASSUME NEW x \in Users
          PROVE  /\ HasTxn(x)' => HasTxn(x) /\ cur'[x] = cur[x]
                 /\ pc'[x] \in Early => pc[x] \in Early /\ cur'[x] = cur[x]
      BY <1>27 DEF ReleaseStop, TypeOK, Shape, OpShape, HasTxn, Early, Threads, FlushPcs,
         CleanupPcs, DeletePcs, ReleaseOps, Calls, Sync, born, result, txnVars, lists,
         errors, network, app, hands
    <2> QED BY <2>1, <2>2, OwnTxnsFrame
  <1>28. ASSUME NEW u \in Users, ReleaseClose(u) PROVE OwnTxns'
    <2>1. queue' \subseteq queue
      BY <1>28 DEF ReleaseClose, born, result, txnVars, lists, errors, app, hands
    <2>2. ASSUME NEW x \in Users
          PROVE  /\ HasTxn(x)' => HasTxn(x) /\ cur'[x] = cur[x]
                 /\ pc'[x] \in Early => pc[x] \in Early /\ cur'[x] = cur[x]
      BY <1>28 DEF ReleaseClose, TypeOK, Shape, OpShape, HasTxn, Early, Threads, FlushPcs,
         CleanupPcs, DeletePcs, ReleaseOps, Calls, Sync, born, result, txnVars, lists,
         errors, app, hands
    <2> QED BY <2>1, <2>2, OwnTxnsFrame
  <1>29. ASSUME NEW u \in Users, Unblock(u) PROVE OwnTxns'
    <2>1. queue' \subseteq queue
      BY <1>29 DEF Unblock, born, result, txnVars, lists, client, errors, network, app,
         rest, hands
    <2>2. ASSUME NEW x \in Users
          PROVE  /\ HasTxn(x)' => HasTxn(x) /\ cur'[x] = cur[x]
                 /\ pc'[x] \in Early => pc[x] \in Early /\ cur'[x] = cur[x]
      BY <1>29 DEF Unblock, TypeOK, Shape, OpShape, HasTxn, Early, Threads, FlushPcs,
         CleanupPcs, DeletePcs, ReleaseOps, Calls, Sync, born, result, txnVars, lists,
         client, errors, network, app, rest, hands
    <2> QED BY <2>1, <2>2, OwnTxnsFrame
  <1>30. ASSUME NEW u \in Users, BeginRegister(u) PROVE OwnTxns'
    <2>1. queue' \subseteq queue
      BY <1>30 DEF BeginRegister, born, result, txnVars, lists, errors, network, hands
    <2>2. ASSUME NEW x \in Users
          PROVE  /\ HasTxn(x)' => HasTxn(x) /\ cur'[x] = cur[x]
                 /\ pc'[x] \in Early => pc[x] \in Early /\ cur'[x] = cur[x]
      BY <1>30 DEF BeginRegister, TypeOK, Shape, OpShape, HasTxn, Early, Threads, FlushPcs,
         CleanupPcs, DeletePcs, ReleaseOps, Calls, Sync, GetRef, born, result, txnVars,
         lists, errors, network, hands
    <2> QED BY <2>1, <2>2, OwnTxnsFrame
  <1>31. ASSUME NEW u \in Users, RegisterErrorCb(u) PROVE OwnTxns'
    <2>1. queue' \subseteq queue
      BY <1>31 DEF RegisterErrorCb, born, result, txnVars, lists, client, network, app,
         hands
    <2>2. ASSUME NEW x \in Users
          PROVE  /\ HasTxn(x)' => HasTxn(x) /\ cur'[x] = cur[x]
                 /\ pc'[x] \in Early => pc[x] \in Early /\ cur'[x] = cur[x]
      BY <1>31 DEF RegisterErrorCb, TypeOK, Shape, OpShape, HasTxn, Early, Threads,
         FlushPcs, CleanupPcs, DeletePcs, ReleaseOps, Calls, Sync, born, result,
         txnVars, lists, client, network, app, hands
    <2> QED BY <2>1, <2>2, OwnTxnsFrame
  <1>32. ASSUME NEW u \in Users, RegisterCall(u) PROVE OwnTxns'
    <2>1. queue' \subseteq queue
      BY <1>32 DEF RegisterCall, born, result, txnVars, lists, client, network, app, hands
    <2>2. ASSUME NEW x \in Users
          PROVE  /\ HasTxn(x)' => HasTxn(x) /\ cur'[x] = cur[x]
                 /\ pc'[x] \in Early => pc[x] \in Early /\ cur'[x] = cur[x]
      BY <1>32 DEF RegisterCall, TypeOK, Shape, OpShape, HasTxn, Early, Threads, FlushPcs,
         CleanupPcs, DeletePcs, ReleaseOps, Calls, Sync, born, result, txnVars, lists,
         client, network, app, hands
    <2> QED BY <2>1, <2>2, OwnTxnsFrame
  <1>33. ASSUME NEW th \in Users \cup {Loss, Resumer}, CleanupQueue(th) PROVE OwnTxns'
    <2>1. queue' \subseteq queue
      BY <1>33 DEF CleanupQueue, born, result, txnVars, client, errors, network, app, rest
    <2>2. ASSUME NEW x \in Users
          PROVE  /\ HasTxn(x)' => HasTxn(x) /\ cur'[x] = cur[x]
                 /\ pc'[x] \in Early => pc[x] \in Early /\ cur'[x] = cur[x]
      BY <1>33 DEF CleanupQueue, TypeOK, Shape, OpShape, HasTxn, Early, Threads, FlushPcs,
         CleanupPcs, DeletePcs, ReleaseOps, Calls, Sync, born, result, txnVars, client,
         errors, network, app, rest
    <2> QED BY <2>1, <2>2, OwnTxnsFrame
  <1>34. ASSUME NEW th \in Users \cup {Loss, Resumer}, CleanupGive(th) PROVE OwnTxns'
    <2>1. queue' \subseteq queue
      BY <1>34 DEF CleanupGive, born, result, lists, client, errors, network, app, rest
    <2>2. ASSUME NEW x \in Users
          PROVE  /\ HasTxn(x)' => HasTxn(x) /\ cur'[x] = cur[x]
                 /\ pc'[x] \in Early => pc[x] \in Early /\ cur'[x] = cur[x]
      BY <1>34 DEF CleanupGive, TypeOK, Shape, OpShape, HasTxn, Early, Threads, FlushPcs,
         CleanupPcs, DeletePcs, ReleaseOps, Calls, Sync, born, result, lists, client,
         errors, network, app, rest
    <2> QED BY <2>1, <2>2, OwnTxnsFrame
  <1>35. ASSUME NEW th \in Users \cup {Loss, Resumer}, CleanupList(th) PROVE OwnTxns'
    <2>1. queue' \subseteq queue
      BY <1>35 DEF CleanupList, born, result, txnVars, client, errors, network, app, rest
    <2>2. ASSUME NEW x \in Users
          PROVE  /\ HasTxn(x)' => HasTxn(x) /\ cur'[x] = cur[x]
                 /\ pc'[x] \in Early => pc[x] \in Early /\ cur'[x] = cur[x]
      BY <1>35 DEF CleanupList, TypeOK, Shape, OpShape, HasTxn, Early, Threads, FlushPcs,
         CleanupPcs, DeletePcs, ReleaseOps, Calls, Sync, AfterCleanup, AfterFlush, born,
         result, txnVars, client, errors, network, app, rest
    <2> QED BY <2>1, <2>2, OwnTxnsFrame
  <1>36. ASSUME NEW th \in Users \cup {Loss, Resumer}, CleanupFail(th) PROVE OwnTxns'
    <2>1. queue' \subseteq queue
      BY <1>36 DEF CleanupFail, born, lists, client, errors, network, app, rest
    <2>2. ASSUME NEW x \in Users
          PROVE  /\ HasTxn(x)' => HasTxn(x) /\ cur'[x] = cur[x]
                 /\ pc'[x] \in Early => pc[x] \in Early /\ cur'[x] = cur[x]
      BY <1>36 DEF CleanupFail, TypeOK, Shape, OpShape, HasTxn, Early, Threads, FlushPcs,
         CleanupPcs, DeletePcs, ReleaseOps, Calls, Sync, born, lists, client, errors,
         network, app, rest
    <2> QED BY <2>1, <2>2, OwnTxnsFrame
  <1>37. ASSUME NEW th \in Users \cup {Loss, Resumer}, CleanupDrop(th) PROVE OwnTxns'
    <2>1. queue' \subseteq queue
      BY <1>37 DEF CleanupDrop, born, result, lists, client, errors, network, app, rest
    <2>2. ASSUME NEW x \in Users
          PROVE  /\ HasTxn(x)' => HasTxn(x) /\ cur'[x] = cur[x]
                 /\ pc'[x] \in Early => pc[x] \in Early /\ cur'[x] = cur[x]
      BY <1>37 DEF CleanupDrop, TypeOK, Shape, OpShape, HasTxn, Early, Threads, FlushPcs,
         CleanupPcs, DeletePcs, ReleaseOps, Calls, Sync, AfterCleanup, AfterFlush, born,
         result, lists, client, errors, network, app, rest
    <2> QED BY <2>1, <2>2, OwnTxnsFrame
  <1>38. ASSUME NEW th \in Users \cup {Loss, Resumer}, FlushAddress(th) PROVE OwnTxns'
    <2>1. queue' \subseteq queue
      BY <1>38 DEF FlushAddress, born, result, txnVars, lists, client, errors, network, app,
         rest, hands
    <2>2. ASSUME NEW x \in Users
          PROVE  /\ HasTxn(x)' => HasTxn(x) /\ cur'[x] = cur[x]
                 /\ pc'[x] \in Early => pc[x] \in Early /\ cur'[x] = cur[x]
      BY <1>38 DEF FlushAddress, TypeOK, Shape, OpShape, HasTxn, Early, Threads, FlushPcs,
         CleanupPcs, DeletePcs, ReleaseOps, Calls, Sync, born, result, txnVars, lists,
         client, errors, network, app, rest, hands
    <2> QED BY <2>1, <2>2, OwnTxnsFrame
  <1>39. ASSUME NEW th \in Users \cup {Loss, Resumer}, FlushEnd(th) PROVE OwnTxns'
    <2>1. queue' \subseteq queue
      BY <1>39 DEF FlushEnd, born, result, txnVars, lists, client, errors, network, app,
         rest, hands
    <2>2. ASSUME NEW x \in Users
          PROVE  /\ HasTxn(x)' => HasTxn(x) /\ cur'[x] = cur[x]
                 /\ pc'[x] \in Early => pc[x] \in Early /\ cur'[x] = cur[x]
      BY <1>39 DEF FlushEnd, TypeOK, Shape, OpShape, HasTxn, Early, Threads, FlushPcs,
         CleanupPcs, DeletePcs, ReleaseOps, Calls, Sync, AfterFlush, born, result,
         txnVars, lists, client, errors, network, app, rest, hands
    <2> QED BY <2>1, <2>2, OwnTxnsFrame
  <1>40. ASSUME NEW th \in Users \cup {Loss, Resumer}, FlushBusy(th) PROVE OwnTxns'
    <2>1. queue' \subseteq queue
      BY <1>40 DEF FlushBusy, born, result, txnVars, lists, client, errors, app, hands
    <2>2. ASSUME NEW x \in Users
          PROVE  /\ HasTxn(x)' => HasTxn(x) /\ cur'[x] = cur[x]
                 /\ pc'[x] \in Early => pc[x] \in Early /\ cur'[x] = cur[x]
      BY <1>40 DEF FlushBusy, TypeOK, Shape, OpShape, HasTxn, Early, Threads, FlushPcs,
         CleanupPcs, DeletePcs, ReleaseOps, Calls, Sync, AfterFlush, born, result,
         txnVars, lists, client, errors, app, hands
    <2> QED BY <2>1, <2>2, OwnTxnsFrame
  <1>41. ASSUME NEW th \in Users \cup {Loss, Resumer}, FlushSend(th) PROVE OwnTxns'
    <2>1. queue' \subseteq queue
      BY <1>41 DEF FlushSend, born, result, txnVars, client, errors, app
    <2>2. ASSUME NEW x \in Users
          PROVE  /\ HasTxn(x)' => HasTxn(x) /\ cur'[x] = cur[x]
                 /\ pc'[x] \in Early => pc[x] \in Early /\ cur'[x] = cur[x]
      BY <1>41 DEF FlushSend, TypeOK, Shape, OpShape, HasTxn, Early, Threads, FlushPcs,
         CleanupPcs, DeletePcs, ReleaseOps, Calls, Sync, born, result, txnVars, client,
         errors, app
    <2> QED BY <2>1, <2>2, OwnTxnsFrame
  <1>42. ASSUME NEW th \in Users \cup {Loss, Resumer}, FlushGive(th) PROVE OwnTxns'
    <2>1. queue' \subseteq queue
      BY <1>42 DEF FlushGive, born, result, lists, client, errors, network, app, rest
    <2>2. ASSUME NEW x \in Users
          PROVE  /\ HasTxn(x)' => HasTxn(x) /\ cur'[x] = cur[x]
                 /\ pc'[x] \in Early => pc[x] \in Early /\ cur'[x] = cur[x]
      BY <1>42 DEF FlushGive, TypeOK, Shape, OpShape, HasTxn, Early, Threads, FlushPcs,
         CleanupPcs, DeletePcs, ReleaseOps, Calls, Sync, born, result, lists, client,
         errors, network, app, rest
    <2> QED BY <2>1, <2>2, OwnTxnsFrame
  <1>43. ASSUME NEW th \in Users \cup {Loss, Resumer}, FlushFind(th) PROVE OwnTxns'
    <2>1. queue' \subseteq queue
      BY <1>43 DEF FlushFind, born, result, txnVars, client, errors, network, app, rest
    <2>2. ASSUME NEW x \in Users
          PROVE  /\ HasTxn(x)' => HasTxn(x) /\ cur'[x] = cur[x]
                 /\ pc'[x] \in Early => pc[x] \in Early /\ cur'[x] = cur[x]
      BY <1>43 DEF FlushFind, TypeOK, Shape, OpShape, HasTxn, Early, Threads, FlushPcs,
         CleanupPcs, DeletePcs, ReleaseOps, Calls, Sync, born, result, txnVars, client,
         errors, network, app, rest
    <2> QED BY <2>1, <2>2, OwnTxnsFrame
  <1>44. ASSUME NEW th \in Users \cup {Loss, Resumer}, FlushFail(th) PROVE OwnTxns'
    <2>1. queue' \subseteq queue
      BY <1>44 DEF FlushFail, born, lists, client, errors, network, app, rest, hands
    <2>2. ASSUME NEW x \in Users
          PROVE  /\ HasTxn(x)' => HasTxn(x) /\ cur'[x] = cur[x]
                 /\ pc'[x] \in Early => pc[x] \in Early /\ cur'[x] = cur[x]
      BY <1>44 DEF FlushFail, TypeOK, Shape, OpShape, HasTxn, Early, Threads, FlushPcs,
         CleanupPcs, DeletePcs, ReleaseOps, Calls, Sync, born, lists, client, errors,
         network, app, rest, hands
    <2> QED BY <2>1, <2>2, OwnTxnsFrame
  <1>45. ASSUME NEW th \in Users \cup {Loss, Resumer}, FlushDrop(th) PROVE OwnTxns'
    <2>1. queue' \subseteq queue
      BY <1>45 DEF FlushDrop, born, result, lists, client, errors, network, app, rest
    <2>2. ASSUME NEW x \in Users
          PROVE  /\ HasTxn(x)' => HasTxn(x) /\ cur'[x] = cur[x]
                 /\ pc'[x] \in Early => pc[x] \in Early /\ cur'[x] = cur[x]
      BY <1>45 DEF FlushDrop, TypeOK, Shape, OpShape, HasTxn, Early, Threads, FlushPcs,
         CleanupPcs, DeletePcs, ReleaseOps, Calls, Sync, born, result, lists, client,
         errors, network, app, rest
    <2> QED BY <2>1, <2>2, OwnTxnsFrame
  <1>46. ASSUME LoseServer PROVE OwnTxns'
    <2>1. queue' \subseteq queue
      BY <1>46 DEF LoseServer, born, result, txnVars, lists, errors, hands
    <2>2. ASSUME NEW x \in Users
          PROVE  /\ HasTxn(x)' => HasTxn(x) /\ cur'[x] = cur[x]
                 /\ pc'[x] \in Early => pc[x] \in Early /\ cur'[x] = cur[x]
      BY <1>46 DEF LoseServer, TypeOK, Shape, OpShape, HasTxn, Early, Threads, FlushPcs,
         CleanupPcs, DeletePcs, ReleaseOps, Calls, Sync, born, result, txnVars, lists,
         errors, hands
    <2> QED BY <2>1, <2>2, OwnTxnsFrame
  <1>47. ASSUME Notify PROVE OwnTxns'
    <2>1. queue' \subseteq queue
      BY <1>47 DEF Notify, born, result, txnVars, lists, client, network, app, hands
    <2>2. ASSUME NEW x \in Users
          PROVE  /\ HasTxn(x)' => HasTxn(x) /\ cur'[x] = cur[x]
                 /\ pc'[x] \in Early => pc[x] \in Early /\ cur'[x] = cur[x]
      BY <1>47 DEF Notify, TypeOK, Shape, OpShape, HasTxn, Early, Threads, FlushPcs,
         CleanupPcs, DeletePcs, ReleaseOps, Calls, Sync, born, result, txnVars, lists,
         client, network, app, hands
    <2> QED BY <2>1, <2>2, OwnTxnsFrame
  <1>48. ASSUME ErrorCall PROVE OwnTxns'
    <2>1. queue' \subseteq queue
      BY <1>48 DEF ErrorCall, born, result, txnVars, lists, client, network, app, hands
    <2>2. ASSUME NEW x \in Users
          PROVE  /\ HasTxn(x)' => HasTxn(x) /\ cur'[x] = cur[x]
                 /\ pc'[x] \in Early => pc[x] \in Early /\ cur'[x] = cur[x]
      BY <1>48 DEF ErrorCall, TypeOK, Shape, OpShape, HasTxn, Early, Threads, FlushPcs,
         CleanupPcs, DeletePcs, ReleaseOps, Calls, Sync, born, result, txnVars, lists,
         client, network, app, hands
    <2> QED BY <2>1, <2>2, OwnTxnsFrame
  <1>49. ASSUME Resume PROVE OwnTxns'
    <2>1. queue' \subseteq queue
      BY <1>49 DEF Resume, born, result, txnVars, lists, client, errors, app, hands
    <2>2. ASSUME NEW x \in Users
          PROVE  /\ HasTxn(x)' => HasTxn(x) /\ cur'[x] = cur[x]
                 /\ pc'[x] \in Early => pc[x] \in Early /\ cur'[x] = cur[x]
      BY <1>49 DEF Resume, TypeOK, Shape, OpShape, HasTxn, Early, Threads, FlushPcs,
         CleanupPcs, DeletePcs, ReleaseOps, Calls, Sync, born, result, txnVars, lists,
         client, errors, app, hands
    <2> QED BY <2>1, <2>2, OwnTxnsFrame
  <1>50. ASSUME Closed PROVE OwnTxns'
    <2>1. queue' \subseteq queue
      BY <1>50 DEF Closed, born, result, txnVars, lists, errors, app, hands
    <2>2. ASSUME NEW x \in Users
          PROVE  /\ HasTxn(x)' => HasTxn(x) /\ cur'[x] = cur[x]
                 /\ pc'[x] \in Early => pc[x] \in Early /\ cur'[x] = cur[x]
      BY <1>50 DEF Closed, TypeOK, Shape, OpShape, HasTxn, Early, Threads, FlushPcs,
         CleanupPcs, DeletePcs, ReleaseOps, Calls, Sync, born, result, txnVars, lists,
         errors, app, hands
    <2> QED BY <2>1, <2>2, OwnTxnsFrame
  <1>51. ASSUME Receive PROVE OwnTxns'
    <2>1. queue' \subseteq queue
      BY <1>51 DEF Receive, born, result, txnVars, client, errors, hands
    <2>2. ASSUME NEW x \in Users
          PROVE  /\ HasTxn(x)' => HasTxn(x) /\ cur'[x] = cur[x]
                 /\ pc'[x] \in Early => pc[x] \in Early /\ cur'[x] = cur[x]
      BY <1>51 DEF Receive, TypeOK, Shape, OpShape, HasTxn, Early, Threads, FlushPcs,
         CleanupPcs, DeletePcs, ReleaseOps, Calls, Sync, born, result, txnVars, client,
         errors, hands
    <2> QED BY <2>1, <2>2, OwnTxnsFrame
  <1>52. ASSUME Mismatch PROVE OwnTxns'
    <2>1. queue' \subseteq queue
      BY <1>52 DEF Mismatch, born, lists, client, errors, network, app, rest, hands
    <2>2. ASSUME NEW x \in Users
          PROVE  /\ HasTxn(x)' => HasTxn(x) /\ cur'[x] = cur[x]
                 /\ pc'[x] \in Early => pc[x] \in Early /\ cur'[x] = cur[x]
      BY <1>52 DEF Mismatch, TypeOK, Shape, OpShape, HasTxn, Early, Threads, FlushPcs,
         CleanupPcs, DeletePcs, ReleaseOps, Calls, Sync, born, lists, client, errors,
         network, app, rest, hands
    <2> QED BY <2>1, <2>2, OwnTxnsFrame
  <1>53. ASSUME LockTxn PROVE OwnTxns'
    <2>1. queue' \subseteq queue
      BY <1>53 DEF LockTxn, born, result, txnVars, lists, client, errors, network, app,
         rest, hands
    <2>2. ASSUME NEW x \in Users
          PROVE  /\ HasTxn(x)' => HasTxn(x) /\ cur'[x] = cur[x]
                 /\ pc'[x] \in Early => pc[x] \in Early /\ cur'[x] = cur[x]
      BY <1>53 DEF LockTxn, TypeOK, Shape, OpShape, HasTxn, Early, Threads, FlushPcs,
         CleanupPcs, DeletePcs, ReleaseOps, Calls, Sync, born, result, txnVars, lists,
         client, errors, network, app, rest, hands
    <2> QED BY <2>1, <2>2, OwnTxnsFrame
  <1>54. ASSUME Decode PROVE OwnTxns'
    <2>1. queue' \subseteq queue
      BY <1>54 DEF Decode, born, lists, client, errors, network, app, rest, hands
    <2>2. ASSUME NEW x \in Users
          PROVE  /\ HasTxn(x)' => HasTxn(x) /\ cur'[x] = cur[x]
                 /\ pc'[x] \in Early => pc[x] \in Early /\ cur'[x] = cur[x]
      BY <1>54 DEF Decode, TypeOK, Shape, OpShape, HasTxn, Early, Threads, FlushPcs,
         CleanupPcs, DeletePcs, ReleaseOps, Calls, Sync, born, lists, client, errors,
         network, app, rest, hands
    <2> QED BY <2>1, <2>2, OwnTxnsFrame
  <1>55. ASSUME ReceiveDrop PROVE OwnTxns'
    <2>1. queue' \subseteq queue
      BY <1>55 DEF ReceiveDrop, born, result, lists, client, errors, network
    <2>2. ASSUME NEW x \in Users
          PROVE  /\ HasTxn(x)' => HasTxn(x) /\ cur'[x] = cur[x]
                 /\ pc'[x] \in Early => pc[x] \in Early /\ cur'[x] = cur[x]
      BY <1>55 DEF ReceiveDrop, TypeOK, Shape, OpShape, HasTxn, Early, Threads, FlushPcs,
         CleanupPcs, DeletePcs, ReleaseOps, Calls, Sync, born, result, lists, client,
         errors, network
    <2> QED BY <2>1, <2>2, OwnTxnsFrame
  <1>56. ASSUME OpenPort PROVE OwnTxns'
    <2>1. queue' \subseteq queue
      BY <1>56 DEF OpenPort, born, result, txnVars, lists, errors, hands
    <2>2. ASSUME NEW x \in Users
          PROVE  /\ HasTxn(x)' => HasTxn(x) /\ cur'[x] = cur[x]
                 /\ pc'[x] \in Early => pc[x] \in Early /\ cur'[x] = cur[x]
      BY <1>56 DEF OpenPort, TypeOK, Shape, OpShape, HasTxn, Early, Threads, FlushPcs,
         CleanupPcs, DeletePcs, ReleaseOps, Calls, Sync, born, result, txnVars, lists,
         errors, hands
    <2> QED BY <2>1, <2>2, OwnTxnsFrame
  <1>56a. ASSUME AddXport PROVE OwnTxns'
    <2>1. queue' \subseteq queue
      BY <1>56a DEF AddXport, born, result, txnVars, lists, errors, network, hands
    <2>2. ASSUME NEW x \in Users
          PROVE  /\ HasTxn(x)' => HasTxn(x) /\ cur'[x] = cur[x]
                 /\ pc'[x] \in Early => pc[x] \in Early /\ cur'[x] = cur[x]
      BY <1>56a DEF AddXport, TypeOK, Shape, OpShape, HasTxn, Early, Threads, FlushPcs,
         CleanupPcs, DeletePcs, ReleaseOps, Calls, Sync, born, result, txnVars, lists,
         errors, network, hands
    <2> QED BY <2>1, <2>2, OwnTxnsFrame
  <1>57. ASSUME FillAddress PROVE OwnTxns'
    <2>1. queue' \subseteq queue
      BY <1>57 DEF FillAddress, born, result, txnVars, lists, errors, network, hands
    <2>2. ASSUME NEW x \in Users
          PROVE  /\ HasTxn(x)' => HasTxn(x) /\ cur'[x] = cur[x]
                 /\ pc'[x] \in Early => pc[x] \in Early /\ cur'[x] = cur[x]
      BY <1>57 DEF FillAddress, TypeOK, Shape, OpShape, HasTxn, Early, Threads, FlushPcs,
         CleanupPcs, DeletePcs, ReleaseOps, Calls, Sync, born, result, txnVars, lists,
         errors, network, hands
    <2> QED BY <2>1, <2>2, OwnTxnsFrame
  <1>58. ASSUME LookupAgain PROVE OwnTxns'
    <2>1. queue' \subseteq queue
      BY <1>58 DEF LookupAgain, born, result, txnVars, lists, errors, hands
    <2>2. ASSUME NEW x \in Users
          PROVE  /\ HasTxn(x)' => HasTxn(x) /\ cur'[x] = cur[x]
                 /\ pc'[x] \in Early => pc[x] \in Early /\ cur'[x] = cur[x]
      BY <1>58 DEF LookupAgain, TypeOK, Shape, OpShape, HasTxn, Early, Threads, FlushPcs,
         CleanupPcs, DeletePcs, ReleaseOps, Calls, Sync, born, result, txnVars, lists,
         errors, hands
    <2> QED BY <2>1, <2>2, OwnTxnsFrame
  <1>59. ASSUME ServerGone PROVE OwnTxns'
    <2>1. queue' \subseteq queue
      BY <1>59 DEF ServerGone, born, result, txnVars, lists, client, errors, app, hands
    <2>2. ASSUME NEW x \in Users
          PROVE  /\ HasTxn(x)' => HasTxn(x) /\ cur'[x] = cur[x]
                 /\ pc'[x] \in Early => pc[x] \in Early /\ cur'[x] = cur[x]
      BY <1>59 DEF ServerGone, TypeOK, Shape, OpShape, HasTxn, Early, Threads, FlushPcs,
         CleanupPcs, DeletePcs, ReleaseOps, Calls, Sync, born, result, txnVars, lists,
         client, errors, app, hands
    <2> QED BY <2>1, <2>2, OwnTxnsFrame
  <1>60. CASE UNCHANGED vars
    BY <1>60 DEF vars, rest, app, lists, OwnTxns, HasTxn
  <1> QED
    BY <1>1, <1>2, <1>3, <1>4, <1>5, <1>6, <1>7, <1>8, <1>9, <1>10, <1>11, <1>12,
       <1>13, <1>14, <1>15, <1>16, <1>17, <1>18, <1>19, <1>20, <1>21, <1>22, <1>23,
       <1>24, <1>25, <1>26, <1>27, <1>28, <1>29, <1>30, <1>31, <1>32, <1>33, <1>34,
       <1>35, <1>36, <1>37, <1>38, <1>39, <1>40, <1>41, <1>42, <1>43, <1>44, <1>45,
       <1>46, <1>47, <1>48, <1>49, <1>50, <1>51, <1>52, <1>53, <1>54, <1>55, <1>56,
       <1>56a, <1>57, <1>58, <1>59, <1>60, Zenon DEF Next, Call, Delete, Release,
       Register, Cleanup, Flush, Router, Opening

\* Every step keeps the reference counts of transactions exact.
LEMMA RefsStep ==
  ASSUME TypeOK, Shape, OwnTxns, RefsExact, [Next]_vars
  PROVE  RefsExact'
  <1>1. ASSUME NEW u \in Users, BeginCall(u) PROVE RefsExact'
    <2>1. CallersStay
      <3>1. u \in Threads
        BY DEF Threads
      <3>2. \A x \in Threads \ {u} : op'[x] = op[x] /\ cur'[x] = cur[x]
        BY <1>1, <3>1 DEF BeginCall, TypeOK, GetRef, born, result, txnVars, lists, errors,
           network, hands
      <3>3. u \in Users => /\ Owning(u)' <=> Owning(u)
                           /\ Owning(u) => cur'[u] = cur[u]
        BY <1>1, <3>1 DEF BeginCall, Owning, TypeOK, Shape, OpShape, FlushPcs, CleanupPcs,
           DeletePcs, ReleaseOps, Calls, Sync, GetRef, born, result, txnVars, lists,
           errors, network, hands
      <3>4. Goto(u, "enter")
        BY <1>1 DEF BeginCall
      <3> QED BY <3>1, <3>2, <3>3, <3>4, CallersFrame
    <2> QED
      BY <1>1, <2>1, RefsSame DEF BeginCall, born, result, txnVars, lists, errors, network,
         hands
  <1>2. ASSUME NEW u \in Users, NoTxn(u) PROVE RefsExact'
    <2>1. CallersStay
      <3>1. u \in Threads
        BY DEF Threads
      <3>2. \A x \in Threads \ {u} : op'[x] = op[x] /\ cur'[x] = cur[x]
        BY <1>2, <3>1 DEF NoTxn, TypeOK, born, result, txnVars, lists, client, errors,
           network, app, rest, hands
      <3>3. u \in Users => /\ Owning(u)' <=> Owning(u)
                           /\ Owning(u) => cur'[u] = cur[u]
        BY <1>2, <3>1 DEF NoTxn, Owning, TypeOK, Shape, OpShape, FlushPcs, CleanupPcs,
           DeletePcs, ReleaseOps, Calls, Sync, born, result, txnVars, lists, client,
           errors, network, app, rest, hands
      <3>4. Goto(u, "put")
        BY <1>2 DEF NoTxn
      <3> QED BY <3>1, <3>2, <3>3, <3>4, CallersFrame
    <2> QED
      BY <1>2, <2>1, RefsSame DEF NoTxn, born, result, txnVars, lists, client, errors,
         network, app, rest, hands
  <1>3. ASSUME NEW u \in Users, GetTxn(u) PROVE RefsExact'
    <2>1. CallersStay
      <3>1. u \in Threads
        BY DEF Threads
      <3>2. \A x \in Threads \ {u} : op'[x] = op[x] /\ cur'[x] = cur[x]
        BY <1>3, <3>1 DEF GetTxn, TypeOK, result, client, errors, network, hands
      <3>3. u \in Users => /\ Owning(u)' <=> Owning(u)
                           /\ Owning(u) => cur'[u] = cur[u]
        BY <1>3, <3>1 DEF GetTxn, Owning, TypeOK, Shape, OpShape, FlushPcs, CleanupPcs,
           DeletePcs, ReleaseOps, Calls, Sync, result, client, errors, network, hands
      <3>4. Goto(u, IF op[u] \in Sync THEN "own" ELSE "check")
        BY <1>3 DEF GetTxn
      <3> QED BY <3>1, <3>2, <3>3, <3>4, CallersFrame
    <2>2. OnlyCarrier(u) /\ u \in Threads
      BY <1>3 DEF GetTxn, OnlyCarrier, TypeOK, Threads, hands
    <2>3. PICK n \in Txns \ used : list' = list \cup {n} /\ ref' = [ref EXCEPT ![n] = 1]
      BY <1>3 DEF GetTxn
    <2>4. ref[n] = 0 /\ n \notin list BY <1>3, <2>3, Unborn DEF GetTxn, Shape
    <2>5. ASSUME NEW t \in Txns
          PROVE  ref'[t] = ref[t] + (One(t \in list') - One(t \in list))
                           + (One(t \in queue') - One(t \in queue))
                           + (One(t \in carry'[u]) - One(t \in carry[u]))
      BY <1>3, <2>3, <2>4 DEF GetTxn, One, TypeOK, hands
    <2> QED BY <1>3, <2>1, <2>2, <2>5, RefsFrame DEF GetTxn
  <1>4. ASSUME NEW u \in Users, Own(u) PROVE RefsExact'
    <2>1. CASE cur[u] \notin live
      BY <1>4, <2>1, RefsCrash DEF Own, Inc
    <2>2. CASE cur[u] \in live
      <3>1. ref' = [ref EXCEPT ![cur[u]] = ref[cur[u]] + 1] BY <1>4, <2>2 DEF Own, Inc
      <3>2. \A v \in Users \ {u} : Owning(v)' <=> Owning(v)
        BY <1>4 DEF Own, Owning, TypeOK, Threads
      <3>3. Owning(u)' /\ ~Owning(u)
        BY <1>4 DEF Own, Owning, TypeOK, Threads, Shape, OpShape
      <3>4. UNCHANGED <<list, queue, carry, cur>> BY <1>4 DEF Own, lists, hands
      <3>5. ASSUME NEW t \in Txns
            PROVE  ref'[t] = ref[t] + One(u \in Callers(t)') - One(u \in Callers(t))
        <4>1. u \in Callers(t)' <=> cur[u] = t BY <3>3, <3>4 DEF Callers
        <4>2. u \notin Callers(t) BY <3>3 DEF Callers
        <4> QED BY <3>1, <4>1, <4>2 DEF One, TypeOK
      <3> QED BY <1>4, <3>2, <3>4, <3>5, RefsOwn DEF Own
    <2> QED BY <2>1, <2>2
  <1>5. ASSUME NEW u \in Users, Arm(u) PROVE RefsExact'
    <2>1. CallersStay
      <3>1. u \in Threads
        BY DEF Threads
      <3>2. \A x \in Threads \ {u} : op'[x] = op[x] /\ cur'[x] = cur[x]
        BY <1>5, <3>1 DEF Arm, TypeOK, born, lists, client, errors, network, app, rest,
           hands
      <3>3. u \in Users => /\ Owning(u)' <=> Owning(u)
                           /\ Owning(u) => cur'[u] = cur[u]
        BY <1>5, <3>1 DEF Arm, Owning, TypeOK, Shape, OpShape, FlushPcs, CleanupPcs,
           DeletePcs, ReleaseOps, Calls, Sync, born, lists, client, errors, network,
           app, rest, hands
      <3>4. Goto(u, "check")
        BY <1>5 DEF Arm
      <3> QED BY <3>1, <3>2, <3>3, <3>4, CallersFrame
    <2> QED
      BY <1>5, <2>1, RefsSame DEF Arm, born, lists, client, errors, network, app, rest,
         hands
  <1>6. ASSUME NEW u \in Users, Check(u) PROVE RefsExact'
    <2>1. CallersStay
      <3>1. u \in Threads
        BY DEF Threads
      <3>2. \A x \in Threads \ {u} : op'[x] = op[x] /\ cur'[x] = cur[x]
        BY <1>6, <3>1 DEF Check, TypeOK, born, result, txnVars, lists, client, errors,
           network, app, rest, hands
      <3>3. u \in Users => /\ Owning(u)' <=> Owning(u)
                           /\ Owning(u) => cur'[u] = cur[u]
        BY <1>6, <3>1 DEF Check, Owning, TypeOK, Shape, OpShape, FlushPcs, CleanupPcs,
           DeletePcs, ReleaseOps, Calls, Sync, Failing, born, result, txnVars, lists,
           client, errors, network, app, rest, hands
      <3>4. PICK l : Goto(u, l)
        BY <1>6 DEF Check
      <3> QED BY <3>1, <3>2, <3>3, <3>4, CallersFrame
    <2> QED
      BY <1>6, <2>1, RefsSame DEF Check, born, result, txnVars, lists, client, errors,
         network, app, rest, hands
  <1>7. ASSUME NEW u \in Users, TakeRef(u) PROVE RefsExact'
    <2>1. CallersStay
      <3>1. u \in Threads
        BY DEF Threads
      <3>2. \A x \in Threads \ {u} : op'[x] = op[x] /\ cur'[x] = cur[x]
        BY <1>7, <3>1 DEF TakeRef, TypeOK, born, result, lists, client, errors, network
      <3>3. u \in Users => /\ Owning(u)' <=> Owning(u)
                           /\ Owning(u) => cur'[u] = cur[u]
        BY <1>7, <3>1 DEF TakeRef, Owning, TypeOK, Shape, OpShape, FlushPcs, CleanupPcs,
           DeletePcs, ReleaseOps, Calls, Sync, born, result, lists, client, errors,
           network
      <3>4. Goto(u, "queue")
        BY <1>7 DEF TakeRef
      <3> QED BY <3>1, <3>2, <3>3, <3>4, CallersFrame
    <2>2. OnlyCarrier(u) /\ u \in Threads
      BY <1>7 DEF TakeRef, OnlyCarrier, TypeOK, Threads, born, result, lists, client,
         errors, network
    <2>3. CASE cur[u] \notin live
      BY <1>7, <2>3, RefsCrash DEF TakeRef, Inc
    <2>4. CASE cur[u] \in live
      <3>1. ref' = [ref EXCEPT ![cur[u]] = ref[cur[u]] + 1] BY <1>7, <2>4 DEF TakeRef, Inc
      <3>2. carry[u] = {} /\ carry'[u] = {cur[u]}
        BY <1>7, <2>2 DEF TakeRef, TypeOK, Shape, CarryShape
      <3>3. list' = list /\ queue' = queue BY <1>7 DEF TakeRef, lists
      <3>4. ASSUME NEW t \in Txns
            PROVE  ref'[t] = ref[t] + (One(t \in list') - One(t \in list))
                           + (One(t \in queue') - One(t \in queue))
                           + (One(t \in carry'[u]) - One(t \in carry[u]))
        BY <3>1, <3>2, <3>3 DEF One, TypeOK
      <3> QED BY <1>7, <2>1, <2>2, <3>4, RefsFrame DEF TakeRef
    <2> QED BY <2>3, <2>4
  <1>8. ASSUME NEW u \in Users, Enqueue(u) PROVE RefsExact'
    <2>1. CallersStay
      <3>1. u \in Threads
        BY DEF Threads
      <3>2. \A x \in Threads \ {u} : op'[x] = op[x] /\ cur'[x] = cur[x]
        BY <1>8, <3>1 DEF Enqueue, TypeOK, born, result, txnVars, client, errors, network,
           app, rest
      <3>3. u \in Users => /\ Owning(u)' <=> Owning(u)
                           /\ Owning(u) => cur'[u] = cur[u]
        BY <1>8, <3>1 DEF Enqueue, Owning, TypeOK, Shape, OpShape, FlushPcs, CleanupPcs,
           DeletePcs, ReleaseOps, Calls, Sync, born, result, txnVars, client, errors,
           network, app, rest
      <3>4. Goto(u, "fl_addr")
        BY <1>8 DEF Enqueue
      <3> QED BY <3>1, <3>2, <3>3, <3>4, CallersFrame
    <2>2. OnlyCarrier(u) /\ u \in Threads
      BY <1>8 DEF Enqueue, OnlyCarrier, TypeOK, Threads, born, result, txnVars, client,
         errors, network, app, rest
    <2>3. ASSUME NEW t \in Txns
          PROVE  ref'[t] = ref[t] + (One(t \in list') - One(t \in list))
                           + (One(t \in queue') - One(t \in queue))
                           + (One(t \in carry'[u]) - One(t \in carry[u]))
      BY <1>8, <2>2 DEF Enqueue, One, TypeOK, Shape, CarryShape, OwnTxns, Early, born, result,
         txnVars, client, errors, network, app, rest
    <2> QED
      BY <1>8, <2>1, <2>2, <2>3, RefsFrame DEF Enqueue
  <1>9. ASSUME NEW u \in Users, Refuse(u) PROVE RefsExact'
    <2>1. CallersStay
      <3>1. u \in Threads
        BY DEF Threads
      <3>2. \A x \in Threads \ {u} : op'[x] = op[x] /\ cur'[x] = cur[x]
        BY <1>9, <3>1 DEF Refuse, TypeOK, born, result, lists, client, errors, network,
           app, rest
      <3>3. u \in Users => /\ Owning(u)' <=> Owning(u)
                           /\ Owning(u) => cur'[u] = cur[u]
        BY <1>9, <3>1 DEF Refuse, Owning, TypeOK, Shape, OpShape, FlushPcs, CleanupPcs,
           DeletePcs, ReleaseOps, Calls, Sync, Failing, born, result, lists, client,
           errors, network, app, rest
      <3>4. Goto(u, Failing(u))
        BY <1>9 DEF Refuse
      <3> QED BY <3>1, <3>2, <3>3, <3>4, CallersFrame
    <2>2. OnlyCarrier(u) /\ u \in Threads
      BY <1>9 DEF Refuse, OnlyCarrier, TypeOK, Threads, born, result, lists, client,
         errors, network, app, rest
    <2>3. ASSUME NEW t \in Txns
          PROVE  ref'[t] = ref[t] + (One(t \in list') - One(t \in list))
                           + (One(t \in queue') - One(t \in queue))
                           + (One(t \in carry'[u]) - One(t \in carry[u]))
      BY <1>9, <2>2 DEF Refuse, One, Dec, TypeOK, Shape, CarryShape, born, result, lists,
         client, errors, network, app, rest
    <2> QED
      BY <1>9, <2>1, <2>2, <2>3, RefsFrame DEF Refuse
  <1>10. ASSUME NEW u \in Users, Wake(u) PROVE RefsExact'
    <2>1. CallersStay
      <3>1. u \in Threads
        BY DEF Threads
      <3>2. \A x \in Threads \ {u} : op'[x] = op[x] /\ cur'[x] = cur[x]
        BY <1>10, <3>1 DEF Wake, TypeOK, born, lists, client, errors, network, app, rest,
           hands
      <3>3. u \in Users => /\ Owning(u)' <=> Owning(u)
                           /\ Owning(u) => cur'[u] = cur[u]
        BY <1>10, <3>1 DEF Wake, Owning, TypeOK, Shape, OpShape, FlushPcs, CleanupPcs,
           DeletePcs, ReleaseOps, Calls, Sync, born, lists, client, errors, network,
           app, rest, hands
      <3>4. Goto(u, IF pending[cur[u]] THEN "wait" ELSE "inval")
        BY <1>10 DEF Wake
      <3> QED BY <3>1, <3>2, <3>3, <3>4, CallersFrame
    <2> QED
      BY <1>10, <2>1, RefsSame DEF Wake, born, lists, client, errors, network, app, rest,
         hands
  <1>11. ASSUME NEW u \in Users, TimeOut(u) PROVE RefsExact'
    <2>1. CallersStay
      <3>1. u \in Threads
        BY DEF Threads
      <3>2. \A x \in Threads \ {u} : op'[x] = op[x] /\ cur'[x] = cur[x]
        BY <1>11, <3>1 DEF TimeOut, TypeOK, born, lists, client, errors, network, app, rest,
           hands
      <3>3. u \in Users => /\ Owning(u)' <=> Owning(u)
                           /\ Owning(u) => cur'[u] = cur[u]
        BY <1>11, <3>1 DEF TimeOut, Owning, TypeOK, Shape, OpShape, FlushPcs, CleanupPcs,
           DeletePcs, ReleaseOps, Calls, Sync, born, lists, client, errors, network,
           app, rest, hands
      <3>4. Goto(u, "inval")
        BY <1>11 DEF TimeOut
      <3> QED BY <3>1, <3>2, <3>3, <3>4, CallersFrame
    <2> QED
      BY <1>11, <2>1, RefsSame DEF TimeOut, born, lists, client, errors, network, app, rest,
         hands
  <1>12. ASSUME NEW u \in Users, Invalidate(u) PROVE RefsExact'
    <2>1. CallersStay
      <3>1. u \in Threads
        BY DEF Threads
      <3>2. \A x \in Threads \ {u} : op'[x] = op[x] /\ cur'[x] = cur[x]
        BY <1>12, <3>1 DEF Invalidate, TypeOK, born, result, lists, client, errors, network,
           app, rest, hands
      <3>3. u \in Users => /\ Owning(u)' <=> Owning(u)
                           /\ Owning(u) => cur'[u] = cur[u]
        BY <1>12, <3>1 DEF Invalidate, Owning, TypeOK, Shape, OpShape, FlushPcs, CleanupPcs,
           DeletePcs, ReleaseOps, Calls, Sync, born, result, lists, client, errors,
           network, app, rest, hands
      <3>4. Goto(u, "remove")
        BY <1>12 DEF Invalidate
      <3> QED BY <3>1, <3>2, <3>3, <3>4, CallersFrame
    <2> QED
      BY <1>12, <2>1, RefsSame DEF Invalidate, born, result, lists, client, errors, network,
         app, rest, hands
  <1>13. ASSUME NEW u \in Users, RemoveSync(u) PROVE RefsExact'
    <2>1. CallersStay
      <3>1. u \in Threads
        BY DEF Threads
      <3>2. \A x \in Threads \ {u} : op'[x] = op[x] /\ cur'[x] = cur[x]
        BY <1>13, <3>1 DEF RemoveSync, TypeOK, born, result, client, errors, network, app,
           rest, hands
      <3>3. u \in Users => /\ Owning(u)' <=> Owning(u)
                           /\ Owning(u) => cur'[u] = cur[u]
        BY <1>13, <3>1 DEF RemoveSync, Owning, TypeOK, Shape, OpShape, FlushPcs, CleanupPcs,
           DeletePcs, ReleaseOps, Calls, Sync, born, result, client, errors, network,
           app, rest, hands
      <3>4. Goto(u, "drop")
        BY <1>13 DEF RemoveSync
      <3> QED BY <3>1, <3>2, <3>3, <3>4, CallersFrame
    <2>2. OnlyCarrier(u) /\ u \in Threads
      BY <1>13 DEF RemoveSync, OnlyCarrier, TypeOK, Threads, born, result, client, errors,
         network, app, rest, hands
    <2>3. ASSUME NEW t \in Txns
          PROVE  ref'[t] = ref[t] + (One(t \in list') - One(t \in list))
                           + (One(t \in queue') - One(t \in queue))
                           + (One(t \in carry'[u]) - One(t \in carry[u]))
      BY <1>13, <2>2 DEF RemoveSync, One, Dec, TypeOK, Shape, CarryShape, born, result,
         client, errors, network, app, rest, hands
    <2> QED
      BY <1>13, <2>1, <2>2, <2>3, RefsFrame DEF RemoveSync
  <1>14. ASSUME NEW u \in Users, DropOwn(u) PROVE RefsExact'
    <2>1. ref' = [ref EXCEPT ![cur[u]] = ref[cur[u]] - 1] BY <1>14 DEF DropOwn, Dec
    <2>2. \A v \in Users \ {u} : Owning(v)' <=> Owning(v)
      BY <1>14 DEF DropOwn, Owning, TypeOK, Threads, rest, app
    <2>3. ~Owning(u)' /\ Owning(u)
      BY <1>14 DEF DropOwn, Owning, TypeOK, Threads, Shape, OpShape, rest, app
    <2>4. UNCHANGED <<list, queue, carry, cur>> BY <1>14 DEF DropOwn, lists, hands, rest, app
    <2>5. ASSUME NEW t \in Txns
          PROVE  ref'[t] = ref[t] + One(u \in Callers(t)') - One(u \in Callers(t))
      <3>1. u \in Callers(t) <=> cur[u] = t BY <2>3 DEF Callers
      <3>2. u \notin Callers(t)' BY <2>3 DEF Callers
      <3> QED BY <2>1, <3>1, <3>2 DEF One, TypeOK
    <2> QED BY <1>14, <2>2, <2>4, <2>5, RefsOwn DEF DropOwn
  <1>15. ASSUME NEW u \in Users, AsyncFails(u) PROVE RefsExact'
    <2>1. CallersStay
      <3>1. u \in Threads
        BY DEF Threads
      <3>2. \A x \in Threads \ {u} : op'[x] = op[x] /\ cur'[x] = cur[x]
        BY <1>15, <3>1 DEF AsyncFails, TypeOK, born, client, errors, network, app, rest,
           hands
      <3>3. u \in Users => /\ Owning(u)' <=> Owning(u)
                           /\ Owning(u) => cur'[u] = cur[u]
        BY <1>15, <3>1 DEF AsyncFails, Owning, TypeOK, Shape, OpShape, FlushPcs, CleanupPcs,
           DeletePcs, ReleaseOps, Calls, Sync, born, client, errors, network, app, rest,
           hands
      <3>4. Goto(u, "put")
        BY <1>15 DEF AsyncFails
      <3> QED BY <3>1, <3>2, <3>3, <3>4, CallersFrame
    <2>2. OnlyCarrier(u) /\ u \in Threads
      BY <1>15 DEF AsyncFails, OnlyCarrier, TypeOK, Threads, born, client, errors, network,
         app, rest, hands
    <2>3. ASSUME NEW t \in Txns
          PROVE  ref'[t] = ref[t] + (One(t \in list') - One(t \in list))
                           + (One(t \in queue') - One(t \in queue))
                           + (One(t \in carry'[u]) - One(t \in carry[u]))
      BY <1>15, <2>2 DEF AsyncFails, One, Dec, TypeOK, Shape, CarryShape, born, client,
         errors, network, app, rest, hands
    <2> QED
      BY <1>15, <2>1, <2>2, <2>3, RefsFrame DEF AsyncFails
  <1>16. ASSUME NEW u \in Users, PutRef(u) PROVE RefsExact'
    <2>1. CallersStay
      <3>1. u \in Threads
        BY DEF Threads
      <3>2. \A x \in Threads \ {u} : op'[x] = op[x] /\ cur'[x] = cur[x]
        BY <1>16, <3>1 DEF PutRef, TypeOK, born, result, txnVars, lists, errors, network,
           hands
      <3>3. u \in Users => /\ Owning(u)' <=> Owning(u)
                           /\ Owning(u) => cur'[u] = cur[u]
        BY <1>16, <3>1 DEF PutRef, Owning, TypeOK, Shape, OpShape, FlushPcs, CleanupPcs,
           DeletePcs, ReleaseOps, Calls, Sync, born, result, txnVars, lists, errors,
           network, hands
      <3>4. Goto(u, IF op[u] = "release" THEN "blocked" ELSE "idle")
        BY <1>16 DEF PutRef
      <3> QED BY <3>1, <3>2, <3>3, <3>4, CallersFrame
    <2> QED
      BY <1>16, <2>1, RefsSame DEF PutRef, born, result, txnVars, lists, errors, network,
         hands
  <1>17. ASSUME NEW u \in Users, BeginDelete(u) PROVE RefsExact'
    <2>1. CallersStay
      <3>1. u \in Threads
        BY DEF Threads
      <3>2. \A x \in Threads \ {u} : op'[x] = op[x] /\ cur'[x] = cur[x]
        BY <1>17, <3>1 DEF BeginDelete, TypeOK, GetRef, born, result, txnVars, lists,
           errors, network, hands
      <3>3. u \in Users => /\ Owning(u)' <=> Owning(u)
                           /\ Owning(u) => cur'[u] = cur[u]
        BY <1>17, <3>1 DEF BeginDelete, Owning, TypeOK, Shape, OpShape, FlushPcs,
           CleanupPcs, DeletePcs, ReleaseOps, Calls, Sync, GetRef, born, result,
           txnVars, lists, errors, network, hands
      <3>4. Goto(u, "del_queue")
        BY <1>17 DEF BeginDelete
      <3> QED BY <3>1, <3>2, <3>3, <3>4, CallersFrame
    <2> QED
      BY <1>17, <2>1, RefsSame DEF BeginDelete, born, result, txnVars, lists, errors,
         network, hands
  <1>18. ASSUME NEW u \in Users, DeleteQueued(u) PROVE RefsExact'
    <2>1. CallersStay
      <3>1. u \in Threads
        BY DEF Threads
      <3>2. \A x \in Threads \ {u} : op'[x] = op[x] /\ cur'[x] = cur[x]
        BY <1>18, <3>1 DEF DeleteQueued, TypeOK, born, result, txnVars, client, errors,
           network, app, rest
      <3>3. u \in Users => /\ Owning(u)' <=> Owning(u)
                           /\ Owning(u) => cur'[u] = cur[u]
        BY <1>18, <3>1 DEF DeleteQueued, Owning, TypeOK, Shape, OpShape, FlushPcs,
           CleanupPcs, DeletePcs, ReleaseOps, Calls, Sync, born, result, txnVars,
           client, errors, network, app, rest
      <3>4. Goto(u, IF cur[u] \in queue THEN "del_give" ELSE "del_list")
        BY <1>18 DEF DeleteQueued
      <3> QED BY <3>1, <3>2, <3>3, <3>4, CallersFrame
    <2>2. OnlyCarrier(u) /\ u \in Threads
      BY <1>18 DEF DeleteQueued, OnlyCarrier, TypeOK, Threads, born, result, txnVars,
         client, errors, network, app, rest
    <2>3. ASSUME NEW t \in Txns
          PROVE  ref'[t] = ref[t] + (One(t \in list') - One(t \in list))
                           + (One(t \in queue') - One(t \in queue))
                           + (One(t \in carry'[u]) - One(t \in carry[u]))
      BY <1>18, <2>2 DEF DeleteQueued, One, Dec, TypeOK, Shape, CarryShape, born, result,
         txnVars, client, errors, network, app, rest
    <2> QED
      BY <1>18, <2>1, <2>2, <2>3, RefsFrame DEF DeleteQueued
  <1>19. ASSUME NEW u \in Users, DeleteGive(u) PROVE RefsExact'
    <2>1. CallersStay
      <3>1. u \in Threads
        BY DEF Threads
      <3>2. \A x \in Threads \ {u} : op'[x] = op[x] /\ cur'[x] = cur[x]
        BY <1>19, <3>1 DEF DeleteGive, TypeOK, born, result, lists, client, errors, network,
           app, rest
      <3>3. u \in Users => /\ Owning(u)' <=> Owning(u)
                           /\ Owning(u) => cur'[u] = cur[u]
        BY <1>19, <3>1 DEF DeleteGive, Owning, TypeOK, Shape, OpShape, FlushPcs, CleanupPcs,
           DeletePcs, ReleaseOps, Calls, Sync, born, result, lists, client, errors,
           network, app, rest
      <3>4. Goto(u, "del_list")
        BY <1>19 DEF DeleteGive
      <3> QED BY <3>1, <3>2, <3>3, <3>4, CallersFrame
    <2>2. OnlyCarrier(u) /\ u \in Threads
      BY <1>19 DEF DeleteGive, OnlyCarrier, TypeOK, Threads, born, result, lists, client,
         errors, network, app, rest
    <2>3. ASSUME NEW t \in Txns
          PROVE  ref'[t] = ref[t] + (One(t \in list') - One(t \in list))
                           + (One(t \in queue') - One(t \in queue))
                           + (One(t \in carry'[u]) - One(t \in carry[u]))
      BY <1>19, <2>2 DEF DeleteGive, One, Dec, TypeOK, Shape, CarryShape, born, result,
         lists, client, errors, network, app, rest
    <2> QED
      BY <1>19, <2>1, <2>2, <2>3, RefsFrame DEF DeleteGive
  <1>20. ASSUME NEW u \in Users, DeleteListed(u) PROVE RefsExact'
    <2>1. CallersStay
      <3>1. u \in Threads
        BY DEF Threads
      <3>2. \A x \in Threads \ {u} : op'[x] = op[x] /\ cur'[x] = cur[x]
        BY <1>20, <3>1 DEF DeleteListed, TypeOK, born, client, errors, network, app, rest
      <3>3. u \in Users => /\ Owning(u)' <=> Owning(u)
                           /\ Owning(u) => cur'[u] = cur[u]
        BY <1>20, <3>1 DEF DeleteListed, Owning, TypeOK, Shape, OpShape, FlushPcs,
           CleanupPcs, DeletePcs, ReleaseOps, Calls, Sync, born, client, errors,
           network, app, rest
      <3>4. PICK l : Goto(u, l)
        BY <1>20 DEF DeleteListed
      <3> QED BY <3>1, <3>2, <3>3, <3>4, CallersFrame
    <2>2. OnlyCarrier(u) /\ u \in Threads
      BY <1>20 DEF DeleteListed, OnlyCarrier, TypeOK, Threads, born, client, errors,
         network, app, rest
    <2>3. ASSUME NEW t \in Txns
          PROVE  ref'[t] = ref[t] + (One(t \in list') - One(t \in list))
                           + (One(t \in queue') - One(t \in queue))
                           + (One(t \in carry'[u]) - One(t \in carry[u]))
      BY <1>20, <2>2 DEF DeleteListed, One, Dec, TypeOK, Shape, CarryShape, born, client,
         errors, network, app, rest
    <2> QED
      BY <1>20, <2>1, <2>2, <2>3, RefsFrame DEF DeleteListed
  <1>21. ASSUME NEW u \in Users, DeleteDrop(u) PROVE RefsExact'
    <2>1. CallersStay
      <3>1. u \in Threads
        BY DEF Threads
      <3>2. \A x \in Threads \ {u} : op'[x] = op[x] /\ cur'[x] = cur[x]
        BY <1>21, <3>1 DEF DeleteDrop, TypeOK, born, result, lists, client, errors, network,
           app, rest
      <3>3. u \in Users => /\ Owning(u)' <=> Owning(u)
                           /\ Owning(u) => cur'[u] = cur[u]
        BY <1>21, <3>1 DEF DeleteDrop, Owning, TypeOK, Shape, OpShape, FlushPcs, CleanupPcs,
           DeletePcs, ReleaseOps, Calls, Sync, born, result, lists, client, errors,
           network, app, rest
      <3>4. Goto(u, "put")
        BY <1>21 DEF DeleteDrop
      <3> QED BY <3>1, <3>2, <3>3, <3>4, CallersFrame
    <2>2. OnlyCarrier(u) /\ u \in Threads
      BY <1>21 DEF DeleteDrop, OnlyCarrier, TypeOK, Threads, born, result, lists, client,
         errors, network, app, rest
    <2>3. ASSUME NEW t \in Txns
          PROVE  ref'[t] = ref[t] + (One(t \in list') - One(t \in list))
                           + (One(t \in queue') - One(t \in queue))
                           + (One(t \in carry'[u]) - One(t \in carry[u]))
      BY <1>21, <2>2 DEF DeleteDrop, One, Dec, TypeOK, Shape, CarryShape, born, result,
         lists, client, errors, network, app, rest
    <2> QED
      BY <1>21, <2>1, <2>2, <2>3, RefsFrame DEF DeleteDrop
  <1>22. ASSUME NEW u \in Users, BeginRelease(u) PROVE RefsExact'
    <2>1. CallersStay
      <3>1. u \in Threads
        BY DEF Threads
      <3>2. \A x \in Threads \ {u} : op'[x] = op[x] /\ cur'[x] = cur[x]
        BY <1>22, <3>1 DEF BeginRelease, TypeOK, GetRef, born, result, txnVars, lists,
           errors, network, hands
      <3>3. u \in Users => /\ Owning(u)' <=> Owning(u)
                           /\ Owning(u) => cur'[u] = cur[u]
        BY <1>22, <3>1 DEF BeginRelease, Owning, TypeOK, Shape, OpShape, FlushPcs,
           CleanupPcs, DeletePcs, ReleaseOps, Calls, Sync, GetRef, born, result,
           txnVars, lists, errors, network, hands
      <3>4. Goto(u, "probe")
        BY <1>22 DEF BeginRelease
      <3> QED BY <3>1, <3>2, <3>3, <3>4, CallersFrame
    <2> QED
      BY <1>22, <2>1, RefsSame DEF BeginRelease, born, result, txnVars, lists, errors,
         network, hands
  <1>23. ASSUME NEW u \in Users, EndProbe(u) PROVE RefsExact'
    <2>1. CallersStay
      <3>1. u \in Threads
        BY DEF Threads
      <3>2. \A x \in Threads \ {u} : op'[x] = op[x] /\ cur'[x] = cur[x]
        BY <1>23, <3>1 DEF EndProbe, TypeOK, born, result, txnVars, lists, errors, network,
           app, hands
      <3>3. u \in Users => /\ Owning(u)' <=> Owning(u)
                           /\ Owning(u) => cur'[u] = cur[u]
        BY <1>23, <3>1 DEF EndProbe, Owning, TypeOK, Shape, OpShape, FlushPcs, CleanupPcs,
           DeletePcs, ReleaseOps, Calls, Sync, born, result, txnVars, lists, errors,
           network, app, hands
      <3>4. Goto(u, "unlink")
        BY <1>23 DEF EndProbe
      <3> QED BY <3>1, <3>2, <3>3, <3>4, CallersFrame
    <2> QED
      BY <1>23, <2>1, RefsSame DEF EndProbe, born, result, txnVars, lists, errors, network,
         app, hands
  <1>24. ASSUME NEW u \in Users, Unlink(u) PROVE RefsExact'
    <2>1. CallersStay
      <3>1. u \in Threads
        BY DEF Threads
      <3>2. \A x \in Threads \ {u} : op'[x] = op[x] /\ cur'[x] = cur[x]
        BY <1>24, <3>1 DEF Unlink, TypeOK, born, result, txnVars, lists, errors, network,
           app, hands
      <3>3. u \in Users => /\ Owning(u)' <=> Owning(u)
                           /\ Owning(u) => cur'[u] = cur[u]
        BY <1>24, <3>1 DEF Unlink, Owning, TypeOK, Shape, OpShape, FlushPcs, CleanupPcs,
           DeletePcs, ReleaseOps, Calls, Sync, born, result, txnVars, lists, errors,
           network, app, hands
      <3>4. Goto(u, "rel_stop")
        BY <1>24 DEF Unlink
      <3> QED BY <3>1, <3>2, <3>3, <3>4, CallersFrame
    <2> QED
      BY <1>24, <2>1, RefsSame DEF Unlink, born, result, txnVars, lists, errors, network,
         app, hands
  <1>25. ASSUME NEW u \in Users, NoRelease(u) PROVE RefsExact'
    <2>1. CallersStay
      <3>1. u \in Threads
        BY DEF Threads
      <3>2. \A x \in Threads \ {u} : op'[x] = op[x] /\ cur'[x] = cur[x]
        BY <1>25, <3>1 DEF NoRelease, TypeOK, born, result, txnVars, lists, client, errors,
           network, hands
      <3>3. u \in Users => /\ Owning(u)' <=> Owning(u)
                           /\ Owning(u) => cur'[u] = cur[u]
        BY <1>25, <3>1 DEF NoRelease, Owning, TypeOK, Shape, OpShape, FlushPcs, CleanupPcs,
           DeletePcs, ReleaseOps, Calls, Sync, born, result, txnVars, lists, client,
           errors, network, hands
      <3>4. Goto(u, "idle")
        BY <1>25 DEF NoRelease
      <3> QED BY <3>1, <3>2, <3>3, <3>4, CallersFrame
    <2> QED
      BY <1>25, <2>1, RefsSame DEF NoRelease, born, result, txnVars, lists, client, errors,
         network, hands
  <1>26. ASSUME NEW u \in Users, BeginReleaseAsync(u) PROVE RefsExact'
    <2>1. CallersStay
      <3>1. u \in Threads
        BY DEF Threads
      <3>2. \A x \in Threads \ {u} : op'[x] = op[x] /\ cur'[x] = cur[x]
        BY <1>26, <3>1 DEF BeginReleaseAsync, TypeOK, GetRef, born, result, txnVars, lists,
           errors, network, hands
      <3>3. u \in Users => /\ Owning(u)' <=> Owning(u)
                           /\ Owning(u) => cur'[u] = cur[u]
        BY <1>26, <3>1 DEF BeginReleaseAsync, Owning, TypeOK, Shape, OpShape, FlushPcs,
           CleanupPcs, DeletePcs, ReleaseOps, Calls, Sync, GetRef, born, result,
           txnVars, lists, errors, network, hands
      <3>4. Goto(u, "rel_stop")
        BY <1>26 DEF BeginReleaseAsync
      <3> QED BY <3>1, <3>2, <3>3, <3>4, CallersFrame
    <2> QED
      BY <1>26, <2>1, RefsSame DEF BeginReleaseAsync, born, result, txnVars, lists, errors,
         network, hands
  <1>27. ASSUME NEW u \in Users, ReleaseStop(u) PROVE RefsExact'
    <2>1. CallersStay
      <3>1. u \in Threads
        BY DEF Threads
      <3>2. \A x \in Threads \ {u} : op'[x] = op[x] /\ cur'[x] = cur[x]
        BY <1>27, <3>1 DEF ReleaseStop, TypeOK, born, result, txnVars, lists, errors,
           network, app, hands
      <3>3. u \in Users => /\ Owning(u)' <=> Owning(u)
                           /\ Owning(u) => cur'[u] = cur[u]
        BY <1>27, <3>1 DEF ReleaseStop, Owning, TypeOK, Shape, OpShape, FlushPcs,
           CleanupPcs, DeletePcs, ReleaseOps, Calls, Sync, born, result, txnVars, lists,
           errors, network, app, hands
      <3>4. Goto(u, "cu_queue")
        BY <1>27 DEF ReleaseStop
      <3> QED BY <3>1, <3>2, <3>3, <3>4, CallersFrame
    <2> QED
      BY <1>27, <2>1, RefsSame DEF ReleaseStop, born, result, txnVars, lists, errors,
         network, app, hands
  <1>28. ASSUME NEW u \in Users, ReleaseClose(u) PROVE RefsExact'
    <2>1. CallersStay
      <3>1. u \in Threads
        BY DEF Threads
      <3>2. \A x \in Threads \ {u} : op'[x] = op[x] /\ cur'[x] = cur[x]
        BY <1>28, <3>1 DEF ReleaseClose, TypeOK, born, result, txnVars, lists, errors, app,
           hands
      <3>3. u \in Users => /\ Owning(u)' <=> Owning(u)
                           /\ Owning(u) => cur'[u] = cur[u]
        BY <1>28, <3>1 DEF ReleaseClose, Owning, TypeOK, Shape, OpShape, FlushPcs,
           CleanupPcs, DeletePcs, ReleaseOps, Calls, Sync, born, result, txnVars, lists,
           errors, app, hands
      <3>4. Goto(u, "put")
        BY <1>28 DEF ReleaseClose
      <3> QED BY <3>1, <3>2, <3>3, <3>4, CallersFrame
    <2> QED
      BY <1>28, <2>1, RefsSame DEF ReleaseClose, born, result, txnVars, lists, errors, app,
         hands
  <1>29. ASSUME NEW u \in Users, Unblock(u) PROVE RefsExact'
    <2>1. CallersStay
      <3>1. u \in Threads
        BY DEF Threads
      <3>2. \A x \in Threads \ {u} : op'[x] = op[x] /\ cur'[x] = cur[x]
        BY <1>29, <3>1 DEF Unblock, TypeOK, born, result, txnVars, lists, client, errors,
           network, app, rest, hands
      <3>3. u \in Users => /\ Owning(u)' <=> Owning(u)
                           /\ Owning(u) => cur'[u] = cur[u]
        BY <1>29, <3>1 DEF Unblock, Owning, TypeOK, Shape, OpShape, FlushPcs, CleanupPcs,
           DeletePcs, ReleaseOps, Calls, Sync, born, result, txnVars, lists, client,
           errors, network, app, rest, hands
      <3>4. Goto(u, "idle")
        BY <1>29 DEF Unblock
      <3> QED BY <3>1, <3>2, <3>3, <3>4, CallersFrame
    <2> QED
      BY <1>29, <2>1, RefsSame DEF Unblock, born, result, txnVars, lists, client, errors,
         network, app, rest, hands
  <1>30. ASSUME NEW u \in Users, BeginRegister(u) PROVE RefsExact'
    <2>1. CallersStay
      <3>1. u \in Threads
        BY DEF Threads
      <3>2. \A x \in Threads \ {u} : op'[x] = op[x] /\ cur'[x] = cur[x]
        BY <1>30, <3>1 DEF BeginRegister, TypeOK, GetRef, born, result, txnVars, lists,
           errors, network, hands
      <3>3. u \in Users => /\ Owning(u)' <=> Owning(u)
                           /\ Owning(u) => cur'[u] = cur[u]
        BY <1>30, <3>1 DEF BeginRegister, Owning, TypeOK, Shape, OpShape, FlushPcs,
           CleanupPcs, DeletePcs, ReleaseOps, Calls, Sync, GetRef, born, result,
           txnVars, lists, errors, network, hands
      <3>4. Goto(u, "reg")
        BY <1>30 DEF BeginRegister
      <3> QED BY <3>1, <3>2, <3>3, <3>4, CallersFrame
    <2> QED
      BY <1>30, <2>1, RefsSame DEF BeginRegister, born, result, txnVars, lists, errors,
         network, hands
  <1>31. ASSUME NEW u \in Users, RegisterErrorCb(u) PROVE RefsExact'
    <2>1. CallersStay
      <3>1. u \in Threads
        BY DEF Threads
      <3>2. \A x \in Threads \ {u} : op'[x] = op[x] /\ cur'[x] = cur[x]
        BY <1>31, <3>1 DEF RegisterErrorCb, TypeOK, born, result, txnVars, lists, client,
           network, app, hands
      <3>3. u \in Users => /\ Owning(u)' <=> Owning(u)
                           /\ Owning(u) => cur'[u] = cur[u]
        BY <1>31, <3>1 DEF RegisterErrorCb, Owning, TypeOK, Shape, OpShape, FlushPcs,
           CleanupPcs, DeletePcs, ReleaseOps, Calls, Sync, born, result, txnVars, lists,
           client, network, app, hands
      <3>4. Goto(u, IF errPending THEN "reg_call" ELSE "put")
        BY <1>31 DEF RegisterErrorCb
      <3> QED BY <3>1, <3>2, <3>3, <3>4, CallersFrame
    <2> QED
      BY <1>31, <2>1, RefsSame DEF RegisterErrorCb, born, result, txnVars, lists, client,
         network, app, hands
  <1>32. ASSUME NEW u \in Users, RegisterCall(u) PROVE RefsExact'
    <2>1. CallersStay
      <3>1. u \in Threads
        BY DEF Threads
      <3>2. \A x \in Threads \ {u} : op'[x] = op[x] /\ cur'[x] = cur[x]
        BY <1>32, <3>1 DEF RegisterCall, TypeOK, born, result, txnVars, lists, client,
           network, app, hands
      <3>3. u \in Users => /\ Owning(u)' <=> Owning(u)
                           /\ Owning(u) => cur'[u] = cur[u]
        BY <1>32, <3>1 DEF RegisterCall, Owning, TypeOK, Shape, OpShape, FlushPcs,
           CleanupPcs, DeletePcs, ReleaseOps, Calls, Sync, born, result, txnVars, lists,
           client, network, app, hands
      <3>4. Goto(u, "put")
        BY <1>32 DEF RegisterCall
      <3> QED BY <3>1, <3>2, <3>3, <3>4, CallersFrame
    <2> QED
      BY <1>32, <2>1, RefsSame DEF RegisterCall, born, result, txnVars, lists, client,
         network, app, hands
  <1>33. ASSUME NEW th \in Users \cup {Loss, Resumer}, CleanupQueue(th) PROVE RefsExact'
    <2>1. CallersStay
      <3>1. th \in Threads
        BY DEF Threads
      <3>2. \A x \in Threads \ {th} : op'[x] = op[x] /\ cur'[x] = cur[x]
        BY <1>33, <3>1 DEF CleanupQueue, TypeOK, born, result, txnVars, client, errors,
           network, app, rest
      <3>3. th \in Users => /\ Owning(th)' <=> Owning(th)
                            /\ Owning(th) => cur'[th] = cur[th]
        BY <1>33, <3>1 DEF CleanupQueue, Owning, TypeOK, Shape, OpShape, FlushPcs,
           CleanupPcs, DeletePcs, ReleaseOps, Calls, Sync, born, result, txnVars,
           client, errors, network, app, rest
      <3>4. Goto(th, "cu_give")
        BY <1>33 DEF CleanupQueue
      <3> QED BY <3>1, <3>2, <3>3, <3>4, CallersFrame
    <2>2. OnlyCarrier(th) /\ th \in Threads
      BY <1>33 DEF CleanupQueue, OnlyCarrier, TypeOK, Threads, born, result, txnVars,
         client, errors, network, app, rest
    <2>3. ASSUME NEW t \in Txns
          PROVE  ref'[t] = ref[t] + (One(t \in list') - One(t \in list))
                           + (One(t \in queue') - One(t \in queue))
                           + (One(t \in carry'[th]) - One(t \in carry[th]))
      BY <1>33, <2>2 DEF CleanupQueue, One, Dec, TypeOK, Shape, CarryShape, born, result,
         txnVars, client, errors, network, app, rest
    <2> QED
      BY <1>33, <2>1, <2>2, <2>3, RefsFrame DEF CleanupQueue
  <1>34. ASSUME NEW th \in Users \cup {Loss, Resumer}, CleanupGive(th) PROVE RefsExact'
    <2>1. CallersStay
      BY <1>34, CallersSame DEF CleanupGive, born, result, lists, client, errors, network,
         app, rest
    <2>2. OnlyCarrier(th) /\ th \in Threads
      BY <1>34 DEF CleanupGive, OnlyCarrier, TypeOK, Threads, born, result, lists, client,
         errors, network, app, rest
    <2>3. ASSUME NEW t \in Txns
          PROVE  ref'[t] = ref[t] + (One(t \in list') - One(t \in list))
                           + (One(t \in queue') - One(t \in queue))
                           + (One(t \in carry'[th]) - One(t \in carry[th]))
      BY <1>34, <2>2 DEF CleanupGive, One, Dec, TypeOK, Shape, CarryShape, born, result,
         lists, client, errors, network, app, rest
    <2> QED
      BY <1>34, <2>1, <2>2, <2>3, RefsFrame DEF CleanupGive
  <1>35. ASSUME NEW th \in Users \cup {Loss, Resumer}, CleanupList(th) PROVE RefsExact'
    <2>1. CallersStay
      <3>1. th \in Threads
        BY DEF Threads
      <3>2. \A x \in Threads \ {th} : op'[x] = op[x] /\ cur'[x] = cur[x]
        BY <1>35, <3>1 DEF CleanupList, TypeOK, born, result, txnVars, client, errors,
           network, app, rest
      <3>3. th \in Users => /\ Owning(th)' <=> Owning(th)
                            /\ Owning(th) => cur'[th] = cur[th]
        BY <1>35, <3>1 DEF CleanupList, Owning, TypeOK, Shape, OpShape, FlushPcs,
           CleanupPcs, DeletePcs, ReleaseOps, Calls, Sync, AfterCleanup, AfterFlush,
           born, result, txnVars, client, errors, network, app, rest
      <3>4. Goto(th, IF list = {} THEN AfterCleanup(th) ELSE "cu_fail")
        BY <1>35 DEF CleanupList
      <3> QED BY <3>1, <3>2, <3>3, <3>4, CallersFrame
    <2>2. OnlyCarrier(th) /\ th \in Threads
      BY <1>35 DEF CleanupList, OnlyCarrier, TypeOK, Threads, born, result, txnVars, client,
         errors, network, app, rest
    <2>3. ASSUME NEW t \in Txns
          PROVE  ref'[t] = ref[t] + (One(t \in list') - One(t \in list))
                           + (One(t \in queue') - One(t \in queue))
                           + (One(t \in carry'[th]) - One(t \in carry[th]))
      BY <1>35, <2>2 DEF CleanupList, One, Dec, TypeOK, Shape, CarryShape, born, result,
         txnVars, client, errors, network, app, rest
    <2> QED
      BY <1>35, <2>1, <2>2, <2>3, RefsFrame DEF CleanupList
  <1>36. ASSUME NEW th \in Users \cup {Loss, Resumer}, CleanupFail(th) PROVE RefsExact'
    <2>1. CallersStay
      <3>1. th \in Threads
        BY DEF Threads
      <3>2. \A x \in Threads \ {th} : op'[x] = op[x] /\ cur'[x] = cur[x]
        BY <1>36, <3>1 DEF CleanupFail, TypeOK, born, lists, client, errors, network, app,
           rest
      <3>3. th \in Users => /\ Owning(th)' <=> Owning(th)
                            /\ Owning(th) => cur'[th] = cur[th]
        BY <1>36, <3>1 DEF CleanupFail, Owning, TypeOK, Shape, OpShape, FlushPcs,
           CleanupPcs, DeletePcs, ReleaseOps, Calls, Sync, born, lists, client, errors,
           network, app, rest
      <3>4. Goto(th, "cu_drop")
        BY <1>36 DEF CleanupFail
      <3> QED BY <3>1, <3>2, <3>3, <3>4, CallersFrame
    <2> QED
      BY <1>36, <2>1, RefsSame DEF CleanupFail, born, lists, client, errors, network, app,
         rest
  <1>37. ASSUME NEW th \in Users \cup {Loss, Resumer}, CleanupDrop(th) PROVE RefsExact'
    <2>1. CallersStay
      <3>1. th \in Threads
        BY DEF Threads
      <3>2. \A x \in Threads \ {th} : op'[x] = op[x] /\ cur'[x] = cur[x]
        BY <1>37, <3>1 DEF CleanupDrop, TypeOK, born, result, lists, client, errors,
           network, app, rest
      <3>3. th \in Users => /\ Owning(th)' <=> Owning(th)
                            /\ Owning(th) => cur'[th] = cur[th]
        BY <1>37, <3>1 DEF CleanupDrop, Owning, TypeOK, Shape, OpShape, FlushPcs,
           CleanupPcs, DeletePcs, ReleaseOps, Calls, Sync, AfterCleanup, AfterFlush,
           born, result, lists, client, errors, network, app, rest
      <3>4. Goto(th, IF carry[th] = {work[th]} THEN AfterCleanup(th) ELSE "cu_fail")
        BY <1>37 DEF CleanupDrop
      <3> QED BY <3>1, <3>2, <3>3, <3>4, CallersFrame
    <2>2. OnlyCarrier(th) /\ th \in Threads
      BY <1>37 DEF CleanupDrop, OnlyCarrier, TypeOK, Threads, born, result, lists, client,
         errors, network, app, rest
    <2>3. ASSUME NEW t \in Txns
          PROVE  ref'[t] = ref[t] + (One(t \in list') - One(t \in list))
                           + (One(t \in queue') - One(t \in queue))
                           + (One(t \in carry'[th]) - One(t \in carry[th]))
      BY <1>37, <2>2 DEF CleanupDrop, One, Dec, TypeOK, Shape, CarryShape, born, result,
         lists, client, errors, network, app, rest
    <2> QED
      BY <1>37, <2>1, <2>2, <2>3, RefsFrame DEF CleanupDrop
  <1>38. ASSUME NEW th \in Users \cup {Loss, Resumer}, FlushAddress(th) PROVE RefsExact'
    <2>1. CallersStay
      <3>1. th \in Threads
        BY DEF Threads
      <3>2. \A x \in Threads \ {th} : op'[x] = op[x] /\ cur'[x] = cur[x]
        BY <1>38, <3>1 DEF FlushAddress, TypeOK, born, result, txnVars, lists, client,
           errors, network, app, rest, hands
      <3>3. th \in Users => /\ Owning(th)' <=> Owning(th)
                            /\ Owning(th) => cur'[th] = cur[th]
        BY <1>38, <3>1 DEF FlushAddress, Owning, TypeOK, Shape, OpShape, FlushPcs,
           CleanupPcs, DeletePcs, ReleaseOps, Calls, Sync, born, result, txnVars, lists,
           client, errors, network, app, rest, hands
      <3>4. Goto(th, IF valid THEN "fl_send" ELSE "cu_queue")
        BY <1>38 DEF FlushAddress
      <3> QED BY <3>1, <3>2, <3>3, <3>4, CallersFrame
    <2> QED
      BY <1>38, <2>1, RefsSame DEF FlushAddress, born, result, txnVars, lists, client,
         errors, network, app, rest, hands
  <1>39. ASSUME NEW th \in Users \cup {Loss, Resumer}, FlushEnd(th) PROVE RefsExact'
    <2>1. CallersStay
      <3>1. th \in Threads
        BY DEF Threads
      <3>2. \A x \in Threads \ {th} : op'[x] = op[x] /\ cur'[x] = cur[x]
        BY <1>39, <3>1 DEF FlushEnd, TypeOK, born, result, txnVars, lists, client, errors,
           network, app, rest, hands
      <3>3. th \in Users => /\ Owning(th)' <=> Owning(th)
                            /\ Owning(th) => cur'[th] = cur[th]
        BY <1>39, <3>1 DEF FlushEnd, Owning, TypeOK, Shape, OpShape, FlushPcs, CleanupPcs,
           DeletePcs, ReleaseOps, Calls, Sync, AfterFlush, born, result, txnVars, lists,
           client, errors, network, app, rest, hands
      <3>4. Goto(th, AfterFlush(th))
        BY <1>39 DEF FlushEnd
      <3> QED BY <3>1, <3>2, <3>3, <3>4, CallersFrame
    <2> QED
      BY <1>39, <2>1, RefsSame DEF FlushEnd, born, result, txnVars, lists, client, errors,
         network, app, rest, hands
  <1>40. ASSUME NEW th \in Users \cup {Loss, Resumer}, FlushBusy(th) PROVE RefsExact'
    <2>1. CallersStay
      <3>1. th \in Threads
        BY DEF Threads
      <3>2. \A x \in Threads \ {th} : op'[x] = op[x] /\ cur'[x] = cur[x]
        BY <1>40, <3>1 DEF FlushBusy, TypeOK, born, result, txnVars, lists, client, errors,
           app, hands
      <3>3. th \in Users => /\ Owning(th)' <=> Owning(th)
                            /\ Owning(th) => cur'[th] = cur[th]
        BY <1>40, <3>1 DEF FlushBusy, Owning, TypeOK, Shape, OpShape, FlushPcs, CleanupPcs,
           DeletePcs, ReleaseOps, Calls, Sync, AfterFlush, born, result, txnVars, lists,
           client, errors, app, hands
      <3>4. Goto(th, AfterFlush(th))
        BY <1>40 DEF FlushBusy
      <3> QED BY <3>1, <3>2, <3>3, <3>4, CallersFrame
    <2> QED
      BY <1>40, <2>1, RefsSame DEF FlushBusy, born, result, txnVars, lists, client, errors,
         app, hands
  <1>41. ASSUME NEW th \in Users \cup {Loss, Resumer}, FlushSend(th) PROVE RefsExact'
    <2>1. CallersStay
      <3>1. th \in Threads
        BY DEF Threads
      <3>2. \A x \in Threads \ {th} : op'[x] = op[x] /\ cur'[x] = cur[x]
        BY <1>41, <3>1 DEF FlushSend, TypeOK, born, result, txnVars, client, errors, app
      <3>3. th \in Users => /\ Owning(th)' <=> Owning(th)
                            /\ Owning(th) => cur'[th] = cur[th]
        BY <1>41, <3>1 DEF FlushSend, Owning, TypeOK, Shape, OpShape, FlushPcs, CleanupPcs,
           DeletePcs, ReleaseOps, Calls, Sync, born, result, txnVars, client, errors,
           app
      <3>4. PICK l : Goto(th, l)
        BY <1>41 DEF FlushSend
      <3> QED BY <3>1, <3>2, <3>3, <3>4, CallersFrame
    <2>2. OnlyCarrier(th) /\ th \in Threads
      BY <1>41 DEF FlushSend, OnlyCarrier, TypeOK, Threads, born, result, txnVars, client,
         errors, app
    <2>3. ASSUME NEW t \in Txns
          PROVE  ref'[t] = ref[t] + (One(t \in list') - One(t \in list))
                           + (One(t \in queue') - One(t \in queue))
                           + (One(t \in carry'[th]) - One(t \in carry[th]))
      BY <1>41, <2>2, SMTT(30) DEF FlushSend, One, Dec, TypeOK, Shape, CarryShape, born, result,
         txnVars, client, errors, app
    <2> QED
      BY <1>41, <2>1, <2>2, <2>3, RefsFrame DEF FlushSend
  <1>42. ASSUME NEW th \in Users \cup {Loss, Resumer}, FlushGive(th) PROVE RefsExact'
    <2>1. CallersStay
      <3>1. th \in Threads
        BY DEF Threads
      <3>2. \A x \in Threads \ {th} : op'[x] = op[x] /\ cur'[x] = cur[x]
        BY <1>42, <3>1 DEF FlushGive, TypeOK, born, result, lists, client, errors, network,
           app, rest
      <3>3. th \in Users => /\ Owning(th)' <=> Owning(th)
                            /\ Owning(th) => cur'[th] = cur[th]
        BY <1>42, <3>1 DEF FlushGive, Owning, TypeOK, Shape, OpShape, FlushPcs, CleanupPcs,
           DeletePcs, ReleaseOps, Calls, Sync, born, result, lists, client, errors,
           network, app, rest
      <3>4. Goto(th, IF pc[th] = "fl_sent" THEN "fl_send" ELSE "fl_log")
        BY <1>42 DEF FlushGive
      <3> QED BY <3>1, <3>2, <3>3, <3>4, CallersFrame
    <2>2. OnlyCarrier(th) /\ th \in Threads
      BY <1>42 DEF FlushGive, OnlyCarrier, TypeOK, Threads, born, result, lists, client,
         errors, network, app, rest
    <2>3. ASSUME NEW t \in Txns
          PROVE  ref'[t] = ref[t] + (One(t \in list') - One(t \in list))
                           + (One(t \in queue') - One(t \in queue))
                           + (One(t \in carry'[th]) - One(t \in carry[th]))
      BY <1>42, <2>2 DEF FlushGive, One, Dec, TypeOK, Shape, CarryShape, born, result,
         lists, client, errors, network, app, rest
    <2> QED
      BY <1>42, <2>1, <2>2, <2>3, RefsFrame DEF FlushGive
  <1>43. ASSUME NEW th \in Users \cup {Loss, Resumer}, FlushFind(th) PROVE RefsExact'
    <2>1. CallersStay
      <3>1. th \in Threads
        BY DEF Threads
      <3>2. \A x \in Threads \ {th} : op'[x] = op[x] /\ cur'[x] = cur[x]
        BY <1>43, <3>1 DEF FlushFind, TypeOK, born, result, txnVars, client, errors,
           network, app, rest
      <3>3. th \in Users => /\ Owning(th)' <=> Owning(th)
                            /\ Owning(th) => cur'[th] = cur[th]
        BY <1>43, <3>1 DEF FlushFind, Owning, TypeOK, Shape, OpShape, FlushPcs, CleanupPcs,
           DeletePcs, ReleaseOps, Calls, Sync, born, result, txnVars, client, errors,
           network, app, rest
      <3>4. PICK l : Goto(th, l)
        BY <1>43 DEF FlushFind
      <3> QED BY <3>1, <3>2, <3>3, <3>4, CallersFrame
    <2>2. OnlyCarrier(th) /\ th \in Threads
      BY <1>43 DEF FlushFind, OnlyCarrier, TypeOK, Threads, born, result, txnVars, client,
         errors, network, app, rest
    <2>3. ASSUME NEW t \in Txns
          PROVE  ref'[t] = ref[t] + (One(t \in list') - One(t \in list))
                           + (One(t \in queue') - One(t \in queue))
                           + (One(t \in carry'[th]) - One(t \in carry[th]))
      BY <1>43, <2>2 DEF FlushFind, One, Dec, TypeOK, Shape, CarryShape, born, result,
         txnVars, client, errors, network, app, rest
    <2> QED
      BY <1>43, <2>1, <2>2, <2>3, RefsFrame DEF FlushFind
  <1>44. ASSUME NEW th \in Users \cup {Loss, Resumer}, FlushFail(th) PROVE RefsExact'
    <2>1. CallersStay
      <3>1. th \in Threads
        BY DEF Threads
      <3>2. \A x \in Threads \ {th} : op'[x] = op[x] /\ cur'[x] = cur[x]
        BY <1>44, <3>1 DEF FlushFail, TypeOK, born, lists, client, errors, network, app,
           rest, hands
      <3>3. th \in Users => /\ Owning(th)' <=> Owning(th)
                            /\ Owning(th) => cur'[th] = cur[th]
        BY <1>44, <3>1 DEF FlushFail, Owning, TypeOK, Shape, OpShape, FlushPcs, CleanupPcs,
           DeletePcs, ReleaseOps, Calls, Sync, born, lists, client, errors, network,
           app, rest, hands
      <3>4. Goto(th, "fl_drop")
        BY <1>44 DEF FlushFail
      <3> QED BY <3>1, <3>2, <3>3, <3>4, CallersFrame
    <2> QED
      BY <1>44, <2>1, RefsSame DEF FlushFail, born, lists, client, errors, network, app,
         rest, hands
  <1>45. ASSUME NEW th \in Users \cup {Loss, Resumer}, FlushDrop(th) PROVE RefsExact'
    <2>1. CallersStay
      <3>1. th \in Threads
        BY DEF Threads
      <3>2. \A x \in Threads \ {th} : op'[x] = op[x] /\ cur'[x] = cur[x]
        BY <1>45, <3>1 DEF FlushDrop, TypeOK, born, result, lists, client, errors, network,
           app, rest
      <3>3. th \in Users => /\ Owning(th)' <=> Owning(th)
                            /\ Owning(th) => cur'[th] = cur[th]
        BY <1>45, <3>1 DEF FlushDrop, Owning, TypeOK, Shape, OpShape, FlushPcs, CleanupPcs,
           DeletePcs, ReleaseOps, Calls, Sync, born, result, lists, client, errors,
           network, app, rest
      <3>4. Goto(th, "fl_send")
        BY <1>45 DEF FlushDrop
      <3> QED BY <3>1, <3>2, <3>3, <3>4, CallersFrame
    <2>2. OnlyCarrier(th) /\ th \in Threads
      BY <1>45 DEF FlushDrop, OnlyCarrier, TypeOK, Threads, born, result, lists, client,
         errors, network, app, rest
    <2>3. ASSUME NEW t \in Txns
          PROVE  ref'[t] = ref[t] + (One(t \in list') - One(t \in list))
                           + (One(t \in queue') - One(t \in queue))
                           + (One(t \in carry'[th]) - One(t \in carry[th]))
      BY <1>45, <2>2 DEF FlushDrop, One, Dec, TypeOK, Shape, CarryShape, born, result,
         lists, client, errors, network, app, rest
    <2> QED
      BY <1>45, <2>1, <2>2, <2>3, RefsFrame DEF FlushDrop
  <1>46. ASSUME LoseServer PROVE RefsExact'
    <2>1. CallersStay
      BY <1>46 DEF LoseServer, TypeOK, CallersStay, Owning, Threads, born, result, txnVars,
         lists, errors, hands
    <2>2. CASE opening = "live" BY <1>46, <2>2, RefsCrash DEF LoseServer
    <2>3. CASE opening # "live"
      <3>1. crashed' = crashed BY <1>46, <2>3 DEF LoseServer, TypeOK
      <3> QED
        BY <1>46, <2>1, <3>1, RefsSame DEF LoseServer, born, result, txnVars, lists, errors,
           hands
    <2> QED BY <2>2, <2>3
  <1>47. ASSUME Notify PROVE RefsExact'
    <2>1. CallersStay
      BY <1>47 DEF Notify, TypeOK, CallersStay, Owning, Threads, born, result, txnVars,
         lists, client, network, app, hands
    <2> QED
      BY <1>47, <2>1, RefsSame DEF Notify, born, result, txnVars, lists, client, network,
         app, hands
  <1>48. ASSUME ErrorCall PROVE RefsExact'
    <2>1. CallersStay
      <3>1. Loss \in Threads
        BY DEF Threads
      <3>2. \A x \in Threads \ {Loss} : op'[x] = op[x] /\ cur'[x] = cur[x]
        BY <1>48, <3>1 DEF ErrorCall, TypeOK, born, result, txnVars, lists, client, network,
           app, hands
      <3>3. Loss \notin Users
        OBVIOUS
      <3>4. Goto(Loss, "idle")
        BY <1>48 DEF ErrorCall
      <3> QED BY <3>1, <3>2, <3>3, <3>4, CallersFrame
    <2> QED
      BY <1>48, <2>1, RefsSame DEF ErrorCall, born, result, txnVars, lists, client, network,
         app, hands
  <1>49. ASSUME Resume PROVE RefsExact'
    <2>1. CallersStay
      <3>1. Resumer \in Threads
        BY DEF Threads
      <3>2. \A x \in Threads \ {Resumer} : op'[x] = op[x] /\ cur'[x] = cur[x]
        BY <1>49, <3>1 DEF Resume, TypeOK, born, result, txnVars, lists, client, errors,
           app, hands
      <3>3. Resumer \notin Users
        OBVIOUS
      <3>4. Goto(Resumer, "fl_addr")
        BY <1>49 DEF Resume
      <3> QED BY <3>1, <3>2, <3>3, <3>4, CallersFrame
    <2> QED
      BY <1>49, <2>1, RefsSame DEF Resume, born, result, txnVars, lists, client, errors,
         app, hands
  <1>50. ASSUME Closed PROVE RefsExact'
    <2>1. CallersStay
      BY <1>50, CallersSame DEF Closed, born, result, txnVars, lists, errors, app, hands
    <2> QED
      BY <1>50, <2>1, RefsSame DEF Closed, born, result, txnVars, lists, errors, app, hands
  <1>51. ASSUME Receive PROVE RefsExact'
    <2>1. CallersStay
      BY <1>51 DEF Receive, TypeOK, CallersStay, Owning, Threads, born, result, txnVars,
         client, errors, hands
    <2>2. OnlyCarrier(Rx) /\ Rx \in Threads
      BY <1>51 DEF Receive, OnlyCarrier, TypeOK, Threads, born, result, txnVars, client,
         errors, hands
    <2>3. ASSUME NEW t \in Txns
          PROVE  ref'[t] = ref[t] + (One(t \in list') - One(t \in list))
                           + (One(t \in queue') - One(t \in queue))
                           + (One(t \in carry'[Rx]) - One(t \in carry[Rx]))
      BY <1>51, <2>2 DEF Receive, One, Dec, TypeOK, Shape, CarryShape, born, result,
         txnVars, client, errors, hands
    <2> QED
      BY <1>51, <2>1, <2>2, <2>3, RefsFrame DEF Receive
  <1>52. ASSUME Mismatch PROVE RefsExact'
    <2>1. CallersStay
      <3>1. Rx \in Threads
        BY DEF Threads
      <3>2. \A x \in Threads \ {Rx} : op'[x] = op[x] /\ cur'[x] = cur[x]
        BY <1>52, <3>1 DEF Mismatch, TypeOK, born, lists, client, errors, network, app,
           rest, hands
      <3>3. Rx \notin Users
        OBVIOUS
      <3>4. Goto(Rx, "rx_drop")
        BY <1>52 DEF Mismatch
      <3> QED BY <3>1, <3>2, <3>3, <3>4, CallersFrame
    <2> QED
      BY <1>52, <2>1, RefsSame DEF Mismatch, born, lists, client, errors, network, app,
         rest, hands
  <1>53. ASSUME LockTxn PROVE RefsExact'
    <2>1. CallersStay
      <3>1. Rx \in Threads
        BY DEF Threads
      <3>2. \A x \in Threads \ {Rx} : op'[x] = op[x] /\ cur'[x] = cur[x]
        BY <1>53, <3>1 DEF LockTxn, TypeOK, born, result, txnVars, lists, client, errors,
           network, app, rest, hands
      <3>3. Rx \notin Users
        OBVIOUS
      <3>4. Goto(Rx, IF buf[work[Rx]] THEN "decode" ELSE "rx_drop")
        BY <1>53 DEF LockTxn
      <3> QED BY <3>1, <3>2, <3>3, <3>4, CallersFrame
    <2> QED
      BY <1>53, <2>1, RefsSame DEF LockTxn, born, result, txnVars, lists, client, errors,
         network, app, rest, hands
  <1>54. ASSUME Decode PROVE RefsExact'
    <2>1. CallersStay
      <3>1. Rx \in Threads
        BY DEF Threads
      <3>2. \A x \in Threads \ {Rx} : op'[x] = op[x] /\ cur'[x] = cur[x]
        BY <1>54, <3>1 DEF Decode, TypeOK, born, lists, client, errors, network, app, rest,
           hands
      <3>3. Rx \notin Users
        OBVIOUS
      <3>4. Goto(Rx, "rx_drop")
        BY <1>54 DEF Decode
      <3> QED BY <3>1, <3>2, <3>3, <3>4, CallersFrame
    <2> QED
      BY <1>54, <2>1, RefsSame DEF Decode, born, lists, client, errors, network, app, rest,
         hands
  <1>55. ASSUME ReceiveDrop PROVE RefsExact'
    <2>1. CallersStay
      <3>1. Rx \in Threads
        BY DEF Threads
      <3>2. \A x \in Threads \ {Rx} : op'[x] = op[x] /\ cur'[x] = cur[x]
        BY <1>55, <3>1 DEF ReceiveDrop, TypeOK, born, result, lists, client, errors, network
      <3>3. Rx \notin Users
        OBVIOUS
      <3>4. Goto(Rx, "idle")
        BY <1>55 DEF ReceiveDrop
      <3> QED BY <3>1, <3>2, <3>3, <3>4, CallersFrame
    <2>2. OnlyCarrier(Rx) /\ Rx \in Threads
      BY <1>55 DEF ReceiveDrop, OnlyCarrier, TypeOK, Threads, born, result, lists, client,
         errors, network
    <2>3. ASSUME NEW t \in Txns
          PROVE  ref'[t] = ref[t] + (One(t \in list') - One(t \in list))
                           + (One(t \in queue') - One(t \in queue))
                           + (One(t \in carry'[Rx]) - One(t \in carry[Rx]))
      BY <1>55, <2>2 DEF ReceiveDrop, One, Dec, TypeOK, Shape, CarryShape, born, result,
         lists, client, errors, network
    <2> QED
      BY <1>55, <2>1, <2>2, <2>3, RefsFrame DEF ReceiveDrop
  <1>56. ASSUME OpenPort PROVE RefsExact'
    <2>1. CallersStay
      BY <1>56, CallersSame DEF OpenPort, born, result, txnVars, lists, errors, hands
    <2> QED
      BY <1>56, <2>1, RefsSame DEF OpenPort, born, result, txnVars, lists, errors, hands
  <1>56a. ASSUME AddXport PROVE RefsExact'
    <2>1. CallersStay
      BY <1>56a, CallersSame DEF AddXport, born, result, txnVars, lists, errors, network, hands
    <2> QED
      BY <1>56a, <2>1, RefsSame DEF AddXport, born, result, txnVars, lists, errors, network, hands
  <1>57. ASSUME FillAddress PROVE RefsExact'
    <2>1. CallersStay
      BY <1>57, CallersSame DEF FillAddress, born, result, txnVars, lists, errors, network,
         hands
    <2> QED
      BY <1>57, <2>1, RefsSame DEF FillAddress, born, result, txnVars, lists, errors,
         network, hands
  <1>58. ASSUME LookupAgain PROVE RefsExact'
    <2>1. CallersStay
      BY <1>58, CallersSame DEF LookupAgain, born, result, txnVars, lists, errors, hands
    <2> QED
      BY <1>58, <2>1, RefsSame DEF LookupAgain, born, result, txnVars, lists, errors, hands
  <1>59. ASSUME ServerGone PROVE RefsExact'
    <2>1. CallersStay
      BY <1>59, CallersSame DEF ServerGone, born, result, txnVars, lists, client, errors,
         app, hands
    <2> QED
      BY <1>59, <2>1, RefsSame DEF ServerGone, born, result, txnVars, lists, client, errors,
         app, hands
  <1>60. CASE UNCHANGED vars
    <2>1. CallersStay BY <1>60, CallersSame DEF vars, rest, app
    <2> QED BY <1>60, <2>1, RefsSame DEF vars, txnVars, born, lists, rest, app, hands
  <1> QED
    BY <1>1, <1>2, <1>3, <1>4, <1>5, <1>6, <1>7, <1>8, <1>9, <1>10, <1>11, <1>12,
       <1>13, <1>14, <1>15, <1>16, <1>17, <1>18, <1>19, <1>20, <1>21, <1>22, <1>23,
       <1>24, <1>25, <1>26, <1>27, <1>28, <1>29, <1>30, <1>31, <1>32, <1>33, <1>34,
       <1>35, <1>36, <1>37, <1>38, <1>39, <1>40, <1>41, <1>42, <1>43, <1>44, <1>45,
       <1>46, <1>47, <1>48, <1>49, <1>50, <1>51, <1>52, <1>53, <1>54, <1>55, <1>56,
       <1>56a, <1>57, <1>58, <1>59, <1>60, Zenon DEF Next, Call, Delete, Release,
       Register, Cleanup, Flush, Router, Opening

\* There are no references when the client is allocated.
LEMMA RefsInit ==
  ASSUME Init
  PROVE  OwnTxns /\ RefsExact
  <1>1. OwnTxns
    <2>1. \A u \in Users : op[u] = "none" /\ pc[u] = "idle" BY DEF Init, Threads
    <2> QED BY <2>1 DEF OwnTxns, HasTxn, Early, Calls, Sync
  <1>2. ASSUME NEW t \in Txns PROVE ref[t] = References(t)
    <2>1. \A u \in Users : ~Owning(u) BY DEF Init, Threads, Owning, Sync
    <2>2. Callers(t) = {} BY <2>1 DEF Callers
    <2>3. Carriers(t) = {} BY DEF Init, Carriers
    <2> QED BY <2>2, <2>3, FS_EmptySet DEF References, One, Init
  <1> QED BY <1>1, <1>2 DEF RefsExact

\* ref_count of every transaction is the number of the references to it that the lists
\* and the threads hold, with any number of threads and transactions, so that nothing a
\* list or a thread holds is freed: until freed memory is written, which the run
\* qcci_use_after_free shows that the code can do.
THEOREM ReferencesExact == Spec => []RefsExact
  <1>1. Init => TypeOK /\ Shape /\ OwnTxns /\ RefsExact BY ShapeInit, RefsInit
  <1>2. TypeOK /\ Shape /\ OwnTxns /\ RefsExact /\ [Next]_vars
          => TypeOK' /\ Shape' /\ OwnTxns' /\ RefsExact'
    BY TypeStep, ShapeStep, OwnTxnsStep, RefsStep
  <1> QED BY <1>1, <1>2, PTL DEF Spec

-----------------------------------------------------------------------------
(***************************************************************************)
(* The references on the client                                            *)
(***************************************************************************)

Resting == {"idle", "unlink", "blocked"}
Busy == {u \in Users : pc[u] \notin Resting}
Connecting == opening \in {"open", "live", "fill", "lookup"}

\* The transport takes its reference once.
NotOpen == opening = "open" => ~attached

\* The threads inside the client can be counted.
LEMMA BusyFinite == IsFiniteSet(Busy) /\ Cardinality(Busy) \in Nat
  <1>1. IsFiniteSet(Busy) BY FS_Subset DEF Busy
  <1> QED BY <1>1, FS_CardinalityType

\* The invariant in terms of the threads inside the client,
LEMMA ClientCount ==
  ClientRefsExact <=> cref = Cardinality(Busy) + One(attached) + One(Connecting)
  BY DEF ClientRefsExact, Busy, Connecting, Resting

\* and in the next state.
LEMMA ClientCountNext ==
  ClientRefsExact' <=> cref' = Cardinality(Busy') + One(attached') + One(Connecting')
  BY DEF ClientRefsExact, Busy, Connecting, Resting, One

\* A thread that stays inside or outside leaves the set as it is.
LEMMA BusyKept ==
  ASSUME TypeOK, NEW th \in Threads, NEW l, Goto(th, l),
         th \in Users => (pc[th] \in Resting <=> pc'[th] \in Resting)
  PROVE  Busy' = Busy
  <1> SUFFICES ASSUME NEW u \in Users PROVE pc[u] \in Resting <=> pc'[u] \in Resting
    BY DEF Busy
  <1>1. CASE u = th BY <1>1
  <1>2. CASE u # th BY <1>2 DEF TypeOK, Threads
  <1> QED BY <1>1, <1>2

\* One that enters or leaves changes it by one.
LEMMA BusyCount ==
  ASSUME TypeOK, NEW u \in Users, NEW l, Goto(u, l)
  PROVE  Cardinality(Busy') = Cardinality(Busy) + One(l \notin Resting)
                                - One(pc[u] \notin Resting)
  <1>1. Busy' \ {u} = Busy \ {u} BY DEF Busy, TypeOK, Threads
  <1>2. pc'[u] = l BY DEF TypeOK, Threads
  <1>3. One(u \in Busy') = One(l \notin Resting) /\ One(u \in Busy) = One(pc[u] \notin Resting)
    BY <1>2 DEF Busy, One
  <1> QED BY <1>1, <1>3, BusyFinite, CountOne

\* The step of a thread that neither enters nor leaves the client
LEMMA ClientFrame ==
  ASSUME TypeOK, ClientRefsExact, NotOpen, UNCHANGED <<cref, attached, opening>>,
         Busy' = Busy
  PROVE  ClientRefsExact' /\ NotOpen'
  BY ClientCount, ClientCountNext DEF NotOpen, Connecting, One

\* The step of a thread that enters or leaves it
LEMMA ClientStepOf ==
  ASSUME TypeOK, ClientRefsExact, NotOpen, UNCHANGED <<attached, opening>>,
         NEW u \in Users, NEW l, Goto(u, l),
         cref' = cref + One(l \notin Resting) - One(pc[u] \notin Resting)
  PROVE  ClientRefsExact' /\ NotOpen'
  <1> DEFINE a == One(attached)  b == One(Connecting)
             c == One(l \notin Resting)  d == One(pc[u] \notin Resting)
             m == Cardinality(Busy)  k == Cardinality(Busy')
  <1>1. a \in Int /\ b \in Int /\ c \in Int /\ d \in Int BY DEF One
  <1>2. m \in Nat BY BusyFinite
  <1>3. k = m + c - d BY BusyCount
  <1>4. cref = m + a + b BY ClientCount
  <1>5. cref' = cref + c - d OBVIOUS
  <1>6. One(attached') = a /\ One(Connecting') = b BY DEF One, Connecting
  <1>7. ClientRefsExact' <=> cref' = k + a + b BY <1>6, ClientCountNext
  <1>8. NotOpen' BY DEF NotOpen
  <1> HIDE DEF a, b, c, d, m, k
  <1> QED BY <1>1, <1>2, <1>3, <1>4, <1>5, <1>7, <1>8

\* Every step keeps the reference count of the client exact.
LEMMA ClientStep ==
  ASSUME TypeOK, Shape, ClientRefsExact, NotOpen, [Next]_vars
  PROVE  ClientRefsExact' /\ NotOpen'
  <1>1. ASSUME NEW u \in Users, BeginCall(u) PROVE ClientRefsExact' /\ NotOpen'
    <2>1. Goto(u, "enter")
      BY <1>1 DEF BeginCall
    <2>2. cref' = cref + One(("enter") \notin Resting)
                     - One(pc[u] \notin Resting)
      BY <1>1 DEF BeginCall, PutClient, One, Resting, TypeOK, GetRef, born, result,
         txnVars, lists, errors, network, hands
    <2>3. UNCHANGED <<attached, opening>>
      BY <1>1 DEF BeginCall, born, result, txnVars, lists, errors, network, hands
    <2> QED BY <2>1, <2>2, <2>3, ClientStepOf
  <1>2. ASSUME NEW u \in Users, NoTxn(u) PROVE ClientRefsExact' /\ NotOpen'
    <2>1. Busy' = Busy
      <3>1. u \in Threads
        BY DEF Threads
      <3>2. u \in Users => (pc[u] \in Resting <=> pc'[u] \in Resting)
        BY <1>2, <3>1 DEF NoTxn, Resting, TypeOK, Shape, OpShape, FlushPcs, CleanupPcs,
           ReleaseOps, Calls, Sync, born, result, txnVars, lists, client, errors,
           network, app, rest, hands
      <3>3. Goto(u, "put")
        BY <1>2 DEF NoTxn
      <3> QED BY <3>1, <3>2, <3>3, BusyKept
    <2> QED
      BY <1>2, <2>1, ClientFrame DEF NoTxn, born, result, txnVars, lists, client, errors,
         network, app, rest, hands
  <1>3. ASSUME NEW u \in Users, GetTxn(u) PROVE ClientRefsExact' /\ NotOpen'
    <2>1. Busy' = Busy
      <3>1. u \in Threads
        BY DEF Threads
      <3>2. u \in Users => (pc[u] \in Resting <=> pc'[u] \in Resting)
        BY <1>3, <3>1 DEF GetTxn, Resting, TypeOK, Shape, OpShape, FlushPcs, CleanupPcs,
           ReleaseOps, Calls, Sync, result, client, errors, network, hands
      <3>3. Goto(u, IF op[u] \in Sync THEN "own" ELSE "check")
        BY <1>3 DEF GetTxn
      <3> QED BY <3>1, <3>2, <3>3, BusyKept
    <2> QED
      BY <1>3, <2>1, ClientFrame DEF GetTxn, result, client, errors, network, hands
  <1>4. ASSUME NEW u \in Users, Own(u) PROVE ClientRefsExact' /\ NotOpen'
    <2>1. Busy' = Busy
      <3>1. u \in Threads
        BY DEF Threads
      <3>2. u \in Users => (pc[u] \in Resting <=> pc'[u] \in Resting)
        BY <1>4, <3>1 DEF Own, Resting, TypeOK, Shape, OpShape, FlushPcs, CleanupPcs,
           ReleaseOps, Calls, Sync, born, result, lists, client, errors, network, hands
      <3>3. Goto(u, "arm")
        BY <1>4 DEF Own
      <3> QED BY <3>1, <3>2, <3>3, BusyKept
    <2> QED
      BY <1>4, <2>1, ClientFrame DEF Own, born, result, lists, client, errors, network,
         hands
  <1>5. ASSUME NEW u \in Users, Arm(u) PROVE ClientRefsExact' /\ NotOpen'
    <2>1. Busy' = Busy
      <3>1. u \in Threads
        BY DEF Threads
      <3>2. u \in Users => (pc[u] \in Resting <=> pc'[u] \in Resting)
        BY <1>5, <3>1 DEF Arm, Resting, TypeOK, Shape, OpShape, FlushPcs, CleanupPcs,
           ReleaseOps, Calls, Sync, born, lists, client, errors, network, app, rest,
           hands
      <3>3. Goto(u, "check")
        BY <1>5 DEF Arm
      <3> QED BY <3>1, <3>2, <3>3, BusyKept
    <2> QED
      BY <1>5, <2>1, ClientFrame DEF Arm, born, lists, client, errors, network, app, rest,
         hands
  <1>6. ASSUME NEW u \in Users, Check(u) PROVE ClientRefsExact' /\ NotOpen'
    <2>1. Busy' = Busy
      <3>1. u \in Threads
        BY DEF Threads
      <3>2. u \in Users => (pc[u] \in Resting <=> pc'[u] \in Resting)
        BY <1>6, <3>1 DEF Check, Resting, TypeOK, Shape, OpShape, FlushPcs, CleanupPcs,
           ReleaseOps, Calls, Sync, Failing, born, result, txnVars, lists, client,
           errors, network, app, rest, hands
      <3>3. PICK l : Goto(u, l)
        BY <1>6 DEF Check
      <3> QED BY <3>1, <3>2, <3>3, BusyKept
    <2> QED
      BY <1>6, <2>1, ClientFrame DEF Check, born, result, txnVars, lists, client, errors,
         network, app, rest, hands
  <1>7. ASSUME NEW u \in Users, TakeRef(u) PROVE ClientRefsExact' /\ NotOpen'
    <2>1. Busy' = Busy
      <3>1. u \in Threads
        BY DEF Threads
      <3>2. u \in Users => (pc[u] \in Resting <=> pc'[u] \in Resting)
        BY <1>7, <3>1 DEF TakeRef, Resting, TypeOK, Shape, OpShape, FlushPcs, CleanupPcs,
           ReleaseOps, Calls, Sync, born, result, lists, client, errors, network
      <3>3. Goto(u, "queue")
        BY <1>7 DEF TakeRef
      <3> QED BY <3>1, <3>2, <3>3, BusyKept
    <2> QED
      BY <1>7, <2>1, ClientFrame DEF TakeRef, born, result, lists, client, errors, network
  <1>8. ASSUME NEW u \in Users, Enqueue(u) PROVE ClientRefsExact' /\ NotOpen'
    <2>1. Busy' = Busy
      <3>1. u \in Threads
        BY DEF Threads
      <3>2. u \in Users => (pc[u] \in Resting <=> pc'[u] \in Resting)
        BY <1>8, <3>1 DEF Enqueue, Resting, TypeOK, Shape, OpShape, FlushPcs, CleanupPcs,
           ReleaseOps, Calls, Sync, born, result, txnVars, client, errors, network, app,
           rest
      <3>3. Goto(u, "fl_addr")
        BY <1>8 DEF Enqueue
      <3> QED BY <3>1, <3>2, <3>3, BusyKept
    <2> QED
      BY <1>8, <2>1, ClientFrame DEF Enqueue, born, result, txnVars, client, errors,
         network, app, rest
  <1>9. ASSUME NEW u \in Users, Refuse(u) PROVE ClientRefsExact' /\ NotOpen'
    <2>1. Busy' = Busy
      <3>1. u \in Threads
        BY DEF Threads
      <3>2. u \in Users => (pc[u] \in Resting <=> pc'[u] \in Resting)
        BY <1>9, <3>1 DEF Refuse, Resting, TypeOK, Shape, OpShape, FlushPcs, CleanupPcs,
           ReleaseOps, Calls, Sync, Failing, born, result, lists, client, errors,
           network, app, rest
      <3>3. Goto(u, Failing(u))
        BY <1>9 DEF Refuse
      <3> QED BY <3>1, <3>2, <3>3, BusyKept
    <2> QED
      BY <1>9, <2>1, ClientFrame DEF Refuse, born, result, lists, client, errors, network,
         app, rest
  <1>10. ASSUME NEW u \in Users, Wake(u) PROVE ClientRefsExact' /\ NotOpen'
    <2>1. Busy' = Busy
      <3>1. u \in Threads
        BY DEF Threads
      <3>2. u \in Users => (pc[u] \in Resting <=> pc'[u] \in Resting)
        BY <1>10, <3>1 DEF Wake, Resting, TypeOK, Shape, OpShape, FlushPcs, CleanupPcs,
           ReleaseOps, Calls, Sync, born, lists, client, errors, network, app, rest,
           hands
      <3>3. Goto(u, IF pending[cur[u]] THEN "wait" ELSE "inval")
        BY <1>10 DEF Wake
      <3> QED BY <3>1, <3>2, <3>3, BusyKept
    <2> QED
      BY <1>10, <2>1, ClientFrame DEF Wake, born, lists, client, errors, network, app, rest,
         hands
  <1>11. ASSUME NEW u \in Users, TimeOut(u) PROVE ClientRefsExact' /\ NotOpen'
    <2>1. Busy' = Busy
      <3>1. u \in Threads
        BY DEF Threads
      <3>2. u \in Users => (pc[u] \in Resting <=> pc'[u] \in Resting)
        BY <1>11, <3>1 DEF TimeOut, Resting, TypeOK, Shape, OpShape, FlushPcs, CleanupPcs,
           ReleaseOps, Calls, Sync, born, lists, client, errors, network, app, rest,
           hands
      <3>3. Goto(u, "inval")
        BY <1>11 DEF TimeOut
      <3> QED BY <3>1, <3>2, <3>3, BusyKept
    <2> QED
      BY <1>11, <2>1, ClientFrame DEF TimeOut, born, lists, client, errors, network, app,
         rest, hands
  <1>12. ASSUME NEW u \in Users, Invalidate(u) PROVE ClientRefsExact' /\ NotOpen'
    <2>1. Busy' = Busy
      <3>1. u \in Threads
        BY DEF Threads
      <3>2. u \in Users => (pc[u] \in Resting <=> pc'[u] \in Resting)
        BY <1>12, <3>1 DEF Invalidate, Resting, TypeOK, Shape, OpShape, FlushPcs,
           CleanupPcs, ReleaseOps, Calls, Sync, born, result, lists, client, errors,
           network, app, rest, hands
      <3>3. Goto(u, "remove")
        BY <1>12 DEF Invalidate
      <3> QED BY <3>1, <3>2, <3>3, BusyKept
    <2> QED
      BY <1>12, <2>1, ClientFrame DEF Invalidate, born, result, lists, client, errors,
         network, app, rest, hands
  <1>13. ASSUME NEW u \in Users, RemoveSync(u) PROVE ClientRefsExact' /\ NotOpen'
    <2>1. Busy' = Busy
      <3>1. u \in Threads
        BY DEF Threads
      <3>2. u \in Users => (pc[u] \in Resting <=> pc'[u] \in Resting)
        BY <1>13, <3>1 DEF RemoveSync, Resting, TypeOK, Shape, OpShape, FlushPcs,
           CleanupPcs, ReleaseOps, Calls, Sync, born, result, client, errors, network,
           app, rest, hands
      <3>3. Goto(u, "drop")
        BY <1>13 DEF RemoveSync
      <3> QED BY <3>1, <3>2, <3>3, BusyKept
    <2> QED
      BY <1>13, <2>1, ClientFrame DEF RemoveSync, born, result, client, errors, network,
         app, rest, hands
  <1>14. ASSUME NEW u \in Users, DropOwn(u) PROVE ClientRefsExact' /\ NotOpen'
    <2>1. Busy' = Busy
      <3>1. u \in Threads
        BY DEF Threads
      <3>2. u \in Users => (pc[u] \in Resting <=> pc'[u] \in Resting)
        BY <1>14, <3>1 DEF DropOwn, Resting, TypeOK, Shape, OpShape, FlushPcs, CleanupPcs,
           ReleaseOps, Calls, Sync, born, lists, client, errors, network, app, rest,
           hands
      <3>3. Goto(u, "put")
        BY <1>14 DEF DropOwn
      <3> QED BY <3>1, <3>2, <3>3, BusyKept
    <2> QED
      BY <1>14, <2>1, ClientFrame DEF DropOwn, born, lists, client, errors, network, app,
         rest, hands
  <1>15. ASSUME NEW u \in Users, AsyncFails(u) PROVE ClientRefsExact' /\ NotOpen'
    <2>1. Busy' = Busy
      <3>1. u \in Threads
        BY DEF Threads
      <3>2. u \in Users => (pc[u] \in Resting <=> pc'[u] \in Resting)
        BY <1>15, <3>1 DEF AsyncFails, Resting, TypeOK, Shape, OpShape, FlushPcs,
           CleanupPcs, ReleaseOps, Calls, Sync, born, client, errors, network, app,
           rest, hands
      <3>3. Goto(u, "put")
        BY <1>15 DEF AsyncFails
      <3> QED BY <3>1, <3>2, <3>3, BusyKept
    <2> QED
      BY <1>15, <2>1, ClientFrame DEF AsyncFails, born, client, errors, network, app, rest,
         hands
  <1>16. ASSUME NEW u \in Users, PutRef(u) PROVE ClientRefsExact' /\ NotOpen'
    <2>1. Goto(u, IF op[u] = "release" THEN "blocked" ELSE "idle")
      BY <1>16 DEF PutRef
    <2>2. cref' = cref + One((IF op[u] = "release" THEN "blocked" ELSE "idle") \notin Resting)
                     - One(pc[u] \notin Resting)
      BY <1>16 DEF PutRef, PutClient, One, Resting, TypeOK, born, result, txnVars, lists,
         errors, network, hands
    <2>3. UNCHANGED <<attached, opening>>
      BY <1>16 DEF PutRef, born, result, txnVars, lists, errors, network, hands
    <2> QED BY <2>1, <2>2, <2>3, ClientStepOf
  <1>17. ASSUME NEW u \in Users, BeginDelete(u) PROVE ClientRefsExact' /\ NotOpen'
    <2>1. Goto(u, "del_queue")
      BY <1>17 DEF BeginDelete
    <2>2. cref' = cref + One(("del_queue") \notin Resting)
                     - One(pc[u] \notin Resting)
      BY <1>17 DEF BeginDelete, PutClient, One, Resting, TypeOK, GetRef, born, result,
         txnVars, lists, errors, network, hands
    <2>3. UNCHANGED <<attached, opening>>
      BY <1>17 DEF BeginDelete, born, result, txnVars, lists, errors, network, hands
    <2> QED BY <2>1, <2>2, <2>3, ClientStepOf
  <1>18. ASSUME NEW u \in Users, DeleteQueued(u) PROVE ClientRefsExact' /\ NotOpen'
    <2>1. Busy' = Busy
      <3>1. u \in Threads
        BY DEF Threads
      <3>2. u \in Users => (pc[u] \in Resting <=> pc'[u] \in Resting)
        BY <1>18, <3>1 DEF DeleteQueued, Resting, TypeOK, Shape, OpShape, FlushPcs,
           CleanupPcs, ReleaseOps, Calls, Sync, born, result, txnVars, client, errors,
           network, app, rest
      <3>3. Goto(u, IF cur[u] \in queue THEN "del_give" ELSE "del_list")
        BY <1>18 DEF DeleteQueued
      <3> QED BY <3>1, <3>2, <3>3, BusyKept
    <2> QED
      BY <1>18, <2>1, ClientFrame DEF DeleteQueued, born, result, txnVars, client, errors,
         network, app, rest
  <1>19. ASSUME NEW u \in Users, DeleteGive(u) PROVE ClientRefsExact' /\ NotOpen'
    <2>1. Busy' = Busy
      <3>1. u \in Threads
        BY DEF Threads
      <3>2. u \in Users => (pc[u] \in Resting <=> pc'[u] \in Resting)
        BY <1>19, <3>1 DEF DeleteGive, Resting, TypeOK, Shape, OpShape, FlushPcs,
           CleanupPcs, ReleaseOps, Calls, Sync, born, result, lists, client, errors,
           network, app, rest
      <3>3. Goto(u, "del_list")
        BY <1>19 DEF DeleteGive
      <3> QED BY <3>1, <3>2, <3>3, BusyKept
    <2> QED
      BY <1>19, <2>1, ClientFrame DEF DeleteGive, born, result, lists, client, errors,
         network, app, rest
  <1>20. ASSUME NEW u \in Users, DeleteListed(u) PROVE ClientRefsExact' /\ NotOpen'
    <2>1. Busy' = Busy
      <3>1. u \in Threads
        BY DEF Threads
      <3>2. u \in Users => (pc[u] \in Resting <=> pc'[u] \in Resting)
        BY <1>20, <3>1 DEF DeleteListed, Resting, TypeOK, Shape, OpShape, FlushPcs,
           CleanupPcs, ReleaseOps, Calls, Sync, born, client, errors, network, app, rest
      <3>3. PICK l : Goto(u, l)
        BY <1>20 DEF DeleteListed
      <3> QED BY <3>1, <3>2, <3>3, BusyKept
    <2> QED
      BY <1>20, <2>1, ClientFrame DEF DeleteListed, born, client, errors, network, app, rest
  <1>21. ASSUME NEW u \in Users, DeleteDrop(u) PROVE ClientRefsExact' /\ NotOpen'
    <2>1. Busy' = Busy
      <3>1. u \in Threads
        BY DEF Threads
      <3>2. u \in Users => (pc[u] \in Resting <=> pc'[u] \in Resting)
        BY <1>21, <3>1 DEF DeleteDrop, Resting, TypeOK, Shape, OpShape, FlushPcs,
           CleanupPcs, ReleaseOps, Calls, Sync, born, result, lists, client, errors,
           network, app, rest
      <3>3. Goto(u, "put")
        BY <1>21 DEF DeleteDrop
      <3> QED BY <3>1, <3>2, <3>3, BusyKept
    <2> QED
      BY <1>21, <2>1, ClientFrame DEF DeleteDrop, born, result, lists, client, errors,
         network, app, rest
  <1>22. ASSUME NEW u \in Users, BeginRelease(u) PROVE ClientRefsExact' /\ NotOpen'
    <2>1. Goto(u, "probe")
      BY <1>22 DEF BeginRelease
    <2>2. cref' = cref + One(("probe") \notin Resting)
                     - One(pc[u] \notin Resting)
      BY <1>22 DEF BeginRelease, PutClient, One, Resting, TypeOK, GetRef, born, result,
         txnVars, lists, errors, network, hands
    <2>3. UNCHANGED <<attached, opening>>
      BY <1>22 DEF BeginRelease, born, result, txnVars, lists, errors, network, hands
    <2> QED BY <2>1, <2>2, <2>3, ClientStepOf
  <1>23. ASSUME NEW u \in Users, EndProbe(u) PROVE ClientRefsExact' /\ NotOpen'
    <2>1. Goto(u, "unlink")
      BY <1>23 DEF EndProbe
    <2>2. cref' = cref + One(("unlink") \notin Resting)
                     - One(pc[u] \notin Resting)
      BY <1>23 DEF EndProbe, PutClient, One, Resting, TypeOK, born, result, txnVars, lists,
         errors, network, app, hands
    <2>3. UNCHANGED <<attached, opening>>
      BY <1>23 DEF EndProbe, born, result, txnVars, lists, errors, network, app, hands
    <2> QED BY <2>1, <2>2, <2>3, ClientStepOf
  <1>24. ASSUME NEW u \in Users, Unlink(u) PROVE ClientRefsExact' /\ NotOpen'
    <2>1. Goto(u, "rel_stop")
      BY <1>24 DEF Unlink
    <2>2. cref' = cref + One(("rel_stop") \notin Resting)
                     - One(pc[u] \notin Resting)
      BY <1>24 DEF Unlink, PutClient, One, Resting, TypeOK, born, result, txnVars, lists,
         errors, network, app, hands
    <2>3. UNCHANGED <<attached, opening>>
      BY <1>24 DEF Unlink, born, result, txnVars, lists, errors, network, app, hands
    <2> QED BY <2>1, <2>2, <2>3, ClientStepOf
  <1>25. ASSUME NEW u \in Users, NoRelease(u) PROVE ClientRefsExact' /\ NotOpen'
    <2>1. Busy' = Busy
      <3>1. u \in Threads
        BY DEF Threads
      <3>2. u \in Users => (pc[u] \in Resting <=> pc'[u] \in Resting)
        BY <1>25, <3>1 DEF NoRelease, Resting, TypeOK, Shape, OpShape, FlushPcs, CleanupPcs,
           ReleaseOps, Calls, Sync, born, result, txnVars, lists, client, errors,
           network, hands
      <3>3. Goto(u, "idle")
        BY <1>25 DEF NoRelease
      <3> QED BY <3>1, <3>2, <3>3, BusyKept
    <2> QED
      BY <1>25, <2>1, ClientFrame DEF NoRelease, born, result, txnVars, lists, client,
         errors, network, hands
  <1>26. ASSUME NEW u \in Users, BeginReleaseAsync(u) PROVE ClientRefsExact' /\ NotOpen'
    <2>1. Goto(u, "rel_stop")
      BY <1>26 DEF BeginReleaseAsync
    <2>2. cref' = cref + One(("rel_stop") \notin Resting)
                     - One(pc[u] \notin Resting)
      BY <1>26 DEF BeginReleaseAsync, PutClient, One, Resting, TypeOK, GetRef, born, result,
         txnVars, lists, errors, network, hands
    <2>3. UNCHANGED <<attached, opening>>
      BY <1>26 DEF BeginReleaseAsync, born, result, txnVars, lists, errors, network, hands
    <2> QED BY <2>1, <2>2, <2>3, ClientStepOf
  <1>27. ASSUME NEW u \in Users, ReleaseStop(u) PROVE ClientRefsExact' /\ NotOpen'
    <2>1. Busy' = Busy
      <3>1. u \in Threads
        BY DEF Threads
      <3>2. u \in Users => (pc[u] \in Resting <=> pc'[u] \in Resting)
        BY <1>27, <3>1 DEF ReleaseStop, Resting, TypeOK, Shape, OpShape, FlushPcs,
           CleanupPcs, ReleaseOps, Calls, Sync, born, result, txnVars, lists, errors,
           network, app, hands
      <3>3. Goto(u, "cu_queue")
        BY <1>27 DEF ReleaseStop
      <3> QED BY <3>1, <3>2, <3>3, BusyKept
    <2> QED
      BY <1>27, <2>1, ClientFrame DEF ReleaseStop, born, result, txnVars, lists, errors,
         network, app, hands
  <1>28. ASSUME NEW u \in Users, ReleaseClose(u) PROVE ClientRefsExact' /\ NotOpen'
    <2>1. Busy' = Busy
      <3>1. u \in Threads
        BY DEF Threads
      <3>2. u \in Users => (pc[u] \in Resting <=> pc'[u] \in Resting)
        BY <1>28, <3>1 DEF ReleaseClose, Resting, TypeOK, Shape, OpShape, FlushPcs,
           CleanupPcs, ReleaseOps, Calls, Sync, born, result, txnVars, lists, errors,
           app, hands
      <3>3. Goto(u, "put")
        BY <1>28 DEF ReleaseClose
      <3> QED BY <3>1, <3>2, <3>3, BusyKept
    <2> QED
      BY <1>28, <2>1, ClientFrame DEF ReleaseClose, born, result, txnVars, lists, errors,
         app, hands
  <1>29. ASSUME NEW u \in Users, Unblock(u) PROVE ClientRefsExact' /\ NotOpen'
    <2>1. Busy' = Busy
      <3>1. u \in Threads
        BY DEF Threads
      <3>2. u \in Users => (pc[u] \in Resting <=> pc'[u] \in Resting)
        BY <1>29, <3>1 DEF Unblock, Resting, TypeOK, Shape, OpShape, FlushPcs, CleanupPcs,
           ReleaseOps, Calls, Sync, born, result, txnVars, lists, client, errors,
           network, app, rest, hands
      <3>3. Goto(u, "idle")
        BY <1>29 DEF Unblock
      <3> QED BY <3>1, <3>2, <3>3, BusyKept
    <2> QED
      BY <1>29, <2>1, ClientFrame DEF Unblock, born, result, txnVars, lists, client, errors,
         network, app, rest, hands
  <1>30. ASSUME NEW u \in Users, BeginRegister(u) PROVE ClientRefsExact' /\ NotOpen'
    <2>1. Goto(u, "reg")
      BY <1>30 DEF BeginRegister
    <2>2. cref' = cref + One(("reg") \notin Resting)
                     - One(pc[u] \notin Resting)
      BY <1>30 DEF BeginRegister, PutClient, One, Resting, TypeOK, GetRef, born, result,
         txnVars, lists, errors, network, hands
    <2>3. UNCHANGED <<attached, opening>>
      BY <1>30 DEF BeginRegister, born, result, txnVars, lists, errors, network, hands
    <2> QED BY <2>1, <2>2, <2>3, ClientStepOf
  <1>31. ASSUME NEW u \in Users, RegisterErrorCb(u) PROVE ClientRefsExact' /\ NotOpen'
    <2>1. Busy' = Busy
      <3>1. u \in Threads
        BY DEF Threads
      <3>2. u \in Users => (pc[u] \in Resting <=> pc'[u] \in Resting)
        BY <1>31, <3>1 DEF RegisterErrorCb, Resting, TypeOK, Shape, OpShape, FlushPcs,
           CleanupPcs, ReleaseOps, Calls, Sync, born, result, txnVars, lists, client,
           network, app, hands
      <3>3. Goto(u, IF errPending THEN "reg_call" ELSE "put")
        BY <1>31 DEF RegisterErrorCb
      <3> QED BY <3>1, <3>2, <3>3, BusyKept
    <2> QED
      BY <1>31, <2>1, ClientFrame DEF RegisterErrorCb, born, result, txnVars, lists, client,
         network, app, hands
  <1>32. ASSUME NEW u \in Users, RegisterCall(u) PROVE ClientRefsExact' /\ NotOpen'
    <2>1. Busy' = Busy
      <3>1. u \in Threads
        BY DEF Threads
      <3>2. u \in Users => (pc[u] \in Resting <=> pc'[u] \in Resting)
        BY <1>32, <3>1 DEF RegisterCall, Resting, TypeOK, Shape, OpShape, FlushPcs,
           CleanupPcs, ReleaseOps, Calls, Sync, born, result, txnVars, lists, client,
           network, app, hands
      <3>3. Goto(u, "put")
        BY <1>32 DEF RegisterCall
      <3> QED BY <3>1, <3>2, <3>3, BusyKept
    <2> QED
      BY <1>32, <2>1, ClientFrame DEF RegisterCall, born, result, txnVars, lists, client,
         network, app, hands
  <1>33. ASSUME NEW th \in Users \cup {Loss, Resumer}, CleanupQueue(th) PROVE ClientRefsExact' /\ NotOpen'
    <2>1. Busy' = Busy
      <3>1. th \in Threads
        BY DEF Threads
      <3>2. th \in Users => (pc[th] \in Resting <=> pc'[th] \in Resting)
        BY <1>33, <3>1 DEF CleanupQueue, Resting, TypeOK, Shape, OpShape, FlushPcs,
           CleanupPcs, ReleaseOps, Calls, Sync, born, result, txnVars, client, errors,
           network, app, rest
      <3>3. Goto(th, "cu_give")
        BY <1>33 DEF CleanupQueue
      <3> QED BY <3>1, <3>2, <3>3, BusyKept
    <2> QED
      BY <1>33, <2>1, ClientFrame DEF CleanupQueue, born, result, txnVars, client, errors,
         network, app, rest
  <1>34. ASSUME NEW th \in Users \cup {Loss, Resumer}, CleanupGive(th) PROVE ClientRefsExact' /\ NotOpen'
    <2>1. Busy' = Busy
      BY <1>34 DEF CleanupGive, Busy, born, result, lists, client, errors, network, app,
         rest
    <2> QED
      BY <1>34, <2>1, ClientFrame DEF CleanupGive, born, result, lists, client, errors,
         network, app, rest
  <1>35. ASSUME NEW th \in Users \cup {Loss, Resumer}, CleanupList(th) PROVE ClientRefsExact' /\ NotOpen'
    <2>1. Busy' = Busy
      <3>1. th \in Threads
        BY DEF Threads
      <3>2. th \in Users => (pc[th] \in Resting <=> pc'[th] \in Resting)
        BY <1>35, <3>1 DEF CleanupList, Resting, TypeOK, Shape, OpShape, FlushPcs,
           CleanupPcs, ReleaseOps, Calls, Sync, AfterCleanup, AfterFlush, born, result,
           txnVars, client, errors, network, app, rest
      <3>3. Goto(th, IF list = {} THEN AfterCleanup(th) ELSE "cu_fail")
        BY <1>35 DEF CleanupList
      <3> QED BY <3>1, <3>2, <3>3, BusyKept
    <2> QED
      BY <1>35, <2>1, ClientFrame DEF CleanupList, born, result, txnVars, client, errors,
         network, app, rest
  <1>36. ASSUME NEW th \in Users \cup {Loss, Resumer}, CleanupFail(th) PROVE ClientRefsExact' /\ NotOpen'
    <2>1. Busy' = Busy
      <3>1. th \in Threads
        BY DEF Threads
      <3>2. th \in Users => (pc[th] \in Resting <=> pc'[th] \in Resting)
        BY <1>36, <3>1 DEF CleanupFail, Resting, TypeOK, Shape, OpShape, FlushPcs,
           CleanupPcs, ReleaseOps, Calls, Sync, born, lists, client, errors, network,
           app, rest
      <3>3. Goto(th, "cu_drop")
        BY <1>36 DEF CleanupFail
      <3> QED BY <3>1, <3>2, <3>3, BusyKept
    <2> QED
      BY <1>36, <2>1, ClientFrame DEF CleanupFail, born, lists, client, errors, network,
         app, rest
  <1>37. ASSUME NEW th \in Users \cup {Loss, Resumer}, CleanupDrop(th) PROVE ClientRefsExact' /\ NotOpen'
    <2>1. Busy' = Busy
      <3>1. th \in Threads
        BY DEF Threads
      <3>2. th \in Users => (pc[th] \in Resting <=> pc'[th] \in Resting)
        BY <1>37, <3>1 DEF CleanupDrop, Resting, TypeOK, Shape, OpShape, FlushPcs,
           CleanupPcs, ReleaseOps, Calls, Sync, AfterCleanup, AfterFlush, born, result,
           lists, client, errors, network, app, rest
      <3>3. Goto(th, IF carry[th] = {work[th]} THEN AfterCleanup(th) ELSE "cu_fail")
        BY <1>37 DEF CleanupDrop
      <3> QED BY <3>1, <3>2, <3>3, BusyKept
    <2> QED
      BY <1>37, <2>1, ClientFrame DEF CleanupDrop, born, result, lists, client, errors,
         network, app, rest
  <1>38. ASSUME NEW th \in Users \cup {Loss, Resumer}, FlushAddress(th) PROVE ClientRefsExact' /\ NotOpen'
    <2>1. Busy' = Busy
      <3>1. th \in Threads
        BY DEF Threads
      <3>2. th \in Users => (pc[th] \in Resting <=> pc'[th] \in Resting)
        BY <1>38, <3>1 DEF FlushAddress, Resting, TypeOK, Shape, OpShape, FlushPcs,
           CleanupPcs, ReleaseOps, Calls, Sync, born, result, txnVars, lists, client,
           errors, network, app, rest, hands
      <3>3. Goto(th, IF valid THEN "fl_send" ELSE "cu_queue")
        BY <1>38 DEF FlushAddress
      <3> QED BY <3>1, <3>2, <3>3, BusyKept
    <2> QED
      BY <1>38, <2>1, ClientFrame DEF FlushAddress, born, result, txnVars, lists, client,
         errors, network, app, rest, hands
  <1>39. ASSUME NEW th \in Users \cup {Loss, Resumer}, FlushEnd(th) PROVE ClientRefsExact' /\ NotOpen'
    <2>1. Busy' = Busy
      <3>1. th \in Threads
        BY DEF Threads
      <3>2. th \in Users => (pc[th] \in Resting <=> pc'[th] \in Resting)
        BY <1>39, <3>1 DEF FlushEnd, Resting, TypeOK, Shape, OpShape, FlushPcs, CleanupPcs,
           ReleaseOps, Calls, Sync, AfterFlush, born, result, txnVars, lists, client,
           errors, network, app, rest, hands
      <3>3. Goto(th, AfterFlush(th))
        BY <1>39 DEF FlushEnd
      <3> QED BY <3>1, <3>2, <3>3, BusyKept
    <2> QED
      BY <1>39, <2>1, ClientFrame DEF FlushEnd, born, result, txnVars, lists, client,
         errors, network, app, rest, hands
  <1>40. ASSUME NEW th \in Users \cup {Loss, Resumer}, FlushBusy(th) PROVE ClientRefsExact' /\ NotOpen'
    <2>1. Busy' = Busy
      <3>1. th \in Threads
        BY DEF Threads
      <3>2. th \in Users => (pc[th] \in Resting <=> pc'[th] \in Resting)
        BY <1>40, <3>1 DEF FlushBusy, Resting, TypeOK, Shape, OpShape, FlushPcs, CleanupPcs,
           ReleaseOps, Calls, Sync, AfterFlush, born, result, txnVars, lists, client,
           errors, app, hands
      <3>3. Goto(th, AfterFlush(th))
        BY <1>40 DEF FlushBusy
      <3> QED BY <3>1, <3>2, <3>3, BusyKept
    <2> QED
      BY <1>40, <2>1, ClientFrame DEF FlushBusy, born, result, txnVars, lists, client,
         errors, app, hands
  <1>41. ASSUME NEW th \in Users \cup {Loss, Resumer}, FlushSend(th) PROVE ClientRefsExact' /\ NotOpen'
    <2>1. Busy' = Busy
      <3>1. th \in Threads
        BY DEF Threads
      <3>2. th \in Users => (pc[th] \in Resting <=> pc'[th] \in Resting)
        BY <1>41, <3>1 DEF FlushSend, Resting, TypeOK, Shape, OpShape, FlushPcs, CleanupPcs,
           ReleaseOps, Calls, Sync, born, result, txnVars, client, errors, app
      <3>3. PICK l : Goto(th, l)
        BY <1>41 DEF FlushSend
      <3> QED BY <3>1, <3>2, <3>3, BusyKept
    <2> QED
      BY <1>41, <2>1, ClientFrame DEF FlushSend, born, result, txnVars, client, errors, app
  <1>42. ASSUME NEW th \in Users \cup {Loss, Resumer}, FlushGive(th) PROVE ClientRefsExact' /\ NotOpen'
    <2>1. Busy' = Busy
      <3>1. th \in Threads
        BY DEF Threads
      <3>2. th \in Users => (pc[th] \in Resting <=> pc'[th] \in Resting)
        BY <1>42, <3>1 DEF FlushGive, Resting, TypeOK, Shape, OpShape, FlushPcs, CleanupPcs,
           ReleaseOps, Calls, Sync, born, result, lists, client, errors, network, app,
           rest
      <3>3. Goto(th, IF pc[th] = "fl_sent" THEN "fl_send" ELSE "fl_log")
        BY <1>42 DEF FlushGive
      <3> QED BY <3>1, <3>2, <3>3, BusyKept
    <2> QED
      BY <1>42, <2>1, ClientFrame DEF FlushGive, born, result, lists, client, errors,
         network, app, rest
  <1>43. ASSUME NEW th \in Users \cup {Loss, Resumer}, FlushFind(th) PROVE ClientRefsExact' /\ NotOpen'
    <2>1. Busy' = Busy
      <3>1. th \in Threads
        BY DEF Threads
      <3>2. th \in Users => (pc[th] \in Resting <=> pc'[th] \in Resting)
        BY <1>43, <3>1 DEF FlushFind, Resting, TypeOK, Shape, OpShape, FlushPcs, CleanupPcs,
           ReleaseOps, Calls, Sync, born, result, txnVars, client, errors, network, app,
           rest
      <3>3. PICK l : Goto(th, l)
        BY <1>43 DEF FlushFind
      <3> QED BY <3>1, <3>2, <3>3, BusyKept
    <2> QED
      BY <1>43, <2>1, ClientFrame DEF FlushFind, born, result, txnVars, client, errors,
         network, app, rest
  <1>44. ASSUME NEW th \in Users \cup {Loss, Resumer}, FlushFail(th) PROVE ClientRefsExact' /\ NotOpen'
    <2>1. Busy' = Busy
      <3>1. th \in Threads
        BY DEF Threads
      <3>2. th \in Users => (pc[th] \in Resting <=> pc'[th] \in Resting)
        BY <1>44, <3>1 DEF FlushFail, Resting, TypeOK, Shape, OpShape, FlushPcs, CleanupPcs,
           ReleaseOps, Calls, Sync, born, lists, client, errors, network, app, rest,
           hands
      <3>3. Goto(th, "fl_drop")
        BY <1>44 DEF FlushFail
      <3> QED BY <3>1, <3>2, <3>3, BusyKept
    <2> QED
      BY <1>44, <2>1, ClientFrame DEF FlushFail, born, lists, client, errors, network, app,
         rest, hands
  <1>45. ASSUME NEW th \in Users \cup {Loss, Resumer}, FlushDrop(th) PROVE ClientRefsExact' /\ NotOpen'
    <2>1. Busy' = Busy
      <3>1. th \in Threads
        BY DEF Threads
      <3>2. th \in Users => (pc[th] \in Resting <=> pc'[th] \in Resting)
        BY <1>45, <3>1 DEF FlushDrop, Resting, TypeOK, Shape, OpShape, FlushPcs, CleanupPcs,
           ReleaseOps, Calls, Sync, born, result, lists, client, errors, network, app,
           rest
      <3>3. Goto(th, "fl_send")
        BY <1>45 DEF FlushDrop
      <3> QED BY <3>1, <3>2, <3>3, BusyKept
    <2> QED
      BY <1>45, <2>1, ClientFrame DEF FlushDrop, born, result, lists, client, errors,
         network, app, rest
  <1>46. ASSUME LoseServer PROVE ClientRefsExact' /\ NotOpen'
    <2>1. Busy' = Busy
      BY <1>46 DEF LoseServer, TypeOK, Busy, Threads, born, result, txnVars, lists, errors,
         hands
    <2> QED
      BY <1>46, <2>1, ClientFrame DEF LoseServer, born, result, txnVars, lists, errors, hands
  <1>47. ASSUME Notify PROVE ClientRefsExact' /\ NotOpen'
    <2>1. Busy' = Busy
      BY <1>47 DEF Notify, TypeOK, Busy, Threads, born, result, txnVars, lists, client,
         network, app, hands
    <2> QED
      BY <1>47, <2>1, ClientFrame DEF Notify, born, result, txnVars, lists, client, network,
         app, hands
  <1>48. ASSUME ErrorCall PROVE ClientRefsExact' /\ NotOpen'
    <2>1. Busy' = Busy
      <3>1. Loss \in Threads
        BY DEF Threads
      <3>2. Loss \notin Users
        OBVIOUS
      <3>3. Goto(Loss, "idle")
        BY <1>48 DEF ErrorCall
      <3> QED BY <3>1, <3>2, <3>3, BusyKept
    <2> QED
      BY <1>48, <2>1, ClientFrame DEF ErrorCall, born, result, txnVars, lists, client,
         network, app, hands
  <1>49. ASSUME Resume PROVE ClientRefsExact' /\ NotOpen'
    <2>1. Busy' = Busy
      <3>1. Resumer \in Threads
        BY DEF Threads
      <3>2. Resumer \notin Users
        OBVIOUS
      <3>3. Goto(Resumer, "fl_addr")
        BY <1>49 DEF Resume
      <3> QED BY <3>1, <3>2, <3>3, BusyKept
    <2> QED
      BY <1>49, <2>1, ClientFrame DEF Resume, born, result, txnVars, lists, client, errors,
         app, hands
  <1>50. ASSUME Closed PROVE ClientRefsExact' /\ NotOpen'
    <2>1. Busy' = Busy BY <1>50 DEF Closed, Busy
    <2> QED
      BY <1>50, <2>1, BusyFinite, ClientCount, ClientCountNext
         DEF Closed, PutClient, NotOpen, Connecting, One, TypeOK, network, app
  <1>51. ASSUME Receive PROVE ClientRefsExact' /\ NotOpen'
    <2>1. Busy' = Busy
      BY <1>51 DEF Receive, TypeOK, Busy, Threads, born, result, txnVars, client, errors,
         hands
    <2> QED
      BY <1>51, <2>1, ClientFrame DEF Receive, born, result, txnVars, client, errors, hands
  <1>52. ASSUME Mismatch PROVE ClientRefsExact' /\ NotOpen'
    <2>1. Busy' = Busy
      <3>1. Rx \in Threads
        BY DEF Threads
      <3>2. Rx \notin Users
        OBVIOUS
      <3>3. Goto(Rx, "rx_drop")
        BY <1>52 DEF Mismatch
      <3> QED BY <3>1, <3>2, <3>3, BusyKept
    <2> QED
      BY <1>52, <2>1, ClientFrame DEF Mismatch, born, lists, client, errors, network, app,
         rest, hands
  <1>53. ASSUME LockTxn PROVE ClientRefsExact' /\ NotOpen'
    <2>1. Busy' = Busy
      <3>1. Rx \in Threads
        BY DEF Threads
      <3>2. Rx \notin Users
        OBVIOUS
      <3>3. Goto(Rx, IF buf[work[Rx]] THEN "decode" ELSE "rx_drop")
        BY <1>53 DEF LockTxn
      <3> QED BY <3>1, <3>2, <3>3, BusyKept
    <2> QED
      BY <1>53, <2>1, ClientFrame DEF LockTxn, born, result, txnVars, lists, client, errors,
         network, app, rest, hands
  <1>54. ASSUME Decode PROVE ClientRefsExact' /\ NotOpen'
    <2>1. Busy' = Busy
      <3>1. Rx \in Threads
        BY DEF Threads
      <3>2. Rx \notin Users
        OBVIOUS
      <3>3. Goto(Rx, "rx_drop")
        BY <1>54 DEF Decode
      <3> QED BY <3>1, <3>2, <3>3, BusyKept
    <2> QED
      BY <1>54, <2>1, ClientFrame DEF Decode, born, lists, client, errors, network, app,
         rest, hands
  <1>55. ASSUME ReceiveDrop PROVE ClientRefsExact' /\ NotOpen'
    <2>1. Busy' = Busy
      <3>1. Rx \in Threads
        BY DEF Threads
      <3>2. Rx \notin Users
        OBVIOUS
      <3>3. Goto(Rx, "idle")
        BY <1>55 DEF ReceiveDrop
      <3> QED BY <3>1, <3>2, <3>3, BusyKept
    <2> QED
      BY <1>55, <2>1, ClientFrame DEF ReceiveDrop, born, result, lists, client, errors,
         network
  <1>56. ASSUME OpenPort PROVE ClientRefsExact' /\ NotOpen'
    <2>1. Busy' = Busy BY <1>56 DEF OpenPort, Busy
    <2> QED
      BY <1>56, <2>1, BusyFinite, ClientCount, ClientCountNext
         DEF OpenPort, PutClient, NotOpen, Connecting, One, TypeOK, network, app
  <1>56a. ASSUME AddXport PROVE ClientRefsExact' /\ NotOpen'
    <2>1. Busy' = Busy BY <1>56a DEF AddXport, Busy
    <2> QED
      BY <1>56a, <2>1, BusyFinite, ClientCount, ClientCountNext
         DEF AddXport, PutClient, NotOpen, Connecting, One, TypeOK, network, app
  <1>57. ASSUME FillAddress PROVE ClientRefsExact' /\ NotOpen'
    <2>1. Busy' = Busy BY <1>57 DEF FillAddress, Busy
    <2>2. UNCHANGED <<cref, attached>> BY <1>57 DEF FillAddress, network
    <2>3. Connecting /\ Connecting' /\ NotOpen' BY <1>57 DEF FillAddress, Connecting, NotOpen
    <2> QED BY <2>1, <2>2, <2>3, ClientCount, ClientCountNext DEF One
  <1>58. ASSUME LookupAgain PROVE ClientRefsExact' /\ NotOpen'
    <2>1. Busy' = Busy BY <1>58 DEF LookupAgain, Busy
    <2> QED
      BY <1>58, <2>1, BusyFinite, ClientCount, ClientCountNext
         DEF LookupAgain, PutClient, NotOpen, Connecting, One, TypeOK, network, app
  <1>59. ASSUME ServerGone PROVE ClientRefsExact' /\ NotOpen'
    <2>1. Busy' = Busy
      BY <1>59 DEF ServerGone, Busy, born, result, txnVars, lists, client, errors, app,
         hands
    <2> QED
      BY <1>59, <2>1, ClientFrame DEF ServerGone, born, result, txnVars, lists, client,
         errors, app, hands
  <1>60. CASE UNCHANGED vars
    <2>1. Busy' = Busy BY <1>60 DEF vars, Busy
    <2> QED BY <1>60, <2>1, ClientFrame DEF vars, rest, client, network, app
  <1> QED
    BY <1>1, <1>2, <1>3, <1>4, <1>5, <1>6, <1>7, <1>8, <1>9, <1>10, <1>11, <1>12,
       <1>13, <1>14, <1>15, <1>16, <1>17, <1>18, <1>19, <1>20, <1>21, <1>22, <1>23,
       <1>24, <1>25, <1>26, <1>27, <1>28, <1>29, <1>30, <1>31, <1>32, <1>33, <1>34,
       <1>35, <1>36, <1>37, <1>38, <1>39, <1>40, <1>41, <1>42, <1>43, <1>44, <1>45,
       <1>46, <1>47, <1>48, <1>49, <1>50, <1>51, <1>52, <1>53, <1>54, <1>55, <1>56,
       <1>56a, <1>57, <1>58, <1>59, <1>60, Zenon DEF Next, Call, Delete, Release,
       Register, Cleanup, Flush, Router, Opening

\* The client's ref_count is the transport, the initialization and the calls under way,
\* whatever their number: it is freed with the last of them and never before.
THEOREM ClientReferencesExact == Spec => []ClientRefsExact
  <1>1. Init => TypeOK /\ Shape /\ ClientRefsExact /\ NotOpen
    <2> SUFFICES ASSUME Init PROVE ClientRefsExact /\ NotOpen BY ShapeInit
    <2>1. Busy = {} BY DEF Init, Busy, Threads, Resting
    <2>2. cref = 1 /\ ~attached /\ Connecting BY DEF Init, Connecting
    <2> QED BY <2>1, <2>2, FS_EmptySet, ClientCount DEF One, NotOpen
  <1>2. TypeOK /\ Shape /\ ClientRefsExact /\ NotOpen /\ [Next]_vars
          => TypeOK' /\ Shape' /\ ClientRefsExact' /\ NotOpen'
    BY TypeStep, ShapeStep, ClientStep
  <1> QED BY <1>1, <1>2, PTL DEF Spec

-----------------------------------------------------------------------------
(***************************************************************************)
(* The loss of the server while the client connects                        *)
(***************************************************************************)

\* A thread of the application is inside only when the client is connected; the event is
\* of a server that is gone.
Inside ==
  /\ \A u \in Users : pc[u] # "idle" => opening = "done"
  /\ notice => server = "gone"

\* Every step keeps it.
LEMMA InsideStep ==
  ASSUME TypeOK, Inside, [Next]_vars
  PROVE  Inside'
  <1>1. ASSUME NEW u \in Users, BeginCall(u) PROVE Inside'
    BY <1>1 DEF BeginCall, born, result, txnVars, lists, errors, network, hands, Inside,
       TypeOK, Threads, GetRef, Ready
  <1>2. ASSUME NEW u \in Users, NoTxn(u) PROVE Inside'
    BY <1>2 DEF NoTxn, born, result, txnVars, lists, client, errors, network, app, rest,
       hands, Inside, TypeOK, Threads, GetRef, Ready
  <1>3. ASSUME NEW u \in Users, GetTxn(u) PROVE Inside'
    BY <1>3 DEF GetTxn, result, client, errors, network, hands, Inside, TypeOK, Threads,
       GetRef, Ready
  <1>4. ASSUME NEW u \in Users, Own(u) PROVE Inside'
    BY <1>4 DEF Own, born, result, lists, client, errors, network, hands, Inside,
       TypeOK, Threads, GetRef, Ready
  <1>5. ASSUME NEW u \in Users, Arm(u) PROVE Inside'
    BY <1>5 DEF Arm, born, lists, client, errors, network, app, rest, hands, Inside,
       TypeOK, Threads, GetRef, Ready
  <1>6. ASSUME NEW u \in Users, Check(u) PROVE Inside'
    BY <1>6 DEF Check, born, result, txnVars, lists, client, errors, network, app, rest,
       hands, Inside, TypeOK, Threads, GetRef, Ready
  <1>7. ASSUME NEW u \in Users, TakeRef(u) PROVE Inside'
    BY <1>7 DEF TakeRef, born, result, lists, client, errors, network, Inside, TypeOK,
       Threads, GetRef, Ready
  <1>8. ASSUME NEW u \in Users, Enqueue(u) PROVE Inside'
    BY <1>8 DEF Enqueue, born, result, txnVars, client, errors, network, app, rest,
       Inside, TypeOK, Threads, GetRef, Ready
  <1>9. ASSUME NEW u \in Users, Refuse(u) PROVE Inside'
    BY <1>9 DEF Refuse, born, result, lists, client, errors, network, app, rest, Inside,
       TypeOK, Threads, GetRef, Ready
  <1>10. ASSUME NEW u \in Users, Wake(u) PROVE Inside'
    BY <1>10 DEF Wake, born, lists, client, errors, network, app, rest, hands, Inside,
       TypeOK, Threads, GetRef, Ready
  <1>11. ASSUME NEW u \in Users, TimeOut(u) PROVE Inside'
    BY <1>11 DEF TimeOut, born, lists, client, errors, network, app, rest, hands,
       Inside, TypeOK, Threads, GetRef, Ready
  <1>12. ASSUME NEW u \in Users, Invalidate(u) PROVE Inside'
    BY <1>12 DEF Invalidate, born, result, lists, client, errors, network, app, rest,
       hands, Inside, TypeOK, Threads, GetRef, Ready
  <1>13. ASSUME NEW u \in Users, RemoveSync(u) PROVE Inside'
    BY <1>13 DEF RemoveSync, born, result, client, errors, network, app, rest, hands,
       Inside, TypeOK, Threads, GetRef, Ready
  <1>14. ASSUME NEW u \in Users, DropOwn(u) PROVE Inside'
    BY <1>14 DEF DropOwn, born, lists, client, errors, network, app, rest, hands,
       Inside, TypeOK, Threads, GetRef, Ready
  <1>15. ASSUME NEW u \in Users, AsyncFails(u) PROVE Inside'
    BY <1>15 DEF AsyncFails, born, client, errors, network, app, rest, hands, Inside,
       TypeOK, Threads, GetRef, Ready
  <1>16. ASSUME NEW u \in Users, PutRef(u) PROVE Inside'
    BY <1>16 DEF PutRef, born, result, txnVars, lists, errors, network, hands, Inside,
       TypeOK, Threads, GetRef, Ready
  <1>17. ASSUME NEW u \in Users, BeginDelete(u) PROVE Inside'
    BY <1>17 DEF BeginDelete, born, result, txnVars, lists, errors, network, hands,
       Inside, TypeOK, Threads, GetRef, Ready
  <1>18. ASSUME NEW u \in Users, DeleteQueued(u) PROVE Inside'
    BY <1>18 DEF DeleteQueued, born, result, txnVars, client, errors, network, app,
       rest, Inside, TypeOK, Threads, GetRef, Ready
  <1>19. ASSUME NEW u \in Users, DeleteGive(u) PROVE Inside'
    BY <1>19 DEF DeleteGive, born, result, lists, client, errors, network, app, rest,
       Inside, TypeOK, Threads, GetRef, Ready
  <1>20. ASSUME NEW u \in Users, DeleteListed(u) PROVE Inside'
    BY <1>20 DEF DeleteListed, born, client, errors, network, app, rest, Inside, TypeOK,
       Threads, GetRef, Ready
  <1>21. ASSUME NEW u \in Users, DeleteDrop(u) PROVE Inside'
    BY <1>21 DEF DeleteDrop, born, result, lists, client, errors, network, app, rest,
       Inside, TypeOK, Threads, GetRef, Ready
  <1>22. ASSUME NEW u \in Users, BeginRelease(u) PROVE Inside'
    BY <1>22 DEF BeginRelease, born, result, txnVars, lists, errors, network, hands,
       Inside, TypeOK, Threads, GetRef, Ready
  <1>23. ASSUME NEW u \in Users, EndProbe(u) PROVE Inside'
    BY <1>23 DEF EndProbe, born, result, txnVars, lists, errors, network, app, hands,
       Inside, TypeOK, Threads, GetRef, Ready
  <1>24. ASSUME NEW u \in Users, Unlink(u) PROVE Inside'
    BY <1>24 DEF Unlink, born, result, txnVars, lists, errors, network, app, hands,
       Inside, TypeOK, Threads, GetRef, Ready
  <1>25. ASSUME NEW u \in Users, NoRelease(u) PROVE Inside'
    BY <1>25 DEF NoRelease, born, result, txnVars, lists, client, errors, network,
       hands, Inside, TypeOK, Threads, GetRef, Ready
  <1>26. ASSUME NEW u \in Users, BeginReleaseAsync(u) PROVE Inside'
    BY <1>26 DEF BeginReleaseAsync, born, result, txnVars, lists, errors, network,
       hands, Inside, TypeOK, Threads, GetRef, Ready
  <1>27. ASSUME NEW u \in Users, ReleaseStop(u) PROVE Inside'
    BY <1>27 DEF ReleaseStop, born, result, txnVars, lists, errors, network, app, hands,
       Inside, TypeOK, Threads, GetRef, Ready
  <1>28. ASSUME NEW u \in Users, ReleaseClose(u) PROVE Inside'
    BY <1>28 DEF ReleaseClose, born, result, txnVars, lists, errors, app, hands, Inside,
       TypeOK, Threads, GetRef, Ready
  <1>29. ASSUME NEW u \in Users, Unblock(u) PROVE Inside'
    BY <1>29 DEF Unblock, born, result, txnVars, lists, client, errors, network, app,
       rest, hands, Inside, TypeOK, Threads, GetRef, Ready
  <1>30. ASSUME NEW u \in Users, BeginRegister(u) PROVE Inside'
    BY <1>30 DEF BeginRegister, born, result, txnVars, lists, errors, network, hands,
       Inside, TypeOK, Threads, GetRef, Ready
  <1>31. ASSUME NEW u \in Users, RegisterErrorCb(u) PROVE Inside'
    BY <1>31 DEF RegisterErrorCb, born, result, txnVars, lists, client, network, app,
       hands, Inside, TypeOK, Threads, GetRef, Ready
  <1>32. ASSUME NEW u \in Users, RegisterCall(u) PROVE Inside'
    BY <1>32 DEF RegisterCall, born, result, txnVars, lists, client, network, app,
       hands, Inside, TypeOK, Threads, GetRef, Ready
  <1>33. ASSUME NEW th \in Users \cup {Loss, Resumer}, CleanupQueue(th) PROVE Inside'
    BY <1>33 DEF CleanupQueue, born, result, txnVars, client, errors, network, app,
       rest, Inside, TypeOK, Threads, GetRef, Ready
  <1>34. ASSUME NEW th \in Users \cup {Loss, Resumer}, CleanupGive(th) PROVE Inside'
    BY <1>34 DEF CleanupGive, born, result, lists, client, errors, network, app, rest,
       Inside, TypeOK, Threads, GetRef, Ready
  <1>35. ASSUME NEW th \in Users \cup {Loss, Resumer}, CleanupList(th) PROVE Inside'
    BY <1>35 DEF CleanupList, born, result, txnVars, client, errors, network, app, rest,
       Inside, TypeOK, Threads, GetRef, Ready
  <1>36. ASSUME NEW th \in Users \cup {Loss, Resumer}, CleanupFail(th) PROVE Inside'
    BY <1>36 DEF CleanupFail, born, lists, client, errors, network, app, rest, Inside,
       TypeOK, Threads, GetRef, Ready
  <1>37. ASSUME NEW th \in Users \cup {Loss, Resumer}, CleanupDrop(th) PROVE Inside'
    BY <1>37 DEF CleanupDrop, born, result, lists, client, errors, network, app, rest,
       Inside, TypeOK, Threads, GetRef, Ready
  <1>38. ASSUME NEW th \in Users \cup {Loss, Resumer}, FlushAddress(th) PROVE Inside'
    BY <1>38 DEF FlushAddress, born, result, txnVars, lists, client, errors, network,
       app, rest, hands, Inside, TypeOK, Threads, GetRef, Ready
  <1>39. ASSUME NEW th \in Users \cup {Loss, Resumer}, FlushEnd(th) PROVE Inside'
    BY <1>39 DEF FlushEnd, born, result, txnVars, lists, client, errors, network, app,
       rest, hands, Inside, TypeOK, Threads, GetRef, Ready
  <1>40. ASSUME NEW th \in Users \cup {Loss, Resumer}, FlushBusy(th) PROVE Inside'
    BY <1>40 DEF FlushBusy, born, result, txnVars, lists, client, errors, app, hands,
       Inside, TypeOK, Threads, GetRef, Ready
  <1>41. ASSUME NEW th \in Users \cup {Loss, Resumer}, FlushSend(th) PROVE Inside'
    BY <1>41 DEF FlushSend, born, result, txnVars, client, errors, app, Inside, TypeOK,
       Threads, GetRef, Ready
  <1>42. ASSUME NEW th \in Users \cup {Loss, Resumer}, FlushGive(th) PROVE Inside'
    BY <1>42 DEF FlushGive, born, result, lists, client, errors, network, app, rest,
       Inside, TypeOK, Threads, GetRef, Ready
  <1>43. ASSUME NEW th \in Users \cup {Loss, Resumer}, FlushFind(th) PROVE Inside'
    BY <1>43 DEF FlushFind, born, result, txnVars, client, errors, network, app, rest,
       Inside, TypeOK, Threads, GetRef, Ready
  <1>44. ASSUME NEW th \in Users \cup {Loss, Resumer}, FlushFail(th) PROVE Inside'
    BY <1>44 DEF FlushFail, born, lists, client, errors, network, app, rest, hands,
       Inside, TypeOK, Threads, GetRef, Ready
  <1>45. ASSUME NEW th \in Users \cup {Loss, Resumer}, FlushDrop(th) PROVE Inside'
    BY <1>45 DEF FlushDrop, born, result, lists, client, errors, network, app, rest,
       Inside, TypeOK, Threads, GetRef, Ready
  <1>46. ASSUME LoseServer PROVE Inside'
    BY <1>46 DEF LoseServer, born, result, txnVars, lists, errors, hands, Inside,
       TypeOK, Threads, GetRef, Ready
  <1>47. ASSUME Notify PROVE Inside'
    BY <1>47 DEF Notify, born, result, txnVars, lists, client, network, app, hands,
       Inside, TypeOK, Threads, GetRef, Ready
  <1>48. ASSUME ErrorCall PROVE Inside'
    BY <1>48 DEF ErrorCall, born, result, txnVars, lists, client, network, app, hands,
       Inside, TypeOK, Threads, GetRef, Ready
  <1>49. ASSUME Resume PROVE Inside'
    BY <1>49 DEF Resume, born, result, txnVars, lists, client, errors, app, hands,
       Inside, TypeOK, Threads, GetRef, Ready
  <1>50. ASSUME Closed PROVE Inside'
    BY <1>50 DEF Closed, born, result, txnVars, lists, errors, app, hands, Inside,
       TypeOK, Threads, GetRef, Ready
  <1>51. ASSUME Receive PROVE Inside'
    BY <1>51 DEF Receive, born, result, txnVars, client, errors, hands, Inside, TypeOK,
       Threads, GetRef, Ready
  <1>52. ASSUME Mismatch PROVE Inside'
    BY <1>52 DEF Mismatch, born, lists, client, errors, network, app, rest, hands,
       Inside, TypeOK, Threads, GetRef, Ready
  <1>53. ASSUME LockTxn PROVE Inside'
    BY <1>53 DEF LockTxn, born, result, txnVars, lists, client, errors, network, app,
       rest, hands, Inside, TypeOK, Threads, GetRef, Ready
  <1>54. ASSUME Decode PROVE Inside'
    BY <1>54 DEF Decode, born, lists, client, errors, network, app, rest, hands, Inside,
       TypeOK, Threads, GetRef, Ready
  <1>55. ASSUME ReceiveDrop PROVE Inside'
    BY <1>55 DEF ReceiveDrop, born, result, lists, client, errors, network, Inside,
       TypeOK, Threads, GetRef, Ready
  <1>56. ASSUME OpenPort PROVE Inside'
    BY <1>56 DEF OpenPort, born, result, txnVars, lists, errors, hands, Inside, TypeOK,
       Threads, GetRef, Ready
  <1>56a. ASSUME AddXport PROVE Inside'
    BY <1>56a DEF AddXport, born, result, txnVars, lists, errors, network, hands,
       Inside, TypeOK, Threads, GetRef, Ready
  <1>57. ASSUME FillAddress PROVE Inside'
    BY <1>57 DEF FillAddress, born, result, txnVars, lists, errors, network, hands,
       Inside, TypeOK, Threads, GetRef, Ready
  <1>58. ASSUME LookupAgain PROVE Inside'
    BY <1>58 DEF LookupAgain, born, result, txnVars, lists, errors, hands, Inside,
       TypeOK, Threads, GetRef, Ready
  <1>59. ASSUME ServerGone PROVE Inside'
    BY <1>59 DEF ServerGone, Inside, app
  <1>60. CASE UNCHANGED vars
    BY <1>60 DEF vars, rest, app, network, Inside
  <1> QED
    BY <1>1, <1>2, <1>3, <1>4, <1>5, <1>6, <1>7, <1>8, <1>9, <1>10, <1>11, <1>12,
       <1>13, <1>14, <1>15, <1>16, <1>17, <1>18, <1>19, <1>20, <1>21, <1>22, <1>23,
       <1>24, <1>25, <1>26, <1>27, <1>28, <1>29, <1>30, <1>31, <1>32, <1>33, <1>34,
       <1>35, <1>36, <1>37, <1>38, <1>39, <1>40, <1>41, <1>42, <1>43, <1>44, <1>45,
       <1>46, <1>47, <1>48, <1>49, <1>50, <1>51, <1>52, <1>53, <1>54, <1>55, <1>56,
       <1>56a, <1>57, <1>58, <1>59, <1>60, Zenon DEF Next, Call, Delete, Release,
       Register, Cleanup, Flush, Router, Opening

\* A step that touches neither address nor server keeps it.
LEMMA LossFrame ==
  ASSUME LossIsNoticed, UNCHANGED <<opening, server, attached, notice, valid, crashed>>
  PROVE  LossIsNoticed'
  BY DEF LossIsNoticed

\* Every step keeps it: second look-up, event and loss included.
LEMMA LossStep ==
  ASSUME TypeOK, Inside, LossIsNoticed, [Next]_vars
  PROVE  LossIsNoticed'
  <1>1. ASSUME NEW u \in Users, BeginCall(u) PROVE LossIsNoticed'
    BY <1>1, LossFrame DEF BeginCall, born, result, txnVars, lists, errors, network, hands
  <1>2. ASSUME NEW u \in Users, NoTxn(u) PROVE LossIsNoticed'
    BY <1>2, LossFrame DEF NoTxn, born, result, txnVars, lists, client, errors, network,
       app, rest, hands
  <1>3. ASSUME NEW u \in Users, GetTxn(u) PROVE LossIsNoticed'
    BY <1>3, LossFrame DEF GetTxn, result, client, errors, network, hands
  <1>4. ASSUME NEW u \in Users, Own(u) PROVE LossIsNoticed'
    BY <1>4 DEF Own, Inside, LossIsNoticed, born, result, lists, client, errors, network, hands
  <1>5. ASSUME NEW u \in Users, Arm(u) PROVE LossIsNoticed'
    BY <1>5, LossFrame DEF Arm, born, lists, client, errors, network, app, rest, hands
  <1>6. ASSUME NEW u \in Users, Check(u) PROVE LossIsNoticed'
    BY <1>6, LossFrame DEF Check, born, result, txnVars, lists, client, errors, network,
       app, rest, hands
  <1>7. ASSUME NEW u \in Users, TakeRef(u) PROVE LossIsNoticed'
    BY <1>7 DEF TakeRef, Inside, LossIsNoticed, born, result, lists, client, errors, network
  <1>8. ASSUME NEW u \in Users, Enqueue(u) PROVE LossIsNoticed'
    BY <1>8, LossFrame DEF Enqueue, born, result, txnVars, client, errors, network, app,
       rest
  <1>9. ASSUME NEW u \in Users, Refuse(u) PROVE LossIsNoticed'
    BY <1>9, LossFrame DEF Refuse, born, result, lists, client, errors, network, app, rest
  <1>10. ASSUME NEW u \in Users, Wake(u) PROVE LossIsNoticed'
    BY <1>10, LossFrame DEF Wake, born, lists, client, errors, network, app, rest, hands
  <1>11. ASSUME NEW u \in Users, TimeOut(u) PROVE LossIsNoticed'
    BY <1>11, LossFrame DEF TimeOut, born, lists, client, errors, network, app, rest, hands
  <1>12. ASSUME NEW u \in Users, Invalidate(u) PROVE LossIsNoticed'
    BY <1>12, LossFrame DEF Invalidate, born, result, lists, client, errors, network, app,
       rest, hands
  <1>13. ASSUME NEW u \in Users, RemoveSync(u) PROVE LossIsNoticed'
    BY <1>13, LossFrame DEF RemoveSync, born, result, client, errors, network, app, rest,
       hands
  <1>14. ASSUME NEW u \in Users, DropOwn(u) PROVE LossIsNoticed'
    BY <1>14, LossFrame DEF DropOwn, born, lists, client, errors, network, app, rest, hands
  <1>15. ASSUME NEW u \in Users, AsyncFails(u) PROVE LossIsNoticed'
    BY <1>15, LossFrame DEF AsyncFails, born, client, errors, network, app, rest, hands
  <1>16. ASSUME NEW u \in Users, PutRef(u) PROVE LossIsNoticed'
    BY <1>16, LossFrame DEF PutRef, born, result, txnVars, lists, errors, network, hands
  <1>17. ASSUME NEW u \in Users, BeginDelete(u) PROVE LossIsNoticed'
    BY <1>17, LossFrame DEF BeginDelete, born, result, txnVars, lists, errors, network,
       hands
  <1>18. ASSUME NEW u \in Users, DeleteQueued(u) PROVE LossIsNoticed'
    BY <1>18, LossFrame DEF DeleteQueued, born, result, txnVars, client, errors, network,
       app, rest
  <1>19. ASSUME NEW u \in Users, DeleteGive(u) PROVE LossIsNoticed'
    BY <1>19, LossFrame DEF DeleteGive, born, result, lists, client, errors, network, app,
       rest
  <1>20. ASSUME NEW u \in Users, DeleteListed(u) PROVE LossIsNoticed'
    BY <1>20, LossFrame DEF DeleteListed, born, client, errors, network, app, rest
  <1>21. ASSUME NEW u \in Users, DeleteDrop(u) PROVE LossIsNoticed'
    BY <1>21, LossFrame DEF DeleteDrop, born, result, lists, client, errors, network, app,
       rest
  <1>22. ASSUME NEW u \in Users, BeginRelease(u) PROVE LossIsNoticed'
    BY <1>22, LossFrame DEF BeginRelease, born, result, txnVars, lists, errors, network,
       hands
  <1>23. ASSUME NEW u \in Users, EndProbe(u) PROVE LossIsNoticed'
    BY <1>23, LossFrame DEF EndProbe, born, result, txnVars, lists, errors, network, app,
       hands
  <1>24. ASSUME NEW u \in Users, Unlink(u) PROVE LossIsNoticed'
    BY <1>24, LossFrame DEF Unlink, born, result, txnVars, lists, errors, network, app,
       hands
  <1>25. ASSUME NEW u \in Users, NoRelease(u) PROVE LossIsNoticed'
    BY <1>25, LossFrame DEF NoRelease, born, result, txnVars, lists, client, errors,
       network, hands
  <1>26. ASSUME NEW u \in Users, BeginReleaseAsync(u) PROVE LossIsNoticed'
    BY <1>26, LossFrame DEF BeginReleaseAsync, born, result, txnVars, lists, errors,
       network, hands
  <1>27. ASSUME NEW u \in Users, ReleaseStop(u) PROVE LossIsNoticed'
    BY <1>27, LossFrame DEF ReleaseStop, born, result, txnVars, lists, errors, network, app,
       hands
  <1>28. ASSUME NEW u \in Users, ReleaseClose(u) PROVE LossIsNoticed'
    BY <1>28, LossFrame DEF ReleaseClose, born, result, txnVars, lists, errors, app, hands
  <1>29. ASSUME NEW u \in Users, Unblock(u) PROVE LossIsNoticed'
    BY <1>29, LossFrame DEF Unblock, born, result, txnVars, lists, client, errors, network,
       app, rest, hands
  <1>30. ASSUME NEW u \in Users, BeginRegister(u) PROVE LossIsNoticed'
    BY <1>30, LossFrame DEF BeginRegister, born, result, txnVars, lists, errors, network,
       hands
  <1>31. ASSUME NEW u \in Users, RegisterErrorCb(u) PROVE LossIsNoticed'
    BY <1>31, LossFrame DEF RegisterErrorCb, born, result, txnVars, lists, client, network,
       app, hands
  <1>32. ASSUME NEW u \in Users, RegisterCall(u) PROVE LossIsNoticed'
    BY <1>32, LossFrame DEF RegisterCall, born, result, txnVars, lists, client, network,
       app, hands
  <1>33. ASSUME NEW th \in Users \cup {Loss, Resumer}, CleanupQueue(th) PROVE LossIsNoticed'
    BY <1>33, LossFrame DEF CleanupQueue, born, result, txnVars, client, errors, network,
       app, rest
  <1>34. ASSUME NEW th \in Users \cup {Loss, Resumer}, CleanupGive(th) PROVE LossIsNoticed'
    BY <1>34, LossFrame DEF CleanupGive, born, result, lists, client, errors, network, app,
       rest
  <1>35. ASSUME NEW th \in Users \cup {Loss, Resumer}, CleanupList(th) PROVE LossIsNoticed'
    BY <1>35, LossFrame DEF CleanupList, born, result, txnVars, client, errors, network,
       app, rest
  <1>36. ASSUME NEW th \in Users \cup {Loss, Resumer}, CleanupFail(th) PROVE LossIsNoticed'
    BY <1>36, LossFrame DEF CleanupFail, born, lists, client, errors, network, app, rest
  <1>37. ASSUME NEW th \in Users \cup {Loss, Resumer}, CleanupDrop(th) PROVE LossIsNoticed'
    BY <1>37, LossFrame DEF CleanupDrop, born, result, lists, client, errors, network, app,
       rest
  <1>38. ASSUME NEW th \in Users \cup {Loss, Resumer}, FlushAddress(th) PROVE LossIsNoticed'
    BY <1>38, LossFrame DEF FlushAddress, born, result, txnVars, lists, client, errors,
       network, app, rest, hands
  <1>39. ASSUME NEW th \in Users \cup {Loss, Resumer}, FlushEnd(th) PROVE LossIsNoticed'
    BY <1>39, LossFrame DEF FlushEnd, born, result, txnVars, lists, client, errors, network,
       app, rest, hands
  <1>40. ASSUME NEW th \in Users \cup {Loss, Resumer}, FlushBusy(th) PROVE LossIsNoticed'
    BY <1>40, LossFrame DEF FlushBusy, born, result, txnVars, lists, client, errors, app,
       hands
  <1>41. ASSUME NEW th \in Users \cup {Loss, Resumer}, FlushSend(th) PROVE LossIsNoticed'
    BY <1>41, LossFrame DEF FlushSend, born, result, txnVars, client, errors, app
  <1>42. ASSUME NEW th \in Users \cup {Loss, Resumer}, FlushGive(th) PROVE LossIsNoticed'
    BY <1>42, LossFrame DEF FlushGive, born, result, lists, client, errors, network, app,
       rest
  <1>43. ASSUME NEW th \in Users \cup {Loss, Resumer}, FlushFind(th) PROVE LossIsNoticed'
    BY <1>43, LossFrame DEF FlushFind, born, result, txnVars, client, errors, network, app,
       rest
  <1>44. ASSUME NEW th \in Users \cup {Loss, Resumer}, FlushFail(th) PROVE LossIsNoticed'
    BY <1>44, LossFrame DEF FlushFail, born, lists, client, errors, network, app, rest,
       hands
  <1>45. ASSUME NEW th \in Users \cup {Loss, Resumer}, FlushDrop(th) PROVE LossIsNoticed'
    BY <1>45, LossFrame DEF FlushDrop, born, result, lists, client, errors, network, app,
       rest
  <1>46. ASSUME LoseServer PROVE LossIsNoticed'
    BY <1>46 DEF LoseServer, Inside, LossIsNoticed, born, result, txnVars, lists, errors,
       hands
  <1>47. ASSUME Notify PROVE LossIsNoticed'
    BY <1>47, LossFrame DEF Notify, born, result, txnVars, lists, client, network, app,
       hands
  <1>48. ASSUME ErrorCall PROVE LossIsNoticed'
    BY <1>48, LossFrame DEF ErrorCall, born, result, txnVars, lists, client, network, app,
       hands
  <1>49. ASSUME Resume PROVE LossIsNoticed'
    BY <1>49, LossFrame DEF Resume, born, result, txnVars, lists, client, errors, app, hands
  <1>50. ASSUME Closed PROVE LossIsNoticed'
    BY <1>50 DEF Closed, PutClient, LossIsNoticed, born, result, txnVars, lists, errors,
       app, hands
  <1>51. ASSUME Receive PROVE LossIsNoticed'
    BY <1>51, LossFrame DEF Receive, born, result, txnVars, client, errors, hands
  <1>52. ASSUME Mismatch PROVE LossIsNoticed'
    BY <1>52, LossFrame DEF Mismatch, born, lists, client, errors, network, app, rest, hands
  <1>53. ASSUME LockTxn PROVE LossIsNoticed'
    BY <1>53, LossFrame DEF LockTxn, born, result, txnVars, lists, client, errors, network,
       app, rest, hands
  <1>54. ASSUME Decode PROVE LossIsNoticed'
    BY <1>54, LossFrame DEF Decode, born, lists, client, errors, network, app, rest, hands
  <1>55. ASSUME ReceiveDrop PROVE LossIsNoticed'
    BY <1>55, LossFrame DEF ReceiveDrop, born, result, lists, client, errors, network
  <1>56. ASSUME OpenPort PROVE LossIsNoticed'
    BY <1>56 DEF OpenPort, PutClient, LossIsNoticed, born, result, txnVars, lists, errors,
       hands
  <1>56a. ASSUME AddXport PROVE LossIsNoticed'
    BY <1>56a DEF AddXport, PutClient, LossIsNoticed, born, result, txnVars, lists, errors,
       network, hands
  <1>57. ASSUME FillAddress PROVE LossIsNoticed'
    BY <1>57 DEF FillAddress, PutClient, LossIsNoticed, born, result, txnVars, lists,
       errors, network, hands
  <1>58. ASSUME LookupAgain PROVE LossIsNoticed'
    BY <1>58 DEF LookupAgain, PutClient, LossIsNoticed, born, result, txnVars, lists,
       errors, hands
  <1>59. ASSUME ServerGone PROVE LossIsNoticed'
    BY <1>59 DEF ServerGone, LossIsNoticed, client, app
  <1>60. CASE UNCHANGED vars
    BY <1>60, LossFrame DEF vars, rest, client, network, app
  <1> QED
    BY <1>1, <1>2, <1>3, <1>4, <1>5, <1>6, <1>7, <1>8, <1>9, <1>10, <1>11, <1>12,
       <1>13, <1>14, <1>15, <1>16, <1>17, <1>18, <1>19, <1>20, <1>21, <1>22, <1>23,
       <1>24, <1>25, <1>26, <1>27, <1>28, <1>29, <1>30, <1>31, <1>32, <1>33, <1>34,
       <1>35, <1>36, <1>37, <1>38, <1>39, <1>40, <1>41, <1>42, <1>43, <1>44, <1>45,
       <1>46, <1>47, <1>48, <1>49, <1>50, <1>51, <1>52, <1>53, <1>54, <1>55, <1>56,
       <1>56a, <1>57, <1>58, <1>59, <1>60, Zenon DEF Next, Call, Delete, Release,
       Register, Cleanup, Flush, Router, Opening

\* A client that is connected never keeps the address of a server that is gone and of whose
\* loss no event is on its way, wherever between the two look-ups the server went; and
\* qmi_client_init crashes only when that event comes before the transport is listed.
THEOREM LossNoticed == Spec => []LossIsNoticed
  <1>1. Init => TypeOK /\ Shape /\ Inside /\ LossIsNoticed
    BY ShapeInit DEF Init, Inside, LossIsNoticed, Threads
  <1>2. TypeOK /\ Shape /\ Inside /\ LossIsNoticed /\ [Next]_vars
          => TypeOK' /\ Shape' /\ Inside' /\ LossIsNoticed'
    BY TypeStep, ShapeStep, InsideStep, LossStep
  <1> QED BY <1>1, <1>2, PTL DEF Spec

=============================================================================
