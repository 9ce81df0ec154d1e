------------------------------- MODULE QmiClient -------------------------------
(***************************************************************************)
(* One client of the QMI client interface (QCCI), from the end of          *)
(* qmi_cci_client_alloc to qmi_cci_client_free: its transactions, the      *)
(* queue of requests the transport was too busy for, the loss of the       *)
(* server, cancellation and release.                                       *)
(*                                                                         *)
(* A transaction is memory with a reference count.  References are held by *)
(* txn_list (a request without an answer), by tx_q (a request not sent     *)
(* yet), by the thread of a synchronous call, and by any thread that took  *)
(* the transaction out of a list and has not given the reference up.  All  *)
(* steps are the critical sections of the code; the routines flush and     *)
(* cleanup are shared by the threads and return to where op[th] says.      *)
(*                                                                         *)
(* The transport (qmi_cci_xport_ipc.c over the IPC router) and the server  *)
(* are the environment.  Loss, Resumer and Rx are router threads with the  *)
(* REMOVE_SERVER event, the RESUME_TX event and a received message.        *)
(***************************************************************************)
EXTENDS Integers, FiniteSets

CONSTANTS
  Users,           \* threads of the application
  Loss, Resumer, Rx,
  Txns,            \* memory for transactions, each piece used once
  Null,
  MaxId,           \* largest transaction id, 65535 in the code
  Sig, TimerSig,   \* the masks of os_params
  Ops,             \* what each thread of the application does
  Faults           \* what fails: "alloc", "encode", "send", "match"

Threads == Users \cup {Loss, Resumer, Rx}
Sync == {"sync", "timed"}      \* without and with a time-out
Calls == Sync \cup {"async"}

ASSUME QmiAssumption ==
  /\ Null \notin Txns
  /\ Loss \notin Users /\ Resumer \notin Users /\ Rx \notin Users
  /\ Loss # Resumer /\ Loss # Rx /\ Resumer # Rx
  /\ IsFiniteSet(Users) /\ MaxId \in Nat \ {0}
  /\ Sig \in Nat /\ TimerSig \in Nat
  /\ Ops \in [Users -> SUBSET (Calls \cup {"delete", "register", "release", "release_async"})]
  /\ Faults \subseteq {"alloc", "encode", "send", "match"}

VARIABLES
  used,            \* memory that is or was a transaction
  kind,            \* type and time-out of a transaction
  id,              \* txn_id
  ref,             \* ref_count
  buf,             \* rx_buf is set
  pending,         \* rc is QMI_TIMEOUT_ERR, no outcome yet
  sig,             \* signal
  reports,         \* how often its outcome was reported to the application
  list,            \* txn_list
  queue,           \* tx_q; no property depends on its order
  nextId,          \* next_txn_id
  valid,           \* server_addr_valid; the address is the server's then
  accepting,       \* accepting_txns
  handle,          \* xport->handle is set
  linked,          \* the client is in qcci_client_tbl
  cref,            \* priv.ref_count; the client is freed with it at 0
  errCb, errPending, told,   \* err_cb, err_pending, err_cb was called
  opening,         \* where qmi_client_init is
  server,          \* the server exists
  notice,          \* the REMOVE_SERVER event is on its way
  waiting,         \* the router will raise RESUME_TX
  attached,        \* the transport has its reference on the client
  closing,         \* the transport was closed
  requests,        \* requests without an answer, with their transaction
  handles,         \* transaction handles the application has
  pc, op, cur,     \* where a thread is, why, and the transaction of its call
  carry,           \* transactions whose list's reference a thread has
  work,            \* the one of them it works on
  crashed          \* freed memory was written, or a null pointer was followed

born == <<used, kind, id>>
result == <<pending, sig, reports>>
txnVars == <<born, ref, buf, result>>
lists == <<list, queue, nextId>>
client == <<valid, accepting, handle, linked, cref>>
errors == <<errCb, errPending, told>>
network == <<server, notice, waiting, attached, closing, requests>>
app == <<opening, handles, op, cur, crashed>>
rest == <<client, errors, network, app>>
hands == <<carry, work>>
vars == <<txnVars, lists, rest, pc, hands>>

-----------------------------------------------------------------------------
(***************************************************************************)
(* Transactions                                                            *)
(***************************************************************************)

\* is_pow_2; masks have at most 31 bits here.
IsPow2(v) == v = 0 \/ \E k \in 0..30 : v = 2^k

\* QMI_CCI_OS_SIGNAL_INIT makes the timer of a signal only if this holds.
TimerInited == TimerSig # 0 /\ TimerSig # Sig /\ ~IsPow2(TimerSig)

\* QMI_CCI_DEC_TXN frees the memory with the last reference.
Dec(t) == ref' = [ref EXCEPT ![t] = @ - 1]
live == {t \in Txns : ref[t] > 0}

\* A synchronous call has a reference of its own on its transaction.
Owning(u) == op[u] \in Sync /\ pc[u] \notin {"enter", "own", "put"}

\* Mutant of Fail: only calls without a time-out are woken.
FailUntimed(t) ==
  /\ pending' = [pending EXCEPT ![t] = FALSE]
  /\ IF kind[t] = "sync"
     THEN sig' = [sig EXCEPT ![t] = TRUE] /\ UNCHANGED reports
     ELSE reports' = [reports EXCEPT ![t] = @ + 1] /\ UNCHANGED sig

\* handle_txn_error: wake the caller, or call rx_cb.
Fail(t) ==
  /\ pending' = [pending EXCEPT ![t] = FALSE]
  /\ IF kind[t] \in Sync
     THEN sig' = [sig EXCEPT ![t] = TRUE] /\ UNCHANGED reports
     ELSE reports' = [reports EXCEPT ![t] = @ + 1] /\ UNCHANGED sig

\* Mutant of Locked: txn->lock is not taken.
Unlocked(t) == FALSE

\* The receiver holds txn->lock while it decodes and calls back.
Locked(t) == pc[Rx] = "decode" /\ work[Rx] = t

\* Nothing moves any more once the program crashed.
At(th, l) == pc[th] = l /\ ~crashed
Goto(th, l) == pc' = [pc EXCEPT ![th] = l]
Carry(th, S) == carry' = [carry EXCEPT ![th] = S]

\* Where a thread goes after qmi_cci_flush_tx_q.
AfterFlush(th) == CASE op[th] \in Sync -> "wait"
                    [] op[th] = "async" -> "put_handle"
                    [] OTHER -> "idle"

\* Where a thread goes after cleanup_client_lists; flush calls it, too.
AfterCleanup(th) == CASE op[th] = "loss" -> "notify"
                      [] op[th] \in {"release", "release_async"} -> "rel_close"
                      [] OTHER -> AfterFlush(th)

-----------------------------------------------------------------------------
(***************************************************************************)
(* cleanup_client_lists: everything in tx_q, then everything in txn_list   *)
(***************************************************************************)

CleanupQueue(th) ==
  /\ At(th, "cu_queue")
  /\ queue' = {}
  /\ Carry(th, queue)
  /\ Goto(th, "cu_give")
  /\ UNCHANGED <<list, nextId, work, rest, txnVars>>

CleanupGive(th) ==
  /\ At(th, "cu_give")
  /\ \E t \in carry[th] : Dec(t) /\ Carry(th, carry[th] \ {t})
  /\ UNCHANGED <<buf, pc, work, rest, born, result, lists>>

CleanupList(th) ==
  /\ At(th, "cu_give") /\ carry[th] = {}
  /\ list' = {}
  /\ Carry(th, list)
  /\ Goto(th, IF list = {} THEN AfterCleanup(th) ELSE "cu_fail")
  /\ UNCHANGED <<queue, nextId, work, rest, txnVars>>

CleanupFail(th) ==
  /\ At(th, "cu_fail")
  /\ \E t \in carry[th] : Fail(t) /\ work' = [work EXCEPT ![th] = t]
  /\ Goto(th, "cu_drop")
  /\ UNCHANGED <<buf, carry, ref, rest, born, lists>>

CleanupDrop(th) ==
  /\ At(th, "cu_drop") /\ ~Locked(work[th])
  /\ buf' = [buf EXCEPT ![work[th]] = FALSE]
  /\ Dec(work[th])
  /\ work' = [work EXCEPT ![th] = Null]
  /\ Carry(th, carry[th] \ {work[th]})
  /\ Goto(th, IF carry[th] = {work[th]} THEN AfterCleanup(th) ELSE "cu_fail")
  /\ UNCHANGED <<rest, born, result, lists>>

Cleanup(th) == \/ CleanupQueue(th) \/ CleanupGive(th) \/ CleanupList(th)
               \/ CleanupFail(th) \/ CleanupDrop(th)

-----------------------------------------------------------------------------
(***************************************************************************)
(* qmi_cci_flush_tx_q                                                      *)
(***************************************************************************)

\* get_dest_addr
FlushAddress(th) ==
  /\ At(th, "fl_addr")
  /\ Goto(th, IF valid THEN "fl_send" ELSE "cu_queue")
  /\ UNCHANGED <<rest, txnVars, lists, hands>>

FlushEnd(th) ==
  /\ At(th, "fl_send") /\ queue = {}
  /\ Goto(th, AfterFlush(th))
  /\ UNCHANGED <<rest, txnVars, lists, hands>>

\* The router is out of tokens and will raise RESUME_TX.
FlushBusy(th) ==
  /\ At(th, "fl_send") /\ queue # {} /\ accepting /\ handle
  /\ waiting' = TRUE
  /\ Goto(th, AfterFlush(th))
  /\ UNCHANGED <<server, notice, attached, closing, requests, txnVars, client, app,
                 lists, errors, hands>>

\* The head leaves the queue, sent (with its buffer now the transport's) or not.
FlushSend(th) ==
  /\ At(th, "fl_send")
  /\ \E t \in queue :
        /\ queue' = queue \ {t}
        /\ Carry(th, {t})
        /\ work' = [work EXCEPT ![th] = t]
        /\ \/ /\ accepting /\ handle
              /\ requests' = requests \cup {[id |-> id[t], for |-> t]}
              /\ Goto(th, "fl_sent")
           \/ /\ ~accepting \/ ~handle \/ server = "gone" \/ "send" \in Faults
              /\ UNCHANGED requests
              /\ Goto(th, "fl_bad")
  /\ UNCHANGED <<list, nextId, server, notice, waiting, attached, closing, txnVars,
                 client, app, errors>>

FlushGive(th) ==
  /\ At(th, "fl_sent") \/ At(th, "fl_bad")
  /\ Dec(work[th])
  /\ Carry(th, {})
  /\ work' = [work EXCEPT ![th] = IF pc[th] = "fl_sent" THEN Null ELSE @]
  /\ Goto(th, IF pc[th] = "fl_sent" THEN "fl_send" ELSE "fl_log")
  /\ UNCHANGED <<buf, rest, born, result, lists>>

\* An error is logged with the ids of the transaction, which is then looked up.
FlushFind(th) ==
  /\ At(th, "fl_log")
  /\ IF work[th] \in list
     THEN /\ list' = list \ {work[th]}
          /\ Carry(th, {work[th]})
          /\ Goto(th, "fl_fail")
          /\ UNCHANGED work
     ELSE /\ Goto(th, "fl_send")
          /\ work' = [work EXCEPT ![th] = Null]
          /\ UNCHANGED <<list, carry>>
  /\ UNCHANGED <<queue, nextId, rest, txnVars>>

FlushFail(th) ==
  /\ At(th, "fl_fail")
  /\ Fail(work[th])
  /\ Goto(th, "fl_drop")
  /\ UNCHANGED <<buf, ref, rest, born, lists, hands>>

FlushDrop(th) ==
  /\ At(th, "fl_drop")
  /\ Dec(work[th])
  /\ work' = [work EXCEPT ![th] = Null]
  /\ Carry(th, {})
  /\ Goto(th, "fl_send")
  /\ UNCHANGED <<buf, rest, born, result, lists>>

Flush(th) == \/ FlushAddress(th) \/ FlushEnd(th) \/ FlushBusy(th) \/ FlushSend(th)
             \/ FlushGive(th) \/ FlushFind(th) \/ FlushFail(th) \/ FlushDrop(th)

-----------------------------------------------------------------------------
(***************************************************************************)
(* A call of the application: qmi_client_send_*_sync and _async            *)
(***************************************************************************)

Ready == opening = "done"

\* qmi_cci_put_ref: the last user of the client frees it.
PutClient ==
  /\ cref' = cref - 1
  /\ linked' = (linked /\ cref # 1)

\* qmi_cci_get_ref
GetRef(u, o) ==
  /\ Ready /\ linked
  /\ At(u, "idle")
  /\ cref' = cref + 1
  /\ op' = [op EXCEPT ![u] = o]

BeginCall(u) ==
  /\ \E k \in Ops[u] \cap Calls : GetRef(u, k)
  /\ used # Txns
  /\ Goto(u, "enter")
  /\ UNCHANGED <<valid, accepting, handle, linked, opening, handles, cur, crashed,
                 txnVars, network, lists, errors, hands>>

\* Mutant of NoTxn: the error path does not give the client back.
NoTxnReturns(u) ==
  /\ At(u, "enter")
  /\ ~handle \/ "alloc" \in Faults
  /\ Goto(u, "idle")
  /\ UNCHANGED <<rest, txnVars, lists, hands>>

\* The transport was closed, or there is no memory.
NoTxn(u) ==
  /\ At(u, "enter")
  /\ ~handle \/ "alloc" \in Faults
  /\ Goto(u, "put")
  /\ UNCHANGED <<rest, txnVars, lists, hands>>

\* Mutant of NextId: 0 is an id like any other.
NextIdWraps == IF nextId = MaxId THEN 0 ELSE nextId + 1

NextId == IF nextId = MaxId THEN 1 ELSE nextId + 1

\* qmi_client_get_txn; the transport may be closed since it was checked.  Ids skip 0.
GetTxn(u) ==
  /\ At(u, "enter")
  /\ \E t \in Txns \ used :
        /\ used' = used \cup {t}
        /\ list' = list \cup {t}
        /\ kind' = [kind EXCEPT ![t] = op[u]]
        /\ id' = [id EXCEPT ![t] = nextId]
        /\ ref' = [ref EXCEPT ![t] = 1]
        /\ buf' = [buf EXCEPT ![t] = TRUE]
        /\ cur' = [cur EXCEPT ![u] = t]
  /\ nextId' = NextId
  /\ Goto(u, IF op[u] \in Sync THEN "own" ELSE "check")
  /\ UNCHANGED <<queue, opening, handles, op, crashed, network, client, result, errors,
                 hands>>

\* QMI_CCI_INC_TXN: on freed memory anything may follow.
Inc(t) ==
  IF t \in live THEN ref' = [ref EXCEPT ![t] = @ + 1] /\ UNCHANGED crashed
  ELSE crashed' = TRUE /\ UNCHANGED ref

\* A synchronous call keeps a reference of its own,
Own(u) ==
  /\ At(u, "own")
  /\ Inc(cur[u])
  /\ Goto(u, "arm")
  /\ UNCHANGED <<buf, opening, handles, op, cur, network, client, born, result, lists,
                 errors, hands>>

\* and clears the signal before it sends.
Arm(u) ==
  /\ At(u, "arm")
  /\ sig' = [sig EXCEPT ![cur[u]] = FALSE]
  /\ pending' = [pending EXCEPT ![cur[u]] = TRUE]
  /\ Goto(u, "check")
  /\ UNCHANGED <<buf, reports, ref, rest, born, lists, hands>>

Failing(u) == IF op[u] \in Sync THEN "inval" ELSE "fail"

\* encode_and_send, and the address check of qmi_cci_send
Check(u) ==
  /\ At(u, "check")
  /\ \/ "encode" \in Faults /\ Goto(u, Failing(u))
     \/ Goto(u, IF valid THEN "ref" ELSE Failing(u))
  /\ UNCHANGED <<rest, txnVars, lists, hands>>

\* The reference of the queue
TakeRef(u) ==
  /\ At(u, "ref")
  /\ Inc(cur[u])
  /\ Carry(u, {cur[u]})
  /\ Goto(u, "queue")
  /\ UNCHANGED <<buf, opening, handles, op, cur, work, network, client, born, result,
                 lists, errors>>

Enqueue(u) ==
  /\ At(u, "queue") /\ accepting
  /\ queue' = queue \cup {cur[u]}
  /\ Carry(u, {})
  /\ Goto(u, "fl_addr")
  /\ UNCHANGED <<list, nextId, work, rest, txnVars>>

\* Mutant of Refuse: the reference of the queue is kept.
RefuseKeepsRef(u) ==
  /\ At(u, "queue") /\ ~accepting
  /\ Carry(u, {})
  /\ Goto(u, Failing(u))
  /\ UNCHANGED <<work, rest, lists, txnVars>>

\* The client was released.
Refuse(u) ==
  /\ At(u, "queue") /\ ~accepting
  /\ Dec(cur[u])
  /\ Carry(u, {})
  /\ Goto(u, Failing(u))
  /\ UNCHANGED <<buf, work, rest, born, result, lists>>

\* qmi_cci_response_wait_loop; a wake-up with the answer pending is a stray one.
Wake(u) ==
  /\ At(u, "wait") /\ sig[cur[u]]
  /\ sig' = [sig EXCEPT ![cur[u]] = FALSE]
  /\ Goto(u, IF pending[cur[u]] THEN "wait" ELSE "inval")
  /\ UNCHANGED <<buf, pending, reports, ref, rest, born, lists, hands>>

\* The signal may be set, too: the answer is lost to a time-out at that moment.
TimeOut(u) ==
  /\ At(u, "wait") /\ op[u] = "timed" /\ TimerInited
  /\ sig' = [sig EXCEPT ![cur[u]] = FALSE]
  /\ Goto(u, "inval")
  /\ UNCHANGED <<buf, pending, reports, ref, rest, born, lists, hands>>

\* INVALIDATE_TXN_RX_BUF waits for a receiver at work.
Invalidate(u) ==
  /\ At(u, "inval") /\ ~Locked(cur[u])
  /\ buf' = [buf EXCEPT ![cur[u]] = FALSE]
  /\ Goto(u, "remove")
  /\ UNCHANGED <<ref, rest, born, result, lists, hands>>

RemoveSync(u) ==
  /\ At(u, "remove")
  /\ IF cur[u] \in list THEN list' = list \ {cur[u]} /\ Dec(cur[u])
     ELSE UNCHANGED <<list, ref>>
  /\ Goto(u, "drop")
  /\ UNCHANGED <<buf, queue, nextId, rest, born, result, hands>>

\* The call gives up its reference and is about to return.
DropOwn(u) ==
  /\ At(u, "drop")
  /\ Dec(cur[u])
  /\ reports' = [reports EXCEPT ![cur[u]] = @ + 1]
  /\ Goto(u, "put")
  /\ UNCHANGED <<buf, pending, sig, rest, born, lists, hands>>

\* Mutant of AsyncFails: the error is returned though rx_cb was called with one.
AsyncFailsTwice(u) ==
  /\ At(u, "fail")
  /\ IF cur[u] \in list
     THEN /\ list' = list \ {cur[u]}
          /\ Dec(cur[u])
     ELSE UNCHANGED <<list, ref>>
  /\ reports' = [reports EXCEPT ![cur[u]] = @ + 1]
  /\ Goto(u, "put")
  /\ UNCHANGED <<buf, pending, sig, queue, nextId, rest, born, hands>>

\* The call returns the error, unless rx_cb has been called with one already.
AsyncFails(u) ==
  /\ At(u, "fail")
  /\ IF cur[u] \in list
     THEN /\ list' = list \ {cur[u]}
          /\ Dec(cur[u])
          /\ reports' = [reports EXCEPT ![cur[u]] = @ + 1]
     ELSE UNCHANGED <<list, reports, ref>>
  /\ Goto(u, "put")
  /\ UNCHANGED <<buf, pending, sig, queue, nextId, rest, born, hands>>

\* The return; qmi_client_release waits for release_cb.
PutRef(u) ==
  /\ At(u, "put") \/ At(u, "put_handle")
  /\ PutClient
  /\ handles' = IF pc[u] = "put_handle" THEN handles \cup {cur[u]} ELSE handles
  /\ op' = [op EXCEPT ![u] = "none"]
  /\ cur' = [cur EXCEPT ![u] = Null]
  /\ Goto(u, IF op[u] = "release" THEN "blocked" ELSE "idle")
  /\ UNCHANGED <<valid, accepting, handle, opening, crashed, txnVars, network, lists,
                 errors, hands>>

Call(u) == \/ BeginCall(u) \/ NoTxn(u) \/ GetTxn(u) \/ Own(u) \/ Arm(u) \/ Check(u)
           \/ TakeRef(u) \/ Enqueue(u) \/ Refuse(u) \/ Wake(u) \/ TimeOut(u)
           \/ Invalidate(u) \/ RemoveSync(u) \/ DropOwn(u)
           \/ AsyncFails(u) \/ PutRef(u)

-----------------------------------------------------------------------------
(***************************************************************************)
(* qmi_client_delete_async_txn: the handle is compared, never followed.    *)
(***************************************************************************)

BeginDelete(u) ==
  /\ "delete" \in Ops[u] /\ GetRef(u, "delete")
  /\ \E t \in handles : cur' = [cur EXCEPT ![u] = t]
  /\ Goto(u, "del_queue")
  /\ UNCHANGED <<valid, accepting, handle, linked, opening, handles, crashed, txnVars,
                 network, lists, errors, hands>>

DeleteQueued(u) ==
  /\ At(u, "del_queue")
  /\ queue' = queue \ {cur[u]}
  /\ Carry(u, queue \cap {cur[u]})
  /\ Goto(u, IF cur[u] \in queue THEN "del_give" ELSE "del_list")
  /\ UNCHANGED <<list, nextId, work, rest, txnVars>>

DeleteGive(u) ==
  /\ At(u, "del_give")
  /\ Dec(cur[u])
  /\ Carry(u, {})
  /\ Goto(u, "del_list")
  /\ UNCHANGED <<buf, work, rest, born, result, lists>>

\* Mutant of DeleteListed: the transaction stays in the list.
DeleteListedStays(u) ==
  /\ At(u, "del_list")
  /\ IF cur[u] \in list
     THEN /\ Carry(u, {cur[u]})
          /\ reports' = [reports EXCEPT ![cur[u]] = @ + 1]
          /\ Goto(u, "del_drop")
     ELSE /\ Goto(u, "put")
          /\ UNCHANGED <<carry, reports>>
  /\ UNCHANGED <<list, buf, pending, sig, queue, nextId, work, ref, rest, born>>

\* Found: the call will succeed, and nobody else reports the transaction.
DeleteListed(u) ==
  /\ At(u, "del_list")
  /\ IF cur[u] \in list
     THEN /\ list' = list \ {cur[u]}
          /\ Carry(u, {cur[u]})
          /\ reports' = [reports EXCEPT ![cur[u]] = @ + 1]
          /\ Goto(u, "del_drop")
     ELSE /\ Goto(u, "put")
          /\ UNCHANGED <<list, carry, reports>>
  /\ UNCHANGED <<buf, pending, sig, queue, nextId, work, ref, rest, born>>

DeleteDrop(u) ==
  /\ At(u, "del_drop") /\ ~Locked(cur[u])
  /\ buf' = [buf EXCEPT ![cur[u]] = FALSE]
  /\ Dec(cur[u])
  /\ Carry(u, {})
  /\ Goto(u, "put")
  /\ UNCHANGED <<work, rest, born, result, lists>>

Delete(u) == \/ BeginDelete(u) \/ DeleteQueued(u) \/ DeleteGive(u)
             \/ DeleteListed(u) \/ DeleteDrop(u)

-----------------------------------------------------------------------------
(***************************************************************************)
(* qmi_client_release and qmi_client_release_async                         *)
(***************************************************************************)

\* qmi_client_release takes a reference and gives it up before it starts.
BeginRelease(u) ==
  /\ "release" \in Ops[u] /\ GetRef(u, "release")
  /\ Goto(u, "probe")
  /\ UNCHANGED <<valid, accepting, handle, linked, opening, handles, cur, crashed, txnVars,
                 network, lists, errors, hands>>

EndProbe(u) ==
  /\ At(u, "probe")
  /\ PutClient
  /\ Goto(u, "unlink")
  /\ UNCHANGED <<valid, accepting, handle, txnVars, network, app, lists, errors, hands>>

\* qmi_cci_get_ref with unlink, in qmi_client_release_async
Unlink(u) ==
  /\ At(u, "unlink") /\ linked
  /\ cref' = cref + 1
  /\ linked' = FALSE
  /\ Goto(u, "rel_stop")
  /\ UNCHANGED <<valid, accepting, handle, txnVars, network, app, lists, errors, hands>>

\* Another thread released the client.
NoRelease(u) ==
  /\ At(u, "unlink") /\ ~linked
  /\ op' = [op EXCEPT ![u] = "none"]
  /\ Goto(u, "idle")
  /\ UNCHANGED <<opening, handles, cur, crashed, txnVars, network, client, lists, errors,
                 hands>>

BeginReleaseAsync(u) ==
  /\ "release_async" \in Ops[u] /\ GetRef(u, "release_async")
  /\ linked' = FALSE
  /\ Goto(u, "rel_stop")
  /\ UNCHANGED <<valid, accepting, handle, opening, handles, cur, crashed, txnVars,
                 network, lists, errors, hands>>

\* Mutant of ReleaseStop: the calls under way are not ended.
ReleaseStopOnly(u) ==
  /\ At(u, "rel_stop")
  /\ accepting' = FALSE
  /\ Goto(u, "rel_close")
  /\ UNCHANGED <<valid, handle, linked, cref, txnVars, network, app, lists, errors,
                 hands>>

ReleaseStop(u) ==
  /\ At(u, "rel_stop")
  /\ accepting' = FALSE
  /\ Goto(u, "cu_queue")
  /\ UNCHANGED <<valid, handle, linked, cref, txnVars, network, app, lists, errors,
                 hands>>

ReleaseClose(u) ==
  /\ At(u, "rel_close")
  /\ handle' = FALSE
  /\ closing' = TRUE
  /\ Goto(u, "put")
  /\ UNCHANGED <<valid, accepting, linked, cref, server, notice, waiting, attached,
                 requests, txnVars, app, lists, errors, hands>>

\* release_cb_internal, called when the client is freed
Unblock(u) ==
  /\ At(u, "blocked") /\ cref = 0
  /\ Goto(u, "idle")
  /\ UNCHANGED <<rest, txnVars, lists, hands>>

Release(u) == \/ BeginRelease(u) \/ EndProbe(u) \/ Unlink(u) \/ NoRelease(u)
              \/ BeginReleaseAsync(u) \/ ReleaseStop(u) \/ ReleaseClose(u) \/ Unblock(u)

-----------------------------------------------------------------------------
(***************************************************************************)
(* qmi_client_register_error_cb                                            *)
(***************************************************************************)

BeginRegister(u) ==
  /\ "register" \in Ops[u] /\ GetRef(u, "register")
  /\ Goto(u, "reg")
  /\ UNCHANGED <<valid, accepting, handle, linked, opening, handles, cur, crashed,
                 txnVars, network, lists, errors, hands>>

RegisterErrorCb(u) ==
  /\ At(u, "reg")
  /\ errCb' = TRUE
  /\ Goto(u, IF errPending THEN "reg_call" ELSE "put")
  /\ UNCHANGED <<errPending, told, txnVars, network, client, app, lists, hands>>

RegisterCall(u) ==
  /\ At(u, "reg_call")
  /\ told' = TRUE
  /\ Goto(u, "put")
  /\ UNCHANGED <<errCb, errPending, txnVars, network, client, app, lists, hands>>

Register(u) == BeginRegister(u) \/ RegisterErrorCb(u) \/ RegisterCall(u)

-----------------------------------------------------------------------------
(***************************************************************************)
(* The router's threads                                                    *)
(***************************************************************************)

\* Mutant of LoseServer: the address stays valid.
LoseServerKeepsAddress ==
  /\ attached /\ notice /\ At(Loss, "idle")
  /\ notice' = FALSE
  /\ crashed' = (opening = "live")
  /\ IF valid
     THEN Goto(Loss, "cu_queue")
     ELSE UNCHANGED pc
  /\ UNCHANGED <<server, waiting, attached, closing, requests, opening, handles, op, cur,
                 txnVars, client, lists, errors, hands>>

\* qmi_cci_xport_event_server_error.  It follows the head of clnt->xport, which is empty
\* from the opening of the port to LIST_ADD (AddXport).  The address is compared without a
\* lock; until qmi_client_init has filled it in, it is that of no server.
LoseServer ==
  /\ attached /\ notice /\ At(Loss, "idle")
  /\ notice' = FALSE
  /\ crashed' = (opening = "live")
  /\ IF valid
     THEN /\ valid' = FALSE
          /\ Goto(Loss, "cu_queue")
     ELSE UNCHANGED <<valid, pc>>
  /\ UNCHANGED <<accepting, handle, linked, cref, server, waiting, attached, closing,
                 requests, opening, handles, op, cur, txnVars, lists, errors, hands>>

\* Mutant of Notify: an error nobody listens to is forgotten.
NotifyDrops ==
  /\ At(Loss, "notify")
  /\ IF errCb THEN Goto(Loss, "err_call")
     ELSE Goto(Loss, "idle")
  /\ UNCHANGED <<rest, txnVars, lists, hands>>

Notify ==
  /\ At(Loss, "notify")
  /\ IF errCb THEN Goto(Loss, "err_call") /\ UNCHANGED errPending
     ELSE errPending' = TRUE /\ Goto(Loss, "idle")
  /\ UNCHANGED <<errCb, told, txnVars, network, client, app, lists, hands>>

ErrorCall ==
  /\ At(Loss, "err_call")
  /\ told' = TRUE
  /\ Goto(Loss, "idle")
  /\ UNCHANGED <<errCb, errPending, txnVars, network, client, app, lists, hands>>

\* RESUME_TX
Resume ==
  /\ attached /\ waiting /\ At(Resumer, "idle")
  /\ waiting' = FALSE
  /\ Goto(Resumer, "fl_addr")
  /\ UNCHANGED <<server, notice, attached, closing, requests, txnVars, client, app,
                 lists, errors, hands>>

\* Mutant of Closed: the transport's reference is kept.
ClosedKeepsRef ==
  /\ attached /\ closing
  /\ \A th \in {Loss, Resumer, Rx} : At(th, "idle")
  /\ attached' = FALSE
  /\ UNCHANGED <<server, notice, waiting, closing, requests, pc, txnVars, client, app,
                 lists, errors, hands>>

\* CLOSED, the last event of a transport: its reference is given up.
Closed ==
  /\ attached /\ closing
  /\ \A th \in {Loss, Resumer, Rx} : At(th, "idle")
  /\ attached' = FALSE
  /\ PutClient
  /\ UNCHANGED <<valid, accepting, handle, server, notice, waiting, closing, requests,
                 pc, txnVars, app, lists, errors, hands>>

\* qmi_cci_xport_recv: the answer to a request comes in, late or not.
Receive ==
  /\ attached /\ At(Rx, "idle")
  /\ \E m \in requests :
        /\ requests' = requests \ {m}
        /\ \/ \E t \in list :
                 /\ id[t] = m.id
                 /\ list' = list \ {t}
                 /\ Carry(Rx, {t})
                 /\ work' = [work EXCEPT ![Rx] = t]
                 /\ cur' = [cur EXCEPT ![Rx] = m.for]
                 /\ Goto(Rx, "found")
           \/ /\ \A t \in list : id[t] # m.id
              /\ UNCHANGED <<list, cur, pc, hands>>
  /\ UNCHANGED <<queue, nextId, server, notice, waiting, attached, closing, opening,
                 handles, op, crashed, txnVars, client, errors>>

\* An answer with another msg_id than the request's
Mismatch ==
  /\ At(Rx, "found") /\ "match" \in Faults
  /\ Fail(work[Rx])
  /\ Goto(Rx, "rx_drop")
  /\ UNCHANGED <<buf, ref, rest, born, lists, hands>>

LockTxn ==
  /\ At(Rx, "found")
  /\ Goto(Rx, IF buf[work[Rx]] THEN "decode" ELSE "rx_drop")
  /\ UNCHANGED <<rest, txnVars, lists, hands>>

Decode ==
  /\ At(Rx, "decode")
  /\ LET t == work[Rx]
     IN /\ pending' = [pending EXCEPT ![t] = FALSE]
        /\ IF kind[t] \in Sync
           THEN sig' = [sig EXCEPT ![t] = TRUE] /\ UNCHANGED reports
           ELSE reports' = [reports EXCEPT ![t] = @ + 1] /\ UNCHANGED sig
  /\ Goto(Rx, "rx_drop")
  /\ UNCHANGED <<buf, ref, rest, born, lists, hands>>

ReceiveDrop ==
  /\ At(Rx, "rx_drop")
  /\ Dec(work[Rx])
  /\ work' = [work EXCEPT ![Rx] = Null]
  /\ cur' = [cur EXCEPT ![Rx] = Null]
  /\ Carry(Rx, {})
  /\ Goto(Rx, "idle")
  /\ UNCHANGED <<buf, opening, handles, op, crashed, network, client, born, result,
                 lists, errors>>

Router == \/ LoseServer \/ Notify \/ ErrorCall \/ Resume \/ Closed
          \/ Receive \/ Mismatch \/ LockTxn \/ Decode \/ ReceiveDrop

-----------------------------------------------------------------------------
(***************************************************************************)
(* qmi_client_init, by a thread of its own, and the server                 *)
(***************************************************************************)

\* ops->open: the port is open and its events reach the client.
OpenPort ==
  /\ opening = "open"
  /\ \/ /\ attached' = TRUE
        /\ cref' = cref + 1
        /\ opening' = "live"
        /\ UNCHANGED linked
     \/ /\ cref' = cref - 1 /\ linked' = FALSE
        /\ opening' = "failed"
        /\ UNCHANGED attached
  /\ UNCHANGED <<valid, accepting, handle, server, notice, waiting, closing, requests,
                 handles, op, cur, crashed, pc, txnVars, lists, errors, hands>>

\* The transport is put in clnt->xport.
AddXport ==
  /\ opening = "live" /\ ~crashed
  /\ handle' = TRUE
  /\ opening' = "fill"
  /\ UNCHANGED <<valid, accepting, linked, cref, handles, op, cur, crashed, pc, txnVars,
                 network, lists, errors, hands>>

FillAddress ==
  /\ opening = "fill"
  /\ valid' = TRUE
  /\ opening' = "lookup"
  /\ UNCHANGED <<accepting, handle, linked, cref, handles, op, cur, crashed, pc, txnVars,
                 network, lists, errors, hands>>

\* Mutant of LookupAgain: the result of the second look-up is not used.
LookupAgainTrusts ==
  /\ opening = "lookup"
  /\ PutClient
  /\ opening' = "done"
  /\ UNCHANGED <<valid, accepting, handle, handles, op, cur, crashed, pc, txnVars,
                 network, lists, errors, hands>>

\* The server is looked up again; without it, or without memory for the list of the
\* servers, the transport is closed.
LookupAgain ==
  /\ opening = "lookup"
  /\ PutClient
  /\ \/ /\ server = "up"
        /\ opening' = "done"
        /\ UNCHANGED closing
     \/ /\ server = "gone" \/ "alloc" \in Faults
        /\ opening' = "failed"
        /\ closing' = TRUE
  /\ UNCHANGED <<valid, accepting, handle, server, notice, waiting, attached, requests,
                 handles, op, cur, crashed, pc, txnVars, lists, errors, hands>>

\* The server is taken out of the table and every open port is told.
ServerGone ==
  /\ server = "up"
  /\ server' = "gone"
  /\ notice' = attached
  /\ UNCHANGED <<waiting, attached, closing, requests, pc, txnVars, client, app, lists,
                 errors, hands>>

Opening == OpenPort \/ AddXport \/ FillAddress \/ LookupAgain

-----------------------------------------------------------------------------

Init ==
  /\ used = {}
  /\ kind = [t \in Txns |-> "async"]
  /\ id = [t \in Txns |-> 0]
  /\ ref = [t \in Txns |-> 0]
  /\ buf = [t \in Txns |-> FALSE]
  /\ pending = [t \in Txns |-> FALSE]
  /\ sig = [t \in Txns |-> FALSE]
  /\ reports = [t \in Txns |-> 0]
  /\ list = {} /\ queue = {} /\ nextId = 1
  /\ valid = FALSE /\ accepting = TRUE /\ handle = FALSE /\ linked = TRUE /\ cref = 1
  /\ errCb = FALSE /\ errPending = FALSE /\ told = FALSE
  /\ server = "up" /\ notice = FALSE /\ waiting = FALSE
  /\ attached = FALSE /\ closing = FALSE /\ requests = {}
  /\ opening = "open" /\ handles = {} /\ crashed = FALSE
  /\ pc = [th \in Threads |-> "idle"]
  /\ op = [th \in Threads |-> IF th = Loss THEN "loss" ELSE "none"]
  /\ cur = [th \in Threads |-> Null]
  /\ carry = [th \in Threads |-> {}]
  /\ work = [th \in Threads |-> Null]

Next ==
  \/ \E u \in Users : Call(u) \/ Delete(u) \/ Release(u) \/ Register(u)
  \/ \E th \in Users \cup {Loss, Resumer} : Cleanup(th) \/ Flush(th)
  \/ Router \/ Opening \/ ServerGone

Spec == Init /\ [][Next]_vars

\* Threads run; time-outs expire; the router delivers its events.
Fairness ==
  /\ \A u \in Users :
        /\ WF_vars(Cleanup(u) \/ Flush(u))
        /\ WF_vars(pc[u] # "idle" /\ (Call(u) \/ Delete(u) \/ Release(u) \/ Register(u)))
  /\ \A th \in {Loss, Resumer} : WF_vars(Cleanup(th) \/ Flush(th))
  /\ WF_vars(LoseServer) /\ WF_vars(Notify \/ ErrorCall) /\ WF_vars(Closed)
  /\ WF_vars(Mismatch \/ LockTxn \/ Decode \/ ReceiveDrop)

FairSpec == Spec /\ Fairness

-----------------------------------------------------------------------------
(***************************************************************************)
(* Properties                                                              *)
(***************************************************************************)

Pcs == {"idle", "enter", "own", "arm", "check", "ref", "queue", "wait", "fail", "inval",
        "remove", "drop", "put", "put_handle", "cu_queue", "cu_give", "cu_fail", "cu_drop",
        "fl_addr", "fl_send", "fl_sent", "fl_bad", "fl_log", "fl_fail", "fl_drop",
        "del_queue", "del_give", "del_list", "del_drop", "probe", "unlink",
        "rel_stop", "rel_close", "blocked",
        "reg", "reg_call", "notify", "err_call", "found", "decode", "rx_drop"}
OpNames == Calls \cup {"delete", "register", "release", "release_async", "loss", "none"}

One(b) == IF b THEN 1 ELSE 0

\* The variables have their types; the next transaction id is never 0.
TypeOK ==
  /\ used \subseteq Txns
  /\ kind \in [Txns -> Calls] /\ id \in [Txns -> 0..MaxId] /\ ref \in [Txns -> Int]
  /\ buf \in [Txns -> BOOLEAN] /\ sig \in [Txns -> BOOLEAN]
  /\ pending \in [Txns -> BOOLEAN]
  /\ reports \in [Txns -> Nat]
  /\ list \subseteq Txns /\ queue \subseteq Txns
  /\ nextId \in 1..MaxId
  /\ valid \in BOOLEAN /\ accepting \in BOOLEAN /\ handle \in BOOLEAN /\ linked \in BOOLEAN
  /\ cref \in Int
  /\ errCb \in BOOLEAN /\ errPending \in BOOLEAN /\ told \in BOOLEAN
  /\ server \in {"up", "gone"} /\ notice \in BOOLEAN /\ waiting \in BOOLEAN
  /\ attached \in BOOLEAN /\ closing \in BOOLEAN
  /\ requests \subseteq [id : 0..MaxId, for : Txns]
  /\ opening \in {"open", "live", "fill", "lookup", "done", "failed"}
  /\ handles \subseteq Txns /\ crashed \in BOOLEAN
  /\ pc \in [Threads -> Pcs] /\ op \in [Threads -> OpNames]
  /\ cur \in [Threads -> Txns \cup {Null}] /\ work \in [Threads -> Txns \cup {Null}]
  /\ carry \in [Threads -> SUBSET Txns]

\* The references on transaction t
Callers(t) == {u \in Users : Owning(u) /\ cur[u] = t}
Carriers(t) == {th \in Threads : t \in carry[th]}
References(t) == One(t \in list) + One(t \in queue)
                   + Cardinality(Callers(t)) + Cardinality(Carriers(t))

\* ref_count of a transaction is the number of its references, so that what a list or a
\* thread holds is never freed under it, and what nobody holds is freed: across time-out,
\* late answer, send error, cancellation, loss of the server and release.
RefsExact == ~crashed => \A t \in Txns : ref[t] = References(t)

\* The client is freed when its last user is gone: the count is the transport, the
\* initialization and the calls under way.
ClientRefsExact ==
  cref = Cardinality({u \in Users : pc[u] \notin {"idle", "unlink", "blocked"}})
           + One(attached) + One(opening \in {"open", "live", "fill", "lookup"})

\* The answer is decoded into the buffer of the request it belongs to, and never after the
\* call returned, the callback was called or the transaction was cancelled: the buffer is
\* the application's again then (a late answer against a time-out or a cancellation).
NoLateWrite ==
  pc[Rx] = "decode" => reports[work[Rx]] = 0 /\ work[Rx] = cur[Rx]

\* The outcome of a transaction is reported once, by whichever of answer, error, failure
\* of the call, cancellation and time-out comes first, and none is freed without (but for
\* the request of a synchronous call that has no reference of its own yet).
ReportedOnce ==
  \A t \in Txns :
    /\ reports[t] <= 1
    /\ t \in used \ live /\ ~crashed =>
         reports[t] = 1 \/ \E u \in Users : pc[u] = "own" /\ cur[u] = t

\* A synchronous call waits only while its answer can still come: it is in txn_list, or
\* its outcome is there and its signal set, or a thread that took it out is about to set it.
WaiterHasWaker ==
  \A u \in Users : pc[u] = "wait" =>
    LET t == cur[u]
    IN \/ t \in list
       \/ sig[t] /\ ~pending[t]
       \/ \E th \in Threads : /\ t \in carry[th]
                              /\ \/ pc[th] = "cu_fail" \/ (pc[th] = "cu_drop" /\ work[th] # t)
                                 \/ pc[th] \in {"fl_fail", "found", "decode"} /\ work[th] = t

\* A server that is lost while the client connects to it is noticed by the second look-up
\* or by its event: a connected client never keeps the address of a server that is gone.
\* The event crashes the program if it comes between the opening of the port and the
\* listing of the transport; no other step of qmi_client_init does.
LossIsNoticed ==
  /\ opening = "done" /\ server = "gone" /\ attached /\ ~notice => ~valid
  /\ crashed /\ opening # "done" => opening = "live" /\ server = "gone"

\* The loss of the server reaches the error callback, registered before or after it.
LossIsReported ==
  (/\ ~crashed /\ errCb /\ attached
   /\ opening = "done" /\ server = "gone" /\ ~notice /\ pc[Loss] = "idle"
   /\ \A u \in Users : pc[u] # "reg_call")
    => told

\* A synchronous call returns when the server is lost or the client is released, also one
\* without a time-out.
SyncCallsEnd ==
  \A u \in Users :
    pc[u] = "wait" /\ (server = "gone" \/ ~accepting) ~> pc[u] # "wait" \/ crashed

\* A released client is freed in the end, and qmi_client_release returns.
ReleaseCompletes == ~accepting ~> crashed \/ (cref = 0 /\ \A u \in Users : pc[u] # "blocked")

\* A transaction is live whenever its call takes a reference, and when a send error is
\* logged with its ids.
NoUseAfterFree ==
  /\ \A u \in Users : pc[u] \in {"own", "ref"} => cur[u] \in live
  /\ \A th \in Threads : pc[th] = "fl_log" => work[th] \in live
=============================================================================
