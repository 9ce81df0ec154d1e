---------------------------- MODULE QmiClientSafety ----------------------------
(***************************************************************************)
(* QmiClient for any number of threads and transactions: the outcome of a  *)
(* transaction is reported once, no answer is written too late, no waiting *)
(* call is forgotten, and the loss of the server is told.                  *)
(*                                                                         *)
(* A step is one thread's, and does one of few things to the transactions: *)
(* the actions are looked at once, in Effects, and the invariants are      *)
(* proved of these effects.  A transaction is in txn_list or with the one  *)
(* thread that took it out, which owes its outcome (Settled); ids differ,  *)
(* so that an answer finds its own request (Identified); every stage of a  *)
(* synchronous call knows who will wake it (Woken); a client that lost its *)
(* server has told it, or will (Telling).                                  *)
(*                                                                         *)
(* Where ids matter, FewCalls says that none is used twice.                *)
(***************************************************************************)
EXTENDS QmiClientProofs

USE QmiAssumption DEF At, Goto, Carry

-----------------------------------------------------------------------------
(***************************************************************************)
(* Who has a transaction that was in txn_list                              *)
(***************************************************************************)

\* Thread th took t out of txn_list and has the list's reference,
Took(th, t) ==
  /\ t \in carry[th]
  /\ pc[th] \in {"cu_fail", "cu_drop", "fl_fail", "fl_drop", "found", "decode", "rx_drop",
                  "del_drop"}

\* and has not reported its outcome yet.
Owes(th, t) ==
  /\ t \in carry[th]
  /\ \/ pc[th] = "cu_fail"
     \/ pc[th] = "cu_drop" /\ work[th] # t
     \/ pc[th] \in {"fl_fail", "found", "decode"} /\ work[th] = t

\* The outcome of t is still to be reported by a thread other than its caller's.
Due(t) == t \in list \/ \E th \in Threads : Owes(th, t)

\* Thread u is in a synchronous call that has a transaction.
Calling(u) == op[u] \in Sync /\ pc[u] \notin {"enter", "put"}

\* It has not invalidated its buffer yet.
Waits(u) == Calling(u) /\ pc[u] \notin {"remove", "drop"}

\* The synchronous call of t is under way, or still waits for its outcome.
HasCaller(t) == \E u \in Users : Calling(u) /\ cur[u] = t
HasWaiter(t) == \E u \in Users : Waits(u) /\ cur[u] = t

\* A transaction is in txn_list or with one thread.
OneHolder ==
  \A t \in Txns : /\ t \in list => \A th \in Threads : ~Took(th, t)
                  /\ \A th, x \in Threads : Took(th, t) /\ Took(x, t) => th = x

\* Calls work on transactions of their kind; handles are of asynchronous ones.
Kinds ==
  /\ \A u \in Users : /\ HasTxn(u) => kind[cur[u]] = op[u]
                      /\ pc[u] \in DeletePcs => kind[cur[u]] = "async"
  /\ \A t \in handles : kind[t] = "async"

\* What was reported, and what is still to be
ReportOf(t) ==
  reports[t] = IF \/ t \notin used
                  \/ kind[t] = "async" /\ Due(t)
                  \/ kind[t] \in Sync /\ HasCaller(t)
               THEN 0 ELSE 1
Reported == \A t \in Txns : ReportOf(t)

\* A buffer is set as long as an answer may be decoded into it.
Buffers ==
  /\ \A t \in Txns : Due(t) /\ (kind[t] = "async" \/ HasWaiter(t)) => buf[t]
  /\ \A t \in used : kind[t] \in Sync /\ buf[t] => HasWaiter(t)
  /\ pc[Rx] = "decode" => buf[work[Rx]]

\* There are at most as many calls as ids.
FewCalls == IsFiniteSet(Txns) /\ Cardinality(Txns) <= MaxId

\* Ids are given out in turn, and are not used again.
Ids ==
  /\ IsFiniteSet(used)
  /\ nextId = IF Cardinality(used) = MaxId THEN 1 ELSE Cardinality(used) + 1
  /\ \A t \in used : id[t] \in 1..Cardinality(used)
  /\ \A t, x \in used : id[t] = id[x] => t = x

\* Requests under way are those of transactions that were queued.
Sent ==
  /\ \A m \in requests : m.for \in used /\ m.id = id[m.for]
  /\ \A th \in Threads : pc[th] \in {"fl_sent", "fl_bad", "fl_log"} => work[th] \in used
  /\ \A u \in Users : pc[u] \in Early =>
       /\ \A m \in requests : m.for # cur[u]
       /\ \A th \in Threads : pc[th] \in {"fl_sent", "fl_bad", "fl_log"} => work[th] # cur[u]

Answered == pc[Rx] \in {"found", "decode"} => cur[Rx] = work[Rx]

\* Before the client has its address nothing happens,
Unopened ==
  opening \in {"open", "live", "fill"} =>
    ~valid /\ ~waiting /\ requests = {} /\ \A th \in Threads : pc[th] = "idle"

\* and the lists are cleaned up when it has lost it, or is released.
Cleaning == \A th \in Threads : pc[th] \in CleanupPcs => ~valid \/ ~accepting

\* The call of u will be woken.
Awaited(u) == Due(cur[u]) \/ (sig[cur[u]] /\ ~pending[cur[u]])

\* What each stage of a synchronous call knows
Stages ==
  \A u \in Users :
    /\ pc[u] \in {"own", "arm"} => cur[u] \in list \/ ~valid \/ ~accepting
    /\ pc[u] = "check" /\ op[u] \in Sync => Awaited(u) \/ ~valid \/ ~accepting
    /\ pc[u] \in {"ref", "queue"} /\ op[u] \in Sync => Awaited(u) \/ ~accepting
    /\ pc[u] \in FlushPcs \cup CleanupPcs \cup {"wait"} /\ op[u] \in Sync => Awaited(u)

-----------------------------------------------------------------------------
(***************************************************************************)
(* What a step of one thread does to the holders of transactions           *)
(***************************************************************************)

Only(th) ==
  \A x \in Threads \ {th} : /\ pc'[x] = pc[x] /\ op'[x] = op[x] /\ cur'[x] = cur[x]
                            /\ carry'[x] = carry[x] /\ work'[x] = work[x]

SameHands(th) ==
  \A t \in Txns : /\ Took(th, t)' <=> Took(th, t)
                  /\ Owes(th, t)' <=> Owes(th, t)

SameCall(th) ==
  th \in Users => /\ Calling(th)' <=> Calling(th)
                  /\ Waits(th)' <=> Waits(th)
                  /\ Calling(th) => cur'[th] = cur[th]

SameOutcome == sig' = sig /\ pending' = pending /\ reports' = reports

\* The step makes no transaction and touches no buffer and no call's stage.
Calm(th) == used' = used /\ kind' = kind /\ buf' = buf /\ SameCall(th)

\* Nothing happens to a transaction, but for the signal of the thread's own
Quiet(th) == Calm(th) /\ list' = list /\ SameHands(th) /\ SameOutcome

\* GetTxn
Born(u) ==
  /\ u \in Users /\ op[u] \in Calls /\ op'[u] = op[u] /\ pc[u] = "enter"
  /\ \E t \in Txns \ used : /\ used' = used \cup {t} /\ list' = list \cup {t}
                            /\ kind' = [kind EXCEPT ![t] = op[u]]
                            /\ buf' = [buf EXCEPT ![t] = TRUE]
                            /\ cur'[u] = t
  /\ op[u] \in Sync => Waits(u)'
  /\ op[u] \notin Sync => ~Calling(u)'
  /\ SameHands(u) /\ SameOutcome

\* Arm, Wake, TimeOut
Signalled(u) ==
  /\ u \in Users /\ op[u] \in Sync /\ Waits(u)
  /\ Calm(u) /\ list' = list /\ SameHands(u) /\ reports' = reports
  /\ sig' = [sig EXCEPT ![cur[u]] = FALSE]
  /\ \A t \in Txns : t # cur[u] => pending'[t] = pending[t]
  /\ \/ pc[u] = "arm"
     \/ pc[u] = "wait" /\ (pc'[u] = "inval" \/ (pc'[u] = "wait" /\ pending[cur[u]]))

\* CleanupList, FlushFind, Receive
TakesOut(th) ==
  /\ Calm(th) /\ SameOutcome /\ list' \subseteq list
  /\ \A t \in Txns : /\ ~Took(th, t)
                     /\ Took(th, t)' <=> t \in list \ list'
                     /\ Owes(th, t)' <=> t \in list \ list'
  /\ \/ pc[th] \in CleanupPcs
     \/ pc[th] = "fl_log" /\ list' = list \ {work[th]}
     \/ \E m \in requests : \E t \in list : id[t] = m.id /\ list' = list \ {t}

\* DeleteListed
Cancels(u) ==
  /\ u \in Users /\ Calm(u) /\ pc[u] = "del_list" /\ cur[u] \in list /\ list' = list \ {cur[u]}
  /\ sig' = sig /\ pending' = pending /\ reports' = [reports EXCEPT ![cur[u]] = @ + 1]
  /\ \A t \in Txns : ~Took(u, t) /\ ~Owes(u, t)' /\ (Took(u, t)' <=> t = cur[u])

\* CleanupFail, FlushFail, Mismatch, Decode
Settles1(th) ==
  /\ Calm(th) /\ list' = list
  /\ \E t \in Txns :
       /\ Owes(th, t) /\ ~Owes(th, t)'
       /\ \A x \in Txns : /\ Took(th, x)' <=> Took(th, x)
                          /\ x # t => /\ Owes(th, x)' <=> Owes(th, x)
                                      /\ sig'[x] = sig[x] /\ pending'[x] = pending[x]
       /\ ~pending'[t]
       /\ \/ kind[t] \in Sync /\ sig'[t] /\ reports' = reports
          \/ kind[t] \notin Sync /\ reports' = [reports EXCEPT ![t] = @ + 1]

\* LockTxn, when the buffer is the application's again
Misses(th) ==
  /\ Calm(th) /\ list' = list /\ SameOutcome
  /\ \E t \in Txns : /\ Owes(th, t) /\ ~Owes(th, t)' /\ ~buf[t]
                     /\ \A x \in Txns : /\ Took(th, x)' <=> Took(th, x)
                                        /\ x # t => (Owes(th, x)' <=> Owes(th, x))

\* CleanupDrop, FlushDrop, DeleteDrop, ReceiveDrop
GivesUp(th) ==
  /\ used' = used /\ kind' = kind /\ SameCall(th) /\ list' = list /\ SameOutcome
  /\ \E t \in Txns : /\ Took(th, t) /\ ~Owes(th, t)
                     /\ \A x \in Txns : /\ Took(th, x)' <=> Took(th, x) /\ x # t
                                        /\ Owes(th, x)' <=> Owes(th, x)
                     /\ buf' = buf \/ (buf' = [buf EXCEPT ![t] = FALSE] /\ ~Locked(t))

\* Invalidate
Invalidates(u) ==
  /\ u \in Users /\ used' = used /\ kind' = kind /\ list' = list /\ SameHands(u) /\ SameOutcome
  /\ Waits(u) /\ ~Waits(u)' /\ Calling(u)' /\ cur'[u] = cur[u]
  /\ buf' = [buf EXCEPT ![cur[u]] = FALSE] /\ ~Locked(cur[u])

\* RemoveSync and AsyncFails, when nobody else took the transaction out
Withdraws(u) ==
  /\ u \in Users /\ Calm(u) /\ SameHands(u) /\ sig' = sig /\ pending' = pending
  /\ cur[u] \in list /\ list' = list \ {cur[u]}
  /\ \/ pc[u] = "remove" /\ op[u] \in Sync /\ reports' = reports
     \/ pc[u] = "fail" /\ op[u] = "async" /\ reports' = [reports EXCEPT ![cur[u]] = @ + 1]

\* DropOwn
Returns(u) ==
  /\ u \in Users /\ op[u] \in Sync /\ used' = used /\ kind' = kind /\ buf' = buf
  /\ list' = list /\ SameHands(u) /\ sig' = sig /\ pending' = pending
  /\ Calling(u) /\ ~Waits(u) /\ ~Calling(u)'
  /\ reports' = [reports EXCEPT ![cur[u]] = @ + 1]

Effect(th) ==
  \/ Quiet(th) \/ Born(th) \/ Signalled(th) \/ TakesOut(th) \/ Cancels(th) \/ Settles1(th)
  \/ Misses(th) \/ GivesUp(th) \/ Invalidates(th) \/ Withdraws(th) \/ Returns(th)

-----------------------------------------------------------------------------
(***************************************************************************)
(* Where a step takes its thread, and what it does to the client           *)
(***************************************************************************)

SameTxn(th) == op'[th] = op[th] /\ cur'[th] = cur[th]

\* A call gets its transaction from memory not used yet; a handle is of an asynchronous call.
Assigned(th) ==
  /\ th \in Users =>
       /\ HasTxn(th)' => \/ HasTxn(th) /\ SameTxn(th)
                         \/ cur'[th] \in Txns \ used /\ kind'[cur'[th]] = op'[th]
       /\ pc'[th] \in DeletePcs => \/ pc[th] \in DeletePcs /\ SameTxn(th)
                                   \/ cur'[th] \in handles
       /\ pc'[th] \in Early => \/ pc[th] \in Early /\ SameTxn(th)
                               \/ cur'[th] \notin used
  /\ handles' = handles
       \/ (th \in Users /\ pc[th] = "put_handle" /\ handles' = handles \cup {cur[th]})

\* Ids are given out one after the other.
Numbered ==
  \/ used' = used /\ id' = id /\ nextId' = nextId
  \/ /\ \E t \in Txns \ used : used' = used \cup {t} /\ id' = [id EXCEPT ![t] = nextId]
     /\ nextId' = NextId

Flushed == {"fl_sent", "fl_bad", "fl_log"}

\* What is sent was queued; what is answered was sent.
Sends(th) ==
  /\ \A m \in requests' : m \in requests \/ (m.for \in queue /\ m.id = id[m.for])
  /\ pc'[th] \in Flushed => \/ pc[th] \in Flushed /\ work'[th] = work[th]
                            \/ work'[th] \in queue
  /\ pc'[th] \in {"found", "decode"} =>
       \/ pc[th] \in {"found", "decode"} /\ cur'[th] = cur[th] /\ work'[th] = work[th]
       \/ \E m \in requests : /\ id[work'[th]] = m.id
                              /\ work'[th] \in list /\ cur'[th] = m.for
  /\ pc'[th] = "decode" =>
       /\ pc[th] \in {"found", "decode"} /\ work'[th] = work[th]
       /\ pc[th] = "decode" \/ (buf[work[th]] /\ buf' = buf)

\* The client is connected once, and then loses its address or is released.
Opens(th) ==
  /\ accepting' => accepting
  /\ valid' => valid \/ (opening = "fill" /\ opening' = "lookup" /\ pc' = pc)
  /\ pc'[th] \in CleanupPcs => pc[th] \in CleanupPcs \/ ~valid' \/ ~accepting'
  /\ opening' \in {"open", "live", "fill"} =>
       /\ opening \in {"open", "live", "fill"}
       /\ pc'[th] # "idle" \/ waiting' \/ requests' # {}
            => pc[th] # "idle" \/ waiting \/ valid \/ requests # {}

\* The stages of a synchronous call
Staged(th) ==
  th \in Users =>
    /\ pc'[th] = "own" => (pc[th] = "own" /\ SameTxn(th)) \/ (cur'[th] \in list' \ list)
    /\ pc'[th] = "arm" => pc[th] \in {"own", "arm"} /\ SameTxn(th)
    /\ pc'[th] = "check" /\ op'[th] \in Sync => pc[th] \in {"arm", "check"} /\ SameTxn(th)
    /\ pc'[th] \in {"ref", "queue"} =>
         SameTxn(th) /\ (pc[th] \in {"ref", "queue"} \/ (pc[th] = "check" /\ valid))
    /\ pc'[th] \in FlushPcs \cup CleanupPcs \cup {"wait"} /\ op'[th] \in Sync =>
         /\ SameTxn(th)
         /\ \/ pc[th] \in FlushPcs \cup CleanupPcs \cup {"wait"}
            \/ pc[th] = "queue" /\ accepting

LossPcs == {"idle", "notify", "err_call"} \cup CleanupPcs

\* The loss of the server on its way to the error callback
Reports(th) ==
  /\ errPending => errPending'
  /\ told => told'
  /\ valid /\ ~valid' => th = Loss /\ pc'[th] # "idle"
  /\ opening' \in {"lookup", "done"} => opening \in {"lookup", "done"} \/ valid'
  /\ th = Loss /\ op[th] = "loss" /\ pc[th] \in LossPcs =>
       /\ op'[th] = "loss" /\ pc'[th] \in LossPcs
       /\ pc[th] # "idle" /\ pc'[th] = "idle" => errPending' \/ told'
  /\ errCb' /\ errPending' =>
       (errCb /\ errPending) \/ (th \in Users /\ pc'[th] = "reg_call")
  /\ th \in Users /\ pc[th] = "reg_call" => told' \/ pc'[th] = "reg_call"

Moves(th) ==
  Assigned(th) /\ Numbered /\ Sends(th) /\ Opens(th) /\ Staged(th) /\ Reports(th)

\* Every step is one thread's, and does one of these things.
LEMMA Effects ==
  ASSUME TypeOK, Shape, OwnTxns, Next
  PROVE  \E th \in Threads : Only(th) /\ Effect(th) /\ Moves(th)
  <1> DEFINE Explained == \E x \in Threads : Only(x) /\ Effect(x) /\ Moves(x)
  <1>1. ASSUME NEW u \in Users, BeginCall(u) PROVE Explained
    <2>0. u \in Threads
      BY DEF Threads
    <2>1. Only(u)
      BY <1>1, <2>0 DEF Only, TypeOK, BeginCall, result, txnVars, lists, errors, network, hands,
         GetRef
    <2>2. /\ pc[u] = "idle"
          /\ pc'[u] = "enter"
          /\ cur'[u] = cur[u]
          /\ carry'[u] = carry[u]
          /\ work'[u] = work[u]
      BY <1>1, <2>0 DEF TypeOK, BeginCall, result, txnVars, lists, errors, network, hands,
         GetRef
    <2>3. CarryShape(u) /\ OpShape(u) /\ CurShape(u)
      BY <2>0 DEF Shape
    <2>m. Moves(u)
      BY <1>1, <2>0, <2>2, <2>3 DEF Moves, Assigned, Numbered, Sends, Opens, Staged, Reports,
         SameTxn, HasTxn, Early, Flushed, LossPcs, TypeOK, BeginCall, born, result, txnVars,
         lists, errors, network, hands, GetRef, OpShape, Calls, Sync, FlushPcs, CleanupPcs,
         DeletePcs, Ready
    <2>4. Quiet(u)
      BY <1>1, <2>0, <2>2, <2>3 DEF Quiet, Calm, SameHands, SameOutcome, SameCall, Took, Owes,
         Calling, Waits, TypeOK, BeginCall, born, result, txnVars, lists, errors, network,
         hands, GetRef, CarryShape, OpShape, Calls, Sync
    <2>5. QED
      BY <2>0, <2>1, <2>4, <2>m DEF Effect
  <1>2. ASSUME NEW u \in Users, NoTxn(u) PROVE Explained
    <2>0. u \in Threads
      BY DEF Threads
    <2>1. Only(u)
      BY <1>2, <2>0 DEF Only, TypeOK, NoTxn, result, txnVars, lists, client, errors, network,
         app, rest, hands
    <2>2. /\ pc[u] = "enter"
          /\ pc'[u] = "put"
          /\ op'[u] = op[u]
          /\ cur'[u] = cur[u]
          /\ carry'[u] = carry[u]
          /\ work'[u] = work[u]
      BY <1>2, <2>0 DEF TypeOK, NoTxn, result, txnVars, lists, client, errors, network, app,
         rest, hands
    <2>3. CarryShape(u) /\ OpShape(u) /\ CurShape(u)
      BY <2>0 DEF Shape
    <2>m. Moves(u)
      BY <1>2, <2>0, <2>2, <2>3 DEF Moves, Assigned, Numbered, Sends, Opens, Staged, Reports,
         SameTxn, HasTxn, Early, Flushed, LossPcs, TypeOK, NoTxn, born, result, txnVars, lists,
         client, errors, network, app, rest, hands, OpShape, Calls, Sync, FlushPcs, CleanupPcs,
         DeletePcs
    <2>4. Quiet(u)
      BY <1>2, <2>0, <2>2, <2>3 DEF Quiet, Calm, SameHands, SameOutcome, SameCall, Took, Owes,
         Calling, Waits, TypeOK, NoTxn, born, result, txnVars, lists, client, errors, network,
         app, rest, hands, CarryShape, OpShape, Calls, Sync
    <2>5. QED
      BY <2>0, <2>1, <2>4, <2>m DEF Effect
  <1>3. ASSUME NEW u \in Users, GetTxn(u) PROVE Explained
    <2>0. u \in Threads
      BY DEF Threads
    <2>1. Only(u)
      BY <1>3, <2>0 DEF Only, TypeOK, GetTxn, result, client, errors, network, hands
    <2>2. /\ pc[u] = "enter"
          /\ pc'[u] \in {"own", "check"}
          /\ op'[u] = op[u]
          /\ carry'[u] = carry[u]
          /\ work'[u] = work[u]
      BY <1>3, <2>0 DEF TypeOK, GetTxn, result, client, errors, network, hands
    <2>3. CarryShape(u) /\ OpShape(u) /\ CurShape(u)
      BY <2>0 DEF Shape
    <2>4. PICK t \in Txns \ used :
              /\ used' = used \cup {t} /\ list' = list \cup {t}
              /\ kind' = [kind EXCEPT ![t] = op[u]]
              /\ buf' = [buf EXCEPT ![t] = TRUE]
              /\ cur' = [cur EXCEPT ![u] = t]
      BY <1>3 DEF GetTxn
    <2>5. cur'[u] = t
      BY <2>0, <2>4 DEF TypeOK
    <2>6. SameHands(u) /\ SameOutcome
      BY <1>3, <2>0, <2>2, <2>3 DEF GetTxn, result, SameHands, SameOutcome, Took, Owes,
         CarryShape
    <2>7. op[u] \in Sync => Waits(u)'
      BY <1>3, <2>0, <2>2 DEF GetTxn, TypeOK, Waits, Calling
    <2>8. op[u] \notin Sync => ~Calling(u)'
      BY <2>2 DEF Calling
    <2>9. op[u] \in Calls
      BY <2>2, <2>3 DEF OpShape
    <2>10. Born(u)
      BY <2>2, <2>4, <2>5, <2>6, <2>7, <2>8, <2>9 DEF Born
    <2>11. \E x \in Txns \ used : used' = used \cup {x} /\ id' = [id EXCEPT ![x] = nextId]
      BY <1>3 DEF GetTxn
    <2>12. nextId' = NextId
      BY <1>3 DEF GetTxn
    <2>13. kind'[t] = op[u] /\ t \notin list
      BY <2>4 DEF TypeOK, Shape
    <2>14. Assigned(u)
      BY <1>3, <2>2, <2>4, <2>5, <2>13 DEF GetTxn, Assigned, DeletePcs, Early
    <2>15. Sends(u) /\ Opens(u) /\ Reports(u)
      BY <1>3, <2>2, <2>3 DEF GetTxn, network, client, errors, Sends, Opens, Reports, Flushed,
         CleanupPcs, LossPcs
    <2>16. Staged(u)
      BY <1>3, <2>0, <2>2, <2>3, <2>4, <2>5, <2>13 DEF GetTxn, TypeOK, Staged, FlushPcs,
         CleanupPcs
    <2>17. Numbered
      BY <2>11, <2>12 DEF Numbered
    <2>18. QED
      BY <2>0, <2>1, <2>10, <2>14, <2>15, <2>16, <2>17 DEF Effect, Moves
  <1>4. ASSUME NEW u \in Users, Own(u) PROVE Explained
    <2>0. u \in Threads
      BY DEF Threads
    <2>1. Only(u)
      BY <1>4, <2>0 DEF Only, TypeOK, Own, result, lists, client, errors, network, hands
    <2>2. /\ pc[u] = "own"
          /\ pc'[u] = "arm"
          /\ op'[u] = op[u]
          /\ cur'[u] = cur[u]
          /\ carry'[u] = carry[u]
          /\ work'[u] = work[u]
      BY <1>4, <2>0 DEF TypeOK, Own, result, lists, client, errors, network, hands
    <2>3. CarryShape(u) /\ OpShape(u) /\ CurShape(u)
      BY <2>0 DEF Shape
    <2>m. Moves(u)
      BY <1>4, <2>0, <2>2, <2>3 DEF Moves, Assigned, Numbered, Sends, Opens, Staged, Reports,
         SameTxn, HasTxn, Early, Flushed, LossPcs, TypeOK, Own, born, result, lists, client,
         errors, network, hands, OpShape, Calls, Sync, FlushPcs, CleanupPcs, DeletePcs
    <2>4. Quiet(u)
      BY <1>4, <2>0, <2>2, <2>3 DEF Quiet, Calm, SameHands, SameOutcome, SameCall, Took, Owes,
         Calling, Waits, TypeOK, Own, born, result, lists, client, errors, network, hands,
         CarryShape, OpShape, Calls, Sync
    <2>5. QED
      BY <2>0, <2>1, <2>4, <2>m DEF Effect
  <1>5. ASSUME NEW u \in Users, Arm(u) PROVE Explained
    <2>0. u \in Threads
      BY DEF Threads
    <2>1. Only(u)
      BY <1>5, <2>0 DEF Only, TypeOK, Arm, lists, client, errors, network, app, rest, hands
    <2>2. /\ pc[u] = "arm"
          /\ pc'[u] = "check"
          /\ op'[u] = op[u]
          /\ cur'[u] = cur[u]
          /\ carry'[u] = carry[u]
          /\ work'[u] = work[u]
      BY <1>5, <2>0 DEF TypeOK, Arm, lists, client, errors, network, app, rest, hands
    <2>3. CarryShape(u) /\ OpShape(u) /\ CurShape(u)
      BY <2>0 DEF Shape
    <2>m. Moves(u)
      BY <1>5, <2>0, <2>2, <2>3 DEF Moves, Assigned, Numbered, Sends, Opens, Staged, Reports,
         SameTxn, HasTxn, Early, Flushed, LossPcs, TypeOK, Arm, born, lists, client, errors,
         network, app, rest, hands, OpShape, Calls, Sync, FlushPcs, CleanupPcs, DeletePcs
    <2>4. Signalled(u)
      BY <1>5, <2>0, <2>2, <2>3 DEF Signalled, Calm, SameHands, SameOutcome, SameCall, Took,
         Owes, Calling, Waits, TypeOK, Arm, born, lists, client, errors, network, app, rest,
         hands, CarryShape, OpShape, Calls, Sync
    <2>5. QED
      BY <2>0, <2>1, <2>4, <2>m DEF Effect
  <1>6. ASSUME NEW u \in Users, Check(u) PROVE Explained
    <2>0. u \in Threads
      BY DEF Threads
    <2>1. Only(u)
      BY <1>6, <2>0 DEF Only, TypeOK, Check, result, txnVars, lists, client, errors, network,
         app, rest, hands, Failing
    <2>2. /\ pc[u] = "check"
          /\ pc'[u] \in {"inval", "fail", "ref"}
          /\ op'[u] = op[u]
          /\ cur'[u] = cur[u]
          /\ carry'[u] = carry[u]
          /\ work'[u] = work[u]
      BY <1>6, <2>0 DEF TypeOK, Check, result, txnVars, lists, client, errors, network, app,
         rest, hands, Failing
    <2>3. CarryShape(u) /\ OpShape(u) /\ CurShape(u)
      BY <2>0 DEF Shape
    <2>m. Moves(u)
      BY <1>6, <2>0, <2>2, <2>3 DEF Moves, Assigned, Numbered, Sends, Opens, Staged, Reports,
         SameTxn, HasTxn, Early, Flushed, LossPcs, TypeOK, Check, born, result, txnVars, lists,
         client, errors, network, app, rest, hands, Failing, OpShape, Calls, Sync, FlushPcs,
         CleanupPcs, DeletePcs
    <2>4. Quiet(u)
      BY <1>6, <2>0, <2>2, <2>3 DEF Quiet, Calm, SameHands, SameOutcome, SameCall, Took, Owes,
         Calling, Waits, TypeOK, Check, born, result, txnVars, lists, client, errors, network,
         app, rest, hands, Failing, CarryShape, OpShape, Calls, Sync
    <2>5. QED
      BY <2>0, <2>1, <2>4, <2>m DEF Effect
  <1>7. ASSUME NEW u \in Users, TakeRef(u) PROVE Explained
    <2>0. u \in Threads
      BY DEF Threads
    <2>1. Only(u)
      BY <1>7, <2>0 DEF Only, TypeOK, TakeRef, result, lists, client, errors, network
    <2>2. /\ pc[u] = "ref"
          /\ pc'[u] = "queue"
          /\ op'[u] = op[u]
          /\ cur'[u] = cur[u]
          /\ carry'[u] = {cur[u]}
          /\ work'[u] = work[u]
      BY <1>7, <2>0 DEF TypeOK, TakeRef, result, lists, client, errors, network
    <2>3. CarryShape(u) /\ OpShape(u) /\ CurShape(u)
      BY <2>0 DEF Shape
    <2>m. Moves(u)
      BY <1>7, <2>0, <2>2, <2>3 DEF Moves, Assigned, Numbered, Sends, Opens, Staged, Reports,
         SameTxn, HasTxn, Early, Flushed, LossPcs, TypeOK, TakeRef, born, result, lists, client,
         errors, network, OpShape, Calls, Sync, FlushPcs, CleanupPcs, DeletePcs
    <2>4. Quiet(u)
      BY <1>7, <2>0, <2>2, <2>3 DEF Quiet, Calm, SameHands, SameOutcome, SameCall, Took, Owes,
         Calling, Waits, TypeOK, TakeRef, born, result, lists, client, errors, network,
         CarryShape, OpShape, Calls, Sync
    <2>5. QED
      BY <2>0, <2>1, <2>4, <2>m DEF Effect
  <1>8. ASSUME NEW u \in Users, Enqueue(u) PROVE Explained
    <2>0. u \in Threads
      BY DEF Threads
    <2>1. Only(u)
      BY <1>8, <2>0 DEF Only, TypeOK, Enqueue, result, txnVars, client, errors, network, app,
         rest
    <2>2. /\ pc[u] = "queue"
          /\ pc'[u] = "fl_addr"
          /\ op'[u] = op[u]
          /\ cur'[u] = cur[u]
          /\ carry'[u] = {}
          /\ work'[u] = work[u]
      BY <1>8, <2>0 DEF TypeOK, Enqueue, result, txnVars, client, errors, network, app, rest
    <2>3. CarryShape(u) /\ OpShape(u) /\ CurShape(u)
      BY <2>0 DEF Shape
    <2>m. Moves(u)
      BY <1>8, <2>0, <2>2, <2>3 DEF Moves, Assigned, Numbered, Sends, Opens, Staged, Reports,
         SameTxn, HasTxn, Early, Flushed, LossPcs, TypeOK, Enqueue, born, result, txnVars,
         client, errors, network, app, rest, OpShape, Calls, Sync, CleanupPcs, DeletePcs
    <2>4. Quiet(u)
      BY <1>8, <2>0, <2>2, <2>3 DEF Quiet, Calm, SameHands, SameOutcome, SameCall, Took, Owes,
         Calling, Waits, TypeOK, Enqueue, born, result, txnVars, client, errors, network, app,
         rest, CarryShape, OpShape, Calls, Sync
    <2>5. QED
      BY <2>0, <2>1, <2>4, <2>m DEF Effect
  <1>9. ASSUME NEW u \in Users, Refuse(u) PROVE Explained
    <2>0. u \in Threads
      BY DEF Threads
    <2>1. Only(u)
      BY <1>9, <2>0 DEF Only, TypeOK, Refuse, result, lists, client, errors, network, app, rest,
         Failing
    <2>2. /\ pc[u] = "queue"
          /\ pc'[u] \in {"inval", "fail"}
          /\ op'[u] = op[u]
          /\ cur'[u] = cur[u]
          /\ carry'[u] = {}
          /\ work'[u] = work[u]
      BY <1>9, <2>0 DEF TypeOK, Refuse, result, lists, client, errors, network, app, rest,
         Failing
    <2>3. CarryShape(u) /\ OpShape(u) /\ CurShape(u)
      BY <2>0 DEF Shape
    <2>m. Moves(u)
      BY <1>9, <2>0, <2>2, <2>3 DEF Moves, Assigned, Numbered, Sends, Opens, Staged, Reports,
         SameTxn, HasTxn, Early, Flushed, LossPcs, TypeOK, Refuse, born, result, lists, client,
         errors, network, app, rest, Failing, OpShape, Calls, Sync, FlushPcs, CleanupPcs,
         DeletePcs
    <2>4. Quiet(u)
      BY <1>9, <2>0, <2>2, <2>3 DEF Quiet, Calm, SameHands, SameOutcome, SameCall, Took, Owes,
         Calling, Waits, TypeOK, Refuse, born, result, lists, client, errors, network, app,
         rest, Failing, CarryShape, OpShape, Calls, Sync
    <2>5. QED
      BY <2>0, <2>1, <2>4, <2>m DEF Effect
  <1>10. ASSUME NEW u \in Users, Wake(u) PROVE Explained
    <2>0. u \in Threads
      BY DEF Threads
    <2>1. Only(u)
      BY <1>10, <2>0 DEF Only, TypeOK, Wake, lists, client, errors, network, app, rest, hands
    <2>2. /\ pc[u] = "wait"
          /\ pc'[u] \in {"wait", "inval"}
          /\ op'[u] = op[u]
          /\ cur'[u] = cur[u]
          /\ carry'[u] = carry[u]
          /\ work'[u] = work[u]
      BY <1>10, <2>0 DEF TypeOK, Wake, lists, client, errors, network, app, rest, hands
    <2>3. CarryShape(u) /\ OpShape(u) /\ CurShape(u)
      BY <2>0 DEF Shape
    <2>m. Moves(u)
      BY <1>10, <2>0, <2>2, <2>3 DEF Moves, Assigned, Numbered, Sends, Opens, Staged, Reports,
         SameTxn, HasTxn, Early, Flushed, LossPcs, TypeOK, Wake, born, lists, client, errors,
         network, app, rest, hands, OpShape, Calls, Sync, CleanupPcs, DeletePcs
    <2>4. Signalled(u)
      BY <1>10, <2>0, <2>2, <2>3 DEF Signalled, Calm, SameHands, SameOutcome, SameCall, Took,
         Owes, Calling, Waits, TypeOK, Wake, born, lists, client, errors, network, app, rest,
         hands, CarryShape, OpShape, Calls, Sync
    <2>5. QED
      BY <2>0, <2>1, <2>4, <2>m DEF Effect
  <1>11. ASSUME NEW u \in Users, TimeOut(u) PROVE Explained
    <2>0. u \in Threads
      BY DEF Threads
    <2>1. Only(u)
      BY <1>11, <2>0 DEF Only, TypeOK, TimeOut, lists, client, errors, network, app, rest, hands
    <2>2. /\ pc[u] = "wait"
          /\ pc'[u] = "inval"
          /\ op'[u] = op[u]
          /\ cur'[u] = cur[u]
          /\ carry'[u] = carry[u]
          /\ work'[u] = work[u]
      BY <1>11, <2>0 DEF TypeOK, TimeOut, lists, client, errors, network, app, rest, hands
    <2>3. CarryShape(u) /\ OpShape(u) /\ CurShape(u)
      BY <2>0 DEF Shape
    <2>m. Moves(u)
      BY <1>11, <2>0, <2>2, <2>3 DEF Moves, Assigned, Numbered, Sends, Opens, Staged, Reports,
         SameTxn, HasTxn, Early, Flushed, LossPcs, TypeOK, TimeOut, born, lists, client, errors,
         network, app, rest, hands, OpShape, Calls, Sync, CleanupPcs, DeletePcs
    <2>4. Signalled(u)
      BY <1>11, <2>0, <2>2, <2>3 DEF Signalled, Calm, SameHands, SameOutcome, SameCall, Took,
         Owes, Calling, Waits, TypeOK, TimeOut, born, lists, client, errors, network, app, rest,
         hands, CarryShape, OpShape, Calls, Sync
    <2>5. QED
      BY <2>0, <2>1, <2>4, <2>m DEF Effect
  <1>12. ASSUME NEW u \in Users, Invalidate(u) PROVE Explained
    <2>0. u \in Threads
      BY DEF Threads
    <2>1. Only(u)
      BY <1>12, <2>0 DEF Only, TypeOK, Invalidate, result, lists, client, errors, network, app,
         rest, hands
    <2>2. /\ pc[u] = "inval"
          /\ pc'[u] = "remove"
          /\ op'[u] = op[u]
          /\ cur'[u] = cur[u]
          /\ carry'[u] = carry[u]
          /\ work'[u] = work[u]
      BY <1>12, <2>0 DEF TypeOK, Invalidate, result, lists, client, errors, network, app, rest,
         hands
    <2>3. CarryShape(u) /\ OpShape(u) /\ CurShape(u)
      BY <2>0 DEF Shape
    <2>m. Moves(u)
      BY <1>12, <2>0, <2>2, <2>3 DEF Moves, Assigned, Numbered, Sends, Opens, Staged, Reports,
         SameTxn, HasTxn, Early, Flushed, LossPcs, TypeOK, Invalidate, born, result, lists,
         client, errors, network, app, rest, hands, OpShape, Calls, Sync, FlushPcs, CleanupPcs,
         DeletePcs
    <2>4. Invalidates(u)
      BY <1>12, <2>0, <2>2, <2>3 DEF Invalidates, Calm, SameHands, SameOutcome, SameCall, Took,
         Owes, Calling, Waits, TypeOK, Invalidate, born, result, lists, client, errors, network,
         app, rest, hands, CarryShape, OpShape, Calls, Sync
    <2>5. QED
      BY <2>0, <2>1, <2>4, <2>m DEF Effect
  <1>13. ASSUME NEW u \in Users, RemoveSync(u) PROVE Explained
    <2>0. u \in Threads
      BY DEF Threads
    <2>1. Only(u)
      BY <1>13, <2>0 DEF Only, TypeOK, RemoveSync, result, client, errors, network, app, rest,
         hands
    <2>2. /\ pc[u] = "remove"
          /\ pc'[u] = "drop"
          /\ op'[u] = op[u]
          /\ cur'[u] = cur[u]
          /\ carry'[u] = carry[u]
          /\ work'[u] = work[u]
      BY <1>13, <2>0 DEF TypeOK, RemoveSync, result, client, errors, network, app, rest, hands
    <2>3. CarryShape(u) /\ OpShape(u) /\ CurShape(u)
      BY <2>0 DEF Shape
    <2>m. Moves(u)
      BY <1>13, <2>0, <2>2, <2>3 DEF Moves, Assigned, Numbered, Sends, Opens, Staged, Reports,
         SameTxn, HasTxn, Early, Flushed, LossPcs, TypeOK, RemoveSync, born, result, client,
         errors, network, app, rest, hands, OpShape, Calls, Sync, FlushPcs, CleanupPcs,
         DeletePcs
    <2>4. ASSUME cur[u] \in list PROVE Withdraws(u)
      BY <1>13, <2>0, <2>2, <2>3, <2>4 DEF Withdraws, Calm, SameHands, SameOutcome, SameCall,
         Took, Owes, Calling, Waits, TypeOK, RemoveSync, born, result, client, errors, network,
         app, rest, hands, CarryShape, OpShape, Calls, Sync
    <2>5. ASSUME ~(cur[u] \in list) PROVE Quiet(u)
      BY <1>13, <2>0, <2>2, <2>3, <2>5 DEF Quiet, Calm, SameHands, SameOutcome, SameCall, Took,
         Owes, Calling, Waits, TypeOK, RemoveSync, born, result, client, errors, network, app,
         rest, hands, CarryShape, OpShape, Calls, Sync
    <2>6. QED
      BY <2>0, <2>1, <2>4, <2>5, <2>m DEF Effect
  <1>14. ASSUME NEW u \in Users, DropOwn(u) PROVE Explained
    <2>0. u \in Threads
      BY DEF Threads
    <2>1. Only(u)
      BY <1>14, <2>0 DEF Only, TypeOK, DropOwn, lists, client, errors, network, app, rest, hands
    <2>2. /\ pc[u] = "drop"
          /\ pc'[u] = "put"
          /\ op'[u] = op[u]
          /\ cur'[u] = cur[u]
          /\ carry'[u] = carry[u]
          /\ work'[u] = work[u]
      BY <1>14, <2>0 DEF TypeOK, DropOwn, lists, client, errors, network, app, rest, hands
    <2>3. CarryShape(u) /\ OpShape(u) /\ CurShape(u)
      BY <2>0 DEF Shape
    <2>m. Moves(u)
      BY <1>14, <2>0, <2>2, <2>3 DEF Moves, Assigned, Numbered, Sends, Opens, Staged, Reports,
         SameTxn, HasTxn, Early, Flushed, LossPcs, TypeOK, DropOwn, born, lists, client, errors,
         network, app, rest, hands, OpShape, Calls, Sync, FlushPcs, CleanupPcs, DeletePcs
    <2>4. Returns(u)
      BY <1>14, <2>0, <2>2, <2>3 DEF Returns, Calm, SameHands, SameOutcome, SameCall, Took,
         Owes, Calling, Waits, TypeOK, DropOwn, born, lists, client, errors, network, app, rest,
         hands, CarryShape, OpShape, Calls, Sync
    <2>5. QED
      BY <2>0, <2>1, <2>4, <2>m DEF Effect
  <1>15. ASSUME NEW u \in Users, AsyncFails(u) PROVE Explained
    <2>0. u \in Threads
      BY DEF Threads
    <2>1. Only(u)
      BY <1>15, <2>0 DEF Only, TypeOK, AsyncFails, client, errors, network, app, rest, hands
    <2>2. /\ pc[u] = "fail"
          /\ pc'[u] = "put"
          /\ op'[u] = op[u]
          /\ cur'[u] = cur[u]
          /\ carry'[u] = carry[u]
          /\ work'[u] = work[u]
      BY <1>15, <2>0 DEF TypeOK, AsyncFails, client, errors, network, app, rest, hands
    <2>3. CarryShape(u) /\ OpShape(u) /\ CurShape(u)
      BY <2>0 DEF Shape
    <2>m. Moves(u)
      BY <1>15, <2>0, <2>2, <2>3 DEF Moves, Assigned, Numbered, Sends, Opens, Staged, Reports,
         SameTxn, HasTxn, Early, Flushed, LossPcs, TypeOK, AsyncFails, born, client, errors,
         network, app, rest, hands, OpShape, Calls, Sync, CleanupPcs, DeletePcs
    <2>4. ASSUME cur[u] \in list PROVE Withdraws(u)
      BY <1>15, <2>0, <2>2, <2>3, <2>4 DEF Withdraws, Calm, SameHands, SameOutcome, SameCall,
         Took, Owes, Calling, Waits, TypeOK, AsyncFails, born, client, errors, network, app,
         rest, hands, CarryShape, OpShape, Calls, Sync
    <2>5. ASSUME ~(cur[u] \in list) PROVE Quiet(u)
      BY <1>15, <2>0, <2>2, <2>3, <2>5 DEF Quiet, Calm, SameHands, SameOutcome, SameCall, Took,
         Owes, Calling, Waits, TypeOK, AsyncFails, born, client, errors, network, app, rest,
         hands, CarryShape, OpShape, Calls, Sync
    <2>6. QED
      BY <2>0, <2>1, <2>4, <2>5, <2>m DEF Effect
  <1>16. ASSUME NEW u \in Users, PutRef(u) PROVE Explained
    <2>0. u \in Threads
      BY DEF Threads
    <2>1. Only(u)
      BY <1>16, <2>0 DEF Only, TypeOK, PutRef, result, txnVars, lists, errors, network, hands
    <2>2. /\ pc[u] \in {"put", "put_handle"}
          /\ pc'[u] \in {"idle", "blocked"}
          /\ op'[u] = "none"
          /\ cur'[u] = Null
          /\ carry'[u] = carry[u]
          /\ work'[u] = work[u]
      BY <1>16, <2>0 DEF TypeOK, PutRef, result, txnVars, lists, errors, network, hands
    <2>3. CarryShape(u) /\ OpShape(u) /\ CurShape(u)
      BY <2>0 DEF Shape
    <2>m. Moves(u)
      BY <1>16, <2>0, <2>2, <2>3 DEF Moves, Assigned, Numbered, Sends, Opens, Staged, Reports,
         SameTxn, HasTxn, Early, Flushed, LossPcs, TypeOK, PutRef, born, result, txnVars, lists,
         errors, network, hands, OpShape, Calls, Sync, CleanupPcs, DeletePcs
    <2>4. Quiet(u)
      BY <1>16, <2>0, <2>2, <2>3 DEF Quiet, Calm, SameHands, SameOutcome, SameCall, Took, Owes,
         Calling, Waits, TypeOK, PutRef, born, result, txnVars, lists, errors, network, hands,
         CarryShape, OpShape, Calls, Sync
    <2>5. QED
      BY <2>0, <2>1, <2>4, <2>m DEF Effect
  <1>17. ASSUME NEW u \in Users, BeginDelete(u) PROVE Explained
    <2>0. u \in Threads
      BY DEF Threads
    <2>1. Only(u)
      BY <1>17, <2>0 DEF Only, TypeOK, BeginDelete, result, txnVars, lists, errors, network,
         hands, GetRef
    <2>2. /\ pc[u] = "idle"
          /\ pc'[u] = "del_queue"
          /\ op'[u] = "delete"
          /\ carry'[u] = carry[u]
          /\ work'[u] = work[u]
      BY <1>17, <2>0 DEF TypeOK, BeginDelete, result, txnVars, lists, errors, network, hands,
         GetRef
    <2>3. CarryShape(u) /\ OpShape(u) /\ CurShape(u)
      BY <2>0 DEF Shape
    <2>m. Moves(u)
      BY <1>17, <2>0, <2>2, <2>3 DEF Moves, Assigned, Numbered, Sends, Opens, Staged, Reports,
         SameTxn, HasTxn, Early, Flushed, LossPcs, TypeOK, BeginDelete, born, result, txnVars,
         lists, errors, network, hands, GetRef, OpShape, Calls, Sync, CleanupPcs, Ready
    <2>4. Quiet(u)
      BY <1>17, <2>0, <2>2, <2>3 DEF Quiet, Calm, SameHands, SameOutcome, SameCall, Took, Owes,
         Calling, Waits, TypeOK, BeginDelete, born, result, txnVars, lists, errors, network,
         hands, GetRef, CarryShape, OpShape, Calls, Sync
    <2>5. QED
      BY <2>0, <2>1, <2>4, <2>m DEF Effect
  <1>18. ASSUME NEW u \in Users, DeleteQueued(u) PROVE Explained
    <2>0. u \in Threads
      BY DEF Threads
    <2>1. Only(u)
      BY <1>18, <2>0 DEF Only, TypeOK, DeleteQueued, result, txnVars, client, errors, network,
         app, rest
    <2>2. /\ pc[u] = "del_queue"
          /\ pc'[u] \in {"del_give", "del_list"}
          /\ op'[u] = op[u]
          /\ cur'[u] = cur[u]
          /\ carry'[u] = queue \cap {cur[u]}
          /\ work'[u] = work[u]
      BY <1>18, <2>0 DEF TypeOK, DeleteQueued, result, txnVars, client, errors, network, app,
         rest
    <2>3. CarryShape(u) /\ OpShape(u) /\ CurShape(u)
      BY <2>0 DEF Shape
    <2>m. Moves(u)
      BY <1>18, <2>0, <2>2, <2>3 DEF Moves, Assigned, Numbered, Sends, Opens, Staged, Reports,
         SameTxn, HasTxn, Early, Flushed, LossPcs, TypeOK, DeleteQueued, born, result, txnVars,
         client, errors, network, app, rest, OpShape, Calls, Sync, CleanupPcs, DeletePcs
    <2>4. Quiet(u)
      BY <1>18, <2>0, <2>2, <2>3 DEF Quiet, Calm, SameHands, SameOutcome, SameCall, Took, Owes,
         Calling, Waits, TypeOK, DeleteQueued, born, result, txnVars, client, errors, network,
         app, rest, CarryShape, OpShape, Calls, Sync
    <2>5. QED
      BY <2>0, <2>1, <2>4, <2>m DEF Effect
  <1>19. ASSUME NEW u \in Users, DeleteGive(u) PROVE Explained
    <2>0. u \in Threads
      BY DEF Threads
    <2>1. Only(u)
      BY <1>19, <2>0 DEF Only, TypeOK, DeleteGive, result, lists, client, errors, network, app,
         rest
    <2>2. /\ pc[u] = "del_give"
          /\ pc'[u] = "del_list"
          /\ op'[u] = op[u]
          /\ cur'[u] = cur[u]
          /\ carry'[u] = {}
          /\ work'[u] = work[u]
      BY <1>19, <2>0 DEF TypeOK, DeleteGive, result, lists, client, errors, network, app, rest
    <2>3. CarryShape(u) /\ OpShape(u) /\ CurShape(u)
      BY <2>0 DEF Shape
    <2>m. Moves(u)
      BY <1>19, <2>0, <2>2, <2>3 DEF Moves, Assigned, Numbered, Sends, Opens, Staged, Reports,
         SameTxn, HasTxn, Early, Flushed, LossPcs, TypeOK, DeleteGive, born, result, lists,
         client, errors, network, app, rest, OpShape, Calls, Sync, CleanupPcs, DeletePcs
    <2>4. Quiet(u)
      BY <1>19, <2>0, <2>2, <2>3 DEF Quiet, Calm, SameHands, SameOutcome, SameCall, Took, Owes,
         Calling, Waits, TypeOK, DeleteGive, born, result, lists, client, errors, network, app,
         rest, CarryShape, OpShape, Calls, Sync
    <2>5. QED
      BY <2>0, <2>1, <2>4, <2>m DEF Effect
  <1>20. ASSUME NEW u \in Users, DeleteListed(u) PROVE Explained
    <2>0. u \in Threads
      BY DEF Threads
    <2>1. Only(u)
      BY <1>20, <2>0 DEF Only, TypeOK, DeleteListed, client, errors, network, app, rest
    <2>2. /\ pc[u] = "del_list"
          /\ pc'[u] \in {"del_drop", "put"}
          /\ op'[u] = op[u]
          /\ cur'[u] = cur[u]
          /\ work'[u] = work[u]
      BY <1>20, <2>0 DEF TypeOK, DeleteListed, client, errors, network, app, rest
    <2>3. CarryShape(u) /\ OpShape(u) /\ CurShape(u)
      BY <2>0 DEF Shape
    <2>m. Moves(u)
      BY <1>20, <2>0, <2>2, <2>3 DEF Moves, Assigned, Numbered, Sends, Opens, Staged, Reports,
         SameTxn, HasTxn, Early, Flushed, LossPcs, TypeOK, DeleteListed, born, client, errors,
         network, app, rest, OpShape, Calls, Sync, CleanupPcs, DeletePcs
    <2>4. ASSUME cur[u] \in list PROVE Cancels(u)
      BY <1>20, <2>0, <2>2, <2>3, <2>4 DEF Cancels, Calm, SameHands, SameOutcome, SameCall,
         Took, Owes, Calling, Waits, TypeOK, DeleteListed, born, client, errors, network, app,
         rest, CarryShape, OpShape, Calls, Sync
    <2>5. ASSUME ~(cur[u] \in list) PROVE Quiet(u)
      BY <1>20, <2>0, <2>2, <2>3, <2>5 DEF Quiet, Calm, SameHands, SameOutcome, SameCall, Took,
         Owes, Calling, Waits, TypeOK, DeleteListed, born, client, errors, network, app, rest,
         CarryShape, OpShape, Calls, Sync, DeletePcs
    <2>6. QED
      BY <2>0, <2>1, <2>4, <2>5, <2>m DEF Effect
  <1>21. ASSUME NEW u \in Users, DeleteDrop(u) PROVE Explained
    <2>0. u \in Threads
      BY DEF Threads
    <2>1. Only(u)
      BY <1>21, <2>0 DEF Only, TypeOK, DeleteDrop, result, lists, client, errors, network, app,
         rest
    <2>2. /\ pc[u] = "del_drop"
          /\ pc'[u] = "put"
          /\ op'[u] = op[u]
          /\ cur'[u] = cur[u]
          /\ carry'[u] = {}
          /\ work'[u] = work[u]
      BY <1>21, <2>0 DEF TypeOK, DeleteDrop, result, lists, client, errors, network, app, rest
    <2>3. CarryShape(u) /\ OpShape(u) /\ CurShape(u)
      BY <2>0 DEF Shape
    <2>m. Moves(u)
      BY <1>21, <2>0, <2>2, <2>3 DEF Moves, Assigned, Numbered, Sends, Opens, Staged, Reports,
         SameTxn, HasTxn, Early, Flushed, LossPcs, TypeOK, DeleteDrop, born, result, lists,
         client, errors, network, app, rest, OpShape, Calls, Sync, CleanupPcs, DeletePcs
    <2>4. GivesUp(u)
      BY <1>21, <2>0, <2>2, <2>3 DEF GivesUp, Calm, SameHands, SameOutcome, SameCall, Took,
         Owes, Calling, Waits, TypeOK, DeleteDrop, born, result, lists, client, errors, network,
         app, rest, CarryShape, OpShape, Calls, Sync, DeletePcs
    <2>5. QED
      BY <2>0, <2>1, <2>4, <2>m DEF Effect
  <1>22. ASSUME NEW u \in Users, BeginRelease(u) PROVE Explained
    <2>0. u \in Threads
      BY DEF Threads
    <2>1. Only(u)
      BY <1>22, <2>0 DEF Only, TypeOK, BeginRelease, result, txnVars, lists, errors, network,
         hands, GetRef
    <2>2. /\ pc[u] = "idle"
          /\ pc'[u] = "probe"
          /\ op'[u] = "release"
          /\ cur'[u] = cur[u]
          /\ carry'[u] = carry[u]
          /\ work'[u] = work[u]
      BY <1>22, <2>0 DEF TypeOK, BeginRelease, result, txnVars, lists, errors, network, hands,
         GetRef
    <2>3. CarryShape(u) /\ OpShape(u) /\ CurShape(u)
      BY <2>0 DEF Shape
    <2>m. Moves(u)
      BY <1>22, <2>0, <2>2, <2>3 DEF Moves, Assigned, Numbered, Sends, Opens, Staged, Reports,
         SameTxn, HasTxn, Early, Flushed, LossPcs, TypeOK, BeginRelease, born, result, txnVars,
         lists, errors, network, hands, GetRef, OpShape, Calls, Sync, CleanupPcs, DeletePcs,
         Ready
    <2>4. Quiet(u)
      BY <1>22, <2>0, <2>2, <2>3 DEF Quiet, Calm, SameHands, SameOutcome, SameCall, Took, Owes,
         Calling, Waits, TypeOK, BeginRelease, born, result, txnVars, lists, errors, network,
         hands, GetRef, CarryShape, OpShape, Calls, Sync
    <2>5. QED
      BY <2>0, <2>1, <2>4, <2>m DEF Effect
  <1>23. ASSUME NEW u \in Users, EndProbe(u) PROVE Explained
    <2>0. u \in Threads
      BY DEF Threads
    <2>1. Only(u)
      BY <1>23, <2>0 DEF Only, TypeOK, EndProbe, result, txnVars, lists, errors, network, app,
         hands
    <2>2. /\ pc[u] = "probe"
          /\ pc'[u] = "unlink"
          /\ op'[u] = op[u]
          /\ cur'[u] = cur[u]
          /\ carry'[u] = carry[u]
          /\ work'[u] = work[u]
      BY <1>23, <2>0 DEF TypeOK, EndProbe, result, txnVars, lists, errors, network, app, hands
    <2>3. CarryShape(u) /\ OpShape(u) /\ CurShape(u)
      BY <2>0 DEF Shape
    <2>m. Moves(u)
      BY <1>23, <2>0, <2>2, <2>3 DEF Moves, Assigned, Numbered, Sends, Opens, Staged, Reports,
         SameTxn, HasTxn, Early, Flushed, LossPcs, TypeOK, EndProbe, born, result, txnVars,
         lists, errors, network, app, hands, OpShape, Calls, Sync, FlushPcs, CleanupPcs,
         DeletePcs
    <2>4. Quiet(u)
      BY <1>23, <2>0, <2>2, <2>3 DEF Quiet, Calm, SameHands, SameOutcome, SameCall, Took, Owes,
         Calling, Waits, TypeOK, EndProbe, born, result, txnVars, lists, errors, network, app,
         hands, CarryShape, OpShape, Calls, Sync
    <2>5. QED
      BY <2>0, <2>1, <2>4, <2>m DEF Effect
  <1>24. ASSUME NEW u \in Users, Unlink(u) PROVE Explained
    <2>0. u \in Threads
      BY DEF Threads
    <2>1. Only(u)
      BY <1>24, <2>0 DEF Only, TypeOK, Unlink, result, txnVars, lists, errors, network, app,
         hands
    <2>2. /\ pc[u] = "unlink"
          /\ pc'[u] = "rel_stop"
          /\ op'[u] = op[u]
          /\ cur'[u] = cur[u]
          /\ carry'[u] = carry[u]
          /\ work'[u] = work[u]
      BY <1>24, <2>0 DEF TypeOK, Unlink, result, txnVars, lists, errors, network, app, hands
    <2>3. CarryShape(u) /\ OpShape(u) /\ CurShape(u)
      BY <2>0 DEF Shape
    <2>m. Moves(u)
      BY <1>24, <2>0, <2>2, <2>3 DEF Moves, Assigned, Numbered, Sends, Opens, Staged, Reports,
         SameTxn, HasTxn, Early, Flushed, LossPcs, TypeOK, Unlink, born, result, txnVars, lists,
         errors, network, app, hands, OpShape, Calls, Sync, FlushPcs, CleanupPcs, DeletePcs
    <2>4. Quiet(u)
      BY <1>24, <2>0, <2>2, <2>3 DEF Quiet, Calm, SameHands, SameOutcome, SameCall, Took, Owes,
         Calling, Waits, TypeOK, Unlink, born, result, txnVars, lists, errors, network, app,
         hands, CarryShape, OpShape, Calls, Sync
    <2>5. QED
      BY <2>0, <2>1, <2>4, <2>m DEF Effect
  <1>25. ASSUME NEW u \in Users, NoRelease(u) PROVE Explained
    <2>0. u \in Threads
      BY DEF Threads
    <2>1. Only(u)
      BY <1>25, <2>0 DEF Only, TypeOK, NoRelease, result, txnVars, lists, client, errors,
         network, hands
    <2>2. /\ pc[u] = "unlink"
          /\ pc'[u] = "idle"
          /\ op'[u] = "none"
          /\ cur'[u] = cur[u]
          /\ carry'[u] = carry[u]
          /\ work'[u] = work[u]
      BY <1>25, <2>0 DEF TypeOK, NoRelease, result, txnVars, lists, client, errors, network,
         hands
    <2>3. CarryShape(u) /\ OpShape(u) /\ CurShape(u)
      BY <2>0 DEF Shape
    <2>m. Moves(u)
      BY <1>25, <2>0, <2>2, <2>3 DEF Moves, Assigned, Numbered, Sends, Opens, Staged, Reports,
         SameTxn, HasTxn, Early, Flushed, LossPcs, TypeOK, NoRelease, born, result, txnVars,
         lists, client, errors, network, hands, OpShape, Calls, Sync, CleanupPcs, DeletePcs
    <2>4. Quiet(u)
      BY <1>25, <2>0, <2>2, <2>3 DEF Quiet, Calm, SameHands, SameOutcome, SameCall, Took, Owes,
         Calling, Waits, TypeOK, NoRelease, born, result, txnVars, lists, client, errors,
         network, hands, CarryShape, OpShape, Calls, Sync, ReleaseOps
    <2>5. QED
      BY <2>0, <2>1, <2>4, <2>m DEF Effect
  <1>26. ASSUME NEW u \in Users, BeginReleaseAsync(u) PROVE Explained
    <2>0. u \in Threads
      BY DEF Threads
    <2>1. Only(u)
      BY <1>26, <2>0 DEF Only, TypeOK, BeginReleaseAsync, result, txnVars, lists, errors,
         network, hands, GetRef
    <2>2. /\ pc[u] = "idle"
          /\ pc'[u] = "rel_stop"
          /\ op'[u] = "release_async"
          /\ cur'[u] = cur[u]
          /\ carry'[u] = carry[u]
          /\ work'[u] = work[u]
      BY <1>26, <2>0 DEF TypeOK, BeginReleaseAsync, result, txnVars, lists, errors, network,
         hands, GetRef
    <2>3. CarryShape(u) /\ OpShape(u) /\ CurShape(u)
      BY <2>0 DEF Shape
    <2>m. Moves(u)
      BY <1>26, <2>0, <2>2, <2>3 DEF Moves, Assigned, Numbered, Sends, Opens, Staged, Reports,
         SameTxn, HasTxn, Early, Flushed, LossPcs, TypeOK, BeginReleaseAsync, born, result,
         txnVars, lists, errors, network, hands, GetRef, OpShape, Calls, Sync, CleanupPcs,
         DeletePcs, Ready
    <2>4. Quiet(u)
      BY <1>26, <2>0, <2>2, <2>3 DEF Quiet, Calm, SameHands, SameOutcome, SameCall, Took, Owes,
         Calling, Waits, TypeOK, BeginReleaseAsync, born, result, txnVars, lists, errors,
         network, hands, GetRef, CarryShape, OpShape, Calls, Sync
    <2>5. QED
      BY <2>0, <2>1, <2>4, <2>m DEF Effect
  <1>27. ASSUME NEW u \in Users, ReleaseStop(u) PROVE Explained
    <2>0. u \in Threads
      BY DEF Threads
    <2>1. Only(u)
      BY <1>27, <2>0 DEF Only, TypeOK, ReleaseStop, result, txnVars, lists, errors, network,
         app, hands
    <2>2. /\ pc[u] = "rel_stop"
          /\ pc'[u] = "cu_queue"
          /\ op'[u] = op[u]
          /\ cur'[u] = cur[u]
          /\ carry'[u] = carry[u]
          /\ work'[u] = work[u]
      BY <1>27, <2>0 DEF TypeOK, ReleaseStop, result, txnVars, lists, errors, network, app,
         hands
    <2>3. CarryShape(u) /\ OpShape(u) /\ CurShape(u)
      BY <2>0 DEF Shape
    <2>m. Moves(u)
      BY <1>27, <2>0, <2>2, <2>3 DEF Moves, Assigned, Numbered, Sends, Opens, Staged, Reports,
         SameTxn, HasTxn, Early, Flushed, LossPcs, TypeOK, ReleaseStop, born, result, txnVars,
         lists, errors, network, app, hands, OpShape, Calls, Sync, DeletePcs, ReleaseOps
    <2>4. Quiet(u)
      BY <1>27, <2>0, <2>2, <2>3 DEF Quiet, Calm, SameHands, SameOutcome, SameCall, Took, Owes,
         Calling, Waits, TypeOK, ReleaseStop, born, result, txnVars, lists, errors, network,
         app, hands, CarryShape, OpShape, Calls, Sync
    <2>5. QED
      BY <2>0, <2>1, <2>4, <2>m DEF Effect
  <1>28. ASSUME NEW u \in Users, ReleaseClose(u) PROVE Explained
    <2>0. u \in Threads
      BY DEF Threads
    <2>1. Only(u)
      BY <1>28, <2>0 DEF Only, TypeOK, ReleaseClose, result, txnVars, lists, errors, app, hands
    <2>2. /\ pc[u] = "rel_close"
          /\ pc'[u] = "put"
          /\ op'[u] = op[u]
          /\ cur'[u] = cur[u]
          /\ carry'[u] = carry[u]
          /\ work'[u] = work[u]
      BY <1>28, <2>0 DEF TypeOK, ReleaseClose, result, txnVars, lists, errors, app, hands
    <2>3. CarryShape(u) /\ OpShape(u) /\ CurShape(u)
      BY <2>0 DEF Shape
    <2>m. Moves(u)
      BY <1>28, <2>0, <2>2, <2>3 DEF Moves, Assigned, Numbered, Sends, Opens, Staged, Reports,
         SameTxn, HasTxn, Early, Flushed, LossPcs, TypeOK, ReleaseClose, born, result, txnVars,
         lists, errors, app, hands, OpShape, Calls, Sync, FlushPcs, CleanupPcs, DeletePcs
    <2>4. Quiet(u)
      BY <1>28, <2>0, <2>2, <2>3 DEF Quiet, Calm, SameHands, SameOutcome, SameCall, Took, Owes,
         Calling, Waits, TypeOK, ReleaseClose, born, result, txnVars, lists, errors, app, hands,
         CarryShape, OpShape, Calls, Sync, ReleaseOps
    <2>5. QED
      BY <2>0, <2>1, <2>4, <2>m DEF Effect
  <1>29. ASSUME NEW u \in Users, Unblock(u) PROVE Explained
    <2>0. u \in Threads
      BY DEF Threads
    <2>1. Only(u)
      BY <1>29, <2>0 DEF Only, TypeOK, Unblock, result, txnVars, lists, client, errors, network,
         app, rest, hands
    <2>2. /\ pc[u] = "blocked"
          /\ pc'[u] = "idle"
          /\ op'[u] = op[u]
          /\ cur'[u] = cur[u]
          /\ carry'[u] = carry[u]
          /\ work'[u] = work[u]
      BY <1>29, <2>0 DEF TypeOK, Unblock, result, txnVars, lists, client, errors, network, app,
         rest, hands
    <2>3. CarryShape(u) /\ OpShape(u) /\ CurShape(u)
      BY <2>0 DEF Shape
    <2>m. Moves(u)
      BY <1>29, <2>0, <2>2, <2>3 DEF Moves, Assigned, Numbered, Sends, Opens, Staged, Reports,
         SameTxn, HasTxn, Early, Flushed, LossPcs, TypeOK, Unblock, born, result, txnVars,
         lists, client, errors, network, app, rest, hands, OpShape, Calls, Sync, CleanupPcs,
         DeletePcs
    <2>4. Quiet(u)
      BY <1>29, <2>0, <2>2, <2>3 DEF Quiet, Calm, SameHands, SameOutcome, SameCall, Took, Owes,
         Calling, Waits, TypeOK, Unblock, born, result, txnVars, lists, client, errors, network,
         app, rest, hands, CarryShape, OpShape, Calls, Sync
    <2>5. QED
      BY <2>0, <2>1, <2>4, <2>m DEF Effect
  <1>30. ASSUME NEW u \in Users, BeginRegister(u) PROVE Explained
    <2>0. u \in Threads
      BY DEF Threads
    <2>1. Only(u)
      BY <1>30, <2>0 DEF Only, TypeOK, BeginRegister, result, txnVars, lists, errors, network,
         hands, GetRef
    <2>2. /\ pc[u] = "idle"
          /\ pc'[u] = "reg"
          /\ op'[u] = "register"
          /\ cur'[u] = cur[u]
          /\ carry'[u] = carry[u]
          /\ work'[u] = work[u]
      BY <1>30, <2>0 DEF TypeOK, BeginRegister, result, txnVars, lists, errors, network, hands,
         GetRef
    <2>3. CarryShape(u) /\ OpShape(u) /\ CurShape(u)
      BY <2>0 DEF Shape
    <2>m. Moves(u)
      BY <1>30, <2>0, <2>2, <2>3 DEF Moves, Assigned, Numbered, Sends, Opens, Staged, Reports,
         SameTxn, HasTxn, Early, Flushed, LossPcs, TypeOK, BeginRegister, born, result, txnVars,
         lists, errors, network, hands, GetRef, OpShape, Calls, Sync, CleanupPcs, DeletePcs,
         Ready
    <2>4. Quiet(u)
      BY <1>30, <2>0, <2>2, <2>3 DEF Quiet, Calm, SameHands, SameOutcome, SameCall, Took, Owes,
         Calling, Waits, TypeOK, BeginRegister, born, result, txnVars, lists, errors, network,
         hands, GetRef, CarryShape, OpShape, Calls, Sync
    <2>5. QED
      BY <2>0, <2>1, <2>4, <2>m DEF Effect
  <1>31. ASSUME NEW u \in Users, RegisterErrorCb(u) PROVE Explained
    <2>0. u \in Threads
      BY DEF Threads
    <2>1. Only(u)
      BY <1>31, <2>0 DEF Only, TypeOK, RegisterErrorCb, result, txnVars, lists, client, network,
         app, hands
    <2>2. /\ pc[u] = "reg"
          /\ pc'[u] \in {"reg_call", "put"}
          /\ op'[u] = op[u]
          /\ cur'[u] = cur[u]
          /\ carry'[u] = carry[u]
          /\ work'[u] = work[u]
      BY <1>31, <2>0 DEF TypeOK, RegisterErrorCb, result, txnVars, lists, client, network, app,
         hands
    <2>3. CarryShape(u) /\ OpShape(u) /\ CurShape(u)
      BY <2>0 DEF Shape
    <2>m. Moves(u)
      BY <1>31, <2>0, <2>2, <2>3 DEF Moves, Assigned, Numbered, Sends, Opens, Staged, Reports,
         SameTxn, HasTxn, Early, Flushed, LossPcs, TypeOK, RegisterErrorCb, born, result,
         txnVars, lists, client, network, app, hands, OpShape, Calls, Sync, CleanupPcs,
         DeletePcs
    <2>4. Quiet(u)
      BY <1>31, <2>0, <2>2, <2>3 DEF Quiet, Calm, SameHands, SameOutcome, SameCall, Took, Owes,
         Calling, Waits, TypeOK, RegisterErrorCb, born, result, txnVars, lists, client, network,
         app, hands, CarryShape, OpShape, Calls, Sync
    <2>5. QED
      BY <2>0, <2>1, <2>4, <2>m DEF Effect
  <1>32. ASSUME NEW u \in Users, RegisterCall(u) PROVE Explained
    <2>0. u \in Threads
      BY DEF Threads
    <2>1. Only(u)
      BY <1>32, <2>0 DEF Only, TypeOK, RegisterCall, result, txnVars, lists, client, network,
         app, hands
    <2>2. /\ pc[u] = "reg_call"
          /\ pc'[u] = "put"
          /\ op'[u] = op[u]
          /\ cur'[u] = cur[u]
          /\ carry'[u] = carry[u]
          /\ work'[u] = work[u]
      BY <1>32, <2>0 DEF TypeOK, RegisterCall, result, txnVars, lists, client, network, app,
         hands
    <2>3. CarryShape(u) /\ OpShape(u) /\ CurShape(u)
      BY <2>0 DEF Shape
    <2>m. Moves(u)
      BY <1>32, <2>0, <2>2, <2>3 DEF Moves, Assigned, Numbered, Sends, Opens, Staged, Reports,
         SameTxn, HasTxn, Early, Flushed, LossPcs, TypeOK, RegisterCall, born, result, txnVars,
         lists, client, network, app, hands, OpShape, Calls, Sync, CleanupPcs, DeletePcs
    <2>4. Quiet(u)
      BY <1>32, <2>0, <2>2, <2>3 DEF Quiet, Calm, SameHands, SameOutcome, SameCall, Took, Owes,
         Calling, Waits, TypeOK, RegisterCall, born, result, txnVars, lists, client, network,
         app, hands, CarryShape, OpShape, Calls, Sync
    <2>5. QED
      BY <2>0, <2>1, <2>4, <2>m DEF Effect
  <1>33. ASSUME NEW th \in Users \cup {Loss, Resumer}, CleanupQueue(th) PROVE Explained
    <2>0. th \in Threads
      BY DEF Threads
    <2>1. Only(th)
      BY <1>33, <2>0 DEF Only, TypeOK, CleanupQueue, result, txnVars, client, errors, network,
         app, rest
    <2>2. /\ pc[th] = "cu_queue"
          /\ pc'[th] = "cu_give"
          /\ op'[th] = op[th]
          /\ cur'[th] = cur[th]
          /\ carry'[th] = queue
          /\ work'[th] = work[th]
      BY <1>33, <2>0 DEF TypeOK, CleanupQueue, result, txnVars, client, errors, network, app,
         rest
    <2>3. CarryShape(th) /\ (th \in Users => OpShape(th))
      BY <2>0 DEF Shape
    <2>m. Moves(th)
      BY <1>33, <2>0, <2>2, <2>3 DEF Moves, Assigned, Numbered, Sends, Opens, Staged, Reports,
         SameTxn, HasTxn, Early, Flushed, LossPcs, TypeOK, CleanupQueue, born, result, txnVars,
         client, errors, network, app, rest, OpShape, Calls, Sync, CleanupPcs, DeletePcs
    <2>4. Quiet(th)
      BY <1>33, <2>0, <2>2, <2>3 DEF Quiet, Calm, SameHands, SameOutcome, SameCall, Took, Owes,
         Calling, Waits, TypeOK, CleanupQueue, born, result, txnVars, client, errors, network,
         app, rest, CarryShape, OpShape, Calls, Sync
    <2>5. QED
      BY <2>0, <2>1, <2>4, <2>m DEF Effect
  <1>34. ASSUME NEW th \in Users \cup {Loss, Resumer}, CleanupGive(th) PROVE Explained
    <2>0. th \in Threads
      BY DEF Threads
    <2>1. Only(th)
      BY <1>34, <2>0 DEF Only, TypeOK, CleanupGive, result, lists, client, errors, network, app,
         rest
    <2>2. /\ pc[th] = "cu_give"
          /\ pc'[th] = "cu_give"
          /\ op'[th] = op[th]
          /\ cur'[th] = cur[th]
          /\ work'[th] = work[th]
      BY <1>34, <2>0 DEF TypeOK, CleanupGive, result, lists, client, errors, network, app, rest
    <2>3. CarryShape(th) /\ (th \in Users => OpShape(th))
      BY <2>0 DEF Shape
    <2>m. Moves(th)
      BY <1>34, <2>0, <2>2, <2>3 DEF Moves, Assigned, Numbered, Sends, Opens, Staged, Reports,
         SameTxn, HasTxn, Early, Flushed, LossPcs, TypeOK, CleanupGive, born, result, lists,
         client, errors, network, app, rest, OpShape, Calls, Sync
    <2>4. Quiet(th)
      BY <1>34, <2>0, <2>2, <2>3 DEF Quiet, Calm, SameHands, SameOutcome, SameCall, Took, Owes,
         Calling, Waits, TypeOK, CleanupGive, born, result, lists, client, errors, network, app,
         rest, CarryShape, OpShape, Calls, Sync
    <2>5. QED
      BY <2>0, <2>1, <2>4, <2>m DEF Effect
  <1>35. ASSUME NEW th \in Users \cup {Loss, Resumer}, CleanupList(th) PROVE Explained
    <2>0. th \in Threads
      BY DEF Threads
    <2>1. Only(th)
      BY <1>35, <2>0 DEF Only, TypeOK, CleanupList, result, txnVars, client, errors, network,
         app, rest
    <2>2. /\ pc[th] = "cu_give"
          /\ pc'[th] = (IF list = {} THEN AfterCleanup(th) ELSE "cu_fail")
          /\ op'[th] = op[th]
          /\ cur'[th] = cur[th]
          /\ carry'[th] = list
          /\ work'[th] = work[th]
      BY <1>35, <2>0 DEF TypeOK, CleanupList, result, txnVars, client, errors, network, app,
         rest
    <2>3. CarryShape(th) /\ (th \in Users => OpShape(th))
      BY <2>0 DEF Shape
    <2>m. Moves(th)
      BY <1>35, <2>0, <2>2, <2>3 DEF Moves, Assigned, Numbered, Sends, Opens, Staged, Reports,
         SameTxn, HasTxn, Early, Flushed, LossPcs, TypeOK, CleanupList, born, result, txnVars,
         client, errors, network, app, rest, OpShape, Calls, Sync, CleanupPcs, DeletePcs,
         AfterFlush, AfterCleanup
    <2>4. TakesOut(th)
      BY <1>35, <2>0, <2>2, <2>3 DEF TakesOut, Calm, SameHands, SameOutcome, SameCall, Took,
         Owes, Calling, Waits, TypeOK, CleanupList, born, result, txnVars, client, errors,
         network, app, rest, CarryShape, OpShape, Calls, Sync, CleanupPcs, AfterFlush,
         AfterCleanup
    <2>5. QED
      BY <2>0, <2>1, <2>4, <2>m DEF Effect
  <1>36. ASSUME NEW th \in Users \cup {Loss, Resumer}, CleanupFail(th) PROVE Explained
    <2>0. th \in Threads
      BY DEF Threads
    <2>1. Only(th)
      BY <1>36, <2>0 DEF Only, TypeOK, CleanupFail, lists, client, errors, network, app, rest
    <2>2. /\ pc[th] = "cu_fail"
          /\ pc'[th] = "cu_drop"
          /\ op'[th] = op[th]
          /\ cur'[th] = cur[th]
          /\ carry'[th] = carry[th]
      BY <1>36, <2>0 DEF TypeOK, CleanupFail, lists, client, errors, network, app, rest
    <2>3. CarryShape(th) /\ (th \in Users => OpShape(th))
      BY <2>0 DEF Shape
    <2>m. Moves(th)
      BY <1>36, <2>0, <2>2, <2>3 DEF Moves, Assigned, Numbered, Sends, Opens, Staged, Reports,
         SameTxn, HasTxn, Early, Flushed, LossPcs, TypeOK, CleanupFail, born, lists, client,
         errors, network, app, rest, OpShape, Calls, Sync, CleanupPcs, DeletePcs
    <2>4. PICK t \in carry[th] : Fail(t) /\ work' = [work EXCEPT ![th] = t]
      BY <1>36 DEF CleanupFail
    <2>5. t \in Txns /\ work'[th] = t
      BY <2>0, <2>4 DEF TypeOK
    <2>6. Calm(th) /\ list' = list
      BY <1>36, <2>0, <2>2, <2>3 DEF CleanupFail, born, lists, rest, app, Calm, SameCall,
         Calling, Waits
    <2>7. Owes(th, t) /\ ~Owes(th, t)'
      BY <2>2, <2>4, <2>5 DEF Owes
    <2>8. ASSUME NEW x \in Txns PROVE Took(th, x)' <=> Took(th, x)
      BY <2>2 DEF Took
    <2>9. ASSUME NEW x \in Txns, x # t PROVE Owes(th, x)' <=> Owes(th, x)
      BY <2>2, <2>5, <2>9 DEF Owes
    <2>10. ASSUME NEW x \in Txns, x # t PROVE sig'[x] = sig[x] /\ pending'[x] = pending[x]
      BY <2>4, <2>10 DEF Fail, TypeOK
    <2>11. ~pending'[t]
      BY <2>4, <2>5 DEF Fail, TypeOK
    <2>12. \/ kind[t] \in Sync /\ sig'[t] /\ reports' = reports
           \/ kind[t] \notin Sync /\ reports' = [reports EXCEPT ![t] = @ + 1]
      BY <2>4, <2>5 DEF Fail, TypeOK
    <2>13. Settles1(th)
      BY <2>5, <2>6, <2>7, <2>8, <2>9, <2>10, <2>11, <2>12 DEF Settles1
    <2>14. QED
      BY <2>0, <2>1, <2>13, <2>m DEF Effect
  <1>37. ASSUME NEW th \in Users \cup {Loss, Resumer}, CleanupDrop(th) PROVE Explained
    <2>0. th \in Threads
      BY DEF Threads
    <2>1. Only(th)
      BY <1>37, <2>0 DEF Only, TypeOK, CleanupDrop, result, lists, client, errors, network, app,
         rest
    <2>2. /\ pc[th] = "cu_drop"
          /\ pc'[th] = (IF carry[th] = {work[th]} THEN AfterCleanup(th) ELSE "cu_fail")
          /\ op'[th] = op[th]
          /\ cur'[th] = cur[th]
          /\ carry'[th] = carry[th] \ {work[th]}
          /\ work'[th] = Null
      BY <1>37, <2>0 DEF TypeOK, CleanupDrop, result, lists, client, errors, network, app, rest
    <2>3. CarryShape(th) /\ (th \in Users => OpShape(th))
      BY <2>0 DEF Shape
    <2>m. Moves(th)
      BY <1>37, <2>0, <2>2, <2>3 DEF Moves, Assigned, Numbered, Sends, Opens, Staged, Reports,
         SameTxn, HasTxn, Early, Flushed, LossPcs, TypeOK, CleanupDrop, born, result, lists,
         client, errors, network, app, rest, OpShape, Calls, Sync, CleanupPcs, DeletePcs,
         AfterFlush, AfterCleanup
    <2>4. GivesUp(th)
      BY <1>37, <2>0, <2>2, <2>3, ZenonT(60) DEF GivesUp, Calm, SameHands, SameOutcome, SameCall,
         Took,
         Owes, Calling, Waits, TypeOK, CleanupDrop, born, result, lists, client, errors,
         network, app, rest, CarryShape, OpShape, Calls, Sync, DeletePcs, AfterFlush,
         AfterCleanup
    <2>5. QED
      BY <2>0, <2>1, <2>4, <2>m DEF Effect
  <1>38. ASSUME NEW th \in Users \cup {Loss, Resumer}, FlushAddress(th) PROVE Explained
    <2>0. th \in Threads
      BY DEF Threads
    <2>1. Only(th)
      BY <1>38, <2>0 DEF Only, TypeOK, FlushAddress, result, txnVars, lists, client, errors,
         network, app, rest, hands
    <2>2. /\ pc[th] = "fl_addr"
          /\ pc'[th] \in {"fl_send", "cu_queue"}
          /\ op'[th] = op[th]
          /\ cur'[th] = cur[th]
          /\ carry'[th] = carry[th]
          /\ work'[th] = work[th]
      BY <1>38, <2>0 DEF TypeOK, FlushAddress, result, txnVars, lists, client, errors, network,
         app, rest, hands
    <2>3. CarryShape(th) /\ (th \in Users => OpShape(th))
      BY <2>0 DEF Shape
    <2>m. Moves(th)
      BY <1>38, <2>0, <2>2, <2>3 DEF Moves, Assigned, Numbered, Sends, Opens, Staged, Reports,
         SameTxn, HasTxn, Early, Flushed, LossPcs, TypeOK, FlushAddress, born, result, txnVars,
         lists, client, errors, network, app, rest, hands, OpShape, Calls, Sync, FlushPcs,
         CleanupPcs, DeletePcs
    <2>4. Quiet(th)
      BY <1>38, <2>0, <2>2, <2>3 DEF Quiet, Calm, SameHands, SameOutcome, SameCall, Took, Owes,
         Calling, Waits, TypeOK, FlushAddress, born, result, txnVars, lists, client, errors,
         network, app, rest, hands, CarryShape, OpShape, Calls, Sync
    <2>5. QED
      BY <2>0, <2>1, <2>4, <2>m DEF Effect
  <1>39. ASSUME NEW th \in Users \cup {Loss, Resumer}, FlushEnd(th) PROVE Explained
    <2>0. th \in Threads
      BY DEF Threads
    <2>1. Only(th)
      BY <1>39, <2>0 DEF Only, TypeOK, FlushEnd, result, txnVars, lists, client, errors,
         network, app, rest, hands
    <2>2. /\ pc[th] = "fl_send"
          /\ pc'[th] = AfterFlush(th)
          /\ op'[th] = op[th]
          /\ cur'[th] = cur[th]
          /\ carry'[th] = carry[th]
          /\ work'[th] = work[th]
      BY <1>39, <2>0 DEF TypeOK, FlushEnd, result, txnVars, lists, client, errors, network, app,
         rest, hands
    <2>3. CarryShape(th) /\ (th \in Users => OpShape(th))
      BY <2>0 DEF Shape
    <2>m. Moves(th)
      BY <1>39, <2>0, <2>2, <2>3 DEF Moves, Assigned, Numbered, Sends, Opens, Staged, Reports,
         SameTxn, HasTxn, Early, Flushed, LossPcs, TypeOK, FlushEnd, born, result, txnVars,
         lists, client, errors, network, app, rest, hands, OpShape, Calls, Sync, FlushPcs,
         CleanupPcs, DeletePcs, AfterFlush
    <2>4. Quiet(th)
      BY <1>39, <2>0, <2>2, <2>3 DEF Quiet, Calm, SameHands, SameOutcome, SameCall, Took, Owes,
         Calling, Waits, TypeOK, FlushEnd, born, result, txnVars, lists, client, errors,
         network, app, rest, hands, CarryShape, OpShape, Calls, Sync, AfterFlush
    <2>5. QED
      BY <2>0, <2>1, <2>4, <2>m DEF Effect
  <1>40. ASSUME NEW th \in Users \cup {Loss, Resumer}, FlushBusy(th) PROVE Explained
    <2>0. th \in Threads
      BY DEF Threads
    <2>1. Only(th)
      BY <1>40, <2>0 DEF Only, TypeOK, FlushBusy, result, txnVars, lists, client, errors, app,
         hands
    <2>2. /\ pc[th] = "fl_send"
          /\ pc'[th] = AfterFlush(th)
          /\ op'[th] = op[th]
          /\ cur'[th] = cur[th]
          /\ carry'[th] = carry[th]
          /\ work'[th] = work[th]
      BY <1>40, <2>0 DEF TypeOK, FlushBusy, result, txnVars, lists, client, errors, app, hands
    <2>3. CarryShape(th) /\ (th \in Users => OpShape(th))
      BY <2>0 DEF Shape
    <2>m. Moves(th)
      BY <1>40, <2>0, <2>2, <2>3 DEF Moves, Assigned, Numbered, Sends, Opens, Staged, Reports,
         SameTxn, HasTxn, Early, Flushed, LossPcs, TypeOK, FlushBusy, born, result, txnVars,
         lists, client, errors, app, hands, OpShape, Calls, Sync, FlushPcs, CleanupPcs,
         DeletePcs, AfterFlush
    <2>4. Quiet(th)
      BY <1>40, <2>0, <2>2, <2>3 DEF Quiet, Calm, SameHands, SameOutcome, SameCall, Took, Owes,
         Calling, Waits, TypeOK, FlushBusy, born, result, txnVars, lists, client, errors, app,
         hands, CarryShape, OpShape, Calls, Sync, AfterFlush
    <2>5. QED
      BY <2>0, <2>1, <2>4, <2>m DEF Effect
  <1>41. ASSUME NEW th \in Users \cup {Loss, Resumer}, FlushSend(th) PROVE Explained
    <2>0. th \in Threads
      BY DEF Threads
    <2>1. Only(th)
      BY <1>41, <2>0 DEF Only, TypeOK, FlushSend, result, txnVars, client, errors, app
    <2>2. /\ pc[th] = "fl_send"
          /\ pc'[th] \in {"fl_sent", "fl_bad"}
          /\ op'[th] = op[th]
          /\ cur'[th] = cur[th]
      BY <1>41, <2>0 DEF TypeOK, FlushSend, result, txnVars, client, errors, app
    <2>3. CarryShape(th) /\ (th \in Users => OpShape(th))
      BY <2>0 DEF Shape
    <2>m. Moves(th)
      BY <1>41, <2>0, <2>2, <2>3 DEF Moves, Assigned, Numbered, Sends, Opens, Staged, Reports,
         SameTxn, HasTxn, Early, Flushed, LossPcs, TypeOK, FlushSend, born, result, txnVars,
         client, errors, app, OpShape, Calls, Sync, FlushPcs, CleanupPcs, DeletePcs
    <2>4. Quiet(th)
      BY <1>41, <2>0, <2>2, <2>3 DEF Quiet, Calm, SameHands, SameOutcome, SameCall, Took, Owes,
         Calling, Waits, TypeOK, FlushSend, born, result, txnVars, client, errors, app,
         CarryShape, OpShape, Calls, Sync
    <2>5. QED
      BY <2>0, <2>1, <2>4, <2>m DEF Effect
  <1>42. ASSUME NEW th \in Users \cup {Loss, Resumer}, FlushGive(th) PROVE Explained
    <2>0. th \in Threads
      BY DEF Threads
    <2>1. Only(th)
      BY <1>42, <2>0 DEF Only, TypeOK, FlushGive, result, lists, client, errors, network, app,
         rest
    <2>2. /\ pc[th] \in {"fl_sent", "fl_bad"}
          /\ pc'[th] \in {"fl_send", "fl_log"}
          /\ op'[th] = op[th]
          /\ cur'[th] = cur[th]
          /\ carry'[th] = {}
      BY <1>42, <2>0 DEF TypeOK, FlushGive, result, lists, client, errors, network, app, rest
    <2>3. CarryShape(th) /\ (th \in Users => OpShape(th))
      BY <2>0 DEF Shape
    <2>m. Moves(th)
      BY <1>42, <2>0, <2>2, <2>3 DEF Moves, Assigned, Numbered, Sends, Opens, Staged, Reports,
         SameTxn, HasTxn, Early, Flushed, LossPcs, TypeOK, FlushGive, born, result, lists,
         client, errors, network, app, rest, OpShape, Calls, Sync, FlushPcs, CleanupPcs,
         DeletePcs
    <2>4. Quiet(th)
      BY <1>42, <2>0, <2>2, <2>3 DEF Quiet, Calm, SameHands, SameOutcome, SameCall, Took, Owes,
         Calling, Waits, TypeOK, FlushGive, born, result, lists, client, errors, network, app,
         rest, CarryShape, OpShape, Calls, Sync
    <2>5. QED
      BY <2>0, <2>1, <2>4, <2>m DEF Effect
  <1>43. ASSUME NEW th \in Users \cup {Loss, Resumer}, FlushFind(th) PROVE Explained
    <2>0. th \in Threads
      BY DEF Threads
    <2>1. Only(th)
      BY <1>43, <2>0 DEF Only, TypeOK, FlushFind, result, txnVars, client, errors, network, app,
         rest
    <2>2. /\ pc[th] = "fl_log"
          /\ pc'[th] \in {"fl_fail", "fl_send"}
          /\ op'[th] = op[th]
          /\ cur'[th] = cur[th]
      BY <1>43, <2>0 DEF TypeOK, FlushFind, result, txnVars, client, errors, network, app, rest
    <2>3. CarryShape(th) /\ (th \in Users => OpShape(th))
      BY <2>0 DEF Shape
    <2>m. Moves(th)
      BY <1>43, <2>0, <2>2, <2>3 DEF Moves, Assigned, Numbered, Sends, Opens, Staged, Reports,
         SameTxn, HasTxn, Early, Flushed, LossPcs, TypeOK, FlushFind, born, result, txnVars,
         client, errors, network, app, rest, OpShape, Calls, Sync, FlushPcs, CleanupPcs,
         DeletePcs
    <2>4. ASSUME work[th] \in list PROVE TakesOut(th)
      BY <1>43, <2>0, <2>2, <2>3, <2>4 DEF TakesOut, Calm, SameHands, SameOutcome, SameCall,
         Took, Owes, Calling, Waits, TypeOK, FlushFind, born, result, txnVars, client, errors,
         network, app, rest, CarryShape, OpShape, Calls, Sync
    <2>5. ASSUME ~(work[th] \in list) PROVE Quiet(th)
      BY <1>43, <2>0, <2>2, <2>3, <2>5 DEF Quiet, Calm, SameHands, SameOutcome, SameCall, Took,
         Owes, Calling, Waits, TypeOK, FlushFind, born, result, txnVars, client, errors,
         network, app, rest, CarryShape, OpShape, Calls, Sync
    <2>6. QED
      BY <2>0, <2>1, <2>4, <2>5, <2>m DEF Effect
  <1>44. ASSUME NEW th \in Users \cup {Loss, Resumer}, FlushFail(th) PROVE Explained
    <2>0. th \in Threads
      BY DEF Threads
    <2>1. Only(th)
      BY <1>44, <2>0 DEF Only, TypeOK, FlushFail, lists, client, errors, network, app, rest,
         hands
    <2>2. /\ pc[th] = "fl_fail"
          /\ pc'[th] = "fl_drop"
          /\ op'[th] = op[th]
          /\ cur'[th] = cur[th]
          /\ carry'[th] = carry[th]
          /\ work'[th] = work[th]
      BY <1>44, <2>0 DEF TypeOK, FlushFail, lists, client, errors, network, app, rest, hands
    <2>3. CarryShape(th) /\ (th \in Users => OpShape(th))
      BY <2>0 DEF Shape
    <2>m. Moves(th)
      BY <1>44, <2>0, <2>2, <2>3 DEF Moves, Assigned, Numbered, Sends, Opens, Staged, Reports,
         SameTxn, HasTxn, Early, Flushed, LossPcs, TypeOK, FlushFail, born, lists, client,
         errors, network, app, rest, hands, OpShape, Calls, Sync, FlushPcs, CleanupPcs,
         DeletePcs
    <2>4. Settles1(th)
      BY <1>44, <2>0, <2>2, <2>3, ZenonT(60) DEF Settles1, Calm, SameHands, SameOutcome, SameCall,
         Took,
         Owes, Calling, Waits, TypeOK, FlushFail, born, lists, client, errors, network, app,
         rest, hands, CarryShape, OpShape, Calls, Sync, Fail
    <2>5. QED
      BY <2>0, <2>1, <2>4, <2>m DEF Effect
  <1>45. ASSUME NEW th \in Users \cup {Loss, Resumer}, FlushDrop(th) PROVE Explained
    <2>0. th \in Threads
      BY DEF Threads
    <2>1. Only(th)
      BY <1>45, <2>0 DEF Only, TypeOK, FlushDrop, result, lists, client, errors, network, app,
         rest
    <2>2. /\ pc[th] = "fl_drop"
          /\ pc'[th] = "fl_send"
          /\ op'[th] = op[th]
          /\ cur'[th] = cur[th]
          /\ carry'[th] = {}
          /\ work'[th] = Null
      BY <1>45, <2>0 DEF TypeOK, FlushDrop, result, lists, client, errors, network, app, rest
    <2>3. CarryShape(th) /\ (th \in Users => OpShape(th))
      BY <2>0 DEF Shape
    <2>m. Moves(th)
      BY <1>45, <2>0, <2>2, <2>3 DEF Moves, Assigned, Numbered, Sends, Opens, Staged, Reports,
         SameTxn, HasTxn, Early, Flushed, LossPcs, TypeOK, FlushDrop, born, result, lists,
         client, errors, network, app, rest, OpShape, Calls, Sync, FlushPcs, CleanupPcs,
         DeletePcs
    <2>4. GivesUp(th)
      BY <1>45, <2>0, <2>2, <2>3 DEF GivesUp, Calm, SameHands, SameOutcome, SameCall, Took,
         Owes, Calling, Waits, TypeOK, FlushDrop, born, result, lists, client, errors, network,
         app, rest, CarryShape, OpShape, Calls, Sync
    <2>5. QED
      BY <2>0, <2>1, <2>4, <2>m DEF Effect
  <1>46. ASSUME LoseServer PROVE Explained
    <2>0. Loss \in Threads
      BY DEF Threads
    <2>1. Only(Loss)
      BY <1>46, <2>0 DEF Only, TypeOK, LoseServer, result, txnVars, lists, errors,
         hands
    <2>2. /\ pc[Loss] = "idle"
          /\ pc'[Loss] \in {"idle", "cu_queue"}
          /\ op'[Loss] = op[Loss]
          /\ cur'[Loss] = cur[Loss]
          /\ carry'[Loss] = carry[Loss]
          /\ work'[Loss] = work[Loss]
      BY <1>46, <2>0 DEF TypeOK, LoseServer, result, txnVars, lists, errors, hands
    <2>3. CarryShape(Loss)
      BY <2>0 DEF Shape
    <2>m. Moves(Loss)
      BY <1>46, <2>0, <2>2, <2>3 DEF Moves, Assigned, Numbered, Sends, Opens, Staged, Reports,
         SameTxn, HasTxn, Early, Flushed, LossPcs, TypeOK, LoseServer, born, result,
         txnVars, lists, errors, hands, OpShape, Calls, Sync, CleanupPcs
    <2>4. Quiet(Loss)
      BY <1>46, <2>0, <2>2, <2>3 DEF Quiet, Calm, SameHands, SameOutcome, SameCall, Took, Owes,
         Calling, Waits, TypeOK, LoseServer, born, result, txnVars, lists, errors,
         hands, CarryShape, OpShape, Calls, Sync
    <2>5. QED
      BY <2>0, <2>1, <2>4, <2>m DEF Effect
  <1>47. ASSUME Notify PROVE Explained
    <2>0. Loss \in Threads
      BY DEF Threads
    <2>1. Only(Loss)
      BY <1>47, <2>0 DEF Only, TypeOK, Notify, result, txnVars, lists, client, network, app,
         hands
    <2>2. /\ pc[Loss] = "notify"
          /\ pc'[Loss] \in {"err_call", "idle"}
          /\ op'[Loss] = op[Loss]
          /\ cur'[Loss] = cur[Loss]
          /\ carry'[Loss] = carry[Loss]
          /\ work'[Loss] = work[Loss]
      BY <1>47, <2>0 DEF TypeOK, Notify, result, txnVars, lists, client, network, app, hands
    <2>3. CarryShape(Loss)
      BY <2>0 DEF Shape
    <2>m. Moves(Loss)
      BY <1>47, <2>0, <2>2, <2>3 DEF Moves, Assigned, Numbered, Sends, Opens, Staged, Reports,
         SameTxn, HasTxn, Early, Flushed, LossPcs, TypeOK, Notify, born, result, txnVars, lists,
         client, network, app, hands, OpShape, Calls, Sync, CleanupPcs
    <2>4. Quiet(Loss)
      BY <1>47, <2>0, <2>2, <2>3 DEF Quiet, Calm, SameHands, SameOutcome, SameCall, Took, Owes,
         Calling, Waits, TypeOK, Notify, born, result, txnVars, lists, client, network, app,
         hands, CarryShape, OpShape, Calls, Sync
    <2>5. QED
      BY <2>0, <2>1, <2>4, <2>m DEF Effect
  <1>48. ASSUME ErrorCall PROVE Explained
    <2>0. Loss \in Threads
      BY DEF Threads
    <2>1. Only(Loss)
      BY <1>48, <2>0 DEF Only, TypeOK, ErrorCall, result, txnVars, lists, client, network, app,
         hands
    <2>2. /\ pc[Loss] = "err_call"
          /\ pc'[Loss] = "idle"
          /\ op'[Loss] = op[Loss]
          /\ cur'[Loss] = cur[Loss]
          /\ carry'[Loss] = carry[Loss]
          /\ work'[Loss] = work[Loss]
      BY <1>48, <2>0 DEF TypeOK, ErrorCall, result, txnVars, lists, client, network, app, hands
    <2>3. CarryShape(Loss)
      BY <2>0 DEF Shape
    <2>m. Moves(Loss)
      BY <1>48, <2>0, <2>2, <2>3 DEF Moves, Assigned, Numbered, Sends, Opens, Staged, Reports,
         SameTxn, HasTxn, Early, Flushed, LossPcs, TypeOK, ErrorCall, born, result, txnVars,
         lists, client, network, app, hands, OpShape, Calls, Sync, CleanupPcs
    <2>4. Quiet(Loss)
      BY <1>48, <2>0, <2>2, <2>3 DEF Quiet, Calm, SameHands, SameOutcome, SameCall, Took, Owes,
         Calling, Waits, TypeOK, ErrorCall, born, result, txnVars, lists, client, network, app,
         hands, CarryShape, OpShape, Calls, Sync
    <2>5. QED
      BY <2>0, <2>1, <2>4, <2>m DEF Effect
  <1>49. ASSUME Resume PROVE Explained
    <2>0. Resumer \in Threads
      BY DEF Threads
    <2>1. Only(Resumer)
      BY <1>49, <2>0 DEF Only, TypeOK, Resume, result, txnVars, lists, client, errors, app,
         hands
    <2>2. /\ pc[Resumer] = "idle"
          /\ pc'[Resumer] = "fl_addr"
          /\ op'[Resumer] = op[Resumer]
          /\ cur'[Resumer] = cur[Resumer]
          /\ carry'[Resumer] = carry[Resumer]
          /\ work'[Resumer] = work[Resumer]
      BY <1>49, <2>0 DEF TypeOK, Resume, result, txnVars, lists, client, errors, app, hands
    <2>3. CarryShape(Resumer)
      BY <2>0 DEF Shape
    <2>m. Moves(Resumer)
      BY <1>49, <2>0, <2>2, <2>3 DEF Moves, Assigned, Numbered, Sends, Opens, Staged, Reports,
         SameTxn, HasTxn, Early, Flushed, LossPcs, TypeOK, Resume, born, result, txnVars, lists,
         client, errors, app, hands, OpShape, Calls, Sync, CleanupPcs
    <2>4. Quiet(Resumer)
      BY <1>49, <2>0, <2>2, <2>3 DEF Quiet, Calm, SameHands, SameOutcome, SameCall, Took, Owes,
         Calling, Waits, TypeOK, Resume, born, result, txnVars, lists, client, errors, app,
         hands, CarryShape, OpShape, Calls, Sync
    <2>5. QED
      BY <2>0, <2>1, <2>4, <2>m DEF Effect
  <1>50. ASSUME Closed PROVE Explained
    <2>0. Rx \in Threads
      BY DEF Threads
    <2>1. Only(Rx)
      BY <1>50, <2>0 DEF Only, TypeOK, Closed, PutClient, result, txnVars, lists, errors, app,
         hands
    <2>2. /\ pc[Rx] = "idle"
          /\ pc'[Rx] = "idle"
          /\ op'[Rx] = op[Rx]
          /\ cur'[Rx] = cur[Rx]
          /\ carry'[Rx] = carry[Rx]
          /\ work'[Rx] = work[Rx]
      BY <1>50, <2>0 DEF TypeOK, Closed, PutClient, result, txnVars, lists, errors, app, hands
    <2>3. CarryShape(Rx)
      BY <2>0 DEF Shape
    <2>m. Moves(Rx)
      BY <1>50, <2>0, <2>2, <2>3 DEF Moves, Assigned, Numbered, Sends, Opens, Staged, Reports,
         SameTxn, HasTxn, Early, Flushed, LossPcs, TypeOK, Closed, PutClient, born, result,
         txnVars, lists, errors, app, hands, OpShape, Calls, Sync
    <2>4. Quiet(Rx)
      BY <1>50, <2>0, <2>2, <2>3 DEF Quiet, Calm, SameHands, SameOutcome, SameCall, Took, Owes,
         Calling, Waits, TypeOK, Closed, PutClient, born, result, txnVars, lists, errors, app,
         hands, CarryShape, OpShape, Calls, Sync
    <2>5. QED
      BY <2>0, <2>1, <2>4, <2>m DEF Effect
  <1>51. ASSUME Receive PROVE Explained
    <2>0. Rx \in Threads
      BY DEF Threads
    <2>1. Only(Rx)
      BY <1>51, <2>0 DEF Only, TypeOK, Receive, result, txnVars, client, errors, hands
    <2>2. /\ pc[Rx] = "idle"
          /\ pc'[Rx] \in {"idle", "found"}
          /\ op'[Rx] = op[Rx]
      BY <1>51, <2>0 DEF TypeOK, Receive, result, txnVars, client, errors, hands
    <2>3. CarryShape(Rx)
      BY <2>0 DEF Shape
    <2>m. Moves(Rx)
      BY <1>51, <2>0, <2>2, <2>3 DEF Moves, Assigned, Numbered, Sends, Opens, Staged, Reports,
         SameTxn, HasTxn, Early, Flushed, LossPcs, TypeOK, Receive, born, result, txnVars,
         client, errors, hands, OpShape, Calls, Sync, CleanupPcs
    <2>4. ASSUME list' # list PROVE TakesOut(Rx)
      BY <1>51, <2>0, <2>2, <2>3, <2>4 DEF TakesOut, Calm, SameHands, SameOutcome, SameCall,
         Took, Owes, Calling, Waits, TypeOK, Receive, born, result, txnVars, client, errors,
         hands, CarryShape, OpShape, Calls, Sync
    <2>5. ASSUME ~(list' # list) PROVE Quiet(Rx)
      BY <1>51, <2>0, <2>2, <2>3, <2>5 DEF Quiet, Calm, SameHands, SameOutcome, SameCall, Took,
         Owes, Calling, Waits, TypeOK, Receive, born, result, txnVars, client, errors, hands,
         CarryShape, OpShape, Calls, Sync
    <2>6. QED
      BY <2>0, <2>1, <2>4, <2>5, <2>m DEF Effect
  <1>52. ASSUME Mismatch PROVE Explained
    <2>0. Rx \in Threads
      BY DEF Threads
    <2>1. Only(Rx)
      BY <1>52, <2>0 DEF Only, TypeOK, Mismatch, lists, client, errors, network, app, rest,
         hands
    <2>2. /\ pc[Rx] = "found"
          /\ pc'[Rx] = "rx_drop"
          /\ op'[Rx] = op[Rx]
          /\ cur'[Rx] = cur[Rx]
          /\ carry'[Rx] = carry[Rx]
          /\ work'[Rx] = work[Rx]
      BY <1>52, <2>0 DEF TypeOK, Mismatch, lists, client, errors, network, app, rest, hands
    <2>3. CarryShape(Rx)
      BY <2>0 DEF Shape
    <2>m. Moves(Rx)
      BY <1>52, <2>0, <2>2, <2>3 DEF Moves, Assigned, Numbered, Sends, Opens, Staged, Reports,
         SameTxn, HasTxn, Early, Flushed, LossPcs, TypeOK, Mismatch, born, lists, client,
         errors, network, app, rest, hands, OpShape, Calls, Sync, CleanupPcs
    <2>4. Settles1(Rx)
      BY <1>52, <2>0, <2>2, <2>3 DEF Settles1, Calm, SameHands, SameOutcome, SameCall, Took,
         Owes, Calling, Waits, TypeOK, Mismatch, born, lists, client, errors, network, app,
         rest, hands, CarryShape, OpShape, Calls, Sync, Fail
    <2>5. QED
      BY <2>0, <2>1, <2>4, <2>m DEF Effect
  <1>53. ASSUME LockTxn PROVE Explained
    <2>0. Rx \in Threads
      BY DEF Threads
    <2>1. Only(Rx)
      BY <1>53, <2>0 DEF Only, TypeOK, LockTxn, result, txnVars, lists, client, errors, network,
         app, rest, hands
    <2>2. /\ pc[Rx] = "found"
          /\ pc'[Rx] \in {"decode", "rx_drop"}
          /\ op'[Rx] = op[Rx]
          /\ cur'[Rx] = cur[Rx]
          /\ carry'[Rx] = carry[Rx]
          /\ work'[Rx] = work[Rx]
      BY <1>53, <2>0 DEF TypeOK, LockTxn, result, txnVars, lists, client, errors, network, app,
         rest, hands
    <2>3. CarryShape(Rx)
      BY <2>0 DEF Shape
    <2>m. Moves(Rx)
      BY <1>53, <2>0, <2>2, <2>3 DEF Moves, Assigned, Numbered, Sends, Opens, Staged, Reports,
         SameTxn, HasTxn, Early, Flushed, LossPcs, TypeOK, LockTxn, born, result, txnVars,
         lists, client, errors, network, app, rest, hands, OpShape, Calls, Sync, CleanupPcs
    <2>4. ASSUME buf[work[Rx]] PROVE Quiet(Rx)
      BY <1>53, <2>0, <2>2, <2>3, <2>4 DEF Quiet, Calm, SameHands, SameOutcome, SameCall, Took,
         Owes, Calling, Waits, TypeOK, LockTxn, born, result, txnVars, lists, client, errors,
         network, app, rest, hands, CarryShape, OpShape, Calls, Sync
    <2>5. ASSUME ~(buf[work[Rx]]) PROVE Misses(Rx)
      BY <1>53, <2>0, <2>2, <2>3, <2>5 DEF Misses, Calm, SameHands, SameOutcome, SameCall, Took,
         Owes, Calling, Waits, TypeOK, LockTxn, born, result, txnVars, lists, client, errors,
         network, app, rest, hands, CarryShape, OpShape, Calls, Sync
    <2>6. QED
      BY <2>0, <2>1, <2>4, <2>5, <2>m DEF Effect
  <1>54. ASSUME Decode PROVE Explained
    <2>0. Rx \in Threads
      BY DEF Threads
    <2>1. Only(Rx)
      BY <1>54, <2>0 DEF Only, TypeOK, Decode, lists, client, errors, network, app, rest, hands
    <2>2. /\ pc[Rx] = "decode"
          /\ pc'[Rx] = "rx_drop"
          /\ op'[Rx] = op[Rx]
          /\ cur'[Rx] = cur[Rx]
          /\ carry'[Rx] = carry[Rx]
          /\ work'[Rx] = work[Rx]
      BY <1>54, <2>0 DEF TypeOK, Decode, lists, client, errors, network, app, rest, hands
    <2>3. CarryShape(Rx)
      BY <2>0 DEF Shape
    <2>m. Moves(Rx)
      BY <1>54, <2>0, <2>2, <2>3 DEF Moves, Assigned, Numbered, Sends, Opens, Staged, Reports,
         SameTxn, HasTxn, Early, Flushed, LossPcs, TypeOK, Decode, born, lists, client, errors,
         network, app, rest, hands, OpShape, Calls, Sync, CleanupPcs
    <2>4. Settles1(Rx)
      BY <1>54, <2>0, <2>2, <2>3 DEF Settles1, Calm, SameHands, SameOutcome, SameCall, Took,
         Owes, Calling, Waits, TypeOK, Decode, born, lists, client, errors, network, app, rest,
         hands, CarryShape, OpShape, Calls, Sync
    <2>5. QED
      BY <2>0, <2>1, <2>4, <2>m DEF Effect
  <1>55. ASSUME ReceiveDrop PROVE Explained
    <2>0. Rx \in Threads
      BY DEF Threads
    <2>1. Only(Rx)
      BY <1>55, <2>0 DEF Only, TypeOK, ReceiveDrop, result, lists, client, errors, network
    <2>2. /\ pc[Rx] = "rx_drop"
          /\ pc'[Rx] = "idle"
          /\ op'[Rx] = op[Rx]
          /\ cur'[Rx] = Null
          /\ carry'[Rx] = {}
          /\ work'[Rx] = Null
      BY <1>55, <2>0 DEF TypeOK, ReceiveDrop, result, lists, client, errors, network
    <2>3. CarryShape(Rx)
      BY <2>0 DEF Shape
    <2>m. Moves(Rx)
      BY <1>55, <2>0, <2>2, <2>3 DEF Moves, Assigned, Numbered, Sends, Opens, Staged, Reports,
         SameTxn, HasTxn, Early, Flushed, LossPcs, TypeOK, ReceiveDrop, born, result, lists,
         client, errors, network, OpShape, Calls, Sync, CleanupPcs
    <2>4. GivesUp(Rx)
      BY <1>55, <2>0, <2>2, <2>3 DEF GivesUp, Calm, SameHands, SameOutcome, SameCall, Took,
         Owes, Calling, Waits, TypeOK, ReceiveDrop, born, result, lists, client, errors,
         network, CarryShape, OpShape, Calls, Sync
    <2>5. QED
      BY <2>0, <2>1, <2>4, <2>m DEF Effect
  <1>56. ASSUME OpenPort PROVE Explained
    <2>0. Rx \in Threads
      BY DEF Threads
    <2>1. Only(Rx)
      BY <1>56, <2>0 DEF Only, TypeOK, OpenPort, PutClient, result, txnVars, lists, errors,
         hands
    <2>2. /\ op'[Rx] = op[Rx]
          /\ cur'[Rx] = cur[Rx]
          /\ carry'[Rx] = carry[Rx]
          /\ work'[Rx] = work[Rx]
          /\ pc'[Rx] = pc[Rx]
      BY <1>56, <2>0 DEF TypeOK, OpenPort, PutClient, result, txnVars, lists, errors, hands
    <2>3. CarryShape(Rx)
      BY <2>0 DEF Shape
    <2>m. Moves(Rx)
      BY <1>56, <2>0, <2>2, <2>3 DEF Moves, Assigned, Numbered, Sends, Opens, Staged, Reports,
         SameTxn, HasTxn, Early, Flushed, LossPcs, TypeOK, OpenPort, PutClient, born, result,
         txnVars, lists, errors, hands, OpShape, Calls, Sync
    <2>4. Quiet(Rx)
      BY <1>56, <2>0, <2>2, <2>3 DEF Quiet, Calm, SameHands, SameOutcome, SameCall, Took, Owes,
         Calling, Waits, TypeOK, OpenPort, PutClient, born, result, txnVars, lists, errors,
         hands, CarryShape, OpShape, Calls, Sync
    <2>5. QED
      BY <2>0, <2>1, <2>4, <2>m DEF Effect
  <1>56a. ASSUME AddXport PROVE Explained
    <2>0. Rx \in Threads
      BY DEF Threads
    <2>1. Only(Rx)
      BY <1>56a, <2>0 DEF Only, TypeOK, AddXport, PutClient, result, txnVars, lists, errors,
         network, hands
    <2>2. /\ op'[Rx] = op[Rx]
          /\ cur'[Rx] = cur[Rx]
          /\ carry'[Rx] = carry[Rx]
          /\ work'[Rx] = work[Rx]
          /\ pc'[Rx] = pc[Rx]
      BY <1>56a, <2>0 DEF TypeOK, AddXport, PutClient, result, txnVars, lists, errors, network,
         hands
    <2>3. CarryShape(Rx)
      BY <2>0 DEF Shape
    <2>m. Moves(Rx)
      BY <1>56a, <2>0, <2>2, <2>3 DEF Moves, Assigned, Numbered, Sends, Opens, Staged, Reports,
         SameTxn, HasTxn, Early, Flushed, LossPcs, TypeOK, AddXport, PutClient, born, result,
         txnVars, lists, errors, network, hands, OpShape, Calls, Sync
    <2>4. Quiet(Rx)
      BY <1>56a, <2>0, <2>2, <2>3 DEF Quiet, Calm, SameHands, SameOutcome, SameCall, Took, Owes,
         Calling, Waits, TypeOK, AddXport, PutClient, born, result, txnVars, lists, errors,
         network, hands, CarryShape, OpShape, Calls, Sync
    <2>5. QED
      BY <2>0, <2>1, <2>4, <2>m DEF Effect
  <1>57. ASSUME FillAddress PROVE Explained
    <2>0. Rx \in Threads
      BY DEF Threads
    <2>1. Only(Rx)
      BY <1>57, <2>0 DEF Only, TypeOK, FillAddress, PutClient, result, txnVars, lists, errors,
         network, hands
    <2>2. /\ op'[Rx] = op[Rx]
          /\ cur'[Rx] = cur[Rx]
          /\ carry'[Rx] = carry[Rx]
          /\ work'[Rx] = work[Rx]
          /\ pc'[Rx] = pc[Rx]
      BY <1>57, <2>0 DEF TypeOK, FillAddress, PutClient, result, txnVars, lists, errors,
         network, hands
    <2>3. CarryShape(Rx)
      BY <2>0 DEF Shape
    <2>m. Moves(Rx)
      BY <1>57, <2>0, <2>2, <2>3 DEF Moves, Assigned, Numbered, Sends, Opens, Staged, Reports,
         SameTxn, HasTxn, Early, Flushed, LossPcs, TypeOK, FillAddress, PutClient, born, result,
         txnVars, lists, errors, network, hands, OpShape, Calls, Sync
    <2>4. Quiet(Rx)
      BY <1>57, <2>0, <2>2, <2>3 DEF Quiet, Calm, SameHands, SameOutcome, SameCall, Took, Owes,
         Calling, Waits, TypeOK, FillAddress, PutClient, born, result, txnVars, lists, errors,
         network, hands, CarryShape, OpShape, Calls, Sync
    <2>5. QED
      BY <2>0, <2>1, <2>4, <2>m DEF Effect
  <1>58. ASSUME LookupAgain PROVE Explained
    <2>0. Rx \in Threads
      BY DEF Threads
    <2>1. Only(Rx)
      BY <1>58, <2>0 DEF Only, TypeOK, LookupAgain, PutClient, result, txnVars, lists, errors,
         hands
    <2>2. /\ op'[Rx] = op[Rx]
          /\ cur'[Rx] = cur[Rx]
          /\ carry'[Rx] = carry[Rx]
          /\ work'[Rx] = work[Rx]
          /\ pc'[Rx] = pc[Rx]
      BY <1>58, <2>0 DEF TypeOK, LookupAgain, PutClient, result, txnVars, lists, errors, hands
    <2>3. CarryShape(Rx)
      BY <2>0 DEF Shape
    <2>m. Moves(Rx)
      BY <1>58, <2>0, <2>2, <2>3 DEF Moves, Assigned, Numbered, Sends, Opens, Staged, Reports,
         SameTxn, HasTxn, Early, Flushed, LossPcs, TypeOK, LookupAgain, PutClient, born, result,
         txnVars, lists, errors, hands, OpShape, Calls, Sync
    <2>4. Quiet(Rx)
      BY <1>58, <2>0, <2>2, <2>3 DEF Quiet, Calm, SameHands, SameOutcome, SameCall, Took, Owes,
         Calling, Waits, TypeOK, LookupAgain, PutClient, born, result, txnVars, lists, errors,
         hands, CarryShape, OpShape, Calls, Sync
    <2>5. QED
      BY <2>0, <2>1, <2>4, <2>m DEF Effect
  <1>59. ASSUME ServerGone PROVE Explained
    <2>0. Rx \in Threads
      BY DEF Threads
    <2>1. Only(Rx)
      BY <1>59, <2>0 DEF Only, TypeOK, ServerGone, result, txnVars, client, app, lists, errors,
         hands
    <2>2. /\ op'[Rx] = op[Rx]
          /\ cur'[Rx] = cur[Rx]
          /\ carry'[Rx] = carry[Rx]
          /\ work'[Rx] = work[Rx]
          /\ pc'[Rx] = pc[Rx]
      BY <1>59, <2>0 DEF TypeOK, ServerGone, result, txnVars, client, app, lists, errors, hands
    <2>3. CarryShape(Rx)
      BY <2>0 DEF Shape
    <2>m. Moves(Rx)
      BY <1>59, <2>0, <2>2, <2>3 DEF Moves, Assigned, Numbered, Sends, Opens, Staged, Reports,
         SameTxn, HasTxn, Early, Flushed, LossPcs, TypeOK, ServerGone, born, result, txnVars,
         client, app, lists, errors, hands, OpShape, Calls, Sync
    <2>4. Quiet(Rx)
      BY <1>59, <2>0, <2>2, <2>3 DEF Quiet, Calm, SameHands, SameOutcome, SameCall, Took, Owes,
         Calling, Waits, TypeOK, ServerGone, born, result, txnVars, client, app, lists, errors,
         hands, CarryShape, OpShape, Calls, Sync
    <2>5. QED
      BY <2>0, <2>1, <2>4, <2>m DEF Effect
  <1>60. QED
    BY <1>1, <1>2, <1>3, <1>4, <1>5, <1>6, <1>7, <1>8, <1>9, <1>10, <1>11, <1>12, <1>13, <1>14,
       <1>15, <1>16,
       <1>17, <1>18, <1>19, <1>20, <1>21, <1>22, <1>23, <1>24, <1>25, <1>26, <1>27, <1>28, <1>29, <1>30,
       <1>31, <1>32, <1>33, <1>34, <1>35, <1>36, <1>37, <1>38, <1>39, <1>40, <1>41, <1>42, <1>43, <1>44,
       <1>45, <1>46, <1>47, <1>48, <1>49, <1>50, <1>51, <1>52, <1>53, <1>54, <1>55, <1>56,
       <1>56a, <1>57, <1>58, <1>59, Zenon
    DEF Next, Call, Delete, Release, Register, Cleanup, Flush, Router, Opening

-----------------------------------------------------------------------------
(***************************************************************************)
(* One holder, one report, one buffer                                      *)
(***************************************************************************)

\* A step leaves the other threads' hands and calls alone.
LEMMA OthersKept ==
  ASSUME NEW th \in Threads, Only(th)
  PROVE  /\ \A x \in Threads \ {th}, t \in Txns : /\ Took(x, t)' <=> Took(x, t)
                                                  /\ Owes(x, t)' <=> Owes(x, t)
         /\ \A x \in Users \ {th} : /\ Calling(x)' <=> Calling(x)
                                    /\ Waits(x)' <=> Waits(x)
                                    /\ HasTxn(x)' <=> HasTxn(x)
                                    /\ cur'[x] = cur[x]
  BY DEF Only, Took, Owes, Calling, Waits, HasTxn, Threads

\* A transaction keeps its kind once it is made.
LEMMA OldTxns ==
  ASSUME TypeOK, NEW th, Effect(th)
  PROVE  used \subseteq used' /\ \A t \in used : kind'[t] = kind[t]
  <1>1. CASE Born(th) BY <1>1 DEF Born, TypeOK
  <1>2. CASE ~Born(th)
    BY <1>2 DEF Effect, Calm, Quiet, Signalled, TakesOut, Cancels, Settles1, Misses, GivesUp,
       Invalidates, Withdraws, Returns
  <1> QED BY <1>1, <1>2

\* A thread that still has to report a transaction has it.
LEMMA OwesTook ==
  ASSUME NEW th, NEW t, Owes(th, t)
  PROVE  Took(th, t)
  BY DEF Owes, Took

\* Calls stay with transactions of their kind.
LEMMA KindsStep ==
  ASSUME TypeOK, Shape, Kinds, NEW th \in Threads, Only(th), Effect(th), Moves(th)
  PROVE  Kinds'
  <1>1. \A t \in used : kind'[t] = kind[t] BY OldTxns
  <1>2. ASSUME NEW u \in Users, HasTxn(u)' PROVE kind'[cur'[u]] = op'[u]
    <2>1. CASE u # th
      <3>1. HasTxn(u) /\ cur'[u] = cur[u] /\ op'[u] = op[u]
        BY <1>2, <2>1 DEF Only, HasTxn, Threads
      <3>2. cur[u] \in used BY <3>1 DEF Shape, CurShape, HasTxn
      <3> QED BY <1>1, <3>1, <3>2 DEF Kinds
    <2>2. CASE u = th
      <3>1. CASE HasTxn(u) /\ SameTxn(u)
        <4>1. cur[u] \in used BY <3>1 DEF Shape, CurShape, HasTxn
        <4> QED BY <1>1, <3>1, <4>1 DEF Kinds, SameTxn
      <3>2. CASE ~(HasTxn(u) /\ SameTxn(u))
        BY <1>2, <2>2, <3>2 DEF Moves, Assigned
      <3> QED BY <3>1, <3>2
    <2> QED BY <2>1, <2>2
  <1>3. ASSUME NEW u \in Users, pc'[u] \in DeletePcs PROVE kind'[cur'[u]] = "async"
    <2>1. CASE pc[u] \in DeletePcs /\ SameTxn(u)
      <3>1. cur[u] \in used BY <2>1 DEF Shape, CurShape, OpShape, DeletePcs
      <3> QED BY <1>1, <2>1, <3>1 DEF Kinds, SameTxn
    <2>2. CASE ~(pc[u] \in DeletePcs /\ SameTxn(u))
      <3>1. u = th BY <1>3, <2>2 DEF Only, SameTxn, Threads
      <3>2. cur'[u] \in handles BY <1>3, <2>2, <3>1 DEF Moves, Assigned
      <3> QED BY <1>1, <3>2 DEF Kinds, Shape
    <2> QED BY <2>1, <2>2
  <1>4. ASSUME NEW t \in handles' PROVE kind'[t] = "async"
    <2>1. CASE t \in handles BY <1>1, <2>1 DEF Kinds, Shape
    <2>2. CASE t \notin handles
      <3>1. th \in Users /\ pc[th] = "put_handle" /\ t = cur[th]
        BY <1>4, <2>2 DEF Moves, Assigned
      <3>2. op[th] = "async" /\ HasTxn(th) BY <3>1 DEF Shape, OpShape, HasTxn, Calls
      <3>3. cur[th] \in used BY <3>1, <3>2 DEF Shape, CurShape, HasTxn
      <3> QED BY <1>1, <3>1, <3>2, <3>3 DEF Kinds
    <2> QED BY <2>1, <2>2
  <1> QED BY <1>2, <1>3, <1>4 DEF Kinds

\* A transaction taken out of txn_list is with the thread that took it.
LEMMA OneHolderStep ==
  ASSUME TypeOK, Shape, OneHolder, NEW th \in Threads, Only(th), Effect(th)
  PROVE  OneHolder'
  <1> SUFFICES ASSUME NEW t \in Txns
               PROVE  /\ t \in list' => \A x \in Threads : ~Took(x, t)'
                      /\ \A x, y \in Threads : Took(x, t)' /\ Took(y, t)' => x = y
    BY DEF OneHolder
  <1>1. \A x \in Threads \ {th} : Took(x, t)' <=> Took(x, t) BY OthersKept
  <1>2. /\ t \in list => \A x \in Threads : ~Took(x, t)
        /\ \A x, y \in Threads : Took(x, t) /\ Took(y, t) => x = y
    BY DEF OneHolder
  <1>3. CASE TakesOut(th)
    <2>1. list' \subseteq list /\ (Took(th, t)' <=> t \in list \ list')
      BY <1>3 DEF TakesOut
    <2> QED BY <1>1, <1>2, <2>1
  <1>4. CASE Cancels(th)
    <2>1. list' = list \ {cur[th]} /\ cur[th] \in list /\ (Took(th, t)' <=> t = cur[th])
      BY <1>4 DEF Cancels
    <2> QED BY <1>1, <1>2, <2>1
  <1>5. CASE Born(th)
    <2>1. Took(th, t)' <=> Took(th, t) BY <1>5 DEF Born, SameHands
    <2>2. PICK b \in Txns \ used : list' = list \cup {b} BY <1>5 DEF Born
    <2>3. t = b => \A x \in Threads : ~Took(x, t) BY DEF Took, Shape, CarryShape
    <2> QED BY <1>1, <1>2, <2>1, <2>2, <2>3
  <1>6. CASE GivesUp(th) \/ Settles1(th) \/ Misses(th)
    <2>1. list' = list /\ (Took(th, t)' => Took(th, t))
      BY <1>6 DEF GivesUp, Settles1, Misses
    <2> QED BY <1>1, <1>2, <2>1
  <1>7. CASE Quiet(th) \/ Signalled(th) \/ Invalidates(th) \/ Withdraws(th) \/ Returns(th)
    <2>1. list' \subseteq list /\ (Took(th, t)' <=> Took(th, t))
      BY <1>7 DEF Quiet, Signalled, Invalidates, Withdraws, Returns, SameHands
    <2> QED BY <1>1, <1>2, <2>1
  <1> QED BY <1>3, <1>4, <1>5, <1>6, <1>7 DEF Effect

\* When its own stage stays, a step changes neither the callers nor the waiters.
LEMMA WaitersStay ==
  ASSUME NEW th \in Threads, Only(th), SameCall(th)
  PROVE  \A t \in Txns : /\ HasCaller(t)' <=> HasCaller(t)
                         /\ HasWaiter(t)' <=> HasWaiter(t)
  <1>1. \A x \in Users : /\ Calling(x)' <=> Calling(x)
                         /\ Waits(x)' <=> Waits(x)
                         /\ Calling(x) => cur'[x] = cur[x]
    BY OthersKept DEF SameCall
  <1>2. \A x \in Users : Waits(x) => Calling(x) BY DEF Waits
  <1> QED BY <1>1, <1>2 DEF HasCaller, HasWaiter

\* A transaction in txn_list is with no thread, one with a thread is with no other.
LEMMA DueOnce ==
  ASSUME OneHolder, NEW t \in Txns
  PROVE  /\ t \in list => \A x \in Threads : ~Took(x, t) /\ ~Owes(x, t)
         /\ \A th \in Threads : Took(th, t) =>
              t \notin list /\ \A x \in Threads \ {th} : ~Took(x, t) /\ ~Owes(x, t)
  BY OwesTook DEF OneHolder

\* What is due after a step was due before it, or is new.
LEMMA DueStep ==
  ASSUME TypeOK, NEW th \in Threads, Only(th), Effect(th), NEW t \in Txns, Due(t)'
  PROVE  Due(t) \/ (t \in used' \ used /\ Born(th))
  <1>1. \A x \in Threads \ {th} : Owes(x, t)' <=> Owes(x, t) BY OthersKept
  <1>2. CASE Born(th)
    <2>1. Owes(th, t)' <=> Owes(th, t) BY <1>2 DEF Born, SameHands
    <2>2. PICK b \in Txns \ used : used' = used \cup {b} /\ list' = list \cup {b}
      BY <1>2 DEF Born
    <2> QED BY <1>1, <1>2, <2>1, <2>2 DEF Due
  <1>3. CASE TakesOut(th)
    <2>1. list' \subseteq list /\ (Owes(th, t)' <=> t \in list \ list')
      BY <1>3 DEF TakesOut
    <2> QED BY <1>1, <2>1 DEF Due
  <1>4. CASE Cancels(th)
    <2>1. list' \subseteq list /\ ~Owes(th, t)' BY <1>4 DEF Cancels
    <2> QED BY <1>1, <2>1 DEF Due
  <1>5. CASE Settles1(th) \/ Misses(th)
    <2>1. list' = list /\ (Owes(th, t)' => Owes(th, t))
      BY <1>5 DEF Settles1, Misses
    <2> QED BY <1>1, <2>1 DEF Due
  <1>6. CASE GivesUp(th)
    <2>1. list' = list /\ (Owes(th, t)' <=> Owes(th, t)) BY <1>6 DEF GivesUp
    <2> QED BY <1>1, <2>1 DEF Due
  <1>7. CASE Quiet(th) \/ Signalled(th) \/ Invalidates(th) \/ Withdraws(th) \/ Returns(th)
    <2>1. list' \subseteq list /\ (Owes(th, t)' <=> Owes(th, t))
      BY <1>7 DEF Quiet, Signalled, Invalidates, Withdraws, Returns, SameHands
    <2> QED BY <1>1, <2>1 DEF Due
  <1> QED BY <1>2, <1>3, <1>4, <1>5, <1>6, <1>7 DEF Effect

\* What a synchronous call works on is its own, and of its kind.
LEMMA OwnKind ==
  ASSUME Kinds, Shape, OwnTxns, NEW u \in Users, Calling(u)
  PROVE  /\ kind[cur[u]] \in Sync /\ cur[u] \in used
         /\ \A x \in Users : Calling(x) /\ cur[x] = cur[u] => x = u
  BY DEF Kinds, Shape, CurShape, OwnTxns, Calling, HasTxn, Calls

\* A buffer stays set as long as an answer may be decoded into it.
LEMMA BuffersStep ==
  ASSUME TypeOK, Shape, OwnTxns, Kinds, OneHolder, Buffers,
         NEW th \in Threads, Only(th), Effect(th), Moves(th)
  PROVE  Buffers'
  <1>1. pc'[Rx] = "decode" => buf'[work'[Rx]]
    <2> SUFFICES ASSUME pc'[Rx] = "decode" PROVE buf'[work'[Rx]]
      OBVIOUS
    <2>1. /\ pc[Rx] \in {"found", "decode"} /\ work'[Rx] = work[Rx]
          /\ pc[Rx] = "decode" \/ (buf[work[Rx]] /\ buf' = buf)
      BY DEF Only, Moves, Sends, Threads
    <2>2. work[Rx] \in Txns BY <2>1 DEF Shape, CarryShape, TypeOK, Threads
    <2>3. CASE pc[Rx] # "decode" BY <2>1, <2>3
    <2>4. CASE pc[Rx] = "decode"
      <3>1. buf[work[Rx]] BY <2>4 DEF Buffers
      <3>2. CASE GivesUp(th) \/ Invalidates(th)
        BY <2>1, <2>2, <2>4, <3>1, <3>2 DEF GivesUp, Invalidates, Locked, TypeOK
      <3>3. CASE Born(th)
        <4>1. PICK b \in Txns : buf' = [buf EXCEPT ![b] = TRUE] BY <3>3 DEF Born
        <4> QED BY <2>1, <2>2, <3>1, <4>1 DEF TypeOK
      <3>4. CASE ~(GivesUp(th) \/ Invalidates(th) \/ Born(th))
        <4>1. buf' = buf
          BY <3>4 DEF Effect, Calm, Quiet, Signalled, TakesOut, Cancels, Settles1, Misses,
             Withdraws, Returns
        <4> QED BY <2>1, <3>1, <4>1
      <3> QED BY <3>2, <3>3, <3>4
    <2> QED BY <2>3, <2>4
  <1>2. ASSUME NEW t \in Txns, Due(t)', kind'[t] = "async" \/ HasWaiter(t)'
        PROVE  buf'[t]
    <2>1. CASE Born(th)
      <3>1. PICK b \in Txns \ used : /\ used' = used \cup {b} /\ cur'[th] = b
                                     /\ kind' = [kind EXCEPT ![b] = op[th]]
                                     /\ buf' = [buf EXCEPT ![b] = TRUE]
        BY <2>1 DEF Born
      <3>2. CASE t = b BY <3>1, <3>2 DEF TypeOK
      <3>3. CASE t # b
        <4>1. HasWaiter(t)' => HasWaiter(t)
          BY <3>1, <3>3, OthersKept DEF HasWaiter
        <4>2. Due(t) BY <1>2, <3>1, <3>3, DueStep
        <4>3. kind'[t] = kind[t] /\ buf'[t] = buf[t] BY <3>1, <3>3 DEF TypeOK
        <4> QED BY <1>2, <4>1, <4>2, <4>3 DEF Buffers
      <3> QED BY <3>2, <3>3
    <2>2. CASE ~Born(th)
      <3>1. Due(t) BY <1>2, <2>2, DueStep
      <3>2. t \in used BY <3>1 DEF Due, Owes, Shape, CarryShape
      <3>3. kind'[t] = kind[t] BY <3>2, OldTxns
      <3>4. CASE Invalidates(th)
        <4>1. Calling(th) /\ th \in Users /\ ~Waits(th)' BY <3>4 DEF Invalidates, Waits
        <4>2. HasWaiter(t)' => HasWaiter(t) /\ t # cur[th]
          BY <4>1, OthersKept, OwnKind DEF HasWaiter, Waits
        <4>3. kind[cur[th]] # "async" BY <4>1, OwnKind DEF Sync
        <4>4. t # cur[th] => buf'[t] = buf[t] BY <3>4 DEF Invalidates, TypeOK
        <4> QED BY <1>2, <3>1, <3>3, <4>2, <4>3, <4>4 DEF Buffers
      <3>5. CASE GivesUp(th)
        <4>1. SameCall(th) BY <3>5 DEF GivesUp
        <4>2. HasWaiter(t)' <=> HasWaiter(t) BY <4>1, WaitersStay
        <4>3. PICK x \in Txns : /\ Took(th, x) /\ ~Owes(th, x)
                                /\ buf' = buf \/ buf' = [buf EXCEPT ![x] = FALSE]
          BY <3>5 DEF GivesUp
        <4>4. ~Due(x) BY <4>3, DueOnce DEF Due
        <4>5. buf'[t] = buf[t] BY <3>1, <4>3, <4>4 DEF TypeOK
        <4> QED BY <1>2, <3>1, <3>3, <4>2, <4>5 DEF Buffers
      <3>6. CASE Returns(th)
        <4>1. HasWaiter(t)' => HasWaiter(t)
          BY <3>6, OthersKept DEF Returns, HasWaiter, Waits
        <4>2. buf' = buf BY <3>6 DEF Returns
        <4> QED BY <1>2, <3>1, <3>3, <4>1, <4>2 DEF Buffers
      <3>7. CASE ~(Invalidates(th) \/ GivesUp(th) \/ Returns(th))
        <4>1. SameCall(th) /\ buf' = buf
          BY <2>2, <3>7 DEF Effect, Calm, Quiet, Signalled, TakesOut, Cancels, Settles1,
             Misses, Withdraws
        <4>2. HasWaiter(t)' <=> HasWaiter(t) BY <4>1, WaitersStay
        <4> QED BY <1>2, <3>1, <3>3, <4>1, <4>2 DEF Buffers
      <3> QED BY <3>4, <3>5, <3>6, <3>7
    <2> QED BY <2>1, <2>2
  <1>3. ASSUME NEW t \in used', kind'[t] \in Sync, buf'[t] PROVE HasWaiter(t)'
    <2>1. CASE Born(th)
      <3>1. PICK b \in Txns \ used : /\ used' = used \cup {b} /\ cur'[th] = b
                                     /\ kind' = [kind EXCEPT ![b] = op[th]]
                                     /\ buf' = [buf EXCEPT ![b] = TRUE]
        BY <2>1 DEF Born
      <3>2. CASE t = b
        <4>1. op[th] \in Sync BY <1>3, <3>1, <3>2 DEF TypeOK
        <4> QED BY <2>1, <3>1, <3>2, <4>1 DEF Born, HasWaiter
      <3>3. CASE t # b
        <4>1. t \in used /\ kind'[t] = kind[t] /\ buf'[t] = buf[t]
          BY <3>1, <3>3 DEF TypeOK
        <4>2. HasWaiter(t) BY <1>3, <4>1 DEF Buffers
        <4>3. ~Waits(th) BY <2>1 DEF Born, Waits, Calling
        <4> QED BY <4>2, <4>3, OthersKept DEF HasWaiter
      <3> QED BY <3>2, <3>3
    <2>2. CASE ~Born(th)
      <3>1. t \in used /\ kind'[t] = kind[t]
        <4>1. used' = used
          BY <2>2 DEF Effect, Calm, Quiet, Signalled, TakesOut, Cancels, Settles1, Misses,
             GivesUp, Invalidates, Withdraws, Returns
        <4> QED BY <4>1, OldTxns
      <3>2. CASE Invalidates(th)
        <4>1. t # cur[th] /\ buf'[t] = buf[t]
          BY <1>3, <3>2, <3>1 DEF Invalidates, TypeOK
        <4>2. HasWaiter(t) BY <1>3, <3>1, <4>1 DEF Buffers
        <4> QED BY <4>1, <4>2, OthersKept DEF HasWaiter
      <3>3. CASE GivesUp(th)
        <4>1. SameCall(th) BY <3>3 DEF GivesUp
        <4>2. buf[t]
          BY <1>3, <3>1, <3>3 DEF GivesUp, TypeOK
        <4>3. HasWaiter(t) BY <1>3, <3>1, <4>2 DEF Buffers
        <4> QED BY <3>1, <4>1, <4>3, WaitersStay DEF TypeOK
      <3>4. CASE Returns(th)
        <4>1. buf' = buf /\ ~Waits(th) BY <3>4 DEF Returns
        <4>2. HasWaiter(t) BY <1>3, <3>1, <4>1 DEF Buffers
        <4> QED BY <4>1, <4>2, OthersKept DEF HasWaiter
      <3>5. CASE ~(Invalidates(th) \/ GivesUp(th) \/ Returns(th))
        <4>1. SameCall(th) /\ buf' = buf
          BY <2>2, <3>5 DEF Effect, Calm, Quiet, Signalled, TakesOut, Cancels, Settles1,
             Misses, Withdraws
        <4>2. HasWaiter(t) BY <1>3, <3>1, <4>1 DEF Buffers
        <4> QED BY <3>1, <4>1, <4>2, WaitersStay DEF TypeOK
      <3> QED BY <3>2, <3>3, <3>4, <3>5
    <2> QED BY <2>1, <2>2
  <1> QED BY <1>1, <1>2, <1>3 DEF Buffers

\* A step that reports nothing and changes neither callers nor what is due keeps the reports.
LEMMA ReportFrame ==
  ASSUME NEW t, ReportOf(t), reports'[t] = reports[t], t \in used' <=> t \in used,
         kind'[t] = kind[t], kind[t] = "async" => (Due(t)' <=> Due(t)),
         kind[t] \in Sync => (HasCaller(t)' <=> HasCaller(t))
  PROVE  ReportOf(t)'
  BY DEF ReportOf

\* What is reported is one outcome of each transaction, when it is due or its call returns.
LEMMA ReportedStep ==
  ASSUME TypeOK, Shape, OwnTxns, Kinds, OneHolder, Buffers, Reported,
         NEW th \in Threads, Only(th), Effect(th)
  PROVE  Reported'
  <1> SUFFICES ASSUME NEW t \in Txns PROVE ReportOf(t)'
    BY DEF Reported
  <1>1. ReportOf(t) BY DEF Reported
  <1>2. \A x \in Threads \ {th} : Owes(x, t)' <=> Owes(x, t) BY OthersKept
  <1>3. Due(t) => t \in used BY DEF Due, Owes, Shape, CarryShape
  <1>4. CASE Born(th)
    <2>1. PICK b \in Txns \ used : /\ used' = used \cup {b} /\ cur'[th] = b
                                   /\ kind' = [kind EXCEPT ![b] = op[th]]
                                   /\ list' = list \cup {b}
      BY <1>4 DEF Born
    <2>2. reports' = reports /\ ~Calling(th) /\ (op[th] \in Sync => Calling(th)')
      BY <1>4 DEF Born, SameOutcome, Calling, Waits
    <2>3. CASE t = b
      <3>1. reports'[t] = 0 BY <1>1, <2>1, <2>2, <2>3 DEF ReportOf
      <3>2. Due(t)' BY <2>1, <2>3 DEF Due
      <3>3. op[th] \in Sync => HasCaller(t)' BY <1>4, <2>1, <2>2, <2>3 DEF HasCaller, Born
      <3>4. kind'[t] = op[th] BY <2>1, <2>3 DEF TypeOK
      <3>5. op[th] \in Calls BY <1>4 DEF Born
      <3> QED BY <3>1, <3>2, <3>3, <3>4, <3>5 DEF ReportOf, Calls
    <2>4. CASE t # b
      <3>1. Owes(th, t)' <=> Owes(th, t) BY <1>4 DEF Born, SameHands
      <3>2. Due(t)' <=> Due(t) BY <1>2, <2>1, <2>4, <3>1 DEF Due
      <3>3. HasCaller(t)' <=> HasCaller(t)
        BY <2>1, <2>2, <2>4, OthersKept DEF HasCaller
      <3>4. kind'[t] = kind[t] /\ (t \in used' <=> t \in used)
        BY <2>1, <2>4 DEF TypeOK
      <3> QED BY <1>1, <2>2, <3>2, <3>3, <3>4, ReportFrame
    <2> QED BY <2>3, <2>4
  <1>5. CASE Returns(th)
    <2>1. th \in Users /\ Calling(th) /\ ~Calling(th)' BY <1>5 DEF Returns
    <2>2. reports' = [reports EXCEPT ![cur[th]] = @ + 1] BY <1>5 DEF Returns
    <2>3. used' = used /\ kind' = kind BY <1>5 DEF Returns
    <2>4. kind[cur[th]] \in Sync /\ cur[th] \in used BY <2>1, OwnKind
    <2>5. CASE t = cur[th]
      <3>1. HasCaller(t) BY <2>1, <2>5 DEF HasCaller
      <3>2. ~HasCaller(t)'
        BY <2>1, <2>5, OthersKept, OwnKind DEF HasCaller
      <3>3. reports[t] = 0 BY <1>1, <2>4, <2>5, <3>1 DEF ReportOf
      <3>4. reports'[t] = 1 BY <2>2, <2>5, <3>3 DEF TypeOK
      <3> QED BY <2>3, <2>4, <2>5, <3>2, <3>4 DEF ReportOf, Sync
    <2>6. CASE t # cur[th]
      <3>1. reports'[t] = reports[t] BY <2>2, <2>6 DEF TypeOK
      <3>2. Due(t)' <=> Due(t) BY <1>2, <1>5 DEF Due, Returns, SameHands
      <3>3. HasCaller(t)' <=> HasCaller(t)
        BY <2>1, <2>6, OthersKept DEF HasCaller
      <3> QED BY <1>1, <2>3, <3>1, <3>2, <3>3, ReportFrame
    <2> QED BY <2>5, <2>6
  <1>6. CASE ~(Born(th) \/ Returns(th))
    <2>1. used' = used /\ kind' = kind
      BY <1>6 DEF Effect, Calm, Quiet, Signalled, TakesOut, Cancels, Settles1, Misses,
         GivesUp, Invalidates, Withdraws
    <2>2. HasCaller(t)' <=> HasCaller(t)
      <3>1. CASE Invalidates(th)
        BY <3>1, OthersKept DEF Invalidates, HasCaller, Waits
      <3>2. CASE ~Invalidates(th)
        <4>1. SameCall(th)
          BY <1>6, <3>2 DEF Effect, Calm, Quiet, Signalled, TakesOut, Cancels, Settles1,
             Misses, GivesUp, Withdraws
        <4> QED BY <4>1, WaitersStay
      <3> QED BY <3>1, <3>2
    <2>3. ASSUME reports'[t] = reports[t], kind[t] = "async" => (Due(t)' <=> Due(t))
          PROVE  ReportOf(t)'
      BY <1>1, <2>1, <2>2, <2>3, ReportFrame
    <2>4. ASSUME kind[t] = "async", Due(t), ~Due(t)', reports'[t] = reports[t] + 1
          PROVE  ReportOf(t)'
      <3>1. reports[t] = 0 BY <1>1, <2>4 DEF ReportOf
      <3> QED BY <1>3, <2>1, <2>4, <3>1 DEF ReportOf, Sync
    <2>5. CASE Quiet(th) \/ Signalled(th) \/ Invalidates(th) \/ GivesUp(th)
      <3>1. reports' = reports /\ list' = list /\ (Owes(th, t)' <=> Owes(th, t))
        BY <2>5 DEF Quiet, Signalled, Invalidates, GivesUp, SameHands, SameOutcome
      <3>2. Due(t)' <=> Due(t) BY <1>2, <3>1 DEF Due
      <3> QED BY <2>3, <3>1, <3>2
    <2>6. CASE TakesOut(th)
      <3>1. /\ list' \subseteq list /\ (Owes(th, t)' <=> t \in list \ list')
            /\ ~Took(th, t) /\ reports' = reports
        BY <2>6 DEF TakesOut, SameOutcome
      <3>2. Due(t)' <=> Due(t) BY <1>2, <3>1, OwesTook DEF Due
      <3> QED BY <2>3, <3>1, <3>2
    <2>7. CASE Cancels(th)
      <3>1. /\ cur[th] \in list /\ list' = list \ {cur[th]} /\ th \in Users
            /\ reports' = [reports EXCEPT ![cur[th]] = @ + 1]
            /\ ~Took(th, t) /\ ~Owes(th, t)' /\ pc[th] = "del_list"
        BY <2>7 DEF Cancels
      <3>2. CASE t = cur[th]
        <4>1. kind[t] = "async" BY <3>1, <3>2 DEF Kinds, DeletePcs
        <4>2. Due(t) /\ ~Due(t)' BY <1>2, <3>1, <3>2, DueOnce DEF Due
        <4>3. reports'[t] = reports[t] + 1 BY <3>1, <3>2 DEF TypeOK
        <4> QED BY <2>4, <4>1, <4>2, <4>3
      <3>3. CASE t # cur[th]
        <4>1. reports'[t] = reports[t] BY <3>1, <3>3 DEF TypeOK
        <4>2. Due(t)' <=> Due(t) BY <1>2, <3>1, <3>3, OwesTook DEF Due
        <4> QED BY <2>3, <4>1, <4>2
      <3> QED BY <3>2, <3>3
    <2>8. CASE Settles1(th)
      <3>1. PICK s \in Txns :
              /\ Owes(th, s) /\ ~Owes(th, s)'
              /\ \A x \in Txns : x # s => (Owes(th, x)' <=> Owes(th, x))
              /\ \/ kind[s] \in Sync /\ reports' = reports
                 \/ kind[s] \notin Sync /\ reports' = [reports EXCEPT ![s] = @ + 1]
        BY <2>8 DEF Settles1
      <3>2. list' = list BY <2>8 DEF Settles1
      <3>3. CASE t # s
        <4>1. reports'[t] = reports[t] BY <3>1, <3>3 DEF TypeOK
        <4>2. Due(t)' <=> Due(t) BY <1>2, <3>1, <3>2, <3>3 DEF Due
        <4> QED BY <2>3, <4>1, <4>2
      <3>4. CASE t = s /\ kind[t] \in Sync
        BY <2>3, <3>1, <3>4 DEF Sync
      <3>5. CASE t = s /\ kind[t] \notin Sync
        <4>1. kind[t] = "async" BY <3>5 DEF TypeOK, Calls
        <4>2. Took(th, t) BY <3>1, <3>5, OwesTook
        <4>3. Due(t) /\ ~Due(t)' BY <1>2, <3>1, <3>2, <3>5, <4>2, DueOnce DEF Due
        <4>4. reports'[t] = reports[t] + 1 BY <3>1, <3>5 DEF TypeOK
        <4> QED BY <2>4, <4>1, <4>3, <4>4
      <3> QED BY <3>3, <3>4, <3>5
    <2>9. CASE Misses(th)
      <3>1. PICK s \in Txns :
              /\ Owes(th, s) /\ ~buf[s]
              /\ \A x \in Txns : x # s => (Owes(th, x)' <=> Owes(th, x))
        BY <2>9 DEF Misses
      <3>2. list' = list /\ reports' = reports BY <2>9 DEF Misses, SameOutcome
      <3>3. kind[s] # "async" BY <3>1 DEF Due, Buffers
      <3>4. t # s => (Due(t)' <=> Due(t)) BY <1>2, <3>1, <3>2 DEF Due
      <3> QED BY <2>3, <3>2, <3>3, <3>4
    <2>10. CASE Withdraws(th)
      <3>1. /\ cur[th] \in list /\ list' = list \ {cur[th]} /\ th \in Users
            /\ Owes(th, t)' <=> Owes(th, t)
            /\ \/ pc[th] = "remove" /\ op[th] \in Sync /\ reports' = reports
               \/ /\ pc[th] = "fail" /\ op[th] = "async"
                  /\ reports' = [reports EXCEPT ![cur[th]] = @ + 1]
        BY <2>10 DEF Withdraws, SameHands
      <3>2. kind[cur[th]] = op[th] BY <3>1 DEF Kinds, HasTxn, Calls
      <3>3. CASE t # cur[th]
        <4>1. reports'[t] = reports[t] BY <3>1, <3>3 DEF TypeOK
        <4>2. Due(t)' <=> Due(t) BY <1>2, <3>1, <3>3 DEF Due
        <4> QED BY <2>3, <4>1, <4>2
      <3>4. CASE t = cur[th] /\ pc[th] = "remove"
        BY <2>3, <3>1, <3>2, <3>4 DEF Sync
      <3>5. CASE t = cur[th] /\ pc[th] = "fail"
        <4>1. \A x \in Threads : ~Owes(x, t) BY <3>1, <3>5, DueOnce
        <4>2. Due(t) /\ ~Due(t)' BY <1>2, <3>1, <3>5, <4>1 DEF Due
        <4>3. reports'[t] = reports[t] + 1 BY <3>1, <3>5 DEF TypeOK
        <4> QED BY <2>4, <3>1, <3>2, <3>5, <4>2, <4>3
      <3> QED BY <3>1, <3>3, <3>4, <3>5
    <2> QED BY <1>6, <2>5, <2>6, <2>7, <2>8, <2>9, <2>10 DEF Effect
  <1> QED BY <1>4, <1>5, <1>6

-----------------------------------------------------------------------------
(***************************************************************************)
(* One outcome for every transaction, for any number of ids                *)
(***************************************************************************)

Settled == Kinds /\ OneHolder /\ Buffers /\ Reported

\* Nothing is reported, due or called at the start.
LEMMA SettledInit ==
  ASSUME Init
  PROVE  Settled
  <1>1. \A th \in Threads : carry[th] = {} /\ pc[th] = "idle" BY DEF Init
  <1>2. \A u \in Users : op[u] = "none" /\ pc[u] = "idle" BY DEF Init, Threads
  <1>3. \A t \in Txns : ~Due(t) BY <1>1 DEF Due, Owes, Init
  <1>4. \A u \in Users : ~Calling(u) /\ ~HasTxn(u) /\ ~Waits(u)
    BY <1>2 DEF Calling, HasTxn, Waits, Sync, Calls
  <1>5. Kinds BY <1>2, <1>4 DEF Kinds, Init, DeletePcs
  <1>6. OneHolder BY <1>1 DEF OneHolder, Took, Init
  <1>7. Buffers BY <1>1, <1>3 DEF Buffers, Init, Threads
  <1>8. Reported BY DEF Reported, ReportOf, Init
  <1> QED BY <1>5, <1>6, <1>7, <1>8 DEF Settled

\* Every step keeps it.
LEMMA SettledStep ==
  ASSUME TypeOK, Shape, OwnTxns, Settled, [Next]_vars
  PROVE  Settled'
  <1>1. CASE Next
    <2>1. PICK th \in Threads : Only(th) /\ Effect(th) /\ Moves(th)
      BY <1>1, Effects
    <2> QED BY <2>1, KindsStep, OneHolderStep, BuffersStep, ReportedStep DEF Settled
  <1>2. CASE UNCHANGED vars
    BY <1>2 DEF Settled, Kinds, OneHolder, Buffers, Reported, ReportOf, HasTxn, Took, Owes,
       Due, HasCaller, HasWaiter, Calling, Waits, vars, txnVars, born, result, lists, rest,
       client, errors, network, app, hands
  <1> QED BY <1>1, <1>2

\* A transaction is not freed before its outcome was reported.
LEMMA FreedReported ==
  ASSUME TypeOK, Shape, RefsExact, Reported, ~crashed, NEW t \in used \ live
  PROVE  reports[t] = 1 \/ \E u \in Users : pc[u] = "own" /\ cur[u] = t
  <1>1. t \in Txns /\ ref[t] = References(t) /\ ReportOf(t)
    BY DEF TypeOK, RefsExact, Reported
  <1>2. ~(ref[t] > 0) BY <1>1 DEF live
  <1>3. /\ IsFiniteSet(Callers(t)) /\ IsFiniteSet(Carriers(t))
        /\ Cardinality(Callers(t)) \in Nat /\ Cardinality(Carriers(t)) \in Nat
    BY HoldersFinite, FS_CardinalityType
  <1>4. One(t \in list) \in Nat /\ One(t \in queue) \in Nat BY DEF One
  <1>5. /\ One(t \in list) = 0 /\ Cardinality(Callers(t)) = 0
        /\ Cardinality(Carriers(t)) = 0
    BY <1>1, <1>2, <1>3, <1>4 DEF References
  <1>6. t \notin list /\ Callers(t) = {} /\ Carriers(t) = {}
    BY <1>3, <1>5, FS_EmptySet DEF One
  <1>7. ~Due(t) BY <1>6 DEF Due, Owes, Carriers
  <1>8. \A u \in Users : Calling(u) /\ cur[u] = t => pc[u] = "own"
    BY <1>6 DEF Callers, Owning, Calling
  <1> QED BY <1>1, <1>7, <1>8 DEF ReportOf, HasCaller

\* The outcome of a transaction is reported once and none is freed without, whichever of
\* answer, send error, loss, cancellation, release and time-out comes first, for any number
\* of threads and calls, also when ids are used again.
THEOREM OneReport == Spec => []ReportedOnce
  <1>1. Init => TypeOK /\ Shape /\ OwnTxns /\ RefsExact /\ Settled
    BY ShapeInit, RefsInit, SettledInit
  <1>2. TypeOK /\ Shape /\ OwnTxns /\ RefsExact /\ Settled /\ [Next]_vars
          => TypeOK' /\ Shape' /\ OwnTxns' /\ RefsExact' /\ Settled'
    BY TypeStep, ShapeStep, OwnTxnsStep, RefsStep, SettledStep
  <1>3. TypeOK /\ Shape /\ RefsExact /\ Settled => ReportedOnce
    <2> SUFFICES ASSUME TypeOK, Shape, RefsExact, Settled, NEW t \in Txns
                 PROVE  /\ reports[t] <= 1
                        /\ t \in used \ live /\ ~crashed =>
                             \/ reports[t] = 1
                             \/ \E u \in Users : pc[u] = "own" /\ cur[u] = t
      BY DEF ReportedOnce
    <2>1. reports[t] <= 1 BY DEF Settled, Reported, ReportOf
    <2> QED BY <2>1, FreedReported DEF Settled
  <1> QED BY <1>1, <1>2, <1>3, PTL DEF Spec

-----------------------------------------------------------------------------
(***************************************************************************)
(* Answers are of the transaction they were sent for.                      *)
(***************************************************************************)

\* Ids stay unique as long as there are enough of them.
LEMMA IdsStep ==
  ASSUME TypeOK, FewCalls, Ids, Numbered
  PROVE  Ids'
  <1>1. CASE used' = used /\ id' = id /\ nextId' = nextId BY <1>1 DEF Ids
  <1>2. CASE ~(used' = used /\ id' = id /\ nextId' = nextId)
    <2>1. PICK t \in Txns \ used : used' = used \cup {t} /\ id' = [id EXCEPT ![t] = nextId]
      BY <1>2 DEF Numbered
    <2>2. nextId' = NextId BY <1>2 DEF Numbered
    <2>3. IsFiniteSet(used) /\ Cardinality(used) \in Nat BY FS_CardinalityType DEF Ids
    <2>4. IsFiniteSet(used') /\ Cardinality(used') = Cardinality(used) + 1
      BY <2>1, <2>3, FS_AddElement
    <2>5. used' \subseteq Txns BY <2>1 DEF TypeOK
    <2>6. Cardinality(used') <= Cardinality(Txns) BY <2>5, FS_Subset DEF FewCalls
    <2>7. Cardinality(Txns) <= MaxId /\ Cardinality(Txns) \in Nat
      BY FS_CardinalityType DEF FewCalls
    <2>8. Cardinality(used) < MaxId BY <2>3, <2>4, <2>6, <2>7
    <2>9. nextId = Cardinality(used) + 1 BY <2>3, <2>8 DEF Ids
    <2>10. nextId' = IF Cardinality(used') = MaxId THEN 1 ELSE Cardinality(used') + 1
      BY <2>2, <2>4, <2>9 DEF NextId
    <2>11. id'[t] = Cardinality(used) + 1 BY <2>1, <2>9 DEF TypeOK
    <2>12. \A x \in used : id'[x] = id[x] BY <2>1 DEF TypeOK
    <2>13. \A x \in used : id[x] \in 1..Cardinality(used) BY DEF Ids
    <2>14. \A x \in used' : id'[x] \in 1..Cardinality(used')
      BY <2>1, <2>3, <2>4, <2>11, <2>12, <2>13
    <2>15. \A x \in used : id'[x] # id'[t] BY <2>3, <2>11, <2>12, <2>13
    <2>16. \A x, y \in used' : id'[x] = id'[y] => x = y
      BY <2>1, <2>12, <2>15 DEF Ids
    <2> QED BY <2>4, <2>10, <2>14, <2>16 DEF Ids
  <1> QED BY <1>1, <1>2

\* A transaction keeps its id.
LEMMA OldIds ==
  ASSUME TypeOK, Numbered
  PROVE  used \subseteq used' /\ \A t \in used : id'[t] = id[t]
  BY DEF Numbered, TypeOK

\* Only requests of queued transactions are sent.
LEMMA SentStep ==
  ASSUME TypeOK, Shape, OwnTxns, Sent, NEW th \in Threads, Only(th), Moves(th)
  PROVE  Sent'
  <1>1. used \subseteq used' /\ \A t \in used : id'[t] = id[t] BY OldIds DEF Moves
  <1>2. queue \subseteq used BY DEF Shape
  <1>3. \A m \in requests' : m \in requests \/ (m.for \in queue /\ m.id = id[m.for])
    BY DEF Moves, Sends
  <1>4. \A m \in requests' : m.for \in used' /\ m.id = id'[m.for]
    BY <1>1, <1>2, <1>3 DEF Sent
  <1>5. ASSUME NEW x \in Threads, pc'[x] \in Flushed
        PROVE  (pc[x] \in Flushed /\ work'[x] = work[x]) \/ work'[x] \in queue
    BY <1>5 DEF Only, Moves, Sends
  <1>6. \A x \in Threads : pc'[x] \in Flushed => work'[x] \in used
    BY <1>2, <1>5 DEF Sent, Flushed
  <1>7. ASSUME NEW u \in Users, pc'[u] \in Early
        PROVE  /\ \A m \in requests' : m.for # cur'[u]
               /\ \A x \in Threads : pc'[x] \in Flushed => work'[x] # cur'[u]
    <2>1. CASE pc[u] \in Early /\ cur'[u] = cur[u]
      <3>1. cur[u] \notin queue BY <2>1 DEF OwnTxns
      <3>2. /\ \A m \in requests : m.for # cur[u]
            /\ \A x \in Threads : pc[x] \in Flushed => work[x] # cur[u]
        BY <2>1 DEF Sent, Flushed
      <3> QED BY <1>3, <1>5, <2>1, <3>1, <3>2
    <2>2. CASE cur'[u] \notin used
      <3>1. \A m \in requests' : m.for \in used BY <1>2, <1>3 DEF Sent
      <3> QED BY <1>6, <2>2, <3>1
    <2> QED BY <1>7, <2>1, <2>2 DEF Only, Moves, Assigned, SameTxn, Threads
  <1> QED BY <1>1, <1>4, <1>6, <1>7 DEF Sent, Flushed

\* The receiver works on the transaction the answer was sent for.
LEMMA AnsweredStep ==
  ASSUME TypeOK, Shape, Ids, Sent, Answered, NEW th \in Threads, Only(th), Moves(th)
  PROVE  Answered'
  <1> SUFFICES ASSUME pc'[Rx] \in {"found", "decode"} PROVE cur'[Rx] = work'[Rx]
    BY DEF Answered
  <1>1. CASE pc[Rx] \in {"found", "decode"} /\ cur'[Rx] = cur[Rx] /\ work'[Rx] = work[Rx]
    BY <1>1 DEF Answered
  <1>2. CASE ~(pc[Rx] \in {"found", "decode"} /\ cur'[Rx] = cur[Rx] /\ work'[Rx] = work[Rx])
    <2>1. th = Rx BY <1>2 DEF Only, Threads
    <2>2. PICK m \in requests : /\ id[work'[Rx]] = m.id
                                /\ work'[Rx] \in list /\ cur'[Rx] = m.for
      BY <1>2, <2>1 DEF Moves, Sends
    <2>3. m.for \in used /\ m.id = id[m.for] /\ work'[Rx] \in used
      BY <2>2 DEF Sent, Shape
    <2> QED BY <2>2, <2>3 DEF Ids
  <1> QED BY <1>1, <1>2

Identified == Ids /\ Sent /\ Answered

\* There is nothing to answer at the start.
LEMMA IdentifiedInit ==
  ASSUME Init
  PROVE  Identified
  <1>1. \A th \in Threads : pc[th] = "idle" BY DEF Init
  <1>2. IsFiniteSet({}) /\ Cardinality({}) = 0 BY FS_EmptySet
  <1>3. Ids BY <1>2 DEF Ids, Init
  <1>4. Sent BY <1>1 DEF Sent, Init, Early, Threads
  <1>5. Answered BY <1>1 DEF Answered, Threads
  <1> QED BY <1>3, <1>4, <1>5 DEF Identified

\* Every step keeps it.
LEMMA IdentifiedStep ==
  ASSUME FewCalls, TypeOK, Shape, OwnTxns, Identified, [Next]_vars
  PROVE  Identified'
  <1>1. CASE Next
    <2>1. PICK th \in Threads : Only(th) /\ Effect(th) /\ Moves(th)
      BY <1>1, Effects
    <2>2. Numbered BY <2>1 DEF Moves
    <2> QED BY <2>1, <2>2, IdsStep, SentStep, AnsweredStep DEF Identified
  <1>2. CASE UNCHANGED vars
    BY <1>2 DEF Identified, Ids, Sent, Answered, vars, txnVars, born, result, lists, rest,
       client, errors, network, app, hands
  <1> QED BY <1>1, <1>2

\* What is decoded was not reported yet.
LEMMA DecodesDue ==
  ASSUME TypeOK, Shape, Settled, pc[Rx] = "decode"
  PROVE  reports[work[Rx]] = 0
  <1>1. work[Rx] \in used /\ carry[Rx] = {work[Rx]} /\ work[Rx] \in Txns
    BY DEF Shape, CarryShape, Threads, TypeOK
  <1>2. Due(work[Rx]) BY <1>1 DEF Due, Owes, Threads
  <1>3. buf[work[Rx]] BY DEF Settled, Buffers
  <1>4. kind[work[Rx]] \in Sync => HasCaller(work[Rx])
    BY <1>1, <1>3 DEF Settled, Buffers, HasWaiter, HasCaller, Waits
  <1>5. kind[work[Rx]] \in Sync \/ kind[work[Rx]] = "async" BY <1>1 DEF TypeOK, Calls
  <1> QED BY <1>1, <1>2, <1>4, <1>5 DEF Settled, Reported, ReportOf

\* As long as no id is used twice, an answer is decoded into the buffer of its own request
\* and not after the call returned, the callback was called or the transaction was
\* cancelled, for any number of threads and calls.
THEOREM NoWriteTooLate ==
  ASSUME FewCalls
  PROVE  Spec => []NoLateWrite
  <1> DEFINE Inv == TypeOK /\ Shape /\ OwnTxns /\ Settled /\ Identified
  <1>1. Init => Inv BY ShapeInit, RefsInit, SettledInit, IdentifiedInit
  <1>2. Inv /\ [Next]_vars => Inv'
    BY TypeStep, ShapeStep, OwnTxnsStep, SettledStep, IdentifiedStep
  <1>3. Inv => NoLateWrite
    BY DecodesDue DEF Identified, Answered, NoLateWrite
  <1> HIDE DEF Inv
  <1> QED BY <1>1, <1>2, <1>3, PTL DEF Spec

-----------------------------------------------------------------------------
(***************************************************************************)
(* Who wakes a waiting call                                                *)
(***************************************************************************)

Lost == ~valid \/ ~accepting

\* Before the client has its address no thread does anything.
LEMMA UnopenedStep ==
  ASSUME Unopened, NEW th \in Threads, Only(th), Moves(th)
  PROVE  Unopened'
  <1> SUFFICES ASSUME opening' \in {"open", "live", "fill"}
               PROVE  ~valid' /\ ~waiting' /\ requests' = {}
                      /\ \A x \in Threads : pc'[x] = "idle"
    BY DEF Unopened
  <1>1. opening \in {"open", "live", "fill"} BY DEF Moves, Opens
  <1>2. ~valid /\ ~waiting /\ requests = {} /\ \A x \in Threads : pc[x] = "idle"
    BY <1>1 DEF Unopened
  <1>3. ~valid' BY <1>2 DEF Moves, Opens
  <1>4. pc'[th] = "idle" /\ ~waiting' /\ requests' = {} BY <1>1, <1>2 DEF Moves, Opens
  <1> QED BY <1>2, <1>3, <1>4 DEF Only

\* What is lost stays lost while a thread is at work.
LEMMA LostStays ==
  ASSUME Unopened, NEW th \in Threads, Moves(th), Lost, NEW x \in Threads, pc[x] # "idle"
  PROVE  Lost'
  BY DEF Lost, Unopened, Moves, Opens

\* The lists are cleaned up only then.
LEMMA CleaningStep ==
  ASSUME Unopened, Cleaning, NEW th \in Threads, Only(th), Moves(th)
  PROVE  Cleaning'
  <1> SUFFICES ASSUME NEW x \in Threads, pc'[x] \in CleanupPcs PROVE Lost'
    BY DEF Cleaning, Lost
  <1>1. CASE pc[x] \in CleanupPcs
    BY <1>1, LostStays DEF Cleaning, Lost, CleanupPcs
  <1>2. CASE pc[x] \notin CleanupPcs
    BY <1>2 DEF Only, Moves, Opens, Lost
  <1> QED BY <1>1, <1>2

\* A synchronous call that was not sent stays in txn_list, unless the server is lost or the
\* client is released: no answer to it can come, and nobody else logs an error of it.
LEMMA UnsentListed ==
  ASSUME TypeOK, Shape, OwnTxns, Kinds, Ids, Sent, Unopened, Cleaning,
         NEW th \in Threads, Only(th), Effect(th), Moves(th),
         NEW u \in Users, pc[u] \in {"own", "arm"}, cur[u] \in list
  PROVE  cur[u] \in list' \/ Lost'
  <1>1. op[u] \in Sync /\ HasTxn(u) BY DEF Shape, OpShape, HasTxn, Calls
  <1>2. kind[cur[u]] \in Sync /\ cur[u] \in used
    BY <1>1 DEF Kinds, Shape, CurShape, HasTxn
  <1>3. pc[u] \in Early /\ pc[u] # "idle" /\ u \in Threads BY DEF Early, Threads
  <1>4. CASE TakesOut(th)
    <2>1. CASE pc[th] \in CleanupPcs
      BY <2>1, <1>3, LostStays DEF Cleaning, Lost
    <2>2. CASE pc[th] = "fl_log" /\ list' = list \ {work[th]}
      BY <2>2, <1>3 DEF Sent
    <2>3. CASE \E m \in requests : \E t \in list : id[t] = m.id /\ list' = list \ {t}
      <3>1. PICK m \in requests, t \in list : id[t] = m.id /\ list' = list \ {t}
        BY <2>3
      <3>2. m.for \in used /\ m.id = id[m.for] /\ m.for # cur[u] BY <1>3 DEF Sent
      <3>3. t \in used BY DEF Shape
      <3>4. t = m.for BY <3>1, <3>2, <3>3 DEF Ids
      <3> QED BY <3>1, <3>2, <3>4
    <2> QED BY <1>4, <2>1, <2>2, <2>3 DEF TakesOut
  <1>5. CASE Cancels(th)
    <2>1. th \in Users /\ pc[th] = "del_list" /\ list' = list \ {cur[th]}
      BY <1>5 DEF Cancels
    <2>2. kind[cur[th]] = "async" BY <2>1 DEF Kinds, DeletePcs
    <2> QED BY <1>2, <2>1, <2>2 DEF Sync
  <1>6. CASE Withdraws(th)
    <2>1. th \in Users /\ list' = list \ {cur[th]} /\ HasTxn(th) /\ pc[th] \in {"remove", "fail"}
      BY <1>6 DEF Withdraws, HasTxn, Calls
    <2>2. cur[th] # cur[u] BY <1>1, <2>1 DEF OwnTxns
    <2> QED BY <2>1, <2>2
  <1>7. CASE ~(TakesOut(th) \/ Cancels(th) \/ Withdraws(th))
    <2>1. list \subseteq list'
      BY <1>7 DEF Effect, Quiet, Born, Signalled, Settles1, Misses, GivesUp, Invalidates,
         Returns
    <2> QED BY <2>1
  <1> QED BY <1>4, <1>5, <1>6, <1>7

\* A call whose outcome is due or there will find it, unless it clears its signal itself.
LEMMA AwaitedStays ==
  ASSUME TypeOK, Shape, OwnTxns, Kinds, Buffers,
         NEW th \in Threads, Only(th), Effect(th),
         NEW u \in Users, Waits(u), Waits(u)', cur'[u] = cur[u],
         Awaited(u), ~(th = u /\ Signalled(th))
  PROVE  Awaited(u)'
  <1>0. Calling(u) BY DEF Waits
  <1> PICK t \in Txns : t = cur[u] BY <1>0, OwnKind DEF TypeOK
  <1>1. \A x \in Threads \ {th}, y \in Txns : Owes(x, y)' <=> Owes(x, y) BY OthersKept
  <1>2. Calling(u) BY <1>0
  <1>3. kind[t] \in Sync /\ t \in used /\ t \in Txns BY <1>2, OwnKind
  <1>4. \A x \in Users : Calling(x) /\ cur[x] = t => x = u BY <1>2, OwnKind
  <1>5. cur'[u] = t OBVIOUS
  <1>6. HasWaiter(t) BY DEF HasWaiter
  <1>7. Due(t) \/ (sig[t] /\ ~pending[t]) BY DEF Awaited
  <1> SUFFICES Due(t)' \/ (sig'[t] /\ ~pending'[t]) BY <1>5 DEF Awaited
  <1>8. CASE Settles1(th)
    <2>1. PICK s \in Txns :
            /\ \A x \in Txns : x # s => /\ Owes(th, x)' <=> Owes(th, x)
                                        /\ sig'[x] = sig[x] /\ pending'[x] = pending[x]
            /\ ~pending'[s]
            /\ kind[s] \in Sync => sig'[s]
      BY <1>8 DEF Settles1
    <2>2. list' = list BY <1>8 DEF Settles1
    <2>3. CASE t = s BY <1>3, <2>1, <2>3
    <2>4. CASE t # s
      <3>1. sig'[t] = sig[t] /\ pending'[t] = pending[t] /\ (Owes(th, t)' <=> Owes(th, t))
        BY <1>3, <2>1, <2>4
      <3>2. Due(t)' <=> Due(t) BY <1>1, <1>3, <2>2, <3>1 DEF Due
      <3> QED BY <1>7, <3>1, <3>2
    <2> QED BY <2>3, <2>4
  <1>9. CASE Misses(th)
    <2>1. PICK s \in Txns : /\ Owes(th, s) /\ ~buf[s]
                            /\ \A x \in Txns : x # s => (Owes(th, x)' <=> Owes(th, x))
      BY <1>9 DEF Misses
    <2>2. list' = list /\ sig' = sig /\ pending' = pending
      BY <1>9 DEF Misses, SameOutcome
    <2>3. t # s BY <1>6, <2>1 DEF Due, Buffers
    <2>4. Due(t)' <=> Due(t) BY <1>1, <1>3, <2>1, <2>2, <2>3 DEF Due
    <2> QED BY <1>7, <2>2, <2>4
  <1>10. CASE TakesOut(th)
    <2>1. /\ list' \subseteq list /\ (Owes(th, t)' <=> t \in list \ list')
          /\ ~Took(th, t) /\ sig' = sig /\ pending' = pending
      BY <1>3, <1>10 DEF TakesOut, SameOutcome
    <2>2. Due(t)' <=> Due(t) BY <1>1, <1>3, <2>1, OwesTook DEF Due
    <2> QED BY <1>7, <2>1, <2>2
  <1>11. CASE Cancels(th)
    <2>1. /\ th \in Users /\ pc[th] = "del_list" /\ list' = list \ {cur[th]}
          /\ ~Took(th, t) /\ sig' = sig /\ pending' = pending
      BY <1>3, <1>11 DEF Cancels
    <2>2. kind[cur[th]] = "async" BY <2>1 DEF Kinds, DeletePcs
    <2>3. t # cur[th] BY <1>3, <2>2 DEF Sync
    <2>4. Due(t) => Due(t)' BY <1>1, <1>3, <2>1, <2>3, OwesTook DEF Due
    <2> QED BY <1>7, <2>1, <2>4
  <1>12. CASE Withdraws(th)
    <2>1. /\ th \in Users /\ list' = list \ {cur[th]}
          /\ Owes(th, t)' <=> Owes(th, t)
          /\ sig' = sig /\ pending' = pending
          /\ (pc[th] = "remove" /\ op[th] \in Sync) \/ (pc[th] = "fail" /\ op[th] = "async")
      BY <1>3, <1>12 DEF Withdraws, SameHands
    <2>2. th # u BY <2>1 DEF Waits, Calling, Sync
    <2>3. HasTxn(th) /\ HasTxn(u) BY <2>1, <1>2 DEF HasTxn, Calling, Calls
    <2>4. t # cur[th] BY <2>1, <2>2, <2>3 DEF OwnTxns
    <2>5. Due(t)' <=> Due(t) BY <1>1, <1>3, <2>1, <2>4 DEF Due
    <2> QED BY <1>7, <2>1, <2>5
  <1>13. CASE Born(th)
    <2>1. /\ list \subseteq list' /\ (Owes(th, t)' <=> Owes(th, t))
          /\ sig' = sig /\ pending' = pending
      BY <1>3, <1>13 DEF Born, SameHands, SameOutcome
    <2>2. Due(t) => Due(t)' BY <1>1, <1>3, <2>1 DEF Due
    <2> QED BY <1>7, <2>1, <2>2
  <1>14. CASE Signalled(th)
    <2>1. /\ list' = list /\ (Owes(th, t)' <=> Owes(th, t))
          /\ th \in Users /\ Calling(th)
          /\ sig' = [sig EXCEPT ![cur[th]] = FALSE]
          /\ t # cur[th] => pending'[t] = pending[t]
      BY <1>3, <1>14 DEF Signalled, SameHands, Waits
    <2>2. t # cur[th] BY <1>4, <1>14, <2>1
    <2>3. sig'[t] = sig[t] /\ pending'[t] = pending[t] BY <2>1, <2>2, <1>3 DEF TypeOK
    <2>4. Due(t)' <=> Due(t) BY <1>1, <1>3, <2>1 DEF Due
    <2> QED BY <1>7, <2>3, <2>4
  <1>15. CASE Quiet(th) \/ GivesUp(th) \/ Invalidates(th) \/ Returns(th)
    <2>1. /\ list' = list /\ (Owes(th, t)' <=> Owes(th, t))
          /\ sig' = sig /\ pending' = pending
      BY <1>3, <1>15 DEF Quiet, GivesUp, Invalidates, Returns, SameHands, SameOutcome
    <2>2. Due(t)' <=> Due(t) BY <1>1, <1>3, <2>1 DEF Due
    <2> QED BY <1>7, <2>1, <2>2
  <1> QED BY <1>8, <1>9, <1>10, <1>11, <1>12, <1>13, <1>14, <1>15 DEF Effect

\* What the stages of a synchronous call know stays true.
LEMMA StagesStep ==
  ASSUME TypeOK, Shape, OwnTxns, Kinds, Buffers, Ids, Sent, Unopened, Cleaning, Stages,
         NEW th \in Threads, Only(th), Effect(th), Moves(th)
  PROVE  Stages'
  <1> SUFFICES ASSUME NEW u \in Users
      PROVE  /\ pc'[u] \in {"own", "arm"} => cur'[u] \in list' \/ Lost'
             /\ pc'[u] = "check" /\ op'[u] \in Sync => Awaited(u)' \/ Lost'
             /\ pc'[u] \in {"ref", "queue"} /\ op'[u] \in Sync => Awaited(u)' \/ ~accepting'
             /\ pc'[u] \in FlushPcs \cup CleanupPcs \cup {"wait"} /\ op'[u] \in Sync
                  => Awaited(u)'
    BY DEF Stages, Lost
  <1> DEFINE Sending == FlushPcs \cup CleanupPcs \cup {"wait"}
  <1>0. u \in Threads BY DEF Threads
  <1>1. ASSUME pc[u] # "idle", Lost PROVE Lost'
    BY <1>0, <1>1, LostStays
  <1>2. ~accepting => ~accepting' BY DEF Moves, Opens
  <1>3. /\ pc'[u] = "own" => (pc[u] = "own" /\ SameTxn(u)) \/ cur'[u] \in list' \ list
        /\ pc'[u] = "arm" => pc[u] \in {"own", "arm"} /\ SameTxn(u)
        /\ pc'[u] = "check" /\ op'[u] \in Sync => pc[u] \in {"arm", "check"} /\ SameTxn(u)
        /\ pc'[u] \in {"ref", "queue"} =>
             SameTxn(u) /\ (pc[u] \in {"ref", "queue"} \/ (pc[u] = "check" /\ valid))
        /\ pc'[u] \in Sending /\ op'[u] \in Sync =>
             SameTxn(u) /\ (pc[u] \in Sending \/ (pc[u] = "queue" /\ accepting))
    <2>1. CASE u = th BY <2>1 DEF Moves, Staged
    <2>2. CASE u # th BY <1>0, <2>2 DEF Only, SameTxn
    <2> QED BY <2>1, <2>2
  <1>4. ASSUME pc'[u] \in {"own", "arm"} PROVE cur'[u] \in list' \/ Lost'
    <2>1. CASE pc[u] \in {"own", "arm"} /\ cur'[u] = cur[u]
      <3>1. cur[u] \in list \/ Lost BY <2>1 DEF Stages, Lost
      <3>2. pc[u] # "idle" BY <2>1
      <3> QED BY <1>1, <2>1, <3>1, <3>2, UnsentListed
    <2>2. CASE ~(pc[u] \in {"own", "arm"} /\ cur'[u] = cur[u])
      BY <1>3, <1>4, <2>2 DEF SameTxn
    <2> QED BY <2>1, <2>2
  <1>5. ASSUME op'[u] \in Sync, SameTxn(u), pc[u] \in {"check", "ref", "queue"} \cup Sending,
               pc'[u] \in {"check", "ref", "queue"} \cup Sending, Awaited(u)
        PROVE  Awaited(u)'
    <2>1. Waits(u) /\ Waits(u)' /\ cur'[u] = cur[u]
      BY <1>5 DEF Waits, Calling, SameTxn, FlushPcs, CleanupPcs
    <2>2. CASE ~(th = u /\ Signalled(th)) BY <1>5, <2>1, <2>2, AwaitedStays
    <2>3. CASE th = u /\ Signalled(th)
      <3>1. pc[u] = "wait" /\ pc'[u] = "wait"
        BY <1>5, <2>3 DEF Signalled, FlushPcs, CleanupPcs
      <3>2. pending[cur[u]] BY <2>3, <3>1 DEF Signalled
      <3>3. Due(cur[u]) BY <1>5, <3>2 DEF Awaited
      <3>4. PICK t \in Txns : t = cur[u]
        BY <2>1, <2>3 DEF TypeOK, Shape, CurShape, Waits, Calling, Calls
      <3>5. list' = list /\ (Owes(th, t)' <=> Owes(th, t))
        BY <2>3 DEF Signalled, SameHands
      <3>6. Due(t)' BY <3>3, <3>4, <3>5, OthersKept DEF Due
      <3> QED BY <2>1, <3>4, <3>6 DEF Awaited
    <2> QED BY <2>2, <2>3
  <1>6. ASSUME pc'[u] = "check", op'[u] \in Sync PROVE Awaited(u)' \/ Lost'
    <2>1. pc[u] \in {"arm", "check"} /\ SameTxn(u) BY <1>3, <1>6
    <2>2. CASE pc[u] = "arm"
      <3>1. cur[u] \in list \/ Lost BY <2>2 DEF Stages, Lost
      <3>2. cur[u] \in list' \/ Lost' BY <1>1, <2>2, <3>1, UnsentListed
      <3> QED BY <2>1, <3>2 DEF Awaited, Due, SameTxn
    <2>3. CASE pc[u] = "check"
      <3>1. Awaited(u) \/ Lost BY <1>6, <2>1, <2>3 DEF Stages, Lost, SameTxn
      <3> QED BY <1>1, <1>5, <1>6, <2>1, <2>3, <3>1
    <2> QED BY <2>1, <2>2, <2>3
  <1>7. ASSUME pc'[u] \in {"ref", "queue"}, op'[u] \in Sync PROVE Awaited(u)' \/ ~accepting'
    <2>1. SameTxn(u) /\ (pc[u] \in {"ref", "queue"} \/ (pc[u] = "check" /\ valid))
      BY <1>3, <1>7
    <2>2. Awaited(u) \/ ~accepting BY <1>7, <2>1 DEF Stages, SameTxn
    <2> QED BY <1>2, <1>5, <1>7, <2>1, <2>2
  <1>8. ASSUME pc'[u] \in Sending, op'[u] \in Sync PROVE Awaited(u)'
    <2>1. SameTxn(u) /\ (pc[u] \in Sending \/ (pc[u] = "queue" /\ accepting))
      BY <1>3, <1>8
    <2>2. Awaited(u) BY <1>8, <2>1 DEF Stages, SameTxn
    <2> QED BY <1>5, <1>8, <2>1, <2>2
  <1> QED BY <1>4, <1>6, <1>7, <1>8

Woken == Unopened /\ Cleaning /\ Stages

\* No call is under way at the start.
LEMMA WokenInit ==
  ASSUME Init
  PROVE  Woken
  <1>1. \A th \in Threads : pc[th] = "idle" BY DEF Init
  <1>2. \A u \in Users : pc[u] = "idle" BY <1>1 DEF Threads
  <1>3. Unopened BY <1>1 DEF Unopened, Init
  <1>4. Cleaning BY <1>1 DEF Cleaning, CleanupPcs
  <1>5. Stages BY <1>2 DEF Stages, FlushPcs, CleanupPcs
  <1> QED BY <1>3, <1>4, <1>5 DEF Woken

\* Every step keeps it.
LEMMA WokenStep ==
  ASSUME TypeOK, Shape, OwnTxns, Settled, Identified, Woken, [Next]_vars
  PROVE  Woken'
  <1>1. CASE Next
    <2>1. PICK th \in Threads : Only(th) /\ Effect(th) /\ Moves(th)
      BY <1>1, Effects
    <2> QED BY <2>1, UnopenedStep, CleaningStep, StagesStep DEF Settled, Identified, Woken
  <1>2. CASE UNCHANGED vars
    BY <1>2 DEF Woken, Unopened, Cleaning, Stages, Awaited, Due, Owes, vars, txnVars, born,
       result, lists, rest, client, errors, network, app, hands
  <1> QED BY <1>1, <1>2

\* As long as no id is used twice, a synchronous call waits only while its transaction is in
\* txn_list, its signal is set with the outcome, or a thread that took the transaction out
\* will set it: no wake-up is lost to send errors, loss of the server, release or the
\* clearing of the signal before the send, for any number of threads and calls.
THEOREM WaitersWake ==
  ASSUME FewCalls
  PROVE  Spec => []WaiterHasWaker
  <1> DEFINE Inv == TypeOK /\ Shape /\ OwnTxns /\ Settled /\ Identified /\ Woken
  <1>1. Init => Inv BY ShapeInit, RefsInit, SettledInit, IdentifiedInit, WokenInit
  <1>2. Inv /\ [Next]_vars => Inv'
    BY TypeStep, ShapeStep, OwnTxnsStep, SettledStep, IdentifiedStep, WokenStep
  <1>3. Inv => WaiterHasWaker
    <2> SUFFICES ASSUME Shape, Stages, NEW u \in Users, pc[u] = "wait"
                 PROVE  \/ cur[u] \in list
                        \/ sig[cur[u]] /\ ~pending[cur[u]]
                        \/ \E th \in Threads : Owes(th, cur[u])
      BY DEF WaiterHasWaker, Owes, Woken
    <2>1. op[u] \in Sync BY DEF Shape, OpShape
    <2>2. Awaited(u) BY <2>1 DEF Stages
    <2> QED BY <2>2 DEF Awaited, Due
  <1> HIDE DEF Inv
  <1> QED BY <1>1, <1>2, <1>3, PTL DEF Spec

-----------------------------------------------------------------------------
(***************************************************************************)
(* The loss of the server reaches the error callback.                      *)
(***************************************************************************)

\* A client without an address is on the way to tell it, waits for a callback, or told it;
\* a callback registered after the loss is about to be called.
Telling ==
  /\ op[Loss] = "loss" /\ pc[Loss] \in LossPcs
  /\ opening \in {"lookup", "done"} /\ ~valid => pc[Loss] # "idle" \/ errPending \/ told
  /\ errCb /\ errPending => told \/ \E u \in Users : pc[u] = "reg_call"

\* Every step keeps it.
LEMMA TellingStep ==
  ASSUME Telling, NEW th \in Threads, Only(th), Moves(th)
  PROVE  Telling'
  <1>0. Loss \in Threads /\ Reports(th) BY DEF Threads, Moves
  <1>1. op'[Loss] = "loss" /\ pc'[Loss] \in LossPcs
    BY <1>0 DEF Reports, Only, Telling
  <1>2. ASSUME opening' \in {"lookup", "done"}, ~valid'
        PROVE  pc'[Loss] # "idle" \/ errPending' \/ told'
    <2>1. opening \in {"lookup", "done"} BY <1>0, <1>2 DEF Reports
    <2>2. CASE valid BY <1>0, <1>2, <2>2 DEF Reports
    <2>3. CASE ~valid
      <3>1. pc[Loss] # "idle" \/ errPending \/ told BY <2>1, <2>3 DEF Telling
      <3>2. pc[Loss] # "idle" => pc'[Loss] # "idle" \/ errPending' \/ told'
        BY <1>0 DEF Reports, Only, Telling
      <3> QED BY <1>0, <3>1, <3>2 DEF Reports
    <2> QED BY <2>2, <2>3
  <1>3. ASSUME errCb', errPending' PROVE told' \/ \E u \in Users : pc'[u] = "reg_call"
    <2>1. CASE errCb /\ errPending
      <3>1. CASE told BY <1>0, <3>1 DEF Reports
      <3>2. CASE ~told
        <4>1. PICK u \in Users : pc[u] = "reg_call" BY <2>1, <3>2 DEF Telling
        <4> QED BY <1>0, <4>1 DEF Reports, Only, Threads
      <3> QED BY <3>1, <3>2
    <2>2. CASE ~(errCb /\ errPending) BY <1>0, <1>3, <2>2 DEF Reports
    <2> QED BY <2>1, <2>2
  <1> QED BY <1>1, <1>2, <1>3 DEF Telling

\* The loss of the server reaches the error callback, whether it is registered before the
\* loss, after it or while it is dealt with.
THEOREM LossTold == Spec => []LossIsReported
  <1>1. Init => TypeOK /\ Shape /\ OwnTxns /\ Inside /\ LossIsNoticed /\ Telling
    BY ShapeInit, RefsInit DEF Init, Inside, LossIsNoticed, Telling, Threads, LossPcs
  <1>2. TypeOK /\ Shape /\ OwnTxns /\ Inside /\ LossIsNoticed /\ Telling /\ [Next]_vars
          => TypeOK' /\ Shape' /\ OwnTxns' /\ Inside' /\ LossIsNoticed' /\ Telling'
    <2> SUFFICES ASSUME TypeOK, Shape, OwnTxns, Inside, LossIsNoticed, Telling, [Next]_vars
                 PROVE  TypeOK' /\ Shape' /\ OwnTxns' /\ Inside' /\ LossIsNoticed' /\ Telling'
      OBVIOUS
    <2>1. TypeOK' /\ Shape' /\ OwnTxns' /\ Inside' /\ LossIsNoticed'
      BY TypeStep, ShapeStep, OwnTxnsStep, InsideStep, LossStep
    <2>2. CASE Next
      <3>1. PICK th \in Threads : Only(th) /\ Effect(th) /\ Moves(th)
        BY <2>2, Effects
      <3> QED BY <2>1, <3>1, TellingStep
    <2>3. CASE UNCHANGED vars
      BY <2>1, <2>3 DEF Telling, vars, rest, client, errors, app
    <2> QED BY <2>2, <2>3
  <1>3. LossIsNoticed /\ Telling => LossIsReported
    BY DEF LossIsNoticed, Telling, LossIsReported
  <1> QED BY <1>1, <1>2, <1>3, PTL DEF Spec
=============================================================================
