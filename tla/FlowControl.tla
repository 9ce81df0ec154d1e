------------------------------ MODULE FlowControl ------------------------------
(***************************************************************************)
(* Flow control of the IPC router, end to end: senders on several routers  *)
(* send to one server endpoint on the router Home.  Every router keeps its *)
(* own record of the endpoint, with a count of the write tokens it gave    *)
(* and a queue of the senders it turned away.  The message that takes the  *)
(* last token carries confirm_rx; when the reader has read it, a RESUME_TX *)
(* goes back and empties the record: that is the only wake-up there is,    *)
(* but for the removal of the record.                                      *)
(*                                                                         *)
(* ClientTable has the steps inside the table and the order in which       *)
(* waiters are called; here the wake-up of a queue is one step.            *)
(***************************************************************************)
EXTENDS Integers, Sequences, FiniteSets

CONSTANTS
  Routers,      \* routers with senders or the reader
  Home,         \* the router of the endpoint
  Senders,      \* local clients of the routers, a thread each
  RouterOf,     \* sender -> its router
  Records,      \* memory for the records of the endpoint
  Null,
  RxQuota,      \* IPC_ROUTER_DEFAULT_RX_QUOTA
  MaxFlaps,     \* how often the links fall, all together
  Faults        \* the failures that happen: a message with a normal or with the
                \* last token is not sent, the node of a waiter is not had

Away == Routers \ {Home}

ASSUME FlowAssumption ==
  /\ Home \in Routers
  /\ RouterOf \in [Senders -> Routers]
  /\ Records # {} /\ Null \notin Records /\ Null \notin Routers
  /\ RxQuota \in Nat \ {0}
  /\ MaxFlaps \in Nat
  /\ Faults \subseteq {"normal", "last", "node"}

VARIABLES
  table,        \* router -> its record of the endpoint, or Null
  txCount,      \* tx_count of a record
  txQueue,      \* senders in tx_cb_q of a record
  pc,           \* where a sender is
  hold,         \* the record a sender has locked, or Null
  event,        \* a RESUME_TX event is pending at the sender
  link,         \* router -> confirm_rx of the messages under way to Home
  back,         \* router -> control messages under way from Home
  state,        \* state of the link of a router
  flaps,        \* times a link fell
  phase,        \* of the endpoint: open, its close is being told, closed
  totell,       \* routers the close is still to be told to
  inbox,        \* the unread messages of the endpoint
  reader,       \* the router to confirm a message to, or Null
  hello,        \* the router whose HELLO is answered, or Null: the answer is
                \* given with protocol_semaphore held
  known         \* Home's record while it is locked to be announced, or Null

records == <<table, txCount, txQueue>>
senders == <<pc, hold, event>>
network == <<link, back, state, flaps>>
endpoint == <<phase, totell, inbox, reader>>
greeting == <<hello, known>>
vars == <<records, senders, network, endpoint, greeting>>

Message == [from : Routers, confirm : BOOLEAN]
Control == {"resume", "remove", "new"}

Linked(r) == \E n \in Routers : table[n] = r
HeldBySenders(r) == \E s \in Senders : hold[s] = r
Held(r) == HeldBySenders(r) \/ known = r

-----------------------------------------------------------------------------
(***************************************************************************)
(* Records                                                                 *)
(***************************************************************************)

\* RESUME_TX events to the senders of a queue.
Wake(q) == event' = [s \in Senders |-> event[s] \/ \E i \in DOMAIN q : q[i] = s]

\* ipc_router_notify_tx_resume: empty the bucket, call every waiter.
Resume(r) ==
  /\ txCount' = [txCount EXCEPT ![r] = 0]
  /\ txQueue' = [txQueue EXCEPT ![r] = <<>>]
  /\ Wake(txQueue[r])

\* A removed record nobody has locked is cleaned up, which wakes its queue.
CleanupIf(dead, r) ==
  IF dead THEN Resume(r) ELSE UNCHANGED <<txCount, txQueue, event>>

\* ipc_router_unregister_client on router n
Unregister(n) ==
  /\ table' = [table EXCEPT ![n] = Null]
  /\ IF table[n] = Null THEN UNCHANGED <<txCount, txQueue, event>>
     ELSE CleanupIf(~Held(table[n]), table[n])

\* ipc_router_unlock_client by sender s, the last one to have locked it or not
Unlock(s) ==
  /\ hold' = [hold EXCEPT ![s] = Null]
  /\ CleanupIf(/\ ~Linked(hold[s]) /\ known # hold[s]
               /\ ~\E t \in Senders \ {s} : hold[t] = hold[s], hold[s])

-----------------------------------------------------------------------------
(***************************************************************************)
(* A sender: ipc_router_core_send_internal, in the loop of qsendto, which   *)
(* clears its signal, sends, and waits for the signal on BUSY.             *)
(***************************************************************************)

\* No router known to the sender's has the endpoint: INVALID_ENDPOINT.
FindNone(s) ==
  /\ pc[s] = "idle" /\ table[RouterOf[s]] = Null
  /\ UNCHANGED vars

\* The signal is cleared; the record is found and locked.
Find(s) ==
  /\ pc[s] = "idle" /\ table[RouterOf[s]] # Null
  /\ event' = [event EXCEPT ![s] = FALSE]
  /\ hold' = [hold EXCEPT ![s] = table[RouterOf[s]]]
  /\ pc' = [pc EXCEPT ![s] = "found"]
  /\ UNCHANGED <<records, network, endpoint, greeting>>

\* Mutant of GetToken: the message before the last one asks to be confirmed.
GetTokenEarlyLast(s) ==
  /\ pc[s] = "found"
  /\ LET r == hold[s]
     IN IF txCount[r] < RxQuota
        THEN /\ txCount' = [txCount EXCEPT ![r] = @ + 1]
             /\ pc' = [pc EXCEPT ![s] = IF txCount[r] + 2 = RxQuota THEN "last" ELSE "normal"]
             /\ UNCHANGED txQueue
        ELSE /\ txQueue' = [txQueue EXCEPT ![r] = Append(@, s)]
             /\ pc' = [pc EXCEPT ![s] = "busy"]
             /\ UNCHANGED txCount
  /\ UNCHANGED <<table, hold, event, network, endpoint, greeting>>

\* Mutant of GetToken: one token more than the quota.
GetTokenOverQuota(s) ==
  /\ pc[s] = "found"
  /\ txCount' = [txCount EXCEPT ![hold[s]] = @ + 1]
  /\ pc' = [pc EXCEPT ![s] = IF txCount[hold[s]] = RxQuota THEN "last" ELSE "normal"]
  /\ UNCHANGED <<table, txQueue, hold, event, network, endpoint, greeting>>

\* ipc_router_get_write_token; a sender is queued once.
GetToken(s) ==
  /\ pc[s] = "found"
  /\ LET r == hold[s]
         queued == \E i \in DOMAIN txQueue[r] : txQueue[r][i] = s
     IN \/ /\ txCount[r] < RxQuota
           /\ txCount' = [txCount EXCEPT ![r] = @ + 1]
           /\ pc' = [pc EXCEPT ![s] = IF txCount[r] + 1 = RxQuota THEN "last" ELSE "normal"]
           /\ UNCHANGED txQueue
        \/ /\ txCount[r] = RxQuota /\ ~queued
           /\ txQueue' = [txQueue EXCEPT ![r] = Append(@, s)]
           /\ pc' = [pc EXCEPT ![s] = "busy"]
           /\ UNCHANGED txCount
        \/ /\ txCount[r] = RxQuota /\ (queued \/ "node" \in Faults)
           /\ pc' = [pc EXCEPT ![s] = "busy"]
           /\ UNCHANGED <<txCount, txQueue>>
  /\ UNCHANGED <<table, hold, event, network, endpoint, greeting>>

\* The message goes to the callback of a local endpoint, or to the queue of
\* the transport, which takes messages also while the link is down.
Deliver(n, confirm) ==
  IF n = Home
  THEN /\ inbox' = IF phase = "closed" THEN inbox
                 ELSE Append(inbox, [from |-> n, confirm |-> confirm])
       /\ UNCHANGED link
  ELSE /\ link' = [link EXCEPT ![n] = Append(@, confirm)]
       /\ UNCHANGED inbox

\* ipc_router_send_to_client; the record is unlocked after it.
SendMsg(s) ==
  /\ pc[s] \in {"normal", "last"}
  /\ Deliver(RouterOf[s], pc[s] = "last")
  /\ Unlock(s)
  /\ pc' = [pc EXCEPT ![s] = "idle"]
  /\ UNCHANGED <<table, back, state, flaps, phase, totell, reader, greeting>>

\* No memory for the packet, or no permission to send it: the token is kept.
SendFails(s) ==
  /\ pc[s] \in {"normal", "last"} /\ pc[s] \in Faults
  /\ Unlock(s)
  /\ pc' = [pc EXCEPT ![s] = "idle"]
  /\ UNCHANGED <<table, network, endpoint, greeting>>

\* Mutant of ReturnBusy: the signal is cleared before the wait, not before
\* the call.
ReturnBusyClears(s) ==
  /\ pc[s] = "busy"
  /\ hold' = [hold EXCEPT ![s] = Null]
  /\ event' = [event EXCEPT ![s] = FALSE]
  /\ pc' = [pc EXCEPT ![s] = "wait"]
  /\ UNCHANGED <<records, network, endpoint, greeting>>

\* The call returns BUSY and the sender waits for the signal, ...
ReturnBusy(s) ==
  /\ pc[s] = "busy"
  /\ Unlock(s)
  /\ pc' = [pc EXCEPT ![s] = "wait"]
  /\ UNCHANGED <<table, network, endpoint, greeting>>

\* ... which the event callback sets, perhaps before the wait, ...
Retry(s) ==
  /\ pc[s] = "wait" /\ event[s]
  /\ pc' = [pc EXCEPT ![s] = "idle"]
  /\ UNCHANGED <<records, hold, event, network, endpoint, greeting>>

\* ... or gives up, and stays in the queue.
TimeOut(s) ==
  /\ pc[s] = "wait" /\ ~event[s]
  /\ pc' = [pc EXCEPT ![s] = "idle"]
  /\ UNCHANGED <<records, hold, event, network, endpoint, greeting>>

-----------------------------------------------------------------------------
(***************************************************************************)
(* The reader, on Home                                                     *)
(***************************************************************************)

\* ipc_router_handle_data_msg: a message for an endpoint that is closed is lost.
\* The worker of the link takes no message while it answers a HELLO.
Receive(n) ==
  /\ state[n] = "up" /\ link[n] # <<>> /\ hello # n
  /\ link' = [link EXCEPT ![n] = Tail(@)]
  /\ inbox' = IF phase = "closed" THEN inbox
              ELSE Append(inbox, [from |-> n, confirm |-> Head(link[n])])
  /\ UNCHANGED <<records, senders, back, state, flaps, phase, totell, reader, greeting>>

\* The reader takes the next message; confirm_rx obliges it to confirm.
Read ==
  /\ phase = "open" /\ inbox # <<>> /\ reader = Null
  /\ inbox' = Tail(inbox)
  /\ reader' = IF Head(inbox).confirm THEN Head(inbox).from ELSE Null
  /\ UNCHANGED <<records, senders, network, phase, totell, greeting>>

\* Mutant of Confirm: a local sender is not resumed.
ConfirmRemoteOnly ==
  /\ reader # Null
  /\ reader' = Null
  /\ back' = IF reader # Home /\ state[reader] = "up"
             THEN [back EXCEPT ![reader] = Append(@, "resume")] ELSE back
  /\ UNCHANGED <<records, senders, link, state, flaps, phase, totell, inbox, greeting>>

\* ipc_router_core_send_conf
Confirm ==
  /\ reader # Null
  /\ reader' = Null
  /\ \/ /\ reader = Home
        /\ IF table[Home] = Null THEN UNCHANGED <<txCount, txQueue, event>>
           ELSE Resume(table[Home])
        /\ UNCHANGED back
     \/ /\ reader \in Away
        /\ back' = IF state[reader] = "up"
                   THEN [back EXCEPT ![reader] = Append(@, "resume")]
                   ELSE back
        /\ UNCHANGED <<txCount, txQueue, event>>
  /\ UNCHANGED <<table, pc, hold, link, state, flaps, phase, totell, inbox, greeting>>

\* ipc_router_core_close tells the close first, with no semaphore held: a list
\* of the links is taken, ...  (The record is locked meanwhile, which changes
\* nothing: nobody but the closing thread removes it.)
CloseBegin ==
  /\ phase = "open"
  /\ phase' = "telling"
  /\ totell' = Away
  /\ UNCHANGED <<records, senders, network, inbox, reader, greeting>>

\* Mutant of Tell: the last link of the list is left out.
TellButLast(n) ==
  /\ n \in totell
  /\ totell' = totell \ {n}
  /\ back' = IF state[n] = "up" /\ totell # {n}
             THEN [back EXCEPT ![n] = Append(@, "remove")] ELSE back
  /\ UNCHANGED <<records, senders, link, state, flaps, phase, inbox, reader, greeting>>

\* ... each link that is up gets its message, ...
Tell(n) ==
  /\ n \in totell
  /\ totell' = totell \ {n}
  /\ back' = IF state[n] = "up" THEN [back EXCEPT ![n] = Append(@, "remove")] ELSE back
  /\ UNCHANGED <<records, senders, link, state, flaps, phase, inbox, reader, greeting>>

\* ... and only then is the endpoint taken out of the table.
CloseEnd ==
  /\ phase = "telling" /\ totell = {}
  /\ phase' = "closed"
  /\ inbox' = <<>>
  /\ Unregister(Home)
  /\ UNCHANGED <<totell, pc, hold, network, reader, greeting>>

-----------------------------------------------------------------------------
(***************************************************************************)
(* The worker of the transport on a router that is not Home                *)
(***************************************************************************)

\* ipc_router_handle_reg_server for a server that is not known yet
NewServer(n) ==
  /\ state[n] = "up" /\ back[n] # <<>> /\ Head(back[n]) = "new"
  /\ back' = [back EXCEPT ![n] = Tail(@)]
  /\ IF table[n] # Null THEN UNCHANGED records
     ELSE \E r \in Records :
            /\ ~Linked(r) /\ ~Held(r)
            /\ table' = [table EXCEPT ![n] = r]
            /\ txCount' = [txCount EXCEPT ![r] = 0]
            /\ txQueue' = [txQueue EXCEPT ![r] = <<>>]
  /\ UNCHANGED <<senders, link, state, flaps, endpoint, greeting>>

\* ipc_router_remove_client on a REMOVE_CLIENT message
RemoveClient(n) ==
  /\ state[n] = "up" /\ back[n] # <<>> /\ Head(back[n]) = "remove"
  /\ back' = [back EXCEPT ![n] = Tail(@)]
  /\ Unregister(n)
  /\ UNCHANGED <<pc, hold, link, state, flaps, endpoint, greeting>>

\* ipc_router_resume_tx on a RESUME_TX message
ResumeTx(n) ==
  /\ state[n] = "up" /\ back[n] # <<>> /\ Head(back[n]) = "resume"
  /\ back' = [back EXCEPT ![n] = Tail(@)]
  /\ IF table[n] = Null THEN UNCHANGED <<txCount, txQueue, event>>
     ELSE Resume(table[n])
  /\ UNCHANGED <<table, pc, hold, link, state, flaps, endpoint, greeting>>

\* The channel closes: what it carried is lost, the worker is signalled.
LinkLost(n) ==
  /\ state[n] = "up" /\ flaps < MaxFlaps
  /\ state' = [state EXCEPT ![n] = "lost"]
  /\ flaps' = flaps + 1
  /\ back' = [back EXCEPT ![n] = <<>>]
  /\ UNCHANGED <<records, senders, link, endpoint, greeting>>

\* ipc_router_xal_smdl_handle_remote_close: xport_down, then the flush.
RemoteClose(n) ==
  /\ state[n] = "lost"
  /\ state' = [state EXCEPT ![n] = "down"]
  /\ Unregister(n)
  /\ link' = [link EXCEPT ![n] = <<>>]
  /\ UNCHANGED <<pc, hold, back, flaps, endpoint, greeting>>

-----------------------------------------------------------------------------
(***************************************************************************)
(* The worker of a link on Home: ipc_router_xport_up, with                 *)
(* protocol_semaphore held, which keeps registrations out and no close.    *)
(***************************************************************************)

\* The channel opened again and router n greets: the link counts as up.
LinkUp(n) ==
  /\ state[n] = "down" /\ hello = Null
  /\ state' = [state EXCEPT ![n] = "up"]
  /\ hello' = n
  /\ UNCHANGED <<records, senders, link, back, flaps, endpoint, known>>

\* The record of the endpoint is looked up and locked, if it is still there ...
FindServer ==
  /\ hello # Null /\ known = Null
  /\ known' = table[Home]
  /\ hello' = IF table[Home] = Null THEN Null ELSE hello
  /\ UNCHANGED <<records, senders, network, endpoint>>

\* ... and is announced and unlocked.
Announce ==
  /\ known # Null
  /\ back' = IF state[hello] = "up"
             THEN [back EXCEPT ![hello] = Append(@, "new")] ELSE back
  /\ known' = Null /\ hello' = Null
  /\ CleanupIf(~Linked(known) /\ ~HeldBySenders(known), known)
  /\ UNCHANGED <<table, pc, hold, link, state, flaps, endpoint>>

-----------------------------------------------------------------------------
Init ==
  /\ table = [n \in Routers |-> IF n = Home THEN CHOOSE r \in Records : TRUE ELSE Null]
  /\ txCount = [r \in Records |-> 0]
  /\ txQueue = [r \in Records |-> <<>>]
  /\ pc = [s \in Senders |-> "idle"]
  /\ hold = [s \in Senders |-> Null]
  /\ event = [s \in Senders |-> FALSE]
  /\ link = [n \in Away |-> <<>>]
  /\ back = [n \in Away |-> <<"new">>]
  /\ state = [n \in Away |-> "up"]
  /\ flaps = 0
  /\ phase = "open" /\ totell = {} /\ inbox = <<>> /\ reader = Null
  /\ hello = Null /\ known = Null

\* What the code of the routers does once it is called or signalled
Sender(s) == GetToken(s) \/ SendMsg(s) \/ SendFails(s) \/ ReturnBusy(s) \/ Retry(s)
Worker(n) == NewServer(n) \/ RemoveClient(n) \/ ResumeTx(n) \/ RemoteClose(n)
Reader == Read \/ Confirm
Closer == CloseEnd \/ \E n \in Away : Tell(n)
Greeter == FindServer \/ Announce

Next ==
  \/ \E s \in Senders : FindNone(s) \/ Find(s) \/ Sender(s) \/ TimeOut(s)
  \/ Reader \/ CloseBegin \/ Closer \/ Greeter
  \/ \E n \in Away : Receive(n) \/ Worker(n) \/ LinkLost(n) \/ LinkUp(n)

Spec == Init /\ [][Next]_vars

\* Threads inside the router run, signalled workers and Home's workers too;
\* the reader reads on, and who has begun to close is inside the router.
\* Nobody has to send, to begin to close, or to mend a link.
FairSpec ==
  /\ Spec
  /\ \A s \in Senders : WF_vars(Sender(s))
  /\ \A n \in Away : WF_vars(Worker(n)) /\ WF_vars(Receive(n))
  /\ WF_vars(Reader) /\ WF_vars(Closer) /\ WF_vars(Greeter)

-----------------------------------------------------------------------------
(***************************************************************************)
(* Properties                                                              *)
(***************************************************************************)

TypeOK ==
  /\ table \in [Routers -> Records \cup {Null}]
  /\ txCount \in [Records -> 0..RxQuota]
  /\ txQueue \in [Records -> Seq(Senders)]
  /\ pc \in [Senders -> {"idle", "found", "normal", "last", "busy", "wait"}]
  /\ hold \in [Senders -> Records \cup {Null}]
  /\ event \in [Senders -> BOOLEAN]
  /\ link \in [Away -> Seq(BOOLEAN)]
  /\ back \in [Away -> Seq(Control)]
  /\ state \in [Away -> {"up", "lost", "down"}]
  /\ flaps \in 0..MaxFlaps
  /\ phase \in {"open", "telling", "closed"}
  /\ totell \subseteq Away
  /\ inbox \in Seq(Message)
  /\ reader \in Routers \cup {Null}
  /\ hello \in Away \cup {Null}
  /\ known \in Records \cup {Null}

\* Somebody has sent, or is about to send, a message that asks router n to
\* be confirmed, ...
ConfirmUnderWay(n) ==
  \/ \E s \in Senders : RouterOf[s] = n /\ hold[s] = table[n] /\ pc[s] = "last"
  \/ n # Home /\ \E i \in DOMAIN link[n] : link[n][i]
  \/ \E i \in DOMAIN inbox : inbox[i].from = n /\ inbox[i].confirm
  \/ reader = n

\* ... or the confirmation, or the removal of the record, is on its way.
WakeUpUnderWay(n) ==
  \/ phase = "open" /\ ConfirmUnderWay(n)
  \/ n = Home /\ phase = "telling"
  \/ /\ n # Home
     /\ \/ state[n] = "lost"
        \/ state[n] = "up" /\ n \in totell
        \/ \E i \in DOMAIN back[n] : back[n][i] \in {"resume", "remove"}

\* Router n is linked to Home and knows, or will learn of, an endpoint that was
\* closed, and nobody will tell it: all routers have been told.
Stale(n) ==
  /\ n \in Away /\ phase # "open" /\ n \notin totell /\ state[n] = "up"
  /\ \/ table[n] # Null /\ ~\E i \in DOMAIN back[n] : back[n][i] = "remove"
     \/ \E i \in DOMAIN back[n] :
          back[n][i] = "new" /\ ~\E j \in DOMAIN back[n] : i < j /\ back[n][j] = "remove"

Queued(s, r) == \E i \in DOMAIN txQueue[r] : txQueue[r][i] = s

\* No lost wake-up: a sender that was told BUSY and has no event yet is in the
\* queue of a record that either has a wake-up under way, or is removed and
\* will be cleaned up by the last one that has it locked.  The exception is a
\* router left with an endpoint that was closed.
NoLostWakeup ==
  \A s \in Senders : pc[s] \in {"busy", "wait"} /\ ~event[s] =>
    \E r \in Records :
      /\ Queued(s, r)
      /\ \/ /\ table[RouterOf[s]] = r
            /\ WakeUpUnderWay(RouterOf[s]) \/ Stale(RouterOf[s])
         \/ ~Linked(r) /\ Held(r)

\* A closed endpoint stays behind on a linked router in one way only: the answer
\* to the router's HELLO found the endpoint before the close removed it and
\* announces it after the close was told.  No order of telling, removal,
\* earlier announcements and links that fall and come back does it.
StaleOnlyByHello ==
  [][\A n \in Away : ~Stale(n) /\ Stale(n)' =>
       hello = n /\ known # Null /\ known' = Null /\ back'[n] = Append(back[n], "new")]_vars

\* Messages of router n that the reader has not taken.
Unread(n) ==
  (IF n = Home THEN 0 ELSE Len(link[n]))
    + Cardinality({i \in DOMAIN inbox : inbox[i].from = n})

\* The parts of the inductive invariant behind NoLostWakeup.
HoldsWhileInside ==
  \A s \in Senders : hold[s] # Null <=> pc[s] \in {"found", "normal", "last", "busy"}

RecordOfOneRouter ==
  /\ \A m, n \in Routers : table[m] # Null /\ table[m] = table[n] => m = n
  /\ \A s \in Senders, n \in Routers :
       hold[s] # Null /\ hold[s] = table[n] => n = RouterOf[s]

WaitersNeedFullQuota ==
  \A r \in Records : txQueue[r] # <<>> => txCount[r] = RxQuota

FullQuotaHasWakeUp ==
  \A n \in Routers :
    table[n] # Null /\ txCount[table[n]] = RxQuota => WakeUpUnderWay(n) \/ Stale(n)

FallenLinkIsEmpty ==
  \A n \in Away : /\ state[n] = "down" => table[n] = Null
                  /\ state[n] # "up" => back[n] = <<>>

ClosedIsRemoved ==
  /\ phase = "closed" <=> table[Home] = Null
  /\ phase = "closed" => inbox = <<>>
  /\ phase # "telling" => totell = {}

GreetingInOrder == known # Null => hello # Null

WaitersAreQueued ==
  \A s \in Senders : pc[s] \in {"busy", "wait"} /\ ~event[s] =>
    \E r \in Records :
      /\ Queued(s, r)
      /\ \/ table[RouterOf[s]] = r
         \/ ~Linked(r) /\ Held(r)

IInv ==
  /\ TypeOK /\ HoldsWhileInside /\ RecordOfOneRouter /\ WaitersNeedFullQuota
  /\ FullQuotaHasWakeUp /\ FallenLinkIsEmpty /\ ClosedIsRemoved /\ GreetingInOrder
  /\ WaitersAreQueued

\* The quota bounds what a slow reader has to store, but for one message of each
\* other thread that took a token before the last one and used it after that was
\* confirmed, and but for one more round for every time a link fell.
BacklogBounded ==
  \A n \in Routers :
    Unread(n) <= (flaps + 1) * RxQuota + Cardinality({s \in Senders : RouterOf[s] = n}) - 1

\* A sender that was told BUSY gets its event, unless its router is left with
\* the closed endpoint for ever.
BusyIsWoken ==
  \A s \in Senders : pc[s] = "wait" ~> (pc[s] # "wait" \/ []Stale(RouterOf[s]))
=============================================================================
