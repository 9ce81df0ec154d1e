-------------------------------- MODULE Sockets --------------------------------
(***************************************************************************)
(* The BSD-style sockets of the IPC router (qsocket_ipcr.c): descriptors   *)
(* with reference counts, receive queues, the list of threads that wait    *)
(* for an event, and the two callbacks the router makes.  The router below *)
(* is what FlowControl and ClientTable are about; here it is its calls and *)
(* the order in which it makes callbacks.  Addresses are remote endpoints  *)
(* (Peers) and the ports of the sockets themselves, so that a send may run *)
(* the receive callback of another socket in the sender's thread.          *)
(*                                                                         *)
(* stack[t] is what thread t has still to do, the next step last.  The     *)
(* locks waiters_list_lock and rx_q_lock are variables where a thread does *)
(* something else while it holds them; elsewhere the critical section is   *)
(* one step that needs the lock to be free.                                *)
(***************************************************************************)
EXTENDS Integers, Sequences, FiniteSets

CONSTANTS
  Users,        \* threads of the application
  Net,          \* the thread of the router that reads the link
  Socks,        \* memory for sockets; a descriptor is not used again
  Peers,        \* remote endpoints
  Null, Reset,  \* connected is 0, or -1
  Quota,        \* IPC_ROUTER_DEFAULT_RX_QUOTA
  Apps,         \* applications: who calls what on which socket, where they send
                \* and connect to, what they poll for, which peers are there and
                \* which of these send
  MaxEmpty,     \* bound: with so many empty packets unread nobody sends
  Polite        \* a socket is closed when no other thread is in a call on it,
                \* and not used any more: what ipc_router_core_close assumes

Threads == Users \cup {Net}
Addrs == Peers \cup Socks
Operations == {"recv", "tryrecv", "send", "trysend", "poll", "open", "connect",
               "shutRd", "shutWr", "close", "control"}

Entries == [f : SUBSET Socks, ev : SUBSET {"in", "out"}, a : Addrs \cup {Null}]

ASSUME SocketAssumption ==
  /\ Net \notin Users /\ Peers \cap Socks = {}
  /\ Null \notin Addrs /\ Reset \notin Addrs /\ Null # Reset /\ Null \notin Threads \cup Entries
  /\ IsFiniteSet(Threads) /\ IsFiniteSet(Addrs)
  /\ Quota \in Nat \ {0} /\ MaxEmpty \in Nat
  /\ \A a \in Apps :
       /\ a.calls \in [Users -> SUBSET (Operations \X Socks)]
       /\ a.to \in [{"send", "trysend"} -> SUBSET (Addrs \cup {Null})]
       /\ a.partners \subseteq Addrs /\ a.events \subseteq SUBSET {"in", "out"}
       /\ a.peers \subseteq Peers /\ a.senders \subseteq a.peers
  /\ Polite \in BOOLEAN

VARIABLES
  app,       \* the application
  sock,      \* the sockets: listed in g_sock_list, ref, type, active, connected, handle
  rxq,       \* rx_q
  waiter,    \* thread -> its entry in g_waiters_list, or Null
  signal,    \* its signal is set
  waitLock,  \* who holds waiters_list_lock, or Null
  rxLock,    \* socket -> who holds rx_q_lock, or Null
  port,      \* the router's record of a socket: none, open, removed or freed
  gone,      \* peers that are not there, or not any more
  bucket,    \* address -> tx_count of its record
  queue,     \* address -> tx_cb_q of its record
  asked,     \* peer -> it has a message to confirm
  sent,      \* peer -> socket -> tx_count of the socket's record on its side
  stack,     \* thread -> its frames
  told       \* socket -> where a call that does not block was told QEAGAIN

sockets == <<app, sock, rxq>>
waiting == <<waiter, signal>>
locks == <<waitLock, rxLock>>
flow == <<bucket, queue, asked, sent>>
router == <<port, gone, flow>>
vars == <<sockets, waiting, locks, router, stack, told>>

-----------------------------------------------------------------------------
(***************************************************************************)
(* Frames.  s is a socket, a an address, m a packet of rx_q.               *)
(***************************************************************************)
Message(a, confirm) == [from |-> a, confirm |-> confirm, data |-> TRUE]
Resumed(a) == [from |-> a, confirm |-> FALSE, data |-> FALSE]    \* the empty packet
News == [from |-> Null, confirm |-> FALSE, data |-> TRUE]        \* of a control socket
Packet == [from : Addrs, confirm : BOOLEAN, data : BOOLEAN] \cup {News}

At1(op, s) == [op |-> op, s |-> s]
At2(op, s, a) == [op |-> op, s |-> s, a |-> a]
Put(s) == At1("put", s)
Unlock(s) == At1("unlock", s)
Unblock(s, ev, a) == [op |-> "unblock", s |-> s, ev |-> ev, a |-> a]
RxCb(s, m) == [op |-> "rx", s |-> s, m |-> m]
Add(s, m) == [op |-> "add", s |-> s, m |-> m]
Poll(f, ready) == [op |-> "poll", f |-> f, ready |-> ready]
PollTest(s, f, ready) == [op |-> "polltest", s |-> s, f |-> f, ready |-> ready]
PollWaits == [op |-> "pollwait"]
PollEnds == [op |-> "pollend"]
Notify(q, a) == [op |-> "notify", q |-> q, a |-> a]
Gone(a) == [op |-> "gone", a |-> a]
Removed(c, a) == [op |-> "removed", c |-> c, a |-> a]

Frame ==
  [op : {"put", "unlock", "cleanup", "closed", "resumetx", "coreclose", "flush", "unwait",
         "recvwaiter", "recvcheck", "recvwait", "read", "readdone"}, s : Socks]
  \cup [op : {"sendwaiter", "send", "sendwait", "trysend", "confirm", "resume", "remove"},
        s : Socks, a : Addrs]
  \cup [op : {"unblock"}, s : Socks, ev : SUBSET {"in", "out", "hup", "nval"},
        a : Addrs \cup {Null}]
  \cup [op : {"rx", "add"}, s : Socks, m : Packet]
  \cup [op : {"poll"}, f : SUBSET Socks, ready : BOOLEAN]
  \cup [op : {"polltest"}, s : Socks, f : SUBSET Socks, ready : BOOLEAN]
  \cup [op : {"pollwait", "pollend"}]
  \cup [op : {"notify"}, q : Seq(Socks), a : Addrs]
  \cup [op : {"gone"}, a : Addrs] \cup [op : {"removed"}, c : SUBSET Socks, a : Addrs]

Idle(t) == stack[t] = <<>>
Top(t) == stack[t][Len(stack[t])]
At(t, op) == stack[t] # <<>> /\ Top(t).op = op
Below(t) == SubSeq(stack[t], 1, Len(stack[t]) - 1)
Goto(t, frames) == stack' = [stack EXCEPT ![t] = Below(t) \o frames]
Start(t, frames) == stack' = [stack EXCEPT ![t] = frames]

\* All the frames there are, and those of some operations on a socket.
Places == UNION {{t} \X DOMAIN stack[t] : t \in Threads}
Frames(ops, s) ==
  {p \in Places : LET f == stack[p[1]][p[2]] IN f.op \in ops /\ f.s = s}

Held(s) == Frames({"unlock"}, s) # {}
InUse(t, s) ==
  \/ \E p \in Frames({"put", "polltest"}, s) : p[1] # t
  \/ \E u \in Threads \ {t} : waiter[u] # Null /\ s \in waiter[u].f
Rx(s) == "rx" \in sock[s].active
Tx(s) == "tx" \in sock[s].active
Data(s) == sock[s].type = "data"

-----------------------------------------------------------------------------
(***************************************************************************)
(* get_sock, put_sock and unblock_event                                    *)
(***************************************************************************)

\* get_sock, at the start of a call by an application that has the descriptor
Get(t, s, call) ==
  /\ Idle(t) /\ t \in Users /\ <<call, s>> \in app.calls[t]
  /\ sock[s].listed
  /\ ~Polite \/ sock[s].active # {}

Ref(s) == [sock[s] EXCEPT !.ref = @ + 1]

\* put_sock: the last reference frees the socket, and tells who polls it.
PutSock(t) ==
  /\ At(t, "put")
  /\ LET s == Top(t).s
         last == sock[s].ref = 1
     IN /\ sock' = [sock EXCEPT ![s].ref = @ - 1, ![s].listed = @ /\ ~last]
        /\ rxq' = IF last THEN [rxq EXCEPT ![s] = <<>>] ELSE rxq
        /\ Goto(t, IF last THEN <<Unblock(s, {"nval"}, Null)>> ELSE <<>>)
  /\ UNCHANGED <<app, waiting, locks, router, told>>

\* Mutant of Matches: the address is not compared.
MatchesAnyAddress(s, ev, a) ==
  {t \in Threads : /\ waiter[t] # Null /\ s \in waiter[t].f
                   /\ ev \cap (waiter[t].ev \cup {"hup", "nval"}) # {}}

\* The threads unblock_event counts: they wait for the event on the socket,
\* and not for another address than a.
Matches(s, ev, a) ==
  {t \in Threads : /\ waiter[t] # Null /\ s \in waiter[t].f
                   /\ ev \cap (waiter[t].ev \cup {"hup", "nval"}) # {}
                   /\ a = Null \/ waiter[t].a \in {Null, a}}

\* unblock_event; a RESUME_TX nobody waits for becomes an empty packet.
UnblockEvent(t) ==
  /\ At(t, "unblock") /\ waitLock = Null
  /\ LET f == Top(t)
         hit == Matches(f.s, f.ev, f.a)
     IN /\ signal' = [u \in Threads |-> signal[u] \/ u \in hit]
        /\ Goto(t, IF f.a # Null /\ hit = {} THEN <<Add(f.s, Resumed(f.a))>> ELSE <<>>)
  /\ UNCHANGED <<sockets, waiter, locks, router, told>>

-----------------------------------------------------------------------------
(***************************************************************************)
(* The callbacks                                                           *)
(***************************************************************************)

\* LIST_ADD to rx_q under its lock, then the readers and pollers
Enqueue(t) ==
  /\ At(t, "add") /\ rxLock[Top(t).s] = Null
  /\ rxq' = [rxq EXCEPT ![Top(t).s] = Append(@, Top(t).m)]
  /\ Goto(t, <<Unblock(Top(t).s, {"in"}, Null)>>)
  /\ UNCHANGED <<app, sock, waiting, locks, router, told>>

\* Mutant of Receive: a message from elsewhere is dropped unconfirmed.
ReceiveDrops(t) ==
  /\ At(t, "rx")
  /\ LET s == Top(t).s
         m == Top(t).m
         take == /\ Data(s) /\ Rx(s) /\ sock[s].conn # Reset
                 /\ sock[s].conn \in Addrs => m.from = sock[s].conn
     IN Goto(t, IF take THEN <<Add(s, m)>> ELSE <<>>)
  /\ UNCHANGED <<sockets, waiting, locks, router, told>>

\* sock_rx_cb: a message from elsewhere than the connected address is only
\* confirmed.
Receive(t) ==
  /\ At(t, "rx")
  /\ LET s == Top(t).s
         m == Top(t).m
         other == sock[s].conn \in Addrs /\ m.from # sock[s].conn
     IN \/ /\ ~(Data(s) /\ Rx(s) /\ sock[s].conn # Reset)
           /\ Goto(t, <<>>)
        \/ /\ Data(s) /\ Rx(s) /\ sock[s].conn # Reset
           /\ Goto(t, IF ~other THEN <<Add(s, m)>>
                      ELSE IF m.confirm THEN <<At2("confirm", s, m.from)>> ELSE <<>>)
  /\ UNCHANGED <<sockets, waiting, locks, router, told>>

\* Mutant of ResumeEvent: the transmit side is what has to be active.
ResumeEventNeedsTx(t) ==
  /\ At(t, "resume")
  /\ Goto(t, IF Tx(Top(t).s) THEN <<Unblock(Top(t).s, {"out"}, Top(t).a)>> ELSE <<>>)
  /\ UNCHANGED <<sockets, waiting, locks, router, told>>

\* sock_event_cb for RESUME_TX
ResumeEvent(t) ==
  /\ At(t, "resume")
  /\ Goto(t, IF Rx(Top(t).s) THEN <<Unblock(Top(t).s, {"out"}, Top(t).a)>> ELSE <<>>)
  /\ UNCHANGED <<sockets, waiting, locks, router, told>>

\* sock_event_cb for REMOVE_CLIENT: news for a control socket, the end of the
\* connection for a socket that is connected to the client
RemoveEvent(t) ==
  /\ At(t, "remove")
  /\ LET s == Top(t).s
         news == Rx(s) /\ ~Data(s)
         reset == Rx(s) /\ Data(s) /\ sock[s].conn = Top(t).a
     IN /\ sock' = IF reset THEN [sock EXCEPT ![s].conn = Reset] ELSE sock
        /\ Goto(t, IF news THEN <<Add(s, News)>>
                   ELSE IF reset THEN <<At1("flush", s)>> ELSE <<>>)
  /\ UNCHANGED <<app, rxq, waiting, locks, router, told>>

\* The rest of the disconnection: rx_q is emptied under its lock.
Flush(t) ==
  /\ At(t, "flush") /\ rxLock[Top(t).s] = Null
  /\ rxq' = [rxq EXCEPT ![Top(t).s] = <<>>]
  /\ Goto(t, <<Unblock(Top(t).s, {"in", "hup"}, Null)>>)
  /\ UNCHANGED <<app, sock, waiting, locks, router, told>>

\* CLOSED: the router's reference of the socket; then the record is freed.
Closed(t) ==
  /\ At(t, "closed")
  /\ port' = [port EXCEPT ![Top(t).s] = "freed"]
  /\ Goto(t, <<Put(Top(t).s)>>)
  /\ UNCHANGED <<sockets, waiting, locks, gone, flow, told>>

-----------------------------------------------------------------------------
(***************************************************************************)
(* The router, as far as sockets call it or are called by it               *)
(***************************************************************************)

\* ipc_router_unlock_client: the last one cleans a removed record up.
UnlockClient(t) ==
  /\ At(t, "unlock")
  /\ LET s == Top(t).s
         dead == port[s] = "removed" /\ Cardinality(Frames({"unlock"}, s)) = 1
     IN Goto(t, IF dead THEN <<At1("cleanup", s)>> ELSE <<>>)
  /\ UNCHANGED <<sockets, waiting, locks, router, told>>

\* The first half of ipc_router_notify_tx_resume for the record of address a
Resume(a) ==
  /\ bucket' = [bucket EXCEPT ![a] = 0]
  /\ queue' = [queue EXCEPT ![a] = <<>>]

\* ipc_router_resume_client_tx, and ipc_router_cleanup_client
ResumeTx(t) ==
  /\ At(t, "resumetx") \/ At(t, "cleanup")
  /\ LET s == Top(t).s
         then == IF At(t, "cleanup") THEN <<At1("closed", s)>> ELSE <<>>
     IN /\ Resume(s)
        /\ Goto(t, then \o <<Notify(queue[s], s)>>)
  /\ UNCHANGED <<sockets, waiting, locks, port, gone, asked, sent, told>>

\* The second half: each waiter is found, held, and called.
NotifyWaiter(t) ==
  /\ At(t, "notify")
  /\ LET q == Top(t).q
         a == Top(t).a
     IN Goto(t, IF q = <<>> THEN <<>>
                ELSE <<Notify(Tail(q), a)>> \o
                     IF port[Head(q)] = "open"
                     THEN <<Unlock(Head(q)), At2("resume", Head(q), a)>> ELSE <<>>)
  /\ UNCHANGED <<sockets, waiting, locks, router, told>>

\* ipc_router_event_notify lists the local clients, the source is not one of
\* them any more, ...
ListClients(t) ==
  /\ At(t, "gone")
  /\ Goto(t, <<Removed({s \in Socks : port[s] = "open"}, Top(t).a)>>)
  /\ UNCHANGED <<sockets, waiting, locks, router, told>>

\* ... and delivers REMOVE_CLIENT to those that are still there.
EventNotify(t) ==
  /\ At(t, "removed")
  /\ LET c == Top(t).c
         a == Top(t).a
     IN \/ c = {} /\ Goto(t, <<>>)
        \/ \E s \in c : Goto(t, <<Removed(c \ {s}, a)>> \o
             IF port[s] = "open" THEN <<Unlock(s), At2("remove", s, a)>> ELSE <<>>)
  /\ UNCHANGED <<sockets, waiting, locks, router, told>>

Open(t, s) ==
  /\ Idle(t) /\ t \in Users /\ <<"open", s>> \in app.calls[t] /\ port[s] = "none"
  /\ sock' = [sock EXCEPT ![s].listed = TRUE, ![s].ref = 1,
                          ![s].active = {"rx", "tx"}, ![s].handle = TRUE]
  /\ port' = [port EXCEPT ![s] = "open"]
  /\ UNCHANGED <<app, rxq, waiting, locks, gone, flow, stack, told>>

\* ipc_router_core_close: the peers forget the port, the record leaves the
\* table and, when nobody has it locked, is cleaned up at once; then everyone
\* else is told.
CoreClose(t) ==
  /\ At(t, "coreclose")
  /\ LET s == Top(t).s
     IN /\ port' = [port EXCEPT ![s] = "removed"]
        /\ sent' = [sent EXCEPT ![s] = [p \in Peers |-> 0]]
        /\ Goto(t, <<Gone(s)>> \o IF Held(s) THEN <<>> ELSE <<At1("cleanup", s)>>)
  /\ UNCHANGED <<sockets, waiting, locks, gone, bucket, queue, asked, told>>

\* ipc_router_core_send_conf: a RESUME_TX message to a peer, or a look-up of
\* the own record, which is held while its waiters are called
Confirm(t) ==
  /\ At(t, "confirm")
  /\ LET s == Top(t).s
         a == Top(t).a
     IN /\ sent' = IF a \in Peers THEN [sent EXCEPT ![s][a] = 0] ELSE sent
        /\ Goto(t, IF a \in Socks /\ port[s] = "open"
                   THEN <<Unlock(s), At1("resumetx", s)>> ELSE <<>>)
  /\ UNCHANGED <<sockets, waiting, locks, port, gone, bucket, queue, asked, told>>

-----------------------------------------------------------------------------
(***************************************************************************)
(* The thread of the router: messages, RESUME_TX and the end of a peer     *)
(***************************************************************************)

\* A peer that has a token left sends to an open port.
Arrive(p, s) ==
  /\ Idle(Net) /\ p \in app.senders \ gone /\ port[s] = "open" /\ sent[s][p] < Quota
  /\ sent' = [sent EXCEPT ![s][p] = @ + 1]
  /\ Start(Net, <<Unlock(s), RxCb(s, Message(p, sent[s][p] + 1 = Quota))>>)
  /\ UNCHANGED <<sockets, waiting, locks, port, gone, bucket, queue, asked, told>>

\* The peer has read the message with the confirm flag.
PeerConfirms(p) ==
  /\ Idle(Net) /\ p \notin gone /\ asked[p]
  /\ asked' = [asked EXCEPT ![p] = FALSE]
  /\ Resume(p)
  /\ Start(Net, <<Notify(queue[p], p)>>)
  /\ UNCHANGED <<sockets, waiting, locks, port, gone, sent, told>>

\* REMOVE_CLIENT from the peer's processor: its record is unregistered.
PeerGone(p) ==
  /\ Idle(Net) /\ p \notin gone
  /\ gone' = gone \cup {p}
  /\ asked' = [asked EXCEPT ![p] = FALSE]
  /\ Resume(p)
  /\ Start(Net, <<Gone(p), Notify(queue[p], p)>>)
  /\ UNCHANGED <<sockets, waiting, locks, port, sent, told>>

-----------------------------------------------------------------------------
(***************************************************************************)
(* Calls that change a socket                                              *)
(***************************************************************************)

\* qconnect; a second one fails.
Connect(t, s) ==
  /\ Get(t, s, "connect")
  /\ \E a \in app.partners :
       sock' = [sock EXCEPT ![s] =
         [Ref(s) EXCEPT !.conn = IF Data(s) /\ @ = Null THEN a ELSE @]]
  /\ Start(t, <<Put(s)>>)
  /\ UNCHANGED <<app, rxq, waiting, locks, router, told>>

\* qsetsockopt with QSO_IPCR_SET_CONTROL_PORT
SetControl(t, s) ==
  /\ Get(t, s, "control")
  /\ sock' = [sock EXCEPT ![s] =
       IF sock[s].conn = Null /\ rxq[s] = <<>>
       THEN [Ref(s) EXCEPT !.type = "control", !.active = {"rx"}] ELSE Ref(s)]
  /\ Start(t, <<Put(s)>>)
  /\ UNCHANGED <<app, rxq, waiting, locks, router, told>>

Off(call) == CASE call = "shutRd" -> {"rx"} [] call = "shutWr" -> {"tx"}
               [] call = "close" -> {"rx", "tx"}

\* qshutdown, and qclose: with both directions off the port is closed.
Shutdown(t, s, call) ==
  /\ Get(t, s, call)
  /\ LET active == sock[s].active \ Off(call)
         close == active = {} /\ sock[s].handle
     IN /\ Polite /\ active = {} => ~InUse(t, s)
        /\ sock' = [sock EXCEPT ![s] =
             [Ref(s) EXCEPT !.active = active, !.handle = @ /\ active # {}]]
        /\ Start(t, <<Put(s)>> \o IF close THEN <<At1("coreclose", s)>> ELSE <<>>)
  /\ UNCHANGED <<app, rxq, waiting, locks, router, told>>

-----------------------------------------------------------------------------
(***************************************************************************)
(* g_waiters_list                                                          *)
(***************************************************************************)

\* A thread enters the list, with a signal that is not set ...
Wait(t, f, ev, a) ==
  /\ waitLock = Null
  /\ waiter' = [waiter EXCEPT ![t] = [f |-> f, ev |-> ev, a |-> a]]
  /\ signal' = [signal EXCEPT ![t] = FALSE]

\* ... and leaves it.
Unwait(t) ==
  /\ At(t, "unwait") /\ waitLock = Null
  /\ waiter' = [waiter EXCEPT ![t] = Null]
  /\ signal' = [signal EXCEPT ![t] = FALSE]
  /\ Goto(t, <<>>)
  /\ UNCHANGED <<sockets, locks, router, told>>

\* The wait returns on the signal, which is cleared before all is looked at
\* again.
Wake(t) ==
  /\ signal[t]
  /\ signal' = [signal EXCEPT ![t] = FALSE]

-----------------------------------------------------------------------------
(***************************************************************************)
(* qrecvfrom                                                               *)
(***************************************************************************)

\* Mutant of Recv: the reference is kept when there is nothing to be received.
RecvLeaks(t, s, call) ==
  /\ Get(t, s, call)
  /\ LET ok == sock[s].conn # Reset /\ Rx(s)
         wait == <<At1("read", s), At1("unwait", s), At1("recvwaiter", s)>>
     IN Start(t, IF ~ok THEN <<>>
                 ELSE <<Put(s)>> \o IF call = "recv" THEN wait ELSE <<At1("read", s)>>)
  /\ sock' = [sock EXCEPT ![s] = Ref(s)]
  /\ UNCHANGED <<app, rxq, waiting, locks, router, told>>

\* QECONNRESET, QEOPNOTSUPP, or a wait unless QMSG_DONTWAIT is given
Recv(t, s, call) ==
  /\ Get(t, s, call)
  /\ LET ok == sock[s].conn # Reset /\ Rx(s)
         wait == <<At1("read", s), At1("unwait", s), At1("recvwaiter", s)>>
     IN Start(t, <<Put(s)>> \o
          IF ~ok THEN <<>> ELSE IF call = "recv" THEN wait ELSE <<At1("read", s)>>)
  /\ sock' = [sock EXCEPT ![s] = Ref(s)]
  /\ UNCHANGED <<app, rxq, waiting, locks, router, told>>

\* Mutant of RecvWaiter: it waits before it has looked at the queue.
RecvWaiterWaitsFirst(t) ==
  /\ At(t, "recvwaiter")
  /\ Wait(t, {Top(t).s}, {"in"}, Null)
  /\ Goto(t, <<At1("recvwait", Top(t).s)>>)
  /\ UNCHANGED <<sockets, locks, router, told>>

RecvWaiter(t) ==
  /\ At(t, "recvwaiter")
  /\ Wait(t, {Top(t).s}, {"in"}, Null)
  /\ Goto(t, <<At1("recvcheck", Top(t).s)>>)
  /\ UNCHANGED <<sockets, locks, router, told>>

\* The loop of the wait: the queue is looked at under rx_q_lock.
RecvCheck(t) ==
  /\ At(t, "recvcheck") /\ rxLock[Top(t).s] = Null
  /\ LET s == Top(t).s
     IN Goto(t, IF rxq[s] # <<>> \/ sock[s].conn = Reset THEN <<>> ELSE <<At1("recvwait", s)>>)
  /\ UNCHANGED <<sockets, waiting, locks, router, told>>

RecvWake(t) ==
  /\ At(t, "recvwait") /\ Wake(t)
  /\ Goto(t, <<At1("recvcheck", Top(t).s)>>)
  /\ UNCHANGED <<sockets, waiter, locks, router, told>>

\* Mutant of Read: other readers are signalled while rx_q_lock is held.
ReadSignals(t) ==
  /\ At(t, "read")
  /\ LET s == Top(t).s
     IN IF sock[s].conn = Reset \/ rxq[s] = <<>>
        THEN Goto(t, <<>>) /\ UNCHANGED locks
        ELSE /\ rxLock[s] = Null
             /\ rxLock' = [rxLock EXCEPT ![s] = t]
             /\ Goto(t, <<At1("readdone", s), Unblock(s, {"in"}, Null)>> \o
                  IF Head(rxq[s]).confirm /\ sock[s].handle
                  THEN <<At2("confirm", s, Head(rxq[s]).from)>> ELSE <<>>)
             /\ UNCHANGED waitLock
  /\ UNCHANGED <<sockets, waiting, router, told>>

\* The first packet is read.  A message with confirm_rx is confirmed while
\* rx_q_lock is held, and leaves the queue after that.
Read(t) ==
  /\ At(t, "read")
  /\ LET s == Top(t).s
     IN \/ /\ sock[s].conn = Reset
           /\ Goto(t, <<>>)
           /\ UNCHANGED locks
        \/ /\ sock[s].conn # Reset /\ rxLock[s] = Null
           /\ IF rxq[s] = <<>>
              THEN Goto(t, <<>>) /\ UNCHANGED locks
              ELSE /\ rxLock' = [rxLock EXCEPT ![s] = t]
                   /\ Goto(t, <<At1("readdone", s)>> \o
                        IF Head(rxq[s]).confirm /\ sock[s].handle
                        THEN <<At2("confirm", s, Head(rxq[s]).from)>> ELSE <<>>)
                   /\ UNCHANGED waitLock
  /\ UNCHANGED <<sockets, waiting, router, told>>

ReadDone(t) ==
  /\ At(t, "readdone")
  /\ LET s == Top(t).s
         m == Head(rxq[s])
     IN /\ rxq' = [rxq EXCEPT ![s] = Tail(@)]
        /\ rxLock' = [rxLock EXCEPT ![s] = Null]
        /\ told' = IF m.data THEN told ELSE [told EXCEPT ![s] = @ \ {m.from}]
        /\ Goto(t, <<>>)
  /\ UNCHANGED <<app, sock, waiting, waitLock, router>>

-----------------------------------------------------------------------------
(***************************************************************************)
(* qsendto                                                                 *)
(***************************************************************************)

\* Without an address the connected one; QENOTCONN and QEOPNOTSUPP
Send(t, s, call) ==
  /\ Get(t, s, call)
  /\ Cardinality({i \in DOMAIN rxq[s] : ~rxq[s][i].data}) < MaxEmpty
  /\ \E to \in app.to[call] :
       LET a == IF to = Null THEN sock[s].conn ELSE to
           ok == Data(s) /\ a \in Addrs /\ Tx(s)
           wait == <<At1("unwait", s), At2("sendwaiter", s, a)>>
       IN Start(t, <<Put(s)>> \o
            IF ~ok THEN <<>> ELSE IF call = "send" THEN wait ELSE <<At2("trysend", s, a)>>)
  /\ sock' = [sock EXCEPT ![s] = Ref(s)]
  /\ UNCHANGED <<app, rxq, waiting, locks, router, told>>

SendWaiter(t) ==
  /\ At(t, "sendwaiter")
  /\ Wait(t, {Top(t).s}, {"out"}, Top(t).a)
  /\ Goto(t, <<At2("send", Top(t).s, Top(t).a)>>)
  /\ UNCHANGED <<sockets, locks, router, told>>

\* The record of address a can be found by a sender that has a handle.
Reachable(s, a) == sock[s].handle /\ IF a \in Peers THEN a \notin gone ELSE port[a] = "open"

\* Mutant of TokenLeft: one token more than the quota.
TokenLeftOver(a) == bucket[a] <= Quota

TokenLeft(a) == bucket[a] < Quota

\* No token is left: the sender is queued once.
Busy(s, a) ==
  queue' = [queue EXCEPT ![a] = IF \E i \in DOMAIN @ : @[i] = s THEN @ ELSE Append(@, s)]

\* ipc_router_core_send: the message of the last token asks to be confirmed;
\* one for a socket here is received in this thread.
CoreSend(t) ==
  /\ At(t, "send") \/ At(t, "trysend")
  /\ LET s == Top(t).s
         a == Top(t).a
         last == bucket[a] + 1 = Quota
         deliver == IF a \in Peers THEN <<>> ELSE <<Unlock(a), RxCb(a, Message(s, last))>>
     IN \/ /\ ~Reachable(s, a)
           /\ Goto(t, <<>>)
           /\ UNCHANGED <<bucket, queue, asked, told>>
        \/ /\ Reachable(s, a) /\ TokenLeft(a)
           /\ bucket' = [bucket EXCEPT ![a] = @ + 1]
           /\ asked' = IF a \in Peers THEN [asked EXCEPT ![a] = @ \/ last] ELSE asked
           /\ told' = [told EXCEPT ![s] = @ \ {a}]
           /\ Goto(t, deliver)
           /\ UNCHANGED queue
        \/ /\ Reachable(s, a) /\ ~TokenLeft(a)
           /\ Busy(s, a)
           /\ told' = IF At(t, "send") THEN told ELSE [told EXCEPT ![s] = @ \cup {a}]
           /\ Goto(t, IF At(t, "send") THEN <<At2("sendwait", s, a)>> ELSE <<>>)
           /\ UNCHANGED <<bucket, asked>>
  /\ UNCHANGED <<sockets, waiting, locks, port, gone, sent>>

SendWake(t) ==
  /\ At(t, "sendwait") /\ Wake(t)
  /\ Goto(t, <<At2("send", Top(t).s, Top(t).a)>>)
  /\ UNCHANGED <<sockets, waiter, locks, router, told>>

\* write_timeout is over: QENOBUFS.
SendTimeOut(t) ==
  /\ At(t, "sendwait")
  /\ Goto(t, <<>>)
  /\ UNCHANGED <<sockets, waiting, locks, router, told>>

-----------------------------------------------------------------------------
(***************************************************************************)
(* qpoll holds waiters_list_lock but while it waits.                       *)
(***************************************************************************)

BeginPoll(t, f, ev) ==
  /\ Idle(t) /\ t \in Users /\ f # {} /\ ev \in app.events
  /\ \A s \in f : <<"poll", s>> \in app.calls[t] /\ port[s] # "none"
                  /\ (~Polite \/ sock[s].active # {} \/ ~sock[s].listed)
  /\ Wait(t, f, ev, Null)
  /\ waitLock' = t
  /\ Start(t, <<Poll(f, FALSE)>>)
  /\ UNCHANGED <<sockets, rxLock, router, told>>

\* get_sock of the next descriptor; one that is closed ends the poll.
PollGet(t) ==
  /\ At(t, "poll")
  /\ \E s \in Top(t).f :
       \/ /\ ~sock[s].listed
          /\ Goto(t, <<PollEnds>>)
          /\ UNCHANGED sock
       \/ /\ sock[s].listed
          /\ sock' = [sock EXCEPT ![s] = Ref(s)]
          /\ Goto(t, <<PollTest(s, Top(t).f \ {s}, Top(t).ready)>>)
  /\ UNCHANGED <<app, rxq, waiting, locks, router, told>>

\* A disconnected socket, a packet for "in", and for "out" a socket that is
\* not connected, are events.
Ready(s, ev) ==
  \/ sock[s].conn = Reset
  \/ "in" \in ev /\ rxq[s] # <<>>
  \/ "out" \in ev /\ sock[s].conn = Null

PollLook(t) ==
  /\ At(t, "polltest")
  /\ LET s == Top(t).s
         ev == waiter[t].ev
     IN /\ "in" \in ev /\ sock[s].conn # Reset => rxLock[s] = Null
        /\ Goto(t, <<Poll(Top(t).f, Top(t).ready \/ Ready(s, ev)), Put(s)>>)
  /\ UNCHANGED <<sockets, waiting, locks, router, told>>

\* No event: the lock is released for the wait, unless the time-out is 0.
PollSleep(t) ==
  /\ At(t, "poll") /\ Top(t).f = {}
  /\ \/ /\ ~Top(t).ready
        /\ waitLock' = Null
        /\ Goto(t, <<PollWaits>>)
     \/ /\ Goto(t, <<PollEnds>>)
        /\ UNCHANGED waitLock
  /\ UNCHANGED <<sockets, waiting, rxLock, router, told>>

PollWake(t) ==
  /\ At(t, "pollwait") /\ waitLock = Null /\ Wake(t)
  /\ waitLock' = t
  /\ Goto(t, <<Poll(waiter[t].f, FALSE)>>)
  /\ UNCHANGED <<sockets, waiter, rxLock, router, told>>

PollTimeOut(t) ==
  /\ At(t, "pollwait") /\ waitLock = Null
  /\ waitLock' = t
  /\ Goto(t, <<PollEnds>>)
  /\ UNCHANGED <<sockets, waiting, rxLock, router, told>>

PollEnd(t) ==
  /\ At(t, "pollend")
  /\ waiter' = [waiter EXCEPT ![t] = Null]
  /\ signal' = [signal EXCEPT ![t] = FALSE]
  /\ waitLock' = Null
  /\ Goto(t, <<>>)
  /\ UNCHANGED <<sockets, rxLock, router, told>>

-----------------------------------------------------------------------------
Init ==
  /\ app \in Apps
  /\ sock = [s \in Socks |-> [listed |-> FALSE, ref |-> 0, type |-> "data", active |-> {},
                              conn |-> Null, handle |-> FALSE]]
  /\ rxq = [s \in Socks |-> <<>>]
  /\ waiter = [t \in Threads |-> Null]
  /\ signal = [t \in Threads |-> FALSE]
  /\ waitLock = Null
  /\ rxLock = [s \in Socks |-> Null]
  /\ port = [s \in Socks |-> "none"]
  /\ gone = Peers \ app.peers
  /\ bucket = [a \in Addrs |-> 0]
  /\ queue = [a \in Addrs |-> <<>>]
  /\ asked = [p \in Peers |-> FALSE]
  /\ sent = [s \in Socks |-> [p \in Peers |-> 0]]
  /\ stack = [t \in Threads |-> <<>>]
  /\ told = [s \in Socks |-> {}]

Call(t, s) ==
  \/ Open(t, s) \/ Connect(t, s) \/ SetControl(t, s)
  \/ \E call \in {"shutRd", "shutWr", "close"} : Shutdown(t, s, call)
  \/ \E call \in {"recv", "tryrecv"} : Recv(t, s, call)
  \/ \E call \in {"send", "trysend"} : Send(t, s, call)

\* A thread goes on, inside a call or a callback.
Run(t) ==
  \/ PutSock(t) \/ UnblockEvent(t) \/ Enqueue(t) \/ Receive(t) \/ ResumeEvent(t)
  \/ RemoveEvent(t) \/ Flush(t) \/ Closed(t) \/ UnlockClient(t) \/ ResumeTx(t)
  \/ NotifyWaiter(t) \/ ListClients(t) \/ EventNotify(t) \/ CoreClose(t) \/ Confirm(t) \/ Unwait(t)
  \/ RecvWaiter(t) \/ RecvCheck(t) \/ RecvWake(t) \/ Read(t) \/ ReadDone(t)
  \/ SendWaiter(t) \/ CoreSend(t) \/ SendWake(t)
  \/ PollGet(t) \/ PollLook(t) \/ PollSleep(t) \/ PollWake(t) \/ PollEnd(t)

Next ==
  \/ \E t \in Users, s \in Socks : Call(t, s)
  \/ \E t \in Users, f \in SUBSET Socks, ev \in SUBSET {"in", "out"} : BeginPoll(t, f, ev)
  \/ \E t \in Threads : Run(t) \/ SendTimeOut(t) \/ PollTimeOut(t)
  \/ \E p \in Peers : PeerConfirms(p) \/ PeerGone(p) \/ \E s \in Socks : Arrive(p, s)

Spec == Init /\ [][Next]_vars

-----------------------------------------------------------------------------
(***************************************************************************)
(* Properties                                                              *)
(***************************************************************************)

TypeOK ==
  /\ app \in Apps
  /\ sock \in [Socks -> [listed : BOOLEAN, ref : Nat, type : {"data", "control"},
                         active : SUBSET {"rx", "tx"}, conn : Addrs \cup {Null, Reset},
                         handle : BOOLEAN]]
  /\ rxq \in [Socks -> Seq(Packet)]
  /\ waiter \in [Threads -> Entries \cup {Null}]
  /\ signal \in [Threads -> BOOLEAN]
  /\ waitLock \in Threads \cup {Null}
  /\ rxLock \in [Socks -> Threads \cup {Null}]
  /\ port \in [Socks -> {"none", "open", "removed", "freed"}]
  /\ gone \subseteq Peers
  /\ bucket \in [Addrs -> 0..Quota]
  /\ queue \in [Addrs -> Seq(Socks)]
  /\ asked \in [Peers -> BOOLEAN]
  /\ sent \in [Socks -> [Peers -> 0..Quota]]
  /\ stack \in [Threads -> Seq(Frame)]
  /\ told \in [Socks -> SUBSET Addrs]

\* A socket has a reference for the router, until CLOSED, and one for every
\* call inside; it is freed with the last, when no callback can name it any
\* more and no thread reads from it (get_sock, put_sock and CLOSED).
SockRefsExact ==
  \A s \in Socks :
    /\ sock[s].ref = Cardinality(Frames({"put", "polltest"}, s))
                       + (IF port[s] \in {"open", "removed"} THEN 1 ELSE 0)
    /\ sock[s].listed <=> sock[s].ref > 0
    /\ ~sock[s].listed =>
         Frames({"rx", "add", "resume", "remove", "flush", "confirm", "read", "readdone",
                 "closed", "coreclose"}, s) = {} /\ rxq[s] = <<>> /\ rxLock[s] = Null

\* What will still signal the readers, or the pollers, of a socket
ReadersCalled(s) ==
  Frames({"flush", "add"}, s) # {} \/
  \E p \in Frames({"unblock"}, s) : LET f == stack[p[1]][p[2]] IN f.a = Null /\ "in" \in f.ev

\* No lost wake-up for readers: a thread that waits in qrecvfrom or qpoll, and
\* has no signal yet, has nothing to return with, or will be signalled.
ReaderHasWaker ==
  \A t \in Users : ~signal[t] /\ (At(t, "recvwait") \/ At(t, "pollwait")) =>
    \A s \in waiter[t].f :
      sock[s].conn = Reset \/ ("in" \in waiter[t].ev /\ rxq[s] # <<>>) => ReadersCalled(s)

\* A RESUME_TX of address a is on its way to socket s.
ResumeUnderWay(s, a) ==
  \/ \E p \in Places : LET f == stack[p[1]][p[2]]
       IN f.op = "notify" /\ f.a = a /\ \E i \in DOMAIN f.q : f.q[i] = s
  \/ \E p \in Frames({"resume", "unblock"}, s) : stack[p[1]][p[2]].a = a
  \/ \E p \in Frames({"add"}, s) : stack[p[1]][p[2]].m = Resumed(a)

\* The socket is in the queue of a record without tokens.
Queued(s, a) == bucket[a] = Quota /\ \E i \in DOMAIN queue[a] : queue[a][i] = s

\* No lost wake-up for writers: a thread that waits in qsendto and has no
\* signal yet is in the queue of its destination, or RESUME_TX is on its way;
\* with the receive side shut down the event is ignored.
WriterHasWaker ==
  \A t \in Users : At(t, "sendwait") /\ ~signal[t] =>
    LET s == Top(t).s
        a == Top(t).a
    IN Rx(s) => Queued(s, a) \/ ResumeUnderWay(s, a)

\* A packet of s that asks address a to be resumed is unread, or being read.
ConfirmDue(s, a) ==
  \/ \E i \in DOMAIN rxq[s] : rxq[s][i] = Message(a, TRUE)
  \/ \E p \in Frames({"rx", "add"}, s) : stack[p[1]][p[2]].m = Message(a, TRUE)
  \/ \E p \in Frames({"confirm"}, s) : stack[p[1]][p[2]].a = a

\* The confirmation a full destination waits for is never lost, through
\* connect, messages from elsewhere and reads, as long as the destination
\* takes messages (sock_rx_cb, qrecvfrom).
ConfirmKept ==
  \A s \in Socks : port[s] = "open" /\ Data(s) /\ Rx(s) /\ sock[s].conn # Reset =>
    /\ \A p \in Peers : p \notin gone /\ sent[s][p] = Quota => ConfirmDue(s, p)
    /\ bucket[s] = Quota => Frames({"resumetx"}, s) # {} \/ \E a \in Socks : ConfirmDue(s, a)

\* QEAGAIN is followed by an event (qsocket.h): as long as the destination was
\* not sent to, the empty packet that names it is, or will be, in the queue.
EagainIsReported ==
  \A s \in Socks : \A a \in told[s] :
    port[s] = "open" /\ Rx(s) /\ sock[s].conn # Reset =>
      Queued(s, a) \/ ResumeUnderWay(s, a) \/ \E i \in DOMAIN rxq[s] : rxq[s][i] = Resumed(a)

\* The lock a thread needs for its next step, and who holds it
Needs(t, u) ==
  \/ /\ At(t, "unblock") \/ At(t, "unwait") \/ At(t, "recvwaiter") \/ At(t, "sendwaiter")
     /\ waitLock = u
  \/ /\ At(t, "add") \/ At(t, "flush") \/ At(t, "read") \/ At(t, "recvcheck") \/ At(t, "polltest")
     /\ rxLock[Top(t).s] = u

\* No threads wait for each other, or one for itself, through the locks of the
\* sockets and of the waiters (put_sock in qpoll, callbacks in qrecvfrom).
NoLockCycle ==
  \A c \in (SUBSET Threads) \ {{}} : \E t \in c : \A u \in c : ~Needs(t, u)
=============================================================================
