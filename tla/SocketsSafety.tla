----------------------------- MODULE SocketsSafety -----------------------------
(***************************************************************************)
(* More theorems about Sockets, from the invariant of SocketsProofs: that  *)
(* no wake-up of a thread that waits, no confirmation a full sender waits  *)
(* for and no promised event is lost, and that no threads wait for each    *)
(* other through the locks.  The hypotheses of the last three are about    *)
(* what the application calls (NoRevival, NoMixing, PollersApart, Layered).*)
(***************************************************************************)
EXTENDS SocketsProofs, WellFoundedInduction

\* What will still tell the threads that wait for socket s: that it was
\* disconnected, and that there is a packet
HupCalled(s) == Present(At1("flush", s)) \/ Present(Unblock(s, {"in", "hup"}, Null))
InCalled(s) == Present(Unblock(s, {"in"}, Null)) \/ Present(Unblock(s, {"in", "hup"}, Null))
Called(u, s) ==
  /\ sock[s].conn = Reset => HupCalled(s)
  /\ "in" \in waiter[u].ev /\ rxq[s] # <<>> => InCalled(s)

\* A thread at frame f, with the entry w, has found no event at socket s.
Seen(f, w, s) ==
  \/ f.op \in {"recvwait", "pollwait"} /\ s \in w.f
  \/ f.op = "poll" /\ ~f.ready /\ s \in w.f \ f.f
  \/ f.op = "polltest" /\ ~f.ready /\ s \in w.f \ f.f /\ s # f.s

\* No wake-up is lost between the look at a socket and the wait.
Readers ==
  \A u \in Threads : \A i \in DOMAIN stack[u] : \A s \in Socks :
    ~signal[u] /\ Seen(stack[u][i], waiter[u], s) => Called(u, s)

\* What is known of a step and of the thread that makes it
LEMMA StepFacts ==
  ASSUME SockInv, NEW t \in Threads, NEW q \in Seq(Frame), Step(t, q)
  PROVE  /\ TypeOK /\ StackType /\ Shape /\ Waiters /\ Moves(t, q) /\ Goto(t, q) /\ Doing(t) /\ Calm(t)
         /\ Op(t) # "none" => stack[t] # <<>> /\ Top(t) \in Frame /\ Top(t).op = Op(t)
         /\ stack[t] # <<>> => Op(t) = Top(t).op /\ Present(Top(t))
  <1>1. TypeOK /\ StackType /\ Shape /\ Waiters /\ Moves(t, q) /\ Goto(t, q) /\ Doing(t) /\ Calm(t)
    BY DEF SockInv, TypeOK, StackType, Step, Moves
  <1>2. QED
    BY <1>1, TopOp, TopPresent DEF Op

\* Every step of the specification is a Step of one thread.
LEMMA NextStep ==
  ASSUME SockInv, Next
  PROVE  \E t \in Threads : \E q \in Seq(Frame) : Step(t, q)
  <1>1. TypeOK /\ Shape /\ Waiters
    BY DEF SockInv
  <1>2. Polling
    BY <1>1 DEF Polling, Waiters, Entry
  <1>3. QED
    BY <1>1, <1>2, NextSteps

\* A call of unblock_event signals whom it is for.
LEMMA Signalled ==
  ASSUME SockInv, NEW t \in Threads, NEW q \in Seq(Frame), Step(t, q), NEW s \in Socks, NEW ev, NEW a,
         stack[t] # <<>>, Top(t) = Unblock(s, ev, a), NEW u \in Threads, u \in Matches(s, ev, a)
  PROVE  signal'[u]
  <1>1. Op(t) = "unblock"
    BY DEF Op, Unblock
  <1>2. UnblockEvent(t)
    BY <1>1, StepFacts, DoesUnblock
  <1>3. signal' = [v \in Threads |-> signal[v] \/ v \in Matches(Top(t).s, Top(t).ev, Top(t).a)]
    BY <1>2 DEF UnblockEvent
  <1>4. Top(t).s = s /\ Top(t).ev = ev /\ Top(t).a = a
    BY DEF Unblock
  <1>5. QED
    BY <1>3, <1>4

\* A poller that a hang-up concerns is signalled, or the callback for it stays under
\* way.
LEMMA HupKept ==
  ASSUME SockInv, NEW t \in Threads, NEW q \in Seq(Frame), Step(t, q), NEW s \in Socks, NEW u \in Threads,
         waiter[u] # Null, s \in waiter[u].f, ~signal'[u], HupCalled(s)
  PROVE  HupCalled(s)'
  <1>0. StackType /\ Goto(t, q) /\ TypeOK
    BY StepFacts
  <1>1. CASE Present(Unblock(s, {"in", "hup"}, Null))
    <2>1. u \in Matches(s, {"in", "hup"}, Null)
      BY DEF Matches
    <2>2. stack[t] # <<>> => Top(t) # Unblock(s, {"in", "hup"}, Null)
      BY <2>1, Signalled
    <2>3. Present(Unblock(s, {"in", "hup"}, Null))'
      BY <1>0, <1>1, <2>2, PresentKept
    <2>4. QED
      BY <2>3 DEF HupCalled
  <1>2. CASE Present(At1("flush", s))
    <2>1. CASE stack[t] # <<>> /\ Top(t) = At1("flush", s)
      <3>1. Op(t) = "flush" /\ Top(t).s = s
        BY <2>1 DEF Op, At1
      <3>2. q = <<Unblock(s, {"in", "hup"}, Null)>>
        BY <1>0, <3>1, DoesFlush
      <3>3. 1 \in DOMAIN q /\ q[1] = Unblock(s, {"in", "hup"}, Null)
        BY <3>2
      <3>4. Present(q[1])'
        BY <1>0, <3>3, PresentEntered
      <3>5. QED
        BY <3>3, <3>4 DEF HupCalled, Present
    <2>2. CASE ~(stack[t] # <<>> /\ Top(t) = At1("flush", s))
      <3>1. Present(At1("flush", s))'
        BY <1>0, <1>2, <2>2, PresentKept
      <3>2. QED
        BY <3>1 DEF HupCalled
    <2>3. QED
      BY <2>1, <2>2
  <1>3. QED
    BY <1>1, <1>2 DEF HupCalled

\* The same of a poller that waits to read.
LEMMA InKept ==
  ASSUME SockInv, NEW t \in Threads, NEW q \in Seq(Frame), Step(t, q), NEW s \in Socks, NEW u \in Threads,
         waiter[u] # Null, s \in waiter[u].f, "in" \in waiter[u].ev, ~signal'[u], InCalled(s)
  PROVE  InCalled(s)'
  <1>0. StackType /\ Goto(t, q) /\ TypeOK
    BY StepFacts
  <1>1. ASSUME NEW ev, Present(Unblock(s, ev, Null)), "in" \in ev
        PROVE  Present(Unblock(s, ev, Null))'
    <2>1. u \in Matches(s, ev, Null)
      BY <1>1 DEF Matches
    <2>2. stack[t] # <<>> => Top(t) # Unblock(s, ev, Null)
      BY <2>1, Signalled
    <2>3. QED
      BY <1>0, <1>1, <2>2, PresentKept
  <1>2. QED
    BY <1>1 DEF InCalled

\* What a call does to the socket it is made on, and a callback to its socket
LEMMA CallSock ==
  ASSUME TypeOK, NEW t \in Threads, NEW s \in Socks, Call(t, s), ~Open(t, s)
  PROVE  /\ \E call : Get(t, s, call)
         /\ sock'[s].conn = sock[s].conn \/ (Data(s) /\ sock[s].conn = Null /\ sock'[s].conn \in Addrs \cap app.partners)
         /\ sock'[s].type = sock[s].type \/ (SetControl(t, s) /\ sock'[s].type = "control" /\ sock'[s].active = {"rx"} /\ sock[s].conn = Null
                                               /\ rxq[s] = <<>> /\ sock'[s].conn = Null)
         /\ \/ sock'[s].active = sock[s].active
            \/ SetControl(t, s) /\ sock'[s].active = {"rx"} /\ sock'[s].type = "control"
            \/ \E call \in {"shutRd", "shutWr", "close"} :
                 Shutdown(t, s, call) /\ sock'[s].active = sock[s].active \ Off(call)
         /\ \/ sock'[s].handle = sock[s].handle /\ (sock'[s].active = {} => ~sock'[s].handle \/ sock[s].active = {})
            \/ ~sock'[s].handle /\ sock'[s].active = {}
  <1>0. sock \in [Socks -> SockType] /\ sock[s] \in SockType
    BY DEF TypeOK, SockType
  <1>1. Ref(s) = [sock[s] EXCEPT !.ref = sock[s].ref + 1]
    BY DEF Ref
  <1>2. CASE Connect(t, s)
    <2>1. PICK a \in app.partners : sock' = [sock EXCEPT ![s] =
             [Ref(s) EXCEPT !.conn = IF Data(s) /\ @ = Null THEN a ELSE @]]
      BY <1>2 DEF Connect
    <2>2. a \in Addrs
      BY SocketAssumption DEF TypeOK
    <2>3. sock'[s] = [Ref(s) EXCEPT !.conn = IF Data(s) /\ @ = Null THEN a ELSE @]
      BY <1>0, <2>1
    <2>4. Get(t, s, "connect")
      BY <1>2 DEF Connect
    <2>5. QED
      BY <1>0, <1>1, <2>2, <2>3, <2>4 DEF SockType
  <1>3. CASE SetControl(t, s)
    <2>1. sock' = [sock EXCEPT ![s] =
             IF sock[s].conn = Null /\ rxq[s] = <<>>
             THEN [Ref(s) EXCEPT !.type = "control", !.active = {"rx"}] ELSE Ref(s)]
      BY <1>3 DEF SetControl
    <2>2. sock'[s] = IF sock[s].conn = Null /\ rxq[s] = <<>>
             THEN [Ref(s) EXCEPT !.type = "control", !.active = {"rx"}] ELSE Ref(s)
      BY <1>0, <2>1
    <2>3. Get(t, s, "control")
      BY <1>3 DEF SetControl
    <2>4. QED
      BY <1>0, <1>1, <1>3, <2>2, <2>3, SMTT(30) DEF SockType
  <1>4. CASE \E call \in {"shutRd", "shutWr", "close"} : Shutdown(t, s, call)
    <2>1. PICK call \in {"shutRd", "shutWr", "close"} : Shutdown(t, s, call)
      BY <1>4
    <2> DEFINE active == sock[s].active \ Off(call)
    <2>2. sock' = [sock EXCEPT ![s] = [Ref(s) EXCEPT !.active = active, !.handle = @ /\ active # {}]]
      BY <2>1 DEF Shutdown
    <2>3. sock'[s] = [Ref(s) EXCEPT !.active = active, !.handle = @ /\ active # {}]
      BY <1>0, <2>2
    <2>4. Get(t, s, call)
      BY <2>1 DEF Shutdown
    <2> HIDE DEF active
    <2>5. /\ sock'[s].conn = sock[s].conn /\ sock'[s].type = sock[s].type /\ sock'[s].active = active
          /\ sock'[s].handle = (sock[s].handle /\ active # {})
      BY <1>0, <1>1, <2>3 DEF SockType
    <2>6. sock[s].handle \in BOOLEAN
      BY <1>0 DEF SockType
    <2>7. QED
      BY <2>1, <2>4, <2>5, <2>6 DEF active
  <1>5. CASE (\E call \in {"recv", "tryrecv"} : Recv(t, s, call)) \/ (\E call \in {"send", "trysend"} : Send(t, s, call))
    <2>1. sock' = [sock EXCEPT ![s] = Ref(s)] /\ \E call : Get(t, s, call)
      BY <1>5 DEF Recv, Send
    <2>2. sock'[s] = Ref(s)
      BY <1>0, <2>1
    <2>3. QED
      BY <1>0, <1>1, <2>1, <2>2 DEF SockType
  <1>6. QED
    BY <1>2, <1>3, <1>4, <1>5 DEF Call

\* A socket is connected once, by its user, and reset only by the callback of a lost
\* peer.
LEMMA ConnAfter ==
  ASSUME SockInv, NEW t \in Threads, NEW q \in Seq(Frame), Step(t, q), NEW s \in Socks
  PROVE  \/ sock'[s].conn = sock[s].conn
         \/ Op(t) = "none" /\ sock[s].conn = Null /\ sock'[s].conn \in Addrs \cap app.partners
         \/ Op(t) = "remove" /\ Top(t).s = s /\ sock'[s].conn = Reset /\ q = <<At1("flush", s)>>
  <1>0. TypeOK /\ Calm(t) /\ sock \in [Socks -> SockType] /\ Moves(t, q)
    BY StepFacts DEF TypeOK, SockType
  <1>1. CASE Op(t) \notin {"none", "put", "remove", "poll"}
    BY <1>0, <1>1 DEF Calm
  <1>2. CASE Op(t) = "put"
    <2>1. PutSock(t)
      BY <1>0, <1>2, DoesPut
    <2>2. QED
      BY <1>0, <2>1 DEF PutSock, SockType
  <1>3. CASE Op(t) = "poll"
    <2>1. sock' = sock \/ \E r \in Socks : sock' = [sock EXCEPT ![r] = Ref(r)]
      BY <1>0, <1>3, DoesPoll
    <2>2. QED
      BY <1>0, <2>1 DEF Ref, SockType
  <1>4. CASE Op(t) = "remove"
    <2>1. /\ RemoveEvent(t) /\ Top(t).s \in Socks
          /\ q = IF Rx(Top(t).s) /\ ~Data(Top(t).s) THEN <<Add(Top(t).s, News)>>
                 ELSE IF Rx(Top(t).s) /\ Data(Top(t).s) /\ sock[Top(t).s].conn = Top(t).a
                      THEN <<At1("flush", Top(t).s)>> ELSE <<>>
      BY <1>0, <1>4, DoesRemove
    <2>2. sock' = IF Rx(Top(t).s) /\ Data(Top(t).s) /\ sock[Top(t).s].conn = Top(t).a
                  THEN [sock EXCEPT ![Top(t).s].conn = Reset] ELSE sock
      BY <2>1 DEF RemoveEvent
    <2>3. QED
      BY <1>0, <1>4, <2>1, <2>2 DEF SockType
  <1>5. CASE Op(t) = "none"
    <2>1. CASE \E r \in Socks : Open(t, r)
      BY <1>0, <2>1 DEF Open, SockType
    <2>2. CASE \E r \in Socks : Call(t, r) /\ ~Open(t, r)
      <3>1. PICK r \in Socks : Call(t, r) /\ ~Open(t, r)
        BY <2>2
      <3>2. r # s => sock'[s] = sock[s]
        BY <1>0, <3>1, CallEffects
      <3>3. QED
        BY <1>0, <1>5, <3>1, <3>2, CallSock
    <2>3. CASE ~(\E r \in Socks : Open(t, r)) /\ ~(\E r \in Socks : Call(t, r) /\ ~Open(t, r))
      BY <1>0, <1>5, <2>3, BeginCases DEF BeginPoll, PeerConfirms, PeerGone, Arrive, sockets
    <2>4. QED
      BY <2>1, <2>2, <2>3
  <1>6. QED
    BY <1>1, <1>2, <1>3, <1>4, <1>5

\* What a step does to a receive queue: nothing, empty it, add one packet, or take the
\* first one out
LEMMA RxqAfter ==
  ASSUME SockInv, NEW t \in Threads, NEW q \in Seq(Frame), Step(t, q), NEW s \in Socks
  PROVE  \/ rxq'[s] = rxq[s]
         \/ rxq'[s] = <<>>
         \/ /\ Op(t) = "add" /\ Top(t).s = s /\ q = <<Unblock(s, {"in"}, Null)>>
            /\ rxLock[s] = Null /\ rxq'[s] = Append(rxq[s], Top(t).m)
         \/ /\ Op(t) = "readdone" /\ Top(t).s = s /\ q = <<>> /\ rxLock[s] = t
            /\ rxq[s] # <<>> /\ rxq'[s] = Tail(rxq[s])
  <1>0. TypeOK /\ StackType /\ Shape /\ RxLocks /\ Calm(t) /\ rxq \in [Socks -> Seq(Packet)]
    BY StepFacts DEF TypeOK, SockInv
  <1>1. CASE Op(t) \notin {"put", "add", "flush", "readdone"}
    BY <1>0, <1>1 DEF Calm
  <1>2. CASE Op(t) = "put"
    <2>1. PutSock(t)
      BY <1>0, <1>2, DoesPut
    <2>2. QED
      BY <1>0, <2>1 DEF PutSock
  <1>3. CASE Op(t) = "flush"
    <2>1. Flush(t)
      BY <1>0, <1>3, DoesFlush
    <2>2. QED
      BY <1>0, <2>1 DEF Flush
  <1>4. CASE Op(t) = "add"
    <2>1. Enqueue(t) /\ q = <<Unblock(Top(t).s, {"in"}, Null)>>
      BY <1>0, <1>4, DoesAdd
    <2>2. QED
      BY <1>0, <1>4, <2>1 DEF Enqueue
  <1>5. CASE Op(t) = "readdone"
    <2>1. ReadDone(t) /\ q = <<>> /\ Top(t).s \in Socks /\ stack[t] # <<>> /\ Top(t).op = "readdone"
      BY <1>0, <1>5, TopOp, DoesReadDone
    <2>2. rxLock[Top(t).s] = t /\ t # Null
      BY <1>0, <2>1, ReadTop, AddrTypes DEF RxLocks
    <2>3. rxq[Top(t).s] # <<>>
      BY <1>0, <2>1, <2>2 DEF RxLocks
    <2>4. rxq' = [rxq EXCEPT ![Top(t).s] = Tail(rxq[Top(t).s])]
      BY <2>1 DEF ReadDone
    <2>5. QED
      BY <1>0, <1>5, <2>1, <2>2, <2>3, <2>4
  <1>6. QED
    BY <1>1, <1>2, <1>3, <1>4, <1>5

\* A waiter that events concern is signalled, or its callback stays under way.
LEMMA CalledKept ==
  ASSUME SockInv, NEW t \in Threads, NEW q \in Seq(Frame), Step(t, q), NEW s \in Socks, NEW u \in Threads,
         waiter[u] # Null, s \in waiter[u].f, waiter'[u] = waiter[u], ~signal'[u], Called(u, s)
  PROVE  Called(u, s)'
  <1>0. StackType /\ Goto(t, q) /\ TypeOK /\ rxq \in [Socks -> Seq(Packet)]
    BY StepFacts DEF TypeOK
  <1>1. ASSUME sock'[s].conn = Reset PROVE HupCalled(s)'
    <2>1. CASE sock[s].conn = Reset
      BY <2>1, HupKept DEF Called
    <2>2. CASE sock[s].conn # Reset
      <3>1. q = <<At1("flush", s)>>
        BY <1>1, <2>2, ConnAfter, AddrTypes
      <3>2. 1 \in DOMAIN q /\ q[1] = At1("flush", s)
        BY <3>1
      <3>3. Present(q[1])'
        BY <1>0, <3>2, PresentEntered
      <3>4. QED
        BY <3>2, <3>3 DEF HupCalled, Present
    <2>3. QED
      BY <2>1, <2>2
  <1>2. ASSUME "in" \in waiter[u].ev, rxq'[s] # <<>> PROVE InCalled(s)'
    <2>1. CASE rxq[s] # <<>>
      BY <1>2, <2>1, InKept DEF Called
    <2>2. CASE rxq[s] = <<>>
      <3>1. q = <<Unblock(s, {"in"}, Null)>>
        BY <1>2, <2>2, RxqAfter
      <3>2. 1 \in DOMAIN q /\ q[1] = Unblock(s, {"in"}, Null)
        BY <3>1
      <3>3. Present(q[1])'
        BY <1>0, <3>2, PresentEntered
      <3>4. QED
        BY <3>2, <3>3 DEF InCalled, Present
    <2>3. QED
      BY <2>1, <2>2
  <1>3. QED
    BY <1>1, <1>2 DEF Called

Looks == {"recvwait", "pollwait", "poll", "polltest"}

\* A thread that has found no event is in the list.
LEMMA SeenWaits ==
  ASSUME SockInv, NEW u \in Threads, NEW i \in DOMAIN stack[u], NEW s, Seen(stack[u][i], waiter[u], s)
  PROVE  stack[u][i].op \in Looks /\ waiter[u] # Null /\ s \in waiter[u].f
  <1>0. Waiters /\ StackType
    BY DEF SockInv, TypeOK, StackType
  <1>1. stack[u][i] \in Frame /\ Entry(stack[u][i], waiter[u])
    BY <1>0 DEF Waiters, StackType
  <1>2. stack[u][i].op \in Looks /\ s \in waiter[u].f
    BY DEF Seen, Looks
  <1>3. CASE stack[u][i].op = "recvwait"
    <2>1. waiter[u] = [f |-> {stack[u][i].s}, ev |-> {"in"}, a |-> Null] /\ stack[u][i].s \in Socks
      BY <1>1, <1>3, FieldTypes DEF Entry
    <2>2. waiter[u] \in Entries
      BY <2>1 DEF Entries
    <2>3. QED
      BY <1>2, <2>2, SocketAssumption
  <1>4. CASE stack[u][i].op # "recvwait"
    BY <1>1, <1>2, <1>4 DEF Entry, Looks
  <1>5. QED
    BY <1>2, <1>3, <1>4

\* A thread loses its signal only by what it does itself.
LEMMA SignalKept ==
  ASSUME SockInv, NEW t \in Threads, NEW q \in Seq(Frame), Step(t, q), NEW u \in Threads, signal[u],
         \/ u # t
         \/ Op(t) \notin {"none", "unwait", "recvwaiter", "recvwait", "sendwaiter", "sendwait", "pollwait", "pollend"}
  PROVE  signal'[u]
  <1>0. TypeOK /\ Calm(t) /\ signal \in [Threads -> BOOLEAN] /\ Doing(t)
    BY StepFacts DEF TypeOK
  <1>1. CASE Op(t) = "unblock"
    <2>1. UnblockEvent(t)
      BY <1>0, <1>1, DoesUnblock
    <2>2. QED
      BY <2>1 DEF UnblockEvent
  <1>2. CASE Op(t) \notin {"none", "unblock", "unwait", "recvwaiter", "recvwait", "sendwaiter", "sendwait", "pollwait",
                           "pollend"}
    BY <1>0, <1>2 DEF Calm
  <1>3. ASSUME \E w : signal' = [signal EXCEPT ![t] = w], u # t PROVE signal'[u]
    BY <1>0, <1>3
  <1>4. CASE Op(t) \in {"unwait", "recvwaiter", "recvwait", "sendwaiter", "sendwait", "pollwait", "pollend"} /\ u # t
    BY <1>0, <1>3, <1>4 DEF Doing, Unwait, RecvWaiter, RecvWake, SendWaiter, SendWake, SendTimeOut, PollWake, PollTimeOut,
                            PollEnd, Wait, Wake, waiting
  <1>5. CASE Op(t) = "none" /\ u # t
    <2>1. CASE \E f \in SUBSET Socks, ev \in SUBSET {"in", "out"} : BeginPoll(t, f, ev)
      BY <1>3, <1>5, <2>1 DEF BeginPoll, Wait
    <2>2. CASE \E r \in Socks : Call(t, r) /\ ~Open(t, r)
      <3>1. PICK r \in Socks : Call(t, r) /\ ~Open(t, r)
        BY <2>2
      <3>2. waiting' = waiting
        BY <1>0, <3>1, StepFacts, CallEffects
      <3>3. QED
        BY <3>2 DEF waiting
    <2>3. CASE /\ ~\E r \in Socks : Call(t, r) /\ ~Open(t, r)
               /\ ~\E f \in SUBSET Socks, ev \in SUBSET {"in", "out"} : BeginPoll(t, f, ev)
      BY <1>0, <1>5, <2>3, BeginCases DEF Open, PeerConfirms, PeerGone, Arrive, waiting
    <2>4. QED
      BY <2>1, <2>2, <2>3
  <1>6. QED
    BY <1>1, <1>2, <1>4, <1>5

\* A frame of the thread that moves that is not its top frame stays, and so does
\* its entry, when it waits.
LEMMA BelowLooks ==
  ASSUME SockInv, NEW t \in Threads, NEW q \in Seq(Frame), Step(t, q), NEW i \in 1..Len(Below(t)),
         stack[t][i].op \in Looks \cup {"sendwait"}
  PROVE  Op(t) \notin {"none", "unwait", "recvwaiter", "recvcheck", "recvwait", "sendwaiter", "send", "sendwait", "trysend",
                       "poll", "polltest", "pollwait", "pollend", "read", "readdone", "coreclose"}
  <1>0. StackType /\ Shape /\ Goto(t, q)
    BY StepFacts
  <1>1. stack[t] # <<>> /\ i \in DOMAIN stack[t] /\ Op(t) = Top(t).op
    BY <1>0, GotoFrames, StepFacts
  <1>2. OkAt(stack[t], i)
    BY <1>0, <1>1 DEF Shape
  <1> DEFINE n == Len(stack[t])
  <1>3. /\ n \in DOMAIN stack[t] /\ stack[t][n] = Top(t) /\ OkAt(stack[t], n)
        /\ n \in Nat /\ Len(Below(t)) = n - 1
    BY <1>0, <1>1, TopAt
  <1>4. i \in Nat /\ i < n /\ i >= 1
    <2>1. Len(Below(t)) \in Nat
      BY <1>3, <1>1, <1>0, GotoFrames
    <2>2. QED
      BY <1>3, <2>1
  <1> HIDE DEF n
  <1>9. LET f == Top(t)
        IN /\ f.op # "none"
           /\ f.op \in {"read", "readdone", "trysend", "coreclose"} => n = 2 /\ stack[t][1] = Put(f.s)
           /\ f.op = "unwait" => stack[t][1] = Put(f.s) /\ n \in {2, 3}
           /\ f.op = "unwait" /\ n = 3 => stack[t][2] = At1("read", f.s)
           /\ f.op \in {"sendwaiter", "send", "sendwait"} => n = 3 /\ stack[t][1] = Put(f.s)
           /\ f.op \in {"recvwaiter", "recvcheck", "recvwait"} => n = 4 /\ stack[t][1] = Put(f.s) /\ stack[t][2] = At1("read", f.s)
           /\ f.op \in {"poll", "polltest", "pollwait", "pollend"} => n = 1
    <2>1. Top(t) \in Frame
      BY <1>0, <1>1, TopAt
    <2>2. Top(t).op # "none"
      BY <2>1 DEF Frame
    <2>3. QED
      BY <1>3, <2>2 DEF OkAt
  <1>5. CASE stack[t][i].op = "recvwait"
    <2>1. i = 4
      BY <1>2, <1>5 DEF OkAt
    <2>2. QED
      BY <1>1, <1>4, <1>9, <2>1
  <1>6. CASE stack[t][i].op \in {"poll", "polltest", "pollwait"}
    <2>1. i = 1 /\ \A s : stack[t][1] # Put(s)
      BY <1>2, <1>6 DEF OkAt, Put, At1
    <2>2. QED
      BY <1>1, <1>4, <1>9, <2>1
  <1>7. CASE stack[t][i].op = "sendwait"
    <2>1. i = 3 /\ stack[t][1] = Put(stack[t][3].s) /\ stack[t][2] = At1("unwait", stack[t][3].s)
      BY <1>2, <1>7 DEF OkAt
    <2>2. \A r : stack[t][2] # At1("read", r)
      BY <2>1 DEF At1
    <2>3. QED
      BY <1>1, <1>4, <1>9, <2>1, <2>2
  <1>8. QED
    BY <1>5, <1>6, <1>7 DEF Looks

\* A step keeps a callback or signal under way for every waiting reader.
LEMMA ReadersStep ==
  ASSUME SockInv, Readers, NEW t \in Threads, NEW q \in Seq(Frame), Step(t, q)
  PROVE  Readers'
  <1>0. TypeOK /\ StackType /\ Shape /\ Waiters /\ Goto(t, q) /\ Moves(t, q) /\ Calm(t)
    BY StepFacts
  <1> SUFFICES ASSUME NEW u \in Threads, NEW i \in DOMAIN stack'[u], NEW s \in Socks,
                      ~signal'[u], Seen(stack'[u][i], waiter'[u], s)
               PROVE  Called(u, s)'
    BY DEF Readers
  <1>1. ASSUME NEW j \in DOMAIN stack[u], Seen(stack[u][j], waiter[u], s), waiter'[u] = waiter[u], ~signal[u]
        PROVE  Called(u, s)'
    <2>1. Called(u, s)
      BY <1>1 DEF Readers
    <2>2. waiter[u] # Null /\ s \in waiter[u].f
      BY <1>1, SeenWaits
    <2>3. QED
      BY <1>1, <2>1, <2>2, CalledKept
  <1>2. CASE u # t
    <2>1. waiter'[u] = waiter[u] /\ stack'[u] = stack[u]
      BY <1>0, <1>2, OthersWait
    <2>2. ~signal[u]
      BY <1>2, SignalKept
    <2>3. QED
      BY <1>1, <2>1, <2>2
  <1>3. CASE u = t /\ i \in 1..Len(Below(t))
    <2>1. i \in DOMAIN stack[t] /\ stack'[t][i] = stack[t][i]
      BY <1>0, <1>3, GotoFrames
    <2>2. stack[t][i].op \in Looks \cup {"sendwait"}
      BY <1>3, <2>1 DEF Seen, Looks
    <2>3. Op(t) \notin {"none", "unwait", "recvwaiter", "recvcheck", "recvwait", "sendwaiter", "send", "sendwait", "trysend",
                        "poll", "polltest", "pollwait", "pollend", "read", "readdone", "coreclose"}
      BY <1>3, <2>2, BelowLooks
    <2>4. waiter' = waiter
      BY <1>0, <2>3 DEF Calm
    <2>5. ~signal[t]
      BY <1>3, <2>3, SignalKept
    <2>6. QED
      BY <1>1, <1>3, <2>1, <2>4, <2>5
  <1>4. ASSUME u = t, NEW k \in DOMAIN q, stack'[t][i] = q[k]
        PROVE  Called(u, s)'
    <2>1. Seen(q[k], waiter'[t], s) /\ q[k].op \in Looks
      BY <1>4 DEF Seen, Looks
    <2>2. CASE Op(t) = "none"
      <3>1. CASE \E r \in Socks : Call(t, r) /\ ~Open(t, r)
        <4>1. PICK r \in Socks : Call(t, r) /\ ~Open(t, r)
          BY <3>1
        <4>2. /\ 1 \in DOMAIN q /\ q[1] = Put(r)
              /\ \A j \in DOMAIN q : j # 1 => q[j].op \in {"coreclose", "read", "unwait", "recvwaiter", "sendwaiter", "trysend"}
          BY <1>0, <4>1, CallEffects
        <4>3. QED
          BY <2>1, <4>2 DEF Looks, Put, At1
      <3>2. CASE \E f \in SUBSET Socks, ev \in SUBSET {"in", "out"} : BeginPoll(t, f, ev) /\ q = <<Poll(f, FALSE)>>
        <4>1. PICK f \in SUBSET Socks, ev \in SUBSET {"in", "out"} : BeginPoll(t, f, ev) /\ q = <<Poll(f, FALSE)>>
          BY <3>2
        <4>2. waiter'[t] = [f |-> f, ev |-> ev, a |-> Null]
          BY <1>0, <4>1 DEF BeginPoll, Wait, TypeOK
        <4>3. q[k].op = "poll" /\ q[k].f = f
          BY <4>1 DEF Poll
        <4>4. QED
          BY <2>1, <4>2, <4>3 DEF Seen
      <3>3. CASE ~(\E r \in Socks : Call(t, r) /\ ~Open(t, r))
                 /\ ~(\E f \in SUBSET Socks, ev \in SUBSET {"in", "out"} : BeginPoll(t, f, ev) /\ q = <<Poll(f, FALSE)>>)
        <4>1. \/ q = <<>>
              \/ \E p \in Peers : q = <<Notify(queue[p], p)>>
              \/ \E p \in Peers : q = <<Gone(p), Notify(queue[p], p)>>
              \/ \E p \in Peers, r \in Socks : q = <<Unlock(r), RxCb(r, Message(p, sent[r][p] + 1 = Quota))>>
          BY <1>0, <2>2, <3>3, BeginCases, Zenon
        <4>4. CASE \E p \in Peers, r \in Socks : q = <<Unlock(r), RxCb(r, Message(p, sent[r][p] + 1 = Quota))>>
          <5>1. PICK p \in Peers, r \in Socks : q = <<Unlock(r), RxCb(r, Message(p, sent[r][p] + 1 = Quota))>>
            BY <4>4
          <5> DEFINE m == Message(p, sent[r][p] + 1 = Quota)
          <5> HIDE DEF m
          <5>2. q = <<Unlock(r), RxCb(r, m)>>
            BY <5>1 DEF m
          <5>3. q[k].op \in {"unlock", "rx"}
            BY <5>2 DEF Unlock, RxCb, At1
          <5>4. QED
            BY <2>1, <5>3 DEF Looks
        <4>5. CASE q = <<>> \/ (\E p \in Peers : q = <<Notify(queue[p], p)>>) \/ (\E p \in Peers : q = <<Gone(p), Notify(queue[p], p)>>)
          <5>1. q[k].op \in {"gone", "notify"}
            BY <4>5 DEF Notify, Gone
          <5>2. QED
            BY <2>1, <5>1 DEF Looks
        <4>6. QED
          BY <4>1, <4>4, <4>5
      <3>4. QED
        BY <3>1, <3>2, <3>3
    <2>3. CASE Op(t) # "none"
      <3>0. /\ stack[t] # <<>> /\ Top(t) \in Frame /\ Top(t).op = Op(t)
            /\ Len(stack[t]) \in DOMAIN stack[t] /\ stack[t][Len(stack[t])] = Top(t)
            /\ Entry(Top(t), waiter[t])
        BY <1>0, <2>3, TopOp, TopAt DEF Waiters
      <3>1. Follows(Top(t), q)
        BY <1>0, <3>0 DEF Moves
      <3>2. Op(t) \in {"recvcheck", "poll", "polltest", "pollwait"}
        BY <2>1, <3>0, <3>1, FollowsOps DEF Looks
      <3>3. waiter' = waiter
        BY <1>0, <3>2 DEF Calm
      <3>4. ASSUME Seen(Top(t), waiter[t], s), Op(t) # "pollwait" PROVE Called(u, s)'
        <4>1. ~signal[t]
          BY <1>4, <3>2, <3>4, SignalKept
        <4>2. QED
          BY <1>1, <1>4, <3>0, <3>3, <3>4, <4>1
      <3>5. ASSUME sock[s].conn # Reset, "in" \in waiter[t].ev => rxq[s] = <<>>, sock' = sock, rxq' = rxq
            PROVE  Called(u, s)'
        BY <1>4, <3>3, <3>5 DEF Called
      <3>6. CASE Op(t) = "recvcheck"
        <4>1. q = IF rxq[Top(t).s] # <<>> \/ sock[Top(t).s].conn = Reset THEN <<>> ELSE <<At1("recvwait", Top(t).s)>>
          BY <1>0, <3>6, DoesRecvCheck
        <4>2. rxq[Top(t).s] = <<>> /\ sock[Top(t).s].conn # Reset
          BY <4>1
        <4>3. q[k].op = "recvwait"
          BY <4>1, <4>2 DEF At1
        <4>4. waiter[t] = [f |-> {Top(t).s}, ev |-> {"in"}, a |-> Null]
          BY <3>0, <3>6 DEF Entry
        <4>5. s = Top(t).s
          BY <2>1, <3>3, <4>3, <4>4 DEF Seen
        <4>6. sock' = sock /\ rxq' = rxq
          BY <1>0, <3>6 DEF Calm
        <4>7. QED
          BY <3>5, <4>2, <4>5, <4>6
      <3>7. CASE Op(t) = "poll"
        <4> DEFINE w == Top(t).f
                   ready == Top(t).ready
        <4>1. \/ q = <<PollEnds>>
              \/ q = <<PollWaits>> /\ w = {} /\ ~ready
              \/ \E r \in w : q = <<PollTest(r, w \ {r}, ready)>>
          BY <1>0, <3>7, DoesPoll
        <4>2. CASE q = <<PollEnds>>
          BY <2>1, <4>2 DEF PollEnds, Looks
        <4>3. CASE q = <<PollWaits>> /\ w = {} /\ ~ready
          <5>1. s \in waiter[t].f
            BY <2>1, <3>3, <4>3 DEF PollWaits, Seen
          <5>2. Seen(Top(t), waiter[t], s)
            BY <3>0, <3>7, <4>3, <5>1 DEF Seen
          <5>3. QED
            BY <3>4, <3>7, <5>2
        <4>4. ASSUME NEW r \in w, q = <<PollTest(r, w \ {r}, ready)>> PROVE Called(u, s)'
          <5> HIDE DEF w, ready
          <5>1. q[k] = PollTest(r, w \ {r}, ready)
            BY <4>4
          <5>2. ~ready /\ s \in waiter[t].f \ (w \ {r}) /\ s # r
            BY <2>1, <3>3, <5>1 DEF PollTest, Seen
          <5>3. ~ready /\ s \in waiter[t].f \ w
            BY <5>2
          <5>4. Seen(Top(t), waiter[t], s)
            BY <3>0, <3>7, <5>3 DEF Seen, w, ready
          <5>5. QED
            BY <3>4, <3>7, <5>4
        <4>5. QED
          BY <4>1, <4>2, <4>3, <4>4
      <3>8. CASE Op(t) = "polltest"
        <4> DEFINE r == Top(t).s
                   w == Top(t).f
                   ready == Top(t).ready
        <4>1. /\ q = <<Poll(w, ready \/ Ready(r, waiter[t].ev)), Put(r)>>
              /\ sock' = sock /\ rxq' = rxq
          BY <1>0, <3>8, DoesPollTest DEF Calm
        <4> HIDE DEF r, w, ready
        <4>2. q[k] = Poll(w, ready \/ Ready(r, waiter[t].ev))
          BY <2>1, <4>1 DEF Looks, Put, At1
        <4> DEFINE rr == ready \/ Ready(r, waiter[t].ev)
        <4> HIDE DEF rr
        <4>7. q[k] = Poll(w, rr)
          BY <4>2 DEF rr
        <4>8. ~rr /\ s \in waiter[t].f \ w
          BY <2>1, <3>3, <4>7 DEF Poll, Seen
        <4>3. ~ready /\ ~Ready(r, waiter[t].ev) /\ s \in waiter[t].f \ w
          BY <4>8 DEF rr
        <4>4. CASE s = r
          <5>1. sock[s].conn # Reset /\ ("in" \in waiter[t].ev => rxq[s] = <<>>)
            BY <4>3, <4>4 DEF Ready
          <5>2. QED
            BY <3>5, <4>1, <5>1
        <4>5. CASE s # r
          <5>1. Seen(Top(t), waiter[t], s)
            BY <3>0, <3>8, <4>3, <4>5 DEF Seen, r, w, ready
          <5>2. QED
            BY <3>4, <3>8, <5>1
        <4>6. QED
          BY <4>4, <4>5
      <3>9. CASE Op(t) = "pollwait"
        <4>1. q = <<Poll(waiter[t].f, FALSE)>> \/ q = <<PollEnds>>
          BY <1>0, <3>9, DoesPollWait
        <4>2. CASE q = <<PollEnds>>
          BY <2>1, <4>2 DEF PollEnds, Looks
        <4>3. CASE q = <<Poll(waiter[t].f, FALSE)>>
          <5>1. q[k].op = "poll" /\ q[k].f = waiter[t].f
            BY <4>3 DEF Poll
          <5>2. QED
            BY <2>1, <3>3, <5>1 DEF Seen
        <4>4. QED
          BY <4>1, <4>2, <4>3
      <3>10. QED
        BY <3>2, <3>6, <3>7, <3>8, <3>9
    <2>4. QED
      BY <2>2, <2>3
  <1>5. QED
    <2>1. CASE u = t
      <3>1. \/ i \in 1..Len(Below(t))
            \/ \E k \in DOMAIN q : stack'[t][i] = q[k]
        BY <1>0, <2>1, StackFrames
      <3>2. QED
        BY <1>3, <1>4, <2>1, <3>1
    <2>2. QED
      BY <1>2, <2>1

\* Nobody reads at the start.
LEMMA ReadersInit == Init => Readers
  BY DEF Init, Readers

\* Without a step nothing changes.
LEMMA ReadersStays ==
  ASSUME Readers, UNCHANGED vars
  PROVE  Readers'
  <1>1. stack' = stack /\ signal' = signal /\ waiter' = waiter /\ sock' = sock /\ rxq' = rxq
    BY DEF vars, sockets, waiting
  <1>2. \A u, s : Called(u, s)' <=> Called(u, s)
    BY <1>1 DEF Called, HupCalled, InCalled, Present
  <1>3. QED
    BY <1>1, <1>2 DEF Readers

\* Every step keeps it.
LEMMA ReadersNext == SockInv /\ Readers /\ [Next]_vars => Readers'
  <1> SUFFICES ASSUME SockInv, Readers, [Next]_vars PROVE Readers'
    OBVIOUS
  <1>1. CASE UNCHANGED vars
    BY <1>1, ReadersStays
  <1>2. CASE Next
    <2>1. PICK t \in Threads : \E q \in Seq(Frame) : Step(t, q)
      BY <1>2, NextStep
    <2>2. QED
      BY <2>1, ReadersStep
  <1>3. QED
    BY <1>1, <1>2

\* No wake-up of a reader or of a poller is lost: what it waits for, it has not
\* seen, and while it has no signal the call that will signal it is on a stack
\* (qrecvfrom, qpoll, unblock_event).
THEOREM NoReaderForgotten == Spec => []ReaderHasWaker
  <1>1. SockInv /\ Readers => ReaderHasWaker
    <2> SUFFICES ASSUME SockInv, Readers, NEW t \in Users, ~signal[t], At(t, "recvwait") \/ At(t, "pollwait"),
                        NEW s \in waiter[t].f, sock[s].conn = Reset \/ ("in" \in waiter[t].ev /\ rxq[s] # <<>>)
                 PROVE  ReadersCalled(s)
      BY DEF ReaderHasWaker
    <2>0. t \in Threads /\ StackType /\ Shape /\ Waiters
      BY DEF Threads, SockInv, TypeOK, StackType
    <2>1. /\ Len(stack[t]) \in DOMAIN stack[t] /\ stack[t][Len(stack[t])] = Top(t)
          /\ Top(t).op \in {"recvwait", "pollwait"} /\ stack[t] # <<>>
      BY <2>0, TopAt DEF At
    <2>2. Seen(Top(t), waiter[t], s)
      BY <2>1 DEF Seen
    <2>3. s \in Socks
      <3>1. waiter[t] # Null
        BY <2>0, <2>1, <2>2, SeenWaits
      <3>2. waiter[t] \in Entries
        BY <2>0, <3>1 DEF SockInv, TypeOK
      <3>3. QED
        BY <3>2 DEF Entries
    <2>4. Called(t, s)
      BY <2>0, <2>1, <2>2, <2>3 DEF Readers
    <2>5. Present(At1("flush", s)) \/ Present(Unblock(s, {"in", "hup"}, Null)) \/ Present(Unblock(s, {"in"}, Null))
      BY <2>4 DEF Called, HupCalled, InCalled
    <2>6. ASSUME NEW u \in Threads, NEW i \in DOMAIN stack[u],
                 stack[u][i] \in {At1("flush", s), Unblock(s, {"in", "hup"}, Null), Unblock(s, {"in"}, Null)}
          PROVE  ReadersCalled(s)
      <3>1. <<u, i>> \in Places
        BY DEF Places
      <3>2. CASE stack[u][i] = At1("flush", s)
        <4>1. <<u, i>> \in Frames({"flush", "add"}, s)
          BY <3>1, <3>2 DEF Frames, At1
        <4>2. QED
          BY <4>1 DEF ReadersCalled
      <3>3. CASE stack[u][i] # At1("flush", s)
        <4>1. stack[u][i].op = "unblock" /\ stack[u][i].s = s /\ stack[u][i].a = Null /\ "in" \in stack[u][i].ev
          BY <2>6, <3>3 DEF Unblock
        <4>2. <<u, i>> \in Frames({"unblock"}, s)
          BY <3>1, <4>1 DEF Frames
        <4>3. QED
          BY <4>1, <4>2 DEF ReadersCalled
      <3>4. QED
        BY <3>2, <3>3
    <2>7. QED
      BY <2>5, <2>6 DEF Present
  <1>3. Spec => []SockInv
    BY SockInvariant
  <1>4. SockInv /\ Readers /\ [Next]_vars => Readers'
    BY ReadersNext
  <1>5. QED
    BY <1>1, <1>3, <1>4, ReadersInit, PTL DEF Spec

\* A socket's directions are only switched off, but for that of a control socket.
LEMMA SockAfter ==
  ASSUME SockInv, NEW t \in Threads, NEW q \in Seq(Frame), Step(t, q), NEW s \in Socks
  PROVE  \/ Open(t, s)
         \/ /\ sock'[s].type = sock[s].type /\ sock'[s].active \subseteq sock[s].active
            /\ \/ sock'[s].active = sock[s].active
               \/ \E call \in {"shutRd", "shutWr", "close"} :
                    Shutdown(t, s, call) /\ sock'[s].active = sock[s].active \ Off(call)
            /\ sock'[s].handle = sock[s].handle \/ (~sock'[s].handle /\ sock'[s].active = {})
         \/ /\ SetControl(t, s) /\ sock'[s].type = "control" /\ sock'[s].active = {"rx"}
            /\ sock'[s].handle = sock[s].handle
  <1>0. TypeOK /\ Calm(t) /\ Moves(t, q) /\ sock \in [Socks -> SockType] /\ sock[s] \in SockType
    BY StepFacts DEF TypeOK, SockType
  <1>1. ASSUME sock' = sock \/ \E r \in Socks : sock' = [sock EXCEPT ![r] = Ref(r)]
        PROVE  sock'[s].type = sock[s].type /\ sock'[s].active = sock[s].active /\ sock'[s].handle = sock[s].handle
    BY <1>0, <1>1 DEF Ref, SockType
  <1>2. CASE Op(t) \notin {"none", "put", "remove", "poll"}
    BY <1>0, <1>1, <1>2 DEF Calm
  <1>3. CASE Op(t) = "poll"
    <2>1. sock' = sock \/ \E r \in Socks : sock' = [sock EXCEPT ![r] = Ref(r)]
      BY <1>0, <1>3, DoesPoll
    <2>2. QED
      BY <1>1, <2>1
  <1>4. CASE Op(t) = "put"
    <2>1. PutSock(t)
      BY <1>0, <1>4, DoesPut
    <2>2. QED
      BY <1>0, <2>1 DEF PutSock, SockType
  <1>5. CASE Op(t) = "remove"
    <2>1. RemoveEvent(t)
      BY <1>0, <1>5, DoesRemove
    <2>2. QED
      BY <1>0, <2>1 DEF RemoveEvent, SockType
  <1>6. CASE Op(t) = "none"
    <2>1. CASE \E r \in Socks : Open(t, r)
      BY <1>0, <2>1, ZenonT(60) DEF Open, SockType
    <2>2. CASE \E r \in Socks : Call(t, r) /\ ~Open(t, r)
      <3>1. PICK r \in Socks : Call(t, r) /\ ~Open(t, r)
        BY <2>2
      <3>2. CASE r # s
        <4>1. sock'[s] = sock[s]
          BY <1>0, <3>1, <3>2, CallEffects
        <4>2. QED
          BY <4>1
      <3>3. CASE r = s
        <4>1. /\ sock'[s].type = sock[s].type \/ (SetControl(t, s) /\ sock'[s].type = "control" /\ sock'[s].active = {"rx"})
              /\ \/ sock'[s].active = sock[s].active
                 \/ SetControl(t, s) /\ sock'[s].active = {"rx"} /\ sock'[s].type = "control"
                 \/ \E call \in {"shutRd", "shutWr", "close"} :
                      Shutdown(t, s, call) /\ sock'[s].active = sock[s].active \ Off(call)
              /\ sock'[s].handle = sock[s].handle \/ (~sock'[s].handle /\ sock'[s].active = {})
          BY <1>0, <3>1, <3>3, CallSock
        <4>2. QED
          BY <4>1
      <3>4. QED
        BY <3>2, <3>3
    <2>3. CASE ~(\E r \in Socks : Open(t, r)) /\ ~(\E r \in Socks : Call(t, r) /\ ~Open(t, r))
      <3>1. sock' = sock
        BY <1>0, <1>6, <2>3, BeginCases DEF BeginPoll, PeerConfirms, PeerGone, Arrive, sockets
      <3>2. QED
        BY <1>1, <3>1
    <2>4. QED
      BY <2>1, <2>2, <2>3
  <1>7. QED
    BY <1>2, <1>3, <1>4, <1>5, <1>6

\* A port is opened once, then removed and freed.
LEMMA PortAfter ==
  ASSUME SockInv, NEW t \in Threads, NEW q \in Seq(Frame), Step(t, q), NEW s \in Socks
  PROVE  /\ port'[s] = "none" => port[s] = "none"
         /\ port'[s] = "open" => port[s] = "open" \/ (Open(t, s) /\ port[s] = "none")
         /\ ~Open(t, s) /\ port'[s] # port[s] => port'[s] \in {"removed", "freed"}
  <1>0. TypeOK /\ Calm(t) /\ port \in [Socks -> {"none", "open", "removed", "freed"}] /\ Moves(t, q)
    BY StepFacts DEF TypeOK
  <1>1. CASE Op(t) \notin {"none", "closed", "coreclose"}
    BY <1>0, <1>1 DEF Calm
  <1>2. CASE Op(t) = "closed"
    <2>1. Closed(t)
      BY <1>0, <1>2, DoesClosed
    <2>2. QED
      BY <1>0, <2>1 DEF Closed
  <1>3. CASE Op(t) = "coreclose"
    <2>1. CoreClose(t)
      BY <1>0, <1>3, DoesCoreClose
    <2>2. QED
      BY <1>0, <2>1 DEF CoreClose
  <1>4. CASE Op(t) = "none"
    <2>1. CASE \E r \in Socks : Open(t, r)
      BY <1>0, <2>1 DEF Open
    <2>2. CASE \E r \in Socks : Call(t, r) /\ ~Open(t, r)
      <3>1. PICK r \in Socks : Call(t, r) /\ ~Open(t, r)
        BY <2>2
      <3>2. UNCHANGED router
        BY <1>0, <3>1, CallEffects
      <3>3. QED
        BY <3>2 DEF router
    <2>3. CASE ~(\E r \in Socks : Open(t, r)) /\ ~(\E r \in Socks : Call(t, r) /\ ~Open(t, r))
      BY <1>0, <1>4, <2>3, BeginCases DEF BeginPoll, PeerConfirms, PeerGone, Arrive, router
    <2>4. QED
      BY <2>1, <2>2, <2>3
  <1>5. QED
    BY <1>1, <1>2, <1>3, <1>4

\* A record's count of messages is reset, or counts the message that is sent.
LEMMA BucketAfter ==
  ASSUME SockInv, NEW t \in Threads, NEW q \in Seq(Frame), Step(t, q), NEW a \in Addrs
  PROVE  \/ bucket'[a] = bucket[a]
         \/ bucket'[a] = 0 /\ Op(t) \notin {"send", "trysend"}
         \/ /\ Op(t) \in {"send", "trysend"} /\ Top(t).a = a /\ Top(t).s \in Socks /\ Reachable(Top(t).s, a)
            /\ TokenLeft(a) /\ bucket'[a] = bucket[a] + 1
            /\ q = IF a \in Peers THEN <<>> ELSE <<Unlock(a), RxCb(a, Message(Top(t).s, bucket[a] + 1 = Quota))>>
  <1>0. TypeOK /\ Calm(t) /\ bucket \in [Addrs -> 0..Quota] /\ Moves(t, q)
    BY StepFacts DEF TypeOK
  <1>1. CASE Op(t) \notin {"none", "resumetx", "cleanup", "send", "trysend"}
    BY <1>0, <1>1 DEF Calm
  <1>2. CASE Op(t) \in {"send", "trysend"}
    <2> DEFINE s == Top(t).s
               b == Top(t).a
               last == bucket[b] + 1 = Quota
    <2>1. /\ s \in Socks /\ b \in Addrs
          /\ \/ UNCHANGED <<bucket, queue, asked, told>>
             \/ /\ Reachable(s, b) /\ TokenLeft(b)
                /\ q = IF b \in Peers THEN <<>> ELSE <<Unlock(b), RxCb(b, Message(s, last))>>
                /\ bucket' = [bucket EXCEPT ![b] = @ + 1]
             \/ UNCHANGED <<bucket, asked>>
      BY <1>0, <1>2, DoesSend
    <2>2. QED
      BY <1>0, <1>2, <2>1
  <1>3. CASE Op(t) \in {"resumetx", "cleanup"}
    <2>1. ResumeTx(t) /\ Top(t).s \in Addrs
      BY <1>0, <1>3, DoesResumeTx, DoesCleanup, AddrTypes
    <2>2. QED
      BY <1>0, <1>3, <2>1 DEF ResumeTx, Resume
  <1>4. CASE Op(t) = "none"
    <2>2. CASE \E r \in Socks : Call(t, r) /\ ~Open(t, r)
      <3>1. PICK r \in Socks : Call(t, r) /\ ~Open(t, r)
        BY <2>2
      <3>2. UNCHANGED router
        BY <1>0, <3>1, CallEffects
      <3>3. QED
        BY <3>2 DEF router, flow
    <2>3. CASE ~\E r \in Socks : Call(t, r) /\ ~Open(t, r)
      <3>1. \/ \E r \in Socks : Open(t, r)
            \/ \E f \in SUBSET Socks, ev \in SUBSET {"in", "out"} : BeginPoll(t, f, ev)
            \/ \E x \in Peers : PeerConfirms(x) \/ PeerGone(x)
            \/ \E x \in Peers, r \in Socks : Arrive(x, r)
        BY <1>0, <1>4, <2>3, BeginCases, Zenon
      <3>2. bucket' = bucket \/ \E x \in Peers : bucket' = [bucket EXCEPT ![x] = 0]
        BY <3>1 DEF Open, BeginPoll, PeerConfirms, PeerGone, Arrive, router, flow, Resume
      <3>3. QED
        BY <1>0, <1>4, <3>2, AddrTypes
    <2>4. QED
      BY <2>2, <2>3
  <1>5. QED
    BY <1>1, <1>2, <1>3, <1>4

\* What a peer sent without confirmation grows by packets that arrive, or is set back
\* to 0.
LEMMA SentAfter ==
  ASSUME SockInv, NEW t \in Threads, NEW q \in Seq(Frame), Step(t, q), NEW s \in Socks, NEW p \in Peers
  PROVE  \/ sent'[s][p] = sent[s][p]
         \/ sent'[s][p] = 0
         \/ /\ Arrive(p, s) /\ port[s] = "open" /\ sent'[s][p] = sent[s][p] + 1
            /\ q = <<Unlock(s), RxCb(s, Message(p, sent[s][p] + 1 = Quota))>>
  <1>0. /\ TypeOK /\ Calm(t) /\ sent \in [Socks -> [Peers -> 0..Quota]] /\ sent[s] \in [Peers -> 0..Quota]
        /\ Moves(t, q)
    BY StepFacts DEF TypeOK
  <1>1. CASE Op(t) \notin {"none", "confirm", "coreclose"}
    BY <1>0, <1>1 DEF Calm
  <1>2. CASE Op(t) = "confirm"
    <2>1. Confirm(t) /\ Top(t).s \in Socks
      BY <1>0, <1>2, DoesConfirm
    <2>2. sent' = IF Top(t).a \in Peers THEN [sent EXCEPT ![Top(t).s][Top(t).a] = 0] ELSE sent
      BY <2>1 DEF Confirm
    <2>3. QED
      BY <1>0, <2>1, <2>2
  <1>3. CASE Op(t) = "coreclose"
    <2>1. CoreClose(t) /\ Top(t).s \in Socks
      BY <1>0, <1>3, DoesCoreClose
    <2>2. sent' = [sent EXCEPT ![Top(t).s] = [r \in Peers |-> 0]]
      BY <2>1 DEF CoreClose
    <2>3. QED
      BY <1>0, <2>1, <2>2
  <1>4. CASE Op(t) = "none"
    <2>2. CASE \E r \in Socks : Call(t, r) /\ ~Open(t, r)
      <3>1. PICK r \in Socks : Call(t, r) /\ ~Open(t, r)
        BY <2>2
      <3>2. UNCHANGED router
        BY <1>0, <3>1, CallEffects
      <3>3. QED
        BY <3>2 DEF router, flow
    <2>3. CASE ~\E r \in Socks : Call(t, r) /\ ~Open(t, r)
      <3>1. CASE \E x \in Peers, r \in Socks :
                   Arrive(x, r) /\ q = <<Unlock(r), RxCb(r, Message(x, sent[r][x] + 1 = Quota))>>
        <4>1. PICK x \in Peers, r \in Socks :
                   Arrive(x, r) /\ q = <<Unlock(r), RxCb(r, Message(x, sent[r][x] + 1 = Quota))>>
          BY <3>1
        <4>2. sent' = [sent EXCEPT ![r][x] = @ + 1] /\ port[r] = "open"
          BY <4>1 DEF Arrive
        <4>3. CASE r = s /\ x = p
          <5>1. sent'[s][p] = sent[s][p] + 1
            BY <1>0, <4>2, <4>3
          <5>2. QED
            BY <4>1, <4>2, <4>3, <5>1
        <4>4. CASE ~(r = s /\ x = p)
          BY <1>0, <4>2, <4>4
        <4>5. QED
          BY <4>3, <4>4
      <3>2. CASE ~\E x \in Peers, r \in Socks :
                   Arrive(x, r) /\ q = <<Unlock(r), RxCb(r, Message(x, sent[r][x] + 1 = Quota))>>
        <4>1. \/ \E r \in Socks : Open(t, r)
              \/ \E f \in SUBSET Socks, ev \in SUBSET {"in", "out"} : BeginPoll(t, f, ev)
              \/ \E x \in Peers : PeerConfirms(x) \/ PeerGone(x)
          BY <1>0, <1>4, <2>3, <3>2, BeginCases, Zenon
        <4>2. sent' = sent
          BY <4>1 DEF Open, BeginPoll, PeerConfirms, PeerGone, router, flow
        <4>3. QED
          BY <4>2
      <3>3. QED
        BY <3>1, <3>2
    <2>4. QED
      BY <2>2, <2>3
  <1>5. QED
    BY <1>1, <1>2, <1>3, <1>4

\* A frame is what its fields say.
LEMMA FrameIs ==
  ASSUME NEW f \in Frame
  PROVE  /\ f.op \in {"put", "unlock", "cleanup", "closed", "resumetx", "coreclose", "flush", "read", "readdone"}
              => f = At1(f.op, f.s)
         /\ f.op \in {"confirm", "resume", "remove", "sendwait"} => f = At2(f.op, f.s, f.a)
         /\ f.op = "unblock" => f = Unblock(f.s, f.ev, f.a)
         /\ f.op = "add" => f = Add(f.s, f.m)
         /\ f.op = "rx" => f = RxCb(f.s, f.m)
  BY DEF Frame, At1, At2, Unblock, Add, RxCb

(***************************************************************************)
(* Confirmations                                                           *)
(***************************************************************************)

\* A socket that takes messages
Takes(s) == port[s] = "open" /\ Data(s) /\ Rx(s) /\ sock[s].conn # Reset

\* A packet of s that asks a to be resumed is unread; when it is being read,
\* the confirmation is on the stack already.
Due(s, a) ==
  \/ \E i \in DOMAIN rxq[s] : rxq[s][i] = Message(a, TRUE) /\ (i > 1 \/ rxLock[s] = Null)
  \/ Present(RxCb(s, Message(a, TRUE))) \/ Present(Add(s, Message(a, TRUE)))
  \/ Present(At2("confirm", s, a))

\* The flush comes after the reset, a data socket in use has its handle, a port
\* that was not opened counts no messages, and each count that is at the quota
\* of a socket that takes messages is about to be reset.
ConfirmOk(s) ==
  /\ Present(At1("flush", s)) => sock[s].conn = Reset
  /\ Data(s) /\ sock[s].active # {} => sock[s].handle
  /\ port[s] = "none" => bucket[s] = 0 /\ \A p \in Peers : sent[s][p] = 0
  /\ Takes(s) => /\ \A p \in Peers : p \notin gone /\ sent[s][p] = Quota => Due(s, p)
                 /\ bucket[s] = Quota => Present(At1("resumetx", s)) \/ \E a \in Socks : Due(s, a)

Confirms == \A s \in Socks : ConfirmOk(s)

\* A socket takes messages from when it is opened, with no count at its quota.
LEMMA TakesBefore ==
  ASSUME SockInv, NEW t \in Threads, NEW q \in Seq(Frame), Step(t, q), NEW s \in Socks, Takes(s)'
  PROVE  Open(t, s) \/ Takes(s)
  <1>0. TypeOK
    BY StepFacts
  <1> SUFFICES ASSUME ~Open(t, s) PROVE Takes(s)
    OBVIOUS
  <1>1. port[s] = "open"
    BY PortAfter DEF Takes
  <1>2. Data(s) /\ Rx(s)
    BY SockAfter DEF Takes, Data, Rx
  <1>3. sock[s].conn # Reset
    <2>1. sock'[s].conn # Reset
      BY DEF Takes
    <2>2. QED
      BY <2>1, ConnAfter, AddrTypes
  <1>4. QED
    BY <1>1, <1>2, <1>3 DEF Takes

\* A socket with an open port is not freed.
LEMMA OpenStays ==
  ASSUME SockInv, NEW t \in Threads, NEW q \in Seq(Frame), Step(t, q), Op(t) = "put", port[Top(t).s] = "open"
  PROVE  rxq' = rxq /\ sock[Top(t).s].ref # 1
  <1> DEFINE s == Top(t).s
  <1>0. TypeOK /\ StackType /\ Goto(t, q)
    BY StepFacts
  <1>1. PutSock(t) /\ s \in Socks /\ stack[t] # <<>> /\ Top(t).op = "put"
    BY <1>0, DoesPut, TopOp
  <1>2. Frames({"put", "polltest"}, s) # {}
    <2>1. <<t, Len(Below(t)) + 1>> \in Frames({"put", "polltest"}, s)
      BY <1>0, <1>1, TopInFrames
    <2>2. QED
      BY <2>1
  <1> DEFINE S == Frames({"put", "polltest"}, s)
  <1>3. Cardinality(S) \in Nat /\ Cardinality(S) # 0
    <2>1. IsFiniteSet(S)
      BY <1>0, FramesFinite
    <2>2. QED
      BY <1>2, <2>1, FS_EmptySet, FS_CardinalityType
  <1>4. sock[s].ref = Cardinality(S) + 1
    BY <1>1 DEF SockInv, Refs, Router
  <1> HIDE DEF S
  <1>5. sock[s].ref # 1
    BY <1>3, <1>4
  <1>6. QED
    BY <1>1, <1>5 DEF PutSock

\* A confirmation that is due stays due until it is sent.
LEMMA DueKept ==
  ASSUME SockInv, NEW t \in Threads, NEW q \in Seq(Frame), Step(t, q), NEW s \in Socks, NEW a \in Addrs,
         Takes(s), ConfirmOk(s), Due(s, a)
  PROVE  \/ Due(s, a)'
         \/ Op(t) = "confirm" /\ Top(t) = At2("confirm", s, a)
  <1>0. /\ TypeOK /\ StackType /\ Shape /\ RxLocks /\ Goto(t, q) /\ Calm(t)
        /\ rxq \in [Socks -> Seq(Packet)] /\ rxLock \in [Socks -> Threads \cup {Null}]
    BY StepFacts DEF TypeOK, SockInv
  <1> DEFINE m == Message(a, TRUE)
  <1>1. m.confirm = TRUE /\ m.from = a /\ m \in Packet
    BY PacketTypes DEF Message
  <1>2. port[s] = "open" /\ Data(s) /\ Rx(s) /\ sock[s].conn # Reset /\ sock[s].handle
    BY DEF Takes, ConfirmOk, Rx
  <1>00. StackType /\ Goto(t, q)
    BY <1>0
  <1>3. ASSUME NEW f, Present(f), ~(stack[t] # <<>> /\ Top(t) = f) PROVE Present(f)'
    BY <1>00, <1>3, PresentKept
  <1>4. ASSUME NEW k \in DOMAIN q PROVE Present(q[k])'
    BY <1>00, PresentEntered
  <1>5. CASE Present(At2("confirm", s, a))
    <2>1. CASE stack[t] # <<>> /\ Top(t) = At2("confirm", s, a)
      BY <2>1 DEF Op, At2
    <2>2. CASE ~(stack[t] # <<>> /\ Top(t) = At2("confirm", s, a))
      BY <1>3, <1>5, <2>2 DEF Due
    <2>3. QED
      BY <2>1, <2>2
  <1>6. CASE Present(Add(s, m))
    <2>1. CASE stack[t] # <<>> /\ Top(t) = Add(s, m)
      <3>1. Op(t) = "add" /\ Top(t).s = s /\ Top(t).m = m
        BY <2>1 DEF Op, Add
      <3>2. Enqueue(t)
        BY <1>0, <3>1, DoesAdd
      <3>3. rxq'[s] = Append(rxq[s], m) /\ rxLock[s] = Null /\ rxLock' = rxLock
        BY <1>0, <3>1, <3>2 DEF Enqueue, locks
      <3> HIDE DEF m
      <3>4. rxq[s] \in Seq(Packet)
        BY <1>0
      <3>5. Len(rxq[s]) + 1 \in DOMAIN rxq'[s] /\ rxq'[s][Len(rxq[s]) + 1] = m
        BY <1>1, <3>3, <3>4
      <3>6. QED
        BY <3>3, <3>5 DEF Due, m
    <2>2. CASE ~(stack[t] # <<>> /\ Top(t) = Add(s, m))
      BY <1>3, <1>6, <2>2 DEF Due
    <2>3. QED
      BY <2>1, <2>2
  <1>7. CASE Present(RxCb(s, m))
    <2>1. CASE stack[t] # <<>> /\ Top(t) = RxCb(s, m)
      <3>1. Op(t) = "rx" /\ Top(t).s = s /\ Top(t).m = m
        BY <2>1 DEF Op, RxCb
      <3>2. q = <<Add(s, m)>> \/ q = <<At2("confirm", s, a)>>
        BY <1>0, <1>1, <1>2, <3>1, DoesRx
      <3> HIDE DEF m
      <3>3. ASSUME NEW f, q = <<f>> PROVE Present(f)'
        <4>1. 1 \in DOMAIN q /\ q[1] = f
          BY <3>3
        <4>2. Present(q[1])'
          BY <1>4, <4>1
        <4>3. QED
          BY <4>1, <4>2 DEF Present
      <3>4. Present(Add(s, m))' \/ Present(At2("confirm", s, a))'
        BY <3>2, <3>3
      <3>5. QED
        BY <3>4 DEF Due, m
    <2>2. CASE ~(stack[t] # <<>> /\ Top(t) = RxCb(s, m))
      BY <1>3, <1>7, <2>2 DEF Due
    <2>3. QED
      BY <2>1, <2>2
  <1>8. CASE \E i \in DOMAIN rxq[s] : rxq[s][i] = m /\ (i > 1 \/ rxLock[s] = Null)
    <2>1. PICK i \in DOMAIN rxq[s] : rxq[s][i] = m /\ (i > 1 \/ rxLock[s] = Null)
      BY <1>8
    <2>2. rxq[s] \in Seq(Packet) /\ i \in 1..Len(rxq[s]) /\ Len(rxq[s]) \in Nat
      BY <1>0, <2>1
    <2> HIDE DEF m
    <2>3. CASE rxq'[s] = rxq[s]
      <3>1. CASE i > 1 \/ rxLock'[s] = Null
        BY <2>1, <2>3, <3>1 DEF Due, m
      <3>2. CASE ~(i > 1 \/ rxLock'[s] = Null)
        <4>1. i = 1 /\ rxLock[s] = Null /\ rxLock'[s] # Null
          BY <2>1, <2>2, <3>2
        <4>2. Op(t) \in {"read", "readdone"}
          BY <1>0, <4>1 DEF Calm
        <4>3. CASE Op(t) = "readdone"
          <5>1. ReadDone(t)
            BY <1>0, <4>3, DoesReadDone
          <5>2. QED
            BY <1>0, <4>1, <5>1 DEF ReadDone
        <4>4. CASE Op(t) = "read"
          <5> DEFINE r == Top(t).s
          <5>1. /\ r \in Socks
                /\ \/ rxLock' = rxLock
                   \/ /\ rxLock' = [rxLock EXCEPT ![r] = t]
                      /\ q = IF Head(rxq[r]).confirm /\ sock[r].handle
                             THEN <<At1("readdone", r), At2("confirm", r, Head(rxq[r]).from)>>
                             ELSE <<At1("readdone", r)>>
            BY <1>0, <4>4, DoesRead
          <5>2. r = s
            BY <1>0, <4>1, <5>1
          <5>3. Head(rxq[s]) = m
            BY <2>1, <2>2, <4>1
          <5>4. q = <<At1("readdone", s), At2("confirm", s, a)>>
            BY <1>1, <1>2, <4>1, <5>1, <5>2, <5>3
          <5>5. 2 \in DOMAIN q /\ q[2] = At2("confirm", s, a)
            BY <5>4
          <5>6. QED
            BY <1>4, <5>5 DEF Due
        <4>5. QED
          BY <4>2, <4>3, <4>4
      <3>3. QED
        BY <3>1, <3>2
    <2>4. CASE rxq'[s] = <<>> /\ rxq[s] # <<>> /\ Op(t) \notin {"add", "readdone"}
      <3>1. Op(t) \in {"put", "flush"}
        BY <1>0, <2>4 DEF Calm
      <3>2. CASE Op(t) = "put"
        <4>1. PutSock(t) /\ Top(t).s \in Socks
          BY <1>0, <3>2, DoesPut
        <4>2. Top(t).s = s
          BY <1>0, <2>4, <4>1 DEF PutSock
        <4>3. rxq' = rxq
          BY <1>2, <3>2, <4>2, OpenStays
        <4>4. QED
          BY <2>4, <4>3
      <3>3. CASE Op(t) = "flush"
        <4>1. Flush(t) /\ Top(t).s \in Socks
          BY <1>0, <3>3, DoesFlush
        <4>2. Top(t).s = s
          BY <1>0, <2>4, <4>1 DEF Flush
        <4>3. stack[t] # <<>> /\ Top(t) = At1("flush", s)
          <5>1. stack[t] # <<>> /\ Top(t) \in Frame /\ Top(t).op = "flush"
            BY <1>0, <3>3, TopOp
          <5>2. QED
            BY <4>2, <5>1, FrameIs
        <4>4. Present(At1("flush", s))
          BY <1>0, <4>3, StepFacts
        <4>5. QED
          BY <1>2, <4>4 DEF ConfirmOk
      <3>4. QED
        BY <3>1, <3>2, <3>3
    <2>5. CASE Op(t) = "add" /\ rxLock[s] = Null /\ rxq'[s] = Append(rxq[s], Top(t).m) /\ Top(t).s = s
      <3>1. Top(t).m \in Packet
        BY <1>0, <2>5, DoesAdd
      <3> DEFINE x == Top(t).m
      <3> HIDE DEF x
      <3>2. i \in DOMAIN rxq'[s] /\ rxq'[s][i] = m
        <4>1. rxq'[s] = Append(rxq[s], x) /\ x \in Packet
          BY <2>5, <3>1 DEF x
        <4>2. QED
          BY <2>1, <2>2, <4>1
      <3>3. rxLock'[s] = Null
        BY <1>0, <2>5 DEF Calm
      <3>4. QED
        BY <3>2, <3>3 DEF Due, m
    <2>6. CASE Op(t) = "readdone" /\ Top(t).s = s /\ rxLock[s] = t /\ rxq'[s] = Tail(rxq[s])
      <3>1. i > 1
        BY <2>1, <2>6, AddrTypes
      <3>2. i - 1 \in DOMAIN rxq'[s] /\ rxq'[s][i - 1] = m
        BY <2>1, <2>2, <2>6, <3>1
      <3>3. rxLock'[s] = Null
        <4>1. ReadDone(t)
          BY <1>0, <2>6, DoesReadDone
        <4>2. QED
          BY <1>0, <2>6, <4>1 DEF ReadDone
      <3>4. QED
        BY <3>2, <3>3 DEF Due, m
    <2>7. QED
      <3>1. rxq[s] # <<>>
        BY <2>2
      <3>2. \/ rxq'[s] = rxq[s]
            \/ rxq'[s] = <<>>
            \/ Op(t) = "add" /\ Top(t).s = s /\ rxLock[s] = Null /\ rxq'[s] = Append(rxq[s], Top(t).m)
            \/ Op(t) = "readdone" /\ Top(t).s = s /\ rxLock[s] = t /\ rxq'[s] = Tail(rxq[s])
        BY RxqAfter
      <3>3. ASSUME Op(t) = "readdone", Top(t).s # s PROVE rxq'[s] = rxq[s]
        <4>1. ReadDone(t)
          BY <1>0, <3>3, DoesReadDone
        <4>2. QED
          BY <1>0, <3>3, <4>1 DEF ReadDone
      <3>4. ASSUME Op(t) = "readdone", Top(t).s = s PROVE rxq'[s] = Tail(rxq[s]) /\ rxLock[s] = t
        <4>1. ReadDone(t)
          BY <1>0, <3>4, DoesReadDone
        <4>2. rxq'[s] = Tail(rxq[s])
          BY <1>0, <3>4, <4>1 DEF ReadDone
        <4>3. stack[t] # <<>> /\ Top(t).op = "readdone"
          BY <1>0, <3>4, TopOp
        <4>4. Reads(t, s)
          BY <1>0, <3>4, <4>3, ReadTop
        <4>5. QED
          BY <1>0, <4>2, <4>4 DEF RxLocks
      <3>5. ASSUME Op(t) = "add" PROVE rxq'[s] = rxq[s] \/ rxq'[s] # <<>>
        <4>1. Enqueue(t) /\ Top(t).s \in Socks /\ Top(t).m \in Packet
          BY <1>0, <3>5, DoesAdd
        <4>2. rxq'[s] = rxq[s] \/ rxq'[s] = Append(rxq[s], Top(t).m)
          BY <1>0, <4>1 DEF Enqueue
        <4>3. QED
          BY <2>2, <4>1, <4>2
      <3>6. QED
        BY <2>3, <2>4, <2>5, <2>6, <3>1, <3>2, <3>3, <3>4, <3>5
  <1>9. QED
    BY <1>5, <1>6, <1>7, <1>8 DEF Due

\* A peer that is gone stays so.
LEMMA GoneGrows ==
  ASSUME SockInv, NEW t \in Threads, NEW q \in Seq(Frame), Step(t, q)
  PROVE  gone \subseteq gone'
  <1>0. TypeOK /\ Calm(t) /\ Moves(t, q)
    BY StepFacts
  <1>1. CASE Op(t) # "none"
    BY <1>0, <1>1 DEF Calm
  <1>2. CASE Op(t) = "none"
    <2>1. CASE \E r \in Socks : Call(t, r) /\ ~Open(t, r)
      <3>1. UNCHANGED router
        BY <1>0, <2>1, CallEffects
      <3>2. QED
        BY <3>1 DEF router
    <2>2. CASE ~\E r \in Socks : Call(t, r) /\ ~Open(t, r)
      <3>1. \/ \E r \in Socks : Open(t, r)
            \/ \E f \in SUBSET Socks, ev \in SUBSET {"in", "out"} : BeginPoll(t, f, ev)
            \/ \E x \in Peers : PeerConfirms(x) \/ PeerGone(x)
            \/ \E x \in Peers, r \in Socks : Arrive(x, r)
        BY <1>0, <1>2, <2>2, BeginCases, Zenon
      <3>2. QED
        BY <3>1 DEF Open, BeginPoll, PeerConfirms, PeerGone, Arrive, router
    <2>3. QED
      BY <2>1, <2>2
  <1>3. QED
    BY <1>1, <1>2

\* A connected socket is flushed only once it is reset.
LEMMA FlushReset ==
  ASSUME SockInv, NEW t \in Threads, NEW q \in Seq(Frame), Step(t, q), NEW s \in Socks, ConfirmOk(s),
         Present(At1("flush", s))'
  PROVE  sock'[s].conn = Reset
  <1>0. TypeOK /\ StackType /\ Goto(t, q) /\ Moves(t, q) /\ sock \in [Socks -> SockType]
    BY StepFacts DEF TypeOK, SockType
  <1>00. StackType /\ Goto(t, q)
    BY <1>0
  <1>1. CASE Present(At1("flush", s))
    <2>1. sock[s].conn = Reset
      BY <1>1 DEF ConfirmOk
    <2>2. QED
      BY <2>1, ConnAfter, AddrTypes
  <1>2. CASE \E k \in DOMAIN q : q[k] = At1("flush", s)
    <2>1. PICK k \in DOMAIN q : q[k] = At1("flush", s)
      BY <1>2
    <2>2. q[k].op = "flush"
      BY <2>1 DEF At1
    <2>3. stack[t] # <<>> /\ Follows(Top(t), q)
      BY <1>0, <2>2, BeginsOps DEF Moves
    <2>4. Op(t) = "remove"
      BY <2>2, <2>3, FollowsOps DEF Op
    <2> DEFINE r == Top(t).s
    <2>5. /\ RemoveEvent(t) /\ r \in Socks
          /\ q = IF Rx(r) /\ ~Data(r) THEN <<Add(r, News)>>
                 ELSE IF Rx(r) /\ Data(r) /\ sock[r].conn = Top(t).a THEN <<At1("flush", r)>> ELSE <<>>
      BY <1>0, <2>4, DoesRemove
    <2>6. q = <<At1("flush", r)>> /\ Rx(r) /\ Data(r) /\ sock[r].conn = Top(t).a
      BY <2>2, <2>5 DEF Add
    <2>7. r = s
      BY <2>1, <2>6 DEF At1
    <2>8. sock' = [sock EXCEPT ![s].conn = Reset]
      BY <2>5, <2>6, <2>7 DEF RemoveEvent
    <2>9. QED
      BY <1>0, <2>8 DEF SockType
  <1>3. QED
    BY <1>00, <1>1, <1>2, PresentBefore

\* What is entered is there.
LEMMA Entered ==
  ASSUME StackType, NEW t \in Threads, NEW q \in Seq(Frame), Goto(t, q)
  PROVE  /\ \A f : q = <<f>> => Present(f)'
         /\ \A f, g : q = <<f, g>> => Present(f)' /\ Present(g)'
         /\ \A f, g, h : q = <<f, g, h>> => Present(f)' /\ Present(g)' /\ Present(h)'
  <1>1. ASSUME NEW k \in DOMAIN q, NEW f, q[k] = f PROVE Present(f)'
    <2>1. Present(q[k])'
      BY PresentEntered
    <2>2. QED
      BY <1>1, <2>1 DEF Present
  <1>2. ASSUME NEW f, q = <<f>> PROVE Present(f)'
    <2>1. 1 \in DOMAIN q /\ q[1] = f
      BY <1>2
    <2>2. QED
      BY <1>1, <2>1
  <1>3. ASSUME NEW f, NEW g, q = <<f, g>> PROVE Present(f)' /\ Present(g)'
    <2>1. 1 \in DOMAIN q /\ q[1] = f /\ 2 \in DOMAIN q /\ q[2] = g
      BY <1>3
    <2>2. QED
      BY <1>1, <2>1
  <1>4. ASSUME NEW f, NEW g, NEW h, q = <<f, g, h>> PROVE Present(f)' /\ Present(g)' /\ Present(h)'
    <2>1. 1 \in DOMAIN q /\ q[1] = f /\ 2 \in DOMAIN q /\ q[2] = g /\ 3 \in DOMAIN q /\ q[3] = h
      BY <1>4
    <2>2. QED
      BY <1>1, <2>1
  <1>5. QED
    BY <1>2, <1>3, <1>4

\* A port that is opened has not been sent to, and is not taken for granted.
LEMMA PortFresh ==
  ASSUME SockInv, NEW t \in Threads, NEW q \in Seq(Frame), Step(t, q), NEW s \in Socks, ConfirmOk(s), port[s] = "none"
  PROVE  bucket'[s] = 0 /\ \A p \in Peers : sent'[s][p] = 0
  <1>1. bucket[s] = 0 /\ \A p \in Peers : sent[s][p] = 0
    BY DEF ConfirmOk
  <1>2. bucket'[s] = 0
    <2>1. s \in Addrs /\ s \notin Peers
      BY AddrTypes
    <2>2. ~Reachable(Top(t).s, s)
      BY <2>1 DEF Reachable
    <2>3. QED
      BY <1>1, <2>1, <2>2, BucketAfter
  <1>3. ASSUME NEW p \in Peers PROVE sent'[s][p] = 0
    BY <1>1, SentAfter
  <1>4. QED
    BY <1>2, <1>3

\* A data socket in use keeps its handle.
LEMMA HandleKept ==
  ASSUME SockInv, NEW t \in Threads, NEW q \in Seq(Frame), Step(t, q), NEW s \in Socks, ConfirmOk(s),
         Data(s)', sock'[s].active # {}
  PROVE  sock'[s].handle
  <1>0. TypeOK /\ sock \in [Socks -> SockType]
    BY StepFacts DEF TypeOK, SockType
  <1>1. CASE Open(t, s)
    BY <1>0, <1>1 DEF Open, SockType
  <1>2. CASE /\ sock'[s].type = sock[s].type /\ sock'[s].active \subseteq sock[s].active
             /\ sock'[s].handle = sock[s].handle \/ (~sock'[s].handle /\ sock'[s].active = {})
    <2>1. Data(s) /\ sock[s].active # {}
      BY <1>2 DEF Data
    <2>2. sock[s].handle
      BY <2>1 DEF ConfirmOk
    <2>3. QED
      BY <1>2, <2>2
  <1>3. CASE sock'[s].type = "control"
    BY <1>3 DEF Data
  <1>4. QED
    BY <1>1, <1>2, <1>3, SockAfter

\* A step keeps the confirmation of a peer on its way.
LEMMA ConfirmStep ==
  ASSUME SockInv, NEW t \in Threads, NEW q \in Seq(Frame), Step(t, q), NEW s \in Socks, ConfirmOk(s)
  PROVE  ConfirmOk(s)'
  <1>0. /\ TypeOK /\ Calm(t) /\ sent \in [Socks -> [Peers -> 0..Quota]] /\ bucket \in [Addrs -> 0..Quota] /\ s \in Addrs
        /\ s \notin Peers
    BY StepFacts, AddrTypes DEF TypeOK
  <1>00. StackType /\ Goto(t, q)
    BY StepFacts
  <1>1. Quota \in Nat \ {0}
    BY SocketAssumption
  <1>2. Present(At1("flush", s))' => sock'[s].conn = Reset
    BY FlushReset
  <1>3. Data(s)' /\ sock'[s].active # {} => sock'[s].handle
    BY HandleKept
  <1>4. port'[s] = "none" => bucket'[s] = 0 /\ \A p \in Peers : sent'[s][p] = 0
    BY PortAfter, PortFresh
  <1>5. ASSUME Takes(s)', NEW p \in Peers, p \notin gone', sent'[s][p] = Quota PROVE Due(s, p)'
    <2>1. p \in Addrs /\ p \notin Socks
      BY AddrTypes
    <2>2. CASE Open(t, s)
      <3>1. port[s] = "none"
        BY <2>2 DEF Open
      <3>2. QED
        BY <1>1, <1>5, <3>1, PortFresh
    <2>3. CASE ~Open(t, s) /\ sent'[s][p] = sent[s][p]
      <3>1. Takes(s)
        BY <1>5, <2>3, TakesBefore
      <3>2. p \notin gone
        <4>1. gone \subseteq gone'
          BY GoneGrows
        <4>2. QED
          BY <1>5, <4>1
      <3>3. Due(s, p)
        BY <1>5, <2>3, <3>1, <3>2 DEF ConfirmOk
      <3>4. CASE Op(t) = "confirm" /\ Top(t) = At2("confirm", s, p)
        <4>1. Confirm(t) /\ Top(t).s = s /\ Top(t).a = p
          BY <1>0, <3>4, DoesConfirm DEF At2
        <4>2. sent' = [sent EXCEPT ![s][p] = 0]
          BY <4>1 DEF Confirm
        <4>3. QED
          BY <1>0, <1>1, <1>5, <4>2
      <3>5. QED
        BY <2>1, <3>1, <3>3, <3>4, DueKept
    <2>4. CASE sent'[s][p] = 0
      BY <1>1, <1>5, <2>4
    <2>5. CASE /\ sent'[s][p] = sent[s][p] + 1
               /\ q = <<Unlock(s), RxCb(s, Message(p, sent[s][p] + 1 = Quota))>>
      <3>1. sent[s][p] + 1 = Quota
        BY <1>5, <2>5
      <3>2. (sent[s][p] + 1 = Quota) = TRUE
        BY <3>1
      <3>3. q = <<Unlock(s), RxCb(s, Message(p, TRUE))>>
        BY <2>5, <3>2
      <3>4. Present(RxCb(s, Message(p, TRUE)))'
        BY <1>00, <3>3, Entered
      <3>5. QED
        BY <3>4 DEF Due
    <2>6. QED
      BY <2>2, <2>3, <2>4, <2>5, SentAfter
  <1>6. ASSUME Takes(s)', bucket'[s] = Quota PROVE Present(At1("resumetx", s))' \/ \E a \in Socks : Due(s, a)'
    <2>1. CASE Open(t, s)
      <3>1. port[s] = "none"
        BY <2>1 DEF Open
      <3>2. QED
        BY <1>1, <1>6, <3>1, PortFresh
    <2>2. CASE ~Open(t, s) /\ bucket'[s] = bucket[s]
      <3>1. Takes(s)
        BY <1>6, <2>2, TakesBefore
      <3>2. Present(At1("resumetx", s)) \/ \E a \in Socks : Due(s, a)
        BY <1>6, <2>2, <3>1 DEF ConfirmOk
      <3>3. CASE Present(At1("resumetx", s))
        <4>1. CASE stack[t] # <<>> /\ Top(t) = At1("resumetx", s)
          <5>1. Op(t) = "resumetx" /\ Top(t).s = s
            BY <4>1 DEF Op, At1
          <5>2. ResumeTx(t)
            BY <1>0, <5>1, DoesResumeTx
          <5>3. bucket' = [bucket EXCEPT ![s] = 0]
            BY <5>1, <5>2 DEF ResumeTx, Resume
          <5>4. QED
            BY <1>0, <1>1, <1>6, <5>3
        <4>2. CASE ~(stack[t] # <<>> /\ Top(t) = At1("resumetx", s))
          BY <1>00, <3>3, <4>2, PresentKept
        <4>3. QED
          BY <4>1, <4>2
      <3>4. ASSUME NEW a \in Socks, Due(s, a) PROVE Present(At1("resumetx", s))' \/ Due(s, a)'
        <4>1. a \in Addrs /\ a \notin Peers
          BY AddrTypes
        <4>2. CASE Op(t) = "confirm" /\ Top(t) = At2("confirm", s, a)
          <5>1. Top(t).s = s /\ Top(t).a = a
            BY <4>2 DEF At2
          <5>2. q = <<Unlock(s), At1("resumetx", s)>>
            BY <1>0, <3>1, <4>2, <5>1, DoesConfirm DEF Takes
          <5>3. QED
            BY <1>00, <5>2, Entered
        <4>3. QED
          BY <3>1, <3>4, <4>1, <4>2, DueKept
      <3>5. QED
        BY <3>2, <3>3, <3>4
    <2>3. CASE bucket'[s] = 0
      BY <1>1, <1>6, <2>3
    <2>4. CASE /\ bucket'[s] = bucket[s] + 1 /\ Top(t).s \in Socks
               /\ q = IF s \in Peers THEN <<>> ELSE <<Unlock(s), RxCb(s, Message(Top(t).s, bucket[s] + 1 = Quota))>>
      <3>0. PICK a \in Socks : a = Top(t).s
        BY <2>4
      <3>1. (bucket[s] + 1 = Quota) = TRUE
        BY <1>6, <2>4
      <3>2. q = <<Unlock(s), RxCb(s, Message(a, TRUE))>>
        BY <1>0, <2>4, <3>0, <3>1
      <3>3. Present(RxCb(s, Message(a, TRUE)))'
        BY <1>00, <3>2, Entered
      <3>4. QED
        BY <3>2, <3>3 DEF Due
    <2>5. QED
      BY <1>0, <2>1, <2>2, <2>3, <2>4, BucketAfter
  <1>7. QED
    BY <1>2, <1>3, <1>4, <1>5, <1>6 DEF ConfirmOk

\* Nothing is to be confirmed at the start,
LEMMA ConfirmsInit == Init => Confirms
  <1> SUFFICES ASSUME Init, NEW s \in Socks PROVE ConfirmOk(s)
    BY DEF Confirms
  <1>1. /\ sock[s].active = {} /\ bucket[s] = 0 /\ \A p \in Peers : sent[s][p] = 0
        /\ \A u \in Threads : stack[u] = <<>>
    BY AddrTypes DEF Init
  <1>2. ~Present(At1("flush", s)) /\ ~Rx(s)
    BY <1>1 DEF Present, Rx
  <1>3. QED
    BY <1>1, <1>2 DEF ConfirmOk, Takes

\* every step keeps it,
LEMMA ConfirmsNext == SockInv /\ Confirms /\ [Next]_vars => Confirms'
  <1> SUFFICES ASSUME SockInv, Confirms, [Next]_vars, NEW s \in Socks PROVE ConfirmOk(s)'
    BY DEF Confirms
  <1>1. ConfirmOk(s)
    BY DEF Confirms
  <1>2. CASE UNCHANGED vars
    <2>1. /\ stack' = stack /\ sock' = sock /\ rxq' = rxq /\ rxLock' = rxLock /\ port' = port /\ gone' = gone
          /\ bucket' = bucket /\ sent' = sent
      BY <1>2 DEF vars, sockets, locks, router, flow
    <2>2. \A f : Present(f)' <=> Present(f)
      BY <2>1 DEF Present
    <2>3. (Takes(s)' <=> Takes(s)) /\ (Data(s)' <=> Data(s)) /\ \A a : Due(s, a)' <=> Due(s, a)
      BY <2>1, <2>2 DEF Takes, Data, Rx, Due
    <2>4. QED
      BY <1>1, <2>1, <2>2, <2>3 DEF ConfirmOk
  <1>3. CASE Next
    <2>1. PICK t \in Threads : \E q \in Seq(Frame) : Step(t, q)
      BY <1>3, NextStep
    <2>2. QED
      BY <1>1, <2>1, ConfirmStep
  <1>4. QED
    BY <1>2, <1>3

\* and so it always holds.
LEMMA ConfirmsInvariant == Spec => []Confirms
  BY SockInvariant, ConfirmsInit, ConfirmsNext, PTL DEF Spec

\* A confirmation that the proofs follow is one that ConfirmKept asks for.
LEMMA DueIs ==
  ASSUME NEW s \in Socks, NEW a, Due(s, a)
  PROVE  ConfirmDue(s, a)
  <1>1. ASSUME NEW u \in Threads, NEW i \in DOMAIN stack[u], NEW ops, stack[u][i].op \in ops, stack[u][i].s = s
        PROVE  <<u, i>> \in Frames(ops, s)
    BY <1>1 DEF Frames, Places
  <1>2. CASE \E i \in DOMAIN rxq[s] : rxq[s][i] = Message(a, TRUE)
    BY <1>2 DEF ConfirmDue
  <1>3. ASSUME NEW u \in Threads, NEW i \in DOMAIN stack[u],
               stack[u][i] = RxCb(s, Message(a, TRUE)) \/ stack[u][i] = Add(s, Message(a, TRUE))
        PROVE  ConfirmDue(s, a)
    <2> DEFINE m == Message(a, TRUE)
    <2>0. stack[u][i] = RxCb(s, m) \/ stack[u][i] = Add(s, m)
      BY <1>3
    <2> HIDE DEF m
    <2>3. stack[u][i].op \in {"rx", "add"} /\ stack[u][i].s = s /\ stack[u][i].m = m
      BY <2>0 DEF RxCb, Add
    <2>1. stack[u][i].op \in {"rx", "add"} /\ stack[u][i].s = s /\ stack[u][i].m = Message(a, TRUE)
      BY <2>3 DEF m
    <2>2. <<u, i>> \in Frames({"rx", "add"}, s)
      BY <1>1, <2>1
    <2>4. QED
      BY <2>1, <2>2 DEF ConfirmDue
  <1>4. ASSUME NEW u \in Threads, NEW i \in DOMAIN stack[u], stack[u][i] = At2("confirm", s, a)
        PROVE  ConfirmDue(s, a)
    <2>1. stack[u][i].op \in {"confirm"} /\ stack[u][i].s = s /\ stack[u][i].a = a
      BY <1>4 DEF At2
    <2>2. <<u, i>> \in Frames({"confirm"}, s)
      BY <1>1, <2>1
    <2>3. QED
      BY <2>1, <2>2 DEF ConfirmDue
  <1>5. QED
    BY <1>2, <1>3, <1>4 DEF Due, Present

\* No destination stays full for want of its confirmation: as long as a socket
\* takes messages, the packet that asks a peer, or another socket, to go on is
\* unread, being read, or its confirmation is on the way, through connections,
\* messages from elsewhere and reads (sock_rx_cb, qrecvfrom).
THEOREM ConfirmationKept == Spec => []ConfirmKept
  <1>1. Confirms => ConfirmKept
    <2> SUFFICES ASSUME Confirms, NEW s \in Socks, port[s] = "open", Data(s), Rx(s), sock[s].conn # Reset
                 PROVE  /\ \A p \in Peers : p \notin gone /\ sent[s][p] = Quota => ConfirmDue(s, p)
                        /\ bucket[s] = Quota => Frames({"resumetx"}, s) # {} \/ \E a \in Socks : ConfirmDue(s, a)
      BY DEF ConfirmKept
    <2>1. /\ \A p \in Peers : p \notin gone /\ sent[s][p] = Quota => Due(s, p)
          /\ bucket[s] = Quota => Present(At1("resumetx", s)) \/ \E a \in Socks : Due(s, a)
      BY DEF Confirms, ConfirmOk, Takes
    <2>2. Present(At1("resumetx", s)) => Frames({"resumetx"}, s) # {}
      <3>1. ASSUME NEW u \in Threads, NEW i \in DOMAIN stack[u], stack[u][i] = At1("resumetx", s)
            PROVE  <<u, i>> \in Frames({"resumetx"}, s)
        BY <3>1 DEF Frames, Places, At1
      <3>2. QED
        BY <3>1 DEF Present
    <2>3. QED
      BY <2>1, <2>2, DueIs
  <1>2. QED
    BY <1>1, ConfirmsInvariant, PTL

(***************************************************************************)
(* What a thread does is what its application calls                        *)
(***************************************************************************)

May(u, call, s) == u \in Users /\ <<call, s>> \in app.calls[u]
MayReach(call, a) == a \in app.to[call] \/ (Null \in app.to[call] /\ a \in app.partners)

\* Frame f of thread u
Wanted(u, f) ==
  /\ f.op \in {"sendwaiter", "send", "sendwait"} => May(u, "send", f.s) /\ MayReach("send", f.a)
  /\ f.op = "trysend" => May(u, "trysend", f.s) /\ MayReach("trysend", f.a)
  /\ f.op \in {"read", "readdone"} => May(u, "recv", f.s) \/ May(u, "tryrecv", f.s)

\* An entry w in g_waiters_list is of a thread that polls, receives, or sends.
WantedEntry(u, w) ==
  \/ w = Null
  \/ w.a = Null /\ w.ev = {"in"} /\ \E s \in Socks : w.f = {s}
  \/ w.a = Null /\ w.ev \in app.events /\ \A s \in w.f : May(u, "poll", s)
  \/ w.a # Null /\ w.ev = {"out"} /\ \E s \in Socks : w.f = {s} /\ May(u, "send", s) /\ MayReach("send", w.a)

PollWanted(u, f) ==
  f.op \in {"poll", "polltest", "pollwait"} =>
    waiter[u].ev \in app.events /\ \A s \in waiter[u].f : May(u, "poll", s)

Wants ==
  /\ \A u \in Threads : \A i \in DOMAIN stack[u] : Wanted(u, stack[u][i]) /\ PollWanted(u, stack[u][i])
  /\ \A u \in Threads : WantedEntry(u, waiter[u])
  /\ \A s \in Socks : sock[s].conn \in Addrs => sock[s].conn \in app.partners

\* The frames of a call
LEMMA CallFrames ==
  ASSUME TypeOK, Wants, NEW t \in Threads, NEW s \in Socks, Call(t, s), ~Open(t, s), NEW q \in Seq(Frame), Moves(t, q)
  PROVE  \A k \in DOMAIN q :
           /\ q[k].op \in {"put", "coreclose", "read", "unwait", "recvwaiter", "sendwaiter", "trysend"}
           /\ Wanted(t, q[k])
  <1>1. \E call : Get(t, s, call)
    BY DEF Call, Connect, SetControl, Shutdown, Recv, Send
  <1>2. stack[t] = <<>>
    BY <1>1 DEF Get, Idle
  <1>3. ASSUME NEW p, Start(t, p) PROVE q = p
    <2>1. stack'[t] = p /\ stack'[t] = Below(t) \o q
      BY <1>3 DEF Start, Moves, Goto, TypeOK
    <2>2. Below(t) = <<>>
      BY <1>2 DEF Below
    <2>3. QED
      BY <2>1, <2>2
  <1>4. ASSUME NEW a, \/ q = <<Put(s)>>
                      \/ q = <<Put(s), At1("coreclose", s)>>
                      \/ q = <<Put(s), At1("read", s)>> /\ (May(t, "recv", s) \/ May(t, "tryrecv", s))
                      \/ /\ q = <<Put(s), At1("read", s), At1("unwait", s), At1("recvwaiter", s)>>
                         /\ May(t, "recv", s)
                      \/ /\ q = <<Put(s), At1("unwait", s), At2("sendwaiter", s, a)>>
                         /\ May(t, "send", s) /\ MayReach("send", a)
                      \/ q = <<Put(s), At2("trysend", s, a)>> /\ May(t, "trysend", s) /\ MayReach("trysend", a)
        PROVE  \A k \in DOMAIN q :
                 /\ q[k].op \in {"put", "coreclose", "read", "unwait", "recvwaiter", "sendwaiter", "trysend"}
                 /\ Wanted(t, q[k])
    <2> SUFFICES ASSUME NEW k \in DOMAIN q
                 PROVE  /\ q[k].op \in {"put", "coreclose", "read", "unwait", "recvwaiter", "sendwaiter", "trysend"}
                        /\ Wanted(t, q[k])
      OBVIOUS
    <2>1. \/ q[k] \in {Put(s), At1("coreclose", s), At1("unwait", s), At1("recvwaiter", s)}
          \/ q[k] = At1("read", s) /\ (May(t, "recv", s) \/ May(t, "tryrecv", s))
          \/ q[k] = At2("sendwaiter", s, a) /\ May(t, "send", s) /\ MayReach("send", a)
          \/ q[k] = At2("trysend", s, a) /\ May(t, "trysend", s) /\ MayReach("trysend", a)
      BY <1>4
    <2>2. QED
      BY <2>1 DEF Wanted, Put, At1, At2
  <1>5. /\ <<Put(s)>> \o <<>> = <<Put(s)>>
        /\ <<Put(s)>> \o <<At1("coreclose", s)>> = <<Put(s), At1("coreclose", s)>>
        /\ <<Put(s)>> \o <<At1("read", s)>> = <<Put(s), At1("read", s)>>
        /\ <<Put(s)>> \o <<At1("read", s), At1("unwait", s), At1("recvwaiter", s)>>
             = <<Put(s), At1("read", s), At1("unwait", s), At1("recvwaiter", s)>>
    BY Tuples, FrameSeqs, FrameAt1
  <1>6. CASE Connect(t, s) \/ SetControl(t, s)
    <2>1. q = <<Put(s)>>
      BY <1>3, <1>6 DEF Connect, SetControl
    <2>2. QED
      BY <1>4, <2>1
  <1>7. CASE \E call \in {"shutRd", "shutWr", "close"} : Shutdown(t, s, call)
    <2>1. q = <<Put(s)>> \/ q = <<Put(s), At1("coreclose", s)>>
      BY <1>3, <1>5, <1>7 DEF Shutdown
    <2>2. QED
      BY <1>4, <2>1
  <1>8. CASE \E call \in {"recv", "tryrecv"} : Recv(t, s, call)
    <2>1. PICK call \in {"recv", "tryrecv"} : Recv(t, s, call)
      BY <1>8
    <2>2. May(t, call, s)
      BY <2>1 DEF Recv, Get, May
    <2>3. \/ q = <<Put(s)>>
          \/ q = <<Put(s), At1("read", s)>>
          \/ call = "recv" /\ q = <<Put(s), At1("read", s), At1("unwait", s), At1("recvwaiter", s)>>
      BY <1>3, <1>5, <2>1 DEF Recv
    <2>4. QED
      BY <1>4, <2>1, <2>2, <2>3
  <1>9. CASE \E call \in {"send", "trysend"} : Send(t, s, call)
    <2>1. PICK call \in {"send", "trysend"} : Send(t, s, call)
      BY <1>9
    <2>2. May(t, call, s)
      BY <2>1 DEF Send, Get, May
    <2>3. PICK to \in app.to[call] :
            LET a == IF to = Null THEN sock[s].conn ELSE to
                ok == Data(s) /\ a \in Addrs /\ Tx(s)
                wait == <<At1("unwait", s), At2("sendwaiter", s, a)>>
            IN Start(t, <<Put(s)>> \o
                 IF ~ok THEN <<>> ELSE IF call = "send" THEN wait ELSE <<At2("trysend", s, a)>>)
      BY <2>1 DEF Send
    <2> DEFINE a == IF to = Null THEN sock[s].conn ELSE to
    <2>4. \/ q = <<Put(s)>> \o <<>>
          \/ a \in Addrs /\ call = "send" /\ q = <<Put(s)>> \o <<At1("unwait", s), At2("sendwaiter", s, a)>>
          \/ a \in Addrs /\ call = "trysend" /\ q = <<Put(s)>> \o <<At2("trysend", s, a)>>
      BY <1>3, <2>1, <2>3
    <2>5. a \in Addrs => MayReach(call, a)
      BY DEF Wants, MayReach
    <2> HIDE DEF a
    <2>6. a \in Addrs => /\ <<Put(s)>> \o <<At2("trysend", s, a)>> = <<Put(s), At2("trysend", s, a)>>
                         /\ <<Put(s)>> \o <<At1("unwait", s), At2("sendwaiter", s, a)>>
                              = <<Put(s), At1("unwait", s), At2("sendwaiter", s, a)>>
      BY Tuples, FrameSeqs, FrameAt1, FrameAt2
    <2>7. \/ q = <<Put(s)>>
          \/ /\ q = <<Put(s), At1("unwait", s), At2("sendwaiter", s, a)>>
             /\ May(t, "send", s) /\ MayReach("send", a)
          \/ q = <<Put(s), At2("trysend", s, a)>> /\ May(t, "trysend", s) /\ MayReach("trysend", a)
      BY <1>5, <2>2, <2>4, <2>5, <2>6
    <2>8. QED
      BY <1>4, <2>7
  <1>10. QED
    BY <1>6, <1>7, <1>8, <1>9 DEF Call

\* The entry of a thread that moves
LEMMA EntryAfter ==
  ASSUME SockInv, NEW t \in Threads, NEW q \in Seq(Frame), Step(t, q)
  PROVE  \/ waiter'[t] = waiter[t] /\ Op(t) \notin {"recvwaiter", "sendwaiter", "unwait", "pollend"}
         \/ Op(t) \in {"unwait", "pollend"} /\ waiter'[t] = Null
         \/ Op(t) = "recvwaiter" /\ waiter'[t] = [f |-> {Top(t).s}, ev |-> {"in"}, a |-> Null]
         \/ Op(t) = "sendwaiter" /\ waiter'[t] = [f |-> {Top(t).s}, ev |-> {"out"}, a |-> Top(t).a]
         \/ \E f \in SUBSET Socks, ev \in SUBSET {"in", "out"} :
              /\ Op(t) = "none" /\ BeginPoll(t, f, ev) /\ q = <<Poll(f, FALSE)>>
              /\ waiter'[t] = [f |-> f, ev |-> ev, a |-> Null]
  <1>0. TypeOK /\ Calm(t) /\ Moves(t, q) /\ waiter \in [Threads -> Entries \cup {Null}]
    BY StepFacts DEF TypeOK
  <1>1. CASE Op(t) \notin {"none", "unwait", "recvwaiter", "sendwaiter", "pollend"}
    BY <1>0, <1>1 DEF Calm
  <1>2. CASE Op(t) \in {"unwait", "pollend"}
    <2>1. Unwait(t) \/ PollEnd(t)
      BY <1>0, <1>2, DoesUnwait, DoesPollEnd
    <2>2. QED
      BY <1>0, <1>2, <2>1 DEF Unwait, PollEnd
  <1>3. CASE Op(t) = "recvwaiter"
    <2>1. RecvWaiter(t)
      BY <1>0, <1>3, DoesRecvWaiter
    <2>2. QED
      BY <1>0, <1>3, <2>1 DEF RecvWaiter, Wait
  <1>4. CASE Op(t) = "sendwaiter"
    <2>1. SendWaiter(t)
      BY <1>0, <1>4, DoesSendWaiter
    <2>2. QED
      BY <1>0, <1>4, <2>1 DEF SendWaiter, Wait
  <1>5. CASE Op(t) = "none"
    <2>1. CASE \E f \in SUBSET Socks, ev \in SUBSET {"in", "out"} : BeginPoll(t, f, ev) /\ q = <<Poll(f, FALSE)>>
      <3>1. PICK f \in SUBSET Socks, ev \in SUBSET {"in", "out"} : BeginPoll(t, f, ev) /\ q = <<Poll(f, FALSE)>>
        BY <2>1
      <3>2. waiter'[t] = [f |-> f, ev |-> ev, a |-> Null]
        BY <1>0, <3>1 DEF BeginPoll, Wait
      <3>3. QED
        BY <1>5, <3>1, <3>2
    <2>2. CASE \E r \in Socks : Call(t, r) /\ ~Open(t, r)
      <3>1. UNCHANGED waiting
        BY <1>0, <2>2, CallEffects
      <3>2. QED
        BY <1>5, <3>1 DEF waiting
    <2>3. CASE /\ ~\E f \in SUBSET Socks, ev \in SUBSET {"in", "out"} : BeginPoll(t, f, ev) /\ q = <<Poll(f, FALSE)>>
               /\ ~\E r \in Socks : Call(t, r) /\ ~Open(t, r)
      <3>1. \/ \E r \in Socks : Open(t, r)
            \/ \E x \in Peers : PeerConfirms(x) \/ PeerGone(x)
            \/ \E x \in Peers, r \in Socks : Arrive(x, r)
        BY <1>0, <1>5, <2>3, BeginCases, Zenon
      <3>2. waiter' = waiter
        BY <3>1 DEF Open, PeerConfirms, PeerGone, Arrive, waiting
      <3>3. QED
        BY <1>5, <3>2
    <2>4. QED
      BY <2>1, <2>2, <2>3
  <1>6. QED
    BY <1>1, <1>2, <1>3, <1>4, <1>5

\* The frames a thread that starts enters, when it is not a call on a socket
LEMMA StartOps ==
  ASSUME SockInv, NEW t \in Threads, NEW q \in Seq(Frame), Step(t, q), Op(t) = "none",
         ~\E r \in Socks : Call(t, r) /\ ~Open(t, r), NEW k \in DOMAIN q
  PROVE  \/ q[k].op = "poll" /\ \E f \in SUBSET Socks, ev \in SUBSET {"in", "out"} : BeginPoll(t, f, ev) /\ q = <<Poll(f, FALSE)>>
         \/ \E p \in Peers : q[k] = Notify(queue[p], p) /\ t = Net /\ (PeerConfirms(p) \/ PeerGone(p))
         \/ \E p \in Peers : q[k] = Gone(p) /\ t = Net /\ PeerGone(p)
         \/ \E p \in Peers, s \in Socks, c \in BOOLEAN :
              Arrive(p, s) /\ t = Net /\ (q[k] = Unlock(s) \/ q[k] = RxCb(s, Message(p, c)))
  <1>0. TypeOK
    BY StepFacts
  <1>1. \/ q = <<>>
        \/ \E f \in SUBSET Socks, ev \in SUBSET {"in", "out"} : BeginPoll(t, f, ev) /\ q = <<Poll(f, FALSE)>>
        \/ t = Net /\ \E p \in Peers : PeerConfirms(p) /\ q = <<Notify(queue[p], p)>>
        \/ t = Net /\ \E p \in Peers : PeerGone(p) /\ q = <<Gone(p), Notify(queue[p], p)>>
        \/ t = Net /\ \E p \in Peers, s \in Socks :
             Arrive(p, s) /\ q = <<Unlock(s), RxCb(s, Message(p, sent[s][p] + 1 = Quota))>>
    BY <1>0, BeginCases, Zenon
  <1>2. CASE \E f \in SUBSET Socks, ev \in SUBSET {"in", "out"} : BeginPoll(t, f, ev) /\ q = <<Poll(f, FALSE)>>
    <2>1. q[k].op = "poll"
      BY <1>2 DEF Poll
    <2>2. QED
      BY <1>2, <2>1
  <1>3. CASE t = Net /\ \E p \in Peers : PeerConfirms(p) /\ q = <<Notify(queue[p], p)>>
    <2>1. PICK p \in Peers : PeerConfirms(p) /\ q = <<Notify(queue[p], p)>>
      BY <1>3
    <2>2. q[k] = Notify(queue[p], p)
      BY <2>1
    <2>3. QED
      BY <1>3, <2>1, <2>2
  <1>4. CASE t = Net /\ \E p \in Peers : PeerGone(p) /\ q = <<Gone(p), Notify(queue[p], p)>>
    <2>1. PICK p \in Peers : PeerGone(p) /\ q = <<Gone(p), Notify(queue[p], p)>>
      BY <1>4
    <2>2. q[k] = Notify(queue[p], p) \/ q[k] = Gone(p)
      BY <2>1
    <2>3. QED
      BY <1>4, <2>1, <2>2
  <1>5. CASE t = Net /\ \E p \in Peers, s \in Socks :
               Arrive(p, s) /\ q = <<Unlock(s), RxCb(s, Message(p, sent[s][p] + 1 = Quota))>>
    <2>1. PICK p \in Peers, s \in Socks :
               Arrive(p, s) /\ q = <<Unlock(s), RxCb(s, Message(p, sent[s][p] + 1 = Quota))>>
      BY <1>5
    <2>2. PICK c \in BOOLEAN : c = (sent[s][p] + 1 = Quota)
      OBVIOUS
    <2>3. q = <<Unlock(s), RxCb(s, Message(p, c))>>
      BY <2>1, <2>2
    <2>4. q[k] = Unlock(s) \/ q[k] = RxCb(s, Message(p, c))
      BY <2>3
    <2>5. QED
      BY <1>5, <2>1, <2>4
  <1>6. q # <<>>
    OBVIOUS
  <1>7. QED
    BY <1>1, <1>2, <1>3, <1>4, <1>5, <1>6

\* What a thread starts with when it does not call a socket
LEMMA StartOpSet ==
  ASSUME SockInv, NEW t \in Threads, NEW q \in Seq(Frame), Step(t, q), Op(t) = "none",
         ~\E r \in Socks : Call(t, r) /\ ~Open(t, r), NEW k \in DOMAIN q
  PROVE  /\ q[k].op \in {"poll", "notify", "gone", "unlock", "rx"}
         /\ q[k].op = "poll" => \E f \in SUBSET Socks, ev \in SUBSET {"in", "out"} : BeginPoll(t, f, ev) /\ q = <<Poll(f, FALSE)>>
  <1>1. \/ q[k].op = "poll" /\ \E f \in SUBSET Socks, ev \in SUBSET {"in", "out"} : BeginPoll(t, f, ev) /\ q = <<Poll(f, FALSE)>>
        \/ \E p \in Peers : q[k] = Notify(queue[p], p)
        \/ \E p \in Peers : q[k] = Gone(p)
        \/ \E s \in Socks : \E m : q[k] = Unlock(s) \/ q[k] = RxCb(s, m)
    BY StartOps, ZenonT(60)
  <1>2. CASE \E p \in Peers : q[k] = Notify(queue[p], p)
    BY <1>2 DEF Notify
  <1>3. CASE \E p \in Peers : q[k] = Gone(p)
    BY <1>3 DEF Gone
  <1>4. CASE \E s \in Socks : \E m : q[k] = Unlock(s) \/ q[k] = RxCb(s, m)
    <2>10. PICK s \in Socks : \E m : q[k] = Unlock(s) \/ q[k] = RxCb(s, m)
      BY <1>4
    <2>1. PICK m : q[k] = Unlock(s) \/ q[k] = RxCb(s, m)
      BY <2>10
    <2>2. q[k].op \in {"unlock", "rx"}
      BY <2>1 DEF Unlock, RxCb, At1
    <2>3. QED
      BY <2>2
  <1>5. QED
    BY <1>1, <1>2, <1>3, <1>4

\* Where a frame on a stack after a step comes from
LEMMA FrameFrom ==
  ASSUME SockInv, NEW t \in Threads, NEW q \in Seq(Frame), Step(t, q), NEW u \in Threads, NEW i \in DOMAIN stack'[u]
  PROVE  \/ i \in DOMAIN stack[u] /\ stack'[u][i] = stack[u][i] /\ u # t
         \/ u = t /\ i \in 1..Len(Below(t)) /\ i \in DOMAIN stack[t] /\ stack'[t][i] = stack[t][i]
         \/ u = t /\ \E k \in DOMAIN q : stack'[t][i] = q[k]
  <1>0. StackType /\ Goto(t, q)
    BY StepFacts
  <1>1. CASE u # t
    BY <1>0, <1>1, GotoFrames
  <1>2. CASE u = t
    BY <1>0, <1>2, StackFrames
  <1>3. QED
    BY <1>1, <1>2

\* A step enters only frames that the application asked for.
LEMMA WantedStep ==
  ASSUME SockInv, Wants, NEW t \in Threads, NEW q \in Seq(Frame), Step(t, q), NEW k \in DOMAIN q
  PROVE  Wanted(t, q[k])
  <1>0. TypeOK /\ Calm(t) /\ Moves(t, q) /\ StackType /\ Shape
    BY StepFacts
  <1>1. CASE Op(t) = "none"
    <2>1. CASE \E r \in Socks : Call(t, r) /\ ~Open(t, r)
      BY <1>0, <2>1, CallFrames
    <2>2. CASE ~\E r \in Socks : Call(t, r) /\ ~Open(t, r)
      <3>1. q[k].op \in {"poll", "notify", "gone", "unlock", "rx"}
        BY <1>1, <2>2, StartOpSet
      <3>2. QED
        BY <3>1 DEF Wanted
    <2>3. QED
      BY <2>1, <2>2
  <1>2. CASE Op(t) # "none"
    <2>1. stack[t] # <<>> /\ Top(t) \in Frame /\ Top(t).op = Op(t)
      BY <1>0, <1>2, TopOp
    <2>2. Follows(Top(t), q)
      BY <1>0, <2>1 DEF Moves
    <2>3. Wanted(t, Top(t))
      <3>1. Len(stack[t]) \in DOMAIN stack[t] /\ stack[t][Len(stack[t])] = Top(t)
        BY <1>0, <2>1, TopAt
      <3>2. QED
        BY <3>1 DEF Wants
    <2>4. CASE q[k].op \notin {"send", "sendwait", "readdone"}
      <3>1. q[k].op \notin {"sendwaiter", "trysend", "read"}
        BY <2>2, FollowsOps
      <3>2. QED
        BY <2>4, <3>1 DEF Wanted
    <2>5. CASE q[k].op = "send"
      <3>1. Op(t) \in {"sendwaiter", "sendwait"}
        BY <2>1, <2>2, <2>5, FollowsOps
      <3>2. q = <<At2("send", Top(t).s, Top(t).a)>> \/ q = <<>>
        BY <1>0, <3>1, DoesSendWaiter, DoesSendWait
      <3>3. q[k].s = Top(t).s /\ q[k].a = Top(t).a
        BY <3>2 DEF At2
      <3>4. QED
        BY <2>1, <2>3, <2>5, <3>1, <3>3 DEF Wanted
    <2>6. CASE q[k].op = "sendwait"
      <3>1. Op(t) = "send"
        BY <2>1, <2>2, <2>6, FollowsOps
      <3> DEFINE s == Top(t).s
                 a == Top(t).a
                 m == Message(s, bucket[a] + 1 = Quota)
      <3>2. \/ q = <<>>
            \/ q = <<Unlock(a), RxCb(a, m)>>
            \/ q = <<At2("sendwait", s, a)>>
        BY <1>0, <3>1, DoesSend
      <3> HIDE DEF s, a, m
      <3>5. q[k].s = s /\ q[k].a = a
        BY <2>6, <3>2 DEF At2, Unlock, At1, RxCb
      <3>3. q[k].s = Top(t).s /\ q[k].a = Top(t).a
        BY <3>5 DEF s, a
      <3>4. QED
        BY <2>1, <2>3, <2>6, <3>1, <3>3 DEF Wanted
    <2>7. CASE q[k].op = "readdone"
      <3>1. Op(t) = "read"
        BY <2>1, <2>2, <2>7, FollowsOps
      <3>20. PICK s \in Socks : \E f :
              /\ s = Top(t).s
              /\ \/ q = <<>>
                 \/ q = <<At1("readdone", s), At2("confirm", s, f)>>
                 \/ q = <<At1("readdone", s)>>
        BY <1>0, <3>1, DoesRead
      <3>2. PICK f :
              /\ s = Top(t).s
              /\ \/ q = <<>>
                 \/ q = <<At1("readdone", s), At2("confirm", s, f)>>
                 \/ q = <<At1("readdone", s)>>
        BY <3>20
      <3>3. q[k].s = Top(t).s
        BY <3>2 DEF At1, At2
      <3>4. QED
        BY <2>1, <2>3, <2>7, <3>1, <3>3 DEF Wanted
    <2>8. QED
      BY <2>4, <2>5, <2>6, <2>7
  <1>3. QED
    BY <1>1, <1>2

\* So all frames stay ones that the application asked for.
LEMMA WantsStep ==
  ASSUME SockInv, Wants, NEW t \in Threads, NEW q \in Seq(Frame), Step(t, q)
  PROVE  Wants'
  <1>0. TypeOK /\ Calm(t) /\ Moves(t, q) /\ StackType /\ Shape /\ app' = app
    BY StepFacts DEF Calm
  <1>1. ASSUME NEW u \in Threads PROVE WantedEntry(u, waiter[u])'
    <2>0. WantedEntry(u, waiter[u])
      BY DEF Wants
    <2>1. CASE waiter'[u] = waiter[u]
      BY <1>0, <2>0, <2>1 DEF WantedEntry, May, MayReach
    <2>2. CASE u = t /\ waiter'[t] = Null
      BY <2>2 DEF WantedEntry
    <2>3. CASE u = t /\ Op(t) = "recvwaiter" /\ waiter'[t] = [f |-> {Top(t).s}, ev |-> {"in"}, a |-> Null]
      <3>1. Top(t).s \in Socks
        BY <1>0, <2>3, DoesRecvWaiter
      <3>2. QED
        BY <2>3, <3>1 DEF WantedEntry
    <2>4. CASE u = t /\ Op(t) = "sendwaiter" /\ waiter'[t] = [f |-> {Top(t).s}, ev |-> {"out"}, a |-> Top(t).a]
      <3>1. Top(t).s \in Socks /\ Top(t).a \in Addrs /\ stack[t] # <<>> /\ Top(t).op = "sendwaiter"
        BY <1>0, <2>4, DoesSendWaiter, TopOp
      <3>2. Len(stack[t]) \in DOMAIN stack[t] /\ stack[t][Len(stack[t])] = Top(t)
        BY <1>0, <3>1, TopAt
      <3>3. May(t, "send", Top(t).s) /\ MayReach("send", Top(t).a)
        BY <3>1, <3>2 DEF Wants, Wanted
      <3>4. waiter'[u].a # Null /\ waiter'[u].ev = {"out"} /\ waiter'[u].f = {Top(t).s} /\ waiter'[u].a = Top(t).a
        BY <2>4, <3>1, AddrTypes
      <3>6. PICK s \in Socks : s = Top(t).s
        BY <3>1
      <3>7. /\ waiter'[u].a # Null /\ waiter'[u].ev = {"out"} /\ waiter'[u].f = {s}
            /\ u \in Users /\ <<"send", s>> \in app'.calls[u]
            /\ waiter'[u].a \in app'.to["send"] \/ (Null \in app'.to["send"] /\ waiter'[u].a \in app'.partners)
        BY <1>0, <2>4, <3>3, <3>4, <3>6 DEF May, MayReach
      <3>8. QED
        BY <3>7 DEF WantedEntry, May, MayReach
    <2>5. CASE u = t /\ \E f \in SUBSET Socks, ev \in SUBSET {"in", "out"} :
              BeginPoll(t, f, ev) /\ waiter'[t] = [f |-> f, ev |-> ev, a |-> Null]
      <3>1. PICK f \in SUBSET Socks, ev \in SUBSET {"in", "out"} :
              BeginPoll(t, f, ev) /\ waiter'[t] = [f |-> f, ev |-> ev, a |-> Null]
        BY <2>5
      <3>2. t \in Users /\ ev \in app'.events /\ \A s \in f : <<"poll", s>> \in app'.calls[t]
        BY <1>0, <3>1 DEF BeginPoll
      <3>3. QED
        BY <2>5, <3>1, <3>2 DEF WantedEntry, May
    <2>6. QED
      BY <1>0, <2>1, <2>2, <2>3, <2>4, <2>5, EntryAfter, OthersWait
  <1>2. ASSUME NEW u \in Threads, NEW i \in DOMAIN stack'[u] PROVE Wanted(u, stack[u][i])' /\ PollWanted(u, stack[u][i])'
    <2>1. \A f : Wanted(u, f) <=> Wanted(u, f)'
      BY <1>0 DEF Wanted, May, MayReach
    <2>2. ASSUME NEW j \in DOMAIN stack[u], stack'[u][i] = stack[u][j] PROVE Wanted(u, stack[u][i])'
      <3>1. Wanted(u, stack[u][j])
        BY DEF Wants
      <3>2. QED
        BY <1>0, <2>2, <3>1 DEF Wanted, May, MayReach
    <2>3. ASSUME waiter'[u] = waiter[u], NEW f, f.op \in {"poll", "polltest", "pollwait"}, PollWanted(u, f)
          PROVE  PollWanted(u, stack[u][i])'
      BY <1>0, <2>3 DEF PollWanted, May
    <2>4. CASE i \in DOMAIN stack[u] /\ stack'[u][i] = stack[u][i] /\ u # t
      <3>1. PollWanted(u, stack[u][i])
        BY <2>4 DEF Wants
      <3>2. waiter'[u] = waiter[u]
        BY <1>0, <2>4, OthersWait
      <3>3. PollWanted(u, stack[u][i])'
        BY <2>3, <2>4, <3>1, <3>2 DEF PollWanted
      <3>4. QED
        BY <2>2, <2>4, <3>3
    <2>5. CASE u = t /\ i \in 1..Len(Below(t)) /\ i \in DOMAIN stack[t] /\ stack'[t][i] = stack[t][i]
      <3>1. PollWanted(t, stack[t][i])
        BY <2>5 DEF Wants
      <3>2. CASE stack[t][i].op \in {"poll", "polltest", "pollwait"}
        <4>1. Op(t) \notin {"none", "unwait", "recvwaiter", "sendwaiter", "pollend"}
          BY <2>5, <3>2, BelowLooks DEF Looks
        <4>2. waiter' = waiter
          BY <1>0, <4>1 DEF Calm
        <4>3. QED
          BY <2>2, <2>3, <2>5, <3>1, <3>2, <4>2
      <3>3. CASE stack[t][i].op \notin {"poll", "polltest", "pollwait"}
        BY <2>2, <2>5, <3>3 DEF PollWanted
      <3>4. QED
        BY <3>2, <3>3
    <2>6. ASSUME u = t, NEW k \in DOMAIN q, stack'[t][i] = q[k]
          PROVE  Wanted(u, stack[u][i])' /\ PollWanted(u, stack[u][i])'
      <3>1. Wanted(t, q[k])
        BY WantedStep
      <3>2. Wanted(u, stack[u][i])'
        BY <1>0, <2>6, <3>1 DEF Wanted, May, MayReach
      <3>3. CASE q[k].op \notin {"poll", "polltest", "pollwait"}
        BY <2>6, <3>2, <3>3 DEF PollWanted
      <3>4. CASE q[k].op \in {"poll", "polltest", "pollwait"} /\ Op(t) = "none"
        <4>1. CASE \E r \in Socks : Call(t, r) /\ ~Open(t, r)
          <5>1. q[k].op \in {"put", "coreclose", "read", "unwait", "recvwaiter", "sendwaiter", "trysend"}
            BY <1>0, <4>1, CallFrames
          <5>2. QED
            BY <3>4, <5>1
        <4>2. CASE ~\E r \in Socks : Call(t, r) /\ ~Open(t, r)
          <5>1. \E f \in SUBSET Socks, ev \in SUBSET {"in", "out"} : BeginPoll(t, f, ev)
            BY <3>4, <4>2, StartOpSet
          <5>2. PICK f \in SUBSET Socks, ev \in SUBSET {"in", "out"} : BeginPoll(t, f, ev)
            BY <5>1
          <5>3. waiter'[t] = [f |-> f, ev |-> ev, a |-> Null]
            BY <1>0, <5>2 DEF BeginPoll, Wait, TypeOK
          <5>4. t \in Users /\ ev \in app'.events /\ \A s \in f : <<"poll", s>> \in app'.calls[t]
            BY <1>0, <5>2 DEF BeginPoll
          <5>5. QED
            BY <2>6, <3>2, <5>3, <5>4 DEF PollWanted, May
        <4>3. QED
          BY <4>1, <4>2
      <3>5. CASE q[k].op \in {"poll", "polltest", "pollwait"} /\ Op(t) # "none"
        <4>1. stack[t] # <<>> /\ Top(t) \in Frame /\ Top(t).op = Op(t)
          BY <1>0, <3>5, TopOp
        <4>2. Op(t) \in {"poll", "polltest", "pollwait"}
          BY <1>0, <3>5, <4>1, FollowsOps DEF Moves
        <4>3. waiter' = waiter
          BY <1>0, <4>2 DEF Calm
        <4>4. PollWanted(t, Top(t))
          <5>1. Len(stack[t]) \in DOMAIN stack[t] /\ stack[t][Len(stack[t])] = Top(t)
            BY <1>0, <4>1, TopAt
          <5>2. QED
            BY <5>1 DEF Wants
        <4>5. QED
          BY <2>3, <2>6, <3>2, <4>1, <4>2, <4>3, <4>4
      <3>6. QED
        BY <3>3, <3>4, <3>5
    <2>7. QED
      BY <2>4, <2>5, <2>6, FrameFrom
  <1>3. ASSUME NEW s \in Socks, sock'[s].conn \in Addrs PROVE sock'[s].conn \in app'.partners
    <2>1. sock[s].conn \in Addrs => sock[s].conn \in app.partners
      BY DEF Wants
    <2>2. QED
      BY <1>0, <1>3, <2>1, ConnAfter, AddrTypes
  <1>4. QED
    BY <1>1, <1>2, <1>3 DEF Wants

\* There are no frames at the start,
LEMMA WantsInit == Init => Wants
  <1> SUFFICES ASSUME Init PROVE Wants
    OBVIOUS
  <1>1. \A u \in Threads : stack[u] = <<>> /\ waiter[u] = Null
    BY DEF Init
  <1>2. \A s \in Socks : sock[s].conn \notin Addrs
    BY AddrTypes DEF Init
  <1>3. QED
    BY <1>1, <1>2 DEF Wants, WantedEntry

\* every step keeps it,
LEMMA WantsNext == SockInv /\ Wants /\ [Next]_vars => Wants'
  <1> SUFFICES ASSUME SockInv, Wants, [Next]_vars PROVE Wants'
    OBVIOUS
  <1>1. CASE UNCHANGED vars
    <2>1. app' = app /\ stack' = stack /\ waiter' = waiter /\ sock' = sock
      BY <1>1 DEF vars, sockets, waiting
    <2>2. \A u \in Threads : \A f : Wanted(u, f)' <=> Wanted(u, f)
      BY <2>1 DEF Wanted, May, MayReach
    <2>3. \A u \in Threads : \A f : PollWanted(u, f)' <=> PollWanted(u, f)
      BY <2>1 DEF PollWanted, May
    <2>4. \A u \in Threads : \A w : WantedEntry(u, w)' <=> WantedEntry(u, w)
      BY <2>1 DEF WantedEntry, May, MayReach
    <2>5. QED
      BY <2>1, <2>2, <2>3, <2>4 DEF Wants
  <1>2. CASE Next
    <2>1. PICK t \in Threads : \E q \in Seq(Frame) : Step(t, q)
      BY <1>2, NextStep
    <2>2. QED
      BY <2>1, WantsStep
  <1>3. QED
    BY <1>1, <1>2

\* and so it always holds.
LEMMA WantsInvariant == Spec => []Wants
  BY SockInvariant, WantsInit, WantsNext, PTL DEF Spec

(***************************************************************************)
(* Applications that use a socket only until it is closed (Polite)         *)
(***************************************************************************)

\* No socket that is sent from has its receive side shut down and is made a
\* control socket, which would receive again.
NoRevival ==
  \A a \in Apps : \A s \in Socks : \A u, v, w \in Users :
    <<"control", s>> \in a.calls[u] /\ <<"shutRd", s>> \in a.calls[v] =>
      <<"send", s>> \notin a.calls[w] /\ <<"trysend", s>> \notin a.calls[w]

\* A socket in use has its handle, so its port is open; its receive side alone
\* is off when somebody shut it down.
InUseOk(s) ==
  /\ sock[s].active # {} => sock[s].handle
  /\ sock[s].active = {"tx"} => \E u \in Users : May(u, "shutRd", s)

Handles == \A s \in Socks : InUseOk(s)

\* A polite application keeps a socket listed while it is used.
LEMMA HandlesStep ==
  ASSUME SockInv, Polite, NEW t \in Threads, NEW q \in Seq(Frame), Step(t, q), NEW s \in Socks, InUseOk(s)
  PROVE  InUseOk(s)'
  <1>0. TypeOK /\ sock \in [Socks -> SockType] /\ app' = app
    BY StepFacts DEF TypeOK, SockType, Calm
  <1>1. CASE Open(t, s)
    <2>1. sock'[s].handle /\ sock'[s].active = {"rx", "tx"}
      BY <1>0, <1>1 DEF Open, SockType
    <2>2. sock'[s].active # {"tx"}
      BY <2>1, SMTT(30)
    <2>3. QED
      BY <2>1, <2>2 DEF InUseOk
  <1>2. CASE SetControl(t, s) /\ sock'[s].active = {"rx"} /\ sock'[s].handle = sock[s].handle
    <2>1. sock[s].active # {}
      BY <1>2 DEF SetControl, Get
    <2>2. sock'[s].active # {"tx"}
      BY <1>2
    <2>3. QED
      BY <1>2, <2>1, <2>2 DEF InUseOk
  <1>3. CASE /\ sock'[s].active \subseteq sock[s].active
             /\ \/ sock'[s].active = sock[s].active
                \/ \E call \in {"shutRd", "shutWr", "close"} :
                     Shutdown(t, s, call) /\ sock'[s].active = sock[s].active \ Off(call)
             /\ sock'[s].handle = sock[s].handle \/ (~sock'[s].handle /\ sock'[s].active = {})
    <2>1. sock'[s].active # {} => sock'[s].handle
      BY <1>3 DEF InUseOk
    <2>2. ASSUME sock'[s].active = {"tx"} PROVE \E u \in Users : <<"shutRd", s>> \in app.calls[u]
      <3>1. CASE sock'[s].active = sock[s].active
        BY <2>2, <3>1 DEF InUseOk, May
      <3>2. ASSUME NEW call \in {"shutRd", "shutWr", "close"}, Shutdown(t, s, call), sock'[s].active = sock[s].active \ Off(call)
            PROVE  \E u \in Users : <<"shutRd", s>> \in app.calls[u]
        <4>1. "tx" \notin Off(call)
          BY <2>2, <3>2
        <4>2. call = "shutRd"
          BY <4>1 DEF Off
        <4>3. QED
          BY <3>2, <4>2 DEF Shutdown, Get
      <3>3. QED
        BY <1>3, <3>1, <3>2
    <2>3. QED
      BY <1>0, <2>1, <2>2 DEF InUseOk, May
  <1>4. QED
    BY <1>1, <1>2, <1>3, SockAfter

\* No socket is used at the start,
LEMMA HandlesInit == Init => Handles
  <1> SUFFICES ASSUME Init, NEW s \in Socks PROVE InUseOk(s)
    BY DEF Handles
  <1>1. sock[s].active = {}
    BY DEF Init
  <1>2. QED
    BY <1>1 DEF InUseOk

\* every step keeps it,
LEMMA HandlesNext == Polite /\ SockInv /\ Handles /\ [Next]_vars => Handles'
  <1> SUFFICES ASSUME Polite, SockInv, Handles, [Next]_vars, NEW s \in Socks PROVE InUseOk(s)'
    BY DEF Handles
  <1>1. CASE UNCHANGED vars
    <2>1. app' = app /\ sock' = sock
      BY <1>1 DEF vars, sockets
    <2>2. QED
      BY <2>1 DEF Handles, InUseOk, May
  <1>2. CASE Next
    <2>1. PICK t \in Threads : \E q \in Seq(Frame) : Step(t, q)
      BY <1>2, NextStep
    <2>2. QED
      BY <2>1, HandlesStep DEF Handles
  <1>3. QED
    BY <1>1, <1>2

\* and so it always holds.
LEMMA HandlesInvariant ==
  ASSUME Polite
  PROVE  Spec => []Handles
  BY SockInvariant, HandlesInit, HandlesNext, PTL DEF Spec

\* A socket that is sent from and receives, received before.
LEMMA RxBefore ==
  ASSUME SockInv, Polite, NoRevival, Handles, NEW t \in Threads, NEW q \in Seq(Frame), Step(t, q), NEW s \in Socks,
         \E u \in Users : May(u, "send", s) \/ May(u, "trysend", s), Rx(s)'
  PROVE  \/ Open(t, s)
         \/ Rx(s) /\ sock[s].handle /\ port[s] = "open"
  <1>0. /\ TypeOK /\ app \in Apps /\ InUseOk(s) /\ sock \in [Socks -> SockType] /\ sock[s] \in SockType
        /\ PortOk(s)
    BY StepFacts DEF TypeOK, SockType, Handles, SockInv, Ports
  <1> SUFFICES ASSUME ~Open(t, s) PROVE Rx(s)
    BY <1>0 DEF InUseOk, Rx, PortOk
  <1>1. CASE sock'[s].active \subseteq sock[s].active
    BY <1>1 DEF Rx
  <1>2. CASE SetControl(t, s)
    <2>1. t \in Users /\ <<"control", s>> \in app.calls[t] /\ sock[s].active # {}
      BY <1>2 DEF SetControl, Get
    <2>2. ASSUME sock[s].active = {"tx"} PROVE FALSE
      <3>1. PICK v \in Users : <<"shutRd", s>> \in app.calls[v]
        BY <1>0, <2>2 DEF InUseOk, May
      <3>2. QED
        BY <1>0, <2>1, <3>1 DEF NoRevival, May
    <2>3. sock[s].active \subseteq {"rx", "tx"}
      BY <1>0 DEF SockType
    <2>4. QED
      BY <2>1, <2>2, <2>3 DEF Rx
  <1>3. QED
    BY <1>1, <1>2, SockAfter

(***************************************************************************)
(* Threads that wait for a destination                                     *)
(***************************************************************************)

\* RESUME_TX of address a is on its way to a thread that waits with socket s.
Resuming(s, a) ==
  \/ \E w \in Seq(Socks) : Present(Notify(w, a)) /\ \E k \in DOMAIN w : w[k] = s
  \/ Present(At2("resume", s, a)) \/ Present(Unblock(s, {"out"}, a))

\* A thread that waits in qsendto without a signal
Writers ==
  \A u \in Threads : \A i \in DOMAIN stack[u] :
    LET f == stack[u][i]
    IN f.op = "sendwait" /\ ~signal[u] /\ Rx(f.s) => Queued(f.s, f.a) \/ Resuming(f.s, f.a)

\* When the queue of a record is emptied, its waiters are about to be called.
LEMMA QueuedKept ==
  ASSUME SockInv, NEW t \in Threads, NEW q \in Seq(Frame), Step(t, q), NEW s \in Socks, NEW a \in Addrs, Queued(s, a)
  PROVE  Queued(s, a)' \/ Resuming(s, a)'
  <1>0. /\ TypeOK /\ StackType /\ Calm(t) /\ Goto(t, q) /\ Moves(t, q)
        /\ bucket \in [Addrs -> 0..Quota] /\ queue \in [Addrs -> Seq(Socks)] /\ queue[a] \in Seq(Socks)
    BY StepFacts DEF TypeOK
  <1>1. ASSUME bucket'[a] = bucket[a], queue'[a] = queue[a] PROVE Queued(s, a)'
    BY <1>1 DEF Queued
  <1>2. ASSUME NEW f, q = <<Notify(queue[a], a)>> \/ q = <<f, Notify(queue[a], a)>> PROVE Resuming(s, a)'
    <2>1. PICK w \in Seq(Socks) : w = queue[a]
      BY <1>0
    <2>2. q = <<Notify(w, a)>> \/ q = <<f, Notify(w, a)>>
      BY <1>2, <2>1
    <2>3. Present(Notify(w, a))'
      BY <1>0, <2>2, Entered
    <2>4. \E k \in DOMAIN w : w[k] = s
      BY <2>1 DEF Queued
    <2>5. QED
      BY <2>3, <2>4 DEF Resuming
  <1>3. CASE Op(t) \notin {"none", "resumetx", "cleanup", "send", "trysend"}
    BY <1>0, <1>1, <1>3 DEF Calm
  <1>4. CASE Op(t) \in {"resumetx", "cleanup"}
    <2>1. /\ ResumeTx(t) /\ Top(t).s \in Socks
          /\ \E f : q = <<Notify(queue[Top(t).s], Top(t).s)>> \/ q = <<f, Notify(queue[Top(t).s], Top(t).s)>>
      BY <1>0, <1>4, DoesResumeTx, DoesCleanup
    <2>2. CASE a = Top(t).s
      BY <1>2, <2>1, <2>2
    <2>3. CASE a # Top(t).s
      <3>1. bucket'[a] = bucket[a] /\ queue'[a] = queue[a]
        BY <1>0, <2>1, <2>3 DEF ResumeTx, Resume
      <3>2. QED
        BY <1>1, <3>1
    <2>4. QED
      BY <2>2, <2>3
  <1>5. CASE Op(t) \in {"send", "trysend"}
    <2> DEFINE b == Top(t).a
    <2>1. \/ bucket' = bucket /\ queue' = queue
          \/ TokenLeft(b) /\ b \in Addrs /\ bucket' = [bucket EXCEPT ![b] = @ + 1] /\ queue' = queue
          \/ Busy(Top(t).s, b) /\ b \in Addrs /\ Top(t).s \in Socks /\ bucket' = bucket
      BY <1>0, <1>5, DoesSend
    <2> HIDE DEF b
    <2>2. CASE bucket' = bucket /\ queue' = queue
      BY <1>1, <2>2
    <2>3. CASE TokenLeft(b) /\ b \in Addrs /\ bucket' = [bucket EXCEPT ![b] = @ + 1] /\ queue' = queue
      <3>1. b # a
        BY <1>0, <2>3, SocketAssumption DEF TokenLeft, Queued
      <3>2. bucket'[a] = bucket[a]
        BY <1>0, <2>3, <3>1
      <3>3. QED
        BY <1>1, <2>3, <3>2
    <2>4. CASE Busy(Top(t).s, b) /\ b \in Addrs /\ Top(t).s \in Socks /\ bucket' = bucket
      <3>1. queue'[a] = queue[a] \/ queue'[a] = Append(queue[a], Top(t).s)
        BY <1>0, <2>4 DEF Busy
      <3>2. PICK k \in DOMAIN queue[a] : queue[a][k] = s
        BY DEF Queued
      <3>0. \A w \in Seq(Socks) : \A x \in Socks : \A j \in DOMAIN w : j \in DOMAIN Append(w, x) /\ Append(w, x)[j] = w[j]
        OBVIOUS
      <3>3. k \in DOMAIN queue'[a] /\ queue'[a][k] = s
        BY <1>0, <2>4, <3>0, <3>1, <3>2
      <3>4. QED
        BY <2>4, <3>3 DEF Queued
    <2>5. QED
      BY <2>1, <2>2, <2>3, <2>4
  <1>6. CASE Op(t) = "none"
    <2>1. CASE \E p \in Peers : (PeerConfirms(p) \/ PeerGone(p)) /\ \E f : q = <<Notify(queue[p], p)>> \/ q = <<f, Notify(queue[p], p)>>
      <3>1. PICK p \in Peers : (PeerConfirms(p) \/ PeerGone(p)) /\ \E f : q = <<Notify(queue[p], p)>> \/ q = <<f, Notify(queue[p], p)>>
        BY <2>1
      <3>2. CASE p = a
        BY <1>2, <3>1, <3>2
      <3>3. CASE p # a
        <4>1. bucket'[a] = bucket[a] /\ queue'[a] = queue[a]
          BY <1>0, <3>1, <3>3 DEF PeerConfirms, PeerGone, Resume
        <4>2. QED
          BY <1>1, <4>1
      <3>4. QED
        BY <3>2, <3>3
    <2>2. ASSUME NEW r \in Socks, Call(t, r), ~Open(t, r) PROVE bucket' = bucket /\ queue' = queue
      BY <1>0, <2>2, CallEffects DEF router, flow
    <2>3. CASE bucket' = bucket /\ queue' = queue
      BY <1>1, <2>3
    <2>4. QED
      BY <1>0, <1>6, <2>1, <2>2, <2>3, BeginCases DEF Open, BeginPoll, Arrive, router, flow
  <1>7. QED
    BY <1>3, <1>4, <1>5, <1>6

\* RESUME_TX goes its way, until unblock_event is called with it.
LEMMA ResumingKept ==
  ASSUME SockInv, NEW t \in Threads, NEW q \in Seq(Frame), Step(t, q), NEW s \in Socks, NEW a \in Addrs, Resuming(s, a),
         port[s] = "open", Rx(s)
  PROVE  \/ Resuming(s, a)'
         \/ stack[t] # <<>> /\ Top(t) = Unblock(s, {"out"}, a)
  <1>0. StackType /\ Goto(t, q) /\ TypeOK
    BY StepFacts
  <1>1. ASSUME NEW w \in Seq(Socks), Present(Notify(w, a)), NEW k \in DOMAIN w, w[k] = s
        PROVE  Resuming(s, a)'
    <2>1. CASE stack[t] # <<>> => Top(t) # Notify(w, a)
      <3>1. Present(Notify(w, a))'
        BY <1>0, <1>1, <2>1, PresentKept
      <3>2. QED
        BY <1>1, <3>1 DEF Resuming
    <2>2. CASE stack[t] # <<>> /\ Top(t) = Notify(w, a)
      <3>0. Op(t) = "notify" /\ Top(t).q = w /\ Top(t).a = a
        BY <2>2 DEF Op, Notify
      <3>1. /\ w # <<>> /\ Tail(w) \in Seq(Socks)
            /\ q = IF port[Head(w)] = "open" THEN <<Notify(Tail(w), a), Unlock(Head(w)), At2("resume", Head(w), a)>>
                   ELSE <<Notify(Tail(w), a)>>
        BY <1>0, <1>1, <3>0, DoesNotify
      <3>2. CASE Head(w) = s
        <4>1. q = <<Notify(Tail(w), a), Unlock(s), At2("resume", s, a)>>
          BY <3>1, <3>2
        <4>2. Present(At2("resume", s, a))'
          BY <1>0, <4>1, Entered
        <4>3. QED
          BY <4>2 DEF Resuming
      <3>3. CASE Head(w) # s
        <4>1. PICK v \in Seq(Socks) : v = Tail(w)
          BY <3>1
        <4>2. k - 1 \in DOMAIN v /\ v[k - 1] = s
          BY <1>1, <3>1, <3>3, <4>1
        <4>3. \/ q = <<Notify(v, a)>>
              \/ q = <<Notify(v, a), Unlock(Head(w)), At2("resume", Head(w), a)>>
          BY <3>1, <4>1
        <4>4. Present(Notify(v, a))'
          BY <1>0, <4>3, Entered
        <4>5. QED
          BY <4>2, <4>4 DEF Resuming
      <3>4. QED
        BY <3>2, <3>3
    <2>3. QED
      BY <2>1, <2>2
  <1>2. CASE Present(At2("resume", s, a))
    <2>1. CASE stack[t] # <<>> => Top(t) # At2("resume", s, a)
      <3>1. Present(At2("resume", s, a))'
        BY <1>0, <1>2, <2>1, PresentKept
      <3>2. QED
        BY <3>1 DEF Resuming
    <2>2. CASE stack[t] # <<>> /\ Top(t) = At2("resume", s, a)
      <3>0. Op(t) = "resume" /\ Top(t).s = s /\ Top(t).a = a
        BY <2>2 DEF Op, At2
      <3>1. q = <<Unblock(s, {"out"}, a)>>
        BY <1>0, <3>0, DoesResume
      <3>2. Present(Unblock(s, {"out"}, a))'
        BY <1>0, <3>1, Entered
      <3>3. QED
        BY <3>2 DEF Resuming
    <2>3. QED
      BY <2>1, <2>2
  <1>3. CASE Present(Unblock(s, {"out"}, a))
    <2>1. ASSUME stack[t] # <<>> => Top(t) # Unblock(s, {"out"}, a) PROVE Resuming(s, a)'
      <3>1. Present(Unblock(s, {"out"}, a))'
        BY <1>0, <1>3, <2>1, PresentKept
      <3>2. QED
        BY <3>1 DEF Resuming
    <2>2. QED
      BY <2>1
  <1>4. QED
    BY <1>1, <1>2, <1>3 DEF Resuming

\* A step keeps a waiting writer in the queue of a full bucket, or a callback under
\* way for it.
LEMMA WritersStep ==
  ASSUME Polite, NoRevival, SockInv, Wants, Handles, Writers, NEW t \in Threads, NEW q \in Seq(Frame), Step(t, q)
  PROVE  Writers'
  <1>0. TypeOK /\ StackType /\ Shape /\ Waiters /\ Goto(t, q) /\ Moves(t, q) /\ Calm(t) /\ Ports
    BY StepFacts DEF SockInv
  <1> SUFFICES ASSUME NEW u \in Threads, NEW i \in DOMAIN stack'[u], stack'[u][i].op = "sendwait",
                      ~signal'[u], Rx(stack[u][i].s)'
               PROVE  (Queued(stack[u][i].s, stack[u][i].a) \/ Resuming(stack[u][i].s, stack[u][i].a))'
    BY DEF Writers
  <1>1. ASSUME NEW f \in Frame, i \in DOMAIN stack[u], stack[u][i] = f, stack'[u][i] = f, ~signal[u]
        PROVE  (Queued(f.s, f.a) \/ Resuming(f.s, f.a))'
    <2>1. PICK s \in Socks : s = f.s
      BY <1>1, FieldTypes
    <2>2. PICK a \in Addrs : a = f.a
      BY <1>1, FieldTypes
    <2>3. /\ Wanted(u, f) /\ OkAt(stack[u], i) /\ Entry(f, waiter[u])
      BY <1>0, <1>1 DEF Wants, Shape, Waiters
    <2>4. May(u, "send", s) /\ stack[u][1] = Put(s) /\ i = 3 /\ waiter[u] = [f |-> {s}, ev |-> {"out"}, a |-> a]
      BY <1>1, <2>1, <2>2, <2>3 DEF Wanted, OkAt, Entry
    <2>5. u \in Users
      BY <2>4 DEF May
    <2>6. 1 \in DOMAIN stack[u]
      BY <1>0, <1>1, <2>4 DEF StackType
    <2>7. sock[s].listed
      BY <2>4, <2>6, Alive DEF Present
    <2>8. port[s] # "none"
      BY <1>0, <2>7 DEF Ports, PortOk
    <2>9. Rx(s) /\ port[s] = "open"
      <3>1. ~Open(t, s)
        BY <2>8 DEF Open
      <3>2. Rx(s)'
        BY <1>1, <2>1
      <3>3. \E v \in Users : May(v, "send", s) \/ May(v, "trysend", s)
        BY <2>4, <2>5
      <3>4. QED
        BY <3>1, <3>2, <3>3, RxBefore
    <2>10. Queued(s, a) \/ Resuming(s, a)
      BY <1>1, <2>1, <2>2, <2>9 DEF Writers
    <2>11. ~(stack[t] # <<>> /\ Top(t) = Unblock(s, {"out"}, a))
      <3>1. waiter[u] # Null
        <4>1. waiter[u] \in Entries
          BY <2>4 DEF Entries
        <4>2. QED
          BY <4>1, SocketAssumption
      <3>2. u \in Matches(s, {"out"}, a)
        BY <2>4, <3>1 DEF Matches
      <3>3. QED
        BY <3>2, Signalled
    <2>12. Queued(s, a)' \/ Resuming(s, a)'
      BY <2>9, <2>10, <2>11, QueuedKept, ResumingKept
    <2>13. QED
      BY <2>1, <2>2, <2>12
  <1>2. ASSUME i \in DOMAIN stack[u], stack'[u][i] = stack[u][i], ~signal[u]
        PROVE  (Queued(stack[u][i].s, stack[u][i].a) \/ Resuming(stack[u][i].s, stack[u][i].a))'
    <2>1. PICK f \in Frame : f = stack[u][i]
      BY <1>0, <1>2 DEF StackType
    <2>2. QED
      BY <1>1, <1>2, <2>1
  <1>3. CASE i \in DOMAIN stack[u] /\ stack'[u][i] = stack[u][i] /\ u # t
    BY <1>2, <1>3, SignalKept
  <1>4. CASE u = t /\ i \in 1..Len(Below(t)) /\ i \in DOMAIN stack[t] /\ stack'[t][i] = stack[t][i]
    BY <1>2, <1>4, SignalKept, BelowLooks
  <1>5. ASSUME u = t, NEW k \in DOMAIN q, stack'[t][i] = q[k]
        PROVE  (Queued(stack[u][i].s, stack[u][i].a) \/ Resuming(stack[u][i].s, stack[u][i].a))'
    <2>1. q[k].op = "sendwait"
      BY <1>5
    <2>2. stack[t] # <<>> /\ Op(t) = "send"
      <3>1. stack[t] # <<>>
        BY <1>0, <2>1, BeginsOps DEF Moves
      <3>2. QED
        BY <1>0, <2>1, <3>1, FollowsOps DEF Moves, Op
    <2>3. PICK s \in Socks : s = Top(t).s
      BY <1>0, <2>2, DoesSend
    <2>4. PICK a \in Addrs : a = Top(t).a
      BY <1>0, <2>2, DoesSend
    <2>5. \/ q = <<>>
          \/ q = <<Unlock(a), RxCb(a, Message(s, bucket[a] + 1 = Quota))>>
          \/ ~TokenLeft(a) /\ Busy(s, a) /\ q = <<At2("sendwait", s, a)>> /\ bucket' = bucket
      BY <1>0, <2>2, <2>3, <2>4, DoesSend
    <2>6. q # <<Unlock(a), RxCb(a, Message(s, bucket[a] + 1 = Quota))>>
      <3> DEFINE m == Message(s, bucket[a] + 1 = Quota)
      <3> HIDE DEF m
      <3>1. q = <<Unlock(a), RxCb(a, m)>> => q[k] = Unlock(a) \/ q[k] = RxCb(a, m)
        OBVIOUS
      <3>2. q # <<Unlock(a), RxCb(a, m)>>
        BY <2>1, <3>1 DEF Unlock, RxCb, At1
      <3>3. QED
        BY <3>2 DEF m
    <2>7. /\ ~TokenLeft(a) /\ Busy(s, a) /\ bucket' = bucket
          /\ q[k] = At2("sendwait", s, a)
      BY <2>5, <2>6
    <2>8. bucket'[a] = Quota
      BY <1>0, <2>7, SocketAssumption DEF TypeOK, TokenLeft
    <2>9. \E j \in DOMAIN queue'[a] : queue'[a][j] = s
      <3>1. queue \in [Addrs -> Seq(Socks)] /\ queue[a] \in Seq(Socks)
        BY <1>0 DEF TypeOK
      <3>2. queue'[a] = IF \E j \in DOMAIN queue[a] : queue[a][j] = s THEN queue[a] ELSE Append(queue[a], s)
        BY <2>7, <3>1 DEF Busy
      <3>3. \A w \in Seq(Socks) : \E j \in DOMAIN Append(w, s) : Append(w, s)[j] = s
        <4> TAKE w \in Seq(Socks)
        <4>1. Len(w) + 1 \in DOMAIN Append(w, s) /\ Append(w, s)[Len(w) + 1] = s
          OBVIOUS
        <4>2. QED
          BY <4>1
      <3>4. QED
        BY <3>1, <3>2, <3>3
    <2>10. Queued(s, a)'
      BY <2>8, <2>9 DEF Queued
    <2>11. stack'[u][i].s = s /\ stack'[u][i].a = a
      BY <1>5, <2>7 DEF At2
    <2>12. QED
      BY <2>10, <2>11
  <1>6. QED
    BY <1>3, <1>4, <1>5, FrameFrom

\* Nobody writes at the start.
LEMMA WritersInit == Init => Writers
  BY DEF Init, Writers

\* Every step keeps it.
LEMMA WritersNext ==
  Polite /\ NoRevival /\ SockInv /\ Wants /\ Handles /\ Writers /\ [Next]_vars => Writers'
  <1> SUFFICES ASSUME Polite, NoRevival, SockInv, Wants, Handles, Writers, [Next]_vars PROVE Writers'
    OBVIOUS
  <1>1. CASE UNCHANGED vars
    <2>1. stack' = stack /\ signal' = signal /\ sock' = sock /\ bucket' = bucket /\ queue' = queue
      BY <1>1 DEF vars, sockets, waiting, router, flow
    <2>2. \A s, a : (Queued(s, a)' <=> Queued(s, a)) /\ (Resuming(s, a)' <=> Resuming(s, a)) /\ (Rx(s)' <=> Rx(s))
      BY <2>1 DEF Queued, Resuming, Present, Rx
    <2>3. QED
      BY <2>1, <2>2 DEF Writers
  <1>2. CASE Next
    <2>1. PICK t \in Threads : \E q \in Seq(Frame) : Step(t, q)
      BY <1>2, NextStep
    <2>2. QED
      BY <2>1, WritersStep
  <1>3. QED
    BY <1>1, <1>2

\* A RESUME_TX that the proofs follow is one that EagainIsReported asks for.
LEMMA ResumingIs ==
  ASSUME NEW s \in Socks, NEW a, Resuming(s, a)
  PROVE  ResumeUnderWay(s, a)
  <1>1. ASSUME NEW u \in Threads, NEW i \in DOMAIN stack[u],
               \/ \E w \in Seq(Socks) : stack[u][i] = Notify(w, a) /\ \E k \in DOMAIN w : w[k] = s
               \/ stack[u][i] = At2("resume", s, a) \/ stack[u][i] = Unblock(s, {"out"}, a)
        PROVE  ResumeUnderWay(s, a)
    <2>1. <<u, i>> \in Places
      BY DEF Places
    <2>2. CASE \E w \in Seq(Socks) : stack[u][i] = Notify(w, a) /\ \E k \in DOMAIN w : w[k] = s
      <3>1. stack[u][i].op = "notify" /\ stack[u][i].a = a /\ \E k \in DOMAIN stack[u][i].q : stack[u][i].q[k] = s
        BY <2>2 DEF Notify
      <3>2. QED
        BY <2>1, <3>1 DEF ResumeUnderWay
    <2>3. CASE stack[u][i] = At2("resume", s, a) \/ stack[u][i] = Unblock(s, {"out"}, a)
      <3>1. stack[u][i].op \in {"resume", "unblock"} /\ stack[u][i].s = s /\ stack[u][i].a = a
        BY <2>3 DEF At2, Unblock
      <3>2. <<u, i>> \in Frames({"resume", "unblock"}, s)
        BY <2>1, <3>1 DEF Frames
      <3>3. QED
        BY <3>1, <3>2 DEF ResumeUnderWay
    <2>4. QED
      BY <1>1, <2>2, <2>3
  <1>2. QED
    BY <1>1 DEF Resuming, Present

\* No wake-up of a writer is lost, in an application that closes a socket when
\* nobody is in a call on it: who waits for a destination is in its queue, or
\* the RESUME_TX that will signal it is on its way, in the queue that is being
\* notified, in the callback or in unblock_event (ipc_router_core_send,
\* ipc_router_notify_tx_resume, sock_event_cb).
THEOREM NoWriterForgotten ==
  ASSUME Polite, NoRevival
  PROVE  Spec => []WriterHasWaker
  <1>1. SockInv /\ Writers => WriterHasWaker
    <2> SUFFICES ASSUME SockInv, Writers, NEW t \in Users, At(t, "sendwait"), ~signal[t], Rx(Top(t).s)
                 PROVE  Queued(Top(t).s, Top(t).a) \/ ResumeUnderWay(Top(t).s, Top(t).a)
      BY DEF WriterHasWaker
    <2>1. t \in Threads /\ StackType /\ Shape
      BY DEF Threads, SockInv, TypeOK, StackType
    <2>2. stack[t] # <<>> /\ Top(t) \in Frame /\ Top(t).op = "sendwait"
      BY <2>1, TopType
    <2>3. Len(stack[t]) \in DOMAIN stack[t] /\ stack[t][Len(stack[t])] = Top(t)
      BY <2>1, <2>2, TopAt
    <2>4. Queued(Top(t).s, Top(t).a) \/ Resuming(Top(t).s, Top(t).a)
      BY <2>1, <2>2, <2>3 DEF Writers
    <2>5. Top(t).s \in Socks
      BY <2>2, FieldTypes
    <2>6. QED
      BY <2>4, <2>5, ResumingIs
  <1>2. Polite /\ NoRevival /\ SockInv /\ Wants /\ Handles /\ Writers /\ [Next]_vars => Writers'
    BY WritersNext
  <1>3. QED
    BY <1>1, <1>2, SockInvariant, WantsInvariant, HandlesInvariant, WritersInit, PTL DEF Spec

(***************************************************************************)
(* Calls that were told QEAGAIN                                            *)
(***************************************************************************)

\* Nobody polls a socket for "out", or waits for an address with it, that is
\* sent from to the address without waiting: the event would be his.
NoMixing ==
  \A ap \in Apps : \A s \in Socks : \A a \in Addrs :
    (/\ \E u \in Users : <<"trysend", s>> \in ap.calls[u]
     /\ a \in ap.to["trysend"] \/ (Null \in ap.to["trysend"] /\ a \in ap.partners)) =>
    \A v \in Users :
      /\ \A ev \in ap.events : "out" \in ev => <<"poll", s>> \notin ap.calls[v]
      /\ <<"send", s>> \in ap.calls[v] =>
           a \notin ap.to["send"] /\ (Null \in ap.to["send"] => a \notin ap.partners)

Tried(s, a) == (\E u \in Users : May(u, "trysend", s)) /\ MayReach("trysend", a)

\* The event for address a is in the queue, or on its way there.
Reported(s, a) ==
  \/ Queued(s, a) \/ Resuming(s, a) \/ Present(Add(s, Resumed(a)))
  \/ \E i \in DOMAIN rxq[s] : rxq[s][i] = Resumed(a)

ToldOk(s) ==
  /\ port[s] = "none" => told[s] = {}
  /\ \A a \in told[s] : /\ Tried(s, a)
                        /\ port[s] = "open" /\ Rx(s) /\ sock[s].conn # Reset => Reported(s, a)

Tells == \A s \in Socks : ToldOk(s)

\* A socket is told to come back only by a send that found no token, and is in the
\* queue then.
LEMMA ToldAfter ==
  ASSUME SockInv, NEW t \in Threads, NEW q \in Seq(Frame), Step(t, q), NEW s \in Socks
  PROVE  \/ told'[s] \subseteq told[s]
         \/ /\ Op(t) = "trysend" /\ Top(t).s = s /\ Top(t).a \in Addrs
            /\ told'[s] = told[s] \cup {Top(t).a}
            /\ ~TokenLeft(Top(t).a) /\ Busy(s, Top(t).a) /\ bucket' = bucket
  <1>0. TypeOK /\ StackType /\ Calm(t) /\ Goto(t, q) /\ told \in [Socks -> SUBSET Addrs]
    BY StepFacts DEF TypeOK
  <1>1. CASE Op(t) \notin {"readdone", "send", "trysend"}
    BY <1>0, <1>1 DEF Calm
  <1>2. CASE Op(t) = "readdone"
    <2>1. ReadDone(t)
      BY <1>0, <1>2, DoesReadDone
    <2>2. told' = told \/ \E r, x : told' = [told EXCEPT ![r] = @ \ {x}]
      BY <2>1 DEF ReadDone
    <2>3. QED
      BY <1>0, <2>2
  <1>3. CASE Op(t) \in {"send", "trysend"}
    <2> DEFINE r == Top(t).s
               b == Top(t).a
    <2>1. /\ r \in Socks /\ b \in Addrs
          /\ \/ told' = told
             \/ told' = [told EXCEPT ![r] = @ \ {b}]
             \/ Op(t) = "trysend" /\ ~TokenLeft(b) /\ Busy(r, b) /\ bucket' = bucket /\ told' = [told EXCEPT ![r] = @ \cup {b}]
      BY <1>0, <1>3, DoesSend
    <2> HIDE DEF r, b
    <2>2. \/ told'[s] \subseteq told[s]
          \/ /\ Op(t) = "trysend" /\ r = s /\ b \in Addrs /\ told'[s] = told[s] \cup {b}
             /\ ~TokenLeft(b) /\ Busy(s, b) /\ bucket' = bucket
      BY <1>0, <2>1
    <2>3. QED
      BY <2>2 DEF r, b
  <1>4. QED
    BY <1>1, <1>2, <1>3

\* A sender without a token is in the queue.
LEMMA BusyQueues ==
  ASSUME TypeOK, NEW s \in Socks, NEW a \in Addrs, ~TokenLeft(a), Busy(s, a), bucket' = bucket
  PROVE  Queued(s, a)'
  <1>1. bucket'[a] = Quota
    BY SocketAssumption DEF TypeOK, TokenLeft
  <1>2. queue \in [Addrs -> Seq(Socks)] /\ queue[a] \in Seq(Socks)
    BY DEF TypeOK
  <1>3. queue'[a] = IF \E j \in DOMAIN queue[a] : queue[a][j] = s THEN queue[a] ELSE Append(queue[a], s)
    BY <1>2 DEF Busy
  <1>4. \A w \in Seq(Socks) : \E j \in DOMAIN Append(w, s) : Append(w, s)[j] = s
    <2> TAKE w \in Seq(Socks)
    <2>1. Len(w) + 1 \in DOMAIN Append(w, s) /\ Append(w, s)[Len(w) + 1] = s
      OBVIOUS
    <2>2. QED
      BY <2>1
  <1>5. \E j \in DOMAIN queue'[a] : queue'[a][j] = s
    BY <1>2, <1>3, <1>4
  <1>6. QED
    BY <1>1, <1>5 DEF Queued

\* An empty packet in the queue of a socket that receives stays until it is
\* read, and then it was reported.
LEMMA EmptyKept ==
  ASSUME SockInv, NEW t \in Threads, NEW q \in Seq(Frame), Step(t, q), NEW s \in Socks, NEW a \in Addrs,
         NEW i \in DOMAIN rxq[s], rxq[s][i] = Resumed(a), port[s] = "open", sock[s].conn # Reset, ConfirmOk(s)
  PROVE  \/ \E j \in DOMAIN rxq'[s] : rxq'[s][j] = Resumed(a)
         \/ a \notin told'[s]
  <1>0. TypeOK /\ StackType /\ Calm(t) /\ Goto(t, q) /\ rxq \in [Socks -> Seq(Packet)] /\ rxq[s] \in Seq(Packet)
    BY StepFacts DEF TypeOK
  <1> DEFINE m == Resumed(a)
  <1>1. m.data = FALSE /\ m.from = a
    BY DEF Resumed
  <1>2. rxq[s][i] = m /\ i \in 1..Len(rxq[s]) /\ Len(rxq[s]) \in Nat
    BY <1>0
  <1> HIDE DEF m
  <1>3. CASE rxq'[s] = rxq[s]
    BY <1>2, <1>3 DEF m
  <1>4. CASE Op(t) = "add" /\ Top(t).s = s
    <2>1. Top(t).m \in Packet /\ Enqueue(t)
      BY <1>0, <1>4, DoesAdd
    <2>2. rxq'[s] = Append(rxq[s], Top(t).m)
      BY <1>0, <1>4, <2>1 DEF Enqueue
    <2>3. i \in DOMAIN rxq'[s] /\ rxq'[s][i] = m
      BY <1>0, <1>2, <2>1, <2>2
    <2>4. QED
      BY <2>3 DEF m
  <1>5. CASE Op(t) = "readdone" /\ Top(t).s = s
    <2>1. /\ ReadDone(t) /\ rxq'[s] = Tail(rxq[s])
      BY <1>0, <1>5, DoesReadDone DEF ReadDone
    <2>2. CASE i = 1
      <3>1. Head(rxq[s]) = m
        BY <1>0, <1>2, <2>2
      <3>2. told' = [told EXCEPT ![s] = @ \ {m.from}]
        BY <1>1, <1>5, <2>1, <3>1 DEF ReadDone
      <3>3. told \in [Socks -> SUBSET Addrs]
        BY <1>0 DEF TypeOK
      <3>4. QED
        BY <1>1, <3>2, <3>3
    <2>3. CASE i # 1
      <3>1. i - 1 \in DOMAIN Tail(rxq[s]) /\ Tail(rxq[s])[i - 1] = m
        BY <1>0, <1>2, <2>3
      <3>2. QED
        BY <2>1, <3>1 DEF m
    <2>4. QED
      BY <2>2, <2>3
  <1>6. CASE Op(t) \in {"add", "readdone"} /\ Top(t).s # s
    <2>1. Enqueue(t) \/ ReadDone(t)
      BY <1>0, <1>6, DoesAdd, DoesReadDone
    <2>2. rxq'[s] = rxq[s]
      BY <1>0, <1>6, <2>1 DEF Enqueue, ReadDone
    <2>3. QED
      BY <1>3, <2>2
  <1>7. CASE Op(t) = "put"
    <2>1. CASE Top(t).s = s
      BY <1>3, <1>7, <2>1, OpenStays
    <2>2. CASE Top(t).s # s
      <3>1. PutSock(t)
        BY <1>0, <1>7, DoesPut
      <3>2. rxq'[s] = rxq[s]
        BY <1>0, <2>2, <3>1 DEF PutSock
      <3>3. QED
        BY <1>3, <3>2
    <2>3. QED
      BY <2>1, <2>2
  <1>8. CASE Op(t) = "flush"
    <2>1. Flush(t) /\ Top(t) \in Frame /\ Top(t).op = "flush" /\ Present(Top(t))
      BY <1>0, <1>8, DoesFlush, StepFacts
    <2>2. CASE Top(t).s = s
      <3>1. Top(t) = At1("flush", s)
        BY <2>1, <2>2, FrameIs
      <3>2. QED
        BY <2>1, <3>1 DEF ConfirmOk
    <2>3. CASE Top(t).s # s
      <3>1. rxq'[s] = rxq[s]
        BY <1>0, <2>1, <2>3 DEF Flush
      <3>2. QED
        BY <1>3, <3>1
    <2>4. QED
      BY <2>2, <2>3
  <1>9. CASE Op(t) \notin {"put", "add", "flush", "readdone"}
    BY <1>0, <1>3, <1>9 DEF Calm
  <1>10. QED
    BY <1>4, <1>5, <1>6, <1>7, <1>8, <1>9

\* Nobody is there to take the event from the one who was told QEAGAIN.
LEMMA NobodyTakes ==
  ASSUME SockInv, Wants, NoMixing, NEW s \in Socks, NEW a \in Addrs, Tried(s, a)
  PROVE  Matches(s, {"out"}, a) = {}
  <1> SUFFICES ASSUME NEW u \in Threads, u \in Matches(s, {"out"}, a) PROVE FALSE
    BY DEF Matches
  <1>0. app \in Apps
    BY DEF SockInv, TypeOK
  <1>1. waiter[u] # Null /\ s \in waiter[u].f /\ "out" \in waiter[u].ev /\ waiter[u].a \in {Null, a}
    BY AddrTypes DEF Matches
  <1>2. \A v \in Users :
          /\ \A ev \in app.events : "out" \in ev => <<"poll", s>> \notin app.calls[v]
          /\ <<"send", s>> \in app.calls[v] =>
               a \notin app.to["send"] /\ (Null \in app.to["send"] => a \notin app.partners)
    BY <1>0 DEF NoMixing, Tried, May, MayReach
  <1>3. WantedEntry(u, waiter[u])
    BY DEF Wants
  <1>4. CASE waiter[u].ev = {"in"}
    BY <1>1, <1>4
  <1>5. CASE waiter[u].ev \in app.events /\ \A r \in waiter[u].f : May(u, "poll", r)
    BY <1>1, <1>2, <1>5 DEF May
  <1>6. CASE waiter[u].a # Null /\ \E r \in Socks : waiter[u].f = {r} /\ May(u, "send", r) /\ MayReach("send", waiter[u].a)
    BY <1>1, <1>2, <1>6 DEF May, MayReach
  <1>7. QED
    BY <1>1, <1>3, <1>4, <1>5, <1>6 DEF WantedEntry

\* What reports to a socket, reports on.
LEMMA ReportedKept ==
  ASSUME SockInv, Wants, NoMixing, NEW t \in Threads, NEW q \in Seq(Frame), Step(t, q), NEW s \in Socks, NEW a \in Addrs,
         Tried(s, a), ConfirmOk(s), port[s] = "open", Rx(s), sock[s].conn # Reset, Reported(s, a)
  PROVE  Reported(s, a)' \/ a \notin told'[s]
  <1>0. StackType /\ Goto(t, q) /\ TypeOK
    BY StepFacts
  <1>1. CASE Queued(s, a)
    BY <1>1, QueuedKept DEF Reported
  <1>2. CASE Resuming(s, a)
    <2>1. CASE stack[t] # <<>> /\ Top(t) = Unblock(s, {"out"}, a)
      <3>1. Op(t) = "unblock" /\ Top(t).s = s /\ Top(t).ev = {"out"} /\ Top(t).a = a
        BY <2>1 DEF Op, Unblock
      <3>2. Matches(s, {"out"}, a) = {}
        BY NobodyTakes
      <3>3. q = <<Add(s, Resumed(a))>>
        BY <1>0, <3>1, <3>2, DoesUnblock, AddrTypes
      <3>4. Present(Add(s, Resumed(a)))'
        <4> DEFINE m == Resumed(a)
        <4> HIDE DEF m
        <4>1. q = <<Add(s, m)>>
          BY <3>3 DEF m
        <4>2. Present(Add(s, m))'
          BY <1>0, <4>1, Entered
        <4>3. QED
          BY <4>2 DEF m
      <3>5. QED
        BY <3>4 DEF Reported
    <2>2. QED
      BY <1>2, <2>1, ResumingKept DEF Reported
  <1>3. CASE Present(Add(s, Resumed(a)))
    <2> DEFINE m == Resumed(a)
    <2>1. m \in Packet
      BY PacketTypes
    <2> HIDE DEF m
    <2>2. CASE stack[t] # <<>> /\ Top(t) = Add(s, m)
      <3>1. Op(t) = "add" /\ Top(t).s = s /\ Top(t).m = m
        BY <2>2 DEF Op, Add
      <3>2. Enqueue(t)
        BY <1>0, <3>1, DoesAdd
      <3>3. rxq'[s] = Append(rxq[s], m) /\ rxq[s] \in Seq(Packet)
        BY <1>0, <3>1, <3>2 DEF Enqueue, TypeOK
      <3>4. Len(rxq[s]) + 1 \in DOMAIN rxq'[s] /\ rxq'[s][Len(rxq[s]) + 1] = m
        BY <2>1, <3>3
      <3>5. QED
        BY <3>4 DEF Reported, m
    <2>3. CASE ~(stack[t] # <<>> /\ Top(t) = Add(s, m))
      <3>1. Present(Add(s, m))
        BY <1>3 DEF m
      <3>2. Present(Add(s, m))'
        BY <1>0, <2>3, <3>1, PresentKept
      <3>3. QED
        BY <3>2 DEF Reported, m
    <2>4. QED
      BY <2>2, <2>3
  <1>4. CASE \E i \in DOMAIN rxq[s] : rxq[s][i] = Resumed(a)
    BY <1>4, EmptyKept DEF Reported
  <1>5. QED
    BY <1>1, <1>2, <1>3, <1>4 DEF Reported

\* A step keeps the RESUME_TX of a socket that was told to come back on its way.
LEMMA ToldStep ==
  ASSUME Polite, NoRevival, NoMixing, SockInv, Wants, Handles, NEW t \in Threads, NEW q \in Seq(Frame), Step(t, q),
         NEW s \in Socks, ConfirmOk(s), ToldOk(s)
  PROVE  ToldOk(s)'
  <1>0. TypeOK /\ StackType /\ Shape /\ Goto(t, q) /\ Calm(t) /\ Ports /\ app' = app /\ told[s] \subseteq Addrs
    BY StepFacts DEF SockInv, TypeOK, Calm
  <1>1. CASE told'[s] \subseteq told[s]
    <2>1. port'[s] = "none" => told'[s] = {}
      BY <1>1, PortAfter DEF ToldOk
    <2>2. ASSUME NEW a \in told'[s] PROVE Tried(s, a)'
      <3>1. Tried(s, a)
        BY <1>1, <2>2 DEF ToldOk
      <3>2. QED
        BY <1>0, <3>1 DEF Tried, May, MayReach
    <2>3. ASSUME NEW a \in told'[s], port'[s] = "open", Rx(s)', sock'[s].conn # Reset PROVE Reported(s, a)'
      <3>1. a \in told[s] /\ a \in Addrs /\ Tried(s, a)
        BY <1>0, <1>1, <2>3 DEF ToldOk
      <3>2. port[s] # "none"
        BY <3>1 DEF ToldOk
      <3>3. ~Open(t, s)
        BY <3>2 DEF Open
      <3>4. \E u \in Users : May(u, "send", s) \/ May(u, "trysend", s)
        BY <3>1 DEF Tried
      <3>5. Rx(s) /\ port[s] = "open"
        BY <2>3, <3>3, <3>4, RxBefore
      <3>6. sock[s].conn # Reset
        BY <2>3, ConnAfter, AddrTypes
      <3>7. Reported(s, a)
        BY <3>1, <3>5, <3>6 DEF ToldOk
      <3>8. QED
        BY <2>3, <3>1, <3>5, <3>6, <3>7, ReportedKept
    <2>4. QED
      BY <2>1, <2>2, <2>3 DEF ToldOk
  <1>2. ASSUME NEW b \in Addrs, Op(t) = "trysend", Top(t).s = s, Top(t).a = b, told'[s] = told[s] \cup {b},
               ~TokenLeft(b), Busy(s, b), bucket' = bucket
        PROVE  ToldOk(s)'
    <2>0. port' = port /\ sock' = sock /\ rxq' = rxq
      BY <1>0, <1>2 DEF Calm
    <2>00. stack[t] # <<>> /\ Top(t) \in Frame /\ Top(t).op = "trysend" /\ stack[t][Len(stack[t])] = Top(t)
           /\ Len(stack[t]) \in DOMAIN stack[t] /\ OkAt(stack[t], Len(stack[t]))
      BY <1>0, <1>2, TopOp, TopAt
    <2>1. port[s] # "none"
      <3>1. stack[t][1] = Put(s) /\ Len(stack[t]) = 2
        BY <1>2, <2>00 DEF OkAt
      <3>2. 1 \in DOMAIN stack[t]
        BY <1>0, <3>1 DEF StackType
      <3>3. sock[s].listed
        BY <3>1, <3>2, Alive DEF Present
      <3>4. QED
        BY <1>0, <3>3 DEF Ports, PortOk
    <2>2. Tried(s, b)
      <3>1. Wanted(t, Top(t))
        BY <2>00 DEF Wants
      <3>2. May(t, "trysend", s) /\ MayReach("trysend", b)
        BY <1>2, <2>00, <3>1 DEF Wanted
      <3>3. QED
        BY <3>2 DEF Tried, May
    <2>3. Reported(s, b)'
      BY <1>0, <1>2, BusyQueues DEF Reported
    <2>4. ASSUME NEW a \in told'[s] PROVE Tried(s, a)'
      <3>1. Tried(s, a)
        BY <1>2, <2>2, <2>4 DEF ToldOk
      <3>2. QED
        BY <1>0, <3>1 DEF Tried, May, MayReach
    <2>5. ASSUME NEW a \in told'[s], port'[s] = "open", Rx(s)', sock'[s].conn # Reset PROVE Reported(s, a)'
      <3>1. CASE a = b
        BY <2>3, <3>1
      <3>2. CASE a # b
        <4>1. a \in told[s] /\ a \in Addrs /\ Tried(s, a)
          BY <1>0, <1>2, <2>5, <3>2 DEF ToldOk
        <4>2. port[s] = "open" /\ Rx(s) /\ sock[s].conn # Reset
          BY <2>0, <2>5 DEF Rx
        <4>3. Reported(s, a)
          BY <4>1, <4>2 DEF ToldOk
        <4>4. QED
          BY <2>5, <4>1, <4>2, <4>3, ReportedKept
      <3>3. QED
        BY <3>1, <3>2
    <2>6. QED
      BY <2>0, <2>1, <2>4, <2>5 DEF ToldOk
  <1>3. QED
    BY <1>1, <1>2, ToldAfter

\* No socket was told to come back at the start.
LEMMA TellsInit == Init => Tells
  BY DEF Init, Tells, ToldOk

\* Every step keeps it.
LEMMA TellsNext ==
  Polite /\ NoRevival /\ NoMixing /\ SockInv /\ Wants /\ Handles /\ Confirms /\ Tells /\ [Next]_vars => Tells'
  <1> SUFFICES ASSUME Polite, NoRevival, NoMixing, SockInv, Wants, Handles, Confirms, Tells, [Next]_vars, NEW s \in Socks
               PROVE ToldOk(s)'
    BY DEF Tells
  <1>1. CASE UNCHANGED vars
    <2>1. app' = app /\ stack' = stack /\ sock' = sock /\ rxq' = rxq /\ bucket' = bucket /\ queue' = queue
          /\ port' = port /\ told' = told
      BY <1>1 DEF vars, sockets, router, flow
    <2>2. \A a : (Queued(s, a)' <=> Queued(s, a)) /\ (Resuming(s, a)' <=> Resuming(s, a)) /\ (Rx(s)' <=> Rx(s))
      BY <2>1 DEF Queued, Resuming, Present, Rx
    <2>3. \A a : Reported(s, a)' <=> Reported(s, a)
      BY <2>1, <2>2 DEF Reported, Present
    <2>4. \A a : Tried(s, a)' <=> Tried(s, a)
      BY <2>1 DEF Tried, May, MayReach
    <2>5. ToldOk(s)
      BY DEF Tells
    <2>6. QED
      BY <2>1, <2>2, <2>3, <2>4, <2>5 DEF ToldOk
  <1>2. CASE Next
    <2>1. PICK t \in Threads : \E q \in Seq(Frame) : Step(t, q)
      BY <1>2, NextStep
    <2>2. QED
      BY <2>1, ToldStep DEF Tells, Confirms
  <1>3. QED
    BY <1>1, <1>2

\* QEAGAIN keeps its promise, in an application where nobody waits for the same
\* event in another way: whoever was told to come back for a destination finds,
\* or will find, the empty packet that names it, as long as it receives and has
\* not sent there (qsendto, unblock_event, qrecvfrom).
THEOREM EagainKept ==
  ASSUME Polite, NoRevival, NoMixing
  PROVE  Spec => []EagainIsReported
  <1>1. SockInv /\ Tells => EagainIsReported
    <2> SUFFICES ASSUME SockInv, Tells, NEW s \in Socks, NEW a \in told[s],
                        port[s] = "open", Rx(s), sock[s].conn # Reset
                 PROVE  Queued(s, a) \/ ResumeUnderWay(s, a) \/ \E i \in DOMAIN rxq[s] : rxq[s][i] = Resumed(a)
      BY DEF EagainIsReported
    <2>1. Reported(s, a)
      BY DEF Tells, ToldOk
    <2>2. ASSUME Present(Add(s, Resumed(a))) PROVE ResumeUnderWay(s, a)
      <3> DEFINE m == Resumed(a)
      <3> HIDE DEF m
      <3>0. PICK u \in Threads : \E i \in DOMAIN stack[u] : stack[u][i] = Add(s, m)
        BY <2>2 DEF Present, m
      <3>1. PICK i \in DOMAIN stack[u] : stack[u][i] = Add(s, m)
        BY <3>0
      <3>2. stack[u][i].op = "add" /\ stack[u][i].s = s /\ stack[u][i].m = m
        BY <3>1 DEF Add
      <3>3. <<u, i>> \in Frames({"add"}, s)
        BY <3>1, <3>2 DEF Frames, Places
      <3>4. QED
        BY <3>2, <3>3 DEF ResumeUnderWay, m
    <2>3. QED
      BY <2>1, <2>2, ResumingIs DEF Reported
  <1>2. Polite /\ NoRevival /\ NoMixing /\ SockInv /\ Wants /\ Handles /\ Confirms /\ Tells /\ [Next]_vars => Tells'
    BY TellsNext
  <1>3. QED
    BY <1>1, <1>2, SockInvariant, WantsInvariant, HandlesInvariant, ConfirmsInvariant, TellsInit, PTL DEF Spec

(***************************************************************************)
(* Who sends to whom                                                       *)
(***************************************************************************)

\* In application ap somebody sends from socket r to address a.
SendsIn(ap, r, a) ==
  \E call \in {"send", "trysend"} :
    /\ \E u \in Users : <<call, r>> \in ap.calls[u]
    /\ a \in ap.to[call] \/ (Null \in ap.to[call] /\ a \in ap.partners)

Sends(r, a) == SendsIn(app, r, a)

\* Who asks to be resumed, sends.
Asks(m, s) == m.confirm /\ m.from \in Socks => Sends(m.from, s)

Route(f) ==
  /\ f.op \in {"rx", "add"} => Asks(f.m, f.s)
  /\ f.op = "confirm" /\ f.a \in Socks => Sends(f.a, f.s)
  /\ f.op = "notify" /\ f.a \in Socks => \A k \in DOMAIN f.q : Sends(f.q[k], f.a)

\* Messages, confirmations and resumptions between sockets go where the
\* application sends.
Routes ==
  /\ \A a \in Socks : \A k \in DOMAIN queue[a] : Sends(queue[a][k], a)
  /\ \A s \in Socks : \A k \in DOMAIN rxq[s] : Asks(rxq[s][k], s)
  /\ \A u \in Threads : \A i \in DOMAIN stack[u] : Route(stack[u][i])

\* What sockets the application uses does not change while the application stays.
LEMMA SendsKept ==
  ASSUME app' = app
  PROVE  /\ \A r, a : Sends(r, a)' <=> Sends(r, a)
         /\ \A m, s : Asks(m, s)' <=> Asks(m, s)
         /\ \A f : Route(f)' <=> Route(f)
  <1>1. \A r, a : Sends(r, a)' <=> Sends(r, a)
    BY DEF Sends
  <1>2. \A m, s : Asks(m, s)' <=> Asks(m, s)
    BY <1>1 DEF Asks
  <1>3. \A f : Route(f)' <=> Route(f)
    BY <1>1, <1>2 DEF Route
  <1>4. QED
    BY <1>1, <1>2, <1>3

\* A thread that is in a send, sends.
LEMMA SenderSends ==
  ASSUME SockInv, Wants, NEW t \in Threads, Op(t) \in {"send", "trysend"}
  PROVE  Sends(Top(t).s, Top(t).a)
  <1>0. StackType /\ Shape
    BY DEF SockInv, TypeOK, StackType
  <1>1. stack[t] # <<>> /\ Top(t).op = Op(t)
    BY <1>0, TopOp
  <1>2. Wanted(t, Top(t))
    BY <1>0, <1>1, TopAt DEF Wants
  <1>3. QED
    BY <1>1, <1>2 DEF Wanted, Sends, SendsIn, May, MayReach

\* What a step enters is of this kind.
LEMMA RouteEntered ==
  ASSUME SockInv, Wants, Routes, NEW t \in Threads, NEW q \in Seq(Frame), Step(t, q), NEW k \in DOMAIN q
  PROVE  Route(q[k])
  <1>0. TypeOK /\ StackType /\ Shape /\ Goto(t, q) /\ Moves(t, q) /\ queue \in [Addrs -> Seq(Socks)]
    BY StepFacts DEF TypeOK
  <1>1. CASE q[k].op \notin {"rx", "add", "confirm", "notify"}
    BY <1>1 DEF Route
  <1>2. CASE stack[t] = <<>> /\ q[k].op \in {"rx", "add", "confirm", "notify"}
    <2>1. Op(t) = "none"
      BY <1>2 DEF Op
    <2>2. ~\E r \in Socks : Call(t, r) /\ ~Open(t, r)
      BY <1>0, <1>2, CallFrames
    <2>3. \/ \E p \in Peers : q[k] = Notify(queue[p], p)
          \/ \E p \in Peers, s \in Socks, c \in BOOLEAN : q[k] = RxCb(s, Message(p, c))
      <3>1. \/ q[k].op = "poll"
            \/ \E p \in Peers : q[k] = Notify(queue[p], p)
            \/ \E p \in Peers : q[k] = Gone(p)
            \/ \E s \in Socks : q[k] = Unlock(s)
            \/ \E p \in Peers, s \in Socks, c \in BOOLEAN : q[k] = RxCb(s, Message(p, c))
        BY <2>1, <2>2, StartOps, Zenon
      <3>2. ~(\E p \in Peers : q[k] = Gone(p)) /\ ~(\E s \in Socks : q[k] = Unlock(s))
        BY <1>2 DEF Gone, Unlock, At1
      <3>3. QED
        BY <1>2, <3>1, <3>2
    <2>4. ASSUME NEW p \in Peers, q[k] = Notify(queue[p], p) PROVE Route(q[k])
      BY <2>4, AddrTypes DEF Route, Notify
    <2>5. ASSUME NEW p \in Peers, NEW s \in Socks, NEW c \in BOOLEAN, q[k] = RxCb(s, Message(p, c)) PROVE Route(q[k])
      <3>1. q[k].m.from = p /\ q[k].op = "rx"
        BY <2>5 DEF RxCb, Message
      <3>2. QED
        BY <3>1, AddrTypes DEF Route, Asks
    <2>6. QED
      BY <2>3, <2>4, <2>5
  <1> DEFINE s == Top(t).s
  <1>3. CASE stack[t] # <<>> /\ q[k].op \in {"rx", "add", "confirm", "notify"}
    <2>0. /\ Follows(Top(t), q) /\ Op(t) = Top(t).op /\ Top(t) \in Frame
          /\ Route(Top(t))
      BY <1>0, <1>3, TopAt DEF Moves, Op, Routes
    <2>1. CASE q[k].op = "rx"
      <3>1. Op(t) \in {"send", "trysend"}
        BY <2>0, <2>1, FollowsOps
      <3>2. Sends(Top(t).s, Top(t).a)
        BY <3>1, SenderSends
      <3>3. PICK c \in BOOLEAN : \/ q = <<>>
                                 \/ q = <<Unlock(Top(t).a), RxCb(Top(t).a, Message(s, c))>>
                                 \/ q = <<At2("sendwait", s, Top(t).a)>>
        BY <1>0, <3>1, DoesSend
      <3> DEFINE m == Message(s, c)
      <3>4. m.from = s
        BY DEF Message
      <3> HIDE DEF m
      <3>5. q[k] \in {Unlock(Top(t).a), RxCb(Top(t).a, m), At2("sendwait", s, Top(t).a)}
        BY <3>3 DEF m
      <3>6. q[k].s = Top(t).a /\ q[k].m = m
        BY <2>1, <3>5 DEF Unlock, RxCb, At1, At2
      <3>7. QED
        BY <2>1, <3>2, <3>4, <3>6 DEF Route, Asks
    <2>2. CASE q[k].op = "add"
      <3>1. Op(t) \in {"unblock", "rx", "remove"}
        BY <2>0, <2>2, FollowsOps
      <3>2. CASE Op(t) = "unblock"
        <4>1. q = <<>> \/ q = <<Add(s, Resumed(Top(t).a))>>
          BY <1>0, <3>2, DoesUnblock
        <4>2. q[k].m = Resumed(Top(t).a)
          BY <4>1 DEF Add
        <4>3. QED
          BY <2>2, <4>2 DEF Route, Asks, Resumed
      <3>3. CASE Op(t) = "remove"
        <4>1. q = <<Add(s, News)>> \/ q = <<At1("flush", s)>> \/ q = <<>>
          BY <1>0, <3>3, DoesRemove
        <4>2. q[k].m = News
          BY <2>2, <4>1 DEF Add, At1
        <4>3. QED
          BY <2>2, <4>2 DEF Route, Asks, News
      <3>4. CASE Op(t) = "rx"
        <4>1. q = <<>> \/ q = <<Add(s, Top(t).m)>> \/ q = <<At2("confirm", s, Top(t).m.from)>>
          BY <1>0, <3>4, DoesRx
        <4>2. q[k].m = Top(t).m /\ q[k].s = s
          BY <2>2, <4>1 DEF Add, At2
        <4>3. Asks(Top(t).m, s)
          BY <2>0, <3>4 DEF Route
        <4>4. QED
          BY <2>2, <4>2, <4>3 DEF Route
      <3>5. QED
        BY <3>1, <3>2, <3>3, <3>4
    <2>3. CASE q[k].op = "confirm"
      <3>1. Op(t) \in {"rx", "read"}
        BY <2>0, <2>3, FollowsOps
      <3>2. CASE Op(t) = "rx"
        <4>1. q = <<>> \/ q = <<Add(s, Top(t).m)>> \/ (Top(t).m.confirm /\ q = <<At2("confirm", s, Top(t).m.from)>>)
          BY <1>0, <3>2, DoesRx
        <4>2. q[k].a = Top(t).m.from /\ q[k].s = s /\ Top(t).m.confirm
          BY <2>3, <4>1 DEF Add, At2
        <4>3. Asks(Top(t).m, s)
          BY <2>0, <3>2 DEF Route
        <4>4. QED
          BY <2>3, <4>2, <4>3 DEF Route, Asks
      <3>3. CASE Op(t) = "read"
        <4>1. /\ s \in Socks
              /\ \/ q = <<>> \/ q = <<At1("readdone", s)>>
                 \/ /\ rxq[s] # <<>> /\ Head(rxq[s]).confirm
                    /\ q = <<At1("readdone", s), At2("confirm", s, Head(rxq[s]).from)>>
          BY <1>0, <3>3, DoesRead
        <4>2. rxq[s] # <<>> /\ Head(rxq[s]).confirm /\ q[k].s = s /\ q[k].a = Head(rxq[s]).from
          BY <2>3, <4>1 DEF At1, At2
        <4>3. 1 \in DOMAIN rxq[s] /\ rxq[s][1] = Head(rxq[s])
          BY <1>0, <4>1, <4>2 DEF TypeOK
        <4>4. Asks(Head(rxq[s]), s)
          BY <4>1, <4>3 DEF Routes
        <4>5. QED
          BY <2>3, <4>2, <4>4 DEF Route, Asks
      <3>4. QED
        BY <3>1, <3>2, <3>3
    <2>4. CASE q[k].op = "notify"
      <3>1. Op(t) \in {"resumetx", "cleanup", "notify"}
        BY <2>0, <2>4, FollowsOps
      <3>2. CASE Op(t) \in {"resumetx", "cleanup"}
        <4>1. s \in Socks /\ (q = <<Notify(queue[s], s)>> \/ q = <<At1("closed", s), Notify(queue[s], s)>>)
          BY <1>0, <3>2, DoesResumeTx, DoesCleanup
        <4>2. q[k].a = s /\ q[k].q = queue[s]
          BY <2>4, <4>1 DEF At1, Notify
        <4>3. QED
          BY <2>4, <4>1, <4>2 DEF Route, Routes
      <3>3. CASE Op(t) = "notify"
        <4> DEFINE w == Top(t).q
                   a == Top(t).a
        <4>1. /\ w \in Seq(Socks)
              /\ \/ q = <<>>
                 \/ w # <<>> /\ q = <<Notify(Tail(w), a), Unlock(Head(w)), At2("resume", Head(w), a)>>
                 \/ w # <<>> /\ q = <<Notify(Tail(w), a)>>
          BY <1>0, <3>3, DoesNotify
        <4>2. a \in Socks => \A j \in DOMAIN w : Sends(w[j], a)
          BY <2>0, <3>3 DEF Route
        <4> HIDE DEF w, a
        <4>3. w # <<>> /\ q[k].a = a /\ q[k].q = Tail(w)
          BY <2>4, <4>1 DEF Notify, Unlock, At1, At2
        <4>4. \A j \in DOMAIN Tail(w) : j + 1 \in DOMAIN w /\ Tail(w)[j] = w[j + 1]
          BY <4>1, <4>3
        <4>5. QED
          BY <2>4, <4>2, <4>3, <4>4 DEF Route
      <3>4. QED
        BY <3>1, <3>2, <3>3
    <2>5. QED
      BY <1>3, <2>1, <2>2, <2>3, <2>4
  <1>4. QED
    BY <1>1, <1>2, <1>3

\* Queues hold only sockets that send to the address.
LEMMA QueueSends ==
  ASSUME SockInv, Wants, Routes, NEW t \in Threads, NEW q \in Seq(Frame), Step(t, q), NEW a \in Socks,
         NEW k \in DOMAIN queue'[a]
  PROVE  Sends(queue'[a][k], a)
  <1>0. /\ TypeOK /\ StackType /\ Calm(t) /\ Goto(t, q) /\ Moves(t, q) /\ a \in Addrs
        /\ queue \in [Addrs -> Seq(Socks)] /\ queue[a] \in Seq(Socks)
    BY StepFacts, AddrTypes DEF TypeOK
  <1>1. CASE queue'[a] = queue[a]
    BY <1>1 DEF Routes
  <1>2. CASE queue'[a] = <<>>
    BY <1>2
  <1>3. CASE Op(t) \notin {"none", "resumetx", "cleanup", "send", "trysend"}
    BY <1>0, <1>1, <1>3 DEF Calm
  <1>4. CASE Op(t) \in {"resumetx", "cleanup"}
    <2>1. ResumeTx(t)
      BY <1>0, <1>4, DoesResumeTx, DoesCleanup
    <2>2. queue'[a] = queue[a] \/ queue'[a] = <<>>
      BY <1>0, <2>1 DEF ResumeTx, Resume
    <2>3. QED
      BY <1>1, <1>2, <2>2
  <1>5. CASE Op(t) \in {"send", "trysend"}
    <2>1. queue' = queue \/ (Top(t).s \in Socks /\ Top(t).a \in Addrs /\ Busy(Top(t).s, Top(t).a))
      BY <1>0, <1>5, DoesSend
    <2>2. queue'[a] = queue[a] \/ (Top(t).a = a /\ Top(t).s \in Socks /\ queue'[a] = Append(queue[a], Top(t).s))
      BY <1>0, <2>1 DEF Busy
    <2>3. CASE Top(t).a = a /\ Top(t).s \in Socks /\ queue'[a] = Append(queue[a], Top(t).s)
      <3>1. (k \in DOMAIN queue[a] /\ queue'[a][k] = queue[a][k]) \/ queue'[a][k] = Top(t).s
        BY <1>0, <2>3
      <3>2. Sends(Top(t).s, a)
        BY <1>5, <2>3, SenderSends
      <3>3. QED
        BY <3>1, <3>2 DEF Routes
    <2>4. QED
      BY <1>1, <2>2, <2>3
  <1>6. CASE Op(t) = "none"
    <2>1. ASSUME NEW p \in Peers, PeerConfirms(p) \/ PeerGone(p) PROVE queue'[a] = queue[a]
      BY <1>0, <2>1, AddrTypes DEF PeerConfirms, PeerGone, Resume
    <2>2. ASSUME NEW r \in Socks, Call(t, r), ~Open(t, r) PROVE queue' = queue
      BY <1>0, <2>2, CallEffects DEF router, flow
    <2>3. queue'[a] = queue[a]
      BY <1>0, <1>6, <2>1, <2>2, BeginCases DEF Open, BeginPoll, Arrive, router, flow
    <2>4. QED
      BY <1>1, <2>3
  <1>7. QED
    BY <1>3, <1>4, <1>5, <1>6

\* Receive queues hold only packets whose confirmation goes to a socket that sends
\* here.
LEMMA RxqAsks ==
  ASSUME SockInv, Routes, NEW t \in Threads, NEW q \in Seq(Frame), Step(t, q), NEW s \in Socks, NEW k \in DOMAIN rxq'[s]
  PROVE  Asks(rxq'[s][k], s)
  <1>0. TypeOK /\ StackType /\ rxq[s] \in Seq(Packet) /\ (stack[t] # <<>> => Present(Top(t)))
    BY StepFacts DEF TypeOK
  <1>1. CASE rxq'[s] = rxq[s]
    BY <1>1 DEF Routes
  <1>2. CASE rxq'[s] = <<>>
    BY <1>2
  <1>3. CASE Op(t) = "add" /\ Top(t).s = s /\ rxq'[s] = Append(rxq[s], Top(t).m)
    <2>1. stack[t] # <<>> /\ Top(t) \in Frame /\ Top(t).op = "add"
      BY <1>0, <1>3, TopOp
    <2>2. Top(t).m \in Packet
      BY <2>1, FieldTypes
    <2>3. Asks(Top(t).m, s)
      BY <1>0, <1>3, <2>1 DEF Routes, Present, Route
    <2>4. (k \in DOMAIN rxq[s] /\ rxq'[s][k] = rxq[s][k]) \/ rxq'[s][k] = Top(t).m
      BY <1>0, <1>3, <2>2
    <2>5. QED
      BY <2>3, <2>4 DEF Routes
  <1>4. CASE rxq[s] # <<>> /\ rxq'[s] = Tail(rxq[s])
    <2>1. k + 1 \in DOMAIN rxq[s] /\ rxq'[s][k] = rxq[s][k + 1]
      BY <1>0, <1>4
    <2>2. QED
      BY <2>1 DEF Routes
  <1>5. QED
    BY <1>1, <1>2, <1>3, <1>4, RxqAfter

\* A step keeps frames and queues to pairs of sockets that send to each other.
LEMMA RoutesStep ==
  ASSUME SockInv, Wants, Routes, NEW t \in Threads, NEW q \in Seq(Frame), Step(t, q)
  PROVE  Routes'
  <1>0. app' = app
    BY StepFacts DEF Calm
  <1>1. \A a \in Socks : \A k \in DOMAIN queue'[a] : Sends(queue'[a][k], a)
    BY QueueSends
  <1>2. \A s \in Socks : \A k \in DOMAIN rxq'[s] : Asks(rxq'[s][k], s)
    BY RxqAsks
  <1>3. ASSUME NEW u \in Threads, NEW i \in DOMAIN stack'[u] PROVE Route(stack'[u][i])
    <2>1. \/ \E j \in DOMAIN stack[u] : stack'[u][i] = stack[u][j]
          \/ \E k \in DOMAIN q : stack'[u][i] = q[k]
      BY <1>3, FrameFrom
    <2>2. QED
      BY <2>1, RouteEntered DEF Routes
  <1>4. \A r, a : SendsIn(app', r, a) <=> SendsIn(app, r, a)
    BY <1>0
  <1>5. (\A a \in Socks : \A k \in DOMAIN queue[a] : Sends(queue[a][k], a))'
    BY <1>0, <1>1 DEF Sends
  <1>6. (\A s \in Socks : \A k \in DOMAIN rxq[s] : Asks(rxq[s][k], s))'
    BY <1>0, <1>2 DEF Sends, Asks
  <1>7. (\A u \in Threads : \A i \in DOMAIN stack[u] : Route(stack[u][i]))'
    <2> SUFFICES ASSUME NEW u \in Threads, NEW i \in DOMAIN stack'[u] PROVE Route(stack[u][i])'
      OBVIOUS
    <2>1. Route(stack'[u][i])
      BY <1>3
    <2>2. QED
      BY <1>0, <2>1 DEF Route, Asks, Sends
  <1>8. QED
    BY <1>5, <1>6, <1>7 DEF Routes

\* There are none at the start,
LEMMA RoutesInit == Init => Routes
  <1> SUFFICES ASSUME Init PROVE Routes
    OBVIOUS
  <1>1. /\ \A a \in Socks : queue[a] = <<>>
        /\ \A s \in Socks : rxq[s] = <<>>
        /\ \A u \in Threads : stack[u] = <<>>
    BY AddrTypes DEF Init
  <1>2. QED
    BY <1>1 DEF Routes

\* every step keeps it,
LEMMA RoutesNext == SockInv /\ Wants /\ Routes /\ [Next]_vars => Routes'
  <1> SUFFICES ASSUME SockInv, Wants, Routes, [Next]_vars PROVE Routes'
    OBVIOUS
  <1>1. CASE UNCHANGED vars
    <2>1. app' = app /\ stack' = stack /\ rxq' = rxq /\ queue' = queue
      BY <1>1 DEF vars, sockets, router, flow
    <2>2. \A r, a : Sends(r, a)' <=> Sends(r, a)
      BY <2>1 DEF Sends
    <2>3. QED
      BY <2>1, <2>2 DEF Routes, Route, Asks
  <1>2. CASE Next
    <2>1. PICK t \in Threads : \E q \in Seq(Frame) : Step(t, q)
      BY <1>2, NextStep
    <2>2. QED
      BY <2>1, RoutesStep
  <1>3. QED
    BY <1>1, <1>2

\* and so it always holds.
LEMMA RoutesInvariant == Spec => []Routes
  BY SockInvariant, WantsInvariant, RoutesInit, RoutesNext, PTL DEF Spec

(***************************************************************************)
(* Threads that poll, or read, while they hold a lock                      *)
(***************************************************************************)

\* A socket that is polled is not closed, unless it was before; qpoll calls
\* nothing but put_sock while it holds waiters_list_lock.
PollOk(u) ==
  1 \in DOMAIN stack[u] /\ stack[u][1].op \in {"poll", "polltest", "pollwait", "pollend"} =>
    /\ stack[u][1].op # "pollend" => \A s \in waiter[u].f : sock[s].active # {} \/ ~sock[s].listed
    /\ \A i \in DOMAIN stack[u] : i > 1 =>
         stack[u][1].op = "poll" /\ stack[u][i].op = "put" /\ stack[u][i].s \in waiter[u].f

Pollers == \A u \in Threads : PollOk(u)

\* The entries of a socket that a poller looks at stay as long as the socket is
\* listed.
LEMMA ActiveStays ==
  ASSUME SockInv, Polite, NEW t \in Threads, NEW q \in Seq(Frame), Step(t, q), NEW s \in Socks, NEW u \in Threads,
         waiter[u] # Null, s \in waiter[u].f, u # t \/ Op(t) # "none", sock[s].active # {} \/ ~sock[s].listed
  PROVE  sock'[s].active # {} \/ ~sock'[s].listed
  <1>0. TypeOK /\ sock \in [Socks -> SockType] /\ sock[s] \in SockType
    BY StepFacts DEF TypeOK, SockType
  <1>1. CASE \E r \in Socks : Open(t, r)
    <2>1. PICK r \in Socks : Open(t, r)
      BY <1>1
    <2>2. CASE r = s
      <3>1. sock'[s].active = {"rx", "tx"}
        BY <1>0, <2>1, <2>2 DEF Open, SockType
      <3>2. QED
        BY <3>1
    <2>3. CASE r # s
      <3>1. sock'[s] = sock[s]
        BY <1>0, <2>1, <2>3 DEF Open
      <3>2. QED
        BY <3>1
    <2>4. QED
      BY <2>2, <2>3
  <1>2. CASE ~\E r \in Socks : Open(t, r)
    <2>1. sock'[s].listed => sock[s].listed
      BY <1>0, <1>2, SockKept
    <2>2. CASE sock'[s].active = sock[s].active
      BY <2>1, <2>2
    <2>3. CASE sock'[s].active = {"rx"}
      BY <2>3
    <2>4. ASSUME NEW call \in {"shutRd", "shutWr", "close"}, Shutdown(t, s, call),
                 sock'[s].active = sock[s].active \ Off(call), sock'[s].active = {}
          PROVE  FALSE
      <3>1. ~InUse(t, s)
        BY <2>4 DEF Shutdown
      <3>2. u # t
        BY <2>4 DEF Shutdown, Get, Idle, Op
      <3>3. QED
        BY <3>1, <3>2 DEF InUse
    <2>5. QED
      BY <1>2, <2>2, <2>3, <2>4, SockAfter
  <1>3. QED
    BY <1>1, <1>2

\* A step keeps what a thread that polls knows of its sockets.
LEMMA PollStep ==
  ASSUME SockInv, Polite, Handles, Pollers, NEW t \in Threads, NEW q \in Seq(Frame), Step(t, q), NEW u \in Threads
  PROVE  PollOk(u)'
  <1>0. /\ TypeOK /\ StackType /\ Shape /\ Waiters /\ Goto(t, q) /\ Moves(t, q) /\ Calm(t) /\ PollOk(u) /\ Ports
        /\ stack \in [Threads -> Seq(Frame)] /\ waiter \in [Threads -> Entries \cup {Null}]
    BY StepFacts DEF Pollers, SockInv, TypeOK
  <1> DEFINE Polled(w, k) == \A s \in w.f : k[s].active # {} \/ ~k[s].listed
  <1>1. ASSUME 1 \in DOMAIN stack[u], stack[u][1].op \in {"poll", "polltest", "pollwait"},
               waiter'[u] = waiter[u], u # t \/ Op(t) # "none"
        PROVE  Polled(waiter'[u], sock')
    <2>1. Entry(stack[u][1], waiter[u])
      BY <1>0, <1>1 DEF Waiters
    <2>2. waiter[u] # Null
      BY <1>1, <2>1 DEF Entry
    <2>3. waiter[u].f \subseteq Socks
      BY <1>0, <2>2 DEF Entries
    <2>4. Polled(waiter[u], sock)
      BY <1>0, <1>1 DEF PollOk
    <2>5. QED
      BY <1>1, <2>2, <2>3, <2>4, ActiveStays
  <1>2. CASE u # t
    <2>1. waiter'[u] = waiter[u] /\ stack'[u] = stack[u]
      BY <1>0, <1>2, OthersWait
    <2>2. QED
      BY <1>0, <1>1, <1>2, <2>1 DEF PollOk
  <1> DEFINE b == Len(Below(t))
  <1>3. CASE u = t /\ stack[t] # <<>> /\ b # 0
    <2>1. /\ b \in Nat /\ 1 \in DOMAIN stack[t] /\ b + 1 \in DOMAIN stack[t] /\ b + 1 > 1 /\ stack[t][b + 1] = Top(t)
          /\ stack'[t][1] = stack[t][1] /\ Op(t) = Top(t).op /\ Top(t) \in Frame
      BY <1>0, <1>3, GotoFrames, TopDepth, TopAt DEF Op
    <2> HIDE DEF b
    <2>2. SUFFICES ASSUME stack[t][1].op \in {"poll", "polltest", "pollwait", "pollend"} PROVE PollOk(u)'
      BY <1>3, <2>1 DEF PollOk
    <2>3. stack[t][1].op = "poll" /\ Top(t).op = "put" /\ Top(t).s \in waiter[t].f
      BY <1>0, <1>3, <2>1, <2>2 DEF PollOk
    <2>4. PICK s \in Socks : s = Top(t).s
      BY <2>1, <2>3, FieldTypes
    <2>5. Top(t) = Put(s)
      BY <2>1, <2>3, <2>4, FrameIs DEF Put
    <2>6. sock[s].listed
      BY <1>3, <2>5, <1>0, TopPresent, Alive
    <2>7. sock[s].active # {}
      BY <1>0, <1>3, <2>1, <2>3, <2>4, <2>6 DEF PollOk
    <2>8. port[s] = "open"
      BY <1>0, <2>7 DEF Handles, InUseOk, Ports, PortOk
    <2>9. sock[s].ref # 1
      BY <2>1, <2>3, <2>4, <2>8, OpenStays
    <2>10. q = <<>>
      BY <1>0, <2>1, <2>3, <2>4, <2>9, DoesPut
    <2>11. waiter' = waiter
      BY <1>0, <2>1, <2>3 DEF Calm
    <2>12. \A i \in DOMAIN stack'[t] : i \in DOMAIN stack[t] /\ stack'[t][i] = stack[t][i]
      <3> SUFFICES ASSUME NEW i \in DOMAIN stack'[t] PROVE i \in DOMAIN stack[t] /\ stack'[t][i] = stack[t][i]
        OBVIOUS
      <3>1. \/ i \in DOMAIN stack[t] /\ stack'[t][i] = stack[t][i]
            \/ \E k \in DOMAIN q : stack'[t][i] = q[k]
        BY <1>0, StackFrames
      <3>2. DOMAIN q = {}
        BY <2>10
      <3>3. QED
        BY <3>1, <3>2
    <2>13. Polled(waiter'[t], sock')
      BY <1>1, <1>3, <2>1, <2>3, <2>11
    <2>14. QED
      BY <1>0, <1>3, <2>1, <2>11, <2>12, <2>13 DEF PollOk
  <1>4. CASE u = t /\ (stack[t] = <<>> \/ b = 0)
    <2>1. stack'[t] = q
      BY <1>0, <1>4, Bottom
    <2> HIDE DEF b
    <2>2. SUFFICES ASSUME 1 \in DOMAIN q, q[1].op \in {"poll", "polltest", "pollwait", "pollend"} PROVE PollOk(u)'
      BY <1>4, <2>1 DEF PollOk
    <2>3. CASE stack[t] = <<>>
      <3>1. Op(t) = "none"
        BY <2>3 DEF Op
      <3>2. ~\E r \in Socks : Call(t, r) /\ ~Open(t, r)
        <4> SUFFICES ASSUME NEW r \in Socks, Call(t, r), ~Open(t, r) PROVE FALSE
          OBVIOUS
        <4>1. q[1] = Put(r)
          BY <1>0, CallEffects
        <4>2. QED
          BY <2>2, <4>1 DEF Put, At1
      <3>3. q[1].op = "poll"
        BY <1>0, <2>2, <2>3, BeginsOps DEF Moves
      <3>4. PICK f \in SUBSET Socks : \E ev \in SUBSET {"in", "out"} : BeginPoll(t, f, ev) /\ q = <<Poll(f, FALSE)>>
        BY <2>2, <3>1, <3>2, <3>3, StartOpSet
      <3>5. PICK ev \in SUBSET {"in", "out"} : BeginPoll(t, f, ev)
        BY <3>4
      <3>6. /\ \A s \in f : ~Polite \/ sock[s].active # {} \/ ~sock[s].listed
            /\ waiter' = [waiter EXCEPT ![t] = [f |-> f, ev |-> ev, a |-> Null]] /\ sock' = sock
        BY <3>5 DEF BeginPoll, Wait, sockets
      <3>7. waiter'[t] = [f |-> f, ev |-> ev, a |-> Null]
        BY <1>0, <3>6
      <3>8. Polled(waiter'[t], sock')
        BY <3>6, <3>7
      <3>9. \A i \in DOMAIN q : ~(i > 1)
        BY <3>4
      <3>10. QED
        BY <1>4, <2>1, <3>8, <3>9 DEF PollOk
    <2>4. CASE stack[t] # <<>> /\ b = 0
      <3>1. 1 \in DOMAIN stack[t] /\ stack[t][1] = Top(t) /\ Op(t) = Top(t).op /\ Follows(Top(t), q) /\ Op(t) # "none"
        <4>1. 1 \in DOMAIN stack[t] /\ stack[t][1] = Top(t) /\ Top(t) \in Frame
          <5>1. Len(stack[t]) = b + 1 /\ DOMAIN stack[t] = 1..(b + 1) /\ stack[t][b + 1] = Top(t) /\ Top(t) \in Frame
            BY <1>0, <2>4, TopDepth, TopAt DEF b
          <5>2. QED
            BY <2>4, <5>1
        <4>2. Op(t) = Top(t).op /\ Follows(Top(t), q)
          BY <1>0, <2>4 DEF Op, Moves
        <4>3. Top(t).op # "none"
          BY <4>1 DEF Frame
        <4>4. QED
          BY <4>1, <4>2, <4>3
      <3>2. Op(t) \in {"poll", "polltest", "pollwait"}
        BY <2>2, <3>1, FollowsOps
      <3>3. waiter' = waiter
        BY <1>0, <3>2 DEF Calm
      <3>4. Polled(waiter'[t], sock')
        BY <1>1, <1>4, <3>1, <3>2, <3>3
      <3>5. CASE Op(t) \in {"poll", "pollwait"}
        <4>1. \E f : q = <<f>>
          <5>1. CASE Op(t) = "poll"
            BY <1>0, <5>1, DoesPoll, Zenon
          <5>2. CASE Op(t) = "pollwait"
            BY <1>0, <5>2, DoesPollWait, Zenon
          <5>3. QED
            BY <3>5, <5>1, <5>2
        <4>2. \A i \in DOMAIN q : ~(i > 1)
          BY <4>1
        <4>3. QED
          BY <1>4, <2>1, <3>4, <4>2 DEF PollOk
      <3>6. CASE Op(t) = "polltest"
        <4>1. PICK r : q = <<Poll(Top(t).f, r), Put(Top(t).s)>>
          BY <1>0, <3>6, DoesPollTest
        <4>2. Top(t).s \in waiter[t].f
          <5>1. Entry(Top(t), waiter[t])
            BY <1>0, <3>1 DEF Waiters
          <5>2. QED
            BY <3>1, <3>6, <5>1 DEF Entry
        <4>3. q[1].op = "poll" /\ \A i \in DOMAIN q : i > 1 => q[i].op = "put" /\ q[i].s = Top(t).s
          BY <4>1 DEF Poll, Put, At1
        <4>4. QED
          BY <1>4, <2>1, <3>3, <3>4, <4>2, <4>3 DEF PollOk
      <3>7. QED
        BY <3>2, <3>5, <3>6
    <2>5. QED
      BY <1>4, <2>3, <2>4
  <1>5. QED
    BY <1>2, <1>3, <1>4

\* Nobody polls at the start,
LEMMA PollersInit == Init => Pollers
  BY DEF Init, Pollers, PollOk

\* every step keeps it,
LEMMA PollersNext == Polite /\ SockInv /\ Handles /\ Pollers /\ [Next]_vars => Pollers'
  <1> SUFFICES ASSUME Polite, SockInv, Handles, Pollers, [Next]_vars PROVE Pollers'
    OBVIOUS
  <1>1. CASE UNCHANGED vars
    <2>1. stack' = stack /\ waiter' = waiter /\ sock' = sock
      BY <1>1 DEF vars, sockets, waiting
    <2>2. QED
      BY <2>1 DEF Pollers, PollOk
  <1>2. CASE Next
    <2>1. PICK t \in Threads : \E q \in Seq(Frame) : Step(t, q)
      BY <1>2, NextStep
    <2>2. QED
      BY <2>1, PollStep DEF Pollers
  <1>3. QED
    BY <1>1, <1>2

\* and so it always holds.
LEMMA PollersInvariant ==
  ASSUME Polite
  PROVE  Spec => []Pollers
  BY SockInvariant, HandlesInvariant, PollersInit, PollersNext, PTL DEF Spec

\* Sends between sockets go up a rank, in each application: no chain of them
\* comes back.
Layered(rank) ==
  \A ap \in Apps : \A r, s \in Socks : SendsIn(ap, r, s) => rank[ap][r] < rank[ap][s]

\* No socket here sends to one that a thread polls and another receives from.
PollersApart ==
  \A ap \in Apps : \A s \in Socks : \A u, v \in Users :
    /\ u # v /\ <<"poll", s>> \in ap.calls[u]
    /\ <<"recv", s>> \in ap.calls[v] \/ <<"tryrecv", s>> \in ap.calls[v]
    => \A r \in Socks : ~SendsIn(ap, r, s)

\* What a thread that reads from socket s is in, while it holds rx_q_lock: the
\* confirmation, and what follows when a socket here is resumed by it
Under(rank, f, s) ==
  /\ f.op \in {"confirm", "unlock", "resumetx", "cleanup", "closed", "put", "notify", "resume", "add", "unblock"}
  /\ f.op = "confirm" => f.s = s
  /\ f.op # "confirm" => \E r \in Socks : Sends(r, s)
  /\ f.op \in {"unlock", "resumetx", "cleanup", "closed", "put"} => rank[app][f.s] <= rank[app][s]
  /\ f.op = "notify" => f.a \in Socks /\ rank[app][f.a] <= rank[app][s]
  /\ f.op \in {"resume", "add"} => rank[app][f.s] < rank[app][s]
  /\ f.op = "unblock" /\ f.a # Null => rank[app][f.s] < rank[app][s]

Readings(rank) ==
  \A u \in Threads : \A s \in Socks : Reads(u, s) =>
    \A i \in DOMAIN stack[u] : i > 2 => Under(rank, stack[u][i], s)

\* A frame that works below a socket is followed by frames that do.
LEMMA UnderFollows ==
  ASSUME NEW rank \in [Apps -> [Socks -> Nat]], Layered(rank), SockInv, Routes, NEW t \in Threads, NEW q \in Seq(Frame),
         Step(t, q), stack[t] # <<>>, NEW s \in Socks, Under(rank, Top(t), s), NEW k \in DOMAIN q
  PROVE  Under(rank, q[k], s)
  <1>0. /\ TypeOK /\ StackType /\ Shape /\ Top(t) \in Frame /\ Op(t) = Top(t).op /\ Route(Top(t)) /\ app \in Apps
        /\ queue \in [Addrs -> Seq(Socks)]
    BY StepFacts, TopAt DEF Op, Routes, TypeOK
  <1> DEFINE R(x) == rank[app][x]
             f == Top(t)
  <1>1. \A x \in Socks : R(x) \in Nat
    BY <1>0
  <1>2. \A r, x \in Socks : Sends(r, x) => R(r) < R(x)
    BY <1>0 DEF Layered, Sends
  <1> HIDE DEF R
  <1>3. /\ f.op = "confirm" => f.s = s
        /\ f.op # "confirm" => \E r \in Socks : Sends(r, s)
        /\ f.op \in {"unlock", "resumetx", "cleanup", "closed", "put"} => R(f.s) <= R(s)
        /\ f.op = "notify" => f.a \in Socks /\ R(f.a) <= R(s)
        /\ f.op \in {"resume", "add"} => R(f.s) < R(s)
        /\ f.op = "unblock" /\ f.a # Null => R(f.s) < R(s)
    BY DEF Under, R
  <1>4. ASSUME NEW g \in Frame, q[k] = g, \E r \in Socks : Sends(r, s),
               \/ g.op \in {"unlock", "resumetx", "cleanup", "closed", "put"} /\ R(g.s) <= R(s)
               \/ g.op = "notify" /\ g.a \in Socks /\ R(g.a) <= R(s)
               \/ g.op \in {"resume", "add"} /\ R(g.s) < R(s)
               \/ g.op = "unblock" /\ (g.a # Null => R(g.s) < R(s))
        PROVE  Under(rank, q[k], s)
    BY <1>4 DEF Under, R
  <1>00. q[k] \in Frame
    OBVIOUS
  <1>5. CASE f.op = "confirm"
    <2>1. f.a \in Socks /\ q = <<Unlock(s), At1("resumetx", s)>>
      BY <1>0, <1>3, <1>5, DoesConfirm
    <2>2. Sends(f.a, s)
      BY <1>0, <1>3, <1>5, <2>1 DEF Route
    <2>3. q[k].op \in {"unlock", "resumetx"} /\ q[k].s = s
      BY <2>1 DEF Unlock, At1
    <2>4. R(q[k].s) <= R(s)
      BY <1>1, <2>3
    <2>5. QED
      BY <1>00, <1>4, <2>1, <2>2, <2>3, <2>4
  <1>6. CASE f.op = "unlock"
    <2>1. f.s \in Socks /\ q = <<At1("cleanup", f.s)>>
      BY <1>0, <1>6, DoesUnlock
    <2>2. q[k].op = "cleanup" /\ q[k].s = f.s
      BY <2>1 DEF At1
    <2>3. QED
      BY <1>00, <1>3, <1>4, <1>6, <2>2
  <1>7. CASE f.op \in {"resumetx", "cleanup"}
    <2>1. f.s \in Socks /\ (q = <<Notify(queue[f.s], f.s)>> \/ q = <<At1("closed", f.s), Notify(queue[f.s], f.s)>>)
      BY <1>0, <1>7, DoesResumeTx, DoesCleanup
    <2>2. \/ q[k].op = "notify" /\ q[k].a = f.s
          \/ q[k].op = "closed" /\ q[k].s = f.s
      <3>1. q[k] = Notify(queue[f.s], f.s) \/ q[k] = At1("closed", f.s)
        BY <2>1
      <3>2. QED
        BY <3>1 DEF At1, Notify
    <2>3. QED
      BY <1>00, <1>3, <1>4, <1>7, <2>1, <2>2
  <1>8. CASE f.op = "closed"
    <2>1. q = <<Put(f.s)>>
      BY <1>0, <1>8, DoesClosed
    <2>2. q[k].op = "put" /\ q[k].s = f.s
      BY <2>1 DEF Put, At1
    <2>3. QED
      BY <1>00, <1>3, <1>4, <1>8, <2>2
  <1>9. CASE f.op = "put"
    <2>1. q = <<Unblock(f.s, {"nval"}, Null)>>
      BY <1>0, <1>9, DoesPut
    <2>2. q[k].op = "unblock" /\ q[k].a = Null
      BY <2>1 DEF Unblock
    <2>3. QED
      BY <1>00, <1>3, <1>4, <1>9, <2>2
  <1>10. CASE f.op = "notify"
    <2> DEFINE w == f.q
               a == f.a
    <2>1. /\ w \in Seq(Socks) /\ w # <<>> /\ a \in Socks
          /\ \/ q = <<Notify(Tail(w), a), Unlock(Head(w)), At2("resume", Head(w), a)>>
             \/ q = <<Notify(Tail(w), a)>>
      BY <1>0, <1>3, <1>10, DoesNotify
    <2>2. \A j \in DOMAIN w : Sends(w[j], a)
      BY <1>0, <1>10, <2>1 DEF Route
    <2>3. R(a) <= R(s)
      BY <1>3, <1>10
    <2> HIDE DEF w, a
    <2>4. PICK x \in Socks : x = Head(w)
      BY <2>1
    <2>5. Sends(x, a)
      BY <2>1, <2>2, <2>4
    <2>6. R(x) < R(a) /\ R(x) \in Nat /\ R(a) \in Nat /\ R(s) \in Nat
      BY <1>1, <1>2, <2>1, <2>5
    <2>7. R(x) < R(s) /\ R(x) <= R(s)
      BY <2>3, <2>6
    <2>8. \/ q[k].op = "notify" /\ q[k].a = a
          \/ q[k].op = "unlock" /\ q[k].s = x
          \/ q[k].op = "resume" /\ q[k].s = x
      <3>1. q[k] = Notify(Tail(w), a) \/ q[k] = Unlock(x) \/ q[k] = At2("resume", x, a)
        BY <2>1, <2>4
      <3>2. QED
        BY <3>1 DEF Notify, Unlock, At1, At2
    <2>9. QED
      BY <1>00, <1>3, <1>4, <1>10, <2>1, <2>3, <2>7, <2>8
  <1>11. CASE f.op = "resume"
    <2>1. q = <<Unblock(f.s, {"out"}, f.a)>>
      BY <1>0, <1>11, DoesResume
    <2>2. q[k].op = "unblock" /\ q[k].s = f.s
      BY <2>1 DEF Unblock
    <2>3. QED
      BY <1>00, <1>3, <1>4, <1>11, <2>2
  <1>12. CASE f.op = "add"
    <2>1. q = <<Unblock(f.s, {"in"}, Null)>>
      BY <1>0, <1>12, DoesAdd
    <2>2. q[k].op = "unblock" /\ q[k].a = Null
      BY <2>1 DEF Unblock
    <2>3. QED
      BY <1>00, <1>3, <1>4, <1>12, <2>2
  <1>13. CASE f.op = "unblock"
    <2>1. f.a # Null /\ q = <<Add(f.s, Resumed(f.a))>>
      <3>1. q = <<>> \/ (f.a # Null /\ q = <<Add(f.s, Resumed(f.a))>>)
        BY <1>0, <1>13, DoesUnblock
      <3>2. q # <<>>
        OBVIOUS
      <3>3. QED
        BY <3>1, <3>2
    <2>2. q[k].op = "add" /\ q[k].s = f.s
      BY <2>1 DEF Add
    <2>3. QED
      BY <1>00, <1>3, <1>4, <1>13, <2>1, <2>2
  <1>14. QED
    BY <1>5, <1>6, <1>7, <1>8, <1>9, <1>10, <1>11, <1>12, <1>13 DEF Under

\* What works below a socket does not change while the application stays.
LEMMA UnderKept ==
  ASSUME NEW rank, app' = app
  PROVE  \A f, s : Under(rank, f, s)' <=> Under(rank, f, s)
  <1>1. \A r, a : Sends(r, a)' <=> Sends(r, a)
    BY DEF Sends
  <1>2. QED
    BY <1>1 DEF Under

\* A step keeps everything above a locked receive queue below its socket.
LEMMA ReadingsStep ==
  ASSUME NEW rank \in [Apps -> [Socks -> Nat]], Layered(rank), SockInv, Routes, Readings(rank),
         NEW t \in Threads, NEW q \in Seq(Frame), Step(t, q)
  PROVE  Readings(rank)'
  <1>0. TypeOK /\ StackType /\ Shape /\ Goto(t, q) /\ Moves(t, q) /\ app' = app
    BY StepFacts DEF Calm
  <1> SUFFICES ASSUME NEW u \in Threads, NEW s \in Socks, Reads(u, s)', NEW i \in DOMAIN stack'[u], i > 2
               PROVE  Under(rank, stack[u][i], s)'
    BY DEF Readings
  <1>1. SUFFICES Under(rank, stack'[u][i], s)
    BY <1>0 DEF Under, Sends
  <1>2. CASE u # t
    <2>1. stack'[u] = stack[u]
      BY <1>0, <1>2, OthersWait
    <2>2. QED
      BY <2>1 DEF Readings, Reads
  <1> DEFINE b == Len(Below(t))
  <1>3. /\ b \in Nat
        /\ stack[t] # <<>> => b + 1 \in DOMAIN stack[t] /\ stack[t][b + 1] = Top(t)
        /\ stack[t] = <<>> => b = 0
        /\ \A j \in 1..b : j \in DOMAIN stack[t] /\ stack'[t][j] = stack[t][j]
        /\ \A k \in DOMAIN q : stack'[t][b + k] = q[k]
        /\ DOMAIN stack'[t] = 1..(b + Len(q)) /\ DOMAIN q = 1..Len(q) /\ Len(q) \in Nat
    BY <1>0, GotoFrames
  <1>4. 2 \in DOMAIN stack'[u] /\ stack'[u][2] = At1("readdone", s)
    BY DEF Reads
  <1> HIDE DEF b
  <1>5. CASE u = t /\ b >= 2
    <2>1. 2 \in DOMAIN stack[t] /\ stack[t][2] = At1("readdone", s) /\ stack[t] # <<>>
      <3>1. 2 \in 1..b
        BY <1>3, <1>5
      <3>2. b # 0
        BY <1>5
      <3>3. QED
        BY <1>3, <1>4, <1>5, <3>1, <3>2
    <2>2. \A j \in DOMAIN stack[t] : j > 2 => Under(rank, stack[t][j], s)
      BY <2>1 DEF Readings, Reads
    <2>3. CASE i <= b
      <3>1. i \in 1..b
        BY <1>3, <1>5, <2>3
      <3>2. QED
        BY <1>3, <1>5, <2>2, <3>1
    <2>4. CASE i > b
      <3>1. i - b \in DOMAIN q /\ b + (i - b) = i
        BY <1>3, <1>5, <2>4
      <3>2. Under(rank, Top(t), s)
        <4>1. b + 1 > 2
          BY <1>3, <1>5
        <4>2. QED
          BY <1>3, <2>1, <2>2, <4>1
      <3>3. PICK k \in DOMAIN q : k = i - b
        BY <3>1
      <3>4. Under(rank, q[k], s)
        BY <2>1, <3>2, UnderFollows
      <3>5. QED
        BY <1>3, <1>5, <3>1, <3>3, <3>4
    <2>5. QED
      BY <1>3, <1>5, <2>3, <2>4
  <1>6. CASE u = t /\ b < 2
    <2>1. PICK k \in DOMAIN q : b + k = 2 /\ q[k] = At1("readdone", s)
      <3>1. 2 - b \in DOMAIN q /\ b + (2 - b) = 2
        BY <1>3, <1>4, <1>6
      <3>2. PICK k \in DOMAIN q : k = 2 - b
        BY <3>1
      <3>3. b + k = 2
        BY <1>3, <3>1, <3>2
      <3>4. q[k] = At1("readdone", s)
        BY <1>3, <1>4, <1>6, <3>3
      <3>5. QED
        BY <3>3, <3>4
    <2>2. q[k].op = "readdone"
      BY <2>1 DEF At1
    <2>3. stack[t] # <<>>
      BY <1>0, <2>2, BeginsOps DEF Moves
    <2>4. Op(t) = "read"
      BY <1>0, <2>2, <2>3, FollowsOps DEF Moves, Op
    <2>5. q = <<At1("readdone", Top(t).s)>> \/ \E a : q = <<At1("readdone", Top(t).s), At2("confirm", Top(t).s, a)>>
      <3>1. q # <<>>
        BY <2>1
      <3>2. QED
        BY <1>0, <2>4, <3>1, DoesRead
    <2>6. b = 1
      BY <1>0, <2>3, <2>4, TopDepth DEF b, Op
    <2>7. k = 1 /\ q[1] = At1("readdone", s)
      BY <1>3, <2>1, <2>6
    <2>8. Top(t).s = s
      BY <2>5, <2>7 DEF At1
    <2>9. i = 3 /\ \E a : q = <<At1("readdone", s), At2("confirm", s, a)>>
      <3>1. i \in 1..(1 + Len(q))
        BY <1>3, <1>6, <2>6
      <3>2. Len(q) <= 2 /\ (Len(q) = 2 => \E a : q = <<At1("readdone", s), At2("confirm", s, a)>>)
        <4>1. q = <<At1("readdone", s)>> \/ \E a : q = <<At1("readdone", s), At2("confirm", s, a)>>
          BY <2>5, <2>8
        <4>2. CASE q = <<At1("readdone", s)>>
          <5>1. Len(q) = 1
            BY <4>2
          <5>2. QED
            BY <5>1
        <4>3. CASE \E a : q = <<At1("readdone", s), At2("confirm", s, a)>>
          <5>1. Len(q) = 2
            BY <4>3
          <5>2. QED
            BY <4>3, <5>1
        <4>4. QED
          BY <4>1, <4>2, <4>3
      <3>3. i = 3 /\ Len(q) = 2
        BY <1>3, <3>1, <3>2
      <3>4. QED
        BY <3>2, <3>3
    <2>10. 2 \in DOMAIN q /\ q[2].op = "confirm" /\ q[2].s = s
      BY <2>9 DEF At2
    <2>11. stack'[t][3] = q[2]
      BY <1>3, <2>6, <2>10
    <2>12. QED
      BY <1>6, <2>9, <2>10, <2>11 DEF Under
  <1>7. QED
    BY <1>2, <1>3, <1>5, <1>6

\* No queue is locked at the start.
LEMMA ReadingsInit ==
  ASSUME NEW rank, Init
  PROVE  Readings(rank)
  BY DEF Init, Readings, Reads

\* Every step keeps it.
LEMMA ReadingsNext ==
  ASSUME NEW rank \in [Apps -> [Socks -> Nat]], Layered(rank), SockInv, Routes, Readings(rank), [Next]_vars
  PROVE  Readings(rank)'
  <1>1. CASE UNCHANGED vars
    <2>1. app' = app /\ stack' = stack
      BY <1>1 DEF vars, sockets
    <2>2. QED
      BY <2>1, UnderKept DEF Readings, Reads
  <1>2. CASE Next
    <2>1. PICK t \in Threads : \E q \in Seq(Frame) : Step(t, q)
      BY <1>2, NextStep
    <2>2. QED
      BY <2>1, ReadingsStep
  <1>3. QED
    BY <1>1, <1>2

\* What the owner of a lock is in: its next step needs no lock of a reader, but
\* to look at a socket it polls, or to add an empty packet below its own.
LEMMA ReaderTop ==
  ASSUME NEW rank, SockInv, Readings(rank), NEW t \in Threads, NEW s \in Socks, rxLock[s] = t
  PROVE  /\ stack[t] # <<>> /\ Top(t) \in Frame
         /\ Top(t).op = "readdone" \/ Under(rank, Top(t), s)
         /\ 2 \in DOMAIN stack[t] /\ stack[t][2] = At1("readdone", s)
  <1>1. StackType /\ Shape /\ Reads(t, s)
    BY DEF SockInv, TypeOK, StackType, RxLocks
  <1>2. 2 \in DOMAIN stack[t] /\ stack[t][2] = At1("readdone", s)
    BY <1>1 DEF Reads
  <1>3. stack[t] # <<>>
    BY <1>2
  <1>4. /\ Len(stack[t]) \in DOMAIN stack[t] /\ stack[t][Len(stack[t])] = Top(t) /\ Top(t) \in Frame
        /\ Len(stack[t]) \in Nat /\ DOMAIN stack[t] = 1..Len(stack[t])
    BY <1>1, <1>3, TopAt
  <1>5. CASE Len(stack[t]) > 2
    BY <1>1, <1>2, <1>3, <1>4, <1>5 DEF Readings
  <1>6. CASE ~(Len(stack[t]) > 2)
    <2>1. Len(stack[t]) = 2
      <3> DEFINE n == Len(stack[t])
      <3>1. n \in Nat /\ 2 \in 1..n /\ ~(n > 2)
        BY <1>2, <1>4, <1>6
      <3> HIDE DEF n
      <3>2. n = 2
        BY <3>1
      <3>3. QED
        BY <3>2 DEF n
    <2>2. Top(t).op = "readdone"
      BY <1>2, <1>4, <2>1 DEF At1
    <2>3. QED
      BY <1>2, <1>3, <1>4, <2>2
  <1>7. QED
    BY <1>5, <1>6

\* The thread that has the lock of the waiters is in poll, or returns a reference for
\* it.
LEMMA PollerTop ==
  ASSUME SockInv, Wants, Pollers, NEW t \in Threads, waitLock = t
  PROVE  /\ stack[t] # <<>> /\ Top(t) \in Frame
         /\ Top(t).op \in {"poll", "polltest", "pollend", "put"}
         /\ Top(t).op = "polltest" => May(t, "poll", Top(t).s)
  <1>1. StackType /\ Shape /\ Waiters /\ InPoll(t) /\ PollOk(t)
    BY DEF SockInv, TypeOK, StackType, WaitLocks, Pollers
  <1>2. 1 \in DOMAIN stack[t] /\ stack[t][1].op \in {"poll", "polltest", "pollend"} /\ stack[t] # <<>>
    BY <1>1 DEF InPoll
  <1>4. /\ Len(stack[t]) \in DOMAIN stack[t] /\ stack[t][Len(stack[t])] = Top(t) /\ Top(t) \in Frame
        /\ Len(stack[t]) \in Nat /\ DOMAIN stack[t] = 1..Len(stack[t])
    BY <1>1, <1>2, TopAt
  <1>5. CASE Len(stack[t]) > 1
    <2>1. Top(t).op = "put"
      BY <1>1, <1>2, <1>4, <1>5 DEF PollOk
    <2>2. QED
      BY <1>2, <1>4, <2>1
  <1>6. CASE ~(Len(stack[t]) > 1)
    <2>1. Len(stack[t]) = 1
      <3> DEFINE n == Len(stack[t])
      <3>1. n \in Nat /\ 1 \in 1..n /\ ~(n > 1)
        BY <1>2, <1>4, <1>6
      <3> HIDE DEF n
      <3>2. n = 1
        BY <3>1
      <3>3. QED
        BY <3>2 DEF n
    <2>2. Top(t).op \in {"poll", "polltest", "pollend"}
      BY <1>2, <1>4, <2>1
    <2>3. ASSUME Top(t).op = "polltest" PROVE May(t, "poll", Top(t).s)
      <3>1. Top(t).s \in waiter[t].f
        <4>1. Entry(Top(t), waiter[t])
          BY <1>1, <1>4 DEF Waiters
        <4>2. QED
          BY <2>3, <4>1 DEF Entry
      <3>2. PollWanted(t, Top(t))
        BY <1>4 DEF Wants
      <3>3. QED
        BY <2>3, <3>1, <3>2 DEF PollWanted
    <2>4. QED
      BY <1>2, <1>4, <2>2, <2>3
  <1>7. QED
    BY <1>5, <1>6

\* The pairs of natural numbers of which the first is less.
LessThan == {ss \in Nat \X Nat : ss[1] < ss[2]}

\* A set of natural numbers that is not empty has a least member.
LEMMA LeastOf ==
  ASSUME NEW S, S \subseteq Nat, S # {}
  PROVE  \E n \in S : \A m \in S : n <= m
  <1>1. IsWellFoundedOn(LessThan, Nat)
    BY NatLessThanWellFounded DEF LessThan, OpToRel
  <1>2. PICK n \in S : \A m \in S : ~(<<m, n>> \in LessThan)
    BY <1>1, WFMin, Zenon
  <1>3. \A m \in Nat : n <= m \/ <<m, n>> \in LessThan
    <2>1. n \in Nat
      OBVIOUS
    <2>2. QED
      BY <2>1 DEF LessThan
  <1>4. QED
    BY <1>2, <1>3

\* The threads cannot wait for each other, or one for itself, through the locks
\* of the sockets and of the waiters, in an application that closes a socket
\* when nobody is in a call on it, whose sockets send to each other without a
\* cycle, and where no socket here sends to one that a thread polls and another
\* receives from (put_sock in qpoll, the callbacks that qrecvfrom runs while it
\* confirms).
THEOREM NoThreadsStuck ==
  ASSUME Polite, PollersApart, NEW rank \in [Apps -> [Socks -> Nat]], Layered(rank)
  PROVE  Spec => []NoLockCycle
  <1>1. ASSUME SockInv, Wants, Pollers, Readings(rank) PROVE NoLockCycle
    <2> SUFFICES ASSUME NEW c \in (SUBSET Threads) \ {{}} PROVE \E t \in c : \A u \in c : ~Needs(t, u)
      BY DEF NoLockCycle
    <2>0. StackType /\ Shape /\ app \in Apps /\ waitLock \in Threads \cup {Null} /\ rxLock \in [Socks -> Threads \cup {Null}]
      BY <1>1 DEF SockInv, TypeOK, StackType
    <2> DEFINE R(x) == rank[app][x]
    <2>1. \A x \in Socks : R(x) \in Nat
      BY <2>0
    <2> HIDE DEF R
    <2>2. ASSUME NEW t \in c, NEW u \in c, Needs(t, u)
          PROVE  /\ stack[t] # <<>>
                 /\ \/ Top(t).op \in {"unblock", "unwait", "recvwaiter", "sendwaiter"} /\ waitLock = u
                    \/ /\ Top(t).op \in {"add", "flush", "read", "recvcheck", "polltest"}
                       /\ Top(t).s \in Socks /\ rxLock[Top(t).s] = u
      <3>1. stack[t] # <<>> /\ Top(t) \in Frame
        BY <2>0, <2>2, TopAt DEF Needs, At
      <3>2. \/ Top(t).op \in {"unblock", "unwait", "recvwaiter", "sendwaiter"} /\ waitLock = u
            \/ Top(t).op \in {"add", "flush", "read", "recvcheck", "polltest"} /\ rxLock[Top(t).s] = u
        BY <2>2 DEF Needs, At
      <3>3. QED
        BY <3>1, <3>2, FieldTypes
    <2>3. CASE waitLock \in c
      <3>1. PICK w \in c : w = waitLock
        BY <2>3
      <3>2. /\ stack[w] # <<>> /\ Top(w) \in Frame
            /\ Top(w).op \in {"poll", "polltest", "pollend", "put"}
            /\ Top(w).op = "polltest" => May(w, "poll", Top(w).s)
        BY <1>1, <3>1, PollerTop
      <3>3. CASE \A u \in c : ~Needs(w, u)
        BY <3>3
      <3>4. CASE \E u \in c : Needs(w, u)
        <4>1. PICK v \in c : Needs(w, v)
          BY <3>4
        <4>2. Top(w).op = "polltest" /\ Top(w).s \in Socks /\ rxLock[Top(w).s] = v
          BY <2>2, <3>2, <4>1
        <4>3. PICK s \in Socks : s = Top(w).s
          BY <4>2
        <4>4. /\ stack[v] # <<>> /\ Top(v) \in Frame
              /\ Top(v).op = "readdone" \/ Under(rank, Top(v), s)
              /\ 2 \in DOMAIN stack[v] /\ stack[v][2] = At1("readdone", s)
          BY <1>1, <4>2, <4>3, ReaderTop
        <4>5. May(w, "poll", s) /\ (May(v, "recv", s) \/ May(v, "tryrecv", s))
          <5>1. Wanted(v, stack[v][2])
            BY <1>1, <4>4 DEF Wants
          <5>2. May(v, "recv", s) \/ May(v, "tryrecv", s)
            BY <4>4, <5>1 DEF Wanted, At1
          <5>3. QED
            BY <3>2, <4>2, <4>3, <5>2
        <4>6. v # w
          BY <3>2, <4>2, <4>4 DEF Under
        <4>7. \A r \in Socks : ~Sends(r, s)
          BY <2>0, <4>5, <4>6 DEF PollersApart, May, Sends
        <4>8. Top(v).op \in {"readdone", "confirm"}
          BY <4>4, <4>7 DEF Under
        <4>9. \A u \in c : ~Needs(v, u)
          BY <2>2, <4>8
        <4>10. QED
          BY <4>9
      <3>5. QED
        BY <3>3, <3>4
    <2>4. CASE waitLock \notin c
      <3> DEFINE Locked == {s \in Socks : rxLock[s] \in c}
                 S == {R(s) : s \in Locked}
      <3>1. CASE Locked = {}
        <4>1. \A t, u \in c : ~Needs(t, u)
          BY <2>2, <2>4, <3>1
        <4>2. QED
          BY <4>1
      <3>2. CASE Locked # {}
        <4>1. S \subseteq Nat /\ S # {}
          BY <2>1, <3>2
        <4> HIDE DEF S
        <4>2. PICK n \in S : \A m \in S : n <= m
          BY <4>1, LeastOf
        <4>3. PICK s \in Locked : n = R(s) /\ \A r \in Locked : R(s) <= R(r)
          BY <4>2 DEF S
        <4>4. PICK t \in c : t = rxLock[s]
          BY <4>3
        <4>5. /\ stack[t] # <<>> /\ Top(t) \in Frame
              /\ Top(t).op = "readdone" \/ Under(rank, Top(t), s)
          BY <1>1, <4>4, ReaderTop
        <4>6. ASSUME NEW u \in c, Needs(t, u) PROVE FALSE
          <5>1. Top(t).op = "add" /\ Top(t).s \in Socks /\ rxLock[Top(t).s] = u
            BY <2>2, <2>4, <4>5, <4>6 DEF Under
          <5>2. PICK x \in Socks : x = Top(t).s
            BY <5>1
          <5>3. R(x) < R(s)
            BY <4>5, <5>1, <5>2 DEF Under, R
          <5>4. R(s) <= R(x)
            BY <4>3, <5>1, <5>2
          <5>5. R(x) \in Nat /\ R(s) \in Nat
            BY <2>1
          <5>6. QED
            BY <5>3, <5>4, <5>5
        <4>7. QED
          BY <4>6
      <3>3. QED
        BY <3>1, <3>2
    <2>5. QED
      BY <2>3, <2>4
  <1>2. Init => Readings(rank)
    BY ReadingsInit
  <1>3. SockInv /\ Routes /\ Readings(rank) /\ [Next]_vars => Readings(rank)'
    BY ReadingsNext
  <1>4. Spec => []Pollers
    BY PollersInvariant
  <1>5. QED
    BY <1>1, <1>2, <1>3, <1>4, SockInvariant, WantsInvariant, RoutesInvariant, PTL DEF Spec
=============================================================================
