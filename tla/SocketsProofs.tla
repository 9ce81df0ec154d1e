----------------------------- MODULE SocketsProofs -----------------------------
(***************************************************************************)
(* Theorems about Sockets, for any threads, sockets, endpoints, quota and  *)
(* applications, and with Polite or without: the types; where in a call    *)
(* each frame of a stack can stand; and that the references of a socket    *)
(* are exact, so that no call and no callback has a socket that was freed. *)
(***************************************************************************)
EXTENDS Sockets, FiniteSetTheorems, SequenceTheorems, TLAPS

StackType == stack \in [Threads -> Seq(Frame)]

(***************************************************************************)
(* Stacks                                                                  *)
(***************************************************************************)

\* The frames a thread keeps and the frames it enters.
LEMMA GotoFrames ==
  ASSUME StackType, NEW t \in Threads, NEW frames \in Seq(Frame), Goto(t, frames)
  PROVE  /\ Len(Below(t)) \in Nat
         /\ stack[t] = <<>> => Len(Below(t)) = 0
         /\ stack[t] # <<>> => /\ Len(Below(t)) = Len(stack[t]) - 1
                               /\ Len(Below(t)) + 1 \in DOMAIN stack[t]
                               /\ Top(t) = stack[t][Len(Below(t)) + 1]
         /\ \A i \in 1..Len(Below(t)) : i \in DOMAIN stack[t]
         /\ \A i \in DOMAIN stack[t] : i \in 1..(Len(Below(t)) + 1)
         /\ \A u \in Threads : u # t => stack'[u] = stack[u]
         /\ DOMAIN stack'[t] = 1..(Len(Below(t)) + Len(frames))
         /\ \A i \in 1..Len(Below(t)) : stack'[t][i] = stack[t][i]
         /\ \A k \in DOMAIN frames : stack'[t][Len(Below(t)) + k] = frames[k]
         /\ DOMAIN frames = 1..Len(frames) /\ Len(frames) \in Nat
  <1> DEFINE b == Below(t)
  <1>1. stack[t] \in Seq(Frame) /\ stack'[t] = b \o frames
    BY DEF Goto, StackType
  <1>2. b \in Seq(Frame)
    BY <1>1 DEF Below
  <1>3. /\ Len(b) \in Nat
        /\ stack[t] = <<>> => Len(b) = 0
        /\ stack[t] # <<>> => Len(b) = Len(stack[t]) - 1 /\ Len(b) + 1 \in DOMAIN stack[t]
        /\ \A i \in 1..Len(b) : i \in DOMAIN stack[t] /\ b[i] = stack[t][i]
        /\ \A i \in DOMAIN stack[t] : i \in 1..(Len(b) + 1)
    <2> DEFINE s == stack[t]
    <2>1. CASE s = <<>>
      <3>1. b = <<>>
        BY <2>1 DEF Below
      <3>2. QED
        BY <2>1, <3>1
    <2>2. CASE s # <<>>
      <3>1. Len(s) \in Nat \ {0} /\ DOMAIN s = 1..Len(s)
        BY <1>1, <2>2
      <3>2. Len(b) = Len(s) - 1 /\ \A i \in 1..(Len(s) - 1) : b[i] = s[i]
        BY <1>1, <3>1 DEF Below
      <3>3. QED
        BY <2>2, <3>1, <3>2
    <2>3. QED
      BY <2>1, <2>2
  <1>4. /\ DOMAIN (b \o frames) = 1..(Len(b) + Len(frames))
        /\ \A i \in 1..Len(b) : (b \o frames)[i] = b[i]
        /\ \A k \in DOMAIN frames : (b \o frames)[Len(b) + k] = frames[k]
    <2> HIDE DEF b
    <2> QED
      BY <1>2
  <1>5. \A u \in Threads : u # t => stack'[u] = stack[u]
    BY DEF Goto, StackType
  <1>6. stack[t] # <<>> => Top(t) = stack[t][Len(b) + 1]
    BY <1>1, <1>3 DEF Top
  <1>7. DOMAIN frames = 1..Len(frames) /\ Len(frames) \in Nat
    OBVIOUS
  <1>8. QED
    BY <1>1, <1>3, <1>4, <1>5, <1>6, <1>7

\* A call starts on an empty stack: it enters its frames like any step.
LEMMA StartIsGoto ==
  ASSUME StackType, NEW t \in Threads, Idle(t), NEW frames \in Seq(Frame), Start(t, frames)
  PROVE  Goto(t, frames)
  <1>1. Below(t) = <<>>
    BY DEF Below, Idle
  <1>2. Below(t) \o frames = frames
    BY <1>1
  <1>3. QED
    BY <1>2 DEF Goto, Start

\* A thread that goes on with other frames has a stack of frames still.
LEMMA GotoType ==
  ASSUME StackType, NEW t \in Threads, NEW frames \in Seq(Frame), Goto(t, frames)
  PROVE  StackType'
  <1>1. Below(t) \in Seq(Frame)
    BY DEF Below, StackType
  <1>2. Below(t) \o frames \in Seq(Frame)
    BY <1>1
  <1>3. QED
    BY <1>2 DEF Goto, StackType

\* A frame somewhere on the stacks, with all its fields
Present(f) == \E u \in Threads : \E i \in DOMAIN stack[u] : stack[u][i] = f

\* Only the top frame of the thread that moves goes away.
LEMMA PresentKept ==
  ASSUME StackType, NEW t \in Threads, NEW frames \in Seq(Frame), Goto(t, frames),
         NEW f, Present(f), stack[t] # <<>> => Top(t) # f
  PROVE  Present(f)'
  <1>0. PICK u \in Threads : \E i \in DOMAIN stack[u] : stack[u][i] = f
    BY DEF Present
  <1>1. PICK i \in DOMAIN stack[u] : stack[u][i] = f
    BY <1>0
  <1>2. CASE u # t
    BY <1>1, <1>2, GotoFrames DEF Present
  <1>3. CASE u = t
    <2>1. stack[t] # <<>>
      BY <1>1, <1>3
    <2>2. i # Len(Below(t)) + 1
      BY <1>1, <1>3, <2>1, GotoFrames
    <2>3. i \in 1..Len(Below(t))
      BY <1>1, <1>3, <2>2, GotoFrames
    <2>4. i \in DOMAIN stack'[t] /\ stack'[t][i] = f
      BY <1>1, <1>3, <2>3, GotoFrames
    <2>5. QED
      BY <2>4 DEF Present
  <1>4. QED
    BY <1>2, <1>3

\* The frames it goes on with are on its stack then.
LEMMA PresentEntered ==
  ASSUME StackType, NEW t \in Threads, NEW frames \in Seq(Frame), Goto(t, frames),
         NEW k \in DOMAIN frames
  PROVE  Present(frames[k])'
  <1>1. Len(Below(t)) + k \in DOMAIN stack'[t] /\ stack'[t][Len(Below(t)) + k] = frames[k]
    BY GotoFrames
  <1>2. QED
    BY <1>1 DEF Present

\* A frame that is there was there, or has been entered.
LEMMA PresentBefore ==
  ASSUME StackType, NEW t \in Threads, NEW frames \in Seq(Frame), Goto(t, frames),
         NEW f, Present(f)'
  PROVE  Present(f) \/ \E k \in DOMAIN frames : frames[k] = f
  <1>0. PICK u \in Threads : \E i \in DOMAIN stack'[u] : stack'[u][i] = f
    BY DEF Present
  <1>1. PICK i \in DOMAIN stack'[u] : stack'[u][i] = f
    BY <1>0
  <1>2. CASE u # t
    BY <1>1, <1>2, GotoFrames, SMTT(30) DEF Present
  <1>3. CASE u = t /\ i \in 1..Len(Below(t))
    BY <1>1, <1>3, GotoFrames DEF Present
  <1>4. CASE u = t /\ i \notin 1..Len(Below(t))
    <2>1. i - Len(Below(t)) \in DOMAIN frames /\ i = Len(Below(t)) + (i - Len(Below(t)))
      BY <1>1, <1>4, GotoFrames
    <2>2. frames[i - Len(Below(t))] = f
      BY <1>1, <1>4, <2>1, GotoFrames
    <2>3. QED
      BY <2>1, <2>2
  <1>5. QED
    BY <1>2, <1>3, <1>4

\* The top frame is there.
LEMMA TopPresent ==
  ASSUME StackType, NEW t \in Threads, stack[t] # <<>>
  PROVE  Present(Top(t))
  <1>1. Len(stack[t]) \in DOMAIN stack[t]
    BY DEF StackType
  <1>2. QED
    BY <1>1 DEF Present, Top

\* Frames(ops, s) has the places of the frames of s with such operations.
LEMMA FramesIn ==
  ASSUME NEW ops, NEW s
  PROVE  /\ \A u \in Threads : \A i : <<u, i>> \in Frames(ops, s) <=>
              i \in DOMAIN stack[u] /\ stack[u][i].op \in ops /\ stack[u][i].s = s
         /\ \A p \in Frames(ops, s) : \E u \in Threads : \E i \in DOMAIN stack[u] : p = <<u, i>>
  BY DEF Frames, Places

\* The same after a step.
LEMMA FramesInNext ==
  ASSUME NEW ops, NEW s
  PROVE  /\ \A u \in Threads : \A i : <<u, i>> \in Frames(ops, s)' <=>
              i \in DOMAIN stack'[u] /\ stack'[u][i].op \in ops /\ stack'[u][i].s = s
         /\ \A p \in Frames(ops, s)' : \E u \in Threads : \E i \in DOMAIN stack'[u] : p = <<u, i>>
  BY DEF Frames, Places

\* The frames of one kind after a step: without the one that was left, with
\* those that were entered.
LEMMA FramesNext ==
  ASSUME StackType, NEW t \in Threads, NEW frames \in Seq(Frame), Goto(t, frames),
         NEW ops, NEW s
  PROVE  Frames(ops, s)' = (Frames(ops, s) \ {<<t, Len(Below(t)) + 1>>})
           \cup {<<t, Len(Below(t)) + k>> : k \in {j \in DOMAIN frames :
                                               frames[j].op \in ops /\ frames[j].s = s}}
  <1> DEFINE b == Len(Below(t))
             new == {j \in DOMAIN frames : frames[j].op \in ops /\ frames[j].s = s}
             R == (Frames(ops, s) \ {<<t, b + 1>>}) \cup {<<t, b + k>> : k \in new}
  <1>0. b \in Nat
    BY GotoFrames
  <1>1. ASSUME NEW u \in Threads, NEW i PROVE <<u, i>> \in Frames(ops, s)' <=> <<u, i>> \in R
    <2>1. CASE u # t
      <3>1. stack'[u] = stack[u]
        BY <2>1, GotoFrames
      <3>2. QED
        BY <2>1, <3>1, FramesIn, FramesInNext
    <2>2. CASE u = t /\ i \in 1..b
      <3>1. i \in DOMAIN stack[t] /\ i \in DOMAIN stack'[t] /\ stack'[t][i] = stack[t][i]
        BY <2>2, GotoFrames
      <3>2. i # b + 1 /\ \A k \in DOMAIN frames : i # b + k
        BY <1>0, <2>2, GotoFrames
      <3>3. QED
        BY <2>2, <3>1, <3>2, FramesIn, FramesInNext
    <2>3. CASE u = t /\ i \notin 1..b
      <3>1. ASSUME <<t, i>> \in Frames(ops, s)' PROVE <<t, i>> \in R
        <4>1. i \in DOMAIN stack'[t] /\ stack'[t][i].op \in ops /\ stack'[t][i].s = s
          BY <3>1, FramesInNext
        <4>2. i - b \in DOMAIN frames /\ i = b + (i - b)
          BY <1>0, <2>3, <4>1, GotoFrames
        <4>3. stack'[t][i] = frames[i - b]
          BY <4>2, GotoFrames
        <4>4. i - b \in new
          BY <4>1, <4>2, <4>3
        <4>5. QED
          BY <4>2, <4>4
      <3>2. ASSUME <<t, i>> \in R PROVE <<t, i>> \in Frames(ops, s)'
        <4>1. <<t, i>> \notin Frames(ops, s) \ {<<t, b + 1>>}
          <5>1. ASSUME <<t, i>> \in Frames(ops, s) PROVE i = b + 1
            <6>1. i \in DOMAIN stack[t]
              BY <5>1, FramesIn
            <6>2. QED
              BY <1>0, <2>3, <6>1, GotoFrames
          <5>2. QED
            BY <5>1
        <4>2. PICK k \in new : <<t, i>> = <<t, b + k>>
          BY <3>2, <4>1
        <4>3. i = b + k
          BY <4>2
        <4>4. b + k \in DOMAIN stack'[t] /\ stack'[t][b + k] = frames[k]
          BY <1>0, GotoFrames
        <4>5. QED
          BY <4>3, <4>4, FramesInNext
      <3>3. QED
        BY <2>3, <3>1, <3>2
    <2>4. QED
      BY <2>1, <2>2, <2>3
  <1>2. \A p \in Frames(ops, s)' : p \in R
    BY <1>1, FramesInNext
  <1>3. \A p \in R : p \in Frames(ops, s)'
    BY <1>1, FramesIn
  <1>4. QED
    BY <1>2, <1>3

\* There are finitely many frames.
LEMMA FramesFinite ==
  ASSUME StackType, NEW ops, NEW s
  PROVE  IsFiniteSet(Frames(ops, s))
  <1> DEFINE row(u) == {u} \X DOMAIN stack[u]
             rows == {row(u) : u \in Threads}
             rowOf == [u \in Threads |-> row(u)]
  <1>1. ASSUME NEW u \in Threads PROVE IsFiniteSet(row(u))
    <2>1. DOMAIN stack[u] = 1..Len(stack[u]) /\ Len(stack[u]) \in Nat
      BY DEF StackType
    <2>2. IsFiniteSet(DOMAIN stack[u])
      BY <2>1, FS_Interval
    <2>3. IsFiniteSet({u})
      BY FS_Singleton
    <2>4. QED
      BY <2>2, <2>3, FS_Product
  <1>2. IsFiniteSet(Threads)
    BY SocketAssumption
  <1>3. IsFiniteSet(rows)
    <2>1. rowOf \in Surjection(Threads, rows)
      BY DEF Surjection
    <2>2. QED
      BY <1>2, <2>1, FS_Surjection
  <1>4. IsFiniteSet(UNION rows)
    BY <1>1, <1>3, FS_UNION
  <1>5. Frames(ops, s) \subseteq UNION rows
    BY DEF Frames, Places
  <1>6. QED
    BY <1>4, <1>5, FS_Subset

(***************************************************************************)
(* The frames that may take the place of a frame, and those of a call      *)
(***************************************************************************)

Follows(f, q) ==
  \/ q = <<>>
  \/ f.op = "put" /\ q = <<Unblock(f.s, {"nval"}, Null)>>
  \/ f.op = "unblock" /\ f.a # Null /\ q = <<Add(f.s, Resumed(f.a))>>
  \/ f.op = "add" /\ q = <<Unblock(f.s, {"in"}, Null)>>
  \/ f.op = "rx" /\ q = <<Add(f.s, f.m)>>
  \/ f.op = "rx" /\ f.m.confirm /\ q = <<At2("confirm", f.s, f.m.from)>>
  \/ f.op = "resume" /\ q = <<Unblock(f.s, {"out"}, f.a)>>
  \/ f.op = "remove" /\ q = <<Add(f.s, News)>>
  \/ f.op = "remove" /\ q = <<At1("flush", f.s)>>
  \/ f.op = "flush" /\ q = <<Unblock(f.s, {"in", "hup"}, Null)>>
  \/ f.op = "closed" /\ q = <<Put(f.s)>>
  \/ f.op = "unlock" /\ q = <<At1("cleanup", f.s)>>
  \/ f.op = "resumetx" /\ q = <<Notify(queue[f.s], f.s)>>
  \/ f.op = "cleanup" /\ q = <<At1("closed", f.s), Notify(queue[f.s], f.s)>>
  \/ f.op = "notify" /\ f.q # <<>> /\ q = <<Notify(Tail(f.q), f.a)>>
  \/ f.op = "notify" /\ f.q # <<>>
       /\ q = <<Notify(Tail(f.q), f.a), Unlock(Head(f.q)), At2("resume", Head(f.q), f.a)>>
  \/ f.op = "gone" /\ \E c \in SUBSET Socks : q = <<Removed(c, f.a)>>
  \/ f.op = "removed" /\ \E c \in SUBSET Socks : q = <<Removed(c, f.a)>>
  \/ f.op = "removed" /\ \E c \in SUBSET Socks, s \in Socks :
       q = <<Removed(c, f.a), Unlock(s), At2("remove", s, f.a)>>
  \/ f.op = "coreclose" /\ q = <<Gone(f.s)>>
  \/ f.op = "coreclose" /\ q = <<Gone(f.s), At1("cleanup", f.s)>>
  \/ f.op = "confirm" /\ q = <<Unlock(f.s), At1("resumetx", f.s)>>
  \/ f.op \in {"recvwaiter", "recvwait"} /\ q = <<At1("recvcheck", f.s)>>
  \/ f.op = "recvcheck" /\ q = <<At1("recvwait", f.s)>>
  \/ f.op = "read" /\ q = <<At1("readdone", f.s)>>
  \/ f.op = "read" /\ \E a \in Addrs : q = <<At1("readdone", f.s), At2("confirm", f.s, a)>>
  \/ f.op \in {"sendwaiter", "sendwait"} /\ q = <<At2("send", f.s, f.a)>>
  \/ f.op = "send" /\ q = <<At2("sendwait", f.s, f.a)>>
  \/ f.op \in {"send", "trysend"} /\ f.a \in Socks
       /\ \E c \in BOOLEAN : q = <<Unlock(f.a), RxCb(f.a, Message(f.s, c))>>
  \/ f.op = "poll" /\ \E s \in Socks, w \in SUBSET Socks, r \in BOOLEAN : q = <<PollTest(s, w, r)>>
  \/ f.op = "poll" /\ q = <<PollWaits>>
  \/ f.op = "polltest" /\ \E r \in BOOLEAN : q = <<Poll(f.f, r), Put(f.s)>>
  \/ f.op = "pollwait" /\ \E w \in SUBSET Socks : q = <<Poll(w, FALSE)>>
  \/ f.op \in {"poll", "pollwait"} /\ q = <<PollEnds>>

Begins(q) ==
  \/ q = <<>>
  \/ \E s \in Socks : q = <<Put(s)>>
  \/ \E s \in Socks : q = <<Put(s), At1("coreclose", s)>>
  \/ \E s \in Socks : q = <<Put(s), At1("read", s)>>
  \/ \E s \in Socks : q = <<Put(s), At1("read", s), At1("unwait", s), At1("recvwaiter", s)>>
  \/ \E s \in Socks, a \in Addrs : q = <<Put(s), At1("unwait", s), At2("sendwaiter", s, a)>>
  \/ \E s \in Socks, a \in Addrs : q = <<Put(s), At2("trysend", s, a)>>
  \/ \E s \in Socks, m \in Packet : q = <<Unlock(s), RxCb(s, m)>>
  \/ \E w \in SUBSET Socks : q = <<Poll(w, FALSE)>>
  \/ \E w \in Seq(Socks), a \in Addrs : q = <<Notify(w, a)>>
  \/ \E w \in Seq(Socks), a \in Addrs : q = <<Gone(a), Notify(w, a)>>

\* A thread t moves on from its top frame, or starts a call with q.
Moves(t, q) ==
  /\ Goto(t, q)
  /\ \/ stack[t] # <<>> /\ Follows(Top(t), q)
     \/ stack[t] = <<>> /\ Begins(q)

\* The constructors of frames with a socket yield frames,
LEMMA FrameAt1 ==
  \A s \in Socks :
    /\ Put(s) \in Frame /\ Unlock(s) \in Frame /\ At1("cleanup", s) \in Frame
    /\ At1("closed", s) \in Frame /\ At1("resumetx", s) \in Frame /\ At1("coreclose", s) \in Frame
    /\ At1("flush", s) \in Frame /\ At1("unwait", s) \in Frame /\ At1("recvwaiter", s) \in Frame
    /\ At1("recvcheck", s) \in Frame /\ At1("recvwait", s) \in Frame /\ At1("read", s) \in Frame
    /\ At1("readdone", s) \in Frame
  BY DEF Frame, At1, Put, Unlock

\* those with a socket and an address,
LEMMA FrameAt2 ==
  \A s \in Socks, a \in Addrs :
    /\ At2("sendwaiter", s, a) \in Frame /\ At2("send", s, a) \in Frame
    /\ At2("sendwait", s, a) \in Frame /\ At2("trysend", s, a) \in Frame
    /\ At2("confirm", s, a) \in Frame /\ At2("resume", s, a) \in Frame
    /\ At2("remove", s, a) \in Frame
  BY DEF Frame, At2

\* those with events and packets,
LEMMA FrameData ==
  /\ \A s \in Socks, ev \in SUBSET {"in", "out", "hup", "nval"}, a \in Addrs \cup {Null} :
       Unblock(s, ev, a) \in Frame
  /\ \A s \in Socks, m \in Packet : RxCb(s, m) \in Frame /\ Add(s, m) \in Frame
  BY DEF Frame, Unblock, RxCb, Add

\* those of poll,
LEMMA FramePoll ==
  /\ \A s \in Socks, w \in SUBSET Socks, r \in BOOLEAN : PollTest(s, w, r) \in Frame
  /\ \A w \in SUBSET Socks, r \in BOOLEAN : Poll(w, r) \in Frame
  /\ PollWaits \in Frame /\ PollEnds \in Frame
  BY DEF Frame, PollTest, Poll, PollWaits, PollEnds

\* and those of the router's notifications.
LEMMA FrameRouter ==
  /\ \A w \in Seq(Socks), a \in Addrs : Notify(w, a) \in Frame
  /\ \A a \in Addrs : Gone(a) \in Frame
  /\ \A w \in SUBSET Socks, a \in Addrs : Removed(w, a) \in Frame
  BY DEF Frame, Notify, Gone, Removed

\* Up to four frames are a sequence of frames.
LEMMA FrameSeqs ==
  /\ <<>> \in Seq(Frame)
  /\ \A a \in Frame : <<a>> \in Seq(Frame)
  /\ \A a, b \in Frame : <<a, b>> \in Seq(Frame)
  /\ \A a, b, c \in Frame : <<a, b, c>> \in Seq(Frame)
  /\ \A a, b, c, d \in Frame : <<a, b, c, d>> \in Seq(Frame)
  OBVIOUS

\* The packets of the router are packets, and have the sender they need.
LEMMA PacketTypes ==
  /\ \A a \in Addrs : Resumed(a) \in Packet /\ \A c \in BOOLEAN : Message(a, c) \in Packet
  /\ News \in Packet
  /\ \A m \in Packet : m.confirm \in BOOLEAN /\ m.data \in BOOLEAN
                       /\ (m.confirm \/ ~m.data => m.from \in Addrs) /\ m.from \in Addrs \cup {Null}
  <1>1. /\ \A a \in Addrs : Resumed(a) \in Packet /\ \A c \in BOOLEAN : Message(a, c) \in Packet
        /\ News \in Packet
    BY DEF Packet, Resumed, Message, News
  <1>2. ASSUME NEW m \in Packet
        PROVE  m.confirm \in BOOLEAN /\ m.data \in BOOLEAN
               /\ (m.confirm \/ ~m.data => m.from \in Addrs) /\ m.from \in Addrs \cup {Null}
    <2>1. CASE m = News
      BY <2>1 DEF News
    <2>2. CASE m \in [from : Addrs, confirm : BOOLEAN, data : BOOLEAN]
      BY <2>2
    <2>3. QED
      BY <2>1, <2>2 DEF Packet
  <1>3. QED
    BY <1>1, <1>2

\* Sockets and peers are different addresses; Net is no user.
LEMMA AddrTypes ==
  /\ \A s \in Socks : s \in Addrs /\ s \notin Peers /\ s # Null /\ s # Reset
  /\ \A p \in Peers : p \in Addrs /\ p \notin Socks
  /\ Null \notin Addrs /\ Reset \notin Addrs /\ Null # Reset
  /\ Users \subseteq Threads /\ Net \in Threads /\ Net \notin Users /\ Null \notin Threads
  BY SocketAssumption DEF Addrs, Threads

\* The fields of a frame are what its op says.
LEMMA FieldTypes ==
  ASSUME NEW f \in Frame
  PROVE  /\ f.op \in {"put", "unlock", "cleanup", "closed", "resumetx", "coreclose", "flush", "unwait",
                      "recvwaiter", "recvcheck", "recvwait", "read", "readdone", "sendwaiter", "send",
                      "sendwait", "trysend", "confirm", "resume", "remove", "unblock", "rx", "add",
                      "polltest"} => f.s \in Socks
         /\ f.op \in {"sendwaiter", "send", "sendwait", "trysend", "confirm", "resume", "remove",
                      "notify", "gone", "removed"} => f.a \in Addrs
         /\ f.op = "unblock" => f.a \in Addrs \cup {Null} /\ f.ev \in SUBSET {"in", "out", "hup", "nval"}
         /\ f.op \in {"rx", "add"} => f.m \in Packet
         /\ f.op \in {"poll", "polltest"} => f.f \in SUBSET Socks /\ f.ready \in BOOLEAN
         /\ f.op = "notify" => f.q \in Seq(Socks)
         /\ f.op = "removed" => f.c \in SUBSET Socks
  BY DEF Frame

\* A thread at a frame has it on top, with fields of their types.
LEMMA TopType ==
  ASSUME StackType, NEW t \in Threads, NEW op, At(t, op)
  PROVE  stack[t] # <<>> /\ Top(t) \in Frame /\ Top(t).op = op
  BY DEF At, Top, StackType

\* Sequences of frames joined
LEMMA Tuples ==
  /\ \A q \in Seq(Frame) : <<>> \o q = q /\ q \o <<>> = q
  /\ \A a, b \in Frame : <<a>> \o <<b>> = <<a, b>>
  /\ \A a, b, c \in Frame : <<a>> \o <<b, c>> = <<a, b, c>>
  /\ \A a, b, c, d \in Frame : <<a>> \o <<b, c, d>> = <<a, b, c, d>>
  <1>1. \A q \in Seq(Frame) : <<>> \o q = q /\ q \o <<>> = q
    BY ConcatEmptySeq
  <1>2. ASSUME NEW a \in Frame, NEW q \in Seq(Frame)
        PROVE  /\ <<a>> \o q \in Seq(Frame) /\ Len(<<a>> \o q) = 1 + Len(q)
               /\ (<<a>> \o q)[1] = a /\ \A i \in 1..Len(q) : (<<a>> \o q)[i + 1] = q[i]
    <2>1. <<a>> \in Seq(Frame) /\ Len(<<a>>) = 1 /\ <<a>>[1] = a /\ Len(q) \in Nat
      OBVIOUS
    <2> DEFINE p == <<a>>
    <2> HIDE DEF p
    <2>2. p \in Seq(Frame) /\ Len(p) = 1 /\ p[1] = a
      BY <2>1 DEF p
    <2>3. /\ p \o q \in Seq(Frame) /\ Len(p \o q) = 1 + Len(q)
          /\ (p \o q)[1] = a /\ \A i \in 1..Len(q) : (p \o q)[i + 1] = q[i]
      <3>1. \A i \in 1..(Len(p) + Len(q)) :
              (p \o q)[i] = IF i <= Len(p) THEN p[i] ELSE q[i - Len(p)]
        BY <2>1, <2>2, ConcatProperties
      <3>2. p \o q \in Seq(Frame) /\ Len(p \o q) = 1 + Len(q)
        <4>1. p \o q \in Seq(Frame) /\ Len(p \o q) = Len(p) + Len(q)
          BY <2>1, <2>2, ConcatProperties, Zenon
        <4>2. QED
          BY <2>2, <4>1
      <3>3. (p \o q)[1] = a
        BY <2>1, <2>2, <3>1
      <3>4. ASSUME NEW i \in 1..Len(q) PROVE (p \o q)[i + 1] = q[i]
        <4>1. i + 1 \in 1..(Len(p) + Len(q)) /\ ~(i + 1 <= Len(p)) /\ (i + 1) - Len(p) = i
          BY <2>1, <2>2
        <4>2. QED
          BY <3>1, <4>1
      <3>5. QED
        BY <3>2, <3>3, <3>4
    <2>4. QED
      BY <2>3 DEF p
  <1>3. ASSUME NEW a \in Frame, NEW b \in Frame
        PROVE  <<a>> \o <<b>> = <<a, b>>
    <2> DEFINE x == <<a>> \o <<b>>
               y == <<a, b>>
    <2>1. x \in Seq(Frame) /\ Len(x) = 2 /\ x[1] = a /\ x[2] = b
      BY <1>2, FrameSeqs
    <2>2. y \in Seq(Frame) /\ Len(y) = 2 /\ y[1] = a /\ y[2] = b
      OBVIOUS
    <2> HIDE DEF x, y
    <2>3. x = y
      BY <2>1, <2>2, SeqEqual
    <2>4. QED
      BY <2>3 DEF x, y
  <1>4. ASSUME NEW a \in Frame, NEW b \in Frame, NEW c \in Frame
        PROVE  <<a>> \o <<b, c>> = <<a, b, c>>
    <2> DEFINE x == <<a>> \o <<b, c>>
               y == <<a, b, c>>
    <2>1. x \in Seq(Frame) /\ Len(x) = 3 /\ x[1] = a /\ x[2] = b /\ x[3] = c
      BY <1>2, FrameSeqs
    <2>2. y \in Seq(Frame) /\ Len(y) = 3 /\ y[1] = a /\ y[2] = b /\ y[3] = c
      OBVIOUS
    <2> HIDE DEF x, y
    <2>3. x = y
      BY <2>1, <2>2, SeqEqual
    <2>4. QED
      BY <2>3 DEF x, y
  <1>5. ASSUME NEW a \in Frame, NEW b \in Frame, NEW c \in Frame, NEW d \in Frame
        PROVE  <<a>> \o <<b, c, d>> = <<a, b, c, d>>
    <2> DEFINE x == <<a>> \o <<b, c, d>>
               y == <<a, b, c, d>>
    <2>1. x \in Seq(Frame) /\ Len(x) = 4 /\ x[1] = a /\ x[2] = b /\ x[3] = c /\ x[4] = d
      BY <1>2, FrameSeqs
    <2>2. y \in Seq(Frame) /\ Len(y) = 4 /\ y[1] = a /\ y[2] = b /\ y[3] = c /\ y[4] = d
      OBVIOUS
    <2> HIDE DEF x, y
    <2>3. x = y
      BY <2>1, <2>2, SeqEqual
    <2>4. QED
      BY <2>3 DEF x, y
  <1>6. QED
    BY <1>1, <1>3, <1>4, <1>5

\* What follows a frame are frames.
LEMMA FollowsTyped ==
  ASSUME NEW f \in Frame, NEW q, Follows(f, q), queue \in [Addrs -> Seq(Socks)]
  PROVE  q \in Seq(Frame)
  <1>1. CASE q = <<>>
    BY <1>1, FrameSeqs
  <1>2. CASE f.op = "put" /\ q = <<Unblock(f.s, {"nval"}, Null)>>
    BY <1>2, FrameSeqs, FieldTypes, FrameData
  <1>3. CASE f.op = "unblock" /\ f.a # Null /\ q = <<Add(f.s, Resumed(f.a))>>
    BY <1>3, FrameSeqs, FieldTypes, FrameData, PacketTypes
  <1>4. CASE f.op = "add" /\ q = <<Unblock(f.s, {"in"}, Null)>>
    BY <1>4, FrameSeqs, FieldTypes, FrameData
  <1>5. CASE f.op = "rx" /\ q = <<Add(f.s, f.m)>>
    BY <1>5, FrameSeqs, FieldTypes, FrameData
  <1>6. CASE f.op = "rx" /\ f.m.confirm /\ q = <<At2("confirm", f.s, f.m.from)>>
    BY <1>6, FrameSeqs, FieldTypes, FrameAt2, PacketTypes
  <1>7. CASE f.op = "resume" /\ q = <<Unblock(f.s, {"out"}, f.a)>>
    BY <1>7, FrameSeqs, FieldTypes, FrameData
  <1>8. CASE f.op = "remove" /\ q = <<Add(f.s, News)>>
    BY <1>8, FrameSeqs, FieldTypes, FrameData, PacketTypes
  <1>9. CASE f.op = "remove" /\ q = <<At1("flush", f.s)>>
    BY <1>9, FrameSeqs, FieldTypes, FrameAt1
  <1>10. CASE f.op = "flush" /\ q = <<Unblock(f.s, {"in", "hup"}, Null)>>
    BY <1>10, FrameSeqs, FieldTypes, FrameData
  <1>11. CASE f.op = "closed" /\ q = <<Put(f.s)>>
    BY <1>11, FrameSeqs, FieldTypes, FrameAt1
  <1>12. CASE f.op = "unlock" /\ q = <<At1("cleanup", f.s)>>
    BY <1>12, FrameSeqs, FieldTypes, FrameAt1
  <1>13. CASE f.op = "resumetx" /\ q = <<Notify(queue[f.s], f.s)>>
    BY <1>13, FrameSeqs, FieldTypes, FrameRouter, AddrTypes
  <1>14. CASE f.op = "cleanup" /\ q = <<At1("closed", f.s), Notify(queue[f.s], f.s)>>
    BY <1>14, FrameSeqs, FieldTypes, FrameAt1, FrameRouter, AddrTypes
  <1>15. CASE f.op = "notify" /\ f.q # <<>> /\ q = <<Notify(Tail(f.q), f.a)>>
    <2>1. Tail(f.q) \in Seq(Socks) /\ Head(f.q) \in Socks
      BY <1>15, FieldTypes
    <2>2. QED
      BY <1>15, <2>1, FieldTypes, FrameSeqs, FrameRouter, FrameAt1, FrameAt2
  <1>16. CASE f.op = "notify" /\ f.q # <<>>
       /\ q = <<Notify(Tail(f.q), f.a), Unlock(Head(f.q)), At2("resume", Head(f.q), f.a)>>
    <2>1. Tail(f.q) \in Seq(Socks) /\ Head(f.q) \in Socks
      BY <1>16, FieldTypes
    <2>2. QED
      BY <1>16, <2>1, FieldTypes, FrameSeqs, FrameRouter, FrameAt1, FrameAt2
  <1>17. CASE f.op = "gone" /\ \E c \in SUBSET Socks : q = <<Removed(c, f.a)>>
    BY <1>17, FrameSeqs, FieldTypes, FrameRouter
  <1>18. CASE f.op = "removed" /\ \E c \in SUBSET Socks : q = <<Removed(c, f.a)>>
    BY <1>18, FrameSeqs, FieldTypes, FrameRouter
  <1>19. CASE f.op = "removed" /\ \E c \in SUBSET Socks, s \in Socks :
       q = <<Removed(c, f.a), Unlock(s), At2("remove", s, f.a)>>
    BY <1>19, FrameSeqs, FieldTypes, FrameRouter, FrameAt1, FrameAt2
  <1>20. CASE f.op = "coreclose" /\ q = <<Gone(f.s)>>
    BY <1>20, FrameSeqs, FieldTypes, FrameRouter, AddrTypes
  <1>21. CASE f.op = "coreclose" /\ q = <<Gone(f.s), At1("cleanup", f.s)>>
    BY <1>21, FrameSeqs, FieldTypes, FrameRouter, FrameAt1, AddrTypes
  <1>22. CASE f.op = "confirm" /\ q = <<Unlock(f.s), At1("resumetx", f.s)>>
    BY <1>22, FrameSeqs, FieldTypes, FrameAt1
  <1>23. CASE f.op \in {"recvwaiter", "recvwait"} /\ q = <<At1("recvcheck", f.s)>>
    BY <1>23, FrameSeqs, FieldTypes, FrameAt1
  <1>24. CASE f.op = "recvcheck" /\ q = <<At1("recvwait", f.s)>>
    BY <1>24, FrameSeqs, FieldTypes, FrameAt1
  <1>25. CASE f.op = "read" /\ q = <<At1("readdone", f.s)>>
    BY <1>25, FrameSeqs, FieldTypes, FrameAt1
  <1>26. CASE f.op = "read" /\ \E a \in Addrs : q = <<At1("readdone", f.s), At2("confirm", f.s, a)>>
    BY <1>26, FrameSeqs, FieldTypes, FrameAt1, FrameAt2
  <1>27. CASE f.op \in {"sendwaiter", "sendwait"} /\ q = <<At2("send", f.s, f.a)>>
    BY <1>27, FrameSeqs, FieldTypes, FrameAt2
  <1>28. CASE f.op = "send" /\ q = <<At2("sendwait", f.s, f.a)>>
    BY <1>28, FrameSeqs, FieldTypes, FrameAt2
  <1>29. CASE f.op \in {"send", "trysend"} /\ f.a \in Socks
       /\ \E c \in BOOLEAN : q = <<Unlock(f.a), RxCb(f.a, Message(f.s, c))>>
    <2>1. PICK c \in BOOLEAN : q = <<Unlock(f.a), RxCb(f.a, Message(f.s, c))>>
      BY <1>29
    <2>2. f.a \in Socks /\ f.s \in Addrs
      BY <1>29, FieldTypes, AddrTypes
    <2>3. Unlock(f.a) \in Frame /\ RxCb(f.a, Message(f.s, c)) \in Frame
      BY <2>2, FrameAt1, FrameData, PacketTypes
    <2>4. QED
      BY <2>1, <2>3, FrameSeqs
  <1>30. CASE f.op = "poll" /\ \E s \in Socks, w \in SUBSET Socks, r \in BOOLEAN : q = <<PollTest(s, w, r)>>
    BY <1>30, FrameSeqs, FieldTypes, FramePoll
  <1>31. CASE f.op = "poll" /\ q = <<PollWaits>>
    BY <1>31, FrameSeqs, FieldTypes, FramePoll
  <1>32. CASE f.op = "polltest" /\ \E r \in BOOLEAN : q = <<Poll(f.f, r), Put(f.s)>>
    BY <1>32, FrameSeqs, FieldTypes, FramePoll, FrameAt1
  <1>33. CASE f.op = "pollwait" /\ \E w \in SUBSET Socks : q = <<Poll(w, FALSE)>>
    BY <1>33, FrameSeqs, FieldTypes, FramePoll
  <1>34. CASE f.op \in {"poll", "pollwait"} /\ q = <<PollEnds>>
    BY <1>34, FrameSeqs, FieldTypes, FramePoll
  <1>35. QED
    BY <1>1, <1>2, <1>3, <1>4, <1>5, <1>6, <1>7, <1>8, <1>9, <1>10, <1>11, <1>12, <1>13,
       <1>14, <1>15, <1>16, <1>17, <1>18, <1>19, <1>20, <1>21, <1>22, <1>23, <1>24, <1>25,
       <1>26, <1>27, <1>28, <1>29, <1>30, <1>31, <1>32, <1>33, <1>34 DEF Follows

\* What a call begins with are frames.
LEMMA BeginsTyped ==
  ASSUME NEW q, Begins(q)
  PROVE  q \in Seq(Frame)
  <1>1. CASE q = <<>>
    BY <1>1, FrameSeqs
  <1>2. CASE \E s \in Socks : q = <<Put(s)>>
    BY <1>2, FrameSeqs, FrameAt1
  <1>3. CASE \E s \in Socks : q = <<Put(s), At1("coreclose", s)>>
    BY <1>3, FrameSeqs, FrameAt1
  <1>4. CASE \E s \in Socks : q = <<Put(s), At1("read", s)>>
    BY <1>4, FrameSeqs, FrameAt1
  <1>5. CASE \E s \in Socks : q = <<Put(s), At1("read", s), At1("unwait", s), At1("recvwaiter", s)>>
    BY <1>5, FrameSeqs, FrameAt1
  <1>6. CASE \E s \in Socks, a \in Addrs : q = <<Put(s), At1("unwait", s), At2("sendwaiter", s, a)>>
    BY <1>6, FrameSeqs, FrameAt1, FrameAt2
  <1>7. CASE \E s \in Socks, a \in Addrs : q = <<Put(s), At2("trysend", s, a)>>
    BY <1>7, FrameSeqs, FrameAt1, FrameAt2
  <1>8. CASE \E s \in Socks, m \in Packet : q = <<Unlock(s), RxCb(s, m)>>
    BY <1>8, FrameSeqs, FrameAt1, FrameData
  <1>9. CASE \E w \in SUBSET Socks : q = <<Poll(w, FALSE)>>
    BY <1>9, FrameSeqs, FramePoll
  <1>10. CASE \E w \in Seq(Socks), a \in Addrs : q = <<Notify(w, a)>>
    BY <1>10, FrameSeqs, FrameRouter
  <1>11. CASE \E w \in Seq(Socks), a \in Addrs : q = <<Gone(a), Notify(w, a)>>
    BY <1>11, FrameSeqs, FrameRouter
  <1>12. QED
    BY <1>1, <1>2, <1>3, <1>4, <1>5, <1>6, <1>7, <1>8, <1>9, <1>10, <1>11 DEF Begins

(***************************************************************************)
(* Where in a call a frame can stand                                       *)
(***************************************************************************)

\* Below the frame there is a reference of the caller, or the router holds
\* the record of the socket: its memory stays.
Backed(q, i) == \E j \in 1..(i - 1) : q[j] = Put(q[i].s) \/ q[j] = Unlock(q[i].s)

OkAt(q, i) ==
  LET f == q[i]
  IN /\ f.op \in {"read", "readdone", "trysend", "coreclose"} => i = 2 /\ q[1] = Put(f.s)
     /\ f.op = "unwait" => /\ q[1] = Put(f.s)
                           /\ \/ i = 2
                              \/ i = 3 /\ q[2] = At1("read", f.s)
     /\ f.op \in {"sendwaiter", "send", "sendwait"} =>
          i = 3 /\ q[1] = Put(f.s) /\ q[2] = At1("unwait", f.s)
     /\ f.op \in {"recvwaiter", "recvcheck", "recvwait"} =>
          i = 4 /\ q[1] = Put(f.s) /\ q[2] = At1("read", f.s) /\ q[3] = At1("unwait", f.s)
     /\ f.op \in {"poll", "polltest", "pollwait", "pollend"} => i = 1
     /\ f.op \in {"rx", "add", "resume", "remove", "flush", "confirm"} => Backed(q, i)
     /\ f.op = "unblock" /\ f.a # Null => Backed(q, i)

Shape == \A t \in Threads : \A i \in DOMAIN stack[t] : OkAt(stack[t], i)

\* These may stand anywhere.
Free(f) ==
  \/ f.op \in {"put", "unlock", "cleanup", "closed", "resumetx", "notify", "gone", "removed"}
  \/ f.op = "unblock" /\ f.a = Null

\* A frame that needs nothing below it is well placed anywhere.
LEMMA FreeOk ==
  ASSUME NEW q, NEW i, Free(q[i])
  PROVE  OkAt(q, i)
  BY DEF Free, OkAt

\* What a step leaves below stays right, what it enters is right.
LEMMA ShapeStep ==
  ASSUME StackType, Shape, NEW t \in Threads, NEW q \in Seq(Frame), Moves(t, q)
  PROVE  Shape'
  <1> DEFINE b == Len(Below(t))
             s0 == stack[t]
             s1 == stack'[t]
  <1>0. b \in Nat
    BY GotoFrames DEF Moves
  <1>1. ASSUME NEW i \in 1..b PROVE OkAt(s1, i)
    <2>1. \A j \in 1..b : s1[j] = s0[j]
      BY GotoFrames DEF Moves
    <2>2. OkAt(s0, i)
      BY GotoFrames DEF Moves, Shape
    <2> HIDE DEF s0, s1, b
    <2>3. QED
      BY <1>0, <2>1, <2>2 DEF OkAt, Backed
  <1>2. /\ \A j \in 1..b : s1[j] = s0[j]
        /\ \A k \in DOMAIN q : s1[b + k] = q[k]
        /\ DOMAIN s1 = 1..(b + Len(q)) /\ DOMAIN q = 1..Len(q) /\ Len(q) \in Nat
    BY GotoFrames DEF Moves
  <1>3. ASSUME stack[t] # <<>>, Follows(Top(t), q) PROVE \A k \in DOMAIN q : OkAt(s1, b + k)
    <2>0. OkAt(s0, b + 1) /\ s0[b + 1] = Top(t) /\ Follows(Top(t), q)
      BY <1>3, GotoFrames DEF Moves, Shape
    <2> HIDE DEF s0, s1, b
    <2>1. CASE q = <<>>
      BY <2>1
    <2>2. CASE Top(t).op = "put" /\ q = <<Unblock(Top(t).s, {"nval"}, Null)>>
      <3>1. \A k \in DOMAIN q : Free(q[k])
        BY <2>2 DEF Free, At1, At2, Put, Unlock, Unblock, RxCb, Add, Poll, PollTest, PollWaits, PollEnds, Notify, Gone, Removed
      <3>2. QED
        BY <1>2, <3>1, FreeOk
    <2>3. CASE Top(t).op = "unblock" /\ Top(t).a # Null /\ q = <<Add(Top(t).s, Resumed(Top(t).a))>>
      <3>1. DOMAIN q = {1} /\ s1[b + 1] = q[1]
        BY <1>2, <2>3
      <3>2. OkAt(s1, b + 1)
        BY <1>0, <1>2, <2>0, <2>3, <3>1 DEF OkAt, Backed, At1, At2, Put, Unlock, Unblock, RxCb, Add, Poll, PollTest, PollWaits, PollEnds, Notify, Gone, Removed
      <3>3. QED
        BY <3>1, <3>2
    <2>4. CASE Top(t).op = "add" /\ q = <<Unblock(Top(t).s, {"in"}, Null)>>
      <3>1. \A k \in DOMAIN q : Free(q[k])
        BY <2>4 DEF Free, At1, At2, Put, Unlock, Unblock, RxCb, Add, Poll, PollTest, PollWaits, PollEnds, Notify, Gone, Removed
      <3>2. QED
        BY <1>2, <3>1, FreeOk
    <2>5. CASE Top(t).op = "rx" /\ q = <<Add(Top(t).s, Top(t).m)>>
      <3>1. DOMAIN q = {1} /\ s1[b + 1] = q[1]
        BY <1>2, <2>5
      <3>2. OkAt(s1, b + 1)
        BY <1>0, <1>2, <2>0, <2>5, <3>1 DEF OkAt, Backed, At1, At2, Put, Unlock, Unblock, RxCb, Add, Poll, PollTest, PollWaits, PollEnds, Notify, Gone, Removed
      <3>3. QED
        BY <3>1, <3>2
    <2>6. CASE Top(t).op = "rx" /\ Top(t).m.confirm /\ q = <<At2("confirm", Top(t).s, Top(t).m.from)>>
      <3>1. DOMAIN q = {1} /\ s1[b + 1] = q[1]
        BY <1>2, <2>6
      <3>2. OkAt(s1, b + 1)
        BY <1>0, <1>2, <2>0, <2>6, <3>1 DEF OkAt, Backed, At1, At2, Put, Unlock, Unblock, RxCb, Add, Poll, PollTest, PollWaits, PollEnds, Notify, Gone, Removed
      <3>3. QED
        BY <3>1, <3>2
    <2>7. CASE Top(t).op = "resume" /\ q = <<Unblock(Top(t).s, {"out"}, Top(t).a)>>
      <3>1. DOMAIN q = {1} /\ s1[b + 1] = q[1]
        BY <1>2, <2>7
      <3>2. OkAt(s1, b + 1)
        BY <1>0, <1>2, <2>0, <2>7, <3>1 DEF OkAt, Backed, At1, At2, Put, Unlock, Unblock, RxCb, Add, Poll, PollTest, PollWaits, PollEnds, Notify, Gone, Removed
      <3>3. QED
        BY <3>1, <3>2
    <2>8. CASE Top(t).op = "remove" /\ q = <<Add(Top(t).s, News)>>
      <3>1. DOMAIN q = {1} /\ s1[b + 1] = q[1]
        BY <1>2, <2>8
      <3>2. OkAt(s1, b + 1)
        BY <1>0, <1>2, <2>0, <2>8, <3>1 DEF OkAt, Backed, At1, At2, Put, Unlock, Unblock, RxCb, Add, Poll, PollTest, PollWaits, PollEnds, Notify, Gone, Removed
      <3>3. QED
        BY <3>1, <3>2
    <2>9. CASE Top(t).op = "remove" /\ q = <<At1("flush", Top(t).s)>>
      <3>1. DOMAIN q = {1} /\ s1[b + 1] = q[1]
        BY <1>2, <2>9
      <3>2. OkAt(s1, b + 1)
        BY <1>0, <1>2, <2>0, <2>9, <3>1 DEF OkAt, Backed, At1, At2, Put, Unlock, Unblock, RxCb, Add, Poll, PollTest, PollWaits, PollEnds, Notify, Gone, Removed
      <3>3. QED
        BY <3>1, <3>2
    <2>10. CASE Top(t).op = "flush" /\ q = <<Unblock(Top(t).s, {"in", "hup"}, Null)>>
      <3>1. \A k \in DOMAIN q : Free(q[k])
        BY <2>10 DEF Free, At1, At2, Put, Unlock, Unblock, RxCb, Add, Poll, PollTest, PollWaits, PollEnds, Notify, Gone, Removed
      <3>2. QED
        BY <1>2, <3>1, FreeOk
    <2>11. CASE Top(t).op = "closed" /\ q = <<Put(Top(t).s)>>
      <3>1. \A k \in DOMAIN q : Free(q[k])
        BY <2>11 DEF Free, At1, At2, Put, Unlock, Unblock, RxCb, Add, Poll, PollTest, PollWaits, PollEnds, Notify, Gone, Removed
      <3>2. QED
        BY <1>2, <3>1, FreeOk
    <2>12. CASE Top(t).op = "unlock" /\ q = <<At1("cleanup", Top(t).s)>>
      <3>1. \A k \in DOMAIN q : Free(q[k])
        BY <2>12 DEF Free, At1, At2, Put, Unlock, Unblock, RxCb, Add, Poll, PollTest, PollWaits, PollEnds, Notify, Gone, Removed
      <3>2. QED
        BY <1>2, <3>1, FreeOk
    <2>13. CASE Top(t).op = "resumetx" /\ q = <<Notify(queue[Top(t).s], Top(t).s)>>
      <3>1. \A k \in DOMAIN q : Free(q[k])
        BY <2>13 DEF Free, At1, At2, Put, Unlock, Unblock, RxCb, Add, Poll, PollTest, PollWaits, PollEnds, Notify, Gone, Removed
      <3>2. QED
        BY <1>2, <3>1, FreeOk
    <2>14. CASE Top(t).op = "cleanup" /\ q = <<At1("closed", Top(t).s), Notify(queue[Top(t).s], Top(t).s)>>
      <3>1. \A k \in DOMAIN q : Free(q[k])
        BY <2>14 DEF Free, At1, At2, Put, Unlock, Unblock, RxCb, Add, Poll, PollTest, PollWaits, PollEnds, Notify, Gone, Removed
      <3>2. QED
        BY <1>2, <3>1, FreeOk
    <2>15. CASE Top(t).op = "notify" /\ Top(t).q # <<>> /\ q = <<Notify(Tail(Top(t).q), Top(t).a)>>
      <3>1. \A k \in DOMAIN q : Free(q[k])
        BY <2>15 DEF Free, At1, At2, Put, Unlock, Unblock, RxCb, Add, Poll, PollTest, PollWaits, PollEnds, Notify, Gone, Removed
      <3>2. QED
        BY <1>2, <3>1, FreeOk
    <2>16. CASE Top(t).op = "notify" /\ Top(t).q # <<>>
              /\ q = <<Notify(Tail(Top(t).q), Top(t).a), Unlock(Head(Top(t).q)), At2("resume", Head(Top(t).q), Top(t).a)>>
      <3>0. PICK w, h, a : q = <<Notify(w, a), Unlock(h), At2("resume", h, a)>>
        BY <2>16
      <3>1. OkAt(s1, b + 1)
        <4>1. Free(s1[b + 1])
          BY <1>0, <1>2, <3>0, SMTT(30) DEF Free, At1, At2, Put, Unlock, Unblock, RxCb, Add, Poll,
             PollTest, PollWaits, PollEnds, Notify, Gone, Removed
        <4>2. QED
          BY <4>1, FreeOk
      <3>2. OkAt(s1, b + 2)
        BY <1>0, <1>2, <2>0, <3>0 DEF OkAt, Backed, At1, At2, Put, Unlock, Unblock, RxCb, Add, Poll, PollTest, PollWaits, PollEnds, Notify, Gone, Removed
      <3>3. OkAt(s1, b + 3)
        BY <1>0, <1>2, <2>0, <3>0, SMTT(30) DEF OkAt, Backed, At1, At2, Put, Unlock, Unblock,
           RxCb, Add, Poll, PollTest, PollWaits, PollEnds, Notify, Gone, Removed
      <3>4. QED
        BY <3>0, <3>1, <3>2, <3>3
    <2>17. CASE Top(t).op = "gone" /\ \E c \in SUBSET Socks : q = <<Removed(c, Top(t).a)>>
      <3>1. \A k \in DOMAIN q : Free(q[k])
        BY <2>17 DEF Free, At1, At2, Put, Unlock, Unblock, RxCb, Add, Poll, PollTest, PollWaits, PollEnds, Notify, Gone, Removed
      <3>2. QED
        BY <1>2, <3>1, FreeOk
    <2>18. CASE Top(t).op = "removed" /\ \E c \in SUBSET Socks : q = <<Removed(c, Top(t).a)>>
      <3>1. \A k \in DOMAIN q : Free(q[k])
        BY <2>18 DEF Free, At1, At2, Put, Unlock, Unblock, RxCb, Add, Poll, PollTest, PollWaits, PollEnds, Notify, Gone, Removed
      <3>2. QED
        BY <1>2, <3>1, FreeOk
    <2>19. CASE Top(t).op = "removed" /\ \E c \in SUBSET Socks, s \in Socks :
              q = <<Removed(c, Top(t).a), Unlock(s), At2("remove", s, Top(t).a)>>
      <3>0. PICK w, h, a : q = <<Removed(w, a), Unlock(h), At2("remove", h, a)>>
        BY <2>19
      <3>1. OkAt(s1, b + 1)
        <4>1. Free(s1[b + 1])
          BY <1>0, <1>2, <3>0 DEF Free, At1, At2, Put, Unlock, Unblock, RxCb, Add, Poll, PollTest, PollWaits, PollEnds, Notify, Gone, Removed
        <4>2. QED
          BY <4>1, FreeOk
      <3>2. OkAt(s1, b + 2)
        BY <1>0, <1>2, <2>0, <3>0 DEF OkAt, Backed, At1, At2, Put, Unlock, Unblock, RxCb, Add, Poll, PollTest, PollWaits, PollEnds, Notify, Gone, Removed
      <3>3. OkAt(s1, b + 3)
        BY <1>0, <1>2, <2>0, <3>0, SMTT(30) DEF OkAt, Backed, At1, At2, Put, Unlock, Unblock,
           RxCb, Add, Poll, PollTest, PollWaits, PollEnds, Notify, Gone, Removed
      <3>4. QED
        BY <3>0, <3>1, <3>2, <3>3
    <2>20. CASE Top(t).op = "coreclose" /\ q = <<Gone(Top(t).s)>>
      <3>1. \A k \in DOMAIN q : Free(q[k])
        BY <2>20 DEF Free, At1, At2, Put, Unlock, Unblock, RxCb, Add, Poll, PollTest, PollWaits, PollEnds, Notify, Gone, Removed
      <3>2. QED
        BY <1>2, <3>1, FreeOk
    <2>21. CASE Top(t).op = "coreclose" /\ q = <<Gone(Top(t).s), At1("cleanup", Top(t).s)>>
      <3>1. \A k \in DOMAIN q : Free(q[k])
        BY <2>21 DEF Free, At1, At2, Put, Unlock, Unblock, RxCb, Add, Poll, PollTest, PollWaits, PollEnds, Notify, Gone, Removed
      <3>2. QED
        BY <1>2, <3>1, FreeOk
    <2>22. CASE Top(t).op = "confirm" /\ q = <<Unlock(Top(t).s), At1("resumetx", Top(t).s)>>
      <3>1. \A k \in DOMAIN q : Free(q[k])
        BY <2>22 DEF Free, At1, At2, Put, Unlock, Unblock, RxCb, Add, Poll, PollTest, PollWaits, PollEnds, Notify, Gone, Removed
      <3>2. QED
        BY <1>2, <3>1, FreeOk
    <2>23. CASE Top(t).op \in {"recvwaiter", "recvwait"} /\ q = <<At1("recvcheck", Top(t).s)>>
      <3>1. DOMAIN q = {1} /\ s1[b + 1] = q[1]
        BY <1>2, <2>23
      <3>2. OkAt(s1, b + 1)
        BY <1>0, <1>2, <2>0, <2>23, <3>1 DEF OkAt, Backed, At1, At2, Put, Unlock, Unblock, RxCb, Add, Poll, PollTest, PollWaits, PollEnds, Notify, Gone, Removed
      <3>3. QED
        BY <3>1, <3>2
    <2>24. CASE Top(t).op = "recvcheck" /\ q = <<At1("recvwait", Top(t).s)>>
      <3>1. DOMAIN q = {1} /\ s1[b + 1] = q[1]
        BY <1>2, <2>24
      <3>2. OkAt(s1, b + 1)
        BY <1>0, <1>2, <2>0, <2>24, <3>1 DEF OkAt, Backed, At1, At2, Put, Unlock, Unblock, RxCb, Add, Poll, PollTest, PollWaits, PollEnds, Notify, Gone, Removed
      <3>3. QED
        BY <3>1, <3>2
    <2>25. CASE Top(t).op = "read" /\ q = <<At1("readdone", Top(t).s)>>
      <3>1. DOMAIN q = {1} /\ s1[b + 1] = q[1]
        BY <1>2, <2>25
      <3>2. OkAt(s1, b + 1)
        BY <1>0, <1>2, <2>0, <2>25, <3>1 DEF OkAt, Backed, At1, At2, Put, Unlock, Unblock, RxCb, Add, Poll, PollTest, PollWaits, PollEnds, Notify, Gone, Removed
      <3>3. QED
        BY <3>1, <3>2
    <2>26. CASE Top(t).op = "read" /\ \E a \in Addrs : q = <<At1("readdone", Top(t).s), At2("confirm", Top(t).s, a)>>
      <3>1. OkAt(s1, b + 1)
        BY <1>0, <1>2, <2>0, <2>26 DEF OkAt, Backed, At1, At2, Put, Unlock, Unblock, RxCb, Add, Poll, PollTest, PollWaits, PollEnds, Notify, Gone, Removed
      <3>2. OkAt(s1, b + 2)
        BY <1>0, <1>2, <2>0, <2>26 DEF OkAt, Backed, At1, At2, Put, Unlock, Unblock, RxCb, Add, Poll, PollTest, PollWaits, PollEnds, Notify, Gone, Removed
      <3>4. QED
        BY <2>26, <3>1, <3>2
    <2>27. CASE Top(t).op \in {"sendwaiter", "sendwait"} /\ q = <<At2("send", Top(t).s, Top(t).a)>>
      <3>1. DOMAIN q = {1} /\ s1[b + 1] = q[1]
        BY <1>2, <2>27
      <3>2. OkAt(s1, b + 1)
        BY <1>0, <1>2, <2>0, <2>27, <3>1 DEF OkAt, Backed, At1, At2, Put, Unlock, Unblock, RxCb, Add, Poll, PollTest, PollWaits, PollEnds, Notify, Gone, Removed
      <3>3. QED
        BY <3>1, <3>2
    <2>28. CASE Top(t).op = "send" /\ q = <<At2("sendwait", Top(t).s, Top(t).a)>>
      <3>1. DOMAIN q = {1} /\ s1[b + 1] = q[1]
        BY <1>2, <2>28
      <3>2. OkAt(s1, b + 1)
        BY <1>0, <1>2, <2>0, <2>28, <3>1 DEF OkAt, Backed, At1, At2, Put, Unlock, Unblock, RxCb, Add, Poll, PollTest, PollWaits, PollEnds, Notify, Gone, Removed
      <3>3. QED
        BY <3>1, <3>2
    <2>29. CASE Top(t).op \in {"send", "trysend"} /\ Top(t).a \in Socks
              /\ \E c \in BOOLEAN : q = <<Unlock(Top(t).a), RxCb(Top(t).a, Message(Top(t).s, c))>>
      <3>1. OkAt(s1, b + 1)
        BY <1>0, <1>2, <2>0, <2>29 DEF OkAt, Backed, At1, At2, Put, Unlock, Unblock, RxCb, Add, Poll, PollTest, PollWaits, PollEnds, Notify, Gone, Removed
      <3>2. OkAt(s1, b + 2)
        BY <1>0, <1>2, <2>0, <2>29 DEF OkAt, Backed, At1, At2, Put, Unlock, Unblock, RxCb, Add, Poll, PollTest, PollWaits, PollEnds, Notify, Gone, Removed
      <3>4. QED
        BY <2>29, <3>1, <3>2
    <2>30. CASE Top(t).op = "poll" /\ \E s \in Socks, w \in SUBSET Socks, r \in BOOLEAN : q = <<PollTest(s, w, r)>>
      <3>1. DOMAIN q = {1} /\ s1[b + 1] = q[1]
        BY <1>2, <2>30
      <3>2. OkAt(s1, b + 1)
        BY <1>0, <1>2, <2>0, <2>30, <3>1 DEF OkAt, Backed, At1, At2, Put, Unlock, Unblock, RxCb, Add, Poll, PollTest, PollWaits, PollEnds, Notify, Gone, Removed
      <3>3. QED
        BY <3>1, <3>2
    <2>31. CASE Top(t).op = "poll" /\ q = <<PollWaits>>
      <3>1. DOMAIN q = {1} /\ s1[b + 1] = q[1]
        BY <1>2, <2>31
      <3>2. OkAt(s1, b + 1)
        BY <1>0, <1>2, <2>0, <2>31, <3>1 DEF OkAt, Backed, At1, At2, Put, Unlock, Unblock, RxCb, Add, Poll, PollTest, PollWaits, PollEnds, Notify, Gone, Removed
      <3>3. QED
        BY <3>1, <3>2
    <2>32. CASE Top(t).op = "polltest" /\ \E r \in BOOLEAN : q = <<Poll(Top(t).f, r), Put(Top(t).s)>>
      <3>1. OkAt(s1, b + 1)
        BY <1>0, <1>2, <2>0, <2>32 DEF OkAt, Backed, At1, At2, Put, Unlock, Unblock, RxCb, Add, Poll, PollTest, PollWaits, PollEnds, Notify, Gone, Removed
      <3>2. OkAt(s1, b + 2)
        BY <1>0, <1>2, <2>0, <2>32 DEF OkAt, Backed, At1, At2, Put, Unlock, Unblock, RxCb, Add, Poll, PollTest, PollWaits, PollEnds, Notify, Gone, Removed
      <3>4. QED
        BY <2>32, <3>1, <3>2
    <2>33. CASE Top(t).op = "pollwait" /\ \E w \in SUBSET Socks : q = <<Poll(w, FALSE)>>
      <3>1. OkAt(s1, b + 1)
        BY <1>0, <1>2, <2>0, <2>33 DEF OkAt, Backed, At1, At2, Put, Unlock, Unblock, RxCb, Add, Poll, PollTest, PollWaits, PollEnds, Notify, Gone, Removed
      <3>2. Len(q) = 1
        BY <2>33
      <3>3. QED
        BY <1>2, <3>1, <3>2
    <2>34. CASE Top(t).op \in {"poll", "pollwait"} /\ q = <<PollEnds>>
      <3>1. DOMAIN q = {1} /\ s1[b + 1] = q[1]
        BY <1>2, <2>34
      <3>2. OkAt(s1, b + 1)
        BY <1>0, <1>2, <2>0, <2>34, <3>1 DEF OkAt, Backed, At1, At2, Put, Unlock, Unblock, RxCb, Add, Poll, PollTest, PollWaits, PollEnds, Notify, Gone, Removed
      <3>3. QED
        BY <3>1, <3>2
    <2>35. QED
      BY <2>0, <2>1, <2>2, <2>3, <2>4, <2>5, <2>6, <2>7, <2>8, <2>9, <2>10, <2>11, <2>12, <2>13,
         <2>14, <2>15, <2>16, <2>17, <2>18, <2>19, <2>20, <2>21, <2>22, <2>23, <2>24, <2>25,
         <2>26, <2>27, <2>28, <2>29, <2>30, <2>31, <2>32, <2>33, <2>34 DEF Follows
  <1>4. ASSUME stack[t] = <<>>, Begins(q) PROVE \A k \in DOMAIN q : OkAt(s1, b + k)
    <2>0. b = 0 /\ Begins(q)
      BY <1>4, GotoFrames DEF Moves
    <2> HIDE DEF s0, s1, b
    <2> SUFFICES \A k \in DOMAIN q : OkAt(s1, k)
      BY <2>0
    <2>1. CASE q = <<>>
      BY <2>1
    <2>2. CASE \E s \in Socks : q = <<Put(s)>>
      <3>1. OkAt(s1, 1)
        BY <1>0, <1>2, <2>0, <2>2 DEF OkAt, Backed, At1, At2, Put, Unlock, Unblock, RxCb, Add, Poll, PollTest, PollWaits, PollEnds, Notify, Gone, Removed
      <3>9. QED
        BY <2>0, <2>2, <3>1
    <2>3. CASE \E s \in Socks : q = <<Put(s), At1("coreclose", s)>>
      <3>1. OkAt(s1, 1)
        BY <1>0, <1>2, <2>0, <2>3 DEF OkAt, Backed, At1, At2, Put, Unlock, Unblock, RxCb, Add, Poll, PollTest, PollWaits, PollEnds, Notify, Gone, Removed
      <3>2. OkAt(s1, 2)
        BY <1>0, <1>2, <2>0, <2>3 DEF OkAt, Backed, At1, At2, Put, Unlock, Unblock, RxCb, Add, Poll, PollTest, PollWaits, PollEnds, Notify, Gone, Removed
      <3>9. QED
        BY <2>0, <2>3, <3>1, <3>2
    <2>4. CASE \E s \in Socks : q = <<Put(s), At1("read", s)>>
      <3>1. OkAt(s1, 1)
        BY <1>0, <1>2, <2>0, <2>4 DEF OkAt, Backed, At1, At2, Put, Unlock, Unblock, RxCb, Add, Poll, PollTest, PollWaits, PollEnds, Notify, Gone, Removed
      <3>2. OkAt(s1, 2)
        BY <1>0, <1>2, <2>0, <2>4 DEF OkAt, Backed, At1, At2, Put, Unlock, Unblock, RxCb, Add, Poll, PollTest, PollWaits, PollEnds, Notify, Gone, Removed
      <3>9. QED
        BY <2>0, <2>4, <3>1, <3>2
    <2>5. CASE \E s \in Socks : q = <<Put(s), At1("read", s), At1("unwait", s), At1("recvwaiter", s)>>
      <3>1. OkAt(s1, 1)
        BY <1>0, <1>2, <2>0, <2>5 DEF OkAt, Backed, At1, At2, Put, Unlock, Unblock, RxCb, Add, Poll, PollTest, PollWaits, PollEnds, Notify, Gone, Removed
      <3>2. OkAt(s1, 2)
        BY <1>0, <1>2, <2>0, <2>5 DEF OkAt, Backed, At1, At2, Put, Unlock, Unblock, RxCb, Add, Poll, PollTest, PollWaits, PollEnds, Notify, Gone, Removed
      <3>3. OkAt(s1, 3)
        BY <1>0, <1>2, <2>0, <2>5 DEF OkAt, Backed, At1, At2, Put, Unlock, Unblock, RxCb, Add, Poll, PollTest, PollWaits, PollEnds, Notify, Gone, Removed
      <3>4. OkAt(s1, 4)
        BY <1>0, <1>2, <2>0, <2>5 DEF OkAt, Backed, At1, At2, Put, Unlock, Unblock, RxCb, Add, Poll, PollTest, PollWaits, PollEnds, Notify, Gone, Removed
      <3>9. QED
        BY <2>0, <2>5, <3>1, <3>2, <3>3, <3>4
    <2>6. CASE \E s \in Socks, a \in Addrs : q = <<Put(s), At1("unwait", s), At2("sendwaiter", s, a)>>
      <3>0. PICK s \in Socks, a \in Addrs : q = <<Put(s), At1("unwait", s), At2("sendwaiter", s, a)>>
        BY <2>6
      <3>1. OkAt(s1, 1)
        BY <1>0, <1>2, <2>0, <3>0 DEF OkAt, Backed, At1, At2, Put, Unlock, Unblock, RxCb, Add, Poll, PollTest, PollWaits, PollEnds, Notify, Gone, Removed
      <3>2. OkAt(s1, 2)
        <4>1. s1[1] = Put(s) /\ s1[2] = At1("unwait", s)
          BY <1>0, <1>2, <2>0, <3>0
        <4>2. s1[2].op = "unwait" /\ s1[2].s = s
          BY <4>1 DEF At1
        <4>3. QED
          BY <4>1, <4>2 DEF OkAt
      <3>3. OkAt(s1, 3)
        BY <1>0, <1>2, <2>0, <3>0 DEF OkAt, Backed, At1, At2, Put, Unlock, Unblock, RxCb, Add, Poll, PollTest, PollWaits, PollEnds, Notify, Gone, Removed
      <3>9. QED
        BY <2>0, <2>6, <3>1, <3>2, <3>3
    <2>7. CASE \E s \in Socks, a \in Addrs : q = <<Put(s), At2("trysend", s, a)>>
      <3>1. OkAt(s1, 1)
        BY <1>0, <1>2, <2>0, <2>7 DEF OkAt, Backed, At1, At2, Put, Unlock, Unblock, RxCb, Add, Poll, PollTest, PollWaits, PollEnds, Notify, Gone, Removed
      <3>2. OkAt(s1, 2)
        BY <1>0, <1>2, <2>0, <2>7 DEF OkAt, Backed, At1, At2, Put, Unlock, Unblock, RxCb, Add, Poll, PollTest, PollWaits, PollEnds, Notify, Gone, Removed
      <3>9. QED
        BY <2>0, <2>7, <3>1, <3>2
    <2>8. CASE \E s \in Socks, m \in Packet : q = <<Unlock(s), RxCb(s, m)>>
      <3>1. OkAt(s1, 1)
        BY <1>0, <1>2, <2>0, <2>8 DEF OkAt, Backed, At1, At2, Put, Unlock, Unblock, RxCb, Add, Poll, PollTest, PollWaits, PollEnds, Notify, Gone, Removed
      <3>2. OkAt(s1, 2)
        BY <1>0, <1>2, <2>0, <2>8 DEF OkAt, Backed, At1, At2, Put, Unlock, Unblock, RxCb, Add, Poll, PollTest, PollWaits, PollEnds, Notify, Gone, Removed
      <3>9. QED
        BY <2>0, <2>8, <3>1, <3>2
    <2>9. CASE \E w \in SUBSET Socks : q = <<Poll(w, FALSE)>>
      <3>1. OkAt(s1, 1)
        BY <1>0, <1>2, <2>0, <2>9 DEF OkAt, Backed, At1, At2, Put, Unlock, Unblock, RxCb, Add, Poll, PollTest, PollWaits, PollEnds, Notify, Gone, Removed
      <3>9. QED
        BY <2>0, <2>9, <3>1
    <2>10. CASE \E w \in Seq(Socks), a \in Addrs : q = <<Notify(w, a)>>
      <3>1. OkAt(s1, 1)
        BY <1>0, <1>2, <2>0, <2>10 DEF OkAt, Backed, At1, At2, Put, Unlock, Unblock, RxCb, Add, Poll, PollTest, PollWaits, PollEnds, Notify, Gone, Removed
      <3>9. QED
        BY <2>0, <2>10, <3>1
    <2>11. CASE \E w \in Seq(Socks), a \in Addrs : q = <<Gone(a), Notify(w, a)>>
      <3>1. OkAt(s1, 1)
        BY <1>0, <1>2, <2>0, <2>11 DEF OkAt, Backed, At1, At2, Put, Unlock, Unblock, RxCb, Add, Poll, PollTest, PollWaits, PollEnds, Notify, Gone, Removed
      <3>2. OkAt(s1, 2)
        BY <1>0, <1>2, <2>0, <2>11 DEF OkAt, Backed, At1, At2, Put, Unlock, Unblock, RxCb, Add, Poll, PollTest, PollWaits, PollEnds, Notify, Gone, Removed
      <3>9. QED
        BY <2>0, <2>11, <3>1, <3>2
    <2>12. QED
      BY <2>0, <2>1, <2>2, <2>3, <2>4, <2>5, <2>6, <2>7, <2>8, <2>9, <2>10, <2>11 DEF Begins
  <1>5. \A k \in DOMAIN q : OkAt(s1, b + k)
    BY <1>3, <1>4 DEF Moves
  <1>6. ASSUME NEW i \in DOMAIN s1 PROVE OkAt(s1, i)
    <2>1. CASE i \in 1..b
      BY <1>1, <2>1
    <2>2. CASE i \notin 1..b
      <3>1. i - b \in DOMAIN q /\ b + (i - b) = i
        BY <1>0, <1>2, <2>2
      <3>2. QED
        BY <1>5, <3>1
    <2>3. QED
      BY <2>1, <2>2
  <1>7. ASSUME NEW u \in Threads, u # t, NEW i \in DOMAIN stack'[u] PROVE OkAt(stack'[u], i)
    BY <1>7, GotoFrames DEF Moves, Shape
  <1>8. QED
    BY <1>6, <1>7 DEF Shape

(***************************************************************************)
(* A step is one of one thread, which its top frame determines.            *)
(***************************************************************************)

Op(t) == IF stack[t] = <<>> THEN "none" ELSE Top(t).op

Begin(t) ==
  \/ \E s \in Socks : Call(t, s)
  \/ \E f \in SUBSET Socks, ev \in SUBSET {"in", "out"} : BeginPoll(t, f, ev)
  \/ t = Net /\ \E p \in Peers : PeerConfirms(p) \/ PeerGone(p) \/ \E s \in Socks : Arrive(p, s)

\* What the step is
Doing(t) ==
  /\ Op(t) = "none" => Begin(t)
  /\ Op(t) = "put" => PutSock(t)
  /\ Op(t) = "unblock" => UnblockEvent(t)
  /\ Op(t) = "add" => Enqueue(t)
  /\ Op(t) = "rx" => Receive(t)
  /\ Op(t) = "resume" => ResumeEvent(t)
  /\ Op(t) = "remove" => RemoveEvent(t)
  /\ Op(t) = "flush" => Flush(t)
  /\ Op(t) = "closed" => Closed(t)
  /\ Op(t) = "unlock" => UnlockClient(t)
  /\ Op(t) \in {"resumetx", "cleanup"} => ResumeTx(t)
  /\ Op(t) = "notify" => NotifyWaiter(t)
  /\ Op(t) = "gone" => ListClients(t)
  /\ Op(t) = "removed" => EventNotify(t)
  /\ Op(t) = "coreclose" => CoreClose(t)
  /\ Op(t) = "confirm" => Confirm(t)
  /\ Op(t) = "unwait" => Unwait(t)
  /\ Op(t) = "recvwaiter" => RecvWaiter(t)
  /\ Op(t) = "recvcheck" => RecvCheck(t)
  /\ Op(t) = "recvwait" => RecvWake(t)
  /\ Op(t) = "read" => Read(t)
  /\ Op(t) = "readdone" => ReadDone(t)
  /\ Op(t) = "sendwaiter" => SendWaiter(t)
  /\ Op(t) \in {"send", "trysend"} => CoreSend(t)
  /\ Op(t) = "sendwait" => SendWake(t) \/ SendTimeOut(t)
  /\ Op(t) = "poll" => PollGet(t) \/ PollSleep(t)
  /\ Op(t) = "polltest" => PollLook(t)
  /\ Op(t) = "pollwait" => PollWake(t) \/ PollTimeOut(t)
  /\ Op(t) = "pollend" => PollEnd(t)

\* What it leaves alone
Calm(t) ==
  /\ app' = app
  /\ Op(t) \notin {"none", "put", "remove", "poll"} => sock' = sock
  /\ Op(t) \notin {"put", "add", "flush", "readdone"} => rxq' = rxq
  /\ Op(t) \notin {"none", "unwait", "recvwaiter", "sendwaiter", "pollend"} => waiter' = waiter
  /\ Op(t) \notin {"none", "unblock", "unwait", "recvwaiter", "recvwait", "sendwaiter", "sendwait", "pollwait",
                   "pollend"} => signal' = signal
  /\ Op(t) \notin {"none", "poll", "pollwait", "pollend"} => waitLock' = waitLock
  /\ Op(t) \notin {"read", "readdone"} => rxLock' = rxLock
  /\ Op(t) \notin {"none", "closed", "coreclose"} => port' = port
  /\ Op(t) \notin {"none", "resumetx", "cleanup", "send", "trysend"} => bucket' = bucket /\ queue' = queue
  /\ Op(t) \notin {"none", "confirm", "coreclose"} => sent' = sent
  /\ Op(t) \notin {"none", "send", "trysend"} => asked' = asked
  /\ Op(t) # "none" => gone' = gone
  /\ Op(t) \notin {"readdone", "send", "trysend"} => told' = told

Step(t, q) == Moves(t, q) /\ Doing(t) /\ Calm(t)

\* The entry of a thread that polls
Polling ==
  \A t \in Threads : 1 \in DOMAIN stack[t] /\ stack[t][1].op \in {"poll", "polltest", "pollwait"} =>
    waiter[t] # Null

\* A step of a thread at the top of its stack is a Step.
LEMMA StepOf ==
  ASSUME StackType, queue \in [Addrs -> Seq(Socks)], NEW t \in Threads, NEW q,
         stack[t] # <<>>, Goto(t, q), Follows(Top(t), q), Doing(t), Calm(t)
  PROVE  \E u \in Threads : \E p \in Seq(Frame) : Step(u, p)
  <1>1. Top(t) \in Frame
    BY DEF Top, StackType
  <1>2. q \in Seq(Frame)
    BY <1>1, FollowsTyped
  <1>3. QED
    BY <1>2 DEF Step, Moves

\* The start of a call or a notification is a Step.
LEMMA StepOfStart ==
  ASSUME StackType, NEW t \in Threads, NEW q,
         Idle(t), Start(t, q), Begins(q), Begin(t), Calm(t)
  PROVE  \E u \in Threads : \E p \in Seq(Frame) : Step(u, p)
  <1>1. q \in Seq(Frame)
    BY BeginsTyped
  <1>2. Goto(t, q) /\ stack[t] = <<>> /\ Op(t) = "none"
    BY <1>1, StartIsGoto DEF Idle, Op
  <1>3. Doing(t)
    BY <1>2 DEF Doing
  <1>4. QED
    BY <1>1, <1>2, <1>3 DEF Step, Moves

\* What a thread does on is a step of its top frame.
LEMMA RunSteps ==
  ASSUME TypeOK, Shape, Polling, NEW t \in Threads, Run(t) \/ SendTimeOut(t) \/ PollTimeOut(t)
  PROVE  \E u \in Threads : \E p \in Seq(Frame) : Step(u, p)
  <1> DEFINE Goal == \E u \in Threads : \E p \in Seq(Frame) : Step(u, p)
  <1>0. StackType /\ queue \in [Addrs -> Seq(Socks)]
    BY DEF TypeOK, StackType
  <1>1. CASE PutSock(t)
    <2>1. stack[t] # <<>> /\ Top(t) \in Frame /\ Top(t).op = "put"
      BY <1>0, <1>1, TopType DEF PutSock
    <2>2. \E q : Goto(t, q) /\ Follows(Top(t), q)
      BY <2>1, <1>1, FieldTypes DEF PutSock, Follows
    <2>3. Doing(t) /\ Calm(t)
      BY <2>1, <1>1 DEF Doing, Calm, Op, PutSock, At, Resume, Busy, Wake, Wait, sockets, waiting, locks, router, flow
    <2>4. QED
      BY <1>0, <2>1, <2>2, <2>3, StepOf
  <1>2. CASE UnblockEvent(t)
    <2>1. stack[t] # <<>> /\ Top(t) \in Frame /\ Top(t).op = "unblock"
      BY <1>0, <1>2, TopType DEF UnblockEvent
    <2>2. \E q : Goto(t, q) /\ Follows(Top(t), q)
      BY <2>1, <1>2, FieldTypes DEF UnblockEvent, Follows
    <2>3. Doing(t) /\ Calm(t)
      BY <2>1, <1>2 DEF Doing, Calm, Op, UnblockEvent, At, Resume, Busy, Wake, Wait, sockets, waiting, locks, router, flow
    <2>4. QED
      BY <1>0, <2>1, <2>2, <2>3, StepOf
  <1>3. CASE Enqueue(t)
    <2>1. stack[t] # <<>> /\ Top(t) \in Frame /\ Top(t).op = "add"
      BY <1>0, <1>3, TopType DEF Enqueue
    <2>2. \E q : Goto(t, q) /\ Follows(Top(t), q)
      BY <2>1, <1>3, FieldTypes DEF Enqueue, Follows
    <2>3. Doing(t) /\ Calm(t)
      BY <2>1, <1>3 DEF Doing, Calm, Op, Enqueue, At, Resume, Busy, Wake, Wait, sockets, waiting, locks, router, flow
    <2>4. QED
      BY <1>0, <2>1, <2>2, <2>3, StepOf
  <1>4. CASE Receive(t)
    <2>1. stack[t] # <<>> /\ Top(t) \in Frame /\ Top(t).op = "rx"
      BY <1>0, <1>4, TopType DEF Receive
    <2>2. \E q : Goto(t, q) /\ Follows(Top(t), q)
      BY <2>1, <1>4, FieldTypes, PacketTypes DEF Receive, Follows
    <2>3. Doing(t) /\ Calm(t)
      BY <2>1, <1>4 DEF Doing, Calm, Op, Receive, At, Resume, Busy, Wake, Wait, sockets, waiting, locks, router, flow
    <2>4. QED
      BY <1>0, <2>1, <2>2, <2>3, StepOf
  <1>5. CASE ResumeEvent(t)
    <2>1. stack[t] # <<>> /\ Top(t) \in Frame /\ Top(t).op = "resume"
      BY <1>0, <1>5, TopType DEF ResumeEvent
    <2>2. \E q : Goto(t, q) /\ Follows(Top(t), q)
      BY <2>1, <1>5, FieldTypes DEF ResumeEvent, Follows
    <2>3. Doing(t) /\ Calm(t)
      BY <2>1, <1>5 DEF Doing, Calm, Op, ResumeEvent, At, Resume, Busy, Wake, Wait, sockets, waiting, locks, router, flow
    <2>4. QED
      BY <1>0, <2>1, <2>2, <2>3, StepOf
  <1>6. CASE RemoveEvent(t)
    <2>1. stack[t] # <<>> /\ Top(t) \in Frame /\ Top(t).op = "remove"
      BY <1>0, <1>6, TopType DEF RemoveEvent
    <2>2. \E q : Goto(t, q) /\ Follows(Top(t), q)
      BY <2>1, <1>6, FieldTypes DEF RemoveEvent, Follows
    <2>3. Doing(t) /\ Calm(t)
      BY <2>1, <1>6 DEF Doing, Calm, Op, RemoveEvent, At, Resume, Busy, Wake, Wait, sockets, waiting, locks, router, flow
    <2>4. QED
      BY <1>0, <2>1, <2>2, <2>3, StepOf
  <1>7. CASE Flush(t)
    <2>1. stack[t] # <<>> /\ Top(t) \in Frame /\ Top(t).op = "flush"
      BY <1>0, <1>7, TopType DEF Flush
    <2>2. \E q : Goto(t, q) /\ Follows(Top(t), q)
      BY <2>1, <1>7, FieldTypes DEF Flush, Follows
    <2>3. Doing(t) /\ Calm(t)
      BY <2>1, <1>7 DEF Doing, Calm, Op, Flush, At, Resume, Busy, Wake, Wait, sockets, waiting, locks, router, flow
    <2>4. QED
      BY <1>0, <2>1, <2>2, <2>3, StepOf
  <1>8. CASE Closed(t)
    <2>1. stack[t] # <<>> /\ Top(t) \in Frame /\ Top(t).op = "closed"
      BY <1>0, <1>8, TopType DEF Closed
    <2>2. \E q : Goto(t, q) /\ Follows(Top(t), q)
      BY <2>1, <1>8, FieldTypes DEF Closed, Follows
    <2>3. Doing(t) /\ Calm(t)
      BY <2>1, <1>8 DEF Doing, Calm, Op, Closed, At, Resume, Busy, Wake, Wait, sockets, waiting, locks, router, flow
    <2>4. QED
      BY <1>0, <2>1, <2>2, <2>3, StepOf
  <1>9. CASE UnlockClient(t)
    <2>1. stack[t] # <<>> /\ Top(t) \in Frame /\ Top(t).op = "unlock"
      BY <1>0, <1>9, TopType DEF UnlockClient
    <2>2. \E q : Goto(t, q) /\ Follows(Top(t), q)
      BY <2>1, <1>9, FieldTypes DEF UnlockClient, Follows
    <2>3. Doing(t) /\ Calm(t)
      BY <2>1, <1>9 DEF Doing, Calm, Op, UnlockClient, At, Resume, Busy, Wake, Wait, sockets, waiting, locks, router, flow
    <2>4. QED
      BY <1>0, <2>1, <2>2, <2>3, StepOf
  <1>10. CASE ResumeTx(t)
    <2>1. stack[t] # <<>> /\ Top(t) \in Frame /\ Top(t).op \in {"resumetx", "cleanup"}
      BY <1>0, <1>10, TopType DEF ResumeTx
    <2>5. Top(t).s \in Socks /\ Notify(queue[Top(t).s], Top(t).s) \in Frame
      BY <1>0, <2>1, FieldTypes, FrameRouter, AddrTypes
    <2>6. At1("closed", Top(t).s) \in Frame /\ (At(t, "cleanup") <=> Top(t).op = "cleanup")
      BY <2>1, <2>5, FrameAt1 DEF At
    <2>7. /\ <<>> \o <<Notify(queue[Top(t).s], Top(t).s)>> = <<Notify(queue[Top(t).s], Top(t).s)>>
          /\ <<At1("closed", Top(t).s)>> \o <<Notify(queue[Top(t).s], Top(t).s)>>
               = <<At1("closed", Top(t).s), Notify(queue[Top(t).s], Top(t).s)>>
      BY <2>5, <2>6, Tuples, FrameSeqs
    <2>2. \E q : Goto(t, q) /\ Follows(Top(t), q)
      BY <2>1, <2>6, <2>7, <1>10, FieldTypes DEF ResumeTx, Follows
    <2>3. Doing(t) /\ Calm(t)
      BY <2>1, <1>10 DEF Doing, Calm, Op, ResumeTx, At, Resume, Busy, Wake, Wait, sockets, waiting, locks, router, flow
    <2>4. QED
      BY <1>0, <2>1, <2>2, <2>3, StepOf
  <1>11. CASE NotifyWaiter(t)
    <2>1. stack[t] # <<>> /\ Top(t) \in Frame /\ Top(t).op = "notify"
      BY <1>0, <1>11, TopType DEF NotifyWaiter
    <2>5. Top(t).q \in Seq(Socks) /\ Top(t).a \in Addrs
      BY <2>1, FieldTypes
    <2>6. ASSUME Top(t).q = <<>> PROVE \E q : Goto(t, q) /\ Follows(Top(t), q)
      BY <2>1, <2>6, <1>11 DEF NotifyWaiter, Follows
    <2>7. ASSUME Top(t).q # <<>> PROVE \E q : Goto(t, q) /\ Follows(Top(t), q)
      <3> DEFINE h == Head(Top(t).q)
                 n == Notify(Tail(Top(t).q), Top(t).a)
      <3>1. n \in Frame /\ Unlock(h) \in Frame /\ At2("resume", h, Top(t).a) \in Frame
        <4>1. h \in Socks /\ Tail(Top(t).q) \in Seq(Socks)
          BY <2>5, <2>7
        <4>2. QED
          BY <2>5, <4>1, FrameRouter, FrameAt1, FrameAt2
      <3>2. <<n>> \o <<>> = <<n>> /\ <<n>> \o <<Unlock(h), At2("resume", h, Top(t).a)>>
                                      = <<n, Unlock(h), At2("resume", h, Top(t).a)>>
        BY <3>1, Tuples, FrameSeqs
      <3>3. QED
        BY <2>1, <2>7, <3>2, <1>11 DEF NotifyWaiter, Follows
    <2>2. \E q : Goto(t, q) /\ Follows(Top(t), q)
      BY <2>6, <2>7
    <2>3. Doing(t) /\ Calm(t)
      BY <2>1, <1>11 DEF Doing, Calm, Op, NotifyWaiter, At, Resume, Busy, Wake, Wait, sockets, waiting, locks, router, flow
    <2>4. QED
      BY <1>0, <2>1, <2>2, <2>3, StepOf
  <1>12. CASE ListClients(t)
    <2>1. stack[t] # <<>> /\ Top(t) \in Frame /\ Top(t).op = "gone"
      BY <1>0, <1>12, TopType DEF ListClients
    <2>2. \E q : Goto(t, q) /\ Follows(Top(t), q)
      BY <2>1, <1>12, FieldTypes DEF ListClients, Follows
    <2>3. Doing(t) /\ Calm(t)
      BY <2>1, <1>12 DEF Doing, Calm, Op, ListClients, At, Resume, Busy, Wake, Wait, sockets, waiting, locks, router, flow
    <2>4. QED
      BY <1>0, <2>1, <2>2, <2>3, StepOf
  <1>13. CASE EventNotify(t)
    <2>1. stack[t] # <<>> /\ Top(t) \in Frame /\ Top(t).op = "removed"
      BY <1>0, <1>13, TopType DEF EventNotify
    <2>5. Top(t).c \in SUBSET Socks /\ Top(t).a \in Addrs
      BY <2>1, FieldTypes
    <2>6. ASSUME Top(t).c = {} /\ Goto(t, <<>>) PROVE \E q : Goto(t, q) /\ Follows(Top(t), q)
      BY <2>6 DEF Follows
    <2>7. ASSUME NEW s \in Top(t).c, Goto(t, <<Removed(Top(t).c \ {s}, Top(t).a)>> \o
                   IF port[s] = "open" THEN <<Unlock(s), At2("remove", s, Top(t).a)>> ELSE <<>>)
          PROVE  \E q : Goto(t, q) /\ Follows(Top(t), q)
      <3> DEFINE n == Removed(Top(t).c \ {s}, Top(t).a)
      <3>1. /\ n \in Frame /\ Unlock(s) \in Frame /\ At2("remove", s, Top(t).a) \in Frame
            /\ s \in Socks /\ Top(t).c \ {s} \in SUBSET Socks
        BY <2>5, FrameRouter, FrameAt1, FrameAt2
      <3>2. <<n>> \o <<>> = <<n>> /\ <<n>> \o <<Unlock(s), At2("remove", s, Top(t).a)>>
                                      = <<n, Unlock(s), At2("remove", s, Top(t).a)>>
        BY <3>1, Tuples, FrameSeqs
      <3>3. CASE port[s] = "open"
        <4>1. Goto(t, <<n, Unlock(s), At2("remove", s, Top(t).a)>>)
          BY <2>7, <3>2, <3>3
        <4>2. Follows(Top(t), <<n, Unlock(s), At2("remove", s, Top(t).a)>>)
          BY <2>1, <3>1 DEF Follows
        <4>3. QED
          BY <4>1, <4>2
      <3>4. CASE port[s] # "open"
        <4>1. Goto(t, <<n>>)
          BY <2>7, <3>2, <3>4
        <4>2. Follows(Top(t), <<n>>)
          BY <2>1, <3>1 DEF Follows
        <4>3. QED
          BY <4>1, <4>2
      <3>5. QED
        BY <3>3, <3>4
    <2>2. \E q : Goto(t, q) /\ Follows(Top(t), q)
      BY <2>6, <2>7, <1>13 DEF EventNotify
    <2>3. Doing(t) /\ Calm(t)
      BY <2>1, <1>13 DEF Doing, Calm, Op, EventNotify, At, Resume, Busy, Wake, Wait, sockets, waiting, locks, router, flow
    <2>4. QED
      BY <1>0, <2>1, <2>2, <2>3, StepOf
  <1>14. CASE CoreClose(t)
    <2>1. stack[t] # <<>> /\ Top(t) \in Frame /\ Top(t).op = "coreclose"
      BY <1>0, <1>14, TopType DEF CoreClose
    <2>5. Gone(Top(t).s) \in Frame /\ At1("cleanup", Top(t).s) \in Frame
      BY <2>1, FieldTypes, FrameRouter, FrameAt1, AddrTypes
    <2>6. /\ <<Gone(Top(t).s)>> \o <<>> = <<Gone(Top(t).s)>>
          /\ <<Gone(Top(t).s)>> \o <<At1("cleanup", Top(t).s)>> = <<Gone(Top(t).s), At1("cleanup", Top(t).s)>>
      BY <2>5, Tuples, FrameSeqs
    <2>2. \E q : Goto(t, q) /\ Follows(Top(t), q)
      BY <2>1, <2>6, <1>14, FieldTypes DEF CoreClose, Follows
    <2>3. Doing(t) /\ Calm(t)
      BY <2>1, <1>14 DEF Doing, Calm, Op, CoreClose, At, Resume, Busy, Wake, Wait, sockets, waiting, locks, router, flow
    <2>4. QED
      BY <1>0, <2>1, <2>2, <2>3, StepOf
  <1>15. CASE Confirm(t)
    <2>1. stack[t] # <<>> /\ Top(t) \in Frame /\ Top(t).op = "confirm"
      BY <1>0, <1>15, TopType DEF Confirm
    <2>2. \E q : Goto(t, q) /\ Follows(Top(t), q)
      BY <2>1, <1>15, FieldTypes DEF Confirm, Follows
    <2>3. Doing(t) /\ Calm(t)
      BY <2>1, <1>15 DEF Doing, Calm, Op, Confirm, At, Resume, Busy, Wake, Wait, sockets, waiting, locks, router, flow
    <2>4. QED
      BY <1>0, <2>1, <2>2, <2>3, StepOf
  <1>16. CASE Unwait(t)
    <2>1. stack[t] # <<>> /\ Top(t) \in Frame /\ Top(t).op = "unwait"
      BY <1>0, <1>16, TopType DEF Unwait
    <2>2. \E q : Goto(t, q) /\ Follows(Top(t), q)
      BY <2>1, <1>16, FieldTypes DEF Unwait, Follows
    <2>3. Doing(t) /\ Calm(t)
      BY <2>1, <1>16 DEF Doing, Calm, Op, Unwait, At, Resume, Busy, Wake, Wait, sockets, waiting, locks, router, flow
    <2>4. QED
      BY <1>0, <2>1, <2>2, <2>3, StepOf
  <1>17. CASE RecvWaiter(t)
    <2>1. stack[t] # <<>> /\ Top(t) \in Frame /\ Top(t).op = "recvwaiter"
      BY <1>0, <1>17, TopType DEF RecvWaiter
    <2>2. \E q : Goto(t, q) /\ Follows(Top(t), q)
      BY <2>1, <1>17, FieldTypes DEF RecvWaiter, Follows
    <2>3. Doing(t) /\ Calm(t)
      BY <2>1, <1>17 DEF Doing, Calm, Op, RecvWaiter, At, Resume, Busy, Wake, Wait, sockets, waiting, locks, router, flow
    <2>4. QED
      BY <1>0, <2>1, <2>2, <2>3, StepOf
  <1>18. CASE RecvCheck(t)
    <2>1. stack[t] # <<>> /\ Top(t) \in Frame /\ Top(t).op = "recvcheck"
      BY <1>0, <1>18, TopType DEF RecvCheck
    <2>2. \E q : Goto(t, q) /\ Follows(Top(t), q)
      BY <2>1, <1>18, FieldTypes DEF RecvCheck, Follows
    <2>3. Doing(t) /\ Calm(t)
      BY <2>1, <1>18 DEF Doing, Calm, Op, RecvCheck, At, Resume, Busy, Wake, Wait, sockets, waiting, locks, router, flow
    <2>4. QED
      BY <1>0, <2>1, <2>2, <2>3, StepOf
  <1>19. CASE RecvWake(t)
    <2>1. stack[t] # <<>> /\ Top(t) \in Frame /\ Top(t).op = "recvwait"
      BY <1>0, <1>19, TopType DEF RecvWake
    <2>2. \E q : Goto(t, q) /\ Follows(Top(t), q)
      BY <2>1, <1>19, FieldTypes DEF RecvWake, Follows
    <2>3. Doing(t) /\ Calm(t)
      BY <2>1, <1>19 DEF Doing, Calm, Op, RecvWake, At, Resume, Busy, Wake, Wait, sockets, waiting, locks, router, flow
    <2>4. QED
      BY <1>0, <2>1, <2>2, <2>3, StepOf
  <1>20. CASE Read(t)
    <2>1. stack[t] # <<>> /\ Top(t) \in Frame /\ Top(t).op = "read"
      BY <1>0, <1>20, TopType DEF Read
    <2> DEFINE s == Top(t).s
               a == Head(rxq[s]).from
    <2>5. ASSUME Goto(t, <<>>) PROVE \E q : Goto(t, q) /\ Follows(Top(t), q)
      BY <2>5 DEF Follows
    <2>6. ASSUME rxq[s] # <<>>, Goto(t, <<At1("readdone", s)>> \o
                 IF Head(rxq[s]).confirm /\ sock[s].handle THEN <<At2("confirm", s, a)>> ELSE <<>>)
          PROVE  \E q : Goto(t, q) /\ Follows(Top(t), q)
      <3>1. s \in Socks /\ Head(rxq[s]) \in Packet
        <4>1. s \in Socks
          BY <2>1, FieldTypes
        <4>2. rxq[s] \in Seq(Packet)
          BY <4>1 DEF TypeOK
        <4> HIDE DEF s
        <4>3. QED
          BY <2>6, <4>1, <4>2
      <3>2. CASE Head(rxq[s]).confirm /\ sock[s].handle
        <4>1. a \in Addrs
          BY <3>1, <3>2, PacketTypes
        <4>2. <<At1("readdone", s)>> \o <<At2("confirm", s, a)>> = <<At1("readdone", s), At2("confirm", s, a)>>
          BY <3>1, <4>1, Tuples, FrameAt1, FrameAt2
        <4>3. Goto(t, <<At1("readdone", s), At2("confirm", s, a)>>)
          BY <2>6, <3>2, <4>2
        <4>4. Follows(Top(t), <<At1("readdone", s), At2("confirm", s, a)>>)
          BY <2>1, <4>1 DEF Follows
        <4>5. QED
          BY <4>3, <4>4
      <3>3. CASE ~(Head(rxq[s]).confirm /\ sock[s].handle)
        <4>1. <<At1("readdone", s)>> \o <<>> = <<At1("readdone", s)>>
          BY <3>1, Tuples, FrameAt1, FrameSeqs
        <4>2. Goto(t, <<At1("readdone", s)>>)
          BY <2>6, <3>3, <4>1
        <4>3. Follows(Top(t), <<At1("readdone", s)>>)
          BY <2>1 DEF Follows
        <4>4. QED
          BY <4>2, <4>3
      <3>4. QED
        BY <3>2, <3>3
    <2>2. \E q : Goto(t, q) /\ Follows(Top(t), q)
      BY <2>5, <2>6, <1>20 DEF Read
    <2>3. Doing(t) /\ Calm(t)
      BY <2>1, <1>20 DEF Doing, Calm, Op, Read, At, Resume, Busy, Wake, Wait, sockets, waiting, locks, router, flow
    <2>4. QED
      BY <1>0, <2>1, <2>2, <2>3, StepOf
  <1>21. CASE ReadDone(t)
    <2>1. stack[t] # <<>> /\ Top(t) \in Frame /\ Top(t).op = "readdone"
      BY <1>0, <1>21, TopType DEF ReadDone
    <2>2. \E q : Goto(t, q) /\ Follows(Top(t), q)
      BY <2>1, <1>21, FieldTypes DEF ReadDone, Follows
    <2>3. Doing(t) /\ Calm(t)
      BY <2>1, <1>21 DEF Doing, Calm, Op, ReadDone, At, Resume, Busy, Wake, Wait, sockets, waiting, locks, router, flow
    <2>4. QED
      BY <1>0, <2>1, <2>2, <2>3, StepOf
  <1>22. CASE SendWaiter(t)
    <2>1. stack[t] # <<>> /\ Top(t) \in Frame /\ Top(t).op = "sendwaiter"
      BY <1>0, <1>22, TopType DEF SendWaiter
    <2>2. \E q : Goto(t, q) /\ Follows(Top(t), q)
      BY <2>1, <1>22, FieldTypes DEF SendWaiter, Follows
    <2>3. Doing(t) /\ Calm(t)
      BY <2>1, <1>22 DEF Doing, Calm, Op, SendWaiter, At, Resume, Busy, Wake, Wait, sockets, waiting, locks, router, flow
    <2>4. QED
      BY <1>0, <2>1, <2>2, <2>3, StepOf
  <1>23. CASE CoreSend(t)
    <2>1. stack[t] # <<>> /\ Top(t) \in Frame /\ Top(t).op \in {"send", "trysend"}
      BY <1>0, <1>23, TopType DEF CoreSend
    <2> DEFINE s == Top(t).s
               a == Top(t).a
    <2>5. s \in Socks /\ a \in Addrs /\ (a \notin Peers => a \in Socks)
      BY <2>1, FieldTypes DEF Addrs
    <2>6. ASSUME NEW c \in BOOLEAN, Goto(t, IF a \in Peers THEN <<>> ELSE <<Unlock(a), RxCb(a, Message(s, c))>>)
          PROVE  \E q : Goto(t, q) /\ Follows(Top(t), q)
      BY <2>1, <2>5, <2>6 DEF Follows
    <2>7. ASSUME Goto(t, IF At(t, "send") THEN <<At2("sendwait", s, a)>> ELSE <<>>) PROVE \E q : Goto(t, q) /\ Follows(Top(t), q)
      BY <2>1, <2>7 DEF Follows, At
    <2>8. ASSUME Goto(t, <<>>) PROVE \E q : Goto(t, q) /\ Follows(Top(t), q)
      BY <2>8 DEF Follows
    <2>2. \E q : Goto(t, q) /\ Follows(Top(t), q)
      BY <2>6, <2>7, <2>8, <1>23 DEF CoreSend
    <2>3. Doing(t) /\ Calm(t)
      BY <2>1, <1>23 DEF Doing, Calm, Op, CoreSend, At, Resume, Busy, Wake, Wait, sockets, waiting, locks, router, flow
    <2>4. QED
      BY <1>0, <2>1, <2>2, <2>3, StepOf
  <1>24. CASE SendWake(t)
    <2>1. stack[t] # <<>> /\ Top(t) \in Frame /\ Top(t).op = "sendwait"
      BY <1>0, <1>24, TopType DEF SendWake
    <2>2. \E q : Goto(t, q) /\ Follows(Top(t), q)
      BY <2>1, <1>24, FieldTypes DEF SendWake, Follows
    <2>3. Doing(t) /\ Calm(t)
      BY <2>1, <1>24 DEF Doing, Calm, Op, SendWake, At, Resume, Busy, Wake, Wait, sockets, waiting, locks, router, flow
    <2>4. QED
      BY <1>0, <2>1, <2>2, <2>3, StepOf
  <1>25. CASE PollGet(t)
    <2>1. stack[t] # <<>> /\ Top(t) \in Frame /\ Top(t).op = "poll"
      BY <1>0, <1>25, TopType DEF PollGet
    <2>2. \E q : Goto(t, q) /\ Follows(Top(t), q)
      BY <2>1, <1>25, FieldTypes DEF PollGet, Follows
    <2>3. Doing(t) /\ Calm(t)
      BY <2>1, <1>25 DEF Doing, Calm, Op, PollGet, At, Resume, Busy, Wake, Wait, sockets, waiting, locks, router, flow
    <2>4. QED
      BY <1>0, <2>1, <2>2, <2>3, StepOf
  <1>26. CASE PollLook(t)
    <2>1. stack[t] # <<>> /\ Top(t) \in Frame /\ Top(t).op = "polltest"
      BY <1>0, <1>26, TopType DEF PollLook
    <2>2. \E q : Goto(t, q) /\ Follows(Top(t), q)
      BY <2>1, <1>26, FieldTypes DEF PollLook, Follows
    <2>3. Doing(t) /\ Calm(t)
      BY <2>1, <1>26 DEF Doing, Calm, Op, PollLook, At, Resume, Busy, Wake, Wait, sockets, waiting, locks, router, flow
    <2>4. QED
      BY <1>0, <2>1, <2>2, <2>3, StepOf
  <1>27. CASE PollSleep(t)
    <2>1. stack[t] # <<>> /\ Top(t) \in Frame /\ Top(t).op = "poll"
      BY <1>0, <1>27, TopType DEF PollSleep
    <2>2. \E q : Goto(t, q) /\ Follows(Top(t), q)
      BY <2>1, <1>27, FieldTypes DEF PollSleep, Follows
    <2>3. Doing(t) /\ Calm(t)
      BY <2>1, <1>27 DEF Doing, Calm, Op, PollSleep, At, Resume, Busy, Wake, Wait, sockets, waiting, locks, router, flow
    <2>4. QED
      BY <1>0, <2>1, <2>2, <2>3, StepOf
  <1>28. CASE PollWake(t)
    <2>1. stack[t] # <<>> /\ Top(t) \in Frame /\ Top(t).op = "pollwait"
      BY <1>0, <1>28, TopType DEF PollWake
    <2>5. waiter[t].f \in SUBSET Socks
      <3>1. Len(stack[t]) \in DOMAIN stack[t] /\ stack[t][Len(stack[t])] = Top(t)
        BY <1>0, <2>1 DEF StackType, Top
      <3>2. Len(stack[t]) = 1
        BY <2>1, <3>1 DEF Shape, OkAt
      <3>3. waiter[t] # Null
        BY <2>1, <3>1, <3>2 DEF Polling
      <3>4. QED
        BY <3>3 DEF TypeOK, Entries
    <2>2. \E q : Goto(t, q) /\ Follows(Top(t), q)
      BY <2>1, <2>5, <1>28, FieldTypes DEF PollWake, Follows
    <2>3. Doing(t) /\ Calm(t)
      BY <2>1, <1>28 DEF Doing, Calm, Op, PollWake, At, Resume, Busy, Wake, Wait, sockets, waiting, locks, router, flow
    <2>4. QED
      BY <1>0, <2>1, <2>2, <2>3, StepOf
  <1>29. CASE PollEnd(t)
    <2>1. stack[t] # <<>> /\ Top(t) \in Frame /\ Top(t).op = "pollend"
      BY <1>0, <1>29, TopType DEF PollEnd
    <2>2. \E q : Goto(t, q) /\ Follows(Top(t), q)
      BY <2>1, <1>29, FieldTypes DEF PollEnd, Follows
    <2>3. Doing(t) /\ Calm(t)
      BY <2>1, <1>29 DEF Doing, Calm, Op, PollEnd, At, Resume, Busy, Wake, Wait, sockets, waiting, locks, router, flow
    <2>4. QED
      BY <1>0, <2>1, <2>2, <2>3, StepOf
  <1>30. CASE SendTimeOut(t)
    <2>1. stack[t] # <<>> /\ Top(t) \in Frame /\ Top(t).op = "sendwait"
      BY <1>0, <1>30, TopType DEF SendTimeOut
    <2>2. \E q : Goto(t, q) /\ Follows(Top(t), q)
      BY <2>1, <1>30, FieldTypes DEF SendTimeOut, Follows
    <2>3. Doing(t) /\ Calm(t)
      BY <2>1, <1>30 DEF Doing, Calm, Op, SendTimeOut, At, Resume, Busy, Wake, Wait, sockets, waiting, locks, router, flow
    <2>4. QED
      BY <1>0, <2>1, <2>2, <2>3, StepOf
  <1>31. CASE PollTimeOut(t)
    <2>1. stack[t] # <<>> /\ Top(t) \in Frame /\ Top(t).op = "pollwait"
      BY <1>0, <1>31, TopType DEF PollTimeOut
    <2>2. \E q : Goto(t, q) /\ Follows(Top(t), q)
      BY <2>1, <1>31, FieldTypes DEF PollTimeOut, Follows
    <2>3. Doing(t) /\ Calm(t)
      BY <2>1, <1>31 DEF Doing, Calm, Op, PollTimeOut, At, Resume, Busy, Wake, Wait, sockets, waiting, locks, router, flow
    <2>4. QED
      BY <1>0, <2>1, <2>2, <2>3, StepOf
  <1>32. QED
    BY <1>1, <1>2, <1>3, <1>4, <1>5, <1>6, <1>7, <1>8, <1>9, <1>10, <1>11, <1>12, <1>13,
       <1>14, <1>15, <1>16, <1>17, <1>18, <1>19, <1>20, <1>21, <1>22, <1>23, <1>24, <1>25,
       <1>26, <1>27, <1>28, <1>29, <1>30, <1>31 DEF Run

\* Every call of a socket is a Step.
LEMMA CallSteps ==
  ASSUME TypeOK, NEW t \in Threads, NEW s \in Socks, Call(t, s)
  PROVE  \E u \in Threads : \E p \in Seq(Frame) : Step(u, p)
  <1>0. StackType /\ queue \in [Addrs -> Seq(Socks)]
    BY DEF TypeOK, StackType
  <1>1. Begin(t)
    BY DEF Begin
  <1>2. SUFFICES Calm(t) /\ Idle(t) /\ \E q : Start(t, q) /\ Begins(q)
    BY <1>0, <1>1, StepOfStart
  <1>3. Put(s) \in Frame /\ At1("coreclose", s) \in Frame /\ At1("read", s) \in Frame
        /\ At1("unwait", s) \in Frame /\ At1("recvwaiter", s) \in Frame
        /\ \A a \in Addrs : At2("sendwaiter", s, a) \in Frame /\ At2("trysend", s, a) \in Frame
    BY FrameAt1, FrameAt2
  <1>4. CASE Open(t, s)
    <2>1. Calm(t) /\ Idle(t)
      BY <1>4 DEF Open, Calm, Op, Idle, sockets, waiting, locks, router, flow
    <2>2. Start(t, <<>>)
      BY <1>0, <1>4 DEF Open, Idle, Start, StackType
    <2>3. QED
      BY <2>1, <2>2 DEF Begins
  <1>5. CASE Connect(t, s)
    BY <1>5 DEF Connect, Get, Calm, Op, Idle, Begins, sockets, waiting, locks, router, flow
  <1>6. CASE SetControl(t, s)
    BY <1>6 DEF SetControl, Get, Calm, Op, Idle, Begins, sockets, waiting, locks, router, flow
  <1>7. ASSUME NEW call \in {"shutRd", "shutWr", "close"}, Shutdown(t, s, call)
        PROVE  Calm(t) /\ Idle(t) /\ \E q : Start(t, q) /\ Begins(q)
    <2>1. /\ <<Put(s)>> \o <<>> = <<Put(s)>>
          /\ <<Put(s)>> \o <<At1("coreclose", s)>> = <<Put(s), At1("coreclose", s)>>
      BY <1>3, Tuples, FrameSeqs
    <2>2. Start(t, <<Put(s)>>) \/ Start(t, <<Put(s), At1("coreclose", s)>>)
      BY <1>7, <2>1 DEF Shutdown
    <2>3. Calm(t) /\ Idle(t)
      BY <1>7 DEF Shutdown, Get, Calm, Op, Idle, sockets, waiting, locks, router, flow
    <2>4. QED
      BY <2>2, <2>3 DEF Begins
  <1>8. ASSUME NEW call \in {"recv", "tryrecv"}, Recv(t, s, call)
        PROVE  Calm(t) /\ Idle(t) /\ \E q : Start(t, q) /\ Begins(q)
    <2>1. /\ <<Put(s)>> \o <<>> = <<Put(s)>>
          /\ <<Put(s)>> \o <<At1("read", s)>> = <<Put(s), At1("read", s)>>
          /\ <<Put(s)>> \o <<At1("read", s), At1("unwait", s), At1("recvwaiter", s)>>
               = <<Put(s), At1("read", s), At1("unwait", s), At1("recvwaiter", s)>>
      BY <1>3, Tuples, FrameSeqs
    <2>2. \/ Start(t, <<Put(s)>>) \/ Start(t, <<Put(s), At1("read", s)>>)
          \/ Start(t, <<Put(s), At1("read", s), At1("unwait", s), At1("recvwaiter", s)>>)
      BY <1>8, <2>1 DEF Recv
    <2>3. Calm(t) /\ Idle(t)
      BY <1>8 DEF Recv, Get, Calm, Op, Idle, sockets, waiting, locks, router, flow
    <2>4. QED
      BY <2>2, <2>3 DEF Begins
  <1>9. ASSUME NEW call \in {"send", "trysend"}, Send(t, s, call)
        PROVE  Calm(t) /\ Idle(t) /\ \E q : Start(t, q) /\ Begins(q)
    <2>1. PICK a : \/ Start(t, <<Put(s)>> \o <<>>)
                   \/ a \in Addrs /\ Start(t, <<Put(s)>> \o <<At1("unwait", s), At2("sendwaiter", s, a)>>)
                   \/ a \in Addrs /\ Start(t, <<Put(s)>> \o <<At2("trysend", s, a)>>)
      BY <1>9 DEF Send
    <2>2. CASE a \in Addrs
      <3>1. /\ <<Put(s)>> \o <<>> = <<Put(s)>>
            /\ <<Put(s)>> \o <<At2("trysend", s, a)>> = <<Put(s), At2("trysend", s, a)>>
            /\ <<Put(s)>> \o <<At1("unwait", s), At2("sendwaiter", s, a)>>
                 = <<Put(s), At1("unwait", s), At2("sendwaiter", s, a)>>
        BY <1>3, <2>2, Tuples, FrameSeqs
      <3>2. \/ Start(t, <<Put(s)>>)
            \/ Start(t, <<Put(s), At1("unwait", s), At2("sendwaiter", s, a)>>)
            \/ Start(t, <<Put(s), At2("trysend", s, a)>>)
        BY <2>1, <3>1
      <3>3. \E q : Start(t, q) /\ Begins(q)
        BY <2>2, <3>2 DEF Begins
      <3>4. Calm(t) /\ Idle(t)
        BY <1>9 DEF Send, Get, Calm, Op, Idle, sockets, waiting, locks, router, flow
      <3>5. QED
        BY <3>3, <3>4
    <2>3. CASE a \notin Addrs
      <3>1. <<Put(s)>> \o <<>> = <<Put(s)>>
        BY <1>3, Tuples, FrameSeqs
      <3>2. Start(t, <<Put(s)>>)
        BY <2>1, <2>3, <3>1
      <3>3. Calm(t) /\ Idle(t)
        BY <1>9 DEF Send, Get, Calm, Op, Idle, sockets, waiting, locks, router, flow
      <3>4. QED
        BY <3>2, <3>3 DEF Begins
    <2>4. QED
      BY <2>2, <2>3
  <1>10. QED
    BY <1>4, <1>5, <1>6, <1>7, <1>8, <1>9 DEF Call

\* So is the start of poll, and what the network does.
LEMMA OtherSteps ==
  ASSUME TypeOK, NEW t \in Threads,
         \/ \E f \in SUBSET Socks, ev \in SUBSET {"in", "out"} : BeginPoll(t, f, ev)
         \/ t = Net /\ \E p \in Peers : PeerConfirms(p) \/ PeerGone(p) \/ \E s \in Socks : Arrive(p, s)
  PROVE  \E u \in Threads : \E p \in Seq(Frame) : Step(u, p)
  <1>0. StackType /\ queue \in [Addrs -> Seq(Socks)]
    BY DEF TypeOK, StackType
  <1>1. Begin(t)
    BY DEF Begin
  <1>2. SUFFICES Calm(t) /\ Idle(t) /\ \E q : Start(t, q) /\ Begins(q)
    BY <1>0, <1>1, StepOfStart
  <1>3. ASSUME NEW f \in SUBSET Socks, NEW ev \in SUBSET {"in", "out"}, BeginPoll(t, f, ev)
        PROVE  Calm(t) /\ Idle(t) /\ \E q : Start(t, q) /\ Begins(q)
    BY <1>3 DEF BeginPoll, Wait, Calm, Op, Idle, Begins, sockets, waiting, locks, router, flow
  <1>4. ASSUME t = Net, NEW p \in Peers, PeerConfirms(p)
        PROVE  Calm(t) /\ Idle(t) /\ \E q : Start(t, q) /\ Begins(q)
    <2>1. queue[p] \in Seq(Socks) /\ p \in Addrs
      BY <1>0, AddrTypes
    <2>2. QED
      BY <1>4, <2>1 DEF PeerConfirms, Resume, Calm, Op, Idle, Begins, sockets, waiting, locks, router, flow
  <1>5. ASSUME t = Net, NEW p \in Peers, PeerGone(p)
        PROVE  Calm(t) /\ Idle(t) /\ \E q : Start(t, q) /\ Begins(q)
    <2>1. queue[p] \in Seq(Socks) /\ p \in Addrs
      BY <1>0, AddrTypes
    <2>2. QED
      BY <1>5, <2>1 DEF PeerGone, Resume, Calm, Op, Idle, Begins, sockets, waiting, locks, router, flow
  <1>6. ASSUME t = Net, NEW p \in Peers, NEW s \in Socks, Arrive(p, s)
        PROVE  Calm(t) /\ Idle(t) /\ \E q : Start(t, q) /\ Begins(q)
    <2>1. Message(p, sent[s][p] + 1 = Quota) \in Packet
      BY AddrTypes, PacketTypes
    <2>2. QED
      BY <1>6, <2>1, ZenonT(60) DEF Arrive, Calm, Op, Idle, Begins, sockets, waiting, locks,
         router, flow
  <1>7. QED
    BY <1>3, <1>4, <1>5, <1>6

\* Every step of the specification is a Step of one thread.
LEMMA NextSteps ==
  ASSUME TypeOK, Shape, Polling, Next
  PROVE  \E u \in Threads : \E p \in Seq(Frame) : Step(u, p)
  <1>1. ASSUME NEW t \in Users, NEW s \in Socks, Call(t, s)
        PROVE  \E u \in Threads : \E p \in Seq(Frame) : Step(u, p)
    BY <1>1, CallSteps, AddrTypes
  <1>2. ASSUME NEW t \in Users, NEW f \in SUBSET Socks, NEW ev \in SUBSET {"in", "out"}, BeginPoll(t, f, ev)
        PROVE  \E u \in Threads : \E p \in Seq(Frame) : Step(u, p)
    BY <1>2, OtherSteps, AddrTypes
  <1>3. ASSUME NEW t \in Threads, Run(t) \/ SendTimeOut(t) \/ PollTimeOut(t)
        PROVE  \E u \in Threads : \E p \in Seq(Frame) : Step(u, p)
    BY <1>3, RunSteps
  <1>4. ASSUME NEW p \in Peers, PeerConfirms(p) \/ PeerGone(p) \/ \E s \in Socks : Arrive(p, s)
        PROVE  \E u \in Threads : \E q \in Seq(Frame) : Step(u, q)
    BY <1>4, OtherSteps, AddrTypes
  <1>5. QED
    BY <1>1, <1>2, <1>3, <1>4 DEF Next

(***************************************************************************)
(* Which operations follow which                                           *)
(***************************************************************************)

\* The frames of operations that are neither left nor entered stay.
LEMMA OpsKept ==
  ASSUME StackType, NEW t \in Threads, NEW q \in Seq(Frame), Goto(t, q), NEW O,
         stack[t] # <<>> => Top(t).op \notin O, \A k \in DOMAIN q : q[k].op \notin O
  PROVE  \A u \in Threads : \A i :
           /\ (i \in DOMAIN stack'[u] /\ stack'[u][i].op \in O)
                <=> (i \in DOMAIN stack[u] /\ stack[u][i].op \in O)
           /\ i \in DOMAIN stack[u] /\ stack[u][i].op \in O => stack'[u][i] = stack[u][i]
  <1> DEFINE b == Len(Below(t))
  <1>1. SUFFICES ASSUME NEW i
                 PROVE  /\ (i \in DOMAIN stack'[t] /\ stack'[t][i].op \in O)
                             <=> (i \in DOMAIN stack[t] /\ stack[t][i].op \in O)
                        /\ i \in DOMAIN stack[t] /\ stack[t][i].op \in O => stack'[t][i] = stack[t][i]
    BY GotoFrames, SMTT(30)
  <1>2. CASE i \in 1..b
    BY <1>2, GotoFrames
  <1>3. CASE i \notin 1..b
    <2>1. ASSUME i \in DOMAIN stack[t] PROVE stack[t][i].op \notin O
      <3>1. i = b + 1 /\ stack[t] # <<>>
        BY <1>3, <2>1, GotoFrames
      <3>2. QED
        BY <3>1, GotoFrames
    <2>2. ASSUME i \in DOMAIN stack'[t] PROVE stack'[t][i].op \notin O
      <3>1. i - b \in DOMAIN q /\ b + (i - b) = i
        BY <1>3, <2>2, GotoFrames
      <3>2. stack'[t][i] = q[i - b]
        BY <3>1, GotoFrames
      <3>3. QED
        BY <3>1, <3>2
    <2>3. QED
      BY <2>1, <2>2
  <1>4. QED
    BY <1>2, <1>3

\* A step that neither leaves nor enters such frames keeps their places.
LEMMA FramesKept ==
  ASSUME StackType, NEW t \in Threads, NEW q \in Seq(Frame), Goto(t, q), NEW O,
         stack[t] # <<>> => Top(t).op \notin O, \A k \in DOMAIN q : q[k].op \notin O
  PROVE  \A s : Frames(O, s)' = Frames(O, s)
  <1>1. SUFFICES ASSUME NEW s PROVE Frames(O, s)' = Frames(O, s)
    OBVIOUS
  <1>2. ASSUME NEW u \in Threads, NEW i PROVE <<u, i>> \in Frames(O, s)' <=> <<u, i>> \in Frames(O, s)
    BY FramesIn, FramesInNext, OpsKept
  <1>3. \A p \in Frames(O, s)' : p \in Frames(O, s)
    BY <1>2, FramesInNext
  <1>4. \A p \in Frames(O, s) : p \in Frames(O, s)'
    BY <1>2, FramesIn
  <1>5. QED
    BY <1>3, <1>4

\* Which frames follow which
LEMMA FollowsOps ==
  ASSUME NEW f, NEW q, Follows(f, q), NEW k \in DOMAIN q
  PROVE  LET op == q[k].op
         IN /\ op \in {"put", "unlock", "cleanup", "closed", "resumetx", "flush", "recvcheck", "recvwait", "readdone",
                       "send", "sendwait", "confirm", "resume", "remove", "unblock", "rx", "add", "poll",
                       "polltest", "pollwait", "pollend", "notify", "gone", "removed"}
            /\ op = "put" => f.op \in {"closed", "polltest"}
            /\ op = "unlock" => f.op \in {"notify", "removed", "confirm", "send", "trysend"}
            /\ op = "cleanup" => f.op \in {"unlock", "coreclose"}
            /\ op = "closed" => f.op = "cleanup"
            /\ op = "resumetx" => f.op = "confirm"
            /\ op = "flush" => f.op = "remove"
            /\ op = "recvcheck" => f.op \in {"recvwaiter", "recvwait"}
            /\ op = "recvwait" => f.op = "recvcheck"
            /\ op = "readdone" => f.op = "read"
            /\ op = "send" => f.op \in {"sendwaiter", "sendwait"}
            /\ op = "sendwait" => f.op = "send"
            /\ op = "confirm" => f.op \in {"rx", "read"}
            /\ op = "poll" => f.op \in {"polltest", "pollwait"}
            /\ op = "polltest" => f.op = "poll"
            /\ op = "pollwait" => f.op = "poll"
            /\ op = "pollend" => f.op \in {"poll", "pollwait"}
            /\ op = "notify" => f.op \in {"resumetx", "cleanup", "notify"}
            /\ op = "resume" => f.op = "notify"
            /\ op = "rx" => f.op \in {"send", "trysend"}
            /\ op = "add" => f.op \in {"unblock", "rx", "remove"}
            /\ op = "unblock" => f.op \in {"put", "add", "resume", "flush"}
  <1>1. CASE q = <<>>
    BY <1>1 DEF At1, At2, Put, Unlock, Unblock, RxCb, Add, Poll, PollTest, PollWaits, PollEnds, Notify, Gone, Removed
  <1>2. CASE f.op = "put" /\ q = <<Unblock(f.s, {"nval"}, Null)>>
    BY <1>2 DEF At1, At2, Put, Unlock, Unblock, RxCb, Add, Poll, PollTest, PollWaits, PollEnds, Notify, Gone, Removed
  <1>3. CASE f.op = "unblock" /\ f.a # Null /\ q = <<Add(f.s, Resumed(f.a))>>
    BY <1>3 DEF At1, At2, Put, Unlock, Unblock, RxCb, Add, Poll, PollTest, PollWaits, PollEnds, Notify, Gone, Removed
  <1>4. CASE f.op = "add" /\ q = <<Unblock(f.s, {"in"}, Null)>>
    BY <1>4 DEF At1, At2, Put, Unlock, Unblock, RxCb, Add, Poll, PollTest, PollWaits, PollEnds, Notify, Gone, Removed
  <1>5. CASE f.op = "rx" /\ q = <<Add(f.s, f.m)>>
    BY <1>5 DEF At1, At2, Put, Unlock, Unblock, RxCb, Add, Poll, PollTest, PollWaits, PollEnds, Notify, Gone, Removed
  <1>6. CASE f.op = "rx" /\ f.m.confirm /\ q = <<At2("confirm", f.s, f.m.from)>>
    BY <1>6 DEF At1, At2, Put, Unlock, Unblock, RxCb, Add, Poll, PollTest, PollWaits, PollEnds, Notify, Gone, Removed
  <1>7. CASE f.op = "resume" /\ q = <<Unblock(f.s, {"out"}, f.a)>>
    BY <1>7 DEF At1, At2, Put, Unlock, Unblock, RxCb, Add, Poll, PollTest, PollWaits, PollEnds, Notify, Gone, Removed
  <1>8. CASE f.op = "remove" /\ q = <<Add(f.s, News)>>
    BY <1>8 DEF At1, At2, Put, Unlock, Unblock, RxCb, Add, Poll, PollTest, PollWaits, PollEnds, Notify, Gone, Removed
  <1>9. CASE f.op = "remove" /\ q = <<At1("flush", f.s)>>
    BY <1>9 DEF At1, At2, Put, Unlock, Unblock, RxCb, Add, Poll, PollTest, PollWaits, PollEnds, Notify, Gone, Removed
  <1>10. CASE f.op = "flush" /\ q = <<Unblock(f.s, {"in", "hup"}, Null)>>
    BY <1>10 DEF At1, At2, Put, Unlock, Unblock, RxCb, Add, Poll, PollTest, PollWaits, PollEnds, Notify, Gone, Removed
  <1>11. CASE f.op = "closed" /\ q = <<Put(f.s)>>
    BY <1>11 DEF At1, At2, Put, Unlock, Unblock, RxCb, Add, Poll, PollTest, PollWaits, PollEnds, Notify, Gone, Removed
  <1>12. CASE f.op = "unlock" /\ q = <<At1("cleanup", f.s)>>
    BY <1>12 DEF At1, At2, Put, Unlock, Unblock, RxCb, Add, Poll, PollTest, PollWaits, PollEnds, Notify, Gone, Removed
  <1>13. CASE f.op = "resumetx" /\ q = <<Notify(queue[f.s], f.s)>>
    BY <1>13 DEF At1, At2, Put, Unlock, Unblock, RxCb, Add, Poll, PollTest, PollWaits, PollEnds, Notify, Gone, Removed
  <1>14. CASE f.op = "cleanup" /\ q = <<At1("closed", f.s), Notify(queue[f.s], f.s)>>
    BY <1>14 DEF At1, At2, Put, Unlock, Unblock, RxCb, Add, Poll, PollTest, PollWaits, PollEnds, Notify, Gone, Removed
  <1>15. CASE f.op = "notify" /\ f.q # <<>> /\ q = <<Notify(Tail(f.q), f.a)>>
    BY <1>15 DEF At1, At2, Put, Unlock, Unblock, RxCb, Add, Poll, PollTest, PollWaits, PollEnds, Notify, Gone, Removed
  <1>16. CASE f.op = "notify" /\ f.q # <<>>
       /\ q = <<Notify(Tail(f.q), f.a), Unlock(Head(f.q)), At2("resume", Head(f.q), f.a)>>
    BY <1>16 DEF At1, At2, Put, Unlock, Unblock, RxCb, Add, Poll, PollTest, PollWaits, PollEnds, Notify, Gone, Removed
  <1>17. CASE f.op = "gone" /\ \E c \in SUBSET Socks : q = <<Removed(c, f.a)>>
    BY <1>17 DEF At1, At2, Put, Unlock, Unblock, RxCb, Add, Poll, PollTest, PollWaits, PollEnds, Notify, Gone, Removed
  <1>18. CASE f.op = "removed" /\ \E c \in SUBSET Socks : q = <<Removed(c, f.a)>>
    BY <1>18 DEF At1, At2, Put, Unlock, Unblock, RxCb, Add, Poll, PollTest, PollWaits, PollEnds, Notify, Gone, Removed
  <1>19. CASE f.op = "removed" /\ \E c \in SUBSET Socks, s \in Socks :
       q = <<Removed(c, f.a), Unlock(s), At2("remove", s, f.a)>>
    BY <1>19 DEF At1, At2, Put, Unlock, Unblock, RxCb, Add, Poll, PollTest, PollWaits, PollEnds, Notify, Gone, Removed
  <1>20. CASE f.op = "coreclose" /\ q = <<Gone(f.s)>>
    BY <1>20 DEF At1, At2, Put, Unlock, Unblock, RxCb, Add, Poll, PollTest, PollWaits, PollEnds, Notify, Gone, Removed
  <1>21. CASE f.op = "coreclose" /\ q = <<Gone(f.s), At1("cleanup", f.s)>>
    BY <1>21 DEF At1, At2, Put, Unlock, Unblock, RxCb, Add, Poll, PollTest, PollWaits, PollEnds, Notify, Gone, Removed
  <1>22. CASE f.op = "confirm" /\ q = <<Unlock(f.s), At1("resumetx", f.s)>>
    BY <1>22 DEF At1, At2, Put, Unlock, Unblock, RxCb, Add, Poll, PollTest, PollWaits, PollEnds, Notify, Gone, Removed
  <1>23. CASE f.op \in {"recvwaiter", "recvwait"} /\ q = <<At1("recvcheck", f.s)>>
    BY <1>23 DEF At1, At2, Put, Unlock, Unblock, RxCb, Add, Poll, PollTest, PollWaits, PollEnds, Notify, Gone, Removed
  <1>24. CASE f.op = "recvcheck" /\ q = <<At1("recvwait", f.s)>>
    BY <1>24 DEF At1, At2, Put, Unlock, Unblock, RxCb, Add, Poll, PollTest, PollWaits, PollEnds, Notify, Gone, Removed
  <1>25. CASE f.op = "read" /\ q = <<At1("readdone", f.s)>>
    BY <1>25 DEF At1, At2, Put, Unlock, Unblock, RxCb, Add, Poll, PollTest, PollWaits, PollEnds, Notify, Gone, Removed
  <1>26. CASE f.op = "read" /\ \E a \in Addrs : q = <<At1("readdone", f.s), At2("confirm", f.s, a)>>
    BY <1>26 DEF At1, At2, Put, Unlock, Unblock, RxCb, Add, Poll, PollTest, PollWaits, PollEnds, Notify, Gone, Removed
  <1>27. CASE f.op \in {"sendwaiter", "sendwait"} /\ q = <<At2("send", f.s, f.a)>>
    BY <1>27 DEF At1, At2, Put, Unlock, Unblock, RxCb, Add, Poll, PollTest, PollWaits, PollEnds, Notify, Gone, Removed
  <1>28. CASE f.op = "send" /\ q = <<At2("sendwait", f.s, f.a)>>
    BY <1>28 DEF At1, At2, Put, Unlock, Unblock, RxCb, Add, Poll, PollTest, PollWaits, PollEnds, Notify, Gone, Removed
  <1>29. CASE f.op \in {"send", "trysend"} /\ f.a \in Socks
       /\ \E c \in BOOLEAN : q = <<Unlock(f.a), RxCb(f.a, Message(f.s, c))>>
    BY <1>29 DEF At1, At2, Put, Unlock, Unblock, RxCb, Add, Poll, PollTest, PollWaits, PollEnds, Notify, Gone, Removed
  <1>30. CASE f.op = "poll" /\ \E s \in Socks, w \in SUBSET Socks, r \in BOOLEAN : q = <<PollTest(s, w, r)>>
    BY <1>30 DEF At1, At2, Put, Unlock, Unblock, RxCb, Add, Poll, PollTest, PollWaits, PollEnds, Notify, Gone, Removed
  <1>31. CASE f.op = "poll" /\ q = <<PollWaits>>
    BY <1>31 DEF At1, At2, Put, Unlock, Unblock, RxCb, Add, Poll, PollTest, PollWaits, PollEnds, Notify, Gone, Removed
  <1>32. CASE f.op = "polltest" /\ \E r \in BOOLEAN : q = <<Poll(f.f, r), Put(f.s)>>
    BY <1>32 DEF At1, At2, Put, Unlock, Unblock, RxCb, Add, Poll, PollTest, PollWaits, PollEnds, Notify, Gone, Removed
  <1>33. CASE f.op = "pollwait" /\ \E w \in SUBSET Socks : q = <<Poll(w, FALSE)>>
    BY <1>33 DEF At1, At2, Put, Unlock, Unblock, RxCb, Add, Poll, PollTest, PollWaits, PollEnds, Notify, Gone, Removed
  <1>34. CASE f.op \in {"poll", "pollwait"} /\ q = <<PollEnds>>
    BY <1>34 DEF At1, At2, Put, Unlock, Unblock, RxCb, Add, Poll, PollTest, PollWaits, PollEnds, Notify, Gone, Removed
  <1>35. QED
    BY <1>1, <1>2, <1>3, <1>4, <1>5, <1>6, <1>7, <1>8, <1>9, <1>10, <1>11, <1>12, <1>13,
       <1>14, <1>15, <1>16, <1>17, <1>18, <1>19, <1>20, <1>21, <1>22, <1>23, <1>24, <1>25,
       <1>26, <1>27, <1>28, <1>29, <1>30, <1>31, <1>32, <1>33, <1>34 DEF Follows

\* The frames that a call or notification begins with
LEMMA BeginsOps ==
  ASSUME NEW q, Begins(q), NEW k \in DOMAIN q
  PROVE  q[k].op \in {"put", "coreclose", "read", "unwait", "recvwaiter", "sendwaiter", "trysend", "unlock", "rx",
                     "poll", "notify", "gone"}
  <1>1. CASE q = <<>>
    BY <1>1 DEF At1, At2, Put, Unlock, Unblock, RxCb, Add, Poll, PollTest, PollWaits, PollEnds, Notify, Gone, Removed
  <1>2. CASE \E s \in Socks : q = <<Put(s)>>
    BY <1>2 DEF At1, At2, Put, Unlock, Unblock, RxCb, Add, Poll, PollTest, PollWaits, PollEnds, Notify, Gone, Removed
  <1>3. CASE \E s \in Socks : q = <<Put(s), At1("coreclose", s)>>
    BY <1>3 DEF At1, At2, Put, Unlock, Unblock, RxCb, Add, Poll, PollTest, PollWaits, PollEnds, Notify, Gone, Removed
  <1>4. CASE \E s \in Socks : q = <<Put(s), At1("read", s)>>
    BY <1>4 DEF At1, At2, Put, Unlock, Unblock, RxCb, Add, Poll, PollTest, PollWaits, PollEnds, Notify, Gone, Removed
  <1>5. CASE \E s \in Socks : q = <<Put(s), At1("read", s), At1("unwait", s), At1("recvwaiter", s)>>
    BY <1>5 DEF At1, At2, Put, Unlock, Unblock, RxCb, Add, Poll, PollTest, PollWaits, PollEnds, Notify, Gone, Removed
  <1>6. CASE \E s \in Socks, a \in Addrs : q = <<Put(s), At1("unwait", s), At2("sendwaiter", s, a)>>
    BY <1>6 DEF At1, At2, Put, Unlock, Unblock, RxCb, Add, Poll, PollTest, PollWaits, PollEnds, Notify, Gone, Removed
  <1>7. CASE \E s \in Socks, a \in Addrs : q = <<Put(s), At2("trysend", s, a)>>
    BY <1>7 DEF At1, At2, Put, Unlock, Unblock, RxCb, Add, Poll, PollTest, PollWaits, PollEnds, Notify, Gone, Removed
  <1>8. CASE \E s \in Socks, m \in Packet : q = <<Unlock(s), RxCb(s, m)>>
    BY <1>8 DEF At1, At2, Put, Unlock, Unblock, RxCb, Add, Poll, PollTest, PollWaits, PollEnds, Notify, Gone, Removed
  <1>9. CASE \E w \in SUBSET Socks : q = <<Poll(w, FALSE)>>
    BY <1>9 DEF At1, At2, Put, Unlock, Unblock, RxCb, Add, Poll, PollTest, PollWaits, PollEnds, Notify, Gone, Removed
  <1>10. CASE \E w \in Seq(Socks), a \in Addrs : q = <<Notify(w, a)>>
    BY <1>10 DEF At1, At2, Put, Unlock, Unblock, RxCb, Add, Poll, PollTest, PollWaits, PollEnds, Notify, Gone, Removed
  <1>11. CASE \E w \in Seq(Socks), a \in Addrs : q = <<Gone(a), Notify(w, a)>>
    BY <1>11 DEF At1, At2, Put, Unlock, Unblock, RxCb, Add, Poll, PollTest, PollWaits, PollEnds, Notify, Gone, Removed
  <1>12. QED
    BY <1>1, <1>2, <1>3, <1>4, <1>5, <1>6, <1>7, <1>8, <1>9, <1>10, <1>11 DEF Begins

(***************************************************************************)
(* The parts of the inductive invariant                                    *)
(***************************************************************************)

\* Thread t reads from socket s: it took rx_q_lock.
Reads(t, s) == 2 \in DOMAIN stack[t] /\ stack[t][2] = At1("readdone", s)

RxLocks ==
  \A s \in Socks :
    /\ \A t \in Threads : rxLock[s] = t <=> Reads(t, s)
    /\ rxLock[s] # Null => rxq[s] # <<>>

InPoll(t) == 1 \in DOMAIN stack[t] /\ stack[t][1].op \in {"poll", "polltest", "pollend"}

WaitLocks == \A t \in Threads : waitLock = t <=> InPoll(t)

\* The entry of a thread in g_waiters_list is the one its call made.
Entry(f, w) ==
  /\ f.op \in {"recvcheck", "recvwait"} => w = [f |-> {f.s}, ev |-> {"in"}, a |-> Null]
  /\ f.op \in {"send", "sendwait"} => w = [f |-> {f.s}, ev |-> {"out"}, a |-> f.a]
  /\ f.op \in {"poll", "polltest", "pollwait"} => w # Null /\ w.a = Null
  /\ f.op \in {"poll", "polltest"} => f.f \subseteq w.f
  /\ f.op = "polltest" => f.s \in w.f /\ f.s \notin f.f

Waiters == \A t \in Threads : \A i \in DOMAIN stack[t] : Entry(stack[t][i], waiter[t])

AtMostOne(S) == \A p, q \in S : p = q

\* A port is closed once, and cleaned up once, when nobody holds it any more.
PortOk(s) ==
  /\ port[s] = "none" => ~sock[s].listed /\ ~sock[s].handle
  /\ sock[s].handle => port[s] = "open" /\ Frames({"coreclose"}, s) = {}
  /\ Frames({"coreclose"}, s) # {} => port[s] = "open"
  /\ AtMostOne(Frames({"coreclose"}, s)) /\ AtMostOne(Frames({"cleanup", "closed"}, s))
  /\ Frames({"unlock"}, s) # {} => port[s] \in {"open", "removed"}
  /\ Frames({"cleanup", "closed"}, s) # {} <=> port[s] = "removed" /\ Frames({"unlock"}, s) = {}

Ports == \A s \in Socks : PortOk(s)

Router(s) == IF port[s] \in {"open", "removed"} THEN 1 ELSE 0

Refs ==
  \A s \in Socks :
    /\ sock[s].ref = Cardinality(Frames({"put", "polltest"}, s)) + Router(s)
    /\ sock[s].listed <=> sock[s].ref > 0
    /\ ~sock[s].listed => rxq[s] = <<>>

SockInv == TypeOK /\ Shape /\ RxLocks /\ WaitLocks /\ Waiters /\ Ports /\ Refs

\* Frames with operations that a step neither leaves nor enters stay where they are.
LEMMA MovesKeep ==
  ASSUME StackType, NEW t \in Threads, NEW q \in Seq(Frame), Moves(t, q), NEW O,
         Op(t) \notin O, \A k \in DOMAIN q : q[k].op \notin O
  PROVE  /\ \A u \in Threads : \A i :
              /\ (i \in DOMAIN stack'[u] /\ stack'[u][i].op \in O)
                   <=> (i \in DOMAIN stack[u] /\ stack[u][i].op \in O)
              /\ i \in DOMAIN stack[u] /\ stack[u][i].op \in O => stack'[u][i] = stack[u][i]
         /\ \A s : Frames(O, s)' = Frames(O, s)
  <1>1. Goto(t, q) /\ (stack[t] # <<>> => Top(t).op \notin O)
    BY DEF Moves, Op
  <1>2. \A u \in Threads : \A i :
              /\ (i \in DOMAIN stack'[u] /\ stack'[u][i].op \in O)
                   <=> (i \in DOMAIN stack[u] /\ stack[u][i].op \in O)
              /\ i \in DOMAIN stack[u] /\ stack[u][i].op \in O => stack'[u][i] = stack[u][i]
    BY <1>1, OpsKept
  <1>3. \A s : Frames(O, s)' = Frames(O, s)
    BY <1>1, FramesKept
  <1>4. QED
    BY <1>2, <1>3

\* A finite set with two elements has at least two.
LEMMA CardTwo ==
  ASSUME NEW S, IsFiniteSet(S), NEW x \in S, NEW y \in S, x # y
  PROVE  Cardinality(S) \in Nat /\ Cardinality(S) >= 2
  <1>1. IsFiniteSet(S \ {x}) /\ Cardinality(S \ {x}) = Cardinality(S) - 1
    BY FS_RemoveElement
  <1>2. Cardinality(S \ {x}) # 0
    BY <1>1, FS_EmptySet
  <1>3. Cardinality(S) \in Nat /\ Cardinality(S \ {x}) \in Nat
    BY <1>1, FS_CardinalityType
  <1>4. QED
    BY <1>1, <1>2, <1>3

\* A finite set has a cardinality, and elements when that is not 0.
LEMMA CardOne ==
  ASSUME NEW S, IsFiniteSet(S)
  PROVE  Cardinality(S) \in Nat /\ (Cardinality(S) > 0 <=> S # {})
  BY FS_EmptySet, FS_CardinalityType

\* How many frames there are of some operations on a socket, after a step
LEMMA OneMore ==
  ASSUME StackType, NEW t \in Threads, NEW q \in Seq(Frame), Goto(t, q), NEW ops, NEW s,
         NEW k \in DOMAIN q, \A j \in DOMAIN q : q[j].op \in ops /\ q[j].s = s <=> j = k
  PROVE  /\ Frames(ops, s)' = (Frames(ops, s) \ {<<t, Len(Below(t)) + 1>>}) \cup {<<t, Len(Below(t)) + k>>}
         /\ <<t, Len(Below(t)) + k>> \notin Frames(ops, s) \ {<<t, Len(Below(t)) + 1>>}
  <1> DEFINE b == Len(Below(t))
             R == Frames(ops, s) \ {<<t, b + 1>>}
             hits == {j \in DOMAIN q : q[j].op \in ops /\ q[j].s = s}
  <1>0. b \in Nat /\ DOMAIN q = 1..Len(q) /\ Len(q) \in Nat
    BY GotoFrames
  <1>2. Frames(ops, s)' = R \cup {<<t, b + j>> : j \in hits}
    BY FramesNext
  <1>4. hits = {k}
    OBVIOUS
  <1>5. Frames(ops, s)' = R \cup {<<t, b + k>>}
    BY <1>2, <1>4
  <1>6. <<t, b + k>> \notin R
    <2>1. ASSUME <<t, b + k>> \in Frames(ops, s) PROVE b + k = b + 1
      <3>1. b + k \in DOMAIN stack[t]
        BY <2>1, FramesIn
      <3>2. b + k \in 1..(b + 1)
        BY <3>1, GotoFrames
      <3>3. QED
        BY <1>0, <3>2
    <2>2. QED
      BY <2>1
  <1>7. QED
    BY <1>5, <1>6

(***************************************************************************)
(* What some steps do, in the words of the lemmas above                    *)
(***************************************************************************)

\* The frame at the top of a stack has the last place of it, and is well placed.
LEMMA TopAt ==
  ASSUME StackType, Shape, NEW t \in Threads, stack[t] # <<>>
  PROVE  /\ Len(stack[t]) \in DOMAIN stack[t] /\ stack[t][Len(stack[t])] = Top(t)
         /\ OkAt(stack[t], Len(stack[t])) /\ Top(t) \in Frame
         /\ Len(stack[t]) \in Nat \ {0} /\ DOMAIN stack[t] = 1..Len(stack[t])
         /\ Len(Below(t)) = Len(stack[t]) - 1
  <1>1. stack[t] \in Seq(Frame)
    BY DEF StackType
  <1>2. Len(stack[t]) \in Nat \ {0} /\ DOMAIN stack[t] = 1..Len(stack[t])
    BY <1>1
  <1>3. Len(stack[t]) \in DOMAIN stack[t] /\ stack[t][Len(stack[t])] = Top(t) /\ Top(t) \in Frame
    BY <1>1, <1>2 DEF Top
  <1>4. OkAt(stack[t], Len(stack[t]))
    BY <1>3 DEF Shape
  <1>5. Len(Below(t)) = Len(stack[t]) - 1
    BY <1>1, <1>2 DEF Below
  <1>6. QED
    BY <1>2, <1>3, <1>4, <1>5

\* How deep a call is, and what is below
LEMMA TopDepth ==
  ASSUME StackType, Shape, NEW t \in Threads, stack[t] # <<>>
  PROVE  LET b == Len(Below(t))
             f == Top(t)
         IN /\ b \in Nat /\ Len(stack[t]) = b + 1 /\ DOMAIN stack[t] = 1..(b + 1) /\ stack[t][b + 1] = f
            /\ f.op \in {"read", "readdone", "trysend", "coreclose"} => b = 1 /\ stack[t][1] = Put(f.s)
            /\ f.op = "unwait" => /\ stack[t][1] = Put(f.s)
                                  /\ \/ b = 1
                                     \/ b = 2 /\ stack[t][2] = At1("read", f.s)
            /\ f.op \in {"sendwaiter", "send", "sendwait"} =>
                 b = 2 /\ stack[t][1] = Put(f.s) /\ stack[t][2] = At1("unwait", f.s)
            /\ f.op \in {"recvwaiter", "recvcheck", "recvwait"} =>
                 /\ b = 3 /\ stack[t][1] = Put(f.s) /\ stack[t][2] = At1("read", f.s)
                 /\ stack[t][3] = At1("unwait", f.s)
            /\ f.op \in {"poll", "polltest", "pollwait", "pollend"} => b = 0
  <1> DEFINE b == Len(Below(t))
             f == Top(t)
  <1>1. b \in Nat /\ Len(stack[t]) = b + 1 /\ DOMAIN stack[t] = 1..(b + 1) /\ stack[t][b + 1] = f
    BY TopAt
  <1>2. OkAt(stack[t], b + 1)
    BY <1>1 DEF Shape
  <1> HIDE DEF b, f
  <1>3. /\ f.op \in {"read", "readdone", "trysend", "coreclose"} => b = 1 /\ stack[t][1] = Put(f.s)
        /\ f.op = "unwait" => /\ stack[t][1] = Put(f.s)
                              /\ \/ b = 1
                                 \/ b = 2 /\ stack[t][2] = At1("read", f.s)
        /\ f.op \in {"sendwaiter", "send", "sendwait"} =>
             b = 2 /\ stack[t][1] = Put(f.s) /\ stack[t][2] = At1("unwait", f.s)
        /\ f.op \in {"recvwaiter", "recvcheck", "recvwait"} =>
             /\ b = 3 /\ stack[t][1] = Put(f.s) /\ stack[t][2] = At1("read", f.s)
             /\ stack[t][3] = At1("unwait", f.s)
        /\ f.op \in {"poll", "polltest", "pollwait", "pollend"} => b = 0
    BY <1>1, <1>2 DEF OkAt
  <1>4. QED
    BY <1>1, <1>3 DEF b, f

\* A frame is left, and up to three are entered.
LEMMA Leave ==
  ASSUME StackType, NEW t \in Threads, Goto(t, <<>>)
  PROVE  /\ \A u \in Threads : u # t => stack'[u] = stack[u]
         /\ DOMAIN stack'[t] = 1..Len(Below(t))
         /\ \A i \in 1..Len(Below(t)) : stack'[t][i] = stack[t][i]
  <1>1. <<>> \in Seq(Frame) /\ Len(<<>>) = 0
    OBVIOUS
  <1>2. /\ \A u \in Threads : u # t => stack'[u] = stack[u]
        /\ Len(Below(t)) \in Nat /\ DOMAIN stack'[t] = 1..(Len(Below(t)) + Len(<<>>))
        /\ \A i \in 1..Len(Below(t)) : stack'[t][i] = stack[t][i]
    BY <1>1, GotoFrames
  <1>3. Len(Below(t)) + Len(<<>>) = Len(Below(t))
    BY <1>1, <1>2
  <1>4. QED
    BY <1>2, <1>3

\* What a stack is after a thread goes on with one frame,
LEMMA Enter1 ==
  ASSUME StackType, NEW t \in Threads, NEW f \in Frame, Goto(t, <<f>>)
  PROVE  /\ \A u \in Threads : u # t => stack'[u] = stack[u]
         /\ DOMAIN stack'[t] = 1..(Len(Below(t)) + 1)
         /\ \A i \in 1..Len(Below(t)) : stack'[t][i] = stack[t][i]
         /\ stack'[t][Len(Below(t)) + 1] = f
  <1> DEFINE p == <<f>>
             b == Len(Below(t))
  <1>1. p \in Seq(Frame) /\ Len(p) = 1 /\ p[1] = f
    OBVIOUS
  <1>2. Goto(t, p)
    OBVIOUS
  <1> HIDE DEF p
  <1>3. /\ \A u \in Threads : u # t => stack'[u] = stack[u]
        /\ Len(Below(t)) \in Nat /\ DOMAIN stack'[t] = 1..(Len(Below(t)) + Len(p)) /\ DOMAIN p = 1..Len(p)
        /\ \A i \in 1..Len(Below(t)) : stack'[t][i] = stack[t][i]
        /\ \A k \in DOMAIN p : stack'[t][Len(Below(t)) + k] = p[k]
    BY <1>1, <1>2, GotoFrames
  <1>4. /\ \A u \in Threads : u # t => stack'[u] = stack[u]
        /\ b \in Nat /\ DOMAIN stack'[t] = 1..(b + Len(p)) /\ DOMAIN p = 1..Len(p)
        /\ \A i \in 1..b : stack'[t][i] = stack[t][i]
        /\ \A k \in DOMAIN p : stack'[t][b + k] = p[k]
    BY <1>3
  <1> HIDE DEF b
  <1>5. stack'[t][b + 1] = f
    BY <1>1, <1>4
  <1>6. DOMAIN stack'[t] = 1..(b + 1)
    BY <1>1, <1>4
  <1>7. QED
    BY <1>4, <1>5, <1>6 DEF b

\* with two,
LEMMA Enter2 ==
  ASSUME StackType, NEW t \in Threads, NEW f \in Frame, NEW g \in Frame, Goto(t, <<f, g>>)
  PROVE  /\ \A u \in Threads : u # t => stack'[u] = stack[u]
         /\ DOMAIN stack'[t] = 1..(Len(Below(t)) + 2)
         /\ \A i \in 1..Len(Below(t)) : stack'[t][i] = stack[t][i]
         /\ stack'[t][Len(Below(t)) + 1] = f
         /\ stack'[t][Len(Below(t)) + 2] = g
  <1> DEFINE p == <<f, g>>
             b == Len(Below(t))
  <1>1. p \in Seq(Frame) /\ Len(p) = 2 /\ p[1] = f /\ p[2] = g
    OBVIOUS
  <1>2. Goto(t, p)
    OBVIOUS
  <1> HIDE DEF p
  <1>3. /\ \A u \in Threads : u # t => stack'[u] = stack[u]
        /\ Len(Below(t)) \in Nat /\ DOMAIN stack'[t] = 1..(Len(Below(t)) + Len(p)) /\ DOMAIN p = 1..Len(p)
        /\ \A i \in 1..Len(Below(t)) : stack'[t][i] = stack[t][i]
        /\ \A k \in DOMAIN p : stack'[t][Len(Below(t)) + k] = p[k]
    BY <1>1, <1>2, GotoFrames
  <1>4. /\ \A u \in Threads : u # t => stack'[u] = stack[u]
        /\ b \in Nat /\ DOMAIN stack'[t] = 1..(b + Len(p)) /\ DOMAIN p = 1..Len(p)
        /\ \A i \in 1..b : stack'[t][i] = stack[t][i]
        /\ \A k \in DOMAIN p : stack'[t][b + k] = p[k]
    BY <1>3
  <1> HIDE DEF b
  <1>5. stack'[t][b + 1] = f
    BY <1>1, <1>4
  <1>6. stack'[t][b + 2] = g
    BY <1>1, <1>4
  <1>7. DOMAIN stack'[t] = 1..(b + 2)
    BY <1>1, <1>4
  <1>8. QED
    BY <1>4, <1>5, <1>6, <1>7 DEF b

\* and with three.
LEMMA Enter3 ==
  ASSUME StackType, NEW t \in Threads, NEW f \in Frame, NEW g \in Frame, NEW h \in Frame, Goto(t, <<f, g, h>>)
  PROVE  /\ \A u \in Threads : u # t => stack'[u] = stack[u]
         /\ DOMAIN stack'[t] = 1..(Len(Below(t)) + 3)
         /\ \A i \in 1..Len(Below(t)) : stack'[t][i] = stack[t][i]
         /\ stack'[t][Len(Below(t)) + 1] = f
         /\ stack'[t][Len(Below(t)) + 2] = g
         /\ stack'[t][Len(Below(t)) + 3] = h
  <1> DEFINE p == <<f, g, h>>
             b == Len(Below(t))
  <1>1. p \in Seq(Frame) /\ Len(p) = 3 /\ p[1] = f /\ p[2] = g /\ p[3] = h
    OBVIOUS
  <1>2. Goto(t, p)
    OBVIOUS
  <1> HIDE DEF p
  <1>3. /\ \A u \in Threads : u # t => stack'[u] = stack[u]
        /\ Len(Below(t)) \in Nat /\ DOMAIN stack'[t] = 1..(Len(Below(t)) + Len(p)) /\ DOMAIN p = 1..Len(p)
        /\ \A i \in 1..Len(Below(t)) : stack'[t][i] = stack[t][i]
        /\ \A k \in DOMAIN p : stack'[t][Len(Below(t)) + k] = p[k]
    BY <1>1, <1>2, GotoFrames
  <1>4. /\ \A u \in Threads : u # t => stack'[u] = stack[u]
        /\ b \in Nat /\ DOMAIN stack'[t] = 1..(b + Len(p)) /\ DOMAIN p = 1..Len(p)
        /\ \A i \in 1..b : stack'[t][i] = stack[t][i]
        /\ \A k \in DOMAIN p : stack'[t][b + k] = p[k]
    BY <1>3
  <1> HIDE DEF b
  <1>5. stack'[t][b + 1] = f
    BY <1>1, <1>4
  <1>6. stack'[t][b + 2] = g
    BY <1>1, <1>4
  <1>7. stack'[t][b + 3] = h
    BY <1>1, <1>4
  <1>8. DOMAIN stack'[t] = 1..(b + 3)
    BY <1>1, <1>4
  <1>9. QED
    BY <1>4, <1>5, <1>6, <1>7, <1>8 DEF b

\* A read finds nothing to do, or locks the queue, and confirms the first packet if it
\* must.
LEMMA ReadCases ==
  ASSUME TypeOK, NEW t \in Threads, Read(t), NEW s, s = Top(t).s, NEW m, m = Head(rxq[s])
  PROVE  /\ s \in Socks
         /\ \/ Goto(t, <<>>) /\ rxLock' = rxLock
            \/ /\ sock[s].conn # Reset /\ rxLock[s] = Null /\ rxq[s] # <<>> /\ m \in Packet
               /\ rxLock' = [rxLock EXCEPT ![s] = t]
               /\ \/ /\ ~(m.confirm /\ sock[s].handle)
                     /\ Goto(t, <<At1("readdone", s)>>)
                  \/ /\ m.confirm /\ sock[s].handle /\ m.from \in Addrs
                     /\ Goto(t, <<At1("readdone", s), At2("confirm", s, m.from)>>)
  <1>1. s \in Socks
    BY TopType, FieldTypes DEF Read, TypeOK, StackType
  <1>2. CASE Goto(t, <<>>) /\ rxLock' = rxLock
    BY <1>1, <1>2
  <1>3. CASE ~(Goto(t, <<>>) /\ rxLock' = rxLock)
    <2>1. /\ sock[s].conn # Reset /\ rxLock[s] = Null /\ rxq[s] # <<>>
          /\ rxLock' = [rxLock EXCEPT ![s] = t]
          /\ Goto(t, <<At1("readdone", s)>> \o
                IF m.confirm /\ sock[s].handle THEN <<At2("confirm", s, m.from)>> ELSE <<>>)
      BY <1>3 DEF Read, locks
    <2>2. m \in Packet
      <3>1. rxq[s] \in Seq(Packet)
        BY <1>1 DEF TypeOK
      <3>2. QED
        BY <2>1, <3>1
    <2>3. CASE m.confirm /\ sock[s].handle
      <3>1. m.from \in Addrs
        BY <2>2, <2>3, PacketTypes
      <3>2. <<At1("readdone", s)>> \o <<At2("confirm", s, m.from)>> = <<At1("readdone", s), At2("confirm", s, m.from)>>
        BY <1>1, <3>1, Tuples, FrameAt1, FrameAt2
      <3>3. QED
        BY <1>1, <2>1, <2>2, <2>3, <3>1, <3>2
    <2>4. CASE ~(m.confirm /\ sock[s].handle)
      <3>1. <<At1("readdone", s)>> \o <<>> = <<At1("readdone", s)>>
        BY <1>1, Tuples, FrameAt1, FrameSeqs
      <3>2. QED
        BY <1>1, <2>1, <2>2, <2>4, <3>1
    <2>5. QED
      BY <2>3, <2>4
  <1>4. QED
    BY <1>2, <1>3

\* A call on a socket that is there takes a reference; its frames name the
\* socket.
LEMMA CallEffects ==
  ASSUME TypeOK, NEW t \in Threads, NEW s \in Socks, Call(t, s), ~Open(t, s),
         NEW q \in Seq(Frame), Moves(t, q)
  PROVE  /\ stack[t] = <<>> /\ sock[s].listed /\ Op(t) = "none"
         /\ 1 \in DOMAIN q /\ q[1] = Put(s)
         /\ \A k \in DOMAIN q : k # 1 =>
              q[k].s = s /\ q[k].op \in {"coreclose", "read", "unwait", "recvwaiter", "sendwaiter", "trysend"}
         /\ \A r \in Socks : /\ sock'[r].listed = sock[r].listed
                             /\ sock'[r].ref = IF r = s THEN sock[s].ref + 1 ELSE sock[r].ref
                             /\ r # s => sock'[r] = sock[r]
         /\ sock'[s] \in [listed : BOOLEAN, ref : Nat, type : {"data", "control"},
                          active : SUBSET {"rx", "tx"}, conn : Addrs \cup {Null, Reset}, handle : BOOLEAN]
         /\ sock' = [sock EXCEPT ![s] = sock'[s]]
         /\ UNCHANGED <<app, rxq, waiting, locks, router, told>>
         /\ \/ /\ \A k \in DOMAIN q : q[k].op # "coreclose"
               /\ sock'[s].handle = sock[s].handle \/ ~sock'[s].handle
            \/ /\ q = <<Put(s), At1("coreclose", s)>>
               /\ sock[s].handle /\ ~sock'[s].handle
  <1> DEFINE Rec == [listed : BOOLEAN, ref : Nat, type : {"data", "control"},
                     active : SUBSET {"rx", "tx"}, conn : Addrs \cup {Null, Reset}, handle : BOOLEAN]
             calls == {"read", "unwait", "recvwaiter", "sendwaiter", "trysend"}
             Same == /\ sock'[s] \in Rec /\ sock' = [sock EXCEPT ![s] = sock'[s]]
                     /\ sock'[s].listed = sock[s].listed /\ sock'[s].ref = sock[s].ref + 1
                     /\ UNCHANGED <<app, rxq, waiting, locks, router, told>>
             Quiet == /\ 1 \in DOMAIN q /\ q[1] = Put(s)
                      /\ \A k \in DOMAIN q : k # 1 => q[k].s = s /\ q[k].op \in calls
                      /\ sock'[s].handle = sock[s].handle \/ ~sock'[s].handle
             Closing == q = <<Put(s), At1("coreclose", s)>> /\ sock[s].handle /\ ~sock'[s].handle
  <1>0. StackType /\ sock \in [Socks -> Rec] /\ sock[s] \in Rec /\ Ref(s) \in Rec
        /\ Ref(s) = [sock[s] EXCEPT !.ref = sock[s].ref + 1]
    <2>1. StackType /\ sock \in [Socks -> Rec] /\ sock[s] \in Rec
      BY DEF TypeOK, StackType
    <2>2. Ref(s) = [sock[s] EXCEPT !.ref = sock[s].ref + 1]
      BY DEF Ref
    <2>3. sock[s].ref + 1 \in Nat
      BY <2>1
    <2>4. Ref(s) \in Rec
      BY <2>1, <2>2, <2>3
    <2>5. QED
      BY <2>1, <2>2, <2>4
  <1>1. \E call : Get(t, s, call)
    BY DEF Call, Connect, SetControl, Shutdown, Recv, Send
  <1>2. stack[t] = <<>> /\ sock[s].listed /\ Op(t) = "none"
    BY <1>1 DEF Get, Idle, Op
  <1>3. ASSUME NEW p, Start(t, p) PROVE q = p
    <2>1. stack'[t] = p /\ stack'[t] = Below(t) \o q
      BY <1>0, <1>3 DEF Start, Moves, Goto, StackType
    <2>2. Below(t) = <<>>
      BY <1>2 DEF Below
    <2>3. QED
      BY <2>1, <2>2
  <1>4. app \in Apps /\ \A a \in app.partners : a \in Addrs
    BY SocketAssumption DEF TypeOK
  <1> USE <1>0, <1>2
  <1>5. ASSUME Connect(t, s) PROVE Same /\ Quiet
    <2>1. q = <<Put(s)>>
      BY <1>3, <1>5 DEF Connect
    <2>2. PICK a \in app.partners : sock' = [sock EXCEPT ![s] =
             [Ref(s) EXCEPT !.conn = IF Data(s) /\ @ = Null THEN a ELSE @]]
      BY <1>5 DEF Connect
    <2>3. /\ sock'[s] \in Rec /\ sock'[s].handle = sock[s].handle
          /\ sock'[s].listed = sock[s].listed /\ sock'[s].ref = sock[s].ref + 1
      BY <1>4, <2>2
    <2>4. sock' = [sock EXCEPT ![s] = sock'[s]]
      BY <2>2
    <2>5. UNCHANGED <<app, rxq, waiting, locks, router, told>>
      BY <1>5 DEF Connect
    <2>6. QED
      BY <2>1, <2>3, <2>4, <2>5 DEF Put, At1
  <1>6. ASSUME SetControl(t, s) PROVE Same /\ Quiet
    <2>1. q = <<Put(s)>>
      BY <1>3, <1>6 DEF SetControl
    <2>2. sock' = [sock EXCEPT ![s] =
            IF sock[s].conn = Null /\ rxq[s] = <<>>
            THEN [Ref(s) EXCEPT !.type = "control", !.active = {"rx"}] ELSE Ref(s)]
      BY <1>6 DEF SetControl
    <2>3. /\ sock'[s] \in Rec /\ sock'[s].handle = sock[s].handle
          /\ sock'[s].listed = sock[s].listed /\ sock'[s].ref = sock[s].ref + 1
      BY <2>2
    <2>4. sock' = [sock EXCEPT ![s] = sock'[s]]
      BY <2>2
    <2>5. UNCHANGED <<app, rxq, waiting, locks, router, told>>
      BY <1>6 DEF SetControl
    <2>6. QED
      BY <2>1, <2>3, <2>4, <2>5 DEF Put, At1
  <1>7. ASSUME NEW call \in {"shutRd", "shutWr", "close"}, Shutdown(t, s, call)
        PROVE  Same /\ (Quiet \/ Closing)
    <2> DEFINE active == sock[s].active \ Off(call)
    <2>1. sock' = [sock EXCEPT ![s] = [Ref(s) EXCEPT !.active = active, !.handle = @ /\ active # {}]]
      BY <1>7 DEF Shutdown
    <2>2. active \in SUBSET {"rx", "tx"}
      OBVIOUS
    <2> HIDE DEF active
    <2>3. /\ sock'[s] \in Rec
          /\ sock'[s].listed = sock[s].listed /\ sock'[s].ref = sock[s].ref + 1
          /\ sock'[s].handle = (sock[s].handle /\ active # {})
      BY <2>1, <2>2
    <2>4. sock' = [sock EXCEPT ![s] = sock'[s]]
      BY <2>1
    <2>5. UNCHANGED <<app, rxq, waiting, locks, router, told>>
      BY <1>7 DEF Shutdown
    <2>6. /\ <<Put(s)>> \o <<>> = <<Put(s)>>
          /\ <<Put(s)>> \o <<At1("coreclose", s)>> = <<Put(s), At1("coreclose", s)>>
      BY Tuples, FrameSeqs, FrameAt1
    <2>7. q = <<Put(s)>> \o IF active = {} /\ sock[s].handle THEN <<At1("coreclose", s)>> ELSE <<>>
      BY <1>3, <1>7 DEF Shutdown, active
    <2>8. QED
      BY <2>3, <2>4, <2>5, <2>6, <2>7
  <1>8. ASSUME NEW call, Recv(t, s, call) \/ Send(t, s, call)
        PROVE  Same /\ Quiet
    <2>1. /\ sock' = [sock EXCEPT ![s] = Ref(s)]
          /\ UNCHANGED <<app, rxq, waiting, locks, router, told>>
      BY <1>8 DEF Recv, Send
    <2>2. sock'[s] = Ref(s) /\ sock'[s] \in Rec /\ sock' = [sock EXCEPT ![s] = sock'[s]]
      BY <2>1
    <2>3. Same /\ sock'[s].handle = sock[s].handle
      BY <2>1, <2>2, ZenonT(60)
    <2>4. PICK a : \/ q = <<Put(s)>> \o <<>>
                   \/ q = <<Put(s)>> \o <<At1("read", s)>>
                   \/ q = <<Put(s)>> \o <<At1("read", s), At1("unwait", s), At1("recvwaiter", s)>>
                   \/ a \in Addrs /\ q = <<Put(s)>> \o <<At1("unwait", s), At2("sendwaiter", s, a)>>
                   \/ a \in Addrs /\ q = <<Put(s)>> \o <<At2("trysend", s, a)>>
      BY <1>3, <1>8, ZenonT(60) DEF Recv, Send
    <2>5. /\ <<Put(s)>> \o <<>> = <<Put(s)>>
          /\ <<Put(s)>> \o <<At1("read", s)>> = <<Put(s), At1("read", s)>>
          /\ <<Put(s)>> \o <<At1("read", s), At1("unwait", s), At1("recvwaiter", s)>>
               = <<Put(s), At1("read", s), At1("unwait", s), At1("recvwaiter", s)>>
          /\ a \in Addrs => /\ <<Put(s)>> \o <<At2("trysend", s, a)>> = <<Put(s), At2("trysend", s, a)>>
                            /\ <<Put(s)>> \o <<At1("unwait", s), At2("sendwaiter", s, a)>>
                                 = <<Put(s), At1("unwait", s), At2("sendwaiter", s, a)>>
      BY FrameAt1, FrameAt2, Tuples, FrameSeqs
    <2>6. CASE q = <<Put(s)>>
      BY <2>3, <2>6
    <2>7. CASE q = <<Put(s), At1("read", s)>>
      BY <2>3, <2>7 DEF At1
    <2>8. CASE q = <<Put(s), At1("read", s), At1("unwait", s), At1("recvwaiter", s)>>
      BY <2>3, <2>8 DEF At1
    <2>9. CASE q = <<Put(s), At1("unwait", s), At2("sendwaiter", s, a)>>
      BY <2>3, <2>9 DEF At1, At2
    <2>10. CASE q = <<Put(s), At2("trysend", s, a)>>
      BY <2>3, <2>10 DEF At2
    <2>11. QED
      BY <2>4, <2>5, <2>6, <2>7, <2>8, <2>9, <2>10
  <1>9. Same /\ (Quiet \/ Closing)
    BY <1>5, <1>6, <1>7, <1>8 DEF Call
  <1>10. \A r \in Socks : /\ sock'[r].listed = sock[r].listed
                          /\ sock'[r].ref = IF r = s THEN sock[s].ref + 1 ELSE sock[r].ref
                          /\ r # s => sock'[r] = sock[r]
    BY <1>9
  <1>11. /\ 1 \in DOMAIN q /\ q[1] = Put(s)
         /\ \A k \in DOMAIN q : k # 1 =>
              q[k].s = s /\ q[k].op \in {"coreclose", "read", "unwait", "recvwaiter", "sendwaiter", "trysend"}
    BY <1>9 DEF At1
  <1>12. \/ /\ \A k \in DOMAIN q : q[k].op # "coreclose"
            /\ sock'[s].handle = sock[s].handle \/ ~sock'[s].handle
         \/ /\ q = <<Put(s), At1("coreclose", s)>>
            /\ sock[s].handle /\ ~sock'[s].handle
    <2>1. CASE Quiet
      <3>1. ASSUME NEW k \in DOMAIN q PROVE q[k].op # "coreclose"
        <4>1. CASE k = 1
          <5>1. q[1] = Put(s)
            BY <2>1
          <5>2. QED
            BY <4>1, <5>1 DEF At1, Put
        <4>2. CASE k # 1
          <5>1. q[k].op \in calls
            BY <2>1, <4>2
          <5>2. QED
            BY <5>1
        <4>3. QED
          BY <4>1, <4>2
      <3>2. QED
        BY <2>1, <3>1
    <2>2. CASE Closing
      BY <2>2
    <2>3. QED
      BY <1>9, <2>1, <2>2
  <1>13. QED
    BY <1>9, <1>10, <1>11, <1>12

(***************************************************************************)
(* The locks and the entries of the waiters                                *)
(***************************************************************************)

\* rx_q_lock is held by the one reader that is between Read and ReadDone, and
\* then the packet it reads is there.
LEMMA RxLocksStep ==
  ASSUME SockInv, NEW t \in Threads, NEW q \in Seq(Frame), Step(t, q)
  PROVE  RxLocks'
  <1>0. /\ StackType /\ TypeOK /\ Shape /\ Moves(t, q) /\ Doing(t) /\ Calm(t) /\ RxLocks /\ Refs
        /\ rxLock \in [Socks -> Threads \cup {Null}] /\ rxq \in [Socks -> Seq(Packet)]
    BY DEF SockInv, TypeOK, StackType, Step
  <1>a. Op(t) # "none" => stack[t] # <<>> /\ Top(t).op = Op(t) /\ Top(t) \in Frame
    BY <1>0, TopAt DEF Op
  <1>1. ASSUME NEW s \in Socks, rxLock[s] # Null, Op(t) # "readdone" PROVE rxq'[s] # <<>>
    <2>1. rxq[s] # <<>> /\ rxq[s] \in Seq(Packet) /\ rxLock[s] \in Threads /\ Reads(rxLock[s], s)
      BY <1>0, <1>1 DEF RxLocks
    <2>2. CASE Op(t) \notin {"put", "add", "flush"}
      BY <1>0, <1>1, <2>1, <2>2 DEF Calm
    <2>3. CASE Op(t) = "add"
      <3>1. Top(t).s # s /\ Top(t).s \in Socks
        BY <1>0, <1>a, <1>1, <2>3, FieldTypes DEF Doing, Enqueue
      <3>2. rxq'[s] = rxq[s]
        BY <1>0, <2>3, <3>1 DEF Doing, Enqueue
      <3>3. QED
        BY <2>1, <3>2
    <2>4. CASE Op(t) = "flush"
      BY <1>0, <1>a, <1>1, <2>1, <2>4 DEF Doing, Flush
    <2>5. CASE Op(t) = "put"
      <3> DEFINE u == rxLock[s]
      <3>1. PutSock(t)
        BY <1>0, <2>5 DEF Doing
      <3>2. CASE Top(t).s # s
        BY <1>0, <2>1, <3>1, <3>2 DEF PutSock
      <3>3. CASE Top(t).s = s
        <4>1. 2 \in DOMAIN stack[u] /\ stack[u][2] = At1("readdone", s)
          BY <2>1 DEF Reads
        <4>2. OkAt(stack[u], 2) /\ 1 \in DOMAIN stack[u]
          BY <1>0, <2>1, <4>1 DEF Shape, StackType
        <4>3. stack[u][1] = Put(s)
          BY <4>1, <4>2 DEF OkAt, At1
        <4>4. <<u, 1>> \in Frames({"put", "polltest"}, s)
          BY <2>1, <4>2, <4>3, FramesIn DEF Put, At1
        <4>5. /\ <<t, Len(stack[t])>> \in Frames({"put", "polltest"}, s)
              /\ u = t => Len(stack[t]) # 1
          BY <1>0, <1>a, <2>5, <3>3, <4>1, TopAt, FramesIn
        <4>6. Cardinality(Frames({"put", "polltest"}, s)) \in Nat /\ Cardinality(Frames({"put", "polltest"}, s)) >= 2
          <5>1. <<u, 1>> # <<t, Len(stack[t])>>
            BY <4>5
          <5>2. QED
            BY <1>0, <4>4, <4>5, <5>1, FramesFinite, CardTwo
        <4>7. sock[s].ref # 1
          BY <1>0, <4>6, SMTT(30) DEF Refs, Router
        <4>8. rxq' = rxq
          BY <3>1, <3>3, <4>7 DEF PutSock
        <4>9. QED
          BY <2>1, <4>8
      <3>4. QED
        BY <3>2, <3>3
    <2>6. QED
      BY <1>1, <2>2, <2>3, <2>4, <2>5
  <1>2. CASE Op(t) \notin {"read", "readdone"}
    <2>1. \A k \in DOMAIN q : q[k].op # "readdone"
      BY <1>0, <1>2, FollowsOps, BeginsOps DEF Moves, Op
    <2>2. \A u \in Threads, s \in Socks : Reads(u, s)' <=> Reads(u, s)
      <3>1. \A u \in Threads : \A i :
              /\ (i \in DOMAIN stack'[u] /\ stack'[u][i].op \in {"readdone"})
                   <=> (i \in DOMAIN stack[u] /\ stack[u][i].op \in {"readdone"})
              /\ i \in DOMAIN stack[u] /\ stack[u][i].op \in {"readdone"} => stack'[u][i] = stack[u][i]
        <4>1. Op(t) \notin {"readdone"} /\ \A k \in DOMAIN q : q[k].op \notin {"readdone"}
          BY <1>2, <2>1
        <4>2. QED
          BY <1>0, <4>1, MovesKeep
      <3>2. \A s : At1("readdone", s).op = "readdone"
        BY DEF At1
      <3>3. QED
        BY <3>1, <3>2 DEF Reads
    <2>3. rxLock' = rxLock
      BY <1>0, <1>2 DEF Calm
    <2>4. QED
      BY <1>0, <1>1, <1>2, <2>2, <2>3 DEF RxLocks
  <1>3. CASE Op(t) = "read"
    <2> DEFINE s == Top(t).s
    <2>1. Read(t) /\ s \in Socks /\ Len(Below(t)) = 1 /\ ~ \E r \in Socks : Reads(t, r)
      <3>1. Read(t) /\ s \in Socks
        BY <1>0, <1>3, <1>a, FieldTypes DEF Doing
      <3>2. Len(stack[t]) = 2 /\ stack[t][2] = Top(t) /\ Len(Below(t)) = 1
        <4>1. stack[t] # <<>> /\ Top(t).op = "read" /\ StackType /\ Shape
          BY <1>0, <1>3, <1>a
        <4>2. Len(Below(t)) = 1
          BY <4>1, TopDepth
        <4>3. Len(stack[t]) = Len(Below(t)) + 1 /\ stack[t][Len(Below(t)) + 1] = Top(t)
          BY <4>1, TopDepth
        <4>4. QED
          BY <4>2, <4>3
      <3>3. QED
        BY <1>3, <1>a, <3>1, <3>2 DEF Reads, At1
    <2>2. CASE Goto(t, <<>>) /\ rxLock' = rxLock
      <3>1. /\ \A u \in Threads : u # t => stack'[u] = stack[u]
            /\ DOMAIN stack'[t] = 1..1
        <4>1. /\ \A u \in Threads : u # t => stack'[u] = stack[u]
              /\ DOMAIN stack'[t] = 1..Len(Below(t))
          BY <1>0, <2>2, Leave
        <4>2. QED
          BY <2>1, <4>1
      <3>2. \A u \in Threads, r \in Socks : Reads(u, r)' <=> Reads(u, r)
        BY <2>1, <3>1 DEF Reads
      <3>3. QED
        BY <1>0, <1>1, <1>3, <2>2, <3>2 DEF RxLocks
    <2>3. ASSUME NEW p \in Seq(Frame), Goto(t, p), 1 \in DOMAIN p, p[1] = At1("readdone", s),
                 rxLock[s] = Null, rxq[s] # <<>>, rxLock' = [rxLock EXCEPT ![s] = t]
          PROVE  RxLocks'
      <3>1. /\ \A u \in Threads : u # t => stack'[u] = stack[u]
            /\ 2 \in DOMAIN stack'[t] /\ stack'[t][2] = At1("readdone", s)
        <4>1. /\ \A u \in Threads : u # t => stack'[u] = stack[u]
              /\ DOMAIN stack'[t] = 1..(Len(Below(t)) + Len(p)) /\ DOMAIN p = 1..Len(p) /\ Len(p) \in Nat
              /\ stack'[t][Len(Below(t)) + 1] = p[1]
          BY <1>0, <2>3, GotoFrames
        <4>2. QED
          BY <2>1, <2>3, <4>1
      <3>2. \A r \in Socks : Reads(t, r)' <=> r = s
        <4>1. \A r : At1("readdone", r) = At1("readdone", s) <=> r = s
          <5>1. \A r : At1("readdone", r).s = r
            BY DEF At1
          <5>2. QED
            BY <5>1
        <4>2. QED
          BY <3>1, <4>1 DEF Reads
      <3>3. \A u \in Threads, r \in Socks : u # t => (Reads(u, r)' <=> Reads(u, r))
        BY <3>1 DEF Reads
      <3>4. \A u \in Threads : ~Reads(u, s)
        BY <1>0, <2>1, <2>3, AddrTypes DEF RxLocks
      <3>5. rxq' = rxq
        BY <1>0, <1>3 DEF Calm
      <3>6. QED
        BY <1>0, <2>1, <2>3, <3>2, <3>3, <3>4, <3>5 DEF RxLocks
    <2>4. CASE ~(Goto(t, <<>>) /\ rxLock' = rxLock)
      <3>1. PICK p : /\ Goto(t, p) /\ p \in Seq(Frame) /\ 1 \in DOMAIN p /\ p[1] = At1("readdone", s)
                     /\ rxLock[s] = Null /\ rxq[s] # <<>> /\ rxLock' = [rxLock EXCEPT ![s] = t]
        <4> DEFINE m == Head(rxq[s])
                   p1 == <<At1("readdone", s)>>
                   p2 == <<At1("readdone", s), At2("confirm", s, m.from)>>
        <4>1. /\ rxLock[s] = Null /\ rxq[s] # <<>> /\ rxLock' = [rxLock EXCEPT ![s] = t]
              /\ Goto(t, p1) \/ (Goto(t, p2) /\ m.from \in Addrs)
          BY <1>0, <2>1, <2>4, ReadCases
        <4>2. p1 \in Seq(Frame) /\ 1 \in DOMAIN p1 /\ p1[1] = At1("readdone", s)
          BY <2>1, FrameAt1
        <4>3. m.from \in Addrs => p2 \in Seq(Frame) /\ 1 \in DOMAIN p2 /\ p2[1] = At1("readdone", s)
          BY <2>1, FrameAt1, FrameAt2
        <4> HIDE DEF p1, p2
        <4>4. QED
          BY <4>1, <4>2, <4>3
      <3>2. QED
        BY <2>3, <3>1
    <2>5. QED
      BY <2>2, <2>4
  <1>4. CASE Op(t) = "readdone"
    <2> DEFINE s == Top(t).s
    <2>1. ReadDone(t) /\ s \in Socks /\ Len(stack[t]) = 2 /\ stack[t][2] = Top(t) /\ Len(Below(t)) = 1
      <3>1. ReadDone(t) /\ s \in Socks
        BY <1>0, <1>4, <1>a, FieldTypes DEF Doing
      <3>2. Len(stack[t]) = 2 /\ stack[t][2] = Top(t) /\ Len(Below(t)) = 1
        <4>1. stack[t] # <<>> /\ Top(t).op = "readdone" /\ StackType /\ Shape
          BY <1>0, <1>4, <1>a
        <4>2. Len(Below(t)) = 1
          BY <4>1, TopDepth
        <4>3. Len(stack[t]) = Len(Below(t)) + 1 /\ stack[t][Len(Below(t)) + 1] = Top(t)
          BY <4>1, TopDepth
        <4>4. QED
          BY <4>2, <4>3
      <3>3. QED
        BY <3>1, <3>2
    <2>2. /\ \A u \in Threads : u # t => stack'[u] = stack[u]
          /\ DOMAIN stack'[t] = 1..1
      <3>1. Goto(t, <<>>)
        BY <2>1 DEF ReadDone
      <3>2. QED
        <4>1. /\ \A u \in Threads : u # t => stack'[u] = stack[u]
              /\ DOMAIN stack'[t] = 1..Len(Below(t))
          BY <1>0, <3>1, Leave
        <4>2. QED
          BY <2>1, <4>1
    <2>3. \A u \in Threads, r \in Socks : Reads(u, r)' <=> u # t /\ Reads(u, r)
      BY <2>2 DEF Reads
    <2>4. Reads(t, s) /\ \A r \in Socks : Reads(t, r) => r = s
      <3>1. 2 \in DOMAIN stack[t] /\ stack[t][2].op = "readdone" /\ stack[t][2].s = s
        BY <1>0, <1>a, <1>4, <2>1, TopAt
      <3>2. \E r \in Socks : stack[t][2] = At1("readdone", r)
        <4>1. stack[t][2] \in [op : {"readdone"}, s : Socks]
          BY <1>a, <1>4, <2>1 DEF Frame
        <4>2. stack[t][2] = [op |-> "readdone", s |-> s]
          BY <3>1, <4>1
        <4>3. QED
          BY <2>1, <4>2 DEF At1
      <3>3. QED
        BY <3>1, <3>2 DEF Reads, At1
    <2>5. rxLock' = [rxLock EXCEPT ![s] = Null] /\ \A r \in Socks : r # s => rxq'[r] = rxq[r]
      BY <1>0, <2>1 DEF ReadDone
    <2>6. \A u \in Threads : Reads(u, s) <=> u = t
      BY <1>0, <2>1, <2>4, AddrTypes DEF RxLocks
    <2>7. \A r \in Socks : \A u \in Threads : rxLock'[r] = u <=> Reads(u, r)'
      BY <1>0, <2>1, <2>3, <2>4, <2>5, <2>6, AddrTypes DEF RxLocks
    <2>8. \A r \in Socks : rxLock'[r] # Null => rxq'[r] # <<>>
      BY <1>0, <2>1, <2>5 DEF RxLocks
    <2>9. QED
      BY <2>7, <2>8 DEF RxLocks
  <1>5. QED
    BY <1>2, <1>3, <1>4

\* A step enters only one sequence of frames.
LEMMA Went ==
  ASSUME StackType, NEW t \in Threads, NEW q \in Seq(Frame), NEW p \in Seq(Frame), Goto(t, q), Goto(t, p)
  PROVE  p = q
  <1>1. /\ DOMAIN stack'[t] = 1..(Len(Below(t)) + Len(q)) /\ Len(q) \in Nat /\ Len(Below(t)) \in Nat
        /\ \A k \in DOMAIN q : stack'[t][Len(Below(t)) + k] = q[k]
        /\ DOMAIN q = 1..Len(q)
    BY GotoFrames
  <1>2. /\ DOMAIN stack'[t] = 1..(Len(Below(t)) + Len(p)) /\ Len(p) \in Nat
        /\ \A k \in DOMAIN p : stack'[t][Len(Below(t)) + k] = p[k]
        /\ DOMAIN p = 1..Len(p)
    BY GotoFrames
  <1> DEFINE b == Len(Below(t))
  <1> HIDE DEF b
  <1>3. b + Len(q) = b + Len(p)
    <2>1. 1..(b + Len(q)) = 1..(b + Len(p)) /\ b \in Nat
      BY <1>1, <1>2 DEF b
    <2>2. b + Len(q) <= b + Len(p)
      <3>1. b + Len(q) = 0 \/ b + Len(q) \in 1..(b + Len(q))
        BY <1>1, <2>1
      <3>2. QED
        BY <1>1, <1>2, <2>1, <3>1
    <2>3. b + Len(p) <= b + Len(q)
      <3>1. b + Len(p) = 0 \/ b + Len(p) \in 1..(b + Len(p))
        BY <1>2, <2>1
      <3>2. QED
        BY <1>1, <1>2, <2>1, <3>1
    <2>4. QED
      BY <1>1, <1>2, <2>1, <2>2, <2>3
  <1>4. Len(p) = Len(q)
    <2>1. b \in Nat /\ Len(p) \in Nat /\ Len(q) \in Nat
      BY <1>1, <1>2 DEF b
    <2>2. QED
      BY <1>3, <2>1
  <1>5. \A k \in 1..Len(p) : p[k] = q[k]
    BY <1>1, <1>2, <1>4
  <1>6. QED
    BY <1>4, <1>5, SeqEqual

\* With nothing below, what is entered is all there is.
LEMMA Bottom ==
  ASSUME StackType, NEW t \in Threads, NEW q \in Seq(Frame), Goto(t, q),
         stack[t] = <<>> \/ Len(Below(t)) = 0
  PROVE  stack'[t] = q
  <1>1. stack[t] \in Seq(Frame) /\ stack'[t] = Below(t) \o q
    BY DEF StackType, Goto
  <1>2. Below(t) \in Seq(Frame)
    BY <1>1 DEF Below
  <1>3. Below(t) = <<>>
    <2>1. stack[t] = <<>> => Below(t) = <<>>
      BY DEF Below
    <2>2. Len(Below(t)) = 0 => Below(t) = <<>>
      BY <1>2
    <2>3. QED
      BY <2>1, <2>2
  <1>4. QED
    BY <1>1, <1>3, Tuples

\* A frame on the stack after a step was there before it, or was entered by it.
LEMMA StackFrames ==
  ASSUME StackType, NEW t \in Threads, NEW q \in Seq(Frame), Goto(t, q), NEW i \in DOMAIN stack'[t]
  PROVE  \/ i \in 1..Len(Below(t)) /\ i \in DOMAIN stack[t] /\ stack'[t][i] = stack[t][i]
         \/ \E k \in DOMAIN q : i = Len(Below(t)) + k /\ stack'[t][i] = q[k]
  <1> DEFINE b == Len(Below(t))
  <1>1. /\ \A j \in 1..b : j \in DOMAIN stack[t] /\ stack'[t][j] = stack[t][j]
        /\ \A k \in DOMAIN q : stack'[t][b + k] = q[k]
        /\ DOMAIN stack'[t] = 1..(b + Len(q)) /\ b \in Nat /\ DOMAIN q = 1..Len(q) /\ Len(q) \in Nat
    BY GotoFrames
  <1>2. CASE i \in 1..b
    BY <1>1, <1>2
  <1>3. CASE i \notin 1..b
    <2>1. i - b \in DOMAIN q /\ i = b + (i - b)
      <3> HIDE DEF b
      <3>1. QED
        BY <1>1, <1>3
    <2>2. stack'[t][i] = q[i - b]
      BY <1>1, <2>1
    <2>3. QED
      BY <2>1, <2>2
  <1>4. QED
    BY <1>2, <1>3

\* What a thread starts when it is in no call.
LEMMA BeginCases ==
  ASSUME TypeOK, NEW t \in Threads, NEW q \in Seq(Frame), Step(t, q), Op(t) = "none"
  PROVE  /\ stack[t] = <<>> /\ stack'[t] = q
         /\ \/ \E s \in Socks : Open(t, s) /\ q = <<>>
            \/ \E s \in Socks : Call(t, s) /\ ~Open(t, s)
            \/ \E f \in SUBSET Socks, ev \in SUBSET {"in", "out"} : BeginPoll(t, f, ev) /\ q = <<Poll(f, FALSE)>>
            \/ t = Net /\ \E p \in Peers : PeerConfirms(p) /\ q = <<Notify(queue[p], p)>>
            \/ t = Net /\ \E p \in Peers : PeerGone(p) /\ q = <<Gone(p), Notify(queue[p], p)>>
            \/ t = Net /\ \E p \in Peers, s \in Socks :
                 Arrive(p, s) /\ q = <<Unlock(s), RxCb(s, Message(p, sent[s][p] + 1 = Quota))>>
  <1>0. StackType /\ Goto(t, q) /\ Moves(t, q) /\ Doing(t)
    BY DEF TypeOK, StackType, Step, Moves
  <1>1. stack[t] = <<>>
    <2>1. stack[t] # <<>> => Top(t) \in Frame /\ Top(t).op # "none"
      <3>1. stack[t] # <<>> => Top(t) \in Frame
        BY <1>0 DEF Top, StackType
      <3>2. \A f \in Frame : f.op # "none"
        BY DEF Frame
      <3>3. QED
        BY <3>1, <3>2
    <2>2. QED
      BY <2>1 DEF Op
  <1>2. stack'[t] = q
    BY <1>0, <1>1, Bottom
  <1>3. \A p : Start(t, p) => q = p
    <2>1. \A p : Start(t, p) => stack'[t] = p
      BY <1>0 DEF Start, StackType
    <2>2. QED
      BY <1>2, <2>1
  <1>4. ASSUME NEW s \in Socks, Open(t, s) PROVE q = <<>>
    BY <1>1, <1>2, <1>4 DEF Open
  <1>5. \A f \in SUBSET Socks, ev \in SUBSET {"in", "out"} : BeginPoll(t, f, ev) => q = <<Poll(f, FALSE)>>
    BY <1>3 DEF BeginPoll
  <1>6. t = Net => \A p \in Peers : PeerConfirms(p) => q = <<Notify(queue[p], p)>>
    BY <1>3 DEF PeerConfirms
  <1>7. t = Net => \A p \in Peers : PeerGone(p) => q = <<Gone(p), Notify(queue[p], p)>>
    BY <1>3 DEF PeerGone
  <1>8. t = Net => \A p \in Peers, s \in Socks :
          Arrive(p, s) => q = <<Unlock(s), RxCb(s, Message(p, sent[s][p] + 1 = Quota))>>
    BY <1>3 DEF Arrive
  <1>9. Begin(t)
    BY <1>0 DEF Doing
  <1>10. QED
    BY <1>1, <1>2, <1>4, <1>5, <1>6, <1>7, <1>8, <1>9 DEF Begin

\* waiters_list_lock is held by the thread that polls, but while it waits.
LEMMA WaitLocksStep ==
  ASSUME SockInv, NEW t \in Threads, NEW q \in Seq(Frame), Step(t, q)
  PROVE  WaitLocks'
  <1>0. /\ StackType /\ TypeOK /\ Shape /\ Moves(t, q) /\ Doing(t) /\ Calm(t) /\ WaitLocks /\ Goto(t, q)
        /\ waitLock \in Threads \cup {Null} /\ Null \notin Threads
    BY AddrTypes DEF SockInv, TypeOK, StackType, Step, Moves
  <1>a. Op(t) # "none" => stack[t] # <<>> /\ Top(t).op = Op(t) /\ Top(t) \in Frame
    BY <1>0, TopAt DEF Op
  <1>1. \A u \in Threads : u # t => (InPoll(u)' <=> InPoll(u))
    BY <1>0, GotoFrames DEF InPoll
  <1>2. SUFFICES /\ waitLock' = t <=> InPoll(t)'
                 /\ \A u \in Threads : u # t => (waitLock' = u <=> waitLock = u)
    BY <1>0, <1>1 DEF WaitLocks
  <1>3. CASE Op(t) \notin {"none", "poll", "polltest", "pollwait", "pollend"}
    <2>1. \A k \in DOMAIN q : q[k].op \notin {"poll", "polltest", "pollend"}
      BY <1>0, <1>3, FollowsOps DEF Moves, Op
    <2>2. Op(t) \notin {"poll", "polltest", "pollend"}
      BY <1>3
    <2>3. \A i : (i \in DOMAIN stack'[t] /\ stack'[t][i].op \in {"poll", "polltest", "pollend"})
                   <=> (i \in DOMAIN stack[t] /\ stack[t][i].op \in {"poll", "polltest", "pollend"})
      BY <1>0, <2>1, <2>2, MovesKeep
    <2>4. InPoll(t)' <=> InPoll(t)
      BY <2>3 DEF InPoll
    <2>5. waitLock' = waitLock
      BY <1>0, <1>3 DEF Calm
    <2>6. QED
      BY <1>0, <2>4, <2>5 DEF WaitLocks
  <1>4. CASE Op(t) = "none"
    <2>1. /\ stack[t] = <<>> /\ stack'[t] = q
          /\ \/ \E s \in Socks : Open(t, s) /\ q = <<>>
             \/ \E s \in Socks : Call(t, s) /\ ~Open(t, s)
             \/ \E f \in SUBSET Socks, ev \in SUBSET {"in", "out"} : BeginPoll(t, f, ev) /\ q = <<Poll(f, FALSE)>>
             \/ t = Net /\ \E p \in Peers : PeerConfirms(p) /\ q = <<Notify(queue[p], p)>>
             \/ t = Net /\ \E p \in Peers : PeerGone(p) /\ q = <<Gone(p), Notify(queue[p], p)>>
             \/ t = Net /\ \E p \in Peers, s \in Socks :
                  Arrive(p, s) /\ q = <<Unlock(s), RxCb(s, Message(p, sent[s][p] + 1 = Quota))>>
      BY <1>0, <1>4, BeginCases
    <2>2. ~InPoll(t) /\ waitLock # t
      BY <1>0, <2>1 DEF InPoll, WaitLocks
    <2>3. CASE \E f \in SUBSET Socks, ev \in SUBSET {"in", "out"} : BeginPoll(t, f, ev) /\ q = <<Poll(f, FALSE)>>
      BY <1>0, <2>1, <2>3 DEF BeginPoll, Wait, InPoll, Poll
    <2>4. ASSUME waitLock' = waitLock, 1 \in DOMAIN q => q[1].op \notin {"poll", "polltest", "pollend"}
          PROVE  /\ waitLock' = t <=> InPoll(t)'
                 /\ \A u \in Threads : u # t => (waitLock' = u <=> waitLock = u)
      BY <2>1, <2>2, <2>4 DEF InPoll
    <2>5. CASE \E s \in Socks : Open(t, s) /\ q = <<>>
      BY <2>4, <2>5 DEF Open, locks
    <2>6. CASE \E s \in Socks : Call(t, s) /\ ~Open(t, s)
      <3>1. PICK s \in Socks : Call(t, s) /\ ~Open(t, s)
        BY <2>6
      <3>2. q[1] = Put(s) /\ UNCHANGED locks
        BY <1>0, <3>1, CallEffects
      <3>3. QED
        BY <2>4, <3>2 DEF Put, At1, locks
    <2>7. CASE t = Net /\ \E p \in Peers : PeerConfirms(p) /\ q = <<Notify(queue[p], p)>>
      BY <2>4, <2>7 DEF PeerConfirms, locks, Notify
    <2>8. CASE t = Net /\ \E p \in Peers : PeerGone(p) /\ q = <<Gone(p), Notify(queue[p], p)>>
      BY <2>4, <2>8 DEF PeerGone, locks, Gone
    <2>9. CASE t = Net /\ \E p \in Peers, s \in Socks :
                 Arrive(p, s) /\ q = <<Unlock(s), RxCb(s, Message(p, sent[s][p] + 1 = Quota))>>
      BY <2>4, <2>9 DEF Arrive, locks, Unlock, At1
    <2>10. QED
      BY <2>1, <2>3, <2>5, <2>6, <2>7, <2>8, <2>9
  <1>5. ASSUME Op(t) \in {"poll", "polltest", "pollwait", "pollend"}
        PROVE  /\ stack'[t] = q /\ Len(stack[t]) = 1 /\ DOMAIN stack[t] = 1..1 /\ stack[t][1] = Top(t)
               /\ InPoll(t) <=> Op(t) # "pollwait"
    <2>1. Len(Below(t)) = 0
      BY <1>0, <1>a, <1>5, TopDepth
    <2>2. Len(stack[t]) = Len(Below(t)) + 1 /\ DOMAIN stack[t] = 1..(Len(Below(t)) + 1)
          /\ stack[t][Len(Below(t)) + 1] = Top(t)
      BY <1>0, <1>a, <1>5, TopDepth
    <2>3. stack'[t] = q
      BY <1>0, <2>1, Bottom
    <2>4. QED
      BY <1>a, <1>5, <2>1, <2>2, <2>3 DEF InPoll
  <1>6. \A p : Goto(t, p) /\ p \in Seq(Frame) => q = p
    BY <1>0, Went
  <1>7. CASE Op(t) = "poll"
    <2>1. waitLock = t /\ stack'[t] = q
      BY <1>0, <1>5, <1>7 DEF WaitLocks
    <2>2. CASE PollGet(t)
      <3>1. waitLock' = waitLock
        BY <2>2 DEF PollGet, locks
      <3>2. PICK p : Goto(t, p) /\ (p = <<PollEnds>> \/ \E s \in Top(t).f : p = <<PollTest(s, Top(t).f \ {s}, Top(t).ready)>>)
        BY <2>2 DEF PollGet
      <3>3. p \in Seq(Frame)
        <4>1. Top(t).f \in SUBSET Socks /\ Top(t).ready \in BOOLEAN
          BY <1>a, <1>7, FieldTypes
        <4>2. \A s \in Top(t).f : PollTest(s, Top(t).f \ {s}, Top(t).ready) \in Frame
          BY <4>1, FramePoll
        <4>3. PollEnds \in Frame /\ \E f : p = <<f>> /\ (f = PollEnds \/ \E s \in Top(t).f : f = PollTest(s, Top(t).f \ {s}, Top(t).ready))
          BY <3>2, FramePoll
        <4>4. \E f \in Frame : p = <<f>>
          BY <4>2, <4>3
        <4>5. QED
          BY <4>4, FrameSeqs
      <3>4. q = p
        BY <1>6, <3>2, <3>3
      <3>5. QED
        BY <2>1, <3>1, <3>2, <3>4 DEF InPoll, PollEnds, PollTest
    <2>3. CASE PollSleep(t)
      <3>1. <<PollWaits>> \in Seq(Frame) /\ <<PollEnds>> \in Seq(Frame)
        BY FramePoll
      <3>2. \/ waitLock' = Null /\ q = <<PollWaits>>
            \/ waitLock' = waitLock /\ q = <<PollEnds>>
        BY <1>6, <2>3, <3>1 DEF PollSleep
      <3>3. QED
        BY <1>0, <2>1, <3>2 DEF InPoll, PollWaits, PollEnds
    <2>4. QED
      BY <1>0, <1>7, <2>2, <2>3 DEF Doing
  <1>8. CASE Op(t) = "polltest"
    <2>1. waitLock = t /\ stack'[t] = q /\ waitLock' = waitLock
      BY <1>0, <1>5, <1>8 DEF WaitLocks, Calm
    <2>2. PICK r \in BOOLEAN : Goto(t, <<Poll(Top(t).f, r), Put(Top(t).s)>>)
      <3>1. PollLook(t) /\ Top(t).ready \in BOOLEAN
        BY <1>0, <1>a, <1>8, FieldTypes DEF Doing
      <3>2. (Top(t).ready \/ Ready(Top(t).s, waiter[t].ev)) \in BOOLEAN
        BY <3>1 DEF Ready
      <3>3. QED
        BY <3>1, <3>2 DEF PollLook
    <2>3. <<Poll(Top(t).f, r), Put(Top(t).s)>> \in Seq(Frame)
      BY <1>a, <1>8, FieldTypes, FramePoll, FrameAt1
    <2>4. q = <<Poll(Top(t).f, r), Put(Top(t).s)>>
      BY <1>6, <2>2, <2>3
    <2>5. QED
      BY <2>1, <2>4 DEF InPoll, Poll
  <1>9. CASE Op(t) = "pollwait"
    <2>1. waitLock = Null /\ waitLock' = t /\ stack'[t] = q
      BY <1>0, <1>5, <1>9 DEF Doing, PollWake, PollTimeOut
    <2>2. Follows(Top(t), q) /\ q # <<>>
      <3>1. Follows(Top(t), q)
        BY <1>0, <1>a, <1>9 DEF Moves
      <3>2. PICK p : Goto(t, <<p>>) /\ (p = PollEnds \/ p = Poll(waiter[t].f, FALSE))
        BY <1>0, <1>9 DEF Doing, PollWake, PollTimeOut
      <3>3. ASSUME q = <<>> PROVE FALSE
        <4>1. Below(t) \o <<>> = Below(t) \o <<p>> /\ Below(t) \in Seq(Frame)
          BY <1>0, <3>2, <3>3 DEF Goto, StackType, Below
        <4>2. Len(Below(t) \o <<p>>) = Len(Below(t)) + 1 /\ Len(Below(t)) = 0
          <5>1. Below(t) = <<>>
            BY <1>0, <1>a, <1>9, <4>1, TopDepth
          <5>2. QED
            BY <5>1
        <4>3. QED
          BY <4>1, <4>2
      <3>4. QED
        BY <3>1, <3>3
    <2>3. q = <<PollEnds>> \/ \E w \in SUBSET Socks : q = <<Poll(w, FALSE)>>
      BY <1>a, <1>9, <2>2 DEF Follows
    <2>4. QED
      BY <1>0, <2>1, <2>3 DEF InPoll, PollEnds, Poll
  <1>10. CASE Op(t) = "pollend"
    <2>1. waitLock = t /\ waitLock' = Null /\ Goto(t, <<>>) /\ stack'[t] = q
      BY <1>0, <1>5, <1>10 DEF WaitLocks, Doing, PollEnd
    <2>2. q = <<>>
      BY <1>6, <2>1, FrameSeqs
    <2>3. QED
      BY <1>0, <2>1, <2>2 DEF InPoll
  <1>11. QED
    BY <1>3, <1>4, <1>7, <1>8, <1>9, <1>10

(***************************************************************************)
(* The frames each step enters                                             *)
(***************************************************************************)

\* A thread with an operation has a frame of it at the top of its stack.
LEMMA TopOp ==
  ASSUME StackType, NEW t \in Threads, Op(t) # "none"
  PROVE  stack[t] # <<>> /\ Top(t) \in Frame /\ Top(t).op = Op(t)
  BY DEF Op, Top, StackType

\* The first of a queue that is not empty is a packet.
LEMMA HeadPacket ==
  ASSUME TypeOK, NEW s \in Socks, rxq[s] # <<>>
  PROVE  Head(rxq[s]) \in Packet
  <1>1. rxq[s] \in Seq(Packet)
    BY DEF TypeOK
  <1>2. QED
    BY <1>1

\* A thread that polls has an entry with its set of sockets.
LEMMA PollSet ==
  ASSUME TypeOK, Shape, Waiters, NEW t \in Threads, stack[t] # <<>>, Top(t).op \in {"poll", "polltest", "pollwait"}
  PROVE  waiter[t] # Null /\ waiter[t].a = Null /\ waiter[t].f \in SUBSET Socks
  <1>1. StackType
    BY DEF TypeOK, StackType
  <1>2. Len(stack[t]) \in DOMAIN stack[t] /\ stack[t][Len(stack[t])] = Top(t)
    BY <1>1, TopAt
  <1>3. waiter[t] # Null /\ waiter[t].a = Null
    BY <1>2 DEF Waiters, Entry
  <1>4. QED
    BY <1>3 DEF TypeOK, Entries

\* The step of a thread at a frame "put", and what it goes on with
LEMMA DoesPut ==
  ASSUME TypeOK, NEW t \in Threads, NEW q \in Seq(Frame), Step(t, q), Op(t) = "put"
  PROVE  LET s == Top(t).s
         IN /\ PutSock(t)
            /\ stack[t] # <<>> /\ Goto(t, q) /\ s \in Socks
            /\ q = IF sock[s].ref = 1 THEN <<Unblock(s, {"nval"}, Null)>> ELSE <<>>
  <1>1. StackType /\ Goto(t, q) /\ PutSock(t)
    BY DEF TypeOK, StackType, Step, Moves, Doing
  <1>2. stack[t] # <<>> /\ Top(t) \in Frame /\ Top(t).op = "put"
    BY <1>1, TopOp
  <1> DEFINE s == Top(t).s
  <1>3. s \in Socks
    BY <1>2, FieldTypes
  <1>4. <<Unblock(s, {"nval"}, Null)>> \in Seq(Frame) /\ <<>> \in Seq(Frame)
    BY <1>3, FrameData, FrameSeqs
  <1>5. \A p \in Seq(Frame) : Goto(t, p) => q = p
    BY <1>1, Went
  <1>6. QED
    BY <1>1, <1>2, <1>3, <1>4, <1>5 DEF PutSock

\* The step of a thread at a frame "unblock", and what it goes on with
LEMMA DoesUnblock ==
  ASSUME TypeOK, NEW t \in Threads, NEW q \in Seq(Frame), Step(t, q), Op(t) = "unblock"
  PROVE  LET s == Top(t).s
             f == Top(t)
         IN /\ UnblockEvent(t)
            /\ stack[t] # <<>> /\ Goto(t, q) /\ s \in Socks /\ f.a \in Addrs \cup {Null} /\ f.ev \in SUBSET {"in", "out", "hup", "nval"}
            /\ q = IF f.a # Null /\ Matches(s, f.ev, f.a) = {} THEN <<Add(s, Resumed(f.a))>> ELSE <<>>
  <1>1. StackType /\ Goto(t, q) /\ UnblockEvent(t)
    BY DEF TypeOK, StackType, Step, Moves, Doing
  <1>2. stack[t] # <<>> /\ Top(t) \in Frame /\ Top(t).op = "unblock"
    BY <1>1, TopOp
  <1> DEFINE s == Top(t).s
             f == Top(t)
  <1>3. s \in Socks /\ f.a \in Addrs \cup {Null} /\ f.ev \in SUBSET {"in", "out", "hup", "nval"}
    BY <1>2, FieldTypes
  <1>4. f.a # Null => <<Add(s, Resumed(f.a))>> \in Seq(Frame)
    BY <1>3, PacketTypes, FrameData, FrameSeqs
  <1>5. <<>> \in Seq(Frame)
    BY FrameSeqs
  <1>6. \A p \in Seq(Frame) : Goto(t, p) => q = p
    BY <1>1, Went
  <1>7. QED
    BY <1>1, <1>2, <1>3, <1>4, <1>5, <1>6 DEF UnblockEvent

\* The step of a thread at a frame "add", and what it goes on with
LEMMA DoesAdd ==
  ASSUME TypeOK, NEW t \in Threads, NEW q \in Seq(Frame), Step(t, q), Op(t) = "add"
  PROVE  LET s == Top(t).s
         IN /\ Enqueue(t)
            /\ stack[t] # <<>> /\ Goto(t, q) /\ s \in Socks /\ Top(t).m \in Packet
            /\ q = <<Unblock(s, {"in"}, Null)>>
  <1>1. StackType /\ Goto(t, q) /\ Enqueue(t)
    BY DEF TypeOK, StackType, Step, Moves, Doing
  <1>2. stack[t] # <<>> /\ Top(t) \in Frame /\ Top(t).op = "add"
    BY <1>1, TopOp
  <1> DEFINE s == Top(t).s
  <1>3. s \in Socks /\ Top(t).m \in Packet
    BY <1>2, FieldTypes
  <1>4. <<Unblock(s, {"in"}, Null)>> \in Seq(Frame)
    BY <1>3, FrameData, FrameSeqs
  <1>5. \A p \in Seq(Frame) : Goto(t, p) => q = p
    BY <1>1, Went
  <1>6. QED
    BY <1>1, <1>2, <1>3, <1>4, <1>5 DEF Enqueue

\* The step of a thread at a frame "rx", and what it goes on with
LEMMA DoesRx ==
  ASSUME TypeOK, NEW t \in Threads, NEW q \in Seq(Frame), Step(t, q), Op(t) = "rx"
  PROVE  LET s == Top(t).s
             m == Top(t).m
             takes == Data(s) /\ Rx(s) /\ sock[s].conn # Reset
             other == sock[s].conn \in Addrs /\ m.from # sock[s].conn
         IN /\ Receive(t)
            /\ stack[t] # <<>> /\ Goto(t, q) /\ s \in Socks /\ m \in Packet
            /\ q = IF takes /\ ~other THEN <<Add(s, m)>> ELSE IF takes /\ m.confirm THEN <<At2("confirm", s, m.from)>> ELSE <<>>
  <1>1. StackType /\ Goto(t, q) /\ Receive(t)
    BY DEF TypeOK, StackType, Step, Moves, Doing
  <1>2. stack[t] # <<>> /\ Top(t) \in Frame /\ Top(t).op = "rx"
    BY <1>1, TopOp
  <1> DEFINE s == Top(t).s
             m == Top(t).m
             takes == Data(s) /\ Rx(s) /\ sock[s].conn # Reset
             other == sock[s].conn \in Addrs /\ m.from # sock[s].conn
  <1>3. s \in Socks /\ m \in Packet
    BY <1>2, FieldTypes
  <1>4. <<Add(s, m)>> \in Seq(Frame) /\ (m.confirm => <<At2("confirm", s, m.from)>> \in Seq(Frame))
    BY <1>3, FrameData, FrameAt2, FrameSeqs, PacketTypes
  <1>5. <<>> \in Seq(Frame)
    BY FrameSeqs
  <1>6. \A p \in Seq(Frame) : Goto(t, p) => q = p
    BY <1>1, Went
  <1>7. QED
    BY <1>1, <1>2, <1>3, <1>4, <1>5, <1>6 DEF Receive

\* The step of a thread at a frame "resume", and what it goes on with
LEMMA DoesResume ==
  ASSUME TypeOK, NEW t \in Threads, NEW q \in Seq(Frame), Step(t, q), Op(t) = "resume"
  PROVE  LET s == Top(t).s
             a == Top(t).a
         IN /\ ResumeEvent(t)
            /\ stack[t] # <<>> /\ Goto(t, q) /\ s \in Socks /\ a \in Addrs
            /\ q = IF Rx(s) THEN <<Unblock(s, {"out"}, a)>> ELSE <<>>
  <1>1. StackType /\ Goto(t, q) /\ ResumeEvent(t)
    BY DEF TypeOK, StackType, Step, Moves, Doing
  <1>2. stack[t] # <<>> /\ Top(t) \in Frame /\ Top(t).op = "resume"
    BY <1>1, TopOp
  <1> DEFINE s == Top(t).s
             a == Top(t).a
  <1>3. s \in Socks /\ a \in Addrs
    BY <1>2, FieldTypes
  <1>4. <<Unblock(s, {"out"}, a)>> \in Seq(Frame) /\ <<>> \in Seq(Frame)
    BY <1>3, FrameData, FrameSeqs
  <1>5. \A p \in Seq(Frame) : Goto(t, p) => q = p
    BY <1>1, Went
  <1>6. QED
    BY <1>1, <1>2, <1>3, <1>4, <1>5 DEF ResumeEvent

\* The step of a thread at a frame "remove", and what it goes on with
LEMMA DoesRemove ==
  ASSUME TypeOK, NEW t \in Threads, NEW q \in Seq(Frame), Step(t, q), Op(t) = "remove"
  PROVE  LET s == Top(t).s
             a == Top(t).a
         IN /\ RemoveEvent(t)
            /\ stack[t] # <<>> /\ Goto(t, q) /\ s \in Socks /\ a \in Addrs
            /\ q = IF Rx(s) /\ ~Data(s) THEN <<Add(s, News)>>
                   ELSE IF Rx(s) /\ Data(s) /\ sock[s].conn = a THEN <<At1("flush", s)>> ELSE <<>>
  <1>1. StackType /\ Goto(t, q) /\ RemoveEvent(t)
    BY DEF TypeOK, StackType, Step, Moves, Doing
  <1>2. stack[t] # <<>> /\ Top(t) \in Frame /\ Top(t).op = "remove"
    BY <1>1, TopOp
  <1> DEFINE s == Top(t).s
             a == Top(t).a
  <1>3. s \in Socks /\ a \in Addrs
    BY <1>2, FieldTypes
  <1>4. <<Add(s, News)>> \in Seq(Frame) /\ <<At1("flush", s)>> \in Seq(Frame) /\ <<>> \in Seq(Frame)
    BY <1>3, PacketTypes, FrameAt1, FrameData, FrameSeqs
  <1>5. \A p \in Seq(Frame) : Goto(t, p) => q = p
    BY <1>1, Went
  <1>6. QED
    BY <1>1, <1>2, <1>3, <1>4, <1>5 DEF RemoveEvent

\* The step of a thread at a frame "flush", and what it goes on with
LEMMA DoesFlush ==
  ASSUME TypeOK, NEW t \in Threads, NEW q \in Seq(Frame), Step(t, q), Op(t) = "flush"
  PROVE  LET s == Top(t).s
         IN /\ Flush(t)
            /\ stack[t] # <<>> /\ Goto(t, q) /\ s \in Socks
            /\ q = <<Unblock(s, {"in", "hup"}, Null)>>
  <1>1. StackType /\ Goto(t, q) /\ Flush(t)
    BY DEF TypeOK, StackType, Step, Moves, Doing
  <1>2. stack[t] # <<>> /\ Top(t) \in Frame /\ Top(t).op = "flush"
    BY <1>1, TopOp
  <1> DEFINE s == Top(t).s
  <1>3. s \in Socks
    BY <1>2, FieldTypes
  <1>4. <<Unblock(s, {"in", "hup"}, Null)>> \in Seq(Frame)
    BY <1>3, FrameData, FrameSeqs
  <1>5. \A p \in Seq(Frame) : Goto(t, p) => q = p
    BY <1>1, Went
  <1>6. QED
    BY <1>1, <1>2, <1>3, <1>4, <1>5 DEF Flush

\* The step of a thread at a frame "closed", and what it goes on with
LEMMA DoesClosed ==
  ASSUME TypeOK, NEW t \in Threads, NEW q \in Seq(Frame), Step(t, q), Op(t) = "closed"
  PROVE  LET s == Top(t).s
         IN /\ Closed(t)
            /\ stack[t] # <<>> /\ Goto(t, q) /\ s \in Socks
            /\ q = <<Put(s)>>
  <1>1. StackType /\ Goto(t, q) /\ Closed(t)
    BY DEF TypeOK, StackType, Step, Moves, Doing
  <1>2. stack[t] # <<>> /\ Top(t) \in Frame /\ Top(t).op = "closed"
    BY <1>1, TopOp
  <1> DEFINE s == Top(t).s
  <1>3. s \in Socks
    BY <1>2, FieldTypes
  <1>4. <<Put(s)>> \in Seq(Frame)
    BY <1>3, FrameAt1, FrameSeqs
  <1>5. \A p \in Seq(Frame) : Goto(t, p) => q = p
    BY <1>1, Went
  <1>6. QED
    BY <1>1, <1>2, <1>3, <1>4, <1>5 DEF Closed

\* The step of a thread at a frame "unlock", and what it goes on with
LEMMA DoesUnlock ==
  ASSUME TypeOK, NEW t \in Threads, NEW q \in Seq(Frame), Step(t, q), Op(t) = "unlock"
  PROVE  LET s == Top(t).s
         IN /\ UnlockClient(t)
            /\ stack[t] # <<>> /\ Goto(t, q) /\ s \in Socks
            /\ q = IF port[s] = "removed" /\ Cardinality(Frames({"unlock"}, s)) = 1 THEN <<At1("cleanup", s)>> ELSE <<>>
  <1>1. StackType /\ Goto(t, q) /\ UnlockClient(t)
    BY DEF TypeOK, StackType, Step, Moves, Doing
  <1>2. stack[t] # <<>> /\ Top(t) \in Frame /\ Top(t).op = "unlock"
    BY <1>1, TopOp
  <1> DEFINE s == Top(t).s
  <1>3. s \in Socks
    BY <1>2, FieldTypes
  <1>4. <<At1("cleanup", s)>> \in Seq(Frame) /\ <<>> \in Seq(Frame)
    BY <1>3, FrameAt1, FrameSeqs
  <1>5. \A p \in Seq(Frame) : Goto(t, p) => q = p
    BY <1>1, Went
  <1>6. QED
    BY <1>1, <1>2, <1>3, <1>4, <1>5 DEF UnlockClient

\* The step of a thread at a frame "resumetx", and what it goes on with
LEMMA DoesResumeTx ==
  ASSUME TypeOK, NEW t \in Threads, NEW q \in Seq(Frame), Step(t, q), Op(t) = "resumetx"
  PROVE  LET s == Top(t).s
         IN /\ ResumeTx(t)
            /\ stack[t] # <<>> /\ Goto(t, q) /\ s \in Socks
            /\ q = <<Notify(queue[s], s)>>
  <1>1. StackType /\ Goto(t, q) /\ ResumeTx(t)
    BY DEF TypeOK, StackType, Step, Moves, Doing
  <1>2. stack[t] # <<>> /\ Top(t) \in Frame /\ Top(t).op = "resumetx"
    BY <1>1, TopOp
  <1> DEFINE s == Top(t).s
  <1>3. s \in Socks
    BY <1>2, FieldTypes
  <1>4. Notify(queue[s], s) \in Frame
    BY <1>3, FrameRouter, AddrTypes DEF TypeOK
  <1>5. <<>> \o <<Notify(queue[s], s)>> = <<Notify(queue[s], s)>> /\ <<Notify(queue[s], s)>> \in Seq(Frame)
    BY <1>4, Tuples, FrameSeqs
  <1>6. ~At(t, "cleanup")
    BY <1>2 DEF At
  <1>7. \A p \in Seq(Frame) : Goto(t, p) => q = p
    BY <1>1, Went
  <1>8. QED
    BY <1>1, <1>2, <1>3, <1>4, <1>5, <1>6, <1>7 DEF ResumeTx

\* The step of a thread at a frame "cleanup", and what it goes on with
LEMMA DoesCleanup ==
  ASSUME TypeOK, NEW t \in Threads, NEW q \in Seq(Frame), Step(t, q), Op(t) = "cleanup"
  PROVE  LET s == Top(t).s
         IN /\ ResumeTx(t)
            /\ stack[t] # <<>> /\ Goto(t, q) /\ s \in Socks
            /\ q = <<At1("closed", s), Notify(queue[s], s)>>
  <1>1. StackType /\ Goto(t, q) /\ ResumeTx(t)
    BY DEF TypeOK, StackType, Step, Moves, Doing
  <1>2. stack[t] # <<>> /\ Top(t) \in Frame /\ Top(t).op = "cleanup"
    BY <1>1, TopOp
  <1> DEFINE s == Top(t).s
  <1>3. s \in Socks
    BY <1>2, FieldTypes
  <1>4. Notify(queue[s], s) \in Frame /\ At1("closed", s) \in Frame
    BY <1>3, FrameRouter, FrameAt1, AddrTypes DEF TypeOK
  <1>5. <<At1("closed", s)>> \o <<Notify(queue[s], s)>> = <<At1("closed", s), Notify(queue[s], s)>>
    BY <1>4, Tuples
  <1>6. <<At1("closed", s), Notify(queue[s], s)>> \in Seq(Frame)
    BY <1>4, FrameSeqs
  <1>7. At(t, "cleanup")
    BY <1>2 DEF At
  <1>8. \A p \in Seq(Frame) : Goto(t, p) => q = p
    BY <1>1, Went
  <1>9. QED
    BY <1>1, <1>2, <1>3, <1>4, <1>5, <1>6, <1>7, <1>8 DEF ResumeTx

\* The step of a thread at a frame "notify", and what it goes on with
LEMMA DoesNotify ==
  ASSUME TypeOK, NEW t \in Threads, NEW q \in Seq(Frame), Step(t, q), Op(t) = "notify"
  PROVE  LET w == Top(t).q
             a == Top(t).a
         IN /\ NotifyWaiter(t)
            /\ stack[t] # <<>> /\ Goto(t, q) /\ w \in Seq(Socks) /\ a \in Addrs
            /\ w # <<>> => Head(w) \in Socks /\ Tail(w) \in Seq(Socks)
            /\ q = IF w = <<>> THEN <<>>
                   ELSE IF port[Head(w)] = "open"
                        THEN <<Notify(Tail(w), a), Unlock(Head(w)), At2("resume", Head(w), a)>>
                        ELSE <<Notify(Tail(w), a)>>
  <1>1. StackType /\ Goto(t, q) /\ NotifyWaiter(t)
    BY DEF TypeOK, StackType, Step, Moves, Doing
  <1>2. stack[t] # <<>> /\ Top(t) \in Frame /\ Top(t).op = "notify"
    BY <1>1, TopOp
  <1> DEFINE w == Top(t).q
             a == Top(t).a
  <1>3. w \in Seq(Socks) /\ a \in Addrs
    BY <1>2, FieldTypes
  <1>4. w # <<>> => Head(w) \in Socks /\ Tail(w) \in Seq(Socks)
    BY <1>3
  <1>5. w # <<>> => Notify(Tail(w), a) \in Frame /\ Unlock(Head(w)) \in Frame /\ At2("resume", Head(w), a) \in Frame
    BY <1>3, <1>4, FrameRouter, FrameAt1, FrameAt2
  <1>6. w # <<>> => /\ <<Notify(Tail(w), a)>> \o <<>> = <<Notify(Tail(w), a)>>
                    /\ <<Notify(Tail(w), a)>> \o <<Unlock(Head(w)), At2("resume", Head(w), a)>>
                         = <<Notify(Tail(w), a), Unlock(Head(w)), At2("resume", Head(w), a)>>
    BY <1>5, Tuples, FrameSeqs
  <1>7. /\ w # <<>> => /\ <<Notify(Tail(w), a)>> \in Seq(Frame)
                       /\ <<Notify(Tail(w), a), Unlock(Head(w)), At2("resume", Head(w), a)>> \in Seq(Frame)
        /\ <<>> \in Seq(Frame)
    BY <1>5, FrameSeqs
  <1>8. \A p \in Seq(Frame) : Goto(t, p) => q = p
    BY <1>1, Went
  <1>9. QED
    BY <1>1, <1>2, <1>3, <1>4, <1>5, <1>6, <1>7, <1>8 DEF NotifyWaiter

\* The step of a thread at a frame "gone", and what it goes on with
LEMMA DoesGone ==
  ASSUME TypeOK, NEW t \in Threads, NEW q \in Seq(Frame), Step(t, q), Op(t) = "gone"
  PROVE  LET a == Top(t).a
         IN /\ ListClients(t)
            /\ stack[t] # <<>> /\ Goto(t, q) /\ a \in Addrs
            /\ q = <<Removed({s \in Socks : port[s] = "open"}, a)>>
  <1>1. StackType /\ Goto(t, q) /\ ListClients(t)
    BY DEF TypeOK, StackType, Step, Moves, Doing
  <1>2. stack[t] # <<>> /\ Top(t) \in Frame /\ Top(t).op = "gone"
    BY <1>1, TopOp
  <1> DEFINE a == Top(t).a
  <1>3. a \in Addrs
    BY <1>2, FieldTypes
  <1>4. {s \in Socks : port[s] = "open"} \in SUBSET Socks
    BY <1>1
  <1>5. <<Removed({s \in Socks : port[s] = "open"}, a)>> \in Seq(Frame)
    BY <1>3, <1>4, FrameRouter, FrameSeqs
  <1>6. \A p \in Seq(Frame) : Goto(t, p) => q = p
    BY <1>1, Went
  <1>7. QED
    BY <1>1, <1>2, <1>3, <1>4, <1>5, <1>6 DEF ListClients

\* The step of a thread at a frame "removed", and what it goes on with
LEMMA DoesRemoved ==
  ASSUME TypeOK, NEW t \in Threads, NEW q \in Seq(Frame), Step(t, q), Op(t) = "removed"
  PROVE  LET c == Top(t).c
             a == Top(t).a
         IN /\ EventNotify(t)
            /\ stack[t] # <<>> /\ Goto(t, q) /\ c \in SUBSET Socks /\ a \in Addrs
            /\ \/ c = {} /\ q = <<>>
               \/ \E s \in c : q = IF port[s] = "open" THEN <<Removed(c \ {s}, a), Unlock(s), At2("remove", s, a)>>
                                ELSE <<Removed(c \ {s}, a)>>
  <1>1. StackType /\ Goto(t, q) /\ EventNotify(t)
    BY DEF TypeOK, StackType, Step, Moves, Doing
  <1>2. stack[t] # <<>> /\ Top(t) \in Frame /\ Top(t).op = "removed"
    BY <1>1, TopOp
  <1> DEFINE c == Top(t).c
             a == Top(t).a
  <1>3. c \in SUBSET Socks /\ a \in Addrs
    BY <1>2, FieldTypes
  <1>4. \A s \in c : Removed(c \ {s}, a) \in Frame /\ Unlock(s) \in Frame /\ At2("remove", s, a) \in Frame
    BY <1>3, FrameRouter, FrameAt1, FrameAt2
  <1>5. \A s \in c : /\ <<Removed(c \ {s}, a)>> \o <<>> = <<Removed(c \ {s}, a)>>
                     /\ <<Removed(c \ {s}, a)>> \o <<Unlock(s), At2("remove", s, a)>>
                          = <<Removed(c \ {s}, a), Unlock(s), At2("remove", s, a)>>
    BY <1>4, Tuples, FrameSeqs
  <1>6. /\ \A s \in c : /\ <<Removed(c \ {s}, a)>> \in Seq(Frame)
                        /\ <<Removed(c \ {s}, a), Unlock(s), At2("remove", s, a)>> \in Seq(Frame)
        /\ <<>> \in Seq(Frame)
    BY <1>4, FrameSeqs
  <1>7. \A p \in Seq(Frame) : Goto(t, p) => q = p
    BY <1>1, Went
  <1>8. QED
    BY <1>1, <1>2, <1>3, <1>4, <1>5, <1>6, <1>7 DEF EventNotify

\* The step of a thread at a frame "coreclose", and what it goes on with
LEMMA DoesCoreClose ==
  ASSUME TypeOK, NEW t \in Threads, NEW q \in Seq(Frame), Step(t, q), Op(t) = "coreclose"
  PROVE  LET s == Top(t).s
         IN /\ CoreClose(t)
            /\ stack[t] # <<>> /\ Goto(t, q) /\ s \in Socks
            /\ q = IF Held(s) THEN <<Gone(s)>> ELSE <<Gone(s), At1("cleanup", s)>>
  <1>1. StackType /\ Goto(t, q) /\ CoreClose(t)
    BY DEF TypeOK, StackType, Step, Moves, Doing
  <1>2. stack[t] # <<>> /\ Top(t) \in Frame /\ Top(t).op = "coreclose"
    BY <1>1, TopOp
  <1> DEFINE s == Top(t).s
  <1>3. s \in Socks
    BY <1>2, FieldTypes
  <1>4. Gone(s) \in Frame /\ At1("cleanup", s) \in Frame
    BY <1>3, FrameRouter, FrameAt1, AddrTypes
  <1>5. <<Gone(s)>> \o <<>> = <<Gone(s)>> /\ <<Gone(s)>> \o <<At1("cleanup", s)>> = <<Gone(s), At1("cleanup", s)>>
    BY <1>4, Tuples, FrameSeqs
  <1>6. <<Gone(s)>> \in Seq(Frame) /\ <<Gone(s), At1("cleanup", s)>> \in Seq(Frame)
    BY <1>4, FrameSeqs
  <1>7. \A p \in Seq(Frame) : Goto(t, p) => q = p
    BY <1>1, Went
  <1>8. QED
    BY <1>1, <1>2, <1>3, <1>4, <1>5, <1>6, <1>7 DEF CoreClose

\* The step of a thread at a frame "confirm", and what it goes on with
LEMMA DoesConfirm ==
  ASSUME TypeOK, NEW t \in Threads, NEW q \in Seq(Frame), Step(t, q), Op(t) = "confirm"
  PROVE  LET s == Top(t).s
             a == Top(t).a
         IN /\ Confirm(t)
            /\ stack[t] # <<>> /\ Goto(t, q) /\ s \in Socks /\ a \in Addrs
            /\ q = IF a \in Socks /\ port[s] = "open" THEN <<Unlock(s), At1("resumetx", s)>> ELSE <<>>
  <1>1. StackType /\ Goto(t, q) /\ Confirm(t)
    BY DEF TypeOK, StackType, Step, Moves, Doing
  <1>2. stack[t] # <<>> /\ Top(t) \in Frame /\ Top(t).op = "confirm"
    BY <1>1, TopOp
  <1> DEFINE s == Top(t).s
             a == Top(t).a
  <1>3. s \in Socks /\ a \in Addrs
    BY <1>2, FieldTypes
  <1>4. <<Unlock(s), At1("resumetx", s)>> \in Seq(Frame) /\ <<>> \in Seq(Frame)
    BY <1>3, FrameAt1, FrameSeqs
  <1>5. \A p \in Seq(Frame) : Goto(t, p) => q = p
    BY <1>1, Went
  <1>6. QED
    BY <1>1, <1>2, <1>3, <1>4, <1>5 DEF Confirm

\* The step of a thread at a frame "unwait", and what it goes on with
LEMMA DoesUnwait ==
  ASSUME TypeOK, NEW t \in Threads, NEW q \in Seq(Frame), Step(t, q), Op(t) = "unwait"
  PROVE  LET s == Top(t).s
         IN /\ Unwait(t)
            /\ stack[t] # <<>> /\ Goto(t, q) /\ s \in Socks
            /\ q = <<>>
  <1>1. StackType /\ Goto(t, q) /\ Unwait(t)
    BY DEF TypeOK, StackType, Step, Moves, Doing
  <1>2. stack[t] # <<>> /\ Top(t) \in Frame /\ Top(t).op = "unwait"
    BY <1>1, TopOp
  <1> DEFINE s == Top(t).s
  <1>3. s \in Socks
    BY <1>2, FieldTypes
  <1>4. <<>> \in Seq(Frame)
    BY FrameSeqs
  <1>5. \A p \in Seq(Frame) : Goto(t, p) => q = p
    BY <1>1, Went
  <1>6. QED
    BY <1>1, <1>2, <1>3, <1>4, <1>5 DEF Unwait

\* The step of a thread at a frame "recvwaiter", and what it goes on with
LEMMA DoesRecvWaiter ==
  ASSUME TypeOK, NEW t \in Threads, NEW q \in Seq(Frame), Step(t, q), Op(t) = "recvwaiter"
  PROVE  LET s == Top(t).s
         IN /\ RecvWaiter(t)
            /\ stack[t] # <<>> /\ Goto(t, q) /\ s \in Socks
            /\ q = <<At1("recvcheck", s)>>
  <1>1. StackType /\ Goto(t, q) /\ RecvWaiter(t)
    BY DEF TypeOK, StackType, Step, Moves, Doing
  <1>2. stack[t] # <<>> /\ Top(t) \in Frame /\ Top(t).op = "recvwaiter"
    BY <1>1, TopOp
  <1> DEFINE s == Top(t).s
  <1>3. s \in Socks
    BY <1>2, FieldTypes
  <1>4. <<At1("recvcheck", s)>> \in Seq(Frame)
    BY <1>3, FrameAt1, FrameSeqs
  <1>5. \A p \in Seq(Frame) : Goto(t, p) => q = p
    BY <1>1, Went
  <1>6. QED
    BY <1>1, <1>2, <1>3, <1>4, <1>5 DEF RecvWaiter

\* The step of a thread at a frame "recvcheck", and what it goes on with
LEMMA DoesRecvCheck ==
  ASSUME TypeOK, NEW t \in Threads, NEW q \in Seq(Frame), Step(t, q), Op(t) = "recvcheck"
  PROVE  LET s == Top(t).s
         IN /\ RecvCheck(t)
            /\ stack[t] # <<>> /\ Goto(t, q) /\ s \in Socks
            /\ q = IF rxq[s] # <<>> \/ sock[s].conn = Reset THEN <<>> ELSE <<At1("recvwait", s)>>
  <1>1. StackType /\ Goto(t, q) /\ RecvCheck(t)
    BY DEF TypeOK, StackType, Step, Moves, Doing
  <1>2. stack[t] # <<>> /\ Top(t) \in Frame /\ Top(t).op = "recvcheck"
    BY <1>1, TopOp
  <1> DEFINE s == Top(t).s
  <1>3. s \in Socks
    BY <1>2, FieldTypes
  <1>4. <<At1("recvwait", s)>> \in Seq(Frame) /\ <<>> \in Seq(Frame)
    BY <1>3, FrameAt1, FrameSeqs
  <1>5. \A p \in Seq(Frame) : Goto(t, p) => q = p
    BY <1>1, Went
  <1>6. QED
    BY <1>1, <1>2, <1>3, <1>4, <1>5 DEF RecvCheck

\* The step of a thread at a frame "recvwait", and what it goes on with
LEMMA DoesRecvWait ==
  ASSUME TypeOK, NEW t \in Threads, NEW q \in Seq(Frame), Step(t, q), Op(t) = "recvwait"
  PROVE  LET s == Top(t).s
         IN /\ RecvWake(t)
            /\ stack[t] # <<>> /\ Goto(t, q) /\ s \in Socks
            /\ q = <<At1("recvcheck", s)>>
  <1>1. StackType /\ Goto(t, q) /\ RecvWake(t)
    BY DEF TypeOK, StackType, Step, Moves, Doing
  <1>2. stack[t] # <<>> /\ Top(t) \in Frame /\ Top(t).op = "recvwait"
    BY <1>1, TopOp
  <1> DEFINE s == Top(t).s
  <1>3. s \in Socks
    BY <1>2, FieldTypes
  <1>4. <<At1("recvcheck", s)>> \in Seq(Frame)
    BY <1>3, FrameAt1, FrameSeqs
  <1>5. \A p \in Seq(Frame) : Goto(t, p) => q = p
    BY <1>1, Went
  <1>6. QED
    BY <1>1, <1>2, <1>3, <1>4, <1>5 DEF RecvWake

\* The step of a thread at a frame "read", and what it goes on with
LEMMA DoesRead ==
  ASSUME TypeOK, NEW t \in Threads, NEW q \in Seq(Frame), Step(t, q), Op(t) = "read"
  PROVE  LET s == Top(t).s
             m == Head(rxq[s])
         IN /\ Read(t)
            /\ stack[t] # <<>> /\ Goto(t, q) /\ s \in Socks
            /\ \/ q = <<>> /\ rxLock' = rxLock /\ (sock[s].conn = Reset \/ rxq[s] = <<>>)
               \/ /\ sock[s].conn # Reset /\ rxLock[s] = Null /\ rxq[s] # <<>> /\ m \in Packet
                  /\ rxLock' = [rxLock EXCEPT ![s] = t]
                  /\ m.confirm => m.from \in Addrs
                  /\ q = IF m.confirm /\ sock[s].handle THEN <<At1("readdone", s), At2("confirm", s, m.from)>>
                         ELSE <<At1("readdone", s)>>
  <1>1. StackType /\ Goto(t, q) /\ Read(t)
    BY DEF TypeOK, StackType, Step, Moves, Doing
  <1>2. stack[t] # <<>> /\ Top(t) \in Frame /\ Top(t).op = "read"
    BY <1>1, TopOp
  <1> DEFINE s == Top(t).s
             m == Head(rxq[s])
  <1>3. s \in Socks
    BY <1>2, FieldTypes
  <1>4. rxq[s] # <<>> => m \in Packet
    BY <1>3, HeadPacket
  <1>5. At1("readdone", s) \in Frame /\ (m \in Packet /\ m.confirm => m.from \in Addrs /\ At2("confirm", s, m.from) \in Frame)
    BY <1>3, FrameAt1, FrameAt2, PacketTypes
  <1>6. /\ <<At1("readdone", s)>> \o <<>> = <<At1("readdone", s)>>
        /\ At2("confirm", s, m.from) \in Frame =>
             <<At1("readdone", s)>> \o <<At2("confirm", s, m.from)>> = <<At1("readdone", s), At2("confirm", s, m.from)>>
    BY <1>5, Tuples, FrameSeqs
  <1>7. /\ <<At1("readdone", s)>> \in Seq(Frame) /\ <<>> \in Seq(Frame)
        /\ At2("confirm", s, m.from) \in Frame => <<At1("readdone", s), At2("confirm", s, m.from)>> \in Seq(Frame)
    BY <1>5, FrameSeqs
  <1>8. \A p \in Seq(Frame) : Goto(t, p) => q = p
    BY <1>1, Went
  <1>9. QED
    BY <1>1, <1>2, <1>3, <1>4, <1>5, <1>6, <1>7, <1>8 DEF Read, locks

\* The step of a thread at a frame "readdone", and what it goes on with
LEMMA DoesReadDone ==
  ASSUME TypeOK, NEW t \in Threads, NEW q \in Seq(Frame), Step(t, q), Op(t) = "readdone"
  PROVE  LET s == Top(t).s
         IN /\ ReadDone(t)
            /\ stack[t] # <<>> /\ Goto(t, q) /\ s \in Socks
            /\ q = <<>>
  <1>1. StackType /\ Goto(t, q) /\ ReadDone(t)
    BY DEF TypeOK, StackType, Step, Moves, Doing
  <1>2. stack[t] # <<>> /\ Top(t) \in Frame /\ Top(t).op = "readdone"
    BY <1>1, TopOp
  <1> DEFINE s == Top(t).s
  <1>3. s \in Socks
    BY <1>2, FieldTypes
  <1>4. <<>> \in Seq(Frame)
    BY FrameSeqs
  <1>5. \A p \in Seq(Frame) : Goto(t, p) => q = p
    BY <1>1, Went
  <1>6. QED
    BY <1>1, <1>2, <1>3, <1>4, <1>5 DEF ReadDone

\* The step of a thread at a frame "sendwaiter", and what it goes on with
LEMMA DoesSendWaiter ==
  ASSUME TypeOK, NEW t \in Threads, NEW q \in Seq(Frame), Step(t, q), Op(t) = "sendwaiter"
  PROVE  LET s == Top(t).s
             a == Top(t).a
         IN /\ SendWaiter(t)
            /\ stack[t] # <<>> /\ Goto(t, q) /\ s \in Socks /\ a \in Addrs
            /\ q = <<At2("send", s, a)>>
  <1>1. StackType /\ Goto(t, q) /\ SendWaiter(t)
    BY DEF TypeOK, StackType, Step, Moves, Doing
  <1>2. stack[t] # <<>> /\ Top(t) \in Frame /\ Top(t).op = "sendwaiter"
    BY <1>1, TopOp
  <1> DEFINE s == Top(t).s
             a == Top(t).a
  <1>3. s \in Socks /\ a \in Addrs
    BY <1>2, FieldTypes
  <1>4. <<At2("send", s, a)>> \in Seq(Frame)
    BY <1>3, FrameAt2, FrameSeqs
  <1>5. \A p \in Seq(Frame) : Goto(t, p) => q = p
    BY <1>1, Went
  <1>6. QED
    BY <1>1, <1>2, <1>3, <1>4, <1>5 DEF SendWaiter

\* The step of a thread at a frame "send" or "trysend", and what it goes on with
LEMMA DoesSend ==
  ASSUME TypeOK, NEW t \in Threads, NEW q \in Seq(Frame), Step(t, q), Op(t) \in {"send", "trysend"}
  PROVE  LET s == Top(t).s
             a == Top(t).a
             last == bucket[a] + 1 = Quota
         IN /\ CoreSend(t)
            /\ stack[t] # <<>> /\ Goto(t, q) /\ s \in Socks /\ a \in Addrs
            /\ \/ q = <<>> /\ ~Reachable(s, a) /\ UNCHANGED <<bucket, queue, asked, told>>
               \/ /\ Reachable(s, a) /\ TokenLeft(a)
                  /\ q = IF a \in Peers THEN <<>> ELSE <<Unlock(a), RxCb(a, Message(s, last))>>
                  /\ a \notin Peers => a \in Socks
                  /\ bucket' = [bucket EXCEPT ![a] = @ + 1] /\ queue' = queue
                  /\ asked' = IF a \in Peers THEN [asked EXCEPT ![a] = @ \/ last] ELSE asked
                  /\ told' = [told EXCEPT ![s] = @ \ {a}]
               \/ /\ Reachable(s, a) /\ ~TokenLeft(a) /\ Busy(s, a) /\ UNCHANGED <<bucket, asked>>
                  /\ q = IF Op(t) = "send" THEN <<At2("sendwait", s, a)>> ELSE <<>>
                  /\ told' = IF Op(t) = "send" THEN told ELSE [told EXCEPT ![s] = @ \cup {a}]
  <1>1. StackType /\ Goto(t, q) /\ CoreSend(t)
    BY DEF TypeOK, StackType, Step, Moves, Doing
  <1>2. stack[t] # <<>> /\ Top(t) \in Frame /\ Top(t).op \in {"send", "trysend"}
    BY <1>1, TopOp
  <1> DEFINE s == Top(t).s
             a == Top(t).a
             last == bucket[a] + 1 = Quota
  <1>3. s \in Socks /\ a \in Addrs
    BY <1>2, FieldTypes
  <1>4. a \notin Peers => a \in Socks
    BY <1>3 DEF Addrs
  <1>5. a \notin Peers => \A c \in BOOLEAN : <<Unlock(a), RxCb(a, Message(s, c))>> \in Seq(Frame)
    BY <1>3, <1>4, AddrTypes, PacketTypes, FrameAt1, FrameData, FrameSeqs
  <1>6. last \in BOOLEAN
    BY <1>1
  <1>7. <<At2("sendwait", s, a)>> \in Seq(Frame) /\ <<>> \in Seq(Frame)
    BY <1>3, FrameAt2, FrameSeqs
  <1>8. At(t, "send") <=> Op(t) = "send"
    BY <1>2 DEF At, Op
  <1>9. \A p \in Seq(Frame) : Goto(t, p) => q = p
    BY <1>1, Went
  <1>10. QED
    BY <1>1, <1>2, <1>3, <1>4, <1>5, <1>6, <1>7, <1>8, <1>9 DEF CoreSend

\* The step of a thread at a frame "sendwait", and what it goes on with
LEMMA DoesSendWait ==
  ASSUME TypeOK, NEW t \in Threads, NEW q \in Seq(Frame), Step(t, q), Op(t) = "sendwait"
  PROVE  LET s == Top(t).s
             a == Top(t).a
         IN /\ SendWake(t) \/ SendTimeOut(t)
            /\ stack[t] # <<>> /\ Goto(t, q) /\ s \in Socks /\ a \in Addrs
            /\ \/ SendWake(t) /\ q = <<At2("send", s, a)>>
               \/ SendTimeOut(t) /\ q = <<>>
  <1>1. StackType /\ Goto(t, q) /\ (SendWake(t) \/ SendTimeOut(t))
    BY DEF TypeOK, StackType, Step, Moves, Doing
  <1>2. stack[t] # <<>> /\ Top(t) \in Frame /\ Top(t).op = "sendwait"
    BY <1>1, TopOp
  <1> DEFINE s == Top(t).s
             a == Top(t).a
  <1>3. s \in Socks /\ a \in Addrs
    BY <1>2, FieldTypes
  <1>4. <<At2("send", s, a)>> \in Seq(Frame) /\ <<>> \in Seq(Frame)
    BY <1>3, FrameAt2, FrameSeqs
  <1>5. \A p \in Seq(Frame) : Goto(t, p) => q = p
    BY <1>1, Went
  <1>6. QED
    BY <1>1, <1>2, <1>3, <1>4, <1>5 DEF SendWake, SendTimeOut

\* The step of a thread at a frame "poll", and what it goes on with
LEMMA DoesPoll ==
  ASSUME TypeOK, NEW t \in Threads, NEW q \in Seq(Frame), Step(t, q), Op(t) = "poll"
  PROVE  LET w == Top(t).f
             ready == Top(t).ready
         IN /\ PollGet(t) \/ PollSleep(t)
            /\ stack[t] # <<>> /\ Goto(t, q) /\ w \in SUBSET Socks /\ ready \in BOOLEAN
            /\ \/ /\ q = <<PollEnds>> /\ sock' = sock /\ waitLock' = waitLock
                  /\ w = {} \/ \E s \in w : ~sock[s].listed
               \/ q = <<PollWaits>> /\ sock' = sock /\ w = {} /\ ~ready /\ waitLock' = Null
               \/ \E s \in w : /\ sock[s].listed /\ q = <<PollTest(s, w \ {s}, ready)>>
                               /\ sock' = [sock EXCEPT ![s] = Ref(s)] /\ waitLock' = waitLock
  <1>1. StackType /\ Goto(t, q) /\ (PollGet(t) \/ PollSleep(t))
    BY DEF TypeOK, StackType, Step, Moves, Doing
  <1>2. stack[t] # <<>> /\ Top(t) \in Frame /\ Top(t).op = "poll"
    BY <1>1, TopOp
  <1> DEFINE w == Top(t).f
             ready == Top(t).ready
  <1>3. w \in SUBSET Socks /\ ready \in BOOLEAN
    BY <1>2, FieldTypes
  <1>4. \A s \in w : PollTest(s, w \ {s}, ready) \in Frame
    BY <1>3, FramePoll
  <1>5. <<PollEnds>> \in Seq(Frame) /\ <<PollWaits>> \in Seq(Frame) /\ \A s \in w : <<PollTest(s, w \ {s}, ready)>> \in Seq(Frame)
    BY <1>4, FramePoll, FrameSeqs
  <1>6. \A p \in Seq(Frame) : Goto(t, p) => q = p
    BY <1>1, Went
  <1>7. QED
    BY <1>1, <1>2, <1>3, <1>4, <1>5, <1>6 DEF PollGet, PollSleep, sockets, locks

\* The step of a thread at a frame "polltest", and what it goes on with
LEMMA DoesPollTest ==
  ASSUME TypeOK, NEW t \in Threads, NEW q \in Seq(Frame), Step(t, q), Op(t) = "polltest"
  PROVE  LET s == Top(t).s
         IN /\ PollLook(t)
            /\ stack[t] # <<>> /\ Goto(t, q) /\ s \in Socks /\ Top(t).f \in SUBSET Socks /\ Top(t).ready \in BOOLEAN
            /\ q = <<Poll(Top(t).f, Top(t).ready \/ Ready(s, waiter[t].ev)), Put(s)>>
  <1>1. StackType /\ Goto(t, q) /\ PollLook(t)
    BY DEF TypeOK, StackType, Step, Moves, Doing
  <1>2. stack[t] # <<>> /\ Top(t) \in Frame /\ Top(t).op = "polltest"
    BY <1>1, TopOp
  <1> DEFINE s == Top(t).s
  <1>3. s \in Socks /\ Top(t).f \in SUBSET Socks /\ Top(t).ready \in BOOLEAN
    BY <1>2, FieldTypes
  <1>4. (Top(t).ready \/ Ready(s, waiter[t].ev)) \in BOOLEAN
    BY <1>3 DEF Ready
  <1>5. <<Poll(Top(t).f, Top(t).ready \/ Ready(s, waiter[t].ev)), Put(s)>> \in Seq(Frame)
    BY <1>3, <1>4, FramePoll, FrameAt1, FrameSeqs
  <1>6. \A p \in Seq(Frame) : Goto(t, p) => q = p
    BY <1>1, Went
  <1>7. QED
    BY <1>1, <1>2, <1>3, <1>4, <1>5, <1>6 DEF PollLook

\* The step of a thread at a frame "pollwait", and what it goes on with
LEMMA DoesPollWait ==
  ASSUME TypeOK, NEW t \in Threads, NEW q \in Seq(Frame), Step(t, q), Op(t) = "pollwait",
         Shape, Waiters
  PROVE  LET w == waiter[t].f
         IN /\ PollWake(t) \/ PollTimeOut(t)
            /\ stack[t] # <<>> /\ Goto(t, q) /\ Top(t) \in Frame
            /\ waitLock = Null /\ waitLock' = t
            /\ \/ PollWake(t) /\ q = <<Poll(w, FALSE)>> /\ w \in SUBSET Socks
               \/ PollTimeOut(t) /\ q = <<PollEnds>>
  <1>1. StackType /\ Goto(t, q) /\ (PollWake(t) \/ PollTimeOut(t))
    BY DEF TypeOK, StackType, Step, Moves, Doing
  <1>2. stack[t] # <<>> /\ Top(t) \in Frame /\ Top(t).op = "pollwait"
    BY <1>1, TopOp
  <1> DEFINE w == waiter[t].f
  <1>3. Top(t) \in Frame
    BY <1>2, FieldTypes
  <1>4. w \in SUBSET Socks
    BY <1>1, <1>2, PollSet
  <1>5. <<Poll(w, FALSE)>> \in Seq(Frame) /\ <<PollEnds>> \in Seq(Frame)
    BY <1>4, FramePoll, FrameSeqs
  <1>6. \A p \in Seq(Frame) : Goto(t, p) => q = p
    BY <1>1, Went
  <1>7. QED
    BY <1>1, <1>2, <1>3, <1>4, <1>5, <1>6 DEF PollWake, PollTimeOut

\* The step of a thread at a frame "pollend", and what it goes on with
LEMMA DoesPollEnd ==
  ASSUME TypeOK, NEW t \in Threads, NEW q \in Seq(Frame), Step(t, q), Op(t) = "pollend"
  PROVE  LET b == Len(Below(t))
         IN /\ PollEnd(t)
            /\ stack[t] # <<>> /\ Goto(t, q) /\ Top(t) \in Frame
            /\ q = <<>>
  <1>1. StackType /\ Goto(t, q) /\ PollEnd(t)
    BY DEF TypeOK, StackType, Step, Moves, Doing
  <1>2. stack[t] # <<>> /\ Top(t) \in Frame /\ Top(t).op = "pollend"
    BY <1>1, TopOp
  <1> DEFINE b == Len(Below(t))
  <1>3. Top(t) \in Frame
    BY <1>2, FieldTypes
  <1>4. <<>> \in Seq(Frame)
    BY FrameSeqs
  <1>5. \A p \in Seq(Frame) : Goto(t, p) => q = p
    BY <1>1, Went
  <1>6. QED
    BY <1>1, <1>2, <1>3, <1>4, <1>5 DEF PollEnd

(***************************************************************************)
(* Each part of the invariant is kept.                                     *)
(***************************************************************************)

\* Frames of other operations ask nothing of the thread's entry.
LEMMA EntryFree ==
  ASSUME NEW f, NEW w,
         f.op \notin {"recvcheck", "recvwait", "send", "sendwait", "poll", "polltest", "pollwait"}
  PROVE  Entry(f, w)
  BY DEF Entry

\* The entry of a thread in g_waiters_list changes only in its own calls.
LEMMA OthersWait ==
  ASSUME TypeOK, NEW t \in Threads, NEW q \in Seq(Frame), Step(t, q)
  PROVE  \A u \in Threads : u # t => waiter'[u] = waiter[u] /\ stack'[u] = stack[u]
  <1>0. StackType /\ Goto(t, q) /\ Calm(t) /\ Moves(t, q) /\ Doing(t) /\ DOMAIN waiter = Threads
    BY DEF TypeOK, StackType, Step, Moves
  <1>1. \A u \in Threads : u # t => stack'[u] = stack[u]
    BY <1>0, GotoFrames
  <1>2. CASE Op(t) \notin {"none", "unwait", "recvwaiter", "sendwaiter", "pollend"}
    BY <1>0, <1>1, <1>2 DEF Calm
  <1>3. CASE Op(t) = "unwait"
    BY <1>0, <1>1, <1>3 DEF Doing, Unwait
  <1>4. CASE Op(t) = "recvwaiter"
    BY <1>0, <1>1, <1>4 DEF Doing, RecvWaiter, Wait
  <1>5. CASE Op(t) = "sendwaiter"
    BY <1>0, <1>1, <1>5 DEF Doing, SendWaiter, Wait
  <1>6. CASE Op(t) = "pollend"
    BY <1>0, <1>1, <1>6 DEF Doing, PollEnd
  <1>7. CASE Op(t) = "none"
    <2>1. CASE \E f \in SUBSET Socks, ev \in SUBSET {"in", "out"} : BeginPoll(t, f, ev)
      BY <1>0, <1>1, <2>1 DEF BeginPoll, Wait
    <2>2. CASE \E s \in Socks : Open(t, s)
      BY <1>1, <2>2 DEF Open, waiting
    <2>3. CASE \E s \in Socks : Call(t, s) /\ ~Open(t, s)
      <3>1. PICK s \in Socks : Call(t, s) /\ ~Open(t, s)
        BY <2>3
      <3>2. UNCHANGED waiting
        BY <1>0, <3>1, CallEffects
      <3>3. QED
        BY <1>1, <3>2 DEF waiting
    <2>4. CASE \E p \in Peers : PeerConfirms(p) \/ PeerGone(p) \/ \E s \in Socks : Arrive(p, s)
      BY <1>1, <2>4 DEF PeerConfirms, PeerGone, Arrive, waiting
    <2>5. QED
      BY <1>0, <1>7, <2>1, <2>2, <2>3, <2>4 DEF Doing, Begin
  <1>8. QED
    BY <1>2, <1>3, <1>4, <1>5, <1>6, <1>7

\* What a thread waits for is what its frame says.
LEMMA WaitersStep ==
  ASSUME SockInv, NEW t \in Threads, NEW q \in Seq(Frame), Step(t, q)
  PROVE  Waiters'
  <1> DEFINE O == {"recvcheck", "recvwait", "send", "sendwait", "poll", "polltest", "pollwait"}
             f == Top(t)
             w == waiter'[t]
  <1>0. /\ StackType /\ TypeOK /\ Shape /\ Moves(t, q) /\ Doing(t) /\ Calm(t) /\ Waiters /\ Goto(t, q)
        /\ DOMAIN waiter = Threads
    BY DEF SockInv, TypeOK, StackType, Step, Moves
  <1>1. \A u \in Threads : u # t => waiter'[u] = waiter[u] /\ stack'[u] = stack[u]
    BY <1>0, OthersWait
  <1>2. SUFFICES ASSUME NEW i \in DOMAIN stack'[t] PROVE Entry(stack'[t][i], w)
    BY <1>0, <1>1 DEF Waiters
  <1>3. \/ i \in 1..Len(Below(t)) /\ i \in DOMAIN stack[t] /\ stack'[t][i] = stack[t][i]
        \/ \E k \in DOMAIN q : i = Len(Below(t)) + k /\ stack'[t][i] = q[k]
    BY <1>0, StackFrames
  <1>4. SUFFICES /\ \A k \in DOMAIN q : Entry(q[k], w)
                 /\ \A j \in 1..Len(Below(t)) : j \in DOMAIN stack[t] => Entry(stack[t][j], w)
    BY <1>3
  <1>5. CASE Op(t) = "none"
    <2>1. stack[t] = <<>>
      BY <1>0, <1>5, BeginCases
    <2>2. CASE \E g \in SUBSET Socks, ev \in SUBSET {"in", "out"} : BeginPoll(t, g, ev) /\ q = <<Poll(g, FALSE)>>
      <3>1. PICK g \in SUBSET Socks, ev \in SUBSET {"in", "out"} : BeginPoll(t, g, ev) /\ q = <<Poll(g, FALSE)>>
        BY <2>2
      <3>2. w = [f |-> g, ev |-> ev, a |-> Null]
        BY <1>0, <3>1 DEF BeginPoll, Wait
      <3>3. w # Null
        <4>1. waiter'[t].a = Null
          BY <3>2
        <4>2. [f |-> g, ev |-> ev, a |-> Null] # Null
          BY AddrTypes, SocketAssumption DEF Entries
        <4>3. QED
          BY <3>2, <4>2
      <3>4. \A k \in DOMAIN q : q[k] = Poll(g, FALSE)
        <4> DEFINE r == Poll(g, FALSE)
        <4>1. q = <<r>>
          BY <3>1
        <4> HIDE DEF r
        <4>2. \A k \in DOMAIN q : q[k] = r
          BY <4>1
        <4>3. QED
          BY <4>2 DEF r
      <3>5. Entry(Poll(g, FALSE), w)
        BY <3>2, <3>3 DEF Entry, Poll
      <3>6. DOMAIN stack[t] = {}
        BY <2>1
      <3>7. QED
        BY <3>4, <3>5, <3>6
    <2>3. CASE ~ \E g \in SUBSET Socks, ev \in SUBSET {"in", "out"} : BeginPoll(t, g, ev) /\ q = <<Poll(g, FALSE)>>
      <3>1. \A k \in DOMAIN q : q[k].op \notin O
        <4>1. CASE \E s \in Socks : Call(t, s) /\ ~Open(t, s)
          <5>1. PICK s \in Socks : Call(t, s) /\ ~Open(t, s)
            BY <4>1
          <5>2. q[1] = Put(s) /\ \A k \in DOMAIN q : k # 1 =>
                  q[k].op \in {"coreclose", "read", "unwait", "recvwaiter", "sendwaiter", "trysend"}
            BY <1>0, <5>1, CallEffects
          <5>3. QED
            BY <5>2 DEF Put, At1
        <4>2. CASE \/ q = <<>>
                   \/ \E p \in Peers : q = <<Notify(queue[p], p)>>
                   \/ \E p \in Peers : q = <<Gone(p), Notify(queue[p], p)>>
                   \/ \E p \in Peers, s \in Socks : q = <<Unlock(s), RxCb(s, Message(p, sent[s][p] + 1 = Quota))>>
          BY <4>2 DEF Notify, Gone, Unlock, At1, RxCb
        <4>3. QED
          BY <1>0, <1>5, <2>3, <4>1, <4>2, BeginCases
      <3>2. QED
        BY <2>1, <3>1, EntryFree
    <2>4. QED
      BY <2>2, <2>3
  <1>6. CASE Op(t) \in {"unwait", "recvwaiter", "sendwaiter", "pollend"}
    <2>1. \A j \in 1..Len(Below(t)) : stack[t][j].op \notin O
      <3>1. stack[t] # <<>> /\ f.op = Op(t)
        BY <1>0, <1>6, TopOp
      <3>2. Len(Below(t)) \in Nat
        BY <1>0, <3>1, TopDepth
      <3>3. CASE Op(t) = "pollend"
        <4>1. Len(Below(t)) = 0
          BY <1>0, <3>1, <3>3, TopDepth
        <4>2. QED
          BY <4>1
      <3>4. CASE Op(t) = "unwait"
        <4>1. /\ stack[t][1] = Put(f.s)
              /\ Len(Below(t)) = 1 \/ (Len(Below(t)) = 2 /\ stack[t][2] = At1("read", f.s))
          BY <1>0, <3>1, <3>4, TopDepth
        <4>2. Put(f.s).op \notin O /\ At1("read", f.s).op \notin O
          BY DEF Put, At1
        <4>3. ASSUME Len(Below(t)) = 1 PROVE \A j \in 1..Len(Below(t)) : j = 1
          BY <4>3
        <4>4. ASSUME Len(Below(t)) = 2 PROVE \A j \in 1..Len(Below(t)) : j = 1 \/ j = 2
          BY <4>4
        <4> HIDE DEF O
        <4>5. QED
          BY <4>1, <4>2, <4>3, <4>4
      <3>5. CASE Op(t) = "sendwaiter"
        <4>1. Len(Below(t)) = 2 /\ stack[t][1] = Put(f.s) /\ stack[t][2] = At1("unwait", f.s)
          BY <1>0, <3>1, <3>5, TopDepth
        <4>2. Put(f.s).op \notin O /\ At1("unwait", f.s).op \notin O
          BY DEF Put, At1
        <4> HIDE DEF O
        <4>3. QED
          BY <4>1, <4>2
      <3>6. CASE Op(t) = "recvwaiter"
        <4>1. /\ Len(Below(t)) = 3 /\ stack[t][1] = Put(f.s) /\ stack[t][2] = At1("read", f.s)
              /\ stack[t][3] = At1("unwait", f.s)
          BY <1>0, <3>1, <3>6, TopDepth
        <4>2. Put(f.s).op \notin O /\ At1("unwait", f.s).op \notin O /\ At1("read", f.s).op \notin O
          BY DEF Put, At1
        <4>3. \A j \in 1..Len(Below(t)) : j = 1 \/ j = 2 \/ j = 3
          BY <4>1
        <4> HIDE DEF O
        <4>4. QED
          BY <4>1, <4>2, <4>3
      <3>7. QED
        BY <1>6, <3>3, <3>4, <3>5, <3>6
    <2>2. \A j \in 1..Len(Below(t)) : Entry(stack[t][j], w)
      BY <2>1, EntryFree
    <2>3. \A k \in DOMAIN q : Entry(q[k], w)
      <3>1. CASE Op(t) \in {"unwait", "pollend"}
        <4>1. q = <<>>
          BY <1>0, <3>1, DoesUnwait, DoesPollEnd
        <4>2. QED
          BY <4>1
      <3>2. CASE Op(t) = "recvwaiter"
        <4>1. q = <<At1("recvcheck", f.s)>> /\ w = [f |-> {f.s}, ev |-> {"in"}, a |-> Null]
          BY <1>0, <3>2, DoesRecvWaiter DEF RecvWaiter, Wait
        <4>2. \A k \in DOMAIN q : q[k] = At1("recvcheck", f.s)
          BY <4>1
        <4>3. Entry(At1("recvcheck", f.s), w)
          BY <4>1 DEF Entry, At1
        <4>4. QED
          BY <4>2, <4>3
      <3>3. CASE Op(t) = "sendwaiter"
        <4>1. q = <<At2("send", f.s, f.a)>> /\ w = [f |-> {f.s}, ev |-> {"out"}, a |-> f.a]
          BY <1>0, <3>3, DoesSendWaiter DEF SendWaiter, Wait
        <4>2. \A k \in DOMAIN q : q[k] = At2("send", f.s, f.a)
          BY <4>1
        <4>3. Entry(At2("send", f.s, f.a), w)
          BY <4>1 DEF Entry, At2
        <4>4. QED
          BY <4>2, <4>3
      <3>4. QED
        BY <1>6, <3>1, <3>2, <3>3
    <2>4. QED
      BY <2>2, <2>3
  <1>7. CASE Op(t) \notin {"none", "unwait", "recvwaiter", "sendwaiter", "pollend"}
    <2>1. waiter' = waiter /\ stack[t] # <<>> /\ f.op = Op(t)
      BY <1>0, <1>7, TopOp DEF Calm
    <2>2. \A j \in 1..Len(Below(t)) : j \in DOMAIN stack[t] => Entry(stack[t][j], w)
      BY <1>0, <2>1 DEF Waiters
    <2>3. Entry(f, w)
      BY <1>0, <2>1, TopAt DEF Waiters
    <2>4. CASE Op(t) \notin O
      <3>1. \A k \in DOMAIN q : q[k].op \notin O
        BY <1>0, <1>7, <2>1, <2>4, FollowsOps DEF Moves
      <3>2. QED
        BY <2>2, <3>1, EntryFree
    <2>5. ASSUME NEW g, q = <<>> \/ q = <<g>>, Entry(g, w)
          PROVE  \A k \in DOMAIN q : Entry(q[k], w)
      BY <2>5
    <2>6. CASE Op(t) \in {"recvcheck", "recvwait", "send", "sendwait"}
      <3>1. CASE Op(t) = "recvcheck"
        <4>1. q = <<>> \/ q = <<At1("recvwait", f.s)>>
          BY <1>0, <3>1, DoesRecvCheck
        <4>2. Entry(At1("recvwait", f.s), w)
          BY <2>1, <2>3, <3>1 DEF Entry, At1
        <4>3. QED
          BY <2>2, <2>5, <4>1, <4>2
      <3>2. CASE Op(t) = "recvwait"
        <4>1. q = <<At1("recvcheck", f.s)>>
          BY <1>0, <3>2, DoesRecvWait
        <4>2. Entry(At1("recvcheck", f.s), w)
          BY <2>1, <2>3, <3>2 DEF Entry, At1
        <4>3. QED
          BY <2>2, <2>5, <4>1, <4>2
      <3>3. CASE Op(t) = "send"
        <4>1. Follows(f, q)
          BY <1>0, <2>1 DEF Moves
        <4>2. \/ q = <<>> \/ q = <<At2("sendwait", f.s, f.a)>>
              \/ \E c \in BOOLEAN : q = <<Unlock(f.a), RxCb(f.a, Message(f.s, c))>>
          BY <2>1, <3>3, <4>1 DEF Follows
        <4>3. Entry(At2("sendwait", f.s, f.a), w)
          BY <2>1, <2>3, <3>3 DEF Entry, At2
        <4>4. CASE \E c \in BOOLEAN : q = <<Unlock(f.a), RxCb(f.a, Message(f.s, c))>>
          <5>1. \A k \in DOMAIN q : q[k].op \notin O
            BY <4>4 DEF Unlock, At1, RxCb
          <5>2. QED
            BY <2>2, <5>1, EntryFree
        <4>5. QED
          BY <2>2, <2>5, <4>2, <4>3, <4>4
      <3>4. CASE Op(t) = "sendwait"
        <4>1. q = <<>> \/ q = <<At2("send", f.s, f.a)>>
          BY <1>0, <3>4, DoesSendWait
        <4>2. Entry(At2("send", f.s, f.a), w)
          BY <2>1, <2>3, <3>4 DEF Entry, At2
        <4>3. QED
          BY <2>2, <2>5, <4>1, <4>2
      <3>5. QED
        BY <2>6, <3>1, <3>2, <3>3, <3>4
    <2>7. CASE Op(t) = "poll"
      <3>1. /\ f.f \in SUBSET Socks
            /\ \/ q = <<PollEnds>> \/ q = <<PollWaits>>
               \/ \E s \in f.f : q = <<PollTest(s, f.f \ {s}, f.ready)>>
        BY <1>0, <2>7, DoesPoll, ZenonT(60)
      <3>2. f.f \subseteq w.f /\ w # Null /\ w.a = Null
        BY <2>1, <2>3, <2>7 DEF Entry
      <3>3. \A s \in f.f : Entry(PollTest(s, f.f \ {s}, f.ready), w)
        BY <3>2 DEF Entry, PollTest
      <3>4. Entry(PollEnds, w) /\ Entry(PollWaits, w)
        BY <3>2 DEF Entry, PollEnds, PollWaits
      <3>5. QED
        BY <2>2, <2>5, <3>1, <3>3, <3>4
    <2>8. CASE Op(t) = "polltest"
      <3>1. PICK r : q = <<Poll(f.f, r), Put(f.s)>>
        BY <1>0, <2>8, DoesPollTest
      <3>2. Entry(Poll(f.f, r), w)
        BY <2>1, <2>3, <2>8 DEF Entry, Poll
      <3>3. Entry(Put(f.s), w)
        BY EntryFree DEF Put, At1
      <3>4. \A k \in DOMAIN q : q[k] = Poll(f.f, r) \/ q[k] = Put(f.s)
        BY <3>1
      <3>5. QED
        BY <2>2, <3>2, <3>3, <3>4
    <2>9. CASE Op(t) = "pollwait"
      <3>1. q = <<Poll(w.f, FALSE)>> \/ q = <<PollEnds>>
        BY <1>0, <2>1, <2>9, DoesPollWait
      <3>2. Entry(Poll(w.f, FALSE), w)
        BY <2>1, <2>3, <2>9 DEF Entry, Poll
      <3>3. Entry(PollEnds, w)
        BY EntryFree DEF PollEnds
      <3>4. QED
        BY <2>2, <2>5, <3>1, <3>2, <3>3
    <2>10. QED
      BY <1>7, <2>4, <2>6, <2>7, <2>8, <2>9
  <1>8. QED
    BY <1>5, <1>6, <1>7

\* The frames of one kind after a step, one by one
LEMMA FramesAfter ==
  ASSUME StackType, NEW t \in Threads, NEW q \in Seq(Frame), Goto(t, q), NEW ops, NEW s
  PROVE  LET b == Len(Below(t))
         IN /\ <<t, b + 1>> \in Frames(ops, s) <=> stack[t] # <<>> /\ Top(t).op \in ops /\ Top(t).s = s
            /\ \A p \in Frames(ops, s) : p # <<t, b + 1>> => p \in Frames(ops, s)'
            /\ \A k \in DOMAIN q : q[k].op \in ops /\ q[k].s = s => <<t, b + k>> \in Frames(ops, s)'
            /\ \A p \in Frames(ops, s)' :
                 \/ p \in Frames(ops, s) /\ p # <<t, b + 1>>
                 \/ \E k \in DOMAIN q : q[k].op \in ops /\ q[k].s = s /\ p = <<t, b + k>>
  <1> DEFINE b == Len(Below(t))
             new == {j \in DOMAIN q : q[j].op \in ops /\ q[j].s = s}
  <1>1. Frames(ops, s)' = (Frames(ops, s) \ {<<t, b + 1>>}) \cup {<<t, b + k>> : k \in new}
    BY FramesNext
  <1>2. <<t, b + 1>> \in Frames(ops, s) <=> stack[t] # <<>> /\ Top(t).op \in ops /\ Top(t).s = s
    BY GotoFrames, FramesIn
  <1> HIDE DEF b
  <1>3. QED
    BY <1>1, <1>2 DEF b

\* Frames of which the thread does not leave one stay.
LEMMA FramesGrow ==
  ASSUME StackType, NEW t \in Threads, NEW q \in Seq(Frame), Goto(t, q), NEW ops, NEW s,
         ~(stack[t] # <<>> /\ Top(t).op \in ops /\ Top(t).s = s)
  PROVE  Frames(ops, s) \subseteq Frames(ops, s)'
  <1>1. <<t, Len(Below(t)) + 1>> \notin Frames(ops, s)
    BY FramesAfter
  <1>2. \A p \in Frames(ops, s) : p # <<t, Len(Below(t)) + 1>> => p \in Frames(ops, s)'
    BY FramesAfter
  <1>3. QED
    BY <1>1, <1>2

\* Frames of which it enters none lose at most the one it leaves.
LEMMA FramesShrink ==
  ASSUME StackType, NEW t \in Threads, NEW q \in Seq(Frame), Goto(t, q), NEW ops, NEW s,
         \A k \in DOMAIN q : ~(q[k].op \in ops /\ q[k].s = s)
  PROVE  Frames(ops, s)' = Frames(ops, s) \ {<<t, Len(Below(t)) + 1>>}
  <1>1. Frames(ops, s)' = (Frames(ops, s) \ {<<t, Len(Below(t)) + 1>>})
           \cup {<<t, Len(Below(t)) + k>> : k \in {j \in DOMAIN q : q[j].op \in ops /\ q[j].s = s}}
    BY FramesNext
  <1>2. QED
    BY <1>1

\* Kinds of frames that a step neither leaves nor enters
LEMMA SameFrames ==
  ASSUME TypeOK, NEW t \in Threads, NEW q \in Seq(Frame), Step(t, q)
  PROVE  /\ Op(t) \notin {"none", "coreclose"} => \A s : Frames({"coreclose"}, s)' = Frames({"coreclose"}, s)
         /\ Op(t) \notin {"coreclose", "unlock", "cleanup", "closed"} =>
              \A s : Frames({"cleanup", "closed"}, s)' = Frames({"cleanup", "closed"}, s)
         /\ Op(t) \notin {"none", "unlock", "notify", "removed", "confirm", "send", "trysend"} =>
              \A s : Frames({"unlock"}, s)' = Frames({"unlock"}, s)
  <1>1. StackType /\ Moves(t, q) /\ Goto(t, q)
    BY DEF TypeOK, StackType, Step, Moves
  <1>2. Op(t) = "none" <=> stack[t] = <<>>
    BY <1>1, TopOp, BeginCases DEF Op
  <1>3. ASSUME Op(t) \notin {"none", "coreclose"}
        PROVE  \A s : Frames({"coreclose"}, s)' = Frames({"coreclose"}, s)
    <2>1. \A k \in DOMAIN q : q[k].op \notin {"coreclose"}
      BY <1>1, <1>2, <1>3, FollowsOps DEF Moves
    <2>2. QED
      BY <1>1, <1>3, <2>1, MovesKeep
  <1>4. ASSUME Op(t) \notin {"coreclose", "unlock", "cleanup", "closed"}
        PROVE  \A s : Frames({"cleanup", "closed"}, s)' = Frames({"cleanup", "closed"}, s)
    <2>1. \A k \in DOMAIN q : q[k].op \notin {"cleanup", "closed"}
      BY <1>1, <1>2, <1>4, FollowsOps, BeginsOps DEF Moves, Op
    <2>2. QED
      BY <1>1, <1>4, <2>1, MovesKeep
  <1>5. ASSUME Op(t) \notin {"none", "unlock", "notify", "removed", "confirm", "send", "trysend"}
        PROVE  \A s : Frames({"unlock"}, s)' = Frames({"unlock"}, s)
    <2>1. \A k \in DOMAIN q : q[k].op \notin {"unlock"}
      BY <1>1, <1>2, <1>5, FollowsOps DEF Moves, Op
    <2>2. QED
      BY <1>1, <1>5, <2>1, MovesKeep
  <1>6. QED
    BY <1>3, <1>4, <1>5

\* Only an open port is held, and what holds it stays until it is let go.
LEMMA HoldsOpen ==
  ASSUME TypeOK, NEW t \in Threads, NEW q \in Seq(Frame), Step(t, q), Op(t) # "unlock", NEW s \in Socks
  PROVE  /\ Frames({"unlock"}, s) \subseteq Frames({"unlock"}, s)'
         /\ Frames({"unlock"}, s)' = Frames({"unlock"}, s) \/ port[s] = "open"
  <1>1. StackType /\ Moves(t, q) /\ Goto(t, q) /\ Doing(t)
    BY DEF TypeOK, StackType, Step, Moves
  <1>2. CASE Op(t) \notin {"none", "unlock", "notify", "removed", "confirm", "send", "trysend"}
    BY <1>2, SameFrames
  <1>3. CASE Op(t) \in {"none", "notify", "removed", "confirm", "send", "trysend"}
    <2>1. Frames({"unlock"}, s) \subseteq Frames({"unlock"}, s)'
      <3>1. ~(stack[t] # <<>> /\ Top(t).op \in {"unlock"} /\ Top(t).s = s)
        BY <1>3 DEF Op
      <3>2. QED
        BY <1>1, <3>1, FramesGrow
    <2>2. ASSUME \A k \in DOMAIN q : ~(q[k].op \in {"unlock"} /\ q[k].s = s)
          PROVE  Frames({"unlock"}, s)' = Frames({"unlock"}, s)
      <3>1. \A k \in DOMAIN q : ~(q[k].op \in {"unlock"} /\ q[k].s = s)
        BY <2>2
      <3>2. Frames({"unlock"}, s)' = Frames({"unlock"}, s) \ {<<t, Len(Below(t)) + 1>>}
        BY <1>1, <3>1, FramesShrink
      <3>3. QED
        BY <2>1, <3>2
    <2>3. ASSUME NEW k \in DOMAIN q, q[k].op = "unlock", q[k].s = s PROVE port[s] = "open"
      <3>1. CASE Op(t) = "none"
        <4>1. \/ q = <<>>
              \/ \E r \in Socks : Call(t, r) /\ ~Open(t, r)
              \/ \E w : q = <<Poll(w, FALSE)>>
              \/ \E p : q = <<Notify(queue[p], p)>>
              \/ \E p : q = <<Gone(p), Notify(queue[p], p)>>
              \/ \E r \in Socks : port[r] = "open" /\ \E m : q = <<Unlock(r), RxCb(r, m)>>
          <5>1. \A p, r : Arrive(p, r) => port[r] = "open"
            BY DEF Arrive
          <5>2. \/ \E r \in Socks : Open(t, r) /\ q = <<>>
                \/ \E r \in Socks : Call(t, r) /\ ~Open(t, r)
                \/ \E f \in SUBSET Socks, ev \in SUBSET {"in", "out"} : BeginPoll(t, f, ev) /\ q = <<Poll(f, FALSE)>>
                \/ \E p \in Peers : q = <<Notify(queue[p], p)>>
                \/ \E p \in Peers : q = <<Gone(p), Notify(queue[p], p)>>
                \/ \E p \in Peers, r \in Socks :
                     Arrive(p, r) /\ q = <<Unlock(r), RxCb(r, Message(p, sent[r][p] + 1 = Quota))>>
            BY <3>1, BeginCases
          <5>3. (\E p \in Peers, r \in Socks : Arrive(p, r) /\ q = <<Unlock(r), RxCb(r, Message(p, sent[r][p] + 1 = Quota))>>)
                  => \E r \in Socks : port[r] = "open" /\ \E m : q = <<Unlock(r), RxCb(r, m)>>
            BY <5>1
          <5>4. QED
            BY <5>2, <5>3
        <4>2. CASE \E r \in Socks : Call(t, r) /\ ~Open(t, r)
          <5>1. PICK r \in Socks : Call(t, r) /\ ~Open(t, r)
            BY <4>2
          <5>2. q[1] = Put(r) /\ \A j \in DOMAIN q : j # 1 =>
                  q[j].op \in {"coreclose", "read", "unwait", "recvwaiter", "sendwaiter", "trysend"}
            BY <1>1, <5>1, CallEffects
          <5>3. QED
            BY <2>3, <5>2 DEF Put, At1
        <4>3. CASE ~ \E r \in Socks : Call(t, r) /\ ~Open(t, r)
          BY <2>3, <4>1, <4>3 DEF Poll, Notify, Gone, Unlock, At1, RxCb
        <4>4. QED
          BY <4>2, <4>3
      <3>2. CASE Op(t) = "notify"
        <4>1. \/ q = <<>> \/ \E n : q = <<Notify(n, Top(t).a)>>
              \/ \E h, n : port[h] = "open" /\ q = <<Notify(n, Top(t).a), Unlock(h), At2("resume", h, Top(t).a)>>
          BY <3>2, DoesNotify
        <4>2. QED
          BY <2>3, <4>1 DEF Notify, Unlock, At1, At2
      <3>3. CASE Op(t) = "removed"
        <4>1. \/ q = <<>> \/ \E c : q = <<Removed(c, Top(t).a)>>
              \/ \E r, c : port[r] = "open" /\ q = <<Removed(c, Top(t).a), Unlock(r), At2("remove", r, Top(t).a)>>
          BY <3>3, DoesRemoved, ZenonT(60)
        <4>2. QED
          BY <2>3, <4>1 DEF Removed, Unlock, At1, At2
      <3>4. CASE Op(t) = "confirm"
        <4>1. \/ q = <<>>
              \/ port[Top(t).s] = "open" /\ q = <<Unlock(Top(t).s), At1("resumetx", Top(t).s)>>
          BY <3>4, DoesConfirm
        <4>2. QED
          BY <2>3, <4>1 DEF Unlock, At1
      <3>5. CASE Op(t) \in {"send", "trysend"}
        <4>1. \/ q = <<>> \/ q = <<At2("sendwait", Top(t).s, Top(t).a)>>
              \/ \E m : port[Top(t).a] = "open" /\ q = <<Unlock(Top(t).a), RxCb(Top(t).a, m)>>
          BY <3>5, DoesSend, AddrTypes DEF Reachable
        <4>2. QED
          BY <2>3, <4>1 DEF Unlock, At1, At2, RxCb
      <3>6. QED
        BY <1>3, <3>1, <3>2, <3>3, <3>4, <3>5
    <2>4. QED
      BY <2>1, <2>2, <2>3
  <1>4. QED
    BY <1>2, <1>3

\* A socket gets a handle, or enters the list, only when it is opened.
LEMMA SockKept ==
  ASSUME TypeOK, NEW t \in Threads, NEW q \in Seq(Frame), Step(t, q), ~ \E s \in Socks : Open(t, s)
  PROVE  \A s \in Socks : /\ sock'[s].listed => sock[s].listed
                          /\ sock'[s].handle => sock[s].handle
                          /\ Op(t) # "none" => sock'[s].handle = sock[s].handle
  <1>1. StackType /\ Moves(t, q) /\ Goto(t, q) /\ Doing(t) /\ Calm(t)
    BY DEF TypeOK, StackType, Step, Moves
  <1>2. /\ sock \in [Socks -> [listed : BOOLEAN, ref : Nat, type : {"data", "control"}, active : SUBSET {"rx", "tx"},
                              conn : Addrs \cup {Null, Reset}, handle : BOOLEAN]]
    BY DEF TypeOK
  <1>3. CASE Op(t) \notin {"none", "put", "remove", "poll"}
    BY <1>1, <1>3 DEF Calm
  <1>4. CASE Op(t) = "put"
    <2>1. PutSock(t) /\ Top(t).s \in Socks
      BY <1>4, DoesPut
    <2>2. QED
      BY <1>2, <2>1 DEF PutSock
  <1>5. CASE Op(t) = "remove"
    <2>1. RemoveEvent(t) /\ Top(t).s \in Socks
      BY <1>5, DoesRemove
    <2>2. QED
      BY <1>2, <2>1 DEF RemoveEvent
  <1>6. CASE Op(t) = "poll"
    <2>1. sock' = sock \/ \E s \in Socks : sock' = [sock EXCEPT ![s] = Ref(s)]
      BY <1>6, DoesPoll
    <2>2. QED
      BY <1>2, <2>1, SMTT(30) DEF Ref
  <1>7. CASE Op(t) = "none"
    <2>1. CASE \E s \in Socks : Call(t, s) /\ ~Open(t, s)
      <3>1. PICK s \in Socks : Call(t, s) /\ ~Open(t, s)
        BY <2>1
      <3>2. /\ \A r \in Socks : sock'[r].listed = sock[r].listed /\ (r # s => sock'[r] = sock[r])
            /\ sock'[s].handle => sock[s].handle
        BY <1>1, <3>1, CallEffects
      <3>3. QED
        BY <1>7, <3>2
    <2>2. CASE ~ \E s \in Socks : Call(t, s) /\ ~Open(t, s)
      <3>1. sock' = sock
        BY <1>7, <2>2, BeginCases DEF BeginPoll, PeerConfirms, PeerGone, Arrive, sockets
      <3>2. QED
        BY <1>7, <3>1
    <2>3. QED
      BY <2>1, <2>2
  <1>8. QED
    BY <1>3, <1>4, <1>5, <1>6, <1>7

\* A kind of frames that only the step enters
LEMMA FramesOne ==
  ASSUME StackType, NEW t \in Threads, NEW q \in Seq(Frame), Goto(t, q), NEW ops, NEW s,
         \A p \in Frames(ops, s) : p = <<t, Len(Below(t)) + 1>>
  PROVE  \A k \in DOMAIN q : q[k].op \in ops /\ q[k].s = s /\ (\A j \in DOMAIN q : q[j].op \in ops => j = k)
           => Frames(ops, s)' = {<<t, Len(Below(t)) + k>>}
  <1> SUFFICES ASSUME NEW k \in DOMAIN q, q[k].op \in ops, q[k].s = s,
                      \A j \in DOMAIN q : q[j].op \in ops => j = k
               PROVE  Frames(ops, s)' = {<<t, Len(Below(t)) + k>>}
    OBVIOUS
  <1>1. Frames(ops, s)' = (Frames(ops, s) \ {<<t, Len(Below(t)) + 1>>})
           \cup {<<t, Len(Below(t)) + j>> : j \in {i \in DOMAIN q : q[i].op \in ops /\ q[i].s = s}}
    BY FramesNext
  <1>2. {i \in DOMAIN q : q[i].op \in ops /\ q[i].s = s} = {k}
    OBVIOUS
  <1>3. QED
    BY <1>1, <1>2

\* The frame that a step leaves
LEMMA TopInFrames ==
  ASSUME StackType, NEW t \in Threads, NEW q \in Seq(Frame), Goto(t, q), NEW ops, NEW s,
         stack[t] # <<>>, Top(t).op \in ops, Top(t).s = s
  PROVE  <<t, Len(Below(t)) + 1>> \in Frames(ops, s)
  BY FramesAfter


\* A port is removed once, and cleaned up once, by the last that holds it.
LEMMA PortsStep ==
  ASSUME SockInv, NEW t \in Threads, NEW q \in Seq(Frame), Step(t, q)
  PROVE  Ports'
  <1> SUFFICES ASSUME NEW s \in Socks PROVE PortOk(s)'
    BY DEF Ports
  <1> DEFINE CC == Frames({"coreclose"}, s)
             CL == Frames({"cleanup", "closed"}, s)
             U == Frames({"unlock"}, s)
             b == Len(Below(t))
  <1>0. /\ StackType /\ TypeOK /\ Shape /\ Moves(t, q) /\ Doing(t) /\ Calm(t) /\ PortOk(s) /\ Goto(t, q)
        /\ port \in [Socks -> {"none", "open", "removed", "freed"}]
        /\ sock \in [Socks -> [listed : BOOLEAN, ref : Nat, type : {"data", "control"},
                         active : SUBSET {"rx", "tx"}, conn : Addrs \cup {Null, Reset},
                         handle : BOOLEAN]]
    BY DEF SockInv, TypeOK, StackType, Step, Moves, Ports
  <1>00. StackType /\ Goto(t, q)
    BY <1>0
  <1>1. ASSUME port'[s] = port[s], sock'[s].listed => sock[s].listed, sock'[s].handle => sock[s].handle,
               CC' = CC, CL' = CL, U' = U \/ (U \subseteq U' /\ port[s] = "open")
        PROVE  PortOk(s)'
    BY <1>0, <1>1 DEF PortOk
  <1>2. CASE Op(t) \notin {"none", "coreclose", "cleanup", "closed", "unlock"}
    <2>1. port' = port
      BY <1>0, <1>2 DEF Calm
    <2>2. ~ \E r \in Socks : Open(t, r)
      BY <1>2 DEF Open, Idle, Op
    <2>3. (sock'[s].listed => sock[s].listed) /\ (sock'[s].handle => sock[s].handle)
      BY <1>0, <2>2, SockKept
    <2>4. CC' = CC /\ CL' = CL
      BY <1>0, <1>2, SameFrames
    <2>5. U' = U \/ (U \subseteq U' /\ port[s] = "open")
      BY <1>0, <1>2, HoldsOpen
    <2>6. QED
      BY <1>1, <2>1, <2>3, <2>4, <2>5
  <1>3. CASE Op(t) = "unlock"
    <2>1. /\ Top(t).s \in Socks /\ stack[t] # <<>> /\ Top(t).op = "unlock"
          /\ q = IF port[Top(t).s] = "removed" /\ Cardinality(Frames({"unlock"}, Top(t).s)) = 1
                 THEN <<At1("cleanup", Top(t).s)>> ELSE <<>>
      BY <1>0, <1>3, DoesUnlock, TopOp
    <2>2. /\ port' = port /\ (sock'[s].listed => sock[s].listed) /\ (sock'[s].handle => sock[s].handle)
      <3>1. ~ \E r \in Socks : Open(t, r)
        BY <1>3 DEF Open, Idle, Op
      <3>2. QED
        BY <1>0, <1>3, <3>1, SockKept DEF Calm
    <2>3. CC' = CC
      BY <1>0, <1>3, SameFrames
    <2>4. \A k \in DOMAIN q : q[k].op = "cleanup" /\ q[k].s = Top(t).s
      BY <2>1 DEF At1
    <2>5. U' = U \ {<<t, b + 1>>}
      <3>1. \A k \in DOMAIN q : ~(q[k].op \in {"unlock"} /\ q[k].s = s)
        BY <2>4
      <3>2. QED
        BY <1>0, <3>1, FramesShrink
    <2>6. CL \subseteq CL'
      <3>1. ~(stack[t] # <<>> /\ Top(t).op \in {"cleanup", "closed"} /\ Top(t).s = s)
        BY <2>1
      <3>2. QED
        BY <1>0, <3>1, FramesGrow
    <2>7. CASE Top(t).s # s
      <3>1. <<t, b + 1>> \notin U
        BY <1>0, <2>7, FramesAfter
      <3>2. CL' = CL \ {<<t, b + 1>>}
        <4>1. \A k \in DOMAIN q : ~(q[k].op \in {"cleanup", "closed"} /\ q[k].s = s)
          BY <2>4, <2>7
        <4>2. QED
          BY <1>0, <4>1, FramesShrink
      <3>3. CL' = CL /\ U' = U
        BY <2>5, <2>6, <3>1, <3>2
      <3>4. QED
        BY <1>1, <2>2, <2>3, <3>3
    <2>8. CASE Top(t).s = s
      <3>1. <<t, b + 1>> \in U
        <4>1. Top(t).op \in {"unlock"}
          BY <2>1
        <4>2. QED
          BY <1>0, <2>1, <2>8, <4>1, TopInFrames
      <3>2. CL = {} /\ port[s] \in {"open", "removed"}
        BY <1>0, <3>1 DEF PortOk
      <3>3. IsFiniteSet(U)
        BY <1>0, FramesFinite
      <3>4. CASE port[s] = "removed" /\ Cardinality(U) = 1
        <4>1. U' = {}
          <5>1. ASSUME NEW p \in U, p # <<t, b + 1>> PROVE FALSE
            BY <3>1, <3>3, <3>4, <5>1, CardTwo
          <5>2. QED
            BY <2>5, <5>1
        <4>2. q = <<At1("cleanup", s)>>
          BY <2>1, <2>8, <3>4
        <4>3. 1 \in DOMAIN q /\ q[1].op \in {"cleanup", "closed"} /\ q[1].s = s /\ \A k \in DOMAIN q : k = 1
          BY <4>2 DEF At1
        <4>4. /\ \A j \in DOMAIN q : q[j].op \in {"cleanup", "closed"} => j = 1
              /\ \A p \in CL : p = <<t, b + 1>>
          BY <3>2, <4>3
        <4>5. CL' = {<<t, b + 1>>}
          BY <1>0, <4>3, <4>4, FramesOne
        <4>6. AtMostOne(CL)' /\ CL' # {}
          <5>1. AtMostOne({<<t, b + 1>>})
            BY DEF AtMostOne
          <5>2. \A p, r \in CL' : p = r
            BY <4>5
          <5>3. QED
            BY <4>5, <5>2 DEF AtMostOne
        <4>7. QED
          BY <1>0, <2>2, <2>3, <3>4, <4>1, <4>6 DEF PortOk
      <3>5. CASE ~(port[s] = "removed" /\ Cardinality(U) = 1)
        <4>1. q = <<>>
          BY <2>1, <2>8, <3>5
        <4>2. CL' = CL
          <5>1. \A k \in DOMAIN q : ~(q[k].op \in {"cleanup", "closed"} /\ q[k].s = s)
            BY <4>1
          <5>2. CL' = CL \ {<<t, b + 1>>}
            BY <1>0, <5>1, FramesShrink
          <5>3. QED
            BY <2>6, <5>2
        <4>3. port[s] = "removed" => U' # {}
          <5>1. ASSUME port[s] = "removed", U' = {} PROVE FALSE
            <6>1. U = {<<t, b + 1>>}
              BY <2>5, <3>1, <5>1
            <6>2. Cardinality(U) = 1
              BY <6>1, FS_Singleton
            <6>3. QED
              BY <3>5, <5>1, <6>2
          <5>2. QED
            BY <5>1
        <4>4. QED
          BY <1>0, <2>2, <2>3, <3>2, <4>2, <4>3 DEF PortOk
      <3>6. QED
        BY <3>4, <3>5
    <2>9. QED
      BY <2>7, <2>8
  <1>4. CASE Op(t) \in {"cleanup", "closed"}
    <2>0. Top(t).s \in Socks /\ stack[t] # <<>> /\ Top(t).op = Op(t)
      BY <1>0, <1>4, TopOp, DoesCleanup, DoesClosed
    <2>1. ~ \E r \in Socks : Open(t, r)
      BY <2>0 DEF Open, Idle
    <2>2. (sock'[s].listed => sock[s].listed) /\ (sock'[s].handle => sock[s].handle)
      BY <1>0, <2>1, SockKept
    <2>3. CC' = CC /\ U' = U
      BY <1>0, <1>4, SameFrames
    <2>4. CASE Top(t).s # s
      <3>1. port'[s] = port[s]
        BY <1>0, <1>4, <2>0, <2>4 DEF Doing, Closed, Calm
      <3>2. \A k \in DOMAIN q : ~(q[k].op \in {"cleanup", "closed"} /\ q[k].s = s)
        <4>1. CASE Op(t) = "cleanup"
          BY <1>0, <2>4, <4>1, DoesCleanup DEF At1, Notify
        <4>2. CASE Op(t) = "closed"
          BY <1>0, <2>4, <4>2, DoesClosed DEF At1, Put
        <4>3. QED
          BY <1>4, <4>1, <4>2
      <3>3. CL' = CL \ {<<t, b + 1>>}
        BY <1>0, <3>2, FramesShrink
      <3>4. CL \subseteq CL'
        BY <1>0, <2>4, FramesGrow
      <3>5. CL' = CL
        BY <3>3, <3>4
      <3>6. QED
        BY <1>1, <2>2, <2>3, <3>1, <3>5
    <2>5. CASE Top(t).s = s
      <3>1. <<t, b + 1>> \in CL
        BY <1>0, <1>4, <2>0, <2>5, FramesAfter
      <3>2. CL = {<<t, b + 1>>} /\ port[s] = "removed" /\ U = {}
        <4>1. \A p \in CL : p = <<t, b + 1>>
          BY <1>0, <3>1 DEF PortOk, AtMostOne
        <4>2. QED
          BY <1>0, <3>1, <4>1 DEF PortOk
      <3>3. CASE Op(t) = "cleanup"
        <4>1. q = <<At1("closed", s), Notify(queue[s], s)>>
          BY <1>0, <2>5, <3>3, DoesCleanup
        <4>2. /\ 1 \in DOMAIN q /\ q[1].op \in {"cleanup", "closed"} /\ q[1].s = s
              /\ \A k \in DOMAIN q : q[k].op \in {"cleanup", "closed"} => k = 1
          BY <4>1 DEF At1, Notify
        <4>3. \A p \in CL : p = <<t, b + 1>>
          BY <3>2
        <4>4. CL' = {<<t, b + 1>>}
          <5>1. \A k \in DOMAIN q : q[k].op \in {"cleanup", "closed"} /\ q[k].s = s
                   /\ (\A j \in DOMAIN q : q[j].op \in {"cleanup", "closed"} => j = k)
                  => CL' = {<<t, b + k>>}
            BY <1>00, <4>3, FramesOne
          <5>2. QED
            BY <5>1, <4>2
        <4>5. port' = port
          BY <1>0, <3>3 DEF Calm
        <4>6. QED
          BY <1>1, <2>2, <2>3, <3>2, <4>4, <4>5
      <3>4. CASE Op(t) = "closed"
        <4>0. Closed(t) /\ q = <<Put(s)>>
          BY <1>0, <2>5, <3>4, DoesClosed
        <4>1. q = <<Put(s)>> /\ port'[s] = "freed"
          BY <1>0, <2>5, <4>0 DEF Closed
        <4>2. \A k \in DOMAIN q : ~(q[k].op \in {"cleanup", "closed"} /\ q[k].s = s)
          BY <4>1 DEF Put, At1
        <4>3. CL' = CL \ {<<t, b + 1>>}
          BY <1>0, <4>2, FramesShrink
        <4>4. CL' = {}
          BY <3>2, <4>3
        <4>5. CC' = {} /\ U' = {} /\ ~sock'[s].handle
          BY <1>0, <2>2, <2>3, <3>2 DEF PortOk
        <4>6. AtMostOne(CL)' /\ AtMostOne(CC)'
          BY <4>4, <4>5 DEF AtMostOne
        <4>7. QED
          BY <4>1, <4>4, <4>5, <4>6 DEF PortOk
      <3>5. QED
        BY <1>4, <3>3, <3>4
    <2>6. QED
      BY <2>4, <2>5
  <1>5. CASE Op(t) = "coreclose"
    <2>0. /\ Top(t).s \in Socks /\ stack[t] # <<>> /\ Top(t).op = "coreclose"
          /\ q = IF Held(Top(t).s) THEN <<Gone(Top(t).s)>> ELSE <<Gone(Top(t).s), At1("cleanup", Top(t).s)>>
          /\ port' = [port EXCEPT ![Top(t).s] = "removed"]
      BY <1>0, <1>5, TopOp, DoesCoreClose DEF CoreClose
    <2>1. ~ \E r \in Socks : Open(t, r)
      BY <2>0 DEF Open, Idle
    <2>2. (sock'[s].listed => sock[s].listed) /\ sock'[s].handle = sock[s].handle
      BY <1>0, <1>5, <2>1, SockKept
    <2>3. U' = U
      BY <1>0, <1>5, SameFrames
    <2>4. \A k \in DOMAIN q : ~(q[k].op \in {"coreclose"} /\ q[k].s = s)
      BY <2>0 DEF Gone, At1
    <2>5. CC' = CC \ {<<t, b + 1>>}
      BY <1>0, <2>4, FramesShrink
    <2>6. CL \subseteq CL'
      BY <1>0, <2>0, FramesGrow
    <2>7. CASE Top(t).s # s
      <3>1. <<t, b + 1>> \notin CC
        BY <1>0, <2>7, FramesAfter
      <3>2. \A k \in DOMAIN q : ~(q[k].op \in {"cleanup", "closed"} /\ q[k].s = s)
        BY <2>0, <2>7 DEF Gone, At1
      <3>3. CL' = CL \ {<<t, b + 1>>}
        BY <1>0, <3>2, FramesShrink
      <3>4. CL' = CL /\ CC' = CC /\ port'[s] = port[s]
        BY <1>0, <2>0, <2>5, <2>6, <2>7, <3>1, <3>3
      <3>5. QED
        BY <1>1, <2>2, <2>3, <3>4
    <2>8. CASE Top(t).s = s
      <3>1. <<t, b + 1>> \in CC
        BY <1>0, <2>0, <2>8, FramesAfter
      <3>2. port[s] = "open" /\ ~sock[s].handle /\ CC' = {} /\ CL = {} /\ port'[s] = "removed"
        <4>1. \A p \in CC : p = <<t, b + 1>>
          BY <1>0, <3>1 DEF PortOk, AtMostOne
        <4>2. QED
          BY <1>0, <2>0, <2>5, <2>8, <3>1, <4>1 DEF PortOk
      <3>3. \A p \in CL : p = <<t, b + 1>>
        BY <3>2
      <3>4. CASE U = {}
        <4>1. q = <<Gone(s), At1("cleanup", s)>>
          BY <2>0, <2>8, <3>4 DEF Held
        <4>2. /\ 2 \in DOMAIN q /\ q[2].op \in {"cleanup", "closed"} /\ q[2].s = s
              /\ \A k \in DOMAIN q : q[k].op \in {"cleanup", "closed"} => k = 2
          BY <4>1 DEF At1, Gone
        <4>3. CL' = {<<t, b + 2>>}
          <5>1. \A k \in DOMAIN q : q[k].op \in {"cleanup", "closed"} /\ q[k].s = s
                   /\ (\A j \in DOMAIN q : q[j].op \in {"cleanup", "closed"} => j = k)
                  => CL' = {<<t, b + k>>}
            BY <1>00, <3>3, FramesOne
          <5>2. QED
            BY <5>1, <4>2
        <4>4. AtMostOne(CL)' /\ AtMostOne(CC)'
          BY <3>2, <4>3 DEF AtMostOne
        <4>5. QED
          BY <2>2, <2>3, <3>2, <3>4, <4>3, <4>4 DEF PortOk
      <3>5. CASE U # {}
        <4>1. q = <<Gone(s)>>
          BY <2>0, <2>8, <3>5 DEF Held
        <4>2. \A k \in DOMAIN q : ~(q[k].op \in {"cleanup", "closed"} /\ q[k].s = s)
          BY <4>1 DEF Gone
        <4>3. CL' = CL \ {<<t, b + 1>>}
          BY <1>0, <4>2, FramesShrink
        <4>4. AtMostOne(CL)' /\ AtMostOne(CC)'
          BY <3>2, <4>3 DEF AtMostOne
        <4>5. QED
          BY <2>2, <2>3, <3>2, <3>5, <4>3, <4>4 DEF PortOk
      <3>6. QED
        BY <3>4, <3>5
    <2>9. QED
      BY <2>7, <2>8
  <1>6. CASE Op(t) = "none"
    <2>0. stack[t] = <<>> /\ CL' = CL /\ (U' = U \/ (U \subseteq U' /\ port[s] = "open"))
      BY <1>0, <1>6, BeginCases, SameFrames, HoldsOpen
    <2>1. CC \subseteq CC'
      BY <1>0, <2>0, FramesGrow
    <2>2. CC' = CC \/ \E k \in DOMAIN q : q[k].op = "coreclose" /\ q[k].s = s
      <3>1. ASSUME \A k \in DOMAIN q : ~(q[k].op = "coreclose" /\ q[k].s = s) PROVE CC' = CC
        <4>1. \A k \in DOMAIN q : ~(q[k].op \in {"coreclose"} /\ q[k].s = s)
          BY <3>1
        <4>2. CC' = CC \ {<<t, b + 1>>}
          BY <1>0, <4>1, FramesShrink
        <4>3. QED
          BY <2>1, <4>2
      <3>2. QED
        BY <3>1
    <2>3. CASE \E r \in Socks : Open(t, r) /\ q = <<>>
      <3>1. PICK r \in Socks : Open(t, r) /\ q = <<>>
        BY <2>3
      <3>2. CC' = CC /\ port[r] = "none" /\ port' = [port EXCEPT ![r] = "open"]
            /\ sock' = [sock EXCEPT ![r].listed = TRUE, ![r].ref = 1,
                          ![r].active = {"rx", "tx"}, ![r].handle = TRUE]
        BY <2>2, <3>1 DEF Open
      <3>3. CASE r # s
        <4>1. port'[s] = port[s] /\ sock'[s] = sock[s]
          BY <1>0, <3>2, <3>3
        <4>2. QED
          BY <1>1, <2>0, <3>2, <4>1
      <3>4. CASE r = s
        <4>1. port'[s] = "open" /\ CC = {} /\ CL = {} /\ U = {}
          BY <1>0, <3>2, <3>4 DEF PortOk
        <4>2. CC' = {} /\ CL' = {}
          BY <2>0, <3>2, <4>1
        <4>3. AtMostOne(CL)' /\ AtMostOne(CC)'
          BY <4>2 DEF AtMostOne
        <4>4. QED
          BY <4>1, <4>2, <4>3 DEF PortOk
      <3>5. QED
        BY <3>3, <3>4
    <2>4. CASE \E r \in Socks : Call(t, r) /\ ~Open(t, r)
      <3>1. PICK r \in Socks : Call(t, r) /\ ~Open(t, r)
        BY <2>4
      <3>2. /\ \A x \in Socks : sock'[x].listed = sock[x].listed /\ (x # r => sock'[x] = sock[x])
            /\ UNCHANGED router /\ 1 \in DOMAIN q /\ q[1] = Put(r)
            /\ \A k \in DOMAIN q : k # 1 => q[k].s = r
            /\ \/ /\ \A k \in DOMAIN q : q[k].op # "coreclose"
                  /\ sock'[r].handle = sock[r].handle \/ ~sock'[r].handle
               \/ /\ q = <<Put(r), At1("coreclose", r)>>
                  /\ sock[r].handle /\ ~sock'[r].handle
        BY <1>0, <3>1, CallEffects
      <3>3. CASE \A k \in DOMAIN q : ~(q[k].op = "coreclose" /\ q[k].s = s)
        <4>1. sock'[s].handle => sock[s].handle
          BY <3>2
        <4>2. port' = port /\ CC' = CC
          BY <2>2, <3>2, <3>3 DEF router
        <4>3. QED
          BY <1>1, <2>0, <3>2, <4>1, <4>2
      <3>4. CASE \E k \in DOMAIN q : q[k].op = "coreclose" /\ q[k].s = s
        <4>1. q = <<Put(r), At1("coreclose", r)>> /\ sock[r].handle /\ ~sock'[r].handle
          BY <3>2, <3>4
        <4>2. r = s
          BY <3>4, <4>1 DEF Put, At1
        <4>3. CC = {} /\ port[s] = "open" /\ port' = port
          BY <1>0, <3>2, <4>1, <4>2 DEF PortOk, router
        <4>4. \A p \in CC : p = <<t, b + 1>>
          BY <4>3
        <4>5. /\ 2 \in DOMAIN q /\ q[2].op \in {"coreclose"} /\ q[2].s = s
              /\ \A k \in DOMAIN q : q[k].op \in {"coreclose"} => k = 2
          BY <4>1, <4>2 DEF Put, At1
        <4>6. CC' = {<<t, b + 2>>}
          <5>1. \A k \in DOMAIN q : q[k].op \in {"coreclose"} /\ q[k].s = s
                   /\ (\A j \in DOMAIN q : q[j].op \in {"coreclose"} => j = k)
                  => CC' = {<<t, b + k>>}
            BY <1>00, <4>4, FramesOne
          <5>2. QED
            BY <5>1, <4>5
        <4>7. AtMostOne(CC)'
          BY <4>6 DEF AtMostOne
        <4>8. ~sock'[s].handle /\ port'[s] = "open"
          BY <4>1, <4>2, <4>3
        <4>9. CL = {} /\ U' # {} => port'[s] = "open"
          BY <4>8
        <4>10. QED
          BY <1>0, <2>0, <3>2, <4>3, <4>7, <4>8 DEF PortOk
      <3>5. QED
        BY <3>3, <3>4
    <2>5. CASE /\ ~ \E r \in Socks : Call(t, r) /\ ~Open(t, r)
               /\ ~ \E r \in Socks : Open(t, r) /\ q = <<>>
      <3>1. sock' = sock /\ port' = port /\ \A k \in DOMAIN q : q[k].op # "coreclose"
        <4>1. CASE \E f \in SUBSET Socks, ev \in SUBSET {"in", "out"} : BeginPoll(t, f, ev) /\ q = <<Poll(f, FALSE)>>
          BY <4>1 DEF BeginPoll, sockets, router, Poll
        <4>2. CASE t = Net /\ \E p \in Peers : PeerConfirms(p) /\ q = <<Notify(queue[p], p)>>
          BY <4>2 DEF PeerConfirms, sockets, Notify
        <4>3. CASE t = Net /\ \E p \in Peers : PeerGone(p) /\ q = <<Gone(p), Notify(queue[p], p)>>
          BY <4>3 DEF PeerGone, sockets, Notify, Gone
        <4>4. CASE t = Net /\ \E p \in Peers, r \in Socks :
                     Arrive(p, r) /\ q = <<Unlock(r), RxCb(r, Message(p, sent[r][p] + 1 = Quota))>>
          BY <4>4 DEF Arrive, sockets, Unlock, At1, RxCb
        <4>5. QED
          BY <1>0, <1>6, <2>5, <4>1, <4>2, <4>3, <4>4, BeginCases
      <3>2. CC' = CC
        BY <2>2, <3>1
      <3>3. QED
        BY <1>1, <2>0, <3>1, <3>2
    <2>6. QED
      BY <2>3, <2>4, <2>5
  <1>7. QED
    BY <1>2, <1>3, <1>4, <1>5, <1>6

\* The number of frames of a kind, when the step leaves one, enters one, or both
LEMMA CountLess ==
  ASSUME StackType, NEW t \in Threads, NEW q \in Seq(Frame), Goto(t, q), NEW ops, NEW s,
         <<t, Len(Below(t)) + 1>> \in Frames(ops, s),
         \A k \in DOMAIN q : ~(q[k].op \in ops /\ q[k].s = s)
  PROVE  /\ Cardinality(Frames(ops, s)) \in Nat
         /\ Cardinality(Frames(ops, s)) # 0
         /\ Cardinality(Frames(ops, s)') = Cardinality(Frames(ops, s)) - 1
  <1>2. Frames(ops, s)' = Frames(ops, s) \ {<<t, Len(Below(t)) + 1>>}
    BY FramesShrink
  <1>3. IsFiniteSet(Frames(ops, s)) /\ Cardinality(Frames(ops, s)) \in Nat
    BY FramesFinite, FS_CardinalityType
  <1>4. Cardinality(Frames(ops, s)) # 0
    BY <1>3, FS_EmptySet
  <1>5. Cardinality(Frames(ops, s) \ {<<t, Len(Below(t)) + 1>>}) = Cardinality(Frames(ops, s)) - 1
    BY <1>3, FS_RemoveElement
  <1>6. QED
    BY <1>2, <1>3, <1>4, <1>5

\* With one such frame entered, their number grows by one, unless the thread leaves
\* one.
LEMMA CountNext ==
  ASSUME StackType, NEW t \in Threads, NEW q \in Seq(Frame), Goto(t, q), NEW ops, NEW s,
         \E k \in DOMAIN q : \A j \in DOMAIN q : q[j].op \in ops /\ q[j].s = s <=> j = k
  PROVE  /\ Cardinality(Frames(ops, s)) \in Nat
         /\ <<t, Len(Below(t)) + 1>> \notin Frames(ops, s) =>
              Cardinality(Frames(ops, s)') = Cardinality(Frames(ops, s)) + 1
         /\ <<t, Len(Below(t)) + 1>> \in Frames(ops, s) =>
              Cardinality(Frames(ops, s)') = Cardinality(Frames(ops, s))
  <1> DEFINE R == Frames(ops, s) \ {<<t, Len(Below(t)) + 1>>}
  <1>1. IsFiniteSet(Frames(ops, s)) /\ IsFiniteSet(R)
    BY FramesFinite, FS_Subset
  <1>2. Cardinality(Frames(ops, s)) \in Nat
    BY <1>1, FS_CardinalityType
  <1>3. Cardinality(Frames(ops, s)') = Cardinality(R) + 1
    <2>1. PICK k \in DOMAIN q : \A j \in DOMAIN q : q[j].op \in ops /\ q[j].s = s <=> j = k
      OBVIOUS
    <2>2. Frames(ops, s)' = R \cup {<<t, Len(Below(t)) + k>>} /\ <<t, Len(Below(t)) + k>> \notin R
      BY <2>1, OneMore
    <2> HIDE DEF R
    <2>3. QED
      BY <1>1, <2>2, FS_AddElement
  <1>4. <<t, Len(Below(t)) + 1>> \notin Frames(ops, s) => R = Frames(ops, s)
    OBVIOUS
  <1>5. <<t, Len(Below(t)) + 1>> \in Frames(ops, s) => Cardinality(R) = Cardinality(Frames(ops, s)) - 1
    BY <1>1, FS_RemoveElement
  <1> HIDE DEF R
  <1>6. QED
    BY <1>2, <1>3, <1>4, <1>5

\* Their number grows by one when the thread leaves none and enters one,
LEMMA CountMore ==
  ASSUME StackType, NEW t \in Threads, NEW q \in Seq(Frame), Goto(t, q), NEW ops, NEW s,
         ~(stack[t] # <<>> /\ Top(t).op \in ops /\ Top(t).s = s),
         \E k \in DOMAIN q : \A j \in DOMAIN q : q[j].op \in ops /\ q[j].s = s <=> j = k
  PROVE  /\ Cardinality(Frames(ops, s)) \in Nat
         /\ Cardinality(Frames(ops, s)') = Cardinality(Frames(ops, s)) + 1
  <1>1. <<t, Len(Below(t)) + 1>> \notin Frames(ops, s)
    BY FramesAfter
  <1>2. QED
    BY <1>1, CountNext, SMTT(30)

\* stays when it leaves one and enters one,
LEMMA CountMoved ==
  ASSUME StackType, NEW t \in Threads, NEW q \in Seq(Frame), Goto(t, q), NEW ops, NEW s,
         stack[t] # <<>>, Top(t).op \in ops, Top(t).s = s,
         \E k \in DOMAIN q : \A j \in DOMAIN q : q[j].op \in ops /\ q[j].s = s <=> j = k
  PROVE  Cardinality(Frames(ops, s)') = Cardinality(Frames(ops, s))
  <1>1. <<t, Len(Below(t)) + 1>> \in Frames(ops, s)
    BY TopInFrames
  <1>2. QED
    BY <1>1, CountNext, SMTT(30)

\* and stays when it does neither.
LEMMA SameCount ==
  ASSUME StackType, NEW t \in Threads, NEW q \in Seq(Frame), Goto(t, q), NEW ops, NEW s,
         ~(stack[t] # <<>> /\ Top(t).op \in ops /\ Top(t).s = s),
         \A k \in DOMAIN q : ~(q[k].op \in ops /\ q[k].s = s)
  PROVE  Frames(ops, s)' = Frames(ops, s)
  <1>1. Frames(ops, s) \subseteq Frames(ops, s)'
    BY FramesGrow
  <1>2. Frames(ops, s)' = Frames(ops, s) \ {<<t, Len(Below(t)) + 1>>}
    BY FramesShrink
  <1>3. QED
    BY <1>1, <1>2

\* A socket that a call or a callback is inside of is in the list.
LEMMA Alive ==
  ASSUME SockInv, NEW s \in Socks, Present(Put(s)) \/ Present(Unlock(s))
  PROVE  sock[s].listed
  <1>0. StackType /\ sock[s].ref \in Nat /\ PortOk(s)
    BY DEF SockInv, TypeOK, StackType, Ports
  <1>1. Cardinality(Frames({"put", "polltest"}, s)) \in Nat
    BY <1>0, FramesFinite, FS_CardinalityType
  <1>2. sock[s].ref = Cardinality(Frames({"put", "polltest"}, s)) + Router(s) /\ (sock[s].listed <=> sock[s].ref > 0)
    BY DEF SockInv, Refs
  <1>3. CASE Present(Put(s))
    <2>1. PICK u \in Threads : \E i \in DOMAIN stack[u] : stack[u][i] = Put(s)
      BY <1>3 DEF Present
    <2>2. PICK i \in DOMAIN stack[u] : stack[u][i] = Put(s)
      BY <2>1
    <2>3. <<u, i>> \in Frames({"put", "polltest"}, s)
      BY <1>0, <2>2, FramesIn DEF Put, At1
    <2>4. Cardinality(Frames({"put", "polltest"}, s)) # 0
      BY <1>0, <2>3, FramesFinite, FS_EmptySet
    <2>5. QED
      BY <1>1, <1>2, <2>4 DEF Router
  <1>4. CASE Present(Unlock(s))
    <2>1. PICK u \in Threads : \E i \in DOMAIN stack[u] : stack[u][i] = Unlock(s)
      BY <1>4 DEF Present
    <2>2. PICK i \in DOMAIN stack[u] : stack[u][i] = Unlock(s)
      BY <2>1
    <2>3. <<u, i>> \in Frames({"unlock"}, s)
      BY <1>0, <2>2, FramesIn DEF Unlock, At1
    <2>4. Router(s) = 1
      BY <1>0, <2>3 DEF PortOk, Router
    <2>5. QED
      BY <1>1, <1>2, <2>4
  <1>5. QED
    BY <1>3, <1>4

\* A socket that a frame has a reference on is in the list of sockets.
LEMMA BackedAlive ==
  ASSUME SockInv, NEW t \in Threads, NEW i \in DOMAIN stack[t], Backed(stack[t], i), stack[t][i].s \in Socks
  PROVE  sock[stack[t][i].s].listed
  <1>1. StackType
    BY DEF SockInv, TypeOK, StackType
  <1>2. PICK j \in 1..(i - 1) : stack[t][j] = Put(stack[t][i].s) \/ stack[t][j] = Unlock(stack[t][i].s)
    BY DEF Backed
  <1>3. j \in DOMAIN stack[t]
    BY <1>1, <1>2 DEF StackType
  <1>4. QED
    BY <1>2, <1>3, Alive DEF Present

\* Every reference has its owner: the router, or a frame that gives it back.
LEMMA RefKept ==
  ASSUME SockInv, NEW t \in Threads, NEW q \in Seq(Frame), Step(t, q), NEW s \in Socks
  PROVE  /\ sock'[s].ref = Cardinality(Frames({"put", "polltest"}, s)') + Router(s)'
         /\ sock'[s].listed <=> sock'[s].ref > 0
  <1> DEFINE P == {"put", "polltest"}
             F == Frames(P, s)
             Ok == /\ sock'[s].ref = Cardinality(F') + Router(s)'
                   /\ sock'[s].listed <=> sock'[s].ref > 0
  <1>0. /\ StackType /\ TypeOK /\ Moves(t, q) /\ Doing(t) /\ Calm(t) /\ Goto(t, q) /\ Ports
        /\ port \in [Socks -> {"none", "open", "removed", "freed"}]
        /\ sock \in [Socks -> [listed : BOOLEAN, ref : Nat, type : {"data", "control"},
                         active : SUBSET {"rx", "tx"}, conn : Addrs \cup {Null, Reset},
                         handle : BOOLEAN]]
    BY DEF SockInv, TypeOK, StackType, Step, Moves
  <1>00. StackType /\ Goto(t, q)
    BY <1>0
  <1>r. /\ sock[s].ref = Cardinality(F) + Router(s) /\ (sock[s].listed <=> sock[s].ref > 0)
        /\ sock[s].ref \in Nat /\ Router(s) \in {0, 1}
    BY <1>0 DEF SockInv, Refs, Router
  <1>c. Cardinality(F) \in Nat
    BY <1>0, FramesFinite, FS_CardinalityType
  <1>1. ASSUME Cardinality(F') = Cardinality(F), port'[s] = port[s], sock'[s].ref = sock[s].ref,
               sock'[s].listed = sock[s].listed
        PROVE  Ok
    BY <1>r, <1>1 DEF Router
  <1>2. ASSUME Op(t) # "none" PROVE stack[t] # <<>> /\ Top(t).op = Op(t)
    BY <1>0, <1>2, TopOp
  <1>3. CASE Op(t) \notin {"none", "put", "poll", "polltest", "closed"}
    <2>1. F' = F
      <3>1. \A k \in DOMAIN q : ~(q[k].op \in P /\ q[k].s = s)
        BY <1>0, <1>2, <1>3, FollowsOps DEF Moves
      <3>2. ~(stack[t] # <<>> /\ Top(t).op \in P /\ Top(t).s = s)
        BY <1>2, <1>3
      <3>3. QED
        BY <1>00, <3>1, <3>2, SameCount
    <2>2. sock'[s].ref = sock[s].ref /\ sock'[s].listed = sock[s].listed
      <3>1. CASE Op(t) # "remove"
        BY <1>0, <1>3, <3>1 DEF Calm
      <3>2. CASE Op(t) = "remove"
        <4>1. RemoveEvent(t) /\ Top(t).s \in Socks
          BY <1>0, <3>2, DoesRemove
        <4>2. QED
          BY <1>0, <4>1 DEF RemoveEvent
      <3>3. QED
        BY <3>1, <3>2
    <2>3. CASE Op(t) # "coreclose"
      <3>1. port' = port
        BY <1>0, <1>3, <2>3 DEF Calm
      <3>2. QED
        BY <1>1, <2>1, <2>2, <3>1
    <2>4. CASE Op(t) = "coreclose"
      <3>1. CoreClose(t) /\ Top(t).s \in Socks /\ stack[t] # <<>> /\ Top(t).op \in {"coreclose"}
        BY <1>0, <1>2, <2>4, DoesCoreClose
      <3>2. <<t, Len(Below(t)) + 1>> \in Frames({"coreclose"}, Top(t).s)
        BY <1>00, <3>1, TopInFrames
      <3>3. port[Top(t).s] = "open"
        BY <1>0, <3>1, <3>2 DEF Ports, PortOk
      <3>4. port' = [port EXCEPT ![Top(t).s] = "removed"]
        BY <3>1 DEF CoreClose
      <3>5. Router(s)' = Router(s)
        BY <1>0, <3>1, <3>3, <3>4 DEF Router
      <3>6. QED
        BY <1>r, <2>1, <2>2, <3>5
    <2>5. QED
      BY <2>3, <2>4
  <1>4. CASE Op(t) = "put"
    <2>1. /\ PutSock(t) /\ Top(t).s \in Socks /\ stack[t] # <<>> /\ Top(t).op \in P /\ port' = port
          /\ q = IF sock[Top(t).s].ref = 1 THEN <<Unblock(Top(t).s, {"nval"}, Null)>> ELSE <<>>
      BY <1>0, <1>2, <1>4, DoesPut DEF Calm
    <2>2. \A k \in DOMAIN q : q[k].op = "unblock"
      BY <2>1 DEF Unblock
    <2>3. \A k \in DOMAIN q : ~(q[k].op \in P /\ q[k].s = s)
      BY <2>2
    <2>4. CASE Top(t).s # s
      <3>1. sock'[s] = sock[s]
        BY <1>0, <2>1, <2>4 DEF PutSock
      <3>2. F' = F
        BY <1>00, <2>3, <2>4, SameCount
      <3>3. QED
        BY <1>1, <2>1, <3>1, <3>2
    <2>5. CASE Top(t).s = s
      <3>0. <<t, Len(Below(t)) + 1>> \in F
        BY <1>00, <2>1, <2>5, TopInFrames
      <3>1. Cardinality(F) # 0 /\ Cardinality(F') = Cardinality(F) - 1
        BY <1>00, <2>3, <3>0, CountLess, SMTT(30)
      <3>2. sock'[s].ref = sock[s].ref - 1 /\ (sock'[s].listed <=> sock[s].listed /\ sock[s].ref # 1)
        BY <1>0, <2>1, <2>5 DEF PutSock
      <3>3. Router(s)' = Router(s)
        BY <2>1 DEF Router
      <3>4. QED
        BY <1>r, <1>c, <3>1, <3>2, <3>3
    <2>6. QED
      BY <2>4, <2>5
  <1>5. CASE Op(t) = "poll"
    <2>1. ~(stack[t] # <<>> /\ Top(t).op \in P /\ Top(t).s = s) /\ port' = port
      BY <1>0, <1>2, <1>5 DEF Calm
    <2>2. \/ q = <<PollEnds>> /\ sock' = sock
          \/ q = <<PollWaits>> /\ sock' = sock
          \/ \E r \in Socks : \E w, ready : sock[r].listed /\ q = <<PollTest(r, w, ready)>> /\ sock' = [sock EXCEPT ![r] = Ref(r)]
      <3> DEFINE w == Top(t).f
                 ready == Top(t).ready
      <3>1. /\ w \in SUBSET Socks
            /\ \/ /\ q = <<PollEnds>> /\ sock' = sock /\ waitLock' = waitLock
                  /\ w = {} \/ \E r \in w : ~sock[r].listed
               \/ q = <<PollWaits>> /\ sock' = sock /\ w = {} /\ ~ready /\ waitLock' = Null
               \/ \E r \in w : /\ sock[r].listed /\ q = <<PollTest(r, w \ {r}, ready)>>
                               /\ sock' = [sock EXCEPT ![r] = Ref(r)] /\ waitLock' = waitLock
        BY <1>0, <1>5, DoesPoll
      <3> HIDE DEF w, ready
      <3>2. (\E r \in w : /\ sock[r].listed /\ q = <<PollTest(r, w \ {r}, ready)>>
                          /\ sock' = [sock EXCEPT ![r] = Ref(r)] /\ waitLock' = waitLock)
              => \E r \in Socks : \E v, b : sock[r].listed /\ q = <<PollTest(r, v, b)>> /\ sock' = [sock EXCEPT ![r] = Ref(r)]
        BY <3>1
      <3>3. QED
        BY <3>1, <3>2
    <2>3. CASE q \in {<<PollEnds>>, <<PollWaits>>} /\ sock' = sock
      <3>1. \A k \in DOMAIN q : ~(q[k].op \in P /\ q[k].s = s)
        BY <2>3 DEF PollEnds, PollWaits
      <3>2. F' = F
        BY <1>00, <2>1, <3>1, SameCount
      <3>3. QED
        BY <1>1, <2>1, <2>3, <3>2
    <2>4. CASE \E r \in Socks : \E w, ready : sock[r].listed /\ q = <<PollTest(r, w, ready)>> /\ sock' = [sock EXCEPT ![r] = Ref(r)]
      <3>10. PICK r \in Socks : \E w, ready : sock[r].listed /\ q = <<PollTest(r, w, ready)>> /\ sock' = [sock EXCEPT ![r] = Ref(r)]
        BY <2>4
      <3>1. PICK w, ready : sock[r].listed /\ q = <<PollTest(r, w, ready)>> /\ sock' = [sock EXCEPT ![r] = Ref(r)]
        BY <3>10
      <3>2. DOMAIN q = {1} /\ q[1].op = "polltest" /\ q[1].s = r
        BY <3>1 DEF PollTest
      <3>3. CASE r # s
        <4>1. \A k \in DOMAIN q : ~(q[k].op \in P /\ q[k].s = s)
          BY <3>2, <3>3
        <4>2. F' = F
          BY <1>00, <2>1, <4>1, SameCount
        <4>3. sock'[s] = sock[s]
          BY <1>0, <3>1, <3>3
        <4>4. QED
          BY <1>1, <2>1, <4>2, <4>3
      <3>4. CASE r = s
        <4>1. \E k \in DOMAIN q : \A j \in DOMAIN q : q[j].op \in P /\ q[j].s = s <=> j = k
          BY <3>2, <3>4
        <4>2. Cardinality(F') = Cardinality(F) + 1
          BY <1>00, <2>1, <4>1, CountMore
        <4>3. sock'[s].ref = sock[s].ref + 1 /\ sock'[s].listed
          BY <1>0, <3>1, <3>4 DEF Ref
        <4>4. Router(s)' = Router(s)
          BY <2>1 DEF Router
        <4>5. QED
          BY <1>r, <1>c, <4>2, <4>3, <4>4
      <3>5. QED
        BY <3>3, <3>4
    <2>5. QED
      BY <2>2, <2>3, <2>4
  <1>6. CASE Op(t) = "polltest"
    <2>1. /\ Top(t).s \in Socks /\ stack[t] # <<>> /\ Top(t).op \in P /\ port' = port /\ sock' = sock
          /\ q = <<Poll(Top(t).f, Top(t).ready \/ Ready(Top(t).s, waiter[t].ev)), Put(Top(t).s)>>
      BY <1>0, <1>2, <1>6, DoesPollTest DEF Calm
    <2>2. DOMAIN q = {1, 2} /\ q[1].op = "poll" /\ q[2].op = "put" /\ q[2].s = Top(t).s
      BY <2>1 DEF Poll, Put, At1
    <2>3. CASE Top(t).s # s
      <3>1. \A k \in DOMAIN q : ~(q[k].op \in P /\ q[k].s = s)
        BY <2>2, <2>3
      <3>2. F' = F
        BY <1>00, <2>3, <3>1, SameCount
      <3>3. QED
        BY <1>1, <2>1, <3>2
    <2>4. CASE Top(t).s = s
      <3>1. \E k \in DOMAIN q : \A j \in DOMAIN q : q[j].op \in P /\ q[j].s = s <=> j = k
        <4>1. \A j \in DOMAIN q : q[j].op \in P /\ q[j].s = s <=> j = 2
          BY <2>2, <2>4
        <4>2. QED
          BY <2>2, <4>1
      <3>0. stack[t] # <<>> /\ Top(t).op \in P /\ Top(t).s = s
        BY <2>1, <2>4
      <3>2. Cardinality(F') = Cardinality(F)
        BY <1>00, <3>0, <3>1, CountMoved, ZenonT(60)
      <3>3. QED
        BY <1>1, <2>1, <3>2
    <2>5. QED
      BY <2>3, <2>4
  <1>7. CASE Op(t) = "closed"
    <2>1. /\ Top(t).s \in Socks /\ stack[t] # <<>> /\ Top(t).op \in {"cleanup", "closed"} /\ sock' = sock
          /\ q = <<Put(Top(t).s)>> /\ Closed(t)
      BY <1>0, <1>2, <1>7, DoesClosed DEF Calm
    <2>2. port' = [port EXCEPT ![Top(t).s] = "freed"]
      BY <2>1 DEF Closed
    <2>3. DOMAIN q = {1} /\ q[1].op = "put" /\ q[1].s = Top(t).s
      BY <2>1 DEF Put, At1
    <2>4. ~(stack[t] # <<>> /\ Top(t).op \in P /\ Top(t).s = s)
      BY <1>2, <1>7
    <2>5. CASE Top(t).s # s
      <3>1. \A k \in DOMAIN q : ~(q[k].op \in P /\ q[k].s = s)
        BY <2>3, <2>5
      <3>2. F' = F
        BY <1>00, <2>4, <3>1, SameCount
      <3>3. port'[s] = port[s]
        BY <1>0, <2>1, <2>2, <2>5
      <3>4. QED
        BY <1>1, <2>1, <3>2, <3>3
    <2>6. CASE Top(t).s = s
      <3>1. \E k \in DOMAIN q : \A j \in DOMAIN q : q[j].op \in P /\ q[j].s = s <=> j = k
        BY <2>3, <2>6
      <3>2. Cardinality(F') = Cardinality(F) + 1
        BY <1>00, <2>4, <3>1, CountMore
      <3>3. <<t, Len(Below(t)) + 1>> \in Frames({"cleanup", "closed"}, s)
        BY <1>00, <2>1, <2>6, TopInFrames
      <3>4. port[s] = "removed"
        BY <1>0, <3>3 DEF Ports, PortOk
      <3>5. Router(s) = 1 /\ Router(s)' = 0
        BY <1>0, <2>1, <2>2, <2>6, <3>4 DEF Router
      <3>6. QED
        BY <1>r, <1>c, <2>1, <3>2, <3>5
    <2>7. QED
      BY <2>5, <2>6
  <1>8. CASE Op(t) = "none"
    <2>0. stack[t] = <<>>
      BY <1>0, <1>8, BeginCases
    <2>1. CASE \E r \in Socks : Open(t, r) /\ q = <<>>
      <3>1. PICK r \in Socks : Open(t, r) /\ q = <<>>
        BY <2>1
      <3>2. port[r] = "none" /\ port' = [port EXCEPT ![r] = "open"]
            /\ sock' = [sock EXCEPT ![r].listed = TRUE, ![r].ref = 1,
                          ![r].active = {"rx", "tx"}, ![r].handle = TRUE]
        BY <3>1 DEF Open
      <3>3. F' = F
        <4>1. \A k \in DOMAIN q : ~(q[k].op \in P /\ q[k].s = s)
          BY <3>1
        <4>2. QED
          BY <1>00, <2>0, <4>1, SameCount
      <3>4. CASE r # s
        <4>1. port'[s] = port[s] /\ sock'[s] = sock[s]
          BY <1>0, <3>2, <3>4
        <4>2. QED
          BY <1>1, <3>3, <4>1
      <3>5. CASE r = s
        <4>1. ~sock[s].listed
          BY <1>0, <3>2, <3>5 DEF Ports, PortOk
        <4>2. Cardinality(F) = 0
          BY <1>r, <1>c, <4>1
        <4>3. sock'[s].ref = 1 /\ sock'[s].listed /\ Router(s)' = 1
          BY <1>0, <3>2, <3>5 DEF Router
        <4>4. QED
          BY <3>3, <4>2, <4>3
      <3>6. QED
        BY <3>4, <3>5
    <2>2. CASE \E r \in Socks : Call(t, r) /\ ~Open(t, r)
      <3>1. PICK r \in Socks : Call(t, r) /\ ~Open(t, r)
        BY <2>2
      <3>2. /\ 1 \in DOMAIN q /\ q[1] = Put(r)
            /\ \A k \in DOMAIN q : k # 1 => q[k].op \in {"coreclose", "read", "unwait", "recvwaiter", "sendwaiter", "trysend"}
            /\ sock'[s].listed = sock[s].listed
            /\ sock'[s].ref = IF s = r THEN sock[r].ref + 1 ELSE sock[s].ref
            /\ port' = port /\ sock[r].listed
        BY <1>0, <3>1, CallEffects DEF router
      <3>3. CASE r # s
        <4>1. \A k \in DOMAIN q : ~(q[k].op \in P /\ q[k].s = s)
          BY <3>2, <3>3 DEF Put, At1
        <4>2. F' = F
          BY <1>00, <2>0, <4>1, SameCount
        <4>3. QED
          BY <1>1, <3>2, <3>3, <4>2
      <3>4. CASE r = s
        <4>1. \A j \in DOMAIN q : q[j].op \in P /\ q[j].s = s <=> j = 1
          BY <3>2, <3>4 DEF Put, At1
        <4>2. \E k \in DOMAIN q : \A j \in DOMAIN q : q[j].op \in P /\ q[j].s = s <=> j = k
          BY <3>2, <4>1
        <4>3. Cardinality(F') = Cardinality(F) + 1
          BY <1>00, <2>0, <4>2, CountMore
        <4>4. Router(s)' = Router(s)
          BY <3>2 DEF Router
        <4>5. QED
          BY <1>r, <1>c, <3>2, <3>4, <4>3, <4>4
      <3>5. QED
        BY <3>3, <3>4
    <2>3. CASE ~ \E r \in Socks : Call(t, r) /\ ~Open(t, r)
      <3>1. CASE ~ \E r \in Socks : Open(t, r) /\ q = <<>>
        <4>1. /\ sock' = sock /\ port' = port
              /\ \A k \in DOMAIN q : q[k].op \notin {"put", "polltest"}
          <5>1. CASE \E f \in SUBSET Socks, ev \in SUBSET {"in", "out"} : BeginPoll(t, f, ev) /\ q = <<Poll(f, FALSE)>>
            BY <5>1 DEF BeginPoll, sockets, router, Poll
          <5>2. CASE t = Net /\ \E p \in Peers : PeerConfirms(p) /\ q = <<Notify(queue[p], p)>>
            BY <5>2 DEF PeerConfirms, sockets, Notify
          <5>3. CASE t = Net /\ \E p \in Peers : PeerGone(p) /\ q = <<Gone(p), Notify(queue[p], p)>>
            BY <5>3 DEF PeerGone, sockets, Notify, Gone
          <5>4. CASE t = Net /\ \E p \in Peers, r \in Socks :
                       Arrive(p, r) /\ q = <<Unlock(r), RxCb(r, Message(p, sent[r][p] + 1 = Quota))>>
            BY <5>4 DEF Arrive, sockets, Unlock, At1, RxCb
          <5>5. QED
            BY <1>0, <1>8, <2>3, <3>1, <5>1, <5>2, <5>3, <5>4, BeginCases
        <4>2. \A k \in DOMAIN q : ~(q[k].op \in P /\ q[k].s = s)
          BY <4>1
        <4>3. F' = F
          BY <1>00, <2>0, <4>2, SameCount
        <4>4. QED
          BY <1>1, <4>1, <4>3
      <3>2. QED
        BY <2>1, <3>1
    <2>4. QED
      BY <2>2, <2>3
  <1>9. QED
    BY <1>3, <1>4, <1>5, <1>6, <1>7, <1>8

\* Only a socket in the list has packets.
LEMMA RefsStep ==
  ASSUME SockInv, NEW t \in Threads, NEW q \in Seq(Frame), Step(t, q)
  PROVE  Refs'
  <1> SUFFICES ASSUME NEW s \in Socks, ~sock'[s].listed PROVE rxq'[s] = <<>>
    BY RefKept DEF Refs
  <1>0. /\ StackType /\ TypeOK /\ Shape /\ Moves(t, q) /\ Doing(t) /\ Calm(t) /\ Goto(t, q)
        /\ rxq \in [Socks -> Seq(Packet)]
        /\ sock \in [Socks -> [listed : BOOLEAN, ref : Nat, type : {"data", "control"},
                         active : SUBSET {"rx", "tx"}, conn : Addrs \cup {Null, Reset},
                         handle : BOOLEAN]]
        /\ (~sock[s].listed => rxq[s] = <<>>)
    BY DEF SockInv, TypeOK, StackType, Step, Moves, Refs
  <1>a. ASSUME stack[t] # <<>> PROVE Len(stack[t]) \in DOMAIN stack[t] /\ stack[t][Len(stack[t])] = Top(t)
    BY <1>0, <1>a, TopAt
  <1>1. CASE Op(t) = "put"
    <2>1. PutSock(t) /\ Top(t).s \in Socks
      BY <1>0, <1>1, DoesPut
    <2>2. CASE Top(t).s # s
      <3>1. sock'[s] = sock[s] /\ rxq'[s] = rxq[s]
        BY <1>0, <2>1, <2>2 DEF PutSock
      <3>2. QED
        BY <1>0, <3>1
    <2>3. CASE Top(t).s = s
      <3>1. CASE sock[s].ref = 1
        BY <1>0, <2>1, <2>3, <3>1 DEF PutSock
      <3>2. CASE sock[s].ref # 1
        <4>1. sock'[s].listed <=> sock[s].listed
          BY <1>0, <2>1, <2>3, <3>2 DEF PutSock
        <4>2. rxq'[s] = rxq[s]
          BY <1>0, <2>1, <2>3, <3>2 DEF PutSock
        <4>3. QED
          BY <1>0, <4>1, <4>2
      <3>3. QED
        BY <3>1, <3>2
    <2>4. QED
      BY <2>2, <2>3
  <1>2. CASE Op(t) = "add"
    <2>1. Enqueue(t) /\ Top(t).s \in Socks /\ stack[t] # <<>> /\ Top(t).op = "add" /\ sock' = sock
      BY <1>0, <1>2, TopOp, DoesAdd DEF Calm
    <2>2. OkAt(stack[t], Len(stack[t]))
      BY <1>0, <1>a, <2>1 DEF Shape
    <2>3. Backed(stack[t], Len(stack[t]))
      BY <1>a, <2>1, <2>2 DEF OkAt
    <2>4. sock[Top(t).s].listed
      BY <1>a, <2>1, <2>3, BackedAlive
    <2>5. Top(t).s # s
      BY <2>1, <2>4
    <2>6. rxq'[s] = rxq[s]
      BY <1>0, <2>1, <2>5 DEF Enqueue
    <2>7. QED
      BY <1>0, <2>1, <2>6
  <1>3. CASE Op(t) = "flush"
    <2>1. Flush(t) /\ Top(t).s \in Socks /\ sock' = sock
      BY <1>0, <1>3, DoesFlush DEF Calm
    <2>2. QED
      BY <1>0, <2>1 DEF Flush
  <1>4. CASE Op(t) = "readdone"
    <2>1. ReadDone(t) /\ Top(t).s \in Socks /\ stack[t] # <<>> /\ Top(t).op = "readdone" /\ sock' = sock
      BY <1>0, <1>4, TopOp, DoesReadDone DEF Calm
    <2>2. OkAt(stack[t], Len(stack[t]))
      BY <1>0, <1>a, <2>1 DEF Shape
    <2>3. Len(stack[t]) = 2 /\ stack[t][1] = Put(Top(t).s)
      BY <1>a, <2>1, <2>2 DEF OkAt
    <2>4. sock[Top(t).s].listed
      <3>1. 1 \in DOMAIN stack[t]
        BY <1>0, <2>3 DEF StackType
      <3>2. QED
        BY <2>1, <2>3, <3>1, Alive DEF Present
    <2>5. Top(t).s # s
      BY <2>1, <2>4
    <2>6. rxq'[s] = rxq[s]
      BY <1>0, <2>1, <2>5 DEF ReadDone
    <2>7. QED
      BY <1>0, <2>1, <2>6
  <1>5. CASE Op(t) \notin {"put", "add", "flush", "readdone"}
    <2>1. rxq' = rxq
      BY <1>0, <1>5 DEF Calm
    <2>2. CASE \E r \in Socks : Open(t, r)
      <3>1. PICK r \in Socks : Open(t, r)
        BY <2>2
      <3>2. r # s => sock'[s] = sock[s]
        BY <1>0, <3>1 DEF Open
      <3>3. r = s => sock'[s].listed
        BY <1>0, <3>1 DEF Open
      <3>4. QED
        BY <1>0, <2>1, <3>2, <3>3
    <2>3. CASE ~ \E r \in Socks : Open(t, r)
      <3>1. CASE Op(t) # "none"
        <4>1. sock'[s].listed <=> sock[s].listed
          <5>1. CASE Op(t) \notin {"remove", "poll"}
            BY <1>0, <1>5, <3>1, <5>1 DEF Calm
          <5>2. CASE Op(t) = "remove"
            <6>1. RemoveEvent(t) /\ Top(t).s \in Socks
              BY <1>0, <5>2, DoesRemove
            <6>2. QED
              BY <1>0, <6>1 DEF RemoveEvent
          <5>3. CASE Op(t) = "poll"
            <6>1. sock' = sock \/ \E r \in Socks : sock' = [sock EXCEPT ![r] = Ref(r)]
              BY <1>0, <5>3, DoesPoll
            <6>2. QED
              BY <1>0, <6>1 DEF Ref
          <5>4. QED
            BY <5>1, <5>2, <5>3
        <4>2. QED
          BY <1>0, <2>1, <4>1
      <3>2. CASE Op(t) = "none"
        <4>1. CASE \E r \in Socks : Call(t, r) /\ ~Open(t, r)
          <5>1. PICK r \in Socks : Call(t, r) /\ ~Open(t, r)
            BY <4>1
          <5>2. sock'[s].listed = sock[s].listed
            BY <1>0, <5>1, CallEffects
          <5>3. QED
            BY <1>0, <2>1, <5>2
        <4>2. CASE ~ \E r \in Socks : Call(t, r) /\ ~Open(t, r)
          <5>1. sock' = sock
            BY <1>0, <2>3, <3>2, <4>2, BeginCases DEF BeginPoll, PeerConfirms, PeerGone, Arrive, sockets
          <5>2. QED
            BY <1>0, <2>1, <5>1
        <4>3. QED
          BY <4>1, <4>2
      <3>3. QED
        BY <3>1, <3>2
    <2>4. QED
      BY <2>2, <2>3
  <1>6. QED
    BY <1>1, <1>2, <1>3, <1>4, <1>5

\* A thread about to take a packet off the queue reads from it.
LEMMA ReadTop ==
  ASSUME StackType, Shape, NEW t \in Threads, stack[t] # <<>>, Top(t).op = "readdone"
  PROVE  Len(stack[t]) = 2 /\ stack[t][2] = Top(t) /\ stack[t][1] = Put(Top(t).s) /\ Reads(t, Top(t).s)
  <1>1. Len(stack[t]) \in DOMAIN stack[t] /\ stack[t][Len(stack[t])] = Top(t)
    BY TopAt
  <1>2. OkAt(stack[t], Len(stack[t]))
    BY <1>1 DEF Shape
  <1>3. Len(stack[t]) = 2 /\ stack[t][1] = Put(Top(t).s)
    BY <1>1, <1>2 DEF OkAt
  <1>4. Top(t) = At1("readdone", Top(t).s)
    <2>1. Top(t) \in Frame
      BY <1>1 DEF StackType
    <2>2. QED
      BY <2>1 DEF Frame, At1
  <1>5. QED
    BY <1>1, <1>3, <1>4 DEF Reads

SockType == [listed : BOOLEAN, ref : Nat, type : {"data", "control"}, active : SUBSET {"rx", "tx"},
             conn : Addrs \cup {Null, Reset}, handle : BOOLEAN]

\* A step keeps the types of sockets,
LEMMA SockTyped ==
  ASSUME SockInv, NEW t \in Threads, NEW q \in Seq(Frame), Step(t, q)
  PROVE  sock' \in [Socks -> SockType]
  <1>0. /\ StackType /\ TypeOK /\ Moves(t, q) /\ Doing(t) /\ Calm(t) /\ sock \in [Socks -> SockType]
    BY DEF SockInv, TypeOK, StackType, Step, SockType
  <1>1. CASE Op(t) \notin {"none", "put", "remove", "poll"}
    BY <1>0, <1>1 DEF Calm
  <1>2. CASE Op(t) = "put"
    <2>1. PICK s \in Socks : s = Top(t).s
      BY <1>0, <1>2, DoesPut
    <2>2. PutSock(t) /\ Goto(t, q) /\ q = IF sock[s].ref = 1 THEN <<Unblock(s, {"nval"}, Null)>> ELSE <<>>
      BY <1>0, <1>2, <2>1, DoesPut
    <2>3. IsFiniteSet(Frames({"put", "polltest"}, s)')
      <3>1. IsFiniteSet(Frames({"put", "polltest"}, s))
        BY <1>0, FramesFinite
      <3>2. \A k \in DOMAIN q : ~(q[k].op \in {"put", "polltest"} /\ q[k].s = s)
        BY <2>2 DEF Unblock
      <3>3. Frames({"put", "polltest"}, s)' = Frames({"put", "polltest"}, s) \ {<<t, Len(Below(t)) + 1>>}
        <4>1. StackType /\ Goto(t, q)
          BY <1>0, <2>2
        <4>2. QED
          BY <3>2, <4>1, FramesShrink
      <3>4. QED
        BY <3>1, <3>3, FS_Subset
    <2>4. Cardinality(Frames({"put", "polltest"}, s)') \in Nat
      BY <2>3, FS_CardinalityType
    <2>5. sock'[s].ref = Cardinality(Frames({"put", "polltest"}, s)') + Router(s)'
      BY RefKept
    <2>6. Router(s)' \in {0, 1}
      BY DEF Router
    <2>7. sock'[s].ref \in Nat
      BY <2>4, <2>5, <2>6
    <2> DEFINE rec == [sock[s] EXCEPT !.ref = sock[s].ref - 1, !.listed = sock[s].listed /\ ~(sock[s].ref = 1)]
    <2>8. sock' = [sock EXCEPT ![s] = rec]
      BY <2>1, <2>2 DEF PutSock
    <2>9. rec \in SockType
      <3>1. sock'[s].ref = sock[s].ref - 1
        BY <1>0, <2>8 DEF SockType
      <3>2. sock[s].ref - 1 \in Nat
        BY <2>7, <3>1
      <3>3. sock[s] \in SockType
        BY <1>0
      <3>4. QED
        BY <3>2, <3>3 DEF SockType
    <2> HIDE DEF rec
    <2>10. QED
      BY <1>0, <2>8, <2>9
  <1>3. CASE Op(t) = "remove"
    <2>1. RemoveEvent(t) /\ Top(t).s \in Socks
      BY <1>0, <1>3, DoesRemove
    <2>2. sock' = sock \/ sock' = [sock EXCEPT ![Top(t).s].conn = Reset]
      BY <2>1 DEF RemoveEvent
    <2>3. QED
      BY <1>0, <2>1, <2>2, SMTT(30) DEF SockType
  <1>4. ASSUME NEW s \in Socks PROVE Ref(s) \in SockType
    <2>1. sock[s] \in SockType
      BY <1>0
    <2>2. sock[s].ref + 1 \in Nat
      BY <2>1 DEF SockType
    <2>3. Ref(s) = [sock[s] EXCEPT !.ref = sock[s].ref + 1]
      BY DEF Ref
    <2>4. QED
      BY <2>1, <2>2, <2>3 DEF SockType
  <1>5. CASE Op(t) = "poll"
    <2>1. sock' = sock \/ \E s \in Socks : sock' = [sock EXCEPT ![s] = Ref(s)]
      BY <1>0, <1>5, DoesPoll
    <2>2. QED
      BY <1>0, <1>4, <2>1
  <1>6. CASE Op(t) = "none"
    <2>1. CASE \E r \in Socks : Open(t, r)
      <3>1. PICK r \in Socks : Open(t, r)
        BY <2>1
      <3>2. sock' = [sock EXCEPT ![r].listed = TRUE, ![r].ref = 1,
                          ![r].active = {"rx", "tx"}, ![r].handle = TRUE]
        BY <3>1 DEF Open
      <3> DEFINE rec == [sock[r] EXCEPT !.listed = TRUE, !.ref = 1, !.active = {"rx", "tx"}, !.handle = TRUE]
      <3>3. sock' = [sock EXCEPT ![r] = rec]
        BY <3>2
      <3>4. sock[r] \in SockType
        BY <1>0
      <3>5. rec \in SockType
        BY <3>4 DEF SockType
      <3> HIDE DEF rec
      <3>6. QED
        BY <1>0, <3>3, <3>5
    <2>2. CASE \E r \in Socks : Call(t, r) /\ ~Open(t, r)
      <3>1. PICK r \in Socks : Call(t, r) /\ ~Open(t, r)
        BY <2>2
      <3>2. sock'[r] \in SockType /\ sock' = [sock EXCEPT ![r] = sock'[r]]
        BY <1>0, <3>1, CallEffects DEF SockType
      <3>3. QED
        BY <1>0, <3>2
    <2>3. CASE /\ ~ \E r \in Socks : Open(t, r)
               /\ ~ \E r \in Socks : Call(t, r) /\ ~Open(t, r)
      <3>1. sock' = sock
        BY <1>0, <1>6, <2>3, BeginCases DEF BeginPoll, PeerConfirms, PeerGone, Arrive, sockets
      <3>2. QED
        BY <1>0, <3>1
    <2>4. QED
      BY <2>1, <2>2, <2>3
  <1>7. QED
    BY <1>1, <1>2, <1>3, <1>5, <1>6

\* of receive queues,
LEMMA RxqTyped ==
  ASSUME SockInv, NEW t \in Threads, NEW q \in Seq(Frame), Step(t, q)
  PROVE  rxq' \in [Socks -> Seq(Packet)]
  <1>0. /\ StackType /\ TypeOK /\ Shape /\ RxLocks /\ Moves(t, q) /\ Doing(t) /\ Calm(t) /\ rxq \in [Socks -> Seq(Packet)]
    BY DEF SockInv, TypeOK, StackType, Step
  <1>1. CASE Op(t) \notin {"put", "add", "flush", "readdone"}
    BY <1>0, <1>1 DEF Calm
  <1>2. CASE Op(t) = "put"
    <2>1. PutSock(t) /\ Top(t).s \in Socks
      BY <1>0, <1>2, DoesPut
    <2>2. rxq' = [rxq EXCEPT ![Top(t).s] = <<>>] \/ rxq' = rxq
      BY <2>1 DEF PutSock
    <2>3. <<>> \in Seq(Packet)
      OBVIOUS
    <2>4. QED
      BY <1>0, <2>1, <2>2, <2>3
  <1>3. CASE Op(t) = "add"
    <2>1. Enqueue(t) /\ Top(t).s \in Socks /\ Top(t).m \in Packet
      BY <1>0, <1>3, DoesAdd
    <2>2. rxq[Top(t).s] \in Seq(Packet)
      BY <1>0, <2>1
    <2>3. Append(rxq[Top(t).s], Top(t).m) \in Seq(Packet)
      BY <2>1, <2>2
    <2>4. rxq' = [rxq EXCEPT ![Top(t).s] = Append(rxq[Top(t).s], Top(t).m)]
      BY <2>1 DEF Enqueue
    <2>5. QED
      BY <1>0, <2>1, <2>3, <2>4
  <1>4. CASE Op(t) = "flush"
    <2>1. Flush(t) /\ Top(t).s \in Socks
      BY <1>0, <1>4, DoesFlush
    <2>2. QED
      BY <1>0, <2>1 DEF Flush
  <1>5. CASE Op(t) = "readdone"
    <2>1. ReadDone(t) /\ Top(t).s \in Socks /\ stack[t] # <<>> /\ Top(t).op = "readdone"
      BY <1>0, <1>5, TopOp, DoesReadDone
    <2>2. rxq[Top(t).s] # <<>> /\ rxq[Top(t).s] \in Seq(Packet)
      <3>1. Reads(t, Top(t).s)
        BY <1>0, <2>1, ReadTop
      <3>2. rxLock[Top(t).s] = t
        BY <1>0, <2>1, <3>1 DEF RxLocks
      <3>3. t # Null
        BY SocketAssumption
      <3>4. QED
        BY <1>0, <2>1, <3>2, <3>3 DEF RxLocks
    <2>3. Tail(rxq[Top(t).s]) \in Seq(Packet)
      BY <2>2
    <2>4. rxq' = [rxq EXCEPT ![Top(t).s] = Tail(rxq[Top(t).s])]
      BY <2>1 DEF ReadDone
    <2>5. QED
      BY <1>0, <2>1, <2>3, <2>4
  <1>6. QED
    BY <1>1, <1>2, <1>3, <1>4, <1>5

\* of waiters and their signals,
LEMMA WaitTyped ==
  ASSUME SockInv, NEW t \in Threads, NEW q \in Seq(Frame), Step(t, q)
  PROVE  /\ waiter' \in [Threads -> Entries \cup {Null}]
         /\ signal' \in [Threads -> BOOLEAN]
         /\ waitLock' \in Threads \cup {Null}
  <1>0. /\ StackType /\ TypeOK /\ Shape /\ Waiters /\ Moves(t, q) /\ Doing(t) /\ Calm(t)
        /\ waiter \in [Threads -> Entries \cup {Null}] /\ signal \in [Threads -> BOOLEAN]
        /\ waitLock \in Threads \cup {Null}
    BY DEF SockInv, TypeOK, StackType, Step
  <1>1. ASSUME NEW f, NEW ev, NEW a, Wait(t, f, ev, a), [f |-> f, ev |-> ev, a |-> a] \in Entries
        PROVE  waiter' \in [Threads -> Entries \cup {Null}] /\ signal' \in [Threads -> BOOLEAN]
    <2>1. /\ waiter' = [waiter EXCEPT ![t] = [f |-> f, ev |-> ev, a |-> a]]
          /\ signal' = [signal EXCEPT ![t] = FALSE]
      BY <1>1 DEF Wait
    <2> DEFINE e == [f |-> f, ev |-> ev, a |-> a]
    <2>2. e \in Entries \cup {Null}
      BY <1>1
    <2>3. waiter' = [waiter EXCEPT ![t] = e]
      BY <2>1
    <2> HIDE DEF e
    <2>4. QED
      BY <1>0, <2>1, <2>2, <2>3
  <1>2. ASSUME Wake(t) PROVE signal' \in [Threads -> BOOLEAN]
    BY <1>0, <1>2 DEF Wake
  <1>3. CASE Op(t) \notin {"none", "unblock", "unwait", "recvwaiter", "recvwait", "sendwaiter", "sendwait", "poll",
                           "pollwait", "pollend"}
    BY <1>0, <1>3 DEF Calm
  <1>4. CASE Op(t) = "unblock"
    <2>1. waiter' = waiter /\ waitLock' = waitLock
      BY <1>0, <1>4 DEF Calm
    <2>2. UnblockEvent(t)
      BY <1>0, <1>4, DoesUnblock
    <2>3. signal' = [u \in Threads |-> signal[u] \/ u \in Matches(Top(t).s, Top(t).ev, Top(t).a)]
      BY <2>2 DEF UnblockEvent
    <2>4. \A u \in Threads : (signal[u] \/ u \in Matches(Top(t).s, Top(t).ev, Top(t).a)) \in BOOLEAN
      BY <1>0
    <2>5. QED
      BY <1>0, <2>1, <2>3, <2>4
  <1>5. CASE Op(t) \in {"unwait", "pollend"}
    <2>1. Unwait(t) \/ PollEnd(t)
      BY <1>0, <1>5 DEF Doing
    <2>2. waiter' = [waiter EXCEPT ![t] = Null] /\ signal' = [signal EXCEPT ![t] = FALSE]
          /\ (waitLock' = waitLock \/ waitLock' = Null)
      BY <2>1 DEF Unwait, PollEnd, locks
    <2>3. QED
      BY <1>0, <2>2
  <1>6. CASE Op(t) = "recvwaiter"
    <2>1. RecvWaiter(t) /\ Top(t).s \in Socks /\ waitLock' = waitLock
      BY <1>0, <1>6, DoesRecvWaiter DEF Calm
    <2>2. [f |-> {Top(t).s}, ev |-> {"in"}, a |-> Null] \in Entries
      BY <2>1 DEF Entries
    <2>3. Wait(t, {Top(t).s}, {"in"}, Null)
      BY <2>1 DEF RecvWaiter
    <2>4. QED
      BY <1>0, <1>1, <2>1, <2>2, <2>3
  <1>7. CASE Op(t) = "sendwaiter"
    <2>1. SendWaiter(t) /\ Top(t).s \in Socks /\ Top(t).a \in Addrs /\ waitLock' = waitLock
      BY <1>0, <1>7, DoesSendWaiter DEF Calm
    <2>2. [f |-> {Top(t).s}, ev |-> {"out"}, a |-> Top(t).a] \in Entries
      BY <2>1 DEF Entries
    <2>3. Wait(t, {Top(t).s}, {"out"}, Top(t).a)
      BY <2>1 DEF SendWaiter
    <2>4. QED
      BY <1>0, <1>1, <2>1, <2>2, <2>3
  <1>8. CASE Op(t) = "recvwait"
    <2>1. RecvWake(t) /\ waiter' = waiter /\ waitLock' = waitLock
      BY <1>0, <1>8, DoesRecvWait DEF Calm
    <2>2. QED
      BY <1>0, <1>2, <2>1 DEF RecvWake
  <1>9. CASE Op(t) = "sendwait"
    <2>1. SendWake(t) \/ SendTimeOut(t)
      BY <1>0, <1>9, DoesSendWait
    <2>2. waiter' = waiter /\ waitLock' = waitLock /\ (Wake(t) \/ signal' = signal)
      BY <1>0, <1>9, <2>1 DEF Calm, SendWake, SendTimeOut, waiting
    <2>3. QED
      BY <1>0, <1>2, <2>2
  <1>10. CASE Op(t) = "poll"
    <2>1. waiter' = waiter /\ signal' = signal
      BY <1>0, <1>10 DEF Calm
    <2>2. waitLock' = waitLock \/ waitLock' = Null
      BY <1>0, <1>10, DoesPoll
    <2>3. QED
      BY <1>0, <2>1, <2>2
  <1>11. CASE Op(t) = "pollwait"
    <2>1. (PollWake(t) \/ PollTimeOut(t)) /\ waitLock' = t
      BY <1>0, <1>11, DoesPollWait
    <2>2. waiter' = waiter /\ (Wake(t) \/ signal' = signal)
      BY <2>1 DEF PollWake, PollTimeOut, waiting
    <2>3. QED
      BY <1>0, <1>2, <2>1, <2>2
  <1>12. CASE Op(t) = "none"
    <2>1. CASE \E f \in SUBSET Socks, ev \in SUBSET {"in", "out"} : BeginPoll(t, f, ev)
      <3>1. PICK f \in SUBSET Socks, ev \in SUBSET {"in", "out"} : BeginPoll(t, f, ev)
        BY <2>1
      <3>2. [f |-> f, ev |-> ev, a |-> Null] \in Entries
        BY DEF Entries
      <3>3. Wait(t, f, ev, Null) /\ waitLock' = t
        BY <3>1 DEF BeginPoll
      <3>4. QED
        BY <1>1, <3>2, <3>3
    <2>2. CASE ~ \E f \in SUBSET Socks, ev \in SUBSET {"in", "out"} : BeginPoll(t, f, ev)
      <3>1. waiter' = waiter /\ signal' = signal /\ waitLock' = waitLock
        <4>1. CASE \E r \in Socks : Call(t, r) /\ ~Open(t, r)
          <5>1. PICK r \in Socks : Call(t, r) /\ ~Open(t, r)
            BY <4>1
          <5>2. UNCHANGED <<app, rxq, waiting, locks, router, told>>
            BY <1>0, <5>1, CallEffects
          <5>3. QED
            BY <5>2 DEF waiting, locks
        <4>2. CASE ~ \E r \in Socks : Call(t, r) /\ ~Open(t, r)
          BY <1>0, <1>12, <2>2, <4>2, BeginCases DEF Open, PeerConfirms, PeerGone, Arrive, waiting, locks
        <4>3. QED
          BY <4>1, <4>2
      <3>2. QED
        BY <1>0, <3>1
    <2>3. QED
      BY <2>1, <2>2
  <1>13. QED
    BY <1>3, <1>4, <1>5, <1>6, <1>7, <1>8, <1>9, <1>10, <1>11, <1>12

\* of what flow control keeps,
LEMMA FlowTyped ==
  ASSUME SockInv, NEW t \in Threads, NEW q \in Seq(Frame), Step(t, q)
  PROVE  /\ bucket' \in [Addrs -> 0..Quota] /\ queue' \in [Addrs -> Seq(Socks)]
         /\ asked' \in [Peers -> BOOLEAN] /\ told' \in [Socks -> SUBSET Addrs]
         /\ gone' \subseteq Peers
  <1>0. /\ StackType /\ TypeOK /\ Moves(t, q) /\ Doing(t) /\ Calm(t) /\ Quota \in Nat \ {0}
        /\ bucket \in [Addrs -> 0..Quota] /\ queue \in [Addrs -> Seq(Socks)]
        /\ asked \in [Peers -> BOOLEAN] /\ told \in [Socks -> SUBSET Addrs] /\ gone \subseteq Peers
    BY SocketAssumption DEF SockInv, TypeOK, StackType, Step
  <1>1. ASSUME NEW a \in Addrs, Resume(a)
        PROVE  bucket' \in [Addrs -> 0..Quota] /\ queue' \in [Addrs -> Seq(Socks)]
    <2>1. 0 \in 0..Quota /\ <<>> \in Seq(Socks)
      BY <1>0
    <2>2. QED
      BY <1>0, <1>1, <2>1 DEF Resume
  <1>2. CASE Op(t) \notin {"none", "resumetx", "cleanup", "send", "trysend", "readdone"}
    BY <1>0, <1>2 DEF Calm
  <1>3. CASE Op(t) = "readdone"
    <2>1. ReadDone(t) /\ Top(t).s \in Socks
      BY <1>0, <1>3, DoesReadDone
    <2>2. bucket' = bucket /\ queue' = queue /\ asked' = asked /\ gone' = gone
      BY <1>0, <1>3 DEF Calm
    <2>3. told' = told \/ \E x : told' = [told EXCEPT ![Top(t).s] = @ \ {x}]
      BY <2>1 DEF ReadDone
    <2>4. QED
      BY <1>0, <2>1, <2>2, <2>3
  <1>4. CASE Op(t) \in {"resumetx", "cleanup"}
    <2>1. PICK s \in Socks : s = Top(t).s
      BY <1>0, <1>4, DoesResumeTx, DoesCleanup
    <2>2. Resume(s) /\ s \in Addrs
      BY <1>0, <1>4, <2>1, AddrTypes DEF Doing, ResumeTx
    <2>3. asked' = asked /\ gone' = gone /\ told' = told
      BY <1>0, <1>4 DEF Calm
    <2>4. QED
      BY <1>0, <1>1, <2>2, <2>3
  <1>5. CASE Op(t) \in {"send", "trysend"}
    <2> DEFINE s == Top(t).s
               a == Top(t).a
    <2>1. /\ s \in Socks /\ a \in Addrs /\ gone' = gone
          /\ \/ UNCHANGED <<bucket, queue, asked, told>>
             \/ /\ TokenLeft(a) /\ queue' = queue /\ bucket' = [bucket EXCEPT ![a] = @ + 1]
                /\ asked' = IF a \in Peers THEN [asked EXCEPT ![a] = @ \/ (bucket[a] + 1 = Quota)] ELSE asked
                /\ told' = [told EXCEPT ![s] = @ \ {a}]
             \/ /\ Busy(s, a) /\ bucket' = bucket /\ asked' = asked
                /\ told' = told \/ told' = [told EXCEPT ![s] = @ \cup {a}]
      BY <1>0, <1>5, DoesSend DEF Calm
    <2> HIDE DEF s, a
    <2>2. CASE UNCHANGED <<bucket, queue, asked, told>>
      BY <1>0, <2>1, <2>2
    <2>3. CASE /\ TokenLeft(a) /\ queue' = queue /\ bucket' = [bucket EXCEPT ![a] = @ + 1]
               /\ asked' = IF a \in Peers THEN [asked EXCEPT ![a] = @ \/ (bucket[a] + 1 = Quota)] ELSE asked
               /\ told' = [told EXCEPT ![s] = @ \ {a}]
      <3>1. bucket[a] + 1 \in 0..Quota
        BY <1>0, <2>1, <2>3 DEF TokenLeft
      <3>2. bucket' \in [Addrs -> 0..Quota]
        BY <1>0, <2>1, <2>3, <3>1
      <3>3. asked' \in [Peers -> BOOLEAN]
        BY <1>0, <2>3
      <3>4. told' \in [Socks -> SUBSET Addrs]
        BY <1>0, <2>3
      <3>5. QED
        BY <1>0, <2>1, <2>3, <3>2, <3>3, <3>4
    <2>4. CASE /\ Busy(s, a) /\ bucket' = bucket /\ asked' = asked
               /\ told' = told \/ told' = [told EXCEPT ![s] = @ \cup {a}]
      <3>1. queue[a] \in Seq(Socks)
        BY <1>0, <2>1
      <3>2. Append(queue[a], s) \in Seq(Socks)
        BY <2>1, <3>1
      <3>3. queue' = queue \/ queue' = [queue EXCEPT ![a] = queue[a]] \/ queue' = [queue EXCEPT ![a] = Append(queue[a], s)]
        BY <2>4 DEF Busy
      <3>4. queue' \in [Addrs -> Seq(Socks)]
        BY <1>0, <2>1, <3>1, <3>2, <3>3
      <3>5. told' \in [Socks -> SUBSET Addrs]
        <4>1. told[s] \cup {a} \in SUBSET Addrs
          BY <1>0, <2>1
        <4>2. told' = told \/ told' = [told EXCEPT ![s] = told[s] \cup {a}]
          BY <2>4
        <4>3. QED
          BY <1>0, <2>1, <4>1, <4>2
      <3>6. QED
        BY <1>0, <2>1, <2>4, <3>4, <3>5
    <2>5. QED
      BY <2>1, <2>2, <2>3, <2>4
  <1>6. CASE Op(t) = "none"
    <2>1. CASE \E r \in Socks : Call(t, r)
      <3>1. bucket' = bucket /\ queue' = queue /\ asked' = asked /\ gone' = gone /\ told' = told
        <4>1. PICK r \in Socks : Call(t, r)
          BY <2>1
        <4>2. CASE Open(t, r)
          BY <4>2 DEF Open, flow
        <4>3. CASE ~Open(t, r)
          <5>1. UNCHANGED <<app, rxq, waiting, locks, router, told>>
            BY <1>0, <4>1, <4>3, CallEffects
          <5>2. QED
            BY <5>1 DEF router, flow
        <4>4. QED
          BY <4>2, <4>3
      <3>2. QED
        BY <1>0, <3>1
    <2>2. CASE \E p \in Peers : PeerConfirms(p) \/ PeerGone(p)
      <3>1. PICK p \in Peers : PeerConfirms(p) \/ PeerGone(p)
        BY <2>2
      <3>2. /\ Resume(p) /\ told' = told /\ p \in Addrs
            /\ asked' = [asked EXCEPT ![p] = FALSE] /\ (gone' = gone \/ gone' = gone \cup {p})
        BY <3>1, AddrTypes DEF PeerConfirms, PeerGone
      <3>3. QED
        BY <1>0, <1>1, <3>2
    <2>3. CASE ~(\E r \in Socks : Call(t, r)) /\ ~(\E p \in Peers : PeerConfirms(p) \/ PeerGone(p))
      <3>1. bucket' = bucket /\ queue' = queue /\ asked' = asked /\ gone' = gone /\ told' = told
        BY <1>0, <1>6, <2>3 DEF Doing, Begin, BeginPoll, Arrive, router, flow
      <3>2. QED
        BY <1>0, <3>1
    <2>4. QED
      BY <2>1, <2>2, <2>3
  <1>7. QED
    BY <1>2, <1>3, <1>4, <1>5, <1>6

\* and of what the router keeps.
LEMMA RouterTyped ==
  ASSUME SockInv, NEW t \in Threads, NEW q \in Seq(Frame), Step(t, q)
  PROVE  /\ rxLock' \in [Socks -> Threads \cup {Null}]
         /\ port' \in [Socks -> {"none", "open", "removed", "freed"}]
         /\ sent' \in [Socks -> [Peers -> 0..Quota]]
  <1>0. /\ StackType /\ TypeOK /\ Moves(t, q) /\ Doing(t) /\ Calm(t) /\ Quota \in Nat \ {0}
        /\ rxLock \in [Socks -> Threads \cup {Null}]
        /\ port \in [Socks -> {"none", "open", "removed", "freed"}]
        /\ sent \in [Socks -> [Peers -> 0..Quota]]
    BY SocketAssumption DEF SockInv, TypeOK, StackType, Step
  <1>1. rxLock' \in [Socks -> Threads \cup {Null}]
    <2>1. CASE Op(t) \notin {"read", "readdone"}
      BY <1>0, <2>1 DEF Calm
    <2>2. CASE Op(t) = "read"
      <3>1. rxLock' = rxLock \/ \E s \in Socks : rxLock' = [rxLock EXCEPT ![s] = t]
        BY <1>0, <2>2, DoesRead
      <3>2. QED
        BY <1>0, <3>1
    <2>3. CASE Op(t) = "readdone"
      <3>1. ReadDone(t)
        BY <1>0, <2>3, DoesReadDone
      <3>2. \E s : rxLock' = [rxLock EXCEPT ![s] = Null]
        BY <3>1 DEF ReadDone
      <3>3. QED
        BY <1>0, <3>2
    <2>4. QED
      BY <2>1, <2>2, <2>3
  <1>2. port' \in [Socks -> {"none", "open", "removed", "freed"}]
    <2>1. CASE Op(t) \notin {"none", "closed", "coreclose"}
      BY <1>0, <2>1 DEF Calm
    <2>2. CASE Op(t) \in {"closed", "coreclose"}
      BY <1>0, <2>2 DEF Doing, Closed, CoreClose
    <2>3. CASE Op(t) = "none"
      <3>1. CASE \E r \in Socks : Open(t, r)
        BY <1>0, <3>1 DEF Open
      <3>2. CASE ~ \E r \in Socks : Open(t, r)
        <4>1. CASE \E r \in Socks : Call(t, r) /\ ~Open(t, r)
          <5>1. PICK r \in Socks : Call(t, r) /\ ~Open(t, r)
            BY <4>1
          <5>2. UNCHANGED <<app, rxq, waiting, locks, router, told>>
            BY <1>0, <5>1, CallEffects
          <5>3. QED
            BY <1>0, <5>2 DEF router
        <4>2. CASE ~ \E r \in Socks : Call(t, r) /\ ~Open(t, r)
          <5>1. port' = port
            BY <1>0, <2>3, <3>2, <4>2, BeginCases DEF BeginPoll, PeerConfirms, PeerGone, Arrive, router
          <5>2. QED
            BY <1>0, <5>1
        <4>3. QED
          BY <4>1, <4>2
      <3>3. QED
        BY <3>1, <3>2
    <2>4. QED
      BY <2>1, <2>2, <2>3
  <1>3. sent' \in [Socks -> [Peers -> 0..Quota]]
    <2>0. 0 \in 0..Quota
      BY <1>0
    <2>1. CASE Op(t) \notin {"none", "confirm", "coreclose"}
      BY <1>0, <2>1 DEF Calm
    <2>2. CASE Op(t) = "confirm"
      <3>1. sent' = sent \/ \E s \in Socks, a \in Peers : sent' = [sent EXCEPT ![s][a] = 0]
        BY <1>0, <2>2, DoesConfirm DEF Confirm
      <3>2. ASSUME NEW s \in Socks, NEW a \in Peers, sent' = [sent EXCEPT ![s][a] = 0]
            PROVE  sent' \in [Socks -> [Peers -> 0..Quota]]
        <4>1. [sent[s] EXCEPT ![a] = 0] \in [Peers -> 0..Quota]
          BY <1>0, <2>0
        <4>2. sent' = [sent EXCEPT ![s] = [sent[s] EXCEPT ![a] = 0]]
          BY <3>2
        <4>3. QED
          BY <1>0, <4>1, <4>2
      <3>3. QED
        BY <1>0, <3>1, <3>2
    <2>3. CASE Op(t) = "coreclose"
      <3>1. \E s : sent' = [sent EXCEPT ![s] = [p \in Peers |-> 0]]
        BY <1>0, <2>3 DEF Doing, CoreClose
      <3>2. [p \in Peers |-> 0] \in [Peers -> 0..Quota]
        BY <2>0
      <3>3. QED
        BY <1>0, <3>1, <3>2
    <2>4. CASE Op(t) = "none"
      <3>1. CASE \E p \in Peers, s \in Socks : Arrive(p, s)
        <4>1. PICK p \in Peers, s \in Socks : Arrive(p, s)
          BY <3>1
        <4>2. sent[s][p] + 1 \in 0..Quota
          BY <1>0, <4>1 DEF Arrive
        <4>3. sent' = [sent EXCEPT ![s][p] = sent[s][p] + 1]
          BY <4>1 DEF Arrive
        <4>4. QED
          BY <1>0, <4>2, <4>3
      <3>2. CASE ~ \E p \in Peers, s \in Socks : Arrive(p, s)
        <4>1. CASE \E r \in Socks : Call(t, r) /\ ~Open(t, r)
          <5>1. PICK r \in Socks : Call(t, r) /\ ~Open(t, r)
            BY <4>1
          <5>2. UNCHANGED <<app, rxq, waiting, locks, router, told>>
            BY <1>0, <5>1, CallEffects
          <5>3. QED
            BY <1>0, <5>2 DEF router, flow
        <4>2. CASE ~ \E r \in Socks : Call(t, r) /\ ~Open(t, r)
          <5>1. sent' = sent
            BY <1>0, <2>4, <3>2, <4>2, BeginCases DEF Open, BeginPoll, PeerConfirms, PeerGone, router, flow
          <5>2. QED
            BY <1>0, <5>1
        <4>3. QED
          BY <4>1, <4>2
      <3>3. QED
        BY <3>1, <3>2
    <2>5. QED
      BY <2>1, <2>2, <2>3, <2>4
  <1>4. QED
    BY <1>1, <1>2, <1>3

\* A step keeps all types.
LEMMA TypeStep ==
  ASSUME SockInv, NEW t \in Threads, NEW q \in Seq(Frame), Step(t, q)
  PROVE  TypeOK'
  <1>1. StackType /\ Moves(t, q) /\ Goto(t, q) /\ Calm(t) /\ app \in Apps
    BY DEF SockInv, TypeOK, StackType, Step, Moves
  <1>2. StackType'
    BY <1>1, GotoType
  <1>3. app' \in Apps /\ stack' \in [Threads -> Seq(Frame)]
    BY <1>1, <1>2 DEF Calm, StackType
  <1>4. sock' \in [Socks -> SockType] /\ rxq' \in [Socks -> Seq(Packet)]
    BY SockTyped, RxqTyped
  <1>5. QED
    BY <1>3, <1>4, WaitTyped, FlowTyped, RouterTyped DEF TypeOK, SockType

\* The invariant of sockets holds at the start,
LEMMA SockInvInit == Init => SockInv
  <1> SUFFICES ASSUME Init PROVE SockInv
    OBVIOUS
  <1>1. \A t \in Threads : stack[t] = <<>> /\ DOMAIN stack[t] = {}
    BY DEF Init
  <1>2. \A ops, s : Frames(ops, s) = {}
    <2>1. ASSUME NEW ops, NEW s, NEW p \in Frames(ops, s) PROVE FALSE
      <3>1. \E u \in Threads : \E i \in DOMAIN stack[u] : p = <<u, i>>
        BY <2>1, FramesIn
      <3>2. QED
        BY <1>1, <3>1
    <2>2. QED
      BY <2>1
  <1>3. TypeOK
    <2>1. <<>> \in Seq(Packet) /\ <<>> \in Seq(Socks) /\ <<>> \in Seq(Frame) /\ 0 \in 0..Quota /\ 0 \in Nat
      BY SocketAssumption
    <2>2. Null \in Threads \cup {Null} /\ Null \in Entries \cup {Null}
      OBVIOUS
    <2>3. sock \in [Socks -> SockType]
      BY <2>1 DEF Init, SockType
    <2>4. sent \in [Socks -> [Peers -> 0..Quota]]
      <3>1. [p \in Peers |-> 0] \in [Peers -> 0..Quota]
        BY <2>1
      <3>2. QED
        BY <3>1 DEF Init
    <2>5. rxq \in [Socks -> Seq(Packet)] /\ queue \in [Addrs -> Seq(Socks)] /\ stack \in [Threads -> Seq(Frame)]
      BY <2>1 DEF Init
    <2>6. QED
      BY <2>1, <2>3, <2>4, <2>5 DEF Init, TypeOK, SockType
  <1>4. Shape /\ Waiters
    BY <1>1 DEF Shape, Waiters
  <1>5. RxLocks
    <2>1. \A s \in Socks : rxLock[s] = Null
      BY DEF Init
    <2>2. \A t \in Threads, s \in Socks : ~Reads(t, s)
      BY <1>1 DEF Reads
    <2>3. QED
      BY <2>1, <2>2, AddrTypes DEF RxLocks
  <1>6. WaitLocks
    <2>1. \A t \in Threads : ~InPoll(t)
      BY <1>1 DEF InPoll
    <2>2. QED
      BY <2>1, AddrTypes DEF WaitLocks, Init
  <1>7. Ports
    BY <1>2 DEF Ports, PortOk, AtMostOne, Init
  <1>8. Refs
    <2>1. ASSUME NEW s \in Socks
          PROVE  Cardinality(Frames({"put", "polltest"}, s)) = 0 /\ Router(s) = 0
      BY <1>2, FS_EmptySet DEF Router, Init
    <2>2. \A s \in Socks : sock[s].ref = 0 /\ ~sock[s].listed /\ rxq[s] = <<>>
      BY DEF Init
    <2>3. QED
      BY <2>1, <2>2 DEF Refs
  <1>9. QED
    BY <1>3, <1>4, <1>5, <1>6, <1>7, <1>8 DEF SockInv

\* and every step keeps it.
LEMMA SockInvNext == SockInv /\ [Next]_vars => SockInv'
  <1> SUFFICES ASSUME SockInv, [Next]_vars PROVE SockInv'
    OBVIOUS
  <1>0. TypeOK /\ StackType /\ queue \in [Addrs -> Seq(Socks)] /\ Shape /\ Waiters
    BY DEF SockInv, TypeOK, StackType
  <1>1. CASE Next
    <2>1. Polling
      BY <1>0 DEF Polling, Waiters, Entry
    <2>2. PICK t \in Threads : \E q \in Seq(Frame) : Step(t, q)
      BY <1>0, <1>1, <2>1, NextSteps
    <2>3. PICK q \in Seq(Frame) : Step(t, q)
      BY <2>2
    <2>4. TypeOK' /\ RxLocks' /\ WaitLocks' /\ Waiters' /\ Ports' /\ Refs'
      BY <2>3, TypeStep, RxLocksStep, WaitLocksStep, WaitersStep, PortsStep, RefsStep DEF SockInv
    <2>5. Shape'
      BY <1>0, <2>3, ShapeStep DEF Step
    <2>6. QED
      BY <2>4, <2>5 DEF SockInv
  <1>2. CASE UNCHANGED vars
    <2>1. /\ app' = app /\ sock' = sock /\ rxq' = rxq /\ waiter' = waiter /\ signal' = signal /\ waitLock' = waitLock
          /\ rxLock' = rxLock /\ port' = port /\ gone' = gone /\ bucket' = bucket /\ queue' = queue /\ asked' = asked
          /\ sent' = sent /\ stack' = stack /\ told' = told
      BY <1>2 DEF vars, sockets, waiting, locks, router, flow
    <2>2. TypeOK'
      BY <1>0, <2>1 DEF TypeOK
    <2>3. Shape'
      BY <1>0, <2>1 DEF Shape, OkAt, Backed
    <2>4. RxLocks'
      BY <2>1 DEF SockInv, RxLocks, Reads
    <2>5. WaitLocks' /\ Waiters'
      BY <2>1 DEF SockInv, WaitLocks, InPoll, Waiters, Entry
    <2>6. \A ops, s : Frames(ops, s)' = Frames(ops, s)
      BY <2>1 DEF Frames, Places
    <2>7. Ports'
      BY <2>1, <2>6 DEF SockInv, Ports, PortOk, AtMostOne
    <2>8. Refs'
      BY <2>1, <2>6 DEF SockInv, Refs, Router
    <2>9. QED
      BY <2>2, <2>3, <2>4, <2>5, <2>7, <2>8 DEF SockInv
  <1>3. QED
    BY <1>1, <1>2

\* The invariant that all the rest is built on: the variables keep their
\* types, frames stand where the calls of the code put them, the locks belong
\* to the threads whose frames say so, and every reference has its owner.
THEOREM SockInvariant == Spec => []SockInv
  BY SockInvInit, SockInvNext, PTL DEF Spec

\* The variables of the sockets keep their types, whatever the application
\* does: the count of references is never negative, and a reader never finds
\* the queue empty that it was to take a packet from.
THEOREM TypeCorrect == Spec => []TypeOK
  <1>1. SockInv => TypeOK
    BY DEF SockInv
  <1>2. QED
    BY <1>1, SockInvariant, PTL

\* What works on a socket has a reference of it.
LEMMA FrameAlive ==
  ASSUME SockInv, NEW s \in Socks, NEW t \in Threads, NEW i \in DOMAIN stack[t], stack[t][i].s = s,
         stack[t][i].op \in {"rx", "add", "resume", "remove", "flush", "confirm", "read", "readdone",
                             "closed", "coreclose"}
  PROVE  sock[s].listed
  <1>0. StackType /\ Shape /\ PortOk(s) /\ sock[s].ref \in Nat
    BY DEF SockInv, TypeOK, StackType, Ports
  <1>1. OkAt(stack[t], i)
    BY <1>0 DEF Shape
  <1>2. CASE stack[t][i].op \in {"rx", "add", "resume", "remove", "flush", "confirm"}
    <2>1. Backed(stack[t], i)
      BY <1>1, <1>2 DEF OkAt
    <2>2. QED
      BY <2>1, BackedAlive
  <1>3. CASE stack[t][i].op \in {"read", "readdone", "coreclose"}
    <2>1. i = 2 /\ stack[t][1] = Put(s)
      BY <1>1, <1>3 DEF OkAt
    <2>2. 1 \in DOMAIN stack[t]
      BY <1>0, <2>1 DEF StackType
    <2>3. QED
      BY <2>1, <2>2, Alive DEF Present
  <1>4. CASE stack[t][i].op = "closed"
    <2>1. <<t, i>> \in Frames({"cleanup", "closed"}, s)
      BY <1>4, FramesIn
    <2>2. Router(s) = 1
      BY <1>0, <2>1 DEF PortOk, Router
    <2>3. Cardinality(Frames({"put", "polltest"}, s)) \in Nat
      BY <1>0, FramesFinite, FS_CardinalityType
    <2>4. sock[s].ref = Cardinality(Frames({"put", "polltest"}, s)) + Router(s) /\ (sock[s].listed <=> sock[s].ref > 0)
      BY DEF SockInv, Refs
    <2>5. QED
      BY <2>2, <2>3, <2>4
  <1>5. QED
    BY <1>2, <1>3, <1>4

\* A socket has a reference for the router until CLOSED was delivered, and one
\* for every call inside; it is freed with the last of them, when no callback
\* names it any more and nobody reads from it.
THEOREM RefsExact == Spec => []SockRefsExact
  <1>1. SockInv => SockRefsExact
    <2> SUFFICES ASSUME SockInv, NEW s \in Socks
                 PROVE  /\ sock[s].ref = Cardinality(Frames({"put", "polltest"}, s))
                                           + (IF port[s] \in {"open", "removed"} THEN 1 ELSE 0)
                        /\ sock[s].listed <=> sock[s].ref > 0
                        /\ ~sock[s].listed =>
                             Frames({"rx", "add", "resume", "remove", "flush", "confirm", "read", "readdone",
                                     "closed", "coreclose"}, s) = {} /\ rxq[s] = <<>> /\ rxLock[s] = Null
      BY DEF SockRefsExact
    <2>1. /\ sock[s].ref = Cardinality(Frames({"put", "polltest"}, s))
                             + (IF port[s] \in {"open", "removed"} THEN 1 ELSE 0)
          /\ sock[s].listed <=> sock[s].ref > 0
          /\ ~sock[s].listed => rxq[s] = <<>>
      BY DEF SockInv, Refs, Router
    <2>2. ASSUME ~sock[s].listed, NEW p \in Frames({"rx", "add", "resume", "remove", "flush", "confirm", "read",
                                                    "readdone", "closed", "coreclose"}, s)
          PROVE  FALSE
      <3>1. PICK u \in Threads : \E i \in DOMAIN stack[u] : p = <<u, i>>
        BY <2>2, FramesIn
      <3>2. PICK i \in DOMAIN stack[u] : p = <<u, i>>
        BY <3>1
      <3>3. /\ stack[u][i].s = s
            /\ stack[u][i].op \in {"rx", "add", "resume", "remove", "flush", "confirm", "read", "readdone",
                                   "closed", "coreclose"}
        BY <2>2, <3>2, FramesIn
      <3>4. QED
        BY <2>2, <3>3, FrameAlive
    <2>3. rxq[s] = <<>> => rxLock[s] = Null
      BY DEF SockInv, RxLocks
    <2>4. QED
      BY <2>1, <2>2, <2>3
  <1>2. QED
    BY <1>1, SockInvariant, PTL
=============================================================================
