----------------------------- MODULE NamingProofs -----------------------------
(***************************************************************************)
(* Theorems about Naming, for any network of routers, any servers and any  *)
(* number of operations, restarts and overlaps.  First the types.  Then:   *)
(* no router learns of a server of its own from another, in any network    *)
(* without a cycle, however often transports fall and routers restart and  *)
(* whatever overlaps: what is known, what is under way and what is about   *)
(* to be told of a server stays on the far side of every transport it is   *)
(* known from.  Last: in a network that is a tree, every router knows      *)
(* every registered server once all is quiet, although tables are listed,  *)
(* written, withdrawn and cleared by several threads at once.              *)
(***************************************************************************)
EXTENDS Naming, FiniteSetTheorems, SequenceTheorems, TLAPS

(***************************************************************************)
(* Sequences                                                               *)
(***************************************************************************)

\* A sequence with a length other than 0 is not empty.
LEMMA NotEmpty ==
  ASSUME NEW S, NEW q \in Seq(S), Len(q) # 0
  PROVE  q # <<>>
  OBVIOUS

\* The parts of a sequence that is not empty, and the last element of its tail
LEMMA HeadTail ==
  ASSUME NEW S, NEW q \in Seq(S), q # <<>>
  PROVE  /\ Head(q) \in S /\ Tail(q) \in Seq(S)
         /\ Len(q) \in Nat \ {0} /\ Len(Tail(q)) = Len(q) - 1
         /\ Len(q) > 1 => Tail(q) # <<>> /\ Last(Tail(q)) = Last(q)
         /\ Len(q) = 1 => Last(q) = Head(q)
  <1>1. Head(q) \in S /\ Tail(q) \in Seq(S)
    OBVIOUS
  <1>2. Len(q) \in Nat \ {0} /\ Len(Tail(q)) = Len(q) - 1
    OBVIOUS
  <1>3. ASSUME Len(q) > 1 PROVE Tail(q) # <<>> /\ Last(Tail(q)) = Last(q)
    <2>1. Tail(q)[Len(q) - 1] = q[Len(q)]
      BY <1>2, <1>3
    <2>2. Last(Tail(q)) = Last(q)
      BY <1>2, <2>1 DEF Last
    <2>3. Len(Tail(q)) # 0
      BY <1>2, <1>3, SMTT(30)
    <2>4. Tail(q) # <<>>
      BY <1>1, <2>3, NotEmpty, Zenon
    <2> QED BY <2>2, <2>4
  <1>4. ASSUME Len(q) = 1 PROVE Last(q) = Head(q)
    BY <1>4 DEF Last
  <1> QED
    BY <1>1, <1>2, <1>3, <1>4

\* Sequences over a set joined are one over it, with the last element of the second.
LEMMA Joined ==
  ASSUME NEW S, NEW p \in Seq(S), NEW q \in Seq(S)
  PROVE  /\ p \o q \in Seq(S)
         /\ q # <<>> => p \o q # <<>> /\ Last(p \o q) = Last(q)
  BY DEF Last

\* SetToSeq lists a finite set.
LEMMA SetListed ==
  ASSUME NEW S, IsFiniteSet(S)
  PROVE  SetToSeq(S) \in Seq(S)
  <1>1. Cardinality(S) \in Nat
    BY FS_CardinalityType
  <1>2. PICK f : f \in Bijection(1..Cardinality(S), S)
    BY FS_CardinalityType DEF ExistsBijection
  <1>3. f \in [1..Cardinality(S) -> S] /\ IsInjective(f)
    BY <1>2 DEF Bijection, Injection, IsInjective
  <1>4. SetToSeq(S) \in [1..Cardinality(S) -> S]
    BY <1>3 DEF SetToSeq
  <1> QED
    BY <1>1, <1>4

\* A set of servers in any order is a sequence of them.
LEMMA ServersListed ==
  ASSUME NEW V \in SUBSET Servers
  PROVE  /\ SetToSeq(V) \in Seq(V) /\ Len(SetToSeq(V)) \in Nat
         /\ DOMAIN SetToSeq(V) = 1..Len(SetToSeq(V))
  <1>1. IsFiniteSet(V)
    BY FS_Subset, NamingAssumption
  <1>2. SetToSeq(V) \in Seq(V)
    BY <1>1, SetListed
  <1> QED
    BY <1>2

\* An entry of a table is set, or is filled when it was empty.
LEMMA SetTable ==
  ASSUME NEW T, NEW f \in [Routers -> [Servers -> T]], NEW n \in Routers, NEW v, NEW y \in T,
         NEW g, g = [f EXCEPT ![n][v] = y]
  PROVE  g \in [Routers -> [Servers -> T]]
  OBVIOUS

\* A table filled at one place keeps its type.
LEMMA FillTable ==
  ASSUME NEW T, NEW f \in [Routers -> [Servers -> T]], NEW n \in Routers, NEW v, NEW y \in T,
         NEW g, g = [f EXCEPT ![n][v] = IF @ = None THEN y ELSE @]
  PROVE  g \in [Routers -> [Servers -> T]]
  <1>1. [f[n] EXCEPT ![v] = IF @ = None THEN y ELSE @] \in [Servers -> T]
    <2>1. f[n] \in [Servers -> T]
      OBVIOUS
    <2>2. \A w \in Servers : [f[n] EXCEPT ![v] = IF @ = None THEN y ELSE @][w] \in T
      BY <2>1
    <2> QED BY <2>1, <2>2
  <1>2. g = [f EXCEPT ![n] = [f[n] EXCEPT ![v] = IF @ = None THEN y ELSE @]]
    OBVIOUS
  <1> QED
    BY <1>1, <1>2

(***************************************************************************)
(* Types                                                                   *)
(***************************************************************************)

\* Who has protocol_semaphore will release it.
Owned ==
  /\ protocolSem \in [Routers -> Threads \cup {None}]
  /\ \A n \in Routers : protocolSem[n] # None =>
       /\ RouterOf(protocolSem[n]) = n
       /\ agenda[protocolSem[n]] # <<>> /\ Last(agenda[protocolSem[n]]).do = "release"

\* A thread that goes on with steps keeps to the sets of steps A.
LEMMA GoKeeps ==
  ASSUME agenda \in [Threads -> Seq(Steps)], NEW A, \A u \in Threads : agenda[u] \in Seq(A[u]),
         NEW t \in Threads, agenda[t] # <<>>,
         NEW steps \in Seq(A[t]), Go(t, steps)
  PROVE  /\ \A u \in Threads : agenda'[u] \in Seq(A[u])
         /\ \A u \in Threads : u # t => agenda'[u] = agenda[u]
         /\ agenda'[t] = steps \o Tail(agenda[t])
  <1>1. Tail(agenda[t]) \in Seq(A[t])
    BY HeadTail
  <1>2. steps \o Tail(agenda[t]) \in Seq(A[t])
    BY <1>1, Joined
  <1> QED
    BY <1>2 DEF Go

\* A thread that goes on with other steps has a list of steps still.
LEMMA GoType ==
  ASSUME agenda \in [Threads -> Seq(Steps)], NEW t \in Threads, agenda[t] # <<>>,
         NEW steps \in Seq(Steps), Go(t, steps)
  PROVE  agenda' \in [Threads -> Seq(Steps)]
  <1>1. Tail(agenda[t]) \in Seq(Steps)
    BY HeadTail
  <1>2. steps \o Tail(agenda[t]) \in Seq(Steps)
    BY <1>1, Joined
  <1> QED
    BY <1>2 DEF Go

\* A thread that does something else than to release a semaphore keeps it.
LEMMA GoOwned ==
  ASSUME agenda \in [Threads -> Seq(Steps)], Owned, NEW t \in Threads, agenda[t] # <<>>,
         Now(t).do # "release", NEW steps \in Seq(Steps), Go(t, steps),
         protocolSem' = protocolSem
  PROVE  Owned'
  <1> SUFFICES ASSUME NEW n \in Routers, protocolSem[n] # None
               PROVE  /\ RouterOf(protocolSem[n]) = n
                      /\ agenda'[protocolSem[n]] # <<>>
                      /\ Last(agenda'[protocolSem[n]]).do = "release"
    BY DEF Owned
  <1> DEFINE u == protocolSem[n]
  <1>1. u \in Threads /\ RouterOf(u) = n /\ agenda[u] # <<>> /\ Last(agenda[u]).do = "release"
    BY DEF Owned
  <1>2. agenda' = [agenda EXCEPT ![t] = steps \o Tail(agenda[t])]
    BY DEF Go
  <1>3. CASE u # t
    BY <1>1, <1>2, <1>3
  <1>4. CASE u = t
    <2>1. Len(agenda[t]) # 1
      BY <1>1, <1>4, HeadTail DEF Now
    <2>2. Len(agenda[t]) > 1
      <3>1. agenda[t] \in Seq(Steps)
        OBVIOUS
      <3>2. Len(agenda[t]) \in Nat \ {0}
        BY <3>1, HeadTail
      <3>3. \A i \in Nat \ {0} : i # 1 => i > 1
        OBVIOUS
      <3> QED BY <2>1, <3>2, <3>3, Zenon
    <2>3. /\ Tail(agenda[t]) \in Seq(Steps) /\ Tail(agenda[t]) # <<>>
          /\ Last(Tail(agenda[t])) = Last(agenda[t])
      BY <2>2, HeadTail
    <2>4. steps \o Tail(agenda[t]) # <<>> /\ Last(steps \o Tail(agenda[t])) = Last(agenda[t])
      BY <2>3, Joined
    <2>5. agenda'[t] = steps \o Tail(agenda[t])
      BY <1>2
    <2> QED BY <1>1, <1>4, <2>4, <2>5
  <1> QED
    BY <1>3, <1>4

\* A thread that registers a server or takes a HELLO does nothing else before.
Plain == {s \in Steps : s.do \notin {"register", "hello"}}
Alone == \A t \in Threads : agenda[t] \in Seq(Plain) \/ \E s \in Steps : agenda[t] = <<s>>

TypeInv == TypeOK /\ Alone

\* The steps that threads make are steps.
LEMMA PlainSteps ==
  /\ Seq(Plain) \subseteq Seq(Steps)
  /\ <<>> \in Seq(Plain)
  /\ \A s \in Plain : <<s>> \in Seq(Plain)
  /\ \A what, v, xs : Do(what, v, xs).do = what /\ Do(what, v, xs).of = v /\ Do(what, v, xs).xs = xs
  /\ \A what \in {"release", "tellServer", "dropServer", "downServer", "tellClient", "dropClient",
                  "downClient", "removeClient", "advertise", "down", "downClients", "flush",
                  "close", "NEW_SERVER", "REMOVE_SERVER", "REMOVE_CLIENT"},
        v \in Servers \cup {None}, xs \in SUBSET Xports : Do(what, v, xs) \in Plain
  <1>1. Plain \subseteq Steps
    BY DEF Plain
  <1>2. Seq(Plain) \subseteq Seq(Steps)
    BY <1>1
  <1>3. <<>> \in Seq(Plain) /\ \A s \in Plain : <<s>> \in Seq(Plain)
    OBVIOUS
  <1>4. \A what, v, xs : Do(what, v, xs).do = what /\ Do(what, v, xs).of = v /\ Do(what, v, xs).xs = xs
    BY DEF Do
  <1>5. \A what \in {"release", "tellServer", "dropServer", "downServer", "tellClient", "dropClient",
                     "downClient", "removeClient", "advertise", "down", "downClients", "flush",
                     "close", "NEW_SERVER", "REMOVE_SERVER", "REMOVE_CLIENT"},
           v \in Servers \cup {None}, xs \in SUBSET Xports : Do(what, v, xs) \in Plain
    BY DEF Plain, Steps, Do
  <1> QED
    BY <1>2, <1>3, <1>4, <1>5

\* The step a thread is at
LEMMA NowType ==
  ASSUME TypeInv, NEW t \in Threads, agenda[t] # <<>>
  PROVE  /\ Now(t) \in Steps /\ Now(t).xs \in SUBSET Xports /\ Now(t).of \in Servers \cup {None}
         /\ RouterOf(t) \in Routers
         /\ Tail(agenda[t]) \in Seq(Plain)
         /\ Now(t).do \in {"register", "hello"} => Tail(agenda[t]) = <<>>
  <1>1. agenda[t] \in Seq(Steps)
    BY DEF TypeInv, TypeOK
  <1>2. Now(t) \in Steps
    BY <1>1, HeadTail DEF Now
  <1>3. Now(t).xs \in SUBSET Xports /\ Now(t).of \in Servers \cup {None}
    BY <1>2 DEF Steps
  <1>4. RouterOf(t) \in Routers
    BY NamingAssumption DEF RouterOf, Threads
  <1>5. CASE agenda[t] \in Seq(Plain)
    <2>1. Now(t) \in Plain /\ Tail(agenda[t]) \in Seq(Plain)
      BY <1>5, HeadTail DEF Now
    <2> QED BY <1>2, <1>3, <1>4, <2>1 DEF Plain
  <1>6. CASE \E s \in Steps : agenda[t] = <<s>>
    <2>1. Tail(agenda[t]) = <<>>
      BY <1>6
    <2> QED BY <1>2, <1>3, <1>4, <2>1, PlainSteps
  <1> QED
    BY <1>5, <1>6 DEF TypeInv, Alone

\* What a thread goes on with keeps the types.
LEMMA GoPlain ==
  ASSUME TypeInv, NEW t \in Threads, agenda[t] # <<>>, NEW steps \in Seq(Plain), Go(t, steps)
  PROVE  /\ agenda' \in [Threads -> Seq(Steps)] /\ Alone'
         /\ Now(t).do # "release" /\ protocolSem' = protocolSem => Owned'
  <1>1. agenda \in [Threads -> Seq(Steps)] /\ steps \in Seq(Steps)
    BY PlainSteps DEF TypeInv, TypeOK
  <1>2. agenda' \in [Threads -> Seq(Steps)]
    BY <1>1, GoType
  <1>3. steps \o Tail(agenda[t]) \in Seq(Plain)
    BY NowType, Joined
  <1>4. agenda' = [agenda EXCEPT ![t] = steps \o Tail(agenda[t])]
    BY DEF Go
  <1>5. Alone'
    BY <1>1, <1>3, <1>4 DEF TypeInv, Alone
  <1>6. ASSUME Now(t).do # "release", protocolSem' = protocolSem PROVE Owned'
    <2>1. Owned
      BY DEF TypeInv, TypeOK, Owned
    <2> QED BY <1>1, <1>6, <2>1, GoOwned
  <1> QED
    BY <1>2, <1>5, <1>6

\* A thread that has nothing to do begins something.
LEMMA BeginType ==
  ASSUME TypeInv, NEW t \in Threads, agenda[t] = <<>>, protocolSem' = protocolSem,
         NEW steps \in Seq(Steps), steps \in Seq(Plain) \/ \E s \in Steps : steps = <<s>>,
         agenda' = [agenda EXCEPT ![t] = steps]
  PROVE  agenda' \in [Threads -> Seq(Steps)] /\ Alone' /\ Owned'
  <1>1. agenda \in [Threads -> Seq(Steps)] /\ Owned
    BY DEF TypeInv, TypeOK, Owned
  <1>2. Alone'
    BY <1>1 DEF TypeInv, Alone
  <1>3. Owned'
    BY <1>1 DEF Owned
  <1> QED
    BY <1>1, <1>2, <1>3

\* What links carry stays messages when one is sent.
LEMMA SendType ==
  ASSUME net \in [Xports -> Seq(Message)], NEW ys, NEW m \in Message, Send(ys, m)
  PROVE  net' \in [Xports -> Seq(Message)]
  <1>1. \A y \in Xports : Append(net[y], m) \in Seq(Message)
    OBVIOUS
  <1> QED
    BY <1>1 DEF Send

\* News: the message is sent or is the next thing to do.
LEMMA TellType ==
  ASSUME TypeInv, NEW t \in Threads, agenda[t] # <<>>,
         NEW kind \in {"NEW_SERVER", "REMOVE_SERVER", "REMOVE_CLIENT"},
         NEW v \in Servers \cup {None}, NEW ys \in SUBSET Xports, NEW steps \in Seq(Plain),
         Tell(t, Msg(kind, v), ys, steps)
  PROVE  /\ net' \in [Xports -> Seq(Message)]
         /\ \E p \in Seq(Plain) : Go(t, p) /\ (steps # <<>> => p # <<>> /\ Last(p) = Last(steps))
  <1>1. Msg(kind, v) \in Message /\ Msg(kind, v).kind = kind /\ Msg(kind, v).of = v
    BY DEF Msg, Message
  <1>2. net \in [Xports -> Seq(Message)]
    BY DEF TypeInv, TypeOK
  <1>3. CASE "write" \in Overlaps
    <2> DEFINE p == <<Do(kind, v, ys)>> \o steps
    <2>1. <<Do(kind, v, ys)>> \in Seq(Plain)
      BY PlainSteps
    <2>2. p \in Seq(Plain) /\ (steps # <<>> => p # <<>> /\ Last(p) = Last(steps))
      BY <2>1, Joined
    <2>3. Go(t, p) /\ net' = net
      BY <1>1, <1>3 DEF Tell
    <2> QED BY <1>2, <2>2, <2>3
  <1>4. CASE "write" \notin Overlaps
    <2>1. Go(t, steps) /\ Send(ys, Msg(kind, v))
      BY <1>4 DEF Tell
    <2> QED BY <1>1, <1>2, <2>1, SendType
  <1> QED
    BY <1>3, <1>4

\* The steps of a thread keep the types.
LEMMA WorkType ==
  ASSUME TypeInv, NEW t \in Threads, Work(t)
  PROVE  TypeInv'
  <1> DEFINE n == RouterOf(t)
             v == Now(t).of
             xs == Now(t).xs
  <1>1. agenda[t] # <<>>
    BY DEF Work, Write, Register, Release, TellServer, DropServer, TellClient, DropClient,
           RemoveClient, XportUp, Advertise, XportDown, DownClients, Flush, CloseXport, Doing
  <1>2. /\ Now(t) \in Steps /\ xs \in SUBSET Xports /\ v \in Servers \cup {None}
        /\ n \in Routers
        /\ Tail(agenda[t]) \in Seq(Plain)
        /\ Now(t).do \in {"register", "hello"} => Tail(agenda[t]) = <<>>
    BY <1>1, NowType
  <1>3. /\ server \in [Routers -> [Servers -> Xports \cup {Local, None}]]
        /\ client \in [Routers -> [Servers -> Xports \cup {Local, None}]]
        /\ up \in [Xports -> BOOLEAN] /\ helloSent \in [Xports -> BOOLEAN]
        /\ st \in [Xports -> {"closed", "opening", "open", "lost", "paused"}]
        /\ net \in [Xports -> Seq(Message)]
        /\ agenda \in [Threads -> Seq(Steps)]
        /\ Owned
        /\ ops \in 0..MaxOps /\ stops \in 0..MaxStops
    BY DEF TypeInv, TypeOK, Owned
  <1>4. <<>> \in Seq(Plain) /\ <<Do("release", None, {})>> \in Seq(Plain)
    BY PlainSteps
  <1>5. \A y : Reach(n, y) \in SUBSET Xports
    BY DEF Reach
  \* The semaphore is taken by a thread that will release it.
  <1>6. ASSUME protocolSem[n] = None, protocolSem' = [protocolSem EXCEPT ![n] = t],
               Now(t).do \in {"register", "hello"},
               NEW p \in Seq(Plain), p # <<>>, Last(p).do = "release", Go(t, p)
        PROVE  Owned'
    <2>1. agenda' = [agenda EXCEPT ![t] = p]
      <3>1. p \o Tail(agenda[t]) = p
        BY <1>2, <1>6, ConcatEmptySeq
      <3> QED BY <3>1, <1>6 DEF Go
    <2>2. agenda'[t] = p
      BY <1>3, <2>1
    <2> SUFFICES ASSUME NEW k \in Routers, protocolSem'[k] # None
                 PROVE  /\ RouterOf(protocolSem'[k]) = k
                        /\ agenda'[protocolSem'[k]] # <<>>
                        /\ Last(agenda'[protocolSem'[k]]).do = "release"
      BY <1>3, <1>6 DEF Owned
    <2>3. ASSUME k = n PROVE protocolSem'[k] = t
      BY <1>3, <1>6, <2>3 DEF Owned
    <2>4. ASSUME k # n
          PROVE  protocolSem'[k] = protocolSem[k] /\ protocolSem[k] # t
      BY <1>3, <1>6, <2>4 DEF Owned
    <2>5. CASE k # n
      BY <1>3, <2>1, <2>4, <2>5 DEF Owned
    <2>6. CASE k = n
      BY <1>6, <2>2, <2>3, <2>6
    <2> QED BY <2>5, <2>6
  <1> USE <1>1, <1>2, <1>3, <1>4, <1>5
  <1>7. CASE Write(t)
    <2>1. Go(t, <<>>) /\ Send(xs, Msg(Now(t).do, v)) /\ Msg(Now(t).do, v) \in Message
      BY <1>7 DEF Write, Msg, Message
    <2>2. net' \in [Xports -> Seq(Message)]
      BY <2>1, SendType
    <2>3. protocolSem' = protocolSem /\ Now(t).do # "release"
      BY <1>7 DEF Write
    <2>4. agenda' \in [Threads -> Seq(Steps)] /\ Alone' /\ Owned'
      BY <2>1, <2>3, GoPlain
    <2> QED BY <1>7, <2>2, <2>4 DEF Write, TypeInv, TypeOK, Owned, tables, bounds
  <1>8. CASE Register(t)
    <2>1. server' \in [Routers -> [Servers -> Xports \cup {Local, None}]]
          /\ client' \in [Routers -> [Servers -> Xports \cup {Local, None}]]
      <3> DEFINE x == IF xs = {} THEN Local ELSE From(t)
      <3>1. x \in Xports \cup {Local}
        BY DEF From
      <3>2. /\ client' = [client EXCEPT ![n][v] = IF @ = None THEN x ELSE @]
            /\ server' = [server EXCEPT ![n][v] = IF @ = None THEN x ELSE @]
        BY <1>8 DEF Register
      <3> HIDE DEF x
      <3> QED BY <3>1, <3>2, FillTable
    <2>2. CASE server[n][v] # None
      <3>1. Go(t, <<>>) /\ protocolSem' = protocolSem /\ net' = net /\ Now(t).do # "release"
        BY <1>8, <2>2 DEF Register, Doing
      <3>2. agenda' \in [Threads -> Seq(Steps)] /\ Alone' /\ Owned'
        BY <3>1, GoPlain
      <3> QED BY <1>8, <2>1, <3>1, <3>2 DEF Register, TypeInv, TypeOK, Owned, bounds
    <2>3. CASE server[n][v] = None
      <3>1. /\ protocolSem[n] = None /\ protocolSem' = [protocolSem EXCEPT ![n] = t]
            /\ Tell(t, Msg("NEW_SERVER", v), Reach(n, xs), <<Do("release", None, {})>>)
            /\ Now(t).do = "register"
        BY <1>8, <2>3 DEF Register, Doing
      <3>2. /\ <<Do("release", None, {})>> # <<>>
            /\ Last(<<Do("release", None, {})>>).do = "release"
        BY DEF Last, Do
      <3>3. net' \in [Xports -> Seq(Message)]
        BY <3>1, TellType
      <3> DEFINE rel == <<Do("release", None, {})>>
      <3>4. PICK p \in Seq(Plain) : Go(t, p) /\ p # <<>> /\ Last(p) = Last(rel)
        <4>1. rel \in Seq(Plain) /\ rel # <<>> /\ Tell(t, Msg("NEW_SERVER", v), Reach(n, xs), rel)
          BY <3>1
        <4> HIDE DEF rel
        <4>2. \E p \in Seq(Plain) : Go(t, p) /\ (rel # <<>> => p # <<>> /\ Last(p) = Last(rel))
          BY <4>1, TellType, ZenonT(60)
        <4> QED BY <4>1, <4>2
      <3>5. agenda' \in [Threads -> Seq(Steps)] /\ Alone'
        BY <3>4, GoPlain
      <3>6. Owned'
        BY <1>6, <3>1, <3>2, <3>4
      <3> QED BY <1>8, <2>1, <3>3, <3>5, <3>6 DEF Register, TypeInv, TypeOK, Owned, bounds
    <2> QED BY <2>2, <2>3
  <1>9. CASE Release(t)
    <2>1. Go(t, <<>>) /\ protocolSem' = [protocolSem EXCEPT ![n] = None]
      BY <1>9 DEF Release
    <2>2. agenda' \in [Threads -> Seq(Steps)] /\ Alone'
      BY <2>1, GoPlain
    <2>3. Owned'
      <3> SUFFICES ASSUME NEW k \in Routers, protocolSem'[k] # None
                   PROVE  /\ RouterOf(protocolSem'[k]) = k /\ agenda'[protocolSem'[k]] # <<>>
                          /\ Last(agenda'[protocolSem'[k]]).do = "release"
        BY <2>1 DEF Owned
      <3>1. k # n /\ protocolSem'[k] = protocolSem[k] /\ protocolSem[k] # t /\ RouterOf(protocolSem[k]) = k
        BY <2>1 DEF Owned
      <3>2. agenda'[protocolSem[k]] = agenda[protocolSem[k]]
        BY <2>1, <3>1 DEF Go
      <3> QED BY <3>1, <3>2 DEF Owned
    <2> QED BY <1>9, <2>2, <2>3 DEF Release, TypeInv, TypeOK, Owned, tables, links, bounds
  <1>10. CASE TellServer(t)
    <2> DEFINE next == IF Now(t).do = "downServer" THEN <<Do("dropServer", v, {})>> ELSE <<>>
    <2>1. next \in Seq(Plain)
      <3>1. Do("dropServer", v, {}) \in Plain
        BY PlainSteps
      <3> QED BY <3>1
    <2>2. /\ Tell(t, Msg("REMOVE_SERVER", v), Reach(n, xs), next)
          /\ protocolSem' = protocolSem /\ Now(t).do # "release"
      BY <1>10 DEF TellServer, Doing
    <2>3. net' \in [Xports -> Seq(Message)] /\ \E p \in Seq(Plain) : Go(t, p)
      <3> HIDE DEF next
      <3> QED BY <2>1, <2>2, TellType
    <2>4. agenda' \in [Threads -> Seq(Steps)] /\ Alone' /\ Owned'
      BY <2>2, <2>3, GoPlain
    <2> QED BY <1>10, <2>3, <2>4 DEF TellServer, TypeInv, TypeOK, Owned, tables, bounds
  <1>11. CASE TellClient(t)
    <2> DEFINE next == IF Now(t).do = "downClient" THEN <<Do("dropClient", v, {})>> ELSE <<>>
    <2>1. next \in Seq(Plain)
      <3>1. Do("dropClient", v, {}) \in Plain
        BY PlainSteps
      <3> QED BY <3>1
    <2>2. /\ protocolSem' = protocolSem /\ Now(t).do # "release"
          /\ \/ Tell(t, Msg("REMOVE_CLIENT", v), Reach(n, xs), next)
             \/ Go(t, next) /\ net' = net
      BY <1>11 DEF TellClient, Doing
    <2>3. net' \in [Xports -> Seq(Message)] /\ \E p \in Seq(Plain) : Go(t, p)
      <3> HIDE DEF next
      <3>1. CASE Tell(t, Msg("REMOVE_CLIENT", v), Reach(n, xs), next)
        BY <2>1, <3>1, TellType
      <3>2. CASE Go(t, next) /\ net' = net
        BY <2>1, <3>2
      <3> QED BY <2>2, <3>1, <3>2
    <2>4. agenda' \in [Threads -> Seq(Steps)] /\ Alone' /\ Owned'
      BY <2>2, <2>3, GoPlain
    <2> QED BY <1>11, <2>3, <2>4 DEF TellClient, TypeInv, TypeOK, Owned, tables, bounds
  <1>12. CASE DropServer(t)
    <2>1. Go(t, <<>>) /\ protocolSem' = protocolSem /\ Now(t).do # "release"
      BY <1>12 DEF DropServer, Doing
    <2>2. agenda' \in [Threads -> Seq(Steps)] /\ Alone' /\ Owned'
      BY <2>1, GoPlain
    <2> QED BY <1>12, <2>2 DEF DropServer, TypeInv, TypeOK, Owned, links, bounds
  <1>13. CASE DropClient(t)
    <2>1. Go(t, <<>>) /\ protocolSem' = protocolSem /\ Now(t).do # "release"
      BY <1>13 DEF DropClient, Doing
    <2>2. agenda' \in [Threads -> Seq(Steps)] /\ Alone' /\ Owned'
      BY <2>1, GoPlain
    <2> QED BY <1>13, <2>2 DEF DropClient, TypeInv, TypeOK, Owned, links, bounds
  <1>14. CASE RemoveClient(t)
    <2>1. PICK p : /\ Go(t, p) /\ p \in {<<Do("dropServer", v, {})>>, <<>>}
                   /\ protocolSem' = protocolSem /\ Now(t).do # "release"
      BY <1>14 DEF RemoveClient, Doing
    <2>2. Do("dropServer", v, {}) \in Plain
      BY PlainSteps
    <2>3. <<Do("dropServer", v, {})>> \in Seq(Plain)
      BY <2>2, PlainSteps
    <2>4. p \in Seq(Plain)
      BY <2>1, <2>3
    <2>5. agenda' \in [Threads -> Seq(Steps)] /\ Alone' /\ Owned'
      BY <2>1, <2>4, GoPlain
    <2> QED BY <1>14, <2>5 DEF RemoveClient, TypeInv, TypeOK, Owned, links, bounds
  <1>15. CASE XportUp(t)
    <2> DEFINE V == {w \in Servers : server[n][w] # None}
               vs == SetToSeq(V)
               list == [i \in DOMAIN vs |-> Do("advertise", vs[i], xs)]
               p == list \o <<Do("release", None, {})>>
    <2>1. /\ protocolSem[n] = None /\ protocolSem' = [protocolSem EXCEPT ![n] = t]
          /\ Now(t).do = "hello" /\ Go(t, p)
          /\ Send(IF helloSent[t] THEN {} ELSE {t}, Msg("HELLO", None))
      BY <1>15 DEF XportUp, Doing
    <2>2. Msg("HELLO", None) \in Message
      BY DEF Msg, Message
    <2>3. net' \in [Xports -> Seq(Message)]
      BY <2>1, <2>2, SendType
    <2>4. list \in Seq(Plain)
      <3>1. \A w \in V : Do("advertise", w, xs) \in Plain
        BY PlainSteps
      <3>2. V \in SUBSET Servers
        OBVIOUS
      <3>3. /\ vs \in Seq(V) /\ Len(vs) \in Nat /\ DOMAIN vs = 1..Len(vs)
        BY <3>2, ServersListed
      <3> HIDE DEF vs
      <3>4. \A i \in DOMAIN vs : vs[i] \in V
        BY <3>3
      <3> HIDE DEF V
      <3>5. \A i \in DOMAIN vs : Do("advertise", vs[i], xs) \in Plain
        BY <3>1, <3>4
      <3> QED BY <3>3, <3>5
    <2>5. p \in Seq(Plain) /\ p # <<>> /\ Last(p) = Last(<<Do("release", None, {})>>)
      <3> HIDE DEF list
      <3> QED BY <2>4, Joined
    <2>6. Last(<<Do("release", None, {})>>).do = "release"
      BY DEF Last, Do
    <2> HIDE DEF p
    <2>7. agenda' \in [Threads -> Seq(Steps)] /\ Alone'
      BY <2>1, <2>5, GoPlain
    <2>8. Owned'
      BY <1>6, <2>1, <2>5, <2>6
    <2> QED BY <1>15, <2>3, <2>7, <2>8 DEF XportUp, TypeInv, TypeOK, Owned, tables, bounds
  <1>16. CASE Advertise(t)
    <2>1. Go(t, <<>>) /\ protocolSem' = protocolSem /\ Now(t).do # "release"
      BY <1>16 DEF Advertise, Doing
    <2>2. agenda' \in [Threads -> Seq(Steps)] /\ Alone' /\ Owned'
      BY <2>1, GoPlain
    <2>3. Msg("NEW_SERVER", v) \in Message
      BY DEF Msg, Message
    <2>4. net' \in [Xports -> Seq(Message)]
      <3>1. PICK ys : Send(ys, Msg("NEW_SERVER", v))
        BY <1>16 DEF Advertise
      <3> QED BY <2>3, <3>1, SendType
    <2> QED BY <1>16, <2>2, <2>4 DEF Advertise, TypeInv, TypeOK, Owned, tables, bounds
  <1>17. CASE XportDown(t)
    <2> DEFINE V == {w \in Servers : server[n][w] \in xs}
               vs == SetToSeq(V)
               list == [i \in DOMAIN vs |-> Do("downServer", vs[i], xs)]
    <2>1. list \in Seq(Plain)
      <3>1. \A w \in V : Do("downServer", w, xs) \in Plain
        BY PlainSteps
      <3>2. V \in SUBSET Servers
        OBVIOUS
      <3>3. /\ vs \in Seq(V) /\ Len(vs) \in Nat /\ DOMAIN vs = 1..Len(vs)
        BY <3>2, ServersListed
      <3> HIDE DEF vs
      <3>4. \A i \in DOMAIN vs : vs[i] \in V
        BY <3>3
      <3> HIDE DEF V
      <3>5. \A i \in DOMAIN vs : Do("downServer", vs[i], xs) \in Plain
        BY <3>1, <3>4
      <3> QED BY <3>3, <3>5
    <2>2. <<Do("downClients", None, xs)>> \in Seq(Plain)
      BY PlainSteps
    <2>3. /\ Go(t, list \o <<Do("downClients", None, xs)>>)
          /\ protocolSem' = protocolSem /\ Now(t).do # "release"
      BY <1>17 DEF XportDown, Doing
    <2> HIDE DEF list
    <2>4. list \o <<Do("downClients", None, xs)>> \in Seq(Plain)
      BY <2>1, <2>2, Joined
    <2>5. agenda' \in [Threads -> Seq(Steps)] /\ Alone' /\ Owned'
      BY <2>3, <2>4, GoPlain
    <2> QED BY <1>17, <2>5 DEF XportDown, TypeInv, TypeOK, Owned, tables, bounds
  <1>18. CASE DownClients(t)
    <2> DEFINE V == {w \in Servers : client[n][w] \in xs}
               vs == SetToSeq(V)
               list == [i \in DOMAIN vs |-> Do("downClient", vs[i], xs)]
    <2>1. list \in Seq(Plain)
      <3>1. \A w \in V : Do("downClient", w, xs) \in Plain
        BY PlainSteps
      <3>2. V \in SUBSET Servers
        OBVIOUS
      <3>3. /\ vs \in Seq(V) /\ Len(vs) \in Nat /\ DOMAIN vs = 1..Len(vs)
        BY <3>2, ServersListed
      <3> HIDE DEF vs
      <3>4. \A i \in DOMAIN vs : vs[i] \in V
        BY <3>3
      <3> HIDE DEF V
      <3>5. \A i \in DOMAIN vs : Do("downClient", vs[i], xs) \in Plain
        BY <3>1, <3>4
      <3> QED BY <3>3, <3>5
    <2>2. Go(t, list) /\ protocolSem' = protocolSem /\ Now(t).do # "release"
      BY <1>18 DEF DownClients, Doing
    <2> HIDE DEF list
    <2>3. agenda' \in [Threads -> Seq(Steps)] /\ Alone' /\ Owned'
      BY <2>1, <2>2, GoPlain
    <2> QED BY <1>18, <2>3 DEF DownClients, TypeInv, TypeOK, Owned, tables, links, bounds
  <1>19. CASE Flush(t)
    <2>1. Go(t, <<>>) /\ protocolSem' = protocolSem /\ Now(t).do # "release"
      BY <1>19 DEF Flush, Doing
    <2>2. agenda' \in [Threads -> Seq(Steps)] /\ Alone' /\ Owned'
      BY <2>1, GoPlain
    <2>3. net' \in [Xports -> Seq(Message)]
      <3>1. <<>> \in Seq(Message)
        OBVIOUS
      <3> QED BY <1>19, <3>1 DEF Flush
    <2> QED BY <1>19, <2>2, <2>3 DEF Flush, TypeInv, TypeOK, Owned, tables, bounds
  <1>20. CASE CloseXport(t)
    <2>1. Go(t, <<>>) /\ protocolSem' = protocolSem /\ Now(t).do # "release"
      BY <1>20 DEF CloseXport, Doing
    <2>2. agenda' \in [Threads -> Seq(Steps)] /\ Alone' /\ Owned'
      BY <2>1, GoPlain
    <2>3. net' \in [Xports -> Seq(Message)]
          /\ st' \in [Xports -> {"closed", "opening", "open", "lost", "paused"}]
      BY <1>20 DEF CloseXport, CloseAll
    <2> QED BY <1>20, <2>2, <2>3 DEF CloseXport, TypeInv, TypeOK, Owned, tables, bounds
  <1> QED
    BY <1>7, <1>8, <1>9, <1>10, <1>11, <1>12, <1>13, <1>14, <1>15, <1>16, <1>17, <1>18, <1>19,
       <1>20 DEF Work

\* Applications begin something.
LEMMA ApplicationType ==
  ASSUME TypeInv, NEW v \in Servers, RegServer(v) \/ DeregServer(v) \/ Close(v)
  PROVE  TypeInv'
  <1>1. HomeOf[v] \in Threads /\ v \in Servers \cup {None}
    BY NamingAssumption DEF Threads
  <1>2. Do("register", v, {}) \in Steps
    BY <1>1 DEF Do, Steps
  <1>3. /\ Do("tellServer", v, {}) \in Plain /\ Do("tellClient", v, {}) \in Plain
        /\ Do("removeClient", v, {}) \in Plain
    BY <1>1, PlainSteps
  <1>4. PICK steps : /\ \/ steps = <<Do("register", v, {})>> \/ steps = <<Do("tellServer", v, {})>>
                        \/ steps = <<Do("tellClient", v, {}), Do("removeClient", v, {})>>
                     /\ Begin(HomeOf[v], steps)
    BY DEF RegServer, DeregServer, Close
  <1>5. steps \in Seq(Steps) /\ (steps \in Seq(Plain) \/ \E s \in Steps : steps = <<s>>)
    <2>1. CASE steps = <<Do("register", v, {})>>
      BY <1>2, <2>1
    <2>2. CASE steps = <<Do("tellServer", v, {})>>
      BY <1>3, <2>2, PlainSteps
    <2>3. CASE steps = <<Do("tellClient", v, {}), Do("removeClient", v, {})>>
      <3>1. steps \in Seq(Plain)
        BY <1>3, <2>3
      <3> QED BY <3>1, PlainSteps
    <2> QED BY <1>4, <2>1, <2>2, <2>3
  <1>6. /\ agenda[HomeOf[v]] = <<>> /\ protocolSem' = protocolSem
        /\ agenda' = [agenda EXCEPT ![HomeOf[v]] = steps]
        /\ ops < MaxOps /\ ops' = ops + 1 /\ stops' = stops
        /\ up' = up /\ helloSent' = helloSent /\ st' = st /\ net' = net
    BY <1>4 DEF Begin, links
  <1>7. agenda' \in [Threads -> Seq(Steps)] /\ Alone' /\ Owned'
    BY <1>1, <1>5, <1>6, BeginType
  <1>8. /\ server' \in [Routers -> [Servers -> Xports \cup {Local, None}]]
        /\ client' \in [Routers -> [Servers -> Xports \cup {Local, None}]]
    <2>1. /\ client' = client
          /\ server' = server \/ server' = [server EXCEPT ![HomeOf[v]][v] = None]
      BY DEF RegServer, DeregServer, Close, tables
    <2>2. server \in [Routers -> [Servers -> Xports \cup {Local, None}]]
      BY DEF TypeInv, TypeOK
    <2>3. ASSUME server' = [server EXCEPT ![HomeOf[v]][v] = None]
          PROVE  server' \in [Routers -> [Servers -> Xports \cup {Local, None}]]
      <3>1. HomeOf[v] \in Routers
        BY NamingAssumption
      <3> DEFINE T == Xports \cup {Local, None}
                 n == HomeOf[v]
      <3>2. None \in T /\ server \in [Routers -> [Servers -> T]] /\ n \in Routers
            /\ server' = [server EXCEPT ![n][v] = None]
        BY <2>2, <2>3, <3>1
      <3> HIDE DEF T, n
      <3>3. server' \in [Routers -> [Servers -> T]]
        BY <3>2, SetTable
      <3> QED BY <3>3 DEF T
    <2> QED BY <2>1, <2>2, <2>3 DEF TypeInv, TypeOK
  <1>9. ops' \in 0..MaxOps
    BY <1>6, NamingAssumption DEF TypeInv, TypeOK
  <1> QED
    BY <1>6, <1>7, <1>8, <1>9 DEF TypeInv, TypeOK, Owned

\* Transports
LEMMA TransportType ==
  ASSUME TypeInv, NEW x \in Xports, StartXport(x) \/ StopXport(x) \/ Signalled(x)
  PROVE  TypeInv'
  <1>1. x \in Threads /\ x[1] \in Threads /\ {x} \in SUBSET Xports
    BY NamingAssumption DEF Threads
  <1>2. /\ up \in [Xports -> BOOLEAN] /\ helloSent \in [Xports -> BOOLEAN]
        /\ st \in [Xports -> {"closed", "opening", "open", "lost", "paused"}]
        /\ net \in [Xports -> Seq(Message)]
        /\ stops \in 0..MaxStops /\ Owned
    BY DEF TypeInv, TypeOK, Owned
  <1>3. Msg("HELLO", None) \in Message /\ Msg("BYE", None) \in Message
    BY DEF Msg, Message
  <1>4. CASE StartXport(x)
    <2>1. net' \in [Xports -> Seq(Message)]
      <3>1. <<Msg("HELLO", None)>> \in Seq(Message)
        BY <1>3
      <3> QED BY <1>2, <1>4, <3>1 DEF StartXport
    <2>2. Alone'
      BY <1>4 DEF StartXport, TypeInv, Alone, threads
    <2> QED BY <1>2, <1>4, <2>1, <2>2 DEF StartXport, TypeInv, TypeOK, Owned, tables, threads, bounds
  <1>5. CASE StopXport(x)
    <2>1. net' \in [Xports -> Seq(Message)]
      <3>1. PICK ys : Send(ys, Msg("BYE", None))
        BY <1>5 DEF StopXport
      <3> QED BY <1>2, <1>3, <3>1, SendType
    <2> DEFINE steps == <<Do("down", None, {x}), Do("close", None, {x})>>
    <2>2. steps \in Seq(Plain)
      <3>1. Do("down", None, {x}) \in Plain /\ Do("close", None, {x}) \in Plain
        BY <1>1, PlainSteps
      <3> QED BY <3>1
    <2>3. /\ agenda[x[1]] = <<>> /\ protocolSem' = protocolSem
          /\ agenda' = [agenda EXCEPT ![x[1]] = steps]
      BY <1>5 DEF StopXport
    <2> HIDE DEF steps
    <2>4. agenda' \in [Threads -> Seq(Steps)] /\ Alone' /\ Owned'
      BY <1>1, <2>2, <2>3, PlainSteps, BeginType
    <2>5. up' \in [Xports -> BOOLEAN] /\ stops' \in 0..MaxStops
      BY <1>2, <1>5, NamingAssumption DEF StopXport
    <2> QED BY <1>5, <2>1, <2>4, <2>5 DEF StopXport, TypeInv, TypeOK, Owned, tables
  <1>6. CASE Open(x)
    <2>1. net' \in [Xports -> Seq(Message)] /\ helloSent' \in [Xports -> BOOLEAN]
      <3>1. CASE helloSent' = [helloSent EXCEPT ![x] = TRUE] /\ Send({x}, Msg("HELLO", None))
        BY <1>2, <1>3, <3>1, SendType
      <3>2. CASE helloSent' = helloSent /\ net' = net
        BY <1>2, <3>2
      <3> QED BY <1>6, <3>1, <3>2 DEF Open
    <2>2. Alone'
      BY <1>6 DEF Open, TypeInv, Alone, threads
    <2> QED BY <1>2, <1>6, <2>1, <2>2 DEF Open, TypeInv, TypeOK, Owned, tables, threads, bounds
  <1>7. CASE RemoteClose(x)
    <2> DEFINE steps == (IF up[x] THEN <<Do("down", None, {x})>> ELSE <<>>) \o <<Do("flush", None, {x})>>
    <2>1. steps \in Seq(Plain)
      <3>1. <<Do("down", None, {x})>> \in Seq(Plain) /\ <<Do("flush", None, {x})>> \in Seq(Plain)
        BY <1>1, PlainSteps
      <3>2. (IF up[x] THEN <<Do("down", None, {x})>> ELSE <<>>) \in Seq(Plain)
        BY <3>1
      <3> QED BY <3>1, <3>2, Joined
    <2>2. agenda[x] = <<>> /\ protocolSem' = protocolSem /\ agenda' = [agenda EXCEPT ![x] = steps]
      BY <1>7 DEF RemoteClose, Ready
    <2> HIDE DEF steps
    <2>3. agenda' \in [Threads -> Seq(Steps)] /\ Alone' /\ Owned'
      BY <1>1, <2>1, <2>2, PlainSteps, BeginType
    <2> QED BY <1>7, <2>3 DEF RemoteClose, TypeInv, TypeOK, Owned, tables, links, bounds
  <1>8. CASE Receive(x)
    <2> DEFINE m == Head(net[There(x)])
    <2>1. There(x) \in Xports /\ net[There(x)] \in Seq(Message) /\ net[There(x)] # <<>>
      BY <1>2, <1>8, NamingAssumption DEF Receive
    <2>2. m \in Message /\ Tail(net[There(x)]) \in Seq(Message)
      BY <2>1, HeadTail
    <2>3. m.of \in Servers \cup {None}
      BY <2>2 DEF Message
    <2>4. net' \in [Xports -> Seq(Message)]
      BY <1>2, <1>8, <2>2 DEF Receive
    <2>5. PICK steps : /\ \/ \E what \in {"hello", "register"}, v \in Servers \cup {None} :
                                 steps = <<Do(what, v, {x})>>
                          \/ steps = <<Do("down", None, {x})>> \/ steps = <<>>
                          \/ steps = <<Do("dropServer", m.of, {x}), Do("tellServer", m.of, {x})>>
                          \/ steps = <<Do("tellClient", m.of, {x}), Do("removeClient", m.of, {x})>>
                       /\ agenda' = [agenda EXCEPT ![x] = steps]
      BY <1>8, <2>2, <2>3 DEF Receive, Message
    <2>6. steps \in Seq(Steps) /\ (steps \in Seq(Plain) \/ \E s \in Steps : steps = <<s>>)
      <3>1. ASSUME NEW what \in {"hello", "register"}, NEW v \in Servers \cup {None},
                   steps = <<Do(what, v, {x})>>
            PROVE  steps \in Seq(Steps) /\ \E s \in Steps : steps = <<s>>
        <4>1. Do(what, v, {x}) \in Steps
          BY <1>1 DEF Do, Steps
        <4> QED BY <3>1, <4>1
      <3>2. /\ Do("down", None, {x}) \in Plain
            /\ Do("dropServer", m.of, {x}) \in Plain /\ Do("tellServer", m.of, {x}) \in Plain
            /\ Do("tellClient", m.of, {x}) \in Plain /\ Do("removeClient", m.of, {x}) \in Plain
        BY <1>1, <2>3, PlainSteps
      <3>3. CASE \/ steps = <<Do("down", None, {x})>> \/ steps = <<>>
                 \/ steps = <<Do("dropServer", m.of, {x}), Do("tellServer", m.of, {x})>>
                 \/ steps = <<Do("tellClient", m.of, {x}), Do("removeClient", m.of, {x})>>
        <4>1. /\ <<Do("dropServer", m.of, {x}), Do("tellServer", m.of, {x})>> \in Seq(Plain)
              /\ <<Do("tellClient", m.of, {x}), Do("removeClient", m.of, {x})>> \in Seq(Plain)
          BY <3>2
        <4>2. steps \in Seq(Plain)
          BY <3>2, <3>3, <4>1, PlainSteps, Zenon
        <4> QED BY <4>2, PlainSteps
      <3> QED BY <2>5, <3>1, <3>3
    <2>7. agenda[x] = <<>> /\ protocolSem' = protocolSem
      BY <1>8 DEF Receive, Ready
    <2>8. agenda' \in [Threads -> Seq(Steps)] /\ Alone' /\ Owned'
      BY <1>1, <2>5, <2>6, <2>7, BeginType
    <2> QED BY <1>8, <2>4, <2>8 DEF Receive, TypeInv, TypeOK, Owned, tables, bounds
  <1> QED
    BY <1>4, <1>5, <1>6, <1>7, <1>8 DEF Signalled

\* A router that starts again leaves the state well formed.
LEMMA RestartType ==
  ASSUME TypeInv, NEW n \in Routers, Restart(n)
  PROVE  TypeInv'
  <1>1. agenda' \in [Threads -> Seq(Steps)] /\ Alone'
    <2>1. \A t \in Threads : agenda'[t] = <<>> \/ agenda'[t] = agenda[t]
      BY DEF Restart
    <2>2. agenda' = [t \in Threads |-> agenda'[t]]
      BY DEF Restart
    <2>3. \A t \in Threads : agenda[t] \in Seq(Steps)
      BY DEF TypeInv, TypeOK
    <2>4. \A t \in Threads : agenda'[t] \in Seq(Steps)
      BY <2>1, <2>3, PlainSteps
    <2>5. Alone'
      BY <2>1, PlainSteps, ZenonT(60) DEF TypeInv, Alone
    <2> QED BY <2>2, <2>4, <2>5
  <1>2. Owned'
    BY DEF Restart, TypeInv, TypeOK, Owned
  <1>3. /\ st' \in [Xports -> {"closed", "opening", "open", "lost", "paused"}]
        /\ net' \in [Xports -> Seq(Message)]
    BY DEF Restart, CloseAll, TypeInv, TypeOK
  <1>4. /\ server' \in [Routers -> [Servers -> Xports \cup {Local, None}]]
        /\ client' \in [Routers -> [Servers -> Xports \cup {Local, None}]]
    BY DEF Restart, TypeInv, TypeOK
  <1>5. up' \in [Xports -> BOOLEAN] /\ helloSent' \in [Xports -> BOOLEAN]
    BY DEF Restart, TypeInv, TypeOK
  <1>6. ops' \in 0..MaxOps /\ stops' \in 0..MaxStops
    BY NamingAssumption DEF Restart, TypeInv, TypeOK
  <1> QED
    BY <1>1, <1>2, <1>3, <1>4, <1>5, <1>6 DEF TypeInv, TypeOK, Owned

\* Every variable keeps its type, and a thread that has protocol_semaphore has
\* its release as the last thing to do, in any network.
THEOREM TypeCorrect == Spec => []TypeInv
  <1>1. Init => TypeInv
    BY NamingAssumption DEF Init, TypeInv, TypeOK, Alone
  <1>2. TypeInv /\ [Next]_vars => TypeInv'
    <2> SUFFICES ASSUME TypeInv, [Next]_vars PROVE TypeInv'
      OBVIOUS
    <2>1. CASE Next
      BY <2>1, WorkType, ApplicationType, TransportType, RestartType DEF Next
    <2>2. CASE UNCHANGED vars
      BY <2>2 DEF vars, tables, links, threads, bounds, TypeInv, TypeOK, Alone
    <2> QED BY <2>1, <2>2
  <1> QED
    BY <1>1, <1>2, PTL DEF Spec

\* The tables, links and agendas of the routers are always well formed.
THEOREM TypesKept == Spec => []TypeOK
  BY TypeCorrect, PTL DEF TypeInv

-----------------------------------------------------------------------------
\* A router knows a server from a transport that leads to it.
Place(side, n, v) ==
  {None} \cup {x \in {Local} : HomeOf[v] = n}
         \cup {x \in Xports : x[1] = n /\ HomeOf[v] \in side[There(x)]}

Known(side, table) == \A n \in Routers, v \in Servers : table[n][v] \in Place(side, n, v)

\* A server is announced away from its router, on transports ...
Told(side) == [y \in Xports |->
  {m \in Message : m.kind = "NEW_SERVER" => m.of \in Servers /\ HomeOf[m.of] \in side[y]}]

\* ... and by threads.
MayDo(side, t, s) ==
  /\ s.do = "register" => /\ s.of \in Servers
                          /\ \/ s.xs = {} /\ t = HomeOf[s.of]
                             \/ t \in Xports /\ s.xs = {t} /\ HomeOf[s.of] \in side[There(t)]
  /\ s.do = "NEW_SERVER" => s.of \in Servers /\ \A y \in s.xs : HomeOf[s.of] \in side[y]
  /\ s.do = "advertise" => s.of \in Servers /\ t \in Xports
  /\ s.do = "hello" => t \in Xports
Todo(side) == [t \in Threads |-> {s \in Steps : MayDo(side, t, s)}]

Away(side) ==
  /\ Known(side, server) /\ Known(side, client)
  /\ \A y \in Xports : net[y] \in Seq(Told(side)[y])
  /\ \A t \in Threads : agenda[t] \in Seq(Todo(side)[t])

\* Every step but these four may be done by everybody.
Free == {s \in Steps : s.do \notin {"register", "NEW_SERVER", "advertise", "hello"}}

\* Steps that carry no server from outside a side may be on every agenda.
LEMMA FreeSteps ==
  ASSUME NEW side
  PROVE  /\ \A t \in Threads : Seq(Free) \subseteq Seq(Todo(side)[t])
         /\ <<>> \in Seq(Free)
         /\ \A s \in Free : <<s>> \in Seq(Free)
         /\ \A what \in {"release", "tellServer", "dropServer", "downServer", "tellClient",
                         "dropClient", "downClient", "removeClient", "down", "downClients",
                         "flush", "close", "REMOVE_SERVER", "REMOVE_CLIENT"},
               v \in Servers \cup {None}, xs \in SUBSET Xports : Do(what, v, xs) \in Free
  <1>1. \A t \in Threads : Free \subseteq Todo(side)[t]
    BY DEF Free, Todo, MayDo
  <1>2. \A t \in Threads : Seq(Free) \subseteq Seq(Todo(side)[t])
    BY <1>1
  <1>3. <<>> \in Seq(Free) /\ \A s \in Free : <<s>> \in Seq(Free)
    OBVIOUS
  <1>4. \A what \in {"release", "tellServer", "dropServer", "downServer", "tellClient",
                     "dropClient", "downClient", "removeClient", "down", "downClients",
                     "flush", "close", "REMOVE_SERVER", "REMOVE_CLIENT"},
           v \in Servers \cup {None}, xs \in SUBSET Xports : Do(what, v, xs) \in Free
    BY DEF Free, Steps, Do
  <1> QED
    BY <1>2, <1>3, <1>4

\* Lists of one or two elements are sequences.
LEMMA ShortLists ==
  \A S : /\ <<>> \in Seq(S)
         /\ \A s \in S : <<s>> \in Seq(S)
         /\ \A s, r \in S : <<s, r>> \in Seq(S)
  OBVIOUS

\* A link has another direction, whose ends are its own.
LEMMA Both ==
  \A x \in Xports : /\ There(x) \in Xports /\ There(There(x)) = x
                    /\ There(x)[1] = x[2] /\ There(x)[2] = x[1]
                    /\ x[1] \in Routers /\ x \in Threads /\ RouterOf(x) = x[1]
  <1> SUFFICES ASSUME NEW x \in Xports
               PROVE  /\ There(x) \in Xports /\ There(There(x)) = x
                      /\ There(x)[1] = x[2] /\ There(x)[2] = x[1]
                      /\ x[1] \in Routers /\ x \in Threads /\ RouterOf(x) = x[1]
    OBVIOUS
  <1>1. PICK n, m \in Routers : x = <<n, m>>
    BY NamingAssumption
  <1>2. There(x) = <<m, n>> /\ There(x) \in Xports
    BY <1>1, NamingAssumption DEF There
  <1>3. There(There(x)) = x
    BY <1>1, <1>2 DEF There
  <1>4. x \notin Routers /\ x \in Threads
    BY NamingAssumption DEF Threads
  <1> QED
    BY <1>1, <1>2, <1>3, <1>4 DEF RouterOf

\* What is known from a transport may be told on every other transport.
LEMMA FarSide ==
  ASSUME NEW side, NoCycle(side), NEW x \in Xports, NEW y \in Xports, x[1] = y[1], x # y
  PROVE  side[There(x)] \subseteq side[y]
  <1>1. /\ There(x) \in Xports /\ There(x)[2] = y[1] /\ There(There(x)) = x
        /\ There(There(y)) = y
    BY Both
  <1>2. There(x) # There(y)
    BY <1>1
  <1> QED
    BY <1>1, <1>2 DEF NoCycle

\* Tables: an entry is emptied, or is filled when it was empty.
LEMMA KnownEmptied ==
  ASSUME NEW side, NEW T, NEW f \in [Routers -> [Servers -> T]], NEW n \in Routers, NEW v,
         Known(side, f), NEW g, g = [f EXCEPT ![n][v] = None]
  PROVE  Known(side, g)
  <1> SUFFICES ASSUME NEW k \in Routers, NEW w \in Servers PROVE g[k][w] \in Place(side, k, w)
    BY DEF Known
  <1>1. g[k][w] = None \/ g[k][w] = f[k][w]
    OBVIOUS
  <1> QED
    BY <1>1 DEF Known, Place

\* A table filled with a way on the right side knows only such ways still.
LEMMA KnownFilled ==
  ASSUME NEW side, NEW T, NEW f \in [Routers -> [Servers -> T]], NEW n \in Routers,
         NEW v \in Servers, Known(side, f), NEW x \in Place(side, n, v),
         NEW g, g = [f EXCEPT ![n][v] = IF @ = None THEN x ELSE @]
  PROVE  Known(side, g)
  <1> SUFFICES ASSUME NEW k \in Routers, NEW w \in Servers PROVE g[k][w] \in Place(side, k, w)
    BY DEF Known
  <1>1. f[k][w] \in Place(side, k, w)
    BY DEF Known
  <1>2. CASE k = n /\ w = v
    <2>1. g[k][w] = IF f[k][w] = None THEN x ELSE f[k][w]
      BY <1>2
    <2> QED BY <1>1, <1>2, <2>1
  <1>3. CASE ~(k = n /\ w = v)
    <2>1. g[k][w] = f[k][w]
      BY <1>3
    <2> QED BY <1>1, <2>1
  <1> QED
    BY <1>2, <1>3

\* Links carry only what their side may be told, also when one more such message is
\* sent.
LEMMA SendTold ==
  ASSUME NEW side, net \in [Xports -> Seq(Message)],
         \A y \in Xports : net[y] \in Seq(Told(side)[y]),
         NEW ys, NEW m, \A y \in Xports \cap ys : m \in Told(side)[y], Send(ys, m)
  PROVE  \A y \in Xports : net'[y] \in Seq(Told(side)[y])
  <1> SUFFICES ASSUME NEW y \in Xports PROVE net'[y] \in Seq(Told(side)[y])
    OBVIOUS
  <1> DEFINE S == Told(side)[y]
  <1>1. net[y] \in Seq(S)
    OBVIOUS
  <1>2. y \in ys => m \in S
    OBVIOUS
  <1>3. net'[y] = IF y \in ys THEN Append(net[y], m) ELSE net[y]
    BY DEF Send
  <1> HIDE DEF S
  <1>4. net'[y] \in Seq(S)
    BY <1>1, <1>2, <1>3
  <1> QED
    BY <1>4 DEF S

\* A thread that goes on with steps it may do
LEMMA GoAway ==
  ASSUME NEW side, TypeInv, \A u \in Threads : agenda[u] \in Seq(Todo(side)[u]),
         NEW t \in Threads, agenda[t] # <<>>, NEW steps \in Seq(Todo(side)[t]), Go(t, steps)
  PROVE  \A u \in Threads : agenda'[u] \in Seq(Todo(side)[u])
  <1>1. agenda \in [Threads -> Seq(Steps)]
    BY DEF TypeInv, TypeOK
  <1> QED
    BY <1>1, GoKeeps

\* Telling others of what a side may know keeps links and agendas of that side.
LEMMA TellAway ==
  ASSUME NEW side, TypeInv, Away(side), NEW t \in Threads, agenda[t] # <<>>,
         NEW kind \in {"NEW_SERVER", "REMOVE_SERVER", "REMOVE_CLIENT"},
         NEW v \in Servers \cup {None}, NEW ys \in SUBSET Xports, NEW steps \in Seq(Free),
         kind = "NEW_SERVER" => v \in Servers /\ \A y \in ys : HomeOf[v] \in side[y],
         Tell(t, Msg(kind, v), ys, steps)
  PROVE  /\ \A y \in Xports : net'[y] \in Seq(Told(side)[y])
         /\ \A u \in Threads : agenda'[u] \in Seq(Todo(side)[u])
  <1> DEFINE A == Todo(side)[t]
  <1>1. /\ net \in [Xports -> Seq(Message)]
        /\ \A y \in Xports : net[y] \in Seq(Told(side)[y])
        /\ \A u \in Threads : agenda[u] \in Seq(Todo(side)[u])
    BY DEF TypeInv, TypeOK, Away
  <1>2. /\ Msg(kind, v) \in Message /\ Msg(kind, v).kind = kind /\ Msg(kind, v).of = v
        /\ Do(kind, v, ys) \in Steps /\ Do(kind, v, ys).do = kind /\ Do(kind, v, ys).of = v
        /\ Do(kind, v, ys).xs = ys
    BY DEF Msg, Message, Do, Steps
  <1>3. steps \in Seq(A)
    BY FreeSteps
  <1>4. CASE "write" \in Overlaps
    <2> DEFINE s == Do(kind, v, ys)
    <2>1. s \in A
      BY <1>2 DEF Todo, MayDo
    <2>2. Go(t, <<s>> \o steps) /\ net' = net
      BY <1>2, <1>4 DEF Tell
    <2> HIDE DEF s, A
    <2>3. <<s>> \o steps \in Seq(A)
      BY <1>3, <2>1, Joined
    <2>4. \A u \in Threads : agenda'[u] \in Seq(Todo(side)[u])
      BY <1>1, <2>2, <2>3, GoAway DEF A
    <2> QED BY <1>1, <2>2, <2>4
  <1>5. CASE "write" \notin Overlaps
    <2>1. Go(t, steps) /\ Send(ys, Msg(kind, v))
      BY <1>5 DEF Tell
    <2>2. \A y \in Xports \cap ys : Msg(kind, v) \in Told(side)[y]
      BY <1>2 DEF Told
    <2>3. \A y \in Xports : net'[y] \in Seq(Told(side)[y])
      BY <1>1, <2>1, <2>2, SendTold
    <2>4. \A u \in Threads : agenda'[u] \in Seq(Todo(side)[u])
      BY <1>1, <1>3, <2>1, GoAway
    <2> QED BY <2>3, <2>4
  <1> QED
    BY <1>4, <1>5

\* The steps of a thread
LEMMA WorkAway ==
  ASSUME NEW side, NoCycle(side), TypeInv, Away(side), NEW t \in Threads, Work(t)
  PROVE  Away(side)'
  <1> DEFINE n == RouterOf(t)
             v == Now(t).of
             xs == Now(t).xs
             Told1 == \A y \in Xports : net'[y] \in Seq(Told(side)[y])
             Todo1 == \A u \in Threads : agenda'[u] \in Seq(Todo(side)[u])
  <1>1. agenda[t] # <<>>
    BY DEF Work, Write, Register, Release, TellServer, DropServer, TellClient, DropClient,
           RemoveClient, XportUp, Advertise, XportDown, DownClients, Flush, CloseXport, Doing
  <1>2. /\ Now(t) \in Steps /\ xs \in SUBSET Xports /\ v \in Servers \cup {None}
        /\ n \in Routers
    BY <1>1, NowType
  <1>3. /\ server \in [Routers -> [Servers -> Xports \cup {Local, None}]]
        /\ client \in [Routers -> [Servers -> Xports \cup {Local, None}]]
        /\ net \in [Xports -> Seq(Message)]
        /\ agenda \in [Threads -> Seq(Steps)]
    BY DEF TypeInv, TypeOK
  <1>4. /\ Known(side, server) /\ Known(side, client)
        /\ \A y \in Xports : net[y] \in Seq(Told(side)[y])
        /\ \A u \in Threads : agenda[u] \in Seq(Todo(side)[u])
    BY DEF Away
  <1>5. MayDo(side, t, Now(t))
    <2>1. agenda[t] \in Seq(Todo(side)[t])
      BY <1>4
    <2>2. Now(t) \in Todo(side)[t]
      BY <1>1, <2>1, HeadTail DEF Now
    <2> QED BY <2>2 DEF Todo
  <1>6. \A y : Reach(n, y) \in SUBSET Xports
    BY DEF Reach
  <1>7. \A p \in Seq(Free) : Go(t, p) => Todo1
    <2> SUFFICES ASSUME NEW p \in Seq(Free), Go(t, p) PROVE Todo1
      OBVIOUS
    <2>1. p \in Seq(Todo(side)[t])
      BY FreeSteps
    <2> QED BY <1>1, <1>4, <2>1, GoAway
  <1>8. <<>> \in Seq(Free) /\ <<Do("release", None, {})>> \in Seq(Free)
    BY FreeSteps
  <1>9. SUFFICES Known(side, server') /\ Known(side, client') /\ Told1 /\ Todo1
    BY DEF Away, Known, Place, Told, Todo
  <1> USE <1>1, <1>2, <1>3, <1>4
  <1>10. CASE Write(t)
    <2>1. Go(t, <<>>) /\ Send(xs, Msg(Now(t).do, v)) /\ server' = server /\ client' = client
          /\ Now(t).do \in {"NEW_SERVER", "REMOVE_SERVER", "REMOVE_CLIENT"}
      BY <1>10 DEF Write, tables
    <2>2. \A y \in Xports \cap xs : Msg(Now(t).do, v) \in Told(side)[y]
      BY <1>5, <2>1 DEF Told, MayDo, Msg, Message
    <2>3. Told1
      BY <2>1, <2>2, SendTold
    <2> QED BY <1>7, <1>8, <2>1, <2>3
  <1>11. CASE Register(t)
    <2> DEFINE x == IF xs = {} THEN Local ELSE From(t)
               rel == <<Do("release", None, {})>>
    <2>1. /\ client' = [client EXCEPT ![n][v] = IF @ = None THEN x ELSE @]
          /\ server' = [server EXCEPT ![n][v] = IF @ = None THEN x ELSE @]
          /\ \/ Go(t, <<>>) /\ net' = net
             \/ Tell(t, Msg("NEW_SERVER", v), Reach(n, xs), rel)
          /\ Now(t).do = "register"
      BY <1>11 DEF Register, Doing
    <2>2. /\ v \in Servers
          /\ \/ xs = {} /\ t = HomeOf[v]
             \/ t \in Xports /\ xs = {t} /\ HomeOf[v] \in side[There(t)]
      BY <1>5, <2>1 DEF MayDo
    <2>3. ASSUME xs = {}, t = HomeOf[v]
          PROVE  x \in Place(side, n, v) /\ \A y \in Reach(n, xs) : HomeOf[v] \in side[y]
      <3>1. n = HomeOf[v]
        BY <2>2, <2>3, NamingAssumption DEF RouterOf
      <3>2. \A y \in Xports : y[1] = n => n \in side[y]
        BY DEF NoCycle
      <3> QED BY <2>3, <3>1, <3>2 DEF Place, Reach
    <2>4. ASSUME t \in Xports, xs = {t}, HomeOf[v] \in side[There(t)]
          PROVE  x \in Place(side, n, v) /\ \A y \in Reach(n, xs) : HomeOf[v] \in side[y]
      <3>1. n = t[1] /\ x = t
        BY <2>4, Both DEF From
      <3>2. ASSUME NEW y \in Reach(n, xs) PROVE HomeOf[v] \in side[y]
        <4>1. y \in Xports /\ y[1] = t[1] /\ y # t
          BY <2>4, <3>1 DEF Reach
        <4> QED BY <2>4, <4>1, FarSide
      <3> QED BY <2>4, <3>1, <3>2 DEF Place
    <2>5. x \in Place(side, n, v) /\ \A y \in Reach(n, xs) : HomeOf[v] \in side[y]
      BY <2>2, <2>3, <2>4, Zenon
    <2>6. Known(side, server') /\ Known(side, client')
      <3> HIDE DEF x, n
      <3> QED BY <2>1, <2>2, <2>5, <1>2, KnownFilled
    <2>7. CASE Go(t, <<>>) /\ net' = net
      BY <1>7, <1>8, <2>6, <2>7
    <2>8. CASE Tell(t, Msg("NEW_SERVER", v), Reach(n, xs), rel)
      <3> HIDE DEF rel
      <3>1. rel \in Seq(Free)
        BY <1>8 DEF rel
      <3>2. Told1 /\ Todo1
        BY <1>6, <2>2, <2>5, <2>8, <3>1, TellAway, ZenonT(60)
      <3> QED BY <2>6, <3>2
    <2> QED BY <2>1, <2>7, <2>8
  <1>12. CASE Release(t)
    BY <1>7, <1>8, <1>12 DEF Release, tables, links
  <1>13. CASE TellServer(t)
    <2> DEFINE next == IF Now(t).do = "downServer" THEN <<Do("dropServer", v, {})>> ELSE <<>>
    <2>1. next \in Seq(Free)
      BY FreeSteps
    <2>2. Tell(t, Msg("REMOVE_SERVER", v), Reach(n, xs), next) /\ server' = server /\ client' = client
      BY <1>13 DEF TellServer, Doing, tables
    <2> HIDE DEF next
    <2>3. Told1 /\ Todo1
      BY <1>6, <2>1, <2>2, TellAway
    <2> QED BY <2>2, <2>3
  <1>14. CASE TellClient(t)
    <2> DEFINE next == IF Now(t).do = "downClient" THEN <<Do("dropClient", v, {})>> ELSE <<>>
    <2>1. next \in Seq(Free)
      BY FreeSteps
    <2>2. /\ server' = server /\ client' = client
          /\ \/ Tell(t, Msg("REMOVE_CLIENT", v), Reach(n, xs), next)
             \/ Go(t, next) /\ net' = net
      BY <1>14 DEF TellClient, Doing, tables
    <2> HIDE DEF next
    <2>3. CASE Tell(t, Msg("REMOVE_CLIENT", v), Reach(n, xs), next)
      <3>1. Told1 /\ Todo1
        BY <1>6, <2>1, <2>3, TellAway
      <3> QED BY <2>2, <3>1
    <2>4. CASE Go(t, next) /\ net' = net
      BY <1>7, <2>1, <2>2, <2>4
    <2> QED BY <2>2, <2>3, <2>4
  <1>15. CASE DropServer(t)
    <2>1. Go(t, <<>>) /\ client' = client /\ net' = net /\ server' = [server EXCEPT ![n][v] = None]
      BY <1>15 DEF DropServer, links
    <2>2. Known(side, server')
      BY <2>1, KnownEmptied
    <2> QED BY <1>7, <1>8, <2>1, <2>2
  <1>16. CASE DropClient(t)
    <2>1. Go(t, <<>>) /\ server' = server /\ net' = net /\ client' = [client EXCEPT ![n][v] = None]
      BY <1>16 DEF DropClient, links
    <2>2. Known(side, client')
      BY <2>1, KnownEmptied
    <2> QED BY <1>7, <1>8, <2>1, <2>2
  <1>17. CASE RemoveClient(t)
    <2>1. PICK p : /\ Go(t, p) /\ p \in {<<Do("dropServer", v, {})>>, <<>>}
                   /\ server' = server /\ net' = net /\ client' = [client EXCEPT ![n][v] = None]
      BY <1>17 DEF RemoveClient, links
    <2>2. p \in Seq(Free)
      <3>1. Do("dropServer", v, {}) \in Free
        BY FreeSteps
      <3>2. <<Do("dropServer", v, {})>> \in Seq(Free)
        BY <3>1, FreeSteps
      <3> QED BY <1>8, <2>1, <3>2
    <2>3. Known(side, client')
      BY <2>1, KnownEmptied
    <2> QED BY <1>7, <2>1, <2>2, <2>3
  <1>18. CASE XportUp(t)
    <2> DEFINE V == {w \in Servers : server[n][w] # None}
               vs == SetToSeq(V)
               list == [i \in DOMAIN vs |-> Do("advertise", vs[i], xs)]
               rel == <<Do("release", None, {})>>
               A == Todo(side)[t]
               ys == IF helloSent[t] THEN {} ELSE {t}
    <2>1. /\ Go(t, list \o rel) /\ Send(ys, Msg("HELLO", None))
          /\ server' = server /\ client' = client /\ Now(t).do = "hello"
      BY <1>18 DEF XportUp, Doing, tables
    <2>2. t \in Xports
      BY <1>5, <2>1 DEF MayDo
    <2>3. list \in Seq(A)
      <3>1. \A w \in V : Do("advertise", w, xs) \in A
        BY <2>2 DEF Todo, MayDo, Do, Steps
      <3>2. V \in SUBSET Servers
        OBVIOUS
      <3>3. /\ vs \in Seq(V) /\ Len(vs) \in Nat /\ DOMAIN vs = 1..Len(vs)
        BY <3>2, ServersListed
      <3> HIDE DEF vs
      <3>4. \A i \in DOMAIN vs : vs[i] \in V
        BY <3>3
      <3> HIDE DEF V, A
      <3>5. \A i \in DOMAIN vs : Do("advertise", vs[i], xs) \in A
        BY <3>1, <3>4
      <3> QED BY <3>3, <3>5
    <2>4. rel \in Seq(A)
      BY <1>8, FreeSteps
    <2>5. Todo1
      <3> HIDE DEF list, rel
      <3>1. list \o rel \in Seq(A)
        BY <2>3, <2>4, Joined
      <3> QED BY <2>1, <3>1, GoAway
    <2>6. \A y \in Xports \cap ys : Msg("HELLO", None) \in Told(side)[y]
      BY DEF Told, Msg, Message
    <2>7. Told1
      <3> HIDE DEF ys
      <3> QED BY <2>1, <2>6, SendTold
    <2> QED BY <2>1, <2>5, <2>7
  <1>19. CASE Advertise(t)
    <2> DEFINE c == client[n][v]
               mayTell == (c = Local \/ (c \in Xports /\ NetOf[c] # NetOf[t])) /\ up[t]
               ys == IF mayTell THEN {t} ELSE {}
    <2>1. /\ Go(t, <<>>) /\ Send(ys, Msg("NEW_SERVER", v)) /\ server' = server /\ client' = client
          /\ Now(t).do = "advertise"
      BY <1>19 DEF Advertise, Doing, tables
    <2>2. v \in Servers /\ t \in Xports /\ n = t[1]
      BY <1>5, <2>1, Both DEF MayDo
    <2>3. c \in Place(side, n, v)
      BY <2>2 DEF Known
    <2>4. ASSUME c = Local PROVE HomeOf[v] \in side[t]
      <3>1. HomeOf[v] = n
        BY <2>3, <2>4, NamingAssumption DEF Place
      <3> QED BY <2>2, <3>1 DEF NoCycle
    <2>5. ASSUME c \in Xports, NetOf[c] # NetOf[t] PROVE HomeOf[v] \in side[t]
      <3>1. c[1] = n /\ HomeOf[v] \in side[There(c)]
        BY <2>3, <2>5, NamingAssumption DEF Place
      <3> QED BY <2>2, <2>5, <3>1, FarSide
    <2>6. \A y \in Xports \cap ys : Msg("NEW_SERVER", v) \in Told(side)[y]
      <3>1. mayTell => HomeOf[v] \in side[t]
        BY <2>4, <2>5
      <3>2. \A y \in ys : y = t /\ mayTell
        OBVIOUS
      <3> HIDE DEF mayTell, ys
      <3> QED BY <2>2, <3>1, <3>2 DEF Told, Msg, Message
    <2>7. Told1
      <3> HIDE DEF ys
      <3> QED BY <2>1, <2>6, SendTold
    <2> QED BY <1>7, <1>8, <2>1, <2>7
  <1>20. CASE XportDown(t)
    <2> DEFINE V == {w \in Servers : server[n][w] \in xs}
               vs == SetToSeq(V)
               list == [i \in DOMAIN vs |-> Do("downServer", vs[i], xs)]
               rest == <<Do("downClients", None, xs)>>
    <2>1. Go(t, list \o rest) /\ server' = server /\ client' = client /\ net' = net
      BY <1>20 DEF XportDown, tables
    <2>2. list \in Seq(Free)
      <3>1. \A w \in V : Do("downServer", w, xs) \in Free
        BY FreeSteps
      <3>2. V \in SUBSET Servers
        OBVIOUS
      <3>3. /\ vs \in Seq(V) /\ Len(vs) \in Nat /\ DOMAIN vs = 1..Len(vs)
        BY <3>2, ServersListed
      <3> HIDE DEF vs
      <3>4. \A i \in DOMAIN vs : vs[i] \in V
        BY <3>3
      <3> HIDE DEF V
      <3>5. \A i \in DOMAIN vs : Do("downServer", vs[i], xs) \in Free
        BY <3>1, <3>4
      <3> QED BY <3>3, <3>5
    <2>3. rest \in Seq(Free)
      BY FreeSteps
    <2> HIDE DEF list, rest
    <2>4. list \o rest \in Seq(Free)
      BY <2>2, <2>3, Joined
    <2> QED BY <1>7, <2>1, <2>4
  <1>21. CASE DownClients(t)
    <2> DEFINE V == {w \in Servers : client[n][w] \in xs}
               vs == SetToSeq(V)
               list == [i \in DOMAIN vs |-> Do("downClient", vs[i], xs)]
    <2>1. Go(t, list) /\ server' = server /\ client' = client /\ net' = net
      BY <1>21 DEF DownClients, tables, links
    <2>2. list \in Seq(Free)
      <3>1. \A w \in V : Do("downClient", w, xs) \in Free
        BY FreeSteps
      <3>2. V \in SUBSET Servers
        OBVIOUS
      <3>3. /\ vs \in Seq(V) /\ Len(vs) \in Nat /\ DOMAIN vs = 1..Len(vs)
        BY <3>2, ServersListed
      <3> HIDE DEF vs
      <3>4. \A i \in DOMAIN vs : vs[i] \in V
        BY <3>3
      <3> HIDE DEF V
      <3>5. \A i \in DOMAIN vs : Do("downClient", vs[i], xs) \in Free
        BY <3>1, <3>4
      <3> QED BY <3>3, <3>5
    <2> HIDE DEF list
    <2> QED BY <1>7, <2>1, <2>2
  <1>22. CASE Flush(t)
    <2>1. Go(t, <<>>) /\ server' = server /\ client' = client /\ net' = [net EXCEPT ![t] = <<>>]
      BY <1>22 DEF Flush, tables
    <2>2. Told1
      <3>1. \A y \in Xports : net'[y] = <<>> \/ net'[y] = net[y]
        BY <2>1
      <3> QED BY <1>4, <3>1, ShortLists
    <2> QED BY <1>7, <1>8, <2>1, <2>2
  <1>23. CASE CloseXport(t)
    <2>1. Go(t, <<>>) /\ server' = server /\ client' = client
          /\ \A y \in Xports : net'[y] = <<>> \/ net'[y] = net[y]
      BY <1>23 DEF CloseXport, CloseAll, tables
    <2>2. Told1
      <3>1. \A y \in Xports : net'[y] = <<>> \/ net'[y] = net[y]
        BY <2>1
      <3> QED BY <1>4, <3>1, ShortLists
    <2> QED BY <1>7, <1>8, <2>1, <2>2
  <1> QED
    BY <1>10, <1>11, <1>12, <1>13, <1>14, <1>15, <1>16, <1>17, <1>18, <1>19, <1>20, <1>21,
       <1>22, <1>23 DEF Work

\* Applications begin something.
LEMMA ApplicationAway ==
  ASSUME NEW side, NoCycle(side), TypeInv, Away(side), NEW v \in Servers,
         RegServer(v) \/ DeregServer(v) \/ Close(v)
  PROVE  Away(side)'
  <1> DEFINE n == HomeOf[v]
  <1>1. n \in Routers /\ n \in Threads /\ v \in Servers \cup {None}
    BY NamingAssumption DEF Threads
  <1>2. /\ server \in [Routers -> [Servers -> Xports \cup {Local, None}]]
        /\ agenda \in [Threads -> Seq(Steps)]
        /\ Known(side, server) /\ Known(side, client)
        /\ \A y \in Xports : net[y] \in Seq(Told(side)[y])
        /\ \A u \in Threads : agenda[u] \in Seq(Todo(side)[u])
    BY DEF TypeInv, TypeOK, Away
  <1>3. /\ Do("tellServer", v, {}) \in Free /\ Do("tellClient", v, {}) \in Free
        /\ Do("removeClient", v, {}) \in Free
    BY <1>1, FreeSteps
  <1>4. PICK steps : /\ \/ steps = <<Do("register", v, {})>> \/ steps = <<Do("tellServer", v, {})>>
                        \/ steps = <<Do("tellClient", v, {}), Do("removeClient", v, {})>>
                     /\ Begin(n, steps)
    BY DEF RegServer, DeregServer, Close
  <1>5. steps \in Seq(Todo(side)[n])
    <2>1. CASE steps = <<Do("register", v, {})>>
      <3>1. Do("register", v, {}) \in Todo(side)[n]
        BY <1>1 DEF Todo, MayDo, Do, Steps
      <3> QED BY <2>1, <3>1, ShortLists
    <2>2. CASE steps = <<Do("tellServer", v, {})>>
      BY <1>1, <1>3, <2>2, FreeSteps
    <2>3. CASE steps = <<Do("tellClient", v, {}), Do("removeClient", v, {})>>
      <3>1. steps \in Seq(Free)
        BY <1>3, <2>3
      <3> QED BY <1>1, <3>1, FreeSteps
    <2> QED BY <1>4, <2>1, <2>2, <2>3
  <1>6. agenda' = [agenda EXCEPT ![n] = steps] /\ net' = net
    BY <1>4 DEF Begin, links
  <1>7. \A u \in Threads : agenda'[u] \in Seq(Todo(side)[u])
    BY <1>2, <1>5, <1>6
  <1>8. Known(side, server') /\ Known(side, client')
    <2>1. client' = client /\ (server' = server \/ server' = [server EXCEPT ![n][v] = None])
      BY DEF RegServer, DeregServer, Close, tables
    <2>2. ASSUME server' = [server EXCEPT ![n][v] = None] PROVE Known(side, server')
      BY <1>1, <1>2, <2>2, KnownEmptied
    <2> QED BY <1>2, <2>1, <2>2
  <1> QED
    BY <1>2, <1>6, <1>7, <1>8 DEF Away, Known, Place, Told, Todo

\* Transports
LEMMA TransportAway ==
  ASSUME NEW side, NoCycle(side), TypeInv, Away(side), NEW x \in Xports,
         StartXport(x) \/ StopXport(x) \/ Signalled(x)
  PROVE  Away(side)'
  <1> DEFINE Told1 == \A y \in Xports : net'[y] \in Seq(Told(side)[y])
             Todo1 == \A u \in Threads : agenda'[u] \in Seq(Todo(side)[u])
  <1>1. x \in Threads /\ x[1] \in Threads /\ {x} \in SUBSET Xports
    BY Both DEF Threads
  <1>2. /\ agenda \in [Threads -> Seq(Steps)] /\ net \in [Xports -> Seq(Message)]
        /\ Known(side, server) /\ Known(side, client)
        /\ \A y \in Xports : net[y] \in Seq(Told(side)[y])
        /\ \A u \in Threads : agenda[u] \in Seq(Todo(side)[u])
    BY DEF TypeInv, TypeOK, Away
  <1>3. \A y \in Xports : Msg("HELLO", None) \in Told(side)[y] /\ Msg("BYE", None) \in Told(side)[y]
    BY DEF Told, Msg, Message
  <1>4. SUFFICES Told1 /\ Todo1
    <2>1. server' = server /\ client' = client
      BY DEF StartXport, StopXport, Signalled, Open, RemoteClose, Receive, tables
    <2> QED BY <1>2, <2>1 DEF Away, Known, Place, Told, Todo
  <1>5. ASSUME NEW t \in Threads, NEW steps \in Seq(Todo(side)[t]),
               agenda' = [agenda EXCEPT ![t] = steps]
        PROVE  Todo1
    BY <1>2, <1>5
  <1>6. CASE StartXport(x)
    <2>1. Told1
      <3>1. <<Msg("HELLO", None)>> \in Seq(Told(side)[x])
        BY <1>3, ShortLists
      <3>2. \A y \in Xports : net'[y] = IF y = x THEN <<Msg("HELLO", None)>> ELSE net[y]
        BY <1>2, <1>6 DEF StartXport
      <3> QED BY <1>2, <3>1, <3>2
    <2> QED BY <1>2, <1>6, <2>1 DEF StartXport, threads
  <1>7. CASE StopXport(x)
    <2>1. Told1
      <3>1. PICK ys : Send(ys, Msg("BYE", None))
        BY <1>7 DEF StopXport
      <3> QED BY <1>2, <1>3, <3>1, SendTold
    <2> DEFINE steps == <<Do("down", None, {x}), Do("close", None, {x})>>
    <2>2. steps \in Seq(Free)
      <3>1. Do("down", None, {x}) \in Free /\ Do("close", None, {x}) \in Free
        BY <1>1, FreeSteps
      <3> QED BY <3>1
    <2>3. agenda' = [agenda EXCEPT ![x[1]] = steps]
      BY <1>7 DEF StopXport
    <2> HIDE DEF steps
    <2>4. steps \in Seq(Todo(side)[x[1]])
      BY <1>1, <2>2, FreeSteps
    <2> QED BY <1>1, <1>5, <2>1, <2>3, <2>4
  <1>8. CASE Open(x)
    <2>1. Told1
      <3>1. CASE Send({x}, Msg("HELLO", None))
        BY <1>2, <1>3, <3>1, SendTold
      <3>2. CASE net' = net
        BY <1>2, <3>2
      <3> QED BY <1>8, <3>1, <3>2 DEF Open
    <2> QED BY <1>2, <1>8, <2>1 DEF Open, threads
  <1>9. CASE RemoteClose(x)
    <2> DEFINE first == IF up[x] THEN <<Do("down", None, {x})>> ELSE <<>>
               rest == <<Do("flush", None, {x})>>
    <2>1. first \in Seq(Free) /\ rest \in Seq(Free)
      <3>1. <<Do("down", None, {x})>> \in Seq(Free) /\ <<Do("flush", None, {x})>> \in Seq(Free)
        BY <1>1, FreeSteps
      <3> QED BY <3>1
    <2>2. agenda' = [agenda EXCEPT ![x] = first \o rest] /\ net' = net
      BY <1>9 DEF RemoteClose, links
    <2> HIDE DEF first, rest
    <2>3. first \o rest \in Seq(Todo(side)[x])
      BY <1>1, <2>1, Joined, FreeSteps
    <2> QED BY <1>1, <1>2, <1>5, <2>2, <2>3
  <1>10. CASE Receive(x)
    <2> DEFINE y == There(x)
               m == Head(net[y])
               A == Todo(side)[x]
    <2>1. y \in Xports /\ net[y] # <<>> /\ net[y] \in Seq(Message) /\ net[y] \in Seq(Told(side)[y])
      BY <1>2, <1>10, Both DEF Receive
    <2>2. /\ m \in Message /\ m \in Told(side)[y]
          /\ Tail(net[y]) \in Seq(Told(side)[y])
      BY <2>1, HeadTail
    <2>3. Told1
      <3>1. \A z \in Xports : net'[z] = IF z = y THEN Tail(net[y]) ELSE net[z]
        BY <1>2, <1>10, <2>1 DEF Receive
      <3> QED BY <1>2, <2>2, <3>1
    <2>4. m.of \in Servers \cup {None}
          /\ m.kind \in {"HELLO", "BYE", "NEW_SERVER", "REMOVE_SERVER", "REMOVE_CLIENT"}
          /\ (m.kind = "NEW_SERVER" => m.of \in Servers /\ HomeOf[m.of] \in side[y])
      BY <2>1, <2>2 DEF Message, Told
    <2>5. PICK steps : /\ \/ m.kind = "HELLO" /\ steps = <<Do("hello", None, {x})>>
                          \/ m.kind = "NEW_SERVER" /\ steps = <<Do("register", m.of, {x})>>
                          \/ steps = <<Do("down", None, {x})>> \/ steps = <<>>
                          \/ steps = <<Do("dropServer", m.of, {x}), Do("tellServer", m.of, {x})>>
                          \/ steps = <<Do("tellClient", m.of, {x}), Do("removeClient", m.of, {x})>>
                       /\ agenda' = [agenda EXCEPT ![x] = steps]
      BY <1>10, <2>4 DEF Receive
    <2>6. CASE m.kind = "HELLO" /\ steps = <<Do("hello", None, {x})>>
      <3>1. Do("hello", None, {x}) \in A
        BY <1>1 DEF Todo, MayDo, Do, Steps
      <3>2. steps \in Seq(A)
        BY <2>6, <3>1, ShortLists
      <3> QED BY <1>1, <1>5, <2>3, <2>5, <3>2
    <2>7. CASE m.kind = "NEW_SERVER" /\ steps = <<Do("register", m.of, {x})>>
      <3>1. Do("register", m.of, {x}) \in A
        BY <1>1, <2>4, <2>7 DEF Todo, MayDo, Do, Steps
      <3>2. steps \in Seq(A)
        BY <2>7, <3>1, ShortLists
      <3> QED BY <1>1, <1>5, <2>3, <2>5, <3>2
    <2>8. CASE \/ steps = <<Do("down", None, {x})>> \/ steps = <<>>
               \/ steps = <<Do("dropServer", m.of, {x}), Do("tellServer", m.of, {x})>>
               \/ steps = <<Do("tellClient", m.of, {x}), Do("removeClient", m.of, {x})>>
      <3>1. /\ Do("down", None, {x}) \in Free
            /\ Do("dropServer", m.of, {x}) \in Free /\ Do("tellServer", m.of, {x}) \in Free
            /\ Do("tellClient", m.of, {x}) \in Free /\ Do("removeClient", m.of, {x}) \in Free
        BY <1>1, <2>4, FreeSteps
      <3>2. steps \in Seq(Free)
        BY <2>8, <3>1, ShortLists
      <3>3. steps \in Seq(A)
        BY <1>1, <3>2, FreeSteps
      <3> QED BY <1>1, <1>5, <2>3, <2>5, <3>3
    <2> QED BY <2>5, <2>6, <2>7, <2>8, Zenon
  <1> QED
    BY <1>6, <1>7, <1>8, <1>9, <1>10 DEF Signalled

\* A router that starts again forgets, and learns nothing from outside its side.
LEMMA RestartAway ==
  ASSUME NEW side, TypeInv, Away(side), NEW n \in Routers, Restart(n)
  PROVE  Away(side)'
  <1>1. Known(side, server') /\ Known(side, client')
    BY DEF Restart, TypeInv, TypeOK, Away, Known, Place
  <1>2. \A S : <<>> \in Seq(S)
    OBVIOUS
  <1>3. \A y \in Xports : net'[y] \in Seq(Told(side)[y])
    <2>1. \A y \in Xports : net'[y] = <<>> \/ net'[y] = net[y]
      BY DEF Restart, CloseAll
    <2> QED BY <1>2, <2>1 DEF Away
  <1>4. \A u \in Threads : agenda'[u] \in Seq(Todo(side)[u])
    <2>1. \A u \in Threads : agenda'[u] = <<>> \/ agenda'[u] = agenda[u]
      BY DEF Restart
    <2> QED BY <1>2, <2>1 DEF Away
  <1> QED
    BY <1>1, <1>3, <1>4 DEF Away, Known, Place, Told, Todo

\* In a network without a cycle, a router never records a server of its own as
\* one it was told of: what it announced does not come back.
THEOREM OwnServersStayLocal ==
  ASSUME NEW side, NoCycle(side)
  PROVE  Spec => []OwnServersAreLocal
  <1>1. Init => Away(side)
    <2> SUFFICES ASSUME Init PROVE Away(side)
      OBVIOUS
    <2>1. \A S : <<>> \in Seq(S)
      OBVIOUS
    <2> QED BY <2>1 DEF Init, Away, Known, Place
  <1>2. TypeInv /\ Away(side) /\ [Next]_vars => Away(side)'
    <2> SUFFICES ASSUME TypeInv, Away(side), [Next]_vars PROVE Away(side)'
      OBVIOUS
    <2>1. CASE Next
      BY <2>1, WorkAway, ApplicationAway, TransportAway, RestartAway DEF Next
    <2>2. CASE UNCHANGED vars
      BY <2>2 DEF vars, tables, links, threads, Away, Known, Place, Told, Todo
    <2> QED BY <2>1, <2>2
  <1>3. TypeInv /\ Away(side) => OwnServersAreLocal
    <2> SUFFICES ASSUME TypeInv, Away(side), NEW v \in Servers,
                        server[HomeOf[v]][v] \notin {Local, None}
                 PROVE  FALSE
      BY DEF OwnServersAreLocal
    <2> DEFINE x == server[HomeOf[v]][v]
    <2>1. HomeOf[v] \in Routers
      BY NamingAssumption
    <2>2. x \in Place(side, HomeOf[v], v)
      BY <2>1 DEF Away, Known
    <2>3. x \in Xports /\ x[1] = HomeOf[v] /\ HomeOf[v] \in side[There(x)]
      BY <2>2 DEF Place
    <2>4. There(x) \in Xports /\ There(x)[2] = HomeOf[v]
      BY <2>3, Both
    <2> QED BY <2>3, <2>4 DEF NoCycle
  <1> QED
    BY <1>1, <1>2, <1>3, TypeCorrect, PTL DEF Spec

-----------------------------------------------------------------------------
(***************************************************************************)
(* Sets of steps: what a thread has to do, in whatever order               *)
(***************************************************************************)

Jobs(t) == ToSet(agenda[t])

\* what comes after the step it is at
After(t) == ToSet(Tail(agenda[t]))

\* The elements of sequences
LEMMA Elements ==
  /\ ToSet(<<>>) = {}
  /\ \A a : ToSet(<<a>>) = {a}
  /\ \A a, b : ToSet(<<a, b>>) = {a, b}
  BY DEF ToSet

\* of two joined,
LEMMA ElementsJoined ==
  ASSUME NEW S, NEW p \in Seq(S), NEW q \in Seq(S)
  PROVE  ToSet(p \o q) = ToSet(p) \cup ToSet(q)
  <1> DEFINE r == p \o q
  <1>1. /\ DOMAIN p = 1..Len(p) /\ DOMAIN q = 1..Len(q) /\ Len(p) \in Nat /\ Len(q) \in Nat
        /\ DOMAIN r = 1..(Len(p) + Len(q))
        /\ \A i \in 1..(Len(p) + Len(q)) : r[i] = IF i <= Len(p) THEN p[i] ELSE q[i - Len(p)]
    OBVIOUS
  <1> HIDE DEF r
  <1>2. ASSUME NEW i \in DOMAIN p PROVE p[i] \in ToSet(r)
    <2>1. i \in DOMAIN r /\ r[i] = p[i]
      BY <1>1
    <2> QED BY <2>1 DEF ToSet
  <1>3. ASSUME NEW i \in DOMAIN q PROVE q[i] \in ToSet(r)
    <2>1. i + Len(p) \in DOMAIN r /\ r[i + Len(p)] = q[i]
      BY <1>1
    <2> QED BY <2>1 DEF ToSet
  <1>4. ASSUME NEW i \in DOMAIN r PROVE r[i] \in ToSet(p) \cup ToSet(q)
    <2>1. CASE i <= Len(p)
      <3>1. i \in DOMAIN p /\ r[i] = p[i]
        BY <1>1, <2>1
      <3> QED BY <3>1 DEF ToSet
    <2>2. CASE ~(i <= Len(p))
      <3>1. i - Len(p) \in DOMAIN q /\ r[i] = q[i - Len(p)]
        BY <1>1, <2>2
      <3> QED BY <3>1 DEF ToSet
    <2> QED BY <2>1, <2>2
  <1>5. ToSet(r) = ToSet(p) \cup ToSet(q)
    BY <1>2, <1>3, <1>4 DEF ToSet
  <1> QED
    BY <1>5 DEF r

\* of one that is not empty,
LEMMA ElementsHead ==
  ASSUME NEW S, NEW q \in Seq(S), q # <<>>
  PROVE  /\ ToSet(q) = {Head(q)} \cup ToSet(Tail(q))
         /\ Tail(q) \in Seq(S) /\ Head(q) \in S
  <1>1. Tail(q) \in Seq(S) /\ Head(q) \in S
    BY HeadTail
  <1>2. q = <<Head(q)>> \o Tail(q)
    OBVIOUS
  <1>3. ToSet(q) = ToSet(<<Head(q)>>) \cup ToSet(Tail(q))
    <2>1. <<Head(q)>> \in Seq(S)
      BY <1>1
    <2> QED BY <1>1, <1>2, <2>1, ElementsJoined, ZenonT(60)
  <1> QED
    BY <1>1, <1>3, Elements

\* of one with an element more.
LEMMA ElementsMore ==
  ASSUME NEW S, NEW q \in Seq(S), NEW a \in S
  PROVE  ToSet(Append(q, a)) = ToSet(q) \cup {a}
  <1>1. Append(q, a) = q \o <<a>> /\ <<a>> \in Seq(S)
    OBVIOUS
  <1>2. ToSet(q \o <<a>>) = ToSet(q) \cup ToSet(<<a>>)
    BY <1>1, ElementsJoined, ZenonT(60)
  <1> QED
    BY <1>1, <1>2, Elements

\* A step for each of some servers, in any order
ListOf(what, V, xs) == [i \in DOMAIN SetToSeq(V) |-> Do(what, SetToSeq(V)[i], xs)]

\* A list of steps, one for each of some servers, does them all.
LEMMA StepsListed ==
  ASSUME NEW V \in SUBSET Servers, NEW what, NEW xs, \A w \in V : Do(what, w, xs) \in Plain
  PROVE  /\ ListOf(what, V, xs) \in Seq(Plain)
         /\ ToSet(ListOf(what, V, xs)) = {Do(what, w, xs) : w \in V}
  <1> DEFINE vs == SetToSeq(V)
             list == [i \in DOMAIN vs |-> Do(what, vs[i], xs)]
  <1>1. vs \in Seq(V) /\ Len(vs) \in Nat /\ DOMAIN vs = 1..Len(vs)
    BY ServersListed
  <1>2. \A w \in V : \E i \in DOMAIN vs : vs[i] = w
    <2>1. IsFiniteSet(V)
      BY FS_Subset, NamingAssumption
    <2>2. Cardinality(V) \in Nat
      BY <2>1, FS_CardinalityType
    <2>3. PICK f : f \in Bijection(1..Cardinality(V), V)
      BY <2>1, FS_CardinalityType DEF ExistsBijection
    <2>4. f \in [1..Cardinality(V) -> V] /\ IsInjective(f)
      BY <2>3 DEF Bijection, Injection, IsInjective
    <2>5. vs \in [1..Cardinality(V) -> V] /\ IsInjective(vs)
      BY <2>4 DEF SetToSeq
    <2>6. vs \in Injection(1..Cardinality(V), V)
      BY <2>5 DEF Injection, IsInjective
    <2>7. IsFiniteSet(1..Cardinality(V)) /\ Cardinality(1..Cardinality(V)) = Cardinality(V)
      BY <2>2, FS_Interval
    <2>8. vs \in Surjection(1..Cardinality(V), V)
      BY <2>1, <2>6, <2>7, FS_Injection
    <2> QED BY <2>5, <2>8 DEF Surjection
  <1> HIDE DEF vs
  <1>3. \A i \in DOMAIN vs : vs[i] \in V
    BY <1>1
  <1>4. list \in Seq(Plain)
    BY <1>1, <1>3
  <1>5. ToSet(list) = {Do(what, w, xs) : w \in V}
    BY <1>2, <1>3 DEF ToSet
  <1> QED
    BY <1>4, <1>5 DEF vs, ListOf

\* The other threads have to do what they had.
Others(t) == \A u \in Threads : u # t => agenda'[u] = agenda[u]

\* The jobs of a thread that goes on with steps
LEMMA GoJobs ==
  ASSUME TypeInv, NEW t \in Threads, agenda[t] # <<>>, NEW steps \in Seq(Plain), Go(t, steps)
  PROVE  /\ Jobs(t)' = ToSet(steps) \cup After(t)
         /\ Others(t)
  <1>1. agenda \in [Threads -> Seq(Steps)] /\ Tail(agenda[t]) \in Seq(Plain)
    BY NowType DEF TypeInv, TypeOK
  <1>2. agenda'[t] = steps \o Tail(agenda[t]) /\ \A u \in Threads : u # t => agenda'[u] = agenda[u]
    BY <1>1 DEF Go
  <1>3. ToSet(steps \o Tail(agenda[t])) = ToSet(steps) \cup ToSet(Tail(agenda[t]))
    BY <1>1, ElementsJoined, ZenonT(60)
  <1> QED
    BY <1>2, <1>3 DEF Jobs, After, Others

\* with none or with one
LEMMA NothingMore ==
  ASSUME TypeInv, NEW t \in Threads, agenda[t] # <<>>, Go(t, <<>>)
  PROVE  Others(t) /\ Jobs(t)' = After(t)
  <1>1. <<>> \in Seq(Plain)
    BY PlainSteps
  <1>2. Others(t) /\ Jobs(t)' = ToSet(<<>>) \cup After(t)
    BY <1>1, GoJobs
  <1> QED
    BY <1>2, Elements

\* A step that makes one more leaves it with those after it.
LEMMA OneMore ==
  ASSUME TypeInv, NEW t \in Threads, agenda[t] # <<>>, NEW s \in Plain, Go(t, <<s>>)
  PROVE  Others(t) /\ Jobs(t)' = {s} \cup After(t)
  <1>1. <<s>> \in Seq(Plain)
    BY PlainSteps
  <1> QED
    BY <1>1, GoJobs, Elements

\* News is sent, or a job to send it is added to the others.
Tells(t, m, ys, others) ==
  \/ Jobs(t)' = {Do(m.kind, m.of, ys)} \cup others \cup After(t) /\ net' = net
  \/ Jobs(t)' = others \cup After(t) /\ Send(ys, m)

\* News is put on the agenda or sent.
LEMMA TellJobs ==
  ASSUME TypeInv, NEW t \in Threads, agenda[t] # <<>>,
         NEW kind \in {"NEW_SERVER", "REMOVE_SERVER", "REMOVE_CLIENT"},
         NEW v \in Servers \cup {None}, NEW ys \in SUBSET Xports, NEW steps \in Seq(Plain),
         Tell(t, Msg(kind, v), ys, steps)
  PROVE  /\ Tells(t, Msg(kind, v), ys, ToSet(steps))
         /\ Others(t)
  <1>1. Msg(kind, v).kind = kind /\ Msg(kind, v).of = v
    BY DEF Msg
  <1>2. CASE "write" \in Overlaps
    <2> DEFINE s == Do(kind, v, ys)
    <2>1. Go(t, <<s>> \o steps) /\ net' = net
      BY <1>1, <1>2 DEF Tell
    <2>2. <<s>> \in Seq(Plain)
      BY PlainSteps
    <2> HIDE DEF s
    <2>3. <<s>> \o steps \in Seq(Plain)
      BY <2>2, Joined
    <2>4. ToSet(<<s>> \o steps) = {s} \cup ToSet(steps)
      <3>1. ToSet(<<s>> \o steps) = ToSet(<<s>>) \cup ToSet(steps)
        BY <2>2, ElementsJoined, ZenonT(60)
      <3> QED BY <3>1, Elements
    <2>5. /\ Jobs(t)' = {s} \cup ToSet(steps) \cup After(t)
          /\ Others(t)
      BY <2>1, <2>3, <2>4, GoJobs
    <2> QED BY <1>1, <2>1, <2>5 DEF Tells, s
  <1>3. CASE "write" \notin Overlaps
    <2>1. Go(t, steps) /\ Send(ys, Msg(kind, v))
      BY <1>3 DEF Tell
    <2> QED BY <2>1, GoJobs DEF Tells
  <1> QED
    BY <1>2, <1>3

\* The step a thread is at is one of its jobs.
LEMMA NowJob ==
  ASSUME TypeInv, NEW t \in Threads, agenda[t] # <<>>
  PROVE  /\ Jobs(t) = {Now(t)} \cup After(t)
         /\ Now(t).do \in {"register", "hello"} => After(t) = {}
  <1>1. agenda[t] \in Seq(Steps)
    BY DEF TypeInv, TypeOK
  <1>2. Now(t).do \in {"register", "hello"} => Tail(agenda[t]) = <<>>
    BY NowType
  <1> QED
    BY <1>1, <1>2, ElementsHead, Elements DEF Jobs, After, Now

\* What a thread does that makes a step.
LEMMA WorkNow ==
  ASSUME TypeInv, NEW t \in Threads, Work(t)
  PROVE  /\ agenda[t] # <<>> /\ Jobs(t) = {Now(t)} \cup After(t)
         /\ Now(t) \in Steps /\ Now(t).xs \in SUBSET Xports /\ Now(t).of \in Servers \cup {None}
         /\ RouterOf(t) \in Routers
         /\ Now(t).do \in {"register", "hello"} => After(t) = {}
  <1>1. agenda[t] # <<>>
    BY DEF Work, Write, Register, Release, TellServer, DropServer, TellClient, DropClient,
           RemoveClient, XportUp, Advertise, XportDown, DownClients, Flush, CloseXport, Doing
  <1> QED
    BY <1>1, NowJob, NowType

\* What each step of a thread leaves it to do: nothing new,
LEMMA JobsDone ==
  ASSUME TypeInv, NEW t \in Threads,
         \/ Write(t) \/ Release(t) \/ DropServer(t) \/ DropClient(t) \/ Advertise(t) \/ Flush(t)
         \/ CloseXport(t)
  PROVE  Others(t) /\ Jobs(t)' = After(t)
  <1>1. agenda[t] # <<>> /\ Go(t, <<>>)
    BY DEF Write, Release, DropServer, DropClient, Advertise, Flush, CloseXport, Doing
  <1> QED
    BY <1>1, NothingMore

\* news of a server that is new,
LEMMA JobsRegister ==
  ASSUME TypeInv, NEW t \in Threads, Register(t)
  PROVE  /\ Others(t) /\ After(t) = {}
         /\ IF server[RouterOf(t)][Now(t).of] # None THEN Jobs(t)' = {} /\ net' = net
            ELSE Tells(t, Msg("NEW_SERVER", Now(t).of), Reach(RouterOf(t), Now(t).xs),
                       {Do("release", None, {})})
  <1> DEFINE n == RouterOf(t)
             v == Now(t).of
             ys == Reach(n, Now(t).xs)
             rel == <<Do("release", None, {})>>
  <1>1. agenda[t] # <<>> /\ Now(t).do = "register"
    BY DEF Register, Doing
  <1>2. v \in Servers \cup {None} /\ After(t) = {} /\ ys \in SUBSET Xports
    BY <1>1, NowType, NowJob DEF Reach
  <1>3. rel \in Seq(Plain) /\ ToSet(rel) = {Do("release", None, {})}
    BY PlainSteps, Elements
  <1>4. CASE server[n][v] # None
    <2>1. Go(t, <<>>) /\ net' = net
      BY <1>4 DEF Register
    <2> QED BY <1>1, <1>2, <1>4, <2>1, NothingMore
  <1>5. CASE ~(server[n][v] # None)
    <2>1. Tell(t, Msg("NEW_SERVER", v), ys, rel)
      BY <1>5 DEF Register
    <2> HIDE DEF rel, ys
    <2>2. Tells(t, Msg("NEW_SERVER", v), ys, ToSet(rel)) /\ Others(t)
      BY <1>1, <1>2, <1>3, <2>1, TellJobs
    <2> QED BY <1>2, <1>3, <1>5, <2>2 DEF ys
  <1> QED
    BY <1>4, <1>5

\* news of a server withdrawn and its removal,
LEMMA JobsTellServer ==
  ASSUME TypeInv, NEW t \in Threads, TellServer(t)
  PROVE  /\ Others(t)
         /\ Tells(t, Msg("REMOVE_SERVER", Now(t).of), Reach(RouterOf(t), Now(t).xs),
                  IF Now(t).do = "downServer" THEN {Do("dropServer", Now(t).of, {})} ELSE {})
  <1> DEFINE v == Now(t).of
             ys == Reach(RouterOf(t), Now(t).xs)
             next == IF Now(t).do = "downServer" THEN <<Do("dropServer", v, {})>> ELSE <<>>
  <1>1. agenda[t] # <<>>
    BY DEF TellServer, Doing
  <1>2. v \in Servers \cup {None} /\ ys \in SUBSET Xports
    BY <1>1, NowType DEF Reach
  <1>3. /\ next \in Seq(Plain)
        /\ ToSet(next) = IF Now(t).do = "downServer" THEN {Do("dropServer", v, {})} ELSE {}
    BY <1>2, PlainSteps, Elements
  <1>4. Tell(t, Msg("REMOVE_SERVER", v), ys, next)
    BY DEF TellServer, Doing
  <1> HIDE DEF next, ys
  <1>5. Tells(t, Msg("REMOVE_SERVER", v), ys, ToSet(next)) /\ Others(t)
    BY <1>1, <1>2, <1>3, <1>4, TellJobs
  <1> QED
    BY <1>3, <1>5 DEF ys

\* or of an endpoint,
LEMMA JobsTellClient ==
  ASSUME TypeInv, NEW t \in Threads, TellClient(t)
  PROVE  LET next == IF Now(t).do = "downClient" THEN {Do("dropClient", Now(t).of, {})} ELSE {}
         IN /\ Others(t)
            /\ \/ Tells(t, Msg("REMOVE_CLIENT", Now(t).of), Reach(RouterOf(t), Now(t).xs), next)
               \/ Jobs(t)' = next \cup After(t) /\ net' = net
  <1> DEFINE v == Now(t).of
             ys == Reach(RouterOf(t), Now(t).xs)
             next == IF Now(t).do = "downClient" THEN <<Do("dropClient", v, {})>> ELSE <<>>
  <1>1. agenda[t] # <<>>
    BY DEF TellClient, Doing
  <1>2. v \in Servers \cup {None} /\ ys \in SUBSET Xports
    BY <1>1, NowType DEF Reach
  <1>3. /\ next \in Seq(Plain)
        /\ ToSet(next) = IF Now(t).do = "downClient" THEN {Do("dropClient", v, {})} ELSE {}
    BY <1>2, PlainSteps, Elements
  <1>4. \/ Tell(t, Msg("REMOVE_CLIENT", v), ys, next)
        \/ Go(t, next) /\ net' = net
    BY DEF TellClient
  <1> HIDE DEF next, ys
  <1>5. CASE Tell(t, Msg("REMOVE_CLIENT", v), ys, next)
    <2>1. Tells(t, Msg("REMOVE_CLIENT", v), ys, ToSet(next)) /\ Others(t)
      BY <1>1, <1>2, <1>3, <1>5, TellJobs
    <2> QED BY <1>3, <2>1 DEF ys
  <1>6. CASE Go(t, next) /\ net' = net
    <2>1. Jobs(t)' = ToSet(next) \cup After(t) /\ Others(t)
      BY <1>1, <1>3, <1>6, GoJobs
    <2> QED BY <1>3, <1>6, <2>1
  <1> QED
    BY <1>4, <1>5, <1>6

\* the server of an endpoint,
LEMMA JobsRemoveClient ==
  ASSUME TypeInv, NEW t \in Threads, RemoveClient(t)
  PROVE  /\ Others(t)
         /\ \A s : s \in Jobs(t)' <=>
              \/ s \in After(t)
              \/ client[RouterOf(t)][Now(t).of] # None /\ s = Do("dropServer", Now(t).of, {})
  <1> DEFINE n == RouterOf(t)
             v == Now(t).of
  <1>1. agenda[t] # <<>>
    BY DEF RemoveClient, Doing
  <1>2. Do("dropServer", v, {}) \in Plain
    BY <1>1, NowType, PlainSteps
  <1>3. CASE client[n][v] # None
    <2>1. Go(t, <<Do("dropServer", v, {})>>)
      BY <1>3 DEF RemoveClient
    <2>2. Others(t) /\ Jobs(t)' = {Do("dropServer", v, {})} \cup After(t)
      BY <1>1, <1>2, <2>1, OneMore
    <2> QED BY <1>3, <2>2
  <1>4. CASE ~(client[n][v] # None)
    <2>1. Go(t, <<>>)
      BY <1>4 DEF RemoveClient
    <2> QED BY <1>1, <1>4, <2>1, NothingMore
  <1> QED
    BY <1>3, <1>4

\* the servers known,
LEMMA JobsUp ==
  ASSUME TypeInv, NEW t \in Threads, XportUp(t)
  PROVE  /\ Others(t) /\ After(t) = {}
         /\ \A s : s \in Jobs(t)' <=>
              \/ s = Do("release", None, {})
              \/ \E w \in Servers : server[RouterOf(t)][w] # None /\ s = Do("advertise", w, Now(t).xs)
  <1> DEFINE xs == Now(t).xs
             V == {w \in Servers : server[RouterOf(t)][w] # None}
             list == ListOf("advertise", V, xs)
             rel == <<Do("release", None, {})>>
  <1>1. agenda[t] # <<>> /\ Now(t).do = "hello" /\ Go(t, list \o rel)
    BY DEF XportUp, Doing, ListOf
  <1>2. xs \in SUBSET Xports /\ After(t) = {}
    BY <1>1, NowType, NowJob
  <1>3. list \in Seq(Plain) /\ ToSet(list) = {Do("advertise", w, xs) : w \in V}
    <2>1. V \in SUBSET Servers /\ \A w \in V : Do("advertise", w, xs) \in Plain
      BY <1>2, PlainSteps
    <2> HIDE DEF V
    <2> QED BY <2>1, StepsListed
  <1>4. rel \in Seq(Plain) /\ ToSet(rel) = {Do("release", None, {})}
    BY PlainSteps, Elements
  <1> HIDE DEF list, rel
  <1>5. list \o rel \in Seq(Plain) /\ ToSet(list \o rel) = ToSet(list) \cup ToSet(rel)
    BY <1>3, <1>4, Joined, ElementsJoined
  <1>6. Others(t) /\ Jobs(t)' = ToSet(list \o rel) \cup After(t)
    BY <1>1, <1>5, GoJobs
  <1> QED
    BY <1>2, <1>3, <1>4, <1>5, <1>6

\* those known over a transport
LEMMA JobsDown ==
  ASSUME TypeInv, NEW t \in Threads, XportDown(t)
  PROVE  /\ Others(t)
         /\ \A s : s \in Jobs(t)' <=>
              \/ s \in After(t)
              \/ s = Do("downClients", None, Now(t).xs)
              \/ \E w \in Servers : server[RouterOf(t)][w] \in Now(t).xs
                                   /\ s = Do("downServer", w, Now(t).xs)
  <1> DEFINE xs == Now(t).xs
             V == {w \in Servers : server[RouterOf(t)][w] \in xs}
             list == ListOf("downServer", V, xs)
             rest == <<Do("downClients", None, xs)>>
  <1>1. agenda[t] # <<>> /\ Go(t, list \o rest)
    BY DEF XportDown, Doing, ListOf
  <1>2. xs \in SUBSET Xports
    BY <1>1, NowType
  <1>3. list \in Seq(Plain) /\ ToSet(list) = {Do("downServer", w, xs) : w \in V}
    <2>1. V \in SUBSET Servers /\ \A w \in V : Do("downServer", w, xs) \in Plain
      BY <1>2, PlainSteps
    <2> HIDE DEF V
    <2> QED BY <2>1, StepsListed
  <1>4. rest \in Seq(Plain) /\ ToSet(rest) = {Do("downClients", None, xs)}
    BY <1>2, PlainSteps, Elements
  <1> HIDE DEF list, rest
  <1>5. list \o rest \in Seq(Plain) /\ ToSet(list \o rest) = ToSet(list) \cup ToSet(rest)
    BY <1>3, <1>4, Joined, ElementsJoined
  <1>6. Others(t) /\ Jobs(t)' = ToSet(list \o rest) \cup After(t)
    BY <1>1, <1>5, GoJobs
  <1> QED
    BY <1>3, <1>4, <1>5, <1>6

\* and their endpoints.
LEMMA JobsDownClients ==
  ASSUME TypeInv, NEW t \in Threads, DownClients(t)
  PROVE  /\ Others(t)
         /\ \A s : s \in Jobs(t)' <=>
              \/ s \in After(t)
              \/ \E w \in Servers : client[RouterOf(t)][w] \in Now(t).xs
                                   /\ s = Do("downClient", w, Now(t).xs)
  <1> DEFINE xs == Now(t).xs
             V == {w \in Servers : client[RouterOf(t)][w] \in xs}
             list == ListOf("downClient", V, xs)
  <1>1. agenda[t] # <<>> /\ Go(t, list)
    BY DEF DownClients, Doing, ListOf
  <1>2. xs \in SUBSET Xports
    BY <1>1, NowType
  <1>3. list \in Seq(Plain) /\ ToSet(list) = {Do("downClient", w, xs) : w \in V}
    <2>1. V \in SUBSET Servers /\ \A w \in V : Do("downClient", w, xs) \in Plain
      BY <1>2, PlainSteps
    <2> HIDE DEF V
    <2> QED BY <2>1, StepsListed
  <1> HIDE DEF list
  <1>4. Others(t) /\ Jobs(t)' = ToSet(list) \cup After(t)
    BY <1>1, <1>3, GoJobs
  <1> QED
    BY <1>3, <1>4

\* No step changes what other threads have to do.
LEMMA WorkOthers ==
  ASSUME TypeInv, NEW t \in Threads, Work(t)
  PROVE  Others(t)
  BY JobsDone, JobsRegister, JobsTellServer, JobsTellClient, JobsRemoveClient, JobsUp, JobsDown,
     JobsDownClients DEF Work

-----------------------------------------------------------------------------
(***************************************************************************)
(* The network                                                             *)
(***************************************************************************)

\* A tree has no cycle.
LEMMA TreeHasNoCycle ==
  ASSUME NEW side, Tree(side), Connected
  PROVE  NoCycle(side)
  <1> SUFFICES ASSUME NEW x \in Xports
               PROVE  /\ x[1] \in side[x] /\ x[2] \notin side[x]
                      /\ \A y \in Xports : y[2] = x[1] /\ y # There(x) => side[y] \subseteq side[x]
    BY DEF NoCycle
  <1>1. /\ There(x) \in Xports /\ There(There(x)) = x
        /\ There(x)[1] = x[2] /\ There(x)[2] = x[1]
    BY Both
  <1>2. x[1] \in side[x] /\ x[2] \notin side[x]
    BY <1>1 DEF Tree
  <1>3. ASSUME NEW y \in Xports, y[2] = x[1], y # There(x) PROVE side[y] \subseteq side[x]
    <2> DEFINE S == side[y] \ side[x]
    <2>1. /\ There(y) \in Xports /\ There(There(y)) = y
          /\ There(y)[1] = y[2] /\ There(y)[2] = y[1] /\ x[1] \in Routers
      BY Both
    <2>2. /\ side[y] \subseteq Routers /\ y[1] \in side[y] /\ y[2] \notin side[y]
      BY <2>1 DEF Tree
    <2>3. y # x
      BY <1>2, <1>3, <2>2
    <2>4. x \notin {y, There(y)} /\ y \notin {x, There(x)}
      BY <1>1, <1>3, <2>1, <2>3
    <2>5. There(x) \notin {y, There(y)}
      BY <1>1, <2>1, <2>4
    <2>6. y[1] \in side[x]
      <3>1. y[2] \in side[x]
        BY <1>2, <1>3
      <3> QED BY <2>4, <3>1 DEF Tree
    <2>7. x[2] \notin side[y]
      <3>1. x[1] \notin side[y]
        BY <1>3, <2>2
      <3> QED BY <2>4, <3>1 DEF Tree
    <2>8. \A z \in Xports : z[1] \in S => z[2] \in S
      <3> SUFFICES ASSUME NEW z \in Xports, z[1] \in S PROVE z[2] \in S
        OBVIOUS
      <3>1. z # x
        BY <1>2
      <3>2. z # There(x)
        BY <1>1, <2>7
      <3>3. z # y
        BY <2>6
      <3>4. z # There(y)
        BY <2>1, <2>2
      <3>5. z[2] \in side[y]
        BY <3>3, <3>4 DEF Tree
      <3>6. z[2] \notin side[x]
        BY <3>1, <3>2 DEF Tree
      <3> QED BY <3>5, <3>6
    <2>9. S \in SUBSET Routers /\ x[1] \notin S
      BY <1>2, <2>2
    <2>10. S = {}
      <3> HIDE DEF S
      <3> QED BY <2>1, <2>8, <2>9 DEF Connected
    <2> QED BY <2>10
  <1> QED
    BY <1>2, <1>3

\* What proofs need of the network
Ways(side) ==
  /\ NoCycle(side)
  /\ \A x \in Xports : side[x] \cap side[There(x)] = {}
  /\ OwnNetworks

\* The servers that a transport leads to
Beyond(side, t) == {v \in Servers : HomeOf[v] \in side[There(t)]}

\* A router has one way to a server, and none to its own.
LEMMA OneWay ==
  ASSUME NEW side, Ways(side), NEW x \in Xports, NEW v \in Beyond(side, x)
  PROVE  /\ v \in Servers /\ HomeOf[v] # x[1]
         /\ \A y \in Xports : y[1] = x[1] /\ y # x => v \notin Beyond(side, y) /\ HomeOf[v] \in side[y]
  <1>1. There(x) \in Xports /\ There(x)[2] = x[1]
    BY Both
  <1>2. v \in Servers /\ HomeOf[v] \in side[There(x)] /\ HomeOf[v] # x[1]
    BY <1>1 DEF Beyond, Ways, NoCycle
  <1>3. ASSUME NEW y \in Xports, y[1] = x[1], y # x
        PROVE  v \notin Beyond(side, y) /\ HomeOf[v] \in side[y]
    <2>1. HomeOf[v] \in side[y]
      BY <1>2, <1>3, FarSide DEF Ways
    <2> QED BY <2>1 DEF Beyond, Ways
  <1> QED
    BY <1>2, <1>3

\* What is known from a transport is beyond it, nothing else.
LEMMA WhereKnown ==
  ASSUME NEW side, Ways(side), NEW table, Known(side, table), NEW n \in Routers, NEW v \in Servers
  PROVE  /\ table[n][v] \in Xports =>
              table[n][v][1] = n /\ v \in Beyond(side, table[n][v])
         /\ \A z \in Xports : z[1] = n /\ v \in Beyond(side, z) => table[n][v] \in {None, z}
         /\ table[n][v] \in {None, Local} \cup Xports
         /\ table[n][v] = Local => n = HomeOf[v]
  <1>1. table[n][v] \in Place(side, n, v)
    BY DEF Known
  <1>2. Local \notin Xports /\ None \notin Xports /\ Local # None
    BY NamingAssumption
  <1>3. ASSUME table[n][v] \in Xports
        PROVE  table[n][v][1] = n /\ v \in Beyond(side, table[n][v])
    BY <1>1, <1>2, <1>3 DEF Place, Beyond
  <1>4. ASSUME NEW z \in Xports, z[1] = n, v \in Beyond(side, z) PROVE table[n][v] \in {None, z}
    <2>1. HomeOf[v] # n
      BY <1>4, OneWay
    <2>2. CASE table[n][v] \in Xports
      BY <1>3, <1>4, <2>2, OneWay
    <2> QED BY <1>1, <2>1, <2>2 DEF Place
  <1> QED
    BY <1>1, <1>2, <1>3, <1>4 DEF Place

-----------------------------------------------------------------------------
(***************************************************************************)
(* The order of steps                                                      *)
(***************************************************************************)

Final == {"close", "flush"}

InOrder(q) == \A i, j \in DOMAIN q : i < j =>
  /\ q[i].do \notin Final
  /\ q[i].do \in {"down", "downClients"} => q[j].do \in Final

\* Transports are closed and flushed last, and endpoints after servers.
Ordered == \A t \in Threads : InOrder(agenda[t])

\* After the step it is at
LEMMA OrderedNow ==
  ASSUME TypeInv, Ordered, NEW t \in Threads, agenda[t] # <<>>
  PROVE  /\ Now(t).do \in Final => After(t) = {}
         /\ Now(t).do \in {"down", "downClients"} => \A s \in After(t) : s.do \in Final
  <1>1. agenda[t] \in Seq(Steps)
    BY DEF TypeInv, TypeOK
  <1> DEFINE q == Tail(agenda[t])
  <1>2. /\ Len(agenda[t]) \in Nat \ {0} /\ DOMAIN agenda[t] = 1..Len(agenda[t])
        /\ Now(t) = agenda[t][1]
        /\ DOMAIN q = 1..(Len(agenda[t]) - 1)
        /\ \A i \in DOMAIN q : q[i] = agenda[t][i + 1]
    BY <1>1 DEF Now
  <1> HIDE DEF q
  <1>3. ASSUME NEW i \in DOMAIN q
        PROVE  /\ Now(t).do \notin Final
               /\ Now(t).do \in {"down", "downClients"} => q[i].do \in Final
    <2>1. 1 \in DOMAIN agenda[t] /\ i + 1 \in DOMAIN agenda[t] /\ 1 < i + 1
      BY <1>2
    <2> QED BY <1>2, <2>1 DEF Ordered, InOrder
  <1>4. After(t) = {q[i] : i \in DOMAIN q}
    BY DEF After, ToSet, q
  <1> QED
    BY <1>3, <1>4

\* Steps that are not of this kind may come before others.
Simple == {s \in Steps : s.do \notin Final \cup {"down", "downClients"}}

\* Simple steps come before others in order.
LEMMA SimpleFirst ==
  ASSUME NEW p \in Seq(Simple), NEW q \in Seq(Steps), InOrder(q)
  PROVE  InOrder(p \o q)
  <1> DEFINE r == p \o q
  <1>1. /\ Len(p) \in Nat /\ Len(q) \in Nat /\ DOMAIN p = 1..Len(p) /\ DOMAIN q = 1..Len(q)
        /\ DOMAIN r = 1..(Len(p) + Len(q))
        /\ \A i \in 1..(Len(p) + Len(q)) : r[i] = IF i <= Len(p) THEN p[i] ELSE q[i - Len(p)]
    OBVIOUS
  <1>2. \A i \in DOMAIN p : p[i].do \notin Final \cup {"down", "downClients"}
    BY DEF Simple
  <1> HIDE DEF r
  <1>3. ASSUME NEW i \in DOMAIN r, NEW j \in DOMAIN r, i < j
        PROVE  /\ r[i].do \notin Final
               /\ r[i].do \in {"down", "downClients"} => r[j].do \in Final
    <2>1. CASE i <= Len(p)
      <3>1. i \in DOMAIN p /\ r[i] = p[i]
        BY <1>1, <2>1
      <3> QED BY <1>2, <3>1
    <2>2. CASE ~(i <= Len(p))
      <3> DEFINE a == i - Len(p)
                 b == j - Len(p)
      <3>1. /\ a \in DOMAIN q /\ b \in DOMAIN q /\ a < b
            /\ r[i] = q[a] /\ r[j] = q[b]
        BY <1>1, <1>3, <2>2
      <3> HIDE DEF a, b
      <3> QED BY <3>1 DEF InOrder
    <2> QED BY <2>1, <2>2
  <1> QED
    BY <1>3 DEF InOrder, r

\* What comes after the first step is in order.
LEMMA TailInOrder ==
  ASSUME NEW q \in Seq(Steps), q # <<>>, InOrder(q)
  PROVE  InOrder(Tail(q))
  <1>1. PICK r : r = Tail(q)
    OBVIOUS
  <1>2. /\ Len(q) \in Nat /\ DOMAIN r = 1..(Len(q) - 1) /\ DOMAIN q = 1..Len(q)
        /\ \A i \in DOMAIN r : r[i] = q[i + 1]
    BY <1>1
  <1>3. ASSUME NEW i \in DOMAIN r, NEW j \in DOMAIN r, i < j
        PROVE  /\ r[i].do \notin Final
               /\ r[i].do \in {"down", "downClients"} => r[j].do \in Final
    <2>1. i + 1 \in DOMAIN q /\ j + 1 \in DOMAIN q /\ i + 1 < j + 1
      BY <1>2, <1>3
    <2>2. r[i] = q[i + 1] /\ r[j] = q[j + 1]
      BY <1>2
    <2> QED BY <2>1, <2>2 DEF InOrder
  <1> QED
    BY <1>1, <1>3 DEF InOrder

\* A step comes before others in order.
LEMMA FirstInOrder ==
  ASSUME NEW s \in Steps, NEW q \in Seq(Steps), InOrder(q), s.do \notin Final,
         s.do \in {"down", "downClients"} => \A r \in ToSet(q) : r.do \in Final
  PROVE  InOrder(<<s>> \o q)
  <1>1. PICK r : r = <<s>> \o q
    OBVIOUS
  <1>2. /\ Len(q) \in Nat /\ DOMAIN r = 1..(Len(q) + 1) /\ DOMAIN q = 1..Len(q)
        /\ r[1] = s /\ \A i \in DOMAIN r : i # 1 => r[i] = q[i - 1]
    BY <1>1
  <1>3. ASSUME NEW i \in DOMAIN r, NEW j \in DOMAIN r, i < j
        PROVE  /\ r[i].do \notin Final
               /\ r[i].do \in {"down", "downClients"} => r[j].do \in Final
    <2>1. j - 1 \in DOMAIN q /\ r[j] = q[j - 1]
      BY <1>2, <1>3
    <2>2. CASE i = 1
      <3>1. r[j] \in ToSet(q)
        BY <2>1 DEF ToSet
      <3> QED BY <1>2, <2>2, <3>1
    <2>3. CASE i # 1
      <3>1. i - 1 \in DOMAIN q /\ r[i] = q[i - 1] /\ i - 1 < j - 1
        BY <1>2, <1>3, <2>3
      <3> QED BY <2>1, <3>1 DEF InOrder
    <2> QED BY <2>2, <2>3
  <1> QED
    BY <1>1, <1>3 DEF InOrder

\* Lists of one or two steps
LEMMA ShortInOrder ==
  /\ InOrder(<<>>)
  /\ \A s : InOrder(<<s>>)
  /\ \A s, r : s.do \notin Final /\ (s.do \in {"down", "downClients"} => r.do \in Final)
       => InOrder(<<s, r>>)
  <1>1. InOrder(<<>>) /\ \A s : InOrder(<<s>>)
    BY DEF InOrder
  <1>2. ASSUME NEW s, NEW r, s.do \notin Final, s.do \in {"down", "downClients"} => r.do \in Final
        PROVE  InOrder(<<s, r>>)
    <2>1. PICK q : q = <<s, r>>
      OBVIOUS
    <2>2. DOMAIN q = 1..2 /\ q[1] = s /\ q[2] = r
      BY <2>1
    <2>3. \A i, j \in 1..2 : i < j => i = 1 /\ j = 2
      OBVIOUS
    <2> QED BY <1>2, <2>1, <2>2, <2>3 DEF InOrder
  <1> QED
    BY <1>1, <1>2

\* A set of steps listed
LEMMA ListedIn ==
  ASSUME NEW V \in SUBSET Servers, NEW what, NEW xs, NEW A, \A w \in V : Do(what, w, xs) \in A
  PROVE  ListOf(what, V, xs) \in Seq(A)
  <1>1. PICK vs : vs = SetToSeq(V)
    OBVIOUS
  <1>2. vs \in Seq(V) /\ Len(vs) \in Nat /\ DOMAIN vs = 1..Len(vs)
    BY <1>1, ServersListed
  <1>3. \A i \in DOMAIN vs : Do(what, vs[i], xs) \in A
    BY <1>2
  <1> QED
    BY <1>1, <1>2, <1>3 DEF ListOf

\* Steps other than falls and ends are simple.
LEMMA SimpleSteps ==
  /\ <<>> \in Seq(Simple)
  /\ \A s \in Simple : <<s>> \in Seq(Simple)
  /\ Seq(Simple) \subseteq Seq(Steps)
  /\ \A what \in {"release", "dropServer", "downServer", "dropClient", "downClient", "advertise",
                  "NEW_SERVER", "REMOVE_SERVER", "REMOVE_CLIENT"},
        v \in Servers \cup {None}, xs \in SUBSET Xports : Do(what, v, xs) \in Simple
  <1>1. <<>> \in Seq(Simple) /\ \A s \in Simple : <<s>> \in Seq(Simple)
    OBVIOUS
  <1>2. Simple \subseteq Steps
    BY DEF Simple
  <1>3. \A what \in {"release", "dropServer", "downServer", "dropClient", "downClient", "advertise",
                     "NEW_SERVER", "REMOVE_SERVER", "REMOVE_CLIENT"},
           v \in Servers \cup {None}, xs \in SUBSET Xports : Do(what, v, xs) \in Simple
    BY DEF Simple, Steps, Do, Final
  <1>4. Seq(Simple) \subseteq Seq(Steps)
    BY <1>2
  <1> QED
    BY <1>1, <1>3, <1>4

\* What is told makes simple steps.
LEMMA TellSimple ==
  ASSUME NEW t \in Threads, NEW kind \in {"NEW_SERVER", "REMOVE_SERVER", "REMOVE_CLIENT"},
         NEW v \in Servers \cup {None}, NEW ys \in SUBSET Xports, NEW steps \in Seq(Simple),
         Tell(t, Msg(kind, v), ys, steps)
  PROVE  \E p \in Seq(Simple) : Go(t, p)
  <1>1. Msg(kind, v).kind = kind /\ Msg(kind, v).of = v
    BY DEF Msg
  <1>2. <<Do(kind, v, ys)>> \in Seq(Simple)
    BY SimpleSteps
  <1>3. <<Do(kind, v, ys)>> \o steps \in Seq(Simple)
    BY <1>2, Joined
  <1> QED
    BY <1>1, <1>3 DEF Tell

\* The steps of a thread keep the order.
LEMMA WorkOrdered ==
  ASSUME TypeInv, Ordered, NEW t \in Threads, Work(t)
  PROVE  Ordered'
  <1> DEFINE n == RouterOf(t)
             v == Now(t).of
             xs == Now(t).xs
  <1>1. agenda[t] # <<>>
    BY DEF Work, Write, Register, Release, TellServer, DropServer, TellClient, DropClient,
           RemoveClient, XportUp, Advertise, XportDown, DownClients, Flush, CloseXport, Doing
  <1>2. /\ Now(t) \in Steps /\ xs \in SUBSET Xports /\ v \in Servers \cup {None}
        /\ Tail(agenda[t]) \in Seq(Steps) /\ agenda \in [Threads -> Seq(Steps)]
    BY <1>1, NowType, PlainSteps DEF TypeInv, TypeOK
  <1>3. \A ys : Reach(n, ys) \in SUBSET Xports
    BY DEF Reach
  <1>4. InOrder(Tail(agenda[t]))
    BY <1>1, <1>2, TailInOrder DEF Ordered
  <1>5. ASSUME NEW p \in Seq(Steps), Go(t, p), InOrder(p \o Tail(agenda[t]))
        PROVE  Ordered'
    <2>1. /\ agenda'[t] = p \o Tail(agenda[t])
          /\ \A u \in Threads : u # t => agenda'[u] = agenda[u]
      BY <1>2, <1>5 DEF Go
    <2> QED BY <1>5, <2>1 DEF Ordered
  <1>6. SUFFICES (\E p \in Seq(Simple) : Go(t, p)) \/ XportDown(t)
    <2>1. ASSUME NEW p \in Seq(Simple), Go(t, p) PROVE Ordered'
      <3>1. InOrder(p \o Tail(agenda[t])) /\ p \in Seq(Steps)
        BY <1>2, <1>4, SimpleFirst, SimpleSteps
      <3> QED BY <1>5, <2>1, <3>1
    <2>2. ASSUME XportDown(t) PROVE Ordered'
      <3> DEFINE V == {w \in Servers : server[n][w] \in xs}
                 list == ListOf("downServer", V, xs)
                 s == Do("downClients", None, xs)
                 q == Tail(agenda[t])
      <3>1. Go(t, list \o <<s>>) /\ Now(t).do = "down"
        BY <2>2 DEF XportDown, ListOf, Doing
      <3>2. list \in Seq(Simple) /\ list \in Seq(Steps)
        <4>1. V \in SUBSET Servers /\ \A w \in V : Do("downServer", w, xs) \in Simple
          BY <1>2, SimpleSteps
        <4> HIDE DEF V
        <4> QED BY <4>1, ListedIn, SimpleSteps
      <3>3. s \in Steps /\ s.do = "downClients"
        BY <1>2 DEF Steps, Do
      <3>4. \A r \in ToSet(q) : r.do \in Final
        BY <1>1, <3>1, OrderedNow DEF After
      <3>5. q \in Seq(Steps) /\ InOrder(q)
        BY <1>2, <1>4
      <3> HIDE DEF list, s, q
      <3>6. InOrder(<<s>> \o q) /\ <<s>> \o q \in Seq(Steps) /\ <<s>> \in Seq(Steps)
        BY <3>3, <3>4, <3>5, FirstInOrder DEF Final
      <3>7. InOrder(list \o (<<s>> \o q))
        BY <3>2, <3>6, SimpleFirst
      <3>8. (list \o <<s>>) \o q = list \o (<<s>> \o q)
        BY <3>2, <3>5, <3>6
      <3>9. list \o <<s>> \in Seq(Steps)
        BY <3>2, <3>6, Joined
      <3> QED BY <1>5, <3>1, <3>7, <3>8, <3>9 DEF q
    <2> QED BY <2>1, <2>2
  <1>7. \A what \in {"release", "dropServer", "dropClient"} : \A ys \in {{}} :
          <<Do(what, v, {})>> \in Seq(Simple) /\ <<Do(what, None, {})>> \in Seq(Simple)
    BY <1>2, SimpleSteps
  <1>8. <<>> \in Seq(Simple)
    BY SimpleSteps
  <1>9. CASE Write(t) \/ Release(t) \/ DropServer(t) \/ DropClient(t) \/ Advertise(t) \/ Flush(t)
               \/ CloseXport(t)
    BY <1>8, <1>9 DEF Write, Release, DropServer, DropClient, Advertise, Flush, CloseXport
  <1>10. CASE Register(t)
    <2>1. \/ Go(t, <<>>)
          \/ Tell(t, Msg("NEW_SERVER", v), Reach(n, xs), <<Do("release", None, {})>>)
      BY <1>10 DEF Register
    <2> QED BY <1>2, <1>3, <1>7, <1>8, <2>1, TellSimple
  <1>11. CASE TellServer(t)
    <2>1. PICK p : /\ p \in {<<Do("dropServer", v, {})>>, <<>>}
                   /\ Tell(t, Msg("REMOVE_SERVER", v), Reach(n, xs), p)
      BY <1>11 DEF TellServer
    <2> QED BY <1>2, <1>3, <1>7, <1>8, <2>1, TellSimple
  <1>12. CASE TellClient(t)
    <2>1. PICK p : /\ p \in {<<Do("dropClient", v, {})>>, <<>>}
                   /\ \/ Tell(t, Msg("REMOVE_CLIENT", v), Reach(n, xs), p)
                      \/ Go(t, p)
      BY <1>12 DEF TellClient
    <2> QED BY <1>2, <1>3, <1>7, <1>8, <2>1, TellSimple
  <1>13. CASE RemoveClient(t)
    <2>1. PICK p : p \in {<<Do("dropServer", v, {})>>, <<>>} /\ Go(t, p)
      BY <1>13 DEF RemoveClient
    <2> QED BY <1>7, <1>8, <2>1
  <1>14. CASE XportUp(t)
    <2> DEFINE V == {w \in Servers : server[n][w] # None}
               list == ListOf("advertise", V, xs)
               rel == <<Do("release", None, {})>>
    <2>1. Go(t, list \o rel)
      BY <1>14 DEF XportUp, ListOf
    <2>2. list \in Seq(Simple)
      <3>1. V \in SUBSET Servers /\ \A w \in V : Do("advertise", w, xs) \in Simple
        BY <1>2, SimpleSteps
      <3> HIDE DEF V
      <3> QED BY <3>1, ListedIn
    <2>3. rel \in Seq(Simple)
      BY <1>7
    <2> HIDE DEF list, rel
    <2> QED BY <2>1, <2>2, <2>3, Joined
  <1>15. CASE DownClients(t)
    <2> DEFINE V == {w \in Servers : client[n][w] \in xs}
    <2>1. Go(t, ListOf("downClient", V, xs))
      BY <1>15 DEF DownClients, ListOf
    <2>2. V \in SUBSET Servers /\ \A w \in V : Do("downClient", w, xs) \in Simple
      BY <1>2, SimpleSteps
    <2> HIDE DEF V
    <2> QED BY <2>1, <2>2, ListedIn
  <1> QED
    BY <1>9, <1>10, <1>11, <1>12, <1>13, <1>14, <1>15 DEF Work

\* Nothing but a Work step or a restart changes a list of steps that is not empty.
LEMMA OtherOrdered ==
  ASSUME TypeInv, Ordered,
         \/ \E v \in Servers : RegServer(v) \/ DeregServer(v) \/ Close(v)
         \/ \E x \in Xports : StartXport(x) \/ StopXport(x) \/ Signalled(x)
         \/ \E n \in Routers : Restart(n)
  PROVE  Ordered'
  <1>1. agenda \in [Threads -> Seq(Steps)]
    BY DEF TypeInv, TypeOK
  <1>2. \A x \in Xports : x \in Threads /\ x[1] \in Threads
    BY Both DEF Threads
  <1>3. \A v \in Servers : HomeOf[v] \in Threads
    BY NamingAssumption DEF Threads
  <1>4. ASSUME NEW t \in Threads, NEW q, agenda' = [agenda EXCEPT ![t] = q], InOrder(q)
        PROVE  Ordered'
    BY <1>1, <1>4 DEF Ordered
  <1>5. \A what, v, xs : Do(what, v, xs).do = what
    BY DEF Do
  <1>6. ASSUME NEW v \in Servers, RegServer(v) \/ DeregServer(v) \/ Close(v) PROVE Ordered'
    <2>1. PICK q : /\ agenda' = [agenda EXCEPT ![HomeOf[v]] = q]
                   /\ \/ q = <<Do("register", v, {})>> \/ q = <<Do("tellServer", v, {})>>
                      \/ q = <<Do("tellClient", v, {}), Do("removeClient", v, {})>>
      BY <1>6 DEF RegServer, DeregServer, Close, Begin
    <2>2. InOrder(q)
      BY <1>5, <2>1, ShortInOrder DEF Final
    <2> QED BY <1>3, <1>4, <2>1, <2>2
  <1>7. ASSUME NEW x \in Xports, StartXport(x) \/ StopXport(x) \/ Signalled(x) PROVE Ordered'
    <2>1. CASE StartXport(x) \/ Open(x)
      BY <2>1 DEF StartXport, Open, threads, Ordered
    <2>2. CASE StopXport(x)
      <3>1. agenda' = [agenda EXCEPT ![x[1]] = <<Do("down", None, {x}), Do("close", None, {x})>>]
        BY <2>2 DEF StopXport
      <3>2. InOrder(<<Do("down", None, {x}), Do("close", None, {x})>>)
        BY <1>5, ShortInOrder DEF Final
      <3> QED BY <1>2, <1>4, <3>1, <3>2
    <2>3. CASE RemoteClose(x)
      <3>1. PICK q : /\ agenda' = [agenda EXCEPT ![x] = q]
                     /\ \/ q = <<Do("down", None, {x})>> \o <<Do("flush", None, {x})>>
                        \/ q = <<>> \o <<Do("flush", None, {x})>>
        BY <2>3 DEF RemoteClose
      <3>2. \/ q = <<Do("down", None, {x}), Do("flush", None, {x})>>
            \/ q = <<Do("flush", None, {x})>>
        BY <3>1
      <3>3. InOrder(q)
        BY <1>5, <3>2, ShortInOrder DEF Final
      <3> QED BY <1>2, <1>4, <3>1, <3>3
    <2>4. CASE Receive(x)
      <3> DEFINE m == Head(net[There(x)])
      <3>1. m.kind \in {"HELLO", "BYE", "NEW_SERVER", "REMOVE_SERVER", "REMOVE_CLIENT"}
        <4>1. net[There(x)] \in Seq(Message) /\ net[There(x)] # <<>>
          BY <2>4, Both DEF Receive, TypeInv, TypeOK
        <4>2. m \in Message
          BY <4>1, HeadTail
        <4> QED BY <4>2 DEF Message
      <3>2. PICK q : /\ agenda' = [agenda EXCEPT ![x] = q]
                     /\ \/ \E s : q = <<s>>
                        \/ q = <<>>
                        \/ q = <<Do("dropServer", m.of, {x}), Do("tellServer", m.of, {x})>>
                        \/ q = <<Do("tellClient", m.of, {x}), Do("removeClient", m.of, {x})>>
        BY <2>4, <3>1 DEF Receive
      <3>3. InOrder(q)
        BY <1>5, <3>2, ShortInOrder DEF Final
      <3> QED BY <1>2, <1>4, <3>2, <3>3
    <2> QED BY <1>7, <2>1, <2>2, <2>3, <2>4 DEF Signalled
  <1>8. ASSUME NEW n \in Routers, Restart(n) PROVE Ordered'
    <2>1. \A t \in Threads : agenda'[t] = <<>> \/ agenda'[t] = agenda[t]
      BY <1>8 DEF Restart
    <2> QED BY <2>1, ShortInOrder DEF Ordered
  <1> QED
    BY <1>6, <1>7, <1>8

-----------------------------------------------------------------------------
(***************************************************************************)
(* Whose news a thread tells                                               *)
(***************************************************************************)

Writes == {"NEW_SERVER", "REMOVE_SERVER", "REMOVE_CLIENT"}

\* steps about a server
News == Writes \cup {"register", "tellServer", "dropServer", "downServer",
                     "tellClient", "dropClient", "downClient", "removeClient"}

\* steps for what came from a transport
Sourced == {"register", "tellServer", "downServer", "tellClient", "downClient", "down",
            "downClients"}

\* A step that has to do with what came from transport z
FromIt(side, z, s) ==
  /\ s.do \in News => s.of \in Beyond(side, z)
  /\ s.do \in Sourced => s.xs = {z}
  /\ s.do \in Writes => \A y \in s.xs : y \in Xports /\ y[1] = z[1] /\ y # z

\* Workers do what comes from their transport, ...
OfWorker(side, z, s) ==
  /\ FromIt(side, z, s) /\ s.do # "close"
  /\ s.do = "advertise" => s.of \in Servers

\* ... application threads what is about their own servers ...
OfApp(n, s) ==
  /\ s.do \in Writes \cup {"register", "tellServer", "dropServer", "tellClient", "removeClient",
                           "release"}
  /\ s.do # "release" => s.of \in Servers /\ HomeOf[s.of] = n
  /\ s.do \in Sourced => s.xs = {}
  /\ s.do \in Writes => \A y \in s.xs : y \in Xports /\ y[1] = n

\* ... or, when they close a transport whose worker is idle then, what came from it.
Closes(z) == Do("close", None, {z})
Closing(z) == Closes(z) \in Jobs(z[1])

OfFall(side, z, s) ==
  /\ FromIt(side, z, s)
  /\ s.do \in {"down", "downClients", "downServer", "dropServer", "downClient", "dropClient",
               "REMOVE_SERVER", "REMOVE_CLIENT"}

Falls(side, z) ==
  /\ agenda[z] = <<>> /\ Closing(z)
  /\ \A s \in Jobs(z[1]) : s = Closes(z) \/ OfFall(side, z, s)

\* Withdrawals go away from the router of the server, BYE goes before a close.
MayCarry(side, y, m) ==
  /\ m.kind \in {"REMOVE_SERVER", "REMOVE_CLIENT"} => m.of \in Servers /\ HomeOf[m.of] \in side[y]
  /\ m.kind = "BYE" => Closing(y)

Sided(side) ==
  /\ \A z \in Xports : \A s \in Jobs(z) : OfWorker(side, z, s)
  /\ \A n \in Routers : \/ \A s \in Jobs(n) : OfApp(n, s)
                        \/ \E z \in Xports : z[1] = n /\ Falls(side, z)
  /\ \A y \in Xports : \A m \in ToSet(net[y]) : MayCarry(side, y, m)

\* The fields of a step.
LEMMA DoFields ==
  \A what, v, xs : Do(what, v, xs).do = what /\ Do(what, v, xs).of = v /\ Do(what, v, xs).xs = xs
  BY DEF Do

\* What a step about something from a transport leaves to do is about it too.
LEMMA WorkFrom ==
  ASSUME NEW side, Ways(side), TypeInv, Away(side), NEW t \in Threads, Work(t),
         NEW z \in Xports, z[1] = RouterOf(t), FromIt(side, z, Now(t)),
         NEW s \in Jobs(t)', s \notin After(t)
  PROVE  /\ FromIt(side, z, s) /\ s.do # "close"
         /\ s.do = "advertise" => s.of \in Servers
         /\ OfFall(side, z, Now(t)) => OfFall(side, z, s)
  <1> DEFINE n == RouterOf(t)
             v == Now(t).of
             xs == Now(t).xs
             Goal(r) == /\ FromIt(side, z, r) /\ r.do # "close"
                        /\ r.do = "advertise" => r.of \in Servers
                        /\ OfFall(side, z, Now(t)) => OfFall(side, z, r)
             Falling == {"down", "downClients", "downServer", "dropServer", "downClient", "dropClient",
                         "REMOVE_SERVER", "REMOVE_CLIENT"}
  <1>1. Known(side, server) /\ Known(side, client) /\ n \in Routers
    <2>1. agenda[t] # <<>>
      BY DEF Work, Write, Register, Release, TellServer, DropServer, TellClient, DropClient,
             RemoveClient, XportUp, Advertise, XportDown, DownClients, Flush, CloseXport, Doing
    <2> QED BY <2>1, NowType DEF Away
  <1>2. /\ Now(t).do \in News => v \in Beyond(side, z)
        /\ Now(t).do \in Sourced => xs = {z}
    BY DEF FromIt
  <1>3. \A w \in Servers : server[n][w] = z \/ client[n][w] = z => w \in Beyond(side, z)
    BY <1>1, WhereKnown
  <1>4. ASSUME NEW kind \in Writes, NEW next, v \in Beyond(side, z), xs = {z},
               Tells(t, Msg(kind, v), Reach(n, xs), next)
        PROVE  \/ s \in next
               \/ s = Do(kind, v, Reach(n, xs)) /\ FromIt(side, z, s) /\ s.do = kind
    <2>1. s \in next \/ s = Do(kind, v, Reach(n, xs))
      BY <1>4 DEF Tells, Msg
    <2>2. \A y \in Reach(n, xs) : y \in Xports /\ y[1] = z[1] /\ y # z
      BY <1>4 DEF Reach
    <2> DEFINE r == Do(kind, v, Reach(n, xs))
    <2>3. r.do = kind /\ r.of = v /\ r.xs = Reach(n, xs) /\ r = Do(kind, v, Reach(n, xs))
      BY DoFields
    <2>4. kind \notin Sourced
      BY DEF Writes, Sourced
    <2> HIDE DEF r
    <2>5. FromIt(side, z, r)
      BY <1>4, <2>2, <2>3, <2>4 DEF FromIt
    <2> QED BY <2>1, <2>3, <2>5
  <1>5. ASSUME NEW r, r.do \in {"release"} PROVE FromIt(side, z, r)
    BY <1>5 DEF FromIt, News, Writes, Sourced
  <1>6. ASSUME NEW what \in {"dropServer", "dropClient"}, v \in Beyond(side, z)
        PROVE  FromIt(side, z, Do(what, v, {}))
    BY <1>6, DoFields DEF FromIt, News, Writes, Sourced
  <1>7. CASE Write(t) \/ Release(t) \/ DropServer(t) \/ DropClient(t) \/ Advertise(t) \/ Flush(t)
               \/ CloseXport(t)
    BY <1>7, JobsDone
  <1>8. CASE Register(t)
    <2>1. v \in Beyond(side, z) /\ xs = {z} /\ Now(t).do = "register"
      BY <1>2, <1>8 DEF Register, Doing, News, Sourced
    <2>2. Tells(t, Msg("NEW_SERVER", v), Reach(n, xs), {Do("release", None, {})})
      BY <1>8, JobsRegister
    <2>3. \/ s = Do("release", None, {})
          \/ FromIt(side, z, s) /\ s.do = "NEW_SERVER"
      BY <1>4, <2>1, <2>2 DEF Writes
    <2>4. ~OfFall(side, z, Now(t))
      BY <2>1 DEF OfFall
    <2> QED BY <1>5, <2>3, <2>4, DoFields
  <1>9. CASE TellServer(t)
    <2>1. v \in Beyond(side, z) /\ xs = {z} /\ Now(t).do \in {"tellServer", "downServer"}
      BY <1>2, <1>9 DEF TellServer, Doing, News, Sourced
    <2> DEFINE next == IF Now(t).do = "downServer" THEN {Do("dropServer", v, {})} ELSE {}
    <2>2. Tells(t, Msg("REMOVE_SERVER", v), Reach(n, xs), next)
      BY <1>9, JobsTellServer
    <2>3. \A r \in next : r = Do("dropServer", v, {})
      OBVIOUS
    <2> HIDE DEF next
    <2>4. \/ s = Do("dropServer", v, {})
          \/ FromIt(side, z, s) /\ s.do = "REMOVE_SERVER"
      BY <1>4, <2>1, <2>2, <2>3 DEF Writes
    <2> QED BY <1>6, <2>1, <2>4, DoFields DEF OfFall
  <1>10. CASE TellClient(t)
    <2>1. v \in Beyond(side, z) /\ xs = {z} /\ Now(t).do \in {"tellClient", "downClient"}
      BY <1>2, <1>10 DEF TellClient, Doing, News, Sourced
    <2> DEFINE next == IF Now(t).do = "downClient" THEN {Do("dropClient", v, {})} ELSE {}
    <2>2. \/ Tells(t, Msg("REMOVE_CLIENT", v), Reach(n, xs), next)
          \/ Jobs(t)' = next \cup After(t) /\ net' = net
      BY <1>10, JobsTellClient
    <2>3. \A r \in next : r = Do("dropClient", v, {})
      OBVIOUS
    <2> HIDE DEF next
    <2>4. \/ s = Do("dropClient", v, {})
          \/ FromIt(side, z, s) /\ s.do = "REMOVE_CLIENT"
      BY <1>4, <2>1, <2>2, <2>3 DEF Writes
    <2> QED BY <1>6, <2>1, <2>4, DoFields DEF OfFall
  <1>11. CASE RemoveClient(t)
    <2>1. v \in Beyond(side, z) /\ Now(t).do = "removeClient"
      BY <1>2, <1>11 DEF RemoveClient, Doing, News
    <2>2. s = Do("dropServer", v, {})
      BY <1>11, JobsRemoveClient
    <2> QED BY <1>6, <2>1, <2>2, DoFields DEF OfFall
  <1>12. CASE XportUp(t)
    <2>1. Now(t).do = "hello"
      BY <1>12 DEF XportUp, Doing
    <2>2. \/ \E w \in Servers : s = Do("advertise", w, xs)
          \/ s = Do("release", None, {})
      BY <1>12, JobsUp
    <2>3. ASSUME NEW w \in Servers, s = Do("advertise", w, xs) PROVE Goal(s)
      BY <2>1, <2>3, DoFields DEF FromIt, News, Writes, Sourced, OfFall
    <2>4. ~OfFall(side, z, Now(t))
      BY <2>1 DEF OfFall
    <2> QED BY <1>5, <2>2, <2>3, <2>4, DoFields
  <1>13. CASE XportDown(t)
    <2>1. xs = {z} /\ Now(t).do = "down"
      BY <1>2, <1>13 DEF XportDown, Doing, Sourced
    <2>2. \/ \E w \in Servers : server[n][w] \in xs /\ s = Do("downServer", w, xs)
          \/ s = Do("downClients", None, xs)
      BY <1>13, JobsDown
    <2>3. ASSUME NEW w \in Servers, server[n][w] \in xs, s = Do("downServer", w, xs) PROVE Goal(s)
      <3>1. w \in Beyond(side, z)
        BY <1>3, <2>1, <2>3
      <3> QED BY <2>1, <2>3, <3>1, DoFields DEF FromIt, Writes, Sourced, OfFall
    <2>4. ASSUME s = Do("downClients", None, xs) PROVE Goal(s)
      BY <2>1, <2>4, DoFields DEF FromIt, News, Writes, Sourced, OfFall
    <2> QED BY <2>2, <2>3, <2>4
  <1>14. CASE DownClients(t)
    <2>1. xs = {z} /\ Now(t).do = "downClients"
      BY <1>2, <1>14 DEF DownClients, Doing, Sourced
    <2>2. \E w \in Servers : client[n][w] \in xs /\ s = Do("downClient", w, xs)
      BY <1>14, JobsDownClients
    <2>3. ASSUME NEW w \in Servers, client[n][w] \in xs, s = Do("downClient", w, xs) PROVE Goal(s)
      <3>1. w \in Beyond(side, z)
        BY <1>3, <2>1, <2>3
      <3> QED BY <2>1, <2>3, <3>1, DoFields DEF FromIt, Writes, Sourced, OfFall
    <2> QED BY <2>2, <2>3
  <1> QED
    BY <1>7, <1>8, <1>9, <1>10, <1>11, <1>12, <1>13, <1>14 DEF Work

\* What a step about an own server leaves to do is about it too.
LEMMA WorkApp ==
  ASSUME NEW side, Ways(side), TypeInv, NEW t \in Routers, t \in Threads, Work(t),
         OfApp(t, Now(t)), NEW s \in Jobs(t)', s \notin After(t)
  PROVE  OfApp(t, s)
  <1> DEFINE v == Now(t).of
             xs == Now(t).xs
  <1>1. RouterOf(t) = t
    BY DEF RouterOf
  <1>2. \A kind \in Writes : \A y :
          v \in Servers /\ HomeOf[v] = t => OfApp(t, Do(kind, v, Reach(t, y)))
    BY DoFields DEF OfApp, Writes, Sourced, Reach
  <1>3. v \in Servers /\ HomeOf[v] = t => OfApp(t, Do("dropServer", v, {}))
    BY DoFields DEF OfApp, Writes, Sourced
  <1>4. OfApp(t, Do("release", None, {}))
    BY DoFields DEF OfApp, Writes, Sourced
  <1>5. CASE Write(t) \/ Release(t) \/ DropServer(t) \/ DropClient(t) \/ Advertise(t) \/ Flush(t)
               \/ CloseXport(t)
    BY <1>5, JobsDone
  <1>6. CASE Register(t)
    <2>1. Now(t).do = "register" /\ v \in Servers /\ HomeOf[v] = t
      BY <1>6 DEF Register, Doing, OfApp
    <2>2. Tells(t, Msg("NEW_SERVER", v), Reach(t, xs), {Do("release", None, {})})
      BY <1>1, <1>6, JobsRegister
    <2>3. s = Do("release", None, {}) \/ s = Do("NEW_SERVER", v, Reach(t, xs))
      BY <2>2 DEF Tells, Msg
    <2> QED BY <1>2, <1>4, <2>1, <2>3 DEF Writes
  <1>7. CASE TellServer(t)
    <2>1. Now(t).do = "tellServer" /\ v \in Servers /\ HomeOf[v] = t
      BY <1>7 DEF TellServer, Doing, OfApp, Writes
    <2>2. Tells(t, Msg("REMOVE_SERVER", v), Reach(t, xs), {})
      BY <1>1, <1>7, <2>1, JobsTellServer
    <2>3. s = Do("REMOVE_SERVER", v, Reach(t, xs))
      BY <2>2 DEF Tells, Msg
    <2> QED BY <1>2, <2>1, <2>3 DEF Writes
  <1>8. CASE TellClient(t)
    <2>1. Now(t).do = "tellClient" /\ v \in Servers /\ HomeOf[v] = t
      BY <1>8 DEF TellClient, Doing, OfApp, Writes
    <2>2. Tells(t, Msg("REMOVE_CLIENT", v), Reach(t, xs), {}) \/ Jobs(t)' = {} \cup After(t)
      <3> DEFINE next == IF Now(t).do = "downClient" THEN {Do("dropClient", v, {})} ELSE {}
      <3>1. Tells(t, Msg("REMOVE_CLIENT", v), Reach(t, xs), next) \/ Jobs(t)' = next \cup After(t)
        BY <1>1, <1>8, JobsTellClient
      <3>2. next = {}
        BY <2>1
      <3> HIDE DEF next
      <3> QED BY <3>1, <3>2
    <2>3. s = Do("REMOVE_CLIENT", v, Reach(t, xs))
      BY <2>2 DEF Tells, Msg
    <2> QED BY <1>2, <2>1, <2>3 DEF Writes
  <1>9. CASE RemoveClient(t)
    <2>1. Now(t).do = "removeClient" /\ v \in Servers /\ HomeOf[v] = t
      BY <1>9 DEF RemoveClient, Doing, OfApp
    <2>2. s = Do("dropServer", v, {})
      BY <1>9, JobsRemoveClient
    <2> QED BY <1>3, <2>1, <2>2
  <1>10. CASE XportUp(t) \/ XportDown(t) \/ DownClients(t)
    BY <1>10 DEF XportUp, XportDown, DownClients, Doing, OfApp, Writes
  <1> QED
    BY <1>5, <1>6, <1>7, <1>8, <1>9, <1>10 DEF Work

-----------------------------------------------------------------------------
(***************************************************************************)
(* What applications and transports begin                                  *)
(***************************************************************************)

\* A thread that has nothing to do begins something.
Starts(t, S) == t \in Threads /\ agenda[t] = <<>> /\ Jobs(t) = {} /\ Jobs(t)' = S /\ Others(t)

\* Lists of two steps.
LEMMA Pair ==
  ASSUME NEW a, NEW b
  PROVE  <<a>> \o <<b>> = <<a, b>> /\ <<>> \o <<b>> = <<b>>
  <1>1. <<a>> \in Seq({a, b}) /\ <<b>> \in Seq({a, b}) /\ <<>> \in Seq({a, b})
    OBVIOUS
  <1>2. <<a>> \o <<b>> = <<a, b>>
    <2>1. PICK r : r = <<a>> \o <<b>>
      OBVIOUS
    <2>2. r \in Seq({a, b}) /\ Len(r) = 2 /\ r[1] = a /\ r[2] = b
      BY <1>1, <2>1
    <2>3. r = <<r[1], r[2]>>
      BY <2>2
    <2> QED BY <2>1, <2>2, <2>3
  <1>3. <<>> \o <<b>> = <<b>>
    BY <1>1
  <1> QED
    BY <1>2, <1>3

\* An idle thread begins with a new agenda.
LEMMA ItStarts ==
  ASSUME TypeInv, NEW t \in Threads, agenda[t] = <<>>, NEW q, agenda' = [agenda EXCEPT ![t] = q]
  PROVE  Starts(t, ToSet(q))
  <1>1. agenda \in [Threads -> Seq(Steps)]
    BY DEF TypeInv, TypeOK
  <1>2. agenda'[t] = q /\ \A u \in Threads : u # t => agenda'[u] = agenda[u]
    BY <1>1
  <1> QED
    BY <1>2, Elements DEF Starts, Jobs, Others

\* What an application begins.
LEMMA ApplicationStarts ==
  ASSUME TypeInv, NEW v \in Servers
  PROVE  /\ RegServer(v) => Starts(HomeOf[v], {Do("register", v, {})})
         /\ DeregServer(v) => Starts(HomeOf[v], {Do("tellServer", v, {})})
         /\ Close(v) => Starts(HomeOf[v], {Do("tellClient", v, {}), Do("removeClient", v, {})})
         /\ RegServer(v) \/ DeregServer(v) \/ Close(v) => net' = net /\ up' = up /\ st' = st
  <1>1. HomeOf[v] \in Threads
    BY NamingAssumption DEF Threads
  <1>2. ASSUME RegServer(v) PROVE Starts(HomeOf[v], {Do("register", v, {})})
    BY <1>1, <1>2, ItStarts, Elements DEF RegServer, Begin
  <1>3. ASSUME DeregServer(v) PROVE Starts(HomeOf[v], {Do("tellServer", v, {})})
    BY <1>1, <1>3, ItStarts, Elements DEF DeregServer, Begin
  <1>4. ASSUME Close(v)
        PROVE  Starts(HomeOf[v], {Do("tellClient", v, {}), Do("removeClient", v, {})})
    BY <1>1, <1>4, ItStarts, Elements DEF Close, Begin
  <1>5. RegServer(v) \/ DeregServer(v) \/ Close(v) => net' = net /\ up' = up /\ st' = st
    BY DEF RegServer, DeregServer, Close, Begin, links
  <1> QED
    BY <1>2, <1>3, <1>4, <1>5

\* What is begun when a transport is started, stopped or lost.
LEMMA TransportStarts ==
  ASSUME TypeInv, NEW x \in Xports
  PROVE  /\ StartXport(x) \/ Open(x) => agenda' = agenda
         /\ StopXport(x) => /\ agenda[x] = <<>>
                            /\ Starts(x[1], {Do("down", None, {x}), Closes(x)})
         /\ RemoteClose(x) => /\ st[x] = "lost"
                              /\ Starts(x, {Do("flush", None, {x})}
                                           \cup (IF up[x] THEN {Do("down", None, {x})} ELSE {}))
  <1>1. x \in Threads /\ x[1] \in Threads
    BY Both DEF Threads
  <1>2. ASSUME StartXport(x) \/ Open(x) PROVE agenda' = agenda
    BY <1>2 DEF StartXport, Open, threads
  <1>3. ASSUME StopXport(x)
        PROVE  agenda[x] = <<>> /\ Starts(x[1], {Do("down", None, {x}), Closes(x)})
    BY <1>1, <1>3, ItStarts, Elements DEF StopXport, Closes
  <1>4. ASSUME RemoteClose(x)
        PROVE  /\ st[x] = "lost"
               /\ Starts(x, {Do("flush", None, {x})}
                            \cup (IF up[x] THEN {Do("down", None, {x})} ELSE {}))
    <2>1. agenda[x] = <<>> /\ st[x] = "lost"
      BY <1>4 DEF RemoteClose, Ready
    <2>2. CASE up[x]
      <3>1. agenda' = [agenda EXCEPT ![x] = <<Do("down", None, {x})>> \o <<Do("flush", None, {x})>>]
        BY <1>4, <2>2 DEF RemoteClose
      <3>2. agenda' = [agenda EXCEPT ![x] = <<Do("down", None, {x}), Do("flush", None, {x})>>]
        BY <3>1, Pair
      <3>3. Starts(x, {Do("down", None, {x}), Do("flush", None, {x})})
        BY <1>1, <2>1, <3>2, ItStarts, Elements
      <3>4. {Do("down", None, {x}), Do("flush", None, {x})}
              = {Do("flush", None, {x})} \cup (IF up[x] THEN {Do("down", None, {x})} ELSE {})
        BY <2>2
      <3> QED BY <2>1, <3>3, <3>4
    <2>3. CASE ~up[x]
      <3>1. agenda' = [agenda EXCEPT ![x] = <<>> \o <<Do("flush", None, {x})>>]
        BY <1>4, <2>3 DEF RemoteClose
      <3>2. agenda' = [agenda EXCEPT ![x] = <<Do("flush", None, {x})>>]
        BY <3>1, Pair
      <3>3. Starts(x, {Do("flush", None, {x})})
        BY <1>1, <2>1, <3>2, ItStarts, Elements
      <3>4. {Do("flush", None, {x})}
              = {Do("flush", None, {x})} \cup (IF up[x] THEN {Do("down", None, {x})} ELSE {})
        BY <2>3
      <3> QED BY <2>1, <3>3, <3>4
    <2> QED BY <2>2, <2>3
  <1> QED
    BY <1>2, <1>3, <1>4

\* What a message makes a worker do
Takes(x, m) ==
  \/ m.kind = "HELLO" /\ Starts(x, {Do("hello", None, {x})})
  \/ m.kind = "BYE" /\ Starts(x, {Do("down", None, {x})})
  \/ m.kind = "NEW_SERVER" /\ Starts(x, {Do("register", m.of, {x})})
  \/ m.kind = "REMOVE_SERVER" /\ server[x[1]][m.of] = None /\ Starts(x, {})
  \/ /\ m.kind = "REMOVE_SERVER" /\ server[x[1]][m.of] # None
     /\ Starts(x, {Do("dropServer", m.of, {x}), Do("tellServer", m.of, {x})})
  \/ /\ m.kind = "REMOVE_CLIENT"
     /\ Starts(x, {Do("tellClient", m.of, {x}), Do("removeClient", m.of, {x})})

\* The first message is taken, and the worker begins with what it asks for.
LEMMA ReceiveTakes ==
  ASSUME TypeInv, NEW x \in Xports, Receive(x)
  PROVE  /\ net[There(x)] # <<>> /\ net[There(x)] \in Seq(Message)
         /\ Head(net[There(x)]) \in Message
         /\ Head(net[There(x)]) \in ToSet(net[There(x)])
         /\ Takes(x, Head(net[There(x)]))
         /\ st[x] = "open" /\ st[There(x)] = "open"
         /\ net'[There(x)] = Tail(net[There(x)])
         /\ \A y \in Xports : y # There(x) => net'[y] = net[y]
  <1> DEFINE y == There(x)
             m == Head(net[y])
  <1>1. x \in Threads /\ y \in Xports
    BY Both
  <1>2. net[y] # <<>> /\ net[y] \in Seq(Message) /\ net \in [Xports -> Seq(Message)]
    BY <1>1 DEF Receive, TypeInv, TypeOK
  <1>3. m \in Message /\ m \in ToSet(net[y])
    BY <1>2, ElementsHead
  <1>4. net' = [net EXCEPT ![y] = Tail(net[y])]
    BY DEF Receive
  <1>5. agenda[x] = <<>> /\ st[x] = "open" /\ st[y] = "open"
    BY DEF Receive, Ready
  <1>6. m.kind \in {"HELLO", "BYE", "NEW_SERVER", "REMOVE_SERVER", "REMOVE_CLIENT"}
    BY <1>3 DEF Message
  <1>7. /\ m.kind = "HELLO" => agenda' = [agenda EXCEPT ![x] = <<Do("hello", None, {x})>>]
        /\ m.kind = "BYE" => agenda' = [agenda EXCEPT ![x] = <<Do("down", None, {x})>>]
        /\ m.kind = "NEW_SERVER" => agenda' = [agenda EXCEPT ![x] = <<Do("register", m.of, {x})>>]
        /\ m.kind = "REMOVE_SERVER" /\ server[x[1]][m.of] = None
             => agenda' = [agenda EXCEPT ![x] = <<>>]
        /\ m.kind = "REMOVE_SERVER" /\ server[x[1]][m.of] # None
             => agenda' = [agenda EXCEPT ![x] = <<Do("dropServer", m.of, {x}),
                                                  Do("tellServer", m.of, {x})>>]
        /\ m.kind = "REMOVE_CLIENT"
             => agenda' = [agenda EXCEPT ![x] = <<Do("tellClient", m.of, {x}),
                                                  Do("removeClient", m.of, {x})>>]
    BY DEF Receive
  <1> HIDE DEF m
  <1>8. Takes(x, m)
    <2>1. \A q : agenda' = [agenda EXCEPT ![x] = q] => Starts(x, ToSet(q))
      BY <1>1, <1>5, ItStarts
    <2>2. /\ \A s : agenda' = [agenda EXCEPT ![x] = <<s>>] => Starts(x, {s})
          /\ \A s, r : agenda' = [agenda EXCEPT ![x] = <<s, r>>] => Starts(x, {s, r})
          /\ agenda' = [agenda EXCEPT ![x] = <<>>] => Starts(x, {})
      BY <2>1, Elements, ZenonT(60)
    <2>3. CASE m.kind \in {"HELLO", "BYE", "NEW_SERVER"}
      BY <1>7, <2>2, <2>3 DEF Takes
    <2>4. CASE m.kind \in {"REMOVE_SERVER", "REMOVE_CLIENT"}
      BY <1>7, <2>2, <2>4 DEF Takes
    <2> QED BY <1>6, <2>3, <2>4
  <1> QED
    BY <1>1, <1>2, <1>3, <1>4, <1>5, <1>8 DEF m

\* A restart leaves the threads of the router nothing, the others what they had.
LEMMA RestartClears ==
  ASSUME TypeInv, NEW n \in Routers, Restart(n)
  PROVE  /\ \A t \in Threads : RouterOf(t) = n => Jobs(t)' = {} /\ agenda'[t] = <<>>
         /\ \A t \in Threads : RouterOf(t) # n => agenda'[t] = agenda[t]
         /\ \A x \in Xports : x[1] = n => ~up'[x] /\ st'[x] = "closed" /\ net'[x] = <<>>
         /\ \A x \in Xports : x[1] # n =>
              /\ up'[x] = up[x] /\ net'[x] = net[x]
              /\ st'[x] = IF x[2] = n /\ st[x] = "open" THEN "lost" ELSE st[x]
  <1>1. /\ agenda' = [t \in Threads |-> IF RouterOf(t) = n THEN <<>> ELSE agenda[t]]
        /\ up' = [x \in Xports |-> x[1] # n /\ up[x]]
        /\ CloseAll({x \in Xports : x[1] = n})
    BY DEF Restart
  <1>2. \A x \in Xports : There(x) \in {y \in Xports : y[1] = n} <=> x[2] = n
    BY Both
  <1>3. up \in [Xports -> BOOLEAN]
    BY DEF TypeInv, TypeOK
  <1>4. \A t \in Threads : RouterOf(t) = n => Jobs(t)' = {} /\ agenda'[t] = <<>>
    BY <1>1, Elements DEF Jobs
  <1>5. \A x \in Xports : x[1] = n => ~up'[x] /\ st'[x] = "closed" /\ net'[x] = <<>>
    BY <1>1 DEF CloseAll
  <1>6. ASSUME NEW x \in Xports, x[1] # n
        PROVE  /\ up'[x] = up[x] /\ net'[x] = net[x]
               /\ st'[x] = IF x[2] = n /\ st[x] = "open" THEN "lost" ELSE st[x]
    BY <1>1, <1>2, <1>3, <1>6 DEF CloseAll
  <1> QED
    BY <1>1, <1>4, <1>5, <1>6

-----------------------------------------------------------------------------
(***************************************************************************)
(* What a step of a thread changes, told by the step it is at              *)
(***************************************************************************)

\* A job that is left to do by the step a thread is at
Made(t, s) ==
  LET n == RouterOf(t)
      what == Now(t).do
      v == Now(t).of
      xs == Now(t).xs
  IN \/ /\ what = "register" /\ server[n][v] = None
        /\ s = Do("release", None, {}) \/ s = Do("NEW_SERVER", v, Reach(n, xs))
     \/ what \in {"tellServer", "downServer"} /\ s = Do("REMOVE_SERVER", v, Reach(n, xs))
     \/ what = "downServer" /\ s = Do("dropServer", v, {})
     \/ what \in {"tellClient", "downClient"} /\ s = Do("REMOVE_CLIENT", v, Reach(n, xs))
     \/ what = "downClient" /\ s = Do("dropClient", v, {})
     \/ what = "removeClient" /\ client[n][v] # None /\ s = Do("dropServer", v, {})
     \/ what = "hello" /\ s = Do("release", None, {})
     \/ what = "hello" /\ \E w \in Servers : server[n][w] # None /\ s = Do("advertise", w, xs)
     \/ what = "down" /\ s = Do("downClients", None, xs)
     \/ what = "down" /\ \E w \in Servers : server[n][w] \in xs /\ s = Do("downServer", w, xs)
     \/ what = "downClients" /\ \E w \in Servers : client[n][w] \in xs /\ s = Do("downClient", w, xs)

\* What telling adds to the jobs of a thread.
LEMMA TellMakes ==
  ASSUME NEW t, NEW kind, NEW v, NEW ys, NEW others, Tells(t, Msg(kind, v), ys, others)
  PROVE  /\ \A s \in Jobs(t)' : s \in After(t) \/ s \in others \/ s = Do(kind, v, ys)
         /\ \A s : s \in After(t) \/ s \in others => s \in Jobs(t)'
  <1>1. Msg(kind, v).kind = kind /\ Msg(kind, v).of = v
    BY DEF Msg
  <1> QED
    BY <1>1 DEF Tells

\* What it has to do after a step, it had to do or is made by that step.
LEMMA WorkMakes ==
  ASSUME TypeInv, NEW t \in Threads, Work(t), NEW s \in Jobs(t)'
  PROVE  s \in After(t) \/ Made(t, s)
  <1>1. CASE Write(t) \/ Release(t) \/ DropServer(t) \/ DropClient(t) \/ Advertise(t) \/ Flush(t)
             \/ CloseXport(t)
    BY <1>1, JobsDone
  <1>2. CASE Register(t)
    <2>1. Now(t).do = "register"
      BY <1>2 DEF Register, Doing
    <2>2. CASE server[RouterOf(t)][Now(t).of] # None
      BY <1>2, <2>2, JobsRegister
    <2>3. CASE server[RouterOf(t)][Now(t).of] = None
      <3>1. Tells(t, Msg("NEW_SERVER", Now(t).of), Reach(RouterOf(t), Now(t).xs),
                  {Do("release", None, {})})
        BY <1>2, <2>3, JobsRegister
      <3>2. \/ s \in After(t) \/ s = Do("release", None, {})
            \/ s = Do("NEW_SERVER", Now(t).of, Reach(RouterOf(t), Now(t).xs))
        BY <3>1, TellMakes
      <3> QED BY <2>1, <2>3, <3>2 DEF Made
    <2> QED BY <2>2, <2>3
  <1>3. CASE TellServer(t)
    <2>1. Now(t).do \in {"tellServer", "downServer"}
      BY <1>3 DEF TellServer, Doing
    <2> DEFINE next == IF Now(t).do = "downServer" THEN {Do("dropServer", Now(t).of, {})} ELSE {}
    <2>2. Tells(t, Msg("REMOVE_SERVER", Now(t).of), Reach(RouterOf(t), Now(t).xs), next)
      BY <1>3, JobsTellServer
    <2>3. \A r \in next : Now(t).do = "downServer" /\ r = Do("dropServer", Now(t).of, {})
      OBVIOUS
    <2> HIDE DEF next
    <2>4. \/ s \in After(t) \/ s \in next
          \/ s = Do("REMOVE_SERVER", Now(t).of, Reach(RouterOf(t), Now(t).xs))
      BY <2>2, TellMakes
    <2> QED BY <2>1, <2>3, <2>4 DEF Made
  <1>4. CASE TellClient(t)
    <2>1. Now(t).do \in {"tellClient", "downClient"}
      BY <1>4 DEF TellClient, Doing
    <2> DEFINE next == IF Now(t).do = "downClient" THEN {Do("dropClient", Now(t).of, {})} ELSE {}
    <2>2. \/ Tells(t, Msg("REMOVE_CLIENT", Now(t).of), Reach(RouterOf(t), Now(t).xs), next)
          \/ Jobs(t)' = next \cup After(t)
      BY <1>4, JobsTellClient
    <2>3. \A r \in next : Now(t).do = "downClient" /\ r = Do("dropClient", Now(t).of, {})
      OBVIOUS
    <2> HIDE DEF next
    <2>4. \/ s \in After(t) \/ s \in next
          \/ s = Do("REMOVE_CLIENT", Now(t).of, Reach(RouterOf(t), Now(t).xs))
      BY <2>2, TellMakes
    <2> QED BY <2>1, <2>3, <2>4 DEF Made
  <1>5. CASE RemoveClient(t)
    BY <1>5, JobsRemoveClient DEF RemoveClient, Doing, Made
  <1>6. CASE XportUp(t)
    BY <1>6, JobsUp DEF XportUp, Doing, Made
  <1>7. CASE XportDown(t)
    BY <1>7, JobsDown DEF XportDown, Doing, Made
  <1>8. CASE DownClients(t)
    BY <1>8, JobsDownClients DEF DownClients, Doing, Made
  <1> QED
    BY <1>1, <1>2, <1>3, <1>4, <1>5, <1>6, <1>7, <1>8 DEF Work

\* It still has to do all but the step it was at.
LEMMA WorkKeeps ==
  ASSUME TypeInv, NEW t \in Threads, Work(t), NEW u \in Threads, NEW s \in Jobs(u),
         u # t \/ s # Now(t)
  PROVE  s \in Jobs(u)'
  <1>1. CASE u # t
    BY <1>1, WorkOthers DEF Others, Jobs
  <1>2. CASE u = t
    <2>1. s \in After(t)
      BY <1>2, WorkNow
    <2>2. CASE Write(t) \/ Release(t) \/ DropServer(t) \/ DropClient(t) \/ Advertise(t) \/ Flush(t)
               \/ CloseXport(t)
      BY <1>2, <2>1, <2>2, JobsDone
    <2>3. CASE Register(t) \/ XportUp(t)
      BY <2>1, <2>3, JobsRegister, JobsUp
    <2>4. CASE TellServer(t)
      BY <1>2, <2>1, <2>4, JobsTellServer, TellMakes
    <2>5. CASE TellClient(t)
      BY <1>2, <2>1, <2>5, JobsTellClient, TellMakes
    <2>6. CASE RemoveClient(t) \/ XportDown(t) \/ DownClients(t)
      BY <1>2, <2>1, <2>6, JobsRemoveClient, JobsDown, JobsDownClients
    <2> QED BY <2>2, <2>3, <2>4, <2>5, <2>6 DEF Work
  <1> QED
    BY <1>1, <1>2

\* Who is told that a server goes, or an endpoint, will remove it; ...
LEMMA WorkRemoves ==
  ASSUME TypeInv, NEW t \in Threads, Work(t)
  PROVE  /\ Now(t).do = "downServer" => Do("dropServer", Now(t).of, {}) \in Jobs(t)'
         /\ Now(t).do = "removeClient" /\ client[RouterOf(t)][Now(t).of] # None
              => Do("dropServer", Now(t).of, {}) \in Jobs(t)'
         /\ Now(t).do = "down" => \A w \in Servers : server[RouterOf(t)][w] \in Now(t).xs
              => Do("downServer", w, Now(t).xs) \in Jobs(t)'
  <1>1. ASSUME Now(t).do = "downServer" PROVE Do("dropServer", Now(t).of, {}) \in Jobs(t)'
    <2>1. TellServer(t)
      BY <1>1 DEF Work, Write, Register, Release, DropServer, TellClient, DropClient,
           RemoveClient, XportUp, Advertise, XportDown, DownClients, Flush, CloseXport, Doing
    <2>2. Tells(t, Msg("REMOVE_SERVER", Now(t).of), Reach(RouterOf(t), Now(t).xs),
                {Do("dropServer", Now(t).of, {})})
      BY <1>1, <2>1, JobsTellServer
    <2> QED BY <2>2, TellMakes
  <1>2. ASSUME Now(t).do = "removeClient", client[RouterOf(t)][Now(t).of] # None
        PROVE  Do("dropServer", Now(t).of, {}) \in Jobs(t)'
    <2>1. RemoveClient(t)
      BY <1>2 DEF Work, Write, Register, Release, DropServer, TellClient, DropClient, TellServer,
           XportUp, Advertise, XportDown, DownClients, Flush, CloseXport, Doing
    <2> QED BY <1>2, <2>1, JobsRemoveClient
  <1>3. ASSUME Now(t).do = "down", NEW w \in Servers, server[RouterOf(t)][w] \in Now(t).xs
        PROVE  Do("downServer", w, Now(t).xs) \in Jobs(t)'
    <2>1. XportDown(t)
      BY <1>3 DEF Work, Write, Register, Release, DropServer, TellClient, DropClient, TellServer,
           XportUp, Advertise, RemoveClient, DownClients, Flush, CloseXport, Doing
    <2> QED BY <1>3, <2>1, JobsDown
  <1> QED
    BY <1>1, <1>2, <1>3

\* Which action a thread takes is told by the step it is at.
LEMMA WorkIs ==
  ASSUME NEW t, Work(t)
  PROVE  /\ Now(t).do = "register" => Register(t)
         /\ Now(t).do = "dropServer" => DropServer(t)
         /\ Now(t).do = "dropClient" => DropClient(t)
         /\ Now(t).do = "removeClient" => RemoveClient(t)
         /\ Now(t).do = "hello" => XportUp(t)
         /\ Now(t).do = "advertise" => Advertise(t)
         /\ Now(t).do = "down" => XportDown(t)
         /\ Now(t).do = "flush" => Flush(t)
         /\ Now(t).do = "close" => CloseXport(t)
         /\ Now(t).do \in Writes => Write(t)
         /\ Now(t).do \in {"tellServer", "downServer"} => TellServer(t)
         /\ Now(t).do \in {"tellClient", "downClient"} => TellClient(t)
         /\ Now(t).do \in {"release", "downClients"} => Release(t) \/ DownClients(t)
         /\ Now(t).do \in Writes \cup {"register", "release", "tellServer", "dropServer", "downServer",
              "tellClient", "dropClient", "downClient", "removeClient", "hello", "advertise", "down",
              "downClients", "flush", "close"}
  BY DEF Work, Write, Register, Release, TellServer, DropServer, TellClient, DropClient,
         RemoveClient, XportUp, Advertise, XportDown, DownClients, Flush, CloseXport, Doing, Writes

\* Where a server that is registered comes from
Source(t) == IF Now(t).xs = {} THEN Local ELSE From(t)

\* A server is known from somewhere.
LEMMA SourceKnown ==
  ASSUME TypeInv, NEW t \in Threads, Work(t)
  PROVE  Source(t) # None /\ Source(t) \in {Local} \cup Now(t).xs
  <1>1. Now(t).xs \in SUBSET Xports
    BY WorkNow
  <1>2. Now(t).xs # {} => From(t) \in Now(t).xs
    BY DEF From
  <1> QED
    BY <1>1, <1>2, NamingAssumption DEF Source

\* The tables change where a server is registered or dropped, ...
LEMMA WorkServer ==
  ASSUME TypeInv, NEW t \in Threads, Work(t), NEW m \in Routers, NEW w \in Servers
  PROVE  LET here == m = RouterOf(t) /\ w = Now(t).of
         IN \/ /\ server'[m][w] = server[m][w]
               /\ here => /\ Now(t).do # "dropServer"
                          /\ Now(t).do = "register" => server[m][w] # None
            \/ here /\ Now(t).do = "dropServer" /\ server'[m][w] = None
            \/ here /\ Now(t).do = "register" /\ server[m][w] = None /\ server'[m][w] = Source(t)
  <1> DEFINE n == RouterOf(t)
             v == Now(t).of
  <1>1. server \in [Routers -> [Servers -> Xports \cup {Local, None}]] /\ n \in Routers
    BY WorkNow DEF TypeInv, TypeOK
  <1>2. CASE Now(t).do = "register"
    <2>1. server' = [server EXCEPT ![n][v] = IF @ = None THEN Source(t) ELSE @]
      BY <1>2, WorkIs DEF Register, Source
    <2>2. CASE m = n /\ w = v
      BY <1>1, <1>2, <2>1, <2>2
    <2>3. CASE ~(m = n /\ w = v)
      BY <1>1, <1>2, <2>1, <2>3
    <2> QED BY <2>2, <2>3
  <1>3. CASE Now(t).do = "dropServer"
    <2>1. server' = [server EXCEPT ![n][v] = None]
      BY <1>3, WorkIs DEF DropServer
    <2>2. CASE m = n /\ w = v
      BY <1>1, <1>3, <2>1, <2>2
    <2>3. CASE ~(m = n /\ w = v)
      BY <1>1, <1>3, <2>1, <2>3
    <2> QED BY <2>2, <2>3
  <1>4. CASE Now(t).do \notin {"register", "dropServer"}
    <2>1. server' = server
      BY <1>4 DEF Work, Write, Register, Release, TellServer, DropServer, TellClient, DropClient,
         RemoveClient, XportUp, Advertise, XportDown, DownClients, Flush, CloseXport, Doing, tables
    <2> QED BY <1>4, <2>1
  <1> QED
    BY <1>2, <1>3, <1>4

\* and where an endpoint is.
LEMMA WorkClient ==
  ASSUME TypeInv, NEW t \in Threads, Work(t), NEW m \in Routers, NEW w \in Servers
  PROVE  LET here == m = RouterOf(t) /\ w = Now(t).of
         IN \/ /\ client'[m][w] = client[m][w]
               /\ here /\ Now(t).do = "register" => client[m][w] # None
            \/ here /\ Now(t).do \in {"dropClient", "removeClient"} /\ client'[m][w] = None
            \/ here /\ Now(t).do = "register" /\ client'[m][w] = Source(t)
  <1> DEFINE n == RouterOf(t)
             v == Now(t).of
  <1>1. client \in [Routers -> [Servers -> Xports \cup {Local, None}]] /\ n \in Routers
    BY WorkNow DEF TypeInv, TypeOK
  <1>2. CASE Now(t).do = "register"
    <2>1. client' = [client EXCEPT ![n][v] = IF @ = None THEN Source(t) ELSE @]
      BY <1>2, WorkIs DEF Register, Source
    <2>2. CASE m = n /\ w = v
      BY <1>1, <1>2, <2>1, <2>2
    <2>3. CASE ~(m = n /\ w = v)
      BY <1>1, <1>2, <2>1, <2>3
    <2> QED BY <2>2, <2>3
  <1>3. CASE Now(t).do \in {"dropClient", "removeClient"}
    <2>1. client' = [client EXCEPT ![n][v] = None]
      BY <1>3, WorkIs DEF DropClient, RemoveClient
    <2>2. CASE m = n /\ w = v
      BY <1>1, <1>3, <2>1, <2>2
    <2>3. CASE ~(m = n /\ w = v)
      BY <1>1, <1>3, <2>1, <2>3
    <2> QED BY <2>2, <2>3
  <1>4. CASE Now(t).do \notin {"register", "dropClient", "removeClient"}
    <2>1. client' = client
      BY <1>4 DEF Work, Write, Register, Release, TellServer, DropServer, TellClient, DropClient,
         RemoveClient, XportUp, Advertise, XportDown, DownClients, Flush, CloseXport, Doing, tables
    <2> QED BY <1>4, <2>1
  <1> QED
    BY <1>2, <1>3, <1>4

\* A transport goes up, down, or closes.
LEMMA WorkUp ==
  ASSUME TypeInv, NEW t \in Threads, Work(t), NEW x \in Xports
  PROVE  /\ \/ up'[x] = up[x] /\ ~(Now(t).do = "down" /\ x = From(t) /\ up[x])
            \/ Now(t).do = "hello" /\ x = t /\ up'[x]
            \/ Now(t).do = "down" /\ x = From(t) /\ ~up'[x]
         /\ Now(t).do = "down" /\ x = From(t) => ~up'[x]
         /\ \/ st'[x] = st[x] /\ Now(t).do \notin {"flush", "close"}
            \/ Now(t).do = "flush" /\ st'[x] = IF x = t THEN "paused" ELSE st[x]
            \/ /\ Now(t).do = "close"
               /\ st'[x] = IF x \in Now(t).xs THEN "closed"
                           ELSE IF There(x) \in Now(t).xs /\ st[x] = "open" THEN "lost" ELSE st[x]
  <1>1. up \in [Xports -> BOOLEAN] /\ st \in [Xports -> {"closed", "opening", "open", "lost", "paused"}]
    BY DEF TypeInv, TypeOK
  <1>2. CASE Now(t).do = "hello"
    BY <1>1, <1>2, WorkIs DEF XportUp
  <1>3. CASE Now(t).do = "down"
    BY <1>1, <1>3, WorkIs DEF XportDown
  <1>4. CASE Now(t).do = "flush"
    BY <1>1, <1>4, WorkIs DEF Flush
  <1>5. CASE Now(t).do = "close"
    BY <1>1, <1>5, WorkIs DEF CloseXport, CloseAll
  <1>6. CASE Now(t).do \notin {"hello", "down", "flush", "close"}
    <2>1. up' = up /\ st' = st
      BY <1>6 DEF Work, Write, Register, Release, TellServer, DropServer, TellClient, DropClient,
         RemoveClient, XportUp, Advertise, XportDown, DownClients, Flush, CloseXport, Doing, links
    <2> QED BY <1>6, <2>1
  <1> QED
    BY <1>2, <1>3, <1>4, <1>5, <1>6

\* What a thread sends on a transport
Sent(t, y, m) ==
  LET v == Now(t).of
      reached == y \in Reach(RouterOf(t), Now(t).xs)
  IN \/ Now(t).do \in Writes /\ m = Msg(Now(t).do, v) /\ y \in Now(t).xs
     \/ Now(t).do = "register" /\ m = Msg("NEW_SERVER", v) /\ reached
     \/ Now(t).do \in {"tellServer", "downServer"} /\ m = Msg("REMOVE_SERVER", v) /\ reached
     \/ Now(t).do \in {"tellClient", "downClient"} /\ m = Msg("REMOVE_CLIENT", v) /\ reached
     \/ Now(t).do = "hello" /\ m = Msg("HELLO", None) /\ y = t
     \/ Now(t).do = "advertise" /\ m = Msg("NEW_SERVER", v) /\ y = t

\* What telling adds to a link.
LEMMA TellSends ==
  ASSUME TypeInv, NEW t, NEW m, NEW ys, NEW steps, Tell(t, m, ys, steps), NEW y \in Xports
  PROVE  net'[y] = net[y] \/ (net'[y] = Append(net[y], m) /\ y \in ys)
  BY DEF Tell, Send

\* A step sends one message on a transport, or empties it when it ends.
LEMMA WorkNet ==
  ASSUME TypeInv, NEW t \in Threads, Work(t), NEW y \in Xports
  PROVE  \/ /\ net'[y] = net[y]
            /\ Now(t).do \in Writes => y \notin Now(t).xs
            /\ Now(t).do = "close" => y \notin Now(t).xs
         \/ /\ net'[y] = <<>>
            /\ \/ Now(t).do = "flush" /\ y = t
               \/ Now(t).do = "close" /\ y \in Now(t).xs
         \/ \E m : net'[y] = Append(net[y], m) /\ Sent(t, y, m)
  <1>1. net \in [Xports -> Seq(Message)]
    BY DEF TypeInv, TypeOK
  <1>2. CASE Now(t).do \in Writes
    <2>1. Send(Now(t).xs, Msg(Now(t).do, Now(t).of)) /\ Now(t).do # "close"
      BY <1>2, WorkIs DEF Write, Writes
    <2>2. IF y \in Now(t).xs THEN net'[y] = Append(net[y], Msg(Now(t).do, Now(t).of))
          ELSE net'[y] = net[y]
      BY <2>1 DEF Send
    <2> QED BY <1>2, <2>1, <2>2 DEF Sent
  <1>3. CASE Now(t).do = "register"
    <2>1. \/ net' = net
          \/ Tell(t, Msg("NEW_SERVER", Now(t).of), Reach(RouterOf(t), Now(t).xs),
                  <<Do("release", None, {})>>)
      BY <1>3, WorkIs DEF Register
    <2>2. \/ net'[y] = net[y]
          \/ /\ net'[y] = Append(net[y], Msg("NEW_SERVER", Now(t).of))
             /\ y \in Reach(RouterOf(t), Now(t).xs)
      BY <2>1, TellSends
    <2> QED BY <1>3, <2>2 DEF Sent, Writes
  <1>4. CASE Now(t).do \in {"tellServer", "downServer"}
    <2>1. PICK p : Tell(t, Msg("REMOVE_SERVER", Now(t).of), Reach(RouterOf(t), Now(t).xs), p)
      BY <1>4, WorkIs DEF TellServer
    <2>2. \/ net'[y] = net[y]
          \/ /\ net'[y] = Append(net[y], Msg("REMOVE_SERVER", Now(t).of))
             /\ y \in Reach(RouterOf(t), Now(t).xs)
      BY <2>1, TellSends
    <2> QED BY <1>4, <2>2 DEF Sent, Writes
  <1>5. CASE Now(t).do \in {"tellClient", "downClient"}
    <2>1. \/ \E p : Tell(t, Msg("REMOVE_CLIENT", Now(t).of), Reach(RouterOf(t), Now(t).xs), p)
          \/ net' = net
      BY <1>5, WorkIs DEF TellClient
    <2>2. \/ net'[y] = net[y]
          \/ /\ net'[y] = Append(net[y], Msg("REMOVE_CLIENT", Now(t).of))
             /\ y \in Reach(RouterOf(t), Now(t).xs)
      BY <2>1, TellSends
    <2> QED BY <1>5, <2>2 DEF Sent, Writes
  <1>6. CASE Now(t).do = "hello"
    <2>1. Send({t}, Msg("HELLO", None)) \/ Send({}, Msg("HELLO", None))
      BY <1>6, WorkIs DEF XportUp
    <2>2. net'[y] = net[y] \/ (net'[y] = Append(net[y], Msg("HELLO", None)) /\ y = t)
      BY <2>1 DEF Send
    <2> QED BY <1>6, <2>2 DEF Sent, Writes
  <1>7. CASE Now(t).do = "advertise"
    <2>1. Send({t}, Msg("NEW_SERVER", Now(t).of)) \/ Send({}, Msg("NEW_SERVER", Now(t).of))
      BY <1>7, WorkIs DEF Advertise
    <2>2. net'[y] = net[y] \/ (net'[y] = Append(net[y], Msg("NEW_SERVER", Now(t).of)) /\ y = t)
      BY <2>1 DEF Send
    <2> QED BY <1>7, <2>2 DEF Sent, Writes
  <1>8. CASE Now(t).do = "flush"
    BY <1>1, <1>8, WorkIs DEF Flush, Writes
  <1>9. CASE Now(t).do = "close"
    <2>1. net'[y] = IF y \in Now(t).xs THEN <<>> ELSE net[y]
      BY <1>9, WorkIs DEF CloseXport, CloseAll
    <2> QED BY <1>9, <2>1 DEF Writes
  <1>10. CASE Now(t).do \in {"release", "dropServer", "dropClient", "removeClient", "down",
                             "downClients"}
    <2>1. net' = net
      BY <1>10, WorkIs DEF Release, DropServer, DropClient, RemoveClient, XportDown, DownClients, links
    <2> QED BY <1>10, <2>1 DEF Writes
  <1> QED
    BY <1>2, <1>3, <1>4, <1>5, <1>6, <1>7, <1>8, <1>9, <1>10, WorkIs

\* Who closes a transport does nothing else, and its worker nothing.
LEMMA ClosingFalls ==
  ASSUME NEW side, Sided(side), NEW z \in Xports, Closing(z)
  PROVE  Falls(side, z)
  <1>1. Closes(z) \in Jobs(z[1]) /\ z[1] \in Routers
    BY Both DEF Closing
  <1>2. Closes(z).do = "close" /\ Closes(z).xs = {z}
    BY DoFields DEF Closes
  <1>3. ~OfApp(z[1], Closes(z))
    BY <1>2 DEF OfApp, Writes
  <1>4. PICK y \in Xports : y[1] = z[1] /\ Falls(side, y)
    BY <1>1, <1>3 DEF Sided
  <1>5. ~OfFall(side, y, Closes(z))
    BY <1>2 DEF OfFall
  <1>6. Closes(z) = Closes(y)
    BY <1>1, <1>4, <1>5 DEF Falls
  <1>7. {z} = {y}
    BY <1>2, <1>6, DoFields DEF Closes
  <1> QED
    BY <1>4, <1>7

\* Whom a thread of a router works for: its own servers or one of its transports
LEMMA WorksFor ==
  ASSUME NEW side, TypeInv, Sided(side), NEW t \in Threads, NEW s \in Jobs(t)
  PROVE  \/ t \in Routers /\ RouterOf(t) = t /\ OfApp(t, s)
         \/ t \in Xports /\ RouterOf(t) = t[1] /\ OfWorker(side, t, s)
         \/ /\ t \in Routers /\ RouterOf(t) = t
            /\ \E z \in Xports : z[1] = t /\ Falls(side, z) /\ (s = Closes(z) \/ OfFall(side, z, s))
  <1>1. CASE t \in Xports
    BY <1>1, Both DEF Sided
  <1>2. CASE t \in Routers
    <2>1. RouterOf(t) = t
      BY <1>2 DEF RouterOf
    <2>2. CASE \A r \in Jobs(t) : OfApp(t, r)
      BY <1>2, <2>1, <2>2
    <2>3. CASE \E z \in Xports : z[1] = t /\ Falls(side, z)
      BY <1>2, <2>1, <2>3 DEF Falls
    <2> QED BY <1>2, <2>2, <2>3 DEF Sided
  <1> QED
    BY <1>1, <1>2 DEF Threads

\* News goes to all transports but the one it came from.
LEMMA ReachAway ==
  ASSUME NEW side, Ways(side), NEW z \in Xports, NEW v \in Beyond(side, z), NEW y \in Xports,
         y[1] = z[1], y # z
  PROVE  v \in Servers /\ HomeOf[v] \in side[y]
  BY OneWay

\* Withdrawals are sent away from the server.
LEMMA WorkSends ==
  ASSUME NEW side, Ways(side), TypeInv, Away(side), Sided(side), NEW t \in Threads, Work(t),
         NEW y \in Xports, NEW m, Sent(t, y, m)
  PROVE  /\ m.kind \in {"REMOVE_SERVER", "REMOVE_CLIENT"} => m.of \in Servers /\ HomeOf[m.of] \in side[y]
         /\ m.kind # "BYE" /\ m \in Message
  <1> DEFINE s == Now(t)
             n == RouterOf(t)
  <1>1. Now(t) \in Jobs(t) /\ s.of \in Servers \cup {None} /\ n \in Routers /\ s.xs \in SUBSET Xports
    BY WorkNow
  <1>2. \A kind, v : Msg(kind, v).kind = kind /\ Msg(kind, v).of = v
    BY DEF Msg
  <1>3. \A kind \in {"HELLO", "NEW_SERVER", "REMOVE_SERVER", "REMOVE_CLIENT"},
           v \in Servers \cup {None} :
          Msg(kind, v) \in Message
    BY DEF Msg, Message
  <1>4. m.kind # "BYE" /\ m \in Message
    BY <1>1, <1>2, <1>3 DEF Sent, Writes
  <1>5. ASSUME m.kind \in {"REMOVE_SERVER", "REMOVE_CLIENT"}
        PROVE  m.of \in Servers /\ HomeOf[m.of] \in side[y]
    <2>1. /\ m.of = s.of
          /\ \/ s.do \in Writes /\ y \in s.xs
             \/ s.do \in {"tellServer", "downServer", "tellClient", "downClient"} /\ y \in Reach(n, s.xs)
      BY <1>2, <1>5 DEF Sent
    <2>2. s.do \in News
      BY <2>1 DEF News
    <2>3. ASSUME NEW z \in Xports, n = z[1], FromIt(side, z, s)
          PROVE  s.of \in Servers /\ HomeOf[s.of] \in side[y]
      <3>1. s.of \in Beyond(side, z)
        BY <2>2, <2>3 DEF FromIt
      <3>2. y[1] = z[1] /\ y # z
        <4>1. CASE s.do \in Writes /\ y \in s.xs
          BY <2>3, <4>1 DEF FromIt
        <4>2. CASE s.do \in {"tellServer", "downServer", "tellClient", "downClient"}
                   /\ y \in Reach(n, s.xs)
          <5>1. s.xs = {z}
            BY <2>3, <4>2 DEF FromIt, Sourced
          <5> QED BY <2>3, <4>2, <5>1 DEF Reach
        <4> QED BY <2>1, <4>1, <4>2
      <3> QED BY <3>1, <3>2, ReachAway
    <2>4. ASSUME OfApp(n, s) PROVE s.of \in Servers /\ HomeOf[s.of] \in side[y]
      <3>1. s.of \in Servers /\ HomeOf[s.of] = n
        BY <2>1, <2>4 DEF OfApp, Writes
      <3>2. y[1] = n
        BY <2>1, <2>4 DEF OfApp, Reach
      <3> QED BY <3>1, <3>2 DEF Ways, NoCycle
    <2>5. s.do # "close"
      BY <2>1 DEF Writes
    <2>6. CASE t \in Routers /\ RouterOf(t) = t /\ OfApp(t, s)
      BY <2>1, <2>4, <2>6
    <2>7. CASE t \in Xports /\ RouterOf(t) = t[1] /\ OfWorker(side, t, s)
      BY <2>1, <2>3, <2>7 DEF OfWorker
    <2>8. ASSUME NEW z \in Xports, z[1] = n, s = Closes(z) \/ OfFall(side, z, s)
          PROVE  s.of \in Servers /\ HomeOf[s.of] \in side[y]
      <3>1. s # Closes(z)
        BY <2>5, DoFields DEF Closes
      <3> QED BY <2>3, <2>8, <3>1 DEF OfFall
    <2> QED BY <1>1, <2>1, <2>6, <2>7, <2>8, WorksFor
  <1> QED
    BY <1>4, <1>5

\* What links carry stays so, if transports that close go on closing.
LEMMA CarryKept ==
  ASSUME NEW side, Sided(side), NEW y \in Xports, NEW m \in ToSet(net[y]), Closing(y) => Closing(y)'
  PROVE  MayCarry(side, y, m)'
  BY DEF Sided, MayCarry

\* The steps of threads keep to sides.
LEMMA WorkSided ==
  ASSUME NEW side, Ways(side), TypeInv, Away(side), Ordered, Sided(side), NEW t \in Threads, Work(t)
  PROVE  Sided(side)'
  <1>1. /\ agenda[t] # <<>> /\ Now(t) \in Jobs(t) /\ After(t) \subseteq Jobs(t)
        /\ Jobs(t) = {Now(t)} \cup After(t)
    BY WorkNow
  <1>2. \A u \in Threads : u # t => agenda'[u] = agenda[u] /\ Jobs(u)' = Jobs(u)
    BY WorkOthers DEF Others, Jobs
  <1>3. \A x \in Xports : x \in Threads /\ x \notin Routers /\ RouterOf(x) = x[1] /\ x[1] \in Routers
    BY Both, NamingAssumption
  <1>4. ASSUME NEW z \in Xports, NEW s \in Jobs(z)' PROVE OfWorker(side, z, s)
    <2>1. CASE z # t
      BY <1>2, <1>3, <1>4, <2>1 DEF Sided
    <2>2. CASE z = t
      <3>1. OfWorker(side, z, Now(t)) /\ \A r \in After(t) : OfWorker(side, z, r)
        BY <1>1, <2>2 DEF Sided
      <3>2. FromIt(side, z, Now(t)) /\ z[1] = RouterOf(t)
        BY <1>3, <2>2, <3>1 DEF OfWorker
      <3>3. CASE s \notin After(t)
        <4>1. FromIt(side, z, s) /\ s.do # "close" /\ (s.do = "advertise" => s.of \in Servers)
          BY <1>4, <2>2, <3>2, <3>3, WorkFrom
        <4> QED BY <4>1 DEF OfWorker
      <3> QED BY <3>1, <3>3
    <2> QED BY <2>1, <2>2
  <1>5. ASSUME NEW z \in Xports, Falls(side, z), Closes(z) \in Jobs(z[1])'
        PROVE  Falls(side, z)'
    <2>1. z # t /\ agenda'[z] = <<>>
      BY <1>1, <1>2, <1>3, <1>5 DEF Falls
    <2>2. ASSUME NEW s \in Jobs(z[1])' PROVE s = Closes(z) \/ OfFall(side, z, s)
      <3>1. CASE z[1] # t \/ s \in After(t)
        <4>1. s \in Jobs(z[1])
          <5>1. z[1] \in Threads
            BY <1>3 DEF Threads
          <5> QED BY <1>1, <1>2, <2>2, <3>1, <5>1
        <4> QED BY <1>5, <4>1 DEF Falls
      <3>2. CASE z[1] = t /\ s \notin After(t)
        <4>1. Now(t) # Closes(z)
          <5>1. ASSUME Now(t) = Closes(z) PROVE FALSE
            <6>1. CloseXport(t)
              BY <5>1, WorkIs, DoFields DEF Closes
            <6> QED BY <2>2, <3>2, <6>1, JobsDone
          <5> QED BY <5>1
        <4>2. OfFall(side, z, Now(t))
          BY <1>1, <1>5, <3>2, <4>1 DEF Falls
        <4>3. FromIt(side, z, Now(t)) /\ z[1] = RouterOf(t)
          BY <1>3, <3>2, <4>2 DEF OfFall, RouterOf
        <4> QED BY <2>2, <3>2, <4>2, <4>3, WorkFrom
      <3> QED BY <3>1, <3>2
    <2> QED BY <1>5, <2>1, <2>2 DEF Falls, Closing
  <1>6. ASSUME NEW n \in Routers
        PROVE  \/ \A s \in Jobs(n)' : OfApp(n, s)
               \/ \E z \in Xports : z[1] = n /\ Falls(side, z)'
    <2>1. n \in Threads
      BY DEF Threads
    <2>2. CASE \A s \in Jobs(n) : OfApp(n, s)
      <3>1. CASE n # t
        BY <1>2, <2>1, <2>2, <3>1
      <3>2. CASE n = t
        <4>1. ASSUME NEW s \in Jobs(n)', s \notin After(t) PROVE OfApp(n, s)
          BY <1>1, <2>2, <3>2, <4>1, WorkApp
        <4> QED BY <1>1, <2>2, <3>2, <4>1
      <3> QED BY <3>1, <3>2
    <2>3. CASE \E z \in Xports : z[1] = n /\ Falls(side, z)
      <3>1. PICK z \in Xports : z[1] = n /\ Falls(side, z)
        BY <2>3
      <3>2. CASE Closes(z) \in Jobs(n)'
        BY <1>5, <3>1, <3>2
      <3>3. CASE Closes(z) \notin Jobs(n)'
        <4>1. Closes(z) \in Jobs(n)
          BY <3>1 DEF Falls, Closing
        <4>2. n = t /\ Closes(z) = Now(t)
          BY <2>1, <3>3, <4>1, WorkKeeps
        <4>3. After(t) = {} /\ CloseXport(t)
          <5>1. Now(t).do = "close"
            BY <4>2, DoFields DEF Closes
          <5> QED BY <1>1, <5>1, OrderedNow, WorkIs DEF Final
        <4>4. Jobs(n)' = {}
          BY <4>2, <4>3, JobsDone
        <4> QED BY <4>4
      <3> QED BY <3>2, <3>3
    <2> QED BY <2>2, <2>3 DEF Sided
  <1>7. ASSUME NEW y \in Xports, NEW m \in ToSet(net'[y]) PROVE MayCarry(side, y, m)'
    <2>1. net[y] \in Seq(Message)
      BY DEF TypeInv, TypeOK
    <2>2. CASE m \in ToSet(net[y]) /\ (Closing(y) => Closing(y)')
      BY <2>2, CarryKept
    <2>3. CASE \E r : net'[y] = Append(net[y], r) /\ Sent(t, y, r) /\ m = r
      BY <2>3, WorkSends DEF MayCarry
    <2>4. Closing(y) /\ net'[y] # <<>> => Closing(y)'
      <3> SUFFICES ASSUME Closing(y), ~Closing(y)' PROVE net'[y] = <<>>
        OBVIOUS
      <3>1. y[1] \in Threads
        BY <1>3 DEF Threads
      <3>2. y[1] = t /\ Closes(y) = Now(t)
        BY <3>1, WorkKeeps DEF Closing
      <3>3. Now(t).do = "close" /\ y \in Now(t).xs
        BY <3>2, DoFields DEF Closes
      <3> QED BY <3>3, WorkNet DEF Sent, Writes
    <2>5. CASE net'[y] = net[y] /\ net[y] # <<>>
      BY <1>7, <2>2, <2>4, <2>5
    <2>6. CASE net'[y] = <<>>
      BY <1>7, <2>6, Elements
    <2>7. CASE \E r : net'[y] = Append(net[y], r) /\ Sent(t, y, r)
      <3>1. PICK r : net'[y] = Append(net[y], r) /\ Sent(t, y, r)
        BY <2>7
      <3>2. r \in Message
        BY <3>1, WorkSends
      <3>3. ToSet(net'[y]) = ToSet(net[y]) \cup {r} /\ net'[y] # <<>>
        BY <2>1, <3>1, <3>2, ElementsMore
      <3> QED BY <1>7, <2>2, <2>3, <2>4, <3>1, <3>3
    <2> QED BY <2>5, <2>6, <2>7, WorkNet
  <1> QED
    BY <1>4, <1>6, <1>7 DEF Sided

\* What a thread that had nothing to do begins
LEMMA StartsOnly ==
  ASSUME NEW t, NEW S, Starts(t, S), NEW u \in Threads
  PROVE  /\ u # t => Jobs(u)' = Jobs(u) /\ agenda'[u] = agenda[u]
         /\ u = t => Jobs(u)' = S /\ Jobs(u) = {} /\ agenda[u] = <<>>
  BY DEF Starts, Others, Jobs

\* A thread that begins what it may keeps threads and closings to sides.
LEMMA StartSided ==
  ASSUME NEW side, TypeInv, Sided(side), NEW t \in Threads, NEW S, Starts(t, S),
         t \in Xports => ~Closing(t) /\ \A s \in S : OfWorker(side, t, s),
         t \in Routers => \/ \A s \in S : OfApp(t, s)
                          \/ \E z \in Xports : /\ z[1] = t /\ agenda[z] = <<>> /\ Closes(z) \in S
                                               /\ \A s \in S : s = Closes(z) \/ OfFall(side, z, s)
  PROVE  /\ \A z \in Xports : \A s \in Jobs(z)' : OfWorker(side, z, s)
         /\ \A n \in Routers : \/ \A s \in Jobs(n)' : OfApp(n, s)
                               \/ \E z \in Xports : z[1] = n /\ Falls(side, z)'
         /\ \A y \in Xports : Closing(y) => Closing(y)'
  <1>1. \A x \in Xports : x \in Threads /\ x \notin Routers /\ x[1] \in Routers /\ x[1] \in Threads
    BY Both, NamingAssumption DEF Threads
  <1>2. \A u \in Threads : /\ u # t => Jobs(u)' = Jobs(u) /\ agenda'[u] = agenda[u]
                           /\ u = t => Jobs(u)' = S /\ Jobs(u) = {} /\ agenda[u] = <<>>
    BY StartsOnly
  <1>3. ASSUME NEW z \in Xports, NEW s \in Jobs(z)' PROVE OfWorker(side, z, s)
    BY <1>1, <1>2, <1>3 DEF Sided
  <1>4. ASSUME NEW n \in Routers
        PROVE  \/ \A s \in Jobs(n)' : OfApp(n, s)
               \/ \E z \in Xports : z[1] = n /\ Falls(side, z)'
    <2>1. n \in Threads
      BY DEF Threads
    <2>2. CASE n = t
      <3>1. CASE \A s \in S : OfApp(t, s)
        BY <1>2, <2>2, <3>1
      <3>2. CASE ~\A s \in S : OfApp(t, s)
        <4>1. PICK z \in Xports : /\ z[1] = t /\ agenda[z] = <<>> /\ Closes(z) \in S
                                  /\ \A s \in S : s = Closes(z) \/ OfFall(side, z, s)
          BY <2>2, <3>2
        <4>2. agenda'[z] = <<>> /\ Jobs(z[1])' = S
          BY <1>1, <1>2, <2>2, <4>1
        <4> QED BY <2>2, <4>1, <4>2 DEF Falls, Closing
      <3> QED BY <3>1, <3>2
    <2>3. CASE n # t
      <3>1. Jobs(n)' = Jobs(n)
        BY <1>2, <2>1, <2>3
      <3>2. CASE \A s \in Jobs(n) : OfApp(n, s)
        BY <3>1, <3>2
      <3>3. CASE \E z \in Xports : z[1] = n /\ Falls(side, z)
        <4>1. PICK z \in Xports : z[1] = n /\ Falls(side, z)
          BY <3>3
        <4>2. z # t
          BY <4>1 DEF Falls
        <4>3. agenda'[z] = <<>>
          BY <1>1, <1>2, <4>1, <4>2 DEF Falls
        <4> QED BY <3>1, <4>1, <4>3 DEF Falls, Closing
      <3> QED BY <3>2, <3>3 DEF Sided
    <2> QED BY <2>2, <2>3
  <1>5. ASSUME NEW y \in Xports, Closing(y) PROVE Closing(y)'
    <2>1. y[1] # t
      BY <1>1, <1>2, <1>5 DEF Closing
    <2> QED BY <1>1, <1>2, <1>5, <2>1 DEF Closing
  <1> QED
    BY <1>3, <1>4, <1>5

\* What applications begin keeps to sides.
LEMMA ApplicationSided ==
  ASSUME NEW side, TypeInv, Sided(side), NEW v \in Servers,
         RegServer(v) \/ DeregServer(v) \/ Close(v)
  PROVE  Sided(side)'
  <1> DEFINE n == HomeOf[v]
  <1>1. n \in Routers /\ n \in Threads /\ n \notin Xports
    BY NamingAssumption DEF Threads
  <1>2. PICK S : Starts(n, S) /\ \A s \in S : OfApp(n, s)
    <2>1. \A what \in {"register", "tellServer", "tellClient", "removeClient"} :
            OfApp(n, Do(what, v, {}))
      BY DoFields DEF OfApp, Writes
    <2>2. CASE RegServer(v)
      <3>1. Starts(n, {Do("register", v, {})})
        BY <2>2, ApplicationStarts
      <3> QED BY <2>1, <3>1
    <2>3. CASE DeregServer(v)
      <3>1. Starts(n, {Do("tellServer", v, {})})
        BY <2>3, ApplicationStarts
      <3> QED BY <2>1, <3>1
    <2>4. CASE Close(v)
      <3>1. Starts(n, {Do("tellClient", v, {}), Do("removeClient", v, {})})
        BY <2>4, ApplicationStarts
      <3> QED BY <2>1, <3>1
    <2> QED BY <2>2, <2>3, <2>4
  <1>3. net' = net
    BY ApplicationStarts
  <1>4. /\ \A z \in Xports : \A s \in Jobs(z)' : OfWorker(side, z, s)
        /\ \A r \in Routers : \/ \A s \in Jobs(r)' : OfApp(r, s)
                              \/ \E z \in Xports : z[1] = r /\ Falls(side, z)'
        /\ \A y \in Xports : Closing(y) => Closing(y)'
    BY <1>1, <1>2, StartSided
  <1>5. \A y \in Xports : \A m \in ToSet(net'[y]) : MayCarry(side, y, m)'
    BY <1>3, <1>4, CarryKept
  <1> QED
    BY <1>4, <1>5 DEF Sided

\* Steps that a worker or the closing of its transport begin with
LEMMA FirstSteps ==
  ASSUME NEW side, NEW z \in Xports
  PROVE  /\ \A what \in {"hello", "flush", "down"} : OfWorker(side, z, Do(what, None, {z}))
         /\ \A what \in {"register", "dropServer", "tellServer", "tellClient", "removeClient"} :
              \A v \in Beyond(side, z) : OfWorker(side, z, Do(what, v, {z}))
         /\ OfFall(side, z, Do("down", None, {z}))
  <1>1. \A what \in {"hello", "flush", "down"} : OfWorker(side, z, Do(what, None, {z}))
    BY DoFields DEF OfWorker, FromIt, News, Writes, Sourced
  <1>2. \A what \in {"register", "dropServer", "tellServer", "tellClient", "removeClient"} :
          \A v \in Beyond(side, z) : OfWorker(side, z, Do(what, v, {z}))
    BY DoFields DEF OfWorker, FromIt, News, Writes, Sourced
  <1>3. OfFall(side, z, Do("down", None, {z}))
    BY DoFields DEF OfFall, FromIt, News, Writes, Sourced
  <1> QED
    BY <1>1, <1>2, <1>3

\* What a worker is told is about servers beyond its transport.
LEMMA ToldBeyond ==
  ASSUME NEW side, TypeInv, Away(side), Sided(side), NEW x \in Xports, Receive(x),
         NEW m, m = Head(net[There(x)]), m.kind \in {"NEW_SERVER", "REMOVE_SERVER", "REMOVE_CLIENT"}
  PROVE  m.of \in Beyond(side, x)
  <1>1. There(x) \in Xports /\ There(There(x)) = x
    BY Both
  <1>2. net[There(x)] # <<>> /\ m \in ToSet(net[There(x)])
    BY ReceiveTakes
  <1>3. CASE m.kind = "NEW_SERVER"
    <2>1. net[There(x)] \in Seq(Told(side)[There(x)])
      BY <1>1 DEF Away
    <2>2. m \in Told(side)[There(x)]
      BY <1>2, <2>1, HeadTail
    <2> QED BY <1>1, <1>3, <2>2 DEF Told, Beyond
  <1>4. CASE m.kind # "NEW_SERVER"
    BY <1>1, <1>2, <1>4 DEF Sided, MayCarry, Beyond
  <1> QED
    BY <1>3, <1>4

\* What transports begin keeps to sides.
LEMMA TransportSided ==
  ASSUME NEW side, TypeInv, Away(side), Sided(side), NEW x \in Xports,
         StartXport(x) \/ StopXport(x) \/ Signalled(x)
  PROVE  Sided(side)'
  <1> DEFINE Workers == \A z \in Xports : \A s \in Jobs(z)' : OfWorker(side, z, s)
             Apps == \A r \in Routers : \/ \A s \in Jobs(r)' : OfApp(r, s)
                                        \/ \E z \in Xports : z[1] = r /\ Falls(side, z)'
             Stay == \A y \in Xports : Closing(y) => Closing(y)'
             Carries == \A y \in Xports : \A m \in ToSet(net'[y]) : MayCarry(side, y, m)'
  <1>1. /\ x \in Threads /\ x \notin Routers
        /\ x[1] \in Routers /\ x[1] \in Threads /\ x[1] \notin Xports
        /\ There(x) \in Xports
    BY Both, NamingAssumption DEF Threads
  <1>2. net \in [Xports -> Seq(Message)]
    BY DEF TypeInv, TypeOK
  <1>3. SUFFICES Workers /\ Apps /\ Carries
    BY DEF Sided
  <1>4. ASSUME agenda' = agenda PROVE Workers /\ Apps /\ Stay
    <2>1. \A u \in Threads : Jobs(u)' = Jobs(u)
      BY <1>4 DEF Jobs
    <2>2. Workers /\ Apps
      BY <1>4 DEF Sided, Falls, Closing, Jobs
    <2> QED BY <1>4, <2>2 DEF Closing, Jobs
  <1>5. ASSUME NEW y \in Xports, NEW m \in Message, net'[y] = Append(net[y], m), Stay,
               MayCarry(side, y, m)'
        PROVE  \A r \in ToSet(net'[y]) : MayCarry(side, y, r)'
    <2>1. ToSet(net'[y]) = ToSet(net[y]) \cup {m}
      BY <1>2, <1>5, ElementsMore
    <2> QED BY <1>5, <2>1, CarryKept
  <1>6. ASSUME Stay, NEW y \in Xports, net'[y] = net[y]
        PROVE  \A r \in ToSet(net'[y]) : MayCarry(side, y, r)'
    BY <1>6, CarryKept
  <1>7. MayCarry(side, x, Msg("HELLO", None))'
    BY DEF MayCarry, Msg
  <1>8. CASE StartXport(x)
    <2>1. Workers /\ Apps /\ Stay
      BY <1>4, <1>8, TransportStarts
    <2>2. net' = [net EXCEPT ![x] = <<Msg("HELLO", None)>>]
      BY <1>8 DEF StartXport
    <2>3. \A y \in Xports : y # x => net'[y] = net[y]
      BY <1>2, <2>2
    <2>4. ToSet(net'[x]) = {Msg("HELLO", None)}
      BY <1>2, <2>2, Elements
    <2> QED BY <1>6, <1>7, <2>1, <2>3, <2>4
  <1>9. CASE Open(x)
    <2>1. Workers /\ Apps /\ Stay
      BY <1>4, <1>9, TransportStarts
    <2>2. \A y \in Xports : net'[y] = net[y] \/ (y = x /\ net'[y] = Append(net[y], Msg("HELLO", None)))
      BY <1>9 DEF Open, Send
    <2>3. Msg("HELLO", None) \in Message
      BY DEF Msg, Message
    <2> QED BY <1>5, <1>6, <1>7, <2>1, <2>2, <2>3
  <1>10. CASE StopXport(x)
    <2> DEFINE S == {Do("down", None, {x}), Closes(x)}
    <2>1. agenda[x] = <<>> /\ Starts(x[1], S)
      BY <1>10, TransportStarts
    <2>2. Workers /\ Apps /\ Stay
      <3>1. /\ x[1] = x[1] /\ agenda[x] = <<>> /\ Closes(x) \in S
            /\ \A s \in S : s = Closes(x) \/ OfFall(side, x, s)
        BY <2>1, FirstSteps
      <3> HIDE DEF S
      <3> QED BY <1>1, <2>1, <3>1, StartSided
    <2>3. \A y \in Xports : net'[y] = net[y] \/ (y = x /\ net'[y] = Append(net[y], Msg("BYE", None)))
      BY <1>10 DEF StopXport, Send
    <2>4. Msg("BYE", None) \in Message
      BY DEF Msg, Message
    <2>5. MayCarry(side, x, Msg("BYE", None))'
      <3>1. Closes(x) \in Jobs(x[1])'
        BY <1>1, <2>1, StartsOnly
      <3> QED BY <3>1 DEF MayCarry, Msg, Closing
    <2> QED BY <1>5, <1>6, <2>2, <2>3, <2>4, <2>5
  <1>11. CASE RemoteClose(x)
    <2> DEFINE S == {Do("flush", None, {x})} \cup (IF up[x] THEN {Do("down", None, {x})} ELSE {})
    <2>1. Starts(x, S)
      BY <1>11, TransportStarts
    <2>2. ~Closing(x)
      BY <1>11 DEF RemoteClose, Ready, Closing, Closes, Jobs, Do, ToSet
    <2>3. Workers /\ Apps /\ Stay
      <3>1. \A s \in S : OfWorker(side, x, s)
        BY FirstSteps
      <3> HIDE DEF S
      <3> QED BY <1>1, <2>1, <2>2, <3>1, StartSided
    <2>4. net' = net
      BY <1>11 DEF RemoteClose, links
    <2> QED BY <1>6, <2>3, <2>4
  <1>12. CASE Receive(x)
    <2>1. PICK m : m = Head(net[There(x)])
      OBVIOUS
    <2>2. Takes(x, m) /\ net[There(x)] # <<>> /\ net'[There(x)] = Tail(net[There(x)])
          /\ \A y \in Xports : y # There(x) => net'[y] = net[y]
      BY <1>12, <2>1, ReceiveTakes
    <2>3. ~Closing(x)
      BY <1>12 DEF Receive, Ready, Closing, Closes, Jobs, Do, ToSet
    <2>4. m.kind \in {"NEW_SERVER", "REMOVE_SERVER", "REMOVE_CLIENT"} => m.of \in Beyond(side, x)
      BY <1>12, <2>1, ToldBeyond
    <2>5. PICK S : Starts(x, S) /\ \A s \in S : OfWorker(side, x, s)
      <3>1. /\ \A what \in {"hello", "down"} : OfWorker(side, x, Do(what, None, {x}))
            /\ m.kind \in {"NEW_SERVER", "REMOVE_SERVER", "REMOVE_CLIENT"} =>
                 \A what \in {"register", "dropServer", "tellServer", "tellClient", "removeClient"} :
                   OfWorker(side, x, Do(what, m.of, {x}))
        BY <2>4, FirstSteps
      <3>2. CASE m.kind = "HELLO"
        <4>1. Starts(x, {Do("hello", None, {x})})
          BY <2>2, <3>2 DEF Takes
        <4> QED BY <3>1, <3>2, <4>1
      <3>3. CASE m.kind = "BYE"
        <4>1. Starts(x, {Do("down", None, {x})})
          BY <2>2, <3>3 DEF Takes
        <4> QED BY <3>1, <3>3, <4>1
      <3>4. CASE m.kind = "NEW_SERVER"
        <4>1. Starts(x, {Do("register", m.of, {x})})
          BY <2>2, <3>4 DEF Takes
        <4> QED BY <3>1, <3>4, <4>1
      <3>5. CASE m.kind = "REMOVE_SERVER" /\ server[x[1]][m.of] = None
        <4>1. Starts(x, {})
          BY <2>2, <3>5 DEF Takes
        <4> QED BY <3>1, <3>5, <4>1
      <3>6. CASE m.kind = "REMOVE_SERVER" /\ server[x[1]][m.of] # None
        <4>1. Starts(x, {Do("dropServer", m.of, {x}), Do("tellServer", m.of, {x})})
          BY <2>2, <3>6 DEF Takes
        <4> QED BY <3>1, <3>6, <4>1
      <3>7. CASE m.kind = "REMOVE_CLIENT"
        <4>1. Starts(x, {Do("tellClient", m.of, {x}), Do("removeClient", m.of, {x})})
          BY <2>2, <3>7 DEF Takes
        <4> QED BY <3>1, <3>7, <4>1
      <3> QED BY <2>2, <3>2, <3>3, <3>4, <3>5, <3>6, <3>7 DEF Takes
    <2>6. Workers /\ Apps /\ Stay
      BY <1>1, <2>3, <2>5, StartSided
    <2>7. \A r \in ToSet(net'[There(x)]) : MayCarry(side, There(x), r)'
      <3>1. ToSet(net'[There(x)]) \subseteq ToSet(net[There(x)])
        BY <1>1, <1>2, <2>2, ElementsHead
      <3> QED BY <1>1, <2>6, <3>1, CarryKept
    <2> QED BY <1>6, <2>2, <2>6, <2>7
  <1> QED
    BY <1>8, <1>9, <1>10, <1>11, <1>12 DEF Signalled

\* Routers that restart keep to sides.
LEMMA RestartSided ==
  ASSUME NEW side, TypeInv, Sided(side), NEW n \in Routers, Restart(n)
  PROVE  Sided(side)'
  <1>1. \A x \in Xports : x \in Threads /\ x \notin Routers /\ RouterOf(x) = x[1] /\ x[1] \in Routers
    BY Both, NamingAssumption
  <1>2. /\ \A t \in Threads : RouterOf(t) = n => Jobs(t)' = {} /\ agenda'[t] = <<>>
        /\ \A t \in Threads : RouterOf(t) # n => agenda'[t] = agenda[t] /\ Jobs(t)' = Jobs(t)
    BY RestartClears DEF Jobs
  <1>3. \A r \in Routers : r \in Threads /\ RouterOf(r) = r
    BY DEF Threads, RouterOf
  <1>4. ASSUME NEW z \in Xports, NEW s \in Jobs(z)' PROVE OfWorker(side, z, s)
    BY <1>1, <1>2, <1>4 DEF Sided
  <1>5. ASSUME NEW r \in Routers
        PROVE  \/ \A s \in Jobs(r)' : OfApp(r, s)
               \/ \E z \in Xports : z[1] = r /\ Falls(side, z)'
    <2>1. CASE r = n
      BY <1>2, <1>3, <2>1
    <2>2. CASE r # n
      <3>1. Jobs(r)' = Jobs(r)
        BY <1>2, <1>3, <2>2
      <3>2. ASSUME NEW z \in Xports, z[1] = r, Falls(side, z) PROVE Falls(side, z)'
        <4>1. agenda'[z] = <<>>
          BY <1>1, <1>2, <2>2, <3>2 DEF Falls
        <4> QED BY <3>1, <3>2, <4>1 DEF Falls, Closing
      <3> QED BY <3>1, <3>2 DEF Sided
    <2> QED BY <2>1, <2>2
  <1>6. ASSUME NEW y \in Xports, NEW m \in ToSet(net'[y]) PROVE MayCarry(side, y, m)'
    <2>1. CASE y[1] = n
      BY <1>6, <2>1, RestartClears, Elements
    <2>2. CASE y[1] # n
      <3>1. net'[y] = net[y]
        BY <2>2, RestartClears
      <3>2. Closing(y) => Closing(y)'
        BY <1>1, <1>2, <1>3, <2>2 DEF Closing
      <3> QED BY <1>6, <3>1, <3>2, CarryKept
    <2> QED BY <2>1, <2>2
  <1> QED
    BY <1>4, <1>5, <1>6 DEF Sided

\* What is known from a transport stays on its side.
LEMMA SidedKept ==
  ASSUME NEW side, Ways(side), TypeInv, Away(side), Ordered, Sided(side), [Next]_vars
  PROVE  Sided(side)' /\ Ordered'
  <1>1. ASSUME NEW t \in Threads, Work(t) PROVE Sided(side)' /\ Ordered'
    BY <1>1, WorkSided, WorkOrdered
  <1>2. ASSUME NEW v \in Servers, RegServer(v) \/ DeregServer(v) \/ Close(v)
        PROVE  Sided(side)' /\ Ordered'
    BY <1>2, ApplicationSided, OtherOrdered
  <1>3. ASSUME NEW x \in Xports, StartXport(x) \/ StopXport(x) \/ Signalled(x)
        PROVE  Sided(side)' /\ Ordered'
    BY <1>3, TransportSided, OtherOrdered
  <1>4. ASSUME NEW n \in Routers, Restart(n) PROVE Sided(side)' /\ Ordered'
    BY <1>4, RestartSided, OtherOrdered
  <1>5. CASE UNCHANGED vars
    BY <1>5 DEF vars, links, threads, Sided, Ordered, Jobs, Falls, Closing, MayCarry
  <1> QED
    BY <1>1, <1>2, <1>3, <1>4, <1>5 DEF Next

-----------------------------------------------------------------------------
(***************************************************************************)
(* Transports that are up                                                  *)
(***************************************************************************)

Down(x) == Do("down", None, {x})

Greets(x) == \E s \in Jobs(x) : s.do = "hello"

\* A transport that has been greeted is open or lost, and one that is closed
\* or flushed falls first; as long as it is open, so is its other end.
Linked(x) ==
  /\ up[x] \/ Greets(x) => st[x] \in {"open", "lost"}
  /\ \A s \in Jobs(x) : s.do = "flush" => st[x] = "lost" /\ (up[x] => Down(x) \in Jobs(x))
  /\ Closing(x) /\ up[x] => Down(x) \in Jobs(x[1])
  /\ st[x] = "open" /\ (up[x] \/ Greets(x)) => st[There(x)] = "open"

Links == \A x \in Xports : Linked(x)

\* Some steps are made by nothing but messages, applications and transports.
LEMMA NeverMade ==
  ASSUME NEW t, NEW s, Made(t, s)
  PROVE  s.do \in {"release", "NEW_SERVER", "REMOVE_SERVER", "REMOVE_CLIENT", "dropServer", "dropClient",
                   "advertise", "downClients", "downServer", "downClient"}
  BY DoFields DEF Made

\* Who greets, falls, flushes or closes
LEMMA WhoseStep ==
  ASSUME NEW side, TypeInv, Ordered, Sided(side), Links, NEW t \in Threads, Work(t)
  PROVE  /\ Now(t).do = "hello" => /\ t \in Xports /\ After(t) = {} /\ Greets(t) /\ ~Closing(t)
         /\ Now(t).do = "flush" => t \in Xports /\ After(t) = {} /\ st[t] = "lost" /\ ~up[t]
         /\ Now(t).do = "close" =>
              \E z \in Xports : /\ Now(t) = Closes(z) /\ Now(t).xs = {z} /\ z[1] = t /\ After(t) = {}
                                /\ agenda[z] = <<>> /\ Jobs(z) = {} /\ ~up[z] /\ z # t
         /\ Now(t).do = "down" =>
              \E z \in Xports : Now(t).xs = {z} /\ From(t) = z /\ z[1] = RouterOf(t)
  <1>1. /\ Now(t) \in Jobs(t) /\ Jobs(t) = {Now(t)} \cup After(t) /\ agenda[t] # <<>>
        /\ Now(t).do \in {"register", "hello"} => After(t) = {}
        /\ Now(t).do \in Final => After(t) = {}
    BY WorkNow, OrderedNow
  <1>2. ASSUME Now(t).do \in {"hello", "flush"} PROVE t \in Xports /\ OfWorker(side, t, Now(t))
    <2>1. \A n : ~OfApp(n, Now(t))
      BY <1>2 DEF OfApp, Writes
    <2>2. \A z : ~OfFall(side, z, Now(t)) /\ Now(t) # Closes(z)
      BY <1>2, DoFields DEF OfFall, Closes
    <2> QED BY <1>1, <2>1, <2>2, WorksFor
  <1>3. ASSUME Now(t).do = "hello" PROVE t \in Xports /\ After(t) = {} /\ Greets(t) /\ ~Closing(t)
    <2>1. t \in Xports /\ After(t) = {} /\ Greets(t)
      BY <1>1, <1>2, <1>3 DEF Greets
    <2> QED BY <1>1, <2>1, ClosingFalls DEF Falls
  <1>4. ASSUME Now(t).do = "flush" PROVE t \in Xports /\ After(t) = {} /\ st[t] = "lost" /\ ~up[t]
    <2>1. t \in Xports /\ After(t) = {} /\ st[t] = "lost" /\ (up[t] => Down(t) \in Jobs(t))
      BY <1>1, <1>2, <1>4 DEF Final, Links, Linked
    <2>2. Down(t) # Now(t)
      BY <1>4, DoFields DEF Down
    <2> QED BY <1>1, <2>1, <2>2
  <1>5. ASSUME Now(t).do = "close"
        PROVE  \E z \in Xports : /\ Now(t) = Closes(z) /\ Now(t).xs = {z} /\ z[1] = t /\ After(t) = {}
                                 /\ agenda[z] = <<>> /\ Jobs(z) = {} /\ ~up[z] /\ z # t
    <2>1. \A n : ~OfApp(n, Now(t))
      BY <1>5 DEF OfApp, Writes
    <2>2. \A z : ~OfFall(side, z, Now(t)) /\ ~OfWorker(side, z, Now(t))
      BY <1>5 DEF OfFall, OfWorker
    <2>3. PICK z \in Xports : z[1] = t /\ Falls(side, z) /\ Now(t) = Closes(z)
      BY <1>1, <2>1, <2>2, WorksFor
    <2>4. Now(t).xs = {z} /\ After(t) = {} /\ agenda[z] = <<>> /\ Jobs(z) = {} /\ z # t
      BY <1>1, <1>5, <2>3, DoFields, Elements DEF Closes, Final, Falls, Jobs
    <2>5. ~up[z]
      <3>1. up[z] => Down(z) \in Jobs(t)
        BY <2>3 DEF Falls, Links, Linked
      <3>2. Down(z) # Now(t)
        BY <1>5, DoFields DEF Down
      <3> QED BY <1>1, <2>4, <3>1, <3>2
    <2> QED BY <2>3, <2>4, <2>5
  <1>6. ASSUME Now(t).do = "down"
        PROVE  \E z \in Xports : Now(t).xs = {z} /\ From(t) = z /\ z[1] = RouterOf(t)
    <2>1. \A n : ~OfApp(n, Now(t))
      BY <1>6 DEF OfApp, Writes
    <2>2. \A z : Now(t) # Closes(z)
      BY <1>6, DoFields DEF Closes
    <2>3. PICK z \in Xports : z[1] = RouterOf(t) /\ FromIt(side, z, Now(t))
      BY <1>1, <2>1, <2>2, WorksFor DEF OfWorker, OfFall
    <2>4. Now(t).xs = {z}
      BY <1>6, <2>3 DEF FromIt, Sourced
    <2> QED BY <2>3, <2>4 DEF From
  <1> QED
    BY <1>3, <1>4, <1>5, <1>6

\* Threads keep links in order.
LEMMA WorkLinks ==
  ASSUME NEW side, TypeInv, Ordered, Sided(side), Links, NEW t \in Threads, Work(t)
  PROVE  Links'
  <1> SUFFICES ASSUME NEW x \in Xports PROVE Linked(x)'
    BY DEF Links
  <1>1. /\ There(x) \in Xports /\ There(There(x)) = x /\ x \in Threads /\ x[1] \in Threads
        /\ x[1] \notin Xports
    BY Both, NamingAssumption DEF Threads
  <1>2. /\ Linked(x)
        /\ Jobs(t) = {Now(t)} \cup After(t) /\ Now(t) \in Jobs(t)
    BY WorkNow DEF Links
  <1>3. ASSUME NEW u \in Threads, NEW s \in Jobs(u)', s.do \in {"hello", "flush", "close"}
        PROVE  s \in Jobs(u) /\ (u = t => s \in After(t))
    <2>1. CASE u = t
      <3>1. s \in After(t) \/ Made(t, s)
        BY <1>3, <2>1, WorkMakes
      <3> QED BY <1>2, <1>3, <2>1, <3>1, NeverMade
    <2>2. CASE u # t
      BY <1>3, <2>2, WorkOthers DEF Others, Jobs
    <2> QED BY <2>1, <2>2
  <1>4. Greets(x)' => Greets(x) /\ (x = t => After(t) # {})
    BY <1>1, <1>3 DEF Greets
  <1>5. Closing(x)' => Closing(x)
    BY <1>1, <1>3, DoFields DEF Closing, Closes
  <1>6. up'[x] => up[x] \/ (Now(t).do = "hello" /\ x = t /\ Greets(x))
    <2>1. CASE Now(t).do = "hello" /\ x = t
      BY <2>1, WhoseStep
    <2> QED BY <2>1, WorkUp
  <1>7. /\ \/ st'[x] = st[x]
           \/ st[x] = "lost" /\ ~up[x] /\ x = t /\ Now(t).do = "flush" /\ After(t) = {}
           \/ ~up[x] /\ Jobs(x) = {} /\ x # t /\ Now(t).do # "hello"
           \/ st[x] = "open" /\ st'[x] = "lost"
        /\ st'[x] = "open" =>
             /\ st[x] = "open"
             /\ \/ st'[There(x)] = st[There(x)]
                \/ There(x) = t /\ st[There(x)] = "lost"
    <2>1. CASE Now(t).do \notin {"flush", "close"}
      BY <1>1, <2>1, WorkUp
    <2>2. CASE Now(t).do = "flush"
      BY <1>1, <2>2, WorkUp, WhoseStep
    <2>3. CASE Now(t).do = "close"
      <3>1. PICK z \in Xports : /\ Now(t) = Closes(z) /\ Now(t).xs = {z} /\ z[1] = t /\ After(t) = {}
                                /\ agenda[z] = <<>> /\ Jobs(z) = {} /\ ~up[z] /\ z # t
        BY <2>3, WhoseStep
      <3>2. /\ st'[x] = IF x \in {z} THEN "closed"
                        ELSE IF There(x) \in {z} /\ st[x] = "open" THEN "lost" ELSE st[x]
            /\ st'[There(x)] = IF There(x) \in {z} THEN "closed"
                        ELSE IF x \in {z} /\ st[There(x)] = "open" THEN "lost" ELSE st[There(x)]
        BY <1>1, <2>3, <3>1, WorkUp
      <3> QED BY <2>3, <3>1, <3>2
    <2> QED BY <2>1, <2>2, <2>3
  <1>8. ASSUME up'[x] \/ Greets(x)' PROVE st'[x] \in {"open", "lost"}
    <2>1. up[x] \/ Greets(x)
      BY <1>4, <1>6, <1>8
    <2>2. st[x] \in {"open", "lost"}
      BY <1>2, <2>1 DEF Linked
    <2>3. ~(~up[x] /\ Jobs(x) = {})
      BY <2>1 DEF Greets
    <2>4. ~(~up[x] /\ x = t /\ Now(t).do = "flush" /\ After(t) = {})
      BY <1>4, <1>6, <1>8
    <2> QED BY <1>7, <2>2, <2>3, <2>4
  <1>9. ASSUME NEW s \in Jobs(x)', s.do = "flush"
        PROVE  st'[x] = "lost" /\ (up'[x] => Down(x) \in Jobs(x)')
    <2>1. s \in Jobs(x) /\ (x = t => s \in After(t))
      BY <1>1, <1>3, <1>9
    <2>2. st[x] = "lost" /\ (up[x] => Down(x) \in Jobs(x))
      BY <1>2, <1>9, <2>1 DEF Linked
    <2>3. st'[x] = "lost"
      BY <1>7, <2>1, <2>2
    <2>4. ASSUME up'[x] PROVE Down(x) \in Jobs(x)'
      <3>1. up[x]
        <4>1. ~(Now(t).do = "hello" /\ x = t)
          BY <2>1, WhoseStep
        <4> QED BY <1>6, <2>4, <4>1
      <3>2. ~(x = t /\ Down(x) = Now(t))
        <4>1. ASSUME x = t, Down(x) = Now(t) PROVE FALSE
          <5>1. Now(t).do = "down" /\ Now(t).xs = {x}
            BY <4>1, DoFields DEF Down
          <5>2. From(t) = x
            BY <5>1 DEF From
          <5> QED BY <2>4, <5>1, <5>2, WorkUp
        <4> QED BY <4>1
      <3> QED BY <1>1, <2>2, <3>1, <3>2, WorkKeeps
    <2> QED BY <2>3, <2>4
  <1>10. ASSUME Closing(x)', up'[x] PROVE Down(x) \in Jobs(x[1])'
    <2>1. Closing(x)
      BY <1>5, <1>10
    <2>2. up[x]
      BY <1>6, <1>10, <2>1, WhoseStep
    <2>3. Down(x) \in Jobs(x[1])
      BY <1>2, <2>1, <2>2 DEF Linked
    <2>4. ~(x[1] = t /\ Down(x) = Now(t))
      <3>1. ASSUME Down(x) = Now(t) PROVE FALSE
        <4>1. Now(t).do = "down" /\ Now(t).xs = {x}
          BY <3>1, DoFields DEF Down
        <4>2. From(t) = x
          BY <4>1 DEF From
        <4> QED BY <1>10, <4>1, <4>2, WorkUp
      <3> QED BY <3>1
    <2> QED BY <1>1, <2>3, <2>4, WorkKeeps
  <1>11. ASSUME st'[x] = "open", up'[x] \/ Greets(x)' PROVE st'[There(x)] = "open"
    <2>1. up[x] \/ Greets(x)
      BY <1>4, <1>6, <1>11
    <2>2. st[x] = "open"
      <3>1. st[x] \in {"open", "lost"}
        BY <1>2, <2>1 DEF Linked
      <3> QED BY <1>7, <1>11, <3>1
    <2>3. st[There(x)] = "open"
      BY <1>2, <2>1, <2>2 DEF Linked
    <2> QED BY <1>7, <1>11, <2>3
  <1> QED
    BY <1>8, <1>9, <1>10, <1>11 DEF Linked

\* A thread that has nothing to do begins what does not greet or flush, and closes nothing
\* that it does not take down first.
LEMMA StartLinks ==
  ASSUME TypeInv, Links, NEW t \in Threads, NEW S, Starts(t, S),
         NEW x \in Xports, st' = st, up'[x] => up[x],
         t = x => \A s \in S : /\ s.do = "hello" => st[x] = "open" /\ st[There(x)] = "open"
                               /\ s.do = "flush" => st[x] = "lost" /\ (up[x] => Down(x) \in S),
         t = x[1] => (Closes(x) \in S => Down(x) \in S)
  PROVE  Linked(x)'
  <1>1. x \in Threads /\ x[1] \in Threads /\ x[1] # x
    BY Both, NamingAssumption DEF Threads
  <1>2. \A u \in Threads : /\ u # t => Jobs(u)' = Jobs(u)
                           /\ u = t => Jobs(u)' = S /\ Jobs(u) = {}
    BY StartsOnly
  <1>3. Linked(x)
    BY DEF Links
  <1>4. Greets(x)' => Greets(x) \/ (st[x] = "open" /\ st[There(x)] = "open")
    BY <1>1, <1>2 DEF Greets
  <1>5. ASSUME NEW s \in Jobs(x)', s.do = "flush" PROVE st[x] = "lost" /\ (up[x] => Down(x) \in Jobs(x)')
    <2>1. CASE x = t
      BY <1>1, <1>2, <1>5, <2>1
    <2>2. CASE x # t
      BY <1>1, <1>2, <1>3, <1>5, <2>2 DEF Linked
    <2> QED BY <2>1, <2>2
  <1>6. ASSUME Closing(x)', up[x] PROVE Down(x) \in Jobs(x[1])'
    <2>1. CASE x[1] = t
      BY <1>1, <1>2, <1>6, <2>1 DEF Closing
    <2>2. CASE x[1] # t
      BY <1>1, <1>2, <1>3, <1>6, <2>2 DEF Linked, Closing
    <2> QED BY <2>1, <2>2
  <1> QED
    BY <1>3, <1>4, <1>5, <1>6 DEF Linked

\* Applications keep links in order.
LEMMA ApplicationLinks ==
  ASSUME TypeInv, Links, NEW v \in Servers, RegServer(v) \/ DeregServer(v) \/ Close(v)
  PROVE  Links'
  <1> SUFFICES ASSUME NEW x \in Xports PROVE Linked(x)'
    BY DEF Links
  <1>1. HomeOf[v] \in Threads /\ HomeOf[v] # x
    BY NamingAssumption DEF Threads
  <1>2. \A what, of, xs : Do(what, of, xs).do = what
    BY DoFields
  <1>3. PICK S : Starts(HomeOf[v], S) /\ \A s \in S : s.do # "close"
    <2>1. CASE RegServer(v)
      <3>1. Starts(HomeOf[v], {Do("register", v, {})})
        BY <2>1, ApplicationStarts
      <3> QED BY <1>2, <3>1
    <2>2. CASE DeregServer(v)
      <3>1. Starts(HomeOf[v], {Do("tellServer", v, {})})
        BY <2>2, ApplicationStarts
      <3> QED BY <1>2, <3>1
    <2>3. CASE Close(v)
      <3>1. Starts(HomeOf[v], {Do("tellClient", v, {}), Do("removeClient", v, {})})
        BY <2>3, ApplicationStarts
      <3> QED BY <1>2, <3>1
    <2> QED BY <2>1, <2>2, <2>3
  <1>4. up' = up /\ st' = st
    BY ApplicationStarts
  <1>5. Closes(x) \notin S
    BY <1>3, DoFields DEF Closes
  <1> QED
    BY <1>1, <1>3, <1>4, <1>5, StartLinks

\* Transports that start, open, stop or are lost keep links in order.
LEMMA TransportLinks ==
  ASSUME NEW side, TypeInv, Sided(side), Links, NEW y \in Xports,
         StartXport(y) \/ StopXport(y) \/ Signalled(y)
  PROVE  Links'
  <1> SUFFICES ASSUME NEW x \in Xports PROVE Linked(x)'
    BY DEF Links
  <1>1. /\ There(x) \in Xports /\ There(There(x)) = x /\ There(There(y)) = y /\ There(y) \in Xports
        /\ x \in Threads /\ x[1] \in Threads /\ x[1] # x /\ x[1] # y /\ y[1] # x
        /\ y \in Threads /\ y[1] \in Threads
    BY Both, NamingAssumption DEF Threads
  <1>2. /\ up \in [Xports -> BOOLEAN]
        /\ st \in [Xports -> {"closed", "opening", "open", "lost", "paused"}]
    BY DEF TypeInv, TypeOK
  <1>3. Linked(x) /\ Linked(y)
    BY DEF Links
  <1>4. \A what, of, xs : Do(what, of, xs).do = what
    BY DoFields
  <1>5. ASSUME agenda' = agenda, agenda[y] = <<>>, st[y] \in {"closed", "opening", "paused"},
               NEW next, st' = [st EXCEPT ![y] = next], next # "lost",
               x # y => up'[x] = up[x],
               x = y => (up'[x] => up[x])
        PROVE  Linked(x)'
    <2>1. ~up[y] /\ Jobs(y) = {}
      BY <1>3, <1>5, Elements DEF Linked, Jobs
    <2>2. \A u : Jobs(u)' = Jobs(u)
      BY <1>5 DEF Jobs
    <2>3. CASE x = y
      <3>1. ~up'[x] /\ ~Greets(x)' /\ Jobs(x)' = {}
        BY <1>5, <2>1, <2>2, <2>3 DEF Greets
      <3> QED BY <3>1 DEF Linked
    <2>4. CASE x # y
      <3>1. /\ st'[x] = st[x] /\ up'[x] = up[x]
            /\ (Greets(x)' <=> Greets(x)) /\ (Closing(x)' <=> Closing(x))
        BY <1>1, <1>2, <1>5, <2>2, <2>4 DEF Greets, Closing
      <3>2. st'[There(x)] = st[There(x)] \/ st[There(x)] # "open"
        BY <1>1, <1>2, <1>5
      <3> QED BY <1>3, <2>2, <3>1, <3>2 DEF Linked
    <2> QED BY <2>3, <2>4
  <1>6. CASE StartXport(y)
    BY <1>2, <1>5, <1>6, TransportStarts DEF StartXport
  <1>7. CASE Open(y)
    BY <1>2, <1>5, <1>7, TransportStarts DEF Open, Ready
  <1>8. CASE StopXport(y)
    <2>1. PICK S : S = {Down(y), Closes(y)}
      OBVIOUS
    <2>2. Starts(y[1], S) /\ st' = st
      BY <1>8, <2>1, TransportStarts DEF Down, StopXport
    <2>3. up'[x] => up[x]
      BY <1>2, <1>8 DEF StopXport
    <2>4. Closes(x) \in S => Down(x) \in S
      <3>1. Closes(x) \in S => Closes(x) = Closes(y)
        BY <1>4, <2>1 DEF Closes, Down
      <3>2. Closes(x) = Closes(y) => x = y
        <4>1. Closes(x).xs = {x} /\ Closes(y).xs = {y}
          BY DoFields DEF Closes
        <4> QED BY <4>1
      <3> QED BY <2>1, <3>1, <3>2
    <2> QED BY <1>1, <2>2, <2>3, <2>4, StartLinks
  <1>9. CASE RemoteClose(y)
    <2>1. PICK S : S = {Do("flush", None, {y})} \cup (IF up[y] THEN {Do("down", None, {y})} ELSE {})
      OBVIOUS
    <2>2. Starts(y, S) /\ st' = st /\ up' = up /\ st[y] = "lost"
      BY <1>9, <2>1, TransportStarts DEF RemoteClose, links
    <2>3. /\ \A s \in S : s.do # "hello"
          /\ up[y] => Down(y) \in S
      BY <1>4, <2>1 DEF Down
    <2> QED BY <1>1, <2>2, <2>3, StartLinks
  <1>10. CASE Receive(y)
    <2>1. PICK m : m = Head(net[There(y)])
      OBVIOUS
    <2>2. Takes(y, m) /\ st[y] = "open" /\ st[There(y)] = "open"
      BY <1>10, <2>1, ReceiveTakes
    <2>3. PICK S : Starts(y, S) /\ \A s \in S : s.do # "flush"
      BY <1>4, <2>2 DEF Takes
    <2>4. st' = st /\ up' = up
      BY <1>10 DEF Receive
    <2> QED BY <1>1, <2>2, <2>3, <2>4, StartLinks
  <1> QED
    BY <1>6, <1>7, <1>8, <1>9, <1>10 DEF Signalled

\* Routers that restart keep links in order.
LEMMA RestartLinks ==
  ASSUME TypeInv, Links, NEW n \in Routers, Restart(n)
  PROVE  Links'
  <1> SUFFICES ASSUME NEW x \in Xports PROVE Linked(x)'
    BY DEF Links
  <1>1. /\ There(x) \in Xports /\ There(x)[1] = x[2] /\ There(x)[2] = x[1]
        /\ x \in Threads /\ x[1] \in Threads /\ RouterOf(x) = x[1] /\ RouterOf(x[1]) = x[1]
    BY Both DEF Threads, RouterOf
  <1>2. CASE x[1] = n
    BY <1>1, <1>2, RestartClears DEF Linked, Greets, Closing
  <1>3. CASE x[1] # n
    <2>1. Jobs(x)' = Jobs(x) /\ Jobs(x[1])' = Jobs(x[1])
      BY <1>1, <1>3, RestartClears DEF Jobs
    <2>2. up'[x] = up[x] /\ st'[x] = IF x[2] = n /\ st[x] = "open" THEN "lost" ELSE st[x]
      BY <1>3, RestartClears
    <2>3. x[2] # n => st'[There(x)] = st[There(x)]
      BY <1>1, <1>3, RestartClears
    <2>4. Linked(x)
      BY DEF Links
    <2> QED BY <2>1, <2>2, <2>3, <2>4 DEF Linked, Greets, Closing
  <1> QED
    BY <1>2, <1>3

\* Transports that are up stay linked.
LEMMA LinksKept ==
  ASSUME NEW side, TypeInv, Ordered, Sided(side), Links, [Next]_vars
  PROVE  Links'
  <1>1. CASE UNCHANGED vars
    BY <1>1 DEF vars, links, threads, Links, Linked, Greets, Closing, Jobs
  <1>2. CASE Next
    BY <1>2, WorkLinks, ApplicationLinks, TransportLinks, RestartLinks DEF Next
  <1> QED
    BY <1>1, <1>2

-----------------------------------------------------------------------------
(***************************************************************************)
(* Servers that stay                                                       *)
(***************************************************************************)

\* The thread that works for a transport
Owns(side, z, t) == t = z \/ (t = z[1] /\ Falls(side, z))

\* A transport has one thread that works for it: its worker, or the one that stops it.
LEMMA OneOwner ==
  ASSUME NEW side, NEW z \in Xports, NEW t, NEW u, Owns(side, z, t), Owns(side, z, u),
         Jobs(t) # {}, Jobs(u) # {}
  PROVE  t = u
  <1>1. Falls(side, z) => Jobs(z) = {}
    BY Elements DEF Falls, Jobs
  <1> QED
    BY <1>1 DEF Owns

\* Every job is an application's, or belongs to a transport.
LEMMA JobOf ==
  ASSUME NEW side, TypeInv, Sided(side), NEW t \in Threads, NEW s \in Jobs(t)
  PROVE  \/ t \in Routers /\ RouterOf(t) = t /\ OfApp(t, s)
         \/ \E z \in Xports : /\ z[1] = RouterOf(t) /\ Owns(side, z, t)
                              /\ s = Closes(z) \/ FromIt(side, z, s)
  <1>1. CASE t \in Xports /\ RouterOf(t) = t[1] /\ OfWorker(side, t, s)
    BY <1>1 DEF OfWorker, Owns
  <1> QED
    BY <1>1, WorksFor DEF Owns, OfFall

\* A step about a server, or about all servers known over a transport that leads to it
About(side, v, s) ==
  \/ s.do \in News /\ s.of = v
  \/ s.do \in {"down", "downClients"} /\ \E z \in s.xs \cap Xports : v \in Beyond(side, z)

\* At a router, one thread has to do with a server.
LEMMA AboutOne ==
  ASSUME NEW side, Ways(side), TypeInv, Sided(side), NEW v \in Servers,
         NEW t \in Threads, NEW u \in Threads, RouterOf(t) = RouterOf(u),
         NEW s \in Jobs(t), NEW r \in Jobs(u), About(side, v, s), About(side, v, r)
  PROVE  t = u
  <1> DEFINE n == RouterOf(t)
  <1>1. ASSUME NEW q, About(side, v, q), NEW m, OfApp(m, q) PROVE HomeOf[v] = m
    BY <1>1 DEF About, OfApp, News, Writes
  <1>2. ASSUME NEW q, About(side, v, q), NEW z \in Xports, q = Closes(z) \/ FromIt(side, z, q)
        PROVE  v \in Beyond(side, z)
    <2>1. q # Closes(z)
      BY <1>2, DoFields DEF About, Closes, News, Writes
    <2>2. CASE q.do \in News /\ q.of = v
      BY <1>2, <2>1, <2>2 DEF FromIt
    <2>3. CASE q.do \in {"down", "downClients"} /\ \E y \in q.xs \cap Xports : v \in Beyond(side, y)
      <3>1. q.xs = {z}
        BY <1>2, <2>1, <2>3 DEF FromIt, Sourced
      <3> QED BY <2>3, <3>1
    <2> QED BY <1>2, <2>2, <2>3 DEF About
  <1>3. \/ t \in Routers /\ RouterOf(t) = t /\ HomeOf[v] = t
        \/ \E z \in Xports : z[1] = n /\ Owns(side, z, t) /\ v \in Beyond(side, z)
    BY <1>1, <1>2, JobOf
  <1>4. \/ u \in Routers /\ RouterOf(u) = u /\ HomeOf[v] = u
        \/ \E z \in Xports : z[1] = n /\ Owns(side, z, u) /\ v \in Beyond(side, z)
    BY <1>1, <1>2, JobOf
  <1>5. \A z \in Xports : v \in Beyond(side, z) => HomeOf[v] # z[1]
    BY OneWay
  <1>6. \A z, y \in Xports : v \in Beyond(side, z) /\ v \in Beyond(side, y) /\ z[1] = y[1] => z = y
    BY OneWay
  <1> QED
    BY <1>3, <1>4, <1>5, <1>6, OneOwner

\* A step after which the server is not known any more
Dooms(n, v, s) ==
  \/ s.do \in {"dropServer", "removeClient", "downServer"} /\ s.of = v
  \/ s.do = "down" /\ server[n][v] \in s.xs

Doomed(n, v) == \E t \in Threads : RouterOf(t) = n /\ \E s \in Jobs(t) : Dooms(n, v, s)

\* It is known and no thread is about to remove it.
Stable(n, v) == server[n][v] # None /\ ~Doomed(n, v)

\* Steps that come from the withdrawal of a server
Gone == News \ {"register", "NEW_SERVER"}

Dropping(n, v) == \E t \in Threads : RouterOf(t) = n
                    /\ \E s \in Jobs(t) : s.do = "dropServer" /\ s.of = v

\* What is told of the withdrawal of a server is told of one that does not stay, endpoints go after
\* their servers, and one whose endpoint is gone goes too.
Table(n, v) ==
  /\ \A t \in Threads : RouterOf(t) = n => \A s \in Jobs(t) :
       /\ s.do \in Gone /\ s.of = v => ~Stable(n, v)
       /\ s.do \in {"dropClient", "downClient"} /\ s.of = v => server[n][v] = None
       /\ s.do = "downClients" /\ server[n][v] \in s.xs =>
            \E r \in Jobs(t) : r.do \in {"downServer", "dropServer"} /\ r.of = v
  /\ server[n][v] # None => client[n][v] # None \/ Dropping(n, v)

Tables == \A n \in Routers, v \in Servers : Table(n, v)

\* The steps of threads remove only servers that were doomed, ...
LEMMA StableLasts ==
  ASSUME TypeInv, NEW t \in Threads, Work(t), NEW n \in Routers, NEW v \in Servers, Stable(n, v)
  PROVE  Stable(n, v)' /\ server'[n][v] = server[n][v]
  <1>1. Now(t) \in Jobs(t) /\ Jobs(t) = {Now(t)} \cup After(t)
    BY WorkNow
  <1>2. \A u \in Threads : RouterOf(u) = n => \A s \in Jobs(u) : ~Dooms(n, v, s)
    BY DEF Stable, Doomed
  <1>3. server'[n][v] = server[n][v] /\ server[n][v] # None
    <2>1. ~(n = RouterOf(t) /\ v = Now(t).of /\ Now(t).do = "dropServer")
      BY <1>1, <1>2 DEF Dooms
    <2> QED BY <2>1, WorkServer DEF Stable
  <1>4. ASSUME NEW u \in Threads, RouterOf(u) = n, NEW s \in Jobs(u)', Dooms(n, v, s)' PROVE FALSE
    <2>1. Dooms(n, v, s)
      BY <1>3, <1>4 DEF Dooms
    <2>2. s \notin Jobs(u)
      BY <1>2, <1>4, <2>1
    <2>3. u = t
      BY <1>4, <2>2, WorkOthers DEF Others, Jobs
    <2>4. Made(t, s)
      BY <1>1, <1>4, <2>2, <2>3, WorkMakes
    <2>5. CASE s.do = "dropServer"
      <3>1. Now(t).do \in {"downServer", "removeClient"} /\ s.of = Now(t).of
        BY <2>4, <2>5, DoFields DEF Made
      <3>2. s.of = v
        BY <2>1, <2>5 DEF Dooms
      <3> QED BY <1>1, <1>2, <1>4, <2>3, <3>1, <3>2 DEF Dooms
    <2>6. CASE s.do = "downServer"
      <3>1. Now(t).do = "down" /\ server[n][s.of] \in Now(t).xs
        BY <1>4, <2>3, <2>4, <2>6, DoFields DEF Made
      <3>2. s.of = v
        BY <2>1, <2>6 DEF Dooms
      <3> QED BY <1>1, <1>2, <1>4, <2>3, <3>1, <3>2 DEF Dooms
    <2> QED BY <2>1, <2>4, <2>5, <2>6, NeverMade DEF Dooms
  <1> QED
    BY <1>3, <1>4 DEF Stable, Doomed

\* A server registered where it was not known
Registers(t, n, v) ==
  n = RouterOf(t) /\ v = Now(t).of /\ Now(t).do = "register" /\ server[n][v] = None

\* ... and only one that is registered comes to stay.
LEMMA StableBefore ==
  ASSUME TypeInv, Tables, NEW t \in Threads, Work(t), NEW n \in Routers, NEW v \in Servers,
         Stable(n, v)'
  PROVE  Stable(n, v) \/ Registers(t, n, v)
  <1> SUFFICES ASSUME ~Registers(t, n, v) PROVE Stable(n, v)
    OBVIOUS
  <1>1. \A u \in Threads : RouterOf(u) = n => \A s \in Jobs(u)' : ~Dooms(n, v, s)'
    BY DEF Stable, Doomed
  <1>2. /\ server'[n][v] = server[n][v] /\ server[n][v] # None
        /\ ~(n = RouterOf(t) /\ v = Now(t).of /\ Now(t).do = "dropServer")
    BY WorkServer DEF Stable, Registers
  <1>3. ASSUME NEW u \in Threads, RouterOf(u) = n, NEW s \in Jobs(u), Dooms(n, v, s) PROVE FALSE
    <2>1. Dooms(n, v, s)'
      BY <1>2, <1>3 DEF Dooms
    <2>2. s \notin Jobs(u)'
      BY <1>1, <1>3, <2>1
    <2>3. u = t /\ s = Now(t)
      BY <1>3, <2>2, WorkKeeps
    <2>4. Do("dropServer", v, {}) \notin Jobs(t)'
      BY <1>1, <1>3, <2>3, DoFields DEF Dooms
    <2>5. CASE s.do = "dropServer" /\ s.of = v
      BY <1>2, <1>3, <2>3, <2>5
    <2>6. CASE s.do = "downServer" /\ s.of = v
      BY <2>3, <2>4, <2>6, WorkRemoves
    <2>7. CASE s.do = "removeClient" /\ s.of = v
      <3>1. client[n][v] = None
        BY <1>3, <2>3, <2>4, <2>7, WorkRemoves
      <3>2. Dropping(n, v)
        BY <1>2, <3>1 DEF Tables, Table
      <3>3. PICK u2 \in Threads : RouterOf(u2) = n /\ \E r \in Jobs(u2) : r.do = "dropServer" /\ r.of = v
        BY <3>2 DEF Dropping
      <3>4. PICK r \in Jobs(u2) : r.do = "dropServer" /\ r.of = v
        BY <3>3
      <3>5. r # Now(t)
        BY <2>3, <2>7, <3>4
      <3>6. r \in Jobs(u2)'
        BY <3>4, <3>5, WorkKeeps
      <3> QED BY <1>1, <3>3, <3>4, <3>6 DEF Dooms
    <2>8. CASE s.do = "down" /\ server[n][v] \in s.xs
      <3>1. Do("downServer", v, s.xs) \in Jobs(t)'
        BY <1>3, <2>3, <2>8, WorkRemoves
      <3> QED BY <1>1, <1>3, <2>3, <3>1, DoFields DEF Dooms
    <2> QED BY <1>3, <2>5, <2>6, <2>7, <2>8 DEF Dooms
  <1> QED
    BY <1>2, <1>3 DEF Stable, Doomed

\* Where a thread takes a server from
LEMMA SourceSide ==
  ASSUME NEW side, TypeInv, Sided(side), NEW t \in Threads, NEW s \in Jobs(t), NEW z \in s.xs,
         s.do \in Sourced
  PROVE  z \in Xports /\ z[1] = RouterOf(t) /\ s.xs = {z} /\ FromIt(side, z, s)
  <1>1. \A x : Closes(x).do \notin Sourced
    BY DoFields DEF Closes, Sourced
  <1> QED
    BY <1>1, JobOf DEF OfApp, FromIt

\* The endpoints of a transport that fell have no servers any more, or none that stay.
LEMMA FallenServer ==
  ASSUME NEW side, Ways(side), TypeInv, Away(side), Sided(side), Tables,
         NEW t \in Threads, NEW s \in Jobs(t), s.do = "downClients",
         NEW v \in Servers, client[RouterOf(t)][v] \in s.xs, RouterOf(t) \in Routers,
         server[RouterOf(t)][v] # None
  PROVE  \E r \in Jobs(t) : r.do \in {"downServer", "dropServer"} /\ r.of = v
  <1> DEFINE n == RouterOf(t)
             z == client[n][v]
  <1>1. z \in Xports /\ z[1] = n /\ s.xs = {z}
    BY SourceSide DEF Sourced
  <1>2. v \in Beyond(side, z)
    BY <1>1, WhereKnown DEF Away
  <1>3. server[n][v] = z
    BY <1>1, <1>2, WhereKnown DEF Away
  <1> QED
    BY <1>1, <1>3 DEF Tables, Table

\* Threads keep this in order.
LEMMA WorkTable ==
  ASSUME NEW side, Ways(side), TypeInv, Away(side), Ordered, Sided(side), Tables,
         NEW t \in Threads, Work(t), NEW n \in Routers, NEW v \in Servers
  PROVE  Table(n, v)'
  <1>1. /\ Now(t) \in Jobs(t) /\ Jobs(t) = {Now(t)} \cup After(t) /\ agenda[t] # <<>>
        /\ Now(t).do \in {"register", "hello"} => After(t) = {}
        /\ RouterOf(t) \in Routers
        /\ Now(t).do = "downClients" => \A s \in After(t) : s.do \in Final
    BY WorkNow, OrderedNow
  <1>2. ASSUME NEW u \in Threads, NEW s \in Jobs(u)', s \notin Jobs(u)
        PROVE  u = t /\ Made(t, s)
    <2>1. u = t
      BY <1>2, WorkOthers DEF Others, Jobs
    <2> QED BY <1>1, <1>2, <2>1, WorkMakes
  <1>3. ASSUME NEW u \in Threads, RouterOf(u) = n, NEW s \in Jobs(u), About(side, v, s),
               Registers(t, n, v)
        PROVE  u = t /\ s = Now(t)
    <2>1. About(side, v, Now(t))
      BY <1>3 DEF Registers, About, News
    <2>2. u = t
      BY <1>1, <1>3, <2>1, AboutOne DEF Registers
    <2> QED BY <1>1, <1>3, <2>2 DEF Registers
  <1>4. server'[n][v] = server[n][v] \/ server'[n][v] = None \/ Registers(t, n, v)
    BY WorkServer DEF Registers
  <1>5. ASSUME NEW u \in Threads, RouterOf(u) = n, NEW s \in Jobs(u)', s.do \in Gone, s.of = v,
               Stable(n, v)'
        PROVE  FALSE
    <2>1. Stable(n, v) \/ Registers(t, n, v)
      BY <1>5, StableBefore
    <2>2. CASE s \in Jobs(u)
      <3>1. Registers(t, n, v)
        BY <1>5, <2>1, <2>2 DEF Tables, Table
      <3>2. s = Now(t)
        BY <1>3, <1>5, <2>2, <3>1 DEF About, Gone
      <3> QED BY <1>5, <3>1, <3>2 DEF Registers, Gone
    <2>3. CASE s \notin Jobs(u)
      <3>1. u = t /\ Made(t, s)
        BY <1>2, <1>5, <2>3
      <3>2. Now(t).do # "register"
        BY <1>5, <3>1, DoFields DEF Made, Gone, News, Writes
      <3>3. Stable(n, v)
        BY <2>1, <3>2 DEF Registers
      <3>4. ~(Now(t).do \in Gone /\ Now(t).of = v)
        BY <1>1, <1>5, <3>1, <3>3 DEF Tables, Table
      <3>5. CASE Now(t).do = "down"
        <4>1. server[n][v] \in Now(t).xs
          BY <1>5, <3>1, <3>5, DoFields DEF Made, Gone, News, Writes
        <4> QED BY <1>1, <1>5, <3>1, <3>3, <3>5, <4>1 DEF Stable, Doomed, Dooms
      <3>6. CASE Now(t).do = "downClients"
        <4>1. client[n][v] \in Now(t).xs
          BY <1>5, <3>1, <3>6, DoFields DEF Made
        <4>2. server[n][v] # None
          BY <3>3 DEF Stable
        <4>3. \E r \in Jobs(t) : r.do \in {"downServer", "dropServer"} /\ r.of = v
          BY <1>1, <1>5, <3>1, <3>6, <4>1, <4>2, FallenServer
        <4> QED BY <1>5, <3>1, <3>3, <4>3 DEF Stable, Doomed, Dooms
      <3>7. Now(t).do \in Gone \cup {"down", "downClients", "hello"}
        BY <3>1, <3>2 DEF Made, Gone, News, Writes
      <3>8. CASE Now(t).do \in Gone \cup {"hello"}
        BY <1>5, <3>1, <3>4, <3>8, DoFields DEF Made, Gone, News, Writes
      <3> QED BY <3>5, <3>6, <3>7, <3>8
    <2> QED BY <2>2, <2>3
  <1>6. ASSUME NEW u \in Threads, RouterOf(u) = n, NEW s \in Jobs(u)',
               s.do \in {"dropClient", "downClient"}, s.of = v
        PROVE  server'[n][v] = None
    <2>1. CASE s \in Jobs(u)
      <3>1. server[n][v] = None
        BY <1>6, <2>1 DEF Tables, Table
      <3>2. ~Registers(t, n, v)
        <4>1. About(side, v, s) /\ s.do # "register"
          BY <1>6 DEF About, News
        <4> QED BY <1>3, <1>6, <2>1, <4>1 DEF Registers
      <3> QED BY <1>4, <3>1, <3>2
    <2>2. CASE s \notin Jobs(u)
      <3>1. u = t /\ Made(t, s)
        BY <1>2, <1>6, <2>2
      <3>2. Now(t).do \in {"downClient", "downClients"}
        BY <1>6, <3>1, DoFields DEF Made
      <3>3. server[n][v] = None
        <4>1. CASE Now(t).do = "downClient"
          <5>1. Now(t).of = v
            BY <1>6, <3>1, <4>1, DoFields DEF Made
          <5> QED BY <1>1, <1>6, <3>1, <4>1, <5>1 DEF Tables, Table
        <4>2. CASE Now(t).do = "downClients"
          <5>1. client[n][v] \in Now(t).xs
            BY <1>6, <3>1, <4>2, DoFields DEF Made
          <5>2. \A r \in Jobs(t) : r.do \notin {"downServer", "dropServer"}
            BY <1>1, <4>2 DEF Final
          <5> QED BY <1>1, <1>6, <3>1, <4>2, <5>1, <5>2, FallenServer
        <4> QED BY <3>2, <4>1, <4>2
      <3> QED BY <1>4, <3>2, <3>3 DEF Registers
    <2> QED BY <2>1, <2>2
  <1>7. ASSUME NEW u \in Threads, RouterOf(u) = n, NEW s \in Jobs(u)', s.do = "downClients",
               server'[n][v] \in s.xs
        PROVE  \E r \in Jobs(u)' : r.do \in {"downServer", "dropServer"} /\ r.of = v
    <2>1. CASE s \in Jobs(u)
      <3>1. server'[n][v] \in Xports /\ s.xs = {server'[n][v]}
        BY <1>7, <2>1, SourceSide DEF Sourced
      <3>2. server'[n][v] # None
        BY <1>1, <3>1, WhereKnown, NamingAssumption
      <3>3. ~Registers(t, n, v)
        <4> SUFFICES ASSUME Registers(t, n, v) PROVE FALSE
          OBVIOUS
        <4>1. server'[n][v] = Source(t)
          BY WorkServer DEF Registers
        <4>2. Source(t) \in Now(t).xs
          BY <3>1, <4>1, SourceKnown, NamingAssumption
        <4>3. FromIt(side, Source(t), Now(t))
          BY <1>1, <4>2, SourceSide DEF Registers, Sourced
        <4>4. v \in Beyond(side, Source(t))
          BY <4>3 DEF FromIt, News, Registers
        <4>5. About(side, v, s)
          BY <1>7, <3>1, <4>1, <4>4 DEF About
        <4>6. s = Now(t)
          BY <1>3, <1>7, <2>1, <4>5
        <4> QED BY <1>7, <4>6 DEF Registers
      <3>4. server'[n][v] = server[n][v]
        BY <1>4, <3>2, <3>3
      <3>5. PICK r \in Jobs(u) : r.do \in {"downServer", "dropServer"} /\ r.of = v
        BY <1>7, <2>1, <3>4 DEF Tables, Table
      <3>6. CASE r \in Jobs(u)'
        BY <3>5, <3>6
      <3>7. CASE r \notin Jobs(u)'
        <4>1. u = t /\ r = Now(t)
          BY <3>5, <3>7, WorkKeeps
        <4>2. Now(t).do # "dropServer"
          BY <1>7, <3>2, <3>5, <4>1, WorkServer
        <4>3. Do("dropServer", v, {}) \in Jobs(t)'
          BY <3>5, <4>1, <4>2, WorkRemoves
        <4> QED BY <4>1, <4>3, DoFields
      <3> QED BY <3>6, <3>7
    <2>2. CASE s \notin Jobs(u)
      <3>1. u = t /\ Made(t, s)
        BY <1>2, <1>7, <2>2
      <3>2. Now(t).do = "down" /\ s.xs = Now(t).xs
        BY <1>7, <3>1, DoFields DEF Made
      <3>3. server'[n][v] = server[n][v]
        BY <3>2, WorkServer
      <3>4. Do("downServer", v, Now(t).xs) \in Jobs(t)'
        BY <1>7, <3>1, <3>2, <3>3, WorkRemoves
      <3> QED BY <3>1, <3>4, DoFields
    <2> QED BY <2>1, <2>2
  <1>8. ASSUME server'[n][v] # None, client'[n][v] = None PROVE Dropping(n, v)'
    <2> SUFFICES \E u \in Threads : /\ RouterOf(u) = n
                                    /\ \E s \in Jobs(u)' : s.do = "dropServer" /\ s.of = v
      BY DEF Dropping
    <2>1. ~(n = RouterOf(t) /\ v = Now(t).of /\ Now(t).do = "dropServer")
      BY <1>8, WorkServer
    <2>2. ~(n = RouterOf(t) /\ v = Now(t).of /\ Now(t).do = "register")
      BY <1>8, WorkClient, SourceKnown
    <2>3. server[n][v] # None
      BY <1>4, <1>8, <2>2 DEF Registers
    <2>4. CASE client[n][v] = None
      <3>1. Dropping(n, v)
        BY <2>3, <2>4 DEF Tables, Table
      <3>2. PICK u \in Threads : RouterOf(u) = n /\ \E s \in Jobs(u) : s.do = "dropServer" /\ s.of = v
        BY <3>1 DEF Dropping
      <3>3. PICK s \in Jobs(u) : s.do = "dropServer" /\ s.of = v
        BY <3>2
      <3>4. s \in Jobs(u)'
        BY <2>1, <3>2, <3>3, WorkKeeps
      <3> QED BY <3>2, <3>3, <3>4
    <2>5. CASE client[n][v] # None
      <3>1. n = RouterOf(t) /\ v = Now(t).of /\ Now(t).do \in {"dropClient", "removeClient"}
        BY <1>8, <2>2, <2>5, WorkClient
      <3>2. Now(t).do # "dropClient"
        BY <1>1, <2>3, <3>1 DEF Tables, Table
      <3>3. Do("dropServer", v, {}) \in Jobs(t)'
        BY <2>5, <3>1, <3>2, WorkRemoves
      <3> QED BY <3>1, <3>3, DoFields
    <2> QED BY <2>4, <2>5
  <1> QED
    BY <1>5, <1>6, <1>7, <1>8 DEF Table

\* Beginnings do, too.
LEMMA StartTable ==
  ASSUME NEW side, TypeInv, Sided(side), Tables, NEW t \in Threads, NEW S, Starts(t, S),
         NEW n \in Routers, NEW v \in Servers,
         client'[n][v] = client[n][v], server'[n][v] \in {server[n][v], None},
         \A s \in S : s.do \notin {"dropClient", "downClient", "downClients"},
         \A s \in S : RouterOf(t) = n /\ s.do \in Gone /\ s.of = v =>
           server'[n][v] = None \/ \E r \in S : r.do \in {"dropServer", "removeClient"} /\ r.of = v
  PROVE  Table(n, v)'
  <1>1. \A u \in Threads : (u = t /\ Jobs(u)' = S /\ Jobs(u) = {}) \/ (u # t /\ Jobs(u)' = Jobs(u))
    BY StartsOnly
  <1>2. ASSUME server'[n][v] # None, NEW u \in Threads, RouterOf(u) = n, NEW s \in Jobs(u),
               Dooms(n, v, s)
        PROVE  ~Stable(n, v)'
    <2>1. s \in Jobs(u)' /\ server'[n][v] = server[n][v]
      BY <1>1, <1>2
    <2>2. Dooms(n, v, s)'
      BY <1>2, <2>1 DEF Dooms
    <2> QED BY <1>2, <2>1, <2>2 DEF Stable, Doomed
  <1>3. ASSUME Stable(n, v)' PROVE Stable(n, v) /\ server'[n][v] # None
    <2>1. server'[n][v] # None /\ server[n][v] # None
      BY <1>3 DEF Stable
    <2> QED BY <1>2, <1>3, <2>1 DEF Stable, Doomed
  <1>4. ASSUME NEW u \in Threads, RouterOf(u) = n, NEW s \in Jobs(u)', s.do \in Gone, s.of = v,
               Stable(n, v)'
        PROVE  FALSE
    <2>1. u = t /\ s \in S /\ Jobs(t)' = S
      BY <1>1, <1>3, <1>4 DEF Tables, Table
    <2>2. PICK r \in S : r.do \in {"dropServer", "removeClient"} /\ r.of = v
      BY <1>3, <1>4, <2>1
    <2>3. Dooms(n, v, r)'
      BY <2>2 DEF Dooms
    <2> QED BY <1>4, <2>1, <2>2, <2>3 DEF Stable, Doomed
  <1>5. ASSUME NEW u \in Threads, RouterOf(u) = n, NEW s \in Jobs(u)',
               s.do \in {"dropClient", "downClient"}, s.of = v
        PROVE  server'[n][v] = None
    <2>1. s \in Jobs(u)
      BY <1>1, <1>5
    <2>2. server[n][v] = None
      BY <1>5, <2>1 DEF Tables, Table
    <2> QED BY <2>2
  <1>6. ASSUME NEW u \in Threads, RouterOf(u) = n, NEW s \in Jobs(u)', s.do = "downClients",
               server'[n][v] \in s.xs
        PROVE  \E r \in Jobs(u)' : r.do \in {"downServer", "dropServer"} /\ r.of = v
    <2>1. s \in Jobs(u) /\ Jobs(u)' = Jobs(u)
      BY <1>1, <1>6
    <2>2. server'[n][v] \in Xports
      BY <1>6, <2>1, SourceSide DEF Sourced
    <2>3. None \notin Xports
      BY Both, NamingAssumption
    <2>4. server'[n][v] = server[n][v]
      BY <2>2, <2>3
    <2> QED BY <1>6, <2>1, <2>4 DEF Tables, Table
  <1>7. ASSUME server'[n][v] # None, client'[n][v] = None PROVE Dropping(n, v)'
    <2>1. Dropping(n, v)
      BY <1>7 DEF Tables, Table
    <2>2. PICK u \in Threads : RouterOf(u) = n /\ \E s \in Jobs(u) : s.do = "dropServer" /\ s.of = v
      BY <2>1 DEF Dropping
    <2>3. Jobs(u)' = Jobs(u)
      BY <1>1, <2>2
    <2> QED BY <2>2, <2>3 DEF Dropping
  <1> QED
    BY <1>4, <1>5, <1>6, <1>7 DEF Table

\* Applications keep the tables in order.
LEMMA ApplicationTable ==
  ASSUME NEW side, TypeInv, Sided(side), Tables, NEW w \in Servers,
         RegServer(w) \/ DeregServer(w) \/ Close(w), NEW n \in Routers, NEW v \in Servers
  PROVE  Table(n, v)'
  <1>1. HomeOf[w] \in Routers /\ HomeOf[w] \in Threads /\ RouterOf(HomeOf[w]) = HomeOf[w]
    BY NamingAssumption DEF Threads, RouterOf
  <1>2. \A what, of, xs : Do(what, of, xs).do = what /\ Do(what, of, xs).of = of
    BY DoFields
  <1>3. CASE RegServer(w)
    <2>1. PICK S : S = {Do("register", w, {})}
      OBVIOUS
    <2>2. Starts(HomeOf[w], S)
      BY <1>3, <2>1, ApplicationStarts
    <2>3. server' = server /\ client' = client
      BY <1>3 DEF RegServer, tables
    <2>4. \A s \in S : s.do = "register"
      BY <1>2, <2>1
    <2> QED BY <1>1, <2>2, <2>3, <2>4, StartTable DEF Gone
  <1>4. CASE DeregServer(w)
    <2>1. PICK S : S = {Do("tellServer", w, {})}
      OBVIOUS
    <2>2. Starts(HomeOf[w], S)
      BY <1>4, <2>1, ApplicationStarts
    <2>3. server' = [server EXCEPT ![HomeOf[w]][w] = None] /\ client' = client
      BY <1>4 DEF DeregServer
    <2>4. /\ server'[n][v] \in {server[n][v], None}
          /\ n = HomeOf[w] /\ v = w => server'[n][v] = None
      BY <1>1, <2>3 DEF TypeInv, TypeOK
    <2>5. \A s \in S : s.do = "tellServer" /\ s.of = w
      BY <1>2, <2>1
    <2> QED BY <1>1, <2>2, <2>3, <2>4, <2>5, StartTable
  <1>5. CASE Close(w)
    <2>1. PICK S : S = {Do("tellClient", w, {}), Do("removeClient", w, {})}
      OBVIOUS
    <2>2. Starts(HomeOf[w], S)
      BY <1>5, <2>1, ApplicationStarts
    <2>3. server' = server /\ client' = client
      BY <1>5 DEF Close, tables
    <2>4. /\ \A s \in S : s.do \in {"tellClient", "removeClient"} /\ s.of = w
          /\ \E r \in S : r.do \in {"dropServer", "removeClient"} /\ r.of = w
      BY <1>2, <2>1
    <2> QED BY <1>1, <2>2, <2>3, <2>4, StartTable
  <1> QED
    BY <1>3, <1>4, <1>5

\* What is neither changed in the tables nor on the agendas
LEMMA SameTable ==
  ASSUME Tables, NEW n \in Routers, NEW v \in Servers,
         \A u \in Threads : RouterOf(u) = n => Jobs(u)' = Jobs(u),
         server'[n][v] = server[n][v], client'[n][v] = client[n][v]
  PROVE  Table(n, v)'
  <1>1. /\ Doomed(n, v)' <=> Doomed(n, v)
        /\ Dropping(n, v)' <=> Dropping(n, v)
    BY DEF Doomed, Dooms, Dropping
  <1>2. Stable(n, v)' <=> Stable(n, v)
    BY <1>1 DEF Stable
  <1>3. Table(n, v)
    BY DEF Tables
  <1> QED
    BY <1>1, <1>2, <1>3 DEF Table

\* Transports keep the tables in order.
LEMMA TransportTable ==
  ASSUME NEW side, TypeInv, Sided(side), Tables, NEW x \in Xports,
         StartXport(x) \/ StopXport(x) \/ Signalled(x), NEW n \in Routers, NEW v \in Servers
  PROVE  Table(n, v)'
  <1>1. x \in Threads /\ x[1] \in Threads
    BY Both DEF Threads
  <1>2. \A what, of, xs : Do(what, of, xs).do = what /\ Do(what, of, xs).of = of
    BY DoFields
  <1>3. server' = server /\ client' = client
    BY DEF StartXport, StopXport, Signalled, Open, RemoteClose, Receive, tables
  <1>4. ASSUME NEW t \in Threads, NEW S, Starts(t, S),
               \A s \in S : s.do \in {"hello", "down", "close", "flush", "register"}
        PROVE  Table(n, v)'
    BY <1>3, <1>4, StartTable DEF Gone, News, Writes
  <1>5. CASE StartXport(x) \/ Open(x)
    <2>1. \A u \in Threads : Jobs(u)' = Jobs(u)
      BY <1>5, TransportStarts DEF Jobs
    <2> QED BY <1>3, <2>1, SameTable
  <1>6. CASE StopXport(x)
    <2>1. PICK S : S = {Do("down", None, {x}), Closes(x)}
      OBVIOUS
    <2>2. Starts(x[1], S)
      BY <1>6, <2>1, TransportStarts
    <2>3. \A s \in S : s.do \in {"down", "close"}
      BY <1>2, <2>1 DEF Closes
    <2> QED BY <1>1, <1>4, <2>2, <2>3
  <1>7. CASE RemoteClose(x)
    <2>1. PICK S : S = {Do("flush", None, {x})} \cup (IF up[x] THEN {Do("down", None, {x})} ELSE {})
      OBVIOUS
    <2>2. Starts(x, S)
      BY <1>7, <2>1, TransportStarts
    <2>3. \A s \in S : s.do \in {"down", "flush"}
      BY <1>2, <2>1
    <2> QED BY <1>1, <1>4, <2>2, <2>3
  <1>8. CASE Receive(x)
    <2>1. PICK m : m = Head(net[There(x)])
      OBVIOUS
    <2>2. Takes(x, m)
      BY <1>8, <2>1, ReceiveTakes
    <2>3. CASE \E what \in {"hello", "down"} : Starts(x, {Do(what, None, {x})})
      BY <1>1, <1>2, <1>4, <2>3
    <2>4. CASE Starts(x, {Do("register", m.of, {x})}) \/ Starts(x, {})
      BY <1>1, <1>2, <1>4, <2>4
    <2>5. ASSUME NEW S, Starts(x, S), \A s \in S : s.of = m.of,
                 \A s \in S : s.do \notin {"dropClient", "downClient", "downClients"},
                 \E r \in S : r.do \in {"dropServer", "removeClient"}
          PROVE  Table(n, v)'
      BY <1>1, <1>3, <2>5, StartTable
    <2>6. CASE Starts(x, {Do("dropServer", m.of, {x}), Do("tellServer", m.of, {x})})
      <3>1. PICK S : S = {Do("dropServer", m.of, {x}), Do("tellServer", m.of, {x})}
        OBVIOUS
      <3> QED BY <1>2, <2>5, <2>6, <3>1
    <2>7. CASE Starts(x, {Do("tellClient", m.of, {x}), Do("removeClient", m.of, {x})})
      <3>1. PICK S : S = {Do("tellClient", m.of, {x}), Do("removeClient", m.of, {x})}
        OBVIOUS
      <3> QED BY <1>2, <2>5, <2>7, <3>1
    <2> QED BY <2>2, <2>3, <2>4, <2>6, <2>7 DEF Takes
  <1> QED
    BY <1>5, <1>6, <1>7, <1>8 DEF Signalled

\* Routers that restart keep the tables in order.
LEMMA RestartTable ==
  ASSUME TypeInv, Tables, NEW m \in Routers, Restart(m), NEW n \in Routers, NEW v \in Servers
  PROVE  Table(n, v)'
  <1>1. CASE n = m
    <2>1. server'[n][v] = None
      BY <1>1 DEF Restart, TypeInv, TypeOK
    <2>2. \A u \in Threads : RouterOf(u) = n => Jobs(u)' = {}
      BY <1>1, RestartClears
    <2> QED BY <2>1, <2>2 DEF Table
  <1>2. CASE n # m
    <2>1. server'[n][v] = server[n][v] /\ client'[n][v] = client[n][v]
      BY <1>2 DEF Restart, TypeInv, TypeOK
    <2>2. \A u \in Threads : RouterOf(u) = n => Jobs(u)' = Jobs(u)
      BY <1>2, RestartClears DEF Jobs
    <2> QED BY <2>1, <2>2, SameTable
  <1> QED
    BY <1>1, <1>2

\* The tables of the routers stay in order.
LEMMA TablesKept ==
  ASSUME NEW side, Ways(side), TypeInv, Away(side), Ordered, Sided(side), Tables, [Next]_vars
  PROVE  Tables'
  <1> SUFFICES ASSUME NEW n \in Routers, NEW v \in Servers PROVE Table(n, v)'
    BY DEF Tables
  <1>1. ASSUME NEW t \in Threads, Work(t) PROVE Table(n, v)'
    BY <1>1, WorkTable
  <1>2. ASSUME NEW w \in Servers, RegServer(w) \/ DeregServer(w) \/ Close(w) PROVE Table(n, v)'
    BY <1>2, ApplicationTable
  <1>3. ASSUME NEW x \in Xports, StartXport(x) \/ StopXport(x) \/ Signalled(x) PROVE Table(n, v)'
    BY <1>3, TransportTable
  <1>4. ASSUME NEW m \in Routers, Restart(m) PROVE Table(n, v)'
    BY <1>4, RestartTable
  <1>5. CASE UNCHANGED vars
    <2>1. \A u \in Threads : Jobs(u)' = Jobs(u)
      BY <1>5 DEF vars, threads, Jobs
    <2>2. server' = server /\ client' = client
      BY <1>5 DEF vars, tables
    <2> QED BY <2>1, <2>2, SameTable
  <1> QED
    BY <1>1, <1>2, <1>3, <1>4, <1>5 DEF Next

-----------------------------------------------------------------------------
(***************************************************************************)
(* What the other end hears                                                *)
(***************************************************************************)

Withdraws(m, v) == m = Msg("REMOVE_SERVER", v) \/ m = Msg("REMOVE_CLIENT", v)

\* Nothing in a queue withdraws the server.
Clean(q, v) == \A j \in DOMAIN q : ~Withdraws(q[j], v)

\* It is announced and not withdrawn after that.
Fresh(q, v) == \E i \in DOMAIN q : /\ q[i] = Msg("NEW_SERVER", v)
                                   /\ \A j \in DOMAIN q : j > i => ~Withdraws(q[j], v)

\* More is sent.
LEMMA QueueMore ==
  ASSUME NEW q \in Seq(Message), NEW m \in Message, NEW v, ~Withdraws(m, v)
  PROVE  /\ Clean(q, v) => Clean(Append(q, m), v)
         /\ Fresh(q, v) \/ m = Msg("NEW_SERVER", v) => Fresh(Append(q, m), v)
  <1>1. PICK r : r = Append(q, m)
    OBVIOUS
  <1>2. /\ Len(q) \in Nat /\ DOMAIN q = 1..Len(q) /\ DOMAIN r = 1..(Len(q) + 1)
        /\ \A i \in 1..Len(q) : r[i] = q[i]
        /\ r[Len(q) + 1] = m
    BY <1>1
  <1>3. Clean(q, v) => Clean(r, v)
    <2> SUFFICES ASSUME Clean(q, v), NEW j \in DOMAIN r PROVE ~Withdraws(r[j], v)
      BY DEF Clean
    <2>1. j \in DOMAIN q \/ j = Len(q) + 1
      BY <1>2
    <2> QED BY <1>2, <2>1 DEF Clean
  <1>4. Fresh(q, v) => Fresh(r, v)
    <2> SUFFICES ASSUME NEW i \in DOMAIN q, q[i] = Msg("NEW_SERVER", v),
                        \A j \in DOMAIN q : j > i => ~Withdraws(q[j], v)
                 PROVE  Fresh(r, v)
      BY DEF Fresh
    <2>1. i \in DOMAIN r /\ r[i] = Msg("NEW_SERVER", v)
      BY <1>2
    <2>2. ASSUME NEW j \in DOMAIN r, j > i PROVE ~Withdraws(r[j], v)
      <3>1. j \in DOMAIN q \/ j = Len(q) + 1
        BY <1>2
      <3> QED BY <1>2, <2>2, <3>1
    <2> QED BY <2>1, <2>2 DEF Fresh
  <1>5. m = Msg("NEW_SERVER", v) => Fresh(r, v)
    <2>1. Len(q) + 1 \in DOMAIN r /\ \A j \in DOMAIN r : ~(j > Len(q) + 1)
      BY <1>2
    <2> QED BY <1>2, <2>1 DEF Fresh
  <1> QED
    BY <1>1, <1>3, <1>4, <1>5

\* The first of a queue is taken.
LEMMA QueueLess ==
  ASSUME NEW q \in Seq(Message), q # <<>>, NEW v
  PROVE  /\ Clean(q, v) => Clean(Tail(q), v) /\ ~Withdraws(Head(q), v)
         /\ Fresh(q, v) => \/ Fresh(Tail(q), v)
                           \/ Head(q) = Msg("NEW_SERVER", v) /\ Clean(Tail(q), v)
  <1>1. PICK r : r = Tail(q)
    OBVIOUS
  <1>2. /\ Len(q) \in Nat /\ Len(q) > 0 /\ DOMAIN q = 1..Len(q) /\ DOMAIN r = 1..(Len(q) - 1)
        /\ \A i \in 1..(Len(q) - 1) : r[i] = q[i + 1]
        /\ Head(q) = q[1]
    BY <1>1
  <1>3. \A j \in DOMAIN r : j \in Nat /\ j + 1 \in DOMAIN q /\ j + 1 > 1 /\ r[j] = q[j + 1]
    BY <1>2
  <1>4. Clean(q, v) => Clean(r, v) /\ ~Withdraws(Head(q), v)
    <2>1. 1 \in DOMAIN q
      BY <1>2
    <2> QED BY <1>2, <1>3, <2>1 DEF Clean
  <1>5. ASSUME NEW i \in DOMAIN q, q[i] = Msg("NEW_SERVER", v),
               \A j \in DOMAIN q : j > i => ~Withdraws(q[j], v)
        PROVE  Fresh(r, v) \/ (Head(q) = Msg("NEW_SERVER", v) /\ Clean(r, v))
    <2>1. CASE i = 1
      BY <1>2, <1>3, <1>5, <2>1 DEF Clean
    <2>2. CASE i # 1
      <3>1. PICK k \in DOMAIN r : k + 1 = i
        <4>1. i - 1 \in DOMAIN r /\ (i - 1) + 1 = i
          BY <1>2, <2>2
        <4> QED BY <4>1
      <3>2. r[k] = Msg("NEW_SERVER", v)
        BY <1>3, <1>5, <3>1
      <3>3. ASSUME NEW j \in DOMAIN r, j > k PROVE ~Withdraws(r[j], v)
        <4>1. j + 1 > i
          BY <1>3, <3>1, <3>3
        <4> QED BY <1>3, <1>5, <4>1
      <3> QED BY <3>2, <3>3 DEF Fresh
    <2> QED BY <2>1, <2>2
  <1> QED
    BY <1>1, <1>4, <1>5 DEF Fresh

\* A link over which both routers talk, and that nobody closes
Alive(x) == /\ up[x] /\ st[x] = "open" /\ st[There(x)] = "open"
            /\ ~Closing(x) /\ ~Closing(There(x))

\* A server is about to be announced on it.
WillTell(x, v) ==
  \/ \E t \in Threads : RouterOf(t) = x[1]
       /\ \E s \in Jobs(t) : s.do = "NEW_SERVER" /\ s.of = v /\ x \in s.xs
  \/ \E s \in Jobs(x) : s.do = "advertise" /\ s.of = v

Learning(x, v) == \E s \in Jobs(There(x)) : s.do = "register" /\ s.of = v

\* The other end knows it, or learns of it from what it was sent.
Learns(x, v) ==
  \/ Fresh(net[x], v)
  \/ Clean(net[x], v) /\ (Stable(x[2], v) \/ Learning(x, v))

\* Away from its router, a server that stays is not missed.
Heard(side, x, v) ==
  HomeOf[v] \in side[x] /\ Alive(x) /\ Stable(x[1], v) => WillTell(x, v) \/ Learns(x, v)

NoneMissed(side) == \A x \in Xports, v \in Servers : Heard(side, x, v)

\* What leads away from the router of a server comes from elsewhere at the other end.
LEMMA Ends ==
  ASSUME NEW side, Ways(side), NEW x \in Xports, NEW v \in Servers, HomeOf[v] \in side[x]
  PROVE  /\ v \in Beyond(side, There(x)) /\ v \notin Beyond(side, x)
         /\ HomeOf[v] # x[2] /\ There(x)[1] = x[2] /\ There(x) \in Xports /\ There(There(x)) = x
         /\ \A z \in Xports : z[1] = x[2] /\ v \in Beyond(side, z) => z = There(x)
         /\ \A z \in Xports : z[1] = x[1] /\ v \in Beyond(side, z) => NetOf[x] # NetOf[z]
  <1>1. There(x) \in Xports /\ There(There(x)) = x /\ There(x)[1] = x[2]
    BY Both
  <1>2. v \in Beyond(side, There(x))
    BY <1>1 DEF Beyond
  <1>3. v \notin Beyond(side, x)
    BY DEF Beyond, Ways
  <1>4. HomeOf[v] # x[2]
    BY DEF Ways, NoCycle
  <1>5. \A z \in Xports : z[1] = x[2] /\ v \in Beyond(side, z) => z = There(x)
    BY <1>1, <1>2, OneWay
  <1>6. \A z \in Xports : z[1] = x[1] /\ v \in Beyond(side, z) => NetOf[x] # NetOf[z]
    BY <1>3 DEF Ways, OwnNetworks
  <1> QED
    BY <1>1, <1>2, <1>3, <1>4, <1>5, <1>6

\* Where nothing changes at the two ends
LEMMA SameHeard ==
  ASSUME NEW side, NEW x \in Xports, NEW v \in Servers, Heard(side, x, v),
         \A u \in Threads : RouterOf(u) \in {x[1], x[2]} => Jobs(u)' = Jobs(u),
         server'[x[1]][v] = server[x[1]][v], server'[x[2]][v] = server[x[2]][v],
         up'[x] = up[x], st'[x] = st[x], st'[There(x)] = st[There(x)], net'[x] = net[x]
  PROVE  Heard(side, x, v)'
  <1>1. /\ There(x) \in Xports /\ There(x)[1] = x[2] /\ There(x) \in Threads /\ x \in Threads
        /\ RouterOf(x) = x[1] /\ RouterOf(There(x)) = x[2]
        /\ x[1] \in Threads /\ x[2] \in Threads /\ RouterOf(x[1]) = x[1] /\ RouterOf(x[2]) = x[2]
    BY Both DEF Threads, RouterOf
  <1>2. Jobs(x)' = Jobs(x) /\ Jobs(There(x))' = Jobs(There(x))
    BY <1>1
  <1>3. Alive(x)' <=> Alive(x)
    BY <1>1 DEF Alive, Closing
  <1>4. ASSUME NEW k \in {x[1], x[2]} PROVE Stable(k, v)' <=> Stable(k, v)
    <2>1. Doomed(k, v)' <=> Doomed(k, v)
      BY <1>4 DEF Doomed, Dooms
    <2> QED BY <1>4, <2>1 DEF Stable
  <1>5. WillTell(x, v) => WillTell(x, v)'
    BY <1>2 DEF WillTell
  <1>6. Learns(x, v) => Learns(x, v)'
    BY <1>2, <1>4 DEF Learns, Learning
  <1> QED
    BY <1>3, <1>4, <1>5, <1>6 DEF Heard

\* Links come up by a greeting only.
LEMMA AliveBefore ==
  ASSUME NEW side, TypeInv, Ordered, Sided(side), Links, NEW t \in Threads, Work(t),
         NEW x \in Xports, Alive(x)', ~(x = t /\ Now(t).do = "hello")
  PROVE  Alive(x)
  <1>1. There(x) \in Xports /\ x[1] \in Threads /\ There(x)[1] \in Threads
    BY Both DEF Threads
  <1>2. \A y \in Xports : st'[y] = "open" => st[y] = "open" /\ ~(Now(t).do = "close" /\ y \in Now(t).xs)
    BY WorkUp
  <1>3. ASSUME NEW y \in Xports, y[1] \in Threads, st'[y] = "open", Closing(y) PROVE Closing(y)'
    <2> SUFFICES ASSUME ~Closing(y)' PROVE FALSE
      OBVIOUS
    <2>1. Closes(y) = Now(t)
      BY <1>3, WorkKeeps DEF Closing
    <2>2. Now(t).do = "close" /\ y \in Now(t).xs
      BY <2>1, DoFields DEF Closes
    <2> QED BY <1>2, <1>3, <2>2
  <1>4. up[x]
    BY WorkUp DEF Alive
  <1> QED
    BY <1>1, <1>2, <1>3, <1>4 DEF Alive

\* Nothing is lost on a link that stays, nor is a server withdrawn that stays.
LEMMA AliveNet ==
  ASSUME NEW side, Ways(side), TypeInv, Away(side), Ordered, Sided(side), Links, Tables,
         NEW t \in Threads, Work(t), NEW x \in Xports, Alive(x), Alive(x)',
         NEW v \in Servers, Stable(x[1], v)
  PROVE  \/ /\ net'[x] = net[x]
            /\ Now(t).do \in Writes => x \notin Now(t).xs
         \/ \E m \in Message : net'[x] = Append(net[x], m) /\ Sent(t, x, m) /\ ~Withdraws(m, v)
  <1>1. /\ Now(t) \in Jobs(t)
        /\ x[1] \in Routers
    BY WorkNow, Both
  <1>2. /\ ~(Now(t).do = "flush" /\ x = t)
        /\ ~(Now(t).do = "close" /\ x \in Now(t).xs)
    BY WhoseStep, WorkUp DEF Alive
  <1>3. ASSUME NEW m, Sent(t, x, m) PROVE m \in Message /\ ~Withdraws(m, v)
    <2>1. m \in Message
      BY <1>3, WorkSends
    <2>2. ASSUME Withdraws(m, v) PROVE FALSE
      <3>1. m.kind \in {"REMOVE_SERVER", "REMOVE_CLIENT"} /\ m.of = v
        BY <2>2 DEF Withdraws, Msg
      <3>2. Now(t).do \in Gone /\ Now(t).of = v
        BY <1>3, <3>1 DEF Sent, Msg, Gone, News, Writes
      <3>3. RouterOf(t) = x[1]
        <4>1. CASE x \in Reach(RouterOf(t), Now(t).xs)
          BY <4>1 DEF Reach
        <4>2. CASE Now(t).do \in Writes /\ x \in Now(t).xs
          <5>1. \A z : Closes(z).do \notin Writes
            BY DoFields DEF Closes, Writes
          <5>2. \/ t \in Routers /\ RouterOf(t) = t /\ OfApp(t, Now(t))
                \/ \E z \in Xports : /\ z[1] = RouterOf(t)
                                     /\ Now(t) = Closes(z) \/ FromIt(side, z, Now(t))
            BY <1>1, JobOf
          <5> QED BY <4>2, <5>1, <5>2 DEF OfApp, FromIt
        <4> QED BY <1>3, <3>2, <4>1, <4>2 DEF Sent, Gone, News, Writes
      <3> QED BY <1>1, <3>2, <3>3 DEF Tables, Table
    <2> QED BY <2>1, <2>2
  <1> QED
    BY <1>2, <1>3, WorkNet

\* A server that is registered is announced on every other link.
LEMMA RegisterHeard ==
  ASSUME NEW side, Ways(side), TypeInv, Sided(side), NEW t \in Threads, Work(t),
         NEW x \in Xports, Alive(x), NEW v \in Servers, HomeOf[v] \in side[x],
         Registers(t, x[1], v)
  PROVE  WillTell(x, v)' \/ Learns(x, v)'
  <1>1. Now(t) \in Jobs(t) /\ Register(t) /\ Now(t).xs \in SUBSET Xports
    BY WorkNow, WorkIs DEF Registers
  <1>2. x \in Reach(RouterOf(t), Now(t).xs)
    <2>1. ASSUME NEW z \in Now(t).xs PROVE NetOf[x] # NetOf[z]
      <3>1. z \in Xports /\ z[1] = x[1] /\ FromIt(side, z, Now(t))
        BY <1>1, <2>1, SourceSide DEF Registers, Sourced
      <3>2. v \in Beyond(side, z)
        BY <3>1 DEF FromIt, News, Registers
      <3> QED BY <3>1, <3>2, Ends
    <2> QED BY <2>1 DEF Reach, Registers, Alive
  <1>3. PICK m : m = Msg("NEW_SERVER", v)
    OBVIOUS
  <1>4. PICK ys : ys = Reach(RouterOf(t), Now(t).xs)
    OBVIOUS
  <1>5. Tells(t, m, ys, {Do("release", None, {})})
    BY <1>1, <1>3, <1>4, JobsRegister DEF Registers
  <1>6. CASE Do(m.kind, m.of, ys) \in Jobs(t)'
    <2>1. Do("NEW_SERVER", v, ys) \in Jobs(t)'
      BY <1>3, <1>6 DEF Msg
    <2> QED BY <1>2, <1>4, <2>1, DoFields DEF WillTell, Registers
  <1>7. CASE Send(ys, m)
    <2>1. net'[x] = Append(net[x], m)
      BY <1>2, <1>4, <1>7 DEF Send
    <2>2. net[x] \in Seq(Message) /\ m \in Message /\ ~Withdraws(m, v)
      BY <1>3 DEF TypeInv, TypeOK, Msg, Message, Withdraws
    <2>3. Fresh(net'[x], v)
      BY <1>3, <2>1, <2>2, QueueMore
    <2> QED BY <2>3 DEF Learns
  <1> QED
    BY <1>5, <1>6, <1>7 DEF Tells

\* What is about to be told is told, ...
LEMMA ToldHeard ==
  ASSUME NEW side, Ways(side), TypeInv, Away(side), Ordered, Sided(side), Links, Tables,
         NEW t \in Threads, Work(t), NEW x \in Xports, Alive(x), Alive(x)',
         NEW v \in Servers, HomeOf[v] \in side[x], Stable(x[1], v), WillTell(x, v)
  PROVE  WillTell(x, v)' \/ Learns(x, v)'
  <1>1. net[x] \in Seq(Message) /\ x \in Threads /\ RouterOf(x) = x[1] /\ x[1] \in Routers
    BY Both DEF TypeInv, TypeOK
  <1>2. Msg("NEW_SERVER", v) \in Message /\ ~Withdraws(Msg("NEW_SERVER", v), v)
    BY DEF Message, Msg, Withdraws
  <1>3. ASSUME net'[x] = Append(net[x], Msg("NEW_SERVER", v)) PROVE Learns(x, v)'
    <2>1. Fresh(net'[x], v)
      BY <1>1, <1>2, <1>3, QueueMore
    <2> QED BY <2>1 DEF Learns
  <1>4. ASSUME NEW u \in Threads, RouterOf(u) = x[1], NEW s \in Jobs(u),
               s.do = "NEW_SERVER", s.of = v, x \in s.xs
        PROVE  WillTell(x, v)' \/ Learns(x, v)'
    <2>1. CASE s \in Jobs(u)'
      BY <1>4, <2>1 DEF WillTell
    <2>2. CASE s \notin Jobs(u)'
      <3>1. s = Now(t)
        BY <1>4, <2>2, WorkKeeps
      <3>2. \E m \in Message : net'[x] = Append(net[x], m) /\ Sent(t, x, m)
        BY <1>4, <3>1, AliveNet DEF Writes
      <3>3. \A m : Sent(t, x, m) => m = Msg("NEW_SERVER", v)
        BY <1>4, <3>1 DEF Sent, Writes
      <3> QED BY <1>3, <3>2, <3>3
    <2> QED BY <2>1, <2>2
  <1>5. ASSUME NEW s \in Jobs(x), s.do = "advertise", s.of = v
        PROVE  WillTell(x, v)' \/ Learns(x, v)'
    <2>1. CASE s \in Jobs(x)'
      BY <1>5, <2>1 DEF WillTell
    <2>2. CASE s \notin Jobs(x)'
      <3>1. x = t /\ s = Now(t)
        BY <1>1, <1>5, <2>2, WorkKeeps
      <3>2. Advertise(x)
        BY <1>5, <3>1, WorkIs
      <3>3. client[x[1]][v] # None
        <4>1. ~Dropping(x[1], v)
          BY DEF Stable, Doomed, Dooms, Dropping
        <4> QED BY <1>1, <4>1 DEF Tables, Table, Stable
      <3>4. PICK k : k = client[x[1]][v]
        OBVIOUS
      <3>5. k = Local \/ (k \in Xports /\ NetOf[k] # NetOf[x])
        <4>1. k \in {Local} \cup Xports
          BY <1>1, <3>3, <3>4, WhereKnown DEF Away
        <4>2. k \in Xports => k[1] = x[1] /\ v \in Beyond(side, k)
          BY <1>1, <3>4, WhereKnown DEF Away
        <4>3. k \in Xports => NetOf[x] # NetOf[k]
          BY <4>2, Ends
        <4> QED BY <4>1, <4>3
      <3>6. net'[x] = Append(net[x], Msg("NEW_SERVER", v))
        <4>1. up[x]
          BY DEF Alive
        <4> QED BY <1>1, <1>5, <3>1, <3>2, <3>4, <3>5, <4>1 DEF Advertise, Send
      <3> QED BY <1>3, <3>6
    <2> QED BY <2>1, <2>2
  <1> QED
    BY <1>4, <1>5 DEF WillTell

\* ... and what is learned stays known.
LEMMA LearnedHeard ==
  ASSUME NEW side, Ways(side), TypeInv, Away(side), Away(side)', Ordered, Sided(side), Links, Tables,
         NEW t \in Threads, Work(t), NEW x \in Xports, Alive(x), Alive(x)',
         NEW v \in Servers, HomeOf[v] \in side[x], Stable(x[1], v), Learns(x, v)
  PROVE  Learns(x, v)'
  <1> DEFINE y == There(x)
             k == x[2]
  <1>1. /\ net[x] \in Seq(Message) /\ y \in Xports /\ y \in Threads /\ RouterOf(y) = k
        /\ k \in Routers /\ y[1] = k
    BY Both DEF TypeInv, TypeOK
  <1>2. (Fresh(net[x], v) => Fresh(net'[x], v)) /\ (Clean(net[x], v) => Clean(net'[x], v))
    <2>1. CASE net'[x] = net[x]
      BY <2>1
    <2>2. ASSUME NEW m \in Message, net'[x] = Append(net[x], m), ~Withdraws(m, v)
          PROVE  (Fresh(net[x], v) => Fresh(net'[x], v)) /\ (Clean(net[x], v) => Clean(net'[x], v))
      BY <1>1, <2>2, QueueMore
    <2> QED BY <2>1, <2>2, AliveNet
  <1>3. Stable(k, v) => Stable(k, v)'
    BY <1>1, StableLasts
  <1>4. ASSUME Learning(x, v) PROVE Learning(x, v)' \/ Stable(k, v)'
    <2>1. PICK s \in Jobs(y) : s.do = "register" /\ s.of = v
      BY <1>4 DEF Learning
    <2>2. CASE s \in Jobs(y)'
      BY <2>1, <2>2 DEF Learning
    <2>3. CASE s \notin Jobs(y)'
      <3>1. y = t /\ s = Now(t) /\ RouterOf(t) = k
        BY <1>1, <2>1, <2>3, WorkKeeps
      <3>2. server'[k][v] # None
        BY <1>1, <2>1, <3>1, WorkServer, SourceKnown
      <3>3. ASSUME NEW u \in Threads, RouterOf(u) = k, NEW r \in Jobs(u)', Dooms(k, v, r)'
            PROVE  FALSE
        <4>1. CASE r \in Jobs(u)
          <5>1. About(side, v, r)
            <6>1. CASE r.do \in {"dropServer", "removeClient", "downServer"} /\ r.of = v
              BY <6>1 DEF About, News
            <6>2. CASE r.do = "down" /\ server'[k][v] \in r.xs
              <7>1. server'[k][v] \in Xports
                BY <4>1, <6>2, SourceSide DEF Sourced
              <7>2. Known(side, server')
                BY DEF Away, Known, Place
              <7>3. v \in Beyond(side, server'[k][v])
                BY <1>1, <7>1, <7>2, WhereKnown
              <7> QED BY <6>2, <7>1, <7>3 DEF About
            <6> QED BY <3>3, <6>1, <6>2 DEF Dooms
          <5>2. About(side, v, s)
            BY <2>1 DEF About, News
          <5>3. u = t
            BY <2>1, <3>1, <3>3, <4>1, <5>1, <5>2, AboutOne
          <5>4. r = s
            BY <2>1, <3>1, <4>1, <5>3, WorkNow
          <5> QED BY <2>1, <3>3, <5>4 DEF Dooms
        <4>2. CASE r \notin Jobs(u)
          <5>1. u = t
            BY <3>3, <4>2, WorkOthers DEF Others, Jobs
          <5>2. Made(t, r)
            BY <3>3, <4>2, <5>1, WorkNow, WorkMakes
          <5>3. r.do \in {"release", "NEW_SERVER"}
            BY <2>1, <3>1, <5>2, DoFields DEF Made
          <5> QED BY <3>3, <5>3 DEF Dooms
        <4> QED BY <4>1, <4>2
      <3> QED BY <3>2, <3>3 DEF Stable, Doomed
    <2> QED BY <2>2, <2>3
  <1> QED
    BY <1>2, <1>3, <1>4 DEF Learns

\* What threads do leaves no server missed.
LEMMA WorkHeard ==
  ASSUME NEW side, Ways(side), TypeInv, Away(side), Ordered, Sided(side), Links, Tables,
         NEW t \in Threads, Work(t), NEW x \in Xports, NEW v \in Servers, Heard(side, x, v)
  PROVE  Heard(side, x, v)'
  <1> SUFFICES ASSUME HomeOf[v] \in side[x], Alive(x)', Stable(x[1], v)'
               PROVE  WillTell(x, v)' \/ Learns(x, v)'
    BY DEF Heard
  <1>1. x[1] \in Routers
    BY Both
  <1>2. CASE x = t /\ Now(t).do = "hello"
    <2>1. server[x[1]][v] # None
      BY <1>1, <1>2, StableBefore DEF Registers, Stable
    <2>2. XportUp(t) /\ RouterOf(t) = x[1]
      BY <1>2, WorkIs, Both
    <2>3. Do("advertise", v, Now(t).xs) \in Jobs(t)'
      BY <2>1, <2>2, JobsUp
    <2> QED BY <1>2, <2>3, DoFields DEF WillTell
  <1>3. CASE ~(x = t /\ Now(t).do = "hello")
    <2>1. Alive(x)
      BY <1>3, AliveBefore
    <2>2. CASE Registers(t, x[1], v)
      BY <2>1, <2>2, RegisterHeard
    <2>3. CASE ~Registers(t, x[1], v)
      <3>1. Stable(x[1], v)
        BY <1>1, <2>3, StableBefore
      <3>2. Away(side)'
        BY WorkAway DEF Ways
      <3>3. WillTell(x, v) \/ Learns(x, v)
        BY <2>1, <3>1 DEF Heard
      <3>4. CASE WillTell(x, v)
        BY <2>1, <3>1, <3>4, ToldHeard
      <3>5. CASE Learns(x, v)
        BY <2>1, <3>1, <3>2, <3>5, LearnedHeard
      <3> QED BY <3>3, <3>4, <3>5
    <2> QED BY <2>2, <2>3
  <1> QED
    BY <1>2, <1>3

\* Nor does what applications and workers begin, ...
LEMMA StartHeard ==
  ASSUME NEW side, NEW x \in Xports, NEW v \in Servers, Heard(side, x, v),
         NEW t \in Threads, NEW S, Starts(t, S),
         st' = st, up'[x] => up[x],
         server'[x[1]][v] \in {server[x[1]][v], None}, server'[x[2]][v] = server[x[2]][v],
         Fresh(net[x], v) => Learns(x, v)',
         Clean(net[x], v) => Clean(net'[x], v),
         Alive(x) /\ Alive(x)' /\ RouterOf(t) = x[2] /\ Clean(net[x], v)
           => \A s \in S : ~Dooms(x[2], v, s)
  PROVE  Heard(side, x, v)'
  <1> SUFFICES ASSUME HomeOf[v] \in side[x], Alive(x)', Stable(x[1], v)'
               PROVE  WillTell(x, v)' \/ Learns(x, v)'
    BY DEF Heard
  <1>1. \A u \in Threads : (u = t /\ Jobs(u)' = S /\ Jobs(u) = {}) \/ (u # t /\ Jobs(u)' = Jobs(u))
    BY StartsOnly
  <1>2. /\ There(x) \in Xports /\ There(x) \in Threads /\ x \in Threads
        /\ x[1] \in Threads /\ There(x)[1] \in Threads
    BY Both DEF Threads
  <1>3. Alive(x)
    BY <1>1, <1>2 DEF Alive, Closing
  <1>4. Stable(x[1], v)
    <2>1. server'[x[1]][v] = server[x[1]][v] /\ server[x[1]][v] # None
      BY DEF Stable
    <2>2. Doomed(x[1], v) => Doomed(x[1], v)'
      BY <1>1, <2>1 DEF Doomed, Dooms
    <2> QED BY <2>1, <2>2 DEF Stable
  <1>5. WillTell(x, v) => WillTell(x, v)'
    BY <1>1, <1>2 DEF WillTell
  <1>6. Learning(x, v) => Learning(x, v)'
    BY <1>1, <1>2 DEF Learning
  <1>7. ASSUME Clean(net[x], v), Stable(x[2], v) PROVE Stable(x[2], v)'
    <2>1. ASSUME NEW u \in Threads, RouterOf(u) = x[2], NEW s \in Jobs(u)' PROVE ~Dooms(x[2], v, s)
      BY <1>1, <1>3, <1>7, <2>1 DEF Stable, Doomed
    <2> QED BY <1>7, <2>1 DEF Stable, Doomed, Dooms
  <1> QED
    BY <1>3, <1>4, <1>5, <1>6, <1>7 DEF Heard, Learns

\* What applications begin leaves no server missed.
LEMMA ApplicationHeard ==
  ASSUME NEW side, Ways(side), TypeInv, NEW w \in Servers,
         RegServer(w) \/ DeregServer(w) \/ Close(w),
         NEW x \in Xports, NEW v \in Servers, Heard(side, x, v)
  PROVE  Heard(side, x, v)'
  <1> SUFFICES ASSUME HomeOf[v] \in side[x] PROVE Heard(side, x, v)'
    BY DEF Heard
  <1>1. /\ HomeOf[w] \in Routers /\ HomeOf[w] \in Threads /\ RouterOf(HomeOf[w]) = HomeOf[w]
        /\ HomeOf[v] # x[2] /\ x[1] \in Routers /\ x[2] \in Routers
    BY Ends, Both, NamingAssumption DEF Threads, RouterOf
  <1>2. net' = net /\ up' = up /\ st' = st
    BY ApplicationStarts
  <1>3. Fresh(net[x], v) => Learns(x, v)'
    BY <1>2 DEF Learns
  <1>4. /\ server'[x[1]][v] \in {server[x[1]][v], None}
        /\ server'[x[2]][v] = server[x[2]][v]
    <2>1. CASE RegServer(w) \/ Close(w)
      BY <2>1 DEF RegServer, Close, tables
    <2>2. CASE DeregServer(w)
      <3>1. server' = [server EXCEPT ![HomeOf[w]][w] = None]
        BY <2>2 DEF DeregServer
      <3>2. ~(x[2] = HomeOf[w] /\ v = w)
        BY <1>1
      <3> QED BY <1>1, <3>1, <3>2 DEF TypeInv, TypeOK
    <2> QED BY <2>1, <2>2
  <1>5. \E S : /\ Starts(HomeOf[w], S)
               /\ \A s \in S : s.do \notin {"dropServer", "downServer", "down"} /\ s.of = w
    <2>1. CASE RegServer(w)
      <3>1. Starts(HomeOf[w], {Do("register", w, {})})
        BY <2>1, ApplicationStarts
      <3> QED BY <3>1, DoFields
    <2>2. CASE DeregServer(w)
      <3>1. Starts(HomeOf[w], {Do("tellServer", w, {})})
        BY <2>2, ApplicationStarts
      <3> QED BY <3>1, DoFields
    <2>3. CASE Close(w)
      <3>1. Starts(HomeOf[w], {Do("tellClient", w, {}), Do("removeClient", w, {})})
        BY <2>3, ApplicationStarts
      <3>2. \A s \in {Do("tellClient", w, {}), Do("removeClient", w, {})} :
              s.do \notin {"dropServer", "downServer", "down"} /\ s.of = w
        BY DoFields
      <3> QED BY <3>1, <3>2
    <2> QED BY <2>1, <2>2, <2>3
  <1>6. PICK S : Starts(HomeOf[w], S)
                 /\ \A s \in S : s.do \notin {"dropServer", "downServer", "down"} /\ s.of = w
    BY <1>5
  <1>7. HomeOf[w] = x[2] => \A s \in S : ~Dooms(x[2], v, s)
    BY <1>1, <1>6 DEF Dooms
  <1> QED
    BY <1>1, <1>2, <1>3, <1>4, <1>6, <1>7, StartHeard

\* Transports that start, open or are stopped, or whose other end went
LEMMA LinkHeard ==
  ASSUME NEW side, Ways(side), TypeInv, Away(side), Links, NEW z \in Xports,
         StartXport(z) \/ Open(z) \/ StopXport(z) \/ RemoteClose(z),
         NEW x \in Xports, NEW v \in Servers, Heard(side, x, v)
  PROVE  Heard(side, x, v)'
  <1> SUFFICES ASSUME HomeOf[v] \in side[x], Alive(x)' PROVE Heard(side, x, v)'
    BY DEF Heard
  <1>1. /\ There(x) \in Xports /\ There(There(x)) = x /\ There(x)[1] = x[2]
        /\ x[1] \in Routers /\ x[2] \in Routers
        /\ z \in Threads /\ z[1] \in Threads /\ RouterOf(z) = z[1] /\ RouterOf(z[1]) = z[1]
    BY Both DEF Threads, RouterOf
  <1>2. server' = server
    BY DEF StartXport, Open, StopXport, RemoteClose, tables
  <1>3. /\ up \in [Xports -> BOOLEAN] /\ net \in [Xports -> Seq(Message)]
        /\ st \in [Xports -> {"closed", "opening", "open", "lost", "paused"}]
    BY DEF TypeInv, TypeOK
  <1>4. v \in Beyond(side, z) /\ z[1] = x[2] => z = There(x)
    BY Ends
  <1>5. server[x[2]][v] = z => z[1] = x[2] /\ v \in Beyond(side, z)
    BY <1>1, WhereKnown DEF Away
  <1>6. CASE StartXport(z) \/ Open(z)
    <2>1. z # x /\ z # There(x)
      <3>1. CASE StartXport(z)
        BY <1>1, <1>3, <3>1 DEF StartXport, Alive
      <3>2. CASE Open(z)
        <4>1. st[z] \in {"opening", "paused"} /\ up' = up /\ st' = [st EXCEPT ![z] = "open"]
          BY <3>2 DEF Open
        <4>2. z # x
          BY <4>1 DEF Alive, Links, Linked
        <4>3. st[x] = "open" /\ up[x]
          BY <1>3, <4>1, <4>2 DEF Alive
        <4>4. st[There(x)] = "open"
          BY <4>3 DEF Links, Linked
        <4> QED BY <4>1, <4>2, <4>4
      <3> QED BY <1>6, <3>1, <3>2
    <2>2. /\ up'[x] = up[x] /\ net'[x] = net[x]
          /\ st'[x] = st[x] /\ st'[There(x)] = st[There(x)]
      BY <1>1, <1>3, <1>6, <2>1 DEF StartXport, Open, Send
    <2>3. \A u \in Threads : Jobs(u)' = Jobs(u)
      BY <1>6, TransportStarts DEF Jobs
    <2> QED BY <1>2, <2>2, <2>3, SameHeard
  <1>7. ASSUME NEW t \in Threads, RouterOf(t) = z[1], NEW S, Starts(t, S), st' = st,
               up'[x] => up[x], net'[x] = net[x],
               \A s \in S : s.do \in {"down", "flush", "close"} /\ s.xs = {z},
               z # There(x)
        PROVE  Heard(side, x, v)'
    <2>1. Fresh(net[x], v) => Learns(x, v)'
      BY <1>7 DEF Learns
    <2>2. RouterOf(t) = x[2] => \A s \in S : ~Dooms(x[2], v, s)
      BY <1>4, <1>5, <1>7 DEF Dooms
    <2> QED BY <1>2, <1>7, <2>1, <2>2, StartHeard
  <1>8. CASE StopXport(z)
    <2>1. PICK S : S = {Do("down", None, {z}), Closes(z)}
      OBVIOUS
    <2>2. Starts(z[1], S) /\ st' = st /\ (up'[x] => up[x])
      BY <1>3, <1>8, <2>1, TransportStarts DEF StopXport
    <2>3. \A s \in S : s.do \in {"down", "close"} /\ s.xs = {z}
      BY <2>1, DoFields DEF Closes
    <2>4. Closing(z)'
      BY <2>1, <2>2 DEF Starts, Closing
    <2>5. z # x /\ z # There(x)
      BY <2>4 DEF Alive
    <2>6. net'[x] = net[x]
      BY <1>8, <2>5 DEF StopXport, Send
    <2> QED BY <1>1, <1>7, <2>2, <2>3, <2>5, <2>6
  <1>9. CASE RemoteClose(z)
    <2>1. PICK S : S = {Do("flush", None, {z})} \cup (IF up[z] THEN {Do("down", None, {z})} ELSE {})
      OBVIOUS
    <2>2. Starts(z, S) /\ st' = st /\ up' = up /\ net' = net /\ st[z] = "lost"
      BY <1>9, <2>1, TransportStarts DEF RemoteClose, links
    <2>3. \A s \in S : s.do \in {"down", "flush"} /\ s.xs = {z}
      BY <2>1, DoFields
    <2>4. z # There(x)
      BY <2>2 DEF Alive
    <2> QED BY <1>1, <1>7, <2>2, <2>3, <2>4
  <1> QED
    BY <1>6, <1>8, <1>9

\* ... nor what messages begin: one that withdraws the server comes before the announcement.
LEMMA ReceiveHeard ==
  ASSUME NEW side, Ways(side), TypeInv, Away(side), Sided(side), NEW z \in Xports, Receive(z),
         NEW x \in Xports, NEW v \in Servers, Heard(side, x, v)
  PROVE  Heard(side, x, v)'
  <1> SUFFICES ASSUME HomeOf[v] \in side[x] PROVE Heard(side, x, v)'
    BY DEF Heard
  <1>1. /\ There(x) \in Xports /\ There(There(x)) = x /\ There(x)[1] = x[2]
        /\ There(z) \in Xports /\ There(There(z)) = z
        /\ x[1] \in Routers /\ x[2] \in Routers
        /\ z \in Threads /\ RouterOf(z) = z[1]
    BY Both
  <1>2. PICK m : m = Head(net[There(z)])
    OBVIOUS
  <1>3. /\ Takes(z, m) /\ m \in Message /\ m \in ToSet(net[There(z)])
        /\ net[There(z)] # <<>> /\ net[There(z)] \in Seq(Message)
        /\ net'[There(z)] = Tail(net[There(z)])
        /\ \A y \in Xports : y # There(z) => net'[y] = net[y]
    BY <1>2, ReceiveTakes
  <1>4. server' = server /\ st' = st /\ up' = up
    BY DEF Receive, tables
  <1>5. z = There(x) => x = There(z)
    BY <1>1
  <1>6. \A y \in Xports : v \in Beyond(side, y) /\ y[1] = x[2] => y = There(x)
    BY Ends
  <1>7. ASSUME NEW S, Starts(z, S),
               m = Msg("NEW_SERVER", v) => \E s \in S : s.do = "register" /\ s.of = v,
               Alive(x) /\ z[1] = x[2] /\ Clean(net[x], v) => \A s \in S : ~Dooms(x[2], v, s)
        PROVE  Heard(side, x, v)'
    <2>1. CASE z # There(x)
      <3>1. net'[x] = net[x]
        BY <1>1, <1>3, <2>1
      <3>2. Fresh(net[x], v) => Learns(x, v)'
        BY <3>1 DEF Learns
      <3> QED BY <1>1, <1>4, <1>7, <3>1, <3>2, StartHeard
    <2>2. CASE z = There(x)
      <3>1. Clean(net[x], v) => Clean(net'[x], v)
        BY <1>3, <1>5, <2>2, QueueLess
      <3>2. Fresh(net[x], v) => Fresh(net'[x], v) \/ (m = Msg("NEW_SERVER", v) /\ Clean(net'[x], v))
        BY <1>2, <1>3, <1>5, <2>2, QueueLess
      <3>3. m = Msg("NEW_SERVER", v) => Learning(x, v)'
        BY <1>7, <2>2 DEF Learning, Starts
      <3>4. Fresh(net[x], v) => Learns(x, v)'
        BY <3>2, <3>3 DEF Learns
      <3> QED BY <1>1, <1>4, <1>7, <3>1, <3>4, StartHeard
    <2> QED BY <2>1, <2>2
  <1>8. \A what, of, xs : LET s == Do(what, of, xs) IN s.do = what /\ s.of = of /\ s.xs = xs
    BY DoFields
  <1>9. CASE m.kind = "BYE" /\ Starts(z, {Do("down", None, {z})})
    <2>1. PICK S : S = {Do("down", None, {z})}
      OBVIOUS
    <2>2. Alive(x) => z # There(x)
      <3>1. Closing(There(z))
        BY <1>1, <1>3, <1>9 DEF Sided, MayCarry
      <3> QED BY <1>5, <3>1 DEF Alive
    <2>3. server[x[2]][v] = z => v \in Beyond(side, z)
      BY <1>1, WhereKnown DEF Away
    <2>4. Alive(x) /\ z[1] = x[2] => \A s \in S : ~Dooms(x[2], v, s)
      BY <1>6, <1>8, <2>1, <2>2, <2>3 DEF Dooms
    <2>5. Starts(z, S) /\ m # Msg("NEW_SERVER", v)
      BY <1>9, <2>1 DEF Msg
    <2> QED BY <1>7, <2>4, <2>5
  <1>10. CASE m.kind = "HELLO" /\ Starts(z, {Do("hello", None, {z})})
    BY <1>7, <1>8, <1>10 DEF Msg, Dooms
  <1>11. CASE m.kind = "NEW_SERVER" /\ Starts(z, {Do("register", m.of, {z})})
    BY <1>7, <1>8, <1>11 DEF Msg, Dooms
  <1>12. CASE m.kind = "REMOVE_SERVER" /\ Starts(z, {})
    BY <1>7, <1>12 DEF Msg
  <1>13. ASSUME NEW S, Starts(z, S), m.kind \in {"REMOVE_SERVER", "REMOVE_CLIENT"},
                \A s \in S : s.of = m.of /\ s.do # "down"
         PROVE  Heard(side, x, v)'
    <2>1. m.of = v => v \in Beyond(side, z)
      BY <1>2, <1>13, ToldBeyond
    <2>2. m.of = v => Withdraws(m, v)
      BY <1>3, <1>13 DEF Message, Withdraws, Msg
    <2>3. Clean(net[x], v) /\ z[1] = x[2] => m.of # v
      BY <1>2, <1>3, <1>5, <1>6, <2>1, <2>2, QueueLess
    <2>4. Clean(net[x], v) /\ z[1] = x[2] => \A s \in S : ~Dooms(x[2], v, s)
      BY <1>13, <2>3 DEF Dooms
    <2> QED BY <1>7, <1>13, <2>4 DEF Msg
  <1>14. CASE /\ m.kind = "REMOVE_SERVER"
              /\ Starts(z, {Do("dropServer", m.of, {z}), Do("tellServer", m.of, {z})})
    <2>1. PICK S : S = {Do("dropServer", m.of, {z}), Do("tellServer", m.of, {z})}
      OBVIOUS
    <2> QED BY <1>8, <1>13, <1>14, <2>1
  <1>15. CASE /\ m.kind = "REMOVE_CLIENT"
              /\ Starts(z, {Do("tellClient", m.of, {z}), Do("removeClient", m.of, {z})})
    <2>1. PICK S : S = {Do("tellClient", m.of, {z}), Do("removeClient", m.of, {z})}
      OBVIOUS
    <2> QED BY <1>8, <1>13, <1>15, <2>1
  <1> QED
    BY <1>3, <1>9, <1>10, <1>11, <1>12, <1>14, <1>15 DEF Takes

\* A router that restarts closes its links.
LEMMA RestartHeard ==
  ASSUME NEW side, TypeInv, NEW m \in Routers, Restart(m),
         NEW x \in Xports, NEW v \in Servers, Heard(side, x, v)
  PROVE  Heard(side, x, v)'
  <1> SUFFICES ASSUME Alive(x)' PROVE Heard(side, x, v)'
    BY DEF Heard
  <1>1. /\ There(x) \in Xports /\ There(x)[1] = x[2] /\ There(x)[2] = x[1]
        /\ x[1] \in Routers /\ x[2] \in Routers
    BY Both
  <1>2. x[1] # m /\ x[2] # m
    BY <1>1, RestartClears DEF Alive
  <1>3. \A u \in Threads : RouterOf(u) \in {x[1], x[2]} => Jobs(u)' = Jobs(u)
    BY <1>2, RestartClears DEF Jobs
  <1>4. server'[x[1]][v] = server[x[1]][v] /\ server'[x[2]][v] = server[x[2]][v]
    BY <1>1, <1>2 DEF Restart, TypeInv, TypeOK
  <1>5. up'[x] = up[x] /\ net'[x] = net[x] /\ st'[x] = st[x] /\ st'[There(x)] = st[There(x)]
    BY <1>1, <1>2, RestartClears
  <1> QED
    BY <1>3, <1>4, <1>5, SameHeard

\* No step of the routers makes a router miss a server.
LEMMA HeardKept ==
  ASSUME NEW side, Ways(side), TypeInv, Away(side), Ordered, Sided(side), Links, Tables,
         NoneMissed(side), [Next]_vars
  PROVE  NoneMissed(side)'
  <1> SUFFICES ASSUME NEW x \in Xports, NEW v \in Servers PROVE Heard(side, x, v)'
    BY DEF NoneMissed
  <1>1. Heard(side, x, v)
    BY DEF NoneMissed
  <1>2. ASSUME NEW t \in Threads, Work(t) PROVE Heard(side, x, v)'
    BY <1>1, <1>2, WorkHeard
  <1>3. ASSUME NEW w \in Servers, RegServer(w) \/ DeregServer(w) \/ Close(w)
        PROVE  Heard(side, x, v)'
    BY <1>1, <1>3, ApplicationHeard
  <1>4. ASSUME NEW z \in Xports, StartXport(z) \/ StopXport(z) \/ Signalled(z)
        PROVE  Heard(side, x, v)'
    BY <1>1, <1>4, LinkHeard, ReceiveHeard DEF Signalled
  <1>5. ASSUME NEW m \in Routers, Restart(m) PROVE Heard(side, x, v)'
    BY <1>1, <1>5, RestartHeard
  <1>6. CASE UNCHANGED vars
    <2>1. \A u \in Threads : Jobs(u)' = Jobs(u)
      BY <1>6 DEF vars, threads, Jobs
    <2>2. server' = server /\ up' = up /\ st' = st /\ net' = net
      BY <1>6 DEF vars, tables, links
    <2> QED BY <1>1, <2>1, <2>2, SameHeard
  <1> QED
    BY <1>2, <1>3, <1>4, <1>5, <1>6 DEF Next

\* When all is quiet, a server passes every link that leads away from its router.
LEMMA QuietLink ==
  ASSUME NEW side, TypeInv, NoneMissed(side), Quiet, NEW x \in Xports, NEW v \in Servers,
         HomeOf[v] \in side[x], server[x[1]][v] # None
  PROVE  server[x[2]][v] # None
  <1>1. \A t \in Threads : agenda[t] = <<>>
    <2>1. \A t \in Threads : RouterOf(t) \in Routers
      BY Both DEF Threads, RouterOf
    <2> QED BY <2>1 DEF Quiet, Idle
  <1>2. \A t \in Threads : Jobs(t) = {}
    BY <1>1, Elements DEF Jobs
  <1>3. /\ There(x) \in Xports /\ There(x) \in Threads /\ x \in Threads
        /\ x[1] \in Threads /\ There(x)[1] \in Threads
    BY Both DEF Threads
  <1>4. Alive(x)
    BY <1>2, <1>3 DEF Quiet, Settled, Alive, Closing
  <1>5. \A n \in Routers : ~Doomed(n, v)
    BY <1>2 DEF Doomed
  <1>6. Stable(x[1], v)
    BY <1>5, Both DEF Stable
  <1>7. ~WillTell(x, v) /\ ~Learning(x, v)
    BY <1>2, <1>3 DEF WillTell, Learning
  <1>8. ~Fresh(net[x], v)
    BY DEF Quiet, Settled, Fresh
  <1>9. Stable(x[2], v)
    BY <1>4, <1>6, <1>7, <1>8 DEF NoneMissed, Heard, Learns
  <1> QED
    BY <1>9 DEF Stable

\* In a tree, what spreads away from a router reaches all.
LEMMA Spreads ==
  ASSUME NEW side, Tree(side), Connected, Ways(side), NEW h \in Routers, NEW S0 \in SUBSET Routers,
         h \in S0, \A x \in Xports : h \in side[x] /\ x[1] \in S0 => x[2] \in S0
  PROVE  S0 = Routers
  <1> DEFINE Reached(n) == /\ n \in S0
                           /\ \A z \in Xports : h \in side[z] /\ n \notin side[z] => z[1] \in S0
             S == {n \in Routers : Reached(n)}
  <1>1. h \in S
    OBVIOUS
  <1>2. ASSUME NEW x \in Xports, x[1] \in S PROVE x[2] \in S
    <2>1. /\ There(x) \in Xports /\ There(There(x)) = x /\ There(x)[1] = x[2] /\ There(x)[2] = x[1]
          /\ x[2] \in Routers
      BY Both
    <2>2. Reached(x[1])
      BY <1>2
    <2>3. x[1] \notin side[There(x)] /\ x[2] \in side[There(x)]
      BY <2>1 DEF Ways, NoCycle
    <2>4. h \in side[x] \/ h \in side[There(x)]
      BY DEF Tree
    <2>5. x[2] \in S0
      <3>1. CASE h \in side[x]
        BY <2>2, <3>1
      <3>2. CASE h \in side[There(x)]
        BY <2>1, <2>2, <2>3, <3>2
      <3> QED BY <2>4, <3>1, <3>2
    <2>6. ASSUME NEW z \in Xports, h \in side[z], x[2] \notin side[z] PROVE z[1] \in S0
      <3>1. CASE z = x
        BY <2>2, <3>1
      <3>2. z # There(x)
        BY <2>3, <2>6
      <3>3. CASE z # x
        <4>1. x # There(z)
          <5>1. There(There(z)) = z
            BY Both
          <5> QED BY <3>2, <5>1
        <4>2. x[1] \notin side[z]
          BY <2>6, <3>3, <4>1 DEF Tree
        <4> QED BY <2>2, <2>6, <4>2
      <3> QED BY <3>1, <3>3
    <2> QED BY <2>1, <2>5, <2>6
  <1>3. S = Routers
    <2>1. S \in SUBSET Routers /\ S # {}
      BY <1>1
    <2> HIDE DEF S
    <2> QED BY <1>2, <2>1 DEF Connected
  <1> QED
    BY <1>3

\* It passes them one by one and so reaches all routers.
LEMMA QuietAll ==
  ASSUME NEW side, Tree(side), Connected, Ways(side), TypeInv, NoneMissed(side)
  PROVE  NoServerMissed
  <1> SUFFICES ASSUME Quiet, NEW v \in Servers, Registered(v)
               PROVE  \A n \in Routers : server[n][v] # None
    BY DEF NoServerMissed
  <1>1. HomeOf[v] \in Routers /\ server[HomeOf[v]][v] # None
    BY NamingAssumption DEF Registered
  <1>2. PICK S0 : S0 = {n \in Routers : server[n][v] # None}
    OBVIOUS
  <1>3. S0 \in SUBSET Routers /\ HomeOf[v] \in S0
    BY <1>1, <1>2
  <1>4. \A x \in Xports : x[2] \in Routers
    BY Both
  <1>5. \A x \in Xports : HomeOf[v] \in side[x] /\ x[1] \in S0 => x[2] \in S0
    BY <1>2, <1>4, QuietLink
  <1>6. S0 = Routers
    BY <1>1, <1>3, <1>5, Spreads
  <1> QED
    BY <1>2, <1>6

\* In a network that is a tree, when all is quiet every router knows every
\* server that is registered: what a router announces or lists is withdrawn
\* only by what comes after it, and an announcement that a transport loses
\* is followed by a new greeting.
THEOREM NoServerIsMissed ==
  ASSUME NEW side, Tree(side), Connected, OwnNetworks
  PROVE  Spec => []NoServerMissed
  <1> DEFINE Inv == Away(side) /\ Ordered /\ Sided(side) /\ Links /\ Tables /\ NoneMissed(side)
  <1>1. Ways(side)
    <2>1. NoCycle(side)
      BY TreeHasNoCycle
    <2>2. \A x \in Xports : side[x] \cap side[There(x)] = {}
      BY DEF Tree
    <2> QED BY <2>1, <2>2 DEF Ways
  <1>2. Init => Inv
    <2> SUFFICES ASSUME Init PROVE Inv
      OBVIOUS
    <2>1. Away(side)
      <3>1. \A S : <<>> \in Seq(S)
        OBVIOUS
      <3> QED BY <3>1 DEF Init, Away, Known, Place
    <2>2. \A t \in Threads : Jobs(t) = {}
      BY Elements DEF Init, Jobs
    <2>3. \A x \in Xports : x \in Threads /\ x[1] \in Threads /\ net[x] = <<>> /\ ~up[x]
      BY Both DEF Init, Threads
    <2>4. \A n \in Routers : n \in Threads /\ \A v \in Servers : server[n][v] = None
      BY DEF Init, Threads
    <2>5. Ordered
      BY DEF Init, Ordered, InOrder
    <2>6. Sided(side)
      BY <2>2, <2>3, <2>4, Elements DEF Sided
    <2>7. Links
      BY <2>2, <2>3 DEF Links, Linked, Greets, Closing
    <2>8. Tables
      BY <2>2, <2>4 DEF Tables, Table
    <2>9. NoneMissed(side)
      BY <2>3 DEF NoneMissed, Heard, Alive
    <2> QED BY <2>1, <2>5, <2>6, <2>7, <2>8, <2>9
  <1>3. TypeInv /\ Inv /\ [Next]_vars => Inv'
    <2> SUFFICES ASSUME TypeInv, Inv, [Next]_vars PROVE Inv'
      OBVIOUS
    <2>1. Away(side)'
      <3>1. CASE Next
        BY <1>1, <3>1, WorkAway, ApplicationAway, TransportAway, RestartAway DEF Next, Ways
      <3>2. CASE UNCHANGED vars
        BY <3>2 DEF vars, tables, links, threads, Away, Known, Place, Told, Todo
      <3> QED BY <3>1, <3>2
    <2>2. Sided(side)' /\ Ordered'
      BY <1>1, SidedKept
    <2>3. Links'
      BY <1>1, LinksKept
    <2>4. Tables'
      BY <1>1, TablesKept
    <2>5. NoneMissed(side)'
      BY <1>1, HeardKept
    <2> QED BY <2>1, <2>2, <2>3, <2>4, <2>5
  <1>4. TypeInv /\ Inv => NoServerMissed
    BY <1>1, QuietAll
  <1> QED
    BY <1>2, <1>3, <1>4, TypeCorrect, PTL DEF Spec
=============================================================================
