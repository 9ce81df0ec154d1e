----------------------------- MODULE NamingSafety -----------------------------
(***************************************************************************)
(* More theorems about Naming, from the invariants of NamingProofs: in a   *)
(* network that is a tree no router knows a server, or its endpoint, that  *)
(* is gone once all is quiet, as long as no thread overtakes another       *)
(* between a write to a table and the message about it.                    *)
(*                                                                         *)
(* Four more parts of the invariant say why.  InTurn: who lists the        *)
(* servers has the semaphore and nothing is removed meanwhile.  Wires: the *)
(* two ends of a link agree, up to what is under way on it.  OverUps: what *)
(* is known over a transport is known over one that is up.  AllAccounted:  *)
(* what a link has told, or is about to, is known where it was told, or is *)
(* about to be withdrawn, or the link is about to fall.                    *)
(***************************************************************************)
EXTENDS NamingProofs

-----------------------------------------------------------------------------
(***************************************************************************)
(* When nothing overlaps                                                   *)
(***************************************************************************)

\* What is told is sent at once.
LEMMA ToldAtOnce ==
  ASSUME Overlaps = {}, NEW t, NEW m, NEW ys, NEW steps, Tell(t, m, ys, steps)
  PROVE  Go(t, steps) /\ Send(ys, m)
  BY DEF Tell

\* Agendas begin with a fall or the withdrawal of an endpoint, if they have one, and end with
\* the release of the semaphore.
Placed(q) == \A i \in DOMAIN q :
  /\ i > 1 => q[i].do \notin {"down", "tellClient"}
  /\ i < Len(q) => q[i].do # "release"

\* Every agenda is in place.
InPlace == \A t \in Threads : Placed(agenda[t])

\* Steps that may come anywhere
Middle == {s \in Steps : s.do \notin {"down", "tellClient", "release"}}

\* What a sequence put after another one is
LEMMA Concat ==
  ASSUME NEW S, NEW T, NEW p \in Seq(S), NEW q \in Seq(T)
  PROVE  /\ Len(p) \in Nat /\ DOMAIN p = 1..Len(p)
         /\ Len(p \o q) = Len(p) + Len(q) /\ DOMAIN (p \o q) = 1..(Len(p) + Len(q))
         /\ \A i \in 1..(Len(p) + Len(q)) : (p \o q)[i] = IF i <= Len(p) THEN p[i] ELSE q[i - Len(p)]
  OBVIOUS

\* Steps that may come anywhere may be put before what is left of an agenda.
LEMMA MiddleFirst ==
  ASSUME NEW p \in Seq(Middle), NEW q \in Seq(Steps), q # <<>>, Placed(q)
  PROVE  Placed(p \o Tail(q))
  <1>1. PICK r : r = p \o Tail(q)
    OBVIOUS
  <1>2. /\ Len(p) \in Nat /\ Len(q) \in Nat /\ Len(q) > 0
        /\ DOMAIN p = 1..Len(p) /\ DOMAIN q = 1..Len(q)
        /\ Len(r) = Len(p) + (Len(q) - 1) /\ DOMAIN r = 1..(Len(p) + (Len(q) - 1))
        /\ \A i \in 1..(Len(p) + (Len(q) - 1)) :
             r[i] = IF i <= Len(p) THEN p[i] ELSE q[(i - Len(p)) + 1]
    <2>1. PICK z : z = Tail(q)
      OBVIOUS
    <2>2. /\ Len(q) \in Nat /\ Len(q) > 0 /\ DOMAIN q = 1..Len(q)
          /\ z \in Seq(Steps) /\ Len(z) = Len(q) - 1
          /\ \A i \in 1..(Len(q) - 1) : z[i] = q[i + 1]
      BY <2>1
    <2>3. /\ Len(p) \in Nat /\ DOMAIN p = 1..Len(p)
          /\ Len(r) = Len(p) + Len(z) /\ DOMAIN r = 1..(Len(p) + Len(z))
          /\ \A i \in 1..(Len(p) + Len(z)) : r[i] = IF i <= Len(p) THEN p[i] ELSE z[i - Len(p)]
      <3>1. r = p \o z /\ z \in Seq(Steps)
        BY <1>1, <2>1, <2>2
      <3> QED BY <3>1, Concat
    <2>4. ASSUME NEW i \in 1..(Len(p) + (Len(q) - 1))
          PROVE  r[i] = IF i <= Len(p) THEN p[i] ELSE q[(i - Len(p)) + 1]
      <3>1. i \in 1..(Len(p) + Len(z))
        BY <2>2, <2>3
      <3>2. i > Len(p) => i - Len(p) \in 1..(Len(q) - 1)
        BY <2>2, <2>3, <2>4
      <3>3. r[i] = IF i <= Len(p) THEN p[i] ELSE z[i - Len(p)]
        BY <2>3, <3>1
      <3>4. CASE i <= Len(p)
        BY <3>3, <3>4
      <3>5. CASE ~(i <= Len(p))
        <4>1. i > Len(p)
          BY <2>2, <2>3, <2>4, <3>5
        <4>2. z[i - Len(p)] = q[(i - Len(p)) + 1]
          BY <2>2, <3>2, <4>1
        <4> QED BY <3>3, <3>5, <4>2
      <3> QED BY <3>4, <3>5
    <2> QED BY <2>2, <2>3, <2>4
  <1>3. ASSUME NEW i \in DOMAIN r
        PROVE  /\ i > 1 => r[i].do \notin {"down", "tellClient"}
               /\ i < Len(r) => r[i].do # "release"
    <2>1. CASE i <= Len(p)
      <3>1. i \in DOMAIN p /\ r[i] = p[i]
        BY <1>2, <2>1
      <3>2. r[i] \in Middle
        BY <3>1
      <3> QED BY <3>2 DEF Middle
    <2>2. CASE ~(i <= Len(p))
      <3>1. PICK k : k = (i - Len(p)) + 1
        OBVIOUS
      <3>2. k \in DOMAIN q /\ k > 1 /\ r[i] = q[k] /\ (i < Len(r) => k < Len(q))
        BY <1>2, <2>2, <3>1
      <3> QED BY <3>2 DEF Placed
    <2> QED BY <2>1, <2>2
  <1> QED
    BY <1>1, <1>3 DEF Placed

\* Any step but these may come last.
LEMMA MiddleLast ==
  ASSUME NEW p \in Seq(Middle), NEW s \in Steps, s.do \notin {"down", "tellClient"}
  PROVE  Placed(p \o <<s>>)
  <1>1. PICK r : r = p \o <<s>>
    OBVIOUS
  <1>2. /\ Len(p) \in Nat /\ DOMAIN p = 1..Len(p)
        /\ Len(r) = Len(p) + 1 /\ DOMAIN r = 1..(Len(p) + 1)
        /\ r[Len(p) + 1] = s
        /\ \A i \in 1..Len(p) : r[i] = p[i]
    BY <1>1
  <1>3. ASSUME NEW i \in DOMAIN r
        PROVE  /\ i > 1 => r[i].do \notin {"down", "tellClient"}
               /\ i < Len(r) => r[i].do # "release"
    <2>1. CASE i <= Len(p)
      <3>1. i \in DOMAIN p /\ r[i] = p[i]
        BY <1>2, <2>1
      <3>2. r[i] \in Middle
        BY <3>1
      <3> QED BY <3>2 DEF Middle
    <2>2. CASE ~(i <= Len(p))
      <3>1. i = Len(p) + 1
        BY <1>2, <2>2
      <3> QED BY <1>2, <3>1
    <2> QED BY <2>1, <2>2
  <1> QED
    BY <1>1, <1>3 DEF Placed

\* Short agendas are in place.
LEMMA ShortPlaced ==
  /\ Placed(<<>>)
  /\ \A s : Placed(<<s>>)
  /\ \A s, r : s.do # "release" /\ r.do \notin {"down", "tellClient"} => Placed(<<s, r>>)
  <1>1. Placed(<<>>)
    BY DEF Placed
  <1>2. ASSUME NEW s PROVE Placed(<<s>>)
    <2>1. PICK q : q = <<s>>
      OBVIOUS
    <2>2. DOMAIN q = 1..1 /\ Len(q) = 1
      BY <2>1
    <2> QED BY <2>1, <2>2 DEF Placed
  <1>3. ASSUME NEW s, NEW r, s.do # "release", r.do \notin {"down", "tellClient"}
        PROVE  Placed(<<s, r>>)
    <2>1. PICK q : q = <<s, r>>
      OBVIOUS
    <2>2. DOMAIN q = 1..2 /\ Len(q) = 2 /\ q[1] = s /\ q[2] = r
      BY <2>1
    <2> QED BY <1>3, <2>1, <2>2 DEF Placed
  <1> QED
    BY <1>1, <1>2, <1>3

\* What this says of the steps that come later
LEMMA PlacedNow ==
  ASSUME TypeInv, InPlace, NEW t \in Threads, agenda[t] # <<>>
  PROVE  /\ \A s \in After(t) : s.do \notin {"down", "tellClient"}
         /\ Now(t).do = "release" => After(t) = {}
  <1>1. PICK q : q = agenda[t]
    OBVIOUS
  <1>2. PICK r : r = Tail(q)
    OBVIOUS
  <1>3. q \in Seq(Steps) /\ q # <<>> /\ Placed(q)
    BY <1>1 DEF TypeInv, TypeOK, InPlace
  <1>4. /\ Len(q) \in Nat /\ Len(q) > 0 /\ DOMAIN q = 1..Len(q)
        /\ DOMAIN r = 1..(Len(q) - 1) /\ \A i \in 1..(Len(q) - 1) : r[i] = q[i + 1]
        /\ Head(q) = q[1]
    BY <1>2, <1>3
  <1>5. \A i \in DOMAIN r : i + 1 \in DOMAIN q /\ i + 1 > 1 /\ r[i] = q[i + 1] /\ 1 < Len(q)
    BY <1>4
  <1>6. 1 \in DOMAIN q
    BY <1>4
  <1>7. \A i \in DOMAIN r : r[i].do \notin {"down", "tellClient"} /\ q[1].do # "release"
    BY <1>3, <1>5, <1>6 DEF Placed
  <1>8. After(t) = {r[i] : i \in DOMAIN r}
    BY <1>1, <1>2 DEF After, ToSet
  <1>9. Now(t) = q[1]
    BY <1>1, <1>4 DEF Now
  <1> QED
    BY <1>7, <1>8, <1>9

\* The steps that a single operation adds may come anywhere.
LEMMA MiddleSteps ==
  /\ <<>> \in Seq(Middle)
  /\ \A s \in Middle : <<s>> \in Seq(Middle)
  /\ \A what \in {"dropServer", "downServer", "dropClient", "downClient", "downClients", "advertise"},
        v \in Servers \cup {None}, xs \in SUBSET Xports : Do(what, v, xs) \in Middle
  <1>1. <<>> \in Seq(Middle) /\ \A s \in Middle : <<s>> \in Seq(Middle)
    OBVIOUS
  <1>2. \A what \in {"dropServer", "downServer", "dropClient", "downClient", "downClients",
                     "advertise"},
           v \in Servers \cup {None}, xs \in SUBSET Xports : Do(what, v, xs) \in Middle
    BY DEF Middle, Steps, Do
  <1> QED
    BY <1>1, <1>2

\* Threads keep their agendas so.
LEMMA WorkPlaced ==
  ASSUME Overlaps = {}, TypeInv, InPlace, NEW t \in Threads, Work(t)
  PROVE  InPlace'
  <1> DEFINE n == RouterOf(t)
             v == Now(t).of
             xs == Now(t).xs
             rel == Do("release", None, {})
  <1>1. agenda[t] # <<>>
    BY WorkNow
  <1>2. /\ xs \in SUBSET Xports /\ v \in Servers \cup {None}
        /\ agenda[t] \in Seq(Steps) /\ agenda \in [Threads -> Seq(Steps)]
        /\ Now(t).do \in {"register", "hello"} => Tail(agenda[t]) = <<>>
    BY <1>1, NowType DEF TypeInv, TypeOK
  <1>3. ASSUME NEW p, Go(t, p), Placed(p \o Tail(agenda[t]))
        PROVE  InPlace'
    <2>1. /\ agenda'[t] = p \o Tail(agenda[t])
          /\ \A u \in Threads : u # t => agenda'[u] = agenda[u]
      BY <1>2, <1>3 DEF Go
    <2> QED BY <1>3, <2>1 DEF InPlace
  <1>4. ASSUME NEW p \in Seq(Middle), Go(t, p) PROVE InPlace'
    <2>1. Placed(p \o Tail(agenda[t]))
      BY <1>1, <1>2, MiddleFirst DEF InPlace
    <2> QED BY <1>3, <1>4, <2>1
  <1>5. rel \in Steps /\ rel.do = "release"
    BY DEF Steps, Do
  <1>6. ASSUME NEW p \in Seq(Middle), Go(t, p \o <<rel>>), Now(t).do \in {"register", "hello"}
        PROVE  InPlace'
    <2>1. PICK r : r = p \o <<rel>>
      OBVIOUS
    <2>2. Placed(r)
      BY <1>5, <2>1, MiddleLast
    <2>3. r \in Seq(Steps)
      <3>1. p \in Seq(Steps)
        BY DEF Middle
      <3>2. <<rel>> \in Seq(Steps)
        BY <1>5
      <3> QED BY <2>1, <3>1, <3>2, Joined
    <2>4. r \o Tail(agenda[t]) = r
      <3>1. Tail(agenda[t]) = <<>>
        BY <1>2, <1>6
      <3>2. r \o <<>> = r
        BY <2>3
      <3> QED BY <3>1, <3>2
    <2> QED BY <1>3, <1>6, <2>1, <2>2, <2>4
  <1>7. /\ <<>> \in Seq(Middle) /\ <<Do("dropServer", v, {})>> \in Seq(Middle)
        /\ <<Do("dropClient", v, {})>> \in Seq(Middle)
    BY <1>2, MiddleSteps
  <1>8. CASE Write(t) \/ Release(t) \/ DropServer(t) \/ DropClient(t) \/ Advertise(t) \/ Flush(t)
             \/ CloseXport(t)
    BY <1>4, <1>7, <1>8 DEF Write, Release, DropServer, DropClient, Advertise, Flush, CloseXport
  <1>9. CASE Register(t)
    <2>1. \/ Go(t, <<>>)
          \/ Tell(t, Msg("NEW_SERVER", v), Reach(n, xs), <<rel>>)
      BY <1>9 DEF Register
    <2>2. CASE Go(t, <<rel>>)
      <3>1. <<>> \o <<rel>> = <<rel>>
        BY Pair
      <3>2. Now(t).do = "register"
        BY <1>9 DEF Register, Doing
      <3> HIDE DEF rel
      <3> QED BY <1>6, <1>7, <2>2, <3>1, <3>2
    <2> QED BY <1>4, <1>7, <2>1, <2>2, ToldAtOnce
  <1>10. CASE TellServer(t)
    <2>1. PICK p : /\ p \in {<<Do("dropServer", v, {})>>, <<>>}
                   /\ Tell(t, Msg("REMOVE_SERVER", v), Reach(n, xs), p)
      BY <1>10 DEF TellServer
    <2> QED BY <1>4, <1>7, <2>1, ToldAtOnce
  <1>11. CASE TellClient(t)
    <2>1. PICK p : /\ p \in {<<Do("dropClient", v, {})>>, <<>>}
                   /\ \/ Tell(t, Msg("REMOVE_CLIENT", v), Reach(n, xs), p)
                      \/ Go(t, p)
      BY <1>11 DEF TellClient
    <2> QED BY <1>4, <1>7, <2>1, ToldAtOnce
  <1>12. CASE RemoveClient(t)
    <2>1. PICK p : p \in {<<Do("dropServer", v, {})>>, <<>>} /\ Go(t, p)
      BY <1>12 DEF RemoveClient
    <2> QED BY <1>4, <1>7, <2>1
  <1>13. CASE XportUp(t)
    <2> DEFINE V == {w \in Servers : server[n][w] # None}
               list == ListOf("advertise", V, xs)
    <2>1. Go(t, list \o <<rel>>) /\ Now(t).do = "hello"
      BY <1>13 DEF XportUp, ListOf, Doing
    <2>2. list \in Seq(Middle)
      <3>1. V \in SUBSET Servers /\ \A w \in V : Do("advertise", w, xs) \in Middle
        BY <1>2, MiddleSteps
      <3> HIDE DEF V
      <3> QED BY <3>1, ListedIn
    <2> HIDE DEF list, rel
    <2> QED BY <1>6, <2>1, <2>2
  <1>14. CASE XportDown(t)
    <2> DEFINE V == {w \in Servers : server[n][w] \in xs}
               list == ListOf("downServer", V, xs)
               more == <<Do("downClients", None, xs)>>
    <2>1. Go(t, list \o more)
      BY <1>14 DEF XportDown, ListOf
    <2>2. list \in Seq(Middle)
      <3>1. V \in SUBSET Servers /\ \A w \in V : Do("downServer", w, xs) \in Middle
        BY <1>2, MiddleSteps
      <3> HIDE DEF V
      <3> QED BY <3>1, ListedIn
    <2>3. more \in Seq(Middle)
      BY <1>2, MiddleSteps
    <2> HIDE DEF list, more
    <2> QED BY <1>4, <2>1, <2>2, <2>3, Joined
  <1>15. CASE DownClients(t)
    <2> DEFINE V == {w \in Servers : client[n][w] \in xs}
    <2>1. Go(t, ListOf("downClient", V, xs))
      BY <1>15 DEF DownClients, ListOf
    <2>2. V \in SUBSET Servers /\ \A w \in V : Do("downClient", w, xs) \in Middle
      BY <1>2, MiddleSteps
    <2> HIDE DEF V
    <2> QED BY <1>4, <2>1, <2>2, ListedIn
  <1> QED
    BY <1>8, <1>9, <1>10, <1>11, <1>12, <1>13, <1>14, <1>15 DEF Work

\* What applications and workers begin, they begin with nothing else to do.
Begins == {"register", "hello", "tellServer", "tellClient", "removeClient", "dropServer", "down",
           "close", "flush"}

\* Operations that start a job, or a restart, leave every agenda in place.
LEMMA OtherPlaced ==
  ASSUME TypeInv, InPlace,
         \/ \E v \in Servers : RegServer(v) \/ DeregServer(v) \/ Close(v)
         \/ \E x \in Xports : StartXport(x) \/ StopXport(x) \/ Signalled(x)
         \/ \E n \in Routers : Restart(n)
  PROVE  InPlace'
  <1>1. agenda \in [Threads -> Seq(Steps)]
    BY DEF TypeInv, TypeOK
  <1>2. \A x \in Xports : x \in Threads /\ x[1] \in Threads
    BY Both DEF Threads
  <1>3. \A v \in Servers : HomeOf[v] \in Threads
    BY NamingAssumption DEF Threads
  <1>4. ASSUME NEW t \in Threads, NEW q, agenda' = [agenda EXCEPT ![t] = q], Placed(q)
        PROVE  InPlace'
    BY <1>1, <1>4 DEF InPlace
  <1>5. \A what, v, xs : Do(what, v, xs).do = what
    BY DEF Do
  <1>6. ASSUME NEW v \in Servers, RegServer(v) \/ DeregServer(v) \/ Close(v) PROVE InPlace'
    <2>1. PICK q : /\ agenda' = [agenda EXCEPT ![HomeOf[v]] = q]
                   /\ \/ q = <<Do("register", v, {})>> \/ q = <<Do("tellServer", v, {})>>
                      \/ q = <<Do("tellClient", v, {}), Do("removeClient", v, {})>>
      BY <1>6 DEF RegServer, DeregServer, Close, Begin
    <2>2. Placed(q)
      BY <1>5, <2>1, ShortPlaced
    <2> QED BY <1>3, <1>4, <2>1, <2>2
  <1>7. ASSUME NEW x \in Xports, StartXport(x) \/ StopXport(x) \/ Signalled(x) PROVE InPlace'
    <2>1. CASE StartXport(x) \/ Open(x)
      BY <2>1 DEF StartXport, Open, threads, InPlace
    <2>2. CASE StopXport(x)
      <3>1. agenda' = [agenda EXCEPT ![x[1]] = <<Do("down", None, {x}), Do("close", None, {x})>>]
        BY <2>2 DEF StopXport
      <3>2. Placed(<<Do("down", None, {x}), Do("close", None, {x})>>)
        BY <1>5, ShortPlaced
      <3> QED BY <1>2, <1>4, <3>1, <3>2
    <2>3. CASE RemoteClose(x)
      <3>1. PICK q : /\ agenda' = [agenda EXCEPT ![x] = q]
                     /\ \/ q = <<Do("down", None, {x})>> \o <<Do("flush", None, {x})>>
                        \/ q = <<>> \o <<Do("flush", None, {x})>>
        BY <2>3 DEF RemoteClose
      <3>2. \/ q = <<Do("down", None, {x}), Do("flush", None, {x})>>
            \/ q = <<Do("flush", None, {x})>>
        BY <3>1
      <3>3. Placed(q)
        BY <1>5, <3>2, ShortPlaced
      <3> QED BY <1>2, <1>4, <3>1, <3>3
    <2>4. CASE Receive(x)
      <3> DEFINE m == Head(net[There(x)])
      <3>1. m.kind \in {"HELLO", "BYE", "NEW_SERVER", "REMOVE_SERVER", "REMOVE_CLIENT"}
        BY <2>4, ReceiveTakes DEF Message
      <3>2. PICK q : /\ agenda' = [agenda EXCEPT ![x] = q]
                     /\ \/ \E s : q = <<s>>
                        \/ q = <<>>
                        \/ q = <<Do("dropServer", m.of, {x}), Do("tellServer", m.of, {x})>>
                        \/ q = <<Do("tellClient", m.of, {x}), Do("removeClient", m.of, {x})>>
        BY <2>4, <3>1 DEF Receive
      <3>3. Placed(q)
        BY <1>5, <3>2, ShortPlaced
      <3> QED BY <1>2, <1>4, <3>2, <3>3
    <2> QED BY <1>7, <2>1, <2>2, <2>3, <2>4 DEF Signalled
  <1>8. ASSUME NEW n \in Routers, Restart(n) PROVE InPlace'
    <2>1. \A t \in Threads : agenda'[t] = <<>> \/ agenda'[t] = agenda[t]
      BY <1>8 DEF Restart
    <2> QED BY <2>1, ShortPlaced DEF InPlace
  <1> QED
    BY <1>6, <1>7, <1>8

\* What applications and workers begin: a removal only when the semaphore is free.
LEMMA OtherBegins ==
  ASSUME Overlaps = {}, TypeInv,
         \/ \E v \in Servers : RegServer(v) \/ DeregServer(v) \/ Close(v)
         \/ \E x \in Xports : StartXport(x) \/ StopXport(x) \/ Signalled(x)
  PROVE  /\ protocolSem' = protocolSem
         /\ \A n \in Routers, v \in Servers : server'[n][v] = server[n][v] \/ protocolSem[n] = None
         /\ \/ agenda' = agenda
            \/ \E t \in Threads : \E S : /\ Starts(t, S) /\ RouterOf(t) \in Routers
                                         /\ \A s \in S : s.do \in Begins
                                         /\ \/ protocolSem[RouterOf(t)] = None
                                            \/ \A s \in S : s.do \in {"register", "hello"}
  <1> DEFINE Done(t) ==
        \E S : /\ Starts(t, S)
               /\ \A s \in S : s.do \in Begins
               /\ \/ protocolSem[RouterOf(t)] = None
                  \/ \A s \in S : s.do \in {"register", "hello"}
  <1>1. \A n : MayRemove(n) => protocolSem[n] = None
    BY DEF MayRemove
  <1>2. server \in [Routers -> [Servers -> Xports \cup {Local, None}]]
    BY DEF TypeInv, TypeOK
  <1>3. ASSUME NEW v \in Servers, RegServer(v) \/ DeregServer(v) \/ Close(v)
        PROVE  /\ protocolSem' = protocolSem
               /\ \A n \in Routers, w \in Servers : server'[n][w] = server[n][w] \/ protocolSem[n] = None
               /\ HomeOf[v] \in Threads /\ RouterOf(HomeOf[v]) = HomeOf[v] /\ HomeOf[v] \in Routers
               /\ Done(HomeOf[v])
    <2>1. HomeOf[v] \in Routers /\ HomeOf[v] \in Threads /\ RouterOf(HomeOf[v]) = HomeOf[v]
      BY NamingAssumption DEF Threads, RouterOf
    <2>2. protocolSem' = protocolSem
      BY <1>3 DEF RegServer, DeregServer, Close, Begin
    <2>3. DeregServer(v) \/ Close(v) => protocolSem[HomeOf[v]] = None
      BY <1>1 DEF DeregServer, Close
    <2>4. \A n \in Routers, w \in Servers : server'[n][w] = server[n][w] \/ protocolSem[n] = None
      <3>1. CASE RegServer(v) \/ Close(v)
        BY <3>1 DEF RegServer, Close, tables
      <3>2. CASE DeregServer(v)
        <4>1. server' = [server EXCEPT ![HomeOf[v]][v] = None]
          BY <3>2 DEF DeregServer
        <4> QED BY <1>2, <2>1, <2>3, <3>2, <4>1
      <3> QED BY <1>3, <3>1, <3>2
    <2>5. CASE RegServer(v)
      <3>1. PICK S : S = {Do("register", v, {})}
        OBVIOUS
      <3>2. Starts(HomeOf[v], S) /\ \A s \in S : s.do = "register"
        <4>1. Starts(HomeOf[v], S)
          BY <2>5, <3>1, ApplicationStarts
        <4>2. \A s \in S : s.do = "register"
          BY <3>1, DoFields
        <4> QED BY <4>1, <4>2
      <3> QED BY <2>1, <2>2, <2>4, <3>2 DEF Begins
    <2>6. CASE DeregServer(v)
      <3>1. PICK S : S = {Do("tellServer", v, {})}
        OBVIOUS
      <3>2. Starts(HomeOf[v], S) /\ \A s \in S : s.do = "tellServer"
        <4>1. Starts(HomeOf[v], S)
          BY <2>6, <3>1, ApplicationStarts
        <4>2. \A s \in S : s.do = "tellServer"
          BY <3>1, DoFields
        <4> QED BY <4>1, <4>2
      <3> QED BY <2>1, <2>2, <2>3, <2>4, <2>6, <3>2 DEF Begins
    <2>7. CASE Close(v)
      <3>1. PICK S : S = {Do("tellClient", v, {}), Do("removeClient", v, {})}
        OBVIOUS
      <3>2. Starts(HomeOf[v], S) /\ \A s \in S : s.do \in {"tellClient", "removeClient"}
        <4>1. Starts(HomeOf[v], S)
          BY <2>7, <3>1, ApplicationStarts
        <4>2. \A s \in S : s.do \in {"tellClient", "removeClient"}
          BY <3>1, DoFields
        <4> QED BY <4>1, <4>2
      <3> QED BY <2>1, <2>2, <2>3, <2>4, <2>7, <3>2 DEF Begins
    <2> QED BY <1>3, <2>5, <2>6, <2>7
  <1>4. ASSUME NEW x \in Xports, StartXport(x) \/ StopXport(x) \/ Signalled(x)
        PROVE  /\ protocolSem' = protocolSem /\ server' = server
               /\ x \in Threads /\ RouterOf(x) = x[1] /\ x[1] \in Threads /\ RouterOf(x[1]) = x[1]
               /\ x[1] \in Routers
               /\ agenda' = agenda \/ Done(x) \/ Done(x[1])
    <2>1. /\ x \in Threads /\ RouterOf(x) = x[1] /\ x[1] \in Threads /\ RouterOf(x[1]) = x[1]
          /\ x[1] \in Routers
      BY Both DEF Threads, RouterOf
    <2>2. protocolSem' = protocolSem /\ server' = server
      BY <1>4 DEF StartXport, StopXport, Signalled, Open, RemoteClose, Receive, threads, tables
    <2>3. CASE StartXport(x) \/ Open(x)
      BY <2>1, <2>2, <2>3, TransportStarts
    <2>4. CASE StopXport(x)
      <3>1. PICK S : S = {Do("down", None, {x}), Closes(x)}
        OBVIOUS
      <3>2. Starts(x[1], S) /\ \A s \in S : s.do \in {"down", "close"}
        <4>1. Starts(x[1], S)
          BY <2>4, <3>1, TransportStarts
        <4>2. \A s \in S : s.do \in {"down", "close"}
          BY <3>1, DoFields DEF Closes
        <4> QED BY <4>1, <4>2
      <3>3. protocolSem[x[1]] = None
        BY <1>1, <2>4 DEF StopXport
      <3> QED BY <2>1, <2>2, <3>2, <3>3 DEF Begins
    <2>5. CASE RemoteClose(x)
      <3>1. PICK S : S = {Do("flush", None, {x})} \cup (IF up[x] THEN {Do("down", None, {x})} ELSE {})
        OBVIOUS
      <3>2. Starts(x, S) /\ \A s \in S : s.do \in {"down", "flush"}
        <4>1. Starts(x, S)
          BY <2>5, <3>1, TransportStarts
        <4>2. \A s \in S : s.do \in {"down", "flush"}
          BY <3>1, DoFields
        <4> QED BY <4>1, <4>2
      <3>3. protocolSem[x[1]] = None
        BY <1>1, <2>5 DEF RemoteClose
      <3> QED BY <2>1, <2>2, <3>2, <3>3 DEF Begins
    <2>6. CASE Receive(x)
      <3>1. PICK m : m = Head(net[There(x)])
        OBVIOUS
      <3>2. Takes(x, m) /\ (m.kind \in {"HELLO", "NEW_SERVER"} \/ protocolSem[x[1]] = None)
        BY <1>1, <2>6, <3>1, ReceiveTakes DEF Receive
      <3>3. PICK S : /\ Starts(x, S)
                     /\ \A s \in S : s.do \in Begins
                     /\ m.kind \in {"HELLO", "NEW_SERVER"} =>
                          \A s \in S : s.do \in {"register", "hello"}
        <4>1. \A what, v, xs : Do(what, v, xs).do = what
          BY DoFields
        <4>2. CASE m.kind = "HELLO" /\ Starts(x, {Do("hello", None, {x})})
          BY <4>1, <4>2 DEF Begins
        <4>3. CASE m.kind = "BYE" /\ Starts(x, {Do("down", None, {x})})
          BY <4>1, <4>3 DEF Begins
        <4>4. CASE m.kind = "NEW_SERVER" /\ Starts(x, {Do("register", m.of, {x})})
          BY <4>1, <4>4 DEF Begins
        <4>5. CASE m.kind = "REMOVE_SERVER" /\ Starts(x, {})
          BY <4>5
        <4>6. CASE m.kind = "REMOVE_SERVER"
                   /\ Starts(x, {Do("dropServer", m.of, {x}), Do("tellServer", m.of, {x})})
          BY <4>1, <4>6 DEF Begins
        <4>7. CASE m.kind = "REMOVE_CLIENT"
                   /\ Starts(x, {Do("tellClient", m.of, {x}), Do("removeClient", m.of, {x})})
          BY <4>1, <4>7 DEF Begins
        <4> QED BY <3>2, <4>2, <4>3, <4>4, <4>5, <4>6, <4>7 DEF Takes
      <3> QED BY <2>1, <2>2, <3>2, <3>3
    <2> QED BY <1>4, <2>3, <2>4, <2>5, <2>6 DEF Signalled
  <1> QED
    BY <1>3, <1>4

-----------------------------------------------------------------------------
\* Nothing is written later than it is told, ...
NoWrites == \A t \in Threads : \A s \in Jobs(t) : s.do \notin Writes

\* ... who lists servers has the semaphore and gives it back, ...
Sem == \A t \in Threads : \A s \in Jobs(t) :
  s.do \in {"release", "advertise"} => protocolSem[RouterOf(t)] = t

\* ... and meanwhile no removal is under way and what is listed is known.
Removals == {"tellServer", "dropServer", "downServer", "tellClient", "dropClient", "downClient",
             "removeClient", "down", "downClients"}

\* A server is advertised while its entry is there and nothing is being removed.
Apart == \A t \in Threads : \A s \in Jobs(t) :
  s.do = "advertise" => /\ ~Removing(RouterOf(t))
                        /\ s.of \in Servers /\ server[RouterOf(t)][s.of] # None

\* The threads of a router work in turn.
InTurn == InPlace /\ NoWrites /\ Sem /\ Apart

\* A router removes something while one of its threads has such a job.
LEMMA RemovingJobs ==
  ASSUME NEW n
  PROVE  Removing(n) <=> \E t \in Threads : RouterOf(t) = n /\ \E s \in Jobs(t) : s.do \in Removals
  BY DEF Removing, Removals, Jobs, ToSet

\* Without overlaps no thread that works is left with a write of its own.
LEMMA WorkNoWrites ==
  ASSUME Overlaps = {}, TypeInv, NoWrites, NEW t \in Threads, Work(t)
  PROVE  NoWrites'
  <1> SUFFICES ASSUME NEW u \in Threads, NEW s \in Jobs(u)', s.do \in Writes PROVE FALSE
    BY DEF NoWrites
  <1> DEFINE v == Now(t).of
             n == RouterOf(t)
             xs == Now(t).xs
  <1>1. /\ agenda[t] # <<>> /\ Jobs(t) = {Now(t)} \cup After(t)
        /\ v \in Servers \cup {None}
    BY WorkNow
  <1>2. u = t /\ s \notin After(t)
    BY <1>1, WorkOthers DEF NoWrites, Others, Jobs
  <1>3. Made(t, s)
    BY <1>2, WorkMakes
  <1>4. Now(t).do \in {"register", "tellServer", "downServer", "tellClient", "downClient"}
    BY <1>3, DoFields DEF Made, Writes
  <1>5. \A what \in {"release", "dropServer", "dropClient"}, w \in {v, None} :
          <<Do(what, w, {})>> \in Seq(Plain)
    BY <1>1, PlainSteps
  <1>6. <<>> \in Seq(Plain)
    BY PlainSteps
  <1>7. ASSUME NEW steps \in Seq(Plain), Go(t, steps),
               \/ steps = <<>>
               \/ \E what \in {"release", "dropServer", "dropClient"} : \E w : steps = <<Do(what, w, {})>>
        PROVE  FALSE
    <2>1. Jobs(t)' = ToSet(steps) \cup After(t)
      BY <1>1, <1>7, GoJobs
    <2>2. s \in ToSet(steps)
      BY <1>2, <2>1
    <2> QED BY <1>7, <2>2, Elements, DoFields DEF Writes
  <1>8. CASE Register(t)
    <2>1. \/ Go(t, <<>>)
          \/ Tell(t, Msg("NEW_SERVER", v), Reach(n, xs), <<Do("release", None, {})>>)
      BY <1>8 DEF Register
    <2> QED BY <1>5, <1>6, <1>7, <2>1, ToldAtOnce
  <1>9. CASE TellServer(t)
    <2>1. PICK p : /\ p \in {<<Do("dropServer", v, {})>>, <<>>}
                   /\ Tell(t, Msg("REMOVE_SERVER", v), Reach(n, xs), p)
      BY <1>9 DEF TellServer
    <2> QED BY <1>5, <1>6, <1>7, <2>1, ToldAtOnce
  <1>10. CASE TellClient(t)
    <2>1. PICK p : /\ p \in {<<Do("dropClient", v, {})>>, <<>>}
                   /\ \/ Tell(t, Msg("REMOVE_CLIENT", v), Reach(n, xs), p)
                      \/ Go(t, p)
      BY <1>10 DEF TellClient
    <2> QED BY <1>5, <1>6, <1>7, <2>1, ToldAtOnce
  <1> QED
    BY <1>4, <1>8, <1>9, <1>10, WorkIs

\* A thread has a name and a router.
LEMMA SomeThread ==
  \A t \in Threads : t # None /\ RouterOf(t) \in Routers
  BY Both, NamingAssumption DEF Threads, RouterOf

\* A step takes the semaphore when it is free, gives it back, or leaves it.
LEMMA WorkSemaphore ==
  ASSUME TypeInv, NEW t \in Threads, Work(t), NEW n \in Routers
  PROVE  \/ protocolSem'[n] = protocolSem[n] /\ (n = RouterOf(t) => Now(t).do # "release")
         \/ n = RouterOf(t) /\ protocolSem[n] = None /\ protocolSem'[n] = t
         \/ n = RouterOf(t) /\ Now(t).do = "release"
  <1>1. protocolSem \in [Routers -> Threads \cup {None}] /\ RouterOf(t) \in Routers
    BY SomeThread DEF TypeInv, TypeOK
  <1>2. CASE Register(t)
    <2>1. /\ Now(t).do = "register"
          /\ \/ protocolSem' = protocolSem
             \/ /\ protocolSem[RouterOf(t)] = None
                /\ protocolSem' = [protocolSem EXCEPT ![RouterOf(t)] = t]
      BY <1>2 DEF Register, Doing
    <2> QED BY <1>1, <2>1
  <1>3. CASE XportUp(t)
    <2>1. /\ protocolSem[RouterOf(t)] = None
          /\ protocolSem' = [protocolSem EXCEPT ![RouterOf(t)] = t]
      BY <1>3 DEF XportUp
    <2> QED BY <1>1, <2>1
  <1>4. CASE Release(t)
    <2>1. protocolSem' = [protocolSem EXCEPT ![RouterOf(t)] = None] /\ Now(t).do = "release"
      BY <1>4 DEF Release, Doing
    <2> QED BY <1>1, <2>1
  <1>5. CASE ~(Register(t) \/ XportUp(t) \/ Release(t))
    <2>1. protocolSem' = protocolSem
      BY <1>5 DEF Work, Write, TellServer, DropServer, TellClient, DropClient, RemoveClient, Advertise,
             XportDown, DownClients, Flush, CloseXport
    <2>2. Now(t).do # "release"
      BY <1>5 DEF Work, Write, TellServer, DropServer, TellClient, DropClient, RemoveClient, Advertise,
             XportDown, DownClients, Flush, CloseXport, Doing
    <2> QED BY <2>1, <2>2
  <1> QED
    BY <1>2, <1>3, <1>4, <1>5

\* A thread that advertises or has yet to release holds the semaphore, after a step ...
LEMMA WorkSem ==
  ASSUME TypeInv, InTurn, NEW t \in Threads, Work(t)
  PROVE  Sem'
  <1> SUFFICES ASSUME NEW u \in Threads, NEW s \in Jobs(u)', s.do \in {"release", "advertise"}
               PROVE  protocolSem'[RouterOf(u)] = u
    BY DEF Sem
  <1> DEFINE n == RouterOf(t)
  <1>1. /\ Jobs(t) = {Now(t)} \cup After(t) /\ n \in Routers /\ RouterOf(u) \in Routers
        /\ u # None /\ t # None /\ agenda[t] # <<>>
    BY WorkNow, SomeThread
  <1>2. CASE s \in Jobs(u)
    <2>1. protocolSem[RouterOf(u)] = u
      BY <1>2 DEF InTurn, Sem
    <2>2. CASE RouterOf(u) = n /\ Now(t).do = "release"
      <3>1. protocolSem[n] = t
        BY <1>1, <2>2 DEF InTurn, Sem
      <3>2. u = t
        BY <2>1, <2>2, <3>1
      <3>3. After(t) = {}
        BY <1>1, <2>2, PlacedNow DEF InTurn
      <3>4. Release(t)
        <4>1. Release(t) \/ DownClients(t)
          BY <2>2, WorkIs
        <4> QED BY <2>2, <4>1 DEF DownClients, Doing
      <3>5. Jobs(t)' = After(t)
        BY <3>4, JobsDone
      <3> QED BY <3>2, <3>3, <3>5
    <2> QED BY <1>1, <2>1, <2>2, WorkSemaphore
  <1>3. CASE s \notin Jobs(u)
    <2>1. u = t /\ s \notin After(t)
      BY <1>1, <1>3, WorkOthers DEF Others, Jobs
    <2>2. Made(t, s)
      BY <2>1, WorkMakes
    <2>3. \/ Now(t).do = "hello"
          \/ Now(t).do = "register" /\ server[n][Now(t).of] = None
      BY <2>2, DoFields DEF Made
    <2>4. protocolSem' = [protocolSem EXCEPT ![n] = t]
      <3>1. CASE Now(t).do = "hello"
        <4>1. XportUp(t)
          BY <3>1, WorkIs
        <4> QED BY <4>1 DEF XportUp
      <3>2. CASE Now(t).do = "register" /\ server[n][Now(t).of] = None
        <4>1. Register(t)
          BY <3>2, WorkIs
        <4> QED BY <3>2, <4>1 DEF Register
      <3> QED BY <2>3, <3>1, <3>2
    <2>5. protocolSem \in [Routers -> Threads \cup {None}]
      BY DEF TypeInv, TypeOK
    <2> QED BY <1>1, <2>1, <2>4, <2>5
  <1> QED
    BY <1>2, <1>3

\* Who removes had begun to remove.
LEMMA WorkRemoving ==
  ASSUME TypeInv, NEW t \in Threads, Work(t), NEW n, Removing(n)'
  PROVE  Removing(n)
  <1>1. PICK u \in Threads : RouterOf(u) = n /\ \E s \in Jobs(u)' : s.do \in Removals
    BY DEF Removing, Removals, Jobs, ToSet
  <1>2. PICK s \in Jobs(u)' : s.do \in Removals
    BY <1>1
  <1>3. CASE s \in Jobs(u)
    BY <1>1, <1>2, <1>3, RemovingJobs
  <1>4. CASE s \notin Jobs(u)
    <2>1. Jobs(t) = {Now(t)} \cup After(t)
      BY WorkNow
    <2>2. u = t
      BY <1>4, WorkOthers DEF Others, Jobs
    <2>3. Made(t, s)
      BY <1>4, <2>1, <2>2, WorkMakes
    <2>4. Now(t).do \in {"downServer", "downClient", "removeClient", "down", "downClients"}
      BY <1>2, <2>3, DoFields DEF Made, Removals
    <2> QED BY <1>1, <2>1, <2>2, <2>4, RemovingJobs DEF Removals
  <1> QED
    BY <1>3, <1>4

\* ... and what it advertises is registered and not being removed.
LEMMA WorkApart ==
  ASSUME Overlaps = {}, TypeInv, InTurn, NEW t \in Threads, Work(t)
  PROVE  Apart'
  <1> SUFFICES ASSUME NEW u \in Threads, NEW s \in Jobs(u)', s.do = "advertise"
               PROVE  /\ ~Removing(RouterOf(u))'
                      /\ s.of \in Servers /\ server'[RouterOf(u)][s.of] # None
    BY DEF Apart, RouterOf
  <1>1. Jobs(t) = {Now(t)} \cup After(t) /\ RouterOf(u) \in Routers
    BY WorkNow, SomeThread
  <1>2. CASE s \in Jobs(u)
    <2>1. ~Removing(RouterOf(u)) /\ s.of \in Servers /\ server[RouterOf(u)][s.of] # None
      BY <1>2 DEF InTurn, Apart
    <2>2. ~(RouterOf(t) = RouterOf(u) /\ Now(t).do = "dropServer")
      BY <1>1, <2>1, RemovingJobs DEF Removals
    <2>3. server'[RouterOf(u)][s.of] # None
      BY <1>1, <2>1, <2>2, WorkServer, SourceKnown
    <2> QED BY <2>1, <2>3, WorkRemoving
  <1>3. CASE s \notin Jobs(u)
    <2>1. u = t /\ s \notin After(t)
      BY <1>1, <1>3, WorkOthers DEF Others, Jobs
    <2>2. Made(t, s)
      BY <2>1, WorkMakes
    <2>3. PICK w \in Servers : /\ server[RouterOf(t)][w] # None /\ s = Do("advertise", w, Now(t).xs)
                               /\ Now(t).do = "hello"
      BY <2>2, DoFields DEF Made
    <2>4. XportUp(t)
      BY <2>3, WorkIs
    <2>5. ~Removing(RouterOf(t)) /\ server' = server
      BY <2>4 DEF XportUp, tables
    <2> QED BY <2>1, <2>3, <2>5, DoFields, WorkRemoving
  <1> QED
    BY <1>2, <1>3

\* The operations that start a job keep threads in turn, ...
LEMMA OtherInTurn ==
  ASSUME Overlaps = {}, TypeInv, InTurn,
         \/ \E v \in Servers : RegServer(v) \/ DeregServer(v) \/ Close(v)
         \/ \E x \in Xports : StartXport(x) \/ StopXport(x) \/ Signalled(x)
  PROVE  InTurn'
  <1>1. InPlace'
    BY OtherPlaced DEF InTurn
  <1>2. /\ protocolSem' = protocolSem
        /\ \A n \in Routers, v \in Servers : server'[n][v] = server[n][v] \/ protocolSem[n] = None
    BY OtherBegins
  <1>3. PICK t, S : \/ agenda' = agenda
                    \/ /\ Starts(t, S) /\ RouterOf(t) \in Routers
                       /\ \A s \in S : s.do \in Begins
                       /\ \/ protocolSem[RouterOf(t)] = None
                          \/ \A s \in S : s.do \in {"register", "hello"}
    BY OtherBegins
  <1>4. ASSUME NEW u \in Threads
        PROVE  \/ Jobs(u)' = Jobs(u)
               \/ /\ u = t /\ Jobs(u)' = S /\ \A s \in S : s.do \in Begins
                  /\ \/ protocolSem[RouterOf(u)] = None
                     \/ \A s \in S : s.do \in {"register", "hello"}
    BY <1>3, StartsOnly DEF Jobs
  <1>5. \A u \in Threads : \A s \in Jobs(u)' : s \in Jobs(u) \/ s.do \in Begins
    BY <1>4
  <1>6. NoWrites'
    BY <1>5 DEF NoWrites, InTurn, Begins, Writes
  <1>7. Sem'
    BY <1>2, <1>5 DEF Sem, InTurn, Begins, RouterOf
  <1>8. ASSUME NEW n, protocolSem[n] # None, Removing(n)' PROVE Removing(n)
    <2>1. PICK u \in Threads : RouterOf(u) = n /\ \E s \in Jobs(u)' : s.do \in Removals
      BY <1>8 DEF Removing, Removals, Jobs, ToSet
    <2>2. Jobs(u)' = Jobs(u)
      BY <1>4, <1>8, <2>1 DEF Removals
    <2> QED BY <2>1, <2>2, RemovingJobs
  <1>9. Apart'
    <2> SUFFICES ASSUME NEW u \in Threads, NEW s \in Jobs(u)', s.do = "advertise"
                 PROVE  /\ ~Removing(RouterOf(u))'
                        /\ s.of \in Servers /\ server'[RouterOf(u)][s.of] # None
      BY DEF Apart, RouterOf
    <2>1. s \in Jobs(u)
      BY <1>5 DEF Begins
    <2>2. protocolSem[RouterOf(u)] = u /\ u # None /\ RouterOf(u) \in Routers
      BY <2>1, SomeThread DEF InTurn, Sem
    <2> QED BY <1>2, <1>8, <2>1, <2>2 DEF InTurn, Apart
  <1> QED
    BY <1>1, <1>6, <1>7, <1>9 DEF InTurn

\* ... and so does a restart.
LEMMA RestartInTurn ==
  ASSUME TypeInv, InTurn, NEW n \in Routers, Restart(n)
  PROVE  InTurn'
  <1>1. InPlace'
    BY OtherPlaced DEF InTurn
  <1>2. /\ \A u \in Threads : RouterOf(u) = n => Jobs(u)' = {}
        /\ \A u \in Threads : RouterOf(u) # n => Jobs(u)' = Jobs(u)
    BY RestartClears DEF Jobs
  <1>3. \A m \in Routers : m # n => protocolSem'[m] = protocolSem[m] /\ server'[m] = server[m]
    BY DEF Restart, TypeInv, TypeOK
  <1>4. NoWrites'
    BY <1>2 DEF NoWrites, InTurn
  <1>5. Sem'
    BY <1>2, <1>3, SomeThread DEF Sem, InTurn, RouterOf
  <1>6. ASSUME NEW m, Removing(m)' PROVE Removing(m)
    <2>1. PICK u \in Threads : RouterOf(u) = m /\ \E s \in Jobs(u)' : s.do \in Removals
      BY <1>6 DEF Removing, Removals, Jobs, ToSet
    <2>2. Jobs(u)' = Jobs(u)
      BY <1>2, <2>1
    <2> QED BY <2>1, <2>2, RemovingJobs
  <1>7. Apart'
    <2> SUFFICES ASSUME NEW u \in Threads, NEW s \in Jobs(u)', s.do = "advertise"
                 PROVE  /\ ~Removing(RouterOf(u))'
                        /\ s.of \in Servers /\ server'[RouterOf(u)][s.of] # None
      BY DEF Apart, RouterOf
    <2>1. RouterOf(u) # n /\ Jobs(u)' = Jobs(u) /\ RouterOf(u) \in Routers
      BY <1>2, SomeThread
    <2>2. server'[RouterOf(u)] = server[RouterOf(u)]
      BY <1>3, <2>1
    <2> QED BY <1>6, <2>1, <2>2 DEF InTurn, Apart
  <1> QED
    BY <1>1, <1>4, <1>5, <1>7 DEF InTurn

\* No step of the routers changes that.
LEMMA InTurnKept ==
  ASSUME Overlaps = {}, TypeInv, InTurn, [Next]_vars
  PROVE  InTurn'
  <1>1. ASSUME NEW t \in Threads, Work(t) PROVE InTurn'
    BY <1>1, WorkPlaced, WorkNoWrites, WorkSem, WorkApart DEF InTurn
  <1>2. CASE \/ \E v \in Servers : RegServer(v) \/ DeregServer(v) \/ Close(v)
             \/ \E x \in Xports : StartXport(x) \/ StopXport(x) \/ Signalled(x)
    BY <1>2, OtherInTurn
  <1>3. ASSUME NEW n \in Routers, Restart(n) PROVE InTurn'
    BY <1>3, RestartInTurn
  <1>4. CASE UNCHANGED vars
    <2>1. agenda' = agenda /\ protocolSem' = protocolSem /\ server' = server
      BY <1>4 DEF vars, threads, tables
    <2>2. \A u : Jobs(u)' = Jobs(u)
      BY <2>1 DEF Jobs
    <2>3. \A n : Removing(n)' <=> Removing(n)
      BY <2>1 DEF Removing
    <2> QED BY <2>1, <2>2, <2>3 DEF InTurn, InPlace, NoWrites, Sem, Apart, RouterOf
  <1> QED
    BY <1>1, <1>2, <1>3, <1>4 DEF Next

-----------------------------------------------------------------------------
(***************************************************************************)
(* What a link carries                                                     *)
(***************************************************************************)

\* A queue has a message of a kind.
Has(q, kind) == \E m \in ToSet(q) : m.kind = kind

\* Announcements come after a greeting.
Ahead(q) == \A i \in DOMAIN q : q[i].kind = "NEW_SERVER" =>
              \E j \in DOMAIN q : j < i /\ q[j].kind = "HELLO"

\* BYE comes last.
LastBye(q) == \A i \in DOMAIN q : q[i].kind = "BYE" => i = Len(q)

\* An empty channel has no message out of place.
LEMMA NoMessage ==
  /\ \A kind : ~Has(<<>>, kind)
  /\ Ahead(<<>>) /\ LastBye(<<>>)
  <1>1. \A kind : ~Has(<<>>, kind)
    BY Elements DEF Has
  <1>2. DOMAIN <<>> = {}
    OBVIOUS
  <1> QED
    BY <1>1, <1>2 DEF Ahead, LastBye

\* HELLO is ahead where no server is announced.
LEMMA NotAnnounced ==
  ASSUME NEW q, ~Has(q, "NEW_SERVER")
  PROVE  Ahead(q)
  BY DEF Has, Ahead, ToSet

\* One more message
LEMMA KindsMore ==
  ASSUME NEW q \in Seq(Message), NEW m \in Message
  PROVE  /\ \A kind : Has(Append(q, m), kind) <=> Has(q, kind) \/ m.kind = kind
         /\ LastBye(q) /\ ~Has(q, "BYE") => LastBye(Append(q, m))
         /\ Ahead(q) /\ (m.kind = "NEW_SERVER" => Has(q, "HELLO")) => Ahead(Append(q, m))
  <1>1. PICK r : r = Append(q, m)
    OBVIOUS
  <1>2. /\ Len(q) \in Nat /\ DOMAIN q = 1..Len(q) /\ DOMAIN r = 1..(Len(q) + 1)
        /\ Len(r) = Len(q) + 1
        /\ \A i \in 1..Len(q) : r[i] = q[i]
        /\ r[Len(q) + 1] = m
    BY <1>1
  <1>3. ToSet(r) = ToSet(q) \cup {m}
    BY <1>1, ElementsMore
  <1>4. \A kind : Has(r, kind) <=> Has(q, kind) \/ m.kind = kind
    BY <1>3 DEF Has
  <1>5. ASSUME ~Has(q, "BYE") PROVE LastBye(r)
    <2> SUFFICES ASSUME NEW i \in DOMAIN r, r[i].kind = "BYE" PROVE i = Len(r)
      BY DEF LastBye
    <2>1. i \in DOMAIN q \/ i = Len(q) + 1
      BY <1>2
    <2>2. i \in DOMAIN q => r[i] = q[i] /\ q[i] \in ToSet(q)
      BY <1>2 DEF ToSet
    <2> QED BY <1>2, <1>5, <2>1, <2>2 DEF Has
  <1>6. ASSUME Ahead(q), m.kind = "NEW_SERVER" => Has(q, "HELLO") PROVE Ahead(r)
    <2> SUFFICES ASSUME NEW i \in DOMAIN r, r[i].kind = "NEW_SERVER"
                 PROVE  \E j \in DOMAIN r : j < i /\ r[j].kind = "HELLO"
      BY DEF Ahead
    <2>1. CASE i \in DOMAIN q
      <3>1. PICK j \in DOMAIN q : j < i /\ q[j].kind = "HELLO"
        BY <1>2, <1>6, <2>1 DEF Ahead
      <3>2. j \in DOMAIN r /\ r[j] = q[j]
        BY <1>2
      <3> QED BY <3>1, <3>2
    <2>2. CASE i \notin DOMAIN q
      <3>1. i = Len(q) + 1
        BY <1>2, <2>2
      <3>2. PICK j \in DOMAIN q : q[j].kind = "HELLO"
        BY <1>2, <1>6, <3>1 DEF Has, ToSet
      <3>3. j \in DOMAIN r /\ r[j] = q[j] /\ j < i
        BY <1>2, <3>1
      <3> QED BY <3>2, <3>3
    <2> QED BY <2>1, <2>2
  <1> QED
    BY <1>1, <1>4, <1>5, <1>6

\* One message less
LEMMA KindsLess ==
  ASSUME NEW q \in Seq(Message), q # <<>>
  PROVE  /\ \A kind : Has(q, kind) <=> Has(Tail(q), kind) \/ Head(q).kind = kind
         /\ LastBye(q) => LastBye(Tail(q)) /\ (Head(q).kind = "BYE" => Tail(q) = <<>>)
         /\ Ahead(q) => /\ Head(q).kind # "NEW_SERVER"
                        /\ Head(q).kind # "HELLO" => Ahead(Tail(q))
  <1>1. PICK r : r = Tail(q)
    OBVIOUS
  <1>2. /\ Len(q) \in Nat /\ Len(q) > 0 /\ DOMAIN q = 1..Len(q) /\ DOMAIN r = 1..(Len(q) - 1)
        /\ \A i \in 1..(Len(q) - 1) : r[i] = q[i + 1]
        /\ Head(q) = q[1] /\ Len(r) = Len(q) - 1 /\ r \in Seq(Message)
    BY <1>1
  <1>3. \A j \in DOMAIN r : /\ j \in Nat /\ j + 1 \in DOMAIN q /\ j + 1 > 1 /\ r[j] = q[j + 1]
                            /\ j + 1 = Len(q) => j = Len(r)
    BY <1>2
  <1>4. ToSet(q) = {Head(q)} \cup ToSet(r)
    BY <1>1, ElementsHead
  <1>5. \A kind : Has(q, kind) <=> Has(r, kind) \/ Head(q).kind = kind
    BY <1>4 DEF Has
  <1>6. ASSUME LastBye(q) PROVE LastBye(r)
    BY <1>3, <1>6 DEF LastBye
  <1>7. ASSUME LastBye(q), Head(q).kind = "BYE" PROVE r = <<>>
    <2>1. Len(q) = 1
      BY <1>2, <1>7 DEF LastBye
    <2>2. Len(r) = 0
      BY <1>2, <2>1
    <2> QED BY <1>2, <2>2, EmptySeq
  <1>8. ASSUME Ahead(q) PROVE Head(q).kind # "NEW_SERVER"
    <2>1. 1 \in DOMAIN q /\ ~\E j \in DOMAIN q : j < 1
      BY <1>2
    <2> QED BY <1>2, <1>8, <2>1 DEF Ahead
  <1>9. ASSUME Ahead(q), Head(q).kind # "HELLO" PROVE Ahead(r)
    <2> SUFFICES ASSUME NEW i \in DOMAIN r, r[i].kind = "NEW_SERVER"
                 PROVE  \E j \in DOMAIN r : j < i /\ r[j].kind = "HELLO"
      BY DEF Ahead
    <2>1. PICK j \in DOMAIN q : j < i + 1 /\ q[j].kind = "HELLO"
      BY <1>3, <1>9 DEF Ahead
    <2>2. j # 1
      BY <1>2, <1>9, <2>1
    <2>3. PICK k \in DOMAIN r : k + 1 = j
      <3>1. j - 1 \in DOMAIN r /\ (j - 1) + 1 = j
        BY <1>2, <2>2
      <3> QED BY <3>1
    <2>4. k < i /\ r[k] = q[j]
      BY <1>2, <1>3, <2>1, <2>3
    <2> QED BY <2>1, <2>4
  <1> QED
    BY <1>1, <1>5, <1>6, <1>7, <1>8, <1>9

-----------------------------------------------------------------------------
(***************************************************************************)
(* Greetings                                                               *)
(***************************************************************************)

\* A transport that is closed is not up any more.
Closed(x) == Closing(x) => ~up[x]

\* One that is up was greeted.
Greeted(x) == up[x] => helloSent[x]

\* A worker takes down what is lost or what the other end closes.
Leaves(x) == \E s \in Jobs(x) : s.do = "down"

\* The transport leaves the router when it is lost or the other end has said BYE.
Farewell(x) == Leaves(x) =>
  \/ st[x] = "lost"
  \/ st[x] = "open" /\ Closing(There(x)) /\ ~Has(net[There(x)], "NEW_SERVER")

\* A channel that waits for the other end carries HELLO, ...
Waiting(x) == st[x] = "opening" \/ (st[x] = "open" /\ st[There(x)] # "open") => Has(net[x], "HELLO")

\* one that carries announcements is open, ...
Announces(x) == Has(net[x], "NEW_SERVER") =>
  st[x] = "lost" \/ (st[x] = "open" /\ st[There(x)] = "open")

\* HELLO is under way or has come, as long as nobody closes the channel, ...
Awaited(x) == helloSent[x] /\ st[x] \in {"opening", "open"} =>
  Has(net[x], "HELLO") \/ Greets(There(x)) \/ up[There(x)] \/ Closing(x) \/ Closing(There(x))

\* and comes before announcements.
Before(x) == Ahead(net[x]) \/ up[There(x)] \/ Greets(There(x))
             \/ st[x] = "lost" \/ st[There(x)] = "lost" \/ Closing(There(x))

\* What the two ends of a link have done and what is on its way agree, ...
Wire(x) == /\ Closed(x) /\ Greeted(x) /\ Farewell(x) /\ Waiting(x) /\ Announces(x)
           /\ LastBye(net[x]) /\ Awaited(x) /\ Before(x)

\* ... on every link.
Wires == \A x \in Xports : Wire(x)

\* Where nothing changes at the two ends
LEMMA SameWire ==
  ASSUME NEW x \in Xports, Wire(x),
         \A z \in {x, There(x)} : /\ up'[z] = up[z] /\ helloSent'[z] = helloSent[z] /\ st'[z] = st[z]
                                  /\ net'[z] = net[z] /\ Jobs(z)' = Jobs(z)
                                  /\ Closing(z)' <=> Closing(z)
  PROVE  Wire(x)'
  <1> DEFINE y == There(x)
  <1>1. /\ up'[x] = up[x] /\ helloSent'[x] = helloSent[x] /\ st'[x] = st[x]
        /\ net'[x] = net[x] /\ Jobs(x)' = Jobs(x) /\ (Closing(x)' <=> Closing(x))
    OBVIOUS
  <1>2. /\ up'[y] = up[y] /\ st'[y] = st[y]
        /\ net'[y] = net[y] /\ Jobs(y)' = Jobs(y) /\ (Closing(y)' <=> Closing(y))
    OBVIOUS
  <1>3. /\ Greets(y)' <=> Greets(y)
        /\ (Leaves(x)' <=> Leaves(x)) /\ There(x)' = y
        /\ \A kind : Has(net[x], kind)' <=> Has(net[x], kind)
        /\ \A kind : Has(net[y], kind)' <=> Has(net[y], kind)
        /\ Ahead(net[x])' <=> Ahead(net[x])
        /\ LastBye(net[x])' <=> LastBye(net[x])
    BY <1>1, <1>2 DEF Greets, Leaves, There, Has, Ahead, LastBye
  <1> QED
    BY <1>1, <1>2, <1>3 DEF Wire, Closed, Greeted, Farewell, Waiting, Announces, Awaited, Before

\* An end of a link is closed, flushed or restarted: the other end is lost, if it was open.
Over(e) ==
  LET o == There(e)
  IN /\ net'[e] = <<>> /\ ~up'[e] /\ Jobs(e)' = {} /\ ~Closing(e)'
     /\ st'[e] \in {"closed", "paused"}
     /\ st'[e] = "paused" => st[e] = "lost" /\ ~Closing(e)
     /\ st'[o] = IF st[o] = "open" /\ st'[e] = "closed" THEN "lost" ELSE st[o]
     /\ net'[o] = net[o] /\ up'[o] = up[o] /\ helloSent'[o] = helloSent[o] /\ Jobs(o)' = Jobs(o)
     /\ Closing(o)' <=> Closing(o)

\* A link that is over is consistent at both ends.
LEMMA OverWire ==
  ASSUME NEW e \in Xports, Over(e), Wire(There(e))
  PROVE  Wire(e)' /\ Wire(There(e))'
  <1> DEFINE o == There(e)
  <1>1. There(o) = e /\ o \in Xports
    BY Both
  <1>2. There(e)' = o /\ There(o)' = e
    BY <1>1 DEF There
  <1>3. Wire(e)'
    <2>1. (\A kind : ~Has(net[e], kind)') /\ Ahead(net[e])' /\ LastBye(net[e])'
      BY NoMessage DEF Over, Has, Ahead, LastBye
    <2> QED BY <1>2, <2>1 DEF Over, Wire, Closed, Greeted, Farewell, Leaves, Waiting, Announces,
               Awaited, Before
  <1>4. Wire(o)'
    <2>1. /\ \A kind : Has(net[o], kind)' <=> Has(net[o], kind)
          /\ Ahead(net[o])' <=> Ahead(net[o])
          /\ LastBye(net[o])' <=> LastBye(net[o])
      BY DEF Over, Has, Ahead, LastBye
    <2>2. ~Has(net[o], "NEW_SERVER") => Ahead(net[o])
      BY NotAnnounced
    <2>3. Closed(o)' /\ Greeted(o)' /\ LastBye(net[o])'
      BY <2>1 DEF Over, Wire, Closed, Greeted
    <2>4. Farewell(o)'
      BY <1>1, <1>2, <2>1 DEF Over, Wire, Farewell, Leaves
    <2>5. Waiting(o)'
      BY <1>1, <1>2, <2>1 DEF Over, Wire, Waiting
    <2>6. Announces(o)'
      BY <1>1, <1>2, <2>1 DEF Over, Wire, Announces
    <2>7. Awaited(o)'
      BY <1>1, <1>2, <2>5 DEF Over, Waiting, Awaited
    <2>8. Before(o)'
      BY <1>1, <1>2, <2>1, <2>2, <2>6 DEF Over, Announces, Before
    <2> QED BY <2>3, <2>4, <2>5, <2>6, <2>7, <2>8 DEF Wire
  <1> QED
    BY <1>3, <1>4

\* The ends of a link are two.
LEMMA OtherEnd ==
  \A x \in Xports : /\ There(x) \in Xports /\ There(There(x)) = x /\ There(x) # x
                    /\ There(x)[1] = x[2] /\ x[1] # x[2]
                    /\ x \in Threads /\ x[1] \in Threads /\ x[2] \in Threads
                    /\ x[1] \in Routers /\ x[2] \in Routers
                    /\ x \notin Routers
                    /\ RouterOf(x) = x[1] /\ RouterOf(x[1]) = x[1]
  <1> SUFFICES ASSUME NEW x \in Xports
               PROVE  /\ There(x) \in Xports /\ There(There(x)) = x /\ There(x) # x
                      /\ There(x)[1] = x[2] /\ x[1] # x[2]
                      /\ x \in Threads /\ x[1] \in Threads /\ x[2] \in Threads
                      /\ x[1] \in Routers /\ x[2] \in Routers
                      /\ x \notin Routers
                      /\ RouterOf(x) = x[1] /\ RouterOf(x[1]) = x[1]
    OBVIOUS
  <1>1. /\ There(x) \in Xports /\ There(There(x)) = x
        /\ There(x)[1] = x[2] /\ x \in Threads /\ RouterOf(x) = x[1]
        /\ x[1] \in Routers /\ There(x)[1] \in Routers
    BY Both
  <1>2. x[1] # x[2] /\ x \notin Routers
    BY NamingAssumption
  <1>3. \A n \in Routers : n \in Threads /\ RouterOf(n) = n
    BY DEF Threads, RouterOf
  <1> QED
    BY <1>1, <1>2, <1>3

\* What a thread does to the flag helloSent of a transport
LEMMA WorkGreeting ==
  ASSUME NEW side, TypeInv, Ordered, Sided(side), Links, NEW t \in Threads, Work(t), NEW x \in Xports
  PROVE  \/ /\ Now(t).do = "hello" /\ x = t /\ helloSent'[x] /\ up'[x]
            /\ net'[x] = IF helloSent[x] THEN net[x] ELSE Append(net[x], Msg("HELLO", None))
         \/ Now(t).do = "down" /\ x = From(t) /\ ~helloSent'[x] /\ ~up'[x]
         \/ /\ helloSent'[x] = helloSent[x] /\ ~(Now(t).do = "hello" /\ x = t)
            /\ up'[x] = up[x]
  <1>1. /\ helloSent \in [Xports -> BOOLEAN] /\ up \in [Xports -> BOOLEAN]
        /\ net \in [Xports -> Seq(Message)]
    BY DEF TypeInv, TypeOK
  <1>2. CASE Now(t).do = "hello"
    <2>1. /\ up' = [up EXCEPT ![t] = TRUE]
          /\ helloSent' = [helloSent EXCEPT ![t] = TRUE]
          /\ Send(IF helloSent[t] THEN {} ELSE {t}, Msg("HELLO", None))
      BY <1>2, WorkIs DEF XportUp
    <2> QED BY <1>1, <1>2, <2>1 DEF Send
  <1>3. CASE Now(t).do = "down"
    <2>1. /\ up' = [up EXCEPT ![From(t)] = FALSE]
          /\ helloSent' = [helloSent EXCEPT ![From(t)] = FALSE]
      BY <1>3, WorkIs DEF XportDown
    <2> QED BY <1>1, <1>3, <2>1
  <1>4. CASE Now(t).do \notin {"hello", "down"}
    <2>1. helloSent' = helloSent /\ up' = up
      BY <1>4 DEF Work, Write, Register, Release, TellServer, DropServer, TellClient, DropClient,
             RemoveClient, XportUp, Advertise, XportDown, DownClients, Flush, CloseXport, Doing,
             links
    <2> QED BY <1>4, <2>1
  <1> QED
    BY <1>2, <1>3, <1>4

\* A step that ends a transport
EndsNow(t, e) == (Now(t).do = "flush" /\ e = t) \/ (Now(t).do = "close" /\ e \in Now(t).xs)

\* A thread that ends a transport leaves the link over.
LEMMA WorkOver ==
  ASSUME NEW side, TypeInv, Ordered, Sided(side), Links, NEW t \in Threads, Work(t),
         NEW e \in Xports, EndsNow(t, e)
  PROVE  Over(e)
  <1> DEFINE o == There(e)
  <1>1. /\ o \in Xports /\ There(o) = e /\ o # e /\ e[1] \in Routers /\ e \notin Routers
        /\ o[1] # e[1] /\ o[1] \in Routers /\ e \in Threads /\ o \in Threads
        /\ e[1] \in Threads /\ o[1] \in Threads /\ o \notin Routers
    BY OtherEnd
  <1>2. Others(t)
    BY WorkOthers
  <1>3. /\ helloSent'[o] = helloSent[o] /\ up'[o] = up[o] /\ up'[e] = up[e]
    BY <1>1, WorkGreeting DEF EndsNow
  <1>4. net \in [Xports -> Seq(Message)] /\ st \in [Xports -> {"closed", "opening", "open", "lost", "paused"}]
    BY DEF TypeInv, TypeOK
  <1>5. CASE Now(t).do = "flush"
    <2>1. Flush(t) /\ e = t
      BY <1>5, WorkIs DEF EndsNow
    <2>2. /\ After(t) = {} /\ st[t] = "lost" /\ ~up[t] /\ agenda[t] # <<>>
      BY <1>5, WhoseStep, WorkNow
    <2>3. net'[e] = <<>> /\ net'[o] = net[o] /\ st'[e] = "paused" /\ st'[o] = st[o]
      BY <1>1, <1>4, <2>1 DEF Flush
    <2>4. Jobs(e)' = {}
      BY <2>1, <2>2, JobsDone
    <2>5. Jobs(e[1])' = Jobs(e[1]) /\ Jobs(o)' = Jobs(o) /\ Jobs(o[1])' = Jobs(o[1])
      BY <1>1, <1>2, <2>1 DEF Others, Jobs
    <2>6. ~Closing(e)
      BY <1>1, <2>1, <2>2, ClosingFalls DEF Falls
    <2>7. ~Closing(e)' /\ (Closing(o)' <=> Closing(o))
      BY <2>5, <2>6 DEF Closing, Closes
    <2> QED BY <1>3, <2>1, <2>2, <2>3, <2>4, <2>5, <2>6, <2>7 DEF Over
  <1>6. CASE Now(t).do = "close"
    <2>1. CloseXport(t)
      BY <1>6, WorkIs
    <2>2. /\ Now(t).xs = {e} /\ e[1] = t /\ After(t) = {} /\ Jobs(e) = {} /\ ~up[e] /\ e # t
      BY <1>6, WhoseStep DEF EndsNow
    <2>3. net'[e] = <<>> /\ net'[o] = net[o] /\ st'[e] = "closed"
          /\ st'[o] = IF st[o] = "open" THEN "lost" ELSE st[o]
      BY <1>1, <1>4, <2>1, <2>2 DEF CloseXport, CloseAll
    <2>4. Jobs(t)' = {}
      BY <2>1, <2>2, JobsDone
    <2>5. Jobs(e)' = {} /\ Jobs(o)' = Jobs(o) /\ Jobs(o[1])' = Jobs(o[1])
      BY <1>1, <1>2, <2>2 DEF Others, Jobs
    <2>6. ~Closing(e)' /\ (Closing(o)' <=> Closing(o))
      BY <2>2, <2>4, <2>5 DEF Closing, Closes
    <2> QED BY <1>3, <2>2, <2>3, <2>5, <2>6 DEF Over
  <1> QED
    BY <1>5, <1>6 DEF EndsNow

\* What is sent is sent by who may: HELLO by the worker, the rest on transports that are up.
LEMMA SentOn ==
  ASSUME NEW side, TypeInv, Ordered, Sided(side), Links, InTurn, NEW t \in Threads, Work(t),
         NEW x \in Xports, Closed(x), NEW m, net'[x] = Append(net[x], m), Sent(t, x, m),
         ~(m.kind = "NEW_SERVER" /\ Now(t).do = "advertise" /\ ~up[x])
  PROVE  /\ ~Closing(x)
         /\ \/ m.kind = "HELLO" /\ x = t /\ Now(t).do = "hello"
            \/ m.kind \notin {"HELLO", "BYE"} /\ up[x] /\ m.kind \in Writes
  <1>1. Now(t).do \notin Writes
    <2>1. Now(t) \in Jobs(t)
      BY WorkNow
    <2> QED BY <2>1 DEF InTurn, NoWrites
  <1>2. CASE Now(t).do = "hello"
    <2>1. m = Msg("HELLO", None) /\ x = t
      BY <1>1, <1>2 DEF Sent
    <2> QED BY <1>2, <2>1, WhoseStep DEF Msg
  <1>3. CASE Now(t).do = "advertise"
    BY <1>1, <1>3 DEF Sent, Msg, Writes, Closed
  <1>4. CASE Now(t).do \notin {"hello", "advertise"}
    BY <1>1, <1>4 DEF Sent, Msg, Writes, Closed, Reach
  <1> QED
    BY <1>2, <1>3, <1>4

\* Advertising on a transport that is down sends nothing.
LEMMA AdvertiseUp ==
  ASSUME TypeInv, NEW t \in Threads, Work(t), Now(t).do = "advertise", NEW x \in Xports, ~up[x]
  PROVE  net'[x] = net[x]
  <1>1. PICK ys, m : ys \in {{}, {t}} /\ (t \in ys => up[t]) /\ Send(ys, m)
    BY WorkIs DEF Advertise
  <1> QED
    BY <1>1 DEF Send

\* What a step of a thread does to a transport that it does not end
Carry(t, x) ==
  /\ \/ net'[x] = net[x]
     \/ \E m \in Message : /\ net'[x] = Append(net[x], m) /\ ~Closing(x)
                           /\ \/ m.kind = "HELLO" /\ x = t /\ Now(t).do = "hello"
                              \/ m.kind \notin {"HELLO", "BYE"} /\ up[x]
  /\ st'[x] = st[x]
  /\ Closing(x)' <=> Closing(x)
  /\ Leaves(x)' => Leaves(x)
  /\ Greets(x) => Greets(x)' \/ up'[x]
  /\ \/ /\ Now(t).do = "hello" /\ x = t /\ helloSent'[x] /\ up'[x] /\ ~Closing(x)
        /\ net'[x] = IF helloSent[x] THEN net[x] ELSE Append(net[x], Msg("HELLO", None))
     \/ ~helloSent'[x] /\ ~up'[x] /\ (Leaves(x) \/ Closing(x))
     \/ helloSent'[x] = helloSent[x] /\ up'[x] = up[x]

\* A step that ends neither end carries at most a message over the link.
LEMMA WorkCarry ==
  ASSUME NEW side, Ways(side), TypeInv, Away(side), Ordered, Sided(side), Links, InTurn,
         NEW t \in Threads, Work(t), NEW x \in Xports, Closed(x),
         ~EndsNow(t, x), ~EndsNow(t, There(x))
  PROVE  Carry(t, x)
  <1>1. /\ There(x) \in Xports /\ x[1] \in Threads /\ x \in Threads /\ RouterOf(x[1]) = x[1]
        /\ x[1] \in Routers /\ x \notin Routers
    BY OtherEnd
  <1>2. /\ Jobs(t) = {Now(t)} \cup After(t)
    BY WorkNow
  <1>3. \/ net'[x] = net[x]
        \/ \E m \in Message : /\ net'[x] = Append(net[x], m) /\ ~Closing(x)
                              /\ \/ m.kind = "HELLO" /\ x = t /\ Now(t).do = "hello"
                                 \/ m.kind \notin {"HELLO", "BYE"} /\ up[x]
    <2> SUFFICES ASSUME net'[x] # net[x]
                 PROVE  \E m \in Message : /\ net'[x] = Append(net[x], m) /\ ~Closing(x)
                                           /\ \/ m.kind = "HELLO" /\ x = t /\ Now(t).do = "hello"
                                              \/ m.kind \notin {"HELLO", "BYE"} /\ up[x]
      OBVIOUS
    <2>1. PICK m : net'[x] = Append(net[x], m) /\ Sent(t, x, m)
      BY WorkNet DEF EndsNow
    <2>2. m \in Message
      BY <2>1, WorkSends
    <2>3. ~(Now(t).do = "advertise" /\ ~up[x])
      BY AdvertiseUp
    <2> QED BY <2>1, <2>2, <2>3, SentOn
  <1>4. st'[x] = st[x]
    BY <1>1, WorkUp DEF EndsNow
  <1>5. ASSUME NEW u \in Threads, NEW s \in Jobs(u)', s.do \in {"hello", "close", "down"}
        PROVE  s \in Jobs(u)
    <2>1. CASE u = t
      BY <1>2, <1>5, <2>1, WorkMakes, NeverMade
    <2>2. CASE u # t
      BY <1>5, <2>2, WorkOthers DEF Others, Jobs
    <2> QED BY <2>1, <2>2
  <1>6. Closing(x)' <=> Closing(x)
    <2>1. Closing(x)' => Closing(x)
      BY <1>1, <1>5, DoFields DEF Closing, Closes
    <2>2. ASSUME Closing(x) PROVE Closing(x)'
      <3>1. Closes(x) # Now(t)
        BY DoFields DEF EndsNow, Closes
      <3>2. Closes(x) \in Jobs(x[1])'
        BY <1>1, <2>2, <3>1, WorkKeeps DEF Closing
      <3> QED BY <3>2 DEF Closing, Closes
    <2> QED BY <2>1, <2>2
  <1>7. Leaves(x)' => Leaves(x)
    BY <1>1, <1>5 DEF Leaves
  <1>8. Greets(x) => Greets(x)' \/ up'[x]
    <2> SUFFICES ASSUME NEW s \in Jobs(x), s.do = "hello", ~up'[x] PROVE s \in Jobs(x)'
      BY DEF Greets
    <2>1. ~(x = t /\ s = Now(t))
      BY WorkGreeting
    <2> QED BY <1>1, <2>1, WorkKeeps
  <1>9. \/ /\ Now(t).do = "hello" /\ x = t /\ helloSent'[x] /\ up'[x] /\ ~Closing(x)
           /\ net'[x] = IF helloSent[x] THEN net[x] ELSE Append(net[x], Msg("HELLO", None))
        \/ ~helloSent'[x] /\ ~up'[x] /\ (Leaves(x) \/ Closing(x))
        \/ helloSent'[x] = helloSent[x] /\ up'[x] = up[x]
    <2>1. CASE Now(t).do = "hello" /\ x = t
      BY <2>1, WorkGreeting, WhoseStep
    <2>2. CASE Now(t).do = "down" /\ x = From(t)
      <3>1. Now(t).xs = {x} /\ x[1] = RouterOf(t)
        BY <2>2, WhoseStep
      <3>2. CASE t \in Xports
        <4>1. FromIt(side, t, Now(t)) /\ Now(t) \in Jobs(t)
          BY <1>2, <3>2 DEF Sided, OfWorker
        <4>2. t = x
          BY <2>2, <3>1, <4>1 DEF FromIt, Sourced
        <4> QED BY <2>2, <4>1, <4>2, WorkGreeting DEF Leaves
      <3>3. CASE t \in Routers
        <4>1. ~OfApp(t, Now(t)) /\ \A z : Now(t) # Closes(z)
          BY <2>2, DoFields DEF OfApp, Writes, Closes
        <4>2. t \notin Xports /\ Now(t) \in Jobs(t)
          BY <1>2, <3>3, NamingAssumption
        <4>3. PICK z \in Xports : z[1] = t /\ Falls(side, z) /\ OfFall(side, z, Now(t))
          BY <4>1, <4>2, WorksFor
        <4>4. z = x
          BY <2>2, <3>1, <4>3 DEF OfFall, FromIt, Sourced
        <4> QED BY <2>2, <4>3, <4>4, WorkGreeting DEF Falls
      <3> QED BY <3>2, <3>3 DEF Threads
    <2>3. CASE ~(Now(t).do \in {"hello", "down"} /\ x \in {t, From(t)})
      BY <2>3, WorkGreeting
    <2> QED BY <2>1, <2>2, <2>3, WorkGreeting
  <1> QED
    BY <1>3, <1>4, <1>6, <1>7, <1>8, <1>9 DEF Carry

\* BYE is on a link only while it is closed.
LEMMA ByeCloses ==
  ASSUME NEW side, Sided(side), NEW x \in Xports, Has(net[x], "BYE")
  PROVE  Closing(x)
  BY DEF Sided, MayCarry, Has

\* A step of a thread that ends no transport
LEMMA CarryWire ==
  ASSUME NEW side, TypeInv, Sided(side), Links, NEW t, NEW x \in Xports,
         Wire(x), Wire(There(x)), Carry(t, x), Carry(t, There(x))
  PROVE  Wire(x)'
  <1> DEFINE y == There(x)
  <1>1. /\ y \in Xports /\ There(y) = x /\ net[x] \in Seq(Message) /\ net[y] \in Seq(Message)
    BY OtherEnd DEF TypeInv, TypeOK
  <1>2. There(x)' = y /\ There(y)' = x
    BY <1>1 DEF There
  <1>3. PICK m \in Message :
          \/ net'[x] = net[x]
          \/ /\ net'[x] = Append(net[x], m) /\ ~Closing(x)
             /\ m.kind = "HELLO" \/ (m.kind \notin {"HELLO", "BYE"} /\ up[x])
    <2>1. Msg("BYE", None) \in Message
      BY DEF Msg, Message
    <2> QED BY <2>1 DEF Carry
  <1>4. PICK k \in Message :
          \/ net'[y] = net[y]
          \/ /\ net'[y] = Append(net[y], k) /\ ~Closing(y)
             /\ k.kind = "HELLO" \/ (k.kind \notin {"HELLO", "BYE"} /\ up[y])
    <2>1. Msg("BYE", None) \in Message
      BY DEF Msg, Message
    <2> QED BY <2>1 DEF Carry
  <1>5. /\ \A kind : Has(net[x], kind) => Has(net'[x], kind)
        /\ Has(net'[x], "NEW_SERVER") => Has(net[x], "NEW_SERVER") \/ (up[x] /\ ~Closing(x))
        /\ Has(net'[y], "NEW_SERVER") => Has(net[y], "NEW_SERVER") \/ ~Closing(y)
    <2>1. /\ \A kind : Has(Append(net[x], m), kind) <=> Has(net[x], kind) \/ m.kind = kind
          /\ \A kind : Has(Append(net[y], k), kind) <=> Has(net[y], kind) \/ k.kind = kind
      BY <1>1, KindsMore
    <2> QED BY <1>3, <1>4, <2>1
  <1>6. Closed(x)'
    BY DEF Wire, Closed, Carry
  <1>7. Greeted(x)'
    BY DEF Wire, Greeted, Carry
  <1>8. Farewell(x)'
    <2> SUFFICES ASSUME Leaves(x)'
                 PROVE  \/ st'[x] = "lost"
                        \/ st'[x] = "open" /\ Closing(y)' /\ ~Has(net'[y], "NEW_SERVER")
      BY <1>2 DEF Farewell, Has
    <2>1. Leaves(x) /\ st'[x] = st[x] /\ (Closing(y)' <=> Closing(y))
      BY DEF Carry
    <2> QED BY <1>5, <2>1 DEF Wire, Farewell
  <1>9. Waiting(x)'
    BY <1>2, <1>5 DEF Wire, Waiting, Carry, Has
  <1>10. Announces(x)'
    <2> SUFFICES ASSUME Has(net'[x], "NEW_SERVER")
                 PROVE  st'[x] = "lost" \/ (st'[x] = "open" /\ st'[y] = "open")
      BY <1>2 DEF Announces, Has
    <2>1. st'[x] = st[x] /\ st'[y] = st[y]
      BY DEF Carry
    <2>2. up[x] => st[x] = "lost" \/ (st[x] = "open" /\ st[y] = "open")
      BY DEF Links, Linked
    <2> QED BY <1>5, <2>1, <2>2 DEF Wire, Announces
  <1>11. LastBye(net[x])'
    <2>1. Has(net[x], "BYE") => Closing(x)
      BY ByeCloses
    <2>2. LastBye(net[x])
      BY DEF Wire
    <2>3. LastBye(net'[x])
      BY <1>1, <1>3, <2>1, <2>2, KindsMore
    <2> QED BY <2>3 DEF LastBye
  <1>12. Awaited(x)'
    <2> SUFFICES ASSUME helloSent'[x], st'[x] \in {"opening", "open"}
                 PROVE  Has(net'[x], "HELLO") \/ Greets(y)' \/ up'[y] \/ Closing(x)' \/ Closing(y)'
      BY <1>2 DEF Awaited, Has
    <2>1. /\ st'[x] = st[x] /\ (Closing(y)' <=> Closing(y)) /\ (Closing(x)' <=> Closing(x))
          /\ Greets(y) => Greets(y)' \/ up'[y]
          /\ up[y] => up'[y] \/ Leaves(y) \/ Closing(y)
      BY DEF Carry
    <2>2. CASE helloSent[x]
      <3>1. Has(net[x], "HELLO") \/ Greets(y) \/ up[y] \/ Closing(x) \/ Closing(y)
        BY <2>1, <2>2 DEF Wire, Awaited
      <3>2. CASE Leaves(y)
        <4>1. st[y] = "lost" \/ Closing(x)
          BY <1>1, <3>2 DEF Wire, Farewell
        <4>2. st[y] = "lost" => Has(net[x], "HELLO")
          BY <2>1 DEF Wire, Waiting
        <4> QED BY <1>5, <2>1, <4>1, <4>2
      <3> QED BY <1>5, <2>1, <3>1, <3>2
    <2>3. CASE ~helloSent[x]
      <3>1. net'[x] = Append(net[x], Msg("HELLO", None))
        BY <2>3 DEF Carry
      <3>2. Msg("HELLO", None) \in Message /\ Msg("HELLO", None).kind = "HELLO"
        BY DEF Msg, Message
      <3> QED BY <1>1, <3>1, <3>2, KindsMore
    <2> QED BY <2>2, <2>3
  <1>13. Before(x)'
    <2> SUFFICES Ahead(net'[x]) \/ up'[y] \/ Greets(y)' \/ st'[x] = "lost" \/ st'[y] = "lost" \/ Closing(y)'
      BY <1>2 DEF Before, Ahead
    <2>1. /\ st'[x] = st[x] /\ st'[y] = st[y] /\ (Closing(y)' <=> Closing(y))
          /\ Greets(y) => Greets(y)' \/ up'[y]
          /\ up[y] => up'[y] \/ Leaves(y) \/ Closing(y)
      BY DEF Carry
    <2> SUFFICES ASSUME st[x] # "lost", st[y] # "lost", ~Closing(y)
                 PROVE  Ahead(net'[x]) \/ up'[y] \/ Greets(y)'
      BY <2>1
    <2>2. CASE up[y] \/ Greets(y)
      <3>1. CASE ~Leaves(y)
        BY <2>1, <2>2, <3>1
      <3>2. CASE Leaves(y)
        <4>1. st[y] = "open" /\ Closing(x) /\ ~Has(net[x], "NEW_SERVER")
          BY <1>1, <3>2 DEF Wire, Farewell
        <4>2. ~Has(net'[x], "NEW_SERVER")
          BY <1>5, <4>1
        <4> QED BY <4>2, NotAnnounced
      <3> QED BY <3>1, <3>2
    <2>3. CASE ~(up[y] \/ Greets(y))
      <3>1. Ahead(net[x])
        BY <2>3 DEF Wire, Before
      <3>2. up[x] => Has(net[x], "HELLO")
        <4> SUFFICES ASSUME up[x] PROVE Has(net[x], "HELLO")
          OBVIOUS
        <4>1. ~Closing(x) /\ helloSent[x] /\ st[x] = "open"
          BY DEF Wire, Closed, Greeted, Links, Linked
        <4> QED BY <2>3, <4>1 DEF Wire, Awaited
      <3>3. net'[x] = net[x] \/ (net'[x] = Append(net[x], m) /\ (m.kind = "HELLO" \/ up[x]))
        BY <1>3
      <3>4. Ahead(Append(net[x], m)) \/ ~(m.kind = "HELLO" \/ up[x])
        BY <1>1, <3>1, <3>2, KindsMore
      <3> QED BY <3>1, <3>3, <3>4
    <2> QED BY <2>2, <2>3
  <1> QED
    BY <1>6, <1>7, <1>8, <1>9, <1>10, <1>11, <1>12, <1>13 DEF Wire

\* What threads do keeps links in order.
LEMMA WorkWire ==
  ASSUME NEW side, Ways(side), TypeInv, Away(side), Ordered, Sided(side), Links, InTurn, Wires,
         NEW t \in Threads, Work(t), NEW x \in Xports
  PROVE  Wire(x)'
  <1> DEFINE y == There(x)
  <1>1. y \in Xports /\ There(y) = x
    BY OtherEnd
  <1>2. Wire(x) /\ Wire(y)
    BY <1>1 DEF Wires
  <1>3. CASE EndsNow(t, x)
    BY <1>2, <1>3, WorkOver, OverWire
  <1>4. CASE EndsNow(t, y)
    <2>1. Over(y)
      BY <1>1, <1>4, WorkOver
    <2> HIDE DEF y
    <2>2. Wire(There(y))'
      BY <1>1, <1>2, <2>1, OverWire
    <2> QED BY <1>1, <2>2
  <1>5. CASE ~EndsNow(t, x) /\ ~EndsNow(t, y)
    <2>1. Carry(t, x)
      BY <1>2, <1>5, WorkCarry DEF Wire
    <2>2. Carry(t, y)
      <3> HIDE DEF y
      <3> QED BY <1>1, <1>2, <1>5, WorkCarry DEF Wire
    <2> QED BY <1>2, <2>1, <2>2, CarryWire
  <1> QED
    BY <1>3, <1>4, <1>5

\* What a link looks like if only the flags, the channel and the queue of one end change
LEMMA SameJobs ==
  ASSUME agenda' = agenda, NEW x
  PROVE  /\ Jobs(x)' = Jobs(x) /\ (Closing(x)' <=> Closing(x)) /\ (Leaves(x)' <=> Leaves(x))
         /\ Greets(x)' <=> Greets(x)
  BY DEF Jobs, Closing, Closes, Leaves, Greets

\* A worker that is signalled has nothing to do, and nobody closes its transport.
LEMMA WhenReady ==
  ASSUME NEW z \in Xports, Ready(z)
  PROVE  agenda[z] = <<>> /\ ~Closing(z) /\ Jobs(z) = {} /\ ~Leaves(z) /\ ~Greets(z)
  <1>1. agenda[z] = <<>> /\ ~Closing(z)
    BY DoFields DEF Ready, Closing, Closes, Jobs, ToSet
  <1> QED
    BY <1>1, Elements DEF Jobs, Leaves, Greets

\* Links stay consistent when a transport starts, ...
LEMMA StartXportWire ==
  ASSUME NEW side, TypeInv, Sided(side), Links, Wires, NEW z \in Xports, StartXport(z), NEW x \in Xports
  PROVE  Wire(x)'
  <1> DEFINE y == There(x)
  <1>1. y \in Xports /\ There(y) = x /\ y # x /\ x[1] # y[1] /\ Wire(x) /\ Wire(y)
    BY OtherEnd DEF Wires
  <1>2. There(x)' = y /\ There(y)' = x
    BY <1>1 DEF There
  <1>3. agenda' = agenda /\ agenda[z] = <<>> /\ agenda[z[1]] = <<>> /\ st[z] = "closed"
    BY DEF StartXport, threads
  <1>4. /\ ~up'[z] /\ helloSent'[z] /\ st'[z] = "opening" /\ net'[z] = <<Msg("HELLO", None)>>
        /\ \A w \in Xports : w # z => /\ up'[w] = up[w] /\ helloSent'[w] = helloSent[w]
                                      /\ st'[w] = st[w] /\ net'[w] = net[w]
    BY DEF StartXport, TypeInv, TypeOK
  <1>5. Jobs(z) = {} /\ Jobs(z[1]) = {} /\ ~Closing(z) /\ ~Leaves(z) /\ ~Greets(z)
    BY <1>3, Elements DEF Jobs, Closing, Leaves, Greets
  <1>6. \A w : /\ Jobs(w)' = Jobs(w) /\ (Closing(w)' <=> Closing(w)) /\ (Leaves(w)' <=> Leaves(w))
               /\ (Greets(w)' <=> Greets(w))
    BY <1>3, SameJobs
  <1>7. CASE z \notin {x, y}
    BY <1>1, <1>4, <1>6, <1>7, SameWire
  <1>8. CASE z = x
    <2>1. /\ Has(<<Msg("HELLO", None)>>, "HELLO") /\ ~Has(<<Msg("HELLO", None)>>, "NEW_SERVER")
          /\ ~Has(<<Msg("HELLO", None)>>, "BYE")
      BY Elements DEF Has, Msg
    <2>2. /\ Ahead(<<Msg("HELLO", None)>>) /\ LastBye(<<Msg("HELLO", None)>>)
      BY <2>1, NotAnnounced DEF LastBye, Has, ToSet
    <2>3. net[x]' = <<Msg("HELLO", None)>>
      BY <1>4, <1>8
    <2> QED BY <1>2, <1>4, <1>5, <1>6, <1>8, <2>1, <2>2, <2>3
            DEF Wire, Closed, Greeted, Farewell, Waiting, Announces, Awaited, Before
  <1>9. CASE z = y
    <2>1. ~up[y]
      BY <1>1, <1>3, <1>9 DEF Links, Linked
    <2>2. ~Closing(y) /\ ~Greets(y) /\ st[y] = "closed" /\ st'[y] = "opening" /\ ~up'[y]
      BY <1>3, <1>4, <1>5, <1>9
    <2>3. /\ up'[x] = up[x] /\ helloSent'[x] = helloSent[x] /\ st'[x] = st[x] /\ net'[x] = net[x]
      BY <1>1, <1>4, <1>9
    <2>4. ~Has(net[x], "NEW_SERVER") => Ahead(net[x])
      BY NotAnnounced
    <2>5. Closed(x)' /\ Greeted(x)'
      BY <1>1, <1>6, <2>3 DEF Wire, Closed, Greeted
    <2>6. Leaves(x) => st[x] = "lost"
      BY <1>1, <2>2 DEF Wire, Farewell
    <2>7. Farewell(x)'
      BY <1>6, <2>3, <2>6 DEF Farewell
    <2>8. Waiting(x)'
      BY <1>1, <1>2, <2>2, <2>3 DEF Wire, Waiting, Has
    <2>9. Announces(x)' /\ LastBye(net[x])'
      BY <1>1, <2>2, <2>3 DEF Wire, Announces, Has, LastBye
    <2>10. Awaited(x)'
      BY <1>1, <1>2, <2>2, <2>3 DEF Wire, Waiting, Awaited, Has
    <2>11. Before(x)'
      BY <1>1, <1>2, <2>2, <2>3, <2>4 DEF Wire, Announces, Before, Ahead
    <2> QED BY <2>5, <2>7, <2>8, <2>9, <2>10, <2>11 DEF Wire
  <1> QED
    BY <1>7, <1>8, <1>9

\* ... when it opens, ...
LEMMA OpenWire ==
  ASSUME NEW side, TypeInv, Sided(side), Links, Wires, NEW z \in Xports, Open(z), NEW x \in Xports
  PROVE  Wire(x)'
  <1> DEFINE y == There(x)
             hello == Msg("HELLO", None)
  <1>1. y \in Xports /\ There(y) = x /\ y # x /\ x[1] # y[1] /\ Wire(x) /\ Wire(y)
    BY OtherEnd DEF Wires
  <1>2. There(x)' = y /\ There(y)' = x
    BY <1>1 DEF There
  <1>3. /\ agenda' = agenda /\ agenda[z] = <<>> /\ st[z] \in {"opening", "paused"}
        /\ st[There(z)] # "closed" /\ up' = up
    BY DEF Open, threads, Ready
  <1>4. /\ st'[z] = "open"
        /\ \/ net'[z] = Append(net[z], hello) /\ helloSent'[z]
           \/ net'[z] = net[z] /\ helloSent'[z] = helloSent[z] /\ ~(st[z] = "paused" /\ ~up[z])
        /\ \A w \in Xports : w # z => /\ helloSent'[w] = helloSent[w]
                                      /\ st'[w] = st[w] /\ net'[w] = net[w]
    BY DEF Open, TypeInv, TypeOK, Send
  <1>5. ~Closing(z) /\ Jobs(z) = {} /\ ~Leaves(z) /\ ~Greets(z)
    BY WhenReady DEF Open
  <1>6. \A w : /\ Jobs(w)' = Jobs(w) /\ (Closing(w)' <=> Closing(w)) /\ (Leaves(w)' <=> Leaves(w))
               /\ (Greets(w)' <=> Greets(w))
    BY <1>3, SameJobs
  <1>7. CASE z \notin {x, y}
    BY <1>1, <1>3, <1>4, <1>6, <1>7, SameWire
  <1>8. ~up[z] /\ ~Has(net[z], "NEW_SERVER") /\ ~Has(net[z], "BYE")
    <2>1. Wire(z)
      BY DEF Wires
    <2> QED BY <1>3, <1>5, <2>1, ByeCloses DEF Links, Linked, Wire, Announces
  <1>9. net[z] \in Seq(Message) /\ hello \in Message /\ hello.kind = "HELLO"
    BY DEF TypeInv, TypeOK, Msg, Message
  <1>10. /\ \A kind : Has(Append(net[z], hello), kind) <=> Has(net[z], kind) \/ hello.kind = kind
         /\ LastBye(net[z]) => LastBye(Append(net[z], hello))
    <2> HIDE DEF hello
    <2> QED BY <1>8, <1>9, KindsMore
  <1>11. CASE z = x
    <2>1. /\ up'[x] = up[x] /\ ~up[x] /\ st'[x] = "open" /\ st'[y] = st[y] /\ up'[y] = up[y]
          /\ \/ net'[x] = Append(net[x], hello) /\ helloSent'[x]
             \/ net'[x] = net[x] /\ helloSent'[x] = helloSent[x] /\ ~(st[x] = "paused" /\ ~up[x])
          /\ st[x] \in {"opening", "paused"}
      BY <1>1, <1>3, <1>4, <1>8, <1>11
    <2>2. Has(net'[x], "HELLO")
      BY <1>1, <1>9, <1>10, <1>11, <2>1 DEF Wire, Waiting
    <2>3. ~Has(net'[x], "NEW_SERVER") /\ Ahead(net'[x])
      BY <1>8, <1>9, <1>10, <1>11, <2>1, NotAnnounced
    <2>4. LastBye(net'[x])
      BY <1>1, <1>10, <1>11, <2>1 DEF Wire
    <2>5. Closed(x)' /\ Greeted(x)' /\ Farewell(x)'
      BY <1>5, <1>6, <1>11, <2>1 DEF Closed, Greeted, Farewell
    <2>6. Waiting(x)' /\ Announces(x)' /\ Awaited(x)'
      BY <2>2, <2>3 DEF Waiting, Announces, Awaited, Has
    <2>7. Before(x)' /\ LastBye(net[x])'
      BY <2>3, <2>4 DEF Before, Ahead, LastBye
    <2> QED BY <2>5, <2>6, <2>7 DEF Wire
  <1>12. CASE z = y
    <2>1. /\ up'[x] = up[x] /\ helloSent'[x] = helloSent[x] /\ st'[x] = st[x] /\ net'[x] = net[x]
          /\ st'[y] = "open" /\ up'[y] = up[y] /\ ~Closing(y) /\ st[y] \in {"opening", "paused"}
      BY <1>1, <1>3, <1>4, <1>5, <1>12
    <2>2. Closed(x)' /\ Greeted(x)'
      BY <1>1, <1>6, <2>1 DEF Wire, Closed, Greeted
    <2>3. Leaves(x) => st[x] = "lost"
      BY <1>1, <2>1 DEF Wire, Farewell
    <2>4. Farewell(x)'
      BY <1>6, <2>1, <2>3 DEF Farewell
    <2>5. Waiting(x)' /\ Announces(x)' /\ LastBye(net[x])'
      BY <1>1, <1>2, <2>1 DEF Wire, Waiting, Announces, Has, LastBye
    <2>6. Awaited(x)'
      BY <1>1, <1>2, <1>6, <2>1 DEF Wire, Awaited, Has
    <2>7. Before(x)'
      BY <1>1, <1>2, <1>6, <2>1 DEF Wire, Before, Ahead
    <2> QED BY <2>2, <2>4, <2>5, <2>6, <2>7 DEF Wire
  <1> QED
    BY <1>7, <1>11, <1>12

\* ... when it is stopped, ...
LEMMA StopXportWire ==
  ASSUME NEW side, Overlaps = {}, TypeInv, Sided(side), Links, Wires, NEW z \in Xports, StopXport(z),
         NEW x \in Xports
  PROVE  Wire(x)'
  <1> DEFINE y == There(x)
             bye == Msg("BYE", None)
  <1>1. /\ y \in Xports /\ There(y) = x /\ y # x /\ Wire(x) /\ Wire(y)
        /\ x[1] # y[1] /\ x # z[1] /\ y # z[1] /\ x[1] \in Threads /\ y[1] \in Threads
        /\ x \in Threads /\ y \in Threads
    BY OtherEnd DEF Wires
  <1>2. There(x)' = y /\ There(y)' = x
    BY <1>1 DEF There
  <1>3. PICK S : S = {Do("down", None, {z}), Closes(z)}
    OBVIOUS
  <1>4. Starts(z[1], S) /\ agenda[z] = <<>>
    BY <1>3, TransportStarts
  <1>5. /\ ~up'[z] /\ helloSent' = helloSent /\ st' = st
        /\ net'[z] = net[z] \/ net'[z] = Append(net[z], bye)
        /\ \A w \in Xports : w # z => up'[w] = up[w] /\ net'[w] = net[w]
    BY DEF StopXport, TypeInv, TypeOK, Send
  <1>6. \A w \in {x, y} : Jobs(w)' = Jobs(w) /\ (Leaves(w)' <=> Leaves(w)) /\ (Greets(w)' <=> Greets(w))
    BY <1>1, <1>4, StartsOnly DEF Leaves, Greets
  <1>7. ASSUME NEW w \in {x, y}
        PROVE  Closing(w)' <=> w = z \/ Closing(w)
    <2>1. CASE w[1] # z[1]
      <3>1. Jobs(w[1])' = Jobs(w[1]) /\ w # z
        BY <1>1, <1>4, <2>1, StartsOnly
      <3> QED BY <3>1 DEF Closing, Closes
    <2>2. CASE w[1] = z[1]
      <3>1. Jobs(w[1])' = S /\ Jobs(w[1]) = {}
        BY <1>4, <2>2 DEF Starts
      <3>2. Closes(w) \in S <=> w = z
        <4>1. Closes(w).do = "close" /\ Closes(w).xs = {w} /\ Closes(z).xs = {z}
              /\ Do("down", None, {z}).do = "down"
          BY DoFields DEF Closes
        <4> QED BY <1>3, <4>1
      <3> QED BY <3>1, <3>2 DEF Closing, Closes
    <2> QED BY <2>1, <2>2
  <1>8. Closing(z) => FALSE
    BY <1>4 DEF Closing, Starts
  <1>9. ~Leaves(z) /\ ~Greets(z)
    BY <1>4, Elements DEF Jobs, Leaves, Greets
  <1>10. CASE z \notin {x, y}
    BY <1>1, <1>5, <1>6, <1>7, <1>10, SameWire
  <1>11. CASE z = x
    <2>1. /\ Closing(x)' /\ ~up'[x] /\ st'[x] = st[x] /\ st'[y] = st[y] /\ ~Closing(x) /\ ~Leaves(x)
          /\ up'[y] = up[y] /\ (Closing(y)' <=> Closing(y)) /\ (Greets(y)' <=> Greets(y)) /\ ~Leaves(x)'
      BY <1>1, <1>5, <1>6, <1>7, <1>8, <1>9, <1>11
    <2>2. net[x] \in Seq(Message) /\ bye \in Message /\ bye.kind = "BYE"
      BY DEF TypeInv, TypeOK, Msg, Message
    <2>3. ~Has(net[x], "BYE")
      BY <2>1, ByeCloses
    <2>4. /\ \A kind : Has(Append(net[x], bye), kind) <=> Has(net[x], kind) \/ bye.kind = kind
          /\ LastBye(net[x]) => LastBye(Append(net[x], bye))
          /\ Ahead(net[x]) => Ahead(Append(net[x], bye))
      <3> HIDE DEF bye
      <3> QED BY <2>2, <2>3, KindsMore
    <2>5. /\ Has(net[x], "HELLO") => Has(net'[x], "HELLO")
          /\ Has(net'[x], "NEW_SERVER") => Has(net[x], "NEW_SERVER")
          /\ LastBye(net'[x])
          /\ Ahead(net[x]) => Ahead(net'[x])
      BY <1>1, <1>5, <1>11, <2>2, <2>4 DEF Wire
    <2>6. Closed(x)' /\ Greeted(x)' /\ Farewell(x)' /\ Awaited(x)'
      BY <2>1 DEF Closed, Greeted, Farewell, Awaited
    <2>7. Waiting(x)' /\ Announces(x)' /\ LastBye(net[x])'
      BY <1>1, <1>2, <2>1, <2>5 DEF Wire, Waiting, Announces, Has, LastBye
    <2>8. Before(x)'
      BY <1>1, <1>2, <2>1, <2>5 DEF Wire, Before, Ahead
    <2> QED BY <2>6, <2>7, <2>8 DEF Wire
  <1>12. CASE z = y
    <2>1. /\ up'[x] = up[x] /\ helloSent'[x] = helloSent[x] /\ st'[x] = st[x] /\ net'[x] = net[x]
          /\ st'[y] = st[y] /\ ~Closing(y) /\ Closing(y)' /\ (Closing(x)' <=> Closing(x))
          /\ Leaves(x)' <=> Leaves(x)
      BY <1>1, <1>5, <1>6, <1>7, <1>8, <1>12
    <2>2. Closed(x)' /\ Greeted(x)'
      BY <1>1, <2>1 DEF Wire, Closed, Greeted
    <2>3. Leaves(x) => st[x] = "lost"
      BY <1>1, <2>1 DEF Wire, Farewell
    <2>4. Farewell(x)'
      BY <2>1, <2>3 DEF Farewell
    <2>5. Waiting(x)' /\ Announces(x)' /\ LastBye(net[x])'
      BY <1>1, <1>2, <2>1 DEF Wire, Waiting, Announces, Has, LastBye
    <2>6. Awaited(x)' /\ Before(x)'
      BY <1>2, <2>1 DEF Awaited, Before
    <2> QED BY <2>2, <2>4, <2>5, <2>6 DEF Wire
  <1> QED
    BY <1>10, <1>11, <1>12

\* ... when the other end has closed it, ...
LEMMA RemoteCloseWire ==
  ASSUME NEW side, TypeInv, Sided(side), Links, Wires, NEW z \in Xports, RemoteClose(z), NEW x \in Xports
  PROVE  Wire(x)'
  <1> DEFINE y == There(x)
  <1>1. /\ y \in Xports /\ There(y) = x /\ y # x /\ Wire(x) /\ Wire(y)
        /\ x[1] # z /\ y[1] # z /\ x[1] \in Threads /\ y[1] \in Threads
        /\ x \in Threads /\ y \in Threads
    BY OtherEnd DEF Wires
  <1>2. There(x)' = y /\ There(y)' = x
    BY <1>1 DEF There
  <1>3. PICK S : S = {Do("flush", None, {z})} \cup (IF up[z] THEN {Do("down", None, {z})} ELSE {})
    OBVIOUS
  <1>4. Starts(z, S) /\ st[z] = "lost"
    BY <1>3, TransportStarts
  <1>5. up' = up /\ helloSent' = helloSent /\ st' = st /\ net' = net
    BY DEF RemoteClose, links
  <1>6. \A w \in {x, y} : Closing(w)' <=> Closing(w)
    BY <1>1, <1>4, StartsOnly DEF Closing, Closes
  <1>7. \A w \in {x, y} : w # z =>
          Jobs(w)' = Jobs(w) /\ (Leaves(w)' <=> Leaves(w)) /\ (Greets(w)' <=> Greets(w))
    BY <1>1, <1>4, StartsOnly DEF Leaves, Greets
  <1>8. ~Greets(z)
    BY <1>4 DEF Greets, Starts
  <1>9. Farewell(x)'
    <2>1. CASE z = x
      BY <1>4, <1>5, <2>1 DEF Farewell
    <2>2. CASE z # x
      BY <1>1, <1>2, <1>5, <1>6, <1>7, <2>2 DEF Wire, Farewell, Has
    <2> QED BY <2>1, <2>2
  <1>10. Closed(x)' /\ Greeted(x)' /\ Waiting(x)' /\ Announces(x)' /\ LastBye(net[x])'
    BY <1>1, <1>2, <1>5, <1>6 DEF Wire, Closed, Greeted, Waiting, Announces, LastBye, Has
  <1>11. Greets(y) => Greets(y)'
    BY <1>7, <1>8
  <1>12. Awaited(x)' /\ Before(x)'
    BY <1>1, <1>2, <1>5, <1>6, <1>11 DEF Wire, Awaited, Before, Has, Ahead
  <1> QED
    BY <1>9, <1>10, <1>12 DEF Wire

\* ... when a message is received, ...
LEMMA ReceiveWire ==
  ASSUME NEW side, TypeInv, Sided(side), Links, Wires, NEW z \in Xports, Receive(z), NEW x \in Xports
  PROVE  Wire(x)'
  <1> DEFINE y == There(x)
  <1>1. /\ y \in Xports /\ There(y) = x /\ y # x /\ Wire(x) /\ Wire(y)
        /\ x[1] # z /\ y[1] # z /\ x[1] \in Threads /\ y[1] \in Threads
        /\ x \in Threads /\ y \in Threads /\ There(z) \in Xports /\ There(There(z)) = z
    BY OtherEnd DEF Wires
  <1>2. There(x)' = y /\ There(y)' = x
    BY <1>1 DEF There
  <1>3. PICK m : m = Head(net[There(z)])
    OBVIOUS
  <1>4. /\ net[There(z)] # <<>> /\ net[There(z)] \in Seq(Message)
        /\ m \in ToSet(net[There(z)])
        /\ Takes(z, m)
        /\ st[z] = "open" /\ st[There(z)] = "open"
        /\ net'[There(z)] = Tail(net[There(z)])
        /\ \A w \in Xports : w # There(z) => net'[w] = net[w]
    BY <1>3, ReceiveTakes
  <1>5. up' = up /\ helloSent' = helloSent /\ st' = st /\ Ready(z)
    BY DEF Receive
  <1>6. ~Closing(z) /\ ~Leaves(z) /\ ~Greets(z)
    BY <1>5, WhenReady
  <1>7. PICK S : /\ Starts(z, S)
                 /\ m.kind = "HELLO" => \E s \in S : s.do = "hello"
                 /\ m.kind # "BYE" => \A s \in S : s.do # "down"
    BY <1>4, DoFields DEF Takes
  <1>8. \A w \in {x, y} : Closing(w)' <=> Closing(w)
    BY <1>1, <1>7, StartsOnly DEF Closing, Closes
  <1>9. \A w \in {x, y} : w # z =>
          Jobs(w)' = Jobs(w) /\ (Leaves(w)' <=> Leaves(w)) /\ (Greets(w)' <=> Greets(w))
    BY <1>1, <1>7, StartsOnly DEF Leaves, Greets
  <1>10. CASE z \notin {x, y}
    <2>1. There(z) \notin {x, y}
      BY <1>1, <1>10
    <2> QED BY <1>1, <1>4, <1>5, <1>8, <1>9, <1>10, <2>1, SameWire
  <1>11. CASE z = x
    <2>1. net'[x] = net[x] /\ net'[y] = Tail(net[y]) /\ net[y] # <<>> /\ m = Head(net[y])
      BY <1>1, <1>3, <1>4, <1>11
    <2>2. Farewell(x)'
      <3> SUFFICES ASSUME Leaves(x)'
                   PROVE  st'[x] = "open" /\ Closing(y)' /\ ~Has(net'[y], "NEW_SERVER")
        BY <1>2 DEF Farewell, Has
      <3>1. m.kind = "BYE"
        BY <1>7, <1>11 DEF Leaves, Starts
      <3>2. Closing(y)
        <4>1. m \in ToSet(net[y])
          BY <1>4, <1>11
        <4>2. Has(net[y], "BYE")
          BY <3>1, <4>1 DEF Has
        <4> HIDE DEF y
        <4> QED BY <1>1, <4>2, ByeCloses
      <3>3. LastBye(net[y])
        BY <1>1 DEF Wire
      <3>4. Tail(net[y]) = <<>>
        BY <1>1, <1>4, <1>11, <2>1, <3>1, <3>3, KindsLess
      <3> QED BY <1>4, <1>5, <1>8, <1>11, <2>1, <3>2, <3>4, NoMessage
    <2>3. Closed(x)' /\ Greeted(x)' /\ Waiting(x)' /\ Announces(x)' /\ LastBye(net[x])'
      BY <1>1, <1>2, <1>5, <1>8, <2>1 DEF Wire, Closed, Greeted, Waiting, Announces, LastBye, Has
    <2>4. Awaited(x)' /\ Before(x)'
      BY <1>1, <1>2, <1>5, <1>8, <1>9, <1>11, <2>1 DEF Wire, Awaited, Before, Has, Ahead
    <2> QED BY <2>2, <2>3, <2>4 DEF Wire
  <1>12. CASE z = y
    <2>1. /\ net'[x] = Tail(net[x]) /\ net'[y] = net[y] /\ net[x] # <<>> /\ m = Head(net[x])
          /\ net[x] \in Seq(Message) /\ st[x] = "open" /\ st[y] = "open" /\ ~Closing(y) /\ ~Greets(y)
      BY <1>1, <1>3, <1>4, <1>6, <1>12
    <2>2. /\ Has(net[x], "HELLO") => Has(net'[x], "HELLO") \/ m.kind = "HELLO"
          /\ LastBye(net'[x])
          /\ Ahead(net[x]) => m.kind = "HELLO" \/ Ahead(net'[x])
      <3>1. LastBye(net[x])
        BY <1>1 DEF Wire
      <3> QED BY <2>1, <3>1, KindsLess
    <2>3. m.kind = "HELLO" => Greets(y)'
      BY <1>7, <1>12 DEF Greets, Starts
    <2>4. Closed(x)' /\ Greeted(x)' /\ Farewell(x)'
      BY <1>1, <1>2, <1>5, <1>8, <1>9, <1>12, <2>1 DEF Wire, Closed, Greeted, Farewell, Has
    <2>5. Waiting(x)' /\ Announces(x)'
      BY <1>2, <1>5, <2>1 DEF Waiting, Announces
    <2>6. LastBye(net[x])'
      BY <2>2 DEF LastBye
    <2>7. Awaited(x)'
      <3>1. helloSent[x] => Has(net'[x], "HELLO") \/ Greets(y)' \/ up[y] \/ Closing(x)
        BY <1>1, <2>1, <2>2, <2>3 DEF Wire, Awaited
      <3> QED BY <1>2, <1>5, <1>8, <3>1 DEF Awaited, Has
    <2>8. Before(x)'
      <3>1. Ahead(net'[x]) \/ Greets(y)' \/ up[y]
        BY <1>1, <2>1, <2>2, <2>3 DEF Wire, Before
      <3> QED BY <1>2, <1>5, <3>1 DEF Before, Ahead
    <2> QED BY <2>4, <2>5, <2>6, <2>7, <2>8 DEF Wire
  <1> QED
    BY <1>10, <1>11, <1>12

\* ... when an application registers, deregisters or closes a server, ...
LEMMA ApplicationWire ==
  ASSUME TypeInv, Wires, NEW v \in Servers, RegServer(v) \/ DeregServer(v) \/ Close(v), NEW x \in Xports
  PROVE  Wire(x)'
  <1> DEFINE y == There(x)
  <1>1. /\ y \in Xports /\ x \notin Routers /\ y \notin Routers /\ HomeOf[v] \in Routers
        /\ x \in Threads /\ y \in Threads /\ x[1] \in Threads /\ y[1] \in Threads /\ Wire(x)
    BY OtherEnd, NamingAssumption DEF Wires
  <1>2. helloSent' = helloSent /\ net' = net /\ up' = up /\ st' = st
    BY DEF RegServer, DeregServer, Close, Begin, links
  <1>3. PICK S : Starts(HomeOf[v], S) /\ \A s \in S : s.do # "close"
    <2>1. \E S : Starts(HomeOf[v], S) /\ S \in {{Do("register", v, {})}, {Do("tellServer", v, {})},
                                               {Do("tellClient", v, {}), Do("removeClient", v, {})}}
      BY ApplicationStarts
    <2> QED BY <2>1, DoFields
  <1>4. \A w \in {x, y} : Jobs(w)' = Jobs(w)
    BY <1>1, <1>3, StartsOnly
  <1>5. ASSUME NEW w \in {x, y} PROVE Closing(w)' <=> Closing(w)
    <2>1. Closes(w).do = "close" /\ Closes(w)' = Closes(w)
      BY DoFields DEF Closes
    <2>2. CASE w[1] = HomeOf[v]
      BY <1>3, <2>1, <2>2 DEF Closing, Starts
    <2>3. CASE w[1] # HomeOf[v]
      BY <1>1, <1>3, <2>1, <2>3, StartsOnly DEF Closing
    <2> QED BY <2>2, <2>3
  <1> QED
    BY <1>1, <1>2, <1>4, <1>5, SameWire

\* ... and when a router restarts.
LEMMA RestartWire ==
  ASSUME TypeInv, Wires, NEW n \in Routers, Restart(n), NEW x \in Xports
  PROVE  Wire(x)'
  <1> DEFINE y == There(x)
  <1>1. /\ y \in Xports /\ There(y) = x /\ Wire(x) /\ Wire(y)
    BY OtherEnd DEF Wires
  <1>2. /\ \A t \in Threads : RouterOf(t) = n => Jobs(t)' = {}
        /\ \A t \in Threads : RouterOf(t) # n => Jobs(t)' = Jobs(t)
        /\ \A w \in Xports : w[1] = n => ~up'[w] /\ st'[w] = "closed" /\ net'[w] = <<>>
        /\ \A w \in Xports : w[1] # n =>
             /\ up'[w] = up[w] /\ net'[w] = net[w]
             /\ st'[w] = IF w[2] = n /\ st[w] = "open" THEN "lost" ELSE st[w]
    BY RestartClears DEF Jobs
  <1>3. \A w \in Xports : w[1] # n => helloSent'[w] = helloSent[w]
    BY DEF Restart, TypeInv, TypeOK
  <1>4. ASSUME NEW e \in Xports, e[1] = n PROVE Over(e)
    <2>1. /\ There(e) \in Xports /\ There(e)[1] # n /\ There(e)[2] = n
          /\ e \in Threads /\ RouterOf(e) = n /\ e[1] \in Threads /\ RouterOf(e[1]) = n
          /\ There(e) \in Threads /\ RouterOf(There(e)) # n
          /\ There(e)[1] \in Threads /\ RouterOf(There(e)[1]) # n
      <3>1. There(e)[2] = e[1]
        BY DEF There
      <3> QED BY <1>4, <3>1, OtherEnd
    <2>2. ~Closing(e)' /\ (Closing(There(e))' <=> Closing(There(e)))
      BY <1>2, <2>1 DEF Closing, Closes, There
    <2> QED BY <1>2, <1>3, <1>4, <2>1, <2>2 DEF Over
  <1>5. CASE x[1] = n
    BY <1>1, <1>4, <1>5, OverWire
  <1>6. CASE y[1] = n
    <2>1. Over(y)
      BY <1>1, <1>4, <1>6
    <2> HIDE DEF y
    <2>2. Wire(There(y))'
      BY <1>1, <2>1, OverWire
    <2> QED BY <1>1, <2>2
  <1>7. CASE x[1] # n /\ y[1] # n
    <2>1. /\ x \in Threads /\ RouterOf(x) # n /\ x[1] \in Threads /\ RouterOf(x[1]) # n
          /\ y \in Threads /\ RouterOf(y) # n /\ y[1] \in Threads /\ RouterOf(y[1]) # n
          /\ x[2] # n /\ y[2] # n
      <3>1. y[2] = x[1] /\ y[1] = x[2]
        BY DEF There
      <3> QED BY <1>1, <1>7, <3>1, OtherEnd
    <2>2. \A w \in {x, y} : Jobs(w)' = Jobs(w) /\ (Closing(w)' <=> Closing(w))
      BY <1>2, <2>1 DEF Closing, Closes
    <2> QED BY <1>1, <1>2, <1>3, <1>7, <2>1, <2>2, SameWire
  <1> QED
    BY <1>5, <1>6, <1>7

\* No step of the routers brings links out of order.
LEMMA WiresKept ==
  ASSUME NEW side, Ways(side), Overlaps = {}, TypeInv, Away(side), Ordered, Sided(side), Links, InTurn,
         Wires, [Next]_vars
  PROVE  Wires'
  <1> SUFFICES ASSUME NEW x \in Xports PROVE Wire(x)'
    BY DEF Wires
  <1>1. CASE \E t \in Threads : Work(t)
    BY <1>1, WorkWire
  <1>2. CASE \E v \in Servers : RegServer(v) \/ DeregServer(v) \/ Close(v)
    BY <1>2, ApplicationWire
  <1>3. CASE \E z \in Xports : StartXport(z) \/ StopXport(z) \/ Signalled(z)
    BY <1>3, StartXportWire, StopXportWire, OpenWire, RemoteCloseWire, ReceiveWire DEF Signalled
  <1>4. CASE \E n \in Routers : Restart(n)
    BY <1>4, RestartWire
  <1>5. CASE UNCHANGED vars
    <2>1. up' = up /\ helloSent' = helloSent /\ st' = st /\ net' = net /\ agenda' = agenda
      BY <1>5 DEF vars, links, threads
    <2>2. \A w : Jobs(w)' = Jobs(w) /\ (Closing(w)' <=> Closing(w))
      BY <2>1 DEF Jobs, Closing, Closes
    <2>3. Wire(x)
      BY DEF Wires
    <2> QED BY <2>1, <2>2, <2>3, SameWire
  <1> QED
    BY <1>1, <1>2, <1>3, <1>4, <1>5 DEF Next

-----------------------------------------------------------------------------
(***************************************************************************)
(* Servers and endpoints that go                                           *)
(***************************************************************************)

\* What is known of a server: itself, or its endpoint
Tabled == {"server", "client"}
\* The entry of a table for a server
Entry(w, n, v) == IF w = "server" THEN server[n][v] ELSE client[n][v]

\* A step after which it is not known any more
Strikes(w, n, v, s) ==
  \/ w = "server" /\ s.do \in {"dropServer", "removeClient", "downServer"} /\ s.of = v
  \/ w = "server" /\ s.do = "down" /\ server[n][v] \in s.xs
  \/ w = "client" /\ s.do \in {"dropClient", "removeClient", "downClient"} /\ s.of = v
  \/ w = "client" /\ s.do \in {"down", "downClients"} /\ client[n][v] \in s.xs

\* It is known, and no thread is about to remove it.
Stays(w, n, v) ==
  /\ Entry(w, n, v) # None
  /\ \A t \in Threads : RouterOf(t) = n => \A s \in Jobs(t) : ~Strikes(w, n, v, s)

\* To stay in the server table is to be stable there.
LEMMA StaysStable ==
  ASSUME NEW n, NEW v
  PROVE  /\ Stays("server", n, v) <=> Stable(n, v)
         /\ Stays("server", n, v)' <=> Stable(n, v)'
  <1>1. "server" # "client"
    OBVIOUS
  <1>2. Stays("server", n, v) <=> Stable(n, v)
    BY <1>1 DEF Stays, Stable, Doomed, Dooms, Strikes, Entry
  <1>3. Stays("server", n, v)' <=> Stable(n, v)'
    BY <1>1 DEF Stays, Stable, Doomed, Dooms, Strikes, Entry
  <1> QED
    BY <1>2, <1>3

\* What threads remove of endpoints, they have begun to.
LEMMA WorkStrips ==
  ASSUME TypeInv, NEW t \in Threads, Work(t)
  PROVE  /\ Now(t).do = "downClient" => Do("dropClient", Now(t).of, {}) \in Jobs(t)'
         /\ Now(t).do = "down" => Do("downClients", None, Now(t).xs) \in Jobs(t)'
         /\ Now(t).do = "downClients" => \A v \in Servers : client[RouterOf(t)][v] \in Now(t).xs
              => Do("downClient", v, Now(t).xs) \in Jobs(t)'
  <1>1. ASSUME Now(t).do = "downClient" PROVE Do("dropClient", Now(t).of, {}) \in Jobs(t)'
    <2>1. TellClient(t)
      BY <1>1, WorkIs
    <2>2. PICK D : D = {Do("dropClient", Now(t).of, {})}
      OBVIOUS
    <2>3. \/ Tells(t, Msg("REMOVE_CLIENT", Now(t).of), Reach(RouterOf(t), Now(t).xs), D)
          \/ Jobs(t)' = D \cup After(t)
      BY <1>1, <2>1, <2>2, JobsTellClient
    <2> QED BY <2>2, <2>3, TellMakes
  <1>2. ASSUME Now(t).do = "down" PROVE Do("downClients", None, Now(t).xs) \in Jobs(t)'
    BY <1>2, WorkIs, JobsDown
  <1>3. ASSUME Now(t).do = "downClients", NEW v \in Servers, client[RouterOf(t)][v] \in Now(t).xs
        PROVE  Do("downClient", v, Now(t).xs) \in Jobs(t)'
    <2>1. DownClients(t)
      <3>1. Release(t) \/ DownClients(t)
        BY <1>3, WorkIs
      <3> QED BY <1>3, <3>1 DEF Release, Doing
    <2> QED BY <1>3, <2>1, JobsDownClients
  <1> QED
    BY <1>1, <1>2, <1>3

\* An endpoint that is dropped is gone.
LEMMA WorkDrops ==
  ASSUME TypeInv, NEW t \in Threads, Work(t), Now(t).do \in {"dropClient", "removeClient"},
         NEW v \in Servers, v = Now(t).of
  PROVE  client'[RouterOf(t)][v] = None
  <1>1. client' = [client EXCEPT ![RouterOf(t)][Now(t).of] = None]
    BY WorkIs DEF DropClient, RemoveClient
  <1>2. client \in [Routers -> [Servers -> Xports \cup {Local, None}]] /\ RouterOf(t) \in Routers
    BY SomeThread DEF TypeInv, TypeOK
  <1> QED
    BY <1>1, <1>2

\* Threads remove only what they are about to remove.
LEMMA StaysLasts ==
  ASSUME TypeInv, NEW t \in Threads, Work(t), NEW w \in Tabled, NEW n \in Routers, NEW v \in Servers,
         Stays(w, n, v)
  PROVE  Stays(w, n, v)' /\ Entry(w, n, v)' = Entry(w, n, v)
  <1>1. CASE w = "server"
    <2>1. Stable(n, v)
      BY <1>1, StaysStable
    <2>2. Stable(n, v)' /\ server'[n][v] = server[n][v]
      BY <2>1, StableLasts
    <2> QED BY <1>1, <2>2, StaysStable DEF Entry
  <1>2. CASE w = "client"
    <2>1. Now(t) \in Jobs(t) /\ Jobs(t) = {Now(t)} \cup After(t)
      BY WorkNow
    <2>2. \A u \in Threads : RouterOf(u) = n => \A s \in Jobs(u) : ~Strikes("client", n, v, s)
      BY <1>2 DEF Stays
    <2>3. client'[n][v] = client[n][v] /\ client[n][v] # None
      <3>1. ~(n = RouterOf(t) /\ v = Now(t).of /\ Now(t).do \in {"dropClient", "removeClient"})
        BY <2>1, <2>2 DEF Strikes
      <3>2. client[n][v] # None
        BY <1>2 DEF Stays, Entry
      <3>3. ~(n = RouterOf(t) /\ v = Now(t).of /\ Now(t).do = "register")
              => client'[n][v] = client[n][v]
        BY <3>1, WorkClient
      <3>4. ASSUME n = RouterOf(t), v = Now(t).of, Now(t).do = "register"
            PROVE  client'[n][v] = client[n][v]
        <4>1. PICK x : client' = [client EXCEPT ![n][v] = IF @ = None THEN x ELSE @]
          BY <3>4, WorkIs DEF Register
        <4> QED BY <3>2, <4>1 DEF TypeInv, TypeOK
      <3> QED BY <3>2, <3>3, <3>4
    <2>4. ASSUME NEW u \in Threads, RouterOf(u) = n, NEW s \in Jobs(u)', Strikes("client", n, v, s)'
          PROVE  FALSE
      <3>1. Strikes("client", n, v, s)
        BY <2>3, <2>4 DEF Strikes
      <3>2. s \notin Jobs(u)
        BY <2>2, <2>4, <3>1
      <3>3. u = t
        BY <2>4, <3>2, WorkOthers DEF Others, Jobs
      <3>4. Made(t, s)
        BY <2>1, <2>4, <3>2, <3>3, WorkMakes
      <3>5. CASE s.do = "dropClient" /\ s.of = v
        <4>1. Now(t).do = "downClient" /\ s.of = Now(t).of
          BY <3>4, <3>5, DoFields DEF Made
        <4> QED BY <2>1, <2>2, <2>4, <3>3, <3>5, <4>1 DEF Strikes
      <3>6. CASE s.do = "downClient" /\ s.of = v
        <4>1. Now(t).do = "downClients" /\ client[n][s.of] \in Now(t).xs
          BY <2>4, <3>3, <3>4, <3>6, DoFields DEF Made
        <4> QED BY <2>1, <2>2, <2>4, <3>3, <3>6, <4>1 DEF Strikes
      <3>7. CASE s.do = "downClients" /\ client[n][v] \in s.xs
        <4>1. Now(t).do = "down" /\ s.xs = Now(t).xs
          BY <3>4, <3>7, DoFields DEF Made
        <4> QED BY <2>1, <2>2, <2>4, <3>3, <3>7, <4>1 DEF Strikes
      <3> QED BY <3>1, <3>4, <3>5, <3>6, <3>7, NeverMade DEF Strikes
    <2> QED BY <1>2, <2>3, <2>4 DEF Stays, Entry
  <1> QED
    BY <1>1, <1>2 DEF Tabled

\* Only what is registered comes to stay.
LEMMA StaysBefore ==
  ASSUME TypeInv, Tables, NEW t \in Threads, Work(t), NEW w \in Tabled, NEW n \in Routers,
         NEW v \in Servers, Stays(w, n, v)'
  PROVE  Stays(w, n, v) \/ (n = RouterOf(t) /\ v = Now(t).of /\ Now(t).do = "register")
  <1>1. CASE w = "server"
    <2>1. Stable(n, v)'
      BY <1>1, StaysStable
    <2>2. Stable(n, v) \/ Registers(t, n, v)
      BY <2>1, StableBefore
    <2> QED BY <1>1, <2>2, StaysStable DEF Registers
  <1>2. CASE w = "client"
    <2> SUFFICES ASSUME ~(n = RouterOf(t) /\ v = Now(t).of /\ Now(t).do = "register")
                 PROVE  Stays(w, n, v)
      OBVIOUS
    <2>1. \A u \in Threads : RouterOf(u) = n => \A s \in Jobs(u)' : ~Strikes("client", n, v, s)'
      BY <1>2 DEF Stays
    <2>2. client'[n][v] = client[n][v] /\ client[n][v] # None
      <3>1. client'[n][v] # None
        BY <1>2 DEF Stays, Entry
      <3> QED BY <3>1, WorkClient
    <2>3. ASSUME NEW u \in Threads, RouterOf(u) = n, NEW s \in Jobs(u), Strikes("client", n, v, s)
          PROVE  FALSE
      <3>1. Strikes("client", n, v, s)'
        BY <2>2, <2>3 DEF Strikes
      <3>2. s \notin Jobs(u)'
        BY <2>1, <2>3, <3>1
      <3>3. u = t /\ s = Now(t)
        BY <2>3, <3>2, WorkKeeps
      <3>4. \A r \in Jobs(t)' : ~Strikes("client", n, v, r)'
        BY <2>1, <2>3, <3>3
      <3>5. CASE s.do \in {"dropClient", "removeClient"} /\ s.of = v
        BY <2>2, <2>3, <3>3, <3>5, WorkDrops
      <3>6. CASE s.do = "downClient" /\ s.of = v
        <4>1. Do("dropClient", v, {}) \in Jobs(t)'
          BY <3>3, <3>6, WorkStrips
        <4> QED BY <3>4, <4>1, DoFields DEF Strikes
      <3>7. CASE s.do = "down" /\ client[n][v] \in s.xs
        <4>1. Do("downClients", None, s.xs) \in Jobs(t)'
          BY <3>3, <3>7, WorkStrips
        <4> QED BY <2>2, <3>4, <3>7, <4>1, DoFields DEF Strikes
      <3>8. CASE s.do = "downClients" /\ client[n][v] \in s.xs
        <4>1. Do("downClient", v, s.xs) \in Jobs(t)'
          BY <2>3, <3>3, <3>8, WorkStrips
        <4> QED BY <3>4, <4>1, DoFields DEF Strikes
      <3> QED BY <2>3, <3>5, <3>6, <3>7, <3>8 DEF Strikes
    <2> QED BY <1>2, <2>2, <2>3 DEF Stays, Entry
  <1> QED
    BY <1>1, <1>2 DEF Tabled

\* What is registered stays.
LEMMA RegisterStays ==
  ASSUME NEW side, Ways(side), TypeInv, Away(side)', Sided(side), NEW t \in Threads, Work(t),
         Now(t).do = "register", NEW v \in Servers, v = Now(t).of, NEW w \in Tabled
  PROVE  Stays(w, RouterOf(t), v)'
  <1> DEFINE n == RouterOf(t)
  <1>1. n \in Routers /\ Jobs(t) = {Now(t)} \cup After(t) /\ After(t) = {}
    BY WorkNow
  <1>2. Entry(w, n, v)' # None
    <2>1. server'[n][v] # None
      BY <1>1, WorkServer, SourceKnown
    <2>2. client'[n][v] # None
      BY <1>1, WorkClient, SourceKnown
    <2> QED BY <2>1, <2>2 DEF Entry
  <1>3. ASSUME NEW u \in Threads, RouterOf(u) = n, NEW r \in Jobs(u)', Strikes(w, n, v, r)'
        PROVE  FALSE
    <2>1. CASE r \in Jobs(u)
      <3>1. About(side, v, r)
        <4>1. CASE /\ r.of = v
                   /\ r.do \in {"dropServer", "removeClient", "downServer", "dropClient", "downClient"}
          BY <4>1 DEF About, News
        <4>2. ASSUME NEW table, Known(side, table), table[n][v] \in r.xs, r.do \in {"down", "downClients"}
              PROVE  About(side, v, r)
          <5>1. table[n][v] \in Xports
            BY <2>1, <4>2, SourceSide DEF Sourced
          <5>2. v \in Beyond(side, table[n][v])
            BY <1>1, <4>2, <5>1, WhereKnown
          <5> QED BY <4>2, <5>1, <5>2 DEF About
        <4>3. Known(side, server') /\ Known(side, client')
          BY DEF Away, Known, Place
        <4> QED BY <1>3, <4>1, <4>2, <4>3 DEF Strikes
      <3>2. About(side, v, Now(t)) /\ Now(t) \in Jobs(t)
        BY <1>1 DEF About, News
      <3>3. u = t
        BY <1>3, <2>1, <3>1, <3>2, AboutOne
      <3>4. r = Now(t)
        BY <1>1, <2>1, <3>3
      <3> QED BY <1>3, <3>4 DEF Strikes
    <2>2. CASE r \notin Jobs(u)
      <3>1. u = t
        BY <1>3, <2>2, WorkOthers DEF Others, Jobs
      <3>2. Made(t, r)
        BY <1>3, <2>2, <3>1, WorkNow, WorkMakes
      <3>3. r.do \in {"release", "NEW_SERVER"}
        BY <3>2, DoFields DEF Made
      <3> QED BY <1>3, <3>3 DEF Strikes
    <2> QED BY <2>1, <2>2
  <1> QED
    BY <1>2, <1>3 DEF Stays, RouterOf

-----------------------------------------------------------------------------
(***************************************************************************)
(* What the other end is left to know                                      *)
(***************************************************************************)

\* A message that makes a router forget a server, or its endpoint
Cancels(w, m, v) == m = Msg("REMOVE_CLIENT", v) \/ (w = "server" /\ m = Msg("REMOVE_SERVER", v))

\* Nothing in a queue does.
Clear(w, q, v) == \A j \in DOMAIN q : ~Cancels(w, q[j], v)

\* It is announced, and not forgotten after that.
Lasting(w, q, v) == \E i \in DOMAIN q : /\ q[i] = Msg("NEW_SERVER", v)
                                        /\ \A j \in DOMAIN q : j > i => ~Cancels(w, q[j], v)

\* What a queue with one more message says, the shorter one said or the message says.
LEMMA SentLasts ==
  ASSUME NEW q \in Seq(Message), NEW m \in Message, NEW w, NEW v
  PROVE  /\ Clear(w, Append(q, m), v) => Clear(w, q, v) /\ ~Cancels(w, m, v)
         /\ Lasting(w, Append(q, m), v) =>
              \/ m = Msg("NEW_SERVER", v)
              \/ Lasting(w, q, v) /\ ~Cancels(w, m, v)
  <1>1. PICK r : r = Append(q, m)
    OBVIOUS
  <1>2. /\ Len(q) \in Nat /\ DOMAIN q = 1..Len(q) /\ DOMAIN r = 1..(Len(q) + 1)
        /\ \A i \in 1..Len(q) : r[i] = q[i]
        /\ r[Len(q) + 1] = m
    BY <1>1
  <1>3. /\ \A i \in DOMAIN q : i \in DOMAIN r /\ r[i] = q[i] /\ Len(q) + 1 > i
        /\ Len(q) + 1 \in DOMAIN r
        /\ \A i \in DOMAIN r : i \in DOMAIN q \/ i = Len(q) + 1
    BY <1>2
  <1>4. Clear(w, r, v) => Clear(w, q, v) /\ ~Cancels(w, m, v)
    BY <1>2, <1>3 DEF Clear
  <1>5. ASSUME Lasting(w, r, v), m # Msg("NEW_SERVER", v)
        PROVE  Lasting(w, q, v) /\ ~Cancels(w, m, v)
    <2>1. PICK i \in DOMAIN r : /\ r[i] = Msg("NEW_SERVER", v)
                                /\ \A j \in DOMAIN r : j > i => ~Cancels(w, r[j], v)
      BY <1>5 DEF Lasting
    <2>2. i \in DOMAIN q
      BY <1>2, <1>3, <1>5, <2>1
    <2>3. ~Cancels(w, m, v)
      BY <1>2, <1>3, <2>1, <2>2
    <2> QED BY <1>3, <2>1, <2>2, <2>3 DEF Lasting
  <1> QED
    BY <1>1, <1>4, <1>5

\* What a queue says after its first message, it said before, unless that message was about it.
LEMMA TakenLasts ==
  ASSUME NEW q \in Seq(Message), q # <<>>, NEW w, NEW v
  PROVE  /\ Lasting(w, Tail(q), v) => Lasting(w, q, v)
         /\ Clear(w, Tail(q), v) => Clear(w, q, v) \/ Cancels(w, Head(q), v)
         /\ Clear(w, Tail(q), v) /\ Head(q) = Msg("NEW_SERVER", v) => Lasting(w, q, v)
  <1>1. PICK r : r = Tail(q)
    OBVIOUS
  <1>2. /\ Len(q) \in Nat /\ Len(q) > 0 /\ DOMAIN q = 1..Len(q) /\ DOMAIN r = 1..(Len(q) - 1)
        /\ \A i \in 1..(Len(q) - 1) : r[i] = q[i + 1]
        /\ Head(q) = q[1]
    BY <1>1
  <1>3. /\ \A j \in DOMAIN r : j \in Nat /\ j + 1 \in DOMAIN q /\ r[j] = q[j + 1]
        /\ \A j \in DOMAIN q : j \in Nat /\ (j = 1 \/ \E k \in DOMAIN r : j = k + 1)
        /\ 1 \in DOMAIN q
    <2>1. ASSUME NEW j \in DOMAIN q, j # 1 PROVE \E k \in DOMAIN r : j = k + 1
      <3>1. j - 1 \in DOMAIN r /\ j = (j - 1) + 1
        BY <1>2, <2>1
      <3> QED BY <3>1
    <2> QED BY <1>2, <2>1
  <1>4. ASSUME Lasting(w, r, v) PROVE Lasting(w, q, v)
    <2>1. PICK i \in DOMAIN r : /\ r[i] = Msg("NEW_SERVER", v)
                                /\ \A j \in DOMAIN r : j > i => ~Cancels(w, r[j], v)
      BY <1>4 DEF Lasting
    <2>2. i + 1 \in DOMAIN q /\ q[i + 1] = Msg("NEW_SERVER", v)
      BY <1>3, <2>1
    <2>3. ASSUME NEW j \in DOMAIN q, j > i + 1 PROVE ~Cancels(w, q[j], v)
      <3>1. j # 1
        BY <1>3, <2>1, <2>3
      <3>2. PICK k \in DOMAIN r : j = k + 1
        BY <1>3, <3>1
      <3>3. k > i /\ r[k] = q[j]
        BY <1>3, <2>1, <2>3, <3>2
      <3> QED BY <2>1, <3>3
    <2> QED BY <2>2, <2>3 DEF Lasting
  <1>5. Clear(w, r, v) => Clear(w, q, v) \/ Cancels(w, Head(q), v)
    BY <1>2, <1>3 DEF Clear
  <1>6. ASSUME Clear(w, r, v), Head(q) = Msg("NEW_SERVER", v) PROVE Lasting(w, q, v)
    <2>1. ASSUME NEW j \in DOMAIN q, j > 1 PROVE ~Cancels(w, q[j], v)
      <3>1. PICK k \in DOMAIN r : j = k + 1
        BY <1>3, <2>1
      <3> QED BY <1>3, <1>6, <3>1 DEF Clear
    <2> QED BY <1>2, <1>3, <1>6, <2>1 DEF Lasting
  <1> QED
    BY <1>1, <1>4, <1>5, <1>6

\* What lasts is announced.
LEMMA LastingHas ==
  ASSUME NEW w, NEW q, NEW v, Lasting(w, q, v)
  PROVE  Has(q, "NEW_SERVER") /\ q # <<>>
  <1>1. PICK i \in DOMAIN q : q[i] = Msg("NEW_SERVER", v)
    BY DEF Lasting
  <1>2. q[i] \in ToSet(q) /\ q[i].kind = "NEW_SERVER"
    BY <1>1 DEF ToSet, Msg
  <1>3. Has(q, "NEW_SERVER")
    BY <1>2 DEF Has
  <1> QED
    BY <1>3, NoMessage

-----------------------------------------------------------------------------
\* What a router knows, or learns, from another one, it knows over a transport that is up.
OverUp(side, x, v) ==
  HomeOf[v] \in side[x] /\ (Learning(x, v) \/ \E w \in Tabled : Stays(w, x[2], v)) => up[There(x)]

\* Every server known over a transport is known over one that is up.
OverUps(side) == \A x \in Xports, v \in Servers : OverUp(side, x, v)

\* An entry for a server on the near side of a transport, at its other end
LEMMA EntryAway ==
  ASSUME NEW side, Ways(side), Away(side), NEW x \in Xports, NEW v \in Servers, HomeOf[v] \in side[x],
         NEW w \in Tabled
  PROVE  Entry(w, x[2], v) \in {None, There(x)}
  <1>1. There(x) \in Xports /\ There(x)[1] = x[2] /\ v \in Beyond(side, There(x))
    BY Ends
  <1>2. x[2] \in Routers
    BY OtherEnd
  <1>3. server[x[2]][v] \in {None, There(x)}
    BY <1>1, <1>2, WhereKnown DEF Away
  <1>4. client[x[2]][v] \in {None, There(x)}
    BY <1>1, <1>2, WhereKnown DEF Away
  <1> QED
    BY <1>3, <1>4 DEF Entry

\* Where the jobs are still there and the entry is the same or gone
LEMMA StaysGrown ==
  ASSUME NEW w, NEW n, NEW v, \A u \in Threads : RouterOf(u) = n => Jobs(u) \subseteq Jobs(u)',
         Entry(w, n, v)' \in {Entry(w, n, v), None}, Stays(w, n, v)'
  PROVE  Stays(w, n, v) /\ Entry(w, n, v)' = Entry(w, n, v)
  <1>1. Entry(w, n, v)' = Entry(w, n, v) /\ Entry(w, n, v) # None
    BY DEF Stays
  <1>2. ASSUME NEW u \in Threads, RouterOf(u) = n, NEW s \in Jobs(u), Strikes(w, n, v, s)
        PROVE  FALSE
    <2>1. s \in Jobs(u)' /\ Jobs(u)' = ToSet(agenda'[u])
      BY <1>2 DEF Jobs
    <2>2. Strikes(w, n, v, s)'
      BY <1>1, <1>2 DEF Strikes, Entry
    <2>3. ~Strikes(w, n, v, s)'
      BY <1>2, <2>1 DEF Stays
    <2> QED BY <2>2, <2>3
  <1> QED
    BY <1>1, <1>2 DEF Stays

\* Only who registers a server from the other end has learned of it.
LEMMA LearningBefore ==
  ASSUME TypeInv, NEW t \in Threads, Work(t), NEW x \in Xports, NEW v, Learning(x, v)'
  PROVE  Learning(x, v) /\ t # There(x)
  <1> DEFINE y == There(x)
  <1>1. y \in Threads /\ y' = y
    BY OtherEnd DEF There
  <1>2. PICK s \in Jobs(y)' : s.do = "register" /\ s.of = v
    BY <1>1 DEF Learning
  <1>3. t # y
    <2> SUFFICES ASSUME t = y PROVE FALSE
      OBVIOUS
    <2>1. s \in After(t) \/ Made(t, s)
      BY <1>2, WorkMakes
    <2>2. s \in After(t)
      BY <1>2, <2>1, NeverMade
    <2>3. After(t) \subseteq Plain
      <3>1. agenda[t] # <<>>
        BY WorkNow
      <3>2. Tail(agenda[t]) \in Seq(Plain)
        BY <3>1, NowType
      <3> QED BY <3>2 DEF After, ToSet
    <2> QED BY <1>2, <2>2, <2>3 DEF Plain
  <1>4. Jobs(y)' = Jobs(y)
    BY <1>1, <1>3, WorkOthers DEF Others, Jobs
  <1> QED
    BY <1>2, <1>3, <1>4 DEF Learning

\* Who takes down what was known over a transport
LEMMA DownOf ==
  ASSUME NEW side, TypeInv, Sided(side), NEW t \in Threads, NEW s \in Jobs(t), NEW y \in Xports,
         s.do = "down", y \in s.xs
  PROVE  RouterOf(t) = y[1] /\ (t = y \/ Jobs(y) = {})
  <1>1. s.xs = {y} /\ y[1] = RouterOf(t)
    BY SourceSide DEF Sourced
  <1>2. PICK z \in Xports : z[1] = RouterOf(t) /\ Owns(side, z, t) /\ (s = Closes(z) \/ FromIt(side, z, s))
    <2>1. ~OfApp(t, s)
      BY DEF OfApp, Writes
    <2> QED BY <2>1, JobOf
  <1>3. s.xs = {z}
    BY <1>2, DoFields DEF FromIt, Sourced, Closes
  <1>4. z = y
    BY <1>1, <1>3
  <1> QED
    BY <1>1, <1>2, <1>4, Elements DEF Owns, Falls, Jobs

\* What is known at the far end, was known or learned.
LEMMA KnownBefore ==
  ASSUME NEW side, Ways(side), TypeInv, Sided(side), Tables, NEW t \in Threads, Work(t),
         NEW w \in Tabled, NEW x \in Xports, NEW v \in Servers, HomeOf[v] \in side[x],
         Stays(w, x[2], v)' \/ Learning(x, v)'
  PROVE  Stays(w, x[2], v) \/ Learning(x, v)
  <1> DEFINE y == There(x)
  <1>1. y \in Xports /\ y[1] = x[2] /\ x[2] \in Routers
    BY OtherEnd
  <1>2. Now(t) \in Jobs(t)
    BY WorkNow
  <1> SUFFICES ASSUME Stays(w, x[2], v)' PROVE Stays(w, x[2], v) \/ Learning(x, v)
    BY LearningBefore
  <1> SUFFICES ASSUME x[2] = RouterOf(t) /\ v = Now(t).of /\ Now(t).do = "register"
               PROVE  Learning(x, v)
    BY <1>1, StaysBefore
  <1>3. ~OfApp(t, Now(t)) \/ HomeOf[v] = x[2] \/ t \notin Routers
    BY DEF OfApp, RouterOf
  <1>4. HomeOf[v] # x[2] /\ \A z \in Xports : z[1] = x[2] /\ v \in Beyond(side, z) => z = y
    BY Ends
  <1>5. PICK z \in Xports : z[1] = RouterOf(t) /\ Owns(side, z, t)
                            /\ (Now(t) = Closes(z) \/ FromIt(side, z, Now(t)))
    BY <1>2, <1>3, <1>4, JobOf
  <1>6. v \in Beyond(side, z)
    BY <1>5, DoFields DEF FromIt, News, Closes
  <1>7. z = y
    BY <1>4, <1>5, <1>6
  <1>8. CASE t = y
    BY <1>2, <1>8 DEF Learning
  <1>9. CASE t = y[1] /\ Falls(side, y)
    <2>1. Now(t) = Closes(y) \/ OfFall(side, y, Now(t))
      BY <1>2, <1>9 DEF Falls
    <2> QED BY <2>1, DoFields DEF OfFall, Closes
  <1> QED
    BY <1>5, <1>7, <1>8, <1>9 DEF Owns

\* Threads leave it so, ...
LEMMA WorkOverUp ==
  ASSUME NEW side, Ways(side), TypeInv, Away(side), Ordered, Sided(side), Links, Tables, OverUps(side),
         NEW t \in Threads, Work(t), NEW x \in Xports, NEW v \in Servers
  PROVE  OverUp(side, x, v)'
  <1> DEFINE y == There(x)
  <1> SUFFICES ASSUME HomeOf[v] \in side[x], Learning(x, v)' \/ \E w \in Tabled : Stays(w, x[2], v)'
               PROVE  up'[y]
    BY DEF OverUp, There
  <1>1. y \in Xports /\ y[1] = x[2] /\ x[2] \in Routers /\ There(y) = x /\ RouterOf(y) = x[2] /\ y \in Threads
    BY OtherEnd
  <1>2. Now(t) \in Jobs(t)
    BY WorkNow
  <1>3. ASSUME Now(t).do = "down", y = From(t), up[y] PROVE FALSE
    <2>1. PICK z \in Xports : Now(t).xs = {z} /\ From(t) = z /\ z[1] = RouterOf(t)
      BY <1>3, WhoseStep
    <2>2. y \in Now(t).xs /\ RouterOf(t) = x[2]
      BY <1>1, <1>3, <2>1
    <2>3. CASE Learning(x, v)'
      <3>1. Learning(x, v) /\ t # y
        BY <2>3, LearningBefore
      <3>2. Jobs(y) # {}
        BY <3>1 DEF Learning
      <3> QED BY <1>1, <1>2, <1>3, <2>2, <3>1, <3>2, DownOf
    <2>4. ASSUME NEW w \in Tabled, Stays(w, x[2], v)' PROVE FALSE
      <3>1. Stays(w, x[2], v)
        BY <1>1, <1>3, <2>4, StaysBefore
      <3>2. Entry(w, x[2], v) = y
        BY <3>1, EntryAway DEF Stays
      <3>3. Strikes(w, x[2], v, Now(t))
        BY <1>3, <2>2, <3>2 DEF Strikes, Entry, Tabled
      <3> QED BY <1>2, <2>2, <3>1, <3>3 DEF Stays
    <2> QED BY <2>3, <2>4
  <1>4. Learning(x, v) \/ \E w \in Tabled : Stays(w, x[2], v)
    <2>1. Learning(x, v)' => Learning(x, v)
      BY LearningBefore
    <2>2. ASSUME NEW w \in Tabled, Stays(w, x[2], v)' PROVE Stays(w, x[2], v) \/ Learning(x, v)
      BY <2>2, KnownBefore
    <2> QED BY <2>1, <2>2
  <1>5. up[y]
    BY <1>4 DEF OverUps, OverUp
  <1> QED
    BY <1>1, <1>3, <1>5, WorkUp

\* so do beginnings, ...
LEMMA GrownOverUp ==
  ASSUME NEW side, NEW x \in Xports, NEW v \in Servers, OverUp(side, x, v),
         \A u \in Threads : RouterOf(u) = x[2] => Jobs(u) \subseteq Jobs(u)',
         server'[x[2]][v] \in {server[x[2]][v], None}, client'[x[2]][v] \in {client[x[2]][v], None},
         up[There(x)] => up'[There(x)],
         Learning(x, v)' => Learning(x, v) \/ up[There(x)]
  PROVE  OverUp(side, x, v)'
  <1>1. ASSUME NEW w \in Tabled, Stays(w, x[2], v)' PROVE Stays(w, x[2], v)
    <2>1. Entry(w, x[2], v)' \in {Entry(w, x[2], v), None}
      BY DEF Entry
    <2> QED BY <1>1, <2>1, StaysGrown
  <1>2. There(x)' = There(x)
    BY DEF There
  <1> QED
    BY <1>1, <1>2 DEF OverUp

\* A thread that begins something leaves all others what they have to do.
LEMMA StartsGrow ==
  ASSUME NEW t, NEW S, Starts(t, S)
  PROVE  \A u \in Threads : Jobs(u) \subseteq Jobs(u)'
  <1> SUFFICES ASSUME NEW u \in Threads PROVE Jobs(u) \subseteq Jobs(u)'
    OBVIOUS
  <1>1. u # t => Jobs(u)' = Jobs(u)
    BY StartsOnly
  <1>2. u = t => Jobs(u) = {}
    BY StartsOnly
  <1> QED
    BY <1>1, <1>2

\* What it learns, it begins with.
LEMMA StartsLearning ==
  ASSUME NEW t, NEW S, Starts(t, S), NEW x \in Xports, NEW v, Learning(x, v)'
  PROVE  Learning(x, v) \/ (t = There(x) /\ \E s \in S : s.do = "register" /\ s.of = v)
  <1> DEFINE y == There(x)
  <1>1. y \in Threads /\ y' = y
    BY OtherEnd DEF There
  <1>2. PICK s \in Jobs(y)' : s.do = "register" /\ s.of = v
    BY <1>1 DEF Learning
  <1>3. y # t => Jobs(y)' = Jobs(y)
    BY <1>1, StartsOnly
  <1>4. y = t => Jobs(y)' = S
    BY <1>1, StartsOnly
  <1> QED
    BY <1>2, <1>3, <1>4 DEF Learning

\* What applications do to the tables
LEMMA ApplicationTables ==
  ASSUME TypeInv, NEW v \in Servers, RegServer(v) \/ DeregServer(v) \/ Close(v), NEW n \in Routers,
         NEW u \in Servers
  PROVE  /\ client' = client
         /\ \/ server'[n][u] = server[n][u]
            \/ DeregServer(v) /\ n = HomeOf[v] /\ u = v /\ server'[n][u] = None
  <1>1. client' = client
    BY DEF RegServer, DeregServer, Close, tables
  <1>2. CASE RegServer(v) \/ Close(v)
    BY <1>1, <1>2 DEF RegServer, Close, tables
  <1>3. CASE DeregServer(v)
    <2>1. server' = [server EXCEPT ![HomeOf[v]][v] = None]
      BY <1>3 DEF DeregServer
    <2> QED BY <1>1, <1>3, <2>1 DEF TypeInv, TypeOK
  <1> QED
    BY <1>2, <1>3

\* Applications leave it so, ...
LEMMA ApplicationOverUp ==
  ASSUME NEW side, TypeInv, NEW u \in Servers, RegServer(u) \/ DeregServer(u) \/ Close(u),
         NEW x \in Xports, NEW v \in Servers, OverUp(side, x, v)
  PROVE  OverUp(side, x, v)'
  <1>1. PICK S : Starts(HomeOf[u], S)
    BY ApplicationStarts
  <1>2. \A z \in Threads : Jobs(z) \subseteq Jobs(z)'
    BY <1>1, StartsGrow
  <1>3. x[2] \in Routers /\ There(x) \notin Routers
    BY OtherEnd
  <1>4. HomeOf[u] # There(x)
    BY <1>3, NamingAssumption
  <1>5. Learning(x, v)' => Learning(x, v)
    BY <1>1, <1>4, StartsLearning
  <1>6. server'[x[2]][v] \in {server[x[2]][v], None} /\ client'[x[2]][v] = client[x[2]][v]
    BY <1>3, ApplicationTables
  <1>7. up' = up
    BY ApplicationStarts
  <1> QED
    BY <1>2, <1>5, <1>6, <1>7, GrownOverUp

\* What goes with the stopping of a transport is not known over it any more.
LEMMA StopOverUp ==
  ASSUME NEW side, Ways(side), TypeInv, Away(side), NEW z \in Xports, StopXport(z),
         NEW x \in Xports, NEW v \in Servers, OverUp(side, x, v)
  PROVE  OverUp(side, x, v)'
  <1>1. PICK S : S = {Do("down", None, {z}), Closes(z)}
    OBVIOUS
  <1>2. agenda[z] = <<>> /\ Starts(z[1], S)
    BY <1>1, TransportStarts
  <1>3. \A u \in Threads : Jobs(u) \subseteq Jobs(u)'
    BY <1>2, StartsGrow
  <1>4. server' = server /\ client' = client
    BY DEF StopXport, tables
  <1>5. Learning(x, v)' => Learning(x, v)
    <2>1. \A s \in S : s.do # "register"
      BY <1>1, DoFields DEF Closes
    <2> QED BY <1>2, <2>1, StartsLearning
  <1>6. CASE There(x) # z
    <2>1. up'[There(x)] = up[There(x)]
      BY <1>6, OtherEnd DEF StopXport, TypeInv, TypeOK
    <2> QED BY <1>3, <1>4, <1>5, <2>1, GrownOverUp
  <1>7. CASE There(x) = z
    <2> SUFFICES ASSUME HomeOf[v] \in side[x],
                        Learning(x, v)' \/ \E w \in Tabled : Stays(w, x[2], v)'
                 PROVE  FALSE
      BY DEF OverUp, There
    <2>1. ~Learning(x, v)'
      BY <1>2, <1>5, <1>7, Elements DEF Learning, Jobs
    <2>2. PICK w \in Tabled : Stays(w, x[2], v)'
      BY <2>1
    <2>3. Entry(w, x[2], v)' = Entry(w, x[2], v)
      BY <1>4 DEF Entry
    <2>4. Entry(w, x[2], v)' = z
      BY <1>7, <2>2, <2>3, EntryAway DEF Stays
    <2>5. Down(z) \in Jobs(z[1])' /\ z[1] \in Threads /\ RouterOf(z[1]) = z[1] /\ z[1] = x[2]
      BY <1>1, <1>2, <1>7, OtherEnd DEF Starts, Down
    <2>6. Strikes(w, x[2], v, Down(z))'
      BY <2>4, DoFields DEF Strikes, Entry, Tabled, Down
    <2>7. ~Strikes(w, x[2], v, Down(z))'
      BY <2>2, <2>5 DEF Stays, Down
    <2> QED BY <2>6, <2>7
  <1> QED
    BY <1>6, <1>7

\* A transport that starts was not up, one that opens stays as it was.
LEMMA SameOverUp ==
  ASSUME NEW side, TypeInv, Links, NEW z \in Xports, StartXport(z) \/ Open(z),
         NEW x \in Xports, NEW v \in Servers, OverUp(side, x, v)
  PROVE  OverUp(side, x, v)'
  <1>1. agenda' = agenda
    BY TransportStarts
  <1>2. server' = server /\ client' = client
    BY DEF StartXport, Open, tables
  <1>3. up[There(x)] => up'[There(x)]
    <2>1. StartXport(z) => ~up[z]
      BY DEF StartXport, Links, Linked
    <2> QED BY <2>1, OtherEnd, ZenonT(60) DEF StartXport, Open, TypeInv, TypeOK
  <1>4. \A u \in Threads : Jobs(u)' = Jobs(u)
    BY <1>1 DEF Jobs
  <1>5. There(x)' = There(x) /\ There(x) \in Threads
    BY OtherEnd DEF There
  <1>6. Learning(x, v)' => Learning(x, v)
    BY <1>4, <1>5 DEF Learning
  <1> QED
    BY <1>2, <1>3, <1>4, <1>6, GrownOverUp

\* ... and so does the end of the other side.
LEMMA RemoteCloseOverUp ==
  ASSUME NEW side, TypeInv, NEW z \in Xports, RemoteClose(z),
         NEW x \in Xports, NEW v \in Servers, OverUp(side, x, v)
  PROVE  OverUp(side, x, v)'
  <1>1. PICK S : S = {Do("flush", None, {z})} \cup (IF up[z] THEN {Do("down", None, {z})} ELSE {})
    OBVIOUS
  <1>2. Starts(z, S)
    BY <1>1, TransportStarts
  <1>3. \A u \in Threads : Jobs(u) \subseteq Jobs(u)'
    BY <1>2, StartsGrow
  <1>4. server' = server /\ client' = client /\ up' = up
    BY DEF RemoteClose, tables, links
  <1>5. \A s \in S : s.do # "register"
    BY <1>1, DoFields
  <1>6. Learning(x, v)' => Learning(x, v)
    BY <1>2, <1>5, StartsLearning
  <1> QED
    BY <1>3, <1>4, <1>6, GrownOverUp

\* A worker takes an announcement after a greeting.
LEMMA ReceiveOverUp ==
  ASSUME NEW side, TypeInv, Wires, NEW z \in Xports, Receive(z),
         NEW x \in Xports, NEW v \in Servers, OverUp(side, x, v)
  PROVE  OverUp(side, x, v)'
  <1>1. PICK m : m = Head(net[There(z)])
    OBVIOUS
  <1>2. /\ Takes(z, m) /\ net[There(z)] # <<>> /\ net[There(z)] \in Seq(Message)
        /\ st[z] = "open" /\ st[There(z)] = "open"
    BY <1>1, ReceiveTakes
  <1>3. PICK S : Starts(z, S) /\ (m.kind # "NEW_SERVER" => \A s \in S : s.do # "register")
    <2>1. CASE m.kind = "NEW_SERVER"
      BY <1>2, <2>1 DEF Takes
    <2>2. CASE m.kind # "NEW_SERVER"
      <3>1. ASSUME NEW S, Starts(z, S), \A s \in S : s.do # "register"
            PROVE  \E T : Starts(z, T) /\ (m.kind # "NEW_SERVER" => \A s \in T : s.do # "register")
        BY <3>1
      <3>2. CASE Starts(z, {Do("hello", None, {z})})
        <4>1. PICK S : S = {Do("hello", None, {z})}
          OBVIOUS
        <4>2. \A s \in S : s.do # "register"
          BY <4>1, DoFields
        <4> QED BY <3>1, <3>2, <4>1, <4>2
      <3>3. CASE Starts(z, {Do("down", None, {z})})
        <4>1. PICK S : S = {Do("down", None, {z})}
          OBVIOUS
        <4>2. \A s \in S : s.do # "register"
          BY <4>1, DoFields
        <4> QED BY <3>1, <3>3, <4>1, <4>2
      <3>4. CASE Starts(z, {})
        <4>1. PICK S : S = {}
          OBVIOUS
        <4>2. \A s \in S : s.do # "register"
          BY <4>1, DoFields
        <4> QED BY <3>1, <3>4, <4>1, <4>2
      <3>5. CASE Starts(z, {Do("dropServer", m.of, {z}), Do("tellServer", m.of, {z})})
        <4>1. PICK S : S = {Do("dropServer", m.of, {z}), Do("tellServer", m.of, {z})}
          OBVIOUS
        <4>2. \A s \in S : s.do # "register"
          BY <4>1, DoFields
        <4> QED BY <3>1, <3>5, <4>1, <4>2
      <3>6. CASE Starts(z, {Do("tellClient", m.of, {z}), Do("removeClient", m.of, {z})})
        <4>1. PICK S : S = {Do("tellClient", m.of, {z}), Do("removeClient", m.of, {z})}
          OBVIOUS
        <4>2. \A s \in S : s.do # "register"
          BY <4>1, DoFields
        <4> QED BY <3>1, <3>6, <4>1, <4>2
      <3> QED BY <1>2, <2>2, <3>2, <3>3, <3>4, <3>5, <3>6 DEF Takes
    <2> QED BY <2>1, <2>2
  <1>4. \A u \in Threads : Jobs(u) \subseteq Jobs(u)'
    BY <1>3, StartsGrow
  <1>5. server' = server /\ client' = client /\ up' = up
    BY DEF Receive, tables
  <1>6. Learning(x, v)' => Learning(x, v) \/ up[There(x)]
    <2> SUFFICES ASSUME Learning(x, v)', ~Learning(x, v) PROVE up[There(x)]
      OBVIOUS
    <2>1. z = There(x) /\ m.kind = "NEW_SERVER"
      BY <1>3, StartsLearning
    <2>2. There(z) = x
      BY <2>1, OtherEnd
    <2>3. ~Closing(z) /\ ~Greets(z)
      BY WhenReady DEF Receive
    <2>4. ~Ahead(net[x])
      BY <1>1, <1>2, <2>1, <2>2, KindsLess
    <2> QED BY <1>2, <2>1, <2>2, <2>3, <2>4 DEF Wires, Wire, Before
  <1> QED
    BY <1>4, <1>5, <1>6, GrownOverUp

\* A router that restarts knows nothing.
LEMMA RestartOverUp ==
  ASSUME NEW side, TypeInv, NEW n \in Routers, Restart(n),
         NEW x \in Xports, NEW v \in Servers, OverUp(side, x, v)
  PROVE  OverUp(side, x, v)'
  <1>1. /\ There(x) \in Xports /\ There(x) \in Threads /\ RouterOf(There(x)) = x[2] /\ x[2] \in Routers
        /\ There(x)[1] = x[2] /\ There(x)' = There(x)
    BY OtherEnd DEF There
  <1>2. CASE x[2] = n
    <2>1. Jobs(There(x))' = {}
      BY <1>1, <1>2, RestartClears
    <2>2. ~Learning(x, v)'
      BY <1>1, <2>1 DEF Learning
    <2>3. server'[x[2]][v] = None /\ client'[x[2]][v] = None
      BY <1>1, <1>2 DEF Restart, TypeInv, TypeOK
    <2>4. ASSUME NEW w \in Tabled PROVE ~Stays(w, x[2], v)'
      BY <2>3 DEF Stays, Entry
    <2> QED BY <2>2, <2>4 DEF OverUp
  <1>3. CASE x[2] # n
    <2>1. \A u \in Threads : RouterOf(u) = x[2] => Jobs(u)' = Jobs(u)
      BY <1>3, RestartClears DEF Jobs
    <2>2. server'[x[2]][v] = server[x[2]][v] /\ client'[x[2]][v] = client[x[2]][v]
      BY <1>1, <1>3 DEF Restart, TypeInv, TypeOK
    <2>3. up'[There(x)] = up[There(x)]
      BY <1>1, <1>3, RestartClears
    <2>4. Learning(x, v)' => Learning(x, v)
      BY <1>1, <2>1 DEF Learning
    <2> QED BY <2>1, <2>2, <2>3, <2>4, GrownOverUp
  <1> QED
    BY <1>2, <1>3

\* No step of the routers changes that.
LEMMA OverUpsKept ==
  ASSUME NEW side, Ways(side), TypeInv, Away(side), Ordered, Sided(side), Links, Tables, Wires,
         OverUps(side), [Next]_vars
  PROVE  OverUps(side)'
  <1> SUFFICES ASSUME NEW x \in Xports, NEW v \in Servers PROVE OverUp(side, x, v)'
    BY DEF OverUps
  <1>1. OverUp(side, x, v)
    BY DEF OverUps
  <1>2. ASSUME NEW t \in Threads, Work(t) PROVE OverUp(side, x, v)'
    BY <1>2, WorkOverUp
  <1>3. ASSUME NEW u \in Servers, RegServer(u) \/ DeregServer(u) \/ Close(u)
        PROVE  OverUp(side, x, v)'
    BY <1>1, <1>3, ApplicationOverUp
  <1>4. ASSUME NEW z \in Xports, StartXport(z) \/ StopXport(z) \/ Signalled(z)
        PROVE  OverUp(side, x, v)'
    BY <1>1, <1>4, SameOverUp, StopOverUp, RemoteCloseOverUp, ReceiveOverUp DEF Signalled
  <1>5. ASSUME NEW n \in Routers, Restart(n) PROVE OverUp(side, x, v)'
    BY <1>1, <1>5, RestartOverUp
  <1>6. CASE UNCHANGED vars
    <2>1. \A u \in Threads : Jobs(u)' = Jobs(u)
      BY <1>6 DEF vars, threads, Jobs
    <2>2. server' = server /\ client' = client /\ up' = up
      BY <1>6 DEF vars, tables, links
    <2>3. There(x)' = There(x) /\ There(x) \in Threads
      BY OtherEnd DEF There
    <2>4. Learning(x, v)' => Learning(x, v)
      BY <2>1, <2>3 DEF Learning
    <2> QED BY <1>1, <2>1, <2>2, <2>4, GrownOverUp
  <1> QED
    BY <1>2, <1>3, <1>4, <1>5, <1>6 DEF Next

-----------------------------------------------------------------------------
(***************************************************************************)
(* What is known at the other end is known or withdrawn here               *)
(***************************************************************************)

\* Nobody is about to drop the endpoint and has told so.
Kept(n, v) == \A t \in Threads : RouterOf(t) = n => \A s \in Jobs(t) :
                ~(s.do \in {"dropClient", "removeClient"} /\ s.of = v)

\* A step that withdraws a server, or its endpoint, or leads to one that does
Owes(w, n, v, s) ==
  \/ s.do = "tellClient" /\ s.of = v /\ client[n][v] # None
  \/ w = "server" /\ s.do \in {"tellServer", "downServer"} /\ s.of = v
  \/ w = "server" /\ s.do = "down" /\ server[n][v] \in s.xs
  \/ w = "client" /\ Kept(n, v) /\ s.do = "downClient" /\ s.of = v /\ client[n][v] # None
  \/ w = "client" /\ Kept(n, v) /\ s.do \in {"down", "downClients"} /\ client[n][v] \in s.xs

\* A thread of the router has yet to tell of the end.
Owed(w, n, v) == \E t \in Threads : RouterOf(t) = n /\ \E s \in Jobs(t) : Owes(w, n, v, s)

\* The other end knows it, or will.
Knows(w, x, v) == \/ Lasting(w, net[x], v)
                  \/ Clear(w, net[x], v) /\ (Stays(w, x[2], v) \/ Learning(x, v))

\* One of the two ends is about to fall.
Falling(x) == \/ st[x] = "lost" \/ st[There(x)] = "lost"
              \/ Closing(x) \/ Closing(There(x))

\* Away from its router, a server is known only over transports that are up and from routers
\* that know it or will withdraw it.
Accounted(side, w, x, v) ==
  HomeOf[v] \in side[x] /\ Knows(w, x, v) =>
    Falling(x) \/ (up[x] /\ (Stays(w, x[1], v) \/ Owed(w, x[1], v)))

\* Everything known over a link is accounted for at its other end.
AllAccounted(side) == \A w \in Tabled, x \in Xports, v \in Servers : Accounted(side, w, x, v)

\* What is known over a link came over an open one.
LEMMA OpenNext ==
  ASSUME NEW side, Links', Wires', OverUps(side)', NEW w \in Tabled, NEW x \in Xports,
         NEW v \in Servers, HomeOf[v] \in side[x], Knows(w, x, v)', ~Falling(x)'
  PROVE  /\ st'[x] = "open" /\ st'[There(x)] = "open"
         /\ ~Closing(x)' /\ ~Closing(There(x))'
  <1> DEFINE y == There(x)
  <1>1. y \in Xports /\ There(y) = x /\ y' = y /\ There(y)' = x
    BY OtherEnd DEF There
  <1>2. /\ st'[x] # "lost" /\ st'[y] # "lost"
        /\ ~Closing(x)' /\ ~Closing(y)'
    BY <1>1 DEF Falling
  <1>3. CASE Lasting(w, net[x], v)'
    <2>1. Lasting(w, net'[x], v)
      BY <1>3 DEF Lasting, Cancels
    <2>2. Has(net'[x], "NEW_SERVER")
      BY <2>1, LastingHas
    <2>3. Has(net[x], "NEW_SERVER")'
      BY <2>2 DEF Has
    <2>4. Announces(x)'
      BY DEF Wires, Wire
    <2> QED BY <1>1, <1>2, <2>3, <2>4 DEF Announces
  <1>4. CASE Stays(w, x[2], v)' \/ Learning(x, v)'
    <2>1. up'[y]
      BY <1>1, <1>4 DEF OverUps, OverUp
    <2>2. Linked(y)'
      BY <1>1 DEF Links
    <2> QED BY <1>1, <1>2, <2>1, <2>2 DEF Linked
  <1> QED
    BY <1>3, <1>4 DEF Knows

\* What a thread tells of a server goes to every transport that is up and leads away from it.
LEMMA TellsAll ==
  ASSUME NEW side, Ways(side), Overlaps = {}, TypeInv, Sided(side), NEW t \in Threads, Work(t),
         NEW x \in Xports, up[x], RouterOf(t) = x[1], NEW v \in Servers, HomeOf[v] \in side[x],
         Now(t).of = v
  PROVE  /\ Now(t).do \in {"tellServer", "downServer"} =>
              net'[x] = Append(net[x], Msg("REMOVE_SERVER", v))
         /\ Now(t).do \in {"tellClient", "downClient"} /\ client[x[1]][v] # None =>
              net'[x] = Append(net[x], Msg("REMOVE_CLIENT", v))
  <1>1. ASSUME Now(t).do \in {"tellServer", "downServer", "tellClient", "downClient"}
        PROVE  x \in Reach(RouterOf(t), Now(t).xs)
    <2>1. Now(t) \in Jobs(t)
      BY WorkNow
    <2>2. ASSUME NEW z \in Now(t).xs PROVE NetOf[x] # NetOf[z]
      <3>1. z \in Xports /\ z[1] = RouterOf(t) /\ FromIt(side, z, Now(t))
        BY <1>1, <2>1, SourceSide DEF Sourced
      <3>2. v \in Beyond(side, z)
        BY <1>1, <3>1 DEF FromIt, News
      <3> QED BY <3>1, <3>2, Ends
    <2> QED BY <2>2 DEF Reach
  <1>2. \A m, steps : Tell(t, m, Reach(RouterOf(t), Now(t).xs), steps) =>
          (x \in Reach(RouterOf(t), Now(t).xs) => net'[x] = Append(net[x], m))
    BY ToldAtOnce DEF Send
  <1>3. ASSUME Now(t).do \in {"tellServer", "downServer"}
        PROVE  net'[x] = Append(net[x], Msg("REMOVE_SERVER", v))
    <2>1. TellServer(t)
      BY <1>3, WorkIs
    <2>2. PICK steps : Tell(t, Msg("REMOVE_SERVER", Now(t).of), Reach(RouterOf(t), Now(t).xs), steps)
      BY <2>1 DEF TellServer
    <2> QED BY <1>1, <1>2, <1>3, <2>2
  <1>4. ASSUME Now(t).do \in {"tellClient", "downClient"}, client[x[1]][v] # None
        PROVE  net'[x] = Append(net[x], Msg("REMOVE_CLIENT", v))
    <2>1. TellClient(t)
      BY <1>4, WorkIs
    <2>2. PICK steps : Tell(t, Msg("REMOVE_CLIENT", Now(t).of), Reach(RouterOf(t), Now(t).xs), steps)
      BY <1>4, <2>1 DEF TellClient
    <2> QED BY <1>1, <1>2, <1>4, <2>2
  <1> QED
    BY <1>3, <1>4

\* A step that withdraws a server is about it, ...
LEMMA OwesAbout ==
  ASSUME NEW side, Ways(side), TypeInv, Away(side), Sided(side), NEW u \in Threads,
         NEW s \in Jobs(u), NEW w, NEW v \in Servers, Owes(w, RouterOf(u), v, s)
  PROVE  About(side, v, s)
  <1> DEFINE n == RouterOf(u)
  <1>1. n \in Routers
    BY SomeThread
  <1>2. CASE s.do \in {"tellClient", "tellServer", "downServer", "downClient"} /\ s.of = v
    BY <1>2 DEF About, News
  <1>3. ASSUME NEW table, Known(side, table), table[n][v] \in s.xs, s.do \in {"down", "downClients"}
        PROVE  About(side, v, s)
    <2>1. table[n][v] \in Xports
      BY <1>3, SourceSide DEF Sourced
    <2>2. v \in Beyond(side, table[n][v])
      BY <1>1, <1>3, <2>1, WhereKnown
    <2> QED BY <1>3, <2>1, <2>2 DEF About
  <1>4. Known(side, server) /\ Known(side, client)
    BY DEF Away
  <1> QED
    BY <1>2, <1>3, <1>4 DEF Owes

\* ... and when it withdraws the endpoint, this is still known.
LEMMA OwesClient ==
  ASSUME NEW side, TypeInv, Sided(side), NEW u \in Threads, NEW s \in Jobs(u), NEW v,
         Owes("client", RouterOf(u), v, s)
  PROVE  client[RouterOf(u)][v] # None
  <1>1. CASE s.do \in {"down", "downClients"} /\ client[RouterOf(u)][v] \in s.xs
    <2>1. client[RouterOf(u)][v] \in Xports
      BY <1>1, SourceSide DEF Sourced
    <2> QED BY <2>1, NamingAssumption
  <1> QED
    BY <1>1 DEF Owes

\* What a thread leaves to do after it has told is not told before.
LEMMA KeptLasts ==
  ASSUME TypeInv, NEW t \in Threads, Work(t), NEW n \in Routers, NEW v \in Servers, Kept(n, v),
         ~(RouterOf(t) = n /\ Now(t).do = "downClient" /\ Now(t).of = v)
  PROVE  Kept(n, v)'
  <1> SUFFICES ASSUME NEW u \in Threads, RouterOf(u) = n, NEW s \in Jobs(u)',
                      s.do \in {"dropClient", "removeClient"}, s.of = v
               PROVE  FALSE
    BY DEF Kept, RouterOf
  <1>1. s \notin Jobs(u)
    BY DEF Kept
  <1>2. u = t
    BY <1>1, WorkOthers DEF Others, Jobs
  <1>3. Jobs(t) = {Now(t)} \cup After(t)
    BY WorkNow
  <1>4. s \notin After(t)
    BY <1>1, <1>2, <1>3
  <1>5. Made(t, s)
    BY <1>2, <1>4, WorkMakes
  <1>6. s.do = "dropClient"
    BY <1>5, NeverMade
  <1>7. Now(t).do = "downClient" /\ s.of = Now(t).of
    BY <1>5, <1>6, DoFields DEF Made
  <1> QED
    BY <1>2, <1>7

\* What a thread owes is told, or it still owes it.
LEMMA OwedLasts ==
  ASSUME NEW side, Ways(side), Overlaps = {}, TypeInv, Away(side), Sided(side), InTurn,
         NEW t \in Threads, Work(t), NEW w \in Tabled, NEW x \in Xports, up[x], NEW v \in Servers,
         HomeOf[v] \in side[x], Owed(w, x[1], v),
         ~(RouterOf(t) = x[1] /\ Now(t).do = "register" /\ Now(t).of = v),
         \A m : Cancels(w, m, v) => net'[x] # Append(net[x], m)
  PROVE  Owed(w, x[1], v)'
  <1> DEFINE n == x[1]
  <1>1. n \in Routers
    BY OtherEnd
  <1>2. PICK u \in Threads : RouterOf(u) = n /\ \E s \in Jobs(u) : Owes(w, n, v, s)
    BY DEF Owed
  <1>3. PICK s \in Jobs(u) : Owes(w, n, v, s)
    BY <1>2
  <1>4. Now(t) \in Jobs(t) /\ Jobs(t) = {Now(t)} \cup After(t) /\ agenda[t] # <<>>
    BY WorkNow
  <1>5. \A r \in After(t) : r.do \notin {"down", "tellClient"}
    BY <1>4, PlacedNow DEF InTurn
  <1>6. ASSUME RouterOf(t) = n, Now(t).of = v,
               \/ Now(t).do \in {"tellClient", "downClient"} /\ client[n][v] # None
               \/ w = "server" /\ Now(t).do \in {"tellServer", "downServer"}
        PROVE  FALSE
    BY <1>6, TellsAll DEF Cancels
  <1>7. u # t \/ s # Now(t) => s \in Jobs(u)'
    BY WorkKeeps
  <1>8. ASSUME NEW r, NEW z \in Threads, RouterOf(z) = n, r \in Jobs(z)', Owes(w, n, v, r)'
        PROVE  Owed(w, n, v)'
    BY <1>8 DEF Owed, RouterOf
  <1>9. About(side, v, s)
    BY <1>2, <1>3, OwesAbout
  <1>10. ASSUME RouterOf(t) = n, Now(t).of = v,
                Now(t).do \in {"dropClient", "removeClient", "dropServer"},
                s.do \in {"tellClient", "down"}
         PROVE  FALSE
    <2>1. About(side, v, Now(t))
      BY <1>10 DEF About, News
    <2>2. u = t
      BY <1>2, <1>4, <1>9, <1>10, <2>1, AboutOne
    <2> QED BY <1>4, <1>5, <1>10, <2>2
  <1>11. client'[n][v] = client[n][v]
         \/ (RouterOf(t) = n /\ Now(t).of = v /\ Now(t).do \in {"dropClient", "removeClient"})
    BY <1>1, WorkClient
  <1>12. server'[n][v] = server[n][v]
         \/ (RouterOf(t) = n /\ Now(t).of = v /\ Now(t).do = "dropServer")
    BY <1>1, WorkServer
  <1>13. CASE s.do = "tellClient" /\ s.of = v /\ client[n][v] # None
    <2>1. s \in Jobs(u)'
      BY <1>2, <1>6, <1>7, <1>13
    <2>2. client'[n][v] # None
      BY <1>10, <1>11, <1>13
    <2> QED BY <1>2, <1>8, <1>13, <2>1, <2>2 DEF Owes
  <1>14. CASE w = "server" /\ s.do \in {"tellServer", "downServer"} /\ s.of = v
    <2>1. s \in Jobs(u)'
      BY <1>2, <1>6, <1>7, <1>14
    <2> QED BY <1>2, <1>8, <1>14, <2>1 DEF Owes
  <1>15. CASE w = "server" /\ s.do = "down" /\ server[n][v] \in s.xs
    <2>1. CASE u = t /\ s = Now(t)
      <3>1. PICK r : r = Do("downServer", v, Now(t).xs)
        OBVIOUS
      <3>2. r \in Jobs(t)'
        BY <1>2, <1>15, <2>1, <3>1, WorkRemoves
      <3>3. r.do = "downServer" /\ r.of = v
        BY <3>1, DoFields
      <3> QED BY <1>2, <1>8, <1>15, <2>1, <3>2, <3>3 DEF Owes
    <2>2. CASE s \in Jobs(u)'
      <3>1. server'[n][v] = server[n][v]
        BY <1>10, <1>12, <1>15
      <3> QED BY <1>2, <1>8, <1>15, <2>2, <3>1 DEF Owes
    <2> QED BY <1>7, <2>1, <2>2
  <1>16. ASSUME w = "client", Kept(n, v), client[n][v] # None
         PROVE  Kept(n, v)' /\ client'[n][v] = client[n][v]
    <2>1. Kept(n, v)'
      BY <1>1, <1>6, <1>16, KeptLasts
    <2>2. client'[n][v] = client[n][v]
      BY <1>4, <1>11, <1>16 DEF Kept
    <2> QED BY <2>1, <2>2
  <1>17. w = "client" => client[n][v] # None
    BY <1>2, <1>3, OwesClient
  <1>18. CASE w = "client" /\ Kept(n, v) /\ s.do = "downClient" /\ s.of = v
    <2>1. s \in Jobs(u)'
      BY <1>2, <1>6, <1>7, <1>17, <1>18
    <2> QED BY <1>2, <1>8, <1>16, <1>17, <1>18, <2>1 DEF Owes
  <1>19. CASE w = "client" /\ Kept(n, v) /\ s.do \in {"down", "downClients"} /\ client[n][v] \in s.xs
    <2>1. CASE u = t /\ s = Now(t) /\ s.do = "down"
      <3>1. PICK r : r = Do("downClients", None, Now(t).xs)
        OBVIOUS
      <3>2. r \in Jobs(t)'
        BY <2>1, <3>1, WorkStrips
      <3>3. r.do = "downClients" /\ r.xs = s.xs
        BY <2>1, <3>1, DoFields
      <3> QED BY <1>2, <1>8, <1>16, <1>17, <1>19, <2>1, <3>2, <3>3 DEF Owes
    <2>2. CASE u = t /\ s = Now(t) /\ s.do = "downClients"
      <3>1. PICK r : r = Do("downClient", v, Now(t).xs)
        OBVIOUS
      <3>2. r \in Jobs(t)'
        BY <1>2, <1>19, <2>2, <3>1, WorkStrips
      <3>3. r.do = "downClient" /\ r.of = v
        BY <3>1, DoFields
      <3> QED BY <1>2, <1>8, <1>16, <1>17, <1>19, <2>2, <3>2, <3>3 DEF Owes
    <2>3. CASE s \in Jobs(u)'
      BY <1>2, <1>8, <1>16, <1>17, <1>19, <2>3 DEF Owes
    <2> QED BY <1>7, <1>19, <2>1, <2>2, <2>3
  <1> QED
    BY <1>3, <1>13, <1>14, <1>15, <1>18, <1>19 DEF Owes

\* What is advertised stays.
LEMMA AdvertisedStays ==
  ASSUME TypeInv, Tables, InTurn, NEW t \in Threads, NEW s \in Jobs(t), s.do = "advertise",
         NEW v \in Servers, s.of = v, NEW w \in Tabled
  PROVE  Stays(w, RouterOf(t), v)
  <1> DEFINE n == RouterOf(t)
  <1>1. n \in Routers /\ ~Removing(n) /\ server[n][v] # None
    BY SomeThread DEF InTurn, Apart
  <1>2. \A u \in Threads : RouterOf(u) = n => \A r \in Jobs(u) : r.do \notin Removals
    BY <1>1, RemovingJobs
  <1>3. client[n][v] # None
    BY <1>1, <1>2 DEF Tables, Table, Dropping, Removals
  <1> QED
    BY <1>1, <1>2, <1>3 DEF Stays, Strikes, Entry, Removals

\* A link that is open after a step of a thread was so before, and what was sent on it is one message.
LEMMA OpenBefore ==
  ASSUME NEW side, Ways(side), TypeInv, Away(side), Ordered, Sided(side), Links, InTurn, Wires,
         NEW t \in Threads, Work(t), NEW x \in Xports,
         st'[x] = "open", st'[There(x)] = "open", ~Closing(x)', ~Closing(There(x))'
  PROVE  Carry(t, x) /\ ~Falling(x)
  <1> DEFINE y == There(x)
  <1>1. y \in Xports /\ There(y) = x
    BY OtherEnd
  <1>2. ASSUME NEW e \in {x, y} PROVE ~EndsNow(t, e)
    <2>1. e \in Xports
      BY <1>1
    <2>2. ~Over(e)
      BY <1>2 DEF Over
    <2> QED BY <2>1, <2>2, WorkOver
  <1>3. Closed(x) /\ Closed(y)
    BY <1>1 DEF Wires, Wire
  <1>4. Carry(t, x)
    BY <1>1, <1>2, <1>3, WorkCarry
  <1>5. Carry(t, y)
    BY <1>1, <1>2, <1>3, WorkCarry
  <1>6. /\ st[x] = "open" /\ ~Closing(x)
        /\ st[y] = "open" /\ ~Closing(y)
    BY <1>4, <1>5 DEF Carry
  <1> QED
    BY <1>4, <1>6 DEF Falling

\* It stays up.
LEMMA UpLasts ==
  ASSUME NEW t, NEW x \in Xports, Wire(x), Carry(t, x), ~Falling(x), up[x]
  PROVE  up'[x]
  <1>1. ~Leaves(x)
    BY DEF Wire, Farewell, Falling
  <1> QED
    BY <1>1 DEF Carry, Falling

\* What a thread sends changes what the other end will know as far as it says so.
LEMMA KnowsBefore ==
  ASSUME NEW side, Ways(side), TypeInv, Away(side), Sided(side), Tables, NEW t \in Threads, Work(t),
         NEW w \in Tabled, NEW x \in Xports, NEW v \in Servers, HomeOf[v] \in side[x],
         Carry(t, x), Knows(w, x, v)'
  PROVE  \/ Knows(w, x, v) /\ \A m : Cancels(w, m, v) => net'[x] # Append(net[x], m)
         \/ net'[x] = Append(net[x], Msg("NEW_SERVER", v)) /\ up[x]
  <1>1. Stays(w, x[2], v)' \/ Learning(x, v)' => Stays(w, x[2], v) \/ Learning(x, v)
    BY KnownBefore
  <1>2. Lasting(w, net'[x], v) \/ (Clear(w, net'[x], v) /\ (Stays(w, x[2], v) \/ Learning(x, v)))
    BY <1>1 DEF Knows, Lasting, Clear, Cancels
  <1>3. net[x] \in Seq(Message)
    BY DEF TypeInv, TypeOK
  <1>4. \A m, k : Append(net[x], m) = Append(net[x], k) => m = k
    <2> SUFFICES ASSUME NEW m, NEW k, Append(net[x], m) = Append(net[x], k) PROVE m = k
      OBVIOUS
    <2>1. Append(net[x], m)[Len(net[x]) + 1] = m /\ Append(net[x], k)[Len(net[x]) + 1] = k
      BY <1>3
    <2> QED BY <2>1
  <1>5. CASE net'[x] = net[x]
    <2>1. \A m : net'[x] # Append(net[x], m)
      <3>1. \A m : Len(Append(net[x], m)) = Len(net[x]) + 1 /\ Len(net[x]) \in Nat
        BY <1>3
      <3>2. Len(net[x]) # Len(net[x]) + 1
        BY <3>1
      <3> QED BY <1>5, <3>1, <3>2
    <2> QED BY <1>2, <1>5, <2>1 DEF Knows
  <1>6. ASSUME NEW m \in Message, net'[x] = Append(net[x], m),
               m.kind = "HELLO" \/ up[x]
        PROVE  \/ Knows(w, x, v) /\ \A k : Cancels(w, k, v) => net'[x] # Append(net[x], k)
               \/ net'[x] = Append(net[x], Msg("NEW_SERVER", v)) /\ up[x]
    <2>1. CASE m = Msg("NEW_SERVER", v)
      BY <1>6, <2>1 DEF Msg
    <2>2. CASE m # Msg("NEW_SERVER", v)
      <3>1. /\ Clear(w, net'[x], v) => Clear(w, net[x], v) /\ ~Cancels(w, m, v)
            /\ Lasting(w, net'[x], v) => Lasting(w, net[x], v) /\ ~Cancels(w, m, v)
        BY <1>3, <1>6, <2>2, SentLasts
      <3>2. Knows(w, x, v) /\ ~Cancels(w, m, v)
        BY <1>2, <3>1 DEF Knows
      <3> QED BY <1>4, <1>6, <3>2
    <2> QED BY <2>1, <2>2
  <1> QED
    BY <1>5, <1>6 DEF Carry

\* Threads keep account of what is known elsewhere.
LEMMA WorkAccounted ==
  ASSUME NEW side, Ways(side), Overlaps = {}, TypeInv, Away(side), Away(side)', Ordered, Sided(side),
         Links, Links', Tables, InTurn, Wires, Wires', OverUps(side)', NEW t \in Threads, Work(t),
         NEW w \in Tabled, NEW x \in Xports, NEW v \in Servers, Accounted(side, w, x, v)
  PROVE  Accounted(side, w, x, v)'
  <1> SUFFICES ASSUME HomeOf[v] \in side[x], Knows(w, x, v)', ~Falling(x)'
               PROVE  up'[x] /\ (Stays(w, x[1], v)' \/ Owed(w, x[1], v)')
    BY DEF Accounted
  <1>1. x[1] \in Routers /\ Wire(x)
    BY OtherEnd DEF Wires
  <1>2. /\ st'[x] = "open" /\ st'[There(x)] = "open"
        /\ ~Closing(x)' /\ ~Closing(There(x))'
    BY OpenNext
  <1>3. Carry(t, x) /\ ~Falling(x)
    BY <1>2, OpenBefore
  <1>4. \/ Knows(w, x, v) /\ \A m : Cancels(w, m, v) => net'[x] # Append(net[x], m)
        \/ net'[x] = Append(net[x], Msg("NEW_SERVER", v)) /\ up[x]
    BY <1>3, KnowsBefore
  <1>5. up[x]
    BY <1>3, <1>4 DEF Accounted
  <1>6. up'[x]
    BY <1>1, <1>3, <1>5, UpLasts
  <1>7. ASSUME Stays(w, x[1], v) PROVE Stays(w, x[1], v)'
    BY <1>1, <1>7, StaysLasts
  <1>8. CASE RouterOf(t) = x[1] /\ Now(t).do = "register" /\ Now(t).of = v
    BY <1>6, <1>8, RegisterStays
  <1>9. CASE /\ ~(RouterOf(t) = x[1] /\ Now(t).do = "register" /\ Now(t).of = v)
             /\ Knows(w, x, v) /\ \A m : Cancels(w, m, v) => net'[x] # Append(net[x], m)
    <2>1. Stays(w, x[1], v) \/ Owed(w, x[1], v)
      BY <1>3, <1>9 DEF Accounted
    <2>2. Owed(w, x[1], v) => Owed(w, x[1], v)'
      BY <1>5, <1>9, OwedLasts
    <2> QED BY <1>6, <1>7, <2>1, <2>2
  <1>10. CASE /\ ~(RouterOf(t) = x[1] /\ Now(t).do = "register" /\ Now(t).of = v)
              /\ net'[x] = Append(net[x], Msg("NEW_SERVER", v))
    <2>1. Now(t).do = "advertise" /\ Now(t).of = v /\ t = x
      <3>1. net[x] \in Seq(Message)
        BY DEF TypeInv, TypeOK
      <3>2. net'[x] # net[x] /\ net'[x] # <<>>
        <4>1. Len(net'[x]) = Len(net[x]) + 1 /\ Len(net[x]) \in Nat /\ Len(<<>>) = 0
          BY <1>10, <3>1
        <4>2. Len(net[x]) # Len(net[x]) + 1 /\ Len(net[x]) + 1 # 0
          BY <4>1
        <4> QED BY <4>1, <4>2
      <3>3. PICK m : net'[x] = Append(net[x], m) /\ Sent(t, x, m)
        BY <3>2, WorkNet
      <3>4. m = Msg("NEW_SERVER", v)
        <4>1. Append(net[x], m)[Len(net[x]) + 1] = m
          BY <3>1
        <4>2. Append(net[x], Msg("NEW_SERVER", v))[Len(net[x]) + 1] = Msg("NEW_SERVER", v)
          BY <3>1
        <4> QED BY <1>10, <3>3, <4>1, <4>2
      <3>5. Now(t).do \notin Writes
        BY WorkNow DEF InTurn, NoWrites
      <3>6. x \in Reach(RouterOf(t), Now(t).xs) => RouterOf(t) = x[1]
        BY DEF Reach
      <3>7. m.kind = "NEW_SERVER" /\ m.of = v
        BY <3>4 DEF Msg
      <3>8. \A kind, u : Msg(kind, u).kind = kind /\ Msg(kind, u).of = u
        BY DEF Msg
      <3>9. \/ /\ Now(t).do = "register" /\ m = Msg("NEW_SERVER", Now(t).of)
               /\ x \in Reach(RouterOf(t), Now(t).xs)
            \/ Now(t).do = "advertise" /\ m = Msg("NEW_SERVER", Now(t).of) /\ x = t
        BY <3>3, <3>5, <3>7, <3>8 DEF Sent
      <3> QED BY <1>10, <3>6, <3>7, <3>8, <3>9
    <2>2. Now(t) \in Jobs(t)
      BY WorkNow
    <2>3. Stays(w, RouterOf(t), v)
      BY <2>1, <2>2, AdvertisedStays
    <2>4. RouterOf(t) = x[1]
      BY <2>1, OtherEnd
    <2> QED BY <1>6, <1>7, <2>3, <2>4
  <1> QED
    BY <1>4, <1>8, <1>9, <1>10

-----------------------------------------------------------------------------
\* Beginnings: nothing is known that was not, and what was is, is withdrawn or falls.
LEMMA AccountedFrom ==
  ASSUME NEW side, NEW w, NEW x \in Xports, NEW v, Accounted(side, w, x, v),
         ~Falling(x)' /\ Knows(w, x, v)' => Knows(w, x, v),
         up[x] => up'[x] \/ Falling(x)', Falling(x) => Falling(x)',
         Stays(w, x[1], v) => Stays(w, x[1], v)' \/ Owed(w, x[1], v)' \/ Falling(x)',
         Owed(w, x[1], v) => Owed(w, x[1], v)' \/ Falling(x)'
  PROVE  Accounted(side, w, x, v)'
  BY DEF Accounted

\* What stays where no step strikes it
LEMMA StaysOn ==
  ASSUME NEW w, NEW n, NEW v, Stays(w, n, v),
         server'[n][v] = server[n][v] \/ w = "client", client'[n][v] = client[n][v],
         \A u \in Threads : RouterOf(u) = n =>
           \A s \in Jobs(u)' : s \in Jobs(u) \/ ~Strikes(w, n, v, s)
  PROVE  Stays(w, n, v)'
  <1>1. /\ Entry(w, n, v)' = Entry(w, n, v) \/ (w = "client" /\ "client" = "server")
        /\ \A s : Strikes(w, n, v, s)' => Strikes(w, n, v, s)
    BY DEF Entry, Strikes
  <1>2. "client" # "server"
    OBVIOUS
  <1>3. ASSUME NEW u \in Threads, RouterOf(u) = n, NEW s \in Jobs(u)' PROVE ~Strikes(w, n, v, s)'
    <2>1. s \in Jobs(u) \/ ~Strikes(w, n, v, s)
      BY <1>3
    <2>2. s \in Jobs(u) => ~Strikes(w, n, v, s)
      BY <1>3 DEF Stays
    <2> QED BY <1>1, <2>1, <2>2
  <1>4. Entry(w, n, v)' # None
    BY <1>1, <1>2 DEF Stays
  <1> QED
    BY <1>3, <1>4 DEF Stays, RouterOf

\* What is owed where no step that owes is done
LEMMA OwedOn ==
  ASSUME NEW w, NEW n, NEW v, Owed(w, n, v),
         server'[n][v] = server[n][v] \/ w = "client", client'[n][v] = client[n][v],
         \A u \in Threads : RouterOf(u) = n => Jobs(u) \subseteq Jobs(u)',
         w = "client" /\ Kept(n, v) => Kept(n, v)'
  PROVE  Owed(w, n, v)'
  <1>1. PICK u \in Threads : RouterOf(u) = n /\ \E s \in Jobs(u) : Owes(w, n, v, s)
    BY DEF Owed
  <1>2. PICK s \in Jobs(u) : Owes(w, n, v, s)
    BY <1>1
  <1>3. s \in Jobs(u)'
    BY <1>1
  <1>4. "client" # "server"
    OBVIOUS
  <1>5. Owes(w, n, v, s)'
    BY <1>2, <1>4 DEF Owes
  <1> QED
    BY <1>1, <1>3, <1>5 DEF Owed, RouterOf

\* What is kept where nobody begins to drop it
LEMMA KeptOn ==
  ASSUME NEW n, NEW v, Kept(n, v),
         \A u \in Threads : RouterOf(u) = n =>
           \A s \in Jobs(u)' : s \in Jobs(u) \/ ~(s.do \in {"dropClient", "removeClient"} /\ s.of = v)
  PROVE  Kept(n, v)'
  <1> SUFFICES ASSUME NEW u \in Threads, RouterOf(u) = n, NEW s \in Jobs(u)'
               PROVE  ~(s.do \in {"dropClient", "removeClient"} /\ s.of = v)
    BY DEF Kept, RouterOf
  <1> QED
    BY DEF Kept

\* What is not known more at the other end
LEMMA KnowsOn ==
  ASSUME NEW w, NEW x \in Xports, NEW v, Knows(w, x, v)', net'[x] = net[x],
         server'[x[2]][v] \in {server[x[2]][v], None}, client'[x[2]][v] \in {client[x[2]][v], None},
         \A u \in Threads : RouterOf(u) = x[2] => Jobs(u) \subseteq Jobs(u)',
         Learning(x, v)' => Learning(x, v)
  PROVE  Knows(w, x, v)
  <1>1. Entry(w, x[2], v)' \in {Entry(w, x[2], v), None}
    BY DEF Entry
  <1>2. Stays(w, x[2], v)' => Stays(w, x[2], v)
    BY <1>1, StaysGrown
  <1> QED
    BY <1>2 DEF Knows, Lasting, Clear, Cancels

\* Closings and channels that are the same
LEMMA FallingOn ==
  ASSUME NEW x \in Xports, Falling(x),
         \A z \in {x, There(x)} : st[z] = "lost" => st'[z] = "lost",
         \A z \in {x, There(x)} : Closing(z) => Closing(z)'
  PROVE  Falling(x)'
  <1>1. There(x)' = There(x) /\ There(x) \in Xports
    BY OtherEnd DEF There
  <1> QED
    BY <1>1 DEF Falling

\* A thread that begins goes on closing what was closed.
LEMMA StartsClosing ==
  ASSUME NEW t, NEW S, Starts(t, S), NEW z \in Xports, Closing(z)
  PROVE  Closing(z)'
  <1>1. z[1] \in Threads
    BY OtherEnd
  <1> QED
    BY <1>1, StartsGrow DEF Closing, Closes

\* The jobs that there are more
LEMMA StartsNew ==
  ASSUME NEW t, NEW S, Starts(t, S), NEW u \in Threads, NEW s \in Jobs(u)'
  PROVE  s \in Jobs(u) \/ (u = t /\ s \in S)
  BY StartsOnly

\* One that begins with something that is owed, owes it.
LEMMA StartsOwed ==
  ASSUME NEW t, NEW S, Starts(t, S), NEW s \in S, NEW w, NEW v, Owes(w, RouterOf(t), v, s)'
  PROVE  Owed(w, RouterOf(t), v)'
  <1>1. t \in Threads /\ s \in Jobs(t)'
    BY DEF Starts
  <1> QED
    BY <1>1 DEF Owed, RouterOf

\* What applications begin is accounted for.
LEMMA ApplicationAccounted ==
  ASSUME NEW side, Ways(side), TypeInv, NEW u \in Servers, RegServer(u) \/ DeregServer(u) \/ Close(u),
         NEW w \in Tabled, NEW x \in Xports, NEW v \in Servers, Accounted(side, w, x, v)
  PROVE  Accounted(side, w, x, v)'
  <1> DEFINE n == x[1]
             h == HomeOf[u]
  <1>1. /\ n \in Routers /\ x[2] \in Routers /\ There(x) \notin Routers
        /\ h \in Routers /\ RouterOf(h) = h /\ h # There(x)
    BY OtherEnd, NamingAssumption DEF RouterOf
  <1>2. PICK S : /\ Starts(h, S)
                 /\ RegServer(u) => S = {Do("register", u, {})}
                 /\ DeregServer(u) => S = {Do("tellServer", u, {})}
                 /\ Close(u) => S = {Do("tellClient", u, {}), Do("removeClient", u, {})}
    <2>1. ~(RegServer(u) /\ DeregServer(u)) /\ ~(RegServer(u) /\ Close(u)) /\ ~(DeregServer(u) /\ Close(u))
      <3>1. \A S, T : Starts(h, S) /\ Starts(h, T) => S = T
        BY DEF Starts
      <3>2. ASSUME NEW a, NEW b, NEW S, S = {a}, b \in S PROVE b = a
        BY <3>2
      <3>3. PICK a : a = Do("register", u, {})
        OBVIOUS
      <3>4. PICK b : b = Do("tellServer", u, {})
        OBVIOUS
      <3>5. PICK c : c = Do("tellClient", u, {})
        OBVIOUS
      <3>6. PICK d : d = Do("removeClient", u, {})
        OBVIOUS
      <3>7. a # b /\ a # c /\ b # c
        BY <3>3, <3>4, <3>5, DoFields
      <3>8. PICK A : A = {a}
        OBVIOUS
      <3>9. PICK B : B = {b}
        OBVIOUS
      <3>10. PICK C : C = {c, d}
        OBVIOUS
      <3>11. A # B /\ A # C /\ B # C
        BY <3>7, <3>8, <3>9, <3>10
      <3>12. /\ RegServer(u) => Starts(h, A)
             /\ DeregServer(u) => Starts(h, B)
             /\ Close(u) => Starts(h, C)
        BY <3>3, <3>4, <3>5, <3>6, <3>8, <3>9, <3>10, ApplicationStarts
      <3> QED BY <3>1, <3>11, <3>12
    <2> QED BY <2>1, ApplicationStarts
  <1>3. \A z \in Threads : Jobs(z) \subseteq Jobs(z)'
    BY <1>2, StartsGrow
  <1>4. \A s \in S : /\ s.of = u
                     /\ s.do \in {"register", "tellServer", "tellClient", "removeClient"}
                     /\ s.do = "removeClient" => Close(u)
    BY <1>2, DoFields
  <1>5. net' = net /\ up' = up /\ st' = st
    BY ApplicationStarts
  <1>6. client' = client
    BY <1>1, ApplicationTables
  <1>7. Knows(w, x, v)' => Knows(w, x, v)
    <2>1. server'[x[2]][v] \in {server[x[2]][v], None}
      BY <1>1, ApplicationTables
    <2>2. Learning(x, v)' => Learning(x, v)
      BY <1>1, <1>2, StartsLearning
    <2> QED BY <1>3, <1>5, <1>6, <2>1, <2>2, KnowsOn
  <1>8. Falling(x) => Falling(x)'
    <2>1. \A z \in {x, There(x)} : Closing(z) => Closing(z)'
      BY <1>2, OtherEnd, StartsClosing
    <2> QED BY <1>5, <2>1, FallingOn
  <1>9. CASE DeregServer(u) /\ u = v /\ h = n /\ w = "server"
    <2>1. PICK s \in S : s.do = "tellServer" /\ s.of = v
      BY <1>2, <1>9, DoFields
    <2>2. Owes(w, RouterOf(h), v, s)'
      BY <1>9, <2>1 DEF Owes
    <2>3. Owed(w, n, v)'
      BY <1>1, <1>2, <1>9, <2>2, StartsOwed
    <2> QED BY <1>5, <1>7, <1>8, <2>3, AccountedFrom
  <1>10. CASE Close(u) /\ u = v /\ h = n
    <2>1. PICK s \in S : s.do = "tellClient" /\ s.of = v
      BY <1>2, <1>10, DoFields
    <2>2. client'[RouterOf(h)][v] # None
      BY <1>1, <1>6, <1>10, NamingAssumption DEF Close
    <2>3. Owes(w, RouterOf(h), v, s)'
      BY <2>1, <2>2 DEF Owes, RouterOf
    <2>4. Owed(w, n, v)'
      BY <1>1, <1>2, <1>10, <2>3, StartsOwed
    <2> QED BY <1>5, <1>7, <1>8, <2>4, AccountedFrom
  <1>11. CASE /\ ~(DeregServer(u) /\ u = v /\ h = n /\ w = "server")
              /\ ~(Close(u) /\ u = v /\ h = n)
    <2>1. ASSUME NEW z \in Threads, RouterOf(z) = n, NEW s \in Jobs(z)', s \notin Jobs(z)
          PROVE  /\ ~Strikes(w, n, v, s)
                 /\ ~(s.do \in {"dropClient", "removeClient"} /\ s.of = v)
      <3>1. z = h /\ s \in S
        BY <1>2, <2>1, StartsNew
      <3>2. h = n
        BY <1>1, <2>1, <3>1
      <3>3. ~(s.do = "removeClient" /\ s.of = v)
        BY <1>4, <1>11, <3>1, <3>2
      <3> QED BY <1>4, <3>1, <3>3 DEF Strikes
    <2>2. server'[n][v] = server[n][v] \/ w = "client"
      BY <1>1, <1>11, ApplicationTables DEF Tabled
    <2>3. Stays(w, n, v) => Stays(w, n, v)'
      BY <1>6, <2>1, <2>2, StaysOn
    <2>4. Kept(n, v) => Kept(n, v)'
      BY <2>1, KeptOn
    <2>5. Owed(w, n, v) => Owed(w, n, v)'
      BY <1>3, <1>6, <2>2, <2>4, OwedOn
    <2> QED BY <1>5, <1>7, <1>8, <2>3, <2>5, AccountedFrom
  <1> QED
    BY <1>9, <1>10, <1>11

\* As long as the worker of a transport is idle and nobody stops it, nobody has to do with
\* what is beyond it.
LEMMA NobodyAbout ==
  ASSUME NEW side, Ways(side), TypeInv, Sided(side), NEW z \in Xports, agenda[z] = <<>>, ~Closing(z),
         NEW v \in Beyond(side, z), NEW u \in Threads, RouterOf(u) = z[1], NEW r \in Jobs(u)
  PROVE  ~About(side, v, r)
  <1> SUFFICES ASSUME About(side, v, r) PROVE FALSE
    OBVIOUS
  <1>1. HomeOf[v] # z[1] /\ \A y \in Xports : y[1] = z[1] /\ y # z => v \notin Beyond(side, y)
    BY OneWay
  <1>2. ~(u \in Routers /\ RouterOf(u) = u /\ OfApp(u, r))
    <2>1. "down" \notin News /\ "downClients" \notin News /\ "release" \notin News
      BY DEF News, Writes
    <2>2. OfApp(u, r) => r.do \in News \cup {"release"} /\ (r.do # "release" => HomeOf[r.of] = u)
      BY DEF OfApp, News, Writes
    <2> QED BY <1>1, <2>1, <2>2 DEF About
  <1>3. PICK y \in Xports : y[1] = RouterOf(u) /\ Owns(side, y, u) /\ (r = Closes(y) \/ FromIt(side, y, r))
    BY <1>2, JobOf
  <1>4. r # Closes(y)
    BY DoFields DEF About, News, Writes, Closes
  <1>5. v \in Beyond(side, y)
    <2>1. CASE r.do \in News /\ r.of = v
      BY <1>3, <1>4, <2>1 DEF FromIt
    <2>2. CASE r.do \in {"down", "downClients"}
      <3>1. PICK q \in r.xs \cap Xports : v \in Beyond(side, q)
        BY <2>2 DEF About, News, Writes
      <3>2. r.xs = {y}
        BY <1>3, <1>4, <2>2 DEF FromIt, Sourced
      <3> QED BY <3>1, <3>2
    <2> QED BY <2>1, <2>2 DEF About
  <1>6. y = z
    BY <1>1, <1>3, <1>5
  <1>7. Jobs(z) = {}
    BY Elements DEF Jobs
  <1> QED
    BY <1>3, <1>6, <1>7 DEF Owns, Falls

\* What was known over a transport that falls is withdrawn.
LEMMA FallOwed ==
  ASSUME NEW side, Ways(side), TypeInv, Away(side), Sided(side), NEW z \in Xports, agenda[z] = <<>>,
         ~Closing(z), NEW t, NEW S, Starts(t, S), RouterOf(t) = z[1], Down(z) \in S,
         \A s \in S : s.do \notin {"dropClient", "removeClient"},
         server' = server, client' = client,
         NEW w \in Tabled, NEW v \in Servers, Entry(w, z[1], v) = z
  PROVE  Owed(w, z[1], v)'
  <1> DEFINE n == z[1]
  <1>1. n \in Routers
    BY OtherEnd
  <1>2. v \in Beyond(side, z)
    <2>1. server[n][v] = z => v \in Beyond(side, z)
      BY <1>1, WhereKnown DEF Away
    <2>2. client[n][v] = z => v \in Beyond(side, z)
      BY <1>1, WhereKnown DEF Away
    <2> QED BY <2>1, <2>2 DEF Entry
  <1>3. Kept(n, v)'
    <2> SUFFICES ASSUME NEW u \in Threads, RouterOf(u) = n, NEW s \in Jobs(u)',
                        s.do \in {"dropClient", "removeClient"}, s.of = v
                 PROVE  FALSE
      BY DEF Kept, RouterOf
    <2>1. s \in Jobs(u)
      BY StartsNew
    <2>2. About(side, v, s)
      BY DEF About, News
    <2> QED BY <1>2, <2>1, <2>2, NobodyAbout
  <1>4. Down(z).do = "down" /\ Down(z).xs = {z}
    BY DoFields DEF Down
  <1>5. Owes(w, n, v, Down(z))'
    <2>1. CASE w = "server"
      <3>1. server'[n][v] = z
        BY <2>1 DEF Entry
      <3> QED BY <1>4, <2>1, <3>1 DEF Owes, Down
    <2>2. CASE w = "client"
      <3>1. client'[n][v] = z
        BY <2>2 DEF Entry
      <3> QED BY <1>3, <1>4, <2>2, <3>1 DEF Owes, Down
    <2> QED BY <2>1, <2>2 DEF Tabled
  <1>6. t \in Threads /\ Down(z) \in Jobs(t)'
    BY DEF Starts
  <1> QED
    BY <1>5, <1>6 DEF Owed, Down, RouterOf

\* A transport that is taken down
LEMMA FallAccounted ==
  ASSUME NEW side, Ways(side), TypeInv, Away(side), Sided(side), NEW z \in Xports, agenda[z] = <<>>,
         ~Closing(z), NEW t, NEW S, Starts(t, S), RouterOf(t) = z[1],
         \A s \in S : s = Down(z) \/ s.do \in {"flush", "close"},
         server' = server, client' = client, st' = st,
         NEW w \in Tabled, NEW x \in Xports, NEW v \in Servers, Accounted(side, w, x, v),
         z \in {x, There(x)} => Falling(x)',
         z \notin {x, There(x)} => net'[x] = net[x] /\ up'[x] = up[x]
  PROVE  Accounted(side, w, x, v)'
  <1> DEFINE n == x[1]
  <1> SUFFICES ASSUME z \notin {x, There(x)} PROVE Accounted(side, w, x, v)'
    BY DEF Accounted
  <1>1. \A u \in Threads : Jobs(u) \subseteq Jobs(u)'
    BY StartsGrow
  <1>2. \A s \in S : s.do \in {"down", "flush", "close"}
    BY DoFields DEF Down
  <1>3. Knows(w, x, v)' => Knows(w, x, v)
    <2>1. Learning(x, v)' => Learning(x, v)
      BY <1>2, StartsLearning
    <2> QED BY <1>1, <2>1, KnowsOn
  <1>4. Falling(x) => Falling(x)'
    <2>1. \A y \in {x, There(x)} : Closing(y) => Closing(y)'
      BY OtherEnd, StartsClosing
    <2> QED BY <2>1, FallingOn
  <1>5. Owed(w, n, v) => Owed(w, n, v)'
    <2>1. Kept(n, v) => Kept(n, v)'
      <3>1. ASSUME NEW u \in Threads, NEW s \in Jobs(u)'
            PROVE  s \in Jobs(u) \/ ~(s.do \in {"dropClient", "removeClient"} /\ s.of = v)
        BY <1>2, <3>1, StartsNew
      <3> QED BY <3>1, KeptOn
    <2> QED BY <1>1, <2>1, OwedOn
  <1>6. Stays(w, n, v) => Stays(w, n, v)' \/ Owed(w, n, v)'
    <2>1. CASE Entry(w, n, v) = z /\ n = z[1] /\ Down(z) \in S
      BY <1>2, <2>1, FallOwed
    <2>2. CASE ~(Entry(w, n, v) = z /\ n = z[1] /\ Down(z) \in S)
      <3>1. ASSUME NEW u \in Threads, RouterOf(u) = n, NEW s \in Jobs(u)'
            PROVE  s \in Jobs(u) \/ ~Strikes(w, n, v, s)
        <4> SUFFICES ASSUME s \notin Jobs(u) PROVE ~Strikes(w, n, v, s)
          OBVIOUS
        <4>1. u = t /\ s \in S
          BY <3>1, StartsNew
        <4>2. CASE s = Down(z)
          <5>1. s.do = "down" /\ s.xs = {z}
            BY <4>2, DoFields DEF Down
          <5> QED BY <2>2, <3>1, <4>1, <4>2, <5>1 DEF Strikes, Entry
        <4>3. CASE s.do \in {"flush", "close"}
          BY <4>3 DEF Strikes
        <4> QED BY <4>1, <4>2, <4>3
      <3> QED BY <3>1, StaysOn
    <2> QED BY <2>1, <2>2
  <1> QED
    BY <1>3, <1>4, <1>5, <1>6, AccountedFrom

\* A transport that is stopped or lost takes with it what was known over it.
LEMMA LossAccounted ==
  ASSUME NEW side, Ways(side), TypeInv, Away(side), Sided(side), NEW z \in Xports,
         StopXport(z) \/ RemoteClose(z),
         NEW w \in Tabled, NEW x \in Xports, NEW v \in Servers, Accounted(side, w, x, v)
  PROVE  Accounted(side, w, x, v)'
  <1>1. /\ There(x)' = There(x) /\ z[1] \in Threads /\ RouterOf(z[1]) = z[1] /\ RouterOf(z) = z[1]
    BY OtherEnd DEF There
  <1>2. CASE StopXport(z)
    <2>1. PICK S : S = {Do("down", None, {z}), Closes(z)}
      OBVIOUS
    <2>2. agenda[z] = <<>> /\ Starts(z[1], S)
      BY <1>2, <2>1, TransportStarts
    <2>3. ~Closing(z)
      BY <2>2 DEF Starts, Closing
    <2>4. \A s \in S : s = Down(z) \/ s.do \in {"flush", "close"}
      BY <2>1, DoFields DEF Down, Closes
    <2>5. server' = server /\ client' = client /\ st' = st
      BY <1>2 DEF StopXport, tables
    <2>6. z \in {x, There(x)} => Falling(x)'
      <3>1. Closing(z)'
        BY <2>1, <2>2 DEF Starts, Closing, Closes
      <3> QED BY <1>1, <3>1 DEF Falling
    <2>7. z \notin {x, There(x)} => net'[x] = net[x] /\ up'[x] = up[x]
      BY <1>2 DEF StopXport, Send, TypeInv, TypeOK
    <2> QED BY <1>1, <2>2, <2>3, <2>4, <2>5, <2>6, <2>7, FallAccounted
  <1>3. CASE RemoteClose(z)
    <2>1. PICK S : S = {Do("flush", None, {z})} \cup (IF up[z] THEN {Do("down", None, {z})} ELSE {})
      OBVIOUS
    <2>2. st[z] = "lost" /\ Starts(z, S)
      BY <1>3, <2>1, TransportStarts
    <2>3. agenda[z] = <<>> /\ ~Closing(z)
      BY <1>3, WhenReady DEF RemoteClose
    <2>4. \A s \in S : s = Down(z) \/ s.do \in {"flush", "close"}
      BY <2>1, DoFields DEF Down
    <2>5. server' = server /\ client' = client /\ st' = st /\ net' = net /\ up' = up
      BY <1>3 DEF RemoteClose, tables, links
    <2>6. z \in {x, There(x)} => Falling(x)'
      BY <1>1, <2>2, <2>5 DEF Falling
    <2> QED BY <1>1, <2>2, <2>3, <2>4, <2>5, <2>6, FallAccounted
  <1> QED
    BY <1>2, <1>3

\* Where nothing changes at the two ends
LEMMA SameAccounted ==
  ASSUME NEW side, NEW w \in Tabled, NEW x \in Xports, NEW v \in Servers, Accounted(side, w, x, v),
         \A u \in Threads : RouterOf(u) \in {x[1], x[2]} => Jobs(u)' = Jobs(u),
         \A n \in {x[1], x[2]} : server'[n][v] = server[n][v] /\ client'[n][v] = client[n][v],
         up'[x] = up[x], net'[x] = net[x], \A z \in {x, There(x)} : st[z] = "lost" => st'[z] = "lost"
  PROVE  Accounted(side, w, x, v)'
  <1> DEFINE n == x[1]
  <1>1. /\ There(x) \in Threads /\ There(x) \in Xports /\ There(x)[1] = x[2] /\ RouterOf(There(x)) = x[2]
        /\ n \in Threads /\ x[2] \in Threads /\ RouterOf(n) = n /\ RouterOf(x[2]) = x[2]
        /\ There(x)' = There(x)
    BY OtherEnd DEF There
  <1>2. Learning(x, v)' => Learning(x, v)
    BY <1>1 DEF Learning
  <1>3. \A u \in Threads : RouterOf(u) \in {x[1], x[2]} => Jobs(u) \subseteq Jobs(u)'
    OBVIOUS
  <1>4. Knows(w, x, v)' => Knows(w, x, v)
    BY <1>2, <1>3, KnowsOn
  <1>5. Falling(x) => Falling(x)'
    BY <1>1, FallingOn DEF Closing
  <1>6. Stays(w, n, v) => Stays(w, n, v)'
    BY StaysOn
  <1>7. Kept(n, v) => Kept(n, v)'
    BY KeptOn
  <1>8. Owed(w, n, v) => Owed(w, n, v)'
    BY <1>3, <1>7, OwedOn
  <1> QED
    BY <1>4, <1>5, <1>6, <1>8, AccountedFrom

\* A transport that starts is not open, one that opens was not up.
LEMMA OpenAccounted ==
  ASSUME NEW side, TypeInv, Links', Wires', OverUps(side)', NEW z \in Xports, StartXport(z) \/ Open(z),
         NEW w \in Tabled, NEW x \in Xports, NEW v \in Servers, Accounted(side, w, x, v)
  PROVE  Accounted(side, w, x, v)'
  <1>1. agenda' = agenda
    BY TransportStarts
  <1>2. server' = server /\ client' = client
    BY DEF StartXport, Open, tables
  <1>3. \A u \in Threads : Jobs(u)' = Jobs(u)
    BY <1>1 DEF Jobs
  <1>4. There(x) \in Xports /\ There(x) \in Threads /\ There(x)' = There(x)
    BY OtherEnd DEF There
  <1>5. CASE StartXport(z)
    <2> SUFFICES ASSUME HomeOf[v] \in side[x], Knows(w, x, v)', ~Falling(x)'
                 PROVE  Accounted(side, w, x, v)'
      BY DEF Accounted
    <2>1. st'[x] = "open" /\ st'[There(x)] = "open"
      BY OpenNext
    <2>2. st' = [st EXCEPT ![z] = "opening"] /\ up' = [up EXCEPT ![z] = FALSE]
          /\ net' = [net EXCEPT ![z] = <<Msg("HELLO", None)>>]
      BY <1>5 DEF StartXport
    <2>3. z # x /\ z # There(x)
      BY <2>1, <2>2 DEF TypeInv, TypeOK
    <2>4. st'[x] = st[x] /\ st'[There(x)] = st[There(x)] /\ up'[x] = up[x] /\ net'[x] = net[x]
      BY <1>4, <2>2, <2>3 DEF TypeInv, TypeOK
    <2> QED BY <1>2, <1>3, <2>4, SameAccounted
  <1>6. CASE Open(z)
    <2>1. /\ st[z] \in {"opening", "paused"} /\ st' = [st EXCEPT ![z] = "open"]
          /\ up' = up
          /\ (st[z] = "paused" /\ ~up[z] /\ Send({z}, Msg("HELLO", None))) \/ net' = net
      BY <1>6 DEF Open
    <2>2. \A y \in {x, There(x)} : st[y] = "lost" => st'[y] = "lost"
      BY <1>4, <2>1 DEF TypeInv, TypeOK
    <2>3. CASE net'[x] = net[x]
      BY <1>2, <1>3, <2>1, <2>2, <2>3, SameAccounted
    <2>4. CASE net'[x] = Append(net[x], Msg("HELLO", None))
      <3>1. Msg("HELLO", None) \in Message /\ Msg("HELLO", None) # Msg("NEW_SERVER", v)
            /\ net[x] \in Seq(Message)
        BY DEF Msg, Message, TypeInv, TypeOK
      <3>2. /\ Clear(w, net'[x], v) => Clear(w, net[x], v)
            /\ Lasting(w, net'[x], v) => Lasting(w, net[x], v)
        BY <2>4, <3>1, SentLasts
      <3>3. Entry(w, x[2], v)' = Entry(w, x[2], v)
        BY <1>2 DEF Entry
      <3>4. Stays(w, x[2], v)' => Stays(w, x[2], v)
        BY <1>3, <3>3, StaysGrown
      <3>5. Learning(x, v)' => Learning(x, v)
        BY <1>3, <1>4 DEF Learning
      <3>6. Knows(w, x, v)' => Knows(w, x, v)
        BY <3>2, <3>4, <3>5 DEF Knows, Lasting, Clear, Cancels
      <3>7. z = x
        <4>1. z # x => net'[x] = net[x]
          BY <2>1 DEF Send
        <4>2. Len(Append(net[x], Msg("HELLO", None))) = Len(net[x]) + 1 /\ Len(net[x]) \in Nat
          BY <3>1
        <4>3. Len(net[x]) # Len(net[x]) + 1
          BY <4>2
        <4> QED BY <2>4, <4>1, <4>2, <4>3
      <3>8. ~up[x]
        <4>1. net' # net
          <5>1. Len(Append(net[x], Msg("HELLO", None))) = Len(net[x]) + 1 /\ Len(net[x]) \in Nat
            BY <3>1
          <5>2. Len(net[x]) # Len(net[x]) + 1
            BY <5>1
          <5> QED BY <2>4, <5>1, <5>2
        <4> QED BY <2>1, <3>7, <4>1
      <3>9. x[1] \in Threads /\ There(x)[1] \in Threads
        BY <1>4, OtherEnd
      <3>10. Falling(x) => Falling(x)'
        BY <1>3, <2>2, <3>9, FallingOn DEF Closing
      <3> QED BY <3>6, <3>8, <3>10 DEF Accounted
    <2> QED BY <2>1, <2>3, <2>4 DEF Send
  <1> QED
    BY <1>5, <1>6

\* A router that restarts closes its links.
LEMMA RestartAccounted ==
  ASSUME NEW side, TypeInv, Links', Wires', OverUps(side)', NEW m \in Routers, Restart(m),
         NEW w \in Tabled, NEW x \in Xports, NEW v \in Servers, Accounted(side, w, x, v)
  PROVE  Accounted(side, w, x, v)'
  <1> SUFFICES ASSUME HomeOf[v] \in side[x], Knows(w, x, v)', ~Falling(x)'
               PROVE  Accounted(side, w, x, v)'
    BY DEF Accounted
  <1>1. st'[x] = "open" /\ st'[There(x)] = "open"
    BY OpenNext
  <1>2. /\ There(x) \in Xports /\ There(x)[1] = x[2] /\ There(x)[2] = x[1]
        /\ x[1] \in Routers /\ x[2] \in Routers
    BY Both
  <1>3. x[1] # m /\ x[2] # m
    BY <1>1, <1>2, RestartClears
  <1>4. \A u \in Threads : RouterOf(u) \in {x[1], x[2]} => Jobs(u)' = Jobs(u)
    BY <1>3, RestartClears DEF Jobs
  <1>5. \A n \in {x[1], x[2]} : server'[n][v] = server[n][v] /\ client'[n][v] = client[n][v]
    BY <1>2, <1>3 DEF Restart, TypeInv, TypeOK
  <1>6. up'[x] = up[x] /\ net'[x] = net[x] /\ st'[x] = st[x] /\ st'[There(x)] = st[There(x)]
    BY <1>2, <1>3, RestartClears
  <1> QED
    BY <1>4, <1>5, <1>6, SameAccounted

\* What a worker begins with when it takes a message
Asks(z, m, S) ==
  /\ \A s \in S :
       /\ s.do \in {"hello", "register", "dropServer", "tellServer", "tellClient", "removeClient"}
       /\ s.do # "hello" => s.of = m.of
       /\ s.do = "register" => m.kind = "NEW_SERVER"
       /\ s.do \in {"dropServer", "tellServer"} => m.kind = "REMOVE_SERVER"
       /\ s.do \in {"tellClient", "removeClient"} => m.kind = "REMOVE_CLIENT"
  /\ m.kind = "NEW_SERVER" => \E s \in S : s.do = "register" /\ s.of = m.of
  /\ m.kind = "REMOVE_SERVER" =>
       \/ S = {} /\ server[z[1]][m.of] = None
       \/ (\E s \in S : s.do = "dropServer" /\ s.of = m.of) /\ \E s \in S : s.do = "tellServer" /\ s.of = m.of
  /\ m.kind = "REMOVE_CLIENT" =>
       (\E s \in S : s.do = "tellClient" /\ s.of = m.of) /\ \E s \in S : s.do = "removeClient" /\ s.of = m.of

\* It does what is asked.
LEMMA TakesAsked ==
  ASSUME NEW z, NEW m, Takes(z, m), m.kind # "BYE"
  PROVE  \E S : Starts(z, S) /\ Asks(z, m, S)
  <1>1. CASE m.kind = "HELLO" /\ Starts(z, {Do("hello", None, {z})})
    <2>1. PICK S : S = {Do("hello", None, {z})}
      OBVIOUS
    <2>2. Asks(z, m, S)
      BY <1>1, <2>1, DoFields DEF Asks
    <2> QED BY <1>1, <2>1, <2>2
  <1>2. CASE m.kind = "NEW_SERVER" /\ Starts(z, {Do("register", m.of, {z})})
    <2>1. PICK S : S = {Do("register", m.of, {z})}
      OBVIOUS
    <2>2. Asks(z, m, S)
      BY <1>2, <2>1, DoFields DEF Asks
    <2> QED BY <1>2, <2>1, <2>2
  <1>3. CASE m.kind = "REMOVE_SERVER" /\ server[z[1]][m.of] = None /\ Starts(z, {})
    <2>1. Asks(z, m, {})
      BY <1>3 DEF Asks
    <2> QED BY <1>3, <2>1
  <1>4. CASE /\ m.kind = "REMOVE_SERVER"
             /\ Starts(z, {Do("dropServer", m.of, {z}), Do("tellServer", m.of, {z})})
    <2>1. PICK S : S = {Do("dropServer", m.of, {z}), Do("tellServer", m.of, {z})}
      OBVIOUS
    <2>2. Asks(z, m, S)
      BY <1>4, <2>1, DoFields DEF Asks
    <2> QED BY <1>4, <2>1, <2>2
  <1>5. CASE /\ m.kind = "REMOVE_CLIENT"
             /\ Starts(z, {Do("tellClient", m.of, {z}), Do("removeClient", m.of, {z})})
    <2>1. PICK S : S = {Do("tellClient", m.of, {z}), Do("removeClient", m.of, {z})}
      OBVIOUS
    <2>2. Asks(z, m, S)
      BY <1>5, <2>1, DoFields DEF Asks
    <2> QED BY <1>5, <2>1, <2>2
  <1> QED
    BY <1>1, <1>2, <1>3, <1>4, <1>5 DEF Takes

\* What cancels a server makes the router that takes it forget it.
LEMMA CancelForgets ==
  ASSUME NEW z \in Xports, NEW m, NEW S, Starts(z, S), Asks(z, m, S), server' = server,
         NEW w \in Tabled, NEW v \in Servers, Cancels(w, m, v)
  PROVE  ~Stays(w, z[1], v)' /\ \A s \in S : s.do # "register"
  <1>1. /\ m.of = v /\ m.kind \in {"REMOVE_SERVER", "REMOVE_CLIENT"}
        /\ (m.kind = "REMOVE_SERVER" => w = "server")
    BY DEF Cancels, Msg
  <1>2. z \in Threads /\ RouterOf(z) = z[1] /\ Jobs(z)' = S
    BY OtherEnd DEF Starts
  <1>3. \A s \in S : s.do # "register"
    BY <1>1 DEF Asks
  <1>4. CASE S = {} /\ m.kind = "REMOVE_SERVER" /\ server[z[1]][v] = None
    BY <1>1, <1>3, <1>4 DEF Stays, Entry
  <1>5. CASE m.kind = "REMOVE_SERVER" /\ \E s \in S : s.do = "dropServer" /\ s.of = v
    <2>1. PICK s \in S : s.do = "dropServer" /\ s.of = v
      BY <1>5
    <2>2. Strikes(w, z[1], v, s)'
      BY <1>1, <1>5, <2>1 DEF Strikes
    <2> QED BY <1>2, <1>3, <2>1, <2>2 DEF Stays
  <1>6. CASE m.kind = "REMOVE_CLIENT" /\ \E s \in S : s.do = "removeClient" /\ s.of = v
    <2>1. PICK s \in S : s.do = "removeClient" /\ s.of = v
      BY <1>6
    <2>2. Strikes(w, z[1], v, s)'
      BY <2>1 DEF Strikes, Tabled
    <2> QED BY <1>2, <1>3, <2>1, <2>2 DEF Stays
  <1> QED
    BY <1>1, <1>4, <1>5, <1>6 DEF Asks

\* What is not known more when messages are taken
LEMMA ReceiveKnows ==
  ASSUME TypeInv, NEW z \in Xports, Receive(z), NEW m, m = Head(net[There(z)]),
         NEW S, Starts(z, S), Asks(z, m, S),
         NEW w \in Tabled, NEW x \in Xports, NEW v \in Servers, Knows(w, x, v)'
  PROVE  Knows(w, x, v)
  <1>1. server' = server /\ client' = client
    BY DEF Receive, tables
  <1>2. \A u \in Threads : Jobs(u) \subseteq Jobs(u)'
    BY StartsGrow
  <1>3. /\ net[There(z)] # <<>> /\ net[There(z)] \in Seq(Message)
        /\ net'[There(z)] = Tail(net[There(z)])
        /\ \A y \in Xports : y # There(z) => net'[y] = net[y]
        /\ m \in Message
    BY ReceiveTakes
  <1>4. CASE z # There(x)
    <2>1. net'[x] = net[x]
      BY <1>3, <1>4, OtherEnd
    <2>2. Learning(x, v)' => Learning(x, v)
      BY <1>4, StartsLearning
    <2> QED BY <1>1, <1>2, <2>1, <2>2, KnowsOn
  <1>5. CASE z = There(x)
    <2>1. There(z) = x /\ z[1] = x[2]
      BY <1>5, OtherEnd
    <2>2. Entry(w, x[2], v)' = Entry(w, x[2], v)
      BY <1>1 DEF Entry
    <2>3. Stays(w, x[2], v)' => Stays(w, x[2], v)
      BY <1>2, <2>2, StaysGrown
    <2>4. Learning(x, v)' => \E s \in S : s.do = "register" /\ s.of = v
      <3>1. ~Learning(x, v)
        BY <1>5, WhenReady DEF Learning, Receive
      <3> QED BY <3>1, StartsLearning
    <2>5. (\E s \in S : s.do = "register" /\ s.of = v) => m = Msg("NEW_SERVER", v)
      BY <1>3 DEF Asks, Message, Msg
    <2>6. \/ Lasting(w, Tail(net[x]), v)
          \/ Clear(w, Tail(net[x]), v) /\ (Stays(w, x[2], v)' \/ Learning(x, v)')
      <3>1. PICK r : r = Tail(net[x])
        OBVIOUS
      <3>2. net'[x] = r
        BY <1>3, <2>1, <3>1
      <3>3. Lasting(w, r, v) \/ (Clear(w, r, v) /\ (Stays(w, x[2], v)' \/ Learning(x, v)'))
        BY <3>2 DEF Knows, Lasting, Clear, Cancels
      <3> QED BY <3>1, <3>3
    <2>7. ~Cancels(w, m, v) \/ (~Stays(w, x[2], v)' /\ ~Learning(x, v)')
      BY <1>1, <2>1, <2>4, CancelForgets
    <2>8. /\ Lasting(w, Tail(net[x]), v) => Lasting(w, net[x], v)
          /\ Clear(w, Tail(net[x]), v) => Clear(w, net[x], v) \/ Cancels(w, m, v)
          /\ Clear(w, Tail(net[x]), v) /\ m = Msg("NEW_SERVER", v) => Lasting(w, net[x], v)
      BY <1>3, <2>1, TakenLasts
    <2> QED BY <2>3, <2>4, <2>5, <2>6, <2>7, <2>8 DEF Knows
  <1> QED
    BY <1>4, <1>5

\* What a message makes a router forget, it withdraws.
LEMMA ReceiveAccounted ==
  ASSUME NEW side, Ways(side), TypeInv, Away(side), Sided(side), Tables, NEW z \in Xports, Receive(z),
         NEW w \in Tabled, NEW x \in Xports, NEW v \in Servers, Accounted(side, w, x, v)
  PROVE  Accounted(side, w, x, v)'
  <1> DEFINE n == x[1]
  <1>1. PICK m : m = Head(net[There(z)])
    OBVIOUS
  <1>2. /\ Takes(z, m) /\ m \in ToSet(net[There(z)])
        /\ net'[There(z)] = Tail(net[There(z)])
        /\ \A y \in Xports : y # There(z) => net'[y] = net[y]
    BY <1>1, ReceiveTakes
  <1>3. server' = server /\ client' = client /\ st' = st /\ up' = up
    BY DEF Receive, tables
  <1>4. agenda[z] = <<>> /\ ~Closing(z) /\ RouterOf(z) = z[1] /\ There(z) \in Xports /\ There(There(z)) = z
        /\ n \in Routers /\ There(x) \in Xports /\ There(There(x)) = x /\ There(x)' = There(x)
    BY WhenReady, OtherEnd DEF Receive, There
  <1>5. CASE m.kind = "BYE"
    <2>1. PICK S : S = {Do("down", None, {z})}
      OBVIOUS
    <2>2. Starts(z, S)
      BY <1>2, <1>5, <2>1 DEF Takes
    <2>3. \A s \in S : s = Down(z) \/ s.do \in {"flush", "close"}
      BY <2>1 DEF Down
    <2>4. z \in {x, There(x)} => Falling(x)'
      <3>1. Closing(There(z))
        BY <1>2, <1>4, <1>5 DEF Sided, MayCarry
      <3>2. Closing(There(z))'
        BY <1>4, <2>2, <3>1, StartsClosing
      <3>3. z = x => Closing(There(x))'
        BY <1>4, <3>2
      <3>4. z = There(x) => Closing(x)'
        <4>1. z = There(x) => There(z) = x /\ (There(z))' = There(z)
          BY <1>4 DEF There
        <4> QED BY <3>2, <4>1 DEF Closing, Closes
      <3> QED BY <3>3, <3>4 DEF Falling
    <2>5. z \notin {x, There(x)} => net'[x] = net[x] /\ up'[x] = up[x]
      BY <1>2, <1>3, <1>4
    <2> QED BY <1>3, <1>4, <2>2, <2>3, <2>4, <2>5, FallAccounted
  <1>6. CASE m.kind # "BYE"
    <2>1. PICK S : Starts(z, S) /\ Asks(z, m, S)
      BY <1>2, <1>6, TakesAsked
    <2>2. \A u \in Threads : Jobs(u) \subseteq Jobs(u)'
      BY <2>1, StartsGrow
    <2>3. Knows(w, x, v)' => Knows(w, x, v)
      BY <1>1, <2>1, ReceiveKnows
    <2>4. Falling(x) => Falling(x)'
      <3>1. \A y \in {x, There(x)} : Closing(y) => Closing(y)'
        BY <1>4, <2>1, StartsClosing
      <3> QED BY <1>3, <3>1, FallingOn
    <2>5. ASSUME n = z[1], m.kind = "REMOVE_CLIENT", m.of = v, client[n][v] # None
          PROVE  Owed(w, n, v)'
      <3>1. PICK s \in S : s.do = "tellClient" /\ s.of = v
        BY <2>1, <2>5 DEF Asks
      <3>2. Owes(w, RouterOf(z), v, s)'
        BY <1>3, <1>4, <2>5, <3>1 DEF Owes, RouterOf
      <3>3. Owed(w, RouterOf(z), v)'
        BY <2>1, <3>2, StartsOwed
      <3> QED BY <1>4, <2>5, <3>3 DEF RouterOf
    <2>6. Stays(w, n, v) => Stays(w, n, v)' \/ Owed(w, n, v)'
      <3> SUFFICES ASSUME Stays(w, n, v), ~Owed(w, n, v)' PROVE Stays(w, n, v)'
        OBVIOUS
      <3>1. client[n][v] # None
        <4>1. CASE w = "client"
          BY <4>1 DEF Stays, Entry
        <4>2. CASE w = "server"
          <5>1. server[n][v] # None
            BY <4>2 DEF Stays, Entry
          <5>2. ~Dropping(n, v)
            BY <4>2 DEF Stays, Strikes, Dropping
          <5> QED BY <1>4, <5>1, <5>2 DEF Tables, Table
        <4> QED BY <4>1, <4>2 DEF Tabled
      <3>2. ASSUME n = z[1], m.kind = "REMOVE_SERVER", m.of = v, w = "server", NEW r \in S PROVE FALSE
        <4>1. PICK s \in S : s.do = "tellServer" /\ s.of = v
          BY <2>1, <3>2 DEF Asks
        <4>2. Owes(w, RouterOf(z), v, s)'
          BY <3>2, <4>1 DEF Owes
        <4>3. Owed(w, RouterOf(z), v)'
          BY <2>1, <4>2, StartsOwed
        <4> QED BY <1>4, <3>2, <4>3 DEF RouterOf
      <3>3. ASSUME NEW u \in Threads, RouterOf(u) = n, NEW s \in Jobs(u)', s \notin Jobs(u),
                   Strikes(w, n, v, s)
            PROVE  FALSE
        <4>1. u = z /\ s \in S
          BY <2>1, <3>3, StartsNew
        <4>2. n = z[1]
          BY <1>4, <3>3, <4>1
        <4>3. CASE s.do = "removeClient"
          BY <2>1, <2>5, <3>1, <3>3, <4>1, <4>2, <4>3 DEF Asks, Strikes
        <4>4. CASE s.do = "dropServer"
          BY <2>1, <3>2, <3>3, <4>1, <4>2, <4>4 DEF Asks, Strikes
        <4> QED BY <2>1, <3>3, <4>1, <4>3, <4>4 DEF Asks, Strikes
      <3> QED BY <1>3, <3>3, StaysOn
    <2>7. Owed(w, n, v) => Owed(w, n, v)'
      <3>1. CASE w = "client" /\ n = z[1] /\ m.kind = "REMOVE_CLIENT" /\ m.of = v
        <4> SUFFICES ASSUME Owed(w, n, v) PROVE Owed(w, n, v)'
          OBVIOUS
        <4>1. PICK u \in Threads : RouterOf(u) = n /\ \E s \in Jobs(u) : Owes("client", n, v, s)
          BY <3>1 DEF Owed
        <4>2. client[n][v] # None
          BY <4>1, OwesClient
        <4> QED BY <2>5, <3>1, <4>2
      <3>2. CASE ~(w = "client" /\ n = z[1] /\ m.kind = "REMOVE_CLIENT" /\ m.of = v)
        <4>1. w = "client" /\ Kept(n, v) => Kept(n, v)'
          <5> SUFFICES ASSUME w = "client", Kept(n, v) PROVE Kept(n, v)'
            OBVIOUS
          <5>1. ASSUME NEW u \in Threads, RouterOf(u) = n, NEW s \in Jobs(u)'
                PROVE  s \in Jobs(u) \/ ~(s.do \in {"dropClient", "removeClient"} /\ s.of = v)
            <6> SUFFICES ASSUME s \notin Jobs(u) PROVE ~(s.do \in {"dropClient", "removeClient"} /\ s.of = v)
              OBVIOUS
            <6>1. u = z /\ s \in S
              BY <2>1, <5>1, StartsNew
            <6> QED BY <1>4, <2>1, <3>2, <5>1, <6>1 DEF Asks
          <5> QED BY <5>1, KeptOn
        <4> QED BY <1>3, <2>2, <4>1, OwedOn
      <3> QED BY <3>1, <3>2
    <2> QED BY <1>3, <2>3, <2>4, <2>6, <2>7, AccountedFrom
  <1> QED
    BY <1>5, <1>6

\* No step of the routers loses account.
LEMMA AccountKept ==
  ASSUME NEW side, Ways(side), Overlaps = {}, TypeInv, Away(side), Away(side)', Ordered, Sided(side),
         Links, Links', Tables, InTurn, Wires, Wires', OverUps(side)', AllAccounted(side), [Next]_vars
  PROVE  AllAccounted(side)'
  <1> SUFFICES ASSUME NEW w \in Tabled, NEW x \in Xports, NEW v \in Servers
               PROVE  Accounted(side, w, x, v)'
    BY DEF AllAccounted
  <1>1. Accounted(side, w, x, v)
    BY DEF AllAccounted
  <1>2. ASSUME NEW t \in Threads, Work(t) PROVE Accounted(side, w, x, v)'
    BY <1>1, <1>2, WorkAccounted
  <1>3. ASSUME NEW u \in Servers, RegServer(u) \/ DeregServer(u) \/ Close(u)
        PROVE  Accounted(side, w, x, v)'
    BY <1>1, <1>3, ApplicationAccounted
  <1>4. ASSUME NEW z \in Xports, StartXport(z) \/ StopXport(z) \/ Signalled(z)
        PROVE  Accounted(side, w, x, v)'
    BY <1>1, <1>4, OpenAccounted, LossAccounted, ReceiveAccounted DEF Signalled
  <1>5. ASSUME NEW m \in Routers, Restart(m) PROVE Accounted(side, w, x, v)'
    BY <1>1, <1>5, RestartAccounted
  <1>6. CASE UNCHANGED vars
    <2>1. \A u \in Threads : Jobs(u)' = Jobs(u)
      BY <1>6 DEF vars, threads, Jobs
    <2>2. server' = server /\ client' = client /\ up' = up /\ st' = st /\ net' = net
      BY <1>6 DEF vars, tables, links
    <2> QED BY <1>1, <2>1, <2>2, SameAccounted
  <1> QED
    BY <1>2, <1>3, <1>4, <1>5, <1>6 DEF Next

\* When all is quiet, what is known of a server is known on every link that leads away from
\* its router, and so at its router.
LEMMA QuietGhost ==
  ASSUME NEW side, Tree(side), Connected, Ways(side), TypeInv, Away(side), AllAccounted(side), Quiet,
         NEW w \in Tabled, NEW v \in Servers, NEW n \in Routers, Entry(w, n, v) # None
  PROVE  Entry(w, HomeOf[v], v) = Local
  <1> DEFINE h == HomeOf[v]
  <1>1. h \in Routers
    BY NamingAssumption
  <1>2. \A t \in Threads : Jobs(t) = {}
    <2>1. \A t \in Threads : RouterOf(t) \in Routers
      BY SomeThread
    <2>2. \A t \in Threads : agenda[t] = <<>>
      BY <2>1 DEF Quiet, Idle
    <2> QED BY <2>2, Elements DEF Jobs
  <1>3. ASSUME NEW x \in Xports, h \in side[x], Entry(w, x[2], v) # None
        PROVE  Entry(w, x[1], v) # None
    <2>1. /\ There(x) \in Xports /\ x[1] \in Threads /\ There(x)[1] \in Threads
      BY OtherEnd
    <2>2. ~Falling(x)
      BY <1>2, <2>1 DEF Quiet, Settled, Falling, Closing
    <2>3. Stays(w, x[2], v)
      BY <1>2, <1>3 DEF Stays
    <2>4. Clear(w, net[x], v)
      BY DEF Quiet, Settled, Clear
    <2>5. Knows(w, x, v)
      BY <2>3, <2>4 DEF Knows
    <2>6. ~Owed(w, x[1], v)
      BY <1>2 DEF Owed
    <2>7. Stays(w, x[1], v)
      BY <1>3, <2>2, <2>5, <2>6 DEF AllAccounted, Accounted
    <2> QED BY <2>7 DEF Stays
  <1>4. Entry(w, h, v) # None
    <2> SUFFICES ASSUME Entry(w, h, v) = None PROVE FALSE
      OBVIOUS
    <2>1. PICK S0 : S0 = {m \in Routers : Entry(w, m, v) = None}
      OBVIOUS
    <2>2. S0 \in SUBSET Routers /\ h \in S0 /\ n \notin S0
      BY <1>1, <2>1
    <2>3. \A x \in Xports : x[2] \in Routers
      BY OtherEnd
    <2>4. \A x \in Xports : h \in side[x] /\ x[1] \in S0 => x[2] \in S0
      BY <1>3, <2>1, <2>3
    <2>5. S0 = Routers
      BY <1>1, <2>2, <2>4, Spreads
    <2> QED BY <2>2, <2>5
  <1>5. ASSUME NEW table, Known(side, table), table[h][v] # None PROVE table[h][v] = Local
    <2>1. table[h][v] \in {None, Local} \cup Xports
          /\ (table[h][v] \in Xports => table[h][v][1] = h /\ v \in Beyond(side, table[h][v]))
      BY <1>1, <1>5, WhereKnown
    <2>2. table[h][v] \notin Xports
      BY <2>1, OneWay
    <2> QED BY <1>5, <2>1, <2>2
  <1>6. Known(side, server) /\ Known(side, client)
    BY DEF Away
  <1> QED
    BY <1>4, <1>5, <1>6 DEF Entry

\* In a network that is a tree, if removals, listings and the falls of transports on a router do
\* not overlap, then when all is quiet no router knows a server, or the endpoint of one, that its
\* own router does not know any more: whoever forgets withdraws before or falls.
THEOREM NoGhostRemains ==
  ASSUME NEW side, Tree(side), Connected, OwnNetworks, Overlaps = {}
  PROVE  Spec => []NoGhost
  <1> DEFINE Inv == /\ Away(side) /\ Ordered /\ Sided(side) /\ Links /\ Tables
                    /\ InTurn /\ Wires /\ OverUps(side) /\ AllAccounted(side)
  <1>1. Ways(side)
    <2>1. NoCycle(side)
      BY TreeHasNoCycle
    <2>2. \A x \in Xports : side[x] \cap side[There(x)] = {}
      BY DEF Tree
    <2> QED BY <2>1, <2>2 DEF Ways
  <1>2. Init => Inv
    <2> SUFFICES ASSUME Init PROVE Inv
      OBVIOUS
    <2>1. Away(side)
      <3>1. \A S : <<>> \in Seq(S)
        OBVIOUS
      <3> QED BY <3>1 DEF Init, Away, Known, Place
    <2>2. \A t \in Threads : agenda[t] = <<>> /\ Jobs(t) = {}
      BY Elements DEF Init, Jobs
    <2>3. \A x \in Xports : /\ x \in Threads /\ x[1] \in Threads /\ net[x] = <<>> /\ ~up[x]
                            /\ ~helloSent[x] /\ st[x] = "closed"
                            /\ x[1] \in Routers /\ x[2] \in Routers /\ There(x) \in Xports
      BY OtherEnd DEF Init
    <2>4. \A n \in Routers : n \in Threads /\ \A v \in Servers : server[n][v] = None /\ client[n][v] = None
      BY DEF Init, Threads
    <2>5. Ordered
      BY DEF Init, Ordered, InOrder
    <2>6. Sided(side)
      BY <2>2, <2>3, <2>4, Elements DEF Sided
    <2>7. Links
      BY <2>2, <2>3 DEF Links, Linked, Greets, Closing
    <2>8. Tables
      BY <2>2, <2>4 DEF Tables, Table
    <2>9. InTurn
      BY <2>2, ShortPlaced DEF InTurn, InPlace, NoWrites, Sem, Apart
    <2>10. Wires
      <3>1. (\A kind : ~Has(<<>>, kind)) /\ Ahead(<<>>) /\ LastBye(<<>>)
        BY NoMessage
      <3> SUFFICES ASSUME NEW x \in Xports PROVE Wire(x)
        BY DEF Wires
      <3>2. Closed(x) /\ Greeted(x) /\ Farewell(x) /\ Waiting(x) /\ Announces(x)
        BY <2>2, <2>3, <3>1 DEF Closed, Greeted, Farewell, Leaves, Waiting, Announces
      <3>3. LastBye(net[x]) /\ Awaited(x) /\ Before(x)
        BY <2>3, <3>1 DEF Awaited, Before
      <3> QED BY <3>2, <3>3 DEF Wire
    <2>11. \A x \in Xports, v \in Servers : ~Learning(x, v) /\ \A w \in Tabled : ~Stays(w, x[2], v)
      BY <2>2, <2>3, <2>4 DEF Learning, Stays, Entry
    <2>12. OverUps(side)
      BY <2>11 DEF OverUps, OverUp
    <2>13. AllAccounted(side)
      <3>1. \A x \in Xports, v \in Servers, w \in Tabled : ~Lasting(w, net[x], v)
        BY <2>3, LastingHas
      <3> QED BY <2>11, <3>1 DEF AllAccounted, Accounted, Knows
    <2> QED BY <2>1, <2>5, <2>6, <2>7, <2>8, <2>9, <2>10, <2>12, <2>13
  <1>3. TypeInv /\ Inv /\ [Next]_vars => Inv'
    <2> SUFFICES ASSUME TypeInv, Inv, [Next]_vars PROVE Inv'
      OBVIOUS
    <2>1. Away(side)'
      <3>1. CASE Next
        BY <1>1, <3>1, WorkAway, ApplicationAway, TransportAway, RestartAway DEF Next, Ways
      <3>2. CASE UNCHANGED vars
        BY <3>2 DEF vars, tables, links, threads, Away, Known, Place, Told, Todo
      <3> QED BY <3>1, <3>2
    <2>2. Sided(side)' /\ Ordered'
      BY <1>1, SidedKept
    <2>3. Links'
      BY <1>1, LinksKept
    <2>4. Tables'
      BY <1>1, TablesKept
    <2>5. InTurn'
      BY InTurnKept
    <2>6. Wires'
      BY <1>1, WiresKept
    <2>7. OverUps(side)'
      BY <1>1, OverUpsKept
    <2>8. AllAccounted(side)'
      BY <1>1, <2>1, <2>3, <2>6, <2>7, AccountKept
    <2> QED BY <2>1, <2>2, <2>3, <2>4, <2>5, <2>6, <2>7, <2>8
  <1>4. TypeInv /\ Inv => NoGhost
    <2> SUFFICES ASSUME TypeInv, Inv, Quiet, NEW v \in Servers, NEW n \in Routers
                 PROVE  /\ server[n][v] # None => Registered(v)
                        /\ client[n][v] # None => client[HomeOf[v]][v] = Local
      BY DEF NoGhost
    <2>1. ASSUME NEW w \in Tabled, Entry(w, n, v) # None PROVE Entry(w, HomeOf[v], v) = Local
      BY <1>1, <2>1, QuietGhost
    <2>2. server[n][v] # None => server[HomeOf[v]][v] = Local
      BY <2>1 DEF Entry, Tabled
    <2>3. client[n][v] # None => client[HomeOf[v]][v] = Local
      <3>1. "client" \in Tabled /\ "client" # "server"
        BY DEF Tabled
      <3>2. Entry("client", n, v) = client[n][v] /\ Entry("client", HomeOf[v], v) = client[HomeOf[v]][v]
        BY <3>1 DEF Entry
      <3> QED BY <2>1, <3>1, <3>2
    <2> QED BY <2>2, <2>3 DEF Registered
  <1> QED
    BY <1>2, <1>3, <1>4, TypeCorrect, PTL DEF Spec
=============================================================================
