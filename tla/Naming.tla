-------------------------------- MODULE Naming --------------------------------
(***************************************************************************)
(* The naming protocol of the IPC router: what the routers tell each other *)
(* of the servers registered on them, over transports that open, close and *)
(* restart, and across routers that are restarted.                         *)
(*                                                                         *)
(* A router greets the other end of a transport with HELLO, answers a      *)
(* HELLO with all the servers it knows, and sends every change after that. *)
(* Several threads of a router do so at once: an application thread and a  *)
(* worker for every transport.  What a thread has begun and not done yet   *)
(* is its agenda, a sequence of steps.  One endpoint has one server;       *)
(* policies, priorities and lack of memory are left out.                   *)
(***************************************************************************)
EXTENDS Integers, Sequences, FiniteSets, SequencesExt

CONSTANTS
  Routers,
  Xports,       \* <<n, m>>: the transport of router n to router m
  NetOf,        \* transport -> net_id
  Servers,      \* servers, each with an endpoint of its own
  HomeOf,       \* server -> its router
  Local, None,
  MaxOps,       \* operations of applications, all together
  MaxStops,     \* transports stopped and routers restarted, all together
  Overlaps      \* what overlaps on a router: a removal with a "snapshot", a
                \* "write" with the fall of its transport, the "stop" of a
                \* transport with the news of other threads

There(x) == <<x[2], x[1]>>      \* the other end

ASSUME NamingAssumption ==
  /\ Xports \subseteq Routers \X Routers
  /\ \A x \in Xports : There(x) \in Xports /\ x[1] # x[2]
  /\ HomeOf \in [Servers -> Routers]
  /\ Local \notin Xports /\ None \notin Xports /\ Local # None
  /\ None \notin Servers \cup Routers
  /\ Xports \cap Routers = {} /\ IsFiniteSet(Servers)
  /\ MaxOps \in Nat /\ MaxStops \in Nat
  /\ Overlaps \subseteq {"snapshot", "write", "stop"}

VARIABLES
  server,       \* router, server -> where it is known from: Local, a transport or None
  client,       \* the same for the endpoint of the server
  up,           \* transport -> the other router has said HELLO
  helloSent,
  st,           \* its channel: "closed", "opening", "open", "lost" or "paused"
  net,          \* transport -> messages sent on it
  agenda,       \* thread -> what it has still to do
  protocolSem,  \* router -> the thread that has protocol_semaphore, or None
  ops, stops

tables == <<server, client>>
links == <<up, helloSent, st, net>>
threads == <<agenda, protocolSem>>
bounds == <<ops, stops>>
vars == <<tables, links, threads, bounds>>

\* A router stands for its application thread, a transport for its worker.
Threads == Routers \cup Xports
RouterOf(t) == IF t \in Routers THEN t ELSE t[1]
Idle(n) == \A t \in Threads : RouterOf(t) = n => agenda[t] = <<>>

Message == [kind : {"HELLO", "BYE", "NEW_SERVER", "REMOVE_SERVER", "REMOVE_CLIENT"},
            of : Servers \cup {None}]
Msg(kind, v) == [kind |-> kind, of |-> v]

\* A step of an agenda: what to do, of which server, over or from which
\* transports.
Do(what, v, xs) == [do |-> what, of |-> v, xs |-> xs]
Now(t) == Head(agenda[t])
From(t) == CHOOSE x \in Now(t).xs : TRUE
Doing(t, what) == agenda[t] # <<>> /\ Now(t).do = what
Go(t, steps) == agenda' = [agenda EXCEPT ![t] = steps \o Tail(@)]

-----------------------------------------------------------------------------
(***************************************************************************)
(* Messages                                                                *)
(***************************************************************************)

\* ipc_router_send_cntl_msg to the transports ys
Send(ys, m) == net' = [y \in Xports |-> IF y \in ys THEN Append(net[y], m) ELSE net[y]]

\* Mutant of Reach: news goes back to where it came from.
ReachEchoes(n, xs) == {y \in Xports : y[1] = n /\ up[y]}

\* The transports that ipc_router_bcast_cntl_msg takes: those of the router
\* that are up and of another network than the one the news came from.
Reach(n, xs) == {y \in Xports : y[1] = n /\ up[y] /\ \A x \in xs : NetOf[y] # NetOf[x]}

\* The flag up is read before the message is written; in between, the
\* transport may fall.
Tell(t, m, ys, steps) ==
  IF "write" \in Overlaps
  THEN Go(t, <<Do(m.kind, m.of, ys)>> \o steps) /\ UNCHANGED net
  ELSE Go(t, steps) /\ Send(ys, m)

Write(t) ==
  /\ agenda[t] # <<>> /\ Now(t).do \in {"NEW_SERVER", "REMOVE_SERVER", "REMOVE_CLIENT"}
  /\ Send(Now(t).xs, Msg(Now(t).do, Now(t).of))
  /\ Go(t, <<>>)
  /\ UNCHANGED <<tables, up, helloSent, st, protocolSem, bounds>>

-----------------------------------------------------------------------------
(***************************************************************************)
(* The steps                                                               *)
(***************************************************************************)

\* ipc_router_handle_reg_server for a server known from the transports xs (one
\* or, on its own router, none): a new one is announced, all of it under
\* protocol_semaphore.
Register(t) ==
  /\ Doing(t, "register")
  /\ LET n == RouterOf(t)
         v == Now(t).of
         x == IF Now(t).xs = {} THEN Local ELSE From(t)
     IN /\ protocolSem[n] = None
        /\ client' = [client EXCEPT ![n][v] = IF @ = None THEN x ELSE @]
        /\ server' = [server EXCEPT ![n][v] = IF @ = None THEN x ELSE @]
        /\ IF server[n][v] # None
           THEN Go(t, <<>>) /\ UNCHANGED <<net, protocolSem>>
           ELSE /\ protocolSem' = [protocolSem EXCEPT ![n] = t]
                /\ Tell(t, Msg("NEW_SERVER", v), Reach(n, Now(t).xs),
                        <<Do("release", None, {})>>)
  /\ UNCHANGED <<up, helloSent, st, bounds>>

\* Mutant of Release: the semaphore is not given back.
ReleaseForgets(t) ==
  /\ Doing(t, "release")
  /\ Go(t, <<>>)
  /\ UNCHANGED <<tables, links, protocolSem, bounds>>

Release(t) ==
  /\ Doing(t, "release")
  /\ protocolSem' = [protocolSem EXCEPT ![RouterOf(t)] = None]
  /\ Go(t, <<>>)
  /\ UNCHANGED <<tables, links, bounds>>

\* A server is withdrawn by ipc_router_bcast_cntl_msg, by itself or as one of
\* those of a transport that fell, which is then ...
TellServer(t) ==
  /\ Doing(t, "tellServer") \/ Doing(t, "downServer")
  /\ Tell(t, Msg("REMOVE_SERVER", Now(t).of), Reach(RouterOf(t), Now(t).xs),
          IF Now(t).do = "downServer" THEN <<Do("dropServer", Now(t).of, {})>> ELSE <<>>)
  /\ UNCHANGED <<tables, up, helloSent, st, protocolSem, bounds>>

\* ... removed by ipc_router_unregister_server.
DropServer(t) ==
  /\ Doing(t, "dropServer")
  /\ server' = [server EXCEPT ![RouterOf(t)][Now(t).of] = None]
  /\ Go(t, <<>>)
  /\ UNCHANGED <<client, links, protocolSem, bounds>>

\* ipc_router_send_remove_client, of an endpoint that is known, likewise
TellClient(t) ==
  /\ Doing(t, "tellClient") \/ Doing(t, "downClient")
  /\ LET n == RouterOf(t)
         v == Now(t).of
         next == IF Now(t).do = "downClient" THEN <<Do("dropClient", v, {})>> ELSE <<>>
     IN IF client[n][v] # None
        THEN Tell(t, Msg("REMOVE_CLIENT", v), Reach(n, Now(t).xs), next)
        ELSE Go(t, next) /\ UNCHANGED net
  /\ UNCHANGED <<tables, up, helloSent, st, protocolSem, bounds>>

\* ipc_router_unregister_client
DropClient(t) ==
  /\ Doing(t, "dropClient")
  /\ client' = [client EXCEPT ![RouterOf(t)][Now(t).of] = None]
  /\ Go(t, <<>>)
  /\ UNCHANGED <<server, links, protocolSem, bounds>>

\* ipc_router_remove_client: the endpoint and, if there was one, its server
RemoveClient(t) ==
  /\ Doing(t, "removeClient")
  /\ LET n == RouterOf(t)
         v == Now(t).of
     IN /\ client' = [client EXCEPT ![n][v] = None]
        /\ Go(t, IF client[n][v] # None THEN <<Do("dropServer", v, {})>> ELSE <<>>)
  /\ UNCHANGED <<server, links, protocolSem, bounds>>

Removing(n) == \E t \in Threads : RouterOf(t) = n /\ \E i \in DOMAIN agenda[t] :
  agenda[t][i].do \in {"tellServer", "dropServer", "downServer", "tellClient", "dropClient",
                       "downClient", "removeClient", "down", "downClients"}

\* Mutant of XportUp: no list for a router that was greeted before.
XportUpListsOnce(t) ==
  /\ Doing(t, "hello")
  /\ "snapshot" \in Overlaps \/ ~Removing(RouterOf(t))
  /\ protocolSem[RouterOf(t)] = None
  /\ protocolSem' = [protocolSem EXCEPT ![RouterOf(t)] = t]
  /\ up' = [up EXCEPT ![t] = TRUE]
  /\ helloSent' = [helloSent EXCEPT ![t] = TRUE]
  /\ Send(IF helloSent[t] THEN {} ELSE {t}, Msg("HELLO", None))
  /\ LET vs == SetToSeq({v \in Servers : server[RouterOf(t)][v] # None /\ ~helloSent[t]})
     IN Go(t, [i \in DOMAIN vs |-> Do("advertise", vs[i], Now(t).xs)] \o <<Do("release", None, {})>>)
  /\ UNCHANGED <<tables, st, bounds>>

\* ipc_router_xport_up, under protocol_semaphore: the transport is up from now
\* on, HELLO is answered, and the servers known now are listed, ...
XportUp(t) ==
  /\ Doing(t, "hello")
  /\ "snapshot" \in Overlaps \/ ~Removing(RouterOf(t))
  /\ protocolSem[RouterOf(t)] = None
  /\ protocolSem' = [protocolSem EXCEPT ![RouterOf(t)] = t]
  /\ up' = [up EXCEPT ![t] = TRUE]
  /\ helloSent' = [helloSent EXCEPT ![t] = TRUE]
  /\ Send(IF helloSent[t] THEN {} ELSE {t}, Msg("HELLO", None))
  /\ LET vs == SetToSeq({v \in Servers : server[RouterOf(t)][v] # None})
     IN Go(t, [i \in DOMAIN vs |-> Do("advertise", vs[i], Now(t).xs)] \o <<Do("release", None, {})>>)
  /\ UNCHANGED <<tables, st, bounds>>

\* ... and advertised one by one if the endpoint is still there, and is of
\* this router or of another network.
Advertise(t) ==
  /\ Doing(t, "advertise")
  /\ LET v == Now(t).of
         known == client[RouterOf(t)][v]
         foreign == known \in Xports /\ NetOf[known] # NetOf[t]
     IN Send(IF (known = Local \/ foreign) /\ up[t] THEN {t} ELSE {}, Msg("NEW_SERVER", v))
  /\ Go(t, <<>>)
  /\ UNCHANGED <<tables, up, helloSent, st, protocolSem, bounds>>

\* ipc_router_xport_down: each server known over the transport is withdrawn
\* and then removed, ...
XportDown(t) ==
  /\ Doing(t, "down")
  /\ up' = [up EXCEPT ![From(t)] = FALSE]
  /\ helloSent' = [helloSent EXCEPT ![From(t)] = FALSE]
  /\ LET xs == Now(t).xs
         vs == SetToSeq({v \in Servers : server[RouterOf(t)][v] \in xs})
     IN Go(t, [i \in DOMAIN vs |-> Do("downServer", vs[i], xs)]
              \o <<Do("downClients", None, xs)>>)
  /\ UNCHANGED <<tables, st, net, protocolSem, bounds>>

\* ... and then each endpoint.
DownClients(t) ==
  /\ Doing(t, "downClients")
  /\ LET xs == Now(t).xs
         vs == SetToSeq({v \in Servers : client[RouterOf(t)][v] \in xs})
     IN Go(t, [i \in DOMAIN vs |-> Do("downClient", vs[i], xs)])
  /\ UNCHANGED <<tables, links, protocolSem, bounds>>

\* The end of ipc_router_xal_smdl_handle_remote_close: pending packets are
\* thrown away.
Flush(t) ==
  /\ Doing(t, "flush")
  /\ net' = [net EXCEPT ![t] = <<>>]
  /\ st' = [st EXCEPT ![t] = "paused"]
  /\ Go(t, <<>>)
  /\ UNCHANGED <<tables, up, helloSent, protocolSem, bounds>>

\* Channels that close take with them what was sent on them; the workers at
\* the other ends of open ones are signalled.
CloseAll(xs) ==
  /\ st' = [y \in Xports |-> IF y \in xs THEN "closed"
                            ELSE IF There(y) \in xs /\ st[y] = "open" THEN "lost" ELSE st[y]]
  /\ net' = [y \in Xports |-> IF y \in xs THEN <<>> ELSE net[y]]

\* The end of ipc_router_xal_stop_xport
CloseXport(t) ==
  /\ Doing(t, "close")
  /\ CloseAll(Now(t).xs)
  /\ Go(t, <<>>)
  /\ UNCHANGED <<tables, up, helloSent, protocolSem, bounds>>

-----------------------------------------------------------------------------
(***************************************************************************)
(* Applications                                                            *)
(***************************************************************************)

MayRemove(n) == "snapshot" \in Overlaps \/ protocolSem[n] = None

Begin(n, steps) ==
  /\ agenda[n] = <<>> /\ ops < MaxOps
  /\ ops' = ops + 1
  /\ agenda' = [agenda EXCEPT ![n] = steps]
  /\ UNCHANGED <<links, protocolSem, stops>>

\* ipc_router_core_reg_server, on an endpoint opened before or for it
RegServer(v) ==
  /\ Begin(HomeOf[v], <<Do("register", v, {})>>)
  /\ UNCHANGED tables

\* Mutant of DeregServer: nobody is told.
DeregServerQuietly(v) ==
  /\ server[HomeOf[v]][v] = Local /\ MayRemove(HomeOf[v])
  /\ server' = [server EXCEPT ![HomeOf[v]][v] = None]
  /\ Begin(HomeOf[v], <<>>)
  /\ UNCHANGED client

\* ipc_router_core_dereg_server: the server is removed and then withdrawn.
DeregServer(v) ==
  /\ server[HomeOf[v]][v] = Local /\ MayRemove(HomeOf[v])
  /\ server' = [server EXCEPT ![HomeOf[v]][v] = None]
  /\ Begin(HomeOf[v], <<Do("tellServer", v, {})>>)
  /\ UNCHANGED client

\* ipc_router_core_close
Close(v) ==
  /\ client[HomeOf[v]][v] = Local /\ MayRemove(HomeOf[v])
  /\ Begin(HomeOf[v], <<Do("tellClient", v, {}), Do("removeClient", v, {})>>)
  /\ UNCHANGED tables

-----------------------------------------------------------------------------
(***************************************************************************)
(* Transports                                                              *)
(***************************************************************************)

\* ipc_router_xal_start_xport: HELLO waits for the channel to open.
StartXport(x) ==
  /\ st[x] = "closed" /\ agenda[x[1]] = <<>> /\ agenda[x] = <<>>
  /\ st' = [st EXCEPT ![x] = "opening"]
  /\ up' = [up EXCEPT ![x] = FALSE]
  /\ helloSent' = [helloSent EXCEPT ![x] = TRUE]
  /\ net' = [net EXCEPT ![x] = <<Msg("HELLO", None)>>]
  /\ UNCHANGED <<tables, threads, bounds>>

\* ipc_router_xal_stop_xport, when the worker has nothing to do. BYE is sent
\* before the flag up falls; what is sent in between comes after the BYE.
StopXport(x) ==
  /\ st[x] # "closed" /\ agenda[x[1]] = <<>> /\ agenda[x] = <<>>
  /\ MayRemove(x[1]) /\ stops < MaxStops
  /\ stops' = stops + 1
  /\ Send(IF up[x] THEN {x} ELSE {}, Msg("BYE", None))
  /\ up' = IF "stop" \in Overlaps THEN up ELSE [up EXCEPT ![x] = FALSE]
  /\ agenda' = [agenda EXCEPT ![x[1]] = <<Do("down", None, {x}), Do("close", None, {x})>>]
  /\ UNCHANGED <<tables, helloSent, st, protocolSem, ops>>

\* A router restarts: nothing of it is left.
Restart(n) ==
  /\ stops < MaxStops
  /\ stops' = stops + 1
  /\ server' = [server EXCEPT ![n] = [v \in Servers |-> None]]
  /\ client' = [client EXCEPT ![n] = [v \in Servers |-> None]]
  /\ agenda' = [t \in Threads |-> IF RouterOf(t) = n THEN <<>> ELSE agenda[t]]
  /\ protocolSem' = [protocolSem EXCEPT ![n] = None]
  /\ up' = [x \in Xports |-> x[1] # n /\ up[x]]
  /\ helloSent' = [x \in Xports |-> x[1] # n /\ helloSent[x]]
  /\ CloseAll({x \in Xports : x[1] = n})
  /\ UNCHANGED ops

\* A worker starts something when it has nothing to do and its transport is
\* not being stopped.
Ready(x) ==
  /\ agenda[x] = <<>>
  /\ ~\E i \in DOMAIN agenda[x[1]] : agenda[x[1]][i].do = "close" /\ x \in agenda[x[1]][i].xs

\* Mutant of Open: no HELLO when the channel is open again.
OpenSilently(x) ==
  /\ Ready(x) /\ st[x] \in {"opening", "paused"} /\ st[There(x)] # "closed"
  /\ st' = [st EXCEPT ![x] = "open"]
  /\ UNCHANGED <<tables, up, helloSent, net, threads, bounds>>

\* ipc_router_xal_smdl_handle_remote_resume and, after a close,
\* ipc_router_xal_resume
Open(x) ==
  /\ Ready(x) /\ st[x] \in {"opening", "paused"} /\ st[There(x)] # "closed"
  /\ st' = [st EXCEPT ![x] = "open"]
  /\ IF st[x] = "paused" /\ ~up[x]
     THEN helloSent' = [helloSent EXCEPT ![x] = TRUE] /\ Send({x}, Msg("HELLO", None))
     ELSE UNCHANGED <<helloSent, net>>
  /\ UNCHANGED <<tables, up, threads, bounds>>

\* ipc_router_xal_smdl_handle_remote_close and ipc_router_xal_error
RemoteClose(x) ==
  /\ Ready(x) /\ st[x] = "lost" /\ MayRemove(x[1])
  /\ agenda' = [agenda EXCEPT ![x] = (IF up[x] THEN <<Do("down", None, {x})>> ELSE <<>>)
                                     \o <<Do("flush", None, {x})>>]
  /\ UNCHANGED <<tables, links, protocolSem, bounds>>

\* ipc_router_handle_control_msg takes a message; what it has to do with it.
Receive(x) ==
  /\ Ready(x) /\ st[x] = "open" /\ st[There(x)] = "open" /\ net[There(x)] # <<>>
  /\ LET m == Head(net[There(x)])
         known == server[x[1]][m.of] # None
     IN /\ m.kind \in {"HELLO", "NEW_SERVER"} \/ MayRemove(x[1])
        /\ agenda' = [agenda EXCEPT ![x] =
             CASE m.kind = "HELLO" -> <<Do("hello", None, {x})>>
               [] m.kind = "BYE" -> <<Do("down", None, {x})>>
               [] m.kind = "NEW_SERVER" -> <<Do("register", m.of, {x})>>
               [] m.kind = "REMOVE_SERVER" ->
                    IF known THEN <<Do("dropServer", m.of, {x}), Do("tellServer", m.of, {x})>>
                    ELSE <<>>
               [] m.kind = "REMOVE_CLIENT" ->
                    <<Do("tellClient", m.of, {x}), Do("removeClient", m.of, {x})>>]
  /\ net' = [net EXCEPT ![There(x)] = Tail(@)]
  /\ UNCHANGED <<tables, up, helloSent, st, protocolSem, bounds>>

-----------------------------------------------------------------------------
\* side is the part of the routers on the near side of each transport: they can
\* be told apart when the transports make no cycle.
NoCycle(side) == \A x \in Xports :
  /\ x[1] \in side[x] /\ x[2] \notin side[x]
  /\ \A y \in Xports : y[2] = x[1] /\ y # There(x) => side[y] \subseteq side[x]

\* The transports make a tree: without a transport and its other direction, no
\* way is left from one side to the other, ...
Tree(side) == \A x \in Xports :
  /\ x[1] \in side[x] /\ side[There(x)] = Routers \ side[x]
  /\ \A y \in Xports \ {x, There(x)} : y[1] \in side[x] <=> y[2] \in side[x]

\* ... and with all of them, there is a way from everywhere to everywhere.
Connected == \A S \in SUBSET Routers :
  S # {} /\ (\A x \in Xports : x[1] \in S => x[2] \in S) => S = Routers

\* Transports of a router have networks of their own.
OwnNetworks == \A x, y \in Xports : x[1] = y[1] /\ NetOf[x] = NetOf[y] => x = y

Init ==
  /\ server = [n \in Routers |-> [v \in Servers |-> None]]
  /\ client = [n \in Routers |-> [v \in Servers |-> None]]
  /\ up = [x \in Xports |-> FALSE]
  /\ helloSent = [x \in Xports |-> FALSE]
  /\ st = [x \in Xports |-> "closed"]
  /\ net = [x \in Xports |-> <<>>]
  /\ agenda = [t \in Threads |-> <<>>]
  /\ protocolSem = [n \in Routers |-> None]
  /\ ops = 0 /\ stops = 0

Work(t) ==
  \/ Write(t) \/ Register(t) \/ Release(t) \/ TellServer(t) \/ DropServer(t)
  \/ TellClient(t) \/ DropClient(t) \/ RemoveClient(t) \/ XportUp(t) \/ Advertise(t)
  \/ XportDown(t) \/ DownClients(t) \/ Flush(t) \/ CloseXport(t)

Signalled(x) == Open(x) \/ RemoteClose(x) \/ Receive(x)

Next ==
  \/ \E t \in Threads : Work(t)
  \/ \E v \in Servers : RegServer(v) \/ DeregServer(v) \/ Close(v)
  \/ \E x \in Xports : StartXport(x) \/ StopXport(x) \/ Signalled(x)
  \/ \E n \in Routers : Restart(n)

Spec == Init /\ [][Next]_vars

\* Threads go on with what they began, workers with what they are signalled;
\* transports that are stopped need not be started again.
FairSpec ==
  /\ Spec
  /\ \A t \in Threads : WF_vars(Work(t))
  /\ \A x \in Xports : WF_vars(Signalled(x))

-----------------------------------------------------------------------------
(***************************************************************************)
(* Properties                                                              *)
(***************************************************************************)

Steps == [do : {"register", "release", "tellServer", "dropServer", "downServer", "tellClient",
                "dropClient", "downClient", "removeClient", "hello", "advertise", "down",
                "downClients", "flush", "close", "NEW_SERVER", "REMOVE_SERVER", "REMOVE_CLIENT"},
          of : Servers \cup {None},
          xs : SUBSET Xports]

\* Who has protocol_semaphore will release it.
TypeOK ==
  /\ server \in [Routers -> [Servers -> Xports \cup {Local, None}]]
  /\ client \in [Routers -> [Servers -> Xports \cup {Local, None}]]
  /\ up \in [Xports -> BOOLEAN] /\ helloSent \in [Xports -> BOOLEAN]
  /\ st \in [Xports -> {"closed", "opening", "open", "lost", "paused"}]
  /\ net \in [Xports -> Seq(Message)]
  /\ agenda \in [Threads -> Seq(Steps)]
  /\ protocolSem \in [Routers -> Threads \cup {None}]
  /\ \A n \in Routers : protocolSem[n] # None =>
       /\ RouterOf(protocolSem[n]) = n
       /\ agenda[protocolSem[n]] # <<>> /\ Last(agenda[protocolSem[n]]).do = "release"
  /\ ops \in 0..MaxOps /\ stops \in 0..MaxStops

\* Every transport is open and has been greeted, and nobody has anything to do.
Settled == \A x \in Xports : st[x] = "open" /\ up[x] /\ net[x] = <<>>
Quiet == Settled /\ \A n \in Routers : Idle(n)

Registered(v) == server[HomeOf[v]][v] = Local

\* When all is quiet, every router knows every registered server ...
NoServerMissed == Quiet => \A v \in Servers, n \in Routers : Registered(v) => server[n][v] # None

\* ... and no other, nor the endpoint of another.
NoGhost == Quiet => \A v \in Servers, n \in Routers :
  /\ server[n][v] # None => Registered(v)
  /\ client[n][v] # None => client[HomeOf[v]][v] = Local

\* No router learns of a server of its own from another: news never goes back
\* to where it came from, if the transports make no cycle.
OwnServersAreLocal == \A v \in Servers : server[HomeOf[v]][v] \in {Local, None}

\* It does become quiet, if the transports stay started.
Settles == <>[](\A x \in Xports : st[x] # "closed") => <>[]Quiet
=============================================================================
