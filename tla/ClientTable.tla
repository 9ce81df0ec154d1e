------------------------------ MODULE ClientTable ------------------------------
(***************************************************************************)
(* The client table of the IPC router (ipc_router_database.c): the records *)
(* of the endpoints a router knows, on its own processor and on others,    *)
(* their reference counts, and the queues of senders waiting for a         *)
(* RESUME_TX event.                                                        *)
(*                                                                         *)
(* A thread inside the router is a stack of frames, the continuations of   *)
(* the C functions it is in; the last frame is the one it runs.  A step is *)
(* one critical section of client_table_semaphore or of a record's         *)
(* tx_cb_q_sem, with the code around it that touches no shared state.      *)
(* Every function but unregister_proc releases the semaphore before it     *)
(* calls another one, so only that function needs the lock as a variable.  *)
(*                                                                         *)
(* A reference to a record is a frame "unlock": from the find or register  *)
(* that took it until ipc_router_unlock_client, the caller uses the record *)
(* (it runs the event callback, sends on it, or enters tx_cb_q_sem).       *)
(***************************************************************************)
EXTENDS Integers, Sequences, FiniteSets

CONSTANTS
  Threads,      \* threads that call into the router
  Addrs,        \* endpoint addresses <processor_id, port_id>
  Procs,        \* processors
  LocalProc,    \* ipc_router_local_processor_id
  Xports,       \* transports to other routers
  Records,      \* memory for client records; a freed one may be used again
  Null,         \* NULL
  ProcOf,       \* the processor of an address
  Owner,        \* the application thread that opens and closes a local endpoint
  Worker,       \* the thread that runs the receive path of a transport
  Reach,        \* the remote endpoints whose messages arrive on a transport
  Priority,     \* priority of a transport
  RxQuota       \* IPC_ROUTER_DEFAULT_RX_QUOTA

Local == {a \in Addrs : ProcOf[a] = LocalProc}
Remote == Addrs \ Local

ASSUME ConstantsAssumption ==
  /\ LocalProc \in Procs
  /\ Null \notin Records /\ Null \notin Xports /\ Null \notin Threads
  /\ ProcOf \in [Addrs -> Procs]
  /\ Owner \in [Local -> Threads]
  /\ Worker \in [Xports -> Threads]
  /\ Reach \in [Xports -> SUBSET Remote]
  /\ Priority \in [Xports -> Nat]
  /\ RxQuota \in Nat \ {0}

VARIABLES
  table,        \* address -> the linked record, or Null
  live,         \* records allocated and not yet freed
  addrOf,       \* addr of each record
  xportOf,      \* client.xport
  refCount,     \* ref_count
  txCount,      \* client.tx_count: write tokens given out
  txQueue,      \* client.tx_cb_q: addresses of senders waiting to resume
  known,        \* processors that have a record in g_client_tbls
  route,        \* proc->xport of the known processors
  lock,         \* the thread inside unregister_proc, or Null
  stack         \* thread -> its frames

client == <<addrOf, xportOf>>
flow == <<txCount, txQueue>>
procs == <<known, route>>
vars == <<table, live, client, refCount, flow, procs, lock, stack>>

(***************************************************************************)
(* Frames.  The field r is a record, a an address, s a set still to visit. *)
(***************************************************************************)
Unlock(r)     == [op |-> "unlock", r |-> r]
Token(a, r)   == [op |-> "token", a |-> a, r |-> r]
Resume(r)     == [op |-> "resume", r |-> r]
Cleanup(r)    == [op |-> "cleanup", r |-> r]
Notify(q)     == [op |-> "notify", q |-> q]
Closed(r)     == [op |-> "closed", r |-> r]
Unregister(a) == [op |-> "unregister", a |-> a]
Event(a)      == [op |-> "event", a |-> a]
Each(s)       == [op |-> "each", s |-> s]
Down(x, s)    == [op |-> "down", x |-> x, s |-> s]
DelProcs(s)   == [op |-> "delprocs", s |-> s]
DelProc(p)    == [op |-> "delproc", p |-> p]

Frame ==
  [op : {"unlock", "resume", "cleanup", "closed"}, r : Records]
    \cup [op : {"token"}, a : Addrs, r : Records]
    \cup [op : {"notify"}, q : Seq(Addrs)]
    \cup [op : {"unregister", "event"}, a : Addrs]
    \cup [op : {"each"}, s : SUBSET Addrs]
    \cup [op : {"down"}, x : Xports, s : SUBSET Addrs]
    \cup [op : {"delprocs"}, s : SUBSET Procs]
    \cup [op : {"delproc"}, p : Procs]

Idle(t) == stack[t] = <<>>
Top(t) == stack[t][Len(stack[t])]
At(t, op) == stack[t] # <<>> /\ Top(t).op = op
Below(t) == SubSeq(stack[t], 1, Len(stack[t]) - 1)

\* The thread leaves its frame (if it has one) and enters these.
Goto(t, frames) == stack' = [stack EXCEPT ![t] = Below(t) \o frames]

\* client_table_semaphore can be taken
LockFree == lock = Null

Linked(r) == \E a \in Addrs : table[a] = r

-----------------------------------------------------------------------------
(***************************************************************************)
(* The critical sections of the client table.                              *)
(***************************************************************************)

\* add_client_table, for a processor that has none yet
AddProc(p, x) ==
  /\ known' = known \cup {p}
  /\ route' = IF p \in known THEN route ELSE [route EXCEPT ![p] = x]

\* A record moves to a transport of higher priority; a local one never does.
Better(x, old) == x # Null /\ old # Null /\ Priority[x] > Priority[old]

\* ipc_router_register_client_ext, when it gives its caller a reference
\* to r: the record that exists, moved to a transport of higher priority ...
RegisterOld(a, x, r) ==
  /\ LockFree
  /\ table[a] = r
  /\ refCount' = [refCount EXCEPT ![r] = @ + 1]
  /\ xportOf' = IF Better(x, xportOf[r]) THEN [xportOf EXCEPT ![r] = x]
                ELSE xportOf
  /\ UNCHANGED <<table, live, addrOf, flow, procs>>

\* ... or a new one.
RegisterNew(a, x, r) ==
  /\ LockFree
  /\ table[a] = Null /\ r \notin live
  /\ table' = [table EXCEPT ![a] = r]
  /\ live' = live \cup {r}
  /\ addrOf' = [addrOf EXCEPT ![r] = a]
  /\ xportOf' = [xportOf EXCEPT ![r] = x]
  /\ refCount' = [refCount EXCEPT ![r] = 1]
  /\ txCount' = [txCount EXCEPT ![r] = 0]
  /\ txQueue' = [txQueue EXCEPT ![r] = <<>>]
  /\ AddProc(ProcOf[a], x)

Register(a, x, r) == RegisterOld(a, x, r) \/ RegisterNew(a, x, r)

\* The same when the record cannot be allocated: the processor stays known.
RegisterNoMem(a, x) ==
  /\ LockFree
  /\ table[a] = Null
  /\ AddProc(ProcOf[a], x)
  /\ UNCHANGED <<table, live, client, refCount, flow, lock, stack>>

\* ipc_router_find_client: the thread goes on with the frames "lost", or with
\* a reference to the record it found and the frames "found" that use it.
Find(t, a, lost, found) ==
  /\ LockFree
  /\ IF table[a] = Null
     THEN /\ Goto(t, lost)
          /\ UNCHANGED refCount
     ELSE /\ refCount' = [refCount EXCEPT ![table[a]] = @ + 1]
          /\ Goto(t, lost \o <<Unlock(table[a])>> \o found)
  /\ UNCHANGED <<table, live, client, flow, procs, lock>>

\* Mutant of Remove: the table's reference is not dropped.
RemoveKeepsCount(r) ==
  /\ table' = [table EXCEPT ![addrOf[r]] = Null]
  /\ UNCHANGED refCount

\* ipc_router_remove_client of the database: unlink the record and drop
\* the reference of the table.
Remove(r) ==
  /\ table' = [table EXCEPT ![addrOf[r]] = Null]
  /\ refCount' = [refCount EXCEPT ![r] = @ - 1]

\* The frame that cleans up a record nobody is left to hold.
CleanupIf(cond, r) == IF cond THEN <<Cleanup(r)>> ELSE <<>>

-----------------------------------------------------------------------------
(***************************************************************************)
(* Calls into the router, by a thread that is outside of it.               *)
(***************************************************************************)
\* ipc_router_core_open with a port number: SUCCESS and BUSY both take a
\* reference and give it back.
Open(t, a) ==
  /\ Idle(t) /\ a \in Local /\ Owner[a] = t
  /\ \/ /\ \E r \in Records : /\ Register(a, Null, r)
                              /\ Goto(t, <<Unlock(r)>>)
        /\ UNCHANGED lock
     \/ RegisterNoMem(a, Null)

\* A message of endpoint a arrives on transport x: the source is registered.
Learn(t, x, a) ==
  /\ Idle(t) /\ Worker[x] = t /\ a \in Reach[x]
  /\ \/ /\ \E r \in Records : /\ Register(a, x, r)
                              /\ Goto(t, <<Unlock(r)>>)
        /\ UNCHANGED lock
     \/ RegisterNoMem(a, x)

\* ipc_router_core_send from an open local endpoint to any address.
Send(t, src, dst) ==
  /\ Idle(t) /\ src \in Local /\ Owner[src] = t
  /\ table[src] # Null
  /\ Find(t, dst, <<>>, <<Token(src, table[dst])>>)

\* The reader of a has read the message with the confirm flag: ipc_router_
\* resume_tx, called by send_conf for a local reader and on a RESUME_TX
\* message for a remote one, whatever the count is.
Confirm(t, a) ==
  /\ Idle(t)
  /\ \/ a \in Local /\ Owner[a] = t
     \/ \E x \in Xports : Worker[x] = t /\ a \in Reach[x]
  /\ table[a] # Null
  /\ Find(t, a, <<>>, <<Resume(table[a])>>)

\* ipc_router_core_close by the owner, or a REMOVE_CLIENT message: the
\* record is held while the removal is announced, then unregistered.
Close(t, a) ==
  /\ Idle(t)
  /\ \/ a \in Local /\ Owner[a] = t /\ table[a] # Null
     \/ \E x \in Xports : Worker[x] = t /\ a \in Reach[x]
  /\ Find(t, a, <<Unregister(a)>>, <<>>)

\* ipc_router_xport_down, from the list of the transport's clients on.
XportDown(t, x) ==
  /\ Idle(t) /\ Worker[x] = t
  /\ LockFree
  /\ Goto(t, <<Down(x, {a \in Addrs : /\ table[a] # Null
                                      /\ xportOf[table[a]] = x})>>)
  /\ UNCHANGED <<table, live, client, refCount, flow, procs, lock>>

-----------------------------------------------------------------------------
(***************************************************************************)
(* Steps of a thread inside the router.                                    *)
(***************************************************************************)

\* Mutant of GetToken: one token more than the quota.
GetTokenOverQuota(t) ==
  /\ At(t, "token")
  /\ LET r == Top(t).r
     IN IF txCount[r] <= RxQuota
        THEN /\ txCount' = [txCount EXCEPT ![r] = @ + 1]
             /\ UNCHANGED txQueue
        ELSE /\ txQueue' = [txQueue EXCEPT ![r] = Append(@, Top(t).a)]
             /\ UNCHANGED txCount
  /\ Goto(t, <<>>)
  /\ UNCHANGED <<table, live, client, refCount, procs, lock>>

\* ipc_router_get_write_token: with the quota used up, the sender's address
\* is queued once; the node may fail to be allocated.
GetToken(t) ==
  /\ At(t, "token")
  /\ LET r == Top(t).r
         src == Top(t).a
         queued == \E i \in DOMAIN txQueue[r] : txQueue[r][i] = src
     IN \/ /\ txCount[r] < RxQuota
           /\ txCount' = [txCount EXCEPT ![r] = @ + 1]
           /\ UNCHANGED txQueue
        \/ /\ txCount[r] = RxQuota /\ ~queued
           /\ txQueue' = [txQueue EXCEPT ![r] = Append(@, src)]
           /\ UNCHANGED txCount
        \/ /\ txCount[r] = RxQuota
           /\ UNCHANGED flow
  /\ Goto(t, <<>>)
  /\ UNCHANGED <<table, live, client, refCount, procs, lock>>

\* Mutant of TakeWaiters: the queue is walked but not emptied.
TakeWaitersKeepsQueue(t, r, rest) ==
  /\ txCount' = [txCount EXCEPT ![r] = 0]
  /\ Goto(t, rest \o <<Notify(txQueue[r])>>)
  /\ UNCHANGED <<table, live, client, refCount, txQueue, procs, lock>>

\* The critical section of ipc_router_notify_tx_resume: empty the bucket and
\* take the queue.
TakeWaiters(t, r, rest) ==
  /\ txCount' = [txCount EXCEPT ![r] = 0]
  /\ txQueue' = [txQueue EXCEPT ![r] = <<>>]
  /\ Goto(t, rest \o <<Notify(txQueue[r])>>)
  /\ UNCHANGED <<table, live, client, refCount, procs, lock>>

ResumeTx(t) ==
  /\ At(t, "resume")
  /\ TakeWaiters(t, Top(t).r, <<>>)

\* ipc_router_cleanup_client wakes the waiters first, ...
StartCleanup(t) ==
  /\ At(t, "cleanup")
  /\ TakeWaiters(t, Top(t).r, <<Closed(Top(t).r)>>)

\* ... then delivers the CLOSED event and frees the record, whose memory
\* is zeroed before it is used again.
FinishCleanup(t) ==
  /\ At(t, "closed")
  /\ live' = live \ {Top(t).r}
  /\ refCount' = [refCount EXCEPT ![Top(t).r] = 0]
  /\ addrOf' = [addrOf EXCEPT ![Top(t).r] = Null]
  /\ xportOf' = [xportOf EXCEPT ![Top(t).r] = Null]
  /\ txCount' = [txCount EXCEPT ![Top(t).r] = 0]
  /\ Goto(t, <<>>)
  /\ UNCHANGED <<table, txQueue, procs, lock>>

\* RESUME_TX to the next waiter, found by its address and held meanwhile.
NotifyWaiter(t) ==
  /\ At(t, "notify") /\ Top(t).q # <<>>
  /\ Find(t, Head(Top(t).q), <<Notify(Tail(Top(t).q))>>, <<>>)

\* Mutant of UnlockClient: cleanup at a count of zero, and no cleanup.
UnlockClientEarly(t) ==
  /\ At(t, "unlock") /\ LockFree
  /\ LET r == Top(t).r
     IN /\ refCount' = [refCount EXCEPT ![r] = @ - 1]
        /\ Goto(t, CleanupIf(refCount[r] <= 1, r))
  /\ UNCHANGED <<table, live, client, flow, procs, lock>>

\* ipc_router_unlock_client
UnlockClient(t) ==
  /\ At(t, "unlock") /\ LockFree
  /\ LET r == Top(t).r
     IN /\ refCount' = [refCount EXCEPT ![r] = @ - 1]
        /\ Goto(t, CleanupIf(refCount[r] = 0, r))
  /\ UNCHANGED <<table, live, client, flow, procs, lock>>

\* Mutant of UnregisterClient: it trusts the holders to clean up.
UnregisterClientLeaks(t) ==
  /\ At(t, "unregister") /\ LockFree
  /\ IF table[Top(t).a] = Null THEN UNCHANGED <<table, refCount>>
     ELSE Remove(table[Top(t).a])
  /\ Goto(t, <<Event(Top(t).a)>>)
  /\ UNCHANGED <<live, client, flow, procs, lock>>

\* ipc_router_unregister_client: remove the record, clean it up if nobody
\* holds it, then tell the local clients.
UnregisterClient(t) ==
  /\ At(t, "unregister") /\ LockFree
  /\ LET a == Top(t).a
         r == table[a]
     IN IF r = Null
        THEN /\ Goto(t, <<Event(a)>>)
             /\ UNCHANGED <<table, refCount>>
        ELSE /\ Remove(r)
             /\ Goto(t, <<Event(a)>> \o CleanupIf(refCount[r] = 0, r))
  /\ UNCHANGED <<live, client, flow, procs, lock>>

\* ipc_router_event_notify: the list of the local clients, without the source.
ListLocal(t) ==
  /\ At(t, "event") /\ LockFree
  /\ Goto(t, <<Each({a \in Local \ {Top(t).a} : table[a] # Null})>>)
  /\ UNCHANGED <<table, live, client, refCount, flow, procs, lock>>

\* The event goes to the next client of the list, if it still exists.
NotifyEach(t) ==
  /\ At(t, "each")
  /\ \E a \in Top(t).s : Find(t, a, <<Each(Top(t).s \ {a})>>, <<>>)

\* xport_down: the next client of the list is announced as removed (while
\* its record is held) and unregistered, ...
DownClient(t) ==
  /\ At(t, "down")
  /\ \E a \in Top(t).s :
        Find(t, a, <<Down(Top(t).x, Top(t).s \ {a}), Unregister(a)>>, <<>>)

\* ... then come the processors known over the transport.
ListProcs(t) ==
  /\ At(t, "down") /\ Top(t).s = {} /\ LockFree
  /\ Goto(t, <<DelProcs({p \in known : route[p] = Top(t).x})>>)
  /\ UNCHANGED <<table, live, client, refCount, flow, procs, lock>>

\* ipc_router_unregister_proc takes the lock for all of remove_proc_record.
LockProc(t) ==
  /\ At(t, "delprocs") /\ LockFree
  /\ \E p \in Top(t).s : /\ Goto(t, <<DelProcs(Top(t).s \ {p}), DelProc(p)>>)
                         /\ lock' = t
  /\ UNCHANGED <<table, live, client, refCount, flow, procs>>

ClientsOf(p) == {r \in live : Linked(r) /\ ProcOf[addrOf[r]] = p}

\* Mutant of RemoveProcClient: a client that nobody holds is not cleaned up.
RemoveProcClientLeaks(t) ==
  /\ At(t, "delproc")
  /\ \E r \in ClientsOf(Top(t).p) : Remove(r)
  /\ Goto(t, <<Top(t)>>)
  /\ UNCHANGED <<live, client, flow, procs, lock>>

\* Mutant of RemoveProcClient: a client is cleaned up also when it is held.
RemoveProcClientHeld(t) ==
  /\ At(t, "delproc")
  /\ \E r \in ClientsOf(Top(t).p) :
        /\ Remove(r)
        /\ Goto(t, <<Top(t), Cleanup(r)>>)
  /\ UNCHANGED <<live, client, flow, procs, lock>>

\* remove_proc_record: every client left in the processor's table is removed
\* and, when nobody holds it, cleaned up with client_table_semaphore held.
RemoveProcClient(t) ==
  /\ At(t, "delproc")
  /\ \E r \in ClientsOf(Top(t).p) :
        /\ Remove(r)
        /\ Goto(t, <<Top(t)>> \o CleanupIf(refCount[r] = 0, r))
  /\ UNCHANGED <<live, client, flow, procs, lock>>

RemoveProc(t) ==
  /\ At(t, "delproc") /\ ClientsOf(Top(t).p) = {}
  /\ known' = known \ {Top(t).p}
  /\ route' = [route EXCEPT ![Top(t).p] = Null]
  /\ lock' = Null
  /\ Goto(t, <<>>)
  /\ UNCHANGED <<table, live, client, refCount, flow>>

\* A loop over a list that is exhausted ends.
EndLoop(t) ==
  /\ \/ At(t, "notify") /\ Top(t).q = <<>>
     \/ At(t, "each") /\ Top(t).s = {}
     \/ At(t, "delprocs") /\ Top(t).s = {}
  /\ Goto(t, <<>>)
  /\ UNCHANGED <<table, live, client, refCount, flow, procs, lock>>

-----------------------------------------------------------------------------
Init ==
  /\ table = [a \in Addrs |-> Null]
  /\ live = {}
  /\ addrOf = [r \in Records |-> Null]
  /\ xportOf = [r \in Records |-> Null]
  /\ refCount = [r \in Records |-> 0]
  /\ txCount = [r \in Records |-> 0]
  /\ txQueue = [r \in Records |-> <<>>]
  /\ known = {}
  /\ route = [p \in Procs |-> Null]
  /\ lock = Null
  /\ stack = [t \in Threads |-> <<>>]

Call(t) ==
  \/ \E a \in Addrs : Open(t, a) \/ Confirm(t, a) \/ Close(t, a)
  \/ \E src, dst \in Addrs : Send(t, src, dst)
  \/ \E x \in Xports : XportDown(t, x) \/ \E a \in Addrs : Learn(t, x, a)

Run(t) ==
  \/ GetToken(t) \/ ResumeTx(t) \/ UnlockClient(t)
  \/ StartCleanup(t) \/ FinishCleanup(t) \/ NotifyWaiter(t)
  \/ UnregisterClient(t) \/ ListLocal(t) \/ NotifyEach(t)
  \/ DownClient(t) \/ ListProcs(t)
  \/ LockProc(t) \/ RemoveProcClient(t) \/ RemoveProc(t)
  \/ EndLoop(t)

Next == \E t \in Threads : Call(t) \/ Run(t)

Spec == Init /\ [][Next]_vars

\* A thread inside the router keeps running; QuRT schedules by priority and
\* a section guarded by a semaphore is short.
FairSpec == Spec /\ \A t \in Threads : WF_vars(Run(t))

-----------------------------------------------------------------------------
(***************************************************************************)
(* Properties                                                              *)
(***************************************************************************)

TypeOK ==
  /\ table \in [Addrs -> Records \cup {Null}]
  /\ live \subseteq Records
  /\ addrOf \in [Records -> Addrs \cup {Null}]
  /\ xportOf \in [Records -> Xports \cup {Null}]
  /\ refCount \in [Records -> Int]
  /\ txCount \in [Records -> 0..RxQuota]
  /\ txQueue \in [Records -> Seq(Addrs)]
  /\ known \subseteq Procs
  /\ route \in [Procs -> Xports \cup {Null}]
  /\ lock \in Threads \cup {Null}
  /\ stack \in [Threads -> Seq(Frame)]

\* The places in the stacks where a frame f is.
Places(f) ==
  UNION {{<<t, i>> : i \in {j \in DOMAIN stack[t] : stack[t][j] = f}} : t \in Threads}

Refs(r) == Places(Unlock(r))
Cleaning(r) == Places(Cleanup(r)) \cup Places(Closed(r))

\* The count of a record is the number of references its callers hold, less
\* one once it is out of the table: the arithmetic of find, register, unlock
\* and remove agrees however the threads interleave.
RefCountExact ==
  \A r \in live :
    refCount[r] = Cardinality(Refs(r)) - (IF Linked(r) THEN 0 ELSE 1)

\* No thread is ever left with a pointer to freed memory: every record that
\* a frame uses, or the table links, is allocated.
NoUseAfterFree ==
  /\ \A a \in Addrs : table[a] # Null => table[a] \in live /\ addrOf[table[a]] = a
  /\ \A t \in Threads : \A i \in DOMAIN stack[t] :
       stack[t][i].op \in {"unlock", "token", "resume", "cleanup", "closed"}
         => stack[t][i].r \in live

\* A record is cleaned up by exactly one thread, and only when it is out of
\* the table and nobody holds it; once it is both, somebody does clean it up.
CleanedUpOnce ==
  \A r \in live :
    /\ Cardinality(Cleaning(r)) =
         (IF Linked(r) \/ Refs(r) # {} THEN 0 ELSE 1)

\* Nobody joins the queue of a record once cleanup_client has taken it: a
\* sender that was told to wait is never left in the queue of a dead record.
NoWaiterStranded ==
  \A r \in Records : Places(Closed(r)) # {} \/ r \notin live
                       => txQueue[r] = <<>>

\* The frames that use a record stand on the reference that keeps it.
UsesAreHeld ==
  \A t \in Threads : \A i \in DOMAIN stack[t] :
    stack[t][i].op \in {"token", "resume"} =>
      i > 1 /\ stack[t][i - 1] = Unlock(stack[t][i].r)

\* One thread cleans up a record, out of the table and held by nobody, and no
\* such record is forgotten: CleanedUpOnce in terms of the count.
CleanupClaimed ==
  /\ \A r \in Records : \A p, q \in Cleaning(r) : p = q
  /\ \A r \in Records : Cleaning(r) # {} => ~Linked(r) /\ refCount[r] = -1
  /\ \A r \in live : ~Linked(r) /\ refCount[r] = -1 => Cleaning(r) # {}

\* The inductive invariant behind RefCountExact, NoUseAfterFree,
\* CleanedUpOnce and NoWaiterStranded.
IInv ==
  /\ TypeOK
  /\ \A r \in Records : IsFiniteSet(Refs(r))
  /\ RefCountExact
  /\ NoUseAfterFree
  /\ UsesAreHeld
  /\ CleanupClaimed
  /\ NoWaiterStranded

\* What the callers may rely on, however the steps interleave: CountedRecords,
\* with the references in the stacks as the holders.
PhaseOf == [r \in Records |->
  IF r \notin live THEN "free" ELSE IF Linked(r) THEN "linked" ELSE "removed"]
HoldersOf == [r \in Records |-> Cardinality(Refs(r))]

Promise == INSTANCE CountedRecords WITH phase <- PhaseOf, holders <- HoldersOf

ImplementsCountedRecords == Promise!Spec

\* A thread never waits for client_table_semaphore while it holds it; the
\* event callbacks run without it.
NoSelfDeadlock ==
  \A t \in Threads : lock = t /\ At(t, "notify") => Top(t).q = <<>>

\* A record out of the table is freed in the end.
Reclaimed ==
  \A r \in Records : (r \in live /\ ~Linked(r)) ~> (r \notin live)
=============================================================================
