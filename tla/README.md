# A TLA+ model of the ADSP image's message passing: IPC router and QMI clients

The repository is the source of the firmware of an audio DSP (Qualcomm ADSP, Hexagon V5): about 2.5 million
lines of drivers, power management, core services, sensor and audio code, with parts shipped as binaries.
Nearly everything with a client outside its own process talks through one program, the **IPC router**
(`src/core/mproc/ipc_router/`), and most of that through the remote calls built on it, **QMI**
(`src/core/mproc/qmi/`).  This project models these: the router's tables and their reference counts, its flow
control and the protocol by which routers tell each other of their servers; and the client side of QMI (QCCI),
its transactions against time-outs, cancellation, release and the loss of the service.  The BSD-style sockets are modelled
as the router's most involved client: they block, poll and confirm on top of its callbacks.

## 1. The system

### The IPC router

A router runs on every processor.  Threads of the applications open *clients* (endpoints, named by
processor and port), register *servers* (names, a service and an instance) on them and send messages from
client to client.  Every router keeps records of the clients and servers it knows, its own and the others'.
Routers are linked by *transports* (XAL, over SMD Lite), whose worker threads call the router with what arrives.

| Part | Source | State | Operations | Talks to |
|---|---|---|---|---|
| client and processor tables | `ipc_router_database.c` | `g_client_tbls`: per processor a hash table of client records, each with `ref_count`, `tx_count`, `tx_cb_q`; `client_table_semaphore`, a `tx_cb_q_sem` per record | register, find, unlock, unregister, unregister_proc, list, event_notify, get_write_token, resume_client_tx | core; event callbacks of the clients |
| core: data path | `ipc_router_core.c` | none of its own | open, close, send, send_to_name, send_conf, forwarding, receiving | tables, protocol, transports |
| core: naming protocol | `ipc_router_core.c`, `ipc_router_database.c` | `g_server_tbls`, `g_xport_list` (flags `up`, `hello_sent`), `protocol_semaphore` | xport_up, xport_down, handle_control_msg, reg_server, dereg_server, close, bcast | the same functions on other routers, by HELLO, BYE, NEW_SERVER, REMOVE_SERVER, REMOVE_CLIENT, RESUME_TX |
| transport table | `ipc_router_database.c`, `ipc_router_core.c` | `g_xport_list`: `ref_count`, list membership | start_xport, stop_xport, lock_xport, unlock_xport | all of the core |
| packets, headers, policy | `ipc_router_packet.c`, `ipc_router_protocol.c`, `ipc_router_policy.c` | chained buffers; tables of rules | new, copy, duplicate, trim; inject, extract; send, receive and naming rules | core |
| transport over SMD Lite | `ipc_router_xal_smdl_common.c`, `ipc_router_xal_smdl_qurt.c` | per port: pending packets `tx_ref`, `rx_ref`, flags `paused`, signals of the worker | open, write, read, worker loop, close | core; SMD Lite's callback |
| QDI driver and library | `ipc_router_qdi_driver.c`, `ipc_router_qdi_user.c` | ports and reader signals of user processes | invoke methods, process death | core |
| sockets | `qsocket_ipcr.c` | `g_sock_list` with a `ref` per socket, `rx_q`, `active`, `connected`; `g_waiters_list` | qsocket, qconnect, qshutdown, qclose, qsendto, qrecvfrom, qpoll, qbind; callbacks for messages, RESUME_TX, removed endpoints and servers, CLOSED | core, and the callbacks of other sockets through it |
| sockets of user processes | `qsocket_ipcr_qdi.c` | the same through ports of the QDI driver | the same, select | QDI driver |

### QMI clients

QCCI (`src/core/mproc/qmi/src/qcci/`) is a library on top of the router: a client connects to one server and makes
synchronous calls, with or without a time-out, and asynchronous ones with a callback.

| Part | Source | State | Operations | Talks to |
|---|---|---|---|---|
| a client and its transactions | `qmi_cci_common.c` | `txn_list` (requests without an answer), `tx_q` (requests not sent yet), a `ref_count` per transaction and one for the client, `server_addr_valid`, `accepting_txns`, `err_pending` | init, send_msg_sync, send_msg_async, delete_async_txn, release, release_async, register_error_cb | its port on the router |
| transport over the router | `qmi_cci_xport_ipc.c` | a port and its client | open, send, look-up, close; callbacks for messages and events | IPC router, by RESUME_TX, REMOVE_SERVER, CLOSED |
| signals | `qmi_cci_target_ext.h` | an event mask, a timer mask, a timer | init, wait, set | QuRT |
| notifiers, list of services, start-up | `qmi_cci_common.c` | callback and flag; table of handles | notifier_init, get_service_list | transports |
| QCSI (servers), encoder, loopback | `qcsi/`, `encdec/`, `common/` | services, their clients and transactions | register, send_resp, send_ind, handle_event | IPC router |

### What is hard in them

* *Pointers outlive locks.*  Each function of the tables takes `client_table_semaphore`, hands out a pointer
  and releases it; the pointer is protected by a count that four functions change in different critical sections.
* *Callbacks run inside the router* and reach back into it: waking a waiting sender looks up its record, and
  dropping that reference may clean up that record, which wakes other senders, and so on.
* *A socket is used in several threads at once*, and each send to a socket of the same processor runs that socket's
  callback in the sender's thread, with whatever locks the sender holds.  One list holds the waiters of all sockets.
* *Flow control is distributed.*  The token for the quota-th message makes it carry a flag; the reader's
  confirmation of that one message is all that ever wakes the senders which were told to wait.
* *Naming is eventually consistent at best.*  Announcements come from several threads and several links, no
  acknowledgement exists, and a snapshot taken when a link comes up races with the incremental updates.
* *Links come and go* under traffic: removal of everything a link taught, pending packets, and stop_xport
  against threads still using it.
* *A transaction has four ends.*  The answer, the time-out or return of its call, its cancellation, and the loss of the
  server or the release of the client each take it out of the two lists it may be in, under two locks that are
  never held together, while the transmit queue is flushed by whoever comes by.  One of them has to report the outcome.
* *A client is opened, used and closed in three threads*, its own, the router's that bring events, and whoever releases it:
  the loss of the server may fall between any two steps of `qmi_client_init`.

### The rest of the repository

`PROJECT.json` lists every other component with the reason why it is not modelled.  In short: drivers whose
behaviour is that of hardware; generated stubs; tables; parts that are binaries; and the components that are
planned below.

## 2. The modules

| Module | What it is |
|---|---|
| `ClientTable` | the tables of clients and processors, their reference counts, cleanup, and the queues of senders that wait |
| `CountedRecords` | the abstract promise of these tables: a counted record |
| `FlowControl` | write tokens, BUSY and RESUME_TX, from the sender through links that fall to the reader and back |
| `Naming` | the protocol by which routers tell each other of servers, over transports that open, fall and restart |
| `QmiClient` | one client of QCCI, from its look-up to its release: transactions, transmit queue, loss of the server |
| `Sockets` | the BSD-style sockets: references, receive queues, waiting threads, callbacks and locks |
| `MCClientTable`, `MCFlowControl`, `MCNaming`, `MCQmiClient`, `MCSockets` | small instances for TLC |
| `ClientTableProofs` | types, the inductive invariant, and that `ClientTable` implements `CountedRecords` |
| `FlowControlProofs` | types, that no wake-up is lost, and the bound on the backlog |
| `NamingProofs`, `NamingSafety` | types with the use of `protocol_semaphore`, that news does not come back, and that no router misses a server; that none knows one too many |
| `QmiClientProofs`, `QmiClientSafety` | types, the reference counts of transactions and of the client, and that a loss is noticed; that every transaction has one outcome and nobody waits in vain |
| `SocketsProofs`, `SocketsSafety` | types and references of sockets; that no waiting thread, confirmation or promised event is lost, and that no threads wait for each other |

`PROJECT.json` ("map") gives the lines of code behind each definition.  `Mutant of` in a comment marks a
definition that is not used by a specification: it is the code with one plausible mistake, and shows that a
property can tell the difference.

### ClientTable

A thread inside the router is a stack of frames, the continuations of the C functions it is in; the last frame
runs.  A step is one critical section of `client_table_semaphore` or of a record's `tx_cb_q_sem`.  The recursion
of the code (wake a waiter, hold its record, drop it, clean it up, wake its waiters) is the growth of the stack.

| State | Code |
|---|---|
| `table`, `known`, `route` | `g_client_tbls`: the linked record of each address; the processors in it and their `xport` |
| `live` | records allocated and not freed.  `Records` is memory: a freed record may be allocated again |
| `addrOf`, `xportOf`, `refCount`, `txCount`, `txQueue` | fields of a record |
| `lock` | `client_table_semaphore`, for `unregister_proc`, the one function that calls others while it holds it |
| `stack` | what each thread still has to do, with the references (frames `unlock`) it holds |

Threads call `Open`, `Learn` (a message from an unknown endpoint registers it), `Send`, `Confirm`, `Close` and
`XportDown`; every other action is a step of a thread inside the router.  Failures of allocation are
`RegisterNoMem` and, for the node of a waiter, the last disjunct of `GetToken`.

`CountedRecords` says what a caller of the tables may rely on without a word of locks, frames or counts: a
record that is in the table can be held by any number; after it is taken out those who hold it still may use it
and nobody else gets it; it is freed after the last one has given it back.  `ClientTable` maps to it by the phase
of a record (`PhaseOf`) and the number of references in the stacks (`HoldersOf`): not by `refCount`, so that the
refinement also says that the arithmetic of the count is right.

### FlowControl

One server endpoint on the router `Home`; senders on `Home` and on routers linked to it.  Each router has its own
record of the endpoint with its own tokens (`txCount`) and queue.  A sender is the loop of `qsendto`: clear the
signal, send, wait on BUSY, with a time-out.  The message with the last token carries `confirm_rx`; the reader's
confirmation is RESUME_TX on the way back.  A link has what the transport of the sender has queued (`link`: it
takes messages whatever the state of the channel, and loses them only when the worker handles the fall), what is
under way back (`back`), and its state: up, lost (the channel has closed, the worker is signalled), down.
`Faults` names the failures that happen: a message with a normal token or with the last one is not sent after all,
the node of a waiter cannot be allocated.  The wake-up of a queue is one step here; `ClientTable` has its parts.

`ipc_router_core_close` tells the close first, link by link and with no semaphore held, to the links that are up
(`CloseBegin`, `Tell`), and takes the endpoint out of the table after that (`CloseEnd`).  A link that comes up again is
greeted meanwhile: `ipc_router_xport_up` looks the endpoint up, locks its record, announces it and unlocks it
(`LinkUp`, `FindServer`, `Announce`), under `protocol_semaphore`, which the close does not take.  The two overlap in every way.
`Stale` is what comes of one of them: a router that is linked, knows or will learn of the endpoint that was closed, and that
nobody will tell.  In `Tell`, `Confirm` and `Announce` the test of `up` and the write of the message are one step; the overlap
`write` of `Naming` has them apart.

### Naming

A router has tables of servers and endpoints with the way each was learnt, and per transport the flags `up` and
`helloSent`.  Its threads (one for the applications, one for every transport) have agendas: what a function or a
handler has begun, in order.  Steps of an agenda are the pieces between which another thread of the router can run;
what `protocol_semaphore` protects is one agenda with `release` at its end.  `net` is what was sent and not
received yet, lost when an end of the channel closes; `Restart` is a processor that starts again with empty tables.
`Overlaps` names the overlaps of threads which the code permits and which matter:

* `snapshot`: a removal (which takes no semaphore) runs while a HELLO is answered;
* `write`: `ipc_router_send_cntl_msg` reads `up` and writes later;
* `stop`: news of other threads is sent between the BYE and the fall of `up` in `ipc_router_xal_stop_xport`.

Without them the threads of a router take turns at these places; a run without overlaps shows what the protocol does
when only messages, channels and restarts are unordered, and a run with one shows what that overlap adds.

### QmiClient

| State | Code |
|---|---|
| `used`, `kind`, `id`, `ref`, `buf`, `pending`, `sig` | a transaction: its memory, type, `txn_id`, `ref_count`, `rx_buf`, `rc` still `QMI_TIMEOUT_ERR`, its signal |
| `list`, `queue`, `nextId` | `txn_list`, `tx_q`, `next_txn_id` |
| `valid`, `accepting`, `handle`, `linked`, `cref` | `server_addr_valid`, `accepting_txns`, `xport->handle`, membership in the table of handles, the client's count |
| `errCb`, `errPending` | `err_cb`, `err_pending` |
| `server`, `notice`, `waiting`, `attached`, `closing`, `requests` | the router and the server, as the client sees them: REMOVE_SERVER, RESUME_TX and CLOSED under way, requests not answered |
| `opening` | where `qmi_client_init` is |
| `pc`, `op`, `cur`, `carry`, `work` | where each thread is, in which call, for which transaction; transactions it took out of a list, whose reference it owes |
| `reports`, `told`, `crashed` | history: how often an outcome was reported; whether the error callback ran; whether freed memory was counted up or written, or a null pointer followed |

A step is one critical section of `txn_list_lock`, `tx_q_lock`, `server_addr_valid_lock`, `info_lock` or of a transaction's
lock, or what runs between two of them.  Threads of the application (`Users`) call what `Ops` allows them; the
router's threads are `Loss` (events), `Resumer` (RESUME_TX) and `Rx` (messages).  `qmi_cci_flush_tx_q` and
`cleanup_client_lists` are written once and run by every thread that calls them: `AfterFlush` and `AfterCleanup` say
where it goes then.  `Faults` names what fails: memory, the encoder, the transport, an answer of the wrong kind.
A piece of memory is a transaction once, so that a use after it was freed is seen as such.  Where the code writes to
freed memory the model stops (`crashed`), for what follows is undefined: this is finding 4.  It also stops where the event of
a loss finds `clnt->xport` empty: `qmi_client_init` opens the port (`OpenPort`), from when on events come, and lists the
transport afterwards (`AddXport`), and `opening = "live"` is the time between.  Section 3 says more of it.

### Sockets

| State | Code |
|---|---|
| `sock`, `rxq`, `rxLock` | a socket: in `g_sock_list`, `ref`, `type`, `active`, `connected` with `conn.addr`, `handle` not NULL; `rx_q`; who holds `rx_q_lock` |
| `waiter`, `signal`, `waitLock` | a thread's entry in `g_waiters_list` (descriptors, events, address), its signal; who holds `waiters_list_lock` |
| `port`, `gone`, `bucket`, `queue` | the router's records: of a socket's port, of remote endpoints; `tx_count` and `tx_cb_q` |
| `asked`, `sent` | the other side: a message to be confirmed, the tokens a remote endpoint has used |
| `stack` | what each thread still has to do, as in `ClientTable`, with the references and locks it holds |
| `app` | what the application's threads call, chosen at the start and never changed |
| `told` | history: destinations for which a socket was told QEAGAIN |

The threads are those of the application and the one that brings messages (`Net`).  A lock is a variable where its holder
does something else: `qpoll` looks at every descriptor under `waiters_list_lock`, `qrecvfrom` confirms a message under
`rx_q_lock`.  Elsewhere a critical section is one step that needs the lock free.  The router is what the other modules
are about: here it finds records, counts tokens, and makes its callbacks in the order of the code, `RESUME_TX` for every
waiter of a record and `REMOVE_CLIENT` for every open port.  `get_sock` and the tests of a call that follow it are
one step.  `Polite` says that nobody is in a call on a socket when its port is closed.  This is somewhat more than what the
router assumes at `ipc_router_core_close` (`ipc_router_core.c:2130`, "no client threads will be running in the router core"): a
thread that waits in `qpoll` or for a message is in a call, but not in the router.

## 3. What the runs show

| Run | Instance | Question and answer |
|---|---|---|
| `client_table` | 1 application thread and 2 transport threads, 2 transports, an endpoint here and one there, 2 records, quota 1 | Counts are exact (`RefCountExact`), nobody has a pointer to freed memory (`NoUseAfterFree`), each record is cleaned up by exactly one thread (`CleanedUpOnce`), no sender joins the queue of a dead record (`NoWaiterStranded`), every record is a counted record (`ImplementsCountedRecords`): yes |
| `client_table_reclaim` | 2 application threads, an endpoint each, 3 records | Every record out of the table is freed in the end (`Reclaimed`), also when endpoints wait for each other and their cleanups nest: yes |
| `client_table_self_deadlock` | 1 remote endpoint behind 2 transports of different priority | **Violation** of `NoSelfDeadlock`, see below |
| `flow` | a sender here and one across a link that falls once, quota 2 | Whoever was told BUSY has its event, or is queued with a wake-up under way (`NoLostWakeup`); the unread messages of a router are at most a quota for each life of its link and one for each sender but one (`BacklogBounded`); who was told BUSY is woken when the reader reads on (`BusyIsWoken`): yes, while messages with a normal token may fail, unless the router of the sender is left with a closed endpoint (`Stale`); and that comes of one overlap only, of the close with the answer to a HELLO (`StaleOnlyByHello`) |
| `flow_send_fails` | 2 remote senders, quota 2, the last message of a round may fail | **Violation** of `BusyIsWoken`, see below |
| `naming` | 3 routers in a row, 1 server, 3 operations, 1 stop or restart | When all is quiet nobody knows a server or an endpoint that is gone (`NoGhost`), and news never comes back to its source (`OwnServersAreLocal`): yes, without overlaps |
| `naming_overlaps` | 2 routers with a server each, 2 operations, 1 stop or restart, all overlaps | It does become quiet (`Settles`), and then every registered server is known to everybody (`NoServerMissed`): yes, whatever overlaps |
| `naming_snapshot` | 2 routers, 2 operations, overlap `snapshot` | **Violation** of `NoGhost`, see below |
| `qcci` | 2 transactions: a timed and an asynchronous call; every fault | No answer is written into a buffer the application has back (`NoLateWrite`), every outcome is reported once (`ReportedOnce`), who waits has somebody to wake it (`WaiterHasWaker`), the client's count is exact (`ClientRefsExact`), a loss during the opening is noticed (`LossIsNoticed`): yes, unless its event falls between the opening of the port and the listing of the transport, where the program crashes |
| `qcci_release` | 1 transaction: synchronous and asynchronous calls, deletion, error callback, both releases | References are exact (`RefsExact`), those on the client also through CLOSED (`ClientRefsExact`); no answer is written into a buffer after its call was cancelled (`NoLateWrite`); `ReportedOnce` again; the loss reaches the error callback whenever it is registered (`LossIsReported`); a call ends with the loss or the release (`SyncCallsEnd`); the client is freed and release returns (`ReleaseCompletes`): yes |
| `qcci_use_after_free` | 2 synchronous calls, a release | **Violation** of `NoUseAfterFree` (of `QmiClient`), see below |
| `sockets` | 5 applications of 2 threads and the router's thread, 2 sockets, 2 remote endpoints, quota 2 | References are exact and no callback names a freed socket (`SockRefsExact`); who waits to read or poll (`ReaderHasWaker`) or to write (`WriterHasWaker`) has somebody to wake it; the confirmation a full sender needs is never lost (`ConfirmKept`); a socket told QEAGAIN gets the empty packet that names the destination (`EagainIsReported`); nobody waits in a circle of locks (`NoLockCycle`): yes, for these applications |

TLC checks deadlock where the system cannot stop.  It may in `Naming`, `QmiClient` and `Sockets`, when their operations, their
memory or their sockets are used up (circles of locks are what `NoLockCycle` is for), and in `client_table`, where the self-deadlock of finding 1 stops a thread.

### The bounds

* In `client_table_reclaim`, with three records, a removed record that is still held coexists with its successor at the same address, next to a
  record that waits for it.  Records are interchangeable: nothing compares them but for
  equality, so symmetry is sound (it is not used where liveness is checked).
* A quota of 1 in `ClientTable` makes the second message find the bucket full.  In `FlowControl`, a quota of 2 lets a
  normal and a last token of one round be out together, which is how more
  than a quota comes to be unread; the bound of `BacklogBounded` is reached.
* One fall of a link is enough for the messages of two lives of a channel to meet, and for a HELLO to overlap the close;
  `MaxFlaps` bounds nothing else.
* Three operations are register, withdraw and register again; one stop or restart falls anywhere between them, also into
  the greeting after a transport opened.  `MaxOps` and `MaxStops` are the only bounds of `Naming`: its channels and
  agendas are finite because operations are.
* Three routers in a row are the least with news that is passed on; the middle one has two networks.
* Two transactions are one that is answered, or timed out, while another is queued, cancelled or cleaned up: lists and
  queue hold two, and the receiver, a flush and a caller work on different ones at the same time.  Liveness is checked
  with one.  `MaxId` is the number of transactions: ids differ (an id in use twice is listed as a hazard).

* The five applications of `Sockets` are: a socket polled and read by two threads while it is connected and both peers
  send; one that is shut down, closed or made a control socket; a blocking sender to one peer beside a trying sender to
  another; two sockets here that send to each other, trying; and a blocking sender to a socket that polls or watches.
  Each has the calls that meet in the code and leaves out those that do not, or that the next section shows to fail.
  A quota of 2 has messages with and without the confirm flag.  Nothing limits the empty packets of a socket that tries
  to send and never reads, in the code either: with `MaxEmpty` of them unread it does not send.

### Fairness

* `ClientTable`: a thread inside the router keeps running (`WF` of `Run`).  QuRT schedules by priority and no section
  under a lock waits for anything but the lock.  Nobody has to call the router.
* `FlowControl`: the same for senders inside a call and for one that has its signal; a worker handles the signals and
  messages it has (the loop of `ipc_router_xal_smdl_qurt.c`), and finishes its answer to a HELLO (`Greeter`); the reader reads
  and confirms; who has begun to close is inside the router and goes on (`Closer`).  Time-outs, new sends, the beginning
  of a close and the return of a link need not happen: `BusyIsWoken` holds without the help of the time-out.
* `Naming`: threads go on with their agendas, workers with their signals; started transports open when both ends are
  started.  `Settles` asks only of behaviours in which the transports are started for good in the end.
* `QmiClient`: threads inside a call go on, and a time-out expires; the router delivers REMOVE_SERVER and CLOSED, and
  its receiver finishes with a message it has.  No answer has to come, RESUME_TX need not be raised, and nobody has to
  call or release anything.

* `Sockets` has safety properties only and assumes no fairness: "has a waker" says that the step which wakes is under way.

### Where the code and its comments part

Each of the numbered points is shown by a run.

1. `client_table_self_deadlock`.  `remove_proc_record` cleans up clients while `unregister_proc` holds
   `client_table_semaphore`, and the cleanup wakes waiters through `find_client`.  It takes an endpoint that was first
   heard over one transport and then moved to a better one, has a waiting sender, and whose first transport falls.
   With one transport to each processor `xport_down` has always unregistered the clients before.
2. `flow_send_fails`.  The token for the last message of a round is not given back when the message is not sent.
   The record is full, nothing is under way, and every later sender waits until the link falls or the endpoint closes.
   With `Faults = {"node"}` the same property is violated by a sender whose node cannot be allocated: it is told BUSY
   without being in the queue.  It is the only one who waits in vain, and a time-out gets it out.
3. `naming_snapshot`.  Registrations are serialized with the answer to a HELLO by `protocol_semaphore`, removals are
   not.  The list is taken, the server is removed and withdrawn, and then the list is sent: REMOVE_SERVER arrives before
   NEW_SERVER and the other router knows the server until the link falls.
4. `qcci_use_after_free`.  A call publishes its transaction in `txn_list` with the list's reference and takes its own
   afterwards.  A release, or the loss of the server, in between frees the transaction.  The flush of the transmit
   queue logs a transaction it gave up, with the same effect.

No run shows the following, which comes out when properties, constants or applications are changed:

* *A close that overlaps a HELLO.*  `ipc_router_core_close` broadcasts REMOVE_CLIENT (`ipc_router_core.c:2148`), which skips
  transports that are not up, and unregisters the endpoint afterwards (line 2150); `protocol_semaphore` keeps registrations out
  of the answer to a HELLO (line 680), but no close.  Without `\/ Stale(...)`, `NoLostWakeup` is violated in the instance of
  `flow`, with one fall and no fault: the link is lost, the close is told and skips it, the HELLO is answered with an announcement
  of the endpoint, the endpoint is unregistered.  The other router has a new record of it.  Two messages
  use up its quota and are dropped here, the confirmation with them, and the third sender is told BUSY with nothing under way.
  It waits for its time-out, for ever without one, until the link falls again.  `StaleOnlyByHello` says that this is the only way there.
* *A loss while the port is opened.*  `qmi_cci_xport_event_server_error` reads `LIST_HEAD(clnt->xport)->addr_len`
  (`qmi_cci_common.c:1128`).  The events of a port reach the client from `ops->open` on (line 1555), and its transport is put in
  that list at line 1565: an event in between follows a null pointer.  In the model `LoseServer` sets `crashed` then.
  The model has the event of the client's own server only; in the code that of any server of the same service does it, as the
  length comes first.  `~crashed` is violated in the instance of `qcci` by `OpenPort`, `ServerGone`, `LoseServer`; `LossIsNoticed`
  says that the opening crashes in this window only, and that every loss outside it is noticed.
* *The time-out of a call.*  `QMI_CCI_OS_SIGNAL_INIT` (`qmi_cci_target_ext.h:71`) creates the timer only if its mask is
  *not* a power of two, and the default is 2, so that `timeout_msecs` (`qmi_client.h:451`) has no effect; the macro for
  external signals has the test the other way round.  With `TimerSig = 2` a timed call to a server that never answers
  never returns.  `qcci` has a mask with which the timer is created, so that time-outs do happen there.
* *Polling for "out".*  `qsocket.h:284` tells a connected socket to wait for QPOLLOUT after QEAGAIN.  `qpoll` never
  reports it (TODO at `qsocket_ipcr.c:1100`), and as `unblock_event` counts the poller, no empty packet is queued either:
  `EagainIsReported` is violated by `qconnect`, `qsendto` until QEAGAIN, and `qpoll` for QPOLLOUT.
* *Blocking and trying senders to one destination* on one socket: RESUME_TX is counted as delivered to the thread that
  waits, also when its time-out has just expired, and the one that was told QEAGAIN hears nothing (`EagainIsReported`).
* *A receive side that is shut down* makes `sock_event_cb` ignore RESUME_TX: a blocking send waits for its time-out.
  `WriterHasWaker` is stated for an open receive side.
* *Circles of locks* (`NoLockCycle`): a socket that sends to itself (the confirmation runs under `rx_q_lock`, and
  RESUME_TX to the same socket queues an empty packet under it); a thread that reads what another socket here sent,
  while a third polls the socket read from (`rx_q_lock` and `waiters_list_lock` in both orders); two sockets that
  read from each other (both `rx_q_lock`).
* *An impolite close*: with `Polite = FALSE` the last reference may be the one of `qpoll`, which holds
  `waiters_list_lock`; `put_sock` then calls `unblock_event`, which takes it (`NoLockCycle`).

In the situation of finding 1 the processor's record keeps the first transport, so that its fall also removes endpoints
which are reached over the other; no document says otherwise.

`NoGhost` is violated with each of the other overlaps too, by behaviours that need a fall or a stop.  `write`: a
thread has read `up` when the transport falls; its NEW_SERVER is written after the flush, is the first message on the
channel when it opens again, and the removal that follows before the new HELLO is not sent because the transport is not
up.  `stop`: NEW_SERVER is sent after BYE and is taken by a router that has just removed all that came from there.
What survives every overlap is `NoServerMissed` and `Settles`: the protocol may leave a name too many, never one too few.

## 4. What is proved

All theorems hold for any sets of threads, routers, records and so on that satisfy the assumption in the module
(`ConstantsAssumption`, `FlowAssumption`, `NamingAssumption`, `QmiAssumption`, `SocketAssumption`).  TLC evaluates these in every run.

**Client table.**  `TypeCorrect` includes that `txCount` never exceeds the quota.  `Invariant` is the inductive
invariant `IInv` of `ClientTable`: types; the count of every live record is the number of `unlock` frames that hold it,
less one when it is unlinked; whatever a frame or the table refers to is live; a frame that uses a record stands on an
`unlock` frame of it; a record has at most one thread cleaning it, has one exactly when it is out of the table with
the count -1, and queues nobody after that.  None of the four properties is inductive alone: `CleanedUpOnce`
needs the count to know that the last reference is dropped, the count needs the records in the frames to be
live and the ones a thread uses to be held.  The proof goes record by record: a step changes the frames that count for
one record only, and `SameRecord` carries all others over.  `RefCountsExact`, `NoDanglingRecord`, `CleanupOnce` and
`WaitersAreTaken` follow.

`RecordsAreCounted` is the refinement: every step of the code makes, holds, gives back, takes out or frees one
record, or does none of these.  `IInv` enters in three places: the references in the stacks are as many as the count says
(`HoldersAreCounted`), who unlocks a record holds it, and who frees one finds it unlinked and held by nobody.

**Flow control.**  `TypeCorrect`, `Invariant`, and `WakeUpsAreNotLost`: `NoLostWakeup` for any number of routers, senders,
links and falls and any quota, assuming `Faults \subseteq {"normal"}`.  That assumption is exact: with either other
fault the property is false (finding 2).  The invariant says who has the duty to wake a full record at each moment
(the sender with the last token, the link, the reader's queue, the reader, the way back, the worker that will
handle the fall, the thread that still has to tell the close), or that the router is `Stale`, and that a
queue with somebody in it belongs to a full record.

`LeftByHelloOnly` is `StaleOnlyByHello`, whatever fails: a step after which a linked router is left with a closed endpoint is
the announcement that answers its HELLO.  The cases are the ways in which it could become so: the last router on the list
is told and has the removal in its channel; the removal arrives, and is the last message that matters there; an earlier
announcement is taken out of the channel and is in the table then, with the removal still behind it; the link falls and
comes back with an empty table.  So the exception in `NoLostWakeup` and `BusyIsWoken` is no wider than the overlap described in section 3.

`BacklogIsBounded` is `BacklogBounded` for any finite sets of senders and records, whatever fails: the unread messages of a
router with k senders are at most `(flaps + 1) * RxQuota + k - 1`.  That this is more than the quota is a property of the
code: a token is counted before its message is sent, so that a thread may use one of an earlier round after the bucket was
emptied.  The proof puts the messages of a router and its confirmations in one row of places (link, inbox, reader, link back),
in which a step moves them on, drops them, or adds one at the end (`Moves`).  `AnnouncedOnce` says that a life of a link has
one announcement, at most: none is under way while the HELLO is not yet answered; so a record is new once in that life.  *Credit* is what can be sent without another
confirmation: tokens not taken, of the record in the table, of removed records that are still locked, and of the record to
come after a fall, and tokens taken and not used.  The invariant `Backlog` says of every router with senders that

* `FewRounds`: requests to confirm, confirmations, last tokens in hand and records with tokens left are together at most
  `flaps + 1`: each is the end of a round, or will be, and only a fall of the link begins one too many;
* `FewBehind`: for every request or confirmation under way, the messages behind it, the credit, and a quota for each
  confirmation ahead of it are at most `RxQuota * flaps + k - 1`;
* `FewMessages`: messages and credit together are within the bound.

The first confirmation has all messages behind it when it arrives, so `FewBehind` leaves room for the quota it opens; the last
message of a round has nothing behind it when it is sent, and its sender is not among those with a token in hand, which
is the `k - 1`.

**Naming.**  `TypesKept` includes that the holder of `protocol_semaphore` has its release as the last thing to do,
which is inductive with the fact that nobody else of that router has one.  `OwnServersStayLocal`: in any network without a cycle,
no router learns of a server of its own from another.  The inductive part is that everything under way on a
transport, and everything a thread is about to say over it, is of servers on the near side of it; `side` is a parameter of the
theorem and `NoCycle(side)` is its hypothesis, because with a cycle the property is false.

`NoServerIsMissed` is `NoServerMissed` for any routers, servers, operations, stops, restarts and overlaps, in a network that is a
tree: `Tree(side)` (without a transport and its other direction, nothing leads from one side to the other), `Connected`, and
`OwnNetworks` (two transports of a router have different `NetOf`, else a broadcast does not pass on what came over one
of them to the other).  TLC evaluates the three for the instances.  Without `Connected` a server could not get everywhere;
with a cycle a router may hear of a server over a second way and ignore it (hazard at `ipc_router_core.c:454`).  The
property says nothing of the time before all is quiet, so the invariant has to say what every agenda and every
channel still holds for the server.  It has five parts, each preserved with the help of those before it:

* `Ordered`: on an agenda, a channel is closed or flushed last, and a fall is followed by nothing else;
* `Sided`: a worker does only what concerns servers its transport leads to, with itself as the source; an application thread
  what concerns the servers of its router, or else the fall of one idle transport it is stopping; a removal is sent only on
  transports that lead away from the server, and BYE only while the transport is being stopped;
* `Links`: a transport that is up is open or lost, falls before it is closed or flushed, and while it is open so
  is its other end;
* `Tables`: a server is *stable* at a router if the router knows it and no agenda there will remove it.  What the
  agendas still tell of a removal is never about a stable server, an endpoint is dropped after its server, and a
  server without its endpoint is about to go;
* `NoneMissed`: on a link that is up at this end, open at both and being stopped at neither, a server that is
  stable here and lives on this side is about to be told to the other end, or is announced in the channel with no removal
  after it, or the channel holds no removal of it and the other end has it stable or is registering it.

That one thread at a router deals with a server at a time (`AboutOne`) is what keeps `Tables`: the routers on one side of a
transport are told of by its worker only, or by the thread that stops it once that worker is idle.  When all is quiet,
`NoneMissed` says that a server known at one end of a link that leads away from its router is known at the other, and
`Connected` takes it from its router to all others, link by link (`QuietAll`).

`NoGhostRemains` is `NoGhost` for such a network and `Overlaps = {}`.  Again the hypothesis is exact: with any one of the three
overlaps a ghost remains (finding on `snapshot`, and the two behaviours at the end of section 3).  The theorem says that
these three are all there is: lost channels, restarts, stops, and threads that interleave everywhere else cannot leave a
name behind.  The invariant has the first four parts of the last one, `Away`, and four more (`NamingSafety`):

* `InTurn`: nobody is left with a write for later (`NoWrites`); who lists the servers for a HELLO, or has yet to release,
  holds the semaphore (`Sem`), and what is listed is in the table while nothing is being removed there (`Apart`); a fall and the
  withdrawal of an endpoint come first on an agenda, the release last (`InPlace`).  So what is announced stays;
* `Wires`: the two ends of a link agree up to what is under way.  HELLO is in the channel, or is being answered, or
  has been, unless the link is about to end; announcements come after it; a channel with an announcement in it is open at
  both ends; BYE is the last message, and the end that falls because of it has no announcement on its way;
* `OverUps`: what a router knows, or learns, of a server on the far side it has over a transport that is up: the fall of
  that transport will find it;
* `AllAccounted`: take a server, a link that leads away from its router, and one of the two tables.  If the far end knows the
  name and no removal of it is in the channel, or the channel holds an announcement with no removal after it, then the
  near end knows the name to stay or has on an agenda what will withdraw it (`Owed`), and is up; or the link is about
  to fall.  It is this part that says "a removal is still to come for every name that is a ghost".

`Owed` has to be exact about the agendas: a step that only drops a name owes nothing, a step that tells does, and an
endpoint is told of only while it is still in the table (`Kept`).  When all is quiet nothing is owed, falls or is
under way, so a name known at the far end of a link is known at the near end, and the way back to its router ends there (`QuietGhost`).

**QMI client.**  `TypeCorrect`; `ReferencesExact`: until freed memory is written, the count of every transaction is the
number of the lists it is in, the threads that took it out of one and the calls that own it; `ClientReferencesExact`:
the client's count is one for the transport, one while it is opened and one for every call inside; `LossNoticed`.
`RefsExact` is inductive with two others.  `Shape` says what each place in the code knows: which kind of call a thread is in
(`OpShape`), which transaction it is about (`CurShape`), what it carries (`CarryShape`: only threads between the removal
from a list and the `DEC` carry anything, and what they work on is among it).  `OwnTxns` says that two calls never have the same
transaction, and that a call which has not reached `LIST_ADD` does not have its own in `tx_q`.  A step changes
the number of references of one transaction by one and its count with it; the counting lemmas (one element more or less
in a set of callers or carriers) turn that into arithmetic, and every other transaction is carried over.
`ClientReferencesExact` needs in addition that the transport takes its reference once (`NotOpen`), `LossNoticed` that nobody is
inside a call before the client is connected, so that a crash before that is the event's, and that the event is of a server
that is gone (`Inside`).

`QmiClientSafety` has the rest of what the runs check: `OneReport` (`ReportedOnce`), `NoWriteTooLate` (`NoLateWrite`),
`WaitersWake` (`WaiterHasWaker`) and `LossTold` (`LossIsReported`).  The 60 actions are looked at once, in `Effects`:
a step changes the place of one thread only and has one of eleven effects on the transactions (one is born, taken out of
`txn_list`, reported, given up, ...).  Everything else is proved of these effects.  The invariants are

* `Settled`: a transaction is in `txn_list` or with one thread that took it out (`OneHolder`), what is still to be reported
  is what is listed, with such a thread, or with its caller (`Reported`), and its buffer is set as long as an answer may be
  decoded (`Buffers`).  None is inductive alone: a report is the first because the thread that makes it was the only one
  to have the transaction.
* `Identified`: ids differ, and what is under way to or from the server carries the id of a transaction that was queued.
* `Woken`: each stage of a synchronous call knows who will wake it.  Between `LIST_ADD` and the clearing of its signal
  this must be the list itself, so the proof has to show that nothing takes a transaction out of the list before it is
  sent, but for the loss of the server and the release; in these cases the call sees it at its next check.
* `Telling`: a client without an address has `Loss` on its way, `err_pending` set, or told the application.

`NoWriteTooLate` and `WaitersWake` have the hypothesis `FewCalls`: there are at most `MaxId` transactions in the whole life of the
client, so that no id is used twice.  It is there for a reason: the receiver finds a transaction by its id, and when an id is given out again
while an old request with it is unanswered, the old answer is decoded into the new buffer, or sets the signal of a call that
is about to clear it.  TLC finds both violated with `MaxId = 1` and two transactions.  It would be enough that no id is given out while a request with it
is outstanding; the theorems say nothing of a client with more than 65535 calls, even if each is over before
the next.  What is really lost takes 65535 calls during one outstanding request; it is listed as a hazard.
`OneReport` and `LossTold` hold without it.

**Sockets.**  `TypeCorrect` and `RefsExact`: `SockRefsExact` for any applications, threads, sockets, peers and quota, impolite
closes included.  `SockInv` is the inductive invariant: types; the *shape* of a stack, that is which frame may stand above
which (`OkAt`: a callback above what called it, a receiver's or a poller's own frames at the bottom); that `rx_q_lock` and
`waiters_list_lock` are held by whoever is in the part of a function that holds them; what an entry of `g_waiters_list` says
of the call its thread is in; that a port is open while its socket has a handle; and the counts.  The shape is what the rest
needs: a step changes one stack and replaces its last frame by a few (`Follows`), and the lemmas `Does...` say
which, one for each kind of frame.  `NoReaderForgotten` (`ReaderHasWaker`), `ConfirmationKept` (`ConfirmKept`) and
`NoWriterForgotten` (`WriterHasWaker`) add what is under way: who will set the signal of a reader whose queue is not
empty (`Readers`); who will send the confirmation a peer waits for (`Confirms`), which holds because a message that is
discarded is confirmed first; and that a queued sender's record is full and will be drained, or its RESUME_TX is on a stack
(`Writers`).  `EagainKept` (`EagainIsReported`) adds who will be told (`Tells`).  `NoThreadsStuck` (`NoLockCycle`) knows, for a
thread that has `rx_q_lock` of a socket, that all it may still call belongs to sockets of a lower rank (`Readings`), and for one that
has `waiters_list_lock` that it is polling (`Pollers`): in any set of threads, one with the lowest lock waits for nobody in it.

The last three have hypotheses, about the application and about nothing else, and each is one of the
disagreements in section 3 turned round:

* `Polite`: a socket is closed when nobody is in a call on it;
* `NoRevival`: a socket that sends and whose receive side is shut down is not made a control socket, which would open that side
  again after a RESUME_TX was ignored;
* `NoMixing` (`EagainKept`): nobody else waits for "out" on a socket, or in a blocking send to the same destination, while one was told
  QEAGAIN;
* `Layered(rank)` and `PollersApart` (`NoThreadsStuck`): sends between the sockets of one processor make no circle,
  and nobody polls a socket which another reads and a third here sends to.

TLC finds a violation when any of these is dropped, and the five applications of the runs satisfy all of them, with the
rank 0 for `s1` and 1 for `s2`.

**Only model-checked.**  Liveness (`Reclaimed`, `BusyIsWoken`, `Settles`, `SyncCallsEnd`, `ReleaseCompletes`), since
fairness is out of the prover's reach.  Every other property of a passing run is stated by a theorem.

## 5. What is left out

* In `ClientTable`: the hash table inside a processor's table; what the event callbacks of the applications do.
* In `FlowControl`: messages through a third router, multicast, the time the transport takes to accept a message; a HELLO that
  cannot be sent; what the closing thread's own lock on the record delays (it is unlocked before the endpoint is unregistered);
  endpoints of mode SINGLE, whose close is told on one transport only.
* In `Naming`: priorities and policies, lack of memory, several servers on one endpoint, the worker of a transport that
  still runs while the transport is stopped (planned with `SmdlXal`).  The flags of all transports of a broadcast
  are read at once (with `write`, the messages are written later); the endpoint of a server is registered with it.
* In `QmiClient`: indications and the encoder, which change none of its state; what the application's callbacks do
  (a release from a callback is listed as a hazard); the order of `tx_q`, which no property depends on; notifiers;
  the other end (QCSI), which is any server that answers a request at most once, or never.
* In `Sockets`: `qbind`, multicast and names; QMSG_PEEK and buffers that are too short; the time-out of a read (the loop of
  `qrecvfrom` does not test for it and looks at the queue again for ever); lack of memory in the callbacks (a message is
  lost without its confirmation); the service preference and the server events of a control socket; a port that cannot
  be opened; two closes of one socket at once, and calls that use `handle` after the port is gone.
* Shared-memory links are binaries: their channels are modelled from how the adapter uses them (FIFO; what is in
  flight is lost when an end closes), marked external in the map.
* The rest of the image: `PROJECT.json` lists every other component with the reason.

## 6. Plan

Done: `ClientTable`, `CountedRecords`, `FlowControl`, `Naming`, `QmiClient`, `Sockets` and their theorems.  Next, in order of importance:

1. `XportTable`: the reference count of transports against `stop_xport`, broadcasts and the callback that
   frees one; a refinement of `CountedRecords` again.
2. `SmdlXal`: worker of a transport, coalesced signals, hand-off of packets, CLOSE_COMPLETE.  Its promise to `Naming` and
   `FlowControl` is a FIFO channel that may lose its contents when it falls: worth stating as an abstract specification.
3. QCSI, the other end of `QmiClient`, and the composition of the two; ports of user processes
   (`ipc_router_qdi_driver.c`).
4. Policies, packets and headers: pure operators against a reference definition; port numbers at the wrap of 16 bits.
5. DSM pools, RCEVT, then NPA.

Abstract specifications still worth stating: the credit channel that `FlowControl` implements (a sender that is told to wait
is resumed), the replicated set of names of which `Naming` keeps a copy per router, and the remote call with
exactly one outcome that `QmiClient` implements.

Theorems still worth proving: the refinement of the credit channel, once it is written down.
