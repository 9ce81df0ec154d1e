--------------------------- MODULE ClientTableProofs ---------------------------
(***************************************************************************)
(* Theorems about ClientTable, for any number of threads, endpoints,       *)
(* processors, transports and records: its types, and its reference        *)
(* counts.  The invariant IInv is inductive, and RefCountExact,            *)
(* NoUseAfterFree, CleanedUpOnce and NoWaiterStranded follow from it.      *)
(* Last: ClientTable implements CountedRecords.                            *)
(*                                                                         *)
(* The argument for IInv is per record: a step changes the places of at    *)
(* most one "unlock", "cleanup" or "closed" frame of one record, and       *)
(* RecordInv of every other record is carried over by SameRecord.          *)
(***************************************************************************)
EXTENDS ClientTable, FiniteSetTheorems, SequenceTheorems, TLAPS

(***************************************************************************)
(* Stacks                                                                  *)
(***************************************************************************)

\* Every frame constructor yields a frame.
LEMMA FrameTypes ==
  /\ \A r \in Records : /\ Unlock(r) \in Frame /\ Resume(r) \in Frame
                        /\ Cleanup(r) \in Frame /\ Closed(r) \in Frame
  /\ \A r \in Records, a \in Addrs : Token(a, r) \in Frame
  /\ \A q \in Seq(Addrs) : Notify(q) \in Frame
  /\ \A a \in Addrs : Unregister(a) \in Frame /\ Event(a) \in Frame
  /\ \A s \in SUBSET Addrs : Each(s) \in Frame
  /\ \A x \in Xports, s \in SUBSET Addrs : Down(x, s) \in Frame
  /\ \A s \in SUBSET Procs : DelProcs(s) \in Frame
  /\ \A p \in Procs : DelProc(p) \in Frame
  BY DEF Frame, Unlock, Resume, Cleanup, Closed, Token, Notify, Unregister,
         Event, Each, Down, DelProcs, DelProc

\* A thread that is at a frame has one on its stack, of the type its op says.
LEMMA TopType ==
  ASSUME stack \in [Threads -> Seq(Frame)], NEW t \in Threads, stack[t] # <<>>
  PROVE  /\ Len(stack[t]) \in Nat \ {0}
         /\ Top(t) \in Frame
         /\ Top(t).op \in {"unlock", "token", "resume", "cleanup", "closed"}
              => Top(t).r \in Records
         /\ Top(t).op \in {"token", "unregister", "event"} => Top(t).a \in Addrs
         /\ Top(t).op = "notify" => Top(t).q \in Seq(Addrs)
         /\ Top(t).op \in {"each", "down"} => Top(t).s \in SUBSET Addrs
         /\ Top(t).op = "delprocs" => Top(t).s \in SUBSET Procs
         /\ Top(t).op = "down" => Top(t).x \in Xports
         /\ Top(t).op = "delproc" => Top(t).p \in Procs
  <1>1. Len(stack[t]) \in Nat \ {0} /\ Top(t) \in Frame
    BY DEF Top
  <1>2. QED
    BY <1>1 DEF Frame

\* A thread that goes on with other frames has a stack of frames still.
LEMMA GotoType ==
  ASSUME stack \in [Threads -> Seq(Frame)], NEW t \in Threads,
         NEW frames \in Seq(Frame), Goto(t, frames)
  PROVE  stack' \in [Threads -> Seq(Frame)]
  <1>1. Below(t) \in Seq(Frame)
    BY DEF Below
  <1>2. Below(t) \o frames \in Seq(Frame)
    BY <1>1
  <1>3. QED
    BY <1>2 DEF Goto

(***************************************************************************)
(* Types                                                                   *)
(***************************************************************************)

\* ipc_router_find_client keeps the types.
LEMMA FindType ==
  ASSUME TypeOK, NEW t \in Threads, NEW a \in Addrs,
         NEW lost \in Seq(Frame), NEW found,
         table[a] # Null => found \in Seq(Frame),
         Find(t, a, lost, found)
  PROVE  TypeOK'
  <1>1. CASE table[a] = Null
    <2>1. stack' \in [Threads -> Seq(Frame)]
      BY <1>1, GotoType DEF TypeOK, Find
    <2>2. QED
      BY <1>1, <2>1 DEF TypeOK, Find, client, flow, procs
  <1>2. CASE table[a] # Null
    <2>1. table[a] \in Records
      BY <1>2 DEF TypeOK
    <2>2. Unlock(table[a]) \in Frame
      BY <2>1, FrameTypes
    <2>3. lost \o <<Unlock(table[a])>> \o found \in Seq(Frame)
      BY <1>2, <2>2
    <2>4. stack' \in [Threads -> Seq(Frame)]
      BY <1>2, <2>3, GotoType DEF TypeOK, Find
    <2>5. QED
      BY <1>2, <2>1, <2>4 DEF TypeOK, Find, client, flow, procs
  <1>3. QED
    BY <1>1, <1>2

\* Registering an endpoint, on a transport or locally, keeps the types.
LEMMA RegisterType ==
  ASSUME TypeOK, NEW t \in Threads, NEW a \in Addrs,
         NEW x \in Xports \cup {Null}, NEW r \in Records,
         Register(a, x, r), Goto(t, <<Unlock(r)>>), UNCHANGED lock
  PROVE  TypeOK'
  <1>1. stack' \in [Threads -> Seq(Frame)]
    <2>1. <<Unlock(r)>> \in Seq(Frame)
      BY FrameTypes
    <2>2. QED
      BY <2>1, GotoType DEF TypeOK
  <1>2. CASE RegisterOld(a, x, r)
    BY <1>1, <1>2 DEF TypeOK, RegisterOld, flow, procs
  <1>3. CASE RegisterNew(a, x, r)
    <2>1. /\ table' \in [Addrs -> Records \cup {Null}]
          /\ live' \subseteq Records
          /\ addrOf' \in [Records -> Addrs \cup {Null}]
          /\ xportOf' \in [Records -> Xports \cup {Null}]
          /\ refCount' \in [Records -> Int]
      BY <1>3 DEF TypeOK, RegisterNew
    <2>2. /\ txCount' \in [Records -> 0..RxQuota]
          /\ txQueue' \in [Records -> Seq(Addrs)]
      BY <1>3, ConstantsAssumption DEF TypeOK, RegisterNew
    <2>3. known' \subseteq Procs /\ route' \in [Procs -> Xports \cup {Null}]
      BY <1>3, ConstantsAssumption DEF TypeOK, RegisterNew, AddProc
    <2>4. QED
      BY <1>1, <2>1, <2>2, <2>3 DEF TypeOK
  <1>4. QED
    BY <1>2, <1>3 DEF Register

\* A port for which there is no memory leaves the state well formed.
LEMMA NoMemType ==
  ASSUME TypeOK, NEW a \in Addrs, NEW x \in Xports \cup {Null},
         RegisterNoMem(a, x)
  PROVE  TypeOK'
  BY ConstantsAssumption DEF TypeOK, RegisterNoMem, AddProc, client, flow

\* Waking up the waiters of a record keeps the types.
LEMMA TakeWaitersType ==
  ASSUME TypeOK, NEW t \in Threads, NEW r \in Records, NEW rest \in Seq(Frame),
         TakeWaiters(t, r, rest)
  PROVE  TypeOK'
  <1>1. rest \o <<Notify(txQueue[r])>> \in Seq(Frame)
    <2>1. Notify(txQueue[r]) \in Frame
      BY FrameTypes DEF TypeOK
    <2>2. QED
      BY <2>1
  <1>2. stack' \in [Threads -> Seq(Frame)]
    BY <1>1, GotoType DEF TypeOK, TakeWaiters
  <1>3. /\ txCount' \in [Records -> 0..RxQuota]
        /\ txQueue' \in [Records -> Seq(Addrs)]
    BY ConstantsAssumption DEF TypeOK, TakeWaiters
  <1>4. QED
    BY <1>2, <1>3 DEF TypeOK, TakeWaiters, client, procs

\* CleanupIf adds a cleanup frame or none.
LEMMA CleanupIfType ==
  \A r \in Records : \A c \in BOOLEAN : CleanupIf(c, r) \in Seq(Frame)
  BY FrameTypes DEF CleanupIf

\* Taking a record out of the table keeps the types.
LEMMA RemoveType ==
  ASSUME TypeOK, NEW r \in Records, Remove(r),
         stack' \in [Threads -> Seq(Frame)],
         UNCHANGED <<live, client, flow, procs, lock>>
  PROVE  TypeOK'
  <1>1. table' \in [Addrs -> Records \cup {Null}]
    BY DEF TypeOK, Remove
  <1>2. refCount' \in [Records -> Int]
    BY DEF TypeOK, Remove
  <1>3. QED
    BY <1>1, <1>2 DEF TypeOK, client, flow, procs

\* A step that only moves the thread keeps the types.
LEMMA MoveType ==
  ASSUME TypeOK, NEW t \in Threads, NEW frames \in Seq(Frame), Goto(t, frames),
         UNCHANGED <<table, live, client, refCount, flow, procs, lock>>
  PROVE  TypeOK'
  <1>1. stack' \in [Threads -> Seq(Frame)]
    BY GotoType DEF TypeOK
  <1>2. QED
    BY <1>1 DEF TypeOK, client, flow, procs

\* Every call of the router leaves the state well formed.
LEMMA CallType ==
  ASSUME TypeOK, NEW t \in Threads, Call(t)
  PROVE  TypeOK'
  <1>0. <<>> \in Seq(Frame)
    OBVIOUS
  <1>1. ASSUME NEW a \in Addrs, Open(t, a) PROVE TypeOK'
    BY <1>1, RegisterType, NoMemType DEF Open
  <1>2. ASSUME NEW a \in Addrs, Confirm(t, a) PROVE TypeOK'
    <2>1. table[a] \in Records
      BY <1>2 DEF TypeOK, Confirm
    <2>2. <<Resume(table[a])>> \in Seq(Frame)
      BY <2>1, FrameTypes
    <2>3. QED
      BY <1>0, <1>2, <2>2, FindType DEF Confirm
  <1>3. ASSUME NEW a \in Addrs, Close(t, a) PROVE TypeOK'
    <2>1. <<Unregister(a)>> \in Seq(Frame)
      BY FrameTypes
    <2>2. QED
      BY <1>0, <1>3, <2>1, FindType DEF Close
  <1>4. ASSUME NEW src \in Addrs, NEW dst \in Addrs, Send(t, src, dst)
        PROVE  TypeOK'
    <2>1. table[dst] # Null => <<Token(src, table[dst])>> \in Seq(Frame)
      BY FrameTypes DEF TypeOK
    <2>2. QED
      BY <1>0, <1>4, <2>1, FindType DEF Send
  <1>5. ASSUME NEW x \in Xports, XportDown(t, x) PROVE TypeOK'
    <2> DEFINE s == {a \in Addrs : table[a] # Null /\ xportOf[table[a]] = x}
    <2>1. <<Down(x, s)>> \in Seq(Frame)
      BY FrameTypes
    <2>2. QED
      BY <1>5, <2>1, MoveType DEF XportDown
  <1>6. ASSUME NEW x \in Xports, NEW a \in Addrs, Learn(t, x, a) PROVE TypeOK'
    BY <1>6, RegisterType, NoMemType DEF Learn
  <1>7. QED
    BY <1>1, <1>2, <1>3, <1>4, <1>5, <1>6 DEF Call

\* Every step of a call under way leaves the state well formed.
LEMMA RunType ==
  ASSUME TypeOK, NEW t \in Threads, Run(t)
  PROVE  TypeOK'
  <1>0. <<>> \in Seq(Frame)
    OBVIOUS
  <1>1. stack[t] # <<>>
    BY DEF Run, At, GetToken, ResumeTx, UnlockClient, StartCleanup,
           FinishCleanup, NotifyWaiter, UnregisterClient, ListLocal, NotifyEach,
           DownClient, ListProcs, LockProc, RemoveProcClient, RemoveProc, EndLoop
  <1> DEFINE f == Top(t)
  <1>2. /\ f \in Frame
        /\ f.op \in {"unlock", "token", "resume", "cleanup", "closed"}
             => f.r \in Records
        /\ f.op \in {"token", "unregister", "event"} => f.a \in Addrs
        /\ f.op = "notify" => f.q \in Seq(Addrs)
        /\ f.op \in {"each", "down"} => f.s \in SUBSET Addrs
        /\ f.op = "delprocs" => f.s \in SUBSET Procs
        /\ f.op = "down" => f.x \in Xports
        /\ f.op = "delproc" => f.p \in Procs
    BY <1>1, TopType DEF TypeOK
  <1>3. CASE GetToken(t)
    <2>1. stack' \in [Threads -> Seq(Frame)]
      BY <1>0, <1>3, GotoType DEF TypeOK, GetToken
    <2>2. f.r \in Records /\ f.a \in Addrs
      BY <1>2, <1>3 DEF GetToken, At
    <2>3. /\ txCount' \in [Records -> 0..RxQuota]
          /\ txQueue' \in [Records -> Seq(Addrs)]
      <3>1. /\ txCount \in [Records -> 0..RxQuota]
            /\ txQueue \in [Records -> Seq(Addrs)]
            /\ RxQuota \in Nat
        BY ConstantsAssumption DEF TypeOK
      <3>2. CASE /\ txCount[f.r] < RxQuota
                 /\ txCount' = [txCount EXCEPT ![f.r] = @ + 1]
                 /\ UNCHANGED txQueue
        BY <2>2, <3>1, <3>2
      <3>3. CASE /\ txQueue' = [txQueue EXCEPT ![f.r] = Append(@, f.a)]
                 /\ UNCHANGED txCount
        <4>1. Append(txQueue[f.r], f.a) \in Seq(Addrs)
          BY <2>2, <3>1
        <4>2. QED
          BY <2>2, <3>1, <3>3, <4>1
      <3>4. CASE UNCHANGED flow
        BY <3>1, <3>4 DEF flow
      <3>5. QED
        BY <1>3, <3>2, <3>3, <3>4 DEF GetToken
    <2>4. QED
      BY <1>3, <2>1, <2>3 DEF TypeOK, GetToken, client, procs
  <1>4. CASE ResumeTx(t)
    BY <1>0, <1>2, <1>4, TakeWaitersType DEF ResumeTx, At
  <1>5. CASE UnlockClient(t)
    <2>1. f.r \in Records
      BY <1>2, <1>5 DEF UnlockClient, At
    <2>2. CleanupIf(refCount[f.r] = 0, f.r) \in Seq(Frame)
      BY <2>1, CleanupIfType
    <2>3. stack' \in [Threads -> Seq(Frame)]
      BY <1>5, <2>2, GotoType DEF TypeOK, UnlockClient
    <2>4. QED
      BY <1>5, <2>1, <2>3 DEF TypeOK, UnlockClient, client, flow, procs
  <1>6. CASE StartCleanup(t)
    <2>1. f.r \in Records
      BY <1>2, <1>6 DEF StartCleanup, At
    <2>2. <<Closed(f.r)>> \in Seq(Frame)
      BY <2>1, FrameTypes
    <2>3. QED
      BY <1>6, <2>1, <2>2, TakeWaitersType DEF StartCleanup
  <1>7. CASE FinishCleanup(t)
    <2>1. stack' \in [Threads -> Seq(Frame)]
      BY <1>0, <1>7, GotoType DEF TypeOK, FinishCleanup
    <2>2. /\ live' \subseteq Records
          /\ addrOf' \in [Records -> Addrs \cup {Null}]
          /\ xportOf' \in [Records -> Xports \cup {Null}]
          /\ refCount' \in [Records -> Int]
      <3>1. live' \subseteq Records
        BY <1>7 DEF TypeOK, FinishCleanup
      <3>2. addrOf' \in [Records -> Addrs \cup {Null}]
        BY <1>7 DEF TypeOK, FinishCleanup
      <3>3. xportOf' \in [Records -> Xports \cup {Null}]
        BY <1>7 DEF TypeOK, FinishCleanup
      <3>4. refCount' \in [Records -> Int]
        <4>1. refCount' = [refCount EXCEPT ![f.r] = 0]
          BY <1>7 DEF FinishCleanup
        <4>2. f.r \in Records
          BY <1>2, <1>7 DEF FinishCleanup, At
        <4>3. QED
          BY <4>1, <4>2 DEF TypeOK
      <3>5. QED
        BY <3>1, <3>2, <3>3, <3>4
    <2>3. txCount' \in [Records -> 0..RxQuota]
      <3>1. 0 \in 0..RxQuota
        BY ConstantsAssumption
      <3>2. txCount' = [txCount EXCEPT ![f.r] = 0]
        BY <1>7 DEF FinishCleanup
      <3>3. QED
        BY <3>1, <3>2 DEF TypeOK
    <2>4. QED
      BY <1>7, <2>1, <2>2, <2>3 DEF TypeOK, FinishCleanup, procs
  <1>8. CASE NotifyWaiter(t)
    <2>1. f.q \in Seq(Addrs) /\ f.q # <<>>
      BY <1>2, <1>8 DEF NotifyWaiter, At
    <2>2. Head(f.q) \in Addrs /\ <<Notify(Tail(f.q))>> \in Seq(Frame)
      <3>1. Head(f.q) \in Addrs /\ Tail(f.q) \in Seq(Addrs)
        BY <2>1
      <3>2. Notify(Tail(f.q)) \in Frame
        BY <3>1, FrameTypes
      <3>3. QED
        BY <3>1, <3>2
    <2>3. QED
      BY <1>0, <1>8, <2>2, FindType DEF NotifyWaiter
  <1>9. CASE UnregisterClient(t)
    <2>1. f.a \in Addrs
      BY <1>2, <1>9 DEF UnregisterClient, At
    <2>2. Event(f.a) \in Frame
      BY <2>1, FrameTypes
    <2>3. CASE table[f.a] = Null
      <3>1. stack' \in [Threads -> Seq(Frame)]
        <4>1. <<Event(f.a)>> \in Seq(Frame)
          BY <2>2
        <4>2. Goto(t, <<Event(f.a)>>)
          BY <1>9, <2>3 DEF UnregisterClient
        <4>3. QED
          BY <4>1, <4>2, GotoType DEF TypeOK
      <3>2. QED
        BY <1>9, <2>3, <3>1 DEF TypeOK, UnregisterClient, client, flow, procs
    <2>4. CASE table[f.a] # Null
      <3>1. table[f.a] \in Records
        BY <2>1, <2>4 DEF TypeOK
      <3> DEFINE more == CleanupIf(refCount[table[f.a]] = 0, table[f.a])
      <3>2. more \in Seq(Frame)
        BY <3>1, CleanupIfType
      <3>3. <<Event(f.a)>> \o more \in Seq(Frame)
        <4> HIDE DEF more
        <4> QED
          BY <2>2, <3>2
      <3>4. Remove(table[f.a]) /\ Goto(t, <<Event(f.a)>> \o more)
        BY <1>9, <2>4 DEF UnregisterClient
      <3>5. UNCHANGED <<live, client, flow, procs, lock>>
        BY <1>9 DEF UnregisterClient
      <3>6. stack' \in [Threads -> Seq(Frame)]
        BY <3>3, <3>4, GotoType DEF TypeOK
      <3>7. QED
        BY <3>1, <3>4, <3>5, <3>6, RemoveType
    <2>5. QED
      BY <2>3, <2>4
  <1>10. CASE ListLocal(t)
    <2>1. <<Each({a \in Local \ {f.a} : table[a] # Null})>> \in Seq(Frame)
      BY FrameTypes DEF Local
    <2>2. QED
      BY <1>10, <2>1, MoveType DEF ListLocal
  <1>11. CASE NotifyEach(t)
    <2>1. f.s \in SUBSET Addrs
      BY <1>2, <1>11 DEF NotifyEach, At
    <2>2. \A a \in f.s : a \in Addrs /\ <<Each(f.s \ {a})>> \in Seq(Frame)
      BY <2>1, FrameTypes
    <2>3. QED
      BY <1>0, <1>11, <2>2, FindType DEF NotifyEach
  <1>12. CASE DownClient(t)
    <2>1. f.s \in SUBSET Addrs /\ f.x \in Xports
      BY <1>2, <1>12 DEF DownClient, At
    <2>2. ASSUME NEW a \in f.s
          PROVE  a \in Addrs /\ <<Down(f.x, f.s \ {a}), Unregister(a)>> \in Seq(Frame)
      <3>1. Down(f.x, f.s \ {a}) \in Frame /\ Unregister(a) \in Frame
        BY <2>1, FrameTypes
      <3>2. QED
        BY <2>1, <3>1
    <2>3. QED
      BY <1>0, <1>12, <2>2, FindType DEF DownClient
  <1>13. CASE ListProcs(t)
    <2>1. <<DelProcs({p \in known : route[p] = f.x})>> \in Seq(Frame)
      BY FrameTypes DEF TypeOK
    <2>2. QED
      BY <1>13, <2>1, MoveType DEF ListProcs
  <1>14. CASE LockProc(t)
    <2>1. f.s \in SUBSET Procs
      BY <1>2, <1>14 DEF LockProc, At
    <2>2. PICK p \in f.s : Goto(t, <<DelProcs(f.s \ {p}), DelProc(p)>>) /\ lock' = t
      BY <1>14 DEF LockProc
    <2>3. DelProcs(f.s \ {p}) \in Frame /\ DelProc(p) \in Frame
      BY <2>1, FrameTypes
    <2>4. <<DelProcs(f.s \ {p}), DelProc(p)>> \in Seq(Frame)
      BY <2>3
    <2>5. stack' \in [Threads -> Seq(Frame)]
      BY <2>2, <2>4, GotoType DEF TypeOK
    <2>6. QED
      BY <1>14, <2>2, <2>5 DEF TypeOK, LockProc, client, flow, procs
  <1>15. CASE RemoveProcClient(t)
    <2>1. PICK r \in ClientsOf(f.p) :
            Remove(r) /\ Goto(t, <<f>> \o CleanupIf(refCount[r] = 0, r))
      BY <1>15 DEF RemoveProcClient
    <2>2. r \in Records
      BY DEF TypeOK, ClientsOf
    <2> DEFINE more == CleanupIf(refCount[r] = 0, r)
    <2>3. more \in Seq(Frame)
      BY <2>2, CleanupIfType
    <2>4. <<f>> \o more \in Seq(Frame)
      <3> HIDE DEF more
      <3> QED
        BY <1>2, <2>3
    <2>5. stack' \in [Threads -> Seq(Frame)]
      BY <2>1, <2>4, GotoType DEF TypeOK
    <2>6. UNCHANGED <<live, client, flow, procs, lock>>
      BY <1>15 DEF RemoveProcClient
    <2>7. QED
      BY <2>1, <2>2, <2>5, <2>6, RemoveType
  <1>16. CASE RemoveProc(t)
    <2>1. stack' \in [Threads -> Seq(Frame)]
      BY <1>0, <1>16, GotoType DEF TypeOK, RemoveProc
    <2>2. QED
      BY <1>16, <2>1 DEF TypeOK, RemoveProc, client, flow
  <1>17. CASE EndLoop(t)
    BY <1>0, <1>17, MoveType DEF EndLoop
  <1>18. QED
    BY <1>3, <1>4, <1>5, <1>6, <1>7, <1>8, <1>9, <1>10, <1>11, <1>12, <1>13,
       <1>14, <1>15, <1>16, <1>17 DEF Run

\* The initial state is well formed.
LEMMA InitType == Init => TypeOK
  BY ConstantsAssumption DEF Init, TypeOK

\* The state of the client table is always well formed.
THEOREM TypeCorrect == Spec => []TypeOK
  <1>1. Init => TypeOK
    BY InitType
  <1>2. TypeOK /\ [Next]_vars => TypeOK'
    <2>1. ASSUME TypeOK, UNCHANGED vars PROVE TypeOK'
      BY <2>1 DEF TypeOK, vars, client, flow, procs
    <2>2. ASSUME TypeOK, Next PROVE TypeOK'
      BY <2>2, CallType, RunType DEF Next
    <2>3. QED
      BY <2>1, <2>2
  <1>3. QED
    BY <1>1, <1>2, PTL DEF Spec

-----------------------------------------------------------------------------
(***************************************************************************)
(* Places of frames before and after Goto                                  *)
(***************************************************************************)

\* The frames a thread keeps and the frames it enters.
LEMMA GotoFrames ==
  ASSUME stack \in [Threads -> Seq(Frame)], NEW t \in Threads,
         NEW frames \in Seq(Frame), Goto(t, frames)
  PROVE  /\ Len(Below(t)) \in Nat
         /\ stack[t] = <<>> => Len(Below(t)) = 0
         /\ stack[t] # <<>> => /\ Len(Below(t)) = Len(stack[t]) - 1
                               /\ Top(t) = stack[t][Len(Below(t)) + 1]
         /\ \A i \in 1..Len(Below(t)) : i \in DOMAIN stack[t]
         /\ \A i \in DOMAIN stack[t] : i \in 1..(Len(Below(t)) + 1)
         /\ \A u \in Threads : u # t => stack'[u] = stack[u]
         /\ DOMAIN stack'[t] = 1..(Len(Below(t)) + Len(frames))
         /\ \A i \in 1..Len(Below(t)) : stack'[t][i] = stack[t][i]
         /\ \A k \in DOMAIN frames : stack'[t][Len(Below(t)) + k] = frames[k]
  <1> DEFINE b == Below(t)
  <1>1. stack[t] \in Seq(Frame) /\ stack'[t] = b \o frames
    BY DEF Goto
  <1>2. b \in Seq(Frame)
    BY <1>1 DEF Below
  <1>3. /\ Len(b) \in Nat
        /\ stack[t] = <<>> => Len(b) = 0
        /\ stack[t] # <<>> => Len(b) = Len(stack[t]) - 1
        /\ \A i \in 1..Len(b) : i \in DOMAIN stack[t] /\ b[i] = stack[t][i]
        /\ \A i \in DOMAIN stack[t] : i \in 1..(Len(b) + 1)
    <2> DEFINE s == stack[t]
    <2>1. CASE s = <<>>
      <3>1. b = <<>>
        BY <2>1 DEF Below
      <3>2. QED
        BY <2>1, <3>1
    <2>2. CASE s # <<>>
      <3>1. Len(s) \in Nat \ {0} /\ DOMAIN s = 1..Len(s)
        BY <1>1, <2>2
      <3>2. Len(b) = Len(s) - 1 /\ \A i \in 1..(Len(s) - 1) : b[i] = s[i]
        BY <1>1, <3>1 DEF Below
      <3>3. QED
        BY <2>2, <3>1, <3>2
    <2>3. QED
      BY <2>1, <2>2
  <1>4. /\ DOMAIN (b \o frames) = 1..(Len(b) + Len(frames))
        /\ \A i \in 1..Len(b) : (b \o frames)[i] = b[i]
        /\ \A k \in DOMAIN frames : (b \o frames)[Len(b) + k] = frames[k]
    <2> HIDE DEF b
    <2> QED
      BY <1>2
  <1>5. \A u \in Threads : u # t => stack'[u] = stack[u]
    BY DEF Goto
  <1>6. stack[t] # <<>> => Top(t) = stack[t][Len(b) + 1]
    BY <1>1, <1>3 DEF Top
  <1>7. QED
    BY <1>1, <1>3, <1>4, <1>5, <1>6

\* A frame that is neither left nor entered stays where it is.
LEMMA PlacesSame ==
  ASSUME stack \in [Threads -> Seq(Frame)], NEW t \in Threads,
         NEW frames \in Seq(Frame), Goto(t, frames), NEW f,
         stack[t] # <<>> => Top(t) # f,
         \A k \in DOMAIN frames : frames[k] # f
  PROVE  Places(f)' = Places(f)
  <1> DEFINE base == Len(Below(t))
  <1>1. ASSUME NEW i
        PROVE  (i \in DOMAIN stack'[t] /\ stack'[t][i] = f)
                 <=> (i \in DOMAIN stack[t] /\ stack[t][i] = f)
    <2>1. ASSUME i \in DOMAIN stack'[t], stack'[t][i] = f
          PROVE  i \in DOMAIN stack[t] /\ stack[t][i] = f
      <3>1. CASE i \in 1..base
        BY <2>1, <3>1, GotoFrames
      <3>2. CASE i \notin 1..base
        <4>1. i - base \in DOMAIN frames /\ i = base + (i - base)
          BY <2>1, <3>2, GotoFrames
        <4>2. stack'[t][i] = frames[i - base]
          BY <4>1, GotoFrames
        <4>3. QED
          BY <2>1, <4>1, <4>2
      <3>3. QED
        BY <3>1, <3>2
    <2>2. ASSUME i \in DOMAIN stack[t], stack[t][i] = f
          PROVE  i \in DOMAIN stack'[t] /\ stack'[t][i] = f
      <3>1. stack[t] # <<>>
        BY <2>2
      <3>2. i # base + 1
        BY <2>2, <3>1, GotoFrames
      <3>3. i \in 1..base
        BY <2>2, <3>2, GotoFrames
      <3>4. QED
        BY <2>2, <3>3, GotoFrames
    <2>3. QED
      BY <2>1, <2>2
  <1>2. ASSUME NEW u \in Threads
        PROVE  {<<u, i>> : i \in {j \in DOMAIN stack'[u] : stack'[u][j] = f}}
                 = {<<u, i>> : i \in {j \in DOMAIN stack[u] : stack[u][j] = f}}
    <2>1. CASE u = t
      <3>1. {j \in DOMAIN stack'[t] : stack'[t][j] = f}
              = {j \in DOMAIN stack[t] : stack[t][j] = f}
        BY <1>1
      <3>2. QED
        BY <2>1, <3>1
    <2>2. CASE u # t
      BY <2>2, GotoFrames
    <2>3. QED
      BY <2>1, <2>2
  <1>3. QED
    BY <1>2 DEF Places

\* Places(f) has the places of frame f and no others.
LEMMA PlacesIn ==
  ASSUME NEW f
  PROVE  /\ \A u \in Threads : \A i : <<u, i>> \in Places(f)
              <=> i \in DOMAIN stack[u] /\ stack[u][i] = f
         /\ \A p \in Places(f) : \E u \in Threads : \E i \in DOMAIN stack[u] :
              p = <<u, i>> /\ stack[u][i] = f
  BY DEF Places

\* The same after a step.
LEMMA PlacesInNext ==
  ASSUME NEW f
  PROVE  /\ \A u \in Threads : \A i : <<u, i>> \in Places(f)'
              <=> i \in DOMAIN stack'[u] /\ stack'[u][i] = f
         /\ \A p \in Places(f)' : \E u \in Threads : \E i \in DOMAIN stack'[u] :
              p = <<u, i>> /\ stack'[u][i] = f
  BY DEF Places

\* A frame that is left is in one place fewer.
LEMMA PlaceLeft ==
  ASSUME stack \in [Threads -> Seq(Frame)], NEW t \in Threads,
         NEW frames \in Seq(Frame), Goto(t, frames), NEW f,
         stack[t] # <<>>, Top(t) = f,
         \A k \in DOMAIN frames : frames[k] # f
  PROVE  /\ <<t, Len(Below(t)) + 1>> \in Places(f)
         /\ Places(f)' = Places(f) \ {<<t, Len(Below(t)) + 1>>}
  <1> DEFINE base == Len(Below(t))
             p == <<t, base + 1>>
  <1>1. p \in Places(f)
    <2>1. base + 1 \in DOMAIN stack[t]
      BY GotoFrames
    <2>2. stack[t][base + 1] = f
      BY GotoFrames
    <2>3. QED
      BY <2>1, <2>2, PlacesIn
  <1>2. ASSUME NEW u \in Threads, NEW i
        PROVE  <<u, i>> \in Places(f)' <=> <<u, i>> \in Places(f) \ {p}
    <2>1. CASE u # t
      <3>1. stack'[u] = stack[u]
        BY <2>1, GotoFrames
      <3>2. <<u, i>> # p
        BY <2>1
      <3>3. QED
        BY <3>1, <3>2, PlacesIn, PlacesInNext
    <2>2. CASE u = t /\ i \in 1..base
      <3>1. i \in DOMAIN stack[t] /\ i \in DOMAIN stack'[t] /\ i # base + 1
            /\ stack'[t][i] = stack[t][i]
        BY <2>2, GotoFrames
      <3>2. QED
        BY <2>2, <3>1, PlacesIn, PlacesInNext
    <2>3. CASE u = t /\ i \notin 1..base
      <3>1. ASSUME <<t, i>> \in Places(f)' PROVE FALSE
        <4>1. i \in DOMAIN stack'[t] /\ stack'[t][i] = f
          BY <3>1, PlacesInNext
        <4>2. i - base \in DOMAIN frames /\ i = base + (i - base)
          BY <2>3, <4>1, GotoFrames
        <4>3. stack'[t][i] = frames[i - base]
          BY <4>2, GotoFrames
        <4>4. QED
          BY <4>1, <4>2, <4>3
      <3>2. ASSUME <<t, i>> \in Places(f) PROVE <<t, i>> = p
        <4>1. i \in DOMAIN stack[t]
          BY <3>2, PlacesIn
        <4>2. i = base + 1
          BY <2>3, <4>1, GotoFrames
        <4>3. QED
          BY <4>2
      <3>3. QED
        BY <2>3, <3>1, <3>2
    <2>4. QED
      BY <2>1, <2>2, <2>3
  <1>3. \A q \in Places(f)' : q \in Places(f) \ {p}
    BY <1>2, PlacesInNext
  <1>4. \A q \in Places(f) \ {p} : q \in Places(f)'
    BY <1>2, PlacesIn
  <1>5. Places(f)' = Places(f) \ {p}
    BY <1>3, <1>4
  <1>6. QED
    BY <1>1, <1>5

\* A frame that is entered, once, is in one place more.
LEMMA PlaceEntered ==
  ASSUME stack \in [Threads -> Seq(Frame)], NEW t \in Threads,
         NEW frames \in Seq(Frame), Goto(t, frames), NEW f,
         stack[t] # <<>> => Top(t) # f,
         NEW n \in DOMAIN frames, frames[n] = f,
         \A k \in DOMAIN frames : frames[k] = f => k = n
  PROVE  /\ <<t, Len(Below(t)) + n>> \notin Places(f)
         /\ Places(f)' = Places(f) \cup {<<t, Len(Below(t)) + n>>}
  <1> DEFINE base == Len(Below(t))
             p == <<t, base + n>>
  <1>1. p \notin Places(f)
    <2>1. ASSUME p \in Places(f) PROVE FALSE
      <3>1. base + n \in DOMAIN stack[t] /\ stack[t][base + n] = f
        BY <2>1, PlacesIn
      <3>2. base + n \in 1..(base + 1) /\ base \in Nat /\ n \in Nat \ {0}
        BY <3>1, GotoFrames
      <3>3. stack[t] # <<>> /\ base + n = base + 1
        BY <3>1, <3>2
      <3>4. stack[t][base + n] = Top(t)
        BY <3>3, GotoFrames
      <3>5. QED
        BY <3>1, <3>3, <3>4
    <2>2. QED
      BY <2>1
  <1>2. ASSUME NEW u \in Threads, NEW i
        PROVE  <<u, i>> \in Places(f)' <=> <<u, i>> \in Places(f) \cup {p}
    <2>1. CASE u # t
      <3>1. stack'[u] = stack[u]
        BY <2>1, GotoFrames
      <3>2. <<u, i>> # p
        BY <2>1
      <3>3. QED
        BY <3>1, <3>2, PlacesIn, PlacesInNext
    <2>2. CASE u = t /\ i \in 1..base
      <3>1. i \in DOMAIN stack[t] /\ i \in DOMAIN stack'[t] /\ i # base + n
            /\ stack'[t][i] = stack[t][i]
        BY <2>2, GotoFrames
      <3>2. QED
        BY <2>2, <3>1, PlacesIn, PlacesInNext
    <2>3. CASE u = t /\ i \notin 1..base
      <3>1. ASSUME <<t, i>> \in Places(f)' PROVE <<t, i>> = p
        <4>1. i \in DOMAIN stack'[t] /\ stack'[t][i] = f
          BY <3>1, PlacesInNext
        <4>2. i - base \in DOMAIN frames /\ i = base + (i - base)
          BY <2>3, <4>1, GotoFrames
        <4>3. stack'[t][i] = frames[i - base]
          BY <4>2, GotoFrames
        <4>4. i - base = n
          BY <4>1, <4>2, <4>3
        <4>5. QED
          BY <4>2, <4>4
      <3>2. <<t, i>> \notin Places(f)
        <4>1. ASSUME <<t, i>> \in Places(f) PROVE FALSE
          <5>1. i \in DOMAIN stack[t] /\ stack[t][i] = f
            BY <4>1, PlacesIn
          <5>2. i = base + 1 /\ stack[t] # <<>>
            BY <2>3, <5>1, GotoFrames
          <5>3. QED
            BY <5>1, <5>2, GotoFrames
        <4>2. QED
          BY <4>1
      <3>3. p \in Places(f)'
        <4>1. base + n \in DOMAIN stack'[t] /\ stack'[t][base + n] = f
          BY GotoFrames
        <4>2. QED
          BY <4>1, PlacesInNext
      <3>4. QED
        BY <2>3, <3>1, <3>2, <3>3
    <2>4. QED
      BY <2>1, <2>2, <2>3
  <1>3. p \in Places(f)'
    BY <1>2
  <1>4. \A q \in Places(f)' : q \in Places(f) \cup {p}
    BY <1>2, PlacesInNext
  <1>5. \A q \in Places(f) : q \in Places(f)'
    BY <1>2, PlacesIn
  <1>6. Places(f)' = Places(f) \cup {p}
    BY <1>3, <1>4, <1>5
  <1>7. QED
    BY <1>1, <1>6

(***************************************************************************)
(* The invariant, record by record                                         *)
(***************************************************************************)

UseOps == {"unlock", "token", "resume", "cleanup", "closed"}

\* The part of IInv that is about one record.
RecordInv(r) ==
  /\ IsFiniteSet(Refs(r))
  /\ r \in live => refCount[r] = Cardinality(Refs(r)) - (IF Linked(r) THEN 0 ELSE 1)
  /\ \A p, q \in Cleaning(r) : p = q
  /\ Cleaning(r) # {} => ~Linked(r) /\ refCount[r] = -1
  /\ r \in live /\ ~Linked(r) /\ refCount[r] = -1 => Cleaning(r) # {}
  /\ Places(Closed(r)) # {} \/ r \notin live => txQueue[r] = <<>>

TableLive ==
  \A a \in Addrs : table[a] # Null => table[a] \in live /\ addrOf[table[a]] = a

FramesLive ==
  \A t \in Threads : \A i \in DOMAIN stack[t] :
    stack[t][i].op \in UseOps => stack[t][i].r \in live

\* The inductive invariant, per record.
LEMMA IInvParts ==
  IInv <=> /\ TypeOK /\ TableLive /\ FramesLive /\ UsesAreHeld
           /\ \A r \in Records : RecordInv(r)
  BY DEF IInv, TableLive, FramesLive, UseOps, RecordInv, RefCountExact,
         NoUseAfterFree, CleanupClaimed, NoWaiterStranded, TypeOK

\* The same after a step.
LEMMA IInvPartsNext ==
  ASSUME TypeOK', TableLive', FramesLive', UsesAreHeld',
         \A r \in Records : RecordInv(r)'
  PROVE  IInv'
  BY DEF IInv, TableLive, FramesLive, UseOps, RecordInv, RefCountExact,
         NoUseAfterFree, CleanupClaimed, NoWaiterStranded, TypeOK

\* The record and the op of the frames that use a record.
LEMMA FrameOps ==
  /\ \A r : /\ Unlock(r).op = "unlock" /\ Unlock(r).r = r
            /\ Cleanup(r).op = "cleanup" /\ Cleanup(r).r = r
            /\ Closed(r).op = "closed" /\ Closed(r).r = r
            /\ Resume(r).op = "resume" /\ Resume(r).r = r
  /\ \A a, r : Token(a, r).op = "token" /\ Token(a, r).r = r
  /\ \A q : Notify(q).op = "notify"
  /\ \A a : Unregister(a).op = "unregister" /\ Event(a).op = "event"
  /\ \A s : Each(s).op = "each" /\ DelProcs(s).op = "delprocs"
  /\ \A x, s : Down(x, s).op = "down"
  /\ \A p : DelProc(p).op = "delproc"
  BY DEF Unlock, Resume, Cleanup, Closed, Token, Notify, Unregister,
         Event, Each, Down, DelProcs, DelProc

\* A step that leaves a record, and the frames that count for it, alone.
LEMMA SameRecord ==
  ASSUME NEW r \in Records, RecordInv(r),
         Places(Unlock(r))' = Places(Unlock(r)),
         Places(Cleanup(r))' = Places(Cleanup(r)),
         Places(Closed(r))' = Places(Closed(r)),
         refCount'[r] = refCount[r],
         r \in live' <=> r \in live,
         Linked(r)' <=> Linked(r),
         Places(Closed(r)) # {} \/ r \notin live => txQueue'[r] = <<>>
  PROVE  RecordInv(r)'
  <1>1. Refs(r)' = Refs(r) /\ Cleaning(r)' = Cleaning(r)
    BY DEF Refs, Cleaning
  <1>2. QED
    BY <1>1 DEF RecordInv

\* The frames a step enters use records that are allocated.
LEMMA FramesLiveNext ==
  ASSUME stack \in [Threads -> Seq(Frame)], NEW t \in Threads,
         NEW frames \in Seq(Frame), Goto(t, frames),
         FramesLive, live \subseteq live',
         \A k \in DOMAIN frames : frames[k].op \in UseOps => frames[k].r \in live'
  PROVE  FramesLive'
  <1> DEFINE base == Len(Below(t))
  <1>1. SUFFICES ASSUME NEW u \in Threads, NEW i \in DOMAIN stack'[u],
                        stack'[u][i].op \in UseOps
                 PROVE  stack'[u][i].r \in live'
    BY DEF FramesLive
  <1>2. CASE u # t
    BY <1>1, <1>2, GotoFrames DEF FramesLive
  <1>3. CASE u = t /\ i \in 1..base
    <2>1. i \in DOMAIN stack[t] /\ stack'[t][i] = stack[t][i]
      BY <1>3, GotoFrames
    <2>2. QED
      BY <1>1, <1>3, <2>1 DEF FramesLive
  <1>4. CASE u = t /\ i \notin 1..base
    <2>1. i - base \in DOMAIN frames /\ i = base + (i - base)
      BY <1>1, <1>4, GotoFrames
    <2>2. stack'[t][i] = frames[i - base]
      BY <2>1, GotoFrames
    <2>3. QED
      BY <1>1, <1>4, <2>1, <2>2
  <1>5. QED
    BY <1>2, <1>3, <1>4

\* The frames a step enters stand on the reference that covers them.
LEMMA UsesAreHeldNext ==
  ASSUME stack \in [Threads -> Seq(Frame)], NEW t \in Threads,
         NEW frames \in Seq(Frame), Goto(t, frames), UsesAreHeld,
         \A k \in DOMAIN frames : frames[k].op \in {"token", "resume"} =>
           k > 1 /\ frames[k - 1] = Unlock(frames[k].r)
  PROVE  UsesAreHeld'
  <1> DEFINE base == Len(Below(t))
  <1>1. SUFFICES ASSUME NEW u \in Threads, NEW i \in DOMAIN stack'[u],
                        stack'[u][i].op \in {"token", "resume"}
                 PROVE  i > 1 /\ stack'[u][i - 1] = Unlock(stack'[u][i].r)
    BY DEF UsesAreHeld, Unlock
  <1>2. CASE u # t
    BY <1>1, <1>2, GotoFrames DEF UsesAreHeld
  <1>3. CASE u = t /\ i \in 1..base
    <2>1. i \in DOMAIN stack[t] /\ stack'[t][i] = stack[t][i]
      BY <1>3, GotoFrames
    <2>2. i > 1 /\ stack[t][i - 1] = Unlock(stack[t][i].r)
      BY <1>1, <1>3, <2>1 DEF UsesAreHeld
    <2>3. i - 1 \in 1..base
      BY <1>3, <2>2, GotoFrames
    <2>4. stack'[t][i - 1] = stack[t][i - 1]
      BY <2>3, GotoFrames
    <2>5. QED
      BY <1>3, <2>1, <2>2, <2>4
  <1>4. CASE u = t /\ i \notin 1..base
    <2>1. i - base \in DOMAIN frames /\ i = base + (i - base)
      BY <1>1, <1>4, GotoFrames
    <2>2. stack'[t][i] = frames[i - base]
      BY <2>1, GotoFrames
    <2>3. i - base > 1 /\ frames[(i - base) - 1] = Unlock(frames[i - base].r)
      BY <1>1, <1>4, <2>1, <2>2
    <2>4. (i - base) - 1 \in DOMAIN frames /\ i - 1 = base + ((i - base) - 1)
      <3>1. base \in Nat /\ Len(frames) \in Nat /\ DOMAIN frames = 1..Len(frames)
        BY GotoFrames
      <3> DEFINE k == i - base
      <3>2. k \in 1..Len(frames) /\ i = base + k /\ k > 1
        BY <2>1, <2>3, <3>1
      <3>3. k - 1 \in 1..Len(frames)
        BY <3>1, <3>2
      <3>4. i \in Int
        BY <3>1, <3>2
      <3>5. i - 1 = base + (k - 1)
        BY <3>1, <3>2, <3>4
      <3>6. QED
        BY <3>1, <3>3, <3>5
    <2>5. stack'[t][i - 1] = frames[(i - base) - 1]
      BY <2>4, GotoFrames
    <2>6. QED
      BY <1>4, <2>1, <2>2, <2>3, <2>4, <2>5
  <1>5. QED
    BY <1>2, <1>3, <1>4

(***************************************************************************)
(* What the kinds of step do to the invariant                              *)
(***************************************************************************)

CountOps == {"unlock", "cleanup", "closed"}

\* A step with no frame of record r that counts leaves r's places alone.
LEMMA QuietPlaces ==
  ASSUME stack \in [Threads -> Seq(Frame)], NEW t \in Threads,
         NEW frames \in Seq(Frame), Goto(t, frames), NEW r,
         stack[t] # <<>> => (Top(t).op \in CountOps => Top(t).r # r),
         \A k \in DOMAIN frames : frames[k].op \in CountOps => frames[k].r # r
  PROVE  /\ Places(Unlock(r))' = Places(Unlock(r))
         /\ Places(Cleanup(r))' = Places(Cleanup(r))
         /\ Places(Closed(r))' = Places(Closed(r))
  <1>1. /\ stack[t] # <<>> => /\ Top(t) # Unlock(r)
                              /\ Top(t) # Cleanup(r)
                              /\ Top(t) # Closed(r)
        /\ \A k \in DOMAIN frames : /\ frames[k] # Unlock(r)
                                    /\ frames[k] # Cleanup(r)
                                    /\ frames[k] # Closed(r)
    BY FrameOps DEF CountOps
  <1>2. QED
    BY <1>1, PlacesSame

\* A step that neither takes nor gives back a reference, and cleans up nothing.
LEMMA QuietStep ==
  ASSUME IInv, TypeOK', NEW t \in Threads, NEW frames \in Seq(Frame),
         Goto(t, frames),
         \A k \in DOMAIN frames : frames[k].op \notin UseOps,
         stack[t] # <<>> => Top(t).op \notin CountOps,
         UNCHANGED <<table, live, addrOf, refCount>>,
         \A r \in Records :
           Places(Closed(r)) # {} \/ r \notin live => txQueue'[r] = <<>>
  PROVE  IInv'
  <1>1. /\ stack \in [Threads -> Seq(Frame)]
        /\ TableLive /\ FramesLive /\ UsesAreHeld
        /\ \A r \in Records : RecordInv(r)
    BY IInvParts DEF TypeOK
  <1>2. TableLive'
    BY <1>1 DEF TableLive
  <1>3. FramesLive'
    BY <1>1, FramesLiveNext
  <1>4. UsesAreHeld'
    BY <1>1, UsesAreHeldNext DEF UseOps
  <1>5. ASSUME NEW r \in Records PROVE RecordInv(r)'
    <2>1. /\ Places(Unlock(r))' = Places(Unlock(r))
          /\ Places(Cleanup(r))' = Places(Cleanup(r))
          /\ Places(Closed(r))' = Places(Closed(r))
      BY <1>1, QuietPlaces DEF CountOps, UseOps
    <2>2. Linked(r)' <=> Linked(r)
      BY DEF Linked
    <2>3. QED
      BY <1>1, <2>1, <2>2, SameRecord
  <1>6. QED
    BY <1>2, <1>3, <1>4, <1>5, IInvPartsNext

\* The place of a reference that is taken.
LEMMA ReferenceTaken ==
  ASSUME stack \in [Threads -> Seq(Frame)], NEW t \in Threads,
         NEW frames \in Seq(Frame), Goto(t, frames), NEW r,
         stack[t] # <<>> => Top(t).op \notin CountOps,
         NEW n \in DOMAIN frames, frames[n] = Unlock(r),
         \A k \in DOMAIN frames : frames[k].op \in CountOps => k = n
  PROVE  /\ <<t, Len(Below(t)) + n>> \notin Places(Unlock(r))
         /\ Places(Unlock(r))' = Places(Unlock(r)) \cup {<<t, Len(Below(t)) + n>>}
         /\ Places(Cleanup(r))' = Places(Cleanup(r))
         /\ Places(Closed(r))' = Places(Closed(r))
  <1>1. /\ stack[t] # <<>> => /\ Top(t) # Unlock(r)
                              /\ Top(t) # Cleanup(r)
                              /\ Top(t) # Closed(r)
        /\ \A k \in DOMAIN frames : frames[k] = Unlock(r) => k = n
        /\ \A k \in DOMAIN frames : frames[k] # Cleanup(r) /\ frames[k] # Closed(r)
    BY FrameOps DEF CountOps
  <1>2. Places(Cleanup(r))' = Places(Cleanup(r)) /\ Places(Closed(r))' = Places(Closed(r))
    BY <1>1, PlacesSame
  <1>3. QED
    BY <1>1, <1>2, PlaceEntered

\* The place of the reference to a new record.
LEMMA FirstReference ==
  ASSUME stack \in [Threads -> Seq(Frame)], NEW t \in Threads, NEW r \in Records,
         Goto(t, <<Unlock(r)>>), stack[t] = <<>>
  PROVE  /\ Places(Unlock(r))' = Places(Unlock(r)) \cup {<<t, 1>>}
         /\ Places(Cleanup(r))' = Places(Cleanup(r))
         /\ Places(Closed(r))' = Places(Closed(r))
  <1>1. /\ stack'[t] = <<Unlock(r)>>
        /\ \A u \in Threads : u # t => stack'[u] = stack[u]
    <2>1. Below(t) = <<>>
      BY DEF Below
    <2>2. Below(t) \o <<Unlock(r)>> = <<Unlock(r)>>
      BY <2>1
    <2>3. QED
      BY <2>2 DEF Goto
  <1>2. ASSUME NEW f
        PROVE  \A u \in Threads : \A i :
                 <<u, i>> \in Places(f)'
                   <=> <<u, i>> \in Places(f) \/ (u = t /\ i = 1 /\ f = Unlock(r))
    <2>1. ASSUME NEW u \in Threads, NEW i
          PROVE  (i \in DOMAIN stack'[u] /\ stack'[u][i] = f)
                   <=> \/ i \in DOMAIN stack[u] /\ stack[u][i] = f
                       \/ u = t /\ i = 1 /\ f = Unlock(r)
      <3>1. CASE u = t
        <4>1. DOMAIN stack[t] = {} /\ DOMAIN <<Unlock(r)>> = {1}
          OBVIOUS
        <4>2. QED
          BY <1>1, <3>1, <4>1
      <3>2. CASE u # t
        BY <1>1, <3>2
      <3>3. QED
        BY <3>1, <3>2
    <2>2. \A u \in Threads : \A i :
            <<u, i>> \in Places(f) <=> i \in DOMAIN stack[u] /\ stack[u][i] = f
      BY PlacesIn
    <2>3. \A u \in Threads : \A i :
            <<u, i>> \in Places(f)' <=> i \in DOMAIN stack'[u] /\ stack'[u][i] = f
      BY PlacesInNext
    <2>4. QED
      BY <2>1, <2>2, <2>3
  <1>3. /\ Cleanup(r) # Unlock(r)
        /\ Closed(r) # Unlock(r)
    BY FrameOps
  <1>4. /\ Places(Cleanup(r))' = Places(Cleanup(r))
        /\ Places(Closed(r))' = Places(Closed(r))
    <2>1. ASSUME NEW f, f # Unlock(r) PROVE Places(f)' = Places(f)
      <3>1. \A u \in Threads : \A i : <<u, i>> \in Places(f)' <=> <<u, i>> \in Places(f)
        BY <1>2, <2>1
      <3>2. \A p \in Places(f)' : p \in Places(f)
        BY <3>1, PlacesInNext
      <3>3. \A p \in Places(f) : p \in Places(f)'
        BY <3>1, PlacesIn
      <3>4. QED
        BY <3>2, <3>3
    <2>2. QED
      BY <1>3, <2>1
  <1>5. Places(Unlock(r))' = Places(Unlock(r)) \cup {<<t, 1>>}
    <2> DEFINE f == Unlock(r)
    <2>1. \A u \in Threads : \A i :
            <<u, i>> \in Places(f)' <=> <<u, i>> \in Places(f) \cup {<<t, 1>>}
      BY <1>2
    <2>2. \A p \in Places(f)' : p \in Places(f) \cup {<<t, 1>>}
      BY <2>1, PlacesInNext
    <2>3. \A p \in Places(f) : p \in Places(f)'
      BY <2>1, PlacesIn
    <2>4. <<t, 1>> \in Places(f)'
      BY <2>1
    <2>5. QED
      BY <2>2, <2>3, <2>4
  <1>6. QED
    BY <1>4, <1>5

\* The frames take one reference, to r, and only use r after it.
Holds(frames, r) ==
  \E n \in DOMAIN frames :
    /\ frames[n] = Unlock(r)
    /\ \A k \in DOMAIN frames : frames[k].op \in UseOps =>
         \/ k = n
         \/ k = n + 1 /\ frames[k].op \in {"token", "resume"} /\ frames[k].r = r

\* A step that takes a reference to a record of the table, and may go on to
\* use it.
LEMMA HoldStep ==
  ASSUME IInv, TypeOK', NEW t \in Threads, NEW frames \in Seq(Frame),
         Goto(t, frames), NEW r \in Records, Linked(r),
         Holds(frames, r),
         stack[t] # <<>> => Top(t).op \notin CountOps,
         refCount' = [refCount EXCEPT ![r] = @ + 1],
         UNCHANGED <<table, live, addrOf, txQueue>>
  PROVE  IInv'
  <1>0. PICK n \in DOMAIN frames :
          /\ frames[n] = Unlock(r)
          /\ \A k \in DOMAIN frames : frames[k].op \in UseOps =>
               \/ k = n
               \/ k = n + 1 /\ frames[k].op \in {"token", "resume"} /\ frames[k].r = r
    BY DEF Holds
  <1>1. /\ stack \in [Threads -> Seq(Frame)]
        /\ TableLive /\ FramesLive /\ UsesAreHeld
        /\ \A q \in Records : RecordInv(q)
        /\ refCount \in [Records -> Int]
    BY IInvParts DEF TypeOK
  <1>2. TableLive'
    BY <1>1 DEF TableLive
  <1>3. r \in live
    <2>1. PICK a \in Addrs : table[a] = r
      BY DEF Linked
    <2>2. r # Null
      BY ConstantsAssumption
    <2>3. QED
      BY <1>1, <2>1, <2>2 DEF TableLive
  <1>4. FramesLive'
    <2>1. \A k \in DOMAIN frames : frames[k].op \in UseOps => frames[k].r \in live'
      BY <1>0, <1>3, FrameOps
    <2>2. QED
      BY <1>1, <2>1, FramesLiveNext
  <1>5. UsesAreHeld'
    <2>1. ASSUME NEW k \in DOMAIN frames, frames[k].op \in {"token", "resume"}
          PROVE  k > 1 /\ frames[k - 1] = Unlock(frames[k].r)
      <3>1. k # n
        BY <1>0, <2>1, FrameOps
      <3>2. k = n + 1 /\ frames[k].r = r
        BY <1>0, <2>1, <3>1 DEF UseOps
      <3>3. n \in Nat \ {0}
        OBVIOUS
      <3>4. k > 1 /\ k - 1 = n
        BY <3>2, <3>3
      <3>5. QED
        BY <1>0, <3>2, <3>4
    <2>2. QED
      BY <1>1, <2>1, UsesAreHeldNext
  <1>6. \A q : Linked(q)' <=> Linked(q)
    BY DEF Linked
  <1>7. RecordInv(r)'
    <2> DEFINE p == <<t, Len(Below(t)) + n>>
    <2>1. \A k \in DOMAIN frames : frames[k].op \in CountOps => k = n
      BY <1>0 DEF UseOps, CountOps
    <2>2. /\ p \notin Places(Unlock(r))
          /\ Places(Unlock(r))' = Places(Unlock(r)) \cup {p}
          /\ Places(Cleanup(r))' = Places(Cleanup(r))
          /\ Places(Closed(r))' = Places(Closed(r))
      BY <1>0, <1>1, <2>1, ReferenceTaken
    <2>5. IsFiniteSet(Refs(r)) /\ Refs(r) = Places(Unlock(r))
      BY <1>1 DEF RecordInv, Refs
    <2>6. /\ IsFiniteSet(Refs(r)')
          /\ Cardinality(Refs(r)') = Cardinality(Refs(r)) + 1
      BY <2>2, <2>5, FS_AddElement DEF Refs
    <2>7. Cleaning(r)' = Cleaning(r) /\ Cleaning(r) = {}
      BY <1>1, <2>2 DEF RecordInv, Cleaning
    <2>8. refCount[r] = Cardinality(Refs(r)) /\ refCount'[r] = refCount[r] + 1
      BY <1>1, <1>3, <2>5, FS_CardinalityType DEF RecordInv
    <2>9. Cardinality(Refs(r)) \in Nat
      BY <2>5, FS_CardinalityType
    <2>10. refCount'[r] = Cardinality(Refs(r)')
      BY <2>6, <2>8
    <2>11. Cardinality(Refs(r)') - 0 = Cardinality(Refs(r)')
      BY <2>6, <2>9
    <2>12. Places(Closed(r))' = {}
      BY <2>7 DEF Cleaning
    <2>13. Linked(r)' /\ r \in live' /\ Cleaning(r)' = {}
      BY <1>3, <1>6, <2>7
    <2>14. refCount'[r] = Cardinality(Refs(r)') - (IF Linked(r)' THEN 0 ELSE 1)
      BY <2>10, <2>11, <2>13
    <2>15. QED
      BY <2>6, <2>12, <2>13, <2>14 DEF RecordInv
  <1>8. ASSUME NEW q \in Records, q # r PROVE RecordInv(q)'
    <2>1. /\ stack[t] # <<>> => (Top(t).op \in CountOps => Top(t).r # q)
          /\ \A k \in DOMAIN frames : frames[k].op \in CountOps => frames[k].r # q
      BY <1>0, <1>8, FrameOps DEF UseOps, CountOps
    <2>2. /\ Places(Unlock(q))' = Places(Unlock(q))
          /\ Places(Cleanup(q))' = Places(Cleanup(q))
          /\ Places(Closed(q))' = Places(Closed(q))
      BY <1>1, <2>1, QuietPlaces
    <2>3. refCount'[q] = refCount[q]
      BY <1>1, <1>8
    <2>4. Places(Closed(q)) # {} \/ q \notin live => txQueue'[q] = <<>>
      BY <1>1 DEF RecordInv
    <2>5. QED
      BY <1>1, <1>6, <2>2, <2>3, <2>4, SameRecord
  <1>9. QED
    BY <1>2, <1>4, <1>5, <1>7, <1>8, IInvPartsNext

\* The place of a cleanup that is begun, by a thread that may leave a
\* reference to the same record.
LEMMA CleanupTaken ==
  ASSUME stack \in [Threads -> Seq(Frame)], NEW t \in Threads,
         NEW frames \in Seq(Frame), Goto(t, frames), NEW r,
         stack[t] # <<>> => Top(t).op \notin {"cleanup", "closed"},
         NEW n \in DOMAIN frames, frames[n] = Cleanup(r),
         \A k \in DOMAIN frames : frames[k].op \in CountOps => k = n
  PROVE  /\ Places(Cleanup(r))' = Places(Cleanup(r)) \cup {<<t, Len(Below(t)) + n>>}
         /\ Places(Closed(r))' = Places(Closed(r))
  <1>1. /\ stack[t] # <<>> => Top(t) # Cleanup(r) /\ Top(t) # Closed(r)
        /\ \A k \in DOMAIN frames : frames[k] = Cleanup(r) => k = n
        /\ \A k \in DOMAIN frames : frames[k] # Closed(r)
    BY FrameOps DEF CountOps
  <1>2. Places(Closed(r))' = Places(Closed(r))
    BY <1>1, PlacesSame
  <1>3. QED
    BY <1>1, <1>2, PlaceEntered, ZenonT(60)

\* What is in the table after a record is removed.
LEMMA RemoveTable ==
  ASSUME TypeOK, TableLive, NEW r \in Records, Linked(r), Remove(r),
         UNCHANGED <<live, addrOf>>
  PROVE  /\ r \in live
         /\ TableLive'
         /\ ~Linked(r)'
         /\ \A q \in Records : q # r => (Linked(q)' <=> Linked(q))
  <1>1. PICK a \in Addrs : table[a] = r
    BY DEF Linked
  <1>2. r \in live /\ addrOf[r] = a /\ Null \notin Records
    BY <1>1, ConstantsAssumption DEF TableLive
  <1>3. table' = [table EXCEPT ![a] = Null]
    BY <1>2 DEF Remove
  <1>4. \A b \in Addrs : table'[b] = IF b = a THEN Null ELSE table[b]
    BY <1>3 DEF TypeOK
  <1>5. TableLive'
    BY <1>4 DEF TableLive
  <1>6. ~Linked(r)'
    <2>1. SUFFICES ASSUME NEW b \in Addrs, table'[b] = r PROVE FALSE
      BY DEF Linked
    <2>2. b # a /\ table[b] = r
      BY <1>2, <1>4, <2>1
    <2>3. addrOf[r] = b
      BY <1>2, <2>2 DEF TableLive
    <2>4. QED
      BY <1>2, <2>2, <2>3
  <1>7. ASSUME NEW q \in Records, q # r PROVE Linked(q)' <=> Linked(q)
    BY <1>1, <1>2, <1>4, <1>7 DEF Linked
  <1>8. QED
    BY <1>2, <1>5, <1>6, <1>7

\* A step that takes a record out of the table and begins its cleanup when
\* nobody holds it.
LEMMA RemoveStep ==
  ASSUME IInv, TypeOK', NEW t \in Threads, NEW r \in Records, Linked(r),
         Remove(r), NEW first \in Frame, first.op \notin UseOps,
         stack[t] # <<>> => Top(t).op \notin CountOps,
         NEW frames \in Seq(Frame), Goto(t, frames),
         frames = IF refCount[r] = 0 THEN <<first, Cleanup(r)>> ELSE <<first>>,
         UNCHANGED <<live, addrOf, txQueue>>
  PROVE  IInv'
  <1>1. /\ stack \in [Threads -> Seq(Frame)]
        /\ TypeOK /\ TableLive /\ FramesLive /\ UsesAreHeld
        /\ \A q \in Records : RecordInv(q)
        /\ refCount \in [Records -> Int]
    BY IInvParts DEF TypeOK
  <1>2. /\ r \in live
        /\ TableLive'
        /\ ~Linked(r)'
        /\ \A q \in Records : q # r => (Linked(q)' <=> Linked(q))
    BY <1>1, RemoveTable
  <1>3. \A k \in DOMAIN frames : frames[k].op \in UseOps =>
          frames[k] = Cleanup(r) /\ k = 2 /\ refCount[r] = 0
    BY FrameOps
  <1>4. FramesLive'
    <2>1. \A k \in DOMAIN frames : frames[k].op \in UseOps => frames[k].r \in live'
      BY <1>2, <1>3, FrameOps
    <2>2. QED
      BY <1>1, <2>1, FramesLiveNext
  <1>5. UsesAreHeld'
    <2>1. \A k \in DOMAIN frames : frames[k].op \notin {"token", "resume"}
      BY <1>3, FrameOps DEF UseOps
    <2>2. QED
      BY <1>1, <2>1, UsesAreHeldNext
  <1>6. RecordInv(r)'
    <2>1. /\ IsFiniteSet(Refs(r)) /\ Cardinality(Refs(r)) \in Nat
          /\ refCount[r] = Cardinality(Refs(r)) - 0
          /\ Cleaning(r) = {}
      BY <1>1, <1>2, FS_CardinalityType DEF RecordInv
    <2>2. refCount[r] \in Nat /\ refCount'[r] = refCount[r] - 1
          /\ refCount[r] = Cardinality(Refs(r))
      BY <1>1, <2>1 DEF Remove
    <2>3. Refs(r)' = Refs(r)
      <3>1. stack[t] # <<>> => Top(t) # Unlock(r)
        BY FrameOps DEF CountOps
      <3>2. \A k \in DOMAIN frames : frames[k] # Unlock(r)
        BY <1>3, FrameOps DEF UseOps
      <3>3. QED
        BY <1>1, <3>1, <3>2, PlacesSame DEF Refs
    <2>4. refCount'[r] = Cardinality(Refs(r)') - (IF Linked(r)' THEN 0 ELSE 1)
      BY <1>2, <2>2, <2>3
    <2>5. /\ refCount'[r] = -1 <=> Cleaning(r)' # {}
          /\ \A p, q \in Cleaning(r)' : p = q
          /\ Places(Closed(r))' = {}
      <3>1. CASE refCount[r] = 0
        <4>1. 2 \in DOMAIN frames /\ frames[2] = Cleanup(r)
          BY <3>1
        <4>2. stack[t] # <<>> => Top(t).op \notin {"cleanup", "closed"}
          BY DEF CountOps
        <4>3. \A k \in DOMAIN frames : frames[k].op \in CountOps => k = 2
          BY <1>3 DEF CountOps, UseOps
        <4>4. /\ Places(Cleanup(r))'
                   = Places(Cleanup(r)) \cup {<<t, Len(Below(t)) + 2>>}
              /\ Places(Closed(r))' = Places(Closed(r))
          <5>1. stack \in [Threads -> Seq(Frame)]
            BY <1>1
          <5>2. QED
            BY <4>1, <4>2, <4>3, <5>1, CleanupTaken, ZenonT(60)
        <4>5. Cleaning(r)' = {<<t, Len(Below(t)) + 2>>} /\ Places(Closed(r))' = {}
          BY <2>1, <4>4 DEF Cleaning
        <4>6. refCount'[r] = -1
          BY <2>2, <3>1
        <4>7. QED
          BY <4>5, <4>6
      <3>2. CASE refCount[r] # 0
        <4>1. /\ stack[t] # <<>> => (Top(t).op \in CountOps => Top(t).r # r)
              /\ \A k \in DOMAIN frames : frames[k].op \in CountOps => frames[k].r # r
          BY <1>3, <3>2 DEF CountOps, UseOps
        <4>2. /\ Places(Cleanup(r))' = Places(Cleanup(r))
              /\ Places(Closed(r))' = Places(Closed(r))
          BY <1>1, <4>1, QuietPlaces
        <4>3. Cleaning(r)' = {} /\ Places(Closed(r))' = {}
          BY <2>1, <4>2 DEF Cleaning
        <4>4. refCount'[r] # -1
          BY <2>2, <3>2
        <4>5. QED
          BY <4>3, <4>4
      <3>3. QED
        BY <3>1, <3>2
    <2>6. r \in live' /\ IsFiniteSet(Refs(r)')
      BY <1>2, <2>1, <2>3
    <2>7. QED
      BY <1>2, <2>4, <2>5, <2>6 DEF RecordInv
  <1>7. ASSUME NEW q \in Records, q # r PROVE RecordInv(q)'
    <2>1. /\ stack[t] # <<>> => (Top(t).op \in CountOps => Top(t).r # q)
          /\ \A k \in DOMAIN frames : frames[k].op \in CountOps => frames[k].r # q
      BY <1>3, <1>7, FrameOps DEF UseOps, CountOps
    <2>2. /\ Places(Unlock(q))' = Places(Unlock(q))
          /\ Places(Cleanup(q))' = Places(Cleanup(q))
          /\ Places(Closed(q))' = Places(Closed(q))
      BY <1>1, <2>1, QuietPlaces
    <2>3. refCount'[q] = refCount[q]
      BY <1>1, <1>7 DEF Remove
    <2>4. Places(Closed(q)) # {} \/ q \notin live => txQueue'[q] = <<>>
      BY <1>1 DEF RecordInv
    <2>5. Linked(q)' <=> Linked(q)
      BY <1>2, <1>7
    <2>6. QED
      BY <1>1, <2>2, <2>3, <2>4, <2>5, SameRecord
  <1>8. QED
    BY <1>2, <1>4, <1>5, <1>6, <1>7, IInvPartsNext

\* A record that is allocated has no frame yet.
LEMMA NewStep ==
  ASSUME IInv, TypeOK', NEW t \in Threads, NEW a \in Addrs, NEW x,
         NEW r \in Records, RegisterNew(a, x, r),
         stack[t] = <<>>, Goto(t, <<Unlock(r)>>)
  PROVE  IInv'
  <1> DEFINE frames == <<Unlock(r)>>
             p == <<t, 1>>
  <1>1. /\ stack \in [Threads -> Seq(Frame)]
        /\ TypeOK /\ TableLive /\ FramesLive /\ UsesAreHeld
        /\ \A q \in Records : RecordInv(q)
    BY IInvParts DEF TypeOK
  <1>2. frames \in Seq(Frame)
    BY FrameTypes
  <1>3. \A k \in DOMAIN frames : k = 1 /\ frames[k] = Unlock(r)
    OBVIOUS
  <1>5. /\ r \notin live /\ table[a] = Null /\ Null \notin Records
        /\ live' = live \cup {r}
        /\ table' = [table EXCEPT ![a] = r]
        /\ addrOf' = [addrOf EXCEPT ![r] = a]
        /\ refCount' = [refCount EXCEPT ![r] = 1]
        /\ txQueue' = [txQueue EXCEPT ![r] = <<>>]
    BY ConstantsAssumption DEF RegisterNew
  <1>6. /\ \A b \in Addrs : table'[b] = IF b = a THEN r ELSE table[b]
        /\ \A q \in Records : q # r => /\ addrOf'[q] = addrOf[q]
                                       /\ refCount'[q] = refCount[q]
                                       /\ txQueue'[q] = txQueue[q]
        /\ addrOf'[r] = a /\ refCount'[r] = 1 /\ txQueue'[r] = <<>>
    BY <1>1, <1>5 DEF TypeOK
  <1>7. \A b \in Addrs : table[b] # r
    BY <1>1, <1>5 DEF TableLive
  <1>8. TableLive'
    <2>1. SUFFICES ASSUME NEW b \in Addrs, table'[b] # Null
                   PROVE  table'[b] \in live' /\ addrOf'[table'[b]] = b
      BY DEF TableLive
    <2>2. CASE b = a
      BY <1>5, <1>6, <2>2
    <2>3. CASE b # a
      <3>1. table'[b] = table[b] /\ table[b] \in Records /\ table[b] # r
        BY <1>1, <1>6, <1>7, <2>1, <2>3 DEF TypeOK
      <3>2. QED
        BY <1>1, <1>5, <1>6, <2>1, <3>1 DEF TableLive
    <2>4. QED
      BY <2>2, <2>3
  <1>9. FramesLive'
    <2>1. \A k \in DOMAIN frames : frames[k].op \in UseOps => frames[k].r \in live'
      BY <1>3, <1>5, FrameOps
    <2>2. QED
      BY <1>1, <1>2, <1>5, <2>1, FramesLiveNext
  <1>10. UsesAreHeld'
    <2>1. \A k \in DOMAIN frames : frames[k].op \notin {"token", "resume"}
      BY <1>3, FrameOps
    <2>2. QED
      BY <1>1, <1>2, <2>1, UsesAreHeldNext
  <1>11. RecordInv(r)'
    <2>1. Places(Unlock(r)) = {} /\ Places(Cleanup(r)) = {} /\ Places(Closed(r)) = {}
      <3>1. ASSUME NEW u \in Threads, NEW i \in DOMAIN stack[u],
                   stack[u][i].op \in UseOps, stack[u][i].r = r
            PROVE  FALSE
        BY <1>1, <1>5, <3>1 DEF FramesLive
      <3>2. \A f \in {Unlock(r), Cleanup(r), Closed(r)} : f.op \in UseOps /\ f.r = r
        BY FrameOps DEF UseOps
      <3>3. ASSUME NEW f \in {Unlock(r), Cleanup(r), Closed(r)} PROVE Places(f) = {}
        BY <3>1, <3>2, PlacesIn
      <3>4. QED
        BY <3>3
    <2>3. /\ Places(Unlock(r))' = Places(Unlock(r)) \cup {p}
          /\ Places(Cleanup(r))' = Places(Cleanup(r))
          /\ Places(Closed(r))' = Places(Closed(r))
      BY <1>1, FirstReference
    <2>4. Refs(r)' = {p} /\ Cleaning(r)' = {} /\ Places(Closed(r))' = {}
      BY <2>1, <2>3 DEF Refs, Cleaning
    <2>5. IsFiniteSet(Refs(r)') /\ Cardinality(Refs(r)') = 1
      <3> HIDE DEF p
      <3>1. IsFiniteSet({p}) /\ Cardinality({p}) = 1
        BY FS_Singleton
      <3>2. QED
        BY <2>4, <3>1
    <2>6. Linked(r)' /\ r \in live' /\ refCount'[r] = 1
      BY <1>5, <1>6 DEF Linked
    <2>7. refCount'[r] = Cardinality(Refs(r)') - (IF Linked(r)' THEN 0 ELSE 1)
      BY <2>5, <2>6
    <2>8. QED
      BY <2>4, <2>5, <2>6, <2>7 DEF RecordInv
  <1>12. ASSUME NEW q \in Records, q # r PROVE RecordInv(q)'
    <2>1. /\ stack[t] # <<>> => (Top(t).op \in CountOps => Top(t).r # q)
          /\ \A k \in DOMAIN frames : frames[k].op \in CountOps => frames[k].r # q
      BY <1>3, <1>12, FrameOps
    <2>2. /\ Places(Unlock(q))' = Places(Unlock(q))
          /\ Places(Cleanup(q))' = Places(Cleanup(q))
          /\ Places(Closed(q))' = Places(Closed(q))
      BY <1>1, <1>2, <2>1, QuietPlaces
    <2>3. refCount'[q] = refCount[q] /\ (q \in live' <=> q \in live)
      BY <1>5, <1>6, <1>12
    <2>4. Places(Closed(q)) # {} \/ q \notin live => txQueue'[q] = <<>>
      BY <1>1, <1>6, <1>12 DEF RecordInv
    <2>5. Linked(q)' <=> Linked(q)
      BY <1>5, <1>6, <1>12 DEF Linked
    <2>6. QED
      BY <1>1, <2>2, <2>3, <2>4, <2>5, SameRecord
  <1>13. QED
    BY <1>8, <1>9, <1>10, <1>11, <1>12, IInvPartsNext

\* Giving a reference back; the last one of a record out of the table starts
\* its cleanup.
LEMMA UnlockStep ==
  ASSUME IInv, TypeOK', NEW t \in Threads, NEW r \in Records,
         stack[t] # <<>>, Top(t) = Unlock(r),
         refCount' = [refCount EXCEPT ![r] = @ - 1],
         NEW frames \in Seq(Frame), Goto(t, frames),
         frames = IF refCount[r] = 0 THEN <<Cleanup(r)>> ELSE <<>>,
         UNCHANGED <<table, live, addrOf, txQueue>>
  PROVE  IInv'
  <1> DEFINE p == <<t, Len(Below(t)) + 1>>
  <1>1. /\ stack \in [Threads -> Seq(Frame)]
        /\ TypeOK /\ TableLive /\ FramesLive /\ UsesAreHeld
        /\ \A q \in Records : RecordInv(q)
        /\ refCount \in [Records -> Int]
    BY IInvParts DEF TypeOK
  <1>2. \A k \in DOMAIN frames :
          k = 1 /\ frames[k] = Cleanup(r) /\ refCount[r] = 0
    OBVIOUS
  <1>3. /\ p \in Places(Unlock(r))
        /\ Places(Unlock(r))' = Places(Unlock(r)) \ {p}
    <2>1. \A k \in DOMAIN frames : frames[k] # Unlock(r)
      BY <1>2, FrameOps
    <2>2. QED
      BY <1>1, <2>1, PlaceLeft
  <1>4. r \in live
    <2>1. Len(stack[t]) \in DOMAIN stack[t]
      BY <1>1
    <2>2. stack[t][Len(stack[t])] = Unlock(r)
      BY DEF Top
    <2>3. Unlock(r).op \in UseOps /\ Unlock(r).r = r
      BY FrameOps DEF UseOps
    <2>4. QED
      BY <1>1, <2>1, <2>2, <2>3 DEF FramesLive
  <1>5. TableLive'
    BY <1>1 DEF TableLive
  <1>6. FramesLive'
    <2>1. \A k \in DOMAIN frames : frames[k].op \in UseOps => frames[k].r \in live'
      BY <1>2, <1>4, FrameOps
    <2>2. QED
      BY <1>1, <2>1, FramesLiveNext
  <1>7. UsesAreHeld'
    <2>1. \A k \in DOMAIN frames : frames[k].op \notin {"token", "resume"}
      BY <1>2, FrameOps
    <2>2. QED
      BY <1>1, <2>1, UsesAreHeldNext
  <1>8. \A q : Linked(q)' <=> Linked(q)
    BY DEF Linked
  <1>9. RecordInv(r)'
    <2>1. /\ IsFiniteSet(Refs(r)) /\ Cardinality(Refs(r)) \in Nat
          /\ refCount[r] = Cardinality(Refs(r)) - (IF Linked(r) THEN 0 ELSE 1)
      BY <1>1, <1>4, FS_CardinalityType DEF RecordInv
    <2>2. /\ IsFiniteSet(Refs(r)')
          /\ Cardinality(Refs(r)') = Cardinality(Refs(r)) - 1
          /\ Cardinality(Refs(r)') \in Nat
      BY <1>3, <2>1, FS_RemoveElement, FS_CardinalityType DEF Refs
    <2>3. refCount'[r] = refCount[r] - 1 /\ refCount[r] \in Int
      BY <1>1
    <2>4. refCount'[r] = Cardinality(Refs(r)') - (IF Linked(r)' THEN 0 ELSE 1)
      <3>1. CASE Linked(r)
        BY <1>8, <2>1, <2>2, <2>3, <3>1
      <3>2. CASE ~Linked(r)
        BY <1>8, <2>1, <2>2, <2>3, <3>2
      <3>3. QED
        BY <3>1, <3>2
    <2>5. refCount[r] # -1
      <3>1. CASE Linked(r)
        BY <2>1, <2>2, <3>1
      <3>2. CASE ~Linked(r)
        BY <2>1, <2>2, <3>2
      <3>3. QED
        BY <3>1, <3>2
    <2>6. Cleaning(r) = {}
      BY <1>1, <2>5 DEF RecordInv
    <2>7. stack[t] # <<>> => Top(t) # Cleanup(r) /\ Top(t) # Closed(r)
      BY FrameOps
    <2>8. /\ refCount'[r] = -1 <=> Cleaning(r)' # {}
          /\ \A u, v \in Cleaning(r)' : u = v
          /\ Places(Closed(r))' = {}
          /\ Cleaning(r)' # {} => ~Linked(r)
      <3>1. CASE refCount[r] = 0
        <4>1. 1 \in DOMAIN frames /\ frames[1] = Cleanup(r)
          BY <3>1
        <4>2. stack[t] # <<>> => Top(t).op \notin {"cleanup", "closed"}
          BY FrameOps
        <4>3. \A k \in DOMAIN frames : frames[k].op \in CountOps => k = 1
          BY <1>2
        <4>4. /\ Places(Cleanup(r))' = Places(Cleanup(r)) \cup {p}
              /\ Places(Closed(r))' = Places(Closed(r))
          <5>1. stack \in [Threads -> Seq(Frame)]
            BY <1>1
          <5>2. QED
            BY <4>1, <4>2, <4>3, <5>1, CleanupTaken
        <4>5. Cleaning(r)' = {p} /\ Places(Closed(r))' = {}
          BY <2>6, <4>4 DEF Cleaning
        <4>6. refCount'[r] = -1
          BY <2>3, <3>1
        <4>7. ~Linked(r)
          BY <2>1, <2>2, <3>1
        <4>8. QED
          BY <4>5, <4>6, <4>7
      <3>2. CASE refCount[r] # 0
        <4>1. \A k \in DOMAIN frames : frames[k] # Cleanup(r) /\ frames[k] # Closed(r)
          BY <1>2, <3>2
        <4>2. /\ Places(Cleanup(r))' = Places(Cleanup(r))
              /\ Places(Closed(r))' = Places(Closed(r))
          BY <1>1, <2>7, <4>1, PlacesSame
        <4>3. Cleaning(r)' = {} /\ Places(Closed(r))' = {}
          BY <2>6, <4>2 DEF Cleaning
        <4>4. refCount'[r] # -1
          BY <2>3, <3>2
        <4>5. QED
          BY <4>3, <4>4
      <3>3. QED
        BY <3>1, <3>2
    <2>9. r \in live'
      BY <1>4
    <2>10. QED
      BY <1>8, <2>2, <2>4, <2>8, <2>9 DEF RecordInv
  <1>10. ASSUME NEW q \in Records, q # r PROVE RecordInv(q)'
    <2>1. /\ stack[t] # <<>> => (Top(t).op \in CountOps => Top(t).r # q)
          /\ \A k \in DOMAIN frames : frames[k].op \in CountOps => frames[k].r # q
      BY <1>2, <1>10, FrameOps
    <2>2. /\ Places(Unlock(q))' = Places(Unlock(q))
          /\ Places(Cleanup(q))' = Places(Cleanup(q))
          /\ Places(Closed(q))' = Places(Closed(q))
      BY <1>1, <2>1, QuietPlaces
    <2>3. refCount'[q] = refCount[q]
      BY <1>1, <1>10
    <2>4. Places(Closed(q)) # {} \/ q \notin live => txQueue'[q] = <<>>
      BY <1>1 DEF RecordInv
    <2>5. QED
      BY <1>1, <1>8, <2>2, <2>3, <2>4, SameRecord
  <1>11. QED
    BY <1>5, <1>6, <1>7, <1>9, <1>10, IInvPartsNext

\* The thread that cleans a record up wakes its waiters and goes on.
LEMMA StartStep ==
  ASSUME IInv, TypeOK', NEW t \in Threads, NEW r \in Records,
         stack[t] # <<>>, Top(t) = Cleanup(r),
         NEW frames \in Seq(Frame), Goto(t, frames),
         NEW n \in DOMAIN frames, frames[n] = Closed(r),
         \A k \in DOMAIN frames : frames[k].op \in UseOps => k = n,
         txQueue' = [txQueue EXCEPT ![r] = <<>>],
         UNCHANGED <<table, live, addrOf, refCount>>
  PROVE  IInv'
  <1> DEFINE p == <<t, Len(Below(t)) + 1>>
             q == <<t, Len(Below(t)) + n>>
  <1>1. /\ stack \in [Threads -> Seq(Frame)]
        /\ TypeOK /\ TableLive /\ FramesLive /\ UsesAreHeld
        /\ \A s \in Records : RecordInv(s)
        /\ txQueue \in [Records -> Seq(Addrs)]
    BY IInvParts DEF TypeOK
  <1>2. \A k \in DOMAIN frames :
          frames[k] # Cleanup(r) /\ frames[k] # Unlock(r)
    BY FrameOps DEF UseOps
  <1>3. p \in Places(Cleanup(r)) /\ Places(Cleanup(r))' = Places(Cleanup(r)) \ {p}
    BY <1>1, <1>2, PlaceLeft
  <1>4. Places(Closed(r))' = Places(Closed(r)) \cup {q}
    <2>1. stack \in [Threads -> Seq(Frame)]
      BY <1>1
    <2>2. Top(t) # Closed(r)
      BY FrameOps
    <2>3. \A k \in DOMAIN frames : frames[k] = Closed(r) => k = n
      BY FrameOps DEF UseOps
    <2>4. QED
      BY <2>1, <2>2, <2>3, PlaceEntered
  <1>5. Places(Unlock(r))' = Places(Unlock(r))
    <2>1. Top(t) # Unlock(r)
      BY FrameOps
    <2>2. QED
      BY <1>1, <1>2, <2>1, PlacesSame
  <1>6. r \in live
    <2>1. Len(stack[t]) \in DOMAIN stack[t]
      BY <1>1
    <2>2. stack[t][Len(stack[t])] = Cleanup(r)
      BY DEF Top
    <2>3. Cleanup(r).op \in UseOps /\ Cleanup(r).r = r
      BY FrameOps DEF UseOps
    <2>4. QED
      BY <1>1, <2>1, <2>2, <2>3 DEF FramesLive
  <1>7. TableLive'
    BY <1>1 DEF TableLive
  <1>8. FramesLive'
    <2>1. \A k \in DOMAIN frames : frames[k].op \in UseOps => frames[k].r \in live'
      BY <1>6, FrameOps
    <2>2. QED
      BY <1>1, <2>1, FramesLiveNext
  <1>9. UsesAreHeld'
    <2>1. \A k \in DOMAIN frames : frames[k].op \notin {"token", "resume"}
      BY FrameOps DEF UseOps
    <2>2. QED
      BY <1>1, <2>1, UsesAreHeldNext
  <1>10. \A s : Linked(s)' <=> Linked(s)
    BY DEF Linked
  <1>11. RecordInv(r)'
    <2>1. p \in Cleaning(r) /\ \A u, v \in Cleaning(r) : u = v
      BY <1>1, <1>3 DEF RecordInv, Cleaning
    <2>2. Cleaning(r) = {p}
      BY <2>1
    <2>3. Cleaning(r)' = {q}
      <3>1. Places(Cleanup(r)) \ {p} = {} /\ Places(Closed(r)) \subseteq {p}
        BY <2>2 DEF Cleaning
      <3>2. Top(t) # Closed(r)
        BY FrameOps
      <3>3. p \notin Places(Closed(r))
        <4>1. stack[t][Len(Below(t)) + 1] = Top(t)
          BY <1>1, GotoFrames
        <4>2. QED
          BY <3>2, <4>1, PlacesIn
      <3>4. Places(Closed(r)) = {}
        BY <3>1, <3>3
      <3>5. QED
        BY <1>3, <1>4, <3>1, <3>4 DEF Cleaning
    <2>4. Refs(r)' = Refs(r)
      BY <1>5 DEF Refs
    <2>5. txQueue'[r] = <<>>
      BY <1>1
    <2>6. Cleaning(r) # {}
      BY <2>2
    <2>7. ~Linked(r) /\ refCount[r] = -1
      BY <1>1, <2>6 DEF RecordInv
    <2>8. /\ IsFiniteSet(Refs(r))
          /\ refCount[r] = Cardinality(Refs(r)) - (IF Linked(r) THEN 0 ELSE 1)
      BY <1>1, <1>6 DEF RecordInv
    <2>9. /\ IsFiniteSet(Refs(r)')
          /\ refCount'[r] = Cardinality(Refs(r)') - (IF Linked(r)' THEN 0 ELSE 1)
      BY <1>10, <2>4, <2>8
    <2>10. \A u, v \in Cleaning(r)' : u = v
      BY <2>3
    <2>11. Cleaning(r)' # {}
      BY <2>3
    <2>12. ~Linked(r)' /\ refCount'[r] = -1
      BY <1>10, <2>7
    <2>13. QED
      BY <2>5, <2>9, <2>10, <2>11, <2>12 DEF RecordInv
  <1>12. ASSUME NEW s \in Records, s # r PROVE RecordInv(s)'
    <2>1. /\ stack[t] # <<>> => (Top(t).op \in CountOps => Top(t).r # s)
          /\ \A k \in DOMAIN frames : frames[k].op \in CountOps => frames[k].r # s
      BY <1>12, FrameOps DEF UseOps, CountOps
    <2>2. /\ Places(Unlock(s))' = Places(Unlock(s))
          /\ Places(Cleanup(s))' = Places(Cleanup(s))
          /\ Places(Closed(s))' = Places(Closed(s))
      BY <1>1, <2>1, QuietPlaces
    <2>3. txQueue'[s] = txQueue[s]
      BY <1>1, <1>12
    <2>4. Places(Closed(s)) # {} \/ s \notin live => txQueue'[s] = <<>>
      BY <1>1, <2>3 DEF RecordInv
    <2>5. QED
      BY <1>1, <1>10, <2>2, <2>4, SameRecord
  <1>13. QED
    BY <1>7, <1>8, <1>9, <1>11, <1>12, IInvPartsNext

\* Only the thread that cleans it up still has the record it frees.
LEMMA FinishStep ==
  ASSUME IInv, TypeOK', NEW t \in Threads, NEW r \in Records,
         stack[t] # <<>>, Top(t) = Closed(r), Goto(t, <<>>),
         live' = live \ {r},
         refCount' = [refCount EXCEPT ![r] = 0],
         addrOf' = [addrOf EXCEPT ![r] = Null],
         UNCHANGED <<table, txQueue>>
  PROVE  IInv'
  <1> DEFINE p == <<t, Len(Below(t)) + 1>>
  <1>1. /\ stack \in [Threads -> Seq(Frame)]
        /\ TypeOK /\ TableLive /\ FramesLive /\ UsesAreHeld
        /\ \A s \in Records : RecordInv(s)
        /\ refCount \in [Records -> Int]
        /\ addrOf \in [Records -> Addrs \cup {Null}]
        /\ table \in [Addrs -> Records \cup {Null}]
    BY IInvParts DEF TypeOK
  <1>2. <<>> \in Seq(Frame) /\ \A k \in DOMAIN <<>> : FALSE
    OBVIOUS
  <1>3. p \in Places(Closed(r)) /\ Places(Closed(r))' = Places(Closed(r)) \ {p}
    BY <1>1, <1>2, PlaceLeft
  <1>4. /\ Places(Unlock(r))' = Places(Unlock(r))
        /\ Places(Cleanup(r))' = Places(Cleanup(r))
    <2>1. Top(t) # Unlock(r) /\ Top(t) # Cleanup(r)
      BY FrameOps
    <2>2. QED
      BY <1>1, <1>2, <2>1, PlacesSame
  <1>5. r \in live
    <2>1. Len(stack[t]) \in DOMAIN stack[t]
      BY <1>1
    <2>2. stack[t][Len(stack[t])] = Closed(r)
      BY DEF Top
    <2>3. Closed(r).op \in UseOps /\ Closed(r).r = r
      BY FrameOps DEF UseOps
    <2>4. QED
      BY <1>1, <2>1, <2>2, <2>3 DEF FramesLive
  <1>6. /\ ~Linked(r) /\ refCount[r] = -1 /\ Cleaning(r) = {p}
        /\ txQueue[r] = <<>>
    <2>1. p \in Cleaning(r) /\ Places(Closed(r)) # {}
      BY <1>3 DEF Cleaning
    <2>2. QED
      BY <1>1, <2>1, SMTT(30) DEF RecordInv
  <1>7. Refs(r) = {}
    <2>1. IsFiniteSet(Refs(r)) /\ Cardinality(Refs(r)) \in Nat
      BY <1>1, FS_CardinalityType DEF RecordInv
    <2>2. refCount[r] = Cardinality(Refs(r)) - 1
      BY <1>1, <1>5, <1>6 DEF RecordInv
    <2>3. Cardinality(Refs(r)) = 0
      BY <1>6, <2>1, <2>2
    <2>4. QED
      BY <2>1, <2>3, FS_EmptySet
  <1>8. \A s \in Records : s # r => /\ refCount'[s] = refCount[s]
                                    /\ addrOf'[s] = addrOf[s]
                                    /\ (s \in live' <=> s \in live)
    BY <1>1
  <1>9. TableLive'
    <2>1. SUFFICES ASSUME NEW a \in Addrs, table[a] # Null
                   PROVE  table[a] \in live' /\ addrOf'[table[a]] = a
      BY DEF TableLive
    <2>2. table[a] # r /\ table[a] \in Records
      BY <1>1, <1>6, <2>1 DEF Linked
    <2>3. QED
      BY <1>1, <1>8, <2>1, <2>2 DEF TableLive
  <1>10. FramesLive'
    <2>1. SUFFICES ASSUME NEW u \in Threads, NEW i \in DOMAIN stack'[u],
                          stack'[u][i].op \in UseOps
                   PROVE  stack'[u][i].r \in live'
      BY DEF FramesLive
    <2>2. /\ i \in DOMAIN stack[u] /\ stack'[u][i] = stack[u][i]
          /\ <<u, i>> # p
      <3>1. CASE u = t
        <4>1. i \in 1..Len(Below(t))
          <5>1. DOMAIN stack'[t] = 1..(Len(Below(t)) + Len(<<>>)) /\ Len(Below(t)) \in Nat
            BY <1>1, <1>2, GotoFrames
          <5>2. QED
            BY <3>1, <5>1
        <4>2. i # Len(Below(t)) + 1
          BY <1>1, <1>2, <4>1, GotoFrames
        <4>3. QED
          BY <1>1, <1>2, <3>1, <4>1, <4>2, GotoFrames
      <3>2. CASE u # t
        BY <1>1, <1>2, <3>2, GotoFrames
      <3>3. QED
        BY <3>1, <3>2
    <2> DEFINE f == stack[u][i]
    <2>3. f.op \in UseOps /\ f.r \in live
      BY <1>1, <2>1, <2>2 DEF FramesLive
    <2>4. SUFFICES ASSUME f.r = r PROVE FALSE
      BY <2>2, <2>3
    <2>5. CASE f.op = "unlock"
      <3>1. f = Unlock(r)
        BY <1>1, <2>2, <2>4, <2>5 DEF Frame, Unlock
      <3>2. QED
        BY <1>7, <2>2, <3>1, PlacesIn DEF Refs
    <2>6. CASE f.op \in {"cleanup", "closed"}
      <3>1. f = Cleanup(r) \/ f = Closed(r)
        <4>1. f \in Frame
          BY <1>1, <2>2
        <4>2. f \in [op : {"unlock", "resume", "cleanup", "closed"}, r : Records]
          BY <2>6, <4>1 DEF Frame
        <4>3. f = [op |-> f.op, r |-> f.r]
          BY <4>2
        <4>4. QED
          BY <2>4, <2>6, <4>3 DEF Cleanup, Closed
      <3>2. <<u, i>> \in Cleaning(r)
        BY <2>2, <3>1, PlacesIn DEF Cleaning
      <3>3. QED
        BY <1>6, <2>2, <3>2
    <2>7. CASE f.op \in {"token", "resume"}
      <3>1. i > 1 /\ stack[u][i - 1] = Unlock(r)
        BY <1>1, <2>2, <2>4, <2>7 DEF UsesAreHeld, Unlock
      <3>2. i - 1 \in DOMAIN stack[u]
        BY <1>1, <2>2, <3>1
      <3>3. <<u, i - 1>> \in Refs(r)
        BY <3>1, <3>2, PlacesIn DEF Refs
      <3>4. QED
        BY <1>7, <3>3
    <2>8. QED
      BY <2>3, <2>5, <2>6, <2>7 DEF UseOps
  <1>11. UsesAreHeld'
    BY <1>1, <1>2, UsesAreHeldNext
  <1>12. RecordInv(r)'
    <2>1. Refs(r)' = {} /\ Cleaning(r)' = {}
      BY <1>3, <1>4, <1>6, <1>7 DEF Refs, Cleaning
    <2>2. IsFiniteSet(Refs(r)')
      BY <2>1, FS_EmptySet
    <2>3. r \notin live' /\ txQueue'[r] = <<>>
      BY <1>6
    <2>4. QED
      BY <2>1, <2>2, <2>3 DEF RecordInv
  <1>13. ASSUME NEW s \in Records, s # r PROVE RecordInv(s)'
    <2>1. Top(t).r # s
      BY <1>13, FrameOps
    <2>2. /\ Places(Unlock(s))' = Places(Unlock(s))
          /\ Places(Cleanup(s))' = Places(Cleanup(s))
          /\ Places(Closed(s))' = Places(Closed(s))
      BY <1>1, <1>2, <2>1, QuietPlaces
    <2>3. Linked(s)' <=> Linked(s)
      BY DEF Linked
    <2>4. Places(Closed(s)) # {} \/ s \notin live => txQueue'[s] = <<>>
      BY <1>1 DEF RecordInv
    <2>5. QED
      BY <1>1, <1>8, <1>13, <2>2, <2>3, <2>4, SameRecord
  <1>14. QED
    BY <1>9, <1>10, <1>11, <1>12, <1>13, IInvPartsNext

\* Frames that use no record, and at most one frame that uses r.
Quiet(frames) == frames \in Seq(Frame) /\ \A k \in DOMAIN frames : frames[k].op \notin UseOps

UsesOnly(frames, r) ==
  /\ frames \in Seq(Frame) /\ Len(frames) \in {0, 1}
  /\ \A k \in DOMAIN frames : frames[k].op \in {"token", "resume"} /\ frames[k].r = r

\* No frames use no record.
LEMMA NoFrames == Quiet(<<>>) /\ \A r : UsesOnly(<<>>, r)
  BY DEF Quiet, UsesOnly

\* ipc_router_find_client, with the frames that follow it.
LEMMA FindStep ==
  ASSUME IInv, TypeOK', NEW t \in Threads, NEW a \in Addrs,
         NEW lost, Quiet(lost),
         NEW found, table[a] # Null => UsesOnly(found, table[a]),
         stack[t] # <<>> => Top(t).op \notin CountOps,
         Find(t, a, lost, found)
  PROVE  IInv'
  <1>1. \A r \in Records : Places(Closed(r)) # {} \/ r \notin live => txQueue[r] = <<>>
    BY DEF IInv, NoWaiterStranded
  <1>2. UNCHANGED <<table, live, addrOf, txQueue>>
    BY DEF Find, client, flow
  <1>l. lost \in Seq(Frame) /\ \A k \in DOMAIN lost : lost[k].op \notin UseOps
    BY DEF Quiet
  <1>3. CASE table[a] = Null
    <2>1. Goto(t, lost) /\ UNCHANGED refCount
      BY <1>3 DEF Find
    <2>2. QED
      BY <1>1, <1>2, <1>l, <2>1, QuietStep
  <1>4. CASE table[a] # Null
    <2>1. PICK r \in Records : r = table[a]
      BY <1>4 DEF IInv, TypeOK
    <2> DEFINE frames == lost \o <<Unlock(r)>> \o found
               n == Len(lost) + 1
    <2>2. /\ found \in Seq(Frame) /\ Len(found) \in {0, 1}
          /\ \A k \in DOMAIN found : found[k].op \in {"token", "resume"} /\ found[k].r = r
      BY <1>4, <2>1 DEF UsesOnly
    <2>3. Unlock(r) \in Frame
      BY FrameTypes
    <2>4. /\ frames \in Seq(Frame)
          /\ n \in DOMAIN frames /\ frames[n] = Unlock(r)
          /\ \A k \in DOMAIN frames :
               \/ k \in DOMAIN lost /\ frames[k] = lost[k]
               \/ k = n
               \/ k = n + 1 /\ 1 \in DOMAIN found /\ frames[k] = found[1]
      <3>1. lost \o <<Unlock(r)>> \in Seq(Frame)
            /\ Len(lost \o <<Unlock(r)>>) = n
            /\ (lost \o <<Unlock(r)>>)[n] = Unlock(r)
            /\ \A k \in DOMAIN lost : (lost \o <<Unlock(r)>>)[k] = lost[k]
        BY <1>l, <2>3
      <3> DEFINE first == lost \o <<Unlock(r)>>
      <3>2. first \in Seq(Frame) /\ Len(first) = n /\ first[n] = Unlock(r)
            /\ \A k \in DOMAIN lost : first[k] = lost[k]
        BY <3>1
      <3>3. Len(lost) \in Nat /\ DOMAIN lost = 1..Len(lost)
        BY <1>l
      <3> HIDE DEF first
      <3>4. /\ first \o found \in Seq(Frame)
            /\ DOMAIN (first \o found) = 1..(n + Len(found))
            /\ \A k \in 1..n : (first \o found)[k] = first[k]
            /\ Len(found) = 1 => (first \o found)[n + 1] = found[1]
        BY <2>2, <3>2, <3>3
      <3>5. ASSUME NEW k \in 1..(n + Len(found))
            PROVE  \/ k \in DOMAIN lost /\ (first \o found)[k] = lost[k]
                   \/ k = n
                   \/ /\ k = n + 1 /\ 1 \in DOMAIN found
                      /\ (first \o found)[k] = found[1]
        <4>1. CASE k \in 1..Len(lost)
          BY <3>2, <3>3, <3>4, <4>1
        <4>2. CASE k = n
          BY <4>2
        <4>3. CASE k = n + 1 /\ Len(found) = 1
          BY <2>2, <3>4, <4>3
        <4>4. \/ k \in 1..Len(lost)
              \/ k = Len(lost) + 1
              \/ k = Len(lost) + 2 /\ Len(found) = 1
          <5> DEFINE i == Len(lost)
                     j == Len(found)
          <5>1. i \in Nat /\ j \in {0, 1} /\ k \in 1..((i + 1) + j)
            BY <2>2, <3>3
          <5> HIDE DEF i, j
          <5>2. k \in 1..i \/ k = i + 1 \/ (k = i + 2 /\ j = 1)
            BY <5>1
          <5>3. QED
            BY <5>2 DEF i, j
        <4>5. Len(lost) + 2 = n + 1
          BY <3>3
        <4>6. QED
          BY <4>1, <4>2, <4>3, <4>4, <4>5
      <3>6. n \in 1..(n + Len(found)) /\ n \in 1..n
        BY <2>2, <3>3
      <3>7. QED
        BY <3>2, <3>4, <3>5, <3>6 DEF first
    <2>5. Goto(t, frames) /\ refCount' = [refCount EXCEPT ![r] = @ + 1]
      BY <1>4, <2>1 DEF Find
    <2>6. \A k \in DOMAIN frames : frames[k].op \in UseOps =>
            \/ k = n
            \/ k = n + 1 /\ frames[k].op \in {"token", "resume"} /\ frames[k].r = r
      <3> HIDE DEF frames, n
      <3> QED
        BY <1>l, <2>2, <2>4
    <2>7. Linked(r)
      BY <2>1 DEF Linked
    <2>8. Holds(frames, r)
      <3> HIDE DEF frames, n
      <3> QED
        BY <2>4, <2>6 DEF Holds
    <2>9. frames \in Seq(Frame)
      BY <2>4
    <2>10. QED
      <3> HIDE DEF frames
      <3> QED
        BY <1>2, <2>5, <2>7, <2>8, <2>9, HoldStep
  <1>5. QED
    BY <1>3, <1>4

\* A step that does not touch what the invariant is about.
LEMMA IdleStep ==
  ASSUME IInv, TypeOK', UNCHANGED <<table, live, addrOf, refCount, txQueue, stack>>
  PROVE  IInv'
  <1>1. \A f : Places(f)' = Places(f)
    BY DEF Places
  <1>2. \A r : Refs(r)' = Refs(r) /\ Cleaning(r)' = Cleaning(r)
    BY <1>1 DEF Refs, Cleaning
  <1>3. \A r : Linked(r)' <=> Linked(r)
    BY DEF Linked
  <1>4. TableLive' /\ FramesLive' /\ UsesAreHeld'
    BY IInvParts DEF TableLive, FramesLive, UsesAreHeld
  <1>5. ASSUME NEW r \in Records PROVE RecordInv(r)'
    BY <1>1, <1>3, IInvParts, SameRecord DEF RecordInv
  <1>6. QED
    BY <1>4, <1>5, IInvPartsNext

\* ipc_router_register_client_ext, with a reference or without.
LEMMA RegisterStep ==
  ASSUME IInv, TypeOK', NEW t \in Threads, NEW a \in Addrs, NEW x, Idle(t),
         \/ \E r \in Records : Register(a, x, r) /\ Goto(t, <<Unlock(r)>>)
         \/ RegisterNoMem(a, x)
  PROVE  IInv'
  <1>1. ASSUME NEW r \in Records, RegisterOld(a, x, r), Goto(t, <<Unlock(r)>>)
        PROVE  IInv'
    <2> DEFINE frames == <<Unlock(r)>>
    <2>1. frames \in Seq(Frame)
      BY FrameTypes
    <2>2. Holds(frames, r)
      BY DEF Holds
    <2>3. Linked(r)
      BY <1>1 DEF RegisterOld, Linked
    <2>4. /\ refCount' = [refCount EXCEPT ![r] = @ + 1]
          /\ UNCHANGED <<table, live, addrOf, txQueue>>
      BY <1>1 DEF RegisterOld, flow
    <2>5. Goto(t, frames)
      BY <1>1
    <2>6. stack[t] = <<>>
      BY DEF Idle
    <2> HIDE DEF frames
    <2>7. QED
      BY <2>1, <2>2, <2>3, <2>4, <2>5, <2>6, HoldStep
  <1>2. ASSUME NEW r \in Records, RegisterNew(a, x, r), Goto(t, <<Unlock(r)>>)
        PROVE  IInv'
    BY <1>2, NewStep DEF Idle
  <1>3. ASSUME RegisterNoMem(a, x) PROVE IInv'
    BY <1>3, IdleStep DEF RegisterNoMem, client, flow
  <1>4. QED
    BY <1>1, <1>2, <1>3 DEF Register

\* A call into the router keeps the invariant.
LEMMA CallInv ==
  ASSUME IInv, NEW t \in Threads, Call(t)
  PROVE  IInv'
  <1>0. TypeOK'
    BY CallType DEF IInv
  <1>q. \A r \in Records : Places(Closed(r)) # {} \/ r \notin live => txQueue[r] = <<>>
    BY DEF IInv, NoWaiterStranded
  <1>1. ASSUME NEW a \in Addrs, Open(t, a) PROVE IInv'
    BY <1>0, <1>1, RegisterStep DEF Open
  <1>2. ASSUME NEW x \in Xports, NEW a \in Addrs, Learn(t, x, a) PROVE IInv'
    BY <1>0, <1>2, RegisterStep DEF Learn
  <1>3. ASSUME NEW a \in Addrs, Confirm(t, a) PROVE IInv'
    <2> DEFINE found == <<Resume(table[a])>>
    <2>1. table[a] \in Records
      BY <1>3 DEF IInv, TypeOK, Confirm
    <2>2. Resume(table[a]) \in Frame
      BY <2>1, FrameTypes
    <2>3. UsesOnly(found, table[a])
      BY <2>2, FrameOps DEF UsesOnly
    <2>4. Find(t, a, <<>>, found) /\ stack[t] = <<>>
      BY <1>3 DEF Confirm, Idle
    <2> HIDE DEF found
    <2>5. QED
      BY <1>0, <2>3, <2>4, NoFrames, FindStep
  <1>4. ASSUME NEW a \in Addrs, Close(t, a) PROVE IInv'
    <2> DEFINE lost == <<Unregister(a)>>
    <2>1. Unregister(a) \in Frame
      BY FrameTypes
    <2>2. Quiet(lost)
      BY <2>1, FrameOps DEF Quiet, UseOps
    <2>3. Find(t, a, lost, <<>>) /\ stack[t] = <<>>
      BY <1>4 DEF Close, Idle
    <2> HIDE DEF lost
    <2>4. QED
      BY <1>0, <2>2, <2>3, NoFrames, FindStep
  <1>5. ASSUME NEW src \in Addrs, NEW dst \in Addrs, Send(t, src, dst) PROVE IInv'
    <2> DEFINE found == <<Token(src, table[dst])>>
    <2>1. table[dst] # Null => Token(src, table[dst]) \in Frame
      BY FrameTypes DEF IInv, TypeOK
    <2>2. table[dst] # Null => UsesOnly(found, table[dst])
      BY <2>1, FrameOps DEF UsesOnly
    <2>3. Find(t, dst, <<>>, found) /\ stack[t] = <<>>
      BY <1>5 DEF Send, Idle
    <2> HIDE DEF found
    <2>4. QED
      BY <1>0, <2>2, <2>3, NoFrames, FindStep
  <1>6. ASSUME NEW x \in Xports, XportDown(t, x) PROVE IInv'
    <2> DEFINE s == {a \in Addrs : table[a] # Null /\ xportOf[table[a]] = x}
               frames == <<Down(x, s)>>
    <2>1. frames \in Seq(Frame)
      BY FrameTypes
    <2>2. \A k \in DOMAIN frames : frames[k].op \notin UseOps
      BY FrameOps DEF UseOps
    <2>3. Goto(t, frames) /\ stack[t] = <<>>
          /\ UNCHANGED <<table, live, addrOf, refCount, txQueue>>
      BY <1>6 DEF XportDown, Idle, client, flow
    <2> HIDE DEF frames
    <2>4. QED
      BY <1>0, <1>q, <2>1, <2>2, <2>3, QuietStep
  <1>7. QED
    BY <1>1, <1>2, <1>3, <1>4, <1>5, <1>6 DEF Call

\* A stack without new frames stays as it is.
LEMMA NothingAdded == \A s \in Seq(Frame) : s \o <<>> = s
  BY ConcatEmptySeq

\* Frames one by one make a sequence of frames.
LEMMA TwoFrames ==
  ASSUME NEW f \in Frame, NEW g \in Frame
  PROVE  /\ <<f>> \o <<g>> = <<f, g>> /\ <<f>> \o <<>> = <<f>>
         /\ <<f, g>> \in Seq(Frame) /\ <<f>> \in Seq(Frame)
  <1>1. <<f, g>> \in Seq(Frame) /\ <<f>> \in Seq(Frame) /\ <<g>> \in Seq(Frame)
    OBVIOUS
  <1>2. <<f>> \o <<>> = <<f>>
    <2> DEFINE s == <<f>>
    <2>1. s \in Seq(Frame)
      BY <1>1
    <2> HIDE DEF s
    <2>2. s \o <<>> = s
      BY <2>1, NothingAdded
    <2>3. QED
      BY <2>2 DEF s
  <1>3. <<f>> \o <<g>> = <<f, g>>
    <2> DEFINE s == <<f>>
               u == <<g>>
               v == <<f, g>>
    <2>1. /\ s \in Seq(Frame) /\ Len(s) = 1 /\ s[1] = f
          /\ u \in Seq(Frame) /\ Len(u) = 1 /\ u[1] = g
          /\ v \in Seq(Frame) /\ Len(v) = 2 /\ v[1] = f /\ v[2] = g
      BY <1>1
    <2> HIDE DEF s, u, v
    <2>2. /\ s \o u \in Seq(Frame) /\ Len(s \o u) = 2
          /\ (s \o u)[1] = f /\ (s \o u)[2] = g
      <3>1. /\ s \o u \in Seq(Frame) /\ Len(s \o u) = Len(s) + Len(u)
            /\ \A i \in 1..(Len(s) + Len(u)) :
                 (s \o u)[i] = IF i <= Len(s) THEN s[i] ELSE u[i - Len(s)]
        BY <2>1, ConcatProperties
      <3>2. (s \o u)[1] = s[1]
        BY <2>1, <3>1
      <3>3. (s \o u)[2] = u[1]
        BY <2>1, <3>1
      <3>4. QED
        BY <2>1, <3>1, <3>2, <3>3
    <2>3. \A i \in 1..Len(s \o u) : (s \o u)[i] = v[i]
      BY <2>1, <2>2
    <2>4. s \o u = v
      BY <2>1, <2>2, <2>3, SeqEqual
    <2>5. QED
      BY <2>4 DEF s, u, v
  <1>4. QED
    BY <1>1, <1>2, <1>3

\* A step of a thread inside the router keeps the invariant.
LEMMA RunInv ==
  ASSUME IInv, NEW t \in Threads, Run(t)
  PROVE  IInv'
  <1>0. TypeOK'
    BY RunType DEF IInv
  <1>1. \A r \in Records : Places(Closed(r)) # {} \/ r \notin live => txQueue[r] = <<>>
    BY DEF IInv, NoWaiterStranded
  <1>2. stack[t] # <<>>
    BY DEF Run, At, GetToken, ResumeTx, UnlockClient, StartCleanup,
           FinishCleanup, NotifyWaiter, UnregisterClient, ListLocal, NotifyEach,
           DownClient, ListProcs, LockProc, RemoveProcClient, RemoveProc, EndLoop
  <1> DEFINE f == Top(t)
             Last == Len(stack[t])
  <1>3. /\ TypeOK /\ FramesLive /\ UsesAreHeld /\ \A r \in Records : RecordInv(r)
        /\ txQueue \in [Records -> Seq(Addrs)] /\ stack \in [Threads -> Seq(Frame)]
    BY IInvParts DEF TypeOK
  <1>4. /\ f \in Frame
        /\ f.op \in {"unlock", "token", "resume", "cleanup", "closed"}
             => f.r \in Records
        /\ f.op \in {"token", "unregister", "event"} => f.a \in Addrs
        /\ f.op = "notify" => f.q \in Seq(Addrs)
        /\ f.op \in {"each", "down"} => f.s \in SUBSET Addrs
        /\ f.op = "delprocs" => f.s \in SUBSET Procs
        /\ f.op = "down" => f.x \in Xports
        /\ f.op = "delproc" => f.p \in Procs
    BY <1>2, <1>3, TopType
  <1>5. Last \in DOMAIN stack[t] /\ stack[t][Last] = f
    BY <1>2, <1>3 DEF Top
  <1>6. /\ f.op = "unlock" => f = Unlock(f.r)
        /\ f.op = "cleanup" => f = Cleanup(f.r)
        /\ f.op = "closed" => f = Closed(f.r)
    BY <1>4 DEF Frame, Unlock, Cleanup, Closed
  <1>7. f.op \in {"token", "resume"} => f.r \in live /\ Places(Closed(f.r)) = {}
    <2>1. SUFFICES ASSUME f.op \in {"token", "resume"}
                   PROVE  f.r \in live /\ Places(Closed(f.r)) = {}
      OBVIOUS
    <2>2. f.r \in Records
      BY <1>4, <2>1
    <2>3. f.r \in live
      BY <1>3, <1>5, <2>1 DEF FramesLive, UseOps
    <2>4. Last > 1 /\ stack[t][Last - 1] = Unlock(f.r)
      BY <1>3, <1>5, <2>1 DEF UsesAreHeld
    <2>5. Last - 1 \in DOMAIN stack[t]
      BY <1>3, <1>5, <2>4
    <2>6. Refs(f.r) # {}
      BY <2>4, <2>5, PlacesIn, ZenonT(60) DEF Refs
    <2>7. IsFiniteSet(Refs(f.r)) /\ Cardinality(Refs(f.r)) \in Nat
      BY <1>3, <2>2, FS_CardinalityType DEF RecordInv
    <2>8. Cardinality(Refs(f.r)) # 0
      BY <2>6, <2>7, FS_EmptySet
    <2>9. Cleaning(f.r) = {}
      <3>1. CASE Linked(f.r)
        BY <1>3, <2>2, <3>1 DEF RecordInv
      <3>2. CASE ~Linked(f.r)
        <4>1. refCount[f.r] = Cardinality(Refs(f.r)) - 1
          BY <1>3, <2>2, <2>3, <3>2 DEF RecordInv
        <4>2. refCount[f.r] # -1
          BY <2>7, <2>8, <4>1
        <4>3. QED
          BY <1>3, <2>2, <4>2 DEF RecordInv
      <3>3. QED
        BY <3>1, <3>2
    <2>10. QED
      BY <2>3, <2>9 DEF Cleaning
  \* Steps that only move on, and those that change what no frame counts for.
  <1>8. ASSUME NEW frames, Quiet(frames), Goto(t, frames), f.op \notin CountOps,
               UNCHANGED <<table, live, addrOf, refCount>>,
               \A r \in Records :
                 Places(Closed(r)) # {} \/ r \notin live => txQueue'[r] = <<>>
        PROVE  IInv'
    BY <1>0, <1>8, QuietStep DEF Quiet
  <1>9. CASE GetToken(t)
    <2>1. f.op = "token" /\ f.r \in Records
      BY <1>4, <1>9 DEF GetToken, At
    <2>2. \A r \in Records : r # f.r => txQueue'[r] = txQueue[r]
      BY <1>3, <1>9 DEF GetToken, flow
    <2>3. \A r \in Records :
            Places(Closed(r)) # {} \/ r \notin live => txQueue'[r] = <<>>
      BY <1>1, <1>7, <2>1, <2>2
    <2>4. Goto(t, <<>>) /\ UNCHANGED <<table, live, addrOf, refCount>>
      BY <1>9 DEF GetToken, client
    <2>5. QED
      BY <1>8, <2>1, <2>3, <2>4, NoFrames DEF CountOps
  <1>10. CASE ResumeTx(t)
    <2>1. f.op = "resume" /\ f.r \in Records
      BY <1>4, <1>10 DEF ResumeTx, At
    <2> DEFINE frames == <<>> \o <<Notify(txQueue[f.r])>>
    <2>2. Notify(txQueue[f.r]) \in Frame
      BY <1>3, <2>1, FrameTypes
    <2>3. frames = <<Notify(txQueue[f.r])>>
      BY <2>2
    <2>4. Quiet(frames)
      BY <2>2, <2>3, FrameOps DEF Quiet, UseOps
    <2>5. /\ Goto(t, frames)
          /\ UNCHANGED <<table, live, addrOf, refCount>>
          /\ txQueue' = [txQueue EXCEPT ![f.r] = <<>>]
      BY <1>10 DEF ResumeTx, TakeWaiters, client
    <2>6. \A r \in Records :
            Places(Closed(r)) # {} \/ r \notin live => txQueue'[r] = <<>>
      BY <1>1, <1>3, <2>1, <2>5
    <2> HIDE DEF frames
    <2>7. QED
      BY <1>8, <2>1, <2>4, <2>5, <2>6 DEF CountOps
  <1>11. CASE UnlockClient(t)
    <2>1. f.op = "unlock" /\ f.r \in Records
      BY <1>4, <1>11 DEF UnlockClient, At
    <2> DEFINE frames == CleanupIf(refCount[f.r] = 0, f.r)
    <2>2. frames \in Seq(Frame)
      BY <2>1, CleanupIfType
    <2>3. frames = IF refCount[f.r] = 0 THEN <<Cleanup(f.r)>> ELSE <<>>
      BY DEF CleanupIf
    <2>4. /\ refCount' = [refCount EXCEPT ![f.r] = @ - 1]
          /\ Goto(t, frames)
          /\ UNCHANGED <<table, live, addrOf, txQueue>>
      BY <1>11 DEF UnlockClient, client, flow
    <2>5. f = Unlock(f.r)
      BY <1>6, <2>1
    <2> HIDE DEF frames
    <2>6. PICK r \in Records : r = f.r
      BY <2>1
    <2>7. QED
      BY <1>0, <1>2, <2>2, <2>3, <2>4, <2>5, <2>6, UnlockStep
  <1>12. CASE StartCleanup(t)
    <2>1. f.op = "cleanup" /\ f.r \in Records
      BY <1>4, <1>12 DEF StartCleanup, At
    <2>2. PICK r \in Records : r = f.r
      BY <2>1
    <2> DEFINE g == Notify(txQueue[r])
               frames == <<Closed(r)>> \o <<g>>
    <2>3. g \in Frame /\ Closed(r) \in Frame /\ g.op = "notify"
      BY <1>3, FrameTypes, FrameOps
    <2> HIDE DEF g
    <2>4. frames = <<Closed(r), g>>
      BY <2>3, TwoFrames
    <2>5. frames \in Seq(Frame)
      BY <2>3, <2>4, TwoFrames
    <2>6. frames[1] = Closed(r) /\ 1 \in DOMAIN frames
          /\ \A k \in DOMAIN frames : frames[k].op \in UseOps => k = 1
      BY <2>3, <2>4 DEF UseOps
    <2>7. /\ Goto(t, frames)
          /\ txQueue' = [txQueue EXCEPT ![r] = <<>>]
          /\ UNCHANGED <<table, live, addrOf, refCount>>
      BY <1>12, <2>2 DEF StartCleanup, TakeWaiters, client, g
    <2>8. f = Cleanup(r)
      BY <1>6, <2>1, <2>2
    <2> HIDE DEF frames
    <2>9. QED
      BY <1>0, <1>2, <2>5, <2>6, <2>7, <2>8, StartStep
  <1>13. CASE FinishCleanup(t)
    <2>1. f.op = "closed" /\ f.r \in Records
      BY <1>4, <1>13 DEF FinishCleanup, At
    <2>2. PICK r \in Records : r = f.r
      BY <2>1
    <2>3. /\ live' = live \ {r}
          /\ refCount' = [refCount EXCEPT ![r] = 0]
          /\ addrOf' = [addrOf EXCEPT ![r] = Null]
          /\ Goto(t, <<>>)
          /\ UNCHANGED <<table, txQueue>>
      BY <1>13, <2>2 DEF FinishCleanup
    <2>4. f = Closed(r)
      BY <1>6, <2>1, <2>2
    <2>5. QED
      BY <1>0, <1>2, <2>3, <2>4, FinishStep
  <1>14. CASE NotifyWaiter(t)
    <2>1. f.op = "notify" /\ f.q \in Seq(Addrs) /\ f.q # <<>>
      BY <1>4, <1>14 DEF NotifyWaiter, At
    <2> DEFINE lost == <<Notify(Tail(f.q))>>
    <2>2. Head(f.q) \in Addrs /\ Tail(f.q) \in Seq(Addrs)
      BY <2>1
    <2>3. Notify(Tail(f.q)) \in Frame
      BY <2>2, FrameTypes
    <2>4. Quiet(lost)
      BY <2>3, FrameOps DEF Quiet, UseOps
    <2>5. Find(t, Head(f.q), lost, <<>>)
      BY <1>14 DEF NotifyWaiter
    <2> HIDE DEF lost
    <2>6. QED
      BY <1>0, <2>1, <2>2, <2>4, <2>5, NoFrames, FindStep DEF CountOps
  <1>15. CASE UnregisterClient(t)
    <2>1. f.op = "unregister" /\ f.a \in Addrs
      BY <1>4, <1>15 DEF UnregisterClient, At
    <2> DEFINE g == Event(f.a)
    <2>2. g \in Frame /\ g.op = "event"
      BY <2>1, FrameTypes, FrameOps
    <2>3. UNCHANGED <<live, addrOf, txQueue>>
      BY <1>15 DEF UnregisterClient, client, flow
    <2>4. CASE table[f.a] = Null
      <3> DEFINE frames == <<g>>
      <3>1. Quiet(frames)
        <4> HIDE DEF g
        <4> QED
          BY <2>2 DEF Quiet, UseOps
      <3>2. Goto(t, frames) /\ UNCHANGED <<table, refCount>>
        BY <1>15, <2>4 DEF UnregisterClient
      <3> HIDE DEF frames
      <3>3. QED
        BY <1>1, <1>8, <2>1, <2>3, <3>1, <3>2 DEF CountOps
    <2>5. CASE table[f.a] # Null
      <3>1. PICK r \in Records : r = table[f.a]
        BY <1>3, <2>1, <2>5 DEF TypeOK
      <3>2. Linked(r)
        BY <2>1, <3>1 DEF Linked
      <3> DEFINE frames == <<g>> \o CleanupIf(refCount[r] = 0, r)
      <3>3. Remove(r) /\ Goto(t, frames)
        BY <1>15, <2>5, <3>1 DEF UnregisterClient
      <3>4. /\ frames = IF refCount[r] = 0 THEN <<g, Cleanup(r)>> ELSE <<g>>
            /\ frames \in Seq(Frame)
        <4> HIDE DEF g
        <4>1. Cleanup(r) \in Frame
          BY FrameTypes
        <4>2. CASE refCount[r] = 0
          BY <2>2, <4>1, <4>2, TwoFrames DEF CleanupIf
        <4>3. CASE refCount[r] # 0
          BY <2>2, <4>3, TwoFrames DEF CleanupIf
        <4>4. QED
          BY <4>2, <4>3
      <3>5. g.op \notin UseOps /\ f.op \notin CountOps
        BY <2>1, <2>2 DEF UseOps, CountOps
      <3> HIDE DEF frames, g
      <3>6. QED
        BY <1>0, <2>2, <2>3, <3>2, <3>3, <3>4, <3>5, RemoveStep
    <2>6. QED
      BY <2>4, <2>5
  <1>16. CASE ListLocal(t)
    <2> DEFINE s == {a \in Local \ {f.a} : table[a] # Null}
               frames == <<Each(s)>>
    <2>1. Each(s) \in Frame
      BY FrameTypes DEF Local
    <2>2. Quiet(frames)
      BY <2>1, FrameOps DEF Quiet, UseOps
    <2>3. Goto(t, frames) /\ UNCHANGED <<table, live, addrOf, refCount, txQueue>>
      BY <1>16 DEF ListLocal, client, flow
    <2>4. f.op = "event"
      BY <1>16 DEF ListLocal, At
    <2> HIDE DEF frames
    <2>5. QED
      BY <1>1, <1>8, <2>2, <2>3, <2>4 DEF CountOps
  <1>17. CASE NotifyEach(t)
    <2>1. f.op = "each" /\ f.s \in SUBSET Addrs
      BY <1>4, <1>17 DEF NotifyEach, At
    <2>2. PICK a \in f.s : Find(t, a, <<Each(f.s \ {a})>>, <<>>)
      BY <1>17 DEF NotifyEach
    <2> DEFINE lost == <<Each(f.s \ {a})>>
    <2>3. a \in Addrs /\ Each(f.s \ {a}) \in Frame
      BY <2>1, FrameTypes
    <2>4. Quiet(lost)
      BY <2>3, FrameOps DEF Quiet, UseOps
    <2>5. Find(t, a, lost, <<>>)
      BY <2>2
    <2> HIDE DEF lost
    <2>6. QED
      BY <1>0, <2>1, <2>3, <2>4, <2>5, NoFrames, FindStep DEF CountOps
  <1>18. CASE DownClient(t)
    <2>1. f.op = "down" /\ f.s \in SUBSET Addrs /\ f.x \in Xports
      BY <1>4, <1>18 DEF DownClient, At
    <2>2. PICK a \in f.s :
            Find(t, a, <<Down(f.x, f.s \ {a}), Unregister(a)>>, <<>>)
      BY <1>18 DEF DownClient
    <2> DEFINE lost == <<Down(f.x, f.s \ {a}), Unregister(a)>>
    <2>3. a \in Addrs /\ Down(f.x, f.s \ {a}) \in Frame /\ Unregister(a) \in Frame
      BY <2>1, FrameTypes
    <2>4. Quiet(lost)
      BY <2>3, FrameOps DEF Quiet, UseOps
    <2>5. Find(t, a, lost, <<>>)
      BY <2>2
    <2> HIDE DEF lost
    <2>6. QED
      BY <1>0, <2>1, <2>3, <2>4, <2>5, NoFrames, FindStep DEF CountOps
  <1>19. CASE ListProcs(t)
    <2> DEFINE s == {p \in known : route[p] = f.x}
               frames == <<DelProcs(s)>>
    <2>1. DelProcs(s) \in Frame
      BY <1>3, FrameTypes DEF TypeOK
    <2>2. Quiet(frames)
      BY <2>1, FrameOps DEF Quiet, UseOps
    <2>3. Goto(t, frames) /\ UNCHANGED <<table, live, addrOf, refCount, txQueue>>
      BY <1>19 DEF ListProcs, client, flow
    <2>4. f.op = "down"
      BY <1>19 DEF ListProcs, At
    <2> HIDE DEF frames
    <2>5. QED
      BY <1>1, <1>8, <2>2, <2>3, <2>4 DEF CountOps
  <1>20. CASE LockProc(t)
    <2>1. f.op = "delprocs" /\ f.s \in SUBSET Procs
      BY <1>4, <1>20 DEF LockProc, At
    <2>2. PICK p \in f.s : Goto(t, <<DelProcs(f.s \ {p}), DelProc(p)>>)
      BY <1>20 DEF LockProc
    <2> DEFINE frames == <<DelProcs(f.s \ {p}), DelProc(p)>>
    <2>3. DelProcs(f.s \ {p}) \in Frame /\ DelProc(p) \in Frame
      BY <2>1, FrameTypes
    <2>4. Quiet(frames)
      BY <2>3, FrameOps DEF Quiet, UseOps
    <2>5. Goto(t, frames) /\ UNCHANGED <<table, live, addrOf, refCount, txQueue>>
      BY <1>20, <2>2 DEF LockProc, client, flow
    <2> HIDE DEF frames
    <2>6. QED
      BY <1>1, <1>8, <2>1, <2>4, <2>5 DEF CountOps
  <1>21. CASE RemoveProcClient(t)
    <2>1. PICK r \in ClientsOf(f.p) :
            Remove(r) /\ Goto(t, <<f>> \o CleanupIf(refCount[r] = 0, r))
      BY <1>21 DEF RemoveProcClient
    <2>2. r \in Records /\ Linked(r)
      BY <1>3 DEF TypeOK, ClientsOf
    <2> DEFINE frames == <<f>> \o CleanupIf(refCount[r] = 0, r)
    <2>3. f.op = "delproc"
      BY <1>21 DEF RemoveProcClient, At
    <2>4. /\ frames = IF refCount[r] = 0 THEN <<f, Cleanup(r)>> ELSE <<f>>
          /\ frames \in Seq(Frame)
      <3> HIDE DEF f
      <3>1. Cleanup(r) \in Frame
        BY <2>2, FrameTypes
      <3>2. f \in Frame
        BY <1>4
      <3>3. CASE refCount[r] = 0
        BY <3>1, <3>2, <3>3, TwoFrames DEF CleanupIf
      <3>4. CASE refCount[r] # 0
        BY <3>2, <3>4, TwoFrames DEF CleanupIf
      <3>5. QED
        BY <3>3, <3>4
    <2>5. Goto(t, frames) /\ UNCHANGED <<live, addrOf, txQueue>>
      BY <1>21, <2>1 DEF RemoveProcClient, client, flow
    <2>6. f.op \notin UseOps /\ f.op \notin CountOps
      BY <2>3 DEF UseOps, CountOps
    <2> HIDE DEF frames
    <2>7. PICK g \in Frame : g = f
      BY <1>4
    <2>8. QED
      BY <1>0, <2>1, <2>2, <2>4, <2>5, <2>6, <2>7, RemoveStep
  <1>22. CASE RemoveProc(t)
    <2>1. f.op = "delproc" /\ Goto(t, <<>>)
          /\ UNCHANGED <<table, live, addrOf, refCount, txQueue>>
      BY <1>22 DEF RemoveProc, At, client, flow
    <2>2. QED
      BY <1>1, <1>8, <2>1, NoFrames DEF CountOps
  <1>23. CASE EndLoop(t)
    <2>1. f.op \in {"notify", "each", "delprocs"} /\ Goto(t, <<>>)
          /\ UNCHANGED <<table, live, addrOf, refCount, txQueue>>
      BY <1>23 DEF EndLoop, At, client, flow
    <2>2. QED
      BY <1>1, <1>8, <2>1, NoFrames DEF CountOps
  <1>24. QED
    BY <1>9, <1>10, <1>11, <1>12, <1>13, <1>14, <1>15, <1>16, <1>17, <1>18,
       <1>19, <1>20, <1>21, <1>22, <1>23 DEF Run

\* The inductive invariant holds at the start.
LEMMA InitInv == Init => IInv
  <1> SUFFICES ASSUME Init PROVE IInv
    OBVIOUS
  <1>2. TypeOK
    BY InitType
  <1>3. \A f : Places(f) = {}
    <2>1. \A t \in Threads : DOMAIN stack[t] = {}
      BY DEF Init
    <2>2. QED
      BY <2>1 DEF Places
  <1>4. \A r : Refs(r) = {} /\ Cleaning(r) = {}
    BY <1>3 DEF Refs, Cleaning
  <1>5. \A r \in Records : IsFiniteSet(Refs(r))
    BY <1>4, FS_EmptySet
  <1>6. NoUseAfterFree /\ UsesAreHeld
    <2>1. \A t \in Threads : DOMAIN stack[t] = {}
      BY DEF Init
    <2>2. \A a \in Addrs : table[a] = Null
      BY DEF Init
    <2>3. QED
      BY <2>1, <2>2 DEF NoUseAfterFree, UsesAreHeld
  <1>7. RefCountExact /\ CleanupClaimed /\ NoWaiterStranded
    <2>1. live = {} /\ \A r \in Records : txQueue[r] = <<>>
      BY DEF Init
    <2>2. QED
      BY <1>4, <2>1 DEF RefCountExact, CleanupClaimed, NoWaiterStranded
  <1>8. QED
    BY <1>2, <1>5, <1>6, <1>7 DEF IInv

\* The invariant of the client table holds in every reachable state.
THEOREM Invariant == Spec => []IInv
  <1>1. IInv /\ [Next]_vars => IInv'
    <2>1. ASSUME IInv, UNCHANGED vars PROVE IInv'
      <3>1. TypeOK'
        BY <2>1 DEF IInv, TypeOK, vars, client, flow, procs
      <3>2. UNCHANGED <<table, live, addrOf, refCount, txQueue, stack>>
        BY <2>1 DEF vars, client, flow
      <3>3. QED
        BY <2>1, <3>1, <3>2, IdleStep
    <2>2. ASSUME IInv, Next PROVE IInv'
      BY <2>2, CallInv, RunInv DEF Next
    <2>3. QED
      BY <2>1, <2>2
  <1>2. QED
    BY <1>1, InitInv, PTL DEF Spec

\* The reference counts agree with the references the callers hold.
THEOREM RefCountsExact == Spec => []RefCountExact
  <1>1. IInv => RefCountExact
    BY DEF IInv
  <1>2. QED
    BY <1>1, Invariant, PTL

\* No caller of the database ever has a pointer to a record that was freed.
THEOREM NoDanglingRecord == Spec => []NoUseAfterFree
  <1>1. IInv => NoUseAfterFree
    BY DEF IInv
  <1>2. QED
    BY <1>1, Invariant, PTL

\* No sender is left in the queue of a record that was cleaned up.
THEOREM WaitersAreTaken == Spec => []NoWaiterStranded
  <1>1. IInv => NoWaiterStranded
    BY DEF IInv
  <1>2. QED
    BY <1>1, Invariant, PTL

\* Every record out of the table that nobody holds has one thread cleaning it.
THEOREM CleanupOnce == Spec => []CleanedUpOnce
  <1>1. IInv => CleanedUpOnce
    <2> SUFFICES ASSUME IInv, NEW r \in live
                   PROVE  Cardinality(Cleaning(r)) =
                            (IF Linked(r) \/ Refs(r) # {} THEN 0 ELSE 1)
      BY DEF CleanedUpOnce
    <2>2. r \in Records /\ RecordInv(r)
      <3>1. r \in Records
        BY DEF IInv, TypeOK
      <3>2. QED
        BY <3>1, IInvParts
    <2>3. IsFiniteSet(Refs(r)) /\ Cardinality(Refs(r)) \in Nat
      BY <2>2, FS_CardinalityType DEF RecordInv
    <2>4. CASE Linked(r)
      <3>1. Cleaning(r) = {}
        BY <2>2, <2>4 DEF RecordInv
      <3>2. QED
        BY <2>4, <3>1, FS_EmptySet
    <2>5. CASE ~Linked(r) /\ Refs(r) # {}
      <3>1. Cardinality(Refs(r)) # 0
        BY <2>3, <2>5, FS_EmptySet
      <3>2. refCount[r] = Cardinality(Refs(r)) - 1
        BY <2>2, <2>5 DEF RecordInv
      <3>3. refCount[r] # -1
        BY <2>3, <3>1, <3>2
      <3>4. Cleaning(r) = {}
        BY <2>2, <3>3 DEF RecordInv
      <3>5. QED
        BY <2>5, <3>4, FS_EmptySet
    <2>6. CASE ~Linked(r) /\ Refs(r) = {}
      <3>1. Cardinality(Refs(r)) = 0
        BY <2>6, FS_EmptySet
      <3>2. refCount[r] = -1
        BY <2>2, <2>6, <3>1 DEF RecordInv
      <3>3. Cleaning(r) # {} /\ \A p, q \in Cleaning(r) : p = q
        BY <2>2, <2>6, <3>2 DEF RecordInv
      <3>4. PICK p : Cleaning(r) = {p}
        BY <3>3
      <3>5. QED
        BY <2>6, <3>4, FS_Singleton
    <2>7. QED
      BY <2>4, <2>5, <2>6
  <1>2. QED
    BY <1>1, Invariant, PTL

(***************************************************************************)
(* ClientTable implements CountedRecords: for any number of threads,       *)
(* endpoints and records, every step inside the router is one step of the  *)
(* life of one record, or none.                                            *)
(*                                                                         *)
(* The references in the stacks are counted by refCount (the invariant     *)
(* IInv), so that it is enough to follow refCount, table and live.         *)
(***************************************************************************)

\* The number of references, from the count of the record
Counted(r) == IF r \in live THEN refCount[r] + (IF Linked(r) THEN 0 ELSE 1) ELSE 0

HoldersCounted ==
  /\ HoldersOf = [r \in Records |-> Counted(r)]
  /\ \A r \in Records : Counted(r) \in Nat /\ (Refs(r) # {} => Counted(r) > 0)
  /\ \A r \in Records : Linked(r) => r \in live

\* Under the invariant, refCount and the table give the number of holders.
LEMMA HoldersAreCounted == IInv => HoldersCounted
  <1> SUFFICES ASSUME IInv, NEW r \in Records
               PROVE  /\ Cardinality(Refs(r)) = Counted(r)
                      /\ Counted(r) \in Nat /\ (Refs(r) # {} => Counted(r) > 0)
                      /\ Linked(r) => r \in live
    BY DEF HoldersOf, HoldersCounted
  <1>1. RecordInv(r) /\ FramesLive /\ TableLive /\ TypeOK
    BY IInvParts
  <1>2. Linked(r) => r \in live
    <2>1. r # Null
      BY ConstantsAssumption
    <2> QED BY <1>1, <2>1 DEF Linked, TableLive
  <1>3. IsFiniteSet(Refs(r)) /\ Cardinality(Refs(r)) \in Nat
    BY <1>1, FS_CardinalityType DEF RecordInv
  <1>4. Refs(r) # {} => Cardinality(Refs(r)) > 0
    <2>1. Refs(r) # {} => Cardinality(Refs(r)) # 0
      BY <1>3, FS_EmptySet
    <2> QED BY <1>3, <2>1
  <1>5. CASE r \in live
    <2>1. refCount[r] \in Int
      BY <1>1 DEF TypeOK
    <2>2. refCount[r] = Cardinality(Refs(r)) - (IF Linked(r) THEN 0 ELSE 1)
      BY <1>1, <1>5 DEF RecordInv
    <2>3. Counted(r) = Cardinality(Refs(r))
      BY <1>3, <1>5, <2>1, <2>2 DEF Counted
    <2> QED BY <1>2, <1>3, <1>4, <2>3
  <1>6. CASE r \notin live
    <2>1. Refs(r) = {}
      <3>1. ASSUME NEW t \in Threads, NEW i \in DOMAIN stack[t] PROVE stack[t][i] # Unlock(r)
        BY <1>1, <1>6, FrameOps DEF FramesLive, UseOps
      <3> QED BY <3>1, PlacesIn DEF Refs
    <2> QED BY <1>2, <1>6, <2>1, FS_EmptySet DEF Counted
  <1> QED
    BY <1>5, <1>6

\* The same after a step.
LEMMA HoldersAreCountedNext == IInv' => HoldersCounted'
  BY HoldersAreCounted, PTL

\* Nothing happens to any record.
LEMMA IdleRecords ==
  ASSUME HoldersCounted, HoldersCounted', UNCHANGED <<table, live, refCount>>
  PROVE  UNCHANGED Promise!vars
  <1>1. \A r : Linked(r)' = Linked(r)
    BY DEF Linked
  <1>2. PhaseOf' = PhaseOf
    BY <1>1 DEF PhaseOf
  <1>3. \A r \in Records : Counted(r)' = Counted(r)
    BY <1>1 DEF Counted
  <1>4. HoldersOf' = HoldersOf
    BY <1>3 DEF HoldersCounted
  <1> QED
    BY <1>2, <1>4 DEF Promise!vars

\* A record in the table gets a holder, ...
LEMMA PromiseToHold ==
  ASSUME IInv, HoldersCounted, HoldersCounted', NEW r \in Records, Linked(r),
         refCount' = [refCount EXCEPT ![r] = @ + 1], UNCHANGED <<table, live>>
  PROVE  Promise!Hold(r)
  <1>0. refCount \in [Records -> Int]
    BY DEF IInv, TypeOK
  <1>1. \A q : Linked(q)' = Linked(q)
    BY DEF Linked
  <1>2. PhaseOf' = PhaseOf
    BY <1>1 DEF PhaseOf
  <1>3. r \in live /\ PhaseOf[r] = "linked"
    BY DEF PhaseOf, HoldersCounted
  <1>4. \A q \in Records : Counted(q)' = IF q = r THEN Counted(q) + 1 ELSE Counted(q)
    BY <1>0, <1>1, <1>3 DEF Counted
  <1>5. HoldersOf' = [HoldersOf EXCEPT ![r] = @ + 1]
    BY <1>4 DEF HoldersCounted
  <1> QED
    BY <1>2, <1>3, <1>5 DEF Promise!Hold

\* ... a new one is made, ...
LEMMA PromiseToMake ==
  ASSUME IInv, HoldersCounted, HoldersCounted', NEW r \in Records, NEW a \in Addrs,
         table[a] = Null, r \notin live,
         table' = [table EXCEPT ![a] = r], live' = live \cup {r},
         refCount' = [refCount EXCEPT ![r] = 1]
  PROVE  Promise!Make(r)
  <1>0. refCount \in [Records -> Int] /\ table \in [Addrs -> Records \cup {Null}]
    BY DEF IInv, TypeOK
  <1>1. \A q \in Records : q # r => Linked(q)' = Linked(q)
    BY <1>0, ConstantsAssumption DEF Linked
  <1>2. Linked(r)'
    BY <1>0 DEF Linked
  <1>3. PhaseOf[r] = "free" /\ PhaseOf' = [PhaseOf EXCEPT ![r] = "linked"]
    BY <1>1, <1>2 DEF PhaseOf
  <1>4. \A q \in Records : Counted(q)' = IF q = r THEN 1 ELSE Counted(q)
    BY <1>0, <1>1, <1>2 DEF Counted
  <1>5. HoldersOf' = [HoldersOf EXCEPT ![r] = 1]
    BY <1>4 DEF HoldersCounted
  <1> QED
    BY <1>3, <1>5 DEF Promise!Make

\* ... a holder gives it back, ...
LEMMA PromiseToGiveBack ==
  ASSUME IInv, HoldersCounted, HoldersCounted', NEW r \in Records, r \in live, Refs(r) # {},
         refCount' = [refCount EXCEPT ![r] = @ - 1], UNCHANGED <<table, live>>
  PROVE  Promise!GiveBack(r)
  <1>0. refCount \in [Records -> Int]
    BY DEF IInv, TypeOK
  <1>1. \A q : Linked(q)' = Linked(q)
    BY DEF Linked
  <1>2. PhaseOf' = PhaseOf /\ PhaseOf[r] # "free"
    BY <1>1 DEF PhaseOf
  <1>3. \A q \in Records : Counted(q)' = IF q = r THEN Counted(q) - 1 ELSE Counted(q)
    BY <1>0, <1>1 DEF Counted
  <1>4. HoldersOf' = [HoldersOf EXCEPT ![r] = @ - 1] /\ HoldersOf[r] > 0
    BY <1>3 DEF HoldersCounted
  <1> QED
    BY <1>2, <1>4 DEF Promise!GiveBack

\* ... it is taken out of the table, ...
LEMMA PromiseToTakeOut ==
  ASSUME IInv, HoldersCounted, HoldersCounted', NEW r \in Records, Linked(r), Remove(r),
         live' = live
  PROVE  Promise!TakeOut(r)
  <1>0. /\ refCount \in [Records -> Int] /\ table \in [Addrs -> Records \cup {Null}]
        /\ TableLive
    BY IInvParts DEF IInv, TypeOK
  <1>1. PICK a \in Addrs : table[a] = r
    BY DEF Linked
  <1>2. r # Null /\ addrOf[r] = a /\ r \in live
    BY <1>0, <1>1, ConstantsAssumption DEF TableLive
  <1>3. \A q \in Records : q # r => Linked(q)' = Linked(q)
    BY <1>0, <1>1, <1>2, ConstantsAssumption DEF Linked, Remove
  <1>4. ~Linked(r)'
    <2>1. \A b \in Addrs : table[b] = r => b = a
      BY <1>0, <1>2 DEF TableLive
    <2> QED BY <1>0, <1>2, <2>1, ConstantsAssumption DEF Linked, Remove
  <1>5. PhaseOf[r] = "linked" /\ PhaseOf' = [PhaseOf EXCEPT ![r] = "removed"]
    BY <1>2, <1>3, <1>4 DEF PhaseOf
  <1>6. \A q \in Records : Counted(q)' = Counted(q)
    BY <1>0, <1>2, <1>3, <1>4 DEF Counted, Remove
  <1>7. HoldersOf' = HoldersOf
    BY <1>6 DEF HoldersCounted
  <1> QED
    BY <1>5, <1>7 DEF Promise!TakeOut

\* ... and it is freed when nobody holds it.
LEMMA PromiseToFree ==
  ASSUME IInv, HoldersCounted, HoldersCounted', NEW r \in Records, r \in live, Cleaning(r) # {},
         live' = live \ {r}, refCount' = [refCount EXCEPT ![r] = 0], table' = table
  PROVE  Promise!Free(r)
  <1>0. refCount \in [Records -> Int]
    BY DEF IInv, TypeOK
  <1>1. ~Linked(r) /\ refCount[r] = -1
    BY IInvParts DEF RecordInv
  <1>2. \A q : Linked(q)' = Linked(q)
    BY DEF Linked
  <1>3. PhaseOf[r] = "removed" /\ PhaseOf' = [PhaseOf EXCEPT ![r] = "free"]
    BY <1>1, <1>2 DEF PhaseOf
  <1>4. \A q \in Records : Counted(q)' = Counted(q)
    BY <1>0, <1>1, <1>2 DEF Counted
  <1>5. HoldersOf' = HoldersOf /\ HoldersOf[r] = 0
    BY <1>1, <1>4 DEF HoldersCounted, Counted
  <1> QED
    BY <1>3, <1>5 DEF Promise!Free

(***************************************************************************)
(* The steps of the code                                                   *)
(***************************************************************************)

PromiseKept == [Promise!Next]_Promise!vars

\* A step in the life of one record is one of CountedRecords.
LEMMA OneRecord ==
  ASSUME NEW r \in Records,
         \/ Promise!Make(r) \/ Promise!Hold(r) \/ Promise!GiveBack(r)
         \/ Promise!TakeOut(r) \/ Promise!Free(r)
  PROVE  PromiseKept
  BY DEF PromiseKept, Promise!Next

\* A step that leaves table, live records and counts alone is none.
LEMMA NoRecord ==
  ASSUME HoldersCounted, HoldersCounted', UNCHANGED <<table, live, refCount>>
  PROVE  PromiseKept
  BY IdleRecords DEF PromiseKept

\* ipc_router_find_client: the record that is found gets a holder.
LEMMA FindKeeps ==
  ASSUME IInv, HoldersCounted, HoldersCounted', NEW t \in Threads, NEW a \in Addrs,
         NEW lost, NEW found, Find(t, a, lost, found)
  PROVE  PromiseKept
  <1>1. UNCHANGED <<table, live>>
    BY DEF Find
  <1>2. CASE table[a] = Null
    BY <1>1, <1>2, NoRecord DEF Find
  <1>3. CASE table[a] # Null
    <2>1. PICK r \in Records : table[a] = r
      BY <1>3 DEF IInv, TypeOK
    <2>2. Linked(r) /\ refCount' = [refCount EXCEPT ![r] = @ + 1]
      BY <1>3, <2>1 DEF Find, Linked
    <2> QED BY <1>1, <2>2, PromiseToHold, OneRecord
  <1> QED
    BY <1>2, <1>3

\* ipc_router_register_client_ext: a holder more, or a new record.
LEMMA RegisterKeeps ==
  ASSUME IInv, HoldersCounted, HoldersCounted', NEW a \in Addrs, NEW x,
         (\E r \in Records : Register(a, x, r)) \/ RegisterNoMem(a, x)
  PROVE  PromiseKept
  <1>1. ASSUME NEW r \in Records, RegisterOld(a, x, r) PROVE PromiseKept
    <2>1. /\ Linked(r) /\ refCount' = [refCount EXCEPT ![r] = @ + 1]
          /\ UNCHANGED <<table, live>>
      BY <1>1 DEF RegisterOld, Linked
    <2> QED BY <2>1, PromiseToHold, OneRecord
  <1>2. ASSUME NEW r \in Records, RegisterNew(a, x, r) PROVE PromiseKept
    <2>1. /\ table[a] = Null /\ r \notin live
          /\ table' = [table EXCEPT ![a] = r] /\ live' = live \cup {r}
          /\ refCount' = [refCount EXCEPT ![r] = 1]
      BY <1>2 DEF RegisterNew
    <2> QED BY <2>1, PromiseToMake, OneRecord
  <1>3. ASSUME RegisterNoMem(a, x) PROVE PromiseKept
    BY <1>3, NoRecord DEF RegisterNoMem
  <1> QED
    BY <1>1, <1>2, <1>3 DEF Register

\* Every call of the router is a step of CountedRecords, or none.
LEMMA CallKeeps ==
  ASSUME IInv, HoldersCounted, HoldersCounted', NEW t \in Threads, Call(t)
  PROVE  PromiseKept
  <1>1. ASSUME NEW a \in Addrs, Open(t, a) PROVE PromiseKept
    BY <1>1, RegisterKeeps DEF Open
  <1>2. ASSUME NEW x \in Xports, NEW a \in Addrs, Learn(t, x, a) PROVE PromiseKept
    BY <1>2, RegisterKeeps DEF Learn
  <1>3. ASSUME NEW a \in Addrs, Confirm(t, a) \/ Close(t, a) PROVE PromiseKept
    BY <1>3, FindKeeps DEF Confirm, Close
  <1>4. ASSUME NEW src \in Addrs, NEW dst \in Addrs, Send(t, src, dst) PROVE PromiseKept
    BY <1>4, FindKeeps DEF Send
  <1>5. ASSUME NEW x \in Xports, XportDown(t, x) PROVE PromiseKept
    BY <1>5, NoRecord DEF XportDown
  <1> QED
    BY <1>1, <1>2, <1>3, <1>4, <1>5 DEF Call

\* So is every step of a call under way.
LEMMA RunKeeps ==
  ASSUME IInv, HoldersCounted, HoldersCounted', NEW t \in Threads, Run(t)
  PROVE  PromiseKept
  <1>0. /\ TypeOK /\ FramesLive /\ stack \in [Threads -> Seq(Frame)]
        /\ table \in [Addrs -> Records \cup {Null}]
    BY IInvParts DEF TypeOK
  <1> DEFINE f == Top(t)
             last == Len(stack[t])
  <1>t. ASSUME stack[t] # <<>>
        PROVE  /\ f \in Frame /\ last \in DOMAIN stack[t] /\ stack[t][last] = f
               /\ f.op \in {"unlock", "closed"} => f.r \in live /\ f.r \in Records
               /\ f.op \in {"unregister"} => f.a \in Addrs
               /\ f.op = "notify" => f.q \in Seq(Addrs)
               /\ f.op \in {"each", "down"} => f.s \in SUBSET Addrs
               /\ f.op = "unlock" => f = Unlock(f.r)
               /\ f.op = "closed" => f = Closed(f.r)
    <2>1. /\ f \in Frame
          /\ f.op \in {"unlock", "closed"} => f.r \in Records
          /\ f.op \in {"unregister"} => f.a \in Addrs
          /\ f.op = "notify" => f.q \in Seq(Addrs)
          /\ f.op \in {"each", "down"} => f.s \in SUBSET Addrs
      BY <1>t, <1>0, TopType
    <2>2. last \in DOMAIN stack[t] /\ stack[t][last] = f
      BY <1>t, <1>0 DEF Top
    <2>3. f.op \in {"unlock", "closed"} => f.r \in live
      BY <1>0, <2>2 DEF FramesLive, UseOps
    <2>4. (f.op = "unlock" => f = Unlock(f.r)) /\ (f.op = "closed" => f = Closed(f.r))
      BY <2>1 DEF Frame, Unlock, Closed
    <2> QED BY <2>1, <2>2, <2>3, <2>4
  <1>1. ASSUME GetToken(t) \/ ResumeTx(t) \/ StartCleanup(t) \/ ListLocal(t)
               \/ ListProcs(t) \/ LockProc(t) \/ RemoveProc(t) \/ EndLoop(t)
        PROVE  PromiseKept
    <2>1. UNCHANGED <<table, live, refCount>>
      BY <1>1 DEF GetToken, ResumeTx, StartCleanup, TakeWaiters, ListLocal, ListProcs,
                  LockProc, RemoveProc, EndLoop
    <2> QED BY <2>1, NoRecord
  <1>2. ASSUME UnlockClient(t) PROVE PromiseKept
    <2>1. /\ stack[t] # <<>> /\ f.op = "unlock"
          /\ refCount' = [refCount EXCEPT ![f.r] = @ - 1] /\ UNCHANGED <<table, live>>
      BY <1>2 DEF UnlockClient, At
    <2>2. f.r \in Records /\ f.r \in live /\ Refs(f.r) # {}
      BY <2>1, <1>t, PlacesIn DEF Refs
    <2> QED BY <2>1, <2>2, PromiseToGiveBack, OneRecord
  <1>3. ASSUME FinishCleanup(t) PROVE PromiseKept
    <2>1. /\ stack[t] # <<>> /\ f.op = "closed"
          /\ refCount' = [refCount EXCEPT ![f.r] = 0]
          /\ live' = live \ {f.r} /\ table' = table
      BY <1>3 DEF FinishCleanup, At
    <2>2. f.r \in Records /\ f.r \in live /\ Cleaning(f.r) # {}
      BY <2>1, <1>t, PlacesIn DEF Cleaning
    <2> QED BY <2>1, <2>2, PromiseToFree, OneRecord
  <1>4. ASSUME NotifyWaiter(t) PROVE PromiseKept
    <2>1. f.q \in Seq(Addrs) /\ f.q # <<>>
      BY <1>4, <1>t DEF NotifyWaiter, At
    <2>2. Head(f.q) \in Addrs
      BY <2>1
    <2> QED BY <1>4, <2>2, FindKeeps DEF NotifyWaiter
  <1>5. ASSUME UnregisterClient(t) PROVE PromiseKept
    <2>1. stack[t] # <<>> /\ f.a \in Addrs
      BY <1>5, <1>t DEF UnregisterClient, At
    <2>2. CASE table[f.a] = Null
      BY <1>5, <2>2, NoRecord DEF UnregisterClient
    <2>3. CASE table[f.a] # Null
      <3>1. PICK r \in Records : table[f.a] = r
        BY <1>0, <2>1, <2>3
      <3>2. Remove(r) /\ live' = live /\ Linked(r)
        BY <1>5, <2>1, <2>3, <3>1 DEF UnregisterClient, Linked
      <3> QED BY <3>2, PromiseToTakeOut, OneRecord
    <2> QED BY <2>2, <2>3
  <1>6. ASSUME NotifyEach(t) PROVE PromiseKept
    <2>1. f.s \in SUBSET Addrs
      BY <1>6, <1>t DEF NotifyEach, At
    <2> QED BY <1>6, <2>1, FindKeeps DEF NotifyEach
  <1>7. ASSUME DownClient(t) PROVE PromiseKept
    <2>1. f.s \in SUBSET Addrs
      BY <1>7, <1>t DEF DownClient, At
    <2> QED BY <1>7, <2>1, FindKeeps DEF DownClient
  <1>8. ASSUME RemoveProcClient(t) PROVE PromiseKept
    <2>1. PICK r \in ClientsOf(f.p) : Remove(r)
      BY <1>8 DEF RemoveProcClient
    <2>2. r \in Records /\ Linked(r) /\ live' = live
      BY <1>0, <1>8, <2>1 DEF ClientsOf, TypeOK, RemoveProcClient
    <2> QED BY <2>1, <2>2, PromiseToTakeOut, OneRecord
  <1> QED
    BY <1>1, <1>2, <1>3, <1>4, <1>5, <1>6, <1>7, <1>8 DEF Run

\* Nobody holds a record at the start.
LEMMA PromiseFromInit == Init => Promise!Init
  <1> SUFFICES ASSUME Init PROVE Promise!Init
    OBVIOUS
  <1>1. IInv /\ live = {}
    BY InitInv DEF Init
  <1>2. HoldersOf = [r \in Records |-> 0]
    BY <1>1, HoldersAreCounted DEF HoldersCounted, Counted
  <1>3. PhaseOf = [r \in Records |-> "free"]
    BY <1>1 DEF PhaseOf
  <1> QED
    BY <1>2, <1>3 DEF Promise!Init

\* So every step of ClientTable is one of CountedRecords, or none.
LEMMA PromiseInStep ==
  ASSUME IInv, HoldersCounted, HoldersCounted', [Next]_vars
  PROVE  PromiseKept
  <1>1. ASSUME UNCHANGED vars PROVE PromiseKept
    BY <1>1, NoRecord DEF vars
  <1>2. ASSUME Next PROVE PromiseKept
    BY <1>2, CallKeeps, RunKeeps DEF Next
  <1> QED
    BY <1>1, <1>2

\* A record of the database lives as its callers are promised: it is found
\* only while it is in the table, removed once, and freed once, after the last
\* caller that holds it has unlocked it.
THEOREM RecordsAreCounted == Spec => ImplementsCountedRecords
  <1>1. IInv /\ IInv' /\ [Next]_vars => PromiseKept
    BY HoldersAreCounted, HoldersAreCountedNext, PromiseInStep
  <1>2. Spec => []IInv
    BY Invariant
  <1>3. Init => Promise!Init
    BY PromiseFromInit
  <1>4. IInv /\ IInv' /\ [Next]_vars => [Promise!Next]_Promise!vars
    BY <1>1 DEF PromiseKept
  <1> QED
    BY <1>2, <1>3, <1>4, PTL DEF Spec, ImplementsCountedRecords, Promise!Spec
=============================================================================
