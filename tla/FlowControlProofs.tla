----------------------------- MODULE FlowControlProofs -----------------------------
(***************************************************************************)
(* Theorems about FlowControl, for any number of routers, senders and      *)
(* records and any quota.  First the types.  Then: no wake-up is lost, as  *)
(* long as no message with a last token fails to be sent and every waiter  *)
(* has its queue node.  Last: the backlog of the reader is bounded,        *)
(* whatever fails.                                                         *)
(*                                                                         *)
(* The argument for the wake-ups: a record is full exactly from its last   *)
(* token on, and from then on the obligation to wake passes from hand to   *)
(* hand (the sender, the link, the inbox, the reader, the link back) until *)
(* the record is emptied; waiters are only in full records, or in removed  *)
(* ones that are still locked by somebody who will clean them up.          *)
(***************************************************************************)
EXTENDS FlowControl, SequenceTheorems, FiniteSetTheorems, TLAPS

USE FlowAssumption

-----------------------------------------------------------------------------
(***************************************************************************)
(* Sequences                                                               *)
(***************************************************************************)

\* Append keeps what there is, at its place, and adds the element at the end.
LEMMA AppendFacts ==
  ASSUME NEW S, NEW q \in Seq(S), NEW e \in S
  PROVE  /\ Append(q, e) \in Seq(S)
         /\ Append(q, e) # <<>>
         /\ DOMAIN q = 1..Len(q)
         /\ DOMAIN Append(q, e) = 1..(Len(q) + 1)
         /\ Len(q) + 1 \in DOMAIN Append(q, e)
         /\ Append(q, e)[Len(q) + 1] = e
         /\ \A i \in DOMAIN q : i \in DOMAIN Append(q, e) /\ Append(q, e)[i] = q[i]
  OBVIOUS

\* Tail moves every element but the first one place down.
LEMMA TailFacts ==
  ASSUME NEW S, NEW q \in Seq(S), q # <<>>
  PROVE  /\ Tail(q) \in Seq(S)
         /\ Head(q) \in S
         /\ Head(q) = q[1]
         /\ 1 \in DOMAIN q
         /\ \A i \in DOMAIN Tail(q) : i + 1 \in DOMAIN q /\ Tail(q)[i] = q[i + 1]
         /\ \A i \in DOMAIN q : i # 1 => i - 1 \in DOMAIN Tail(q) /\ Tail(q)[i - 1] = q[i]
         /\ DOMAIN q \subseteq Nat
         /\ DOMAIN Tail(q) \subseteq Nat
  OBVIOUS

\* The empty sequence is one over any set.
LEMMA EmptyFacts == ASSUME NEW S PROVE <<>> \in Seq(S) /\ DOMAIN <<>> = {}
  OBVIOUS

-----------------------------------------------------------------------------
(***************************************************************************)
(* Types                                                                   *)
(***************************************************************************)

\* The wake-up of a queue keeps the types of what it changes.
LEMMA ResumeType ==
  ASSUME TypeOK, NEW r \in Records, Resume(r)
  PROVE  /\ txCount' \in [Records -> 0..RxQuota]
         /\ txQueue' \in [Records -> Seq(Senders)]
         /\ event' \in [Senders -> BOOLEAN]
  <1>1. txCount' \in [Records -> 0..RxQuota]
    BY SMT DEF Resume, TypeOK
  <1>2. txQueue' \in [Records -> Seq(Senders)]
    BY EmptyFacts DEF Resume, TypeOK
  <1>3. event' \in [Senders -> BOOLEAN]
    BY DEF Resume, Wake, TypeOK
  <1> QED BY <1>1, <1>2, <1>3

\* Cleaning up a record keeps counts, queues and events in their types.
LEMMA CleanupType ==
  ASSUME TypeOK, NEW dead, NEW r \in Records, CleanupIf(dead, r)
  PROVE  /\ txCount' \in [Records -> 0..RxQuota]
         /\ txQueue' \in [Records -> Seq(Senders)]
         /\ event' \in [Senders -> BOOLEAN]
  <1>1. CASE Resume(r) BY <1>1, ResumeType
  <1>2. CASE UNCHANGED <<txCount, txQueue, event>> BY <1>2 DEF TypeOK
  <1> QED BY <1>1, <1>2 DEF CleanupIf

\* So does taking a record out of a table,
LEMMA UnregisterType ==
  ASSUME TypeOK, NEW n \in Routers, Unregister(n)
  PROVE  /\ table' \in [Routers -> Records \cup {Null}]
         /\ txCount' \in [Records -> 0..RxQuota]
         /\ txQueue' \in [Records -> Seq(Senders)]
         /\ event' \in [Senders -> BOOLEAN]
  <1>1. table' \in [Routers -> Records \cup {Null}]
    BY DEF Unregister, TypeOK
  <1>2. CASE table[n] = Null BY <1>1, <1>2 DEF Unregister, TypeOK
  <1>3. CASE table[n] # Null
    <2>1. table[n] \in Records BY <1>3 DEF TypeOK
    <2>2. CleanupIf(~Held(table[n]), table[n]) BY <1>3 DEF Unregister
    <2> QED BY <1>1, <2>1, <2>2, CleanupType
  <1> QED BY <1>2, <1>3

\* and giving a record back.
LEMMA UnlockType ==
  ASSUME TypeOK, NEW s \in Senders, hold[s] \in Records, Unlock(s)
  PROVE  /\ hold' \in [Senders -> Records \cup {Null}]
         /\ txCount' \in [Records -> 0..RxQuota]
         /\ txQueue' \in [Records -> Seq(Senders)]
         /\ event' \in [Senders -> BOOLEAN]
  <1>1. hold' \in [Senders -> Records \cup {Null}] BY DEF Unlock, TypeOK
  <1> QED BY <1>1, CleanupType DEF Unlock

\* A sender has a record exactly while it is inside of a call.
LEMMA HoldsStep ==
  ASSUME TypeOK, HoldsWhileInside, [Next]_vars
  PROVE  HoldsWhileInside'
  <1>1. ASSUME NEW s \in Senders, NEW c, pc' = [pc EXCEPT ![s] = c],
               \/ /\ hold' = [hold EXCEPT ![s] = Null]
                  /\ c \in {"idle", "wait"}
               \/ /\ hold' = hold /\ hold[s] # Null
                  /\ c \in {"normal", "last", "busy"}
               \/ /\ hold' = hold /\ hold[s] = Null
                  /\ c \in {"idle", "wait"}
               \/ /\ \E r \in Records : hold' = [hold EXCEPT ![s] = r]
                  /\ c = "found"
        PROVE  HoldsWhileInside'
    BY <1>1 DEF HoldsWhileInside, TypeOK
  <1>2. ASSUME pc' = pc, hold' = hold PROVE HoldsWhileInside'
    BY <1>2 DEF HoldsWhileInside
  <1>3. ASSUME NEW s \in Senders, FindNone(s) \/ Find(s) PROVE HoldsWhileInside'
    <2>1. CASE FindNone(s) BY <2>1, <1>2 DEF FindNone, vars, senders
    <2>2. CASE Find(s)
      <3>1. RouterOf[s] \in Routers /\ table[RouterOf[s]] \in Records
        BY <2>2 DEF Find, TypeOK
      <3> QED BY <1>1, <2>2, <3>1 DEF Find
    <2> QED BY <1>3, <2>1, <2>2
  <1>4. ASSUME NEW s \in Senders, GetToken(s) PROVE HoldsWhileInside'
    <2>1. PICK c \in {"normal", "last", "busy"} : pc' = [pc EXCEPT ![s] = c]
      BY <1>4, Zenon DEF GetToken
    <2>2. hold' = hold /\ hold[s] # Null
      BY <1>4 DEF GetToken, HoldsWhileInside
    <2> QED BY <1>1, <2>1, <2>2
  <1>5. ASSUME NEW s \in Senders, SendMsg(s) \/ SendFails(s) \/ ReturnBusy(s)
        PROVE  HoldsWhileInside'
    BY <1>1, <1>5 DEF SendMsg, SendFails, ReturnBusy, Unlock
  <1>6. ASSUME NEW s \in Senders, Retry(s) \/ TimeOut(s) PROVE HoldsWhileInside'
    <2>1. hold[s] = Null BY <1>6 DEF Retry, TimeOut, HoldsWhileInside
    <2> QED BY <1>1, <1>6, <2>1 DEF Retry, TimeOut
  <1>7. ASSUME Reader \/ CloseBegin \/ Closer \/ Greeter PROVE HoldsWhileInside'
    BY <1>2, <1>7 DEF Reader, Read, Confirm, CloseBegin, Closer, Tell, CloseEnd, Greeter,
                      FindServer, Announce, senders
  <1>8. ASSUME NEW n \in Away, Receive(n) \/ Worker(n) \/ LinkLost(n) \/ LinkUp(n)
        PROVE  HoldsWhileInside'
    BY <1>2, <1>8 DEF Receive, Worker, NewServer, RemoveClient, ResumeTx, RemoteClose,
                      LinkLost, LinkUp, senders
  <1>9. CASE UNCHANGED vars BY <1>2, <1>9 DEF vars, senders
  <1> QED
    BY <1>3, <1>4, <1>5, <1>6, <1>7, <1>8, <1>9 DEF Next, Sender

\* Home's record is locked for an announcement only while a HELLO is answered.
LEMMA GreetingStep ==
  ASSUME TypeOK, GreetingInOrder, [Next]_vars
  PROVE  GreetingInOrder'
  <1>1. ASSUME greeting' = greeting PROVE GreetingInOrder'
    BY <1>1 DEF greeting, GreetingInOrder
  <1>2. ASSUME NEW s \in Senders, FindNone(s) \/ Find(s) \/ Sender(s) \/ TimeOut(s)
        PROVE  GreetingInOrder'
    BY <1>1, <1>2 DEF FindNone, Find, Sender, GetToken, SendMsg, SendFails, ReturnBusy,
                      Retry, TimeOut, vars, greeting
  <1>3. ASSUME Reader \/ CloseBegin \/ Closer PROVE GreetingInOrder'
    BY <1>1, <1>3 DEF Reader, Read, Confirm, CloseBegin, Closer, Tell, CloseEnd
  <1>4. ASSUME Greeter PROVE GreetingInOrder'
    BY <1>4 DEF Greeter, FindServer, Announce, GreetingInOrder
  <1>5. ASSUME NEW n \in Away, Receive(n) \/ Worker(n) \/ LinkLost(n) \/ LinkUp(n)
        PROVE  GreetingInOrder'
    <2>1. CASE LinkUp(n)
      <3>1. hello = Null /\ known' = known BY <2>1 DEF LinkUp
      <3> QED BY <3>1 DEF GreetingInOrder
    <2>2. CASE Receive(n) \/ Worker(n) \/ LinkLost(n)
      BY <1>1, <2>2 DEF Receive, Worker, NewServer, RemoveClient, ResumeTx, RemoteClose,
                        LinkLost
    <2> QED BY <1>5, <2>1, <2>2
  <1>6. CASE UNCHANGED vars BY <1>1, <1>6 DEF vars
  <1> QED BY <1>2, <1>3, <1>4, <1>5, <1>6 DEF Next

\* The types are inductive, one action at a time.
LEMMA TypeStep ==
  ASSUME TypeOK, HoldsWhileInside, GreetingInOrder, [Next]_vars
  PROVE  TypeOK'
  <1> USE DEF TypeOK
  <1>0. <<>> \in Seq(BOOLEAN) /\ <<>> \in Seq(Message) /\ <<>> \in Seq(Control)
    BY EmptyFacts
  <1>1. ASSUME NEW s \in Senders, FindNone(s) PROVE TypeOK'
    BY <1>1 DEF FindNone, vars, records, senders, network, endpoint, greeting
  <1>2. ASSUME NEW s \in Senders, Find(s) PROVE TypeOK'
    BY <1>2 DEF Find, records, network, endpoint, greeting
  <1>3. ASSUME NEW s \in Senders, GetToken(s), hold[s] \in Records PROVE TypeOK'
    <2>1. txCount' \in [Records -> 0..RxQuota]
      <3>1. CASE /\ txCount[hold[s]] < RxQuota
                 /\ txCount' = [txCount EXCEPT ![hold[s]] = @ + 1]
        <4>1. txCount[hold[s]] + 1 \in 0..RxQuota BY <1>3, <3>1
        <4> QED BY <3>1, <4>1
      <3>2. CASE txCount' = txCount BY <3>2
      <3> QED BY <1>3, <3>1, <3>2, Zenon DEF GetToken
    <2>2. txQueue' \in [Records -> Seq(Senders)]
      <3>1. Append(txQueue[hold[s]], s) \in Seq(Senders)
        BY <1>3, AppendFacts
      <3>2. CASE txQueue' = [txQueue EXCEPT ![hold[s]] = Append(@, s)] BY <1>3, <3>1, <3>2
      <3>3. CASE txQueue' = txQueue BY <3>3
      <3> QED BY <1>3, <3>2, <3>3, Zenon DEF GetToken
    <2>3. pc' \in [Senders -> {"idle", "found", "normal", "last", "busy", "wait"}]
      <3>1. PICK c \in {"normal", "last", "busy"} : pc' = [pc EXCEPT ![s] = c]
        BY <1>3, Zenon DEF GetToken
      <3> QED BY <3>1
    <2>4. UNCHANGED <<table, hold, event, network, endpoint, greeting>>
      BY <1>3 DEF GetToken
    <2> QED BY <2>1, <2>2, <2>3, <2>4 DEF network, endpoint, greeting
  <1>4. ASSUME NEW s \in Senders, SendMsg(s), hold[s] \in Records PROVE TypeOK'
    <2>1. /\ link' \in [Away -> Seq(BOOLEAN)]
          /\ inbox' \in Seq(Message)
      <3> DEFINE c == pc[s] = "last"
      <3>1. c \in BOOLEAN /\ RouterOf[s] \in Routers /\ Deliver(RouterOf[s], c)
        BY <1>4 DEF SendMsg
      <3> HIDE DEF c
      <3>2. CASE RouterOf[s] = Home
        <4>1. [from |-> RouterOf[s], confirm |-> c] \in Message
          BY <3>1 DEF Message
        <4>2. Append(inbox, [from |-> RouterOf[s], confirm |-> c]) \in Seq(Message)
          BY <4>1, AppendFacts
        <4>3. inbox' \in Seq(Message) /\ link' = link
          BY <3>1, <3>2, <4>2, Zenon DEF Deliver
        <4> QED BY <4>3
      <3>3. CASE RouterOf[s] # Home
        <4>1. RouterOf[s] \in Away BY <3>1, <3>3 DEF Away
        <4>2. Append(link[RouterOf[s]], c) \in Seq(BOOLEAN)
          BY <3>1, <4>1, AppendFacts
        <4>3. inbox' = inbox /\ link' = [link EXCEPT ![RouterOf[s]] = Append(@, c)]
          BY <3>1, <3>3, Zenon DEF Deliver
        <4> QED BY <4>1, <4>2, <4>3
      <3> QED BY <3>2, <3>3
    <2>2. pc' \in [Senders -> {"idle", "found", "normal", "last", "busy", "wait"}]
      BY <1>4 DEF SendMsg
    <2>3. Unlock(s) /\ UNCHANGED <<table, back, state, flaps, phase, totell, reader, greeting>>
      BY <1>4 DEF SendMsg
    <2> QED BY <1>4, <2>1, <2>2, <2>3, UnlockType DEF greeting
  <1>5. ASSUME NEW s \in Senders, SendFails(s), hold[s] \in Records PROVE TypeOK'
    <2>1. pc' \in [Senders -> {"idle", "found", "normal", "last", "busy", "wait"}]
      BY <1>5 DEF SendFails
    <2>2. Unlock(s) /\ UNCHANGED <<table, network, endpoint, greeting>>
      BY <1>5 DEF SendFails
    <2> QED BY <1>5, <2>1, <2>2, UnlockType DEF network, endpoint, greeting
  <1>6. ASSUME NEW s \in Senders, ReturnBusy(s), hold[s] \in Records PROVE TypeOK'
    <2>1. pc' \in [Senders -> {"idle", "found", "normal", "last", "busy", "wait"}]
      BY <1>6 DEF ReturnBusy
    <2>2. Unlock(s) /\ UNCHANGED <<table, network, endpoint, greeting>>
      BY <1>6 DEF ReturnBusy
    <2> QED BY <1>6, <2>1, <2>2, UnlockType DEF network, endpoint, greeting
  <1>7. ASSUME NEW s \in Senders, Retry(s) \/ TimeOut(s) PROVE TypeOK'
    BY <1>7 DEF Retry, TimeOut, records, network, endpoint, greeting
  <1>8. ASSUME Read PROVE TypeOK'
    <2>1. Head(inbox) \in Message /\ Tail(inbox) \in Seq(Message)
      BY <1>8, TailFacts DEF Read
    <2> QED BY <1>8, <2>1 DEF Read, Message, records, senders, network, greeting
  <1>9. ASSUME Confirm PROVE TypeOK'
    <2>1. /\ txCount' \in [Records -> 0..RxQuota]
          /\ txQueue' \in [Records -> Seq(Senders)]
          /\ event' \in [Senders -> BOOLEAN]
      <3>1. CASE table[Home] # Null /\ Resume(table[Home])
        BY <3>1, ResumeType
      <3>2. CASE UNCHANGED <<txCount, txQueue, event>>
        BY <3>2
      <3> QED BY <1>9, <3>1, <3>2 DEF Confirm
    <2>2. back' \in [Away -> Seq(Control)]
      <3>1. ASSUME NEW n \in Away PROVE Append(back[n], "resume") \in Seq(Control)
        BY AppendFacts DEF Control
      <3>2. CASE back' = back
        BY <3>2
      <3>3. CASE reader \in Away /\ back' = [back EXCEPT ![reader] = Append(@, "resume")]
        BY <3>1, <3>3
      <3> QED BY <1>9, <3>2, <3>3, Zenon DEF Confirm
    <2> QED BY <1>9, <2>1, <2>2 DEF Confirm, greeting
  <1>10. ASSUME CloseEnd PROVE TypeOK'
    <2>1. /\ Unregister(Home) /\ phase' = "closed" /\ inbox' = <<>>
          /\ UNCHANGED <<totell, pc, hold, network, reader, greeting>>
      BY <1>10 DEF CloseEnd
    <2> QED BY <1>0, <2>1, UnregisterType DEF network, greeting
  <1>21. ASSUME CloseBegin PROVE TypeOK'
    BY <1>21 DEF CloseBegin, records, senders, network, greeting
  <1>22. ASSUME NEW n \in Away, Tell(n) PROVE TypeOK'
    <2>1. back' \in [Away -> Seq(Control)]
      <3>1. Append(back[n], "remove") \in Seq(Control) BY AppendFacts DEF Control
      <3>2. CASE back' = back BY <3>2
      <3>3. CASE back' = [back EXCEPT ![n] = Append(@, "remove")] BY <3>1, <3>3
      <3> QED BY <1>22, <3>2, <3>3, Zenon DEF Tell
    <2>2. totell' \subseteq Away BY <1>22 DEF Tell
    <2>3. UNCHANGED <<records, senders, link, state, flaps, phase, inbox, reader, greeting>>
      BY <1>22 DEF Tell
    <2> QED BY <2>1, <2>2, <2>3 DEF records, senders, greeting
  <1>23. ASSUME FindServer PROVE TypeOK'
    <2>1. known' \in Records \cup {Null} /\ hello' \in Away \cup {Null}
      BY <1>23 DEF FindServer
    <2> QED BY <1>23, <2>1 DEF FindServer, records, senders, network, endpoint
  <1>24. ASSUME Announce PROVE TypeOK'
    <2>1. back' \in [Away -> Seq(Control)]
      <3>1. CASE back' = back BY <3>1
      <3>2. CASE hello \in Away /\ back' = [back EXCEPT ![hello] = Append(@, "new")]
        <4>1. Append(back[hello], "new") \in Seq(Control) BY <3>2, AppendFacts DEF Control
        <4> QED BY <3>2, <4>1
      <3>3. hello \in Away BY <1>24 DEF Announce, GreetingInOrder
      <3> QED BY <1>24, <3>1, <3>2, <3>3, Zenon DEF Announce
    <2>2. /\ known \in Records
          /\ CleanupIf(~Linked(known) /\ ~HeldBySenders(known), known)
      BY <1>24 DEF Announce
    <2>3. /\ txCount' \in [Records -> 0..RxQuota]
          /\ txQueue' \in [Records -> Seq(Senders)]
          /\ event' \in [Senders -> BOOLEAN]
      BY <2>2, CleanupType
    <2> QED BY <1>24, <2>1, <2>3 DEF Announce, endpoint
  <1>11. ASSUME NEW n \in Away, Receive(n) PROVE TypeOK'
    <2>1. n \in Routers BY DEF Away
    <2>2. Head(link[n]) \in BOOLEAN /\ Tail(link[n]) \in Seq(BOOLEAN)
      BY <1>11, TailFacts DEF Receive
    <2>3. Append(inbox, [from |-> n, confirm |-> Head(link[n])]) \in Seq(Message)
      BY <2>1, <2>2, AppendFacts DEF Message
    <2>4. link' \in [Away -> Seq(BOOLEAN)] /\ inbox' \in Seq(Message)
      BY <1>11, <2>2, <2>3 DEF Receive
    <2> QED BY <1>11, <2>4 DEF Receive, records, senders, greeting
  <1>12. ASSUME NEW n \in Away, NewServer(n) PROVE TypeOK'
    <2>1. back' \in [Away -> Seq(Control)]
      <3>1. Tail(back[n]) \in Seq(Control) BY <1>12, TailFacts DEF NewServer
      <3> QED BY <1>12, <3>1 DEF NewServer
    <2>2. /\ table' \in [Routers -> Records \cup {Null}]
          /\ txCount' \in [Records -> 0..RxQuota]
          /\ txQueue' \in [Records -> Seq(Senders)]
      <3>1. CASE UNCHANGED records BY <3>1 DEF records
      <3>2. CASE \E r \in Records :
                   /\ table' = [table EXCEPT ![n] = r]
                   /\ txCount' = [txCount EXCEPT ![r] = 0]
                   /\ txQueue' = [txQueue EXCEPT ![r] = <<>>]
        <4>1. <<>> \in Seq(Senders) BY EmptyFacts
        <4>2. PICK r \in Records : /\ table' = [table EXCEPT ![n] = r]
                                   /\ txCount' = [txCount EXCEPT ![r] = 0]
                                   /\ txQueue' = [txQueue EXCEPT ![r] = <<>>]
          BY <3>2
        <4>3. txQueue' \in [Records -> Seq(Senders)] BY <4>1, <4>2
        <4>4. table' \in [Routers -> Records \cup {Null}] BY <4>2
        <4>5. txCount' \in [Records -> 0..RxQuota] BY <4>2
        <4> QED BY <4>3, <4>4, <4>5
      <3> QED BY <1>12, <3>1, <3>2, Zenon DEF NewServer
    <2> QED BY <1>12, <2>1, <2>2 DEF NewServer, senders, endpoint, greeting
  <1>13. ASSUME NEW n \in Away, RemoveClient(n) PROVE TypeOK'
    <2>1. back' \in [Away -> Seq(Control)]
      <3>1. Tail(back[n]) \in Seq(Control) BY <1>13, TailFacts DEF RemoveClient
      <3> QED BY <1>13, <3>1 DEF RemoveClient
    <2>2. /\ n \in Routers /\ Unregister(n)
          /\ UNCHANGED <<pc, hold, link, state, flaps, endpoint, greeting>>
      BY <1>13 DEF RemoveClient, Away
    <2> QED BY <2>1, <2>2, UnregisterType DEF endpoint, greeting
  <1>14. ASSUME NEW n \in Away, ResumeTx(n) PROVE TypeOK'
    <2>1. back' \in [Away -> Seq(Control)]
      <3>1. Tail(back[n]) \in Seq(Control) BY <1>14, TailFacts DEF ResumeTx
      <3> QED BY <1>14, <3>1 DEF ResumeTx
    <2>2. /\ txCount' \in [Records -> 0..RxQuota]
          /\ txQueue' \in [Records -> Seq(Senders)]
          /\ event' \in [Senders -> BOOLEAN]
      <3>1. CASE table[n] # Null /\ Resume(table[n])
        <4>1. table[n] \in Records BY <3>1 DEF Away
        <4> QED BY <3>1, <4>1, ResumeType
      <3>2. CASE UNCHANGED <<txCount, txQueue, event>> BY <3>2
      <3> QED BY <1>14, <3>1, <3>2 DEF ResumeTx
    <2> QED BY <1>14, <2>1, <2>2 DEF ResumeTx, endpoint, greeting
  <1>15. ASSUME NEW n \in Away, LinkLost(n) PROVE TypeOK'
    BY <1>0, <1>15 DEF LinkLost, records, senders, endpoint, greeting
  <1>16. ASSUME NEW n \in Away, RemoteClose(n) PROVE TypeOK'
    <2>1. link' \in [Away -> Seq(BOOLEAN)] /\ state' \in [Away -> {"up", "lost", "down"}]
      BY <1>0, <1>16 DEF RemoteClose
    <2>2. /\ n \in Routers /\ Unregister(n)
          /\ UNCHANGED <<pc, hold, back, flaps, endpoint, greeting>>
      BY <1>16 DEF RemoteClose, Away
    <2> QED BY <2>1, <2>2, UnregisterType DEF endpoint, greeting
  <1>17. ASSUME NEW n \in Away, LinkUp(n) PROVE TypeOK'
    BY <1>17 DEF LinkUp, records, senders, endpoint
  <1>18. CASE UNCHANGED vars
    BY <1>18 DEF vars, records, senders, network, endpoint, greeting
  <1>19. \A s \in Senders :
           pc[s] \in {"found", "normal", "last", "busy"} => hold[s] \in Records
    BY DEF HoldsWhileInside
  <1>20. \A s \in Senders : GetToken(s) \/ SendMsg(s) \/ SendFails(s) \/ ReturnBusy(s)
                             => hold[s] \in Records
    BY <1>19 DEF GetToken, SendMsg, SendFails, ReturnBusy
  <1> HIDE DEF TypeOK
  <1> QED
    BY <1>1, <1>2, <1>3, <1>4, <1>5, <1>6, <1>7, <1>8, <1>9, <1>10, <1>11, <1>12,
       <1>13, <1>14, <1>15, <1>16, <1>17, <1>18, <1>20,
       <1>21, <1>22, <1>23, <1>24
    DEF Next, Sender, Reader, Worker, Closer, Greeter

\* The variables keep their types: no record ever gives more tokens than the
\* quota, and the queues and the network hold what they should.
THEOREM TypeCorrect == Spec => []TypeOK
  <1>1. Init => TypeOK /\ HoldsWhileInside /\ GreetingInOrder
    <2> SUFFICES ASSUME Init PROVE TypeOK /\ HoldsWhileInside /\ GreetingInOrder
      OBVIOUS
    <2>1. <<"new">> \in Seq(Control) BY DEF Control
    <2>2. HoldsWhileInside /\ GreetingInOrder
      BY DEF Init, HoldsWhileInside, GreetingInOrder
    <2>3. /\ table \in [Routers -> Records \cup {Null}]
          /\ txCount \in [Records -> 0..RxQuota]
          /\ txQueue \in [Records -> Seq(Senders)]
      BY EmptyFacts DEF Init
    <2>4. /\ pc \in [Senders -> {"idle", "found", "normal", "last", "busy", "wait"}]
          /\ hold \in [Senders -> Records \cup {Null}]
          /\ event \in [Senders -> BOOLEAN]
      BY DEF Init
    <2>5. /\ link \in [Away -> Seq(BOOLEAN)]
          /\ back \in [Away -> Seq(Control)]
          /\ state \in [Away -> {"up", "lost", "down"}]
          /\ flaps \in 0..MaxFlaps
          /\ phase \in {"open", "telling", "closed"} /\ totell \subseteq Away
          /\ inbox \in Seq(Message) /\ reader \in Routers \cup {Null}
          /\ hello \in Away \cup {Null} /\ known \in Records \cup {Null}
      BY <2>1, EmptyFacts DEF Init
    <2> QED BY <2>2, <2>3, <2>4, <2>5 DEF TypeOK
  <1>2. TypeOK /\ HoldsWhileInside /\ GreetingInOrder /\ [Next]_vars 
          => (TypeOK /\ HoldsWhileInside /\ GreetingInOrder)'
    BY TypeStep, HoldsStep, GreetingStep
  <1> QED BY <1>1, <1>2, PTL DEF Spec

-----------------------------------------------------------------------------
(***************************************************************************)
(* What happens to the records                                             *)
(***************************************************************************)

\* The record is left alone, or emptied and all its waiters woken.
KeptOrWoken(q) ==
  \/ txCount'[q] = txCount[q] /\ txQueue'[q] = txQueue[q]
  \/ /\ txCount'[q] = 0 /\ txQueue'[q] = <<>>
     /\ \A s \in Senders : Queued(s, q) => event'[s]

NoEventLost == \A s \in Senders : event[s] => event'[s]

\* resume_tx empties the bucket of a record and wakes all in its queue; no other
\* bucket changes and no event is lost.
LEMMA ResumeEffect ==
  ASSUME TypeOK, NEW r \in Records, Resume(r)
  PROVE  /\ \A q \in Records : KeptOrWoken(q)
         /\ NoEventLost
         /\ txCount'[r] = 0
         /\ \A s \in Senders : Queued(s, r) => event'[s]
  <1>1. \A s \in Senders : Queued(s, r) => event'[s]
    BY DEF Resume, Wake, Queued
  <1>2. NoEventLost
    BY DEF Resume, Wake, NoEventLost
  <1>3. /\ txCount'[r] = 0 /\ txQueue'[r] = <<>>
        /\ \A q \in Records : q # r => txCount'[q] = txCount[q] /\ txQueue'[q] = txQueue[q]
    BY DEF Resume, TypeOK
  <1> QED BY <1>1, <1>2, <1>3 DEF KeptOrWoken

\* The same of a record that is cleaned up, if it is.
LEMMA CleanupEffect ==
  ASSUME TypeOK, NEW dead, NEW r \in Records, CleanupIf(dead, r)
  PROVE  /\ \A q \in Records : KeptOrWoken(q)
         /\ NoEventLost
         /\ dead => \A s \in Senders : Queued(s, r) => event'[s]
  <1>1. CASE Resume(r) BY <1>1, ResumeEffect
  <1>2. CASE ~dead /\ UNCHANGED <<txCount, txQueue, event>>
    BY <1>2 DEF KeptOrWoken, NoEventLost
  <1> QED BY <1>1, <1>2 DEF CleanupIf

\* A waiter s of record r still has its place if the record is not emptied.
Waits(s) == pc[s] \in {"busy", "wait"} /\ ~event[s]
Alive(s, r) ==
  \/ table[RouterOf[s]] = r
  \/ ~Linked(r) /\ Held(r)

\* A record that is removed keeps its waiters only if somebody has it locked.
LEMMA UnregisterEffect ==
  ASSUME TypeOK, RecordOfOneRouter, NEW n \in Routers, Unregister(n), hold' = hold,
         known' = known
  PROVE  /\ \A q \in Records : KeptOrWoken(q)
         /\ NoEventLost
         /\ table'[n] = Null
         /\ \A m \in Routers : m # n => table'[m] = table[m]
         /\ \A s \in Senders, r \in Records :
              Queued(s, r) /\ Alive(s, r) /\ ~event'[s] => Alive(s, r)'
  <1>1. table'[n] = Null /\ \A m \in Routers : m # n => table'[m] = table[m]
    BY DEF Unregister, TypeOK
  <1>2. /\ \A q \in Records : KeptOrWoken(q)
        /\ NoEventLost
        /\ table[n] # Null /\ ~Held(table[n]) =>
             \A s \in Senders : Queued(s, table[n]) => event'[s]
    <2>1. CASE table[n] = Null
      BY <2>1 DEF Unregister, KeptOrWoken, NoEventLost
    <2>2. CASE table[n] # Null
      <3>1. table[n] \in Records /\ CleanupIf(~Held(table[n]), table[n])
        BY <2>2 DEF Unregister, TypeOK
      <3> QED BY <2>2, <3>1, CleanupEffect
    <2> QED BY <2>1, <2>2
  <1>3. ASSUME NEW s \in Senders, NEW r \in Records,
               Queued(s, r), Alive(s, r), ~event'[s]
        PROVE  Alive(s, r)'
    <2>0. RouterOf[s] \in Routers /\ r # Null
      OBVIOUS
    <2>1. Linked(r)' => Linked(r)
      BY <1>1, <2>0 DEF Linked
    <2>2. Held(r)' <=> Held(r)
      BY DEF Held, HeldBySenders
    <2>3. CASE table[RouterOf[s]] = r /\ n # RouterOf[s]
      BY <1>1, <2>0, <2>3 DEF Alive
    <2>4. CASE table[RouterOf[s]] = r /\ n = RouterOf[s]
      <3>1. Held(r)
        <4>1. table[n] = r BY <2>4
        <4>2. SUFFICES ASSUME ~Held(r) PROVE FALSE OBVIOUS
        <4>3. ~Held(table[n]) BY <4>1, <4>2
        <4>4. Queued(s, table[n]) BY <1>3, <4>1
        <4> QED BY <1>2, <1>3, <2>0, <4>1, <4>3, <4>4
      <3>2. ~Linked(r)'
        BY <1>1, <2>0, <2>4 DEF Linked, RecordOfOneRouter
      <3> QED BY <2>2, <3>1, <3>2 DEF Alive
    <2> QED BY <1>3, <2>1, <2>2, <2>3, <2>4 DEF Alive
  <1> QED BY <1>1, <1>2, <1>3

\* The same when a sender unlocks its record.
LEMMA UnlockEffect ==
  ASSUME TypeOK, NEW t \in Senders, hold[t] \in Records, Unlock(t), table' = table,
         known' = known
  PROVE  /\ \A q \in Records : KeptOrWoken(q)
         /\ NoEventLost
         /\ \A s \in Senders, r \in Records :
              Queued(s, r) /\ Alive(s, r) /\ ~event'[s] => Alive(s, r)'
  <1> DEFINE last == /\ ~Linked(hold[t]) /\ known # hold[t]
                     /\ ~\E u \in Senders \ {t} : hold[u] = hold[t]
  <1>1. /\ \A q \in Records : KeptOrWoken(q)
        /\ NoEventLost
        /\ last => \A s \in Senders : Queued(s, hold[t]) => event'[s]
    BY CleanupEffect DEF Unlock
  <1>2. \A u \in Senders : u # t => hold'[u] = hold[u]
    BY DEF Unlock, TypeOK
  <1>3. ASSUME NEW s \in Senders, NEW r \in Records,
               Queued(s, r), Alive(s, r), ~event'[s]
        PROVE  Alive(s, r)'
    <2>1. Linked(r)' <=> Linked(r) BY DEF Linked
    <2>2. CASE table[RouterOf[s]] = r BY <2>2 DEF Alive
    <2>3. CASE ~Linked(r) /\ Held(r)
      <3>1. CASE \E v \in Senders \ {t} : hold[v] = r
        BY <1>2, <2>1, <2>3, <3>1 DEF Alive, Held, HeldBySenders
      <3>2. CASE known = r BY <2>1, <2>3, <3>2 DEF Alive, Held
      <3>3. CASE known # r /\ ~\E v \in Senders \ {t} : hold[v] = r
        <4>1. PICK u \in Senders : hold[u] = r BY <2>3, <3>3 DEF Held, HeldBySenders
        <4>2. hold[t] = r BY <3>3, <4>1
        <4>3. last BY <2>3, <3>3, <4>2
        <4> QED BY <1>1, <1>3, <4>2, <4>3
      <3> QED BY <3>1, <3>2, <3>3
    <2> QED BY <1>3, <2>2, <2>3 DEF Alive
  <1> QED BY <1>1, <1>2, <1>3

\* The same when the record that was announced is unlocked.
LEMMA AnnounceEffect ==
  ASSUME TypeOK, Announce
  PROVE  /\ \A q \in Records : KeptOrWoken(q)
         /\ NoEventLost
         /\ \A s \in Senders, r \in Records :
              Queued(s, r) /\ Alive(s, r) /\ ~event'[s] => Alive(s, r)'
  <1>1. /\ known \in Records /\ table' = table /\ hold' = hold
        /\ CleanupIf(~Linked(known) /\ ~HeldBySenders(known), known)
    BY DEF Announce, TypeOK
  <1>2. /\ \A q \in Records : KeptOrWoken(q)
        /\ NoEventLost
        /\ ~Linked(known) /\ ~HeldBySenders(known) =>
             \A s \in Senders : Queued(s, known) => event'[s]
    BY <1>1, CleanupEffect
  <1>3. ASSUME NEW s \in Senders, NEW r \in Records,
               Queued(s, r), Alive(s, r), ~event'[s]
        PROVE  Alive(s, r)'
    <2>1. Linked(r)' <=> Linked(r) BY <1>1 DEF Linked
    <2>2. HeldBySenders(r)' <=> HeldBySenders(r) BY <1>1 DEF HeldBySenders
    <2>3. CASE table[RouterOf[s]] = r BY <1>1, <2>3 DEF Alive
    <2>4. CASE ~Linked(r) /\ HeldBySenders(r) BY <2>1, <2>2, <2>4 DEF Alive, Held
    <2>5. CASE ~Linked(r) /\ ~HeldBySenders(r) /\ known = r BY <1>2, <1>3, <2>5
    <2> QED BY <1>3, <2>3, <2>4, <2>5 DEF Alive, Held
  <1> QED BY <1>2, <1>3

\* A waiter keeps its place when no record but emptied ones change.
LEMMA WaitersKept ==
  ASSUME WaitersAreQueued, NoEventLost, \A q \in Records : KeptOrWoken(q),
         \A s \in Senders, r \in Records :
           Queued(s, r) /\ Alive(s, r) /\ ~event'[s] => Alive(s, r)',
         NEW s \in Senders, Waits(s), Waits(s)'
  PROVE  \E r \in Records : Queued(s, r)' /\ Alive(s, r)'
  <1>1. PICK r \in Records : Queued(s, r) /\ Alive(s, r)
    BY DEF WaitersAreQueued, Waits, Alive
  <1>2. ~event'[s] BY DEF Waits
  <1>3. txQueue'[r] = txQueue[r] BY <1>1, <1>2 DEF KeptOrWoken
  <1>4. Queued(s, r)' BY <1>1, <1>3 DEF Queued
  <1> QED BY <1>1, <1>2, <1>4

\* When buckets only stay or empty with their queues, only full buckets have waiters
\* still.
LEMMA QuotaKept ==
  ASSUME WaitersNeedFullQuota, \A q \in Records : KeptOrWoken(q)
  PROVE  WaitersNeedFullQuota'
  BY DEF WaitersNeedFullQuota, KeptOrWoken

-----------------------------------------------------------------------------
(***************************************************************************)
(* Routers share no record                                                 *)
(***************************************************************************)

\* Every step keeps a record in the table of one router.
LEMMA OneRouterStep ==
  ASSUME TypeOK, RecordOfOneRouter, [Next]_vars
  PROVE  RecordOfOneRouter'
  <1>1. ASSUME \A n \in Routers : table'[n] \in {table[n], Null},
               \A s \in Senders : hold'[s] \in {hold[s], Null}
        PROVE  RecordOfOneRouter'
    BY <1>1 DEF RecordOfOneRouter
  <1>2. ASSUME NEW s \in Senders, FindNone(s) \/ GetToken(s) \/ Retry(s) \/ TimeOut(s)
        PROVE  RecordOfOneRouter'
    <2>1. table' = table /\ hold' = hold
      BY <1>2 DEF FindNone, GetToken, Retry, TimeOut, vars, records, senders
    <2> QED BY <1>1, <2>1
  <1>3. ASSUME NEW s \in Senders, Find(s) PROVE RecordOfOneRouter'
    <2>1. table' = table /\ table[RouterOf[s]] # Null
      BY <1>3 DEF Find, records
    <2>2. hold'[s] = table[RouterOf[s]] /\ \A t \in Senders : t # s => hold'[t] = hold[t]
      BY <1>3 DEF Find, TypeOK
    <2>3. RouterOf[s] \in Routers OBVIOUS
    <2> QED BY <2>1, <2>2, <2>3 DEF RecordOfOneRouter
  <1>4. ASSUME NEW s \in Senders, SendMsg(s) \/ SendFails(s) \/ ReturnBusy(s)
        PROVE  RecordOfOneRouter'
    <2>1. table' = table /\ hold' = [hold EXCEPT ![s] = Null]
      BY <1>4 DEF SendMsg, SendFails, ReturnBusy, Unlock
    <2> QED BY <1>1, <2>1 DEF TypeOK
  <1>5. ASSUME Reader \/ CloseBegin \/ Greeter PROVE RecordOfOneRouter'
    BY <1>1, <1>5 DEF Reader, Read, Confirm, CloseBegin, Greeter, FindServer, Announce,
                      records, senders
  <1>6. ASSUME NEW n \in Routers, Unregister(n), hold' = hold PROVE RecordOfOneRouter'
    BY <1>1, <1>6 DEF Unregister, TypeOK
  <1>7. ASSUME Closer PROVE RecordOfOneRouter'
    <2>1. CASE CloseEnd BY <1>6, <2>1 DEF CloseEnd
    <2>2. CASE \E n \in Away : Tell(n) BY <1>1, <2>2 DEF Tell, records, senders
    <2> QED BY <1>7, <2>1, <2>2 DEF Closer
  <1>8. ASSUME NEW n \in Away, NewServer(n) PROVE RecordOfOneRouter'
    <2>1. hold' = hold BY <1>8 DEF NewServer, senders
    <2>2. CASE UNCHANGED records BY <1>1, <2>1, <2>2 DEF records
    <2>3. CASE \E r \in Records : /\ ~Linked(r) /\ ~Held(r)
                                  /\ table' = [table EXCEPT ![n] = r]
      <3>1. PICK r \in Records : /\ ~Linked(r) /\ ~Held(r)
                                 /\ table' = [table EXCEPT ![n] = r]
        BY <2>3
      <3>2. n \in Routers /\ r # Null BY DEF Away
      <3>3. table'[n] = r /\ \A m \in Routers : m # n => table'[m] = table[m]
        BY <3>1, <3>2 DEF TypeOK
      <3>4. /\ \A m \in Routers : table[m] # r
            /\ \A s \in Senders : hold[s] # r
        BY <3>1 DEF Linked, Held, HeldBySenders
      <3> QED BY <2>1, <3>2, <3>3, <3>4 DEF RecordOfOneRouter
    <2> QED BY <1>8, <2>2, <2>3, Zenon DEF NewServer
  <1>9. ASSUME NEW n \in Away, RemoveClient(n) \/ RemoteClose(n) PROVE RecordOfOneRouter'
    <2>1. n \in Routers /\ Unregister(n) /\ hold' = hold
      BY <1>9 DEF RemoveClient, RemoteClose, Away
    <2> QED BY <1>6, <2>1
  <1>10. ASSUME NEW n \in Away, Receive(n) \/ ResumeTx(n) \/ LinkLost(n) \/ LinkUp(n)
         PROVE  RecordOfOneRouter'
    BY <1>1, <1>10 DEF Receive, ResumeTx, LinkLost, LinkUp, records, senders
  <1>11. CASE UNCHANGED vars BY <1>1, <1>11 DEF vars, records, senders
  <1> QED
    BY <1>2, <1>3, <1>4, <1>5, <1>7, <1>8, <1>9, <1>10, <1>11
    DEF Next, Sender, Worker

-----------------------------------------------------------------------------
(***************************************************************************)
(* Links that fell                                                         *)
(***************************************************************************)

\* Every step keeps what a fallen link carries empty.
LEMMA FallenLinkStep ==
  ASSUME TypeOK, FallenLinkIsEmpty, [Next]_vars
  PROVE  FallenLinkIsEmpty'
  <1>0. Away \subseteq Routers BY DEF Away
  <1>1. ASSUME \A n \in Away : /\ table'[n] \in {table[n], Null} \/ state[n] = "up"
                               /\ back'[n] = back[n] \/ state[n] = "up"
                               /\ state'[n] = state[n]
        PROVE  FallenLinkIsEmpty'
    BY <1>1 DEF FallenLinkIsEmpty
  <1>2. ASSUME NEW s \in Senders, FindNone(s) \/ Find(s) \/ Sender(s) \/ TimeOut(s)
        PROVE  FallenLinkIsEmpty'
    <2>1. table' = table /\ back' = back /\ state' = state
      BY <1>2 DEF FindNone, Find, Sender, GetToken, SendMsg, SendFails, ReturnBusy, Retry,
                  TimeOut, vars, records, network
    <2> QED BY <1>1, <2>1
  <1>3. ASSUME Read PROVE FallenLinkIsEmpty'
    BY <1>1, <1>3 DEF Read, records, network
  <1>4. ASSUME Confirm PROVE FallenLinkIsEmpty'
    <2>1. table' = table /\ state' = state BY <1>4 DEF Confirm
    <2>2. \A n \in Away : back'[n] = back[n] \/ state[n] = "up"
      <3>1. CASE back' = back BY <3>1
      <3>2. CASE state[reader] = "up" /\ back' = [back EXCEPT ![reader] = Append(@, "resume")]
        BY <3>2 DEF TypeOK
      <3> QED BY <1>4, <3>1, <3>2, Zenon DEF Confirm
    <2> QED BY <1>1, <2>1, <2>2
  <1>5. ASSUME Closer PROVE FallenLinkIsEmpty'
    <2>1. CASE CloseEnd
      <3>1. \A n \in Away : table'[n] \in {table[n], Null}
        BY <1>0, <2>1 DEF CloseEnd, Unregister, TypeOK
      <3>2. back' = back /\ state' = state BY <2>1 DEF CloseEnd, network
      <3> QED BY <1>1, <3>1, <3>2
    <2>2. ASSUME NEW n \in Away, Tell(n) PROVE FallenLinkIsEmpty'
      <3>1. table' = table /\ state' = state BY <2>2 DEF Tell, records
      <3>2. \A m \in Away : back'[m] = back[m] \/ state[m] = "up"
        <4>1. CASE back' = back BY <4>1
        <4>2. CASE state[n] = "up" /\ back' = [back EXCEPT ![n] = Append(@, "remove")]
          BY <4>2 DEF TypeOK
        <4> QED BY <2>2, <4>1, <4>2, Zenon DEF Tell
      <3> QED BY <1>1, <3>1, <3>2
    <2> QED BY <1>5, <2>1, <2>2 DEF Closer
  <1>12. ASSUME CloseBegin \/ FindServer PROVE FallenLinkIsEmpty'
    BY <1>1, <1>12 DEF CloseBegin, FindServer, records, network
  <1>13. ASSUME Announce PROVE FallenLinkIsEmpty'
    <2>1. table' = table /\ state' = state BY <1>13 DEF Announce
    <2>2. \A m \in Away : back'[m] = back[m] \/ state[m] = "up"
      <3>1. CASE back' = back BY <3>1
      <3>2. CASE state[hello] = "up" /\ back' = [back EXCEPT ![hello] = Append(@, "new")]
        BY <3>2 DEF TypeOK
      <3> QED BY <1>13, <3>1, <3>2, Zenon DEF Announce
    <2> QED BY <1>1, <2>1, <2>2
  <1>6. ASSUME NEW n \in Away, NewServer(n) \/ RemoveClient(n) \/ ResumeTx(n)
        PROVE  FallenLinkIsEmpty'
    <2>1. state' = state /\ state[n] = "up"
      BY <1>6 DEF NewServer, RemoveClient, ResumeTx
    <2>2. \A m \in Away : m # n => table'[m] = table[m]
      BY <1>0, <1>6 DEF NewServer, RemoveClient, ResumeTx, Unregister, records, TypeOK
    <2>3. \A m \in Away : m # n => back'[m] = back[m]
      BY <1>6 DEF NewServer, RemoveClient, ResumeTx, TypeOK
    <2> QED BY <1>1, <2>1, <2>2, <2>3
  <1>7. ASSUME NEW n \in Away, Receive(n) PROVE FallenLinkIsEmpty'
    BY <1>1, <1>7 DEF Receive, records
  <1>8. ASSUME NEW n \in Away, LinkLost(n) PROVE FallenLinkIsEmpty'
    BY <1>8 DEF LinkLost, records, FallenLinkIsEmpty, TypeOK
  <1>9. ASSUME NEW n \in Away, RemoteClose(n) PROVE FallenLinkIsEmpty'
    <2>1. /\ table'[n] = Null
          /\ \A m \in Away : m # n => table'[m] = table[m]
      BY <1>0, <1>9 DEF RemoteClose, Unregister, TypeOK
    <2>2. back' = back /\ state' = [state EXCEPT ![n] = "down"] /\ state[n] = "lost"
      BY <1>9 DEF RemoteClose
    <2> QED BY <2>1, <2>2 DEF FallenLinkIsEmpty, TypeOK
  <1>10. ASSUME NEW n \in Away, LinkUp(n) PROVE FallenLinkIsEmpty'
    BY <1>10 DEF LinkUp, records, FallenLinkIsEmpty, TypeOK
  <1>11. CASE UNCHANGED vars BY <1>1, <1>11 DEF vars, records, network
  <1> QED
    BY <1>2, <1>3, <1>4, <1>5, <1>6, <1>7, <1>8, <1>9, <1>10, <1>11, <1>12, <1>13
    DEF Next, Reader, Worker, Greeter

-----------------------------------------------------------------------------
(***************************************************************************)
(* A closed endpoint                                                       *)
(***************************************************************************)

\* Every step keeps a closed endpoint out of Home's table and its inbox empty.
LEMMA ClosedStep ==
  ASSUME TypeOK, ClosedIsRemoved, [Next]_vars
  PROVE  ClosedIsRemoved'
  <1>0. Home \in Routers /\ Home \notin Away /\ Away \subseteq Routers BY DEF Away
  <1>1. ASSUME phase' = phase, totell' \subseteq totell, table'[Home] = table[Home],
               phase = "closed" => inbox' = inbox
        PROVE  ClosedIsRemoved'
    BY <1>1 DEF ClosedIsRemoved
  <1>2. ASSUME NEW s \in Senders, FindNone(s) \/ Find(s) \/ Sender(s) \/ TimeOut(s)
        PROVE  ClosedIsRemoved'
    <2>1. phase' = phase /\ totell' = totell /\ table' = table
      BY <1>2 DEF FindNone, Find, Sender, GetToken, SendMsg, SendFails, ReturnBusy, Retry,
                  TimeOut, vars, records, endpoint
    <2>2. phase = "closed" => inbox' = inbox
      BY <1>2 DEF FindNone, Find, Sender, GetToken, SendMsg, SendFails, ReturnBusy, Retry,
                  TimeOut, Deliver, vars, endpoint
    <2> QED BY <1>1, <2>1, <2>2
  <1>3. ASSUME Reader \/ Greeter PROVE ClosedIsRemoved'
    BY <1>1, <1>3 DEF Reader, Read, Confirm, Greeter, FindServer, Announce, records, endpoint
  <1>4. ASSUME CloseBegin PROVE ClosedIsRemoved'
    BY <1>4 DEF CloseBegin, ClosedIsRemoved, records
  <1>5. ASSUME Closer PROVE ClosedIsRemoved'
    <2>1. CASE CloseEnd
      <3>1. table'[Home] = Null BY <1>0, <2>1 DEF CloseEnd, Unregister, TypeOK
      <3> QED BY <2>1, <3>1 DEF CloseEnd, ClosedIsRemoved
    <2>2. CASE \E n \in Away : Tell(n) BY <1>1, <2>2 DEF Tell, records
    <2> QED BY <1>5, <2>1, <2>2 DEF Closer
  <1>6. ASSUME NEW n \in Away, Receive(n) \/ Worker(n) \/ LinkLost(n) \/ LinkUp(n)
        PROVE  ClosedIsRemoved'
    <2>1. phase' = phase /\ totell' = totell /\ (phase = "closed" => inbox' = inbox)
      BY <1>6 DEF Receive, Worker, NewServer, RemoveClient, ResumeTx, RemoteClose, LinkLost,
                  LinkUp, endpoint
    <2>2. table'[Home] = table[Home]
      BY <1>0, <1>6 DEF Receive, Worker, NewServer, RemoveClient, ResumeTx, RemoteClose,
                  LinkLost, LinkUp, Unregister, records, TypeOK
    <2> QED BY <1>1, <2>1, <2>2
  <1>7. CASE UNCHANGED vars BY <1>1, <1>7 DEF vars, records, endpoint
  <1> QED BY <1>2, <1>3, <1>4, <1>5, <1>6, <1>7 DEF Next

-----------------------------------------------------------------------------
(***************************************************************************)
(* Waiters                                                                 *)
(***************************************************************************)

\* Nobody joins a queue that is not full.
LEMMA FullStep ==
  ASSUME TypeOK, HoldsWhileInside, WaitersNeedFullQuota, [Next]_vars
  PROVE  WaitersNeedFullQuota'
  <1>0. Away \subseteq Routers BY DEF Away
  <1>1. ASSUME txCount' = txCount, txQueue' = txQueue PROVE WaitersNeedFullQuota'
    BY <1>1 DEF WaitersNeedFullQuota
  <1>2. ASSUME NEW s \in Senders, FindNone(s) \/ Find(s) \/ Retry(s) \/ TimeOut(s)
        PROVE  WaitersNeedFullQuota'
    BY <1>1, <1>2 DEF FindNone, Find, Retry, TimeOut, vars, records
  <1>3. ASSUME NEW s \in Senders, GetToken(s) PROVE WaitersNeedFullQuota'
    <2>1. hold[s] \in Records BY <1>3 DEF GetToken, HoldsWhileInside, TypeOK
    <2>2. CASE /\ txCount[hold[s]] < RxQuota
               /\ txCount' = [txCount EXCEPT ![hold[s]] = @ + 1]
               /\ UNCHANGED txQueue
      <3>1. txQueue[hold[s]] = <<>> BY <2>1, <2>2 DEF WaitersNeedFullQuota, TypeOK
      <3> QED BY <2>1, <2>2, <3>1 DEF WaitersNeedFullQuota, TypeOK
    <2>3. CASE /\ txCount[hold[s]] = RxQuota
               /\ txQueue' = [txQueue EXCEPT ![hold[s]] = Append(@, s)]
               /\ UNCHANGED txCount
      BY <2>1, <2>3 DEF WaitersNeedFullQuota, TypeOK
    <2>4. CASE UNCHANGED <<txCount, txQueue>> BY <1>1, <2>4
    <2> QED BY <1>3, <2>2, <2>3, <2>4, Zenon DEF GetToken
  <1>4. ASSUME NEW s \in Senders, SendMsg(s) \/ SendFails(s) \/ ReturnBusy(s)
        PROVE  WaitersNeedFullQuota'
    <2>1. hold[s] \in Records /\ Unlock(s) /\ table' = table /\ known' = known
      BY <1>4 DEF SendMsg, SendFails, ReturnBusy, HoldsWhileInside, TypeOK, greeting
    <2> QED BY <2>1, UnlockEffect, QuotaKept
  <1>5. ASSUME Read \/ CloseBegin \/ FindServer PROVE WaitersNeedFullQuota'
    BY <1>1, <1>5 DEF Read, CloseBegin, FindServer, records
  <1>6. ASSUME NEW r \in Records, Resume(r) PROVE WaitersNeedFullQuota'
    BY <1>6, ResumeEffect, QuotaKept
  <1>7. ASSUME Confirm PROVE WaitersNeedFullQuota'
    <2>1. CASE table[Home] # Null /\ Resume(table[Home])
      BY <1>6, <2>1 DEF TypeOK
    <2>2. CASE UNCHANGED <<txCount, txQueue>> BY <1>1, <2>2
    <2> QED BY <1>7, <2>1, <2>2 DEF Confirm
  <1>8. ASSUME NEW n \in Routers, Unregister(n) PROVE WaitersNeedFullQuota'
    <2>1. CASE table[n] = Null BY <1>1, <1>8, <2>1 DEF Unregister
    <2>2. CASE table[n] # Null
      <3>1. table[n] \in Records /\ CleanupIf(~Held(table[n]), table[n])
        BY <1>8, <2>2 DEF Unregister, TypeOK
      <3> QED BY <3>1, CleanupEffect, QuotaKept
    <2> QED BY <2>1, <2>2
  <1>9. ASSUME Closer PROVE WaitersNeedFullQuota'
    <2>1. CASE CloseEnd BY <1>8, <2>1 DEF CloseEnd
    <2>2. CASE \E n \in Away : Tell(n) BY <1>1, <2>2 DEF Tell, records
    <2> QED BY <1>9, <2>1, <2>2 DEF Closer
  <1>15. ASSUME Announce PROVE WaitersNeedFullQuota'
    BY <1>15, AnnounceEffect, QuotaKept
  <1>10. ASSUME NEW n \in Away, NewServer(n) PROVE WaitersNeedFullQuota'
    <2>1. CASE UNCHANGED records BY <1>1, <2>1 DEF records
    <2>2. CASE \E r \in Records : /\ txCount' = [txCount EXCEPT ![r] = 0]
                                  /\ txQueue' = [txQueue EXCEPT ![r] = <<>>]
      BY <2>2 DEF WaitersNeedFullQuota, TypeOK
    <2> QED BY <1>10, <2>1, <2>2, Zenon DEF NewServer
  <1>11. ASSUME NEW n \in Away, RemoveClient(n) \/ RemoteClose(n) PROVE WaitersNeedFullQuota'
    BY <1>0, <1>8, <1>11 DEF RemoveClient, RemoteClose
  <1>12. ASSUME NEW n \in Away, ResumeTx(n) PROVE WaitersNeedFullQuota'
    <2>1. CASE table[n] # Null /\ Resume(table[n])
      BY <1>0, <1>6, <2>1 DEF TypeOK
    <2>2. CASE UNCHANGED <<txCount, txQueue>> BY <1>1, <2>2
    <2> QED BY <1>12, <2>1, <2>2 DEF ResumeTx
  <1>13. ASSUME NEW n \in Away, Receive(n) \/ LinkLost(n) \/ LinkUp(n)
         PROVE  WaitersNeedFullQuota'
    BY <1>1, <1>13 DEF Receive, LinkLost, LinkUp, records
  <1>14. CASE UNCHANGED vars BY <1>1, <1>14 DEF vars, records
  <1> QED
    BY <1>2, <1>3, <1>4, <1>5, <1>7, <1>9, <1>10, <1>11, <1>12, <1>13, <1>14, <1>15
    DEF Next, Sender, Reader, Worker, Greeter

\* Records that nobody removes or unlocks keep their waiters.
LEMMA AliveKept ==
  ASSUME table' = table, \A r \in Records : Held(r) => Held(r)',
         NEW s \in Senders, NEW r \in Records, Alive(s, r)
  PROVE  Alive(s, r)'
  BY DEF Alive, Linked

\* Every step keeps a waiting sender in the queue it waits for.
LEMMA QueuedStep ==
  ASSUME TypeOK, HoldsWhileInside, RecordOfOneRouter, WaitersAreQueued, Faults \subseteq {"normal"},
         [Next]_vars
  PROVE  WaitersAreQueued'
  <1>0. Away \subseteq Routers BY DEF Away
  <1>1. SUFFICES ASSUME NEW s \in Senders, Waits(s)'
                 PROVE  \E r \in Records : Queued(s, r)' /\ Alive(s, r)'
    BY DEF WaitersAreQueued, Waits, Alive
  <1>2. ASSUME NoEventLost, \A q \in Records : KeptOrWoken(q),
               \A u \in Senders, r \in Records :
                 Queued(u, r) /\ Alive(u, r) /\ ~event'[u] => Alive(u, r)',
               pc'[s] \in {"busy", "wait"} => pc[s] \in {"busy", "wait"}
        PROVE  \E r \in Records : Queued(s, r)' /\ Alive(s, r)'
    <2>1. Waits(s) BY <1>1, <1>2 DEF Waits, NoEventLost
    <2> QED BY <1>1, <1>2, <2>1, WaitersKept
  <1>3. ASSUME table' = table, hold' = hold, known' = known \/ known = Null,
               txCount' = txCount, txQueue' = txQueue, event' = event,
               pc'[s] \in {"busy", "wait"} => pc[s] \in {"busy", "wait"}
        PROVE  \E r \in Records : Queued(s, r)' /\ Alive(s, r)'
    <2>1. NoEventLost /\ \A q \in Records : KeptOrWoken(q)
      BY <1>3 DEF NoEventLost, KeptOrWoken
    <2>2. \A r \in Records : Held(r) => Held(r)' BY <1>3 DEF Held, HeldBySenders
    <2> QED BY <1>2, <1>3, <2>1, <2>2, AliveKept
  <1>4. ASSUME NEW t \in Senders, FindNone(t) \/ Retry(t) \/ TimeOut(t)
        PROVE  \E r \in Records : Queued(s, r)' /\ Alive(s, r)'
    <2>1. UNCHANGED <<table, hold, known, txCount, txQueue, event>>
      BY <1>4 DEF FindNone, Retry, TimeOut, vars, records, senders, greeting
    <2>2. pc' = pc \/ pc' = [pc EXCEPT ![t] = "idle"]
      BY <1>4 DEF FindNone, Retry, TimeOut, vars, senders
    <2>3. pc'[s] \in {"busy", "wait"} => pc[s] \in {"busy", "wait"}
      BY <2>2 DEF TypeOK
    <2> QED BY <1>3, <2>1, <2>3
  <1>5. ASSUME NEW t \in Senders, Find(t)
        PROVE  \E r \in Records : Queued(s, r)' /\ Alive(s, r)'
    <2>1. s # t /\ Waits(s) BY <1>1, <1>5 DEF Find, Waits, TypeOK
    <2>2. PICK r \in Records : Queued(s, r) /\ Alive(s, r)
      BY <2>1 DEF WaitersAreQueued, Waits, Alive
    <2>3. hold[t] = Null BY <1>5 DEF Find, HoldsWhileInside
    <2>4. ASSUME NEW q \in Records, Held(q) PROVE Held(q)'
      <3>1. CASE known = q BY <1>5, <3>1 DEF Find, greeting, Held
      <3>2. CASE known # q
        <4>1. PICK u \in Senders : hold[u] = q BY <2>4, <3>2 DEF Held, HeldBySenders
        <4>2. u # t BY <2>3, <4>1
        <4>3. hold'[u] = q BY <1>5, <4>1, <4>2 DEF Find, TypeOK
        <4> QED BY <4>3 DEF Held, HeldBySenders
      <3> QED BY <3>1, <3>2
    <2>5. Queued(s, r)' BY <1>5, <2>2 DEF Find, Queued, records
    <2>6. table' = table BY <1>5 DEF Find, records
    <2>7. Alive(s, r)' BY <2>2, <2>4, <2>6, AliveKept
    <2> QED BY <2>5, <2>7
  <1>6. ASSUME NEW t \in Senders, GetToken(t)
        PROVE  \E r \in Records : Queued(s, r)' /\ Alive(s, r)'
    <2>1. /\ table' = table /\ hold' = hold /\ event' = event /\ known' = known
          /\ hold[t] \in Records
          /\ \A q \in Records : txQueue[q] \in Seq(Senders)
      BY <1>6 DEF GetToken, HoldsWhileInside, TypeOK, greeting
    <2>2. \A u \in Senders, q \in Records : Queued(u, q) => Queued(u, q)'
      <3>1. CASE txQueue' = txQueue BY <3>1 DEF Queued
      <3>2. CASE txQueue' = [txQueue EXCEPT ![hold[t]] = Append(@, t)]
        <4>1. txQueue'[hold[t]] = Append(txQueue[hold[t]], t) BY <2>1, <3>2 DEF TypeOK
        <4>2. \A q \in Records : q # hold[t] => txQueue'[q] = txQueue[q]
          BY <3>2 DEF TypeOK
        <4>3. \A i \in DOMAIN txQueue[hold[t]] :
                /\ i \in DOMAIN txQueue'[hold[t]]
                /\ txQueue'[hold[t]][i] = txQueue[hold[t]][i]
          BY <2>1, <4>1, AppendFacts
        <4> QED BY <4>2, <4>3 DEF Queued
      <3> QED BY <1>6, <3>1, <3>2, Zenon DEF GetToken
    <2>3. CASE s # t
      <3>1. Waits(s)
        <4>1. PICK c \in {"normal", "last", "busy"} : pc' = [pc EXCEPT ![t] = c]
          BY <1>6, Zenon DEF GetToken
        <4> QED BY <1>1, <2>1, <2>3, <4>1 DEF Waits, TypeOK
      <3>2. PICK r \in Records : Queued(s, r) /\ Alive(s, r)
        BY <3>1 DEF WaitersAreQueued, Waits, Alive
      <3>3. \A q \in Records : Held(q) => Held(q)' BY <2>1 DEF Held, HeldBySenders
      <3> QED BY <2>1, <2>2, <3>2, <3>3, AliveKept
    <2>4. CASE s = t
      <3>1. Queued(s, hold[s])'
        <4>1. CASE Queued(s, hold[s]) BY <2>1, <2>2, <2>4, <4>1, ZenonT(60) DEF Queued
        <4>2. CASE txQueue' = [txQueue EXCEPT ![hold[s]] = Append(@, s)]
          <5>1. txQueue'[hold[s]] = Append(txQueue[hold[s]], s)
            BY <2>1, <2>4, <4>2 DEF TypeOK
          <5>2. \E i \in DOMAIN txQueue'[hold[s]] : txQueue'[hold[s]][i] = s
            BY <2>1, <2>4, <5>1, AppendFacts
          <5> QED BY <2>1, <5>2 DEF Queued
        <4>3. CASE pc' = [pc EXCEPT ![s] = IF txCount[hold[s]] + 1 = RxQuota THEN "last" ELSE "normal"]
          BY <1>1, <4>3 DEF Waits, TypeOK
        <4>4. "node" \notin Faults OBVIOUS
        <4> QED BY <1>6, <2>4, <4>1, <4>2, <4>3, <4>4, Zenon DEF GetToken, Queued
      <3>2. Alive(s, hold[s])'
        <4>1. Held(hold[s])' BY <2>1 DEF Held, HeldBySenders
        <4>2. Linked(hold[s]) => table[RouterOf[s]] = hold[s]
          BY <2>1, <2>4 DEF Linked, RecordOfOneRouter
        <4> QED BY <2>1, <4>1, <4>2 DEF Alive, Linked
      <3> QED BY <2>1, <2>4, <3>1, <3>2 DEF Queued, Alive, Linked, Held, HeldBySenders
    <2> QED BY <2>3, <2>4
  <1>7. ASSUME NEW t \in Senders, SendMsg(t) \/ SendFails(t) \/ ReturnBusy(t)
        PROVE  \E r \in Records : Queued(s, r)' /\ Alive(s, r)'
    <2>1. hold[t] \in Records /\ Unlock(t) /\ table' = table /\ known' = known
      BY <1>7 DEF SendMsg, SendFails, ReturnBusy, HoldsWhileInside, TypeOK, greeting
    <2>2. pc'[s] \in {"busy", "wait"} => pc[s] \in {"busy", "wait"}
      BY <1>7 DEF SendMsg, SendFails, ReturnBusy, TypeOK
    <2>3. /\ NoEventLost
          /\ \A q \in Records : KeptOrWoken(q)
          /\ \A u \in Senders, r \in Records :
               Queued(u, r) /\ Alive(u, r) /\ ~event'[u] => Alive(u, r)'
      BY <2>1, UnlockEffect
    <2> QED BY <1>2, <2>2, <2>3
  <1>8. ASSUME NEW n \in Routers, Unregister(n), hold' = hold, known' = known, pc' = pc
        PROVE  \E r \in Records : Queued(s, r)' /\ Alive(s, r)'
    <2>1. /\ NoEventLost
          /\ \A q \in Records : KeptOrWoken(q)
          /\ \A u \in Senders, r \in Records :
               Queued(u, r) /\ Alive(u, r) /\ ~event'[u] => Alive(u, r)'
      BY <1>8, UnregisterEffect
    <2> QED BY <1>2, <1>8, <2>1
  <1>9. ASSUME NEW r \in Records, Resume(r), table' = table, hold' = hold, known' = known, pc' = pc
        PROVE  \E q \in Records : Queued(s, q)' /\ Alive(s, q)'
    <2>1. NoEventLost /\ \A q \in Records : KeptOrWoken(q)
      BY <1>9, ResumeEffect
    <2>2. \A q \in Records : Held(q) => Held(q)' BY <1>9 DEF Held, HeldBySenders
    <2> QED BY <1>2, <1>9, <2>1, <2>2, AliveKept
  <1>10. ASSUME Read \/ CloseBegin \/ FindServer
         PROVE  \E r \in Records : Queued(s, r)' /\ Alive(s, r)'
    BY <1>3, <1>10 DEF Read, CloseBegin, FindServer, records, senders, greeting
  <1>11. ASSUME Confirm PROVE \E r \in Records : Queued(s, r)' /\ Alive(s, r)'
    <2>1. table' = table /\ hold' = hold /\ pc' = pc /\ known' = known
      BY <1>11 DEF Confirm, greeting
    <2>2. CASE table[Home] # Null /\ Resume(table[Home])
      BY <1>9, <2>1, <2>2 DEF TypeOK
    <2>3. CASE UNCHANGED <<txCount, txQueue, event>> BY <1>3, <2>1, <2>3
    <2> QED BY <1>11, <2>2, <2>3 DEF Confirm
  <1>12. ASSUME Closer PROVE \E r \in Records : Queued(s, r)' /\ Alive(s, r)'
    <2>1. CASE CloseEnd BY <1>8, <2>1 DEF CloseEnd, greeting
    <2>2. CASE \E n \in Away : Tell(n)
      BY <1>3, <2>2 DEF Tell, records, senders, greeting
    <2> QED BY <1>12, <2>1, <2>2 DEF Closer
  <1>18. ASSUME Announce PROVE \E r \in Records : Queued(s, r)' /\ Alive(s, r)'
    <2>1. pc' = pc BY <1>18 DEF Announce
    <2>2. /\ NoEventLost
          /\ \A q \in Records : KeptOrWoken(q)
          /\ \A u \in Senders, r \in Records :
               Queued(u, r) /\ Alive(u, r) /\ ~event'[u] => Alive(u, r)'
      BY <1>18, AnnounceEffect
    <2> QED BY <1>2, <2>1, <2>2
  <1>13. ASSUME NEW n \in Away, NewServer(n)
         PROVE  \E r \in Records : Queued(s, r)' /\ Alive(s, r)'
    <2>1. pc' = pc /\ hold' = hold /\ event' = event /\ known' = known
      BY <1>13 DEF NewServer, senders, greeting
    <2>2. CASE UNCHANGED records BY <1>3, <2>1, <2>2 DEF records
    <2>3. CASE \E r \in Records : /\ ~Linked(r) /\ ~Held(r) /\ table[n] = Null
                                  /\ table' = [table EXCEPT ![n] = r]
                                  /\ txQueue' = [txQueue EXCEPT ![r] = <<>>]
      <3>1. PICK r \in Records : /\ ~Linked(r) /\ ~Held(r) /\ table[n] = Null
                                 /\ table' = [table EXCEPT ![n] = r]
                                 /\ txQueue' = [txQueue EXCEPT ![r] = <<>>]
        BY <2>3
      <3>2. Waits(s) BY <1>1, <2>1 DEF Waits
      <3>3. PICK q \in Records : Queued(s, q) /\ Alive(s, q)
        BY <3>2 DEF WaitersAreQueued, Waits, Alive
      <3>4. q # r /\ q # Null /\ RouterOf[s] \in Routers
        BY <3>1, <3>3 DEF Alive, Linked
      <3>5. Queued(s, q)' BY <3>1, <3>3, <3>4 DEF Queued, TypeOK
      <3>6. table'[n] = r /\ \A m \in Routers : m # n => table'[m] = table[m]
        BY <1>0, <3>1 DEF TypeOK
      <3>7. ASSUME table[RouterOf[s]] = q PROVE Alive(s, q)'
        BY <3>1, <3>4, <3>6, <3>7 DEF Alive
      <3>8. ASSUME ~Linked(q), Held(q) PROVE Alive(s, q)'
        BY <2>1, <3>4, <3>6, <3>8 DEF Alive, Linked, Held, HeldBySenders
      <3>9. Alive(s, q)' BY <3>3, <3>7, <3>8 DEF Alive
      <3> QED BY <3>5, <3>9
    <2> QED BY <1>13, <2>2, <2>3, Zenon DEF NewServer
  <1>14. ASSUME NEW n \in Away, RemoveClient(n) \/ RemoteClose(n)
         PROVE  \E r \in Records : Queued(s, r)' /\ Alive(s, r)'
    BY <1>0, <1>8, <1>14 DEF RemoveClient, RemoteClose, greeting
  <1>15. ASSUME NEW n \in Away, ResumeTx(n)
         PROVE  \E r \in Records : Queued(s, r)' /\ Alive(s, r)'
    <2>1. table' = table /\ hold' = hold /\ pc' = pc /\ known' = known
      BY <1>15 DEF ResumeTx, greeting
    <2>2. CASE table[n] # Null /\ Resume(table[n])
      BY <1>0, <1>9, <2>1, <2>2 DEF TypeOK
    <2>3. CASE UNCHANGED <<txCount, txQueue, event>> BY <1>3, <2>1, <2>3
    <2> QED BY <1>15, <2>2, <2>3 DEF ResumeTx
  <1>16. ASSUME NEW n \in Away, Receive(n) \/ LinkLost(n) \/ LinkUp(n)
         PROVE  \E r \in Records : Queued(s, r)' /\ Alive(s, r)'
    BY <1>3, <1>16 DEF Receive, LinkLost, LinkUp, records, senders, greeting
  <1>17. ASSUME UNCHANGED vars PROVE \E r \in Records : Queued(s, r)' /\ Alive(s, r)'
    BY <1>3, <1>17 DEF vars, records, senders, greeting
  <1> QED
    BY <1>4, <1>5, <1>6, <1>7, <1>10, <1>11, <1>12, <1>13, <1>14, <1>15, <1>16, <1>17,
       <1>18
    DEF Next, Sender, Reader, Worker, Greeter

-----------------------------------------------------------------------------
(***************************************************************************)
(* The obligation to wake                                                  *)
(***************************************************************************)

\* While the endpoint is open, the wake-up of router n is a confirmation asked
\* for, one on its way, or the fall of the link.
Waking(n) ==
  \/ ConfirmUnderWay(n)
  \/ n # Home /\ \/ state[n] = "lost"
                 \/ \E i \in DOMAIN back[n] : back[n][i] \in {"resume", "remove"}

FullIsWaking ==
  \A n \in Routers : table[n] # Null /\ txCount[table[n]] = RxQuota => Waking(n)

\* It stays with router m when all who may have it keep or pass it.
LEMMA WakeUpPassed ==
  ASSUME NEW m \in Routers, Waking(m),
         \A s \in Senders :
           /\ RouterOf[s] = m /\ hold[s] = table[m] /\ pc[s] = "last"
           => hold'[s] = table'[m] /\ pc'[s] = "last",
         m # Home /\ (\E i \in DOMAIN link[m] : link[m][i])
           => \E i \in DOMAIN link'[m] : link'[m][i],
         (\E i \in DOMAIN inbox : inbox[i].from = m /\ inbox[i].confirm)
           => \E i \in DOMAIN inbox' : inbox'[i].from = m /\ inbox'[i].confirm,
         reader = m => reader' = m,
         m # Home /\ state[m] = "lost" => state'[m] = "lost",
         m # Home /\ (\E i \in DOMAIN back[m] : back[m][i] \in {"resume", "remove"})
           => \E i \in DOMAIN back'[m] : back'[m][i] \in {"resume", "remove"}
  PROVE  Waking(m)'
  BY DEF Waking, ConfirmUnderWay

\* A record that is full after a step that keeps or empties records was full.
LEMMA WasFull ==
  ASSUME \A q \in Records : KeptOrWoken(q), NEW r \in Records, txCount'[r] = RxQuota
  PROVE  txCount[r] = RxQuota
  BY DEF KeptOrWoken

\* Steps of a sender that send nothing and need not be confirmed.
LEMMA QuietWakeUp ==
  ASSUME TypeOK, FullIsWaking, UNCHANGED <<table, link, back, state, inbox, reader>>,
         \A q \in Records : txCount'[q] = RxQuota => txCount[q] = RxQuota,
         \A s \in Senders : pc[s] = "last" => pc'[s] = "last" /\ hold'[s] = hold[s]
  PROVE  FullIsWaking'
  <1>1. SUFFICES ASSUME NEW m \in Routers, table[m] # Null, txCount'[table[m]] = RxQuota
                 PROVE  Waking(m)'
    BY DEF FullIsWaking
  <1>2. table[m] \in Records BY <1>1 DEF TypeOK
  <1>3. Waking(m) BY <1>1, <1>2 DEF FullIsWaking
  <1> QED BY <1>3 DEF Waking, ConfirmUnderWay

\* The steps of senders keep a wake-up on its way to every full bucket,
LEMMA SenderWakeUp ==
  ASSUME TypeOK, HoldsWhileInside, RecordOfOneRouter, FullIsWaking, phase = "open",
         Faults \subseteq {"normal"}, NEW s \in Senders,
         FindNone(s) \/ Find(s) \/ Sender(s) \/ TimeOut(s)
  PROVE  FullIsWaking'
  <1>0. Away = Routers \ {Home} BY DEF Away
  <1>1. ASSUME FindNone(s) \/ Find(s) \/ Retry(s) \/ TimeOut(s) PROVE FullIsWaking'
    <2>1. /\ UNCHANGED <<table, link, back, state, inbox, reader>>
          /\ txCount' = txCount
      BY <1>1 DEF FindNone, Find, Retry, TimeOut, vars, records, network, endpoint
    <2>2. \A t \in Senders : pc[t] = "last" => pc'[t] = "last" /\ hold'[t] = hold[t]
      BY <1>1 DEF FindNone, Find, Retry, TimeOut, vars, senders, TypeOK
    <2> QED BY <2>1, <2>2, QuietWakeUp
  <1>2. ASSUME SendFails(s) \/ ReturnBusy(s) PROVE FullIsWaking'
    <2>1. /\ UNCHANGED <<table, link, back, state, inbox, reader, known>>
          /\ hold[s] \in Records /\ Unlock(s) /\ pc[s] # "last"
      BY <1>2 DEF SendFails, ReturnBusy, network, endpoint, greeting, HoldsWhileInside, TypeOK
    <2>2. \A q \in Records : KeptOrWoken(q) BY <2>1, UnlockEffect
    <2>3. \A t \in Senders : pc[t] = "last" => pc'[t] = "last" /\ hold'[t] = hold[t]
      BY <1>2, <2>1, ZenonT(60) DEF SendFails, ReturnBusy, Unlock, TypeOK
    <2>4. \A q \in Records : txCount'[q] = RxQuota => txCount[q] = RxQuota
      BY <2>2, WasFull
    <2> QED BY <2>1, <2>3, <2>4, QuietWakeUp
  <1>3. ASSUME GetToken(s) PROVE FullIsWaking'
    <2>1. /\ UNCHANGED <<table, link, back, state, inbox, reader, hold>>
          /\ hold[s] \in Records /\ pc[s] = "found"
      BY <1>3 DEF GetToken, network, endpoint, HoldsWhileInside, TypeOK
    <2>2. PICK c \in {"normal", "last", "busy"} : pc' = [pc EXCEPT ![s] = c]
      BY <1>3, Zenon DEF GetToken
    <2>3. \A t \in Senders : pc[t] = "last" => pc'[t] = "last" /\ hold'[t] = hold[t]
      BY <2>1, <2>2 DEF TypeOK
    <2>4. CASE txCount' = txCount BY <2>1, <2>3, <2>4, QuietWakeUp
    <2>5. CASE /\ txCount' = [txCount EXCEPT ![hold[s]] = @ + 1]
               /\ pc' = [pc EXCEPT ![s] =
                           IF txCount[hold[s]] + 1 = RxQuota THEN "last" ELSE "normal"]
      <3>1. CASE txCount[hold[s]] + 1 # RxQuota
        <4>1. \A q \in Records : txCount'[q] = RxQuota => txCount[q] = RxQuota
          BY <2>1, <2>5, <3>1 DEF TypeOK
        <4> QED BY <2>1, <2>3, <4>1, QuietWakeUp
      <3>2. CASE txCount[hold[s]] + 1 = RxQuota
        <4>1. SUFFICES ASSUME NEW m \in Routers, table[m] # Null, txCount'[table[m]] = RxQuota
                       PROVE  Waking(m)'
          BY <2>1 DEF FullIsWaking
        <4>2. CASE table[m] = hold[s]
          <5>1. RouterOf[s] = m BY <2>1, <4>1, <4>2 DEF RecordOfOneRouter
          <5>2. pc'[s] = "last" BY <2>5, <3>2 DEF TypeOK
          <5> QED BY <2>1, <4>2, <5>1, <5>2 DEF Waking, ConfirmUnderWay
        <4>3. CASE table[m] # hold[s]
          <5>1. table[m] \in Records BY <4>1 DEF TypeOK
          <5>2. txCount[table[m]] = RxQuota BY <2>5, <4>1, <4>3, <5>1 DEF TypeOK
          <5>3. Waking(m) BY <4>1, <5>2 DEF FullIsWaking
          <5> QED BY <2>1, <2>3, <5>3 DEF Waking, ConfirmUnderWay
        <4> QED BY <4>2, <4>3
      <3> QED BY <3>1, <3>2
    <2> QED BY <1>3, <2>4, <2>5, Zenon DEF GetToken
  <1>4. ASSUME SendMsg(s) PROVE FullIsWaking'
    <2> DEFINE n == RouterOf[s]
               c == pc[s] = "last"
    <2>1. /\ UNCHANGED <<table, back, state, reader, known>> /\ Deliver(n, c)
          /\ hold[s] \in Records /\ Unlock(s) /\ pc' = [pc EXCEPT ![s] = "idle"]
          /\ n \in Routers /\ c \in BOOLEAN
      BY <1>4 DEF SendMsg, HoldsWhileInside, TypeOK, greeting
    <2>2. \A q \in Records : KeptOrWoken(q) BY <2>1, UnlockEffect
    <2>3. \A t \in Senders : t # s => pc'[t] = pc[t] /\ hold'[t] = hold[t]
      BY <2>1 DEF Unlock, TypeOK
    <2>4. SUFFICES ASSUME NEW m \in Routers, table[m] # Null, txCount'[table[m]] = RxQuota
                   PROVE  Waking(m)'
      BY <2>1 DEF FullIsWaking
    <2>5. Waking(m)
      <3>1. table[m] \in Records BY <2>4 DEF TypeOK
      <3>2. txCount[table[m]] = RxQuota BY <2>2, <2>4, <3>1, WasFull
      <3> QED BY <2>4, <3>2 DEF FullIsWaking
    <2> HIDE DEF n, c
    <2>6. CASE n = Home
      <3>1. link' = link BY <2>1, <2>6, Zenon DEF Deliver
      <3>2. [from |-> n, confirm |-> c] \in Message /\ inbox \in Seq(Message)
        BY <2>1 DEF Message, TypeOK
      <3>3. inbox' = Append(inbox, [from |-> n, confirm |-> c])
        BY <2>1, <2>6, Zenon DEF Deliver
      <3>4. /\ Len(inbox) + 1 \in DOMAIN inbox'
            /\ inbox'[Len(inbox) + 1] = [from |-> n, confirm |-> c]
            /\ \A i \in DOMAIN inbox : i \in DOMAIN inbox' /\ inbox'[i] = inbox[i]
        BY <3>2, <3>3, AppendFacts
      <3>5. CASE RouterOf[s] = m /\ pc[s] = "last"
        <4>1. \E i \in DOMAIN inbox' : inbox'[i].from = m /\ inbox'[i].confirm
          <5>1. n = m /\ c = TRUE BY <3>5 DEF n, c
          <5>2. inbox'[Len(inbox) + 1] = [from |-> m, confirm |-> TRUE] BY <3>4, <5>1
          <5> QED BY <3>4, <5>2
        <4> QED BY <4>1 DEF Waking, ConfirmUnderWay
      <3>6. CASE ~(RouterOf[s] = m /\ pc[s] = "last")
        <4>1. \A t \in Senders :
                 /\ RouterOf[t] = m /\ hold[t] = table[m] /\ pc[t] = "last"
                 => hold'[t] = table'[m] /\ pc'[t] = "last"
          BY <2>1, <2>3, <3>6
        <4>2. (\E i \in DOMAIN inbox : inbox[i].from = m /\ inbox[i].confirm)
               => \E i \in DOMAIN inbox' : inbox'[i].from = m /\ inbox'[i].confirm
          BY <3>4
        <4> QED BY <2>1, <2>5, <3>1, <4>1, <4>2, WakeUpPassed
      <3> QED BY <3>5, <3>6
    <2>7. CASE n # Home
      <3>1. inbox' = inbox /\ link' = [link EXCEPT ![n] = Append(@, c)]
        BY <2>1, <2>7, Zenon DEF Deliver
      <3>2. n \in Away /\ link[n] \in Seq(BOOLEAN) BY <1>0, <2>1, <2>7 DEF TypeOK
      <3>3. /\ link'[n] = Append(link[n], c)
            /\ \A k \in Away : k # n => link'[k] = link[k]
        BY <3>1, <3>2 DEF TypeOK
      <3>4. /\ Len(link[n]) + 1 \in DOMAIN link'[n]
            /\ link'[n][Len(link[n]) + 1] = c
            /\ \A i \in DOMAIN link[n] : i \in DOMAIN link'[n] /\ link'[n][i] = link[n][i]
        BY <2>1, <3>2, <3>3, AppendFacts
      <3>5. CASE RouterOf[s] = m /\ pc[s] = "last"
        <4>1. m # Home /\ \E i \in DOMAIN link'[m] : link'[m][i]
          BY <2>7, <3>4, <3>5 DEF n, c
        <4> QED BY <4>1 DEF Waking, ConfirmUnderWay
      <3>6. CASE ~(RouterOf[s] = m /\ pc[s] = "last")
        <4>1. \A t \in Senders :
                 /\ RouterOf[t] = m /\ hold[t] = table[m] /\ pc[t] = "last"
                 => hold'[t] = table'[m] /\ pc'[t] = "last"
          BY <2>1, <2>3, <3>6
        <4>2. m # Home /\ (\E i \in DOMAIN link[m] : link[m][i])
               => \E i \in DOMAIN link'[m] : link'[m][i]
          BY <1>0, <3>3, <3>4
        <4> QED BY <2>1, <2>5, <3>1, <4>1, <4>2, WakeUpPassed
      <3> QED BY <3>5, <3>6
    <2> QED BY <2>6, <2>7
  <1> QED BY <1>1, <1>2, <1>3, <1>4 DEF Sender

\* The steps of the reader and of the network.
LEMMA ReaderWakeUp ==
  ASSUME TypeOK, FallenLinkIsEmpty, FullIsWaking, Reader
  PROVE  FullIsWaking'
  <1>0. Away = Routers \ {Home} BY DEF Away
  <1>1. SUFFICES ASSUME NEW m \in Routers, table'[m] # Null, txCount'[table'[m]] = RxQuota
                 PROVE  Waking(m)'
    BY DEF FullIsWaking
  <1>2. CASE Read
    <2>1. /\ UNCHANGED <<table, txCount, pc, hold, link, back, state>> /\ reader = Null
          /\ inbox \in Seq(Message) /\ inbox # <<>> /\ inbox' = Tail(inbox)
          /\ reader' = IF Head(inbox).confirm THEN Head(inbox).from ELSE Null
      BY <1>2 DEF Read, records, senders, network, TypeOK
    <2>2. Waking(m) BY <1>1, <2>1 DEF FullIsWaking
    <2>3. /\ Head(inbox) = inbox[1]
          /\ \A i \in DOMAIN inbox : i # 1 => /\ i - 1 \in DOMAIN inbox'
                                              /\ inbox'[i - 1] = inbox[i]
      BY <2>1, TailFacts
    <2>4. CASE Head(inbox).confirm /\ Head(inbox).from = m
      BY <2>1, <2>4 DEF Waking, ConfirmUnderWay
    <2>5. CASE ~(Head(inbox).confirm /\ Head(inbox).from = m)
      <3>1. (\E i \in DOMAIN inbox : inbox[i].from = m /\ inbox[i].confirm)
              => \E i \in DOMAIN inbox' : inbox'[i].from = m /\ inbox'[i].confirm
        BY <2>3, <2>5
      <3>2. reader # m BY <2>1
      <3> QED BY <2>1, <2>2, <3>1, <3>2, WakeUpPassed
    <2> QED BY <2>4, <2>5
  <1>3. CASE Confirm
    <2>1. UNCHANGED <<table, pc, hold, link, state, inbox>> /\ reader # Null /\ reader' = Null
      BY <1>3 DEF Confirm
    <2>2. CASE reader = Home
      <3>1. back' = back BY <1>0, <1>3, <2>2 DEF Confirm
      <3>2. m # Home
        <4>1. SUFFICES ASSUME m = Home PROVE FALSE OBVIOUS
        <4>2. table[Home] \in Records /\ Resume(table[Home])
          BY <1>0, <1>1, <1>3, <2>1, <2>2, <4>1 DEF Confirm, TypeOK
        <4>3. txCount'[table[Home]] = 0 BY <4>2, ResumeEffect
        <4> QED BY <1>1, <2>1, <4>1, <4>3
      <3>3. txCount[table[m]] = RxQuota
        <4>1. table[m] \in Records BY <1>1, <2>1 DEF TypeOK
        <4>2. CASE txCount' = txCount BY <1>1, <2>1, <4>2
        <4>3. CASE table[Home] # Null /\ Resume(table[Home])
          <5>1. table[Home] \in Records BY <4>3 DEF TypeOK
          <5> QED BY <1>1, <2>1, <4>1, <4>3, <5>1, ResumeEffect, WasFull
        <4> QED BY <1>3, <4>2, <4>3 DEF Confirm
      <3>4. Waking(m) BY <1>1, <2>1, <3>3 DEF FullIsWaking
      <3> QED BY <2>1, <2>2, <3>1, <3>2, <3>4, WakeUpPassed
    <2>3. CASE reader \in Away
      <3>1. /\ txCount' = txCount
            /\ back' = IF state[reader] = "up"
                       THEN [back EXCEPT ![reader] = Append(@, "resume")] ELSE back
        BY <1>0, <1>3, <2>3 DEF Confirm
      <3>2. Waking(m) BY <1>1, <2>1, <3>1 DEF FullIsWaking
      <3>3. \A k \in Away : back[k] \in Seq(Control) BY DEF TypeOK
      <3>4. "resume" \in Control BY DEF Control
      <3>5. \A k \in Away : \/ back'[k] = back[k]
                            \/ back'[k] = Append(back[k], "resume")
        BY <3>1 DEF TypeOK
      <3>6. m # Home /\ (\E i \in DOMAIN back[m] : back[m][i] \in {"resume", "remove"})
              => \E i \in DOMAIN back'[m] : back'[m][i] \in {"resume", "remove"}
        BY <1>0, <3>3, <3>4, <3>5, AppendFacts
      <3>7. CASE reader = m
        <4>1. m # Home /\ m \in Away BY <1>0, <2>3, <3>7
        <4>2. CASE state[m] = "up"
          <5>1. back'[m] = Append(back[m], "resume") BY <3>1, <3>7, <4>1, <4>2 DEF TypeOK
          <5>2. \E i \in DOMAIN back'[m] : back'[m][i] = "resume"
            BY <3>3, <3>4, <4>1, <5>1, AppendFacts
          <5> QED BY <4>1, <5>2 DEF Waking
        <4>3. CASE state[m] = "lost" BY <2>1, <4>1, <4>3 DEF Waking
        <4>4. state[m] # "down" BY <1>1, <2>1, <4>1 DEF FallenLinkIsEmpty
        <4> QED BY <4>1, <4>2, <4>3, <4>4 DEF TypeOK
      <3>8. CASE reader # m
        BY <2>1, <3>2, <3>6, <3>8, WakeUpPassed
      <3> QED BY <3>7, <3>8
    <2> QED BY <1>3, <2>2, <2>3 DEF Confirm
  <1> QED BY <1>2, <1>3 DEF Reader

\* and so do those of the receiver, the links and the other routers.
LEMMA NetworkWakeUp ==
  ASSUME TypeOK, FallenLinkIsEmpty, phase = "open", FullIsWaking, NEW n \in Away,
         Receive(n) \/ Worker(n) \/ LinkLost(n) \/ LinkUp(n)
  PROVE  FullIsWaking'
  <1>0. Away = Routers \ {Home} /\ n \in Routers /\ n # Home BY DEF Away
  <1>1. SUFFICES ASSUME NEW m \in Routers, table'[m] # Null, txCount'[table'[m]] = RxQuota
                 PROVE  Waking(m)'
    BY DEF FullIsWaking
  <1>2. CASE Receive(n)
    <2>1. /\ UNCHANGED <<table, txCount, pc, hold, back, state, reader>>
          /\ state[n] = "up" /\ link[n] # <<>> /\ link' = [link EXCEPT ![n] = Tail(@)]
          /\ inbox' = Append(inbox, [from |-> n, confirm |-> Head(link[n])])
          /\ link[n] \in Seq(BOOLEAN) /\ inbox \in Seq(Message)
      BY <1>2 DEF Receive, records, senders, TypeOK
    <2>2. Waking(m) BY <1>1, <2>1 DEF FullIsWaking
    <2>3. /\ link'[n] = Tail(link[n])
          /\ \A k \in Away : k # n => link'[k] = link[k]
      BY <2>1 DEF TypeOK
    <2>4. /\ Head(link[n]) = link[n][1] /\ Head(link[n]) \in BOOLEAN
          /\ \A i \in DOMAIN link[n] : i # 1 => /\ i - 1 \in DOMAIN link'[n]
                                                /\ link'[n][i - 1] = link[n][i]
      <3>1. /\ Head(link[n]) = link[n][1] /\ Head(link[n]) \in BOOLEAN
            /\ \A i \in DOMAIN link[n] : i # 1 => /\ i - 1 \in DOMAIN Tail(link[n])
                                                  /\ Tail(link[n])[i - 1] = link[n][i]
        BY <2>1, TailFacts, Zenon
      <3> QED BY <2>3, <3>1
    <2>5. [from |-> n, confirm |-> Head(link[n])] \in Message BY <1>0, <2>4 DEF Message
    <2>6. inbox' = Append(inbox, [from |-> n, confirm |-> Head(link[n])]) BY <2>1
    <2>7. /\ Len(inbox) + 1 \in DOMAIN inbox'
          /\ inbox'[Len(inbox) + 1] = [from |-> n, confirm |-> Head(link[n])]
          /\ \A i \in DOMAIN inbox : i \in DOMAIN inbox' /\ inbox'[i] = inbox[i]
      BY <2>1, <2>5, <2>6, AppendFacts
    <2>8. CASE m = n /\ Head(link[n]) = TRUE
      <3>1. inbox'[Len(inbox) + 1] = [from |-> m, confirm |-> TRUE] BY <2>7, <2>8
      <3>2. \E i \in DOMAIN inbox' : inbox'[i].from = m /\ inbox'[i].confirm
        BY <2>7, <3>1
      <3> QED BY <3>2 DEF Waking, ConfirmUnderWay
    <2>9. CASE ~(m = n /\ Head(link[n]) = TRUE)
      <3>1. m # Home /\ (\E i \in DOMAIN link[m] : link[m][i])
              => \E i \in DOMAIN link'[m] : link'[m][i]
        <4>1. CASE m = n BY <2>4, <2>9, <4>1
        <4>2. CASE m # n BY <1>0, <2>3, <4>2
        <4> QED BY <4>1, <4>2
      <3>2. (\E i \in DOMAIN inbox : inbox[i].from = m /\ inbox[i].confirm)
              => \E i \in DOMAIN inbox' : inbox'[i].from = m /\ inbox'[i].confirm
        BY <2>7
      <3> QED BY <2>1, <2>2, <3>1, <3>2, WakeUpPassed
    <2> QED BY <2>8, <2>9
  <1>3. ASSUME m # n, table'[m] = table[m], \A q \in Records : KeptOrWoken(q),
               pc' = pc, hold' = hold, inbox' = inbox, reader' = reader,
               \A k \in Away : k # n =>
                 link'[k] = link[k] /\ back'[k] = back[k] /\ state'[k] = state[k]
        PROVE  Waking(m)'
    <2>1. table[m] \in Records BY <1>1, <1>3 DEF TypeOK
    <2>2. txCount[table[m]] = RxQuota BY <1>1, <1>3, <2>1, WasFull
    <2>3. Waking(m) BY <1>1, <1>3, <2>2 DEF FullIsWaking
    <2>4. m # Home => link'[m] = link[m] /\ back'[m] = back[m] /\ state'[m] = state[m]
      BY <1>0, <1>3
    <2> QED BY <1>3, <2>3, <2>4, WakeUpPassed
  <1>4. CASE NewServer(n)
    <2>1. /\ UNCHANGED <<pc, hold, link, state, inbox, reader>>
          /\ back[n] # <<>> /\ Head(back[n]) = "new"
          /\ back' = [back EXCEPT ![n] = Tail(@)]
          /\ back[n] \in Seq(Control)
      BY <1>4 DEF NewServer, senders, endpoint, TypeOK
    <2>2. back'[n] = Tail(back[n]) /\ \A k \in Away : k # n => back'[k] = back[k]
      BY <2>1 DEF TypeOK
    <2>3. m = n => ((\E i \in DOMAIN back[m] : back[m][i] \in {"resume", "remove"})
                     => \E i \in DOMAIN back'[m] : back'[m][i] \in {"resume", "remove"})
      <3>1. /\ Head(back[n]) = back[n][1]
            /\ \A i \in DOMAIN back[n] : i # 1 => /\ i - 1 \in DOMAIN Tail(back[n])
                                                  /\ Tail(back[n])[i - 1] = back[n][i]
        BY <2>1, TailFacts, Zenon
      <3>2. ASSUME m = n, NEW i \in DOMAIN back[m], back[m][i] \in {"resume", "remove"}
            PROVE  \E j \in DOMAIN back'[m] : back'[m][j] \in {"resume", "remove"}
        <4>1. i # 1 BY <2>1, <3>1, <3>2
        <4>2. i - 1 \in DOMAIN back'[m] /\ back'[m][i - 1] = back[m][i]
          BY <2>2, <3>1, <3>2, <4>1
        <4> QED BY <3>2, <4>2
      <3> QED BY <3>2
    <2>4. m # Home /\ (\E i \in DOMAIN back[m] : back[m][i] \in {"resume", "remove"})
             => \E i \in DOMAIN back'[m] : back'[m][i] \in {"resume", "remove"}
      BY <1>0, <2>2, <2>3
    <2>5. table'[m] = table[m] /\ txCount'[table'[m]] = txCount[table[m]]
      <3>1. CASE UNCHANGED records BY <3>1 DEF records
      <3>2. CASE \E r \in Records : /\ ~Linked(r)
                                    /\ table' = [table EXCEPT ![n] = r]
                                    /\ txCount' = [txCount EXCEPT ![r] = 0]
        <4>1. PICK r \in Records : /\ ~Linked(r)
                                   /\ table' = [table EXCEPT ![n] = r]
                                   /\ txCount' = [txCount EXCEPT ![r] = 0]
          BY <3>2
        <4>2. m # n BY <1>0, <1>1, <4>1 DEF TypeOK
        <4>3. table'[m] = table[m] BY <1>0, <4>1, <4>2 DEF TypeOK
        <4>4. table[m] \in Records /\ table[m] # r
          BY <1>1, <4>1, <4>3 DEF Linked, TypeOK
        <4> QED BY <4>1, <4>3, <4>4 DEF TypeOK
      <3> QED BY <1>4, <3>1, <3>2, Zenon DEF NewServer
    <2>6. Waking(m) BY <1>1, <2>5 DEF FullIsWaking
    <2> QED BY <2>1, <2>4, <2>5, <2>6, WakeUpPassed
  <1>5. ASSUME Unregister(n), hold' = hold
        PROVE  /\ m # n /\ table'[m] = table[m]
               /\ \A q \in Records : KeptOrWoken(q)
    <2>1. table'[n] = Null /\ \A k \in Routers : k # n => table'[k] = table[k]
      BY <1>0, <1>5 DEF Unregister, TypeOK
    <2>2. \A q \in Records : KeptOrWoken(q)
      <3>1. CASE table[n] = Null
        BY <1>5, <3>1 DEF Unregister, KeptOrWoken
      <3>2. CASE table[n] # Null
        <4>1. table[n] \in Records /\ CleanupIf(~Held(table[n]), table[n])
          BY <1>0, <1>5, <3>2 DEF Unregister, TypeOK
        <4> QED BY <4>1, CleanupEffect
      <3> QED BY <3>1, <3>2
    <2> QED BY <1>0, <1>1, <2>1, <2>2
  <1>6. CASE RemoveClient(n)
    <2>1. /\ Unregister(n) /\ UNCHANGED <<pc, hold, link, state, inbox, reader>>
          /\ back' = [back EXCEPT ![n] = Tail(@)]
      BY <1>6 DEF RemoveClient, endpoint
    <2>2. \A k \in Away : k # n => back'[k] = back[k] BY <2>1 DEF TypeOK
    <2> QED BY <1>3, <1>5, <2>1, <2>2
  <1>7. CASE ResumeTx(n)
    <2>1. /\ UNCHANGED <<table, pc, hold, link, state, inbox, reader>>
          /\ back' = [back EXCEPT ![n] = Tail(@)]
      BY <1>7 DEF ResumeTx, endpoint
    <2>2. \A k \in Away : k # n => back'[k] = back[k] BY <2>1 DEF TypeOK
    <2>3. CASE table[n] = Null
      <3>1. m # n /\ txCount' = txCount /\ txQueue' = txQueue
        BY <1>1, <1>7, <2>1, <2>3 DEF ResumeTx
      <3>2. \A q \in Records : KeptOrWoken(q) BY <3>1 DEF KeptOrWoken
      <3> QED BY <1>3, <2>1, <2>2, <3>1, <3>2
    <2>4. CASE table[n] # Null
      <3>1. table[n] \in Records /\ Resume(table[n]) BY <1>0, <1>7, <2>4 DEF ResumeTx, TypeOK
      <3>2. txCount'[table[n]] = 0 /\ \A q \in Records : KeptOrWoken(q)
        BY <3>1, ResumeEffect
      <3>3. m # n BY <1>1, <2>1, <3>2
      <3> QED BY <1>3, <2>1, <2>2, <3>2, <3>3
    <2> QED BY <2>3, <2>4
  <1>8. CASE RemoteClose(n)
    <2>1. /\ Unregister(n) /\ UNCHANGED <<pc, hold, back, inbox, reader>>
          /\ \A k \in Away : k # n => link'[k] = link[k] /\ state'[k] = state[k]
      BY <1>8 DEF RemoteClose, endpoint, TypeOK
    <2> QED BY <1>3, <1>5, <2>1
  <1>9. CASE LinkLost(n) \/ LinkUp(n)
    <2>1. /\ UNCHANGED <<table, txCount, txQueue, pc, hold, link, inbox, reader>>
          /\ \A k \in Away : k # n => back'[k] = back[k] /\ state'[k] = state[k]
      BY <1>9 DEF LinkLost, LinkUp, records, senders, endpoint, TypeOK
    <2>2. CASE m # n
      <3>1. \A q \in Records : KeptOrWoken(q) BY <2>1 DEF KeptOrWoken
      <3> QED BY <1>3, <2>1, <2>2, <3>1
    <2>3. CASE m = n
      <3>1. CASE LinkLost(n)
        <4>1. state'[n] = "lost" BY <3>1 DEF LinkLost, TypeOK
        <4> QED BY <1>0, <2>3, <4>1 DEF Waking
      <3>2. ~LinkUp(n) BY <1>1, <2>1, <2>3 DEF LinkUp, FallenLinkIsEmpty
      <3> QED BY <1>9, <3>1, <3>2
    <2> QED BY <2>2, <2>3
  <1> QED BY <1>2, <1>4, <1>6, <1>7, <1>8, <1>9 DEF Worker

\* The announcement of the endpoint wakes nobody too many and loses no wake-up.
LEMMA AnnounceWakeUp ==
  ASSUME TypeOK, GreetingInOrder, FullIsWaking, Announce
  PROVE  FullIsWaking'
  <1>0. Away = Routers \ {Home} BY DEF Away
  <1>1. SUFFICES ASSUME NEW m \in Routers, table'[m] # Null, txCount'[table'[m]] = RxQuota
                 PROVE  Waking(m)'
    BY DEF FullIsWaking
  <1>2. UNCHANGED <<table, pc, hold, link, state, inbox, reader>>
    BY DEF Announce, endpoint
  <1>3. \A q \in Records : KeptOrWoken(q) BY AnnounceEffect
  <1>4. Waking(m)
    <2>1. table[m] \in Records BY <1>1, <1>2 DEF TypeOK
    <2>2. txCount[table[m]] = RxQuota BY <1>1, <1>2, <1>3, <2>1, WasFull
    <2> QED BY <1>1, <1>2, <2>2 DEF FullIsWaking
  <1>5. \A k \in Away : back'[k] = back[k] \/ back'[k] = Append(back[k], "new")
    <2>1. hello \in Away BY DEF Announce, GreetingInOrder, TypeOK
    <2>2. CASE back' = back BY <2>2
    <2>3. CASE back' = [back EXCEPT ![hello] = Append(@, "new")] BY <2>3 DEF TypeOK
    <2> QED BY <2>2, <2>3, Zenon DEF Announce
  <1>6. m # Home /\ (\E i \in DOMAIN back[m] : back[m][i] \in {"resume", "remove"})
          => \E i \in DOMAIN back'[m] : back'[m][i] \in {"resume", "remove"}
    <2>1. \A k \in Away : back[k] \in Seq(Control) BY DEF TypeOK
    <2>2. "new" \in Control BY DEF Control
    <2> QED BY <1>0, <1>5, <2>1, <2>2, AppendFacts
  <1> QED BY <1>2, <1>4, <1>6, WakeUpPassed

-----------------------------------------------------------------------------
(***************************************************************************)
(* The theorem                                                             *)
(***************************************************************************)

\* The invariant holds at the start.
LEMMA InitHolds ==
  ASSUME Init PROVE IInv
  <1>1. TypeOK
    <2>1. <<"new">> \in Seq(Control) BY DEF Control
    <2>2. /\ table \in [Routers -> Records \cup {Null}]
          /\ txCount \in [Records -> 0..RxQuota]
          /\ txQueue \in [Records -> Seq(Senders)]
      BY EmptyFacts DEF Init
    <2>3. /\ pc \in [Senders -> {"idle", "found", "normal", "last", "busy", "wait"}]
          /\ hold \in [Senders -> Records \cup {Null}]
          /\ event \in [Senders -> BOOLEAN]
      BY DEF Init
    <2>4. /\ link \in [Away -> Seq(BOOLEAN)]
          /\ back \in [Away -> Seq(Control)]
          /\ state \in [Away -> {"up", "lost", "down"}]
          /\ flaps \in 0..MaxFlaps
          /\ phase \in {"open", "telling", "closed"} /\ totell \subseteq Away
          /\ inbox \in Seq(Message) /\ reader \in Routers \cup {Null}
          /\ hello \in Away \cup {Null} /\ known \in Records \cup {Null}
      BY <2>1, EmptyFacts DEF Init
    <2> QED BY <2>2, <2>3, <2>4 DEF TypeOK
  <1>2. HoldsWhileInside BY DEF Init, HoldsWhileInside
  <1>3. RecordOfOneRouter BY DEF Init, RecordOfOneRouter
  <1>4. WaitersNeedFullQuota BY DEF Init, WaitersNeedFullQuota
  <1>5. FullQuotaHasWakeUp
    <2>1. \A n \in Routers : table[n] # Null => txCount[table[n]] = 0
      BY <1>1 DEF Init, TypeOK
    <2> QED BY <2>1 DEF FullQuotaHasWakeUp
  <1>6. FallenLinkIsEmpty BY DEF Init, FallenLinkIsEmpty
  <1>7. ClosedIsRemoved /\ GreetingInOrder
    <2>1. phase = "open" /\ totell = {} /\ table[Home] # Null /\ known = Null
      BY DEF Init
    <2> QED BY <2>1 DEF ClosedIsRemoved, GreetingInOrder
  <1>8. WaitersAreQueued BY DEF Init, WaitersAreQueued
  <1> QED BY <1>1, <1>2, <1>3, <1>4, <1>5, <1>6, <1>7, <1>8 DEF IInv

\* When the close has begun, whoever has the endpoint still is to be told, has been
\* sent the news, has lost its link, or is left with the endpoint.
LEMMA ClosedIsToldNext ==
  ASSUME (TypeOK /\ FallenLinkIsEmpty /\ ClosedIsRemoved)', phase' # "open"
  PROVE  FullQuotaHasWakeUp'
  <1> SUFFICES ASSUME NEW m \in Routers, table'[m] # Null
               PROVE  (WakeUpUnderWay(m) \/ Stale(m))'
    BY DEF FullQuotaHasWakeUp
  <1>1. CASE m = Home BY <1>1 DEF WakeUpUnderWay, ClosedIsRemoved, TypeOK
  <1>2. CASE m # Home
    <2>1. m \in Away BY <1>2 DEF Away
    <2>2. CASE state'[m] = "lost" BY <1>2, <2>2 DEF WakeUpUnderWay
    <2>3. CASE state'[m] = "up"
      <3>1. CASE m \in totell' BY <1>2, <2>3, <3>1 DEF WakeUpUnderWay
      <3>2. CASE \E i \in DOMAIN back'[m] : back'[m][i] = "remove"
        BY <1>2, <3>2 DEF WakeUpUnderWay
      <3> QED BY <2>1, <2>3, <3>1, <3>2 DEF Stale
    <2>4. state'[m] # "down" BY <2>1 DEF FallenLinkIsEmpty
    <2> QED BY <2>1, <2>2, <2>3, <2>4 DEF TypeOK
  <1> QED BY <1>1, <1>2

\* Every step keeps a wake-up on its way to every full bucket.
LEMMA WakeUpStep ==
  ASSUME IInv, (TypeOK /\ FallenLinkIsEmpty /\ ClosedIsRemoved)', Faults \subseteq {"normal"},
         [Next]_vars
  PROVE  FullQuotaHasWakeUp'
  <1>1. CASE phase' # "open" BY <1>1, ClosedIsToldNext
  <1>2. CASE phase' = "open"
    <2>1. phase = "open"
      <3>1. CASE UNCHANGED vars BY <1>2, <3>1 DEF vars, endpoint
      <3>2. ASSUME NEW s \in Senders, FindNone(s) \/ Find(s) \/ Sender(s) \/ TimeOut(s)
            PROVE  phase' = phase
        BY <3>2 DEF FindNone, Find, Sender, GetToken, SendMsg, SendFails, ReturnBusy, Retry,
                    TimeOut, vars, endpoint
      <3>3. ASSUME Reader \/ CloseBegin \/ Closer \/ Greeter
            PROVE  phase' = phase \/ phase' # "open"
        BY <3>3 DEF Reader, Read, Confirm, CloseBegin, Closer, Tell, CloseEnd, Greeter,
                    FindServer, Announce, endpoint
      <3>4. ASSUME NEW n \in Away, Receive(n) \/ Worker(n) \/ LinkLost(n) \/ LinkUp(n)
            PROVE  phase' = phase
        BY <3>4 DEF Receive, Worker, NewServer, RemoveClient, ResumeTx, RemoteClose, LinkLost,
                    LinkUp, endpoint
      <3> QED BY <1>2, <3>1, <3>2, <3>3, <3>4 DEF Next
    <2>2. FullIsWaking
      <3>1. totell = {} BY <2>1 DEF IInv, ClosedIsRemoved
      <3> QED BY <2>1, <3>1 DEF IInv, FullQuotaHasWakeUp, FullIsWaking, WakeUpUnderWay,
                               Waking, Stale
    <2>3. FullIsWaking'
      <3>1. ASSUME NEW s \in Senders, FindNone(s) \/ Find(s) \/ Sender(s) \/ TimeOut(s)
            PROVE  FullIsWaking'
        BY <2>1, <2>2, <3>1, SenderWakeUp DEF IInv
      <3>2. ASSUME Reader PROVE FullIsWaking'
        BY <2>2, <3>2, ReaderWakeUp DEF IInv
      <3>3. ASSUME Announce PROVE FullIsWaking' BY <2>2, <3>3, AnnounceWakeUp DEF IInv
      <3>4. ASSUME NEW n \in Away, Receive(n) \/ Worker(n) \/ LinkLost(n) \/ LinkUp(n)
            PROVE  FullIsWaking'
        BY <2>1, <2>2, <3>4, NetworkWakeUp DEF IInv
      <3>5. ASSUME FindServer \/ UNCHANGED vars PROVE FullIsWaking'
        <4>1. /\ UNCHANGED <<table, link, back, state, inbox, reader>>
              /\ txCount' = txCount /\ pc' = pc /\ hold' = hold
          BY <3>5 DEF FindServer, vars, records, senders, network, endpoint
        <4> QED BY <2>2, <4>1, QuietWakeUp DEF IInv
      <3>6. ~CloseBegin /\ ~Closer
        <4>1. ~CloseBegin BY <1>2 DEF CloseBegin
        <4>2. ~CloseEnd BY <1>2 DEF CloseEnd
        <4>3. totell = {} BY <2>1 DEF IInv, ClosedIsRemoved
        <4>4. \A n \in Away : ~Tell(n) BY <4>3 DEF Tell
        <4> QED BY <4>1, <4>2, <4>4 DEF Closer
      <3> QED BY <3>1, <3>2, <3>3, <3>4, <3>5, <3>6 DEF Next, Greeter
    <2> QED BY <1>2, <2>3 DEF FullIsWaking, FullQuotaHasWakeUp, Waking, WakeUpUnderWay
  <1> QED BY <1>1, <1>2

\* The inductive invariant, when no message with a last token fails to be
\* sent and every waiter has its queue node.
THEOREM Invariant ==
  ASSUME Faults \subseteq {"normal"}
  PROVE  Spec => []IInv
  <1>1. Init => IInv BY InitHolds
  <1>2. IInv /\ [Next]_vars => IInv'
    <2> SUFFICES ASSUME IInv, [Next]_vars PROVE IInv'
      OBVIOUS
    <2>1. TypeOK' /\ HoldsWhileInside' /\ GreetingInOrder'
      BY TypeStep, HoldsStep, GreetingStep DEF IInv
    <2>2. RecordOfOneRouter' BY OneRouterStep DEF IInv
    <2>3. WaitersNeedFullQuota' BY FullStep DEF IInv
    <2>4. FallenLinkIsEmpty' BY FallenLinkStep DEF IInv
    <2>5. ClosedIsRemoved' BY ClosedStep DEF IInv
    <2>6. FullQuotaHasWakeUp' BY <2>1, <2>4, <2>5, WakeUpStep
    <2>7. WaitersAreQueued' BY QueuedStep DEF IInv
    <2> QED BY <2>1, <2>2, <2>3, <2>4, <2>5, <2>6, <2>7 DEF IInv
  <1> QED BY <1>1, <1>2, PTL DEF Spec

\* No lost wake-up: whoever was told BUSY by ipc_router_core_send_internal has
\* its event, or is queued where a wake-up will come.
THEOREM WakeUpsAreNotLost ==
  ASSUME Faults \subseteq {"normal"}
  PROVE  Spec => []NoLostWakeup
  <1>1. IInv => NoLostWakeup
    <2> SUFFICES ASSUME IInv, NEW s \in Senders, pc[s] \in {"busy", "wait"}, ~event[s]
                 PROVE  \E r \in Records :
                          /\ Queued(s, r)
                          /\ \/ /\ table[RouterOf[s]] = r
                                /\ WakeUpUnderWay(RouterOf[s]) \/ Stale(RouterOf[s])
                             \/ ~Linked(r) /\ Held(r)
      BY DEF NoLostWakeup
    <2>1. PICK r \in Records : /\ Queued(s, r)
                               /\ \/ table[RouterOf[s]] = r
                                  \/ ~Linked(r) /\ Held(r)
      BY DEF IInv, WaitersAreQueued
    <2>2. CASE table[RouterOf[s]] = r
      <3>1. txQueue[r] # <<>> BY <2>1 DEF Queued
      <3>2. txCount[r] = RxQuota BY <3>1 DEF IInv, WaitersNeedFullQuota
      <3>3. r # Null /\ RouterOf[s] \in Routers OBVIOUS
      <3>4. WakeUpUnderWay(RouterOf[s]) \/ Stale(RouterOf[s])
        BY <2>2, <3>2, <3>3 DEF IInv, FullQuotaHasWakeUp
      <3> QED BY <2>1, <2>2, <3>4
    <2> QED BY <2>1, <2>2
  <1> QED BY <1>1, Invariant, PTL

-----------------------------------------------------------------------------
(***************************************************************************)
(* Who is left with a closed endpoint                                      *)
(***************************************************************************)

\* The record of router n, and each announcement to it, has a removal after it.
Told(n) ==
  /\ table[n] # Null => \E i \in DOMAIN back[n] : back[n][i] = "remove"
  /\ \A i \in DOMAIN back[n] : back[n][i] = "new" =>
       \E j \in DOMAIN back[n] : i < j /\ back[n][j] = "remove"

\* Stale, with it
LEMMA StaleParts ==
  ASSUME NEW n \in Away
  PROVE  Stale(n) <=> phase # "open" /\ n \notin totell /\ state[n] = "up" /\ ~Told(n)
  BY DEF Stale, Told

\* and as a formula for the state after a step.
StaleAsTold ==
  \A n \in Away : Stale(n) <=> phase # "open" /\ n \notin totell /\ state[n] = "up" /\ ~Told(n)
\* Always so.
LEMMA StalePartsAll == StaleAsTold BY StaleParts DEF StaleAsTold
LEMMA StalePartsNext ==
  ASSUME NEW n \in Away
  PROVE  Stale(n)' <=> (phase # "open" /\ n \notin totell /\ state[n] = "up" /\ ~Told(n))'
  <1>1. StaleAsTold' BY StalePartsAll, PTL
  <1> QED BY <1>1 DEF StaleAsTold

\* A message taken from the front, unless it is the removal.
LEMMA ToldTail ==
  ASSUME TypeOK, NEW n \in Away, Told(n), back[n] # <<>>, back'[n] = Tail(back[n]),
         table'[n] # Null => /\ Head(back[n]) # "remove"
                             /\ table[n] # Null \/ Head(back[n]) = "new"
  PROVE  Told(n)'
  <1>1. /\ back[n] \in Seq(Control) /\ back'[n] = Tail(back[n])
    BY DEF TypeOK
  <1>2. /\ Head(back[n]) = back[n][1] /\ 1 \in DOMAIN back[n]
        /\ \A i \in DOMAIN back'[n] : i + 1 \in DOMAIN back[n] /\ back'[n][i] = back[n][i + 1]
        /\ \A i \in DOMAIN back[n] : i # 1 => /\ i - 1 \in DOMAIN back'[n]
                                              /\ back'[n][i - 1] = back[n][i]
        /\ DOMAIN back[n] \subseteq Nat /\ DOMAIN back'[n] \subseteq Nat
    BY <1>1, TailFacts
  <1>3. ASSUME table'[n] # Null
        PROVE  \E i \in DOMAIN back'[n] : back'[n][i] = "remove"
    <2>1. \E i \in DOMAIN back[n] : back[n][i] = "remove"
      BY <1>2, <1>3 DEF Told
    <2>2. PICK i \in DOMAIN back[n] : back[n][i] = "remove" BY <2>1
    <2>3. i # 1 BY <1>2, <1>3, <2>2
    <2> QED BY <1>2, <2>2, <2>3, ZenonT(60)
  <1>4. ASSUME NEW i \in DOMAIN back'[n], back'[n][i] = "new"
        PROVE  \E j \in DOMAIN back'[n] : i < j /\ back'[n][j] = "remove"
    <2>1. i + 1 \in DOMAIN back[n] /\ back[n][i + 1] = "new" BY <1>2, <1>4
    <2>2. PICK j \in DOMAIN back[n] : i + 1 < j /\ back[n][j] = "remove"
      BY <2>1 DEF Told
    <2>3. j # 1 /\ j \in Nat /\ i \in Nat /\ i < j - 1 BY <1>2, <2>2
    <2> QED BY <1>2, <2>2, <2>3, ZenonT(60)
  <1> QED BY <1>3, <1>4 DEF Told

\* A message added at the end, unless it is an announcement.
LEMMA ToldAppend ==
  ASSUME TypeOK, NEW n \in Away, NEW e \in {"resume", "remove"},
         back'[n] = Append(back[n], e), e = "remove" \/ Told(n), table'[n] = table[n]
  PROVE  Told(n)'
  <1>0. e \in Control BY DEF Control
  <1>1. /\ back[n] \in Seq(Control) /\ back'[n] = Append(back[n], e)
    BY DEF TypeOK
  <1>2. /\ DOMAIN back[n] = 1..Len(back[n])
        /\ DOMAIN back'[n] = 1..(Len(back[n]) + 1)
        /\ Len(back[n]) + 1 \in DOMAIN back'[n]
        /\ back'[n][Len(back[n]) + 1] = e
        /\ \A i \in DOMAIN back[n] : i \in DOMAIN back'[n] /\ back'[n][i] = back[n][i]
        /\ Len(back[n]) \in Nat
    BY <1>0, <1>1, AppendFacts
  <1>3. \A i \in DOMAIN back'[n] : back'[n][i] = "new" => i \in DOMAIN back[n]
    BY <1>2
  <1>4. CASE e = "remove"
    <2>1. ASSUME NEW i \in DOMAIN back'[n], back'[n][i] = "new"
          PROVE  i < Len(back[n]) + 1
      BY <1>2, <1>3, <2>1
    <2> QED BY <1>2, <1>4, <2>1 DEF Told
  <1>5. CASE Told(n)
    <2>1. ASSUME NEW i \in DOMAIN back'[n], back'[n][i] = "new"
          PROVE  \E j \in DOMAIN back'[n] : i < j /\ back'[n][j] = "remove"
      <3>1. i \in DOMAIN back[n] /\ back[n][i] = "new" BY <1>2, <1>3, <2>1
      <3>2. PICK j \in DOMAIN back[n] : i < j /\ back[n][j] = "remove"
        BY <1>5, <3>1 DEF Told
      <3> QED BY <1>2, <3>2
    <2>2. ASSUME table'[n] # Null
          PROVE  \E j \in DOMAIN back'[n] : back'[n][j] = "remove"
      <3>1. PICK j \in DOMAIN back[n] : back[n][j] = "remove"
        BY <1>5, <2>2 DEF Told
      <3> QED BY <1>2, <3>1
    <2> QED BY <2>1, <2>2 DEF Told
  <1> QED BY <1>4, <1>5

\* What else keeps it: nothing on the link changes, but perhaps the record is removed.
LEMMA ToldKept ==
  ASSUME NEW n \in Away, Told(n), back'[n] = back[n], table'[n] \in {table[n], Null}
  PROVE  Told(n)'
  BY DEF Told

\* One step, but that of the answer to a HELLO.
LEMMA StaleStep ==
  ASSUME TypeOK, FallenLinkIsEmpty, ClosedIsRemoved, GreetingInOrder, [Next]_vars,
         NEW n \in Away, ~Stale(n), Stale(n)'
  PROVE  hello = n /\ known # Null /\ known' = Null /\ back'[n] = Append(back[n], "new")
  <1>0. /\ Away \subseteq Routers /\ Home \notin Away /\ n \in Routers /\ n # Home
        /\ (phase # "open" /\ n \notin totell /\ state[n] = "up" => Told(n))
        /\ phase' # "open" /\ n \notin totell' /\ state'[n] = "up" /\ ~Told(n)'
    BY StaleParts, StalePartsNext DEF Away
  <1>1. ASSUME UNCHANGED <<phase, totell>>, state'[n] = state[n], Told(n) => Told(n)'
        PROVE  FALSE
    BY <1>0, <1>1
  <1>2. ASSUME UNCHANGED <<phase, totell>>, state'[n] = state[n],
               back'[n] = back[n], table'[n] \in {table[n], Null}
        PROVE  FALSE
    BY <1>1, <1>2, ToldKept
  <1>3. ASSUME NEW s \in Senders, FindNone(s) \/ Find(s) \/ Sender(s) \/ TimeOut(s)
        PROVE  FALSE
    <2>1. UNCHANGED <<phase, totell, state, back, table>>
      BY <1>3 DEF FindNone, Find, Sender, TimeOut, GetToken, SendMsg, SendFails, ReturnBusy,
                  Retry, vars, records, network, endpoint
    <2> QED BY <1>2, <2>1
  <1>4. CASE Read
    <2>1. UNCHANGED <<phase, totell, state, back, table>> BY <1>4 DEF Read, records, network
    <2> QED BY <1>2, <2>1
  <1>5. CASE Confirm
    <2>1. UNCHANGED <<phase, totell, state, table>> BY <1>5 DEF Confirm
    <2>2. CASE back' = back BY <1>2, <2>1, <2>2
    <2>3. CASE back' = [back EXCEPT ![reader] = Append(@, "resume")]
      <3>1. back'[n] = back[n] \/ back'[n] = Append(back[n], "resume") BY <2>3 DEF TypeOK
      <3>2. CASE back'[n] = back[n] BY <1>2, <2>1, <3>2
      <3>3. CASE back'[n] = Append(back[n], "resume")
        <4>1. PICK e \in {"resume", "remove"} : e = "resume" OBVIOUS
        <4>2. Told(n) => Told(n)' BY <2>1, <3>3, <4>1, ToldAppend
        <4> QED BY <1>1, <2>1, <4>2
      <3> QED BY <3>1, <3>2, <3>3
    <2> QED BY <1>5, <2>2, <2>3, Zenon DEF Confirm
  <1>6. CASE CloseBegin
    <2>1. totell' = Away BY <1>6 DEF CloseBegin
    <2> QED BY <1>0, <2>1
  <1>7. ASSUME NEW m \in Away, Tell(m) PROVE FALSE
    <2>1. /\ UNCHANGED <<phase, state, table>> /\ totell' = totell \ {m}
          /\ m \in totell
          /\ back' = IF state[m] = "up" THEN [back EXCEPT ![m] = Append(@, "remove")] ELSE back
      BY <1>7 DEF Tell, records
    <2>2. CASE m = n
      <3>1. back'[n] = Append(back[n], "remove") BY <1>0, <2>1, <2>2 DEF TypeOK
      <3>2. PICK e \in {"resume", "remove"} : e = "remove" OBVIOUS
      <3>3. Told(n)' BY <2>1, <3>1, <3>2, ToldAppend
      <3> QED BY <1>0, <3>3
    <2>3. CASE m # n
      <3>1. back'[n] = back[n] BY <2>1, <2>3 DEF TypeOK
      <3>2. n \notin totell BY <1>0, <2>1, <2>3
      <3>3. Told(n) BY <1>0, <2>1, <3>2
      <3>4. Told(n)' BY <2>1, <3>1, <3>3, ToldKept
      <3> QED BY <1>0, <3>4
    <2> QED BY <2>2, <2>3
  <1>8. CASE CloseEnd
    <2>1. /\ UNCHANGED <<totell, state, back>> /\ phase = "telling"
          /\ table' = [table EXCEPT ![Home] = Null]
      BY <1>8 DEF CloseEnd, network, Unregister
    <2>2. table'[n] = table[n] BY <1>0, <2>1 DEF TypeOK
    <2>3. Told(n) BY <1>0, <2>1
    <2>4. Told(n)' BY <2>1, <2>2, <2>3, ToldKept
    <2> QED BY <1>0, <2>4
  <1>9. CASE FindServer
    <2>1. UNCHANGED <<phase, totell, state, back, table>>
      BY <1>9 DEF FindServer, records, network, endpoint
    <2> QED BY <1>2, <2>1
  <1>10. CASE Announce
    <2>1. UNCHANGED <<phase, totell, state, table>> BY <1>10 DEF Announce, endpoint
    <2>2. CASE back'[n] = back[n] BY <1>2, <2>1, <2>2
    <2>3. CASE back'[n] # back[n]
      <3>1. state[hello] = "up" /\ back' = [back EXCEPT ![hello] = Append(@, "new")]
        BY <1>10, <2>3, Zenon DEF Announce
      <3>2. hello = n BY <2>3, <3>1 DEF TypeOK
      <3>3. back'[n] = Append(back[n], "new") BY <3>1, <3>2 DEF TypeOK
      <3>4. known # Null /\ known' = Null BY <1>10 DEF Announce
      <3> QED BY <3>2, <3>3, <3>4
    <2> QED BY <2>2, <2>3
  <1>11. ASSUME NEW m \in Away, Receive(m) PROVE FALSE
    <2>1. UNCHANGED <<phase, totell, state, back, table>> BY <1>11 DEF Receive, records
    <2> QED BY <1>2, <2>1
  <1>12. ASSUME NEW m \in Away, NewServer(m) \/ RemoveClient(m) \/ ResumeTx(m) PROVE FALSE
    <2>1. /\ UNCHANGED <<phase, totell, state>> /\ back[m] # <<>>
          /\ back' = [back EXCEPT ![m] = Tail(@)]
      BY <1>12 DEF NewServer, RemoveClient, ResumeTx, endpoint
    <2>2. /\ m # n => table'[n] = table[n]
          /\ m = n /\ table'[n] # Null => /\ Head(back[n]) # "remove"
                                          /\ table[n] # Null \/ Head(back[n]) = "new"
      <3>1. CASE NewServer(m)
        <4>1. Head(back[m]) = "new" /\ (m # n => table'[n] = table[n])
          BY <1>0, <3>1 DEF NewServer, records, TypeOK
        <4> QED BY <4>1
      <3>2. CASE RemoveClient(m)
        <4>1. table' = [table EXCEPT ![m] = Null] BY <3>2 DEF RemoveClient, Unregister
        <4> QED BY <1>0, <4>1 DEF TypeOK
      <3>3. CASE ResumeTx(m)
        <4>1. Head(back[m]) = "resume" /\ table' = table BY <3>3 DEF ResumeTx
        <4> QED BY <4>1
      <3> QED BY <1>12, <3>1, <3>2, <3>3
    <2>3. CASE m = n
      <3>1. back'[n] = Tail(back[n]) /\ back[n] # <<>> BY <2>1, <2>3 DEF TypeOK
      <3>2. Told(n) => Told(n)' BY <2>2, <2>3, <3>1, ToldTail
      <3> QED BY <1>1, <2>1, <3>2
    <2>4. CASE m # n
      <3>1. back'[n] = back[n] BY <2>1, <2>4 DEF TypeOK
      <3> QED BY <1>2, <2>1, <2>2, <2>4, <3>1
    <2> QED BY <2>3, <2>4
  <1>13. ASSUME NEW m \in Away, LinkLost(m) PROVE FALSE
    <2>1. /\ UNCHANGED <<phase, totell, table>>
          /\ state' = [state EXCEPT ![m] = "lost"] /\ back' = [back EXCEPT ![m] = <<>>]
      BY <1>13 DEF LinkLost, records, endpoint
    <2>2. m # n BY <1>0, <2>1 DEF TypeOK
    <2>3. back'[n] = back[n] /\ state'[n] = state[n] BY <2>1, <2>2 DEF TypeOK
    <2> QED BY <1>2, <2>1, <2>3
  <1>14. ASSUME NEW m \in Away, RemoteClose(m) PROVE FALSE
    <2>1. /\ UNCHANGED <<phase, totell, back>>
          /\ state' = [state EXCEPT ![m] = "down"] /\ table' = [table EXCEPT ![m] = Null]
      BY <1>14 DEF RemoteClose, endpoint, Unregister
    <2>2. m # n BY <1>0, <2>1 DEF TypeOK
    <2>3. table'[n] = table[n] /\ state'[n] = state[n] BY <1>0, <2>1, <2>2 DEF TypeOK
    <2> QED BY <1>2, <2>1, <2>3
  <1>15. ASSUME NEW m \in Away, LinkUp(m) PROVE FALSE
    <2>1. /\ UNCHANGED <<phase, totell, back, table>> /\ state[m] = "down"
          /\ state' = [state EXCEPT ![m] = "up"]
      BY <1>15 DEF LinkUp, records, endpoint
    <2>2. CASE m = n
      <3>1. table[n] = Null /\ back[n] = <<>> BY <2>1, <2>2 DEF FallenLinkIsEmpty
      <3>2. table'[n] = Null /\ DOMAIN back'[n] = {} BY <2>1, <3>1, EmptyFacts
      <3>3. Told(n)' BY <3>2 DEF Told
      <3> QED BY <1>0, <3>3
    <2>3. CASE m # n
      <3>1. state'[n] = state[n] BY <2>1, <2>3 DEF TypeOK
      <3> QED BY <1>2, <2>1, <3>1
    <2> QED BY <2>2, <2>3
  <1>16. CASE UNCHANGED vars
    <2>1. UNCHANGED <<phase, totell, state, back, table>>
      BY <1>16 DEF vars, records, network, endpoint
    <2> QED BY <1>2, <2>1
  <1> QED
    BY <1>3, <1>4, <1>5, <1>6, <1>7, <1>8, <1>9, <1>10, <1>11, <1>12, <1>13, <1>14, <1>15,
       <1>16
    DEF Next, Reader, Closer, Greeter, Worker

\* StaleOnlyByHello: however the telling of a close, its removal, announcements and
\* links that fall and come back meet, and whatever fails, a router is left with the
\* closed endpoint only by the answer to its HELLO that found the endpoint before.
THEOREM LeftByHelloOnly == Spec => StaleOnlyByHello
  <1> DEFINE I == TypeOK /\ HoldsWhileInside /\ FallenLinkIsEmpty /\ ClosedIsRemoved
                    /\ GreetingInOrder
  <1>1. Init => I BY InitHolds DEF IInv
  <1>2. I /\ [Next]_vars => I'
    BY TypeStep, HoldsStep, FallenLinkStep, ClosedStep, GreetingStep
  <1>3. I /\ [Next]_vars =>
          [\A n \in Away : ~Stale(n) /\ Stale(n)' =>
             hello = n /\ known # Null /\ known' = Null /\ back'[n] = Append(back[n], "new")]_vars
    BY StaleStep
  <1> HIDE DEF I
  <1> QED BY <1>1, <1>2, <1>3, PTL DEF Spec, StaleOnlyByHello

-----------------------------------------------------------------------------
(***************************************************************************)
(* The backlog                                                             *)
(*                                                                         *)
(* The messages of a router and its confirmations move along one row of    *)
(* places, from the link through the inbox and the reader to the link      *)
(* back.  A round of RxQuota tokens is opened by a confirmation that       *)
(* arrives, or by a link that falls; when it arrives, all that is left on  *)
(* the way is behind it.  So it is enough to count, for every request to   *)
(* confirm, what is behind it and can still be sent: FewBehind.            *)
(***************************************************************************)

\* The senders of a router
Of(n) == {s \in Senders : RouterOf[s] = n}

\* The way of a message, and of its confirmation back: link, inbox, reader, link back.
\* <<3, i>> is a place in the link, <<2, i>> in the inbox, <<1, 0>> is the reader and
\* <<0, i>> a place in the link back.
Places == (0..3) \X Nat
Before(p, q) == p[1] < q[1] \/ (p[1] = q[1] /\ p[2] < q[2])

IsMessage(n, p) ==
  \/ p[1] = 2 /\ p[2] \in DOMAIN inbox /\ inbox[p[2]].from = n
  \/ p[1] = 3 /\ n # Home /\ p[2] \in DOMAIN link[n]

IsConfirm(n, p) ==
  \/ p[1] = 0 /\ n # Home /\ p[2] \in DOMAIN back[n] /\ back[n][p[2]] = "resume"
  \/ p[1] = 1 /\ p[2] = 0 /\ reader = n
  \/ p[1] = 2 /\ p[2] \in DOMAIN inbox /\ inbox[p[2]].from = n /\ inbox[p[2]].confirm
  \/ p[1] = 3 /\ n # Home /\ p[2] \in DOMAIN link[n] /\ link[n][p[2]]

Messages(n) == {p \in Places : IsMessage(n, p)}
Confirms(n) == {p \in Places : IsConfirm(n, p)}

\* What is behind a place, and which confirmations are ahead of it
Behind(n, p) == {m \in Messages(n) : Before(p, m)}
Ahead(n, p) == {c \in Confirms(n) : Before(c, p)}

\* Router n will have a new record of the endpoint.
ToCome(n) ==
  /\ n # Home
  /\ \/ state[n] # "up"
     \/ hello = n
     \/ \E i \in DOMAIN back[n] : back[n][i] = "new"

\* Senders of n can take tokens of r, the record in the table or a removed one they hold.
Live(n, r) == table[n] = r \/ \E s \in Of(n) : hold[s] = r

\* Tokens taken; Null stands for the record to come.
Taken(n, r) ==
  IF r = Null THEN IF ToCome(n) THEN 0 ELSE RxQuota
  ELSE IF Live(n, r) THEN txCount[r] ELSE RxQuota

\* Tokens that can be taken, the records that have some, and tokens not used yet
Tokens(n) == {p \in (Records \cup {Null}) \X (1..RxQuota) : Taken(n, p[1]) < p[2]}
Rounds(n) == {r \in Records \cup {Null} : Taken(n, r) < RxQuota}
InHand(n) == {s \in Of(n) : pc[s] \in {"normal", "last"}}
LastInHand(n) == {s \in Of(n) : pc[s] = "last"}

\* Messages that can be sent without another confirmation
Credit(n) == Cardinality(Tokens(n)) + Cardinality(InHand(n))

\* Each record of n there was has its last token still to take, in hand, on the way as a
\* request to confirm, or on the way back.
FewRounds(n) ==
  Cardinality(Confirms(n)) + Cardinality(LastInHand(n)) + Cardinality(Rounds(n)) <= flaps + 1

\* Behind a message that asks to be confirmed there are only those of senders that had a
\* token when it was sent, and of rounds begun by the confirmations ahead of it.
FewBehind(n) ==
  \A p \in Confirms(n) :
    Cardinality(Behind(n, p)) + Credit(n) + RxQuota * Cardinality(Ahead(n, p))
      <= RxQuota * flaps + Cardinality(Of(n)) - 1

FewMessages(n) ==
  Cardinality(Messages(n)) + Credit(n) <= RxQuota * (flaps + 1) + Cardinality(Of(n)) - 1

Backlog == \A n \in Routers : Of(n) # {} => FewRounds(n) /\ FewBehind(n) /\ FewMessages(n)

\* Only routers with senders send, and a record to come is announced once.
Silent ==
  /\ \A i \in DOMAIN inbox : Of(inbox[i].from) # {}
  /\ \A n \in Away : link[n] # <<>> => Of(n) # {}
AnnouncedOnce ==
  \A n \in Away :
    /\ \A i, j \in DOMAIN back[n] : back[n][i] = "new" /\ back[n][j] = "new" => i = j
    /\ hello = n => \A i \in DOMAIN back[n] : back[n][i] # "new"

\* There are finitely many senders and records.
Finite == IsFiniteSet(Senders) /\ IsFiniteSet(Records)

\* An injective function into a finite set
LEMMA Embedded ==
  ASSUME NEW S, NEW T, IsFiniteSet(T), NEW f,
         \A x \in S : f[x] \in T,
         \A x, y \in S : f[x] = f[y] => x = y
  PROVE  IsFiniteSet(S) /\ Cardinality(S) <= Cardinality(T)
  <1> DEFINE g == [x \in S |-> f[x]]
  <1>1. g \in Injection(S, T) BY DEF Injection, IsInjective
  <1> QED BY <1>1, FS_Injection

\* Places are in a row.
LEMMA PlacesOrdered ==
  ASSUME NEW p \in Places, NEW q \in Places
  PROVE  /\ p # q => Before(p, q) \/ Before(q, p)
         /\ ~(Before(p, q) /\ Before(q, p))
         /\ ~Before(p, p)
         /\ \A r \in Places : Before(p, q) /\ Before(q, r) => Before(p, r)
  BY DEF Places, Before

\* There are finitely many messages and confirmations under way.
LEMMA MessagesFinite ==
  ASSUME TypeOK, NEW n \in Routers
  PROVE  IsFiniteSet(Messages(n)) /\ IsFiniteSet(Confirms(n))
  <1> DEFINE a == IF n = Home THEN 0 ELSE Len(link[n])
             b == IF n = Home THEN 0 ELSE Len(back[n])
             U == ({2} \X (1..Len(inbox))) \cup ({3} \X (1..a)) \cup ({0} \X (1..b))
                    \cup ({1} \X {0})
  <1>1. a \in Nat /\ b \in Nat /\ Len(inbox) \in Nat BY DEF TypeOK, Away
  <1>2. IsFiniteSet(U)
    <2> HIDE DEF a, b
    <2>1. IsFiniteSet(1..a) /\ IsFiniteSet(1..b) /\ IsFiniteSet(1..Len(inbox))
      BY <1>1, FS_Interval, SMTT(30)
    <2>2. IsFiniteSet({0}) /\ IsFiniteSet({1}) /\ IsFiniteSet({2}) /\ IsFiniteSet({3})
      BY FS_Singleton
    <2>3. /\ IsFiniteSet({2} \X (1..Len(inbox))) /\ IsFiniteSet({3} \X (1..a))
          /\ IsFiniteSet({0} \X (1..b)) /\ IsFiniteSet({1} \X {0})
      BY <2>1, <2>2, FS_Product
    <2> QED BY <2>3, FS_Union
  <1>3. /\ DOMAIN inbox = 1..Len(inbox)
        /\ n # Home => DOMAIN link[n] = 1..a /\ DOMAIN back[n] = 1..b
    BY DEF TypeOK, Away
  <1>4. Messages(n) \subseteq U
    BY <1>3 DEF Messages, IsMessage, Places
  <1>5. Confirms(n) \subseteq U
    BY <1>3 DEF Confirms, IsConfirm, Places
  <1> QED BY <1>2, <1>4, <1>5, FS_Subset

\* What is under way moves on in its order, and some of it may be lost: f tells where it was.
Moves(n, f) ==
  /\ \A p \in Messages(n)' : f[p] \in Messages(n)
  /\ \A p \in Confirms(n)' : f[p] \in Confirms(n)
  /\ \A p, q \in Messages(n)' \cup Confirms(n)' : Before(p, q) => Before(f[p], f[q])

\* Nothing is moved to where something else was.
LEMMA MovesApart ==
  ASSUME NEW n, NEW f, Moves(n, f)
  PROVE  \A p, q \in Messages(n)' \cup Confirms(n)' : f[p] = f[q] => p = q
  <1> SUFFICES ASSUME NEW p \in Messages(n)' \cup Confirms(n)',
                      NEW q \in Messages(n)' \cup Confirms(n)', f[p] = f[q], p # q
               PROVE  FALSE
    OBVIOUS
  <1>1. f[p] \in Places /\ p \in Places /\ q \in Places
    BY DEF Moves, Messages, Confirms, Places
  <1>2. Before(p, q) \/ Before(q, p) BY <1>1, PlacesOrdered
  <1>3. Before(f[p], f[q]) \/ Before(f[q], f[p]) BY <1>2 DEF Moves
  <1> QED BY <1>1, <1>3, PlacesOrdered

\* Then there is no more than before, nor behind or ahead of anything.
LEMMA MovesFewer ==
  ASSUME TypeOK, NEW n \in Routers, NEW f, Moves(n, f)
  PROVE  /\ Cardinality(Messages(n)') <= Cardinality(Messages(n))
         /\ Cardinality(Confirms(n)') <= Cardinality(Confirms(n))
         /\ \A p \in Confirms(n)' :
              /\ Cardinality(Behind(n, p)') <= Cardinality(Behind(n, f[p]))
              /\ Cardinality(Ahead(n, p)') <= Cardinality(Ahead(n, f[p]))
         /\ IsFiniteSet(Messages(n)') /\ IsFiniteSet(Confirms(n)')
  <1> DEFINE P == Messages(n)' \cup Confirms(n)'
  <1>1. IsFiniteSet(Messages(n)) /\ IsFiniteSet(Confirms(n)) BY MessagesFinite
  <1>3. \A p, q \in P : f[p] = f[q] => p = q BY MovesApart
  <1>4. /\ IsFiniteSet(Messages(n)')
        /\ Cardinality(Messages(n)') <= Cardinality(Messages(n))
    <2>1. \A p \in Messages(n)' : f[p] \in Messages(n) BY DEF Moves
    <2>2. \A p, q \in Messages(n)' : f[p] = f[q] => p = q BY <1>3
    <2> HIDE DEF P
    <2> QED BY <1>1, <2>1, <2>2, Embedded
  <1>5. /\ IsFiniteSet(Confirms(n)')
        /\ Cardinality(Confirms(n)') <= Cardinality(Confirms(n))
    <2>1. \A p \in Confirms(n)' : f[p] \in Confirms(n) BY DEF Moves
    <2>2. \A p, q \in Confirms(n)' : f[p] = f[q] => p = q BY <1>3
    <2> HIDE DEF P
    <2> QED BY <1>1, <2>1, <2>2, Embedded
  <1>6. ASSUME NEW p \in Confirms(n)'
        PROVE  /\ Cardinality(Behind(n, p)') <= Cardinality(Behind(n, f[p]))
               /\ Cardinality(Ahead(n, p)') <= Cardinality(Ahead(n, f[p]))
    <2>1. \A m \in Behind(n, p)' : m \in Messages(n)' /\ Before(p, m) BY DEF Behind, Before
    <2>2. \A c \in Ahead(n, p)' : c \in Confirms(n)' /\ Before(c, p) BY DEF Ahead, Before
    <2>3. \A m \in Behind(n, p)' : f[m] \in Behind(n, f[p])
      BY <2>1 DEF Behind, Moves
    <2>4. \A c \in Ahead(n, p)' : f[c] \in Ahead(n, f[p])
      BY <2>2 DEF Ahead, Moves
    <2>5. IsFiniteSet(Behind(n, f[p])) /\ IsFiniteSet(Ahead(n, f[p]))
      BY <1>1, FS_Subset DEF Behind, Ahead
    <2>6. Cardinality(Behind(n, p)') <= Cardinality(Behind(n, f[p]))
      <3>1. \A x, y \in Behind(n, p)' : f[x] = f[y] => x = y BY <1>3, <2>1
      <3> QED BY <2>3, <2>5, <3>1, Embedded
    <2>7. Cardinality(Ahead(n, p)') <= Cardinality(Ahead(n, f[p]))
      <3>1. \A x, y \in Ahead(n, p)' : f[x] = f[y] => x = y BY <1>3, <2>2
      <3> QED BY <2>4, <2>5, <3>1, Embedded
    <2> QED BY <2>6, <2>7
  <1> QED BY <1>4, <1>5, <1>6

\* A set within the union of two
LEMMA AtMostBoth ==
  ASSUME NEW S, NEW T, NEW U, IsFiniteSet(S), IsFiniteSet(T), U \subseteq S \cup T
  PROVE  Cardinality(U) <= Cardinality(S) + Cardinality(T)
  <1>1. /\ IsFiniteSet(S \cup T)
        /\ Cardinality(S \cup T) = Cardinality(S) + Cardinality(T) - Cardinality(S \cap T)
    BY FS_Union
  <1>2. Cardinality(S) \in Nat /\ Cardinality(T) \in Nat BY FS_CardinalityType
  <1>3. Cardinality(S \cap T) \in Nat
    <2>1. IsFiniteSet(S \cap T) BY FS_Intersection
    <2> QED BY <2>1, FS_CardinalityType
  <1>4. IsFiniteSet(U) /\ Cardinality(U) <= Cardinality(S \cup T) BY <1>1, FS_Subset
  <1>5. Cardinality(U) \in Nat BY <1>4, FS_CardinalityType
  <1> QED BY <1>1, <1>2, <1>3, <1>4, <1>5

\* The row of tokens of one record
LEMMA RowSize ==
  ASSUME NEW r
  PROVE  IsFiniteSet({r} \X (1..RxQuota)) /\ Cardinality({r} \X (1..RxQuota)) = RxQuota
  <1>1. IsFiniteSet(1..RxQuota) /\ Cardinality(1..RxQuota) = RxQuota
    BY FS_Interval
  <1>2. IsFiniteSet({r}) /\ Cardinality({r}) = 1 BY FS_Singleton
  <1>3. /\ IsFiniteSet({r} \X (1..RxQuota))
        /\ Cardinality({r} \X (1..RxQuota)) = Cardinality({r}) * Cardinality(1..RxQuota)
    BY <1>1, <1>2, FS_Product
  <1> QED BY <1>1, <1>2, <1>3

\* Taken tokens are counted up to the quota.
LEMMA TakenType ==
  ASSUME TypeOK, NEW n \in Routers, NEW r \in Records \cup {Null}
  PROVE  Taken(n, r) \in 0..RxQuota
  BY DEF TypeOK, Taken

\* There are no more tokens than in the rounds that are open.
LEMMA TokensFinite ==
  ASSUME TypeOK, Finite, NEW n \in Routers
  PROVE  /\ IsFiniteSet(Tokens(n)) /\ IsFiniteSet(Rounds(n))
         /\ IsFiniteSet(InHand(n)) /\ IsFiniteSet(LastInHand(n)) /\ IsFiniteSet(Of(n))
         /\ Cardinality(Tokens(n)) <= RxQuota * Cardinality(Rounds(n))
         /\ LastInHand(n) \subseteq InHand(n) /\ InHand(n) \subseteq Of(n)
         /\ Credit(n) \in Nat
         /\ Cardinality(InHand(n)) \in Nat /\ Cardinality(Tokens(n)) \in Nat
         /\ Cardinality(Rounds(n)) \in Nat /\ Cardinality(LastInHand(n)) \in Nat
         /\ Cardinality(Of(n)) \in Nat
  <1>1. IsFiniteSet(Records \cup {Null}) BY FS_AddElement DEF Finite
  <1>2. IsFiniteSet(Rounds(n)) BY <1>1, FS_Subset DEF Rounds
  <1>3. IsFiniteSet(1..RxQuota) /\ Cardinality(1..RxQuota) = RxQuota BY FS_Interval
  <1>4. Tokens(n) \subseteq Rounds(n) \X (1..RxQuota)
    <2> SUFFICES ASSUME NEW p \in Tokens(n) PROVE p \in Rounds(n) \X (1..RxQuota)
      OBVIOUS
    <2>1. PICK r \in Records \cup {Null}, k \in 1..RxQuota : p = <<r, k>>
      BY DEF Tokens
    <2>2. Taken(n, r) < k BY <2>1 DEF Tokens
    <2>3. Taken(n, r) \in 0..RxQuota BY TakenType
    <2>4. Taken(n, r) < RxQuota BY <2>2, <2>3
    <2> QED BY <2>1, <2>4 DEF Rounds
  <1>5. /\ IsFiniteSet(Rounds(n) \X (1..RxQuota))
        /\ Cardinality(Rounds(n) \X (1..RxQuota)) = Cardinality(Rounds(n)) * RxQuota
    <2>1. Cardinality(Rounds(n) \X (1..RxQuota)) = Cardinality(Rounds(n)) * Cardinality(1..RxQuota)
      BY <1>2, <1>3, FS_Product
    <2> QED BY <1>2, <1>3, <2>1, FS_Product
  <1>6. /\ IsFiniteSet(Tokens(n))
        /\ Cardinality(Tokens(n)) <= Cardinality(Rounds(n)) * RxQuota
    BY <1>4, <1>5, FS_Subset
  <1>7. IsFiniteSet(Of(n)) BY FS_Subset DEF Of, Finite
  <1>8. InHand(n) \subseteq Of(n) /\ LastInHand(n) \subseteq InHand(n) BY DEF InHand, LastInHand
  <1>9. IsFiniteSet(InHand(n)) /\ IsFiniteSet(LastInHand(n)) BY <1>7, <1>8, FS_Subset
  <1>10. /\ Cardinality(Rounds(n)) \in Nat /\ Cardinality(Tokens(n)) \in Nat
         /\ Cardinality(InHand(n)) \in Nat /\ Cardinality(Of(n)) \in Nat
         /\ Cardinality(LastInHand(n)) \in Nat
    BY <1>2, <1>6, <1>7, <1>9, FS_CardinalityType
  <1>11. Cardinality(Rounds(n)) * RxQuota = RxQuota * Cardinality(Rounds(n))
    <2>1. \A x, y \in Nat : x * y = y * x OBVIOUS
    <2> QED BY <1>10, <2>1
  <1>12. Credit(n) \in Nat BY <1>10 DEF Credit
  <1> QED BY <1>2, <1>6, <1>7, <1>8, <1>9, <1>10, <1>11, <1>12

\* No record of n has more to give.
NoMoreTokens(n) ==
  \A r \in Records \cup {Null} : Taken(n, r)' < RxQuota => Taken(n, r) <= Taken(n, r)'

\* No round is opened.
LEMMA TokensFewer ==
  ASSUME TypeOK, TypeOK', Finite, NEW n \in Routers, NoMoreTokens(n)
  PROVE  /\ Tokens(n)' \subseteq Tokens(n)
         /\ Rounds(n)' \subseteq Rounds(n)
         /\ Cardinality(Tokens(n)') <= Cardinality(Tokens(n))
         /\ Cardinality(Rounds(n)') <= Cardinality(Rounds(n))
  <1>1. \A r \in Records \cup {Null} : Taken(n, r) \in 0..RxQuota /\ Taken(n, r)' \in 0..RxQuota
    <2> TAKE r \in Records \cup {Null}
    <2>1. Taken(n, r)' \in 0..RxQuota BY DEF Taken, TypeOK
    <2> QED BY <2>1, TakenType
  <1>2. Tokens(n)' \subseteq Tokens(n)
    <2> SUFFICES ASSUME NEW p \in Tokens(n)' PROVE p \in Tokens(n)
      OBVIOUS
    <2>1. PICK r \in Records \cup {Null}, k \in 1..RxQuota : p = <<r, k>>
      BY DEF Tokens
    <2>2. Taken(n, r)' < k
      <3>1. Taken(n, p[1])' < p[2] BY DEF Tokens, Taken, Live, ToCome, Of
      <3> QED BY <2>1, <3>1 DEF Taken, Live, ToCome, Of
    <2>3. Taken(n, r) < k BY <1>1, <2>2 DEF NoMoreTokens
    <2> QED BY <2>1, <2>3 DEF Tokens
  <1>3. Rounds(n)' \subseteq Rounds(n)
    <2> SUFFICES ASSUME NEW r \in Records \cup {Null}, Taken(n, r)' < RxQuota
                 PROVE  Taken(n, r) < RxQuota
      BY DEF Rounds
    <2> QED BY <1>1 DEF NoMoreTokens
  <1> QED BY <1>2, <1>3, TokensFinite, FS_Subset

\* A sender takes a token of a record of its router.
LEMMA TokenTaken ==
  ASSUME TypeOK, TypeOK', Finite, NEW n \in Routers, NEW r \in Records,
         Taken(n, r) < RxQuota, Taken(n, r)' = Taken(n, r) + 1,
         \A q \in Records \cup {Null} : q # r => Taken(n, q)' = Taken(n, q)
  PROVE  /\ Cardinality(Tokens(n)') <= Cardinality(Tokens(n)) - 1
         /\ Cardinality(Rounds(n)') <=
              Cardinality(Rounds(n)) - IF Taken(n, r) + 1 = RxQuota THEN 1 ELSE 0
  <1>0. Taken(n, r) \in 0..RxQuota BY TakenType
  <1>1. NoMoreTokens(n)
    <2> SUFFICES ASSUME NEW q \in Records \cup {Null} PROVE Taken(n, q) <= Taken(n, q)'
      BY DEF NoMoreTokens
    <2>1. Taken(n, q) \in 0..RxQuota BY TakenType
    <2> QED BY <2>1
  <1>2. Tokens(n)' \subseteq Tokens(n) /\ Rounds(n)' \subseteq Rounds(n) BY <1>1, TokensFewer
  <1> DEFINE t == <<r, Taken(n, r) + 1>>
  <1>3. t \in Tokens(n)
    <2>1. Taken(n, r) + 1 \in 1..RxQuota /\ Taken(n, r) < Taken(n, r) + 1 BY <1>0
    <2> QED BY <2>1 DEF Tokens
  <1>4. t \notin Tokens(n)'
    <2>1. ~(Taken(n, r)' < Taken(n, r) + 1) BY <1>0
    <2> QED BY <2>1 DEF Tokens, Taken, Live, ToCome, Of
  <1>5. Cardinality(Tokens(n)') <= Cardinality(Tokens(n)) - 1
    <2>1. Tokens(n)' \subseteq Tokens(n) \ {t} BY <1>2, <1>4
    <2> HIDE DEF t
    <2>2. IsFiniteSet(Tokens(n)) BY TokensFinite
    <2>3. IsFiniteSet(Tokens(n) \ {t}) /\ Cardinality(Tokens(n) \ {t}) = Cardinality(Tokens(n)) - 1
      BY <1>3, <2>2, FS_RemoveElement
    <2> QED BY <2>1, <2>3, FS_Subset
  <1>6. CASE Taken(n, r) + 1 = RxQuota
    <2>1. r \in Rounds(n) /\ r \notin Rounds(n)' BY <1>6 DEF Rounds
    <2>2. IsFiniteSet(Rounds(n)) BY TokensFinite
    <2>3. /\ IsFiniteSet(Rounds(n) \ {r})
          /\ Cardinality(Rounds(n) \ {r}) = Cardinality(Rounds(n)) - 1
      BY <2>1, <2>2, FS_RemoveElement
    <2>4. Rounds(n)' \subseteq Rounds(n) \ {r} BY <1>2, <2>1
    <2>5. Cardinality(Rounds(n)') <= Cardinality(Rounds(n)) - 1 BY <2>3, <2>4, FS_Subset
    <2> QED BY <1>5, <1>6, <2>5
  <1>7. CASE Taken(n, r) + 1 # RxQuota
    <2>1. Cardinality(Rounds(n)') <= Cardinality(Rounds(n)) BY <1>1, TokensFewer
    <2> QED BY <1>5, <1>7, <2>1, TokensFinite
  <1> QED BY <1>6, <1>7

\* The numbers of messages, confirmations, tokens and rounds of router n
Counts(n) ==
  /\ Cardinality(Messages(n)) \in Nat /\ Cardinality(Confirms(n)) \in Nat
  /\ Cardinality(Tokens(n)) \in Nat /\ Cardinality(InHand(n)) \in Nat
  /\ Credit(n) \in Nat /\ Cardinality(Rounds(n)) \in Nat /\ Cardinality(LastInHand(n)) \in Nat
  /\ Cardinality(Of(n)) \in Nat /\ flaps \in Nat
  /\ \A p \in Places : /\ Cardinality(Behind(n, p)) \in Nat
                       /\ Cardinality(Ahead(n, p)) \in Nat

\* are numbers.
LEMMA CountsType ==
  ASSUME TypeOK, Finite, NEW n \in Routers
  PROVE  Counts(n)
  <1>1. IsFiniteSet(Messages(n)) /\ IsFiniteSet(Confirms(n)) BY MessagesFinite
  <1>2. Cardinality(Messages(n)) \in Nat /\ Cardinality(Confirms(n)) \in Nat
    BY <1>1, FS_CardinalityType
  <1>3. ASSUME NEW p \in Places
        PROVE  Cardinality(Behind(n, p)) \in Nat /\ Cardinality(Ahead(n, p)) \in Nat
    <2>1. IsFiniteSet(Behind(n, p)) /\ IsFiniteSet(Ahead(n, p))
      BY <1>1, FS_Subset DEF Behind, Ahead
    <2> QED BY <2>1, FS_CardinalityType
  <1>4. flaps \in Nat BY DEF TypeOK
  <1> QED BY <1>2, <1>3, <1>4, TokensFinite DEF Counts

\* The same as formulas, to be used after a step
AllCounts == \A n \in Routers : Counts(n)
Typed == TypeOK /\ Finite
\* Types are all it takes.
LEMMA CountsTyped == Typed => AllCounts
  BY CountsType DEF Typed, AllCounts

\* also after a step.
LEMMA CountsNext ==
  ASSUME TypeOK', Finite, NEW n \in Routers
  PROVE  Counts(n)'
  <1>1. Typed' => AllCounts' BY CountsTyped, PTL
  <1>2. Typed' BY DEF Finite, Typed
  <1> QED BY <1>1, <1>2 DEF AllCounts

\* A record has tokens again.
LEMMA RoundOpened ==
  ASSUME TypeOK, TypeOK', Finite, NEW n \in Routers, NEW r \in Records \cup {Null},
         \A q \in Records \cup {Null} : q # r /\ Taken(n, q)' < RxQuota =>
           Taken(n, q) <= Taken(n, q)'
  PROVE  /\ Cardinality(Tokens(n)') <= Cardinality(Tokens(n)) + RxQuota
         /\ Cardinality(Rounds(n)') <= Cardinality(Rounds(n)) + 1
  <1>1. \A q \in Records \cup {Null} : Taken(n, q) \in 0..RxQuota /\ Taken(n, q)' \in 0..RxQuota
    <2> TAKE q \in Records \cup {Null}
    <2>1. Taken(n, q)' \in 0..RxQuota BY DEF Taken, TypeOK
    <2> QED BY <2>1, TakenType
  <1>2. Tokens(n)' \subseteq Tokens(n) \cup ({r} \X (1..RxQuota))
    <2> SUFFICES ASSUME NEW p \in Tokens(n)' PROVE p \in Tokens(n) \cup ({r} \X (1..RxQuota))
      OBVIOUS
    <2>1. PICK q \in Records \cup {Null}, k \in 1..RxQuota : p = <<q, k>>
      BY DEF Tokens
    <2>2. Taken(n, q)' < k
      <3>1. Taken(n, p[1])' < p[2] BY DEF Tokens, Taken, Live, ToCome, Of
      <3> QED BY <2>1, <3>1 DEF Taken, Live, ToCome, Of
    <2>3. q = r \/ Taken(n, q) < k BY <1>1, <2>2
    <2> QED BY <2>1, <2>3 DEF Tokens
  <1>3. Rounds(n)' \subseteq Rounds(n) \cup {r}
    <2> SUFFICES ASSUME NEW q \in Records \cup {Null}, Taken(n, q)' < RxQuota, q # r
                 PROVE  Taken(n, q) < RxQuota
      BY DEF Rounds
    <2> QED BY <1>1
  <1>4. IsFiniteSet(Tokens(n)) /\ IsFiniteSet(Rounds(n)) BY TokensFinite
  <1>5. Cardinality(Tokens(n)') <= Cardinality(Tokens(n)) + RxQuota
    <2> DEFINE row == {r} \X (1..RxQuota)
    <2>1. IsFiniteSet(row) /\ Cardinality(row) = RxQuota BY RowSize
    <2>2. Tokens(n)' \subseteq Tokens(n) \cup row BY <1>2
    <2> HIDE DEF row
    <2>3. Cardinality(Tokens(n)') <= Cardinality(Tokens(n)) + Cardinality(row)
      BY <1>4, <2>1, <2>2, AtMostBoth
    <2> QED BY <2>1, <2>3
  <1>6. Cardinality(Rounds(n)') <= Cardinality(Rounds(n)) + 1
    <2>1. IsFiniteSet({r}) /\ Cardinality({r}) = 1 BY FS_Singleton
    <2> QED BY <1>3, <1>4, <2>1, AtMostBoth
  <1> QED BY <1>5, <1>6

\* The record to come is there.
LEMMA RecordCame ==
  ASSUME TypeOK, TypeOK', Finite, NEW n \in Routers, NEW r \in Records,
         Taken(n, Null) = 0, Taken(n, Null)' = RxQuota,
         \A q \in Records : q # r /\ Taken(n, q)' < RxQuota =>
           Taken(n, q) <= Taken(n, q)'
  PROVE  /\ Cardinality(Tokens(n)') <= Cardinality(Tokens(n))
         /\ Cardinality(Rounds(n)') <= Cardinality(Rounds(n))
  <1>1. \A q \in Records \cup {Null} : Taken(n, q) \in 0..RxQuota /\ Taken(n, q)' \in 0..RxQuota
    <2> TAKE q \in Records \cup {Null}
    <2>1. Taken(n, q)' \in 0..RxQuota BY DEF Taken, TypeOK
    <2> QED BY <2>1, TakenType
  <1> DEFINE come == {Null} \X (1..RxQuota)
             row == {r} \X (1..RxQuota)
  <1>2. come \subseteq Tokens(n)
    <2> SUFFICES ASSUME NEW k \in 1..RxQuota PROVE <<Null, k>> \in Tokens(n)
      OBVIOUS
    <2> QED BY DEF Tokens
  <1>3. Tokens(n)' \subseteq (Tokens(n) \ come) \cup row
    <2> SUFFICES ASSUME NEW p \in Tokens(n)' PROVE p \in (Tokens(n) \ come) \cup row
      OBVIOUS
    <2>1. PICK q \in Records \cup {Null}, k \in 1..RxQuota : p = <<q, k>>
      BY DEF Tokens
    <2>2. Taken(n, q)' < k
      <3>1. Taken(n, p[1])' < p[2] BY DEF Tokens, Taken, Live, ToCome, Of
      <3> QED BY <2>1, <3>1 DEF Taken, Live, ToCome, Of
    <2>3. q # Null
      <3>1. ~(RxQuota < k) OBVIOUS
      <3> QED BY <2>2, <3>1
    <2>4. q = r \/ Taken(n, q) < k BY <1>1, <2>2, <2>3
    <2> QED BY <2>1, <2>3, <2>4 DEF Tokens
  <1>4. Rounds(n)' \subseteq (Rounds(n) \ {Null}) \cup {r}
    <2> SUFFICES ASSUME NEW q \in Records \cup {Null}, Taken(n, q)' < RxQuota, q # r
                 PROVE  Taken(n, q) < RxQuota /\ q # Null
      BY DEF Rounds
    <2> QED BY <1>1
  <1>5. IsFiniteSet(Tokens(n)) /\ IsFiniteSet(Rounds(n)) BY TokensFinite
  <1>6. Cardinality(Tokens(n)') <= Cardinality(Tokens(n))
    <2>1. /\ IsFiniteSet(row) /\ Cardinality(row) = RxQuota
          /\ IsFiniteSet(come) /\ Cardinality(come) = RxQuota
      BY RowSize
    <2> HIDE DEF come, row
    <2>2. Tokens(n) \cap come = come BY <1>2
    <2>3. /\ IsFiniteSet(Tokens(n) \ come)
          /\ Cardinality(Tokens(n) \ come) = Cardinality(Tokens(n)) - Cardinality(Tokens(n) \cap come)
      BY <1>5, FS_Difference
    <2>4. Cardinality(Tokens(n)') <= Cardinality(Tokens(n) \ come) + Cardinality(row)
      BY <1>3, <2>1, <2>3, AtMostBoth
    <2>5. Cardinality(Tokens(n)) \in Nat BY <1>5, FS_CardinalityType
    <2>6. Cardinality(Tokens(n) \ come) = Cardinality(Tokens(n)) - RxQuota
      BY <2>1, <2>2, <2>3
    <2>7. Cardinality(Tokens(n)') \in Nat BY CountsNext DEF Counts
    <2> QED BY <2>1, <2>4, <2>5, <2>6, <2>7
  <1>7. Cardinality(Rounds(n)') <= Cardinality(Rounds(n))
    <2>1. IsFiniteSet({r}) /\ Cardinality({r}) = 1 BY FS_Singleton
    <2>2. Null \in Rounds(n) BY DEF Rounds
    <2>3. /\ IsFiniteSet(Rounds(n) \ {Null})
          /\ Cardinality(Rounds(n) \ {Null}) = Cardinality(Rounds(n)) - 1
      BY <1>5, <2>2, FS_RemoveElement
    <2>4. Cardinality(Rounds(n)') <= Cardinality(Rounds(n) \ {Null}) + Cardinality({r})
      BY <1>4, <2>1, <2>3, AtMostBoth
    <2> QED BY <1>5, <2>1, <2>3, <2>4, FS_CardinalityType
  <1> QED BY <1>6, <1>7

\* Arithmetic of rounds
LEMMA OneRoundMore ==
  ASSUME NEW x \in Nat
  PROVE  /\ RxQuota * x \in Nat
         /\ RxQuota * (x + 1) = RxQuota * x + RxQuota
         /\ \A y \in Nat : y <= x => RxQuota * y <= RxQuota * x
         /\ \A y \in Nat : RxQuota * y + RxQuota * x = RxQuota * (y + x)
  <1>1. RxQuota \in Nat OBVIOUS
  <1>2. RxQuota * x \in Nat /\ RxQuota * (x + 1) = RxQuota * x + RxQuota BY <1>1
  <1>3. ASSUME NEW y \in Nat, y <= x PROVE RxQuota * y <= RxQuota * x BY <1>1, <1>3
  <1>4. ASSUME NEW y \in Nat PROVE RxQuota * y + RxQuota * x = RxQuota * (y + x) BY <1>1
  <1> QED BY <1>2, <1>3, <1>4

\* Nothing new: what is under way moves on and no token is given.
LEMMA QuietBacklog ==
  ASSUME TypeOK, TypeOK', Finite, NEW n \in Routers, NEW f, Moves(n, f),
         Credit(n)' <= Credit(n), flaps' = flaps,
         Cardinality(LastInHand(n)') + Cardinality(Rounds(n)')
           <= Cardinality(LastInHand(n)) + Cardinality(Rounds(n)),
         FewRounds(n) /\ FewBehind(n) /\ FewMessages(n)
  PROVE  (FewRounds(n) /\ FewBehind(n) /\ FewMessages(n))'
  <1>1. Counts(n) /\ Counts(n)' BY CountsType, CountsNext
  <1>2. FewRounds(n)'
    <2>1. Cardinality(Confirms(n)') <= Cardinality(Confirms(n)) BY MovesFewer
    <2> QED BY <1>1, <2>1 DEF FewRounds, Counts
  <1>3. FewMessages(n)'
    <2>1. Cardinality(Messages(n)') <= Cardinality(Messages(n)) BY MovesFewer
    <2>2. Of(n)' = Of(n) BY DEF Of
    <2>3. RxQuota * (flaps + 1) \in Nat BY <1>1, OneRoundMore DEF Counts
    <2> QED BY <1>1, <2>1, <2>2, <2>3 DEF FewMessages, Counts
  <1>4. FewBehind(n)'
    <2> SUFFICES ASSUME NEW p \in Confirms(n)'
                 PROVE  (Cardinality(Behind(n, p)) + Credit(n) + RxQuota * Cardinality(Ahead(n, p))
                          <= RxQuota * flaps + Cardinality(Of(n)) - 1)'
      BY DEF FewBehind
    <2>1. f[p] \in Confirms(n) /\ f[p] \in Places /\ p \in Places BY DEF Moves, Confirms
    <2>2. /\ Cardinality(Behind(n, p)') <= Cardinality(Behind(n, f[p]))
          /\ Cardinality(Ahead(n, p)') <= Cardinality(Ahead(n, f[p]))
      BY MovesFewer
    <2>3. /\ Cardinality(Behind(n, f[p])) \in Nat /\ Cardinality(Ahead(n, f[p])) \in Nat
          /\ Cardinality(Behind(n, p)') \in Nat /\ Cardinality(Ahead(n, p)') \in Nat
      BY <1>1, <2>1 DEF Counts
    <2>4. Cardinality(Behind(n, f[p])) + Credit(n) + RxQuota * Cardinality(Ahead(n, f[p]))
            <= RxQuota * flaps + Cardinality(Of(n)) - 1
      BY <2>1 DEF FewBehind
    <2>5. /\ RxQuota * Cardinality(Ahead(n, p)') <= RxQuota * Cardinality(Ahead(n, f[p]))
          /\ RxQuota * Cardinality(Ahead(n, p)') \in Nat
          /\ RxQuota * Cardinality(Ahead(n, f[p])) \in Nat
          /\ RxQuota * flaps \in Nat
      BY <1>1, <2>2, <2>3, OneRoundMore DEF Counts
    <2>6. Of(n)' = Of(n) BY DEF Of
    <2> QED BY <1>1, <2>2, <2>3, <2>4, <2>5, <2>6 DEF Counts
  <1> QED BY <1>2, <1>3, <1>4

\* A link falls: one more round will come.
LEMMA FlapBacklog ==
  ASSUME TypeOK, TypeOK', Finite, NEW n \in Routers, NEW f, Moves(n, f),
         Credit(n)' <= Credit(n) + RxQuota, flaps' = flaps + 1,
         Cardinality(LastInHand(n)') + Cardinality(Rounds(n)')
           <= Cardinality(LastInHand(n)) + Cardinality(Rounds(n)) + 1,
         FewRounds(n) /\ FewBehind(n) /\ FewMessages(n)
  PROVE  (FewRounds(n) /\ FewBehind(n) /\ FewMessages(n))'
  <1>1. Counts(n) /\ Counts(n)' BY CountsType, CountsNext
  <1>2. FewRounds(n)'
    <2>1. Cardinality(Confirms(n)') <= Cardinality(Confirms(n)) BY MovesFewer
    <2> QED BY <1>1, <2>1 DEF FewRounds, Counts
  <1>3. /\ RxQuota * (flaps + 1) = RxQuota * flaps + RxQuota
        /\ RxQuota * (flaps' + 1) = RxQuota * flaps + RxQuota + RxQuota
        /\ RxQuota * flaps' = RxQuota * flaps + RxQuota
        /\ RxQuota * flaps \in Nat
    BY <1>1, OneRoundMore DEF Counts
  <1>4. Of(n)' = Of(n) BY DEF Of
  <1>5. FewMessages(n)'
    <2>1. Cardinality(Messages(n)') <= Cardinality(Messages(n)) BY MovesFewer
    <2> QED BY <1>1, <1>3, <1>4, <2>1 DEF FewMessages, Counts
  <1>6. FewBehind(n)'
    <2> SUFFICES ASSUME NEW p \in Confirms(n)'
                 PROVE  (Cardinality(Behind(n, p)) + Credit(n) + RxQuota * Cardinality(Ahead(n, p))
                          <= RxQuota * flaps + Cardinality(Of(n)) - 1)'
      BY DEF FewBehind
    <2>1. f[p] \in Confirms(n) /\ f[p] \in Places /\ p \in Places BY DEF Moves, Confirms
    <2>2. /\ Cardinality(Behind(n, p)') <= Cardinality(Behind(n, f[p]))
          /\ Cardinality(Ahead(n, p)') <= Cardinality(Ahead(n, f[p]))
      BY MovesFewer
    <2>3. /\ Cardinality(Behind(n, f[p])) \in Nat /\ Cardinality(Ahead(n, f[p])) \in Nat
          /\ Cardinality(Behind(n, p)') \in Nat /\ Cardinality(Ahead(n, p)') \in Nat
      BY <1>1, <2>1 DEF Counts
    <2>4. Cardinality(Behind(n, f[p])) + Credit(n) + RxQuota * Cardinality(Ahead(n, f[p]))
            <= RxQuota * flaps + Cardinality(Of(n)) - 1
      BY <2>1 DEF FewBehind
    <2>5. /\ RxQuota * Cardinality(Ahead(n, p)') <= RxQuota * Cardinality(Ahead(n, f[p]))
          /\ RxQuota * Cardinality(Ahead(n, p)') \in Nat
          /\ RxQuota * Cardinality(Ahead(n, f[p])) \in Nat
      BY <2>2, <2>3, OneRoundMore
    <2> QED BY <1>1, <1>3, <1>4, <2>2, <2>3, <2>4, <2>5 DEF Counts
  <1> QED BY <1>2, <1>5, <1>6

\* A confirmation arrives and empties the bucket: it was the first one under way, with all
\* messages behind it.
LEMMA ResumeBacklog ==
  ASSUME TypeOK, TypeOK', Finite, NEW n \in Routers, NEW f, Moves(n, f),
         NEW c \in Confirms(n),
         \A p \in Messages(n) \cup Confirms(n) : p # c => Before(c, p),
         c \notin Messages(n), \A p \in Confirms(n)' : f[p] # c,
         Credit(n)' <= Credit(n) + RxQuota, flaps' = flaps,
         Cardinality(LastInHand(n)') + Cardinality(Rounds(n)')
           <= Cardinality(LastInHand(n)) + Cardinality(Rounds(n)) + 1,
         FewRounds(n) /\ FewBehind(n) /\ FewMessages(n)
  PROVE  (FewRounds(n) /\ FewBehind(n) /\ FewMessages(n))'
  <1>0. IsFiniteSet(Messages(n)) /\ IsFiniteSet(Confirms(n)) BY MessagesFinite
  <1>1. Counts(n) /\ Counts(n)' BY CountsType, CountsNext
  <1>2. c \in Places /\ Confirms(n) \subseteq Places /\ Messages(n) \subseteq Places
    BY DEF Confirms, Messages
  <1>3. /\ RxQuota * (flaps + 1) = RxQuota * flaps + RxQuota
        /\ RxQuota * flaps \in Nat
    BY <1>1, OneRoundMore DEF Counts
  <1>4. Of(n)' = Of(n) BY DEF Of
  <1>5. FewRounds(n)'
    <2>1. /\ \A p \in Confirms(n)' : f[p] \in Confirms(n) \ {c}
          /\ IsFiniteSet(Confirms(n) \ {c})
          /\ Cardinality(Confirms(n) \ {c}) = Cardinality(Confirms(n)) - 1
      BY <1>0, FS_RemoveElement DEF Moves
    <2>2. \A p, q \in Confirms(n)' : f[p] = f[q] => p = q BY MovesApart
    <2>3. Cardinality(Confirms(n)') <= Cardinality(Confirms(n) \ {c})
      BY <2>1, <2>2, Embedded
    <2>4. Cardinality(Confirms(n)') <= Cardinality(Confirms(n)) - 1 BY <2>1, <2>3
    <2> QED BY <1>1, <2>4 DEF FewRounds, Counts
  <1>6. Cardinality(Messages(n)) + Credit(n) <= RxQuota * flaps + Cardinality(Of(n)) - 1
    <2>1. Behind(n, c) = Messages(n) BY DEF Behind
    <2>2. Ahead(n, c) = {}
      BY <1>2, PlacesOrdered DEF Ahead
    <2>3. Cardinality(Ahead(n, c)) = 0 BY <2>2, FS_EmptySet
    <2>4. RxQuota * 0 = 0 OBVIOUS
    <2>5. Cardinality(Behind(n, c)) + Credit(n) + RxQuota * Cardinality(Ahead(n, c))
            <= RxQuota * flaps + Cardinality(Of(n)) - 1
      BY DEF FewBehind
    <2> QED BY <1>1, <1>3, <2>1, <2>3, <2>4, <2>5 DEF Counts
  <1>7. FewMessages(n)'
    <2>1. Cardinality(Messages(n)') <= Cardinality(Messages(n)) BY MovesFewer
    <2> QED BY <1>1, <1>3, <1>4, <1>6, <2>1 DEF FewMessages, Counts
  <1>8. FewBehind(n)'
    <2> SUFFICES ASSUME NEW p \in Confirms(n)'
                 PROVE  (Cardinality(Behind(n, p)) + Credit(n) + RxQuota * Cardinality(Ahead(n, p))
                          <= RxQuota * flaps + Cardinality(Of(n)) - 1)'
      BY DEF FewBehind
    <2>1. f[p] \in Confirms(n) /\ f[p] \in Places /\ p \in Places BY DEF Moves, Confirms
    <2>2. Cardinality(Behind(n, p)') <= Cardinality(Behind(n, f[p])) BY MovesFewer
    <2>3. /\ Cardinality(Behind(n, f[p])) \in Nat /\ Cardinality(Ahead(n, f[p])) \in Nat
          /\ Cardinality(Behind(n, p)') \in Nat /\ Cardinality(Ahead(n, p)') \in Nat
      BY <1>1, <2>1 DEF Counts
    <2>4. Cardinality(Behind(n, f[p])) + Credit(n) + RxQuota * Cardinality(Ahead(n, f[p]))
            <= RxQuota * flaps + Cardinality(Of(n)) - 1
      BY <2>1 DEF FewBehind
    <2>5. Cardinality(Ahead(n, p)') + 1 <= Cardinality(Ahead(n, f[p]))
      <3>1. c \in Ahead(n, f[p]) BY <2>1 DEF Ahead
      <3>2. IsFiniteSet(Ahead(n, f[p])) BY <1>0, FS_Subset DEF Ahead
      <3>3. /\ IsFiniteSet(Ahead(n, f[p]) \ {c})
            /\ Cardinality(Ahead(n, f[p]) \ {c}) = Cardinality(Ahead(n, f[p])) - 1
        BY <3>1, <3>2, FS_RemoveElement
      <3>4. \A d \in Ahead(n, p)' : d \in Confirms(n)' /\ Before(d, p)
        BY DEF Ahead, Before
      <3>5. \A d \in Ahead(n, p)' : f[d] \in Ahead(n, f[p]) \ {c}
        BY <3>4 DEF Ahead, Moves
      <3>6. \A x, y \in Ahead(n, p)' : f[x] = f[y] => x = y BY <3>4, MovesApart
      <3>7. Cardinality(Ahead(n, p)') <= Cardinality(Ahead(n, f[p]) \ {c})
        BY <3>3, <3>5, <3>6, Embedded
      <3> QED BY <2>3, <3>3, <3>7
    <2>6. /\ RxQuota * (Cardinality(Ahead(n, p)') + 1) <= RxQuota * Cardinality(Ahead(n, f[p]))
          /\ RxQuota * (Cardinality(Ahead(n, p)') + 1)
               = RxQuota * Cardinality(Ahead(n, p)') + RxQuota
          /\ RxQuota * Cardinality(Ahead(n, p)') \in Nat
          /\ RxQuota * Cardinality(Ahead(n, f[p])) \in Nat
      <3>1. Cardinality(Ahead(n, p)') + 1 \in Nat BY <2>3
      <3> QED BY <2>3, <2>5, <3>1, OneRoundMore
    <2> QED BY <1>1, <1>3, <1>4, <2>2, <2>3, <2>4, <2>6 DEF Counts
  <1> QED BY <1>5, <1>7, <1>8

\* A message is sent: it comes last on the way.
LEMMA SendBacklog ==
  ASSUME TypeOK, TypeOK', Finite, NEW n \in Routers, NEW p0 \in Places,
         \A p \in Messages(n) \cup Confirms(n) : Before(p, p0),
         Messages(n)' \subseteq Messages(n) \cup {p0},
         Confirms(n)' \subseteq Confirms(n) \cup {p0},
         Credit(n)' <= Credit(n) - 1, flaps' = flaps,
         Cardinality(Rounds(n)') <= Cardinality(Rounds(n)),
         Cardinality(Tokens(n)') <= RxQuota * Cardinality(Rounds(n)),
         Cardinality(InHand(n)') <= Cardinality(Of(n)) - 1,
         Cardinality(LastInHand(n)')
           <= Cardinality(LastInHand(n)) - IF p0 \in Confirms(n)' THEN 1 ELSE 0,
         FewRounds(n) /\ FewBehind(n) /\ FewMessages(n)
  PROVE  (FewRounds(n) /\ FewBehind(n) /\ FewMessages(n))'
  <1>0. IsFiniteSet(Messages(n)) /\ IsFiniteSet(Confirms(n)) BY MessagesFinite
  <1>1. Counts(n) /\ Counts(n)' BY CountsType, CountsNext
  <1>2. Confirms(n) \subseteq Places /\ Messages(n) \subseteq Places
    BY DEF Confirms, Messages
  <1>3. RxQuota * flaps \in Nat /\ RxQuota * (flaps + 1) \in Nat
    BY <1>1, OneRoundMore DEF Counts
  <1>4. Of(n)' = Of(n) BY DEF Of
  <1>5. p0 \notin Confirms(n) /\ p0 \notin Messages(n) BY <1>2, PlacesOrdered
  <1>6. Cardinality(Messages(n)') <= Cardinality(Messages(n)) + 1
    <2>1. IsFiniteSet({p0}) /\ Cardinality({p0}) = 1 BY FS_Singleton
    <2> QED BY <1>0, <2>1, AtMostBoth
  <1>7. Cardinality(Confirms(n)')
          <= Cardinality(Confirms(n)) + IF p0 \in Confirms(n)' THEN 1 ELSE 0
    <2>1. CASE p0 \in Confirms(n)'
      <3>1. IsFiniteSet({p0}) /\ Cardinality({p0}) = 1 BY FS_Singleton
      <3>2. Cardinality(Confirms(n)') <= Cardinality(Confirms(n)) + 1
        BY <1>0, <3>1, AtMostBoth
      <3> QED BY <2>1, <3>2
    <2>2. CASE p0 \notin Confirms(n)'
      <3>1. Confirms(n)' \subseteq Confirms(n) BY <2>2
      <3>2. Cardinality(Confirms(n)') <= Cardinality(Confirms(n)) BY <1>0, <3>1, FS_Subset
      <3> QED BY <1>1, <2>2, <3>2 DEF Counts
    <2> QED BY <2>1, <2>2
  <1>8. FewRounds(n)' BY <1>1, <1>7 DEF FewRounds, Counts
  <1>9. FewMessages(n)' BY <1>1, <1>3, <1>4, <1>6 DEF FewMessages, Counts
  <1>10. FewBehind(n)'
    <2> SUFFICES ASSUME NEW p \in Confirms(n)'
                 PROVE  (Cardinality(Behind(n, p)) + Credit(n) + RxQuota * Cardinality(Ahead(n, p))
                          <= RxQuota * flaps + Cardinality(Of(n)) - 1)'
      BY DEF FewBehind
    <2>0. p \in Places BY DEF Confirms, Places
    <2>1. CASE p = p0
      <3>1. Behind(n, p)' = {}
        <4>1. ASSUME NEW m \in Messages(n)', Before(p0, m) PROVE FALSE
          <5>1. m \in Messages(n) \/ m = p0 OBVIOUS
          <5>2. m \in Places BY <1>2, <5>1
          <5> QED BY <4>1, <5>1, <5>2, PlacesOrdered
        <4> QED BY <2>1, <4>1 DEF Behind, Before
      <3>2. Cardinality(Behind(n, p)') = 0 BY <3>1, FS_EmptySet
      <3>3. Ahead(n, p)' \subseteq Confirms(n)
        <4>1. \A c \in Ahead(n, p)' : c \in Confirms(n)' /\ Before(c, p)
          BY DEF Ahead, Before
        <4> QED BY <2>1, <4>1, PlacesOrdered
      <3>4. Cardinality(Ahead(n, p)') <= Cardinality(Confirms(n))
        BY <1>0, <3>3, FS_Subset
      <3>5. Cardinality(Confirms(n)) + Cardinality(Rounds(n)) <= flaps
        BY <1>1, <2>1 DEF FewRounds, Counts
      <3>6. Cardinality(Ahead(n, p)') + Cardinality(Rounds(n)) <= flaps
        BY <1>1, <2>0, <3>4, <3>5 DEF Counts
      <3>7. /\ RxQuota * Cardinality(Ahead(n, p)') + RxQuota * Cardinality(Rounds(n))
                 = RxQuota * (Cardinality(Ahead(n, p)') + Cardinality(Rounds(n)))
            /\ RxQuota * (Cardinality(Ahead(n, p)') + Cardinality(Rounds(n))) <= RxQuota * flaps
            /\ RxQuota * Cardinality(Ahead(n, p)') \in Nat
            /\ RxQuota * Cardinality(Rounds(n)) \in Nat
        <4>1. /\ Cardinality(Ahead(n, p)') \in Nat /\ Cardinality(Rounds(n)) \in Nat
              /\ flaps \in Nat
              /\ Cardinality(Ahead(n, p)') + Cardinality(Rounds(n)) \in Nat
          BY <1>1, <2>0 DEF Counts
        <4> QED BY <3>6, <4>1, OneRoundMore
      <3>8. Credit(n)' = Cardinality(Tokens(n)') + Cardinality(InHand(n)')
        BY DEF Credit
      <3> QED BY <1>1, <1>3, <1>4, <2>0, <3>2, <3>7, <3>8 DEF Counts
    <2>2. CASE p # p0
      <3>1. p \in Confirms(n) BY <2>2
      <3>2. Behind(n, p)' \subseteq Behind(n, p) \cup {p0}
        <4>1. \A m \in Behind(n, p)' : m \in Messages(n)' /\ Before(p, m)
          BY DEF Behind, Before
        <4> QED BY <4>1 DEF Behind
      <3>3. Cardinality(Behind(n, p)') <= Cardinality(Behind(n, p)) + 1
        <4>1. IsFiniteSet({p0}) /\ Cardinality({p0}) = 1 BY FS_Singleton
        <4>2. IsFiniteSet(Behind(n, p)) BY <1>0, FS_Subset DEF Behind
        <4> QED BY <3>2, <4>1, <4>2, AtMostBoth
      <3>4. Ahead(n, p)' \subseteq Ahead(n, p)
        <4>1. \A c \in Ahead(n, p)' : c \in Confirms(n)' /\ Before(c, p)
          BY DEF Ahead, Before
        <4>2. ~Before(p0, p) BY <2>0, <3>1, PlacesOrdered
        <4> QED BY <4>1, <4>2 DEF Ahead
      <3>5. Cardinality(Ahead(n, p)') <= Cardinality(Ahead(n, p))
        <4>1. IsFiniteSet(Ahead(n, p)) BY <1>0, FS_Subset DEF Ahead
        <4> QED BY <3>4, <4>1, FS_Subset
      <3>6. /\ RxQuota * Cardinality(Ahead(n, p)') <= RxQuota * Cardinality(Ahead(n, p))
            /\ RxQuota * Cardinality(Ahead(n, p)') \in Nat
            /\ RxQuota * Cardinality(Ahead(n, p)) \in Nat
        <4>1. Cardinality(Ahead(n, p)') \in Nat /\ Cardinality(Ahead(n, p)) \in Nat
          BY <1>1, <2>0 DEF Counts
        <4> QED BY <3>5, <4>1, OneRoundMore
      <3>7. Cardinality(Behind(n, p)) + Credit(n) + RxQuota * Cardinality(Ahead(n, p))
              <= RxQuota * flaps + Cardinality(Of(n)) - 1
        BY <3>1 DEF FewBehind
      <3> QED BY <1>1, <1>3, <1>4, <2>0, <3>3, <3>6, <3>7 DEF Counts
    <2> QED BY <2>1, <2>2
  <1> QED BY <1>8, <1>9, <1>10

\* Router n gets no record, and no count of its records goes down.
Steady(n) ==
  /\ \A r \in Records : Live(n, r)' => Live(n, r) /\ txCount'[r] >= txCount[r]
  /\ ToCome(n)' => ToCome(n)

\* Then it gets no tokens.
LEMMA SteadyTokens ==
  ASSUME TypeOK, TypeOK', NEW n \in Routers, Steady(n)
  PROVE  NoMoreTokens(n)
  <1> SUFFICES ASSUME NEW r \in Records \cup {Null}, Taken(n, r)' < RxQuota
               PROVE  Taken(n, r) <= Taken(n, r)'
    BY DEF NoMoreTokens
  <1>1. CASE r = Null
    <2>1. Taken(n, r)' = 0 \/ Taken(n, r)' = RxQuota BY <1>1 DEF Taken
    <2>2. ToCome(n)' BY <1>1, <2>1 DEF Taken
    <2>3. Taken(n, r) = 0 BY <1>1, <2>2 DEF Taken, Steady
    <2> QED BY <2>1, <2>3
  <1>2. CASE r # Null
    <2>1. r \in Records BY <1>2
    <2>2. Live(n, r)' /\ Taken(n, r)' = txCount'[r] BY <1>2 DEF Taken
    <2>3. Taken(n, r) = txCount[r] BY <1>2, <2>1, <2>2 DEF Taken, Steady
    <2>4. txCount[r] <= txCount'[r]
      <3>1. txCount[r] \in 0..RxQuota /\ txCount'[r] \in 0..RxQuota BY <2>1 DEF TypeOK
      <3> QED BY <2>1, <2>2, <3>1 DEF Steady
    <2> QED BY <2>2, <2>3, <2>4
  <1> QED BY <1>1, <1>2

\* Nothing happens to the records.
LEMMA SameTokens ==
  ASSUME TypeOK, NEW n \in Routers, table' = table, hold' = hold, txCount' = txCount,
         ToCome(n)' => ToCome(n)
  PROVE  Steady(n)
  BY DEF Steady, Live, Of, TypeOK

\* A record that is given back
LEMMA UnlockTokens ==
  ASSUME TypeOK, NEW n \in Routers, NEW s \in Senders, hold[s] \in Records, Unlock(s),
         table' = table, ToCome(n)' => ToCome(n)
  PROVE  Steady(n)
  <1>1. hold' = [hold EXCEPT ![s] = Null] BY DEF Unlock
  <1> SUFFICES ASSUME NEW r \in Records, Live(n, r)'
               PROVE  Live(n, r) /\ txCount'[r] >= txCount[r]
    BY DEF Steady
  <1>2. table[n] = r \/ \E t \in Senders \ {s} : t \in Of(n) /\ hold[t] = r
    BY <1>1 DEF Live, Of, TypeOK
  <1>3. Live(n, r) BY <1>2 DEF Live
  <1>4. txCount'[r] = txCount[r]
    <2>1. CASE UNCHANGED <<txCount, txQueue, event>> BY <2>1
    <2>2. CASE Resume(hold[s]) /\ ~Linked(hold[s]) /\ ~\E t \in Senders \ {s} : hold[t] = hold[s]
      <3>1. r # hold[s] BY <1>2, <2>2 DEF Linked
      <3> QED BY <2>2, <3>1 DEF Resume, TypeOK
    <2> QED BY <2>1, <2>2 DEF Unlock, CleanupIf
  <1> QED BY <1>3, <1>4 DEF TypeOK

\* or taken out of its table has no tokens for anybody.
LEMMA UnregisterTokens ==
  ASSUME TypeOK, RecordOfOneRouter, NEW n \in Routers, NEW m \in Routers, Unregister(m),
         hold' = hold, ToCome(n)' => ToCome(n)
  PROVE  Steady(n)
  <1>1. table' = [table EXCEPT ![m] = Null] BY DEF Unregister
  <1> SUFFICES ASSUME NEW r \in Records, Live(n, r)'
               PROVE  Live(n, r) /\ txCount'[r] >= txCount[r]
    BY DEF Steady
  <1>2. (n # m /\ table[n] = r) \/ \E t \in Of(n) : hold[t] = r
    BY <1>1 DEF Live, Of, TypeOK
  <1>3. Live(n, r) BY <1>2 DEF Live
  <1>4. txCount'[r] = txCount[r]
    <2>1. CASE UNCHANGED <<txCount, txQueue, event>> BY <2>1
    <2>2. CASE table[m] # Null /\ Resume(table[m]) /\ ~Held(table[m])
      <3>1. r # table[m] BY <1>2, <2>2 DEF Held, HeldBySenders, Of, RecordOfOneRouter
      <3>2. table[m] \in Records BY <2>2 DEF TypeOK
      <3> QED BY <2>2, <3>1, <3>2 DEF Resume, TypeOK
    <2> QED BY <2>1, <2>2 DEF Unregister, CleanupIf
  <1> QED BY <1>3, <1>4 DEF TypeOK

\* Nor has one that is given back when it was announced.
LEMMA AnnounceTokens ==
  ASSUME TypeOK, NEW n \in Routers, Announce, ToCome(n)' => ToCome(n)
  PROVE  Steady(n)
  <1>1. /\ table' = table /\ hold' = hold /\ known \in Records
        /\ CleanupIf(~Linked(known) /\ ~HeldBySenders(known), known)
    BY DEF Announce, TypeOK
  <1> SUFFICES ASSUME NEW r \in Records, Live(n, r)'
               PROVE  Live(n, r) /\ txCount'[r] >= txCount[r]
    BY DEF Steady
  <1>2. Live(n, r) BY <1>1 DEF Live, Of
  <1>3. txCount'[r] = txCount[r]
    <2>1. CASE UNCHANGED <<txCount, txQueue, event>> BY <2>1
    <2>2. CASE Resume(known) /\ ~Linked(known) /\ ~HeldBySenders(known)
      <3>1. r # known BY <1>2, <2>2 DEF Live, Of, Linked, HeldBySenders
      <3> QED BY <1>1, <2>2, <3>1 DEF Resume, TypeOK
    <2> QED BY <1>1, <2>1, <2>2 DEF CleanupIf
  <1> QED BY <1>2, <1>3 DEF TypeOK

\* The senders of n take and use no tokens.
SameHands(n) == InHand(n)' \subseteq InHand(n) /\ LastInHand(n)' \subseteq LastInHand(n)

\* Then its credit does not grow.
LEMMA SteadyCredit ==
  ASSUME TypeOK, TypeOK', Finite, NEW n \in Routers, Steady(n), SameHands(n)
  PROVE  /\ Credit(n)' <= Credit(n)
         /\ Cardinality(LastInHand(n)') + Cardinality(Rounds(n)')
              <= Cardinality(LastInHand(n)) + Cardinality(Rounds(n))
  <1>1. /\ Cardinality(Tokens(n)') <= Cardinality(Tokens(n))
        /\ Cardinality(Rounds(n)') <= Cardinality(Rounds(n))
    BY SteadyTokens, TokensFewer
  <1>2. /\ Cardinality(InHand(n)') <= Cardinality(InHand(n))
        /\ Cardinality(LastInHand(n)') <= Cardinality(LastInHand(n))
    BY TokensFinite, FS_Subset DEF SameHands
  <1>3. Counts(n) /\ Counts(n)' BY CountsType, CountsNext
  <1>4. Credit(n)' = Cardinality(Tokens(n)') + Cardinality(InHand(n)') BY DEF Credit
  <1> QED BY <1>1, <1>2, <1>3, <1>4 DEF Credit, Counts

\* It grows by a round.
LEMMA OpenedCredit ==
  ASSUME TypeOK, TypeOK', Finite, NEW n \in Routers, SameHands(n),
         NEW r \in Records \cup {Null},
         \A q \in Records \cup {Null} : q # r /\ Taken(n, q)' < RxQuota =>
           Taken(n, q) <= Taken(n, q)'
  PROVE  /\ Credit(n)' <= Credit(n) + RxQuota
         /\ Cardinality(LastInHand(n)') + Cardinality(Rounds(n)')
              <= Cardinality(LastInHand(n)) + Cardinality(Rounds(n)) + 1
  <1>1. /\ Cardinality(Tokens(n)') <= Cardinality(Tokens(n)) + RxQuota
        /\ Cardinality(Rounds(n)') <= Cardinality(Rounds(n)) + 1
    BY RoundOpened
  <1>2. /\ Cardinality(InHand(n)') <= Cardinality(InHand(n))
        /\ Cardinality(LastInHand(n)') <= Cardinality(LastInHand(n))
    BY TokensFinite, FS_Subset DEF SameHands
  <1>3. Counts(n) /\ Counts(n)' BY CountsType, CountsNext
  <1>4. Credit(n)' = Cardinality(Tokens(n)') + Cardinality(InHand(n)') BY DEF Credit
  <1> QED BY <1>1, <1>2, <1>3, <1>4 DEF Credit, Counts

\* What is under way stays where it is, or is lost.
Place == [p \in Places |-> p]

\* Places that are kept
LEMMA Stays ==
  ASSUME NEW n, Messages(n)' \subseteq Messages(n), Confirms(n)' \subseteq Confirms(n)
  PROVE  Moves(n, Place)
  BY DEF Moves, Place, Messages, Confirms

\* The numbers of router n
Few(n) == FewRounds(n) /\ FewBehind(n) /\ FewMessages(n)

\* A step that gives router n nothing
LEMMA SteadyStep ==
  ASSUME TypeOK, TypeOK', Finite, NEW n \in Routers, NEW f, Moves(n, f), Steady(n),
         SameHands(n), flaps' = flaps, Few(n)
  PROVE  Few(n)'
  BY SteadyCredit, QuietBacklog DEF Few

\* A read moves the inbox by one place, and the first message to the reader.
ReadFrom ==
  [p \in Places |-> IF p[1] = 2 THEN <<2, p[2] + 1>> ELSE IF p[1] = 1 THEN <<2, 1>> ELSE p]

\* The order is kept.
LEMMA ReadMoves ==
  ASSUME TypeOK, Read, NEW n \in Routers
  PROVE  Moves(n, ReadFrom)
  <1>1. /\ inbox # <<>> /\ reader = Null /\ inbox \in Seq(Message)
        /\ inbox' = Tail(inbox) /\ link' = link /\ back' = back
        /\ reader' = IF Head(inbox).confirm THEN Head(inbox).from ELSE Null
    BY DEF Read, network, TypeOK
  <1>2. /\ Head(inbox) = inbox[1] /\ 1 \in DOMAIN inbox
        /\ \A i \in DOMAIN inbox' : i + 1 \in DOMAIN inbox /\ inbox'[i] = inbox[i + 1]
        /\ \A i \in DOMAIN inbox' : i \in Nat /\ i >= 1
    <2>1. DOMAIN Tail(inbox) \subseteq Nat \ {0} BY <1>1
    <2> QED BY <1>1, <2>1, TailFacts
  <1>3. \A p \in Places :
          /\ ReadFrom[p] \in Places
          /\ ReadFrom[p][1] = IF p[1] = 1 THEN 2 ELSE p[1]
          /\ ReadFrom[p][2] = IF p[1] = 2 THEN p[2] + 1 ELSE IF p[1] = 1 THEN 1 ELSE p[2]
    BY DEF ReadFrom, Places
  <1>4. ASSUME NEW p \in Messages(n)' PROVE p \in Places /\ ReadFrom[p] \in Messages(n)
    <2>1. /\ p \in Places /\ (p[1] = 2 \/ p[1] = 3)
          /\ p[1] = 2 => p[2] \in DOMAIN inbox' /\ inbox'[p[2]].from = n
          /\ p[1] = 3 => n # Home /\ p[2] \in DOMAIN link[n]
      BY <1>1 DEF Messages, IsMessage, Places
    <2>2. p[1] = 2 => p[2] + 1 \in DOMAIN inbox /\ inbox[p[2] + 1].from = n
      BY <1>2, <2>1
    <2> QED BY <1>3, <2>1, <2>2 DEF Messages, IsMessage
  <1>5. ASSUME NEW p \in Confirms(n)' PROVE p \in Places /\ ReadFrom[p] \in Confirms(n)
    <2>1. /\ p \in Places /\ p[1] \in 0..3
          /\ p[1] = 2 => p[2] \in DOMAIN inbox' /\ inbox'[p[2]].from = n /\ inbox'[p[2]].confirm
          /\ p[1] = 1 => reader' = n
          /\ p[1] \in {0, 3} => IsConfirm(n, p)
      BY <1>1 DEF Confirms, IsConfirm, Places
    <2>2. p[1] = 2 => /\ p[2] + 1 \in DOMAIN inbox
                      /\ inbox[p[2] + 1].from = n /\ inbox[p[2] + 1].confirm
      BY <1>2, <2>1
    <2>3. p[1] = 1 => inbox[1].from = n /\ inbox[1].confirm
      BY <1>1, <1>2, <2>1
    <2> QED BY <1>2, <1>3, <2>1, <2>2, <2>3 DEF Confirms, IsConfirm
  <1>6. ASSUME NEW p \in Messages(n)' \cup Confirms(n)', NEW q \in Messages(n)' \cup Confirms(n)',
               Before(p, q)
        PROVE  Before(ReadFrom[p], ReadFrom[q])
    <2>1. p \in Places /\ q \in Places BY <1>4, <1>5
    <2>2. q[1] = 2 => q[2] \in DOMAIN inbox'
      BY <1>6 DEF Messages, Confirms, IsMessage, IsConfirm
    <2>3. p[1] = 1 => p[2] = 0
      BY <1>6 DEF Messages, Confirms, IsMessage, IsConfirm
    <2>4. q[1] = 1 => q[2] = 0
      BY <1>6 DEF Messages, Confirms, IsMessage, IsConfirm
    <2>5. q[1] = 2 => q[2] >= 1
      BY <1>2, <2>2
    <2> QED BY <1>3, <1>6, <2>1, <2>3, <2>4, <2>5 DEF Before, Places
  <1> QED BY <1>4, <1>5, <1>6 DEF Moves

\* A message goes from the link of n to the end of the inbox, which had k messages.
ReceivedFrom(k) ==
  [p \in Places |-> IF p[1] = 2 /\ p[2] = k + 1 THEN <<3, 1>>
                    ELSE IF p[1] = 3 THEN <<3, p[2] + 1>> ELSE p]

\* The order is kept: the link is behind the inbox.
LEMMA ReceiveMoves ==
  ASSUME TypeOK, NEW n \in Away, Receive(n), NEW k, k = Len(inbox)
  PROVE  Moves(n, ReceivedFrom(k))
  <1>1. /\ link[n] # <<>> /\ link[n] \in Seq(BOOLEAN) /\ inbox \in Seq(Message)
        /\ link'[n] = Tail(link[n]) /\ back' = back /\ reader' = reader /\ n # Home
        /\ inbox' = IF phase # "closed"
                    THEN Append(inbox, [from |-> n, confirm |-> Head(link[n])]) ELSE inbox
    BY DEF Receive, senders, TypeOK, Away
  <1>2. k \in Nat /\ DOMAIN inbox = 1..k BY <1>1
  <1>3. /\ Head(link[n]) = link[n][1] /\ 1 \in DOMAIN link[n] /\ Head(link[n]) \in BOOLEAN
        /\ \A i \in DOMAIN link'[n] : i + 1 \in DOMAIN link[n] /\ link'[n][i] = link[n][i + 1]
        /\ \A i \in DOMAIN link'[n] : i \in Nat /\ i >= 1
    <2>1. DOMAIN Tail(link[n]) \subseteq Nat \ {0} BY <1>1
    <2> QED BY <1>1, <2>1, TailFacts
  <1>4. \A i \in DOMAIN inbox' :
          \/ i \in 1..k /\ i \in DOMAIN inbox /\ inbox'[i] = inbox[i]
          \/ i = k + 1 /\ inbox'[i] = [from |-> n, confirm |-> Head(link[n])]
    <2>1. CASE phase # "closed"
      <3>1. [from |-> n, confirm |-> Head(link[n])] \in Message BY <1>3 DEF Message, Away
      <3>2. inbox' = Append(inbox, [from |-> n, confirm |-> Head(link[n])]) BY <1>1, <2>1
      <3>3. /\ DOMAIN inbox' = 1..(k + 1)
            /\ inbox'[k + 1] = [from |-> n, confirm |-> Head(link[n])]
            /\ \A i \in DOMAIN inbox : inbox'[i] = inbox[i]
        BY <1>1, <3>1, <3>2, AppendFacts
      <3> QED BY <1>2, <3>3
    <2>2. CASE phase = "closed" BY <1>1, <1>2, <2>2
    <2> QED BY <2>1, <2>2
  <1>5. \A p \in Places :
          /\ ReceivedFrom(k)[p] \in Places
          /\ ReceivedFrom(k)[p][1] = IF p[1] = 2 /\ p[2] = k + 1 THEN 3 ELSE p[1]
          /\ ReceivedFrom(k)[p][2] = IF p[1] = 2 /\ p[2] = k + 1 THEN 1
                                     ELSE IF p[1] = 3 THEN p[2] + 1 ELSE p[2]
    BY <1>2 DEF ReceivedFrom, Places
  <1>6. ASSUME NEW p \in Messages(n)' PROVE p \in Places /\ ReceivedFrom(k)[p] \in Messages(n)
    <2>1. /\ p \in Places /\ (p[1] = 2 \/ p[1] = 3)
          /\ p[1] = 2 => p[2] \in DOMAIN inbox' /\ inbox'[p[2]].from = n
          /\ p[1] = 3 => p[2] \in DOMAIN link'[n]
      BY DEF Messages, IsMessage, Places
    <2>2. p[1] = 3 => p[2] + 1 \in DOMAIN link[n] BY <1>3, <2>1
    <2>3. p[1] = 2 /\ p[2] # k + 1 => p[2] \in DOMAIN inbox /\ inbox[p[2]].from = n
      BY <1>4, <2>1
    <2> QED BY <1>1, <1>3, <1>5, <2>1, <2>2, <2>3 DEF Messages, IsMessage
  <1>7. ASSUME NEW p \in Confirms(n)' PROVE p \in Places /\ ReceivedFrom(k)[p] \in Confirms(n)
    <2>1. /\ p \in Places /\ p[1] \in 0..3
          /\ p[1] = 2 => p[2] \in DOMAIN inbox' /\ inbox'[p[2]].from = n /\ inbox'[p[2]].confirm
          /\ p[1] = 3 => p[2] \in DOMAIN link'[n] /\ link'[n][p[2]]
          /\ p[1] \in {0, 1} => IsConfirm(n, p)
      BY <1>1 DEF Confirms, IsConfirm, Places
    <2>2. p[1] = 3 => p[2] + 1 \in DOMAIN link[n] /\ link[n][p[2] + 1] BY <1>3, <2>1
    <2>3. p[1] = 2 /\ p[2] # k + 1 =>
            p[2] \in DOMAIN inbox /\ inbox[p[2]].from = n /\ inbox[p[2]].confirm
      BY <1>4, <2>1
    <2>4. p[1] = 2 /\ p[2] = k + 1 => link[n][1]
      <3> SUFFICES ASSUME p[1] = 2, p[2] = k + 1 PROVE link[n][1]
        OBVIOUS
      <3>1. p[2] \notin 1..k BY <1>2
      <3>2. inbox'[p[2]] = [from |-> n, confirm |-> Head(link[n])]
        BY <1>4, <2>1, <3>1
      <3> QED BY <1>3, <2>1, <3>2
    <2> QED BY <1>1, <1>3, <1>5, <2>1, <2>2, <2>3, <2>4, SMTT(30) DEF Confirms, IsConfirm
  <1>8. ASSUME NEW p \in Messages(n)' \cup Confirms(n)', NEW q \in Messages(n)' \cup Confirms(n)',
               Before(p, q)
        PROVE  Before(ReceivedFrom(k)[p], ReceivedFrom(k)[q])
    <2>1. p \in Places /\ q \in Places BY <1>6, <1>7
    <2>2. /\ q[1] = 3 => q[2] \in DOMAIN link'[n]
          /\ q[1] = 2 => q[2] \in DOMAIN inbox'
      BY <1>8 DEF Messages, Confirms, IsMessage, IsConfirm
    <2>3. q[1] = 3 => q[2] >= 1 BY <1>3, <2>2
    <2>4. q[1] = 2 => q[2] <= k + 1 BY <1>2, <1>4, <2>2
    <2> QED BY <1>2, <1>5, <1>8, <2>1, <2>3, <2>4 DEF Before, Places
  <1> QED BY <1>6, <1>7, <1>8 DEF Moves

\* The first message on the way back is taken.
BackFrom == [p \in Places |-> IF p[1] = 0 THEN <<0, p[2] + 1>> ELSE p]

\* The order is kept.
LEMMA BackMoves ==
  ASSUME TypeOK, NEW n \in Away, back[n] # <<>>, back'[n] = Tail(back[n]),
         link' = link, inbox' = inbox, reader' = reader
  PROVE  Moves(n, BackFrom)
  <1>1. back[n] \in Seq(Control) BY DEF TypeOK
  <1>2. \A i \in DOMAIN back'[n] : i + 1 \in DOMAIN back[n] /\ back'[n][i] = back[n][i + 1]
    BY <1>1, TailFacts
  <1>3. \A p \in Places :
          /\ BackFrom[p] \in Places
          /\ BackFrom[p][1] = p[1]
          /\ BackFrom[p][2] = IF p[1] = 0 THEN p[2] + 1 ELSE p[2]
    BY DEF BackFrom, Places
  <1>4. ASSUME NEW p \in Messages(n)' PROVE p \in Places /\ BackFrom[p] \in Messages(n)
    <2>1. p \in Places /\ IsMessage(n, p) BY DEF Messages, IsMessage, Places
    <2> QED BY <1>3, <2>1 DEF Messages, IsMessage
  <1>5. ASSUME NEW p \in Confirms(n)' PROVE p \in Places /\ BackFrom[p] \in Confirms(n)
    <2>1. /\ p \in Places /\ p[1] \in 0..3
          /\ p[1] = 0 => n # Home /\ p[2] \in DOMAIN back'[n] /\ back'[n][p[2]] = "resume"
          /\ p[1] # 0 => IsConfirm(n, p)
      BY DEF Confirms, IsConfirm, Places
    <2>2. p[1] = 0 => p[2] + 1 \in DOMAIN back[n] /\ back[n][p[2] + 1] = "resume"
      BY <1>2, <2>1
    <2> QED BY <1>3, <2>1, <2>2 DEF Confirms, IsConfirm
  <1>6. \A p, q \in Messages(n)' \cup Confirms(n)' : Before(p, q) => Before(BackFrom[p], BackFrom[q])
    BY <1>3, <1>4, <1>5 DEF Before, Places
  <1> QED BY <1>4, <1>5, <1>6 DEF Moves

\* The confirmation goes from the reader to the end of the link back, which had k messages.
ConfirmedFrom(k) == [p \in Places |-> IF p[1] = 0 /\ p[2] = k + 1 THEN <<1, 0>> ELSE p]

\* The order is kept: the reader is behind the link back.
LEMMA ConfirmMoves ==
  ASSUME TypeOK, NEW n \in Away, reader = n, reader' = Null, NEW k, k = Len(back[n]),
         back'[n] = Append(back[n], "resume"), link' = link, inbox' = inbox
  PROVE  Moves(n, ConfirmedFrom(k))
  <1>1. back[n] \in Seq(Control) /\ "resume" \in Control /\ n # Null
    BY DEF TypeOK, Control, Away
  <1>2. k \in Nat /\ DOMAIN back[n] = 1..k BY <1>1
  <1>3. \A i \in DOMAIN back'[n] :
          \/ i \in 1..k /\ i \in DOMAIN back[n] /\ back'[n][i] = back[n][i]
          \/ i = k + 1
    <2>1. /\ DOMAIN back'[n] = 1..(k + 1)
          /\ \A i \in DOMAIN back[n] : back'[n][i] = back[n][i]
      BY <1>1, AppendFacts
    <2> QED BY <1>2, <2>1
  <1>4. \A p \in Places :
          /\ ConfirmedFrom(k)[p] \in Places
          /\ ConfirmedFrom(k)[p][1] = IF p[1] = 0 /\ p[2] = k + 1 THEN 1 ELSE p[1]
          /\ ConfirmedFrom(k)[p][2] = IF p[1] = 0 /\ p[2] = k + 1 THEN 0 ELSE p[2]
    BY DEF ConfirmedFrom, Places
  <1>5. ASSUME NEW p \in Messages(n)' PROVE p \in Places /\ ConfirmedFrom(k)[p] \in Messages(n)
    <2>1. p \in Places /\ IsMessage(n, p) BY DEF Messages, IsMessage, Places
    <2> QED BY <1>4, <2>1 DEF Messages, IsMessage
  <1>6. ASSUME NEW p \in Confirms(n)'
        PROVE  /\ p \in Places /\ ConfirmedFrom(k)[p] \in Confirms(n)
               /\ p[1] # 1 /\ (p[1] = 0 => p[2] <= k + 1)
    <2>1. /\ p \in Places /\ p[1] \in 0..3
          /\ p[1] = 0 => n # Home /\ p[2] \in DOMAIN back'[n] /\ back'[n][p[2]] = "resume"
          /\ p[1] = 1 => reader' = n
          /\ p[1] \in {2, 3} => IsConfirm(n, p)
      BY DEF Confirms, IsConfirm, Places
    <2>2. p[1] = 0 /\ p[2] # k + 1 => p[2] \in DOMAIN back[n] /\ back[n][p[2]] = "resume"
      BY <1>3, <2>1
    <2>3. p[1] # 1 BY <1>1, <2>1
    <2>4. p[1] = 0 => p[2] <= k + 1 BY <1>2, <1>3, <2>1
    <2> QED BY <1>4, <2>1, <2>2, <2>3, <2>4 DEF Confirms, IsConfirm
  <1>7. \A p \in Messages(n)' : p[1] # 1 /\ p[1] # 0
    BY DEF Messages, IsMessage
  <1>8. ASSUME NEW p \in Messages(n)' \cup Confirms(n)', NEW q \in Messages(n)' \cup Confirms(n)',
               Before(p, q)
        PROVE  Before(ConfirmedFrom(k)[p], ConfirmedFrom(k)[q])
    <2>1. p \in Places /\ q \in Places BY <1>5, <1>6
    <2>2. q[1] # 1 /\ (q[1] = 0 => q[2] <= k + 1) BY <1>6, <1>7
    <2>3. p[1] # 1 BY <1>6, <1>7
    <2> QED BY <1>2, <1>4, <1>8, <2>1, <2>2, <2>3 DEF Before, Places
  <1> QED BY <1>5, <1>6, <1>8 DEF Moves

\* What the steps need of the other invariants
Facts == TypeOK /\ HoldsWhileInside /\ RecordOfOneRouter /\ AnnouncedOnce /\ Finite

\* Nothing moves.
LEMMA NothingMoves ==
  ASSUME NEW n, UNCHANGED <<link, back, inbox, reader>>
  PROVE  Moves(n, Place)
  <1>1. Messages(n)' = Messages(n) BY DEF Messages, IsMessage
  <1>2. Confirms(n)' = Confirms(n) BY DEF Confirms, IsConfirm
  <1> QED BY <1>1, <1>2, Stays

\* A sender that neither takes nor uses a token
LEMMA QuietSender ==
  ASSUME Facts, TypeOK', NEW n \in Routers, Few(n), NEW s \in Senders,
         FindNone(s) \/ Find(s) \/ ReturnBusy(s) \/ Retry(s) \/ TimeOut(s) \/ SendFails(s)
  PROVE  Few(n)'
  <1>0. TypeOK /\ Finite /\ hold[s] \in Records \cup {Null} BY DEF Facts, TypeOK
  <1>1. /\ table' = table /\ flaps' = flaps
        /\ UNCHANGED <<link, back, state, inbox, reader, hello>>
    BY DEF FindNone, Find, ReturnBusy, Retry, TimeOut, SendFails, vars, records, network, endpoint,
           greeting
  <1>2. Moves(n, Place) BY <1>1, NothingMoves
  <1>3. ToCome(n)' => ToCome(n) BY <1>1 DEF ToCome
  <1>4. Steady(n)
    <2>1. CASE FindNone(s) \/ Retry(s) \/ TimeOut(s)
      <3>1. hold' = hold /\ txCount' = txCount
        BY <2>1 DEF FindNone, Retry, TimeOut, vars, records, senders
      <3> QED BY <1>0, <1>1, <1>3, <3>1, SameTokens
    <2>2. CASE Find(s)
      <3>1. txCount' = txCount /\ hold' = [hold EXCEPT ![s] = table[RouterOf[s]]]
        BY <2>2 DEF Find, records
      <3> SUFFICES ASSUME NEW r \in Records, Live(n, r)'
                   PROVE  Live(n, r) /\ txCount'[r] >= txCount[r]
        BY <1>3 DEF Steady
      <3>2. Live(n, r) BY <1>0, <1>1, <3>1 DEF Live, Of, TypeOK
      <3>3. txCount[r] \in Nat BY <1>0 DEF TypeOK
      <3> QED BY <3>1, <3>2, <3>3
    <2>3. CASE ReturnBusy(s) \/ SendFails(s)
      <3>1. Unlock(s) /\ pc[s] \in {"normal", "last", "busy"} BY <2>3 DEF ReturnBusy, SendFails
      <3>2. hold[s] \in Records BY <1>0, <3>1 DEF Facts, HoldsWhileInside
      <3> QED BY <1>0, <1>1, <1>3, <3>1, <3>2, UnlockTokens
    <2> QED BY <2>1, <2>2, <2>3
  <1>5. SameHands(n)
    <2>1. \A t \in Senders : pc'[t] \in {"normal", "last"} => pc'[t] = pc[t]
      <3>1. CASE FindNone(s) BY <3>1 DEF FindNone, vars, senders
      <3>2. CASE ~FindNone(s)
        <4>1. pc' \in {[pc EXCEPT ![s] = c] : c \in {"found", "wait", "idle"}}
          BY <3>2 DEF Find, ReturnBusy, Retry, TimeOut, SendFails
        <4> QED BY <1>0, <4>1 DEF TypeOK
      <3> QED BY <3>1, <3>2
    <2> QED BY <2>1 DEF SameHands, InHand, LastInHand, Of
  <1> QED BY <1>0, <1>1, <1>2, <1>4, <1>5, SteadyStep

\* A sender takes a token: the credit stays, the token is in hand.
LEMMA TokenStep ==
  ASSUME Facts, TypeOK', NEW n \in Routers, Few(n), NEW s \in Senders, GetToken(s)
  PROVE  Few(n)'
  <1>0. TypeOK /\ Finite /\ hold[s] \in Records
    BY SMTT(30) DEF Facts, TypeOK, HoldsWhileInside, GetToken
  <1>1. /\ table' = table /\ hold' = hold /\ flaps' = flaps /\ pc[s] = "found"
        /\ UNCHANGED <<link, back, state, inbox, reader, hello>>
    BY DEF GetToken, network, endpoint, greeting
  <1>2. Moves(n, Place) BY <1>1, NothingMoves
  <1>3. ToCome(n)' <=> ToCome(n) BY <1>1 DEF ToCome
  <1>4. \A r : Live(n, r)' <=> Live(n, r) BY <1>1 DEF Live, Of
  <1> DEFINE r == hold[s]
  <1>5. CASE /\ txCount[r] < RxQuota
             /\ txCount' = [txCount EXCEPT ![r] = @ + 1]
             /\ pc' = [pc EXCEPT ![s] = IF txCount[r] + 1 = RxQuota THEN "last" ELSE "normal"]
    <2>1. txCount[r] \in 0..RxQuota /\ txCount'[r] = txCount[r] + 1 BY <1>0, <1>5 DEF TypeOK
    <2>2. CASE RouterOf[s] # n
      <3>1. Steady(n)
        <4> SUFFICES ASSUME NEW q \in Records PROVE txCount'[q] >= txCount[q]
          BY <1>3, <1>4 DEF Steady
        <4>1. txCount[q] \in Nat BY <1>0 DEF TypeOK
        <4> QED BY <1>0, <1>5, <2>1, <4>1, SMTT(30) DEF TypeOK
      <3>2. SameHands(n)
        BY <1>0, <1>5, <2>2 DEF SameHands, InHand, LastInHand, Of, TypeOK
      <3> QED BY <1>0, <1>1, <1>2, <3>1, <3>2, SteadyStep
    <2>3. CASE RouterOf[s] = n
      <3>0. s \in Of(n) /\ Live(n, r) BY <2>3 DEF Of, Live
      <3>1. Taken(n, r) = txCount[r] /\ Taken(n, r)' = txCount[r] + 1 /\ r # Null
        BY <1>0, <1>1, <1>4, <2>1, <3>0 DEF Taken
      <3>2. \A q \in Records \cup {Null} : q # r => Taken(n, q)' = Taken(n, q)
        BY <1>0, <1>3, <1>4, <1>5 DEF Taken, TypeOK
      <3>3. /\ Cardinality(Tokens(n)') <= Cardinality(Tokens(n)) - 1
            /\ Cardinality(Rounds(n)') <=
                 Cardinality(Rounds(n)) - IF txCount[r] + 1 = RxQuota THEN 1 ELSE 0
        <4> HIDE DEF r
        <4>1. r \in Records BY <1>0 DEF r
        <4>2. PICK q \in Records : q = r BY <4>1
        <4>3. Taken(n, q) < RxQuota /\ Taken(n, q)' = Taken(n, q) + 1
          <5>1. Taken(n, q) = txCount[r] BY <3>1, <4>2
          <5>2. Taken(n, q)' = txCount[r] + 1 BY <1>0, <1>1, <1>4, <2>1, <3>0, <4>1, <4>2 DEF Taken
          <5> QED BY <1>5, <5>1, <5>2
        <4>4. \A x \in Records \cup {Null} : x # q => Taken(n, x)' = Taken(n, x) BY <3>2, <4>2
        <4>5. /\ Cardinality(Tokens(n)') <= Cardinality(Tokens(n)) - 1
              /\ Cardinality(Rounds(n)') <=
                   Cardinality(Rounds(n)) - IF Taken(n, q) + 1 = RxQuota THEN 1 ELSE 0
          BY <1>0, <4>3, <4>4, TokenTaken
        <4> QED BY <3>1, <4>2, <4>5
      <3>4. IsFiniteSet(InHand(n)) /\ IsFiniteSet(LastInHand(n)) BY <1>0, TokensFinite
      <3>5. Cardinality(InHand(n)') = Cardinality(InHand(n)) + 1
        <4>1. InHand(n)' = InHand(n) \cup {s} /\ s \notin InHand(n)
          BY <1>0, <1>1, <1>5, <3>0, SMTT(30) DEF InHand, Of, TypeOK
        <4> QED BY <3>4, <4>1, FS_AddElement
      <3>6. Cardinality(LastInHand(n)')
              = Cardinality(LastInHand(n)) + IF txCount[r] + 1 = RxQuota THEN 1 ELSE 0
        <4>0. Cardinality(LastInHand(n)) \in Nat BY <3>4, FS_CardinalityType
        <4>1. CASE txCount[r] + 1 = RxQuota
          <5>1. LastInHand(n)' = LastInHand(n) \cup {s} /\ s \notin LastInHand(n)
            BY <1>0, <1>1, <1>5, <3>0, <4>1, SMTT(30) DEF LastInHand, Of, TypeOK
          <5>2. Cardinality(LastInHand(n)') = Cardinality(LastInHand(n)) + 1
            BY <3>4, <5>1, FS_AddElement
          <5> QED BY <4>1, <5>2
        <4>2. CASE txCount[r] + 1 # RxQuota
          <5>1. LastInHand(n)' = LastInHand(n)
            BY <1>0, <1>1, <1>5, <3>0, <4>2 DEF LastInHand, Of, TypeOK
          <5> QED BY <4>0, <4>2, <5>1
        <4> QED BY <4>1, <4>2
      <3>7. Counts(n) /\ Counts(n)' BY <1>0, CountsType, CountsNext
      <3>8. Credit(n)' <= Credit(n)
        BY <3>3, <3>5, <3>7 DEF Credit, Counts
      <3>9. Cardinality(LastInHand(n)') + Cardinality(Rounds(n)')
              <= Cardinality(LastInHand(n)) + Cardinality(Rounds(n))
        BY <3>3, <3>6, <3>7 DEF Counts
      <3> QED BY <1>0, <1>1, <1>2, <3>8, <3>9, QuietBacklog DEF Few
    <2> QED BY <2>2, <2>3
  <1>6. CASE txCount' = txCount /\ pc' = [pc EXCEPT ![s] = "busy"]
    <2>1. Steady(n) BY <1>0, <1>1, <1>3, <1>6, SameTokens
    <2>2. SameHands(n)
      BY <1>0, <1>6 DEF SameHands, InHand, LastInHand, Of, TypeOK
    <2> QED BY <1>0, <1>1, <1>2, <2>1, <2>2, SteadyStep
  <1> QED BY <1>5, <1>6 DEF GetToken

\* The places where a message of n arrives are after all others.
LEMMA LastPlace ==
  ASSUME TypeOK, NEW n \in Routers, NEW p0, NEW k,
         \/ n # Home /\ k = Len(link[n]) /\ p0 = <<3, k + 1>>
         \/ n = Home /\ k = Len(inbox) /\ p0 = <<2, k + 1>>
  PROVE  /\ p0 \in Places
         /\ \A p \in Messages(n) \cup Confirms(n) : Before(p, p0)
  <1>1. /\ inbox \in Seq(Message)
        /\ n # Home => link[n] \in Seq(BOOLEAN)
    BY DEF TypeOK, Away
  <1>2. k \in Nat BY <1>1
  <1>3. p0 \in Places /\ p0[2] = k + 1 /\ p0[1] = IF n = Home THEN 2 ELSE 3 BY <1>2 DEF Places
  <1>4. ASSUME NEW p \in Messages(n) \cup Confirms(n) PROVE Before(p, p0)
    <2>1. p \in Places /\ p[1] \in 0..3 /\ (p[1] = 3 => n # Home)
      BY DEF Messages, Confirms, IsMessage, IsConfirm, Places
    <2>2. p[1] = 3 => p[2] \in 1..k
      BY <1>1, <1>4 DEF Messages, Confirms, IsMessage, IsConfirm
    <2>3. n = Home /\ p[1] = 2 => p[2] \in 1..k
      BY <1>1, <1>4 DEF Messages, Confirms, IsMessage, IsConfirm
    <2>4. n = Home => p[1] # 0
      BY <1>4 DEF Messages, Confirms, IsMessage, IsConfirm
    <2> QED BY <1>2, <1>3, <2>1, <2>2, <2>3, <2>4 DEF Before
  <1> QED BY <1>3, <1>4

\* A message is written: its token is used.
LEMMA SendStep ==
  ASSUME Facts, TypeOK', NEW n \in Routers, Few(n), NEW s \in Senders, SendMsg(s)
  PROVE  Few(n)'
  <1>0. TypeOK /\ Finite /\ hold[s] \in Records
    <2>1. pc[s] \in {"normal", "last"} BY DEF SendMsg
    <2> QED BY <2>1 DEF Facts, TypeOK, HoldsWhileInside
  <1>1. /\ table' = table /\ flaps' = flaps /\ pc[s] \in {"normal", "last"}
        /\ UNCHANGED <<back, state, reader, hello>>
        /\ pc' = [pc EXCEPT ![s] = "idle"]
        /\ Unlock(s) /\ Deliver(RouterOf[s], pc[s] = "last")
        /\ RouterOf[s] \in Routers
    BY DEF SendMsg, greeting
  <1>2. Steady(n)
    <2>1. ToCome(n)' => ToCome(n) BY <1>1 DEF ToCome
    <2> QED BY <1>0, <1>1, <2>1, UnlockTokens
  <1>3. SameHands(n)
    BY <1>0, <1>1, SMTT(30) DEF SameHands, InHand, LastInHand, Of, TypeOK
  <1>4. (pc[s] = "last") \in BOOLEAN OBVIOUS
  <1>5. /\ inbox \in Seq(Message)
        /\ n # Home => n \in Away /\ link[n] \in Seq(BOOLEAN)
    BY <1>0 DEF TypeOK, Away
  <1>6. CASE RouterOf[s] # n \/ (n = Home /\ phase = "closed")
    <2>1. n # Home => link'[n] = link[n]
      BY <1>0, <1>1, <1>5, <1>6 DEF Deliver, TypeOK
    <2>2. \A i \in DOMAIN inbox' : inbox'[i].from = n => i \in DOMAIN inbox /\ inbox'[i] = inbox[i]
      <3>1. CASE inbox' = inbox BY <3>1
      <3>2. CASE inbox' # inbox
        <4>1. RouterOf[s] = Home /\ phase # "closed" BY <1>1, <3>2 DEF Deliver
        <4> DEFINE e == [from |-> Home, confirm |-> pc[s] = "last"]
        <4>2. inbox' = Append(inbox, e) BY <1>1, <4>1 DEF Deliver
        <4>3. e \in Message /\ e.from # n BY <1>4, <1>6, <4>1 DEF Message
        <4> HIDE DEF e
        <4>4. DOMAIN inbox' = 1..(Len(inbox) + 1) /\ DOMAIN inbox = 1..Len(inbox)
              /\ inbox'[Len(inbox) + 1] = e
              /\ \A i \in DOMAIN inbox : inbox'[i] = inbox[i]
          BY <1>5, <4>2, <4>3, AppendFacts
        <4>5. Len(inbox) \in Nat BY <1>5
        <4> QED BY <4>3, <4>4, <4>5
      <3> QED BY <3>1, <3>2
    <2>3. Messages(n)' \subseteq Messages(n)
      BY <2>1, <2>2 DEF Messages, IsMessage
    <2>4. Confirms(n)' \subseteq Confirms(n)
      BY <1>1, <2>1, <2>2 DEF Confirms, IsConfirm
    <2>5. Moves(n, Place) BY <2>3, <2>4, Stays
    <2> QED BY <1>0, <1>1, <1>2, <1>3, <2>5, SteadyStep
  <1>7. CASE RouterOf[s] = n /\ (n # Home \/ phase # "closed")
    <2>1. s \in Of(n) BY <1>7 DEF Of
    <2>2. \E p \in Places :
            /\ \A q \in Messages(n) \cup Confirms(n) : Before(q, p)
            /\ Messages(n)' \subseteq Messages(n) \cup {p}
            /\ Confirms(n)' \subseteq Confirms(n) \cup {p}
            /\ p \in Confirms(n)' => pc[s] = "last"
      <3>1. CASE n # Home
        <4>1. PICK k : k = Len(link[n]) OBVIOUS
        <4>2. PICK p : p = <<3, k + 1>> OBVIOUS
        <4>3. p \in Places /\ \A q \in Messages(n) \cup Confirms(n) : Before(q, p)
          BY <1>0, <3>1, <4>1, <4>2, LastPlace
        <4>4. /\ link'[n] = Append(link[n], pc[s] = "last")
              /\ inbox' = inbox
          BY <1>0, <1>1, <1>5, <1>7, <3>1 DEF Deliver, TypeOK
        <4>5. /\ DOMAIN link'[n] = 1..(k + 1) /\ DOMAIN link[n] = 1..k
              /\ link'[n][k + 1] = (pc[s] = "last")
              /\ \A i \in DOMAIN link[n] : link'[n][i] = link[n][i]
          BY <1>4, <1>5, <3>1, <4>1, <4>4, AppendFacts
        <4>6. k \in Nat BY <1>5, <3>1, <4>1
        <4>7. \A i \in DOMAIN link'[n] : i = k + 1 \/ i \in DOMAIN link[n]
          BY <4>5, <4>6
        <4>8. \A q \in Places : q[1] = 3 /\ q[2] = k + 1 => q = p
          BY <4>2 DEF Places
        <4>9. Messages(n)' \subseteq Messages(n) \cup {p}
          BY <4>4, <4>7, <4>8 DEF Messages, IsMessage
        <4>10. Confirms(n)' \subseteq Confirms(n) \cup {p}
          BY <1>1, <4>4, <4>5, <4>7, <4>8 DEF Confirms, IsConfirm
        <4>11. p \in Confirms(n)' => pc[s] = "last"
          <5>1. p[1] = 3 /\ p[2] = k + 1 BY <4>2
          <5>2. p \in Confirms(n)' => link'[n][k + 1] BY <5>1 DEF Confirms, IsConfirm
          <5> QED BY <4>5, <5>2
        <4> QED BY <4>3, <4>9, <4>10, <4>11
      <3>2. CASE n = Home
        <4>0. phase # "closed" BY <1>7, <3>2
        <4>1. PICK k : k = Len(inbox) OBVIOUS
        <4>2. PICK p : p = <<2, k + 1>> OBVIOUS
        <4>3. p \in Places /\ \A q \in Messages(n) \cup Confirms(n) : Before(q, p)
          BY <1>0, <3>2, <4>1, <4>2, LastPlace
        <4> DEFINE e == [from |-> Home, confirm |-> pc[s] = "last"]
        <4>4. inbox' = Append(inbox, e) /\ link' = link
          BY <1>1, <1>7, <3>2, <4>0 DEF Deliver
        <4>5. e \in Message /\ e.confirm = (pc[s] = "last") BY <1>4 DEF Message
        <4> HIDE DEF e
        <4>6. /\ DOMAIN inbox' = 1..(k + 1) /\ DOMAIN inbox = 1..k
              /\ inbox'[k + 1] = e
              /\ \A i \in DOMAIN inbox : inbox'[i] = inbox[i]
          BY <1>5, <4>1, <4>4, <4>5, AppendFacts
        <4>7. k \in Nat BY <1>5, <4>1
        <4>8. \A i \in DOMAIN inbox' : i = k + 1 \/ i \in DOMAIN inbox
          BY <4>6, <4>7
        <4>9. \A q \in Places : q[1] = 2 /\ q[2] = k + 1 => q = p
          BY <4>2 DEF Places
        <4>10. Messages(n)' \subseteq Messages(n) \cup {p}
          BY <3>2, <4>6, <4>8, <4>9 DEF Messages, IsMessage
        <4>11. Confirms(n)' \subseteq Confirms(n) \cup {p}
          BY <1>1, <3>2, <4>6, <4>8, <4>9 DEF Confirms, IsConfirm
        <4>12. p \in Confirms(n)' => pc[s] = "last"
          <5>1. p[1] = 2 /\ p[2] = k + 1 BY <4>2
          <5>2. p \in Confirms(n)' => inbox'[k + 1].confirm BY <5>1 DEF Confirms, IsConfirm
          <5> QED BY <4>5, <4>6, <5>2
        <4> QED BY <4>3, <4>10, <4>11, <4>12
      <3> QED BY <3>1, <3>2
    <2>3. PICK p \in Places :
            /\ \A q \in Messages(n) \cup Confirms(n) : Before(q, p)
            /\ Messages(n)' \subseteq Messages(n) \cup {p}
            /\ Confirms(n)' \subseteq Confirms(n) \cup {p}
            /\ p \in Confirms(n)' => pc[s] = "last"
      BY <2>2
    <2>4. /\ Cardinality(Tokens(n)') <= Cardinality(Tokens(n))
          /\ Cardinality(Rounds(n)') <= Cardinality(Rounds(n))
      BY <1>0, <1>2, SteadyTokens, TokensFewer
    <2>5. /\ IsFiniteSet(InHand(n)) /\ IsFiniteSet(LastInHand(n)) /\ IsFiniteSet(Of(n))
          /\ Cardinality(Tokens(n)) <= RxQuota * Cardinality(Rounds(n))
      BY <1>0, TokensFinite
    <2>6. Counts(n) /\ Counts(n)' BY <1>0, CountsType, CountsNext
    <2>7. Cardinality(InHand(n)') = Cardinality(InHand(n)) - 1
      <3>1. InHand(n)' = InHand(n) \ {s} /\ s \in InHand(n)
        BY <1>0, <1>1, <2>1 DEF InHand, Of, TypeOK
      <3> QED BY <2>5, <3>1, FS_RemoveElement, ZenonT(60)
    <2>8. Cardinality(InHand(n)') <= Cardinality(Of(n)) - 1
      <3>1. InHand(n)' \subseteq Of(n) \ {s}
        BY <1>0, <1>1 DEF InHand, Of, TypeOK
      <3>2. IsFiniteSet(Of(n) \ {s}) /\ Cardinality(Of(n) \ {s}) = Cardinality(Of(n)) - 1
        BY <2>1, <2>5, FS_RemoveElement
      <3> QED BY <3>1, <3>2, FS_Subset
    <2>9. Cardinality(LastInHand(n)')
            <= Cardinality(LastInHand(n)) - IF p \in Confirms(n)' THEN 1 ELSE 0
      <3>1. CASE pc[s] = "last"
        <4>1. LastInHand(n)' = LastInHand(n) \ {s} /\ s \in LastInHand(n)
          BY <1>0, <1>1, <2>1, <3>1 DEF LastInHand, Of, TypeOK
        <4>2. Cardinality(LastInHand(n)') = Cardinality(LastInHand(n)) - 1
          BY <2>5, <4>1, FS_RemoveElement, ZenonT(60)
        <4> QED BY <2>6, <4>2 DEF Counts
      <3>2. CASE pc[s] # "last"
        <4>1. LastInHand(n)' \subseteq LastInHand(n) BY <1>3 DEF SameHands
        <4>2. Cardinality(LastInHand(n)') <= Cardinality(LastInHand(n))
          BY <2>5, <4>1, FS_Subset
        <4>3. p \notin Confirms(n)' BY <2>3, <3>2
        <4> QED BY <2>6, <4>2, <4>3 DEF Counts
      <3> QED BY <3>1, <3>2
    <2>10. Credit(n)' <= Credit(n) - 1
      <3>1. Credit(n)' = Cardinality(Tokens(n)') + Cardinality(InHand(n)') BY DEF Credit
      <3> QED BY <2>4, <2>6, <2>7, <3>1 DEF Credit, Counts
    <2>11. Cardinality(Tokens(n)') <= RxQuota * Cardinality(Rounds(n))
      <3>1. RxQuota * Cardinality(Rounds(n)) \in Nat BY <2>6, OneRoundMore DEF Counts
      <3> QED BY <2>4, <2>5, <2>6, <3>1 DEF Counts
    <2>12. FewRounds(n) /\ FewBehind(n) /\ FewMessages(n) BY DEF Few
    <2>13. (FewRounds(n) /\ FewBehind(n) /\ FewMessages(n))'
      BY <1>0, <1>1, <2>3, <2>4, <2>8, <2>9, <2>10, <2>11, <2>12, SendBacklog
    <2> QED BY <2>13 DEF Few
  <1> QED BY <1>6, <1>7

\* A round of the record in the table of n is over: the bucket is empty again.
LEMMA ResumedHere ==
  ASSUME TypeOK, TypeOK', Finite, NEW n \in Routers, table[n] # Null, Resume(table[n]),
         UNCHANGED <<table, pc, hold>>, ToCome(n)' => ToCome(n)
  PROVE  /\ Credit(n)' <= Credit(n) + RxQuota
         /\ Cardinality(LastInHand(n)') + Cardinality(Rounds(n)')
              <= Cardinality(LastInHand(n)) + Cardinality(Rounds(n)) + 1
  <1>1. table[n] \in Records BY DEF TypeOK
  <1>2. \A r : Live(n, r)' <=> Live(n, r) BY DEF Live, Of
  <1>3. \A q \in Records : q # table[n] => txCount'[q] = txCount[q] /\ txCount[q] \in Nat
    BY <1>1 DEF Resume, TypeOK
  <1>4. ASSUME NEW q \in Records \cup {Null}, q # table[n], Taken(n, q)' < RxQuota
        PROVE  Taken(n, q) <= Taken(n, q)'
    <2>1. CASE q = Null
      <3>1. Taken(n, q)' = 0 \/ Taken(n, q)' = RxQuota BY <2>1 DEF Taken
      <3>2. ToCome(n)' BY <1>4, <2>1, <3>1 DEF Taken
      <3>3. Taken(n, q) = 0 BY <2>1, <3>2 DEF Taken
      <3> QED BY <3>1, <3>3
    <2>2. CASE q # Null
      <3>1. q \in Records BY <2>2
      <3>2. Taken(n, q)' = Taken(n, q) BY <1>2, <1>3, <1>4, <2>2, <3>1 DEF Taken
      <3>3. Taken(n, q) \in Nat BY TakenType
      <3> QED BY <3>2, <3>3
    <2> QED BY <2>1, <2>2
  <1>5. SameHands(n) BY DEF SameHands, InHand, LastInHand, Of
  <1> QED BY <1>1, <1>4, <1>5, OpenedCredit

\* That of another router's record gives n nothing.
LEMMA ResumedElsewhere ==
  ASSUME TypeOK, RecordOfOneRouter, NEW n \in Routers, NEW m \in Routers, n # m,
         table[m] # Null, Resume(table[m]), UNCHANGED <<table, hold>>, ToCome(n)' => ToCome(n)
  PROVE  Steady(n)
  <1>1. table[m] \in Records BY DEF TypeOK
  <1> SUFFICES ASSUME NEW r \in Records, Live(n, r)'
               PROVE  Live(n, r) /\ txCount'[r] >= txCount[r]
    BY DEF Steady
  <1>2. Live(n, r) BY DEF Live, Of
  <1>3. r # table[m] BY <1>2 DEF Live, Of, RecordOfOneRouter
  <1>4. txCount'[r] = txCount[r] /\ txCount[r] \in Nat BY <1>1, <1>3 DEF Resume, TypeOK
  <1> QED BY <1>2, <1>4

\* The reader takes a message.
LEMMA ReadStep ==
  ASSUME Facts, TypeOK', NEW n \in Routers, Few(n), Read
  PROVE  Few(n)'
  <1>0. TypeOK /\ Finite BY DEF Facts
  <1>1. UNCHANGED <<table, txCount, pc, hold, back, state, flaps, hello>>
    BY DEF Read, records, senders, network, greeting
  <1>2. Moves(n, ReadFrom) BY <1>0, ReadMoves
  <1>3. ToCome(n)' => ToCome(n) BY <1>1 DEF ToCome
  <1>4. Steady(n) BY <1>0, <1>1, <1>3, SameTokens
  <1>5. SameHands(n) BY <1>1 DEF SameHands, InHand, LastInHand, Of
  <1> QED BY <1>0, <1>1, <1>2, <1>4, <1>5, SteadyStep

\* The reader confirms one: a local sender's record is emptied at once, a confirmation to
\* another router is under way.
LEMMA ConfirmStep ==
  ASSUME Facts, TypeOK', NEW n \in Routers, Few(n), Confirm
  PROVE  Few(n)'
  <1>0. TypeOK /\ Finite /\ RecordOfOneRouter /\ Home \in Routers BY DEF Facts
  <1>1. /\ UNCHANGED <<table, pc, hold, link, state, flaps, inbox, hello>>
        /\ reader # Null /\ reader' = Null
    BY DEF Confirm, greeting
  <1>2. SameHands(n) BY <1>1 DEF SameHands, InHand, LastInHand, Of
  <1>3. Messages(n)' = Messages(n) BY <1>1 DEF Messages, IsMessage
  <1>4. ASSUME back' = back PROVE Moves(n, Place) /\ (ToCome(n)' <=> ToCome(n))
    <2>1. Confirms(n)' \subseteq Confirms(n)
      BY <1>1, <1>4 DEF Confirms, IsConfirm
    <2> QED BY <1>1, <1>3, <1>4, <2>1, Stays DEF ToCome
  <1>5. CASE reader = Home /\ back' = back /\ table[Home] = Null /\ txCount' = txCount
    <2>1. Steady(n) BY <1>0, <1>1, <1>4, <1>5, SameTokens
    <2> QED BY <1>0, <1>1, <1>2, <1>4, <1>5, <2>1, SteadyStep
  <1>6. CASE reader = Home /\ back' = back /\ table[Home] # Null /\ Resume(table[Home])
    <2>1. CASE n # Home
      <3>1. Steady(n) BY <1>0, <1>1, <1>4, <1>6, <2>1, ResumedElsewhere
      <3> QED BY <1>0, <1>1, <1>2, <1>4, <1>6, <3>1, SteadyStep
    <2>2. CASE n = Home
      <3>1. PICK c : c = <<1, 0>> OBVIOUS
      <3>2. c \in Confirms(n) /\ c \notin Messages(n)
        BY <1>6, <2>2, <3>1 DEF Confirms, Messages, IsConfirm, IsMessage, Places
      <3>3. ASSUME NEW p \in Messages(n) \cup Confirms(n), p # c PROVE Before(c, p)
        <4>1. p \in Places BY DEF Messages, Confirms
        <4>2. p[1] \in {1, 2} /\ (p[1] = 1 => p[2] = 0)
          BY <2>2, <3>3 DEF Messages, Confirms, IsMessage, IsConfirm
        <4>3. p[1] # 1 BY <3>1, <3>3, <4>1, <4>2 DEF Places
        <4> QED BY <3>1, <4>2, <4>3 DEF Before
      <3>4. \A p \in Confirms(n)' : Place[p] # c
        <4>1. \A p \in Confirms(n)' : Place[p] = p /\ p[1] # 1
          BY <1>1, <2>2 DEF Place, Confirms, IsConfirm
        <4> QED BY <3>1, <4>1
      <3>5. /\ Credit(n)' <= Credit(n) + RxQuota
            /\ Cardinality(LastInHand(n)') + Cardinality(Rounds(n)')
                 <= Cardinality(LastInHand(n)) + Cardinality(Rounds(n)) + 1
        BY <1>0, <1>1, <1>4, <1>6, <2>2, ResumedHere
      <3>6. Moves(n, Place) BY <1>4, <1>6
      <3>7. FewRounds(n) /\ FewBehind(n) /\ FewMessages(n) BY DEF Few
      <3>8. (FewRounds(n) /\ FewBehind(n) /\ FewMessages(n))'
        BY <1>0, <1>1, <3>2, <3>3, <3>4, <3>5, <3>6, <3>7, ResumeBacklog
      <3> QED BY <3>8 DEF Few
    <2> QED BY <2>1, <2>2
  <1>7. CASE reader \in Away /\ txCount' = txCount
             /\ back' = IF state[reader] = "up"
                        THEN [back EXCEPT ![reader] = Append(@, "resume")] ELSE back
    <2>1. CASE back' = back
      <3>1. Steady(n) BY <1>0, <1>1, <1>4, <1>7, <2>1, SameTokens
      <3> QED BY <1>0, <1>1, <1>2, <1>4, <2>1, <3>1, SteadyStep
    <2>2. CASE n # reader
      <3>1. n # Home => back'[n] = back[n] BY <1>0, <1>7, <2>2 DEF TypeOK, Away
      <3>2. Confirms(n)' \subseteq Confirms(n)
        BY <1>1, <3>1 DEF Confirms, IsConfirm
      <3>3. Moves(n, Place) BY <1>3, <3>2, Stays
      <3>4. ToCome(n)' => ToCome(n) BY <1>1, <3>1 DEF ToCome
      <3>5. Steady(n) BY <1>0, <1>1, <1>7, <3>4, SameTokens
      <3> QED BY <1>0, <1>1, <1>2, <3>3, <3>5, SteadyStep
    <2>3. CASE n = reader /\ back' # back
      <3>0. n \in Away /\ n # Home BY <1>7, <2>3 DEF Away
      <3>1. back'[n] = Append(back[n], "resume") BY <1>0, <1>7, <2>3, <3>0 DEF TypeOK
      <3>2. PICK k : k = Len(back[n]) OBVIOUS
      <3>3. Moves(n, ConfirmedFrom(k))
        BY <1>0, <1>1, <2>3, <3>0, <3>1, <3>2, ConfirmMoves
      <3>4. ToCome(n)' => ToCome(n)
        <4>1. back[n] \in Seq(Control) /\ "resume" \in Control
          BY <1>0, <3>0 DEF TypeOK, Control
        <4>2. /\ DOMAIN back'[n] = 1..(k + 1) /\ DOMAIN back[n] = 1..k /\ k \in Nat
              /\ back'[n][k + 1] = "resume"
              /\ \A i \in DOMAIN back[n] : back'[n][i] = back[n][i]
          BY <3>1, <3>2, <4>1, AppendFacts
        <4>3. \A i \in DOMAIN back'[n] : back'[n][i] = "new" =>
                i \in DOMAIN back[n] /\ back[n][i] = "new"
          BY <4>2
        <4> QED BY <1>1, <4>3 DEF ToCome
      <3>5. Steady(n) BY <1>0, <1>1, <1>7, <3>4, SameTokens
      <3> QED BY <1>0, <1>1, <1>2, <3>3, <3>5, SteadyStep
    <2> QED BY <2>1, <2>2, <2>3
  <1> QED BY <1>5, <1>6, <1>7 DEF Confirm

\* The links change in nothing but messages of the wrong kind.
LEMMA Unconfirmed ==
  ASSUME TypeOK, NEW n \in Routers, NEW e \in {"remove", "new"},
         n # Home => back'[n] = Append(back[n], e) \/ back'[n] = back[n],
         UNCHANGED <<link, inbox, reader>>
  PROVE  /\ Moves(n, Place)
         /\ n # Home => \A i \in DOMAIN back'[n] : back'[n][i] = "new" =>
              (i \in DOMAIN back[n] /\ back[n][i] = "new") \/ e = "new"
  <1>1. ASSUME n # Home
        PROVE  \A i \in DOMAIN back'[n] :
                 (i \in DOMAIN back[n] /\ back'[n][i] = back[n][i]) \/ back'[n][i] = e
    <2>1. CASE back'[n] = back[n] BY <2>1
    <2>2. CASE back'[n] = Append(back[n], e)
      <3>1. back[n] \in Seq(Control) /\ e \in Control BY <1>1 DEF TypeOK, Control, Away
      <3>2. PICK k : k = Len(back[n]) OBVIOUS
      <3>3. /\ DOMAIN back'[n] = 1..(k + 1) /\ DOMAIN back[n] = 1..k /\ k \in Nat
            /\ back'[n][k + 1] = e
            /\ \A j \in DOMAIN back[n] : back'[n][j] = back[n][j]
        BY <2>2, <3>1, <3>2, AppendFacts
      <3> QED BY <3>3
    <2> QED BY <1>1, <2>1, <2>2
  <1>2. Messages(n)' \subseteq Messages(n) BY DEF Messages, IsMessage
  <1>3. Confirms(n)' \subseteq Confirms(n) BY <1>1 DEF Confirms, IsConfirm
  <1> QED BY <1>1, <1>2, <1>3, Stays

\* The close begins, and is told to a router.
LEMMA CloseToldStep ==
  ASSUME Facts, TypeOK', NEW n \in Routers, Few(n),
         CloseBegin \/ \E m \in Away : Tell(m)
  PROVE  Few(n)'
  <1>0. TypeOK /\ Finite BY DEF Facts
  <1>1. UNCHANGED <<table, txCount, pc, hold, link, state, flaps, inbox, reader, hello>>
    BY DEF CloseBegin, Tell, records, senders, network, greeting
  <1>2. SameHands(n) BY <1>1 DEF SameHands, InHand, LastInHand, Of
  <1>3. n # Home => back'[n] = Append(back[n], "remove") \/ back'[n] = back[n]
    <2>1. CASE CloseBegin BY <2>1 DEF CloseBegin, network
    <2>2. ASSUME NEW m \in Away, Tell(m)
          PROVE  n # Home => back'[n] = Append(back[n], "remove") \/ back'[n] = back[n]
      <3>1. CASE back' = back BY <3>1
      <3>2. CASE back' = [back EXCEPT ![m] = Append(@, "remove")]
        BY <1>0, <3>2 DEF TypeOK, Away
      <3> QED BY <2>2, <3>1, <3>2, Zenon DEF Tell
    <2> QED BY <2>1, <2>2
  <1>4. PICK e : e = "remove" OBVIOUS
  <1>5. /\ Moves(n, Place)
        /\ n # Home => \A i \in DOMAIN back'[n] : back'[n][i] = "new" =>
             (i \in DOMAIN back[n] /\ back[n][i] = "new") \/ e = "new"
    BY <1>0, <1>1, <1>3, <1>4, Unconfirmed
  <1>6. ToCome(n)' => ToCome(n) BY <1>1, <1>4, <1>5 DEF ToCome
  <1>7. Steady(n) BY <1>0, <1>1, <1>6, SameTokens
  <1> QED BY <1>0, <1>1, <1>2, <1>5, <1>7, SteadyStep

\* The endpoint closes.
LEMMA CloseStep ==
  ASSUME Facts, TypeOK', NEW n \in Routers, Few(n), CloseEnd
  PROVE  Few(n)'
  <1>0. TypeOK /\ Finite /\ RecordOfOneRouter /\ Home \in Routers BY DEF Facts
  <1>1. /\ UNCHANGED <<pc, hold, link, back, state, flaps, reader, hello>>
        /\ inbox' = <<>> /\ Unregister(Home)
    BY DEF CloseEnd, network, greeting
  <1>2. SameHands(n) BY <1>1 DEF SameHands, InHand, LastInHand, Of
  <1>3. ToCome(n)' => ToCome(n) BY <1>1 DEF ToCome
  <1>4. DOMAIN inbox' = {} BY <1>1, EmptyFacts
  <1>5. Messages(n)' \subseteq Messages(n)
    BY <1>1, <1>4 DEF Messages, IsMessage
  <1>6. Confirms(n)' \subseteq Confirms(n)
    BY <1>1, <1>4 DEF Confirms, IsConfirm
  <1>7. Moves(n, Place) BY <1>5, <1>6, Stays
  <1>8. Steady(n) BY <1>0, <1>1, <1>3, UnregisterTokens
  <1> QED BY <1>0, <1>1, <1>2, <1>7, <1>8, SteadyStep

\* The link brings a message.
LEMMA ReceiveStep ==
  ASSUME Facts, TypeOK', NEW n \in Routers, Few(n), NEW m \in Away, Receive(m)
  PROVE  Few(n)'
  <1>0. TypeOK /\ Finite /\ m \in Routers BY DEF Facts, Away
  <1>1. /\ UNCHANGED <<table, txCount, pc, hold, back, state, flaps, reader, hello>>
        /\ link' = [link EXCEPT ![m] = Tail(@)] /\ link[m] # <<>>
        /\ inbox' = IF phase # "closed" THEN Append(inbox, [from |-> m, confirm |-> Head(link[m])])
                    ELSE inbox
    BY DEF Receive, records, senders, greeting
  <1>2. SameHands(n) BY <1>1 DEF SameHands, InHand, LastInHand, Of
  <1>3. ToCome(n)' => ToCome(n) BY <1>1 DEF ToCome
  <1>4. Steady(n) BY <1>0, <1>1, <1>3, SameTokens
  <1>5. CASE n = m
    <2>1. PICK k : k = Len(inbox) OBVIOUS
    <2>2. Moves(n, ReceivedFrom(k)) BY <1>0, <1>5, <2>1, ReceiveMoves
    <2> QED BY <1>0, <1>1, <1>2, <1>4, <2>2, SteadyStep
  <1>6. CASE n # m
    <2>1. n # Home => link'[n] = link[n] BY <1>0, <1>1, <1>6 DEF TypeOK, Away
    <2>2. \A i \in DOMAIN inbox' : inbox'[i].from = n => i \in DOMAIN inbox /\ inbox'[i] = inbox[i]
      <3>1. CASE inbox' = inbox BY <3>1
      <3>2. CASE inbox' # inbox
        <4> DEFINE e == [from |-> m, confirm |-> Head(link[m])]
        <4>1. inbox' = Append(inbox, e) BY <1>1, <3>2
        <4>2. e \in Message /\ e.from # n
          <5>1. Head(link[m]) \in BOOLEAN BY <1>0, <1>1, TailFacts DEF TypeOK
          <5> QED BY <1>0, <1>6, <5>1 DEF Message
        <4>3. inbox \in Seq(Message) BY <1>0 DEF TypeOK
        <4> HIDE DEF e
        <4>4. /\ DOMAIN inbox' = 1..(Len(inbox) + 1) /\ DOMAIN inbox = 1..Len(inbox)
              /\ inbox'[Len(inbox) + 1] = e
              /\ \A i \in DOMAIN inbox : inbox'[i] = inbox[i]
          BY <4>1, <4>2, <4>3, AppendFacts
        <4>5. Len(inbox) \in Nat BY <4>3
        <4> QED BY <4>2, <4>4, <4>5
      <3> QED BY <3>1, <3>2
    <2>3. Messages(n)' \subseteq Messages(n) BY <2>1, <2>2 DEF Messages, IsMessage
    <2>4. Confirms(n)' \subseteq Confirms(n) BY <1>1, <2>1, <2>2 DEF Confirms, IsConfirm
    <2>5. Moves(n, Place) BY <2>3, <2>4, Stays
    <2> QED BY <1>0, <1>1, <1>2, <1>4, <2>5, SteadyStep
  <1> QED BY <1>5, <1>6

\* The worker of router m takes a message of the link back; router n is m or another one.
LEMMA BackStep ==
  ASSUME TypeOK, NEW n \in Routers, NEW m \in Away, back[m] # <<>>,
         back' = [back EXCEPT ![m] = Tail(@)], UNCHANGED <<link, state, inbox, reader, hello>>
  PROVE  /\ n = m => Moves(n, BackFrom)
         /\ n # m => Moves(n, Place)
         /\ ToCome(n)' => ToCome(n)
  <1>1. CASE n = m
    <2>1. /\ n \in Away /\ back'[n] = Tail(back[n]) /\ back[n] \in Seq(Control)
          /\ back[n] # <<>>
      BY <1>1 DEF TypeOK
    <2>2. Moves(n, BackFrom) BY <1>1, <2>1, BackMoves
    <2>3. \A i \in DOMAIN back'[n] : i + 1 \in DOMAIN back[n] /\ back'[n][i] = back[n][i + 1]
      <3>1. PICK t : t = Tail(back[n]) OBVIOUS
      <3>2. \A i \in DOMAIN t : i + 1 \in DOMAIN back[n] /\ t[i] = back[n][i + 1]
        BY <2>1, <3>1, TailFacts
      <3>3. back'[n] = t BY <2>1, <3>1
      <3> QED BY <3>2, <3>3
    <2>4. ToCome(n)' => ToCome(n) BY <2>3 DEF ToCome
    <2> QED BY <1>1, <2>2, <2>4
  <1>2. CASE n # m
    <2>1. n # Home => back'[n] = back[n] BY <1>2 DEF TypeOK, Away
    <2>2. Messages(n)' \subseteq Messages(n) BY DEF Messages, IsMessage
    <2>3. Confirms(n)' \subseteq Confirms(n) BY <2>1 DEF Confirms, IsConfirm
    <2>4. Moves(n, Place) BY <2>2, <2>3, Stays
    <2>5. ToCome(n)' => ToCome(n) BY <2>1 DEF ToCome
    <2> QED BY <1>2, <2>4, <2>5
  <1> QED BY <1>1, <1>2

\* The server is announced: the record to come is there.
LEMMA NewServerStep ==
  ASSUME Facts, TypeOK', NEW n \in Routers, Few(n), NEW m \in Away, NewServer(m)
  PROVE  Few(n)'
  <1>0. TypeOK /\ Finite /\ AnnouncedOnce /\ m \in Routers BY DEF Facts, Away
  <1>1. /\ UNCHANGED <<pc, hold, link, state, flaps, inbox, reader, hello>>
        /\ back' = [back EXCEPT ![m] = Tail(@)] /\ back[m] # <<>> /\ Head(back[m]) = "new"
        /\ state[m] = "up"
    BY DEF NewServer, senders, endpoint, greeting
  <1>2. SameHands(n) BY <1>1 DEF SameHands, InHand, LastInHand, Of
  <1>3. /\ n = m => Moves(n, BackFrom)
        /\ n # m => Moves(n, Place)
        /\ ToCome(n)' => ToCome(n)
    BY <1>0, <1>1, BackStep
  <1>4. CASE table' = table /\ txCount' = txCount
    <2>1. Steady(n) BY <1>0, <1>1, <1>3, <1>4, SameTokens
    <2> QED BY <1>0, <1>1, <1>2, <1>3, <2>1, SteadyStep
  <1>5. ASSUME NEW r \in Records, ~Linked(r), ~Held(r),
               table' = [table EXCEPT ![m] = r], txCount' = [txCount EXCEPT ![r] = 0]
        PROVE  Few(n)'
    <2>1. \A q \in Records : q # r => txCount'[q] = txCount[q] /\ txCount[q] \in Nat
      BY <1>0, <1>5 DEF TypeOK
    <2>2. \A q \in Records : q # r /\ Live(n, q)' => Live(n, q)
      BY <1>0, <1>1, <1>5 DEF Live, Of, TypeOK
    <2>3. CASE n # m
      <3>1. ~Live(n, r)' BY <1>0, <1>1, <1>5, <2>3 DEF Live, Of, TypeOK, Linked, Held, HeldBySenders
      <3>2. Steady(n)
        <4> SUFFICES ASSUME NEW q \in Records, Live(n, q)'
                     PROVE  Live(n, q) /\ txCount'[q] >= txCount[q]
          BY <1>3 DEF Steady
        <4>1. q # r BY <3>1
        <4> QED BY <2>1, <2>2, <4>1
      <3> QED BY <1>0, <1>1, <1>2, <1>3, <2>3, <3>2, SteadyStep
    <2>4. CASE n = m
      <3>0. n # Home /\ n \in Away BY <2>4 DEF Away
      <3>1. back[n] \in Seq(Control) /\ back'[n] = Tail(back[n])
        BY <1>0, <1>1, <2>4, <3>0 DEF TypeOK
      <3>2. /\ 1 \in DOMAIN back[n] /\ back[n][1] = "new"
            /\ \A i \in DOMAIN back'[n] : i + 1 \in DOMAIN back[n] /\ back'[n][i] = back[n][i + 1]
            /\ \A i \in DOMAIN back'[n] : i \in Nat /\ i >= 1
        <4>1. back[n] # <<>> /\ Head(back[n]) = "new" BY <1>1, <2>4
        <4>2. DOMAIN back'[n] \subseteq Nat \ {0} BY <3>1, <4>1
        <4> QED BY <3>1, <4>1, <4>2, TailFacts
      <3>3. ToCome(n) BY <3>0, <3>2 DEF ToCome
      <3>4. ~ToCome(n)'
        <4>1. hello # n BY <1>0, <3>0, <3>2 DEF AnnouncedOnce
        <4>2. ASSUME NEW i \in DOMAIN back'[n], back'[n][i] = "new" PROVE FALSE
          <5>1. i + 1 \in DOMAIN back[n] /\ back[n][i + 1] = "new" BY <3>2, <4>2
          <5>2. i + 1 = 1 BY <1>0, <3>0, <3>2, <5>1 DEF AnnouncedOnce
          <5> QED BY <3>2, <5>2
        <4> QED BY <1>1, <2>4, <4>1, <4>2 DEF ToCome
      <3>5. Taken(n, Null) = 0 /\ Taken(n, Null)' = RxQuota BY <3>3, <3>4 DEF Taken
      <3>6. ASSUME NEW q \in Records, q # r, Taken(n, q)' < RxQuota
            PROVE  Taken(n, q) <= Taken(n, q)'
        <4>1. q # Null OBVIOUS
        <4>2. Live(n, q)' BY <3>6, <4>1 DEF Taken
        <4>3. Taken(n, q)' = txCount[q] /\ Taken(n, q) = txCount[q]
          BY <2>1, <2>2, <3>6, <4>1, <4>2 DEF Taken
        <4> QED BY <2>1, <3>6, <4>3
      <3>7. /\ Cardinality(Tokens(n)') <= Cardinality(Tokens(n))
            /\ Cardinality(Rounds(n)') <= Cardinality(Rounds(n))
        BY <1>0, <3>5, <3>6, RecordCame
      <3>8. /\ Cardinality(InHand(n)') <= Cardinality(InHand(n))
            /\ Cardinality(LastInHand(n)') <= Cardinality(LastInHand(n))
        BY <1>0, <1>2, TokensFinite, FS_Subset DEF SameHands
      <3>9. Counts(n) /\ Counts(n)' BY <1>0, CountsType, CountsNext
      <3>10. Credit(n)' <= Credit(n)
        <4>1. Credit(n)' = Cardinality(Tokens(n)') + Cardinality(InHand(n)') BY DEF Credit
        <4> QED BY <3>7, <3>8, <3>9, <4>1 DEF Credit, Counts
      <3>11. Cardinality(LastInHand(n)') + Cardinality(Rounds(n)')
               <= Cardinality(LastInHand(n)) + Cardinality(Rounds(n))
        BY <3>7, <3>8, <3>9 DEF Counts
      <3> QED BY <1>0, <1>1, <1>3, <2>4, <3>10, <3>11, QuietBacklog DEF Few
    <2> QED BY <2>3, <2>4
  <1> QED BY <1>4, <1>5 DEF NewServer, records

\* The removal of the endpoint is received.
LEMMA RemoveClientStep ==
  ASSUME Facts, TypeOK', NEW n \in Routers, Few(n), NEW m \in Away, RemoveClient(m)
  PROVE  Few(n)'
  <1>0. TypeOK /\ Finite /\ RecordOfOneRouter /\ m \in Routers BY DEF Facts, Away
  <1>1. /\ UNCHANGED <<pc, hold, link, state, flaps, inbox, reader, hello>>
        /\ back' = [back EXCEPT ![m] = Tail(@)] /\ back[m] # <<>> /\ Unregister(m)
    BY DEF RemoveClient, endpoint, greeting
  <1>2. SameHands(n) BY <1>1 DEF SameHands, InHand, LastInHand, Of
  <1>3. /\ n = m => Moves(n, BackFrom)
        /\ n # m => Moves(n, Place)
        /\ ToCome(n)' => ToCome(n)
    BY <1>0, <1>1, BackStep
  <1>4. Steady(n) BY <1>0, <1>1, <1>3, UnregisterTokens
  <1> QED BY <1>0, <1>1, <1>2, <1>3, <1>4, SteadyStep

\* A confirmation is received: it was the first of all that router m waits for.
LEMMA ResumeTxStep ==
  ASSUME Facts, TypeOK', NEW n \in Routers, Few(n), NEW m \in Away, ResumeTx(m)
  PROVE  Few(n)'
  <1>0. TypeOK /\ Finite /\ RecordOfOneRouter /\ m \in Routers BY DEF Facts, Away
  <1>1. /\ UNCHANGED <<table, pc, hold, link, state, flaps, inbox, reader, hello>>
        /\ back' = [back EXCEPT ![m] = Tail(@)] /\ back[m] # <<>> /\ Head(back[m]) = "resume"
        /\ IF table[m] = Null THEN txCount' = txCount ELSE Resume(table[m])
    BY DEF ResumeTx, endpoint, greeting
  <1>2. SameHands(n) BY <1>1 DEF SameHands, InHand, LastInHand, Of
  <1>3. /\ n = m => Moves(n, BackFrom)
        /\ n # m => Moves(n, Place)
        /\ ToCome(n)' => ToCome(n)
    BY <1>0, <1>1, BackStep
  <1>4. CASE table[m] = Null
    <2>1. Steady(n) BY <1>0, <1>1, <1>3, <1>4, SameTokens
    <2> QED BY <1>0, <1>1, <1>2, <1>3, <2>1, SteadyStep
  <1>5. CASE table[m] # Null /\ n # m
    <2>1. Steady(n) BY <1>0, <1>1, <1>3, <1>5, ResumedElsewhere
    <2> QED BY <1>0, <1>1, <1>2, <1>3, <1>5, <2>1, SteadyStep
  <1>6. CASE table[m] # Null /\ n = m
    <2>0. n # Home /\ n \in Away BY <1>6 DEF Away
    <2>1. PICK c : c = <<0, 1>> OBVIOUS
    <2>2. back[n] \in Seq(Control) /\ back'[n] = Tail(back[n])
      BY <1>0, <1>1, <1>6, <2>0 DEF TypeOK
    <2>3. /\ 1 \in DOMAIN back[n] /\ back[n][1] = "resume"
          /\ \A i \in DOMAIN back[n] : i \in Nat /\ i >= 1
          /\ \A i \in DOMAIN back'[n] : i \in Nat /\ i >= 1
      <3>1. DOMAIN Tail(back[n]) \subseteq Nat \ {0} BY <1>1, <1>6, <2>2
      <3>2. DOMAIN back[n] \subseteq Nat \ {0} BY <2>2
      <3> QED BY <1>1, <1>6, <2>2, <3>1, <3>2, TailFacts
    <2>4. c \in Confirms(n) /\ c \notin Messages(n)
      BY <2>0, <2>1, <2>3 DEF Confirms, Messages, IsConfirm, IsMessage, Places
    <2>5. ASSUME NEW p \in Messages(n) \cup Confirms(n), p # c PROVE Before(c, p)
      <3>1. p \in Places BY DEF Messages, Confirms
      <3>2. p[1] = 0 => p[2] \in DOMAIN back[n]
        BY <2>5 DEF Messages, Confirms, IsMessage, IsConfirm
      <3>3. p[1] = 0 => p[2] # 1 BY <2>1, <2>5, <3>1 DEF Places
      <3> QED BY <2>1, <2>3, <3>1, <3>2, <3>3 DEF Before, Places
    <2>6. ASSUME NEW p \in Confirms(n)' PROVE BackFrom[p] # c
      <3>1. p \in Places /\ (p[1] = 0 => p[2] \in DOMAIN back'[n])
        BY DEF Confirms, IsConfirm, Places
      <3>2. BackFrom[p][1] = p[1] /\ (p[1] = 0 => BackFrom[p][2] = p[2] + 1)
        BY <3>1 DEF BackFrom, Places
      <3>3. p[1] = 0 => p[2] + 1 # 1 BY <2>3, <3>1
      <3> QED BY <2>1, <3>2, <3>3
    <2>7. /\ Credit(n)' <= Credit(n) + RxQuota
          /\ Cardinality(LastInHand(n)') + Cardinality(Rounds(n)')
               <= Cardinality(LastInHand(n)) + Cardinality(Rounds(n)) + 1
      BY <1>0, <1>1, <1>3, <1>6, ResumedHere
    <2>8. Moves(n, BackFrom) BY <1>3, <1>6
    <2>9. FewRounds(n) /\ FewBehind(n) /\ FewMessages(n) BY DEF Few
    <2>10. (FewRounds(n) /\ FewBehind(n) /\ FewMessages(n))'
      BY <1>0, <1>1, <2>4, <2>5, <2>6, <2>7, <2>8, <2>9, ResumeBacklog
    <2> QED BY <2>10 DEF Few
  <1> QED BY <1>4, <1>5, <1>6

\* A link falls: its router will have a new record.
LEMMA LinkLostStep ==
  ASSUME Facts, TypeOK', NEW n \in Routers, Few(n), NEW m \in Away, LinkLost(m)
  PROVE  Few(n)'
  <1>0. TypeOK /\ Finite BY DEF Facts
  <1>1. /\ UNCHANGED <<table, txCount, pc, hold, link, inbox, reader, hello>>
        /\ state' = [state EXCEPT ![m] = "lost"] /\ back' = [back EXCEPT ![m] = <<>>]
        /\ flaps' = flaps + 1
    BY DEF LinkLost, records, senders, endpoint, greeting
  <1>2. SameHands(n) BY <1>1 DEF SameHands, InHand, LastInHand, Of
  <1>3. n # Home => back'[n] = IF n = m THEN <<>> ELSE back[n]
    BY <1>0, <1>1 DEF TypeOK, Away
  <1>4. Messages(n)' \subseteq Messages(n) BY <1>1 DEF Messages, IsMessage
  <1>5. Confirms(n)' \subseteq Confirms(n)
    BY <1>1, <1>3, EmptyFacts DEF Confirms, IsConfirm
  <1>6. Moves(n, Place) BY <1>4, <1>5, Stays
  <1>7. \A r : Live(n, r)' <=> Live(n, r) BY <1>1 DEF Live, Of
  <1>8. ASSUME NEW q \in Records \cup {Null}, q # Null, Taken(n, q)' < RxQuota
        PROVE  Taken(n, q) <= Taken(n, q)'
    <2>1. Taken(n, q)' = Taken(n, q) BY <1>1, <1>7, <1>8 DEF Taken
    <2>2. Taken(n, q) \in Nat BY <1>0, TakenType
    <2> QED BY <2>1, <2>2
  <1>9. /\ Credit(n)' <= Credit(n) + RxQuota
        /\ Cardinality(LastInHand(n)') + Cardinality(Rounds(n)')
             <= Cardinality(LastInHand(n)) + Cardinality(Rounds(n)) + 1
    BY <1>0, <1>2, <1>8, OpenedCredit
  <1>10. FewRounds(n) /\ FewBehind(n) /\ FewMessages(n) BY DEF Few
  <1>11. (FewRounds(n) /\ FewBehind(n) /\ FewMessages(n))'
    BY <1>0, <1>1, <1>6, <1>9, <1>10, FlapBacklog
  <1> QED BY <1>11 DEF Few

\* The worker hears of it, and the link is opened again.
LEMMA LinkStep ==
  ASSUME Facts, TypeOK', NEW n \in Routers, Few(n), NEW m \in Away, RemoteClose(m) \/ LinkUp(m)
  PROVE  Few(n)'
  <1>0. TypeOK /\ Finite /\ RecordOfOneRouter /\ m \in Routers BY DEF Facts, Away
  <1>1. /\ UNCHANGED <<pc, hold, back, flaps, inbox, reader>>
        /\ state[m] # "up"
        /\ n # Home /\ n # m => link'[n] = link[n] /\ state'[n] = state[n]
        /\ hello' = hello \/ hello' = m
    BY <1>0, SMTT(30) DEF RemoteClose, LinkUp, senders, endpoint, greeting, TypeOK, Away
  <1>2. n = m => link'[n] \in {link[n], <<>>}
    BY <1>0 DEF RemoteClose, LinkUp, TypeOK, Away
  <1>3. SameHands(n) BY <1>1 DEF SameHands, InHand, LastInHand, Of
  <1>4. ToCome(n)' => ToCome(n) BY <1>1 DEF ToCome
  <1>5. Messages(n)' \subseteq Messages(n)
    BY <1>1, <1>2, EmptyFacts DEF Messages, IsMessage
  <1>6. Confirms(n)' \subseteq Confirms(n)
    <2>1. DOMAIN <<>> = {} BY EmptyFacts
    <2>2. n # Home => \A i \in DOMAIN link'[n] : i \in DOMAIN link[n] /\ link'[n][i] = link[n][i]
      BY <1>1, <1>2, <2>1
    <2> QED BY <1>1, <2>2 DEF Confirms, IsConfirm
  <1>7. Moves(n, Place) BY <1>5, <1>6, Stays
  <1>8. Steady(n)
    <2>1. CASE RemoteClose(m)
      BY <1>0, <1>1, <1>4, <2>1, UnregisterTokens DEF RemoteClose
    <2>2. CASE LinkUp(m)
      <3>1. UNCHANGED <<table, txCount>> BY <2>2 DEF LinkUp, records
      <3> QED BY <1>0, <1>1, <1>4, <3>1, SameTokens
    <2> QED BY <2>1, <2>2
  <1> QED BY <1>0, <1>1, <1>3, <1>7, <1>8, SteadyStep

\* The answer to a HELLO finds the endpoint, or not: then nothing is to come.
LEMMA FindServerStep ==
  ASSUME Facts, TypeOK', NEW n \in Routers, Few(n), FindServer
  PROVE  Few(n)'
  <1>0. TypeOK /\ Finite BY DEF Facts
  <1>1. /\ UNCHANGED <<table, txCount, pc, hold, link, back, state, flaps, inbox, reader>>
        /\ hello' = hello \/ hello' = Null
    BY DEF FindServer, records, senders, network, endpoint
  <1>2. SameHands(n) BY <1>1 DEF SameHands, InHand, LastInHand, Of
  <1>3. ToCome(n)' => ToCome(n) BY <1>1 DEF ToCome
  <1>4. Steady(n) BY <1>0, <1>1, <1>3, SameTokens
  <1>5. Moves(n, Place) BY <1>1, NothingMoves
  <1> QED BY <1>0, <1>1, <1>2, <1>4, <1>5, SteadyStep

\* It announces the endpoint: the record to come is under way.
LEMMA AnnounceStep ==
  ASSUME Facts, TypeOK', NEW n \in Routers, Few(n), Announce
  PROVE  Few(n)'
  <1>0. TypeOK /\ Finite BY DEF Facts
  <1>1. UNCHANGED <<table, pc, hold, link, state, flaps, inbox, reader>> /\ hello' = Null
    BY DEF Announce, endpoint
  <1>2. SameHands(n) BY <1>1 DEF SameHands, InHand, LastInHand, Of
  <1>3. /\ n # Home => back'[n] = Append(back[n], "new") \/ back'[n] = back[n]
        /\ n # Home /\ hello # n => back'[n] = back[n]
    <2>1. CASE back' = back BY <2>1
    <2>2. CASE back' = [back EXCEPT ![hello] = Append(@, "new")]
      BY <1>0, <2>2 DEF TypeOK, Away
    <2> QED BY <2>1, <2>2, Zenon DEF Announce
  <1>4. PICK e : e = "new" OBVIOUS
  <1>5. Moves(n, Place)
    <2>1. e \in {"remove", "new"} BY <1>4
    <2>2. n # Home => back'[n] = Append(back[n], e) \/ back'[n] = back[n] BY <1>3, <1>4
    <2> QED BY <1>0, <1>1, <2>1, <2>2, Unconfirmed
  <1>6. ToCome(n)' => ToCome(n)
    <2>1. CASE hello = n BY <2>1 DEF ToCome
    <2>2. CASE hello # n BY <1>1, <1>3, <2>2 DEF ToCome
    <2> QED BY <2>1, <2>2
  <1>7. Steady(n) BY <1>0, <1>6, AnnounceTokens
  <1> QED BY <1>0, <1>1, <1>2, <1>5, <1>7, SteadyStep

\* A record to come is announced once, by the answer to the HELLO of its router.
LEMMA AnnouncedOnceStep ==
  ASSUME TypeOK, FallenLinkIsEmpty, GreetingInOrder, AnnouncedOnce, [Next]_vars
  PROVE  AnnouncedOnce'
  <1> DEFINE Once(n) ==
        /\ \A i, j \in DOMAIN back[n] : back[n][i] = "new" /\ back[n][j] = "new" => i = j
        /\ hello = n => \A i \in DOMAIN back[n] : back[n][i] # "new"
  <1> SUFFICES ASSUME NEW n \in Away PROVE Once(n)'
    BY DEF AnnouncedOnce
  <1>0. /\ back[n] \in Seq(Control) /\ Once(n) /\ n # Null
        /\ "resume" \in Control /\ "remove" \in Control /\ "new" \in Control
    BY DEF TypeOK, Control, AnnouncedOnce, Away
  <1>1. ASSUME back'[n] = back[n], hello' = n => hello = n PROVE Once(n)' BY <1>0, <1>1
  <1>2. ASSUME NEW e \in {"resume", "remove"}, back'[n] = Append(back[n], e),
               hello' = n => hello = n
        PROVE  Once(n)'
    <2>1. e \in Control BY <1>0
    <2>2. PICK k : k = Len(back[n]) OBVIOUS
    <2>3. /\ DOMAIN back'[n] = 1..(k + 1) /\ DOMAIN back[n] = 1..k /\ k \in Nat
          /\ back'[n][k + 1] = e
          /\ \A j \in DOMAIN back[n] : back'[n][j] = back[n][j]
      BY <1>0, <1>2, <2>1, <2>2, AppendFacts
    <2>4. \A i \in DOMAIN back'[n] : back'[n][i] = "new" =>
            i \in DOMAIN back[n] /\ back[n][i] = "new"
      BY <2>3
    <2> QED BY <1>0, <1>2, <2>4
  <1>3. ASSUME back'[n] = Tail(back[n]), back[n] # <<>>, hello' = hello PROVE Once(n)'
    <2>1. PICK t : t = Tail(back[n]) OBVIOUS
    <2>2. \A j \in DOMAIN t : j + 1 \in DOMAIN back[n] /\ t[j] = back[n][j + 1]
      BY <1>0, <1>3, <2>1, TailFacts
    <2>3. DOMAIN t \subseteq Nat BY <1>0, <1>3, <2>1
    <2>4. back'[n] = t BY <1>3, <2>1
    <2>5. ASSUME NEW i \in DOMAIN back'[n], NEW j \in DOMAIN back'[n],
                 back'[n][i] = "new", back'[n][j] = "new"
          PROVE  i = j
      <3>1. i + 1 = j + 1 BY <1>0, <2>2, <2>4, <2>5
      <3> QED BY <2>3, <2>4, <3>1
    <2>6. ASSUME hello = n, NEW i \in DOMAIN back'[n] PROVE back'[n][i] # "new"
      BY <1>0, <2>2, <2>4, <2>6
    <2> QED BY <1>3, <2>5, <2>6
  <1>4. ASSUME back'[n] = <<>> PROVE Once(n)'
    <2>1. DOMAIN <<>> = {} BY EmptyFacts
    <2> QED BY <1>4, <2>1
  <1>5. ASSUME NEW s \in Senders, FindNone(s) \/ Find(s) \/ Sender(s) \/ TimeOut(s)
        PROVE  Once(n)'
    <2>1. back' = back /\ hello' = hello
      BY <1>5 DEF FindNone, Find, Sender, TimeOut, GetToken, SendMsg, SendFails, ReturnBusy,
                  Retry, vars, network, greeting
    <2> QED BY <1>1, <2>1
  <1>6. CASE Read \/ CloseBegin \/ CloseEnd
    <2>1. back' = back /\ hello' = hello
      BY <1>6 DEF Read, CloseBegin, CloseEnd, network, greeting
    <2> QED BY <1>1, <2>1
  <1>7. CASE Confirm
    <2>0. hello' = hello BY <1>7 DEF Confirm, greeting
    <2>1. CASE back' = back BY <1>1, <2>0, <2>1
    <2>2. CASE back' = [back EXCEPT ![reader] = Append(@, "resume")]
      <3>1. back'[n] = back[n] \/ back'[n] = Append(back[n], "resume") BY <2>2 DEF TypeOK
      <3> QED BY <1>1, <1>2, <2>0, <3>1
    <2> QED BY <1>7, <2>1, <2>2, Zenon DEF Confirm
  <1>8. ASSUME NEW m \in Away, Tell(m) PROVE Once(n)'
    <2>0. hello' = hello BY <1>8 DEF Tell, greeting
    <2>1. CASE back' = back BY <1>1, <2>0, <2>1
    <2>2. CASE back' = [back EXCEPT ![m] = Append(@, "remove")]
      <3>1. back'[n] = back[n] \/ back'[n] = Append(back[n], "remove") BY <2>2 DEF TypeOK
      <3> QED BY <1>1, <1>2, <2>0, <3>1
    <2> QED BY <1>8, <2>1, <2>2, Zenon DEF Tell
  <1>9. CASE FindServer
    <2>1. back' = back /\ hello' \in {hello, Null} BY <1>9 DEF FindServer, network
    <2> QED BY <1>0, <1>1, <2>1
  <1>10. CASE Announce
    <2>0. hello' = Null BY <1>10 DEF Announce
    <2>1. CASE back' = back BY <1>0, <1>1, <2>0, <2>1
    <2>2. CASE back' = [back EXCEPT ![hello] = Append(@, "new")]
      <3>1. CASE hello # n
        <4>1. back'[n] = back[n] BY <2>2, <3>1 DEF TypeOK
        <4> QED BY <1>0, <1>1, <2>0, <4>1
      <3>2. CASE hello = n
        <4>1. back'[n] = Append(back[n], "new") BY <2>2, <3>2 DEF TypeOK
        <4>2. PICK k : k = Len(back[n]) OBVIOUS
        <4>3. /\ DOMAIN back'[n] = 1..(k + 1) /\ DOMAIN back[n] = 1..k /\ k \in Nat
              /\ \A j \in DOMAIN back[n] : back'[n][j] = back[n][j]
          BY <1>0, <4>1, <4>2, AppendFacts
        <4>4. \A i \in DOMAIN back'[n] : back'[n][i] = "new" => i = k + 1
          BY <1>0, <3>2, <4>3
        <4> QED BY <1>0, <2>0, <4>4
      <3> QED BY <3>1, <3>2
    <2> QED BY <1>10, <2>1, <2>2, Zenon DEF Announce
  <1>11. ASSUME NEW m \in Away, Receive(m) \/ RemoteClose(m) PROVE Once(n)'
    <2>1. back' = back /\ hello' = hello BY <1>11 DEF Receive, RemoteClose, greeting
    <2> QED BY <1>1, <2>1
  <1>12. ASSUME NEW m \in Away, NewServer(m) \/ RemoveClient(m) \/ ResumeTx(m) PROVE Once(n)'
    <2>1. hello' = hello /\ back' = [back EXCEPT ![m] = Tail(@)] /\ back[m] # <<>>
      BY <1>12 DEF NewServer, RemoveClient, ResumeTx, greeting
    <2>2. back'[n] = back[n] \/ (back'[n] = Tail(back[n]) /\ back[n] # <<>>)
      BY <2>1 DEF TypeOK
    <2> QED BY <1>1, <1>3, <2>1, <2>2
  <1>13. ASSUME NEW m \in Away, LinkLost(m) PROVE Once(n)'
    <2>1. hello' = hello /\ back' = [back EXCEPT ![m] = <<>>]
      BY <1>13 DEF LinkLost, greeting
    <2>2. back'[n] \in {back[n], <<>>} BY <2>1 DEF TypeOK
    <2> QED BY <1>1, <1>4, <2>1, <2>2
  <1>14. ASSUME NEW m \in Away, LinkUp(m) PROVE Once(n)'
    <2>1. back' = back /\ hello' = m /\ back[m] = <<>>
      BY <1>14 DEF LinkUp, FallenLinkIsEmpty
    <2>2. CASE m = n BY <1>4, <2>1, <2>2
    <2>3. CASE m # n BY <1>1, <2>1, <2>3
    <2> QED BY <2>2, <2>3
  <1>15. CASE UNCHANGED vars
    <2>1. back' = back /\ hello' = hello BY <1>15 DEF vars, network, greeting
    <2> QED BY <1>1, <2>1
  <1> QED
    BY <1>5, <1>6, <1>7, <1>8, <1>9, <1>10, <1>11, <1>12, <1>13, <1>14, <1>15
    DEF Next, Reader, Closer, Greeter, Worker

\* Whose message it is has a sender.
LEMMA SilentStep ==
  ASSUME TypeOK, Silent, [Next]_vars
  PROVE  Silent'
  <1>0. inbox \in Seq(Message) /\ link \in [Away -> Seq(BOOLEAN)] BY DEF TypeOK
  <1>1. \A n : Of(n)' = Of(n) BY DEF Of
  <1>2. ASSUME NEW m \in Routers, Of(m) # {}, NEW c \in BOOLEAN,
               inbox' = Append(inbox, [from |-> m, confirm |-> c])
        PROVE  \A i \in DOMAIN inbox' : Of(inbox'[i].from) # {}
    <2> DEFINE e == [from |-> m, confirm |-> c]
    <2>1. e \in Message /\ e.from = m BY DEF Message
    <2> HIDE DEF e
    <2>2. inbox' = Append(inbox, e) BY <1>2 DEF e
    <2>3. PICK k : k = Len(inbox) OBVIOUS
    <2>4. /\ DOMAIN inbox' = 1..(k + 1) /\ DOMAIN inbox = 1..k /\ k \in Nat
          /\ inbox'[k + 1] = e
          /\ \A i \in DOMAIN inbox : inbox'[i] = inbox[i]
      BY <1>0, <2>1, <2>2, <2>3, AppendFacts
    <2> SUFFICES ASSUME NEW i \in DOMAIN inbox' PROVE Of(inbox'[i].from) # {}
      OBVIOUS
    <2>5. CASE i = k + 1 BY <1>2, <2>1, <2>4, <2>5
    <2>6. CASE i # k + 1
      <3>1. i \in DOMAIN inbox /\ inbox'[i] = inbox[i] BY <2>4, <2>6
      <3> QED BY <3>1 DEF Silent
    <2> QED BY <2>5, <2>6
  <1>3. ASSUME inbox' = inbox, link' = link PROVE Silent'
    BY <1>1, <1>3 DEF Silent
  <1>4. ASSUME NEW s \in Senders, FindNone(s) \/ Find(s) \/ Sender(s) \/ TimeOut(s)
        PROVE  Silent'
    <2>1. CASE SendMsg(s)
      <3>1. s \in Of(RouterOf[s]) /\ RouterOf[s] \in Routers BY DEF Of
      <3>2. (pc[s] = "last") \in BOOLEAN OBVIOUS
      <3>3. CASE RouterOf[s] = Home
        <4>1. link' = link BY <2>1, <3>3 DEF SendMsg, Deliver
        <4>2. CASE inbox' = inbox BY <1>3, <4>1, <4>2
        <4>3. CASE inbox' # inbox
          <5>1. inbox' = Append(inbox, [from |-> RouterOf[s], confirm |-> pc[s] = "last"])
            BY <2>1, <4>3 DEF SendMsg, Deliver
          <5>2. \A i \in DOMAIN inbox' : Of(inbox'[i].from) # {} BY <1>2, <3>1, <3>2, <5>1
          <5> QED BY <1>1, <4>1, <5>2 DEF Silent
        <4> QED BY <4>2, <4>3
      <3>4. CASE RouterOf[s] # Home
        <4>1. /\ inbox' = inbox
              /\ \A m \in Away : m # RouterOf[s] => link'[m] = link[m]
          BY <1>0, <2>1, <3>4 DEF SendMsg, Deliver
        <4>2. \A m \in Away : link'[m] # <<>> => Of(m) # {} BY <3>1, <4>1 DEF Silent
        <4> QED BY <1>1, <4>1, <4>2 DEF Silent
      <3> QED BY <3>3, <3>4
    <2>2. CASE ~SendMsg(s)
      <3>1. inbox' = inbox /\ link' = link
        BY <1>4, <2>2 DEF FindNone, Find, Sender, TimeOut, GetToken, SendFails, ReturnBusy,
                          Retry, vars, network, endpoint
      <3> QED BY <1>3, <3>1
    <2> QED BY <2>1, <2>2
  <1>5. CASE Read
    <2>1. inbox # <<>> /\ inbox' = Tail(inbox) /\ link' = link BY <1>5 DEF Read, network
    <2>2. \A i \in DOMAIN inbox' : i + 1 \in DOMAIN inbox /\ inbox'[i] = inbox[i + 1]
      BY <1>0, <2>1, TailFacts
    <2>3. \A i \in DOMAIN inbox' : Of(inbox'[i].from) # {} BY <2>2 DEF Silent
    <2> QED BY <1>1, <2>1, <2>3 DEF Silent
  <1>6. CASE Confirm BY <1>3, <1>6 DEF Confirm
  <1>10. CASE CloseBegin \/ Greeter \/ \E n \in Away : Tell(n)
    BY <1>3, <1>10 DEF CloseBegin, Greeter, FindServer, Announce, Tell, network, endpoint
  <1>7. CASE CloseEnd
    <2>1. inbox' = <<>> /\ link' = link BY <1>7 DEF CloseEnd, network
    <2>2. DOMAIN inbox' = {} BY <2>1
    <2> QED BY <1>1, <2>1, <2>2 DEF Silent
  <1>8. ASSUME NEW n \in Away, Receive(n) \/ Worker(n) \/ LinkLost(n) \/ LinkUp(n)
        PROVE  Silent'
    <2>1. CASE Receive(n)
      <3>1. link[n] # <<>> /\ Of(n) # {} /\ n \in Routers /\ Head(link[n]) \in BOOLEAN
        BY <1>0, <2>1, TailFacts DEF Receive, Silent, Away
      <3>2. \A m \in Away : link'[m] # <<>> => Of(m) # {}
        <4>1. \A m \in Away : m # n => link'[m] = link[m] BY <1>0, <2>1 DEF Receive
        <4> QED BY <3>1, <4>1 DEF Silent
      <3>3. CASE inbox' = inbox BY <1>1, <3>2, <3>3 DEF Silent
      <3>4. CASE inbox' # inbox
        <4>1. inbox' = Append(inbox, [from |-> n, confirm |-> Head(link[n])])
          BY <2>1, <3>4 DEF Receive
        <4>2. \A i \in DOMAIN inbox' : Of(inbox'[i].from) # {} BY <1>2, <3>1, <4>1
        <4> QED BY <1>1, <3>2, <4>2 DEF Silent
      <3> QED BY <3>3, <3>4
    <2>2. CASE RemoteClose(n)
      <3>1. inbox' = inbox /\ \A m \in Away : link'[m] \in {link[m], <<>>}
        BY <1>0, <2>2 DEF RemoteClose, endpoint
      <3> QED BY <1>1, <3>1 DEF Silent
    <2>3. CASE NewServer(n) \/ RemoveClient(n) \/ ResumeTx(n) \/ LinkLost(n) \/ LinkUp(n)
      <3>1. inbox' = inbox /\ link' = link
        BY <2>3 DEF NewServer, RemoveClient, ResumeTx, LinkLost, LinkUp, endpoint
      <3> QED BY <1>3, <3>1
    <2> QED BY <1>8, <2>1, <2>2, <2>3 DEF Worker
  <1>9. CASE UNCHANGED vars BY <1>3, <1>9 DEF vars, network, endpoint
  <1> QED BY <1>4, <1>5, <1>6, <1>7, <1>8, <1>9, <1>10 DEF Next, Reader, Closer

\* Every step keeps the numbers of every router with senders.
LEMMA BacklogStep ==
  ASSUME Facts, TypeOK', Backlog, [Next]_vars
  PROVE  Backlog'
  <1> SUFFICES ASSUME NEW n \in Routers, Of(n)' # {}
               PROVE  Few(n)'
    BY DEF Backlog, Few
  <1>1. Few(n) BY DEF Backlog, Few, Of
  <1>2. ASSUME NEW s \in Senders, FindNone(s) \/ Find(s) \/ Sender(s) \/ TimeOut(s)
        PROVE  Few(n)'
    BY <1>1, <1>2, QuietSender, TokenStep, SendStep DEF Sender
  <1>3. CASE Reader BY <1>1, <1>3, ReadStep, ConfirmStep DEF Reader
  <1>6. CASE CloseBegin \/ Closer BY <1>1, <1>6, CloseToldStep, CloseStep DEF Closer
  <1>7. CASE Greeter BY <1>1, <1>7, FindServerStep, AnnounceStep DEF Greeter
  <1>4. ASSUME NEW m \in Away, Receive(m) \/ Worker(m) \/ LinkLost(m) \/ LinkUp(m)
        PROVE  Few(n)'
    BY <1>1, <1>4, ReceiveStep, NewServerStep, RemoveClientStep, ResumeTxStep, LinkLostStep,
       LinkStep DEF Worker
  <1>5. CASE UNCHANGED vars
    <2>1. UNCHANGED <<link, back, inbox, reader, hello>>
      BY <1>5 DEF vars, network, endpoint, greeting
    <2>2. Moves(n, Place) BY <2>1, NothingMoves
    <2>3. UNCHANGED <<table, hold, txCount, pc, state, flaps>>
      BY <1>5 DEF vars, records, senders, network
    <2>4. ToCome(n)' => ToCome(n) BY <2>1, <2>3 DEF ToCome
    <2>5. TypeOK /\ Finite BY DEF Facts
    <2>6. Steady(n) BY <2>3, <2>4, <2>5, SameTokens
    <2>7. SameHands(n) BY <2>3 DEF SameHands, InHand, LastInHand, Of
    <2> QED BY <1>1, <2>2, <2>3, <2>5, <2>6, <2>7, SteadyStep
  <1> QED BY <1>2, <1>3, <1>4, <1>5, <1>6, <1>7 DEF Next

\* At the start every router has a record, or one to come, and nothing is under way.
LEMMA BacklogInit ==
  ASSUME Init, TypeOK, Finite
  PROVE  Backlog /\ Silent /\ AnnouncedOnce
  <1>0. inbox = <<>> /\ reader = Null /\ flaps = 0 /\ hello = Null /\ DOMAIN inbox = {} BY EmptyFacts DEF Init
  <1>1. /\ \A n \in Away : link[n] = <<>> /\ back[n] = <<"new">> /\ state[n] = "up"
        /\ \A n \in Away : table[n] = Null
        /\ \A s \in Senders : pc[s] = "idle" /\ hold[s] = Null
        /\ \A r \in Records : txCount[r] = 0
    BY DEF Init, Away
  <1>2. DOMAIN <<"new">> = {1} OBVIOUS
  <1>3. Silent BY <1>0, <1>1 DEF Silent
  <1>4. AnnouncedOnce BY <1>0, <1>1, <1>2 DEF AnnouncedOnce, Away
  <1>5. ASSUME NEW n \in Routers, Of(n) # {}
        PROVE  FewRounds(n) /\ FewBehind(n) /\ FewMessages(n)
    <2>1. Messages(n) = {}
      BY <1>0, <1>1, EmptyFacts DEF Messages, IsMessage, Away
    <2>2. Confirms(n) = {}
      <3>1. n # Null OBVIOUS
      <3>2. n # Home => DOMAIN link[n] = {} /\ \A i \in DOMAIN back[n] : back[n][i] # "resume"
        BY <1>1, <1>2, EmptyFacts DEF Away
      <3> QED BY <1>0, <3>1, <3>2 DEF Confirms, IsConfirm
    <2>3. InHand(n) = {} /\ LastInHand(n) = {} BY <1>1 DEF InHand, LastInHand, Of
    <2>4. PICK x : x = table[n] OBVIOUS
    <2>5. ASSUME NEW r \in Records \cup {Null}, r # x PROVE Taken(n, r) = RxQuota
      <3>1. CASE r = Null
        <4>1. n = Home BY <1>1, <1>5, <2>4, <2>5, <3>1 DEF Away
        <4> QED BY <3>1, <4>1 DEF Taken, ToCome
      <3>2. CASE r # Null
        <4>1. ~Live(n, r) BY <1>1, <2>4, <2>5, <3>2 DEF Live, Of
        <4> QED BY <3>2, <4>1 DEF Taken
      <3> QED BY <3>1, <3>2
    <2>6. Rounds(n) \subseteq {x} BY <2>5 DEF Rounds
    <2>7. Tokens(n) \subseteq {x} \X (1..RxQuota)
      <3> SUFFICES ASSUME NEW p \in Tokens(n) PROVE p \in {x} \X (1..RxQuota)
        OBVIOUS
      <3>1. PICK r \in Records \cup {Null}, k \in 1..RxQuota : p = <<r, k>> BY DEF Tokens
      <3>2. Taken(n, r) < k BY <3>1 DEF Tokens
      <3>3. r = x
        <4>1. ~(RxQuota < k) OBVIOUS
        <4> QED BY <2>5, <3>2, <4>1
      <3> QED BY <3>1, <3>3
    <2>8. Cardinality(Rounds(n)) <= 1
      <3>1. IsFiniteSet({x}) /\ Cardinality({x}) = 1 BY FS_Singleton
      <3> QED BY <2>6, <3>1, FS_Subset
    <2>9. Cardinality(Tokens(n)) <= RxQuota
      <3>1. PICK row : row = {x} \X (1..RxQuota) OBVIOUS
      <3>2. IsFiniteSet(row) /\ Cardinality(row) = RxQuota BY <3>1, RowSize
      <3>3. Tokens(n) \subseteq row BY <2>7, <3>1
      <3> QED BY <3>2, <3>3, FS_Subset
    <2>10. Counts(n) BY CountsType
    <2>11. Cardinality({}) = 0 BY FS_EmptySet
    <2>12. Cardinality(Of(n)) >= 1
      <3>1. IsFiniteSet(Of(n)) BY TokensFinite
      <3>2. Cardinality(Of(n)) # 0 BY <1>5, <3>1, FS_EmptySet
      <3> QED BY <2>10, <3>2 DEF Counts
    <2>13. FewRounds(n) BY <1>0, <2>2, <2>3, <2>8, <2>10, <2>11 DEF FewRounds, Counts
    <2>14. FewBehind(n) BY <2>2 DEF FewBehind
    <2>15. FewMessages(n)
      <3>1. RxQuota * (flaps + 1) = RxQuota BY <1>0
      <3>2. Credit(n) <= RxQuota BY <2>3, <2>9, <2>10, <2>11 DEF Credit, Counts
      <3>3. Cardinality(Messages(n)) = 0 BY <2>1, <2>11
      <3> QED BY <2>10, <2>12, <3>1, <3>2, <3>3 DEF FewMessages, Counts
    <2> QED BY <2>13, <2>14, <2>15
  <1>6. Backlog BY <1>5 DEF Backlog
  <1> QED BY <1>3, <1>4, <1>6

\* The unread messages of a router are among those under way.
LEMMA UnreadCounted ==
  ASSUME TypeOK, NEW n \in Routers
  PROVE  /\ Unread(n) \in Nat
         /\ Unread(n) <= Cardinality(Messages(n))
         /\ Messages(n) = {} => Unread(n) = 0
  <1>1. PICK a : a = IF n = Home THEN 0 ELSE Len(link[n]) OBVIOUS
  <1>2. PICK I : I = {i \in DOMAIN inbox : inbox[i].from = n} OBVIOUS
  <1>3. /\ a \in Nat /\ DOMAIN inbox = 1..Len(inbox) /\ Len(inbox) \in Nat
        /\ n # Home => DOMAIN link[n] = 1..a
    BY <1>1 DEF TypeOK, Away
  <1>4. IsFiniteSet(1..a) /\ Cardinality(1..a) = a BY <1>3, FS_Interval
  <1>5. IsFiniteSet(I)
    <2>1. IsFiniteSet(1..Len(inbox)) BY <1>3, FS_Interval
    <2>2. I \subseteq 1..Len(inbox) BY <1>2, <1>3
    <2> QED BY <2>1, <2>2, FS_Subset
  <1>6. Cardinality(I) \in Nat BY <1>5, FS_CardinalityType
  <1>7. Unread(n) = a + Cardinality(I) BY <1>1, <1>2 DEF Unread
  <1>8. PICK A : A = {3} \X (1..a) OBVIOUS
  <1>9. PICK B : B = {2} \X I OBVIOUS
  <1>10. /\ IsFiniteSet(A) /\ Cardinality(A) = a
         /\ IsFiniteSet(B) /\ Cardinality(B) = Cardinality(I)
    <2>1. /\ IsFiniteSet({3}) /\ Cardinality({3}) = 1
          /\ IsFiniteSet({2}) /\ Cardinality({2}) = 1
      BY FS_Singleton
    <2>2. IsFiniteSet(A) /\ Cardinality(A) = Cardinality({3}) * Cardinality(1..a)
      BY <1>4, <1>8, <2>1, FS_Product
    <2>3. IsFiniteSet(B) /\ Cardinality(B) = Cardinality({2}) * Cardinality(I)
      BY <1>5, <1>9, <2>1, FS_Product
    <2> QED BY <1>3, <1>4, <1>6, <2>1, <2>2, <2>3
  <1>11. A \cap B = {} BY <1>8, <1>9
  <1>12. A \cup B \subseteq Messages(n)
    <2>1. ASSUME NEW p \in A PROVE p \in Messages(n)
      <3>1. p[1] = 3 /\ p[2] \in 1..a /\ p \in Places BY <1>3, <1>8 DEF Places
      <3>2. n # Home BY <1>1, <3>1
      <3> QED BY <1>3, <3>1, <3>2 DEF Messages, IsMessage
    <2>2. ASSUME NEW p \in B PROVE p \in Messages(n)
      <3>1. p[1] = 2 /\ p[2] \in I /\ p \in Places BY <1>2, <1>3, <1>9 DEF Places
      <3> QED BY <1>2, <3>1 DEF Messages, IsMessage
    <2> QED BY <2>1, <2>2
  <1>13. /\ IsFiniteSet(A \cup B)
         /\ Cardinality(A \cup B) = a + Cardinality(I)
    <2>1. /\ IsFiniteSet(A \cup B)
          /\ Cardinality(A \cup B) = Cardinality(A) + Cardinality(B) - Cardinality(A \cap B)
      BY <1>10, FS_Union
    <2>2. Cardinality(A \cap B) = 0 BY <1>11, FS_EmptySet
    <2> QED BY <1>3, <1>6, <1>10, <2>1, <2>2
  <1>14. Cardinality(A \cup B) <= Cardinality(Messages(n))
    BY <1>12, MessagesFinite, FS_Subset
  <1>15. Messages(n) = {} => Unread(n) = 0
    <2>1. Cardinality({}) = 0 BY FS_EmptySet
    <2>2. Messages(n) = {} => A \cup B = {} BY <1>12
    <2> QED BY <1>7, <1>13, <2>1, <2>2
  <1> QED BY <1>3, <1>6, <1>7, <1>13, <1>14, <1>15

\* The parts of the inductive invariant behind BacklogBounded
BInv ==
  /\ TypeOK /\ HoldsWhileInside /\ RecordOfOneRouter /\ FallenLinkIsEmpty /\ GreetingInOrder
  /\ AnnouncedOnce /\ Silent /\ Backlog

\* They are enough.
LEMMA BacklogSuffices ==
  ASSUME BInv, Finite PROVE BacklogBounded
  <1> SUFFICES ASSUME NEW n \in Routers
               PROVE  Unread(n) <= (flaps + 1) * RxQuota + Cardinality(Of(n)) - 1
    BY DEF BacklogBounded, Of
  <1>0. TypeOK BY DEF BInv
  <1>1. Unread(n) \in Nat /\ Unread(n) <= Cardinality(Messages(n)) BY <1>0, UnreadCounted
  <1>2. Counts(n) BY <1>0, CountsType
  <1>3. /\ (flaps + 1) * RxQuota = RxQuota * (flaps + 1)
        /\ RxQuota * (flaps + 1) = RxQuota * flaps + RxQuota
        /\ RxQuota * flaps \in Nat
    <2>1. flaps \in Nat BY <1>2 DEF Counts
    <2>2. RxQuota \in Nat OBVIOUS
    <2> QED BY <2>1, <2>2
  <1>4. CASE Of(n) # {}
    <2>1. FewMessages(n) BY <1>4 DEF BInv, Backlog
    <2> QED BY <1>1, <1>2, <1>3, <2>1 DEF FewMessages, Counts
  <1>5. CASE Of(n) = {}
    <2>1. n # Home => DOMAIN link[n] = {}
      BY <1>5, EmptyFacts DEF BInv, Silent, Away
    <2>2. \A i \in DOMAIN inbox : inbox[i].from # n BY <1>5 DEF BInv, Silent
    <2>3. Messages(n) = {} BY <2>1, <2>2 DEF Messages, IsMessage
    <2>4. Unread(n) = 0 BY <1>0, <2>3, UnreadCounted
    <2> QED BY <1>2, <1>3, <2>4 DEF Counts
  <1> QED BY <1>4, <1>5

\* BacklogBounded: the reader's backlog is bounded, whatever fails.
THEOREM BacklogIsBounded ==
  ASSUME Finite
  PROVE  Spec => []BacklogBounded
  <1>1. Init => BInv
    <2> SUFFICES ASSUME Init PROVE BInv
      OBVIOUS
    <2>1. /\ TypeOK /\ HoldsWhileInside /\ RecordOfOneRouter
          /\ FallenLinkIsEmpty /\ GreetingInOrder
      BY InitHolds DEF IInv
    <2> QED BY <2>1, BacklogInit DEF BInv
  <1>2. BInv /\ [Next]_vars => BInv'
    <2> SUFFICES ASSUME BInv, [Next]_vars PROVE BInv'
      OBVIOUS
    <2>1. /\ TypeOK' /\ HoldsWhileInside' /\ RecordOfOneRouter'
          /\ FallenLinkIsEmpty' /\ GreetingInOrder'
      BY TypeStep, HoldsStep, OneRouterStep, FallenLinkStep, GreetingStep DEF BInv
    <2>2. AnnouncedOnce' /\ Silent' BY AnnouncedOnceStep, SilentStep DEF BInv
    <2>3. Backlog' BY <2>1, BacklogStep DEF BInv, Facts
    <2> QED BY <2>1, <2>2, <2>3 DEF BInv
  <1>3. BInv => BacklogBounded BY BacklogSuffices
  <1> QED BY <1>1, <1>2, <1>3, PTL DEF Spec
=============================================================================
