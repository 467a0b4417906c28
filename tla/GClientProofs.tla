---------------------------- MODULE GClientProofs ----------------------------
(***************************************************************************)
(* A GClient session, for any number of callers, callbacks, packet ids and *)
(* calls: the inductive invariant, what follows from it of the disconnect  *)
(* handler and of failing calls, who ends the read loop, which answers     *)
(* callers get, and the refinement of Session.                             *)
(***************************************************************************)
EXTENDS GClient, SequenceTheorems, TLAPS

USE ConstantsOK DEF Actors, Tasks, ConstantsOK

\* A session starts in a state of the inductive invariant.
LEMMA InitIInv == Init => IInv
<1> SUFFICES ASSUME Init PROVE IInv
  OBVIOUS
<1> USE DEF Init
<1>1. TypeOK
  <2>1. /\ pc \in [Actors -> UserPCs \cup ReaderPCs]
        /\ \A u \in Users : pc[u] \in UserPCs
        /\ pc[Reader] \in ReaderPCs
    BY DEF UserPCs, ReaderPCs
  <2>2. inbound \in Seq(Packet \cup {Garbage})
    OBVIOUS
  <2>3. isDisconnected \in BOOLEAN /\ hasHandler \in BOOLEAN /\ notified \in BOOLEAN
    BY Zenon
  <2>4. /\ pending \in [Ids -> Users \cup {Nobody}]
        /\ chan \in [Users -> {"none", "open", "full", "dropped"}]
        /\ answer \in [Users -> Tags \cup {NoTag}]
        /\ serial \in [Users -> Nat]
    OBVIOUS
  <2>5. /\ handlers \in [Ids -> 0..MaxHandlers]
        /\ cb \in [Callbacks -> {"free", "spawned", "running", "notified", "gone"}]
        /\ packet \in Packet \cup {Garbage} /\ todo \in 0..MaxHandlers
    OBVIOUS
  <2> QED BY <2>1, <2>2, <2>3, <2>4, <2>5 DEF TypeOK
<1>2. TeardownInv
  BY DEF TeardownInv, FlagLock, WriterLock, ShutFirst, OneTeardown, HandlerState, AfterMark
<1>3. RequestInv
  BY DEF RequestInv, ChanInCall, CallSerial, DispatchParsed
<1> QED BY <1>1, <1>2, <1>3 DEF IInv

\* An actor that goes to a place of its own leaves every actor at one.
LEMMA MoveType ==
  ASSUME TypeOK, NEW a \in Actors, NEW l \in UserPCs \cup ReaderPCs,
         a \in Users => l \in UserPCs, a = Reader => l \in ReaderPCs,
         pc' = [pc EXCEPT ![a] = l]
  PROVE  /\ pc' \in [Actors -> UserPCs \cup ReaderPCs]
         /\ \A u \in Users : pc'[u] \in UserPCs
         /\ pc'[Reader] \in ReaderPCs
  BY DEF TypeOK

\* So does the read loop, which is no user.
LEMMA ReaderMoveType ==
  ASSUME TypeOK, NEW l \in ReaderPCs, Go(Reader, l)
  PROVE  /\ pc' \in [Actors -> UserPCs \cup ReaderPCs]
         /\ \A u \in Users : pc'[u] \in UserPCs
         /\ pc'[Reader] \in ReaderPCs
  <1>1. Reader \in Actors /\ Reader \notin Users
    BY ConstantsOK DEF Actors, ConstantsOK
  <1> QED BY <1>1, MoveType DEF Go

\* The step conditions, one lemma per part of IInv.
LEMMA TypeStep == ASSUME IInv, [Next]_vars PROVE TypeOK'
<1> USE DEF IInv, RequestInv, TypeOK, Go, Return, UserPCs, ReaderPCs, TeardownPCs,
            sendVars, reqVars, hookVars, taskVars, loopVars, netVars
<1>1. ASSUME NEW u \in Users, NEW o \in Ops[u], Call(u, o) PROVE TypeOK'
  <2>1. EntryOf[o] \in UserPCs
    BY DEF EntryOf
  <2> QED BY <1>1, <2>1 DEF Call
<1>2. ASSUME NEW u \in Users, ReqCheck(u) PROVE TypeOK'
  BY <1>2 DEF ReqCheck
<1>3. ASSUME NEW u \in Users, ReqInsert(u) PROVE TypeOK'
  <2>1. pending' \in [Ids -> Users \cup {Nobody}] /\ crossed' \in SUBSET Ids
    BY <1>3 DEF ReqInsert
  <2>2. chan' \in [Users -> {"none", "open", "full", "dropped"}]
    BY <1>3 DEF ReqInsert
  <2>3. serial' \in [Users -> Nat]
    BY <1>3 DEF ReqInsert
  <2>4. /\ pc' \in [Actors -> UserPCs \cup ReaderPCs] /\ pc'[Reader] \in ReaderPCs
        /\ \A v \in Users : pc'[v] \in UserPCs
    BY <1>3 DEF ReqInsert
  <2>5. UNCHANGED <<answer, sendVars, hookVars, taskVars, loopVars, netVars>>
    BY <1>3 DEF ReqInsert
  <2> QED BY <2>1, <2>2, <2>3, <2>4, <2>5
<1>4. ASSUME NEW u \in Users, SendCheck(u) PROVE TypeOK'
  BY <1>4 DEF SendCheck
<1>5. ASSUME NEW u \in Users, SendLock(u) PROVE TypeOK'
  BY <1>5 DEF SendLock
<1>6. ASSUME NEW u \in Users, SendDone(u) PROVE TypeOK'
  <2>1. CASE chan[u] = "none"
    <3>1. pc' = [pc EXCEPT ![u] = "idle"] /\ asked' = asked
      BY <1>6, <2>1 DEF SendDone
    <3> QED BY <1>6, <3>1 DEF SendDone
  <2>2. CASE chan[u] # "none"
    <3>1. <<u, serial[u]>> \in Tags
      BY <2>2 DEF CallSerial, Tags
    <3>2. pc' = [pc EXCEPT ![u] = "await"]
      BY <1>6, <2>2 DEF SendDone
    <3>3. asked' = asked \/ asked' = asked \cup {<<u, serial[u]>>}
      BY <1>6, <2>2, Zenon DEF SendDone
    <3>4. asked' \in SUBSET Tags
      BY <3>1, <3>3
    <3> QED BY <1>6, <3>2, <3>4 DEF SendDone
  <2> QED BY <2>1, <2>2
<1>7. ASSUME NEW u \in Users, SendFail(u) PROVE TypeOK'
  BY <1>7 DEF SendFail
<1>8. ASSUME NEW u \in Users, Receive(u) PROVE TypeOK'
  BY <1>8 DEF Receive
<1>9. ASSUME NEW u \in Users, GiveUp(u) PROVE TypeOK'
  BY <1>9 DEF GiveUp
<1>10. ASSUME NEW a \in Actors, Teardown(a) PROVE TypeOK'
  <2>1. CASE DisconnectEnter(a)
    <3>1. CASE isDisconnected
      <4>1. Return(a) /\ flagOwner' = flagOwner
        BY <2>1, <3>1, Zenon DEF DisconnectEnter
      <4>2. CASE a = Reader BY <2>1, <4>1, <4>2 DEF DisconnectEnter
      <4>3. CASE a # Reader BY <2>1, <4>1, <4>3 DEF DisconnectEnter
      <4> QED BY <4>2, <4>3
    <3>2. CASE ~isDisconnected
      <4>1. Go(a, "dShutdown") /\ flagOwner' = a
        BY <2>1, <3>2, Zenon DEF DisconnectEnter
      <4> QED BY <2>1, <4>1 DEF DisconnectEnter
    <3> QED BY <3>1, <3>2
  <2>2. CASE DisconnectShutdown(a) BY <2>2 DEF DisconnectShutdown
  <2>3. CASE DisconnectMark(a) BY <2>3 DEF DisconnectMark
  <2>4. CASE TakeJoinSet(a) BY <2>4 DEF TakeJoinSet
  <2>5. CASE Join(a) BY <2>5 DEF Join
  <2>6. CASE CallHandler(a)
    <3>1. CASE hasHandler
      <4>1. Go(a, "handling") /\ handler' = "running"
        BY <2>6, <3>1, Zenon DEF CallHandler
      <4> QED BY <2>6, <4>1 DEF CallHandler
    <3>2. CASE ~hasHandler
      <4>1. Return(a) /\ handler' = handler
        BY <2>6, <3>2, Zenon DEF CallHandler
      <4> QED BY <2>6, <4>1 DEF CallHandler
    <3> QED BY <3>1, <3>2
  <2>7. CASE HandlerDone(a) BY <2>7 DEF HandlerDone
  <2> QED BY <1>10, <2>1, <2>2, <2>3, <2>4, <2>5, <2>6, <2>7 DEF Teardown
<1>11. CASE ReaderRead
  <2>1. /\ Head(inbound) \in Packet \cup {Garbage}
        /\ Tail(inbound) \in Seq(Packet \cup {Garbage})
    BY <1>11, HeadTailProperties DEF ReaderRead
  <2> QED BY <1>11, <2>1 DEF ReaderRead
<1>12. CASE ReaderError \/ ReaderPanic \/ ReaderStop
  <2>1. /\ Go(Reader, "dEnter") \/ Go(Reader, "gone")
        /\ notified' = FALSE
        /\ UNCHANGED <<packet, todo, sendVars, reqVars, hookVars, taskVars, netVars>>
    BY <1>12, Zenon DEF ReaderError, ReaderPanic, ReaderStop
  <2>2. "dEnter" \in ReaderPCs /\ "gone" \in ReaderPCs
    OBVIOUS
  <2>3. /\ pc' \in [Actors -> UserPCs \cup ReaderPCs]
        /\ \A u \in Users : pc'[u] \in UserPCs
        /\ pc'[Reader] \in ReaderPCs
    <3>1. TypeOK
      BY Zenon
    <3>2. PICK l \in {"dEnter", "gone"} : Go(Reader, l)
      BY <2>1, Zenon
    <3>3. l \in ReaderPCs
      OBVIOUS
    <3> HIDE DEF IInv, TypeOK, RequestInv, Go, UserPCs, ReaderPCs, TeardownPCs
    <3> QED BY <3>1, <3>2, <3>3, ReaderMoveType, Zenon
  <2> HIDE DEF UserPCs, ReaderPCs, TeardownPCs
  <2>4. (notified \in BOOLEAN)'
    BY <2>1
  <2>5. UNCHANGED <<flagOwner, writerOwner, wire, isDisconnected, pending, chan, answer, serial, crossed,
                    handlers, hasHandler, handler, joinSet, taken, aborted, cb, packet, todo,
                    peer, inbound, asked, events>>
    BY <2>1, Zenon
  <2>6. TypeOK
    BY Zenon
  <2> HIDE DEF IInv, RequestInv
  <2> QED BY <2>3, <2>4, <2>5, <2>6
<1>14. CASE DispatchResponse
  <2> DEFINE u == pending[packet.id]
  <2>1. packet.id \in Ids /\ packet.tag \in Tags \cup {NoTag}
    BY <1>14 DEF DispatchResponse, DispatchParsed, Packet
  <2>2. /\ u \in Users /\ Go(Reader, "select")
        /\ pending' = [pending EXCEPT ![packet.id] = Nobody]
        /\ UNCHANGED <<serial, crossed, sendVars, hookVars, taskVars, loopVars, netVars>>
    BY <1>14, <2>1 DEF DispatchResponse
  <2>3. \/ chan' = [chan EXCEPT ![u] = "full"] /\ answer' = [answer EXCEPT ![u] = packet.tag]
        \/ chan' = chan /\ answer' = answer
    BY <1>14, Zenon DEF DispatchResponse
  <2>4. "select" \in ReaderPCs
    OBVIOUS
  <2> HIDE DEF u, UserPCs, ReaderPCs, TeardownPCs
  <2>5. /\ chan' \in [Users -> {"none", "open", "full", "dropped"}]
        /\ answer' \in [Users -> Tags \cup {NoTag}]
    BY <2>1, <2>2, <2>3
  <2>6. /\ pc' \in [Actors -> UserPCs \cup ReaderPCs]
        /\ \A v \in Users : pc'[v] \in UserPCs
        /\ pc'[Reader] \in ReaderPCs
    BY <2>2, <2>4, MoveType
  <2>7. pending' \in [Ids -> Users \cup {Nobody}]
    BY <2>1, <2>2
  <2> QED BY <2>2, <2>5, <2>6, <2>7
<1>15. CASE DispatchEvent BY <1>15 DEF DispatchEvent, DispatchParsed, Packet
<1>16. CASE SpawnCallback BY <1>16 DEF SpawnCallback
<1>17. CASE SpawnEnd BY <1>17 DEF SpawnEnd
<1>18. CASE CancelReader BY <1>18 DEF CancelReader
<1>19. ASSUME NEW c \in Callbacks, CallbackStep(c) PROVE TypeOK'
  <2>1. CASE CallbackStart(c) BY <2>1 DEF CallbackStart
  <2>2. CASE CallbackFinish(c) BY <2>2 DEF CallbackFinish
  <2>3. CASE CancelCallback(c) BY <2>3 DEF CancelCallback
  <2> QED BY <1>19, <2>1, <2>2, <2>3 DEF CallbackStep
<1>20. CASE Environment
  <2>1. ASSUME NEW i \in EventIds, RegisterEventHandler(i) PROVE TypeOK'
    BY <2>1 DEF RegisterEventHandler
  <2>2. CASE RegisterDisconnectHandler BY <2>2 DEF RegisterDisconnectHandler
  <2>3. ASSUME NEW r \in asked, ServerReply(r) PROVE TypeOK'
    <3>1. r \in Tags /\ [id |-> ReqId[r[1]], tag |-> r] \in Packet
      BY DEF Packet, Tags
    <3>2. /\ inbound' = Append(inbound, [id |-> ReqId[r[1]], tag |-> r]) /\ asked' = asked \ {r}
          /\ UNCHANGED <<pc, peer, events, sendVars, reqVars, hookVars, taskVars, loopVars>>
      BY <2>3, Zenon DEF ServerReply
    <3>3. inbound' \in Seq(Packet \cup {Garbage}) /\ asked' \in SUBSET Tags
      BY <3>1, <3>2, AppendProperties
    <3>4. UNCHANGED <<pc, peer, events, flagOwner, writerOwner, wire, isDisconnected, pending, chan,
                      answer, serial, crossed, handlers, hasHandler, handler, joinSet, aborted,
                      taken, cb, notified, packet, todo>>
      BY <3>2
    <3> QED BY <3>3, <3>4
  <2>4. ASSUME NEW i \in EventIds \cup {Nobody}, ServerEvent([id |-> i, tag |-> NoTag]) PROVE TypeOK'
    <3>1. [id |-> i, tag |-> NoTag] \in Packet \cup {Garbage}
      BY DEF Packet, Garbage
    <3>2. inbound' = Append(inbound, [id |-> i, tag |-> NoTag]) /\ events' \in 0..MaxEvents
      BY <2>4 DEF ServerEvent
    <3>3. /\ UNCHANGED <<pc, peer, asked, pending, chan, answer, serial, sendVars, hookVars,
                        taskVars, loopVars>>
          /\ crossed' \in SUBSET Ids
      BY <2>4 DEF ServerEvent
    <3>4. inbound' \in Seq(Packet \cup {Garbage})
      BY <3>1, <3>2, AppendProperties
    <3> QED BY <3>2, <3>3, <3>4
  <2>5. CASE PeerClose BY <2>5 DEF PeerClose
  <2> QED BY <1>20, <2>1, <2>2, <2>3, <2>4, <2>5 DEF Environment
<1>21. CASE UNCHANGED vars BY <1>21 DEF vars
<1> QED BY <1>1, <1>2, <1>3, <1>4, <1>5, <1>6, <1>7, <1>8, <1>9, <1>10, <1>11, <1>12, <1>14,
           <1>15, <1>16, <1>17, <1>18, <1>19, <1>20, <1>21
        DEF Next, UserStep, OwnStep, WriteEnd, ReaderStep

\* Every step keeps what ties the locks, the flag, the write half and the
\* disconnect handler to where the tasks are in handle_disconnect_internal.
LEMMA TeardownStep == ASSUME IInv, TypeOK', [Next]_vars PROVE TeardownInv'
<1> USE DEF IInv, TypeOK, Go, Return, UserPCs, ReaderPCs, TeardownPCs,
            sendVars, reqVars, hookVars, taskVars, loopVars, netVars,
            TeardownInv, FlagLock, WriterLock, ShutFirst, OneTeardown, HandlerState, AfterMark
<1>1. ASSUME NEW u \in Users, NEW o \in Ops[u], Call(u, o) PROVE TeardownInv'
  BY <1>1 DEF Call, EntryOf
<1>2. ASSUME NEW u \in Users, ReqCheck(u) PROVE TeardownInv'
  BY <1>2 DEF ReqCheck
<1>3. ASSUME NEW u \in Users, ReqInsert(u) PROVE TeardownInv'
  BY <1>3 DEF ReqInsert
<1>4. ASSUME NEW u \in Users, SendCheck(u) PROVE TeardownInv'
  BY <1>4 DEF SendCheck
<1>5. ASSUME NEW u \in Users, SendLock(u) PROVE TeardownInv'
  <2>1. /\ pc[u] = "write" /\ writerOwner = Nobody /\ writerOwner' = u
        /\ pc' = [pc EXCEPT ![u] = "writing"]
        /\ UNCHANGED <<flagOwner, wire, isDisconnected, hookVars>>
    BY <1>5, Zenon DEF SendLock
  <2> QED BY <2>1
<1>6. ASSUME NEW u \in Users, SendDone(u) PROVE TeardownInv'
  <2>1. /\ pc[u] = "writing" /\ writerOwner' = Nobody
        /\ UNCHANGED <<flagOwner, wire, isDisconnected, hookVars>>
    BY <1>6 DEF SendDone
  <2>2. PICK l \in {"idle", "await"} : pc' = [pc EXCEPT ![u] = l]
    BY <1>6, Zenon DEF SendDone
  <2>3. l \notin TeardownPCs /\ l # "writing"
    BY <2>2
  <2> QED BY <2>1, <2>2, <2>3
<1>7. ASSUME NEW u \in Users, SendFail(u) PROVE TeardownInv'
  BY <1>7 DEF SendFail
<1>8. ASSUME NEW u \in Users, Receive(u) PROVE TeardownInv'
  BY <1>8 DEF Receive
<1>9. ASSUME NEW u \in Users, GiveUp(u) PROVE TeardownInv'
  BY <1>9 DEF GiveUp
<1>10. ASSUME NEW a \in Actors, Teardown(a) PROVE TeardownInv'
  <2>1. CASE DisconnectEnter(a)
    <3>1. CASE isDisconnected
      <4>1. Return(a) /\ flagOwner' = flagOwner
        BY <2>1, <3>1, Zenon DEF DisconnectEnter
      <4> QED BY <2>1, <4>1 DEF DisconnectEnter
    <3>2. CASE ~isDisconnected
      <4>1. Go(a, "dShutdown") /\ flagOwner' = a
        BY <2>1, <3>2, Zenon DEF DisconnectEnter
      <4> QED BY <2>1, <4>1 DEF DisconnectEnter
    <3> QED BY <3>1, <3>2
  <2>2. CASE DisconnectShutdown(a) BY <2>2 DEF DisconnectShutdown
  <2>3. CASE DisconnectMark(a) BY <2>3 DEF DisconnectMark
  <2>4. CASE TakeJoinSet(a) BY <2>4 DEF TakeJoinSet
  <2>5. CASE Join(a) BY <2>5 DEF Join
  <2>6. CASE CallHandler(a)
    <3>1. CASE hasHandler
      <4>1. Go(a, "handling") /\ handler' = "running"
        BY <2>6, <3>1, Zenon DEF CallHandler
      <4> QED BY <2>6, <4>1 DEF CallHandler
    <3>2. CASE ~hasHandler
      <4>1. Return(a) /\ handler' = handler
        BY <2>6, <3>2, Zenon DEF CallHandler
      <4> QED BY <2>6, <4>1 DEF CallHandler
    <3> QED BY <3>1, <3>2
  <2>7. CASE HandlerDone(a) BY <2>7 DEF HandlerDone
  <2> QED BY <1>10, <2>1, <2>2, <2>3, <2>4, <2>5, <2>6, <2>7 DEF Teardown
<1>11. CASE ReaderRead BY <1>11 DEF ReaderRead
<1>12. CASE ReaderError BY <1>12 DEF ReaderError
<1>13. CASE ReaderPanic \/ ReaderStop BY <1>13 DEF ReaderPanic, ReaderStop
<1>14. CASE DispatchResponse BY <1>14 DEF DispatchResponse
<1>15. CASE DispatchEvent BY <1>15 DEF DispatchEvent
<1>16. CASE SpawnCallback BY <1>16 DEF SpawnCallback
<1>17. CASE SpawnEnd BY <1>17 DEF SpawnEnd
<1>18. CASE CancelReader BY <1>18 DEF CancelReader
<1>19. ASSUME NEW c \in Callbacks, CallbackStep(c) PROVE TeardownInv'
  BY <1>19 DEF CallbackStep, CallbackStart, CallbackFinish, CancelCallback
<1>20. CASE Environment
  <2>1. ASSUME NEW i \in EventIds, RegisterEventHandler(i) PROVE TeardownInv'
    BY <2>1 DEF RegisterEventHandler
  <2>2. CASE RegisterDisconnectHandler BY <2>2 DEF RegisterDisconnectHandler
  <2>3. ASSUME NEW r \in asked, ServerReply(r) PROVE TeardownInv'
    BY <2>3 DEF ServerReply
  <2>4. ASSUME NEW i \in EventIds \cup {Nobody}, ServerEvent([id |-> i, tag |-> NoTag])
        PROVE TeardownInv'
    BY <2>4 DEF ServerEvent
  <2>5. CASE PeerClose BY <2>5 DEF PeerClose
  <2> QED BY <1>20, <2>1, <2>2, <2>3, <2>4, <2>5 DEF Environment
<1>21. CASE UNCHANGED vars BY <1>21 DEF vars
<1> QED BY <1>1, <1>2, <1>3, <1>4, <1>5, <1>6, <1>7, <1>8, <1>9, <1>10, <1>11, <1>12, <1>13, <1>14,
           <1>15, <1>16, <1>17, <1>18, <1>19, <1>20, <1>21
        DEF Next, UserStep, OwnStep, WriteEnd, ReaderStep

\* Where an actor is when it has no request: it tears down, or waits for the tasks,
\* or has returned.
Away == {"gone", "idle", "wTake", "wJoin"} \cup TeardownPCs

\* Who goes from such a place to another does not touch what ties requests.
LEMMA AwayMove ==
  ASSUME TypeOK, RequestInv, NEW a \in Actors, pc[a] \in Away, NEW l \in Away, Go(a, l),
         UNCHANGED reqVars, packet' = packet
  PROVE  RequestInv'
<1>1. pc' = [pc EXCEPT ![a] = l] /\ UNCHANGED <<chan, serial, packet>>
  BY Zenon DEF Go, reqVars
<1>2. pc \in [Actors -> UserPCs \cup ReaderPCs]
  BY DEF TypeOK
<1>3. pc'[a] = l /\ \A b \in Actors : b # a => pc'[b] = pc[b]
  BY <1>1, <1>2
<1>4. \A m \in Away : m \notin {"check", "write", "writing", "await", "reqCheck", "reqInsert",
                                "dispatch", "spawn"}
  BY DEF Away, TeardownPCs
<1>5. ASSUME NEW b \in Actors
      PROVE  pc'[b] = pc[b] \/ (pc[b] \in Away /\ pc'[b] \in Away)
  BY <1>3, Zenon
<1>6. Users \subseteq Actors /\ Reader \in Actors
  BY DEF Actors
<1>7. ChanInCall'
  BY <1>1, <1>4, <1>5, <1>6 DEF RequestInv, ChanInCall
<1>8. CallSerial'
  BY <1>1, <1>4, <1>5, <1>6 DEF RequestInv, CallSerial
<1>9. DispatchParsed'
  BY <1>1, <1>4, <1>5, <1>6 DEF RequestInv, DispatchParsed
<1> QED BY <1>7, <1>8, <1>9, Zenon DEF RequestInv

\* Where a call begins.
LEMMA EntryPlace ==
  ASSUME NEW u \in Users, NEW o \in Ops[u]
  PROVE  EntryOf[o] \in {"check", "reqCheck", "dEnter", "wTake"}
BY DEF EntryOf

\* Every step keeps what ties channels, serial numbers and the dispatched
\* packet to where the callers and the read loop are.
LEMMA RequestStep == ASSUME IInv, TypeOK', [Next]_vars PROVE RequestInv'
<1> USE DEF IInv, TypeOK, Go, Return, UserPCs, ReaderPCs, TeardownPCs,
            sendVars, reqVars, hookVars, taskVars, loopVars, netVars,
            RequestInv, ChanInCall, CallSerial, DispatchParsed
<1>1. ASSUME NEW u \in Users, NEW o \in Ops[u], Call(u, o) PROVE RequestInv'
  <2>1. PICK l \in {"check", "reqCheck", "dEnter", "wTake"} :
            /\ pc[u] = "idle" /\ pc' = [pc EXCEPT ![u] = l]
            /\ UNCHANGED <<chan, serial, packet>>
    <3>1. EntryOf[o] \in {"check", "reqCheck", "dEnter", "wTake"}
      BY EntryPlace, Zenon
    <3>2. pc[u] = "idle" /\ pc' = [pc EXCEPT ![u] = EntryOf[o]] /\ UNCHANGED <<chan, serial, packet>>
      BY <1>1, Zenon DEF Call
    <3> QED BY <3>1, <3>2
  <2>2. chan[u] = "none"
    BY <2>1
  <2>3. u # Reader /\ pc'[Reader] = pc[Reader]
    BY <2>1
  <2> QED BY <2>1, <2>2, <2>3
<1>2. ASSUME NEW u \in Users, ReqCheck(u) PROVE RequestInv'
  BY <1>2 DEF ReqCheck
<1>3. ASSUME NEW u \in Users, ReqInsert(u) PROVE RequestInv'
  BY <1>3 DEF ReqInsert
<1>4. ASSUME NEW u \in Users, SendCheck(u) PROVE RequestInv'
  BY <1>4 DEF SendCheck
<1>5. ASSUME NEW u \in Users, SendLock(u) PROVE RequestInv'
  BY <1>5 DEF SendLock
<1>6. ASSUME NEW u \in Users, SendDone(u) PROVE RequestInv'
  <2>1. CASE chan[u] = "none"
    <3>1. pc' = [pc EXCEPT ![u] = "idle"]
      BY <1>6, <2>1 DEF SendDone
    <3> QED BY <1>6, <2>1, <3>1 DEF SendDone
  <2>2. CASE chan[u] # "none"
    <3>1. pc' = [pc EXCEPT ![u] = "await"]
      BY <1>6, <2>2 DEF SendDone
    <3> QED BY <1>6, <2>2, <3>1 DEF SendDone
  <2> QED BY <2>1, <2>2
<1>7. ASSUME NEW u \in Users, SendFail(u) PROVE RequestInv'
  BY <1>7 DEF SendFail
<1>8. ASSUME NEW u \in Users, Receive(u) PROVE RequestInv'
  BY <1>8 DEF Receive
<1>9. ASSUME NEW u \in Users, GiveUp(u) PROVE RequestInv'
  BY <1>9 DEF GiveUp
<1>10. ASSUME NEW a \in Actors, Teardown(a) PROVE RequestInv'
  <2> HIDE DEF IInv, TypeOK, RequestInv, Go, Return, reqVars, loopVars, Away
  <2>1. TypeOK /\ RequestInv
    BY Zenon DEF IInv
  <2>2. pc[a] \in Away /\ UNCHANGED reqVars /\ packet' = packet
    <3>1. /\ \/ pc[a] = "dEnter" \/ pc[a] = "dShutdown" \/ pc[a] = "dMark" \/ pc[a] \in {"take", "wTake"}
             \/ pc[a] \in {"join", "wJoin"} \/ pc[a] = "handler" \/ pc[a] = "handling"
          /\ UNCHANGED reqVars /\ packet' = packet
      BY <1>10, Zenon DEF Teardown, DisconnectEnter, DisconnectShutdown, DisconnectMark, TakeJoinSet,
                          Join, CallHandler, HandlerDone, loopVars
    <3> QED BY <3>1 DEF Away
  <2>3. \E l \in Away : Go(a, l)
    <3>1. \A l \in {"gone", "idle", "dShutdown", "dMark", "take", "join", "wJoin", "handler", "handling"} :
            l \in Away
      BY DEF Away
    <3>2. Return(a) => Go(a, "gone") \/ Go(a, "idle")
      BY Zenon DEF Return
    <3>3. \/ Return(a) \/ Go(a, "dShutdown") \/ Go(a, "dMark") \/ Go(a, "take") \/ Go(a, "join")
          \/ Go(a, "wJoin") \/ Go(a, "handler") \/ Go(a, "idle") \/ Go(a, "handling")
      BY <1>10, Zenon DEF Teardown, DisconnectEnter, DisconnectShutdown, DisconnectMark, TakeJoinSet,
                          Join, CallHandler, HandlerDone
    <3> QED BY <3>1, <3>2, <3>3, Zenon
  <2> QED BY <2>1, <2>2, <2>3, AwayMove, Zenon
<1>11. CASE ReaderRead BY <1>11 DEF ReaderRead
<1>12. CASE ReaderError BY <1>12 DEF ReaderError
<1>13. CASE ReaderPanic \/ ReaderStop
  <2>1. Go(Reader, "gone") /\ UNCHANGED <<packet, todo, reqVars>>
    BY <1>13, Zenon DEF ReaderPanic, ReaderStop
  <2> QED BY <2>1
<1>14. CASE DispatchResponse BY <1>14 DEF DispatchResponse
<1>15. CASE DispatchEvent BY <1>15 DEF DispatchEvent
<1>16. CASE SpawnCallback BY <1>16 DEF SpawnCallback
<1>17. CASE SpawnEnd BY <1>17 DEF SpawnEnd
<1>18. CASE CancelReader BY <1>18 DEF CancelReader
<1>19. ASSUME NEW c \in Callbacks, CallbackStep(c) PROVE RequestInv'
  BY <1>19 DEF CallbackStep, CallbackStart, CallbackFinish, CancelCallback
<1>20. CASE Environment
  <2>1. ASSUME NEW i \in EventIds, RegisterEventHandler(i) PROVE RequestInv'
    BY <2>1 DEF RegisterEventHandler
  <2>2. CASE RegisterDisconnectHandler BY <2>2 DEF RegisterDisconnectHandler
  <2>3. ASSUME NEW r \in asked, ServerReply(r) PROVE RequestInv'
    BY <2>3 DEF ServerReply
  <2>4. ASSUME NEW i \in EventIds \cup {Nobody}, ServerEvent([id |-> i, tag |-> NoTag])
        PROVE RequestInv'
    BY <2>4 DEF ServerEvent
  <2>5. CASE PeerClose BY <2>5 DEF PeerClose
  <2> QED BY <1>20, <2>1, <2>2, <2>3, <2>4, <2>5 DEF Environment
<1>21. CASE UNCHANGED vars BY <1>21 DEF vars
<1> QED BY <1>1, <1>2, <1>3, <1>4, <1>5, <1>6, <1>7, <1>8, <1>9, <1>10, <1>11, <1>12, <1>13, <1>14,
           <1>15, <1>16, <1>17, <1>18, <1>19, <1>20, <1>21
        DEF Next, UserStep, OwnStep, WriteEnd, ReaderStep


\* A step keeps the inductive invariant.
LEMMA IInvStep == IInv /\ [Next]_vars => IInv'
<1> SUFFICES ASSUME IInv, [Next]_vars PROVE IInv'
  OBVIOUS
<1>1. TypeOK'
  BY TypeStep
<1>2. TeardownInv'
  BY <1>1, TeardownStep
<1>3. RequestInv'
  BY <1>1, RequestStep
<1> QED BY <1>1, <1>2, <1>3 DEF IInv

\* Every reachable state satisfies the inductive invariant, whatever the number
\* of callers and callbacks, and whichever packets arrive.
THEOREM Invariance == Spec => []IInv
  BY InitIInv, IInvStep, PTL DEF Spec

\* Every variable keeps its type.
THEOREM TypeCorrect == Spec => []TypeOK
<1>1. IInv => TypeOK
  BY DEF IInv
<1> QED BY <1>1, Invariance, PTL

\* The task that tears the session down calls the disconnect handler, and no
\* task calls it a second time.
THEOREM HandlerAtMostOnce == Spec => HandlerOnce
<1>1. IInv /\ [Next]_vars =>
        [handler' = "running" /\ handler # "running" => handler = "never"]_handler
  <2> SUFFICES ASSUME IInv, [Next]_vars, handler' = "running", handler # "running"
               PROVE handler = "never"
    OBVIOUS
  <2>1. PICK a \in Actors : CallHandler(a)
    BY DEF Next, UserStep, OwnStep, WriteEnd, ReaderStep, Teardown, CallbackStep, Environment, vars, hookVars,
           Call, ReqCheck, ReqInsert, SendCheck, SendLock, SendDone, SendFail, Receive, GiveUp,
           DisconnectEnter, DisconnectShutdown, DisconnectMark, TakeJoinSet, Join, HandlerDone,
           ReaderRead, ReaderError, ReaderPanic, ReaderStop, DispatchResponse, DispatchEvent, SpawnCallback,
           SpawnEnd, CallbackStart, CallbackFinish, CancelCallback, CancelReader,
           RegisterEventHandler, RegisterDisconnectHandler, ServerReply, ServerEvent, PeerClose
  <2> QED BY <2>1 DEF CallHandler, IInv, TeardownInv, HandlerState
<1> QED BY <1>1, Invariance, PTL DEF Spec, HandlerOnce

\* A failed or disconnecting call returns when the session is over.
THEOREM FailureIsFinal == Spec => FailureEndsSession
<1> DEFINE Returns == \A u \in Users : pc[u] \in TeardownPCs /\ pc'[u] = "idle" => isDisconnected
<1>1. IInv /\ [Next]_vars => [Returns]_vars
  <2> SUFFICES ASSUME IInv, [Next]_vars,
                      NEW u \in Users, pc[u] \in TeardownPCs, pc'[u] = "idle"
               PROVE isDisconnected
    OBVIOUS
  <2>1. \/ DisconnectEnter(u) /\ isDisconnected
        \/ CallHandler(u)
        \/ HandlerDone(u)
    <3> USE DEF IInv, TypeOK, TeardownPCs, Go, Return, vars
    <3>1. ASSUME NEW v \in Users, NEW o \in Ops[v], Call(v, o) PROVE FALSE
      BY <3>1 DEF Call, EntryOf
    <3>2. ASSUME NEW v \in Users, UserStep(v), ~Teardown(v) PROVE FALSE
      BY <3>2 DEF UserStep, OwnStep, WriteEnd, ReqCheck, ReqInsert, SendCheck, SendLock, SendDone, SendFail,
                  Receive, GiveUp
    <3>3. ASSUME NEW a \in Actors, Teardown(a)
          PROVE a = u /\ (DisconnectEnter(u) \/ CallHandler(u) \/ HandlerDone(u))
      BY <3>3 DEF Teardown, DisconnectEnter, DisconnectShutdown, DisconnectMark, TakeJoinSet,
                  Join, CallHandler, HandlerDone
    <3>4. ASSUME ReaderStep, ~Teardown(Reader) PROVE FALSE
      BY <3>4 DEF ReaderStep, ReaderRead, ReaderError, ReaderPanic, ReaderStop, DispatchResponse,
                  DispatchEvent, SpawnCallback, SpawnEnd, CancelReader
    <3>5. ASSUME (\E c \in Callbacks : CallbackStep(c)) \/ Environment PROVE FALSE
      BY <3>5 DEF CallbackStep, CallbackStart, CallbackFinish, CancelCallback, Environment,
                  RegisterEventHandler, RegisterDisconnectHandler, ServerReply, ServerEvent,
                  PeerClose
    <3>6. ASSUME DisconnectEnter(u), ~isDisconnected PROVE FALSE
      BY <3>6 DEF DisconnectEnter
    <3> QED BY <3>1, <3>2, <3>3, <3>4, <3>5, <3>6 DEF Next, UserStep
  <2> QED BY <2>1 DEF CallHandler, HandlerDone, IInv, TeardownInv, OneTeardown, AfterMark
<1> QED BY <1>1, Invariance, PTL DEF Spec, FailureEndsSession

\* What a step does to requests: it touches the stored senders and the channels
\* in one of the six actions that are meant to, or not at all.
LEMMA RequestCases ==
  ASSUME [Next]_vars
  PROVE  \/ \E u \in Users : \/ ReqInsert(u) \/ SendCheck(u) \/ SendFail(u)
                             \/ Receive(u) \/ GiveUp(u)
         \/ DispatchResponse
         \/ UNCHANGED <<pending, chan, answer, serial>>
  BY Zenon DEF Next, UserStep, OwnStep, WriteEnd, ReaderStep, Teardown, CallbackStep, Environment,
         vars, reqVars, Call, ReqCheck, SendLock, SendDone,
         DisconnectEnter, DisconnectShutdown, DisconnectMark, TakeJoinSet, Join, CallHandler,
         HandlerDone, ReaderRead, ReaderError, ReaderPanic, ReaderStop, DispatchEvent, SpawnCallback,
         SpawnEnd, CallbackStart, CallbackFinish, CancelCallback, CancelReader,
         RegisterEventHandler, RegisterDisconnectHandler, ServerReply, ServerEvent, PeerClose

-----------------------------------------------------------------------------
(* Ending the read loop *)

\* Tasks are taken out of the JoinSet to be joined.  The read loop is in it, or
\* taken out by an actor that joins it, or has ended or is told to; and it is
\* not in it any more once somebody joins or the handler has been called.
TakenToJoin == \A a \in Actors : taken[a] # {} => pc[a] \in {"join", "wJoin"}
ReaderToEnd == Reader \in aborted \/ pc[Reader] = "gone"
ReaderTaken == \E a \in Actors : Reader \in taken[a]
Joining     == \E a \in Actors : pc[a] \in {"join", "wJoin", "handler", "handling"}
JoinedOut   == handler # "never" \/ Joining => Reader \notin joinSet
StopInv     == TakenToJoin /\ (ReaderToEnd \/ Reader \in joinSet \/ ReaderTaken) /\ JoinedOut

\* The places of an actor that does not join and has not joined.
Elsewhere == {"idle", "reqCheck", "reqInsert", "check", "write", "writing", "await",
              "select", "dispatch", "spawn", "dEnter", "dShutdown", "dMark", "take", "wTake"}

\* A step of an actor that is outside the joining and stays outside keeps it.
LEMMA StopFrame ==
  ASSUME IInv, StopInv, NEW a \in Actors, pc[a] \in Elsewhere,
         NEW l \in Elsewhere \cup {"gone"}, pc' = [pc EXCEPT ![a] = l],
         UNCHANGED <<joinSet, taken, aborted, handler>>
  PROVE  StopInv'
<1>1. \A b \in Actors : pc'[b] = IF b = a THEN l ELSE pc[b]
  BY DEF IInv, TypeOK
<1>2. /\ \A b \in Actors : \A k \in {"join", "wJoin", "handler", "handling"} : pc'[b] = k <=> pc[b] = k
      /\ pc[Reader] = "gone" => pc'[Reader] = "gone"
  BY <1>1 DEF Elsewhere
<1> USE DEF StopInv
<1>3. TakenToJoin'
  BY <1>2 DEF TakenToJoin
<1>4. ReaderToEnd => ReaderToEnd'
  BY <1>2 DEF ReaderToEnd
<1>5. ReaderTaken => ReaderTaken'
  BY DEF ReaderTaken
<1>6. JoinedOut'
  BY <1>2 DEF JoinedOut, Joining
<1> QED BY <1>3, <1>4, <1>5, <1>6

\* A step that leaves actors and tasks alone keeps it.
LEMMA StopSame ==
  ASSUME StopInv, UNCHANGED <<pc, joinSet, taken, aborted, handler>>
  PROVE  StopInv'
  BY DEF StopInv, TakenToJoin, ReaderToEnd, ReaderTaken, JoinedOut, Joining

\* A session starts with the read loop in its JoinSet.
LEMMA InitStop == Init => StopInv
<1> SUFFICES ASSUME Init PROVE StopInv
  OBVIOUS
<1>1. \A a \in Actors : pc[a] \in {"select", "idle"} /\ taken[a] = {}
  BY DEF Init
<1>2. handler = "never" /\ Reader \in joinSet
  BY DEF Init
<1>3. \A a \in Actors : pc[a] \notin {"join", "wJoin", "handler", "handling"}
  BY <1>1
<1> QED BY <1>1, <1>2, <1>3, Zenon DEF StopInv, TakenToJoin, JoinedOut, Joining

\* Every step keeps it.
LEMMA StopStep == ASSUME IInv, StopInv, [Next]_vars PROVE StopInv'
<1> USE DEF Go, sendVars, reqVars, hookVars, taskVars, loopVars, netVars
<1>0. /\ pc \in [Actors -> UserPCs \cup ReaderPCs] /\ pc[Reader] \in ReaderPCs
      /\ taken \in [Actors -> SUBSET Tasks]
  BY DEF IInv, TypeOK
<1>1. ASSUME NEW u \in Users, NEW o \in Ops[u], Call(u, o) PROVE StopInv'
  <2>1. /\ pc[u] = "idle" /\ pc' = [pc EXCEPT ![u] = EntryOf[o]] /\ u \in Actors
        /\ EntryOf[o] \in {"check", "reqCheck", "dEnter", "wTake"}
        /\ UNCHANGED <<joinSet, taken, aborted, handler>>
    BY <1>1 DEF Call, EntryOf
  <2>2. pc[u] \in Elsewhere /\ EntryOf[o] \in Elsewhere
    BY <2>1 DEF Elsewhere
  <2> QED BY <2>1, <2>2, StopFrame, Zenon
<1>2. ASSUME NEW u \in Users,
             ReqCheck(u) \/ ReqInsert(u) \/ SendCheck(u) \/ SendLock(u) \/ SendDone(u)
               \/ SendFail(u) \/ Receive(u) \/ GiveUp(u)
      PROVE  StopInv'
  <2>1. UNCHANGED <<joinSet, taken, aborted, handler>>
    BY <1>2, Zenon DEF ReqCheck, ReqInsert, SendCheck, SendLock, SendDone, SendFail, Receive, GiveUp
  <2>2. pc[u] \in {"reqCheck", "reqInsert", "check", "write", "writing", "await"}
    BY <1>2, Zenon DEF ReqCheck, ReqInsert, SendCheck, SendLock, SendDone, SendFail, Receive, GiveUp
  <2>3. PICK l \in {"idle", "reqInsert", "check", "write", "writing", "await", "dEnter"} :
          pc' = [pc EXCEPT ![u] = l]
    BY <1>2, Zenon DEF ReqCheck, ReqInsert, SendCheck, SendLock, SendDone, SendFail, Receive, GiveUp
  <2>4. pc[u] \in Elsewhere /\ l \in Elsewhere /\ u \in Actors
    BY <2>2, Zenon DEF Elsewhere
  <2> QED BY <2>1, <2>3, <2>4, StopFrame, Zenon
<1>3. ASSUME NEW a \in Actors, Teardown(a) PROVE StopInv'
  <2>1. CASE DisconnectEnter(a) \/ DisconnectShutdown(a) \/ DisconnectMark(a)
    <3>1. /\ pc[a] \in {"dEnter", "dShutdown", "dMark"}
          /\ UNCHANGED <<joinSet, taken, aborted, handler>>
      BY <2>1, Zenon DEF DisconnectEnter, DisconnectShutdown, DisconnectMark
    <3>2. PICK l \in {"gone", "idle", "dShutdown", "dMark", "take"} : pc' = [pc EXCEPT ![a] = l]
      BY <2>1, Zenon DEF DisconnectEnter, DisconnectShutdown, DisconnectMark, Return
    <3>3. pc[a] \in Elsewhere /\ l \in Elsewhere \cup {"gone"}
      BY <3>1, Zenon DEF Elsewhere
    <3> QED BY <3>1, <3>2, <3>3, StopFrame, Zenon
  <2>2. CASE TakeJoinSet(a)
    <3>1. /\ pc[a] \in {"take", "wTake"}
          /\ taken' = [taken EXCEPT ![a] = joinSet] /\ joinSet' = {}
          /\ UNCHANGED <<aborted, handler>>
      BY <2>2 DEF TakeJoinSet
    <3>2. PICK l \in {"join", "wJoin"} : pc' = [pc EXCEPT ![a] = l]
      BY <2>2, Zenon DEF TakeJoinSet
    <3>3. taken[a] = {}
      BY <3>1 DEF StopInv, TakenToJoin
    <3>4. TakenToJoin'
      BY <1>0, <3>1, <3>2 DEF StopInv, TakenToJoin
    <3>5. ReaderToEnd => ReaderToEnd'
      BY <1>0, <3>1, <3>2 DEF ReaderToEnd
    <3>6. Reader \in joinSet \/ ReaderTaken => ReaderTaken'
      BY <1>0, <3>1, <3>3 DEF ReaderTaken
    <3>7. JoinedOut'
      BY <3>1 DEF JoinedOut
    <3> QED BY <3>4, <3>5, <3>6, <3>7 DEF StopInv
  <2>3. CASE Join(a)
    <3>1. /\ pc[a] \in {"join", "wJoin"}
          /\ taken' = [taken EXCEPT ![a] = {}]
          /\ aborted' = aborted \cup {t \in taken[a] : Alive(t)}
          /\ UNCHANGED <<joinSet, handler>>
      BY <2>3 DEF Join
    <3>2. PICK l \in {"handler", "idle"} : pc' = [pc EXCEPT ![a] = l]
      BY <2>3, Zenon DEF Join
    <3>3. TakenToJoin'
      BY <1>0, <3>1, <3>2 DEF StopInv, TakenToJoin
    <3>4. ReaderToEnd => ReaderToEnd'
      BY <1>0, <3>1, <3>2 DEF ReaderToEnd
    <3>5. ReaderTaken => ReaderTaken' \/ ReaderToEnd'
      <4>1. SUFFICES ASSUME NEW b \in Actors, Reader \in taken[b] PROVE ReaderTaken' \/ ReaderToEnd'
        BY DEF ReaderTaken
      <4>2. CASE b # a
        <5>1. taken'[b] = taken[b]
          BY <1>0, <3>1, <4>2
        <5> QED BY <4>1, <5>1 DEF ReaderTaken
      <4>3. CASE b = a
        <5>1. pc[Reader] = "gone" => pc'[Reader] = "gone"
          BY <1>0, <3>1, <3>2
        <5> QED BY <3>1, <4>1, <4>3, <5>1, Zenon DEF ReaderToEnd, Alive
      <4> QED BY <4>2, <4>3
    <3>6. Reader \notin joinSet
      BY <3>1, Zenon DEF StopInv, JoinedOut, Joining
    <3>7. JoinedOut'
      BY <3>1, <3>6 DEF JoinedOut
    <3> QED BY <3>3, <3>4, <3>5, <3>6, <3>7 DEF StopInv
  <2>4. CASE CallHandler(a) \/ HandlerDone(a)
    <3>1. pc[a] \in {"handler", "handling"} /\ UNCHANGED <<joinSet, taken, aborted>>
      BY <2>4, Zenon DEF CallHandler, HandlerDone
    <3>2. PICK l \in {"gone", "idle", "handling"} : pc' = [pc EXCEPT ![a] = l]
      BY <2>4, Zenon DEF CallHandler, HandlerDone, Return
    <3>3. TakenToJoin'
      BY <1>0, <3>1, <3>2 DEF StopInv, TakenToJoin
    <3>4. ReaderToEnd => ReaderToEnd'
      BY <1>0, <3>1, <3>2 DEF ReaderToEnd
    <3>5. ReaderTaken => ReaderTaken'
      BY <3>1 DEF ReaderTaken
    <3>6. Reader \notin joinSet
      BY <3>1, Zenon DEF StopInv, JoinedOut, Joining
    <3>7. JoinedOut'
      BY <3>1, <3>6 DEF JoinedOut
    <3> QED BY <3>3, <3>4, <3>5, <3>6, <3>7 DEF StopInv
  <2> QED BY <1>3, <2>1, <2>2, <2>3, <2>4, Zenon DEF Teardown
<1>4. CASE ReaderRead \/ ReaderError \/ ReaderPanic \/ ReaderStop \/ DispatchResponse
             \/ DispatchEvent \/ SpawnEnd
  <2>1. /\ pc[Reader] \in {"select", "dispatch", "spawn"}
        /\ UNCHANGED <<joinSet, taken, aborted, handler>>
    BY <1>4, Zenon DEF ReaderRead, ReaderError, ReaderPanic, ReaderStop, DispatchResponse,
                       DispatchEvent, SpawnEnd
  <2>2. PICK l \in {"dispatch", "dEnter", "gone", "select", "spawn"} :
          pc' = [pc EXCEPT ![Reader] = l]
    BY <1>4, Zenon DEF ReaderRead, ReaderError, ReaderPanic, ReaderStop, DispatchResponse,
                       DispatchEvent, SpawnEnd
  <2>3. pc[Reader] \in Elsewhere /\ l \in Elsewhere \cup {"gone"} /\ Reader \in Actors
    BY <2>1, Zenon DEF Elsewhere
  <2> QED BY <2>1, <2>2, <2>3, StopFrame, Zenon
<1>5. CASE SpawnCallback
  <2>1. UNCHANGED <<pc, taken, aborted, handler>> /\ \E c \in Callbacks : joinSet' = joinSet \cup {c}
    BY <1>5 DEF SpawnCallback
  <2>2. Reader \in joinSet' <=> Reader \in joinSet
    BY <2>1
  <2> QED BY <2>1, <2>2 DEF StopInv, TakenToJoin, ReaderToEnd, ReaderTaken, JoinedOut, Joining
<1>6. CASE CancelReader
  <2>1. /\ Reader \in aborted /\ aborted' = aborted \cup taken[Reader] /\ joinSet' = joinSet
        /\ taken' = [taken EXCEPT ![Reader] = {}] /\ pc' = [pc EXCEPT ![Reader] = "gone"]
        /\ handler' = handler \/ (pc[Reader] = "handling" /\ handler' = "cut")
    BY <1>6, Zenon DEF CancelReader
  <2>2. TakenToJoin'
    BY <1>0, <2>1 DEF StopInv, TakenToJoin
  <2>3. ReaderToEnd'
    BY <2>1 DEF ReaderToEnd
  <2>4. Joining' => Joining
    BY <1>0, <2>1 DEF Joining
  <2>5. JoinedOut'
    <3>1. handler' # "never" \/ Joining' => handler # "never" \/ Joining
      BY <2>1, <2>4 DEF Joining
    <3> QED BY <2>1, <3>1 DEF StopInv, JoinedOut
  <2> QED BY <2>2, <2>3, <2>5 DEF StopInv
<1>7. ASSUME (\E c \in Callbacks : CallbackStep(c)) \/ Environment \/ UNCHANGED vars
      PROVE  StopInv'
  <2>1. UNCHANGED <<pc, joinSet, taken, aborted, handler>>
    BY <1>7, Zenon DEF CallbackStep, CallbackStart, CallbackFinish, CancelCallback,
       Environment, RegisterEventHandler, RegisterDisconnectHandler, ServerReply, ServerEvent,
       PeerClose, vars
  <2> QED BY <2>1, StopSame
<1>8. ASSUME NEW u \in Users, UserStep(u) PROVE StopInv'
  BY <1>2, <1>3, <1>8, Zenon DEF UserStep, OwnStep, WriteEnd, Actors
<1>9. CASE ReaderStep
  BY <1>3, <1>4, <1>5, <1>6, <1>9, Zenon DEF ReaderStep, Actors
<1> QED BY <1>1, <1>7, <1>8, <1>9, Zenon DEF Next

\* The read loop is always in somebody's hands, until it has ended or is told to.
THEOREM StopInvariance == Spec => []StopInv
<1>1. IInv /\ StopInv /\ [Next]_vars => StopInv'
  BY StopStep
<1> QED BY <1>1, InitStop, Invariance, PTL DEF Spec

\* The next session is opened when this one's read loop has ended or is told to,
\* unless a call of wait_for_tasks still waits for it.
THEOREM ReaderStoppedFirst == Spec => []OldReaderStopped
<1>1. IInv /\ StopInv => OldReaderStopped
  <2> SUFFICES ASSUME IInv, StopInv, handler # "never", ~ReaderToEnd
               PROVE  \E u \in Users : pc[u] = "wJoin" /\ Reader \in taken[u]
    BY DEF OldReaderStopped, ReaderToEnd
  <2>1. PICK a \in Actors : Reader \in taken[a]
    BY DEF StopInv, JoinedOut, ReaderTaken
  <2>2. pc[a] \in {"join", "wJoin"} /\ pc[a] # "join"
    BY <2>1 DEF StopInv, TakenToJoin, IInv, TeardownInv, HandlerState
  <2>3. a \in Users
    BY <2>2 DEF IInv, TypeOK, ReaderPCs, TeardownPCs
  <2> QED BY <2>1, <2>2, <2>3
<1> QED BY <1>1, StopInvariance, Invariance, PTL

\* A call of wait_for_tasks returns by joining.
LEMMA WaiterJoins ==
  ASSUME IInv, [Next]_vars, NEW u \in Users, pc[u] = "wJoin", pc'[u] # "wJoin"
  PROVE  Join(u)
<1> USE DEF Go, Return
<1>0. pc \in [Actors -> UserPCs \cup ReaderPCs] /\ u \in Actors /\ u # Reader
  BY DEF IInv, TypeOK
<1>1. ASSUME NEW a \in Actors, a # u, NEW l, pc' = [pc EXCEPT ![a] = l] PROVE FALSE
  BY <1>0, <1>1
<1>2. ASSUME NEW v \in Users, (\E o \in Ops[v] : Call(v, o)) \/ UserStep(v)
      PROVE  Join(u)
  <2>1. CASE v = u
    <3>1. pc[v] # "idle" /\ pc[v] \notin {"reqCheck", "reqInsert", "check", "write", "writing",
             "await", "dEnter", "dShutdown", "dMark", "take", "wTake", "handler", "handling"}
      BY <2>1
    <3> QED BY <1>2, <2>1, <3>1, Zenon DEF UserStep, OwnStep, WriteEnd, Call, ReqCheck, ReqInsert,
       SendCheck, SendLock, SendDone, SendFail, Receive, GiveUp, Teardown, DisconnectEnter,
       DisconnectShutdown, DisconnectMark, TakeJoinSet, CallHandler, HandlerDone
  <2>2. CASE v # u
    <3>1. \E l : pc' = [pc EXCEPT ![v] = l]
      BY <1>2, Zenon DEF UserStep, OwnStep, WriteEnd, Call, ReqCheck, ReqInsert, SendCheck, SendLock,
         SendDone, SendFail, Receive, GiveUp, Teardown, DisconnectEnter, DisconnectShutdown,
         DisconnectMark, TakeJoinSet, Join, CallHandler, HandlerDone
    <3>2. v \in Actors
      OBVIOUS
    <3> QED BY <1>1, <2>2, <3>1, <3>2, Zenon
  <2> QED BY <2>1, <2>2
<1>3. ASSUME ReaderStep PROVE FALSE
  <2>1. pc' = pc \/ \E l : pc' = [pc EXCEPT ![Reader] = l]
    BY <1>3, Zenon DEF ReaderStep, ReaderRead, ReaderError, ReaderPanic, ReaderStop,
       DispatchResponse, DispatchEvent, SpawnCallback, SpawnEnd, CancelReader, Teardown,
       DisconnectEnter, DisconnectShutdown, DisconnectMark, TakeJoinSet, Join, CallHandler,
       HandlerDone
  <2>2. Reader \in Actors
    OBVIOUS
  <2> QED BY <1>0, <1>1, <2>1, <2>2, Zenon
<1>4. ASSUME (\E c \in Callbacks : CallbackStep(c)) \/ Environment \/ UNCHANGED vars PROVE FALSE
  BY <1>4, Zenon DEF CallbackStep, CallbackStart, CallbackFinish, CancelCallback,
     Environment, RegisterEventHandler, RegisterDisconnectHandler, ServerReply, ServerEvent,
     PeerClose, vars
<1> QED BY <1>2, <1>3, <1>4, Zenon DEF Next

\* A call of wait_for_tasks ends the read loop or leaves it to another that does.
THEOREM WaitingEndsReader == Spec => WaitEndsReader
<1> DEFINE Ends == \A u \in Users : pc[u] = "wJoin" /\ pc'[u] = "idle" =>
                      \/ pc'[Reader] = "gone" \/ Reader \in aborted'
                      \/ \E a \in Actors \ {u} : Reader \in taken'[a]
<1>1. IInv /\ StopInv /\ [Next]_vars => [Ends]_vars
  <2> SUFFICES ASSUME IInv, StopInv, [Next]_vars, NEW u \in Users, pc[u] = "wJoin", pc'[u] = "idle"
               PROVE  \/ pc'[Reader] = "gone" \/ Reader \in aborted'
                      \/ \E a \in Actors \ {u} : Reader \in taken'[a]
    OBVIOUS
  <2>1. StopInv'
    BY StopStep
  <2>2. Join(u)
    BY WaiterJoins
  <2>3. Reader \notin joinSet'
    BY <2>2, Zenon DEF StopInv, JoinedOut, Joining, Join, Actors
  <2>4. ReaderToEnd' \/ ReaderTaken'
    BY <2>1, <2>3 DEF StopInv
  <2>5. taken'[u] = {}
    BY <2>2 DEF Join, IInv, TypeOK
  <2> QED BY <2>4, <2>5 DEF ReaderToEnd, ReaderTaken
<1> QED BY <1>1, StopInvariance, Invariance, PTL DEF Spec, WaitEndsReader

-----------------------------------------------------------------------------
(* Answers *)

\* The answer to r is still to come: r is its user's last request, and the user
\* waits for it, or has given up and ends the session, or has ended it.
Awaited(r) ==
  /\ r[2] = serial[r[1]] /\ chan[r[1]] # "full"
  /\ \/ pc[r[1]] = "await" \/ pc[r[1]] \in TeardownPCs
     \/ /\ isDisconnected /\ chan[r[1]] = "none"
        /\ pc[r[1]] \in {"idle", "reqCheck", "check", "wTake", "wJoin"}

\* And it is the user whose sender is stored.
Due(r) == Awaited(r) /\ pending[ReqId[r[1]]] = r[1]

\* A request whose id nobody else has asked for and that has not come unasked.
Plain(t) == t \in Tags /\ ReqId[t[1]] \notin crossed

\* A packet on its way came unasked or answers a request, which is due if it is plain.
Expected(p) ==
  \/ p.tag = NoTag /\ p.id \in crossed \cup {Nobody}
  \/ p.tag \in Tags /\ p.id = ReqId[p.tag[1]] /\ (Plain(p.tag) => Due(p.tag))

\* Which of the packets the read loop has read it is about to dispatch.
Dispatching == pc[Reader] = "dispatch"

\* A sender is stored under its user's id, as long as the channel is open; it is
\* dropped only where requests have met.
StoredById == \A i \in Ids : pending[i] # Nobody => ReqId[pending[i]] = i
OpenStored ==
  \A u \in Users : /\ chan[u] = "open" => pending[ReqId[u]] = u
                   /\ chan[u] = "dropped" => ReqId[u] \in crossed

\* Nothing unexpected is on its way.
AllExpected ==
  /\ \A r \in asked : Plain(r) => Due(r)
  /\ \A i \in 1..Len(inbound) : Expected(inbound[i])
  /\ Dispatching => Expected(packet)

\* A request is answered once: it is with the server, or one packet answers it.
AnsweredOnce ==
  /\ \A i, j \in 1..Len(inbound) :
       Plain(inbound[i].tag) /\ inbound[i].tag = inbound[j].tag => i = j
  /\ \A i \in 1..Len(inbound) : Plain(inbound[i].tag) => inbound[i].tag \notin asked
  /\ Dispatching /\ Plain(packet.tag) =>
       /\ packet.tag \notin asked
       /\ \A i \in 1..Len(inbound) : inbound[i].tag # packet.tag

\* A channel is filled only while its user waits.
FullAwaits == \A u \in Users : chan[u] = "full" => pc[u] = "await" \/ ReqId[u] \in crossed

\* The strengthening of AnswerIsOwn that steps keep.
AnswerInv ==
  StoredById /\ OpenStored /\ AllExpected /\ AnsweredOnce /\ FullAwaits /\ AnswerIsOwn

\* At first nothing is asked, stored or on its way.
LEMMA InitAnswer == Init => AnswerInv
<1> SUFFICES ASSUME Init PROVE AnswerInv
  OBVIOUS
<1>1. /\ \A i \in Ids : pending[i] = Nobody
      /\ \A u \in Users : chan[u] = "none"
      /\ asked = {} /\ inbound = <<>> /\ Len(inbound) = 0 /\ ~Dispatching
  BY DEF Init, Dispatching
<1>2. 1..Len(inbound) = {}
  BY <1>1
<1>3. \A u \in Users : chan[u] # "open" /\ chan[u] # "dropped" /\ chan[u] # "full"
  BY <1>1
<1> QED BY <1>1, <1>2, <1>3, Zenon
        DEF AnswerInv, StoredById, OpenStored, AllExpected, AnsweredOnce, FullAwaits, AnswerIsOwn

\* What has met does not part.
LEMMA CrossedGrows == ASSUME [Next]_vars PROVE crossed \subseteq crossed'
<1>1. ASSUME NEW u \in Users, ReqInsert(u) PROVE crossed \subseteq crossed'
  BY <1>1 DEF ReqInsert
<1>2. ASSUME NEW p, ServerEvent(p) PROVE crossed \subseteq crossed'
  BY <1>2 DEF ServerEvent
<1>3. \/ \E u \in Users : ReqInsert(u)
      \/ \E p : ServerEvent(p)
      \/ crossed' = crossed
  BY Zenon DEF Next, UserStep, OwnStep, WriteEnd, ReaderStep, Teardown, CallbackStep, Environment,
         vars, reqVars, Call, ReqCheck, SendCheck, SendLock, SendDone, SendFail, Receive, GiveUp,
         DisconnectEnter, DisconnectShutdown, DisconnectMark, TakeJoinSet, Join, CallHandler,
         HandlerDone, ReaderRead, ReaderError, ReaderPanic, ReaderStop, DispatchResponse,
         DispatchEvent, SpawnCallback, SpawnEnd, CallbackStart, CallbackFinish, CancelCallback,
         CancelReader, RegisterEventHandler, RegisterDisconnectHandler, ServerReply, PeerClose
<1> QED BY <1>1, <1>2, <1>3

\* What a step does to the packets and requests on their way.
SameWay == /\ asked' = asked /\ inbound' = inbound
           /\ Dispatching' => Dispatching /\ packet' = packet

\* They change when a request is sent or answered, when a packet comes unasked,
\* and when the read loop reads one.
LEMMA WayCases ==
  ASSUME TypeOK, [Next]_vars
  PROVE  \/ SameWay
         \/ \E u \in Users : SendDone(u) /\ chan[u] # "none" /\ peer = "up"
         \/ ReaderRead
         \/ \E r \in asked : ServerReply(r)
         \/ \E i \in EventIds \cup {Nobody} : ServerEvent([id |-> i, tag |-> NoTag])
<1> USE DEF SameWay, Dispatching, Go, Return, loopVars, netVars
<1>0. pc \in [Actors -> UserPCs \cup ReaderPCs]
  BY DEF TypeOK
<1>1. ASSUME UNCHANGED <<packet, asked, inbound>>,
             NEW a \in Actors, NEW l, l # "dispatch", pc' = [pc EXCEPT ![a] = l]
      PROVE  SameWay
  BY <1>0, <1>1
<1>2. ASSUME UNCHANGED <<pc, packet, asked, inbound>> PROVE SameWay
  BY <1>2, Zenon
<1>3. ASSUME NEW u \in Users, NEW o \in Ops[u], Call(u, o) PROVE SameWay
  <2>1. /\ UNCHANGED <<packet, asked, inbound>> /\ u \in Actors
        /\ EntryOf[o] # "dispatch" /\ pc' = [pc EXCEPT ![u] = EntryOf[o]]
    BY <1>3 DEF Call, EntryOf
  <2> QED BY <1>1, <2>1, Zenon
<1>4. ASSUME NEW u \in Users, SendDone(u), ~(chan[u] # "none" /\ peer = "up") PROVE SameWay
  <2>1. UNCHANGED <<packet, asked, inbound>> /\ u \in Actors
    BY <1>4, Zenon DEF SendDone
  <2>2. PICK l \in {"idle", "await"} : pc' = [pc EXCEPT ![u] = l]
    BY <1>4, Zenon DEF SendDone
  <2> QED BY <1>1, <2>1, <2>2
<1>5. ASSUME NEW u \in Users,
             ReqCheck(u) \/ ReqInsert(u) \/ SendCheck(u) \/ SendLock(u) \/ SendFail(u)
               \/ Receive(u) \/ GiveUp(u)
      PROVE SameWay
  <2>1. UNCHANGED <<packet, asked, inbound>> /\ u \in Actors
    BY <1>5, Zenon DEF ReqCheck, ReqInsert, SendCheck, SendLock, SendFail, Receive, GiveUp
  <2>2. PICK l \in {"idle", "reqInsert", "check", "write", "writing", "dEnter"} :
          pc' = [pc EXCEPT ![u] = l]
    BY <1>5, Zenon DEF ReqCheck, ReqInsert, SendCheck, SendLock, SendFail, Receive, GiveUp
  <2> QED BY <1>1, <2>1, <2>2
<1>6. ASSUME NEW a \in Actors, Teardown(a) PROVE SameWay
  <2>1. UNCHANGED <<packet, asked, inbound>>
    BY <1>6, Zenon DEF Teardown, DisconnectEnter, DisconnectShutdown, DisconnectMark, TakeJoinSet,
                       Join, CallHandler, HandlerDone
  <2>2. PICK l \in {"gone", "idle", "dShutdown", "dMark", "take", "join", "wJoin", "handler", "handling"} :
          pc' = [pc EXCEPT ![a] = l]
    BY <1>6, Zenon DEF Teardown, DisconnectEnter, DisconnectShutdown, DisconnectMark, TakeJoinSet,
                       Join, CallHandler, HandlerDone
  <2> QED BY <1>1, <2>1, <2>2
<1>7. CASE ReaderError \/ ReaderPanic \/ ReaderStop \/ DispatchResponse \/ DispatchEvent \/ SpawnEnd
           \/ CancelReader
  <2>1. UNCHANGED <<packet, asked, inbound>> /\ Reader \in Actors
    BY <1>7, Zenon DEF ReaderError, ReaderPanic, ReaderStop, DispatchResponse, DispatchEvent,
                       SpawnEnd, CancelReader
  <2>2. PICK l \in {"dEnter", "gone", "select", "spawn"} : pc' = [pc EXCEPT ![Reader] = l]
    BY <1>7, Zenon DEF ReaderError, ReaderPanic, ReaderStop, DispatchResponse, DispatchEvent,
                       SpawnEnd, CancelReader
  <2> QED BY <1>1, <2>1, <2>2
<1>8. CASE SpawnCallback \/ (\E c \in Callbacks : CallbackStep(c)) \/ UNCHANGED vars
  BY <1>2, <1>8, Zenon DEF SpawnCallback, CallbackStep, CallbackStart, CallbackFinish,
                           CancelCallback, vars
<1>9. CASE (\E i \in EventIds : RegisterEventHandler(i)) \/ RegisterDisconnectHandler \/ PeerClose
  BY <1>2, <1>9, Zenon DEF RegisterEventHandler, RegisterDisconnectHandler, PeerClose
<1> HIDE DEF SameWay
<1> QED BY <1>3, <1>4, <1>5, <1>6, <1>7, <1>8, <1>9, Zenon
        DEF Next, UserStep, OwnStep, WriteEnd, ReaderStep, Environment

\* Awaited, of the next state.
AwaitedNext(r) ==
  /\ r[2] = serial'[r[1]] /\ chan'[r[1]] # "full"
  /\ \/ pc'[r[1]] = "await" \/ pc'[r[1]] \in TeardownPCs
     \/ /\ isDisconnected' /\ chan'[r[1]] = "none"
        /\ pc'[r[1]] \in {"idle", "reqCheck", "check", "wTake", "wJoin"}

\* What others do leaves an awaited answer awaited, unless they fill the channel.
LEMMA OthersStep ==
  ASSUME NEW r, Awaited(r), pc'[r[1]] = pc[r[1]], serial'[r[1]] = serial[r[1]],
         chan'[r[1]] # "full", chan[r[1]] = "none" => chan'[r[1]] = "none",
         isDisconnected => isDisconnected'
  PROVE  AwaitedNext(r)
  BY Zenon DEF Awaited, AwaitedNext

\* An answer that is awaited remains so until it fills its user's channel.
LEMMA AwaitedStep ==
  ASSUME IInv, [Next]_vars, NEW r \in Tags, Awaited(r)
  PROVE  \/ AwaitedNext(r)
         \/ DispatchResponse /\ pending[packet.id] = r[1]
<1> USE DEF Go, Return, sendVars, reqVars, hookVars, taskVars, loopVars, netVars
<1> DEFINE u == r[1]
<1>0. /\ u \in Users /\ u \in Actors /\ u # Reader
      /\ pc \in [Actors -> UserPCs \cup ReaderPCs] /\ chan \in [Users -> {"none", "open", "full", "dropped"}]
      /\ serial \in [Users -> Nat] /\ isDisconnected \in BOOLEAN
  BY DEF Tags, IInv, TypeOK
<1>a. /\ pc[u] \notin {"check", "write", "writing", "await"} => chan[u] = "none"
      /\ pc[u] \in {"take", "join", "handler", "handling"} => isDisconnected
  BY <1>0 DEF IInv, RequestInv, ChanInCall, TeardownInv, OneTeardown, AfterMark
<1>b. r[2] = serial[u] /\ chan[u] # "full"
  BY DEF Awaited
<1>c. \/ pc[u] = "await" \/ pc[u] \in TeardownPCs
      \/ isDisconnected /\ chan[u] = "none" /\ pc[u] \in {"idle", "reqCheck", "check", "wTake", "wJoin"}
  BY DEF Awaited
<1> HIDE DEF u
\* What u itself does: it ends the call, tears the session down, or is refused.
<1>1. ASSUME chan' = [chan EXCEPT ![u] = chan'[u]], serial' = serial,
             chan'[u] # "full", isDisconnected => isDisconnected',
             NEW l, pc' = [pc EXCEPT ![u] = l],
             \/ l \in TeardownPCs
             \/ /\ isDisconnected /\ chan'[u] = "none"
                /\ l \in {"idle", "reqCheck", "check", "wTake", "wJoin"}
      PROVE  AwaitedNext(r)
  <2>1. pc'[u] = l /\ serial'[u] = serial[u]
    BY <1>0, <1>1
  <2> QED BY <1>b, <1>1, <2>1, Zenon DEF AwaitedNext, u
<1>2. ASSUME NEW o \in Ops[u], Call(u, o) PROVE AwaitedNext(r)
  <2>1. /\ pc[u] = "idle" /\ UNCHANGED <<chan, serial, isDisconnected>>
        /\ pc' = [pc EXCEPT ![u] = EntryOf[o]]
        /\ EntryOf[o] \in {"check", "reqCheck", "dEnter", "wTake"}
    BY <1>0, <1>2 DEF Call, EntryOf
  <2>2. isDisconnected /\ chan[u] = "none"
    BY <1>c, <2>1 DEF TeardownPCs
  <2>3. chan' = [chan EXCEPT ![u] = chan'[u]]
    BY <1>0, <2>1
  <2> QED BY <1>1, <2>1, <2>2, <2>3 DEF TeardownPCs
<1>3. ASSUME ReqCheck(u) \/ SendCheck(u) \/ GiveUp(u) PROVE AwaitedNext(r)
  <2>1. /\ serial' = serial /\ isDisconnected' = isDisconnected
        /\ chan' = chan \/ chan' = [chan EXCEPT ![u] = "none"]
    BY <1>3, Zenon DEF ReqCheck, SendCheck, GiveUp
  <2>2. /\ chan' = [chan EXCEPT ![u] = chan'[u]] /\ chan'[u] # "full"
        /\ chan[u] = "none" => chan'[u] = "none"
    BY <1>0, <1>b, <2>1
  <2>3. CASE GiveUp(u)
    <3>1. pc' = [pc EXCEPT ![u] = "dEnter"]
      BY <2>3 DEF GiveUp
    <3> QED BY <1>1, <2>1, <2>2, <3>1 DEF TeardownPCs
  <2>4. CASE ReqCheck(u) \/ SendCheck(u)
    <3>1. pc[u] \in {"reqCheck", "check"}
      BY <2>4, Zenon DEF ReqCheck, SendCheck
    <3>2. isDisconnected /\ chan[u] = "none"
      BY <1>c, <3>1 DEF TeardownPCs
    <3>3. pc' = [pc EXCEPT ![u] = "idle"]
      BY <2>4, <3>2, Zenon DEF ReqCheck, SendCheck
    <3> QED BY <1>1, <2>1, <2>2, <3>2, <3>3
  <2> QED BY <1>3, <2>3, <2>4
<1>4. ASSUME ReqInsert(u) \/ SendLock(u) \/ SendDone(u) \/ SendFail(u) \/ Receive(u) PROVE FALSE
  <2>1. pc[u] \in {"reqInsert", "write", "writing"} \/ chan[u] = "full"
    BY <1>4, Zenon DEF ReqInsert, SendLock, SendDone, SendFail, Receive
  <2> QED BY <1>b, <1>c, <2>1 DEF TeardownPCs
<1>5. ASSUME Teardown(u) PROVE AwaitedNext(r)
  <2>1. /\ chan' = chan /\ serial' = serial
    BY <1>5, Zenon DEF Teardown, DisconnectEnter, DisconnectShutdown, DisconnectMark, TakeJoinSet,
                       Join, CallHandler, HandlerDone
  <2>2. isDisconnected => isDisconnected'
    BY <1>5, Zenon DEF Teardown, DisconnectEnter, DisconnectShutdown, DisconnectMark, TakeJoinSet,
                       Join, CallHandler, HandlerDone
  <2>3. pc[u] \in {"dEnter", "dShutdown", "dMark", "take", "join", "handler", "handling", "wTake", "wJoin"}
    BY <1>5, Zenon DEF Teardown, DisconnectEnter, DisconnectShutdown, DisconnectMark, TakeJoinSet,
                       Join, CallHandler, HandlerDone
  <2>4. chan[u] = "none" /\ (pc[u] \in {"wTake", "wJoin"} => isDisconnected)
    BY <1>a, <1>c, <2>3 DEF TeardownPCs
  <2>5. chan' = [chan EXCEPT ![u] = chan'[u]] /\ chan'[u] = "none"
    BY <1>0, <2>1, <2>4
  <2>a. ASSUME NEW l \in TeardownPCs, pc' = [pc EXCEPT ![u] = l] PROVE AwaitedNext(r)
    BY <1>1, <2>1, <2>2, <2>5, <2>a
  <2>b. ASSUME NEW l \in {"idle", "wJoin"}, pc' = [pc EXCEPT ![u] = l], isDisconnected
        PROVE  AwaitedNext(r)
    BY <1>1, <2>1, <2>2, <2>5, <2>b
  <2>0. /\ "dShutdown" \in TeardownPCs /\ "dMark" \in TeardownPCs /\ "take" \in TeardownPCs
        /\ "join" \in TeardownPCs /\ "handler" \in TeardownPCs /\ "handling" \in TeardownPCs
    BY Zenon DEF TeardownPCs
  <2>7. CASE DisconnectEnter(u)
    <3>1. CASE isDisconnected
      <4>1. pc' = [pc EXCEPT ![u] = "idle"]
        BY <1>0, <2>7, <3>1, Zenon DEF DisconnectEnter
      <4> QED BY <2>b, <3>1, <4>1
    <3>2. CASE ~isDisconnected
      <4>1. pc' = [pc EXCEPT ![u] = "dShutdown"]
        BY <2>7, <3>2, Zenon DEF DisconnectEnter
      <4> QED BY <2>0, <2>a, <4>1
    <3> QED BY <3>1, <3>2
  <2>8. CASE DisconnectShutdown(u) \/ DisconnectMark(u)
    <3>1. pc' = [pc EXCEPT ![u] = "dMark"] \/ pc' = [pc EXCEPT ![u] = "take"]
      BY <2>8, Zenon DEF DisconnectShutdown, DisconnectMark
    <3> QED BY <2>0, <2>a, <3>1
  <2>10. CASE TakeJoinSet(u)
    <3>1. CASE pc[u] = "take"
      <4>1. pc' = [pc EXCEPT ![u] = "join"]
        BY <2>10, <3>1, Zenon DEF TakeJoinSet
      <4> QED BY <2>0, <2>a, <4>1
    <3>2. CASE pc[u] = "wTake"
      BY <2>4, <2>b, <2>10, <3>2 DEF TakeJoinSet
    <3> QED BY <2>10, <3>1, <3>2 DEF TakeJoinSet
  <2>11. CASE Join(u)
    <3>1. CASE pc[u] = "join"
      <4>1. pc' = [pc EXCEPT ![u] = "handler"]
        BY <2>11, <3>1, Zenon DEF Join
      <4> QED BY <2>0, <2>a, <4>1
    <3>2. CASE pc[u] = "wJoin"
      BY <2>4, <2>b, <2>11, <3>2 DEF Join
    <3> QED BY <2>11, <3>1, <3>2 DEF Join
  <2>12. CASE CallHandler(u) \/ HandlerDone(u)
    <3>1. isDisconnected
      BY <1>a, <2>12, Zenon DEF CallHandler, HandlerDone
    <3>2. pc' = [pc EXCEPT ![u] = "handling"] \/ pc' = [pc EXCEPT ![u] = "idle"]
      BY <1>0, <2>12, Zenon DEF CallHandler, HandlerDone
    <3> QED BY <2>0, <2>a, <2>b, <3>1, <3>2
  <2> QED BY <1>5, <2>7, <2>8, <2>10, <2>11, <2>12, Zenon DEF Teardown
\* What the others do.
<1>6. ASSUME pc'[u] = pc[u], serial'[u] = serial[u], chan'[u] # "full",
             chan[u] = "none" => chan'[u] = "none", isDisconnected => isDisconnected'
      PROVE  AwaitedNext(r)
  BY <1>6, OthersStep, Zenon DEF u
<1>7. ASSUME NEW a \in Actors, a # u, NEW l, pc' = [pc EXCEPT ![a] = l] PROVE pc'[u] = pc[u]
  BY <1>0, <1>7
<1>8. ASSUME NEW v \in Users, v # u, NEW o \in Ops[v], Call(v, o) PROVE AwaitedNext(r)
  <2>1. /\ v \in Actors /\ pc' = [pc EXCEPT ![v] = EntryOf[o]]
        /\ UNCHANGED <<chan, serial, isDisconnected>>
    BY <1>8, Zenon DEF Call
  <2> QED BY <1>6, <1>7, <1>8, <1>b, <2>1, Zenon
<1>9. ASSUME NEW v \in Users, v # u, ReqInsert(v) PROVE AwaitedNext(r)
  <2>1. v \in Actors /\ pc' = [pc EXCEPT ![v] = "check"] /\ isDisconnected' = isDisconnected
    BY <1>9, Zenon DEF ReqInsert
  <2>2. serial'[u] = serial[u] /\ chan'[u] # "full" /\ (chan[u] = "none" => chan'[u] = "none")
    BY <1>0, <1>b, <1>9 DEF ReqInsert
  <2> QED BY <1>6, <1>7, <1>9, <2>1, <2>2, Zenon
<1>10. ASSUME NEW v \in Users, v # u,
              \/ ReqCheck(v) \/ SendCheck(v) \/ SendLock(v) \/ SendDone(v) \/ SendFail(v)
              \/ Receive(v) \/ GiveUp(v)
       PROVE  AwaitedNext(r)
  <2>1. /\ v \in Actors /\ serial' = serial /\ isDisconnected' = isDisconnected
        /\ chan' = chan \/ chan' = [chan EXCEPT ![v] = "none"]
    BY <1>10, Zenon DEF ReqCheck, SendCheck, SendLock, SendDone, SendFail, Receive, GiveUp
  <2>2. \E l : pc' = [pc EXCEPT ![v] = l]
    BY <1>10, Zenon DEF ReqCheck, SendCheck, SendLock, SendDone, SendFail, Receive, GiveUp
  <2>3. chan'[u] = chan[u]
    BY <1>0, <1>10, <2>1
  <2> QED BY <1>6, <1>7, <1>10, <1>b, <2>1, <2>2, <2>3, Zenon
<1>11. ASSUME NEW a \in Actors, a # u, Teardown(a) PROVE AwaitedNext(r)
  <2>1. /\ chan' = chan /\ serial' = serial
    BY <1>11, Zenon DEF Teardown, DisconnectEnter, DisconnectShutdown, DisconnectMark, TakeJoinSet,
                       Join, CallHandler, HandlerDone
  <2>2. isDisconnected => isDisconnected'
    BY <1>11, Zenon DEF Teardown, DisconnectEnter, DisconnectShutdown, DisconnectMark, TakeJoinSet,
                       Join, CallHandler, HandlerDone
  <2>3. \E l : pc' = [pc EXCEPT ![a] = l]
    BY <1>11, Zenon DEF Teardown, DisconnectEnter, DisconnectShutdown, DisconnectMark, TakeJoinSet,
                       Join, CallHandler, HandlerDone
  <2> QED BY <1>6, <1>7, <1>11, <1>b, <2>1, <2>2, <2>3, Zenon
<1>12. CASE DispatchResponse
  <2>1. SUFFICES ASSUME pending[packet.id] # u PROVE AwaitedNext(r)
    BY <1>12 DEF u
  <2>2. /\ Reader \in Actors /\ serial' = serial /\ isDisconnected' = isDisconnected
        /\ pc' = [pc EXCEPT ![Reader] = "select"]
        /\ chan' = chan \/ chan' = [chan EXCEPT ![pending[packet.id]] = "full"]
    BY <1>12, Zenon DEF DispatchResponse
  <2>3. chan'[u] = chan[u]
    BY <1>0, <2>1, <2>2
  <2> QED BY <1>0, <1>6, <1>7, <1>b, <2>2, <2>3, Zenon
<1>13. CASE ReaderRead \/ ReaderError \/ ReaderPanic \/ ReaderStop \/ DispatchEvent \/ SpawnEnd
            \/ CancelReader
  <2>1. Reader \in Actors /\ UNCHANGED <<serial, chan, isDisconnected>>
    BY <1>13, Zenon DEF ReaderRead, ReaderError, ReaderPanic, ReaderStop, DispatchEvent, SpawnEnd,
                        CancelReader
  <2>2. \E l : pc' = [pc EXCEPT ![Reader] = l]
    BY <1>13, Zenon DEF ReaderRead, ReaderError, ReaderPanic, ReaderStop, DispatchEvent, SpawnEnd,
                        CancelReader
  <2> QED BY <1>0, <1>6, <1>7, <1>b, <2>1, <2>2, Zenon
<1>14. CASE SpawnCallback \/ (\E c \in Callbacks : CallbackStep(c)) \/ Environment \/ UNCHANGED vars
  <2>1. UNCHANGED <<pc, serial, chan, isDisconnected>>
    BY <1>14, Zenon DEF SpawnCallback, CallbackStep, CallbackStart, CallbackFinish, CancelCallback,
       Environment, RegisterEventHandler, RegisterDisconnectHandler, ServerReply, ServerEvent,
       PeerClose, vars
  <2> QED BY <1>6, <1>b, <2>1, Zenon
<1>15. ASSUME NEW v \in Users, (\E o \in Ops[v] : Call(v, o)) \/ UserStep(v) PROVE AwaitedNext(r)
  <2>1. CASE v = u
    BY <1>0, <1>2, <1>3, <1>4, <1>5, <1>15, <2>1, Zenon DEF UserStep, OwnStep, WriteEnd
  <2>2. CASE v # u
    BY <1>8, <1>9, <1>10, <1>11, <1>15, <2>2, Zenon DEF UserStep, OwnStep, WriteEnd
  <2> QED BY <2>1, <2>2
<1>16. CASE ReaderStep
  <2>1. CASE Teardown(Reader)
    BY <1>0, <1>11, <2>1, Zenon
  <2> QED BY <1>12, <1>13, <1>14, <1>16, <2>1, Zenon DEF ReaderStep
<1> QED BY <1>14, <1>15, <1>16, Zenon DEF Next

\* Due, Plain and Expected, of the next state.
DueNext(r) == AwaitedNext(r) /\ pending'[ReqId[r[1]]] = r[1]
PlainNext(t) == t \in Tags /\ ReqId[t[1]] \notin crossed'
ExpectedNext(p) ==
  \/ p.tag = NoTag /\ p.id \in crossed' \cup {Nobody}
  \/ p.tag \in Tags /\ p.id = ReqId[p.tag[1]] /\ (PlainNext(p.tag) => DueNext(p.tag))

\* A plain request that is due remains so until its user's sender takes a packet:
\* another user's request for the id would have made it meet that one.
LEMMA DueStep ==
  ASSUME IInv, StoredById, [Next]_vars, NEW r \in Tags, Due(r), PlainNext(r)
  PROVE  \/ DueNext(r)
         \/ DispatchResponse /\ pending[packet.id] = r[1]
<1> DEFINE u == r[1]
<1> DEFINE i == ReqId[u]
<1>0. /\ pending \in [Ids -> Users \cup {Nobody}] /\ u \in Users /\ i \in Ids /\ Nobody \notin Users
      /\ pending[i] = u /\ ReqId \in [Users -> Ids] /\ i \notin crossed'
  BY DEF IInv, TypeOK, Tags, Due, PlainNext
<1>1. AwaitedNext(r) \/ (DispatchResponse /\ pending[packet.id] = r[1])
  BY AwaitedStep DEF Due
<1> HIDE DEF i, u
<1>2. ASSUME NEW v \in Users, ReqInsert(v) PROVE pending'[i] = u
  <2>1. /\ pending' = [pending EXCEPT ![ReqId[v]] = v]
        /\ crossed' = IF pending[ReqId[v]] \in {Nobody, v} THEN crossed ELSE crossed \cup {ReqId[v]}
    BY <1>2 DEF ReqInsert
  <2>2. CASE ReqId[v] = i
    BY <1>0, <2>1, <2>2
  <2>3. CASE ReqId[v] # i
    BY <1>0, <2>1, <2>3
  <2> QED BY <2>2, <2>3
<1>3. ASSUME DispatchResponse, pending[packet.id] # u PROVE pending'[i] = u
  <2>1. pending' = [pending EXCEPT ![packet.id] = Nobody] /\ packet.id # i
    BY <1>0, <1>3 DEF DispatchResponse
  <2> QED BY <1>0, <2>1
<1>4. ASSUME pending' = pending PROVE pending'[i] = u
  BY <1>0, <1>4
<1>5. ASSUME NEW v \in Users, SendCheck(v) \/ SendFail(v) \/ Receive(v) \/ GiveUp(v)
      PROVE  pending' = pending
  BY <1>5, Zenon DEF SendCheck, SendFail, Receive, GiveUp
<1>6. pending'[i] = u \/ (DispatchResponse /\ pending[packet.id] = u)
  BY <1>2, <1>3, <1>4, <1>5, RequestCases, Zenon
<1> QED BY <1>1, <1>6, Zenon DEF DueNext, i, u

\* The packet that fills a channel whose id is plain answers the request its user
\* waits on.
LEMMA FillsOwn ==
  ASSUME IInv, AnswerInv, DispatchResponse, packet.id \notin crossed
  PROVE  LET w == pending[packet.id] IN
         /\ w \in Users /\ packet.tag \in Tags /\ packet.tag = <<w, serial[w]>>
         /\ chan[w] = "open" => pc[w] = "await"
<1> DEFINE w == pending[packet.id]
<1>1. packet.id \in Ids /\ w \in Users /\ w # Nobody /\ Dispatching /\ packet.id # Nobody
  BY DEF DispatchResponse, IInv, RequestInv, DispatchParsed, TypeOK, Packet, Dispatching
<1>2. ReqId[w] = packet.id /\ Expected(packet)
  BY <1>1, Zenon DEF AnswerInv, StoredById, AllExpected
<1>3. packet.tag \in Tags /\ packet.id = ReqId[packet.tag[1]] /\ (Plain(packet.tag) => Due(packet.tag))
  BY <1>1, <1>2 DEF Expected
<1>4. Due(packet.tag)
  BY <1>3, Zenon DEF Plain
<1>5. packet.tag[1] = w
  BY <1>3, <1>4, Zenon DEF Due
<1>6. packet.tag = <<w, serial[w]>>
  <2>1. packet.tag = <<packet.tag[1], packet.tag[2]>>
    BY <1>3 DEF Tags
  <2>2. packet.tag[2] = serial[packet.tag[1]]
    BY <1>4, Zenon DEF Due, Awaited
  <2> HIDE DEF w
  <2> QED BY <1>5, <2>1, <2>2, Zenon
<1>7. ASSUME chan[w] = "open" PROVE pc[w] = "await"
  <2>1. pc[w] \in {"check", "write", "writing", "await"}
    BY <1>1, <1>7 DEF IInv, RequestInv, ChanInCall
  <2>2. pc[w] = "await" \/ pc[w] \in TeardownPCs
    BY <1>4, <1>5, <1>7 DEF Due, Awaited
  <2> QED BY <2>1, <2>2 DEF TeardownPCs
<1> QED BY <1>1, <1>3, <1>6, <1>7

\* Who waits for an answer goes on waiting, gets it or gives up.
LEMMA WaitStep ==
  ASSUME IInv, [Next]_vars, NEW u \in Users, pc[u] = "await"
  PROVE  pc'[u] = "await" \/ Receive(u) \/ GiveUp(u)
<1> USE DEF Go, Return
<1>0. pc \in [Actors -> UserPCs \cup ReaderPCs] /\ u \in Actors /\ u # Reader
  BY DEF IInv, TypeOK
<1>1. ASSUME NEW a \in Actors, a # u, NEW l, pc' = [pc EXCEPT ![a] = l] PROVE pc'[u] = "await"
  BY <1>0, <1>1
<1>2. ASSUME NEW v \in Users, (\E o \in Ops[v] : Call(v, o)) \/ UserStep(v)
      PROVE  pc'[u] = "await" \/ Receive(u) \/ GiveUp(u)
  <2>1. CASE v = u
    BY <1>2, <2>1, Zenon DEF UserStep, OwnStep, WriteEnd, Call, ReqCheck, ReqInsert, SendCheck, SendLock, SendDone,
       SendFail, Teardown, DisconnectEnter, DisconnectShutdown, DisconnectMark, TakeJoinSet, Join,
       CallHandler, HandlerDone
  <2>2. CASE v # u
    <3>1. \E l : pc' = [pc EXCEPT ![v] = l]
      BY <1>2, Zenon DEF UserStep, OwnStep, WriteEnd, Call, ReqCheck, ReqInsert, SendCheck, SendLock, SendDone,
         SendFail, Receive, GiveUp, Teardown, DisconnectEnter, DisconnectShutdown, DisconnectMark,
         TakeJoinSet, Join, CallHandler, HandlerDone
    <3>2. v \in Actors
      OBVIOUS
    <3> QED BY <1>1, <2>2, <3>1, <3>2, Zenon
  <2> QED BY <2>1, <2>2
<1>3. ASSUME ReaderStep PROVE pc'[u] = "await"
  <2>1. pc' = pc \/ \E l : pc' = [pc EXCEPT ![Reader] = l]
    BY <1>3, Zenon DEF ReaderStep, ReaderRead, ReaderError, ReaderPanic, ReaderStop,
       DispatchResponse, DispatchEvent, SpawnCallback, SpawnEnd, CancelReader, Teardown,
       DisconnectEnter, DisconnectShutdown, DisconnectMark, TakeJoinSet, Join, CallHandler,
       HandlerDone
  <2>2. Reader \in Actors
    OBVIOUS
  <2> QED BY <1>0, <1>1, <2>1, <2>2, Zenon
<1>4. ASSUME (\E c \in Callbacks : CallbackStep(c)) \/ Environment \/ UNCHANGED vars
      PROVE  pc'[u] = "await"
  <2>1. pc' = pc
    BY <1>4, Zenon DEF CallbackStep, CallbackStart, CallbackFinish, CancelCallback,
       Environment, RegisterEventHandler, RegisterDisconnectHandler, ServerReply, ServerEvent,
       PeerClose, vars
  <2> QED BY <2>1, Zenon
<1> QED BY <1>2, <1>3, <1>4, Zenon DEF Next

\* What a step does to a channel that is full afterwards: it was, or a packet has
\* been put into it.
LEMMA FullCases ==
  ASSUME IInv, [Next]_vars, NEW u \in Users, chan'[u] = "full"
  PROVE  \/ chan[u] = "full" /\ answer'[u] = answer[u] /\ serial'[u] = serial[u]
         \/ /\ DispatchResponse /\ pending[packet.id] = u /\ chan[u] = "open"
            /\ answer'[u] = packet.tag /\ serial'[u] = serial[u]
<1>0. /\ chan \in [Users -> {"none", "open", "full", "dropped"}]
      /\ serial \in [Users -> Nat] /\ answer \in [Users -> Tags \cup {NoTag}]
  BY DEF IInv, TypeOK
<1>1. ASSUME NEW v \in Users, ReqInsert(v)
      PROVE  chan[u] = "full" /\ answer'[u] = answer[u] /\ serial'[u] = serial[u]
  BY <1>0, <1>1 DEF ReqInsert
<1>2. ASSUME NEW v \in Users, SendCheck(v) \/ SendFail(v) \/ Receive(v) \/ GiveUp(v)
      PROVE  chan[u] = "full" /\ answer'[u] = answer[u] /\ serial'[u] = serial[u]
  <2>1. chan' = chan \/ chan' = [chan EXCEPT ![v] = "none"]
    BY <1>2, Zenon DEF SendCheck, SendFail, Receive, GiveUp
  <2>2. serial' = serial /\ (answer' = answer \/ Receive(v))
    BY <1>2, Zenon DEF SendCheck, SendFail, Receive, GiveUp
  <2>3. ASSUME Receive(v) PROVE v # u /\ answer'[u] = answer[u]
    BY <1>0, <2>3 DEF Receive
  <2> QED BY <1>0, <2>1, <2>2, <2>3
<1>3. CASE DispatchResponse
  <2>1. pending[packet.id] \in Users /\ serial' = serial
    BY <1>3 DEF DispatchResponse, IInv, RequestInv, DispatchParsed, TypeOK, Packet
  <2> DEFINE w == pending[packet.id]
  <2>2. CASE chan[w] = "open"
    <3>1. chan' = [chan EXCEPT ![w] = "full"] /\ answer' = [answer EXCEPT ![w] = packet.tag]
      BY <1>3, <2>2 DEF DispatchResponse
    <3> HIDE DEF w
    <3>2. CASE u = w
      BY <1>0, <1>3, <2>1, <2>2, <3>1, <3>2 DEF w
    <3>3. CASE u # w
      BY <1>0, <2>1, <3>1, <3>3
    <3> QED BY <3>2, <3>3
  <2>3. CASE chan[w] # "open"
    BY <1>3, <2>1, <2>3 DEF DispatchResponse
  <2> QED BY <2>2, <2>3
<1>4. CASE UNCHANGED <<pending, chan, answer, serial>>
  BY <1>4
<1> QED BY <1>1, <1>2, <1>3, <1>4, RequestCases

\* A step keeps senders where they belong.
LEMMA StoredStep == ASSUME IInv, AnswerInv, [Next]_vars PROVE StoredById' /\ OpenStored'
<1>0. /\ StoredById /\ OpenStored /\ crossed \subseteq crossed' /\ Nobody \notin Users
      /\ pending \in [Ids -> Users \cup {Nobody}] /\ ReqId \in [Users -> Ids]
      /\ chan \in [Users -> {"none", "open", "full", "dropped"}]
  BY CrossedGrows DEF AnswerInv, IInv, TypeOK
<1>1. ASSUME NEW u \in Users, ReqInsert(u) PROVE StoredById' /\ OpenStored'
  <2>1. /\ pending' = [pending EXCEPT ![ReqId[u]] = u]
        /\ chan' = [v \in Users |-> CASE v = u -> "open"
                                      [] v # u /\ v = pending[ReqId[u]] /\ chan[v] = "open" -> "dropped"
                                      [] OTHER -> chan[v]]
        /\ crossed' = IF pending[ReqId[u]] \in {Nobody, u} THEN crossed ELSE crossed \cup {ReqId[u]}
    BY <1>1 DEF ReqInsert
  <2>2. StoredById'
    BY <1>0, <2>1 DEF StoredById
  <2>3. ASSUME NEW v \in Users, chan'[v] = "open" PROVE pending'[ReqId[v]] = v
    <3>1. CASE v = u
      BY <1>0, <2>1, <3>1
    <3>2. CASE v # u
      <4>1. chan[v] = "open" /\ v # pending[ReqId[u]]
        BY <1>0, <2>1, <2>3, <3>2
      <4>2. pending[ReqId[v]] = v
        BY <1>0, <4>1 DEF OpenStored
      <4> QED BY <1>0, <2>1, <4>1, <4>2
    <3> QED BY <3>1, <3>2
  <2>4. ASSUME NEW v \in Users, chan'[v] = "dropped" PROVE ReqId[v] \in crossed'
    <3>1. CASE chan[v] = "dropped"
      BY <1>0, <3>1 DEF OpenStored
    <3>2. CASE v # u /\ v = pending[ReqId[u]]
      <4>1. ReqId[v] = ReqId[u]
        BY <1>0, <3>2 DEF StoredById
      <4> QED BY <1>0, <2>1, <3>2, <4>1
    <3> QED BY <1>0, <2>1, <2>4, <3>1, <3>2
  <2> QED BY <2>2, <2>3, <2>4 DEF OpenStored
<1>2. CASE DispatchResponse
  <2> DEFINE w == pending[packet.id]
  <2>1. /\ pending' = [pending EXCEPT ![packet.id] = Nobody] /\ w # Nobody
        /\ IF chan[w] = "open" THEN chan' = [chan EXCEPT ![w] = "full"] ELSE chan' = chan
    BY <1>2, Zenon DEF DispatchResponse, reqVars
  <2>2. StoredById'
    BY <1>0, <2>1 DEF StoredById
  <2> HIDE DEF w
  <2>3. ASSUME NEW v \in Users, chan'[v] = "open" PROVE pending'[ReqId[v]] = v
    <3>1. chan[v] = "open" /\ v # w
      BY <1>0, <2>1, <2>3
    <3>2. pending[ReqId[v]] = v
      BY <1>0, <3>1 DEF OpenStored
    <3> QED BY <1>0, <2>1, <3>1, <3>2 DEF w
  <2>4. ASSUME NEW v \in Users, chan'[v] = "dropped" PROVE ReqId[v] \in crossed'
    <3>1. chan[v] = "dropped"
      BY <1>0, <2>1, <2>4
    <3> QED BY <1>0, <3>1 DEF OpenStored
  <2> QED BY <2>2, <2>3, <2>4 DEF OpenStored
<1>3. ASSUME pending' = pending,
             \A v \in Users : chan'[v] = chan[v] \/ chan'[v] = "none"
      PROVE  StoredById' /\ OpenStored'
  <2>1. StoredById'
    BY <1>0, <1>3 DEF StoredById
  <2>2. ASSUME NEW v \in Users
        PROVE  /\ chan'[v] = "open" => pending'[ReqId[v]] = v
               /\ chan'[v] = "dropped" => ReqId[v] \in crossed'
    <3>1. \/ chan'[v] = chan[v] 
          \/ chan'[v] # "open" /\ chan'[v] # "dropped"
      BY <1>3
    <3> QED BY <1>0, <1>3, <3>1 DEF OpenStored
  <2> QED BY <2>1, <2>2 DEF OpenStored
<1>4. ASSUME NEW u \in Users, SendCheck(u) \/ SendFail(u) \/ Receive(u) \/ GiveUp(u)
      PROVE  StoredById' /\ OpenStored'
  <2>1. pending' = pending /\ (chan' = chan \/ chan' = [chan EXCEPT ![u] = "none"])
    BY <1>4, Zenon DEF SendCheck, SendFail, Receive, GiveUp
  <2>2. \A v \in Users : chan'[v] = chan[v] \/ chan'[v] = "none"
    BY <1>0, <2>1
  <2> QED BY <1>3, <2>1, <2>2, Zenon
<1>5. CASE UNCHANGED <<pending, chan, answer, serial>>
  BY <1>3, <1>5, Zenon
<1> QED BY <1>1, <1>2, <1>4, <1>5, RequestCases, Zenon

\* A step keeps packets expected and answers where they belong.
LEMMA AnswerStep == ASSUME IInv, AnswerInv, [Next]_vars PROVE AnswerInv'
<1> USE DEF Go
<1>0. /\ pc \in [Actors -> UserPCs \cup ReaderPCs] /\ Reader \in Actors
      /\ asked \in SUBSET Tags /\ inbound \in Seq(Packet \cup {Garbage}) /\ Len(inbound) \in Nat
      /\ NoTag \notin Tags
  BY DEF IInv, TypeOK, Tags, NoTag
<1>1. StoredById' /\ OpenStored' /\ StoredById
  BY StoredStep DEF AnswerInv
<1>a. crossed \subseteq crossed' /\ \A t : PlainNext(t) => Plain(t)
  BY CrossedGrows DEF PlainNext, Plain
\* Who gets a packet has an id of its own, or one that requests have met for.
<1>b. ASSUME NEW u \in Users, DispatchResponse, pending[packet.id] = u, ReqId[u] \notin crossed'
      PROVE  /\ packet.tag = <<u, serial[u]>>
             /\ chan[u] = "open" => pc[u] = "await"
  <2>1. packet.id \in Ids
    BY <1>b DEF DispatchResponse, IInv, RequestInv, DispatchParsed, TypeOK, Packet
  <2>2. packet.id \notin crossed
    BY <1>1, <1>a, <1>b, <2>1 DEF StoredById
  <2> QED BY <1>b, <2>2, FillsOwn
<1>2. FullAwaits'
  <2> SUFFICES ASSUME NEW u \in Users, chan'[u] = "full", ReqId[u] \notin crossed' PROVE pc'[u] = "await"
    BY DEF FullAwaits
  <2>1. CASE chan[u] = "full"
    <3>1. pc[u] = "await"
      BY <1>a, <2>1 DEF AnswerInv, FullAwaits
    <3>2. chan \in [Users -> {"none", "open", "full", "dropped"}]
      BY DEF IInv, TypeOK
    <3>3. ~Receive(u) /\ ~GiveUp(u)
      BY <2>1, <3>2 DEF Receive, GiveUp
    <3> QED BY <3>1, <3>3, WaitStep
  <2>2. CASE DispatchResponse /\ pending[packet.id] = u /\ chan[u] = "open"
    <3>1. pc[u] = "await"
      BY <1>b, <2>2
    <3>2. pc' = [pc EXCEPT ![Reader] = "select"]
      BY <2>2 DEF DispatchResponse
    <3> QED BY <1>0, <3>1, <3>2
  <2> QED BY <2>1, <2>2, FullCases
<1>3. AnswerIsOwn'
  <2> SUFFICES ASSUME NEW u \in Users, chan'[u] = "full", ReqId[u] \notin crossed'
               PROVE  answer'[u] = <<u, serial'[u]>>
    BY DEF AnswerIsOwn
  <2>1. CASE chan[u] = "full" /\ answer'[u] = answer[u] /\ serial'[u] = serial[u]
    BY <1>a, <2>1 DEF AnswerInv, AnswerIsOwn
  <2>2. CASE /\ DispatchResponse /\ pending[packet.id] = u /\ chan[u] = "open"
             /\ answer'[u] = packet.tag /\ serial'[u] = serial[u]
    BY <1>b, <2>2
  <2> QED BY <2>1, <2>2, FullCases
\* Whatever is due and not being dispatched remains so.
<1>4. ASSUME NEW r \in Tags, Due(r), PlainNext(r), Dispatching => r # packet.tag \/ ~DispatchResponse
      PROVE  DueNext(r)
  <2>1. CASE DispatchResponse /\ pending[packet.id] = r[1]
    <3>1. r[1] \in Users /\ ReqId[r[1]] \notin crossed'
      BY <1>4 DEF PlainNext, Tags
    <3>2. Dispatching /\ packet.tag = <<r[1], serial[r[1]]>>
      BY <1>b, <2>1, <3>1 DEF DispatchResponse, Dispatching
    <3>3. r = packet.tag
      BY <1>4, <3>2 DEF Due, Awaited, Tags
    <3> QED BY <1>4, <2>1, <3>2, <3>3
  <2> QED BY <1>1, <1>4, <2>1, DueStep
<1>5. ASSUME NEW p, Expected(p), PlainNext(p.tag) => DueNext(p.tag) PROVE ExpectedNext(p)
  BY <1>5, <1>a DEF Expected, ExpectedNext
<1>6. ASSUME /\ \A r \in asked' : PlainNext(r) => DueNext(r)
             /\ \A i \in 1..Len(inbound') : ExpectedNext(inbound'[i])
             /\ Dispatching' => ExpectedNext(packet')
      PROVE  AllExpected'
  BY <1>6, Zenon DEF AllExpected, Expected, ExpectedNext, Due, DueNext, Plain, PlainNext, Awaited, AwaitedNext
<1>7. ASSUME NEW r \in asked, PlainNext(r) PROVE DueNext(r)
  <2>1. r \in Tags /\ Plain(r)
    BY <1>0, <1>7, <1>a
  <2>2. Due(r) /\ (Dispatching => r # packet.tag)
    BY <1>7, <2>1, Zenon DEF AnswerInv, AllExpected, AnsweredOnce
  <2> QED BY <1>4, <1>7, <2>1, <2>2
<1>8. ASSUME NEW i \in 1..Len(inbound) PROVE ExpectedNext(inbound[i])
  <2>1. Expected(inbound[i])
    BY DEF AnswerInv, AllExpected
  <2>2. ASSUME PlainNext(inbound[i].tag) PROVE DueNext(inbound[i].tag)
    <3>1. Plain(inbound[i].tag) /\ inbound[i].tag \in Tags /\ inbound[i].tag # NoTag
      BY <1>0, <1>a, <2>2 DEF Plain
    <3>2. Due(inbound[i].tag)
      BY <2>1, <3>1, Zenon DEF Expected
    <3>3. Dispatching => packet.tag # inbound[i].tag
      BY <3>1, Zenon DEF AnswerInv, AnsweredOnce
    <3> QED BY <1>4, <2>2, <3>1, <3>2, <3>3
  <2> QED BY <1>5, <2>1, <2>2
<1>9. ASSUME Dispatching, ~DispatchResponse PROVE ExpectedNext(packet)
  <2>1. Expected(packet)
    BY <1>9 DEF AnswerInv, AllExpected
  <2>2. ASSUME PlainNext(packet.tag) PROVE DueNext(packet.tag)
    <3>1. Plain(packet.tag) /\ packet.tag \in Tags /\ packet.tag # NoTag
      BY <1>0, <1>a, <2>2 DEF Plain
    <3>2. Due(packet.tag)
      BY <2>1, <3>1, Zenon DEF Expected
    <3> QED BY <1>4, <1>9, <2>2, <3>1, <3>2
  <2> QED BY <1>5, <2>1, <2>2
<1>10. ASSUME Dispatching' PROVE ~DispatchResponse
  BY <1>0, <1>10 DEF Dispatching, DispatchResponse
<1>11. AnsweredOnce
  BY DEF AnswerInv
\* AnsweredOnce of the next state, as far as its requests are plain.
<1>c. ASSUME /\ \A i, j \in 1..Len(inbound') :
                  PlainNext(inbound'[i].tag) /\ inbound'[i].tag = inbound'[j].tag => i = j
             /\ \A i \in 1..Len(inbound') : PlainNext(inbound'[i].tag) => inbound'[i].tag \notin asked'
             /\ Dispatching' /\ PlainNext(packet'.tag) =>
                  /\ packet'.tag \notin asked'
                  /\ \A i \in 1..Len(inbound') : inbound'[i].tag # packet'.tag
      PROVE  AnsweredOnce'
  BY <1>c, Zenon DEF AnsweredOnce, Plain, PlainNext
<1>12. CASE SameWay
  <2>1. AllExpected'
    BY <1>6, <1>7, <1>8, <1>9, <1>10, <1>12, Zenon DEF SameWay
  <2>2. AnsweredOnce'
    BY <1>11, <1>12, <1>a, <1>c, Zenon DEF SameWay, AnsweredOnce
  <2> QED BY <1>1, <1>2, <1>3, <2>1, <2>2 DEF AnswerInv
<1>13. ASSUME NEW u \in Users, SendDone(u), chan[u] # "none", peer = "up" PROVE AnswerInv'
  <2> DEFINE r == <<u, serial[u]>>
  <2>1. /\ pc[u] = "writing" /\ pc' = [pc EXCEPT ![u] = "await"] /\ asked' = asked \cup {r}
        /\ UNCHANGED <<packet, inbound, pending, chan, serial, crossed>>
    BY <1>13, Zenon DEF SendDone, loopVars, reqVars
  <2>2. r \in Tags /\ ~Awaited(r)
    BY <1>13, <2>1 DEF Awaited, Tags, TeardownPCs, IInv, TypeOK, RequestInv, CallSerial
  <2>3. ASSUME Plain(r) PROVE DueNext(r)
    <3>1. ReqId[u] \notin crossed
      BY <2>3 DEF Plain
    <3>2. chan[u] # "full" /\ chan[u] # "dropped"
      BY <2>1, <3>1 DEF AnswerInv, FullAwaits, OpenStored
    <3>3. pending[ReqId[u]] = u
      BY <1>13, <3>2 DEF AnswerInv, OpenStored, IInv, TypeOK
    <3>4. AwaitedNext(r)
      BY <1>0, <2>1, <3>2 DEF AwaitedNext
    <3> QED BY <2>1, <3>3, <3>4 DEF DueNext
  <2>4. ASSUME NEW p, Expected(p), Plain(r) PROVE p.tag # r
    BY <1>0, <2>2, <2>4, Zenon DEF Expected, Due
  <2>a. PlainNext(r) => DueNext(r)
    BY <1>a, <2>3
  <2> HIDE DEF r
  <2>5. Dispatching' <=> Dispatching
    BY <1>0, <2>1 DEF Dispatching
  <2>6. AllExpected'
    BY <1>6, <1>7, <1>8, <1>9, <1>10, <2>1, <2>a, <2>5, Zenon
  <2>7. Plain(r) => /\ \A i \in 1..Len(inbound) : inbound[i].tag # r
                    /\ Dispatching => packet.tag # r
    BY <2>4, Zenon DEF AnswerInv, AllExpected
  <2>8. AnsweredOnce'
    <3>1. \A i, j \in 1..Len(inbound') :
            PlainNext(inbound'[i].tag) /\ inbound'[i].tag = inbound'[j].tag => i = j
      BY <1>11, <1>a, <2>1, Zenon DEF AnsweredOnce
    <3>2. ASSUME NEW i \in 1..Len(inbound'), PlainNext(inbound'[i].tag) PROVE inbound'[i].tag \notin asked'
      <4>1. i \in 1..Len(inbound) /\ Plain(inbound[i].tag) /\ inbound'[i].tag = inbound[i].tag
        BY <1>a, <2>1, <3>2
      <4>2. inbound[i].tag \notin asked /\ inbound[i].tag # r
        BY <1>11, <2>7, <4>1, Zenon DEF AnsweredOnce
      <4> QED BY <2>1, <4>1, <4>2
    <3>3. ASSUME Dispatching', PlainNext(packet'.tag)
          PROVE  /\ packet'.tag \notin asked'
                 /\ \A i \in 1..Len(inbound') : inbound'[i].tag # packet'.tag
      <4>1. Dispatching /\ Plain(packet.tag) /\ packet'.tag = packet.tag
        BY <1>a, <2>1, <2>5, <3>3
      <4>2. packet.tag \notin asked /\ packet.tag # r
        BY <1>11, <2>7, <4>1, Zenon DEF AnsweredOnce
      <4>3. \A i \in 1..Len(inbound) : inbound[i].tag # packet.tag
        BY <1>11, <4>1, Zenon DEF AnsweredOnce
      <4> QED BY <2>1, <4>1, <4>2, <4>3
    <3> QED BY <1>c, <3>1, <3>2, <3>3, Zenon
  <2> QED BY <1>1, <1>2, <1>3, <2>6, <2>8 DEF AnswerInv
<1>14. CASE ReaderRead
  <2>1. /\ inbound # <<>> /\ packet' = Head(inbound) /\ inbound' = Tail(inbound)
        /\ asked' = asked /\ ~Dispatching /\ Dispatching'
    BY <1>0, <1>14 DEF ReaderRead, Dispatching, netVars
  <2>2. /\ Len(inbound) \in Nat \ {0} /\ Len(inbound') = Len(inbound) - 1
        /\ \A i \in 1..Len(inbound') : inbound'[i] = inbound[i + 1]
        /\ packet' = inbound[1]
    BY <1>0, <2>1, HeadTailProperties
  <2>3. 1 \in 1..Len(inbound) /\ \A i \in 1..Len(inbound') : i + 1 \in 1..Len(inbound) /\ i + 1 # 1
    BY <2>2
  <2>4. AllExpected'
    BY <1>6, <1>7, <1>8, <2>1, <2>2, <2>3, Zenon
  <2>5. AnsweredOnce'
    <3>0. \A k, l \in 1..Len(inbound) :
            Plain(inbound[k].tag) /\ inbound[k].tag = inbound[l].tag => k = l
      BY <1>11, Zenon DEF AnsweredOnce
    <3>1. ASSUME NEW i \in 1..Len(inbound'), NEW j \in 1..Len(inbound'),
                 PlainNext(inbound'[i].tag), inbound'[i].tag = inbound'[j].tag
          PROVE  i = j
      <4>1. Plain(inbound[i + 1].tag) /\ inbound[i + 1].tag = inbound[j + 1].tag
        BY <1>a, <2>2, <3>1, Zenon
      <4>2. i + 1 \in 1..Len(inbound) /\ j + 1 \in 1..Len(inbound)
        BY <2>3
      <4>3. i + 1 = j + 1
        BY <3>0, <4>1, <4>2, Zenon
      <4> QED BY <2>2, <3>1, <4>3
    <3>2. \A i \in 1..Len(inbound') : PlainNext(inbound'[i].tag) => inbound'[i].tag \notin asked'
      BY <1>11, <1>a, <2>1, <2>2, <2>3, Zenon DEF AnsweredOnce
    <3>3. PlainNext(packet'.tag) => packet'.tag \notin asked'
      BY <1>11, <1>a, <2>1, <2>2, <2>3, Zenon DEF AnsweredOnce
    <3>4. ASSUME PlainNext(packet'.tag), NEW i \in 1..Len(inbound') PROVE inbound'[i].tag # packet'.tag
      BY <1>a, <2>2, <2>3, <3>0, <3>4, Zenon
    <3> QED BY <1>c, <3>1, <3>2, <3>3, <3>4, Zenon
  <2> QED BY <1>1, <1>2, <1>3, <2>4, <2>5 DEF AnswerInv
\* The server adds a packet that nothing else is like.
<1>15. ASSUME NEW p \in Packet \cup {Garbage}, inbound' = Append(inbound, p), ExpectedNext(p),
              UNCHANGED <<pc, packet>>, asked' \subseteq asked, p.tag \notin asked',
              Plain(p.tag) =>
                /\ \A i \in 1..Len(inbound) : inbound[i].tag # p.tag
                /\ Dispatching => packet.tag # p.tag
       PROVE  AnswerInv'
  <2> DEFINE n == Len(inbound)
  <2>1. /\ Len(inbound') = n + 1 /\ inbound'[n + 1] = p
        /\ \A i \in 1..n : inbound'[i] = inbound[i]
    BY <1>0, <1>15, AppendProperties
  <2>2. \A i \in 1..Len(inbound') : i \in 1..n \/ i = n + 1
    BY <1>0, <2>1
  <2>3. Dispatching' <=> Dispatching
    BY <1>15 DEF Dispatching
  <2>4. AllExpected'
    <3>1. \A i \in 1..Len(inbound') : ExpectedNext(inbound'[i])
      BY <1>8, <1>15, <2>1, <2>2, Zenon
    <3> QED BY <1>6, <1>7, <1>9, <1>10, <1>15, <2>3, <3>1, Zenon
  <2>5. AnsweredOnce'
    <3> HIDE DEF n
    <3>1. ASSUME NEW i \in 1..Len(inbound'), NEW j \in 1..Len(inbound'),
                 PlainNext(inbound'[i].tag), inbound'[i].tag = inbound'[j].tag
          PROVE  i = j
      <4>1. Plain(inbound'[i].tag) /\ Plain(inbound'[j].tag)
        BY <1>a, <3>1, Zenon
      <4>2. CASE i \in 1..n /\ j \in 1..n
        BY <1>11, <2>1, <3>1, <4>1, <4>2, Zenon DEF AnsweredOnce, n
      <4>3. CASE i = n + 1 /\ j \in 1..n
        BY <1>15, <2>1, <3>1, <4>1, <4>3, Zenon DEF n
      <4>4. CASE i \in 1..n /\ j = n + 1
        BY <1>15, <2>1, <3>1, <4>1, <4>4, Zenon DEF n
      <4> QED BY <2>2, <4>2, <4>3, <4>4, Zenon
    <3>2. \A i \in 1..Len(inbound') : PlainNext(inbound'[i].tag) => inbound'[i].tag \notin asked'
      BY <1>11, <1>15, <1>a, <2>1, <2>2, Zenon DEF AnsweredOnce, n
    <3>3. Dispatching' /\ PlainNext(packet'.tag) => packet'.tag \notin asked'
      BY <1>11, <1>15, <1>a, <2>3, Zenon DEF AnsweredOnce
    <3>4. ASSUME Dispatching', PlainNext(packet'.tag), NEW i \in 1..Len(inbound')
          PROVE  inbound'[i].tag # packet'.tag
      <4>1. Dispatching /\ Plain(packet.tag) /\ packet' = packet
        BY <1>15, <1>a, <2>3, <3>4, Zenon
      <4>2. CASE i \in 1..n
        BY <1>11, <2>1, <4>1, <4>2, Zenon DEF AnsweredOnce, n
      <4>3. CASE i = n + 1
        BY <1>15, <2>1, <4>1, <4>3, Zenon
      <4> QED BY <2>2, <4>2, <4>3, Zenon
    <3> QED BY <1>c, <3>1, <3>2, <3>3, <3>4, Zenon
  <2> QED BY <1>1, <1>2, <1>3, <2>4, <2>5 DEF AnswerInv
<1>16. ASSUME NEW r \in asked, ServerReply(r) PROVE AnswerInv'
  <2> DEFINE p == [id |-> ReqId[r[1]], tag |-> r]
  <2>1. /\ inbound' = Append(inbound, p) /\ asked' = asked \ {r} /\ UNCHANGED <<pc, packet>>
    BY <1>16, Zenon DEF ServerReply, loopVars
  <2>2. p \in Packet /\ p.tag = r /\ p.id = ReqId[r[1]] /\ r \in Tags
    BY <1>0 DEF Packet, Tags
  <2>3. ExpectedNext(p)
    BY <1>7, <2>2, Zenon DEF ExpectedNext
  <2>4. Plain(r) => \A i \in 1..Len(inbound) : inbound[i].tag # r
    BY <1>11, Zenon DEF AnsweredOnce
  <2>5. Plain(r) /\ Dispatching => packet.tag # r
    BY <1>11, Zenon DEF AnsweredOnce
  <2> HIDE DEF p
  <2> QED BY <1>15, <2>1, <2>2, <2>3, <2>4, <2>5, Zenon
<1>17. ASSUME NEW i \in EventIds \cup {Nobody}, ServerEvent([id |-> i, tag |-> NoTag])
       PROVE  AnswerInv'
  <2> DEFINE p == [id |-> i, tag |-> NoTag]
  <2>1. inbound' = Append(inbound, p) /\ UNCHANGED <<asked, pc, packet>>
    BY <1>17, Zenon DEF ServerEvent, loopVars
  <2>2. p \in Packet \cup {Garbage} /\ p.tag = NoTag /\ p.id = i
    BY DEF Packet, Garbage
  <2>3. i \in crossed' \cup {Nobody}
    BY <1>17 DEF ServerEvent
  <2>4. ExpectedNext(p)
    BY <2>2, <2>3, Zenon DEF ExpectedNext
  <2>5. p.tag \notin asked' /\ ~Plain(p.tag)
    BY <1>0, <2>1, <2>2, Zenon DEF Plain
  <2> HIDE DEF p
  <2> QED BY <1>15, <2>1, <2>2, <2>4, <2>5, Zenon
<1>18. TypeOK
  BY DEF IInv
<1> QED BY <1>12, <1>13, <1>14, <1>16, <1>17, <1>18, WayCases, Zenon

\* While only one user asks for an id and it does not come unasked, a packet with
\* that id is the answer to the request that is due.
THEOREM AnswerInvariance == Spec => []AnswerInv
<1>1. IInv /\ AnswerInv /\ [Next]_vars => AnswerInv'
  BY AnswerStep
<1> QED BY <1>1, InitAnswer, Invariance, PTL DEF Spec

\* A caller gets the answer to its own last request, unless requests for its id
\* have met or it has come unasked.
THEOREM AnswersAreOwn == Spec => []AnswerIsOwn
<1>1. AnswerInv => AnswerIsOwn
  BY DEF AnswerInv
<1> QED BY <1>1, AnswerInvariance, PTL

-----------------------------------------------------------------------------
(* The session keeps its promise *)

\* A session starts as Session does.
LEMMA InitRefines == Init => Promise!SessionInit
  BY DEF Init, Promise!SessionInit, phaseOf, reqOf

\* What the user of a session sees does not change when an actor moves on
\* outside the wait for an answer.
LEMMA SameRequests ==
  ASSUME IInv, chan' = chan,
         NEW a \in Actors, NEW l, pc' = [pc EXCEPT ![a] = l],
         pc[a] # "await", l # "await"
  PROVE  reqOf' = reqOf
  BY DEF IInv, TypeOK, reqOf

\* The phase a user sees changes with the write half and the flag alone.
LEMMA SamePhase ==
  ASSUME wire' = wire, isDisconnected' = isDisconnected
  PROVE  phaseOf' = phaseOf
  BY DEF phaseOf

\* A user's request ends, or it had none.
LEMMA RequestEnds ==
  ASSUME IInv, NEW u \in Users, chan' = [chan EXCEPT ![u] = "none"],
         NEW l, pc' = [pc EXCEPT ![u] = l]
  PROVE  \/ reqOf[u] # "none" /\ reqOf' = [reqOf EXCEPT ![u] = "none"]
         \/ reqOf' = reqOf
  BY DEF IInv, TypeOK, reqOf

\* The step is one of Session or leaves its variables alone.
Refines == [Promise!SessionNext]_Promise!sessionVars

\* Every step of the session is a step of Session, or none.
LEMMA StepRefines == ASSUME IInv, [Next]_vars PROVE Refines
<1> USE DEF IInv, TypeOK, Go, Return, sendVars, reqVars, hookVars
<1> USE DEF Promise!sessionVars, Promise!SessionNext, Refines
<1>1. ASSUME NEW u \in Users, (\E o \in Ops[u] : Call(u, o)) \/ ReqCheck(u) \/ SendLock(u)
      PROVE Refines
  <2>1. chan' = chan /\ wire' = wire /\ isDisconnected' = isDisconnected /\ handler' = handler
    BY <1>1, Zenon DEF Call, ReqCheck, SendLock
  <2>2. pc[u] # "await" /\ \E l : l # "await" /\ pc' = [pc EXCEPT ![u] = l]
    <3>1. ASSUME NEW o \in Ops[u], Call(u, o)
          PROVE pc[u] = "idle" /\ EntryOf[o] # "await" /\ pc' = [pc EXCEPT ![u] = EntryOf[o]]
      BY <3>1 DEF Call, EntryOf
    <3>2. CASE ReqCheck(u) \/ SendLock(u)
      BY <3>2 DEF ReqCheck, SendLock
    <3> QED BY <1>1, <3>1, <3>2
  <2>3. reqOf' = reqOf
    <3> HIDE DEF IInv, TypeOK
    <3> QED BY <2>1, <2>2, SameRequests
  <2> HIDE DEF IInv, TypeOK, Promise!SessionNext
  <2>4. phaseOf' = phaseOf
    BY <2>1, SamePhase
  <2> QED BY ONLY <2>1, <2>3, <2>4 DEF Refines, Promise!sessionVars
<1>2. ASSUME NEW u \in Users, ReqInsert(u) PROVE Refines
  <2>1. reqOf[u] = "none" /\ reqOf' = [reqOf EXCEPT ![u] = "made"]
    <3>1. chan[u] = "none" /\ chan'[u] = "open" /\ pc'[u] = "check"
      BY <1>2 DEF ReqInsert, RequestInv, ChanInCall
    <3>2. ASSUME NEW v \in Users, v # u
          PROVE  /\ pc'[v] = pc[v]
                 /\ chan'[v] = chan[v] \/ (chan[v] = "open" /\ chan'[v] = "dropped")
      BY <1>2, <3>2 DEF ReqInsert
    <3>3. reqOf'[u] = "made" /\ \A v \in Users \ {u} : reqOf'[v] = reqOf[v]
      <4> HIDE DEF IInv, TypeOK, Promise!SessionNext
      <4> QED BY <3>1, <3>2 DEF reqOf
    <3>4. reqOf[u] = "none"
      BY <3>1, Zenon DEF reqOf
    <3>5. reqOf' = [v \in Users |-> reqOf'[v]] /\ reqOf = [v \in Users |-> reqOf[v]]
      BY Zenon DEF reqOf
    <3> QED BY ONLY <3>3, <3>4, <3>5
  <2>2. wire' = wire /\ isDisconnected' = isDisconnected /\ handler' = handler
    BY <1>2, Zenon DEF ReqInsert
  <2>3. Promise!Make(u)
    BY <2>1, <2>2, SamePhase DEF Promise!Make
  <2> QED BY <2>3
<1>3. ASSUME NEW u \in Users, SendCheck(u) PROVE Refines
  <2>1. wire' = wire /\ isDisconnected' = isDisconnected /\ handler' = handler
    BY <1>3 DEF SendCheck
  <2>2. CASE isDisconnected
    <3>1. chan' = [chan EXCEPT ![u] = "none"] /\ pc' = [pc EXCEPT ![u] = "idle"]
      BY <1>3, <2>2, Zenon DEF SendCheck
    <3> QED BY <2>1, <3>1, RequestEnds, SamePhase DEF Promise!End
  <2>3. CASE ~isDisconnected
    <3>1. chan' = chan /\ pc[u] = "check" /\ pc' = [pc EXCEPT ![u] = "write"]
      BY <1>3, <2>3, Zenon DEF SendCheck
    <3> QED BY <2>1, <3>1, SameRequests, SamePhase
  <2> QED BY <2>2, <2>3
<1>4. ASSUME NEW u \in Users, SendDone(u) PROVE Refines
  <2>1. /\ pc[u] = "writing" /\ chan' = chan /\ wire = "up" /\ wire' = wire
        /\ isDisconnected' = isDisconnected /\ handler' = handler
    BY <1>4 DEF SendDone
  <2>2. CASE chan[u] = "none"
    <3>1. pc' = [pc EXCEPT ![u] = "idle"]
      BY <1>4, <2>2 DEF SendDone
    <3> QED BY <2>1, <3>1, SameRequests, SamePhase
  <2>3. CASE chan[u] # "none"
    <3>1. pc' = [pc EXCEPT ![u] = "await"]
      BY <1>4, <2>3 DEF SendDone
    <3>2. CASE chan[u] = "full"
      BY <2>1, <3>1, <3>2, SamePhase DEF reqOf
    <3>3. CASE chan[u] # "full"
      <4>1. phaseOf = "open"
        BY <2>1, Zenon DEF phaseOf, TeardownInv, ShutFirst
      <4>2. reqOf[u] = "made" /\ reqOf' = [reqOf EXCEPT ![u] = "sent"]
        BY <2>1, <2>3, <3>1, <3>3 DEF reqOf
      <4> QED BY <2>1, <4>1, <4>2, SamePhase DEF Promise!Send
    <3> QED BY <3>2, <3>3
  <2> QED BY <2>2, <2>3
<1>5. ASSUME NEW u \in Users, SendFail(u) \/ Receive(u) \/ GiveUp(u) PROVE Refines
  <2>1. /\ wire' = wire /\ isDisconnected' = isDisconnected /\ handler' = handler
        /\ chan' = [chan EXCEPT ![u] = "none"]
        /\ \E l : pc' = [pc EXCEPT ![u] = l]
    BY <1>5, Zenon DEF SendFail, Receive, GiveUp
  <2> QED BY <2>1, RequestEnds, SamePhase DEF Promise!End
<1>6. ASSUME NEW a \in Actors, Teardown(a) PROVE Refines
  <2>1. /\ chan' = chan /\ pc[a] # "await"
        /\ \E l : l # "await" /\ pc' = [pc EXCEPT ![a] = l]
    BY <1>6 DEF Teardown, DisconnectEnter, DisconnectShutdown, DisconnectMark, TakeJoinSet, Join,
                CallHandler, HandlerDone
  <2>2. reqOf' = reqOf
    BY <2>1, SameRequests
  <2>3. CASE DisconnectEnter(a) \/ TakeJoinSet(a) \/ Join(a)
    <3>1. wire' = wire /\ isDisconnected' = isDisconnected /\ handler' = handler
      BY <2>3, Zenon DEF DisconnectEnter, TakeJoinSet, Join
    <3> QED BY <2>2, <3>1, SamePhase
  <2>4. CASE DisconnectShutdown(a)
    <3>1. ~isDisconnected /\ wire # "shut"
      BY <2>4 DEF DisconnectShutdown, TeardownInv, FlagLock, ShutFirst
    <3>2. phaseOf = "open" /\ phaseOf' = "shut"
      BY <2>4, <3>1, Zenon DEF DisconnectShutdown, phaseOf
    <3> QED BY <2>2, <2>4, <3>2 DEF DisconnectShutdown, Promise!Shut
  <2>5. CASE DisconnectMark(a)
    <3>1. ~isDisconnected /\ wire = "shut"
      BY <2>5 DEF DisconnectMark, TeardownInv, FlagLock, ShutFirst
    <3>2. phaseOf = "shut" /\ phaseOf' = "closed"
      BY <2>5, <3>1, Zenon DEF DisconnectMark, phaseOf
    <3> QED BY <2>2, <2>5, <3>2 DEF DisconnectMark, Promise!Close
  <2>6. CASE CallHandler(a)
    <3>1. wire' = wire /\ isDisconnected' = isDisconnected
      BY <2>6 DEF CallHandler
    <3>2. phaseOf = "closed"
      BY <2>6, Zenon DEF CallHandler, TeardownInv, OneTeardown, AfterMark, phaseOf
    <3>3. handler' = handler \/ (handler = "never" /\ handler' = "running")
      BY <2>6, Zenon DEF CallHandler, TeardownInv, HandlerState
    <3> QED BY <2>2, <3>1, <3>2, <3>3, SamePhase DEF Promise!StartHandler
  <2>7. CASE HandlerDone(a)
    <3>1. handler = "running"
      BY <2>7, Zenon DEF HandlerDone, TeardownInv, HandlerState
    <3> QED BY <2>2, <2>7, <3>1, SamePhase DEF HandlerDone, Promise!EndHandler
  <2> QED BY <1>6, <2>3, <2>4, <2>5, <2>6, <2>7 DEF Teardown
<1>7. CASE DispatchResponse
  <2> DEFINE u == pending[packet.id]
  <2>1. u \in Users
    BY <1>7 DEF DispatchResponse, RequestInv, DispatchParsed, Packet
  <2>2. wire' = wire /\ isDisconnected' = isDisconnected /\ handler' = handler
    BY <1>7 DEF DispatchResponse
  <2>3. pc' = [pc EXCEPT ![Reader] = "select"]
    BY <1>7 DEF DispatchResponse
  <2>4. CASE chan[u] = "open"
    <3>1. chan' = [chan EXCEPT ![u] = "full"]
      BY <1>7, <2>4 DEF DispatchResponse
    <3>2. reqOf[u] \in {"made", "sent"}
      BY <2>1, <2>4 DEF reqOf
    <3>3. reqOf' = [reqOf EXCEPT ![u] = "answered"]
      <4> HIDE DEF u
      <4>1. \A v \in Users : pc'[v] = pc[v]
        BY <2>3
      <4> QED BY <2>1, <2>4, <3>1, <4>1 DEF reqOf
    <3> QED BY <2>1, <2>2, <3>2, <3>3, SamePhase DEF Promise!Answer
  <2>5. CASE chan[u] # "open"
    <3>1. chan' = chan
      BY <1>7, <2>5 DEF DispatchResponse
    <3>2. reqOf' = reqOf
      BY <2>3, <3>1 DEF reqOf
    <3> QED BY <2>2, <3>2, SamePhase
  <2> QED BY <2>4, <2>5
<1>8. CASE ReaderRead \/ ReaderError \/ ReaderPanic \/ ReaderStop \/ DispatchEvent \/ SpawnEnd
  <2>1. chan' = chan /\ wire' = wire /\ isDisconnected' = isDisconnected /\ handler' = handler
    BY <1>8, Zenon DEF ReaderRead, ReaderError, ReaderPanic, ReaderStop, DispatchEvent, SpawnEnd
  <2>2. pc[Reader] # "await" /\ \E l : l # "await" /\ pc' = [pc EXCEPT ![Reader] = l]
    BY <1>8 DEF ReaderRead, ReaderError, ReaderPanic, ReaderStop, DispatchEvent, SpawnEnd
  <2> QED BY <2>1, <2>2, SameRequests, SamePhase
<1>9. CASE SpawnCallback \/ (\E c \in Callbacks : CallbackStep(c)) \/ Environment \/ UNCHANGED vars
  <2>1. pc' = pc /\ chan' = chan /\ wire' = wire /\ isDisconnected' = isDisconnected
                 /\ handler' = handler
    BY <1>9, Zenon DEF SpawnCallback, CallbackStep, CallbackStart, CallbackFinish, CancelCallback,
       Environment, RegisterEventHandler, RegisterDisconnectHandler, ServerReply, ServerEvent,
       PeerClose, vars
  <2> QED BY <2>1, SamePhase DEF reqOf
<1>10. CASE CancelReader
  <2>1. wire' = wire /\ isDisconnected' = isDisconnected /\ chan' = chan
    BY <1>10 DEF CancelReader
  <2>2. pc' = [pc EXCEPT ![Reader] = "gone"]
    BY <1>10 DEF CancelReader
  <2>3. reqOf' = reqOf
    BY <2>1, <2>2 DEF reqOf
  <2>4. handler' = handler \/ (handler = "running" /\ handler' = "cut")
    BY <1>10, Zenon DEF CancelReader, TeardownInv, HandlerState
  <2> QED BY <2>1, <2>3, <2>4, SamePhase DEF Promise!EndHandler
<1> HIDE DEF Refines
<1>11. CASE Next
  <2>1. ASSUME NEW u \in Users, UserStep(u) PROVE Refines
    <3>1. CASE Teardown(u)
      BY <3>1, <1>6
    <3> QED BY <2>1, <3>1, <1>1, <1>2, <1>3, <1>4, <1>5 DEF UserStep, OwnStep, WriteEnd
  <2>2. CASE ReaderStep
    <3>1. CASE Teardown(Reader)
      BY <3>1, <1>6
    <3> QED BY <2>2, <3>1, <1>7, <1>8, <1>9, <1>10 DEF ReaderStep
  <2> QED BY <1>11, <2>1, <2>2, <1>1, <1>9 DEF Next
<1> QED BY <1>9, <1>11

\* A GClient session implements Session.
THEOREM ImplementsSession == Spec => KeepsPromise
<1>1. IInv /\ [Next]_vars => [Promise!SessionNext]_Promise!sessionVars
  BY StepRefines DEF Refines
<1> QED BY InitRefines, <1>1, Invariance, PTL DEF Spec, KeepsPromise, Promise!SessionSpec
=============================================================================
