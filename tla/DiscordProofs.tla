----------------------------- MODULE DiscordProofs -----------------------------
(***************************************************************************)
(* What the reconnecting of main.rs keeps, for any number of sessions, and *)
(* what the Discord front end keeps with it, for any number of commands,   *)
(* calls of ready, clients and sessions.  Reconnect's invariant says which *)
(* session each step of main and of the handler deals with: the first for  *)
(* main, the second for the handler.  A step of Discord is a step of       *)
(* Reconnect or leaves Reconnect's variables alone, so that this invariant *)
(* holds here too, and says on which session a command can find itself.    *)
(***************************************************************************)
EXTENDS Discord, FiniteSetTheorems, TLAPS

-----------------------------------------------------------------------------
(* Reconnect *)

USE ConstantsOK DEF ConstantsOK

\* The program starts in the invariant: there is no session yet.
LEMMA InitInv == Init => IInv
  BY SMT DEF Init, IInv, TypeOK, FirstSession, SecondSession, Steps, Sessions

\* main opens the first session when none is open.
LEMMA OpenFirst ==
  ASSUME TypeOK, \A s \in Sessions : sess[s] = "none", Open("main")
  PROVE  /\ 1 \in Sessions
         /\ sess' = [sess EXCEPT ![1] = "open"]
         /\ target' = [target EXCEPT !["main"] = 1]
  <1>1. PICK s \in Sessions : /\ \A t \in Sessions : t < s => sess[t] # "none"
                              /\ sess' = [sess EXCEPT ![s] = "open"]
                              /\ target' = [target EXCEPT !["main"] = s]
    BY DEF Open
  <1>2. 1 \in Sessions
    BY SMT DEF Sessions
  <1>3. s = 1
    BY <1>1, <1>2, SMT DEF Sessions
  <1> QED BY <1>1, <1>2, <1>3

\* The handler opens the second, when the first is over and there is no other.
LEMMA OpenSecond ==
  ASSUME TypeOK, sess[1] = "over",
         \A s \in Sessions : s > 1 => sess[s] = "none",
         Open("handler")
  PROVE  /\ 2 \in Sessions
         /\ sess' = [sess EXCEPT ![2] = "open"]
         /\ target' = [target EXCEPT !["handler"] = 2]
  <1>1. PICK s \in Sessions : /\ sess[s] = "none"
                              /\ \A t \in Sessions : t < s => sess[t] # "none"
                              /\ sess' = [sess EXCEPT ![s] = "open"]
                              /\ target' = [target EXCEPT !["handler"] = s]
    BY DEF Open
  <1>2. s > 1
    BY <1>1, SMT DEF Sessions
  <1>3. 2 \in Sessions /\ s = 2
    BY <1>1, <1>2, SMT DEF Sessions
  <1> QED BY <1>1, <1>3

\* Every step of main, of the handler and of a session keeps the invariant.
LEMMA InvStep == IInv /\ [Next]_vars => IInv'
  <1> SUFFICES ASSUME IInv, [Next]_vars PROVE IInv'
    OBVIOUS
  <1> USE DEF IInv, TypeOK, FirstSession, SecondSession, Steps, Running
  <1>1. CASE MainConnect
    <2>1. CASE Open("main") /\ main' = "set"
      <3>1. /\ 1 \in Sessions
            /\ sess' = [sess EXCEPT ![1] = "open"]
            /\ target' = [target EXCEPT !["main"] = 1]
        BY <1>1, <2>1, OpenFirst DEF MainConnect
      <3> QED BY <1>1, <2>1, <3>1, SMT DEF MainConnect, Sessions
    <2>2. CASE main' = "failed" /\ UNCHANGED <<sess, target>>
      BY <1>1, <2>2, SMT DEF MainConnect
    <2> QED BY <1>1, <2>1, <2>2 DEF MainConnect
  <1>2. CASE MainSet
    BY <1>2, SMT DEF MainSet, sessVars, Sessions
  <1>3. CASE MainRegister
    BY <1>3, SMT DEF MainRegister, Sessions
  <1>4. CASE MainLookup
    BY <1>4, SMT DEF MainLookup, LoginLookup, sessVars
  <1>5. CASE MainSend
    <2>1. /\ main' \in {"codec", "up", "failed"}
          /\ \/ client \in Sessions /\ logins' = [logins EXCEPT ![client] = @ + 1]
             \/ logins' = logins
      BY <1>5, SMT DEF MainSend, LoginSend
    <2>2. UNCHANGED <<kind, handler, target, client, sess, ender, hooked, keyed>>
      BY <1>5 DEF MainSend, sessVars
    <2>3. /\ logins' \in [Sessions -> Nat]
          /\ 2 \in Sessions /\ logins[2] > 0 => logins'[2] > 0
      BY <2>1, SMT
    <2>4. kind = "rc" /\ handler \in {"codec", "success"} => logins'[2] > 0
      BY <2>3, SMT
    <2> QED BY <1>5, <2>1, <2>2, <2>3, <2>4, SMT DEF MainSend
  <1>6. CASE MainCodec
    <2>1. main' \in {"failed", "up"} /\ main = "codec"
      BY <1>6 DEF MainCodec
    <2>2. UNCHANGED <<kind, handler, target, client, sess, ender, hooked, logins>>
      BY <1>6 DEF MainCodec, sessVars
    <2>3. target.main \in Sessions
      BY <2>1, SMT
    <2>4. keyed \subseteq keyed' /\ keyed' \in SUBSET Sessions
      BY <1>6, <2>3 DEF MainCodec
    <2> QED BY <2>1, <2>2, <2>4, SMT
  <1>7. CASE HandlerClear
    BY <1>7, SMT DEF HandlerClear, sessVars
  <1>8. CASE HandlerConnect
    <2>1. CASE Open("handler") /\ handler' = "set"
      <3>1. /\ 2 \in Sessions
            /\ sess' = [sess EXCEPT ![2] = "open"]
            /\ target' = [target EXCEPT !["handler"] = 2]
        BY <1>8, <2>1, OpenSecond DEF HandlerConnect
      <3> QED BY <1>8, <2>1, <3>1, SMT DEF HandlerConnect, Sessions
    <2>2. CASE /\ handler' = IF kind = "rc" THEN "failed" ELSE "panicked"
               /\ UNCHANGED <<sess, target>>
      BY <1>8, <2>2, SMT DEF HandlerConnect
    <2> QED BY <1>8, <2>1, <2>2 DEF HandlerConnect
  <1>9. CASE HandlerSet
    BY <1>9, SMT DEF HandlerSet, sessVars, Sessions
  <1>10. CASE HandlerLookup
    BY <1>10, SMT DEF HandlerLookup, LoginLookup, sessVars
  <1>11. CASE HandlerSend
    BY <1>11, SMT DEF HandlerSend, LoginSend, sessVars, Sessions
  <1>12. CASE HandlerCodec
    <2>1. handler' \in {"failed", "success"} /\ handler = "codec"
      BY <1>12 DEF HandlerCodec
    <2>2. UNCHANGED <<kind, main, target, client, sess, ender, hooked, logins>>
      BY <1>12 DEF HandlerCodec, sessVars
    <2>3. target.handler = 2 /\ 2 \in Sessions
      BY <2>1, SMT
    <2>4. keyed' = keyed \cup {2} /\ keyed' \in SUBSET Sessions
      BY <1>12, <2>3 DEF HandlerCodec
    <2> QED BY <2>1, <2>2, <2>4, SMT
  <1>13. CASE HandlerCut
    BY <1>13, SMT DEF HandlerCut, sessVars
  <1>14. ASSUME NEW s \in Sessions, CallHandler(s) PROVE IInv'
    <2>1. s \in {1, 2}
      BY <1>14, SMT DEF CallHandler, Sessions
    <2> QED BY <1>14, <2>1, SMT DEF CallHandler, Sessions
  <1>15. ASSUME NEW s \in Sessions, NEW who \in Enders, SessionEnds(s, who) PROVE IInv'
    <2>1. s \in {1, 2}
      BY <1>15, SMT DEF SessionEnds, Sessions
    <2> QED BY <1>15, <2>1, SMT DEF SessionEnds, taskVars, Sessions
  <1>16. CASE UNCHANGED vars
    BY <1>16, SMT DEF vars, taskVars, sessVars
  <1> QED
    BY <1>1, <1>2, <1>3, <1>4, <1>5, <1>6, <1>7, <1>8, <1>9, <1>10, <1>11, <1>12, <1>13,
       <1>14, <1>15, <1>16 DEF Next, MainStep, HandlerStep

\* main and its handler always stand where the invariant says.
THEOREM Invariance == Spec => []IInv
  BY InitInv, InvStep, PTL DEF Spec

\* The client opens a connection only when the one before it has been torn down.
THEOREM OneAtATime == Spec => []OneConnection
  <1>1. IInv => OneConnection
    BY SMT DEF IInv, TypeOK, FirstSession, SecondSession, OneConnection, Sessions
  <1> QED BY <1>1, Invariance, PTL

\* What the RC's handler reports as a success is one: the session it opened is
\* the client's, has had its login and has its key.
THEOREM SuccessHolds == Spec => []SuccessIsLoggedIn
  <1>1. IInv => SuccessIsLoggedIn
    BY SMT DEF IInv, TypeOK, FirstSession, SecondSession, SuccessIsLoggedIn
  <1> QED BY <1>1, Invariance, PTL

-----------------------------------------------------------------------------
(* Discord in front of it *)

USE DiscordOK DEF DiscordOK

\* It all starts in the invariant: nothing is connected and no command runs.
LEMMA DInitInv == DInit => DInv
  <1> SUFFICES ASSUME DInit PROVE DInv
    OBVIOUS
  <1>1. IInv
    BY InitInv DEF DInit
  <1>2. DTypeOK
    BY SMT DEF DInit, DTypeOK, Clients, Mine
  <1>3. CommandInv /\ AnswerTellsReach
    BY SMT DEF DInit, CommandInv, AnswerTellsReach
  <1>4. ClientInv /\ EarlyOnReplacement
    BY SMT DEF DInit, Init, ClientInv, EarlyOnReplacement
  <1> QED BY <1>1, <1>2, <1>3, <1>4 DEF DInv

\* A step of the whole is a step of Reconnect, or leaves its variables alone.
LEMMA CoreStep == DInv /\ [DNext]_<<vars, dvars>> => [Next]_vars
  <1> SUFFICES ASSUME DInv, [DNext]_<<vars, dvars>> PROVE [Next]_vars
    OBVIOUS
  <1>1. CASE Next
    BY <1>1
  <1>2. ASSUME NEW r \in Readies, Ready(r) \/ RegisterMine(r) \/ RegisterOther(r)
        PROVE  UNCHANGED vars
    BY <1>2 DEF Ready, RegisterMine, RegisterOther
  <1>3. ASSUME NEW s \in Sessions, Dispatch(s) PROVE UNCHANGED vars
    BY <1>3 DEF Dispatch
  <1>4. ASSUME NEW e \in 1..Len(running), Report(e) PROVE UNCHANGED vars
    BY <1>4 DEF Report
  <1>5. ASSUME NEW c \in Commands, Interact(c) PROVE UNCHANGED vars
    BY <1>5 DEF Interact
  <1>6. ASSUME NEW c \in Commands, CommandStep(c) PROVE [Next]_vars
    <2>1. CASE TearDown(c)
      <3>1. aim[c] \in Sessions /\ SessionEnds(aim[c], "caller")
        BY <2>1 DEF TearDown, DInv, CommandInv
      <3> QED BY <3>1 DEF Next
    <2>2. CASE ~TearDown(c)
      BY <1>6, <2>2 DEF CommandStep, Refuse, Begin, CallOther, Lookup, Write, Answered, Refused,
                        TornDown, CallNc, Finish, FollowUp
    <2> QED BY <2>1, <2>2
  <1>7. CASE UNCHANGED <<vars, dvars>>
    BY <1>7
  <1> QED BY <1>1, <1>2, <1>3, <1>4, <1>5, <1>6, <1>7 DEF DNext

\* A session once opened stays so, one that is over stays over, no login is
\* forgotten, and main does not leave its last state.
LEMMA Monotone ==
  ASSUME IInv, [Next]_vars
  PROVE  /\ \A s \in Sessions : /\ sess[s] # "none" => sess'[s] # "none"
                                /\ sess[s] = "over" => sess'[s] = "over"
                                /\ logins'[s] >= logins[s]
         /\ main = "up" => main' = "up"
  <1> USE DEF IInv, TypeOK
  <1>1. CASE MainConnect
    BY <1>1, SMT DEF MainConnect, Open
  <1>2. CASE MainSet \/ MainRegister \/ MainCodec
    BY <1>2, SMT DEF MainSet, MainRegister, MainCodec, sessVars
  <1>3. CASE MainLookup
    BY <1>3, SMT DEF MainLookup, LoginLookup, sessVars
  <1>4. CASE MainSend
    BY <1>4, SMT DEF MainSend, LoginSend, sessVars
  <1>5. CASE HandlerConnect
    BY <1>5, SMT DEF HandlerConnect, Open
  <1>6. CASE HandlerClear \/ HandlerSet \/ HandlerCodec \/ HandlerCut
    BY <1>6, SMT DEF HandlerClear, HandlerSet, HandlerCodec, HandlerCut, sessVars
  <1>7. CASE HandlerLookup
    BY <1>7, SMT DEF HandlerLookup, LoginLookup, sessVars
  <1>8. CASE HandlerSend
    BY <1>8, SMT DEF HandlerSend, LoginSend, sessVars
  <1>9. ASSUME NEW s \in Sessions, CallHandler(s)
        PROVE  /\ sess' = [sess EXCEPT ![s] = "over"] /\ sess[s] = "ending"
               /\ UNCHANGED <<main, logins>>
    BY <1>9 DEF CallHandler
  <1>10. ASSUME NEW s \in Sessions, NEW who \in Enders, SessionEnds(s, who)
         PROVE  /\ sess' = [sess EXCEPT ![s] = "ending"] /\ sess[s] = "open"
                /\ UNCHANGED <<main, logins>>
    BY <1>10 DEF SessionEnds, taskVars
  <1>11. CASE UNCHANGED vars
    BY <1>11, SMT DEF vars, taskVars, sessVars
  <1> QED
    BY <1>1, <1>2, <1>3, <1>4, <1>5, <1>6, <1>7, <1>8, <1>9, <1>10, <1>11, SMT
       DEF Next, MainStep, HandlerStep

\* Every step of Reconnect keeps what commands and ready know of its sessions.
LEMMA ClientStep ==
  ASSUME IInv, ClientInv, [Next]_vars
  PROVE  ClientInv'
  <1> USE DEF IInv, TypeOK, FirstSession, SecondSession, ClientInv, Steps
  <1>1. CASE MainConnect
    <2>1. CASE Open("main") /\ main' = "set"
      <3>1. /\ 1 \in Sessions
            /\ sess' = [sess EXCEPT ![1] = "open"]
            /\ target' = [target EXCEPT !["main"] = 1]
        BY <1>1, <2>1, OpenFirst DEF MainConnect
      <3> QED BY <1>1, <2>1, <3>1, SMT DEF MainConnect, Sessions
    <2>2. CASE main' = "failed" /\ UNCHANGED <<sess, target>>
      BY <1>1, <2>2, SMT DEF MainConnect
    <2> QED BY <1>1, <2>1, <2>2 DEF MainConnect
  <1>2. CASE MainSet
    BY <1>2, SMT DEF MainSet, sessVars, Sessions
  <1>3. CASE MainRegister
    BY <1>3, SMT DEF MainRegister
  <1>4. CASE MainLookup
    BY <1>4, SMT DEF MainLookup, LoginLookup, sessVars
  <1>5. CASE MainSend
    <2>1. UNCHANGED <<handler, target, client, sess>> /\ main' \in {"codec", "up", "failed"}
      BY <1>5, SMT DEF MainSend, LoginSend, sessVars
    <2>2. main' \in {"codec", "up"} => logins'[1] > 0 \/ sess[1] = "over"
      <3>1. SUFFICES ASSUME main' \in {"codec", "up"}
                     PROVE  logins'[1] > 0 \/ sess[1] = "over"
        OBVIOUS
      <3>2. /\ client \in Sessions /\ sess[client] = "open"
            /\ logins' = [logins EXCEPT ![client] = @ + 1]
        BY <1>5, <3>1, SMT DEF MainSend, LoginSend
      <3>3. client \in {1, 2}
        BY <3>2, SMT DEF Sessions
      <3>4. CASE client = 1
        BY <3>2, <3>4, SMT
      <3>5. CASE client = 2
        BY <3>2, <3>5, SMT
      <3> QED BY <3>3, <3>4, <3>5
    <2> QED BY <2>1, <2>2, SMT
  <1>6. CASE MainCodec
    <2>1. UNCHANGED <<handler, target, client, sess, logins>> /\ main = "codec"
      BY <1>6 DEF MainCodec, sessVars
    <2> QED BY <2>1, SMT
  <1>7. CASE HandlerClear
    BY <1>7, SMT DEF HandlerClear, sessVars
  <1>8. CASE HandlerConnect
    <2>1. CASE Open("handler") /\ handler' = "set"
      <3>1. /\ 2 \in Sessions
            /\ sess' = [sess EXCEPT ![2] = "open"]
            /\ target' = [target EXCEPT !["handler"] = 2]
        BY <1>8, <2>1, OpenSecond DEF HandlerConnect
      <3> QED BY <1>8, <2>1, <3>1, SMT DEF HandlerConnect, Sessions
    <2>2. CASE /\ handler' = IF kind = "rc" THEN "failed" ELSE "panicked"
               /\ UNCHANGED <<sess, target>>
      BY <1>8, <2>2, SMT DEF HandlerConnect
    <2> QED BY <1>8, <2>1, <2>2 DEF HandlerConnect
  <1>9. CASE HandlerSet
    BY <1>9, SMT DEF HandlerSet, sessVars
  <1>10. CASE HandlerLookup
    BY <1>10, SMT DEF HandlerLookup, LoginLookup, sessVars, Sessions
  <1>11. CASE HandlerSend
    <2>1. /\ UNCHANGED <<main, target, client, sess>>
          /\ handler' \in {"codec", "failed"}
      BY <1>11, SMT DEF HandlerSend, LoginSend, sessVars
    <2>2. 1 \in Sessions
      BY SMT DEF Sessions
    <2>3. logins[1] > 0 => logins'[1] > 0
      <3>1. logins[1] \in Nat /\ logins'[1] \in Nat
        BY <2>2, InvStep
      <3>2. logins'[1] >= logins[1]
        BY <2>2, Monotone
      <3> QED BY <3>1, <3>2, SMT
    <2> QED BY <1>11, <2>1, <2>3, SMT DEF HandlerSend
  <1>12. CASE HandlerCodec
    <2>1. UNCHANGED <<main, target, client, sess, logins>> /\ handler' \in {"failed", "success"}
      BY <1>12 DEF HandlerCodec, sessVars
    <2> QED BY <2>1, SMT
  <1>13. CASE HandlerCut
    BY <1>13, SMT DEF HandlerCut, sessVars
  <1>14. ASSUME NEW s \in Sessions, CallHandler(s) PROVE ClientInv'
    <2>1. s \in {1, 2}
      BY <1>14, SMT DEF CallHandler, Sessions
    <2> QED BY <1>14, <2>1, SMT DEF CallHandler
  <1>15. ASSUME NEW s \in Sessions, NEW who \in Enders, SessionEnds(s, who) PROVE ClientInv'
    <2>1. s \in {1, 2}
      BY <1>15, SMT DEF SessionEnds, Sessions
    <2> QED BY <1>15, <2>1, SMT DEF SessionEnds, taskVars
  <1>16. CASE UNCHANGED vars
    BY <1>16, SMT DEF vars, taskVars, sessVars
  <1> QED
    BY <1>1, <1>2, <1>3, <1>4, <1>5, <1>6, <1>7, <1>8, <1>9, <1>10, <1>11, <1>12, <1>13,
       <1>14, <1>15, <1>16 DEF Next, MainStep, HandlerStep

\* The invariant without the parts that are Reconnect's alone.
LEMMA CoreInv == DInv /\ [DNext]_<<vars, dvars>> => IInv' /\ ClientInv'
  BY CoreStep, InvStep, ClientStep DEF DInv

\* A step of Reconnect alone: nothing was sent early when the second session is
\* opened.
LEMMA StepOfReconnect ==
  ASSUME DInv, Next, UNCHANGED dvars
  PROVE  DInv'
  <1> USE DEF DInv
  <1>0. IInv' /\ ClientInv'
    BY CoreInv DEF DNext
  <1>1. UNCHANGED <<me, next, calls, hooks, running, posts, pc, op, pos, aim,
                    reached, outcome, early>>
    BY DEF dvars, readyVars, eventVars, commandVars
  <1>2. kind' = kind
    BY DEF Next, MainStep, HandlerStep, MainConnect, MainSet, MainRegister, MainLookup, MainSend,
           MainCodec, HandlerClear, HandlerConnect, HandlerSet, HandlerLookup, HandlerSend,
           HandlerCodec, HandlerCut, CallHandler, SessionEnds
  <1>3. DTypeOK' /\ AnswerTellsReach'
    BY <1>1, <1>2 DEF DTypeOK, AnswerTellsReach, Mine
  <1>4. CommandInv'
    <2>1. main = "up" => main' = "up"
      BY Monotone
    <2> QED BY <1>1, <2>1 DEF CommandInv, Online
  <1>5. EarlyOnReplacement'
    <2> USE DEF EarlyOnReplacement, IInv, TypeOK, SecondSession, ClientInv, DTypeOK
    <2>1. CASE MainConnect
      <3>1. target'.handler = target.handler
        BY <2>1, SMT DEF MainConnect, Open
      <3> QED BY <1>1, <3>1
    <2>2. CASE MainLookup
      <3>1. target'.handler = target.handler
        BY <2>2, SMT DEF MainLookup, LoginLookup
      <3> QED BY <1>1, <3>1
    <2>3. CASE HandlerConnect
      <3>1. target.handler = 0
        BY <2>3, SMT DEF HandlerConnect
      <3>2. early = {}
        BY <3>1, SMT DEF Sessions
      <3> QED BY <1>1, <3>2
    <2>4. CASE HandlerLookup
      <3>1. target'.handler = target.handler
        BY <2>4, SMT DEF HandlerLookup, LoginLookup
      <3> QED BY <1>1, <3>1
    <2>5. CASE UNCHANGED target
      BY <1>1, <2>5
    <2> QED
      BY <2>1, <2>2, <2>3, <2>4, <2>5 DEF Next, MainStep, HandlerStep, MainSet, MainRegister,
         MainSend, MainCodec, HandlerClear, HandlerSet, HandlerSend, HandlerCodec, HandlerCut,
         CallHandler, SessionEnds, taskVars
  <1> QED BY <1>0, <1>3, <1>4, <1>5

\* ready and the callbacks touch neither the commands nor the sessions.
LEMMA StepOfReady ==
  ASSUME DInv, UNCHANGED <<vars, me, commandVars>>, DTypeOK'
  PROVE  DInv'
  <1> USE DEF DInv
  <1>1. /\ UNCHANGED <<kind, main, handler, target, client, sess, ender, hooked, logins, keyed>>
        /\ UNCHANGED <<me, pc, op, pos, aim, reached, outcome, early>>
    BY DEF vars, taskVars, sessVars, commandVars
  <1>2. IInv' /\ ClientInv'
    BY <1>1 DEF IInv, TypeOK, FirstSession, SecondSession, ClientInv
  <1>3. CommandInv' /\ AnswerTellsReach' /\ EarlyOnReplacement'
    BY <1>1 DEF CommandInv, Online, AnswerTellsReach, EarlyOnReplacement
  <1> QED BY <1>2, <1>3

\* A handler is registered on the session the client has.
LEMMA RegisterStep ==
  ASSUME DInv, NEW r \in Readies, Ready(r) \/ RegisterMine(r) \/ RegisterOther(r)
  PROVE  DInv'
  <1> USE DEF DInv, DTypeOK
  <1>1. CASE Ready(r)
    <2>1. 1 \in Clients
      BY SMT DEF Clients
    <2>2. DTypeOK'
      BY <1>1, <2>1, SMT DEF Ready, eventVars, commandVars, Mine, vars
    <2> QED BY <1>1, <2>2, StepOfReady DEF Ready
  <1>2. CASE RegisterOther(r)
    <2>1. next' \in [Readies -> Clients \cup {0}]
      BY <1>2 DEF RegisterOther, Proceed, Panic
    <2>2. DTypeOK'
      BY <1>2, <2>1 DEF RegisterOther, eventVars, commandVars, Mine, vars
    <2> QED BY <1>2, <2>2, StepOfReady DEF RegisterOther
  <1>3. CASE RegisterMine(r)
    <2>1. next' \in [Readies -> Clients \cup {0}]
      BY <1>3 DEF RegisterMine, Proceed, Panic
    <2>2. /\ UNCHANGED <<vars, me, calls, eventVars, commandVars>>
          /\ \/ hooks' = hooks
             \/ client # 0 /\ hooks' = [hooks EXCEPT ![client] = @ + 1]
      BY <1>3, Zenon DEF RegisterMine
    <2>3. hooks' \in [Sessions -> Nat]
      <3>1. CASE client # 0 /\ hooks' = [hooks EXCEPT ![client] = @ + 1]
        <4>1. client \in Sessions
          BY <3>1 DEF IInv, TypeOK
        <4>2. hooks[client] + 1 \in Nat
          BY <4>1, SMT
        <4> QED BY <3>1, <4>1, <4>2
      <3> QED BY <2>2, <3>1
    <2>4. DTypeOK'
      BY <2>1, <2>2, <2>3 DEF eventVars, commandVars, Mine, vars
    <2> QED BY <2>2, <2>4, StepOfReady
  <1> QED BY <1>1, <1>2, <1>3

\* A packet is given to the handlers, and one of them posts it or does not.
LEMMA EventStep ==
  ASSUME DInv, \/ \E s \in Sessions : Dispatch(s)
               \/ \E e \in 1..Len(running) : Report(e)
  PROVE  DInv'
  <1> USE DEF DInv, DTypeOK
  <1>1. ASSUME NEW s \in Sessions, Dispatch(s) PROVE DInv'
    <2>1. running' = Append(running, hooks[s]) /\ UNCHANGED <<vars, me, posts, readyVars, commandVars>>
      BY <1>1 DEF Dispatch
    <2>2. running' \in Seq(Nat) /\ Len(running') = Len(running) + 1
      BY <2>1, SMT
    <2>3. posts' \in Seq(1..Len(running'))
      BY <2>1, <2>2, SMT
    <2>4. DTypeOK'
      BY <2>1, <2>2, <2>3 DEF readyVars, commandVars, Mine, vars
    <2> QED BY <2>1, <2>4, StepOfReady DEF readyVars
  <1>2. ASSUME NEW e \in 1..Len(running), Report(e) PROVE DInv'
    <2>1. /\ running[e] > 0 /\ running' = [running EXCEPT ![e] = @ - 1]
          /\ posts' \in {posts, Append(posts, e)}
          /\ UNCHANGED <<vars, me, readyVars, commandVars>>
      BY <1>2 DEF Report
    <2>2. running[e] - 1 \in Nat
      BY <2>1, SMT
    <2>3. running' \in Seq(Nat) /\ Len(running') = Len(running)
      BY <2>1, <2>2, SMT
    <2>4. posts' \in Seq(1..Len(running'))
      <3>1. ASSUME NEW S, posts \in Seq(S), e \in S PROVE Append(posts, e) \in Seq(S)
        BY <3>1, SMT
      <3>2. Append(posts, e) \in Seq(1..Len(running))
        BY <3>1
      <3> QED BY <2>1, <2>3, <3>2
    <2>5. DTypeOK'
      BY <2>1, <2>3, <2>4 DEF readyVars, commandVars, Mine, vars
    <2> QED BY <2>1, <2>5, StepOfReady DEF readyVars
  <1> QED BY <1>1, <1>2
\* What a command leaves alone: the client and what is registered with it.
LEMMA CommandFrame ==
  ASSUME NEW c \in Commands, Interact(c) \/ CommandStep(c)
  PROVE  /\ UNCHANGED <<kind, main, handler, target, client, logins>>
         /\ UNCHANGED <<me, next, calls, hooks, running, posts>>
  BY DEF CommandStep, Interact, Refuse, Begin, CallOther, Lookup, Write, Answered, Refused,
         TearDown, TornDown, CallNc, Finish, FollowUp, SessionEnds, taskVars, sessVars, vars, readyVars,
         eventVars

\* A step of a command keeps its own part of the invariant: the types of what
\* it remembers, where it is, and what its answer says.
LEMMA CommandPart ==
  ASSUME DInv, NEW c \in Commands, Interact(c) \/ CommandStep(c)
  PROVE  /\ pc' \in [Commands -> {"none", "run", "loop", "send", "wait", "tear", "nc", "answer", "over"}]
         /\ op' \in [Commands -> {"chat", "weapon"}]
         /\ pos' \in [Commands -> 1..(RcClients + 1)]
         /\ aim' \in [Commands -> Sessions \cup {0}]
         /\ reached' \in [Commands -> SUBSET (1..RcClients)]
         /\ outcome' \in [Commands -> {"none", "success", "refused", "error"}]
         /\ CommandInv' /\ AnswerTellsReach'
  <1> DEFINE Places == {"none", "run", "loop", "send", "wait", "tear", "nc", "answer", "over"}
  <1> USE DEF DInv, DTypeOK, CommandInv, AnswerTellsReach, Go, Answer, commandVars
  <1>0. UNCHANGED <<main, me>> /\ client \in Sessions \cup {0}
    BY CommandFrame DEF IInv, TypeOK
  <1>1. ASSUME Reach(c), UNCHANGED <<op, aim, outcome>>, pc[c] \in {"loop", "send", "nc"},
               pos[c] \in 1..RcClients
        PROVE  /\ pc' \in [Commands -> Places] /\ pos' \in [Commands -> 1..(RcClients + 1)]
               /\ reached' \in [Commands -> SUBSET (1..RcClients)]
               /\ CommandInv' /\ AnswerTellsReach'
    <2>1. /\ pc' = [pc EXCEPT ![c] = "loop"] /\ pos' = [pos EXCEPT ![c] = @ + 1]
          /\ reached' = [reached EXCEPT ![c] = @ \cup {pos[c]}]
      BY <1>1 DEF Reach
    <2>2. pos[c] + 1 \in 1..(RcClients + 1) /\ reached[c] = 1..(pos[c] - 1)
      BY <1>1, SMT
    <2>3. reached[c] \cup {pos[c]} = 1..(pos[c] + 1 - 1)
      BY <1>1, <2>2, SMT
    <2>4. reached[c] \cup {pos[c]} \in SUBSET (1..RcClients)
      BY <1>1, <2>2, SMT
    <2>5. /\ pc'[c] = "loop" /\ reached'[c] = 1..(pos'[c] - 1)
          /\ pc[c] # "answer" /\ outcome[c] = "none" /\ main = "up"
      BY <1>1, <2>1, <2>2, <2>3 DEF Online
    <2>6. \A d \in Commands \ {c} : pc'[d] = pc[d] /\ pos'[d] = pos[d] /\ reached'[d] = reached[d]
      BY <2>1
    <2>7. CommandInv'
      <3> DEFINE Part(d) ==
            /\ pc[d] # "none" => Online
            /\ pc[d] \in {"none", "run", "over"} => pos[d] = 1 /\ reached[d] = {}
            /\ pc[d] # "answer" => outcome[d] = "none"
            /\ pc[d] \in {"loop", "send", "wait", "tear", "nc"} => reached[d] = 1..(pos[d] - 1)
            /\ pc[d] \in {"send", "wait", "tear", "nc"} => pos[d] = me /\ me <= RcClients
            /\ pc[d] \in {"send", "wait", "tear"} => aim[d] \in Sessions
      <3>1. main' = main /\ me' = me /\ aim' = aim /\ outcome' = outcome
        BY <1>0, <1>1
      <3>2. Part(c)'
        BY <2>5, <3>1, Zenon DEF Online
      <3>3. ASSUME NEW d \in Commands \ {c} PROVE Part(d)'
        <4>1. Part(d) /\ d # c
          BY Zenon
        <4>2. pc'[d] = pc[d] /\ pos'[d] = pos[d] /\ reached'[d] = reached[d]
          BY <2>6
        <4> QED BY <3>1, <4>1, <4>2, Zenon DEF Online
      <3>4. \A d \in Commands : Part(d)'
        <4> HIDE DEF Part, DInv, DTypeOK, CommandInv, AnswerTellsReach
        <4> QED BY <3>2, <3>3, Zenon
      <3> QED BY ONLY <3>4 DEF CommandInv
    <2>8. AnswerTellsReach'
      <3>1. outcome' = outcome /\ outcome[c] = "none" /\ RcClients' = RcClients
        BY <1>1, <2>5
      <3>2. ASSUME NEW d \in Commands
            PROVE  /\ outcome'[d] = "success" => reached'[d] = 1..RcClients
                   /\ outcome'[d] = "refused" => reached'[d] = {}
                   /\ outcome'[d] = "error" => pos'[d] <= RcClients /\ reached'[d] = 1..(pos'[d] - 1)
        <4>1. CASE d = c
          BY <3>1, <4>1, Zenon
        <4>2. CASE d # c
          <5>1. pos'[d] = pos[d] /\ reached'[d] = reached[d]
            BY <2>6, <4>2
          <5> QED BY <3>1, <5>1, Zenon
        <4> QED BY <4>1, <4>2
      <3> QED BY ONLY <3>2 DEF AnswerTellsReach
    <2> QED BY <2>1, <2>2, <2>4, <2>7, <2>8
  <1>2. CASE Interact(c)
    <2>1. /\ pc[c] = "none" /\ Online
          /\ pc' = [pc EXCEPT ![c] = "run"] \/ pc' = [pc EXCEPT ![c] = "over"]
          /\ UNCHANGED <<op, pos, aim, reached, outcome>>
      BY <1>2 DEF Interact
    <2>2. ASSUME NEW l \in {"run", "over"}, pc' = [pc EXCEPT ![c] = l]
          PROVE  CommandInv' /\ AnswerTellsReach' /\ pc' \in [Commands -> Places]
      BY <1>0, <2>1, <2>2 DEF Online
    <2> QED BY <2>1, <2>2
  <1>3. CASE Refuse(c)
    BY <1>0, <1>3, SMT DEF Refuse, Online
  <1>4. CASE Begin(c)
    <2>1. /\ pc[c] = "run" /\ pc' = [pc EXCEPT ![c] = "loop"]
          /\ UNCHANGED <<pos, aim, reached, outcome>>
      BY <1>4 DEF Begin
    <2>2. op' \in [Commands -> {"chat", "weapon"}]
      <3>1. \E o \in {"chat", "weapon"} : op' = [op EXCEPT ![c] = o]
        BY <1>4, Zenon DEF Begin
      <3> QED BY <3>1
    <2>3. reached[c] = 1..(pos[c] - 1)
      <3>1. reached[c] = {} /\ pos[c] = 1
        BY <2>1
      <3>2. 1..(1 - 1) = {}
        BY SMT
      <3> QED BY <3>1, <3>2
    <2>4. CommandInv' /\ AnswerTellsReach'
      BY <1>0, <2>1, <2>3 DEF Online
    <2> QED BY <2>1, <2>2, <2>4
  <1>5. CASE CallOther(c)
    <2>1. pc[c] = "loop" /\ pos[c] \in 1..RcClients
      BY <1>5 DEF CallOther
    <2>2. CASE Reach(c) /\ UNCHANGED <<op, aim, outcome>>
      BY <1>1, <2>1, <2>2
    <2>3. CASE Answer(c, "error") /\ UNCHANGED <<op, pos, aim, reached>>
      BY <1>0, <2>1, <2>3, SMT DEF Online
    <2>4. CASE End(c)
      BY <1>0, <2>1, <2>4, SMT DEF End, Online
    <2> QED BY <1>5, <2>2, <2>3, <2>4 DEF CallOther
  <1>6. CASE Lookup(c)
    <2>1. /\ pc[c] = "loop" /\ pos[c] = me /\ me <= RcClients
          /\ UNCHANGED <<op, pos, reached>>
      BY <1>6 DEF Lookup
    <2>2. CASE /\ client # 0 /\ pc' = [pc EXCEPT ![c] = "send"]
               /\ aim' = [aim EXCEPT ![c] = client] /\ outcome' = outcome
      BY <1>0, <2>1, <2>2, SMT DEF Online
    <2>3. CASE Answer(c, "error") /\ aim' = aim
      BY <1>0, <2>1, <2>3, SMT DEF Online
    <2>4. CASE pc' = [pc EXCEPT ![c] = "nc"] /\ UNCHANGED <<aim, outcome>>
      BY <1>0, <2>1, <2>4, SMT DEF Online
    <2> QED BY <1>6, <2>2, <2>3, <2>4 DEF Lookup
  <1>7. CASE Write(c)
    <2>1. /\ pc[c] = "send" /\ pos[c] \in 1..RcClients /\ pos[c] = me /\ me <= RcClients
          /\ UNCHANGED <<op, aim, outcome>>
      BY <1>7, SMT DEF Write
    <2>2. CASE Reach(c)
      BY <1>1, <2>1, <2>2
    <2>3. CASE pc' = [pc EXCEPT ![c] = "wait"] /\ UNCHANGED <<pos, reached>>
      BY <1>0, <2>1, <2>3, SMT DEF Online
    <2> QED BY <1>7, <2>2, <2>3 DEF Write
  <1>8. CASE Answered(c)
    BY <1>0, <1>8, SMT DEF Answered, Online
  <1>9. CASE TearDown(c)
    BY <1>0, <1>9, SMT DEF TearDown, Online
  <1>10. CASE TornDown(c)
    BY <1>0, <1>10, SMT DEF TornDown, Online
  <1>11. CASE CallNc(c)
    <2>1. pc[c] = "nc" /\ pos[c] \in 1..RcClients
      BY <1>11, SMT DEF CallNc
    <2>2. CASE Reach(c) /\ UNCHANGED <<op, aim, outcome>>
      BY <1>1, <2>1, <2>2
    <2>3. CASE Answer(c, "error") /\ UNCHANGED <<op, pos, aim, reached>>
      BY <1>0, <2>1, <2>3, SMT DEF Online
    <2>4. CASE End(c)
      BY <1>0, <2>1, <2>4, SMT DEF End, Online
    <2> QED BY <1>11, <2>2, <2>3, <2>4 DEF CallNc
  <1>12. CASE Finish(c)
    BY <1>0, <1>12, SMT DEF Finish, Online
  <1>13. CASE FollowUp(c)
    BY <1>0, <1>13, SMT DEF FollowUp, End, Online
  <1>14. CASE Refused(c)
    BY <1>0, <1>14, SMT DEF Refused, Online
  <1> QED
    BY <1>2, <1>3, <1>4, <1>5, <1>6, <1>7, <1>8, <1>9, <1>10, <1>11, <1>12, <1>13, <1>14
       DEF CommandStep
\* A command sends in front of the login only on the session that replaced the
\* first: on that one main, which has started Discord, has logged in.
LEMMA CommandStepInv ==
  ASSUME DInv, [DNext]_<<vars, dvars>>, NEW c \in Commands, Interact(c) \/ CommandStep(c)
  PROVE  DInv'
  <1> USE DEF DInv
  <1>1. /\ UNCHANGED <<kind, main, handler, target, client, logins>>
        /\ UNCHANGED <<me, next, calls, hooks, running, posts>>
    BY CommandFrame
  <1>2. EarlyOnReplacement' /\ early' \in SUBSET Sessions
    <2>1. CASE UNCHANGED early
      BY <1>1, <2>1 DEF EarlyOnReplacement, DTypeOK
    <2>2. CASE Write(c) /\ early' # early
      <3>1. /\ sess[aim[c]] = "open" /\ aim[c] \in Sessions /\ main = "up"
            /\ logins[aim[c]] = 0 /\ early' = early \cup {aim[c]}
        BY <2>2 DEF Write, CommandInv, Online
      <3>2. aim[c] # 1
        BY <3>1, SMT DEF ClientInv
      <3>3. aim[c] = target.handler
        BY <3>1, <3>2, SMT DEF ClientInv, Sessions
      <3> QED BY <1>1, <3>1, <3>2, <3>3 DEF EarlyOnReplacement, DTypeOK
    <2> QED
      BY <2>1, <2>2 DEF CommandStep, Interact, Refuse, Begin, CallOther, Lookup, Write,
         Answered, Refused, TearDown, TornDown, CallNc, Finish, FollowUp
  <1>3. DTypeOK' /\ CommandInv' /\ AnswerTellsReach'
    BY <1>1, <1>2, CommandPart DEF DTypeOK, Mine
  <1> QED BY <1>2, <1>3, CoreInv

\* Every step keeps the invariant.
LEMMA DInvStep == DInv /\ [DNext]_<<vars, dvars>> => DInv'
  <1> SUFFICES ASSUME DInv, [DNext]_<<vars, dvars>> PROVE DInv'
    OBVIOUS
  <1>1. CASE Next /\ UNCHANGED dvars
    BY <1>1, StepOfReconnect
  <1>2. CASE \E r \in Readies : Ready(r) \/ RegisterMine(r) \/ RegisterOther(r)
    BY <1>2, RegisterStep
  <1>3. CASE (\E s \in Sessions : Dispatch(s)) \/ \E e \in 1..Len(running) : Report(e)
    BY <1>3, EventStep
  <1>4. CASE \E c \in Commands : Interact(c) \/ CommandStep(c)
    BY <1>4, CommandStepInv
  <1>5. CASE UNCHANGED <<vars, dvars>>
    <2>1. UNCHANGED <<vars, me, readyVars, eventVars, commandVars>>
      BY <1>5 DEF dvars
    <2>2. DTypeOK'
      BY <2>1 DEF DInv, DTypeOK, readyVars, eventVars, commandVars, vars, Mine
    <2> QED BY <2>1, <2>2, StepOfReady
  <1> QED BY <1>1, <1>2, <1>3, <1>4, <1>5 DEF DNext

\* The invariant holds in every state, whatever Discord, the server and the
\* reconnecting do.
THEOREM DiscordInvariance == DSpec => []DInv
  BY DInitInv, DInvStep, PTL DEF DSpec

\* With Discord in front of it the client still does what Reconnect says, so
\* that everything proved of Reconnect holds here.
THEOREM ImplementsReconnect == DSpec => Spec
  <1>1. DInit => Init
    BY DEF DInit
  <1> QED BY <1>1, DiscordInvariance, CoreStep, PTL DEF DSpec, Spec

\* The answer a user gets tells which clients the command reached.
THEOREM AnswersTellTheReach == DSpec => []AnswerTellsReach
  <1>1. DInv => AnswerTellsReach
    BY DEF DInv
  <1> QED BY <1>1, DiscordInvariance, PTL

\* Only the session that replaced the first can see a command before a login.
THEOREM EarlyOnlyOnReplacement == DSpec => []EarlyOnReplacement
  <1>1. DInv => EarlyOnReplacement
    BY DEF DInv
  <1> QED BY <1>1, DiscordInvariance, PTL

\* Discord or not, the client never has two connections to the server.
THEOREM OneAtATimeWithDiscord == DSpec => []OneConnection
  BY ImplementsReconnect, OneAtATime

-----------------------------------------------------------------------------
\* The calls of ready that have yet to come to this client.
Coming == {r \in Readies : next[r] \in 1..me}

\* Every handler on a session is from a ready that has passed the client, and
\* those that have and those that are coming are no more than there were calls.
CountInv ==
  /\ \A s \in Sessions : hooks[s] + Cardinality(Coming) <= calls
  /\ ReportedPerReady

\* A ready that starts, and one that passes the client or goes on.
LEMMA ComingSteps ==
  ASSUME DTypeOK, NEW r \in Readies
  PROVE  /\ IsFiniteSet(Coming) /\ Cardinality(Coming) \in Nat
         /\ Ready(r) => /\ Cardinality(Coming') \in Nat
                        /\ Cardinality(Coming') <= Cardinality(Coming) + 1
         /\ RegisterMine(r) => Cardinality(Coming') = Cardinality(Coming) - 1
         /\ RegisterOther(r) => /\ Cardinality(Coming') \in Nat
                                /\ Cardinality(Coming') <= Cardinality(Coming)
  <1> USE DEF DTypeOK
  <1>1. IsFiniteSet(Coming) /\ Cardinality(Coming) \in Nat
    <2>1. Coming \in SUBSET Readies
      BY DEF Coming
    <2> QED BY <2>1, FS_Subset, FS_CardinalityType
  <1>2. me \in Nat \ {0}
    BY SMT DEF Mine, Clients
  <1>3. ASSUME Ready(r)
        PROVE  /\ Cardinality(Coming') \in Nat
               /\ Cardinality(Coming') <= Cardinality(Coming) + 1
    <2>1. Coming' \in SUBSET (Coming \cup {r})
      BY <1>3 DEF Coming, Ready
    <2>2. /\ IsFiniteSet(Coming \cup {r})
          /\ Cardinality(Coming \cup {r})
               = IF r \in Coming THEN Cardinality(Coming) ELSE Cardinality(Coming) + 1
      BY <1>1, FS_AddElement
    <2>3. /\ Cardinality(Coming') <= Cardinality(Coming \cup {r})
          /\ Cardinality(Coming') \in Nat
      BY <2>1, <2>2, FS_Subset, FS_CardinalityType
    <2> QED BY <1>1, <2>2, <2>3, SMT
  <1>4. ASSUME RegisterMine(r) PROVE Cardinality(Coming') = Cardinality(Coming) - 1
    <2>1. /\ next[r] = me /\ me' = me
          /\ next' = [next EXCEPT ![r] = me + 1] \/ next' = [next EXCEPT ![r] = 0]
      BY <1>4 DEF RegisterMine, Proceed, Panic
    <2>2. r \in Coming /\ Coming' = Coming \ {r}
      <3>1. me \in 1..me /\ me + 1 \notin 1..me /\ 0 \notin 1..me
        BY <1>2, SMT
      <3> QED BY <2>1, <3>1 DEF Coming
    <2> QED BY <1>1, <2>2, FS_RemoveElement
  <1>5. ASSUME RegisterOther(r)
        PROVE  Cardinality(Coming') \in Nat /\ Cardinality(Coming') <= Cardinality(Coming)
    <2>1. /\ next[r] # me /\ next[r] \in Nat \ {0} /\ me' = me
          /\ next' = [next EXCEPT ![r] = next[r] + 1] \/ next' = [next EXCEPT ![r] = 0]
      <3>1. next[r] \in Clients \ {me} /\ me' = me
        BY <1>5 DEF RegisterOther
      <3>2. next' = [next EXCEPT ![r] = next[r] + 1] \/ next' = [next EXCEPT ![r] = 0]
        BY <1>5 DEF RegisterOther, Proceed, Panic
      <3>3. next[r] \in Nat \ {0}
        BY <3>1, SMT DEF Clients
      <3> QED BY <3>1, <3>2, <3>3
    <2>2. Coming' \in SUBSET Coming
      <3>1. next[r] + 1 \in 1..me => next[r] \in 1..me
        BY <1>2, <2>1, SMT
      <3>2. 0 \notin 1..me
        BY SMT
      <3> QED BY <2>1, <3>1, <3>2 DEF Coming
    <2> QED BY <1>1, <2>2, FS_Subset, FS_CardinalityType
  <1> QED BY <1>1, <1>3, <1>4, <1>5

\* A packet is posted by a callback that is then no longer running.
LEMMA PostStep ==
  ASSUME DTypeOK, ReportedPerReady, NEW e \in 1..Len(running), Report(e)
  PROVE  ReportedPerReady'
  <1> USE DEF DTypeOK
  <1> DEFINE of(f) == {i \in 1..Len(posts) : posts[i] = f}
  <1>1. /\ running[e] > 0 /\ running' = [running EXCEPT ![e] = @ - 1]
        /\ posts' = posts \/ posts' = Append(posts, e)
        /\ calls' = calls /\ Len(posts) \in Nat
    BY DEF Report, readyVars
  <1>2. ASSUME NEW f PROVE /\ IsFiniteSet(of(f)) /\ Cardinality(of(f)) \in Nat
                           /\ Len(posts) + 1 \notin of(f)
    <2>1. IsFiniteSet(1..Len(posts))
      BY <1>1, FS_Interval, SMT
    <2>2. of(f) \in SUBSET (1..Len(posts))
      OBVIOUS
    <2>3. Len(posts) + 1 \notin 1..Len(posts)
      BY <1>1, SMT
    <2> QED BY <2>1, <2>2, <2>3, FS_Subset, FS_CardinalityType
  <1>3. ASSUME NEW f PROVE of(f)' = of(f) \/ (f = e /\ of(f)' = of(f) \cup {Len(posts) + 1})
    <2>1. CASE posts' = posts
      BY <2>1
    <2>2. CASE posts' = Append(posts, e)
      <3>1. /\ Len(posts') = Len(posts) + 1
            /\ \A i \in 1..Len(posts) : posts'[i] = posts[i]
            /\ posts'[Len(posts) + 1] = e
        BY <2>2, SMT
      <3>2. 1..Len(posts') = (1..Len(posts)) \cup {Len(posts) + 1}
        BY <1>1, <3>1, SMT
      <3>3. of(f)' = {i \in (1..Len(posts)) \cup {Len(posts) + 1} : posts'[i] = f}
        BY <3>2
      <3>4. Len(posts) + 1 \notin 1..Len(posts)
        BY <1>2
      <3>5. CASE f = e
        <4>1. of(f)' = of(f) \cup {Len(posts) + 1}
          BY <3>1, <3>3, <3>5, Zenon
        <4> QED BY <3>5, <4>1
      <3>6. CASE f # e
        <4>1. of(f)' = of(f)
          BY <3>1, <3>3, <3>6, Zenon
        <4> QED BY <4>1
      <3> QED BY <3>5, <3>6
    <2> QED BY <1>1, <2>1, <2>2
  <1>4. ASSUME NEW f
        PROVE  /\ Cardinality(of(f)') \in Nat
               /\ Cardinality(of(f)') <= Cardinality(of(f)) + (IF f = e THEN 1 ELSE 0)
    <2>0. /\ IsFiniteSet(of(f)) /\ Cardinality(of(f)) \in Nat /\ Len(posts) + 1 \notin of(f)
          /\ of(f)' = of(f) \/ (f = e /\ of(f)' = of(f) \cup {Len(posts) + 1})
      BY <1>2, <1>3
    <2> HIDE DEF of
    <2>1. Cardinality(of(f) \cup {Len(posts) + 1}) = Cardinality(of(f)) + 1
      BY <2>0, FS_AddElement
    <2>2. CASE of(f)' = of(f)
      BY <2>0, <2>2, SMT
    <2>3. CASE f = e /\ of(f)' = of(f) \cup {Len(posts) + 1}
      BY <2>0, <2>1, <2>3, SMT
    <2> QED BY <2>0, <2>2, <2>3
  <1>5. ASSUME NEW f \in 1..Len(running)
        PROVE  Cardinality(of(f)') + running'[f] <= calls
    <2>1. Cardinality(of(f)) + running[f] <= calls
      BY DEF ReportedPerReady
    <2>2. running'[f] = running[f] - (IF f = e THEN 1 ELSE 0) /\ running[f] \in Nat
      BY <1>1, SMT
    <2>3. /\ Cardinality(of(f)) \in Nat /\ Cardinality(of(f)') \in Nat
          /\ Cardinality(of(f)') <= Cardinality(of(f)) + (IF f = e THEN 1 ELSE 0)
      <3> HIDE DEF of, DTypeOK
      <3> QED BY <1>2, <1>4, Zenon
    <2> DEFINE old == Cardinality(of(f))
               new == Cardinality(of(f)')
    <2> HIDE DEF of, old, new, DTypeOK
    <2>4. running'[f] = running[f] - (IF f = e THEN 1 ELSE 0) /\ running[f] \in Nat
      BY <2>2
    <2>5. /\ old \in Nat /\ new \in Nat /\ new <= old + (IF f = e THEN 1 ELSE 0)
          /\ old + running[f] <= calls
      BY <2>1, <2>3 DEF old, new
    <2>6. calls \in Nat
      BY DEF DTypeOK
    <2>7. new + running'[f] <= calls
      BY <2>4, <2>5, <2>6, SMT
    <2> QED BY <2>7 DEF new
  <1>6. Len(running') = Len(running)
    BY <1>1, SMT
  <1> QED BY <1>1, <1>5, <1>6 DEF ReportedPerReady

\* No step makes more handlers, callbacks or messages than calls of ready.
LEMMA CountStep == DInv /\ CountInv /\ [DNext]_<<vars, dvars>> => CountInv'
  <1> SUFFICES ASSUME DInv, CountInv, [DNext]_<<vars, dvars>> PROVE CountInv'
    OBVIOUS
  <1> USE DEF DInv, DTypeOK, CountInv
  <1>1. ASSUME UNCHANGED <<me, next, calls, hooks, running, posts>> PROVE CountInv'
    BY <1>1 DEF Coming, ReportedPerReady
  <1>2. ASSUME UNCHANGED <<running, posts>>, calls' >= calls PROVE ReportedPerReady'
    <2>1. ASSUME NEW e \in 1..Len(running)
          PROVE  Cardinality({i \in 1..Len(posts) : posts[i] = e}) \in Nat
      <3>1. IsFiniteSet(1..Len(posts))
        BY FS_Interval, SMT
      <3> QED BY <3>1, FS_Subset, FS_CardinalityType
    <2>2. (calls' \in Nat /\ calls \in Nat) \/ calls' = calls
      BY DInvStep, SMT
    <2>3. ASSUME NEW e \in 1..Len(running)
          PROVE  Cardinality({i \in 1..Len(posts) : posts[i] = e}) + running[e] <= calls'
      <3> DEFINE posted == Cardinality({i \in 1..Len(posts) : posts[i] = e})
      <3>1. posted \in Nat
        BY <2>1
      <3>2. running[e] \in Nat
        OBVIOUS
      <3>3. posted + running[e] <= calls
        BY DEF ReportedPerReady
      <3> HIDE DEF posted, DInv, DTypeOK, CountInv
      <3>4. posted + running[e] <= calls'
        BY <1>2, <2>2, <3>1, <3>2, <3>3, SMT
      <3> QED BY <3>4 DEF posted
    <2> QED BY <1>2, <2>3 DEF ReportedPerReady
  <1>3. ASSUME NEW r \in Readies, Ready(r) PROVE CountInv'
    <2>1. calls' = calls + 1 /\ UNCHANGED <<hooks, running, posts>>
      BY <1>3 DEF Ready, eventVars
    <2>2. /\ Cardinality(Coming) \in Nat /\ Cardinality(Coming') \in Nat
          /\ Cardinality(Coming') <= Cardinality(Coming) + 1
      BY <1>3, ComingSteps
    <2>3. \A s \in Sessions : hooks'[s] + Cardinality(Coming') <= calls'
      BY <2>1, <2>2, SMT
    <2> QED BY <1>2, <2>1, <2>3, SMT
  <1>4. ASSUME NEW r \in Readies, RegisterOther(r) PROVE CountInv'
    <2>1. UNCHANGED <<calls, hooks, running, posts>>
      BY <1>4 DEF RegisterOther, eventVars
    <2>2. /\ Cardinality(Coming) \in Nat /\ Cardinality(Coming') \in Nat
          /\ Cardinality(Coming') <= Cardinality(Coming)
      BY <1>4, ComingSteps
    <2>3. \A s \in Sessions : hooks'[s] + Cardinality(Coming') <= calls'
      BY <2>1, <2>2, SMT
    <2> QED BY <1>2, <2>1, <2>3, SMT
  <1>5. ASSUME NEW r \in Readies, RegisterMine(r) PROVE CountInv'
    <2>1. /\ UNCHANGED <<calls, running, posts>>
          /\ hooks' = hooks \/ hooks' = [hooks EXCEPT ![client] = @ + 1]
      BY <1>5 DEF RegisterMine, eventVars
    <2>2. Cardinality(Coming) \in Nat /\ Cardinality(Coming') = Cardinality(Coming) - 1
      BY <1>5, ComingSteps
    <2>3. ASSUME NEW s \in Sessions PROVE hooks'[s] + Cardinality(Coming') <= calls'
      <3>1. hooks[s] \in Nat /\ hooks[s] + Cardinality(Coming) <= calls /\ calls \in Nat
        BY SMT
      <3>2. hooks'[s] = hooks[s] \/ hooks'[s] = hooks[s] + 1
        BY <2>1
      <3> QED BY <2>1, <2>2, <3>1, <3>2, SMT
    <2> QED BY <1>2, <2>1, <2>3, SMT
  <1>6. ASSUME NEW s \in Sessions, Dispatch(s) PROVE CountInv'
    <2>1. /\ running' = Append(running, hooks[s])
          /\ UNCHANGED <<me, next, calls, hooks, posts>>
      BY <1>6 DEF Dispatch, readyVars
    <2>2. ASSUME NEW e \in 1..Len(running')
          PROVE  Cardinality({i \in 1..Len(posts) : posts[i] = e}) + running'[e] <= calls
      <3>1. CASE e \in 1..Len(running)
        BY <2>1, <3>1, SMT DEF ReportedPerReady
      <3>2. CASE e = Len(running) + 1
        <4>1. {i \in 1..Len(posts) : posts[i] = e} = {}
          <5>1. e \notin 1..Len(running)
            BY <3>2, SMT
          <5> QED BY <5>1
        <4>2. Cardinality({}) = 0
          BY FS_EmptySet
        <4>3. running'[e] = hooks[s]
          BY <2>1, <3>2, SMT
        <4>4. hooks[s] <= calls
          <5>1. Cardinality(Coming) \in Nat
            <6>1. Coming \in SUBSET Readies
              BY DEF Coming
            <6> QED BY <6>1, FS_Subset, FS_CardinalityType
          <5>2. hooks[s] \in Nat /\ hooks[s] + Cardinality(Coming) <= calls /\ calls \in Nat
            BY SMT
          <5> QED BY <5>1, <5>2, SMT
        <4>5. /\ Cardinality({i \in 1..Len(posts) : posts[i] = e}) = 0
              /\ hooks[s] \in Nat
          BY <4>1, <4>2
        <4>6. \A n \in Nat : n + 0 = n /\ 0 + n = n
          BY SMT
        <4> QED BY <4>3, <4>4, <4>5, <4>6
      <3> QED BY <2>1, <3>1, <3>2, SMT
    <2> QED BY <2>1, <2>2 DEF Coming, ReportedPerReady
  <1>7. ASSUME NEW e \in 1..Len(running), Report(e) PROVE CountInv'
    <2>1. UNCHANGED <<me, next, calls, hooks>>
      BY <1>7 DEF Report, readyVars
    <2> QED BY <1>7, <2>1, PostStep DEF Coming
  <1>8. ASSUME NEW c \in Commands, Interact(c) \/ CommandStep(c) PROVE CountInv'
    BY <1>1, <1>8, CommandFrame
  <1>9. CASE UNCHANGED dvars
    BY <1>1, <1>9 DEF dvars, readyVars, eventVars
  <1> QED BY <1>3, <1>4, <1>5, <1>6, <1>7, <1>8, <1>9 DEF DNext

\* However often Discord calls ready, and however often the client's session is
\* replaced, a packet is posted at most once for each call.
THEOREM PostedOncePerReady == DSpec => []ReportedPerReady
  <1>1. DInit => CountInv
    <2> SUFFICES ASSUME DInit PROVE CountInv
      OBVIOUS
    <2>1. Coming = {}
      BY SMT DEF DInit, Coming
    <2>2. Cardinality({}) = 0
      BY FS_EmptySet
    <2>3. \A e \in 1..Len(running) : FALSE
      BY SMT DEF DInit
    <2>4. ReportedPerReady
      BY <2>3 DEF ReportedPerReady
    <2> QED BY <2>1, <2>2, <2>4, SMT DEF DInit, CountInv
  <1>2. CountInv => ReportedPerReady
    BY DEF CountInv
  <1> QED BY <1>1, <1>2, CountStep, DiscordInvariance, PTL DEF DSpec
=============================================================================
