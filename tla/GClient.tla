------------------------------- MODULE GClient -------------------------------
(***************************************************************************)
(* One GClient session: the read loop, the callers of send_packet,         *)
(* send_and_receive, disconnect and wait_for_tasks, the event callbacks it *)
(* spawns, and the teardown in handle_disconnect_internal.                 *)
(*                                                                         *)
(* A step is the code between two points where another task can observe or *)
(* disturb it: an await, or taking or dropping a lock.  Locks that are     *)
(* taken and dropped without an await in between leave no trace; the two   *)
(* that are held across one (the write half's mutex and the write lock on  *)
(* is_disconnected) are variables that name their owner.  The protocol is  *)
(* abstract here: a write succeeds or fails, a read yields a packet or     *)
(* fails.  Timers may fire whenever their task waits.                      *)
(***************************************************************************)
EXTENDS Naturals, Sequences, FiniteSets

CONSTANTS
  Users,        \* tasks that call into the client (main, the Discord commands)
  Reader,       \* the task that runs read_loop_fut
  Callbacks,    \* slots for the callback tasks a session spawns
  Ids,          \* packet ids of packets from the server
  Nobody,       \* no task, no packet id
  ReqId,        \* the response id each user waits for in send_and_receive
  EventIds,     \* ids the server sends unasked
  Ops,          \* the operations each user calls
  MaxHandlers,  \* bound: event handlers registered per packet id
  MaxCalls,     \* bound: send_and_receive calls of each user
  MaxInbound,   \* bound: packets on their way from the server
  MaxEvents     \* bound: unasked packets the server sends

Actors == Users \cup {Reader}
Tasks  == Callbacks \cup {Reader}

ASSUME ConstantsOK ==
  /\ Reader \notin Users \cup Callbacks
  /\ Nobody \notin Users \cup Callbacks \cup Ids \cup {Reader}
  /\ Users \cap Callbacks = {}
  /\ ReqId \in [Users -> Ids]
  /\ EventIds \subseteq Ids
  /\ \A u \in Users : Ops[u] \subseteq {"send", "request", "disconnect", "wait"}
  /\ MaxHandlers \in Nat /\ MaxCalls \in [Users -> Nat] /\ MaxInbound \in Nat /\ MaxEvents \in Nat

VARIABLES
  pc,             \* where each actor is
  isDisconnected, \* is_disconnected: the flag
  flagOwner,      \* who holds the write lock on is_disconnected
  writerOwner,    \* who holds the mutex on the write half
  wire,           \* the write half: "up", or "shut" once shutdown was called
  pending,        \* pending_requests: response id -> user whose sender is stored
  chan,           \* each user's oneshot: "none", "open", "full" or "dropped"
  answer,         \* the request that the packet in a full channel answers
  serial,         \* how many requests each user has registered
  handlers,       \* event_handlers: how many are registered per id
  hasHandler,     \* disconnect_handler is set
  handler,        \* its only run: "never", "running", "done" or "cut"
  joinSet,        \* join_set: the tasks in it
  taken,          \* the JoinSet an actor has taken out to join or drop
  aborted,        \* tasks that were told to abort
  cb,             \* state of each callback task
  notified,       \* the read loop's Notified future has fired
  packet,         \* the packet the read loop is dispatching
  todo,           \* callbacks the read loop has still to spawn for it
  peer,           \* the server's end: "up" or "down"
  inbound,        \* packets on their way to the read loop
  asked,          \* requests the server has received and not answered
  events,         \* unasked packets sent so far
  crossed         \* history: ids asked for by two users at once, or sent unasked

sendVars == <<flagOwner, writerOwner, wire, isDisconnected>>
reqVars  == <<pending, chan, answer, serial, crossed>>
hookVars == <<handlers, hasHandler, handler>>
taskVars == <<joinSet, taken, aborted, cb>>
loopVars == <<notified, packet, todo>>
netVars  == <<peer, inbound, asked, events>>
vars == <<pc, sendVars, reqVars, hookVars, taskVars, loopVars, netVars>>

\* A request is named by its user and its serial number; NoTag marks packets
\* that answer none.  A packet that cannot be parsed has no id.
Tags    == Users \X (Nat \ {0})
NoTag   == <<Nobody, 0>>
Packet  == [id : Ids, tag : Tags \cup {NoTag}]
Garbage == [id |-> Nobody, tag |-> NoTag]

TeardownPCs == {"dEnter", "dShutdown", "dMark", "take", "join", "handler", "handling"}
UserPCs     == {"idle", "reqCheck", "reqInsert", "check", "write", "writing", "await",
                "wTake", "wJoin"} \cup TeardownPCs
ReaderPCs   == {"select", "dispatch", "spawn", "gone"} \cup TeardownPCs

Init ==
  /\ pc = [a \in Actors |-> IF a = Reader THEN "select" ELSE "idle"]
  /\ isDisconnected = FALSE /\ flagOwner = Nobody
  /\ writerOwner = Nobody /\ wire = "up"
  /\ pending = [i \in Ids |-> Nobody]
  /\ chan = [u \in Users |-> "none"]
  /\ answer = [u \in Users |-> NoTag]
  /\ serial = [u \in Users |-> 0]
  /\ crossed = {}
  /\ handlers = [i \in Ids |-> 0]
  /\ hasHandler = FALSE /\ handler = "never"
  /\ joinSet = {Reader} /\ taken = [a \in Actors |-> {}] /\ aborted = {}
  /\ cb = [c \in Callbacks |-> "free"]
  /\ notified = FALSE /\ packet = Garbage /\ todo = 0
  /\ peer = "up" /\ inbound = <<>> /\ asked = {} /\ events = 0

-----------------------------------------------------------------------------
Go(a, l)  == pc' = [pc EXCEPT ![a] = l]
\* Where an actor is once handle_disconnect_internal returns: a user's call
\* returns its error, the read loop breaks.
Return(a) == Go(a, IF a = Reader THEN "gone" ELSE "idle")

\* The read loop keeps the pending_requests guard while it spawns callbacks.
PendingLocked == pc[Reader] = "spawn"

Alive(t) == IF t = Reader THEN pc[Reader] # "gone"
                          ELSE cb[t] \in {"spawned", "running", "notified"}

-----------------------------------------------------------------------------
(* Calls *)

EntryOf == [send |-> "check", request |-> "reqCheck", disconnect |-> "dEnter", wait |-> "wTake"]

Call(u, o) ==
  /\ pc[u] = "idle"
  /\ o = "request" => serial[u] < MaxCalls[u]
  /\ Go(u, EntryOf[o])
  /\ UNCHANGED <<sendVars, reqVars, hookVars, taskVars, loopVars, netVars>>

\* send_and_receive: refuse when the session is over.
ReqCheck(u) ==
  /\ pc[u] = "reqCheck"
  /\ flagOwner = Nobody
  /\ Go(u, IF isDisconnected THEN "idle" ELSE "reqInsert")
  /\ UNCHANGED <<sendVars, reqVars, hookVars, taskVars, loopVars, netVars>>

\* Store the sender under the response id.  A sender already stored there is
\* replaced, and dropping it closes its channel.  (crossed remembers that two
\* users' requests for one id have met; no step depends on it.)
ReqInsert(u) ==
  /\ pc[u] = "reqInsert"
  /\ ~PendingLocked
  /\ pending' = [pending EXCEPT ![ReqId[u]] = u]
  /\ chan' = [v \in Users |-> CASE v = u -> "open"
                                [] v # u /\ v = pending[ReqId[u]] /\ chan[v] = "open" -> "dropped"
                                [] OTHER -> chan[v]]
  /\ serial' = [serial EXCEPT ![u] = @ + 1]
  /\ crossed' = IF pending[ReqId[u]] \in {Nobody, u} THEN crossed ELSE crossed \cup {ReqId[u]}
  /\ Go(u, "check")
  /\ UNCHANGED <<answer, sendVars, hookVars, taskVars, loopVars, netVars>>

\* send_packet: refuse when the session is over; a pending entry stays behind.
SendCheck(u) ==
  /\ pc[u] = "check"
  /\ flagOwner = Nobody
  /\ Go(u, IF isDisconnected THEN "idle" ELSE "write")
  /\ chan' = IF isDisconnected THEN [chan EXCEPT ![u] = "none"] ELSE chan
  /\ UNCHANGED <<pending, answer, serial, crossed, sendVars, hookVars, taskVars, loopVars, netVars>>

SendLock(u) ==
  /\ pc[u] = "write"
  /\ writerOwner = Nobody
  /\ writerOwner' = u
  /\ Go(u, "writing")
  /\ UNCHANGED <<flagOwner, wire, isDisconnected, reqVars, hookVars, taskVars, loopVars, netVars>>

SendDone(u) ==
  /\ pc[u] = "writing"
  /\ wire = "up"
  /\ writerOwner' = Nobody
  /\ IF chan[u] = "none"
       THEN Go(u, "idle") /\ asked' = asked
       ELSE /\ Go(u, "await")
            /\ asked' = IF peer = "up" THEN asked \cup {<<u, serial[u]>>} ELSE asked
  /\ UNCHANGED <<flagOwner, wire, isDisconnected, reqVars, hookVars, taskVars, loopVars,
                 peer, inbound, events>>

\* Any error of protocol.write tears the session down.
SendFail(u) ==
  /\ pc[u] = "writing"
  /\ writerOwner' = Nobody
  /\ chan' = [chan EXCEPT ![u] = "none"]
  /\ Go(u, "dEnter")
  /\ UNCHANGED <<flagOwner, wire, isDisconnected, pending, answer, serial, crossed, hookVars,
                 taskVars, loopVars, netVars>>

Receive(u) ==
  /\ pc[u] = "await" /\ chan[u] = "full"
  /\ chan' = [chan EXCEPT ![u] = "none"]
  /\ answer' = [answer EXCEPT ![u] = NoTag]
  /\ Go(u, "idle")
  /\ UNCHANGED <<pending, serial, crossed, sendVars, hookVars, taskVars, loopVars, netVars>>

\* Mutant: the timeout is reported and the session left as it is.
GiveUpQuietly(u) ==
  /\ pc[u] = "await" /\ chan[u] \in {"dropped", "open"}
  /\ chan' = [chan EXCEPT ![u] = "none"]
  /\ Go(u, "idle")
  /\ UNCHANGED <<pending, answer, serial, crossed, sendVars, hookVars, taskVars, loopVars, netVars>>

\* A dropped sender (RecvError) or the response timeout tears the session down.
GiveUp(u) ==
  /\ pc[u] = "await" /\ chan[u] \in {"dropped", "open"}
  /\ chan' = [chan EXCEPT ![u] = "none"]
  /\ Go(u, "dEnter")
  /\ UNCHANGED <<pending, answer, serial, crossed, sendVars, hookVars, taskVars, loopVars, netVars>>

-----------------------------------------------------------------------------
(* handle_disconnect_internal and wait_for_tasks_with_timeout, run by a     *)
(* caller or by the read loop                                               *)

\* Mutant: the flag is not tested again under the lock.
DisconnectEnterUnchecked(a) ==
  /\ pc[a] = "dEnter" /\ flagOwner = Nobody
  /\ Go(a, "dShutdown") /\ flagOwner' = a
  /\ UNCHANGED <<writerOwner, wire, isDisconnected, reqVars, hookVars, taskVars, loopVars, netVars>>

\* Mutant: who finds the lock taken does not wait for it.
DisconnectEnterTry(a) ==
  /\ pc[a] = "dEnter"
  /\ IF isDisconnected \/ flagOwner # Nobody
       THEN Return(a) /\ flagOwner' = flagOwner
       ELSE Go(a, "dShutdown") /\ flagOwner' = a
  /\ UNCHANGED <<writerOwner, wire, isDisconnected, reqVars, hookVars, taskVars, loopVars, netVars>>

DisconnectEnter(a) ==
  /\ pc[a] = "dEnter"
  /\ flagOwner = Nobody
  /\ IF isDisconnected
       THEN Return(a) /\ flagOwner' = flagOwner
       ELSE Go(a, "dShutdown") /\ flagOwner' = a
  /\ UNCHANGED <<writerOwner, wire, isDisconnected, reqVars, hookVars, taskVars, loopVars, netVars>>

\* Mutant: the write half is not shut down.
DisconnectShutdownSkipped(a) ==
  /\ pc[a] = "dShutdown"
  /\ Go(a, "dMark")
  /\ UNCHANGED <<sendVars, reqVars, hookVars, taskVars, loopVars, netVars>>

\* protocol.shutdown() waits for the write half's mutex; its error is ignored.
DisconnectShutdown(a) ==
  /\ pc[a] = "dShutdown"
  /\ writerOwner = Nobody
  /\ wire' = "shut"
  /\ Go(a, "dMark")
  /\ UNCHANGED <<flagOwner, writerOwner, isDisconnected, reqVars, hookVars, taskVars, loopVars,
                 netVars>>

\* Mutant: the lock is kept while the tasks are joined and the handler runs.
DisconnectMarkKeepsLock(a) ==
  /\ pc[a] = "dMark"
  /\ isDisconnected' = TRUE
  /\ notified' = (pc[Reader] = "select")
  /\ cb' = [c \in Callbacks |-> IF cb[c] = "running" THEN "notified" ELSE cb[c]]
  /\ Go(a, "take")
  /\ UNCHANGED <<flagOwner, writerOwner, wire, reqVars, hookVars, joinSet, taken, aborted,
                 packet, todo, netVars>>

\* Set the flag, wake whoever waits on the notifier NOW, drop the lock.  A
\* read loop that is dispatching, or a callback not polled yet, is not woken.
DisconnectMark(a) ==
  /\ pc[a] = "dMark"
  /\ isDisconnected' = TRUE
  /\ flagOwner' = Nobody
  /\ notified' = (pc[Reader] = "select")
  /\ cb' = [c \in Callbacks |-> IF cb[c] = "running" THEN "notified" ELSE cb[c]]
  /\ Go(a, "take")
  /\ UNCHANGED <<writerOwner, wire, reqVars, hookVars, joinSet, taken, aborted, packet, todo, netVars>>

TakeJoinSet(a) ==
  /\ pc[a] \in {"take", "wTake"}
  /\ taken' = [taken EXCEPT ![a] = joinSet]
  /\ joinSet' = {}
  /\ Go(a, IF pc[a] = "take" THEN "join" ELSE "wJoin")
  /\ UNCHANGED <<aborted, cb, sendVars, reqVars, hookVars, loopVars, netVars>>

\* Mutant: tasks that are late are left running.
JoinDetaches(a) ==
  /\ pc[a] \in {"join", "wJoin"} /\ a \notin aborted
  /\ taken' = [taken EXCEPT ![a] = {}]
  /\ Go(a, IF pc[a] = "join" THEN "handler" ELSE "idle")
  /\ UNCHANGED <<joinSet, aborted, cb, sendVars, reqVars, hookVars, loopVars, netVars>>

\* Mutant: the timeout ends the teardown.
JoinFails(a) ==
  /\ pc[a] \in {"join", "wJoin"} /\ a \notin aborted
  /\ aborted' = aborted \cup {t \in taken[a] : Alive(t)}
  /\ taken' = [taken EXCEPT ![a] = {}]
  /\ IF pc[a] = "join" /\ \A t \in taken[a] : ~Alive(t) THEN Go(a, "handler") ELSE Return(a)
  /\ UNCHANGED <<joinSet, cb, sendVars, reqVars, hookVars, loopVars, netVars>>

\* Every task taken has finished, or five seconds are over and dropping the
\* JoinSet aborts those that have not.  A read loop that tears down its own
\* session waits for itself, and ends in the second case.
Join(a) ==
  /\ pc[a] \in {"join", "wJoin"}
  /\ a \notin aborted
  /\ aborted' = aborted \cup {t \in taken[a] : Alive(t)}
  /\ taken' = [taken EXCEPT ![a] = {}]
  /\ Go(a, IF pc[a] = "join" THEN "handler" ELSE "idle")
  /\ UNCHANGED <<joinSet, cb, sendVars, reqVars, hookVars, loopVars, netVars>>

\* The code up to the handler's first suspension runs in the poll that ended
\* the join, so an abort cannot prevent it.
CallHandler(a) ==
  /\ pc[a] = "handler"
  /\ IF hasHandler
       THEN Go(a, "handling") /\ handler' = "running"
       ELSE Return(a) /\ handler' = handler
  /\ UNCHANGED <<handlers, hasHandler, sendVars, reqVars, taskVars, loopVars, netVars>>

\* The handler suspends before it ends: an aborted task does not get here.
HandlerDone(a) ==
  /\ pc[a] = "handling"
  /\ a \notin aborted
  /\ handler' = "done"
  /\ Return(a)
  /\ UNCHANGED <<handlers, hasHandler, sendVars, reqVars, taskVars, loopVars, netVars>>

-----------------------------------------------------------------------------
(* read_loop_fut.  Each turn of the loop makes a new Notified future.       *)

ReaderRead ==
  /\ pc[Reader] = "select"
  /\ inbound # <<>> /\ Head(inbound) # Garbage
  /\ packet' = Head(inbound)
  /\ inbound' = Tail(inbound)
  /\ notified' = FALSE
  /\ Go(Reader, "dispatch")
  /\ UNCHANGED <<todo, sendVars, reqVars, hookVars, taskVars, peer, asked, events>>

ReaderError ==
  /\ pc[Reader] = "select"
  /\ IF inbound = <<>> THEN peer = "down" ELSE Head(inbound) = Garbage
  /\ notified' = FALSE
  /\ Go(Reader, "dEnter")
  /\ UNCHANGED <<packet, todo, sendVars, reqVars, hookVars, taskVars, netVars>>

\* The protocol panics on some of what it reads (a v5 frame of length zero, a v6
\* length below the header's): the task ends, and nobody tears the session down.
ReaderPanic ==
  /\ pc[Reader] = "select"
  /\ inbound # <<>> /\ Head(inbound) = Garbage
  /\ notified' = FALSE
  /\ Go(Reader, "gone")
  /\ UNCHANGED <<packet, todo, sendVars, reqVars, hookVars, taskVars, netVars>>

ReaderStop ==
  /\ pc[Reader] = "select" /\ notified
  /\ notified' = FALSE
  /\ Go(Reader, "gone")
  /\ UNCHANGED <<packet, todo, sendVars, reqVars, hookVars, taskVars, netVars>>

\* A stored sender takes the packet, whatever it was sent for; a receiver that
\* gave up ignores it.
DispatchResponse ==
  LET u == pending[packet.id] IN
  /\ pc[Reader] = "dispatch"
  /\ u # Nobody
  /\ pending' = [pending EXCEPT ![packet.id] = Nobody]
  /\ IF chan[u] = "open"
       THEN chan' = [chan EXCEPT ![u] = "full"] /\ answer' = [answer EXCEPT ![u] = packet.tag]
       ELSE UNCHANGED <<chan, answer>>
  /\ Go(Reader, "select")
  /\ UNCHANGED <<serial, crossed, sendVars, hookVars, taskVars, loopVars, netVars>>

DispatchEvent ==
  /\ pc[Reader] = "dispatch"
  /\ pending[packet.id] = Nobody
  /\ todo' = handlers[packet.id]
  /\ Go(Reader, "spawn")
  /\ UNCHANGED <<notified, packet, sendVars, reqVars, hookVars, taskVars, netVars>>

SpawnCallback ==
  /\ pc[Reader] = "spawn" /\ todo > 0
  /\ \E c \in Callbacks :
       /\ cb[c] = "free"
       /\ cb' = [cb EXCEPT ![c] = "spawned"]
       /\ joinSet' = joinSet \cup {c}
  /\ todo' = todo - 1
  /\ UNCHANGED <<pc, notified, packet, taken, aborted, sendVars, reqVars, hookVars, netVars>>

SpawnEnd ==
  /\ pc[Reader] = "spawn" /\ todo = 0
  /\ Go(Reader, "select")
  /\ UNCHANGED <<sendVars, reqVars, hookVars, taskVars, loopVars, netVars>>

-----------------------------------------------------------------------------
(* Callback tasks and aborted tasks *)

\* The first poll creates the Notified future and starts the handler.
CallbackStart(c) ==
  /\ cb[c] = "spawned" /\ c \notin aborted
  /\ cb' = [cb EXCEPT ![c] = "running"]
  /\ UNCHANGED <<pc, joinSet, taken, aborted, sendVars, reqVars, hookVars, loopVars, netVars>>

CallbackFinish(c) ==
  /\ cb[c] \in {"running", "notified"}
  /\ cb' = [cb EXCEPT ![c] = "gone"]
  /\ UNCHANGED <<pc, joinSet, taken, aborted, sendVars, reqVars, hookVars, loopVars, netVars>>

\* An aborted task ends at its next suspension; what it owns is dropped.
CancelCallback(c) ==
  /\ c \in aborted /\ Alive(c)
  /\ cb' = [cb EXCEPT ![c] = "gone"]
  /\ UNCHANGED <<pc, joinSet, taken, aborted, sendVars, reqVars, hookVars, loopVars, netVars>>

CancelReader ==
  /\ Reader \in aborted /\ Alive(Reader)
  /\ pc[Reader] \notin {"dMark", "handler"}      \* no suspension point there
  /\ handler' = IF pc[Reader] = "handling" THEN "cut" ELSE handler
  /\ flagOwner' = IF flagOwner = Reader THEN Nobody ELSE flagOwner
  /\ aborted' = aborted \cup taken[Reader]
  /\ taken' = [taken EXCEPT ![Reader] = {}]
  /\ notified' = FALSE
  /\ Go(Reader, "gone")
  /\ UNCHANGED <<writerOwner, wire, isDisconnected, reqVars, handlers, hasHandler, joinSet, cb,
                 packet, todo, netVars>>

-----------------------------------------------------------------------------
(* Registration, and the server *)

RegisterEventHandler(i) ==
  /\ handlers[i] < MaxHandlers
  /\ handlers' = [handlers EXCEPT ![i] = @ + 1]
  /\ UNCHANGED <<pc, hasHandler, handler, sendVars, reqVars, taskVars, loopVars, netVars>>

\* The cell is set once; a later registration is ignored.
RegisterDisconnectHandler ==
  /\ ~hasHandler
  /\ hasHandler' = TRUE
  /\ UNCHANGED <<pc, handlers, handler, sendVars, reqVars, taskVars, loopVars, netVars>>

ServerReply(r) ==
  /\ peer = "up" /\ Len(inbound) < MaxInbound
  /\ r \in asked
  /\ asked' = asked \ {r}
  /\ inbound' = Append(inbound, [id |-> ReqId[r[1]], tag |-> r])
  /\ UNCHANGED <<pc, peer, events, sendVars, reqVars, hookVars, taskVars, loopVars>>

ServerEvent(p) ==
  /\ peer = "up" /\ Len(inbound) < MaxInbound /\ events < MaxEvents
  /\ events' = events + 1
  /\ inbound' = Append(inbound, p)
  /\ crossed' = crossed \cup ({p.id} \cap Ids)
  /\ UNCHANGED <<pc, peer, asked, pending, chan, answer, serial, sendVars, hookVars, taskVars,
                 loopVars>>

PeerClose ==
  /\ peer = "up"
  /\ peer' = "down"
  /\ UNCHANGED <<pc, inbound, asked, events, sendVars, reqVars, hookVars, taskVars, loopVars>>

-----------------------------------------------------------------------------
Teardown(a) ==
  \/ DisconnectEnter(a) \/ DisconnectShutdown(a) \/ DisconnectMark(a)
  \/ TakeJoinSet(a) \/ Join(a) \/ CallHandler(a) \/ HandlerDone(a)

\* What a user's task does by itself, and the end of a write, which the server
\* can put off by not reading: protocol.write has no timeout.
OwnStep(u) ==
  \/ ReqCheck(u) \/ ReqInsert(u) \/ SendCheck(u) \/ SendLock(u) \/ Receive(u)
  \/ GiveUp(u) \/ Teardown(u)
WriteEnd(u) == SendDone(u) \/ SendFail(u)
UserStep(u) == OwnStep(u) \/ WriteEnd(u)

ReaderStep ==
  \/ ReaderRead \/ ReaderError \/ ReaderPanic \/ ReaderStop
  \/ DispatchResponse \/ DispatchEvent \/ SpawnCallback \/ SpawnEnd
  \/ Teardown(Reader) \/ CancelReader

CallbackStep(c) == CallbackStart(c) \/ CallbackFinish(c) \/ CancelCallback(c)

Environment ==
  \/ \E i \in EventIds : RegisterEventHandler(i)
  \/ RegisterDisconnectHandler
  \/ \E r \in asked : ServerReply(r)
  \/ \E i \in EventIds \cup {Nobody} : ServerEvent([id |-> i, tag |-> NoTag])
  \/ PeerClose

Next ==
  \/ \E u \in Users : \E o \in Ops[u] : Call(u, o)
  \/ \E u \in Users : UserStep(u)
  \/ ReaderStep
  \/ \E c \in Callbacks : CallbackStep(c)
  \/ Environment

Spec == Init /\ [][Next]_vars

\* Tokio's locks are first come first served, so whoever waits for the writer
\* gets it (SF); every other step of a task that can run is taken (WF).  This
\* includes that timers fire and that the disconnect handler ends; nothing is
\* assumed of the server, of calls, of event callbacks or of the end of a write.
Fairness ==
  /\ \A u \in Users : /\ WF_vars(OwnStep(u))
                      /\ SF_vars(SendLock(u))
                      /\ SF_vars(DisconnectShutdown(u))
  /\ WF_vars(ReaderStep) /\ SF_vars(DisconnectShutdown(Reader))
  /\ \A c \in Callbacks : WF_vars(CancelCallback(c))

FairSpec == Spec /\ Fairness

-----------------------------------------------------------------------------
(* Properties *)

\* Every variable keeps its type.
TypeOK ==
  /\ pc \in [Actors -> UserPCs \cup ReaderPCs]
  /\ \A u \in Users : pc[u] \in UserPCs
  /\ pc[Reader] \in ReaderPCs
  /\ isDisconnected \in BOOLEAN /\ hasHandler \in BOOLEAN /\ notified \in BOOLEAN
  /\ flagOwner \in Actors \cup {Nobody}
  /\ writerOwner \in Users \cup {Nobody}
  /\ wire \in {"up", "shut"} /\ peer \in {"up", "down"}
  /\ pending \in [Ids -> Users \cup {Nobody}]
  /\ chan \in [Users -> {"none", "open", "full", "dropped"}]
  /\ answer \in [Users -> Tags \cup {NoTag}]
  /\ serial \in [Users -> Nat]
  /\ handlers \in [Ids -> 0..MaxHandlers]
  /\ handler \in {"never", "running", "done", "cut"}
  /\ joinSet \in SUBSET Tasks /\ aborted \in SUBSET Tasks
  /\ taken \in [Actors -> SUBSET Tasks]
  /\ cb \in [Callbacks -> {"free", "spawned", "running", "notified", "gone"}]
  /\ packet \in Packet \cup {Garbage} /\ todo \in 0..MaxHandlers
  /\ inbound \in Seq(Packet \cup {Garbage})
  /\ asked \in SUBSET Tags /\ events \in 0..MaxEvents
  /\ crossed \in SUBSET Ids

\* The write lock on is_disconnected is held exactly by the task that is
\* between taking it and setting the flag, and only until the flag is set.
FlagLock ==
  /\ \A a \in Actors : flagOwner = a <=> pc[a] \in {"dShutdown", "dMark"}
  /\ flagOwner # Nobody => ~isDisconnected

\* The mutex on the write half is held exactly by the task inside a write.
WriterLock == \A u \in Users : writerOwner = u <=> pc[u] = "writing"

\* The write half is shut before the session counts as disconnected, and by
\* nobody else than the task that is about to set the flag.
ShutFirst ==
  /\ isDisconnected => wire = "shut"
  /\ wire = "shut" => isDisconnected \/ (\E a \in Actors : pc[a] = "dMark")
  /\ \A a \in Actors : pc[a] = "dMark" => wire = "shut"

\* Only one task ever runs the part of handle_disconnect_internal behind the
\* flag (joining the tasks and calling the handler), and only once it is set.
AfterMark   == {"take", "join", "handler", "handling"}
OneTeardown ==
  /\ \A a, b \in Actors : pc[a] \in AfterMark /\ pc[b] \in AfterMark => a = b
  /\ \A a \in Actors : pc[a] \in AfterMark => isDisconnected

\* The disconnect handler has not been called while a task is on its way to
\* call it, and it runs exactly while a task awaits it.
HandlerState ==
  /\ handler # "never" => isDisconnected
  /\ \A a \in Actors : pc[a] \in {"take", "join", "handler"} => handler = "never"
  /\ handler = "running" <=> (\E a \in Actors : pc[a] = "handling")

\* A channel exists only within send_and_receive, from the moment the sender
\* is stored until the call returns or tears the session down.
ChanInCall ==
  /\ \A u \in Users : chan[u] # "none" => pc[u] \in {"check", "write", "writing", "await"}
  /\ \A u \in Users : pc[u] = "await" => chan[u] # "none"

\* A request gets its serial number when its sender is stored.
CallSerial == \A u \in Users : chan[u] # "none" => serial[u] > 0

\* The read loop dispatches only what it could parse.
DispatchParsed == pc[Reader] \in {"dispatch", "spawn"} => packet \in Packet

\* The inductive invariant behind the safety properties and the refinement.
TeardownInv == FlagLock /\ WriterLock /\ ShutFirst /\ OneTeardown /\ HandlerState
RequestInv  == ChanInCall /\ CallSerial /\ DispatchParsed
IInv        == TypeOK /\ TeardownInv /\ RequestInv

\* The disconnect handler is called at most once in a session (it reconnects:
\* twice would open two sessions).
HandlerOnce == [][handler' = "running" /\ handler # "running" => handler = "never"]_handler

\* A call that fails, or that disconnects, returns when the session is over:
\* the caller never sees it half torn down.
FailureEndsSession ==
  [][\A u \in Users : pc[u] \in TeardownPCs /\ pc'[u] = "idle" => isDisconnected]_vars

\* When the disconnect handler opens the next session, this session's read
\* loop has ended or is told to end, unless a call of wait_for_tasks has taken
\* it out of the teardown's hands and is still waiting for it.
OldReaderStopped ==
  handler # "never" => \/ pc[Reader] = "gone" \/ Reader \in aborted
                       \/ \E u \in Users : pc[u] = "wJoin" /\ Reader \in taken[u]

\* The session a user of the client sees: open until the write half is shut,
\* closed when the flag says so.
phaseOf == IF isDisconnected THEN "closed" ELSE IF wire = "shut" THEN "shut" ELSE "open"
reqOf == [u \in Users |-> CASE chan[u] = "none" -> "none"
                            [] chan[u] = "full" -> "answered"
                            [] OTHER -> IF pc[u] = "await" THEN "sent" ELSE "made"]

\* The session keeps what Session promises (see there).
Promise == INSTANCE Session WITH phase <- phaseOf, req <- reqOf
KeepsPromise == Promise!SessionSpec

\* A caller gets the answer to its last request, never a late one to an earlier
\* request of its own that timed out, unless its response id has been asked for
\* by another user at the same time or has come unasked: then whatever comes
\* first ends the request.
AnswerIsOwn ==
  \A u \in Users : chan[u] = "full" => answer[u] = <<u, serial[u]>> \/ ReqId[u] \in crossed

\* No write takes for ever (what a server that stops reading can bring about).
WritesEnd == \A u \in Users : []<>(pc[u] # "writing")

\* If writes end, every call into the session returns, whatever else the server
\* does.  (A write that does not end keeps the writer's mutex; who then tears
\* the session down waits for it with the flag's lock, and everyone else for that.)
EveryCallReturns == WritesEnd => \A u \in Users : pc[u] # "idle" ~> pc[u] = "idle"

\* A request whose sender is dropped, because another user asks for the same id,
\* ends the session for everybody.  (A comment says that this "should not happen".)
DroppedEndsSession == WritesEnd => \A u \in Users : chan[u] = "dropped" ~> isDisconnected

\* A call of wait_for_tasks does not return and leave the read loop to go on, of a
\* session that is in order too: it has ended, or is told to end, or another call or
\* the teardown has taken it to wait for it.
WaitEndsReader ==
  [][\A u \in Users : pc[u] = "wJoin" /\ pc'[u] = "idle" =>
        \/ pc'[Reader] = "gone" \/ Reader \in aborted'
        \/ \E a \in Actors \ {u} : Reader \in taken'[a]]_vars

\* Once the session is over its read loop ends.
ReaderStops == isDisconnected ~> pc[Reader] = "gone"

\* A session whose read loop is gone, because it panicked, does not stay open
\* for ever once somebody waits for an answer on it: the request, which nobody
\* can answer any more, tears it down.
DeadReaderNoticed ==
  WritesEnd =>
    \A u \in Users : pc[Reader] = "gone" /\ pc[u] = "await" /\ chan[u] # "full" ~> isDisconnected

\* A caller that tears the session down gets to call the disconnect handler, and
\* so does a read loop that joins itself.  (One that a call of wait_for_tasks has
\* taken away may be aborted while it joins the others, and then nobody calls it.)
HandlerCalled ==
  /\ hasHandler
  /\ \/ \E u \in Users : pc[u] = "take"
     \/ pc[Reader] = "join" /\ Reader \in taken[Reader]
  ~> handler # "never"

-----------------------------------------------------------------------------
(* What comments say of the session and the code does not do *)

\* "Call the disconnect handler if it is set": the handler, which reconnects,
\* is not cut off.  (A read loop that tears the session down joins itself,
\* times out, and is aborted by dropping the JoinSet before the handler ends.)
HandlerCompletes == handler # "cut"
=============================================================================
