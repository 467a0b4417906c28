-------------------------------- MODULE Discord --------------------------------
(***************************************************************************)
(* The Discord front end above the clients that main.rs has created, one   *)
(* of which is the client of Reconnect: its session may be lost and        *)
(* replaced between any two steps.  Discord calls interaction_create for a *)
(* command and ready for a new gateway session, each in a task of its own. *)
(* The other clients are abstract: a call into one of them succeeds or     *)
(* fails, and another RC client may be without a session (None).           *)
(***************************************************************************)
EXTENDS Reconnect, Sequences, FiniteSets

CONSTANTS
  Commands,     \* the commands that users issue
  Readies,      \* slots for calls of ready that run at the same time
  RcClients,    \* how many RC clients main created
  GameClients,  \* how many game clients
  MaxReadies,   \* bound: calls of ready
  MaxEvents     \* bound: packets the server sends this client unasked

Clients == 1..(RcClients + GameClients)     \* as ready goes through them
Mine    == IF kind = "rc" THEN 1..RcClients ELSE Clients \ 1..RcClients

ASSUME DiscordOK ==
  /\ RcClients \in Nat \ {0} /\ GameClients \in Nat \ {0}
  /\ MaxReadies \in Nat /\ MaxEvents \in Nat /\ IsFiniteSet(Readies)
  /\ "caller" \in Enders     \* a command may tear a session down

VARIABLES
  me,       \* which of the clients is the one of Reconnect
  next,     \* the client each ready is to register a handler with, 0 when it is not running
  calls,    \* how often ready was called
  hooks,    \* event handlers on each session of this client
  running,  \* the callbacks still running for each unasked packet
  posts,    \* the messages in the channel: the packets they report
  pc,       \* where each command is
  op,       \* what it does: "chat" or "weapon" (get_weapon and add_weapon)
  pos,      \* the client it calls
  aim,      \* the session it looked up
  reached,  \* the clients it is done with
  outcome,  \* its answer: "none", "success", "refused" or "error"
  early     \* sessions on which a command was sent in front of the login

readyVars   == <<next, calls, hooks>>
eventVars   == <<running, posts>>
commandVars == <<pc, op, pos, aim, reached, outcome, early>>
dvars       == <<me, readyVars, eventVars, commandVars>>

DInit ==
  /\ Init
  /\ me \in Mine
  /\ next = [r \in Readies |-> 0] /\ calls = 0
  /\ hooks = [s \in Sessions |-> 0]
  /\ running = <<>> /\ posts = <<>>
  /\ pc = [c \in Commands |-> "none"] /\ op = [c \in Commands |-> "chat"]
  /\ pos = [c \in Commands |-> 1] /\ aim = [c \in Commands |-> 0]
  /\ reached = [c \in Commands |-> {}] /\ outcome = [c \in Commands |-> "none"]
  /\ early = {}

\* Mutant: Discord is started while the clients are still being created.
OnlineEarly == main \notin {"connect", "set"}

\* main starts Discord when it has created every client.
Online == main = "up"

-----------------------------------------------------------------------------
(* ready *)

Ready(r) ==
  /\ Online /\ next[r] = 0 /\ calls < MaxReadies
  /\ next' = [next EXCEPT ![r] = 1]
  /\ calls' = calls + 1
  /\ UNCHANGED <<vars, me, hooks, eventVars, commandVars>>

\* The next client, or the end of ready.
Proceed(r) == next' = [next EXCEPT ![r] = IF @ + 1 \in Clients THEN @ + 1 ELSE 0]
Panic(r)   == next' = [next EXCEPT ![r] = 0]

\* The handler goes to the session of the moment.  A client without one ends
\* ready, and the clients behind it get no handler.
RegisterMine(r) ==
  /\ next[r] = me
  /\ IF client = 0
       THEN Panic(r) /\ hooks' = hooks
       ELSE Proceed(r) /\ hooks' = [hooks EXCEPT ![client] = @ + 1]
  /\ UNCHANGED <<vars, me, calls, eventVars, commandVars>>

\* A game client is never None again once it has connected.
RegisterOther(r) ==
  /\ next[r] \in Clients \ {me}
  /\ Proceed(r) \/ (next[r] <= RcClients /\ Panic(r))
  /\ UNCHANGED <<vars, me, calls, hooks, eventVars, commandVars>>

-----------------------------------------------------------------------------
(* Packets that the server sends unasked: RcChat, NpcWeaponScript *)

\* The read loop spawns a callback for each handler; without one the packet is
\* dropped.
Dispatch(s) ==
  /\ sess[s] = "open" /\ hooks[s] > 0 /\ Len(running) < MaxEvents
  /\ running' = Append(running, hooks[s])
  /\ UNCHANGED <<vars, me, posts, readyVars, commandVars>>

\* Mutant: a callback posts each of its packet's lines.
ReportTwice(e) ==
  /\ running[e] > 0
  /\ running' = [running EXCEPT ![e] = @ - 1]
  /\ posts' \in {posts, Append(posts, e), posts \o <<e, e>>}
  /\ UNCHANGED <<vars, me, readyVars, commandVars>>

\* A callback posts its packet, in no order, or ends without: posting fails, a
\* weapon script cannot be parsed, or the session's end stops it.
Report(e) ==
  /\ running[e] > 0
  /\ running' = [running EXCEPT ![e] = @ - 1]
  /\ posts' \in {posts, Append(posts, e)}
  /\ UNCHANGED <<vars, me, readyVars, commandVars>>

-----------------------------------------------------------------------------
(* interaction_create and the commands *)

Go(c, l)     == pc' = [pc EXCEPT ![c] = l]
Answer(c, a) == Go(c, "answer") /\ outcome' = [outcome EXCEPT ![c] = a]
Reach(c)     == /\ Go(c, "loop")
                /\ reached' = [reached EXCEPT ![c] = @ \cup {pos[c]}]
                /\ pos' = [pos EXCEPT ![c] = @ + 1]

\* The task of a command ends, and what it remembered is gone.
End(c) ==
  /\ Go(c, "over")
  /\ op' = [op EXCEPT ![c] = "chat"] /\ pos' = [pos EXCEPT ![c] = 1]
  /\ aim' = [aim EXCEPT ![c] = 0]
  /\ reached' = [reached EXCEPT ![c] = {}] /\ outcome' = [outcome EXCEPT ![c] = "none"]

\* A command whose response cannot be deferred is left alone.
Interact(c) ==
  /\ Online /\ pc[c] = "none"
  /\ Go(c, "run") \/ Go(c, "over")
  /\ UNCHANGED <<vars, me, op, pos, aim, reached, outcome, early, readyVars, eventVars>>

\* An unknown command, an option that is missing, a script that cannot be fetched.
Refuse(c) ==
  /\ pc[c] = "run"
  /\ Answer(c, "refused")
  /\ UNCHANGED <<vars, me, op, pos, aim, reached, early, readyVars, eventVars>>

Begin(c) ==
  /\ pc[c] = "run"
  /\ op' \in {[op EXCEPT ![c] = o] : o \in {"chat", "weapon"}}
  /\ Go(c, "loop")
  /\ UNCHANGED <<vars, me, pos, aim, reached, outcome, early, readyVars, eventVars>>

\* Mutant: a client that fails is passed over.
CallOtherSkips(c) ==
  /\ pc[c] = "loop" /\ pos[c] \in 1..RcClients \ {me}
  /\ \/ Reach(c)
     \/ pos' = [pos EXCEPT ![c] = @ + 1] /\ UNCHANGED <<pc, reached>>
  /\ UNCHANGED <<vars, me, op, aim, outcome, early, readyVars, eventVars>>

\* The first error ends the loop.  The address of an NC server is cut out of a
\* packet without a look at its length: a short one panics.
CallOther(c) ==
  /\ pc[c] = "loop" /\ pos[c] \in 1..RcClients \ {me}
  /\ \/ Reach(c) /\ UNCHANGED <<op, aim, outcome>>
     \/ Answer(c, "error") /\ UNCHANGED <<op, pos, aim, reached>>
     \/ op[c] = "weapon" /\ End(c)
  /\ UNCHANGED <<vars, me, early, readyVars, eventVars>>

\* Mutant: a command waits for the client to be connected again.
LookupWaits(c) ==
  /\ pc[c] = "loop" /\ pos[c] = me /\ me <= RcClients
  /\ client # 0
  /\ Go(c, "send") /\ aim' = [aim EXCEPT ![c] = client]
  /\ UNCHANGED <<vars, me, op, pos, reached, outcome, early, readyVars, eventVars>>

\* A chat message, or a query for the NC server's address, goes to the session
\* of the moment.  With a cached NC client there is no query.
Lookup(c) ==
  /\ pc[c] = "loop" /\ pos[c] = me /\ me <= RcClients
  /\ \/ /\ client # 0
        /\ Go(c, "send") /\ aim' = [aim EXCEPT ![c] = client] /\ outcome' = outcome
     \/ client = 0 /\ Answer(c, "error") /\ aim' = aim
     \/ op[c] = "weapon" /\ Go(c, "nc") /\ UNCHANGED <<aim, outcome>>
  /\ UNCHANGED <<vars, me, op, pos, reached, early, readyVars, eventVars>>

\* It is written, whether the client has logged in on the session or not.
Write(c) ==
  /\ pc[c] = "send" /\ sess[aim[c]] = "open"
  /\ IF op[c] = "chat" THEN Reach(c) ELSE Go(c, "wait") /\ UNCHANGED <<reached, pos>>
  /\ early' = IF logins[aim[c]] = 0 THEN early \cup {aim[c]} ELSE early
  /\ UNCHANGED <<vars, me, op, aim, outcome, readyVars, eventVars>>

\* The query is answered.
Answered(c) ==
  /\ pc[c] = "wait"
  /\ Go(c, "nc")
  /\ UNCHANGED <<vars, me, op, pos, aim, reached, outcome, early, readyVars, eventVars>>

\* A session that is over, or being torn down by another task, refuses the write,
\* and whoever waits on it for an answer gives up.
Refused(c) ==
  /\ pc[c] \in {"send", "wait"} /\ sess[aim[c]] # "open"
  /\ Answer(c, "error")
  /\ UNCHANGED <<vars, me, op, pos, aim, reached, early, readyVars, eventVars>>

\* A write that fails, or a query whose answer does not come, tears the session
\* down: the command's task calls the disconnect handler, and waits for it.
TearDown(c) ==
  /\ pc[c] \in {"send", "wait"}
  /\ SessionEnds(aim[c], "caller")
  /\ Go(c, "tear")
  /\ UNCHANGED <<me, op, pos, aim, reached, outcome, early, readyVars, eventVars>>

TornDown(c) ==
  /\ pc[c] = "tear" /\ sess[aim[c]] = "over"
  /\ aim[c] \in hooked => handler \in {"failed", "success"}
  /\ Answer(c, "error")
  /\ UNCHANGED <<vars, me, op, pos, aim, reached, early, readyVars, eventVars>>

\* What comes of the NC client is NpcControl's matter.
CallNc(c) ==
  /\ pc[c] = "nc"
  /\ \/ Reach(c) /\ UNCHANGED <<op, aim, outcome>>
     \/ Answer(c, "error") /\ UNCHANGED <<op, pos, aim, reached>>
     \/ End(c)
  /\ UNCHANGED <<vars, me, early, readyVars, eventVars>>

Finish(c) ==
  /\ pc[c] = "loop" /\ pos[c] > RcClients
  /\ Answer(c, "success")
  /\ UNCHANGED <<vars, me, op, pos, aim, reached, early, readyVars, eventVars>>

\* The follow-up.  One that fails is logged, or panics if it was to report an error.
FollowUp(c) ==
  /\ pc[c] = "answer"
  /\ End(c)
  /\ UNCHANGED <<vars, me, early, readyVars, eventVars>>

-----------------------------------------------------------------------------
CommandStep(c) ==
  \/ Refuse(c) \/ Begin(c) \/ CallOther(c) \/ Lookup(c) \/ Write(c) \/ Answered(c)
  \/ Refused(c) \/ TearDown(c) \/ TornDown(c) \/ CallNc(c) \/ Finish(c) \/ FollowUp(c)

DNext ==
  \/ Next /\ UNCHANGED dvars
  \/ \E r \in Readies : Ready(r) \/ RegisterMine(r) \/ RegisterOther(r)
  \/ \E s \in Sessions : Dispatch(s)
  \/ \E e \in 1..Len(running) : Report(e)
  \/ \E c \in Commands : Interact(c) \/ CommandStep(c)

DSpec == DInit /\ [][DNext]_<<vars, dvars>>

\* The fairness of Reconnect, and that of the tasks of commands: like GClient's
\* calls they go on if writes to their session end.
DFairSpec ==
  /\ DSpec
  /\ WF_vars(MainStep) /\ WF_vars(HandlerStep)
  /\ \A s \in Sessions : WF_vars(CallHandler(s))
  /\ \A c \in Commands : WF_commandVars(CommandStep(c))

-----------------------------------------------------------------------------
(* Properties *)

\* Every variable keeps its type.
DTypeOK ==
  /\ me \in Mine
  /\ next \in [Readies -> Clients \cup {0}] /\ calls \in 0..MaxReadies
  /\ hooks \in [Sessions -> Nat]
  /\ running \in Seq(Nat) /\ posts \in Seq(1..Len(running))
  /\ pc \in [Commands -> {"none", "run", "loop", "send", "wait", "tear", "nc", "answer", "over"}]
  /\ op \in [Commands -> {"chat", "weapon"}]
  /\ pos \in [Commands -> 1..(RcClients + 1)]
  /\ aim \in [Commands -> Sessions \cup {0}]
  /\ reached \in [Commands -> SUBSET (1..RcClients)]
  /\ outcome \in [Commands -> {"none", "success", "refused", "error"}]
  /\ early \in SUBSET Sessions

\* The answer to a command says whom it reached: all RC clients when it is a
\* success, none when it is refused, and those in front of the one that failed
\* when it is an error (which its text does not tell).
AnswerTellsReach ==
  \A c \in Commands :
    /\ outcome[c] = "success" => reached[c] = 1..RcClients
    /\ outcome[c] = "refused" => reached[c] = {}
    /\ outcome[c] = "error" => pos[c] <= RcClients /\ reached[c] = 1..(pos[c] - 1)

\* A command is sent in front of the login only on the session with which the
\* RC's handler replaces the first, never on the first.
EarlyOnReplacement == early \subseteq {target.handler} \ {1}

\* Where the commands are: at work only once Discord is started, done with the
\* clients in front of the one they call, and with a session only at ours.
CommandInv ==
  \A c \in Commands :
    /\ pc[c] # "none" => Online
    /\ pc[c] \in {"none", "run", "over"} => pos[c] = 1 /\ reached[c] = {}
    /\ pc[c] # "answer" => outcome[c] = "none"
    /\ pc[c] \in {"loop", "send", "wait", "tear", "nc"} => reached[c] = 1..(pos[c] - 1)
    /\ pc[c] \in {"send", "wait", "tear", "nc"} => pos[c] = me /\ me <= RcClients
    /\ pc[c] \in {"send", "wait", "tear"} => aim[c] \in Sessions

\* Which session is the client's, and which of the two has had a login.
ClientInv ==
  /\ handler \in {"none", "clear", "connect", "set"} => client \in {0, 1}
  /\ handler \in {"none", "clear", "connect"} => target.handler = 0
  /\ \A s \in Sessions : s > 1 /\ sess[s] # "none" => target.handler = s
  /\ main \in {"codec", "up"} => logins[1] > 0 \/ sess[1] = "over"

\* The inductive invariant of the whole.
DInv ==
  /\ IInv /\ DTypeOK /\ CommandInv /\ ClientInv
  /\ AnswerTellsReach /\ EarlyOnReplacement

\* A packet is posted at most once for each call of ready, on whichever of the
\* client's sessions it came.
ReportedPerReady ==
  \A e \in 1..Len(running) :
    Cardinality({i \in 1..Len(posts) : posts[i] = e}) + running[e] <= calls

\* If writes end, every command that was deferred comes to its follow-up or panics,
\* even if it meets a session that is torn down or a client that has none.
CommandsEnd == \A c \in Commands : pc[c] = "run" ~> pc[c] = "over"
=============================================================================
