------------------------------- MODULE Reconnect -------------------------------
(***************************************************************************)
(* How main.rs creates a client, and how the disconnect handler it         *)
(* registers replaces the client's session.  Sessions are abstract (see    *)
(* Session): open, ending while it is torn down, then over; the handler of *)
(* a session is called once, when it is torn down, and may be cut off at   *)
(* an await if the read loop tore it down (see GClient).                   *)
(***************************************************************************)
EXTENDS Naturals

CONSTANTS
  Kinds,        \* kinds of client: "rc", "game"
  Enders,       \* who may tear a session down: "reader", "caller"
  ConnectFails, \* whether connecting may fail
  MaxSessions   \* bound: sessions opened

Sessions == 1..MaxSessions

ASSUME ConstantsOK ==
  /\ Kinds \subseteq {"rc", "game"} /\ Enders \subseteq {"reader", "caller"}
  /\ ConnectFails \in BOOLEAN
  /\ MaxSessions \in Nat \ {0}

VARIABLES
  kind,     \* which client this is
  main,     \* where main is, "up" when it is done, or "failed": the program ends
  handler,  \* where the handler is, or "none", "cut", "panicked", "failed", "success"
  target,   \* the session each of the two has connected, or logs in on
  client,   \* the client's session, 0 for None
  sess,     \* each session: "none", "open", "ending" or "over"
  ender,    \* who tears each session down
  hooked,   \* sessions with a disconnect handler
  logins,   \* login packets sent on each session
  keyed     \* sessions with an encryption key

taskVars == <<main, handler, target>>
sessVars == <<sess, ender, hooked>>
vars     == <<kind, taskVars, client, sessVars, logins, keyed>>

Init ==
  /\ kind \in Kinds
  /\ main = "connect" /\ handler = "none"
  /\ target = [main |-> 0, handler |-> 0]
  /\ client = 0
  /\ sess = [s \in Sessions |-> "none"] /\ hooked = {}
  /\ ender = [s \in Sessions |-> "none"]
  /\ logins = [s \in Sessions |-> 0] /\ keyed = {}

Running == main # "failed"
\* The next session is opened.
Open(task) ==
  \E s \in Sessions :
    /\ sess[s] = "none" /\ \A t \in Sessions : t < s => sess[t] # "none"
    /\ sess' = [sess EXCEPT ![s] = "open"]
    /\ target' = [target EXCEPT ![task] = s]

-----------------------------------------------------------------------------
(* create_rc_client and create_game_client: a failure ends the program *)

MainConnect ==
  /\ main = "connect"
  /\ \/ Open("main") /\ main' = "set"
     \/ ConnectFails /\ main' = "failed" /\ UNCHANGED <<sess, target>>
  /\ UNCHANGED <<kind, handler, client, ender, hooked, logins, keyed>>

MainSet ==
  /\ main = "set"
  /\ client' = target.main
  /\ main' = "register"
  /\ UNCHANGED <<kind, handler, target, sessVars, logins, keyed>>

\* The session may have ended before: then its handler is never called.
MainRegister ==
  /\ main = "register"
  /\ hooked' = hooked \cup {client}
  /\ main' = "login"
  /\ UNCHANGED <<kind, handler, target, client, sess, ender, logins, keyed>>

\* login looks up the session to set the key on, then send_packet looks it up
\* again: see LoginSend.
LoginLookup(task, next, fail) ==
  IF client = 0 THEN fail /\ target' = target
                ELSE next /\ target' = [target EXCEPT ![task] = client]

LoginSend(next, fail) ==
  IF client # 0 /\ sess[client] = "open"
    THEN next /\ logins' = [logins EXCEPT ![client] = @ + 1]
    ELSE fail /\ logins' = logins

MainLookup ==
  /\ main = "login" /\ Running
  /\ LoginLookup("main", main' = "send", main' = "failed")
  /\ UNCHANGED <<kind, handler, client, sessVars, logins, keyed>>

MainSend ==
  /\ main = "send"
  /\ LoginSend(main' = IF kind = "rc" THEN "codec" ELSE "up", main' = "failed")
  /\ UNCHANGED <<kind, handler, target, client, sessVars, keyed>>

\* A key that is already set is an error.
MainCodec ==
  /\ main = "codec"
  /\ main' = IF target.main \in keyed THEN "failed" ELSE "up"
  /\ keyed' = keyed \cup {target.main}
  /\ UNCHANGED <<kind, handler, target, client, sessVars, logins>>

-----------------------------------------------------------------------------
(* The disconnect handler *)

\* Mutant: the handler is called before the session has been torn down.
CallHandlerFirst(s) ==
  /\ sess[s] = "ending" /\ Running /\ handler = "none" /\ s \in hooked
  /\ handler' = IF kind = "rc" THEN "clear" ELSE "connect"
  /\ UNCHANGED <<kind, main, target, client, sessVars, logins, keyed>>

\* Mutant: a caller's own disconnect does not call the handler.
CallHandlerReader(s) ==
  /\ sess[s] = "ending" /\ Running
  /\ sess' = [sess EXCEPT ![s] = "over"]
  /\ handler' = IF s \notin hooked \/ ender[s] = "caller" THEN handler
                ELSE IF kind = "rc" THEN "clear" ELSE "connect"
  /\ UNCHANGED <<kind, main, target, client, ender, hooked, logins, keyed>>

\* The game client's handler sleeps and connects, the RC's clears the client first.
CallHandler(s) ==
  /\ sess[s] = "ending" /\ Running
  /\ sess' = [sess EXCEPT ![s] = "over"]
  /\ handler' = IF s \notin hooked THEN handler ELSE IF kind = "rc" THEN "clear" ELSE "connect"
  /\ UNCHANGED <<kind, main, target, client, ender, hooked, logins, keyed>>

HandlerClear ==
  /\ handler = "clear" /\ Running
  /\ client' = 0
  /\ handler' = "connect"
  /\ UNCHANGED <<kind, main, target, sessVars, logins, keyed>>

HandlerConnect ==
  /\ handler = "connect" /\ Running
  /\ \/ Open("handler") /\ handler' = "set"
     \/ /\ ConnectFails
        /\ handler' = IF kind = "rc" THEN "failed" ELSE "panicked"
        /\ UNCHANGED <<sess, target>>
  /\ UNCHANGED <<kind, main, client, ender, hooked, logins, keyed>>

\* Mutant: the RC's handler forgets to log in.
HandlerSetOnly ==
  /\ handler = "set" /\ Running
  /\ client' = target.handler
  /\ handler' = "success"
  /\ UNCHANGED <<kind, main, target, sessVars, logins, keyed>>

\* The game client's handler is done when it has connected.
HandlerSet ==
  /\ handler = "set" /\ Running
  /\ client' = target.handler
  /\ handler' = IF kind = "rc" THEN "login" ELSE "success"
  /\ UNCHANGED <<kind, main, target, sessVars, logins, keyed>>

HandlerLookup ==
  /\ handler = "login" /\ Running
  /\ LoginLookup("handler", handler' = "send", handler' = "failed")
  /\ UNCHANGED <<kind, main, client, sessVars, logins, keyed>>

HandlerSend ==
  /\ handler = "send" /\ Running
  /\ LoginSend(handler' = "codec", handler' = "failed")
  /\ UNCHANGED <<kind, main, target, client, sessVars, keyed>>

HandlerCodec ==
  /\ handler = "codec" /\ Running
  /\ handler' = IF target.handler \in keyed THEN "failed" ELSE "success"
  /\ keyed' = keyed \cup {target.handler}
  /\ UNCHANGED <<kind, main, target, client, sessVars, logins>>

\* The read loop, told to abort, drops the handler that it awaits.
HandlerCut ==
  /\ handler \in {"clear", "connect", "set", "login", "send", "codec"} /\ Running
  /\ \E s \in hooked : sess[s] = "over" /\ ender[s] = "reader"
  /\ handler' = "cut"
  /\ UNCHANGED <<kind, main, target, client, sessVars, logins, keyed>>

-----------------------------------------------------------------------------
\* A session ends: the read loop meets an error, or a caller does.
SessionEnds(s, who) ==
  /\ sess[s] = "open" /\ Running
  /\ sess' = [sess EXCEPT ![s] = "ending"]
  /\ ender' = [ender EXCEPT ![s] = who]
  /\ UNCHANGED <<kind, taskVars, client, hooked, logins, keyed>>

MainStep == MainConnect \/ MainSet \/ MainRegister \/ MainLookup \/ MainSend \/ MainCodec

HandlerStep ==
  \/ HandlerClear \/ HandlerConnect \/ HandlerSet \/ HandlerLookup \/ HandlerSend
  \/ HandlerCodec

Next ==
  \/ MainStep \/ HandlerStep \/ HandlerCut
  \/ \E s \in Sessions : CallHandler(s)
  \/ \E s \in Sessions, who \in Enders : SessionEnds(s, who)

Spec == Init /\ [][Next]_vars

\* main and the handler get on, and a teardown comes to its end.
FairSpec ==
  /\ Spec
  /\ WF_vars(MainStep) /\ WF_vars(HandlerStep)
  /\ \A s \in Sessions : WF_vars(CallHandler(s))

-----------------------------------------------------------------------------
(* Properties *)

Steps == {"connect", "set", "login", "send", "codec", "failed"}

\* Every variable keeps its type.
TypeOK ==
  /\ kind \in Kinds
  /\ main \in Steps \cup {"register", "up"}
  /\ handler \in Steps \cup {"none", "clear", "cut", "panicked", "success"}
  /\ target \in [{"main", "handler"} -> Sessions \cup {0}]
  /\ client \in Sessions \cup {0}
  /\ sess \in [Sessions -> {"none", "open", "ending", "over"}]
  /\ ender \in [Sessions -> Enders \cup {"none"}]
  /\ hooked \in SUBSET Sessions /\ keyed \in SUBSET Sessions
  /\ logins \in [Sessions -> Nat]

\* main opens the first session, and only that one ever has a handler.
FirstSession ==
  /\ main = "connect" => \A s \in Sessions : sess[s] = "none"
  /\ main \in {"connect", "set"} => client = 0
  /\ main \in {"connect", "set", "register"} => hooked = {} /\ handler = "none"
  /\ main = "set" => target.main = 1
  /\ main = "register" => client = 1
  /\ main \in {"send", "codec"} => target.main # 0
  /\ hooked \subseteq {1}

\* The handler's session is the second, opened when the first is over, and the
\* client's from when the handler has set it; there is no third.
SecondSession ==
  /\ \A s \in Sessions : s > 2 => sess[s] = "none"
  /\ handler \in {"none", "clear", "connect"} => \A s \in Sessions : s > 1 => sess[s] = "none"
  /\ handler # "none" => sess[1] = "over"
  /\ handler \in {"set", "login", "send", "codec", "success"} => target.handler = 2
  /\ handler \in {"login", "send", "codec", "success"} => client = 2
  /\ kind = "rc" /\ handler \in {"codec", "success"} => logins[2] > 0
  /\ kind = "rc" /\ handler = "success" => 2 \in keyed

IInv == TypeOK /\ FirstSession /\ SecondSession

\* A session is opened when the one before it is over: the client never has
\* two connections to the server.
OneConnection ==
  \A s, t \in Sessions : s < t /\ sess[t] # "none" => sess[s] = "over"

\* "Successfully reconnected and logged in": when the RC's handler says so, the
\* client's session is the one it opened, and has had its login and its key.
SuccessIsLoggedIn ==
  kind = "rc" /\ handler = "success" =>
    client = target.handler /\ logins[client] > 0 /\ client \in keyed

\* When a caller has torn down a session whose handler is registered, another
\* connection is at least tried, unless the program ends.
HandlerTries ==
  \A s \in Sessions :
    sess[s] = "ending" /\ s \in hooked /\ ender[s] = "caller"
      ~> handler \in {"failed", "panicked", "success"} \/ ~Running

\* "Register a disconnect handler that automatically reconnects": a client that
\* has lost its session gets another.  (The session that the handler opens has
\* no handler of its own.)
Reconnects ==
  \A s \in Sessions \ {MaxSessions} :
    client = s /\ sess[s] = "over" ~> (\E t \in Sessions : sess[t] = "open") \/ ~Running
=============================================================================
