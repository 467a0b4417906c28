------------------------------ MODULE NpcControl ------------------------------
(***************************************************************************)
(* The NPC control connections of a RemoteControlClient: the one it caches,*)
(* the callers that look it up, make it and drop it, the task that should  *)
(* close it when idle, and disconnect.                                     *)
(*                                                                         *)
(* Sessions are abstract: the RC session and each NPC session are open     *)
(* until they are torn down, a request is answered, times out or loses its *)
(* sender to another caller's request for the same id (see GClient), and   *)
(* the last two tear the session down.                                     *)
(***************************************************************************)
EXTENDS Naturals

CONSTANTS
  Users,     \* callers of nc_get_weapon and nc_add_weapon
  Ops,       \* which of the two they call: "get", "add"
  Clients,   \* NpcControlClients there is room for
  Nobody,    \* no client
  MaxCalls   \* bound: calls per user

ASSUME ConstantsOK ==
  /\ Ops \subseteq {"get", "add"}
  /\ Nobody \notin Clients
  /\ MaxCalls \in Nat

VARIABLES
  pc,        \* where each caller is
  op,        \* what it called
  mine,      \* the client it works with
  calls,     \* how many calls it has made
  ask,       \* its request: "none", "open", "dropped", or "stale": the session is over
  cache,     \* npc_control
  conn,      \* each client's session: "none", "open" or "over"
  loggedIn,  \* clients that have logged in
  failed,    \* clients a returned call has failed with
  rc,        \* the RC session: "open" or "over"
  autoTask,  \* the auto-disconnect task: "spawned" or "gone"
  closer     \* disconnect: "off", "npc", "task", "rc" or "done"

callVars == <<pc, op, mine, calls>>
npcVars  == <<cache, conn, loggedIn, failed>>
vars     == <<callVars, ask, npcVars, rc, autoTask, closer>>

Init ==
  /\ pc = [u \in Users |-> "idle"] /\ op = [u \in Users |-> "get"]
  /\ mine = [u \in Users |-> Nobody] /\ calls = [u \in Users |-> 0]
  /\ ask = [u \in Users |-> "none"]
  /\ cache = Nobody /\ conn = [c \in Clients |-> "none"] /\ loggedIn = {} /\ failed = {}
  /\ rc = "open" /\ autoTask = "spawned" /\ closer = "off"

-----------------------------------------------------------------------------
Go(u, l) == pc' = [pc EXCEPT ![u] = l]

\* A request takes the place of the one that waits for the same id.
Insert(u, rivals) ==
  ask' = [v \in Users |-> IF v = u THEN "open"
                          ELSE IF v \in rivals /\ ask[v] = "open" THEN "dropped"
                          ELSE ask[v]]

\* The requests of a session that is over can only time out.
Abandon(asking) ==
  [v \in Users |-> IF v \in asking /\ ask[v] # "none" THEN "stale" ELSE ask[v]]

Asking    == {u \in Users : pc[u] = "asked"}
Using(c)  == {u \in Users : pc[u] = "await" /\ mine[u] = c}

-----------------------------------------------------------------------------
(* get_npc_control *)

Call(u) ==
  /\ pc[u] = "idle" /\ calls[u] < MaxCalls
  /\ \E o \in Ops : op' = [op EXCEPT ![u] = o]
  /\ calls' = [calls EXCEPT ![u] = @ + 1]
  /\ mine' = [mine EXCEPT ![u] = Nobody]
  /\ Go(u, "lookup")
  /\ UNCHANGED <<ask, npcVars, rc, autoTask, closer>>

Lookup(u) ==
  /\ pc[u] = "lookup"
  /\ IF cache # Nobody
       THEN mine' = [mine EXCEPT ![u] = cache] /\ Go(u, "use")
       ELSE mine' = mine /\ Go(u, "query")
  /\ UNCHANGED <<op, calls, ask, npcVars, rc, autoTask, closer>>

\* Ask the RC server for the address.  The cache is not locked from here on.
Query(u) ==
  /\ pc[u] = "query"
  /\ IF rc = "open"
       THEN Insert(u, Asking) /\ Go(u, "asked")
       ELSE ask' = ask /\ Go(u, "idle")
  /\ UNCHANGED <<op, mine, calls, npcVars, rc, autoTask, closer>>

\* The answer may hold no host or no port.
QueryAnswered(u) ==
  /\ pc[u] = "asked" /\ ask[u] = "open"
  /\ ask' = [ask EXCEPT ![u] = "none"]
  /\ Go(u, "connect") \/ Go(u, "idle")
  /\ UNCHANGED <<op, mine, calls, npcVars, rc, autoTask, closer>>

\* A request that fails takes the RC session down with it.
QueryFailed(u) ==
  /\ pc[u] = "asked"
  /\ IF ask[u] = "stale"
       THEN rc' = rc /\ ask' = [ask EXCEPT ![u] = "none"]
       ELSE rc' = "over" /\ ask' = [Abandon(Asking) EXCEPT ![u] = "none"]
  /\ Go(u, "idle")
  /\ UNCHANGED <<op, mine, calls, npcVars, autoTask, closer>>

Connect(u) ==
  /\ pc[u] = "connect"
  /\ \/ \E c \in Clients :
          /\ conn[c] = "none"
          /\ conn' = [conn EXCEPT ![c] = "open"]
          /\ mine' = [mine EXCEPT ![u] = c]
          /\ Go(u, "login")
     \/ UNCHANGED <<conn, mine>> /\ Go(u, "idle")
  /\ UNCHANGED <<op, calls, ask, cache, loggedIn, failed, rc, autoTask, closer>>

\* Mutant: the login packet is not sent.
LoginSkipped(u) ==
  /\ pc[u] = "login"
  /\ Go(u, "store")
  /\ UNCHANGED <<op, mine, calls, ask, npcVars, rc, autoTask, closer>>

Login(u) ==
  /\ pc[u] = "login"
  /\ IF conn[mine[u]] = "open"
       THEN loggedIn' = loggedIn \cup {mine[u]} /\ Go(u, "store")
       ELSE loggedIn' = loggedIn /\ Go(u, "idle")
  /\ UNCHANGED <<op, mine, calls, ask, cache, conn, failed, rc, autoTask, closer>>

\* Mutant: the cache is not looked at again.
StoreUnchecked(u) ==
  /\ pc[u] = "store"
  /\ cache' = mine[u]
  /\ Go(u, "use")
  /\ UNCHANGED <<op, mine, calls, ask, conn, loggedIn, failed, rc, autoTask, closer>>

\* The first one stays in the cache; the caller works with its own anyway.
Store(u) ==
  /\ pc[u] = "store"
  /\ cache' = IF cache = Nobody THEN mine[u] ELSE cache
  /\ Go(u, "use")
  /\ UNCHANGED <<op, mine, calls, ask, conn, loggedIn, failed, rc, autoTask, closer>>

-----------------------------------------------------------------------------
(* nc_get_weapon and nc_add_weapon on the client, and what with_npc_control *)
(* makes of their outcome                                                   *)

Use(u) ==
  LET c == mine[u] IN
  /\ pc[u] = "use"
  /\ IF conn[c] = "over" THEN ask' = ask /\ Go(u, "clear")
     ELSE IF op[u] = "add" THEN ask' = ask /\ Go(u, "idle")
     ELSE Insert(u, Using(c)) /\ Go(u, "await")
  /\ UNCHANGED <<op, mine, calls, npcVars, rc, autoTask, closer>>

\* The answer may not be a weapon: that is an error like any other.
UseAnswered(u) ==
  /\ pc[u] = "await" /\ ask[u] = "open"
  /\ ask' = [ask EXCEPT ![u] = "none"]
  /\ Go(u, "idle") \/ Go(u, "clear")
  /\ UNCHANGED <<op, mine, calls, npcVars, rc, autoTask, closer>>

UseFailed(u) ==
  /\ pc[u] = "await"
  /\ conn' = [conn EXCEPT ![mine[u]] = "over"]
  /\ ask' = [Abandon(Using(mine[u])) EXCEPT ![u] = "none"]
  /\ Go(u, "clear")
  /\ UNCHANGED <<op, mine, calls, cache, loggedIn, failed, rc, autoTask, closer>>

\* Mutant: only a session that is over is dropped from the cache.
ClearIfOver(u) ==
  /\ pc[u] = "clear"
  /\ cache' = IF conn[mine[u]] = "over" THEN Nobody ELSE cache
  /\ failed' = failed \cup {mine[u]}
  /\ Go(u, "idle")
  /\ UNCHANGED <<op, mine, calls, ask, conn, loggedIn, rc, autoTask, closer>>

\* Whatever client is cached by now is dropped from the cache, not disconnected.
Clear(u) ==
  /\ pc[u] = "clear"
  /\ cache' = Nobody
  /\ failed' = failed \cup {mine[u]}
  /\ Go(u, "idle")
  /\ UNCHANGED <<op, mine, calls, ask, conn, loggedIn, rc, autoTask, closer>>

-----------------------------------------------------------------------------
(* The auto-disconnect task, disconnect, and the sessions' own ends *)

\* The task holds a weak reference to a clone that is dropped where it is made:
\* its first upgrade fails, and the loop ends.
AutoTaskPoll ==
  /\ autoTask = "spawned"
  /\ autoTask' = "gone"
  /\ UNCHANGED <<callVars, ask, npcVars, rc, closer>>

\* It fails if there is no RC session, as while one is being replaced.
DisconnectStart ==
  /\ closer = "off"
  /\ closer' \in IF rc = "open" THEN {"npc"} ELSE {"npc", "done"}
  /\ UNCHANGED <<callVars, ask, npcVars, rc, autoTask>>

\* The cached client is disconnected, and stays in the cache.
DisconnectNpc ==
  /\ closer = "npc"
  /\ closer' = "task"
  /\ IF cache = Nobody THEN UNCHANGED <<conn, ask>>
     ELSE conn' = [conn EXCEPT ![cache] = "over"] /\ ask' = Abandon(Using(cache))
  /\ UNCHANGED <<callVars, cache, loggedIn, failed, rc, autoTask>>

DisconnectTask ==
  /\ closer = "task"
  /\ closer' = "rc"
  /\ autoTask' = "gone"
  /\ UNCHANGED <<callVars, ask, npcVars, rc>>

DisconnectRc ==
  /\ closer = "rc"
  /\ closer' = "done"
  /\ rc' = "over" /\ ask' = Abandon(Asking)
  /\ UNCHANGED <<callVars, npcVars, autoTask>>

\* The server closes the connection, or sends what cannot be read.
NpcSessionEnds(c) ==
  /\ conn[c] = "open"
  /\ conn' = [conn EXCEPT ![c] = "over"]
  /\ ask' = Abandon(Using(c))
  /\ UNCHANGED <<callVars, cache, loggedIn, failed, rc, autoTask, closer>>

RcSessionEnds ==
  /\ rc = "open"
  /\ rc' = "over" /\ ask' = Abandon(Asking)
  /\ UNCHANGED <<callVars, npcVars, autoTask, closer>>

\* The disconnect handler in main.rs has connected and logged in again; how
\* often it does so is not bounded here.
RcReconnects ==
  /\ rc = "over"
  /\ rc' = "open"
  /\ UNCHANGED <<callVars, ask, npcVars, autoTask, closer>>

-----------------------------------------------------------------------------
UserStep(u) ==
  \/ Lookup(u) \/ Query(u) \/ QueryAnswered(u) \/ QueryFailed(u) \/ Connect(u)
  \/ Login(u) \/ Store(u) \/ Use(u) \/ UseAnswered(u) \/ UseFailed(u) \/ Clear(u)

Next ==
  \/ \E u \in Users : Call(u) \/ UserStep(u)
  \/ AutoTaskPoll
  \/ DisconnectStart \/ DisconnectNpc \/ DisconnectTask \/ DisconnectRc
  \/ \E c \in Clients : NpcSessionEnds(c)
  \/ RcSessionEnds \/ RcReconnects

Spec == Init /\ [][Next]_vars

\* A caller that can take a step takes one (requests end with an answer or the
\* timeout), and the auto-disconnect task is polled.
FairSpec == Spec /\ (\A u \in Users : WF_vars(UserStep(u))) /\ WF_vars(AutoTaskPoll)

-----------------------------------------------------------------------------
(* Properties *)

\* Every variable keeps its type.
TypeOK ==
  /\ pc \in [Users -> {"idle", "lookup", "query", "asked", "connect", "login", "store",
                       "use", "await", "clear"}]
  /\ op \in [Users -> {"get", "add"}]
  /\ mine \in [Users -> Clients \cup {Nobody}]
  /\ calls \in [Users -> 0..MaxCalls]
  /\ ask \in [Users -> {"none", "open", "dropped", "stale"}]
  /\ cache \in Clients \cup {Nobody}
  /\ conn \in [Clients -> {"none", "open", "over"}]
  /\ loggedIn \in SUBSET Clients /\ failed \in SUBSET Clients
  /\ rc \in {"open", "over"} /\ autoTask \in {"spawned", "gone"}
  /\ closer \in {"off", "npc", "task", "rc", "done"}

\* Whoever stores or works with a client, cached or its own, has one that has
\* logged in, although callers store and look up clients as others make them.
UsesLoggedIn ==
  /\ cache # Nobody => cache \in loggedIn
  /\ \A u \in Users : pc[u] \in {"store", "use", "await", "clear"} => mine[u] \in loggedIn

\* A client that is still being made belongs to one caller alone.
MadeByOne == \A u \in Users : pc[u] \in {"login", "store"} =>
  /\ mine[u] \in Clients /\ conn[mine[u]] # "none"
  /\ mine[u] \notin failed /\ mine[u] # cache
  /\ \A v \in Users : v # u => mine[v] # mine[u]

\* A client that a call has failed with is not handed out again: when the call
\* has returned it is out of the cache, and nobody puts it back.
FailedNeverServed == cache \notin failed

\* What the safety properties rest on.
Unmade == \A c \in Clients : conn[c] = "none" =>
  cache # c /\ c \notin loggedIn \cup failed /\ \A u \in Users : mine[u] # c
IInv == TypeOK /\ Unmade /\ MadeByOne /\ UsesLoggedIn /\ FailedNeverServed

\* "check again if another thread already created one": of two callers that
\* make a client at once the second never replaces the client of the first.
NeverReplaced == [][cache # Nobody => cache' \in {cache, Nobody}]_cache

\* "When we should automatically disconnect the NpcControl after a period of
\* inactivity": when the callers stay idle, the cached client is dropped.  (The
\* task that should do so ends when it is first polled.)
IdleIsDisconnected ==
  [](closer = "off") /\ <>[](\A u \in Users : pc[u] = "idle") => []<>(cache = Nobody)
=============================================================================
