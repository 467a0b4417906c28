------------------------------- MODULE Session -------------------------------
(***************************************************************************)
(* What a GClient session promises those who use it.  The session is open, *)
(* then shut (nothing is sent any more), then closed (calls are refused),  *)
(* and never opens again.  A request is made, sent and answered at most    *)
(* once, and sent only while the session is open.  The disconnect handler  *)
(* is called at most once, and only when the session is closed.            *)
(***************************************************************************)
CONSTANT Users

VARIABLES
  phase,   \* "open", "shut" or "closed"
  req,     \* each user's request: "none", "made", "sent" or "answered"
  handler  \* the disconnect handler: "never", "running", "done" or "cut"

sessionVars == <<phase, req, handler>>

SessionInit ==
  /\ phase = "open"
  /\ req = [u \in Users |-> "none"]
  /\ handler = "never"

Make(u) ==
  /\ req[u] = "none"
  /\ req' = [req EXCEPT ![u] = "made"]
  /\ UNCHANGED <<phase, handler>>

Send(u) ==
  /\ phase = "open" /\ req[u] = "made"
  /\ req' = [req EXCEPT ![u] = "sent"]
  /\ UNCHANGED <<phase, handler>>

\* Packets are matched by id alone, so one may answer a request before it is sent.
Answer(u) ==
  /\ req[u] \in {"made", "sent"}
  /\ req' = [req EXCEPT ![u] = "answered"]
  /\ UNCHANGED <<phase, handler>>

End(u) ==
  /\ req[u] # "none"
  /\ req' = [req EXCEPT ![u] = "none"]
  /\ UNCHANGED <<phase, handler>>

Shut  == phase = "open" /\ phase' = "shut" /\ UNCHANGED <<req, handler>>
Close == phase = "shut" /\ phase' = "closed" /\ UNCHANGED <<req, handler>>

StartHandler ==
  /\ phase = "closed" /\ handler = "never"
  /\ handler' = "running"
  /\ UNCHANGED <<phase, req>>

EndHandler ==
  /\ handler = "running"
  /\ handler' \in {"done", "cut"}
  /\ UNCHANGED <<phase, req>>

SessionNext ==
  \/ \E u \in Users : Make(u) \/ Send(u) \/ Answer(u) \/ End(u)
  \/ Shut \/ Close \/ StartHandler \/ EndHandler

SessionSpec == SessionInit /\ [][SessionNext]_sessionVars
=============================================================================
