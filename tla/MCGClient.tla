------------------------------ MODULE MCGClient ------------------------------
(* Small instances of GClient for TLC. *)
EXTENDS GClient

CONSTANTS u1, u2, c1, q1

OneId  == [u \in Users |-> q1]                \* all wait for the same response id

\* One user asks; another asks for the same and makes all other calls, or disconnects.
Busy   == [u \in Users |-> IF u = u1 THEN {"request"} ELSE {"send", "request", "disconnect", "wait"}]
Rivals == [u \in Users |-> IF u = u1 THEN {"request"} ELSE {"request", "disconnect"}]
NoWait == [u \in Users |-> {"send", "request", "disconnect"}]

OneCall  == [u \in Users |-> 1]
TwoCalls == [u \in Users |-> IF u = u1 THEN 2 ELSE 1]
=============================================================================
