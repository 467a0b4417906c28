--------------------------- MODULE NpcControlProofs ---------------------------
(***************************************************************************)
(* The cache of NPC control clients, for any number of callers, clients    *)
(* and calls.                                                              *)
(***************************************************************************)
EXTENDS NpcControl, TLAPS

USE ConstantsOK DEF ConstantsOK

\* A remote control client starts in a state of the inductive invariant.
LEMMA InitInv == Init => IInv
  BY DEF Init, IInv, TypeOK, Unmade, MadeByOne, UsesLoggedIn, FailedNeverServed

\* Every step keeps the types.
LEMMA TypeStep == ASSUME IInv, [Next]_vars PROVE TypeOK'
<1> USE DEF IInv, TypeOK, UsesLoggedIn, MadeByOne, Go, callVars, npcVars
<1>1. ASSUME NEW u \in Users, Call(u) PROVE TypeOK'
  BY <1>1 DEF Call, Insert, Abandon
<1>2. ASSUME NEW u \in Users, Lookup(u) PROVE TypeOK'
  BY <1>2 DEF Lookup, Insert, Abandon
<1>3. ASSUME NEW u \in Users, Query(u) PROVE TypeOK'
  BY <1>3 DEF Query, Insert, Abandon
<1>4. ASSUME NEW u \in Users, QueryAnswered(u) PROVE TypeOK'
  BY <1>4 DEF QueryAnswered, Insert, Abandon
<1>5. ASSUME NEW u \in Users, QueryFailed(u) PROVE TypeOK'
  BY <1>5 DEF QueryFailed, Insert, Abandon
<1>6. ASSUME NEW u \in Users, Connect(u) PROVE TypeOK'
  BY <1>6 DEF Connect, Insert, Abandon
<1>7. ASSUME NEW u \in Users, Login(u) PROVE TypeOK'
  BY <1>7 DEF Login, Insert, Abandon
<1>8. ASSUME NEW u \in Users, Store(u) PROVE TypeOK'
  BY <1>8 DEF Store, Insert, Abandon
<1>9. ASSUME NEW u \in Users, Use(u) PROVE TypeOK'
  BY <1>9 DEF Use, Insert, Abandon
<1>10. ASSUME NEW u \in Users, UseAnswered(u) PROVE TypeOK'
  BY <1>10 DEF UseAnswered, Insert, Abandon
<1>11. ASSUME NEW u \in Users, UseFailed(u) PROVE TypeOK'
  BY <1>11 DEF UseFailed, Insert, Abandon
<1>12. ASSUME NEW u \in Users, Clear(u) PROVE TypeOK'
  BY <1>12 DEF Clear, Insert, Abandon
<1>13. CASE AutoTaskPoll
  BY <1>13 DEF AutoTaskPoll, Abandon
<1>14. CASE DisconnectStart
  BY <1>14 DEF DisconnectStart, Abandon
<1>15. CASE DisconnectNpc
  BY <1>15 DEF DisconnectNpc, Abandon
<1>16. CASE DisconnectTask
  BY <1>16 DEF DisconnectTask, Abandon
<1>17. CASE DisconnectRc
  BY <1>17 DEF DisconnectRc, Abandon
<1>18. CASE RcSessionEnds
  BY <1>18 DEF RcSessionEnds, Abandon
<1>19. CASE RcReconnects
  BY <1>19 DEF RcReconnects, Abandon
<1>20. ASSUME NEW c \in Clients, NpcSessionEnds(c) PROVE TypeOK'
  BY <1>20 DEF NpcSessionEnds, Abandon
<1>21. CASE UNCHANGED vars
  BY <1>21 DEF vars
<1> QED BY <1>1, <1>2, <1>3, <1>4, <1>5, <1>6, <1>7, <1>8, <1>9, <1>10, <1>11, <1>12, <1>13, <1>14, <1>15, <1>16, <1>17, <1>18, <1>19, <1>20, <1>21
        DEF Next, UserStep

\* The invariant without the types.
CacheInv == Unmade /\ MadeByOne /\ UsesLoggedIn /\ FailedNeverServed

\* Every step keeps the cache in order: what is cached or in use has logged in,
\* what is being made has one owner, and what has failed stays out.
LEMMA CacheStep == ASSUME IInv, TypeOK', [Next]_vars PROVE CacheInv'
<1> USE DEF IInv, CacheInv, TypeOK, Unmade, MadeByOne, UsesLoggedIn, FailedNeverServed, Go,
            callVars, npcVars
<1>1. ASSUME NEW u \in Users, Call(u) PROVE CacheInv'
  BY <1>1 DEF Call, Insert
<1>2. ASSUME NEW u \in Users, Lookup(u) PROVE CacheInv'
  BY <1>2 DEF Lookup, Insert
<1>3. ASSUME NEW u \in Users, Query(u) PROVE CacheInv'
  BY <1>3 DEF Query, Insert
<1>4. ASSUME NEW u \in Users, QueryAnswered(u) PROVE CacheInv'
  BY <1>4 DEF QueryAnswered, Insert
<1>5. ASSUME NEW u \in Users, QueryFailed(u) PROVE CacheInv'
  BY <1>5 DEF QueryFailed, Insert
<1>6. ASSUME NEW u \in Users, Connect(u) PROVE CacheInv'
  BY <1>6 DEF Connect, Insert
<1>7. ASSUME NEW u \in Users, Login(u) PROVE CacheInv'
  BY <1>7 DEF Login, Insert
<1>8. ASSUME NEW u \in Users, Store(u) PROVE CacheInv'
  BY <1>8 DEF Store, Insert
<1>9. ASSUME NEW u \in Users, Use(u) PROVE CacheInv'
  BY <1>9 DEF Use, Insert
<1>10. ASSUME NEW u \in Users, UseAnswered(u) PROVE CacheInv'
  BY <1>10 DEF UseAnswered, Insert
<1>11. ASSUME NEW u \in Users, UseFailed(u) PROVE CacheInv'
  BY <1>11 DEF UseFailed, Insert
<1>12. ASSUME NEW u \in Users, Clear(u) PROVE CacheInv'
  BY <1>12 DEF Clear, Insert
<1>13. CASE AutoTaskPoll
  BY <1>13 DEF AutoTaskPoll
<1>14. CASE DisconnectStart
  BY <1>14 DEF DisconnectStart
<1>15. CASE DisconnectNpc
  BY <1>15 DEF DisconnectNpc
<1>16. CASE DisconnectTask
  BY <1>16 DEF DisconnectTask
<1>17. CASE DisconnectRc
  BY <1>17 DEF DisconnectRc
<1>18. CASE RcSessionEnds
  BY <1>18 DEF RcSessionEnds
<1>19. CASE RcReconnects
  BY <1>19 DEF RcReconnects
<1>20. ASSUME NEW c \in Clients, NpcSessionEnds(c) PROVE CacheInv'
  BY <1>20 DEF NpcSessionEnds
<1>21. CASE UNCHANGED vars
  BY <1>21 DEF vars
<1> QED BY <1>1, <1>2, <1>3, <1>4, <1>5, <1>6, <1>7, <1>8, <1>9, <1>10, <1>11, <1>12, <1>13, <1>14, <1>15, <1>16, <1>17, <1>18, <1>19, <1>20, <1>21
        DEF Next, UserStep

\* The inductive invariant holds in every reachable state.
THEOREM Invariance == Spec => []IInv
<1>1. IInv /\ [Next]_vars => IInv'
  BY TypeStep, CacheStep DEF IInv, CacheInv
<1> QED BY <1>1, InitInv, PTL DEF Spec

\* A client that a call has failed with is never handed out again.
THEOREM FailedStaysOut == Spec => []FailedNeverServed
<1>1. IInv => FailedNeverServed
  BY DEF IInv
<1> QED BY <1>1, Invariance, PTL

\* Nobody works with a client that has not logged in.
THEOREM InUseHasLoggedIn == Spec => []UsesLoggedIn
<1>1. IInv => UsesLoggedIn
  BY DEF IInv
<1> QED BY <1>1, Invariance, PTL

\* A cached client leaves the cache only by being cleared.
THEOREM FirstStaysCached == Spec => NeverReplaced
<1>1. [Next]_vars => [cache # Nobody => cache' \in {cache, Nobody}]_cache
  BY DEF Next, UserStep, vars, callVars, npcVars, Call, Lookup, Query, QueryAnswered, QueryFailed,
         Connect, Login, Store, Use, UseAnswered, UseFailed, Clear, AutoTaskPoll, DisconnectStart,
         DisconnectNpc, DisconnectTask, DisconnectRc, NpcSessionEnds, RcSessionEnds, RcReconnects
<1> QED BY <1>1, PTL DEF Spec, NeverReplaced
=============================================================================
