---------------------------- MODULE DaemonProofs -----------------------------
(***************************************************************************)
(* Proofs about Daemon, for any number of process slots and clients.       *)
(* AloneIsReachable is not inductive: why the socket path still leads to a *)
(* daemon while it serves rests on when its listener can go away (Leaving) *)
(* and on who else is alive to touch the path (Solitary, PathKept).        *)
(***************************************************************************)
EXTENDS Daemon, TLAPS

(* Whoever leaves serveDaemon or closes the control listener has a context *)
(* that is done, or is about to call stop().                               *)
Leaving ==
    \A d \in Daemons :
        /\ main[d] \in {"abort", "drain", "exit"} => ctxDone[d]
        /\ closing[d] # "no" => ctxDone[d]
        /\ Alive(d) /\ lsn[d] = "closed" => ctxDone[d] \/ main[d] = "failed"

(* A process has a listener from ListenBind on, and Serve runs on it; a    *)
(* slot without a process holds nothing.                                   *)
Stages ==
    \A d \in Daemons :
        /\ main[d] \in {"absent", "start", "unlink", "bind"} =>
              lsn[d] = "none" /\ closing[d] = "no"
        /\ main[d] \in {"absent", "start", "unlink", "bind", "chmod"} => serve[d] = "none"
        /\ main[d] = "chmod" => lsn[d] = "open"
        /\ serve[d] # "none" => lsn[d] # "none"
        /\ lsn[d] = "open" => closing[d] = "no"

(* A daemon that shared its life with no other is alone.                   *)
Solitary ==
    \A d, e \in Daemons : Alive(d) /\ ~overlap[d] /\ Alive(e) => e = d

(* While it is alone, nothing is at the path between the removal of a stale*)
(* socket and its own, which stays until its listener closes.              *)
PathKept ==
    \A d \in Daemons : Alive(d) /\ ~overlap[d] =>
        /\ main[d] = "bind" => path = None
        /\ lsn[d] = "open" => path = d
        /\ main[d] \notin {"failed", "abort"}

DaemonInv == TypeOK /\ Leaving /\ Stages /\ Solitary /\ PathKept

-----------------------------------------------------------------------------
(* Without a process nothing is bound, so the invariant holds.             *)
LEMMA InitInv == Init => DaemonInv
BY SlotAssumption DEF Init, DaemonInv, TypeOK, Leaving, Stages, Solitary, PathKept, Alive

(* A flag of one process is set.                                           *)
LEMMA BoolUpdate ==
    ASSUME NEW f \in [Daemons -> BOOLEAN], NEW d \in Daemons, NEW v \in BOOLEAN
    PROVE  [f EXCEPT ![d] = v] \in [Daemons -> BOOLEAN]
OBVIOUS

(* Serve returns to a parked main, or leaves its result in the channel.    *)
LEMMA ServeCases ==
    ASSUME TypeOK, NEW d \in Daemons, NEW v \in {"nil", "err"}, ServeReturns(d, v)
    PROVE  /\ serve' = [serve EXCEPT ![d] = "exited"]
           /\ UNCHANGED <<mesh, lsn, closing, stopReq, path, op, conn, overlap>>
           /\ \/ /\ main[d] = "parked" /\ main' = [main EXCEPT ![d] = "rtwait"]
                 /\ serverErr' \in [Daemons -> BOOLEAN] /\ UNCHANGED errCh
                 /\ ctxDone' \in [Daemons -> BOOLEAN]
              \/ errCh' = [errCh EXCEPT ![d] = v] /\ UNCHANGED <<main, serverErr, ctxDone>>
<1>1. (v = "err") \in BOOLEAN /\ StopOnError(d, v) \in BOOLEAN
  BY Zenon DEF StopOnError
<1>2. CASE main[d] = "parked"
  <2>1. /\ main' = [main EXCEPT ![d] = "rtwait"] /\ UNCHANGED errCh
        /\ serverErr' = [serverErr EXCEPT ![d] = v = "err"]
        /\ ctxDone' = [ctxDone EXCEPT ![d] = StopOnError(d, v)]
    BY <1>2 DEF ServeReturns, Set
  <2>2. serverErr' \in [Daemons -> BOOLEAN] /\ ctxDone' \in [Daemons -> BOOLEAN]
    BY <1>1, <2>1, BoolUpdate DEF TypeOK
  <2> QED
    BY <1>2, <2>1, <2>2 DEF ServeReturns, Set, cliVars
<1>3. CASE main[d] # "parked"
  BY <1>3 DEF ServeReturns, Set, cliVars
<1> QED
  BY <1>2, <1>3

(* The types survive the end of Serve.                                     *)
LEMMA ServeType ==
    ASSUME TypeOK, Stages, NEW d \in Daemons, NEW v \in {"nil", "err"}, ServeReturns(d, v)
    PROVE  TypeOK'
<1>0. /\ serve' = [serve EXCEPT ![d] = "exited"]
      /\ UNCHANGED <<mesh, lsn, closing, stopReq, path, op, conn, overlap>>
  BY ServeCases
<1>1. CASE errCh' = [errCh EXCEPT ![d] = v] /\ UNCHANGED <<main, serverErr, ctxDone>>
  BY <1>0, <1>1 DEF TypeOK
<1>2. CASE /\ main' = [main EXCEPT ![d] = "rtwait"] /\ UNCHANGED errCh
           /\ serverErr' \in [Daemons -> BOOLEAN] /\ ctxDone' \in [Daemons -> BOOLEAN]
  BY <1>0, <1>2 DEF TypeOK
<1> QED
  BY <1>1, <1>2, ServeCases

(* Every action keeps the types.                                           *)
LEMMA NextType == TypeOK /\ Stages /\ [Next]_vars => TypeOK'
<1> SUFFICES ASSUME TypeOK, Stages, [Next]_vars PROVE TypeOK'
  OBVIOUS
<1> USE SlotAssumption DEF Set, Alive, procVars, ctlVars, cliVars, TypeOK, Stages
<1>1. ASSUME NEW d \in Daemons, RtStart(d) PROVE TypeOK'
  <2>1. CASE Exit(d)
    BY <2>1 DEF Exit
  <2>2. CASE main' = [main EXCEPT ![d] = "unlink"] /\ mesh' = [mesh EXCEPT ![d] = "up"]
             /\ UNCHANGED <<serverErr, ctxDone, ctlVars, path, cliVars, overlap>>
    BY <2>2
  <2> QED
    BY <1>1, <2>1, <2>2 DEF RtStart
<1>2. ASSUME NEW d \in Daemons, ListenUnlink(d) PROVE TypeOK'
  BY <1>2 DEF ListenUnlink
<1>3. ASSUME NEW d \in Daemons, ListenBind(d) PROVE TypeOK'
  BY <1>3 DEF ListenBind
<1>4. ASSUME NEW d \in Daemons, ListenFails(d) PROVE TypeOK'
  BY <1>4 DEF ListenFails
<1>5. ASSUME NEW d \in Daemons, ListenChmod(d) PROVE TypeOK'
  <2>0. /\ main[d] = "chmod"
        /\ UNCHANGED <<serverErr, ctxDone, mesh, errCh, closing, stopReq, path, op, conn, overlap>>
    BY <1>5 DEF ListenChmod
  <2>1. CASE /\ main' = [main EXCEPT ![d] = "select"] /\ serve' = [serve EXCEPT ![d] = "accept"]
             /\ UNCHANGED lsn
    BY <2>0, <2>1
  <2>2. CASE /\ main' = [main EXCEPT ![d] = "failed"] /\ lsn' = [lsn EXCEPT ![d] = "closed"]
             /\ UNCHANGED serve
    BY <2>0, <2>2
  <2> QED
    BY <1>5, <2>1, <2>2 DEF ListenChmod, GoServe
<1>6. ASSUME NEW d \in Daemons, StopFailed(d) PROVE TypeOK'
  BY <1>6 DEF StopFailed
<1>7. ASSUME NEW d \in Daemons, Abort(d) PROVE TypeOK'
  BY <1>7 DEF Abort, Exit
<1>8. ASSUME NEW d \in Daemons, Select(d) PROVE TypeOK'
  <2>1. (errCh[d] = "err") \in BOOLEAN /\ StopOnError(d, errCh[d]) \in BOOLEAN
    BY Zenon DEF StopOnError
  <2>2. CASE /\ main' = [main EXCEPT ![d] = "rtwait"] /\ errCh' = [errCh EXCEPT ![d] = "empty"]
             /\ serverErr' = [serverErr EXCEPT ![d] = errCh[d] = "err"]
             /\ ctxDone' = [ctxDone EXCEPT ![d] = StopOnError(d, errCh[d])]
    <3>1. serverErr' \in [Daemons -> BOOLEAN] /\ ctxDone' \in [Daemons -> BOOLEAN]
      BY <2>1, <2>2, BoolUpdate
    <3> QED
      BY <1>8, <2>2, <3>1 DEF Select
  <2>3. CASE /\ main' \in {[main EXCEPT ![d] = "rtwait"], [main EXCEPT ![d] = "parked"]}
             /\ UNCHANGED <<serverErr, errCh, ctxDone>>
    BY <1>8, <2>3 DEF Select
  <2> QED
    BY <1>8, <2>2, <2>3 DEF Select
<1>9. ASSUME NEW d \in Daemons, MainWait(d) PROVE TypeOK'
  BY <1>9 DEF MainWait
<1>10. ASSUME NEW d \in Daemons, MainDrain(d) PROVE TypeOK'
  BY <1>10 DEF MainDrain
<1>11. ASSUME NEW d \in Daemons, MainExit(d) PROVE TypeOK'
  BY <1>11 DEF MainExit, Exit
<1>12. ASSUME NEW d \in Daemons, MeshStops(d) PROVE TypeOK'
  BY <1>12 DEF MeshStops
<1>13. ASSUME NEW d \in Daemons, CloseListener(d) PROVE TypeOK'
  BY <1>13 DEF CloseListener, CloseDue
<1>14. ASSUME NEW d \in Daemons, CloseRemove(d) PROVE TypeOK'
  BY <1>14 DEF CloseRemove
<1>15. ASSUME NEW d \in Daemons, AcceptClosed(d) PROVE TypeOK'
  BY <1>15, ServeType DEF AcceptClosed
<1>16. ASSUME NEW d \in Daemons, AcceptError(d) PROVE TypeOK'
  BY <1>16, ServeType DEF AcceptError
<1>17. ASSUME NEW d \in Daemons, HandleStop(d) PROVE TypeOK'
  BY <1>17 DEF HandleStop, CtxCancel
<1>18. ASSUME NEW d \in Daemons, MeshFails(d) PROVE TypeOK'
  BY <1>18 DEF MeshFails
<1>19. ASSUME NEW d \in Daemons, Signal(d) PROVE TypeOK'
  BY <1>19 DEF Signal, CtxCancel
<1>20. ASSUME NEW d \in Daemons, Crash(d) PROVE TypeOK'
  BY <1>20 DEF Crash, Exit
<1>21. ASSUME NEW d \in Daemons, NEW c \in Clients, HandleConn(d, c) PROVE TypeOK'
  BY <1>21 DEF HandleConn
<1>22. ASSUME NEW c \in Clients, Dial(c) \/ GiveUp(c) \/ PollAgain(c) PROVE TypeOK'
  BY <1>22 DEF Dial, GiveUp, PollAgain, Listening
<1>23. ASSUME NEW c \in Clients, NEW d \in Daemons, Spawn(c, d) PROVE TypeOK'
  BY <1>23 DEF Spawn, Vacant
<1>24. ASSUME NEW c \in Clients, NEW cmd \in {"start", "stop", "status"}, Command(c, cmd)
      PROVE  TypeOK'
  BY <1>24 DEF Command
<1>25. CASE UNCHANGED vars
  BY <1>25 DEF vars
<1> QED
  BY <1>1, <1>2, <1>3, <1>4, <1>5, <1>6, <1>7, <1>8, <1>9, <1>10, <1>11, <1>12, <1>13,
     <1>14, <1>15, <1>16, <1>17, <1>18, <1>19, <1>20, <1>21, <1>22, <1>23, <1>24, <1>25
  DEF Next, DaemonStep, ClientStep

(* The stages of a process's life follow one another, and its context is   *)
(* done before it leaves or closes its listener.                           *)
LEMMA NextStages ==
    TypeOK /\ Leaving /\ Stages /\ [Next]_vars => Leaving' /\ Stages'
<1> SUFFICES ASSUME TypeOK, Leaving, Stages, [Next]_vars PROVE Leaving' /\ Stages'
  OBVIOUS
<1> USE SlotAssumption DEF Set, Alive, procVars, ctlVars, cliVars, TypeOK, Leaving, Stages
<1>1. ASSUME NEW d \in Daemons, RtStart(d) PROVE Leaving' /\ Stages'
  BY <1>1 DEF RtStart, Exit
<1>2. ASSUME NEW d \in Daemons, ListenUnlink(d) PROVE Leaving' /\ Stages'
  BY <1>2 DEF ListenUnlink
<1>3. ASSUME NEW d \in Daemons, ListenBind(d) PROVE Leaving' /\ Stages'
  BY <1>3 DEF ListenBind
<1>4. ASSUME NEW d \in Daemons, ListenFails(d) PROVE Leaving' /\ Stages'
  BY <1>4 DEF ListenFails
<1>5. ASSUME NEW d \in Daemons, ListenChmod(d) PROVE Leaving' /\ Stages'
  <2>0. /\ main[d] = "chmod"
        /\ UNCHANGED <<serverErr, ctxDone, mesh, errCh, closing, stopReq, path, op, conn, overlap>>
    BY <1>5 DEF ListenChmod
  <2>1. CASE /\ main' = [main EXCEPT ![d] = "select"] /\ serve' = [serve EXCEPT ![d] = "accept"]
             /\ UNCHANGED lsn
    BY <2>0, <2>1
  <2>2. CASE /\ main' = [main EXCEPT ![d] = "failed"] /\ lsn' = [lsn EXCEPT ![d] = "closed"]
             /\ UNCHANGED serve
    BY <2>0, <2>2
  <2> QED
    BY <1>5, <2>1, <2>2 DEF ListenChmod, GoServe
<1>6. ASSUME NEW d \in Daemons, StopFailed(d) PROVE Leaving' /\ Stages'
  BY <1>6 DEF StopFailed
<1>7. ASSUME NEW d \in Daemons, Abort(d) PROVE Leaving' /\ Stages'
  BY <1>7 DEF Abort, Exit
<1>8. ASSUME NEW d \in Daemons, Select(d) PROVE Leaving' /\ Stages'
  BY <1>8 DEF Select, StopOnError
<1>9. ASSUME NEW d \in Daemons, MainWait(d) PROVE Leaving' /\ Stages'
  <2>1. ctxDone[d] /\ main[d] = "rtwait" /\ main' \in {[main EXCEPT ![d] = "exit"], [main EXCEPT ![d] = "drain"]}
    BY <1>9 DEF MainWait, RtStopped
  <2> QED
    BY <1>9, <2>1 DEF MainWait
<1>10. ASSUME NEW d \in Daemons, MainDrain(d) PROVE Leaving' /\ Stages'
  BY <1>10 DEF MainDrain
<1>11. ASSUME NEW d \in Daemons, MainExit(d) PROVE Leaving' /\ Stages'
  BY <1>11 DEF MainExit, Exit
<1>12. ASSUME NEW d \in Daemons, MeshStops(d) PROVE Leaving' /\ Stages'
  BY <1>12 DEF MeshStops
<1>13. ASSUME NEW d \in Daemons, CloseListener(d) PROVE Leaving' /\ Stages'
  BY <1>13 DEF CloseListener, CloseDue
<1>14. ASSUME NEW d \in Daemons, CloseRemove(d) PROVE Leaving' /\ Stages'
  BY <1>14 DEF CloseRemove
<1>15. ASSUME NEW d \in Daemons, AcceptClosed(d) PROVE Leaving' /\ Stages'
  BY <1>15 DEF AcceptClosed, ServeReturns, StopOnError
<1>16. ASSUME NEW d \in Daemons, AcceptError(d) PROVE Leaving' /\ Stages'
  BY <1>16 DEF AcceptError, ServeReturns, StopOnError
<1>17. ASSUME NEW d \in Daemons, HandleStop(d) PROVE Leaving' /\ Stages'
  BY <1>17 DEF HandleStop, CtxCancel
<1>18. ASSUME NEW d \in Daemons, MeshFails(d) PROVE Leaving' /\ Stages'
  BY <1>18 DEF MeshFails
<1>19. ASSUME NEW d \in Daemons, Signal(d) PROVE Leaving' /\ Stages'
  BY <1>19 DEF Signal, CtxCancel
<1>20. ASSUME NEW d \in Daemons, Crash(d) PROVE Leaving' /\ Stages'
  BY <1>20 DEF Crash, Exit
<1>21. ASSUME NEW d \in Daemons, NEW c \in Clients, HandleConn(d, c) PROVE Leaving' /\ Stages'
  BY <1>21 DEF HandleConn
<1>22. ASSUME NEW c \in Clients, Dial(c) \/ GiveUp(c) \/ PollAgain(c) PROVE Leaving' /\ Stages'
  BY <1>22 DEF Dial, GiveUp, PollAgain, Listening
<1>23. ASSUME NEW c \in Clients, NEW d \in Daemons, Spawn(c, d) PROVE Leaving' /\ Stages'
  BY <1>23 DEF Spawn, Vacant
<1>24. ASSUME NEW c \in Clients, NEW cmd \in {"start", "stop", "status"}, Command(c, cmd)
      PROVE  Leaving' /\ Stages'
  BY <1>24 DEF Command
<1>25. CASE UNCHANGED vars
  BY <1>25 DEF vars
<1> QED
  BY <1>1, <1>2, <1>3, <1>4, <1>5, <1>6, <1>7, <1>8, <1>9, <1>10, <1>11, <1>12, <1>13,
     <1>14, <1>15, <1>16, <1>17, <1>18, <1>19, <1>20, <1>21, <1>22, <1>23, <1>24, <1>25
  DEF Next, DaemonStep, ClientStep

(* Only another daemon could take the socket path away from one that is    *)
(* listening, and a daemon that is alone has no other beside it.           *)
LEMMA NextPath ==
    DaemonInv /\ [Next]_vars => Solitary' /\ PathKept'
<1> SUFFICES ASSUME DaemonInv, [Next]_vars PROVE Solitary' /\ PathKept'
  OBVIOUS
<1> USE SlotAssumption DEF Set, Alive, procVars, ctlVars, cliVars, DaemonInv, TypeOK, Leaving, Stages, Solitary, PathKept
<1>1. ASSUME NEW d \in Daemons, RtStart(d) PROVE Solitary' /\ PathKept'
  BY <1>1 DEF RtStart, Exit
<1>2. ASSUME NEW d \in Daemons, ListenUnlink(d) PROVE Solitary' /\ PathKept'
  BY <1>2 DEF ListenUnlink
<1>3. ASSUME NEW d \in Daemons, ListenBind(d) PROVE Solitary' /\ PathKept'
  BY <1>3 DEF ListenBind
<1>4. ASSUME NEW d \in Daemons, ListenFails(d) PROVE Solitary' /\ PathKept'
  BY <1>4 DEF ListenFails
<1>5. ASSUME NEW d \in Daemons, ListenChmod(d) PROVE Solitary' /\ PathKept'
  BY <1>5 DEF ListenChmod, GoServe
<1>6. ASSUME NEW d \in Daemons, StopFailed(d) PROVE Solitary' /\ PathKept'
  BY <1>6 DEF StopFailed
<1>7. ASSUME NEW d \in Daemons, Abort(d) PROVE Solitary' /\ PathKept'
  BY <1>7 DEF Abort, Exit
<1>8. ASSUME NEW d \in Daemons, Select(d) PROVE Solitary' /\ PathKept'
  BY <1>8 DEF Select, StopOnError
<1>9. ASSUME NEW d \in Daemons, MainWait(d) PROVE Solitary' /\ PathKept'
  BY <1>9 DEF MainWait
<1>10. ASSUME NEW d \in Daemons, MainDrain(d) PROVE Solitary' /\ PathKept'
  BY <1>10 DEF MainDrain
<1>11. ASSUME NEW d \in Daemons, MainExit(d) PROVE Solitary' /\ PathKept'
  BY <1>11 DEF MainExit, Exit
<1>12. ASSUME NEW d \in Daemons, MeshStops(d) PROVE Solitary' /\ PathKept'
  BY <1>12 DEF MeshStops
<1>13. ASSUME NEW d \in Daemons, CloseListener(d) PROVE Solitary' /\ PathKept'
  BY <1>13 DEF CloseListener, CloseDue
<1>14. ASSUME NEW d \in Daemons, CloseRemove(d) PROVE Solitary' /\ PathKept'
  BY <1>14 DEF CloseRemove
<1>15. ASSUME NEW d \in Daemons, AcceptClosed(d) PROVE Solitary' /\ PathKept'
  BY <1>15 DEF AcceptClosed, ServeReturns, StopOnError
<1>16. ASSUME NEW d \in Daemons, AcceptError(d) PROVE Solitary' /\ PathKept'
  BY <1>16 DEF AcceptError, ServeReturns, StopOnError
<1>17. ASSUME NEW d \in Daemons, HandleStop(d) PROVE Solitary' /\ PathKept'
  BY <1>17 DEF HandleStop, CtxCancel
<1>18. ASSUME NEW d \in Daemons, MeshFails(d) PROVE Solitary' /\ PathKept'
  BY <1>18 DEF MeshFails
<1>19. ASSUME NEW d \in Daemons, Signal(d) PROVE Solitary' /\ PathKept'
  BY <1>19 DEF Signal, CtxCancel
<1>20. ASSUME NEW d \in Daemons, Crash(d) PROVE Solitary' /\ PathKept'
  BY <1>20 DEF Crash, Exit
<1>21. ASSUME NEW d \in Daemons, NEW c \in Clients, HandleConn(d, c) PROVE Solitary' /\ PathKept'
  BY <1>21 DEF HandleConn
<1>22. ASSUME NEW c \in Clients, Dial(c) \/ GiveUp(c) \/ PollAgain(c) PROVE Solitary' /\ PathKept'
  BY <1>22 DEF Dial, GiveUp, PollAgain, Listening
<1>23. ASSUME NEW c \in Clients, NEW d \in Daemons, Spawn(c, d) PROVE Solitary' /\ PathKept'
  <2>1. /\ main' = [main EXCEPT ![d] = "start"] /\ ~Alive(d) /\ UNCHANGED <<lsn, path>>
        /\ overlap' = [x \in Daemons |-> IF x = d THEN \E y \in Daemons : Alive(y)
                                          ELSE overlap[x] \/ Alive(x)]
    BY <1>23 DEF Spawn, Vacant
  <2>2. \A x \in Daemons : ~overlap'[x] => IF x = d THEN \A y \in Daemons : ~Alive(y)
                                           ELSE ~overlap[x] /\ ~Alive(x)
    BY <2>1
  <2>3. \A x \in Daemons : Alive(x)' <=> x = d \/ Alive(x)
    BY <2>1
  <2>4. lsn[d] = "none"
    BY <2>1
  <2> QED
    BY <2>1, <2>2, <2>3, <2>4
<1>24. ASSUME NEW c \in Clients, NEW cmd \in {"start", "stop", "status"}, Command(c, cmd)
      PROVE  Solitary' /\ PathKept'
  BY <1>24 DEF Command
<1>25. CASE UNCHANGED vars
  BY <1>25 DEF vars
<1> QED
  BY <1>1, <1>2, <1>3, <1>4, <1>5, <1>6, <1>7, <1>8, <1>9, <1>10, <1>11, <1>12, <1>13,
     <1>14, <1>15, <1>16, <1>17, <1>18, <1>19, <1>20, <1>21, <1>22, <1>23, <1>24, <1>25
  DEF Next, DaemonStep, ClientStep

-----------------------------------------------------------------------------
(* DaemonInv holds of every state of the daemons and the command line.     *)
THEOREM DaemonInvariant == Spec => []DaemonInv
<1>1. DaemonInv /\ [Next]_vars => DaemonInv'
  BY NextType, NextStages, NextPath DEF DaemonInv
<1> QED
  BY <1>1, InitInv, PTL DEF Spec

(* Every variable of the daemons and the command line keeps its type, and  *)
(* Serve runs only on a listener.                                          *)
THEOREM TypeCorrect == Spec => []TypeOK
BY DaemonInvariant, PTL DEF DaemonInv

(* Whatever other daemons crashed before it, and however many clients start*)
(* and stop daemons: one that never shared its life with another is found  *)
(* at the socket path for as long as it serves.                            *)
THEOREM AloneIsFound == Spec => []AloneIsReachable
<1>1. DaemonInv => AloneIsReachable
  BY DEF DaemonInv, TypeOK, Leaving, Stages, PathKept, AloneIsReachable, Serving
<1> QED
  BY <1>1, DaemonInvariant, PTL

(* A daemon whose listener is gone has been told to stop or is leaving.    *)
THEOREM ListenerOutlivesService == Spec => []ControlOutlivesRuntime
<1>1. DaemonInv => ControlOutlivesRuntime
  BY DEF DaemonInv, Leaving, ControlOutlivesRuntime
<1> QED
  BY <1>1, DaemonInvariant, PTL
=============================================================================
