------------------------------- MODULE Daemon --------------------------------
(***************************************************************************)
(* The daemon process (serveDaemon with its ControlServer) and the CLI     *)
(* commands start, stop and status, which meet at one control socket path. *)
(* Daemons are process slots; several may be alive at a time, because      *)
(* nothing but the socket tells a start command that a daemon runs.        *)
(*                                                                         *)
(* Of the runtime there is what serveDaemon sees: Start may fail, the mesh *)
(* may shut down on its own when its HTTP server fails, and Wait returns   *)
(* once the context is done and the mesh has shut down (MeshManager shows  *)
(* that a cancelled mesh does).  Unix sockets (ipc_unix.go): the path      *)
(* leads to the listener bound last, and UnixListener.Close unlinks the    *)
(* path, whoever's socket it is.                                           *)
(***************************************************************************)
EXTENDS Naturals, FiniteSets

CONSTANTS Daemons, Clients, None
ASSUME SlotAssumption == None \notin Daemons /\ IsFiniteSet(Daemons) /\ IsFiniteSet(Clients)

VARIABLES
    main,       \* program counter of the process's main goroutine
    serverErr,  \* serverErr # nil, until it is tested
    ctxDone,    \* the signal context is done
    mesh,       \* the runtime's netmesh.Manager: "off", "up" or "done" (m.done is closed)
    serve,      \* ControlServer.Serve: "none", "accept", "exited"
    errCh,      \* serverErrCh: "empty", "nil" or "err"
    lsn,        \* the control listener: "none", "open", "closed"
    closing,    \* progress of closeOnce: "no", "remove", "done"
    stopReq,    \* a handleConn has replied to "stop" and is about to call Stop()
    path,       \* the daemon whose listener the socket file leads to, or None
    op,         \* per client: what it is doing
    conn,       \* per client: the daemon its connection is queued at, or None
    overlap     \* history: another daemon was alive during this one's life

procVars == <<main, serverErr, ctxDone, mesh>>
ctlVars  == <<serve, errCh, lsn, closing, stopReq>>
cliVars  == <<op, conn>>
vars == <<procVars, ctlVars, path, cliVars, overlap>>

Alive(d) == main[d] # "absent"
Set(f, d, v) == [f EXCEPT ![d] = v]

Init ==
    /\ main = [d \in Daemons |-> "absent"] /\ serverErr = [d \in Daemons |-> FALSE]
    /\ ctxDone = [d \in Daemons |-> FALSE] /\ mesh = [d \in Daemons |-> "off"]
    /\ serve = [d \in Daemons |-> "none"] /\ errCh = [d \in Daemons |-> "empty"]
    /\ lsn = [d \in Daemons |-> "none"] /\ closing = [d \in Daemons |-> "no"]
    /\ stopReq = [d \in Daemons |-> FALSE]
    /\ path = None
    /\ op = [c \in Clients |-> "idle"] /\ conn = [c \in Clients |-> None]
    /\ overlap = [d \in Daemons |-> FALSE]

(* The goroutine of Runtime.Start closes waitCh once ctx is done and       *)
(* mesh.Wait() has returned.                                               *)
RtStopped(d) == ctxDone[d] /\ mesh[d] = "done"

(* The process ends: what it held in memory and its listener are gone, the *)
(* socket file is not.                                                     *)
Exit(d) ==
    /\ main' = Set(main, d, "absent") /\ serverErr' = Set(serverErr, d, FALSE)
    /\ ctxDone' = Set(ctxDone, d, FALSE) /\ mesh' = Set(mesh, d, "off")
    /\ serve' = Set(serve, d, "none") /\ errCh' = Set(errCh, d, "empty")
    /\ lsn' = Set(lsn, d, "none") /\ closing' = Set(closing, d, "no")
    /\ stopReq' = Set(stopReq, d, FALSE) /\ overlap' = Set(overlap, d, FALSE)
    /\ UNCHANGED <<path, cliVars>>

-----------------------------------------------------------------------------
(* serveDaemon up to its select.                                           *)

(* rt.Start; on an error serveDaemon returns.                              *)
RtStart(d) ==
    /\ main[d] = "start"
    /\ \/ /\ main' = Set(main, d, "unlink") /\ mesh' = Set(mesh, d, "up")
          /\ UNCHANGED <<serverErr, ctxDone, ctlVars, path, cliVars, overlap>>
       \/ Exit(d)

(* Mutant: the socket file of an earlier daemon is not removed.            *)
StaleKept(d) ==
    /\ main[d] = "unlink"
    /\ main' = Set(main, d, "bind")
    /\ UNCHANGED <<serverErr, ctxDone, mesh, ctlVars, path, cliVars, overlap>>

(* listenControl: os.Remove(endpoint), then net.Listen.                    *)
ListenUnlink(d) ==
    /\ main[d] = "unlink"
    /\ main' = Set(main, d, "bind") /\ path' = None
    /\ UNCHANGED <<serverErr, ctxDone, mesh, ctlVars, cliVars, overlap>>

ListenBind(d) ==
    /\ main[d] = "bind" /\ path = None
    /\ main' = Set(main, d, "chmod") /\ path' = d /\ lsn' = Set(lsn, d, "open")
    /\ UNCHANGED <<serverErr, ctxDone, mesh, serve, errCh, closing, stopReq, cliVars, overlap>>

(* The control server exists: go server.Serve(ctx), and on to the select.  *)
GoServe(d) ==
    /\ main' = Set(main, d, "select") /\ serve' = Set(serve, d, "accept")

(* Mutant: the error of net.Listen is ignored.                             *)
ListenIgnored(d) ==
    /\ main[d] = "bind" /\ path # None
    /\ GoServe(d)
    /\ UNCHANGED <<serverErr, ctxDone, mesh, errCh, lsn, closing, stopReq, path, cliVars, overlap>>

(* Another socket appeared in between: NewControlServer returns the error. *)
ListenFails(d) ==
    /\ main[d] = "bind" /\ path # None
    /\ main' = Set(main, d, "failed")
    /\ UNCHANGED <<serverErr, ctxDone, mesh, ctlVars, path, cliVars, overlap>>

(* Mutant: the stale socket is removed after the new one was set up.       *)
RemoveAfterBind(d) ==
    /\ main[d] = "chmod"
    /\ GoServe(d) /\ path' = None
    /\ UNCHANGED <<serverErr, ctxDone, mesh, errCh, lsn, closing, stopReq, cliVars, overlap>>

(* os.Chmod needs a file at the path; without one the listener is closed   *)
(* again (it has no file left to unlink) and the error returned.           *)
ListenChmod(d) ==
    /\ main[d] = "chmod"
    /\ \/ /\ path # None
          /\ GoServe(d)
          /\ UNCHANGED lsn
       \/ /\ path = None
          /\ main' = Set(main, d, "failed") /\ lsn' = Set(lsn, d, "closed")
          /\ UNCHANGED serve
    /\ UNCHANGED <<serverErr, ctxDone, mesh, errCh, closing, stopReq, path, cliVars, overlap>>

(* NewControlServer has failed: stop(), then rt.Wait() and the error.      *)
StopFailed(d) ==
    /\ main[d] = "failed"
    /\ main' = Set(main, d, "abort") /\ ctxDone' = Set(ctxDone, d, TRUE)
    /\ UNCHANGED <<serverErr, mesh, ctlVars, path, cliVars, overlap>>

Abort(d) ==
    /\ main[d] = "abort" /\ RtStopped(d)
    /\ Exit(d)

(* Mutant: a failed server does not stop the context.                      *)
ErrorIgnored(d, v) == ctxDone[d]

(* stop() when Serve returned an error.                                    *)
StopOnError(d, v) == ctxDone[d] \/ v = "err"

(* The select: any ready case may be taken, with none ready main parks.    *)
Select(d) ==
    /\ main[d] = "select"
    /\ \/ /\ errCh[d] # "empty"
          /\ main' = Set(main, d, "rtwait") /\ serverErr' = Set(serverErr, d, errCh[d] = "err")
          /\ errCh' = Set(errCh, d, "empty")
          /\ ctxDone' = Set(ctxDone, d, StopOnError(d, errCh[d]))
       \/ /\ ctxDone[d]
          /\ main' = Set(main, d, "rtwait") /\ UNCHANGED <<serverErr, errCh, ctxDone>>
       \/ /\ errCh[d] = "empty" /\ ~ctxDone[d]
          /\ main' = Set(main, d, "parked")
          /\ UNCHANGED <<serverErr, errCh, ctxDone>>
    /\ UNCHANGED <<mesh, serve, lsn, closing, stopReq, path, cliVars, overlap>>

(* The context's cancel function: it wakes a parked main with ctx.Done().  *)
CtxCancel(d) ==
    /\ ctxDone' = Set(ctxDone, d, TRUE)
    /\ main' = IF main[d] = "parked" THEN Set(main, d, "rtwait") ELSE main

(* SIGINT or SIGTERM.                                                      *)
Signal(d) ==
    /\ Alive(d) /\ ~ctxDone[d]
    /\ CtxCancel(d)
    /\ UNCHANGED <<serverErr, mesh, ctlVars, path, cliVars, overlap>>

(* The process dies without running its deferred calls: the socket file    *)
(* stays behind.                                                           *)
Crash(d) ==
    /\ Alive(d)
    /\ Exit(d)

-----------------------------------------------------------------------------
(* serveDaemon after its select.                                           *)

(* The mesh shuts down: the daemon's context is done, or serveHTTP failed  *)
(* and cancelled the mesh's own context, which is derived from the daemon's*)
(* and not the other way round.                                            *)
MeshStops(d) ==
    /\ mesh[d] = "up" /\ ctxDone[d]
    /\ mesh' = Set(mesh, d, "done")
    /\ UNCHANGED <<main, serverErr, ctxDone, ctlVars, path, cliVars, overlap>>

MeshFails(d) ==
    /\ mesh[d] = "up" /\ ~ctxDone[d]
    /\ mesh' = Set(mesh, d, "done")
    /\ UNCHANGED <<main, serverErr, ctxDone, ctlVars, path, cliVars, overlap>>

(* rt.Wait(); then a server error is returned, or else the channel is read.*)
MainWait(d) ==
    /\ main[d] = "rtwait" /\ RtStopped(d)
    /\ main' = Set(main, d, IF serverErr[d] THEN "exit" ELSE "drain")
    /\ serverErr' = Set(serverErr, d, FALSE)
    /\ UNCHANGED <<ctxDone, mesh, ctlVars, path, cliVars, overlap>>

(* return <-serverErrCh                                                    *)
MainDrain(d) ==
    /\ main[d] = "drain" /\ errCh[d] # "empty"
    /\ main' = Set(main, d, "exit") /\ errCh' = Set(errCh, d, "empty")
    /\ UNCHANGED <<serverErr, ctxDone, mesh, serve, lsn, closing, stopReq, path, cliVars, overlap>>

(* The deferred server.Close() has finished (it is the Once's).            *)
MainExit(d) ==
    /\ main[d] = "exit" /\ closing[d] = "done"
    /\ Exit(d)

-----------------------------------------------------------------------------
(* ControlServer.                                                          *)

(* Mutant: Serve closes the listener whenever it returns.                  *)
ServeCloses(d) == (serve[d] # "none" /\ ctxDone[d]) \/ serve[d] = "exited" \/ main[d] = "exit"

CloseDue(d) == (serve[d] # "none" /\ ctxDone[d]) \/ main[d] = "exit"

(* Close, by the goroutine Serve started or by serveDaemon's defer: the    *)
(* listener unlinks the path and closes, then closeFn removes the path.    *)
CloseListener(d) ==
    /\ Alive(d) /\ closing[d] = "no"
    /\ CloseDue(d)
    /\ path' = None /\ lsn' = Set(lsn, d, "closed") /\ closing' = Set(closing, d, "remove")
    /\ UNCHANGED <<procVars, serve, errCh, stopReq, cliVars, overlap>>

CloseRemove(d) ==
    /\ Alive(d) /\ closing[d] = "remove"
    /\ path' = None /\ closing' = Set(closing, d, "done")
    /\ UNCHANGED <<procVars, serve, errCh, lsn, stopReq, cliVars, overlap>>

(* Serve returns v and its goroutine sends it: a parked main receives it   *)
(* at once, and stops the context when it is an error.                     *)
ServeReturns(d, v) ==
    /\ Alive(d) /\ serve[d] = "accept"
    /\ serve' = Set(serve, d, "exited")
    /\ IF main[d] = "parked"
       THEN /\ main' = Set(main, d, "rtwait") /\ serverErr' = Set(serverErr, d, v = "err")
            /\ ctxDone' = Set(ctxDone, d, StopOnError(d, v))
            /\ UNCHANGED errCh
       ELSE errCh' = Set(errCh, d, v) /\ UNCHANGED <<main, serverErr, ctxDone>>
    /\ UNCHANGED <<mesh, lsn, closing, stopReq, path, cliVars, overlap>>

(* Accept fails on the closed listener, or with another error.             *)
AcceptClosed(d) == lsn[d] = "closed" /\ ServeReturns(d, "nil")
AcceptError(d)  == lsn[d] = "open" /\ ServeReturns(d, IF ctxDone[d] THEN "nil" ELSE "err")

(* handleConn for a queued request: every command is answered with the     *)
(* status, whose Running is always true; stop calls Stop() afterwards.     *)
HandleConn(d, c) ==
    /\ Alive(d) /\ serve[d] = "accept" /\ conn[c] = d
    /\ op' = Set(op, c, "idle") /\ conn' = Set(conn, c, None)
    /\ stopReq' = Set(stopReq, d, stopReq[d] \/ op[c] = "stop")
    /\ UNCHANGED <<procVars, serve, errCh, lsn, closing, path, overlap>>

HandleStop(d) ==
    /\ Alive(d) /\ stopReq[d]
    /\ stopReq' = Set(stopReq, d, FALSE)
    /\ CtxCancel(d)
    /\ UNCHANGED <<serverErr, mesh, serve, errCh, lsn, closing, path, cliVars, overlap>>

-----------------------------------------------------------------------------
(* The CLI.                                                                *)

Command(c, cmd) ==
    /\ op[c] = "idle"
    /\ op' = Set(op, c, cmd)
    /\ UNCHANGED <<procVars, ctlVars, path, conn, overlap>>

Listening(d) == d \in Daemons /\ lsn[d] = "open"

(* RequestControl: dialControl reaches a listening daemon.                 *)
Dial(c) ==
    /\ op[c] # "idle" /\ conn[c] = None /\ Listening(path)
    /\ conn' = Set(conn, c, path)
    /\ UNCHANGED <<procVars, ctlVars, path, op, overlap>>

(* The dial fails, or the listener goes away before the request is served. *)
Unanswered(c) ==
    \/ conn[c] = None /\ ~Listening(path)
    \/ conn[c] # None /\ lsn[conn[c]] # "open"

(* status and stop report that clippy is not running, start cannot spawn a *)
(* process, or waitForDaemon runs out of time.                             *)
GiveUp(c) ==
    /\ op[c] # "idle" /\ Unanswered(c)
    /\ op' = Set(op, c, "idle") /\ conn' = Set(conn, c, None)
    /\ UNCHANGED <<procVars, ctlVars, path, overlap>>

PollAgain(c) ==
    /\ op[c] = "wait" /\ conn[c] # None /\ Unanswered(c)
    /\ conn' = Set(conn, c, None)
    /\ UNCHANGED <<procVars, ctlVars, path, op, overlap>>

(* A slot no process, socket file or client refers to.                     *)
Vacant(d) == ~Alive(d) /\ path # d /\ \A c \in Clients : conn[c] # d

(* start found nobody: SpawnDetached, then waitForDaemon.                  *)
Spawn(c, d) ==
    /\ op[c] = "start" /\ Unanswered(c) /\ Vacant(d)
    /\ main' = Set(main, d, "start")
    /\ op' = Set(op, c, "wait") /\ conn' = Set(conn, c, None)
    /\ overlap' = [x \in Daemons |-> IF x = d THEN \E y \in Daemons : Alive(y)
                                     ELSE overlap[x] \/ Alive(x)]
    /\ UNCHANGED <<serverErr, ctxDone, mesh, ctlVars, path>>

-----------------------------------------------------------------------------
(* The goroutines of one daemon, but for the control handlers.             *)
DaemonStep(d) ==
    \/ RtStart(d) \/ ListenUnlink(d) \/ ListenBind(d) \/ ListenFails(d)
    \/ ListenChmod(d) \/ StopFailed(d) \/ Abort(d) \/ Select(d)
    \/ MainWait(d) \/ MainDrain(d) \/ MainExit(d)
    \/ MeshStops(d) \/ CloseListener(d) \/ CloseRemove(d) \/ AcceptClosed(d)

ClientStep(c) == Dial(c) \/ GiveUp(c) \/ PollAgain(c) \/ \E d \in Daemons : Spawn(c, d)

Next ==
    \/ \E d \in Daemons :
          \/ DaemonStep(d) \/ HandleStop(d) \/ \E c \in Clients : HandleConn(d, c)
          \/ MeshFails(d) \/ Signal(d) \/ AcceptError(d) \/ Crash(d)
    \/ \E c \in Clients : ClientStep(c) \/ \E cmd \in {"start", "stop", "status"} : Command(c, cmd)

Spec == Init /\ [][Next]_vars

(* The goroutines of a live process run; each step of DaemonStep happens   *)
(* once in a life, so fairness of all of them together is fairness of each.*)
(* Nothing is assumed of the clients.                                      *)
FairSpec ==
    /\ Spec
    /\ \A d \in Daemons : WF_vars(DaemonStep(d)) /\ WF_vars(HandleStop(d))

-----------------------------------------------------------------------------
(* Every variable has its type, and Serve runs on a listener.              *)
TypeOK ==
    /\ main \in [Daemons -> {"absent", "start", "unlink", "bind", "chmod", "failed", "abort",
                             "select", "parked", "rtwait", "drain", "exit"}]
    /\ serverErr \in [Daemons -> BOOLEAN]
    /\ ctxDone \in [Daemons -> BOOLEAN] /\ mesh \in [Daemons -> {"off", "up", "done"}]
    /\ serve \in [Daemons -> {"none", "accept", "exited"}]
    /\ errCh \in [Daemons -> {"empty", "nil", "err"}]
    /\ lsn \in [Daemons -> {"none", "open", "closed"}]
    /\ closing \in [Daemons -> {"no", "remove", "done"}]
    /\ stopReq \in [Daemons -> BOOLEAN] /\ path \in Daemons \cup {None}
    /\ op \in [Clients -> {"idle", "start", "wait", "stop", "status"}]
    /\ conn \in [Clients -> Daemons \cup {None}]
    /\ overlap \in [Daemons -> BOOLEAN]
    /\ \A d \in Daemons : serve[d] = "accept" => lsn[d] # "none"

Serving(d) == Alive(d) /\ serve[d] = "accept" /\ ~ctxDone[d]

(* A daemon that never shared its life with another gets its control socket*)
(* and is found at the path for as long as it serves, also when an earlier *)
(* daemon crashed at any point and left its socket file behind.            *)
AloneIsReachable ==
    \A d \in Daemons : Alive(d) /\ ~overlap[d] =>
        main[d] \notin {"failed", "abort"} /\ (Serving(d) => path = d)

(* A daemon whose control listener goes away has been told to stop, or has *)
(* failed to set the listener up and is about to stop by itself: neither a *)
(* Serve that returns nor a mesh that fails on its own takes the listener  *)
(* from a running daemon.                                                  *)
ControlOutlivesRuntime ==
    \A d \in Daemons :
        Alive(d) /\ lsn[d] = "closed" => ctxDone[d] \/ main[d] = "failed"

(* A stop request, a signal or a failing control server stops the runtime  *)
(* and closes the control listener, also when the mesh had failed before.  *)
StopReleases ==
    \A d \in Daemons :
        (Alive(d) /\ (ctxDone[d] \/ stopReq[d] \/ errCh[d] = "err"))
            ~> ~Alive(d) \/ (RtStopped(d) /\ lsn[d] # "open")

(* "`stop` asks the running daemon to exit": a daemon whose context is done*)
(* leaves serveDaemon.                                                     *)
StopExits == \A d \in Daemons : (Alive(d) /\ ctxDone[d]) ~> ~Alive(d)

(* "`status` reports whether the daemon is running": status answers no     *)
(* only while no daemon serves.                                            *)
StatusTruthful ==
    [][\A c \in Clients :
          op[c] = "status" /\ conn[c] = None /\ op'[c] = "idle" =>
              \A d \in Daemons : ~Serving(d)]_vars
=============================================================================
