---------------------------- MODULE MeshManager -----------------------------
(***************************************************************************)
(* netmesh.Manager around one peer: Start's goroutines, the HTTP server,   *)
(* the mDNS advertisement and shutdown.  The peer's own state machine is   *)
(* PeerLink, whose actions this module takes over unchanged or with the    *)
(* guards the manager adds.                                                *)
(***************************************************************************)
EXTENDS PeerLink

VARIABLES
    shut,           \* program counter of shutdown()
    shutConn,       \* the connection activeConn() returned to shutdown()
    http,           \* serveHTTP: "serve" or "exited"
    requests,       \* HTTP requests accepted and not yet upgraded
    prune,          \* pruneLoop: "run" or "exited"
    adv,            \* program counter of advertiseLoop
    advertiser,     \* m.advertiser # nil
    announced       \* the registered zeroconf server is alive

advVars  == <<adv, advertiser, announced>>
meshVars == <<shut, shutConn, http, requests, prune, advVars>>
allVars  == <<vars, meshVars>>

ShutPC == {"idle", "advert", "http", "peers", "close", "wait", "done"}
AdvPC  == {"check", "publish", "wait", "stop", "exited"}

(* Start, once net.Listen succeeded.                                       *)
MeshInit ==
    /\ Init
    /\ shut = "idle" /\ shutConn = NoConn
    /\ http = "serve" /\ requests = {} /\ prune = "run"
    /\ adv = "check" /\ advertiser = FALSE /\ announced = FALSE

-----------------------------------------------------------------------------
(* advertiseLoop.                                                          *)

AdvExit ==
    /\ adv = "check" /\ cancelled
    /\ adv' = "exited"
    /\ UNCHANGED <<vars, shut, shutConn, http, requests, prune, advertiser, announced>>

(* zeroconf.Register succeeds; after an error the loop sleeps and starts   *)
(* over with nothing changed.                                              *)
AdvRegister ==
    /\ adv = "check" /\ ~cancelled
    /\ adv' = "publish" /\ announced' = TRUE
    /\ UNCHANGED <<vars, shut, shutConn, http, requests, prune, advertiser>>

AdvPublish ==
    /\ adv = "publish"
    /\ advertiser' = TRUE /\ adv' = "wait"
    /\ UNCHANGED <<vars, shut, shutConn, http, requests, prune, announced>>

(* The refresh timer, or ctx.Done(): m.advertiser is cleared if it still   *)
(* is this server.                                                         *)
AdvUnpublish ==
    /\ adv = "wait"
    /\ advertiser' = FALSE /\ adv' = "stop"
    /\ UNCHANGED <<vars, shut, shutConn, http, requests, prune, announced>>

AdvStop ==
    /\ adv = "stop"
    /\ announced' = FALSE /\ adv' = "check"
    /\ UNCHANGED <<vars, shut, shutConn, http, requests, prune, advertiser>>

-----------------------------------------------------------------------------
(* The HTTP server.                                                        *)

(* net/http accepts a connection and starts its handler.                   *)
AcceptRequest(c) ==
    /\ http = "serve" /\ Free(c) /\ c # shutConn /\ c \notin requests
    /\ requests' = requests \cup {c}
    /\ UNCHANGED <<vars, shut, shutConn, http, prune, advVars>>

(* The handler's checks pass and Upgrade hijacks the connection: from here *)
(* on httpServer.Shutdown no longer waits for it.                          *)
UpgradeRequest(c) ==
    /\ c \in requests
    /\ handleWebSocket(c)
    /\ requests' = requests \ {c}
    /\ UNCHANGED <<shut, shutConn, http, prune, advVars>>

(* Wrong path, protocol or id, or Upgrade fails.                           *)
RejectRequest(c) ==
    /\ c \in requests
    /\ requests' = requests \ {c}
    /\ UNCHANGED <<vars, shut, shutConn, http, prune, advVars>>

(* Serve fails on its own: serveHTTP cancels the manager's context.        *)
ServeFails ==
    /\ http = "serve"
    /\ http' = "exited"
    /\ cancelled' = TRUE
    /\ UNCHANGED <<entryVars, tableVars, reconnectCh, dialVars, browse, connVars,
                   shut, shutConn, requests, prune, advVars>>

PruneExit ==
    /\ prune = "run" /\ cancelled
    /\ prune' = "exited"
    /\ UNCHANGED <<vars, shut, shutConn, http, requests, advVars>>

-----------------------------------------------------------------------------
(* shutdown(), run by the goroutine that waits for ctx.Done().             *)

ShutBegin ==
    /\ shut = "idle" /\ cancelled
    /\ shut' = "advert"
    /\ UNCHANGED <<vars, shutConn, http, requests, prune, advVars>>

ShutAdvert ==
    /\ shut = "advert"
    /\ announced' = IF advertiser THEN FALSE ELSE announced
    /\ advertiser' = FALSE
    /\ shut' = "http"
    /\ UNCHANGED <<vars, shutConn, http, requests, prune, adv>>

(* httpServer.Shutdown makes Serve return at once, then waits for the      *)
(* requests that are not hijacked, for at most 5 seconds.                  *)
ShutStopServe ==
    /\ shut = "http" /\ http = "serve"
    /\ http' = "exited"
    /\ UNCHANGED <<vars, shut, shutConn, requests, prune, advVars>>

ShutHTTP ==
    /\ shut = "http" /\ http = "exited"
    /\ shut' = "peers"
    /\ UNCHANGED <<vars, shutConn, http, requests, prune, advVars>>

(* Mutant: shutdown() closes what activeConn() returned without testing it *)
(* for nil.                                                                *)
ShutPeersNil ==
    /\ shut = "peers"
    /\ shutConn' = conn
    /\ shut' = "close"
    /\ UNCHANGED <<vars, http, requests, prune, advVars>>

(* ps.activeConn() of the one peer.                                        *)
ShutPeers ==
    /\ shut = "peers"
    /\ shutConn' = conn
    /\ shut' = IF conn = NoConn THEN "wait" ELSE "close"
    /\ UNCHANGED <<vars, http, requests, prune, advVars>>

(* Mutant: shutdown() clears the table entry itself.                       *)
ShutCloseClears ==
    /\ shut = "close"
    /\ closed' = closed \cup {shutConn} /\ conn' = NoConn /\ connected' = FALSE
    /\ shut' = "wait" /\ shutConn' = NoConn
    /\ UNCHANGED <<entryVars, backoff, reconnectCh, dialVars, browse, dir, remote, pump,
                   broken, closers, accepting, cancelled, http, requests, prune, advVars>>

(* conn.close: closeOnce makes a second close a no-op.                     *)
ShutClose ==
    /\ shut = "close"
    /\ \/ shutConn \notin closed /\ ShutdownClose(shutConn)
       \/ shutConn \in closed /\ UNCHANGED vars
    /\ shut' = "wait" /\ shutConn' = NoConn
    /\ UNCHANGED <<http, requests, prune, advVars>>

(* Mutant: advertiseLoop is started without m.wg.Add(1).                   *)
CountedNoAdvert ==
    /\ http = "exited" /\ browse = "exited" /\ prune = "exited"
    /\ dial \in {"none", "exited"}
    /\ \A c \in Conns : ~Attached(c)

(* No goroutine that m.wg counts runs.  The HTTP handlers are not counted. *)
NoneCounted ==
    /\ http = "exited" /\ adv = "exited" /\ browse = "exited" /\ prune = "exited"
    /\ dial \in {"none", "exited"}
    /\ \A c \in Conns : ~Attached(c)

(* m.wg.Wait() returns and done is closed.                                 *)
ShutDone ==
    /\ shut = "wait" /\ NoneCounted
    /\ shut' = "done"
    /\ UNCHANGED <<vars, shutConn, http, requests, prune, advVars>>

-----------------------------------------------------------------------------
AdvStep ==
    AdvExit \/ AdvRegister \/ AdvPublish \/ AdvUnpublish \/ AdvStop

ShutStep ==
    \/ ShutBegin \/ ShutAdvert \/ ShutStopServe \/ ShutHTTP
    \/ ShutPeers \/ ShutClose \/ ShutDone

(* The peer's goroutines.  A new outbound connection may not take the name *)
(* shutdown() or a request still holds.                                    *)
PeerStep ==
    /\ \/ BrowseStep
       \/ pruneStalePeers /\ prune = "run"
       \/ DialStep /\ (dialConn' = NoConn \/ dialConn' \notin requests \cup {shutConn})
       \/ \E c \in Conns :
             \/ InboundAttach(c) \/ Break(c) \/ ReadFails(c) \/ HandleFrameFails(c)
             \/ WriterDone(c) \/ WriteFails(c) \/ SupersededClose(c)
             \/ \E p \in Pumps : PumpStep(c, p)
       \/ Cancel
    /\ UNCHANGED meshVars

MeshNext ==
    \/ PeerStep
    \/ PruneExit \/ ServeFails \/ AdvStep \/ ShutStep
    \/ \E c \in Conns : AcceptRequest(c) \/ UpgradeRequest(c) \/ RejectRequest(c)

MeshSpec == MeshInit /\ [][MeshNext]_allVars

(* PeerLink's fairness, and the manager's goroutines run.                  *)
MeshFairSpec ==
    /\ MeshSpec
    /\ Fairness
    /\ WF_allVars(AdvStep) /\ WF_allVars(ShutStep)
    /\ SF_allVars(PruneExit)
    /\ \A c \in Conns : WF_allVars(UpgradeRequest(c) \/ RejectRequest(c))

-----------------------------------------------------------------------------
(* Every variable the manager adds has its type, and shutdown() calls      *)
(* close() on a connection, never on nil.                                  *)
MeshTypeOK ==
    /\ TypeOK
    /\ shut \in ShutPC /\ shutConn \in Conns \cup {NoConn}
    /\ shut = "close" => shutConn \in Conns
    /\ http \in {"serve", "exited"} /\ prune \in {"run", "exited"}
    /\ requests \subseteq Conns
    /\ adv \in AdvPC /\ advertiser \in BOOLEAN /\ announced \in BOOLEAN

(* Every step of the manager is a step of the peer's state machine or      *)
(* leaves it alone, so what PeerLink promises holds inside the manager.    *)
ImplementsPeerLink == Spec

(* When Wait returns, no discovery, dial, prune or server goroutine runs   *)
(* any more, nothing is advertised, and no outbound connection has a pump. *)
DoneMeansQuiet ==
    shut = "done" =>
        /\ http = "exited" /\ prune = "exited" /\ adv = "exited"
        /\ browse = "exited" /\ dial \in {"none", "exited"}
        /\ ~announced /\ ~advertiser
        /\ \A c \in Conns : Attached(c) => dir[c] = Inbound

(* "Wait blocks until the manager has fully shut down": no pump of any     *)
(* connection runs once shutdown() has closed m.done.                      *)
WaitIsFinal == shut = "done" => \A c \in Conns : ~Attached(c)

(* A cancelled manager shuts down completely: wg.Wait is not kept waiting  *)
(* by a connection that is attached while shutdown() runs.                 *)
ShutdownCompletes == cancelled ~> shut = "done"

(* Pumps a late inbound handler starts after the shutdown also end.        *)
LatePumpsEnd == \A c \in Conns : (cancelled /\ Attached(c)) ~> ~Attached(c)
=============================================================================
