------------------------------ MODULE PeerLink ------------------------------
(***************************************************************************)
(* One peerState of netmesh.Manager and every goroutine that touches it:   *)
(* the browse goroutine (handleServiceEntry), pruneLoop, the peer's        *)
(* dialLoop, the HTTP handlers of inbound upgrades, and the readPump and   *)
(* writePump of every connection to the peer.  A step of this module is    *)
(* one critical section under ps.mu, one channel operation, or one call    *)
(* that leaves the process; the goroutines interleave between steps.       *)
(*                                                                         *)
(* Node ids are random hex strings in the code and are only compared, so   *)
(* they are numbers here.  An endpoint stands for the address list, port,  *)
(* path and protocol of one mDNS entry.                                    *)
(***************************************************************************)
EXTENDS Naturals, FiniteSets

CONSTANTS
    SelfID,         \* m.nodeID
    PeerID,         \* ps.id
    OtherID,        \* some third node, which may own a stale address
    Conns,          \* names for the managedConns alive at one time
    NoConn,         \* ps.conn == nil
    Endpoints,      \* what a discovery entry may carry
    NoEndpoint,     \* Port == 0, Addresses == nil, wsPath == ""
    MinBackoff,     \* opts.ReconnectMinBackoff
    MaxBackoff      \* opts.ReconnectMaxBackoff

(* getOrCreatePeer is never called with the manager's own id: both         *)
(* handleServiceEntry and handleWebSocket turn it away.                    *)
ASSUME IdAssumption ==
    /\ SelfID \in Nat /\ PeerID \in Nat /\ OtherID \in Nat
    /\ SelfID # PeerID /\ OtherID # PeerID
ASSUME NameAssumption == NoConn \notin Conns /\ NoEndpoint \notin Endpoints
(* withDefaults replaces values <= 0 and refuses max < min.                *)
ASSUME BackoffAssumption ==
    /\ MinBackoff \in Nat \ {0} /\ MaxBackoff \in Nat
    /\ MinBackoff <= MaxBackoff

VARIABLES
    discovered,     \* ps.discovered
    endpoint,       \* ps.peer.Addresses/Port, ps.wsPath, ps.proto
    conn,           \* ps.conn
    connected,      \* ps.peer.Connected
    backoff,        \* ps.backoff
    reconnectCh,    \* tokens in ps.reconnectCh, a channel of capacity 1
    dial,           \* program counter of dialLoop; "none": not started
    target,         \* the endpoint copy prepareDial returned
    dialConn,       \* the answered connection dialPeer is about to attach
    browse,         \* program counter of browseLoop
    dir,            \* direction of each connection
    remote,         \* the node at the other end of each connection
    pump,           \* program counters of readPump and writePump
    closed,         \* connections whose close() has run
    broken,         \* connections whose transport has failed
    closers,        \* connections with a pending "go old.close(...)"
    accepting,      \* upgraded inbound connections not yet attached
    cancelled       \* m.ctx is done

entryVars == <<discovered, endpoint>>
tableVars == <<conn, connected, backoff>>
dialVars  == <<dial, target, dialConn>>
connVars  == <<dir, remote, pump, closed, broken, closers, accepting>>
vars == <<entryVars, tableVars, reconnectCh, dialVars, browse, connVars, cancelled>>

Inbound  == "inbound"
Outbound == "outbound"
Pumps    == {"reader", "writer"}
DialPC   == {"none", "idle", "prepare", "dialing", "attach", "reset", "wait", "exited"}
BrowsePC == {"idle", "trigger", "exited"}
PumpPC   == {"none", "run", "handle", "trigger", "close", "done"}

shouldDial(self, peer) == self < peer

preferredDirection(self, peer) ==
    IF shouldDial(self, peer) THEN Outbound ELSE Inbound

Dials     == shouldDial(SelfID, PeerID)
Preferred == preferredDirection(SelfID, PeerID)

(* Mutant: the doubled backoff is not cut to the maximum.                  *)
UncappedBackoff(b) == IF b = 0 THEN MinBackoff ELSE 2 * b

bumpBackoff(b) ==
    IF b = 0 THEN MinBackoff
    ELSE IF 2 * b > MaxBackoff THEN MaxBackoff ELSE 2 * b

(* No goroutine and no table holds c: the name may stand for a new one.    *)
Free(c) ==
    /\ c # conn /\ c # dialConn
    /\ c \notin accepting \cup closers
    /\ \A p \in Pumps : pump[c][p] \in {"none", "done"}

Init ==
    /\ discovered = FALSE /\ endpoint = NoEndpoint
    /\ conn = NoConn /\ connected = FALSE /\ backoff = 0
    /\ reconnectCh = 0
    /\ dial = "none" /\ target = NoEndpoint /\ dialConn = NoConn
    /\ browse = "idle"
    /\ dir = [c \in Conns |-> Inbound]
    /\ remote = [c \in Conns |-> PeerID]
    /\ pump = [c \in Conns |-> [p \in Pumps |-> "none"]]
    /\ closed = {} /\ broken = {}
    /\ closers = {} /\ accepting = {}
    /\ cancelled = FALSE

-----------------------------------------------------------------------------
(* Discovery: browseLoop and pruneLoop.                                    *)

(* handleServiceEntry for an entry of this peer, up to ps.mu.Unlock().     *)
handleServiceEntry(e) ==
    /\ browse = "idle"
    /\ discovered' = TRUE /\ endpoint' = e
    /\ browse' = IF Dials THEN "trigger" ELSE "idle"
    /\ UNCHANGED <<tableVars, reconnectCh, dialVars, connVars, cancelled>>

(* Mutant: the channel is unbuffered, so a token nobody waits for is lost. *)
UnbufferedTrigger == reconnectCh' = IF dial \in {"idle", "wait"} THEN 1 ELSE reconnectCh

(* The non-blocking send: a full channel keeps its one token.              *)
triggerReconnect == reconnectCh' = 1

ensureDialLoop == dial' = IF dial = "none" THEN "idle" ELSE dial

(* The rest of handleServiceEntry, after the unlock.  The new goroutine    *)
(* waits for the token, so the two calls are one step.                     *)
BrowseTrigger ==
    /\ browse = "trigger"
    /\ ensureDialLoop /\ triggerReconnect
    /\ browse' = "idle"
    /\ UNCHANGED <<entryVars, tableVars, target, dialConn, connVars, cancelled>>

BrowseExit ==
    /\ browse = "idle" /\ cancelled
    /\ browse' = "exited"
    /\ UNCHANGED <<entryVars, tableVars, reconnectCh, dialVars, connVars, cancelled>>

(* The prune ticker finds the last entry older than opts.PeerStaleAfter;   *)
(* time is not modelled, so that may be any entry.                         *)
pruneStalePeers ==
    /\ discovered
    /\ discovered' = FALSE /\ endpoint' = NoEndpoint
    /\ UNCHANGED <<tableVars, reconnectCh, dialVars, browse, connVars, cancelled>>

-----------------------------------------------------------------------------
(* attachConnection, shared by both directions.                            *)

(* Mutant: any change of direction supersedes.                             *)
EitherDirection(c) == conn = NoConn \/ dir[conn] # dir[c]

Accepted(c) ==
    \/ conn = NoConn
    \/ dir[conn] # dir[c] /\ dir[c] = Preferred

(* Mutant: the superseded connection is not closed.                        *)
AttachKeepsOld(c) ==
    IF Accepted(c)
    THEN /\ conn' = c /\ connected' = TRUE /\ backoff' = 0
         /\ pump' = [pump EXCEPT ![c] = [p \in Pumps |-> "run"]]
         /\ UNCHANGED <<closers, closed>>
    ELSE /\ closed' = closed \cup {c}
         /\ UNCHANGED <<conn, connected, backoff, pump, closers>>

(* One critical section: the table entry, conn.start and the spawned close *)
(* of a superseded connection; a refused connection is closed by the       *)
(* caller, who alone holds it.                                             *)
attachConnection(c) ==
    IF Accepted(c)
    THEN /\ conn' = c /\ connected' = TRUE /\ backoff' = 0
         /\ pump' = [pump EXCEPT ![c] = [p \in Pumps |-> "run"]]
         /\ closers' = closers \cup ({conn} \ {NoConn})
         /\ UNCHANGED closed
    ELSE /\ closed' = closed \cup {c}
         /\ UNCHANGED <<conn, connected, backoff, pump, closers>>

(* newManagedConn for a socket that r answers or asks for.                 *)
newManagedConn(c, d, r) ==
    /\ dir' = [dir EXCEPT ![c] = d]
    /\ remote' = [remote EXCEPT ![c] = r]
    /\ pump' = [pump EXCEPT ![c] = [p \in Pumps |-> "none"]]
    /\ closed' = closed \ {c} /\ broken' = broken \ {c}

-----------------------------------------------------------------------------
(* dialLoop.                                                               *)

DialTakeToken ==
    /\ dial = "idle" /\ reconnectCh = 1
    /\ dial' = "prepare" /\ reconnectCh' = 0
    /\ UNCHANGED <<entryVars, tableVars, target, dialConn, browse, connVars, cancelled>>

(* Mutant: the backoff select has no ctx.Done() case.                      *)
FirstSelectOnly == {"idle"}

(* The two selects of dialLoop.                                            *)
DialSelects == {"idle", "wait"}

(* ctx.Done() in either select of dialLoop.                                *)
DialExit ==
    /\ dial \in DialSelects /\ cancelled
    /\ dial' = "exited"
    /\ UNCHANGED <<entryVars, tableVars, reconnectCh, target, dialConn,
                   browse, connVars, cancelled>>

shouldConnect == conn = NoConn /\ discovered /\ Dials /\ endpoint # NoEndpoint

prepareDial ==
    /\ dial = "prepare"
    /\ \/ /\ shouldConnect
          /\ dial' = "dialing" /\ target' = endpoint
          /\ backoff' = bumpBackoff(backoff)
       \/ /\ ~shouldConnect
          /\ dial' = "idle"
          /\ UNCHANGED <<target, backoff>>
    /\ UNCHANGED <<entryVars, conn, connected, reconnectCh, dialConn,
                   browse, connVars, cancelled>>

(* dialPeer: an address of target answers the handshake as node r.  The    *)
(* answer may arrive after the cancellation: gorilla's dialer only bounds  *)
(* the handshake by a deadline.                                            *)
DialAnswered(c, r) ==
    /\ dial = "dialing" /\ Free(c)
    /\ r = PeerID
    /\ dial' = "attach" /\ dialConn' = c
    /\ newManagedConn(c, Outbound, r)
    /\ UNCHANGED <<entryVars, tableVars, reconnectCh, target, browse,
                   closers, accepting, cancelled>>

(* Mutant: a failed attempt is not followed by a retry.                    *)
DialGivesUp ==
    /\ dial = "dialing"
    /\ dial' = "idle"
    /\ UNCHANGED <<entryVars, tableVars, reconnectCh, target, dialConn,
                   browse, connVars, cancelled>>

(* Every address failed, timed out or answered with another id or protocol.*)
DialFailed ==
    /\ dial = "dialing"
    /\ dial' = "wait"
    /\ UNCHANGED <<entryVars, tableVars, reconnectCh, target, dialConn,
                   browse, connVars, cancelled>>

DialAttach ==
    /\ dial = "attach"
    /\ attachConnection(dialConn)
    /\ dial' = "reset" /\ dialConn' = NoConn
    /\ UNCHANGED <<entryVars, reconnectCh, target, browse, dir, remote,
                   broken, accepting, cancelled>>

resetBackoff ==
    /\ dial = "reset"
    /\ backoff' = 0 /\ dial' = "idle"
    /\ UNCHANGED <<entryVars, conn, connected, reconnectCh, target, dialConn,
                   browse, connVars, cancelled>>

DialRetryToken ==
    /\ dial = "wait" /\ reconnectCh = 1
    /\ dial' = "prepare" /\ reconnectCh' = 0
    /\ UNCHANGED <<entryVars, tableVars, target, dialConn, browse, connVars, cancelled>>

DialRetryTimer ==
    /\ dial = "wait"
    /\ dial' = "prepare"
    /\ UNCHANGED <<entryVars, tableVars, reconnectCh, target, dialConn,
                   browse, connVars, cancelled>>

-----------------------------------------------------------------------------
(* Inbound connections.                                                    *)

(* handleWebSocket up to newManagedConn, for a request with this peer's id.*)
handleWebSocket(c) ==
    /\ Free(c)
    /\ newManagedConn(c, Inbound, PeerID)
    /\ accepting' = accepting \cup {c}
    /\ UNCHANGED <<entryVars, tableVars, reconnectCh, dialVars, browse,
                   closers, cancelled>>

InboundAttach(c) ==
    /\ c \in accepting
    /\ attachConnection(c)
    /\ accepting' = accepting \ {c}
    /\ UNCHANGED <<entryVars, reconnectCh, dialVars, browse, dir, remote,
                   broken, cancelled>>

-----------------------------------------------------------------------------
(* readPump, writePump and close.                                          *)

Attached(c) == \E p \in Pumps : pump[c][p] \notin {"none", "done"}

(* The peer closes, the network fails, or the pong deadline passes.        *)
Break(c) ==
    /\ c \notin broken /\ \E p \in Pumps : pump[c][p] = "run"
    /\ broken' = broken \cup {c}
    /\ UNCHANGED <<entryVars, tableVars, reconnectCh, dialVars, browse, dir, remote,
                   pump, closed, closers, accepting, cancelled>>

SetPump(c, p, pc) == pump' = [pump EXCEPT ![c][p] = pc]

(* Mutant: no read deadline, so only close() ends a read.                  *)
NoReadDeadline(c) == c \in closed

ReadError(c) == c \in broken \cup closed

(* ReadMessage returns an error.                                           *)
ReadFails(c) ==
    /\ pump[c]["reader"] = "run"
    /\ ReadError(c)
    /\ SetPump(c, "reader", "handle")
    /\ UNCHANGED <<entryVars, tableVars, reconnectCh, dialVars, browse, dir, remote,
                   closed, broken, closers, accepting, cancelled>>

(* HandleFrame returns an error: readPump gives the connection up.         *)
HandleFrameFails(c) ==
    /\ pump[c]["reader"] = "run"
    /\ SetPump(c, "reader", "handle")
    /\ UNCHANGED <<entryVars, tableVars, reconnectCh, dialVars, browse, dir, remote,
                   closed, broken, closers, accepting, cancelled>>

(* Mutant: the connection's context does not descend from the manager's.   *)
OwnContext(c) == c \in closed

(* c.ctx is done once close() ran or its parent m.ctx was cancelled.       *)
ConnDone(c) == c \in closed \/ cancelled

WriterDone(c) ==
    /\ pump[c]["writer"] = "run"
    /\ ConnDone(c)
    /\ SetPump(c, "writer", "handle")
    /\ UNCHANGED <<entryVars, tableVars, reconnectCh, dialVars, browse, dir, remote,
                   closed, broken, closers, accepting, cancelled>>

(* A frame or ping write fails.                                            *)
WriteFails(c) ==
    /\ pump[c]["writer"] = "run"
    /\ c \in broken
    /\ SetPump(c, "writer", "handle")
    /\ UNCHANGED <<entryVars, tableVars, reconnectCh, dialVars, browse, dir, remote,
                   closed, broken, closers, accepting, cancelled>>

(* Mutants: a superseded connection clears the table too; a peer that was  *)
(* pruned meanwhile keeps its table entry.                                 *)
AnyClears(c) == TRUE
DiscoveredClears(c) == conn = c /\ discovered

(* Only the connection in the table may clear it.                          *)
ClearsTable(c) == conn = c

(* handleConnectionClosed, deferred by both pumps.                         *)
handleConnectionClosed(c, p) ==
    /\ pump[c][p] = "handle"
    /\ \/ /\ ~ClearsTable(c)
          /\ SetPump(c, p, "close")
          /\ UNCHANGED <<conn, connected>>
       \/ /\ ClearsTable(c)
          /\ conn' = NoConn /\ connected' = FALSE
          /\ SetPump(c, p, IF discovered /\ Dials THEN "trigger" ELSE "close")
    /\ UNCHANGED <<entryVars, backoff, reconnectCh, dialVars, browse, dir, remote,
                   closed, broken, closers, accepting, cancelled>>

PumpTrigger(c, p) ==
    /\ pump[c][p] = "trigger"
    /\ triggerReconnect
    /\ SetPump(c, p, "close")
    /\ UNCHANGED <<entryVars, tableVars, dialVars, browse, dir, remote,
                   closed, broken, closers, accepting, cancelled>>

(* Mutant: the pump ends without closing its connection.                   *)
PumpForgetsClose(c, p) ==
    /\ pump[c][p] = "close"
    /\ SetPump(c, p, "done")
    /\ UNCHANGED <<entryVars, tableVars, reconnectCh, dialVars, browse, dir, remote,
                   closed, broken, closers, accepting, cancelled>>

(* The deferred c.close(), then wg.Done().                                 *)
PumpClose(c, p) ==
    /\ pump[c][p] = "close"
    /\ closed' = closed \cup {c}
    /\ SetPump(c, p, "done")
    /\ UNCHANGED <<entryVars, tableVars, reconnectCh, dialVars, browse, dir, remote,
                   broken, closers, accepting, cancelled>>

(* The goroutine attachConnection spawned for the superseded connection.   *)
SupersededClose(c) ==
    /\ c \in closers
    /\ closers' = closers \ {c}
    /\ closed' = closed \cup {c}
    /\ UNCHANGED <<entryVars, tableVars, reconnectCh, dialVars, browse, dir, remote,
                   pump, broken, accepting, cancelled>>

(* The manager's shutdown closes the connection it found in the table.     *)
ShutdownClose(c) ==
    /\ cancelled /\ c \notin closed /\ Attached(c)
    /\ closed' = closed \cup {c}
    /\ UNCHANGED <<entryVars, tableVars, reconnectCh, dialVars, browse, dir, remote,
                   pump, broken, closers, accepting, cancelled>>

(* The caller's context ends, or serveHTTP fails and cancels m.ctx.        *)
Cancel ==
    /\ ~cancelled
    /\ cancelled' = TRUE
    /\ UNCHANGED <<entryVars, tableVars, reconnectCh, dialVars, browse, connVars>>

-----------------------------------------------------------------------------
DialStep ==
    \/ DialTakeToken \/ DialExit \/ prepareDial \/ DialFailed \/ DialAttach
    \/ resetBackoff \/ DialRetryToken \/ DialRetryTimer
    \/ \E c \in Conns : \E r \in {PeerID, OtherID} : DialAnswered(c, r)

BrowseStep ==
    \/ BrowseTrigger \/ BrowseExit
    \/ \E e \in Endpoints : handleServiceEntry(e)

PumpStep(c, p) ==
    handleConnectionClosed(c, p) \/ PumpTrigger(c, p) \/ PumpClose(c, p)

ConnStep(c) ==
    \/ handleWebSocket(c) \/ InboundAttach(c)
    \/ Break(c) \/ ReadFails(c) \/ HandleFrameFails(c)
    \/ WriterDone(c) \/ WriteFails(c)
    \/ SupersededClose(c) \/ ShutdownClose(c)
    \/ \E p \in Pumps : PumpStep(c, p)

Next ==
    \/ BrowseStep \/ pruneStalePeers
    \/ DialStep
    \/ \E c \in Conns : ConnStep(c)
    \/ Cancel

Spec == Init /\ [][Next]_vars

(* Goroutines that can run do run; a handshake ends by its timeout; a      *)
(* timer fires; a broken transport is noticed by the read deadline.  Go's  *)
(* select picks among ready cases at random, so a case that is ready over  *)
(* and over is taken: strong fairness for the two exits.  Nothing is       *)
(* assumed of entries, peers, frames, the prune ticker or cancellation.    *)
Fairness ==
    /\ WF_vars(BrowseTrigger) /\ SF_vars(BrowseExit)
    /\ WF_vars(DialTakeToken) /\ SF_vars(DialExit)
    /\ WF_vars(prepareDial \/ DialFailed \/ DialAttach \/ resetBackoff
               \/ DialRetryToken \/ DialRetryTimer)
    /\ \A c \in Conns :
          /\ WF_vars(InboundAttach(c)) /\ WF_vars(SupersededClose(c))
          /\ WF_vars(ReadFails(c)) /\ WF_vars(WriterDone(c))
          /\ \A p \in Pumps : WF_vars(PumpStep(c, p))

FairSpec == Spec /\ Fairness

-----------------------------------------------------------------------------
(* Every variable has its type: connections in play are names of Conns,    *)
(* the wake-up channel holds at most one token and the backoff is zero or  *)
(* between the configured bounds.                                          *)
TypeOK ==
    /\ discovered \in BOOLEAN
    /\ endpoint \in Endpoints \cup {NoEndpoint}
    /\ conn \in Conns \cup {NoConn} /\ connected \in BOOLEAN
    /\ backoff \in {0} \cup (MinBackoff .. MaxBackoff)
    /\ reconnectCh \in {0, 1}
    /\ dial \in DialPC /\ target \in Endpoints \cup {NoEndpoint}
    /\ dialConn \in Conns \cup {NoConn}
    /\ browse \in BrowsePC
    /\ dir \in [Conns -> {Inbound, Outbound}]
    /\ remote \in [Conns -> {PeerID, OtherID}]
    /\ pump \in [Conns -> [Pumps -> PumpPC]]
    /\ closed \subseteq Conns /\ broken \subseteq Conns
    /\ closers \subseteq Conns /\ accepting \subseteq Conns
    /\ cancelled \in BOOLEAN

Waking == reconnectCh = 1 \/ browse = "trigger"

(* A discovered peer this node must dial and has no connection to is never *)
(* forgotten: a wake-up token is queued, dialLoop is already on its way to *)
(* look at the peer again, or a goroutine is about to queue a token.       *)
(* (triggerReconnect drops tokens; dialLoop checks the table only once.)   *)
NoLostWakeup ==
    Dials /\ discovered /\ conn = NoConn =>
        \/ Waking
        \/ dial \in {"prepare", "dialing", "attach", "wait", "exited"}
        \/ \E c \in Conns, p \in Pumps : pump[c][p] = "trigger"

(* A dial attempt, or the backoff after it, that works on an address the   *)
(* peer has since replaced is followed by an immediate retry: dialPeer     *)
(* uses a copy of the endpoint that prepareDial took earlier.              *)
FreshEndpointWakes ==
    dial \in {"dialing", "attach", "wait"} /\ discovered /\ target # endpoint => Waking

(* A connection with running pumps that is not the one in the table is on  *)
(* its way out: closed, about to be closed by attachConnection's spawned   *)
(* goroutine, or its other pump is about to close it.  No pump pair leaks. *)
NoOrphanLink ==
    \A c \in Conns :
        c # conn /\ (\E p \in Pumps : pump[c][p] = "run") =>
            \/ c \in closers \cup closed
            \/ \E p \in Pumps : pump[c][p] \in {"handle", "trigger", "close"}

(* The connection in the table is usable: neither pump has ended or is past*)
(* handleConnectionClosed, nobody is about to close it as superseded, the  *)
(* node that was dialled is at its other end, and Connected says so.       *)
LiveTable ==
    /\ connected <=> conn # NoConn
    /\ conn # NoConn =>
          /\ \A p \in Pumps : pump[conn][p] \in {"run", "handle"}
          /\ conn \notin closers
          /\ remote[conn] = PeerID

(* A connection in the preferred direction whose transport works and whose *)
(* reader has not given up by itself is the link to the peer, open and with*)
(* both pumps running, until the manager shuts down: duplicates, superseded*)
(* connections and late pumps of other connections never take it down.     *)
PreferredSurvives ==
    \A c \in Conns :
        /\ pump[c]["reader"] = "run" /\ dir[c] = Preferred
        /\ c \notin broken /\ ~cancelled
        => conn = c /\ c \notin closed \cup closers /\ pump[c]["writer"] = "run"

(* The table changes from one connection to another only from the          *)
(* non-preferred to the preferred direction, so two peers that dial each   *)
(* other cannot replace each other's connection for ever.                  *)
SupersedeOnce ==
    [][conn # NoConn /\ conn' \notin {conn, NoConn} =>
          dir[conn] # Preferred /\ dir'[conn'] = Preferred]_vars

(* While a peer this node dials stays discovered and unconnected, dialLoop *)
(* dials it again, however its tokens, timers and attempts interleave.     *)
Redials ==
    Dials /\ discovered /\ conn = NoConn
        ~> dial = "dialing" \/ conn # NoConn \/ ~discovered \/ cancelled

(* A connection whose transport failed leaves the table.                   *)
BrokenLeaves ==
    \A c \in Conns : (conn = c /\ c \in broken) ~> conn # c \/ c \notin broken

(* After cancellation the discovery and dial goroutines of the peer end,   *)
(* and so do the pumps of every connection.                                *)
ShutdownEnds ==
    /\ cancelled ~> browse = "exited" /\ dial \in {"none", "exited"}
    /\ \A c \in Conns : (cancelled /\ Attached(c)) ~> ~Attached(c)
=============================================================================
