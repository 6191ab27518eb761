------------------------------ MODULE Broadcast ------------------------------
(***************************************************************************)
(* The sending half of a node: Runtime.runClipboardLoop takes a payload    *)
(* from the clipboard manager, broadcastPayload cuts it into chunks and    *)
(* Manager.Broadcast offers every chunk to the connection of every peer.   *)
(* A managedConn has a bounded send queue, which its writePump empties     *)
(* onto the socket; other goroutines detach and close it meanwhile.        *)
(*                                                                         *)
(* How a connection comes to be in the table is PeerLink's subject, and    *)
(* how it is closed ManagedConn's; here a name of Conns stands for one     *)
(* connection to the peer PeerOf gives it and is used once.  A frame is    *)
(* the number of its payload and the number of the chunk in it.            *)
(***************************************************************************)
EXTENDS Naturals, Sequences, FiniteSets

CONSTANTS
    Peers,          \* peers in m.peers whose connections are followed
    Others,         \* further peers, each of which takes or refuses a frame
    Conns,          \* the connections of one run
    PeerOf,         \* connection -> peer
    NoConn,         \* ps.conn == nil
    Payloads,       \* what the clipboard manager may emit
    Events,         \* bound: the payloads that may come first, second, ...
    NumChunks,      \* payload -> len(ChunkPayload(payload, DefaultChunkSize))
    SendQueueSize,  \* opts.SendQueueSize
    Window          \* bound: frames a socket takes before its reader reads

ASSUME NamesAssumption ==
    PeerOf \in [Conns -> Peers] /\ NoConn \notin Conns /\ Peers \cap Others = {}
ASSUME CopyAssumption ==
    /\ NumChunks \in [Payloads -> Nat \ {0}]
    /\ Events \in Seq(SUBSET Payloads)
    /\ SendQueueSize \in Nat \ {0} /\ Window \in Nat \ {0}

VARIABLES
    copied,     \* the payloads runClipboardLoop has taken, in order
    loop,       \* runClipboardLoop: "select", "frame" (in Broadcast), "exited"
    seq,        \* number of the chunk being broadcast
    todo,       \* peers Broadcast has yet to visit for this chunk
    held,       \* the connection activeConn() returned, about to be offered it
    failed,     \* len(errs) > 0 in the last call of Broadcast
    table,      \* peer -> ps.conn
    life,       \* connection -> "new", "open", "broken" or "closed"
    sendQ,      \* connection -> c.sendQ
    wire,       \* connection -> frames written and not yet read by the peer
    cancelled,  \* ctx is done
    queued,     \* history: open connection -> chunks of the last payload it took
    since       \* history: open connections in the table since that payload began

loopVars == <<copied, loop, seq, todo, held, failed>>
connVars == <<table, life, sendQ, wire>>
histVars == <<queued, since>>
vars == <<loopVars, connVars, cancelled, histVars>>

Copy == Len(copied)
Chunks == [copy : Nat, seq : Nat]
Current == [copy |-> Copy, seq |-> seq]

OpenInTable == {c \in Conns : table[PeerOf[c]] = c /\ life[c] # "closed"}

(* c.ctx is done after close(), or with its parent m.ctx.                  *)
ConnDone(c) == cancelled \/ life[c] = "closed"

Init ==
    /\ copied = <<>> /\ loop = "select" /\ seq = 0
    /\ todo = {} /\ held = NoConn /\ failed = FALSE
    /\ table = [p \in Peers |-> NoConn]
    /\ life = [c \in Conns |-> "new"]
    /\ sendQ = [c \in Conns |-> <<>>]
    /\ wire = [c \in Conns |-> <<>>]
    /\ cancelled = FALSE
    /\ queued = [c \in Conns |-> {}] /\ since = {}

-----------------------------------------------------------------------------
(* runClipboardLoop and broadcastPayload.                                  *)

(* Manager.Broadcast's snapshot of the table, for chunk n.                 *)
StartFrame(n) ==
    /\ loop' = "frame" /\ seq' = n
    /\ todo' = Peers \cup Others /\ failed' = FALSE

(* The select receives from Events(), perhaps although ctx is done.        *)
TakeEvent(p) ==
    /\ loop = "select" /\ Copy < Len(Events) /\ p \in Events[Copy + 1]
    /\ copied' = Append(copied, p)
    /\ StartFrame(1)
    /\ queued' = [c \in Conns |-> {}] /\ since' = OpenInTable
    /\ UNCHANGED <<held, connVars, cancelled>>

LoopExit ==
    /\ loop = "select" /\ cancelled
    /\ loop' = "exited"
    /\ UNCHANGED <<copied, seq, todo, held, failed, connVars, cancelled, histVars>>

(* Mutant: broadcastPayload goes on after an error.                        *)
GoesOn == seq < NumChunks[copied[Copy]]

(* broadcastPayload goes on with the next chunk only after a nil error.    *)
NextChunk == ~failed /\ seq < NumChunks[copied[Copy]]

(* Broadcast has visited every peer and returned errors.Join(errs...).     *)
FrameDone ==
    /\ loop = "frame" /\ todo = {} /\ held = NoConn
    /\ \/ /\ NextChunk
          /\ StartFrame(seq + 1)
       \/ /\ ~NextChunk
          /\ loop' = "select" /\ seq' = 0
          /\ UNCHANGED <<todo, failed>>
    /\ UNCHANGED <<copied, held, connVars, cancelled, histVars>>

(* One turn of Broadcast's loop up to ps.activeConn().                     *)
Visit(p) ==
    /\ p \in todo /\ held = NoConn
    /\ todo' = todo \ {p} /\ held' = table[p]
    /\ UNCHANGED <<copied, loop, seq, failed, connVars, cancelled, histVars>>

(* A peer that is not followed takes the frame, refuses it or has no       *)
(* connection.  The order of the visits is arbitrary in the code; these    *)
(* ones only add to errs, and so come last here.                           *)
VisitOther(p) ==
    /\ p \in todo /\ todo \subseteq Others /\ held = NoConn
    /\ todo' = todo \ {p} /\ failed' \in {failed, TRUE}
    /\ UNCHANGED <<copied, loop, seq, held, connVars, cancelled, histVars>>

(* Mutant: one frame too many.                                             *)
RoomForOne(c) == Len(sendQ[c]) <= SendQueueSize

Room(c) == Len(sendQ[c]) < SendQueueSize

(* Mutant: a full queue is not reported.                                   *)
FullUnreported(c) == ConnDone(c)

(* The cases of enqueue's select that return an error: a done context, or  *)
(* the default case when nothing else is ready.                            *)
Refuses(c) == ConnDone(c) \/ ~Room(c)

(* enqueue on the connection the loop holds: select takes any ready case.  *)
(* What enters the queue of a closed connection is never read.             *)
Enqueue ==
    /\ held # NoConn /\ held' = NoConn
    /\ \/ /\ Room(held)
          /\ \/ life[held] = "closed" /\ UNCHANGED <<sendQ, queued>>
             \/ /\ life[held] # "closed"
                /\ sendQ' = [sendQ EXCEPT ![held] = Append(@, Current)]
                /\ queued' = [queued EXCEPT ![held] = @ \cup {seq}]
          /\ UNCHANGED failed
       \/ /\ ~Room(held) \/ ConnDone(held)
          /\ failed' = (failed \/ Refuses(held))
          /\ UNCHANGED <<sendQ, queued>>
    /\ UNCHANGED <<copied, loop, seq, todo, table, life, wire, cancelled, since>>

-----------------------------------------------------------------------------
(* The life of a connection, as far as its queue and its socket see it.    *)

(* attachConnection accepts c, in an empty table or in place of another.   *)
Attach(c) ==
    /\ life[c] = "new"
    /\ table' = [table EXCEPT ![PeerOf[c]] = c]
    /\ life' = [life EXCEPT ![c] = "open"]
    /\ since' = since \ {table[PeerOf[c]]}
    /\ UNCHANGED <<loopVars, sendQ, wire, cancelled, queued>>

(* The network fails, the peer closes, or a read or write deadline passes. *)
(* After cancellation the pumps end anyway.                                *)
Break(c) ==
    /\ life[c] = "open" /\ ~cancelled
    /\ life' = [life EXCEPT ![c] = "broken"]
    /\ UNCHANGED <<loopVars, table, sendQ, wire, cancelled, histVars>>

(* handleConnectionClosed, deferred by both pumps.                         *)
Detach(c) ==
    /\ table[PeerOf[c]] = c
    /\ life[c] # "open" \/ cancelled
    /\ table' = [table EXCEPT ![PeerOf[c]] = NoConn]
    /\ since' = since \ {c}
    /\ UNCHANGED <<loopVars, life, sendQ, wire, cancelled, queued>>

(* A pump past handleConnectionClosed, the goroutine attachConnection      *)
(* spawned for a superseded connection, or the manager's shutdown.         *)
CloseDue(c) == life[c] \in {"open", "broken"} /\ (table[PeerOf[c]] # c \/ cancelled)

(* close(), and writePump ends with what it had not written.               *)
Close(c) ==
    /\ CloseDue(c)
    /\ life' = [life EXCEPT ![c] = "closed"]
    /\ sendQ' = [sendQ EXCEPT ![c] = <<>>]
    /\ queued' = [queued EXCEPT ![c] = {}] /\ since' = since \ {c}
    /\ UNCHANGED <<loopVars, table, wire, cancelled>>

(* writePump takes a frame and writes it; the socket takes it unless it    *)
(* holds Window frames the peer has not read.                              *)
Write(c) ==
    /\ life[c] \in {"open", "broken"} /\ sendQ[c] # <<>> /\ Len(wire[c]) < Window
    /\ wire' = [wire EXCEPT ![c] = Append(@, Head(sendQ[c]))]
    /\ sendQ' = [sendQ EXCEPT ![c] = Tail(@)]
    /\ UNCHANGED <<loopVars, table, life, cancelled, histVars>>

(* The caller's context ends.                                              *)
Cancel ==
    /\ ~cancelled
    /\ cancelled' = TRUE
    /\ UNCHANGED <<loopVars, connVars, histVars>>

-----------------------------------------------------------------------------
LoopStep ==
    \/ FrameDone \/ Enqueue
    \/ \E p \in Peers : Visit(p)
    \/ \E p \in Others : VisitOther(p)

CloseStep(c) == Detach(c) \/ Close(c)

Next ==
    \/ LoopStep \/ LoopExit \/ \E p \in Payloads : TakeEvent(p)
    \/ \E c \in Conns : Attach(c) \/ Break(c) \/ CloseStep(c) \/ Write(c)
    \/ Cancel

Spec == Init /\ [][Next]_vars

-----------------------------------------------------------------------------
(* Every variable has its type, and no send queue outgrows its channel.    *)
TypeOK ==
    /\ copied \in Seq(Payloads) /\ Copy <= Len(Events)
    /\ loop \in {"select", "frame", "exited"} /\ seq \in Nat
    /\ todo \subseteq Peers \cup Others /\ held \in Conns \cup {NoConn} /\ failed \in BOOLEAN
    /\ table \in [Peers -> Conns \cup {NoConn}]
    /\ life \in [Conns -> {"new", "open", "broken", "closed"}]
    /\ sendQ \in [Conns -> Seq(Chunks)] /\ wire \in [Conns -> Seq(Chunks)]
    /\ \A c \in Conns : Len(sendQ[c]) <= SendQueueSize /\ Len(wire[c]) <= Window
    /\ cancelled \in BOOLEAN
    /\ queued \in [Conns -> SUBSET Nat] /\ since \subseteq Conns

(* A connection never carries a payload with a hole: the chunks it was     *)
(* given are consecutive, however the queue fills, other peers fail and    *)
(* connections change between two chunks.  The receiver is missing a       *)
(* beginning or an end of a payload, never a middle.                       *)
NoHole ==
    \A c \in Conns : \A m, n \in queued[c] : m .. n \subseteq queued[c]

Whole(c) == 1 .. NumChunks[copied[Copy]] \subseteq queued[c]

(* A broadcast that reports no error gave every chunk of the payload to    *)
(* every connection that was in the table from its beginning to its end.   *)
CleanMeansQueued ==
    loop = "select" /\ copied # <<>> /\ ~failed => \A c \in since : Whole(c)
=============================================================================
