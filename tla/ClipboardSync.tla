---------------------------- MODULE ClipboardSync ----------------------------
(***************************************************************************)
(* A sender (Broadcast) and its receiving peers: every connection ends in  *)
(* a readPump of the peer, whose handleFrame feeds the peer's one          *)
(* Reassembler (Chunking) and hands a complete payload to ApplyRemote.     *)
(* What a peer applies does not come back as a local copy: OSClip.         *)
(***************************************************************************)
EXTENDS Broadcast

CONSTANTS
    Ids, HashOf, Fields, MaxPayloadBytes, Serial, NoState,  \* as in Chunking
    ChunkSize   \* clipwire.DefaultChunkSize

INSTANCE Chunking WITH ChunkSizes <- {ChunkSize}

ASSUME ChunkAssumption ==
    /\ HashOf \in [Payloads -> Ids] /\ ChunkSize \in Nat \ {0}
    /\ Fields \in [Payloads -> FieldsType] /\ MaxPayloadBytes \in Nat
    /\ \A p \in Payloads : /\ Serial[p] \in Seq(STRING) /\ ValidatePayload(p)
                           /\ NumChunks[p] = Len(ChunkPayload(p, ChunkSize))
    /\ NoState \notin EntriesOf(SentChunks)

(* proto.Unmarshal undoes proto.Marshal.  The manager derives the type     *)
(* from the data, so two payloads of one content differ in                 *)
(* timestamp_unix_ms only: the first field of the message, of six bytes    *)
(* until the year 2109, and far shorter than a chunk.                      *)
ASSUME ContentAssumption ==
    \A p, q \in Payloads :
        /\ Serial[p] = Serial[q] => p = q
        /\ HashOf[p] = HashOf[q] =>
              /\ Len(Serial[p]) = Len(Serial[q])
              /\ \A i \in ChunkSize + 1 .. Len(Serial[p]) : Serial[p][i] = Serial[q][i]

VARIABLES
    inflight,       \* peer -> its reassembler's table
    ready,          \* connection -> set of the payload its readPump is to apply
    gone,           \* connections the peer has closed: its c.ctx is done
    applied,        \* peer -> contents written to its clipboard, in order
    unwritten       \* history: peer -> set of the content of its last ApplyRemote,
                    \* when the clipboard write of that one failed

recvVars == <<inflight, ready, gone, applied, unwritten>>
syncVars == <<vars, recvVars>>

SyncInit ==
    /\ Init
    /\ inflight = [p \in Peers |-> NoTransfers]
    /\ ready = [c \in Conns |-> {}] /\ gone = {}
    /\ applied = [p \in Peers |-> <<>>] /\ unwritten = [p \in Peers |-> {}]

(* The bytes behind a chunk on the wire.                                   *)
ChunkOf(x) == ChunkPayload(copied[x.copy], ChunkSize)[x.seq]

(* Mutant: readPump starts a goroutine for every frame.                    *)
AsyncHandler(c) == TRUE

(* readPump reads the next frame only when HandleFrame has returned.       *)
ReaderFree(c) == ready[c] = {}

(* readPump reads a frame and handleFrame gives its chunk to the           *)
(* reassembler; an error or an incomplete transfer ends handleFrame.       *)
handleFrame(c) ==
    LET p == PeerOf[c]
        added == Add(inflight[p], ChunkOf(Head(wire[c])))
    IN  /\ c \notin gone /\ ReaderFree(c) /\ wire[c] # <<>>
        /\ wire' = [wire EXCEPT ![c] = Tail(@)]
        /\ inflight' = [inflight EXCEPT ![p] = added.table]
        /\ ready' = IF added.result.kind = "complete"
                    THEN [ready EXCEPT ![c] = @ \cup {added.result.payload}] ELSE ready
        /\ UNCHANGED <<loopVars, table, life, sendQ, cancelled, histVars, gone, applied,
                       unwritten>>

(* Mutant: the payload is applied again and again.                         *)
ApplyKeeps(c, p) == ready

ApplyDone(c, p) == [ready EXCEPT ![c] = @ \ {p}]

(* ApplyRemote writes the clipboard.                                       *)
ApplyRemote(c, p) ==
    /\ p \in ready[c]
    /\ applied' = [applied EXCEPT ![PeerOf[c]] = Append(@, HashOf[p])]
    /\ unwritten' = [unwritten EXCEPT ![PeerOf[c]] = {}]
    /\ ready' = ApplyDone(c, p)
    /\ UNCHANGED <<vars, inflight, gone>>

(* The clipboard write fails: handleFrame logs what ApplyRemote returns and*)
(* returns nil, so the connection stays and the payload is lost, its entry *)
(* in the reassembler gone already.                                        *)
ApplyFails(c, p) ==
    /\ p \in ready[c]
    /\ unwritten' = [unwritten EXCEPT ![PeerOf[c]] = {HashOf[p]}]
    /\ ready' = ApplyDone(c, p)
    /\ UNCHANGED <<vars, inflight, gone, applied>>

(* The peer gives the connection up: its own close(), a failed write, its  *)
(* shutdown.  What it has not read is lost, and so is the payload of an    *)
(* ApplyRemote that has not passed its check of the context.               *)
PeerCloses(c) ==
    /\ life[c] # "new" /\ c \notin gone /\ ~cancelled
    /\ gone' = gone \cup {c}
    /\ life' = [life EXCEPT ![c] = IF @ = "open" THEN "broken" ELSE @]
    /\ wire' = [wire EXCEPT ![c] = <<>>]
    /\ ready' \in {ready, [ready EXCEPT ![c] = {}]}
    /\ UNCHANGED <<loopVars, table, sendQ, cancelled, histVars, inflight, applied, unwritten>>

-----------------------------------------------------------------------------
ReceiveStep(c) ==
    handleFrame(c) \/ \E p \in Payloads : ApplyRemote(c, p) \/ ApplyFails(c, p)

SyncNext ==
    \/ Next /\ UNCHANGED recvVars
    \/ \E c \in Conns : ReceiveStep(c) \/ PeerCloses(c)

SyncSpec == SyncInit /\ [][SyncNext]_syncVars

-----------------------------------------------------------------------------
Sent == [k \in 1 .. Copy |-> HashOf[copied[k]]]

D == INSTANCE Delivery WITH sent <- Sent, Contents <- Ids

(* Chunks, queues, reconnections and the reassembler together keep what    *)
(* Delivery promises: no content is applied that was not copied, and none  *)
(* more often than it was copied.                                          *)
ImplementsDelivery == D!Spec

(* c is the only connection its peer has had.                              *)
Only(c) == \A d \in Conns : PeerOf[d] = PeerOf[c] /\ d # c => life[d] = "new"

Embeds(s, t) ==
    \E f \in [DOMAIN s -> DOMAIN t] :
        /\ \A i \in DOMAIN s : s[i] = t[f[i]]
        /\ \A i, j \in DOMAIN s : i < j => f[i] < f[j]

(* A peer that has kept one connection applies contents in the order in    *)
(* which they were copied, leaving some out where a queue was full.        *)
AppliedInOrder ==
    \A c \in Conns : life[c] # "new" /\ Only(c) => Embeds(applied[PeerOf[c]], Sent)

Pending(c) == sendQ[c] # <<>> \/ wire[c] # <<>> \/ ready[c] # {}

(* The last payload, given whole to a peer's only connection, is what that *)
(* peer's clipboard was last set to once the connection has drained, unless*)
(* the peer's last ApplyRemote was of this very content and its clipboard  *)
(* write failed: leftovers of cut-off transfers, repeated contents and     *)
(* failed writes of earlier payloads do not stop it.                       *)
DrainedIsSynced ==
    \A c \in Conns :
        /\ life[c] = "open" /\ c \notin gone /\ Only(c)
        /\ copied # <<>> /\ Whole(c) /\ ~Pending(c)
        => LET h == HashOf[copied[Copy]]
               p == PeerOf[c]
           IN  h \in unwritten[p] \/ (applied[p] # <<>> /\ Last(applied[p]) = h)
=============================================================================
