------------------------- MODULE ClipboardSyncProofs -------------------------
(***************************************************************************)
(* Proofs about ClipboardSync.  The sending half keeps its invariant in    *)
(* the composition: a receiver only takes frames off the wire and breaks   *)
(* connections.  For the rest, every copy of a content is an account, and  *)
(* a peer draws on it once: by a first chunk that is to come, travels or   *)
(* has been recorded, by a completed payload, or by an application.  What  *)
(* a reassembler does with whole payloads is taken from ReassemblerProofs. *)
(***************************************************************************)
EXTENDS ClipboardSync, BroadcastProofs, CountingLemmas

(* What a receiver's step leaves of the sending half.                      *)
LEMMA ReceiverLeaves ==
    ASSUME TypeOK, NEW c \in Conns, ReceiveStep(c) \/ PeerCloses(c)
    PROVE  /\ UNCHANGED <<loopVars, table, sendQ, cancelled, histVars>>
           /\ \/ UNCHANGED life
              \/ life[c] # "new" /\ life' = [life EXCEPT ![c] = IF @ = "open" THEN "broken" ELSE @]
           /\ \/ UNCHANGED wire
              \/ wire[c] # <<>> /\ wire' = [wire EXCEPT ![c] = Tail(@)]
              \/ wire' = [wire EXCEPT ![c] = <<>>]
<1>1. CASE handleFrame(c)
  BY <1>1 DEF handleFrame
<1>2. ASSUME NEW p \in Payloads, ApplyRemote(c, p) \/ ApplyFails(c, p) PROVE UNCHANGED vars
  BY <1>2 DEF ApplyRemote, ApplyFails
<1>3. CASE PeerCloses(c)
  BY <1>3 DEF PeerCloses
<1> QED
  BY <1>1, <1>2, <1>3 DEF ReceiveStep, vars, connVars

(* No step of a receiver disturbs the sender's invariant.                  *)
LEMMA ReceiverKeeps ==
    ASSUME SendInv, NEW c \in Conns, ReceiveStep(c) \/ PeerCloses(c)
    PROVE  SendInv'
<1> USE NamesAssumption
<1>1. /\ UNCHANGED <<copied, loop, seq, todo, held, failed>>
      /\ UNCHANGED <<table, sendQ, cancelled, queued, since>>
  BY ReceiverLeaves DEF SendInv, loopVars, histVars
<1>2. /\ life' \in [Conns -> {"new", "open", "broken", "closed"}]
      /\ \A d \in Conns : \A s \in {"new", "closed"} : life'[d] = s <=> life[d] = s
  <2>1. TypeOK /\ life \in [Conns -> {"new", "open", "broken", "closed"}]
    BY DEF SendInv, TypeOK
  <2>2. \/ life' = life
        \/ life[c] # "new" /\ life' = [life EXCEPT ![c] = IF @ = "open" THEN "broken" ELSE @]
    BY <2>1, ReceiverLeaves
  <2> QED
    BY <2>1, <2>2
<1>3. wire' \in [Conns -> Seq(Chunks)] /\ \A d \in Conns : Len(wire'[d]) <= Window
  <2>0. wire \in [Conns -> Seq(Chunks)] /\ \A d \in Conns : Len(wire[d]) <= Window
    BY DEF SendInv, TypeOK
  <2>1. <<>> \in Seq(Chunks) /\ Len(<<>>) = 0 /\ Window \in Nat
    BY EmptySeq, CopyAssumption
  <2>2. wire[c] # <<>> => Tail(wire[c]) \in Seq(Chunks) /\ Len(Tail(wire[c])) <= Window
    BY <2>0, <2>1, HeadTailProperties, LenProperties
  <2>3. ASSUME NEW s \in Seq(Chunks), Len(s) <= Window, wire' = [wire EXCEPT ![c] = s]
        PROVE  wire' \in [Conns -> Seq(Chunks)] /\ \A d \in Conns : Len(wire'[d]) <= Window
    BY <2>0, <2>3
  <2>4. CASE wire' = wire
    BY <2>0, <2>4
  <2>5. CASE wire[c] # <<>> /\ wire' = [wire EXCEPT ![c] = Tail(@)]
    BY <2>2, <2>3, <2>5
  <2>6. CASE wire' = [wire EXCEPT ![c] = <<>>]
    <3>1. PICK e \in Seq(Chunks) : e = <<>> /\ Len(e) = 0
      BY <2>1, Zenon
    <3>2. Len(e) <= Window /\ wire' = [wire EXCEPT ![c] = e]
      BY <2>1, <2>6, <3>1
    <3> QED
      BY <2>3, <3>2
  <2> QED
    BY <2>4, <2>5, <2>6, ReceiverLeaves DEF SendInv
<1>4. TypeOK'
  BY <1>1, <1>2, <1>3 DEF SendInv, TypeOK, Copy
<1>5. LoopInv' /\ TableInv'
  <2>1. since \subseteq Conns /\ held \in Conns \cup {NoConn} /\ table \in [Peers -> Conns \cup {NoConn}]
    BY DEF SendInv, TypeOK
  <2> QED
    BY <1>1, <1>2, <2>1 DEF SendInv, LoopInv, TableInv
<1>6. HoleInv' /\ NoHole' /\ CleanInv' /\ CleanMeansQueued'
  BY <1>1 DEF SendInv, HoleInv, NoHole, CleanInv, CleanMeansQueued, InLine, Passed, Whole, Copy
<1> QED
  BY <1>4, <1>5, <1>6 DEF SendInv

(* Nor does a step of the sender, in the composition.                      *)
LEMMA SendStep == ASSUME SendInv, [SyncNext]_syncVars PROVE SendInv'
<1>1. CASE [Next]_vars
  BY <1>1, NextType, NextTable, NextHole, NextClean DEF SendInv
<1>2. ASSUME NEW c \in Conns, ReceiveStep(c) \/ PeerCloses(c) PROVE SendInv'
  BY <1>2, ReceiverKeeps
<1> QED
  BY <1>1, <1>2 DEF SyncNext, syncVars

(* SendInv is an invariant of the sender and its receivers.                *)
LEMMA SyncInvariant == SyncSpec => []SendInv
<1>1. SyncInit => SendInv
  BY InitType DEF SyncInit, Init, SendInv, LoopInv, TableInv, HoleInv, NoHole, CleanInv,
                  CleanMeansQueued
<1>2. SendInv /\ [SyncNext]_syncVars => SendInv'
  BY SendStep
<1> QED
  BY <1>1, <1>2, PTL DEF SyncSpec

(* With receivers that read at their own pace, hang up at any moment and   *)
(* lose what they have not read, no connection ever carries a payload with *)
(* a hole in it.                                                           *)
THEOREM SyncHasNoHole == SyncSpec => []NoHole
BY SyncInvariant, PTL DEF SendInv

(* A nil error from broadcastPayload means a whole payload for every       *)
(* connection that stayed in the table, whatever the receivers do.         *)
THEOREM SyncNilErrorMeansQueued == SyncSpec => []CleanMeansQueued
BY SyncInvariant, PTL DEF SendInv

-----------------------------------------------------------------------------
(* Chunks and frames.                                                      *)

(* The n-th chunk of a payload says so, and whose it is.                   *)
LEMMA ChunkFacts ==
    ASSUME NEW p \in Payloads, NEW n \in 1 .. NumChunks[p]
    PROVE  /\ ChunkPayload(p, ChunkSize)[n].id = HashOf[p] /\ HashOf[p] \in Ids
           /\ ChunkPayload(p, ChunkSize)[n].seq = n - 1
           /\ ChunkPayload(p, ChunkSize)[n].total \in Nat
<1> DEFINE t == (Len(Serial[p]) + ChunkSize - 1) \div ChunkSize
           f == ChunkPayload(p, ChunkSize)
<1>1. Len(Serial[p]) \in Nat /\ ChunkSize \in Nat \ {0} /\ HashOf[p] \in Ids
  BY ChunkAssumption, LenProperties
<1>2. t \in Nat
  <2>1. \A a \in Nat : \A b \in Nat \ {0} : a \div b \in Nat
    OBVIOUS
  <2>2. Len(Serial[p]) + ChunkSize - 1 \in Nat
    BY <1>1
  <2> QED
    BY <1>1, <2>1, <2>2
<1>3. DOMAIN f = 1 .. t
  BY DEF ChunkPayload
<1>4. Len(f) = t
  BY <1>2, <1>3
<1>5. n \in 1 .. t
  BY <1>4, ChunkAssumption
<1>6. f[n].id = HashOf[p] /\ f[n].seq = n - 1 /\ f[n].total = t
  BY <1>5 DEF ChunkPayload
<1> QED
  BY <1>1, <1>2, <1>6

(* The frames of what has been copied.                                     *)
Frames == {x \in Chunks : x.copy \in 1 .. Copy /\ x.seq \in 1 .. NumChunks[copied[x.copy]]}

(* Broadcast is at a chunk of the current payload, and what travels is     *)
(* made of chunks of payloads copied so far.                               *)
FrameInv ==
    /\ loop = "frame" => seq \in 1 .. NumChunks[copied[Copy]]
    /\ sendQ \in [Conns -> Seq(Frames)] /\ wire \in [Conns -> Seq(Frames)]

(* What a step may do with the frames that travel.                         *)
Offers == /\ loop = "frame" /\ held \in Conns /\ held' = NoConn
          /\ sendQ' = [sendQ EXCEPT ![held] = Append(@, Current)]
          /\ UNCHANGED <<wire, copied, loop, seq, todo>>
Writes(c) == /\ sendQ[c] # <<>>
             /\ sendQ' = [sendQ EXCEPT ![c] = Tail(@)]
             /\ wire' = [wire EXCEPT ![c] = Append(@, Head(sendQ[c]))]
             /\ UNCHANGED loopVars
Reads(c) == /\ wire[c] # <<>> /\ wire' = [wire EXCEPT ![c] = Tail(@)]
            /\ UNCHANGED <<loopVars, sendQ>>
Loses(c) == /\ \/ sendQ' = [sendQ EXCEPT ![c] = <<>>] /\ UNCHANGED wire
               \/ wire' = [wire EXCEPT ![c] = <<>>] /\ UNCHANGED sendQ
            /\ UNCHANGED loopVars

(* Every step of the sender leaves the frames alone or does one of these.  *)
LEMMA SenderQueues ==
    ASSUME TypeOK, LoopInv, [Next]_vars
    PROVE  UNCHANGED <<sendQ, wire>> \/ Offers \/ \E c \in Conns : Writes(c) \/ Loses(c)
<1>1. CASE Enqueue
  <2>1. held \in Conns /\ held' = NoConn /\ loop = "frame" /\ UNCHANGED <<wire, copied, loop, seq, todo>>
    BY <1>1, EnqueueCases DEF Enqueue, LoopInv
  <2> QED
    BY <1>1, <2>1 DEF Enqueue, Offers
<1>2. ASSUME NEW c \in Conns, Close(c) \/ Write(c)
      PROVE  Writes(c) \/ Loses(c)
  BY <1>2 DEF Close, Write, Writes, Loses
<1>3. CASE \/ FrameDone \/ LoopExit \/ Cancel \/ UNCHANGED vars
           \/ \E p \in Peers : Visit(p)
           \/ \E p \in Others : VisitOther(p)
           \/ \E p \in Payloads : TakeEvent(p)
           \/ \E c \in Conns : Attach(c) \/ Break(c) \/ Detach(c)
  BY <1>3 DEF FrameDone, LoopExit, Cancel, vars, connVars, Visit, VisitOther, TakeEvent, Attach,
     Break, Detach
<1> QED
  BY <1>1, <1>2, <1>3 DEF Next, LoopStep, CloseStep

(* A receiver's step takes a frame off the wire, or loses what is on it.   *)
LEMMA ReceiverQueues ==
    ASSUME TypeOK, NEW c \in Conns, ReceiveStep(c) \/ PeerCloses(c)
    PROVE  /\ UNCHANGED <<sendQ, wire>> \/ Reads(c) \/ Loses(c)
           /\ UNCHANGED loopVars
BY ReceiverLeaves DEF Reads, Loses

(* The loop stays with its payload or takes the next one.                  *)
LEMMA CopiedStep ==
    ASSUME TypeOK, [Next]_vars
    PROVE  \/ UNCHANGED copied
           \/ \E p \in Payloads :
                 /\ copied' = Append(copied, p) /\ loop' = "frame" /\ seq' = 1
                 /\ loop = "select" /\ todo' = Peers \cup Others
                 /\ UNCHANGED <<sendQ, wire, held>>
<1>1. ASSUME NEW p \in Payloads, TakeEvent(p)
      PROVE  /\ copied' = Append(copied, p) /\ loop' = "frame" /\ seq' = 1
             /\ loop = "select" /\ todo' = Peers \cup Others
             /\ UNCHANGED <<sendQ, wire, held>>
  BY <1>1 DEF TakeEvent, StartFrame, connVars
<1>2. CASE \/ FrameDone \/ Enqueue \/ LoopExit \/ Cancel \/ UNCHANGED vars
           \/ \E p \in Peers : Visit(p)
           \/ \E p \in Others : VisitOther(p)
           \/ \E c \in Conns : Attach(c) \/ Break(c) \/ Detach(c) \/ Close(c) \/ Write(c)
  BY <1>2 DEF FrameDone, Enqueue, LoopExit, Cancel, vars, loopVars, Visit, VisitOther, Attach,
     Break, Detach, Close, Write
<1> QED
  BY <1>1, <1>2 DEF Next, LoopStep, CloseStep

(* What was a frame of a copied payload stays one.                         *)
LEMMA FramesGrow ==
    ASSUME TypeOK, UNCHANGED copied \/ \E p \in Payloads : copied' = Append(copied, p)
    PROVE  /\ Frames \subseteq Frames' /\ Copy' >= Copy /\ Copy \in Nat /\ Copy' \in Nat
           /\ \A k \in 1 .. Copy : copied'[k] = copied[k]
<1>1. copied \in Seq(Payloads) /\ Copy \in Nat
  BY LenProperties DEF TypeOK, Copy
<1>2. CASE UNCHANGED copied
  BY <1>1, <1>2 DEF Frames, Copy
<1>3. ASSUME NEW p \in Payloads, copied' = Append(copied, p)
      PROVE  /\ Frames \subseteq Frames' /\ Copy' >= Copy /\ Copy' \in Nat
             /\ \A k \in 1 .. Copy : copied'[k] = copied[k]
  <2>1. Len(copied') = Len(copied) + 1 /\ \A k \in 1 .. Copy : copied'[k] = copied[k]
    BY <1>1, <1>3, AppendProperties DEF Copy
  <2> QED
    BY <1>1, <2>1 DEF Frames, Copy
<1> QED
  BY <1>1, <1>2, <1>3

(* No step puts anything but a chunk of a copied payload on its way.       *)
LEMMA FrameStep ==
    ASSUME SendInv, FrameInv, [SyncNext]_syncVars
    PROVE  FrameInv'
<1> USE NamesAssumption, CopyAssumption
<1>1. TypeOK /\ LoopInv
  BY DEF SendInv
<1>2. UNCHANGED copied \/ \E p \in Payloads : copied' = Append(copied, p)
  BY <1>1, CopiedStep, ReceiverLeaves DEF SyncNext, syncVars, vars, loopVars
<1>3. Frames \subseteq Frames'
  BY <1>1, <1>2, FramesGrow
<1>4. sendQ \in [Conns -> Seq(Frames')] /\ wire \in [Conns -> Seq(Frames')]
  BY <1>3 DEF FrameInv
<1>5. loop' = "frame" => seq' \in 1 .. NumChunks[copied'[Copy']]
  <2>1. ASSUME NEW p \in Payloads, TakeEvent(p) PROVE seq' \in 1 .. NumChunks[copied'[Copy']]
    <3>1. copied' = Append(copied, p) /\ seq' = 1 /\ copied \in Seq(Payloads)
      BY <1>1, <2>1 DEF TakeEvent, StartFrame, TypeOK
    <3>2. copied'[Copy'] = p
      BY <3>1, AppendProperties, LenProperties DEF Copy
    <3> QED
      BY <3>1, <3>2
  <2>2. CASE FrameDone
    <3>1. Copy \in Nat /\ seq \in Nat /\ copied[Copy] \in Payloads
      BY <1>1, <2>2, LenProperties, EmptySeq DEF FrameDone, TypeOK, LoopInv, Copy
    <3> QED
      BY <2>2, <3>1 DEF FrameDone, NextChunk, StartFrame, Copy
  <2>3. ASSUME UNCHANGED <<loop, seq, copied>> \/ loop' # "frame"
        PROVE  loop' = "frame" => seq' \in 1 .. NumChunks[copied'[Copy']]
    BY <2>3 DEF FrameInv, Copy
  <2>4. CASE \/ LoopExit \/ Enqueue \/ Cancel \/ UNCHANGED vars
             \/ \E p \in Peers : Visit(p)
             \/ \E p \in Others : VisitOther(p)
             \/ \E c \in Conns : \/ Attach(c) \/ Break(c) \/ Detach(c) \/ Close(c) \/ Write(c)
                                \/ ReceiveStep(c) \/ PeerCloses(c)
    <3>1. UNCHANGED <<loop, seq, copied>> \/ loop' # "frame"
      BY <1>1, <2>4, ReceiverLeaves DEF LoopExit, Enqueue, Cancel, vars, loopVars, Visit,
         VisitOther, Attach, Break, Detach, Close, Write
    <3> QED
      BY <2>3, <3>1
  <2> QED
    BY <2>1, <2>2, <2>4 DEF SyncNext, syncVars, Next, LoopStep, CloseStep
<1>6. sendQ' \in [Conns -> Seq(Frames')] /\ wire' \in [Conns -> Seq(Frames')]
  <2>0. <<>> \in Seq(Frames')
    BY EmptySeq
  <2>1. CASE UNCHANGED <<sendQ, wire>>
    BY <1>4, <2>1
  <2>2. CASE Offers
    <3>1. Current \in Frames'
      BY <1>1, <2>2 DEF Offers, Current, Frames, FrameInv, TypeOK, Copy, Chunks, LoopInv
    <3>2. Append(sendQ[held], Current) \in Seq(Frames')
      BY <1>4, <2>2, <3>1, AppendProperties DEF Offers
    <3> QED
      BY <1>4, <2>2, <3>2 DEF Offers
  <2>3. ASSUME NEW c \in Conns, Writes(c) PROVE sendQ' \in [Conns -> Seq(Frames')] /\ wire' \in [Conns -> Seq(Frames')]
    <3>1. Head(sendQ[c]) \in Frames' /\ Tail(sendQ[c]) \in Seq(Frames')
      BY <1>4, <2>3, HeadTailProperties DEF Writes
    <3>2. Append(wire[c], Head(sendQ[c])) \in Seq(Frames')
      BY <1>4, <3>1, AppendProperties
    <3> QED
      BY <1>4, <2>3, <3>1, <3>2 DEF Writes
  <2>4. ASSUME NEW c \in Conns, Reads(c) PROVE sendQ' \in [Conns -> Seq(Frames')] /\ wire' \in [Conns -> Seq(Frames')]
    <3>1. Tail(wire[c]) \in Seq(Frames')
      BY <1>4, <2>4, HeadTailProperties DEF Reads
    <3> QED
      BY <1>4, <2>4, <3>1 DEF Reads
  <2>5. ASSUME NEW c \in Conns, Loses(c) PROVE sendQ' \in [Conns -> Seq(Frames')] /\ wire' \in [Conns -> Seq(Frames')]
    <3>1. PICK e \in Seq(Frames') : e = <<>>
      BY <2>0
    <3> QED
      BY <1>4, <2>5, <3>1 DEF Loses
  <2> QED
    BY <1>1, <2>1, <2>2, <2>3, <2>4, <2>5, SenderQueues, ReceiverQueues DEF SyncNext, syncVars, vars, connVars
<1> QED
  BY <1>5, <1>6 DEF FrameInv

-----------------------------------------------------------------------------
(* The first chunk of a payload is on its way to a peer at most once.      *)

First(k) == [copy |-> k, seq |-> 1]

(* How often the first chunk of the k-th payload is on its way over c.     *)
Load(c, k) == Occurs(sendQ[c], First(k)) + Occurs(wire[c], First(k))

(* The first chunk of the current payload has still to be offered to p.    *)
Unoffered(p) ==
    loop = "frame" /\ seq = 1 /\ (p \in todo \/ (held # NoConn /\ PeerOf[held] = p))

OnceInv ==
    /\ \A c \in Conns : \A k \in Nat : Load(c, k) <= 1
    /\ \A c, d \in Conns : \A k \in Nat :
          PeerOf[c] = PeerOf[d] /\ c # d => Load(c, k) = 0 \/ Load(d, k) = 0
    /\ \A c \in Conns : Unoffered(PeerOf[c]) => Load(c, Copy) = 0

(* A load is a number, and only what was copied is loaded.                 *)
LEMMA LoadType ==
    ASSUME FrameInv, NEW c \in Conns, NEW k \in Nat
    PROVE  /\ Load(c, k) \in Nat
           /\ Occurs(sendQ[c], First(k)) \in Nat /\ Occurs(wire[c], First(k)) \in Nat
           /\ k \notin 1 .. Copy => Load(c, k) = 0
<1>1. sendQ[c] \in Seq(Frames) /\ wire[c] \in Seq(Frames)
  BY DEF FrameInv
<1>2. Occurs(sendQ[c], First(k)) \in Nat /\ Occurs(wire[c], First(k)) \in Nat
  BY <1>1, PositionsFinite
<1>3. ASSUME k \notin 1 .. Copy PROVE Load(c, k) = 0
  <2>1. First(k) \notin Frames
    BY <1>3 DEF First, Frames
  <2>2. Positions(sendQ[c], First(k)) = {} /\ Positions(wire[c], First(k)) = {}
    BY <1>1, <2>1, ElementOfSeq, LenProperties DEF Positions
  <2> QED
    BY <2>2, FS_EmptySet DEF Load, Occurs
<1> QED
  BY <1>2, <1>3 DEF Load

(* An offered frame adds to the load of the held connection, a frame that  *)
(* is read is taken from its connection's load, and nothing else changes   *)
(* a load but the loss of what a connection carries.                       *)
LEMMA LoadChange ==
    ASSUME TypeOK, FrameInv, FrameInv', NEW c \in Conns, NEW k \in Nat
    PROVE  /\ UNCHANGED <<sendQ, wire>> => Load(c, k)' = Load(c, k)
           /\ Offers => Load(c, k)' = Load(c, k) + One(c = held /\ seq = 1 /\ k = Copy)
           /\ \A d \in Conns : Writes(d) => Load(c, k)' = Load(c, k)
           /\ \A d \in Conns : Reads(d) =>
                 Load(c, k)' = Load(c, k) - One(c = d /\ Head(wire[d]) = First(k))
           /\ \A d \in Conns : Loses(d) => Load(c, k)' <= Load(c, k)
<1>1. sendQ[c] \in Seq(Frames) /\ wire[c] \in Seq(Frames)
  BY DEF FrameInv
<1>2. /\ Occurs(sendQ[c], First(k)) \in Nat /\ Occurs(wire[c], First(k)) \in Nat
      /\ Occurs(sendQ'[c], First(k)) \in Nat /\ Occurs(wire'[c], First(k)) \in Nat
  BY PositionsFinite DEF FrameInv
<1>3. ASSUME Offers PROVE Load(c, k)' = Load(c, k) + One(c = held /\ seq = 1 /\ k = Copy)
  <2>1. Current = First(k) <=> seq = 1 /\ k = Copy
    BY DEF Current, First
  <2>2. CASE c = held
    <3>1. Current \in Chunks /\ sendQ[c] \in Seq(Chunks)
      BY DEF Current, Chunks, TypeOK, Copy
    <3>2. Occurs(Append(sendQ[c], Current), First(k)) =
              Occurs(sendQ[c], First(k)) + One(Current = First(k))
      BY <3>1, OccursAppend
    <3>3. sendQ'[c] = Append(sendQ[c], Current) /\ wire'[c] = wire[c]
      BY <1>3, <2>2 DEF Offers, FrameInv
    <3> QED
      BY <1>2, <2>1, <2>2, <3>2, <3>3 DEF Load, One
  <2>3. CASE c # held
    <3>1. sendQ'[c] = sendQ[c] /\ wire'[c] = wire[c]
      BY <1>3, <2>3 DEF Offers, FrameInv
    <3> QED
      BY <1>2, <2>3, <3>1 DEF Load, One
  <2> QED
    BY <2>2, <2>3
<1>4. ASSUME NEW d \in Conns, Writes(d) PROVE Load(c, k)' = Load(c, k)
  <2>1. CASE c = d
    <3>1. sendQ[c] # <<>> /\ Head(sendQ[c]) \in Frames
      BY <1>1, <1>4, <2>1, HeadTailProperties DEF Writes
    <3>2. sendQ'[c] = Tail(sendQ[c]) /\ wire'[c] = Append(wire[c], Head(sendQ[c]))
      BY <1>4, <2>1 DEF Writes, FrameInv
    <3>3. Occurs(sendQ'[c], First(k)) = Occurs(sendQ[c], First(k)) - One(Head(sendQ[c]) = First(k))
      BY <1>1, <3>1, <3>2, OccursTail
    <3>4. Occurs(wire'[c], First(k)) = Occurs(wire[c], First(k)) + One(Head(sendQ[c]) = First(k))
      BY <1>1, <3>1, <3>2, OccursAppend
    <3> QED
      BY <1>2, <3>3, <3>4 DEF Load, One
  <2>2. CASE c # d
    BY <1>4, <2>2 DEF Writes, FrameInv, Load
  <2> QED
    BY <2>1, <2>2
<1>5. ASSUME NEW d \in Conns, Reads(d)
      PROVE  Load(c, k)' = Load(c, k) - One(c = d /\ Head(wire[d]) = First(k))
  <2>1. CASE c = d
    <3>1. wire[c] # <<>> /\ wire'[c] = Tail(wire[c]) /\ sendQ'[c] = sendQ[c]
      BY <1>5, <2>1 DEF Reads, FrameInv
    <3>2. Occurs(wire'[c], First(k)) = Occurs(wire[c], First(k)) - One(Head(wire[c]) = First(k))
      BY <1>1, <3>1, OccursTail
    <3> QED
      BY <1>2, <2>1, <3>1, <3>2 DEF Load, One
  <2>2. CASE c # d
    <3>1. wire'[c] = wire[c] /\ sendQ'[c] = sendQ[c]
      BY <1>5, <2>2 DEF Reads, FrameInv
    <3> QED
      BY <1>2, <2>2, <3>1 DEF Load, One
  <2> QED
    BY <2>1, <2>2
<1>6. ASSUME NEW d \in Conns, Loses(d) PROVE Load(c, k)' <= Load(c, k)
  <2>1. Occurs(<<>>, First(k)) = 0
    BY OccursEmpty
  <2>2. \/ sendQ'[c] = <<>> /\ wire'[c] = wire[c]
        \/ wire'[c] = <<>> /\ sendQ'[c] = sendQ[c]
        \/ sendQ'[c] = sendQ[c] /\ wire'[c] = wire[c]
    BY <1>6, Zenon DEF Loses, FrameInv
  <2> QED
    BY <1>2, <2>1, <2>2 DEF Load
<1> QED
  BY <1>3, <1>4, <1>5, <1>6 DEF Load

(* A peer waits for a first chunk from the moment the payload is taken,    *)
(* and no longer once its connection has been offered it.                  *)
LEMMA UnofferedStep ==
    ASSUME SendInv, NEW p \in Peers, [SyncNext]_syncVars
    PROVE  /\ Unoffered(p)' =>
                 \/ Unoffered(p) /\ UNCHANGED copied
                 \/ loop = "select" /\ UNCHANGED <<sendQ, wire>> /\
                       \E q \in Payloads : copied' = Append(copied, q)
           /\ Offers /\ seq = 1 => Unoffered(PeerOf[held])
           /\ Offers /\ PeerOf[held] = p => ~Unoffered(p)'
<1>1. TypeOK /\ LoopInv /\ TableInv
  BY DEF SendInv
<1>2. Offers /\ seq = 1 => Unoffered(PeerOf[held])
  BY NamesAssumption DEF Offers, Unoffered
<1>3. Offers /\ PeerOf[held] = p => ~Unoffered(p)'
  BY <1>1, NamesAssumption DEF Offers, Unoffered, LoopInv
<1>4. ASSUME NEW q \in Payloads, TakeEvent(q)
      PROVE  loop = "select" /\ UNCHANGED <<sendQ, wire>> /\ copied' = Append(copied, q)
  BY <1>4 DEF TakeEvent, connVars
<1>5. ASSUME FrameDone PROVE ~Unoffered(p)'
  <2>1. loop = "frame" /\ seq \in Nat /\ seq > 0
    BY <1>1, <1>5 DEF FrameDone, TypeOK, LoopInv
  <2>2. seq' = seq + 1 \/ loop' = "select"
    BY <1>5 DEF FrameDone, StartFrame
  <2> QED
    BY <2>1, <2>2 DEF Unoffered
<1>6. ASSUME NEW x \in Peers, Visit(x), Unoffered(p)' PROVE Unoffered(p) /\ UNCHANGED copied
  BY <1>1, <1>6 DEF Visit, Unoffered, TableInv
<1>7. ASSUME Unoffered(p)',
             \/ LoopExit \/ Enqueue \/ Cancel \/ UNCHANGED vars
             \/ \E x \in Others : VisitOther(x)
             \/ \E c \in Conns : \/ Attach(c) \/ Break(c) \/ Detach(c) \/ Close(c) \/ Write(c)
                                \/ ReceiveStep(c) \/ PeerCloses(c)
      PROVE  Unoffered(p) /\ UNCHANGED copied
  <2>1. /\ UNCHANGED <<seq, copied>> /\ todo' \subseteq todo
        /\ loop' = "frame" => loop = "frame"
        /\ held' # NoConn => held' = held
    BY <1>1, <1>7, ReceiverLeaves DEF LoopExit, Enqueue, Cancel, vars, loopVars,
       VisitOther, Attach, Break, Detach, Close, Write
  <2> QED
    BY <1>7, <2>1 DEF Unoffered
<1> QED
  BY <1>2, <1>3, <1>4, <1>5, <1>6, <1>7 DEF SyncNext, syncVars, Next, LoopStep, CloseStep

(* Broadcast visits a peer once for each chunk, so the first chunk of a    *)
(* payload enters one queue of that peer at most, and that once.           *)
LEMMA OnceStep ==
    ASSUME SendInv, FrameInv, FrameInv', OnceInv, [SyncNext]_syncVars
    PROVE  OnceInv'
<1> USE NamesAssumption
<1>1. TypeOK /\ LoopInv
  BY DEF SendInv
<1>2. Copy \in Nat
  BY <1>1, LenProperties DEF TypeOK, Copy
<1>3. \A c \in Conns : \A k \in Nat : /\ Load(c, k) \in Nat /\ Load(c, k)' \in Nat
                                      /\ k \notin 1 .. Copy => Load(c, k) = 0
  <2>1. ASSUME NEW c \in Conns, NEW k \in Nat PROVE Load(c, k)' \in Nat
    BY PositionsFinite DEF FrameInv, Load
  <2> QED
    BY <2>1, LoadType
<1>4. ASSUME \A c \in Conns : \A k \in Nat : Load(c, k)' <= Load(c, k)
      PROVE  OnceInv'
  <2>1. ASSUME NEW c \in Conns, Unoffered(PeerOf[c])' PROVE Load(c, Copy)' = 0
    <3>1. CASE Unoffered(PeerOf[c]) /\ UNCHANGED copied
      BY <1>2, <1>3, <1>4, <3>1 DEF OnceInv, Copy
    <3>2. ASSUME NEW q \in Payloads, copied' = Append(copied, q) PROVE Load(c, Copy)' = 0
      <4>1. Copy' = Copy + 1
        BY <1>1, <3>2, AppendProperties DEF TypeOK, Copy
      <4>2. Copy' \in Nat /\ Copy' \notin 1 .. Copy
        BY <1>2, <4>1
      <4>3. Load(c, Copy') = 0 /\ Load(c, Copy)' <= Load(c, Copy') /\ Load(c, Copy)' \in Nat
        BY <1>3, <1>4, <4>2
      <4> QED
        BY <4>3
    <3> QED
      BY <2>1, <3>1, <3>2, UnofferedStep
  <2>2. \A c \in Conns : \A k \in Nat : Load(c, k)' <= 1
    BY <1>3, <1>4 DEF OnceInv
  <2>3. \A c, d \in Conns : \A k \in Nat :
           PeerOf[c] = PeerOf[d] /\ c # d => Load(c, k)' = 0 \/ Load(d, k)' = 0
    BY <1>3, <1>4 DEF OnceInv
  <2> QED
    BY <2>1, <2>2, <2>3 DEF OnceInv
<1>5. CASE Offers
  <2>1. held \in Conns /\ UNCHANGED copied
    BY <1>5 DEF Offers
  <2>2. \A c \in Conns : \A k \in Nat :
            Load(c, k)' = Load(c, k) + One(c = held /\ seq = 1 /\ k = Copy)
    BY <1>1, <1>5, LoadChange
  <2>3. seq = 1 => \A c \in Conns : PeerOf[c] = PeerOf[held] => Load(c, Copy) = 0
    BY <1>5, <2>1, UnofferedStep DEF OnceInv
  <2>4. \A c \in Conns : \A k \in Nat : Load(c, k)' <= 1
    BY <1>3, <2>1, <2>2, <2>3 DEF OnceInv, One
  <2>5. \A c, d \in Conns : \A k \in Nat :
           PeerOf[c] = PeerOf[d] /\ c # d => Load(c, k)' = 0 \/ Load(d, k)' = 0
    <3> SUFFICES ASSUME NEW c \in Conns, NEW d \in Conns, NEW k \in Nat,
                        PeerOf[c] = PeerOf[d], c # d
                 PROVE  Load(c, k)' = 0 \/ Load(d, k)' = 0
      OBVIOUS
    <3>1. /\ Load(c, k)' = Load(c, k) + One(c = held /\ seq = 1 /\ k = Copy)
          /\ Load(d, k)' = Load(d, k) + One(d = held /\ seq = 1 /\ k = Copy)
      BY <2>2
    <3>2. Load(c, k) = 0 \/ Load(d, k) = 0
      BY DEF OnceInv
    <3> QED
      BY <1>3, <2>1, <2>3, <3>1, <3>2 DEF One
  <2>6. ASSUME NEW c \in Conns, Unoffered(PeerOf[c])' PROVE Load(c, Copy)' = 0
    <3>1. Unoffered(PeerOf[c]) /\ c # held
      BY <1>5, <2>1, <2>6, UnofferedStep DEF Offers
    <3> QED
      BY <1>2, <1>3, <2>1, <2>2, <3>1 DEF OnceInv, One, Copy
  <2> QED
    BY <2>4, <2>5, <2>6 DEF OnceInv
<1>6. CASE UNCHANGED <<sendQ, wire>>
  BY <1>1, <1>3, <1>4, <1>6, LoadChange
<1>7. ASSUME NEW c \in Conns, Writes(c) \/ Loses(c) \/ Reads(c) PROVE OnceInv'
  <2>1. ASSUME NEW d \in Conns, NEW k \in Nat PROVE Load(d, k)' <= Load(d, k)
    <3>1. Load(d, k) \in Nat /\ Load(d, k)' \in Nat
      BY <1>3
    <3> QED
      BY <1>1, <1>7, <3>1, LoadChange DEF One
  <2> QED
    BY <1>4, <2>1
<1> QED
  BY <1>1, <1>5, <1>6, <1>7, SenderQueues, ReceiverQueues DEF SyncNext, syncVars, vars, connVars

-----------------------------------------------------------------------------
(* The reassembler completes a transfer only with its first chunk.         *)

(* An entry of r.inflight, with chunks of its transfer only.               *)
Entry(st) ==
    /\ DOMAIN st = {"total", "size", "chunks", "received"}
    /\ st.total \in Nat /\ DOMAIN st.chunks \subseteq 0 .. st.total - 1

HasFirst(st) == st # NoState /\ 0 \in DOMAIN st.chunks

Entries(t) == DOMAIN t = Ids /\ \A h \in Ids : t[h] # NoState => Entry(t[h])

(* Recording a chunk adds its number and nothing else.                     *)
LEMMA RecordFacts ==
    ASSUME NEW st, Entry(st), NEW c, c.seq \in Nat, c.seq < st.total
    PROVE  /\ Entry(Record(st, c)) /\ Record(st, c).total = st.total
           /\ DOMAIN Record(st, c).chunks = DOMAIN st.chunks \cup {c.seq}
<1> DEFINE both == [i \in DOMAIN st.chunks \cup {c.seq} |->
                      IF i = c.seq THEN c.data ELSE st.chunks[i]]
           rec == [st EXCEPT !.chunks = both, !.received = @ + Len(c.data)]
<1>1. DOMAIN both = DOMAIN st.chunks \cup {c.seq}
  OBVIOUS
<1> HIDE DEF both
<1>2. DOMAIN rec = DOMAIN st /\ rec.total = st.total /\ rec.chunks = both
  BY DEF Entry
<1>3. Record(st, c) = rec
  BY Zenon DEF Record, both
<1> HIDE DEF rec
<1> QED
  BY <1>1, <1>2, <1>3 DEF Entry

(* What Finish says of a transfer it completes.                            *)
LEMMA FinishFacts ==
    ASSUME NEW st, NEW id, Finish(st, id).kind = "complete"
    PROVE  Finish(st, id).payload \in Payloads /\ HashOf[Finish(st, id).payload] = id
<1> DEFINE ps == Decoded(Concat(st))
           p  == CHOOSE q \in ps : TRUE
<1>1. Failed("ErrChunkSetSizeMismatch").kind # "complete" /\ Failed("invalid payload").kind # "complete"
      /\ Failed("ErrTransferHashMismatch").kind # "complete"
  BY DEF Failed
<1>2. ps # {} /\ HashOf[p] = id /\ Finish(st, id) = Complete(p, id)
  BY <1>1 DEF Finish
<1>3. p \in Payloads
  <2>1. p \in ps /\ ps \subseteq Payloads
    BY <1>2 DEF Decoded, ValidPayloads
  <2> QED
    BY <2>1
<1>4. Complete(p, id).payload = p
  BY DEF Complete
<1> QED
  BY <1>2, <1>3, <1>4

(* Add touches the entry of its chunk only; the first chunk gets into an   *)
(* entry as a chunk; and a transfer completes with its first chunk in the  *)
(* entry or in hand, and leaves no entry.                                  *)
LEMMA AddFacts ==
    ASSUME NEW t, Entries(t), NEW c, c.id \in Ids, c.seq \in Nat, c.total \in Nat
    PROVE  /\ Entries(Add(t, c).table)
           /\ \A h \in Ids : h # c.id => Add(t, c).table[h] = t[h]
           /\ HasFirst(Add(t, c).table[c.id]) => HasFirst(t[c.id]) \/ c.seq = 0
           /\ Add(t, c).result.kind = "complete" =>
                 /\ Add(t, c).result.payload \in Payloads
                 /\ HashOf[Add(t, c).result.payload] = c.id
                 /\ Add(t, c).table[c.id] = NoState
                 /\ HasFirst(t[c.id]) \/ c.seq = 0
<1> DEFINE old == t[c.id]
           st  == IF old = NoState THEN NewState(c) ELSE old
           rec == Record(st, c)
<1>1. Incomplete.kind # "complete" /\ \A e : Failed(e).kind # "complete"
  BY DEF Incomplete, Failed
<1>2. Entry(st) /\ (HasFirst(old) <=> 0 \in DOMAIN st.chunks)
  BY DEF NewState, Entry, Entries, HasFirst
<1>3. CASE \/ ~validateChunk(c) \/ Mismatch(st, c) \/ c.seq \in DOMAIN st.chunks
  <2>1. Add(t, c).table = t /\ Add(t, c).result.kind # "complete"
    BY <1>1, <1>3 DEF Add
  <2> QED
    BY <2>1
<1>4. CASE validateChunk(c) /\ ~Mismatch(st, c) /\ c.seq \notin DOMAIN st.chunks
  <2>1. /\ Entry(rec) /\ rec.total = st.total
        /\ DOMAIN rec.chunks = DOMAIN st.chunks \cup {c.seq}
    BY <1>2, <1>4, RecordFacts DEF validateChunk, Mismatch
  <2>2. CASE Cardinality(DOMAIN rec.chunks) # rec.total
    <3>1. /\ Add(t, c).table = [t EXCEPT ![c.id] = rec]
          /\ Add(t, c).result.kind # "complete"
      BY <1>1, <1>4, <2>2 DEF Add
    <3> HIDE DEF rec, st
    <3>2. /\ \A h \in Ids : [t EXCEPT ![c.id] = rec][h] = IF h = c.id THEN rec ELSE t[h]
          /\ DOMAIN [t EXCEPT ![c.id] = rec] = Ids
      BY DEF Entries
    <3> QED
      BY <1>2, <2>1, <3>1, <3>2 DEF Entries, HasFirst
  <2>3. CASE Cardinality(DOMAIN rec.chunks) = rec.total
    <3>1. /\ Add(t, c).table = [t EXCEPT ![c.id] = NoState]
          /\ Add(t, c).result = Finish(rec, c.id)
      BY <1>1, <1>4, <2>3 DEF Add, Completed
    <3> HIDE DEF rec, st
    <3>2. 0 \in DOMAIN rec.chunks
      <4>1. c.seq \in 0 .. rec.total - 1 /\ rec.total \in Nat \ {0}
        BY <2>1 DEF Entry
      <4>2. IsFiniteSet(0 .. rec.total - 1) /\ Cardinality(0 .. rec.total - 1) = rec.total
        BY <4>1, FS_Interval
      <4>3. DOMAIN rec.chunks = 0 .. rec.total - 1
        BY <2>1, <2>3, <4>2, FS_Subset DEF Entry
      <4> QED
        BY <4>1, <4>3
    <3>3. /\ \A h \in Ids : [t EXCEPT ![c.id] = NoState][h] = IF h = c.id THEN NoState ELSE t[h]
          /\ DOMAIN [t EXCEPT ![c.id] = NoState] = Ids
      BY DEF Entries
    <3> QED
      BY <1>2, <2>1, <3>1, <3>2, <3>3, FinishFacts DEF Entries, HasFirst
  <2> QED
    BY <2>2, <2>3
<1> QED
  BY <1>3, <1>4

(* A peer's reassembler, the payload its readPumps are to apply, at most   *)
(* one each, what has been applied and what could not be written.          *)
RecvInv ==
    /\ DOMAIN inflight = Peers /\ \A p \in Peers : Entries(inflight[p])
    /\ ready \in [Conns -> SUBSET Payloads] /\ \A c \in Conns : \A x, y \in ready[c] : x = y
    /\ IsFiniteSet({c \in Conns : ready[c] # {}})
    /\ applied \in [Peers -> Seq(Ids)] /\ unwritten \in [Peers -> SUBSET Ids]

(* The frame that handleFrame reads is a chunk of a copied payload.        *)
LEMMA ReadFacts ==
    ASSUME TypeOK, FrameInv, NEW c \in Conns, wire[c] # <<>>
    PROVE  LET x == Head(wire[c]) IN
           /\ x \in Frames /\ copied[x.copy] \in Payloads
           /\ ChunkOf(x).id = HashOf[copied[x.copy]] /\ ChunkOf(x).id \in Ids
           /\ ChunkOf(x).seq = x.seq - 1 /\ ChunkOf(x).seq \in Nat
           /\ ChunkOf(x).total \in Nat
<1> DEFINE x == Head(wire[c])
<1>1. x \in Frames
  BY HeadTailProperties DEF FrameInv
<1>2. copied \in Seq(Payloads) /\ x.copy \in 1 .. Len(copied) /\ x.seq \in 1 .. NumChunks[copied[x.copy]]
  BY <1>1 DEF Frames, TypeOK, Copy
<1>3. copied[x.copy] \in Payloads
  BY <1>2, ElementOfSeq
<1>4. NumChunks[copied[x.copy]] \in Nat
  BY <1>3, CopyAssumption
<1> HIDE DEF x
<1>5. /\ ChunkOf(x).id = HashOf[copied[x.copy]] /\ HashOf[copied[x.copy]] \in Ids
      /\ ChunkOf(x).seq = x.seq - 1 /\ ChunkOf(x).total \in Nat
  BY <1>2, <1>3, ChunkFacts DEF ChunkOf
<1>6. x.seq - 1 \in Nat
  BY <1>2, <1>4
<1> QED
  BY <1>1, <1>3, <1>5, <1>6 DEF x

(* What handleFrame does, in terms of what Add says.                       *)
LEMMA HandleFacts ==
    ASSUME TypeOK, FrameInv, RecvInv, NEW c \in Conns, handleFrame(c)
    PROVE  LET x == Head(wire[c])
               p == PeerOf[c]
               g == HashOf[copied[x.copy]]
           IN  /\ Reads(c) /\ UNCHANGED <<applied, unwritten>> /\ ready[c] = {}
               /\ x \in Frames /\ g \in Ids /\ p \in Peers
               /\ DOMAIN inflight' = Peers /\ Entries(inflight'[p])
               /\ \A q \in Peers : q # p => inflight'[q] = inflight[q]
               /\ \A h \in Ids : h # g => inflight'[p][h] = inflight[p][h]
               /\ \/ UNCHANGED ready /\
                        (HasFirst(inflight'[p][g]) => HasFirst(inflight[p][g]) \/ x.seq = 1)
                  \/ \E q \in Payloads :
                        /\ ready' = [ready EXCEPT ![c] = {q}] /\ HashOf[q] = g
                        /\ HasFirst(inflight[p][g]) \/ x.seq = 1
                        /\ ~HasFirst(inflight'[p][g])
<1> DEFINE x == Head(wire[c])
           p == PeerOf[c]
           g == HashOf[copied[x.copy]]
           k == ChunkOf(x)
           added == Add(inflight[p], k)
<1>1. wire[c] # <<>> /\ p \in Peers
  BY NamesAssumption DEF handleFrame
<1>2. /\ x \in Frames /\ k.id = g /\ g \in Ids /\ k.id \in Ids /\ k.seq = x.seq - 1
      /\ k.seq \in Nat /\ k.total \in Nat
  BY <1>1, ReadFacts
<1>3. /\ inflight' = [inflight EXCEPT ![p] = added.table]
      /\ ready' = IF added.result.kind = "complete"
                  THEN [ready EXCEPT ![c] = @ \cup {added.result.payload}] ELSE ready
      /\ Reads(c) /\ UNCHANGED <<applied, unwritten>> /\ ready[c] = {}
  BY DEF handleFrame, Reads, ReaderFree
<1>4. Entries(inflight[p])
  BY <1>1 DEF RecvInv
<1> HIDE DEF k
<1>5. /\ Entries(added.table)
      /\ \A h \in Ids : h # g => added.table[h] = inflight[p][h]
      /\ HasFirst(added.table[g]) => HasFirst(inflight[p][g]) \/ k.seq = 0
      /\ added.result.kind = "complete" =>
            /\ added.result.payload \in Payloads /\ HashOf[added.result.payload] = g
            /\ added.table[g] = NoState
            /\ HasFirst(inflight[p][g]) \/ k.seq = 0
  <2> HIDE DEF x, p, g
  <2>1. /\ Entries(added.table)
        /\ \A h \in Ids : h # k.id => added.table[h] = inflight[p][h]
        /\ HasFirst(added.table[k.id]) => HasFirst(inflight[p][k.id]) \/ k.seq = 0
        /\ added.result.kind = "complete" =>
              /\ added.result.payload \in Payloads /\ HashOf[added.result.payload] = k.id
              /\ added.table[k.id] = NoState
              /\ HasFirst(inflight[p][k.id]) \/ k.seq = 0
    <3>1. added = Add(inflight[p], k) /\ k.id \in Ids /\ k.seq \in Nat /\ k.total \in Nat
      BY <1>2
    <3> HIDE DEF added
    <3> QED
      BY <1>4, <3>1, AddFacts
  <2> HIDE DEF added
  <2> QED
    BY <1>2, <2>1
<1>6. k.seq = 0 => x.seq = 1
  BY <1>2 DEF Frames, Chunks
<1> HIDE DEF x, p, g, added
<1>7. /\ DOMAIN inflight' = Peers /\ inflight'[p] = added.table
      /\ \A q \in Peers : q # p => inflight'[q] = inflight[q]
  BY <1>1, <1>3 DEF RecvInv
<1>8. CASE added.result.kind = "complete"
  <2>1. ready' = [ready EXCEPT ![c] = {added.result.payload}]
    BY <1>3, <1>8
  <2>2. ~HasFirst(inflight'[p][g])
    BY <1>5, <1>7, <1>8 DEF HasFirst
  <2> QED
    BY <1>1, <1>2, <1>3, <1>5, <1>6, <1>7, <1>8, <2>1, <2>2 DEF x, p, g
<1>9. CASE added.result.kind # "complete"
  BY <1>1, <1>2, <1>3, <1>5, <1>6, <1>7, <1>9 DEF x, p, g
<1> QED
  BY <1>8, <1>9

(* Every step keeps the receivers' state what it is.                       *)
LEMMA RecvStep ==
    ASSUME TypeOK, FrameInv, RecvInv, [SyncNext]_syncVars
    PROVE  RecvInv'
<1> DEFINE Busy == {c \in Conns : ready[c] # {}}
<1>1. CASE UNCHANGED recvVars
  BY <1>1 DEF recvVars, RecvInv
<1>2. ASSUME NEW c \in Conns, handleFrame(c) PROVE RecvInv'
  <2>1. /\ UNCHANGED <<applied, unwritten>> /\ DOMAIN inflight' = Peers /\ Entries(inflight'[PeerOf[c]])
        /\ \A q \in Peers : q # PeerOf[c] => inflight'[q] = inflight[q]
        /\ UNCHANGED ready \/ \E q \in Payloads : ready' = [ready EXCEPT ![c] = {q}]
    BY <1>2, HandleFacts
  <2>2. \A q \in Peers : Entries(inflight'[q])
    BY <2>1 DEF RecvInv
  <2>3. /\ ready' \in [Conns -> SUBSET Payloads]
        /\ \A d \in Conns : \A x, y \in ready'[d] : x = y
    <3>1. CASE UNCHANGED ready
      BY <3>1 DEF RecvInv
    <3>2. ASSUME NEW q \in Payloads, ready' = [ready EXCEPT ![c] = {q}]
          PROVE  /\ ready' \in [Conns -> SUBSET Payloads]
                 /\ \A d \in Conns : ready'[d] = IF d = c THEN {q} ELSE ready[d]
      BY <3>2 DEF RecvInv
    <3>3. \A d \in Conns : \A x, y \in ready[d] : x = y
      BY DEF RecvInv
    <3>4. ASSUME NEW q \in Payloads, ready' = [ready EXCEPT ![c] = {q}]
          PROVE  \A d \in Conns : \A x, y \in ready'[d] : x = y
      BY <3>2, <3>3, <3>4
    <3> QED
      BY <2>1, <3>1, <3>2, <3>4
  <2>4. Busy' \subseteq Busy \cup {c}
    BY <2>1 DEF RecvInv
  <2>5. IsFiniteSet(Busy')
    <3>1. IsFiniteSet(Busy)
      BY DEF RecvInv
    <3> HIDE DEF Busy
    <3>2. IsFiniteSet(Busy \cup {c})
      BY <3>1, FS_AddElement
    <3> QED
      BY <2>4, <3>2, FS_Subset
  <2> QED
    BY <2>1, <2>2, <2>3, <2>5 DEF RecvInv
<1>3. ASSUME NEW c \in Conns,
             PeerCloses(c) \/ \E p \in Payloads : ApplyRemote(c, p) \/ ApplyFails(c, p)
      PROVE  RecvInv'
  <2>1. /\ UNCHANGED inflight
        /\ \E s \in SUBSET ready[c] : ready' = [ready EXCEPT ![c] = s]
    BY <1>3 DEF PeerCloses, ApplyRemote, ApplyFails, ApplyDone, RecvInv
  <2>2. /\ ready' \in [Conns -> SUBSET Payloads]
        /\ \A d \in Conns : ready'[d] \subseteq ready[d]
    BY <2>1 DEF RecvInv
  <2>0. unwritten' \in [Peers -> SUBSET Ids]
    <3>1. unwritten \in [Peers -> SUBSET Ids] /\ \A p \in Payloads : HashOf[p] \in Ids
      BY ChunkAssumption DEF RecvInv
    <3>2. ASSUME NEW t \in SUBSET Ids, unwritten' = [unwritten EXCEPT ![PeerOf[c]] = t]
          PROVE  unwritten' \in [Peers -> SUBSET Ids]
      BY <3>1, <3>2
    <3> QED
      BY <1>3, <3>1, <3>2 DEF PeerCloses, ApplyRemote, ApplyFails
  <2>3. applied' \in [Peers -> Seq(Ids)]
    <3>1. CASE UNCHANGED applied
      BY <3>1 DEF RecvInv
    <3>2. ASSUME NEW p \in Payloads, ApplyRemote(c, p) PROVE applied' \in [Peers -> Seq(Ids)]
      <4>1. HashOf[p] \in Ids /\ PeerOf[c] \in Peers
        BY ChunkAssumption, NamesAssumption
      <4>2. Append(applied[PeerOf[c]], HashOf[p]) \in Seq(Ids)
        BY <4>1, AppendProperties DEF RecvInv
      <4> QED
        BY <3>2, <4>1, <4>2 DEF ApplyRemote, RecvInv
    <3> QED
      BY <1>3, <3>1, <3>2 DEF PeerCloses, ApplyFails
  <2>4. Busy' \subseteq Busy
    BY <2>2
  <2>5. IsFiniteSet(Busy')
    BY <2>4, FS_Subset DEF RecvInv
  <2>6. \A d \in Conns : \A x, y \in ready'[d] : x = y
    BY <2>2 DEF RecvInv
  <2> QED
    BY <2>0, <2>1, <2>2, <2>3, <2>5, <2>6 DEF RecvInv
<1> QED
  BY <1>1, <1>2, <1>3 DEF SyncNext, ReceiveStep, syncVars

-----------------------------------------------------------------------------
(* The accounts of a peer and a content.                                   *)

(* The payloads of that content whose first chunk is on its way.           *)
FirstsOut(p, h) ==
    {k \in 1 .. Copy : /\ HashOf[copied[k]] = h
                       /\ \E c \in Conns : PeerOf[c] = p /\ Load(c, k) > 0}

(* The connections whose readPump is to apply it.                          *)
ReadyConns(p, h) == {c \in Conns : PeerOf[c] = p /\ \E q \in ready[c] : HashOf[q] = h}

(* Its first chunk is still to be offered to the peer.                     *)
Coming(p, h) == Unoffered(p) /\ HashOf[copied[Copy]] = h

(* Every copy of a content is spent at most once: on a first chunk that    *)
(* has not been offered, is on its way or is in the reassembler, on a      *)
(* completed payload, or on an application of it.                          *)
Spent(p, h) ==
    Occurs(applied[p], h) + Cardinality(ReadyConns(p, h)) + One(HasFirst(inflight[p][h]))
        + Cardinality(FirstsOut(p, h)) + One(Coming(p, h))
Accounted(p, h) == Spent(p, h) <= Occurs(Sent, h)

(* The hash of one more payload is one more hash.                          *)
LEMMA HashesAppend ==
    ASSUME NEW s \in Seq(Payloads), NEW q \in Payloads
    PROVE  [k \in 1 .. Len(Append(s, q)) |-> HashOf[Append(s, q)[k]]]
             = Append([k \in 1 .. Len(s) |-> HashOf[s[k]]], HashOf[q])
<1> DEFINE t == Append(s, q)
           hs == [k \in 1 .. Len(s) |-> HashOf[s[k]]]
           ht == [k \in 1 .. Len(t) |-> HashOf[t[k]]]
<1>1. /\ Len(s) \in Nat /\ Len(t) = Len(s) + 1 /\ t[Len(s) + 1] = q
      /\ \A k \in 1 .. Len(s) : t[k] = s[k] /\ s[k] \in Payloads
  BY AppendProperties, LenProperties, ElementOfSeq
<1> HIDE DEF t
<1>2. /\ hs \in Seq(Ids) /\ Len(hs) = Len(s) /\ ht \in Seq(Ids) /\ Len(ht) = Len(s) + 1
      /\ HashOf[q] \in Ids
  <2>1. \A n \in Nat : \A f \in [1 .. n -> Ids] : f \in Seq(Ids) /\ Len(f) = n
    BY LenProperties
  <2>2. t \in Seq(Payloads)
    BY AppendProperties DEF t
  <2>3. \A k \in 1 .. Len(t) : t[k] \in Payloads
    BY <2>2, ElementOfSeq
  <2>4. hs \in [1 .. Len(s) -> Ids] /\ ht \in [1 .. Len(t) -> Ids]
    BY <1>1, <2>3, ChunkAssumption
  <2> HIDE DEF hs, ht
  <2>5. hs \in Seq(Ids) /\ Len(hs) = Len(s)
    BY <1>1, <2>1, <2>4, Zenon
  <2>6. ht \in Seq(Ids) /\ Len(ht) = Len(t) /\ Len(t) \in Nat
    <3>1. Len(t) \in Nat
      BY <1>1
    <3> QED
      BY <2>1, <2>4, <3>1, Zenon
  <2> QED
    BY <1>1, <2>5, <2>6, ChunkAssumption
<1>3. /\ \A k \in 1 .. Len(s) : ht[k] = hs[k]
      /\ ht[Len(s) + 1] = HashOf[q]
  BY <1>1
<1> HIDE DEF hs, ht
<1>4. /\ Append(hs, HashOf[q]) \in Seq(Ids) /\ Len(Append(hs, HashOf[q])) = Len(s) + 1
      /\ \A k \in 1 .. Len(s) : Append(hs, HashOf[q])[k] = hs[k]
      /\ Append(hs, HashOf[q])[Len(s) + 1] = HashOf[q]
  BY <1>2, AppendProperties
<1>5. \A k \in 1 .. Len(ht) : ht[k] = Append(hs, HashOf[q])[k]
  BY <1>1, <1>2, <1>3, <1>4
<1>6. ht = Append(hs, HashOf[q])
  BY <1>2, <1>4, <1>5, SeqEqual
<1> QED
  BY <1>6 DEF t, hs, ht

(* The terms of the accounts are natural numbers.                          *)
LEMMA AccountTypes ==
    ASSUME TypeOK, RecvInv, NEW p \in Peers, NEW h \in Ids
    PROVE  /\ Occurs(applied[p], h) \in Nat /\ Occurs(Sent, h) \in Nat /\ Sent \in Seq(Ids)
           /\ IsFiniteSet(ReadyConns(p, h)) /\ Cardinality(ReadyConns(p, h)) \in Nat
           /\ IsFiniteSet(FirstsOut(p, h)) /\ Cardinality(FirstsOut(p, h)) \in Nat
<1>1. copied \in Seq(Payloads) /\ Copy \in Nat /\ \A k \in 1 .. Copy : copied[k] \in Payloads
  BY LenProperties, ElementOfSeq DEF TypeOK, Copy
<1>2. Sent \in Seq(Ids)
  BY <1>1, ChunkAssumption DEF Sent
<1>3. Occurs(applied[p], h) \in Nat /\ Occurs(Sent, h) \in Nat
  BY <1>2, PositionsFinite DEF RecvInv
<1>4. ReadyConns(p, h) \subseteq {c \in Conns : ready[c] # {}}
  BY DEF ReadyConns
<1>5. IsFiniteSet(ReadyConns(p, h)) /\ Cardinality(ReadyConns(p, h)) \in Nat
  BY <1>4, FS_Subset, FS_CardinalityType DEF RecvInv
<1>6. FirstsOut(p, h) \subseteq 1 .. Copy /\ IsFiniteSet(1 .. Copy)
  BY <1>1, FS_Interval DEF FirstsOut
<1>7. IsFiniteSet(FirstsOut(p, h)) /\ Cardinality(FirstsOut(p, h)) \in Nat
  BY <1>6, FS_Subset, FS_CardinalityType
<1> QED
  BY <1>2, <1>3, <1>5, <1>7

(* A step that only takes from what is on its way keeps the accounts.      *)
LEMMA Shrinks ==
    ASSUME TypeOK, RecvInv, TypeOK', RecvInv', NEW p \in Peers, NEW h \in Ids, Accounted(p, h),
           UNCHANGED copied, applied'[p] = applied[p],
           ReadyConns(p, h)' \subseteq ReadyConns(p, h),
           HasFirst(inflight'[p][h]) => HasFirst(inflight[p][h]),
           FirstsOut(p, h)' \subseteq FirstsOut(p, h),
           Unoffered(p)' => Unoffered(p)
    PROVE  Accounted(p, h)'
<1>1. /\ Occurs(applied[p], h) \in Nat /\ Occurs(Sent, h) \in Nat
      /\ Cardinality(ReadyConns(p, h)) \in Nat /\ Cardinality(FirstsOut(p, h)) \in Nat
      /\ Cardinality(ReadyConns(p, h)') \in Nat /\ Cardinality(FirstsOut(p, h)') \in Nat
  <2>1. IsFiniteSet(ReadyConns(p, h)) /\ IsFiniteSet(FirstsOut(p, h))
    BY AccountTypes
  <2> QED
    BY <2>1, AccountTypes, FS_Subset, FS_CardinalityType
<1>2. /\ Cardinality(ReadyConns(p, h)') <= Cardinality(ReadyConns(p, h))
      /\ Cardinality(FirstsOut(p, h)') <= Cardinality(FirstsOut(p, h))
  BY AccountTypes, FS_Subset
<1>3. Sent' = Sent /\ (Coming(p, h)' => Coming(p, h))
  BY DEF Sent, Copy, Coming
<1>4. /\ One(HasFirst(inflight'[p][h])) <= One(HasFirst(inflight[p][h]))
      /\ One(Coming(p, h)') <= One(Coming(p, h))
      /\ One(HasFirst(inflight[p][h])) \in Nat /\ One(HasFirst(inflight'[p][h])) \in Nat
      /\ One(Coming(p, h)') \in Nat /\ One(Coming(p, h)) \in Nat
  BY <1>3 DEF One
<1> QED
  BY <1>1, <1>2, <1>3, <1>4 DEF Accounted, Spent

(* What is on its way grows with an offered frame only.                    *)
LEMMA FirstsShrink ==
    ASSUME TypeOK, FrameInv, FrameInv', UNCHANGED copied, NEW p \in Peers, NEW h \in Ids,
           \A c \in Conns : \A k \in Nat : PeerOf[c] = p => Load(c, k)' <= Load(c, k)
    PROVE  FirstsOut(p, h)' \subseteq FirstsOut(p, h)
<1>1. \A c \in Conns : \A k \in Nat : Load(c, k) \in Nat /\ Load(c, k)' \in Nat
  <2>1. ASSUME NEW c \in Conns, NEW k \in Nat PROVE Load(c, k)' \in Nat
    BY PositionsFinite DEF FrameInv, Load
  <2> QED
    BY <2>1, LoadType
<1>2. Copy \in Nat /\ Copy' = Copy
  BY LenProperties DEF TypeOK, Copy
<1>3. \A c \in Conns : \A k \in 1 .. Copy :
         PeerOf[c] = p /\ Load(c, k)' > 0 => Load(c, k) > 0
  BY <1>1, <1>2
<1> QED
  BY <1>2, <1>3 DEF FirstsOut

(* The inductive invariant of the sender and its receivers.                *)
StateInv == SendInv /\ FrameInv /\ OnceInv /\ RecvInv

(* A payload that is taken is one more copy to spend, still to be offered. *)
LEMMA TakeAccount ==
    ASSUME StateInv, StateInv', NEW p \in Peers, NEW h \in Ids, Accounted(p, h),
           NEW q \in Payloads, copied' = Append(copied, q), loop = "select",
           UNCHANGED <<sendQ, wire, recvVars>>
    PROVE  Accounted(p, h)'
<1>1. TypeOK /\ RecvInv /\ FrameInv /\ FrameInv' /\ RecvInv' /\ TypeOK'
  BY DEF StateInv, SendInv
<1>2. /\ copied \in Seq(Payloads) /\ Copy \in Nat /\ Copy' = Copy + 1
      /\ copied'[Copy'] = q /\ \A k \in 1 .. Copy : copied'[k] = copied[k]
  BY <1>1, LenProperties, AppendProperties DEF TypeOK, Copy
<1>3. Sent' = Append(Sent, HashOf[q])
  BY <1>2, HashesAppend DEF Sent, Copy
<1>4. Occurs(Sent, h)' = Occurs(Sent, h) + One(HashOf[q] = h)
  BY <1>1, <1>3, AccountTypes, ChunkAssumption, OccursAppend
<1>5. FirstsOut(p, h)' = FirstsOut(p, h)
  <2>1. \A c \in Conns : Load(c, Copy + 1) = 0
    BY <1>1, <1>2, LoadType
  <2>2. \A c \in Conns : \A k : Load(c, k)' = Load(c, k)
    BY DEF Load
  <2>3. \A c \in Conns : ~ (Load(c, Copy + 1) > 0)
    BY <2>1
  <2> HIDE DEF FirstsOut
  <2>4. ASSUME NEW k PROVE k \in FirstsOut(p, h)' <=> k \in FirstsOut(p, h)
    <3>1. CASE k \in 1 .. Copy
      <4>1. k \in 1 .. Copy' /\ copied'[k] = copied[k]
        <5>1. k \in 1 .. Copy'
          BY <1>2, <3>1
        <5> QED
          BY <1>2, <3>1, <5>1, Zenon
      <4> QED
        BY <2>2, <3>1, <4>1, Zenon DEF FirstsOut
    <3>2. CASE k = Copy + 1
      BY <1>2, <2>2, <2>3, <3>2 DEF FirstsOut
    <3>3. CASE k \notin 1 .. Copy /\ k # Copy + 1
      BY <1>2, <3>3 DEF FirstsOut
    <3> QED
      BY <3>1, <3>2, <3>3
  <2> QED
    BY <2>4
<1>6. ReadyConns(p, h)' = ReadyConns(p, h) /\ UNCHANGED <<inflight, applied>>
  BY DEF ReadyConns, recvVars
<1>7. ~Coming(p, h) /\ (Coming(p, h)' => HashOf[q] = h)
  BY <1>2 DEF Coming, Unoffered
<1>8. /\ Occurs(applied[p], h) \in Nat /\ Occurs(Sent, h) \in Nat
      /\ Cardinality(ReadyConns(p, h)) \in Nat /\ Cardinality(FirstsOut(p, h)) \in Nat
  BY <1>1, AccountTypes
<1> QED
  BY <1>4, <1>5, <1>6, <1>7, <1>8 DEF Accounted, Spent, One

(* An offer moves the copy from those to come to those on their way.       *)
LEMMA OfferAccount ==
    ASSUME StateInv, StateInv', [SyncNext]_syncVars, Offers, UNCHANGED recvVars,
           NEW p \in Peers, NEW h \in Ids, Accounted(p, h)
    PROVE  Accounted(p, h)'
<1>1. TypeOK /\ RecvInv /\ FrameInv /\ FrameInv' /\ RecvInv' /\ TypeOK'
  BY DEF StateInv, SendInv
<1>2. /\ held \in Conns /\ UNCHANGED copied /\ Copy' = Copy /\ Copy \in Nat /\ Sent' = Sent
      /\ loop = "frame"
  BY <1>1, LenProperties DEF Offers, TypeOK, Copy, Sent
<1>3. \A c \in Conns : \A k \in Nat :
          /\ Load(c, k)' = Load(c, k) + One(c = held /\ seq = 1 /\ k = Copy)
          /\ Load(c, k) \in Nat
  BY <1>1, <1>2, LoadChange, LoadType
<1>4. ReadyConns(p, h)' = ReadyConns(p, h) /\ UNCHANGED <<inflight, applied>>
  BY DEF ReadyConns, recvVars
<1>5. CASE PeerOf[held] # p \/ seq # 1 \/ HashOf[copied[Copy]] # h
  <2>1. FirstsOut(p, h)' \subseteq FirstsOut(p, h)
    BY <1>2, <1>3, <1>5 DEF FirstsOut, One
  <2>2. Unoffered(p)' => Unoffered(p)
    BY <1>2, UnofferedStep DEF StateInv
  <2> QED
    BY <1>1, <1>2, <1>4, <2>1, <2>2, Shrinks
<1>6. CASE PeerOf[held] = p /\ seq = 1 /\ HashOf[copied[Copy]] = h
  <2>1. Coming(p, h) /\ ~Coming(p, h)'
    BY <1>6, UnofferedStep DEF StateInv, Coming
  <2>2. FirstsOut(p, h)' \subseteq FirstsOut(p, h) \cup {Copy}
    BY <1>2, <1>3 DEF FirstsOut, One
  <2>3. /\ Occurs(applied[p], h) \in Nat /\ Occurs(Sent, h) \in Nat
        /\ Cardinality(ReadyConns(p, h)) \in Nat /\ Cardinality(FirstsOut(p, h)) \in Nat
        /\ IsFiniteSet(FirstsOut(p, h))
    BY <1>1, AccountTypes
  <2>4. /\ Cardinality(FirstsOut(p, h)') <= Cardinality(FirstsOut(p, h)) + 1
        /\ Cardinality(FirstsOut(p, h)') \in Nat
    <3>1. /\ IsFiniteSet(FirstsOut(p, h) \cup {Copy})
          /\ Cardinality(FirstsOut(p, h) \cup {Copy}) \in
                {Cardinality(FirstsOut(p, h)), Cardinality(FirstsOut(p, h)) + 1}
      BY <2>3, FS_AddElement, Zenon
    <3>2. /\ Cardinality(FirstsOut(p, h)') <= Cardinality(FirstsOut(p, h) \cup {Copy})
          /\ IsFiniteSet(FirstsOut(p, h)')
      BY <2>2, <3>1, FS_Subset
    <3> QED
      BY <2>3, <3>1, <3>2, FS_CardinalityType
  <2> QED
    BY <1>2, <1>4, <2>1, <2>3, <2>4 DEF Accounted, Spent, One
<1> QED
  BY <1>5, <1>6

(* A frame that is read turns a first chunk on its way into one in the     *)
(* reassembler, and a completed transfer turns that one into a payload.    *)
LEMMA HandleAccount ==
    ASSUME StateInv, StateInv', NEW c \in Conns, handleFrame(c),
           NEW p \in Peers, NEW h \in Ids, Accounted(p, h)
    PROVE  Accounted(p, h)'
<1> DEFINE x == Head(wire[c])
           g == HashOf[copied[x.copy]]
<1>1. TypeOK /\ RecvInv /\ FrameInv /\ OnceInv /\ FrameInv' /\ RecvInv' /\ TypeOK'
  BY DEF StateInv, SendInv
<1>2. /\ Reads(c) /\ UNCHANGED applied /\ ready[c] = {} /\ UNCHANGED loopVars
      /\ x \in Frames /\ g \in Ids
      /\ \A q \in Peers : q # PeerOf[c] => inflight'[q] = inflight[q]
      /\ \A i \in Ids : i # g => inflight'[PeerOf[c]][i] = inflight[PeerOf[c]][i]
      /\ \/ UNCHANGED ready /\
               (HasFirst(inflight'[PeerOf[c]][g]) => HasFirst(inflight[PeerOf[c]][g]) \/ x.seq = 1)
         \/ \E q \in Payloads :
               /\ ready' = [ready EXCEPT ![c] = {q}] /\ HashOf[q] = g
               /\ HasFirst(inflight[PeerOf[c]][g]) \/ x.seq = 1
               /\ ~HasFirst(inflight'[PeerOf[c]][g])
  BY <1>1, HandleFacts DEF Reads
<1>3. UNCHANGED copied /\ Sent' = Sent /\ (Unoffered(p)' <=> Unoffered(p)) /\ (Coming(p, h)' <=> Coming(p, h))
  BY <1>2 DEF loopVars, Sent, Copy, Unoffered, Coming
<1>4. \A d \in Conns : \A k \in Nat :
         /\ Load(d, k) \in Nat /\ Load(d, k)' \in Nat
         /\ Load(d, k)' = Load(d, k) - One(d = c /\ x = First(k))
  <2>1. ASSUME NEW d \in Conns, NEW k \in Nat PROVE Load(d, k)' \in Nat
    BY <1>1, PositionsFinite DEF FrameInv, Load
  <2> QED
    BY <1>1, <1>2, <2>1, LoadType, LoadChange
<1> HIDE DEF x, g
<1>5. FirstsOut(p, h)' \subseteq FirstsOut(p, h)
  BY <1>1, <1>3, <1>4, FirstsShrink DEF One
<1>6. CASE p # PeerOf[c] \/ h # g
  <2>1. ReadyConns(p, h)' \subseteq ReadyConns(p, h)
    BY <1>1, <1>2, <1>6 DEF ReadyConns, RecvInv
  <2>2. inflight'[p][h] = inflight[p][h]
    BY <1>2, <1>6
  <2> QED
    BY <1>1, <1>2, <1>3, <1>5, <2>1, <2>2, Shrinks
<1>7. CASE p = PeerOf[c] /\ h = g
  <2>0. applied' = applied /\ Sent' = Sent
    BY <1>2, <1>3
  <2>1. /\ Occurs(applied[p], h) \in Nat /\ Occurs(Sent, h) \in Nat
        /\ IsFiniteSet(ReadyConns(p, h)) /\ Cardinality(ReadyConns(p, h)) \in Nat
        /\ IsFiniteSet(FirstsOut(p, h)) /\ Cardinality(FirstsOut(p, h)) \in Nat
    BY <1>1, AccountTypes
  <2>2. /\ Cardinality(FirstsOut(p, h)') <= Cardinality(FirstsOut(p, h)) - One(x.seq = 1)
        /\ Cardinality(FirstsOut(p, h)') \in Nat
    <3>1. CASE x.seq = 1
      <4>1. PICK k \in 1 .. Copy : x = First(k) /\ k = x.copy
        BY <1>2, <3>1 DEF Frames, Chunks, First
      <4>2. k \in Nat /\ HashOf[copied[k]] = h
        BY <1>7, <4>1 DEF g
      <4>3. \A d \in Conns : Load(d, k) \in Nat /\ Load(d, k)' = Load(d, k) - One(d = c)
        BY <1>4, <4>1, <4>2
      <4>4. /\ Load(c, k) = 1 /\ Load(c, k)' = 0
            /\ \A d \in Conns : PeerOf[d] = p /\ d # c => Load(d, k) = 0 /\ Load(d, k)' = 0
        <5>1. Load(c, k)' \in Nat
          BY <1>4, <4>2
        <5>2. /\ Load(c, k) <= 1
              /\ \A d \in Conns : PeerOf[d] = p /\ d # c /\ Load(c, k) > 0 => Load(d, k) = 0
          BY <1>1, <1>7, <4>1, <4>3 DEF OnceInv
        <5> QED
          BY <4>3, <5>1, <5>2 DEF One
      <4>5. k \in FirstsOut(p, h)
        BY <1>7, <4>2, <4>4 DEF FirstsOut
      <4>6. k \notin FirstsOut(p, h)'
        <5>1. \A d \in Conns : PeerOf[d] = p => ~ (Load(d, k)' > 0)
          BY <4>4
        <5> QED
          BY <5>1 DEF FirstsOut
      <4>7. FirstsOut(p, h)' \subseteq FirstsOut(p, h) \ {k}
        BY <1>5, <4>6
      <4>8. /\ IsFiniteSet(FirstsOut(p, h) \ {k})
            /\ Cardinality(FirstsOut(p, h) \ {k}) = Cardinality(FirstsOut(p, h)) - 1
        BY <2>1, <4>5, FS_RemoveElement
      <4>9. /\ Cardinality(FirstsOut(p, h)') <= Cardinality(FirstsOut(p, h) \ {k})
            /\ IsFiniteSet(FirstsOut(p, h)')
        BY <4>7, <4>8, FS_Subset
      <4> QED
        BY <2>1, <3>1, <4>8, <4>9, FS_CardinalityType DEF One
    <3>2. CASE x.seq # 1
      <4>1. /\ Cardinality(FirstsOut(p, h)') <= Cardinality(FirstsOut(p, h))
            /\ IsFiniteSet(FirstsOut(p, h)')
        BY <1>5, <2>1, FS_Subset
      <4> QED
        BY <2>1, <3>2, <4>1, FS_CardinalityType DEF One
    <3> QED
      BY <3>1, <3>2
  <2>3. CASE UNCHANGED ready /\ (HasFirst(inflight'[p][h]) => HasFirst(inflight[p][h]) \/ x.seq = 1)
    <3>1. ReadyConns(p, h)' = ReadyConns(p, h)
      BY <2>3 DEF ReadyConns
    <3>2. One(HasFirst(inflight'[p][h])) <= One(HasFirst(inflight[p][h])) + One(x.seq = 1)
      BY <2>3 DEF One
    <3>3. One(HasFirst(inflight'[p][h])) \in Nat /\ One(HasFirst(inflight[p][h])) \in Nat
          /\ One(x.seq = 1) \in Nat /\ One(Coming(p, h)) \in Nat /\ One(Coming(p, h)') = One(Coming(p, h))
      BY <1>3 DEF One
    <3> QED
      BY <2>0, <2>1, <2>2, <3>1, <3>2, <3>3 DEF Accounted, Spent
  <2>4. ASSUME NEW q \in Payloads, ready' = [ready EXCEPT ![c] = {q}],
               HasFirst(inflight[p][h]) \/ x.seq = 1, ~HasFirst(inflight'[p][h])
        PROVE  Accounted(p, h)'
    <3>1. ReadyConns(p, h)' \subseteq ReadyConns(p, h) \cup {c}
      BY <1>1, <2>4 DEF ReadyConns, RecvInv
    <3>2. /\ IsFiniteSet(ReadyConns(p, h) \cup {c})
          /\ Cardinality(ReadyConns(p, h) \cup {c}) \in
                {Cardinality(ReadyConns(p, h)), Cardinality(ReadyConns(p, h)) + 1}
      BY <2>1, FS_AddElement, Zenon
    <3>3. /\ Cardinality(ReadyConns(p, h)') <= Cardinality(ReadyConns(p, h) \cup {c})
          /\ IsFiniteSet(ReadyConns(p, h)')
      BY <3>1, <3>2, FS_Subset
    <3>4. /\ Cardinality(ReadyConns(p, h)') \in Nat
          /\ Cardinality(ReadyConns(p, h)') <= Cardinality(ReadyConns(p, h)) + 1
      BY <2>1, <3>2, <3>3, FS_CardinalityType
    <3>5. /\ One(HasFirst(inflight'[p][h])) = 0
          /\ One(HasFirst(inflight[p][h])) + One(x.seq = 1) >= 1
          /\ One(HasFirst(inflight[p][h])) \in Nat /\ One(x.seq = 1) \in Nat
          /\ One(Coming(p, h)) \in Nat /\ One(Coming(p, h)') = One(Coming(p, h))
      BY <1>3, <2>4 DEF One
    <3> QED
      BY <2>0, <2>1, <2>2, <3>4, <3>5 DEF Accounted, Spent
  <2> QED
    BY <1>2, <1>7, <2>3, <2>4
<1> QED
  BY <1>6, <1>7

(* ApplyRemote turns a completed payload into an application.              *)
LEMMA ApplyAccount ==
    ASSUME StateInv, StateInv', NEW c \in Conns, NEW q \in Payloads, ApplyRemote(c, q),
           NEW p \in Peers, NEW h \in Ids, Accounted(p, h)
    PROVE  /\ Accounted(p, h)'
           /\ PeerOf[c] = p /\ HashOf[q] = h => Occurs(applied[p], h) < Occurs(Sent, h)
<1>1. TypeOK /\ RecvInv /\ FrameInv /\ FrameInv' /\ RecvInv' /\ TypeOK'
  BY DEF StateInv, SendInv
<1>2. /\ q \in ready[c] /\ applied' = [applied EXCEPT ![PeerOf[c]] = Append(@, HashOf[q])]
      /\ ready' = [ready EXCEPT ![c] = @ \ {q}] /\ UNCHANGED <<vars, inflight>>
  BY DEF ApplyRemote, ApplyDone
<1>3. /\ UNCHANGED copied /\ Sent' = Sent /\ (Unoffered(p)' <=> Unoffered(p))
      /\ (Coming(p, h)' <=> Coming(p, h)) /\ FirstsOut(p, h)' = FirstsOut(p, h)
  BY <1>2 DEF vars, loopVars, connVars, Sent, Copy, Unoffered, Coming, FirstsOut, Load
<1>4. CASE PeerOf[c] # p \/ HashOf[q] # h
  <2>1. ReadyConns(p, h)' \subseteq ReadyConns(p, h) /\ ~ (PeerOf[c] = p /\ HashOf[q] = h)
    BY <1>1, <1>2, <1>4 DEF ReadyConns, RecvInv
  <2>2. CASE PeerOf[c] # p
    <3>1. applied'[p] = applied[p]
      BY <1>1, <1>2, <2>2 DEF RecvInv
    <3> QED
      BY <1>1, <1>2, <1>3, <2>1, <3>1, Shrinks
  <2>3. CASE PeerOf[c] = p /\ HashOf[q] # h
    <3>1. applied'[p] = Append(applied[p], HashOf[q]) /\ applied[p] \in Seq(Ids) /\ HashOf[q] \in Ids
      BY <1>1, <1>2, <2>3, ChunkAssumption DEF RecvInv
    <3>2. Occurs(applied'[p], h) = Occurs(applied[p], h)
      <4>1. Occurs(applied[p], h) \in Nat
        BY <3>1, PositionsFinite
      <4> QED
        BY <2>3, <3>1, <4>1, OccursAppend DEF One
    <3>3. Cardinality(ReadyConns(p, h)') <= Cardinality(ReadyConns(p, h))
          /\ Cardinality(ReadyConns(p, h)') \in Nat
      BY <1>1, <2>1, AccountTypes, FS_Subset, FS_CardinalityType
    <3>4. /\ Occurs(applied[p], h) \in Nat /\ Occurs(Sent, h) \in Nat
          /\ Cardinality(ReadyConns(p, h)) \in Nat /\ Cardinality(FirstsOut(p, h)) \in Nat
      BY <1>1, AccountTypes
    <3>5. /\ One(HasFirst(inflight[p][h])') = One(HasFirst(inflight[p][h]))
          /\ One(Coming(p, h)') = One(Coming(p, h))
          /\ Cardinality(FirstsOut(p, h)') = Cardinality(FirstsOut(p, h))
          /\ Occurs(Sent', h) = Occurs(Sent, h)
      BY <1>2, <1>3 DEF One
    <3>6. One(HasFirst(inflight[p][h])) \in {0, 1} /\ One(Coming(p, h)) \in {0, 1}
      BY DEF One
    <3>7. Spent(p, h)' <= Spent(p, h) /\ Spent(p, h) \in Nat /\ Spent(p, h)' \in Nat
      BY <3>2, <3>3, <3>4, <3>5, <3>6 DEF Spent
    <3> QED
      BY <2>1, <3>4, <3>5, <3>7 DEF Accounted
  <2> QED
    BY <1>4, <2>2, <2>3
<1>5. CASE PeerOf[c] = p /\ HashOf[q] = h
  <2>1. /\ Occurs(applied[p], h) \in Nat /\ Occurs(Sent, h) \in Nat
        /\ IsFiniteSet(ReadyConns(p, h)) /\ Cardinality(ReadyConns(p, h)) \in Nat
        /\ Cardinality(FirstsOut(p, h)) \in Nat
    BY <1>1, AccountTypes
  <2>2. Occurs(applied'[p], h) = Occurs(applied[p], h) + 1
    <3>1. applied'[p] = Append(applied[p], h) /\ applied[p] \in Seq(Ids)
      BY <1>1, <1>2, <1>5 DEF RecvInv
    <3> QED
      BY <3>1, OccursAppend DEF One
  <2>3. c \in ReadyConns(p, h) /\ c \notin ReadyConns(p, h)'
    BY <1>1, <1>2, <1>5 DEF ReadyConns, RecvInv
  <2>4. ReadyConns(p, h)' \subseteq ReadyConns(p, h) \ {c}
    BY <1>1, <1>2, <2>3 DEF ReadyConns, RecvInv
  <2>5. /\ IsFiniteSet(ReadyConns(p, h) \ {c})
        /\ Cardinality(ReadyConns(p, h) \ {c}) = Cardinality(ReadyConns(p, h)) - 1
    BY <2>1, <2>3, FS_RemoveElement
  <2>6. /\ Cardinality(ReadyConns(p, h)') <= Cardinality(ReadyConns(p, h) \ {c})
        /\ IsFiniteSet(ReadyConns(p, h)')
    BY <2>4, <2>5, FS_Subset
  <2>7. Cardinality(ReadyConns(p, h)') \in Nat /\ Cardinality(ReadyConns(p, h) \ {c}) \in Nat
    BY <2>5, <2>6, FS_CardinalityType
  <2>8. Occurs(applied'[p], h) + Cardinality(ReadyConns(p, h)')
            <= Occurs(applied[p], h) + Cardinality(ReadyConns(p, h))
    BY <2>1, <2>2, <2>5, <2>6, <2>7
  <2>9. Occurs(applied'[p], h) \in Nat
    BY <2>1, <2>2
  <2>10. Cardinality(ReadyConns(p, h)) >= 1
    BY <2>1, <2>5, <2>7
  <2>11. /\ One(HasFirst(inflight[p][h])') = One(HasFirst(inflight[p][h]))
         /\ One(Coming(p, h)') = One(Coming(p, h))
         /\ Cardinality(FirstsOut(p, h)') = Cardinality(FirstsOut(p, h))
         /\ Occurs(Sent', h) = Occurs(Sent, h)
    BY <1>2, <1>3 DEF One
  <2>12. One(HasFirst(inflight[p][h])) \in {0, 1} /\ One(Coming(p, h)) \in {0, 1}
    BY DEF One
  <2>13. Spent(p, h)' <= Spent(p, h) /\ Occurs(applied[p], h) < Spent(p, h)
    BY <2>1, <2>7, <2>8, <2>9, <2>10, <2>11, <2>12 DEF Spent
  <2>14. Spent(p, h) \in Nat /\ Spent(p, h)' \in Nat
    BY <2>1, <2>7, <2>9, <2>11, <2>12 DEF Spent
  <2> QED
    BY <2>1, <2>11, <2>13, <2>14 DEF Accounted
<1> QED
  BY <1>4, <1>5

(* Whatever happens, a copy is spent at most once.                         *)
LEMMA AccountStep ==
    ASSUME StateInv, StateInv', [SyncNext]_syncVars,
           NEW p \in Peers, NEW h \in Ids, Accounted(p, h)
    PROVE  Accounted(p, h)'
<1>1. /\ TypeOK /\ LoopInv /\ RecvInv /\ FrameInv /\ FrameInv' /\ RecvInv' /\ TypeOK'
      /\ SendInv
  BY DEF StateInv, SendInv
<1>2. ASSUME UNCHANGED copied, applied'[p] = applied[p], ~Offers,
             ReadyConns(p, h)' \subseteq ReadyConns(p, h),
             inflight' = inflight,
             UNCHANGED <<sendQ, wire>> \/ \E c \in Conns : Writes(c) \/ Loses(c)
      PROVE  Accounted(p, h)'
  <2>1. \A c \in Conns : \A k \in Nat : Load(c, k) \in Nat /\ Load(c, k)' <= Load(c, k)
    <3> SUFFICES ASSUME NEW c \in Conns, NEW k \in Nat
                 PROVE  Load(c, k) \in Nat /\ Load(c, k)' <= Load(c, k)
      OBVIOUS
    <3>1. Load(c, k) \in Nat
      BY <1>1, LoadType
    <3>2. Load(c, k)' = Load(c, k) \/ Load(c, k)' <= Load(c, k)
      BY <1>1, <1>2, LoadChange
    <3> QED
      BY <3>1, <3>2
  <2>2. FirstsOut(p, h)' \subseteq FirstsOut(p, h)
    BY <1>1, <1>2, <2>1, FirstsShrink
  <2>3. Unoffered(p)' => Unoffered(p)
    <3>1. copied \in Seq(Payloads)
      BY <1>1 DEF TypeOK
    <3>2. \A q \in Payloads : copied' # Append(copied, q)
      <4>1. \A q \in Payloads : Len(Append(copied, q)) # Len(copied)
        BY <3>1, AppendProperties, LenProperties
      <4> QED
        BY <1>2, <4>1
    <3> QED
      BY <1>1, <3>2, UnofferedStep
  <2> QED
    BY <1>1, <1>2, <2>2, <2>3, Shrinks
<1>3. CASE [Next]_vars /\ UNCHANGED recvVars
  <2>1. ASSUME NEW q \in Payloads, copied' = Append(copied, q), loop = "select",
               UNCHANGED <<sendQ, wire>>
        PROVE  Accounted(p, h)'
    BY <1>3, <2>1, TakeAccount
  <2>2. CASE Offers
    BY <1>3, <2>2, OfferAccount
  <2>3. CASE UNCHANGED copied /\ ~Offers
    <3>1. UNCHANGED <<sendQ, wire>> \/ \E c \in Conns : Writes(c) \/ Loses(c)
      BY <1>1, <1>3, <2>3, SenderQueues
    <3>2. applied'[p] = applied[p] /\ inflight' = inflight /\ ReadyConns(p, h)' = ReadyConns(p, h)
      BY <1>3 DEF recvVars, ReadyConns
    <3> QED
      BY <1>2, <2>3, <3>1, <3>2
  <2> QED
    BY <1>1, <1>3, <2>1, <2>2, <2>3, CopiedStep
<1>4. ASSUME NEW c \in Conns, handleFrame(c) PROVE Accounted(p, h)'
  BY <1>4, HandleAccount
<1>5. ASSUME NEW c \in Conns, NEW q \in Payloads, ApplyRemote(c, q) PROVE Accounted(p, h)'
  BY <1>5, ApplyAccount
<1>6. ASSUME NEW c \in Conns, NEW q \in Payloads, ApplyFails(c, q) PROVE Accounted(p, h)'
  <2>1. UNCHANGED <<vars, inflight, applied>> /\ ready' = [ready EXCEPT ![c] = @ \ {q}]
    BY <1>6 DEF ApplyFails, ApplyDone
  <2>2. ReadyConns(p, h)' \subseteq ReadyConns(p, h)
    BY <1>1, <2>1 DEF ReadyConns, RecvInv
  <2>3. UNCHANGED <<copied, sendQ, wire, loop, seq, todo, held>>
    BY <2>1 DEF vars, connVars, loopVars
  <2>4. FirstsOut(p, h)' \subseteq FirstsOut(p, h) /\ (Unoffered(p)' => Unoffered(p))
    BY <2>3 DEF FirstsOut, Load, Copy, Unoffered
  <2> QED
    BY <1>1, <2>1, <2>2, <2>3, <2>4, Shrinks
<1>7. ASSUME NEW c \in Conns, PeerCloses(c) PROVE Accounted(p, h)'
  <2>1. /\ UNCHANGED <<loopVars, inflight, applied, sendQ>> /\ Loses(c)
        /\ ready' \in {ready, [ready EXCEPT ![c] = {}]}
    BY <1>7 DEF PeerCloses, Loses
  <2>2. ReadyConns(p, h)' \subseteq ReadyConns(p, h)
    BY <1>1, <2>1 DEF ReadyConns, RecvInv
  <2>3. ~Offers
    <3>1. ASSUME Offers PROVE FALSE
      <4>1. Len(Append(sendQ[held], Current)) # Len(sendQ[held])
        <5>1. sendQ[held] \in Seq(Chunks) /\ Current \in Chunks
          BY <1>1, <3>1 DEF TypeOK, Offers, Current, Chunks, Copy
        <5> QED
          BY <5>1, AppendProperties, LenProperties
      <4> QED
        BY <1>1, <2>1, <3>1, <4>1 DEF Offers, TypeOK
    <3> QED
      BY <3>1
  <2> QED
    BY <1>2, <2>1, <2>2, <2>3 DEF loopVars
<1> QED
  BY <1>3, <1>4, <1>5, <1>6, <1>7 DEF SyncNext, ReceiveStep, syncVars

(* The invariant of the sender and its receivers, with their accounts.     *)
SyncInv == StateInv /\ \A p \in Peers : \A h \in Ids : Accounted(p, h)

(* Nothing has been copied, nothing is spent.                              *)
LEMMA SyncInitInv == SyncInit => SyncInv
<1> SUFFICES ASSUME SyncInit PROVE SyncInv
  OBVIOUS
<1>1. SendInv
  BY InitType DEF SyncInit, Init, SendInv, LoopInv, TableInv, HoleInv, NoHole, CleanInv,
                  CleanMeansQueued
<1>2. /\ copied = <<>> /\ Copy = 0 /\ loop = "select"
      /\ \A c \in Conns : sendQ[c] = <<>> /\ wire[c] = <<>> /\ ready[c] = {}
  BY DEF SyncInit, Init, Copy
<1>3. FrameInv
  <2>1. PICK e \in Seq(Frames) : e = <<>>
    BY EmptySeq
  <2> QED
    BY <2>1 DEF SyncInit, Init, FrameInv
<1>4. \A c \in Conns : \A k : Load(c, k) = 0
  BY <1>2, OccursEmpty DEF Load
<1>5. OnceInv
  BY <1>2, <1>4 DEF OnceInv
<1>6. RecvInv
  <2>1. {c \in Conns : ready[c] # {}} = {}
    BY <1>2
  <2>2. PICK e \in Seq(Ids) : e = <<>>
    BY EmptySeq
  <2>3. Entries(NoTransfers)
    BY DEF Entries, NoTransfers
  <2>4. IsFiniteSet({c \in Conns : ready[c] # {}})
    BY <2>1, FS_EmptySet
  <2> QED
    BY <2>2, <2>3, <2>4 DEF SyncInit, RecvInv
<1>7. ASSUME NEW p \in Peers, NEW h \in Ids PROVE Accounted(p, h)
  <2>1. ReadyConns(p, h) = {} /\ FirstsOut(p, h) = {}
    BY <1>2 DEF ReadyConns, FirstsOut
  <2>2. applied[p] = <<>> /\ inflight[p][h] = NoState /\ ~Coming(p, h)
    BY <1>2 DEF SyncInit, NoTransfers, Coming, Unoffered
  <2>3. Occurs(Sent, h) \in Nat
    BY <1>1, <1>6, AccountTypes DEF SendInv
  <2> QED
    BY <2>1, <2>2, <2>3, OccursEmpty, FS_EmptySet DEF Accounted, Spent, HasFirst, One
<1> QED
  BY <1>1, <1>3, <1>5, <1>6, <1>7 DEF SyncInv, StateInv

(* It is preserved by every step.                                          *)
LEMMA SyncStepInv == ASSUME SyncInv, [SyncNext]_syncVars PROVE SyncInv'
<1>1. StateInv'
  <2>1. SendInv /\ FrameInv /\ OnceInv /\ RecvInv /\ TypeOK
    BY DEF SyncInv, StateInv, SendInv
  <2> QED
    BY <2>1, SendStep, FrameStep, OnceStep, RecvStep DEF StateInv
<1>2. ASSUME NEW p \in Peers, NEW h \in Ids PROVE Accounted(p, h)'
  BY <1>1, AccountStep DEF SyncInv
<1> QED
  BY <1>1, <1>2 DEF SyncInv

(* Frames that travel are chunks of copied payloads, the first chunk of a  *)
(* payload is on its way to a peer at most once, and what a peer has       *)
(* applied, is about to apply, has begun to reassemble or may still begin  *)
(* was copied as often as that: whatever is lost, cut off or sent again.   *)
THEOREM SyncInvariants == SyncSpec => []SyncInv
BY SyncInitInv, SyncStepInv, PTL DEF SyncSpec

-----------------------------------------------------------------------------
(* Delivery is implemented: a payload that is taken is a content copied,   *)
(* ApplyRemote applies a content, everything else stutters, a clipboard    *)
(* write that fails among it.                                              *)

(* Delivery counts as the accounts do.                                     *)
LEMMA TimesIsOccurs == ASSUME NEW h, NEW s PROVE D!Times(h, s) = Occurs(s, h)
<1>1. \A S : D!Cardinality(S) = Cardinality(S)
  BY DEF D!Cardinality, Cardinality
<1> QED
  BY <1>1 DEF D!Times, Occurs, Positions

(* The chunk loop, Broadcast, the connections, handleFrame and a peer's    *)
(* close change neither what was sent nor what was applied; TakeEvent and  *)
(* ApplyRemote do what Delivery's two actions do.                          *)
LEMMA StepDelivers ==
    ASSUME SyncInv, SyncInv', [SyncNext]_syncVars
    PROVE  [D!Next]_(D!vars)
<1>1. TypeOK /\ RecvInv
  BY DEF SyncInv, StateInv, SendInv
<1>2. copied \in Seq(Payloads)
  BY <1>1 DEF TypeOK
<1>3. CASE UNCHANGED <<copied, applied>>
  BY <1>3 DEF Sent, Copy, D!vars
<1>4. ASSUME NEW q \in Payloads, copied' = Append(copied, q), UNCHANGED applied
      PROVE  D!Next
  <2>1. Sent' = Append(Sent, HashOf[q])
    BY <1>2, <1>4, HashesAppend DEF Sent, Copy
  <2>2. HashOf[q] \in Ids
    BY ChunkAssumption
  <2> QED
    BY <1>4, <2>1, <2>2 DEF D!Next, D!CopyContent
<1>5. ASSUME NEW c \in Conns, NEW q \in Payloads, ApplyRemote(c, q)
      PROVE  D!Next
  <2>1. HashOf[q] \in Ids /\ PeerOf[c] \in Peers
    BY ChunkAssumption, NamesAssumption
  <2>2. Occurs(applied[PeerOf[c]], HashOf[q]) < Occurs(Sent, HashOf[q])
    BY <1>5, <2>1, ApplyAccount DEF SyncInv
  <2>3. Sent' = Sent /\ applied' = [applied EXCEPT ![PeerOf[c]] = Append(@, HashOf[q])]
    BY <1>5 DEF ApplyRemote, vars, loopVars, Sent, Copy
  <2>4. D!Times(HashOf[q], applied[PeerOf[c]]) < D!Times(HashOf[q], Sent)
    BY <2>2, TimesIsOccurs
  <2> QED
    BY <2>1, <2>3, <2>4 DEF D!Next, D!ApplyContent
<1>6. ASSUME NEW c \in Conns,
             handleFrame(c) \/ PeerCloses(c) \/ \E q \in Payloads : ApplyFails(c, q)
      PROVE  UNCHANGED <<copied, applied>>
  BY <1>6 DEF handleFrame, PeerCloses, ApplyFails, vars, loopVars
<1>7. CASE [Next]_vars /\ UNCHANGED recvVars
  <2>1. UNCHANGED applied
    BY <1>7 DEF recvVars
  <2>2. UNCHANGED copied \/ \E q \in Payloads : copied' = Append(copied, q)
    BY <1>1, <1>7, CopiedStep
  <2> QED
    BY <1>3, <1>4, <2>1, <2>2
<1> QED
  BY <1>3, <1>5, <1>6, <1>7 DEF SyncNext, ReceiveStep, syncVars

(* Chunks, queues, reconnections, hang-ups and the reassembler together    *)
(* implement Delivery: no peer writes a content that was not copied, and   *)
(* none more often than it was copied.                                     *)
THEOREM SyncDelivers == SyncSpec => ImplementsDelivery
<1>1. SyncInit => D!Init
  <2> SUFFICES ASSUME SyncInit PROVE D!Init
    OBVIOUS
  <2>1. Copy = 0 /\ applied = [p \in Peers |-> <<>>]
    BY DEF SyncInit, Init, Copy
  <2>2. 1 .. 0 = {}
    OBVIOUS
  <2>3. Sent = <<>>
    BY <2>1, <2>2 DEF Sent
  <2> QED
    BY <2>1, <2>3 DEF D!Init
<1>2. SyncInv /\ SyncInv' /\ [SyncNext]_syncVars => [D!Next]_(D!vars)
  BY StepDelivers
<1> QED
  BY <1>1, <1>2, SyncInvariants, PTL DEF SyncSpec, ImplementsDelivery, D!Spec

-----------------------------------------------------------------------------
(* The order of what travels.                                              *)

Before(x, y) == x.copy < y.copy \/ (x.copy = y.copy /\ x.seq < y.seq)

Rising(s) == \A i, j \in 1 .. Len(s) : i < j => Before(s[i], s[j])
Items(s) == {s[i] : i \in 1 .. Len(s)}

(* What queues and sockets do to the frames in a sequence.                 *)
LEMMA ItemsFacts ==
    ASSUME NEW S, NEW s \in Seq(S)
    PROVE  /\ Items(s) \subseteq S
           /\ \A e \in S : Items(Append(s, e)) = Items(s) \cup {e}
           /\ s # <<>> => Head(s) \in S /\ Items(s) = {Head(s)} \cup Items(Tail(s))
<1>1. /\ Len(s) \in Nat /\ \A i \in 1 .. Len(s) : s[i] \in S
      /\ \A e \in S : /\ Len(Append(s, e)) = Len(s) + 1 /\ Append(s, e)[Len(s) + 1] = e
                      /\ \A i \in 1 .. Len(s) : Append(s, e)[i] = s[i]
  BY LenProperties, ElementOfSeq, AppendProperties
<1>2. ASSUME NEW e \in S PROVE Items(Append(s, e)) = Items(s) \cup {e}
  <2>1. 1 .. Len(s) + 1 = (1 .. Len(s)) \cup {Len(s) + 1}
    BY <1>1
  <2> QED
    BY <1>1, <2>1 DEF Items
<1>3. ASSUME s # <<>> PROVE Head(s) \in S /\ Items(s) = {Head(s)} \cup Items(Tail(s))
  <2>1. /\ Len(s) > 0 /\ Head(s) = s[1] /\ Len(Tail(s)) = Len(s) - 1
        /\ \A i \in 1 .. Len(s) - 1 : Tail(s)[i] = s[i + 1]
    BY <1>1, <1>3, EmptySeq, HeadTailProperties, LenProperties
  <2>2. \A x \in Items(s) : x \in {Head(s)} \cup Items(Tail(s))
    <3> SUFFICES ASSUME NEW i \in 1 .. Len(s), i # 1 PROVE s[i] \in Items(Tail(s))
      BY <2>1 DEF Items
    <3>1. i - 1 \in 1 .. Len(s) - 1 /\ (i - 1) + 1 = i
      BY <1>1
    <3>2. Tail(s)[i - 1] = s[i]
      BY <2>1, <3>1
    <3> QED
      BY <2>1, <3>1, <3>2 DEF Items
  <2>3. \A x \in Items(Tail(s)) : x \in Items(s)
    <3> SUFFICES ASSUME NEW i \in 1 .. Len(s) - 1 PROVE Tail(s)[i] \in Items(s)
      BY <2>1 DEF Items
    <3>1. i + 1 \in 1 .. Len(s)
      BY <1>1
    <3> QED
      BY <2>1, <3>1 DEF Items
  <2>4. Head(s) \in Items(s) /\ Head(s) \in S
    <3>1. 1 \in 1 .. Len(s)
      BY <1>1, <2>1
    <3> QED
      BY <1>1, <2>1, <3>1 DEF Items
  <2> QED
    BY <2>2, <2>3, <2>4
<1> QED
  BY <1>1, <1>2, <1>3 DEF Items

(* A queue in rising order stays so when later frames are appended and its *)
(* head, which precedes the rest, is taken.                                *)
LEMMA RisingFacts ==
    ASSUME NEW S, NEW s \in Seq(S), Rising(s)
    PROVE  /\ \A e \in S : (\A x \in Items(s) : Before(x, e)) => Rising(Append(s, e))
           /\ s # <<>> => Rising(Tail(s)) /\ \A x \in Items(Tail(s)) : Before(Head(s), x)
<1>1. Len(s) \in Nat
  BY LenProperties
<1>2. ASSUME NEW e \in S, \A x \in Items(s) : Before(x, e) PROVE Rising(Append(s, e))
  <2>1. /\ Len(Append(s, e)) = Len(s) + 1 /\ Append(s, e)[Len(s) + 1] = e
        /\ \A i \in 1 .. Len(s) : Append(s, e)[i] = s[i]
    BY AppendProperties
  <2>2. \A i \in 1 .. Len(s) : Before(s[i], e)
    BY <1>2 DEF Items
  <2>3. ASSUME NEW i \in 1 .. Len(s) + 1, NEW j \in 1 .. Len(s) + 1, i < j
        PROVE  Before(Append(s, e)[i], Append(s, e)[j])
    <3>1. CASE j = Len(s) + 1
      <4>1. i \in 1 .. Len(s)
        BY <1>1, <2>3, <3>1
      <4> QED
        BY <2>1, <2>2, <3>1, <4>1
    <3>2. CASE j # Len(s) + 1
      <4>1. i \in 1 .. Len(s) /\ j \in 1 .. Len(s)
        BY <1>1, <2>3, <3>2
      <4>2. Before(s[i], s[j])
        BY <2>3, <4>1 DEF Rising
      <4> QED
        BY <2>1, <4>1, <4>2
    <3> QED
      BY <3>1, <3>2
  <2> QED
    BY <2>1, <2>3 DEF Rising
<1>3. ASSUME s # <<>>
      PROVE  Rising(Tail(s)) /\ \A x \in Items(Tail(s)) : Before(Head(s), x)
  <2>1. /\ Len(s) > 0 /\ Head(s) = s[1] /\ Len(Tail(s)) = Len(s) - 1
        /\ \A i \in 1 .. Len(s) - 1 : Tail(s)[i] = s[i + 1]
    BY <1>1, <1>3, EmptySeq, HeadTailProperties, LenProperties
  <2>2. \A i \in 1 .. Len(s) - 1 : i + 1 \in 1 .. Len(s) /\ 1 < i + 1 /\ 1 \in 1 .. Len(s)
    BY <1>1
  <2>3. \A i \in 1 .. Len(s) - 1 : Before(s[1], s[i + 1])
    BY <2>2 DEF Rising
  <2>4. \A i, j \in 1 .. Len(s) - 1 : i < j => Before(s[i + 1], s[j + 1])
    <3> SUFFICES ASSUME NEW i \in 1 .. Len(s) - 1, NEW j \in 1 .. Len(s) - 1, i < j
                 PROVE  Before(s[i + 1], s[j + 1])
      OBVIOUS
    <3>1. i + 1 < j + 1
      BY <1>1
    <3> QED
      BY <2>2, <3>1 DEF Rising
  <2> QED
    BY <2>1, <2>3, <2>4 DEF Rising, Items
<1> QED
  BY <1>2, <1>3

(* An empty queue carries nothing, in order.                               *)
LEMMA NoItems == Items(<<>>) = {} /\ Rising(<<>>)
BY DEF Items, Rising

(* What is on its way over c.                                              *)
Carried(c) == Items(wire[c]) \cup Items(sendQ[c])

(* p is still to be offered the current chunk.                             *)
Due(p) == loop = "frame" /\ (p \in todo \/ (held # NoConn /\ PeerOf[held] = p))

(* A connection carries frames in the order of payloads and chunks, and    *)
(* all of them come before a chunk it may still be offered.                *)
LineInv ==
    \A c \in Conns :
        /\ Rising(wire[c]) /\ Rising(sendQ[c])
        /\ \A x \in Items(wire[c]) : \A y \in Items(sendQ[c]) : Before(x, y)
        /\ \A x \in Carried(c) : /\ Due(PeerOf[c]) => Before(x, Current)
                                 /\ loop = "frame" => x.copy < Copy \/ x.seq <= seq

(* The queues change in one of five ways, and only an offer or a step of   *)
(* the loop itself leaves the loop's variables changed.                    *)
LEMMA QueueMoves ==
    ASSUME SendInv, [SyncNext]_syncVars
    PROVE  UNCHANGED <<sendQ, wire>> \/ Offers \/ \E c \in Conns : Writes(c) \/ Loses(c) \/ Reads(c)
<1>1. TypeOK /\ LoopInv
  BY DEF SendInv
<1>2. CASE [Next]_vars
  BY <1>1, <1>2, SenderQueues
<1>3. ASSUME NEW c \in Conns, ReceiveStep(c) \/ PeerCloses(c)
      PROVE  UNCHANGED <<sendQ, wire>> \/ Reads(c) \/ Loses(c)
  BY <1>1, <1>3, ReceiverQueues
<1> QED
  BY <1>2, <1>3 DEF SyncNext, syncVars

(* What these ways do to what a connection carries.                        *)
LEMMA CarriedStep ==
    ASSUME TypeOK, NEW c \in Conns
    PROVE  /\ UNCHANGED <<sendQ, wire>> => Carried(c)' = Carried(c)
           /\ Offers => Carried(c)' = Carried(c) \cup (IF c = held THEN {Current} ELSE {})
           /\ \A d \in Conns : Writes(d) \/ Loses(d) \/ Reads(d) => Carried(c)' \subseteq Carried(c)
<1>1. sendQ[c] \in Seq(Chunks) /\ wire[c] \in Seq(Chunks)
  BY DEF TypeOK
<1>2. ASSUME Offers PROVE Carried(c)' = Carried(c) \cup (IF c = held THEN {Current} ELSE {})
  <2>1. wire'[c] = wire[c] /\ sendQ'[c] = IF c = held THEN Append(sendQ[c], Current) ELSE sendQ[c]
    BY <1>2 DEF Offers, TypeOK
  <2>2. Current \in Chunks
    BY LenProperties DEF Current, Chunks, TypeOK, Copy
  <2> QED
    BY <1>1, <2>1, <2>2, ItemsFacts DEF Carried
<1>3. ASSUME NEW d \in Conns, Writes(d) PROVE Carried(c)' \subseteq Carried(c)
  <2>1. CASE c = d
    <3>1. /\ sendQ[c] # <<>> /\ sendQ'[c] = Tail(sendQ[c])
          /\ wire'[c] = Append(wire[c], Head(sendQ[c]))
      BY <1>3, <2>1 DEF Writes, TypeOK
    <3> QED
      BY <1>1, <3>1, ItemsFacts DEF Carried
  <2>2. CASE c # d
    BY <1>3, <2>2 DEF Writes, TypeOK, Carried
  <2> QED
    BY <2>1, <2>2
<1>4. ASSUME NEW d \in Conns, Loses(d) PROVE Carried(c)' \subseteq Carried(c)
  <2>1. \/ sendQ'[c] = <<>> /\ wire'[c] = wire[c]
        \/ wire'[c] = <<>> /\ sendQ'[c] = sendQ[c]
        \/ sendQ'[c] = sendQ[c] /\ wire'[c] = wire[c]
    BY <1>4, Zenon DEF Loses, TypeOK
  <2> QED
    BY <2>1, NoItems DEF Carried
<1>5. ASSUME NEW d \in Conns, Reads(d) PROVE Carried(c)' \subseteq Carried(c)
  <2>1. CASE c = d
    <3>1. wire[c] # <<>> /\ sendQ'[c] = sendQ[c] /\ wire'[c] = Tail(wire[c])
      BY <1>5, <2>1 DEF Reads, TypeOK
    <3> QED
      BY <1>1, <3>1, ItemsFacts DEF Carried
  <2>2. CASE c # d
    BY <1>5, <2>2 DEF Reads, TypeOK, Carried
  <2> QED
    BY <2>1, <2>2
<1>6. UNCHANGED <<sendQ, wire>> => Carried(c)' = Carried(c)
  BY DEF Carried
<1> QED
  BY <1>2, <1>3, <1>4, <1>5, <1>6

(* The loop stays at its chunk, goes on to the next one of the payload or  *)
(* begins a payload; and a peer that has been offered a chunk is not due.  *)
LEMMA LoopMoves ==
    ASSUME SendInv, [SyncNext]_syncVars
    PROVE  /\ loop' = "frame" =>
                 \/ /\ loop = "frame" /\ UNCHANGED <<copied, seq>>
                    /\ \A p \in Peers : Due(p)' => Due(p)
                 \/ loop = "frame" /\ UNCHANGED <<copied, sendQ, wire>> /\ seq' = seq + 1
                 \/ UNCHANGED <<sendQ, wire>> /\ \E q \in Payloads : copied' = Append(copied, q)
           /\ \A p \in Peers : Offers /\ PeerOf[held] = p => Due(p) /\ ~Due(p)'
<1>1. TypeOK /\ LoopInv /\ TableInv
  BY DEF SendInv
<1>2. ASSUME NEW p \in Peers, Offers, PeerOf[held] = p PROVE Due(p) /\ ~Due(p)'
  BY <1>1, <1>2, NamesAssumption DEF Offers, Due, LoopInv
<1>3. ASSUME NEW q \in Payloads, TakeEvent(q)
      PROVE  UNCHANGED <<sendQ, wire>> /\ copied' = Append(copied, q)
  BY <1>3 DEF TakeEvent, connVars
<1>4. ASSUME FrameDone, loop' = "frame"
      PROVE  loop = "frame" /\ UNCHANGED <<copied, sendQ, wire>> /\ seq' = seq + 1
  BY <1>4 DEF FrameDone, StartFrame, connVars
<1>5. ASSUME loop' = "frame", NEW x \in Peers, Visit(x)
      PROVE  loop = "frame" /\ UNCHANGED <<copied, seq>> /\ \A p \in Peers : Due(p)' => Due(p)
  BY <1>1, <1>5 DEF Visit, Due, TableInv
<1>6. ASSUME loop' = "frame",
             \/ LoopExit \/ Enqueue \/ Cancel \/ UNCHANGED vars
             \/ \E x \in Others : VisitOther(x)
             \/ \E c \in Conns : \/ Attach(c) \/ Break(c) \/ Detach(c) \/ Close(c) \/ Write(c)
                                \/ ReceiveStep(c) \/ PeerCloses(c)
      PROVE  loop = "frame" /\ UNCHANGED <<copied, seq>> /\ \A p \in Peers : Due(p)' => Due(p)
  <2>1. /\ UNCHANGED <<seq, copied>> /\ todo' \subseteq todo
        /\ loop' = "frame" => loop = "frame"
        /\ held' # NoConn => held' = held
    BY <1>1, <1>6, ReceiverLeaves DEF LoopExit, Enqueue, Cancel, vars, loopVars,
       VisitOther, Attach, Break, Detach, Close, Write
  <2> QED
    BY <1>6, <2>1 DEF Due
<1> QED
  BY <1>2, <1>3, <1>4, <1>5, <1>6 DEF SyncNext, syncVars, Next, LoopStep, CloseStep

(* Every step keeps the frames of a connection in order.                   *)
LEMMA LineStep ==
    ASSUME SendInv, FrameInv, FrameInv', LineInv, [SyncNext]_syncVars
    PROVE  LineInv'
<1> USE NamesAssumption
<1>1. TypeOK /\ LoopInv
  BY DEF SendInv
<1>2. Copy \in Nat /\ seq \in Nat
  BY <1>1, LenProperties DEF TypeOK, Copy
<1>3. \A c \in Conns : \A x \in Carried(c) : x.copy \in 1 .. Copy /\ x.seq \in Nat
  <2>1. \A c \in Conns : Carried(c) \subseteq Frames
    BY ItemsFacts DEF FrameInv, Carried
  <2> QED
    BY <2>1 DEF Frames, Chunks
<1>4. ASSUME NEW c \in Conns, NEW x \in Carried(c)
      PROVE  /\ Due(PeerOf[c])' => Before(x, Current')
             /\ loop' = "frame" => x.copy < Copy' \/ x.seq <= seq'
  <2>1. /\ Due(PeerOf[c]) => Before(x, Current)
        /\ loop = "frame" => x.copy < Copy \/ x.seq <= seq
    BY <1>4 DEF LineInv
  <2>2. x.copy \in 1 .. Copy /\ x.seq \in Nat
    BY <1>3, <1>4
  <2>3. CASE loop' # "frame"
    BY <2>3 DEF Due
  <2>4. CASE /\ loop = "frame" /\ UNCHANGED <<copied, seq>>
             /\ \A p \in Peers : Due(p)' => Due(p)
    BY <2>1, <2>4 DEF Current, Copy
  <2>5. CASE loop = "frame" /\ UNCHANGED copied /\ seq' = seq + 1
    <3>1. Copy' = Copy
      BY <2>5 DEF Copy
    <3> QED
      BY <1>2, <2>1, <2>2, <2>5, <3>1 DEF Current, Before
  <2>6. ASSUME NEW q \in Payloads, copied' = Append(copied, q)
        PROVE  /\ Due(PeerOf[c])' => Before(x, Current')
               /\ loop' = "frame" => x.copy < Copy' \/ x.seq <= seq'
    <3>1. Copy' = Copy + 1
      <4>1. copied \in Seq(Payloads)
        BY <1>1 DEF TypeOK
      <4> QED
        BY <2>6, <4>1, AppendProperties DEF Copy
    <3> QED
      BY <1>2, <2>2, <3>1 DEF Current, Before
  <2> QED
    BY <2>3, <2>4, <2>5, <2>6, LoopMoves
<1>5. ASSUME NEW c \in Conns, NEW x \in Carried(c)', x \notin Carried(c)
      PROVE  Offers /\ c = held /\ x = Current
  BY <1>1, <1>5, CarriedStep, QueueMoves
<1>6. ASSUME NEW c \in Conns, NEW x \in Carried(c)'
      PROVE  /\ Due(PeerOf[c])' => Before(x, Current')
             /\ loop' = "frame" => x.copy < Copy' \/ x.seq <= seq'
  <2>1. CASE x \in Carried(c)
    BY <1>4, <2>1
  <2>2. CASE x \notin Carried(c)
    <3>1. Offers /\ c = held /\ x = Current
      BY <1>5, <1>6, <2>2
    <3>2. ~Due(PeerOf[c])'
      BY <3>1, LoopMoves
    <3> QED
      BY <1>2, <3>1, <3>2 DEF Offers, Current
  <2> QED
    BY <2>1, <2>2
<1>7. ASSUME NEW c \in Conns
      PROVE  /\ Rising(wire'[c]) /\ Rising(sendQ'[c])
             /\ \A x \in Items(wire'[c]) : \A y \in Items(sendQ'[c]) : Before(x, y)
  <2>0. /\ Rising(wire[c]) /\ Rising(sendQ[c])
        /\ wire[c] \in Seq(Chunks) /\ sendQ[c] \in Seq(Chunks)
        /\ \A x \in Items(wire[c]) : \A y \in Items(sendQ[c]) : Before(x, y)
    BY <1>1 DEF LineInv, TypeOK
  <2>1. CASE wire'[c] = wire[c] /\ sendQ'[c] = sendQ[c]
    BY <2>0, <2>1
  <2>2. CASE Offers /\ c = held
    <3>1. Current \in Chunks /\ \A x \in Carried(c) : Before(x, Current)
      <4>1. Due(PeerOf[c])
        BY <2>2, LoopMoves
      <4> QED
        BY <1>2, <4>1 DEF LineInv, Current, Chunks
    <3>2. wire'[c] = wire[c] /\ sendQ'[c] = Append(sendQ[c], Current)
      BY <1>1, <2>2 DEF Offers, TypeOK
    <3>3. Rising(Append(sendQ[c], Current)) /\ Items(Append(sendQ[c], Current)) = Items(sendQ[c]) \cup {Current}
      BY <2>0, <3>1, RisingFacts, ItemsFacts DEF Carried
    <3> QED
      BY <2>0, <3>1, <3>2, <3>3 DEF Carried
  <2>3. CASE Writes(c)
    <3>1. sendQ[c] # <<>> /\ sendQ'[c] = Tail(sendQ[c]) /\ wire'[c] = Append(wire[c], Head(sendQ[c]))
      BY <1>1, <2>3 DEF Writes, TypeOK
    <3>2. /\ Head(sendQ[c]) \in Chunks /\ Items(sendQ[c]) = {Head(sendQ[c])} \cup Items(Tail(sendQ[c]))
          /\ Rising(Tail(sendQ[c])) /\ \A y \in Items(Tail(sendQ[c])) : Before(Head(sendQ[c]), y)
      BY <2>0, <3>1, ItemsFacts, RisingFacts
    <3>3. /\ Rising(Append(wire[c], Head(sendQ[c])))
          /\ Items(Append(wire[c], Head(sendQ[c]))) = Items(wire[c]) \cup {Head(sendQ[c])}
      BY <2>0, <3>2, ItemsFacts, RisingFacts
    <3> QED
      BY <2>0, <3>1, <3>2, <3>3
  <2>4. CASE Reads(c)
    <3>1. wire[c] # <<>> /\ wire'[c] = Tail(wire[c]) /\ sendQ'[c] = sendQ[c]
      BY <1>1, <2>4 DEF Reads, TypeOK
    <3>2. Rising(Tail(wire[c])) /\ Items(wire[c]) = {Head(wire[c])} \cup Items(Tail(wire[c]))
      BY <2>0, <3>1, ItemsFacts, RisingFacts
    <3> QED
      BY <2>0, <3>1, <3>2
  <2>5. CASE Loses(c)
    <3>1. \/ sendQ'[c] = <<>> /\ wire'[c] = wire[c]
          \/ wire'[c] = <<>> /\ sendQ'[c] = sendQ[c]
      BY <1>1, <2>5, Zenon DEF Loses, TypeOK
    <3> QED
      BY <2>0, <3>1, NoItems
  <2>6. \/ wire'[c] = wire[c] /\ sendQ'[c] = sendQ[c]
        \/ Offers /\ c = held
        \/ Writes(c) \/ Reads(c) \/ Loses(c)
    <3>1. ASSUME NEW d \in Conns, d # c, Writes(d) \/ Reads(d) \/ Loses(d)
          PROVE  wire'[c] = wire[c] /\ sendQ'[c] = sendQ[c]
      BY <1>1, <3>1 DEF Writes, Reads, Loses, TypeOK
    <3>2. Offers /\ c # held => wire'[c] = wire[c] /\ sendQ'[c] = sendQ[c]
      BY <1>1 DEF Offers, TypeOK
    <3> QED
      BY <3>1, <3>2, QueueMoves
  <2> QED
    BY <2>1, <2>2, <2>3, <2>4, <2>5, <2>6
<1> QED
  BY <1>6, <1>7 DEF LineInv, Carried

-----------------------------------------------------------------------------
(* A connection before its attachment, a peer before its first one.        *)

Unused(p) == \A c \in Conns : PeerOf[c] = p => life[c] = "new"

(* A connection that is not attached carries nothing, and a peer without   *)
(* connections has received nothing.                                       *)
NewInv ==
    /\ \A c \in Conns : life[c] = "new" => sendQ[c] = <<>> /\ wire[c] = <<>> /\ ready[c] = {}
    /\ \A p \in Peers : Unused(p) =>
          applied[p] = <<>> /\ \A h \in Ids : ~HasFirst(inflight[p][h])

(* A connection is new until Attach, and an attached one never again.      *)
LEMMA LifeStep ==
    ASSUME TypeOK, NEW c \in Conns, [SyncNext]_syncVars
    PROVE  /\ life'[c] = "new" => life[c] = "new"
           /\ life[c] = "new" /\ life'[c] # "new" =>
                 /\ UNCHANGED <<copied, loop, seq, todo, held, sendQ, wire, recvVars>>
<1>1. ASSUME NEW d \in Conns, Attach(d), UNCHANGED recvVars
      PROVE  /\ life'[c] = "new" => life[c] = "new"
             /\ UNCHANGED <<copied, loop, seq, todo, held, sendQ, wire, recvVars>>
  BY <1>1 DEF Attach, TypeOK, loopVars
<1>2. ASSUME NEW d \in Conns, \/ Break(d) \/ Close(d) \/ ReceiveStep(d) \/ PeerCloses(d)
      PROVE  life'[c] = "new" <=> life[c] = "new"
  <2>1. CASE Break(d)
    BY <2>1 DEF Break, TypeOK
  <2>2. CASE Close(d)
    BY <2>2 DEF Close, CloseDue, TypeOK
  <2>3. CASE ReceiveStep(d) \/ PeerCloses(d)
    BY <2>3, ReceiverLeaves DEF TypeOK
  <2> QED
    BY <1>2, <2>1, <2>2, <2>3
<1>3. CASE \/ LoopStep \/ LoopExit \/ Cancel \/ UNCHANGED vars
           \/ \E q \in Payloads : TakeEvent(q)
           \/ \E d \in Conns : Detach(d) \/ Write(d)
  <2>1. UNCHANGED life
    BY <1>3 DEF LoopStep, LoopExit, FrameDone, Enqueue, Cancel, vars, connVars, Visit,
       VisitOther, TakeEvent, Detach, Write
  <2> QED
    BY <2>1
<1> QED
  BY <1>1, <1>2, <1>3 DEF SyncNext, syncVars, Next, CloseStep

(* Nothing is put on a connection before it is attached.                   *)
LEMMA NewStep ==
    ASSUME SendInv, FrameInv, RecvInv, NewInv, [SyncNext]_syncVars
    PROVE  NewInv'
<1> USE NamesAssumption
<1>1. TypeOK /\ LoopInv
  BY DEF SendInv
<1>2. ASSUME NEW c \in Conns, life'[c] = "new"
      PROVE  sendQ'[c] = <<>> /\ wire'[c] = <<>> /\ ready'[c] = {}
  <2>1. life[c] = "new" /\ sendQ[c] = <<>> /\ wire[c] = <<>> /\ ready[c] = {}
    BY <1>1, <1>2, LifeStep DEF NewInv
  <2>2. sendQ'[c] = <<>> /\ wire'[c] = <<>>
    <3>1. Offers => held # c
      BY <1>1, <2>1 DEF Offers, LoopInv
    <3>2. Offers => sendQ'[c] = <<>> /\ wire'[c] = <<>>
      BY <1>1, <2>1, <3>1 DEF Offers, TypeOK
    <3>3. ASSUME NEW d \in Conns, Writes(d) \/ Reads(d) \/ Loses(d)
          PROVE  sendQ'[c] = <<>> /\ wire'[c] = <<>>
      BY <1>1, <2>1, <3>3 DEF Writes, Reads, Loses, TypeOK
    <3> QED
      BY <2>1, <3>2, <3>3, QueueMoves
  <2>3. ready'[c] = {}
    <3>1. CASE UNCHANGED recvVars
      BY <2>1, <3>1 DEF recvVars
    <3>2. ASSUME NEW d \in Conns, handleFrame(d) PROVE ready'[c] = {}
      <4>1. d # c
        BY <2>1, <3>2 DEF handleFrame
      <4> QED
        BY <2>1, <3>2, <4>1 DEF handleFrame, RecvInv
    <3>3. ASSUME NEW d \in Conns,
                 PeerCloses(d) \/ \E q \in Payloads : ApplyRemote(d, q) \/ ApplyFails(d, q)
          PROVE  ready'[c] = {}
      <4>1. ready \in [Conns -> SUBSET Payloads] /\ ready[c] = {}
        BY <2>1 DEF RecvInv
      <4>2. \E t \in SUBSET ready[d] : ready' = [ready EXCEPT ![d] = t]
        BY <3>3, <4>1 DEF PeerCloses, ApplyRemote, ApplyFails, ApplyDone
      <4> QED
        BY <4>1, <4>2
    <3> QED
      BY <3>1, <3>2, <3>3 DEF SyncNext, ReceiveStep, syncVars
  <2> QED
    BY <2>2, <2>3
<1>3. ASSUME NEW p \in Peers, Unused(p)'
      PROVE  applied'[p] = <<>> /\ \A h \in Ids : ~HasFirst(inflight'[p][h])
  <2>1. Unused(p)
    BY <1>1, <1>3, LifeStep DEF Unused
  <2>2. applied[p] = <<>> /\ \A h \in Ids : ~HasFirst(inflight[p][h])
    BY <2>1 DEF NewInv
  <2>3. \A c \in Conns : PeerOf[c] = p => wire[c] = <<>> /\ ready[c] = {}
    BY <2>1 DEF NewInv, Unused
  <2>4. applied'[p] = applied[p] /\ inflight'[p] = inflight[p]
    <3>1. CASE UNCHANGED recvVars
      BY <3>1 DEF recvVars
    <3>2. ASSUME NEW d \in Conns, handleFrame(d) PROVE applied'[p] = applied[p] /\ inflight'[p] = inflight[p]
      <4>1. PeerOf[d] # p
        BY <2>3, <3>2 DEF handleFrame
      <4> QED
        BY <1>1, <3>2, <4>1, HandleFacts
    <3>3. ASSUME NEW d \in Conns, NEW q \in Payloads, ApplyRemote(d, q)
          PROVE  applied'[p] = applied[p] /\ inflight'[p] = inflight[p]
      <4>1. PeerOf[d] # p
        BY <2>3, <3>3 DEF ApplyRemote
      <4> QED
        BY <3>3, <4>1 DEF ApplyRemote, RecvInv
    <3>4. ASSUME NEW d \in Conns, PeerCloses(d) \/ \E q \in Payloads : ApplyFails(d, q)
          PROVE  applied'[p] = applied[p] /\ inflight'[p] = inflight[p]
      BY <3>4 DEF PeerCloses, ApplyFails
    <3> QED
      BY <3>1, <3>2, <3>3, <3>4 DEF SyncNext, ReceiveStep, syncVars
  <2> QED
    BY <2>2, <2>4
<1> QED
  BY <1>2, <1>3 DEF NewInv, Unused

-----------------------------------------------------------------------------
(* What a peer with one connection has applied.                            *)

(* f places what c's peer has applied among the copied payloads, in order  *)
(* and not beyond the b-th, which is the one whose transfer was completed  *)
(* last; its payload may still wait for ApplyRemote.                       *)
Placement(c, b, f) ==
    /\ \A i \in DOMAIN f : f[i] <= b /\ HashOf[copied[f[i]]] = applied[PeerOf[c]][i]
    /\ \A i, j \in DOMAIN f : i < j => f[i] < f[j]
    /\ \A q \in ready[c] : /\ b > 0 /\ HashOf[q] = HashOf[copied[b]]
                           /\ \A i \in DOMAIN f : f[i] < b

(* No transfer can be completed with what c still carries of the first b   *)
(* payloads: of the b-th it carries no first chunk, nor is it in the       *)
(* reassembler while other chunks of it are on their way.                  *)
Ahead(c, b) ==
    LET p == PeerOf[c] IN
    /\ \A x \in Carried(c) : x.copy > b \/ (x.copy = b /\ x.seq > 1)
    /\ Due(p) /\ seq = 1 => b < Copy
    /\ b > 0 /\ HasFirst(inflight[p][HashOf[copied[b]]])
          => b < Copy /\ \A x \in Carried(c) : x.copy > b

Placements(c) == [1 .. Len(applied[PeerOf[c]]) -> 1 .. Copy]

OrderInv ==
    \A c \in Conns : life[c] # "new" /\ Only(c) =>
        \E b \in 0 .. Copy : \E f \in Placements(c) : Placement(c, b, f) /\ Ahead(c, b)

(* Payloads and frames have numbers.                                       *)
LEMMA CarriedType ==
    ASSUME TypeOK, FrameInv, NEW c \in Conns
    PROVE  /\ Copy \in Nat /\ seq \in Nat
           /\ \A x \in Carried(c) : x \in Frames /\ x.copy \in 1 .. Copy /\ x.seq \in Nat
<1>1. Copy \in Nat /\ seq \in Nat
  BY LenProperties DEF TypeOK, Copy
<1>2. Carried(c) \subseteq Frames
  BY ItemsFacts DEF FrameInv, Carried
<1> QED
  BY <1>1, <1>2 DEF Frames, Chunks

(* The placement stays while nothing is completed or applied.              *)
LEMMA PlacementStays ==
    ASSUME TypeOK, RecvInv, NEW c \in Conns, NEW b \in 0 .. Copy, NEW f \in Placements(c),
           Placement(c, b, f),
           UNCHANGED copied \/ \E q \in Payloads : copied' = Append(copied, q),
           applied'[PeerOf[c]] = applied[PeerOf[c]], ready'[c] \subseteq ready[c]
    PROVE  b \in 0 .. Copy' /\ f \in Placements(c)' /\ Placement(c, b, f)'
<1>1. Copy \in Nat /\ Copy' \in Nat /\ Copy' >= Copy /\ \A k \in 1 .. Copy : copied'[k] = copied[k]
  BY FramesGrow
<1>2. DOMAIN f = 1 .. Len(applied[PeerOf[c]]) /\ \A i \in DOMAIN f : f[i] \in 1 .. Copy
  BY DEF Placements
<1>3. b \in 0 .. Copy' /\ 1 .. Copy \subseteq 1 .. Copy'
  BY <1>1
<1>4. f \in Placements(c)'
  BY <1>3 DEF Placements
<1>5. \A i \in DOMAIN f : HashOf[copied'[f[i]]] = HashOf[copied[f[i]]]
  BY <1>1, <1>2
<1>6. b > 0 => copied'[b] = copied[b]
  <2>1. b > 0 => b \in 1 .. Copy
    BY <1>1
  <2> QED
    BY <1>1, <2>1
<1> QED
  BY <1>3, <1>4, <1>5, <1>6 DEF Placement

(* A step that only takes from c, or offers the current chunk to it, keeps *)
(* it ahead.                                                               *)
LEMMA AheadStays ==
    ASSUME SendInv, FrameInv, FrameInv', TypeOK', NEW c \in Conns, NEW b \in 0 .. Copy, Ahead(c, b),
           [SyncNext]_syncVars, inflight'[PeerOf[c]] = inflight[PeerOf[c]]
    PROVE  Ahead(c, b)'
<1> DEFINE p == PeerOf[c]
<1>1. /\ TypeOK /\ LoopInv /\ Copy \in Nat /\ seq \in Nat /\ p \in Peers
      /\ \A x \in Carried(c) : x.copy \in 1 .. Copy /\ x.seq \in Nat
  BY CarriedType, NamesAssumption DEF SendInv
<1>2. UNCHANGED copied \/ \E q \in Payloads : copied' = Append(copied, q)
  BY <1>1, CopiedStep, ReceiverLeaves DEF SyncNext, syncVars, vars, loopVars
<1>3. Copy' \in Nat /\ Copy' >= Copy /\ \A k \in 1 .. Copy : copied'[k] = copied[k]
  BY <1>1, <1>2, FramesGrow
<1>4. b > 0 => HashOf[copied'[b]] = HashOf[copied[b]]
  <2>1. b > 0 => b \in 1 .. Copy
    BY <1>1
  <2> QED
    BY <1>3, <2>1
<1>5. \A x \in Carried(c)' : x \in Carried(c) \/ (Due(p) /\ x = Current)
  <2>1. Offers /\ c = held => Due(p)
    BY <1>1, LoopMoves
  <2> QED
    BY <1>1, <2>1, CarriedStep, QueueMoves
<1>6. \A x \in Carried(c)' : x.copy > b \/ (x.copy = b /\ x.seq > 1)
  <2>1. ASSUME Due(p) PROVE Copy > b \/ (Copy = b /\ seq > 1)
    BY <1>1, <2>1 DEF Ahead, Due, LoopInv
  <2> QED
    BY <1>5, <2>1 DEF Ahead, Current
<1>7. Due(p)' /\ seq' = 1 => b < Copy'
  <2> SUFFICES ASSUME Due(p)', seq' = 1 PROVE b < Copy'
    OBVIOUS
  <2>1. CASE Due(p) /\ UNCHANGED <<copied, seq>>
    BY <1>1, <1>3, <2>1 DEF Ahead
  <2>2. CASE loop = "frame" /\ seq' = seq + 1
    BY <1>1, <2>2 DEF LoopInv
  <2>3. ASSUME NEW q \in Payloads, copied' = Append(copied, q) PROVE b < Copy'
    <3>1. copied \in Seq(Payloads)
      BY <1>1 DEF TypeOK
    <3>2. Copy' = Copy + 1
      BY <2>3, <3>1, AppendProperties DEF Copy
    <3> QED
      BY <1>1, <3>2
  <2>4. loop' = "frame"
    BY DEF Due
  <2> QED
    BY <1>1, <2>1, <2>2, <2>3, <2>4, LoopMoves
<1>8. ASSUME b > 0, HasFirst(inflight'[p][HashOf[copied'[b]]])
      PROVE  b < Copy' /\ \A x \in Carried(c)' : x.copy > b
  <2>1. HasFirst(inflight[p][HashOf[copied[b]]])
    BY <1>4, <1>8
  <2>2. b < Copy /\ \A x \in Carried(c) : x.copy > b
    BY <1>8, <2>1 DEF Ahead
  <2> QED
    BY <1>1, <1>3, <1>5, <2>2 DEF Current
<1> QED
  BY <1>6, <1>7, <1>8 DEF Ahead

(* A frame that is read from the head of the queue completes a transfer    *)
(* only of a payload after the b-th.                                       *)
LEMMA OrderHandle ==
    ASSUME StateInv, StateInv', LineInv, LineInv', NEW c \in Conns, handleFrame(c),
           NEW b \in 0 .. Copy, NEW f \in Placements(c), Placement(c, b, f), Ahead(c, b)
    PROVE  \E e \in 0 .. Copy' : \E g \in Placements(c)' : Placement(c, e, g)' /\ Ahead(c, e)'
<1> DEFINE p == PeerOf[c]
           x == Head(wire[c])
           h == HashOf[copied[x.copy]]
<1>1. TypeOK /\ LoopInv /\ FrameInv /\ RecvInv /\ TypeOK'
  BY DEF StateInv, SendInv
<1>2. /\ Reads(c) /\ UNCHANGED applied /\ ready[c] = {} /\ x \in Frames /\ h \in Ids /\ p \in Peers
      /\ \A i \in Ids : i # h => inflight'[p][i] = inflight[p][i]
      /\ \/ UNCHANGED ready /\
               (HasFirst(inflight'[p][h]) => HasFirst(inflight[p][h]) \/ x.seq = 1)
         \/ \E q \in Payloads :
               /\ ready' = [ready EXCEPT ![c] = {q}] /\ HashOf[q] = h
               /\ HasFirst(inflight[p][h]) \/ x.seq = 1
               /\ ~HasFirst(inflight'[p][h])
  BY <1>1, HandleFacts
<1>3. /\ UNCHANGED <<copied, loop, seq, todo, held>> /\ Copy' = Copy
      /\ wire[c] # <<>> /\ wire'[c] = Tail(wire[c]) /\ sendQ'[c] = sendQ[c]
  BY <1>1, <1>2 DEF Reads, loopVars, Copy, TypeOK
<1>4. Due(p)' = Due(p) /\ Placements(c)' = Placements(c)
  BY <1>2, <1>3 DEF Due, Placements
<1>5. /\ Copy \in Nat /\ seq \in Nat
      /\ \A y \in Carried(c) : y.copy \in 1 .. Copy /\ y.seq \in Nat
  BY <1>1, CarriedType
<1>6. /\ x \in Carried(c) /\ Carried(c)' \subseteq Carried(c)
      /\ \A y \in Carried(c)' : Before(x, y)
      /\ Due(p) => Before(x, Current)
  <2>1. /\ wire[c] \in Seq(Chunks) /\ Rising(wire[c])
        /\ \A u \in Items(wire[c]) : \A y \in Items(sendQ[c]) : Before(u, y)
        /\ \A u \in Carried(c) : Due(p) => Before(u, Current)
    BY <1>1 DEF TypeOK, LineInv
  <2>2. /\ Items(wire[c]) = {x} \cup Items(Tail(wire[c]))
        /\ \A y \in Items(Tail(wire[c])) : Before(x, y)
    BY <1>3, <2>1, ItemsFacts, RisingFacts
  <2> HIDE DEF x
  <2> QED
    BY <1>3, <2>1, <2>2 DEF Carried
<1>7. x.copy \in 1 .. Copy /\ x.seq \in Nat /\ x.seq > 0
  <2>1. x.seq \in Nat /\ x.copy \in 1 .. Copy
    BY <1>5, <1>6
  <2>2. x.seq \in 1 .. NumChunks[copied[x.copy]]
    BY <1>2 DEF Frames
  <2> QED
    BY <2>1, <2>2
<1>8. b > 0 => HashOf[copied[b]] \in Ids
  <2>1. b > 0 => b \in 1 .. Len(copied)
    BY <1>5 DEF Copy
  <2> QED
    BY <1>1, <2>1, ElementOfSeq, ChunkAssumption DEF TypeOK
<1> HIDE DEF p, x, h
<1>9. CASE UNCHANGED ready /\ (HasFirst(inflight'[p][h]) => HasFirst(inflight[p][h]) \/ x.seq = 1)
  <2>1. Placement(c, b, f)'
    BY <1>2, <1>3, <1>9 DEF Placement
  <2>2. \A y \in Carried(c)' : y.copy > b \/ (y.copy = b /\ y.seq > 1)
    BY <1>6 DEF Ahead
  <2>3. Due(p)' /\ seq' = 1 => b < Copy'
    BY <1>3, <1>4 DEF Ahead, p
  <2>4. ASSUME b > 0, HasFirst(inflight'[p][HashOf[copied[b]]])
        PROVE  b < Copy /\ \A y \in Carried(c)' : y.copy > b
    <3>1. CASE HasFirst(inflight[p][HashOf[copied[b]]])
      BY <1>6, <2>4, <3>1 DEF Ahead, p
    <3>2. CASE ~HasFirst(inflight[p][HashOf[copied[b]]])
      <4>1. HashOf[copied[b]] = h /\ x.seq = 1
        BY <1>2, <1>8, <1>9, <2>4, <3>2
      <4>2. x.copy > b
        BY <1>6, <1>7, <4>1 DEF Ahead
      <4>3. \A y \in Carried(c)' : y.copy >= x.copy /\ y.copy \in 1 .. Copy
        BY <1>5, <1>6, <1>7 DEF Before
      <4> QED
        BY <1>5, <1>7, <4>2, <4>3
    <3> QED
      BY <3>1, <3>2
  <2>5. Ahead(c, b)'
    BY <1>3, <2>2, <2>3, <2>4 DEF Ahead, p
  <2> QED
    BY <1>3, <1>4, <2>1, <2>5
<1>10. ASSUME NEW q \in Payloads, ready' = [ready EXCEPT ![c] = {q}], HashOf[q] = h,
              HasFirst(inflight[p][h]) \/ x.seq = 1, ~HasFirst(inflight'[p][h])
       PROVE  \E e \in 0 .. Copy' : \E g \in Placements(c)' : Placement(c, e, g)' /\ Ahead(c, e)'
  <2>0. PICK k \in 1 .. Copy : k = x.copy /\ h = HashOf[copied[k]]
    BY <1>7 DEF h
  <2>1. k > b
    <3>1. CASE x.copy = b /\ x.seq > 1
      <4>1. HasFirst(inflight[p][HashOf[copied[b]]]) /\ b > 0
        BY <1>7, <1>10, <2>0, <3>1
      <4> QED
        BY <1>6, <2>0, <4>1 DEF Ahead, p
    <3> QED
      BY <1>6, <2>0, <3>1 DEF Ahead
  <2>2. \A i \in DOMAIN f : f[i] <= b /\ f[i] \in 1 .. Copy
    BY DEF Placement, Placements
  <2>3. Placement(c, k, f)'
    <3>1. \A i \in DOMAIN f : f[i] < k /\ f[i] <= k
      BY <1>5, <2>0, <2>1, <2>2
    <3>2. ready'[c] = {q}
      BY <1>1, <1>10 DEF RecvInv
    <3>3. k > 0
      BY <2>0
    <3> QED
      BY <1>2, <1>3, <1>10, <2>0, <2>2, <3>1, <3>2, <3>3 DEF Placement
  <2>4. \A y \in Carried(c)' : y.copy > k \/ (y.copy = k /\ y.seq > 1)
    BY <1>5, <1>6, <1>7, <2>0 DEF Before
  <2>5. Due(p)' /\ seq' = 1 => k < Copy'
    BY <1>3, <1>4, <1>6, <1>7, <2>0 DEF Before, Current
  <2>6. Ahead(c, k)'
    BY <1>3, <1>10, <2>0, <2>4, <2>5 DEF Ahead, p
  <2>7. k \in 0 .. Copy'
    BY <1>3, <1>5, <2>0
  <2> QED
    BY <1>4, <2>3, <2>6, <2>7
<1> QED
  BY <1>2, <1>9, <1>10

(* The payload that is applied is the b-th, after all applied before.      *)
LEMMA OrderApply ==
    ASSUME TypeOK, RecvInv, NEW c \in Conns, NEW q \in Payloads, ApplyRemote(c, q),
           NEW b \in 0 .. Copy, NEW f \in Placements(c), Placement(c, b, f), Ahead(c, b)
    PROVE  \E e \in 0 .. Copy' : \E g \in Placements(c)' : Placement(c, e, g)' /\ Ahead(c, e)'
<1> DEFINE p == PeerOf[c]
<1>1. PICK n \in Nat : /\ n = Len(applied[p]) /\ applied[p] \in Seq(Ids)
                       /\ Copy \in Nat /\ p \in Peers /\ HashOf[q] \in Ids
  BY LenProperties, NamesAssumption, ChunkAssumption DEF TypeOK, RecvInv, Copy
<1>2. /\ q \in ready[c] /\ ready'[c] = {} /\ applied'[p] = Append(applied[p], HashOf[q])
      /\ UNCHANGED <<copied, loop, seq, todo, held, sendQ, wire, inflight>>
  <2>1. q \in ready[c] /\ ready'[c] = ready[c] \ {q}
    BY DEF ApplyRemote, ApplyDone, RecvInv
  <2>2. applied'[p] = Append(applied[p], HashOf[q])
    BY <1>1 DEF ApplyRemote, RecvInv
  <2>3. \A x, y \in ready[c] : x = y
    BY DEF RecvInv
  <2> QED
    BY <2>1, <2>2, <2>3 DEF ApplyRemote, vars, loopVars, connVars
<1>3. /\ Len(applied'[p]) = n + 1 /\ applied'[p][n + 1] = HashOf[q]
      /\ \A i \in 1 .. n : applied'[p][i] = applied[p][i]
  BY <1>1, <1>2, AppendProperties
<1>4. /\ b \in 1 .. Copy /\ HashOf[q] = HashOf[copied[b]] /\ DOMAIN f = 1 .. n
      /\ \A i \in 1 .. n : f[i] \in 1 .. Copy /\ f[i] < b /\ HashOf[copied[f[i]]] = applied[p][i]
      /\ \A i, j \in 1 .. n : i < j => f[i] < f[j]
  <2>1. f \in [1 .. n -> 1 .. Copy]
    BY <1>1 DEF Placements
  <2>2. b > 0 /\ HashOf[q] = HashOf[copied[b]] /\ \A i \in DOMAIN f : f[i] < b
    BY <1>2 DEF Placement
  <2>3. /\ \A i \in DOMAIN f : HashOf[copied[f[i]]] = applied[p][i]
        /\ \A i, j \in DOMAIN f : i < j => f[i] < f[j]
    BY DEF Placement
  <2>4. DOMAIN f = 1 .. n /\ \A i \in 1 .. n : f[i] \in 1 .. Copy
    BY <2>1
  <2>5. b \in 1 .. Copy
    BY <1>1, <2>2
  <2> QED
    BY <2>2, <2>3, <2>4, <2>5
<1>5. PICK g \in [1 .. n + 1 -> 1 .. Copy] : g[n + 1] = b /\ \A i \in 1 .. n : g[i] = f[i]
  <2> DEFINE h == [i \in 1 .. n + 1 |-> IF i <= n THEN f[i] ELSE b]
  <2>1. h \in [1 .. n + 1 -> 1 .. Copy]
    BY <1>1, <1>4
  <2>2. h[n + 1] = b /\ \A i \in 1 .. n : h[i] = f[i]
    BY <1>1
  <2> QED
    BY <2>1, <2>2
<1>6. DOMAIN g = 1 .. n + 1 /\ \A i \in 1 .. n + 1 : i \in 1 .. n \/ i = n + 1
  BY <1>1
<1>7. ASSUME NEW i \in 1 .. n + 1
      PROVE  g[i] <= b /\ HashOf[copied[g[i]]] = applied'[p][i]
  <2>1. CASE i \in 1 .. n
    BY <1>1, <1>3, <1>4, <1>5, <2>1
  <2>2. CASE i = n + 1
    BY <1>1, <1>3, <1>4, <1>5, <2>2
  <2> QED
    BY <1>6, <2>1, <2>2
<1>8. ASSUME NEW i \in 1 .. n + 1, NEW j \in 1 .. n + 1, i < j PROVE g[i] < g[j]
  <2>1. i \in 1 .. n
    BY <1>1, <1>8
  <2>2. CASE j \in 1 .. n
    BY <1>4, <1>5, <1>8, <2>1, <2>2
  <2>3. CASE j = n + 1
    BY <1>4, <1>5, <2>1, <2>3
  <2> QED
    BY <1>6, <2>2, <2>3
<1>9. g \in Placements(c)' /\ b \in 0 .. Copy'
  BY <1>2, <1>3, <1>5 DEF Placements, Copy
<1>10. Placement(c, b, g)'
  <2>1. \A i \in DOMAIN g : g[i] <= b /\ HashOf[copied'[g[i]]] = applied'[p][i]
    BY <1>2, <1>6, <1>7
  <2>2. \A i, j \in DOMAIN g : i < j => g[i] < g[j]
    BY <1>6, <1>8
  <2> QED
    BY <1>2, <2>1, <2>2 DEF Placement
<1>11. Ahead(c, b)'
  BY <1>2 DEF Ahead, Carried, Due, Current, Copy
<1> QED
  BY <1>9, <1>10, <1>11

(* A connection that is attached as its peer's first finds nothing applied.*)
LEMMA OrderAttach ==
    ASSUME SendInv, SendInv', FrameInv', NewInv, RecvInv, NEW c \in Conns, [SyncNext]_syncVars,
           life[c] = "new", life'[c] # "new", Only(c)
    PROVE  \E e \in 0 .. Copy' : \E g \in Placements(c)' : Placement(c, e, g)' /\ Ahead(c, e)'
<1> DEFINE p == PeerOf[c]
<1>1. /\ TypeOK /\ p \in Peers /\ UNCHANGED <<sendQ, wire, recvVars>>
      /\ Copy' \in Nat /\ (loop' = "frame" => copied' # <<>>)
  BY LifeStep, NamesAssumption, LenProperties DEF SendInv, TypeOK, LoopInv, Copy
<1>2. sendQ'[c] = <<>> /\ wire'[c] = <<>> /\ ready'[c] = {} /\ applied'[p] = <<>>
  BY <1>1 DEF NewInv, recvVars, Only, Unused
<1>3. Carried(c)' = {}
  BY <1>2, NoItems DEF Carried
<1>4. PICK g \in [1 .. 0 -> 1 .. Copy'] : DOMAIN g = {}
  <2>1. 1 .. 0 = {}
    OBVIOUS
  <2>2. [i \in {} |-> 1] \in [{} -> 1 .. Copy'] /\ DOMAIN [i \in {} |-> 1] = {}
    OBVIOUS
  <2> QED
    BY <2>1, <2>2
<1>5. g \in Placements(c)'
  <2>1. Len(<<>>) = 0
    BY EmptySeq
  <2> QED
    BY <1>2, <1>4, <2>1 DEF Placements
<1>6. Placement(c, 0, g)'
  BY <1>2, <1>4 DEF Placement
<1>7. Ahead(c, 0)'
  <2>1. Due(p)' => 0 < Copy'
    <3>1. copied' # <<>> => Len(copied') # 0
      BY EmptySeq DEF SendInv, TypeOK
    <3> QED
      BY <1>1, <3>1 DEF Due, Copy
  <2> QED
    BY <1>3, <2>1 DEF Ahead
<1>8. 0 \in 0 .. Copy'
  BY <1>1
<1> QED
  BY <1>5, <1>6, <1>7, <1>8

(* Every step leaves what a peer with one connection has applied in order. *)
LEMMA OrderStep ==
    ASSUME StateInv, StateInv', LineInv, LineInv', NewInv, OrderInv, [SyncNext]_syncVars
    PROVE  OrderInv'
<1>1. /\ SendInv /\ SendInv' /\ TypeOK /\ TypeOK' /\ FrameInv /\ FrameInv' /\ RecvInv
  BY DEF StateInv, SendInv
<1> SUFFICES ASSUME NEW c \in Conns, life'[c] # "new", Only(c)'
             PROVE  \E e \in 0 .. Copy' : \E g \in Placements(c)' : Placement(c, e, g)' /\ Ahead(c, e)'
  BY DEF OrderInv
<1>2. Only(c) /\ PeerOf[c] \in Peers
  BY <1>1, LifeStep, NamesAssumption DEF Only
<1>3. CASE life[c] = "new"
  BY <1>1, <1>2, <1>3, OrderAttach
<1>4. CASE life[c] # "new"
  <2>1. PICK b \in 0 .. Copy : \E f \in Placements(c) : Placement(c, b, f) /\ Ahead(c, b)
    BY <1>2, <1>4 DEF OrderInv
  <2>2. PICK f \in Placements(c) : Placement(c, b, f) /\ Ahead(c, b)
    BY <2>1
  <2>3. \A d \in Conns : PeerOf[d] = PeerOf[c] /\ d # c => wire[d] = <<>> /\ ready[d] = {} /\ life[d] = "new"
    BY <1>2 DEF Only, NewInv
  <2>4. UNCHANGED copied \/ \E q \in Payloads : copied' = Append(copied, q)
    BY <1>1, CopiedStep, ReceiverLeaves DEF SyncNext, syncVars, vars, loopVars
  <2>5. ASSUME applied'[PeerOf[c]] = applied[PeerOf[c]], ready'[c] \subseteq ready[c],
               inflight'[PeerOf[c]] = inflight[PeerOf[c]]
        PROVE  \E e \in 0 .. Copy' : \E g \in Placements(c)' : Placement(c, e, g)' /\ Ahead(c, e)'
    <3>1. b \in 0 .. Copy' /\ f \in Placements(c)' /\ Placement(c, b, f)'
      BY <1>1, <2>2, <2>4, <2>5, PlacementStays
    <3>2. Ahead(c, b)'
      BY <1>1, <2>2, <2>5, AheadStays
    <3> QED
      BY <3>1, <3>2
  <2>6. CASE UNCHANGED recvVars
    BY <2>5, <2>6 DEF recvVars
  <2>7. ASSUME NEW d \in Conns, handleFrame(d)
        PROVE  \E e \in 0 .. Copy' : \E g \in Placements(c)' : Placement(c, e, g)' /\ Ahead(c, e)'
    <3>1. CASE d = c
      BY <2>2, <2>7, <3>1, OrderHandle
    <3>2. CASE d # c
      <4>1. PeerOf[d] # PeerOf[c] /\ PeerOf[d] \in Peers
        BY <2>3, <2>7, <3>2, NamesAssumption DEF handleFrame
      <4>2. applied' = applied /\ ready'[c] = ready[c] /\ inflight'[PeerOf[c]] = inflight[PeerOf[c]]
        BY <1>1, <1>2, <2>7, <3>2, <4>1 DEF handleFrame, RecvInv
      <4> QED
        BY <2>5, <4>2
    <3> QED
      BY <3>1, <3>2
  <2>8. ASSUME NEW d \in Conns, NEW q \in Payloads, ApplyRemote(d, q)
        PROVE  \E e \in 0 .. Copy' : \E g \in Placements(c)' : Placement(c, e, g)' /\ Ahead(c, e)'
    <3>1. CASE d = c
      BY <1>1, <2>2, <2>8, <3>1, OrderApply
    <3>2. CASE d # c
      <4>1. PeerOf[d] # PeerOf[c]
        BY <2>3, <2>8, <3>2 DEF ApplyRemote
      <4>2. /\ applied'[PeerOf[c]] = applied[PeerOf[c]] /\ ready'[c] = ready[c]
            /\ inflight' = inflight
        BY <1>1, <1>2, <2>8, <3>2, <4>1 DEF ApplyRemote, ApplyDone, RecvInv
      <4> QED
        BY <2>5, <4>2
    <3> QED
      BY <3>1, <3>2
  <2>9. ASSUME NEW d \in Conns, PeerCloses(d) \/ \E q \in Payloads : ApplyFails(d, q)
        PROVE  \E e \in 0 .. Copy' : \E g \in Placements(c)' : Placement(c, e, g)' /\ Ahead(c, e)'
    <3>1. applied' = applied /\ ready'[c] \subseteq ready[c] /\ inflight' = inflight
      <4>1. /\ UNCHANGED <<applied, inflight>>
            /\ \E t \in SUBSET ready[d] : ready' = [ready EXCEPT ![d] = t]
        BY <1>1, <2>9 DEF PeerCloses, ApplyFails, ApplyDone, RecvInv
      <4> QED
        BY <1>1, <4>1 DEF RecvInv
    <3> QED
      BY <2>5, <3>1
  <2> QED
    BY <2>6, <2>7, <2>8, <2>9 DEF SyncNext, ReceiveStep, syncVars
<1> QED
  BY <1>3, <1>4

(* The invariant of the order of delivery.                                 *)
DeliveryInv == StateInv /\ LineInv /\ NewInv /\ OrderInv

(* Frames travel in order; and what a peer with one connection has applied *)
(* has a place among the copies, ahead of which lies all that can still be *)
(* completed from what is on its way.                                      *)
THEOREM OrderInvariant == SyncSpec => []DeliveryInv
<1>1. SyncInit => DeliveryInv
  <2> SUFFICES ASSUME SyncInit PROVE DeliveryInv
    OBVIOUS
  <2>1. /\ loop = "select"
        /\ \A c \in Conns : sendQ[c] = <<>> /\ wire[c] = <<>> /\ ready[c] = {} /\ life[c] = "new"
        /\ \A p \in Peers : applied[p] = <<>> /\ \A h \in Ids : inflight[p][h] = NoState
    BY DEF SyncInit, Init, NoTransfers
  <2>2. LineInv
    BY <2>1, NoItems DEF LineInv, Carried
  <2>3. NewInv
    BY <2>1 DEF NewInv, HasFirst
  <2>4. OrderInv
    BY <2>1 DEF OrderInv
  <2> QED
    BY <2>2, <2>3, <2>4, SyncInitInv DEF DeliveryInv, SyncInv
<1>2. DeliveryInv /\ [SyncNext]_syncVars => DeliveryInv'
  <2> SUFFICES ASSUME DeliveryInv, [SyncNext]_syncVars PROVE DeliveryInv'
    OBVIOUS
  <2>1. StateInv /\ SendInv /\ FrameInv /\ RecvInv /\ OnceInv /\ TypeOK
    BY DEF DeliveryInv, StateInv, SendInv
  <2>2. SendInv' /\ FrameInv' /\ OnceInv' /\ RecvInv'
    BY <2>1, SendStep, FrameStep, OnceStep, RecvStep
  <2>3. StateInv'
    BY <2>2 DEF StateInv
  <2>4. LineInv' /\ NewInv'
    BY <2>1, <2>2, LineStep, NewStep DEF DeliveryInv
  <2>5. OrderInv'
    BY <2>1, <2>3, <2>4, OrderStep DEF DeliveryInv
  <2> QED
    BY <2>3, <2>4, <2>5 DEF DeliveryInv
<1> QED
  BY <1>1, <1>2, PTL DEF SyncSpec

(* A peer that has kept one connection applies contents in the order in    *)
(* which they were copied: a leftover of a cut-off transfer is completed   *)
(* by a later copy of the same content, never by what came before.         *)
THEOREM AppliesInOrder == SyncSpec => []AppliedInOrder
<1>1. DeliveryInv => AppliedInOrder
  <2> SUFFICES ASSUME DeliveryInv, NEW c \in Conns, life[c] # "new", Only(c)
               PROVE  Embeds(applied[PeerOf[c]], Sent)
    BY DEF AppliedInOrder
  <2>1. PICK b \in 0 .. Copy : \E f \in Placements(c) : Placement(c, b, f)
    BY DEF DeliveryInv, OrderInv
  <2>2. PICK f \in Placements(c) : Placement(c, b, f)
    BY <2>1
  <2>3. applied[PeerOf[c]] \in Seq(Ids)
    BY NamesAssumption DEF DeliveryInv, StateInv, RecvInv
  <2>4. DOMAIN applied[PeerOf[c]] = 1 .. Len(applied[PeerOf[c]]) /\ DOMAIN Sent = 1 .. Copy
    BY <2>3, LenProperties DEF Sent
  <2>5. \A i \in DOMAIN f : applied[PeerOf[c]][i] = Sent[f[i]]
    BY <2>2 DEF Placement, Placements, Sent
  <2> QED
    BY <2>2, <2>4, <2>5 DEF Embeds, Placement, Placements
<1> QED
  BY <1>1, OrderInvariant, PTL

-----------------------------------------------------------------------------
(* A peer's reassembler.  What ReassemblerProofs shows of Add and          *)
(* ChunkPayload holds of it; the variables of Reassembler play no part.    *)
RP == INSTANCE ReassemblerProofs WITH ChunkSizes <- {ChunkSize}, StrayChunks <- {},
                                      inflight <- 0, result <- 0, seen <- 0

(* All payloads here are valid.                                            *)
LEMMA SameValid == RP!ValidPayloads = Payloads /\ ValidPayloads = Payloads
BY ChunkAssumption DEF RP!ValidPayloads, RP!ValidatePayload, RP!PayloadTypes,
   RP!ImageMIMETypes, ValidPayloads, ValidatePayload, PayloadTypes, ImageMIMETypes

(* The operators are the same in both modules.                             *)
LEMMA SameChunks == ASSUME NEW p, NEW n PROVE RP!ChunkPayload(p, n) = ChunkPayload(p, n)
BY Zenon DEF RP!ChunkPayload, ChunkPayload

LEMMA SameCardinality == ASSUME NEW S PROVE RP!Cardinality(S) = Cardinality(S)
BY Zenon DEF RP!Cardinality, Cardinality

(* So is Add, which both use.                                              *)
LEMMA SameAdd == ASSUME NEW t, NEW c PROVE RP!Add(t, c) = Add(t, c)
<1>1. \A b : RP!FlattenSeq(b) = FlattenSeq(b)
  BY Zenon DEF RP!FlattenSeq, FlattenSeq
<1>2. \A st : RP!Concat(st) = Concat(st)
  BY <1>1, Zenon DEF RP!Concat, Concat
<1>3. \A b : RP!Decoded(b) = Decoded(b)
  BY SameValid DEF RP!Decoded, Decoded
<1>4. \A st, id : RP!Finish(st, id) = Finish(st, id)
  BY <1>2, <1>3, Zenon DEF RP!Finish, Finish, RP!Failed, Failed, RP!Complete, Complete
<1>5. /\ \A e : RP!Failed(e) = Failed(e)
      /\ RP!Incomplete = Incomplete
  BY Zenon DEF RP!Failed, Failed, RP!Incomplete, Incomplete
<1>6. RP!validateChunk(c) <=> validateChunk(c)
  BY DEF RP!validateChunk, validateChunk
<1>7. RP!NewState(c) = NewState(c)
  BY Zenon DEF RP!NewState, NewState
<1>8. \A st : RP!Record(st, c) = Record(st, c)
  BY Zenon DEF RP!Record, Record
<1>9. \A st : RP!Mismatch(st, c) <=> Mismatch(st, c)
  BY DEF RP!Mismatch, Mismatch
<1>10. \A st : RP!Completed(t, st, c.id) = Completed(t, st, c.id)
  BY <1>4, Zenon DEF RP!Completed, Completed
<1> DEFINE old == t[c.id]
           st  == IF old = NoState THEN NewState(c) ELSE old
<1>11. st = IF old = NoState THEN RP!NewState(c) ELSE old
  BY <1>7
<1>12. CASE ~validateChunk(c)
  BY <1>5, <1>6, <1>12 DEF RP!Add, Add
<1>13. CASE validateChunk(c) /\ Mismatch(st, c)
  BY <1>5, <1>6, <1>7, <1>9, <1>13 DEF RP!Add, Add
<1>14. CASE validateChunk(c) /\ ~Mismatch(st, c) /\ c.seq \in DOMAIN st.chunks
  BY <1>5, <1>6, <1>7, <1>9, <1>14 DEF RP!Add, Add
<1>15. CASE validateChunk(c) /\ ~Mismatch(st, c) /\ c.seq \notin DOMAIN st.chunks
  <2> DEFINE rec == Record(st, c)
             Kept == [table |-> [t EXCEPT ![c.id] = rec], result |-> Incomplete]
  <2>1. RP!Record(st, c) = rec /\ RP!Completed(t, rec, c.id) = Completed(t, rec, c.id)
    BY <1>8, <1>10
  <2>2. Add(t, c) = IF Cardinality(DOMAIN rec.chunks) # rec.total THEN Kept
                    ELSE Completed(t, rec, c.id)
    BY <1>15 DEF Add
  <2>3. RP!Add(t, c) = IF RP!Cardinality(DOMAIN rec.chunks) # rec.total THEN Kept
                      ELSE Completed(t, rec, c.id)
    <3> DEFINE rst == IF old = NoState THEN RP!NewState(c) ELSE old
    <3>1. rst = st /\ RP!validateChunk(c) /\ ~RP!Mismatch(rst, c) /\ c.seq \notin DOMAIN rst.chunks
      BY <1>6, <1>9, <1>11, <1>15
    <3>2. RP!Add(t, c) =
            LET rrec == RP!Record(rst, c)
            IN  IF RP!Cardinality(DOMAIN rrec.chunks) # rrec.total
                THEN [table |-> [t EXCEPT ![c.id] = rrec], result |-> RP!Incomplete]
                ELSE RP!Completed(t, rrec, c.id)
      <4>1. \/ ~RP!validateChunk(c) \/ RP!Mismatch(rst, c) \/ c.seq \in DOMAIN rst.chunks
            \/ RP!Add(t, c) =
                  LET rrec == RP!Record(rst, c)
                  IN  IF RP!Cardinality(DOMAIN rrec.chunks) # rrec.total
                      THEN [table |-> [t EXCEPT ![c.id] = rrec], result |-> RP!Incomplete]
                      ELSE RP!Completed(t, rrec, c.id)
        BY Zenon DEF RP!Add
      <4> QED
        BY <3>1, <4>1, Zenon
    <3>3. RP!Record(rst, c) = rec /\ RP!Incomplete = Incomplete
      BY <1>5, <2>1, <3>1
    <3> HIDE DEF rst, st, rec
    <3> QED
      BY <2>1, <3>2, <3>3
  <2>4. RP!Cardinality(DOMAIN rec.chunks) = Cardinality(DOMAIN rec.chunks)
    BY SameCardinality
  <2> QED
    BY <2>2, <2>3, <2>4
<1> QED
  BY <1>12, <1>13, <1>14, <1>15

(* What Reassembler assumes of its constants holds of a peer's.            *)
LEMMA ReassemblerFits == RP!PayloadAssumption /\ RP!StrayAssumption
<1>1. RP!FieldsType = FieldsType
  BY DEF RP!FieldsType, FieldsType, RP!PayloadTypes, RP!ImageMIMETypes, PayloadTypes, ImageMIMETypes
<1>2. ASSUME NEW p \in Payloads PROVE Serial[p] \in Seq(STRING) /\ Len(Serial[p]) > 0
  <2>1. Serial[p] \in Seq(STRING) /\ Len(Serial[p]) \in Nat /\ ChunkSize \in Nat \ {0}
    BY ChunkAssumption, LenProperties
  <2>2. Len(ChunkPayload(p, ChunkSize)) \in Nat \ {0}
    BY ChunkAssumption, CopyAssumption
  <2>3. CASE Len(Serial[p]) = 0
    <3>1. (Len(Serial[p]) + ChunkSize - 1) \div ChunkSize = 0
      BY <2>1, <2>3
    <3>2. ChunkPayload(p, ChunkSize) = <<>>
      BY <3>1 DEF ChunkPayload
    <3> QED
      BY <2>2, <3>2
  <2> QED
    BY <2>1, <2>3
<1>3. RP!PayloadAssumption
  BY <1>1, <1>2, ChunkAssumption, ContentAssumption DEF RP!PayloadAssumption
<1>4. RP!SentChunks = SentChunks
  <2>1. /\ \A x : x \in RP!SentChunks <=> \E p \in Payloads : x \in RP!ToSet(ChunkPayload(p, ChunkSize))
        /\ \A x : x \in SentChunks <=> \E p \in Payloads : x \in ToSet(ChunkPayload(p, ChunkSize))
    BY SameChunks, SameValid DEF RP!SentChunks, SentChunks
  <2> QED
    BY <2>1, Zenon DEF RP!ToSet, ToSet
<1>5. RP!Entries = EntriesOf(SentChunks)
  <2>1. RP!AllChunks = SentChunks
    BY <1>4 DEF RP!AllChunks
  <2> QED
    BY <2>1 DEF RP!Entries, RP!EntriesOf, EntriesOf, RP!PartsOf, PartsOf
<1> QED
  BY <1>3, <1>5, ChunkAssumption DEF RP!StrayAssumption

(* A content has one split into chunks, by which its payloads differ in    *)
(* the first chunk at most.                                                *)
LEMMA PeerPayloads ==
    /\ RP!OneContent(ChunkSize) /\ ChunkSize \in {ChunkSize}
    /\ \A p \in Payloads : RP!Count(p, ChunkSize) = NumChunks[p] /\ p \in RP!ValidPayloads
<1>1. RP!ValidPayloads = Payloads
  BY SameValid
<1>2. ASSUME NEW p \in Payloads, NEW q \in Payloads, HashOf[p] = HashOf[q]
      PROVE  RP!Twins(p, q, ChunkSize)
  BY <1>1, <1>2, ContentAssumption, ReassemblerFits, RP!TwinFacts
<1>3. \A p \in Payloads : RP!Count(p, ChunkSize) = NumChunks[p]
  BY SameChunks, ChunkAssumption DEF RP!Count
<1> QED
  BY <1>1, <1>2, <1>3 DEF RP!OneContent

(* An unfinished transfer at a peer holds chunks of one content only.      *)
TablesInv ==
    \A p \in Peers : RP!TableInv(inflight[p]) /\ RP!OfPayloads(inflight[p], ChunkSize)

(* The peer's Add records a chunk of r or completes a transfer of r's      *)
(* content.                                                                *)
LEMMA AddRecords ==
    ASSUME NEW t, RP!TableInv(t), RP!OfPayloads(t, ChunkSize),
           NEW r \in Payloads, NEW i \in 1 .. NumChunks[r]
    PROVE  LET g == HashOf[r]
               a == Add(t, ChunkPayload(r, ChunkSize)[i])
               f == a.table[g]
           IN  /\ RP!TableInv(a.table) /\ RP!OfPayloads(a.table, ChunkSize)
               /\ \/ f = NoState /\ a.result.kind = "complete" /\ HashOf[a.result.payload] = g
                  \/ /\ f # NoState /\ f.total = NumChunks[r] /\ i - 1 \in DOMAIN f.chunks
                     /\ t[g] # NoState => DOMAIN t[g].chunks \subseteq DOMAIN f.chunks
<1>1. /\ RP!Count(r, ChunkSize) = NumChunks[r] /\ r \in RP!ValidPayloads
      /\ RP!OneContent(ChunkSize) /\ ChunkSize \in {ChunkSize}
      /\ i \in 1 .. RP!Count(r, ChunkSize)
  BY PeerPayloads
<1>2. RP!Add(t, RP!ChunkPayload(r, ChunkSize)[i]) = Add(t, ChunkPayload(r, ChunkSize)[i])
  BY SameAdd, SameChunks
<1>3. LET a == RP!Add(t, RP!ChunkPayload(r, ChunkSize)[i])
          f == a.table[HashOf[r]]
      IN  /\ RP!TableInv(a.table) /\ RP!OfPayloads(a.table, ChunkSize)
          /\ \/ f = NoState /\ a.result.kind = "complete" /\ HashOf[a.result.payload] = HashOf[r]
             \/ /\ f # NoState /\ f.total = RP!Count(r, ChunkSize) /\ i - 1 \in DOMAIN f.chunks
                /\ t[HashOf[r]] # NoState => DOMAIN t[HashOf[r]].chunks \subseteq DOMAIN f.chunks
  BY <1>1, ReassemblerFits, RP!AddOfPayloads
<1> QED
  BY <1>1, <1>2, <1>3

(* A chunk that handleFrame reads is recorded, or its content is ready.    *)
LEMMA HandleRecords ==
    ASSUME TypeOK, FrameInv, RecvInv, TablesInv, NEW c \in Conns, handleFrame(c)
    PROVE  LET x == Head(wire[c])
               p == PeerOf[c]
               g == HashOf[copied[x.copy]]
               e == inflight[p][g]
               f == inflight'[p][g]
           IN  /\ RP!TableInv(inflight'[p]) /\ RP!OfPayloads(inflight'[p], ChunkSize)
               /\ \/ \E q \in Payloads : ready' = [ready EXCEPT ![c] = {q}] /\ HashOf[q] = g
                  \/ /\ UNCHANGED ready
                     /\ f # NoState /\ f.total = NumChunks[copied[x.copy]]
                     /\ x.seq - 1 \in DOMAIN f.chunks
                     /\ e # NoState => DOMAIN e.chunks \subseteq DOMAIN f.chunks
<1> DEFINE x == Head(wire[c])
           p == PeerOf[c]
           r == copied[x.copy]
           g == HashOf[r]
           k == ChunkOf(x)
           added == Add(inflight[p], k)
<1>1. wire[c] # <<>> /\ p \in Peers
  BY NamesAssumption DEF handleFrame
<1>2. /\ x \in Frames /\ r \in Payloads /\ k.id = g /\ g \in Ids /\ k.id \in Ids
      /\ k.seq \in Nat /\ k.total \in Nat
  BY <1>1, ReadFacts
<1>3. x.seq \in 1 .. NumChunks[r] /\ k = ChunkPayload(r, ChunkSize)[x.seq]
  BY <1>2 DEF Frames, ChunkOf
<1>4. /\ inflight' = [inflight EXCEPT ![p] = added.table]
      /\ ready' = IF added.result.kind = "complete"
                  THEN [ready EXCEPT ![c] = @ \cup {added.result.payload}] ELSE ready
      /\ ready[c] = {}
  BY DEF handleFrame, ReaderFree
<1>5. inflight'[p] = added.table
  BY <1>1, <1>4 DEF RecvInv
<1>6. Entries(inflight[p]) /\ RP!TableInv(inflight[p]) /\ RP!OfPayloads(inflight[p], ChunkSize)
  BY <1>1 DEF RecvInv, TablesInv
<1> HIDE DEF x, p, k
<1> HIDE DEF r
<1>7. /\ RP!TableInv(added.table) /\ RP!OfPayloads(added.table, ChunkSize)
      /\ \/ /\ added.table[g] = NoState /\ added.result.kind = "complete"
            /\ HashOf[added.result.payload] = g
         \/ /\ added.table[g] # NoState /\ added.table[g].total = NumChunks[r]
            /\ x.seq - 1 \in DOMAIN added.table[g].chunks
            /\ inflight[p][g] # NoState =>
                   DOMAIN inflight[p][g].chunks \subseteq DOMAIN added.table[g].chunks
  BY <1>2, <1>3, <1>6, AddRecords DEF added
<1>8. added.result.kind = "complete" =>
          added.result.payload \in Payloads /\ added.table[k.id] = NoState
  BY <1>2, <1>6, AddFacts
<1> HIDE DEF added
<1>9. CASE added.result.kind = "complete"
  <2>1. ready' = [ready EXCEPT ![c] = {added.result.payload}]
    BY <1>4, <1>9
  <2> QED
    BY <1>2, <1>5, <1>7, <1>8, <1>9, <2>1 DEF x, p, r
<1>10. CASE added.result.kind # "complete"
  BY <1>4, <1>5, <1>7, <1>10 DEF x, p, r
<1> QED
  BY <1>9, <1>10

(* Every step keeps the tables so.                                         *)
LEMMA TablesStep ==
    ASSUME TypeOK, FrameInv, RecvInv, TablesInv, [SyncNext]_syncVars
    PROVE  TablesInv'
<1>1. CASE UNCHANGED inflight
  BY <1>1 DEF TablesInv
<1>2. ASSUME NEW c \in Conns, handleFrame(c) PROVE TablesInv'
  <2>1. /\ RP!TableInv(inflight'[PeerOf[c]]) /\ RP!OfPayloads(inflight'[PeerOf[c]], ChunkSize)
        /\ \A q \in Peers : q # PeerOf[c] => inflight'[q] = inflight[q]
    BY <1>2, HandleRecords, HandleFacts
  <2> QED
    BY <2>1 DEF TablesInv
<1>3. ASSUME NEW c \in Conns,
             PeerCloses(c) \/ \E q \in Payloads : ApplyRemote(c, q) \/ ApplyFails(c, q)
      PROVE  UNCHANGED inflight
  BY <1>3 DEF PeerCloses, ApplyRemote, ApplyFails
<1> QED
  BY <1>1, <1>2, <1>3 DEF SyncNext, ReceiveStep, syncVars, recvVars

-----------------------------------------------------------------------------
(* What the last payload has come to at a peer with one connection.        *)

(* The chunks of the last payload that c's readPump has read.              *)
Handled(c) == {i \in queued[c] : [copy |-> Copy, seq |-> i] \notin Carried(c)}

(* The content of the last payload was the last one that ApplyRemote wrote *)
(* to the clipboard or failed to write, or is the next one to write.       *)
Synced(c) ==
    LET h == HashOf[copied[Copy]]
        p == PeerOf[c]
    IN  IF ready[c] # {} THEN \A q \in ready[c] : HashOf[q] = h
        ELSE h \in unwritten[p] \/ (applied[p] # <<>> /\ Last(applied[p]) = h)

(* All that was read of the last payload is in the reassembler.            *)
Recorded(c) ==
    LET e == inflight[PeerOf[c]][HashOf[copied[Copy]]] IN
    /\ e # NoState /\ e.total = NumChunks[copied[Copy]]
    /\ \A i \in Handled(c) : i - 1 \in DOMAIN e.chunks

(* Nothing of the last payload is read before what came earlier, and what  *)
(* was read of it is recorded unless it has completed a transfer.          *)
Drained(c) ==
    /\ (\E x \in Carried(c) : x.copy < Copy) => Handled(c) = {}
    /\ Handled(c) = {} \/ Synced(c) \/ Recorded(c)

DrainInv ==
    \A c \in Conns :
        life[c] = "open" /\ c \notin gone /\ Only(c) /\ copied # <<>> => Drained(c)

(* A step of the sender begins a payload, attaches c, or adds to what c    *)
(* carries all that it adds to what c has been given.                      *)
LEMMA SenderDrains ==
    ASSUME SendInv, [Next]_vars, NEW c \in Conns, life'[c] = "open"
    PROVE  \/ queued'[c] = {}
           \/ /\ life[c] = "open" /\ UNCHANGED copied /\ Handled(c)' \subseteq Handled(c)
              /\ \A x \in Carried(c)' : x \in Carried(c) \/ x.copy = Copy
<1>1. TypeOK /\ LoopInv /\ TableInv /\ sendQ[c] \in Seq(Chunks) /\ wire[c] \in Seq(Chunks)
  BY DEF SendInv, TypeOK
<1>2. ASSUME NEW q \in Payloads, TakeEvent(q) PROVE queued'[c] = {}
  BY <1>2 DEF TakeEvent
<1>3. ASSUME NEW d \in Conns, Attach(d), life[c] # "open" PROVE queued'[c] = {}
  BY <1>1, <1>3 DEF Attach, TypeOK, TableInv
<1>4. ASSUME life[c] = "open", UNCHANGED copied, Carried(c) \subseteq Carried(c)',
             queued'[c] \subseteq queued[c] \/ (queued'[c] = queued[c] \cup {seq} /\ Current \in Carried(c)'),
             \A x \in Carried(c)' : x \in Carried(c) \/ x.copy = Copy
      PROVE  /\ life[c] = "open" /\ UNCHANGED copied /\ Handled(c)' \subseteq Handled(c)
             /\ \A x \in Carried(c)' : x \in Carried(c) \/ x.copy = Copy
  BY <1>4 DEF Handled, Current, Copy
<1>5. CASE Enqueue
  <2>1. /\ held \in Conns /\ UNCHANGED <<life, copied, wire>>
        /\ \/ /\ sendQ' = [sendQ EXCEPT ![held] = Append(@, Current)]
              /\ queued' = [queued EXCEPT ![held] = @ \cup {seq}]
           \/ UNCHANGED <<sendQ, queued>>
    BY <1>1, <1>5, EnqueueCases DEF Enqueue
  <2>2. CASE UNCHANGED <<sendQ, queued>>
    BY <1>4, <2>1, <2>2 DEF Carried
  <2>3. CASE sendQ' = [sendQ EXCEPT ![held] = Append(@, Current)] /\ queued' = [queued EXCEPT ![held] = @ \cup {seq}]
    <3>1. wire'[c] = wire[c] /\ sendQ'[c] = IF c = held THEN Append(sendQ[c], Current) ELSE sendQ[c]
      BY <1>1, <2>1, <2>3 DEF TypeOK
    <3>2. queued'[c] = IF c = held THEN queued[c] \cup {seq} ELSE queued[c]
      BY <1>1, <2>3 DEF TypeOK
    <3>3. Current \in Chunks /\ Current.copy = Copy
      BY <1>1, LenProperties DEF Current, Chunks, TypeOK, Copy
    <3>4. Carried(c)' = Carried(c) \cup (IF c = held THEN {Current} ELSE {})
      BY <1>1, <3>1, <3>3, ItemsFacts DEF Carried
    <3> QED
      BY <1>4, <2>1, <3>2, <3>3, <3>4
  <2> QED
    BY <2>1, <2>2, <2>3
<1>6. ASSUME NEW d \in Conns, Write(d)
      PROVE  /\ life[c] = "open" /\ UNCHANGED copied /\ Handled(c)' \subseteq Handled(c)
             /\ \A x \in Carried(c)' : x \in Carried(c) \/ x.copy = Copy
  <2>1. UNCHANGED <<life, copied, queued>>
    BY <1>6 DEF Write, loopVars, histVars
  <2>2. Carried(c)' = Carried(c)
    <3>1. CASE d = c
      <4>1. /\ sendQ[c] # <<>> /\ sendQ'[c] = Tail(sendQ[c])
            /\ wire'[c] = Append(wire[c], Head(sendQ[c]))
        BY <1>1, <1>6, <3>1 DEF Write, TypeOK
      <4> QED
        BY <1>1, <4>1, ItemsFacts DEF Carried
    <3>2. CASE d # c
      BY <1>1, <1>6, <3>2 DEF Write, TypeOK, Carried
    <3> QED
      BY <3>1, <3>2
  <2> QED
    BY <1>4, <2>1, <2>2
<1>7. ASSUME NEW d \in Conns, Close(d)
      PROVE  /\ life[c] = "open" /\ UNCHANGED <<copied, wire>>
             /\ sendQ'[c] = sendQ[c] /\ queued'[c] = queued[c]
  <2>1. d # c
    BY <1>1, <1>7 DEF Close, TypeOK
  <2> QED
    BY <1>1, <1>7, <2>1 DEF Close, TypeOK, loopVars
<1>8. ASSUME NEW d \in Conns, Attach(d) \/ Break(d), life[c] = "open"
      PROVE  UNCHANGED <<copied, wire, sendQ, queued>>
  BY <1>8 DEF Attach, Break, loopVars, histVars
<1>9. ASSUME NEW d \in Conns, Break(d) PROVE life[c] = "open"
  BY <1>1, <1>9 DEF Break, TypeOK
<1>10. CASE \/ FrameDone \/ LoopExit \/ Cancel \/ UNCHANGED vars
            \/ \E p \in Peers : Visit(p)
            \/ \E p \in Others : VisitOther(p)
            \/ \E d \in Conns : Detach(d)
  <2>1. UNCHANGED <<life, copied, wire, sendQ, queued>>
    BY <1>10 DEF FrameDone, LoopExit, Cancel, vars, loopVars, connVars, histVars, Visit, VisitOther,
       Detach
  <2> QED
    BY <1>4, <2>1 DEF Carried
<1>11. CASE life[c] = "open" /\ UNCHANGED copied /\ wire'[c] = wire[c] /\ sendQ'[c] = sendQ[c] /\ queued'[c] = queued[c]
  BY <1>4, <1>11 DEF Carried
<1> QED
  BY <1>2, <1>3, <1>5, <1>6, <1>7, <1>8, <1>9, <1>10, <1>11 DEF Next, LoopStep, CloseStep

(* A chunk that is read is the earliest that c carries.                    *)
LEMMA EarliestRead ==
    ASSUME TypeOK, LineInv, NEW c \in Conns, Reads(c)
    PROVE  /\ Carried(c) = {Head(wire[c])} \cup Carried(c)'
           /\ \A y \in Carried(c)' : Before(Head(wire[c]), y)
<1>1. wire[c] # <<>> /\ wire'[c] = Tail(wire[c]) /\ sendQ'[c] = sendQ[c]
  BY DEF Reads, TypeOK
<1>2. /\ wire[c] \in Seq(Chunks) /\ Rising(wire[c])
      /\ \A u \in Items(wire[c]) : \A y \in Items(sendQ[c]) : Before(u, y)
  BY DEF TypeOK, LineInv
<1>3. /\ Items(wire[c]) = {Head(wire[c])} \cup Items(Tail(wire[c]))
      /\ \A y \in Items(Tail(wire[c])) : Before(Head(wire[c]), y)
  BY <1>1, <1>2, ItemsFacts, RisingFacts
<1> QED
  BY <1>1, <1>2, <1>3 DEF Carried

(* What handleFrame reads of the last payload gets into the reassembler or *)
(* makes its content the next to be applied.                               *)
LEMMA HandleDrains ==
    ASSUME TypeOK, FrameInv, RecvInv, LineInv, TablesInv, NEW c \in Conns, handleFrame(c),
           UNCHANGED queued, Drained(c)
    PROVE  Drained(c)'
<1> DEFINE x == Head(wire[c])
           p == PeerOf[c]
           g == HashOf[copied[Copy]]
           e == inflight[p][g]
           f == inflight'[p][g]
<1>1. /\ Reads(c) /\ UNCHANGED <<applied, unwritten, copied>> /\ Copy' = Copy /\ ready[c] = {}
      /\ x \in Frames /\ p \in Peers
  BY HandleFacts DEF Reads, loopVars, Copy
<1>2. /\ Carried(c) = {x} \cup Carried(c)' /\ \A y \in Carried(c)' : Before(x, y)
      /\ Copy \in Nat /\ \A y \in Carried(c) : y.copy \in 1 .. Copy /\ y.seq \in Nat
  BY <1>1, EarliestRead, CarriedType
<1>3. x.copy \in 1 .. Copy
  BY <1>2
<1>4. \A i \in Handled(c)' : i \in Handled(c) \/ (x.copy = Copy /\ x.seq = i)
  <2> SUFFICES ASSUME NEW i \in Handled(c)' PROVE i \in Handled(c) \/ (x.copy = Copy /\ x.seq = i)
    OBVIOUS
  <2>1. i \in queued[c] /\ [copy |-> Copy, seq |-> i] \notin Carried(c)'
    BY <1>1 DEF Handled
  <2>2. i \in Handled(c) \/ [copy |-> Copy, seq |-> i] = x
    BY <1>2, <2>1 DEF Handled
  <2> HIDE DEF x
  <2> QED
    BY <2>2
<1>5. CASE x.copy < Copy
  <2>1. Handled(c) = {}
    BY <1>2, <1>5 DEF Drained
  <2>2. Handled(c)' = {}
    BY <1>2, <1>3, <1>4, <1>5, <2>1
  <2> QED
    BY <2>2 DEF Drained
<1>6. CASE x.copy = Copy
  <2>1. \/ \E q \in Payloads : ready' = [ready EXCEPT ![c] = {q}] /\ HashOf[q] = g
        \/ /\ UNCHANGED ready
           /\ f # NoState /\ f.total = NumChunks[copied[Copy]] /\ x.seq - 1 \in DOMAIN f.chunks
           /\ e # NoState => DOMAIN e.chunks \subseteq DOMAIN f.chunks
    BY <1>6, HandleRecords
  <2>2. ~ \E y \in Carried(c)' : y.copy < Copy'
    BY <1>1, <1>2, <1>3, <1>6 DEF Before
  <2>3. ASSUME NEW q \in Payloads, ready' = [ready EXCEPT ![c] = {q}], HashOf[q] = g
        PROVE  Synced(c)'
    <3>1. ready'[c] = {q}
      BY <2>3 DEF RecvInv
    <3> QED
      BY <1>1, <2>3, <3>1 DEF Synced
  <2>4. ASSUME UNCHANGED ready,
               f # NoState, f.total = NumChunks[copied[Copy]], x.seq - 1 \in DOMAIN f.chunks,
               e # NoState => DOMAIN e.chunks \subseteq DOMAIN f.chunks
        PROVE  Synced(c)' \/ Recorded(c)'
    <3>1. CASE Synced(c)
      BY <1>1, <2>4, <3>1 DEF Synced
    <3>2. CASE Handled(c) = {} \/ Recorded(c)
      <4>1. \A i \in Handled(c) : i - 1 \in DOMAIN f.chunks
        BY <2>4, <3>2 DEF Recorded
      <4>2. \A i \in Handled(c)' : i - 1 \in DOMAIN f.chunks
        BY <1>4, <2>4, <4>1
      <4> QED
        BY <1>1, <2>4, <4>2 DEF Recorded
    <3> QED
      BY <3>1, <3>2 DEF Drained
  <2> QED
    BY <2>1, <2>2, <2>3, <2>4 DEF Drained
<1> QED
  BY <1>2, <1>3, <1>5, <1>6

(* What ApplyRemote applies, or fails to write, was ready.                 *)
LEMMA ApplyDrains ==
    ASSUME TypeOK, RecvInv, NEW c \in Conns, NEW q \in Payloads,
           ApplyRemote(c, q) \/ ApplyFails(c, q), Drained(c)
    PROVE  Drained(c)'
<1> DEFINE p == PeerOf[c]
<1>1. /\ UNCHANGED <<copied, sendQ, wire, queued, inflight>> /\ ready' = [ready EXCEPT ![c] = @ \ {q}]
      /\ q \in ready[c]
      /\ \/ applied' = [applied EXCEPT ![p] = Append(@, HashOf[q])]
         \/ unwritten' = [unwritten EXCEPT ![p] = {HashOf[q]}]
  BY DEF ApplyRemote, ApplyFails, ApplyDone, vars, loopVars, connVars, histVars
<1>2. Carried(c)' = Carried(c) /\ Copy' = Copy
  BY <1>1 DEF Carried, Copy
<1>3. Handled(c)' = Handled(c)
  BY <1>1, <1>2 DEF Handled
<1>4. Recorded(c) => Recorded(c)'
  BY <1>1, <1>2, <1>3 DEF Recorded
<1>5. ASSUME Synced(c) PROVE Synced(c)'
  <2>1. HashOf[q] = HashOf[copied[Copy]] /\ ready'[c] = {}
    BY <1>1, <1>5 DEF Synced, RecvInv
  <2>2. p \in Peers /\ applied[p] \in Seq(Ids) /\ HashOf[q] \in Ids
    BY NamesAssumption, ChunkAssumption DEF RecvInv
  <2>3. CASE applied' = [applied EXCEPT ![p] = Append(@, HashOf[q])]
    <3>1. /\ applied'[p] = Append(applied[p], HashOf[q])
          /\ Len(applied[p]) \in Nat
          /\ Len(applied'[p]) = Len(applied[p]) + 1
          /\ applied'[p][Len(applied[p]) + 1] = HashOf[q]
          /\ applied'[p] \in Seq(Ids)
      BY <2>2, <2>3, LenProperties, AppendProperties DEF RecvInv
    <3>2. applied'[p] # <<>> /\ Last(applied'[p]) = HashOf[q]
      BY <3>1, EmptySeq DEF Last
    <3> QED
      BY <1>1, <1>2, <2>1, <3>2 DEF Synced
  <2>4. CASE unwritten' = [unwritten EXCEPT ![p] = {HashOf[q]}]
    <3>1. HashOf[q] \in unwritten'[p]
      BY <2>2, <2>4 DEF RecvInv
    <3> QED
      BY <1>1, <1>2, <2>1, <3>1 DEF Synced
  <2> QED
    BY <1>1, <2>3, <2>4
<1> QED
  BY <1>1, <1>2, <1>3, <1>4, <1>5 DEF Drained

(* Every step keeps account of the last payload.                           *)
LEMMA DrainStep ==
    ASSUME DeliveryInv, DeliveryInv', TablesInv, DrainInv, [SyncNext]_syncVars
    PROVE  DrainInv'
<1>1. /\ SendInv /\ TypeOK /\ TypeOK' /\ FrameInv /\ RecvInv /\ LineInv /\ NewInv
  BY DEF DeliveryInv, StateInv, SendInv
<1> SUFFICES ASSUME NEW c \in Conns, life'[c] = "open", c \notin gone', Only(c)', copied' # <<>>
             PROVE  Drained(c)'
  BY DEF DrainInv
<1>2. Only(c) /\ PeerOf[c] \in Peers
  BY <1>1, LifeStep, NamesAssumption DEF Only
<1>3. \A d \in Conns : PeerOf[d] = PeerOf[c] /\ d # c => wire[d] = <<>> /\ ready[d] = {}
  BY <1>1, <1>2 DEF Only, NewInv
<1>4. ASSUME life[c] = "open", c \notin gone, UNCHANGED copied, Handled(c)' \subseteq Handled(c),
             \A x \in Carried(c)' : x \in Carried(c) \/ x.copy = Copy,
             inflight'[PeerOf[c]] = inflight[PeerOf[c]], ready'[c] = ready[c],
             applied'[PeerOf[c]] = applied[PeerOf[c]],
             unwritten'[PeerOf[c]] = unwritten[PeerOf[c]]
      PROVE  Drained(c)'
  <2>1. Drained(c) /\ Copy' = Copy /\ Copy \in Nat
    BY <1>2, <1>4, LenProperties DEF DrainInv, Copy, TypeOK
  <2>2. (\E x \in Carried(c)' : x.copy < Copy') => Handled(c)' = {}
    BY <1>4, <2>1 DEF Drained
  <2>3. Handled(c)' = {} \/ Synced(c)' \/ Recorded(c)'
    <3>1. Synced(c) => Synced(c)'
      BY <1>4, <2>1 DEF Synced
    <3>2. Recorded(c) => Recorded(c)'
      BY <1>4, <2>1 DEF Recorded
    <3> QED
      BY <1>4, <2>1, <3>1, <3>2 DEF Drained
  <2> QED
    BY <2>2, <2>3 DEF Drained
<1>5. CASE [Next]_vars /\ UNCHANGED recvVars
  <2>1. CASE queued'[c] = {}
    <3>1. Handled(c)' = {}
      BY <2>1 DEF Handled
    <3> QED
      BY <3>1 DEF Drained
  <2>2. CASE queued'[c] # {}
    BY <1>1, <1>4, <1>5, <2>2, SenderDrains DEF recvVars
  <2> QED
    BY <2>1, <2>2
<1>6. ASSUME NEW d \in Conns, handleFrame(d) PROVE Drained(c)'
  <2>1. UNCHANGED <<copied, life, sendQ, queued, gone, applied, unwritten>>
    BY <1>6 DEF handleFrame, loopVars, histVars
  <2>2. CASE d = c
    <3>1. Drained(c)
      BY <1>2, <2>1 DEF DrainInv
    <3> QED
      BY <1>1, <1>6, <2>1, <2>2, <3>1, HandleDrains
  <2>3. CASE d # c
    <3>1. PeerOf[d] # PeerOf[c] /\ PeerOf[d] \in Peers
      BY <1>3, <1>6, <2>3, NamesAssumption DEF handleFrame
    <3>2. wire'[c] = wire[c] /\ ready'[c] = ready[c] /\ inflight'[PeerOf[c]] = inflight[PeerOf[c]]
      BY <1>1, <1>2, <1>6, <2>3, <3>1 DEF handleFrame, RecvInv, TypeOK
    <3>3. Carried(c)' = Carried(c) /\ Handled(c)' = Handled(c)
      BY <2>1, <3>2 DEF Carried, Handled, Copy
    <3> QED
      BY <1>4, <2>1, <3>2, <3>3
  <2> QED
    BY <2>2, <2>3
<1>7. ASSUME NEW d \in Conns, NEW q \in Payloads, ApplyRemote(d, q) \/ ApplyFails(d, q)
      PROVE  Drained(c)'
  <2>1. UNCHANGED <<copied, life, sendQ, wire, queued, gone, inflight>>
    BY <1>7 DEF ApplyRemote, ApplyFails, vars, loopVars, connVars, histVars
  <2>2. CASE d = c
    <3>1. Drained(c)
      BY <1>2, <2>1 DEF DrainInv
    <3> QED
      BY <1>1, <1>7, <2>2, <3>1, ApplyDrains
  <2>3. CASE d # c
    <3>1. PeerOf[d] # PeerOf[c]
      BY <1>3, <1>7, <2>3 DEF ApplyRemote, ApplyFails
    <3>2. /\ applied'[PeerOf[c]] = applied[PeerOf[c]] /\ ready'[c] = ready[c]
          /\ unwritten'[PeerOf[c]] = unwritten[PeerOf[c]]
      BY <1>1, <1>2, <1>7, <2>3, <3>1 DEF ApplyRemote, ApplyFails, ApplyDone, RecvInv
    <3>3. Carried(c)' = Carried(c) /\ Handled(c)' = Handled(c)
      BY <2>1 DEF Carried, Handled, Copy
    <3> QED
      BY <1>4, <2>1, <3>2, <3>3
  <2> QED
    BY <2>2, <2>3
<1>8. ASSUME NEW d \in Conns, PeerCloses(d) PROVE Drained(c)'
  <2>1. /\ d # c /\ c \notin gone /\ life[c] = "open" /\ wire'[c] = wire[c] /\ ready'[c] = ready[c]
        /\ UNCHANGED <<copied, sendQ, queued, inflight, applied, unwritten>>
    BY <1>1, <1>8 DEF PeerCloses, loopVars, histVars, TypeOK, RecvInv
  <2>2. Carried(c)' = Carried(c) /\ Handled(c)' = Handled(c)
    BY <2>1 DEF Carried, Handled, Copy
  <2> QED
    BY <1>4, <2>1, <2>2
<1> QED
  BY <1>5, <1>6, <1>7, <1>8 DEF SyncNext, ReceiveStep, syncVars

SettledInv == DeliveryInv /\ TablesInv /\ DrainInv

(* What a peer's only connection has delivered of the last payload is in   *)
(* the reassembler, or its content is the last one given to ApplyRemote, to*)
(* be written, written or not writable.                                    *)
THEOREM DrainInvariant == SyncSpec => []SettledInv
<1>1. SyncInit => TablesInv /\ DrainInv
  <2> SUFFICES ASSUME SyncInit PROVE TablesInv /\ DrainInv
    OBVIOUS
  <2>1. \A p \in Peers : inflight[p] \in [Ids -> {NoState}]
    BY DEF SyncInit, NoTransfers
  <2>2. TablesInv
    BY <2>1 DEF TablesInv, RP!TableInv, RP!OfPayloads
  <2>3. DrainInv
    BY DEF SyncInit, Init, DrainInv
  <2> QED
    BY <2>2, <2>3
<1>2. DeliveryInv /\ DeliveryInv' /\ TablesInv /\ DrainInv /\ [SyncNext]_syncVars
        => TablesInv' /\ DrainInv'
  <2> SUFFICES ASSUME DeliveryInv, DeliveryInv', TablesInv, DrainInv, [SyncNext]_syncVars
               PROVE  TablesInv' /\ DrainInv'
    OBVIOUS
  <2>1. TypeOK /\ FrameInv /\ RecvInv
    BY DEF DeliveryInv, StateInv, SendInv
  <2>2. TablesInv'
    BY <2>1, TablesStep
  <2>3. DrainInv'
    BY DrainStep
  <2> QED
    BY <2>2, <2>3
<1> QED
  BY <1>1, <1>2, OrderInvariant, PTL DEF SyncSpec, SettledInv

(* A peer's only connection that was given the whole of the last payload   *)
(* and has drained has set the clipboard to it, or was the last to try and *)
(* failed: the last chunk completes the transfer, since an entry that stays*)
(* is missing one.                                                         *)
THEOREM DrainedPeersAreSynced == SyncSpec => []DrainedIsSynced
<1>1. SettledInv => DrainedIsSynced
  <2> SUFFICES ASSUME SettledInv, NEW c \in Conns, life[c] = "open", c \notin gone, Only(c),
                      copied # <<>>, Whole(c), ~Pending(c)
               PROVE  \/ HashOf[copied[Copy]] \in unwritten[PeerOf[c]]
                      \/ /\ applied[PeerOf[c]] # <<>>
                         /\ Last(applied[PeerOf[c]]) = HashOf[copied[Copy]]
    BY DEF DrainedIsSynced
  <2> DEFINE r == copied[Copy]
             e == inflight[PeerOf[c]][HashOf[r]]
  <2>1. TypeOK /\ TablesInv /\ Drained(c) /\ PeerOf[c] \in Peers
    BY NamesAssumption DEF SettledInv, DeliveryInv, StateInv, SendInv, DrainInv
  <2>2. r \in Payloads /\ HashOf[r] \in Ids /\ NumChunks[r] \in Nat \ {0}
    <3>1. copied \in Seq(Payloads) /\ Copy \in 1 .. Len(copied)
      BY <2>1, LenProperties, EmptySeq DEF TypeOK, Copy
    <3> QED
      BY <3>1, ElementOfSeq, ChunkAssumption, CopyAssumption
  <2>3. Carried(c) = {} /\ ready[c] = {}
    BY NoItems DEF Pending, Carried
  <2>4. 1 .. NumChunks[r] \subseteq Handled(c)
    BY <2>3 DEF Whole, Handled
  <2>5. ~Recorded(c)
    <3> SUFFICES ASSUME Recorded(c) PROVE FALSE
      OBVIOUS
    <3>1. e # NoState /\ e.total = NumChunks[r] /\ \A i \in 1 .. NumChunks[r] : i - 1 \in DOMAIN e.chunks
      BY <2>4 DEF Recorded
    <3> HIDE DEF r
    <3>2. \A k \in 0 .. e.total - 1 : k + 1 \in 1 .. NumChunks[r] /\ (k + 1) - 1 = k
      BY <2>2, <3>1
    <3>3. 0 .. e.total - 1 \subseteq DOMAIN e.chunks
      BY <3>1, <3>2
    <3>4. RP!TableInv(inflight[PeerOf[c]])
      BY <2>1 DEF TablesInv
    <3> QED
      BY <2>2, <3>1, <3>3, <3>4, ReassemblerFits, RP!SomethingMissing
  <2>6. 1 \in Handled(c)
    BY <2>2, <2>4
  <2> QED
    BY <2>1, <2>3, <2>5, <2>6 DEF Drained, Synced
<1> QED
  BY <1>1, DrainInvariant, PTL
=============================================================================
