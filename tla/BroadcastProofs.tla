--------------------------- MODULE BroadcastProofs ---------------------------
(***************************************************************************)
(* Proofs about Broadcast, for any peers, connections, payloads and queue  *)
(* sizes.  NoHole is not inductive: that chunk seq may follow what a       *)
(* connection holds rests on who may still be given a frame (InLine) and   *)
(* on who has had its turn for the current one (Passed).                   *)
(***************************************************************************)
EXTENDS Broadcast, SequenceTheorems, TLAPS

(* Outside of a call of Broadcast no peer is left to visit and nothing is  *)
(* held; during one there is a payload.  The peer of a held connection has *)
(* been visited.                                                           *)
LoopInv ==
    /\ loop # "frame" => todo = {} /\ held = NoConn
    /\ loop = "frame" => copied # <<>> /\ seq > 0
    /\ held # NoConn => PeerOf[held] \notin todo /\ life[held] # "new"

(* A table entry is an attached connection of its own peer, a connection   *)
(* that is not attached yet or is closed has no chunks to its name, and    *)
(* the ones followed since the payload began are open and in the table.    *)
TableInv ==
    /\ \A c \in Conns : life[c] \in {"new", "closed"} => queued[c] = {}
    /\ \A p \in Peers : table[p] # NoConn => PeerOf[table[p]] = p /\ life[table[p]] # "new"
    /\ \A c \in since : table[PeerOf[c]] = c /\ life[c] # "closed"

(* c may be offered the current chunk.                                     *)
InLine(c) == held = c \/ (PeerOf[c] \in todo /\ table[PeerOf[c]] = c)

(* c has been passed in the current call of Broadcast.                     *)
Passed(c) == PeerOf[c] \notin todo /\ held # c

(* No chunk beyond the current one is queued; what may be offered it holds *)
(* the one before; without an error, what has been passed holds it.        *)
HoleInv ==
    \A c \in Conns :
        /\ loop = "frame" => queued[c] \subseteq 1 .. seq
        /\ loop = "frame" /\ InLine(c) => queued[c] = {} \/ seq - 1 \in queued[c]
        /\ loop = "frame" /\ ~failed /\ Passed(c) /\ table[PeerOf[c]] = c
              => queued[c] = {} \/ seq \in queued[c]

(* Without an error so far, the connections followed hold all the chunks   *)
(* up to the current one, and that one too when they have been passed.     *)
CleanInv ==
    loop = "frame" /\ ~failed =>
        \A c \in since : /\ 1 .. seq - 1 \subseteq queued[c]
                         /\ Passed(c) => seq \in queued[c]

SendInv == TypeOK /\ LoopInv /\ TableInv /\ HoleInv /\ NoHole /\ CleanInv /\ CleanMeansQueued

-----------------------------------------------------------------------------
(* Every variable of the sending half has its type to begin with.          *)
LEMMA InitType == Init => TypeOK
<1> SUFFICES ASSUME Init PROVE TypeOK
  OBVIOUS
<1> USE NamesAssumption, CopyAssumption
<1>1. /\ <<>> \in Seq(Payloads) /\ <<>> \in Seq(Chunks)
      /\ Len(<<>>) = 0 /\ Len(Events) \in Nat
  BY EmptySeq, LenProperties
<1>2. copied \in Seq(Payloads) /\ Copy <= Len(Events)
  BY <1>1 DEF Init, Copy
<1>3. /\ sendQ \in [Conns -> Seq(Chunks)] /\ wire \in [Conns -> Seq(Chunks)]
      /\ \A c \in Conns : Len(sendQ[c]) <= SendQueueSize /\ Len(wire[c]) <= Window
  BY <1>1 DEF Init
<1> QED
  BY <1>2, <1>3 DEF Init, TypeOK

(* What enqueue may do with the connection it is offered: the frame goes   *)
(* into its queue, or is lost in the queue of a closed one, or is refused, *)
(* which Broadcast reports.                                                *)
LEMMA EnqueueCases ==
    ASSUME TypeOK, Enqueue
    PROVE  /\ held \in Conns /\ failed' \in BOOLEAN
           /\ \/ /\ Room(held) /\ life[held] # "closed" /\ failed' = failed
                 /\ sendQ' = [sendQ EXCEPT ![held] = Append(@, Current)]
                 /\ queued' = [queued EXCEPT ![held] = @ \cup {seq}]
              \/ life[held] = "closed" /\ failed' = failed /\ UNCHANGED <<sendQ, queued>>
              \/ failed' /\ UNCHANGED <<sendQ, queued>>
<1>1. held \in Conns
  BY DEF Enqueue, TypeOK
<1>2. failed' \in BOOLEAN
  BY Zenon DEF Enqueue, TypeOK
<1>3. ~Room(held) \/ ConnDone(held) => Refuses(held)
  BY DEF Refuses
<1> QED
  BY <1>1, <1>2, <1>3, Zenon DEF Enqueue

(* Every action keeps the types, and no send queue outgrows its channel.   *)
LEMMA NextType == TypeOK /\ [Next]_vars => TypeOK'
<1> SUFFICES ASSUME TypeOK, [Next]_vars PROVE TypeOK'
  OBVIOUS
<1> USE NamesAssumption, CopyAssumption
<1>1. ASSUME NEW p \in Payloads, TakeEvent(p) PROVE TypeOK'
  <2>1. copied' \in Seq(Payloads) /\ Len(copied') = Copy + 1
    BY <1>1 DEF TakeEvent, TypeOK, Copy
  <2>2. Copy \in Nat /\ Len(Events) \in Nat /\ Copy < Len(Events)
    BY <1>1, LenProperties DEF TakeEvent, TypeOK, Copy
  <2>3. Copy' <= Len(Events)
    BY <2>1, <2>2 DEF Copy
  <2>4. /\ loop' = "frame" /\ seq' = 1 /\ todo' = Peers \cup Others /\ failed' = FALSE
        /\ since' \subseteq Conns /\ queued' \in [Conns -> SUBSET Nat]
    BY <1>1 DEF TakeEvent, StartFrame, OpenInTable
  <2> QED
    BY <1>1, <2>1, <2>3, <2>4 DEF TakeEvent, TypeOK, connVars
<1>2. CASE LoopExit
  BY <1>2 DEF LoopExit, TypeOK, Copy, connVars, histVars
<1>3. CASE FrameDone
  <2>1. failed' \in BOOLEAN
    BY <1>3, Zenon DEF FrameDone, TypeOK, StartFrame
  <2>2. loop' \in {"select", "frame", "exited"} /\ seq' \in Nat /\ todo' \subseteq Peers \cup Others
    BY <1>3 DEF FrameDone, TypeOK, StartFrame
  <2> QED
    BY <1>3, <2>1, <2>2 DEF FrameDone, TypeOK, Copy, connVars, histVars
<1>4. ASSUME NEW p \in Peers, Visit(p) PROVE TypeOK'
  BY <1>4 DEF Visit, TypeOK, Copy, connVars, histVars
<1>5. ASSUME NEW p \in Others, VisitOther(p) PROVE TypeOK'
  BY <1>5 DEF VisitOther, TypeOK, Copy, connVars, histVars
<1>6. CASE Enqueue
  <2>1. held \in Conns /\ failed' \in BOOLEAN /\ held' = NoConn
    BY <1>6, EnqueueCases, Zenon DEF Enqueue
  <2>2. UNCHANGED <<copied, loop, seq, todo, table, life, wire, cancelled, since>>
    BY <1>6 DEF Enqueue
  <2>3. CASE UNCHANGED <<sendQ, queued>>
    BY <2>1, <2>2, <2>3 DEF TypeOK, Copy
  <2>4. CASE /\ Room(held)
             /\ sendQ' = [sendQ EXCEPT ![held] = Append(@, Current)]
             /\ queued' = [queued EXCEPT ![held] = @ \cup {seq}]
    <3>1. Current \in Chunks
      BY DEF Current, Chunks, TypeOK, Copy
    <3>2. Append(sendQ[held], Current) \in Seq(Chunks)
      BY <2>1, <3>1 DEF TypeOK
    <3>3. Len(Append(sendQ[held], Current)) = Len(sendQ[held]) + 1
      BY <2>1, <3>1 DEF TypeOK
    <3>4. Len(sendQ[held]) \in Nat
      BY <2>1 DEF TypeOK
    <3>5. \A c \in Conns : Len(sendQ'[c]) <= SendQueueSize
      BY <2>1, <2>4, <3>3, <3>4 DEF TypeOK, Room
    <3>6. sendQ' \in [Conns -> Seq(Chunks)]
      BY <2>1, <2>4, <3>2 DEF TypeOK
    <3>7. queued' \in [Conns -> SUBSET Nat]
      BY <2>1, <2>4 DEF TypeOK
    <3> QED
      BY <2>1, <2>2, <3>5, <3>6, <3>7 DEF TypeOK, Copy
  <2> QED
    BY <1>6, <2>3, <2>4, EnqueueCases, Zenon
<1>7. ASSUME NEW c \in Conns, Attach(c) PROVE TypeOK'
  BY <1>7 DEF Attach, TypeOK, Copy, loopVars
<1>8. ASSUME NEW c \in Conns, Break(c) PROVE TypeOK'
  BY <1>8 DEF Break, TypeOK, Copy, loopVars, histVars
<1>9. ASSUME NEW c \in Conns, Detach(c) PROVE TypeOK'
  BY <1>9 DEF Detach, TypeOK, Copy, loopVars
<1>10. ASSUME NEW c \in Conns, Close(c) PROVE TypeOK'
  BY <1>10 DEF Close, TypeOK, Copy, loopVars
<1>11. ASSUME NEW c \in Conns, Write(c) PROVE TypeOK'
  <2>1. /\ Head(sendQ[c]) \in Chunks /\ Tail(sendQ[c]) \in Seq(Chunks)
        /\ Len(Tail(sendQ[c])) = Len(sendQ[c]) - 1 /\ Len(sendQ[c]) \in Nat
    BY <1>11 DEF Write, TypeOK
  <2>2. /\ Append(wire[c], Head(sendQ[c])) \in Seq(Chunks)
        /\ Len(Append(wire[c], Head(sendQ[c]))) = Len(wire[c]) + 1
        /\ Len(wire[c]) \in Nat
    BY <2>1 DEF TypeOK
  <2>3. sendQ' \in [Conns -> Seq(Chunks)] /\ wire' \in [Conns -> Seq(Chunks)]
    BY <1>11, <2>1, <2>2 DEF Write, TypeOK
  <2>4. \A d \in Conns : Len(sendQ'[d]) <= SendQueueSize
    BY <1>11, <2>1 DEF Write, TypeOK
  <2>5. \A d \in Conns : Len(wire'[d]) <= Window
    BY <1>11, <2>2 DEF Write, TypeOK
  <2> QED
    BY <1>11, <2>3, <2>4, <2>5 DEF Write, TypeOK, Copy, loopVars, histVars
<1>12. CASE Cancel
  BY <1>12 DEF Cancel, TypeOK, Copy, loopVars, connVars, histVars
<1>13. CASE UNCHANGED vars
  BY <1>13 DEF vars, TypeOK, Copy, loopVars, connVars, histVars
<1> QED
  BY <1>1, <1>2, <1>3, <1>4, <1>5, <1>6, <1>7, <1>8, <1>9, <1>10, <1>11, <1>12, <1>13
     DEF Next, LoopStep, CloseStep

(* Every variable of the sending half keeps its type, and no send queue    *)
(* outgrows its channel, whatever its size.                                *)
THEOREM TypeCorrect == Spec => []TypeOK
<1>1. Init => TypeOK
  BY InitType
<1>2. TypeOK /\ [Next]_vars => TypeOK'
  BY NextType
<1> QED
  BY <1>1, <1>2, PTL DEF Spec

-----------------------------------------------------------------------------
(* The loop's position and the table keep to LoopInv and TableInv.         *)
LEMMA NextTable ==
    TypeOK /\ LoopInv /\ TableInv /\ [Next]_vars => LoopInv' /\ TableInv'
<1> SUFFICES ASSUME TypeOK, LoopInv, TableInv, [Next]_vars PROVE LoopInv' /\ TableInv'
  OBVIOUS
<1> USE NamesAssumption DEF LoopInv, TableInv
<1>1. ASSUME NEW p \in Payloads, TakeEvent(p) PROVE LoopInv' /\ TableInv'
  <2>1. copied' # <<>>
    BY <1>1, AppendProperties DEF TakeEvent, TypeOK
  <2>2. loop' = "frame" /\ seq' = 1 /\ held' = NoConn /\ UNCHANGED <<table, life>>
    BY <1>1 DEF TakeEvent, StartFrame, connVars
  <2>3. queued' = [c \in Conns |-> {}] /\ since' = OpenInTable
    BY <1>1 DEF TakeEvent
  <2> QED
    BY <2>1, <2>2, <2>3 DEF OpenInTable
<1>2. CASE LoopExit
  BY <1>2 DEF LoopExit, connVars, histVars
<1>3. CASE FrameDone
  BY <1>3 DEF FrameDone, StartFrame, TypeOK, connVars, histVars
<1>4. ASSUME NEW p \in Peers, Visit(p) PROVE LoopInv' /\ TableInv'
  BY <1>4 DEF Visit, TypeOK, connVars, histVars
<1>5. ASSUME NEW p \in Others, VisitOther(p) PROVE LoopInv' /\ TableInv'
  BY <1>5 DEF VisitOther, connVars, histVars
<1>6. CASE Enqueue
  <2>1. held' = NoConn /\ UNCHANGED <<copied, loop, seq, todo, table, life, since>>
    BY <1>6 DEF Enqueue
  <2>2. \A c \in Conns : life[c] \in {"new", "closed"} => queued'[c] = queued[c]
    BY <1>6, EnqueueCases DEF Enqueue, TypeOK
  <2> QED
    BY <2>1, <2>2
<1>7. ASSUME NEW c \in Conns, Attach(c) PROVE LoopInv' /\ TableInv'
  BY <1>7 DEF Attach, TypeOK, loopVars
<1>8. ASSUME NEW c \in Conns, Break(c) PROVE LoopInv' /\ TableInv'
  BY <1>8 DEF Break, TypeOK, loopVars, histVars
<1>9. ASSUME NEW c \in Conns, Detach(c) PROVE LoopInv' /\ TableInv'
  BY <1>9 DEF Detach, TypeOK, loopVars
<1>10. ASSUME NEW c \in Conns, Close(c) PROVE LoopInv' /\ TableInv'
  BY <1>10 DEF Close, CloseDue, TypeOK, loopVars
<1>11. ASSUME NEW c \in Conns, Write(c) PROVE LoopInv' /\ TableInv'
  BY <1>11 DEF Write, loopVars, histVars
<1>12. CASE Cancel
  BY <1>12 DEF Cancel, loopVars, connVars, histVars
<1>13. CASE UNCHANGED vars
  BY <1>13 DEF vars, loopVars, connVars, histVars
<1> QED
  BY <1>1, <1>2, <1>3, <1>4, <1>5, <1>6, <1>7, <1>8, <1>9, <1>10, <1>11, <1>12, <1>13
     DEF Next, LoopStep, CloseStep

(* A chunk is given only to a connection that holds the one before it or   *)
(* none at all, so no action leaves a hole.                                *)
LEMMA NextHole ==
    TypeOK /\ LoopInv /\ TableInv /\ HoleInv /\ NoHole /\ [Next]_vars => HoleInv' /\ NoHole'
<1> SUFFICES ASSUME TypeOK, LoopInv, TableInv, HoleInv, NoHole, [Next]_vars
             PROVE  HoleInv' /\ NoHole'
  OBVIOUS
<1> USE NamesAssumption
<1>1. ASSUME NEW p \in Payloads, TakeEvent(p) PROVE HoleInv' /\ NoHole'
  BY <1>1 DEF TakeEvent, HoleInv, NoHole
<1>2. CASE LoopExit
  BY <1>2 DEF LoopExit, HoleInv, NoHole, histVars
<1>3. CASE FrameDone
  <2>1. NoHole'
    BY <1>3 DEF FrameDone, NoHole, histVars
  <2>2. CASE loop' = "select"
    BY <2>1, <2>2 DEF HoleInv
  <2>3. CASE NextChunk /\ StartFrame(seq + 1)
    <3>1. /\ loop = "frame" /\ todo = {} /\ held = NoConn /\ held' = NoConn /\ ~failed
          /\ seq' = seq + 1 /\ todo' = Peers \cup Others /\ UNCHANGED <<table, queued>>
      BY <1>3, <2>3 DEF FrameDone, NextChunk, StartFrame, connVars, histVars
    <3> SUFFICES ASSUME NEW c \in Conns
                 PROVE  /\ queued[c] \subseteq 1 .. seq + 1
                        /\ table[PeerOf[c]] = c => queued[c] = {} \/ seq \in queued[c]
      BY <2>1, <3>1 DEF HoleInv, InLine, Passed, TypeOK
    <3>2. queued[c] \subseteq 1 .. seq
      BY <3>1 DEF HoleInv
    <3>3. queued[c] \subseteq 1 .. seq + 1
      BY <3>2 DEF TypeOK
    <3> QED
      BY <3>1, <3>3 DEF HoleInv, Passed
  <2> QED
    BY <1>3, <2>2, <2>3 DEF FrameDone
<1>4. ASSUME NEW p \in Peers, Visit(p) PROVE HoleInv' /\ NoHole'
  <2>1. /\ held = NoConn /\ held' = table[p] /\ p \in todo /\ todo' = todo \ {p}
        /\ UNCHANGED <<loop, seq, failed, table, queued>>
    BY <1>4 DEF Visit, connVars, histVars
  <2>2. ASSUME NEW c \in Conns PROVE (InLine(c)' => InLine(c)) /\
                                     (Passed(c)' /\ table[PeerOf[c]] = c => Passed(c))
    BY <2>1, <2>2 DEF InLine, Passed, TableInv
  <2> QED
    BY <2>1, <2>2 DEF HoleInv, NoHole
<1>5. ASSUME NEW p \in Others, VisitOther(p) PROVE HoleInv' /\ NoHole'
  <2>1. /\ todo' = todo \ {p} /\ UNCHANGED <<loop, seq, held, table, queued>>
    BY <1>5 DEF VisitOther, connVars, histVars
  <2>2. failed => failed'
    BY <1>5 DEF VisitOther
  <2>3. ASSUME NEW c \in Conns PROVE (InLine(c)' => InLine(c)) /\ (Passed(c)' => Passed(c))
    BY <2>1, <2>3 DEF InLine, Passed
  <2> QED
    BY <2>1, <2>2, <2>3 DEF HoleInv, NoHole
<1>6. CASE Enqueue
  <2>h. PICK h \in Conns : h = held
    BY <1>6, EnqueueCases
  <2>1. /\ held = h /\ held' = NoConn /\ loop = "frame"
        /\ UNCHANGED <<loop, seq, todo, table, life>>
    BY <1>6, <2>h DEF Enqueue, LoopInv
  <2>2. ASSUME NEW c \in Conns, c # h, queued'[c] = queued[c], failed => failed'
        PROVE  /\ queued'[c] \subseteq 1 .. seq
               /\ InLine(c)' => queued'[c] = {} \/ seq - 1 \in queued'[c]
               /\ ~failed' /\ Passed(c)' /\ table[PeerOf[c]] = c
                     => queued'[c] = {} \/ seq \in queued'[c]
    BY <2>1, <2>2 DEF HoleInv, InLine, Passed
  <2>3. ~InLine(h)'
    BY <2>1 DEF InLine, LoopInv
  <2>4. CASE UNCHANGED queued /\ life[h] = "closed" /\ failed' = failed
    <3>1. queued'[h] = {}
      BY <2>1, <2>4 DEF TableInv
    <3> QED
      BY <2>1, <2>2, <2>3, <2>4, <3>1 DEF HoleInv, NoHole
  <2>5. CASE UNCHANGED queued /\ failed'
    BY <2>1, <2>2, <2>3, <2>5 DEF HoleInv, NoHole
  <2>6. CASE queued' = [queued EXCEPT ![h] = @ \cup {seq}] /\ failed' = failed
    <3>1. seq \in Nat /\ seq > 0
      BY <2>1 DEF TypeOK, LoopInv
    <3>2. /\ queued[h] \subseteq 1 .. seq
          /\ queued[h] = {} \/ seq - 1 \in queued[h]
      BY <2>1 DEF HoleInv, InLine
    <3>3. queued'[h] = queued[h] \cup {seq} /\ queued[h] \subseteq Nat
      BY <2>1, <2>6 DEF TypeOK
    <3>4. \A c \in Conns : c # h => queued'[c] = queued[c]
      BY <2>1, <2>6 DEF TypeOK
    <3>5. ASSUME NEW m \in queued'[h], NEW n \in queued'[h]
          PROVE  m .. n \subseteq queued'[h]
      <4>1. CASE n = seq /\ m # seq
        <5>1. seq - 1 \in queued[h] /\ m \in queued[h]
          BY <3>2, <3>3, <3>5, <4>1
        <5>2. m .. seq - 1 \subseteq queued[h]
          BY <2>1, <5>1 DEF NoHole
        <5> QED
          BY <3>1, <3>3, <4>1, <5>1, <5>2
      <4>2. CASE m = seq
        BY <3>1, <3>2, <3>3, <3>5, <4>2
      <4>3. CASE n # seq /\ m # seq
        BY <2>1, <3>3, <3>5, <4>3 DEF NoHole
      <4> QED
        BY <4>1, <4>2, <4>3
    <3>6. NoHole'
      BY <3>4, <3>5 DEF NoHole
    <3>7. queued'[h] \subseteq 1 .. seq
      BY <3>1, <3>2, <3>3
    <3> QED
      BY <2>1, <2>2, <2>3, <2>6, <3>3, <3>4, <3>6, <3>7 DEF HoleInv
  <2> QED
    BY <1>6, <2>h, <2>4, <2>5, <2>6, EnqueueCases, Zenon
<1>7. ASSUME NEW c \in Conns, Attach(c) PROVE HoleInv' /\ NoHole'
  <2>1. /\ queued[c] = {} /\ table' = [table EXCEPT ![PeerOf[c]] = c]
        /\ UNCHANGED <<loop, seq, todo, held, failed, queued>>
    BY <1>7 DEF Attach, loopVars, TableInv
  <2>2. ASSUME NEW d \in Conns, d # c, table'[PeerOf[d]] = d PROVE table[PeerOf[d]] = d
    BY <2>1, <2>2 DEF TypeOK
  <2> QED
    BY <2>1, <2>2 DEF HoleInv, NoHole, InLine, Passed
<1>8. ASSUME NEW c \in Conns, Break(c) PROVE HoleInv' /\ NoHole'
  BY <1>8 DEF Break, HoleInv, NoHole, InLine, Passed, loopVars, histVars
<1>9. ASSUME NEW c \in Conns, Detach(c) PROVE HoleInv' /\ NoHole'
  <2>1. /\ table' = [table EXCEPT ![PeerOf[c]] = NoConn]
        /\ UNCHANGED <<loop, seq, todo, held, failed, queued>>
    BY <1>9 DEF Detach, loopVars
  <2>2. ASSUME NEW d \in Conns, table'[PeerOf[d]] = d PROVE table[PeerOf[d]] = d
    BY <2>1, <2>2 DEF TypeOK
  <2> QED
    BY <2>1, <2>2 DEF HoleInv, NoHole, InLine, Passed
<1>10. ASSUME NEW c \in Conns, Close(c) PROVE HoleInv' /\ NoHole'
  <2>1. /\ queued' = [queued EXCEPT ![c] = {}]
        /\ UNCHANGED <<loop, seq, todo, held, failed, table>>
    BY <1>10 DEF Close, loopVars
  <2>2. queued'[c] = {} /\ \A d \in Conns : d # c => queued'[d] = queued[d]
    BY <2>1 DEF TypeOK
  <2> QED
    BY <2>1, <2>2 DEF HoleInv, NoHole, InLine, Passed
<1>11. ASSUME NEW c \in Conns, Write(c) PROVE HoleInv' /\ NoHole'
  BY <1>11 DEF Write, HoleInv, NoHole, InLine, Passed, loopVars, histVars
<1>12. CASE Cancel
  BY <1>12 DEF Cancel, HoleInv, NoHole, InLine, Passed, loopVars, connVars, histVars
<1>13. CASE UNCHANGED vars
  BY <1>13 DEF vars, HoleInv, NoHole, InLine, Passed, loopVars, connVars, histVars
<1> QED
  BY <1>1, <1>2, <1>3, <1>4, <1>5, <1>6, <1>7, <1>8, <1>9, <1>10, <1>11, <1>12, <1>13
     DEF Next, LoopStep, CloseStep

(* What a connection followed since the payload began was not given, some  *)
(* call of Broadcast has reported.                                         *)
LEMMA NextClean ==
    TypeOK /\ LoopInv /\ TableInv /\ CleanInv /\ CleanMeansQueued /\ [Next]_vars
        => CleanInv' /\ CleanMeansQueued'
<1> SUFFICES ASSUME TypeOK, LoopInv, TableInv, CleanInv, CleanMeansQueued, [Next]_vars
             PROVE  CleanInv' /\ CleanMeansQueued'
  OBVIOUS
<1> USE NamesAssumption
<1>a. since \subseteq Conns /\ seq \in Nat
  BY DEF TypeOK
<1>b. ASSUME UNCHANGED <<copied, loop, seq, todo, held, failed>>, since' \subseteq since,
             \A c \in since' : queued'[c] = queued[c]
      PROVE  CleanInv' /\ CleanMeansQueued'
  BY <1>b DEF CleanInv, CleanMeansQueued, Whole, Passed, Copy
<1>1. ASSUME NEW p \in Payloads, TakeEvent(p) PROVE CleanInv' /\ CleanMeansQueued'
  <2>1. /\ loop' = "frame" /\ seq' = 1 /\ todo' = Peers \cup Others
        /\ since' \subseteq Conns
    BY <1>1 DEF TakeEvent, StartFrame, OpenInTable
  <2> QED
    BY <2>1 DEF CleanInv, CleanMeansQueued, Passed
<1>2. CASE LoopExit
  BY <1>2 DEF LoopExit, CleanInv, CleanMeansQueued
<1>3. CASE FrameDone
  <2>1. /\ loop = "frame" /\ todo = {} /\ held = NoConn
        /\ UNCHANGED <<copied, held, queued, since>>
    BY <1>3 DEF FrameDone, histVars
  <2>2. ~failed => \A c \in since : 1 .. seq \subseteq queued[c]
    <3> SUFFICES ASSUME ~failed, NEW c \in since PROVE 1 .. seq \subseteq queued[c]
      OBVIOUS
    <3>1. 1 .. seq - 1 \subseteq queued[c] /\ seq \in queued[c]
      BY <1>a, <2>1 DEF CleanInv, Passed
    <3> QED
      BY <1>a, <3>1
  <2>3. CASE NextChunk /\ StartFrame(seq + 1)
    <3>1. loop' = "frame" /\ seq' = seq + 1 /\ todo' = Peers \cup Others /\ ~failed
      BY <2>3 DEF NextChunk, StartFrame
    <3> QED
      BY <1>a, <2>1, <2>2, <3>1 DEF CleanInv, CleanMeansQueued, Passed
  <2>4. CASE ~NextChunk /\ loop' = "select" /\ failed' = failed
    <3>1. NumChunks[copied[Copy]] \in Nat
      <4>1. Copy \in Nat /\ Copy \in 1 .. Copy
        BY <2>1, EmptySeq DEF LoopInv, TypeOK, Copy
      <4>2. copied[Copy] \in Payloads
        BY <4>1, ElementOfSeq DEF TypeOK, Copy
      <4> QED
        BY <4>2, CopyAssumption
    <3>2. ~failed => NumChunks[copied[Copy]] <= seq
      BY <1>a, <2>4, <3>1 DEF NextChunk
    <3>3. ~failed => \A c \in since : 1 .. NumChunks[copied[Copy]] \subseteq queued[c]
      BY <1>a, <2>2, <3>1, <3>2
    <3> QED
      BY <2>1, <2>4, <3>3 DEF CleanInv, CleanMeansQueued, Whole, Copy
  <2> QED
    BY <1>3, <2>3, <2>4 DEF FrameDone
<1>4. ASSUME NEW p \in Peers, Visit(p) PROVE CleanInv' /\ CleanMeansQueued'
  <2>1. /\ held = NoConn /\ held' = table[p] /\ p \in todo /\ todo' = todo \ {p}
        /\ UNCHANGED <<copied, loop, seq, failed, queued, since>>
    BY <1>4 DEF Visit, histVars
  <2>2. loop = "frame"
    BY <2>1 DEF LoopInv
  <2>3. \A c \in since : Passed(c)' => Passed(c)
    BY <1>a, <2>1 DEF Passed, TableInv
  <2> QED
    BY <2>1, <2>2, <2>3 DEF CleanInv, CleanMeansQueued
<1>5. ASSUME NEW p \in Others, VisitOther(p) PROVE CleanInv' /\ CleanMeansQueued'
  <2>1. /\ p \in todo /\ todo' = todo \ {p}
        /\ UNCHANGED <<copied, loop, seq, held, queued, since>>
    BY <1>5 DEF VisitOther, histVars
  <2>2. loop = "frame"
    BY <2>1 DEF LoopInv
  <2>4. failed => failed'
    BY <1>5 DEF VisitOther
  <2>3. \A c \in since : Passed(c)' => Passed(c)
    BY <1>a, <2>1 DEF Passed
  <2> QED
    BY <2>1, <2>2, <2>3, <2>4 DEF CleanInv, CleanMeansQueued
<1>6. CASE Enqueue
  <2>h. PICK h \in Conns : h = held
    BY <1>6, EnqueueCases
  <2>1. /\ held = h /\ held' = NoConn /\ loop = "frame"
        /\ UNCHANGED <<copied, loop, seq, todo, life, since>>
    BY <1>6, <2>h DEF Enqueue, LoopInv
  <2>2. \A c \in since : c # h /\ Passed(c)' => Passed(c)
    BY <2>1 DEF Passed
  <2>3. CASE UNCHANGED queued /\ life[h] = "closed" /\ failed' = failed
    <3>1. h \notin since
      BY <2>3 DEF TableInv
    <3> QED
      BY <2>1, <2>2, <2>3, <3>1 DEF CleanInv, CleanMeansQueued
  <2>4. CASE UNCHANGED queued /\ failed'
    BY <2>1, <2>4 DEF CleanInv, CleanMeansQueued
  <2>5. CASE queued' = [queued EXCEPT ![h] = @ \cup {seq}] /\ failed' = failed
    <3>1. /\ queued'[h] = queued[h] \cup {seq}
          /\ \A c \in since : c # h => queued'[c] = queued[c]
      BY <1>a, <2>5 DEF TypeOK
    <3> QED
      BY <2>1, <2>2, <2>5, <3>1 DEF CleanInv, CleanMeansQueued
  <2> QED
    BY <1>6, <2>h, <2>3, <2>4, <2>5, EnqueueCases, Zenon
<1>7. ASSUME NEW c \in Conns, Attach(c) PROVE CleanInv' /\ CleanMeansQueued'
  BY <1>7, <1>b DEF Attach, loopVars
<1>8. ASSUME NEW c \in Conns, Break(c) PROVE CleanInv' /\ CleanMeansQueued'
  BY <1>8, <1>b DEF Break, loopVars, histVars
<1>9. ASSUME NEW c \in Conns, Detach(c) PROVE CleanInv' /\ CleanMeansQueued'
  BY <1>9, <1>b DEF Detach, loopVars
<1>10. ASSUME NEW c \in Conns, Close(c) PROVE CleanInv' /\ CleanMeansQueued'
  <2>1. since' \subseteq since /\ \A d \in since' : queued'[d] = queued[d]
    BY <1>10, <1>a DEF Close, TypeOK
  <2> QED
    BY <1>10, <1>b, <2>1 DEF Close, loopVars
<1>11. ASSUME NEW c \in Conns, Write(c) PROVE CleanInv' /\ CleanMeansQueued'
  BY <1>11, <1>b DEF Write, loopVars, histVars
<1>12. CASE Cancel
  BY <1>12, <1>b DEF Cancel, loopVars, histVars
<1>13. CASE UNCHANGED vars
  BY <1>13, <1>b DEF vars, loopVars, histVars
<1> QED
  BY <1>1, <1>2, <1>3, <1>4, <1>5, <1>6, <1>7, <1>8, <1>9, <1>10, <1>11, <1>12, <1>13
     DEF Next, LoopStep, CloseStep

-----------------------------------------------------------------------------
(* SendInv is an invariant of the sending half.                            *)
LEMMA SendInvariant == Spec => []SendInv
<1>1. Init => SendInv
  BY InitType DEF Init, SendInv, LoopInv, TableInv, HoleInv, NoHole, CleanInv,
                  CleanMeansQueued
<1>2. SendInv /\ [Next]_vars => SendInv'
  BY NextType, NextTable, NextHole, NextClean DEF SendInv
<1> QED
  BY <1>1, <1>2, PTL DEF Spec

(* A connection never carries a payload with a hole in it, whatever the    *)
(* number of peers and chunks, the size of the send queues and the moment  *)
(* at which connections break, are replaced and close.                     *)
THEOREM QueuesHaveNoHole == Spec => []NoHole
BY SendInvariant, PTL DEF SendInv

(* When broadcastPayload returns nil, every connection that stayed in the  *)
(* table since it began has been given the whole payload.                  *)
THEOREM NilErrorMeansQueued == Spec => []CleanMeansQueued
BY SendInvariant, PTL DEF SendInv
=============================================================================
