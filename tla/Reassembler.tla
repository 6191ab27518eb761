---------------------------- MODULE Reassembler -----------------------------
(***************************************************************************)
(* One clipwire.Reassembler.  Chunks of any payload may arrive in any      *)
(* order, again and again, or never: a mesh has several senders of the     *)
(* same content, connections break between two chunks, and every readPump  *)
(* calls the one Reassembler (under its mutex).                            *)
(***************************************************************************)
EXTENDS Chunking

CONSTANT StrayChunks    \* chunks no ChunkPayload of a valid payload produces

AllChunks == SentChunks \cup StrayChunks

(* What may be recorded of a transfer.                                     *)
Entries == EntriesOf(AllChunks)

ASSUME StrayAssumption ==
    /\ StrayChunks \subseteq [id : Ids, seq : Nat, total : Nat, size : Nat, data : Seq(STRING)]
    /\ NoState \notin Entries

VARIABLES
    inflight,       \* r.inflight: id -> reassemblyState or NoState
    result,         \* what the last Add returned
    seen            \* history: the sent chunks handed to Add

vars == <<inflight, result, seen>>

Init ==
    /\ inflight = NoTransfers
    /\ result = Incomplete
    /\ seen = {}

(* handleFrame hands one decoded chunk to Add.                             *)
Receive(c) ==
    /\ LET added == Add(inflight, c)
       IN  inflight' = added.table /\ result' = added.result
    /\ seen' = seen \cup ({c} \cap SentChunks)

Next == \E c \in AllChunks : Receive(c)

Spec == Init /\ [][Next]_vars

-----------------------------------------------------------------------------
(* The recorded bytes, each as its chunk and its place in it.              *)
Bytes(st) == UNION {{i} \X (1 .. Len(st.chunks[i])) : i \in DOMAIN st.chunks}

(* An entry that stays in the table is a proper part of its transfer: its  *)
(* sequence numbers are in range, at least one is missing, and             *)
(* receivedBytes counts exactly the recorded data.  So when the last chunk *)
(* arrives no index is missing and the branch for a missing part is dead.  *)
EntriesIncomplete ==
    \A id \in Ids : inflight[id] # NoState =>
        LET st == inflight[id] IN
        /\ DOMAIN st.chunks \subseteq 0 .. st.total - 1
        /\ Cardinality(DOMAIN st.chunks) \in 1 .. st.total - 1
        /\ st.received = Cardinality(Bytes(st))

(* Only a valid payload is delivered, only under the id of its own content *)
(* and only after every chunk of it was received: chunks of other contents,*)
(* of messages with a wrong hash or type, of other serialisations or chunk *)
(* sizes and stray chunks never complete or alter it, in whatever order    *)
(* and however often they arrive.                                          *)
NoFabrication ==
    result.kind = "complete" =>
        /\ ValidatePayload(result.payload) /\ Fields[result.payload].sum = result.id
        /\ \E n \in ChunkSizes : ToSet(ChunkPayload(result.payload, n)) \subseteq seen

(* The table and the result after each chunk of cs, handed over in order.  *)
AddAll(t, cs) ==
    LET after[k \in 0 .. Len(cs)] ==
            IF k = 0 THEN [table |-> t, result |-> Incomplete]
            ELSE Add(after[k - 1].table, cs[k])
    IN  after

Twice(p, n) == ChunkPayload(p, n) \o ChunkPayload(p, n)

(* Whatever earlier, partial, repeated or concurrent transfers have left   *)
(* behind, sending a payload in full delivers that payload, at the latest  *)
(* the second time: a transfer cut off by a lost connection, a late        *)
(* duplicate or a wrong chunk does not block a content, unless the entry   *)
(* left behind declares another split of the bytes.                        *)
RetransmissionHeals ==
    \A p \in ValidPayloads : \A n \in ChunkSizes :
        \/ inflight[HashOf[p]] # NoState /\ Mismatch(inflight[HashOf[p]], ChunkPayload(p, n)[1])
        \/ \E k \in 1 .. Len(Twice(p, n)) :
              AddAll(inflight, Twice(p, n))[k].result = Complete(p, HashOf[p])
=============================================================================
