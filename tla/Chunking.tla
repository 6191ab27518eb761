------------------------------ MODULE Chunking -------------------------------
(***************************************************************************)
(* clipwire's ChunkPayload and Reassembler.Add as operators on their       *)
(* arguments and on the table of unfinished transfers.                     *)
(*                                                                         *)
(* A byte is a model value.  Protobuf and SHA-256 are external: Serial is  *)
(* the serialised form of a message, a byte string that is not one does    *)
(* not unmarshal, and a content is known by its hash.                      *)
(***************************************************************************)
EXTENDS Integers, Sequences, FiniteSets, SequencesExt

CONSTANTS
    Payloads,       \* ClipboardPayload messages, valid or not
    Ids,            \* transfer ids: hashes of contents
    HashOf,         \* payload -> id (payload.Sha256)
    Fields,         \* payload -> its other fields, see FieldsType
    MaxPayloadBytes,
    Serial,         \* payload -> its bytes (proto.Marshal)
    ChunkSizes,     \* chunk sizes senders use
    NoState         \* no entry in r.inflight

PayloadTypes == {"TEXT", "URL", "IMAGE"}
ImageMIMETypes == {"image/png", "image/jpeg"}

(* sum is ComputeContentSHA256 of the data, len and utf8 are about the data *)
FieldsType ==
    [type : PayloadTypes \cup {"UNSPECIFIED"}, mime : ImageMIMETypes \cup {"", "text/html"},
     len : Nat, size : Nat, utf8 : BOOLEAN, sum : Ids]

ASSUME PayloadAssumption ==
    /\ HashOf \in [Payloads -> Ids] /\ Fields \in [Payloads -> FieldsType]
    /\ MaxPayloadBytes \in Nat
    /\ \A p \in Payloads : Serial[p] \in Seq(STRING) /\ Len(Serial[p]) > 0
    /\ \A p, q \in Payloads : Serial[p] = Serial[q] => p = q
    /\ ChunkSizes \subseteq Nat \ {0}

ValidatePayload(p) ==
    LET f == Fields[p] IN
    /\ f.type \in PayloadTypes
    /\ f.len <= MaxPayloadBytes /\ f.size = f.len
    /\ IF f.type = "IMAGE" THEN f.mime \in ImageMIMETypes ELSE f.mime = "" /\ f.utf8
    /\ f.sum = HashOf[p]

ValidPayloads == {p \in Payloads : ValidatePayload(p)}

(* Ceiling division, then slices of chunkSize bytes; p is a valid payload. *)
ChunkPayload(p, chunkSize) ==
    LET bytes == Serial[p]
        totalChunks == (Len(bytes) + chunkSize - 1) \div chunkSize
        end(i) == IF i * chunkSize < Len(bytes) THEN i * chunkSize ELSE Len(bytes)
    IN  [i \in 1 .. totalChunks |->
            [id |-> HashOf[p], seq |-> i - 1, total |-> totalChunks, size |-> Len(bytes),
             data |-> SubSeq(bytes, (i - 1) * chunkSize + 1, end(i))]]

SentChunks == UNION {ToSet(ChunkPayload(p, n)) : p \in ValidPayloads, n \in ChunkSizes}

(* What may be recorded of a transfer whose chunks are among cs.           *)
PartsOf(cs) == UNION {[D -> {c.data : c \in cs}] : D \in SUBSET {c.seq : c \in cs}}
EntriesOf(cs) ==
    [total : {c.total : c \in cs}, size : {c.size : c \in cs},
     chunks : PartsOf(cs), received : Nat]

validateChunk(c) ==
    /\ c.total > 0 /\ c.seq < c.total
    /\ c.size > 0 /\ Len(c.data) > 0
    /\ Len(c.data) <= c.size

NewState(c) ==
    [total |-> c.total, size |-> c.size, chunks |-> [i \in {} |-> <<>>], received |-> 0]

(* Mutant: receivedBytes is not updated.                                   *)
RecordUncounted(st, c) ==
    [st EXCEPT !.chunks = [i \in DOMAIN st.chunks \cup {c.seq} |->
                              IF i = c.seq THEN c.data ELSE st.chunks[i]]]

Record(st, c) ==
    [st EXCEPT !.chunks = [i \in DOMAIN st.chunks \cup {c.seq} |->
                              IF i = c.seq THEN c.data ELSE st.chunks[i]],
               !.received = @ + Len(c.data)]

Concat(st) == FlattenSeq([i \in 1 .. st.total |-> st.chunks[i - 1]])

(* proto.Unmarshal and ValidatePayload: the payload with these bytes.      *)
Decoded(bytes) == {p \in ValidPayloads : Serial[p] = bytes}

Incomplete == [kind |-> "incomplete"]
Failed(e)  == [kind |-> "error", err |-> e]
Complete(p, id) == [kind |-> "complete", payload |-> p, id |-> id]

(* Mutant: the hash of the content is not compared with the transfer id.   *)
FinishUnchecked(st, id) ==
    IF st.received # st.size THEN Failed("ErrChunkSetSizeMismatch")
    ELSE LET ps == Decoded(Concat(st)) IN
         IF ps = {} THEN Failed("invalid payload")
         ELSE Complete(CHOOSE q \in ps : TRUE, id)

(* What Add does with the recorded state st of a transfer whose last chunk *)
(* is in.  Every outcome removes the entry.                                *)
Finish(st, id) ==
    IF st.received # st.size THEN Failed("ErrChunkSetSizeMismatch")
    ELSE LET ps == Decoded(Concat(st)) IN
         IF ps = {} THEN Failed("invalid payload")
         ELSE LET p == CHOOSE q \in ps : TRUE IN
              IF HashOf[p] # id THEN Failed("ErrTransferHashMismatch")
              ELSE Complete(p, id)

Mismatch(st, c) == st.total # c.total \/ st.size # c.size

(* Mutant: the entry of a transfer that failed is kept.                    *)
KeepsFailed(table, st, id) ==
    [table |-> IF Finish(st, id).kind = "complete"
               THEN [table EXCEPT ![id] = NoState] ELSE [table EXCEPT ![id] = st],
     result |-> Finish(st, id)]

Completed(table, st, id) ==
    [table |-> [table EXCEPT ![id] = NoState], result |-> Finish(st, id)]

(* Reassembler.Add as a function of the table: the new table and result.   *)
Add(table, c) ==
    LET old == table[c.id]
        st  == IF old = NoState THEN NewState(c) ELSE old
        rec == Record(st, c)
    IN  IF ~validateChunk(c) THEN [table |-> table, result |-> Failed("invalid chunk")]
        ELSE IF Mismatch(st, c) THEN [table |-> table, result |-> Failed("ErrChunkMetadataMismatch")]
        ELSE IF c.seq \in DOMAIN st.chunks
        THEN [table |-> table,
              result |-> IF st.chunks[c.seq] = c.data THEN Incomplete
                         ELSE Failed("ErrConflictingChunk")]
        ELSE IF Cardinality(DOMAIN rec.chunks) # rec.total
        THEN [table |-> [table EXCEPT ![c.id] = rec], result |-> Incomplete]
        ELSE Completed(table, rec, c.id)

NoTransfers == [i \in Ids |-> NoState]
=============================================================================
