-------------------------- MODULE ReassemblerProofs --------------------------
(***************************************************************************)
(* Proofs about Reassembler: what its entries are in every reachable       *)
(* state, that ChunkPayload and reassembly are inverse to each other, that *)
(* a payload sent twice in full arrives whatever was there before, and     *)
(* that nothing arrives that was not sent.                                 *)
(***************************************************************************)
EXTENDS Reassembler, CountingLemmas

-----------------------------------------------------------------------------
(* Chunks of a payload.                                                    *)

(* Where the i-th chunk of n bytes of p ends, and what it holds.           *)
Cut(p, n, i) == IF i * n < Len(Serial[p]) THEN i * n ELSE Len(Serial[p])
Piece(p, n, i) == SubSeq(Serial[p], Cut(p, n, i - 1) + 1, Cut(p, n, i))
Count(p, n) == Len(ChunkPayload(p, n))

(* The cuts divide the bytes into Count(p, n) pieces that are not empty.   *)
LEMMA CutFacts ==
    ASSUME NEW p \in ValidPayloads, NEW n \in ChunkSizes
    PROVE  /\ Count(p, n) \in Nat \ {0}
           /\ Count(p, n) = (Len(Serial[p]) + n - 1) \div n
           /\ Serial[p] \in Seq(STRING) /\ Len(Serial[p]) \in Nat \ {0} /\ n \in Nat \ {0}
           /\ Cut(p, n, 0) = 0 /\ Cut(p, n, Count(p, n)) = Len(Serial[p])
           /\ \A i \in 0 .. Count(p, n) : Cut(p, n, i) \in 0 .. Len(Serial[p])
           /\ \A i \in 1 .. Count(p, n) :
                 /\ Cut(p, n, i - 1) = (i - 1) * n
                 /\ Cut(p, n, i - 1) < Cut(p, n, i)
<1> DEFINE L == Len(Serial[p])
           N == (L + n - 1) \div n
<1>1. Serial[p] \in Seq(STRING) /\ L \in Nat \ {0} /\ n \in Nat \ {0}
  <2>1. p \in Payloads
    BY DEF ValidPayloads
  <2> QED
    BY <2>1, PayloadAssumption, LenProperties
<1> HIDE DEF L
<1>2. L + n - 1 \in Nat
  BY <1>1
<1>3. N \in Nat /\ N * n <= L + n - 1 /\ L + n - 1 < N * n + n
  BY <1>1, <1>2, Division
<1>4. Count(p, n) = N
  <2> DEFINE end(i) == IF i * n < L THEN i * n ELSE L
             f == [i \in 1 .. N |->
                     [id |-> HashOf[p], seq |-> i - 1, total |-> N, size |-> L,
                      data |-> SubSeq(Serial[p], (i - 1) * n + 1, end(i))]]
             S == {f[i] : i \in 1 .. N}
  <2>1. ChunkPayload(p, n) = f
    BY DEF ChunkPayload, L
  <2>2. f \in [1 .. N -> S]
    OBVIOUS
  <2> HIDE DEF f, S, N
  <2> QED
    BY <1>3, <2>1, <2>2, FunctionIsSeq DEF Count
<1> HIDE DEF N
<1>5. N # 0
  BY <1>1, <1>3
<1>6. N * n >= L /\ (N - 1) * n < L
  BY <1>1, <1>3
<1>7. ASSUME NEW i \in 0 .. N - 1 PROVE i * n < L /\ i * n \in Nat
  <2>1. i * n <= (N - 1) * n
    BY <1>1, <1>3
  <2> QED
    BY <1>1, <1>3, <1>6, <2>1
<1>8. ASSUME NEW i \in 0 .. N - 1 PROVE Cut(p, n, i) = i * n /\ Cut(p, n, i) \in 0 .. L
  BY <1>1, <1>7 DEF Cut, L
<1>9. Cut(p, n, N) = L
  BY <1>1, <1>3, <1>6 DEF Cut, L
<1>10. Cut(p, n, 0) = 0
  BY <1>1, <1>3, <1>5, <1>8
<1>11. \A i \in 0 .. N : Cut(p, n, i) \in 0 .. L
  BY <1>1, <1>3, <1>8, <1>9
<1>12. ASSUME NEW i \in 1 .. N
       PROVE  Cut(p, n, i - 1) = (i - 1) * n /\ Cut(p, n, i - 1) < Cut(p, n, i)
  <2>1. i - 1 \in 0 .. N - 1
    BY <1>3
  <2>2. (i - 1) * n < L
    BY <1>7, <2>1
  <2>3. Cut(p, n, i - 1) = (i - 1) * n
    BY <1>8, <2>1
  <2>4. CASE i = N
    BY <1>9, <2>2, <2>3, <2>4
  <2>5. CASE i \in 0 .. N - 1
    <3>1. Cut(p, n, i) = i * n
      BY <1>8, <2>5
    <3>2. (i - 1) * n < i * n
      BY <1>1
    <3> QED
      BY <2>3, <3>1, <3>2
  <2> QED
    BY <1>3, <2>3, <2>4, <2>5
<1> QED
  BY <1>1, <1>3, <1>4, <1>5, <1>9, <1>10, <1>11, <1>12 DEF L, N

(* A piece is a byte string as long as its cuts are apart.                 *)
LEMMA PieceFacts ==
    ASSUME NEW p \in ValidPayloads, NEW n \in ChunkSizes, NEW i \in 1 .. Count(p, n)
    PROVE  /\ Piece(p, n, i) \in Seq(STRING)
           /\ Len(Piece(p, n, i)) = Cut(p, n, i) - Cut(p, n, i - 1)
           /\ Len(Piece(p, n, i)) \in 1 .. Len(Serial[p])
<1> DEFINE a == Cut(p, n, i - 1)
           b == Cut(p, n, i)
<1>1. /\ Serial[p] \in Seq(STRING) /\ Len(Serial[p]) \in Nat /\ Count(p, n) \in Nat
      /\ a \in 0 .. Len(Serial[p]) /\ b \in 0 .. Len(Serial[p]) /\ a < b
  <2>1. i - 1 \in 0 .. Count(p, n) /\ i \in 0 .. Count(p, n)
    BY CutFacts
  <2> QED
    BY <2>1, CutFacts
<1> HIDE DEF a, b
<1>2. a + 1 \in Int /\ b \in Int /\ \A k \in a + 1 .. b : Serial[p][k] \in STRING
  BY <1>1, LenProperties
<1>3. /\ SubSeq(Serial[p], a + 1, b) \in Seq(STRING)
      /\ Len(SubSeq(Serial[p], a + 1, b)) = b - a
  BY <1>1, <1>2, SubSeqProperties
<1> QED
  BY <1>1, <1>3 DEF Piece, a, b

(* What ChunkPayload makes of a valid payload.                             *)
LEMMA ChunkFacts ==
    ASSUME NEW p \in ValidPayloads, NEW n \in ChunkSizes
    PROVE  /\ DOMAIN ChunkPayload(p, n) = 1 .. Count(p, n)
           /\ \A i \in 1 .. Count(p, n) :
                 ChunkPayload(p, n)[i] =
                    [id |-> HashOf[p], seq |-> i - 1, total |-> Count(p, n),
                     size |-> Len(Serial[p]), data |-> Piece(p, n, i)]
<1>1. /\ Count(p, n) \in Nat \ {0}
      /\ Count(p, n) = (Len(Serial[p]) + n - 1) \div n
      /\ \A i \in 1 .. Count(p, n) : Cut(p, n, i - 1) = (i - 1) * n
  BY CutFacts
<1>2. DOMAIN ChunkPayload(p, n) = 1 .. Count(p, n)
  BY <1>1 DEF ChunkPayload
<1>3. ASSUME NEW i \in 1 .. Count(p, n)
      PROVE  ChunkPayload(p, n)[i] =
                [id |-> HashOf[p], seq |-> i - 1, total |-> Count(p, n),
                 size |-> Len(Serial[p]), data |-> Piece(p, n, i)]
  <2>1. Piece(p, n, i) = SubSeq(Serial[p], (i - 1) * n + 1, Cut(p, n, i))
    BY <1>1 DEF Piece
  <2>2. i \in 1 .. ((Len(Serial[p]) + n - 1) \div n)
    BY <1>1
  <2> QED
    BY <1>1, <2>1, <2>2 DEF ChunkPayload, Cut
<1> QED
  BY <1>2, <1>3

(* Reassembly undoes chunking: the pieces in their order are the bytes.    *)
THEOREM RoundTrip ==
    ASSUME NEW p \in ValidPayloads, NEW n \in ChunkSizes
    PROVE  FlattenSeq([i \in 1 .. Count(p, n) |-> Piece(p, n, i)]) = Serial[p]
<1> DEFINE N == Count(p, n)
           L == Len(Serial[p])
           f == [i \in 1 .. N |-> Piece(p, n, i)]
           h == [i \in 1 .. N |-> SubSeq(Serial[p], 1, Cut(p, n, i))]
           Eq(g) == g = [i \in 1 .. N |-> IF i = 1 THEN f[i] ELSE g[i - 1] \o f[i]]
           flat == CHOOSE g : Eq(g)
<1>1. N \in Nat \ {0} /\ L \in Nat /\ Serial[p] \in Seq(STRING)
  BY CutFacts
<1>2. Len(f) = N
  <2>1. f \in [1 .. N -> Seq(STRING)]
    BY PieceFacts
  <2> HIDE DEF f
  <2> QED
    BY <1>1, <2>1, FunctionIsSeq
<1>3. Eq(h)
  <2>1. h[1] = f[1]
    BY <1>1, CutFacts DEF Piece
  <2>2. ASSUME NEW i \in 2 .. N PROVE h[i] = h[i - 1] \o f[i]
    <3> DEFINE a == Cut(p, n, i - 1)
               b == Cut(p, n, i)
    <3>1. i \in 1 .. N /\ i - 1 \in 1 .. N /\ i - 1 \in 0 .. N /\ i \in 0 .. N
      BY <1>1
    <3>2. a \in 0 .. L /\ b \in 0 .. L /\ a < b
      BY <3>1, CutFacts
    <3>3. /\ h[i] = SubSeq(Serial[p], 1, b) /\ h[i - 1] = SubSeq(Serial[p], 1, a)
          /\ f[i] = SubSeq(Serial[p], a + 1, b)
      BY <3>1 DEF Piece
    <3> HIDE DEF a, b, f, h, L
    <3>4. 1 \in 1 .. L + 1 /\ a \in 1 - 1 .. L /\ b \in a .. L
      BY <1>1, <3>2
    <3>5. SubSeq(Serial[p], 1, a) \o SubSeq(Serial[p], a + 1, b) = SubSeq(Serial[p], 1, b)
      BY <1>1, <3>4, ConcatAdjacentSubSeq DEF L
    <3> QED
      BY <3>3, <3>5
  <2>3. DOMAIN h = 1 .. N /\ h = [i \in 1 .. N |-> h[i]]
    OBVIOUS
  <2> HIDE DEF h, f
  <2>4. \A i \in 1 .. N : h[i] = IF i = 1 THEN f[i] ELSE h[i - 1] \o f[i]
    <3> SUFFICES ASSUME NEW i \in 1 .. N
                 PROVE  h[i] = IF i = 1 THEN f[i] ELSE h[i - 1] \o f[i]
      OBVIOUS
    <3>1. i # 1 => i \in 2 .. N
      BY <1>1
    <3> HIDE DEF N
    <3> QED
      BY <2>1, <2>2, <3>1
  <2>5. [i \in 1 .. N |-> h[i]]
          = [i \in 1 .. N |-> IF i = 1 THEN f[i] ELSE h[i - 1] \o f[i]]
    BY <2>4
  <2> QED
    BY <2>3, <2>5
<1>4. Eq(flat)
  BY <1>3, Zenon
<1>5. FlattenSeq(f) = flat[N]
  BY <1>1, <1>2, Zenon DEF FlattenSeq
<1>6. \A i \in 0 .. N : i \in {j \in 0 .. N : j # 0 => flat[j] = h[j]}
  <2> DEFINE P == {j \in 0 .. N : j # 0 => flat[j] = h[j]}
  <2> HIDE DEF flat, h, f
  <2>1. 0 \in P
    BY <1>1
  <2>2. ASSUME NEW k \in 1 .. N, k - 1 \in P PROVE k \in P
    <3>1. flat[k] = IF k = 1 THEN f[k] ELSE flat[k - 1] \o f[k]
      BY <1>4
    <3>2. h[k] = IF k = 1 THEN f[k] ELSE h[k - 1] \o f[k]
      BY <1>3
    <3> QED
      BY <1>1, <2>2, <3>1, <3>2
  <2> HIDE DEF P
  <2>3. \A i \in 0 .. N : i \in P
    BY <1>1, <2>1, <2>2, UpTo
  <2> QED
    BY <2>3 DEF P
<1>7. flat[N] = h[N]
  <2> HIDE DEF N, h, flat
  <2>1. N \in 0 .. N /\ N # 0
    BY <1>1
  <2> QED
    BY <1>6, <2>1
<1> HIDE DEF flat, Eq
<1>8. h[N] = Serial[p]
  <2>1. h[N] = SubSeq(Serial[p], 1, Cut(p, n, N))
    <3>1. N \in 1 .. N
      BY <1>1
    <3> HIDE DEF N
    <3> QED
      BY <3>1
  <2>2. Cut(p, n, N) = L
    BY CutFacts
  <2>3. SubSeq(Serial[p], 1, L) = Serial[p]
    BY <1>1, SubSeqFull
  <2> QED
    BY <2>1, <2>2, <2>3
<1> HIDE DEF h, flat
<1> QED
  BY <1>5, <1>7, <1>8

-----------------------------------------------------------------------------
(* What Add keeps of a table.                                              *)

ChunkType == [id : Ids, seq : Nat, total : Nat, size : Nat, data : Seq(STRING)]

(* Every chunk has an id, three numbers and bytes.                         *)
LEMMA ChunksTyped == AllChunks \subseteq ChunkType
<1>1. ASSUME NEW c \in SentChunks PROVE c \in ChunkType
  <2>1. PICK p \in ValidPayloads, n \in ChunkSizes : c \in ToSet(ChunkPayload(p, n))
    BY <1>1 DEF SentChunks
  <2>2. PICK i \in 1 .. Count(p, n) : c = ChunkPayload(p, n)[i]
    <3>1. PICK i \in DOMAIN ChunkPayload(p, n) : c = ChunkPayload(p, n)[i]
      BY <2>1 DEF ToSet
    <3>2. DOMAIN ChunkPayload(p, n) = 1 .. Count(p, n)
      BY ChunkFacts
    <3> QED
      BY <3>1, <3>2
  <2>3. HashOf[p] \in Ids /\ i - 1 \in Nat /\ Count(p, n) \in Nat /\ Len(Serial[p]) \in Nat
    <3>1. p \in Payloads
      BY DEF ValidPayloads
    <3>2. Count(p, n) \in Nat /\ Len(Serial[p]) \in Nat
      BY CutFacts
    <3> QED
      BY <3>1, <3>2, PayloadAssumption
  <2> QED
    <3>1. Piece(p, n, i) \in Seq(STRING)
      BY PieceFacts
    <3>2. c = [id |-> HashOf[p], seq |-> i - 1, total |-> Count(p, n),
               size |-> Len(Serial[p]), data |-> Piece(p, n, i)]
      BY <2>2, ChunkFacts
    <3> QED
      BY <2>3, <3>1, <3>2 DEF ChunkType
<1> QED
  BY <1>1, StrayAssumption DEF AllChunks, ChunkType

(* An entry that may still be incomplete or not, and one that stays.       *)
Counted(st) ==
    /\ st \in Entries
    /\ DOMAIN st.chunks \subseteq 0 .. st.total - 1
    /\ IsFiniteSet(Bytes(st)) /\ st.received = Cardinality(Bytes(st))
Proper(st) == Counted(st) /\ Cardinality(DOMAIN st.chunks) \in 1 .. st.total - 1

TableInv(t) ==
    /\ t \in [Ids -> Entries \cup {NoState}]
    /\ \A id \in Ids : t[id] # NoState => Proper(t[id])

(* The fields of an entry.                                                 *)
LEMMA EntryFacts ==
    ASSUME NEW st \in Entries
    PROVE  /\ st.total \in Nat /\ st.size \in Nat /\ st.received \in Nat
           /\ DOMAIN st.chunks \subseteq {c.seq : c \in AllChunks}
           /\ st.chunks \in [DOMAIN st.chunks -> {c.data : c \in AllChunks}]
           /\ \A i \in DOMAIN st.chunks : st.chunks[i] \in Seq(STRING)
<1>1. /\ st.total \in {c.total : c \in AllChunks} /\ st.size \in {c.size : c \in AllChunks}
      /\ st.received \in Nat /\ st.chunks \in PartsOf(AllChunks)
  BY DEF Entries, EntriesOf
<1>2. st.total \in Nat /\ st.size \in Nat
  BY <1>1, ChunksTyped DEF ChunkType
<1>3. PICK D \in SUBSET {c.seq : c \in AllChunks} : st.chunks \in [D -> {c.data : c \in AllChunks}]
  BY <1>1 DEF PartsOf
<1>4. DOMAIN st.chunks = D
  BY <1>3
<1>5. {c.data : c \in AllChunks} \subseteq Seq(STRING)
  BY ChunksTyped DEF ChunkType
<1> QED
  BY <1>1, <1>2, <1>3, <1>4, <1>5

(* An entry's chunks are finitely many, at most as many as there are.      *)
LEMMA CountedFacts ==
    ASSUME NEW st, Counted(st)
    PROVE  /\ IsFiniteSet(DOMAIN st.chunks)
           /\ Cardinality(DOMAIN st.chunks) \in 0 .. st.total
           /\ Cardinality(DOMAIN st.chunks) = st.total =>
                 DOMAIN st.chunks = 0 .. st.total - 1
<1>1. st.total \in Nat
  BY EntryFacts DEF Counted
<1>2. IsFiniteSet(0 .. st.total - 1) /\ Cardinality(0 .. st.total - 1) = st.total
  <2>1. st.total - 1 \in Int /\ 0 \in Int
    BY <1>1
  <2>2. /\ IsFiniteSet(0 .. st.total - 1)
        /\ Cardinality(0 .. st.total - 1) = IF 0 > st.total - 1 THEN 0 ELSE st.total - 1 - 0 + 1
    BY <2>1, FS_Interval
  <2> QED
    BY <1>1, <2>2
<1>3. DOMAIN st.chunks \in SUBSET (0 .. st.total - 1)
  BY DEF Counted
<1>4. /\ IsFiniteSet(DOMAIN st.chunks)
      /\ Cardinality(DOMAIN st.chunks) <= Cardinality(0 .. st.total - 1)
      /\ Cardinality(0 .. st.total - 1) = Cardinality(DOMAIN st.chunks) =>
            0 .. st.total - 1 = DOMAIN st.chunks
  BY <1>2, <1>3, FS_Subset
<1>5. Cardinality(DOMAIN st.chunks) \in Nat
  BY <1>4, FS_CardinalityType
<1> QED
  BY <1>1, <1>2, <1>4, <1>5

(* A new entry has no bytes.                                               *)
LEMMA NewFacts ==
    ASSUME NEW c \in AllChunks, c.total > 0
    PROVE  Counted(NewState(c)) /\ DOMAIN NewState(c).chunks = {}
<1> DEFINE e == [i \in {} |-> <<>>]
<1>1. NewState(c) = [total |-> c.total, size |-> c.size, chunks |-> e, received |-> 0]
  BY DEF NewState
<1>2. e \in [{} -> {d.data : d \in AllChunks}] /\ DOMAIN e = {}
  OBVIOUS
<1> HIDE DEF e
<1>3. e \in PartsOf(AllChunks)
  BY <1>2 DEF PartsOf
<1>4. NewState(c) \in Entries
  BY <1>1, <1>3 DEF Entries, EntriesOf
<1>5. NewState(c).chunks = e /\ NewState(c).received = 0
  BY <1>1
<1>6. Bytes(NewState(c)) = {}
  BY <1>2, <1>5 DEF Bytes
<1>7. IsFiniteSet({}) /\ Cardinality({}) = 0
  BY FS_EmptySet
<1> QED
  BY <1>2, <1>4, <1>5, <1>6, <1>7 DEF Counted

(* Recording a chunk that is not there adds it and counts its bytes.       *)
LEMMA RecordFacts ==
    ASSUME NEW st, Counted(st), NEW c \in AllChunks,
           c.seq \notin DOMAIN st.chunks, c.seq < st.total
    PROVE  LET rec == Record(st, c) IN
           /\ Counted(rec) /\ rec.total = st.total /\ rec.size = st.size
           /\ DOMAIN rec.chunks = DOMAIN st.chunks \cup {c.seq}
           /\ rec.chunks[c.seq] = c.data
           /\ \A i \in DOMAIN st.chunks : rec.chunks[i] = st.chunks[i]
           /\ Cardinality(DOMAIN rec.chunks) = Cardinality(DOMAIN st.chunks) + 1
<1> DEFINE rec == Record(st, c)
           ch == [i \in DOMAIN st.chunks \cup {c.seq} |->
                     IF i = c.seq THEN c.data ELSE st.chunks[i]]
<1>1. st \in Entries /\ c \in ChunkType
  BY ChunksTyped DEF Counted
<1>2. /\ DOMAIN ch = DOMAIN st.chunks \cup {c.seq}
      /\ ch[c.seq] = c.data /\ \A i \in DOMAIN st.chunks : ch[i] = st.chunks[i]
  OBVIOUS
<1>3. ch \in PartsOf(AllChunks)
  <2>1. DOMAIN ch \in SUBSET {d.seq : d \in AllChunks}
    BY <1>1, <1>2, EntryFacts
  <2>2. ch \in [DOMAIN ch -> {d.data : d \in AllChunks}]
    BY <1>1, <1>2, EntryFacts
  <2> HIDE DEF ch
  <2> QED
    BY <2>1, <2>2 DEF PartsOf
<1>4. /\ rec = [total |-> st.total, size |-> st.size, chunks |-> ch,
                received |-> st.received + Len(c.data)]
  <2>1. /\ st = [total |-> st.total, size |-> st.size, chunks |-> st.chunks,
                  received |-> st.received]
    BY <1>1 DEF Entries, EntriesOf
  <2>2. rec = [st EXCEPT !.chunks = ch, !.received = @ + Len(c.data)]
    BY DEF Record
  <2> HIDE DEF ch, rec
  <2> QED
    BY <2>1, <2>2
<1> HIDE DEF ch, rec
<1>5. Len(c.data) \in Nat /\ c.data \in Seq(STRING) /\ c.seq \in Nat
  BY <1>1, LenProperties DEF ChunkType
<1>6. rec \in Entries
  <2>1. st.received + Len(c.data) \in Nat
    BY <1>1, <1>5, EntryFacts
  <2> QED
    BY <1>1, <1>3, <1>4, <2>1 DEF Entries, EntriesOf
<1>7. DOMAIN rec.chunks \subseteq 0 .. rec.total - 1
  BY <1>1, <1>2, <1>4, <1>5, EntryFacts DEF Counted
<1>8. Bytes(rec) = Bytes(st) \cup ({c.seq} \X (1 .. Len(c.data)))
  <2>1. /\ DOMAIN rec.chunks = DOMAIN st.chunks \cup {c.seq} /\ rec.chunks[c.seq] = c.data
        /\ \A i \in DOMAIN st.chunks : rec.chunks[i] = st.chunks[i]
    BY <1>2, <1>4
  <2> QED
    BY <2>1 DEF Bytes
<1>9. \A b \in Bytes(st) : b[1] # c.seq
  BY DEF Bytes
<1>10. /\ IsFiniteSet(Bytes(rec))
       /\ Cardinality(Bytes(rec)) = Cardinality(Bytes(st)) + Len(c.data)
  <2>1. IsFiniteSet(Bytes(st))
    BY DEF Counted
  <2>2. /\ IsFiniteSet(Bytes(st) \cup ({c.seq} \X (1 .. Len(c.data))))
        /\ Cardinality(Bytes(st) \cup ({c.seq} \X (1 .. Len(c.data))))
             = Cardinality(Bytes(st)) + Len(c.data)
    BY <1>5, <1>9, <2>1, RowAdds
  <2> QED
    BY <1>8, <2>2
<1>11. Counted(rec)
  BY <1>4, <1>6, <1>7, <1>10 DEF Counted
<1>12. Cardinality(DOMAIN rec.chunks) = Cardinality(DOMAIN st.chunks) + 1
  <2>1. IsFiniteSet(DOMAIN st.chunks) /\ DOMAIN rec.chunks = DOMAIN st.chunks \cup {c.seq}
    BY <1>2, <1>4, CountedFacts
  <2> QED
    BY <2>1, FS_AddElement
<1> QED
  BY <1>2, <1>4, <1>11, <1>12 DEF rec

(* What Add does with a chunk: nothing, record it, or end the transfer.    *)
LEMMA AddCases ==
    ASSUME NEW t, TableInv(t), NEW c \in AllChunks
    PROVE  LET st  == IF t[c.id] = NoState THEN NewState(c) ELSE t[c.id]
               rec == Record(st, c)
               a   == Add(t, c)
           IN  \/ /\ a.table = t /\ a.result.kind # "complete"
                  /\ \/ ~validateChunk(c) \/ Mismatch(st, c)
                     \/ t[c.id] # NoState /\ c.seq \in DOMAIN t[c.id].chunks
               \/ /\ validateChunk(c) /\ ~Mismatch(st, c)
                  /\ Counted(st) /\ c.seq \notin DOMAIN st.chunks /\ c.seq < st.total
                  /\ Counted(rec) /\ rec # NoState
                  /\ \/ a.table = [t EXCEPT ![c.id] = rec] /\ Proper(rec)
                        /\ a.result = Incomplete
                     \/ /\ a.table = [t EXCEPT ![c.id] = NoState]
                        /\ DOMAIN rec.chunks = 0 .. rec.total - 1
                        /\ a.result = Finish(rec, c.id)
<1> DEFINE st  == IF t[c.id] = NoState THEN NewState(c) ELSE t[c.id]
           rec == Record(st, c)
           a   == Add(t, c)
           Ignored == /\ a.table = t /\ a.result.kind # "complete"
                      /\ \/ ~validateChunk(c) \/ Mismatch(st, c)
                         \/ t[c.id] # NoState /\ c.seq \in DOMAIN t[c.id].chunks
           Fresh == /\ validateChunk(c) /\ ~Mismatch(st, c)
                    /\ Counted(st) /\ c.seq \notin DOMAIN st.chunks /\ c.seq < st.total
                    /\ Counted(rec) /\ rec # NoState
           Kept == /\ a.table = [t EXCEPT ![c.id] = rec] /\ Proper(rec)
                   /\ a.result = Incomplete
           Ended == /\ a.table = [t EXCEPT ![c.id] = NoState]
                    /\ DOMAIN rec.chunks = 0 .. rec.total - 1
                    /\ a.result = Finish(rec, c.id)
<1> SUFFICES Ignored \/ (Fresh /\ (Kept \/ Ended))
  BY Zenon
<1>1. c.id \in Ids /\ c.total \in Nat /\ c.seq \in Nat
  BY ChunksTyped DEF ChunkType
<1>2. CASE ~validateChunk(c) \/ Mismatch(st, c)
  <2>1. a.table = t /\ a.result.kind # "complete"
    BY <1>2 DEF Add, Failed
  <2> HIDE DEF a, st, rec, Kept, Ended, Fresh
  <2>2. Ignored
    BY <1>2, <2>1
  <2> QED
    BY <2>2
<1>3. CASE validateChunk(c) /\ ~Mismatch(st, c)
  <2>1. c.total > 0 /\ c.seq < c.total /\ st.total = c.total
    BY <1>3 DEF validateChunk, Mismatch
  <2>2. Counted(st) /\ (t[c.id] = NoState => DOMAIN st.chunks = {})
    <3>1. CASE t[c.id] = NoState
      BY <2>1, <3>1, NewFacts
    <3>2. CASE t[c.id] # NoState
      BY <1>1, <3>2 DEF TableInv, Proper
    <3> QED
      BY <3>1, <3>2
  <2>3. CASE c.seq \in DOMAIN st.chunks
    <3>1. a.table = t /\ a.result.kind # "complete"
      BY <1>3, <2>3 DEF Add, Failed, Incomplete
    <3>2. t[c.id] # NoState /\ st = t[c.id]
      BY <2>2, <2>3
    <3> HIDE DEF a, st, rec, Kept, Ended, Fresh
    <3>3. Ignored
      BY <2>3, <3>1, <3>2
    <3> QED
      BY <3>3
  <2>4. CASE c.seq \notin DOMAIN st.chunks
    <3> HIDE DEF st
    <3>1. /\ Counted(rec) /\ rec.total = st.total
          /\ Cardinality(DOMAIN rec.chunks) = Cardinality(DOMAIN st.chunks) + 1
      BY <2>1, <2>2, <2>4, RecordFacts
    <3>2. rec # NoState
      BY <3>1, StrayAssumption DEF Counted
    <3> HIDE DEF rec
    <3>3. /\ Cardinality(DOMAIN rec.chunks) \in 0 .. rec.total
          /\ Cardinality(DOMAIN rec.chunks) = rec.total => DOMAIN rec.chunks = 0 .. rec.total - 1
          /\ Cardinality(DOMAIN st.chunks) \in Nat /\ rec.total \in Nat
      <4>1. Cardinality(DOMAIN st.chunks) \in 0 .. st.total
        BY <2>2, CountedFacts
      <4>2. rec.total \in Nat
        BY <3>1, EntryFacts DEF Counted
      <4> QED
        BY <3>1, <4>1, <4>2, CountedFacts
    <3>6. Fresh
      BY <1>3, <2>1, <2>2, <2>4, <3>1, <3>2
    <3>4. CASE Cardinality(DOMAIN rec.chunks) = rec.total
      <4>1. a.table = [t EXCEPT ![c.id] = NoState] /\ a.result = Finish(rec, c.id)
        BY <1>3, <2>4, <3>4 DEF Add, Completed, st, rec
      <4> QED
        BY <3>3, <3>4, <3>6, <4>1
    <3>5. CASE Cardinality(DOMAIN rec.chunks) # rec.total
      <4>1. a.table = [t EXCEPT ![c.id] = rec] /\ a.result = Incomplete
        BY <1>3, <2>4, <3>5 DEF Add, st, rec
      <4>2. Proper(rec)
        BY <3>1, <3>3, <3>5 DEF Proper
      <4> QED
        BY <3>6, <4>1, <4>2
    <3> QED
      BY <3>4, <3>5
  <2> QED
    BY <2>3, <2>4
<1> QED
  BY <1>2, <1>3

(* Add keeps every entry of the table a proper part of its transfer.       *)
LEMMA AddKeeps ==
    ASSUME NEW t, TableInv(t), NEW c \in AllChunks
    PROVE  TableInv(Add(t, c).table)
<1> DEFINE a == Add(t, c)
<1>1. c.id \in Ids
  BY ChunksTyped DEF ChunkType
<1>2. \/ a.table = t
      \/ a.table = [t EXCEPT ![c.id] = NoState]
      \/ \E rec : Proper(rec) /\ a.table = [t EXCEPT ![c.id] = rec]
  <2> DEFINE st  == IF t[c.id] = NoState THEN NewState(c) ELSE t[c.id]
             rec == Record(st, c)
  <2>1. \/ a.table = t
        \/ a.table = [t EXCEPT ![c.id] = NoState]
        \/ Proper(rec) /\ a.table = [t EXCEPT ![c.id] = rec]
    BY AddCases, Zenon
  <2> HIDE DEF rec, a
  <2> QED
    BY <2>1
<1> HIDE DEF a
<1>3. ASSUME NEW e, e = NoState \/ Proper(e), a.table = [t EXCEPT ![c.id] = e]
      PROVE  TableInv(a.table)
  <2>1. e \in Entries \cup {NoState}
    BY <1>3 DEF Proper, Counted
  <2> QED
    BY <1>1, <1>3, <2>1 DEF TableInv
<1>4. TableInv(a.table)
  BY <1>2, <1>3
<1> QED
  BY <1>4 DEF a

EntryInv == TableInv(inflight)

(* In every reachable state an entry is a counted, proper part of its      *)
(* transfer.                                                               *)
THEOREM ReassemblerInvariant == Spec => []EntryInv
<1>1. Init => EntryInv
  BY DEF Init, NoTransfers, TableInv, EntryInv
<1>2. EntryInv /\ [Next]_vars => EntryInv'
  <2> SUFFICES ASSUME TableInv(inflight), [Next]_vars
               PROVE  TableInv(inflight')
    BY DEF EntryInv
  <2>1. ASSUME NEW c \in AllChunks, Receive(c) PROVE TableInv(inflight')
    <3>1. inflight' = Add(inflight, c).table
      BY <2>1 DEF Receive
    <3> QED
      BY <3>1, AddKeeps
  <2>2. CASE UNCHANGED vars
    BY <2>2 DEF vars
  <2> QED
    BY <2>1, <2>2 DEF Next
<1> QED
  BY <1>1, <1>2, PTL DEF Spec

(* What is left over of transfers is a proper part of each, with every     *)
(* recorded byte counted once.                                             *)
THEOREM EntriesAreIncomplete == Spec => []EntriesIncomplete
<1>1. EntryInv => EntriesIncomplete
  BY DEF EntryInv, TableInv, Proper, Counted, EntriesIncomplete
<1> QED
  BY <1>1, ReassemblerInvariant, PTL

-----------------------------------------------------------------------------
(* A transfer whose recorded chunks are all of one payload.                *)

(* The entry e of a transfer is of p's split into chunks of n bytes, and   *)
(* whatever it holds is p's.                                               *)
Fits(e, p, n) == e # NoState => e.total = Count(p, n) /\ e.size = Len(Serial[p])
Own(e, p, n) == e # NoState => \A i \in DOMAIN e.chunks : e.chunks[i] = Piece(p, n, i + 1)

(* FlattenSeq appends one sequence after the other.                        *)
Flattens(flat, f, N, S) ==
    /\ FlattenSeq(f) = flat[N] /\ flat[1] = f[1]
    /\ \A i \in 1 .. N : flat[i] \in Seq(S)
    /\ \A i \in 2 .. N : flat[i] = flat[i - 1] \o f[i]

LEMMA FlattenIs ==
    ASSUME NEW S, NEW N \in Nat \ {0}, NEW f \in [1 .. N -> Seq(S)]
    PROVE  \E flat : Flattens(flat, f, N, S)
<1> DEFINE Eq(m, g) == g = [i \in 1 .. m |-> IF i = 1 THEN f[i] ELSE g[i - 1] \o f[i]]
           P == {m \in 0 .. N : \E g : Eq(m, g)}
           flat == CHOOSE g : Eq(N, g)
<1>1. Len(f) = N
  BY FunctionIsSeq
<1>2. 0 \in P
  <2> DEFINE g == [i \in 1 .. 0 |-> f[1]]
  <2>1. Eq(0, g)
    OBVIOUS
  <2>2. 0 \in 0 .. N
    OBVIOUS
  <2> HIDE DEF Eq, g
  <2> QED
    BY <2>1, <2>2
<1>3. ASSUME NEW m \in 1 .. N, m - 1 \in P PROVE m \in P
  <2>1. PICK g : Eq(m - 1, g)
    BY <1>3
  <2>2. \A i \in 1 .. m - 1 : g[i] = IF i = 1 THEN f[i] ELSE g[i - 1] \o f[i]
    BY <2>1
  <2> DEFINE new == IF m = 1 THEN f[1] ELSE g[m - 1] \o f[m]
             h == [i \in 1 .. m |-> IF i = m THEN new ELSE g[i]]
  <2>3. \A i \in 1 .. m : h[i] = IF i = m THEN new ELSE g[i]
    OBVIOUS
  <2>4. h = [i \in 1 .. m |-> h[i]]
    OBVIOUS
  <2> HIDE DEF h
  <2>5. \A i \in 1 .. m : h[i] = IF i = 1 THEN f[i] ELSE h[i - 1] \o f[i]
    <3> SUFFICES ASSUME NEW i \in 1 .. m
                 PROVE  h[i] = IF i = 1 THEN f[i] ELSE h[i - 1] \o f[i]
      OBVIOUS
    <3>1. i # 1 => i - 1 \in 1 .. m /\ i - 1 # m /\ h[i - 1] = g[i - 1]
      BY <2>3
    <3>2. CASE i = m
      BY <2>3, <3>1, <3>2
    <3>3. CASE i \in 1 .. m - 1
      <4>1. h[i] = g[i]
        BY <2>3, <3>3
      <4> QED
        BY <2>2, <3>1, <3>3, <4>1
    <3> QED
      BY <3>2, <3>3
  <2>6. Eq(m, h)
    <3>1. [i \in 1 .. m |-> h[i]]
            = [i \in 1 .. m |-> IF i = 1 THEN f[i] ELSE h[i - 1] \o f[i]]
      BY <2>5
    <3> QED
      BY <2>4, <3>1
  <2>7. m \in 0 .. N
    OBVIOUS
  <2> HIDE DEF Eq
  <2> QED
    BY <2>6, <2>7
<1>4. Eq(N, flat)
  <2> HIDE DEF P, Eq
  <2>1. \A m \in 0 .. N : m \in P
    BY <1>2, <1>3, UpTo
  <2>2. N \in P
    BY <2>1
  <2>3. \E g : Eq(N, g)
    BY <2>2 DEF P
  <2> QED
    BY <2>3, Zenon
<1>5. FlattenSeq(f) = flat[N]
  BY <1>1, Zenon DEF FlattenSeq
<1> HIDE DEF flat
<1>6. \A i \in 1 .. N : flat[i] = IF i = 1 THEN f[i] ELSE flat[i - 1] \o f[i]
  BY <1>4
<1> DEFINE Q == {i \in 0 .. N : i # 0 => flat[i] \in Seq(S)}
<1>7. 0 \in Q
  OBVIOUS
<1>8. ASSUME NEW i \in 1 .. N, i - 1 \in Q PROVE i \in Q
  <2>1. f[i] \in Seq(S)
    OBVIOUS
  <2>2. i # 1 => flat[i - 1] \in Seq(S)
    BY <1>8
  <2>3. i # 1 => flat[i - 1] \o f[i] \in Seq(S)
    BY <2>1, <2>2, ConcatProperties
  <2>4. flat[i] = IF i = 1 THEN f[i] ELSE flat[i - 1] \o f[i]
    BY <1>6
  <2>5. flat[i] \in Seq(S)
    <3>1. CASE i = 1
      BY <2>1, <2>4, <3>1
    <3>2. CASE i # 1
      BY <2>3, <2>4, <3>2
    <3> QED
      BY <3>1, <3>2
  <2>6. i \in 0 .. N
    OBVIOUS
  <2> QED
    BY <2>5, <2>6
<1>9. \A i \in 1 .. N : flat[i] \in Seq(S)
  <2> HIDE DEF Q
  <2>1. \A i \in 0 .. N : i \in Q
    BY <1>7, <1>8, UpTo
  <2> QED
    BY <2>1 DEF Q
<1>10. flat[1] = f[1]
  <2>1. 1 \in 1 .. N
    OBVIOUS
  <2> QED
    BY <1>6, <2>1
<1>11. ASSUME NEW i \in 2 .. N PROVE flat[i] = flat[i - 1] \o f[i]
  <2>1. i \in 1 .. N /\ i # 1
    OBVIOUS
  <2>2. flat[i] = IF i = 1 THEN f[i] ELSE flat[i - 1] \o f[i]
    BY <1>6, <2>1
  <2> QED
    BY <2>1, <2>2
<1> QED
  <2>1. Flattens(flat, f, N, S)
    BY <1>5, <1>9, <1>10, <1>11 DEF Flattens
  <2> QED
    BY <2>1

(* The bytes of the first k chunks of a transfer, row by row.              *)
Rows(e, k) == UNION {{i} \X (1 .. Len(e.chunks[i])) : i \in 0 .. k - 1}

LEMMA RowsStep ==
    ASSUME NEW e, NEW k \in Nat \ {0}, Len(e.chunks[k - 1]) \in Nat,
           IsFiniteSet(Rows(e, k - 1))
    PROVE  /\ IsFiniteSet(Rows(e, k))
           /\ Cardinality(Rows(e, k)) = Cardinality(Rows(e, k - 1)) + Len(e.chunks[k - 1])
<1> DEFINE B == Rows(e, k - 1)
           m == Len(e.chunks[k - 1])
<1>1. 0 .. k - 1 = (0 .. (k - 1) - 1) \cup {k - 1}
  OBVIOUS
<1>2. Rows(e, k) = B \cup ({k - 1} \X (1 .. m))
  BY <1>1 DEF Rows
<1>3. \A b \in B : b[1] # k - 1
  BY DEF Rows
<1> HIDE DEF B
<1>4. m \in Nat /\ IsFiniteSet(B)
  BY DEF B
<1> HIDE DEF m
<1>5. /\ IsFiniteSet(B \cup ({k - 1} \X (1 .. m)))
      /\ Cardinality(B \cup ({k - 1} \X (1 .. m))) = Cardinality(B) + m
  BY <1>3, <1>4, RowAdds
<1> QED
  BY <1>2, <1>5 DEF B, m

(* All parts of a transfer.                                                *)
Full(e) ==
    /\ e.total \in Nat \ {0} /\ DOMAIN e.chunks = 0 .. e.total - 1
    /\ \A i \in DOMAIN e.chunks : e.chunks[i] \in Seq(STRING)

InOrder(e) == [i \in 1 .. e.total |-> e.chunks[i - 1]]

LEMMA FullFacts ==
    ASSUME NEW e, Full(e)
    PROVE  /\ InOrder(e) \in [1 .. e.total -> Seq(STRING)]
           /\ \A i \in 1 .. e.total : InOrder(e)[i] = e.chunks[i - 1]
           /\ Concat(e) = FlattenSeq(InOrder(e))
<1>1. ASSUME NEW i \in 1 .. e.total PROVE e.chunks[i - 1] \in Seq(STRING)
  <2>1. i - 1 \in DOMAIN e.chunks
    BY DEF Full
  <2> QED
    BY <2>1 DEF Full
<1> QED
  BY <1>1 DEF InOrder, Concat

(* Concatenated they have as many bytes as were counted.                   *)
LEMMA ConcatLength ==
    ASSUME NEW e, Full(e)
    PROVE  Concat(e) \in Seq(STRING) /\ Len(Concat(e)) = Cardinality(Bytes(e))
<1> DEFINE N == e.total
           f == InOrder(e)
<1>1. N \in Nat \ {0} /\ DOMAIN e.chunks = 0 .. N - 1
  BY DEF Full
<1>2. f \in [1 .. N -> Seq(STRING)] /\ \A i \in 1 .. N : f[i] = e.chunks[i - 1]
  BY FullFacts
<1> HIDE DEF f
<1>3. PICK flat : Flattens(flat, f, N, STRING)
  <2>1. N \in Nat \ {0} /\ f \in [1 .. N -> Seq(STRING)]
    BY <1>1, <1>2
  <2> HIDE DEF N
  <2> QED
    BY <2>1, FlattenIs
<1>10. /\ FlattenSeq(f) = flat[N] /\ flat[1] = f[1]
       /\ \A i \in 1 .. N : flat[i] \in Seq(STRING)
       /\ \A i \in 2 .. N : flat[i] = flat[i - 1] \o f[i]
  BY <1>3 DEF Flattens
<1> DEFINE P == {k \in 0 .. N : /\ IsFiniteSet(Rows(e, k))
                                /\ Cardinality(Rows(e, k)) = IF k = 0 THEN 0 ELSE Len(flat[k])}
<1>4. 0 \in P
  <2>1. Rows(e, 0) = {}
    BY DEF Rows
  <2>2. IsFiniteSet({}) /\ Cardinality({}) = 0 /\ 0 \in 0 .. N
    BY <1>1, FS_EmptySet
  <2> QED
    BY <2>1, <2>2
<1>5. ASSUME NEW k \in 1 .. N, k - 1 \in P PROVE k \in P
  <2>1. f[k] \in Seq(STRING) /\ f[k] = e.chunks[k - 1]
    BY <1>2
  <2>2. Len(e.chunks[k - 1]) \in Nat
    BY <2>1, LenProperties
  <2>3. k \in Nat \ {0} /\ IsFiniteSet(Rows(e, k - 1))
    BY <1>5
  <2>4. /\ IsFiniteSet(Rows(e, k))
        /\ Cardinality(Rows(e, k)) = Cardinality(Rows(e, k - 1)) + Len(f[k])
    BY <2>1, <2>2, <2>3, RowsStep
  <2>7. k \in 0 .. N /\ k # 0
    BY <1>1
  <2>5. CASE k = 1
    <3>1. Cardinality(Rows(e, k - 1)) = 0
      BY <1>5, <2>5
    <3>2. Len(f[k]) \in Nat /\ flat[k] = f[k]
      BY <1>10, <2>1, <2>2, <2>5
    <3>3. Cardinality(Rows(e, k)) = Len(flat[k])
      BY <2>4, <3>1, <3>2
    <3> QED
      BY <2>4, <2>7, <3>3
  <2>6. CASE k # 1
    <3>1. k \in 2 .. N /\ k - 1 \in 1 .. N
      BY <1>1, <2>6
    <3>2. flat[k - 1] \in Seq(STRING) /\ flat[k] = flat[k - 1] \o f[k]
      BY <1>10, <3>1
    <3>3. Len(flat[k]) = Len(flat[k - 1]) + Len(f[k])
      BY <2>1, <3>2, ConcatProperties
    <3>4. Cardinality(Rows(e, k - 1)) = Len(flat[k - 1])
      <4>1. k - 1 # 0
        BY <3>1
      <4> QED
        BY <1>5, <4>1
    <3>5. Cardinality(Rows(e, k)) = Len(flat[k])
      BY <2>4, <3>3, <3>4
    <3> QED
      BY <2>4, <2>7, <3>5
  <2> QED
    BY <2>5, <2>6
<1>6. N \in P
  <2> HIDE DEF P, N
  <2>1. \A k \in 0 .. N : k \in P
    BY <1>1, <1>4, <1>5, UpTo
  <2> QED
    BY <1>1, <2>1
<1>7. Bytes(e) = Rows(e, N)
  BY <1>1 DEF Bytes, Rows
<1>8. Concat(e) = flat[N]
  BY <1>10, FullFacts DEF f
<1>9. N \in 1 .. N
  BY <1>1
<1> HIDE DEF N
<1> QED
  BY <1>10, <1>1, <1>6, <1>7, <1>8, <1>9

(* A transfer that has all chunks of a payload, and only those, ends with  *)
(* that payload.                                                           *)
LEMMA OwnFinishes ==
    ASSUME NEW p \in ValidPayloads, NEW n \in ChunkSizes, NEW st, Counted(st),
           st.total = Count(p, n), st.size = Len(Serial[p]),
           DOMAIN st.chunks = 0 .. Count(p, n) - 1,
           \A i \in DOMAIN st.chunks : st.chunks[i] = Piece(p, n, i + 1)
    PROVE  Finish(st, HashOf[p]) = Complete(p, HashOf[p])
<1>1. Concat(st) = Serial[p]
  <2>1. Count(p, n) \in Nat
    BY CutFacts
  <2>2. \A i \in 1 .. Count(p, n) : st.chunks[i - 1] = Piece(p, n, i)
    <3> SUFFICES ASSUME NEW i \in 1 .. Count(p, n)
                 PROVE  st.chunks[i - 1] = Piece(p, n, i)
      OBVIOUS
    <3>1. i - 1 \in DOMAIN st.chunks /\ (i - 1) + 1 = i
      BY <2>1
    <3>2. st.chunks[i - 1] = Piece(p, n, (i - 1) + 1)
      BY <3>1
    <3> QED
      BY <3>1, <3>2
  <2>3. [i \in 1 .. Count(p, n) |-> st.chunks[i - 1]] = [i \in 1 .. Count(p, n) |-> Piece(p, n, i)]
    BY <2>2
  <2>4. Concat(st) = FlattenSeq([i \in 1 .. Count(p, n) |-> st.chunks[i - 1]])
    BY DEF Concat
  <2> QED
    BY <2>3, <2>4, RoundTrip
<1>2. st.received = st.size
  <2>1. Full(st)
    BY CutFacts, PieceFacts, EntryFacts DEF Full, Counted
  <2> QED
    BY <1>1, <2>1, ConcatLength DEF Counted
<1>3. Decoded(Concat(st)) = {p}
  <2>1. \A q \in ValidPayloads : Serial[q] = Serial[p] <=> q = p
    BY PayloadAssumption DEF ValidPayloads
  <2> QED
    BY <1>1, <2>1 DEF Decoded
<1>4. (CHOOSE q \in {p} : TRUE) = p
  OBVIOUS
<1> QED
  BY <1>2, <1>3, <1>4, Zenon DEF Finish

(* A chunk of a valid payload passes validateChunk.                        *)
LEMMA OwnChunk ==
    ASSUME NEW p \in ValidPayloads, NEW n \in ChunkSizes, NEW i \in 1 .. Count(p, n)
    PROVE  LET c == ChunkPayload(p, n)[i] IN
           /\ c \in AllChunks /\ validateChunk(c)
           /\ c.id = HashOf[p] /\ c.seq = i - 1 /\ c.data = Piece(p, n, i)
           /\ c.total = Count(p, n) /\ c.size = Len(Serial[p])
<1> DEFINE c == ChunkPayload(p, n)[i]
<1>1. /\ c.id = HashOf[p] /\ c.seq = i - 1 /\ c.data = Piece(p, n, i)
      /\ c.total = Count(p, n) /\ c.size = Len(Serial[p])
  <2>1. c = [id |-> HashOf[p], seq |-> i - 1, total |-> Count(p, n),
             size |-> Len(Serial[p]), data |-> Piece(p, n, i)]
    BY ChunkFacts
  <2> HIDE DEF c
  <2> QED
    BY <2>1
<1>2. c \in SentChunks
  <2>1. i \in DOMAIN ChunkPayload(p, n)
    BY ChunkFacts
  <2>2. c \in ToSet(ChunkPayload(p, n))
    BY <2>1 DEF ToSet
  <2> HIDE DEF c
  <2> QED
    BY <2>2 DEF SentChunks
<1> HIDE DEF c
<1>3. validateChunk(c)
  <2>1. Count(p, n) \in Nat \ {0} /\ Len(Serial[p]) \in Nat \ {0}
    BY CutFacts
  <2>2. Len(Piece(p, n, i)) \in 1 .. Len(Serial[p])
    BY PieceFacts
  <2> QED
    BY <1>1, <2>1, <2>2 DEF validateChunk
<1> QED
  BY <1>1, <1>2, <1>3 DEF c, AllChunks

(* A payload's chunk that fits the entry is recorded, was already there,   *)
(* or ends the transfer; the end of a transfer of p alone delivers p.      *)
LEMMA AddOwn ==
    ASSUME NEW p \in ValidPayloads, NEW n \in ChunkSizes, NEW i \in 1 .. Count(p, n),
           NEW t, TableInv(t), Fits(t[HashOf[p]], p, n)
    PROVE  LET h == HashOf[p]
               a == Add(t, ChunkPayload(p, n)[i])
               f == a.table[h]
           IN  /\ TableInv(a.table)
               /\ \/ f = NoState /\ (Own(t[h], p, n) => a.result = Complete(p, h))
                  \/ /\ f # NoState /\ Fits(f, p, n) /\ i - 1 \in DOMAIN f.chunks
                     /\ t[h] # NoState => DOMAIN t[h].chunks \subseteq DOMAIN f.chunks
                     /\ Own(t[h], p, n) => Own(f, p, n)
<1>0. PICK c : c = ChunkPayload(p, n)[i]
  OBVIOUS
<1> DEFINE h == HashOf[p]
           a == Add(t, c)
           f == a.table[h]
           e == t[h]
           st == IF t[c.id] = NoState THEN NewState(c) ELSE t[c.id]
           rec == Record(st, c)
           Over == f = NoState /\ (Own(e, p, n) => a.result = Complete(p, h))
           Held == /\ f # NoState /\ Fits(f, p, n) /\ i - 1 \in DOMAIN f.chunks
                   /\ e # NoState => DOMAIN e.chunks \subseteq DOMAIN f.chunks
                   /\ Own(e, p, n) => Own(f, p, n)
<1> SUFFICES TableInv(a.table) /\ (Over \/ Held)
  BY <1>0, Zenon
<1>1. /\ c \in AllChunks /\ validateChunk(c)
      /\ c.id = h /\ c.seq = i - 1 /\ c.data = Piece(p, n, i)
      /\ c.total = Count(p, n) /\ c.size = Len(Serial[p])
  BY <1>0, OwnChunk
<1>2. h \in Ids /\ i - 1 \in Nat /\ (i - 1) + 1 = i
  <2>1. c \in ChunkType
    BY <1>1, ChunksTyped
  <2>2. h \in Ids
    BY <1>1, <2>1 DEF ChunkType
  <2>3. Count(p, n) \in Nat
    BY CutFacts
  <2> QED
    BY <2>2, <2>3
<1>3. st = IF e = NoState THEN NewState(c) ELSE e
  BY <1>1
<1>4. ~Mismatch(st, c) /\ st.total = Count(p, n) /\ st.size = Len(Serial[p])
  <2>1. CASE e = NoState
    BY <1>1, <1>3, <2>1 DEF Mismatch, NewState
  <2>2. CASE e # NoState
    BY <1>1, <1>3, <2>2 DEF Mismatch, Fits
  <2> QED
    BY <2>1, <2>2
<1>5. \/ a.table = t /\ e # NoState /\ c.seq \in DOMAIN e.chunks
      \/ /\ Counted(st) /\ c.seq \notin DOMAIN st.chunks /\ c.seq < st.total
         /\ Counted(rec) /\ rec # NoState
         /\ \/ a.table = [t EXCEPT ![c.id] = rec]
            \/ /\ a.table = [t EXCEPT ![c.id] = NoState]
               /\ DOMAIN rec.chunks = 0 .. rec.total - 1
               /\ a.result = Finish(rec, c.id)
  <2>1. c.id = h
    BY <1>1
  <2>2. c \in AllChunks
    BY <1>1
  <2>3. \/ /\ a.table = t /\ a.result.kind # "complete"
           /\ \/ ~validateChunk(c) \/ Mismatch(st, c)
              \/ t[c.id] # NoState /\ c.seq \in DOMAIN t[c.id].chunks
        \/ /\ validateChunk(c) /\ ~Mismatch(st, c)
           /\ Counted(st) /\ c.seq \notin DOMAIN st.chunks /\ c.seq < st.total
           /\ Counted(rec) /\ rec # NoState
           /\ \/ a.table = [t EXCEPT ![c.id] = rec] /\ Proper(rec)
                 /\ a.result = Incomplete
              \/ /\ a.table = [t EXCEPT ![c.id] = NoState]
                 /\ DOMAIN rec.chunks = 0 .. rec.total - 1
                 /\ a.result = Finish(rec, c.id)
    BY <2>2, AddCases, Zenon
  <2> HIDE DEF a, st, rec
  <2> QED
    BY <1>1, <1>4, <2>1, <2>3
<1>6. TableInv(a.table)
  BY <1>1, AddKeeps
<1>7. DOMAIN t = Ids
  BY DEF TableInv
<1>8. CASE a.table = t /\ e # NoState /\ c.seq \in DOMAIN e.chunks
  <2> HIDE DEF a, e, h, Over
  <2>1. f = e
    BY <1>8 DEF e
  <2>2. Held
    BY <1>1, <1>8, <2>1 DEF e, h
  <2> QED
    BY <1>6, <2>2
<1>9. CASE /\ Counted(st) /\ c.seq \notin DOMAIN st.chunks /\ c.seq < st.total
           /\ Counted(rec) /\ rec # NoState
           /\ \/ a.table = [t EXCEPT ![c.id] = rec]
              \/ /\ a.table = [t EXCEPT ![c.id] = NoState]
                 /\ DOMAIN rec.chunks = 0 .. rec.total - 1
                 /\ a.result = Finish(rec, c.id)
  <2>1. /\ rec.total = st.total /\ rec.size = st.size
        /\ DOMAIN rec.chunks = DOMAIN st.chunks \cup {c.seq}
        /\ rec.chunks[c.seq] = c.data
        /\ \A k \in DOMAIN st.chunks : rec.chunks[k] = st.chunks[k]
    <3> HIDE DEF st
    <3> QED
      BY <1>1, <1>9, RecordFacts
  <2>2. e # NoState => st = e
    BY <1>3
  <2>3. Own(e, p, n) => \A k \in DOMAIN rec.chunks : rec.chunks[k] = Piece(p, n, k + 1)
    <3>1. CASE e = NoState
      <4>1. DOMAIN st.chunks = {}
        BY <1>3, <3>1 DEF NewState
      <4> HIDE DEF st, rec
      <4> QED
        BY <1>1, <1>2, <2>1, <4>1
    <3>2. CASE e # NoState
      <4>1. st = e
        BY <2>2, <3>2
      <4> HIDE DEF st, rec, e
      <4> QED
        BY <1>1, <1>2, <2>1, <3>2, <4>1 DEF Own
    <3> QED
      BY <3>1, <3>2
  <2>4. CASE a.table = [t EXCEPT ![c.id] = rec]
    <3>1. f = rec
      BY <1>1, <1>2, <1>7, <2>4
    <3> HIDE DEF a, f, e, st, rec, Over
    <3>2. Fits(f, p, n)
      BY <1>4, <2>1, <3>1 DEF Fits
    <3>3. f # NoState /\ i - 1 \in DOMAIN f.chunks
      BY <1>1, <1>9, <2>1, <3>1
    <3>4. e # NoState => DOMAIN e.chunks \subseteq DOMAIN f.chunks
      BY <2>1, <2>2, <3>1
    <3>5. Own(e, p, n) => Own(f, p, n)
      BY <2>3, <3>1 DEF Own
    <3>6. Held
      BY <3>2, <3>3, <3>4, <3>5
    <3> QED
      BY <1>6, <3>6
  <2>5. CASE /\ a.table = [t EXCEPT ![c.id] = NoState]
             /\ DOMAIN rec.chunks = 0 .. rec.total - 1
             /\ a.result = Finish(rec, c.id)
    <3>1. f = NoState
      BY <1>1, <1>2, <1>7, <2>5
    <3> HIDE DEF a, f, e, st, rec, Held
    <3>2. Own(e, p, n) => a.result = Complete(p, h)
      <4> SUFFICES ASSUME Own(e, p, n)
                   PROVE  a.result = Complete(p, h)
        OBVIOUS
      <4>1. \A k \in DOMAIN rec.chunks : rec.chunks[k] = Piece(p, n, k + 1)
        BY <2>3
      <4>2. /\ rec.total = Count(p, n) /\ rec.size = Len(Serial[p])
            /\ DOMAIN rec.chunks = 0 .. Count(p, n) - 1
        BY <1>4, <2>1, <2>5
      <4>3. Finish(rec, HashOf[p]) = Complete(p, HashOf[p])
        BY <1>9, <4>1, <4>2, OwnFinishes
      <4> QED
        BY <1>1, <2>5, <4>3
    <3>3. Over
      BY <3>1, <3>2
    <3> QED
      BY <1>6, <3>3
  <2> QED
    BY <1>9, <2>4, <2>5
<1> QED
  BY <1>5, <1>8, <1>9

(* Payloads of one content, cut alike, that differ in their first chunk    *)
(* at most.                                                                *)
Twins(p, q, n) ==
    /\ HashOf[p] = HashOf[q] /\ Len(Serial[p]) = Len(Serial[q])
    /\ \A i \in 2 .. Count(p, n) : Piece(p, n, i) = Piece(q, n, i)

(* Add changes no entry but its chunk's, and not that one when it holds    *)
(* the chunk's number.                                                     *)
LEMMA AddElsewhere ==
    ASSUME NEW t, TableInv(t), NEW c
    PROVE  /\ \A g \in Ids : g # c.id => Add(t, c).table[g] = t[g]
           /\ t[c.id] # NoState /\ c.seq \in DOMAIN t[c.id].chunks => Add(t, c).table = t
<1> DEFINE st  == IF t[c.id] = NoState THEN NewState(c) ELSE t[c.id]
           rec == Record(st, c)
<1>1. \/ Add(t, c).table = t
      \/ /\ c.seq \notin DOMAIN st.chunks
         /\ \/ Add(t, c).table = [t EXCEPT ![c.id] = rec]
            \/ Add(t, c).table = [t EXCEPT ![c.id] = NoState]
  BY DEF Add, Completed
<1>2. t[c.id] # NoState => st = t[c.id]
  OBVIOUS
<1>3. DOMAIN t = Ids
  BY DEF TableInv
<1> HIDE DEF st, rec
<1> QED
  BY <1>1, <1>2, <1>3

(* A chunk of p in a transfer that holds q's chunks: it is recorded, was   *)
(* there, or completes the transfer, which always is p's or q's.           *)
LEMMA AddTwin ==
    ASSUME NEW p \in ValidPayloads, NEW q \in ValidPayloads, NEW n \in ChunkSizes,
           Twins(p, q, n), NEW i \in 1 .. Count(p, n),
           NEW t, TableInv(t), Fits(t[HashOf[p]], q, n), Own(t[HashOf[p]], q, n)
    PROVE  LET h == HashOf[p]
               a == Add(t, ChunkPayload(p, n)[i])
               f == a.table[h]
           IN  \E r \in {p, q} :
                  \/ f = NoState /\ a.result = Complete(r, h)
                  \/ /\ f # NoState /\ Fits(f, r, n) /\ Own(f, r, n) /\ i - 1 \in DOMAIN f.chunks
                     /\ t[h] # NoState => DOMAIN t[h].chunks \subseteq DOMAIN f.chunks
<1> DEFINE h == HashOf[p]
           c == ChunkPayload(p, n)[i]
           a == Add(t, c)
           f == a.table[h]
           e == t[h]
           Result(r) ==
               \/ f = NoState /\ a.result = Complete(r, h)
               \/ /\ f # NoState /\ Fits(f, r, n) /\ Own(f, r, n) /\ i - 1 \in DOMAIN f.chunks
                  /\ e # NoState => DOMAIN e.chunks \subseteq DOMAIN f.chunks
<1> SUFFICES \E r \in {p, q} : Result(r)
  BY Zenon
<1>1. HashOf[q] = h /\ Len(Serial[p]) = Len(Serial[q]) /\ Count(q, n) = Count(p, n)
  <2>1. HashOf[q] = h /\ Len(Serial[p]) = Len(Serial[q])
    BY DEF Twins
  <2>2. /\ Count(p, n) = (Len(Serial[p]) + n - 1) \div n
        /\ Count(q, n) = (Len(Serial[q]) + n - 1) \div n
    BY CutFacts
  <2> QED
    BY <2>1, <2>2
<1>2. Count(p, n) \in Nat \ {0}
  BY CutFacts
<1>3. ASSUME NEW r \in {p, q}, c = ChunkPayload(r, n)[i], Fits(e, r, n), Own(e, r, n)
      PROVE  Result(r)
  <2>1. /\ r \in ValidPayloads /\ HashOf[r] = h /\ i \in 1 .. Count(r, n)
        /\ Fits(t[HashOf[r]], r, n) /\ Own(t[HashOf[r]], r, n)
    BY <1>1, <1>3
  <2>2. LET g == HashOf[r]
            b == Add(t, ChunkPayload(r, n)[i])
            u == b.table[g]
        IN  /\ TableInv(b.table)
            /\ \/ u = NoState /\ (Own(t[g], r, n) => b.result = Complete(r, g))
               \/ /\ u # NoState /\ Fits(u, r, n) /\ i - 1 \in DOMAIN u.chunks
                  /\ t[g] # NoState => DOMAIN t[g].chunks \subseteq DOMAIN u.chunks
                  /\ Own(t[g], r, n) => Own(u, r, n)
    BY <2>1, AddOwn, Zenon
  <2>3. ChunkPayload(r, n)[i] = c /\ HashOf[r] = h
    BY <1>3, <2>1
  <2> HIDE DEF c, h
  <2> QED
    BY <2>1, <2>2, <2>3
<1>4. CASE i # 1
  <2>1. Piece(p, n, i) = Piece(q, n, i)
    BY <1>2, <1>4 DEF Twins
  <2>2. c = ChunkPayload(q, n)[i]
    <3>1. /\ c = [id |-> h, seq |-> i - 1, total |-> Count(p, n), size |-> Len(Serial[p]),
                  data |-> Piece(p, n, i)]
          /\ ChunkPayload(q, n)[i] = [id |-> HashOf[q], seq |-> i - 1, total |-> Count(q, n),
                                      size |-> Len(Serial[q]), data |-> Piece(q, n, i)]
      BY <1>1, ChunkFacts
    <3> HIDE DEF c
    <3> QED
      BY <1>1, <2>1, <3>1
  <2> HIDE DEF c, Result, e
  <2>3. Result(q)
    BY <1>3, <2>2 DEF e
  <2> QED
    BY <2>3
<1>5. CASE i = 1 /\ (e = NoState \/ 0 \notin DOMAIN e.chunks)
  <2>1. Fits(e, p, n)
    BY <1>1 DEF Fits
  <2>2. Own(e, p, n)
    <3> SUFFICES ASSUME e # NoState, NEW k \in DOMAIN e.chunks
                 PROVE  e.chunks[k] = Piece(p, n, k + 1)
      BY DEF Own
    <3>1. h \in Ids
      BY PayloadAssumption DEF ValidPayloads
    <3>2. k \in 0 .. e.total - 1 /\ e.total = Count(p, n)
      <4>1. Proper(e)
        BY <3>1 DEF TableInv
      <4> QED
        BY <2>1, <4>1 DEF Proper, Counted, Fits
    <3>3. k + 1 \in 2 .. Count(p, n)
      BY <1>2, <1>5, <3>2
    <3>4. e.chunks[k] = Piece(q, n, k + 1)
      BY DEF Own
    <3> QED
      BY <3>3, <3>4 DEF Twins
  <2> HIDE DEF Result, e, c
  <2>3. Result(p)
    BY <1>3, <2>1, <2>2 DEF c
  <2> QED
    BY <2>3
<1>6. CASE i = 1 /\ e # NoState /\ 0 \in DOMAIN e.chunks
  <2>1. c \in AllChunks /\ c.id = h /\ c.seq = 0
    BY <1>6, OwnChunk
  <2>2. a.table = t
    <3> HIDE DEF c, h
    <3> QED
      BY <1>6, <2>1, AddElsewhere
  <2>3. f = e
    BY <2>2
  <2>4. Result(q)
    <3> HIDE DEF a, f, e
    <3>1. Fits(f, q, n) /\ Own(f, q, n)
      BY <2>3 DEF e
    <3> QED
      BY <1>6, <2>3, <3>1
  <2> HIDE DEF Result
  <2> QED
    BY <2>4
<1> QED
  BY <1>4, <1>5, <1>6

(* Equally many bytes, equal after the first n, make twins.                *)
LEMMA TwinFacts ==
    ASSUME NEW p \in ValidPayloads, NEW q \in ValidPayloads, NEW n \in ChunkSizes,
           HashOf[p] = HashOf[q], Len(Serial[p]) = Len(Serial[q]),
           \A k \in n + 1 .. Len(Serial[p]) : Serial[p][k] = Serial[q][k]
    PROVE  Twins(p, q, n)
<1> SUFFICES ASSUME NEW i \in 2 .. Count(p, n) PROVE Piece(p, n, i) = Piece(q, n, i)
  BY DEF Twins
<1> DEFINE L == Len(Serial[p])
           a == Cut(p, n, i - 1)
           b == Cut(p, n, i)
<1>1. /\ Count(p, n) \in Nat /\ n \in Nat \ {0} /\ L \in Nat
      /\ Serial[p] \in Seq(STRING) /\ Serial[q] \in Seq(STRING)
  BY CutFacts
<1>2. Cut(q, n, i - 1) = a /\ Cut(q, n, i) = b
  BY DEF Cut
<1>3. a = (i - 1) * n /\ a \in 0 .. L /\ b \in 0 .. L
  <2>1. i \in 1 .. Count(p, n) /\ i - 1 \in 0 .. Count(p, n) /\ i \in 0 .. Count(p, n)
    BY <1>1
  <2> QED
    BY <2>1, CutFacts
<1>4. a >= n
  <2>1. i - 1 \in Nat /\ i - 1 >= 1
    BY <1>1
  <2>2. (i - 1) * n >= 1 * n
    BY <1>1, <2>1
  <2> QED
    BY <1>1, <1>3, <2>2
<1>5. Piece(p, n, i) = SubSeq(Serial[p], a + 1, b) /\ Piece(q, n, i) = SubSeq(Serial[q], a + 1, b)
  BY <1>2 DEF Piece
<1> HIDE DEF a, b
<1>6. \A k \in a + 1 .. b : Serial[p][k] = Serial[q][k]
  <2>1. \A k \in a + 1 .. b : k \in n + 1 .. L
    BY <1>1, <1>3, <1>4
  <2> QED
    BY <2>1
<1>7. SubSeq(Serial[p], a + 1, b) = SubSeq(Serial[q], a + 1, b)
  <2>1. /\ SubSeq(Serial[p], a + 1, b) = [j \in 1 .. b - a |-> Serial[p][(a + 1) + j - 1]]
        /\ SubSeq(Serial[q], a + 1, b) = [j \in 1 .. b - a |-> Serial[q][(a + 1) + j - 1]]
    BY <1>1, <1>3
  <2>2. \A j \in 1 .. b - a : Serial[p][(a + 1) + j - 1] = Serial[q][(a + 1) + j - 1]
    BY <1>1, <1>3, <1>6
  <2> QED
    BY <2>1, <2>2
<1> QED
  BY <1>5, <1>7

(* Every transfer in the table is one of a payload, cut by n; and payloads *)
(* of one content are twins.                                               *)
OfPayloads(t, n) ==
    \A h \in Ids : t[h] # NoState =>
        \E r \in ValidPayloads : HashOf[r] = h /\ Fits(t[h], r, n) /\ Own(t[h], r, n)
OneContent(n) == \A p, q \in ValidPayloads : HashOf[p] = HashOf[q] => Twins(p, q, n)

(* In such a table a chunk of p is recorded, or completes a transfer of    *)
(* p's content, and other transfers stay as they are.                      *)
LEMMA AddOfPayloads ==
    ASSUME NEW n \in ChunkSizes, OneContent(n), NEW t, TableInv(t), OfPayloads(t, n),
           NEW p \in ValidPayloads, NEW i \in 1 .. Count(p, n)
    PROVE  LET h == HashOf[p]
               a == Add(t, ChunkPayload(p, n)[i])
               f == a.table[h]
           IN  /\ TableInv(a.table) /\ OfPayloads(a.table, n)
               /\ \A g \in Ids : g # h => a.table[g] = t[g]
               /\ \/ /\ f = NoState /\ a.result.kind = "complete"
                     /\ HashOf[a.result.payload] = h
                  \/ /\ f # NoState /\ f.total = Count(p, n) /\ i - 1 \in DOMAIN f.chunks
                     /\ t[h] # NoState => DOMAIN t[h].chunks \subseteq DOMAIN f.chunks
<1> DEFINE h == HashOf[p]
           c == ChunkPayload(p, n)[i]
           a == Add(t, c)
           f == a.table[h]
<1>1. h \in Ids
  BY PayloadAssumption DEF ValidPayloads
<1>2. c \in AllChunks /\ c.id = h
  BY OwnChunk
<1>3. TableInv(a.table)
  <2> HIDE DEF c
  <2> QED
    BY <1>2, AddKeeps
<1>4. PICK q \in ValidPayloads : HashOf[q] = h /\ Fits(t[h], q, n) /\ Own(t[h], q, n)
  <2>1. CASE t[h] = NoState
    <3>1. Fits(t[h], p, n) /\ Own(t[h], p, n)
      BY <2>1 DEF Fits, Own
    <3> QED
      BY <3>1
  <2>2. CASE t[h] # NoState
    BY <1>1, <2>2 DEF OfPayloads
  <2> QED
    BY <2>1, <2>2
<1>5. \A g \in Ids : g # h => a.table[g] = t[g]
  <2> HIDE DEF c, h
  <2> QED
    BY <1>2, AddElsewhere
<1>6. PICK r \in {p, q} :
        \/ f = NoState /\ a.result = Complete(r, h)
        \/ /\ f # NoState /\ Fits(f, r, n) /\ Own(f, r, n) /\ i - 1 \in DOMAIN f.chunks
           /\ t[h] # NoState => DOMAIN t[h].chunks \subseteq DOMAIN f.chunks
  <2>1. Twins(p, q, n)
    BY <1>4 DEF OneContent
  <2> QED
    BY <1>4, <2>1, AddTwin, Zenon
<1>7. r \in ValidPayloads /\ HashOf[r] = h /\ Count(r, n) = Count(p, n)
  <2>1. r \in ValidPayloads /\ HashOf[r] = h /\ Len(Serial[r]) = Len(Serial[p])
    BY <1>4 DEF OneContent, Twins
  <2>2. /\ Count(p, n) = (Len(Serial[p]) + n - 1) \div n
        /\ Count(r, n) = (Len(Serial[r]) + n - 1) \div n
    BY <2>1, CutFacts
  <2> QED
    BY <2>1, <2>2
<1> HIDE DEF a, c
<1>8. OfPayloads(a.table, n)
  <2> SUFFICES ASSUME NEW g \in Ids, a.table[g] # NoState
               PROVE  \E s \in ValidPayloads :
                         HashOf[s] = g /\ Fits(a.table[g], s, n) /\ Own(a.table[g], s, n)
    BY DEF OfPayloads
  <2>1. CASE g = h
    BY <1>6, <1>7, <2>1
  <2>2. CASE g # h
    BY <1>5, <2>2 DEF OfPayloads
  <2> QED
    BY <2>1, <2>2
<1>9. \/ /\ f = NoState /\ a.result.kind = "complete" /\ HashOf[a.result.payload] = h
      \/ /\ f # NoState /\ f.total = Count(p, n) /\ i - 1 \in DOMAIN f.chunks
         /\ t[h] # NoState => DOMAIN t[h].chunks \subseteq DOMAIN f.chunks
  <2>1. CASE f = NoState
    <3>1. Complete(r, h).kind = "complete" /\ Complete(r, h).payload = r
      BY DEF Complete
    <3> QED
      BY <1>6, <1>7, <2>1, <3>1
  <2>2. CASE f # NoState
    BY <1>6, <1>7, <2>2 DEF Fits
  <2> QED
    BY <2>1, <2>2
<1> QED
  BY <1>3, <1>5, <1>8, <1>9 DEF a, c

(* A transfer in the table misses a chunk.                                 *)
LEMMA SomethingMissing ==
    ASSUME NEW t, TableInv(t), NEW h \in Ids, t[h] # NoState
    PROVE  ~ (0 .. t[h].total - 1 \subseteq DOMAIN t[h].chunks)
<1> DEFINE e == t[h]
<1>1. Proper(e)
  BY DEF TableInv
<1> HIDE DEF e
<1>2. e.total \in Nat /\ DOMAIN e.chunks \subseteq 0 .. e.total - 1
  BY <1>1, EntryFacts DEF Proper, Counted
<1>3. Cardinality(0 .. e.total - 1) = e.total
  <2>1. \A m \in Int : Cardinality(0 .. m) = IF 0 > m THEN 0 ELSE m - 0 + 1
    BY FS_Interval
  <2>2. PICK m \in Int : m = e.total - 1
    BY <1>2
  <2> QED
    BY <1>2, <2>1, <2>2
<1>4. 0 .. e.total - 1 \subseteq DOMAIN e.chunks => FALSE
  <2> SUFFICES ASSUME DOMAIN e.chunks = 0 .. e.total - 1 PROVE FALSE
    BY <1>2
  <2> QED
    BY <1>1, <1>2, <1>3 DEF Proper
<1> QED
  BY <1>4 DEF e

(* The table and the result after each chunk follow from the ones before.  *)
LEMMA AfterIs ==
    ASSUME NEW t, NEW cs, Len(cs) \in Nat
    PROVE  /\ AddAll(t, cs)[0] = [table |-> t, result |-> Incomplete]
           /\ \A k \in 1 .. Len(cs) :
                 AddAll(t, cs)[k] = Add(AddAll(t, cs)[k - 1].table, cs[k])
<1> DEFINE M == Len(cs)
           Start == [table |-> t, result |-> Incomplete]
           Eq(m, g) == g = [k \in 0 .. m |->
                               IF k = 0 THEN Start ELSE Add(g[k - 1].table, cs[k])]
           P == {m \in 0 .. M : \E g : Eq(m, g)}
           after == CHOOSE g : Eq(M, g)
<1> HIDE DEF Start
<1>1. 0 \in P
  <2> DEFINE g == [k \in 0 .. 0 |-> Start]
  <2>1. Eq(0, g)
    OBVIOUS
  <2>2. 0 \in 0 .. M
    OBVIOUS
  <2> HIDE DEF Eq, g
  <2> QED
    BY <2>1, <2>2
<1>2. ASSUME NEW m \in 1 .. M, m - 1 \in P PROVE m \in P
  <2>1. PICK g : Eq(m - 1, g)
    BY <1>2
  <2>2. \A k \in 0 .. m - 1 :
           g[k] = IF k = 0 THEN Start ELSE Add(g[k - 1].table, cs[k])
    BY <2>1
  <2> DEFINE f == [k \in 0 .. m |->
                     IF k = m THEN Add(g[m - 1].table, cs[m]) ELSE g[k]]
  <2>3. \A k \in 0 .. m : f[k] = IF k = m THEN Add(g[m - 1].table, cs[m]) ELSE g[k]
    OBVIOUS
  <2>4. f = [k \in 0 .. m |-> f[k]]
    OBVIOUS
  <2> HIDE DEF f
  <2>5. \A k \in 0 .. m : f[k] = IF k = 0 THEN Start ELSE Add(f[k - 1].table, cs[k])
    <3> SUFFICES ASSUME NEW k \in 0 .. m
                 PROVE  f[k] = IF k = 0 THEN Start ELSE Add(f[k - 1].table, cs[k])
      OBVIOUS
    <3>1. CASE k = m
      <4>1. k # 0 /\ k - 1 \in 0 .. m /\ k - 1 # m
        BY <3>1
      <4>2. f[k - 1] = g[k - 1] /\ f[k] = Add(g[k - 1].table, cs[k])
        BY <2>3, <3>1, <4>1
      <4> QED
        BY <4>1, <4>2
    <3>2. CASE k \in 0 .. m - 1
      <4>1. k # m /\ f[k] = g[k]
        BY <2>3, <3>2
      <4>2. k # 0 => k - 1 \in 0 .. m /\ k - 1 # m
        BY <3>2
      <4>3. k # 0 => f[k - 1] = g[k - 1]
        BY <2>3, <4>2
      <4> QED
        BY <2>2, <3>2, <4>1, <4>3
    <3> QED
      BY <3>1, <3>2
  <2>6. Eq(m, f)
    <3>1. [k \in 0 .. m |-> f[k]]
            = [k \in 0 .. m |-> IF k = 0 THEN Start ELSE Add(f[k - 1].table, cs[k])]
      BY <2>5
    <3> QED
      BY <2>4, <3>1
  <2> HIDE DEF Eq
  <2>7. m \in 0 .. M
    OBVIOUS
  <2> QED
    BY <2>6, <2>7
<1>3. M \in P
  <2> HIDE DEF P
  <2>1. \A m \in 0 .. M : m \in P
    BY <1>1, <1>2, UpTo
  <2> QED
    BY <2>1
<1>4. \E g : Eq(M, g)
  BY <1>3
<1>5. Eq(M, after)
  BY <1>4, Zenon
<1>6. AddAll(t, cs) = after
  BY Zenon DEF AddAll, Start
<1> HIDE DEF after
<1> QED
  BY <1>5, <1>6 DEF Start

(* Which piece the k-th chunk is when the pieces are sent twice.           *)
Turn(p, n, k) == IF k <= Count(p, n) THEN k ELSE k - Count(p, n)

LEMMA TwiceFacts ==
    ASSUME NEW p \in ValidPayloads, NEW n \in ChunkSizes
    PROVE  /\ Len(Twice(p, n)) = 2 * Count(p, n)
           /\ \A k \in 1 .. 2 * Count(p, n) :
                 Twice(p, n)[k] = ChunkPayload(p, n)[Turn(p, n, k)]
<1> DEFINE N == Count(p, n)
           cs == ChunkPayload(p, n)
           S == {cs[i] : i \in 1 .. N}
<1>1. N \in Nat \ {0} /\ DOMAIN cs = 1 .. N
  BY CutFacts, ChunkFacts
<1>2. cs = [i \in DOMAIN cs |-> cs[i]]
  BY DEF ChunkPayload
<1> HIDE DEF cs
<1>3. cs \in [1 .. N -> S]
  BY <1>1, <1>2
<1> HIDE DEF N, S
<1>4. cs \in Seq(S) /\ Len(cs) = N
  BY <1>1, <1>3, FunctionIsSeq
<1>5. /\ Len(cs \o cs) = N + N
      /\ \A k \in 1 .. N + N : (cs \o cs)[k] = IF k <= N THEN cs[k] ELSE cs[k - N]
  BY <1>4, ConcatProperties
<1>6. Twice(p, n) = cs \o cs
  BY DEF Twice, cs
<1>7. 2 * N = N + N
  BY <1>1
<1>8. ASSUME NEW k \in 1 .. 2 * N PROVE Twice(p, n)[k] = cs[Turn(p, n, k)]
  BY <1>1, <1>5, <1>6, <1>7 DEF Turn, N
<1> QED
  BY <1>5, <1>6, <1>7, <1>8 DEF N, cs

(* After the first j chunks of a round from step a of g, the transfer of p *)
(* is still open, has these j chunks and nothing else but what fits.       *)
Open(p, n, g, a, j) ==
    LET e == g[a + j].table[HashOf[p]] IN
    /\ TableInv(g[a + j].table) /\ Fits(e, p, n)
    /\ j # 0 => e # NoState
    /\ \A k \in 1 .. j : Turn(p, n, a + k) - 1 \in DOMAIN e.chunks
    /\ Own(g[a].table[HashOf[p]], p, n) => Own(e, p, n)

(* A transfer that has every chunk of p is not open.                       *)
LEMMA NotOpen ==
    ASSUME NEW p \in ValidPayloads, NEW n \in ChunkSizes, NEW g,
           NEW a \in 0 .. Count(p, n), Open(p, n, g, a, Count(p, n))
    PROVE  FALSE
<1> DEFINE N == Count(p, n)
           e == g[a + N].table[HashOf[p]]
<1>1. N \in Nat \ {0}
  BY CutFacts
<1>2. HashOf[p] \in Ids
  BY PayloadAssumption DEF ValidPayloads
<1>3. /\ TableInv(g[a + N].table) /\ Fits(e, p, n) /\ e # NoState
      /\ \A k \in 1 .. N : Turn(p, n, a + k) - 1 \in DOMAIN e.chunks
  BY <1>1 DEF Open
<1> HIDE DEF e
<1>4. Proper(e) /\ e.total = N
  BY <1>2, <1>3 DEF TableInv, Fits, e
<1>5. ASSUME NEW i \in 1 .. N PROVE i - 1 \in DOMAIN e.chunks
  <2> DEFINE k == IF i > a THEN i - a ELSE i - a + N
  <2>1. k \in 1 .. N /\ Turn(p, n, a + k) = i
    BY <1>1 DEF Turn
  <2> HIDE DEF k
  <2> QED
    BY <1>3, <2>1
<1> HIDE DEF N
<1>6. 0 .. N - 1 \subseteq DOMAIN e.chunks
  <2> SUFFICES ASSUME NEW i \in 0 .. N - 1 PROVE i \in DOMAIN e.chunks
    OBVIOUS
  <2>1. i + 1 \in 1 .. N /\ (i + 1) - 1 = i
    BY <1>1
  <2> QED
    BY <1>5, <2>1
<1>7. DOMAIN e.chunks = 0 .. N - 1
  BY <1>4, <1>6 DEF Proper, Counted
<1>8. Cardinality(0 .. N - 1) = N
  <2>1. 0 \in Int /\ N - 1 \in Int
    BY <1>1
  <2>2. Cardinality(0 .. N - 1) = IF 0 > N - 1 THEN 0 ELSE (N - 1) - 0 + 1
    BY <2>1, FS_Interval
  <2> QED
    BY <1>1, <2>2
<1> QED
  BY <1>1, <1>4, <1>7, <1>8 DEF Proper

(* A round of all chunks of p ends the transfer of p on its way, and       *)
(* delivers p if nothing but p's pieces was recorded before.               *)
LEMMA RoundEnds ==
    ASSUME NEW p \in ValidPayloads, NEW n \in ChunkSizes, NEW g,
           NEW a \in 0 .. Count(p, n), Open(p, n, g, a, 0),
           \A k \in 1 .. 2 * Count(p, n) :
              g[k] = Add(g[k - 1].table, ChunkPayload(p, n)[Turn(p, n, k)])
    PROVE  \E m \in a + 1 .. a + Count(p, n) :
              /\ TableInv(g[m].table) /\ g[m].table[HashOf[p]] = NoState
              /\ Own(g[a].table[HashOf[p]], p, n) => g[m].result = Complete(p, HashOf[p])
<1> DEFINE N == Count(p, n)
           h == HashOf[p]
           Ends(m) == /\ TableInv(g[m].table) /\ g[m].table[h] = NoState
                      /\ Own(g[a].table[h], p, n) => g[m].result = Complete(p, h)
           P == {j \in 0 .. N : Open(p, n, g, a, j)}
<1>1. N \in Nat \ {0}
  BY CutFacts
<1> SUFFICES ASSUME \A m \in a + 1 .. a + N : ~Ends(m)
             PROVE  FALSE
  OBVIOUS
<1>2. 0 \in P
  BY <1>1
<1>3. ASSUME NEW j \in 1 .. N, j - 1 \in P PROVE j \in P
  <2> DEFINE i == Turn(p, n, a + j)
             d == ChunkPayload(p, n)[i]
             e == g[a + (j - 1)].table[h]
             f == g[a + j].table[h]
  <2>1. /\ j \in 0 .. N /\ j - 1 \in Nat /\ a + j \in 1 .. 2 * N /\ a + j \in a + 1 .. a + N
        /\ (a + j) - 1 = a + (j - 1) /\ i \in 1 .. N
    BY <1>1 DEF Turn
  <2>2. g[a + j] = Add(g[a + (j - 1)].table, d)
    BY <2>1
  <2>3. /\ TableInv(g[a + (j - 1)].table) /\ Fits(e, p, n)
        /\ \A k \in 1 .. j - 1 : Turn(p, n, a + k) - 1 \in DOMAIN e.chunks
        /\ j - 1 # 0 => e # NoState
        /\ Own(g[a].table[h], p, n) => Own(e, p, n)
    BY <1>3 DEF Open
  <2> HIDE DEF i
  <2>4. /\ TableInv(g[a + j].table)
        /\ \/ f = NoState /\ (Own(e, p, n) => g[a + j].result = Complete(p, h))
           \/ /\ f # NoState /\ Fits(f, p, n) /\ i - 1 \in DOMAIN f.chunks
              /\ e # NoState => DOMAIN e.chunks \subseteq DOMAIN f.chunks
              /\ Own(e, p, n) => Own(f, p, n)
    <3> DEFINE t == g[a + (j - 1)].table
    <3>1. TableInv(t) /\ Fits(t[HashOf[p]], p, n) /\ i \in 1 .. Count(p, n)
      BY <2>1, <2>3
    <3>2. Add(t, d) = g[a + j] /\ e = t[h]
      BY <2>2
    <3> DEFINE b == Add(t, d)
               u == b.table[h]
    <3> HIDE DEF t
    <3>3. /\ TableInv(b.table)
          /\ \/ u = NoState /\ (Own(t[h], p, n) => b.result = Complete(p, h))
             \/ /\ u # NoState /\ Fits(u, p, n) /\ i - 1 \in DOMAIN u.chunks
                /\ t[h] # NoState => DOMAIN t[h].chunks \subseteq DOMAIN u.chunks
                /\ Own(t[h], p, n) => Own(u, p, n)
      BY <3>1, AddOwn, Zenon
    <3>4. b = g[a + j] /\ u = f
      BY <3>2
    <3> HIDE DEF b, u, d, e
    <3> QED
      BY <3>2, <3>3, <3>4
  <2> HIDE DEF e, f, d
  <2>5. f # NoState /\ Fits(f, p, n)
    BY <2>1, <2>3, <2>4 DEF f
  <2>6. ASSUME NEW k \in 1 .. j PROVE Turn(p, n, a + k) - 1 \in DOMAIN f.chunks
    <3>1. CASE k = j
      <4>1. i - 1 \in DOMAIN f.chunks
        BY <2>4, <2>5
      <4> QED
        BY <3>1, <4>1 DEF i
    <3>2. CASE k \in 1 .. j - 1
      <4>1. e # NoState /\ Turn(p, n, a + k) - 1 \in DOMAIN e.chunks
        BY <2>3, <3>2
      <4>2. DOMAIN e.chunks \subseteq DOMAIN f.chunks
        BY <2>4, <2>5, <4>1
      <4> QED
        BY <4>1, <4>2
    <3> QED
      BY <3>1, <3>2
  <2>7. Own(g[a].table[h], p, n) => Own(f, p, n)
    BY <2>3, <2>4, <2>5
  <2>8. Open(p, n, g, a, j)
    BY <2>4, <2>5, <2>6, <2>7 DEF Open, f
  <2> QED
    BY <2>1, <2>8
<1>4. N \in P
  <2> HIDE DEF P
  <2>1. \A j \in 0 .. N : j \in P
    BY <1>1, <1>2, <1>3, UpTo
  <2> QED
    BY <1>1, <2>1
<1> QED
  BY <1>4, NotOpen

(* The first round ends whatever transfer was left over or, if none was,   *)
(* delivers the payload; the next round starts from an empty entry.        *)
LEMMA TwoRounds ==
    ASSUME NEW p \in ValidPayloads, NEW n \in ChunkSizes, NEW t,
           TableInv(t), Fits(t[HashOf[p]], p, n)
    PROVE  \E k \in 1 .. Len(Twice(p, n)) :
              AddAll(t, Twice(p, n))[k].result = Complete(p, HashOf[p])
<1> DEFINE N == Count(p, n)
           h == HashOf[p]
           g == AddAll(t, Twice(p, n))
<1>1. N \in Nat \ {0} /\ Len(Twice(p, n)) = 2 * N /\ Len(Twice(p, n)) \in Nat
  BY CutFacts, TwiceFacts
<1>2. g[0].table = t
  <2>1. g[0] = [table |-> t, result |-> Incomplete]
    BY <1>1, AfterIs
  <2> HIDE DEF g
  <2> QED
    BY <2>1
<1>3. \A k \in 1 .. 2 * N : g[k] = Add(g[k - 1].table, ChunkPayload(p, n)[Turn(p, n, k)])
  <2>1. \A k \in 1 .. Len(Twice(p, n)) : g[k] = Add(g[k - 1].table, Twice(p, n)[k])
    BY <1>1, AfterIs
  <2>2. \A k \in 1 .. 2 * N : Twice(p, n)[k] = ChunkPayload(p, n)[Turn(p, n, k)]
    BY TwiceFacts
  <2> HIDE DEF g
  <2> QED
    BY <1>1, <2>1, <2>2
<1> HIDE DEF g
<1>4. 0 \in 0 .. N /\ 0 + 0 = 0 /\ 0 + N = N /\ 0 + 1 = 1
  BY <1>1
<1>5. Open(p, n, g, 0, 0)
  BY <1>2, <1>4 DEF Open
<1>6. PICK m \in 1 .. N : TableInv(g[m].table) /\ g[m].table[h] = NoState
  <2>1. \E m \in 0 + 1 .. 0 + N : TableInv(g[m].table) /\ g[m].table[h] = NoState
    BY <1>3, <1>4, <1>5, RoundEnds
  <2> QED
    BY <1>4, <2>1
<1>7. m \in 0 .. N /\ m + 0 = m
  BY <1>1
<1>8. Own(g[m].table[h], p, n) /\ Fits(g[m].table[h], p, n)
  BY <1>6 DEF Own, Fits
<1>9. Open(p, n, g, m, 0)
  BY <1>6, <1>7, <1>8 DEF Open
<1>10. PICK k \in m + 1 .. m + N : g[k].result = Complete(p, h)
  <2>1. \E k \in m + 1 .. m + N :
           Own(g[m].table[HashOf[p]], p, n) => g[k].result = Complete(p, HashOf[p])
    BY <1>3, <1>7, <1>9, RoundEnds
  <2> QED
    BY <1>8, <2>1
<1>11. k \in 1 .. 2 * N
  BY <1>1, <1>7
<1> QED
  BY <1>1, <1>10, <1>11 DEF g

(* In every reachable state a payload sent twice in full is delivered      *)
(* unless the entry left behind declares another split of the bytes.       *)
THEOREM RetransmissionDelivers == Spec => []RetransmissionHeals
<1>1. EntryInv => RetransmissionHeals
  <2> SUFFICES ASSUME EntryInv, NEW p \in ValidPayloads, NEW n \in ChunkSizes,
                      \/ inflight[HashOf[p]] = NoState
                      \/ ~Mismatch(inflight[HashOf[p]], ChunkPayload(p, n)[1])
               PROVE  \E k \in 1 .. Len(Twice(p, n)) :
                         AddAll(inflight, Twice(p, n))[k].result = Complete(p, HashOf[p])
    BY DEF RetransmissionHeals
  <2> DEFINE e == inflight[HashOf[p]]
             d == ChunkPayload(p, n)[1]
  <2>1. d.total = Count(p, n) /\ d.size = Len(Serial[p])
    <3>1. 1 \in 1 .. Count(p, n)
      BY CutFacts
    <3> QED
      BY <3>1, OwnChunk
  <2> HIDE DEF d
  <2>2. e = NoState \/ ~Mismatch(e, d)
    BY DEF d
  <2>3. Fits(e, p, n)
    BY <2>1, <2>2 DEF Fits, Mismatch
  <2>4. TableInv(inflight)
    BY DEF EntryInv
  <2> QED
    BY <2>3, <2>4, TwoRounds
<1> QED
  BY <1>1, ReassemblerInvariant, PTL

-----------------------------------------------------------------------------
(* What is delivered was sent, as long as all senders of a payload cut it  *)
(* alike.                                                                  *)

(* What is between the ends of two strings one after the other.            *)
LEMMA ConcatParts ==
    ASSUME NEW S, NEW s \in Seq(S), NEW t \in Seq(S), Len(t) > 0
    PROVE  /\ SubSeq(s \o t, Len(s) + 1, Len(s) + Len(t)) = t
           /\ \A x, y \in 1 .. Len(s) : SubSeq(s \o t, x, y) = SubSeq(s, x, y)
           /\ Len(s \o t) = Len(s) + Len(t)
<1>1. Len(s) \in Nat /\ Len(t) \in Nat \ {0}
  BY LenProperties
<1> DEFINE a == Len(s)
           b == Len(t)
<1>2. a \in Nat /\ b \in Nat \ {0}
  BY <1>1
<1>3. SubSeq(s \o t, a + 1, a + b) = SubSeq(t, (a + 1) - a, (a + b) - a)
  <2>1. a + 1 \in Len(s) + 1 .. Len(s) + Len(t) /\ a + b \in Len(s) + 1 .. Len(s) + Len(t)
    BY <1>1
  <2> HIDE DEF a, b
  <2> QED
    BY <2>1, SubSeqOfConcat2 DEF a
<1>4. (a + 1) - a = 1 /\ (a + b) - a = b
  <2> HIDE DEF a, b
  <2> QED
    BY <1>2
<1>5. SubSeq(t, 1, b) = t
  BY SubSeqFull
<1> HIDE DEF a, b
<1>6. SubSeq(s \o t, a + 1, a + b) = t
  BY <1>3, <1>4, <1>5
<1>7. \A x, y \in 1 .. Len(s) : SubSeq(s \o t, x, y) = SubSeq(s, x, y)
  BY SubSeqOfConcat1
<1>8. Len(s \o t) = Len(s) + Len(t)
  BY ConcatProperties
<1> QED
  BY <1>6, <1>7, <1>8 DEF a, b

(* A byte string put together from parts that end at the cuts has these    *)
(* parts between the cuts.                                                 *)
CutAt(f, N, S, cut) ==
    /\ f \in [1 .. N -> Seq(S)] /\ cut \in [0 .. N -> Nat] /\ cut[0] = 0
    /\ \A i \in 1 .. N : cut[i - 1] < cut[i] /\ Len(f[i]) = cut[i] - cut[i - 1]

Between(f, N, cut) ==
    \A i \in 1 .. N : f[i] = SubSeq(FlattenSeq(f), cut[i - 1] + 1, cut[i])

LEMMA FlatParts ==
    ASSUME NEW S, NEW N \in Nat \ {0}, NEW f, NEW cut, CutAt(f, N, S, cut)
    PROVE  Between(f, N, cut)
<1>1. PICK flat : Flattens(flat, f, N, S)
  BY FlattenIs DEF CutAt
<1>2. /\ FlattenSeq(f) = flat[N] /\ flat[1] = f[1]
      /\ \A i \in 1 .. N : flat[i] \in Seq(S)
      /\ \A i \in 2 .. N : flat[i] = flat[i - 1] \o f[i]
  BY <1>1 DEF Flattens
<1> DEFINE Parted(j) ==
             /\ Len(flat[j]) = cut[j]
             /\ \A k \in 1 .. j : /\ 1 <= cut[k] /\ cut[k] <= cut[j]
                                  /\ SubSeq(flat[j], cut[k - 1] + 1, cut[k]) = f[k]
           P == {j \in 0 .. N : j # 0 => Parted(j)}
<1>3. \A k \in 1 .. N : /\ cut[k] \in Nat /\ cut[k - 1] \in Nat /\ 1 <= cut[k] /\ f[k] \in Seq(S)
                      /\ cut[k - 1] < cut[k] /\ Len(f[k]) = cut[k] - cut[k - 1]
  BY DEF CutAt
<1>4. Parted(1)
  <2>1. 1 \in 1 .. N /\ 1 - 1 = 0
    OBVIOUS
  <2>2. Len(f[1]) = cut[1] /\ f[1] \in Seq(S) /\ cut[1] \in Nat /\ 1 <= cut[1] /\ cut[0] = 0
    BY <1>3, <2>1 DEF CutAt
  <2>3. SubSeq(f[1], 1, Len(f[1])) = f[1]
    BY <2>2, SubSeqFull
  <2>4. SubSeq(flat[1], cut[0] + 1, cut[1]) = f[1]
    BY <1>2, <2>2, <2>3
  <2>5. \A k \in 1 .. 1 : k = 1
    OBVIOUS
  <2> QED
    BY <1>2, <2>1, <2>2, <2>4, <2>5
<1>5. ASSUME NEW j \in 2 .. N, Parted(j - 1) PROVE Parted(j)
  <2>1. j \in 1 .. N /\ j - 1 \in 1 .. N
    OBVIOUS
  <2>2. PICK s \in Seq(S), t \in Seq(S) : s = flat[j - 1] /\ t = f[j] /\ flat[j] = s \o t
    BY <1>2, <1>3, <2>1
  <2>3. PICK x \in Nat, y \in Nat : x = cut[j - 1] /\ y = cut[j] /\ x < y
    BY <1>3, <2>1
  <2>4. Len(s) = x /\ Len(t) = y - x
    <3>1. Len(flat[j - 1]) = cut[j - 1]
      BY <1>5
    <3>2. Len(f[j]) = cut[j] - cut[j - 1]
      BY <1>3, <2>1
    <3> QED
      BY <2>2, <2>3, <3>1, <3>2
  <2>5. \A k \in 1 .. j - 1 : /\ 1 <= cut[k] /\ cut[k] <= x
                              /\ SubSeq(s, cut[k - 1] + 1, cut[k]) = f[k]
    BY <1>5, <2>2, <2>3
  <2> HIDE DEF P, Parted
  <2>6. /\ SubSeq(s \o t, x + 1, y) = t
        /\ \A u, v \in 1 .. x : SubSeq(s \o t, u, v) = SubSeq(s, u, v)
        /\ Len(s \o t) = y
    <3>1. Len(t) > 0 /\ Len(s) + Len(t) = y
      BY <2>3, <2>4
    <3>2. /\ SubSeq(s \o t, Len(s) + 1, Len(s) + Len(t)) = t
          /\ \A u, v \in 1 .. Len(s) : SubSeq(s \o t, u, v) = SubSeq(s, u, v)
          /\ Len(s \o t) = Len(s) + Len(t)
      BY <3>1, ConcatParts
    <3> QED
      BY <2>4, <3>1, <3>2
  <2>7. ASSUME NEW k \in 1 .. j
        PROVE  /\ 1 <= cut[k] /\ cut[k] <= y
               /\ SubSeq(flat[j], cut[k - 1] + 1, cut[k]) = f[k]
    <3>1. PICK u \in Nat, v \in Nat : u = cut[k - 1] /\ v = cut[k] /\ u < v
      <4>1. k \in 1 .. N
        BY <2>1
      <4> QED
        BY <1>3, <4>1
    <3>2. CASE k = j
      <4>1. u = x /\ v = y
        BY <2>3, <3>1, <3>2
      <4>2. SubSeq(flat[j], u + 1, v) = f[k]
        <5>1. SubSeq(flat[j], x + 1, y) = f[j]
          BY <2>2, <2>6
        <5> QED
          BY <3>2, <4>1, <5>1
      <4>3. 1 <= v /\ v <= y
        BY <2>3, <4>1
      <4> QED
        BY <3>1, <4>2, <4>3
    <3>3. CASE k \in 1 .. j - 1
      <4>1. SubSeq(s, u + 1, v) = f[k]
        BY <2>5, <3>1, <3>3
      <4>2. 1 <= v /\ v <= x
        BY <2>5, <3>1, <3>3
      <4>3. u < v
        BY <3>1
      <4>4. u + 1 \in 1 .. x /\ v \in 1 .. x
        BY <4>2, <4>3
      <4>5. SubSeq(flat[j], u + 1, v) = f[k]
        <5>1. SubSeq(s \o t, u + 1, v) = SubSeq(s, u + 1, v)
          BY <2>6, <4>4
        <5> QED
          BY <2>2, <4>1, <5>1
      <4>6. v <= y
        BY <2>3, <4>2
      <4> QED
        BY <3>1, <4>2, <4>5, <4>6
    <3> QED
      BY <3>2, <3>3
  <2> QED
    BY <2>2, <2>3, <2>6, <2>7 DEF Parted
<1>6. N \in P
  <2> HIDE DEF Parted
  <2>1. 0 \in P
    OBVIOUS
  <2>2. ASSUME NEW j \in 1 .. N, j - 1 \in P PROVE j \in P
    <3>1. CASE j = 1
      BY <1>4, <3>1
    <3>2. CASE j \in 2 .. N
      BY <1>5, <2>2, <3>2
    <3> QED
      BY <3>1, <3>2
  <2> HIDE DEF P
  <2>3. \A j \in 0 .. N : j \in P
    BY <2>1, <2>2, UpTo
  <2> QED
    BY <2>3
<1>7. Parted(N)
  <2> HIDE DEF Parted
  <2> QED
    BY <1>6
<1> QED
  BY <1>2, <1>7 DEF Between

(* Every chunk that declares the transfer of a valid payload p has as many *)
(* bytes as p's chunk of that number has when p is cut into n bytes.       *)
OneSplit(n) ==
    \A c \in AllChunks : \A p \in ValidPayloads :
        validateChunk(c) /\ c.id = HashOf[p] /\ c.size = Len(Serial[p]) =>
            c.total = Count(p, n) /\ Len(c.data) = Len(Piece(p, n, c.seq + 1))

(* What an entry holds came in a chunk of its transfer, and that chunk is  *)
(* in S if it is one of a valid payload.                                   *)
Brought(c, e, id, i, S) ==
    /\ c \in AllChunks /\ validateChunk(c)
    /\ c.id = id /\ c.seq = i /\ c.total = e.total /\ c.size = e.size /\ c.data = e.chunks[i]
    /\ c \in SentChunks => c \in S

Recorded(e, id, S) == \A i \in DOMAIN e.chunks : \E c : Brought(c, e, id, i, S)

(* A transfer that ends with a payload has exactly the chunks of it.       *)
LEMMA Genuine ==
    ASSUME NEW n \in ChunkSizes, OneSplit(n), NEW id, NEW S, NEW e, Counted(e), Full(e),
           Recorded(e, id, S), NEW p \in ValidPayloads, HashOf[p] = id,
           e.received = e.size, Serial[p] = Concat(e)
    PROVE  ToSet(ChunkPayload(p, n)) \subseteq S
<1> DEFINE N == e.total
<1>1. /\ N \in Nat \ {0} /\ DOMAIN e.chunks = 0 .. N - 1
  BY DEF Full
<1>2. e.size = Len(Serial[p])
  BY ConcatLength DEF Counted
<1>3. ASSUME NEW i \in 0 .. N - 1, NEW c, Brought(c, e, id, i, S)
      PROVE  N = Count(p, n) /\ Len(e.chunks[i]) = Len(Piece(p, n, i + 1))
  BY <1>2, <1>3 DEF OneSplit, Brought
<1>4. N = Count(p, n)
  <2>1. 0 \in 0 .. N - 1
    BY <1>1
  <2>2. PICK c : Brought(c, e, id, 0, S)
    BY <1>1, <2>1 DEF Recorded
  <2> QED
    BY <1>3, <2>1, <2>2
<1> DEFINE f == InOrder(e)
           cut == [i \in 0 .. N |-> Cut(p, n, i)]
<1>5. /\ f \in [1 .. N -> Seq(STRING)] /\ \A i \in 1 .. N : f[i] = e.chunks[i - 1]
      /\ FlattenSeq(f) = Serial[p]
  BY FullFacts
<1>6. CutAt(f, N, STRING, cut)
  <2>1. cut \in [0 .. N -> Nat] /\ cut[0] = 0
    <3>1. /\ Cut(p, n, 0) = 0 /\ Len(Serial[p]) \in Nat
          /\ \A i \in 0 .. N : Cut(p, n, i) \in 0 .. Len(Serial[p])
      BY <1>4, CutFacts
    <3>2. \A i \in 0 .. N : Cut(p, n, i) \in Nat
      BY <3>1
    <3>3. 0 \in 0 .. N
      BY <1>1
    <3> QED
      BY <3>1, <3>2, <3>3
  <2>2. ASSUME NEW i \in 1 .. N
        PROVE  cut[i - 1] < cut[i] /\ Len(f[i]) = cut[i] - cut[i - 1]
    <3>1. i - 1 \in 0 .. N - 1 /\ i - 1 \in 0 .. N /\ i \in 0 .. N /\ (i - 1) + 1 = i
      BY <1>1
    <3>2. PICK c : Brought(c, e, id, i - 1, S)
      BY <1>1, <3>1 DEF Recorded
    <3>3. Len(e.chunks[i - 1]) = Len(Piece(p, n, i))
      <4>1. Len(e.chunks[i - 1]) = Len(Piece(p, n, (i - 1) + 1))
        BY <1>3, <3>1, <3>2
      <4> QED
        BY <3>1, <4>1
    <3>4. Len(Piece(p, n, i)) = Cut(p, n, i) - Cut(p, n, i - 1)
      BY <1>4, PieceFacts
    <3>5. Cut(p, n, i - 1) < Cut(p, n, i)
      BY <1>4, CutFacts
    <3>6. cut[i - 1] = Cut(p, n, i - 1) /\ cut[i] = Cut(p, n, i)
      BY <3>1
    <3> HIDE DEF cut, f, N
    <3> QED
      BY <1>5, <3>3, <3>4, <3>5, <3>6
  <2> HIDE DEF cut, f
  <2> QED
    BY <1>5, <2>1, <2>2 DEF CutAt
<1>7. ASSUME NEW i \in 1 .. N PROVE e.chunks[i - 1] = Piece(p, n, i)
  <2>1. f[i] = SubSeq(Serial[p], cut[i - 1] + 1, cut[i])
    <3>1. N \in Nat \ {0}
      BY <1>1
    <3> HIDE DEF cut, f, N
    <3>2. Between(f, N, cut)
      BY <1>6, <3>1, FlatParts
    <3> QED
      BY <1>5, <3>2 DEF Between
  <2>2. cut[i - 1] = Cut(p, n, i - 1) /\ cut[i] = Cut(p, n, i)
    BY <1>1
  <2> HIDE DEF cut, f
  <2> QED
    BY <1>5, <2>1, <2>2 DEF Piece
<1>8. ASSUME NEW i \in 1 .. N PROVE ChunkPayload(p, n)[i] \in S
  <2>1. i - 1 \in 0 .. N - 1
    BY <1>1
  <2>2. PICK c : Brought(c, e, id, i - 1, S)
    BY <1>1, <2>1 DEF Recorded
  <2>3. c \in ChunkType
    BY <2>2, ChunksTyped DEF Brought
  <2>4. c = [id |-> HashOf[p], seq |-> i - 1, total |-> N, size |-> Len(Serial[p]),
             data |-> Piece(p, n, i)]
    BY <1>2, <1>7, <2>2, <2>3 DEF Brought, ChunkType
  <2>5. c = ChunkPayload(p, n)[i] /\ i \in DOMAIN ChunkPayload(p, n)
    BY <1>4, <2>4, ChunkFacts
  <2>6. c \in ToSet(ChunkPayload(p, n))
    BY <2>5 DEF ToSet
  <2>7. c \in SentChunks
    BY <2>6 DEF SentChunks
  <2> QED
    BY <2>2, <2>5, <2>7 DEF Brought
<1> QED
  BY <1>4, <1>8, ChunkFacts DEF ToSet

(* Whatever the table holds was brought by chunks handed to Add.           *)
AllRecorded(t, S) == \A id \in Ids : t[id] # NoState => Recorded(t[id], id, S)

(* A payload that Finish delivers.                                         *)
LEMMA FinishFacts ==
    ASSUME NEW e, NEW id, Finish(e, id).kind = "complete"
    PROVE  \E p \in ValidPayloads : /\ Finish(e, id) = Complete(p, id) /\ HashOf[p] = id
                                    /\ e.received = e.size /\ Serial[p] = Concat(e)
<1> DEFINE ps == Decoded(Concat(e))
           p == CHOOSE q \in ps : TRUE
<1>1. e.received = e.size /\ ps # {} /\ HashOf[p] = id /\ Finish(e, id) = Complete(p, id)
  BY DEF Finish, Failed
<1>2. p \in ps
  BY <1>1, Zenon
<1> HIDE DEF p
<1>3. p \in ValidPayloads /\ Serial[p] = Concat(e)
  BY <1>2 DEF Decoded
<1> QED
  BY <1>1, <1>3

(* Recording a chunk keeps what the entry holds brought by chunks.         *)
LEMMA RecordKeeps ==
    ASSUME NEW c \in AllChunks, validateChunk(c), NEW st, Counted(st), NEW S, NEW T,
           ~Mismatch(st, c), c.seq \notin DOMAIN st.chunks, c.seq < st.total,
           Recorded(st, c.id, S), S \subseteq T, c \in SentChunks => c \in T
    PROVE  Recorded(Record(st, c), c.id, T)
<1> DEFINE rec == Record(st, c)
<1>1. /\ rec.total = st.total /\ rec.size = st.size
      /\ DOMAIN rec.chunks = DOMAIN st.chunks \cup {c.seq}
      /\ rec.chunks[c.seq] = c.data
      /\ \A i \in DOMAIN st.chunks : rec.chunks[i] = st.chunks[i]
  BY RecordFacts
<1> HIDE DEF rec
<1>2. Brought(c, rec, c.id, c.seq, T)
  BY <1>1 DEF Brought, Mismatch
<1>3. ASSUME NEW i \in DOMAIN st.chunks PROVE \E d : Brought(d, rec, c.id, i, T)
  <2>1. PICK d : Brought(d, st, c.id, i, S)
    BY DEF Recorded
  <2>2. Brought(d, rec, c.id, i, T)
    BY <1>1, <2>1 DEF Brought
  <2> QED
    BY <2>2
<1>4. ASSUME NEW i \in DOMAIN rec.chunks PROVE \E d : Brought(d, rec, c.id, i, T)
  BY <1>1, <1>2, <1>3
<1> QED
  BY <1>4 DEF Recorded, rec

(* One chunk more.                                                         *)
LEMMA AddGenuine ==
    ASSUME NEW n \in ChunkSizes, OneSplit(n), NEW t, TableInv(t), NEW c \in AllChunks,
           NEW S, NEW T, S \subseteq T, c \in SentChunks => c \in T, AllRecorded(t, S)
    PROVE  LET a == Add(t, c) IN
           /\ AllRecorded(a.table, T)
           /\ a.result.kind = "complete" =>
                 /\ ValidatePayload(a.result.payload)
                 /\ Fields[a.result.payload].sum = a.result.id
                 /\ ToSet(ChunkPayload(a.result.payload, n)) \subseteq T
<1> DEFINE a == Add(t, c)
           st  == IF t[c.id] = NoState THEN NewState(c) ELSE t[c.id]
           rec == Record(st, c)
           Valid == a.result.kind = "complete" =>
                       /\ ValidatePayload(a.result.payload)
                       /\ Fields[a.result.payload].sum = a.result.id
                       /\ ToSet(ChunkPayload(a.result.payload, n)) \subseteq T
<1> SUFFICES AllRecorded(a.table, T) /\ Valid
  BY Zenon
<1>1. c.id \in Ids /\ c.total \in Nat /\ DOMAIN t = Ids
  BY ChunksTyped DEF ChunkType, TableInv
<1>2. \/ a.table = t /\ a.result.kind # "complete"
      \/ /\ validateChunk(c) /\ ~Mismatch(st, c)
         /\ Counted(st) /\ c.seq \notin DOMAIN st.chunks /\ c.seq < st.total
         /\ Counted(rec)
         /\ \/ a.table = [t EXCEPT ![c.id] = rec] /\ a.result = Incomplete
            \/ /\ a.table = [t EXCEPT ![c.id] = NoState]
               /\ DOMAIN rec.chunks = 0 .. rec.total - 1
               /\ a.result = Finish(rec, c.id)
  <2>1. \/ /\ a.table = t /\ a.result.kind # "complete"
           /\ \/ ~validateChunk(c) \/ Mismatch(st, c)
              \/ t[c.id] # NoState /\ c.seq \in DOMAIN t[c.id].chunks
        \/ /\ validateChunk(c) /\ ~Mismatch(st, c)
           /\ Counted(st) /\ c.seq \notin DOMAIN st.chunks /\ c.seq < st.total
           /\ Counted(rec) /\ rec # NoState
           /\ \/ a.table = [t EXCEPT ![c.id] = rec] /\ Proper(rec)
                 /\ a.result = Incomplete
              \/ /\ a.table = [t EXCEPT ![c.id] = NoState]
                 /\ DOMAIN rec.chunks = 0 .. rec.total - 1
                 /\ a.result = Finish(rec, c.id)
    BY AddCases, Zenon
  <2> HIDE DEF a, st, rec
  <2> QED
    BY <2>1
<1>3. AllRecorded(t, T)
  <2> SUFFICES ASSUME NEW id \in Ids, t[id] # NoState, NEW i \in DOMAIN t[id].chunks
               PROVE  \E d : Brought(d, t[id], id, i, T)
    BY DEF AllRecorded, Recorded
  <2>1. PICK d : Brought(d, t[id], id, i, S)
    BY DEF AllRecorded, Recorded
  <2>2. Brought(d, t[id], id, i, T)
    BY <2>1 DEF Brought
  <2> QED
    BY <2>2
<1>4. ASSUME validateChunk(c), ~Mismatch(st, c), Counted(st),
             c.seq \notin DOMAIN st.chunks, c.seq < st.total
      PROVE  Recorded(rec, c.id, T) /\ rec.total = c.total
  <2>1. Recorded(st, c.id, S)
    <3>1. CASE t[c.id] = NoState
      <4>1. st = NewState(c) /\ c.total > 0
        BY <1>4, <3>1 DEF validateChunk
      <4>2. DOMAIN NewState(c).chunks = {}
        BY <4>1, NewFacts
      <4> QED
        BY <4>1, <4>2 DEF Recorded
    <3>2. CASE t[c.id] # NoState
      BY <1>1, <3>2 DEF AllRecorded
    <3> QED
      BY <3>1, <3>2
  <2> HIDE DEF st
  <2>2. Recorded(rec, c.id, T)
    BY <1>4, <2>1, RecordKeeps
  <2>3. rec.total = c.total
    <3>1. rec.total = st.total
      BY <1>4, RecordFacts
    <3> QED
      BY <1>4, <3>1 DEF Mismatch
  <2> QED
    BY <2>2, <2>3
<1> HIDE DEF a, st, rec
<1>5. CASE a.table = t /\ a.result.kind # "complete"
  BY <1>3, <1>5
<1>6. CASE /\ validateChunk(c) /\ ~Mismatch(st, c)
           /\ Counted(st) /\ c.seq \notin DOMAIN st.chunks /\ c.seq < st.total
           /\ a.table = [t EXCEPT ![c.id] = rec] /\ a.result = Incomplete
  <2>1. Recorded(rec, c.id, T)
    BY <1>4, <1>6
  <2>2. AllRecorded(a.table, T)
    BY <1>1, <1>3, <1>6, <2>1 DEF AllRecorded
  <2>3. a.result.kind # "complete"
    BY <1>6 DEF Incomplete
  <2> QED
    BY <2>2, <2>3
<1>7. CASE /\ validateChunk(c) /\ ~Mismatch(st, c)
           /\ Counted(st) /\ c.seq \notin DOMAIN st.chunks /\ c.seq < st.total
           /\ Counted(rec)
           /\ a.table = [t EXCEPT ![c.id] = NoState]
           /\ DOMAIN rec.chunks = 0 .. rec.total - 1
           /\ a.result = Finish(rec, c.id)
  <2>1. AllRecorded(a.table, T)
    BY <1>1, <1>3, <1>7 DEF AllRecorded
  <2>2. ASSUME a.result.kind = "complete"
        PROVE  /\ ValidatePayload(a.result.payload)
               /\ Fields[a.result.payload].sum = a.result.id
               /\ ToSet(ChunkPayload(a.result.payload, n)) \subseteq T
    <3>1. PICK p \in ValidPayloads :
             /\ Finish(rec, c.id) = Complete(p, c.id) /\ HashOf[p] = c.id
             /\ rec.received = rec.size /\ Serial[p] = Concat(rec)
      BY <1>7, <2>2, FinishFacts
    <3>2. a.result.payload = p /\ a.result.id = c.id
      BY <1>7, <3>1 DEF Complete
    <3>3. ValidatePayload(p) /\ Fields[p].sum = HashOf[p]
      BY DEF ValidPayloads, ValidatePayload
    <3>4. Recorded(rec, c.id, T) /\ rec.total = c.total
      BY <1>4, <1>7
    <3>5. Full(rec)
      <4>1. rec.total \in Nat \ {0}
        BY <1>1, <1>7, <3>4 DEF validateChunk
      <4> QED
        BY <1>7, <4>1, EntryFacts DEF Full, Counted
    <3>6. ToSet(ChunkPayload(p, n)) \subseteq T
      BY <1>7, <3>1, <3>4, <3>5, Genuine
    <3> QED
      BY <3>1, <3>2, <3>3, <3>6
  <2> QED
    BY <2>1, <2>2
<1> QED
  BY <1>2, <1>5, <1>6, <1>7

RecordedInv == AllRecorded(inflight, seen)

(* As long as every chunk that declares the transfer of a valid payload is *)
(* as long as that payload's chunk is, only valid payloads are delivered,  *)
(* under their own hash, and only when every chunk of them was received.   *)
THEOREM NothingIsFabricated ==
    ASSUME NEW n \in ChunkSizes, OneSplit(n)
    PROVE  Spec => []NoFabrication
<1>1. Init => RecordedInv /\ NoFabrication
  BY DEF Init, NoTransfers, Incomplete, RecordedInv, AllRecorded, NoFabrication
<1>2. EntryInv /\ RecordedInv /\ NoFabrication /\ [Next]_vars => RecordedInv' /\ NoFabrication'
  <2> SUFFICES ASSUME TableInv(inflight), AllRecorded(inflight, seen), NoFabrication, [Next]_vars
               PROVE  AllRecorded(inflight', seen') /\ NoFabrication'
    BY DEF EntryInv, RecordedInv
  <2>1. ASSUME NEW c \in AllChunks, Receive(c)
        PROVE  AllRecorded(inflight', seen') /\ NoFabrication'
    <3>1. /\ inflight' = Add(inflight, c).table /\ result' = Add(inflight, c).result
          /\ seen \subseteq seen' /\ (c \in SentChunks => c \in seen')
      BY <2>1 DEF Receive
    <3> DEFINE a == Add(inflight, c)
    <3>2. PICK T : T = seen'
      OBVIOUS
    <3>3. /\ AllRecorded(a.table, T)
          /\ a.result.kind = "complete" =>
                /\ ValidatePayload(a.result.payload)
                /\ Fields[a.result.payload].sum = a.result.id
                /\ ToSet(ChunkPayload(a.result.payload, n)) \subseteq T
      <4>1. seen \subseteq T /\ (c \in SentChunks => c \in T)
        BY <3>1, <3>2
      <4> QED
        BY <4>1, AddGenuine, Zenon
    <3> HIDE DEF a
    <3>4. a.table = inflight' /\ a.result = result'
      BY <3>1 DEF a
    <3>5. NoFabrication'
      BY <3>2, <3>3, <3>4 DEF NoFabrication
    <3> QED
      BY <3>2, <3>3, <3>4, <3>5
  <2>2. CASE UNCHANGED vars
    BY <2>2 DEF vars, NoFabrication
  <2> QED
    BY <2>1, <2>2 DEF Next
<1> QED
  BY <1>1, <1>2, ReassemblerInvariant, PTL DEF Spec

(* So it is when there is one chunk size, as DefaultChunkSize is, and no   *)
(* stray chunk that declares a valid payload's transfer is of another      *)
(* length.                                                                 *)
LEMMA OneSizeSplits ==
    ASSUME NEW n, ChunkSizes = {n},
           \A c \in StrayChunks : \A p \in ValidPayloads :
              validateChunk(c) /\ c.id = HashOf[p] /\ c.size = Len(Serial[p]) =>
                 c.total = Count(p, n) /\ Len(c.data) = Len(Piece(p, n, c.seq + 1))
    PROVE  OneSplit(n)
<1> SUFFICES ASSUME NEW c \in AllChunks, NEW p \in ValidPayloads,
                    validateChunk(c), c.id = HashOf[p], c.size = Len(Serial[p])
             PROVE  c.total = Count(p, n) /\ Len(c.data) = Len(Piece(p, n, c.seq + 1))
  BY DEF OneSplit
<1>1. n \in ChunkSizes
  OBVIOUS
<1>2. CASE c \in SentChunks
  <2>1. PICK q \in ValidPayloads, m \in ChunkSizes : c \in ToSet(ChunkPayload(q, m))
    BY <1>2 DEF SentChunks
  <2>2. PICK i \in 1 .. Count(q, n) : c = ChunkPayload(q, n)[i]
    <3>1. PICK i \in DOMAIN ChunkPayload(q, n) : c = ChunkPayload(q, n)[i]
      BY <2>1 DEF ToSet
    <3>2. DOMAIN ChunkPayload(q, n) = 1 .. Count(q, n)
      BY <1>1, ChunkFacts
    <3> QED
      BY <3>1, <3>2
  <2>3. c = [id |-> HashOf[q], seq |-> i - 1, total |-> Count(q, n),
             size |-> Len(Serial[q]), data |-> Piece(q, n, i)]
    BY <1>1, <2>2, ChunkFacts
  <2>4. Len(Serial[q]) = Len(Serial[p]) /\ c.total = Count(q, n) /\ c.data = Piece(q, n, i)
        /\ c.seq = i - 1
    BY <2>3
  <2>5. Count(q, n) = Count(p, n)
    <3>1. /\ Count(q, n) = (Len(Serial[q]) + n - 1) \div n
          /\ Count(p, n) = (Len(Serial[p]) + n - 1) \div n
      BY <1>1, CutFacts
    <3> QED
      BY <2>4, <3>1
  <2>6. i \in 1 .. Count(p, n) /\ i \in Int /\ c.seq + 1 = i
    BY <1>1, <2>4, <2>5, CutFacts
  <2>7. Cut(q, n, i) = Cut(p, n, i) /\ Cut(q, n, i - 1) = Cut(p, n, i - 1)
    BY <2>4 DEF Cut
  <2>8. /\ Len(Piece(q, n, i)) = Cut(q, n, i) - Cut(q, n, i - 1)
        /\ Len(Piece(p, n, i)) = Cut(p, n, i) - Cut(p, n, i - 1)
    BY <1>1, <2>6, PieceFacts
  <2> QED
    BY <2>4, <2>5, <2>6, <2>7, <2>8
<1>3. CASE c \in StrayChunks
  BY <1>3
<1> QED
  BY <1>2, <1>3 DEF AllChunks
=============================================================================
