--------------------------- MODULE MCClipboardSync ---------------------------
(* TLC instance of ClipboardSync: a1 and a2 are the same content copied at *)
(* two times (the first byte), b1 is another one.                          *)
EXTENDS ClipboardSync

CONSTANTS a1, a2, b1, A, B, p1, c1, c2

MCHashOf == [p \in {a1, a2, b1} |-> IF p = b1 THEN B ELSE A]
MCFields == [p \in {a1, a2, b1} |->
               [type |-> "TEXT", mime |-> "", len |-> 1, size |-> 1, utf8 |-> TRUE,
                sum |-> IF p = b1 THEN B ELSE A]]
MCSerial == [p \in {a1, a2, b1} |->
               CASE p = a1 -> <<"t1", "a", "c">> [] p = a2 -> <<"t2", "a", "c">> [] p = b1 -> <<"b">>]
MCNumChunks == [p \in {a1, a2, b1} |-> IF p = b1 THEN 1 ELSE 3]
MCEvents == <<{a1}, {a2, b1}>>
MCPeerOf == [c \in {c1, c2} |-> p1]
=============================================================================
