---------------------------- MODULE MCReassembler ----------------------------
(* TLC instance of Reassembler.  a1 and a2 are the same content copied     *)
(* twice: their serial forms differ in the timestamp, the first byte.  x1  *)
(* claims the hash of B for the content A, y1 is A without a type.         *)
EXTENDS Reassembler

CONSTANTS a1, a2, b1, x1, y1, A, B

Messages == {a1, a2, b1, x1, y1}
MCHashOf == [p \in Messages |-> IF p \in {b1, x1} THEN B ELSE A]
MCFields == [p \in Messages |->
               [type |-> CASE p = b1 -> "IMAGE" [] p = y1 -> "UNSPECIFIED" [] OTHER -> "TEXT",
                mime |-> IF p = b1 THEN "image/png" ELSE "",
                len |-> 2, size |-> 2, utf8 |-> p # b1, sum |-> IF p = b1 THEN B ELSE A]]
MCSerial == [p \in Messages |->
               CASE p = a1 -> <<"t1", "a", "c", "d">>
                 [] p = a2 -> <<"t2", "a", "c", "d">>
                 [] p = b1 -> <<"t1", "b", "e">>
                 [] p = x1 -> <<"x", "a">>
                 [] p = y1 -> <<"y">>]

(* b1, x1 and y1 whole under the ids they do not have or claim, chunks     *)
(* whose data is another transfer's or too short, and a chunk that         *)
(* validateChunk refuses.                                                  *)
MCStray ==
    {[id |-> A, seq |-> 0, total |-> 1, size |-> 3, data |-> <<"t1", "b", "e">>],
     [id |-> B, seq |-> 0, total |-> 1, size |-> 2, data |-> <<"x", "a">>],
     [id |-> A, seq |-> 0, total |-> 1, size |-> 1, data |-> <<"y">>],
     [id |-> A, seq |-> 1, total |-> 2, size |-> 4, data |-> <<"e">>],
     [id |-> A, seq |-> 0, total |-> 2, size |-> 4, data |-> <<"t1", "b">>],
     [id |-> B, seq |-> 0, total |-> 2, size |-> 1, data |-> <<"t1", "b">>]}
=============================================================================
