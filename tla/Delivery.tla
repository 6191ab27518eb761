------------------------------ MODULE Delivery -------------------------------
(***************************************************************************)
(* What clipboard sync promises of one sender, with no chunks, queues or   *)
(* connections in it: a content appears on a peer's clipboard only because *)
(* it was copied, and once for each time it was copied at the most.        *)
(***************************************************************************)
EXTENDS Naturals, Sequences, FiniteSets

CONSTANTS Peers, Contents

VARIABLES
    sent,       \* the contents copied on the sender, in order
    applied     \* peer -> the contents written to its clipboard, in order

vars == <<sent, applied>>

Times(h, s) == Cardinality({i \in DOMAIN s : s[i] = h})

Init == sent = <<>> /\ applied = [p \in Peers |-> <<>>]

CopyContent(h) ==
    /\ sent' = Append(sent, h)
    /\ UNCHANGED applied

ApplyContent(p, h) ==
    /\ Times(h, applied[p]) < Times(h, sent)
    /\ applied' = [applied EXCEPT ![p] = Append(@, h)]
    /\ UNCHANGED sent

Next ==
    \E h \in Contents : CopyContent(h) \/ \E p \in Peers : ApplyContent(p, h)

Spec == Init /\ [][Next]_vars
=============================================================================
