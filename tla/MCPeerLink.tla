----------------------------- MODULE MCPeerLink -----------------------------
(* TLC instance of PeerLink: the names of connections and endpoints are    *)
(* interchangeable.                                                        *)
EXTENDS PeerLink, TLC

Symmetry == Permutations(Conns) \cup Permutations(Endpoints)
=============================================================================
