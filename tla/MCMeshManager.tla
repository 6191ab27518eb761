---------------------------- MODULE MCMeshManager ----------------------------
(* TLC instance of MeshManager: the names of connections are               *)
(* interchangeable.                                                        *)
EXTENDS MeshManager, TLC

Symmetry == Permutations(Conns)
=============================================================================
