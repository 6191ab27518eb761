------------------------------ MODULE MCOSClip ------------------------------
(* TLC instance of OSClip: one or two texts, one PNG, the JPEG that        *)
(* normalises to it, and a payload that cannot be decoded.                 *)
EXTENDS OSClip, TLC

CONSTANTS t1, t2, png, jpeg, garbage

NormalImage == [k \in Hashes |-> CASE k = jpeg -> png [] k = garbage -> NoData [] OTHER -> k]
Symmetry == Permutations(Appliers)
=============================================================================
