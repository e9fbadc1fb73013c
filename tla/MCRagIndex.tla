----------------------------- MODULE MCRagIndex -----------------------------
(* Instances of RagIndex for TLC. *)
EXTENDS RagIndex

CONSTANTS d1, d2, b1, b2, i1, i2, s1

(* Two backends of different lengths, or of one.                            *)
Lengths == [b \in Backends |-> IF b = b1 THEN 384 ELSE 768]
OneLength == [b \in Backends |-> 768]

=============================================================================
