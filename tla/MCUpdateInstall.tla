--------------------------- MODULE MCUpdateInstall ---------------------------
(* Instances of UpdateInstall for TLC. *)
EXTENDS UpdateInstall

CONSTANTS t1, t2

(* 1 is .release-files, 4 is pyproject.toml; 2 leaves, 3 changes, 5 arrives. *)
ThreeReleases == <<{1, 2, 3, 4}, {1, 3, 4, 5}, {1, 3, 4}>>

=============================================================================
