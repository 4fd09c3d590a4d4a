--------------------------- MODULE MCSystemdNotify ---------------------------
(* A small instance of SystemdNotify for TLC. *)
EXTENDS SystemdNotify, TLC

(* The tests are alike. *)
Symmetry == Permutations(Tests)
=============================================================================
