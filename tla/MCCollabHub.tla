---------------------------- MODULE MCCollabHub ----------------------------
(* Small instances of CollabHub for TLC. *)
EXTENDS CollabHub, TLC

Symmetry == Permutations(Conns) \cup Permutations(Hosts)
=============================================================================
