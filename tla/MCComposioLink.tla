---------------------------- MODULE MCComposioLink ----------------------------
(* Small instances of ComposioLink for TLC. *)
EXTENDS ComposioLink, TLC

Symmetry == Permutations(States) \cup Permutations(Conns)
            \cup Permutations(Workers) \cup Permutations(Users)
=============================================================================
