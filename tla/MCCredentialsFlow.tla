--------------------------- MODULE MCCredentialsFlow ---------------------------
(* Small instances of CredentialsFlow for TLC. *)
EXTENDS CredentialsFlow, TLC

Symmetry == Permutations(States) \cup Permutations(Creds) \cup Permutations(EncKeys)
            \cup Permutations(Workers) \cup Permutations(Users)
=============================================================================
