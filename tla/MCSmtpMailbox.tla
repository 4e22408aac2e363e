----------------------------- MODULE MCSmtpMailbox -----------------------------
(* Small instances of SmtpMailbox for TLC. *)
EXTENDS SmtpMailbox

Symmetry == Permutations(Recipients)
=============================================================================
