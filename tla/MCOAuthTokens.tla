---------------------------- MODULE MCOAuthTokens -----------------------------
(* Small instances of OAuthTokens for TLC. *)
EXTENDS OAuthTokens, TLC

(* A provider that rotates refresh tokens, as Twitter does. *)
RotatingShapes == {[rt |-> TRUE, exp |-> TRUE]}

(* One that returns a refresh token with the exchange only, as Google does, *)
(* and may omit expires_in from a refresh.                                  *)
KeepingShapes == {[rt |-> FALSE, exp |-> TRUE], [rt |-> FALSE, exp |-> FALSE]}

(* A classic GitHub token neither expires nor can be refreshed. *)
AnyExchange == {[rt |-> TRUE, exp |-> TRUE], [rt |-> FALSE, exp |-> FALSE]}

Symmetry == Permutations(States) \cup Permutations(Codes)
            \cup Permutations(Workers) \cup Permutations(Users)
=============================================================================
