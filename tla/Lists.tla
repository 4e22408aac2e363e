--------------------------------- MODULE Lists ---------------------------------
(***************************************************************************)
(* The connector's loops over a slice that append what they keep of it.    *)
(***************************************************************************)
EXTENDS SequencesExt

(* The elements of s at the positions in K, in their order. *)
Kept(s, K) == FoldLeftDomain(LAMBDA t, k : IF k \in K THEN Append(t, s[k]) ELSE t, <<>>, s)
=============================================================================
