---------------------------- MODULE DiscoveredTools ----------------------------
(***************************************************************************)
(* What tool discovery promises, without its goroutines and its channel:   *)
(* the slugs are listed once, each is asked for once, in any order, and    *)
(* only when every question has been answered or has failed is the list    *)
(* made, from each tool's own answer at its own place.                     *)
(***************************************************************************)
CONSTANTS
    Lists,             \* the lists of slugs that Composio may give
    GetToolV3(_),      \* the answers it may give about a slug, an error included
    Mappings(_, _),    \* the tool list made of the slugs and the answers
    Pending            \* not answered yet

VARIABLES
    stage,     \* "listing", "asking", "ready" or "failed"
    slugs,     \* the slugs listed
    heard,     \* what has been heard about each: an answer, or Pending
    tools      \* the tool list made of it

vars == <<stage, slugs, heard, tools>>

Init == stage = "listing" /\ slugs = <<>> /\ heard = <<>> /\ tools = <<>>

List ==
    /\ stage = "listing"
    /\ \E l \in Lists : slugs' = l /\ heard' = [i \in DOMAIN l |-> Pending]
    /\ stage' = "asking"
    /\ UNCHANGED tools

Hear(i) ==
    /\ heard[i] = Pending
    /\ \E t \in GetToolV3(slugs[i]) : heard' = [heard EXCEPT ![i] = t]
    /\ UNCHANGED <<stage, slugs, tools>>

Make ==
    /\ stage = "asking"
    /\ \A i \in DOMAIN slugs : heard[i] # Pending
    /\ tools' = Mappings(slugs, heard)
    /\ stage' = IF tools' = <<>> THEN "failed" ELSE "ready"
    /\ UNCHANGED <<slugs, heard>>

GiveUp == stage = "listing" /\ stage' = "failed" /\ UNCHANGED <<slugs, heard, tools>>

Next == List \/ (\E i \in DOMAIN slugs : Hear(i)) \/ Make \/ GiveUp

Spec == Init /\ [][Next]_vars
=============================================================================
