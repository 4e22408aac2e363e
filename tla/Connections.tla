------------------------------ MODULE Connections ------------------------------
(***************************************************************************)
(* What the connector promises about connections, whatever the flow that   *)
(* makes them: without requests, links, clocks, lost calls or crashes.     *)
(* What is stored for a user and a platform is a secret that came up for   *)
(* them.  It is ready, and a tool is given it, only if its user has        *)
(* granted access with it.  A connection keeps its id as long as it is     *)
(* there, a step changes one of them, and one that is removed takes no     *)
(* other with it and leaves its id to no other.  A flow that cannot tell   *)
(* every refusal from an answer may store a connection that has no secret. *)
(***************************************************************************)
EXTENDS Integers

CONSTANTS Users, Platforms,
          Secrets,   \* what a tool acts with: a consent, a connection, a password
          CanSpoil,  \* may a connection be stored without a secret?
          Null

VARIABLES
    offered,   \* the secrets that came up for each (user, platform), as pairs
    granted,   \* those of them that their user has given access with
    kept,      \* (user, platform) -> the connection stored for it, or Null
    nextId,    \* connections get this id and later ones
    handed     \* the pair that the last step gave to a tool, or Null

vars == <<offered, granted, kept, nextId, handed>>

Keys == Users \X Platforms

Init ==
    /\ offered = {} /\ granted = {}
    /\ kept = [k \in Keys |-> Null]
    /\ nextId = 1
    /\ handed = Null

(* What comes up may give access at once, or later, or never. *)
Offer(k, s) ==
    /\ offered' = offered \cup {<<k, s>>}
    /\ granted' \in {granted, granted \cup {<<k, s>>}}
    /\ handed' = Null
    /\ UNCHANGED <<kept, nextId>>

Grant(k, s) ==
    /\ <<k, s>> \in offered
    /\ granted' = granted \cup {<<k, s>>}
    /\ handed' = Null
    /\ UNCHANGED <<offered, kept, nextId>>

(* Stored anew or over what was there, which gives up its id. *)
Put(k, s, ready) ==
    /\ kept' = [kept EXCEPT ![k] =
           [id |-> IF @ = Null THEN nextId ELSE @.id, ready |-> ready, secret |-> s]]
    /\ nextId' = IF kept[k] = Null THEN nextId + 1 ELSE nextId
    /\ UNCHANGED <<offered, granted>>

(* The tool that asked for it may be given it in the same breath. *)
Keep(k, s, ready) ==
    /\ <<k, s>> \in (IF ready THEN granted ELSE offered)
    /\ Put(k, s, ready)
    /\ handed' = Null \/ (ready /\ handed' = <<k, s>>)

(* A refusal has been taken for an answer: what was there is lost, and no   *)
(* tool is given anything to act with.                                      *)
Spoil(k, ready) ==
    /\ CanSpoil
    /\ Put(k, Null, ready)
    /\ handed' = Null

Remove(k) ==
    /\ kept[k] # Null
    /\ kept' = [kept EXCEPT ![k] = Null]
    /\ handed' = Null
    /\ UNCHANGED <<offered, granted, nextId>>

Hand(k, s) ==
    /\ <<k, s>> \in granted
    /\ handed' = <<k, s>>
    /\ UNCHANGED <<offered, granted, kept, nextId>>

Rest == handed' = Null /\ UNCHANGED <<offered, granted, kept, nextId>>

Next ==
    \/ \E k \in Keys, s \in Secrets : \/ Offer(k, s) \/ Grant(k, s) \/ Hand(k, s)
                                      \/ \E ready \in BOOLEAN : Keep(k, s, ready)
    \/ \E k \in Keys : Remove(k) \/ \E ready \in BOOLEAN : Spoil(k, ready)
    \/ Rest

Spec == Init /\ [][Next]_vars
=============================================================================
