---------------------------- MODULE MCToolDiscovery ----------------------------
(* A small instance of ToolDiscovery for TLC: three tools, the second of them *)
(* withheld and the third without the platform's prefix.                      *)
EXTENDS ToolDiscovery

Send_ == [app |-> TRUE, base |-> "send"]
Delete_ == [app |-> TRUE, base |-> "delete"]
Bare == [app |-> FALSE, base |-> "ping"]

SlugSet == {Send_, Delete_, Bare}

ListSet == {<<>>, <<Delete_>>, <<Send_, Delete_>>, <<Send_, Delete_, Bare>>}
=============================================================================
