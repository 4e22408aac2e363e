------------------------------- MODULE ToolPlans -------------------------------
(***************************************************************************)
(* The tools of an adapter are handlers that check their arguments, make   *)
(* one or a few HTTP requests, and turn the last reply into the result.    *)
(* A handler is described by its guard and the sequence of its requests;   *)
(* each request by what it changes at the provider and by what becomes of  *)
(* the handler after an error and after a reply without what it looks for. *)
(***************************************************************************)
EXTENDS Sequences

(* effect "main" is what the tool is called for, "follow" what it sets off  *)
(* besides; must says that an error of the request is the tool's result.    *)
Request == [effect : {"none", "main", "follow"}, must : BOOLEAN,
            empty : {"next", "done", "error"}]

Reading == [effect |-> "none", must |-> TRUE, empty |-> "next"]

Writing == [Reading EXCEPT !.effect = "main"]

Tried(r) == [r EXCEPT !.must = FALSE]            \* its error is passed over

Needed(r) == [r EXCEPT !.empty = "error"]        \* nothing found is an error

Last(r) == [r EXCEPT !.empty = "done"]           \* nothing found: no more requests

(* Guards: "arguments" refuses incomplete or malformed arguments before any *)
(* request; "map" writes into the map of arguments, which panics when the   *)
(* request had none.                                                        *)
Tool(guard, requests) == [guard |-> guard, requests |-> requests]

Unchecked(requests) == Tool("none", requests)

Checked(requests) == Tool("arguments", requests)

(* A provider's answers: what was asked for, a reply without it, a status   *)
(* from 400 to 499, a status of 500 or more (or Composio's word that the    *)
(* action was not successful), and no reply.  After the last two the        *)
(* request may have been carried out or not.                                *)
Replies == {"ok", "empty", "refused", "failed", "lost"}

(* What a handler does after the reply to request r: "next" ends it with a  *)
(* result when r was the last.                                              *)
After(r, reply) ==
    CASE reply = "ok" -> "next"
      [] reply = "empty" -> r.empty
      [] reply \in {"refused", "failed", "lost"} -> IF r.must THEN "error" ELSE "next"

NoTools == [READ |-> {}, WRITE |-> {}]
=============================================================================
