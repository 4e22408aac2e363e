------------------------------- MODULE Requests -------------------------------
(***************************************************************************)
(* What every request handler of the connector has in common: it runs in a *)
(* goroutine of its own (net/http), on any replica, and between two calls  *)
(* holds nothing but its own copies.  Its client may go away, which        *)
(* cancels the request's context; its process may die; and a call may fail *)
(* before or after it took effect.                                         *)
(***************************************************************************)
EXTENDS ConnectorStore

CONSTANTS
    Workers,     \* concurrent request handlers, on one replica or many
    MaxFaults    \* bound: calls lost, clients gone and crashes, together

VARIABLES
    h,           \* worker -> the request it is serving
    answer,      \* what the last step told its caller, Null if it told nothing
    faults       \* how many of MaxFaults have happened

requestVars == <<h, answer, faults>>

(* pc is the call the handler makes next, key the (user, platform) it works *)
(* for, state and code what the callback's URL carries, acct its copy of a  *)
(* row; live until its client goes.                                         *)
Idle == [pc |-> "idle", key |-> Null, state |-> Null, code |-> Null,
         acct |-> Null, live |-> TRUE]

RequestsInit ==
    /\ h = [w \in Workers |-> Idle]
    /\ answer = Null
    /\ faults = 0

Proceed(w, pc, acct) ==
    h' = [h EXCEPT ![w] = [@ EXCEPT !.pc = pc, !.acct = acct]]

(* The handler returns; a stands for its answer, Null for an error. *)
Reply(w, a) == h' = [h EXCEPT ![w] = Idle] /\ answer' = a

Silent == answer' = Null

(* A call of w fails though its peer refused nothing: w's context is        *)
(* cancelled, or the network or the peer loses the call.                    *)
Interrupted(w) ==
    \/ ~h[w].live /\ UNCHANGED faults
    \/ h[w].live /\ faults < MaxFaults /\ faults' = faults + 1

(* An upsert as w sees it: done (ok), or an error, after which the          *)
(* statement of a live context may have been executed all the same.         *)
Saved(w, ok) ==
    IF ok THEN /\ h[w].live
               /\ UpsertConnectedAccount(h[w].key, h[w].acct)
               /\ UNCHANGED faults
          ELSE /\ Interrupted(w)
               /\ \/ h[w].live /\ UpsertConnectedAccount(h[w].key, h[w].acct)
                  \/ UNCHANGED <<rows, nextId>>

(* DeletePendingAuth as the flows call it: whatever its error, it is        *)
(* dropped.                                                                 *)
Dropped(w) ==
    \/ h[w].live /\ DeletePendingAuth(h[w].state) /\ UNCHANGED faults
    \/ /\ Interrupted(w)
       /\ \/ h[w].live /\ DeletePendingAuth(h[w].state)
          \/ UNCHANGED pendings

(* The request's context is cancelled because its client has gone. *)
Leave(w) ==
    /\ h[w].pc # "idle" /\ h[w].live
    /\ faults < MaxFaults /\ faults' = faults + 1
    /\ h' = [h EXCEPT ![w].live = FALSE]
    /\ Silent

(* The process dies, or the handler panics: its request is forgotten. *)
Die(w) ==
    /\ h[w].pc # "idle"
    /\ faults < MaxFaults /\ faults' = faults + 1
    /\ Reply(w, Null)
=============================================================================
