----------------------------- MODULE ComposioLink -----------------------------
(***************************************************************************)
(* The platforms whose OAuth is delegated to Composio: manager.go's        *)
(* initiateComposioAuth, HandleComposioCallback, GetActiveToken and        *)
(* DeleteAccount.  A row's access token is the id of a connection at       *)
(* Composio; the flow creates one, stores it in a row "initiated", and on  *)
(* the browser's return asks Composio what has become of it.               *)
(***************************************************************************)
EXTENDS Requests

CONSTANTS
    Conns,    \* ids of connections at Composio
    MaxIds    \* bound: only the first MaxIds rows inserted are ever deleted

VARIABLES
    links,    \* state -> the key it was drawn for and, once the user has the
              \* link, the connection this link is for
    conns     \* Composio: id -> the connection

vars == <<storeVars, requestVars, links, conns>>

ASSUME ComposioAssumption ==
    /\ MaxIds \in Nat /\ MaxFaults \in Nat
    /\ Null \notin Conns /\ Null \notin States /\ Null \notin Account(Conns)
    /\ Null # "early"
    /\ Null \notin [key : Keys, conn : Conns \cup {Null}]
    /\ Null \notin [id : Nat, ready : BOOLEAN, secret : Conns]

Stage == {"none", "INITIATED", "ACTIVE", "FAILED", "EXPIRED"}

Pc == {"idle", "createLink", "saveInitiated", "readAccount", "verify",
       "resolve", "saveAccount", "saveFailed", "dropPending"}

(* A callback has no code; "early" notes that it asked Composio before the  *)
(* user had decided on the link it is for.                                  *)
Handler == [pc : Pc, key : Keys \cup {Null}, state : States \cup {Null},
            code : {Null, "early"}, acct : Account(Conns) \cup {Null}, live : BOOLEAN]

Answer == [kind : {"connected", "token"}, key : Keys, state : States \cup {Null},
           status : Status, token : Conns]

Init ==
    /\ StoreInit
    /\ RequestsInit
    /\ links = [s \in States |-> Null]
    /\ conns = [c \in Conns |-> [stage |-> "none", key |-> Null]]

-----------------------------------------------------------------------------
(* POST /auth/connect: initiateComposioAuth. *)

InitiateOAuth(w, u, p, s) ==
    /\ h[w].pc = "idle"
    /\ links[s] = Null
    /\ SavePendingAuth(s, <<u, p>>)
    /\ links' = [links EXCEPT ![s] = [key |-> <<u, p>>, conn |-> Null]]
    /\ h' = [h EXCEPT ![w] = [@ EXCEPT !.pc = "createLink", !.state = s,
                                       !.key = <<u, p>>]]
    /\ Silent
    /\ UNCHANGED <<rows, nextId, now, conns, faults>>

(* External: POST /v3/connected_accounts/link makes a connection. *)
Created(c, k) ==
    /\ conns[c].stage = "none"
    /\ conns' = [conns EXCEPT ![c] = [stage |-> "INITIATED", key |-> k]]

CreateLink(w) ==
    /\ h[w].pc = "createLink"
    /\ \/ /\ h[w].live
          /\ \E c \in Conns :
                /\ Created(c, h[w].key)
                /\ Proceed(w, "saveInitiated",
                           [id |-> 0, status |-> "initiated", at |-> c,
                            rt |-> Null, exp |-> Never])
          /\ Silent
          /\ UNCHANGED faults
       \/ /\ Interrupted(w)
          /\ (\E c \in Conns : Created(c, h[w].key)) \/ UNCHANGED conns
          /\ Reply(w, Null)
    /\ UNCHANGED <<storeVars, links>>

(* The user gets the link only if the row was saved. *)
SaveInitiated(w) ==
    LET s == h[w].state IN
    /\ h[w].pc = "saveInitiated"
    /\ \/ Saved(w, TRUE) /\ links' = [links EXCEPT ![s].conn = h[w].acct.at]
       \/ Saved(w, FALSE) /\ UNCHANGED links
    /\ Reply(w, Null)
    /\ UNCHANGED <<pendings, now, conns>>

(* External: the user finishes at Composio, or declines. *)
Authorize(c, stage) ==
    /\ conns[c].stage = "INITIATED"
    /\ \E s \in States : links[s] # Null /\ links[s].conn = c
    /\ stage \in {"ACTIVE", "FAILED"}
    /\ conns' = [conns EXCEPT ![c].stage = stage]
    /\ Silent
    /\ UNCHANGED <<storeVars, links, h, faults>>

(* External: the authorization ends. *)
Close(c) ==
    /\ conns[c].stage = "ACTIVE"
    /\ conns' = [conns EXCEPT ![c].stage = "EXPIRED"]
    /\ Silent
    /\ UNCHANGED <<storeVars, links, h, faults>>

-----------------------------------------------------------------------------
(* GET /auth/composio-callback?state: HandleComposioCallback.  Who has the  *)
(* link may open this page at any time, also before deciding at Composio.   *)

HandleComposioCallback(w, s) ==
    /\ h[w].pc = "idle"
    /\ links[s] # Null /\ links[s].conn # Null
    /\ \/ /\ LinkUsable(s)
          /\ h' = [h EXCEPT ![w] = [@ EXCEPT !.pc = "readAccount", !.state = s,
                                             !.key = GetPendingAuth(s).key]]
          /\ Silent
       \/ ~LinkUsable(s) /\ Reply(w, Null)
    /\ UNCHANGED <<storeVars, links, conns, faults>>

ReadAccount(w) ==
    LET k == h[w].key IN
    /\ h[w].pc = "readAccount"
    /\ \/ /\ h[w].live /\ rows[k] # Null
          /\ Proceed(w, "verify", rows[k]) /\ Silent
          /\ UNCHANGED faults
       \/ h[w].live /\ rows[k] = Null /\ Reply(w, Null) /\ UNCHANGED faults
       \/ Interrupted(w) /\ Reply(w, Null)
    /\ UNCHANGED <<storeVars, links, conns>>

(* Faulty variant: stores Composio's word for the status. *)
WithRemoteStatus(a, status) == [a EXCEPT !.status = conns[a.at].stage]

WithStatus(a, status) == [a EXCEPT !.status = status]

(* Faulty variant: waits until the connection is active. *)
VerifyOnceActive(w) ==
    /\ h[w].pc = "verify"
    /\ conns[h[w].acct.at].stage = "ACTIVE"
    /\ Proceed(w, "resolve", WithStatus(h[w].acct, "active"))
    /\ Silent
    /\ UNCHANGED <<storeVars, links, conns, faults>>

(* Faulty variant: looks for the store's word for "active". *)
VerifyStoreWord(w) ==
    /\ h[w].pc = "verify"
    /\ Proceed(w, IF conns[h[w].acct.at].stage = "active" THEN "resolve" ELSE "saveAccount",
               WithStatus(h[w].acct, "failed"))
    /\ Silent
    /\ UNCHANGED <<storeVars, links, conns, faults>>

Undecided(s) == conns[links[s].conn].stage = "INITIATED"

(* GetConnection of the connection in the row that was read. *)
VerifyConnection(w) ==
    LET a == h[w].acct
        stage == conns[a.at].stage
    IN
    /\ h[w].pc = "verify"
    /\ \/ /\ h[w].live /\ stage = "ACTIVE"
          /\ Proceed(w, "resolve", WithStatus(a, "active"))
          /\ UNCHANGED faults
       \/ /\ h[w].live /\ stage # "ACTIVE"
          /\ h' = [h EXCEPT ![w] =
                      [@ EXCEPT !.pc = "saveAccount", !.acct = WithStatus(a, "failed"),
                                !.code = IF Undecided(h[w].state) THEN "early" ELSE Null]]
          /\ UNCHANGED faults
       \/ /\ Interrupted(w)
          /\ Proceed(w, "saveFailed", WithStatus(a, "failed"))
    /\ Silent
    /\ UNCHANGED <<storeVars, links, conns>>

(* Faulty variant: the filter on the user is lost. *)
ListOfAnyUser(k) == {c \in Conns : conns[c].stage = "ACTIVE"}

(* Faulty variant: the filter on the status is lost. *)
ListAnyStage(k) == {c \in Conns : conns[c].stage # "none" /\ conns[c].key = k}

(* External: statuses=ACTIVE of this user and toolkit, in no stated order. *)
ListConnections(k) == {c \in Conns : conns[c].stage = "ACTIVE" /\ conns[c].key = k}

(* The first of the user's active connections, whichever that is, replaces  *)
(* the verified one; none, or an error, leaves it.  The email lookup that   *)
(* follows cannot fail.                                                     *)
ResolveConnection(w) ==
    LET a == h[w].acct
        listed == ListConnections(h[w].key)
    IN
    /\ h[w].pc = "resolve"
    /\ \/ /\ h[w].live
          /\ \E c \in listed : Proceed(w, "saveAccount", [a EXCEPT !.at = c])
          /\ UNCHANGED faults
       \/ /\ h[w].live /\ listed = {}
          /\ Proceed(w, "saveAccount", a)
          /\ UNCHANGED faults
       \/ Interrupted(w) /\ Proceed(w, "saveAccount", a)
    /\ Silent
    /\ UNCHANGED <<storeVars, links, conns>>

(* The error of this write is dropped. *)
SaveAccount(w) ==
    /\ h[w].pc = "saveAccount"
    /\ \E ok \in BOOLEAN : Saved(w, ok)
    /\ Proceed(w, "dropPending", h[w].acct)
    /\ Silent
    /\ UNCHANGED <<pendings, now, links, conns>>

(* The page says "connected" whatever the status. *)
DropPending(w) ==
    /\ h[w].pc = "dropPending"
    /\ Dropped(w)
    /\ Reply(w, [kind |-> "connected", key |-> h[w].key, state |-> h[w].state,
                 status |-> h[w].acct.status, token |-> h[w].acct.at])
    /\ UNCHANGED <<rows, nextId, now, links, conns>>

(* GetConnection failed: the row is marked, the link stays, the answer is   *)
(* the error.                                                               *)
SaveFailed(w) ==
    /\ h[w].pc = "saveFailed"
    /\ \E ok \in BOOLEAN : Saved(w, ok)
    /\ Reply(w, Null)
    /\ UNCHANGED <<pendings, now, links, conns>>

-----------------------------------------------------------------------------
(* GetActiveToken: the connection of an active row. *)
GetActiveToken(w, k) ==
    /\ h[w].pc = "idle"
    /\ \/ /\ rows[k] # Null /\ IsActive(rows[k])
          /\ Reply(w, [kind |-> "token", key |-> k, state |-> Null,
                       status |-> rows[k].status, token |-> rows[k].at])
       \/ ~(rows[k] # Null /\ IsActive(rows[k])) /\ Reply(w, Null)
    /\ UNCHANGED <<storeVars, links, conns, faults>>

DeleteAccount(u, id) ==
    /\ id < nextId
    /\ DeleteConnectedAccount(u, id)
    /\ Silent
    /\ UNCHANGED <<pendings, nextId, now, links, conns, h, faults>>

ClientLeaves(w) == Leave(w) /\ UNCHANGED <<storeVars, links, conns>>

Crash(w) == Die(w) /\ UNCHANGED <<storeVars, links, conns>>

ClockTick == Tick /\ Silent /\ UNCHANGED <<links, conns, h, faults>>

HandlerStep(w) ==
    \/ CreateLink(w) \/ SaveInitiated(w) \/ ReadAccount(w) \/ VerifyConnection(w)
    \/ ResolveConnection(w) \/ SaveAccount(w) \/ DropPending(w) \/ SaveFailed(w)

Next ==
    \/ \E w \in Workers, u \in Users, p \in Platforms, s \in States :
          InitiateOAuth(w, u, p, s)
    \/ \E c \in Conns, stage \in {"ACTIVE", "FAILED"} : Authorize(c, stage)
    \/ \E c \in Conns : Close(c)
    \/ \E w \in Workers, s \in States : HandleComposioCallback(w, s)
    \/ \E w \in Workers, k \in Keys : GetActiveToken(w, k)
    \/ \E w \in Workers : HandlerStep(w)
    \/ \E u \in Users, id \in 1 .. MaxIds : DeleteAccount(u, id)
    \/ \E w \in Workers : ClientLeaves(w) \/ Crash(w)
    \/ ClockTick

Spec == Init /\ [][Next]_vars

(* The store answers, and the Composio client gives up after 30 seconds. *)
LiveSpec == Spec /\ \A w \in Workers : WF_vars(HandlerStep(w))

-----------------------------------------------------------------------------
(* Properties. *)

(* Every variable keeps its type. *)
TypeOK ==
    /\ StoreTypeOK(Conns)
    /\ links \in [States -> [key : Keys, conn : Conns \cup {Null}] \cup {Null}]
    /\ conns \in [Conns -> [stage : Stage, key : Keys \cup {Null}]]
    /\ h \in [Workers -> Handler]
    /\ answer \in Answer \cup {Null}
    /\ faults \in Nat

(* A connection stored, carried or handed to a tool under a (user,          *)
(* platform) was made for them, even when ListConnections replaces the one  *)
(* the link was for.                                                        *)
ConnectionIsolation ==
    /\ \A k \in Keys : rows[k] # Null => conns[rows[k].at].key = k
    /\ \A w \in Workers : h[w].acct # Null => conns[h[w].acct.at].key = h[w].key
    /\ answer # Null => conns[answer.token].key = answer.key

Authorized(c) == conns[c].stage \in {"ACTIVE", "EXPIRED"}

(* "It verifies the connection is active and updates our DB"                *)
(* (manager.go:259): a row is active, and its connection used, only if the  *)
(* user has authorized that very connection, though another link may have   *)
(* replaced the row's connection while the callback was asking.             *)
ActiveWasAuthorized ==
    /\ \A k \in Keys : rows[k] # Null /\ IsActive(rows[k]) => Authorized(rows[k].at)
    /\ answer # Null /\ answer.kind = "token" => Authorized(answer.token)

OnlyLink(s) == \A t \in States \ {s} : links[t] # Null => links[t].key # links[s].key

(* A callback that asked Composio after the user's decision, with no call   *)
(* lost, and is about to say "connected" of a connection that is active.    *)
Completing(w) ==
    /\ h[w].pc = "dropPending" /\ h[w].code = Null /\ faults = 0
    /\ conns[links[h[w].state].conn].stage = "ACTIVE"

(* Such a callback has made the row active, provided the user has asked for *)
(* no other link, whatever duplicates of it, early ones too, and deletions  *)
(* overlap with it.                                                         *)
OnlyLinkActivates ==
    \A w \in Workers :
        Completing(w) /\ OnlyLink(h[w].state) => h[w].acct.status = "active"

(* A callback that has found its row waiting settles it: while no call is   *)
(* lost, the row does not stay "initiated", whichever way the user decided  *)
(* and whatever other links and callbacks do to the row meanwhile.          *)
CallbackSettlesRow ==
    \A k \in Keys :
        (\E w \in Workers : h[w].pc = "verify" /\ h[w].key = k)
            ~> (faults > 0 \/ rows[k] = Null \/ rows[k].status # "initiated")

(* "After the user visits the URL and authorizes, the platform status       *)
(* becomes 'active'" (server.go:97), whatever other links there are.        *)
AuthorizedLinkActivates ==
    \A w \in Workers : Completing(w) => h[w].acct.status = "active"

-----------------------------------------------------------------------------
(* What all this is for: Connections.  The secret is Composio's connection, *)
(* granted once its user has authorized it.                                 *)

Offered == {e \in Keys \X Conns :
               conns[e[2]].stage # "none" /\ conns[e[2]].key = e[1]}

Granted == {e \in Offered : Authorized(e[2])}

Stored == [k \in Keys |->
             IF rows[k] = Null THEN Null
             ELSE [id |-> rows[k].id, ready |-> IsActive(rows[k]), secret |-> rows[k].at]]

Handed == IF answer = Null \/ answer.kind # "token" THEN Null
          ELSE <<answer.key, answer.token>>

C == INSTANCE Connections WITH Secrets <- Conns, CanSpoil <- FALSE,
        offered <- Offered, granted <- Granted, kept <- Stored, handed <- Handed

(* Whatever links and callbacks overlap, fail or die, a step does to the    *)
(* connections only what Connections lets a step do.                        *)
ConnectionsKept == C!Spec
=============================================================================
