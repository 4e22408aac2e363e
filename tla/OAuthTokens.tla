----------------------------- MODULE OAuthTokens ------------------------------
(***************************************************************************)
(* The direct OAuth platforms (github, gmail, outlook, twitter):           *)
(* internal/auth/manager.go's InitiateOAuth, HandleCallback,               *)
(* GetActiveToken and DeleteAccount, run by concurrent request handlers    *)
(* over the shared tables of ConnectorStore.                               *)
(*                                                                         *)
(* A handler does one store call or one provider call per step, carries    *)
(* its own copy of what it has read, and holds no lock in between.         *)
(***************************************************************************)
EXTENDS Requests

CONSTANTS
    Codes,           \* authorization codes: each names one consent of a user
    ExchangeShapes,  \* what a code exchange may return: a refresh token (rt)?
    RefreshShapes,   \*   an expires_in (exp)?  The same for a refresh.
    Refusals,        \* how the provider refuses: by status, or in a 200 body
    TokenTTL,        \* expires_in
    MaxGen,          \* bound: refreshes a provider grants per consent, then refuses
    MaxIds           \* bound: only the first MaxIds rows inserted are ever deleted

VARIABLES
    urls,     \* state -> the (user, platform) its authorize URL was made for
    grants    \* the provider: code -> the consent it stands for

vars == <<storeVars, requestVars, urls, grants>>

Shape == [rt : BOOLEAN, exp : BOOLEAN]

(* Tokens of one consent are numbered by the refreshes that preceded them. *)
Token == [code : Codes, gen : Nat]

ASSUME OAuthAssumption ==
    /\ ExchangeShapes \subseteq Shape
    /\ RefreshShapes \subseteq Shape
    /\ Refusals \in (SUBSET {"status", "body"}) \ {{}}
    /\ TokenTTL \in Nat /\ MaxGen \in Nat /\ MaxIds \in Nat /\ MaxFaults \in Nat
    /\ Null \notin Account(Token)
    /\ Null \notin Token
    /\ Null \notin Codes
    /\ Null \notin [id : Nat, ready : BOOLEAN, secret : Codes \cup {Null}]
    /\ Null \notin States

(* rt is the number of the refresh token the provider accepts. *)
Grant == [stage : {"unused", "issued", "live", "revoked"},
          key : Keys \cup {Null}, state : States \cup {Null},
          gen : Nat, rt : Nat]

Pc == {"idle", "exchange", "saveAccount", "dropPending",
       "refresh", "saveToken", "saveExpired"}

Handler == [pc : Pc, key : Keys \cup {Null}, state : States \cup {Null},
            code : Codes \cup {Null}, acct : Account(Token) \cup {Null},
            live : BOOLEAN]

Answer == [kind : {"connected", "token"}, key : Keys, token : Token \cup {Null}]

Init ==
    /\ StoreInit
    /\ RequestsInit
    /\ urls = [s \in States |-> Null]
    /\ grants = [c \in Codes |-> [stage |-> "unused", key |-> Null,
                                  state |-> Null, gen |-> 0, rt |-> 0]]

(* expires_at after a token answer; without an expires_in the old one stays. *)
ExpiryOf(shape, old) == IF shape.exp THEN now + TokenTTL ELSE old

-----------------------------------------------------------------------------
(* Connecting: POST /auth/connect, then the browser, then the callback. *)

InitiateOAuth(u, p, s) ==
    /\ urls[s] = Null
    /\ SavePendingAuth(s, <<u, p>>)
    /\ urls' = [urls EXCEPT ![s] = <<u, p>>]
    /\ Silent
    /\ UNCHANGED <<rows, nextId, now, grants, h, faults>>

(* External: the user visits the authorize URL, maybe late or again, and    *)
(* consents; the provider issues a code and redirects to the callback.      *)
Consent(s, c) ==
    /\ urls[s] # Null
    /\ grants[c].stage = "unused"
    /\ grants' = [grants EXCEPT ![c] = [@ EXCEPT !.stage = "issued",
                                        !.key = urls[s], !.state = s]]
    /\ Silent
    /\ UNCHANGED <<storeVars, urls, h, faults>>

(* External: the user withdraws the consent at the provider. *)
Revoke(c) ==
    /\ grants[c].stage = "live"
    /\ grants' = [grants EXCEPT ![c].stage = "revoked"]
    /\ Silent
    /\ UNCHANGED <<storeVars, urls, h, faults>>

(* GET /auth/callback/{platform}?code&state, once or again: HandleCallback  *)
(* reads the pending auth, which it refuses if missing, late or for another *)
(* platform.                                                                *)
HandleCallback(w, c, p) ==
    LET s == grants[c].state
        usable == LinkUsable(s) /\ GetPendingAuth(s).key[2] = p
    IN
    /\ h[w].pc = "idle"
    /\ grants[c].stage # "unused"
    /\ \/ /\ usable
          /\ h' = [h EXCEPT ![w] = [@ EXCEPT !.pc = "exchange", !.code = c,
                        !.state = s, !.key = GetPendingAuth(s).key]]
          /\ Silent
       \/ ~usable /\ Reply(w, Null)
    /\ UNCHANGED <<storeVars, urls, grants, faults>>

NewAccount(c, shape) ==
    [id |-> 0, status |-> "active", at |-> [code |-> c, gen |-> 0],
     rt |-> IF shape.rt THEN [code |-> c, gen |-> 0] ELSE Null,
     exp |-> ExpiryOf(shape, Never)]

(* What a refusal in the body of a 200 answer makes: postToken looks at the *)
(* status only, and an answer without fields leaves all of them empty.      *)
Blank == [id |-> 0, status |-> "active", at |-> Null, rt |-> Null, exp |-> Never]

(* External: the provider honours a code once, if at all. *)
SpendCode(c) == grants' = [grants EXCEPT ![c].stage = "live"]

(* exchangeCode, exchangeCodeJSON; fetchAccountEmail follows and cannot fail. *)
ExchangeCode(w) ==
    LET c == h[w].code
        Accepted == grants[c].stage = "issued" /\ SpendCode(c)
    IN
    /\ h[w].pc = "exchange"
    /\ \/ /\ h[w].live
          /\ Accepted
          /\ \E shape \in ExchangeShapes :
                Proceed(w, "saveAccount", NewAccount(c, shape))
          /\ Silent
          /\ UNCHANGED faults
       \/ /\ h[w].live
          /\ \/ "status" \in Refusals /\ Reply(w, Null)
             \/ "body" \in Refusals /\ Proceed(w, "saveAccount", Blank) /\ Silent
          /\ UNCHANGED <<grants, faults>>
       \/ /\ Interrupted(w)
          /\ Accepted \/ UNCHANGED grants
          /\ Reply(w, Null)
    /\ UNCHANGED <<storeVars, urls>>

SaveAccount(w) ==
    /\ h[w].pc = "saveAccount"
    /\ \/ Saved(w, TRUE) /\ Proceed(w, "dropPending", Null) /\ Silent
       \/ Saved(w, FALSE) /\ Reply(w, Null)
    /\ UNCHANGED <<pendings, now, urls, grants>>

(* The error of DeletePendingAuth is dropped: the answer is "connected". *)
DropPending(w) ==
    /\ h[w].pc = "dropPending"
    /\ Dropped(w)
    /\ Reply(w, [kind |-> "connected", key |-> h[w].key, token |-> Null])
    /\ UNCHANGED <<rows, nextId, now, urls, grants>>

-----------------------------------------------------------------------------
(* Using a connection: the first thing an execute request does. *)

TokenAnswer(k, t) == [kind |-> "token", key |-> k, token |-> t]

(* GetActiveToken reads the row.  No row, or one that is not active, is an  *)
(* error; a token that needs no refresh is the answer.                      *)
GetActiveToken(w, k) ==
    LET usable == rows[k] # Null /\ IsActive(rows[k]) IN
    /\ h[w].pc = "idle"
    /\ \/ ~usable /\ Reply(w, Null)
       \/ /\ usable /\ ~NeedsRefresh(rows[k])
          /\ Reply(w, TokenAnswer(k, rows[k].at))
       \/ /\ usable /\ NeedsRefresh(rows[k])
          /\ h' = [h EXCEPT ![w] = [@ EXCEPT !.pc = "refresh", !.key = k,
                                             !.acct = rows[k]]]
          /\ Silent
    /\ UNCHANGED <<storeVars, urls, grants, faults>>

(* External: the provider takes its current refresh token of a consent that *)
(* stands, and where it returns a new one the old one is spent.             *)
Honoured(t) == grants[t.code].stage = "live" /\ t.gen = grants[t.code].rt

Renew(c, shape) ==
    LET g == grants[c] IN
    grants' = [grants EXCEPT ![c] =
        [g EXCEPT !.gen = g.gen + 1, !.rt = IF shape.rt THEN g.gen + 1 ELSE g.rt]]

(* Faulty variant: the rotated refresh token is ignored. *)
RefreshedKeepsOld(a, shape) ==
    [a EXCEPT !.at = [code |-> a.rt.code, gen |-> grants[a.rt.code].gen + 1],
              !.exp = ExpiryOf(shape, @)]

(* Faulty variant: a refresh token that is not returned is cleared. *)
RefreshedClearsMissing(a, shape) ==
    LET new == [code |-> a.rt.code, gen |-> grants[a.rt.code].gen + 1] IN
    [a EXCEPT !.at = new, !.rt = IF shape.rt THEN new ELSE Null,
              !.exp = ExpiryOf(shape, @)]

(* The row a refresh leaves in the handler: a missing refresh token or      *)
(* expires_in leaves the old one in place.                                  *)
Refreshed(a, shape) ==
    LET new == [code |-> a.rt.code, gen |-> grants[a.rt.code].gen + 1] IN
    [a EXCEPT !.at = new, !.rt = IF shape.rt THEN new ELSE @,
              !.exp = ExpiryOf(shape, @)]

(* Faulty variant: a status no reader knows. *)
FailedUnknown(a) == [a EXCEPT !.status = "refresh_failed"]

Failed(a) == [a EXCEPT !.status = "expired"]

(* A refusal in the body is no error: the access token is overwritten by    *)
(* the one that is not there.                                               *)
Emptied(a) == [a EXCEPT !.at = Null]

(* Faulty variant: the call is made with a context of its own. *)
RefreshTokenDetached(w) ==
    LET a == h[w].acct
        c == a.rt.code
        granted == Honoured(a.rt) /\ grants[c].gen < MaxGen
    IN
    /\ h[w].pc = "refresh"
    /\ \/ /\ granted
          /\ \E shape \in RefreshShapes :
                /\ Renew(c, shape)
                /\ Proceed(w, "saveToken", Refreshed(a, shape))
          /\ UNCHANGED faults
       \/ /\ Interrupted(w) /\ h[w].live
          /\ Proceed(w, "saveExpired", Failed(a))
          /\ UNCHANGED grants
    /\ Silent
    /\ UNCHANGED <<storeVars, urls>>

RefreshToken(w) ==
    LET a == h[w].acct
        c == a.rt.code
        granted == Honoured(a.rt) /\ grants[c].gen < MaxGen
    IN
    /\ h[w].pc = "refresh"
    /\ \/ /\ h[w].live /\ granted
          /\ \E shape \in RefreshShapes :
                /\ Renew(c, shape)
                /\ Proceed(w, "saveToken", Refreshed(a, shape))
          /\ UNCHANGED faults
       \/ /\ h[w].live /\ ~granted
          /\ \/ "status" \in Refusals /\ Proceed(w, "saveExpired", Failed(a))
             \/ "body" \in Refusals /\ Proceed(w, "saveToken", Emptied(a))
          /\ UNCHANGED <<grants, faults>>
       \/ /\ Interrupted(w)
          /\ \/ granted /\ \E shape \in RefreshShapes : Renew(c, shape)
             \/ UNCHANGED grants
          /\ Proceed(w, "saveExpired", Failed(a))
    /\ Silent
    /\ UNCHANGED <<storeVars, urls>>

(* The error of the write is dropped: the new token is the answer, or the   *)
(* empty one.                                                               *)
SaveToken(w) ==
    /\ h[w].pc = "saveToken"
    /\ \E ok \in BOOLEAN : Saved(w, ok)
    /\ Reply(w, TokenAnswer(h[w].key, h[w].acct.at))
    /\ UNCHANGED <<pendings, now, urls, grants>>

(* Faulty variant: UPDATE ... SET status = 'expired' and nothing else. *)
SaveExpiredStatusOnly(w) ==
    LET k == h[w].key IN
    /\ h[w].pc = "saveExpired"
    /\ \/ h[w].live /\ rows[k] # Null /\ rows' = [rows EXCEPT ![k].status = "expired"]
       \/ (~h[w].live \/ rows[k] = Null) /\ UNCHANGED rows
    /\ Reply(w, Null)
    /\ UNCHANGED <<nextId, pendings, now, urls, grants, faults>>

(* The error of this write is dropped too: the answer is the refresh's. *)
SaveExpired(w) ==
    /\ h[w].pc = "saveExpired"
    /\ \E ok \in BOOLEAN : Saved(w, ok)
    /\ Reply(w, Null)
    /\ UNCHANGED <<pendings, now, urls, grants>>

-----------------------------------------------------------------------------
(* DELETE /auth/accounts/{id}: any id the user was ever shown. *)

DeleteAccount(u, id) ==
    /\ id < nextId
    /\ DeleteConnectedAccount(u, id)
    /\ Silent
    /\ UNCHANGED <<pendings, nextId, now, urls, grants, h, faults>>

ClientLeaves(w) == Leave(w) /\ UNCHANGED <<storeVars, urls, grants>>

Crash(w) == Die(w) /\ UNCHANGED <<storeVars, urls, grants>>

ClockTick == Tick /\ Silent /\ UNCHANGED <<urls, grants, h, faults>>

HandlerStep(w) ==
    \/ ExchangeCode(w) \/ SaveAccount(w) \/ DropPending(w)
    \/ RefreshToken(w) \/ SaveToken(w) \/ SaveExpired(w)

Next ==
    \/ \E u \in Users, p \in Platforms, s \in States : InitiateOAuth(u, p, s)
    \/ \E s \in States, c \in Codes : Consent(s, c)
    \/ \E c \in Codes : Revoke(c)
    \/ \E w \in Workers, c \in Codes, p \in Platforms : HandleCallback(w, c, p)
    \/ \E w \in Workers, k \in Keys : GetActiveToken(w, k)
    \/ \E w \in Workers : HandlerStep(w)
    \/ \E u \in Users, id \in 1 .. MaxIds : DeleteAccount(u, id)
    \/ \E w \in Workers : ClientLeaves(w) \/ Crash(w)
    \/ ClockTick

Spec == Init /\ [][Next]_vars

(* The store answers.  A provider need not: the token calls have no         *)
(* timeout.  But a cancelled context ends every call that is under way.     *)
AtStore(w) == h[w].pc \in {"saveAccount", "dropPending", "saveToken", "saveExpired"}

Fairness ==
    /\ \A w \in Workers : WF_vars((AtStore(w) \/ ~h[w].live) /\ HandlerStep(w))
    /\ WF_vars(ClockTick)

LiveSpec == Spec /\ Fairness

-----------------------------------------------------------------------------
(* Properties. *)

(* Every variable keeps its type: the tables, the authorize URLs, the       *)
(* provider's books, the handlers and their answers.                        *)
TypeOK ==
    /\ StoreTypeOK(Token)
    /\ urls \in [States -> Keys \cup {Null}]
    /\ grants \in [Codes -> Grant]
    /\ h \in [Workers -> Handler]
    /\ answer \in Answer \cup {Null}
    /\ faults \in Nat

(* The tokens the provider has issued on a consent given for k. *)
IssuedFor(k) == {t \in Token : /\ grants[t.code].stage \in {"live", "revoked"}
                               /\ grants[t.code].key = k
                               /\ t.gen <= grants[t.code].gen}

(* Whatever handlers overlap, fail or die: a token that is stored, carried  *)
(* or handed to a tool under a (user, platform) was issued by the provider  *)
(* on a consent that this user gave for this platform (HandleCallback keys  *)
(* the row by the pending auth, GetActiveToken by its arguments).           *)
TokenIsolation ==
    /\ \A k \in Keys : rows[k] # Null =>
          {rows[k].at, rows[k].rt} \subseteq IssuedFor(k) \cup {Null}
    /\ \A w \in Workers : h[w].acct # Null =>
          {h[w].acct.at, h[w].acct.rt} \subseteq IssuedFor(h[w].key) \cup {Null}
    /\ answer # Null => answer.token \in IssuedFor(answer.key) \cup {Null}

(* 'expired'=token expired (server.go:82): a row GetActiveToken has marked  *)
(* expired is always one whose access token's time has passed.  It rests on *)
(* the failed refresh writing back the whole stale row it has read; marking *)
(* only the status would strike a connection made in the meantime.          *)
ExpiredOnlyIfPast ==
    \A k \in Keys : rows[k] # Null /\ rows[k].status = "expired" => IsExpired(rows[k])

(* A refresh the provider has granted and the handler has yet to save. *)
Saving(k) == \E w \in Workers :
    h[w].key = k /\ h[w].pc = "saveToken" /\ h[w].acct.at # Null

(* 'active'=ready to use (server.go:82): unless a refresh is being saved,   *)
(* an active row whose consent stands has a token that has not expired, or  *)
(* the very refresh token the provider will take next.  It has no token     *)
(* only if the provider refuses in the body of a 200 answer, which          *)
(* postToken takes for a token (manager.go:730).                            *)
ActiveIsReady ==
    \A k \in Keys :
        rows[k] # Null /\ IsActive(rows[k]) /\ ~Saving(k) =>
            IF rows[k].at = Null THEN "body" \in Refusals
            ELSE \/ ~IsExpired(rows[k])
                 \/ /\ rows[k].rt # Null
                    /\ grants[rows[k].rt.code].stage = "live" => Honoured(rows[k].rt)

(* Where no call is lost, the link a connection was made with is gone as    *)
(* soon as no handler is completing it: it cannot be completed again.       *)
SpentLinkIsGone ==
    faults = 0 =>
        \A c \in Codes :
            /\ grants[c].stage \in {"live", "revoked"}
            /\ \A w \in Workers : h[w].pc \in {"saveAccount", "dropPending"}
                                    => h[w].code # c
            => pendings[grants[c].state] = Null

(* A handler whose client has gone, or that only the store keeps waiting,   *)
(* returns: every call carries the request's context, and none is retried.  *)
AbandonedRequestEnds ==
    \A w \in Workers : (~h[w].live \/ AtStore(w)) ~> h[w].pc = "idle"

(* What the comments promise and the code does not keep. *)

(* "delete a connected account" (routes.go:416): only a callback brings     *)
(* back a row that is not there.                                            *)
DeletedStaysDeleted ==
    [][\A k \in Keys : rows[k] = Null /\ rows'[k] # Null =>
          \E w \in Workers : h[w].pc = "saveAccount" /\ h[w].key = k]_vars

(* StatusExpired is "Token expired, refresh failed" (models.go:45): a row   *)
(* whose token is good is not marked expired.                               *)
GoodTokenNotDiscarded ==
    [][\A k \in Keys :
          /\ rows[k] # Null /\ IsActive(rows[k]) /\ ~IsExpired(rows[k])
          /\ rows'[k] # Null
          => rows'[k].status # "expired"]_vars

-----------------------------------------------------------------------------
(* What all this is for: Connections.  The secret is the consent that a     *)
(* row's token was issued on, granted once its code has been exchanged; a   *)
(* row or an answer with the empty token has none.                          *)

Offered == {e \in Keys \X Codes :
               grants[e[2]].stage # "unused" /\ grants[e[2]].key = e[1]}

Granted == {e \in Offered : grants[e[2]].stage \in {"live", "revoked"}}

ConsentOf(t) == IF t = Null THEN Null ELSE t.code

Stored == [k \in Keys |->
             IF rows[k] = Null THEN Null
             ELSE [id |-> rows[k].id, ready |-> IsActive(rows[k]),
                   secret |-> ConsentOf(rows[k].at)]]

Handed == IF answer = Null \/ answer.kind # "token" \/ answer.token = Null THEN Null
          ELSE <<answer.key, answer.token.code>>

C == INSTANCE Connections WITH Secrets <- Codes, CanSpoil <- "body" \in Refusals,
        offered <- Offered, granted <- Granted, kept <- Stored, handed <- Handed

(* Whatever overlaps, fails or dies in connecting, refreshing and deleting, *)
(* a step does to the connections only what Connections lets a step do: it  *)
(* keeps a secret that its user granted, and stores none only where the     *)
(* provider's refusal is a 200 answer.                                      *)
ConnectionsKept == C!Spec
=============================================================================
