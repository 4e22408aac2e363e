---------------------------- MODULE CredentialsFlow ----------------------------
(***************************************************************************)
(* Platforms connected by credentials instead of OAuth (smtp_email): the   *)
(* page behind a connection link, POST /auth/connect-credentials, and      *)
(* manager.go's initiateCredentialsAuth, CompleteCredentials,              *)
(* SaveCredentials and GetActiveToken.  Credentials are tried at the mail  *)
(* server, encrypted with the deployment's key, and stored as the access   *)
(* token of the row.                                                       *)
(***************************************************************************)
EXTENDS Requests

CONSTANTS
    Creds,       \* an email address with a password
    EncKeys,     \* values of SMTP_CREDENTIALS_ENCRYPTION_KEY
    MaxDeploys,  \* bound: deployments after the first
    MaxIds       \* bound: only the first MaxIds rows inserted are ever deleted

VARIABLES
    urls,        \* state -> the (user, platform) its link was made for
    mail,        \* what the mail servers make of each credentials
    given,       \* the (user, platform, credentials) that users have submitted
    encKey,      \* the key of this deployment, Null where none is configured
    deploys      \* how many deployments have followed the first

flowVars == <<urls, mail, given, encKey, deploys>>
vars == <<storeVars, requestVars, flowVars>>

Sealed == [creds : Creds, by : EncKeys]

ASSUME CredentialsAssumption ==
    /\ MaxIds \in Nat /\ MaxFaults \in Nat /\ MaxDeploys \in Nat
    /\ Null \notin Creds /\ Null \notin EncKeys /\ Null \notin States
    /\ Null \notin Sealed /\ Null \notin Account(Sealed)
    /\ Null \notin [id : Nat, ready : BOOLEAN, secret : Creds]

Pc == {"idle", "complete", "validate", "saveAccount", "dropPending"}

Handler == [pc : Pc, key : Keys \cup {Null}, state : States \cup {Null},
            code : Creds \cup {Null}, acct : Account(Sealed) \cup {Null},
            live : BOOLEAN]

Answer == [kind : {"connected", "token"}, key : Keys, creds : Creds]

Init ==
    /\ StoreInit
    /\ RequestsInit
    /\ urls = [s \in States |-> Null]
    /\ mail \in [Creds -> {"good", "bad"}]
    /\ given = {}
    /\ encKey \in EncKeys
    /\ deploys = 0

(* smtp_email is registered only where a key is configured. *)
Registered == encKey # Null

-----------------------------------------------------------------------------
InitiateCredentialsAuth(u, p, s) ==
    /\ Registered
    /\ urls[s] = Null
    /\ SavePendingAuth(s, <<u, p>>)
    /\ urls' = [urls EXCEPT ![s] = <<u, p>>]
    /\ Silent
    /\ UNCHANGED <<rows, nextId, now, h, faults, mail, given, encKey, deploys>>

(* GetPendingCredentials accepts the link of p. *)
PendingCredentials(s, p) ==
    Registered /\ LinkUsable(s) /\ GetPendingAuth(s).key[2] = p

(* POST /auth/credentials/{p}?state=s: the page checks the link, and calls  *)
(* CompleteCredentials, which checks it again.                              *)
HandleCredentialsPage(w, s, p, c) ==
    /\ h[w].pc = "idle"
    /\ urls[s] # Null
    /\ given' = given \cup {<<urls[s], c>>}
    /\ \/ /\ PendingCredentials(s, p)
          /\ h' = [h EXCEPT ![w] = [@ EXCEPT !.pc = "complete", !.state = s,
                        !.code = c, !.key = GetPendingAuth(s).key]]
          /\ Silent
       \/ ~PendingCredentials(s, p) /\ Reply(w, Null)
    /\ UNCHANGED <<storeVars, faults, urls, mail, encKey, deploys>>

CompleteCredentials(w) ==
    LET s == h[w].state
        usable == PendingCredentials(s, h[w].key[2])
    IN
    /\ h[w].pc = "complete"
    /\ \/ /\ h[w].live /\ usable
          /\ h' = [h EXCEPT ![w] = [@ EXCEPT !.pc = "validate",
                                             !.key = GetPendingAuth(s).key]]
          /\ Silent /\ UNCHANGED faults
       \/ h[w].live /\ ~usable /\ Reply(w, Null) /\ UNCHANGED faults
       \/ Interrupted(w) /\ Reply(w, Null)
    /\ UNCHANGED <<storeVars, flowVars>>

(* POST /auth/connect-credentials: no link. *)
HandleConnectCredentials(w, k, c) ==
    /\ h[w].pc = "idle"
    /\ given' = given \cup {<<k, c>>}
    /\ \/ /\ Registered
          /\ h' = [h EXCEPT ![w] = [@ EXCEPT !.pc = "validate", !.code = c, !.key = k]]
          /\ Silent
       \/ ~Registered /\ Reply(w, Null)
    /\ UNCHANGED <<storeVars, faults, urls, mail, encKey, deploys>>

(* Faulty variant: the word of the page for the status. *)
EncryptedUntyped(c) ==
    [id |-> 0, status |-> "connected", at |-> [creds |-> c, by |-> encKey],
     rt |-> Null, exp |-> Never]

(* The account SaveCredentials makes of credentials. *)
EncryptedAccount(c) ==
    [id |-> 0, status |-> "active", at |-> [creds |-> c, by |-> encKey],
     rt |-> Null, exp |-> Never]

(* Faulty variant: no session is tried. *)
ValidateNothing(w) ==
    /\ h[w].pc = "validate"
    /\ Proceed(w, "saveAccount", EncryptedAccount(h[w].code))
    /\ Silent
    /\ UNCHANGED <<storeVars, faults, flowVars>>

(* A session with one of the mail server's endpoints succeeds or none does. *)
ValidateCredentials(w) ==
    LET c == h[w].code IN
    /\ h[w].pc = "validate"
    /\ \/ /\ h[w].live /\ mail[c] = "good"
          /\ Proceed(w, "saveAccount", EncryptedAccount(c))
          /\ Silent /\ UNCHANGED faults
       \/ h[w].live /\ mail[c] # "good" /\ Reply(w, Null) /\ UNCHANGED faults
       \/ Interrupted(w) /\ Reply(w, Null)
    /\ UNCHANGED <<storeVars, flowVars>>

Connected(w) == [kind |-> "connected", key |-> h[w].key, creds |-> h[w].code]

(* Faulty variant: the error of the write is dropped. *)
SaveAndDrop(w) ==
    /\ h[w].pc = "saveAccount"
    /\ \E ok \in BOOLEAN : Saved(w, ok)
    /\ Proceed(w, "dropPending", Null) /\ Silent
    /\ UNCHANGED <<pendings, now, flowVars>>

SaveCredentials(w) ==
    /\ h[w].pc = "saveAccount"
    /\ \/ /\ Saved(w, TRUE)
          /\ \/ h[w].state # Null /\ Proceed(w, "dropPending", Null) /\ Silent
             \/ h[w].state = Null /\ Reply(w, Connected(w))
       \/ Saved(w, FALSE) /\ Reply(w, Null)
    /\ UNCHANGED <<pendings, now, flowVars>>

DropPending(w) ==
    /\ h[w].pc = "dropPending"
    /\ Dropped(w)
    /\ Reply(w, Connected(w))
    /\ UNCHANGED <<rows, nextId, now, flowVars>>

-----------------------------------------------------------------------------
Opens(a) == a.at.by = encKey

(* GetActiveToken decrypts the row's credentials; under another key AES-GCM *)
(* refuses them.                                                            *)
GetActiveToken(w, k) ==
    LET usable == Registered /\ rows[k] # Null /\ IsActive(rows[k]) /\ Opens(rows[k]) IN
    /\ h[w].pc = "idle"
    /\ \/ usable /\ Reply(w, [kind |-> "token", key |-> k, creds |-> rows[k].at.creds])
       \/ ~usable /\ Reply(w, Null)
    /\ UNCHANGED <<storeVars, faults, flowVars>>

(* External: the user withdraws an app password. *)
Withdraw(c) ==
    /\ mail[c] = "good"
    /\ mail' = [mail EXCEPT ![c] = "withdrawn"]
    /\ Silent
    /\ UNCHANGED <<storeVars, h, faults, urls, given, encKey, deploys>>

DeleteAccount(u, id) ==
    /\ id < nextId
    /\ DeleteConnectedAccount(u, id)
    /\ Silent
    /\ UNCHANGED <<pendings, nextId, now, h, faults, flowVars>>

(* The service is deployed anew, with this key or none; its requests die.   *)
Redeploy(k) ==
    /\ deploys < MaxDeploys /\ deploys' = deploys + 1
    /\ encKey' = k
    /\ h' = [w \in Workers |-> Idle]
    /\ Silent
    /\ UNCHANGED <<storeVars, faults, urls, mail, given>>

ClientLeaves(w) == Leave(w) /\ UNCHANGED <<storeVars, flowVars>>

Crash(w) == Die(w) /\ UNCHANGED <<storeVars, flowVars>>

ClockTick == Tick /\ Silent /\ UNCHANGED <<h, faults, flowVars>>

Next ==
    \/ \E u \in Users, p \in Platforms, s \in States : InitiateCredentialsAuth(u, p, s)
    \/ \E w \in Workers, s \in States, p \in Platforms, c \in Creds :
          HandleCredentialsPage(w, s, p, c)
    \/ \E w \in Workers, k \in Keys, c \in Creds : HandleConnectCredentials(w, k, c)
    \/ \E w \in Workers : \/ CompleteCredentials(w) \/ ValidateCredentials(w)
                          \/ SaveCredentials(w) \/ DropPending(w)
    \/ \E w \in Workers, k \in Keys : GetActiveToken(w, k)
    \/ \E c \in Creds : Withdraw(c)
    \/ \E u \in Users, id \in 1 .. MaxIds : DeleteAccount(u, id)
    \/ \E k \in EncKeys \cup {Null} : Redeploy(k)
    \/ \E w \in Workers : ClientLeaves(w) \/ Crash(w)
    \/ ClockTick

Spec == Init /\ [][Next]_vars

-----------------------------------------------------------------------------
(* Properties. *)

(* Every variable keeps its type. *)
TypeOK ==
    /\ StoreTypeOK(Sealed)
    /\ urls \in [States -> Keys \cup {Null}]
    /\ mail \in [Creds -> {"good", "bad", "withdrawn"}]
    /\ given \subseteq Keys \X Creds
    /\ encKey \in EncKeys \cup {Null}
    /\ deploys \in Nat
    /\ h \in [Workers -> Handler]
    /\ answer \in Answer \cup {Null}
    /\ faults \in Nat

(* "Connection validation still verifies ... the supplied credentials       *)
(* before saving" (discovery.go:81): whichever way they came, the           *)
(* credentials a row holds, or an execute is given, worked at the mail      *)
(* server once and were submitted for that very (user, platform).           *)
StoredWereVerified ==
    /\ \A k \in Keys : rows[k] # Null =>
          mail[rows[k].at.creds] # "bad" /\ <<k, rows[k].at.creds>> \in given
    /\ answer # Null => mail[answer.creds] # "bad" /\ <<answer.key, answer.creds>> \in given

(* Some account that was inserted is there no more. *)
SomeDeleted == \E id \in 1 .. nextId - 1 :
                  \A k \in Keys : rows[k] = Null \/ rows[k].id # id

(* Who mistypes a password, or whose write is lost, can submit the link     *)
(* again: a link goes only when its (user, platform) has an account, or     *)
(* had one until it was deleted.                                            *)
LinkOutlivesFailure ==
    [][\A s \in States : pendings[s] # Null /\ pendings'[s] = Null
          => rows[pendings[s].key] # Null \/ SomeDeleted]_vars

(* Connecting again repairs a row that an earlier deployment's key has      *)
(* sealed: once the answer is "connected", an execute can open the row.     *)
ConnectedOpens ==
    answer # Null /\ answer.kind = "connected" =>
        rows[answer.key] = Null \/ Opens(rows[answer.key])

-----------------------------------------------------------------------------
(* What all this is for: Connections.  The secret is the credentials,       *)
(* granted when they are submitted, if they work.                           *)

Granted == {e \in given : mail[e[2]] # "bad"}

Stored == [k \in Keys |->
             IF rows[k] = Null THEN Null
             ELSE [id |-> rows[k].id, ready |-> IsActive(rows[k]),
                   secret |-> rows[k].at.creds]]

Handed == IF answer = Null \/ answer.kind # "token" THEN Null
          ELSE <<answer.key, answer.creds>>

C == INSTANCE Connections WITH Secrets <- Creds, CanSpoil <- FALSE,
        offered <- given, granted <- Granted, kept <- Stored, handed <- Handed

(* Whatever submissions overlap, fail or meet a redeployment, a step does   *)
(* to the connections only what Connections lets a step do.                 *)
ConnectionsKept == C!Spec
=============================================================================
