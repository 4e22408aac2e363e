---------------------------- MODULE ConnectorStore ----------------------------
(***************************************************************************)
(* The two Postgres tables that hold all the state of the connector:       *)
(* connected_accounts, unique on (user, platform), and pending_auths,      *)
(* keyed by the OAuth state.  Every operation of internal/db/store.go that *)
(* changes state is one SQL statement, hence one atomic operator here; the *)
(* flows that call them several times are in the modules that extend this  *)
(* one.  Absent rows are Null.  Time is a counter that Tick advances.      *)
(***************************************************************************)
EXTENDS Integers

CONSTANTS
    Users,       \* user ids
    Platforms,   \* registered platform names
    States,      \* the random OAuth state values, each drawn at most once
    Null,        \* an absent row, token or key
    PendingTTL,  \* lifetime of a pending auth (10 minutes in the code)
    MaxTime      \* bound: the clock stops here

VARIABLES
    rows,        \* connected_accounts: (user, platform) -> account or Null
    pendings,    \* pending_auths: state -> pending auth or Null
    nextId,      \* what gen_random_uuid() returns next: ids never repeat
    now          \* the clock

storeVars == <<rows, pendings, nextId, now>>

Never == -1      \* expires_at is NULL: the token does not expire

Keys == Users \X Platforms

Status == {"initiated", "active", "expired", "failed"}

(* A row whose tokens are drawn from S. *)
Account(S) == [id : Nat, status : Status, at : S \cup {Null},
               rt : S \cup {Null}, exp : Nat \cup {Never}]

PendingAuth == [key : Keys, exp : Nat]

ASSUME StoreAssumption ==
    /\ PendingTTL \in Nat
    /\ MaxTime \in Nat
    /\ Null \notin Keys
    /\ Null \notin PendingAuth

-----------------------------------------------------------------------------
(* What models.go reads off an account. *)

IsActive(a) == a.status = "active"

IsExpired(a) == a.exp # Never /\ now > a.exp

NeedsRefresh(a) == IsExpired(a) /\ a.rt # Null

-----------------------------------------------------------------------------
(* The statements of store.go. *)

(* Faulty variant: DO UPDATE leaves the tokens out. *)
UpsertKeepingTokens(k, a) ==
    /\ rows' = [rows EXCEPT ![k] =
           IF @ = Null THEN [a EXCEPT !.id = nextId]
                       ELSE [@ EXCEPT !.status = a.status, !.exp = a.exp]]
    /\ nextId' = IF rows[k] = Null THEN nextId + 1 ELSE nextId

(* Faulty variant: DO UPDATE takes the id from the caller as well. *)
UpsertNewId(k, a) ==
    /\ rows' = [rows EXCEPT ![k] = [a EXCEPT !.id = nextId]]
    /\ nextId' = nextId + 1

(* INSERT ... ON CONFLICT (user_id, platform) DO UPDATE: every column but   *)
(* the id and the creation time is overwritten by the caller's copy.        *)
UpsertConnectedAccount(k, a) ==
    IF rows[k] = Null
    THEN /\ rows' = [rows EXCEPT ![k] = [a EXCEPT !.id = nextId]]
         /\ nextId' = nextId + 1
    ELSE /\ rows' = [rows EXCEPT ![k] = [a EXCEPT !.id = rows[k].id]]
         /\ UNCHANGED nextId

(* DELETE ... WHERE id = $1 AND user_id = $2. *)
DeleteConnectedAccount(u, id) ==
    rows' = [k \in Keys |->
                IF rows[k] # Null /\ k[1] = u /\ rows[k].id = id
                THEN Null ELSE rows[k]]

SavePendingAuth(s, k) ==
    pendings' = [pendings EXCEPT ![s] = [key |-> k, exp |-> now + PendingTTL]]

(* Faulty variant: removes the row only once it has expired. *)
DeletePendingIfExpired(s) ==
    pendings' = IF pendings[s] # Null /\ now > pendings[s].exp
                THEN [pendings EXCEPT ![s] = Null] ELSE pendings

DeletePendingAuth(s) == pendings' = [pendings EXCEPT ![s] = Null]

(* Faulty variant: the WHERE clause is lost. *)
GetAnyPending(s) ==
    IF \E t \in States : pendings[t] # Null
    THEN pendings[CHOOSE t \in States : pendings[t] # Null]
    ELSE Null

(* SELECT ... WHERE state = $1; expired ones are found as well. *)
GetPendingAuth(s) == pendings[s]

(* The check every completion makes of the pending auth it has read. *)
LinkUsable(s) == GetPendingAuth(s) # Null /\ ~(now > GetPendingAuth(s).exp)

-----------------------------------------------------------------------------
StoreInit ==
    /\ rows = [k \in Keys |-> Null]
    /\ pendings = [s \in States |-> Null]
    /\ nextId = 1
    /\ now = 0

Tick ==
    /\ now < MaxTime
    /\ now' = now + 1
    /\ UNCHANGED <<rows, pendings, nextId>>

StoreTypeOK(S) ==
    /\ rows \in [Keys -> Account(S) \cup {Null}]
    /\ pendings \in [States -> PendingAuth \cup {Null}]
    /\ nextId \in Nat
    /\ now \in Nat
=============================================================================
