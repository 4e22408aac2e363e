----------------------------- MODULE ComposioProofs -----------------------------
(***************************************************************************)
(* Theorems about ComposioLink, for every value of its constants.          *)
(***************************************************************************)
EXTENDS ComposioLink, StoreProofs

-----------------------------------------------------------------------------
(* The inductive invariant.  A row and a handler's copy of one name a       *)
(* connection that exists, was made for their key, and has been authorized  *)
(* if they are active.  Composio's connections go forward only, so what is  *)
(* vouched for stays so, however old a copy is when it is written.          *)

Carrying == {"saveInitiated", "verify", "resolve", "saveAccount", "saveFailed", "dropPending"}

Linking == {"createLink", "saveInitiated"}

Good(cs, k, a) ==
    /\ a \in Account(Conns) /\ a.at \in Conns
    /\ cs[a.at].key = k /\ cs[a.at].stage # "none"
    /\ IsActive(a) => cs[a.at].stage \in {"ACTIVE", "EXPIRED"}

HandlerOK(cs, ls, x) ==
    /\ x.pc # "idle" => x.key \in Keys /\ x.state \in States
    /\ x.pc \in Linking => ls[x.state] # Null
    /\ x.pc \in Carrying => Good(cs, x.key, x.acct)
    /\ x.pc \notin Carrying => x.acct = Null

RowsOK(cs, r) == \A k \in Keys : r[k] # Null => Good(cs, k, r[k])

AnswerOK(cs, a) ==
    a # Null => /\ cs[a.token].key = a.key /\ cs[a.token].stage # "none"
                /\ a.kind = "token" => cs[a.token].stage \in {"ACTIVE", "EXPIRED"}

IInv ==
    /\ TypeOK
    /\ \A w \in Workers : HandlerOK(conns, links, h[w])
    /\ RowsOK(conns, rows)
    /\ AnswerOK(conns, answer)

(* What a connection that exists keeps, and a link as well. *)
Later(cs, ds) ==
    \A c \in Conns : cs[c].stage # "none" =>
        /\ ds[c].key = cs[c].key /\ ds[c].stage # "none"
        /\ cs[c].stage \in {"ACTIVE", "EXPIRED"} => ds[c].stage \in {"ACTIVE", "EXPIRED"}

Kept(ls, ms) == \A s \in States : ls[s] # Null => ms[s] # Null

LEMMA InitIInv == Init => IInv
BY StoreAssumption, ComposioAssumption
DEF Init, StoreInit, RequestsInit, IInv, TypeOK, StoreTypeOK, HandlerOK, RowsOK, AnswerOK,
    Handler, Idle, Pc, Carrying, Linking, Stage

LEMMA GoodStays ==
    ASSUME NEW cs, NEW ds, Later(cs, ds), NEW k, NEW a, Good(cs, k, a)
    PROVE  Good(ds, k, a)
BY DEF Later, Good

LEMMA RowsStay ==
    ASSUME NEW cs, NEW ds, Later(cs, ds), NEW r, RowsOK(cs, r)
    PROVE  RowsOK(ds, r)
BY GoodStays DEF RowsOK

LEMMA HandlerStays ==
    ASSUME NEW cs, NEW ds, Later(cs, ds), NEW ls, NEW ms, Kept(ls, ms),
           NEW x, HandlerOK(cs, ls, x)
    PROVE  HandlerOK(ds, ms, x)
BY GoodStays DEF HandlerOK, Kept, Linking

LEMMA AnswerStays ==
    ASSUME NEW cs, NEW ds, Later(cs, ds), NEW a \in Answer \cup {Null}, AnswerOK(cs, a)
    PROVE  AnswerOK(ds, a)
BY DEF Later, AnswerOK, Answer

(* Composio never forgets whose a connection is, nor that it was authorized. *)
LEMMA CreatedLater ==
    ASSUME IInv, NEW c \in Conns, NEW k \in Keys, Created(c, k)
    PROVE  /\ Later(conns, conns')
           /\ conns' \in [Conns -> [stage : Stage, key : Keys \cup {Null}]]
           /\ conns'[c].key = k /\ conns'[c].stage = "INITIATED"
BY DEF Created, Later, IInv, TypeOK, Stage

LEMMA SameLater == Later(conns, conns)
BY DEF Later

LEMMA SameKept == Kept(links, links)
BY DEF Kept

(* One handler changes; the others are as they were. *)
LEMMA HandlersStay ==
    ASSUME IInv, NEW w \in Workers, NEW x \in Handler, HandlerOK(conns', links', x),
           h' = [h EXCEPT ![w] = x], Later(conns, conns'), Kept(links, links')
    PROVE  h' \in [Workers -> Handler] /\ \A v \in Workers : HandlerOK(conns', links', h'[v])
<1>1. h \in [Workers -> Handler]
  BY DEF IInv, TypeOK
<1>2. ASSUME NEW v \in Workers PROVE HandlerOK(conns', links', h'[v])
  <2>1. CASE v = w
    BY <1>1, <2>1
  <2>2. CASE v # w
    <3>1. h'[v] = h[v] /\ HandlerOK(conns, links, h[v])
      BY <1>1, <2>2 DEF IInv
    <3>2. QED
      BY <3>1, HandlerStays
  <2>3. QED
    BY <2>1, <2>2
<1>3. QED
  BY <1>1, <1>2

LEMMA IdleOK == ASSUME NEW cs, NEW ls PROVE Idle \in Handler /\ HandlerOK(cs, ls, Idle)
BY DEF Idle, Handler, Pc, HandlerOK, Carrying, Linking

LEMMA ReplyOK ==
    ASSUME IInv, NEW w \in Workers, NEW a \in Answer \cup {Null}, Reply(w, a),
           Later(conns, conns'), Kept(links, links')
    PROVE  /\ h' \in [Workers -> Handler]
           /\ \A v \in Workers : HandlerOK(conns', links', h'[v])
           /\ answer' = a /\ answer' \in Answer \cup {Null}
BY HandlersStay, IdleOK DEF Reply

(* A handler goes on with a copy that is vouched for. *)
LEMMA ProceedOK ==
    ASSUME IInv, NEW w \in Workers, h[w].pc # "idle", NEW pc \in Carrying, NEW a,
           Good(conns', h[w].key, a), pc \in Linking => links'[h[w].state] # Null,
           Proceed(w, pc, a), Later(conns, conns'), Kept(links, links')
    PROVE  h' \in [Workers -> Handler] /\ \A v \in Workers : HandlerOK(conns', links', h'[v])
<1> DEFINE x == [h[w] EXCEPT !.pc = pc, !.acct = a]
<1>1. h[w] \in Handler /\ h[w].key \in Keys /\ h[w].state \in States
  BY DEF IInv, TypeOK, HandlerOK
<1>2. x \in Handler /\ x.pc = pc /\ x.acct = a /\ x.key = h[w].key /\ x.state = h[w].state
  BY <1>1 DEF Handler, Good, Carrying, Pc
<1>3. HandlerOK(conns', links', x)
  BY <1>1, <1>2 DEF HandlerOK
<1>4. h' = [h EXCEPT ![w] = x]
  BY DEF Proceed
<1>5. QED
  BY <1>2, <1>3, <1>4, HandlersStay

(* A handler's upsert writes a row that is vouched for. *)
LEMMA SavedOK ==
    ASSUME IInv, NEW w \in Workers, h[w].pc \in Carrying,
           NEW ok \in BOOLEAN, Saved(w, ok), UNCHANGED <<pendings, now, conns>>
    PROVE  StoreTypeOK(Conns)' /\ faults' \in Nat /\ RowsOK(conns', rows')
<1> DEFINE k == h[w].key
           a == h[w].acct
<1>1. k \in Keys /\ Good(conns, k, a) /\ a \in Account(Conns)
  BY DEF IInv, HandlerOK, Carrying, Good
<1>2. StoreTypeOK(Conns) /\ faults \in Nat /\ RowsOK(conns, rows)
  BY DEF IInv, TypeOK
<1>3. faults' \in Nat
  BY <1>2 DEF Saved, Interrupted
<1>4. ASSUME NEW i \in Nat
      PROVE  [a EXCEPT !.id = i] \in Account(Conns) /\ Good(conns, k, [a EXCEPT !.id = i])
  BY <1>1 DEF Account, Good, IsActive
<1>5. ASSUME NEW i \in Nat, rows' = [rows EXCEPT ![k] = [a EXCEPT !.id = i]], nextId' \in Nat
      PROVE  StoreTypeOK(Conns)' /\ RowsOK(conns', rows')
  <2> DEFINE b == [a EXCEPT !.id = i]
  <2>1. b \in Account(Conns) /\ Good(conns, k, b) /\ rows' = [rows EXCEPT ![k] = b]
    BY <1>4, <1>5
  <2> HIDE DEF b
  <2>2. QED
    BY <1>1, <1>2, <1>5, <2>1 DEF StoreTypeOK, RowsOK
<1>6. CASE UpsertConnectedAccount(k, a)
  <2>1. CASE rows[k] = Null
    BY <1>2, <1>3, <1>5, <1>6, <2>1 DEF UpsertConnectedAccount, StoreTypeOK
  <2>2. CASE rows[k] # Null
    <3>1. rows[k].id \in Nat
      BY <1>1, <1>2, <2>2 DEF StoreTypeOK, Account
    <3>2. QED
      BY <1>2, <1>3, <1>5, <1>6, <2>2, <3>1 DEF UpsertConnectedAccount, StoreTypeOK
  <2>3. QED
    BY <2>1, <2>2
<1>7. CASE UNCHANGED <<rows, nextId>>
  BY <1>2, <1>3, <1>7 DEF StoreTypeOK
<1>8. QED
  BY <1>3, <1>6, <1>7 DEF Saved

-----------------------------------------------------------------------------
(* The steps. *)

LEMMA NextIInv == IInv /\ [Next]_vars => IInv'
<1> SUFFICES ASSUME IInv, [Next]_vars PROVE IInv'
  OBVIOUS
<1> USE SameLater, SameKept
<1>0. /\ TypeOK /\ RowsOK(conns, rows) /\ AnswerOK(conns, answer)
      /\ \A w \in Workers : HandlerOK(conns, links, h[w]) /\ h[w] \in Handler
  BY DEF IInv, TypeOK
<1>a. AnswerOK(conns', Null)
  BY DEF AnswerOK
<1>1. ASSUME NEW w \in Workers, NEW u \in Users, NEW p \in Platforms, NEW s \in States,
             InitiateOAuth(w, u, p, s)
      PROVE  IInv'
  <2> DEFINE k == <<u, p>>
             x == [h[w] EXCEPT !.pc = "createLink", !.state = s, !.key = k]
  <2>1. k \in Keys
    BY DEF Keys
  <2>2. h[w].pc = "idle" /\ h[w].acct = Null
    BY <1>0, <1>1 DEF InitiateOAuth, HandlerOK, Carrying
  <2>3. links' \in [States -> [key : Keys, conn : Conns \cup {Null}] \cup {Null}]
        /\ links'[s] # Null /\ Kept(links, links')
    BY <1>0, <1>1, <2>1, ComposioAssumption DEF InitiateOAuth, TypeOK, Kept
  <2>4. x \in Handler /\ HandlerOK(conns', links', x)
    BY <1>0, <1>1, <2>1, <2>2, <2>3
    DEF InitiateOAuth, Handler, Pc, HandlerOK, Carrying, Linking
  <2>5. h' = [h EXCEPT ![w] = x] /\ UNCHANGED <<rows, nextId, now, conns, faults>> /\ answer' = Null
    BY <1>1 DEF InitiateOAuth, Silent
  <2>6. h' \in [Workers -> Handler] /\ \A v \in Workers : HandlerOK(conns', links', h'[v])
    BY <2>3, <2>4, <2>5, HandlersStay
  <2>7. StoreTypeOK(Conns)'
    BY <1>0, <1>1, <2>1, <2>5, StoreAssumption
    DEF InitiateOAuth, SavePendingAuth, TypeOK, StoreTypeOK, PendingAuth
  <2>8. QED
    BY <1>0, <1>a, <2>3, <2>5, <2>6, <2>7 DEF IInv, TypeOK
<1>2. ASSUME NEW w \in Workers, CreateLink(w)
      PROVE  IInv'
  <2>1. h[w].key \in Keys /\ h[w].pc = "createLink" /\ links[h[w].state] # Null
    BY <1>0, <1>2 DEF CreateLink, HandlerOK, Linking
  <2>2. UNCHANGED <<storeVars, links>> /\ faults' \in Nat
    BY <1>0, <1>2 DEF CreateLink, Interrupted, TypeOK
  <2>3. ASSUME NEW c \in Conns, Created(c, h[w].key), Silent,
               Proceed(w, "saveInitiated", [id |-> 0, status |-> "initiated", at |-> c,
                                            rt |-> Null, exp |-> Never])
        PROVE  IInv'
    <3> DEFINE a == [id |-> 0, status |-> "initiated", at |-> c, rt |-> Null, exp |-> Never]
    <3>1. /\ Later(conns, conns') /\ conns' \in [Conns -> [stage : Stage, key : Keys \cup {Null}]]
          /\ conns'[c].key = h[w].key /\ conns'[c].stage = "INITIATED"
      BY <2>1, <2>3, CreatedLater
    <3>2. Good(conns', h[w].key, a)
      BY <3>1 DEF Good, Account, Status, IsActive
    <3>3. h' \in [Workers -> Handler] /\ \A v \in Workers : HandlerOK(conns', links', h'[v])
      BY <2>1, <2>2, <2>3, <3>1, <3>2, ProceedOK DEF Carrying
    <3>4. RowsOK(conns', rows')
      BY <1>0, <2>2, <3>1, RowsStay DEF storeVars
    <3>5. QED
      BY <1>0, <1>a, <2>2, <2>3, <3>1, <3>3, <3>4 DEF IInv, TypeOK, StoreTypeOK, storeVars, Silent
  <2>4. ASSUME Reply(w, Null), (\E c \in Conns : Created(c, h[w].key)) \/ UNCHANGED conns
        PROVE  IInv'
    <3>1. Later(conns, conns') /\ conns' \in [Conns -> [stage : Stage, key : Keys \cup {Null}]]
      BY <1>0, <2>1, <2>4, CreatedLater DEF TypeOK
    <3>2. /\ h' \in [Workers -> Handler] /\ answer' = Null
          /\ \A v \in Workers : HandlerOK(conns', links', h'[v])
      BY <2>2, <2>4, <3>1, ReplyOK
    <3>3. RowsOK(conns', rows')
      BY <1>0, <2>2, <3>1, RowsStay DEF storeVars
    <3>4. QED
      BY <1>0, <1>a, <2>2, <3>1, <3>2, <3>3 DEF IInv, TypeOK, StoreTypeOK, storeVars
  <2>5. QED
    BY <1>2, <2>3, <2>4 DEF CreateLink
<1>3. ASSUME NEW w \in Workers, SaveInitiated(w)
      PROVE  IInv'
  <2>1. h[w].pc \in Carrying /\ h[w].state \in States /\ links[h[w].state] # Null
        /\ Good(conns, h[w].key, h[w].acct)
    BY <1>0, <1>3 DEF SaveInitiated, HandlerOK, Linking, Carrying
  <2>2. UNCHANGED <<pendings, now, conns>> /\ Reply(w, Null)
    BY <1>3 DEF SaveInitiated
  <2>3. StoreTypeOK(Conns)' /\ faults' \in Nat /\ RowsOK(conns', rows')
    BY <1>3, <2>1, <2>2, SavedOK DEF SaveInitiated
  <2>4. links' \in [States -> [key : Keys, conn : Conns \cup {Null}] \cup {Null}]
        /\ Kept(links, links')
    <3>1. h[w].acct.at \in Conns
      BY <2>1 DEF Good
    <3>2. links[h[w].state] \in [key : Keys, conn : Conns \cup {Null}]
      BY <1>0, <2>1 DEF TypeOK
    <3>3. [links[h[w].state] EXCEPT !.conn = h[w].acct.at] \in [key : Keys, conn : Conns \cup {Null}]
      BY <3>1, <3>2
    <3>4. \/ UNCHANGED links
          \/ links' = [links EXCEPT ![h[w].state] = [links[h[w].state] EXCEPT !.conn = h[w].acct.at]]
      BY <1>3 DEF SaveInitiated
    <3>5. QED
      BY <1>0, <2>1, <3>3, <3>4, ComposioAssumption DEF TypeOK, Kept
  <2>5. /\ h' \in [Workers -> Handler] /\ answer' = Null
        /\ \A v \in Workers : HandlerOK(conns', links', h'[v])
    BY <2>2, <2>4, ReplyOK
  <2>6. QED
    BY <1>0, <1>a, <2>2, <2>3, <2>4, <2>5 DEF IInv, TypeOK
<1>4. ASSUME NEW c \in Conns, NEW stage \in {"ACTIVE", "FAILED"}, Authorize(c, stage) \/ Close(c)
      PROVE  IInv'
  <2>1. Later(conns, conns') /\ conns' \in [Conns -> [stage : Stage, key : Keys \cup {Null}]]
    BY <1>0, <1>4 DEF Authorize, Close, Later, TypeOK, Stage
  <2>2. UNCHANGED <<storeVars, links, h, faults>> /\ answer' = Null
    BY <1>4 DEF Authorize, Close, Silent
  <2>3. RowsOK(conns', rows') /\ \A v \in Workers : HandlerOK(conns', links', h'[v])
    BY <1>0, <2>1, <2>2, RowsStay, HandlerStays DEF storeVars
  <2>4. QED
    BY <1>0, <1>a, <2>1, <2>2, <2>3 DEF IInv, TypeOK, StoreTypeOK, storeVars
<1>5. ASSUME NEW w \in Workers, NEW s \in States, HandleComposioCallback(w, s)
      PROVE  IInv'
  <2> DEFINE x == [h[w] EXCEPT !.pc = "readAccount", !.state = s, !.key = GetPendingAuth(s).key]
  <2>1. UNCHANGED <<storeVars, links, conns, faults>> /\ h[w].pc = "idle" /\ h[w].acct = Null
    BY <1>0, <1>5 DEF HandleComposioCallback, HandlerOK, Carrying
  <2>2. /\ h' \in [Workers -> Handler] /\ answer' = Null
        /\ \A v \in Workers : HandlerOK(conns', links', h'[v])
    <3>1. CASE LinkUsable(s) /\ h' = [h EXCEPT ![w] = x] /\ Silent
      <4>1. GetPendingAuth(s).key \in Keys
        BY <1>0, <3>1 DEF LinkUsable, GetPendingAuth, TypeOK, StoreTypeOK, PendingAuth
      <4>2. x \in Handler /\ HandlerOK(conns', links', x)
        BY <1>0, <2>1, <4>1 DEF Handler, Pc, HandlerOK, Carrying, Linking
      <4>3. QED
        BY <2>1, <3>1, <4>2, HandlersStay DEF Silent
    <3>2. CASE Reply(w, Null)
      BY <2>1, <3>2, ReplyOK
    <3>3. QED
      BY <1>5, <3>1, <3>2 DEF HandleComposioCallback
  <2>3. QED
    BY <1>0, <1>a, <2>1, <2>2 DEF IInv, TypeOK, StoreTypeOK, storeVars
<1>6. ASSUME NEW w \in Workers, ReadAccount(w)
      PROVE  IInv'
  <2>1. UNCHANGED <<storeVars, links, conns>> /\ faults' \in Nat /\ h[w].pc = "readAccount"
        /\ h[w].key \in Keys
    BY <1>0, <1>6 DEF ReadAccount, Interrupted, TypeOK, HandlerOK
  <2>2. /\ h' \in [Workers -> Handler] /\ answer' = Null
        /\ \A v \in Workers : HandlerOK(conns', links', h'[v])
    <3>1. CASE rows[h[w].key] # Null /\ Proceed(w, "verify", rows[h[w].key]) /\ Silent
      <4>1. Good(conns', h[w].key, rows[h[w].key])
        BY <1>0, <2>1, <3>1 DEF RowsOK
      <4>2. QED
        BY <2>1, <3>1, <4>1, ProceedOK DEF Carrying, Linking, Silent
    <3>2. CASE Reply(w, Null)
      BY <2>1, <3>2, ReplyOK
    <3>3. QED
      BY <1>6, <3>1, <3>2 DEF ReadAccount
  <2>3. QED
    BY <1>0, <1>a, <2>1, <2>2 DEF IInv, TypeOK, StoreTypeOK, storeVars
<1>7. ASSUME NEW w \in Workers, VerifyConnection(w)
      PROVE  IInv'
  <2> DEFINE a == h[w].acct
  <2>1. UNCHANGED <<storeVars, links, conns>> /\ faults' \in Nat /\ h[w].pc = "verify"
        /\ answer' = Null /\ Good(conns, h[w].key, a)
    BY <1>0, <1>7 DEF VerifyConnection, Interrupted, Silent, TypeOK, HandlerOK, Carrying
  <2>2. Good(conns', h[w].key, WithStatus(a, "failed"))
    BY <2>1 DEF Good, WithStatus, Account, Status, IsActive
  <2>3. conns[a.at].stage = "ACTIVE" => Good(conns', h[w].key, WithStatus(a, "active"))
    BY <2>1 DEF Good, WithStatus, Account, Status, IsActive
  <2> DEFINE code == IF Undecided(h[w].state) THEN "early" ELSE Null
             x == [h[w] EXCEPT !.pc = "saveAccount", !.acct = WithStatus(a, "failed"), !.code = code]
  <2>4. \/ conns[a.at].stage = "ACTIVE" /\ Proceed(w, "resolve", WithStatus(a, "active"))
        \/ Proceed(w, "saveFailed", WithStatus(a, "failed"))
        \/ h' = [h EXCEPT ![w] = x]
    BY <1>7 DEF VerifyConnection
  <2>5. h' \in [Workers -> Handler] /\ \A v \in Workers : HandlerOK(conns', links', h'[v])
    <3>1. CASE h' = [h EXCEPT ![w] = x]
      <4>1. x \in Handler /\ HandlerOK(conns', links', x)
        BY <1>0, <2>1, <2>2 DEF Handler, Pc, HandlerOK, Carrying, Linking, Good
      <4> HIDE DEF x
      <4>2. QED
        BY <2>1, <3>1, <4>1, HandlersStay
    <3>2. QED
      BY <2>1, <2>2, <2>3, <2>4, <3>1, ProceedOK DEF Carrying, Linking
  <2>6. QED
    BY <1>0, <1>a, <2>1, <2>5 DEF IInv, TypeOK, StoreTypeOK, storeVars
<1>8. ASSUME NEW w \in Workers, ResolveConnection(w)
      PROVE  IInv'
  <2> DEFINE a == h[w].acct
  <2>1. UNCHANGED <<storeVars, links, conns>> /\ faults' \in Nat /\ h[w].pc = "resolve"
        /\ answer' = Null /\ Good(conns, h[w].key, a)
    BY <1>0, <1>8 DEF ResolveConnection, Interrupted, Silent, TypeOK, HandlerOK, Carrying
  <2>2. ASSUME NEW c \in ListConnections(h[w].key)
        PROVE  Good(conns', h[w].key, [a EXCEPT !.at = c])
    BY <2>1 DEF ListConnections, Good, Account, IsActive
  <2>3. \/ \E c \in ListConnections(h[w].key) : Proceed(w, "saveAccount", [a EXCEPT !.at = c])
        \/ Proceed(w, "saveAccount", a)
    BY <1>8 DEF ResolveConnection
  <2>4. h' \in [Workers -> Handler] /\ \A v \in Workers : HandlerOK(conns', links', h'[v])
    BY <2>1, <2>2, <2>3, ProceedOK DEF Carrying, Linking
  <2>5. QED
    BY <1>0, <1>a, <2>1, <2>4 DEF IInv, TypeOK, StoreTypeOK, storeVars
<1>9. ASSUME NEW w \in Workers, SaveAccount(w) \/ SaveFailed(w)
      PROVE  IInv'
  <2>1. h[w].pc \in Carrying /\ h[w].pc # "idle" /\ Good(conns, h[w].key, h[w].acct)
        /\ UNCHANGED <<pendings, now, links, conns>>
    BY <1>0, <1>9 DEF SaveAccount, SaveFailed, HandlerOK, Carrying
  <2>2. StoreTypeOK(Conns)' /\ faults' \in Nat /\ RowsOK(conns', rows')
    BY <1>9, <2>1, SavedOK DEF SaveAccount, SaveFailed
  <2>3. /\ h' \in [Workers -> Handler] /\ answer' = Null
        /\ \A v \in Workers : HandlerOK(conns', links', h'[v])
    <3>1. CASE Proceed(w, "dropPending", h[w].acct) /\ Silent
      BY <2>1, <3>1, ProceedOK DEF Carrying, Linking, Silent
    <3>2. CASE Reply(w, Null)
      BY <2>1, <3>2, ReplyOK
    <3>3. QED
      BY <1>9, <3>1, <3>2 DEF SaveAccount, SaveFailed
  <2>4. QED
    BY <1>0, <1>a, <2>1, <2>2, <2>3 DEF IInv, TypeOK
<1>10. ASSUME NEW w \in Workers, DropPending(w)
       PROVE  IInv'
  <2> DEFINE a == [kind |-> "connected", key |-> h[w].key, state |-> h[w].state,
                   status |-> h[w].acct.status, token |-> h[w].acct.at]
  <2>1. h[w].key \in Keys /\ h[w].state \in States /\ Good(conns, h[w].key, h[w].acct)
    BY <1>0, <1>10 DEF DropPending, HandlerOK, Carrying
  <2>2. a \in Answer /\ AnswerOK(conns, a)
    BY <2>1 DEF Good, Account, Answer, AnswerOK
  <2>3. UNCHANGED <<rows, nextId, now, links, conns>> /\ Reply(w, a) /\ faults' \in Nat
    BY <1>0, <1>10 DEF DropPending, Dropped, Interrupted, TypeOK
  <2>4. pendings' \in [States -> PendingAuth \cup {Null}]
    BY <1>0, <1>10 DEF DropPending, Dropped, DeletePendingAuth, TypeOK, StoreTypeOK
  <2> HIDE DEF a
  <2>5. /\ h' \in [Workers -> Handler] /\ answer' = a
        /\ \A v \in Workers : HandlerOK(conns', links', h'[v])
    BY <2>2, <2>3, ReplyOK
  <2>6. QED
    BY <1>0, <2>2, <2>3, <2>4, <2>5 DEF IInv, TypeOK, StoreTypeOK
<1>11. ASSUME NEW w \in Workers, NEW k \in Keys, GetActiveToken(w, k)
       PROVE  IInv'
  <2> DEFINE a == [kind |-> "token", key |-> k, state |-> Null,
                   status |-> rows[k].status, token |-> rows[k].at]
  <2>1. UNCHANGED <<storeVars, links, conns, faults>>
    BY <1>11 DEF GetActiveToken
  <2>2. CASE rows[k] # Null /\ IsActive(rows[k]) /\ Reply(w, a)
    <3>1. Good(conns, k, rows[k])
      BY <1>0, <2>2 DEF RowsOK
    <3>2. a \in Answer /\ AnswerOK(conns, a)
      BY <2>2, <3>1 DEF Good, Account, Answer, AnswerOK
    <3> HIDE DEF a
    <3>3. /\ h' \in [Workers -> Handler] /\ answer' = a
          /\ \A v \in Workers : HandlerOK(conns', links', h'[v])
      BY <2>1, <2>2, <3>2, ReplyOK
    <3>4. QED
      BY <1>0, <2>1, <3>2, <3>3 DEF IInv, TypeOK, StoreTypeOK, storeVars
  <2>3. CASE Reply(w, Null)
    <3>1. /\ h' \in [Workers -> Handler] /\ answer' = Null
          /\ \A v \in Workers : HandlerOK(conns', links', h'[v])
      BY <2>1, <2>3, ReplyOK
    <3>2. QED
      BY <1>0, <1>a, <2>1, <3>1 DEF IInv, TypeOK, StoreTypeOK, storeVars
  <2>4. QED
    BY <1>11, <2>2, <2>3 DEF GetActiveToken
<1>12. ASSUME NEW u \in Users, NEW id \in 1 .. MaxIds, DeleteAccount(u, id)
       PROVE  IInv'
  <2>1. UNCHANGED <<pendings, nextId, now, links, conns, h, faults>> /\ answer' = Null
    BY <1>12 DEF DeleteAccount, Silent
  <2>2. /\ rows' \in [Keys -> Account(Conns) \cup {Null}]
        /\ \A k \in Keys : rows'[k] \in {rows[k], Null}
    BY <1>0, <1>12 DEF DeleteAccount, DeleteConnectedAccount, TypeOK, StoreTypeOK
  <2>3. RowsOK(conns', rows')
    BY <1>0, <2>1, <2>2 DEF RowsOK
  <2>4. QED
    BY <1>0, <1>a, <2>1, <2>2, <2>3 DEF IInv, TypeOK, StoreTypeOK
<1>13. ASSUME NEW w \in Workers, ClientLeaves(w)
       PROVE  IInv'
  <2> DEFINE x == [h[w] EXCEPT !.live = FALSE]
  <2>1. UNCHANGED <<storeVars, links, conns>> /\ answer' = Null /\ faults' \in Nat
        /\ h' = [h EXCEPT ![w] = x]
    BY <1>0, <1>13 DEF ClientLeaves, Leave, Silent, TypeOK
  <2>2. x \in Handler /\ HandlerOK(conns', links', x)
    BY <1>0, <2>1 DEF Handler, HandlerOK
  <2>3. h' \in [Workers -> Handler] /\ \A v \in Workers : HandlerOK(conns', links', h'[v])
    BY <2>1, <2>2, HandlersStay
  <2>4. QED
    BY <1>0, <1>a, <2>1, <2>3 DEF IInv, TypeOK, StoreTypeOK, storeVars
<1>14. ASSUME NEW w \in Workers, Crash(w)
       PROVE  IInv'
  <2>1. UNCHANGED <<storeVars, links, conns>> /\ Reply(w, Null) /\ faults' \in Nat
    BY <1>0, <1>14 DEF Crash, Die, TypeOK
  <2>2. /\ h' \in [Workers -> Handler] /\ answer' = Null
        /\ \A v \in Workers : HandlerOK(conns', links', h'[v])
    BY <2>1, ReplyOK
  <2>3. QED
    BY <1>0, <1>a, <2>1, <2>2 DEF IInv, TypeOK, StoreTypeOK, storeVars
<1>15. CASE ClockTick
  BY <1>0, <1>a, <1>15 DEF ClockTick, Tick, Silent, IInv, TypeOK, StoreTypeOK
<1>16. CASE UNCHANGED vars
  BY <1>0, <1>16 DEF vars, storeVars, requestVars, IInv, TypeOK, StoreTypeOK
<1>17. QED
  BY <1>1, <1>2, <1>3, <1>4, <1>5, <1>6, <1>7, <1>8, <1>9, <1>10, <1>11,
     <1>12, <1>13, <1>14, <1>15, <1>16 DEF Next, HandlerStep

LEMMA SpecIInv == Spec => []IInv
BY InitIInv, NextIInv, PTL DEF Spec

(* Every variable of the Composio flow keeps its type: among others no step *)
(* writes back a row without a connection.                                  *)
THEOREM ComposioTypeCorrect == Spec => []TypeOK
<1>1. IInv => TypeOK
  BY DEF IInv
<1>2. QED
  BY <1>1, SpecIInv, PTL

(* For any number of users, platforms, links and handlers, a connection     *)
(* stored, carried or handed out was made for that user and platform        *)
(* (initiateComposioAuth, HandleComposioCallback, GetActiveToken).          *)
THEOREM ConnectionsIsolated == Spec => []ConnectionIsolation
<1>1. IInv => ConnectionIsolation
  <2> SUFFICES ASSUME IInv PROVE ConnectionIsolation
    OBVIOUS
  <2>1. \A k \in Keys : rows[k] # Null => conns[rows[k].at].key = k
    BY DEF IInv, RowsOK, Good
  <2>2. ASSUME NEW w \in Workers, h[w].acct # Null
        PROVE  conns[h[w].acct.at].key = h[w].key
    BY <2>2 DEF IInv, HandlerOK, Good
  <2>3. QED
    BY <2>1, <2>2 DEF IInv, AnswerOK, ConnectionIsolation
<1>2. QED
  BY <1>1, SpecIInv, PTL

(* An active row, and a connection handed to a tool, was authorized by the  *)
(* user at Composio, whatever links, callbacks, lost calls and crashes      *)
(* overlap.                                                                 *)
THEOREM ActiveAuthorized == Spec => []ActiveWasAuthorized
<1>1. IInv => ActiveWasAuthorized
  BY DEF IInv, RowsOK, Good, AnswerOK, ActiveWasAuthorized, Authorized
<1>2. QED
  BY <1>1, SpecIInv, PTL

-----------------------------------------------------------------------------
(* OnlyLinkActivates.  While no call is lost, each connection belongs to a   *)
(* link, or to the handler that is about to give it to its link.  So a user  *)
(* with one link for a platform has one connection, which is the one that    *)
(* the callback finds in the row and asks about.                             *)

Returning == {"readAccount", "verify", "resolve", "saveAccount", "saveFailed", "dropPending"}

Settling == {"resolve", "saveAccount", "dropPending"}

Before == {"none", "INITIATED"}

Hopeful == Before \cup {"ACTIVE"}

Sole(ls, s) == \A t \in States \ {s} : ls[t] # Null => ls[t].key # ls[s].key

LinkOK(cs, ls, f, x) ==
    /\ x.pc \in Linking => ls[x.state].conn = Null /\ ls[x.state].key = x.key
    /\ x.pc \in Returning => /\ ls[x.state] # Null /\ ls[x.state].conn \in Conns
                             /\ ls[x.state].key = x.key
    /\ x.pc \in Settling /\ x.code = Null /\ f = 0 /\ Sole(ls, x.state) =>
          x.acct.status = "active" \/ cs[ls[x.state].conn].stage \notin Hopeful
    /\ f = 0 => x.live

OneLinker(hh) ==
    \A v, w \in Workers :
        hh[v].pc \in Linking /\ hh[w].pc \in Linking /\ hh[v].state = hh[w].state => v = w

Gives(x, s, c) == x.pc = "saveInitiated" /\ x.state = s /\ x.acct.at = c

Known(cs, ls, hh) ==
    \A c \in Conns : cs[c].stage # "none" =>
        \E s \in States : /\ ls[s] # Null /\ ls[s].key = cs[c].key
                          /\ ls[s].conn = c \/ \E w \in Workers : Gives(hh[w], s, c)

PendingsOK(ps, ls) == \A s \in States : ps[s] # Null => ls[s] # Null /\ ps[s].key = ls[s].key

LinksOK(cs, ls) ==
    \A s \in States : ls[s] # Null /\ ls[s].conn # Null => cs[ls[s].conn].stage # "none"

LInv ==
    /\ IInv
    /\ OneLinker(h)
    /\ \A w \in Workers : LinkOK(conns, links, faults, h[w])
    /\ PendingsOK(pendings, links)
    /\ LinksOK(conns, links)
    /\ faults = 0 => Known(conns, links, h)

LEMMA InitLInv == Init => LInv
<1> SUFFICES ASSUME Init PROVE LInv
  OBVIOUS
<1>1. IInv
  BY InitIInv
<1>2. \A w \in Workers : h[w] = Idle
  BY DEF Init, RequestsInit
<1>3. OneLinker(h) /\ \A w \in Workers : LinkOK(conns, links, faults, h[w])
  BY <1>2 DEF OneLinker, LinkOK, Idle, Linking, Returning, Settling
<1>4. PendingsOK(pendings, links) /\ LinksOK(conns, links) /\ Known(conns, links, h)
  BY DEF Init, StoreInit, PendingsOK, LinksOK, Known
<1>5. QED
  BY <1>1, <1>3, <1>4 DEF LInv

(* A user with one link for a platform has one connection there. *)
LEMMA OneConnection ==
    ASSUME LInv, faults = 0, NEW s \in States, links[s] # Null, links[s].conn # Null,
           Sole(links, s), NEW c \in Conns, conns[c].stage # "none",
           conns[c].key = links[s].key
    PROVE  c = links[s].conn
<1>1. PICK t \in States : /\ links[t] # Null /\ links[t].key = conns[c].key
                          /\ links[t].conn = c \/ \E w \in Workers : Gives(h[w], t, c)
  BY DEF LInv, Known
<1>2. t = s
  BY <1>1 DEF Sole
<1>3. ASSUME NEW w \in Workers, Gives(h[w], s, c) PROVE FALSE
  BY <1>3 DEF LInv, LinkOK, Gives, Linking
<1>4. QED
  BY <1>1, <1>2, <1>3

(* How links and connections change, for the handlers that look at them. *)
Longer(ls, ms) ==
    \A s \in States : ls[s] # Null =>
        /\ ms[s] # Null /\ ms[s].key = ls[s].key
        /\ ls[s].conn # Null => ms[s].conn = ls[s].conn

Onward(cs, ds) ==
    \A c \in Conns : cs[c].stage \notin Before =>
        ds[c].stage \notin Before /\ (ds[c].stage = "ACTIVE" => cs[c].stage = "ACTIVE")

LEMMA SoleEarlier ==
    ASSUME NEW ls, NEW ms, Longer(ls, ms), NEW s \in States, ls[s] # Null, Sole(ms, s)
    PROVE  Sole(ls, s)
BY DEF Longer, Sole

LEMMA LinkOKStays ==
    ASSUME NEW cs, NEW ds, Onward(cs, ds), NEW ls, NEW ms, Longer(ls, ms),
           NEW f \in Nat, NEW g \in Nat, g = 0 => f = 0,
           NEW x \in Handler, LinkOK(cs, ls, f, x), HandlerOK(cs, ls, x),
           x.pc \in Linking => ms[x.state].conn = Null
    PROVE  LinkOK(ds, ms, g, x)
<1>1. x.pc # "idle" => x.state \in States
  BY DEF HandlerOK
<1>2. x.pc \in Linking => ms[x.state].conn = Null /\ ms[x.state].key = x.key
  BY <1>1 DEF LinkOK, HandlerOK, Longer, Linking
<1>3. x.pc \in Returning =>
        /\ ls[x.state] # Null /\ ms[x.state] # Null /\ ms[x.state].conn = ls[x.state].conn
        /\ ms[x.state].conn \in Conns /\ ms[x.state].key = x.key
  BY <1>1, ComposioAssumption DEF LinkOK, Longer, Returning
<1>4. ASSUME x.pc \in Settling, x.code = Null, g = 0, Sole(ms, x.state),
             x.acct.status # "active"
      PROVE  ds[ms[x.state].conn].stage \notin Hopeful
  <2>1. x.pc \in Returning /\ x.state \in States
    BY <1>1, <1>4 DEF Settling, Returning
  <2>2. Sole(ls, x.state)
    BY <1>3, <1>4, <2>1, SoleEarlier
  <2>3. cs[ls[x.state].conn].stage \notin Hopeful
    BY <1>4, <2>2 DEF LinkOK
  <2>4. QED
    BY <1>3, <2>1, <2>3 DEF Onward, Hopeful
<1>5. QED
  BY <1>2, <1>3, <1>4 DEF LinkOK

(* A step of one handler that leaves links and connections as they are. *)
LEMMA OneMoves ==
    ASSUME LInv, IInv', NEW w \in Workers, NEW x \in Handler, h' = [h EXCEPT ![w] = x],
           UNCHANGED <<links, conns>>, faults' = 0 => faults = 0,
           \A s \in States : pendings'[s] \in {pendings[s], Null},
           LinkOK(conns, links, faults', x),
           x.pc \in Linking => h[w].pc \in Linking /\ x.state = h[w].state,
           faults' = 0 => h[w].pc # "saveInitiated"
    PROVE  LInv'
<1>1. h \in [Workers -> Handler] /\ faults \in Nat /\ faults' \in Nat
  BY DEF LInv, IInv, TypeOK
<1>2. Longer(links, links) /\ Onward(conns, conns)
  BY DEF Longer, Onward
<1>3. ASSUME NEW v \in Workers PROVE LinkOK(conns', links', faults', h'[v])
  <2>1. CASE v = w
    BY <1>1, <2>1
  <2>2. CASE v # w
    <3>1. h'[v] = h[v] /\ h[v] \in Handler /\ HandlerOK(conns, links, h[v])
          /\ LinkOK(conns, links, faults, h[v])
      BY <1>1, <2>2 DEF LInv, IInv
    <3>2. h[v].pc \in Linking => links[h[v].state].conn = Null
      BY <3>1 DEF LinkOK
    <3>3. QED
      BY <1>1, <1>2, <3>1, <3>2, LinkOKStays
  <2>3. QED
    BY <2>1, <2>2
<1>4. OneLinker(h')
  BY <1>1 DEF LInv, OneLinker
<1>5. faults' = 0 => Known(conns', links', h')
  BY <1>1 DEF LInv, Known, Gives
<1>6. PendingsOK(pendings', links') /\ LinksOK(conns', links')
  BY DEF LInv, PendingsOK, LinksOK
<1>7. QED
  BY <1>3, <1>4, <1>5, <1>6 DEF LInv

(* So does a handler that returns, having lost a call if it was linking. *)
LEMMA OneReturns ==
    ASSUME LInv, IInv', NEW w \in Workers, NEW a, Reply(w, a),
           UNCHANGED <<links, conns>>, faults' = 0 => faults = 0,
           \A s \in States : pendings'[s] \in {pendings[s], Null},
           faults' = 0 => h[w].pc # "saveInitiated"
    PROVE  LInv'
<1>1. Idle \in Handler /\ LinkOK(conns, links, faults', Idle) /\ Idle.pc \notin Linking
  BY DEF Idle, Handler, Pc, LinkOK, Linking, Returning, Settling
<1>2. QED
  BY <1>1, OneMoves DEF Reply

(* An interrupted call leaves a fault behind: no client left without one. *)
LEMMA InterruptedFaults ==
    ASSUME LInv, NEW w \in Workers, Interrupted(w)
    PROVE  faults' # 0 /\ faults' \in Nat
BY DEF LInv, IInv, TypeOK, LinkOK, Interrupted

LEMMA NextLInv == LInv /\ [Next]_vars => LInv'
<1> SUFFICES ASSUME LInv, [Next]_vars PROVE LInv'
  OBVIOUS
<1>0. /\ IInv /\ IInv' /\ TypeOK /\ faults \in Nat /\ faults' \in Nat
      /\ h \in [Workers -> Handler] /\ links \in [States -> [key : Keys, conn : Conns \cup {Null}] \cup {Null}]
      /\ conns \in [Conns -> [stage : Stage, key : Keys \cup {Null}]]
      /\ \A w \in Workers : /\ h[w] \in Handler /\ HandlerOK(conns, links, h[w])
                             /\ LinkOK(conns, links, faults, h[w])
  BY NextIInv DEF LInv, IInv, TypeOK
<1>b. Longer(links, links) /\ Onward(conns, conns)
  BY DEF Longer, Onward
<1>1. ASSUME NEW w \in Workers, NEW u \in Users, NEW p \in Platforms, NEW s \in States,
             InitiateOAuth(w, u, p, s)
      PROVE  LInv'
  <2> DEFINE k == <<u, p>>
             l == [key |-> k, conn |-> Null]
             x == [h[w] EXCEPT !.pc = "createLink", !.state = s, !.key = k]
  <2>1. /\ links[s] = Null /\ links' = [links EXCEPT ![s] = l] /\ h' = [h EXCEPT ![w] = x]
        /\ UNCHANGED <<conns, faults>> /\ answer' = Null /\ k \in Keys /\ h[w].pc = "idle"
        /\ pendings' = [pendings EXCEPT ![s] = [key |-> k, exp |-> now + PendingTTL]]
    BY <1>1 DEF InitiateOAuth, SavePendingAuth, Silent, Keys
  <2>2. l # Null /\ l.key = k /\ l.conn = Null
    BY <2>1, ComposioAssumption
  <2>3. x.pc = "createLink" /\ x.state = s /\ x.key = k /\ x.live = h[w].live /\ x.acct = h[w].acct
    BY <1>0 DEF Handler
  <2> HIDE DEF l, x
  <2>4. /\ links'[s] = l /\ \A t \in States \ {s} : links'[t] = links[t]
        /\ h'[w] = x /\ \A v \in Workers \ {w} : h'[v] = h[v]
    BY <1>0, <2>1
  <2>5. Longer(links, links')
    BY <2>1, <2>4 DEF Longer
  <2>6. ASSUME NEW v \in Workers, h[v].pc \in Linking PROVE h[v].state \in States \ {s}
    BY <1>0, <2>1, <2>6 DEF HandlerOK, Linking
  <2>7. ASSUME NEW v \in Workers PROVE LinkOK(conns', links', faults', h'[v])
    <3>1. CASE v = w
      BY <1>0, <2>1, <2>2, <2>3, <2>4, <3>1 DEF LinkOK, Linking, Returning, Settling
    <3>2. CASE v # w
      <4>1. h'[v] = h[v] /\ (h[v].pc \in Linking => links'[h[v].state].conn = Null)
        BY <1>0, <2>4, <2>6, <3>2 DEF LinkOK
      <4>2. QED
        BY <1>0, <1>b, <2>1, <2>5, <4>1, LinkOKStays
    <3>3. QED
      BY <3>1, <3>2
  <2>8. OneLinker(h')
    BY <2>3, <2>4, <2>6 DEF LInv, OneLinker
  <2>9. PendingsOK(pendings', links')
    <3>1. pendings \in [States -> PendingAuth \cup {Null}]
      BY <1>0 DEF TypeOK, StoreTypeOK
    <3>2. pendings'[s].key = k /\ \A t \in States \ {s} : pendings'[t] = pendings[t]
      BY <2>1, <3>1
    <3>3. QED
      BY <2>2, <2>4, <3>2 DEF LInv, PendingsOK
  <2>10. LinksOK(conns', links')
    BY <2>1, <2>2, <2>4 DEF LInv, LinksOK
  <2>11. faults' = 0 => Known(conns', links', h')
    <3> SUFFICES ASSUME faults = 0, NEW c \in Conns, conns[c].stage # "none"
                 PROVE  \E t \in States :
                            /\ links'[t] # Null /\ links'[t].key = conns[c].key
                            /\ links'[t].conn = c \/ \E v \in Workers : Gives(h'[v], t, c)
      BY <2>1 DEF Known
    <3>1. PICK t \in States : /\ links[t] # Null /\ links[t].key = conns[c].key
                              /\ links[t].conn = c \/ \E v \in Workers : Gives(h[v], t, c)
      BY DEF LInv, Known
    <3>2. t # s /\ links'[t] = links[t]
      BY <2>1, <2>4, <3>1
    <3>3. \A v \in Workers : Gives(h[v], t, c) => Gives(h'[v], t, c)
      BY <2>1, <2>4 DEF Gives
    <3>4. QED
      BY <3>1, <3>2, <3>3
  <2>12. QED
    BY <1>0, <2>1, <2>7, <2>8, <2>9, <2>10, <2>11 DEF LInv
<1>2. ASSUME NEW w \in Workers, CreateLink(w)
      PROVE  LInv'
  <2>1. /\ h[w].pc = "createLink" /\ UNCHANGED <<pendings, links>> /\ faults' >= faults
        /\ h[w].key \in Keys /\ h[w].state \in States /\ links[h[w].state] # Null
        /\ links[h[w].state].key = h[w].key /\ links[h[w].state].conn = Null /\ answer' = Null
    BY <1>0, <1>2
    DEF CreateLink, storeVars, Interrupted, HandlerOK, LinkOK, Linking, Silent, Reply
  <2>2. PICK x \in Handler :
          /\ h' = [h EXCEPT ![w] = x]
          /\ LinkOK(conns, links, faults', x)
          /\ x.pc \notin Returning
          /\ x.pc \in Linking => x.state = h[w].state
    <3>1. ASSUME NEW c, Proceed(w, "saveInitiated", c)
          PROVE  [h[w] EXCEPT !.pc = "saveInitiated", !.acct = c] = h'[w]
                 /\ LinkOK(conns, links, faults', h'[w]) /\ h'[w].state = h[w].state
                 /\ h'[w].pc \notin Returning
      <4>1. h'[w] = [h[w] EXCEPT !.pc = "saveInitiated", !.acct = c]
        BY <1>0, <3>1 DEF Proceed
      <4>2. h'[w].pc = "saveInitiated" /\ h'[w].state = h[w].state /\ h'[w].key = h[w].key
            /\ h'[w].live = h[w].live
        BY <1>0, <4>1 DEF Handler
      <4>3. QED
        BY <1>0, <2>1, <4>1, <4>2 DEF LinkOK, Linking, Returning, Settling
    <3>2. ASSUME Reply(w, Null)
          PROVE  h'[w] = Idle /\ LinkOK(conns, links, faults', Idle)
                 /\ Idle.pc \notin Linking \cup Returning
      BY <1>0, <3>2 DEF Reply, Idle, LinkOK, Linking, Returning, Settling
    <3>3. h'[w] \in Handler /\ h' = [h EXCEPT ![w] = h'[w]]
      BY <1>0, <1>2 DEF CreateLink, Proceed, Reply, IInv, TypeOK
    <3>4. QED
      BY <1>2, <3>1, <3>2, <3>3 DEF CreateLink
  <2>3. Onward(conns, conns')
    BY <1>0, <1>2 DEF CreateLink, Created, Onward, Before
  <2>4. h'[w] = x /\ \A v \in Workers \ {w} : h'[v] = h[v]
    BY <1>0, <2>2
  <2>5. ASSUME NEW y \in Handler, HandlerOK(conns, links, y), LinkOK(conns, links, faults, y)
        PROVE  LinkOK(conns', links', faults', y)
    <3>1. y.pc \in Linking => links'[y.state].conn = Null
      BY <2>1, <2>5 DEF LinkOK
    <3>2. Longer(links, links') /\ (faults' = 0 => faults = 0)
      BY <1>0, <1>b, <2>1
    <3>3. QED
      BY <1>0, <2>3, <2>5, <3>1, <3>2, LinkOKStays
  <2>6. LinkOK(conns', links', faults', h'[w])
    BY <2>1, <2>2, <2>4 DEF LinkOK, Returning, Settling
  <2>7. \A v \in Workers : LinkOK(conns', links', faults', h'[v])
    BY <1>0, <2>4, <2>5, <2>6
  <2>8. OneLinker(h')
    BY <2>1, <2>2, <2>4 DEF LInv, OneLinker, Linking
  <2>9. LinksOK(conns', links')
    <3>1. \A d \in Conns : conns[d].stage # "none" => conns'[d].stage # "none"
      BY <1>0, <1>2 DEF CreateLink, Created
    <3>2. \A s \in States : links[s] # Null /\ links[s].conn # Null => links[s].conn \in Conns
      BY <1>0
    <3>3. QED
      BY <2>1, <3>1, <3>2 DEF LInv, LinksOK
  <2>10. ASSUME faults' = 0, NEW c \in Conns, conns'[c].stage # "none"
         PROVE  \E t \in States :
                    /\ links'[t] # Null /\ links'[t].key = conns'[c].key
                    /\ links'[t].conn = c \/ \E v \in Workers : Gives(h'[v], t, c)
    <3>1. PICK d \in Conns :
            /\ Created(d, h[w].key)
            /\ Proceed(w, "saveInitiated", [id |-> 0, status |-> "initiated", at |-> d,
                                            rt |-> Null, exp |-> Never])
      BY <1>2, <2>10, InterruptedFaults DEF CreateLink
    <3>2. h'[w].pc = "saveInitiated" /\ h'[w].state = h[w].state /\ h'[w].acct.at = d
      BY <1>0, <3>1 DEF Proceed, Handler
    <3>3. conns'[d].key = h[w].key /\ \A e \in Conns \ {d} : conns'[e] = conns[e]
      BY <1>0, <3>1 DEF Created
    <3>4. CASE c = d
      BY <2>1, <3>2, <3>3, <3>4 DEF Gives
    <3>5. CASE c # d
      <4>1. faults = 0 /\ conns'[c] = conns[c]
        BY <1>0, <2>1, <2>10, <3>3, <3>5
      <4>2. PICK t \in States : /\ links[t] # Null /\ links[t].key = conns[c].key
                                /\ links[t].conn = c \/ \E v \in Workers : Gives(h[v], t, c)
        BY <2>10, <4>1 DEF LInv, Known
      <4>3. \A v \in Workers : Gives(h[v], t, c) => Gives(h'[v], t, c)
        BY <2>1, <2>4 DEF Gives
      <4>4. QED
        BY <2>1, <4>1, <4>2, <4>3
    <3>6. QED
      BY <3>4, <3>5
  <2>11. faults' = 0 => Known(conns', links', h')
    BY <2>10 DEF Known
  <2>12. PendingsOK(pendings', links')
    BY <2>1 DEF LInv, PendingsOK
  <2>13. QED
    BY <1>0, <2>1, <2>7, <2>8, <2>9, <2>11, <2>12 DEF LInv
<1>3. ASSUME NEW w \in Workers, SaveInitiated(w)
      PROVE  LInv'
  <2> DEFINE s == h[w].state
             d == h[w].acct.at
  <2>1. /\ h[w].pc = "saveInitiated" /\ s \in States /\ links[s] # Null
        /\ links[s].key = h[w].key /\ links[s].conn = Null
        /\ Good(conns, h[w].key, h[w].acct) /\ d \in Conns
    BY <1>0, <1>3 DEF SaveInitiated, HandlerOK, LinkOK, Linking, Carrying, Good
  <2>2. UNCHANGED <<pendings, conns>> /\ Reply(w, Null) /\ answer' = Null
    BY <1>3 DEF SaveInitiated, Reply
  <2>3. CASE links' = [links EXCEPT ![s].conn = d] /\ UNCHANGED faults
    <3>1. /\ links'[s] # Null /\ links'[s].key = links[s].key /\ links'[s].conn = d
          /\ \A t \in States \ {s} : links'[t] = links[t]
      <4>1. links[s] \in [key : Keys, conn : Conns \cup {Null}]
        BY <1>0, <2>1
      <4>2. [links[s] EXCEPT !.conn = d] \in [key : Keys, conn : Conns \cup {Null}]
        BY <2>1, <4>1
      <4>3. links' = [links EXCEPT ![s] = [links[s] EXCEPT !.conn = d]]
        BY <2>3
      <4>4. QED
        BY <1>0, <2>1, <4>1, <4>2, <4>3, ComposioAssumption
    <3>2. Longer(links, links')
      BY <2>1, <3>1 DEF Longer
    <3>3. h'[w] = Idle /\ \A v \in Workers \ {w} : h'[v] = h[v]
      BY <1>0, <2>2 DEF Reply
    <3>4. ASSUME NEW v \in Workers \ {w}, h[v].pc \in Linking PROVE h[v].state \in States \ {s}
      BY <1>0, <2>1, <3>4 DEF LInv, OneLinker, HandlerOK, Linking
    <3>5. ASSUME NEW v \in Workers PROVE LinkOK(conns', links', faults', h'[v])
      <4>1. CASE v = w
        BY <3>3, <4>1 DEF Idle, LinkOK, Linking, Returning, Settling
      <4>2. CASE v # w
        <5>1. h[v].pc \in Linking => links'[h[v].state].conn = Null
          BY <1>0, <3>1, <3>4, <4>2 DEF LinkOK
        <5>2. QED
          BY <1>0, <1>b, <2>2, <2>3, <3>2, <3>3, <4>2, <5>1, LinkOKStays
      <4>3. QED
        BY <4>1, <4>2
    <3>6. OneLinker(h')
      BY <3>3 DEF LInv, OneLinker, Idle, Linking
    <3>7. PendingsOK(pendings', links') /\ LinksOK(conns', links')
      BY <2>1, <2>2, <3>1 DEF LInv, PendingsOK, LinksOK, Good
    <3>8. ASSUME faults = 0, NEW c \in Conns, conns[c].stage # "none"
          PROVE  \E t \in States :
                     /\ links'[t] # Null /\ links'[t].key = conns[c].key
                     /\ links'[t].conn = c \/ \E v \in Workers : Gives(h'[v], t, c)
      <4>1. PICK t \in States : /\ links[t] # Null /\ links[t].key = conns[c].key
                                /\ links[t].conn = c \/ \E v \in Workers : Gives(h[v], t, c)
        BY <3>8 DEF LInv, Known
      <4>2. CASE links[t].conn = c
        BY <2>1, <3>1, <4>1, <4>2, ComposioAssumption
      <4>3. ASSUME NEW v \in Workers, Gives(h[v], t, c)
            PROVE  links'[t].conn = c \/ Gives(h'[v], t, c)
        BY <3>1, <3>3, <4>3 DEF Gives
      <4>4. links'[t] # Null /\ links'[t].key = conns[c].key
        BY <3>1, <4>1
      <4>5. QED
        BY <4>1, <4>2, <4>3, <4>4
    <3>9. faults' = 0 => Known(conns', links', h')
      BY <2>2, <2>3, <3>8 DEF Known
    <3>10. QED
      BY <1>0, <2>2, <3>5, <3>6, <3>7, <3>9 DEF LInv
  <2>4. CASE Interrupted(w) /\ UNCHANGED links
    <3>1. faults' # 0
      BY <2>4, InterruptedFaults
    <3>2. QED
      BY <1>0, <2>2, <2>4, <3>1, OneReturns
  <2>5. QED
    BY <1>3, <2>3, <2>4 DEF SaveInitiated, Saved
<1>4. ASSUME NEW c \in Conns, NEW stage \in {"ACTIVE", "FAILED"}, Authorize(c, stage) \/ Close(c)
      PROVE  LInv'
  <2>1. /\ Onward(conns, conns') /\ UNCHANGED <<pendings, links, h, faults>> /\ answer' = Null
        /\ \A d \in Conns : /\ conns'[d].key = conns[d].key
                             /\ (conns'[d].stage = "none") = (conns[d].stage = "none")
    BY <1>0, <1>4 DEF Authorize, Close, Onward, Before, storeVars, Silent
  <2>2. \A v \in Workers : LinkOK(conns', links', faults', h'[v])
    <3> SUFFICES ASSUME NEW v \in Workers PROVE LinkOK(conns', links', faults', h'[v])
      OBVIOUS
    <3>1. h[v].pc \in Linking => links[h[v].state].conn = Null
      BY <1>0 DEF LinkOK
    <3>2. QED
      BY <1>0, <1>b, <2>1, <3>1, LinkOKStays
  <2>3. OneLinker(h') /\ PendingsOK(pendings', links')
    BY <2>1 DEF LInv
  <2>4. LinksOK(conns', links')
    <3>1. \A s \in States : links[s] # Null /\ links[s].conn # Null => links[s].conn \in Conns
      BY <1>0
    <3>2. ASSUME NEW s \in States, links[s] # Null, links[s].conn # Null
          PROVE  /\ conns[links[s].conn].stage # "none" => conns'[links[s].conn].stage # "none"
                 /\ conns'[links[s].conn].key = conns[links[s].conn].key
      BY <2>1, <3>1, <3>2
    <3>3. QED
      BY <2>1, <3>1, <3>2 DEF LInv, LinksOK
  <2>5. faults' = 0 => Known(conns', links', h')
    <3> SUFFICES ASSUME faults = 0, NEW d \in Conns, conns[d].stage # "none"
                 PROVE  \E t \in States :
                            /\ links[t] # Null /\ links[t].key = conns[d].key
                            /\ links[t].conn = d \/ \E v \in Workers : Gives(h[v], t, d)
      BY <2>1 DEF Known
    <3> QED
      BY DEF LInv, Known
  <2>6. QED
    BY <1>0, <2>1, <2>2, <2>3, <2>4, <2>5 DEF LInv
<1>5. ASSUME NEW w \in Workers, NEW s \in States, HandleComposioCallback(w, s)
      PROVE  LInv'
  <2> DEFINE x == [h[w] EXCEPT !.pc = "readAccount", !.state = s, !.key = GetPendingAuth(s).key]
  <2>1. /\ UNCHANGED <<storeVars, links, conns, faults>> /\ h[w].pc = "idle"
        /\ links[s] # Null /\ links[s].conn # Null
    BY <1>5 DEF HandleComposioCallback
  <2>2. CASE LinkUsable(s) /\ h' = [h EXCEPT ![w] = x] /\ Silent
    <3>1. x \in Handler /\ x.pc = "readAccount" /\ x.state = s /\ x.key = links[s].key
          /\ x.live = h[w].live
      <4>1. pendings[s].key = links[s].key /\ links[s].key \in Keys
        BY <1>0, <2>1, <2>2 DEF LInv, PendingsOK, LinkUsable, GetPendingAuth
      <4>2. QED
        BY <1>0, <4>1 DEF Handler, Pc, GetPendingAuth
    <3> HIDE DEF x
    <3>2. links[s].conn \in Conns
      BY <1>0, <2>1
    <3>3. LinkOK(conns, links, faults', x)
      BY <1>0, <2>1, <3>1, <3>2 DEF LinkOK, Linking, Returning, Settling
    <3>4. QED
      BY <1>0, <2>1, <2>2, <3>1, <3>3, OneMoves DEF Linking, storeVars, Silent
  <2>3. CASE Reply(w, Null)
    BY <1>0, <2>1, <2>3, OneReturns DEF storeVars
  <2>4. QED
    BY <1>5, <2>2, <2>3 DEF HandleComposioCallback
<1>6. ASSUME NEW w \in Workers, h[w].pc \in Returning, UNCHANGED <<links, conns>>,
             NEW pc \in Returning, NEW a,
             faults' >= faults, UNCHANGED pendings, Silent,
             NEW code, h' = [h EXCEPT ![w] = [@ EXCEPT !.pc = pc, !.acct = a, !.code = code]],
             pc \in Settling /\ code = Null /\ faults' = 0 /\ Sole(links, h[w].state) =>
                a.status = "active" \/ conns[links[h[w].state].conn].stage \notin Hopeful
      PROVE  LInv'
  <2> DEFINE x == [h[w] EXCEPT !.pc = pc, !.acct = a, !.code = code]
  <2>1. /\ x.pc = pc /\ x.acct = a /\ x.key = h[w].key /\ x.state = h[w].state
        /\ x.live = h[w].live /\ x.code = code
    BY <1>0 DEF Handler
  <2>2. h' = [h EXCEPT ![w] = x] /\ x \in Handler
    BY <1>0, <1>6 DEF IInv, TypeOK
  <2> HIDE DEF x
  <2>3. faults' = 0 => faults = 0
    BY <1>0, <1>6
  <2>4. LinkOK(conns, links, faults', x)
    BY <1>0, <1>6, <2>1, <2>3 DEF LinkOK, Linking, Returning, Settling
  <2>5. QED
    BY <1>0, <1>6, <2>1, <2>2, <2>3, <2>4, OneMoves DEF Linking, Returning, Silent
<1>c. ASSUME NEW w \in Workers, h[w].pc \in Returning, UNCHANGED <<links, conns>>,
             NEW pc \in Returning, NEW a, Proceed(w, pc, a),
             faults' >= faults, UNCHANGED pendings, Silent,
             pc \in Settling /\ h[w].code = Null /\ faults' = 0 /\ Sole(links, h[w].state) =>
                a.status = "active" \/ conns[links[h[w].state].conn].stage \notin Hopeful
      PROVE  LInv'
  <2>1. [h[w] EXCEPT !.pc = pc, !.acct = a, !.code = h[w].code] = [h[w] EXCEPT !.pc = pc, !.acct = a]
    BY <1>0 DEF Handler
  <2>2. h' = [h EXCEPT ![w] = [@ EXCEPT !.pc = pc, !.acct = a, !.code = h[w].code]]
    BY <1>0, <1>c, <2>1 DEF Proceed
  <2>3. QED
    BY <1>6, <1>c, <2>2
<1>7. ASSUME NEW w \in Workers, ReadAccount(w)
      PROVE  LInv'
  <2>1. UNCHANGED <<storeVars, links, conns>> /\ h[w].pc = "readAccount" /\ faults' >= faults
    BY <1>0, <1>7 DEF ReadAccount, Interrupted
  <2>2. CASE Proceed(w, "verify", rows[h[w].key]) /\ Silent
    BY <1>c, <2>1, <2>2 DEF Returning, Settling, storeVars
  <2>3. CASE Reply(w, Null)
    BY <1>0, <2>1, <2>3, OneReturns DEF storeVars
  <2>4. QED
    BY <1>7, <2>2, <2>3 DEF ReadAccount
<1>8. ASSUME NEW w \in Workers, VerifyConnection(w)
      PROVE  LInv'
  <2> DEFINE a == h[w].acct
             s == h[w].state
  <2>1. /\ UNCHANGED <<storeVars, links, conns>> /\ h[w].pc = "verify" /\ faults' >= faults
        /\ Good(conns, h[w].key, a) /\ s \in States /\ Silent
        /\ links[s] # Null /\ links[s].conn \in Conns /\ links[s].key = h[w].key
    BY <1>0, <1>8
    DEF VerifyConnection, Interrupted, HandlerOK, Carrying, LinkOK, Returning
  <2>2. WithStatus(a, "active").status = "active"
    BY <2>1 DEF WithStatus, Good, Account
  <2>3. CASE conns[a.at].stage = "ACTIVE" /\ Proceed(w, "resolve", WithStatus(a, "active"))
    BY <1>c, <2>1, <2>2, <2>3 DEF Returning, storeVars
  <2> DEFINE code == IF Undecided(s) THEN "early" ELSE Null
  <2>4. CASE /\ UNCHANGED faults /\ conns[a.at].stage # "ACTIVE"
             /\ h' = [h EXCEPT ![w] = [@ EXCEPT !.pc = "saveAccount",
                                           !.acct = WithStatus(a, "failed"), !.code = code]]
    <3>1. ASSUME faults = 0, Sole(links, s), code = Null
          PROVE  conns[links[s].conn].stage \notin Hopeful
      <4>1. a.at = links[s].conn
        BY <2>1, <3>1, OneConnection, ComposioAssumption DEF Good
      <4>2. QED
        BY <2>1, <2>4, <3>1, <4>1, ComposioAssumption DEF Undecided, Good, Hopeful, Before
    <3>2. QED
      BY <1>6, <2>1, <2>4, <3>1 DEF Returning, storeVars
  <2>5. CASE Proceed(w, "saveFailed", WithStatus(a, "failed"))
    BY <1>c, <2>1, <2>5 DEF Returning, Settling, storeVars
  <2>6. QED
    BY <1>8, <2>3, <2>4, <2>5 DEF VerifyConnection
<1>9. ASSUME NEW w \in Workers, ResolveConnection(w) \/ SaveAccount(w)
      PROVE  LInv'
  <2> DEFINE a == h[w].acct
             s == h[w].state
  <2>1. /\ UNCHANGED <<pendings, links, conns>> /\ faults' >= faults /\ Silent
        /\ h[w].pc \in {"resolve", "saveAccount"} /\ Good(conns, h[w].key, a)
    BY <1>0, <1>9
    DEF ResolveConnection, SaveAccount, Saved, Interrupted, storeVars, HandlerOK, Carrying
  <2>2. ASSUME h[w].code = Null, faults' = 0, Sole(links, s)
        PROVE  a.status = "active" \/ conns[links[s].conn].stage \notin Hopeful
    BY <1>0, <2>1, <2>2 DEF LinkOK, Settling
  <2>3. \A c : [a EXCEPT !.at = c].status = a.status
    BY <2>1 DEF Good, Account
  <2>4. \E pc \in {"saveAccount", "dropPending"} : \E b :
            Proceed(w, pc, b) /\ b.status = a.status
    BY <1>9, <2>3 DEF ResolveConnection, SaveAccount
  <2>5. QED
    BY <1>c, <2>1, <2>2, <2>4 DEF Returning
<1>10. ASSUME NEW w \in Workers, DropPending(w)
       PROVE  LInv'
  <2> DEFINE a == [kind |-> "connected", key |-> h[w].key, state |-> h[w].state,
                   status |-> h[w].acct.status, token |-> h[w].acct.at]
  <2>1. /\ UNCHANGED <<links, conns>> /\ faults' >= faults /\ h[w].pc = "dropPending"
        /\ Reply(w, a)
    BY <1>0, <1>10 DEF DropPending, Dropped, Interrupted
  <2>2. \A t \in States : pendings'[t] \in {pendings[t], Null}
    BY <1>0, <1>10 DEF DropPending, Dropped, DeletePendingAuth, TypeOK, StoreTypeOK
  <2>4. Idle \in Handler /\ LinkOK(conns, links, faults', Idle) /\ Idle.pc \notin Linking
    BY DEF Idle, Handler, Pc, LinkOK, Linking, Returning, Settling
  <2>5. h' = [h EXCEPT ![w] = Idle] /\ h[w].pc # "saveInitiated" /\ (faults' = 0 => faults = 0)
    BY <1>0, <2>1 DEF Reply
  <2> HIDE DEF a
  <2>6. QED
    BY <1>0, <2>1, <2>2, <2>4, <2>5, OneMoves
<1>11. ASSUME NEW w \in Workers, SaveFailed(w)
       PROVE  LInv'
  <2>1. UNCHANGED <<pendings, links, conns>> /\ h[w].pc = "saveFailed" /\ Reply(w, Null)
        /\ faults' >= faults
    BY <1>0, <1>11 DEF SaveFailed, Saved, Interrupted
  <2>2. QED
    BY <1>0, <2>1, OneReturns
<1>12. ASSUME NEW w \in Workers, NEW k \in Keys, GetActiveToken(w, k)
       PROVE  LInv'
  <2>1. UNCHANGED <<storeVars, links, conns, faults>> /\ h[w].pc = "idle"
    BY <1>12 DEF GetActiveToken
  <2>2. PICK a : Reply(w, a) /\ (a # Null => a.kind = "token")
    BY <1>12 DEF GetActiveToken
  <2>3. QED
    BY <1>0, <2>1, <2>2, OneReturns DEF storeVars
<1>13. ASSUME UNCHANGED <<pendings, links, conns, h, faults>>
       PROVE  LInv'
  BY <1>0, <1>13 DEF LInv
<1>14. ASSUME NEW u \in Users, NEW id \in 1 .. MaxIds, DeleteAccount(u, id)
       PROVE  LInv'
  BY <1>13, <1>14 DEF DeleteAccount, Silent
<1>15. CASE ClockTick
  BY <1>13, <1>15 DEF ClockTick, Tick, Silent
<1>16. CASE UNCHANGED vars
  BY <1>13, <1>16 DEF vars, storeVars, requestVars
<1>17. ASSUME NEW w \in Workers, ClientLeaves(w)
       PROVE  LInv'
  <2> DEFINE x == [h[w] EXCEPT !.live = FALSE]
  <2>1. /\ UNCHANGED <<storeVars, links, conns>> /\ answer' = Null
        /\ faults' # 0 /\ h' = [h EXCEPT ![w] = x]
    BY <1>0, <1>17 DEF ClientLeaves, Leave, Silent
  <2>2. x \in Handler /\ x.pc = h[w].pc /\ x.state = h[w].state /\ x.key = h[w].key
        /\ x.acct = h[w].acct /\ x.code = h[w].code
    BY <1>0 DEF Handler
  <2> HIDE DEF x
  <2>3. LinkOK(conns, links, faults', x)
    BY <1>0, <2>1, <2>2 DEF LinkOK
  <2>4. QED
    BY <1>0, <2>1, <2>2, <2>3, OneMoves DEF storeVars
<1>18. ASSUME NEW w \in Workers, Crash(w)
       PROVE  LInv'
  <2>1. UNCHANGED <<storeVars, links, conns>> /\ Reply(w, Null) /\ faults' # 0
    BY <1>0, <1>18 DEF Crash, Die
  <2>2. QED
    BY <1>0, <2>1, OneReturns DEF storeVars
<1>19. QED
  BY <1>1, <1>2, <1>3, <1>4, <1>5, <1>7, <1>8, <1>9, <1>10, <1>11, <1>12,
     <1>14, <1>15, <1>16, <1>17, <1>18 DEF Next, HandlerStep

(* With no call lost, the callback of a link that its user has authorized   *)
(* stores an active row, if that user asked for no other link on the        *)
(* platform (HandleComposioCallback); however many other users, callbacks   *)
(* and deletions there are.                                                 *)
THEOREM OnlyLinkSettles == Spec => []OnlyLinkActivates
<1>1. LInv => OnlyLinkActivates
  BY DEF LInv, LinkOK, Settling, Hopeful, OnlyLinkActivates, Completing, OnlyLink, Sole
<1>2. QED
  BY <1>1, InitLInv, NextLInv, PTL DEF Spec
-----------------------------------------------------------------------------
(* Connections.  A step writes one row from a handler's copy, removes one,  *)
(* or leaves the accounts alone; one that touches them does not touch what  *)
(* Composio knows.                                                          *)

Written(w) ==
    /\ h[w].pc \in {"saveInitiated", "saveAccount", "saveFailed"}
    /\ UpsertConnectedAccount(h[w].key, h[w].acct)
    /\ UNCHANGED conns
    /\ answer' = Null

Removed ==
    /\ \E u, id : DeleteConnectedAccount(u, id)
    /\ UNCHANGED <<nextId, conns>>
    /\ answer' = Null

Untouched == UNCHANGED <<rows, nextId>>

LEMMA StepAccounts ==
    ASSUME [Next]_vars
    PROVE  Untouched \/ Removed \/ \E w \in Workers : Written(w)
<1>1. ASSUME NEW w \in Workers, SaveInitiated(w) \/ SaveAccount(w) \/ SaveFailed(w)
      PROVE  Untouched \/ Written(w)
  BY <1>1 DEF SaveInitiated, SaveAccount, SaveFailed, Saved, Reply, Silent, Untouched, Written
<1>2. ASSUME NEW u \in Users, NEW id \in 1 .. MaxIds, DeleteAccount(u, id)
      PROVE  Removed
  BY <1>2 DEF DeleteAccount, Removed, Silent
<1>3. ASSUME NEW w \in Workers,
             \/ CreateLink(w) \/ ReadAccount(w) \/ VerifyConnection(w) \/ ResolveConnection(w)
             \/ DropPending(w) \/ ClientLeaves(w) \/ Crash(w)
      PROVE  Untouched
  BY <1>3 DEF CreateLink, ReadAccount, VerifyConnection, ResolveConnection, DropPending,
              ClientLeaves, Crash, Untouched, storeVars
<1>4. ASSUME NEW w \in Workers,
             \/ \E u \in Users, p \in Platforms, s \in States : InitiateOAuth(w, u, p, s)
             \/ \E s \in States : HandleComposioCallback(w, s)
             \/ \E k \in Keys : GetActiveToken(w, k)
      PROVE  Untouched
  <2>1. CASE \E u \in Users, p \in Platforms, s \in States : InitiateOAuth(w, u, p, s)
    BY <2>1 DEF InitiateOAuth, Untouched
  <2>2. CASE \E s \in States : HandleComposioCallback(w, s)
    BY <2>2 DEF HandleComposioCallback, Untouched, storeVars
  <2>3. CASE \E k \in Keys : GetActiveToken(w, k)
    BY <2>3 DEF GetActiveToken, Untouched, storeVars
  <2>4. QED
    BY <1>4, <2>1, <2>2, <2>3
<1>5. CASE \/ \E c \in Conns, stage \in {"ACTIVE", "FAILED"} : Authorize(c, stage)
           \/ \E c \in Conns : Close(c)
           \/ ClockTick \/ UNCHANGED vars
  BY <1>5 DEF Authorize, Close, ClockTick, Tick, vars, storeVars, Untouched
<1>6. QED
  BY <1>1, <1>2, <1>3, <1>4, <1>5 DEF Next, HandlerStep

LEMMA AccountIdsNext == IInv /\ Ids /\ [Next]_vars => Ids'
<1> SUFFICES ASSUME IInv, Ids, [Next]_vars PROVE Ids'
  OBVIOUS
<1>1. CASE Untouched
  BY <1>1 DEF Untouched, Ids
<1>2. CASE Removed
  BY <1>2, DeleteIds DEF Removed
<1>3. ASSUME NEW w \in Workers, Written(w)
      PROVE  Ids'
  <2>1. /\ h[w].key \in Keys /\ h[w].acct \in Account(Conns)
        /\ StoreTypeOK(Conns) /\ Null \notin Account(Conns)
    BY <1>3, ComposioAssumption DEF Written, IInv, TypeOK, HandlerOK, Carrying, Good
  <2>2. QED
    BY <1>3, <2>1, UpsertIds DEF Written
<1>4. QED
  BY <1>1, <1>2, <1>3, StepAccounts

(* What the mapping makes of rows. *)
LEMMA StoredIs ==
    ASSUME IInv, NEW k \in Keys
    PROVE  /\ Stored[k] = Null <=> rows[k] = Null
           /\ rows[k] # Null => Stored[k].id = rows[k].id
<1>1. CASE rows[k] = Null
  BY <1>1 DEF Stored
<1>2. CASE rows[k] # Null
  <2>1. rows[k].id \in Nat /\ rows[k].at \in Conns
    BY <1>2 DEF IInv, RowsOK, Good, Account
  <2>2. IsActive(rows[k]) \in BOOLEAN
    BY DEF IsActive
  <2>3. Stored[k] = [id |-> rows[k].id, ready |-> IsActive(rows[k]), secret |-> rows[k].at]
    BY <1>2 DEF Stored
  <2>4. Stored[k] \in [id : Nat, ready : BOOLEAN, secret : Conns]
    BY <2>1, <2>2, <2>3
  <2>5. QED
    BY <1>2, <2>3, <2>4, ComposioAssumption
<1>3. QED
  BY <1>1, <1>2

(* What a row or a copy holds came up for the user whose it is, and was     *)
(* granted if it is active.                                                 *)
LEMMA GrantedTo ==
    ASSUME NEW k \in Keys, NEW a, Good(conns, k, a)
    PROVE  /\ a.at \in Conns /\ <<k, a.at>> \in Offered
           /\ IsActive(a) => <<k, a.at>> \in Granted
BY DEF Good, Offered, Granted, Authorized

LEMMA WriteStep ==
    ASSUME IInv, NEW w \in Workers, Written(w)
    PROVE  C!Next
<1> DEFINE k == h[w].key
           a == h[w].acct
<1>1. /\ k \in Keys /\ Good(conns, k, a) /\ a \in Account(Conns)
      /\ StoreTypeOK(Conns) /\ Null \notin Account(Conns)
      /\ rows \in [Keys -> Account(Conns) \cup {Null}]
  BY ComposioAssumption DEF Written, IInv, TypeOK, StoreTypeOK, HandlerOK, Carrying, Good
<1>2. PICK b \in Account(Conns) :
          /\ b # Null /\ rows' = [rows EXCEPT ![k] = b]
          /\ b.id = IF rows[k] = Null THEN nextId ELSE rows[k].id
          /\ b.status = a.status /\ b.at = a.at
          /\ nextId' = IF rows[k] = Null THEN nextId + 1 ELSE nextId
  BY <1>1, Upserting DEF Written
<1>3. /\ b.at \in Conns
      /\ <<k, b.at>> \in IF IsActive(b) THEN Granted ELSE Offered
  BY <1>1, <1>2, GrantedTo DEF IsActive
<1>4. Stored' = [Stored EXCEPT ![k] = [id |-> IF @ = Null THEN nextId ELSE @.id,
                                       ready |-> IsActive(b), secret |-> b.at]]
  <2> DEFINE new == [id |-> b.id, ready |-> IsActive(b), secret |-> b.at]
  <2>1. Stored' = [Stored EXCEPT ![k] = new]
    BY <1>1, <1>2 DEF Stored, IsActive
  <2>2. b.id = IF Stored[k] = Null THEN nextId ELSE Stored[k].id
    BY <1>1, <1>2, StoredIs
  <2>3. QED
    BY <2>1, <2>2
<1>5. nextId' = IF Stored[k] = Null THEN nextId + 1 ELSE nextId
  BY <1>1, <1>2, StoredIs
<1>6. UNCHANGED <<Offered, Granted>> /\ Handed' = Null
  BY DEF Written, Offered, Granted, Authorized, Handed
<1>7. C!Keep(k, b.at, IsActive(b)) /\ IsActive(b) \in BOOLEAN
  BY <1>3, <1>4, <1>5, <1>6 DEF C!Keep, C!Put, IsActive
<1>8. QED
  BY <1>1, <1>3, <1>7 DEF C!Next, C!Keys, Keys

LEMMA RemoveStep ==
    ASSUME IInv, Ids, Removed
    PROVE  C!Next
<1>1. /\ StoreTypeOK(Conns) /\ rows \in [Keys -> Account(Conns) \cup {Null}]
      /\ UNCHANGED <<Offered, Granted, nextId>> /\ Handed' = Null
  BY DEF IInv, TypeOK, StoreTypeOK, Removed, Offered, Granted, Authorized, Handed
<1>2. CASE rows' = rows
  <2>1. Stored' = Stored
    BY <1>2 DEF Stored, IsActive
  <2>2. QED
    BY <1>1, <2>1 DEF C!Next, C!Rest
<1>3. ASSUME NEW k \in Keys, rows[k] # Null, rows' = [rows EXCEPT ![k] = Null]
      PROVE  C!Next
  <2>1. Stored' = [Stored EXCEPT ![k] = Null]
    BY <1>1, <1>3 DEF Stored, IsActive
  <2>2. Stored[k] # Null
    BY <1>3, StoredIs
  <2>3. C!Remove(k)
    BY <1>1, <2>1, <2>2 DEF C!Remove
  <2>4. QED
    BY <2>3 DEF C!Next, C!Keys, Keys
<1>4. QED
  BY <1>1, <1>2, <1>3, Deleting DEF Removed

(* The steps that leave the accounts alone. *)
LEMMA RestStep ==
    ASSUME Untouched, UNCHANGED <<Offered, Granted>>, Handed' = Null
    PROVE  C!Next
<1>1. Stored' = Stored
  BY DEF Untouched, Stored, IsActive
<1>2. QED
  BY <1>1 DEF Untouched, C!Next, C!Rest

LEMMA QuietStep ==
    ASSUME Untouched, UNCHANGED conns, answer' = Null \/ answer'.kind = "connected"
    PROVE  C!Next
<1>1. UNCHANGED <<Offered, Granted>> /\ Handed' = Null
  BY DEF Offered, Granted, Authorized, Handed
<1>2. QED
  BY <1>1, RestStep

LEMMA CreatedStep ==
    ASSUME IInv, Untouched, NEW c \in Conns, NEW k \in Keys, Created(c, k), answer' = Null
    PROVE  C!Next
<1>1. \A d \in Conns : IF d = c
                       THEN /\ conns[d].stage = "none"
                            /\ conns'[d].stage = "INITIATED" /\ conns'[d].key = k
                       ELSE conns'[d] = conns[d]
  BY DEF Created, IInv, TypeOK
<1>2. Offered' = Offered \cup {<<k, c>>}
  BY <1>1 DEF Offered
<1>3. Granted' = Granted
  BY <1>1 DEF Granted, Offered, Authorized
<1>4. Stored' = Stored /\ UNCHANGED nextId /\ Handed' = Null
  BY DEF Untouched, Stored, IsActive, Handed
<1>5. C!Offer(k, c)
  BY <1>2, <1>3, <1>4 DEF C!Offer
<1>6. QED
  BY <1>5 DEF C!Next, C!Keys, Keys

LEMMA AuthorizeStep ==
    ASSUME IInv, Untouched, NEW c \in Conns, NEW stage \in {"ACTIVE", "FAILED"},
           Authorize(c, stage)
    PROVE  C!Next
<1> DEFINE k == conns[c].key
<1>1. \A d \in Conns : IF d = c
                       THEN /\ conns[d].stage = "INITIATED"
                            /\ conns'[d].stage = stage /\ conns'[d].key = k
                       ELSE conns'[d] = conns[d]
  BY DEF Authorize, IInv, TypeOK
<1>2. Offered' = Offered
  BY <1>1 DEF Offered
<1>3. Stored' = Stored /\ UNCHANGED nextId /\ Handed' = Null
  BY DEF Untouched, Authorize, Silent, Stored, IsActive, Handed
<1>4. CASE stage = "ACTIVE" /\ k \in Keys
  <2>1. <<k, c>> \in Offered /\ Granted' = Granted \cup {<<k, c>>}
    BY <1>1, <1>2, <1>4 DEF Granted, Offered, Authorized
  <2>2. C!Grant(k, c)
    BY <1>2, <1>3, <2>1 DEF C!Grant
  <2>3. QED
    BY <1>4, <2>2 DEF C!Next, C!Keys, Keys
<1>5. CASE stage = "FAILED" \/ k \notin Keys
  <2>1. Granted' = Granted
    BY <1>1, <1>2, <1>5 DEF Granted, Offered, Authorized
  <2>2. QED
    BY <1>2, <1>3, <2>1, RestStep
<1>6. QED
  BY <1>4, <1>5

LEMMA HandStep ==
    ASSUME IInv, NEW w \in Workers, NEW k \in Keys, GetActiveToken(w, k)
    PROVE  C!Next
<1>1. Untouched /\ UNCHANGED conns
  BY DEF GetActiveToken, Untouched, storeVars
<1>2. CASE answer' = Null
  BY <1>1, <1>2, QuietStep
<1>3. CASE /\ rows[k] # Null /\ IsActive(rows[k]) /\ answer' # Null
           /\ answer' = [kind |-> "token", key |-> k, state |-> Null,
                         status |-> rows[k].status, token |-> rows[k].at]
  <2>1. rows[k].at \in Conns /\ <<k, rows[k].at>> \in Granted
    BY <1>3, GrantedTo DEF IInv, RowsOK
  <2>2. UNCHANGED <<Offered, Granted>> /\ Stored' = Stored
    BY <1>1 DEF Untouched, Offered, Granted, Authorized, Stored, IsActive
  <2>3. Handed' = <<k, rows[k].at>>
    BY <1>3 DEF Handed
  <2>4. C!Hand(k, rows[k].at)
    BY <1>1, <2>1, <2>2, <2>3 DEF C!Hand, Untouched
  <2>5. QED
    BY <2>1, <2>4 DEF C!Next, C!Keys, Keys
<1>4. QED
  BY <1>2, <1>3 DEF GetActiveToken, Reply

LEMMA UntouchedStep ==
    ASSUME IInv, Untouched, Next
    PROVE  C!Next
<1>1. ASSUME NEW w \in Workers, CreateLink(w)
      PROVE  C!Next
  <2>1. h[w].key \in Keys /\ answer' = Null
    BY <1>1 DEF CreateLink, IInv, HandlerOK, Reply, Silent
  <2>2. QED
    BY <1>1, <2>1, CreatedStep, QuietStep DEF CreateLink
<1>2. ASSUME NEW c \in Conns, Close(c)
      PROVE  C!Next
  <2>1. conns' = [conns EXCEPT ![c].stage = "EXPIRED"] /\ conns[c].stage = "ACTIVE" /\ answer' = Null
    BY <1>2 DEF Close, Silent
  <2>2. UNCHANGED <<Offered, Granted>> /\ Handed' = Null
    BY <2>1 DEF IInv, TypeOK, Offered, Granted, Authorized, Handed
  <2>3. QED
    BY <2>2, RestStep
<1>3. ASSUME NEW w \in Workers,
             \/ SaveInitiated(w) \/ ReadAccount(w) \/ VerifyConnection(w)
             \/ ResolveConnection(w) \/ SaveAccount(w) \/ DropPending(w) \/ SaveFailed(w)
      PROVE  C!Next
  <2>1. UNCHANGED conns
    BY <1>3 DEF SaveInitiated, ReadAccount, VerifyConnection, ResolveConnection, SaveAccount,
                DropPending, SaveFailed
  <2>2. answer' = Null \/ answer'.kind = "connected"
    <3>1. CASE DropPending(w)
      BY <3>1 DEF DropPending, Reply
    <3>2. CASE SaveInitiated(w) \/ SaveAccount(w) \/ SaveFailed(w)
      BY <3>2 DEF SaveInitiated, SaveAccount, SaveFailed, Reply, Silent
    <3>3. CASE ReadAccount(w) \/ VerifyConnection(w) \/ ResolveConnection(w)
      BY <3>3 DEF ReadAccount, VerifyConnection, ResolveConnection, Reply, Silent
    <3>4. QED
      BY <1>3, <3>1, <3>2, <3>3
  <2>3. QED
    BY <2>1, <2>2, QuietStep
<1>4. ASSUME NEW w \in Workers,
             \/ ClientLeaves(w) \/ Crash(w)
             \/ \E s \in States : HandleComposioCallback(w, s)
             \/ \E u \in Users, p \in Platforms, s \in States : InitiateOAuth(w, u, p, s)
      PROVE  C!Next
  <2>1. CASE ClientLeaves(w) \/ Crash(w)
    BY <2>1, QuietStep DEF ClientLeaves, Leave, Crash, Die, Reply, Silent
  <2>2. ASSUME NEW s \in States, HandleComposioCallback(w, s)
        PROVE  C!Next
    BY <2>2, QuietStep DEF HandleComposioCallback, Reply, Silent
  <2>3. ASSUME NEW u \in Users, NEW p \in Platforms, NEW s \in States, InitiateOAuth(w, u, p, s)
        PROVE  C!Next
    BY <2>3, QuietStep DEF InitiateOAuth, Silent
  <2>4. QED
    BY <1>4, <2>1, <2>2, <2>3
<1>5. ASSUME ClockTick \/ \E u \in Users, id \in 1 .. MaxIds : DeleteAccount(u, id)
      PROVE  C!Next
  BY <1>5, QuietStep DEF DeleteAccount, ClockTick, Silent
<1>6. QED
  BY <1>1, <1>2, <1>3, <1>4, <1>5, AuthorizeStep, HandStep DEF Next, HandlerStep

(* The Composio flow implements Connections: whatever links, callbacks and  *)
(* deletions overlap, fail or die, an account becomes ready only with a     *)
(* connection that its user has authorized, and keeps its id as long as it  *)
(* is there (initiateComposioAuth, HandleComposioCallback, DeleteAccount,   *)
(* manager.go).                                                             *)
THEOREM LinksKeepConnections == Spec => ConnectionsKept
<1>1. Init => Ids
  BY IdsInit DEF Init
<1>2. Init => C!Init
  <2> SUFFICES ASSUME Init PROVE C!Init
    OBVIOUS
  <2>1. Offered = {} /\ Granted = {} /\ Handed = Null /\ nextId = 1
    BY DEF Init, StoreInit, RequestsInit, Offered, Granted, Handed
  <2>2. Stored = [k \in Keys |-> Null]
    BY DEF Init, StoreInit, Stored
  <2>3. QED
    BY <2>1, <2>2 DEF C!Init, C!Keys, Keys
<1>3. IInv /\ Ids /\ [Next]_vars => [C!Next]_(C!vars)
  <2> SUFFICES ASSUME IInv, Ids, [Next]_vars PROVE C!Next \/ UNCHANGED C!vars
    OBVIOUS
  <2>1. CASE UNCHANGED vars
    BY <2>1 DEF vars, storeVars, requestVars, C!vars, Offered, Granted, Authorized, Stored,
                Handed, IsActive
  <2>2. CASE Next
    BY <2>2, UntouchedStep, RemoveStep, WriteStep, StepAccounts
  <2>3. QED
    BY <2>1, <2>2
<1>4. QED
  BY <1>1, <1>2, <1>3, InitIInv, NextIInv, AccountIdsNext, PTL DEF Spec, ConnectionsKept, C!Spec
=============================================================================
