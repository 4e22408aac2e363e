-------------------------- MODULE CredentialsProofs ---------------------------
(***************************************************************************)
(* Theorems about CredentialsFlow, for every value of its constants.       *)
(***************************************************************************)
EXTENDS CredentialsFlow, StoreProofs

-----------------------------------------------------------------------------
(* The inductive invariant: what a link, a handler and a row vouch for,     *)
(* relative to the links drawn (u), the submissions (g) and the mail        *)
(* servers' verdicts (m).                                                   *)

Vouched(k, c, g, m) == c \in Creds /\ m[c] # "bad" /\ <<k, c>> \in g

HandlerOK(x, u, g, m) ==
    /\ x.pc # "idle" => x.key \in Keys /\ x.code \in Creds /\ <<x.key, x.code>> \in g
    /\ x.pc = "complete" => x.state \in States /\ x.key = u[x.state]
    /\ x.pc \in {"saveAccount", "dropPending"} => m[x.code] # "bad"
    /\ x.pc = "saveAccount" =>
          x.acct \in Account(Sealed) /\ x.acct.at \in Sealed /\ x.acct.at.creds = x.code

RowOK(k, r, g, m) == r # Null => r.at \in Sealed /\ Vouched(k, r.at.creds, g, m)

AnswerOK(a, g, m) == a # Null => Vouched(a.key, a.creds, g, m)

LinksOK == \A s \in States : pendings[s] # Null => pendings[s].key = urls[s]

(* Requests are under way only where smtp_email is registered. *)
ServingOK == \A w \in Workers : h[w].pc # "idle" => encKey \in EncKeys

Verified ==
    /\ LinksOK
    /\ ServingOK
    /\ \A w \in Workers : HandlerOK(h[w], urls, given, mail)
    /\ \A k \in Keys : RowOK(k, rows[k], given, mail)
    /\ AnswerOK(answer, given, mail)

CInv == TypeOK /\ Verified

LEMMA CInit == Init => CInv
BY StoreAssumption, CredentialsAssumption
DEF Init, StoreInit, RequestsInit, CInv, Verified, LinksOK, ServingOK, HandlerOK, RowOK,
    AnswerOK, TypeOK, StoreTypeOK, Handler, Pc, Idle

-----------------------------------------------------------------------------
(* What is vouched for stays so: links keep their owner, submissions are    *)
(* not forgotten, and no mail server takes its verdict "bad" on a password  *)
(* for a good one later, or the reverse.                                    *)

Grows ==
    /\ \A s \in States : urls[s] # Null => urls'[s] = urls[s]
    /\ given \subseteq given'
    /\ \A c \in Creds : mail[c] # "bad" => mail'[c] # "bad"

LEMMA StepGrows == TypeOK /\ [Next]_vars => Grows
BY DEF TypeOK, Next, vars, storeVars, requestVars, flowVars, Grows, InitiateCredentialsAuth,
       HandleCredentialsPage, CompleteCredentials, HandleConnectCredentials,
       ValidateCredentials, SaveCredentials, DropPending, GetActiveToken, Withdraw,
       DeleteAccount, Redeploy, ClientLeaves, Crash, ClockTick

LEMMA HandlerStays ==
    ASSUME NEW x, HandlerOK(x, urls, given, mail), Grows, Null \notin Keys
    PROVE  HandlerOK(x, urls', given', mail')
BY DEF HandlerOK, Grows

LEMMA RowStays ==
    ASSUME NEW k, NEW r, RowOK(k, r, given, mail), Grows
    PROVE  RowOK(k, r, given', mail')
BY DEF RowOK, Vouched, Grows, Sealed

(* An upsert keeps the tables typed, and the row it writes has the token of *)
(* the caller's copy.                                                       *)
LEMMA Upserted ==
    ASSUME StoreTypeOK(Sealed), NEW k \in Keys, NEW a \in Account(Sealed),
           UpsertConnectedAccount(k, a), UNCHANGED <<pendings, now>>
    PROVE  /\ StoreTypeOK(Sealed)'
           /\ rows'[k] # Null => rows'[k].at = a.at
           /\ \A j \in Keys \ {k} : rows'[j] = rows[j]
<1>1. nextId' \in Nat
  BY DEF UpsertConnectedAccount, StoreTypeOK
<1>2. ASSUME NEW i \in Nat
      PROVE  [a EXCEPT !.id = i] \in Account(Sealed) /\ [a EXCEPT !.id = i].at = a.at
  BY <1>2 DEF Account
<1>3. CASE rows[k] = Null
  BY <1>1, <1>2, <1>3 DEF UpsertConnectedAccount, StoreTypeOK
<1>4. CASE rows[k] # Null
  <2>1. rows[k].id \in Nat
    BY <1>4 DEF StoreTypeOK, Account
  <2>2. QED
    BY <1>1, <1>2, <1>4, <2>1 DEF UpsertConnectedAccount, StoreTypeOK
<1>5. QED
  BY <1>3, <1>4

(* A write of a validated account, whatever its outcome. *)
LEMMA SavedOK ==
    ASSUME CInv, Grows, NEW w \in Workers, h[w].pc = "saveAccount",
           NEW ok \in BOOLEAN, Saved(w, ok), UNCHANGED <<pendings, now>>
    PROVE  /\ StoreTypeOK(Sealed)' /\ faults' \in Nat
           /\ \A k \in Keys : RowOK(k, rows'[k], given', mail')
<1> DEFINE a == h[w].acct
           k == h[w].key
<1>1. HandlerOK(h[w], urls', given', mail')
  BY HandlerStays, StoreAssumption DEF CInv, Verified
<1>2. k \in Keys /\ a \in Account(Sealed) /\ RowOK(k, a, given', mail')
  BY <1>1 DEF HandlerOK, RowOK, Vouched
<1>3. StoreTypeOK(Sealed) /\ faults' \in Nat
  BY DEF CInv, TypeOK, Saved, Interrupted
<1>4. \A j \in Keys : RowOK(j, rows[j], given', mail')
  BY RowStays DEF CInv, Verified
<1>5. CASE UpsertConnectedAccount(k, a)
  <2>1. /\ StoreTypeOK(Sealed)'
        /\ rows'[k] # Null => rows'[k].at = a.at
        /\ \A j \in Keys \ {k} : rows'[j] = rows[j]
    BY <1>2, <1>3, <1>5, Upserted
  <2>2. a # Null
    BY <1>2, CredentialsAssumption
  <2>3. QED
    BY <1>2, <1>3, <1>4, <2>1, <2>2 DEF RowOK
<1>6. CASE UNCHANGED <<rows, nextId>>
  BY <1>3, <1>4, <1>6 DEF StoreTypeOK
<1>7. QED
  BY <1>5, <1>6 DEF Saved
-----------------------------------------------------------------------------
(* What a step owes of the handlers. *)

HandlersOK ==
    /\ h \in [Workers -> Handler]
    /\ ServingOK
    /\ \A w \in Workers : HandlerOK(h[w], urls, given, mail)

LEMMA OneHandler ==
    ASSUME CInv, Grows, NEW w \in Workers, NEW x \in Handler,
           HandlerOK(x, urls', given', mail'), x.pc # "idle" => encKey \in EncKeys,
           h' = [h EXCEPT ![w] = x], UNCHANGED encKey
    PROVE  HandlersOK'
<1>1. \A v \in Workers : HandlerOK(h[v], urls', given', mail')
  BY HandlerStays, StoreAssumption DEF CInv, Verified
<1>2. \A v \in Workers : h'[v] = IF v = w THEN x ELSE h[v]
  BY DEF CInv, TypeOK
<1>3. h' \in [Workers -> Handler]
  BY DEF CInv, TypeOK
<1>4. \A v \in Workers : HandlerOK(h'[v], urls', given', mail')
  BY <1>1, <1>2
<1>5. ServingOK'
  BY <1>2 DEF CInv, Verified, ServingOK
<1>6. QED
  BY <1>3, <1>4, <1>5 DEF HandlersOK

LEMMA SameHandlers ==
    ASSUME CInv, Grows, UNCHANGED <<h, encKey>>
    PROVE  HandlersOK'
<1>1. \A v \in Workers : HandlerOK(h[v], urls', given', mail')
  BY HandlerStays, StoreAssumption DEF CInv, Verified
<1>2. QED
  BY <1>1 DEF CInv, TypeOK, Verified, ServingOK, HandlersOK

LEMMA IdleOK == Idle \in Handler /\ HandlerOK(Idle, urls', given', mail')
BY DEF Idle, Handler, Pc, HandlerOK

LEMMA Replied ==
    ASSUME CInv, Grows, NEW w \in Workers, NEW a, Reply(w, a), UNCHANGED encKey
    PROVE  HandlersOK' /\ answer' = a
<1>1. Idle.pc = "idle"
  BY DEF Idle
<1>2. QED
  BY <1>1, IdleOK, OneHandler DEF Reply

LEMMA Proceeded ==
    ASSUME CInv, Grows, NEW w \in Workers, NEW pc \in Pc, NEW a \in Account(Sealed) \cup {Null},
           HandlerOK([h[w] EXCEPT !.pc = pc, !.acct = a], urls', given', mail'),
           h[w].pc # "idle", Proceed(w, pc, a), UNCHANGED encKey
    PROVE  HandlersOK'
<1> DEFINE x == [h[w] EXCEPT !.pc = pc, !.acct = a]
<1>1. x \in Handler /\ encKey \in EncKeys
  BY DEF CInv, TypeOK, Verified, ServingOK, Handler
<1>2. h' = [h EXCEPT ![w] = x]
  BY DEF Proceed
<1>3. QED
  BY <1>1, <1>2, OneHandler

(* Rows and links that a step leaves alone. *)
LEMMA SameRows ==
    ASSUME CInv, Grows, UNCHANGED rows
    PROVE  \A k \in Keys : RowOK(k, rows'[k], given', mail')
BY RowStays DEF CInv, Verified

LEMMA SameLinks ==
    ASSUME CInv, Grows,
           \A s \in States : pendings'[s] # Null => pendings'[s] = pendings[s]
    PROVE  LinksOK'
<1> SUFFICES ASSUME NEW s \in States, pendings'[s] # Null
             PROVE  pendings'[s].key = urls'[s]
  BY DEF LinksOK
<1>1. pendings[s] = pendings'[s] /\ pendings[s] \in PendingAuth
  BY DEF CInv, TypeOK, StoreTypeOK
<1>2. pendings[s].key \in Keys /\ pendings[s].key = urls[s]
  BY <1>1 DEF CInv, Verified, LinksOK, PendingAuth
<1>3. QED
  BY <1>1, <1>2, StoreAssumption DEF Grows

LEMMA Assembled ==
    ASSUME StoreTypeOK(Sealed)', urls' \in [States -> Keys \cup {Null}],
           mail' \in [Creds -> {"good", "bad", "withdrawn"}], given' \subseteq Keys \X Creds,
           encKey' \in EncKeys \cup {Null}, deploys' \in Nat, faults' \in Nat,
           HandlersOK', LinksOK', \A k \in Keys : RowOK(k, rows'[k], given', mail'),
           answer' \in Answer \cup {Null}, AnswerOK(answer', given', mail')
    PROVE  CInv'
BY DEF CInv, TypeOK, Verified, HandlersOK
-----------------------------------------------------------------------------
LEMMA CNext == CInv /\ [Next]_vars => CInv'
<1> SUFFICES ASSUME CInv, [Next]_vars PROVE CInv'
  OBVIOUS
<1> USE DEF CInv
<1>g. Grows
  BY StepGrows
<1>t. /\ TypeOK /\ Verified /\ StoreTypeOK(Sealed)
      /\ AnswerOK(Null, given', mail')
  BY DEF TypeOK, AnswerOK
<1>1. ASSUME NEW u \in Users, NEW p \in Platforms, NEW s \in States,
             InitiateCredentialsAuth(u, p, s)
      PROVE  CInv'
  <2>1. <<u, p>> \in Keys
    BY DEF Keys
  <2>2. StoreTypeOK(Sealed)' /\ urls' \in [States -> Keys \cup {Null}]
    BY <1>1, <2>1, StoreAssumption
    DEF InitiateCredentialsAuth, SavePendingAuth, TypeOK, StoreTypeOK, PendingAuth
  <2>3. LinksOK'
    BY <1>1 DEF InitiateCredentialsAuth, SavePendingAuth, TypeOK, StoreTypeOK, Verified, LinksOK
  <2>4. HandlersOK'
    BY <1>1, <1>g, SameHandlers DEF InitiateCredentialsAuth
  <2>5. \A k \in Keys : RowOK(k, rows'[k], given', mail')
    BY <1>1, <1>g, SameRows DEF InitiateCredentialsAuth
  <2>6. QED
    BY <1>1, <1>t, <2>2, <2>3, <2>4, <2>5, Assembled
    DEF InitiateCredentialsAuth, Silent, TypeOK
<1>2. ASSUME NEW w \in Workers, NEW s \in States, NEW p \in Platforms, NEW c \in Creds,
             HandleCredentialsPage(w, s, p, c)
      PROVE  CInv'
  <2> DEFINE x == [h[w] EXCEPT !.pc = "complete", !.state = s, !.code = c,
                               !.key = GetPendingAuth(s).key]
  <2>1. urls[s] \in Keys /\ given' \subseteq Keys \X Creds
    BY <1>2 DEF HandleCredentialsPage, TypeOK
  <2>2. HandlersOK' /\ answer' = Null
    <3>1. CASE Reply(w, Null)
      BY <1>2, <1>g, <3>1, Replied DEF HandleCredentialsPage
    <3>2. CASE PendingCredentials(s, p) /\ Silent /\ h' = [h EXCEPT ![w] = x]
      <4>1. encKey \in EncKeys /\ GetPendingAuth(s).key = urls[s]
        BY <3>2 DEF PendingCredentials, Registered, LinkUsable, GetPendingAuth, TypeOK,
                    Verified, LinksOK
      <4>2. x \in Handler
        BY <2>1, <4>1 DEF TypeOK, Handler, Pc
      <4>3. /\ x.pc = "complete" /\ x.state = s /\ x.code = c /\ x.key = urls[s]
            /\ <<urls[s], c>> \in given' /\ urls'[s] = urls[s]
        BY <1>2, <4>1 DEF HandleCredentialsPage, TypeOK, Handler
      <4> HIDE DEF x
      <4>4. HandlerOK(x, urls', given', mail')
        BY <2>1, <4>3 DEF HandlerOK
      <4>5. QED
        BY <1>2, <1>g, <3>2, <4>1, <4>2, <4>4, OneHandler DEF HandleCredentialsPage, Silent
    <3>3. QED
      BY <1>2, <3>1, <3>2 DEF HandleCredentialsPage
  <2>3. LinksOK' /\ \A k \in Keys : RowOK(k, rows'[k], given', mail')
    BY <1>2, <1>g, SameRows, SameLinks DEF HandleCredentialsPage, storeVars
  <2>4. QED
    BY <1>2, <1>t, <2>1, <2>2, <2>3, Assembled
    DEF HandleCredentialsPage, TypeOK, StoreTypeOK, storeVars
<1>3. ASSUME NEW w \in Workers, CompleteCredentials(w)
      PROVE  CInv'
  <2> DEFINE s == h[w].state
             x == [h[w] EXCEPT !.pc = "validate", !.key = GetPendingAuth(s).key]
  <2>1. HandlersOK' /\ answer' = Null
    <3>1. CASE Reply(w, Null)
      BY <1>3, <1>g, <3>1, Replied DEF CompleteCredentials, flowVars
    <3>2. CASE PendingCredentials(s, h[w].key[2]) /\ Silent /\ h' = [h EXCEPT ![w] = x]
      <4>1. /\ s \in States /\ h[w].key = urls[s] /\ h[w].key \in Keys
            /\ h[w].code \in Creds /\ <<h[w].key, h[w].code>> \in given
        BY <1>3 DEF CompleteCredentials, Verified, HandlerOK
      <4>2. encKey \in EncKeys /\ GetPendingAuth(s).key = urls[s]
        BY <3>2, <4>1 DEF PendingCredentials, Registered, LinkUsable, GetPendingAuth, TypeOK,
                          Verified, LinksOK
      <4>3. x \in Handler /\ x.pc = "validate" /\ x.key = h[w].key /\ x.code = h[w].code
        BY <4>1, <4>2 DEF TypeOK, Handler, Pc
      <4>4. UNCHANGED <<given, encKey>>
        BY <1>3 DEF CompleteCredentials, flowVars
      <4> HIDE DEF x
      <4>5. HandlerOK(x, urls', given', mail')
        BY <4>1, <4>3, <4>4 DEF HandlerOK
      <4>6. QED
        BY <1>g, <3>2, <4>2, <4>3, <4>4, <4>5, OneHandler DEF Silent
    <3>3. QED
      BY <1>3, <3>1, <3>2 DEF CompleteCredentials
  <2>2. LinksOK' /\ (\A k \in Keys : RowOK(k, rows'[k], given', mail')) /\ faults' \in Nat
    BY <1>3, <1>g, SameRows, SameLinks
    DEF CompleteCredentials, storeVars, Interrupted, TypeOK
  <2>3. QED
    BY <1>3, <1>t, <2>1, <2>2, Assembled
    DEF CompleteCredentials, TypeOK, StoreTypeOK, storeVars, flowVars
<1>4. ASSUME NEW w \in Workers, NEW k \in Keys, NEW c \in Creds,
             HandleConnectCredentials(w, k, c)
      PROVE  CInv'
  <2> DEFINE x == [h[w] EXCEPT !.pc = "validate", !.code = c, !.key = k]
  <2>1. HandlersOK' /\ answer' = Null
    <3>1. CASE Reply(w, Null)
      BY <1>4, <1>g, <3>1, Replied DEF HandleConnectCredentials
    <3>2. CASE Registered /\ Silent /\ h' = [h EXCEPT ![w] = x]
      <4>1. encKey \in EncKeys /\ x \in Handler /\ x.pc = "validate" /\ x.key = k
            /\ x.code = c /\ <<k, c>> \in given'
        BY <1>4, <3>2 DEF HandleConnectCredentials, Registered, TypeOK, Handler, Pc
      <4> HIDE DEF x
      <4>2. HandlerOK(x, urls', given', mail')
        BY <4>1 DEF HandlerOK
      <4>3. QED
        BY <1>4, <1>g, <3>2, <4>1, <4>2, OneHandler DEF HandleConnectCredentials, Silent
    <3>3. QED
      BY <1>4, <3>1, <3>2 DEF HandleConnectCredentials
  <2>2. LinksOK' /\ \A j \in Keys : RowOK(j, rows'[j], given', mail')
    BY <1>4, <1>g, SameRows, SameLinks DEF HandleConnectCredentials, storeVars
  <2>3. QED
    BY <1>4, <1>t, <2>1, <2>2, Assembled
    DEF HandleConnectCredentials, TypeOK, StoreTypeOK, storeVars
<1>5. ASSUME NEW w \in Workers, ValidateCredentials(w)
      PROVE  CInv'
  <2> DEFINE c == h[w].code
             a == EncryptedAccount(c)
             x == [h[w] EXCEPT !.pc = "saveAccount", !.acct = a]
  <2>1. UNCHANGED <<encKey, given, mail>> /\ h[w].pc = "validate"
    BY <1>5 DEF ValidateCredentials, flowVars
  <2>2. HandlersOK' /\ answer' = Null
    <3>1. CASE Reply(w, Null)
      BY <1>g, <2>1, <3>1, Replied
    <3>2. CASE mail[c] = "good" /\ Silent /\ Proceed(w, "saveAccount", a)
      <4>1. encKey \in EncKeys /\ h[w].key \in Keys /\ c \in Creds /\ <<h[w].key, c>> \in given
        BY <2>1 DEF Verified, ServingOK, HandlerOK
      <4>2. a \in Account(Sealed) /\ a.at \in Sealed /\ a.at.creds = c
        BY <4>1 DEF EncryptedAccount, Account, Sealed, Status
      <4>3. x.pc = "saveAccount" /\ x.acct = a /\ x.key = h[w].key /\ x.code = c
        BY DEF TypeOK, Handler
      <4> HIDE DEF a, x
      <4>4. HandlerOK(x, urls', given', mail')
        BY <2>1, <3>2, <4>1, <4>2, <4>3 DEF HandlerOK
      <4>5. HandlersOK'
        BY <1>g, <2>1, <3>2, <4>2, <4>4, Proceeded DEF x, Pc
      <4>6. QED
        BY <3>2, <4>5 DEF Silent
    <3>3. QED
      BY <1>5, <3>1, <3>2 DEF ValidateCredentials
  <2>3. LinksOK' /\ (\A k \in Keys : RowOK(k, rows'[k], given', mail')) /\ faults' \in Nat
    BY <1>5, <1>g, SameRows, SameLinks
    DEF ValidateCredentials, storeVars, Interrupted, TypeOK
  <2>4. QED
    BY <1>5, <1>t, <2>2, <2>3, Assembled
    DEF ValidateCredentials, TypeOK, StoreTypeOK, storeVars, flowVars
<1>6. ASSUME NEW w \in Workers, SaveCredentials(w)
      PROVE  CInv'
  <2>1. UNCHANGED <<encKey, given, mail, pendings, now>> /\ h[w].pc = "saveAccount"
    BY <1>6 DEF SaveCredentials, flowVars
  <2>2. h[w].key \in Keys /\ Vouched(h[w].key, h[w].code, given', mail')
    BY <2>1 DEF Verified, HandlerOK, Vouched
  <2>3. /\ StoreTypeOK(Sealed)' /\ faults' \in Nat
        /\ \A k \in Keys : RowOK(k, rows'[k], given', mail')
    BY <1>6, <1>g, <2>1, SavedOK DEF SaveCredentials
  <2>4. HandlersOK' /\ answer' \in Answer \cup {Null} /\ AnswerOK(answer', given', mail')
    <3>1. ASSUME NEW a \in {Null, Connected(w)}, Reply(w, a)
          PROVE  HandlersOK' /\ answer' = a
      BY <1>g, <2>1, <3>1, Replied
    <3>2. Connected(w) \in Answer /\ AnswerOK(Connected(w), given', mail')
      BY <2>2 DEF Connected, Answer, AnswerOK, Vouched
    <3>3. CASE h[w].state # Null /\ Proceed(w, "dropPending", Null) /\ Silent
      <4> DEFINE x == [h[w] EXCEPT !.pc = "dropPending", !.acct = Null]
      <4>1. x.pc = "dropPending" /\ x.key = h[w].key /\ x.code = h[w].code
        BY DEF TypeOK, Handler
      <4>2. h[w].code \in Creds /\ mail'[h[w].code] # "bad" /\ <<h[w].key, h[w].code>> \in given'
        BY <2>2 DEF Vouched
      <4> HIDE DEF x
      <4>3. HandlerOK(x, urls', given', mail')
        BY <2>2, <4>1, <4>2 DEF HandlerOK
      <4>4. HandlersOK'
        BY <1>g, <2>1, <3>3, <4>3, Proceeded DEF x, Pc
      <4>5. QED
        BY <1>t, <3>3, <4>4 DEF Silent
    <3>4. QED
      BY <1>6, <1>t, <3>1, <3>2, <3>3 DEF SaveCredentials
  <2>5. LinksOK'
    BY <1>g, <2>1, SameLinks
  <2>6. QED
    BY <1>6, <2>3, <2>4, <2>5, Assembled DEF SaveCredentials, TypeOK, flowVars
<1>7. ASSUME NEW w \in Workers, DropPending(w)
      PROVE  CInv'
  <2>1. UNCHANGED <<encKey, given, mail, rows, nextId, now>> /\ h[w].pc = "dropPending"
    BY <1>7 DEF DropPending, flowVars
  <2>2. h[w].key \in Keys /\ Vouched(h[w].key, h[w].code, given', mail')
    BY <2>1 DEF Verified, HandlerOK, Vouched
  <2>3. Connected(w) \in Answer /\ AnswerOK(Connected(w), given', mail')
    BY <2>2 DEF Connected, Answer, AnswerOK, Vouched
  <2>4. HandlersOK' /\ answer' = Connected(w)
    BY <1>7, <1>g, <2>1, Replied DEF DropPending
  <2>5. StoreTypeOK(Sealed)' /\ faults' \in Nat
    BY <1>7, <2>1 DEF DropPending, Dropped, Interrupted, DeletePendingAuth, TypeOK, StoreTypeOK
  <2>6. LinksOK'
    BY <1>7, <1>g, SameLinks DEF DropPending, Dropped, DeletePendingAuth, TypeOK, StoreTypeOK
  <2>7. \A k \in Keys : RowOK(k, rows'[k], given', mail')
    BY <1>g, <2>1, SameRows
  <2>8. QED
    BY <1>7, <2>3, <2>4, <2>5, <2>6, <2>7, Assembled DEF DropPending, TypeOK, flowVars
<1>8. ASSUME NEW w \in Workers, NEW k \in Keys, GetActiveToken(w, k)
      PROVE  CInv'
  <2> DEFINE a == [kind |-> "token", key |-> k, creds |-> rows[k].at.creds]
  <2>1. UNCHANGED <<encKey, given, mail, rows>>
    BY <1>8 DEF GetActiveToken, storeVars, flowVars
  <2>2. HandlersOK' /\ answer' \in Answer \cup {Null} /\ AnswerOK(answer', given', mail')
    <3>1. CASE Reply(w, Null)
      BY <1>g, <1>t, <2>1, <3>1, Replied
    <3>2. CASE rows[k] # Null /\ Reply(w, a)
      <4>1. Vouched(k, rows[k].at.creds, given', mail')
        BY <2>1, <3>2 DEF Verified, RowOK
      <4>2. a \in Answer /\ AnswerOK(a, given', mail')
        BY <4>1 DEF Answer, AnswerOK, Vouched
      <4>3. QED
        BY <1>g, <2>1, <3>2, <4>2, Replied
    <3>3. QED
      BY <1>8, <3>1, <3>2 DEF GetActiveToken
  <2>3. LinksOK' /\ \A j \in Keys : RowOK(j, rows'[j], given', mail')
    BY <1>8, <1>g, SameRows, SameLinks DEF GetActiveToken, storeVars
  <2>4. QED
    BY <1>8, <1>t, <2>2, <2>3, Assembled
    DEF GetActiveToken, TypeOK, StoreTypeOK, storeVars, flowVars
<1>9. ASSUME NEW c \in Creds, Withdraw(c)
      PROVE  CInv'
  <2>1. LinksOK' /\ (\A k \in Keys : RowOK(k, rows'[k], given', mail')) /\ HandlersOK'
    BY <1>9, <1>g, SameRows, SameLinks, SameHandlers DEF Withdraw, storeVars
  <2>2. mail' \in [Creds -> {"good", "bad", "withdrawn"}]
    BY <1>9 DEF Withdraw, TypeOK
  <2>3. QED
    BY <1>9, <1>t, <2>1, <2>2, Assembled DEF Withdraw, Silent, TypeOK, StoreTypeOK, storeVars
<1>10. ASSUME NEW u \in Users, NEW id \in 1 .. MaxIds, DeleteAccount(u, id)
       PROVE  CInv'
  <2>1. LinksOK' /\ HandlersOK'
    BY <1>10, <1>g, SameLinks, SameHandlers DEF DeleteAccount, flowVars
  <2>2. \A k \in Keys : rows'[k] = Null \/ rows'[k] = rows[k]
    BY <1>10 DEF DeleteAccount, DeleteConnectedAccount
  <2>3. \A k \in Keys : RowOK(k, rows'[k], given', mail')
    BY <1>g, <2>2, RowStays DEF Verified, RowOK
  <2>4. StoreTypeOK(Sealed)'
    BY <1>10 DEF DeleteAccount, DeleteConnectedAccount, TypeOK, StoreTypeOK
  <2>5. QED
    BY <1>10, <1>t, <2>1, <2>3, <2>4, Assembled DEF DeleteAccount, Silent, TypeOK, flowVars
<1>11. ASSUME NEW k \in EncKeys \cup {Null}, Redeploy(k)
       PROVE  CInv'
  <2>1. HandlersOK'
    BY <1>11, IdleOK DEF Redeploy, HandlersOK, ServingOK, Idle
  <2>2. LinksOK' /\ \A j \in Keys : RowOK(j, rows'[j], given', mail')
    BY <1>11, <1>g, SameRows, SameLinks DEF Redeploy, storeVars
  <2>3. QED
    BY <1>11, <1>t, <2>1, <2>2, Assembled DEF Redeploy, Silent, TypeOK, StoreTypeOK, storeVars
<1>12. ASSUME NEW w \in Workers, ClientLeaves(w)
       PROVE  CInv'
  <2> DEFINE x == [h[w] EXCEPT !.live = FALSE]
  <2>1. HandlersOK'
    <3>1. x \in Handler /\ x.pc # "idle" => encKey \in EncKeys
      BY DEF TypeOK, Handler, Verified, ServingOK
    <3>2. HandlerOK(h[w], urls', given', mail')
      BY <1>g, HandlerStays, StoreAssumption DEF Verified
    <3>3. /\ x.pc = h[w].pc /\ x.key = h[w].key /\ x.state = h[w].state
          /\ x.code = h[w].code /\ x.acct = h[w].acct /\ x \in Handler
      BY DEF TypeOK, Handler
    <3>4. h' = [h EXCEPT ![w] = x] /\ UNCHANGED encKey
      BY <1>12 DEF ClientLeaves, Leave, flowVars
    <3> HIDE DEF x
    <3>5. HandlerOK(x, urls', given', mail')
      BY <3>2, <3>3 DEF HandlerOK
    <3>6. QED
      BY <1>g, <3>1, <3>3, <3>4, <3>5, OneHandler
  <2>2. LinksOK' /\ (\A k \in Keys : RowOK(k, rows'[k], given', mail')) /\ faults' \in Nat
    BY <1>12, <1>g, SameRows, SameLinks DEF ClientLeaves, Leave, storeVars, TypeOK
  <2>3. QED
    BY <1>12, <1>t, <2>1, <2>2, Assembled
    DEF ClientLeaves, Leave, Silent, TypeOK, StoreTypeOK, storeVars, flowVars
<1>13. ASSUME NEW w \in Workers, Crash(w)
       PROVE  CInv'
  <2>1. HandlersOK' /\ answer' = Null
    BY <1>13, <1>g, Replied DEF Crash, Die, flowVars
  <2>2. LinksOK' /\ (\A k \in Keys : RowOK(k, rows'[k], given', mail')) /\ faults' \in Nat
    BY <1>13, <1>g, SameRows, SameLinks DEF Crash, Die, storeVars, TypeOK
  <2>3. QED
    BY <1>13, <1>t, <2>1, <2>2, Assembled
    DEF Crash, TypeOK, StoreTypeOK, storeVars, flowVars
<1>14. CASE ClockTick
  <2>1. LinksOK' /\ (\A k \in Keys : RowOK(k, rows'[k], given', mail')) /\ HandlersOK'
    BY <1>14, <1>g, SameRows, SameLinks, SameHandlers DEF ClockTick, Tick, flowVars
  <2>2. StoreTypeOK(Sealed)'
    BY <1>14 DEF ClockTick, Tick, TypeOK, StoreTypeOK
  <2>3. QED
    BY <1>14, <1>t, <2>1, <2>2, Assembled DEF ClockTick, Silent, TypeOK, flowVars
<1>15. CASE UNCHANGED vars
  BY <1>15 DEF vars, storeVars, requestVars, flowVars, TypeOK, StoreTypeOK, Verified,
               LinksOK, ServingOK
<1>16. QED
  BY <1>1, <1>2, <1>3, <1>4, <1>5, <1>6, <1>7, <1>8, <1>9, <1>10, <1>11, <1>12,
     <1>13, <1>14, <1>15 DEF Next

(* Every reachable state is well typed. *)
THEOREM CredentialsTypeCorrect == Spec => []TypeOK
<1>1. CInv => TypeOK
  BY DEF CInv
<1>2. QED
  BY CInit, CNext, <1>1, PTL DEF Spec

(* What is stored or handed to an execute under a (user, platform) was      *)
(* submitted for it and worked at the mail server, whatever submissions     *)
(* overlap, fail, or outlive a deployment.                                  *)
THEOREM StoredVerified == Spec => []StoredWereVerified
<1>1. CInv => StoredWereVerified
  BY DEF CInv, Verified, RowOK, AnswerOK, Vouched, StoredWereVerified
<1>2. QED
  BY CInit, CNext, <1>1, PTL DEF Spec

-----------------------------------------------------------------------------
(* What the steps do to the rows, and to one handler. *)

RowsStep ==
    \/ UNCHANGED <<rows, nextId>>
    \/ \E w \in Workers : /\ h[w].pc = "saveAccount" /\ UNCHANGED encKey
                          /\ UpsertConnectedAccount(h[w].key, h[w].acct)
    \/ \E u, id : /\ DeleteConnectedAccount(u, id) /\ UNCHANGED <<nextId, encKey>>

LEMMA StepRows == [Next]_vars => RowsStep
BY DEF RowsStep, Next, vars, storeVars, requestVars, flowVars, InitiateCredentialsAuth,
       HandleCredentialsPage, CompleteCredentials, HandleConnectCredentials,
       ValidateCredentials, SaveCredentials, Saved, DropPending, GetActiveToken, Withdraw,
       DeleteAccount, Redeploy, ClientLeaves, Crash, ClockTick, Tick

HandlerStep(x, y) ==
    \/ y = Idle
    \/ /\ y.pc = x.pc /\ y.key = x.key /\ y.state = x.state /\ y.acct = x.acct
       /\ UNCHANGED encKey
    \/ /\ x.pc = "idle" /\ y.pc = "complete"
       /\ y.state \in States /\ pendings[y.state] # Null /\ y.key = pendings[y.state].key
    \/ /\ x.pc = "complete" /\ y.pc = "validate" /\ y.state = x.state
       /\ pendings[x.state] # Null /\ y.key = pendings[x.state].key
    \/ x.pc = "idle" /\ y.pc = "validate" /\ y.state = x.state
    \/ /\ x.pc = "validate" /\ y.pc = "saveAccount" /\ y.state = x.state /\ y.key = x.key
       /\ y.acct.at.by = encKey /\ UNCHANGED encKey
    \/ /\ x.pc = "saveAccount" /\ y.pc = "dropPending" /\ y.state = x.state /\ y.key = x.key
       /\ x.state # Null /\ UpsertConnectedAccount(x.key, x.acct) /\ UNCHANGED encKey

LEMMA StepHandler ==
    ASSUME CInv, [Next]_vars, NEW v \in Workers
    PROVE  HandlerStep(h[v], h'[v])
<1>h. h \in [Workers -> Handler]
  BY DEF CInv, TypeOK
<1>r. ASSUME NEW w \in Workers, NEW a, Reply(w, a), UNCHANGED encKey
      PROVE  HandlerStep(h[v], h'[v])
  BY <1>h, <1>r DEF Reply, HandlerStep
<1>p. ASSUME NEW w \in Workers, NEW x \in Handler, h' = [h EXCEPT ![w] = x],
             HandlerStep(h[w], x), UNCHANGED encKey
      PROVE  HandlerStep(h[v], h'[v])
  BY <1>h, <1>p DEF HandlerStep
<1>s. ASSUME UNCHANGED <<h, encKey>>
      PROVE  HandlerStep(h[v], h'[v])
  BY <1>s DEF HandlerStep
<1>1. CASE \E u, p, s : InitiateCredentialsAuth(u, p, s)
  BY <1>1, <1>s DEF InitiateCredentialsAuth
<1>2. ASSUME NEW w \in Workers, NEW s \in States, NEW p, NEW c \in Creds,
             HandleCredentialsPage(w, s, p, c)
      PROVE  HandlerStep(h[v], h'[v])
  <2> DEFINE x == [h[w] EXCEPT !.pc = "complete", !.state = s,
                               !.code = c, !.key = GetPendingAuth(s).key]
  <2>1. CASE PendingCredentials(s, p) /\ h' = [h EXCEPT ![w] = x]
    <3>1. pendings[s] # Null /\ pendings[s].key \in Keys
      BY <2>1 DEF PendingCredentials, LinkUsable, GetPendingAuth, CInv, TypeOK, StoreTypeOK, PendingAuth
    <3>2. x \in Handler /\ x.pc = "complete" /\ x.state = s /\ x.key = pendings[s].key
      BY <1>h, <3>1 DEF Handler, Pc, GetPendingAuth
    <3>3. h[w].pc = "idle" /\ UNCHANGED encKey
      BY <1>2 DEF HandleCredentialsPage
    <3> HIDE DEF x
    <3>4. HandlerStep(h[w], x)
      BY <3>1, <3>2, <3>3 DEF HandlerStep
    <3>5. QED
      BY <1>p, <2>1, <3>2, <3>3, <3>4
  <2>2. CASE Reply(w, Null)
    BY <1>2, <1>r, <2>2 DEF HandleCredentialsPage
  <2>3. QED
    BY <1>2, <2>1, <2>2 DEF HandleCredentialsPage
<1>3. ASSUME NEW w \in Workers, CompleteCredentials(w)
      PROVE  HandlerStep(h[v], h'[v])
  <2> DEFINE s == h[w].state
             x == [h[w] EXCEPT !.pc = "validate", !.key = GetPendingAuth(s).key]
  <2>1. h[w].pc = "complete" /\ UNCHANGED encKey
    BY <1>3 DEF CompleteCredentials, flowVars
  <2>2. CASE PendingCredentials(s, h[w].key[2]) /\ h' = [h EXCEPT ![w] = x]
    <3>1. s \in States
      BY <2>1 DEF CInv, Verified, HandlerOK
    <3>2. pendings[s] # Null /\ pendings[s].key \in Keys
      BY <2>2, <3>1
      DEF PendingCredentials, LinkUsable, GetPendingAuth, CInv, TypeOK, StoreTypeOK, PendingAuth
    <3>3. x \in Handler /\ x.pc = "validate" /\ x.state = s /\ x.key = pendings[s].key
      BY <1>h, <3>2 DEF Handler, Pc, GetPendingAuth
    <3> HIDE DEF x
    <3>4. HandlerStep(h[w], x)
      BY <2>1, <3>2, <3>3 DEF HandlerStep
    <3>5. QED
      BY <1>p, <2>1, <2>2, <3>3, <3>4
  <2>3. CASE Reply(w, Null)
    BY <1>r, <2>1, <2>3
  <2>4. QED
    BY <1>3, <2>2, <2>3 DEF CompleteCredentials
<1>4. ASSUME NEW w \in Workers, NEW k \in Keys, NEW c \in Creds,
             HandleConnectCredentials(w, k, c)
      PROVE  HandlerStep(h[v], h'[v])
  <2> DEFINE x == [h[w] EXCEPT !.pc = "validate", !.code = c, !.key = k]
  <2>1. h[w].pc = "idle" /\ UNCHANGED encKey
    BY <1>4 DEF HandleConnectCredentials
  <2>2. CASE h' = [h EXCEPT ![w] = x]
    <3>1. x \in Handler /\ x.pc = "validate" /\ x.state = h[w].state
      BY <1>h DEF Handler, Pc
    <3> HIDE DEF x
    <3>2. HandlerStep(h[w], x)
      BY <2>1, <3>1 DEF HandlerStep
    <3>3. QED
      BY <1>p, <2>1, <2>2, <3>1, <3>2
  <2>3. CASE Reply(w, Null)
    BY <1>r, <2>1, <2>3
  <2>4. QED
    BY <1>4, <2>2, <2>3 DEF HandleConnectCredentials
<1>5. ASSUME NEW w \in Workers, ValidateCredentials(w)
      PROVE  HandlerStep(h[v], h'[v])
  <2> DEFINE a == EncryptedAccount(h[w].code)
             x == [h[w] EXCEPT !.pc = "saveAccount", !.acct = a]
  <2>1. h[w].pc = "validate" /\ UNCHANGED encKey
    BY <1>5 DEF ValidateCredentials, flowVars
  <2>2. CASE Proceed(w, "saveAccount", a)
    <3>1. encKey \in EncKeys /\ h[w].code \in Creds
      BY <2>1 DEF CInv, Verified, ServingOK, HandlerOK
    <3>2. a \in Account(Sealed) /\ a.at.by = encKey
      BY <3>1 DEF EncryptedAccount, Account, Sealed, Status
    <3> HIDE DEF a
    <3>3. /\ x \in Handler /\ x.pc = "saveAccount" /\ x.state = h[w].state
          /\ x.key = h[w].key /\ x.acct = a
      BY <1>h, <3>2 DEF Handler, Pc
    <3>4. h' = [h EXCEPT ![w] = x]
      BY <2>2 DEF Proceed
    <3> HIDE DEF x
    <3>5. HandlerStep(h[w], x)
      BY <2>1, <3>2, <3>3 DEF HandlerStep
    <3>6. QED
      BY <1>p, <2>1, <3>3, <3>4, <3>5
  <2>3. CASE Reply(w, Null)
    BY <1>r, <2>1, <2>3
  <2>4. QED
    BY <1>5, <2>2, <2>3 DEF ValidateCredentials
<1>6. ASSUME NEW w \in Workers, SaveCredentials(w)
      PROVE  HandlerStep(h[v], h'[v])
  <2> DEFINE x == [h[w] EXCEPT !.pc = "dropPending", !.acct = Null]
  <2>1. h[w].pc = "saveAccount" /\ UNCHANGED encKey
    BY <1>6 DEF SaveCredentials, flowVars
  <2>2. CASE Saved(w, TRUE) /\ h[w].state # Null /\ Proceed(w, "dropPending", Null)
    <3>1. UpsertConnectedAccount(h[w].key, h[w].acct)
      BY <2>2 DEF Saved
    <3>2. /\ x \in Handler /\ x.pc = "dropPending" /\ x.state = h[w].state
          /\ x.key = h[w].key
      BY <1>h DEF Handler, Pc
    <3>3. h' = [h EXCEPT ![w] = x]
      BY <2>2 DEF Proceed
    <3> HIDE DEF x
    <3>4. HandlerStep(h[w], x)
      BY <2>1, <2>2, <3>1, <3>2 DEF HandlerStep
    <3>5. QED
      BY <1>p, <2>1, <3>2, <3>3, <3>4
  <2>3. CASE \E a : Reply(w, a)
    BY <1>r, <2>1, <2>3
  <2>4. QED
    BY <1>6, <2>2, <2>3 DEF SaveCredentials
<1>7. CASE \E w \in Workers : DropPending(w) \/ Crash(w) \/ \E k \in Keys : GetActiveToken(w, k)
  BY <1>7, <1>r DEF DropPending, Crash, Die, GetActiveToken, flowVars
<1>8. CASE \E k : Redeploy(k)
  BY <1>8 DEF Redeploy, HandlerStep
<1>9. ASSUME NEW w \in Workers, ClientLeaves(w)
      PROVE  HandlerStep(h[v], h'[v])
  <2> DEFINE x == [h[w] EXCEPT !.live = FALSE]
  <2>1. /\ x \in Handler /\ x.pc = h[w].pc /\ x.state = h[w].state
        /\ x.key = h[w].key /\ x.acct = h[w].acct
    BY <1>h DEF Handler
  <2>2. h' = [h EXCEPT ![w] = x] /\ UNCHANGED encKey
    BY <1>9 DEF ClientLeaves, Leave, flowVars
  <2> HIDE DEF x
  <2>3. QED
    BY <1>p, <2>1, <2>2 DEF HandlerStep
<1>10. CASE (\E c : Withdraw(c)) \/ (\E u, id : DeleteAccount(u, id)) \/ ClockTick \/ UNCHANGED vars
  BY <1>10, <1>s DEF Withdraw, DeleteAccount, ClockTick, vars, requestVars, flowVars
<1>11. QED
  BY <1>1, <1>2, <1>3, <1>4, <1>5, <1>6, <1>7, <1>8, <1>9, <1>10 DEF Next

-----------------------------------------------------------------------------
(* ConnectedOpens.  What is about to be saved is sealed with the key of this *)
(* deployment, whose requests do not outlive it; so what is in the row from  *)
(* the save on, the own write or a later one, opens, unless it is deleted.   *)

Open(r, e) == r = Null \/ r.at.by = e

SealedNow(x) ==
    /\ x.pc = "saveAccount" => x.acct.at.by = encKey
    /\ x.pc = "dropPending" => Open(rows[x.key], encKey)

SInv ==
    /\ \A w \in Workers : SealedNow(h[w])
    /\ answer # Null /\ answer.kind = "connected" => Open(rows[answer.key], encKey)

LEMMA UpsertWrites ==
    ASSUME StoreTypeOK(Sealed), NEW k \in Keys, NEW a \in Account(Sealed),
           UpsertConnectedAccount(k, a)
    PROVE  /\ rows'[k] # Null /\ rows'[k].at = a.at
           /\ rows'[k].id = IF rows[k] = Null THEN nextId ELSE rows[k].id
           /\ \A j \in Keys \ {k} : rows'[j] = rows[j]
           /\ nextId' = IF rows[k] = Null THEN nextId + 1 ELSE nextId
<1>1. ASSUME NEW i \in Nat
      PROVE  /\ [a EXCEPT !.id = i] \in Account(Sealed) /\ [a EXCEPT !.id = i].at = a.at
             /\ [a EXCEPT !.id = i].id = i
  BY <1>1 DEF Account
<1>2. Null \notin Account(Sealed)
  BY CredentialsAssumption
<1>3. CASE rows[k] = Null
  BY <1>1, <1>2, <1>3 DEF UpsertConnectedAccount, StoreTypeOK
<1>4. CASE rows[k] # Null
  <2>1. rows[k].id \in Nat
    BY <1>4 DEF StoreTypeOK, Account
  <2>2. QED
    BY <1>1, <1>2, <1>4, <2>1 DEF UpsertConnectedAccount, StoreTypeOK
<1>5. QED
  BY <1>3, <1>4

(* What a handler saves. *)
LEMMA Saves ==
    ASSUME CInv, NEW w \in Workers, h[w].pc = "saveAccount"
    PROVE  StoreTypeOK(Sealed) /\ h[w].key \in Keys /\ h[w].acct \in Account(Sealed)
BY DEF CInv, TypeOK, Verified, HandlerOK

LEMMA OpenStays ==
    ASSUME CInv, SInv, [Next]_vars, UNCHANGED encKey, NEW k \in Keys, Open(rows[k], encKey)
    PROVE  Open(rows'[k], encKey')
<1>1. CASE UNCHANGED rows
  BY <1>1
<1>2. ASSUME NEW w \in Workers, h[w].pc = "saveAccount",
             UpsertConnectedAccount(h[w].key, h[w].acct)
      PROVE  Open(rows'[k], encKey')
  BY <1>2, Saves, UpsertWrites DEF SInv, SealedNow, Open
<1>3. CASE \E u, id : DeleteConnectedAccount(u, id)
  BY <1>3 DEF DeleteConnectedAccount, Open
<1>4. QED
  BY <1>1, <1>2, <1>3, StepRows DEF RowsStep

LEMMA StepSInv ==
    ASSUME CInv, SInv, [Next]_vars
    PROVE  SInv'
<1>1. ASSUME NEW v \in Workers
      PROVE  SealedNow(h[v])'
  <2> DEFINE x == h[v]
             y == h'[v]
  <2>1. x.pc # "idle" => x.key \in Keys
    BY DEF CInv, Verified, HandlerOK
  <2>2. CASE y.pc = x.pc /\ y.key = x.key /\ y.acct = x.acct /\ UNCHANGED encKey
    BY <2>1, <2>2, OpenStays DEF SInv, SealedNow
  <2>3. CASE y.pc = "saveAccount" /\ y.acct.at.by = encKey /\ UNCHANGED encKey
    BY <2>3 DEF SealedNow
  <2>4. CASE /\ x.pc = "saveAccount" /\ y.pc = "dropPending" /\ y.key = x.key
             /\ UpsertConnectedAccount(x.key, x.acct) /\ UNCHANGED encKey
    BY <2>4, Saves, UpsertWrites DEF SInv, SealedNow, Open
  <2>5. CASE y.pc \notin {"saveAccount", "dropPending"}
    BY <2>5 DEF SealedNow
  <2>6. QED
    BY <2>2, <2>3, <2>4, <2>5, StepHandler DEF HandlerStep, Idle
<1>2. ASSUME answer' # Null, answer'.kind = "connected"
      PROVE  Open(rows'[answer'.key], encKey')
  <2>1. CASE UNCHANGED vars
    BY <1>2, <2>1 DEF vars, storeVars, requestVars, flowVars, SInv
  <2>2. ASSUME NEW w \in Workers, SaveCredentials(w)
        PROVE  Open(rows'[answer'.key], encKey')
    <3>1. Saved(w, TRUE) /\ Reply(w, Connected(w)) /\ h[w].pc = "saveAccount" /\ UNCHANGED encKey
      BY <1>2, <2>2 DEF SaveCredentials, Reply, Silent, flowVars
    <3>2. UpsertConnectedAccount(h[w].key, h[w].acct) /\ answer'.key = h[w].key
      BY <3>1 DEF Saved, Reply, Connected
    <3>3. QED
      BY <3>1, <3>2, Saves, UpsertWrites DEF SInv, SealedNow, Open
  <2>3. ASSUME NEW w \in Workers, DropPending(w)
        PROVE  Open(rows'[answer'.key], encKey')
    BY <2>3 DEF DropPending, Reply, Connected, flowVars, SInv, SealedNow
  <2>4. CASE \E w \in Workers, k \in Keys : GetActiveToken(w, k)
    BY <1>2, <2>4 DEF GetActiveToken, Reply
  <2>5. QED
    BY <1>2, <2>1, <2>2, <2>3, <2>4
    DEF Next, InitiateCredentialsAuth, HandleCredentialsPage, CompleteCredentials,
        HandleConnectCredentials, ValidateCredentials, Withdraw, DeleteAccount, Redeploy,
        ClientLeaves, Leave, Crash, Die, ClockTick, Silent, Reply
<1>3. QED
  BY <1>1, <1>2 DEF SInv

(* Whoever is told "connected" has, at that moment, a row that the running   *)
(* deployment can decrypt (or had one until it was deleted), whatever rows   *)
(* earlier deployments have left and however many requests overlap.          *)
THEOREM ConnectedRowOpens == Spec => []ConnectedOpens
<1>1. Init => SInv
  BY DEF Init, RequestsInit, SInv, SealedNow, Idle
<1>2. SInv => ConnectedOpens
  BY DEF SInv, Open, ConnectedOpens, Opens
<1>3. QED
  BY <1>1, <1>2, CInit, CNext, StepSInv, PTL DEF Spec

-----------------------------------------------------------------------------
(* LinkOutlivesFailure.  A handler that is about to use up a link has saved  *)
(* an account for the link's user and platform.  If that row is gone again,  *)
(* its id is one of those handed out (1 .. nextId - 1) that no row has: ids  *)
(* are unique and not given twice (Ids), so a deleted one stays deleted.     *)

Had(k) == rows[k] # Null \/ SomeDeleted

Linked(x) ==
    /\ x.pc = "idle" => x.state = Null
    /\ x.state # Null => x.state \in States /\ x.key = urls[x.state] /\ x.key \in Keys
    /\ x.pc = "dropPending" => x.state # Null /\ Had(x.key)

DInv == Ids /\ \A w \in Workers : Linked(h[w])

LEMMA DeletedHas ==
    ASSUME CInv, Ids, NEW u, NEW id, DeleteConnectedAccount(u, id), UNCHANGED nextId
    PROVE  /\ Ids'
           /\ \A k \in Keys : rows'[k] = rows[k] \/ rows'[k] = Null
           /\ \A k \in Keys : Had(k) => Had(k)'
<1>1. \A k \in Keys : rows'[k] = IF rows[k] # Null /\ k[1] = u /\ rows[k].id = id
                                 THEN Null ELSE rows[k]
  BY DEF DeleteConnectedAccount
<1>2. Ids'
  BY DeleteIds
<1>3. ASSUME SomeDeleted PROVE SomeDeleted'
  <2>1. PICK i \in 1 .. nextId - 1 : \A k \in Keys : rows[k] = Null \/ rows[k].id # i
    BY <1>3 DEF SomeDeleted
  <2>2. QED
    BY <1>1, <2>1 DEF SomeDeleted
<1>4. ASSUME NEW k \in Keys, rows[k] # Null, rows'[k] = Null
      PROVE  SomeDeleted'
  <2>1. rows[k].id = id /\ id \in 1 .. nextId - 1
    BY <1>1, <1>4 DEF Ids
  <2>2. \A j \in Keys : rows'[j] = Null \/ rows'[j].id # id
    BY <1>1, <1>4, <2>1 DEF Ids
  <2>3. QED
    BY <2>1, <2>2 DEF SomeDeleted
<1>5. QED
  BY <1>1, <1>2, <1>3, <1>4 DEF Had

LEMMA UpsertedHas ==
    ASSUME Ids, StoreTypeOK(Sealed), NEW k \in Keys, NEW a \in Account(Sealed),
           UpsertConnectedAccount(k, a)
    PROVE  Ids' /\ \A j \in Keys : Had(j) => Had(j)'
<1>1. /\ rows'[k] # Null
      /\ rows'[k].id = IF rows[k] = Null THEN nextId ELSE rows[k].id
      /\ \A j \in Keys \ {k} : rows'[j] = rows[j]
      /\ nextId' = IF rows[k] = Null THEN nextId + 1 ELSE nextId
  BY UpsertWrites
<1>2. nextId' \in Nat \ {0} /\ nextId' >= nextId
  BY <1>1 DEF Ids
<1>3. ASSUME NEW j \in Keys, rows'[j] # Null
      PROVE  /\ rows'[j].id \in 1 .. nextId' - 1
             /\ \/ rows[j] # Null /\ rows'[j].id = rows[j].id
                \/ rows[j] = Null /\ j = k /\ rows'[j].id = nextId
  BY <1>1, <1>2, <1>3 DEF Ids
<1>4. Ids'
  BY <1>2, <1>3 DEF Ids
<1>5. ASSUME SomeDeleted PROVE SomeDeleted'
  <2>1. PICK i \in 1 .. nextId - 1 : \A j \in Keys : rows[j] = Null \/ rows[j].id # i
    BY <1>5 DEF SomeDeleted
  <2>2. \A j \in Keys : rows'[j] = Null \/ rows'[j].id # i
    BY <1>3, <2>1 DEF Ids
  <2>3. i \in 1 .. nextId' - 1
    <3>1. i \in Nat /\ 1 <= i /\ i <= nextId - 1 /\ nextId \in Nat
      BY <2>1 DEF Ids
    <3>2. nextId' \in Nat /\ nextId <= nextId'
      BY <1>2
    <3>3. ASSUME NEW m \in Nat, NEW n \in Nat, NEW j \in Nat, 1 <= j, j <= m - 1, m <= n
          PROVE  j \in 1 .. n - 1
      BY <3>3
    <3>4. QED
      BY <3>1, <3>2, <3>3
  <2>4. QED
    BY <2>2, <2>3 DEF SomeDeleted
<1>6. \A j \in Keys : rows[j] # Null => rows'[j] # Null
  BY <1>1
<1>7. QED
  BY <1>4, <1>5, <1>6 DEF Had

LEMMA StepHad ==
    ASSUME CInv, Ids, [Next]_vars
    PROVE  Ids' /\ \A k \in Keys : Had(k) => Had(k)'
<1>1. CASE UNCHANGED <<rows, nextId>>
  BY <1>1 DEF Ids, Had, SomeDeleted
<1>2. CASE \E w \in Workers : /\ h[w].pc = "saveAccount"
                              /\ UpsertConnectedAccount(h[w].key, h[w].acct)
  BY <1>2, Saves, UpsertedHas
<1>3. CASE \E u, id : DeleteConnectedAccount(u, id) /\ UNCHANGED nextId
  BY <1>3, DeletedHas
<1>4. QED
  BY <1>1, <1>2, <1>3, StepRows DEF RowsStep

LEMMA StepDInv ==
    ASSUME CInv, DInv, [Next]_vars
    PROVE  DInv'
<1>1. Ids' /\ \A k \in Keys : Had(k) => Had(k)'
  BY StepHad DEF DInv
<1>2. \A s \in States : urls[s] # Null => urls'[s] = urls[s]
  BY StepGrows DEF CInv, Grows
<1>3. \A s \in States : pendings[s] # Null => pendings[s].key = urls[s] /\ pendings[s].key \in Keys
  BY DEF CInv, TypeOK, StoreTypeOK, Verified, LinksOK, PendingAuth
<1>4. ASSUME NEW v \in Workers
      PROVE  Linked(h[v])'
  <2> DEFINE x == h[v]
             y == h'[v]
  <2>1. Linked(x) /\ Null \notin Keys /\ Null \notin States
    BY StoreAssumption, CredentialsAssumption DEF DInv
  <2>2. x.pc # "idle" => x.key \in Keys
    BY DEF CInv, Verified, HandlerOK
  <2>3. CASE y = Idle
    BY <2>3 DEF Linked, Idle
  <2>4. CASE y.pc = x.pc /\ y.key = x.key /\ y.state = x.state
    BY <1>1, <1>2, <2>1, <2>2, <2>4 DEF Linked
  <2>5. CASE /\ x.pc = "idle" /\ y.pc = "complete"
             /\ y.state \in States /\ pendings[y.state] # Null /\ y.key = pendings[y.state].key
    BY <1>2, <1>3, <2>1, <2>5 DEF Linked
  <2>6. CASE /\ x.pc = "complete" /\ y.pc = "validate" /\ y.state = x.state
             /\ pendings[x.state] # Null /\ y.key = pendings[x.state].key
    BY <1>2, <1>3, <2>1, <2>6 DEF Linked
  <2>7. CASE x.pc = "idle" /\ y.pc = "validate" /\ y.state = x.state
    BY <2>1, <2>7 DEF Linked
  <2>8. CASE x.pc = "validate" /\ y.pc = "saveAccount" /\ y.state = x.state /\ y.key = x.key
    BY <1>2, <2>1, <2>8 DEF Linked
  <2>9. CASE /\ x.pc = "saveAccount" /\ y.pc = "dropPending" /\ y.state = x.state /\ y.key = x.key
             /\ x.state # Null /\ UpsertConnectedAccount(x.key, x.acct)
    <3>1. rows'[x.key] # Null
      BY <2>9, Saves, UpsertWrites
    <3>2. QED
      BY <1>2, <2>1, <2>9, <3>1 DEF Linked, Had
  <2>10. QED
    BY <2>3, <2>4, <2>5, <2>6, <2>7, <2>8, <2>9, StepHandler DEF HandlerStep
<1>5. QED
  BY <1>1, <1>4 DEF DInv

(* A link is used up only when its user and platform has an account, or has  *)
(* had one that was deleted: no failed validation, lost write or crash takes *)
(* the link away (CompleteCredentials, SaveCredentials).                     *)
THEOREM LinkSurvives == Spec => LinkOutlivesFailure
<1>1. Init => DInv
  BY StoreAssumption DEF Init, StoreInit, RequestsInit, DInv, Ids, Linked, Idle
<1>2. ASSUME CInv, DInv, [Next]_vars, NEW s \in States, pendings[s] # Null, pendings'[s] = Null
      PROVE  rows[pendings[s].key] # Null \/ SomeDeleted
  <2>1. PICK w \in Workers : DropPending(w) /\ s = h[w].state
    <3>1. pendings \in [States -> PendingAuth \cup {Null}]
      BY <1>2 DEF CInv, TypeOK, StoreTypeOK
    <3>2. ~ \E u \in Users, p \in Platforms, t \in States : InitiateCredentialsAuth(u, p, t)
      <4> SUFFICES ASSUME NEW u \in Users, NEW p \in Platforms, NEW t \in States,
                          InitiateCredentialsAuth(u, p, t)
                   PROVE  FALSE
        OBVIOUS
      <4>1. [key |-> <<u, p>>, exp |-> now + PendingTTL] \in PendingAuth
        BY <1>2, StoreAssumption DEF PendingAuth, Keys, CInv, TypeOK, StoreTypeOK
      <4>2. QED
        BY <1>2, <3>1, <4>1, StoreAssumption DEF InitiateCredentialsAuth, SavePendingAuth
    <3>3. PICK w \in Workers : DropPending(w)
      BY <1>2, <3>2
      DEF Next, vars, storeVars, HandleCredentialsPage, CompleteCredentials,
          HandleConnectCredentials, ValidateCredentials, SaveCredentials, GetActiveToken,
          Withdraw, DeleteAccount, Redeploy, ClientLeaves, Crash, ClockTick, Tick
    <3>4. pendings' = [pendings EXCEPT ![h[w].state] = Null]
      BY <1>2, <3>3 DEF DropPending, Dropped, DeletePendingAuth
    <3>5. QED
      BY <1>2, <3>1, <3>3, <3>4
  <2>2. h[w].pc = "dropPending" /\ h[w].key = urls[s] /\ Had(h[w].key)
    BY <1>2, <2>1 DEF DropPending, DInv, Linked
  <2>3. pendings[s].key = urls[s]
    BY <1>2 DEF CInv, Verified, LinksOK
  <2>4. QED
    BY <2>2, <2>3 DEF Had
<1>3. CInv /\ DInv /\ [Next]_vars =>
          [\A s \in States : pendings[s] # Null /\ pendings'[s] = Null
              => rows[pendings[s].key] # Null \/ SomeDeleted]_vars
  BY <1>2
<1>4. QED
  BY <1>1, <1>3, CInit, CNext, StepDInv, PTL DEF Spec, LinkOutlivesFailure
-----------------------------------------------------------------------------
(* Connections.  A step writes one row from a handler's copy, removes one,  *)
(* or leaves the accounts alone; one that touches them touches neither what *)
(* was submitted nor the mail servers.                                      *)

Written(w) ==
    /\ h[w].pc = "saveAccount"
    /\ UpsertConnectedAccount(h[w].key, h[w].acct)
    /\ UNCHANGED <<given, mail>>
    /\ answer' = Null \/ answer'.kind = "connected"

Removed ==
    /\ \E u, id : DeleteConnectedAccount(u, id)
    /\ UNCHANGED <<nextId, given, mail>>
    /\ answer' = Null

Untouched == UNCHANGED <<rows, nextId>>

LEMMA SavedAnswers ==
    ASSUME NEW w \in Workers, SaveCredentials(w) \/ DropPending(w)
    PROVE  answer' = Null \/ answer'.kind = "connected"
<1>1. answer' \in {Null, Connected(w)}
  <2>1. CASE SaveCredentials(w)
    BY <2>1 DEF SaveCredentials, Reply, Silent
  <2>2. CASE DropPending(w)
    BY <2>2 DEF DropPending, Reply
  <2>3. QED
    BY <2>1, <2>2
<1>2. Connected(w).kind = "connected"
  BY DEF Connected
<1>3. QED
  BY <1>1, <1>2

LEMMA StepAccounts ==
    ASSUME [Next]_vars
    PROVE  Untouched \/ Removed \/ \E w \in Workers : Written(w)
<1>1. ASSUME NEW w \in Workers, SaveCredentials(w)
      PROVE  Untouched \/ Written(w)
  <2>1. answer' = Null \/ answer'.kind = "connected"
    BY <1>1, SavedAnswers
  <2>2. QED
    BY <1>1, <2>1 DEF SaveCredentials, Saved, Untouched, Written, flowVars
<1>2. ASSUME NEW u \in Users, NEW id \in 1 .. MaxIds, DeleteAccount(u, id)
      PROVE  Removed
  BY <1>2 DEF DeleteAccount, Removed, Silent, flowVars
<1>3. ASSUME NEW w \in Workers,
             \/ CompleteCredentials(w) \/ ValidateCredentials(w) \/ DropPending(w)
             \/ ClientLeaves(w) \/ Crash(w)
      PROVE  Untouched
  BY <1>3 DEF CompleteCredentials, ValidateCredentials, DropPending, ClientLeaves, Crash,
              Untouched, storeVars
<1>4. ASSUME NEW w \in Workers,
             \/ \E s \in States, p \in Platforms, c \in Creds : HandleCredentialsPage(w, s, p, c)
             \/ \E k \in Keys, c \in Creds : HandleConnectCredentials(w, k, c)
             \/ \E k \in Keys : GetActiveToken(w, k)
      PROVE  Untouched
  <2>1. CASE \E s \in States, p \in Platforms, c \in Creds : HandleCredentialsPage(w, s, p, c)
    BY <2>1 DEF HandleCredentialsPage, Untouched, storeVars
  <2>2. CASE \E k \in Keys, c \in Creds : HandleConnectCredentials(w, k, c)
    BY <2>2 DEF HandleConnectCredentials, Untouched, storeVars
  <2>3. CASE \E k \in Keys : GetActiveToken(w, k)
    BY <2>3 DEF GetActiveToken, Untouched, storeVars
  <2>4. QED
    BY <1>4, <2>1, <2>2, <2>3
<1>5. CASE \/ \E u \in Users, p \in Platforms, s \in States : InitiateCredentialsAuth(u, p, s)
           \/ \E c \in Creds : Withdraw(c)
           \/ \E k \in EncKeys \cup {Null} : Redeploy(k)
           \/ ClockTick \/ UNCHANGED vars
  BY <1>5 DEF InitiateCredentialsAuth, Withdraw, Redeploy, ClockTick, Tick, vars, storeVars,
              Untouched
<1>6. QED
  BY <1>1, <1>2, <1>3, <1>4, <1>5 DEF Next

(* What the mapping makes of rows. *)
LEMMA StoredIs ==
    ASSUME CInv, NEW k \in Keys
    PROVE  /\ Stored[k] = Null <=> rows[k] = Null
           /\ rows[k] # Null => Stored[k].id = rows[k].id
<1>1. CASE rows[k] = Null
  BY <1>1 DEF Stored
<1>2. CASE rows[k] # Null
  <2>1. rows[k].id \in Nat /\ rows[k].at.creds \in Creds
    BY <1>2 DEF CInv, TypeOK, StoreTypeOK, Account, Verified, RowOK, Vouched
  <2>2. IsActive(rows[k]) \in BOOLEAN
    BY DEF IsActive
  <2>3. Stored[k] = [id |-> rows[k].id, ready |-> IsActive(rows[k]), secret |-> rows[k].at.creds]
    BY <1>2 DEF Stored
  <2>4. Stored[k] \in [id : Nat, ready : BOOLEAN, secret : Creds]
    BY <2>1, <2>2, <2>3
  <2>5. QED
    BY <1>2, <2>3, <2>4, CredentialsAssumption
<1>3. QED
  BY <1>1, <1>2

LEMMA GrantedTo ==
    ASSUME NEW k \in Keys, NEW c, Vouched(k, c, given, mail)
    PROVE  c \in Creds /\ <<k, c>> \in given /\ <<k, c>> \in Granted
BY DEF Vouched, Granted

LEMMA WriteStep ==
    ASSUME CInv, NEW w \in Workers, Written(w)
    PROVE  C!Next
<1> DEFINE k == h[w].key
           a == h[w].acct
<1>1. /\ k \in Keys /\ a \in Account(Sealed) /\ Vouched(k, a.at.creds, given, mail)
      /\ StoreTypeOK(Sealed) /\ Null \notin Account(Sealed)
      /\ rows \in [Keys -> Account(Sealed) \cup {Null}]
  BY CredentialsAssumption DEF Written, CInv, TypeOK, StoreTypeOK, Verified, HandlerOK, Vouched
<1>2. PICK b \in Account(Sealed) :
          /\ b # Null /\ rows' = [rows EXCEPT ![k] = b]
          /\ b.id = IF rows[k] = Null THEN nextId ELSE rows[k].id
          /\ b.status = a.status /\ b.at = a.at
          /\ nextId' = IF rows[k] = Null THEN nextId + 1 ELSE nextId
  BY <1>1, Upserting DEF Written
<1> DEFINE c == b.at.creds
<1>3. c \in Creds /\ <<k, c>> \in IF IsActive(b) THEN Granted ELSE given
  BY <1>1, <1>2, GrantedTo
<1>4. Stored' = [Stored EXCEPT ![k] = [id |-> IF @ = Null THEN nextId ELSE @.id,
                                       ready |-> IsActive(b), secret |-> c]]
  <2> DEFINE new == [id |-> b.id, ready |-> IsActive(b), secret |-> c]
  <2>1. Stored' = [Stored EXCEPT ![k] = new]
    BY <1>1, <1>2 DEF Stored, IsActive
  <2>2. b.id = IF Stored[k] = Null THEN nextId ELSE Stored[k].id
    BY <1>1, <1>2, StoredIs
  <2>3. QED
    BY <2>1, <2>2
<1>5. nextId' = IF Stored[k] = Null THEN nextId + 1 ELSE nextId
  BY <1>1, <1>2, StoredIs
<1>6. UNCHANGED <<given, Granted>> /\ Handed' = Null
  BY DEF Written, Granted, Handed
<1> HIDE DEF c
<1>7. C!Keep(k, c, IsActive(b)) /\ IsActive(b) \in BOOLEAN
  BY <1>3, <1>4, <1>5, <1>6 DEF C!Keep, C!Put, IsActive
<1>8. QED
  BY <1>1, <1>3, <1>7 DEF C!Next, C!Keys, Keys

LEMMA RemoveStep ==
    ASSUME CInv, Ids, Removed
    PROVE  C!Next
<1>1. /\ StoreTypeOK(Sealed) /\ rows \in [Keys -> Account(Sealed) \cup {Null}]
      /\ UNCHANGED <<given, Granted, nextId>> /\ Handed' = Null
  BY DEF CInv, TypeOK, StoreTypeOK, Removed, Granted, Handed
<1>2. CASE rows' = rows
  <2>1. Stored' = Stored
    BY <1>2 DEF Stored, IsActive
  <2>2. QED
    BY <1>1, <2>1 DEF C!Next, C!Rest
<1>3. ASSUME NEW k \in Keys, rows[k] # Null, rows' = [rows EXCEPT ![k] = Null]
      PROVE  C!Next
  <2>1. Stored' = [Stored EXCEPT ![k] = Null]
    BY <1>1, <1>3 DEF Stored, IsActive
  <2>2. Stored[k] # Null
    BY <1>3, StoredIs
  <2>3. C!Remove(k)
    BY <1>1, <2>1, <2>2 DEF C!Remove
  <2>4. QED
    BY <2>3 DEF C!Next, C!Keys, Keys
<1>4. QED
  BY <1>1, <1>2, <1>3, Deleting DEF Removed

(* The steps that leave the accounts alone. *)
LEMMA RestStep ==
    ASSUME Untouched, UNCHANGED <<given, Granted>>, answer' = Null \/ answer'.kind = "connected"
    PROVE  C!Next
<1>1. Stored' = Stored /\ Handed' = Null
  BY DEF Untouched, Stored, IsActive, Handed
<1>2. QED
  BY <1>1 DEF Untouched, C!Next, C!Rest

LEMMA QuietStep ==
    ASSUME Untouched, UNCHANGED <<given, mail>>, answer' = Null \/ answer'.kind = "connected"
    PROVE  C!Next
<1>1. UNCHANGED <<given, Granted>>
  BY DEF Granted
<1>2. QED
  BY <1>1, RestStep

LEMMA SubmitStep ==
    ASSUME Untouched, NEW k \in Keys, NEW c \in Creds,
           given' = given \cup {<<k, c>>}, UNCHANGED mail, answer' = Null
    PROVE  C!Next
<1>1. Granted' = IF mail[c] # "bad" THEN Granted \cup {<<k, c>>} ELSE Granted
  BY DEF Granted
<1>2. Stored' = Stored /\ UNCHANGED nextId /\ Handed' = Null
  BY DEF Untouched, Stored, IsActive, Handed
<1>3. C!Offer(k, c)
  BY <1>1, <1>2 DEF C!Offer
<1>4. QED
  BY <1>3 DEF C!Next, C!Keys, Keys

LEMMA HandStep ==
    ASSUME CInv, NEW w \in Workers, NEW k \in Keys, GetActiveToken(w, k)
    PROVE  C!Next
<1> DEFINE c == rows[k].at.creds
<1>1. Untouched /\ UNCHANGED <<given, mail>>
  BY DEF GetActiveToken, Untouched, storeVars, flowVars
<1>2. CASE answer' = Null
  BY <1>1, <1>2, QuietStep
<1>3. CASE /\ rows[k] # Null /\ answer' # Null
           /\ answer' = [kind |-> "token", key |-> k, creds |-> c]
  <2>1. c \in Creds /\ <<k, c>> \in Granted
    BY <1>3, GrantedTo DEF CInv, Verified, RowOK
  <2>2. UNCHANGED <<given, Granted>> /\ Stored' = Stored
    BY <1>1 DEF Untouched, Granted, Stored, IsActive
  <2>3. Handed' = <<k, c>>
    BY <1>3 DEF Handed
  <2> HIDE DEF c
  <2>4. C!Hand(k, c)
    BY <1>1, <2>1, <2>2, <2>3 DEF C!Hand, Untouched
  <2>5. QED
    BY <2>1, <2>4 DEF C!Next, C!Keys, Keys
<1>4. QED
  BY <1>2, <1>3 DEF GetActiveToken, Reply

LEMMA UntouchedStep ==
    ASSUME CInv, Untouched, Next
    PROVE  C!Next
<1>1. ASSUME NEW w \in Workers, NEW s \in States, NEW p \in Platforms, NEW c \in Creds,
             HandleCredentialsPage(w, s, p, c)
      PROVE  C!Next
  <2>1. urls[s] \in Keys
    BY <1>1 DEF HandleCredentialsPage, CInv, TypeOK
  <2>2. QED
    BY <1>1, <2>1, SubmitStep DEF HandleCredentialsPage, Reply, Silent
<1>2. ASSUME NEW w \in Workers, NEW k \in Keys, NEW c \in Creds, HandleConnectCredentials(w, k, c)
      PROVE  C!Next
  BY <1>2, SubmitStep DEF HandleConnectCredentials, Reply, Silent
<1>3. ASSUME NEW w \in Workers,
             \/ CompleteCredentials(w) \/ ValidateCredentials(w)
             \/ SaveCredentials(w) \/ DropPending(w)
      PROVE  C!Next
  <2>1. UNCHANGED <<given, mail>>
    BY <1>3 DEF CompleteCredentials, ValidateCredentials, SaveCredentials, DropPending, flowVars
  <2>2. answer' = Null \/ answer'.kind = "connected"
    <3>1. CASE CompleteCredentials(w) \/ ValidateCredentials(w)
      BY <3>1 DEF CompleteCredentials, ValidateCredentials, Reply, Silent
    <3>2. CASE SaveCredentials(w) \/ DropPending(w)
      BY <3>2, SavedAnswers
    <3>3. QED
      BY <1>3, <3>1, <3>2
  <2>3. QED
    BY <2>1, <2>2, QuietStep
<1>4. ASSUME NEW c \in Creds, Withdraw(c)
      PROVE  C!Next
  <2>1. /\ mail[c] = "good" /\ mail' = [mail EXCEPT ![c] = "withdrawn"]
        /\ UNCHANGED given /\ answer' = Null
    BY <1>4 DEF Withdraw, Silent
  <2>2. mail \in [Creds -> {"good", "bad", "withdrawn"}] /\ given \subseteq Keys \X Creds
    BY DEF CInv, TypeOK
  <2>3. \A e \in given : mail'[e[2]] # "bad" <=> mail[e[2]] # "bad"
    BY <2>1, <2>2
  <2>4. UNCHANGED <<given, Granted>>
    BY <2>1, <2>3 DEF Granted
  <2>5. QED
    BY <2>1, <2>4, RestStep
<1>5. ASSUME NEW w \in Workers, ClientLeaves(w) \/ Crash(w)
      PROVE  C!Next
  BY <1>5, QuietStep DEF ClientLeaves, Leave, Crash, Die, Reply, Silent, flowVars
<1>6. ASSUME \/ \E u \in Users, p \in Platforms, s \in States : InitiateCredentialsAuth(u, p, s)
             \/ \E u \in Users, id \in 1 .. MaxIds : DeleteAccount(u, id)
             \/ \E k \in EncKeys \cup {Null} : Redeploy(k)
             \/ ClockTick
      PROVE  C!Next
  BY <1>6, QuietStep
  DEF InitiateCredentialsAuth, DeleteAccount, Redeploy, ClockTick, Silent, flowVars
<1>7. QED
  BY <1>1, <1>2, <1>3, <1>4, <1>5, <1>6, HandStep DEF Next

(* The credentials flow implements Connections: whatever submissions,       *)
(* deletions and redeployments overlap or fail, an account holds what its   *)
(* user has submitted and the mail server has taken, and keeps its id as    *)
(* long as it is there (SaveCredentials, DeleteAccount, manager.go).        *)
THEOREM SubmissionsKeepConnections == Spec => ConnectionsKept
<1>1. Init => Ids
  BY IdsInit DEF Init
<1>2. Init => C!Init
  <2> SUFFICES ASSUME Init PROVE C!Init
    OBVIOUS
  <2>1. given = {} /\ Granted = {} /\ Handed = Null /\ nextId = 1
    BY DEF Init, StoreInit, RequestsInit, Granted, Handed
  <2>2. Stored = [k \in Keys |-> Null]
    BY DEF Init, StoreInit, Stored
  <2>3. QED
    BY <2>1, <2>2 DEF C!Init, C!Keys, Keys
<1>3. CInv /\ Ids /\ [Next]_vars => [C!Next]_(C!vars)
  <2> SUFFICES ASSUME CInv, Ids, [Next]_vars PROVE C!Next \/ UNCHANGED C!vars
    OBVIOUS
  <2>1. CASE UNCHANGED vars
    BY <2>1 DEF vars, storeVars, requestVars, flowVars, C!vars, Granted, Stored, Handed, IsActive
  <2>2. CASE Next
    BY <2>2, UntouchedStep, RemoveStep, WriteStep, StepAccounts
  <2>3. QED
    BY <2>1, <2>2
<1>4. CInv /\ Ids /\ [Next]_vars => Ids'
  BY StepHad
<1>5. QED
  BY <1>1, <1>2, <1>3, <1>4, CInit, CNext, PTL DEF Spec, ConnectionsKept, C!Spec
=============================================================================
