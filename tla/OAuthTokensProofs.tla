-------------------------- MODULE OAuthTokensProofs ---------------------------
(***************************************************************************)
(* Theorems about OAuthTokens, for every value of its constants.           *)
(***************************************************************************)
EXTENDS OAuthTokens, StoreProofs

-----------------------------------------------------------------------------
(* Typing.  TypeOK alone is not inductive: what a step stores comes from    *)
(* the handler's copies, and those are there only at the steps that use     *)
(* them.                                                                    *)

Completing == {"exchange", "saveAccount", "dropPending"}
Refreshing == {"refresh", "saveToken", "saveExpired"}
Carrying   == Refreshing \cup {"saveAccount"}

HandlerOK(x) ==
    /\ x.pc \in Completing => /\ x.key \in Keys /\ x.state \in States
                              /\ x.code \in Codes
    /\ x.pc \in Carrying => x.key \in Keys /\ x.acct \in Account(Token)
    /\ x.pc \in Refreshing => x.acct.rt \in Token
    /\ x.pc \notin Carrying => x.acct = Null

GrantOK(g) == g.stage # "unused" => g.key \in Keys /\ g.state \in States

TypeInv ==
    /\ TypeOK
    /\ \A w \in Workers : HandlerOK(h[w])
    /\ \A c \in Codes : GrantOK(grants[c])

LEMMA TypeInit == Init => TypeInv
BY StoreAssumption, OAuthAssumption
DEF Init, StoreInit, RequestsInit, TypeInv, TypeOK, StoreTypeOK, HandlerOK, GrantOK, Grant,
    Handler, Idle, Pc, Completing, Refreshing, Carrying, Never

(* An upsert keeps the tables typed. *)
LEMMA UpsertType ==
    ASSUME StoreTypeOK(Token), NEW k \in Keys, NEW a \in Account(Token),
           UpsertConnectedAccount(k, a), UNCHANGED <<pendings, now>>
    PROVE  StoreTypeOK(Token)'
<1>1. nextId' \in Nat
  BY DEF UpsertConnectedAccount, StoreTypeOK
<1>2. ASSUME NEW i \in Nat PROVE [a EXCEPT !.id = i] \in Account(Token)
  BY <1>2 DEF Account
<1>3. CASE rows[k] = Null
  BY <1>1, <1>2, <1>3 DEF UpsertConnectedAccount, StoreTypeOK
<1>4. CASE rows[k] # Null
  <2>1. rows[k].id \in Nat
    BY <1>4 DEF StoreTypeOK, Account
  <2>2. QED
    BY <1>1, <1>2, <1>4, <2>1 DEF UpsertConnectedAccount, StoreTypeOK
<1>5. QED
  BY <1>3, <1>4

LEMMA SavedType ==
    ASSUME TypeInv, NEW w \in Workers, h[w].pc \in Carrying,
           NEW ok \in BOOLEAN, Saved(w, ok), UNCHANGED <<pendings, now>>
    PROVE  StoreTypeOK(Token)' /\ faults' \in Nat
<1>1. h[w].key \in Keys /\ h[w].acct \in Account(Token)
  BY DEF TypeInv, HandlerOK
<1>2. StoreTypeOK(Token) /\ faults \in Nat
  BY DEF TypeInv, TypeOK
<1>3. faults' \in Nat
  BY <1>2 DEF Saved, Interrupted
<1>4. CASE UpsertConnectedAccount(h[w].key, h[w].acct)
  BY <1>1, <1>2, <1>3, <1>4, UpsertType
<1>5. CASE UNCHANGED <<rows, nextId>>
  BY <1>2, <1>3, <1>5 DEF StoreTypeOK
<1>6. QED
  BY <1>4, <1>5 DEF Saved

(* Replacing one handler by a well-typed one keeps the handlers typed. *)
LEMMA HandlersType ==
    ASSUME TypeInv, NEW w \in Workers, NEW x \in Handler, HandlerOK(x),
           h' = [h EXCEPT ![w] = x]
    PROVE  h' \in [Workers -> Handler] /\ \A v \in Workers : HandlerOK(h'[v])
BY DEF TypeInv, TypeOK

LEMMA IdleType == Idle \in Handler /\ HandlerOK(Idle)
BY DEF Idle, Handler, Pc, HandlerOK, Completing, Carrying, Refreshing

LEMMA ReplyType ==
    ASSUME TypeInv, NEW w \in Workers, NEW a \in Answer \cup {Null}, Reply(w, a)
    PROVE  /\ h' \in [Workers -> Handler] /\ \A v \in Workers : HandlerOK(h'[v])
           /\ answer' \in Answer \cup {Null}
BY HandlersType, IdleType DEF Reply

LEMMA TypeNext == TypeInv /\ [Next]_vars => TypeInv'
<1> SUFFICES ASSUME TypeInv, [Next]_vars PROVE TypeInv'
  OBVIOUS
<1> USE DEF TypeInv
<1>1. ASSUME NEW u \in Users, NEW p \in Platforms, NEW s \in States,
             InitiateOAuth(u, p, s)
      PROVE  TypeInv'
  <2>1. <<u, p>> \in Keys
    BY DEF Keys
  <2>2. StoreTypeOK(Token)' /\ urls' \in [States -> Keys \cup {Null}]
    BY <1>1, <2>1, StoreAssumption
    DEF InitiateOAuth, SavePendingAuth, TypeOK, StoreTypeOK, PendingAuth
  <2>3. QED
    BY <1>1, <2>2 DEF InitiateOAuth, Silent, TypeOK, HandlerOK
<1>2. ASSUME NEW s \in States, NEW c \in Codes, Consent(s, c)
      PROVE  TypeInv'
  <2>1. urls[s] \in Keys
    BY <1>2 DEF Consent, TypeOK
  <2>2. grants' \in [Codes -> Grant] /\ \A d \in Codes : GrantOK(grants'[d])
    BY <1>2, <2>1 DEF Consent, TypeOK, Grant, GrantOK
  <2>3. QED
    BY <1>2, <2>2 DEF Consent, Silent, TypeOK, HandlerOK, StoreTypeOK, storeVars
<1>3. ASSUME NEW c \in Codes, Revoke(c)
      PROVE  TypeInv'
  <2>1. grants' \in [Codes -> Grant] /\ \A d \in Codes : GrantOK(grants'[d])
    BY <1>3 DEF Revoke, TypeOK, Grant, GrantOK
  <2>2. QED
    BY <1>3, <2>1 DEF Revoke, Silent, TypeOK, HandlerOK, StoreTypeOK, storeVars
<1>4. ASSUME NEW w \in Workers, NEW c \in Codes, NEW p \in Platforms,
             HandleCallback(w, c, p)
      PROVE  TypeInv'
  <2> DEFINE s == grants[c].state
  <2>1. s \in States
    BY <1>4 DEF HandleCallback, GrantOK
  <2>2. CASE Reply(w, Null)
    BY <1>4, <2>2, ReplyType
    DEF HandleCallback, TypeOK, StoreTypeOK, storeVars, HandlerOK
  <2>3. CASE /\ LinkUsable(s) /\ Silent
             /\ h' = [h EXCEPT ![w] = [@ EXCEPT !.pc = "exchange", !.code = c,
                          !.state = s, !.key = GetPendingAuth(s).key]]
    <3> DEFINE x == [h[w] EXCEPT !.pc = "exchange", !.code = c,
                          !.state = s, !.key = GetPendingAuth(s).key]
    <3>1. GetPendingAuth(s).key \in Keys
      BY <2>1, <2>3 DEF LinkUsable, GetPendingAuth, TypeOK, StoreTypeOK, PendingAuth
    <3>2. x \in Handler /\ HandlerOK(x)
      BY <1>4, <2>1, <3>1
      DEF HandleCallback, TypeOK, Handler, Pc, HandlerOK, Completing, Carrying, Refreshing
    <3>3. h' \in [Workers -> Handler] /\ \A v \in Workers : HandlerOK(h'[v])
      BY <2>3, <3>2, HandlersType
    <3>4. QED
      BY <1>4, <2>3, <3>3 DEF HandleCallback, Silent, TypeOK, StoreTypeOK, storeVars
  <2>4. QED
    BY <1>4, <2>2, <2>3 DEF HandleCallback
<1>5. ASSUME NEW w \in Workers, NEW k \in Keys, GetActiveToken(w, k)
      PROVE  TypeInv'
  <2>1. CASE Reply(w, Null)
    BY <1>5, <2>1, ReplyType
    DEF GetActiveToken, TypeOK, StoreTypeOK, storeVars
  <2>2. CASE rows[k] # Null /\ Reply(w, TokenAnswer(k, rows[k].at))
    <3>1. TokenAnswer(k, rows[k].at) \in Answer
      BY <2>2 DEF TypeOK, StoreTypeOK, Account, TokenAnswer, Answer
    <3>2. QED
      BY <1>5, <2>2, <3>1, ReplyType DEF GetActiveToken, TypeOK, StoreTypeOK, storeVars
  <2>3. CASE /\ rows[k] # Null /\ NeedsRefresh(rows[k]) /\ Silent
             /\ h' = [h EXCEPT ![w] = [@ EXCEPT !.pc = "refresh", !.key = k,
                                                !.acct = rows[k]]]
    <3> DEFINE x == [h[w] EXCEPT !.pc = "refresh", !.key = k, !.acct = rows[k]]
    <3>1. rows[k] \in Account(Token) /\ rows[k].rt \in Token
      BY <2>3 DEF TypeOK, StoreTypeOK, Account, NeedsRefresh
    <3>2. x \in Handler /\ HandlerOK(x)
      BY <3>1 DEF TypeOK, Handler, Pc, HandlerOK, Completing, Carrying, Refreshing
    <3>3. h' \in [Workers -> Handler] /\ \A v \in Workers : HandlerOK(h'[v])
      BY <2>3, <3>2, HandlersType
    <3>4. QED
      BY <1>5, <2>3, <3>3 DEF GetActiveToken, Silent, TypeOK, StoreTypeOK, storeVars
  <2>4. QED
    BY <1>5, <2>1, <2>2, <2>3 DEF GetActiveToken
<1>6. ASSUME NEW w \in Workers, ExchangeCode(w)
      PROVE  TypeInv'
  <2> DEFINE c == h[w].code
  <2>1. c \in Codes /\ h[w].key \in Keys /\ h[w].state \in States
    BY <1>6 DEF ExchangeCode, HandlerOK, Completing
  <2>2. ASSUME SpendCode(c) \/ UNCHANGED grants, grants[c].stage = "issued" \/ UNCHANGED grants
        PROVE  grants' \in [Codes -> Grant] /\ \A d \in Codes : GrantOK(grants'[d])
    BY <2>1, <2>2 DEF SpendCode, TypeOK, Grant, GrantOK
  <2>3. faults' \in Nat
    BY <1>6 DEF ExchangeCode, Interrupted, TypeOK
  <2>4. CASE Reply(w, Null)
    BY <1>6, <2>2, <2>3, <2>4, ReplyType
    DEF ExchangeCode, TypeOK, StoreTypeOK, storeVars
  <2>5. ASSUME NEW shape \in ExchangeShapes, Silent,
               Proceed(w, "saveAccount", NewAccount(c, shape))
        PROVE  TypeInv'
    <3> DEFINE x == [h[w] EXCEPT !.pc = "saveAccount", !.acct = NewAccount(c, shape)]
    <3>1. NewAccount(c, shape) \in Account(Token)
      BY <2>1, OAuthAssumption
      DEF NewAccount, Account, Token, Status, ExpiryOf, Shape, Never, TypeOK, StoreTypeOK
    <3>2. x \in Handler /\ HandlerOK(x)
      BY <2>1, <3>1 DEF TypeOK, Handler, Pc, HandlerOK, Completing, Carrying, Refreshing
    <3>3. h' \in [Workers -> Handler] /\ \A v \in Workers : HandlerOK(h'[v])
      BY <2>5, <3>2, HandlersType DEF Proceed
    <3>4. QED
      BY <1>6, <2>2, <2>3, <2>5, <3>3
      DEF ExchangeCode, Silent, TypeOK, StoreTypeOK, storeVars
  <2>6. CASE Proceed(w, "saveAccount", Blank) /\ Silent /\ UNCHANGED grants
    <3> DEFINE x == [h[w] EXCEPT !.pc = "saveAccount", !.acct = Blank]
    <3>1. Blank \in Account(Token)
      BY DEF Blank, Account, Status, Never
    <3>2. x \in Handler /\ HandlerOK(x)
      BY <2>1, <3>1 DEF TypeOK, Handler, Pc, HandlerOK, Completing, Carrying, Refreshing
    <3>3. h' \in [Workers -> Handler] /\ \A v \in Workers : HandlerOK(h'[v])
      BY <2>6, <3>2, HandlersType DEF Proceed
    <3>4. QED
      BY <1>6, <2>2, <2>3, <2>6, <3>3
      DEF ExchangeCode, Silent, TypeOK, StoreTypeOK, storeVars
  <2>7. QED
    BY <1>6, <2>4, <2>5, <2>6 DEF ExchangeCode
<1>7. ASSUME NEW w \in Workers, SaveAccount(w)
      PROVE  TypeInv'
  <2>1. h[w].pc \in Carrying
    BY <1>7 DEF SaveAccount, Carrying
  <2>2. StoreTypeOK(Token)' /\ faults' \in Nat
    BY <1>7, <2>1, SavedType DEF SaveAccount
  <2>3. CASE Reply(w, Null)
    BY <1>7, <2>2, <2>3, ReplyType DEF SaveAccount, TypeOK
  <2>4. CASE Proceed(w, "dropPending", Null) /\ Silent
    <3> DEFINE x == [h[w] EXCEPT !.pc = "dropPending", !.acct = Null]
    <3>1. x \in Handler /\ HandlerOK(x)
      BY <1>7 DEF SaveAccount, TypeOK, Handler, Pc, HandlerOK, Completing, Carrying, Refreshing
    <3>2. h' \in [Workers -> Handler] /\ \A v \in Workers : HandlerOK(h'[v])
      BY <2>4, <3>1, HandlersType DEF Proceed
    <3>3. QED
      BY <1>7, <2>2, <2>4, <3>2 DEF SaveAccount, Silent, TypeOK
  <2>5. QED
    BY <1>7, <2>3, <2>4 DEF SaveAccount
<1>8. ASSUME NEW w \in Workers, DropPending(w)
      PROVE  TypeInv'
  <2>1. [kind |-> "connected", key |-> h[w].key, token |-> Null] \in Answer
    BY <1>8 DEF DropPending, HandlerOK, Completing, Answer
  <2>2. StoreTypeOK(Token)' /\ faults' \in Nat
    BY <1>8 DEF DropPending, Dropped, Interrupted, DeletePendingAuth, TypeOK, StoreTypeOK
  <2>3. QED
    BY <1>8, <2>1, <2>2, ReplyType DEF DropPending, TypeOK
<1>9. ASSUME NEW w \in Workers, RefreshToken(w)
      PROVE  TypeInv'
  <2> DEFINE a == h[w].acct
             c == a.rt.code
  <2>1. h[w].key \in Keys /\ a \in Account(Token) /\ a.rt \in Token /\ c \in Codes
    BY <1>9 DEF RefreshToken, HandlerOK, Carrying, Refreshing, Token
  <2>2. ASSUME NEW b \in Account(Token), b.rt \in Token, NEW pc \in Refreshing,
               Proceed(w, pc, b)
        PROVE  h' \in [Workers -> Handler] /\ \A v \in Workers : HandlerOK(h'[v])
    <3> DEFINE x == [h[w] EXCEPT !.pc = pc, !.acct = b]
    <3>1. x \in Handler /\ HandlerOK(x)
      BY <2>1, <2>2 DEF TypeOK, Handler, Pc, HandlerOK, Completing, Carrying, Refreshing
    <3>2. QED
      BY <2>2, <3>1, HandlersType DEF Proceed
  <2>3. ASSUME NEW shape \in RefreshShapes
        PROVE  Refreshed(a, shape) \in Account(Token) /\ Refreshed(a, shape).rt \in Token
    <3> DEFINE new == [code |-> c, gen |-> grants[c].gen + 1]
    <3>1. new \in Token
      BY <2>1 DEF Token, TypeOK, Grant
    <3>2. ExpiryOf(shape, a.exp) \in Nat \cup {Never}
      BY <2>1, OAuthAssumption DEF ExpiryOf, Account, TypeOK, StoreTypeOK
    <3>3. QED
      BY <2>1, <3>1, <3>2 DEF Refreshed, Account
  <2>4. /\ Failed(a) \in Account(Token) /\ Failed(a).rt \in Token
        /\ Emptied(a) \in Account(Token) /\ Emptied(a).rt \in Token
    BY <2>1 DEF Failed, Emptied, Account, Status
  <2>5. h' \in [Workers -> Handler] /\ \A v \in Workers : HandlerOK(h'[v])
    BY <1>9, <2>2, <2>3, <2>4 DEF RefreshToken, Refreshing
  <2>6. ASSUME NEW shape \in RefreshShapes, Renew(c, shape)
        PROVE  grants' \in [Codes -> Grant] /\ \A d \in Codes : GrantOK(grants'[d])
    <3> DEFINE g == grants[c]
               n == [g EXCEPT !.gen = g.gen + 1,
                              !.rt = IF shape.rt THEN g.gen + 1 ELSE g.rt]
    <3>1. g \in Grant /\ GrantOK(g)
      BY <2>1 DEF TypeOK
    <3>2. n \in Grant /\ GrantOK(n)
      <4>1. g.gen + 1 \in Nat /\ (IF shape.rt THEN g.gen + 1 ELSE g.rt) \in Nat
        BY <3>1 DEF Grant
      <4>2. /\ n.stage = g.stage /\ n.key = g.key /\ n.state = g.state
            /\ n \in Grant
        BY <3>1, <4>1 DEF Grant
      <4>3. QED
        BY <3>1, <4>2 DEF GrantOK
    <3>3. grants' = [grants EXCEPT ![c] = n]
      BY <2>6 DEF Renew
    <3> HIDE DEF g, n
    <3>4. QED
      BY <2>1, <3>2, <3>3 DEF TypeOK
  <2>7. grants' \in [Codes -> Grant] /\ \A d \in Codes : GrantOK(grants'[d])
    BY <1>9, <2>6 DEF RefreshToken, TypeOK
  <2>8. faults' \in Nat
    BY <1>9 DEF RefreshToken, Interrupted, TypeOK
  <2>9. QED
    BY <1>9, <2>5, <2>7, <2>8 DEF RefreshToken, Silent, TypeOK, StoreTypeOK, storeVars
<1>10. ASSUME NEW w \in Workers, SaveToken(w)
       PROVE  TypeInv'
  <2>1. h[w].pc \in Carrying
    BY <1>10 DEF SaveToken, Carrying, Refreshing
  <2>2. StoreTypeOK(Token)' /\ faults' \in Nat
    BY <1>10, <2>1, SavedType DEF SaveToken
  <2>3. TokenAnswer(h[w].key, h[w].acct.at) \in Answer
    BY <2>1 DEF HandlerOK, TokenAnswer, Answer, Account
  <2>4. QED
    BY <1>10, <2>2, <2>3, ReplyType DEF SaveToken, TypeOK
<1>11. ASSUME NEW w \in Workers, SaveExpired(w)
       PROVE  TypeInv'
  <2>1. h[w].pc \in Carrying
    BY <1>11 DEF SaveExpired, Carrying, Refreshing
  <2>2. StoreTypeOK(Token)' /\ faults' \in Nat
    BY <1>11, <2>1, SavedType DEF SaveExpired
  <2>3. QED
    BY <1>11, <2>2, ReplyType DEF SaveExpired, TypeOK
<1>12. ASSUME NEW u \in Users, NEW id \in 1 .. MaxIds, DeleteAccount(u, id)
       PROVE  TypeInv'
  BY <1>12 DEF DeleteAccount, DeleteConnectedAccount, Silent, TypeOK, StoreTypeOK
<1>13. ASSUME NEW w \in Workers, ClientLeaves(w)
       PROVE  TypeInv'
  <2> DEFINE x == [h[w] EXCEPT !.live = FALSE]
  <2>1. x \in Handler /\ HandlerOK(x)
    BY DEF TypeOK, Handler, HandlerOK
  <2>2. h' \in [Workers -> Handler] /\ \A v \in Workers : HandlerOK(h'[v])
    BY <1>13, <2>1, HandlersType DEF ClientLeaves, Leave
  <2>3. QED
    <3>1. StoreTypeOK(Token)' /\ faults' \in Nat
      BY <1>13 DEF ClientLeaves, Leave, TypeOK, StoreTypeOK, storeVars
    <3>2. QED
      BY <1>13, <2>2, <3>1 DEF ClientLeaves, Leave, Silent, TypeOK
<1>14. ASSUME NEW w \in Workers, Crash(w)
       PROVE  TypeInv'
  BY <1>14, ReplyType DEF Crash, Die, TypeOK, StoreTypeOK, storeVars
<1>15. CASE ClockTick
  BY <1>15 DEF ClockTick, Tick, Silent, TypeOK, StoreTypeOK
<1>16. CASE UNCHANGED vars
  BY <1>16 DEF vars, storeVars, requestVars, TypeOK, StoreTypeOK
<1>17. QED
  BY <1>1, <1>2, <1>3, <1>4, <1>5, <1>6, <1>7, <1>8, <1>9, <1>10, <1>11,
     <1>12, <1>13, <1>14, <1>15, <1>16 DEF Next, HandlerStep

(* Every reachable state is well typed. *)
THEOREM TypeCorrect == Spec => []TypeOK
<1>1. Spec => []TypeInv
  BY TypeInit, TypeNext, PTL DEF Spec
<1>2. TypeInv => TypeOK
  BY DEF TypeInv
<1>3. QED
  BY <1>1, <1>2, PTL

-----------------------------------------------------------------------------
(* Provenance.  A pending auth, a consent and a handler completing a        *)
(* connection agree on whose it is, and what the provider has issued stays  *)
(* issued.                                                                  *)

Linked ==
    /\ \A s \in States : pendings[s] # Null => pendings[s].key = urls[s]
    /\ \A c \in Codes : grants[c].stage # "unused" => grants[c].key = urls[grants[c].state]
    /\ \A s \in States : urls[s] = Null => pendings[s] = Null
    /\ \A w \in Workers : h[w].pc \in {"exchange", "saveAccount"} =>
          /\ grants[h[w].code].stage # "unused"
          /\ h[w].key = grants[h[w].code].key

Issued(g) == g.stage \in {"live", "revoked"}

GrantsGrow ==
    \A c \in Codes :
        /\ grants[c].stage # "unused" =>
             /\ grants'[c].stage # "unused"
             /\ grants'[c].key = grants[c].key /\ grants'[c].state = grants[c].state
        /\ Issued(grants[c]) => Issued(grants'[c])
        /\ grants[c].gen <= grants'[c].gen

LEMMA StepGrows == TypeInv /\ [Next]_vars => GrantsGrow
<1> SUFFICES ASSUME TypeInv, [Next]_vars PROVE GrantsGrow
  OBVIOUS
<1>1. grants \in [Codes -> Grant]
  BY DEF TypeInv, TypeOK
<1>2. CASE UNCHANGED grants
  BY <1>1, <1>2 DEF GrantsGrow, Grant
<1>3. ASSUME NEW s \in States, NEW c \in Codes, Consent(s, c)
      PROVE  GrantsGrow
  BY <1>1, <1>3 DEF Consent, GrantsGrow, Issued, Grant
<1>4. ASSUME NEW c \in Codes, Revoke(c)
      PROVE  GrantsGrow
  BY <1>1, <1>4 DEF Revoke, GrantsGrow, Issued, Grant
<1>5. ASSUME NEW c \in Codes, grants[c].stage = "issued", SpendCode(c)
      PROVE  GrantsGrow
  BY <1>1, <1>5 DEF SpendCode, GrantsGrow, Issued, Grant
<1>6. ASSUME NEW c \in Codes, NEW shape, Renew(c, shape)
      PROVE  GrantsGrow
  <2> DEFINE g == grants[c]
             n == [g EXCEPT !.gen = g.gen + 1,
                            !.rt = IF shape.rt THEN g.gen + 1 ELSE g.rt]
  <2>1. g \in Grant
    BY <1>1
  <2>2. /\ n.stage = g.stage /\ n.key = g.key /\ n.state = g.state
        /\ g.gen <= n.gen
    BY <2>1 DEF Grant
  <2>3. grants' = [grants EXCEPT ![c] = n]
    BY <1>6 DEF Renew
  <2> HIDE DEF n
  <2>4. QED
    BY <1>1, <2>2, <2>3 DEF GrantsGrow, Issued, Grant
<1>7. ASSUME NEW w \in Workers, ExchangeCode(w)
      PROVE  GrantsGrow
  <2>1. h[w].code \in Codes
    BY <1>7 DEF ExchangeCode, TypeInv, HandlerOK, Completing
  <2>2. QED
    BY <1>2, <1>5, <1>7, <2>1 DEF ExchangeCode
<1>8. ASSUME NEW w \in Workers, RefreshToken(w)
      PROVE  GrantsGrow
  <2>1. h[w].acct.rt.code \in Codes
    BY <1>8 DEF RefreshToken, TypeInv, HandlerOK, Refreshing, Token
  <2>2. QED
    BY <1>2, <1>6, <1>8, <2>1 DEF RefreshToken
<1>9. QED
  BY <1>2, <1>3, <1>4, <1>7, <1>8
  DEF Next, HandlerStep, vars, requestVars, InitiateOAuth, HandleCallback, GetActiveToken,
      SaveAccount, DropPending, SaveToken, SaveExpired, DeleteAccount,
      ClientLeaves, Leave, Crash, Die, ClockTick

LEMMA LinkedInit == Init => Linked
BY DEF Init, StoreInit, RequestsInit, Linked, Idle

LEMMA LinkedNext == TypeInv /\ Linked /\ [Next]_vars => Linked'
<1> SUFFICES ASSUME TypeInv, Linked, [Next]_vars PROVE Linked'
  OBVIOUS
<1> DEFINE Books == /\ \A s \in States : pendings[s] # Null => pendings[s].key = urls[s]
                    /\ \A c \in Codes : grants[c].stage # "unused" =>
                                            grants[c].key = urls[grants[c].state]
                    /\ \A s \in States : urls[s] = Null => pendings[s] = Null
           Mine(w) == h[w].pc \in {"exchange", "saveAccount"} =>
                        /\ grants[h[w].code].stage # "unused"
                        /\ h[w].key = grants[h[w].code].key
<1>1. GrantsGrow
  BY StepGrows
<1>2. /\ grants \in [Codes -> Grant] /\ h \in [Workers -> Handler]
      /\ urls \in [States -> Keys \cup {Null}]
      /\ pendings \in [States -> PendingAuth \cup {Null}]
      /\ \A c \in Codes : grants[c].stage # "unused" => grants[c].state \in States
      /\ \A w \in Workers : h[w].pc \in {"exchange", "saveAccount"} => h[w].code \in Codes
  BY DEF TypeInv, TypeOK, StoreTypeOK, HandlerOK, GrantOK, Completing
<1>3. Books'
  <2>1. CASE UNCHANGED <<pendings, urls, grants>>
    BY <2>1 DEF Linked
  <2>2. ASSUME NEW u \in Users, NEW p \in Platforms, NEW s \in States,
               InitiateOAuth(u, p, s)
        PROVE  Books'
    <3>1. <<u, p>> \in Keys
      BY DEF Keys
    <3>2. \A c \in Codes : grants[c].stage # "unused" => grants[c].state # s
      <4>1. \A c \in Codes : grants[c].stage # "unused" => grants[c].key \in Keys
        BY DEF TypeInv, GrantOK
      <4>2. urls[s] \notin Keys
        BY <2>2, StoreAssumption DEF InitiateOAuth
      <4>3. QED
        BY <4>1, <4>2 DEF Linked
    <3>3. QED
      BY <1>2, <2>2, <3>1, <3>2, StoreAssumption
      DEF InitiateOAuth, SavePendingAuth, Linked
  <2>3. ASSUME NEW s \in States, NEW c \in Codes, Consent(s, c)
        PROVE  Books'
    BY <1>2, <2>3 DEF Consent, Linked, storeVars
  <2>4. ASSUME UNCHANGED <<pendings, urls>>,
               \A c \in Codes : grants[c].stage = "unused" => grants'[c].stage = "unused"
        PROVE  Books'
    BY <1>1, <1>2, <2>4 DEF Linked, GrantsGrow
  <2>5. ASSUME NEW c \in Codes, Revoke(c)
        PROVE  Books'
    BY <1>2, <2>4, <2>5 DEF Revoke, storeVars
  <2>6. ASSUME NEW w \in Workers, ExchangeCode(w)
        PROVE  Books'
    <3>1. h[w].code \in Codes
      BY <1>2, <2>6 DEF ExchangeCode
    <3>2. QED
      BY <1>2, <2>1, <2>4, <2>6, <3>1 DEF ExchangeCode, SpendCode, storeVars
  <2>7. ASSUME NEW w \in Workers, RefreshToken(w)
        PROVE  Books'
    <3>1. h[w].acct.rt.code \in Codes
      BY <2>7 DEF RefreshToken, TypeInv, HandlerOK, Refreshing, Token
    <3>2. UNCHANGED <<pendings, urls>>
      BY <2>7 DEF RefreshToken, storeVars
    <3>3. \A c \in Codes : grants'[c].stage = grants[c].stage
      <4>1. ASSUME NEW c \in Codes, NEW shape, Renew(c, shape)
            PROVE  \A d \in Codes : grants'[d].stage = grants[d].stage
        <5> DEFINE g == grants[c]
                   n == [g EXCEPT !.gen = g.gen + 1,
                                  !.rt = IF shape.rt THEN g.gen + 1 ELSE g.rt]
        <5>1. n.stage = g.stage
          BY <1>2 DEF Grant
        <5>2. grants' = [grants EXCEPT ![c] = n]
          BY <4>1 DEF Renew
        <5> HIDE DEF n
        <5>3. QED
          BY <1>2, <5>1, <5>2
      <4>2. QED
        BY <2>7, <3>1, <4>1 DEF RefreshToken
    <3>4. QED
      BY <2>4, <3>2, <3>3
  <2>8. ASSUME NEW w \in Workers, DropPending(w)
        PROVE  Books'
    BY <1>2, <2>8 DEF DropPending, Dropped, DeletePendingAuth, Linked
  <2>9. QED
    BY <2>1, <2>2, <2>3, <2>5, <2>6, <2>7, <2>8
    DEF Next, HandlerStep, vars, storeVars, requestVars, HandleCallback, GetActiveToken,
        SaveAccount, SaveToken, SaveExpired, DeleteAccount,
        ClientLeaves, Leave, Crash, Die, ClockTick, Tick
<1>4. ASSUME NEW v \in Workers PROVE Mine(v)'
  <2>1. CASE h'[v] = h[v]
    BY <1>1, <1>2, <2>1 DEF Linked, GrantsGrow
  <2>2. CASE h'[v].pc \notin {"exchange", "saveAccount"}
    BY <2>2
  <2>3. CASE /\ h[v].pc = "exchange" /\ h'[v].key = h[v].key /\ h'[v].code = h[v].code
    BY <1>1, <1>2, <2>3 DEF Linked, GrantsGrow
  <2>4. ASSUME NEW c \in Codes, NEW p \in Platforms, HandleCallback(v, c, p)
        PROVE  Mine(v)'
    <3>1. CASE Reply(v, Null)
      BY <1>2, <3>1, <2>2 DEF Reply, Idle
    <3>2. CASE LinkUsable(grants[c].state)
               /\ h' = [h EXCEPT ![v] = [@ EXCEPT !.pc = "exchange", !.code = c,
                            !.state = grants[c].state,
                            !.key = GetPendingAuth(grants[c].state).key]]
      <4>1. /\ grants[c].state \in States /\ grants[c].key = urls[grants[c].state]
            /\ pendings[grants[c].state] # Null
        BY <1>2, <2>4, <3>2 DEF HandleCallback, LinkUsable, GetPendingAuth, Linked
      <4>2. h'[v].code = c /\ h'[v].key = pendings[grants[c].state].key
        BY <1>2, <3>2 DEF GetPendingAuth, Handler
      <4>3. QED
        BY <2>4, <4>1, <4>2 DEF HandleCallback, Linked
    <3>3. QED
      BY <2>4, <3>1, <3>2 DEF HandleCallback
  <2>5. ASSUME NEW w \in Workers, HandlerStep(w) \/ ClientLeaves(w) \/ Crash(w),
               w # v
        PROVE  Mine(v)'
    BY <1>2, <2>1, <2>5
    DEF HandlerStep, ExchangeCode, SaveAccount, DropPending, RefreshToken,
        SaveToken, SaveExpired, ClientLeaves, Leave, Crash, Die, Reply, Proceed
  <2>6. CASE HandlerStep(v) \/ ClientLeaves(v) \/ Crash(v)
    <3> DEFINE Gone == \E a : Reply(v, a)
    <3>0. Gone => Mine(v)'
      BY <1>2, <2>2 DEF Reply, Idle
    <3>1. CASE ExchangeCode(v)
      <4>1. ASSUME NEW a, Proceed(v, "saveAccount", a)
            PROVE  Mine(v)'
        BY <1>2, <2>3, <3>1, <4>1 DEF ExchangeCode, Proceed, Handler
      <4>2. QED
        BY <3>0, <3>1, <4>1 DEF ExchangeCode
    <3>2. CASE ClientLeaves(v)
      BY <1>1, <1>2, <3>2 DEF ClientLeaves, Leave, Handler, Linked, GrantsGrow
    <3>3. CASE SaveAccount(v) \/ RefreshToken(v)
      <4>1. ASSUME NEW pc \in {"dropPending", "saveToken", "saveExpired"}, NEW a,
                   Proceed(v, pc, a)
            PROVE  Mine(v)'
        BY <1>2, <2>2, <4>1 DEF Proceed, Handler
      <4>2. QED
        BY <3>0, <3>3, <4>1 DEF SaveAccount, RefreshToken
    <3>4. CASE DropPending(v) \/ SaveToken(v) \/ SaveExpired(v) \/ Crash(v)
      BY <3>0, <3>4 DEF DropPending, SaveToken, SaveExpired, Crash, Die
    <3>5. QED
      BY <2>6, <3>1, <3>2, <3>3, <3>4 DEF HandlerStep
  <2>7. ASSUME NEW w \in Workers, NEW c \in Codes, NEW p \in Platforms,
               HandleCallback(w, c, p), w # v
        PROVE  Mine(v)'
    BY <1>2, <2>1, <2>7 DEF HandleCallback, Reply
  <2>8. ASSUME NEW w \in Workers, NEW k \in Keys, GetActiveToken(w, k)
        PROVE  Mine(v)'
    <3>1. CASE w # v
      BY <1>2, <2>1, <2>8, <3>1 DEF GetActiveToken, Reply
    <3>2. CASE w = v
      <4>1. CASE \E a : Reply(v, a)
        BY <1>2, <2>2, <4>1 DEF Reply, Idle
      <4>2. CASE h' = [h EXCEPT ![v] = [@ EXCEPT !.pc = "refresh", !.key = k,
                                                 !.acct = rows[k]]]
        BY <1>2, <2>2, <4>2 DEF Handler
      <4>3. QED
        BY <2>8, <3>2, <4>1, <4>2 DEF GetActiveToken
    <3>3. QED
      BY <3>1, <3>2
  <2>9. CASE UNCHANGED h
    BY <2>1, <2>9
  <2>10. QED
    BY <2>4, <2>5, <2>6, <2>7, <2>8, <2>9
    DEF Next, vars, requestVars, InitiateOAuth, Consent, Revoke, DeleteAccount, ClockTick
<1>5. QED
  BY <1>3, <1>4 DEF Linked

-----------------------------------------------------------------------------
(* Where a step takes a row, a handler's copy and an answer from. *)

Same(a, b) == a.at = b.at /\ a.rt = b.rt /\ a.exp = b.exp /\ a.status = b.status

RowFrom(k) ==
    \/ rows'[k] = Null
    \/ rows'[k] = rows[k]
    \/ \E w \in Workers : /\ h[w].pc \in {"saveAccount", "saveToken", "saveExpired"}
                          /\ h[w].key = k
                          /\ Same(rows'[k], h[w].acct)

CopyFrom(w) ==
    \/ h'[w].pc \notin Carrying
    \/ h'[w].pc = h[w].pc /\ h'[w].key = h[w].key /\ h'[w].acct = h[w].acct
    \/ /\ h'[w].pc = "refresh" /\ h'[w].key \in Keys
       /\ rows[h'[w].key] # Null /\ h'[w].acct = rows[h'[w].key]
       /\ IsActive(h'[w].acct) /\ NeedsRefresh(h'[w].acct) /\ now' = now
    \/ /\ h[w].pc = "exchange" /\ h'[w].pc = "saveAccount" /\ h'[w].key = h[w].key
       /\ grants'[h[w].code].stage = "live"
       /\ \E shape \in ExchangeShapes : h'[w].acct = NewAccount(h[w].code, shape)
    \/ /\ h[w].pc = "refresh" /\ h'[w].pc = "saveToken" /\ h'[w].key = h[w].key
       /\ Honoured(h[w].acct.rt)
       /\ \E shape \in RefreshShapes :
             Renew(h[w].acct.rt.code, shape) /\ h'[w].acct = Refreshed(h[w].acct, shape)
    \/ /\ h[w].pc = "refresh" /\ h'[w].pc = "saveExpired" /\ h'[w].key = h[w].key
       /\ h'[w].acct = Failed(h[w].acct)
    \/ /\ h[w].pc = "exchange" /\ h'[w].pc = "saveAccount" /\ h'[w].key = h[w].key
       /\ "body" \in Refusals /\ h'[w].acct = Blank
    \/ /\ h[w].pc = "refresh" /\ h'[w].pc = "saveToken" /\ h'[w].key = h[w].key
       /\ "body" \in Refusals /\ h'[w].acct = Emptied(h[w].acct)

AnswerFrom ==
    \/ answer' = Null
    \/ answer' = answer
    \/ answer'.token = Null
    \/ \E k \in Keys : rows[k] # Null /\ answer' = TokenAnswer(k, rows[k].at)
    \/ \E w \in Workers : /\ h[w].pc = "saveToken"
                          /\ answer' = TokenAnswer(h[w].key, h[w].acct.at)

LEMMA StepRows == TypeInv /\ [Next]_vars => \A k \in Keys : RowFrom(k)
<1> SUFFICES ASSUME TypeInv, [Next]_vars, NEW k \in Keys PROVE RowFrom(k)
  OBVIOUS
<1>1. rows \in [Keys -> Account(Token) \cup {Null}]
  BY DEF TypeInv, TypeOK, StoreTypeOK
<1>2. CASE UNCHANGED rows
  BY <1>2 DEF RowFrom
<1>3. ASSUME NEW w \in Workers, NEW ok \in BOOLEAN, Saved(w, ok),
             h[w].pc \in {"saveAccount", "saveToken", "saveExpired"}
      PROVE  RowFrom(k)
  <2>1. h[w].key \in Keys /\ h[w].acct \in Account(Token)
    BY <1>3 DEF TypeInv, HandlerOK, Carrying, Refreshing
  <2>2. CASE UpsertConnectedAccount(h[w].key, h[w].acct)
    <3>1. CASE h[w].key # k
      BY <1>1, <2>2, <3>1 DEF UpsertConnectedAccount, RowFrom
    <3>2. CASE h[w].key = k
      <4>1. \A i : Same([h[w].acct EXCEPT !.id = i], h[w].acct)
        BY <2>1 DEF Same, Account
      <4>2. Same(rows'[k], h[w].acct)
        BY <1>1, <2>2, <3>2, <4>1 DEF UpsertConnectedAccount
      <4>3. QED
        BY <1>3, <3>2, <4>2 DEF RowFrom
    <3>3. QED
      BY <3>1, <3>2
  <2>3. QED
    BY <1>2, <1>3, <2>2 DEF Saved
<1>4. ASSUME NEW u \in Users, NEW id \in 1 .. MaxIds, DeleteAccount(u, id)
      PROVE  RowFrom(k)
  BY <1>4 DEF DeleteAccount, DeleteConnectedAccount, RowFrom
<1>5. QED
  BY <1>2, <1>3, <1>4
  DEF Next, HandlerStep, vars, storeVars, requestVars, InitiateOAuth, Consent, Revoke,
      HandleCallback, GetActiveToken, ExchangeCode, SaveAccount, DropPending,
      RefreshToken, SaveToken, SaveExpired, ClientLeaves, Leave, Crash, Die, ClockTick, Tick

LEMMA StepCopies == TypeInv /\ [Next]_vars => \A w \in Workers : CopyFrom(w)
<1> SUFFICES ASSUME TypeInv, [Next]_vars, NEW v \in Workers PROVE CopyFrom(v)
  OBVIOUS
<1>1. h \in [Workers -> Handler] /\ grants \in [Codes -> Grant]
  BY DEF TypeInv, TypeOK
<1>2. CASE UNCHANGED h[v]
  BY <1>2 DEF CopyFrom
<1>3. ASSUME NEW a, Reply(v, a)
      PROVE  CopyFrom(v)
  BY <1>1, <1>3 DEF Reply, Idle, CopyFrom, Carrying, Refreshing
<1>4. ASSUME NEW pc, NEW a, Proceed(v, pc, a)
      PROVE  h'[v].pc = pc /\ h'[v].acct = a /\ h'[v].key = h[v].key
  BY <1>1, <1>4 DEF Proceed, Handler
<1>5. ASSUME NEW c \in Codes, NEW p \in Platforms, HandleCallback(v, c, p)
      PROVE  CopyFrom(v)
  <2>1. CASE h' = [h EXCEPT ![v] = [@ EXCEPT !.pc = "exchange", !.code = c,
                        !.state = grants[c].state,
                        !.key = GetPendingAuth(grants[c].state).key]]
    <3>1. h'[v].pc = "exchange"
      BY <1>1, <2>1 DEF Handler
    <3>2. QED
      BY <3>1 DEF CopyFrom, Carrying, Refreshing
  <2>2. QED
    BY <1>3, <1>5, <2>1 DEF HandleCallback
<1>6. ASSUME NEW k \in Keys, GetActiveToken(v, k)
      PROVE  CopyFrom(v)
  <2>1. CASE /\ rows[k] # Null /\ IsActive(rows[k]) /\ NeedsRefresh(rows[k])
             /\ h' = [h EXCEPT ![v] = [@ EXCEPT !.pc = "refresh", !.key = k,
                                                !.acct = rows[k]]]
    <3>1. h'[v].pc = "refresh" /\ h'[v].key = k /\ h'[v].acct = rows[k]
      BY <1>1, <2>1 DEF Handler
    <3>2. now' = now
      BY <1>6 DEF GetActiveToken, storeVars
    <3>3. QED
      BY <2>1, <3>1, <3>2 DEF CopyFrom
  <2>2. QED
    BY <1>3, <1>6, <2>1 DEF GetActiveToken
<1>7. CASE ExchangeCode(v)
  <2> DEFINE c == h[v].code
  <2>1. c \in Codes
    BY <1>7 DEF ExchangeCode, TypeInv, HandlerOK, Completing
  <2>2. ASSUME NEW shape \in ExchangeShapes, SpendCode(c),
               Proceed(v, "saveAccount", NewAccount(c, shape))
        PROVE  CopyFrom(v)
    <3>1. grants'[c].stage = "live"
      BY <1>1, <2>1, <2>2 DEF SpendCode, Grant
    <3>2. QED
      BY <1>4, <1>7, <2>2, <3>1 DEF ExchangeCode, CopyFrom
  <2>3. CASE "body" \in Refusals /\ Proceed(v, "saveAccount", Blank)
    BY <1>4, <1>7, <2>3 DEF ExchangeCode, CopyFrom
  <2>4. QED
    BY <1>3, <1>7, <2>2, <2>3 DEF ExchangeCode
<1>8. CASE SaveAccount(v)
  <2>1. ASSUME Proceed(v, "dropPending", Null)
        PROVE  CopyFrom(v)
    <3>1. h'[v].pc \notin Carrying
      BY <1>4, <2>1 DEF Carrying, Refreshing
    <3>2. QED
      BY <3>1 DEF CopyFrom
  <2>2. QED
    BY <1>3, <1>8, <2>1 DEF SaveAccount
<1>9. CASE RefreshToken(v)
  <2>1. h[v].pc = "refresh"
    BY <1>9 DEF RefreshToken
  <2>2. ASSUME NEW shape \in RefreshShapes, Honoured(h[v].acct.rt),
               Renew(h[v].acct.rt.code, shape),
               Proceed(v, "saveToken", Refreshed(h[v].acct, shape))
        PROVE  CopyFrom(v)
    BY <1>4, <2>1, <2>2 DEF CopyFrom
  <2>3. ASSUME Proceed(v, "saveExpired", Failed(h[v].acct))
        PROVE  CopyFrom(v)
    BY <1>4, <2>1, <2>3 DEF CopyFrom
  <2>4. CASE "body" \in Refusals /\ Proceed(v, "saveToken", Emptied(h[v].acct))
    BY <1>4, <2>1, <2>4 DEF CopyFrom
  <2>5. QED
    BY <1>9, <2>2, <2>3, <2>4 DEF RefreshToken
<1>10. CASE ClientLeaves(v)
  <2>1. h'[v].pc = h[v].pc /\ h'[v].key = h[v].key /\ h'[v].acct = h[v].acct
    BY <1>1, <1>10 DEF ClientLeaves, Leave, Handler
  <2>2. QED
    BY <2>1 DEF CopyFrom
<1>11. CASE DropPending(v) \/ SaveToken(v) \/ SaveExpired(v) \/ Crash(v)
  BY <1>3, <1>11 DEF DropPending, SaveToken, SaveExpired, Crash, Die
<1>12. ASSUME NEW w \in Workers, w # v,
              \/ HandlerStep(w) \/ ClientLeaves(w) \/ Crash(w)
              \/ \E c \in Codes, p \in Platforms : HandleCallback(w, c, p)
              \/ \E k \in Keys : GetActiveToken(w, k)
       PROVE  CopyFrom(v)
  BY <1>1, <1>2, <1>12
  DEF HandlerStep, ExchangeCode, SaveAccount, DropPending, RefreshToken,
      SaveToken, SaveExpired, ClientLeaves, Leave, Crash, Die, HandleCallback,
      GetActiveToken, Reply, Proceed
<1>13. CASE UNCHANGED h
  BY <1>2, <1>13
<1>14. QED
  BY <1>5, <1>6, <1>7, <1>8, <1>9, <1>10, <1>11, <1>12, <1>13
  DEF Next, HandlerStep, vars, requestVars, InitiateOAuth, Consent, Revoke, DeleteAccount, ClockTick

LEMMA StepAnswer == TypeInv /\ [Next]_vars => AnswerFrom
<1> SUFFICES ASSUME TypeInv, [Next]_vars PROVE AnswerFrom
  OBVIOUS
<1>1. CASE answer' = Null
  BY <1>1 DEF AnswerFrom
<1>2. ASSUME NEW w \in Workers, DropPending(w)
      PROVE  AnswerFrom
  BY <1>2 DEF DropPending, Reply, AnswerFrom
<1>3. ASSUME NEW w \in Workers, SaveToken(w)
      PROVE  AnswerFrom
  BY <1>3 DEF SaveToken, Reply, AnswerFrom
<1>4. ASSUME NEW w \in Workers, NEW k \in Keys, GetActiveToken(w, k)
      PROVE  AnswerFrom
  BY <1>1, <1>4 DEF GetActiveToken, Reply, Silent, AnswerFrom
<1>5. CASE UNCHANGED vars
  BY <1>5 DEF vars, requestVars, AnswerFrom
<1>6. QED
  BY <1>1, <1>2, <1>3, <1>4, <1>5
  DEF Next, HandlerStep, InitiateOAuth, Consent, Revoke, HandleCallback,
      ExchangeCode, SaveAccount, RefreshToken, SaveExpired, DeleteAccount,
      ClientLeaves, Leave, Crash, Die, ClockTick, Reply, Silent

-----------------------------------------------------------------------------
(* TokenIsolation.  Together with Linked it is inductive. *)

IssuedIn(g, k) == {t \in Token : Issued(g[t.code]) /\ g[t.code].key = k
                                 /\ t.gen <= g[t.code].gen}

Good(g, k, a) == {a.at, a.rt} \subseteq IssuedIn(g, k) \cup {Null}

Isolated ==
    /\ \A k \in Keys : rows[k] # Null => Good(grants, k, rows[k])
    /\ \A w \in Workers : h[w].acct # Null => Good(grants, h[w].key, h[w].acct)
    /\ answer # Null => answer.token \in IssuedIn(grants, answer.key) \cup {Null}

LEMMA IsolationForm == TokenIsolation <=> Isolated
<1>1. \A k : IssuedFor(k) = IssuedIn(grants, k)
  BY DEF IssuedFor, IssuedIn, Issued
<1>2. QED
  BY <1>1 DEF TokenIsolation, Isolated, Good

LEMMA IssuedStays ==
    ASSUME TypeInv, [Next]_vars
    PROVE  \A k : IssuedIn(grants, k) \subseteq IssuedIn(grants', k)
<1>1. GrantsGrow /\ TypeInv'
  BY StepGrows, TypeNext
<1>2. SUFFICES ASSUME NEW k, NEW t \in IssuedIn(grants, k)
               PROVE  t \in IssuedIn(grants', k)
  OBVIOUS
<1>3. /\ t \in Token /\ t.code \in Codes /\ t.gen \in Nat
      /\ grants[t.code].gen \in Nat /\ grants'[t.code].gen \in Nat
  BY <1>1 DEF IssuedIn, Token, TypeInv, TypeOK, Grant
<1>4. t.gen <= grants'[t.code].gen
  BY <1>1, <1>3 DEF IssuedIn, GrantsGrow
<1>5. QED
  BY <1>1, <1>3, <1>4 DEF IssuedIn, GrantsGrow, Issued

LEMMA IsolationInit == Init => Isolated
BY DEF Init, StoreInit, RequestsInit, Isolated, Idle

LEMMA IsolationNext == TypeInv /\ Linked /\ Isolated /\ [Next]_vars => Isolated'
<1> SUFFICES ASSUME TypeInv, Linked, Isolated, [Next]_vars
             PROVE  Isolated'
  OBVIOUS
<1>1. TypeInv'
  BY TypeNext
<1>2. \A k, a : Good(grants, k, a) => Good(grants', k, a)
  BY IssuedStays DEF Good
<1>3. ASSUME NEW w \in Workers, h[w].pc \in Carrying
      PROVE  Good(grants, h[w].key, h[w].acct) /\ h[w].acct # Null
  BY <1>3, OAuthAssumption DEF Isolated, TypeInv, HandlerOK
<1>4. ASSUME NEW k \in Keys, rows'[k] # Null
      PROVE  Good(grants', k, rows'[k])
  <2>1. CASE rows'[k] = rows[k]
    BY <1>2, <1>4, <2>1 DEF Isolated
  <2>2. ASSUME NEW w \in Workers, Same(rows'[k], h[w].acct), h[w].key = k,
               h[w].pc \in {"saveAccount", "saveToken", "saveExpired"}
        PROVE  Good(grants', k, rows'[k])
    <3>1. Good(grants', k, h[w].acct)
      BY <1>2, <1>3, <2>2 DEF Carrying, Refreshing
    <3>2. QED
      BY <2>2, <3>1 DEF Same, Good
  <2>3. QED
    BY <1>4, <2>1, <2>2, StepRows DEF RowFrom
<1>5. ASSUME NEW w \in Workers, h'[w].acct # Null
      PROVE  Good(grants', h'[w].key, h'[w].acct)
  <2>1. h'[w].pc \in Carrying
    BY <1>1, <1>5 DEF TypeInv, HandlerOK
  <2>2. CASE h'[w].key = h[w].key /\ h'[w].acct = h[w].acct
    BY <1>2, <1>5, <2>2 DEF Isolated
  <2>3. CASE /\ h'[w].key \in Keys /\ rows[h'[w].key] # Null
             /\ h'[w].acct = rows[h'[w].key]
    BY <1>2, <2>3 DEF Isolated
  <2>4. ASSUME h[w].pc = "exchange", h'[w].key = h[w].key,
               grants'[h[w].code].stage = "live",
               NEW shape \in ExchangeShapes, h'[w].acct = NewAccount(h[w].code, shape)
        PROVE  Good(grants', h'[w].key, h'[w].acct)
    <3> DEFINE c == h[w].code
               t == [code |-> c, gen |-> 0]
    <3>1. c \in Codes
      BY <2>4 DEF TypeInv, HandlerOK, Completing
    <3>2. grants'[c].key = h'[w].key
      BY <2>4, <3>1, StepGrows DEF Linked, GrantsGrow
    <3>3. t \in IssuedIn(grants', h'[w].key)
      BY <1>1, <2>4, <3>1, <3>2 DEF IssuedIn, Issued, Token, TypeInv, TypeOK, Grant
    <3>4. h'[w].acct.at = t /\ h'[w].acct.rt \in {t, Null}
      BY <2>4 DEF NewAccount
    <3>5. QED
      BY <3>3, <3>4 DEF Good
  <2>5. ASSUME h[w].pc = "refresh", h'[w].key = h[w].key,
               NEW shape \in RefreshShapes, Renew(h[w].acct.rt.code, shape),
               h'[w].acct = Refreshed(h[w].acct, shape)
        PROVE  Good(grants', h'[w].key, h'[w].acct)
    <3> DEFINE a == h[w].acct
               c == a.rt.code
               new == [code |-> c, gen |-> grants[c].gen + 1]
    <3>1. a \in Account(Token) /\ a.rt \in Token /\ c \in Codes
      BY <2>5 DEF TypeInv, HandlerOK, Carrying, Refreshing, Token
    <3>2. a.rt \in IssuedIn(grants, h[w].key)
      BY <1>3, <2>5, <3>1, OAuthAssumption DEF Good, Carrying, Refreshing
    <3>3. a.rt \in IssuedIn(grants', h[w].key)
      BY <3>2, IssuedStays
    <3>4. grants'[c].gen = grants[c].gen + 1
      <4> DEFINE g == grants[c]
                 n == [g EXCEPT !.gen = g.gen + 1,
                                !.rt = IF shape.rt THEN g.gen + 1 ELSE g.rt]
      <4>1. n.gen = g.gen + 1
        BY <3>1 DEF TypeInv, TypeOK, Grant
      <4>2. grants' = [grants EXCEPT ![c] = n]
        BY <2>5 DEF Renew
      <4> HIDE DEF n
      <4>3. QED
        BY <3>1, <4>1, <4>2 DEF TypeInv, TypeOK
    <3>5. new \in Token
      BY <3>1 DEF Token, TypeInv, TypeOK, Grant
    <3>6. new \in IssuedIn(grants', h[w].key)
      <4>1. new.code = c /\ new.gen <= grants'[c].gen
        BY <1>1, <3>1, <3>4 DEF TypeInv, TypeOK, Grant
      <4>2. QED
        BY <3>3, <3>5, <4>1 DEF IssuedIn
    <3>7. h'[w].acct.at = new /\ h'[w].acct.rt \in {new, a.rt}
      BY <2>5, <3>1 DEF Refreshed, Account
    <3>8. QED
      BY <2>5, <3>3, <3>6, <3>7 DEF Good
  <2>6. ASSUME h[w].pc = "refresh", h'[w].key = h[w].key,
               h'[w].acct = Failed(h[w].acct)
        PROVE  Good(grants', h'[w].key, h'[w].acct)
    <3>1. h[w].acct \in Account(Token) /\ Good(grants', h[w].key, h[w].acct)
      BY <1>2, <1>3, <2>6 DEF TypeInv, HandlerOK, Carrying, Refreshing
    <3>2. h'[w].acct.at = h[w].acct.at /\ h'[w].acct.rt = h[w].acct.rt
      BY <2>6, <3>1 DEF Failed, Account
    <3>3. QED
      BY <2>6, <3>1, <3>2 DEF Good
  <2>7. CASE h'[w].acct = Blank
    BY <2>7 DEF Blank, Good
  <2>8. ASSUME h[w].pc = "refresh", h'[w].key = h[w].key,
               h'[w].acct = Emptied(h[w].acct)
        PROVE  Good(grants', h'[w].key, h'[w].acct)
    <3>1. h[w].acct \in Account(Token) /\ Good(grants', h[w].key, h[w].acct)
      BY <1>2, <1>3, <2>8 DEF TypeInv, HandlerOK, Carrying, Refreshing
    <3>2. h'[w].acct.at = Null /\ h'[w].acct.rt = h[w].acct.rt
      BY <2>8, <3>1 DEF Emptied, Account
    <3>3. QED
      BY <2>8, <3>1, <3>2 DEF Good
  <2>9. QED
    BY <2>1, <2>2, <2>3, <2>4, <2>5, <2>6, <2>7, <2>8, StepCopies DEF CopyFrom
<1>6. ASSUME answer' # Null
      PROVE  answer'.token \in IssuedIn(grants', answer'.key) \cup {Null}
  <2>1. CASE answer' = answer
    BY <1>6, <2>1, IssuedStays DEF Isolated
  <2>2. ASSUME NEW k \in Keys, rows[k] # Null, answer' = TokenAnswer(k, rows[k].at)
        PROVE  answer'.token \in IssuedIn(grants', answer'.key) \cup {Null}
    BY <2>2, IssuedStays DEF Isolated, Good, TokenAnswer
  <2>3. ASSUME NEW w \in Workers, h[w].pc = "saveToken",
               answer' = TokenAnswer(h[w].key, h[w].acct.at)
        PROVE  answer'.token \in IssuedIn(grants', answer'.key) \cup {Null}
    <3>1. Good(grants, h[w].key, h[w].acct)
      BY <1>3, <2>3 DEF Carrying, Refreshing
    <3>2. QED
      BY <2>3, <3>1, IssuedStays DEF Good, TokenAnswer
  <2>4. QED
    BY <1>6, <2>1, <2>2, <2>3, StepAnswer DEF AnswerFrom
<1>7. QED
  BY <1>4, <1>5, <1>6 DEF Isolated

(* A token stored, carried or handed out for a user and a platform was      *)
(* issued on a consent of that user for that platform (HandleCallback,      *)
(* GetActiveToken), for any number of users, platforms and handlers.        *)
THEOREM TokensIsolated == Spec => []TokenIsolation
<1> DEFINE IInv == TypeInv /\ Linked /\ Isolated
<1>1. Init => IInv
  BY TypeInit, LinkedInit, IsolationInit
<1>2. IInv /\ [Next]_vars => IInv'
  BY TypeNext, LinkedNext, IsolationNext
<1>3. IInv => TokenIsolation
  BY IsolationForm
<1>4. QED
  BY <1>1, <1>2, <1>3, PTL DEF Spec

-----------------------------------------------------------------------------
(* ExpiredOnlyIfPast.  What a refresh has read as expired stays expired: a  *)
(* copy does not change and the clock does not go back.                     *)

Past(t, a) == a.exp # Never /\ t > a.exp

ExpiryInv ==
    /\ \A k \in Keys : rows[k] # Null /\ rows[k].status = "expired" => Past(now, rows[k])
    /\ \A w \in Workers :
          /\ h[w].pc \in {"refresh", "saveExpired"} => Past(now, h[w].acct)
          /\ h[w].pc \in {"saveAccount", "refresh", "saveToken"} => IsActive(h[w].acct)

LEMMA StepTime == TypeInv /\ [Next]_vars => now \in Nat /\ now' \in Nat /\ now <= now'
<1> SUFFICES ASSUME TypeInv, [Next]_vars
             PROVE  now \in Nat /\ now' \in Nat /\ now <= now'
  OBVIOUS
<1>1. now \in Nat
  BY DEF TypeInv, TypeOK, StoreTypeOK
<1>2. now' = now \/ now' = now + 1
  BY DEF Next, HandlerStep, vars, storeVars, requestVars, InitiateOAuth, Consent, Revoke,
         HandleCallback, GetActiveToken, ExchangeCode, SaveAccount, DropPending,
         RefreshToken, SaveToken, SaveExpired, DeleteAccount, ClientLeaves, Leave,
         Crash, Die, ClockTick, Tick
<1>3. QED
  BY <1>1, <1>2

LEMMA ExpiryInit == Init => ExpiryInv
BY DEF Init, StoreInit, RequestsInit, ExpiryInv, Idle

LEMMA ExpiryNext == TypeInv /\ ExpiryInv /\ [Next]_vars => ExpiryInv'
<1> SUFFICES ASSUME TypeInv, ExpiryInv, [Next]_vars PROVE ExpiryInv'
  OBVIOUS
<1>1. TypeInv'
  BY TypeNext
<1>2. ASSUME NEW a \in Account(Token), Past(now, a) PROVE Past(now', a)
  BY <1>2, StepTime DEF Past, Account, Never
<1>3. ASSUME NEW w \in Workers, h[w].pc \in Carrying PROVE h[w].acct \in Account(Token)
  BY <1>3 DEF TypeInv, HandlerOK
<1>4. ASSUME NEW k \in Keys, rows'[k] # Null, rows'[k].status = "expired"
      PROVE  Past(now', rows'[k])
  <2>1. CASE rows'[k] = rows[k]
    BY <1>2, <1>4, <2>1 DEF ExpiryInv, TypeInv, TypeOK, StoreTypeOK
  <2>2. ASSUME NEW w \in Workers, Same(rows'[k], h[w].acct),
               h[w].pc \in {"saveAccount", "saveToken", "saveExpired"}
        PROVE  Past(now', rows'[k])
    <3>1. h[w].pc = "saveExpired"
      BY <1>4, <2>2 DEF ExpiryInv, IsActive, Same
    <3>2. Past(now', h[w].acct)
      BY <1>2, <1>3, <3>1 DEF ExpiryInv, Carrying, Refreshing
    <3>3. QED
      BY <2>2, <3>2 DEF Same, Past
  <2>3. QED
    BY <1>4, <2>1, <2>2, StepRows DEF RowFrom
<1>5. ASSUME NEW w \in Workers
      PROVE  /\ h'[w].pc \in {"refresh", "saveExpired"} => Past(now', h'[w].acct)
             /\ h'[w].pc \in {"saveAccount", "refresh", "saveToken"} => IsActive(h'[w].acct)
  <2>1. CASE h'[w].pc \notin Carrying
    BY <2>1 DEF Carrying, Refreshing
  <2>2. CASE h'[w].pc = h[w].pc /\ h'[w].acct = h[w].acct
    BY <1>2, <1>3, <2>2 DEF ExpiryInv, Carrying, Refreshing
  <2>3. CASE /\ h'[w].pc = "refresh" /\ IsActive(h'[w].acct)
             /\ NeedsRefresh(h'[w].acct) /\ now' = now
    BY <2>3 DEF NeedsRefresh, IsExpired, Past
  <2>4. ASSUME h'[w].pc = "saveAccount",
               NEW shape \in ExchangeShapes, h'[w].acct = NewAccount(h[w].code, shape)
        PROVE  IsActive(h'[w].acct)
    BY <2>4 DEF NewAccount, IsActive
  <2>5. ASSUME h[w].pc = "refresh",
               NEW shape \in RefreshShapes, h'[w].acct = Refreshed(h[w].acct, shape)
        PROVE  IsActive(h'[w].acct)
    <3>1. h[w].acct \in Account(Token) /\ IsActive(h[w].acct)
      BY <1>3, <2>5 DEF ExpiryInv, Carrying, Refreshing
    <3>2. QED
      BY <2>5, <3>1 DEF Refreshed, IsActive, Account
  <2>6. ASSUME h[w].pc = "refresh", h'[w].acct = Failed(h[w].acct)
        PROVE  Past(now', h'[w].acct)
    <3>1. h[w].acct \in Account(Token) /\ Past(now', h[w].acct)
      BY <1>2, <1>3, <2>6 DEF ExpiryInv, Carrying, Refreshing
    <3>2. QED
      BY <2>6, <3>1 DEF Failed, Past, Account
  <2>7. CASE h'[w].pc = "saveAccount" /\ h'[w].acct = Blank
    BY <2>7 DEF Blank, IsActive
  <2>8. ASSUME h[w].pc = "refresh", h'[w].pc = "saveToken", h'[w].acct = Emptied(h[w].acct)
        PROVE  IsActive(h'[w].acct)
    <3>1. h[w].acct \in Account(Token) /\ IsActive(h[w].acct)
      BY <1>3, <2>8 DEF ExpiryInv, Carrying, Refreshing
    <3>2. QED
      BY <2>8, <3>1 DEF Emptied, IsActive, Account
  <2>9. QED
    BY <2>1, <2>2, <2>3, <2>4, <2>5, <2>6, <2>7, <2>8, StepCopies DEF CopyFrom
<1>6. QED
  BY <1>4, <1>5 DEF ExpiryInv, IsActive

(* The time of a row marked expired has passed, whatever reads              *)
(* and writes of GetActiveToken and HandleCallback overlap.                 *)
THEOREM ExpiredIsPast == Spec => []ExpiredOnlyIfPast
<1> DEFINE IInv == TypeInv /\ ExpiryInv
<1>1. Init => IInv
  BY TypeInit, ExpiryInit
<1>2. IInv /\ [Next]_vars => IInv'
  BY TypeNext, ExpiryNext
<1>3. IInv => ExpiredOnlyIfPast
  BY DEF ExpiryInv, ExpiredOnlyIfPast, IsExpired, Past
<1>4. QED
  BY <1>1, <1>2, <1>3, PTL DEF Spec

-----------------------------------------------------------------------------
(* Where every refusal is a status, what is stored or carried has a token.  *)

Tokened ==
    "body" \notin Refusals =>
        /\ \A k \in Keys : rows[k] # Null => rows[k].at \in Token
        /\ \A w \in Workers : h[w].pc \in Carrying => h[w].acct.at \in Token

LEMMA TokenedInit == Init => Tokened
BY DEF Init, StoreInit, RequestsInit, Tokened, Idle, Carrying, Refreshing

LEMMA TokenedNext == TypeInv /\ Tokened /\ [Next]_vars => Tokened'
<1> SUFFICES ASSUME TypeInv, Tokened, [Next]_vars, "body" \notin Refusals PROVE Tokened'
  BY DEF Tokened
<1>1. ASSUME NEW k \in Keys, rows'[k] # Null
      PROVE  rows'[k].at \in Token
  BY <1>1, StepRows DEF RowFrom, Same, Tokened, Carrying, Refreshing
<1>2. ASSUME NEW w \in Workers, h'[w].pc \in Carrying
      PROVE  h'[w].acct.at \in Token
  <2>1. ASSUME h[w].pc = "exchange", NEW shape, h'[w].acct = NewAccount(h[w].code, shape)
        PROVE  h'[w].acct.at \in Token
    BY <2>1 DEF NewAccount, Token, TypeInv, HandlerOK, Completing
  <2>2. ASSUME h[w].pc = "refresh"
        PROVE  /\ h[w].acct \in Account(Token) /\ h[w].acct.at \in Token
               /\ h[w].acct.rt.code \in Codes /\ grants[h[w].acct.rt.code].gen + 1 \in Nat
    <3>1. h[w].acct \in Account(Token) /\ h[w].acct.at \in Token /\ h[w].acct.rt \in Token
      BY <2>2 DEF TypeInv, HandlerOK, Tokened, Carrying, Refreshing
    <3>2. h[w].acct.rt.code \in Codes /\ grants \in [Codes -> Grant]
      BY <3>1 DEF Token, TypeInv, TypeOK
    <3>3. grants[h[w].acct.rt.code].gen + 1 \in Nat
      BY <3>2 DEF Grant
    <3>4. QED
      BY <3>1, <3>2, <3>3
  <2>3. ASSUME h[w].pc = "refresh", NEW shape, h'[w].acct = Refreshed(h[w].acct, shape)
        PROVE  h'[w].acct.at \in Token
    BY <2>2, <2>3 DEF Refreshed, Account, Token
  <2>4. ASSUME h[w].pc = "refresh", h'[w].acct = Failed(h[w].acct)
        PROVE  h'[w].acct.at \in Token
    BY <2>2, <2>4 DEF Failed, Account
  <2>5. QED
    BY <1>2, <2>1, <2>3, <2>4, StepCopies DEF CopyFrom, Tokened, Carrying, Refreshing
<1>3. QED
  BY <1>1, <1>2 DEF Tokened

-----------------------------------------------------------------------------
(* ActiveIsReady, where the provider keeps its refresh tokens: then the     *)
(* only refresh token of a consent is number 0, and every copy that expires *)
(* has it.                                                                  *)

KeepsRefreshTokens ==
    /\ \A shape \in RefreshShapes : ~shape.rt
    /\ \A shape \in ExchangeShapes : shape.exp => shape.rt

Renewable(a) == /\ a.rt # Null => a.rt.gen = 0
                /\ a.exp # Never => a.rt # Null

KeeperInv ==
    /\ \A c \in Codes : grants[c].rt = 0
    /\ \A k \in Keys : rows[k] # Null => Renewable(rows[k])
    /\ \A w \in Workers : h[w].pc \in Carrying => Renewable(h[w].acct)

LEMMA KeeperInit == Init => KeeperInv
BY DEF Init, StoreInit, RequestsInit, KeeperInv, Idle, Carrying, Refreshing

LEMMA KeeperGrants ==
    ASSUME TypeInv, [Next]_vars, KeepsRefreshTokens, NEW c \in Codes
    PROVE  grants'[c].rt = grants[c].rt
<1>1. grants \in [Codes -> Grant]
  BY DEF TypeInv, TypeOK
<1>2. ASSUME NEW w \in Workers, ExchangeCode(w)
      PROVE  grants'[c].rt = grants[c].rt
  BY <1>1, <1>2 DEF ExchangeCode, SpendCode, Grant
<1>3. ASSUME NEW w \in Workers, RefreshToken(w)
      PROVE  grants'[c].rt = grants[c].rt
  <2>1. ASSUME NEW shape \in RefreshShapes, NEW d, Renew(d, shape)
        PROVE  grants'[c].rt = grants[c].rt
    <3> DEFINE g == grants[d]
               n == [g EXCEPT !.gen = g.gen + 1,
                              !.rt = IF shape.rt THEN g.gen + 1 ELSE g.rt]
    <3>1. d \in Codes => n.rt = g.rt
      BY <1>1, <2>1 DEF KeepsRefreshTokens, Grant
    <3>2. grants' = [grants EXCEPT ![d] = n]
      BY <2>1 DEF Renew
    <3> HIDE DEF n
    <3>3. QED
      BY <1>1, <3>1, <3>2
  <2>2. QED
    BY <1>3, <2>1 DEF RefreshToken
<1>4. ASSUME NEW s \in States, NEW d \in Codes, Consent(s, d)
      PROVE  grants'[c].rt = grants[c].rt
  BY <1>1, <1>4 DEF Consent, Grant
<1>5. ASSUME NEW d \in Codes, Revoke(d)
      PROVE  grants'[c].rt = grants[c].rt
  BY <1>1, <1>5 DEF Revoke, Grant
<1>6. QED
  BY <1>2, <1>3, <1>4, <1>5
  DEF Next, HandlerStep, vars, requestVars, InitiateOAuth, HandleCallback, GetActiveToken,
      SaveAccount, DropPending, SaveToken, SaveExpired, DeleteAccount,
      ClientLeaves, Leave, Crash, Die, ClockTick

LEMMA KeeperNext ==
    ASSUME KeepsRefreshTokens
    PROVE  TypeInv /\ KeeperInv /\ [Next]_vars => KeeperInv'
<1> SUFFICES ASSUME TypeInv, KeeperInv, [Next]_vars PROVE KeeperInv'
  OBVIOUS
<1>1. TypeInv'
  BY TypeNext
<1>2. ASSUME NEW w \in Workers, h[w].pc \in Carrying
      PROVE  h[w].acct \in Account(Token) /\ Renewable(h[w].acct)
  BY <1>2 DEF TypeInv, HandlerOK, KeeperInv
<1>3. ASSUME NEW c \in Codes PROVE grants'[c].rt = 0
  BY KeeperGrants DEF KeeperInv
<1>4. ASSUME NEW k \in Keys, rows'[k] # Null PROVE Renewable(rows'[k])
  <2>1. CASE rows'[k] = rows[k]
    BY <1>4, <2>1 DEF KeeperInv
  <2>2. ASSUME NEW w \in Workers, Same(rows'[k], h[w].acct),
               h[w].pc \in {"saveAccount", "saveToken", "saveExpired"}
        PROVE  Renewable(rows'[k])
    BY <1>2, <2>2 DEF Same, Renewable, Carrying, Refreshing
  <2>3. QED
    BY <1>4, <2>1, <2>2, StepRows DEF RowFrom
<1>5. ASSUME NEW w \in Workers, h'[w].pc \in Carrying
      PROVE  Renewable(h'[w].acct)
  <2>1. CASE h'[w].pc = h[w].pc /\ h'[w].acct = h[w].acct
    BY <1>2, <1>5, <2>1
  <2>2. CASE /\ h'[w].key \in Keys /\ rows[h'[w].key] # Null
             /\ h'[w].acct = rows[h'[w].key]
    BY <2>2 DEF KeeperInv
  <2>3. ASSUME h[w].pc = "exchange", NEW shape \in ExchangeShapes,
               h'[w].acct = NewAccount(h[w].code, shape)
        PROVE  Renewable(h'[w].acct)
    <3>1. h[w].code \in Codes
      BY <2>3 DEF TypeInv, HandlerOK, Completing
    <3>2. [code |-> h[w].code, gen |-> 0] \in Token
      BY <3>1 DEF Token
    <3>3. QED
      BY <2>3, <3>2, OAuthAssumption
      DEF KeepsRefreshTokens, NewAccount, ExpiryOf, Renewable
  <2>4. ASSUME h[w].pc = "refresh", NEW shape \in RefreshShapes,
               h'[w].acct = Refreshed(h[w].acct, shape)
        PROVE  Renewable(h'[w].acct)
    <3>1. /\ h[w].acct \in Account(Token) /\ Renewable(h[w].acct)
          /\ h[w].acct.rt \in Token /\ ~shape.rt
      BY <1>2, <2>4 DEF TypeInv, HandlerOK, Carrying, Refreshing, KeepsRefreshTokens
    <3>2. h'[w].acct.rt = h[w].acct.rt
      BY <2>4, <3>1 DEF Refreshed, Account
    <3>3. QED
      BY <3>1, <3>2, OAuthAssumption DEF Renewable
  <2>5. ASSUME h[w].pc = "refresh", h'[w].acct = Failed(h[w].acct)
        PROVE  Renewable(h'[w].acct)
    <3>1. h[w].acct \in Account(Token) /\ Renewable(h[w].acct)
      BY <1>2, <2>5 DEF Carrying, Refreshing
    <3>2. QED
      BY <2>5, <3>1 DEF Failed, Account, Renewable
  <2>6. CASE h'[w].acct = Blank
    BY <2>6 DEF Blank, Renewable
  <2>7. ASSUME h[w].pc = "refresh", h'[w].acct = Emptied(h[w].acct)
        PROVE  Renewable(h'[w].acct)
    <3>1. h[w].acct \in Account(Token) /\ Renewable(h[w].acct)
      BY <1>2, <2>7 DEF Carrying, Refreshing
    <3>2. QED
      BY <2>7, <3>1 DEF Emptied, Account, Renewable
  <2>8. QED
    BY <1>5, <2>1, <2>2, <2>3, <2>4, <2>5, <2>6, <2>7, StepCopies DEF CopyFrom
<1>6. QED
  BY <1>3, <1>4, <1>5 DEF KeeperInv

(* With a provider that keeps its refresh tokens, an active row is always   *)
(* usable: no overlap of refreshes, lost call, dropped write error or crash *)
(* can leave one whose expired token the provider would not renew.  Only a  *)
(* refusal in the body of a 200 answer (manager.go:730) leaves one that has *)
(* no token.                                                                *)
THEOREM KeeperActiveIsReady ==
    ASSUME KeepsRefreshTokens
    PROVE  Spec => []ActiveIsReady
<1> DEFINE IInv == TypeInv /\ Tokened /\ KeeperInv
<1>1. Init => IInv
  BY TypeInit, TokenedInit, KeeperInit
<1>2. IInv /\ [Next]_vars => IInv'
  BY TypeNext, TokenedNext, KeeperNext
<1>3. IInv => ActiveIsReady
  <2>1. ASSUME TypeInv, KeeperInv, NEW k \in Keys, rows[k] # Null, IsExpired(rows[k])
        PROVE  /\ rows[k].rt # Null
               /\ grants[rows[k].rt.code].stage = "live" => Honoured(rows[k].rt)
    <3>1. rows[k].rt # Null /\ rows[k].rt.gen = 0
      BY <2>1 DEF IsExpired, KeeperInv, Renewable
    <3>2. rows[k].rt.code \in Codes
      BY <2>1, <3>1 DEF TypeInv, TypeOK, StoreTypeOK, Account, Token
    <3>3. QED
      BY <2>1, <3>1, <3>2 DEF KeeperInv, Honoured
  <2>2. ASSUME Tokened, NEW k \in Keys, rows[k] # Null, rows[k].at = Null
        PROVE  "body" \in Refusals
    BY <2>2, OAuthAssumption DEF Tokened
  <2>3. QED
    BY <2>1, <2>2 DEF ActiveIsReady
<1>4. QED
  BY <1>1, <1>2, <1>3, PTL DEF Spec

-----------------------------------------------------------------------------
(* SpentLinkIsGone.  While no call is lost, every client is there, a handler *)
(* completes the link that its code was issued for, and whose code is spent  *)
(* is gone or about to go.                                                   *)

Spending == {"saveAccount", "dropPending"}

Spends(x, c) == x.pc \in Spending /\ x.code = c

Completes(x, g) ==
    x.pc \in Completing => g[x.code].stage # "unused" /\ x.state = g[x.code].state

Calm ==
    /\ \A w \in Workers : h[w].live /\ Completes(h[w], grants)
    /\ \A c \in Codes : Issued(grants[c]) =>
          pendings[grants[c].state] = Null \/ \E w \in Workers : Spends(h[w], c)

SpentInv == faults = 0 => Calm

LEMMA SpentInit == Init => SpentInv
BY DEF Init, StoreInit, RequestsInit, SpentInv, Calm, Completes, Idle, Completing, Issued

SameBooks ==
    \A c \in Codes : grants'[c].stage = grants[c].stage /\ grants'[c].state = grants[c].state

(* One handler moves on, or none. *)
LEMMA CalmMoves ==
    ASSUME TypeInv, Calm, NEW w \in Workers, NEW x, h' = [h EXCEPT ![w] = x],
           x.live, x.pc \in Completing => x.code \in Codes, Completes(x, grants), SameBooks,
           \A s \in States : pendings[s] = Null => pendings'[s] = Null,
           h[w].pc \in Spending => Spends(x, h[w].code) \/ pendings'[h[w].state] = Null
    PROVE  Calm'
<1>1. /\ \A v \in Workers : h'[v] = IF v = w THEN x ELSE h[v]
      /\ \A v \in Workers : h[v].pc \in Completing => h[v].code \in Codes
      /\ \A c \in Codes : Issued(grants[c]) => grants[c].state \in States
  BY DEF TypeInv, TypeOK, HandlerOK, GrantOK, Issued
<1>2. \A v \in Workers : h'[v].live /\ Completes(h'[v], grants')
  BY <1>1 DEF Calm, Completes, SameBooks
<1>3. ASSUME NEW c \in Codes, Issued(grants'[c])
      PROVE  pendings'[grants'[c].state] = Null \/ \E v \in Workers : Spends(h'[v], c)
  <2>1. Issued(grants[c]) /\ grants'[c].state = grants[c].state /\ grants[c].state \in States
    BY <1>1, <1>3 DEF SameBooks, Issued
  <2>2. CASE pendings[grants[c].state] = Null
    BY <2>1, <2>2
  <2>3. ASSUME NEW v \in Workers, Spends(h[v], c)
        PROVE  pendings'[grants'[c].state] = Null \/ \E u \in Workers : Spends(h'[u], c)
    <3>1. CASE v # w
      BY <1>1, <2>3, <3>1
    <3>2. CASE v = w
      BY <1>1, <2>1, <2>3, <3>2 DEF Spends, Spending, Completing, Calm, Completes
    <3>3. QED
      BY <3>1, <3>2
  <2>4. QED
    BY <2>1, <2>2, <2>3 DEF Calm
<1>4. QED
  BY <1>2, <1>3 DEF Calm

LEMMA CalmReply ==
    ASSUME TypeInv, Calm, NEW w \in Workers, NEW a, Reply(w, a), SameBooks,
           \A s \in States : pendings[s] = Null => pendings'[s] = Null,
           h[w].pc \in Spending => pendings'[h[w].state] = Null
    PROVE  Calm'
<1>1. Idle.live /\ Idle.pc \notin Completing
  BY DEF Idle, Completing
<1>2. QED
  BY <1>1, CalmMoves DEF Reply, Completes

LEMMA CalmStands ==
    ASSUME TypeInv, Calm, UNCHANGED <<pendings, grants, h>>
    PROVE  Calm'
<1>1. pendings' = pendings /\ grants' = grants /\ h' = h
  OBVIOUS
<1>2. QED
  BY <1>1, Zenon DEF Calm

(* A lost call stays lost. *)
LEMMA LostCallsStay == TypeInv /\ [Next]_vars /\ faults' = 0 => faults = 0
<1> SUFFICES ASSUME TypeInv, [Next]_vars
             PROVE  faults' = faults \/ faults' = faults + 1
  BY DEF TypeInv, TypeOK
<1>1. ASSUME NEW w \in Workers, HandlerStep(w)
      PROVE  faults' = faults \/ faults' = faults + 1
  BY <1>1, Zenon DEF HandlerStep, ExchangeCode, SaveAccount, DropPending, Dropped,
     RefreshToken, SaveToken, SaveExpired, Saved, Interrupted
<1>2. ASSUME NEW w \in Workers, ClientLeaves(w) \/ Crash(w)
      PROVE  faults' = faults + 1
  BY <1>2, Zenon DEF ClientLeaves, Crash, Leave, Die
<1>3. ASSUME NEW w \in Workers, NEW c \in Codes, NEW p \in Platforms,
             HandleCallback(w, c, p)
      PROVE  faults' = faults
  BY <1>3 DEF HandleCallback
<1>4. CASE UNCHANGED vars
  BY <1>4 DEF vars, requestVars
<1>5. QED
  BY <1>1, <1>2, <1>3, <1>4, Zenon
  DEF Next, InitiateOAuth, Consent, Revoke, GetActiveToken, DeleteAccount, ClockTick

LEMMA SpentNext == TypeInv /\ Linked /\ SpentInv /\ [Next]_vars => SpentInv'
<1> SUFFICES ASSUME TypeInv, Linked, SpentInv, [Next]_vars, faults' = 0
             PROVE  Calm'
  BY DEF SpentInv
<1>1. faults = 0
  BY LostCallsStay
<1>2. Calm
  BY <1>1 DEF SpentInv
<1>3. ASSUME NEW w \in Workers PROVE h[w].live /\ ~Interrupted(w)
  BY <1>1, <1>2 DEF Calm, Interrupted
<1>t. /\ grants \in [Codes -> Grant] /\ h \in [Workers -> Handler]
      /\ pendings \in [States -> PendingAuth \cup {Null}]
      /\ \A c \in Codes : grants[c].stage # "unused" =>
            grants[c].state \in States /\ grants[c].key \in Keys
  BY DEF TypeInv, TypeOK, StoreTypeOK, GrantOK
<1>4. ASSUME NEW u \in Users, NEW p \in Platforms, NEW s \in States, InitiateOAuth(u, p, s)
      PROVE  Calm'
  <2>1. UNCHANGED <<grants, h>> /\ \A r \in States \ {s} : pendings'[r] = pendings[r]
    BY <1>t, <1>4 DEF InitiateOAuth, SavePendingAuth
  <2>2. \A c \in Codes : Issued(grants[c]) => grants[c].state \in States \ {s}
    BY <1>t, <1>4, StoreAssumption DEF InitiateOAuth, Linked, Issued
  <2>3. QED
    BY <1>2, <2>1, <2>2 DEF Calm, Completes
<1>5. ASSUME NEW s \in States, NEW c \in Codes, Consent(s, c)
      PROVE  Calm'
  <2>1. /\ UNCHANGED <<pendings, h>> /\ grants[c].stage = "unused"
        /\ grants'[c].stage = "issued" /\ \A d \in Codes \ {c} : grants'[d] = grants[d]
    BY <1>t, <1>5 DEF Consent, storeVars, Grant
  <2>2. \A w \in Workers : h[w].pc \in Completing => h[w].code \in Codes \ {c}
    BY <1>2, <2>1 DEF Calm, Completes, TypeInv, HandlerOK
  <2>3. QED
    BY <1>2, <2>1, <2>2 DEF Calm, Completes, Issued
<1>6. ASSUME NEW c \in Codes, Revoke(c)
      PROVE  Calm'
  <2>1. /\ UNCHANGED <<pendings, h>> /\ \A d \in Codes \ {c} : grants'[d] = grants[d]
        /\ Issued(grants[c]) /\ grants'[c].stage = "revoked" /\ grants'[c].state = grants[c].state
    BY <1>t, <1>6 DEF Revoke, storeVars, Grant, Issued
  <2>2. QED
    BY <1>2, <2>1 DEF Calm, Completes, TypeInv, HandlerOK, Issued
<1>7. ASSUME NEW w \in Workers, NEW c \in Codes, NEW p \in Platforms, HandleCallback(w, c, p)
      PROVE  Calm'
  <2> DEFINE x == [h[w] EXCEPT !.pc = "exchange", !.code = c, !.state = grants[c].state,
                               !.key = GetPendingAuth(grants[c].state).key]
  <2>1. UNCHANGED <<pendings, grants>> /\ h[w].pc = "idle" /\ grants[c].stage # "unused"
    BY <1>7 DEF HandleCallback, storeVars
  <2>2. CASE h' = [h EXCEPT ![w] = x]
    <3>1. x.live /\ x.pc = "exchange" /\ x.code = c /\ x.state = grants[c].state
      BY <1>t, <1>3 DEF Handler
    <3> HIDE DEF x
    <3>2. Completes(x, grants)
      BY <2>1, <3>1 DEF Completes
    <3>3. QED
      BY <1>2, <2>1, <2>2, <3>1, <3>2, CalmMoves DEF SameBooks, Spending
  <2>3. CASE Reply(w, Null)
    BY <1>2, <2>1, <2>3, CalmReply DEF SameBooks, Spending
  <2>4. QED
    BY <1>7, <2>2, <2>3 DEF HandleCallback
<1>8. ASSUME NEW w \in Workers, NEW x \in Handler, h' = [h EXCEPT ![w] = x], x.live,
             x.pc \notin Completing, h[w].pc \notin Spending, SameBooks, UNCHANGED pendings
      PROVE  Calm'
  BY <1>2, <1>8, CalmMoves DEF Completes
<1>9. ASSUME NEW w \in Workers, NEW k \in Keys, GetActiveToken(w, k)
      PROVE  Calm'
  <2> DEFINE x == [h[w] EXCEPT !.pc = "refresh", !.key = k, !.acct = rows[k]]
  <2>1. UNCHANGED <<pendings, grants>> /\ h[w].pc = "idle"
    BY <1>9 DEF GetActiveToken, storeVars
  <2>2. CASE h' = [h EXCEPT ![w] = x]
    <3>1. x \in Handler /\ x.live /\ x.pc = "refresh"
      <4>1. rows[k] \in Account(Token) \cup {Null}
        BY DEF TypeInv, TypeOK, StoreTypeOK
      <4>2. QED
        BY <1>t, <1>3, <4>1 DEF Handler, Pc
    <3> HIDE DEF x
    <3>2. QED
      BY <1>8, <2>1, <2>2, <3>1 DEF SameBooks, Spending, Completing
  <2>3. CASE \E a : Reply(w, a)
    BY <1>2, <2>1, <2>3, CalmReply DEF SameBooks, Spending
  <2>4. QED
    BY <1>9, <2>2, <2>3 DEF GetActiveToken
<1>10. ASSUME NEW w \in Workers, ExchangeCode(w)
       PROVE  Calm'
  <2> DEFINE c == h[w].code
  <2>1. UNCHANGED pendings /\ h[w].pc = "exchange" /\ c \in Codes
        /\ h[w].state = grants[c].state
    BY <1>2, <1>10
    DEF ExchangeCode, storeVars, TypeInv, HandlerOK, Completing, Calm, Completes
  <2>2. CASE /\ SpendCode(c)
             /\ \E a : Proceed(w, "saveAccount", a)
    <3>1. /\ \A d \in Codes \ {c} : grants'[d] = grants[d]
          /\ grants'[c].stage = "live" /\ grants'[c].state = grants[c].state
      BY <1>t, <2>1, <2>2 DEF SpendCode, Grant
    <3>2. /\ \A v \in Workers \ {w} : h'[v] = h[v]
          /\ h'[w].pc = "saveAccount" /\ h'[w].code = c /\ h'[w].state = h[w].state
          /\ h'[w].live
      BY <1>t, <1>3, <2>2 DEF Proceed, Handler
    <3>3. \A v \in Workers : h'[v].live /\ Completes(h'[v], grants')
      BY <1>2, <2>1, <3>1, <3>2 DEF Calm, Completes, TypeInv, HandlerOK
    <3>4. ASSUME NEW d \in Codes, Issued(grants'[d])
          PROVE  pendings'[grants'[d].state] = Null \/ \E v \in Workers : Spends(h'[v], d)
      <4>1. CASE d = c
        BY <3>2, <4>1 DEF Spends, Spending
      <4>2. CASE d # c
        BY <1>2, <2>1, <3>1, <3>2, <3>4, <4>2 DEF Calm, Spends, Spending
      <4>3. QED
        BY <4>1, <4>2
    <3>5. QED
      BY <3>3, <3>4 DEF Calm
  <2>3. CASE Reply(w, Null) /\ UNCHANGED grants
    BY <1>2, <2>1, <2>3, CalmReply DEF SameBooks, Spending
  <2>4. CASE Proceed(w, "saveAccount", Blank) /\ UNCHANGED grants
    <3> DEFINE x == [h[w] EXCEPT !.pc = "saveAccount", !.acct = Blank]
    <3>1. h' = [h EXCEPT ![w] = x]
      BY <2>4 DEF Proceed
    <3>2. x.live /\ x.pc = "saveAccount" /\ x.code = c /\ x.state = h[w].state
      BY <1>t, <1>3 DEF Handler
    <3> HIDE DEF x
    <3>3. Completes(x, grants)
      BY <1>2, <2>1, <3>2 DEF Calm, Completes, Completing
    <3>4. QED
      BY <1>2, <2>1, <2>4, <3>1, <3>2, <3>3, CalmMoves DEF SameBooks, Spending
  <2>5. QED
    BY <1>3, <1>10, <2>2, <2>3, <2>4 DEF ExchangeCode
<1>11. ASSUME NEW w \in Workers, SaveAccount(w)
       PROVE  Calm'
  <2> DEFINE x == [h[w] EXCEPT !.pc = "dropPending", !.acct = Null]
  <2>1. /\ UNCHANGED <<pendings, grants>> /\ h[w].pc = "saveAccount"
        /\ Proceed(w, "dropPending", Null)
    BY <1>3, <1>11 DEF SaveAccount, Saved
  <2>2. h' = [h EXCEPT ![w] = x] /\ h[w].code \in Codes
    BY <2>1 DEF Proceed, TypeInv, HandlerOK, Completing
  <2>3. x.live /\ x.pc = "dropPending" /\ x.code = h[w].code /\ x.state = h[w].state
    BY <1>t, <1>3 DEF Handler
  <2> HIDE DEF x
  <2>4. Completes(x, grants) /\ Spends(x, h[w].code)
    BY <1>2, <2>1, <2>3 DEF Calm, Completes, Completing, Spends, Spending
  <2>5. QED
    BY <1>2, <2>1, <2>2, <2>3, <2>4, CalmMoves DEF SameBooks
<1>12. ASSUME NEW w \in Workers, DropPending(w)
       PROVE  Calm'
  <2>1. /\ UNCHANGED grants /\ h[w].pc = "dropPending" /\ \E a : Reply(w, a)
        /\ pendings' = [pendings EXCEPT ![h[w].state] = Null]
    BY <1>3, <1>12 DEF DropPending, Dropped, DeletePendingAuth
  <2>2. h[w].state \in States
    BY <2>1 DEF TypeInv, HandlerOK, Completing
  <2>3. QED
    BY <1>2, <1>t, <2>1, <2>2, CalmReply DEF SameBooks
<1>13. ASSUME NEW w \in Workers, RefreshToken(w)
       PROVE  Calm'
  <2>1. UNCHANGED pendings /\ h[w].pc = "refresh" /\ h[w].acct.rt.code \in Codes
        /\ h[w].acct \in Account(Token)
    BY <1>13
    DEF RefreshToken, storeVars, TypeInv, HandlerOK, Refreshing, Carrying, Token
  <2>2. SameBooks
    <3>1. ASSUME NEW c \in Codes, NEW shape, Renew(c, shape)
          PROVE  SameBooks
      <4> DEFINE g == grants[c]
                 n == [g EXCEPT !.gen = g.gen + 1,
                                !.rt = IF shape.rt THEN g.gen + 1 ELSE g.rt]
      <4>1. n.stage = g.stage /\ n.state = g.state
        BY <1>t DEF Grant
      <4>2. grants' = [grants EXCEPT ![c] = n]
        BY <3>1 DEF Renew
      <4> HIDE DEF n
      <4>3. QED
        BY <1>t, <4>1, <4>2 DEF SameBooks
    <3>2. QED
      BY <1>13, <2>1, <3>1 DEF RefreshToken, SameBooks
  <2>3. PICK pc \in {"saveToken", "saveExpired"}, a \in {h'[w].acct} : Proceed(w, pc, a)
    <3>1. PICK pc \in {"saveToken", "saveExpired"} : \E a : Proceed(w, pc, a)
      BY <1>13 DEF RefreshToken
    <3>2. PICK a : Proceed(w, pc, a)
      BY <3>1
    <3>3. h'[w].acct = a
      BY <1>t, <3>2 DEF Proceed, Handler
    <3>4. QED
      BY <3>2, <3>3
  <2> DEFINE x == [h[w] EXCEPT !.pc = pc, !.acct = a]
  <2>4. h' = [h EXCEPT ![w] = x] /\ x.live /\ x.pc = pc
    BY <1>t, <1>3, <2>3 DEF Proceed, Handler
  <2> HIDE DEF x
  <2>5. x.pc \notin Completing /\ h[w].pc \notin Spending
    BY <2>1, <2>4 DEF Completing, Spending
  <2>6. QED
    BY <1>2, <2>1, <2>2, <2>4, <2>5, CalmMoves DEF Completes
<1>14. ASSUME NEW w \in Workers, SaveToken(w) \/ SaveExpired(w)
       PROVE  Calm'
  BY <1>2, <1>14, CalmReply DEF SaveToken, SaveExpired, SameBooks, Spending
<1>15. ASSUME NEW w \in Workers PROVE ~ClientLeaves(w) /\ ~Crash(w)
  BY <1>1 DEF ClientLeaves, Leave, Crash, Die
<1>16. CASE (\E u, id : DeleteAccount(u, id)) \/ ClockTick \/ UNCHANGED vars
  BY <1>2, <1>16, CalmStands
  DEF DeleteAccount, ClockTick, Tick, vars, storeVars, requestVars
<1>17. QED
  BY <1>4, <1>5, <1>6, <1>7, <1>9, <1>10, <1>11, <1>12, <1>13, <1>14, <1>15, <1>16
  DEF Next, HandlerStep

(* With no call lost, a link that a connection was made with cannot be       *)
(* completed again once nobody is completing it, for any number of           *)
(* duplicate callbacks, reconnects and deletions (HandleCallback).           *)
THEOREM SpentLinksGo == Spec => []SpentLinkIsGone
<1>1. TypeInv /\ SpentInv => SpentLinkIsGone
  BY DEF SpentInv, Calm, Issued, Spends, Spending, SpentLinkIsGone
<1>2. QED
  BY <1>1, TypeInit, TypeNext, LinkedInit, LinkedNext, SpentInit, SpentNext, PTL DEF Spec

-----------------------------------------------------------------------------
(* ActiveIsReady, where every refresh rotates the refresh token: while no   *)
(* call is lost, the token of a refresh is in the hands of the one handler  *)
(* that saves it.  What one step does to the rows, the copies and the       *)
(* provider's books comes first.                                            *)

OthersStay(w) == \A v \in Workers \ {w} : h'[v] = h[v]

SameRefreshTokens == \A c \in Codes : grants'[c].rt = grants[c].rt

Passes ==
    /\ \A k \in Keys : rows'[k] \in {Null, rows[k]}
    /\ \A w \in Workers : h'[w] = h[w] \/ {h[w].pc, h'[w].pc} \cap Carrying = {}
    /\ SameRefreshTokens

Reads(w) ==
    /\ h[w].pc = "idle" /\ h'[w].pc = "refresh" /\ h'[w].key \in Keys
    /\ rows[h'[w].key] # Null /\ h'[w].acct = rows[h'[w].key]
    /\ rows' = rows /\ OthersStay(w) /\ SameRefreshTokens

Exchanges(w) ==
    /\ h[w].pc = "exchange" /\ h'[w].pc = "saveAccount"
    /\ grants[h[w].code].stage = "issued"
    /\ \E shape \in ExchangeShapes : h'[w].acct = NewAccount(h[w].code, shape)
    /\ rows' = rows /\ OthersStay(w) /\ SameRefreshTokens

Blanks(w) ==
    /\ h[w].pc = "exchange" /\ h'[w].pc = "saveAccount" /\ h'[w].acct = Blank
    /\ rows' = rows /\ OthersStay(w) /\ SameRefreshTokens

Refreshes(w, shape) ==
    /\ h[w].pc = "refresh" /\ h'[w].pc = "saveToken" /\ h'[w].key = h[w].key
    /\ Honoured(h[w].acct.rt)
    /\ Renew(h[w].acct.rt.code, shape)
    /\ h'[w].acct = Refreshed(h[w].acct, shape)
    /\ rows' = rows /\ OthersStay(w)

Refuses(w) ==
    /\ h[w].pc = "refresh" /\ h'[w].pc = "saveExpired" /\ h'[w].key = h[w].key
    /\ h'[w].acct = Failed(h[w].acct)
    /\ rows' = rows /\ OthersStay(w) /\ SameRefreshTokens

Empties(w) ==
    /\ h[w].pc = "refresh" /\ h'[w].pc = "saveToken" /\ h'[w].key = h[w].key
    /\ h'[w].acct = Emptied(h[w].acct)
    /\ rows' = rows /\ OthersStay(w) /\ SameRefreshTokens

Writes(w) ==
    /\ h[w].pc \in {"saveAccount", "saveToken", "saveExpired"} /\ h'[w].pc \notin Carrying
    /\ rows'[h[w].key] # Null /\ Same(rows'[h[w].key], h[w].acct)
    /\ \A k \in Keys \ {h[w].key} : rows'[k] = rows[k]
    /\ OthersStay(w) /\ SameRefreshTokens

StepKinds ==
    \/ Passes
    \/ \E w \in Workers : \/ Reads(w) \/ Exchanges(w) \/ Refuses(w) \/ Writes(w)
                          \/ Blanks(w) \/ Empties(w)
                          \/ \E shape \in RefreshShapes : Refreshes(w, shape)

LEMMA CalmSteps ==
    ASSUME TypeInv, SpentInv, [Next]_vars, faults' = 0
    PROVE  StepKinds
<1>1. faults = 0
  BY LostCallsStay
<1>2. ASSUME NEW w \in Workers PROVE h[w].live /\ ~Interrupted(w)
  BY <1>1, <1>2 DEF SpentInv, Calm, Interrupted
<1>t. grants \in [Codes -> Grant] /\ h \in [Workers -> Handler]
      /\ rows \in [Keys -> Account(Token) \cup {Null}]
  BY DEF TypeInv, TypeOK, StoreTypeOK
<1>p. ASSUME NEW w \in Workers, NEW a, Reply(w, a) PROVE h'[w].pc = "idle" /\ OthersStay(w)
  BY <1>t, <1>p DEF Reply, Idle, OthersStay
<1>q. ASSUME NEW w \in Workers, NEW pc, NEW a, Proceed(w, pc, a)
      PROVE  h'[w].pc = pc /\ h'[w].acct = a /\ h'[w].key = h[w].key /\ OthersStay(w)
  BY <1>t, <1>q DEF Proceed, Handler, OthersStay
<1>3. CASE UNCHANGED h /\ SameRefreshTokens /\ \A k \in Keys : rows'[k] \in {Null, rows[k]}
  BY <1>3 DEF StepKinds, Passes
<1>4. ASSUME NEW s \in States, NEW c \in Codes, Consent(s, c)
      PROVE  StepKinds
  BY <1>3, <1>4, <1>t DEF Consent, storeVars, SameRefreshTokens, Grant
<1>5. ASSUME NEW c \in Codes, Revoke(c)
      PROVE  StepKinds
  BY <1>3, <1>5, <1>t DEF Revoke, storeVars, SameRefreshTokens, Grant
<1>6. ASSUME NEW u \in Users, NEW id, DeleteAccount(u, id)
      PROVE  StepKinds
  BY <1>3, <1>6 DEF DeleteAccount, DeleteConnectedAccount, SameRefreshTokens
<1>7. ASSUME NEW w \in Workers, UNCHANGED <<rows, grants>>, OthersStay(w),
             h[w].pc \notin Carrying, h'[w].pc \notin Carrying
      PROVE  StepKinds
  BY <1>7 DEF StepKinds, Passes, SameRefreshTokens, OthersStay
<1>8. ASSUME NEW w \in Workers, NEW c \in Codes, NEW p \in Platforms, HandleCallback(w, c, p)
      PROVE  StepKinds
  <2>1. UNCHANGED <<rows, grants>> /\ h[w].pc = "idle"
    BY <1>8 DEF HandleCallback, storeVars
  <2>2. OthersStay(w) /\ h'[w].pc \in {"idle", "exchange"}
    BY <1>8, <1>p, <1>t DEF HandleCallback, OthersStay, Handler
  <2>3. QED
    BY <1>7, <2>1, <2>2 DEF Carrying, Refreshing
<1>9. ASSUME NEW w \in Workers, NEW k \in Keys, GetActiveToken(w, k)
      PROVE  StepKinds
  <2>1. UNCHANGED <<rows, grants>> /\ h[w].pc = "idle"
    BY <1>9 DEF GetActiveToken, storeVars
  <2>2. CASE \E a : Reply(w, a)
    BY <1>7, <1>p, <2>1, <2>2 DEF Carrying, Refreshing
  <2>3. CASE rows[k] # Null /\ h' = [h EXCEPT ![w] = [@ EXCEPT !.pc = "refresh", !.key = k,
                                                               !.acct = rows[k]]]
    <3>1. h'[w].pc = "refresh" /\ h'[w].key = k /\ h'[w].acct = rows[k] /\ OthersStay(w)
      BY <1>t, <2>3 DEF Handler, OthersStay
    <3>2. QED
      BY <2>1, <2>3, <3>1 DEF Reads, StepKinds, SameRefreshTokens
  <2>4. QED
    BY <1>9, <2>2, <2>3 DEF GetActiveToken
<1>10. ASSUME NEW w \in Workers, ExchangeCode(w)
       PROVE  StepKinds
  <2> DEFINE c == h[w].code
  <2>1. rows' = rows /\ h[w].pc = "exchange" /\ c \in Codes
    BY <1>10 DEF ExchangeCode, storeVars, TypeInv, HandlerOK, Completing
  <2>2. CASE grants[c].stage = "issued" /\ SpendCode(c)
             /\ \E shape \in ExchangeShapes : Proceed(w, "saveAccount", NewAccount(c, shape))
    <3>1. SameRefreshTokens
      BY <1>t, <2>1, <2>2 DEF SpendCode, SameRefreshTokens, Grant
    <3>2. Exchanges(w)
      BY <1>q, <2>1, <2>2, <3>1 DEF Exchanges
    <3>3. QED
      BY <3>2 DEF StepKinds
  <2>3. CASE Reply(w, Null) /\ UNCHANGED grants
    BY <1>7, <1>p, <2>1, <2>3 DEF Carrying, Refreshing
  <2>4. CASE Proceed(w, "saveAccount", Blank) /\ UNCHANGED grants
    <3>1. Blanks(w)
      BY <1>q, <2>1, <2>4 DEF Blanks, SameRefreshTokens
    <3>2. QED
      BY <3>1 DEF StepKinds
  <2>5. QED
    BY <1>2, <1>10, <2>2, <2>3, <2>4 DEF ExchangeCode
<1>11. ASSUME NEW w \in Workers, DropPending(w)
       PROVE  StepKinds
  <2>1. UNCHANGED <<rows, grants>> /\ h[w].pc = "dropPending" /\ \E a : Reply(w, a)
    BY <1>11 DEF DropPending
  <2>2. QED
    BY <1>7, <1>p, <2>1 DEF Carrying, Refreshing
<1>12. ASSUME NEW w \in Workers, RefreshToken(w)
       PROVE  StepKinds
  <2> DEFINE a == h[w].acct
  <2>1. rows' = rows /\ h[w].pc = "refresh"
    BY <1>12 DEF RefreshToken, storeVars
  <2>2. ASSUME NEW shape \in RefreshShapes, Honoured(a.rt), Renew(a.rt.code, shape),
               Proceed(w, "saveToken", Refreshed(a, shape))
        PROVE  StepKinds
    <3>1. Refreshes(w, shape)
      BY <1>q, <2>1, <2>2 DEF Refreshes
    <3>2. QED
      BY <3>1 DEF StepKinds
  <2>3. CASE Proceed(w, "saveExpired", Failed(a)) /\ UNCHANGED grants
    <3>1. Refuses(w)
      BY <1>q, <2>1, <2>3 DEF Refuses, SameRefreshTokens
    <3>2. QED
      BY <3>1 DEF StepKinds
  <2>4. CASE Proceed(w, "saveToken", Emptied(a)) /\ UNCHANGED grants
    <3>1. Empties(w)
      BY <1>q, <2>1, <2>4 DEF Empties, SameRefreshTokens
    <3>2. QED
      BY <3>1 DEF StepKinds
  <2>5. QED
    BY <1>2, <1>12, <2>2, <2>3, <2>4 DEF RefreshToken
<1>13. ASSUME NEW w \in Workers, SaveAccount(w) \/ SaveToken(w) \/ SaveExpired(w)
       PROVE  StepKinds
  <2> DEFINE k == h[w].key
             a == h[w].acct
  <2>1. /\ h[w].pc \in {"saveAccount", "saveToken", "saveExpired"} /\ UNCHANGED grants
        /\ UpsertConnectedAccount(k, a)
    BY <1>2, <1>13 DEF SaveAccount, SaveToken, SaveExpired, Saved
  <2>2. h'[w].pc \notin Carrying /\ OthersStay(w)
    BY <1>2, <1>13, <1>p, <1>q
    DEF SaveAccount, SaveToken, SaveExpired, Saved, Carrying, Refreshing
  <2>3. k \in Keys /\ a \in Account(Token)
    BY <2>1 DEF TypeInv, HandlerOK, Carrying, Refreshing
  <2>4. \A i \in Nat : Same([a EXCEPT !.id = i], a) /\ [a EXCEPT !.id = i] # Null
    BY <2>3, OAuthAssumption DEF Same, Account
  <2>5. /\ rows'[k] # Null /\ Same(rows'[k], a)
        /\ \A j \in Keys \ {k} : rows'[j] = rows[j]
    <3>1. nextId \in Nat /\ (rows[k] # Null => rows[k].id \in Nat)
      BY <1>t, <2>3 DEF TypeInv, TypeOK, StoreTypeOK, Account
    <3>2. QED
      BY <1>t, <2>1, <2>3, <2>4, <3>1 DEF UpsertConnectedAccount
  <2>6. QED
    BY <2>1, <2>2, <2>5 DEF Writes, StepKinds, SameRefreshTokens
<1>14. ASSUME NEW w \in Workers PROVE ~ClientLeaves(w) /\ ~Crash(w)
  BY <1>1 DEF ClientLeaves, Leave, Crash, Die
<1>15. CASE UNCHANGED <<rows, grants, h>>
  BY <1>3, <1>15 DEF SameRefreshTokens
<1>16. QED
  BY <1>4, <1>5, <1>6, <1>8, <1>9, <1>10, <1>11, <1>12, <1>13, <1>14, <1>15
  DEF Next, HandlerStep, InitiateOAuth, ClockTick, Tick, SavePendingAuth,
      vars, storeVars, requestVars

(* The tokens in play.  A handler about to store tokens it was given holds  *)
(* the refresh token that the provider takes next, and nobody else has it;  *)
(* an active row that has an access token, and whose refresh token is       *)
(* spent, is about to be written by whoever spent it.                       *)

Unsaved(x) == x.pc \in {"saveAccount", "saveToken"} /\ x.acct.at # Null

CurrentIn(g, t) == t.gen = g[t.code].rt

Refreshable(a) == a.exp # Never => a.rt # Null

UnsavedIsOwn ==
    \A w \in Workers : Unsaved(h[w]) /\ h[w].acct.rt # Null =>
        /\ CurrentIn(grants, h[w].acct.rt)
        /\ \A k \in Keys : rows[k] # Null => rows[k].rt # h[w].acct.rt
        /\ \A v \in Workers \ {w} : h[v].pc \in Carrying => h[v].acct.rt # h[w].acct.rt

SpentIsSaving ==
    \A k \in Keys :
        rows[k] # Null /\ IsActive(rows[k]) /\ rows[k].at # Null /\ rows[k].rt # Null =>
        CurrentIn(grants, rows[k].rt) \/ Saving(k)

UnissuedAreNew == \A c \in Codes : ~Issued(grants[c]) => grants[c].rt = 0

AllRefreshable ==
    /\ \A k \in Keys : rows[k] # Null => Refreshable(rows[k])
    /\ \A w \in Workers : /\ h[w].pc \in Carrying => Refreshable(h[w].acct)
                          /\ h[w].pc = "saveExpired" => ~IsActive(h[w].acct)

RotatorInv == UnissuedAreNew /\ AllRefreshable /\ UnsavedIsOwn /\ SpentIsSaving

RotatesRefreshTokens ==
    /\ \A shape \in RefreshShapes : shape.rt
    /\ \A shape \in ExchangeShapes : shape.exp => shape.rt

LEMMA RotatorInit == Init => RotatorInv
BY DEF Init, StoreInit, RequestsInit, RotatorInv, UnissuedAreNew, AllRefreshable,
       UnsavedIsOwn, SpentIsSaving, Idle, Carrying, Refreshing, Unsaved

(* A refresh gives its own consent a new number, and no other. *)
LEMMA RenewBooks ==
    ASSUME TypeInv, NEW c \in Codes, NEW shape, shape.rt, Renew(c, shape)
    PROVE  /\ grants'[c].rt = grants[c].gen + 1 /\ grants'[c].stage = grants[c].stage
           /\ \A d \in Codes \ {c} : grants'[d] = grants[d]
<1> DEFINE g == grants[c]
           n == [g EXCEPT !.gen = g.gen + 1, !.rt = IF shape.rt THEN g.gen + 1 ELSE g.rt]
<1>1. g \in Grant /\ grants \in [Codes -> Grant]
  BY DEF TypeInv, TypeOK
<1>2. n.rt = g.gen + 1 /\ n.stage = g.stage
  BY <1>1 DEF Grant
<1>3. grants' = [grants EXCEPT ![c] = n]
  BY DEF Renew
<1> HIDE DEF n
<1>4. QED
  BY <1>1, <1>2, <1>3

(* A refresh token that is stored or carried is one the provider issued. *)
LEMMA KnownTokens ==
    ASSUME TypeInv, NEW k, NEW a \in Account(Token), Good(grants, k, a), a.rt # Null
    PROVE  /\ a.rt \in Token /\ a.rt.code \in Codes /\ a.rt.gen \in Nat
           /\ Issued(grants[a.rt.code]) /\ grants[a.rt.code].key = k
           /\ grants[a.rt.code].gen \in Nat /\ a.rt.gen <= grants[a.rt.code].gen
<1>1. a.rt \in IssuedIn(grants, k)
  BY DEF Good
<1>2. QED
  BY <1>1 DEF IssuedIn, Token, TypeInv, TypeOK, Grant

LEMMA RowsKnown ==
    ASSUME TypeInv, Isolated, NEW k \in Keys, rows[k] # Null
    PROVE  rows[k] \in Account(Token) /\ Good(grants, k, rows[k])
BY DEF TypeInv, TypeOK, StoreTypeOK, Isolated

LEMMA CopiesKnown ==
    ASSUME TypeInv, Isolated, NEW w \in Workers, h[w].pc \in Carrying
    PROVE  /\ h[w].key \in Keys /\ h[w].acct \in Account(Token)
           /\ Good(grants, h[w].key, h[w].acct)
           /\ h[w].pc # "saveAccount" => h[w].acct.rt \in Token
BY OAuthAssumption DEF TypeInv, HandlerOK, Isolated, Carrying

(* The token that an exchange or a refresh returns is the provider's        *)
(* current one, and is nowhere yet.                                         *)
Issues(w) == Exchanges(w) \/ \E shape \in RefreshShapes : Refreshes(w, shape)

LEMMA IssuedIsNew ==
    ASSUME RotatesRefreshTokens, TypeInv, Isolated, UnissuedAreNew,
           NEW w \in Workers, Issues(w), h'[w].acct.rt # Null
    PROVE  /\ CurrentIn(grants', h'[w].acct.rt)
           /\ \A k \in Keys : rows[k] # Null => rows[k].rt # h'[w].acct.rt
           /\ \A v \in Workers : h[v].pc \in Carrying => h[v].acct.rt # h'[w].acct.rt
<1> DEFINE t == h'[w].acct.rt
           Unknown == \A k, a : a \in Account(Token) /\ Good(grants, k, a) => a.rt # t
<1>1. ASSUME Exchanges(w)
      PROVE  CurrentIn(grants', t) /\ Unknown
  <2> DEFINE c == h[w].code
  <2>1. t = [code |-> c, gen |-> 0]
    BY <1>1 DEF Exchanges, NewAccount
  <2>2. c \in Codes /\ grants[c].stage = "issued" /\ grants'[c].rt = grants[c].rt
    BY <1>1 DEF Exchanges, SameRefreshTokens, TypeInv, HandlerOK, Completing
  <2>3. ~Issued(grants[c])
    BY <2>2 DEF Issued
  <2>4. CurrentIn(grants', t)
    BY <2>1, <2>2, <2>3 DEF UnissuedAreNew, CurrentIn
  <2>5. QED
    BY <2>1, <2>3, <2>4, KnownTokens
<1>2. ASSUME NEW shape \in RefreshShapes, Refreshes(w, shape)
      PROVE  CurrentIn(grants', t) /\ Unknown
  <2> DEFINE a == h[w].acct
             c == a.rt.code
  <2>1. a \in Account(Token) /\ c \in Codes /\ shape.rt
    BY <1>2 DEF Refreshes, TypeInv, HandlerOK, Carrying, Refreshing, Token, RotatesRefreshTokens
  <2>2. t = [code |-> c, gen |-> grants[c].gen + 1]
    BY <1>2, <2>1 DEF Refreshes, Refreshed, Account
  <2>3. grants'[c].rt = grants[c].gen + 1
    BY <1>2, <2>1, RenewBooks DEF Refreshes
  <2>4. ASSUME NEW k, NEW b \in Account(Token), Good(grants, k, b), b.rt = t
        PROVE  FALSE
    BY <1>2, <2>2, <2>4, KnownTokens
  <2>5. QED
    BY <2>2, <2>3, <2>4 DEF CurrentIn
<1>3. CurrentIn(grants', t) /\ Unknown
  BY <1>1, <1>2 DEF Issues
<1>4. QED
  BY <1>3, RowsKnown, CopiesKnown

(* A token that is current stays so, but for the refresh that is made with it. *)
LEMMA CurrentStays ==
    ASSUME RotatesRefreshTokens, TypeInv, StepKinds,
           NEW t \in Token, CurrentIn(grants, t), ~CurrentIn(grants', t)
    PROVE  \E w \in Workers : /\ h[w].pc = "refresh" /\ h[w].acct.rt = t
                              /\ h'[w].pc = "saveToken" /\ h'[w].key = h[w].key
                              /\ h'[w].acct.at # Null
                              /\ rows' = rows /\ OthersStay(w)
<1>1. t.code \in Codes
  BY DEF Token
<1>2. ~SameRefreshTokens
  BY <1>1 DEF SameRefreshTokens, CurrentIn
<1>3. PICK w \in Workers, shape \in RefreshShapes : Refreshes(w, shape)
  BY <1>2 DEF StepKinds, Passes, Reads, Exchanges, Refuses, Writes, Blanks, Empties
<1>4. h[w].acct.rt \in Token /\ h[w].acct.rt.code \in Codes /\ shape.rt
  BY <1>3 DEF Refreshes, TypeInv, HandlerOK, Refreshing, Token, RotatesRefreshTokens
<1>5. \A d \in Codes \ {h[w].acct.rt.code} : grants'[d] = grants[d]
  BY <1>3, <1>4, RenewBooks DEF Refreshes
<1>6. t.code = h[w].acct.rt.code
  BY <1>1, <1>5 DEF CurrentIn
<1>7. t.gen = h[w].acct.rt.gen
  BY <1>3, <1>6 DEF Refreshes, Honoured, CurrentIn
<1>8. t = h[w].acct.rt
  BY <1>4, <1>6, <1>7 DEF Token
<1>9. h'[w].acct.at # Null
  <2>1. h[w].acct \in Account(Token) /\ grants[t.code].gen + 1 \in Nat
    BY <1>1, <1>3 DEF Refreshes, TypeInv, TypeOK, HandlerOK, Carrying, Refreshing, Grant
  <2>2. h'[w].acct.at = [code |-> t.code, gen |-> grants[t.code].gen + 1]
    BY <1>3, <1>8, <2>1 DEF Refreshes, Refreshed, Account
  <2>3. QED
    BY <1>1, <2>1, <2>2, OAuthAssumption DEF Token
<1>10. QED
  BY <1>3, <1>8, <1>9 DEF Refreshes

LEMMA OwnNext ==
    ASSUME RotatesRefreshTokens, TypeInv, Isolated, UnissuedAreNew, UnsavedIsOwn, StepKinds
    PROVE  UnsavedIsOwn'
<1> DEFINE Own(w) ==
      /\ CurrentIn(grants', h'[w].acct.rt)
      /\ \A k \in Keys : rows'[k] # Null => rows'[k].rt # h'[w].acct.rt
      /\ \A v \in Workers \ {w} : h'[v].pc \in Carrying => h'[v].acct.rt # h'[w].acct.rt
<1>1. SUFFICES ASSUME NEW w \in Workers, Unsaved(h'[w]), h'[w].acct.rt # Null
               PROVE  Own(w)
  BY DEF UnsavedIsOwn, Unsaved, CurrentIn
<1>2. CASE Issues(w)
  BY <1>1, <1>2, IssuedIsNew DEF Issues, Exchanges, Refreshes, OthersStay
<1>3. CASE h'[w] = h[w]
  <2> DEFINE t == h[w].acct.rt
  <2>1. /\ Unsaved(h[w]) /\ h[w].pc \in Carrying /\ t # Null /\ t = h'[w].acct.rt
        /\ CurrentIn(grants, t)
        /\ \A k \in Keys : rows[k] # Null => rows[k].rt # t
        /\ \A v \in Workers \ {w} : h[v].pc \in Carrying => h[v].acct.rt # t
    BY <1>1, <1>3 DEF UnsavedIsOwn, Unsaved, Carrying, Refreshing
  <2>2. t \in Token
    BY <2>1, CopiesKnown, KnownTokens
  <2>3. CurrentIn(grants', t)
    <3>1. ASSUME NEW v \in Workers, h[v].pc = "refresh", h[v].acct.rt = t
          PROVE  FALSE
      BY <2>1, <3>1 DEF Carrying, Refreshing, Unsaved
    <3>2. QED
      BY <2>1, <2>2, <3>1, CurrentStays
  <2>4. ASSUME NEW k \in Keys, rows'[k] # Null PROVE rows'[k].rt # t
    <3>1. CASE rows'[k] = rows[k]
      BY <2>1, <2>4, <3>1
    <3>2. ASSUME NEW v \in Workers, Writes(v), k = h[v].key PROVE rows'[k].rt # t
      <4>1. v # w
        BY <2>1, <1>3, <3>2 DEF Writes
      <4>2. h[v].pc \in Carrying /\ rows'[k].rt = h[v].acct.rt
        BY <3>2 DEF Writes, Same, Carrying, Refreshing
      <4>3. QED
        BY <2>1, <4>1, <4>2
    <3>3. QED
      BY <2>4, <3>1, <3>2 DEF StepKinds, Passes, Reads, Exchanges, Refuses, Refreshes, Writes, Blanks, Empties
  <2>5. ASSUME NEW v \in Workers \ {w}, h'[v].pc \in Carrying PROVE h'[v].acct.rt # t
    <3>1. CASE h'[v] = h[v]
      BY <2>1, <2>5, <3>1
    <3>2. CASE Reads(v)
      BY <2>1, <3>2 DEF Reads
    <3>3. CASE Issues(v)
      BY <2>1, <3>3, IssuedIsNew
    <3>4. CASE Refuses(v) \/ Empties(v)
      <4>1. h[v].pc \in Carrying
        BY <3>4 DEF Refuses, Empties, Carrying, Refreshing
      <4>2. h'[v].acct.rt = h[v].acct.rt
        BY <3>4, <4>1, CopiesKnown DEF Refuses, Empties, Failed, Emptied, Account
      <4>3. QED
        BY <2>1, <2>5, <4>1, <4>2
    <3>5. CASE Blanks(v)
      BY <2>1, <3>5 DEF Blanks, Blank
    <3>6. QED
      BY <2>5, <3>1, <3>2, <3>3, <3>4, <3>5
      DEF StepKinds, Passes, Reads, Exchanges, Refuses, Refreshes, Writes, Blanks, Empties, Issues, OthersStay
  <2>6. QED
    BY <2>1, <2>3, <2>4, <2>5
<1>4. QED
  <2>1. h'[w].pc \in Carrying /\ h'[w].pc \notin {"refresh", "saveExpired"}
    BY <1>1 DEF Unsaved, Carrying, Refreshing
  <2>2. ~Blanks(w) /\ ~Empties(w)
    <3>1. ~Blanks(w)
      BY <1>1 DEF Unsaved, Blanks, Blank
    <3>2. ASSUME Empties(w) PROVE h'[w].acct.at = Null
      <4>1. h[w].acct \in Account(Token)
        BY <3>2 DEF Empties, TypeInv, HandlerOK, Carrying, Refreshing
      <4>2. QED
        BY <3>2, <4>1 DEF Empties, Emptied, Account
    <3>3. QED
      BY <1>1, <3>1, <3>2 DEF Unsaved
  <2>3. QED
    BY <1>2, <1>3, <2>1, <2>2
    DEF StepKinds, Passes, Reads, Exchanges, Refuses, Refreshes, Writes, Blanks, Empties, Issues, OthersStay

LEMMA SavingNext ==
    ASSUME RotatesRefreshTokens, TypeInv, Isolated, UnissuedAreNew, AllRefreshable,
           UnsavedIsOwn, SpentIsSaving, StepKinds
    PROVE  SpentIsSaving'
<1>1. SUFFICES ASSUME NEW k \in Keys, rows'[k] # Null, IsActive(rows'[k]),
                      rows'[k].at # Null, rows'[k].rt # Null
               PROVE  CurrentIn(grants', rows'[k].rt) \/ Saving(k)'
  BY DEF SpentIsSaving, CurrentIn, IsActive
<1>2. ASSUME NEW w \in Workers, Writes(w), k = h[w].key
      PROVE  CurrentIn(grants', rows'[k].rt)
  <2>1. h[w].pc \in Carrying /\ rows'[k].rt = h[w].acct.rt /\ SameRefreshTokens
    BY <1>2 DEF Writes, Same, Carrying, Refreshing
  <2>2. Unsaved(h[w])
    BY <1>1, <1>2 DEF Writes, Same, AllRefreshable, IsActive, Unsaved
  <2>3. CurrentIn(grants, h[w].acct.rt) /\ h[w].acct.rt.code \in Codes
    BY <1>1, <2>1, <2>2, CopiesKnown, KnownTokens DEF UnsavedIsOwn
  <2>4. QED
    BY <2>1, <2>3 DEF CurrentIn, SameRefreshTokens
<1>3. ASSUME rows'[k] = rows[k], \A w \in Workers : Writes(w) => k # h[w].key
      PROVE  CurrentIn(grants', rows'[k].rt) \/ Saving(k)'
  <2>1. /\ rows[k] \in Account(Token) /\ rows[k].rt \in Token
        /\ rows[k].rt.code \in Codes /\ grants[rows[k].rt.code].key = k
    BY <1>1, <1>3, RowsKnown, KnownTokens
  <2>2. CASE CurrentIn(grants, rows[k].rt) /\ ~CurrentIn(grants', rows[k].rt)
    <3>1. PICK w \in Workers : /\ h[w].pc = "refresh" /\ h[w].acct.rt = rows[k].rt
                               /\ h'[w].pc = "saveToken" /\ h'[w].key = h[w].key
                               /\ h'[w].acct.at # Null
      BY <2>1, <2>2, CurrentStays
    <3>2. h[w].pc \in Carrying
      BY <3>1 DEF Carrying, Refreshing
    <3>3. h[w].key = k
      BY <1>1, <1>3, <2>1, <3>1, <3>2, CopiesKnown, KnownTokens
    <3>4. QED
      BY <3>1, <3>3 DEF Saving
  <2>3. ASSUME NEW w \in Workers, h[w].key = k, h[w].pc = "saveToken",
               h[w].acct.at # Null
        PROVE  Saving(k)'
    <3>1. h[w].pc \in Carrying /\ ~Writes(w)
      BY <1>3, <2>3 DEF Carrying, Refreshing
    <3>2. h'[w] = h[w]
      BY <2>3, <3>1
      DEF StepKinds, Passes, Reads, Exchanges, Refuses, Refreshes, Writes, Blanks, Empties, OthersStay
    <3>3. QED
      BY <2>3, <3>2 DEF Saving
  <2>4. QED
    BY <1>1, <1>3, <2>2, <2>3 DEF SpentIsSaving, Saving
<1>4. QED
  BY <1>1, <1>2, <1>3 DEF StepKinds, Passes, Reads, Exchanges, Refuses, Refreshes, Writes, Blanks, Empties

LEMMA RefreshableNext ==
    ASSUME RotatesRefreshTokens, TypeInv, AllRefreshable, [Next]_vars
    PROVE  AllRefreshable'
<1>1. ASSUME NEW w \in Workers, h[w].pc \in Carrying
      PROVE  h[w].acct \in Account(Token) /\ Refreshable(h[w].acct)
  BY <1>1 DEF TypeInv, HandlerOK, AllRefreshable
<1>2. ASSUME NEW k \in Keys, rows'[k] # Null PROVE Refreshable(rows'[k])
  <2>1. ASSUME NEW w \in Workers, Same(rows'[k], h[w].acct),
               h[w].pc \in {"saveAccount", "saveToken", "saveExpired"}
        PROVE  Refreshable(rows'[k])
    BY <1>1, <2>1 DEF Same, Refreshable, Carrying, Refreshing
  <2>2. QED
    BY <1>2, <2>1, StepRows DEF RowFrom, AllRefreshable
<1>3. ASSUME NEW w \in Workers, h'[w].pc \in Carrying
      PROVE  Refreshable(h'[w].acct) /\ (h'[w].pc = "saveExpired" => ~IsActive(h'[w].acct))
  <2>1. CASE h'[w].pc = h[w].pc /\ h'[w].acct = h[w].acct
    BY <1>1, <1>3, <2>1 DEF AllRefreshable
  <2>2. CASE /\ h'[w].pc = "refresh" /\ h'[w].key \in Keys
             /\ rows[h'[w].key] # Null /\ h'[w].acct = rows[h'[w].key]
    BY <2>2 DEF AllRefreshable
  <2>3. ASSUME h[w].pc = "exchange", h'[w].pc = "saveAccount", NEW shape \in ExchangeShapes,
               h'[w].acct = NewAccount(h[w].code, shape)
        PROVE  Refreshable(h'[w].acct)
    <3>1. [code |-> h[w].code, gen |-> 0] \in Token
      BY <2>3 DEF TypeInv, HandlerOK, Completing, Token
    <3>2. QED
      BY <2>3, <3>1, OAuthAssumption DEF RotatesRefreshTokens, NewAccount, ExpiryOf, Refreshable
  <2>4. ASSUME h[w].pc = "refresh", NEW shape \in RefreshShapes,
               h'[w].acct = Refreshed(h[w].acct, shape)
        PROVE  Refreshable(h'[w].acct)
    <3> DEFINE a == h[w].acct
               new == [code |-> a.rt.code, gen |-> grants[a.rt.code].gen + 1]
    <3>1. a \in Account(Token) /\ a.rt \in Token /\ shape.rt
      BY <2>4 DEF TypeInv, HandlerOK, Carrying, Refreshing, RotatesRefreshTokens
    <3>2. new \in Token
      BY <3>1 DEF Token, TypeInv, TypeOK, Grant
    <3>3. h'[w].acct.rt = new
      BY <2>4, <3>1 DEF Refreshed, Account
    <3>4. QED
      BY <3>2, <3>3, OAuthAssumption DEF Refreshable
  <2>5. ASSUME h[w].pc = "refresh", h'[w].acct = Failed(h[w].acct)
        PROVE  Refreshable(h'[w].acct) /\ ~IsActive(h'[w].acct)
    <3>1. h[w].acct \in Account(Token) /\ Refreshable(h[w].acct)
      BY <1>1, <2>5 DEF Carrying, Refreshing
    <3>2. QED
      BY <2>5, <3>1 DEF Failed, Account, Refreshable, IsActive
  <2>6. CASE h'[w].pc = "saveAccount" /\ h'[w].acct = Blank
    BY <2>6 DEF Blank, Refreshable
  <2>7. ASSUME h[w].pc = "refresh", h'[w].pc = "saveToken", h'[w].acct = Emptied(h[w].acct)
        PROVE  Refreshable(h'[w].acct)
    <3>1. h[w].acct \in Account(Token) /\ Refreshable(h[w].acct)
      BY <1>1, <2>7 DEF Carrying, Refreshing
    <3>2. QED
      BY <2>7, <3>1 DEF Emptied, Account, Refreshable
  <2>8. QED
    BY <1>3, <2>1, <2>2, <2>3, <2>4, <2>5, <2>6, <2>7, StepCopies DEF CopyFrom
<1>4. QED
  BY <1>2, <1>3 DEF AllRefreshable, Refreshable, IsActive, Carrying, Refreshing

LEMMA UnissuedNext ==
    ASSUME RotatesRefreshTokens, TypeInv, UnissuedAreNew, [Next]_vars, StepKinds
    PROVE  UnissuedAreNew'
<1>1. CASE SameRefreshTokens
  BY <1>1, StepGrows DEF SameRefreshTokens, UnissuedAreNew, GrantsGrow
<1>2. ASSUME NEW w \in Workers, NEW shape \in RefreshShapes, Refreshes(w, shape)
      PROVE  UnissuedAreNew'
  <2> DEFINE c == h[w].acct.rt.code
  <2>1. c \in Codes /\ shape.rt /\ Issued(grants[c])
    BY <1>2
    DEF Refreshes, Honoured, Issued, TypeInv, HandlerOK, Refreshing, Token, RotatesRefreshTokens
  <2>2. grants'[c].stage = grants[c].stage /\ \A d \in Codes \ {c} : grants'[d] = grants[d]
    BY <1>2, <2>1, RenewBooks DEF Refreshes
  <2>3. QED
    BY <2>1, <2>2 DEF UnissuedAreNew, Issued
<1>3. QED
  BY <1>1, <1>2 DEF StepKinds, Passes, Reads, Exchanges, Refuses, Writes, Blanks, Empties

(* With a provider that rotates its refresh tokens, an active row is usable *)
(* as long as no call has been lost, no client has gone and no process has  *)
(* died: handlers that refresh, reconnect and delete one connection at the  *)
(* same time do not leave it active with a refresh token already spent      *)
(* (GetActiveToken, manager.go:531-583).  Only a refusal in the body of a   *)
(* 200 answer leaves it active without a token.                             *)
THEOREM RotatorActiveIsReady ==
    ASSUME RotatesRefreshTokens
    PROVE  Spec => [](faults = 0 => ActiveIsReady)
<1> DEFINE IInv == /\ TypeInv /\ Linked /\ Isolated /\ SpentInv /\ Tokened
                   /\ faults = 0 => RotatorInv
<1>1. Init => IInv
  BY TypeInit, LinkedInit, IsolationInit, SpentInit, TokenedInit, RotatorInit
<1>2. IInv /\ [Next]_vars => IInv'
  <2> SUFFICES ASSUME IInv, [Next]_vars PROVE IInv'
    OBVIOUS
  <2>1. TypeInv' /\ Linked' /\ Isolated' /\ SpentInv' /\ Tokened'
    BY TypeNext, LinkedNext, IsolationNext, SpentNext, TokenedNext
  <2>2. ASSUME faults' = 0 PROVE RotatorInv'
    <3>1. RotatorInv /\ StepKinds
      BY <2>2, LostCallsStay, CalmSteps
    <3>2. QED
      BY <3>1, OwnNext, SavingNext, RefreshableNext, UnissuedNext DEF RotatorInv
  <2>3. QED
    BY <2>1, <2>2
<1>3. IInv => (faults = 0 => ActiveIsReady)
  <2>1. ASSUME RotatorInv, NEW k \in Keys, rows[k] # Null, IsActive(rows[k]), ~Saving(k),
               rows[k].at # Null, IsExpired(rows[k])
        PROVE  /\ rows[k].rt # Null
               /\ grants[rows[k].rt.code].stage = "live" => Honoured(rows[k].rt)
    <3>1. rows[k].rt # Null
      BY <2>1 DEF IsExpired, RotatorInv, AllRefreshable, Refreshable
    <3>2. QED
      BY <2>1, <3>1 DEF RotatorInv, SpentIsSaving, CurrentIn, Honoured
  <2>2. ASSUME Tokened, NEW k \in Keys, rows[k] # Null, rows[k].at = Null
        PROVE  "body" \in Refusals
    BY <2>2, OAuthAssumption DEF Tokened
  <2>3. QED
    BY <2>1, <2>2 DEF ActiveIsReady
<1>4. QED
  BY <1>1, <1>2, <1>3, PTL DEF Spec
-----------------------------------------------------------------------------
(* Connections.  The token of a row and of every copy that will be written  *)
(* was issued for its key (Isolated), or is not there, which only a refusal *)
(* in the body brings about (Tokened): hence a step that writes a row keeps *)
(* a secret that its user has granted, or spoils the connection.            *)

(* A step writes one row from a handler's copy, removes one, or leaves the  *)
(* accounts alone; one that touches them does not touch the consents.       *)
Written(w) ==
    /\ h[w].pc \in {"saveAccount", "saveToken", "saveExpired"}
    /\ UpsertConnectedAccount(h[w].key, h[w].acct)
    /\ UNCHANGED grants
    /\ \/ answer' = Null
       \/ h[w].pc = "saveToken" /\ answer' = TokenAnswer(h[w].key, h[w].acct.at)

Removed ==
    /\ \E u, id : DeleteConnectedAccount(u, id)
    /\ UNCHANGED <<nextId, grants>>
    /\ answer' = Null

Untouched == UNCHANGED <<rows, nextId>>

LEMMA StepAccounts ==
    ASSUME TypeInv, [Next]_vars
    PROVE  Untouched \/ Removed \/ \E w \in Workers : Written(w)
<1>1. ASSUME NEW w \in Workers, SaveAccount(w) \/ SaveToken(w) \/ SaveExpired(w)
      PROVE  Untouched \/ Written(w)
  BY <1>1 DEF SaveAccount, SaveToken, SaveExpired, Saved, Reply, Silent, Untouched, Written
<1>2. ASSUME NEW u \in Users, NEW id \in 1 .. MaxIds, DeleteAccount(u, id)
      PROVE  Removed
  BY <1>2 DEF DeleteAccount, Removed, Silent
<1>3. QED
  BY <1>1, <1>2
  DEF Next, HandlerStep, Untouched, vars, storeVars, requestVars, InitiateOAuth, Consent, Revoke,
      HandleCallback, GetActiveToken, ExchangeCode, DropPending, RefreshToken, ClientLeaves,
      Leave, Crash, Die, ClockTick, Tick

(* What the mapping makes of rows. *)
LEMMA StoredIs ==
    ASSUME TypeInv, NEW k \in Keys
    PROVE  /\ Stored[k] = Null <=> rows[k] = Null
           /\ rows[k] # Null => Stored[k].id = rows[k].id
<1>1. CASE rows[k] = Null
  BY <1>1 DEF Stored
<1>2. CASE rows[k] # Null
  <2>1. rows[k].id \in Nat /\ ConsentOf(rows[k].at) \in Codes \cup {Null}
    BY <1>2 DEF TypeInv, TypeOK, StoreTypeOK, Account, ConsentOf, Token
  <2>2. IsActive(rows[k]) \in BOOLEAN
    BY DEF IsActive
  <2>3. Stored[k] = [id |-> rows[k].id, ready |-> IsActive(rows[k]),
                     secret |-> ConsentOf(rows[k].at)]
    BY <1>2 DEF Stored
  <2>4. Stored[k] \in [id : Nat, ready : BOOLEAN, secret : Codes \cup {Null}]
    BY <2>1, <2>2, <2>3
  <2>5. QED
    BY <1>2, <2>3, <2>4, OAuthAssumption
<1>3. QED
  BY <1>1, <1>2

(* A row written is a connection stored, kept or spoilt.                    *)
LEMMA PutStep ==
    ASSUME TypeInv, NEW k \in Keys, NEW b, b # Null, rows' = [rows EXCEPT ![k] = b],
           b.id = IF rows[k] = Null THEN nextId ELSE rows[k].id,
           nextId' = IF rows[k] = Null THEN nextId + 1 ELSE nextId,
           UNCHANGED grants
    PROVE  C!Put(k, ConsentOf(b.at), IsActive(b)) /\ IsActive(b) \in BOOLEAN
<1> DEFINE new == [id |-> b.id, ready |-> IsActive(b), secret |-> ConsentOf(b.at)]
<1>1. rows \in [Keys -> Account(Token) \cup {Null}]
  BY DEF TypeInv, TypeOK, StoreTypeOK
<1>2. Stored' = [Stored EXCEPT ![k] = new]
  BY <1>1 DEF Stored, IsActive
<1>3. b.id = IF Stored[k] = Null THEN nextId ELSE Stored[k].id
  BY StoredIs
<1>4. nextId' = IF Stored[k] = Null THEN nextId + 1 ELSE nextId
  BY StoredIs
<1>5. UNCHANGED <<Offered, Granted>>
  BY DEF Offered, Granted
<1>6. IsActive(b) \in BOOLEAN
  BY DEF IsActive
<1>7. Stored' = [Stored EXCEPT ![k] = [id |-> IF @ = Null THEN nextId ELSE @.id,
                                       ready |-> IsActive(b), secret |-> ConsentOf(b.at)]]
  BY <1>2, <1>3
<1>8. QED
  BY <1>4, <1>5, <1>6, <1>7 DEF C!Put

LEMMA KeepStep ==
    ASSUME NEW k \in Keys, NEW s \in Codes, NEW ready \in BOOLEAN, C!Put(k, s, ready),
           <<k, s>> \in Granted, <<k, s>> \in Offered,
           Handed' = Null \/ (ready /\ Handed' = <<k, s>>)
    PROVE  C!Next
<1>1. C!Keep(k, s, ready)
  BY DEF C!Keep
<1>2. QED
  BY <1>1 DEF C!Next, C!Keys, Keys

LEMMA SpoilStep ==
    ASSUME "body" \in Refusals, NEW k \in Keys, NEW ready \in BOOLEAN,
           C!Put(k, Null, ready), Handed' = Null
    PROVE  C!Next
<1>1. C!Spoil(k, ready)
  BY DEF C!Spoil
<1>2. QED
  BY <1>1 DEF C!Next, C!Keys, Keys

LEMMA RemoveStep ==
    ASSUME TypeInv, Ids, Removed
    PROVE  C!Next
<1>1. /\ StoreTypeOK(Token) /\ rows \in [Keys -> Account(Token) \cup {Null}]
      /\ UNCHANGED <<Offered, Granted, nextId>> /\ Handed' = Null
  BY DEF TypeInv, TypeOK, StoreTypeOK, Removed, Offered, Granted, Handed
<1>2. CASE rows' = rows
  <2>1. Stored' = Stored
    BY <1>2 DEF Stored, IsActive
  <2>2. QED
    BY <1>1, <2>1 DEF C!Next, C!Rest
<1>3. ASSUME NEW k \in Keys, rows[k] # Null, rows' = [rows EXCEPT ![k] = Null]
      PROVE  C!Next
  <2>1. Stored' = [Stored EXCEPT ![k] = Null]
    BY <1>1, <1>3 DEF Stored, IsActive
  <2>2. Stored[k] # Null
    BY <1>3, StoredIs
  <2>3. C!Remove(k)
    BY <1>1, <2>1, <2>2 DEF C!Remove
  <2>4. QED
    BY <2>3 DEF C!Next, C!Keys, Keys
<1>4. QED
  BY <1>1, <1>2, <1>3, Deleting DEF Removed

(* What a row or a copy holds was granted by the user whose it is. *)
LEMMA GrantedTo ==
    ASSUME NEW k \in Keys, NEW a, Good(grants, k, a), a.at \in Token
    PROVE  a.at.code \in Codes /\ <<k, a.at.code>> \in Granted /\ <<k, a.at.code>> \in Offered
<1>1. a.at.code \in Codes /\ a.at # Null
  BY OAuthAssumption DEF Token
<1>2. Issued(grants[a.at.code]) /\ grants[a.at.code].key = k
  BY <1>1 DEF Good, IssuedIn
<1>3. QED
  BY <1>1, <1>2 DEF Issued, Granted, Offered

LEMMA WriteStep ==
    ASSUME TypeInv, Isolated, ExpiryInv, Tokened, NEW w \in Workers, Written(w)
    PROVE  C!Next
<1> DEFINE k == h[w].key
           a == h[w].acct
<1>1. /\ k \in Keys /\ a \in Account(Token) /\ a # Null
      /\ StoreTypeOK(Token) /\ Null \notin Account(Token)
      /\ a.at \in Token \/ (a.at = Null /\ "body" \in Refusals)
  BY OAuthAssumption DEF Written, TypeInv, TypeOK, HandlerOK, Tokened, Carrying, Refreshing,
     Account
<1>2. PICK b \in Account(Token) :
          /\ b # Null /\ rows' = [rows EXCEPT ![k] = b]
          /\ b.id = IF rows[k] = Null THEN nextId ELSE rows[k].id
          /\ b.status = a.status /\ b.at = a.at
          /\ nextId' = IF rows[k] = Null THEN nextId + 1 ELSE nextId
  BY <1>1, Upserting DEF Written
<1>3. C!Put(k, ConsentOf(b.at), IsActive(b)) /\ IsActive(b) \in BOOLEAN
  BY <1>1, <1>2, PutStep DEF Written
<1>4. CASE a.at \in Token
  <2>1. /\ a.at.code \in Codes /\ <<k, a.at.code>> \in Granted
        /\ <<k, a.at.code>> \in Offered
    BY <1>1, <1>4, GrantedTo DEF Isolated
  <2>2. ConsentOf(b.at) = a.at.code
    BY <1>2, <1>4, OAuthAssumption DEF ConsentOf
  <2>3. Handed' = Null \/ (IsActive(b) /\ Handed' = <<k, a.at.code>>)
    <3>1. CASE answer' = Null
      BY <3>1 DEF Handed
    <3>2. CASE h[w].pc = "saveToken" /\ answer' = TokenAnswer(k, a.at)
      <4>1. IsActive(b)
        BY <1>2, <3>2 DEF ExpiryInv, IsActive
      <4>2. Handed' \in {Null, <<k, a.at.code>>}
        BY <3>2 DEF Handed, TokenAnswer
      <4>3. QED
        BY <4>1, <4>2
    <3>3. QED
      BY <3>1, <3>2 DEF Written
  <2> HIDE DEF k, a
  <2>4. QED
    BY <1>1, <1>3, <2>1, <2>2, <2>3, KeepStep
<1>5. CASE a.at = Null /\ "body" \in Refusals
  <2>1. ConsentOf(b.at) = Null
    BY <1>2, <1>5 DEF ConsentOf
  <2>2. Handed' = Null
    BY <1>5 DEF Written, Handed, TokenAnswer
  <2> HIDE DEF k, a
  <2>3. QED
    BY <1>1, <1>3, <1>5, <2>1, <2>2, SpoilStep
<1>6. QED
  BY <1>1, <1>4, <1>5

(* The steps that leave the accounts alone. *)
LEMMA RestStep ==
    ASSUME Untouched, UNCHANGED <<Offered, Granted>>, Handed' = Null
    PROVE  C!Next
<1>1. Stored' = Stored
  BY DEF Untouched, Stored, IsActive
<1>2. QED
  BY <1>1 DEF Untouched, C!Next, C!Rest

LEMMA QuietStep ==
    ASSUME Untouched, UNCHANGED grants, answer' = Null \/ answer'.kind = "connected"
    PROVE  C!Next
<1>1. UNCHANGED <<Offered, Granted>> /\ Handed' = Null
  BY DEF Offered, Granted, Handed
<1>2. QED
  BY <1>1, RestStep

LEMMA HandStep ==
    ASSUME Untouched, UNCHANGED grants, NEW k \in Keys, NEW a, Good(grants, k, a),
           a.at \in Token \cup {Null}, answer' = TokenAnswer(k, a.at)
    PROVE  C!Next
<1>1. UNCHANGED <<Offered, Granted>> /\ Stored' = Stored
  BY DEF Untouched, Offered, Granted, Stored, IsActive
<1>2. CASE answer' = Null \/ a.at = Null
  <2>1. Handed' = Null
    BY <1>2 DEF Handed, TokenAnswer
  <2>2. QED
    BY <1>1, <2>1, RestStep
<1>3. CASE answer' # Null /\ a.at # Null
  <2>1. a.at \in Token /\ Handed' = <<k, a.at.code>>
    BY <1>3 DEF Handed, TokenAnswer
  <2>2. C!Hand(k, a.at.code)
    BY <1>1, <2>1, GrantedTo DEF C!Hand, Untouched
  <2>3. QED
    BY <2>1, <2>2, GrantedTo DEF C!Next, C!Keys, Keys
<1>4. QED
  BY <1>2, <1>3

LEMMA ConsentStep ==
    ASSUME TypeInv, Linked, NEW s \in States, NEW c \in Codes, Consent(s, c)
    PROVE  C!Next
<1>1. urls[s] \in Keys /\ grants \in [Codes -> Grant]
  BY DEF Consent, TypeInv, TypeOK
<1>2. \A d \in Codes : IF d = c
                       THEN /\ grants[d].stage = "unused"
                            /\ grants'[d].stage = "issued" /\ grants'[d].key = urls[s]
                       ELSE grants'[d] = grants[d]
  BY <1>1 DEF Consent, Grant
<1>3. Offered' = Offered \cup {<<urls[s], c>>}
  BY <1>1, <1>2 DEF Offered
<1>4. Granted' = Granted
  BY <1>2 DEF Granted, Offered
<1>5. Stored' = Stored /\ UNCHANGED nextId /\ Handed' = Null
  BY DEF Consent, storeVars, Silent, Stored, IsActive, Handed
<1>6. C!Offer(urls[s], c)
  BY <1>3, <1>4, <1>5 DEF C!Offer
<1>7. QED
  BY <1>1, <1>6 DEF C!Next, C!Keys, Keys

LEMMA SpendStep ==
    ASSUME TypeInv, Untouched, NEW c \in Codes, grants[c].stage = "issued", SpendCode(c),
           answer' = Null
    PROVE  C!Next
<1> DEFINE k == grants[c].key
<1>1. k \in Keys /\ grants \in [Codes -> Grant]
  BY DEF TypeInv, TypeOK, GrantOK
<1>2. \A d \in Codes : IF d = c
                       THEN grants'[d].stage = "live" /\ grants'[d].key = k
                       ELSE grants'[d] = grants[d]
  BY <1>1 DEF SpendCode, Grant
<1>3. Offered' = Offered
  BY <1>2 DEF Offered
<1>4. <<k, c>> \in Offered /\ Granted' = Granted \cup {<<k, c>>}
  BY <1>1, <1>2, <1>3 DEF Granted, Offered
<1>5. Stored' = Stored /\ UNCHANGED nextId /\ Handed' = Null
  BY DEF Untouched, Stored, IsActive, Handed
<1>6. C!Grant(k, c)
  BY <1>3, <1>4, <1>5 DEF C!Grant
<1>7. QED
  BY <1>1, <1>6 DEF C!Next, C!Keys, Keys

(* Neither a refresh nor a withdrawn consent changes whose a consent is or  *)
(* whether it was granted.                                                  *)
LEMMA SameGranted ==
    ASSUME \A d \in Codes : /\ grants'[d].key = grants[d].key
                            /\ grants'[d].stage = "unused" <=> grants[d].stage = "unused"
                            /\ Issued(grants'[d]) <=> Issued(grants[d])
    PROVE  UNCHANGED <<Offered, Granted>>
BY DEF Offered, Granted, Issued

LEMMA RenewStep ==
    ASSUME TypeInv, Untouched, NEW c \in Codes, NEW shape, Renew(c, shape), answer' = Null
    PROVE  C!Next
<1> DEFINE g == grants[c]
           n == [g EXCEPT !.gen = g.gen + 1,
                          !.rt = IF shape.rt THEN g.gen + 1 ELSE g.rt]
<1>1. grants \in [Codes -> Grant]
  BY DEF TypeInv, TypeOK
<1>2. n.stage = g.stage /\ n.key = g.key
  BY <1>1 DEF Grant
<1>3. grants' = [grants EXCEPT ![c] = n]
  BY DEF Renew
<1> HIDE DEF n
<1>4. UNCHANGED <<Offered, Granted>>
  BY <1>1, <1>2, <1>3, SameGranted DEF Issued
<1>5. QED
  BY <1>4, RestStep DEF Handed

LEMMA UntouchedStep ==
    ASSUME TypeInv, Linked, Isolated, Untouched, Next
    PROVE  C!Next
<1>1. ASSUME NEW w \in Workers, NEW k \in Keys, GetActiveToken(w, k)
      PROVE  C!Next
  <2>1. CASE answer' = Null
    BY <1>1, <2>1, QuietStep DEF GetActiveToken
  <2>2. CASE rows[k] # Null /\ answer' = TokenAnswer(k, rows[k].at)
    <3>1. Good(grants, k, rows[k]) /\ rows[k].at \in Token \cup {Null}
      BY <2>2 DEF Isolated, TypeInv, TypeOK, StoreTypeOK, Account
    <3>2. QED
      BY <1>1, <2>2, <3>1, HandStep DEF GetActiveToken
  <2>3. QED
    BY <1>1, <2>1, <2>2 DEF GetActiveToken, Reply, Silent
<1>2. ASSUME NEW w \in Workers, ExchangeCode(w)
      PROVE  C!Next
  <2>1. h[w].code \in Codes
    BY <1>2 DEF ExchangeCode, TypeInv, HandlerOK, Completing
  <2>2. answer' = Null
    BY <1>2 DEF ExchangeCode, Reply, Silent
  <2>3. QED
    BY <1>2, <2>1, <2>2, QuietStep, SpendStep DEF ExchangeCode
<1>3. ASSUME NEW w \in Workers, RefreshToken(w)
      PROVE  C!Next
  <2>1. h[w].acct.rt.code \in Codes
    BY <1>3 DEF RefreshToken, TypeInv, HandlerOK, Refreshing, Token
  <2>2. answer' = Null
    BY <1>3 DEF RefreshToken, Silent
  <2>3. QED
    BY <1>3, <2>1, <2>2, QuietStep, RenewStep DEF RefreshToken
<1>4. ASSUME NEW w \in Workers, SaveToken(w)
      PROVE  C!Next
  <2> DEFINE a == h[w].acct
  <2>1. h[w].key \in Keys /\ a.at \in Token \cup {Null} /\ a \in Account(Token)
    BY <1>4 DEF SaveToken, TypeInv, HandlerOK, Carrying, Refreshing, Account
  <2>2. Good(grants, h[w].key, a)
    BY <2>1, OAuthAssumption DEF Isolated
  <2>3. answer' = TokenAnswer(h[w].key, a.at) /\ UNCHANGED grants
    BY <1>4 DEF SaveToken, Reply
  <2> HIDE DEF a
  <2>4. QED
    BY <2>1, <2>2, <2>3, HandStep
<1>5. ASSUME NEW c \in Codes, Revoke(c)
      PROVE  C!Next
  <2>1. grants \in [Codes -> Grant] /\ answer' = Null
    BY <1>5 DEF Revoke, Silent, TypeInv, TypeOK
  <2>2. UNCHANGED <<Offered, Granted>>
    BY <1>5, <2>1, SameGranted DEF Revoke, Grant, Issued
  <2>3. QED
    BY <2>1, <2>2, RestStep DEF Handed
<1>6. ASSUME NEW w \in Workers, DropPending(w)
      PROVE  C!Next
  BY <1>6, QuietStep DEF DropPending, Reply
<1>7. ASSUME NEW w \in Workers, SaveAccount(w) \/ SaveExpired(w)
      PROVE  C!Next
  BY <1>7, QuietStep DEF SaveAccount, SaveExpired, Reply, Silent
<1>8. ASSUME NEW w \in Workers,
             \/ ClientLeaves(w) \/ Crash(w)
             \/ \E c \in Codes, p \in Platforms : HandleCallback(w, c, p)
      PROVE  C!Next
  <2>1. UNCHANGED grants
    BY <1>8 DEF ClientLeaves, Crash, HandleCallback
  <2>2. answer' = Null
    <3>1. CASE ClientLeaves(w) \/ Crash(w)
      BY <3>1 DEF ClientLeaves, Leave, Crash, Die, Reply, Silent
    <3>2. CASE \E c \in Codes, p \in Platforms : HandleCallback(w, c, p)
      BY <3>2 DEF HandleCallback, Reply, Silent
    <3>3. QED
      BY <1>8, <3>1, <3>2
  <2>3. QED
    BY <2>1, <2>2, QuietStep
<1>9. ASSUME \/ \E u \in Users, p \in Platforms, s \in States : InitiateOAuth(u, p, s)
             \/ \E u \in Users, id \in 1 .. MaxIds : DeleteAccount(u, id)
             \/ ClockTick
      PROVE  C!Next
  BY <1>9, QuietStep DEF InitiateOAuth, DeleteAccount, ClockTick, Silent
<1>10. QED
  BY <1>1, <1>2, <1>3, <1>4, <1>5, <1>6, <1>7, <1>8, <1>9, ConsentStep DEF Next, HandlerStep

LEMMA AccountIdsNext == TypeInv /\ Ids /\ [Next]_vars => Ids'
<1> SUFFICES ASSUME TypeInv, Ids, [Next]_vars PROVE Ids'
  OBVIOUS
<1>1. CASE Untouched
  BY <1>1 DEF Untouched, Ids
<1>2. CASE Removed
  BY <1>2, DeleteIds DEF Removed
<1>3. ASSUME NEW w \in Workers, Written(w)
      PROVE  Ids'
  <2>1. /\ h[w].key \in Keys /\ h[w].acct \in Account(Token)
        /\ StoreTypeOK(Token) /\ Null \notin Account(Token)
    BY <1>3, OAuthAssumption DEF Written, TypeInv, TypeOK, HandlerOK, Carrying, Refreshing
  <2>2. QED
    BY <1>3, <2>1, UpsertIds DEF Written
<1>4. QED
  BY <1>1, <1>2, <1>3, StepAccounts

(* The direct OAuth flow implements Connections: what overlapping callbacks *)
(* and refreshes, lost calls and crashes do to the accounts and to what     *)
(* tools are given is, step by step, what Connections allows                *)
(* (HandleCallback, GetActiveToken, DeleteAccount, manager.go); a step that *)
(* spoils a connection needs a provider that refuses in a 200 answer.       *)
THEOREM TokensKeepConnections == Spec => ConnectionsKept
<1> DEFINE IInv == /\ TypeInv /\ Linked /\ Isolated /\ ExpiryInv /\ Tokened /\ Ids
<1>1. Init => IInv
  BY TypeInit, LinkedInit, IsolationInit, ExpiryInit, TokenedInit, IdsInit DEF Init
<1>2. IInv /\ [Next]_vars => IInv'
  BY TypeNext, LinkedNext, IsolationNext, ExpiryNext, TokenedNext, AccountIdsNext
<1>3. Init => C!Init
  <2> SUFFICES ASSUME Init PROVE C!Init
    OBVIOUS
  <2>1. Offered = {} /\ Granted = {} /\ Handed = Null /\ nextId = 1
    BY DEF Init, StoreInit, RequestsInit, Offered, Granted, Handed
  <2>2. Stored = [k \in Keys |-> Null]
    BY DEF Init, StoreInit, Stored
  <2>3. QED
    BY <2>1, <2>2 DEF C!Init, C!Keys, Keys
<1>4. IInv /\ [Next]_vars => [C!Next]_(C!vars)
  <2> SUFFICES ASSUME IInv, [Next]_vars PROVE C!Next \/ UNCHANGED C!vars
    OBVIOUS
  <2>1. CASE UNCHANGED vars
    BY <2>1 DEF vars, storeVars, requestVars, C!vars, Offered, Granted, Stored, Handed, IsActive
  <2>2. CASE Next
    BY <2>2, UntouchedStep, RemoveStep, WriteStep, StepAccounts
  <2>3. QED
    BY <2>1, <2>2
<1>5. QED
  BY <1>1, <1>2, <1>3, <1>4, PTL DEF Spec, ConnectionsKept, C!Spec
=============================================================================
