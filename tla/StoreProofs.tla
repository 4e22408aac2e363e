----------------------------- MODULE StoreProofs ------------------------------
(***************************************************************************)
(* What the statements of the store do to the accounts, for every value of *)
(* the constants: facts that the proofs about the flows share.             *)
(***************************************************************************)
EXTENDS ConnectorStore, TLAPS

(* No two accounts have one id, and the next one is new.                    *)
Ids ==
    /\ nextId \in Nat \ {0}
    /\ \A k \in Keys : rows[k] # Null => rows[k].id \in 1 .. nextId - 1
    /\ \A j, k \in Keys : rows[j] # Null /\ rows[k] # Null /\ rows[j].id = rows[k].id => j = k

LEMMA IdsInit == StoreInit => Ids
BY DEF StoreInit, Ids

(* An upsert writes the caller's account in one place, under the id that is *)
(* there or under a new one.                                                *)
LEMMA Upserting ==
    ASSUME NEW S, StoreTypeOK(S), Null \notin Account(S),
           NEW k \in Keys, NEW a \in Account(S), UpsertConnectedAccount(k, a)
    PROVE  \E b \in Account(S) :
              /\ b # Null /\ rows' = [rows EXCEPT ![k] = b]
              /\ b.id = IF rows[k] = Null THEN nextId ELSE rows[k].id
              /\ b.status = a.status /\ b.at = a.at /\ b.rt = a.rt /\ b.exp = a.exp
              /\ nextId' = IF rows[k] = Null THEN nextId + 1 ELSE nextId
<1> DEFINE i == IF rows[k] = Null THEN nextId ELSE rows[k].id
           b == [a EXCEPT !.id = i]
<1>1. i \in Nat
  BY DEF StoreTypeOK, Account
<1>2. /\ b \in Account(S) /\ b.id = i
      /\ b.status = a.status /\ b.at = a.at /\ b.rt = a.rt /\ b.exp = a.exp
  BY <1>1 DEF Account
<1>3. rows' = [rows EXCEPT ![k] = b] /\ nextId' = IF rows[k] = Null THEN nextId + 1 ELSE nextId
  BY DEF UpsertConnectedAccount
<1> HIDE DEF b
<1>4. QED
  BY <1>2, <1>3

LEMMA UpsertIds ==
    ASSUME NEW S, StoreTypeOK(S), Null \notin Account(S), Ids,
           NEW k \in Keys, NEW a \in Account(S), UpsertConnectedAccount(k, a)
    PROVE  Ids'
<1>1. PICK b \in Account(S) :
              /\ b # Null /\ rows' = [rows EXCEPT ![k] = b]
              /\ b.id = IF rows[k] = Null THEN nextId ELSE rows[k].id
              /\ nextId' = IF rows[k] = Null THEN nextId + 1 ELSE nextId
  BY Upserting
<1>2. /\ rows'[k] = b
      /\ \A j \in Keys \ {k} : rows'[j] = rows[j]
  BY <1>1 DEF StoreTypeOK
<1>3. nextId' \in Nat \ {0} /\ nextId' >= nextId
  BY <1>1 DEF Ids
<1>4. ASSUME NEW j \in Keys, rows'[j] # Null
      PROVE  /\ rows'[j].id \in 1 .. nextId' - 1
             /\ \/ rows[j] # Null /\ rows'[j].id = rows[j].id
                \/ rows[j] = Null /\ j = k /\ rows'[j].id = nextId
  BY <1>1, <1>2, <1>3, <1>4 DEF Ids
<1>5. QED
  BY <1>3, <1>4 DEF Ids

(* A deletion takes at most one account away, and gives no id back. *)
LEMMA Deleting ==
    ASSUME NEW S, StoreTypeOK(S), Ids, NEW u, NEW id, DeleteConnectedAccount(u, id)
    PROVE  \/ rows' = rows
           \/ \E k \in Keys : rows[k] # Null /\ rows' = [rows EXCEPT ![k] = Null]
<1>1. rows \in [Keys -> Account(S) \cup {Null}]
  BY DEF StoreTypeOK
<1>2. CASE \A k \in Keys : ~(rows[k] # Null /\ k[1] = u /\ rows[k].id = id)
  <2>1. rows' = [k \in Keys |-> rows[k]]
    BY <1>2 DEF DeleteConnectedAccount
  <2>2. QED
    BY <1>1, <2>1
<1>3. ASSUME NEW k \in Keys, rows[k] # Null, k[1] = u, rows[k].id = id
      PROVE  rows' = [rows EXCEPT ![k] = Null]
  <2>1. \A j \in Keys : rows[j] # Null /\ j[1] = u /\ rows[j].id = id <=> j = k
    BY <1>3 DEF Ids
  <2>2. rows' = [j \in Keys |-> IF j = k THEN Null ELSE rows[j]]
    BY <2>1 DEF DeleteConnectedAccount
  <2>3. QED
    BY <1>1, <2>2
<1>4. QED
  BY <1>2, <1>3

LEMMA DeleteIds ==
    ASSUME Ids, NEW u, NEW id, DeleteConnectedAccount(u, id), UNCHANGED nextId
    PROVE  Ids'
<1>1. \A k \in Keys : rows'[k] = rows[k] \/ rows'[k] = Null
  BY DEF DeleteConnectedAccount
<1>2. QED
  BY <1>1 DEF Ids
=============================================================================
