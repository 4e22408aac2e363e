------------------------------- MODULE SmtpProofs -------------------------------
(***************************************************************************)
(* What a tool call of smtp_email may report, what a session needs before  *)
(* it authenticates, and which endpoints a connection attempt has ruled    *)
(* out, proved for every value of the constants.                           *)
(***************************************************************************)
EXTENDS SmtpMailbox, ListsProofs, SequenceTheorems, TLAPS

Session == {"mail", "rcpt", "data", "body", "quit"}

Pcs == {"idle", "mx", "srv", "guess", "dial", "starttls", "auth"} \cup Session

(* The fields of the call. *)
CallOK ==
    /\ call = [pc |-> call.pc, send |-> call.send, found |-> call.found,
               i |-> call.i, tls |-> call.tls, n |-> call.n]
    /\ call.pc \in Pcs /\ call.send \in BOOLEAN /\ call.n \in Nat

(* A session that is past a step has what the step is for. *)
SessionOK ==
    /\ call.pc \in {"starttls", "auth"} \cup Session => Target.host \in public
    /\ call.pc \in Session => call.send
    /\ call.send => mail # Null
    /\ call.pc \notin Session => call.n = 0
    /\ call.pc \in {"data", "body", "quit"} => call.n = Len(mail)

CountsOK ==
    /\ mail \in Seq(Recipients) \cup {Null}
    /\ sent \in Nat /\ unsure \in Nat
    /\ got \in [Recipients -> Nat]
    /\ CopiesAccountedFor

SInv == CallOK /\ SessionOK /\ CountsOK

LEMMA BoundedAreSequences ==
    ASSUME NEW S, NEW n \in Nat
    PROVE  BoundedSeq(S, n) \subseteq Seq(S)
<1> SUFFICES ASSUME NEW m \in BoundedSeq(S, n) PROVE m \in Seq(S)
  OBVIOUS
<1>1. PICK k \in 0 .. n : m \in [1 .. k -> S]
  BY DEF BoundedSeq, SeqOf
<1>2. m = [j \in 1 .. k |-> m[j]] /\ \A j \in 1 .. k : m[j] \in S
  BY <1>1
<1>3. QED
  BY <1>2, IsASeq

LEMMA MailsAreSequences == Mails \subseteq Seq(Recipients)
BY BoundedAreSequences DEF Mails

LEMMA SInit == Init => SInv
BY DEF Init, SInv, CallOK, SessionOK, CountsOK, CopiesAccountedFor, Idle, Pcs, Session

(* Outside "quit" the mail has been taken as often as the answers say; an   *)
(* error or a step within the session leaves the copies where they are.     *)
LEMMA CountsStay ==
    ASSUME CountsOK, NEW a, Reply(a) \/ Silent, UNCHANGED <<mail, got>>,
           call.pc # "quit", call'.pc # "quit", Reply(a) => a # "sent"
    PROVE  CountsOK'
<1>1. sent' = sent /\ unsure' \in {unsure, unsure + 1}
  BY DEF Reply, Silent
<1>2. QED
  BY <1>1 DEF CountsOK, CopiesAccountedFor

(* A step that ends the call, or leaves the session as it is. *)
LEMMA Ended ==
    ASSUME SInv, NEW a, Reply(a)
    PROVE  CallOK' /\ SessionOK' /\ call'.pc # "quit"
BY DEF SInv, Reply, Idle, CallOK, SessionOK, Pcs, Session

LEMMA Started ==
    ASSUME SInv, call.pc \notin Session, NEW pc \in {"mx", "srv", "guess"}, Proceed(pc),
           UNCHANGED <<public, mail>>
    PROVE  CallOK' /\ SessionOK' /\ call'.pc # "quit" /\ Silent
BY DEF SInv, Proceed, CallOK, SessionOK, Pcs, Session

LEMMA Tried ==
    ASSUME SInv, call.pc \notin Session, NEW es, Try(es), UNCHANGED <<public, mail>>
    PROVE  CallOK' /\ SessionOK' /\ call'.pc # "quit" /\ Silent
BY DEF SInv, Try, CallOK, SessionOK, Pcs, Session

LEMMA NextTried ==
    ASSUME SInv, call.pc \notin Session, Failed, UNCHANGED <<public, mail, got>>
    PROVE  SInv'
<1>1. CASE \E a \in {"refused", "unable"} : Reply(a)
  BY <1>1, Ended, CountsStay DEF SInv, Session
<1>2. CASE /\ call' = [call EXCEPT !.pc = "dial", !.i = @ + 1, !.tls = FALSE]
           /\ Silent
  <2>1. CallOK' /\ SessionOK' /\ call'.pc # "quit"
    BY <1>2 DEF SInv, CallOK, SessionOK, Pcs, Session
  <2>2. QED
    BY <1>2, <2>1, CountsStay DEF SInv, Session
<1>3. QED
  BY <1>1, <1>2 DEF Failed

-----------------------------------------------------------------------------
LEMMA SNext == SInv /\ [Next]_vars => SInv'
<1> SUFFICES ASSUME SInv, [Next]_vars PROVE SInv'
  OBVIOUS
<1> USE DEF Session
<1>1. ASSUME NEW host \in Hosts, NEW port \in Ports \cup {25},
             NEW security \in {"", "ssl", "starttls", "other"}, ConnectToHost(host, port, security)
      PROVE  SInv'
  BY <1>1, Tried, Ended, CountsStay DEF ConnectToHost, SInv, world
<1>2. ASSUME NEW e \in Provided \cup {Null}, ConnectToDomain(e)
      PROVE  SInv'
  <2>1. CASE Try(<<e>>)
    BY <1>2, <2>1, Tried, CountsStay DEF ConnectToDomain, SInv, world
  <2>2. CASE Proceed("mx")
    BY <1>2, <2>2, Started, CountsStay DEF ConnectToDomain, SInv, world
  <2>3. QED
    BY <1>2, <2>1, <2>2 DEF ConnectToDomain
<1>3. ASSUME NEW mx \in MXRecords, LookupMX(mx)
      PROVE  SInv'
  <2>1. CASE Try(OfMX(mx))
    BY <1>3, <2>1, Tried, CountsStay DEF LookupMX, SInv, world
  <2>2. CASE Proceed("srv")
    BY <1>3, <2>2, Started, CountsStay DEF LookupMX, SInv, world
  <2>3. QED
    BY <1>3, <2>1, <2>2 DEF LookupMX
<1>4. ASSUME NEW submission \in SRVRecords, NEW submissions \in SRVRecords,
             LookupSRV(submission, submissions)
      PROVE  SInv'
  <2> DEFINE es == Distinct(OfSRV(submission, "starttls") \o OfSRV(submissions, "ssl"))
  <2>1. CASE Try(es)
    BY <1>4, <2>1, Tried, CountsStay DEF LookupSRV, SInv, world
  <2>2. CASE Proceed("guess")
    BY <1>4, <2>2, Started, CountsStay DEF LookupSRV, SInv, world
  <2>3. QED
    BY <1>4, <2>1, <2>2 DEF LookupSRV
<1>5. CASE LookupHost
  BY <1>5, Tried, Ended, CountsStay DEF LookupHost, SInv, world
<1>6. CASE Dial
  <2>1. CASE Failed
    BY <1>6, <2>1, NextTried DEF Dial, world
  <2>2. CASE ~Failed
    <3>1. CallOK' /\ SessionOK' /\ call'.pc # "quit" /\ Silent
      BY <1>6, <2>2 DEF Dial, world, SInv, CallOK, SessionOK, Pcs, Target, Resolves
    <3>2. QED
      BY <1>6, <3>1, CountsStay DEF Dial, SInv
  <2>3. QED
    BY <2>1, <2>2
<1>7. CASE StartTLS
  <2>1. CASE Failed
    BY <1>7, <2>1, NextTried DEF StartTLS, world
  <2>2. CASE ~Failed
    <3>1. CallOK' /\ SessionOK' /\ call'.pc # "quit" /\ Silent
      BY <1>7, <2>2 DEF StartTLS, world, SInv, CallOK, SessionOK, Pcs, Target
    <3>2. QED
      BY <1>7, <3>1, CountsStay DEF StartTLS, SInv
  <2>3. QED
    BY <2>1, <2>2
<1>8. CASE Authenticate
  <2>1. CASE Failed
    BY <1>8, <2>1, NextTried DEF Authenticate, world
  <2>2. CASE Reply("connected")
    BY <1>8, <2>2, Ended, CountsStay DEF Authenticate, SInv
  <2>3. CASE call.send /\ Proceed("mail")
    <3>1. call.pc = "auth" /\ UNCHANGED <<public, mail>>
      BY <1>8 DEF Authenticate, world
    <3>2. CallOK' /\ SessionOK' /\ call'.pc # "quit" /\ Silent
      BY <2>3, <3>1 DEF Proceed, SInv, CallOK, SessionOK, Pcs, Target
    <3>3. QED
      BY <1>8, <3>2, CountsStay DEF Authenticate, SInv
  <2>4. QED
    BY <1>8, <2>1, <2>2, <2>3 DEF Authenticate
<1>9. ASSUME NEW m \in Mails, NEW wf \in BOOLEAN, Execute(m, wf)
      PROVE  SInv'
  <2>1. sent' = sent /\ unsure' = unsure /\ sent = 0 /\ UNCHANGED got
    BY <1>9 DEF Execute, Reply, Silent
  <2>2. mail' = m /\ mail \in {Null, m} /\ m \in Seq(Recipients) /\ m # Null
    BY <1>9, MailsAreSequences, SmtpAssumption DEF Execute
  <2>3. CallOK' /\ SessionOK' /\ call'.pc # "quit"
    <3>1. CASE Reply("refused")
      BY <3>1, Ended
    <3>2. CASE call' = [Idle EXCEPT !.pc = "dial", !.send = TRUE, !.found = <<stored>>]
      BY <2>2, <3>2 DEF Idle, CallOK, SessionOK, Pcs
    <3>3. QED
      BY <1>9, <3>1, <3>2 DEF Execute
  <2>4. CountsOK'
    <3>1. \A r \in Recipients : got[r] \in Nat /\ got[r] <= unsure /\ unsure \in Nat
      BY <1>9, <2>1, <2>2 DEF Execute, SInv, CountsOK, CopiesAccountedFor
    <3>2. mail = Null => \A r \in Recipients : got[r] = 0
      BY DEF SInv, CountsOK, CopiesAccountedFor
    <3>3. QED
      BY <2>1, <2>2, <2>3, <3>1, <3>2 DEF SInv, CountsOK, CopiesAccountedFor
  <2>5. QED
    BY <2>3, <2>4 DEF SInv
<1>10. CASE MailFrom \/ Rcpt \/ Data
  <2>1. CASE Reply("refused")
    BY <1>10, <2>1, Ended, CountsStay DEF MailFrom, Rcpt, Data, SInv
  <2>2. CASE ~Reply("refused")
    <3>1. CallOK' /\ SessionOK' /\ call'.pc # "quit" /\ Silent
      BY <1>10, <2>2
      DEF MailFrom, Rcpt, Data, Proceed, world, SInv, CallOK, SessionOK, Pcs, Target
    <3>2. QED
      BY <1>10, <3>1, CountsStay DEF MailFrom, Rcpt, Data, SInv
  <2>3. QED
    BY <2>1, <2>2
<1>11. CASE WriteBody
  <2>1. \A r \in Recipients :
          (\E j \in 1 .. call.n : mail[j] = r) <=> (\E j \in DOMAIN mail : mail[j] = r)
    BY <1>11 DEF WriteBody, SInv, SessionOK, CountsOK
  <2>2. CASE Taken /\ Proceed("quit")
    <3>1. CallOK' /\ SessionOK' /\ call'.pc = "quit" /\ Silent
      BY <1>11, <2>2 DEF WriteBody, Proceed, world, SInv, CallOK, SessionOK, Pcs, Target
    <3>2. /\ got' \in [Recipients -> Nat]
          /\ \A r \in Recipients :
                got'[r] = got[r] + IF \E j \in DOMAIN mail : mail[j] = r THEN 1 ELSE 0
      BY <2>1, <2>2 DEF Taken, SInv, CountsOK
    <3>3. UNCHANGED <<mail, sent, unsure>> /\ mail # Null /\ call.pc = "body"
      BY <1>11, <3>1 DEF WriteBody, Silent, SInv, SessionOK
    <3>4. CountsOK'
      BY <3>1, <3>2, <3>3 DEF SInv, CountsOK, CopiesAccountedFor
    <3>5. QED
      BY <3>1, <3>4 DEF SInv
  <2>3. CASE Reply("unsure") /\ Taken
    <3>1. CallOK' /\ SessionOK' /\ call'.pc # "quit"
      BY <2>3, Ended
    <3>2. CountsOK'
      BY <1>11, <2>1, <2>3, <3>1
      DEF WriteBody, Reply, Taken, SInv, SessionOK, CountsOK, CopiesAccountedFor
    <3>3. QED
      BY <3>1, <3>2 DEF SInv
  <2>4. CASE (Reply("unsure") \/ Reply("refused")) /\ UNCHANGED got
    BY <1>11, <2>4, Ended, CountsStay DEF WriteBody, SInv
  <2>5. QED
    BY <1>11, <2>2, <2>3, <2>4 DEF WriteBody
<1>12. CASE Quit \/ Crash
  <2>1. /\ UNCHANGED <<mail, got>>
        /\ \/ call.pc = "quit" /\ Reply("sent")
           \/ Reply("unsure")
           \/ call.pc # "quit" /\ Reply(Null)
    BY <1>12 DEF Quit, Crash, SInv, SessionOK
  <2>2. CASE call.pc = "quit" /\ Reply("sent")
    <3>1. CallOK' /\ SessionOK' /\ call'.pc # "quit"
      BY <2>2, Ended
    <3>2. CountsOK'
      BY <2>1, <2>2, <3>1 DEF Reply, SInv, CountsOK, CopiesAccountedFor
    <3>3. QED
      BY <3>1, <3>2 DEF SInv
  <2>3. CASE Reply("unsure")
    <3>1. CallOK' /\ SessionOK' /\ call'.pc # "quit"
      BY <2>3, Ended
    <3>2. CountsOK'
      BY <2>1, <2>3, <3>1 DEF Reply, SInv, CountsOK, CopiesAccountedFor
    <3>3. QED
      BY <3>1, <3>2 DEF SInv
  <2>4. CASE call.pc # "quit" /\ Reply(Null)
    BY <2>1, <2>4, Ended, CountsStay, SmtpAssumption DEF Answers, SInv
  <2>5. QED
    BY <2>1, <2>2, <2>3, <2>4
<1>13. CASE Withdraw \/ UNCHANGED vars
  BY <1>13
  DEF Withdraw, Silent, vars, world, history, SInv, CallOK, SessionOK, CountsOK,
      CopiesAccountedFor, Target
<1>14. QED
  BY <1>1, <1>2, <1>3, <1>4, <1>5, <1>6, <1>7, <1>8, <1>9, <1>10, <1>11, <1>12, <1>13
  DEF Next

(* However often a mail is asked for again, whichever recipients are        *)
(* refused and wherever a session breaks, the copies that recipients have   *)
(* are those the answers allow.                                             *)
THEOREM CopiesCounted == Spec => []CopiesAccountedFor
<1>1. SInv => CopiesAccountedFor
  BY DEF SInv, CountsOK
<1>2. QED
  BY SInit, SNext, <1>1, PTL DEF Spec

-----------------------------------------------------------------------------
(* What a call tries or keeps has a security that connect knows, and a       *)
(* connection attempt leaves an endpoint behind only if it does not work.    *)
SafeEndpoint == {e \in Endpoint : e.security \in {"ssl", "starttls"}}

LEMMA FoundAreEndpoints ==
    ASSUME NEW es \in Seq(SafeEndpoint)
    PROVE  Distinct(es) \in Seq(SafeEndpoint)
BY KeptHolds DEF Distinct

LEMMA OfMXFound == ASSUME NEW mx \in MXRecords PROVE OfMX(mx) \in Seq(SafeEndpoint)
<1> DEFINE K == {j \in DOMAIN mx : mx[j] # Null}
<1> HIDE DEF K
<1>1. mx \in Seq(Provided \cup {Null})
  BY BoundedAreSequences, SmtpAssumption DEF MXRecords
<1>2. /\ Kept(mx, K) \in Seq(Provided \cup {Null})
      /\ \A k \in DOMAIN Kept(mx, K) : \E j \in K \cap DOMAIN mx : Kept(mx, K)[k] = mx[j]
  BY <1>1, KeptHolds
<1>3. \A j \in K \cap DOMAIN mx : mx[j] \in SafeEndpoint
  <2>1. \A j \in DOMAIN mx : mx[j] \in Provided \cup {Null}
    BY <1>1
  <2>2. QED
    BY <2>1 DEF Provided, SafeEndpoint, K
<1>4. Kept(mx, K) \in Seq(SafeEndpoint)
  BY <1>2, <1>3
<1>5. QED
  BY <1>4, FoundAreEndpoints DEF OfMX, K

LEMMA OfSRVFound ==
    ASSUME NEW srv \in SRVRecords, NEW security \in {"ssl", "starttls"}
    PROVE  OfSRV(srv, security) \in Seq(SafeEndpoint)
<1> DEFINE K == {j \in DOMAIN srv : srv[j].port \in Ports}
           usable == Kept(srv, K)
<1> HIDE DEF K
<1>1. srv \in Seq([host : Hosts, port : Ports \cup {25}])
  BY BoundedAreSequences, SmtpAssumption DEF SRVRecords
<1>2. /\ usable \in Seq([host : Hosts, port : Ports \cup {25}])
      /\ \A k \in DOMAIN usable : \E j \in K \cap DOMAIN srv : usable[k] = srv[j]
  BY <1>1, KeptHolds
<1>3. \A j \in K \cap DOMAIN srv : srv[j].host \in Hosts /\ srv[j].port \in Ports
  <2> DEFINE Record == [host : Hosts, port : Ports \cup {25}]
  <2>1. \A j \in DOMAIN srv : srv[j] \in Record
    <3>1. srv \in Seq(Record)
      BY <1>1
    <3> HIDE DEF Record
    <3>2. QED
      BY <3>1
  <2>2. QED
    BY <2>1 DEF K
<1>4. OfSRV(srv, security) = [j \in DOMAIN usable |->
          [host |-> usable[j].host, port |-> usable[j].port, security |-> security]]
  BY DEF OfSRV, K
<1> HIDE DEF usable
<1>5. \A k \in DOMAIN usable : usable[k].host \in Hosts /\ usable[k].port \in Ports
  BY <1>2, <1>3
<1>6. DOMAIN usable = 1 .. Len(usable) /\ Len(usable) \in Nat
  BY <1>2
<1>7. QED
  BY <1>4, <1>5, <1>6 DEF SafeEndpoint, Endpoint

LEMMA OneOrTwo ==
    ASSUME NEW a \in SafeEndpoint, NEW b \in SafeEndpoint
    PROVE  /\ <<a>> \in Seq(SafeEndpoint) /\ <<a>> # <<>>
           /\ <<a, b>> \in Seq(SafeEndpoint) /\ <<a, b>> # <<>>
OBVIOUS

(* The list of endpoints, and where the attempt is in it. *)
FoundOK ==
    /\ call.found \in Seq(SafeEndpoint) /\ call.i \in Nat
    /\ call.pc \in {"idle", "mx", "srv", "guess"} => call.found = <<>> /\ call.i = 1
    /\ call.pc \notin {"idle", "mx", "srv", "guess"} => call.i \in 1 .. Len(call.found)
    /\ call.pc = "starttls" => Target.security = "starttls"
    /\ call.pc \in {"auth"} \cup Session => call.tls
    /\ stored \in SafeEndpoint \cup {Null}

USE DEF Session

(* With no exchange lost, the endpoints passed over do not work. *)
PassedOver ==
    faults = 0 =>
        \A j \in DOMAIN call.found : j < call.i => ~Works(call.found[j])

WorldOK ==
    /\ server \in [Hosts \X Ports -> Modes] /\ public \subseteq Hosts /\ takes \in BOOLEAN
    /\ tries \in Nat /\ faults \in Nat
    /\ mail \in Mails \cup {Null} /\ answer \in Answers \cup {Null}

MInv == SInv /\ FoundOK /\ PassedOver /\ WorldOK

LEMMA MInit == Init => MInv
<1> SUFFICES ASSUME Init PROVE MInv
  OBVIOUS
<1>1. FoundOK /\ PassedOver
  BY DEF Init, Idle, FoundOK, PassedOver
<1>2. WorldOK
  BY DEF Init, WorldOK
<1>3. QED
  BY <1>1, <1>2, SInit DEF MInv

LEMMA WorldStep == MInv /\ [Next]_vars => WorldOK'
<1> SUFFICES ASSUME MInv, [Next]_vars PROVE WorldOK'
  OBVIOUS
<1>1. ASSUME NEW a \in Answers \cup {Null}, Reply(a) PROVE answer' \in Answers \cup {Null}
  BY <1>1 DEF Reply
<1>2. Silent => answer' \in Answers \cup {Null}
  BY DEF Silent
<1>3. answer' \in Answers \cup {Null}
  BY <1>1, <1>2
  DEF MInv, WorldOK, Next, vars, Answers, Proceed, Try, Failed, ConnectToHost, ConnectToDomain,
      LookupMX, LookupSRV, LookupHost, Dial, StartTLS, Authenticate, Execute, MailFrom, Rcpt,
      Data, WriteBody, Quit, Crash, Withdraw
<1>4. faults' \in Nat
  <2>1. faults' = faults \/ faults' = faults + 1
    BY DEF Next, vars, Lost, ConnectToHost, ConnectToDomain, LookupMX, LookupSRV, LookupHost,
           Dial, StartTLS, Authenticate, Execute, MailFrom, Rcpt, Data, WriteBody, Quit,
           Crash, Withdraw
  <2>2. QED
    BY <2>1 DEF MInv, WorldOK
<1>5. /\ tries' = tries \/ tries' = tries + 1
      /\ mail' = mail \/ mail' \in Mails
  BY DEF Next, vars, history, ConnectToHost, ConnectToDomain, LookupMX, LookupSRV, LookupHost,
         Dial, StartTLS, Authenticate, Execute, MailFrom, Rcpt, Data, WriteBody, Quit,
         Crash, Withdraw
<1>6. server' = server /\ public' = public /\ takes' \in BOOLEAN
  BY DEF MInv, WorldOK, Next, vars, world, ConnectToHost, ConnectToDomain,
         LookupMX, LookupSRV, LookupHost, Dial, StartTLS, Authenticate, Execute, MailFrom, Rcpt,
         Data, WriteBody, Quit, Crash, Withdraw
<1>7. QED
  BY <1>3, <1>4, <1>5, <1>6 DEF MInv, WorldOK

(* Before the attempt has endpoints, or after it. *)
LEMMA NoneYet ==
    ASSUME call'.found = <<>>, call'.i = 1, call'.pc \in {"idle", "mx", "srv", "guess"},
           stored' \in SafeEndpoint \cup {Null}
    PROVE  FoundOK' /\ PassedOver'
BY DEF FoundOK, PassedOver

LEMMA SomeFound ==
    ASSUME NEW es \in Seq(SafeEndpoint), es # <<>>,
           call'.found = es, call'.i = 1, call'.pc = "dial",
           stored' \in SafeEndpoint \cup {Null}
    PROVE  FoundOK' /\ PassedOver'
BY DEF FoundOK, PassedOver

LEMMA RepliedFound ==
    ASSUME NEW a, Reply(a), stored' \in SafeEndpoint \cup {Null}
    PROVE  FoundOK' /\ PassedOver'
BY NoneYet DEF Reply, Idle

LEMMA TriedFound ==
    ASSUME MInv, NEW es \in Seq(SafeEndpoint), es # <<>>, Try(es), UNCHANGED stored,
           call.pc \in {"idle", "mx", "srv", "guess"}
    PROVE  FoundOK' /\ PassedOver'
<1>1. call'.found = es /\ call'.i = 1 /\ call'.pc = "dial"
  BY DEF Try, MInv, SInv, CallOK, FoundOK
<1>2. QED
  BY <1>1, SomeFound DEF MInv, FoundOK

LEMMA AskedFound ==
    ASSUME MInv, NEW pc \in {"mx", "srv", "guess"}, Proceed(pc), UNCHANGED stored,
           call.pc \in {"idle", "mx", "srv", "guess"}
    PROVE  FoundOK' /\ PassedOver'
<1>1. call'.found = <<>> /\ call'.i = 1 /\ call'.pc = pc
  BY DEF Proceed, MInv, SInv, CallOK, FoundOK
<1>2. QED
  BY <1>1, NoneYet DEF MInv, FoundOK

(* The attempt goes on with the endpoint that it has. *)
LEMMA GoneOn ==
    ASSUME MInv, call.pc \notin {"idle", "mx", "srv", "guess"},
           call'.found = call.found, call'.i = call.i,
           call'.pc \notin {"idle", "mx", "srv", "guess", "starttls"},
           call'.pc \in {"auth"} \cup Session => call'.tls,
           UNCHANGED <<server, public, takes, stored, faults>>
    PROVE  FoundOK' /\ PassedOver'
BY DEF MInv, FoundOK, PassedOver, Works, Resolves, Mode

(* An endpoint is left behind; the last one left means that none works.     *)
LEMMA FailedFound ==
    ASSUME MInv, Failed, call.pc \in {"dial", "starttls", "auth"},
           faults' = 0 => ~Works(Target) /\ faults = 0,
           UNCHANGED <<server, public, takes, stored>>
    PROVE  /\ FoundOK' /\ PassedOver'
           /\ answer' = "unable" /\ faults' = 0 =>
                  \A j \in DOMAIN call.found : ~Works(call.found[j])
<1>0. call.i \in 1 .. Len(call.found) /\ DOMAIN call.found = 1 .. Len(call.found)
      /\ Len(call.found) \in Nat
  BY DEF MInv, FoundOK
<1>1. ASSUME NEW a \in {"refused", "unable"}, Reply(a) PROVE FoundOK' /\ PassedOver'
  BY <1>1, RepliedFound DEF MInv, FoundOK
<1>2. CASE /\ call.i < Len(call.found)
           /\ call' = [call EXCEPT !.pc = "dial", !.i = @ + 1, !.tls = FALSE]
           /\ Silent
  <2>1. call'.found = call.found /\ call'.i = call.i + 1 /\ call'.pc = "dial"
    BY <1>2 DEF MInv, SInv, CallOK
  <2>2. FoundOK'
    BY <1>0, <1>2, <2>1 DEF MInv, FoundOK
  <2>3. \A e : Works(e)' <=> Works(e)
    BY DEF Works, Resolves, Mode
  <2>4. PassedOver'
    <3> SUFFICES ASSUME faults' = 0, NEW j \in DOMAIN call.found, j < call.i + 1
                 PROVE  ~Works(call.found[j])
      BY <2>1, <2>3 DEF PassedOver
    <3>1. QED
      BY <1>0 DEF MInv, PassedOver, Target
  <2>5. answer' # "unable"
    BY <1>2, SmtpAssumption DEF Silent, Answers
  <2>6. QED
    BY <2>2, <2>4, <2>5
<1>3. CASE call.send /\ Reply("refused")
  BY <1>1, <1>3 DEF Reply
<1>4. CASE call.i = Len(call.found) /\ Reply("unable")
  BY <1>0, <1>1, <1>4 DEF MInv, PassedOver, Target
<1>5. QED
  BY <1>2, <1>3, <1>4 DEF Failed

-----------------------------------------------------------------------------
(* What "unable" says, and the steps by what they do to the list. *)
Told ==
    answer' = "unable" /\ faults' = 0 => \A j \in DOMAIN call.found : ~Works(call.found[j])

Discovers ==
    \/ \E host \in Hosts, port \in Ports \cup {25}, security \in {"", "ssl", "starttls", "other"} :
          ConnectToHost(host, port, security)
    \/ \E e \in Provided \cup {Null} : ConnectToDomain(e)
    \/ \E mx \in MXRecords : LookupMX(mx)
    \/ \E submission, submissions \in SRVRecords : LookupSRV(submission, submissions)
    \/ LookupHost

Sends ==
    \/ \E m \in Mails, wf \in BOOLEAN : Execute(m, wf)
    \/ MailFrom \/ Rcpt \/ Data \/ WriteBody \/ Quit \/ Crash
    \/ Withdraw

LEMMA DiscoveryStep ==
    ASSUME MInv, Discovers
    PROVE  FoundOK' /\ PassedOver' /\ Told
<1>0. stored' = stored /\ call.pc \in {"idle", "mx", "srv", "guess"} /\ call.found = <<>>
      /\ stored \in SafeEndpoint \cup {Null}
  BY DEF Discovers, ConnectToHost, ConnectToDomain, LookupMX, LookupSRV, LookupHost, MInv,
         FoundOK
<1>t. Told
  <2>1. DOMAIN call.found = {}
    BY <1>0
  <2>2. QED
    BY <2>1 DEF Told
<1>r. ASSUME NEW a, Reply(a) PROVE FoundOK' /\ PassedOver'
  BY <1>0, <1>r, RepliedFound
<1>1. ASSUME NEW host \in Hosts, NEW port \in Ports \cup {25},
             NEW security \in {"", "ssl", "starttls", "other"}, ConnectToHost(host, port, security)
      PROVE  FoundOK' /\ PassedOver'
  <2> DEFINE e == [host |-> host, port |-> port,
                   security |-> IF security = "" THEN DefaultSecurity(port) ELSE security]
  <2>1. CASE Normalized(e) /\ Try(<<e>>)
    <3>1. e \in SafeEndpoint
      <4>1. e.port = port /\ port \in Ports /\ e.security \in {"ssl", "starttls"}
        BY <2>1 DEF Normalized, Ports, DefaultSecurity
      <4>2. QED
        BY <4>1 DEF SafeEndpoint, Endpoint
    <3>n. Try(<<e>>)
      BY <2>1
    <3> HIDE DEF e
    <3>2. <<e>> \in Seq(SafeEndpoint) /\ <<e>> # <<>>
      BY <3>1, OneOrTwo
    <3>3. QED
      BY <1>0, <3>n, <3>2, TriedFound
  <2>2. CASE Reply("unable")
    BY <1>r, <2>2
  <2>3. QED
    BY <1>1, <2>1, <2>2 DEF ConnectToHost
<1>2. ASSUME NEW e \in Provided \cup {Null}, ConnectToDomain(e) PROVE FoundOK' /\ PassedOver'
  <2>1. CASE e # Null /\ Try(<<e>>)
    <3>1. e \in SafeEndpoint
      BY <2>1 DEF Provided, SafeEndpoint
    <3>2. <<e>> \in Seq(SafeEndpoint) /\ <<e>> # <<>>
      BY <3>1, OneOrTwo
    <3>3. QED
      BY <1>0, <2>1, <3>2, TriedFound
  <2>2. CASE Proceed("mx")
    BY <1>0, <2>2, AskedFound
  <2>3. QED
    BY <1>2, <2>1, <2>2 DEF ConnectToDomain
<1>3. ASSUME NEW mx \in MXRecords, LookupMX(mx) PROVE FoundOK' /\ PassedOver'
  BY <1>0, <1>3, OfMXFound, TriedFound, AskedFound DEF LookupMX
<1>4. ASSUME NEW submission \in SRVRecords, NEW submissions \in SRVRecords,
             LookupSRV(submission, submissions)
      PROVE  FoundOK' /\ PassedOver'
  <2> DEFINE es == Distinct(OfSRV(submission, "starttls") \o OfSRV(submissions, "ssl"))
  <2>1. es \in Seq(SafeEndpoint)
    <3>1. OfSRV(submission, "starttls") \in Seq(SafeEndpoint) /\ OfSRV(submissions, "ssl") \in Seq(SafeEndpoint)
      BY OfSRVFound
    <3>2. OfSRV(submission, "starttls") \o OfSRV(submissions, "ssl") \in Seq(SafeEndpoint)
      BY <3>1
    <3>3. QED
      BY <3>2, FoundAreEndpoints
  <2> HIDE DEF es
  <2>2. \/ es # <<>> /\ Try(es)
        \/ Proceed("guess")
    BY <1>4 DEF LookupSRV, es
  <2>3. QED
    BY <1>0, <2>1, <2>2, TriedFound, AskedFound
<1>5. CASE LookupHost
  <2> DEFINE x == [host |-> Guess, port |-> 587, security |-> "starttls"]
             y == [host |-> Guess, port |-> 465, security |-> "ssl"]
  <2>1. x \in SafeEndpoint /\ y \in SafeEndpoint
    BY SmtpAssumption DEF SafeEndpoint, Endpoint, Ports
  <2>2. Try(<<x, y>>) \/ Reply("unable")
    BY <1>5 DEF LookupHost
  <2> HIDE DEF x, y
  <2>3. <<x, y>> \in Seq(SafeEndpoint) /\ <<x, y>> # <<>>
    BY <2>1, OneOrTwo
  <2>4. CASE Try(<<x, y>>)
    BY <1>0, <1>t, <2>3, <2>4, TriedFound
  <2>5. QED
    BY <1>r, <1>t, <2>2, <2>4
<1>6. QED
  BY <1>1, <1>2, <1>3, <1>4, <1>5, <1>t DEF Discovers

LEMMA ConnectStep ==
    ASSUME MInv, Dial \/ StartTLS \/ Authenticate
    PROVE  FoundOK' /\ PassedOver' /\ Told
<1>0. /\ call.i \in 1 .. Len(call.found) /\ call.found \in Seq(SafeEndpoint)
      /\ call.pc \in {"dial", "starttls", "auth"} /\ faults \in Nat
      /\ UNCHANGED <<server, public, takes>>
  BY DEF MInv, FoundOK, WorldOK, Dial, StartTLS, Authenticate, world
<1>e. Target \in SafeEndpoint
  BY <1>0 DEF Target
<1>1. ASSUME ~Works(Target), Failed, UNCHANGED <<stored, faults>>
      PROVE  FoundOK' /\ PassedOver' /\ Told
  BY <1>0, <1>1, FailedFound DEF Told
<1>2. ASSUME Lost, Failed, UNCHANGED stored
      PROVE  FoundOK' /\ PassedOver' /\ Told
  <2>1. faults' # 0
    BY <1>0, <1>2 DEF Lost
  <2>2. QED
    BY <1>0, <1>2, <2>1, FailedFound DEF Told
<1>3. ASSUME Silent PROVE Told
  BY <1>3, SmtpAssumption DEF Silent, Told, Answers
<1>4. CASE Dial
  <2> DEFINE greets == Resolves(Target) /\ ((Target.security = "ssl") <=> (Mode(Target) = "tls"))
  <2>1. CASE ~greets /\ Failed /\ UNCHANGED faults
    BY <1>1, <1>4, <2>1 DEF Dial, Works
  <2>2. CASE Lost /\ Failed
    BY <1>2, <1>4, <2>2 DEF Dial
  <2>3. CASE /\ call' = [call EXCEPT !.pc = IF Target.security = "starttls" THEN "starttls" ELSE "auth",
                                     !.tls = Target.security = "ssl"]
             /\ Silent /\ UNCHANGED faults
    <3>1. /\ call'.found = call.found /\ call'.i = call.i
          /\ call'.pc = IF Target.security = "starttls" THEN "starttls" ELSE "auth"
          /\ call'.tls = (Target.security = "ssl")
      BY <2>3 DEF MInv, SInv, CallOK
    <3>2. CASE Target.security = "ssl"
      <4>1. call'.pc = "auth" /\ call'.tls /\ UNCHANGED <<stored, faults>> /\ call.pc = "dial"
        BY <1>4, <2>3, <3>1, <3>2 DEF Dial
      <4>2. FoundOK' /\ PassedOver'
        BY <1>0, <3>1, <4>1, GoneOn
      <4>3. QED
        BY <1>3, <2>3, <4>2
    <3>3. CASE Target.security = "starttls"
      <4>2. \A e : Works(e)' <=> Works(e)
        BY <1>0 DEF Works, Resolves, Mode
      <4>3. FoundOK'
        BY <1>0, <1>4, <3>1, <3>3 DEF Dial, MInv, FoundOK, Target
      <4>4. PassedOver'
        BY <2>3, <3>1, <4>2 DEF MInv, PassedOver
      <4>5. QED
        BY <1>3, <2>3, <4>3, <4>4
    <3>4. QED
      BY <1>e, <3>2, <3>3 DEF SafeEndpoint
  <2>4. QED
    BY <1>4, <2>1, <2>2, <2>3 DEF Dial
<1>5. CASE StartTLS
  <2>1. CASE Mode(Target) # "starttls" /\ Failed /\ UNCHANGED faults
    <3>1. Target.security = "starttls"
      BY <1>5 DEF StartTLS, MInv, FoundOK
    <3>2. QED
      BY <1>1, <1>5, <2>1, <3>1 DEF StartTLS, Works
  <2>2. CASE Lost /\ Failed
    BY <1>2, <1>5, <2>2 DEF StartTLS
  <2>3. CASE call' = [call EXCEPT !.pc = "auth", !.tls = TRUE] /\ Silent /\ UNCHANGED faults
    <3>1. call'.found = call.found /\ call'.i = call.i /\ call'.pc = "auth" /\ call'.tls
      BY <2>3 DEF MInv, SInv, CallOK
    <3>2. QED
      BY <1>0, <1>3, <1>5, <2>3, <3>1, GoneOn DEF StartTLS
  <2>4. QED
    BY <1>5, <2>1, <2>2, <2>3 DEF StartTLS
<1>6. CASE Authenticate
  <2>1. CASE ~(takes /\ call.tls) /\ Failed /\ UNCHANGED <<stored, faults>>
    <3>1. call.tls
      BY <1>6 DEF Authenticate, MInv, FoundOK
    <3>2. QED
      BY <1>1, <2>1, <3>1 DEF Works
  <2>2. CASE Lost /\ Failed /\ UNCHANGED stored
    BY <1>2, <2>2
  <2>3. CASE Proceed("mail") /\ UNCHANGED <<stored, faults>>
    <3>1. /\ call'.found = call.found /\ call'.i = call.i /\ call'.pc = "mail" /\ Silent
          /\ call'.tls
      BY <1>6, <2>3 DEF Authenticate, Proceed, MInv, SInv, CallOK, FoundOK
    <3>2. QED
      BY <1>0, <1>3, <2>3, <3>1, GoneOn
  <2>4. CASE Reply("connected") /\ stored' = Target
    BY <1>e, <2>4, RepliedFound DEF Reply, Told
  <2>5. QED
    BY <1>6, <2>1, <2>2, <2>3, <2>4 DEF Authenticate
<1>7. QED
  BY <1>4, <1>5, <1>6

LEMMA SendStep ==
    ASSUME MInv, Sends
    PROVE  FoundOK' /\ PassedOver' /\ Told
<1> USE SmtpAssumption
<1>0. UNCHANGED <<server, public, stored>> /\ stored \in SafeEndpoint \cup {Null}
  BY DEF Sends, MInv, FoundOK, Execute, MailFrom, Rcpt, Data, WriteBody, Quit, Crash, Withdraw, world
<1>1. ASSUME NEW a \in {"sent", "refused", "unsure", Null}, Reply(a)
      PROVE  FoundOK' /\ PassedOver' /\ Told
  BY <1>0, <1>1, RepliedFound DEF Reply, Told, Answers
<1>2. ASSUME Silent PROVE Told
  BY <1>2 DEF Silent, Told, Answers
<1>3. ASSUME NEW m \in Mails, NEW wf \in BOOLEAN, Execute(m, wf)
      PROVE  FoundOK' /\ PassedOver' /\ Told
  <2>1. CASE call' = [Idle EXCEPT !.pc = "dial", !.send = TRUE, !.found = <<stored>>] /\ Silent
    <3>1. call'.found = <<stored>> /\ call'.i = 1 /\ call'.pc = "dial"
      BY <2>1 DEF Idle
    <3>2. stored \in SafeEndpoint
      BY <1>0, <1>3 DEF Execute
    <3>3. <<stored>> \in Seq(SafeEndpoint) /\ <<stored>> # <<>>
      BY <3>2
    <3>4. FoundOK' /\ PassedOver'
      BY <1>0, <3>1, <3>3, SomeFound
    <3>5. QED
      BY <1>2, <2>1, <3>4
  <2>2. QED
    BY <1>1, <1>3, <2>1 DEF Execute
<1>4. CASE MailFrom \/ Rcpt \/ Data \/ WriteBody
  <2>1. \/ \E a \in {"refused", "unsure"} : Reply(a)
        \/ \E pc \in {"rcpt", "data", "body", "quit"} : Proceed(pc) /\ UNCHANGED faults
        \/ call' = [call EXCEPT !.n = @ + 1] /\ Silent /\ UNCHANGED faults
    BY <1>4 DEF MailFrom, Rcpt, Data, WriteBody
  <2>2. call.pc \in {"mail", "rcpt", "data", "body"} /\ UNCHANGED takes
    BY <1>4 DEF MailFrom, Rcpt, Data, WriteBody, world
  <2>3. ASSUME NEW pc \in {"rcpt", "data", "body", "quit"}, Proceed(pc), UNCHANGED faults
        PROVE  FoundOK' /\ PassedOver' /\ Told
    <3>1. /\ call'.found = call.found /\ call'.i = call.i /\ call'.pc = pc /\ Silent
          /\ call'.tls
      BY <2>2, <2>3 DEF Proceed, MInv, SInv, CallOK, FoundOK
    <3>2. QED
      BY <1>0, <1>2, <2>2, <2>3, <3>1, GoneOn
  <2>4. ASSUME call' = [call EXCEPT !.n = @ + 1], Silent, UNCHANGED faults
        PROVE  FoundOK' /\ PassedOver' /\ Told
    <3>1. /\ call'.found = call.found /\ call'.i = call.i /\ call'.pc = call.pc
          /\ call'.tls
      BY <2>2, <2>4 DEF MInv, SInv, CallOK, FoundOK
    <3>2. QED
      BY <1>0, <1>2, <2>2, <2>4, <3>1, GoneOn
  <2>5. QED
    BY <1>1, <2>1, <2>3, <2>4
<1>5. CASE Quit \/ Crash
  BY <1>1, <1>5 DEF Quit, Crash
<1>6. CASE Withdraw
  <2>1. \A e : Works(e)' => Works(e)
    BY <1>6 DEF Withdraw, Works, Resolves, Mode
  <2>2. call' = call /\ faults' = faults /\ Silent
    BY <1>6 DEF Withdraw
  <2>3. FoundOK'
    BY <1>0, <2>2 DEF MInv, FoundOK, Target
  <2>4. PassedOver'
    BY <2>1, <2>2 DEF MInv, PassedOver
  <2>5. QED
    BY <1>2, <2>2, <2>3, <2>4
<1>7. QED
  BY <1>3, <1>4, <1>5, <1>6 DEF Sends

LEMMA MStep ==
    ASSUME MInv, [Next]_vars
    PROVE  FoundOK' /\ PassedOver' /\ (Told \/ UNCHANGED vars)
<1>1. CASE UNCHANGED vars
  <2>1. UNCHANGED <<server, public, takes, stored, call, faults>>
    BY <1>1 DEF vars, world
  <2>2. \A e : Works(e)' <=> Works(e)
    BY <2>1 DEF Works, Resolves, Mode
  <2>3. FoundOK'
    BY <2>1 DEF MInv, FoundOK, Target
  <2>4. PassedOver'
    BY <2>1, <2>2 DEF MInv, PassedOver
  <2>5. QED
    BY <1>1, <2>3, <2>4
<1>2. CASE Discovers
  BY <1>2, DiscoveryStep
<1>3. CASE Dial \/ StartTLS \/ Authenticate
  BY <1>3, ConnectStep
<1>4. CASE Sends
  BY <1>4, SendStep
<1>5. QED
  BY <1>1, <1>2, <1>3, <1>4 DEF Next, Discovers, Sends

LEMMA SpecMInv == Spec => []MInv
<1>1. MInv /\ [Next]_vars => MInv'
  BY MStep, SNext, WorldStep DEF MInv
<1>2. QED
  BY MInit, <1>1, PTL DEF Spec

(* The mailbox and the call keep their types: whatever the DNS answered, a  *)
(* call never runs past the endpoints that it has.                          *)
THEOREM MailboxTypeCorrect == Spec => []TypeOK
<1>1. MInv => TypeOK
  <2> SUFFICES ASSUME MInv PROVE TypeOK
    OBVIOUS
  <2>1. DOMAIN call.found = 1 .. Len(call.found) /\ call.found \in Seq(SafeEndpoint)
    BY DEF MInv, FoundOK
  <2>2. \A j \in DOMAIN call.found : call.found[j] \in Endpoint
    BY <2>1 DEF SafeEndpoint
  <2>3. call.pc \notin {"idle", "mx", "srv", "guess"} => call.i \in DOMAIN call.found
    BY <2>1 DEF MInv, FoundOK
  <2>4. QED
    BY <2>2, <2>3 DEF MInv, SInv, FoundOK, SafeEndpoint, WorldOK, CallOK, CountsOK, Pcs, Session, TypeOK
<1>2. QED
  BY <1>1, SpecMInv, PTL

(* No session reaches AUTH without TLS or at a host that is not public,     *)
(* whatever security the caller names and whatever discovery finds.         *)
THEOREM PasswordKept == Spec => []PasswordGuarded
<1>1. MInv => PasswordGuarded
  BY DEF MInv, SInv, SessionOK, FoundOK, PasswordGuarded, Session, Resolves
<1>2. QED
  BY SpecMInv, <1>1, PTL

(* Who is told that the mailbox cannot be connected, with no exchange lost, *)
(* has no endpoint that works: the attempt has left each one behind for a   *)
(* reason, up to the last.                                                  *)
THEOREM NoneWorks == Spec => WorkingEndpointFound
<1>1. MInv /\ [Next]_vars =>
          [answer' = "unable" /\ faults' = 0 =>
              \A j \in DOMAIN call.found : ~Works(call.found[j])]_vars
  BY MStep DEF Told
<1>2. QED
  BY <1>1, SpecMInv, PTL DEF Spec, WorkingEndpointFound
=============================================================================
