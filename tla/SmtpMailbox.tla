------------------------------ MODULE SmtpMailbox ------------------------------
(***************************************************************************)
(* The smtp_email adapter, for one mailbox: discovery of the mail server's *)
(* endpoints when the mailbox is connected, and the SMTP session of a tool *)
(* call that sends a mail, which its caller may repeat after an error.     *)
(* Every action is one exchange with DNS or a mail server; each may fail,  *)
(* for the network or because the 15 seconds of the session are over.      *)
(***************************************************************************)
EXTENDS Integers, Lists

CONSTANTS
    Hosts,       \* names of mail hosts
    Guess,       \* smtp.<domain of the mailbox>
    Recipients,  \* email addresses
    Null,        \* nothing stored, no mail, no answer
    MaxMX,       \* bound: MX records of the domain
    MaxSRV,      \* bound: SRV records of each service
    MaxTries,    \* bound: tool calls for one mail
    MaxFaults    \* bound: exchanges that fail, and crashes

VARIABLES
    server,      \* (host, port) -> how it greets its clients
    public,      \* the hosts with a public address
    takes,       \* the mail provider takes the password
    stored,      \* the endpoint kept with the credentials
    call,        \* the tool call or connection attempt under way
    mail,        \* the recipients of the mail that is to be sent
    tries,       \* tool calls made for it
    got,         \* recipient -> sessions in which a server took it for them
    sent,        \* answers that it has been sent
    unsure,      \* answers after which it may have been
    answer,      \* what the last step told its caller
    faults       \* how many of MaxFaults have happened

world == <<server, public, takes>>
history == <<mail, tries, got, sent, unsure>>
vars == <<world, history, stored, call, answer, faults>>

Ports == {465, 587}

(* The security is free text; "other" stands for any other word. *)
Endpoint == [host : Hosts, port : Ports, security : {"ssl", "starttls", "other"}]

(* To, cc and bcc, one after the other: an address may be in it twice. *)
Mails == {m \in BoundedSeq(Recipients, 2) : m # <<>>}

Answers == {"connected", "unable", "sent", "refused", "unsure"}

ASSUME SmtpAssumption ==
    /\ Guess \in Hosts
    /\ MaxMX \in Nat /\ MaxSRV \in Nat /\ MaxTries \in Nat /\ MaxFaults \in Nat
    /\ Null \notin Endpoint /\ Null \notin Seq(Recipients) /\ Null \notin Answers

(* A server speaks TLS from the start, offers it, or has none.  The port of *)
(* a host that does not listen is like that of a host with no address.      *)
Modes == {"tls", "starttls", "plain"}

Idle == [pc |-> "idle", send |-> FALSE, found |-> <<>>, i |-> 1, tls |-> FALSE, n |-> 0]

Init ==
    /\ server \in [Hosts \X Ports -> Modes]
    /\ public \in SUBSET Hosts
    /\ takes = TRUE
    /\ stored = Null
    /\ call = Idle
    /\ mail = Null /\ tries = 0 /\ sent = 0 /\ unsure = 0
    /\ got = [r \in Recipients |-> 0]
    /\ answer = Null
    /\ faults = 0

-----------------------------------------------------------------------------
(* Replies and faults. *)

Silent == answer' = Null /\ UNCHANGED <<sent, unsure>>

Proceed(pc) == call' = [call EXCEPT !.pc = pc] /\ Silent

Reply(a) ==
    /\ call' = Idle
    /\ answer' = a
    /\ sent' = IF a = "sent" THEN sent + 1 ELSE sent
    /\ unsure' = IF a = "unsure" THEN unsure + 1 ELSE unsure

Lost == faults < MaxFaults /\ faults' = faults + 1

-----------------------------------------------------------------------------
(* Endpoints. *)

(* Every entry of knownSMTPDomains and endpointForMXHost is one of these. *)
Provided == {e \in Endpoint : <<e.port, e.security>> \in {<<465, "ssl">>, <<587, "starttls">>}}

(* Faulty variant: a security that connect does not know goes unnoticed. *)
NormalizedPort(e) ==
    /\ e.port \in Ports
    /\ e.security = "ssl" => e.port = 465
    /\ e.security = "starttls" => e.port = 587

(* validateNormalizedCredentials, as far as it looks at the endpoint. *)
Normalized(e) ==
    /\ e.port \in Ports
    /\ e.port = 465 => e.security = "ssl"
    /\ e.port = 587 => e.security = "starttls"

(* The security that parseCredentials takes when none is given. *)
DefaultSecurity(port) == IF port = 465 THEN "ssl" ELSE "starttls"

(* Each is appended unless it is there already. *)
Distinct(es) == Kept(es, {j \in DOMAIN es : \A i \in 1 .. j - 1 : es[i] # es[j]})

(* What discoverSMTPEndpoints makes of the MX records; Null stands for a    *)
(* host it does not know.                                                   *)
OfMX(mx) == Distinct(Kept(mx, {j \in DOMAIN mx : mx[j] # Null}))

(* And of the SRV records of one service. *)
OfSRV(srv, security) ==
    LET usable == Kept(srv, {j \in DOMAIN srv : srv[j].port \in Ports})
    IN [j \in DOMAIN usable |->
           [host |-> usable[j].host, port |-> usable[j].port, security |-> security]]

MXRecords == BoundedSeq(Provided \cup {Null}, MaxMX)
SRVRecords == BoundedSeq([host : Hosts, port : Ports \cup {25}], MaxSRV)

(* With these endpoints a connection is tried next. *)
Try(es) == call' = [call EXCEPT !.pc = "dial", !.found = es] /\ Silent

-----------------------------------------------------------------------------
(* ValidateCredentials. *)

(* The caller names the host, with or without the security. *)
ConnectToHost(host, port, security) ==
    LET e == [host |-> host, port |-> port,
              security |-> IF security = "" THEN DefaultSecurity(port) ELSE security]
    IN
    /\ call.pc = "idle"
    /\ \/ Normalized(e) /\ Try(<<e>>)
       \/ ~Normalized(e) /\ Reply("unable")
    /\ UNCHANGED <<world, mail, tries, got, stored, faults>>

(* The caller leaves it to discovery; e is the entry of the domain. *)
ConnectToDomain(e) ==
    /\ call.pc = "idle"
    /\ \/ e # Null /\ Try(<<e>>)
       \/ e = Null /\ Proceed("mx")
    /\ UNCHANGED <<world, mail, tries, got, stored, faults>>

(* The errors of the lookups are dropped: a failed one has no records. *)
LookupMX(mx) ==
    /\ call.pc = "mx"
    /\ \/ OfMX(mx) # <<>> /\ Try(OfMX(mx))
       \/ OfMX(mx) = <<>> /\ Proceed("srv")
    /\ UNCHANGED <<world, mail, tries, got, stored, faults>>

LookupSRV(submission, submissions) ==
    LET es == Distinct(OfSRV(submission, "starttls") \o OfSRV(submissions, "ssl")) IN
    /\ call.pc = "srv"
    /\ \/ es # <<>> /\ Try(es)
       \/ es = <<>> /\ Proceed("guess")
    /\ UNCHANGED <<world, mail, tries, got, stored, faults>>

LookupHost ==
    /\ call.pc = "guess"
    /\ \/ /\ Guess \in public
          /\ Try(<<[host |-> Guess, port |-> 587, security |-> "starttls"],
                   [host |-> Guess, port |-> 465, security |-> "ssl"]>>)
          /\ UNCHANGED faults
       \/ Guess \notin public /\ Reply("unable") /\ UNCHANGED faults
       \/ Lost /\ Reply("unable")
    /\ UNCHANGED <<world, mail, tries, got, stored>>

-----------------------------------------------------------------------------
(* connect, for a connection attempt and for a tool call. *)

Target == call.found[call.i]

Mode(e) == server[<<e.host, e.port>>]

(* Faulty variant: the first endpoint that fails ends the attempt. *)
FailedAtOnce == Reply(IF call.send THEN "refused" ELSE "unable")

(* Faulty variant: the end of the list is not noticed. *)
FailedPastEnd ==
    \/ call.send /\ Reply("refused")
    \/ /\ ~call.send
       /\ call' = [call EXCEPT !.pc = "dial", !.i = @ + 1, !.tls = FALSE]
       /\ Silent

(* A tool call gives up, a connection attempt goes on to the next endpoint. *)
Failed ==
    \/ call.send /\ Reply("refused")
    \/ /\ ~call.send /\ call.i < Len(call.found)
       /\ call' = [call EXCEPT !.pc = "dial", !.i = @ + 1, !.tls = FALSE]
       /\ Silent
    \/ ~call.send /\ call.i = Len(call.found) /\ Reply("unable")

(* resolvePublicAddress finds an address for the host. *)
Resolves(e) == e.host \in public

(* The dial to that address, the TLS handshake if it comes first, and the   *)
(* greeting.  STARTTLS is for the security of that name: with any other     *)
(* word the session goes on to AUTH as it is.                               *)
Dial ==
    LET e == Target
        greets == /\ Resolves(e)
                  /\ (e.security = "ssl") <=> (Mode(e) = "tls")
    IN
    /\ call.pc = "dial"
    /\ \/ /\ greets
          /\ call' = [call EXCEPT !.pc = IF e.security = "starttls" THEN "starttls" ELSE "auth",
                                  !.tls = e.security = "ssl"]
          /\ Silent /\ UNCHANGED faults
       \/ ~greets /\ Failed /\ UNCHANGED faults
       \/ Lost /\ Failed
    /\ UNCHANGED <<world, mail, tries, got, stored>>

StartTLS ==
    LET offered == Mode(Target) = "starttls" IN
    /\ call.pc = "starttls"
    /\ \/ /\ offered
          /\ call' = [call EXCEPT !.pc = "auth", !.tls = TRUE]
          /\ Silent /\ UNCHANGED faults
       \/ ~offered /\ Failed /\ UNCHANGED faults
       \/ Lost /\ Failed
    /\ UNCHANGED <<world, mail, tries, got, stored>>

(* A server without PLAIN and LOGIN is one that does not take the password. *)
(* Outside TLS only LOGIN goes on: net/smtp keeps PLAIN to itself there.     *)
Authenticate ==
    /\ call.pc = "auth"
    /\ \/ takes /\ call.send /\ Proceed("mail") /\ UNCHANGED <<stored, faults>>
       \/ takes /\ ~call.send /\ Reply("connected") /\ stored' = Target /\ UNCHANGED faults
       \/ ~(takes /\ call.tls) /\ Failed /\ UNCHANGED <<stored, faults>>
       \/ Lost /\ Failed /\ UNCHANGED stored
    /\ UNCHANGED <<world, mail, tries, got>>

-----------------------------------------------------------------------------
(* Execute: the tool smtp_email_send_email. *)

(* An agent asks for a mail, once more if it was told of an error.  The     *)
(* arguments may be malformed (wf); the stored endpoint is checked again.   *)
Execute(m, wf) ==
    /\ call.pc = "idle" /\ stored # Null
    /\ mail \in {Null, m} /\ sent = 0
    /\ tries < MaxTries /\ tries' = tries + 1
    /\ mail' = m
    /\ \/ /\ wf /\ Normalized(stored)
          /\ call' = [Idle EXCEPT !.pc = "dial", !.send = TRUE, !.found = <<stored>>]
          /\ Silent
       \/ ~(wf /\ Normalized(stored)) /\ Reply("refused")
    /\ UNCHANGED <<world, got, stored, faults>>

MailFrom ==
    /\ call.pc = "mail"
    /\ \/ Proceed("rcpt") /\ UNCHANGED faults
       \/ Reply("refused") /\ UNCHANGED faults
       \/ Lost /\ Reply("refused")
    /\ UNCHANGED <<world, mail, tries, got, stored>>

(* Faulty variant: a recipient that the server refuses is passed over. *)
RcptOrSkip ==
    /\ call.pc = "rcpt"
    /\ IF call.n = Len(mail)
       THEN Proceed("data")
       ELSE \/ call' = [call EXCEPT !.n = @ + 1] /\ Silent
            \/ Proceed("data")
    /\ UNCHANGED <<world, mail, tries, got, stored, faults>>

(* The server takes one recipient after the other; it may refuse any. *)
Rcpt ==
    /\ call.pc = "rcpt"
    /\ \/ call.n < Len(mail) /\ call' = [call EXCEPT !.n = @ + 1] /\ Silent /\ UNCHANGED faults
       \/ call.n < Len(mail) /\ Reply("refused") /\ UNCHANGED faults
       \/ call.n = Len(mail) /\ Proceed("data") /\ UNCHANGED faults
       \/ Lost /\ Reply("refused")
    /\ UNCHANGED <<world, mail, tries, got, stored>>

Data ==
    /\ call.pc = "data"
    /\ \/ Proceed("body") /\ UNCHANGED faults
       \/ Reply("refused") /\ UNCHANGED faults
       \/ Lost /\ Reply("refused")
    /\ UNCHANGED <<world, mail, tries, got, stored>>

(* The server has the final dot: it has the mail, for those it took. *)
Taken == got' = [r \in Recipients |->
                    got[r] + IF \E j \in 1 .. call.n : mail[j] = r THEN 1 ELSE 0]

(* The body, and the dot that Close writes.  A failed write sends no dot;   *)
(* a failed Close says that the server refused the mail, that it never had  *)
(* it, or that its answer is missing.                                       *)
WriteBody ==
    /\ call.pc = "body"
    /\ \/ Taken /\ Proceed("quit") /\ UNCHANGED faults
       \/ Reply("unsure") /\ UNCHANGED <<got, faults>>
       \/ Lost /\ Reply("refused") /\ UNCHANGED got
       \/ Lost /\ Reply("unsure") /\ (Taken \/ UNCHANGED got)
    /\ UNCHANGED <<world, mail, tries, stored>>

(* An error of Quit is reported as an error of the tool. *)
Quit ==
    /\ call.pc = "quit"
    /\ \/ Reply("sent") /\ UNCHANGED faults
       \/ Lost /\ Reply("unsure")
    /\ UNCHANGED <<world, mail, tries, got, stored>>

-----------------------------------------------------------------------------
(* The process dies; whoever waited for a mail does not know about it. *)
Crash ==
    /\ call.pc # "idle"
    /\ Lost
    /\ Reply(IF call.send THEN "unsure" ELSE Null)
    /\ UNCHANGED <<world, mail, tries, got, stored>>

(* External: the user withdraws the app password. *)
Withdraw ==
    /\ takes /\ takes' = FALSE
    /\ Silent
    /\ UNCHANGED <<server, public, mail, tries, got, stored, call, faults>>

Next ==
    \/ \E host \in Hosts, port \in Ports \cup {25}, security \in {"", "ssl", "starttls", "other"} :
          ConnectToHost(host, port, security)
    \/ \E e \in Provided \cup {Null} : ConnectToDomain(e)
    \/ \E mx \in MXRecords : LookupMX(mx)
    \/ \E submission, submissions \in SRVRecords : LookupSRV(submission, submissions)
    \/ LookupHost \/ Dial \/ StartTLS \/ Authenticate
    \/ \E m \in Mails, wf \in BOOLEAN : Execute(m, wf)
    \/ MailFrom \/ Rcpt \/ Data \/ WriteBody \/ Quit
    \/ Crash \/ Withdraw

Spec == Init /\ [][Next]_vars

-----------------------------------------------------------------------------
(* Properties. *)

Works(e) ==
    /\ Resolves(e) /\ takes
    /\ <<e.security, Mode(e)>> \in {<<"ssl", "tls">>, <<"starttls", "starttls">>}

(* Every variable keeps its type. *)
TypeOK ==
    /\ server \in [Hosts \X Ports -> Modes]
    /\ public \subseteq Hosts
    /\ takes \in BOOLEAN
    /\ stored \in Endpoint \cup {Null}
    /\ call.pc \in {"idle", "mx", "srv", "guess", "dial", "starttls", "auth",
                    "mail", "rcpt", "data", "body", "quit"}
    /\ call.pc \notin {"idle", "mx", "srv", "guess"} => call.i \in DOMAIN call.found
    /\ \A j \in DOMAIN call.found : call.found[j] \in Endpoint
    /\ call.n \in Nat /\ tries \in Nat /\ sent \in Nat /\ unsure \in Nat /\ faults \in Nat
    /\ mail \in Mails \cup {Null}
    /\ got \in [Recipients -> Nat]
    /\ answer \in Answers \cup {Null}

(* A copy of the mail at each recipient is accounted for by an answer       *)
(* "sent", or by an error after which it may have been: every recipient has *)
(* what was reported as sent, an error that says otherwise is true of all   *)
(* of them, and nobody outside the list has anything.                       *)
CopiesAccountedFor ==
    \A r \in Recipients :
        IF mail # Null /\ \E j \in DOMAIN mail : mail[j] = r
        THEN LET underway == IF call.pc = "quit" THEN 1 ELSE 0
             IN  sent + underway <= got[r] /\ got[r] <= sent + unsure + underway
        ELSE got[r] = 0

(* "Connection validation still verifies public DNS, TLS ..."               *)
(* (discovery.go:80): no session reaches AUTH outside TLS or at a host that *)
(* is not public, whatever word the caller gives for the security, which    *)
(* connect would dial in the clear (adapter.go:289-318), and whatever       *)
(* mixture of ports, services and servers discovery met.                    *)
PasswordGuarded ==
    call.pc \in {"auth", "mail", "rcpt", "data", "body", "quit"} =>
        call.tls /\ Resolves(Target)

(* One bad endpoint does not hide a good one: who is told that the mailbox  *)
(* cannot be connected, with no exchange lost, has no endpoint among those  *)
(* discovered that works.                                                   *)
WorkingEndpointFound ==
    [][answer' = "unable" /\ faults' = 0 =>
          \A j \in DOMAIN call.found : ~Works(call.found[j])]_vars

(* "'active'=ready to use" (server.go:82): what a connection has stored is  *)
(* not refused by the adapter's own check when it is used.                  *)
StoredSendable == stored # Null => Normalized(stored)
=============================================================================
