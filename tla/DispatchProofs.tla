----------------------------- MODULE DispatchProofs -----------------------------
(***************************************************************************)
(* Proofs about Dispatch, for every set of environments, every set of      *)
(* names and every number of restarts.                                     *)
(***************************************************************************)
EXTENDS Dispatch, TLAPS

-----------------------------------------------------------------------------
(* The registry. *)

LEMMA DirectNames ==
    ASSUME NEW e \in Env, NEW a \in Direct(e)
    PROVE  /\ a.name \in {"github", "gmail", "dinq", "outlook", "smtp_email", "twitter"}
           /\ a.name = "gmail" => useDirectGmail(e)
           /\ a.name = "outlook" => useDirectOutlook(e)
           /\ a.scheme = "oauth2" => a.name \in {"github", "gmail", "outlook", "twitter"}
           /\ a.scheme \in {"oauth2", "dinq_internal", "credentials"}
BY DEF Direct, Adapter, When

LEMMA DirectOnce ==
    ASSUME NEW e \in Env, NEW a \in Direct(e), NEW b \in Direct(e), a.name = b.name
    PROVE  a = b
BY DEF Direct, Adapter, When

LEMMA SkippedNames ==
    ASSUME NEW e \in Env, NEW p \in Discoverable(e)
    PROVE  /\ p \in DynamicPlatforms /\ e.composio
           /\ p = "gmail" => ~useDirectGmail(e)
           /\ p = "outlook" => ~useDirectOutlook(e)
           /\ p = "discord" => ~e.bot
BY DEF Discoverable, Skipped, Env

LEMMA RegistrationKinds ==
    ASSUME NEW e \in Env, NEW found, NEW a \in Registrations(e, found)
    PROVE  \/ a \in Direct(e)
           \/ \E p \in Discoverable(e) : a = Adapter(p, "composio")
           \/ a = Adapter("discord", "bot_token") /\ e.bot
BY DEF Registrations, When

(* No two adapters that main registers bear one name. *)
LEMMA NamesOnce ==
    ASSUME NEW e \in Env, NEW found
    PROVE  RegisteredOnce(Registrations(e, found))
<1> SUFFICES ASSUME NEW a \in Registrations(e, found), NEW b \in Registrations(e, found),
                    a.name = b.name
             PROVE  a = b
    BY DEF RegisteredOnce
<1>1. ASSUME NEW c \in Direct(e), NEW p \in Discoverable(e)
      PROVE  c.name # p
    BY DirectNames, SkippedNames DEF DynamicPlatforms
<1>2. ASSUME NEW c \in Direct(e)
      PROVE  c.name # "discord"
    BY DirectNames
<1>3. CASE a \in Direct(e) /\ b \in Direct(e)
    BY <1>3, DirectOnce
<1>4. CASE a \in Direct(e) /\ b \notin Direct(e)
    BY <1>4, <1>1, <1>2, RegistrationKinds DEF Adapter
<1>5. CASE a \notin Direct(e) /\ b \in Direct(e)
    BY <1>5, <1>1, <1>2, RegistrationKinds DEF Adapter
<1>6. CASE a \notin Direct(e) /\ b \notin Direct(e)
    BY <1>6, RegistrationKinds, SkippedNames DEF Adapter
<1> QED  BY <1>3, <1>4, <1>5, <1>6

(* Direct OAuth serves the platforms with an adapter of their own only. *)
LEMMA OwnAdapters ==
    ASSUME NEW e \in Env, NEW found, NEW a \in Registrations(e, found)
    PROVE  /\ a.scheme \in Schemes
           /\ a.scheme = "oauth2" => a.name \in {"github", "gmail", "outlook", "twitter"}
BY RegistrationKinds, DirectNames DEF Adapter, Schemes

-----------------------------------------------------------------------------
(* The plans of the tools. *)

(* An error of the request changes nothing and is not the tool's. *)
Quiet(r) == r \in Request /\ r.effect # "main" /\ ~r.must /\ r.empty # "error"

(* What "follow" follows has been done, and whoever does it is told so. *)
Leads(r) == r \in Request /\ r.effect = "main" /\ r.must /\ r.empty = "done"

Plain(r) == /\ r \in Request /\ r.effect # "follow"
            /\ r.effect = "main" => r.empty # "error"

(* One request; a reading one and another; or one that leads a quiet one. *)
Sound(q) ==
    \/ \E r \in Request : q = <<r>> /\ Plain(r)
    \/ \E r, s \in Request : q = <<r, s>> /\ r.effect = "none" /\ Plain(s)
    \/ \E r, s \in Request : q = <<r, s>> /\ Leads(r) /\ Quiet(s)

LEMMA Single == ASSUME NEW r, Plain(r) PROVE Sound(<<r>>)
BY DEF Sound, Plain

LEMMA Reads == ASSUME NEW r, NEW s, r \in Request, r.effect = "none", Plain(s)
               PROVE  Sound(<<r, s>>)
BY DEF Sound, Plain

LEMMA Followed == ASSUME NEW r, NEW s, Leads(r), Quiet(s) PROVE Sound(<<r, s>>)
BY DEF Sound, Leads, Quiet

Is(r, effect, must, empty) ==
    r \in Request /\ r.effect = effect /\ r.must = must /\ r.empty = empty

LEMMA ReadingIs ==
    ASSUME NEW r, r = [effect |-> "none", must |-> TRUE, empty |-> "next"]
    PROVE  Is(r, "none", TRUE, "next")
BY DEF Is, Request

LEMMA MainIs ==
    ASSUME NEW r, NEW m, NEW y, NEW x, Is(r, x, m, y)
    PROVE  Is([r EXCEPT !.effect = "main"], "main", m, y)
BY DEF Is, Request

LEMMA FollowIs ==
    ASSUME NEW r, NEW m, NEW y, NEW x, Is(r, x, m, y)
    PROVE  Is([r EXCEPT !.effect = "follow"], "follow", m, y)
BY DEF Is, Request

LEMMA TriedIs ==
    ASSUME NEW r, NEW m, NEW y, NEW x, Is(r, x, m, y)
    PROVE  Is([r EXCEPT !.must = FALSE], x, FALSE, y)
BY DEF Is, Request

LEMMA NeededIs ==
    ASSUME NEW r, NEW m, NEW y, NEW x, Is(r, x, m, y)
    PROVE  Is([r EXCEPT !.empty = "error"], x, m, "error")
BY DEF Is, Request

LEMMA LastIs ==
    ASSUME NEW r, NEW m, NEW y, NEW x, Is(r, x, m, y)
    PROVE  Is([r EXCEPT !.empty = "done"], x, m, "done")
BY DEF Is, Request

LEMMA GmailSound ==
    ASSUME NEW a \in DOMAIN Gmail!Execute PROVE Sound(Gmail!Execute[a].requests)
<1>1. Plain(Gmail!gmailGet) /\ Plain(Gmail!gmailPost) /\ Gmail!gmailGet.effect = "none"
      /\ Gmail!gmailGet \in Request
    BY ReadingIs, MainIs DEF Is, Plain, Gmail!gmailGet, Gmail!gmailPost, Gmail!Reading, Gmail!Writing
<1>2. /\ Sound(Gmail!sendEmail.requests)
      /\ Sound(Gmail!getMessage.requests)
      /\ Sound(Gmail!createDraft.requests)
      /\ Sound(Gmail!listLabels.requests)
      /\ Sound(Gmail!getThread.requests)
      /\ Sound(Gmail!modifyLabels.requests)
    BY <1>1, Single DEF Gmail!sendEmail, Gmail!getMessage, Gmail!createDraft, Gmail!listLabels, Gmail!getThread, Gmail!modifyLabels, Gmail!Checked, Gmail!Unchecked, Gmail!Tool
<1>3. Sound(Gmail!listMessages.requests)
  <2>1. Is(Gmail!Last(Gmail!gmailGet), "none", TRUE, "done")
    BY ReadingIs, LastIs DEF Gmail!Last, Gmail!gmailGet, Gmail!Reading
  <2>2. Is(Gmail!Tried(Gmail!gmailGet), "none", FALSE, "next")
    BY ReadingIs, TriedIs DEF Gmail!Tried, Gmail!gmailGet, Gmail!Reading
  <2>3. Sound(<<Gmail!Last(Gmail!gmailGet), Gmail!Tried(Gmail!gmailGet)>>)
    BY <2>1, <2>2, Reads DEF Is, Plain
  <2> QED  BY <2>3 DEF Gmail!listMessages, Gmail!Unchecked, Gmail!Tool
<1>4. Sound(Gmail!searchMessages.requests)
    BY <1>3 DEF Gmail!searchMessages, Gmail!Tool
<1>5. Sound(Gmail!replyToEmail.requests)
  <2>1. Is(Gmail!Needed(Gmail!gmailGet), "none", TRUE, "error")
    BY ReadingIs, NeededIs DEF Gmail!Needed, Gmail!gmailGet, Gmail!Reading
  <2>2. Sound(<<Gmail!Needed(Gmail!gmailGet), Gmail!gmailPost>>)
    BY <1>1, <2>1, Reads DEF Is
  <2> QED  BY <2>2 DEF Gmail!replyToEmail, Gmail!Unchecked, Gmail!Tool
<1> QED  BY <1>2, <1>3, <1>4, <1>5 DEF Gmail!Execute

LEMMA OutlookSound ==
    ASSUME NEW a \in DOMAIN Outlook!Execute PROVE Sound(Outlook!Execute[a].requests)
<1>1. Plain(Outlook!graphGet) /\ Plain(Outlook!graphPost) /\ Outlook!graphGet.effect = "none"
      /\ Outlook!graphGet \in Request
    BY ReadingIs, MainIs DEF Is, Plain, Outlook!graphGet, Outlook!graphPost, Outlook!Reading, Outlook!Writing
<1>2. /\ Sound(Outlook!sendEmail.requests)
      /\ Sound(Outlook!listMessages.requests)
      /\ Sound(Outlook!getMessage.requests)
      /\ Sound(Outlook!searchMessages.requests)
      /\ Sound(Outlook!replyToEmail.requests)
      /\ Sound(Outlook!createDraft.requests)
      /\ Sound(Outlook!listFolders.requests)
    BY <1>1, Single DEF Outlook!sendEmail, Outlook!listMessages, Outlook!getMessage, Outlook!searchMessages, Outlook!replyToEmail, Outlook!createDraft, Outlook!listFolders, Outlook!Checked, Outlook!Unchecked, Outlook!Tool
<1> QED  BY <1>2 DEF Outlook!Execute

LEMMA GithubSound ==
    ASSUME NEW a \in DOMAIN Github!Execute PROVE Sound(Github!Execute[a].requests)
<1>1. Plain(Github!githubGet) /\ Plain(Github!githubPost) /\ Github!githubGet.effect = "none"
      /\ Github!githubGet \in Request
    BY ReadingIs, MainIs DEF Is, Plain, Github!githubGet, Github!githubPost, Github!Reading, Github!Writing
<1>2. /\ Sound(Github!getUser.requests)
      /\ Sound(Github!listRepos.requests)
      /\ Sound(Github!listIssues.requests)
      /\ Sound(Github!createIssue.requests)
      /\ Sound(Github!listNotifications.requests)
      /\ Sound(Github!listStarred.requests)
    BY <1>1, Single DEF Github!getUser, Github!listRepos, Github!listIssues, Github!createIssue, Github!listNotifications, Github!listStarred, Github!Checked, Github!Unchecked, Github!Tool
<1> QED  BY <1>2 DEF Github!Execute

LEMMA TwitterSound ==
    ASSUME NEW a \in DOMAIN Twitter!Execute PROVE Sound(Twitter!Execute[a].requests)
<1>1. Plain(Twitter!twitterGet) /\ Plain(Twitter!twitterPost) /\ Plain(Twitter!twitterDelete) /\ Twitter!twitterGet.effect = "none"
      /\ Twitter!twitterGet \in Request
    BY ReadingIs, MainIs DEF Is, Plain, Twitter!twitterGet, Twitter!twitterPost, Twitter!twitterDelete, Twitter!Reading, Twitter!Writing
<1>2. /\ Sound(Twitter!createTweet.requests)
      /\ Sound(Twitter!deleteTweet.requests)
      /\ Sound(Twitter!getMe.requests)
    BY <1>1, Single DEF Twitter!createTweet, Twitter!deleteTweet, Twitter!getMe, Twitter!Checked, Twitter!Unchecked, Twitter!Tool
<1> QED  BY <1>2 DEF Twitter!Execute

LEMMA SearchSound == Sound(Twitter!searchPosts.requests)
<1>1. Plain(Twitter!RunActor)
    BY DEF Twitter!RunActor, Twitter!Needed, Twitter!Reading, Plain, Request
<1> QED  BY <1>1, Single DEF Twitter!searchPosts, Twitter!Unchecked, Twitter!Tool

LEMMA DiscordSound ==
    ASSUME NEW a \in DOMAIN Discord!Execute PROVE Sound(Discord!Execute[a].requests)
<1>1. Plain(Discord!get) /\ Plain(Discord!post)
    BY ReadingIs, MainIs DEF Is, Plain, Discord!get, Discord!post, Discord!Reading, Discord!Writing
<1>2. Sound(<<Discord!get>>) /\ Sound(<<Discord!post>>)
    BY <1>1, Single
<1> QED
    BY <1>2 DEF Discord!Execute, Discord!sendMessage, Discord!getMessages,
                Discord!Checked, Discord!Unchecked, Discord!Tool

LEMMA DinqSound ==
    ASSUME NEW a \in DOMAIN Dinq!Execute PROVE Sound(Dinq!Execute[a].requests)
<1>1. Plain(Dinq!get) /\ Plain(Dinq!post) /\ Dinq!get.effect = "none"
      /\ Dinq!get \in Request
    BY ReadingIs, MainIs DEF Is, Plain, Dinq!get, Dinq!post, Dinq!Reading, Dinq!Writing
<1>2. /\ Sound(Dinq!getFlowStatus.requests)
      /\ Sound(Dinq!getUserData.requests)
      /\ Sound(Dinq!updateCardLayout.requests)
      /\ Sound(Dinq!initCardBoard.requests)
      /\ Sound(Dinq!regenerateCards.requests)
    BY <1>1, Single DEF Dinq!getFlowStatus, Dinq!getUserData, Dinq!updateCardLayout, Dinq!initCardBoard, Dinq!regenerateCards, Dinq!Checked, Dinq!Unchecked, Dinq!Tool
<1>3. Sound(Dinq!validateCardURL.requests)
  <2>1. Plain(Dinq!Reading)
    BY ReadingIs DEF Is, Plain, Dinq!Reading
  <2> QED  BY <2>1, Single DEF Dinq!validateCardURL, Dinq!Checked, Dinq!Tool
<1>4. Sound(Dinq!getCardBoard.requests)
  <2>1. Is(Dinq!Needed(Dinq!get), "none", TRUE, "error")
    BY ReadingIs, NeededIs DEF Dinq!Needed, Dinq!get, Dinq!Reading
  <2>2. Sound(<<Dinq!Needed(Dinq!get), Dinq!get>>)
    BY <1>1, <2>1, Reads DEF Is
  <2> QED  BY <2>2 DEF Dinq!getCardBoard, Dinq!Unchecked, Dinq!Tool
<1>5. Sound(Dinq!deleteCard.requests)
  <2>1. Plain([Dinq!get EXCEPT !.effect = "main"])
    BY ReadingIs, MainIs DEF Is, Plain, Dinq!get, Dinq!Reading
  <2> QED  BY <2>1, Single DEF Dinq!deleteCard, Dinq!Checked, Dinq!Tool
<1>6. Sound(Dinq!addCard.requests)
  <2>1. Is(Dinq!post, "main", TRUE, "next")
    BY ReadingIs, MainIs DEF Dinq!post, Dinq!Writing, Dinq!Reading
  <2>2. Leads(Dinq!Last(Dinq!post))
    BY <2>1, LastIs DEF Is, Leads, Dinq!Last
  <2>3. Is(Dinq!generate, "follow", TRUE, "next")
    BY <2>1, FollowIs DEF Dinq!generate
  <2>4. Quiet(Dinq!Tried(Dinq!generate))
    BY <2>3, TriedIs DEF Is, Quiet, Dinq!Tried
  <2>5. Sound(<<Dinq!Last(Dinq!post), Dinq!Tried(Dinq!generate)>>)
    BY <2>2, <2>4, Followed
  <2> QED  BY <2>5 DEF Dinq!addCard, Dinq!Checked, Dinq!Tool
<1> QED  BY <1>2, <1>3, <1>4, <1>5, <1>6 DEF Dinq!Execute

LEMMA OtherSound ==
    /\ \A a \in DOMAIN ComposioExecute : Sound(ComposioExecute[a].requests)
    /\ \A a \in DOMAIN SmtpExecute : Sound(SmtpExecute[a].requests)
<1>1. Plain(Reading) /\ Plain(Writing)
    BY ReadingIs, MainIs DEF Is, Plain, Reading, Writing
<1>2. Sound(<<Reading>>) /\ Sound(<<Writing>>)
    BY <1>1, Single
<1> QED  BY <1>2 DEF ComposioExecute, SmtpExecute, Tool, Unchecked, Checked

(* Which adapters the handlers meet. *)
LEMMA Served ==
    ASSUME env \in Env, NEW found, adapters = Registrations(env, found),
           NEW n, NEW p, p = ResolveName(n), SchemeOf(p) # Null
    PROVE  /\ SchemeOf(p) \in Schemes
           /\ SchemeOf(p) = "oauth2" => p \in {"github", "gmail", "outlook", "twitter"}
<1>1. p \notin DOMAIN platformAliases
    BY DEF ResolveName, platformAliases
<1>2. SchemeOf(p) = AdapterOf(adapters, p)
    BY <1>1 DEF SchemeOf, Get, ResolveName
<1>3. \E a \in adapters : a.name = p /\ a.scheme = SchemeOf(p)
    BY <1>2 DEF AdapterOf
<1> QED  BY <1>3, OwnAdapters

(* What they advertise are actions of an adapter. *)
LEMMA AdvertisedActions ==
    ASSUME env \in Env, NEW found, adapters = Registrations(env, found)
    PROVE  Advertised(Platform) \subseteq Actions
<1> DEFINE p == Platform
<1>1. CASE SchemeOf(p) = Null
    BY <1>1 DEF Advertised, HandleDiscoverTools, NoTools
<1>2. CASE SchemeOf(p) # Null
  <2>1. /\ SchemeOf(p) \in Schemes
        /\ SchemeOf(p) = "oauth2" => p \in {"github", "gmail", "outlook", "twitter"}
    BY <1>2, Served DEF Platform
  <2>2. Advertised(p) \subseteq ToolsOf(p).READ \cup ToolsOf(p).WRITE \cup {"search_posts"}
    BY <1>2 DEF Advertised, HandleDiscoverTools
  <2>3. ToolsOf(p) \in AllTools
    BY <2>1 DEF ToolsOf, AllTools, Schemes
  <2> QED  BY <2>2, <2>3 DEF Actions
<1> QED  BY <1>1, <1>2

(* Whatever an adapter is found for has a sound plan. *)
LEMMA HandlerSound ==
    ASSUME env \in Env, NEW found, adapters = Registrations(env, found), NEW via,
           SchemeOf(Resolved(via)) # Null,
           NEW action, Handler(Resolved(via), action) # Null
    PROVE  Sound(Handler(Resolved(via), action).requests)
<1> DEFINE p == Resolved(via)
<1>4. /\ SchemeOf(p) \in Schemes
      /\ SchemeOf(p) = "oauth2" => p \in {"github", "gmail", "outlook", "twitter"}
    BY Served DEF Resolved
<1>5. \A a \in DOMAIN Handlers(p) : Sound(Handlers(p)[a].requests)
  <2> HIDE DEF p
  <2>1. CASE SchemeOf(p) = "composio"
    BY <2>1, OtherSound DEF Handlers
  <2>2. CASE SchemeOf(p) = "credentials"
    BY <2>2, OtherSound DEF Handlers
  <2>3. CASE SchemeOf(p) = "bot_token"
    BY <2>3, DiscordSound DEF Handlers
  <2>4. CASE SchemeOf(p) = "dinq_internal"
    BY <2>4, DinqSound DEF Handlers
  <2>5. CASE SchemeOf(p) = "oauth2"
    <3>1. CASE p = "gmail"    BY <2>5, <3>1, GmailSound DEF Handlers
    <3>2. CASE p = "outlook"  BY <2>5, <3>2, OutlookSound DEF Handlers
    <3>3. CASE p = "github"   BY <2>5, <3>3, GithubSound DEF Handlers
    <3>4. CASE p = "twitter"  BY <2>5, <3>4, TwitterSound DEF Handlers
    <3> QED  BY <1>4, <2>5, <3>1, <3>2, <3>3, <3>4
  <2> QED  BY <1>4, <2>1, <2>2, <2>3, <2>4, <2>5 DEF Schemes
<1> QED  BY <1>5, SearchSound DEF Handler

-----------------------------------------------------------------------------
(* The inductive invariant. *)

Counts == [main : Nat, follow : Nat, done : Nat, unsure : Nat]

Told(c) == c.done + c.unsure

DeploymentInv ==
    /\ name \in Names /\ env \in Envs /\ boots \in 0..MaxBoots
    /\ \E found : adapters = Registrations(env, found)

AccountInv ==
    /\ row \in Row \cup {Null}
    /\ links \subseteq {"oauth2", "composio", "credentials"} /\ granted \in BOOLEAN

(* Either nothing stands out, or what the tool was called for is done, one  *)
(* quiet request is left, and the client will be told "done".               *)
InHand ==
    \/ Sound(task.requests) /\ count.main <= Told(count)
    \/ \E r : /\ task.requests = <<r>> /\ Quiet(r)
             /\ count.main <= Told(count) + 1 /\ count.follow < count.main

WorkInv ==
    /\ wish \in Wish \cup {Null} /\ task \in Task \cup {Null}
    /\ answer \in Answers \cup {"none"}
    /\ task # Null \/ answer # "none" => wish # Null
    /\ count \in Counts
    /\ count.follow <= count.main
    /\ task = Null => count.main <= Told(count)
    /\ task # Null => InHand

IInv == DeploymentInv /\ AccountInv /\ WorkInv

LEMMA SoundPlans == ASSUME NEW q, Sound(q) PROVE q \in Seq(Request) /\ q # <<>>
<1>1. \A r \in Request : <<r>> \in Seq(Request) /\ <<r>> # <<>>
    OBVIOUS
<1>2. \A r, s \in Request : <<r, s>> \in Seq(Request) /\ <<r, s>> # <<>>
    OBVIOUS
<1> QED  BY <1>1, <1>2 DEF Sound

LEMMA InvImplies ==
    ASSUME IInv
    PROVE  TypeOK /\ StartupNeverPanics /\ EffectsAccountedFor /\ GenerationFollowsCard
<1>1. env \in Env
    BY DispatchAssumption DEF IInv, DeploymentInv
<1>2. PICK found : adapters = Registrations(env, found)
    BY DEF IInv, DeploymentInv
<1>3. StartupNeverPanics
    BY <1>1, <1>2, NamesOnce DEF StartupNeverPanics
<1>4. \A a \in adapters : a.scheme \in Schemes
    BY <1>1, <1>2, OwnAdapters
<1>5. EffectsAccountedFor /\ GenerationFollowsCard
    BY DEF IInv, WorkInv, InHand, Told, Counts, EffectsAccountedFor, GenerationFollowsCard
<1>6. task # Null => task.requests # <<>>
  <2>1. \A r : <<r>> # <<>>
    OBVIOUS
  <2> QED  BY <2>1, SoundPlans DEF IInv, WorkInv, InHand
<1> QED  BY <1>3, <1>4, <1>5, <1>6
         DEF TypeOK, IInv, DeploymentInv, AccountInv, WorkInv, Answers, Counts

-----------------------------------------------------------------------------
(* The steps. *)

LEMMA InitInv == ASSUME Init PROVE IInv
<1>1. DeploymentInv
    BY DispatchAssumption DEF Init, DeploymentInv
<1>2. AccountInv
    BY DEF Init, AccountInv
<1>3. WorkInv
    BY DEF Init, WorkInv, NoCount, Counts, Told, Answers
<1> QED  BY <1>1, <1>2, <1>3 DEF IInv

LEMMA DeploymentKept ==
    ASSUME DeploymentInv, UNCHANGED <<name, deployment>>
    PROVE  DeploymentInv'
BY DEF DeploymentInv, deployment

LEMMA WorkKept ==
    ASSUME WorkInv, UNCHANGED work
    PROVE  WorkInv'
BY DEF WorkInv, work, InHand, Sound

LEMMA RowMarked ==
    ASSUME NEW r \in Row, NEW x \in {"initiated", "active", "expired", "failed"}
    PROVE  [r EXCEPT !.status = x] \in Row /\ [r EXCEPT !.status = x].made = r.made
           /\ [r EXCEPT !.status = x].status = x
BY DEF Row

(* The steps of connecting change the account only. *)
LEMMA ConnectingKeeps ==
    ASSUME IInv,
           \/ \E via \in Via : Connect(via)
           \/ Authorize \/ HandleCallback \/ HandleComposioCallback
           \/ SubmitCredentials \/ DeleteAccount
    PROVE  IInv'
<1>1. UNCHANGED <<name, deployment>> /\ UNCHANGED work
    BY DEF Connect, Authorize, HandleCallback, HandleComposioCallback,
           SubmitCredentials, DeleteAccount
<1>2. AccountInv'
  <2>1. CASE \E via \in Via : Connect(via)
    <3>1. PICK via \in Via : Connect(via)
      BY <2>1
    <3>2. links' \in {links \cup {"composio"}, links \cup {"credentials"}, links \cup {"oauth2"}}
      BY <3>1 DEF Connect
    <3>3. row' \in {row, [status |-> "initiated", made |-> "composio"]}
      BY <3>1 DEF Connect
    <3>4. [status |-> "initiated", made |-> "composio"] \in Row
      BY DEF Row, Schemes
    <3> QED  BY <3>1, <3>2, <3>3, <3>4 DEF IInv, AccountInv, Connect
  <2>2. CASE Authorize
    BY <2>2 DEF IInv, AccountInv, Authorize
  <2>3. CASE HandleCallback
    BY <2>3 DEF IInv, AccountInv, HandleCallback, Row, Schemes
  <2>4. CASE HandleComposioCallback
    <3>1. row \in Row
      BY <2>4 DEF IInv, AccountInv, HandleComposioCallback
    <3> DEFINE verdict == IF granted THEN "active" ELSE "failed"
    <3>2. verdict \in {"active", "failed"}
      OBVIOUS
    <3>3. \/ row' = [row EXCEPT !.status = verdict]
          \/ row' = [row EXCEPT !.status = "failed"]
      BY <2>4, Zenon DEF HandleComposioCallback
    <3>4. links' \subseteq links /\ granted' = granted
      BY <2>4, Zenon DEF HandleComposioCallback
    <3> HIDE DEF verdict
    <3>5. row' \in Row
      <4>1. CASE row' = [row EXCEPT !.status = verdict]
        BY <3>1, <3>2, <4>1 DEF Row
      <4>2. CASE row' = [row EXCEPT !.status = "failed"]
        BY <3>1, <4>2 DEF Row
      <4> QED  BY <3>3, <4>1, <4>2
    <3> QED  BY <3>4, <3>5 DEF IInv, AccountInv
  <2>5. CASE SubmitCredentials
    BY <2>5 DEF IInv, AccountInv, SubmitCredentials, Row, Schemes
  <2>6. CASE DeleteAccount
    BY <2>6 DEF IInv, AccountInv, DeleteAccount
  <2> QED  BY <2>1, <2>2, <2>3, <2>4, <2>5, <2>6
<1> QED  BY <1>1, <1>2, DeploymentKept, WorkKept DEF IInv

(* An answer that accounts for what c counts. *)
LEMMA TellKeeps ==
    ASSUME NEW a \in Answers, NEW c \in Counts, Tell(a, c), wish' \in Wish,
           c.follow <= c.main,
           c.main <= Told(c) + (IF a \in {"done"} \cup Unsure THEN 1 ELSE 0)
    PROVE  WorkInv'
<1>1. wish' # Null
    BY DispatchAssumption
<1>2. /\ count' \in Counts /\ count'.main = c.main /\ count'.follow = c.follow
      /\ count'.done = c.done + (IF a = "done" THEN 1 ELSE 0)
      /\ count'.unsure = c.unsure + (IF a \in Unsure THEN 1 ELSE 0)
  <2> DEFINE x == c.done + (IF a = "done" THEN 1 ELSE 0)
             y == c.unsure + (IF a \in Unsure THEN 1 ELSE 0)
  <2>1. x \in Nat /\ y \in Nat
    BY DEF Counts
  <2>2. count' = [c EXCEPT !.done = x, !.unsure = y]
    BY DEF Tell
  <2> HIDE DEF x, y
  <2>3. count' \in Counts
    BY <2>1, <2>2 DEF Counts
  <2>4. count'.main = c.main /\ count'.follow = c.follow
    BY <2>2 DEF Counts
  <2>5. count'.done = x /\ count'.unsure = y
    BY <2>2 DEF Counts
  <2> QED  BY <2>3, <2>4, <2>5 DEF x, y
<1>3. count'.main <= Told(count')
    BY <1>2 DEF Told, Counts
<1> QED  BY <1>1, <1>2, <1>3 DEF WorkInv, Tell

(* What a request to a provider may have changed. *)
LEMMA CountedIs ==
    ASSUME count \in Counts, NEW r \in Request
    PROVE  /\ Counted(r) \in Counts
           /\ Counted(r).main = count.main + (IF r.effect = "main" THEN 1 ELSE 0)
           /\ Counted(r).follow = count.follow + (IF r.effect = "follow" THEN 1 ELSE 0)
           /\ Told(Counted(r)) = Told(count)
           /\ r.effect = "none" => Counted(r) = count
BY DEF Counted, Counts, Told, Request

(* The requests of a handler that is under way. *)
LEMMA HandShapes ==
    ASSUME WorkInv, task # Null
    PROVE  \E r \in Request :
              /\ Head(task.requests) = r
              /\ \/ /\ Plain(r) /\ Tail(task.requests) = <<>>
                    /\ count.main <= Told(count)
                 \/ /\ r.effect = "none" /\ count.main <= Told(count)
                    /\ \E s \in Request : Tail(task.requests) = <<s>> /\ Plain(s)
                 \/ /\ Leads(r) /\ count.main <= Told(count)
                    /\ \E s : Tail(task.requests) = <<s>> /\ Quiet(s)
                 \/ /\ Quiet(r) /\ Tail(task.requests) = <<>>
                    /\ count.main <= Told(count) + 1 /\ count.follow < count.main
<1>1. \A r : Head(<<r>>) = r /\ Tail(<<r>>) = <<>>
    OBVIOUS
<1>2. \A r, s : Head(<<r, s>>) = r /\ Tail(<<r, s>>) = <<s>>
    OBVIOUS
<1>3. InHand
    BY DEF WorkInv
<1>4. CASE Sound(task.requests) /\ count.main <= Told(count)
  <2>1. CASE \E r \in Request : task.requests = <<r>> /\ Plain(r)
    BY <1>1, <1>4, <2>1
  <2>2. CASE \E r, s \in Request :
               task.requests = <<r, s>> /\ r.effect = "none" /\ Plain(s)
    BY <1>2, <1>4, <2>2
  <2>3. CASE \E r, s \in Request : task.requests = <<r, s>> /\ Leads(r) /\ Quiet(s)
    BY <1>2, <1>4, <2>3
  <2> QED  BY <1>4, <2>1, <2>2, <2>3 DEF Sound
<1>5. CASE \E r : /\ task.requests = <<r>> /\ Quiet(r)
                  /\ count.main <= Told(count) + 1 /\ count.follow < count.main
    BY <1>1, <1>5 DEF Quiet
<1> QED  BY <1>3, <1>4, <1>5 DEF InHand

(* The one in hand is interrupted: its next request may have got through.   *)
LEMMA RestartKeeps ==
    ASSUME IInv, NEW e \in Envs, NEW found, Restart(e, found)
    PROVE  IInv'
<1>1. DeploymentInv'
    BY DispatchAssumption DEF IInv, DeploymentInv, Restart
<1>2. AccountInv'
    BY DEF IInv, AccountInv, Restart, account
<1>3. WorkInv'
  <2>1. CASE task = Null
    BY <2>1, WorkKept DEF IInv, Restart, work
  <2>2. CASE task # Null
    <3>1. PICK c \in {count, Counted(Head(task.requests))} : Tell("lost", c)
      BY <2>2 DEF Restart
    <3>2. count \in Counts /\ wish' \in Wish /\ count.follow <= count.main
      BY <2>2 DEF IInv, WorkInv, Restart
    <3>3. c \in Counts /\ c.follow <= c.main /\ c.main <= Told(c) + 1
      <4>1. PICK r \in Request :
               /\ Head(task.requests) = r
               /\ \/ Plain(r) /\ count.main <= Told(count)
                  \/ r.effect = "none" /\ count.main <= Told(count)
                  \/ Leads(r) /\ count.main <= Told(count)
                  \/ Quiet(r) /\ count.main <= Told(count) + 1 /\ count.follow < count.main
        BY <2>2, HandShapes DEF IInv
      <4> QED  BY <3>2, <4>1, CountedIs DEF Plain, Leads, Quiet, Request, Counts, Told
    <3> QED  BY <3>1, <3>2, <3>3, TellKeeps DEF Answers, Unsure
  <2> QED  BY <2>1, <2>2
<1> QED  BY <1>1, <1>2, <1>3 DEF IInv

LEMMA RefusalIsAnswer ==
    ASSUME NEW via, NEW args, NEW action, Refusal(via, args, action) # Null
    PROVE  Refusal(via, args, action) \in Answers
BY DEF Refusal, Unconnected, Answers

LEMMA NotRefused ==
    ASSUME NEW via, NEW args, NEW action, Refusal(via, args, action) = Null
    PROVE  SchemeOf(Resolved(via)) # Null /\ Handler(Resolved(via), action) # Null
<1>1. \A x \in Answers : x # Null
    BY DispatchAssumption DEF Answers
<1>2. SchemeOf(Resolved(via)) # Null
    BY <1>1 DEF Refusal, Answers
<1>3. Admitted(via)
    BY <1>1, <1>2 DEF Refusal, Unconnected, Answers
<1>4. Handler(Resolved(via), action) # Null
    BY <1>1, <1>2, <1>3 DEF Refusal, Answers
<1> QED  BY <1>2, <1>4

(* A request is turned away, or handed on with a plan that is sound. *)
LEMMA ExecuteKeeps ==
    ASSUME IInv, task = Null, wish' \in Wish, NEW c \in {NoCount, count},
           NEW via, NEW args, NEW action, HandleExecute(via, args, action, c)
    PROVE  IInv'
<1> DEFINE p == Resolved(via)
           refusal == Refusal(via, args, action)
<1>1. c \in Counts /\ c.follow <= c.main /\ c.main <= Told(c)
    BY DEF IInv, WorkInv, NoCount, Counts, Told
<1>2. UNCHANGED <<name, deployment, links, granted>> /\ DeploymentInv'
    BY DeploymentKept DEF HandleExecute, IInv
<1>3. CASE refusal # Null /\ Tell(refusal, c) /\ UNCHANGED row
  <2>1. refusal \in Answers
    BY <1>3, RefusalIsAnswer
  <2>2. WorkInv'
    BY <1>1, <1>3, <2>1, TellKeeps DEF Told, Counts
  <2> QED  BY <1>2, <1>3, <2>2 DEF IInv, AccountInv
<1>4. CASE /\ refusal = Null
           /\ task' = [requests |-> Handler(p, action).requests,
                       token |-> IF row = Null THEN Null ELSE row.made]
           /\ answer' = "none" /\ count' = c
           /\ UNCHANGED row
  <2>1. Sound(Handler(p, action).requests)
    <3>1. env \in Env
      BY DispatchAssumption DEF IInv, DeploymentInv
    <3> QED  BY <1>4, <3>1, NotRefused, HandlerSound DEF IInv, DeploymentInv
  <2>2. (IF row = Null THEN Null ELSE row.made) \in Schemes \cup {Null}
    BY DEF IInv, AccountInv, Row
  <2>3. task' \in Task /\ Sound(task'.requests)
    BY <1>4, <2>1, <2>2, SoundPlans DEF Task
  <2>4. InHand'
    BY <1>1, <1>4, <2>3 DEF InHand, Told, Sound
  <2>5. task' # Null /\ wish' # Null
    BY <2>3, DispatchAssumption
  <2>6. WorkInv'
    BY <1>1, <1>4, <2>3, <2>4, <2>5 DEF WorkInv
  <2> QED  BY <1>2, <1>4, <2>6 DEF IInv, AccountInv
<1>5. CASE /\ SchemeOf(p) = "oauth2" /\ Active(p) /\ row.made = "oauth2"
           /\ row' = IF p \in Configs(env) THEN [row EXCEPT !.status = "expired"] ELSE row
           /\ \E a \in {"notConnected"} \cup When(via = "http", {"expired"}) : Tell(a, c)
  <2>1. PICK a \in {"notConnected", "expired"} : Tell(a, c)
    BY <1>5 DEF When
  <2>2. WorkInv'
    BY <1>1, <2>1, TellKeeps DEF Told, Counts, Answers
  <2>3. AccountInv'
    <3>1. row \in Row
      BY <1>5 DEF IInv, AccountInv, Active, RowOf
    <3>2. row' \in Row
      BY <1>5, <3>1 DEF Row
    <3> QED  BY <1>2, <3>2 DEF IInv, AccountInv
  <2> QED  BY <1>2, <2>2, <2>3 DEF IInv
<1> QED  BY <1>3, <1>4, <1>5 DEF HandleExecute

LEMMA AskKeeps ==
    ASSUME IInv, NEW via \in Via, NEW args \in Args,
           NEW action \in Advertised(Platform) \cup {"other"}, Ask(via, args, action)
    PROVE  IInv'
<1>1. action \in Actions
  <2>1. env \in Env
    BY DispatchAssumption DEF IInv, DeploymentInv
  <2>2. Advertised(Platform) \subseteq Actions
    BY <2>1, AdvertisedActions DEF IInv, DeploymentInv
  <2> QED  BY <2>2 DEF Actions
<1>2. wish' \in Wish
    BY <1>1 DEF Ask, Wish
<1> QED  BY <1>2, ExecuteKeeps DEF Ask

LEMMA RetryKeeps ==
    ASSUME IInv, Retry
    PROVE  IInv'
<1>1. wish \in Wish
    BY DEF Retry, IInv, WorkInv
<1>2. wish' \in Wish
    BY <1>1 DEF Retry, Wish
<1> QED  BY <1>2, ExecuteKeeps DEF Retry

(* The replies to each kind of request. *)
LEMMA CallKeeps ==
    ASSUME IInv, NEW reply \in Replies, Call(reply)
    PROVE  IInv'
<1>1. PICK r \in Request :
         /\ Head(task.requests) = r
         /\ \/ /\ Plain(r) /\ Tail(task.requests) = <<>>
               /\ count.main <= Told(count)
            \/ /\ r.effect = "none" /\ count.main <= Told(count)
               /\ \E s \in Request : Tail(task.requests) = <<s>> /\ Plain(s)
            \/ /\ Leads(r) /\ count.main <= Told(count)
               /\ \E s : Tail(task.requests) = <<s>> /\ Quiet(s)
            \/ /\ Quiet(r) /\ Tail(task.requests) = <<>>
               /\ count.main <= Told(count) + 1 /\ count.follow < count.main
    BY HandShapes DEF Call, IInv
<1>2. /\ count \in Counts /\ count.follow <= count.main
      /\ wish \in Wish /\ wish' \in Wish /\ task \in Task /\ task # Null
    BY DEF Call, IInv, WorkInv
<1>3. PICK c \in {count, Counted(r)} :
         /\ c \in IF Accepted THEN Outcomes(r, reply) ELSE {count}
         /\ \/ /\ After(r, reply) = "error"
               /\ Tell(Error(reply), c)
            \/ After(r, reply) = "done" /\ Tell("done", c)
            \/ After(r, reply) = "next" /\ Proceed(Tail(task.requests), c)
    BY <1>1 DEF Call, Outcomes, Replies, Unsure
<1>4. /\ c \in Counts /\ c.follow <= c.main /\ c.main <= Told(c) + 1
      /\ Told(c) = Told(count)
    BY <1>1, <1>2, <1>3, CountedIs DEF Plain, Leads, Quiet, Request, Counts, Told
<1>5. WorkInv'
  <2>1. CASE After(r, reply) = "error" /\ Tell(Error(reply), c)
    <3>1. CASE reply \in Unsure
      BY <1>2, <1>4, <2>1, <3>1, TellKeeps DEF Answers, Error, Unsure
    <3>2. CASE reply \notin Unsure
      <4>1. /\ ~Quiet(r)
            /\ \/ reply = "refused"
               \/ reply = "empty" /\ r.empty = "error"
        <5>1. CASE reply = "ok"
          BY <2>1, <5>1 DEF After
        <5>2. CASE reply = "empty"
          BY <2>1, <5>2 DEF After, Quiet
        <5>3. CASE reply = "refused"
          BY <2>1, <5>3 DEF After, Quiet
        <5> QED  BY <3>2, <5>1, <5>2, <5>3 DEF Replies, Unsure
      <4>2. c = count
        BY <1>1, <1>2, <1>3, <4>1, CountedIs DEF Outcomes, Unsure, Plain, Leads, Request
      <4>3. c.main <= Told(c)
        BY <1>1, <4>1, <4>2
      <4>4. Tell("refused", c)
        BY <2>1, <3>2 DEF Error
      <4>5. "refused" \in Answers /\ "refused" \notin {"done"} \cup Unsure
        BY DEF Answers, Unsure
      <4>6. c.main <= Told(c) + (IF "refused" \in {"done"} \cup Unsure THEN 1 ELSE 0)
        BY <1>4, <4>3, <4>5 DEF Told, Counts
      <4> QED  BY <1>2, <1>4, <4>4, <4>5, <4>6, TellKeeps
    <3> QED  BY <3>1, <3>2
  <2>2. CASE After(r, reply) = "done" /\ Tell("done", c)
    BY <1>2, <1>4, <2>2, TellKeeps DEF Answers
  <2>3. CASE After(r, reply) = "next" /\ Proceed(Tail(task.requests), c)
    <3>1. CASE Tell("done", c)
      BY <1>2, <1>4, <3>1, TellKeeps DEF Answers
    <3>2. CASE /\ Tail(task.requests) # <<>>
               /\ task' = [task EXCEPT !.requests = Tail(task.requests)]
               /\ count' = c /\ UNCHANGED answer
      <4>1. InHand' /\ task' \in Task
        <5>1. CASE /\ r.effect = "none" /\ count.main <= Told(count)
                   /\ \E s \in Request : Tail(task.requests) = <<s>> /\ Plain(s)
          <6>1. PICK s \in Request : Tail(task.requests) = <<s>> /\ Plain(s)
            BY <5>1
          <6>2. Sound(<<s>>) /\ <<s>> \in Seq(Request)
            BY <6>1, Single, SoundPlans
          <6>3. task' \in Task /\ task'.requests = <<s>>
            BY <1>2, <3>2, <6>1, <6>2 DEF Task
          <6>4. c = count
            BY <1>2, <1>3, <5>1, CountedIs
          <6> QED  BY <3>2, <5>1, <6>2, <6>3, <6>4 DEF InHand, Told, Sound
        <5>2. CASE /\ Leads(r) /\ count.main <= Told(count)
                   /\ \E s : Tail(task.requests) = <<s>> /\ Quiet(s)
          <6>1. PICK s : Tail(task.requests) = <<s>> /\ Quiet(s)
            BY <5>2
          <6>2. <<s>> \in Seq(Request)
            BY <6>1 DEF Quiet
          <6>3. task' \in Task /\ task'.requests = <<s>>
            BY <1>2, <3>2, <6>1, <6>2 DEF Task
          <6>4. reply = "ok"
            BY <2>3, <5>2 DEF After, Leads, Replies
          <6>5. c = Counted(r)
            BY <1>3, <6>4 DEF Outcomes, Unsure, Call
          <6>6. c.follow < c.main
            BY <1>2, <5>2, <6>5, CountedIs DEF Leads, Counts
          <6> QED  BY <1>4, <3>2, <6>1, <6>3, <6>6 DEF InHand, Told, Quiet
        <5> QED  BY <1>1, <3>2, <5>1, <5>2
      <4>2. task' # Null
        BY <4>1, DispatchAssumption
      <4>3. answer' = answer /\ wish' = wish /\ wish # Null /\ answer \in Answers \cup {"none"}
        BY <1>2, <3>2 DEF Call, IInv, WorkInv
      <4> QED  BY <1>2, <1>4, <3>2, <4>1, <4>2, <4>3 DEF WorkInv
    <3> QED  BY <2>3, <3>1, <3>2 DEF Proceed
  <2> QED  BY <1>3, <2>1, <2>2, <2>3
<1>6. DeploymentInv' /\ AccountInv'
    BY DeploymentKept DEF IInv, AccountInv, Call, account
<1> QED  BY <1>5, <1>6 DEF IInv

LEMMA StepInv ==
    ASSUME IInv, [Next]_vars
    PROVE  IInv'
<1>1. CASE UNCHANGED vars
  <2>1. UNCHANGED <<name, deployment>> /\ UNCHANGED work /\ UNCHANGED account
    BY <1>1 DEF vars
  <2> QED  BY <2>1, DeploymentKept, WorkKept DEF IInv, AccountInv, account
<1>2. CASE \E via \in Via : Connect(via)
  BY <1>2, ConnectingKeeps
<1>3. CASE Authorize \/ HandleCallback \/ HandleComposioCallback
           \/ SubmitCredentials \/ DeleteAccount
  BY <1>3, ConnectingKeeps
<1>4. CASE \E via \in Via, a \in Advertised(Platform) \cup {"other"}, args \in Args :
              Ask(via, args, a)
  BY <1>4, AskKeeps
<1>5. CASE Retry
  BY <1>5, RetryKeeps
<1>6. CASE \E reply \in Replies : Call(reply)
  BY <1>6, CallKeeps
<1>7. CASE \E e \in Envs : \E found \in SUBSET ({Platform} \cap Discoverable(e)) :
              Restart(e, found)
  BY <1>7, RestartKeeps
<1> QED  BY <1>1, <1>2, <1>3, <1>4, <1>5, <1>6, <1>7 DEF Next

LEMMA Invariance == Spec => []IInv
<1>1. Init => IInv
  BY InitInv
<1>2. IInv /\ [Next]_vars => IInv'
  BY StepInv
<1> QED  BY <1>1, <1>2, PTL DEF Spec

(* Every variable keeps its type. *)
THEOREM TypeCorrect == Spec => []TypeOK
<1>1. IInv => TypeOK
  BY InvImplies
<1> QED  BY <1>1, Invariance, PTL

(* Whatever variables are set and whichever discoveries succeed, at every   *)
(* start: no two adapters are registered under one name (registry.go:31).   *)
THEOREM NoPanicAtStartup == Spec => []StartupNeverPanics
<1>1. IInv => StartupNeverPanics
  BY InvImplies
<1> QED  BY <1>1, Invariance, PTL

(* The answers account for what was done at the providers, however often    *)
(* replies are lost, requests retried and the server restarted.             *)
THEOREM EffectsAccounted == Spec => []EffectsAccountedFor
<1>1. IInv => EffectsAccountedFor
  BY InvImplies
<1> QED  BY <1>1, Invariance, PTL

(* No content is generated for a card that was not added. *)
THEOREM GenerationFollows == Spec => []GenerationFollowsCard
<1>1. IInv => GenerationFollowsCard
  BY InvImplies
<1> QED  BY <1>1, Invariance, PTL

LEMMA StepActive ==
    ASSUME IInv, [Next]_vars, Active(Platform)', ~Active(Platform)
    PROVE  row'.made = Deployed
<1>1. name' = name
  BY DEF Next, vars, Connect, Authorize, HandleCallback, HandleComposioCallback,
         SubmitCredentials, DeleteAccount, Ask, Retry, HandleExecute, Call, Restart
<1>2. /\ row' # Null /\ row'.status = "active"
      /\ row = Null \/ row.status # "active"
  BY <1>1 DEF Active, RowOf, Platform
<1>3. row' # row
  BY <1>2
<1>4. CASE \E via \in Via : Connect(via)
  BY <1>2, <1>3, <1>4 DEF Connect
<1>5. CASE HandleCallback
  BY <1>5 DEF HandleCallback
<1>6. CASE HandleComposioCallback
  <2>1. row \in Row
    BY <1>6 DEF HandleComposioCallback, IInv, AccountInv
  <2>2. CASE row.made = "composio"
    <3>1. PICK x : row' = [row EXCEPT !.status = x]
      BY <1>6, Zenon DEF HandleComposioCallback
    <3> QED  BY <1>6, <2>1, <2>2, <3>1 DEF HandleComposioCallback, Row
  <2>3. CASE row.made # "composio"
    <3>1. row' = [row EXCEPT !.status = "failed"]
      BY <1>6, <2>3, Zenon DEF HandleComposioCallback
    <3> QED  BY <1>2, <2>1, <3>1 DEF Row
  <2> QED  BY <2>2, <2>3
<1>7. CASE SubmitCredentials
  BY <1>7 DEF SubmitCredentials
<1>8. CASE DeleteAccount
  BY <1>2, <1>8 DEF DeleteAccount
<1>9. CASE \E via, args, action, c : HandleExecute(via, args, action, c)
  <2>1. row' = [row EXCEPT !.status = "expired"] /\ row # Null
    BY <1>3, <1>9 DEF HandleExecute, Active, RowOf
  <2>2. row \in Row
    BY <2>1 DEF IInv, AccountInv
  <2> QED  BY <1>2, <2>1, <2>2 DEF Row
<1> QED  BY <1>3, <1>4, <1>5, <1>6, <1>7, <1>8, <1>9
         DEF Next, vars, account, Authorize, Ask, Retry, Call, Restart

(* An account becomes active only as one of the backend that serves its     *)
(* platform then, whatever links are left from other deployments.           *)
THEOREM ActivatedHere == Spec => ActiveMadeHere
<1>1. IInv /\ [Next]_vars => [Active(Platform)' /\ ~Active(Platform) => row'.made = Deployed]_vars
  BY StepActive
<1> QED  BY <1>1, Invariance, PTL DEF Spec, ActiveMadeHere

-----------------------------------------------------------------------------
(* ReadIsSafe.  A wish marked READ has a name that no adapter uses for a     *)
(* tool that changes anything: so also its retry, which may meet another     *)
(* deployment, is served by requests without effect.                         *)

ReadActions ==
    {"read", "search_posts", "get_messages", "get_guilds", "get_channels", "get_me",
     "get_flow_status", "get_user_data", "get_card_board", "validate_card_url",
     "list_messages", "get_message", "search_messages", "list_labels", "get_thread",
     "list_folders", "get_user", "list_repos", "list_issues", "list_notifications",
     "list_starred"}

Inert(r) == r \in Request /\ r.effect = "none"

Harmless(q) ==
    \/ \E r : q = <<r>> /\ Inert(r)
    \/ \E r, s : q = <<r, s>> /\ Inert(r) /\ Inert(s)

ReadInv ==
    wish # Null /\ wish.read =>
        /\ wish.action \in ReadActions
        /\ task # Null => Harmless(task.requests)
        /\ count.main = 0 /\ count.follow = 0

(* What is marked READ anywhere. *)
LEMMA ReadMarks ==
    ASSUME SchemeOf(Platform) # Null => /\ SchemeOf(Platform) \in Schemes
                                        /\ SchemeOf(Platform) = "oauth2" =>
                                             Platform \in {"github", "gmail", "outlook", "twitter"}
    PROVE  HandleDiscoverTools(Platform).READ \subseteq ReadActions
<1>1. /\ ComposioTools.READ \subseteq ReadActions /\ SmtpTools.READ \subseteq ReadActions
      /\ Discord!Tools.READ \subseteq ReadActions /\ Dinq!Tools.READ \subseteq ReadActions
      /\ Gmail!Tools.READ \subseteq ReadActions /\ Outlook!Tools.READ \subseteq ReadActions
      /\ Github!Tools.READ \subseteq ReadActions /\ Twitter!Tools.READ \subseteq ReadActions
  BY DEF ReadActions, ComposioTools, SmtpTools, Discord!Tools, Dinq!Tools, Gmail!Tools,
         Outlook!Tools, Github!Tools, Twitter!Tools
<1>2. SchemeOf(Platform) # Null => ToolsOf(Platform).READ \subseteq ReadActions
  BY <1>1 DEF ToolsOf, Schemes
<1>3. CASE SchemeOf(Platform) = Null
  BY <1>3 DEF HandleDiscoverTools, NoTools
<1>4. CASE SchemeOf(Platform) # Null
  <2>1. HandleDiscoverTools(Platform).READ \subseteq ToolsOf(Platform).READ \cup {"search_posts"}
    BY <1>4 DEF HandleDiscoverTools
  <2>2. "search_posts" \in ReadActions
    BY DEF ReadActions
  <2> QED  BY <1>2, <1>4, <2>1, <2>2
<1> QED  BY <1>3, <1>4

(* The plans of the tools with such a name, one adapter after the other. *)
LEMMA GmailReads ==
    ASSUME NEW a \in ReadActions, a \in DOMAIN Gmail!Execute
    PROVE  Harmless(Gmail!Execute[a].requests)
<1>1. Inert(Gmail!gmailGet) /\ Inert(Gmail!Last(Gmail!gmailGet)) /\ Inert(Gmail!Tried(Gmail!gmailGet))
  BY DEF Inert, Request, Gmail!gmailGet, Gmail!Reading, Gmail!Last, Gmail!Tried
<1>2. /\ Harmless(<<Gmail!gmailGet>>)
      /\ Harmless(<<Gmail!Last(Gmail!gmailGet), Gmail!Tried(Gmail!gmailGet)>>)
  BY <1>1 DEF Harmless
<1>3. a \in {"list_messages", "get_message", "search_messages", "list_labels", "get_thread"}
  BY DEF ReadActions, Gmail!Execute
<1> QED
  BY <1>2, <1>3
  DEF Gmail!Execute, Gmail!listMessages, Gmail!getMessage, Gmail!searchMessages,
      Gmail!listLabels, Gmail!getThread, Gmail!Unchecked, Gmail!Tool

LEMMA OutlookReads ==
    ASSUME NEW a \in ReadActions, a \in DOMAIN Outlook!Execute
    PROVE  Harmless(Outlook!Execute[a].requests)
<1>1. Harmless(<<Outlook!graphGet>>)
  <2>1. Inert(Outlook!graphGet)
    BY DEF Inert, Request, Outlook!graphGet, Outlook!Reading
  <2> QED  BY <2>1 DEF Harmless
<1>2. a \in {"list_messages", "get_message", "search_messages", "list_folders"}
  BY DEF ReadActions, Outlook!Execute
<1> QED
  BY <1>1, <1>2
  DEF Outlook!Execute, Outlook!listMessages, Outlook!getMessage, Outlook!searchMessages,
      Outlook!listFolders, Outlook!Unchecked, Outlook!Tool

LEMMA GithubReads ==
    ASSUME NEW a \in ReadActions, a \in DOMAIN Github!Execute
    PROVE  Harmless(Github!Execute[a].requests)
<1>1. Harmless(<<Github!githubGet>>)
  <2>1. Inert(Github!githubGet)
    BY DEF Inert, Request, Github!githubGet, Github!Reading
  <2> QED  BY <2>1 DEF Harmless
<1>2. a \in {"get_user", "list_repos", "list_issues", "list_notifications", "list_starred"}
  BY DEF ReadActions, Github!Execute
<1> QED
  BY <1>1, <1>2
  DEF Github!Execute, Github!getUser, Github!listRepos, Github!listIssues,
      Github!listNotifications, Github!listStarred, Github!Unchecked, Github!Tool

LEMMA TwitterReads ==
    /\ \A a \in ReadActions \cap DOMAIN Twitter!Execute : Harmless(Twitter!Execute[a].requests)
    /\ Harmless(Twitter!searchPosts.requests)
<1>1. Inert(Twitter!twitterGet) /\ Inert(Twitter!RunActor)
  BY DEF Inert, Request, Twitter!twitterGet, Twitter!RunActor, Twitter!Needed, Twitter!Reading
<1>2. Harmless(<<Twitter!twitterGet>>) /\ Harmless(<<Twitter!RunActor>>)
  BY <1>1 DEF Harmless
<1>3. \A a \in ReadActions \cap DOMAIN Twitter!Execute : a = "get_me"
  BY DEF ReadActions, Twitter!Execute
<1> QED
  BY <1>2, <1>3
  DEF Twitter!Execute, Twitter!getMe, Twitter!searchPosts, Twitter!Unchecked, Twitter!Tool

LEMMA DiscordReads ==
    ASSUME NEW a \in ReadActions, a \in DOMAIN Discord!Execute
    PROVE  Harmless(Discord!Execute[a].requests)
<1>1. Harmless(<<Discord!get>>)
  <2>1. Inert(Discord!get)
    BY DEF Inert, Request, Discord!get, Discord!Reading
  <2> QED  BY <2>1 DEF Harmless
<1>2. a \in {"get_messages", "get_guilds", "get_channels", "get_me"}
  BY DEF ReadActions, Discord!Execute
<1> QED
  BY <1>1, <1>2
  DEF Discord!Execute, Discord!getMessages, Discord!Unchecked, Discord!Checked, Discord!Tool

LEMMA DinqReads ==
    ASSUME NEW a \in ReadActions, a \in DOMAIN Dinq!Execute
    PROVE  Harmless(Dinq!Execute[a].requests)
<1>1. Inert(Dinq!get) /\ Inert(Dinq!Reading) /\ Inert(Dinq!Needed(Dinq!get))
  BY DEF Inert, Request, Dinq!get, Dinq!Needed, Dinq!Reading
<1>2. /\ Harmless(<<Dinq!get>>) /\ Harmless(<<Dinq!Reading>>)
      /\ Harmless(<<Dinq!Needed(Dinq!get), Dinq!get>>)
  BY <1>1 DEF Harmless
<1>3. a \in {"get_flow_status", "get_user_data", "get_card_board", "validate_card_url"}
  BY DEF ReadActions, Dinq!Execute
<1> QED
  BY <1>2, <1>3
  DEF Dinq!Execute, Dinq!getFlowStatus, Dinq!getUserData, Dinq!getCardBoard,
      Dinq!validateCardURL, Dinq!Unchecked, Dinq!Checked, Dinq!Tool

LEMMA OtherReads ==
    /\ \A a \in ReadActions \cap DOMAIN ComposioExecute :
          Harmless(ComposioExecute[a].requests)
    /\ ReadActions \cap DOMAIN SmtpExecute = {}
<1>1. Harmless(<<Reading>>)
  <2>1. Inert(Reading)
    BY DEF Inert, Request, Reading
  <2> QED  BY <2>1 DEF Harmless
<1>2. \A a \in ReadActions \cap DOMAIN ComposioExecute : a = "read"
  BY DEF ReadActions, ComposioExecute
<1>3. ReadActions \cap DOMAIN SmtpExecute = {}
  BY DEF ReadActions, SmtpExecute
<1> QED
  BY <1>1, <1>2, <1>3 DEF ComposioExecute, Unchecked, Tool

(* Whatever serves such an action changes nothing. *)
LEMMA HandlerReads ==
    ASSUME env \in Env, NEW found, adapters = Registrations(env, found), NEW via,
           SchemeOf(Resolved(via)) # Null,
           NEW a \in ReadActions, Handler(Resolved(via), a) # Null
    PROVE  Harmless(Handler(Resolved(via), a).requests)
<1> DEFINE p == Resolved(via)
<1>1. /\ SchemeOf(p) \in Schemes
      /\ SchemeOf(p) = "oauth2" => p \in {"github", "gmail", "outlook", "twitter"}
  BY Served DEF Resolved
<1>2. a \in DOMAIN Handlers(p) => Harmless(Handlers(p)[a].requests)
  <2> HIDE DEF p
  <2>1. CASE SchemeOf(p) = "composio"
    BY <2>1, OtherReads DEF Handlers
  <2>2. CASE SchemeOf(p) = "credentials"
    BY <2>2, OtherReads DEF Handlers
  <2>3. CASE SchemeOf(p) = "bot_token"
    BY <2>3, DiscordReads DEF Handlers
  <2>4. CASE SchemeOf(p) = "dinq_internal"
    BY <2>4, DinqReads DEF Handlers
  <2>5. CASE SchemeOf(p) = "oauth2"
    <3>1. CASE p = "gmail"    BY <2>5, <3>1, GmailReads DEF Handlers
    <3>2. CASE p = "outlook"  BY <2>5, <3>2, OutlookReads DEF Handlers
    <3>3. CASE p = "github"   BY <2>5, <3>3, GithubReads DEF Handlers
    <3>4. CASE p = "twitter"  BY <2>5, <3>4, TwitterReads DEF Handlers
    <3> QED  BY <1>1, <2>5, <3>1, <3>2, <3>3, <3>4
  <2> QED  BY <1>1, <2>1, <2>2, <2>3, <2>4, <2>5 DEF Schemes
<1> QED  BY <1>2, TwitterReads DEF Handler

(* An answer ends the task. *)
LEMMA TellReads ==
    ASSUME NEW a, NEW c \in Counts, Tell(a, c),
           wish' # Null /\ wish'.read =>
               wish'.action \in ReadActions /\ c.main = 0 /\ c.follow = 0
    PROVE  ReadInv'
<1>1. task' = Null /\ count'.main = c.main /\ count'.follow = c.follow
  BY DEF Tell, Counts
<1> QED  BY <1>1 DEF ReadInv

LEMMA ExecuteReads ==
    ASSUME IInv, NEW c \in Counts,
           wish' # Null /\ wish'.read =>
               wish'.action \in ReadActions /\ c.main = 0 /\ c.follow = 0,
           NEW via, NEW args, HandleExecute(via, args, wish'.action, c)
    PROVE  ReadInv'
<1> DEFINE p == Resolved(via)
           action == wish'.action
<1>1. CASE \E a : Tell(a, c)
  BY <1>1, TellReads
<1>2. CASE /\ Refusal(via, args, action) = Null
           /\ task' = [requests |-> Handler(p, action).requests,
                       token |-> IF row = Null THEN Null ELSE row.made]
           /\ count' = c
  <2>1. wish' # Null /\ wish'.read => Harmless(Handler(p, action).requests)
    <3>1. env \in Env
      BY DispatchAssumption DEF IInv, DeploymentInv
    <3> QED  BY <1>2, <3>1, NotRefused, HandlerReads DEF IInv, DeploymentInv
  <2>2. task'.requests = Handler(p, action).requests
    BY <1>2
  <2> QED  BY <1>2, <2>1, <2>2 DEF ReadInv
<1> QED  BY <1>1, <1>2 DEF HandleExecute

LEMMA InertChangesNothing ==
    ASSUME IInv, task # Null, Harmless(task.requests)
    PROVE  /\ Inert(Head(task.requests))
           /\ Counted(Head(task.requests)) = count
           /\ Tail(task.requests) # <<>> => Harmless(Tail(task.requests))
<1>1. \A r : Head(<<r>>) = r /\ Tail(<<r>>) = <<>>
  OBVIOUS
<1>2. \A r, s : Head(<<r, s>>) = r /\ Tail(<<r, s>>) = <<s>>
  OBVIOUS
<1>3. /\ Inert(Head(task.requests))
      /\ Tail(task.requests) # <<>> => Harmless(Tail(task.requests))
  BY <1>1, <1>2 DEF Harmless
<1> QED  BY <1>3, CountedIs DEF Inert, IInv, WorkInv

LEMMA StepReads ==
    ASSUME IInv, ReadInv, [Next]_vars
    PROVE  ReadInv'
<1> USE DEF IInv
<1>1. CASE UNCHANGED work
  BY <1>1 DEF work, ReadInv
<1>2. CASE \E via \in Via, action \in Advertised(Platform) \cup {"other"}, args \in Args :
              Ask(via, args, action)
  <2>1. PICK via \in Via, action \in Advertised(Platform) \cup {"other"}, args \in Args :
               Ask(via, args, action)
    BY <1>2
  <2>2. NoCount \in Counts /\ NoCount.main = 0 /\ NoCount.follow = 0
    BY DEF NoCount, Counts
  <2>3. wish'.action = action /\ (wish'.read => action \in ReadActions)
    <3>1. wish'.action = action
          /\ wish'.read = (action \in HandleDiscoverTools(Platform).READ)
      BY <2>1 DEF Ask
    <3>2. env \in Env /\ \E found : adapters = Registrations(env, found)
      BY DispatchAssumption DEF DeploymentInv
    <3>3. SchemeOf(Platform) # Null =>
              /\ SchemeOf(Platform) \in Schemes
              /\ SchemeOf(Platform) = "oauth2" =>
                   Platform \in {"github", "gmail", "outlook", "twitter"}
      BY <3>2, Served DEF Platform
    <3> QED  BY <3>1, <3>3, ReadMarks
  <2> QED  BY <2>1, <2>2, <2>3, ExecuteReads DEF Ask
<1>3. CASE Retry
  <2>1. wish \in Wish /\ wish # Null
    BY <1>3, DispatchAssumption DEF Retry, WorkInv
  <2>2. wish'.action = wish.action /\ wish'.read = wish.read
    BY <1>3, <2>1 DEF Retry, Wish
  <2>3. count \in Counts
    BY DEF WorkInv
  <2> QED  BY <1>3, <2>1, <2>2, <2>3, ExecuteReads DEF Retry, ReadInv
<1>4. CASE \E reply \in Replies : Call(reply)
  <2>1. PICK reply \in Replies : Call(reply)
    BY <1>4
  <2>2. task # Null /\ wish' = wish /\ count \in Counts /\ task \in Task
    BY <2>1 DEF Call, WorkInv
  <2>3. CASE wish # Null /\ wish.read
    <3>1. Harmless(task.requests) /\ wish.action \in ReadActions
          /\ count.main = 0 /\ count.follow = 0
      BY <2>2, <2>3 DEF ReadInv
    <3>2. \/ \E a : Tell(a, count)
          \/ /\ Tail(task.requests) # <<>> /\ count' = count
             /\ task' = [task EXCEPT !.requests = Tail(task.requests)]
      BY <2>1, <2>2, <3>1, InertChangesNothing DEF Call, Proceed, Outcomes, Replies, Unsure
    <3>3. CASE \E a : Tell(a, count)
      BY <2>2, <3>1, <3>3, TellReads
    <3>4. CASE /\ Tail(task.requests) # <<>> /\ count' = count
               /\ task' = [task EXCEPT !.requests = Tail(task.requests)]
      <4>1. task'.requests = Tail(task.requests)
        BY <2>2, <3>4 DEF Task
      <4> QED  BY <2>2, <3>1, <3>4, <4>1, InertChangesNothing DEF ReadInv
    <3> QED  BY <3>2, <3>3, <3>4
  <2> QED  BY <2>2, <2>3 DEF ReadInv
<1>5. CASE \E e, found : Restart(e, found)
  <2>1. PICK e, found : Restart(e, found)
    BY <1>5
  <2>2. wish' = wish /\ count \in Counts
    BY <2>1 DEF Restart, WorkInv
  <2>3. CASE task = Null
    BY <2>1, <2>3 DEF Restart, ReadInv
  <2>4. CASE task # Null /\ wish # Null /\ wish.read
    <3>1. Harmless(task.requests) /\ wish.action \in ReadActions
          /\ count.main = 0 /\ count.follow = 0
      BY <2>4 DEF ReadInv
    <3>2. Tell("lost", count)
      BY <2>1, <2>4, <3>1, InertChangesNothing DEF Restart
    <3> QED  BY <2>2, <3>1, <3>2, TellReads
  <2> QED  BY <2>2, <2>3, <2>4 DEF ReadInv
<1> QED
  BY <1>1, <1>2, <1>3, <1>4, <1>5
  DEF Next, vars, Connect, Authorize, HandleCallback, HandleComposioCallback,
      SubmitCredentials, DeleteAccount

(* Actions marked READ are safe to call without asking the user: whatever    *)
(* adapter serves them, and if it is another one when they are retried, they *)
(* change nothing at the provider (server.go:126).                           *)
THEOREM ReadsAreSafe == Spec => []ReadIsSafe
<1>1. Init => ReadInv
  BY DEF Init, ReadInv
<1>2. ReadInv => ReadIsSafe
  BY DEF ReadInv, ReadIsSafe
<1> QED  BY <1>1, <1>2, StepReads, Invariance, PTL DEF Spec
=============================================================================
