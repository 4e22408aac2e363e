-------------------------------- MODULE Dispatch --------------------------------
(***************************************************************************)
(* How a request for a tool gets from either interface to a provider: name *)
(* lookup, the check of the account, the adapter's requests, and the       *)
(* answer; with the connecting, the deleting and the redeploying that go   *)
(* on meanwhile.  It follows one user on one platform, which that user's   *)
(* client calls name: what is stored for other platforms is in other rows. *)
(* The links, the tokens and the stores of each scheme have modules of     *)
(* their own (OAuthTokens, ComposioLink, CredentialsFlow); here they are   *)
(* one step each.                                                          *)
(***************************************************************************)
EXTENDS Registry, ToolPlans, Naturals

CONSTANTS
    Envs,       \* environments it is deployed with
    Names,      \* what clients call a platform
    MaxBoots    \* bound: how often it is restarted

VARIABLES
    name,       \* the platform, as the client calls it
    env,        \* of the running deployment
    adapters,   \* its registry
    boots,      \* how often it was restarted
    row,        \* the user's connected account on the platform, or Null
    links,      \* the schemes for which the user has an open link
    granted,    \* Composio has a connection that the user authorized
    wish,       \* what the client is after, or Null
    task,       \* what the adapter is doing for it, or Null
    answer,     \* what the client was told last
    count       \* for this wish: requests carried out at the provider, and answers

deployment == <<env, adapters, boots>>
account == <<row, links, granted>>
work == <<wish, task, answer, count>>
vars == <<name, deployment, account, work>>

Gmail == INSTANCE GmailAdapter
Outlook == INSTANCE OutlookAdapter
Github == INSTANCE GithubAdapter
Twitter == INSTANCE TwitterAdapter
Discord == INSTANCE DiscordAdapter
Dinq == INSTANCE DinqAdapter

(* Beside the adapters with a module of their own. *)
ComposioTools == [READ |-> {"read"}, WRITE |-> {"write"}]

(* Two tools of Composio's: one request each, whose reply says whether the  *)
(* action was successful.                                                   *)
ComposioExecute == [read |-> Unchecked(<<Reading>>), write |-> Unchecked(<<Writing>>)]

SmtpTools == [READ |-> {}, WRITE |-> {"send_email"}]

(* One mail; see SmtpMailbox. *)
SmtpExecute == [send_email |-> Checked(<<Writing>>)]

-----------------------------------------------------------------------------
Row == [status : {"initiated", "active", "expired", "failed"}, made : Schemes]

AllTools == {ComposioTools, SmtpTools, Discord!Tools, Dinq!Tools,
             Gmail!Tools, Outlook!Tools, Github!Tools, Twitter!Tools}

Actions == {"other", "search_posts"} \cup UNION {t.READ \cup t.WRITE : t \in AllTools}

Answers == {"done", "lost", "failed", "refused", "dropped", "unknownPlatform",
            "unknownTool", "notConnected", "expired"}

(* Errors after which the action may have been carried out. *)
Unsure == {"lost", "failed"}

Wish == [action : Actions, read : BOOLEAN, retries : 0..1]

Task == [requests : Seq(Request), token : Schemes \cup {Null}]

ASSUME DispatchAssumption ==
    /\ Envs \subseteq Env
    /\ MaxBoots \in Nat
    /\ Null \notin Answers \cup Row \cup Wish \cup Task

Via == {"mcp", "http"}

Args == {"good", "bad", "absent"}

-----------------------------------------------------------------------------
(* What is deployed. *)

Lower(n) == IF n = "Gmail" THEN "gmail" ELSE n

(* The MCP server puts names in lower case first. *)
Resolved(via) == ResolveName(IF via = "mcp" THEN Lower(name) ELSE name)

(* The platform that the client means. *)
Platform == ResolveName(Lower(name))

SchemeOf(p) == Get(adapters, p)

Deployed == SchemeOf(Platform)

ServerSide == {"bot_token", "dinq_internal"}

(* Rows are kept under the name that the handlers use. *)
RowOf(p) == IF p = Platform THEN row ELSE Null

NoCount == [main |-> 0, follow |-> 0, done |-> 0, unsure |-> 0]

Init ==
    /\ name \in Names
    /\ \E e \in Envs : \E found \in SUBSET ({Platform} \cap Discoverable(e)) :
          env = e /\ adapters = Registrations(e, found)
    /\ boots = 0
    /\ row = Null /\ links = {} /\ granted = FALSE
    /\ wish = Null /\ task = Null /\ answer = "none" /\ count = NoCount

-----------------------------------------------------------------------------
(* Connecting and disconnecting. *)

(* Connect: InitiateOAuth of either interface, by the adapter's scheme. *)
Connect(via) ==
    LET p == Resolved(via) IN
    /\ p = Platform
    /\ \/ /\ SchemeOf(p) = "composio"
          /\ row' = [status |-> "initiated", made |-> "composio"]
          /\ links' = links \cup {"composio"}
       \/ /\ SchemeOf(p) = "credentials"
          /\ links' = links \cup {"credentials"}
          /\ UNCHANGED row
       \/ /\ SchemeOf(p) = "oauth2" /\ p \in Configs(env)
          /\ links' = links \cup {"oauth2"}
          /\ UNCHANGED row
    /\ UNCHANGED <<name, deployment, granted, work>>

(* External: the user follows Composio's link and agrees. *)
Authorize ==
    /\ "composio" \in links /\ ~granted
    /\ granted' = TRUE
    /\ UNCHANGED <<name, deployment, row, links, work>>

(* The provider sends the user back with a code, which is exchanged.  A     *)
(* platform that has lost its direct adapter or its client id answers with  *)
(* an error, or panics; neither leaves a trace.                             *)
HandleCallback ==
    /\ "oauth2" \in links
    /\ Deployed = "oauth2" /\ Platform \in Configs(env)
    /\ row' = [status |-> "active", made |-> "oauth2"]
    /\ links' = links \ {"oauth2"}
    /\ UNCHANGED <<name, deployment, granted, work>>

(* Faulty variant: a connection that Composio does not know is passed over. *)
HandleComposioCallbackTrusting ==
    /\ "composio" \in links /\ Deployed = "composio" /\ row # Null
    /\ row' = [row EXCEPT !.status = "active"]
    /\ links' = links \ {"composio"}
    /\ UNCHANGED <<name, deployment, granted, work>>

(* Composio is asked about the connection in the row: an error leaves the   *)
(* link.  What another backend stored there is no connection of Composio's. *)
HandleComposioCallback ==
    /\ "composio" \in links
    /\ Deployed = "composio" /\ row # Null
    /\ \/ /\ row.made = "composio"
          /\ row' = [row EXCEPT !.status = IF granted THEN "active" ELSE "failed"]
          /\ links' = links \ {"composio"}
       \/ /\ row' = [row EXCEPT !.status = "failed"]
          /\ UNCHANGED links
    /\ UNCHANGED <<name, deployment, granted, work>>

(* The page of a credentials link, filled in correctly. *)
SubmitCredentials ==
    /\ "credentials" \in links
    /\ Deployed = "credentials"
    /\ row' = [status |-> "active", made |-> "credentials"]
    /\ links' = links \ {"credentials"}
    /\ UNCHANGED <<name, deployment, granted, work>>

DeleteAccount ==
    /\ row # Null
    /\ row' = Null
    /\ UNCHANGED <<name, deployment, links, granted, work>>

-----------------------------------------------------------------------------
(* Executing. *)

(* The tools of the adapter, by what the handlers do and by how they are      *)
(* marked.                                                                    *)
Handlers(p) ==
    LET scheme == SchemeOf(p) IN
    CASE scheme = "composio" -> ComposioExecute
      [] scheme = "credentials" -> SmtpExecute
      [] scheme = "bot_token" -> Discord!Execute
      [] scheme = "dinq_internal" -> Dinq!Execute
      [] scheme = "oauth2" ->
            CASE p = "gmail" -> Gmail!Execute
              [] p = "outlook" -> Outlook!Execute
              [] p = "github" -> Github!Execute
              [] p = "twitter" -> Twitter!Execute

ToolsOf(p) ==
    LET scheme == SchemeOf(p) IN
    CASE scheme = "composio" -> ComposioTools
      [] scheme = "credentials" -> SmtpTools
      [] scheme = "bot_token" -> Discord!Tools
      [] scheme = "dinq_internal" -> Dinq!Tools
      [] scheme = "oauth2" ->
            CASE p = "gmail" -> Gmail!Tools
              [] p = "outlook" -> Outlook!Tools
              [] p = "github" -> Github!Tools
              [] p = "twitter" -> Twitter!Tools

(* connector_discover_tools: the actions a client is told of, and how they  *)
(* are marked.                                                              *)
HandleDiscoverTools(p) ==
    LET search == IF p \in Searchable(env, adapters) THEN {"search_posts"} ELSE {} IN
    IF SchemeOf(p) = Null THEN NoTools
    ELSE [READ |-> ToolsOf(p).READ \cup search, WRITE |-> ToolsOf(p).WRITE]

(* The tool of an adapter's Execute, Null for "unknown tool". *)
Handler(p, action) ==
    IF action = "search_posts" /\ p \in Searchable(env, adapters) THEN Twitter!searchPosts
    ELSE IF action \in DOMAIN Handlers(p) THEN Handlers(p)[action] ELSE Null

(* GetActiveToken gives a token out. *)
Active(p) == RowOf(p) # Null /\ RowOf(p).status = "active"

(* Which requests go on to the adapter: only the MCP server lets those for  *)
(* server-side accounts pass without asking for a token.                    *)
Admitted(via) ==
    LET p == Resolved(via) IN
    /\ SchemeOf(p) # Null
    /\ \/ via = "mcp" /\ SchemeOf(p) \in ServerSide
       \/ Active(p)

(* HTTP has a code of its own for rows marked expired; an MCP client is     *)
(* told "not connected" whatever the error is.                              *)
Unconnected(via) ==
    LET r == RowOf(Resolved(via)) IN
    IF via = "http" /\ r # Null /\ r.status = "expired" THEN "expired" ELSE "notConnected"

(* The MCP server makes an empty map of absent arguments. *)
Panics(via, args, tool) == tool.guard = "map" /\ args = "absent" /\ via = "http"

(* Why a request makes no call to a provider, Null if it does. *)
Refusal(via, args, action) ==
    LET p == Resolved(via)
        tool == Handler(p, action)
    IN
    IF SchemeOf(p) = Null THEN "unknownPlatform"
    ELSE IF ~Admitted(via) THEN Unconnected(via)
    ELSE IF tool = Null THEN "unknownTool"
    ELSE IF Panics(via, args, tool) THEN "dropped"
    ELSE IF tool.guard = "arguments" /\ args # "good" THEN "refused"
    ELSE Null

(* The client is told a, after what c counts. *)
Tell(a, c) ==
    /\ task' = Null
    /\ answer' = a
    /\ count' = [c EXCEPT !.done = c.done + (IF a = "done" THEN 1 ELSE 0),
                          !.unsure = c.unsure + (IF a \in Unsure THEN 1 ELSE 0)]

(* connector_execute and POST /api/execute.  The last alternative is a       *)
(* refresh that fails: HTTP looks for "expired" in the provider's own words. *)
HandleExecute(via, args, action, c) ==
    LET p == Resolved(via)
        refusal == Refusal(via, args, action)
    IN
    /\ \/ /\ refusal # Null
          /\ Tell(refusal, c)
          /\ UNCHANGED row
       \/ /\ refusal = Null
          /\ task' = [requests |-> Handler(p, action).requests,
                      token |-> IF row = Null THEN Null ELSE row.made]
          /\ answer' = "none" /\ count' = c
          /\ UNCHANGED row
       \/ /\ SchemeOf(p) = "oauth2" /\ Active(p) /\ row.made = "oauth2"
          /\ row' = IF p \in Configs(env) THEN [row EXCEPT !.status = "expired"] ELSE row
          /\ \E a \in {"notConnected"} \cup When(via = "http", {"expired"}) : Tell(a, c)
    /\ UNCHANGED <<name, deployment, links, granted>>

(* What a client asks for next: an advertised action or another.  MCP tells *)
(* its clients to retry once.                                               *)
Ask(via, args, action) ==
    /\ task = Null
    /\ wish' = [action |-> action, read |-> action \in HandleDiscoverTools(Platform).READ,
                retries |-> IF via = "mcp" THEN 1 ELSE 0]
    /\ HandleExecute(via, args, action, NoCount)

(* "On 'terminated' or network error: retry once", with the same arguments, *)
(* which were good enough to get to the provider.                           *)
Retry ==
    /\ task = Null /\ answer = "lost" /\ wish.retries > 0
    /\ wish' = [wish EXCEPT !.retries = @ - 1]
    /\ HandleExecute("mcp", "good", wish.action, count)

(* External: a provider takes the token if the row was made for it.  Composio *)
(* goes by the user id and the connection it has, and the server's own        *)
(* accounts need no token of the user's.                                      *)
Accepted ==
    CASE Deployed = "composio" -> granted
      [] Deployed \in ServerSide -> TRUE
      [] OTHER -> task.token = Deployed

Counted(r) ==
    CASE r.effect = "none" -> count
      [] r.effect = "main" -> [count EXCEPT !.main = @ + 1]
      [] r.effect = "follow" -> [count EXCEPT !.follow = @ + 1]

(* What the request may leave behind at the provider, given the reply: a    *)
(* gateway may answer for a server that has carried it out.                 *)
Outcomes(r, reply) ==
    CASE reply \in {"ok", "empty"} -> {Counted(r)}
      [] reply = "refused" -> {count}
      [] reply \in Unsure -> {count, Counted(r)}

(* Faulty variant: the last reply, too, leads to another request. *)
ProceedAlways(rest, c) ==
    task' = [task EXCEPT !.requests = rest] /\ count' = c /\ UNCHANGED answer

(* On to the requests that are left, or to the result. *)
Proceed(rest, c) ==
    \/ rest = <<>> /\ Tell("done", c)
    \/ /\ rest # <<>>
       /\ task' = [task EXCEPT !.requests = rest] /\ count' = c /\ UNCHANGED answer

(* The adapters put the status, or Composio's words, into the error. *)
Error(reply) == IF reply \in Unsure THEN reply ELSE "refused"

(* The next request of the adapter's handler, and what it does after it. *)
Call(reply) ==
    LET r == Head(task.requests)
        after == After(r, reply)
    IN
    /\ task # Null
    /\ Accepted \/ reply \in {"refused", "failed", "lost"}
    /\ \E c \in IF Accepted THEN Outcomes(r, reply) ELSE {count} :
          \/ after = "error" /\ Tell(Error(reply), c)
          \/ after = "done" /\ Tell("done", c)
          \/ after = "next" /\ Proceed(Tail(task.requests), c)
    /\ UNCHANGED <<name, deployment, account, wish>>

(* The process ends, and starts again with other variables: the client of a *)
(* request in hand sees its connection break.                               *)
Restart(e, found) ==
    /\ boots < MaxBoots
    /\ env' = e /\ adapters' = Registrations(e, found) /\ boots' = boots + 1
    /\ \/ task = Null /\ UNCHANGED <<task, answer, count>>
       \/ /\ task # Null
          /\ \E c \in IF Accepted THEN {count, Counted(Head(task.requests))} ELSE {count} :
                Tell("lost", c)
    /\ UNCHANGED <<name, account, wish>>

Advertised(p) == HandleDiscoverTools(p).READ \cup HandleDiscoverTools(p).WRITE

Next ==
    \/ \E via \in Via : Connect(via)
    \/ Authorize \/ HandleCallback \/ HandleComposioCallback \/ SubmitCredentials
    \/ DeleteAccount
    \/ \E via \in Via, a \in Advertised(Platform) \cup {"other"}, args \in Args :
          Ask(via, args, a)
    \/ Retry
    \/ \E reply \in Replies : Call(reply)
    \/ \E e \in Envs : \E found \in SUBSET ({Platform} \cap Discoverable(e)) :
          Restart(e, found)

Spec == Init /\ [][Next]_vars

-----------------------------------------------------------------------------
(* Every variable keeps its type. *)
TypeOK ==
    /\ name \in Names /\ env \in Envs /\ boots \in 0..MaxBoots
    /\ \A a \in adapters : a.scheme \in Schemes
    /\ row \in Row \cup {Null}
    /\ links \subseteq {"oauth2", "composio", "credentials"} /\ granted \in BOOLEAN
    /\ wish \in Wish \cup {Null} /\ task \in Task \cup {Null}
    /\ task # Null => task.requests # <<>>
    /\ task # Null \/ answer # "none" => wish # Null
    /\ answer \in Answers \cup {"none"}
    /\ count \in [main : Nat, follow : Nat, done : Nat, unsure : Nat]

(* main never registers two adapters under one name, which would end it in a *)
(* panic at startup (registry.go:31), whatever variables are set and         *)
(* whichever discoveries succeed.                                            *)
StartupNeverPanics == RegisteredOnce(adapters)

(* An account becomes active only as an account of the backend that now      *)
(* serves its platform: a link that was opened before a redeployment moved   *)
(* gmail, outlook or discord to another backend revives nothing of the old.  *)
ActiveMadeHere ==
    [][Active(Platform)' /\ ~Active(Platform) => row'.made = Deployed]_vars

(* What clients are told accounts for what was done at the provider: "done"  *)
(* once for every action carried out, and where nothing was told of one, an  *)
(* answer stands for it that leaves it open: no answer, a status of 500 or   *)
(* more, Composio's "not successful" (or the request is still in hand).  So  *)
(* a status below 500 (gmail/adapter.go:661) and the adapter's own refusals  *)
(* mean that nothing was done, also for tools of several requests, retries   *)
(* and restarts.                                                             *)
EffectsAccountedFor ==
    count.main <= count.done + count.unsure + (IF task = Null THEN 0 ELSE 1)

(* Dinq is asked to generate content only for a card it has added.           *)
GenerationFollowsCard == count.follow <= count.main

(* "READ actions (list, get, search) are safe to call without confirmation"  *)
(* (server.go:126): what is marked READ changes nothing at the provider.     *)
ReadIsSafe == wish # Null /\ wish.read => count.main = 0 /\ count.follow = 0
=============================================================================
