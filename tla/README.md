# A TLA+ model of dinq-connector

dinq-connector connects a user's accounts on other platforms (GitHub, Gmail,
Outlook, Twitter, those Composio serves, SMTP mailboxes) and executes actions
on them for an agent. This directory models how connections are made, stored,
refreshed, used and deleted; what a deployment offers, and how it finds that out at
startup; and how a request for a tool gets through to a provider, with every tool of
every adapter. `PROJECT.json` maps every definition to the lines it stands for.

## The system

| component | state | operations | models |
|---|---|---|---|
| Store (`internal/db/store.go`, `internal/models`) | Postgres tables `connected_accounts` (unique on user and platform) and `pending_auths` (by OAuth state) | upsert, get, list, delete account; save, get, delete pending auth; clean expired ones (never called) | `ConnectorStore` |
| Request handling (`internal/httpapi`, `internal/mcpserver`) | none of its own: one goroutine per request, the request's context | connect, callbacks, credentials page, list, delete, execute; four MCP meta tools | `Requests` (what all handlers share) |
| Direct OAuth (`internal/auth/manager.go`) | none: works on copies of rows | `InitiateOAuth`, `HandleCallback`, `GetActiveToken` with refresh, `DeleteAccount` | `OAuthTokens` |
| Composio linking (`manager.go`, `internal/composio/client.go`) | none; the connection lives at Composio | `initiateComposioAuth`, `HandleComposioCallback` | `ComposioLink` |
| Credentials connections (`manager.go`, `credential_cipher.go`) | the encryption key | `initiateCredentialsAuth`, `CompleteCredentials`, `SaveCredentials`, decryption in `GetActiveToken` | `CredentialsFlow` |
| Execute dispatch (`routes.go` `handleExecute`, `server.go`) | none | look-up of the platform, account check, `Execute`, answer; the retry that MCP tells its clients to make | `Dispatch` |
| Registry and startup (`internal/adapter/registry.go`, `cmd/server/main.go`) | the adapter map, fixed after startup | register, look up by name or alias; choice of backend per platform from the environment | `Registry`, `Dispatch` |
| Composio tool discovery (`internal/adapter/composio.go`) | none after startup | listing, fan-out of one fetch per tool, collection, filtering, and the tool list in `Execute` | `ToolCatalogue`, `DiscoveredTools`, `ToolDiscovery` |
| SMTP (`internal/adapter/smtp_email`) | none; the endpoint is kept with the credentials | endpoint discovery, session, message | `SmtpMailbox` |
| Gmail, GitHub, Outlook, Twitter | none | per tool a check of the arguments and one or more HTTP requests | `ToolPlans` with `GmailAdapter`, `GithubAdapter`, `OutlookAdapter`, `TwitterAdapter` |
| Dinq, Discord bot, Apify search | none; accounts of the server's own | the same | `DinqAdapter`, `DiscordAdapter`, `TwitterAdapter` |

How they interact. Handlers run concurrently, on one process or on several
replicas over the same database. There is no lock and no transaction: a handler
is a sequence of single SQL statements and calls to a provider, and between two
of them holds nothing but copies. That is where the hard behaviour is:

- a handler writes back whole rows that it read before a call to a provider
  (concurrent refreshes, refresh against reconnect, refresh against delete, two
  Composio links for one user and platform);
- a pending auth is read first and deleted last (duplicate callbacks);
- the errors of several writes are dropped (`manager.go` 199, 330, 331, 401,
  568, 581);
- a client that goes away cancels the request's context between any two calls,
  a process may die there, and a call may take effect and its answer be lost;
- the token endpoints are called with no timeout;
- a mail is sent over a session that may break at any point, before or after the
  server has taken it, and the caller is told to repeat a failed call;
- other tools make several requests, some of which may fail unnoticed, and are
  repeated as well, though none has an idempotency key;
- clients act on the READ and WRITE marks of the tools, which are kept apart
  from what the handlers do;
- at startup one goroutine per tool asks Composio about it, and the answers come
  back through one channel in any order;
- a redeployment with other variables moves gmail, outlook or discord to
  another backend, under the rows and links that the earlier one has left.

What must hold: tokens and connections never cross from one user or platform
to another; a row that says active is usable; a row says expired only when its
token is; a link that was completed is gone; an authorized link activates;
requests end; what clients are told accounts for what was done; the tool list is
complete and startup ends. The properties below make these precise, and `PROJECT.json` lists
under `hazards` each place where one of them could break, with the properties
aimed at it.

## Modules

- `ConnectorStore` <- `Requests` <- `OAuthTokens` <- `OAuthTokensProofs`, `MCOAuthTokens`
- `ConnectorStore` <- `Requests` <- `ComposioLink` <- `ComposioProofs`, `MCComposioLink`
- `ConnectorStore` <- `Requests` <- `CredentialsFlow` <- `CredentialsProofs`, `MCCredentialsFlow`;
  all three flows implement `Connections`
- `ConnectorStore` <- `StoreProofs`, which the proofs of the three flows extend
- `Lists` <- `SmtpMailbox` <- `SmtpProofs`, `MCSmtpMailbox`
- `Lists` <- `ToolCatalogue` <- `ToolDiscovery` <- `ToolDiscoveryProofs`, `MCToolDiscovery`;
  `ToolDiscovery` implements `DiscoveredTools`
- `Lists` <- `ListsProofs`, which `SmtpProofs` and `ToolDiscoveryProofs` cite
- `Registry`, `ToolPlans` <- `Dispatch` <- `DispatchProofs`, `MCDispatch`;
  `Dispatch` instantiates the six adapters, each of which extends `ToolPlans`

Each module extends the one to its left.

**`ConnectorStore`** has the two tables as functions (`rows`, `pendings`; an
absent row is `Null`), the id that the next inserted row gets (`nextId`; ids are
UUIDs, hence never reused) and a clock (`now`). Each SQL statement that changes
a table is one operator, because a statement is atomic. An account is reduced
to id, status, access token, refresh token and expiry. The upsert keeps the id
of an existing row and overwrites the rest, inserts otherwise: the latter is
what brings deleted accounts back.

**`Requests`** has the handlers (`h`: for each worker the call it makes next,
its key, its copy of a row, and whether its client is still there), the answer
the last step gave (`answer`) and the count of faults. `Interrupted` is a call
that fails although the peer refused nothing, `Saved` and `Dropped` are writes
with their three outcomes (done; failed; done but reported as failed), `Leave`
is a client that goes, `Die` a process that dies. Once the client has gone, the
context is cancelled and every later call of the handler fails without effect.

**`OAuthTokens`** is the direct OAuth flow. One action is one store or provider
call: `InitiateOAuth` saves the pending auth, `HandleCallback` reads it and
checks expiry and platform, `ExchangeCode` spends the code, `SaveAccount`
upserts, `DropPending` deletes the pending auth with its error dropped;
`GetActiveToken` reads the row and either answers or goes on to `RefreshToken`,
then `SaveToken` or `SaveExpired`, again with dropped errors. The provider is external: a
consent (`grants`) is issued for the authorize URL of one state, its code is
good once, its refresh token is rotated or kept according to `RefreshShapes`,
it may refuse an exchange, or to refresh (revoked, or after `MaxGen` refreshes), and an
answer may lack a refresh token or `expires_in`. `Refusals` says how it refuses: by status,
as Google does, or in the body of a 200 answer, as GitHub does with a spent code. The code
looks at the status only (`manager.go:730`), so a refusal of the second kind is a success
with an empty token: an exchange makes the row `Blank`, a refresh `Emptied`, and both are
stored as active. `urls` remembers for whom each authorize URL was made, which is what the
isolation property compares with.

**`ComposioLink`** is the same for Composio: the "token" of a row is a
connection id. `InitiateOAuth`, `CreateLink`, `SaveInitiated` are
`initiateComposioAuth`; `HandleComposioCallback`, `ReadAccount`,
`VerifyConnection`, `ResolveConnection`, `SaveAccount`, `DropPending`,
`SaveFailed` are `HandleComposioCallback`. The callback comes at any time, also before the
user has decided; `VerifyConnection` notes that in the handler (`early`), which no step
reads, and the properties about activation speak of callbacks that asked after the
decision. Composio is external: `conns` has
the stage of each connection and the user and toolkit it was made for; listing
returns the active ones of that pair in any order.

**`CredentialsFlow`** is the credentials flow: a link opens a page; the page
checks the link (`HandleCredentialsPage`), `CompleteCredentials` checks it
again, `ValidateCredentials` tries the credentials at the mail server
(external: `mail`), `SaveCredentials` encrypts and upserts, `DropPending` uses
up the link. `HandleConnectCredentials` does the same with no link. The
stored token is the pair of credentials and encryption key; `Redeploy` replaces the key, or leaves
the platform unregistered, and all requests die; rows sealed with an earlier key
stay active though they no longer open, until their user connects again
(`ConnectedOpens`). `given` records what users
have submitted for which user and platform: no code reads it, `StoredWereVerified` does.

**`Connections`** is what the three flows promise together, without requests, links, clocks,
lost calls or crashes. A secret comes up for a user and a platform (`Offer`) and is granted by
that user, at once, later or never (`Grant`); what is stored (`Keep`) is one that came up for
just that user and platform, and is ready only if granted; a tool is given only granted ones
(`Hand`, or `Keep` in the same breath); `Remove` takes one connection away. A step changes one
connection, which keeps its id until it is removed, and no id is used twice. Where a flow may
take a refusal for an answer (`CanSpoil`), a step may instead leave a connection without any
secret (`Spoil`), never with one of another's, and no tool is given a secret for it; only
`OAuthTokens` with refusals in a 200 answer does. The secret is the
consent a token was issued on in `OAuthTokens`, Composio's connection in `ComposioLink`, the
credentials in `CredentialsFlow`; each ends with its mapping (`Offered`, `Granted`, `Stored`,
`Handed`) and the property `ConnectionsKept`. It does not say that a removed connection stays
away: a `Keep` after a `Remove` is what `OAuthDeleted` below shows.

**`SmtpMailbox`** is one mailbox seen from the SMTP adapter. A connection attempt
names a host (`ConnectToHost`) or leaves it to discovery (`ConnectToDomain`,
`LookupMX`, `LookupSRV`, `LookupHost`); the endpoints found are tried in turn
(`Dial`, `StartTLS`, `Authenticate`, `Failed`) and the first that works is stored. The
security of an endpoint is free text ("other" is any word but two): `connect` does STARTTLS
for `starttls` only, and any other word but `ssl` goes to AUTH in the clear, so all rests on
`Normalized`, which refuses them before.
A tool call (`Execute`) uses the same session code, then `MailFrom`, `Rcpt` for
each recipient, `Data`, `WriteBody`, `Quit`. How each port of each host greets
its clients is fixed in `Init`; DNS answers are chosen when they are asked for.
Of the many answers of the tool the model keeps what they tell about the mail:
`sent`, `refused` (it was not delivered) and `unsure` (it may have been: the server's
answer to the body is missing or negative, `Quit` failed, or the call died). `sent`, `unsure` and `got`
count answers and copies; no action looks at them except that an agent does not repeat
a mail it was told was sent. What `CredentialsFlow` calls the verdict of the mail server is
this module's connection attempt.

**`Lists`** is what a Go loop that filters with `append` does, `Kept`: the elements at the
positions that pass, in their order. The tool list and the list of endpoints are made so.

**`ToolCatalogue`** is what Composio knows of a platform's tools (slug, versions)
and how the adapter's tool list is made of it: names, newest versions, tools
that main withholds. **`ToolDiscovery`** is `NewDynamicComposioAdapter`: main lists the
tools (`ListImportant`, `ListAll`), starts a goroutine for each (`Launch`) and one to
close the channel (`StartCloser`, `Close`); each goroutine is `Fetch`, `Send`, `Done`;
main takes the answers (`Receive`) and makes the list (`Build`), attaches tools of its
own (`AddExtraTool`) and serves (`Execute`). **`DiscoveredTools`** is what this
promises, without goroutines or channel: the tools are listed once, each is asked for
once, and the list is made when the last has answered, from each tool's own answer.

**`Registry`** turns an environment (`Env`), and the set of discoveries that
succeeded, into the registered adapters with their authentication schemes, and looks
names up. **`ToolPlans`** says what a tool is: its guard and the sequence of its
requests, each with what it changes at the provider and what the handler does when it
fails or finds nothing. The six adapter modules give every tool of theirs such a plan,
and the READ or WRITE mark its description has.

**`Dispatch`** composes these for one user and one platform, under the name that this
user's client calls it: `Connect`, `HandleCallback`, `HandleComposioCallback`,
`SubmitCredentials` and `DeleteAccount` in one step each (the modules above have the
rest), `Ask` and `Retry` through either interface's `handleExecute`, `Call` for each
request of the tool's plan with every reply, and `Restart` with another environment at
any point. A reply is `refused` for a status from 400 to 499, after which nothing was done,
and `failed` for 500 and more and for Composio's "not successful": the adapters report both
alike but for the number in the text, and after the second the action may have been carried
out, as after a lost reply. `count` says what was carried out and what the client was told; no action
looks at it.

Operators introduced by "Faulty variant" are deliberate mistakes in one
definition; no specification uses them. They show that a property notices the
mistake: see `mutants` in `PROJECT.json`.

## Runs

Every cfg names its bounds. Deadlock is checked in all but `ToolDiscovery`, where a
discovery that has failed is over: nothing starts it again before the next restart. `MaxFaults` counts lost calls,
departing clients and crashes together; `MaxIds` bounds which inserted rows
are ever deleted, `MaxTime` the clock, `MaxGen` the refreshes per consent.

| run | shows |
|---|---|
| `OAuthRotating` | a rotating provider that refuses by status or in a 200 answer, two users, two handlers, two links and consents, deletion, no lost call: `TypeOK`; `TokenIsolation` over rows, copies and answers; `ActiveIsReady`, an active row has an unexpired token or the refresh token the provider takes next, or no token after a refusal in a 200 answer; `SpentLinkIsGone`, a link whose code was spent is gone once nobody is completing it; `ConnectionsKept`, the flow implements `Connections` |
| `OAuthKeeping` | a provider that keeps its refresh token and refuses by status, one fault: `ActiveIsReady` holds even with lost writes; `ExpiredOnlyIfPast`, a row marked expired holds a token past its time, whatever stale copy was written; `AbandonedRequestEnds` under the fairness below |
| `ComposioLinks` | two users, two links, two connections, early, late and duplicate callbacks, one fault: `TypeOK`, `ConnectionIsolation`, `ActiveWasAuthorized`, and `OnlyLinkActivates`: with no lost call a callback that asked after its user had authorized the link makes the row active, if the user asked for no other link; `ConnectionsKept` |
| `ComposioLive` | `CallbackSettlesRow`: a row a callback found waiting does not stay initiated |
| `CredentialsLinks` | two links, page and API at once, a redeployment with another key or none, deletion, one fault: `TypeOK`; `StoredWereVerified`, what is stored was submitted for that user and worked at the mail server; `ConnectedOpens`, whoever is told "connected" has a row that this deployment opens; `LinkOutlivesFailure`, only a saved account uses up a link; `ConnectionsKept`. One user: for several, the theorems |
| `SmtpSends` | two hosts with every mixture of servers and DNS answers, any word for the security, two recipients or one twice, a mail asked for twice, one lost exchange or crash: `TypeOK`; `CopiesAccountedFor`, the copies a recipient has are those the answers allow, so an error that denies delivery is true for all recipients; `PasswordGuarded`, no session gets to AUTH outside TLS; `WorkingEndpointFound`, one bad endpoint does not hide a good one |
| `ToolDiscovery` | lists of up to three tools (one withheld, one without the platform's prefix, one that a tool of main's own shadows), two versions, every failure and every order: `TypeOK`; `NoSendOnClosed`, no goroutine sends into the closed channel; `WithheldNeverRuns`, a withheld tool never runs, fetched or not; `NewestVersionRuns`; `Promise`, discovery implements `DiscoveredTools`; `DiscoveryEnds`, startup does not hang in it |
| `Dispatch` | ten names for eight platforms, four environments, two restarts, both interfaces, all tools and all replies: `TypeOK`; `StartupNeverPanics`, no name is registered twice; `EffectsAccountedFor`, for every action done there is a "done", or an answer that left it open; `GenerationFollowsCard`, Dinq generates only for a card it has; `ReadIsSafe`, what is marked READ changes nothing; `ActiveMadeHere`, a link opened before a redeployment revives no account of the old backend |

Why the bounds are enough for the interesting cases: two handlers on one key
give every overlap of two refreshes, of refresh and reconnect, of two
callbacks; two states and two codes give reconnects and duplicate callbacks;
two users give every way to mix up keys (the theorems have any number of users
and platforms); one fault at any point gives every partial failure of one flow; two ticks
let a link expire and a token expire, be renewed and expire again; two hosts with
two ports give mixed lists of endpoints, two tries the repetition that could
deliver twice; three tools take both ways through the listing and give every order of
sending, receiving and closing; the four environments move each of the three platforms
that can change backends both ways and let the others come and go, and two restarts let
a platform come back to a backend it has left. Symmetry among states, codes,
credentials, keys, connections, recipients, workers and users is used for invariants and
action properties only, never for liveness (`OAuthKeeping`, `ComposioLive` and
`ToolDiscovery` have none): no definition distinguishes their members.

Four runs check what a comment or a text of the code says and find that the code
does not do it (`findings` in `PROJECT.json`):

| run | what the trace shows |
|---|---|
| `OAuthDeleted` | a refresh in flight inserts the account its user has deleted (`manager.go:581`) |
| `OAuthDiscarded` | of two concurrent refreshes the loser marks the winner's good row expired (`manager.go:568`) |
| `ComposioTwoLinks` | the user authorizes the first of two links; the callback asks about the second one's connection and stores failed |
| `SmtpSrvPort` | an SRV record gives port 587 for `submissions`: the mailbox is connected with `ssl` on 587 and stored as active, and each send is refused by the adapter's own check (`discovery.go:71`, `adapter.go:271`) |

`ActiveIsReady` holds of a keeping provider always, and of a rotating one while no
call is lost: if the save of a rotated token is (`manager.go:581`), the row stays active
with a refresh token that is spent. That is why `OAuthRotating` has no faults. Neither says
that an active row has a token at all where the provider refuses in a 200 answer: there it
may have none. `OAuthRotating` has refusals of both kinds, `OAuthKeeping` those by status (the
keeping provider is Google); the theorems have any set of them.

### Fairness

`OAuthTokens!Fairness` is weak fairness of the clock and of each handler's
steps at the store, and of any step of a handler whose client has gone: Postgres
answers, and a cancelled context ends every call under way. There is none on
provider calls of a live request, because `http.DefaultClient` has no timeout
(`manager.go:725`), and none on users, clients or crashes. `ComposioLink!LiveSpec`
has weak fairness of every handler step: the Composio client has a timeout of 30
seconds (`client.go:32`), so every call returns. `ToolDiscovery!LiveSpec` has weak
fairness of main, of each goroutine and of the closer: the scheduler runs each again and
again, and the same timeout ends each fetch. `Dispatch` has none: adapters call
`http.DefaultClient`, and nothing makes a client ask.

## Proofs

`OAuthTokensProofs` proves for all values of the constants, from
`StoreAssumption` and `OAuthAssumption` (naturals are naturals, `Null` is none
of the values it stands in for):

- `TypeCorrect`: `Spec => []TypeOK`. What a step stores comes from a handler's
  copies, so the inductive `TypeInv` adds which fields of a handler are set at which step
  (`HandlerOK`) and that a consent given names a key and a state (`GrantOK`).
- `TokensIsolated`: `Spec => []TokenIsolation`. It is not inductive: that the
  token a handler saves belongs to its key depends on the pending auth it read
  having the key the consent was given for. The strengthening `Linked` says so: a
  pending auth, the URL of its state and every consent and handler that names
  that state agree on the key. From it, each way to write a row, copy or answer
  keeps the tokens within those issued for the key, and what the provider has
  issued only grows.
- `ExpiredIsPast`: `Spec => []ExpiredOnlyIfPast`. The strengthening is that the
  copy of a handler in `refresh` or `saveExpired` has expired (time only goes
  forward); the failed refresh writes that copy whole, so it cannot strike
  another token.
- `KeeperActiveIsReady`: if refreshes never return a new refresh token, and
  exchanges that return an `expires_in` return one, then
  `Spec => []ActiveIsReady`, with any number of faults. The strengthening: the
  refresh token in any row or copy is the one with number 0, which the provider
  accepts as long as the consent stands, and copies that are refreshed keep it.

- `SpentLinksGo`: `Spec => []SpentLinkIsGone`. The strengthening is `Calm`: while no
  call is lost every handler has its client and completes the link its code was issued
  for, and the link of a spent code is gone or in the hands of a handler on its way
  to delete it.
- `RotatorActiveIsReady`: if every refresh returns a new refresh token, and exchanges that
  return an `expires_in` return one, then `Spec => [](faults = 0 => ActiveIsReady)`, for any
  number of handlers that refresh, reconnect and delete one row at once. The strengthening
  `RotatorInv` holds while no call is lost: a number the provider has not issued is nowhere
  (`UnissuedAreNew`); what expires has a refresh token (`AllRefreshable`); a handler about to
  store a refreshed token is the only one that has the provider's current refresh token
  (`UnsavedIsOwn`), so no row gets it twice; and an active row whose refresh token is spent is
  about to be written by whoever spent it (`SpentIsSaving`), which `ActiveIsReady` allows for.

But for `SpentLinksGo`, the proofs first reduce every step to what it can do to rows, copies
and answers (`StepRows`, `StepCopies`, `StepAnswer`, `StepTime`, `StepGrows`, and with no
lost call the five kinds of `StepKinds`); each invariant is then shown against those facts
instead of action by action.

`CredentialsProofs` proves for all values of the constants, from
`StoreAssumption` and `CredentialsAssumption`:

- `CredentialsTypeCorrect`: `Spec => []TypeOK`;
- `StoredVerified`: `Spec => []StoredWereVerified`. The credentials pass through
  three steps (the page, or the API; the validation; the save), so the inductive
  `CInv` says what is vouched for at each point: a handler past its check carries
  credentials submitted for its key, past the validation ones the mail server took,
  and at the save the row it will write seals just those (`HandlerOK`); a link
  belongs to whom it was drawn for, the same whose key the handler has (`LinksOK`);
  rows and answers hold nothing else. Typing needs `ServingOK`: a deployment without
  the platform serves no request of it, so nothing is sealed without a key.

- `ConnectedRowOpens`: `Spec => []ConnectedOpens`. `SInv` adds that what a handler is
  about to save is sealed with the key of the running deployment: a redeployment ends
  all requests, so nobody saves under a key that is no longer in use.
- `LinkSurvives`: `Spec => LinkOutlivesFailure`. `DInv` adds that ids are unique and never
  come back, and that a handler about to delete a link has saved its account (which its
  user may have deleted since).

Here every action is a step of the proof (`CNext`), after lemmas on what is common
to them: what is vouched for stays so (`StepGrows`), and a change of one handler, row or
link leaves the others as they were.

`ComposioProofs` proves for all values of the constants, from `StoreAssumption` and
`ComposioAssumption`:

- `ComposioTypeCorrect`, `ConnectionsIsolated` and `ActiveAuthorized` (`TypeOK`,
  `ConnectionIsolation`, `ActiveWasAuthorized`), with any number of faults. The inductive `IInv`
  says of each handler (`HandlerOK`), row (`RowsOK`) and answer (`AnswerOK`) that the
  connection in it was made for its key, and was authorized wherever it counts as active. What
  Composio knows of a connection only goes forward (`Later`), so that this outlives any interleaving.
- `OnlyLinkSettles`: `Spec => []OnlyLinkActivates`. The property speaks of a user with one link and
  of callbacks that asked after the decision, after which Composio's answer no longer changes; its
  proof needs to know who may write that user's row. `LInv` says that at most one handler makes a
  given link (`OneLinker`), how links, pending auths and connections belong together (`LinkOK`,
  `PendingsOK`, `LinksOK`), and that while no call is lost every connection is known to a link or
  to the handler that makes it (`Known`).

`TokensKeepConnections`, `LinksKeepConnections` and `SubmissionsKeepConnections` prove `Spec =>
ConnectionsKept` in the three modules, with any number of faults: every step of a flow is an
`Offer`, a `Grant`, a `Keep`, a `Remove`, a `Hand` or a `Rest` of `Connections`. What is kept
must have come up for its key and, if ready, been granted, which are the invariants that each
module has for isolation (`Isolated`, `IInv`, `CInv`). `OAuthTokens` needs two more: `Tokened`,
every row and every copy that will be written has an access token, unless a refusal may come in
a 200 answer; and, from `ExpiryInv`, that
a refreshed token is stored active, since the tool is handed it in the same step. `Ids`, that ids are unique and below `nextId`, makes a deletion by
id take one account at most. `StoreProofs` has that and what an upsert and a deletion do to the
table (`Upserting`, `Deleting`, `UpsertIds`, `DeleteIds`), for all three. The lemma `StepAccounts`
of each module then leaves three cases: a step writes one row from a handler's copy
(`WriteStep`), removes one (`RemoveStep`), or leaves the accounts alone, where each action is one
step of `UntouchedStep`.

`SmtpProofs` proves for all values of the constants, from `SmtpAssumption`:

- `CopiesCounted`: `Spec => []CopiesAccountedFor`. The strengthening is that past
  `Rcpt` every recipient is in the envelope (`SessionOK`), so that what the server
  takes reaches all or none;
- `PasswordKept`: `Spec => []PasswordGuarded`. Every endpoint that is dialled has passed
  `Normalized` or comes from discovery, so its security is one of the two that `connect` knows
  (`SafeEndpoint` in `MInv`); a session in `starttls` has a public host, one from `auth` on has
  TLS as well.

- `MailboxTypeCorrect`: `Spec => []TypeOK`. That the endpoints found are endpoints rests on
  what the filtering loop returns (`KeptHolds`);
- `NoneWorks`: `Spec => WorkingEndpointFound`. `MInv` adds where an attempt is in the list of
  endpoints (`FoundOK`), and that with no exchange lost those it has passed over do not work
  (`PassedOver`).

`ListsProofs` proves `KeptHolds`: of a list of any length, the loop returns the elements that
pass and no others. The library's induction theorems cannot be used here (their
parameter is an operator), so the proof takes the least position at which the claim would
fail, which the well-ordering of the naturals gives, and refutes it.

`ToolDiscoveryProofs` proves for all lists of tools and all answers, from
`CatalogueAssumption` and `DiscoveryAssumption`:

- `TypeCorrect`: `Spec => []TypeOK`;
- `SafeClose`: `Spec => []NoSendOnClosed`. `WaitGroup` and `Closed` say that a goroutine is
  counted from its launch until after its send;
- `Refines`: `Spec => Promise`, the refinement of `DiscoveredTools`. That the list is made after
  the last answer and from the right ones needs the whole of `IInv`: a started goroutine has an
  answer exactly when it has fetched (`Started`, `Answered`), a message carries its sender's answer
  (`Carried`), and each sent one is in the channel or has been received (`Heard`). A fetch is a
  step of the abstract specification, `Build` another, and all else a stutter;
- `ExclusionsHold` and `NewestRuns`: `Spec => []WithheldNeverRuns`, `Spec =>
  []NewestVersionRuns`. Each tool of the list made was kept from one listed tool, by the name
  that was not withheld (`KeptHolds`), and with the answer of the goroutine started for just
  that tool: the inductive `CInv` follows it from the question (`Asked`) over the finished list
  (`Finished`) to the call (`Ran`).

`DispatchProofs` proves for all environments, names and numbers of restarts, from
`DispatchAssumption`:

- `TypeCorrect`: `Spec => []TypeOK`;
- `NoPanicAtStartup`: `Spec => []StartupNeverPanics`, from a lemma on `Registrations`: what `Skipped`
  leaves to the direct adapters and to the bot is what those register;
- `EffectsAccounted` and `GenerationFollows`: `Spec => []EffectsAccountedFor`, `Spec =>
  []GenerationFollowsCard`. First every tool of every adapter has a `Sound` plan: one request, a reading
  one before it, or a changing one that leads a quiet one. For such plans `InHand` is inductive: either
  nothing is unaccounted for, or the main request is done, one that cannot fail the tool is left, and
  "done" will be told;
- `ActivatedHere`: `Spec => ActiveMadeHere`;
- `ReadsAreSafe`: `Spec => []ReadIsSafe`. A restart between a request and its retry may move the
  platform to another backend, so the mark is another adapter's than the handler: `ReadInv` rests on no
  adapter using a name marked READ anywhere for a tool that changes something;

Model-checked only: liveness (`AbandonedRequestEnds`, `CallbackSettlesRow`,
`DiscoveryEnds`), which these provers do not reach. Every safety property of the runs that pass is
stated by a theorem.

## Left out, and why

- Columns that no decision reads (`status_reason`, `account_email`, `scopes`,
  `token_type`, times other than expiries), the callback URL, PKCE and client
  authentication: they change no control flow. The email look-ups cannot fail
  a flow (`manager.go:379`, `:308`) and are part of the step they follow.
- The first call of a handler: if the read or the save of a pending auth fails,
  the handler ends with an error and nothing has happened. That a saved pending
  auth may be one whose URL nobody got is the case of an `InitiateOAuth` never
  followed by a consent.
- The random state is a value of `States` drawn once: collisions are not
  considered.
- Clock skew between replicas and database.
- A code presented with the state of another consent: the browser carries both unchanged from
  the provider's redirect to the callback (`routes.go:316`).
- In `ComposioLink`, the id of the link flow and the id of the connected account that
  `ResolveConnection` puts in its place (`manager.go:297`) are one value.
- `Registry` has the adapters as a set of names and schemes: two alike in both would be one there,
  where `Register` would panic. `main` has one call for each, or one element of a list of
  different platforms.
- A link of one flow presented to the callback of another, which is refused by
  the platform or scheme check or ends the handler without writing anything.
- In `CredentialsFlow`, the discovery of the mail server's endpoints:
  `ValidateCredentials` succeeds when one of them does (`SmtpMailbox` has the rest).
- The text of a mail, the AUTH LOGIN dialogue (a recipient named twice is modelled: `got` counts
  the sessions in which a server took the mail for them, not what it delivers), host names that are refused as such (`localhost`, an address,
  `.local`), and the choice between public addresses of one host.
- The shape of requests and results: the URLs, the trimming of long bodies and of bulk
  fields, schemas and descriptions. The listing endpoints, the health check, pages and JSON, which
  change no state.
- In `Dispatch`, the platforms other than the client's, and concurrent requests of one user:
  `OAuthTokens`, `ComposioLink` and `CredentialsFlow` have those. A connection attempt or a callback
  is one step there.

Seen at the source while modelling and not given a run, because no property of the
repository's own text is at stake or one step shows it:

- nothing calls `CleanExpiredPendingAuths` (`store.go:191`), `FindAdapter` or `AllTools`;
- a refusal in a 200 answer is stored as an active row with an empty token, over a good one if the
  callback is a duplicate, and a refused refresh hands the empty token to the tool
  (`manager.go:730`, `:385`, `:572`): `active` is then not "ready to use" (`server.go:82`);
- a connection the user declined is answered as connected (`routes.go:369`);
- `searchMessages` panics over HTTP without params, whose map is nil (`gmail/adapter.go:275`);
- `list_messages` passes over the messages it could not get, and a body nested deeper than one
  multipart is returned empty;
- a repeated write is done twice if the first reply was lost: no tool has an idempotency key;
- a discovery that fails removes its platform until the next restart; a list of tools ends at 200;
- a tool that main attaches shadows a listed one of its name (`composio.go:217`);
- HTTP asks for a token of the user's for dinq and the Discord bot (`routes.go:468`), so without
  a stale row of an earlier backend it always refuses them, while MCP serves them (`server.go:295`); the Discord bot also needs
  `COMPOSIO_API_KEY`;
- a direct callback that comes after its platform has lost its OAuth configuration panics, and
  leaves no trace;
- the adapters' requests have no timeout of their own (`gmail/adapter.go:633`).

## What is left

- The shaping of results and parameters, as functions checked over bounded inputs.
