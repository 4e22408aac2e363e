------------------------------- MODULE Registry -------------------------------
(***************************************************************************)
(* What a deployment offers: main.go turns the environment, and the tool   *)
(* discoveries that succeeded, into registered adapters, each under one    *)
(* name and with one authentication scheme, and into OAuth configurations; *)
(* registry.go looks names up.                                             *)
(***************************************************************************)

CONSTANT Null    \* no adapter

DynamicPlatforms == {"linkedin", "gmail", "googlecalendar", "googlesheets", "notion",
                     "slack", "discord", "outlook", "reddit"}

Clients == {"github", "gmail", "twitter", "outlook", "nylas"}

Schemes == {"oauth2", "composio", "bot_token", "dinq_internal", "credentials"}

(* The environment variables that are set: COMPOSIO_API_KEY, the auth       *)
(* configs at Composio, the client ids, DINQ_SERVER_URL, the key for SMTP   *)
(* credentials, DISCORD_BOT_TOKEN and APIFY_API_KEY.                        *)
Env == [composio : BOOLEAN, authConfigs : SUBSET DynamicPlatforms,
        clients : SUBSET Clients, dinq : BOOLEAN, smtp : BOOLEAN,
        bot : BOOLEAN, apify : BOOLEAN]

-----------------------------------------------------------------------------
composioGmailReady(e) == e.composio /\ "gmail" \in e.authConfigs

useDirectGmail(e) == ~composioGmailReady(e) /\ "gmail" \in e.clients

useDirectOutlook(e) == "outlook" \in e.clients

(* Faulty variant: the check for the bot is lost. *)
SkippedButDiscord(e) ==
    {p \in DynamicPlatforms :
        \/ p = "gmail" /\ useDirectGmail(e)
        \/ p = "outlook" /\ useDirectOutlook(e)}

(* What the loop over the platforms at Composio leaves to another adapter. *)
Skipped(e) ==
    {p \in DynamicPlatforms :
        \/ p = "discord" /\ e.bot
        \/ p = "gmail" /\ useDirectGmail(e)
        \/ p = "outlook" /\ useDirectOutlook(e)}

(* The platforms whose tools main asks Composio for. *)
Discoverable(e) == IF e.composio THEN e.authConfigs \ Skipped(e) ELSE {}

Adapter(n, s) == [name |-> n, scheme |-> s]

When(c, adapters) == IF c THEN adapters ELSE {}

Direct(e) ==
    {Adapter("github", "oauth2")}
    \cup When(useDirectGmail(e), {Adapter("gmail", "oauth2")})
    \cup When(e.dinq, {Adapter("dinq", "dinq_internal")})
    \cup When(useDirectOutlook(e), {Adapter("outlook", "oauth2")})
    \cup When(e.smtp, {Adapter("smtp_email", "credentials")})
    \cup When("twitter" \in e.clients, {Adapter("twitter", "oauth2")})

(* Every adapter that main registers when the discoveries of found          *)
(* succeeded: a failed one leaves its platform out, and the bot comes only  *)
(* together with Composio.                                                  *)
Registrations(e, found) ==
    Direct(e)
    \cup {Adapter(p, "composio") : p \in Discoverable(e) \cap found}
    \cup When(e.composio /\ e.bot, {Adapter("discord", "bot_token")})

(* Register panics when the name is taken. *)
RegisteredOnce(adapters) == \A a, b \in adapters : a.name = b.name => a = b

Registered(adapters) == {a.name : a \in adapters}

(* The tools that Apify adds. *)
Searchable(e, adapters) == When(e.apify, {"linkedin", "twitter"} \cap Registered(adapters))

(* SetConfig: an OAuth configuration per client id, whatever adapter the    *)
(* platform has got.                                                        *)
Configs(e) == e.clients

-----------------------------------------------------------------------------
platformAliases == [microsoft |-> "outlook", imap |-> "smtp_email", nylas |-> "smtp_email"]

ResolveName(n) == IF n \in DOMAIN platformAliases THEN platformAliases[n] ELSE n

AdapterOf(adapters, n) ==
    IF \E a \in adapters : a.name = n
    THEN (CHOOSE a \in adapters : a.name = n).scheme ELSE Null

(* Get: the name itself, else what it is an alias of. *)
Get(adapters, n) ==
    IF AdapterOf(adapters, n) # Null THEN AdapterOf(adapters, n)
    ELSE AdapterOf(adapters, ResolveName(n))
=============================================================================
