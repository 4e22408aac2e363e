------------------------------- MODULE MCDispatch -------------------------------
(* A small instance of Dispatch for TLC: four deployments, among which gmail,  *)
(* outlook and discord change backends and the other platforms come and go,    *)
(* and a name or two for each platform.                                        *)
EXTENDS Dispatch

Nothing == [composio |-> FALSE, authConfigs |-> {}, clients |-> {}, dinq |-> FALSE,
            smtp |-> FALSE, bot |-> FALSE, apify |-> FALSE]

ViaComposio == [Nothing EXCEPT !.composio = TRUE,
                               !.authConfigs = {"gmail", "outlook", "discord", "linkedin"},
                               !.clients = {"gmail"}, !.apify = TRUE]

OwnClients == [Nothing EXCEPT !.clients = {"github", "gmail", "twitter", "outlook"},
                              !.dinq = TRUE, !.smtp = TRUE]

Mixed == [ViaComposio EXCEPT !.clients = {"gmail", "outlook", "twitter"}, !.bot = TRUE,
                             !.dinq = TRUE]

EnvSet == {Nothing, ViaComposio, OwnClients, Mixed}

NameSet == {"gmail", "Gmail", "microsoft", "github", "twitter", "linkedin", "discord",
            "dinq", "imap", "smtp_email"}
=============================================================================
