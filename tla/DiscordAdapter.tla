---------------------------- MODULE DiscordAdapter ----------------------------
(* The tools of the Discord bot. *)
EXTENDS ToolPlans

get == Reading

post == Writing

sendMessage == Checked(<<post>>)

getMessages == Checked(<<get>>)

(* How the descriptions mark them. *)
Tools == [READ |-> {"get_messages", "get_guilds", "get_channels", "get_me"},
          WRITE |-> {"send_message"}]

Execute == [send_message |-> sendMessage, get_messages |-> getMessages,
            get_guilds |-> Unchecked(<<get>>), get_channels |-> Checked(<<get>>),
            get_me |-> Unchecked(<<get>>)]
=============================================================================
