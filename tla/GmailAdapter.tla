----------------------------- MODULE GmailAdapter -----------------------------
(* The tools of the direct Gmail adapter. *)
EXTENDS ToolPlans

gmailGet == Reading

gmailPost == Writing

(* Attachments that are no list of named base64 contents are refused. *)
sendEmail == Checked(<<gmailPost>>)

(* One request per message listed, here for one; a message whose request    *)
(* fails is listed without its headers.                                     *)
listMessages == Unchecked(<<Last(gmailGet), Tried(gmailGet)>>)

getMessage == Unchecked(<<gmailGet>>)

searchMessages == Tool("map", listMessages.requests)

replyToEmail == Unchecked(<<Needed(gmailGet), gmailPost>>)

createDraft == Unchecked(<<gmailPost>>)

listLabels == Unchecked(<<gmailGet>>)

getThread == Unchecked(<<gmailGet>>)

modifyLabels == Unchecked(<<gmailPost>>)

(* How the descriptions mark them. *)
Tools == [READ |-> {"list_messages", "get_message", "search_messages", "list_labels",
                    "get_thread"},
          WRITE |-> {"send_email", "reply_to_email", "create_draft", "modify_labels"}]

Execute == [send_email |-> sendEmail, list_messages |-> listMessages,
            get_message |-> getMessage, search_messages |-> searchMessages,
            reply_to_email |-> replyToEmail, create_draft |-> createDraft,
            list_labels |-> listLabels, get_thread |-> getThread,
            modify_labels |-> modifyLabels]
=============================================================================
