---------------------------- MODULE OutlookAdapter ----------------------------
(* The tools of the direct Outlook adapter. *)
EXTENDS ToolPlans

graphGet == Reading

graphPost == Writing

sendEmail == Unchecked(<<graphPost>>)

listMessages == Unchecked(<<graphGet>>)

getMessage == Unchecked(<<graphGet>>)

searchMessages == Unchecked(<<graphGet>>)

replyToEmail == Unchecked(<<graphPost>>)

createDraft == Unchecked(<<graphPost>>)

listFolders == Unchecked(<<graphGet>>)

(* How the descriptions mark them. *)
Tools == [READ |-> {"list_messages", "get_message", "search_messages", "list_folders"},
          WRITE |-> {"send_email", "reply_to_email", "create_draft"}]

Execute == [send_email |-> sendEmail, list_messages |-> listMessages,
            get_message |-> getMessage, search_messages |-> searchMessages,
            reply_to_email |-> replyToEmail, create_draft |-> createDraft,
            list_folders |-> listFolders]
=============================================================================
