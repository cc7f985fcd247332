------------------------------ MODULE Surfaces ------------------------------
(***************************************************************************)
(* What the two surfaces do with a request, in order: the tools of the MCP *)
(* server and the calls of the REST proxy.  A plan is the sequence of the  *)
(* reads the code makes (each is a statement or a call of its own), the    *)
(* decision it takes ("check", of the level named by check), and the point *)
(* where the request has its effect: "serve".  effect is what Google does  *)
(* for it, whatever the code believed it would do.                         *)
(***************************************************************************)
EXTENDS ApiPolicy

Request(plan, check, effect) == [plan |-> plan, check |-> check, effect |-> effect]
------------------------------------------------------------------------------
(* Shared prefixes.  The mailbox rows are read twice, each time with their *)
(* delegations; the rules are three statements: all of the owner's, the    *)
(* profile's assignments, everyone's assignments.                          *)
Approved == <<"connection", "profile">>
Mailboxes == <<"rows", "delegation">>
Account == Mailboxes \o Mailboxes \o <<"owner", "token">>
Rules == <<"rules", "own", "everyone">>
Standing == <<"standing">>
Temporary == <<"temporary", "parent">>

Tool(plan, check, effect) == Request(Approved \o plan, check, effect)
(* A tool on a file whose kind it knows, and one that takes any kind: the  *)
(* kind is then the service of a rule on the file.                         *)
FileTool(check) == Tool(Account \o Rules \o <<"check", "serve">>, check, check)
AnyFileTool(check) == Tool(Account \o <<"kind">> \o Rules \o <<"check", "serve">>, check, check)

list_accounts == Tool(Mailboxes \o <<"serve">>, "nothing", "nothing")
gmail_list == Tool(Account \o <<"serve">>, "nothing", "mailbox")
gmail_read == Tool(Account \o Rules \o <<"fetch", "check", "serve">>, "mail", "mail")
(* The email that carries the attachment is fetched and checked first.     *)
gmail_get_attachment == Tool(Account \o Rules \o <<"fetch", "check", "serve">>, "mail", "mail")
gmail_send == Tool(Account \o Rules \o <<"check", "serve">>, "send", "send")
gmail_labels == Tool(Account \o <<"serve">>, "nothing", "mailbox")
sheets_get == FileTool("read")
sheets_read == FileTool("read")
sheets_update == FileTool("write")
sheets_append == FileTool("write")
sheets_edit == FileTool("write")
docs_read == FileTool("read")
docs_edit == FileTool("write")
slides_get == FileTool("read")
slides_edit == FileTool("write")
comments_read == AnyFileTool("read")
comments_add == AnyFileTool("write")

Tools == {list_accounts, gmail_list, gmail_read, gmail_get_attachment, gmail_send, gmail_labels,
          sheets_get, sheets_read, sheets_update, sheets_append, sheets_edit, docs_read, docs_edit,
          slides_get, slides_edit, comments_read, comments_add}
------------------------------------------------------------------------------
(* Raw calls: the class decides the plan, Google the effect.               *)
EffectOf(c, served) ==
  LET reads == c.method = "GET"
  IN  CASE served.op \in {"content", "comments"} -> IF reads THEN "read" ELSE "write"
        [] served.op = "copy" -> "read"
        [] served.op \in {"send_messages", "send_drafts"} -> IF reads THEN "nothing" ELSE "send"
        [] served.op = "mail" -> IF reads THEN "mail" ELSE "mailbox"
        [] served.op \in {"destroy", "settings"} -> IF reads THEN "mailbox" ELSE "never"
        [] served.op = "batch" -> "never"
        [] served.op \in {"collection", "nothing"} -> "nothing"
Level(class) == IF class.mutating THEN "write" ELSE "read"
Refuse == <<"refuse">>

(* executeRawGoogleCall.                                                   *)
McpRawPlan(class) ==
  CASE class.kind = "denied" -> Refuse
    [] class.kind \in {"file_create", "drive_create", "passthrough", "drive_passthrough"} -> <<"serve">>
    [] class.kind \in {"drive_copy", "file_comments", "drive_file"} -> <<"kind">> \o Rules \o <<"check", "serve">>
    [] class.kind = "file" -> Rules \o <<"check", "serve">>
    [] class.kind \in {"gmail_read", "gmail_draft_send"} -> Rules \o <<"fetch", "check", "serve">>
    [] class.kind \in {"gmail_send", "gmail_write"} -> Rules \o <<"check", "serve">>
RawCheck(class) ==
  CASE class.kind \in {"file", "file_comments", "drive_file"} -> Level(class)
    [] class.kind = "drive_copy" -> "read"
    [] class.kind = "gmail_read" -> "mail"
    [] class.kind \in {"gmail_send", "gmail_draft_send"} -> "send"
    [] OTHER -> "nothing"
McpRaw(c) ==
  LET class == Classify(c)
      plan == McpRawPlan(class)
  IN  Tool(IF plan = Refuse THEN plan ELSE Account \o plan, RawCheck(class), EffectOf(c, Serves(RawUrl(c.path))))

(* handleProxyRequest, after the credential.  Files are the key owner's;   *)
(* the token of a mailbox is its owner's, looked up after the rules.       *)
RestGmailPlan(class) ==
  Mailboxes \o Rules
    \o (CASE class.kind = "gmail_send" -> <<"check", "owner", "token", "serve">>
          [] class.kind \in {"gmail_draft_send", "gmail_read"} -> <<"owner", "token", "fetch", "check", "serve">>
          [] class.kind = "gmail_write" -> <<"owner", "token", "serve">>)
RestPlan(class) ==
  CASE class.kind = "denied" -> Refuse
    [] class.kind = "passthrough" \/ (class.kind = "drive_passthrough" /\ class.mutating) -> Refuse
    [] class.kind = "file_create" -> Refuse
    [] class.kind \in {"drive_file", "file_comments", "drive_copy", "file"} ->
         Rules \o <<"check", "token", "serve">>
    [] class.kind = "drive_create" \/ (class.kind = "drive_passthrough" /\ ~class.mutating) -> <<"token", "serve">>
    [] class.kind \in {"gmail_send", "gmail_draft_send", "gmail_read", "gmail_write"} -> RestGmailPlan(class)
RestRaw(c, credential) ==
  LET class == Classify(c)
      plan == RestPlan(class)
  IN  Request(IF class.kind = "denied" \/ plan = Refuse THEN credential \o Refuse ELSE credential \o plan,
              RawCheck(class), EffectOf(c, Serves(RawUrl(c.path))))

McpRequests == Tools \cup {McpRaw(c) : c \in Calls}
RestRequests == {RestRaw(c, credential) : c \in Calls, credential \in {Standing, Temporary}}
=============================================================================
