------------------------------ MODULE MCHttpFront ------------------------------
(* HttpFront on a small instance: a subject who holds every scope and one    *)
(* who may only read, and the tool lists of registry.New and of a wiring     *)
(* mistake.                                                                  *)
EXTENDS HttpFront

CONSTANTS q1, q2

MCName == {"echo", "notes_add", "ping", "ghost"}
MCScope == {"notes:write", "tools:echo"}
MCHolds == [alice |-> MCScope, bob |-> {"notes:write"}]

\* The first request is any but a stream, the second one that may be mistaken for it.
MCSends ==
  q1 :> ({"/mcp"} \X Credential) \cup ((Route \ Mcp) \X {"none"}) @@
  q2 :> {<<"/mcp", "dead">>, <<"mcpStream", "bob">>}

\* The ghost is in no registry; ping stands for a tool that anybody may call.
MCToolLists ==
  LET tool(name, scope) == [name |-> name, scope |-> scope]
  IN {<<tool("echo", "tools:echo"), tool("notes_add", "notes:write"), tool("ping", Empty)>>,
      <<tool("echo", "tools:echo"), tool("echo", "notes:write")>>,
      <<tool(Empty, Empty)>>}

\* Environments with up to four mistakes.
MCSetting == [
  ADDR |-> {Blank}, BASE_URL |-> {"bad", Blank, "public"}, AUTHORIZATION_SERVERS |-> {"bad", Blank},
  USERS_FILE |-> {Blank}, NOTES_STORE |-> {"bad", "file"}, NOTES_FILE |-> {Blank},
  LOG_LEVEL |-> {"bad", "info", "error"}]

===============================================================================
