--------------------------- MODULE Normalization ---------------------------
(***************************************************************************)
(* What events.py makes of the raw input of a hook: the name of the event, *)
(* the session it is about, and which parts of the input get into the      *)
(* published event, in which form.                                         *)
(*                                                                         *)
(* Texts are opaque.  A published part is a piece: where it is published,  *)
(* the field of the input it comes from, and whether it is the text as it  *)
(* stood ("plain"), the text after redaction ("redacted"), a hash of it    *)
(* ("hash"), or the names of the keys of an object ("keys").  An empty     *)
(* text tells nothing and is left out.                                     *)
(***************************************************************************)
EXTENDS Protocol, Naturals

CONSTANTS
    Squeezed,    \* a spelling of an event name -> its letters and digits in lower case
    Segment,     \* a text -> its topic segment, or "" if nothing of it is left
    DirectoryId, \* a working directory -> its name and hash
    CwdHash      \* a working directory -> its hash

\* A JSON value: a text, "" for one that counts as false, or an object with its keys.
Text(t)     == [kind |-> "text", text |-> t, keys |-> {}]
Object(ks)  == [kind |-> "object", text |-> "", keys |-> ks]
Absent      == Text("")
Truthy(v)   == v.text # "" \/ v.keys # {}

Field(raw, f) == IF f \in DOMAIN raw THEN raw[f] ELSE Absent

\* raw.get(f1) or raw.get(f2) or ...
FirstOf(raw, fields) ==
    LET given == {i \in DOMAIN fields : Truthy(Field(raw, fields[i]))}
        first == CHOOSE i \in given : \A j \in given : i <= j
    IN  IF given = {} THEN Absent ELSE Field(raw, fields[first])

Or(text, default) == IF text # "" THEN text ELSE default

-----------------------------------------------------------------------------
(* The environment.                                                        *)

Environ(env, name) == IF name \in DOMAIN env THEN env[name] ELSE ""

EnvValue(env, name, legacy) == Or(Environ(env, name), Environ(env, legacy))

EnvBool(env, name, legacy) == EnvValue(env, name, legacy) \in {"1", "true", "yes", "on"}

IncludeText(env) == EnvBool(env, "MENAGERIE_INCLUDE_TEXT", "CODEX_PET_INCLUDE_TEXT")
IncludeRaw(env)  == EnvBool(env, "MENAGERIE_INCLUDE_RAW", "CODEX_PET_INCLUDE_RAW")

-----------------------------------------------------------------------------
(* Names.                                                                  *)

TopicSegment(text, fallback) == Or(Segment[Or(text, fallback)], fallback)

Aliases == [sessionstart |-> "sessionStart", userpromptsubmit |-> "userPromptSubmit",
            pretooluse |-> "preToolUse", permissionrequest |-> "permissionRequest",
            posttooluse |-> "postToolUse", precompact |-> "preCompact",
            postcompact |-> "postCompact", subagentstart |-> "subagentStart",
            subagentstop |-> "subagentStop", stop |-> "stop"]

CanonicalHookEvent(raw) ==
    LET fields == <<"hook_event_name", "hookEventName", "eventName", "event">>
        value  == Or(FirstOf(raw, fields).text, "unknown")
    IN  IF Squeezed[value] \in DOMAIN Aliases THEN Aliases[Squeezed[value]] ELSE value

\* os.getcwd(): the directory a process runs in is part of its environment, by the
\* path without symbolic links that the kernel gives.
Getcwd(env) == Environ(env, "getcwd")

CwdFromRaw(raw, env) == Or(Field(raw, "cwd").text, Or(Environ(env, "PWD"), Getcwd(env)))

WorkspaceName(env, cwd) ==
    Or(EnvValue(env, "MENAGERIE_WORKSPACE_ID", "CODEX_PET_WORKSPACE_ID"), DirectoryId[cwd])

WorkspaceIdFor(env, cwd) == TopicSegment(WorkspaceName(env, cwd), "workspace")

GivenSession(raw) == FirstOf(raw, <<"session_id", "sessionId", "thread_id", "threadId">>).text

ConfiguredSession(env) == EnvValue(env, "MENAGERIE_SESSION_ID", "CODEX_PET_SESSION_ID")

Thread(env) == Environ(env, "CODEX_THREAD_ID")

\* Mutant: the thread Codex names in the environment is not looked up.
SessionIdFromWithoutThread(raw, env, fallback) ==
    TopicSegment(Or(GivenSession(raw), Or(ConfiguredSession(env), fallback)), "unknown")

SessionIdFrom(raw, env, fallback) ==
    TopicSegment(Or(GivenSession(raw), Or(ConfiguredSession(env), Or(Thread(env), fallback))),
                 "unknown")

-----------------------------------------------------------------------------
(* The published event.                                                    *)

Piece(at, field, form) == [at |-> at, of |-> field, form |-> form]

CopiedFields == {"source", "permission_mode", "tool_name", "tool_use_id", "trigger",
                 "agent_id", "agent_type"}

ToolInput(raw)   == FirstOf(raw, <<"tool_input", "toolInput">>)
LastMessage(raw) == FirstOf(raw, <<"last_assistant_message", "lastAssistantMessage">>)

\* A text that is always published as a hash, and as a preview if asked for.
Hashed(text, field, hash, preview, env) ==
    IF text.text = "" THEN {}
    ELSE {Piece(hash, field, "hash")}
         \cup IF IncludeText(env) THEN {Piece(preview, field, "redacted")} ELSE {}

HookPayload(raw, env) ==
    LET tool == ToolInput(raw) IN
    {Piece("rawKeys", "input", "keys")}
    \cup {Piece(f, f, "redacted") : f \in CopiedFields \cap DOMAIN raw}
    \cup (IF tool.kind = "object" THEN {Piece("toolInputKeys", "tool_input", "keys")} ELSE {})
    \cup (IF tool.kind = "object" /\ IncludeText(env)
          THEN {Piece("toolInputPreview", "tool_input", "redacted")} ELSE {})
    \cup (IF "command" \in tool.keys /\ ~IncludeText(env)
          THEN {Piece("toolCommandHash", "tool_input", "hash")} ELSE {})
    \cup Hashed(Field(raw, "prompt"), "prompt", "promptHash", "promptPreview", env)
    \cup Hashed(LastMessage(raw), "last_assistant_message", "lastAssistantMessageHash",
                "lastAssistantMessagePreview", env)
    \cup (IF IncludeRaw(env) THEN {Piece("raw", f, "redacted") : f \in DOMAIN raw} ELSE {})

\* The spellings of a field, in the order in which they are looked up.
Spellings ==
    [tool_name  |-> <<"tool_name", "toolName">>, trigger |-> <<"trigger">>,
     source     |-> <<"source">>, agent_type |-> <<"agent_type", "agentType">>]

Given(raw, fields) == {f \in fields : Truthy(FirstOf(raw, Spellings[f]))}

\* The field that is part of the summary of an event, if any.
SummaryFields(event) ==
    CASE event \in {"preToolUse", "permissionRequest", "postToolUse"} -> {"tool_name"}
      [] event \in {"preCompact", "postCompact"} -> {"trigger"}
      [] event = "sessionStart"                  -> {"source"}
      [] OTHER                                   -> {}

\* The summary, which every document of the event carries.
HookSummary(event, raw) ==
    {Piece("summary", f, "redacted") : f \in Given(raw, SummaryFields(event))}

\* Mutant: the preview is taken from the input instead of from the payload.
StreamPreviewOfInput(raw, payload) ==
    {Piece("preview", f, "redacted") :
        f \in {"prompt", "last_assistant_message", "tool_input"} \cap DOMAIN raw}

\* stream_preview: of the previews in the payload, the first; of a tool input, the
\* command, or else the names of its keys.
StreamPreview(raw, payload) ==
    LET at(where) == {p \in payload : p.at = where}
        form      == IF "command" \in ToolInput(raw).keys THEN "redacted" ELSE "keys"
        preview   == IF at("promptPreview") # {} THEN at("promptPreview")
                     ELSE IF at("lastAssistantMessagePreview") # {}
                          THEN at("lastAssistantMessagePreview")
                          ELSE {[p EXCEPT !.form = form] : p \in at("toolInputPreview")}
    IN  {[p EXCEPT !.at = "preview"] : p \in preview}

\* hook_stream_item: the subject and the context are not redacted.  The exit code, a
\* number out of the tool's response, is left out.
StreamItem(raw, payload) ==
    {Piece("subject", f, "plain") : f \in Given(raw, {"tool_name", "trigger", "agent_type"})}
    \cup StreamPreview(raw, payload)

\* normalize_hook_event, for an input and an environment.
NormalizeHookEvent(raw, env) ==
    LET cwd     == CwdFromRaw(raw, env)
        event   == CanonicalHookEvent(raw)
        payload == HookPayload(raw, env)
    IN  [event       |-> event,
         workspaceId |-> WorkspaceIdFor(env, cwd),
         sessionId   |-> SessionIdFrom(raw, env, CwdHash[cwd]),
         state       |-> HookState(event),
         content     |-> HookSummary(event, raw) \cup payload \cup StreamItem(raw, payload)
                         \cup {Piece(f, f, "plain") : f \in {"turn_id", "model"} \cap DOMAIN raw}]

\* topics_for and session_health_topic make segments of segments.
TopicKey(workspaceId, sessionId) ==
    <<TopicSegment(workspaceId, "workspace"), TopicSegment(sessionId, "unknown")>>

\* main() of the naming tool, without arguments but the name.
NamedWorkspace(env) == TopicSegment(WorkspaceIdFor(env, Getcwd(env)), "workspace")
NamedSession(env) == TopicSegment(SessionIdFrom(<< >>, env, CwdHash[Getcwd(env)]), "unknown")

=============================================================================
