---------------------------- MODULE MCPublishing ----------------------------
(***************************************************************************)
(* Two hooks of one session, one of them strict, and two runs of the       *)
(* naming tool for it.  Any two of the four run, in either order or        *)
(* overlapping.  The hooks may have read their event in either spelling,   *)
(* with every field filled, or with little more than the event, or have    *)
(* found no JSON.  The directory is on a symbolic link or not, and its     *)
(* name is so long that its segment is cut at a dash.                      *)
(***************************************************************************)
EXTENDS HookInputs, TLC

CONSTANTS h1, h2, n1, n2

MCHooks      == {h1, h2}
MCNamers     == {n1, n2}
MCStrict     == {h2}
MCWorkspaces == {"w"}
MCSessions   == {"s"}
MCKey        == [p \in {h1, h2, n1, n2} |-> <<"w", "s">>]
MCUnreadKey  == [h \in {h1, h2} |-> <<"w", "s">>]
MCEventOf    == h1 :> "stop" @@ h2 :> "preToolUse"

MCSqueezed    == "Stop" :> "stop" @@ "stop" :> "stop"
                 @@ "PreToolUse" :> "pretooluse" @@ "pre_tool_use" :> "pretooluse"
                 @@ "unknown" :> "unknown"
MCDirectoryId == "dir" :> "long-dir-hash" @@ "real" :> "real-hash"
MCCwdHash     == "dir" :> "hash" @@ "real" :> "other"
MCSegment     == "long-dir-hash" :> "long-dir-" @@ "long-dir-" :> "long-dir"
                 @@ [t \in {"long-dir", "hash", "thread", "real-hash", "other", "demo", "unknown",
                            "workspace"} |-> t]

Full == [f \in CopiedFields \cup {"agentType", "turn_id", "model", "prompt", "transcript_path",
                                  "last_assistant_message"} |-> Text("any")]
        @@ [f \in {"tool_input", "tool_response"} |-> Object({"command", "exit_code"})]

MCRaw ==
    h1 :> {Full @@ [hook_event_name |-> Text("Stop"), session_id |-> Text("thread"),
                    cwd |-> Text("dir")],
           [eventName |-> Text("stop"), lastAssistantMessage |-> Text("any"),
            hook_event_name |-> Text("")]}
    @@
    h2 :> {Full @@ [event |-> Text("PreToolUse"), threadId |-> Text("thread")],
           [hookEventName |-> Text("pre_tool_use"), session_id |-> Text("thread"),
            cwd |-> Text("dir"), toolName |-> Text("any"), toolInput |-> Object({"patch"})]}

MCEnvironments ==
    {[CODEX_THREAD_ID |-> "thread", PWD |-> "dir", getcwd |-> cwd] @@ e :
        cwd \in {"dir", "real"},
        e \in {<< >>,
               [MENAGERIE_INCLUDE_TEXT |-> "true", MENAGERIE_WORKSPACE_ID |-> "demo"],
               [MENAGERIE_INCLUDE_TEXT |-> "", CODEX_PET_INCLUDE_TEXT |-> "1"],
               [MENAGERIE_INCLUDE_RAW |-> "yes", CODEX_PET_WORKSPACE_ID |-> "demo"],
               [MENAGERIE_INCLUDE_TEXT |-> "no", CODEX_PET_INCLUDE_TEXT |-> "1"]}}

=============================================================================
