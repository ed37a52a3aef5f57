----------------------------- MODULE HookInputs -----------------------------
(***************************************************************************)
(* The processes of Publishing together with what they read: a hook its    *)
(* raw input, and every process the environment Codex has started it in.   *)
(* Codex names the thread to the processes it starts in CODEX_THREAD_ID    *)
(* and to its hooks in the raw input, and all of them run in the directory *)
(* of the session.                                                         *)
(***************************************************************************)
EXTENDS Publishing, Normalization

CONSTANTS
    Raw,            \* hook -> the raw inputs it may have read
    Environments,   \* the environments the processes may have been started in
    Directory       \* the path Codex gives for the directory of the session

\* What a hook goes on with after an input that is no JSON, or no object.
Unread == {[hook_event_name |-> Text("unknown")], [value |-> Text("any")]}

ASSUME HookInputsAssumption ==
    /\ \A h \in Hooks : \A raw \in Raw[h] : CanonicalHookEvent(raw) = EventOf[h]
    /\ \A raw \in Unread : CanonicalHookEvent(raw) = "unknown"

Inputs == [h \in Hooks |-> Raw[h] \cup Unread]

\* Codex names the same thread to all of them, none is configured, and all run in the
\* directory of the session.
ASSUME OneSession ==
    \A h \in Hooks : \A raw \in Inputs[h] : \A env \in Environments :
        /\ Thread(env) # "" /\ GivenSession(raw) \in {"", Thread(env)}
        /\ ConfiguredSession(env) = ""
        /\ CwdFromRaw(raw, env) = Directory
        /\ {Thread(env), WorkspaceName(env, Directory)} \subseteq DOMAIN Segment

\* What is cut after 96 characters may lose dashes at its end the next time, but no
\* more after that; what a segment falls back to is a segment.
ASSUME SegmentSettles ==
    /\ \A default \in {"workspace", "unknown"} : Segment[default] = default
    /\ \A t \in DOMAIN Segment, default \in {"workspace", "unknown"} :
           LET segment(x) == TopicSegment(x, default)
           IN  segment(segment(segment(t))) = segment(segment(t))

-----------------------------------------------------------------------------
(* Properties.                                                             *)

PrivateFields == {"prompt", "tool_input", "toolInput", "last_assistant_message",
                  "lastAssistantMessage", "tool_response", "transcript_path"}

\* Nothing but a hash or the names of keys by default; redacted previews of the
\* prompt, the tool input and the last message with MENAGERIE_INCLUDE_TEXT; all of
\* the input, redacted, with MENAGERIE_INCLUDE_RAW.
Permitted(piece, env) ==
    \/ piece.form \in {"hash", "keys"}
    \/ piece.form = "redacted" /\ IncludeRaw(env)
    \/ /\ piece.form = "redacted" /\ IncludeText(env)
       /\ piece.of \notin {"tool_response", "transcript_path"}

Disclosing ==
    {h \in Hooks : \E raw \in Inputs[h], env \in Environments :
        \E piece \in NormalizeHookEvent(raw, env).content :
            piece.of \in PrivateFields /\ ~Permitted(piece, env)}

\* No prompt, command, assistant text or transcript path gets to the subscribers
\* unless the flags ask for it, by whichever way through the payload, the summary or
\* the stream item, and none of them ever unredacted.
PrivateByDefault == announced \cap Disclosing = {}

\* The directory of the session has the same workspace by the path that Codex gives
\* and by the one without symbolic links: it is on no link, or the id is configured.
SamePlace(env) == WorkspaceName(env, Getcwd(env)) = WorkspaceName(env, Directory)

\* A name given in the same environment would go to another session than the event of
\* this input.  The document ids are compared where the session id is not cut in the
\* middle, at a dash that the next topic_segment strips.
Elsewhere(raw, env) ==
    LET event  == NormalizeHookEvent(raw, env)
        stable == Segment[event.sessionId] = event.sessionId
    IN  \/ TopicKey(event.workspaceId, event.sessionId)
             # TopicKey(NamedWorkspace(env), NamedSession(env))
        \/ stable /\ event.sessionId # NamedSession(env)

Misnamed ==
    {h \in Hooks : \E raw \in Inputs[h], env \in Environments :
        SamePlace(env) /\ Elsewhere(raw, env)}

\* A name given from inside Codex, with nothing but the name, goes to the session of
\* the hooks, although these learn the session from their input, if they can read it,
\* and the naming tool from its environment, and although a workspace id goes through
\* topic_segment twice on one way and three times on the other.  Not so by a symbolic
\* link and without a configured workspace: the naming tool then takes os.getcwd(),
\* the hooks the path they are given, and these are two workspaces.
NameReachesSession ==
    \A h \in announced, n \in Namers :
        applied[n] > 0 /\ Key[n] = Key[h] => h \notin Misnamed

=============================================================================
