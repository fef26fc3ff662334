------------------------------- MODULE McpServer -------------------------------
(***************************************************************************)
(* The process of the MCP server: it loads the plugins it is configured    *)
(* with, initialises them, serves the createPost tool, whose calls run     *)
(* concurrently and dispatch hooks, and destroys the plugins when it is    *)
(* told to stop.  A handler and a destroy() are awaited, and everything    *)
(* else goes on meanwhile.                                                 *)
(***************************************************************************)
EXTENDS Naturals, SequencesExt, Lists

CONSTANTS
    Plugins,           \* plugin ids
    Paths,             \* EARTHROPY_PLUGINS: the plugin each module exports
    HooksOf,           \* the hooks each plugin has a handler for
    Calls              \* calls of createPost, and the posts they make

\* Of the seven hook points, the two that something dispatches.
HookName == {"beforePublish", "afterPublish"}
Signals == {"SIGINT", "SIGTERM"}

ASSUME McpAssumption ==
    /\ Paths \in Seq(Plugins)
    /\ HooksOf \in [Plugins -> SUBSET HookName]

VARIABLES
    phase,             \* of the process
    cursor,            \* paths loaded, then records initialised
    records,           \* plugin ids in the order of the registry's map
    plugin,            \* PluginRecord.state
    connected,         \* plugins between a successful init() and destroy()
    handlers,          \* the hook bus: per hook, the plugins registered
    call,              \* per call of the tool: its step, the handlers to come
    post,              \* status of its post
    told,              \* posts an afterPublish handler has announced (history)
    shutdown           \* per signal: its step, the records left to destroy

mcpVars == <<phase, cursor, records, plugin, connected, handlers, call, post,
             told, shutdown>>

Phase == {"load", "init", "ready", "exited"}
PluginState == {"unknown", "registered", "initialised", "failed", "destroyed"}
PostStatus == {"absent", "pending_ai", "published", "rejected"}

McpInit ==
    /\ phase = "load"
    /\ cursor = 0
    /\ records = <<>>
    /\ plugin = [p \in Plugins |-> "unknown"]
    /\ connected = {}
    /\ handlers = [h \in HookName |-> <<>>]
    /\ call = [c \in Calls |-> [step |-> "idle", pending |-> <<>>]]
    /\ post = [c \in Calls |-> "absent"]
    /\ told = {}
    /\ shutdown = [s \in Signals |-> [step |-> "none", todo |-> <<>>]]

-------------------------------------------------------------------------------
(***************************************************************************)
(* Start: nothing else runs, no signal is caught yet.                      *)
(***************************************************************************)

\* register: the second plugin of an id is ignored.
Register(p) ==
    IF plugin[p] = "unknown"
    THEN /\ records' = Append(records, p)
         /\ plugin' = [plugin EXCEPT ![p] = "registered"]
    ELSE UNCHANGED <<records, plugin>>

\* A module that cannot be imported is logged and left out.
LoadPlugin ==
    /\ phase = "load"
    /\ cursor < Len(Paths)
    /\ cursor' = cursor + 1
    /\ Register(Paths[cursor + 1]) \/ UNCHANGED <<records, plugin>>
    /\ UNCHANGED <<phase, connected, handlers, call, post, told, shutdown>>

StartInit ==
    /\ phase = "load"
    /\ cursor = Len(Paths)
    /\ phase' = "init"
    /\ cursor' = 0
    /\ UNCHANGED <<records, plugin, connected, handlers, call, post, told, shutdown>>

\* _wireHooks.
Wire(p) ==
    handlers' = [h \in HookName |->
        IF h \in HooksOf[p] THEN Append(handlers[h], p) ELSE handlers[h]]

\* initPlugin, for the next record: init() may throw.
InitPlugin ==
    /\ phase = "init"
    /\ cursor < Len(records)
    /\ cursor' = cursor + 1
    /\ LET p == records[cursor + 1]
       IN  \/ /\ plugin' = [plugin EXCEPT ![p] = "initialised"]
              /\ connected' = connected \union {p}
              /\ Wire(p)
           \/ /\ plugin' = [plugin EXCEPT ![p] = "failed"]
              /\ UNCHANGED <<connected, handlers>>
    /\ UNCHANGED <<phase, records, call, post, told, shutdown>>

Connect ==
    /\ phase = "init"
    /\ cursor = Len(records)
    /\ phase' = "ready"
    /\ UNCHANGED <<cursor, records, plugin, connected, handlers, call, post, told,
                   shutdown>>

-------------------------------------------------------------------------------
(***************************************************************************)
(* The createPost tool.  A dispatch goes through the handlers that were    *)
(* registered when it began.                                               *)
(***************************************************************************)

CallTool(c) ==
    /\ phase = "ready"
    /\ call[c].step = "idle"
    /\ call' = [call EXCEPT ![c] =
          [step |-> "before", pending |-> handlers["beforePublish"]]]
    /\ UNCHANGED <<phase, cursor, records, plugin, connected, handlers, post, told,
                   shutdown>>

\* One handler; if it throws, the next one is called all the same.  The webhook
\* plugin sends nothing once it has been destroyed.
RunHandler(c) ==
    /\ phase = "ready"
    /\ call[c].pending # <<>>
    /\ told' = IF call[c].step = "after" /\ Head(call[c].pending) \in connected
               THEN told \union {c} ELSE told
    /\ call' = [call EXCEPT ![c].pending = Tail(@)]
    /\ UNCHANGED <<phase, cursor, records, plugin, connected, handlers, post, shutdown>>

\* createPost of the posts package: the row waits for its moderation.  Then
\* the tool dispatches afterPublish.
InsertPost(c) ==
    /\ phase = "ready"
    /\ call[c].step = "before"
    /\ call[c].pending = <<>>
    /\ post' = [post EXCEPT ![c] = "pending_ai"]
    /\ call' = [call EXCEPT ![c] =
          [step |-> "after", pending |-> handlers["afterPublish"]]]
    /\ UNCHANGED <<phase, cursor, records, plugin, connected, handlers, told, shutdown>>

\* It threw: the tool answers with an error.
InsertFails(c) ==
    /\ phase = "ready"
    /\ call[c].step = "before"
    /\ call[c].pending = <<>>
    /\ call' = [call EXCEPT ![c].step = "answered"]
    /\ UNCHANGED <<phase, cursor, records, plugin, connected, handlers, post, told,
                   shutdown>>

Answer(c) ==
    /\ phase = "ready"
    /\ call[c].step = "after"
    /\ call[c].pending = <<>>
    /\ call' = [call EXCEPT ![c].step = "answered"]
    /\ UNCHANGED <<phase, cursor, records, plugin, connected, handlers, post, told,
                   shutdown>>

\* The worker process rules on the post in its own time.
Moderate(c) ==
    /\ post[c] = "pending_ai"
    /\ \E s \in {"published", "rejected"} : post' = [post EXCEPT ![c] = s]
    /\ UNCHANGED <<phase, cursor, records, plugin, connected, handlers, call, told,
                   shutdown>>

-------------------------------------------------------------------------------
(***************************************************************************)
(* Stop.  Each signal runs destroyAll, one beside the other.               *)
(***************************************************************************)

DestroyOrder == Reverse(records)

Signal(s) ==
    /\ phase = "ready"
    /\ shutdown[s].step = "none"
    /\ shutdown' = [shutdown EXCEPT ![s] =
          [step |-> "destroying", todo |-> DestroyOrder]]
    /\ UNCHANGED <<phase, cursor, records, plugin, connected, handlers, call, post,
                   told>>

\* hooks.unregisterPlugin, which makes new lists: a dispatch keeps its own.
Unwire(p) == handlers' = [h \in HookName |-> Without(handlers[h], p)]

\* Mutant: only the initialised are destroyed, as unregister does it.
DestroyedAlreadyOrIdle(p) == plugin[p] # "initialised"

DestroyedAlready(p) == plugin[p] = "destroyed"

SkipDestroyed(s) ==
    /\ phase = "ready"
    /\ shutdown[s].step = "destroying"
    /\ shutdown[s].todo # <<>>
    /\ DestroyedAlready(Head(shutdown[s].todo))
    /\ Unwire(Head(shutdown[s].todo))
    /\ shutdown' = [shutdown EXCEPT ![s].todo = Tail(@)]
    /\ UNCHANGED <<phase, cursor, records, plugin, connected, call, post, told>>

BeginDestroy(s) ==
    /\ phase = "ready"
    /\ shutdown[s].step = "destroying"
    /\ shutdown[s].todo # <<>>
    /\ ~DestroyedAlready(Head(shutdown[s].todo))
    /\ connected' = connected \ {Head(shutdown[s].todo)}
    /\ shutdown' = [shutdown EXCEPT ![s].step = "awaiting"]
    /\ UNCHANGED <<phase, cursor, records, plugin, handlers, call, post, told>>

\* destroy() has returned or thrown: the state is the same.
EndDestroy(s) ==
    /\ phase = "ready"
    /\ shutdown[s].step = "awaiting"
    /\ LET p == Head(shutdown[s].todo)
       IN  /\ plugin' = [plugin EXCEPT ![p] = "destroyed"]
           /\ Unwire(p)
    /\ shutdown' = [shutdown EXCEPT ![s] =
          [step |-> "destroying", todo |-> Tail(@.todo)]]
    /\ UNCHANGED <<phase, cursor, records, connected, call, post, told>>

Exit(s) ==
    /\ phase = "ready"
    /\ shutdown[s].step = "destroying"
    /\ shutdown[s].todo = <<>>
    /\ phase' = "exited"
    /\ UNCHANGED <<cursor, records, plugin, connected, handlers, call, post, told,
                   shutdown>>

-------------------------------------------------------------------------------
McpNext ==
    \/ LoadPlugin
    \/ StartInit
    \/ InitPlugin
    \/ Connect
    \/ \E c \in Calls :
          \/ CallTool(c)
          \/ RunHandler(c)
          \/ InsertPost(c)
          \/ InsertFails(c)
          \/ Answer(c)
          \/ Moderate(c)
    \/ \E s \in Signals :
          \/ Signal(s)
          \/ SkipDestroyed(s)
          \/ BeginDestroy(s)
          \/ EndDestroy(s)
          \/ Exit(s)

McpSpec == McpInit /\ [][McpNext]_mcpVars

-------------------------------------------------------------------------------
(***************************************************************************)
(* Properties.                                                             *)
(***************************************************************************)

\* Types.
McpTypeOK ==
    /\ phase \in Phase
    /\ cursor \in Nat
    /\ records \in Seq(Plugins)
    /\ plugin \in [Plugins -> PluginState]
    /\ connected \subseteq Plugins
    /\ handlers \in [HookName -> Seq(Plugins)]
    /\ call \in [Calls -> [step : {"idle", "before", "after", "answered"},
                           pending : Seq(Plugins)]]
    /\ post \in [Calls -> PostStatus]
    /\ told \subseteq Calls
    /\ shutdown \in [Signals -> [step : {"none", "destroying", "awaiting"},
                                 todo : Seq(Plugins)]]

\* However ids repeat in the configuration and inits fail, the bus holds each
\* plugin once, and only plugins whose init() succeeded and whose destruction
\* has not completed: a new dispatch reaches no other.
HandlersAreInitialised ==
    \A h \in HookName :
        /\ IsInjective(handlers[h])
        /\ \A i \in DOMAIN handlers[h] : plugin[handlers[h][i]] = "initialised"

\* The process exits with every plugin destroyed, those that failed to start
\* among them, although a second signal may overtake the first.
ExitIsClean ==
    phase = "exited" =>
        \A i \in DOMAIN records : plugin[records[i]] = "destroyed"

\* No plugin is gone before those registered after it, also when two signals
\* destroy side by side.
DestroyedInReverse ==
    \A i, j \in DOMAIN records :
        i < j /\ plugin[records[i]] = "destroyed" =>
            plugin[records[j]] = "destroyed"

\* The life of a plugin, in all its parts: hooks reach initialised plugins only,
\* plugins go in the reverse order of their registration, and none is left behind.
PluginsAreOrderly ==
    /\ HandlersAreInitialised
    /\ DestroyedInReverse
    /\ ExitIsClean

\* docs/plugin-sdk.md, the hook points: "afterPublish: After a post is published".
AnnouncedIsPublished ==
    [][\A c \in Calls : c \in told' \ told => post[c] = "published"]_mcpVars
===============================================================================
