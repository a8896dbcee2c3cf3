------------------------------ MODULE ToolCalls ------------------------------
(***************************************************************************)
(* The MCP server's calls of remote tools: the discovery of the configured *)
(* servers at startup (lifespan, MCPRemoteToolProvider), the permission    *)
(* and validation boundary (ToolBroker.execute) and the race of a          *)
(* provider's task with the cancellation token, the time limit and the     *)
(* cancellation of the handler itself (ToolBroker._run_provider).          *)
(*                                                                         *)
(* The broker runs on one event loop: a step of a call reaches to its next *)
(* await.  A CancellationToken is cancelled from any thread, and its       *)
(* callbacks are called one by one after its lock was given back.          *)
(***************************************************************************)
EXTENDS Naturals, FiniteSets

CONSTANTS
  Servers,      \* the configured servers that are enabled
  Tools,        \* names of tools a server may list
  Allowed,      \* of each server: allowed_tools
  Supported,    \* the tools whose input schema _schema_is_supported
  Calls,        \* calls of tools
  Tokens,       \* cancellation tokens
  TokenOf,      \* the token of each call
  MaxAborts     \* how often the task of one call's handler is cancelled

ASSUME CallsAssumption ==
  /\ Allowed \in [Servers -> SUBSET Tools] /\ Supported \subseteq Tools
  /\ TokenOf \in [Calls -> Tokens] /\ MaxAborts \in Nat

VARIABLES
  server,       \* of each server: what the startup knows of it
  registry,     \* ToolRegistry: <<server, tool>> pairs
  serving,      \* the application has started
  token,        \* of each token
  call          \* of each call: its coroutine, the provider's task beside it
vars == <<server, registry, serving, token, call>>

\* "definitions" is what the provider has of the server after its discovery.
NewServer == [state |-> "pending", definitions |-> {}]
\* "callbacks" and "firing" are the calls whose callback is registered, and the
\* ones whose callback cancel took and has yet to call.
NewToken == [cancelled |-> FALSE, callbacks |-> {}, firing |-> {}]
\* "heard" is the call's asyncio.Event, "task" the provider's task, "why" the
\* reason the call gives it up for.
NewCall == [at |-> "none", tool |-> <<>>, task |-> "none", heard |-> FALSE, why |-> "none",
            outcome |-> "none", aborts |-> 0]

Init ==
  /\ server = [s \in Servers |-> NewServer] /\ registry = {} /\ serving = FALSE
  /\ token = [t \in Tokens |-> NewToken]
  /\ call = [c \in Calls |-> NewCall]

At(c, at) == call[c].at = at
Token(c) == token[TokenOf[c]]
startup == <<server, registry, serving>>

-----------------------------------------------------------------------------
(* Startup                                                                 *)

\* _fetch_definitions
Definitions(s, listed) == {<<s, t>> : t \in listed \cap Allowed[s] \cap Supported}

\* _discover_server: the server lists its tools within the time limit ...
Discovered(s, listed) ==
  /\ server[s].state = "pending"
  /\ server' = [server EXCEPT ![s] = [state |-> "ready", definitions |-> Definitions(s, listed)]]
  /\ UNCHANGED <<registry, serving, token, call>>

\* ... or it does not, has too many pages or tools, or no credential.
DiscoveryFails(s) ==
  /\ server[s].state = "pending"
  /\ server' = [server EXCEPT ![s].state = "unavailable"]
  /\ UNCHANGED <<registry, serving, token, call>>

\* lifespan: the tools of all servers are registered when the last one is done.
Starts ==
  /\ ~serving /\ \A s \in Servers : server[s].state # "pending"
  /\ registry' = UNION {server[s].definitions : s \in Servers}
  /\ serving' = TRUE
  /\ UNCHANGED <<server, token, call>>

-----------------------------------------------------------------------------
(* CancellationToken                                                       *)

\* cancel, under the lock: the callbacks are taken; a second cancel does nothing.
Cancel(t) ==
  /\ ~token[t].cancelled
  /\ token' = [token EXCEPT ![t] = [cancelled |-> TRUE, callbacks |-> {},
                                    firing |-> token[t].callbacks]]
  /\ UNCHANGED <<startup, call>>

\* One of them is called; the event may belong to a call that is over.
Fires(t, c) ==
  /\ c \in token[t].firing
  /\ token' = [token EXCEPT ![t].firing = @ \ {c}]
  /\ call' = [call EXCEPT ![c].heard = TRUE]
  /\ UNCHANGED startup

\* Mutant of HeardAtOnce: a callback added after the cancellation is dropped.
HeardNever(c) == FALSE
\* add_callback: after the cancellation the callback is called at once.
HeardAtOnce(c) == Token(c).cancelled
CallbackAdded(c) ==
  token' = IF Token(c).cancelled THEN token
           ELSE [token EXCEPT ![TokenOf[c]].callbacks = @ \cup {c}]

\* remove_callback
CallbackRemoved(c) == token' = [token EXCEPT ![TokenOf[c]].callbacks = @ \ {c}]

-----------------------------------------------------------------------------
(* A call: mcp_call_tool, execute and _run_provider                        *)

\* A tool that is not registered, a missing permission (the server gives the
\* client every permission there is) or arguments the schema refuses: no call.
Refused(c) ==
  /\ serving /\ At(c, "none")
  /\ call' = [call EXCEPT ![c].at = "ended", ![c].outcome = "refused"]
  /\ UNCHANGED <<startup, token>>

\* raise_if_cancelled, while other threads may cancel the token.
Begins(c, tool) ==
  /\ serving /\ At(c, "none") /\ tool \in registry
  /\ call' = [call EXCEPT ![c] =
       IF Token(c).cancelled THEN [@ EXCEPT !.at = "ended", !.outcome = "cancelled"]
                             ELSE [@ EXCEPT !.at = "begun", !.tool = tool]]
  /\ UNCHANGED <<startup, token>>

\* The provider's task is made and the callback added.
Listens(c) ==
  /\ At(c, "begun")
  /\ CallbackAdded(c)
  /\ call' = [call EXCEPT ![c].at = "waiting", ![c].task = "running",
                          ![c].heard = HeardAtOnce(c)]
  /\ UNCHANGED startup

\* The session with the remote server: its result, or an error.
Provides(c, how) ==
  /\ call[c].task = "running"
  /\ call' = [call EXCEPT ![c].task = how]
  /\ UNCHANGED <<startup, token>>

\* The cancelled task has ended.
TaskEnds(c) ==
  /\ call[c].task = "cancelling"
  /\ call' = [call EXCEPT ![c].task = "cancelled"]
  /\ UNCHANGED <<startup, token>>

Over(c) == call[c].task \in {"done", "failed", "cancelled"}

\* asyncio.wait returns: a result is preferred, then the cancellation.  The
\* content of a result may be refused for its size.
Takes(c) ==
  /\ At(c, "waiting") /\ Over(c)
  /\ \E outcome \in IF call[c].task = "done" THEN {"success", "failure"} ELSE {"failure"} :
       call' = [call EXCEPT ![c].at = "closing", ![c].outcome = outcome]
  /\ UNCHANGED <<startup, token>>

GivesUp(c, why) ==
  /\ At(c, "waiting") /\ ~Over(c)
  /\ call' = [call EXCEPT ![c].at = "notifying", ![c].why = why]
  /\ UNCHANGED <<startup, token>>

HearsCancel(c) == call[c].heard /\ GivesUp(c, "cancelled")

\* Mutant of Limited: a call has no time limit.
LimitedNever(c) == FALSE
\* The timeout_ms of the tool's definition.
Limited(c) == ~call[c].heard
TimesOut(c) == Limited(c) /\ GivesUp(c, "timeout")

\* _notify_cancel has returned, whatever the provider did: the task is cancelled.
Notified(c) ==
  /\ At(c, "notifying")
  /\ call' = [call EXCEPT ![c].at = "collecting",
                          ![c].task = IF @ = "running" THEN "cancelling" ELSE @]
  /\ UNCHANGED <<startup, token>>

\* Mutant of Gathered: the end of the cancelled task is not awaited.
GatheredNever(c) == TRUE
\* gather(task, return_exceptions=True)
Gathered(c) == Over(c)
Collects(c) ==
  /\ At(c, "collecting") /\ Gathered(c)
  /\ call' = [call EXCEPT ![c].at = "closing", ![c].outcome = call[c].why]
  /\ UNCHANGED <<startup, token>>

\* The finally clause awaits the end of the waiter of the event, then removes
\* the callback.
Closes(c) ==
  /\ At(c, "closing")
  /\ CallbackRemoved(c)
  /\ call' = [call EXCEPT ![c].at = "ended"]
  /\ UNCHANGED startup

\* The task of the handler is cancelled at an await: the except clause gives the
\* provider's task up, in place of what was going on.  During the except clause
\* that ends it where it is, during the finally clause the callback stays.
Aborted(r) ==
  CASE r.at = "closing" -> [r EXCEPT !.at = "ended", !.outcome = "aborted"]
    [] r.at # "closing" /\ r.why = "aborted" -> [r EXCEPT !.at = "closing", !.outcome = "aborted"]
    [] OTHER -> [r EXCEPT !.at = "notifying", !.why = "aborted"]

Aborts(c) ==
  /\ call[c].at \in {"waiting", "notifying", "collecting", "closing"}
  /\ call[c].aborts < MaxAborts
  /\ call' = [call EXCEPT ![c] = [Aborted(call[c]) EXCEPT !.aborts = call[c].aborts + 1]]
  /\ UNCHANGED <<startup, token>>

Step(c) ==
  \/ Listens(c) \/ Takes(c) \/ HearsCancel(c) \/ TimesOut(c) \/ Notified(c) \/ Collects(c)
  \/ Closes(c)

Next ==
  \/ \E s \in Servers : DiscoveryFails(s) \/ \E listed \in SUBSET Tools : Discovered(s, listed)
  \/ Starts
  \/ \E t \in Tokens : Cancel(t) \/ \E c \in Calls : Fires(t, c)
  \/ \E c \in Calls : \/ Refused(c) \/ \E tool \in registry : Begins(c, tool)
                      \/ Step(c) \/ Aborts(c) \/ TaskEnds(c)
                      \/ \E how \in {"done", "failed"} : Provides(c, how)

Spec == Init /\ [][Next]_vars

\* A coroutine goes on when what it awaits is there, its timer expires, a thread
\* finishes its cancel, and a provider's task ends once it is cancelled.
FairSpec ==
  /\ Spec
  /\ \A c \in Calls : WF_vars(Step(c)) /\ WF_vars(TaskEnds(c))
  /\ \A t \in Tokens, c \in Calls : WF_vars(Fires(t, c))

-----------------------------------------------------------------------------
(* Properties                                                              *)

\* A call that has returned has no task of its provider running, unless its
\* handler was cancelled again while it was giving the task up
\* (tool_broker.py, the three ways out of _run_provider).
ProviderEnded ==
  \A c \in Calls : At(c, "ended") /\ call[c].aborts < 2
                     => call[c].task \notin {"running", "cancelling"}

\* A cancellation between any two steps reaches every call that waits with the
\* token, and a token keeps no callback of a call that is over, unless its
\* handler was cancelled (cancellation.py, cancel and add_callback).
CancelReaches ==
  \A c \in Calls :
    /\ At(c, "waiting") => IF Token(c).cancelled THEN call[c].heard \/ c \in Token(c).firing
                                                 ELSE c \in Token(c).callbacks
    /\ At(c, "ended") /\ call[c].aborts = 0 => c \notin Token(c).callbacks

\* Every call that has begun returns, whatever the remote server does and whoever
\* is cancelled meanwhile (tool_broker.py, _run_provider).
CallsEnd == \A c \in Calls : At(c, "begun") ~> At(c, "ended")
=============================================================================
