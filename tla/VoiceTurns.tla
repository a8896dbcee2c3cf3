----------------------------- MODULE VoiceTurns -----------------------------
(***************************************************************************)
(* The realtime voice runtime (voice/runtime.py) under the websocket loop  *)
(* that feeds it (voice/app.py).  Each turn of the user is answered by a   *)
(* task of its own, while the loop goes on receiving: new speech cancels   *)
(* the answer (barge-in).  Two tasks share the session, its history and    *)
(* the websocket, and suspend at every await.                              *)
(*                                                                         *)
(* Turn t stands for the t-th generation; 0 stands for None.  A response   *)
(* is spoken in chunks, each a text delta and then an audio delta.  The    *)
(* events of a transcript are one emission.                                *)
(***************************************************************************)
EXTENDS Naturals, Sequences

CONSTANTS MaxTurns, MaxChunks  \* bounds of an instance

ASSUME BoundsAssumption == MaxTurns \in Nat \ {0} /\ MaxChunks \in Nat

Turns == 1 .. MaxTurns
Loop == MaxTurns + 1           \* the receive loop, as a holder of the lock

VARIABLES
  speaking,       \* VoiceTurnDetector._active
  started,        \* the turns started so far
  active,         \* the turn whose generation is current
  response_task,  \* the turn whose task is tracked
  response_state, \* the turn whose response is tracked
  send_lock,      \* 0, Loop, or the turn that sends
  history,        \* <<role, turn, chunks>> of each entry
  turn,           \* [Turns -> what the task and the response of a turn hold]
  client,         \* [Turns -> what the client was sent of a turn]
  told,           \* the turns the client knows to be interrupted
  loop,           \* the receive loop: where it is and what it captured
  connected,
  registered      \* the session holds a place in the VoiceSessionRegistry
sessionVars == <<active, response_task, response_state, history>>
linkVars == <<connected, registered>>
vars == <<speaking, started, sessionVars, send_lock, turn, client, told, loop, linkVars>>

NewTurn == [at |-> "none", cancelled |-> FALSE, audio |-> "none", generated |-> 0,
            emitted |-> 0, completed |-> FALSE, recorded |-> FALSE, evaluation |-> "none"]
NewClient == [text |-> 0, audio |-> 0, events |-> {}]
Idle == [at |-> "idle", task |-> 0, response |-> 0, invalidated |-> FALSE, after |-> "idle",
         closing |-> FALSE]

Init ==
  /\ speaking = FALSE
  /\ started = 0
  /\ active = 0 /\ response_task = 0 /\ response_state = 0
  /\ send_lock = 0
  /\ history = <<>>
  /\ turn = [t \in Turns |-> NewTurn]
  /\ client = [t \in Turns |-> NewClient]
  /\ told = {}
  /\ loop = Idle
  /\ connected = TRUE /\ registered = TRUE

-----------------------------------------------------------------------------
(* The task of a turn: _run_turn                                           *)

\* "await self._emit(...)": the task waits for _send_lock, then for the send.
Emitting == {"transcript", "created", "text", "done", "error"}
\* The emissions that carry the generation to check under the lock.
Guarded == {"transcript", "created", "text"}

At(t, state) == turn' = [turn EXCEPT ![t].at = state]

Untracked == response_task' = 0 /\ response_state' = 0

\* The finally clause.
EndsWith(t, record) ==
  /\ turn' = [turn EXCEPT ![t] = [record EXCEPT !.at = "ended"]]
  /\ IF response_task = t
       THEN /\ Untracked
            /\ active' = IF active = t THEN 0 ELSE active
       ELSE UNCHANGED <<response_task, response_state, active>>
Ends(t) == EndsWith(t, turn[t])

\* Mutant of Evaluated: a later evaluation of a turn replaces the earlier one.
EvaluatedAgain(record, kind) == [record EXCEPT !.evaluation = kind]
\* _enqueue_evaluation: the first evaluation of a turn is the only one.
Evaluated(record, kind) ==
  IF record.evaluation = "none" THEN [record EXCEPT !.evaluation = kind] ELSE record

\* Between two awaits of the loop no other task runs.
LoopAwaits == loop.at \notin {"close", "release", "cancel", "record", "evaluate", "start"}

Runs(t, state) == LoopAwaits /\ turn[t].at = state /\ ~turn[t].cancelled

Transcribed(t) ==
  /\ Runs(t, "transcribe")
  /\ IF active = t THEN At(t, "transcript") /\ UNCHANGED sessionVars
                   ELSE Ends(t) /\ UNCHANGED history
  /\ UNCHANGED <<speaking, started, send_lock, client, told, loop, linkVars>>

\* Mutant of MaySend: the generation is checked before the wait for the lock.
MaySendUnchecked(t) == t \in Turns
\* generation_is_current, under _send_lock.
MaySend(t) == active = t

TakesLock(t) ==
  /\ \E state \in Emitting : Runs(t, state)
  /\ send_lock = 0
  /\ IF turn[t].at \in Guarded /\ ~MaySend(t)
       THEN Ends(t) /\ UNCHANGED <<send_lock, history>>
       ELSE send_lock' = t /\ UNCHANGED <<turn, sessionVars>>
  /\ UNCHANGED <<speaking, started, client, told, loop, linkVars>>

Told(t, event) == client' = [client EXCEPT ![t].events = @ \cup {event}]
\* What the client has of a turn once the event in flight reaches it.
Reaches(t, event) ==
  IF event = "text" THEN client' = [client EXCEPT ![t].text = @ + 1]
  ELSE IF event = "transcript" THEN UNCHANGED client
  ELSE Told(t, event)

Sends(t, state) ==
  /\ Runs(t, state)
  /\ send_lock = t
  /\ connected
  /\ send_lock' = 0
  /\ Reaches(t, state)
  /\ UNCHANGED <<speaking, started, told, loop, linkVars>>

\* An empty transcript ends the turn; otherwise its text joins the history and
\* the response begins.
SendsTranscript(t) ==
  /\ Sends(t, "transcript")
  /\ \/ /\ active # t
        /\ Ends(t)
        /\ UNCHANGED history
     \/ /\ active = t
        /\ EndsWith(t, Evaluated(turn[t], "empty"))
        /\ UNCHANGED history
     \/ /\ active = t
        /\ At(t, "created")
        /\ history' = Append(history, <<"user", t, 1>>)
        /\ response_state' = t
        /\ UNCHANGED <<active, response_task>>

SendsCreated(t) ==
  /\ Sends(t, "created")
  /\ At(t, "generate")
  /\ UNCHANGED sessionVars

\* The next delta of the model, or the end of its stream.
Generates(t) ==
  /\ Runs(t, "generate")
  /\ \/ active # t /\ Ends(t) /\ UNCHANGED history
     \/ /\ active = t
        /\ turn[t].generated < MaxChunks
        /\ turn' = [turn EXCEPT ![t].at = "text", ![t].generated = @ + 1]
        /\ UNCHANGED sessionVars
     \/ /\ active = t
        /\ turn' = [turn EXCEPT ![t].at = "done", ![t].completed = TRUE]
        /\ history' = IF turn[t].generated = 0
                        THEN history
                        ELSE Append(history, <<"assistant", t, turn[t].generated>>)
        /\ UNCHANGED <<active, response_task, response_state>>
  /\ UNCHANGED <<speaking, started, send_lock, client, told, loop, linkVars>>

SendsText(t) ==
  /\ Sends(t, "text")
  /\ At(t, "synthesize")
  /\ UNCHANGED sessionVars

\* speak: the audio is sent by a task of its own, shielded from cancellation.
Synthesized(t) ==
  /\ Runs(t, "synthesize")
  /\ turn' = IF active = t
               THEN [turn EXCEPT ![t].at = "audio", ![t].audio = "queued"]
               ELSE [turn EXCEPT ![t].at = "generate"]
  /\ UNCHANGED <<speaking, started, sessionVars, send_lock, client, told, loop, linkVars>>

AudioTakesLock(t) ==
  /\ LoopAwaits
  /\ turn[t].audio = "queued"
  /\ send_lock = 0
  /\ IF MaySend(t)
       THEN send_lock' = t /\ turn' = [turn EXCEPT ![t].audio = "sending"]
       ELSE turn' = [turn EXCEPT ![t].audio = "skipped"] /\ UNCHANGED send_lock
  /\ UNCHANGED <<speaking, started, sessionVars, client, told, loop, linkVars>>

AudioSent(t) ==
  /\ LoopAwaits
  /\ turn[t].audio = "sending"
  /\ send_lock' = 0
  /\ turn' = [turn EXCEPT ![t].audio = IF connected THEN "sent" ELSE "failed"]
  /\ client' = IF connected THEN [client EXCEPT ![t].audio = @ + 1] ELSE client
  /\ UNCHANGED <<speaking, started, sessionVars, told, loop, linkVars>>

AudioSettled(t) == turn[t].audio \in {"sent", "skipped", "failed"}

\* record_audio_delivery
Delivered(record) ==
  [record EXCEPT !.emitted = IF record.audio = "sent" THEN @ + 1 ELSE @, !.audio = "none"]

\* An exception of a provider or of a send: reported while the turn is current.
Raises(t) ==
  IF active = t
    THEN turn' = [turn EXCEPT ![t].at = "error", ![t].audio = "none"]
         /\ UNCHANGED <<active, response_task, response_state>>
    ELSE Ends(t)

Speaks(t) ==
  /\ Runs(t, "audio")
  /\ AudioSettled(t)
  /\ IF turn[t].audio = "failed"
       THEN Raises(t)
       ELSE /\ turn' = [turn EXCEPT ![t] = [Delivered(@) EXCEPT !.at = "generate"]]
            /\ UNCHANGED <<active, response_task, response_state>>
  /\ UNCHANGED <<speaking, started, send_lock, history, client, told, loop, linkVars>>

\* "response.done" and what follows it: finish_generation, the evaluation.
SendsDone(t) ==
  /\ Sends(t, "done")
  /\ EndsWith(t, Evaluated(turn[t], "completed"))
  /\ UNCHANGED history

SendsError(t) ==
  /\ Sends(t, "error")
  /\ EndsWith(t, Evaluated(turn[t], "failed"))
  /\ UNCHANGED history

ProviderFails(t) ==
  /\ \E state \in {"transcribe", "generate", "synthesize"} : Runs(t, state)
  /\ Raises(t)
  /\ UNCHANGED <<speaking, started, send_lock, history, client, told, loop, linkVars>>

\* The websocket is gone: the send raises, and so does the report of that.
SendFails(t) ==
  /\ \E state \in Emitting : Runs(t, state)
  /\ send_lock = t
  /\ ~connected
  /\ send_lock' = 0
  /\ IF turn[t].at = "error" THEN Ends(t) ELSE Raises(t)
  /\ UNCHANGED <<speaking, started, history, client, told, loop, linkVars>>

\* Mutant of Settled: the frame in flight is not accounted for.
SettledUncounted(record) == [record EXCEPT !.audio = "none"]
\* speak waits for the frame in flight, and accounts for it, before it gives way.
Settled(record) == Delivered(record)

\* Mutant of LockAfter: the lock stays held by the cancelled task.
LockKept(t) == send_lock
\* "async with" releases the lock on any way out.
LockAfter(t) == IF send_lock = t THEN 0 ELSE send_lock

\* CancelledError: an event that was being sent may have reached the client.
Cancelled(t) ==
  /\ LoopAwaits
  /\ turn[t].cancelled
  /\ turn[t].at \notin {"none", "ended"}
  /\ turn[t].at = "audio" => AudioSettled(t)
  /\ EndsWith(t, Settled(turn[t]))
  /\ send_lock' = LockAfter(t)
  /\ \/ UNCHANGED client
     \/ send_lock = t /\ connected /\ turn[t].at \in Emitting /\ Reaches(t, turn[t].at)
  /\ UNCHANGED <<speaking, started, history, told, loop, linkVars>>

TurnSteps(t) ==
  \/ Transcribed(t) \/ TakesLock(t) \/ SendsTranscript(t) \/ SendsCreated(t)
  \/ Generates(t) \/ SendsText(t) \/ Synthesized(t) \/ Speaks(t)
  \/ SendsDone(t) \/ SendsError(t) \/ ProviderFails(t) \/ SendFails(t) \/ Cancelled(t)
AudioSteps(t) == AudioTakesLock(t) \/ AudioSent(t)

-----------------------------------------------------------------------------
(* The receive loop: handle_turn_event, cancel_response, close             *)

\* Mutant of Committed: a response is open until its final event is sent.
CommittedLate(r) == r # 0 /\ turn[r].at = "ended"
\* Completion has been committed: its final event is in flight.
Committed(r) == r # 0 /\ turn[r].completed

\* speech_started: the generation is invalidated before anything is awaited.
SpeechStarted ==
  /\ loop.at = "idle"
  /\ ~speaking /\ speaking' = TRUE
  /\ started < MaxTurns
  /\ LET barge == response_task # 0 /\ ~Committed(response_state)
     IN /\ active' = IF barge THEN 0 ELSE active
        /\ loop' = [loop EXCEPT !.at = "mark", !.task = response_task,
                                !.response = response_state, !.invalidated = barge]
  /\ UNCHANGED <<started, response_task, response_state, send_lock, history, turn, client,
                 told, linkVars>>

\* speech_stopped, by silence or by input_audio_buffer.commit.
SpeechStopped ==
  /\ loop.at = "idle"
  /\ speaking /\ speaking' = FALSE
  /\ loop' = [loop EXCEPT !.at = "stop"]
  /\ UNCHANGED <<started, sessionVars, send_lock, turn, client, told, linkVars>>

\* The turn exceeds its audio limit and is discarded.
Overflows ==
  /\ loop.at = "idle"
  /\ speaking /\ speaking' = FALSE
  /\ UNCHANGED <<started, sessionVars, send_lock, turn, client, told, loop, linkVars>>

\* A call of cancel_response outside a turn event captures what is tracked now.
Capture(after) ==
  loop' = [loop EXCEPT !.at = "cancel", !.task = response_task, !.response = response_state,
                       !.invalidated = FALSE, !.after = after]

ClientCancels ==
  /\ loop.at = "idle"
  /\ response_task # 0
  /\ Capture("idle")
  /\ UNCHANGED <<speaking, started, sessionVars, send_lock, turn, client, told, linkVars>>

\* session.close, a timeout, or the end of the connection: the finally clause.
Closes ==
  /\ \/ loop.at = "idle"
     \/ loop.at = "raised" /\ ~loop.closing
  /\ loop' = [Idle EXCEPT !.at = "close", !.closing = TRUE]
  /\ UNCHANGED <<speaking, started, sessionVars, send_lock, turn, client, told, linkVars>>

\* RealtimeRuntime.close
ClosesRuntime ==
  /\ loop.at = "close"
  /\ IF response_task # 0 THEN Capture("release") ELSE loop' = [loop EXCEPT !.at = "release"]
  /\ UNCHANGED <<speaking, started, sessionVars, send_lock, turn, client, told, linkVars>>

\* provider.close, and the session leaves the registry.
Releases ==
  /\ loop.at = "release"
  /\ loop' = [loop EXCEPT !.at = "closed"]
  /\ registered' = FALSE
  /\ UNCHANGED <<speaking, started, sessionVars, send_lock, turn, client, told, connected>>

\* The loop emits events of its own.
LoopEvents == {"mark", "stop", "cancelled", "truncated"}

LoopTakesLock ==
  /\ loop.at \in LoopEvents
  /\ send_lock = 0
  /\ send_lock' = Loop
  /\ UNCHANGED <<speaking, started, sessionVars, turn, client, told, loop, linkVars>>

LoopSends(event) ==
  /\ loop.at = event
  /\ send_lock = Loop /\ send_lock' = 0
  /\ connected
  /\ UNCHANGED <<speaking, started, active, response_task, response_state, linkVars>>

\* Mutant of CancelsAfterMark: only a task that is still tracked is cancelled.
CancelsTracked(t) == t # 0 /\ t = response_task
\* A turn that ended on its own, being stale, is still recorded as interrupted.
CancelsAfterMark(t) == (t # 0 /\ t = response_task) \/ loop.invalidated

SendsMark ==
  /\ LoopSends("mark")
  /\ told' = IF loop.invalidated THEN told \cup {loop.task} ELSE told
  /\ loop' = IF CancelsAfterMark(loop.task) THEN [loop EXCEPT !.at = "cancel", !.after = "idle"]
                                            ELSE Idle
  /\ UNCHANGED <<history, turn, client>>

SendsStop ==
  /\ LoopSends("stop")
  /\ IF response_task # 0 THEN Capture("start") ELSE loop' = [loop EXCEPT !.at = "start"]
  /\ UNCHANGED <<history, turn, client, told>>

\* The first part of cancel_response, up to its first await.
Cancels ==
  /\ loop.at = "cancel"
  /\ \/ /\ Committed(loop.response)
        /\ loop' = [loop EXCEPT !.at = "settle"]
        /\ UNCHANGED <<active, turn>>
     \/ /\ ~Committed(loop.response)
        /\ turn[loop.task].at = "ended"
        /\ loop' = [loop EXCEPT !.at = "record"]
        /\ UNCHANGED <<active, turn>>
     \/ /\ ~Committed(loop.response)
        /\ turn[loop.task].at # "ended"
        /\ active' = IF loop.invalidated THEN active ELSE 0
        /\ turn' = [turn EXCEPT ![loop.task].cancelled = TRUE]
        /\ loop' = [loop EXCEPT !.at = "gather"]
  /\ UNCHANGED <<speaking, started, response_task, response_state, send_lock, history, client,
                 told, linkVars>>

TaskDone(t) == turn[t].at = "ended"

Resume(record) ==
  IF record.after = "idle" THEN Idle ELSE [record EXCEPT !.at = record.after]

\* "await asyncio.gather(task)"
Gathers ==
  /\ \/ /\ loop.at = "settle"
        /\ turn[loop.task].at = "ended"
        /\ loop' = Resume(loop)
     \/ /\ loop.at = "gather"
        /\ TaskDone(loop.task)
        /\ loop' = [loop EXCEPT !.at = "record"]
  /\ UNCHANGED <<speaking, started, sessionVars, send_lock, turn, client, told, linkVars>>

\* _record_interruption, up to its first await.
Records ==
  /\ loop.at = "record"
  /\ IF loop.response # 0 /\ ~turn[loop.response].recorded
       THEN /\ turn' = [turn EXCEPT ![loop.response].recorded = TRUE]
            /\ loop' = [loop EXCEPT !.at = "cancelled"]
       ELSE /\ loop' = [loop EXCEPT !.at = "evaluate"]
            /\ UNCHANGED turn
  /\ UNCHANGED <<speaking, started, sessionVars, send_lock, client, told, linkVars>>

SendsCancelled ==
  /\ LoopSends("cancelled")
  /\ Told(loop.response, "cancelled")
  /\ told' = told \cup {loop.response}
  /\ loop' = [loop EXCEPT !.at = IF turn[loop.response].emitted > 0 THEN "truncated"
                                                                    ELSE "evaluate"]
  /\ UNCHANGED <<history, turn>>

\* The history keeps what the client could have heard.
SendsTruncated ==
  /\ LoopSends("truncated")
  /\ Told(loop.response, "truncated")
  /\ history' = Append(history, <<"assistant", loop.response, turn[loop.response].emitted>>)
  /\ loop' = [loop EXCEPT !.at = "evaluate"]
  /\ UNCHANGED <<turn, told>>

\* The end of _record_interruption and of cancel_response.
Evaluates ==
  /\ loop.at = "evaluate"
  /\ turn' = [turn EXCEPT ![loop.task] = Evaluated(@, "interrupted")]
  /\ IF response_task = loop.task THEN Untracked
                                  ELSE UNCHANGED <<response_task, response_state>>
  /\ loop' = Resume(loop)
  /\ UNCHANGED <<speaking, started, active, send_lock, history, client, told, linkVars>>

StartTurn ==
  /\ loop.at = "start"
  /\ LET t == started + 1
     IN started' = t /\ active' = t /\ response_task' = t /\ At(t, "transcribe")
  /\ loop' = Idle
  /\ UNCHANGED <<speaking, response_state, send_lock, history, client, told, linkVars>>

\* A send of the loop raises: the finally clause runs, or is itself cut short.
LoopSendFails ==
  /\ loop.at \in LoopEvents
  /\ send_lock = Loop /\ send_lock' = 0
  /\ ~connected
  /\ loop' = [loop EXCEPT !.at = "raised"]
  /\ UNCHANGED <<speaking, started, sessionVars, turn, client, told, linkVars>>

\* The client is gone.
Disconnects ==
  /\ connected /\ connected' = FALSE
  /\ UNCHANGED <<speaking, started, sessionVars, send_lock, turn, client, told, loop, registered>>

-----------------------------------------------------------------------------
Next ==
  \/ SpeechStarted \/ SpeechStopped \/ Overflows \/ ClientCancels \/ Closes
  \/ ClosesRuntime \/ Releases \/ Cancels \/ Records \/ Evaluates \/ StartTurn
  \/ Gathers \/ LoopTakesLock \/ LoopSendFails
  \/ SendsMark \/ SendsStop \/ SendsCancelled \/ SendsTruncated
  \/ \E t \in Turns : TurnSteps(t) \/ AudioSteps(t)
  \/ Disconnects

Spec == Init /\ [][Next]_vars

\* The event loop runs every ready task, sends and providers return or fail,
\* the lock is handed over in order, and a session ends at its maximum length.
Fairness ==
  /\ WF_vars(ClosesRuntime \/ Releases \/ Cancels \/ Records \/ Evaluates \/ StartTurn)
  /\ WF_vars(Gathers \/ LoopSendFails)
  /\ WF_vars(SendsMark \/ SendsStop \/ SendsCancelled \/ SendsTruncated)
  /\ SF_vars(LoopTakesLock)
  /\ SF_vars(Closes)
  /\ \A t \in Turns : SF_vars(TurnSteps(t)) /\ SF_vars(AudioSteps(t))

FairSpec == Spec /\ Fairness

-----------------------------------------------------------------------------
(* Properties                                                              *)

\* How many chunks of its answer to turn t the model will find in its history.
Remembered(t) ==
  LET entries == {i \in DOMAIN history : history[i][1] = "assistant" /\ history[i][2] = t}
  IN IF entries = {} THEN 0 ELSE history[CHOOSE i \in entries : TRUE][3]

\* The history of an interrupted answer holds what the client was sent of its
\* audio, no less and no more: "Return only speech the client could have heard
\* after a barge-in" (visible_assistant_text), a frame in flight included.
HistoryHeard ==
  \A t \in Turns : turn[t].evaluation = "interrupted" => Remembered(t) = client[t].audio

\* Each answer in the history follows the utterance it answers, and follows it
\* once: a barge-in never lets a completed answer be recorded a second time.
HistoryOrdered ==
  \A i \in DOMAIN history :
    history[i][1] = "assistant" =>
      /\ i > 1
      /\ history[i - 1][1] = "user" /\ history[i - 1][2] = history[i][2]

\* The session implements the abstract conversation: what the user is sent, what
\* the model will remember of it and how each turn is reported stay consistent,
\* wherever new speech, an error or the end of the connection cuts an answer off.
Abstract == INSTANCE Conversation
              WITH shown <- [t \in Turns |-> client[t].text],
                   heard <- [t \in Turns |-> client[t].audio],
                   silenced <- told,
                   outcome <- [t \in Turns |-> turn[t].evaluation]
ImplementsConversation == Abstract!Spec

\* Once the client knows that it interrupted a turn, it receives no more text
\* and no more audio of that turn: stale output is stopped at the send lock.
\* The conversation says so too; the lock alone is enough to prove it.
NoStaleOutput ==
  [][\A t \in told : client'[t].text = client[t].text /\ client'[t].audio = client[t].audio]_vars

\* Every turn is reported to the evaluation once and some day, as completed,
\* failed, empty or interrupted, while the client stays.
TurnsEvaluated ==
  \A t \in Turns : (turn[t].at # "none") ~> (turn[t].evaluation # "none" \/ ~connected)

\* The handler of the websocket has returned or raised.
HandlerEnded == loop.at = "closed" \/ (loop.at = "raised" /\ loop.closing)

\* The handler of a connection ends, whatever task it has to wait for.
HandlerEnds == <>HandlerEnded

=============================================================================
