-------------------------- MODULE VoiceTurnsProofs --------------------------
(* Proofs about the turns of a voice session, for any number of turns and  *)
(* of chunks of an answer.                                                 *)
EXTENDS VoiceTurns, SequenceTheorems, TLAPS

-----------------------------------------------------------------------------
(* The invariant                                                           *)

TurnStates == {"none", "transcribe", "transcript", "created", "generate", "text", "synthesize",
               "audio", "done", "error", "ended"}
TurnRecords == [at : TurnStates, cancelled : BOOLEAN,
                audio : {"none", "queued", "sending", "sent", "skipped", "failed"},
                generated : Nat, emitted : Nat, completed : BOOLEAN, recorded : BOOLEAN,
                evaluation : {"none", "empty", "completed", "failed", "interrupted"}]
Clients == [text : Nat, audio : Nat,
            events : SUBSET {"created", "done", "error", "cancelled", "truncated"}]
\* The loop has captured the turn that it cancels.
Capturing == {"mark", "cancel", "gather", "settle", "record", "cancelled", "truncated", "evaluate"}
Loops == [at : Capturing \cup {"idle", "stop", "start", "close", "release", "closed", "raised"},
          task : 0..MaxTurns, response : 0..MaxTurns, invalidated : BOOLEAN,
          after : {"idle", "start", "release"}, closing : BOOLEAN]
Entries == {"user", "assistant"} \X Turns \X Nat

TypeInv ==
  /\ speaking \in BOOLEAN /\ started \in 0..MaxTurns
  /\ active \in 0..MaxTurns /\ response_task \in 0..MaxTurns /\ response_state \in 0..MaxTurns
  /\ send_lock \in 0..Loop
  /\ history \in Seq(Entries)
  /\ turn \in [Turns -> TurnRecords]
  /\ client \in [Turns -> Clients]
  /\ told \subseteq Turns
  /\ loop \in Loops

Running(t) == turn[t].at \notin {"none", "ended"}
Answers(t) == {i \in DOMAIN history : history[i][1] = "assistant" /\ history[i][2] = t}
Unmentioned(t) == \A i \in DOMAIN history : history[i][2] # t
\* The last entry of the history is what the user said in the turn.
Asked(t) == Len(history) > 0 /\ history[Len(history)] = <<"user", t, 1>>

\* Nothing has been answered in the turn.
Fresh(t) ==
  /\ ~turn[t].completed
  /\ turn[t].emitted = 0 /\ turn[t].audio = "none" /\ client[t].audio = 0
  /\ Unmentioned(t)

\* The one task that runs is the tracked one, and its response, once created,
\* the tracked one.
SessionOf(t) ==
  /\ t > started => turn[t] = NewTurn /\ Fresh(t) /\ t \notin told
  /\ Running(t) <=> response_task = t
  /\ Running(t) => ~turn[t].recorded
  /\ Running(t) /\ response_state # t =>
       Fresh(t) /\ turn[t].at \in {"transcribe", "transcript", "error"}
  /\ response_state = t => turn[t].at \notin {"transcribe", "transcript"}
  /\ response_state = t /\ ~turn[t].completed => Asked(t)
  /\ turn[t].completed => turn[t].at \in {"done", "error", "ended"}

SessionInv ==
  /\ active \in {0, response_task} /\ response_state \in {0, response_task}
  /\ \A t \in Turns : SessionOf(t)

\* The audio of a turn is counted, but for the frame in flight, and the lock is
\* held by what sends.
AudioOf(t) ==
  /\ client[t].audio = turn[t].emitted + (IF turn[t].audio = "sent" THEN 1 ELSE 0)
  /\ turn[t].audio # "none" =>
       turn[t].at = "audio" \/ (turn[t].at = "ended" /\ turn[t].audio = "failed")
  /\ turn[t].audio = "sending" => send_lock = t
  /\ send_lock = t => turn[t].at \in Emitting \/ turn[t].audio = "sending"

\* A turn that the client knows to be interrupted has no output left to send.
Silent(t) ==
  /\ active # t
  /\ turn[t].audio # "sending"
  /\ ~(send_lock = t /\ turn[t].at = "text")

\* An answer is in the history once, because it was completed or because it was
\* recorded as interrupted.
AnswerOf(t) ==
  /\ \A i, j \in Answers(t) : i = j
  /\ Answers(t) # {} =>
       \/ turn[t].completed
       \/ turn[t].recorded /\ ~(loop.at \in {"cancelled", "truncated"} /\ loop.response = t)
  /\ turn[t].evaluation = "interrupted" =>
       turn[t].at = "ended" /\ Remembered(t) = client[t].audio

\* The turn that the loop has captured: no other runs, and it is recorded once,
\* after it has ended, with what was heard of it.
CapturedOf(t) ==
  /\ t <= started
  /\ loop.response = 0 => Fresh(t)
  /\ turn[t].evaluation # "interrupted"
  /\ loop.at \in {"mark", "cancel", "gather", "settle", "record"} => ~turn[t].recorded
  /\ loop.at = "settle" \/ (loop.at = "mark" /\ ~loop.invalidated) =>
       loop.response # 0 /\ turn[t].completed
  /\ loop.at \in {"gather", "record", "cancelled", "truncated", "evaluate"} =>
       active = 0 /\ ~turn[t].completed
  /\ loop.at \in {"record", "cancelled", "truncated", "evaluate"} => turn[t].at = "ended"
  /\ loop.at \in {"cancelled", "truncated"} => loop.response # 0 /\ turn[t].recorded
  /\ loop.at \notin {"settle", "evaluate"} /\ loop.response # 0 /\ ~turn[t].completed => Asked(t)
  /\ loop.at = "evaluate" => Remembered(t) = client[t].audio

CapturedInv ==
  loop.at \in Capturing =>
    /\ response_task \in {0, loop.task} /\ loop.response \in {0, loop.task}
    /\ loop.at # "mark" \/ loop.invalidated => loop.task # 0
    /\ loop.invalidated => active = 0
    /\ loop.task # 0 => CapturedOf(loop.task)

\* A turn that starts finds none that runs, and is one of the turns.
StartInv ==
  /\ loop.at = "idle" => loop = Idle
  /\ loop.at \in {"mark", "stop"} => loop.after = "idle"
  /\ speaking => started < MaxTurns
  /\ loop.at \in {"stop", "start"} \/ (loop.at \in Capturing /\ loop.after = "start") =>
       started < MaxTurns /\ ~speaking
  /\ loop.at = "start" => response_task = 0

TurnsInv ==
  /\ TypeInv /\ SessionInv /\ CapturedInv /\ StartInv
  /\ \A t \in Turns : AudioOf(t) /\ AnswerOf(t)
  /\ \A t \in told : Silent(t)
  /\ HistoryOrdered

-----------------------------------------------------------------------------
(* The history                                                             *)

\* What a step leaves of a turn in the history.
Apart(t) ==
  /\ Answers(t)' = Answers(t) /\ Remembered(t)' = Remembered(t)
  /\ Unmentioned(t) => Unmentioned(t)'

LEMMA SameHistory == UNCHANGED history => \A t : Apart(t) /\ (Asked(t) => Asked(t)')
  BY DEF Apart, Answers, Remembered, Unmentioned, Asked

LEMMA Remembers ==
  ASSUME NEW t
  PROVE  Remembered(t) = IF Answers(t) = {} THEN 0 ELSE history[CHOOSE i \in Answers(t) : TRUE][3]
  BY DEF Remembered, Answers

LEMMA Appends ==
  ASSUME TypeInv, NEW role \in {"user", "assistant"}, NEW t \in Turns, NEW n \in Nat,
         history' = Append(history, <<role, t, n>>)
  PROVE  /\ history' \in Seq(Entries)
         /\ Len(history) \in Nat /\ Len(history') = Len(history) + 1
         /\ DOMAIN history = 1..Len(history) /\ DOMAIN history' = 1..(Len(history) + 1)
         /\ \A i \in DOMAIN history : i \in DOMAIN history' /\ history'[i] = history[i]
         /\ \A i \in DOMAIN history' : i \in DOMAIN history \/ i = Len(history) + 1
         /\ history'[Len(history) + 1] = <<role, t, n>>
<1> DEFINE e == <<role, t, n>>
<1>1. history \in Seq(Entries) /\ e \in Entries
  BY DEF TypeInv, Entries
<1> HIDE DEF e
<1>2. history' = Append(history, e)
  BY DEF e
<1>3. /\ history' \in Seq(Entries) /\ Len(history') = Len(history) + 1
      /\ \A i \in 1..Len(history) : history'[i] = history[i]
      /\ history'[Len(history) + 1] = e
  BY <1>1, <1>2, AppendProperties
<1>4. Len(history) \in Nat /\ DOMAIN history = 1..Len(history)
      /\ DOMAIN history' = 1..Len(history')
  BY <1>1, <1>3, LenProperties
<1> QED
  BY <1>3, <1>4 DEF e

LEMMA AppendsApart ==
  ASSUME TypeInv, NEW role \in {"user", "assistant"}, NEW t \in Turns, NEW n \in Nat,
         history' = Append(history, <<role, t, n>>)
  PROVE  /\ \A q \in Turns \ {t} : Apart(q)
         /\ role = "user" => /\ Answers(t)' = Answers(t) /\ Remembered(t)' = Remembered(t)
                             /\ n = 1 => Asked(t)'
         /\ role = "assistant" => Answers(t)' = Answers(t) \cup {Len(history) + 1}
<1> DEFINE new == Len(history) + 1
<1>1. /\ Len(history) \in Nat /\ Len(history') = new /\ new \in DOMAIN history'
      /\ \A i \in DOMAIN history : i \in DOMAIN history' /\ history'[i] = history[i]
      /\ \A i \in DOMAIN history' : i \in DOMAIN history \/ i = new
      /\ history'[new] = <<role, t, n>> /\ new \notin DOMAIN history
  BY Appends
<1>2. history'[new][1] = role /\ history'[new][2] = t
  BY <1>1
<1>3. n = 1 /\ role = "user" => Asked(t)'
  BY <1>1 DEF Asked
<1> HIDE DEF new
<1>4. ASSUME NEW q, Answers(q)' = Answers(q)
      PROVE  Remembered(q)' = Remembered(q)
  <2>1. Answers(q) # {} => (CHOOSE i \in Answers(q) : TRUE) \in DOMAIN history
    BY DEF Answers
  <2>2. Remembered(q) = IF Answers(q) = {} THEN 0
                        ELSE history[CHOOSE i \in Answers(q) : TRUE][3]
    BY Remembers
  <2>3. Remembered(q)' = IF Answers(q)' = {} THEN 0
                         ELSE history'[CHOOSE i \in Answers(q)' : TRUE][3]
    BY DEF Remembered, Answers
  <2> QED
    BY <1>1, <1>4, <2>1, <2>2, <2>3
<1>5. \A q \in Turns \ {t} : Answers(q)' = Answers(q) /\ (Unmentioned(q) => Unmentioned(q)')
  BY <1>1, <1>2 DEF Answers, Unmentioned
<1>6. role = "user" => Answers(t)' = Answers(t)
  BY <1>1, <1>2 DEF Answers
<1>7. role = "assistant" => Answers(t)' = Answers(t) \cup {new}
  BY <1>1, <1>2 DEF Answers
<1> QED
  BY <1>3, <1>4, <1>5, <1>6, <1>7 DEF Apart, new

-----------------------------------------------------------------------------
(* A step of the task of a turn                                            *)

LEMMA TurnParts ==
  ASSUME TurnsInv, NEW t \in Turns
  PROVE  /\ turn[t] \in TurnRecords /\ client[t] \in Clients
         /\ SessionOf(t) /\ AudioOf(t) /\ AnswerOf(t) /\ (t \in told => Silent(t))
         /\ t \in Nat /\ t # 0 /\ t # Loop /\ t \in 0..Loop /\ t \in 0..MaxTurns
  BY BoundsAssumption DEF TurnsInv, TypeInv, SessionInv, Turns, Loop

\* While a task runs it is the only one, and the lock is not another's.
LEMMA OnlyOneRuns ==
  ASSUME TurnsInv, NEW t \in Turns, Running(t)
  PROVE  /\ response_task = t /\ active \in {0, t} /\ response_state \in {0, t}
         /\ send_lock \in {0, t, Loop}
         /\ loop.at \in Capturing => loop.task = t /\ loop.at \in {"mark", "cancel", "gather", "settle"}
         /\ \A q \in Turns \ {t} : ~Running(q)
<1>1. response_task = t /\ \A q \in Turns \ {t} : ~Running(q)
  BY DEF TurnsInv, SessionInv, SessionOf
<1>2. active \in {0, t} /\ response_state \in {0, t}
  BY <1>1 DEF TurnsInv, SessionInv
<1>3. send_lock \in {0, t, Loop}
  <2>1. \A q \in Turns \ {t} : send_lock # q
    BY <1>1, TurnParts DEF AudioOf, Running, Emitting
  <2>2. send_lock \in 0..Loop
    BY DEF TurnsInv, TypeInv
  <2> QED
    BY <2>1, <2>2, BoundsAssumption DEF Loop, Turns
<1>4. ASSUME loop.at \in Capturing
      PROVE  loop.task = t /\ loop.at \in {"mark", "cancel", "gather", "settle"}
  <2>1. loop.task = t /\ CapturedOf(t)
    BY <1>1, <1>4, TurnParts DEF TurnsInv, CapturedInv
  <2> QED
    BY <1>4, <2>1 DEF CapturedOf, Capturing, Running
<1> QED
  BY <1>1, <1>2, <1>3, <1>4

\* A turn that is not the one that moves.
LEMMA OthersKeep ==
  ASSUME TurnsInv, NEW t \in Turns, Running(t), NEW q \in Turns \ {t},
         turn'[q] = turn[q], client'[q] = client[q], Apart(q), UNCHANGED <<started, told, loop>>,
         response_task' \in {0, t}, response_state' \in {0, t}, active' \in {0, t},
         send_lock' \in {0, t, Loop}
  PROVE  SessionOf(q)' /\ AudioOf(q)' /\ AnswerOf(q)' /\ (q \in told => Silent(q)')
<1>1. /\ SessionOf(q) /\ AudioOf(q) /\ AnswerOf(q) /\ (q \in told => Silent(q)) /\ ~Running(q)
      /\ q # 0 /\ q # Loop
  BY TurnParts, OnlyOneRuns
<1>2. ~Running(q)' /\ response_task' # q /\ response_state' # q /\ active' # q /\ send_lock' # q
  BY <1>1, TurnParts DEF Running
<1>3. Fresh(q) => Fresh(q)'
  BY DEF Fresh, Apart
<1>4. SessionOf(q)'
  BY <1>1, <1>2, <1>3 DEF SessionOf
<1>5. AudioOf(q)'
  BY <1>1, <1>2 DEF AudioOf, Running
<1>6. AnswerOf(q)'
  <2>1. Answers(q)' = Answers(q) /\ Remembered(q)' = Remembered(q)
    BY DEF Apart
  <2> QED
    BY <1>1, <2>1 DEF AnswerOf
<1>7. q \in told => Silent(q)'
  BY <1>1, <1>2 DEF Silent
<1> QED
  BY <1>4, <1>5, <1>6, <1>7

\* The task moves to r, or ends, and leaves the history alone.
LEMMA TaskStep ==
  ASSUME TurnsInv, NEW t \in Turns, Running(t), NEW r \in TurnRecords,
         turn' = [turn EXCEPT ![t] = r], r.at # "none", r.recorded = turn[t].recorded,
         r.evaluation # "interrupted", r.completed = turn[t].completed,
         UNCHANGED <<speaking, started, history, told, loop>>,
         client' \in [Turns -> Clients], \A q \in Turns \ {t} : client'[q] = client[q],
         send_lock' \in {0, t, send_lock}, active' \in {0, active},
         IF r.at = "ended" THEN response_task' = 0 /\ response_state' = 0 /\ active' = 0
                           ELSE UNCHANGED <<response_task, response_state>>,
         AudioOf(t)', Silent(t) => Silent(t)',
         Fresh(t) => r.emitted = 0 /\ r.audio = "none" /\ client'[t].audio = 0,
         r.at # "ended" =>
           IF response_state = t THEN r.at \notin {"transcribe", "transcript"}
                                 ELSE r.at \in {"transcribe", "transcript", "error"},
         r.completed => r.at \in {"done", "error", "ended"}
  PROVE  TurnsInv'
<1>1. /\ turn[t] \in TurnRecords /\ SessionOf(t) /\ AnswerOf(t) /\ (t \in told => Silent(t))
      /\ t # 0 /\ t # Loop /\ t \in 0..Loop
  BY TurnParts
<1>2. /\ response_task = t /\ active \in {0, t} /\ response_state \in {0, t}
      /\ send_lock \in {0, t, Loop}
      /\ loop.at \in Capturing => loop.task = t /\ loop.at \in {"mark", "cancel", "gather", "settle"}
  BY OnlyOneRuns
<1>3. turn'[t] = r /\ (\A q \in Turns \ {t} : turn'[q] = turn[q]) /\ turn' \in [Turns -> TurnRecords]
  BY DEF TurnsInv, TypeInv
<1>4. TypeInv'
  BY <1>1, <1>2, <1>3, BoundsAssumption DEF TurnsInv, TypeInv, Loop
<1>5. \A q : Apart(q) /\ (Asked(q) => Asked(q)')
  BY SameHistory
<1>6. \A q \in Turns \ {t} : SessionOf(q)' /\ AudioOf(q)' /\ AnswerOf(q)' /\ (q \in told => Silent(q)')
  BY <1>2, <1>3, <1>5, OthersKeep
<1>7. Fresh(t) => Fresh(t)'
  BY <1>3, <1>5 DEF Fresh, Apart
<1>8. SessionOf(t)'
  BY <1>1, <1>2, <1>3, <1>5, <1>7 DEF SessionOf, Running, NewTurn
<1>9. AnswerOf(t)'
  BY <1>1, <1>3, <1>5 DEF AnswerOf, Apart, SessionOf
<1>10. SessionInv'
  BY <1>2, <1>6, <1>8 DEF SessionInv
<1>11. CapturedInv'
  <2> SUFFICES ASSUME loop.at \in Capturing PROVE CapturedInv'
    BY DEF CapturedInv
  <2>1. /\ CapturedOf(t) /\ loop.task = t /\ loop.at \in {"mark", "cancel", "gather", "settle"}
        /\ loop.response \in {0, t} /\ (loop.invalidated => active = 0)
    BY <1>1, <1>2 DEF TurnsInv, CapturedInv
  <2>2. CapturedOf(t)'
    BY <1>2, <1>3, <1>5, <1>7, <2>1 DEF CapturedOf
  <2> QED
    BY <1>1, <1>2, <2>1, <2>2 DEF CapturedInv
<1>12. StartInv'
  BY <1>2 DEF TurnsInv, StartInv
<1>13. HistoryOrdered'
  BY DEF TurnsInv, HistoryOrdered
<1>14. \A q \in Turns : AudioOf(q)' /\ AnswerOf(q)' /\ (q \in told => Silent(q)')
  BY <1>1, <1>6, <1>9
<1>15. told' = told /\ told \subseteq Turns
  BY DEF TurnsInv, TypeInv
<1> QED
  BY <1>4, <1>10, <1>11, <1>12, <1>13, <1>14, <1>15 DEF TurnsInv

\* The task ends, with what r holds.
LEMMA EndStep ==
  ASSUME TurnsInv, NEW t \in Turns, Running(t), NEW r, EndsWith(t, r),
         [r EXCEPT !.at = "ended"] \in TurnRecords,
         LET e == [r EXCEPT !.at = "ended"] IN
           /\ e.at = "ended" /\ e.recorded = turn[t].recorded /\ e.completed = turn[t].completed
           /\ e.evaluation # "interrupted" /\ e.audio \in {"none", "failed"}
           /\ e.emitted = client'[t].audio
           /\ Fresh(t) => e.emitted = 0 /\ e.audio = "none",
         UNCHANGED <<speaking, started, history, told, loop>>,
         client' \in [Turns -> Clients], \A q \in Turns \ {t} : client'[q] = client[q],
         send_lock' \in {0, send_lock}, send_lock' # t
  PROVE  TurnsInv'
<1> DEFINE e == [r EXCEPT !.at = "ended"]
<1>1. turn' = [turn EXCEPT ![t] = e]
  BY DEF EndsWith
<1>2. e \in TurnRecords
  OBVIOUS
<1>3. /\ e.at = "ended" /\ e.recorded = turn[t].recorded /\ e.completed = turn[t].completed
      /\ e.evaluation # "interrupted" /\ e.audio \in {"none", "failed"}
      /\ e.emitted = client'[t].audio
      /\ Fresh(t) => e.emitted = 0 /\ e.audio = "none"
  OBVIOUS
<1> HIDE DEF e
<1>4. turn'[t] = e
  BY <1>1 DEF TurnsInv, TypeInv
<1>5. response_task = t /\ active \in {0, t} /\ t # 0
  BY OnlyOneRuns, TurnParts
<1>6. response_task' = 0 /\ response_state' = 0 /\ active' = 0
  BY <1>5 DEF EndsWith, Untracked
<1>7. client'[t].audio \in Nat
  BY DEF Clients
<1>8. AudioOf(t)'
  BY <1>3, <1>4, <1>7 DEF AudioOf
<1>9. Silent(t)'
  BY <1>3, <1>4, <1>5, <1>6 DEF Silent
<1> QED
  BY <1>1, <1>2, <1>3, <1>5, <1>6, <1>8, <1>9, TaskStep

\* What an event that is sent changes of what the client has.
LEMMA ReachesClient ==
  ASSUME TypeInv, NEW t \in Turns, NEW event \in Emitting, Reaches(t, event)
  PROVE  /\ client' \in [Turns -> Clients] /\ \A q \in Turns \ {t} : client'[q] = client[q]
         /\ client'[t].audio = client[t].audio
         /\ event # "text" => client'[t].text = client[t].text
<1> DEFINE x == [client[t] EXCEPT !.text = @ + 1]
           e == [client[t] EXCEPT !.events = @ \cup {event}]
<1>1. client \in [Turns -> Clients] /\ client[t] \in Clients
  BY DEF TypeInv
<1>2. CASE event = "text"
  <2>1. client' = [client EXCEPT ![t] = x]
    BY <1>2 DEF Reaches
  <2>2. x \in Clients /\ x.audio = client[t].audio
    BY <1>1 DEF Clients
  <2> HIDE DEF x
  <2> QED
    BY <1>1, <1>2, <2>1, <2>2
<1>3. CASE event = "transcript"
  BY <1>1, <1>3 DEF Reaches
<1>4. CASE event \notin {"text", "transcript"}
  <2>1. client' = [client EXCEPT ![t] = e]
    BY <1>4 DEF Reaches, Told
  <2>2. event \in {"created", "done", "error"}
    BY <1>4 DEF Emitting
  <2>3. e \in Clients /\ e.audio = client[t].audio /\ e.text = client[t].text
    BY <1>1, <2>2 DEF Clients
  <2> HIDE DEF e
  <2> QED
    BY <1>1, <2>1, <2>3
<1> QED
  BY <1>2, <1>3, <1>4

\* A task that has no audio in flight ends with the record that it has, or with an
\* evaluation.
LEMMA EndsQuietly ==
  ASSUME TurnsInv, NEW t \in Turns, Running(t), turn[t].audio \in {"none", "failed"},
         \/ Ends(t)
         \/ \E kind \in {"empty", "completed", "failed"} : EndsWith(t, Evaluated(turn[t], kind)),
         UNCHANGED <<speaking, started, history, told, loop>>,
         client' \in [Turns -> Clients], \A q \in Turns \ {t} : client'[q] = client[q],
         client'[t].audio = client[t].audio,
         send_lock' \in {0, send_lock}, send_lock' # t
  PROVE  TurnsInv'
<1>1. /\ turn[t] \in TurnRecords /\ client[t].audio = turn[t].emitted
      /\ turn[t].evaluation # "interrupted"
      /\ Fresh(t) => turn[t].emitted = 0 /\ turn[t].audio = "none"
  <2>1. turn[t] \in TurnRecords /\ turn[t].emitted \in Nat
    BY TurnParts DEF TurnRecords
  <2> QED
    BY <2>1, TurnParts DEF AudioOf, Running, AnswerOf, Fresh
<1>2. PICK r \in {turn[t], Evaluated(turn[t], "empty"), Evaluated(turn[t], "completed"),
                  Evaluated(turn[t], "failed")} : EndsWith(t, r)
  BY DEF Ends
<1>3. /\ r \in TurnRecords /\ r.evaluation # "interrupted" /\ r.emitted = turn[t].emitted
      /\ r.recorded = turn[t].recorded /\ r.completed = turn[t].completed
      /\ r.audio = turn[t].audio
  BY <1>1 DEF Evaluated, TurnRecords
<1> DEFINE e == [r EXCEPT !.at = "ended"]
<1>4. /\ e \in TurnRecords /\ e.at = "ended" /\ e.recorded = r.recorded
      /\ e.completed = r.completed /\ e.evaluation = r.evaluation /\ e.audio = r.audio
      /\ e.emitted = r.emitted
  BY <1>3 DEF TurnRecords, TurnStates
<1> QED
  BY <1>1, <1>2, <1>3, <1>4, EndStep

\* A response that is tracked has been asked for.
LEMMA TrackedNotFresh ==
  ASSUME TurnsInv, NEW t \in Turns, response_state = t
  PROVE  ~Fresh(t)
<1>1. SessionOf(t)
  BY TurnParts
<1>2. history \in Seq(Entries)
  BY DEF TurnsInv, TypeInv
<1>3. Asked(t) => ~Unmentioned(t)
  <2> SUFFICES ASSUME Asked(t) PROVE ~Unmentioned(t)
    OBVIOUS
  <2>1. Len(history) \in DOMAIN history
    BY <1>2, LenProperties DEF Asked
  <2> QED
    BY <2>1 DEF Asked, Unmentioned
<1> QED
  BY <1>1, <1>3 DEF SessionOf, Fresh

\* What holds of a turn whose task is not sending audio.
LEMMA AtState ==
  ASSUME TurnsInv, NEW t \in Turns, Running(t)
  PROVE  /\ turn[t] \in TurnRecords /\ turn[t].evaluation # "interrupted"
         /\ turn[t].at # "audio" => turn[t].audio = "none"
         /\ turn[t].at \notin Emitting /\ turn[t].audio # "sending" => send_lock # t
         /\ turn[t].audio # "sent" => client[t].audio = turn[t].emitted
         /\ turn[t].at \in {"transcribe", "transcript"} => response_state # t
         /\ turn[t].at \notin {"transcribe", "transcript", "error"} =>
              response_state = t /\ ~Fresh(t)
         /\ turn[t].completed => turn[t].at \in {"done", "error"}
         /\ client \in [Turns -> Clients] /\ turn \in [Turns -> TurnRecords]
<1>1. /\ SessionOf(t) /\ AudioOf(t) /\ AnswerOf(t) /\ turn[t] \in TurnRecords
      /\ client \in [Turns -> Clients] /\ turn \in [Turns -> TurnRecords]
  BY TurnParts DEF TurnsInv, TypeInv
<1>2. turn[t].emitted \in Nat
  BY <1>1 DEF TurnRecords
<1>3. turn[t].at \notin {"transcribe", "transcript", "error"} => response_state = t /\ ~Fresh(t)
  BY <1>1, TrackedNotFresh DEF SessionOf
<1> QED
  BY <1>1, <1>2, <1>3 DEF SessionOf, AudioOf, AnswerOf, Running

LEMMA RaisesStep ==
  ASSUME TurnsInv, NEW t \in Turns, Running(t), turn[t].audio \in {"none", "failed"}, Raises(t),
         UNCHANGED <<speaking, started, history, told, loop, client>>,
         send_lock' \in {0, send_lock}, send_lock' # t
  PROVE  TurnsInv'
<1> DEFINE r == [turn[t] EXCEPT !.at = "error", !.audio = "none"]
<1>1. client \in [Turns -> Clients] /\ turn[t] \in TurnRecords /\ client[t].audio = turn[t].emitted
      /\ turn[t].evaluation # "interrupted"
  BY AtState
<1>2. CASE active # t
  BY <1>1, <1>2, EndsQuietly DEF Raises
<1>3. CASE active = t
  <2>1. turn' = [turn EXCEPT ![t] = r] /\ UNCHANGED <<active, response_task, response_state>>
    BY <1>3 DEF Raises
  <2>2. /\ r \in TurnRecords /\ r.at = "error" /\ r.audio = "none" /\ r.emitted = turn[t].emitted
        /\ r.recorded = turn[t].recorded /\ r.completed = turn[t].completed
        /\ r.evaluation = turn[t].evaluation
    BY <1>1 DEF TurnRecords, TurnStates
  <2> HIDE DEF r
  <2>3. turn'[t] = r
    BY <2>1 DEF TurnsInv, TypeInv
  <2>4. AudioOf(t)' /\ (Silent(t) => Silent(t)')
    BY <1>1, <1>3, <2>2, <2>3 DEF AudioOf, Silent, TurnRecords
  <2>5. Fresh(t) => r.emitted = 0 /\ r.audio = "none" /\ client'[t].audio = 0
    BY <2>2 DEF Fresh
  <2> QED
    BY <1>1, <2>1, <2>2, <2>4, <2>5, TaskStep
<1> QED
  BY <1>2, <1>3

\* The task goes on, to another state of the same response, without audio.
LEMMA GoesOn ==
  ASSUME TurnsInv, NEW t \in Turns, Running(t), turn[t].at # "audio",
         NEW r \in TurnRecords, turn' = [turn EXCEPT ![t] = r],
         r.at \notin {"none", "ended", "audio"}, r.audio = "none", r.emitted = turn[t].emitted,
         r.recorded = turn[t].recorded, r.completed = turn[t].completed,
         r.evaluation = turn[t].evaluation,
         r.completed => r.at \in {"done", "error"},
         IF response_state = t THEN r.at \notin {"transcribe", "transcript"}
                               ELSE r.at \in {"transcribe", "transcript", "error"},
         UNCHANGED <<speaking, started, sessionVars, told, loop>>,
         client' \in [Turns -> Clients], \A q \in Turns \ {t} : client'[q] = client[q],
         client'[t].audio = client[t].audio,
         \/ send_lock' \in {0, send_lock} /\ send_lock' # t
         \/ send_lock' = t /\ r.at \in Emitting /\ (r.at = "text" => active = t)
  PROVE  TurnsInv'
<1>1. turn'[t] = r /\ turn[t] \in TurnRecords /\ client[t].audio = turn[t].emitted
      /\ turn[t].evaluation # "interrupted"
  BY AtState
<1>2. AudioOf(t)' /\ (Silent(t) => Silent(t)')
  BY <1>1 DEF AudioOf, Silent, TurnRecords, sessionVars
<1>3. Fresh(t) => r.emitted = 0 /\ r.audio = "none" /\ client'[t].audio = 0
  BY <1>1 DEF Fresh
<1> QED
  BY <1>1, <1>2, <1>3, TaskStep DEF sessionVars

LEMMA SimpleSteps ==
  ASSUME TurnsInv, NEW t \in Turns,
         \/ Transcribed(t) \/ TakesLock(t) \/ SendsCreated(t) \/ SendsText(t)
         \/ SendsDone(t) \/ SendsError(t) \/ ProviderFails(t) \/ SendFails(t)
  PROVE  TurnsInv'
<1>1. Running(t)
  BY DEF Transcribed, TakesLock, SendsCreated, SendsText, SendsDone, SendsError, ProviderFails,
     SendFails, Sends, Runs, Running, Emitting
<1>2. /\ turn[t] \in TurnRecords /\ client \in [Turns -> Clients] /\ turn \in [Turns -> TurnRecords]
      /\ turn[t].at # "audio" => turn[t].audio = "none"
      /\ turn[t].at \notin Emitting /\ turn[t].audio # "sending" => send_lock # t
      /\ turn[t].at \notin {"transcribe", "transcript", "error"} => response_state = t
      /\ turn[t].at \in {"transcribe", "transcript"} => response_state # t
      /\ turn[t].completed => turn[t].at \in {"done", "error"}
      /\ t # 0
  BY <1>1, AtState, TurnParts
<1> DEFINE r(state) == [turn[t] EXCEPT !.at = state]
<1>3. \A state \in TurnStates :
        /\ r(state) \in TurnRecords /\ r(state).at = state
        /\ r(state).audio = turn[t].audio /\ r(state).emitted = turn[t].emitted
        /\ r(state).recorded = turn[t].recorded /\ r(state).completed = turn[t].completed
        /\ r(state).evaluation = turn[t].evaluation
  BY <1>2 DEF TurnRecords
<1> HIDE DEF r
<1>4. ASSUME NEW state \in TurnStates, At(t, state) PROVE turn' = [turn EXCEPT ![t] = r(state)]
  BY <1>4 DEF At, r
<1>5. ASSUME NEW state \in Emitting, Sends(t, state)
      PROVE  /\ turn[t].at = state /\ send_lock' = 0 /\ UNCHANGED <<speaking, started, told, loop>>
             /\ client' \in [Turns -> Clients] /\ \A q \in Turns \ {t} : client'[q] = client[q]
             /\ client'[t].audio = client[t].audio
  <2>1. Reaches(t, state) /\ TypeInv
    BY <1>5 DEF Sends, TurnsInv
  <2> QED
    BY <1>5, <2>1, ReachesClient DEF Sends, Runs
<1>6. CASE Transcribed(t)
  <2>1. turn[t].at = "transcribe" /\ UNCHANGED <<speaking, started, send_lock, client, told, loop>>
    BY <1>6 DEF Transcribed, Runs
  <2>2. CASE Ends(t) /\ UNCHANGED history
    BY <1>1, <1>2, <2>1, <2>2, EndsQuietly DEF Emitting
  <2>3. CASE At(t, "transcript") /\ UNCHANGED sessionVars
    <3>1. "transcript" \in TurnStates
      BY DEF TurnStates
    <3>2. turn' = [turn EXCEPT ![t] = r("transcript")]
      BY <1>4, <2>3, <3>1
    <3>3. send_lock # t /\ response_state # t
      BY <1>2, <2>1 DEF Emitting
    <3> QED
      BY <1>1, <1>2, <1>3, <2>1, <2>3, <3>1, <3>2, <3>3, GoesOn
  <2> QED
    BY <1>6, <2>2, <2>3 DEF Transcribed
<1>7. CASE TakesLock(t)
  <2>1. /\ turn[t].at \in Emitting /\ send_lock = 0
        /\ UNCHANGED <<speaking, started, client, told, loop>>
    BY <1>7 DEF TakesLock, Runs
  <2>2. CASE Ends(t) /\ UNCHANGED <<send_lock, history>>
    BY <1>1, <1>2, <2>1, <2>2, EndsQuietly DEF Emitting
  <2>3. CASE /\ send_lock' = t /\ UNCHANGED <<turn, sessionVars>>
             /\ turn[t].at \in Guarded => MaySend(t)
    <3>1. turn' = [turn EXCEPT ![t] = turn[t]]
      BY <1>2, <2>3
    <3>2. turn[t].at = "text" => active = t
      BY <2>3 DEF Guarded, MaySend
    <3> QED
      BY <1>1, <1>2, <2>1, <2>3, <3>1, <3>2, GoesOn DEF Emitting
  <2> QED
    BY <1>7, <2>2, <2>3 DEF TakesLock
<1>8. CASE SendsCreated(t)
  <2>1. Sends(t, "created") /\ turn' = [turn EXCEPT ![t] = r("generate")] /\ UNCHANGED sessionVars
    BY <1>4, <1>8 DEF SendsCreated, TurnStates
  <2>2. /\ turn[t].at = "created" /\ send_lock' = 0 /\ UNCHANGED <<speaking, started, told, loop>>
        /\ client' \in [Turns -> Clients] /\ \A q \in Turns \ {t} : client'[q] = client[q]
        /\ client'[t].audio = client[t].audio
    BY <1>5, <2>1 DEF Emitting
  <2>3. r("generate") \in TurnRecords /\ r("generate").at = "generate"
    BY <1>3 DEF TurnStates
  <2>4. /\ r("generate").audio = "none" /\ r("generate").emitted = turn[t].emitted
        /\ r("generate").recorded = turn[t].recorded /\ r("generate").completed = turn[t].completed
        /\ r("generate").evaluation = turn[t].evaluation /\ ~turn[t].completed
    BY <1>2, <1>3, <2>2 DEF TurnStates
  <2> QED
    BY <1>1, <1>2, <2>1, <2>2, <2>3, <2>4, GoesOn
<1>9. CASE SendsText(t)
  <2>1. Sends(t, "text") /\ turn' = [turn EXCEPT ![t] = r("synthesize")] /\ UNCHANGED sessionVars
    BY <1>4, <1>9 DEF SendsText, TurnStates
  <2>2. /\ turn[t].at = "text" /\ send_lock' = 0 /\ UNCHANGED <<speaking, started, told, loop>>
        /\ client' \in [Turns -> Clients] /\ \A q \in Turns \ {t} : client'[q] = client[q]
        /\ client'[t].audio = client[t].audio
    BY <1>5, <2>1 DEF Emitting
  <2>3. r("synthesize") \in TurnRecords /\ r("synthesize").at = "synthesize"
    BY <1>3 DEF TurnStates
  <2>4. /\ r("synthesize").audio = "none" /\ r("synthesize").emitted = turn[t].emitted
        /\ r("synthesize").recorded = turn[t].recorded /\ r("synthesize").completed = turn[t].completed
        /\ r("synthesize").evaluation = turn[t].evaluation /\ ~turn[t].completed
    BY <1>2, <1>3, <2>2 DEF TurnStates
  <2> QED
    BY <1>1, <1>2, <2>1, <2>2, <2>3, <2>4, GoesOn
<1>10. CASE SendsDone(t)
  BY <1>1, <1>2, <1>5, <1>10, EndsQuietly DEF SendsDone, Emitting
<1>11. CASE SendsError(t)
  BY <1>1, <1>2, <1>5, <1>11, EndsQuietly DEF SendsError, Emitting
<1>12. CASE ProviderFails(t)
  BY <1>1, <1>2, <1>12, RaisesStep DEF ProviderFails, Runs, Emitting
<1>13. CASE SendFails(t)
  <2>1. turn[t].at \in Emitting /\ send_lock' = 0
        /\ UNCHANGED <<speaking, started, history, client, told, loop>>
    BY <1>13 DEF SendFails, Runs
  <2>2. CASE Ends(t)
    BY <1>1, <1>2, <2>1, <2>2, EndsQuietly DEF Emitting
  <2>3. CASE Raises(t)
    BY <1>1, <1>2, <2>1, <2>3, RaisesStep DEF Emitting
  <2> QED
    BY <1>13, <2>2, <2>3 DEF SendFails
<1> QED
  BY <1>6, <1>7, <1>8, <1>9, <1>10, <1>11, <1>12, <1>13

\* The audio of a turn is counted as it is taken from the queue.
LEMMA DeliveredRecord ==
  ASSUME NEW t, turn[t] \in TurnRecords, AudioOf(t), NEW at \in TurnStates
  PROVE  LET d == [Delivered(turn[t]) EXCEPT !.at = at] IN
         /\ d \in TurnRecords /\ d.at = at /\ d.audio = "none" /\ d.emitted = client[t].audio
         /\ d.recorded = turn[t].recorded /\ d.completed = turn[t].completed
         /\ d.evaluation = turn[t].evaluation
<1> DEFINE m == turn[t].emitted + 1
           s == [turn[t] EXCEPT !.emitted = m, !.audio = "none", !.at = at]
           n == [turn[t] EXCEPT !.audio = "none", !.at = at]
           d == [Delivered(turn[t]) EXCEPT !.at = at]
<1>1. CASE turn[t].audio = "sent"
  <2>1. d = s
    BY <1>1 DEF Delivered, TurnRecords
  <2>2. /\ s \in TurnRecords /\ s.at = at /\ s.audio = "none" /\ s.emitted = turn[t].emitted + 1
        /\ s.recorded = turn[t].recorded /\ s.completed = turn[t].completed
        /\ s.evaluation = turn[t].evaluation
    <3>1. m \in Nat
      BY DEF TurnRecords
    <3> HIDE DEF m
    <3>2. /\ s \in TurnRecords /\ s.at = at /\ s.audio = "none" /\ s.emitted = m
          /\ s.recorded = turn[t].recorded /\ s.completed = turn[t].completed
          /\ s.evaluation = turn[t].evaluation
      BY <3>1 DEF TurnRecords
    <3> QED
      BY <3>2 DEF m
  <2> HIDE DEF d, s
  <2>3. d.emitted = client[t].audio
    BY <1>1, <2>1, <2>2 DEF AudioOf
  <2>4. /\ d \in TurnRecords /\ d.at = at /\ d.audio = "none" /\ d.emitted = client[t].audio
        /\ d.recorded = turn[t].recorded /\ d.completed = turn[t].completed
        /\ d.evaluation = turn[t].evaluation
    BY <2>1, <2>2, <2>3
  <2> QED
    BY <2>4 DEF d
<1>2. CASE turn[t].audio # "sent"
  <2>1. d = n
    BY <1>2 DEF Delivered, TurnRecords
  <2>2. /\ n \in TurnRecords /\ n.at = at /\ n.audio = "none" /\ n.emitted = turn[t].emitted
        /\ n.recorded = turn[t].recorded /\ n.completed = turn[t].completed
        /\ n.evaluation = turn[t].evaluation /\ n.emitted \in Nat
    BY DEF TurnRecords
  <2> HIDE DEF d, n
  <2>3. d.emitted = client[t].audio
    BY <1>2, <2>1, <2>2 DEF AudioOf
  <2>4. /\ d \in TurnRecords /\ d.at = at /\ d.audio = "none" /\ d.emitted = client[t].audio
        /\ d.recorded = turn[t].recorded /\ d.completed = turn[t].completed
        /\ d.evaluation = turn[t].evaluation
    BY <2>1, <2>2, <2>3
  <2> QED
    BY <2>4 DEF d
<1> QED
  BY <1>1, <1>2

\* The steps of the audio, and of the task that waits for it.
LEMMA SpeakingSteps ==
  ASSUME TurnsInv, NEW t \in Turns,
         \/ Synthesized(t) \/ AudioTakesLock(t) \/ AudioSent(t) \/ Speaks(t)
  PROVE  TurnsInv'
<1>1. Running(t) /\ turn[t].at \in {"synthesize", "audio"}
      /\ (turn[t].at = "synthesize" => Synthesized(t))
      /\ (Synthesized(t) => turn[t].at = "synthesize")
  BY TurnParts DEF Synthesized, AudioTakesLock, AudioSent, Speaks, Runs, Running, AudioOf
<1>2. /\ turn[t] \in TurnRecords /\ turn[t].evaluation # "interrupted"
      /\ client \in [Turns -> Clients] /\ turn \in [Turns -> TurnRecords]
      /\ turn[t].at # "audio" => turn[t].audio = "none"
      /\ turn[t].audio # "sending" => send_lock # t
      /\ turn[t].audio # "sent" => client[t].audio = turn[t].emitted
      /\ response_state = t /\ ~Fresh(t) /\ ~turn[t].completed
      /\ t # 0 /\ AudioOf(t)
  BY <1>1, AtState, TurnParts DEF Emitting
<1>3. client[t] \in Clients
  BY <1>2
\* The task goes on from here, whatever the audio came to.
<1>4. ASSUME NEW r \in TurnRecords, turn' = [turn EXCEPT ![t] = r],
             r.at \in {"audio", "generate"}, r.recorded = turn[t].recorded,
             r.completed = turn[t].completed, r.evaluation = turn[t].evaluation,
             UNCHANGED <<speaking, started, sessionVars, told, loop>>,
             client' \in [Turns -> Clients], \A q \in Turns \ {t} : client'[q] = client[q],
             send_lock' \in {0, t, send_lock},
             r.audio # "none" => r.at = "audio",
             r.audio = "sent" => client'[t].audio = r.emitted + 1,
             r.audio # "sent" => client'[t].audio = r.emitted,
             IF r.audio = "sending" THEN active = t /\ send_lock' = t ELSE send_lock' # t
      PROVE  TurnsInv'
  <2>1. turn'[t] = r
    BY <1>2, <1>4
  <2>2. AudioOf(t)'
    BY <1>4, <2>1 DEF AudioOf, TurnRecords
  <2>3. Silent(t) => Silent(t)'
    BY <1>4, <2>1 DEF Silent, sessionVars
  <2> QED
    BY <1>1, <1>2, <1>4, <2>2, <2>3, TaskStep DEF sessionVars
\* In particular when only the lock and the record of the turn move.
<1>9. ASSUME NEW r \in TurnRecords, turn' = [turn EXCEPT ![t] = r],
             r.at \in {"audio", "generate"}, r.recorded = turn[t].recorded,
             r.completed = turn[t].completed, r.evaluation = turn[t].evaluation,
             UNCHANGED <<speaking, started, sessionVars, told, loop, client>>,
             r.audio # "none" => r.at = "audio", r.audio # "sent",
             client[t].audio = r.emitted,
             IF r.audio = "sending" THEN active = t /\ send_lock' = t
                                    ELSE send_lock' # t /\ send_lock' \in {0, send_lock}
      PROVE  TurnsInv'
  BY <1>2, <1>4, <1>9
<1>5. CASE Synthesized(t)
  <2> DEFINE a == [turn[t] EXCEPT !.at = "audio", !.audio = "queued"]
             g == [turn[t] EXCEPT !.at = "generate"]
  <2>1. turn' = [turn EXCEPT ![t] = a] \/ turn' = [turn EXCEPT ![t] = g]
    BY <1>5 DEF Synthesized
  <2>2. /\ UNCHANGED <<speaking, started, sessionVars, send_lock, client, told, loop>>
        /\ turn[t].audio = "none"
    BY <1>1, <1>2, <1>5 DEF Synthesized
  <2>3. /\ a \in TurnRecords /\ a.at = "audio" /\ a.audio = "queued"
        /\ a.emitted = turn[t].emitted /\ a.recorded = turn[t].recorded
        /\ a.completed = turn[t].completed /\ a.evaluation = turn[t].evaluation
    BY <1>2 DEF TurnRecords, TurnStates
  <2>4. /\ g \in TurnRecords /\ g.at = "generate" /\ g.audio = turn[t].audio
        /\ g.emitted = turn[t].emitted /\ g.recorded = turn[t].recorded
        /\ g.completed = turn[t].completed /\ g.evaluation = turn[t].evaluation
    BY <1>2 DEF TurnRecords, TurnStates
  <2>5. turn[t].emitted \in Nat
    BY <1>2 DEF TurnRecords
  <2> HIDE DEF a, g
  <2>6. CASE turn' = [turn EXCEPT ![t] = a]
    BY <1>2, <1>9, <2>2, <2>3, <2>6
  <2>7. CASE turn' = [turn EXCEPT ![t] = g]
    BY <1>2, <1>9, <2>2, <2>4, <2>7
  <2> QED
    BY <2>1, <2>6, <2>7
<1>6. CASE AudioTakesLock(t)
  <2> DEFINE s == [turn[t] EXCEPT !.audio = "sending"]
             k == [turn[t] EXCEPT !.audio = "skipped"]
  <2>1. /\ turn[t].audio = "queued" /\ send_lock = 0
        /\ UNCHANGED <<speaking, started, sessionVars, client, told, loop>>
        /\ \/ active = t /\ send_lock' = t /\ turn' = [turn EXCEPT ![t] = s]
           \/ turn' = [turn EXCEPT ![t] = k] /\ UNCHANGED send_lock
    BY <1>6 DEF AudioTakesLock, MaySend
  <2>2. turn[t].at = "audio"
    BY <1>2, <2>1 DEF AudioOf, Running
  <2>3. /\ s \in TurnRecords /\ s.at = "audio" /\ s.audio = "sending"
        /\ s.emitted = turn[t].emitted /\ s.recorded = turn[t].recorded
        /\ s.completed = turn[t].completed /\ s.evaluation = turn[t].evaluation
    BY <1>2, <2>2 DEF TurnRecords
  <2>4. /\ k \in TurnRecords /\ k.at = "audio" /\ k.audio = "skipped"
        /\ k.emitted = turn[t].emitted /\ k.recorded = turn[t].recorded
        /\ k.completed = turn[t].completed /\ k.evaluation = turn[t].evaluation
    BY <1>2, <2>2 DEF TurnRecords
  <2>5. turn[t].emitted \in Nat /\ client[t].audio = turn[t].emitted
    BY <1>2, <2>1 DEF TurnRecords
  <2> HIDE DEF s, k
  <2>6. CASE active = t /\ send_lock' = t /\ turn' = [turn EXCEPT ![t] = s]
    BY <1>2, <1>9, <2>1, <2>3, <2>5, <2>6
  <2>7. CASE turn' = [turn EXCEPT ![t] = k] /\ UNCHANGED send_lock
    BY <1>2, <1>9, <2>1, <2>4, <2>5, <2>7
  <2> QED
    BY <2>1, <2>6, <2>7
<1>7. CASE AudioSent(t)
  <2> DEFINE s == [turn[t] EXCEPT !.audio = "sent"]
             f == [turn[t] EXCEPT !.audio = "failed"]
             c == [client[t] EXCEPT !.audio = @ + 1]
  <2>1. /\ turn[t].audio = "sending" /\ send_lock' = 0
        /\ UNCHANGED <<speaking, started, sessionVars, told, loop>>
        /\ \/ turn' = [turn EXCEPT ![t] = s] /\ client' = [client EXCEPT ![t] = c]
           \/ turn' = [turn EXCEPT ![t] = f] /\ client' = client
    BY <1>7 DEF AudioSent
  <2>2. turn[t].at = "audio"
    BY <1>1, <1>2, <2>1
  <2>3. /\ s \in TurnRecords /\ s.at = "audio" /\ s.audio = "sent"
        /\ s.emitted = turn[t].emitted /\ s.recorded = turn[t].recorded
        /\ s.completed = turn[t].completed /\ s.evaluation = turn[t].evaluation
    BY <1>2, <2>2 DEF TurnRecords
  <2>4. /\ f \in TurnRecords /\ f.at = "audio" /\ f.audio = "failed"
        /\ f.emitted = turn[t].emitted /\ f.recorded = turn[t].recorded
        /\ f.completed = turn[t].completed /\ f.evaluation = turn[t].evaluation
    BY <1>2, <2>2 DEF TurnRecords
  <2>5. /\ turn[t].emitted \in Nat /\ client[t].audio = turn[t].emitted
        /\ c \in Clients /\ c.audio = client[t].audio + 1
    <3>1. turn[t].emitted \in Nat /\ client[t].audio = turn[t].emitted
      BY <1>2, <2>1 DEF TurnRecords
    <3>2. c \in Clients /\ c.audio = client[t].audio + 1
      BY <1>3 DEF Clients
    <3> QED
      BY <3>1, <3>2
  <2> HIDE DEF s, f, c
  <2>6. CASE turn' = [turn EXCEPT ![t] = s] /\ client' = [client EXCEPT ![t] = c]
    <3>1. client' \in [Turns -> Clients] /\ client'[t] = c
          /\ \A q \in Turns \ {t} : client'[q] = client[q]
      BY <1>2, <2>5, <2>6
    <3>2. send_lock' # t /\ send_lock' \in {0, t, send_lock} /\ client'[t].audio = s.emitted + 1
      BY <1>2, <2>1, <2>3, <2>5, <3>1
    <3> QED
      BY <1>4, <2>1, <2>3, <2>6, <3>1, <3>2
  <2>7. CASE turn' = [turn EXCEPT ![t] = f] /\ client' = client
    BY <1>2, <1>9, <2>1, <2>4, <2>5, <2>7
  <2> QED
    BY <2>1, <2>6, <2>7
<1>8. CASE Speaks(t)
  <2>1. /\ turn[t].at = "audio" /\ turn[t].audio \in {"sent", "skipped", "failed"}
        /\ UNCHANGED <<speaking, started, send_lock, history, client, told, loop>>
    BY <1>8 DEF Speaks, Runs, AudioSettled
  <2>2. CASE turn[t].audio = "failed"
    BY <1>1, <1>2, <1>8, <2>1, <2>2, RaisesStep DEF Speaks
  <2>3. CASE turn[t].audio # "failed"
    <3> DEFINE d == [Delivered(turn[t]) EXCEPT !.at = "generate"]
    <3>1. turn' = [turn EXCEPT ![t] = d] /\ UNCHANGED sessionVars
      BY <1>2, <1>8, <2>1, <2>3 DEF Speaks, sessionVars
    <3>2. /\ d \in TurnRecords /\ d.at = "generate" /\ d.audio = "none"
          /\ d.emitted = client[t].audio
          /\ d.recorded = turn[t].recorded /\ d.completed = turn[t].completed
          /\ d.evaluation = turn[t].evaluation
      <4>1. "generate" \in TurnStates
        BY DEF TurnStates
      <4> QED
        BY <1>2, <4>1, DeliveredRecord
    <3> HIDE DEF d
    <3>3. send_lock' # t /\ send_lock' \in {0, send_lock}
      BY <1>2, <2>1
    <3> QED
      BY <1>9, <2>1, <3>1, <3>2, <3>3
  <2> QED
    BY <2>2, <2>3
<1> QED
  BY <1>5, <1>6, <1>7, <1>8

\* The task gives way once the frame in flight has been accounted for.
LEMMA CancelledStep ==
  ASSUME TurnsInv, NEW t \in Turns, Cancelled(t)
  PROVE  TurnsInv'
<1>1. Running(t)
  BY DEF Cancelled, Running
<1>2. /\ turn[t] \in TurnRecords /\ turn[t].evaluation # "interrupted"
      /\ client \in [Turns -> Clients] /\ AudioOf(t)
      /\ turn[t].at # "audio" => turn[t].audio = "none"
      /\ response_state = t => ~Fresh(t)
      /\ t # 0 /\ client[t] \in Clients
  BY <1>1, AtState, TurnParts, TrackedNotFresh
<1> DEFINE r == Delivered(turn[t])
           e == [r EXCEPT !.at = "ended"]
<1>3. EndsWith(t, r) /\ UNCHANGED <<speaking, started, history, told, loop>>
  BY DEF Cancelled, Settled
<1>4. /\ e \in TurnRecords /\ e.at = "ended" /\ e.audio = "none"
      /\ e.emitted = client[t].audio
      /\ e.recorded = turn[t].recorded /\ e.completed = turn[t].completed
      /\ e.evaluation = turn[t].evaluation
  <2>1. "ended" \in TurnStates
    BY DEF TurnStates
  <2> QED
    BY <1>2, <2>1, DeliveredRecord
<1>5. send_lock' \in {0, send_lock} /\ send_lock' # t
  BY <1>2 DEF Cancelled, LockAfter
<1>6. /\ client' \in [Turns -> Clients] /\ \A q \in Turns \ {t} : client'[q] = client[q]
      /\ client'[t].audio = client[t].audio
  BY <1>2, ReachesClient DEF Cancelled, TurnsInv
<1>7. client'[t].audio = e.emitted
  BY <1>4, <1>6
<1>8. Fresh(t) => e.emitted = 0
  BY <1>4 DEF Fresh
<1> HIDE DEF r
<1>9. PICK x : x = r
  OBVIOUS
<1>10. LET y == [x EXCEPT !.at = "ended"] IN
         /\ y \in TurnRecords /\ y.at = "ended" /\ y.recorded = turn[t].recorded
         /\ y.completed = turn[t].completed
         /\ y.evaluation # "interrupted" /\ y.audio \in {"none", "failed"}
         /\ y.emitted = client'[t].audio
         /\ Fresh(t) => y.emitted = 0 /\ y.audio = "none"
  BY <1>2, <1>4, <1>7, <1>8, <1>9
<1> QED
  BY <1>1, <1>3, <1>5, <1>6, <1>9, <1>10, EndStep

\* While a turn is current and is not completed, and the loop awaits something,
\* the loop has captured no turn.
LEMMA Uncaptured ==
  ASSUME TurnsInv, NEW t \in Turns, Running(t), active = t, ~turn[t].completed, LoopAwaits
  PROVE  loop.at \notin Capturing /\ t \notin told
<1>1. t # 0 /\ (t \in told => Silent(t))
  BY TurnParts
<1>2. t \notin told
  BY <1>1 DEF Silent
<1>3. ASSUME loop.at \in Capturing PROVE FALSE
  <2>1. loop.task = t /\ loop.at \in {"mark", "cancel", "gather", "settle"}
    BY <1>3, OnlyOneRuns
  <2>2. CapturedOf(t) /\ (loop.invalidated => active = 0)
    BY <1>1, <1>3, <2>1 DEF TurnsInv, CapturedInv
  <2> QED
    BY <1>1, <2>1, <2>2 DEF CapturedOf, LoopAwaits
<1> QED
  BY <1>2, <1>3

LEMMA OrderedAppends ==
  ASSUME TypeInv, HistoryOrdered, NEW role \in {"user", "assistant"}, NEW t \in Turns,
         NEW n \in Nat, history' = Append(history, <<role, t, n>>),
         role = "user" \/ Asked(t)
  PROVE  HistoryOrdered'
<1> DEFINE len == Len(history)
           last == len + 1
<1>1. /\ len \in Nat /\ DOMAIN history = 1..len /\ DOMAIN history' = 1..(len + 1)
      /\ \A i \in 1..len : history'[i] = history[i]
      /\ history'[last] = <<role, t, n>>
  BY Appends
<1>2. ASSUME role = "assistant"
      PROVE  len > 0 /\ history[len][1] = "user" /\ history[len][2] = t
  BY <1>2 DEF Asked
<1>3. HistoryOrdered' <=>
        \A i \in 1..last :
          history'[i][1] = "assistant" =>
            i > 1 /\ history'[i - 1][1] = "user" /\ history'[i - 1][2] = history'[i][2]
  BY <1>1 DEF HistoryOrdered
<1> HIDE DEF len
<1>4. ASSUME NEW i \in 1..last, history'[i][1] = "assistant"
      PROVE  i > 1 /\ history'[i - 1][1] = "user" /\ history'[i - 1][2] = history'[i][2]
  <2>1. CASE i = last
    <3>1. role = "assistant" /\ history'[i][2] = t
      BY <1>1, <1>4, <2>1
    <3>2. last - 1 = len /\ len \in 1..len
      BY <1>1, <1>2, <3>1
    <3> QED
      BY <1>1, <1>2, <2>1, <3>1, <3>2
  <2>2. CASE i # last
    <3>1. i \in 1..len
      BY <1>1, <2>2
    <3>2. i > 1 /\ history[i - 1][1] = "user" /\ history[i - 1][2] = history[i][2]
      BY <1>1, <1>4, <3>1 DEF HistoryOrdered
    <3>3. i - 1 \in 1..len
      BY <1>1, <3>1, <3>2
    <3> QED
      BY <1>1, <3>1, <3>2, <3>3
  <2> QED
    BY <2>1, <2>2
<1> QED
  BY <1>3, <1>4

\* The task appends to the history, or completes without a word, and goes on.
LEMMA TaskAppends ==
  ASSUME TurnsInv, NEW t \in Turns, Running(t), active = t, ~turn[t].completed, LoopAwaits,
         turn[t].audio = "none", NEW r \in TurnRecords,
         turn' = [turn EXCEPT ![t] = r],
         r.at \notin {"none", "ended", "transcribe", "transcript"}, r.audio = "none",
         r.emitted = turn[t].emitted, r.recorded = turn[t].recorded,
         r.evaluation = turn[t].evaluation,
         UNCHANGED <<speaking, started, active, response_task, told, loop>>, response_state' = t,
         client' \in [Turns -> Clients], \A q \in Turns \ {t} : client'[q] = client[q],
         client'[t].audio = client[t].audio,
         send_lock' \in {0, send_lock}, send_lock' # t,
         NEW role \in {"user", "assistant"}, NEW n \in Nat,
         history' = Append(history, <<role, t, n>>) \/ (role = "assistant" /\ UNCHANGED history),
         IF role = "user" THEN n = 1 /\ Fresh(t) /\ ~r.completed
                          ELSE Asked(t) /\ r.completed /\ r.at = "done"
  PROVE  TurnsInv'
<1>1. /\ turn[t] \in TurnRecords /\ SessionOf(t) /\ AnswerOf(t) /\ AudioOf(t)
      /\ t # 0 /\ t # Loop /\ t \in 0..MaxTurns
  BY TurnParts
<1>2. response_task = t /\ send_lock \in {0, t, Loop}
  BY OnlyOneRuns
<1>3. loop.at \notin Capturing /\ t \notin told
  BY Uncaptured
<1>4. turn'[t] = r /\ (\A q \in Turns \ {t} : turn'[q] = turn[q]) /\ turn' \in [Turns -> TurnRecords]
  BY DEF TurnsInv, TypeInv
<1>5. /\ \A q \in Turns \ {t} : Apart(q)
      /\ role = "user" => Answers(t)' = Answers(t) /\ Asked(t)'
      /\ role = "assistant" => Answers(t)' \in {Answers(t), Answers(t) \cup {Len(history) + 1}}
      /\ history' \in Seq(Entries)
  <2>1. CASE history' = Append(history, <<role, t, n>>)
    BY <2>1, Appends, AppendsApart DEF TurnsInv
  <2>2. CASE role = "assistant" /\ UNCHANGED history
    BY <2>2, SameHistory DEF TurnsInv, TypeInv, Apart
  <2> QED
    BY <2>1, <2>2
<1>6. Answers(t) = {}
  BY <1>1 DEF AnswerOf, SessionOf
<1>7. TypeInv'
  BY <1>1, <1>2, <1>4, <1>5, BoundsAssumption DEF TurnsInv, TypeInv, Loop
<1>8. \A q \in Turns \ {t} : SessionOf(q)' /\ AudioOf(q)' /\ AnswerOf(q)' /\ (q \in told => Silent(q)')
  BY <1>2, <1>4, <1>5, OthersKeep
<1>9. SessionOf(t)'
  <2>1. ~(t > started)
    BY <1>1 DEF SessionOf, Running, NewTurn
  <2> QED
    BY <1>1, <1>2, <1>4, <1>5, <2>1 DEF SessionOf, Running
<1>10. AudioOf(t)'
  BY <1>1, <1>4 DEF AudioOf, TurnRecords
<1>11. AnswerOf(t)'
  BY <1>1, <1>4, <1>5, <1>6 DEF AnswerOf, Running
<1>12. SessionInv'
  BY <1>2, <1>8, <1>9 DEF SessionInv
<1>13. CapturedInv'
  BY <1>3 DEF CapturedInv
<1>14. StartInv'
  BY DEF TurnsInv, StartInv
<1>15. HistoryOrdered'
  <2>1. UNCHANGED history => HistoryOrdered'
    BY DEF TurnsInv, HistoryOrdered
  <2> QED
    BY <2>1, OrderedAppends DEF TurnsInv
<1>16. \A q \in Turns : AudioOf(q)' /\ AnswerOf(q)' /\ (q \in told => Silent(q)')
  BY <1>3, <1>8, <1>10, <1>11
<1>17. told' = told /\ told \subseteq Turns
  BY DEF TurnsInv, TypeInv
<1> QED
  BY <1>7, <1>12, <1>13, <1>14, <1>15, <1>16, <1>17 DEF TurnsInv

LEMMA SendsTranscriptStep ==
  ASSUME TurnsInv, NEW t \in Turns, SendsTranscript(t)
  PROVE  TurnsInv'
<1>1. /\ turn[t].at = "transcript" /\ send_lock' = 0 /\ Running(t) /\ LoopAwaits
      /\ UNCHANGED <<speaking, started, told, loop>> /\ UNCHANGED client
  BY DEF SendsTranscript, Sends, Runs, Running, Reaches
<1>2. /\ turn[t] \in TurnRecords /\ client \in [Turns -> Clients]
      /\ turn[t].audio = "none" /\ response_state # t /\ ~turn[t].completed
      /\ SessionOf(t) /\ t # 0
  BY <1>1, AtState, TurnParts
<1>3. CASE /\ UNCHANGED history
           /\ Ends(t) \/ EndsWith(t, Evaluated(turn[t], "empty"))
  BY <1>1, <1>2, <1>3, EndsQuietly
<1>4. CASE /\ active = t /\ At(t, "created") /\ history' = Append(history, <<"user", t, 1>>)
           /\ response_state' = t /\ UNCHANGED <<active, response_task>>
  <2> DEFINE r == [turn[t] EXCEPT !.at = "created"]
  <2>1. turn' = [turn EXCEPT ![t] = r]
    BY <1>4 DEF At
  <2>2. /\ r \in TurnRecords /\ r.at = "created" /\ r.audio = "none"
        /\ r.emitted = turn[t].emitted /\ r.recorded = turn[t].recorded
        /\ r.evaluation = turn[t].evaluation /\ ~r.completed
    BY <1>2 DEF TurnRecords, TurnStates
  <2> HIDE DEF r
  <2>3. Fresh(t)
    BY <1>1, <1>2 DEF SessionOf
  <2> QED
    BY <1>1, <1>2, <1>4, <2>1, <2>2, <2>3, TaskAppends
<1> QED
  BY <1>3, <1>4 DEF SendsTranscript

LEMMA GeneratesStep ==
  ASSUME TurnsInv, NEW t \in Turns, Generates(t)
  PROVE  TurnsInv'
<1>1. /\ turn[t].at = "generate" /\ Running(t) /\ LoopAwaits
      /\ UNCHANGED <<speaking, started, send_lock, client, told, loop>>
  BY DEF Generates, Runs, Running
<1>2. /\ turn[t] \in TurnRecords /\ client \in [Turns -> Clients]
      /\ turn[t].audio = "none" /\ response_state = t /\ ~Fresh(t) /\ ~turn[t].completed
      /\ SessionOf(t) /\ t # 0 /\ send_lock # t
  BY <1>1, AtState, TurnParts DEF Emitting
<1>3. CASE Ends(t) /\ UNCHANGED history
  BY <1>1, <1>2, <1>3, EndsQuietly
<1>4. CASE /\ turn' = [turn EXCEPT ![t].at = "text", ![t].generated = @ + 1]
           /\ UNCHANGED sessionVars
  <2> DEFINE m == turn[t].generated + 1
             r == [turn[t] EXCEPT !.at = "text", !.generated = m]
  <2>1. turn' = [turn EXCEPT ![t] = r]
    BY <1>4
  <2>2. m \in Nat
    BY <1>2 DEF TurnRecords
  <2> HIDE DEF m
  <2>3. /\ r \in TurnRecords /\ r.at = "text" /\ r.audio = "none"
        /\ r.emitted = turn[t].emitted /\ r.recorded = turn[t].recorded
        /\ r.evaluation = turn[t].evaluation /\ r.completed = turn[t].completed
    BY <1>2, <2>2 DEF TurnRecords, TurnStates
  <2> HIDE DEF r
  <2> QED
    BY <1>1, <1>2, <1>4, <2>1, <2>3, GoesOn
<1>5. CASE /\ active = t
           /\ turn' = [turn EXCEPT ![t].at = "done", ![t].completed = TRUE]
           /\ history' = IF turn[t].generated = 0 THEN history
                         ELSE Append(history, <<"assistant", t, turn[t].generated>>)
           /\ UNCHANGED <<active, response_task, response_state>>
  <2> DEFINE r == [turn[t] EXCEPT !.at = "done", !.completed = TRUE]
  <2>1. turn' = [turn EXCEPT ![t] = r]
    BY <1>5
  <2>2. /\ r \in TurnRecords /\ r.at = "done" /\ r.audio = "none"
        /\ r.emitted = turn[t].emitted /\ r.recorded = turn[t].recorded
        /\ r.evaluation = turn[t].evaluation /\ r.completed
    BY <1>2 DEF TurnRecords, TurnStates
  <2> HIDE DEF r
  <2>3. Asked(t) /\ turn[t].generated \in Nat
    BY <1>2 DEF SessionOf, TurnRecords
  <2> QED
    BY <1>1, <1>2, <1>5, <2>1, <2>2, <2>3, TaskAppends
<1> QED
  BY <1>3, <1>4, <1>5 DEF Generates

LEMMA TurnStepKeeps ==
  ASSUME TurnsInv, NEW t \in Turns, TurnSteps(t) \/ AudioSteps(t)
  PROVE  TurnsInv'
  BY SimpleSteps, SpeakingSteps, CancelledStep, SendsTranscriptStep, GeneratesStep
     DEF TurnSteps, AudioSteps

-----------------------------------------------------------------------------
(* A step of the receive loop                                              *)

\* What the loop captures, when it looks at the tracked task.
LEMMA Tracked ==
  ASSUME TurnsInv, response_task # 0
  PROVE  LET t == response_task IN
         /\ t \in Turns /\ t \in 0..MaxTurns /\ Running(t) /\ t <= started
         /\ turn[t].evaluation # "interrupted" /\ ~turn[t].recorded
         /\ response_state \in {0, t}
         /\ response_state = 0 => Fresh(t)
         /\ response_state # 0 /\ ~turn[t].completed => Asked(t)
<1> DEFINE t == response_task
<1>1. t \in Turns /\ t \in 0..MaxTurns
  BY DEF TurnsInv, TypeInv, Turns
<1>2. SessionOf(t) /\ AnswerOf(t) /\ response_state \in {0, t}
  BY <1>1, TurnParts DEF TurnsInv, SessionInv
<1>3. Running(t)
  BY <1>2 DEF SessionOf
<1>4. ~(t > started) /\ started \in Nat
  BY <1>2, <1>3 DEF SessionOf, Running, NewTurn, TurnsInv, TypeInv
<1>5. t <= started
  BY <1>1, <1>4 DEF Turns
<1> QED
  BY <1>1, <1>2, <1>3, <1>5 DEF SessionOf, AnswerOf, Running

\* The turn that the loop has captured, if it has one.
LEMMA Captured ==
  ASSUME TurnsInv, loop.at \in Capturing, loop.at # "mark" \/ loop.invalidated \/ loop.task # 0
  PROVE  LET t == loop.task IN
         /\ t \in Turns /\ t # 0 /\ CapturedOf(t) /\ t <= started
         /\ turn[t] \in TurnRecords /\ client[t] \in Clients
         /\ SessionOf(t) /\ AudioOf(t) /\ AnswerOf(t) /\ loop.response \in {0, t}
         /\ loop.invalidated => active = 0
         /\ turn[t].at = "ended" => response_task = 0 /\ response_state = 0 /\ active = 0
         /\ turn[t].at = "ended" => client[t].audio = turn[t].emitted
<1> DEFINE t == loop.task
<1>1. /\ t # 0 /\ CapturedOf(t) /\ loop.response \in {0, t} /\ response_task \in {0, t}
      /\ loop.invalidated => active = 0
  BY DEF TurnsInv, CapturedInv
<1>2. loop \in Loops
  BY DEF TurnsInv, TypeInv
<1>3. t \in Turns
  BY <1>1, <1>2 DEF Loops, Turns
<1>4. /\ turn[t] \in TurnRecords /\ client[t] \in Clients
      /\ SessionOf(t) /\ AudioOf(t) /\ AnswerOf(t)
  BY <1>3, TurnParts
<1>5. turn[t].at = "ended" => response_task = 0 /\ response_state = 0 /\ active = 0
  BY <1>1, <1>4 DEF SessionOf, Running, TurnsInv, SessionInv
<1>6. turn[t].at = "ended" => client[t].audio = turn[t].emitted
  BY <1>4 DEF AudioOf, TurnRecords
<1> QED
  BY <1>1, <1>3, <1>4, <1>5, <1>6 DEF CapturedOf

\* A step of the loop that changes no turn but for the request to cancel it, and
\* tells the client no audio.
LEMMA LoopStep ==
  ASSUME TurnsInv, UNCHANGED <<started, response_task, response_state, history>>,
         active' \in {0, active}, speaking' \in BOOLEAN, loop' \in Loops,
         turn' \in [Turns -> TurnRecords],
         \A t \in Turns :
           \/ turn'[t] = turn[t]
           \/ /\ t <= started
              /\ turn'[t].at = turn[t].at /\ turn'[t].audio = turn[t].audio
              /\ turn'[t].emitted = turn[t].emitted /\ turn'[t].completed = turn[t].completed
              /\ turn'[t].recorded = turn[t].recorded /\ turn'[t].evaluation = turn[t].evaluation,
         client' \in [Turns -> Clients], \A t \in Turns : client'[t].audio = client[t].audio,
         send_lock' = send_lock \/ (send_lock' \in {0, Loop} /\ send_lock \in {0, Loop}),
         told \subseteq told', told' \subseteq Turns,
         \A t \in told' \ told : t <= started /\ Silent(t)',
         \A t \in Turns : /\ loop'.at \in {"cancelled", "truncated"} /\ loop'.response = t
                          /\ Answers(t) # {}
                          => turn[t].completed
                             \/ (loop.at \in {"cancelled", "truncated"} /\ loop.response = t),
         CapturedInv', StartInv'
  PROVE  TurnsInv'
<1>1. TypeInv'
  BY BoundsAssumption DEF TurnsInv, TypeInv, Loop
<1>2. \A t : Apart(t) /\ (Asked(t) => Asked(t)')
  BY SameHistory
<1>3. ASSUME NEW t \in Turns
      PROVE  SessionOf(t)' /\ AudioOf(t)' /\ AnswerOf(t)' /\ (t \in told' => Silent(t)')
  <2>1. /\ SessionOf(t) /\ AudioOf(t) /\ AnswerOf(t) /\ (t \in told => Silent(t))
        /\ t # 0 /\ t # Loop /\ t \in Nat /\ started \in Nat
    BY TurnParts DEF TurnsInv, TypeInv
  <2>2. /\ turn'[t].at = turn[t].at /\ turn'[t].audio = turn[t].audio
        /\ turn'[t].emitted = turn[t].emitted /\ turn'[t].completed = turn[t].completed
        /\ turn'[t].recorded = turn[t].recorded /\ turn'[t].evaluation = turn[t].evaluation
        /\ t > started => turn'[t] = turn[t] /\ (t \in told' => t \in told)
        /\ client'[t].audio = client[t].audio
    BY <2>1
  <2>3. Fresh(t) => Fresh(t)'
    BY <1>2, <2>2 DEF Fresh, Apart
  <2>4. SessionOf(t)'
    BY <1>2, <2>1, <2>2, <2>3 DEF SessionOf, Running
  <2>5. send_lock = t <=> send_lock' = t
    BY <2>1
  <2>6. AudioOf(t)'
    BY <2>1, <2>2, <2>5 DEF AudioOf
  <2>7. AnswerOf(t)'
    BY <1>2, <2>1, <2>2 DEF AnswerOf, Apart
  <2>8. t \in told => Silent(t)'
    BY <2>1, <2>2, <2>5 DEF Silent
  <2> QED
    BY <2>4, <2>6, <2>7, <2>8
<1>4. SessionInv'
  BY <1>3 DEF TurnsInv, SessionInv
<1>5. HistoryOrdered'
  BY DEF TurnsInv, HistoryOrdered
<1> QED
  BY <1>1, <1>3, <1>4, <1>5 DEF TurnsInv, TypeInv

\* A step of the loop that moves the loop alone, out of every capture or into one.
LEMMA LoopMoves ==
  ASSUME TurnsInv, UNCHANGED <<started, sessionVars, turn, client, told>>,
         speaking' \in BOOLEAN, loop' \in Loops,
         send_lock' = send_lock \/ (send_lock' \in {0, Loop} /\ send_lock \in {0, Loop}),
         loop'.at \in {"cancelled", "truncated"} =>
           loop.at = loop'.at /\ loop.response = loop'.response,
         CapturedInv', StartInv'
  PROVE  TurnsInv'
  BY LoopStep DEF TurnsInv, TypeInv, sessionVars

\* The tracked task is captured.
LEMMA CaptureTracked ==
  ASSUME TurnsInv, response_task # 0,
         UNCHANGED <<started, response_task, history, turn, client>>,
         loop'.task = response_task, loop'.response = response_state,
         \/ loop'.at = "cancel" /\ ~loop'.invalidated
         \/ /\ loop'.at = "mark" /\ (loop'.invalidated => active' = 0)
            /\ ~loop'.invalidated => response_state # 0 /\ turn[response_task].completed
  PROVE  CapturedInv'
<1> DEFINE t == response_task
<1>1. /\ t \in Turns /\ Running(t) /\ t <= started
      /\ turn[t].evaluation # "interrupted" /\ ~turn[t].recorded
      /\ response_state \in {0, t}
      /\ response_state = 0 => Fresh(t)
      /\ response_state # 0 /\ ~turn[t].completed => Asked(t)
  BY Tracked
<1> HIDE DEF t
<1>2. (Fresh(t) => Fresh(t)') /\ (Asked(t) => Asked(t)')
  BY DEF Fresh, Asked, Unmentioned, t
<1>3. CapturedOf(t)'
  BY <1>1, <1>2 DEF CapturedOf, t
<1> QED
  BY <1>1, <1>3 DEF CapturedInv, t

LEMMA IdleSteps ==
  ASSUME TurnsInv,
         SpeechStarted \/ SpeechStopped \/ Overflows \/ ClientCancels \/ Closes \/ ClosesRuntime
  PROVE  TurnsInv'
<1>1. /\ loop \in Loops /\ speaking \in BOOLEAN /\ started \in 0..MaxTurns /\ StartInv
      /\ response_task \in 0..MaxTurns /\ response_state \in 0..MaxTurns
      /\ 0 \in 0..MaxTurns
  BY BoundsAssumption DEF TurnsInv, TypeInv
<1>2. /\ Idle \in Loops /\ Idle.at = "idle" /\ Idle.task = 0 /\ Idle.after = "idle"
      /\ ~Idle.invalidated
  BY <1>1 DEF Idle, Loops, Capturing
<1>3. loop'.at \notin Capturing => CapturedInv'
  BY DEF CapturedInv
<1>4. CASE SpeechStarted
  <2> DEFINE barge == response_task # 0 /\ ~Committed(response_state)
             l == [loop EXCEPT !.at = "mark", !.task = response_task,
                               !.response = response_state, !.invalidated = barge]
  <2>1. /\ loop = Idle /\ speaking' = TRUE /\ started < MaxTurns
        /\ active' = (IF barge THEN 0 ELSE active) /\ loop' = l
        /\ UNCHANGED <<started, response_task, response_state, send_lock, history, turn, client,
                       told>>
    BY <1>1, <1>4 DEF SpeechStarted, StartInv
  <2>2. /\ l \in Loops /\ l.at = "mark" /\ l.task = response_task /\ l.response = response_state
        /\ l.invalidated = barge /\ l.after = "idle"
    BY <1>1, <2>1 DEF Loops, Capturing, Idle, Committed
  <2> HIDE DEF l
  <2>3. ~barge /\ response_task # 0 => response_state # 0 /\ turn[response_task].completed
    <3>1. response_state \in {0, response_task}
      BY DEF TurnsInv, SessionInv
    <3> QED
      BY <3>1 DEF Committed
  <2>4. response_task = 0 => ~barge /\ response_state = 0
    BY DEF TurnsInv, SessionInv
  <2>5. CapturedInv'
    <3>1. CASE response_task # 0
      BY <2>1, <2>2, <2>3, <3>1, CaptureTracked
    <3>2. CASE response_task = 0
      BY <2>1, <2>2, <2>4, <3>2 DEF CapturedInv
    <3> QED
      BY <3>1, <3>2
  <2>6. StartInv'
    BY <2>1, <2>2 DEF StartInv, Capturing
  <2>7. turn \in [Turns -> TurnRecords] /\ client \in [Turns -> Clients] /\ told \subseteq Turns
    BY DEF TurnsInv, TypeInv
  <2> HIDE DEF barge
  <2>8. active' \in {0, active} /\ loop' \in Loops /\ loop'.at = "mark"
    BY <2>1, <2>2
  <2> QED
    BY <2>1, <2>5, <2>6, <2>7, <2>8, LoopStep
<1>5. CASE SpeechStopped
  <2> DEFINE l == [loop EXCEPT !.at = "stop"]
  <2>1. /\ loop = Idle /\ speaking /\ speaking' = FALSE /\ loop' = l
        /\ UNCHANGED <<started, sessionVars, send_lock, turn, client, told>>
    BY <1>1, <1>5 DEF SpeechStopped, StartInv
  <2>2. l \in Loops /\ l.at = "stop" /\ l.after = "idle"
    BY <1>1, <2>1 DEF Loops, Idle
  <2> HIDE DEF l
  <2>3. StartInv'
    BY <1>1, <2>1, <2>2 DEF StartInv, Capturing
  <2>4. CapturedInv'
    BY <1>3, <2>1, <2>2 DEF Capturing
  <2> QED
    BY <2>1, <2>2, <2>3, <2>4, LoopMoves
<1>6. CASE Overflows
  <2>1. /\ loop = Idle /\ speaking' = FALSE /\ loop' = Idle
        /\ UNCHANGED <<started, sessionVars, send_lock, turn, client, told>>
    BY <1>1, <1>6 DEF Overflows, StartInv
  <2>2. StartInv' /\ CapturedInv'
    BY <1>2, <1>3, <2>1 DEF StartInv, Capturing
  <2> QED
    BY <1>2, <2>1, <2>2, LoopMoves
<1>7. ASSUME NEW after \in {"idle", "release"}, Capture(after), response_task # 0,
             loop.at \in {"idle", "close"},
             UNCHANGED <<speaking, started, sessionVars, send_lock, turn, client, told>>
      PROVE  TurnsInv'
  <2> DEFINE l == [loop EXCEPT !.at = "cancel", !.task = response_task,
                               !.response = response_state, !.invalidated = FALSE, !.after = after]
  <2>1. loop' = l
    BY <1>7 DEF Capture
  <2>2. /\ l \in Loops /\ l.at = "cancel" /\ l.task = response_task
        /\ l.response = response_state /\ ~l.invalidated /\ l.after = after
    BY <1>1, <1>7 DEF Loops, Capturing
  <2> HIDE DEF l
  <2>3. CapturedInv'
    BY <1>7, <2>1, <2>2, CaptureTracked DEF sessionVars
  <2>4. StartInv'
    BY <1>1, <1>7, <2>1, <2>2 DEF StartInv, Capturing
  <2> QED
    BY <1>1, <1>7, <2>1, <2>2, <2>3, <2>4, LoopMoves
<1>8. CASE ClientCancels
  BY <1>7, <1>8 DEF ClientCancels
<1>9. CASE Closes
  <2> DEFINE l == [Idle EXCEPT !.at = "close", !.closing = TRUE]
  <2>1. loop' = l /\ UNCHANGED <<speaking, started, sessionVars, send_lock, turn, client, told>>
    BY <1>9 DEF Closes
  <2>2. l \in Loops /\ l.at = "close"
    BY <1>1, <1>2 DEF Loops, Idle
  <2> HIDE DEF l
  <2>3. StartInv' /\ CapturedInv'
    BY <1>1, <1>3, <2>1, <2>2 DEF StartInv, Capturing
  <2> QED
    BY <1>1, <2>1, <2>2, <2>3, LoopMoves
<1>10. CASE ClosesRuntime
  <2>1. /\ loop.at = "close"
        /\ UNCHANGED <<speaking, started, sessionVars, send_lock, turn, client, told>>
    BY <1>10 DEF ClosesRuntime
  <2>2. CASE response_task # 0
    BY <1>7, <1>10, <2>1, <2>2 DEF ClosesRuntime
  <2>3. CASE response_task = 0
    <3> DEFINE l == [loop EXCEPT !.at = "release"]
    <3>1. loop' = l
      BY <1>10, <2>3 DEF ClosesRuntime
    <3>2. l \in Loops /\ l.at = "release"
      BY <1>1 DEF Loops
    <3> HIDE DEF l
    <3>3. StartInv' /\ CapturedInv'
      BY <1>1, <1>3, <2>1, <3>1, <3>2 DEF StartInv, Capturing
    <3> QED
      BY <1>1, <2>1, <3>1, <3>2, <3>3, LoopMoves
  <2> QED
    BY <2>2, <2>3
<1> QED
  BY <1>4, <1>5, <1>6, <1>8, <1>9, <1>10


LEMMA SameCaptured ==
  CapturedInv /\ UNCHANGED <<started, active, response_task, history, turn, client, loop>>
    => CapturedInv'
  BY DEF CapturedInv, CapturedOf, Fresh, Unmentioned, Asked, Remembered

LEMMA TurnKept ==
  ASSUME NEW t, UNCHANGED history, turn'[t].completed = turn[t].completed,
         turn'[t].emitted = turn[t].emitted, turn'[t].audio = turn[t].audio,
         client'[t].audio = client[t].audio
  PROVE  (Fresh(t) => Fresh(t)') /\ (Asked(t) => Asked(t)') /\ Remembered(t)' = Remembered(t)
  BY SameHistory DEF Fresh, Apart

LEMMA CapturedTurn ==
  ASSUME TurnsInv, loop.at \in Capturing, loop.at # "mark" \/ loop.invalidated \/ loop.task # 0
  PROVE  \E t \in Turns :
         /\ t = loop.task /\ t # 0 /\ CapturedOf(t) /\ t <= started
         /\ turn[t] \in TurnRecords /\ client[t] \in Clients
         /\ SessionOf(t) /\ AudioOf(t) /\ AnswerOf(t) /\ loop.response \in {0, t}
         /\ response_task \in {0, t}
         /\ loop.invalidated => active = 0
         /\ turn[t].at = "ended" => response_task = 0 /\ response_state = 0 /\ active = 0
         /\ turn[t].at = "ended" => client[t].audio = turn[t].emitted
<1>1. response_task \in {0, loop.task}
  BY DEF TurnsInv, CapturedInv
<1> QED
  BY <1>1, Captured

\* Nothing is in the history of a turn without an answer.
LEMMA Unanswered ==
  ASSUME NEW t, Answers(t) = {}
  PROVE  Remembered(t) = 0
  BY Remembers

LEMMA LockSteps ==
  ASSUME TurnsInv, Releases \/ LoopTakesLock \/ LoopSendFails \/ Disconnects
  PROVE  TurnsInv'
<1>1. /\ loop \in Loops /\ speaking \in BOOLEAN /\ StartInv /\ CapturedInv
      /\ UNCHANGED <<speaking, started, sessionVars, turn, client, told>>
  BY DEF TurnsInv, TypeInv, Releases, LoopTakesLock, LoopSendFails, Disconnects
<1>2. send_lock' = send_lock \/ (send_lock' \in {0, Loop} /\ send_lock \in {0, Loop})
  BY DEF Releases, LoopTakesLock, LoopSendFails, Disconnects
<1>3. ASSUME NEW at \in {"closed", "raised"}, loop' = [loop EXCEPT !.at = at]
      PROVE  TurnsInv'
  <2>1. loop' \in Loops /\ loop'.at = at
    BY <1>1, <1>3 DEF Loops
  <2>2. StartInv' /\ CapturedInv'
    BY <1>1, <2>1 DEF StartInv, CapturedInv, Capturing
  <2> QED
    BY <1>1, <1>2, <2>1, <2>2, LoopMoves
<1>4. ASSUME UNCHANGED loop
      PROVE  TurnsInv'
  <2>1. CapturedInv'
    BY <1>1, <1>4, SameCaptured DEF sessionVars
  <2>2. StartInv'
    BY <1>1, <1>4 DEF StartInv, sessionVars
  <2> QED
    BY <1>1, <1>2, <1>4, <2>1, <2>2, LoopMoves
<1> QED
  BY <1>3, <1>4 DEF Releases, LoopTakesLock, LoopSendFails, Disconnects

LEMMA SendsMarkStep ==
  ASSUME TurnsInv, SendsMark
  PROVE  TurnsInv'
<1> DEFINE l == [loop EXCEPT !.at = "cancel", !.after = "idle"]
<1>1. /\ loop.at = "mark" /\ send_lock = Loop /\ send_lock' = 0
      /\ UNCHANGED <<speaking, started, active, response_task, response_state, history, turn, client>>
      /\ told' = (IF loop.invalidated THEN told \cup {loop.task} ELSE told)
      /\ loop' = Idle \/ (loop' = l /\ CancelsAfterMark(loop.task))
  BY DEF SendsMark, LoopSends
<1>2. /\ loop \in Loops /\ speaking \in BOOLEAN /\ StartInv /\ Idle \in Loops
      /\ turn \in [Turns -> TurnRecords] /\ client \in [Turns -> Clients] /\ told \subseteq Turns
      /\ active \in 0..MaxTurns
  BY BoundsAssumption DEF TurnsInv, TypeInv, Idle, Loops
<1>3. l \in Loops /\ l.at = "cancel" /\ l.after = "idle" /\ l.task = loop.task
      /\ l.response = loop.response /\ l.invalidated = loop.invalidated
  BY <1>2 DEF Loops, Capturing
<1> HIDE DEF l
<1>4. loop' \in Loops /\ StartInv'
  <2>1. CASE loop' = Idle
    <3>1. Idle.at = "idle"
      BY DEF Idle
    <3> QED
      BY <1>1, <1>2, <2>1, <3>1 DEF StartInv, Capturing
  <2>2. CASE loop' = l
    BY <1>1, <1>2, <1>3, <2>2 DEF StartInv, Capturing
  <2> QED
    BY <1>1, <2>1, <2>2
<1>5. told' \subseteq Turns /\ \A t \in told' \ told : t <= started /\ Silent(t)'
  <2>1. CASE loop.invalidated
    <3>1. PICK t \in Turns : /\ t = loop.task /\ t # 0 /\ t <= started /\ AudioOf(t) /\ active = 0
      BY <1>1, <2>1, CapturedTurn DEF Capturing
    <3>2. Silent(t)'
      BY <1>1, <3>1, TurnParts DEF Silent, AudioOf
    <3> QED
      BY <1>1, <1>2, <2>1, <3>1, <3>2
  <2> QED
    BY <1>1, <1>2, <2>1
<1>6. CapturedInv'
  <2>1. CASE loop' = Idle
    BY <2>1 DEF CapturedInv, Idle, Capturing
  <2>2. CASE loop' = l /\ CancelsAfterMark(loop.task)
    <3>1. loop.invalidated \/ loop.task # 0
      BY <2>2 DEF CancelsAfterMark
    <3>2. PICK t \in Turns : /\ t = loop.task /\ t # 0 /\ CapturedOf(t) /\ loop.response \in {0, t}
                             /\ response_task \in {0, t} /\ (loop.invalidated => active = 0)
      BY <1>1, <3>1, CapturedTurn DEF Capturing
    <3>3. (Fresh(t) => Fresh(t)') /\ (Asked(t) => Asked(t)')
      BY <1>1, TurnKept
    <3>4. CapturedOf(t)'
      BY <1>1, <1>3, <2>2, <3>2, <3>3 DEF CapturedOf
    <3> QED
      BY <1>1, <1>3, <2>2, <3>2, <3>4 DEF CapturedInv
  <2> QED
    BY <1>1, <2>1, <2>2
<1>7. loop'.at \notin {"cancelled", "truncated"}
  BY <1>1, <1>3 DEF Idle
<1>8. told \subseteq told' /\ active' \in {0, active} /\ speaking' \in BOOLEAN
      /\ turn' \in [Turns -> TurnRecords] /\ client' \in [Turns -> Clients]
      /\ send_lock' \in {0, Loop} /\ send_lock \in {0, Loop}
      /\ UNCHANGED <<started, response_task, response_state, history>>
  BY <1>1, <1>2
<1>9. \A t \in Turns : turn'[t] = turn[t] /\ client'[t].audio = client[t].audio
  BY <1>1
<1> QED
  BY <1>4, <1>5, <1>6, <1>7, <1>8, <1>9, LoopStep

LEMMA SendsStopStep ==
  ASSUME TurnsInv, SendsStop
  PROVE  TurnsInv'
<1>1. /\ loop.at = "stop" /\ send_lock = Loop /\ send_lock' = 0
      /\ UNCHANGED <<speaking, started, active, response_task, response_state, history, turn,
                     client, told>>
      /\ IF response_task # 0 THEN Capture("start") ELSE loop' = [loop EXCEPT !.at = "start"]
  BY DEF SendsStop, LoopSends
<1>2. /\ loop \in Loops /\ speaking \in BOOLEAN /\ StartInv
      /\ response_task \in 0..MaxTurns /\ response_state \in 0..MaxTurns
  BY DEF TurnsInv, TypeInv
<1>3. started < MaxTurns /\ ~speaking
  BY <1>1, <1>2 DEF StartInv
<1>4. CASE response_task # 0
  <2> DEFINE l == [loop EXCEPT !.at = "cancel", !.task = response_task,
                               !.response = response_state, !.invalidated = FALSE,
                               !.after = "start"]
  <2>1. loop' = l
    BY <1>1, <1>4 DEF Capture
  <2>2. l \in Loops /\ l.at = "cancel" /\ l.task = response_task /\ l.response = response_state
        /\ ~l.invalidated
    BY <1>2 DEF Loops, Capturing
  <2> HIDE DEF l
  <2>3. CapturedInv'
    BY <1>1, <1>4, <2>1, <2>2, CaptureTracked
  <2>4. StartInv'
    BY <1>1, <1>2, <1>3, <2>1, <2>2 DEF StartInv
  <2> QED
    BY <1>1, <1>2, <2>1, <2>2, <2>3, <2>4, LoopMoves DEF sessionVars
<1>5. CASE response_task = 0
  <2> DEFINE l == [loop EXCEPT !.at = "start"]
  <2>1. loop' = l
    BY <1>1, <1>5
  <2>2. l \in Loops /\ l.at = "start"
    BY <1>2 DEF Loops
  <2> HIDE DEF l
  <2>3. CapturedInv' /\ StartInv'
    BY <1>1, <1>2, <1>3, <1>5, <2>1, <2>2 DEF StartInv, CapturedInv, Capturing
  <2> QED
    BY <1>1, <1>2, <2>1, <2>2, <2>3, LoopMoves DEF sessionVars
<1> QED
  BY <1>4, <1>5

LEMMA CancelsStep ==
  ASSUME TurnsInv, Cancels
  PROVE  TurnsInv'
<1>1. PICK t \in Turns : /\ t = loop.task /\ t # 0 /\ CapturedOf(t) /\ t <= started
                         /\ turn[t] \in TurnRecords
                         /\ loop.response \in {0, t} /\ response_task \in {0, t}
                         /\ loop.invalidated => active = 0
                         /\ turn[t].at = "ended" => active = 0
  BY CapturedTurn DEF Cancels, Capturing
<1>2. /\ loop.at = "cancel"
      /\ UNCHANGED <<speaking, started, response_task, response_state, send_lock, history, client,
                     told>>
  BY DEF Cancels
<1>3. /\ loop \in Loops /\ speaking \in BOOLEAN /\ StartInv
      /\ turn \in [Turns -> TurnRecords] /\ client \in [Turns -> Clients] /\ told \subseteq Turns
  BY DEF TurnsInv, TypeInv
<1>4. ~turn[t].recorded /\ turn[t].evaluation # "interrupted"
      /\ (loop.response = 0 => Fresh(t))
      /\ (loop.response # 0 /\ ~turn[t].completed => Asked(t))
  BY <1>1, <1>2 DEF CapturedOf
<1>5. ~Committed(loop.response) => ~turn[t].completed
  BY <1>1, <1>4 DEF Committed, Fresh
<1>6. ASSUME NEW at \in {"settle", "gather", "record"}, loop' = [loop EXCEPT !.at = at],
             active' \in {0, active}, turn' \in [Turns -> TurnRecords],
             \A q \in Turns \ {t} : turn'[q] = turn[q],
             turn'[t] \in {turn[t], [turn[t] EXCEPT !.cancelled = TRUE]},
             at = "settle" => loop.response # 0 /\ turn[t].completed,
             at # "settle" => active' = 0 /\ ~turn[t].completed,
             at = "record" => turn[t].at = "ended"
      PROVE  TurnsInv'
  <2>1. /\ loop' \in Loops /\ loop'.at = at /\ loop'.task = t /\ loop'.response = loop.response
        /\ loop'.invalidated = loop.invalidated /\ loop'.after = loop.after
    BY <1>1, <1>3, <1>6 DEF Loops, Capturing
  <2>2. /\ turn'[t].at = turn[t].at /\ turn'[t].audio = turn[t].audio
        /\ turn'[t].emitted = turn[t].emitted /\ turn'[t].completed = turn[t].completed
        /\ turn'[t].recorded = turn[t].recorded /\ turn'[t].evaluation = turn[t].evaluation
    BY <1>1, <1>6 DEF TurnRecords
  <2>3. (Fresh(t) => Fresh(t)') /\ (Asked(t) => Asked(t)')
    BY <1>2, <2>2, TurnKept
  <2>4. CapturedOf(t)'
    BY <1>1, <1>2, <1>4, <1>6, <2>1, <2>2, <2>3 DEF CapturedOf
  <2>5. CapturedInv'
    BY <1>1, <1>2, <1>6, <2>1, <2>4 DEF CapturedInv
  <2>6. StartInv'
    BY <1>2, <1>3, <2>1 DEF StartInv, Capturing
  <2>7. \A q \in Turns :
           \/ turn'[q] = turn[q]
           \/ /\ q <= started
              /\ turn'[q].at = turn[q].at /\ turn'[q].audio = turn[q].audio
              /\ turn'[q].emitted = turn[q].emitted /\ turn'[q].completed = turn[q].completed
              /\ turn'[q].recorded = turn[q].recorded /\ turn'[q].evaluation = turn[q].evaluation
    BY <1>1, <1>6, <2>2
  <2>8. loop'.at \notin {"cancelled", "truncated"} /\ told' \subseteq Turns /\ told' = told
        /\ client' \in [Turns -> Clients] /\ speaking' \in BOOLEAN
        /\ (\A q \in Turns : client'[q].audio = client[q].audio)
    BY <1>2, <1>3, <1>6, <2>1
  <2> QED
    BY <1>2, <1>6, <2>1, <2>5, <2>6, <2>7, <2>8, LoopStep
<1>7. CASE Committed(loop.response)
  <2>1. loop.response # 0 /\ turn[t].completed
    BY <1>1, <1>7 DEF Committed
  <2> QED
    BY <1>3, <1>6, <1>7, <2>1 DEF Cancels
<1>8. CASE ~Committed(loop.response) /\ turn[t].at = "ended"
  BY <1>1, <1>3, <1>5, <1>6, <1>8 DEF Cancels
<1>9. CASE ~Committed(loop.response) /\ turn[t].at # "ended"
  <2>1. /\ active' = 0 /\ turn' = [turn EXCEPT ![t].cancelled = TRUE]
        /\ loop' = [loop EXCEPT !.at = "gather"]
    BY <1>1, <1>9 DEF Cancels
  <2>2. [turn[t] EXCEPT !.cancelled = TRUE] \in TurnRecords
    BY <1>1 DEF TurnRecords
  <2>3. /\ turn'[t] = [turn[t] EXCEPT !.cancelled = TRUE]
        /\ (\A q \in Turns \ {t} : turn'[q] = turn[q]) /\ turn' \in [Turns -> TurnRecords]
    BY <1>3, <2>1, <2>2
  <2> QED
    BY <1>5, <1>6, <1>9, <2>1, <2>3
<1> QED
  BY <1>7, <1>8, <1>9

\* The loop resumes at the idle loop, with the start of a turn or with the release.
LEMMA Resumes ==
  ASSUME loop \in Loops, StartInv, speaking \in BOOLEAN, loop.at \in Capturing,
         loop' = Resume(loop), UNCHANGED <<speaking, started>>, response_task' = 0
  PROVE  loop' \in Loops /\ loop'.at \in {"idle", "start", "release"} /\ StartInv' /\ CapturedInv'
         /\ loop'.response \in {0, loop.response}
<1>1. CASE loop.after = "idle"
  <2>1. loop' = Idle /\ Idle.at = "idle" /\ Idle.response = 0 /\ Idle \in Loops
    BY <1>1, BoundsAssumption DEF Resume, Idle, Loops
  <2> QED
    BY <2>1 DEF StartInv, CapturedInv, Capturing
<1>2. CASE loop.after \in {"start", "release"}
  <2>1. loop' = [loop EXCEPT !.at = loop.after]
    BY <1>2 DEF Resume
  <2>2. loop' \in Loops /\ loop'.at = loop.after /\ loop'.response = loop.response
    BY <1>2, <2>1 DEF Loops
  <2> QED
    BY <1>2, <2>2 DEF StartInv, CapturedInv, Capturing
<1> QED
  BY <1>1, <1>2 DEF Loops

LEMMA GathersStep ==
  ASSUME TurnsInv, Gathers
  PROVE  TurnsInv'
<1>1. PICK t \in Turns : /\ t = loop.task /\ t # 0 /\ CapturedOf(t)
                         /\ loop.response \in {0, t} /\ response_task \in {0, t}
                         /\ loop.invalidated => active = 0
                         /\ turn[t].at = "ended" => response_task = 0 /\ active = 0
  BY CapturedTurn DEF Gathers, Capturing
<1>2. /\ turn[t].at = "ended"
      /\ UNCHANGED <<speaking, started, sessionVars, send_lock, turn, client, told>>
      /\ \/ loop.at = "settle" /\ loop' = Resume(loop)
         \/ loop.at = "gather" /\ loop' = [loop EXCEPT !.at = "record"]
  BY <1>1 DEF Gathers, TaskDone
<1>3. loop \in Loops /\ speaking \in BOOLEAN /\ StartInv
  BY DEF TurnsInv, TypeInv
<1>4. CASE loop.at = "settle" /\ loop' = Resume(loop)
  <2>1. loop' \in Loops /\ loop'.at \in {"idle", "start", "release"} /\ StartInv' /\ CapturedInv'
    BY <1>1, <1>2, <1>3, <1>4, Resumes DEF sessionVars, Capturing
  <2> QED
    BY <1>2, <1>3, <2>1, LoopMoves
<1>5. CASE loop.at = "gather" /\ loop' = [loop EXCEPT !.at = "record"]
  <2>1. /\ loop' \in Loops /\ loop'.at = "record" /\ loop'.task = t
        /\ loop'.response = loop.response /\ loop'.invalidated = loop.invalidated
        /\ loop'.after = loop.after
    BY <1>1, <1>3, <1>5 DEF Loops, Capturing
  <2>2. (Fresh(t) => Fresh(t)') /\ (Asked(t) => Asked(t)')
    BY <1>2, TurnKept DEF sessionVars
  <2>3. CapturedOf(t)'
    BY <1>1, <1>2, <1>5, <2>1, <2>2 DEF CapturedOf, sessionVars
  <2>4. CapturedInv'
    BY <1>1, <1>2, <2>1, <2>3 DEF CapturedInv, sessionVars
  <2>5. StartInv'
    BY <1>2, <1>3, <1>5, <2>1 DEF StartInv, Capturing
  <2> QED
    BY <1>2, <1>3, <2>1, <2>4, <2>5, LoopMoves
<1> QED
  BY <1>2, <1>4, <1>5

LEMMA SendsCancelledStep ==
  ASSUME TurnsInv, SendsCancelled
  PROVE  TurnsInv'
<1> DEFINE at == IF turn[loop.response].emitted > 0 THEN "truncated" ELSE "evaluate"
<1>1. /\ loop.at = "cancelled" /\ send_lock = Loop /\ send_lock' = 0
      /\ UNCHANGED <<speaking, started, active, response_task, response_state, history, turn>>
      /\ told' = told \cup {loop.response} /\ loop' = [loop EXCEPT !.at = at]
      /\ client' = [client EXCEPT ![loop.response].events = @ \cup {"cancelled"}]
  BY DEF SendsCancelled, LoopSends, Told
<1>2. PICK t \in Turns : /\ t = loop.task /\ t # 0 /\ CapturedOf(t) /\ t <= started
                         /\ client[t] \in Clients /\ turn[t] \in TurnRecords
                         /\ AudioOf(t) /\ AnswerOf(t)
                         /\ loop.response \in {0, t} /\ response_task \in {0, t}
                         /\ turn[t].at = "ended" => client[t].audio = turn[t].emitted
  BY <1>1, CapturedTurn DEF Capturing
<1>3. /\ loop.response = t /\ turn[t].recorded /\ turn[t].at = "ended" /\ active = 0
      /\ ~turn[t].completed /\ turn[t].evaluation # "interrupted" /\ Asked(t)
  BY <1>1, <1>2 DEF CapturedOf
<1>4. Answers(t) = {} /\ Remembered(t) = 0
  BY <1>1, <1>2, <1>3, Unanswered DEF AnswerOf
<1>5. /\ loop \in Loops /\ speaking \in BOOLEAN /\ StartInv
      /\ turn \in [Turns -> TurnRecords] /\ client \in [Turns -> Clients] /\ told \subseteq Turns
  BY DEF TurnsInv, TypeInv
<1>6. /\ at \in {"truncated", "evaluate"} /\ (at = "evaluate" => turn[t].emitted = 0)
  BY <1>2, <1>3 DEF TurnRecords
<1> HIDE DEF at
<1>7. /\ loop' \in Loops /\ loop'.at = at /\ loop'.task = t /\ loop'.response = t
      /\ loop'.invalidated = loop.invalidated /\ loop'.after = loop.after
  BY <1>1, <1>2, <1>3, <1>5, <1>6 DEF Loops, Capturing
<1>8. client' \in [Turns -> Clients] /\ \A q \in Turns : client'[q].audio = client[q].audio
  <2>1. [client[t] EXCEPT !.events = @ \cup {"cancelled"}] \in Clients
    BY <1>2 DEF Clients
  <2>2. client' = [client EXCEPT ![t] = [client[t] EXCEPT !.events = @ \cup {"cancelled"}]]
    BY <1>1, <1>3
  <2>3. [client[t] EXCEPT !.events = @ \cup {"cancelled"}].audio = client[t].audio
    BY <1>2 DEF Clients
  <2> QED
    BY <1>5, <2>1, <2>2, <2>3
<1>9. (Asked(t) => Asked(t)') /\ Remembered(t)' = Remembered(t)
  BY <1>1, <1>8, TurnKept
<1>10. CapturedOf(t)'
  BY <1>1, <1>2, <1>3, <1>4, <1>6, <1>7, <1>8, <1>9 DEF CapturedOf
<1>11. CapturedInv'
  BY <1>1, <1>2, <1>3, <1>6, <1>7, <1>10 DEF CapturedInv
<1>12. StartInv'
  BY <1>1, <1>5, <1>6, <1>7 DEF StartInv, Capturing
<1>13. Silent(t)'
  BY <1>1, <1>2, <1>3 DEF Silent, AudioOf
<1>14. told \subseteq told' /\ told' \subseteq Turns
       /\ \A q \in told' \ told : q <= started /\ Silent(q)'
  BY <1>1, <1>2, <1>3, <1>5, <1>13
<1>15. \A q \in Turns : loop'.response = q => loop.at = "cancelled" /\ loop.response = q
  BY <1>1, <1>3, <1>7
<1>16. /\ active' \in {0, active} /\ speaking' \in BOOLEAN /\ turn' \in [Turns -> TurnRecords]
       /\ send_lock' \in {0, Loop} /\ send_lock \in {0, Loop}
       /\ \A q \in Turns : turn'[q] = turn[q]
  BY <1>1, <1>5
<1> QED
  BY <1>1, <1>7, <1>8, <1>11, <1>12, <1>14, <1>15, <1>16, LoopStep

\* What the loop records of a turn that has ended.
LEMMA EndedStep ==
  ASSUME TurnsInv, NEW t \in Turns, turn[t].at = "ended", t <= started,
         UNCHANGED <<speaking, started, told>>,
         response_task = 0, response_state = 0, active = 0,
         response_task' = 0, response_state' = 0, active' = 0,
         send_lock' = send_lock \/ (send_lock' = 0 /\ send_lock = Loop),
         turn' \in [Turns -> TurnRecords], client' \in [Turns -> Clients],
         turn'[t].at = "ended", turn'[t].audio = turn[t].audio,
         turn'[t].emitted = turn[t].emitted, turn'[t].completed = turn[t].completed,
         client'[t].audio = client[t].audio,
         \A q \in Turns \ {t} : turn'[q] = turn[q] /\ client'[q] = client[q] /\ Apart(q),
         history' \in Seq(Entries), HistoryOrdered', loop' \in Loops,
         loop.response \in {0, t}, loop'.response \in {0, t},
         AnswerOf(t)', CapturedInv', StartInv'
  PROVE  TurnsInv'
<1>1. TypeInv'
  BY BoundsAssumption DEF TurnsInv, TypeInv, Loop
<1>2. ASSUME NEW q \in Turns
      PROVE  /\ SessionOf(q) /\ AudioOf(q) /\ AnswerOf(q) /\ (q \in told => Silent(q))
             /\ (send_lock' = q <=> send_lock = q) /\ q # 0
             /\ ~Running(q) /\ ~Running(q)'
  <2>1. /\ SessionOf(q) /\ AudioOf(q) /\ AnswerOf(q) /\ (q \in told => Silent(q))
        /\ (send_lock' = q <=> send_lock = q) /\ q # 0
    BY TurnParts
  <2>2. ~Running(q)
    BY <2>1 DEF SessionOf
  <2>3. ~Running(q)'
    BY <2>2 DEF Running
  <2> QED
    BY <2>1, <2>2, <2>3
<1>3. ASSUME NEW q \in Turns \ {t}
      PROVE  SessionOf(q)' /\ AudioOf(q)' /\ AnswerOf(q)' /\ (q \in told' => Silent(q)')
  <2>1. Fresh(q) => Fresh(q)'
    BY <1>3 DEF Fresh, Apart
  <2>2. SessionOf(q)'
    BY <1>2, <2>1 DEF SessionOf
  <2>3. AudioOf(q)' /\ (q \in told' => Silent(q)')
    BY <1>2 DEF AudioOf, Silent
  <2>4. AnswerOf(q)'
    BY <1>2, <1>3 DEF AnswerOf, Apart
  <2> QED
    BY <2>2, <2>3, <2>4
<1>4. ~(t > started)
  BY DEF TurnsInv, TypeInv, Turns
<1>5. SessionOf(t)'
  BY <1>2, <1>4 DEF SessionOf
<1>6. AudioOf(t)' /\ (t \in told' => Silent(t)')
  BY <1>2 DEF AudioOf, Silent
<1>7. SessionInv'
  BY <1>3, <1>5 DEF SessionInv
<1>8. \A q \in Turns : AudioOf(q)' /\ AnswerOf(q)' /\ (q \in told' => Silent(q)')
  BY <1>3, <1>6
<1>9. told' \subseteq Turns
  BY DEF TurnsInv, TypeInv
<1> QED
  BY <1>1, <1>7, <1>8, <1>9 DEF TurnsInv

LEMMA RecordsStep ==
  ASSUME TurnsInv, Records
  PROVE  TurnsInv'
<1>1. /\ loop.at = "record"
      /\ UNCHANGED <<speaking, started, active, response_task, response_state, history, send_lock,
                     client, told>>
  BY DEF Records, sessionVars
<1>2. PICK t \in Turns : /\ t = loop.task /\ t # 0 /\ CapturedOf(t) /\ t <= started
                         /\ turn[t] \in TurnRecords /\ client[t] \in Clients
                         /\ SessionOf(t) /\ AnswerOf(t)
                         /\ loop.response \in {0, t} /\ response_task \in {0, t}
                         /\ turn[t].at = "ended" => response_task = 0 /\ response_state = 0
  BY <1>1, CapturedTurn DEF Capturing
<1>3. /\ turn[t].at = "ended" /\ active = 0 /\ ~turn[t].completed /\ ~turn[t].recorded
      /\ turn[t].evaluation # "interrupted"
      /\ (loop.response = 0 => Fresh(t)) /\ (loop.response # 0 => Asked(t))
  BY <1>1, <1>2 DEF CapturedOf
<1>4. Answers(t) = {} /\ Remembered(t) = 0
  BY <1>2, <1>3, Unanswered DEF AnswerOf
<1>5. /\ loop \in Loops /\ speaking \in BOOLEAN /\ StartInv /\ HistoryOrdered
      /\ turn \in [Turns -> TurnRecords] /\ client \in [Turns -> Clients]
      /\ history \in Seq(Entries)
  BY DEF TurnsInv, TypeInv
<1>6. ASSUME NEW at \in {"cancelled", "evaluate"}, loop' = [loop EXCEPT !.at = at]
      PROVE  /\ loop' \in Loops /\ loop'.at = at /\ loop'.task = t
             /\ loop'.response = loop.response /\ loop'.invalidated = loop.invalidated
             /\ loop'.after = loop.after /\ StartInv'
  <2>1. /\ loop' \in Loops /\ loop'.at = at /\ loop'.task = t
        /\ loop'.response = loop.response /\ loop'.invalidated = loop.invalidated
        /\ loop'.after = loop.after
    BY <1>2, <1>5, <1>6 DEF Loops, Capturing
  <2> QED
    BY <1>1, <1>5, <2>1 DEF StartInv, Capturing
<1>7. CASE loop.response # 0
  <2>1. /\ turn' = [turn EXCEPT ![t].recorded = TRUE] /\ loop' = [loop EXCEPT !.at = "cancelled"]
        /\ loop.response = t
    BY <1>2, <1>3, <1>7 DEF Records
  <2> DEFINE r == [turn[t] EXCEPT !.recorded = TRUE]
  <2>2. /\ r \in TurnRecords /\ r.at = "ended" /\ r.audio = turn[t].audio /\ r.recorded
        /\ r.emitted = turn[t].emitted /\ r.completed = turn[t].completed
        /\ r.evaluation = turn[t].evaluation
    BY <1>2, <1>3 DEF TurnRecords
  <2>3. turn' = [turn EXCEPT ![t] = r]
    BY <2>1
  <2> HIDE DEF r
  <2>4. /\ turn'[t] = r /\ (\A q \in Turns \ {t} : turn'[q] = turn[q])
        /\ turn' \in [Turns -> TurnRecords]
    BY <1>5, <2>2, <2>3
  <2>5. /\ (Fresh(t) => Fresh(t)') /\ (Asked(t) => Asked(t)') /\ Remembered(t)' = Remembered(t)
    BY <1>1, <2>2, <2>4, TurnKept
  <2>6. Answers(t)' = Answers(t) /\ \A q : Apart(q)
    BY <1>1, SameHistory DEF Apart
  <2>7. CapturedOf(t)'
    BY <1>1, <1>2, <1>3, <1>6, <2>1, <2>2, <2>4, <2>5 DEF CapturedOf
  <2>8. CapturedInv'
    BY <1>1, <1>2, <1>3, <1>6, <2>1, <2>7 DEF CapturedInv
  <2>9. AnswerOf(t)'
    BY <1>3, <1>4, <2>2, <2>4, <2>6 DEF AnswerOf
  <2>10. HistoryOrdered' /\ history' \in Seq(Entries) /\ client' \in [Turns -> Clients]
    BY <1>1, <1>5 DEF HistoryOrdered
  <2> QED
    BY <1>1, <1>2, <1>3, <1>6, <2>1, <2>2, <2>4, <2>6, <2>8, <2>9, <2>10, EndedStep
<1>8. CASE loop.response = 0
  <2>1. UNCHANGED turn /\ loop' = [loop EXCEPT !.at = "evaluate"]
    BY <1>8 DEF Records
  <2>2. (Fresh(t) => Fresh(t)') /\ (Asked(t) => Asked(t)') /\ Remembered(t)' = Remembered(t)
    BY <1>1, <2>1, TurnKept
  <2>3. Remembered(t) = client[t].audio
    BY <1>3, <1>4, <1>8 DEF Fresh
  <2>4. CapturedOf(t)'
    BY <1>1, <1>2, <1>3, <1>6, <1>8, <2>1, <2>2, <2>3 DEF CapturedOf
  <2>5. CapturedInv'
    BY <1>1, <1>2, <1>3, <1>6, <2>1, <2>4 DEF CapturedInv
  <2> QED
    BY <1>1, <1>5, <1>6, <2>1, <2>5, LoopMoves DEF sessionVars
<1> QED
  BY <1>7, <1>8

LEMMA SendsTruncatedStep ==
  ASSUME TurnsInv, SendsTruncated
  PROVE  TurnsInv'
<1>1. /\ loop.at = "truncated" /\ send_lock = Loop /\ send_lock' = 0
      /\ UNCHANGED <<speaking, started, active, response_task, response_state, turn, told>>
      /\ loop' = [loop EXCEPT !.at = "evaluate"]
      /\ client' = [client EXCEPT ![loop.response].events = @ \cup {"truncated"}]
      /\ history' = Append(history, <<"assistant", loop.response, turn[loop.response].emitted>>)
  BY DEF SendsTruncated, LoopSends, Told
<1>2. PICK t \in Turns : /\ t = loop.task /\ t # 0 /\ CapturedOf(t) /\ t <= started
                         /\ turn[t] \in TurnRecords /\ client[t] \in Clients
                         /\ AnswerOf(t) /\ loop.response \in {0, t} /\ response_task \in {0, t}
                         /\ turn[t].at = "ended" => /\ response_task = 0 /\ response_state = 0
                                                    /\ client[t].audio = turn[t].emitted
  BY <1>1, CapturedTurn DEF Capturing
<1>3. /\ loop.response = t /\ turn[t].recorded /\ turn[t].at = "ended" /\ active = 0
      /\ ~turn[t].completed /\ turn[t].evaluation # "interrupted" /\ Asked(t)
  BY <1>1, <1>2 DEF CapturedOf
<1>4. Answers(t) = {}
  BY <1>1, <1>2, <1>3 DEF AnswerOf
<1>5. /\ loop \in Loops /\ speaking \in BOOLEAN /\ StartInv /\ HistoryOrdered /\ TypeInv
      /\ turn \in [Turns -> TurnRecords] /\ client \in [Turns -> Clients]
  BY DEF TurnsInv, TypeInv
<1> DEFINE n == turn[t].emitted
<1>6. n \in Nat /\ history' = Append(history, <<"assistant", t, n>>) /\ client[t].audio = n
  BY <1>1, <1>2, <1>3 DEF TurnRecords
<1>7. /\ loop' \in Loops /\ loop'.at = "evaluate" /\ loop'.task = t /\ loop'.response = t
      /\ loop'.invalidated = loop.invalidated /\ loop'.after = loop.after
  BY <1>1, <1>2, <1>3, <1>5 DEF Loops, Capturing
<1>8. /\ client' \in [Turns -> Clients] /\ client'[t].audio = client[t].audio
      /\ \A q \in Turns \ {t} : client'[q] = client[q]
  <2>1. /\ [client[t] EXCEPT !.events = @ \cup {"truncated"}] \in Clients
        /\ [client[t] EXCEPT !.events = @ \cup {"truncated"}].audio = client[t].audio
    BY <1>2 DEF Clients
  <2>2. client' = [client EXCEPT ![t] = [client[t] EXCEPT !.events = @ \cup {"truncated"}]]
    BY <1>1, <1>3
  <2> QED
    BY <1>5, <2>1, <2>2
<1> HIDE DEF n
<1>9. /\ history' \in Seq(Entries) /\ HistoryOrdered' /\ (\A q \in Turns \ {t} : Apart(q))
      /\ Answers(t)' = {Len(history) + 1} /\ history'[Len(history) + 1] = <<"assistant", t, n>>
  BY <1>3, <1>4, <1>5, <1>6, Appends, AppendsApart, OrderedAppends
<1>10. Remembered(t)' = n
  <2>1. Remembered(t)' = IF Answers(t)' = {} THEN 0
                         ELSE history'[CHOOSE i \in Answers(t)' : TRUE][3]
    BY DEF Remembered, Answers
  <2>2. (CHOOSE i \in {Len(history) + 1} : TRUE) = Len(history) + 1
    OBVIOUS
  <2>3. history'[Len(history) + 1][3] = n
    BY <1>9
  <2> QED
    BY <1>9, <2>1, <2>2, <2>3
<1>11. CapturedOf(t)'
  BY <1>1, <1>2, <1>3, <1>6, <1>7, <1>8, <1>10 DEF CapturedOf
<1>12. CapturedInv'
  BY <1>1, <1>2, <1>3, <1>7, <1>11 DEF CapturedInv
<1>13. StartInv'
  BY <1>1, <1>5, <1>7 DEF StartInv, Capturing
<1>14. AnswerOf(t)'
  BY <1>1, <1>3, <1>7, <1>9 DEF AnswerOf
<1>15. /\ turn' \in [Turns -> TurnRecords] /\ response_task = 0 /\ response_state = 0
       /\ response_task' = 0 /\ response_state' = 0 /\ active' = 0
  BY <1>1, <1>2, <1>3, <1>5
<1> QED
  BY <1>1, <1>2, <1>3, <1>7, <1>8, <1>9, <1>12, <1>13, <1>14, <1>15, EndedStep

LEMMA EvaluatesStep ==
  ASSUME TurnsInv, Evaluates
  PROVE  TurnsInv'
<1>1. /\ loop.at = "evaluate" /\ loop' = Resume(loop)
      /\ UNCHANGED <<speaking, started, active, send_lock, history, client, told>>
      /\ turn' = [turn EXCEPT ![loop.task] = Evaluated(@, "interrupted")]
      /\ IF response_task = loop.task THEN response_task' = 0 /\ response_state' = 0
                                      ELSE UNCHANGED <<response_task, response_state>>
  BY DEF Evaluates, Untracked
<1>2. PICK t \in Turns : /\ t = loop.task /\ t # 0 /\ CapturedOf(t) /\ t <= started
                         /\ turn[t] \in TurnRecords
                         /\ AnswerOf(t) /\ loop.response \in {0, t}
                         /\ turn[t].at = "ended" => response_task = 0 /\ response_state = 0
  BY <1>1, CapturedTurn DEF Capturing
<1>3. /\ turn[t].at = "ended" /\ active = 0 /\ ~turn[t].completed
      /\ Remembered(t) = client[t].audio
  BY <1>1, <1>2 DEF CapturedOf
<1>4. /\ loop \in Loops /\ speaking \in BOOLEAN /\ StartInv /\ HistoryOrdered
      /\ turn \in [Turns -> TurnRecords] /\ client \in [Turns -> Clients]
      /\ history \in Seq(Entries)
  BY DEF TurnsInv, TypeInv
<1>5. response_task = 0 /\ response_state = 0 /\ response_task' = 0 /\ response_state' = 0
  BY <1>1, <1>2, <1>3
<1>6. /\ loop' \in Loops /\ loop'.at \in {"idle", "start", "release"} /\ StartInv' /\ CapturedInv'
      /\ loop'.response \in {0, t}
  BY <1>1, <1>2, <1>4, <1>5, Resumes DEF Capturing
<1> DEFINE r == Evaluated(turn[t], "interrupted")
<1>7. /\ r \in TurnRecords /\ r.at = "ended" /\ r.audio = turn[t].audio
      /\ r.emitted = turn[t].emitted /\ r.completed = turn[t].completed
      /\ r.recorded = turn[t].recorded
  BY <1>2, <1>3 DEF Evaluated, TurnRecords
<1>8. turn' = [turn EXCEPT ![t] = r]
  BY <1>1, <1>2
<1> HIDE DEF r
<1>9. /\ turn'[t] = r /\ (\A q \in Turns \ {t} : turn'[q] = turn[q])
      /\ turn' \in [Turns -> TurnRecords]
  BY <1>4, <1>7, <1>8
<1>10. Answers(t)' = Answers(t) /\ Remembered(t)' = Remembered(t) /\ \A q : Apart(q)
  BY <1>1, SameHistory DEF Apart
<1>11. AnswerOf(t)'
  BY <1>1, <1>2, <1>3, <1>6, <1>7, <1>9, <1>10 DEF AnswerOf
<1>12. /\ HistoryOrdered' /\ history' \in Seq(Entries) /\ client' \in [Turns -> Clients]
       /\ client' = client /\ active' = 0
  BY <1>1, <1>3, <1>4 DEF HistoryOrdered
<1> QED
  BY <1>1, <1>2, <1>3, <1>5, <1>6, <1>7, <1>9, <1>10, <1>11, <1>12, EndedStep

LEMMA StartTurnStep ==
  ASSUME TurnsInv, StartTurn
  PROVE  TurnsInv'
<1>1. /\ loop \in Loops /\ speaking \in BOOLEAN /\ StartInv /\ HistoryOrdered
      /\ started \in 0..MaxTurns /\ told \subseteq Turns /\ Idle \in Loops
      /\ turn \in [Turns -> TurnRecords] /\ client \in [Turns -> Clients]
  BY BoundsAssumption DEF TurnsInv, TypeInv, Idle, Loops
<1>2. /\ loop.at = "start" /\ loop' = Idle
      /\ UNCHANGED <<speaking, response_state, send_lock, history, client, told>>
      /\ started' = started + 1 /\ active' = started + 1 /\ response_task' = started + 1
      /\ turn' = [turn EXCEPT ![started + 1].at = "transcribe"]
  BY DEF StartTurn, At
<1>3. started < MaxTurns /\ ~speaking /\ response_task = 0 /\ response_state = 0 /\ active = 0
  BY <1>1, <1>2 DEF StartInv, TurnsInv, SessionInv
<1>4. PICK t \in Turns : t = started + 1 /\ t > started /\ t \in 0..MaxTurns
  BY <1>1, <1>3, BoundsAssumption DEF Turns
<1>5. /\ turn[t] = NewTurn /\ Fresh(t) /\ t \notin told /\ AudioOf(t) /\ AnswerOf(t)
      /\ t # 0
  BY <1>4, TurnParts DEF SessionOf
<1> DEFINE r == [NewTurn EXCEPT !.at = "transcribe"]
<1>6. r \in TurnRecords /\ r.at = "transcribe" /\ r = [turn[t] EXCEPT !.at = "transcribe"]
      /\ r.audio = "none" /\ r.emitted = 0 /\ ~r.completed /\ ~r.recorded
      /\ r.evaluation = "none"
  BY <1>5 DEF NewTurn, TurnRecords, TurnStates
<1>7. turn' = [turn EXCEPT ![t] = r]
  BY <1>1, <1>2, <1>4, <1>5, <1>6
<1> HIDE DEF r
<1>8. /\ turn'[t] = r /\ (\A q \in Turns \ {t} : turn'[q] = turn[q])
      /\ turn' \in [Turns -> TurnRecords]
  BY <1>1, <1>2, <1>4, <1>6, <1>7
<1>9. \A q : Apart(q)
  BY <1>1, <1>2, <1>4, SameHistory
<1>10. TypeInv'
  BY <1>1, <1>2, <1>4, <1>8 DEF TurnsInv, TypeInv
<1>11. Fresh(t)' /\ Answers(t)' = Answers(t)
  BY <1>1, <1>2, <1>4, <1>5, <1>6, <1>8, <1>9 DEF Fresh, Apart
<1>12. SessionOf(t)'
  BY <1>1, <1>2, <1>4, <1>3, <1>5, <1>6, <1>8, <1>11 DEF SessionOf, Running
<1>13. AudioOf(t)'
  <2>1. ~(send_lock = t)
    BY <1>5 DEF AudioOf, NewTurn, Emitting
  <2> QED
    BY <1>1, <1>2, <1>4, <1>5, <1>6, <1>8, <2>1 DEF AudioOf, NewTurn
<1>14. AnswerOf(t)'
  <2>1. Answers(t) = {}
    BY <1>5 DEF AnswerOf, NewTurn
  <2> QED
    BY <1>6, <1>8, <1>11, <2>1 DEF AnswerOf
<1>15. ASSUME NEW q \in Turns \ {t}
       PROVE  SessionOf(q)' /\ AudioOf(q)' /\ AnswerOf(q)' /\ (q \in told' => Silent(q)')
  <2>1. /\ SessionOf(q) /\ AudioOf(q) /\ AnswerOf(q) /\ (q \in told => Silent(q)) /\ q # 0
        /\ q \in Nat /\ started \in Nat
    BY <1>1, <1>2, <1>4, TurnParts
  <2>2. ~Running(q) /\ ~Running(q)'
    BY <1>3, <1>8, <2>1 DEF SessionOf, Running
  <2>3. Fresh(q) => Fresh(q)'
    BY <1>1, <1>2, <1>4, <1>8, <1>9 DEF Fresh, Apart
  <2>4. q > started' => q > started
    BY <1>1, <1>2, <1>4, <2>1
  <2>5. SessionOf(q)'
    BY <1>1, <1>2, <1>4, <1>3, <1>8, <2>1, <2>2, <2>3, <2>4 DEF SessionOf
  <2>6. AudioOf(q)'
    BY <1>1, <1>2, <1>4, <1>8, <2>1 DEF AudioOf
  <2>7. q \in told' => Silent(q)'
    BY <1>1, <1>2, <1>4, <1>8, <2>1 DEF Silent
  <2>8. Answers(q)' = Answers(q) /\ Remembered(q)' = Remembered(q)
    BY <1>9 DEF Apart
  <2>9. AnswerOf(q)'
    BY <1>1, <1>2, <1>4, <1>8, <2>1, <2>8 DEF AnswerOf, Idle
  <2> QED
    BY <2>5, <2>6, <2>7, <2>9
<1>16. SessionInv'
  BY <1>1, <1>2, <1>4, <1>3, <1>12, <1>15 DEF SessionInv
<1>17. CapturedInv' /\ StartInv'
  BY <1>1, <1>2, <1>4, <1>3 DEF CapturedInv, StartInv, Idle, Capturing
<1>18. HistoryOrdered'
  BY <1>1, <1>2, <1>4 DEF HistoryOrdered
<1>19. \A q \in Turns : AudioOf(q)' /\ AnswerOf(q)'
  BY <1>13, <1>14, <1>15
<1>20. \A q \in told' : Silent(q)'
  BY <1>1, <1>2, <1>4, <1>5, <1>15
<1> QED
  BY <1>10, <1>16, <1>17, <1>18, <1>19, <1>20 DEF TurnsInv

-----------------------------------------------------------------------------
(* The theorems                                                            *)

LEMMA TurnsInvInit == Init => TurnsInv
<1> SUFFICES ASSUME Init PROVE TurnsInv
  OBVIOUS
<1>1. /\ speaking = FALSE /\ started = 0 /\ active = 0 /\ response_task = 0 /\ response_state = 0
      /\ send_lock = 0 /\ history = <<>> /\ told = {} /\ loop = Idle
      /\ turn = [t \in Turns |-> NewTurn] /\ client = [t \in Turns |-> NewClient]
      /\ MaxTurns \in Nat \ {0}
  BY BoundsAssumption DEF Init
<1>2. NewTurn \in TurnRecords /\ NewClient \in Clients /\ Idle \in Loops
  BY <1>1 DEF NewTurn, TurnRecords, TurnStates, NewClient, Clients, Idle, Loops, Capturing
<1>3. history \in Seq(Entries) /\ DOMAIN history = {} /\ Len(history) = 0
  BY <1>1
<1>4. TypeInv
  <2>1. 0 \in 0..MaxTurns /\ 0 \in 0..Loop
    BY <1>1 DEF Loop
  <2>2. turn \in [Turns -> TurnRecords] /\ client \in [Turns -> Clients]
    BY <1>1, <1>2
  <2> QED
    BY <1>1, <1>2, <1>3, <2>1, <2>2 DEF TypeInv
<1>5. ASSUME NEW t \in Turns
      PROVE  SessionOf(t) /\ AudioOf(t) /\ AnswerOf(t)
  <2>1. t \in Nat /\ t # 0 /\ turn[t] = NewTurn /\ client[t] = NewClient
    BY <1>1 DEF Turns
  <2>2. Answers(t) = {} /\ Unmentioned(t)
    BY <1>3 DEF Answers, Unmentioned
  <2>3. Fresh(t) /\ ~Running(t)
    BY <2>1, <2>2 DEF Fresh, Running, NewTurn, NewClient
  <2>4. SessionOf(t)
    BY <1>1, <2>1, <2>3 DEF SessionOf, NewTurn
  <2>5. AudioOf(t) /\ AnswerOf(t)
    BY <1>1, <2>1, <2>2 DEF AudioOf, AnswerOf, NewTurn, NewClient
  <2> QED
    BY <2>4, <2>5
<1>6. SessionInv
  BY <1>1, <1>5 DEF SessionInv
<1>7. CapturedInv /\ StartInv
  BY <1>1 DEF CapturedInv, StartInv, Idle, Capturing
<1>8. HistoryOrdered
  BY <1>3 DEF HistoryOrdered
<1> QED
  BY <1>1, <1>4, <1>5, <1>6, <1>7, <1>8 DEF TurnsInv

LEMMA TurnsInvNext == TurnsInv /\ [Next]_vars => TurnsInv'
<1> SUFFICES ASSUME TurnsInv, [Next]_vars PROVE TurnsInv'
  OBVIOUS
<1>1. CASE UNCHANGED vars
  <2>1. /\ loop \in Loops /\ speaking \in BOOLEAN /\ StartInv /\ CapturedInv
        /\ UNCHANGED <<speaking, started, sessionVars, turn, client, told, loop, send_lock>>
    BY <1>1 DEF TurnsInv, TypeInv, vars
  <2>2. CapturedInv' /\ StartInv'
    BY <2>1, SameCaptured DEF StartInv, sessionVars
  <2> QED
    BY <2>1, <2>2, LoopMoves
<1>2. CASE SpeechStarted \/ SpeechStopped \/ Overflows \/ ClientCancels \/ Closes \/ ClosesRuntime
  BY <1>2, IdleSteps
<1>3. CASE Releases \/ LoopTakesLock \/ LoopSendFails \/ Disconnects
  BY <1>3, LockSteps
<1>4. CASE Cancels \/ Records \/ Evaluates \/ StartTurn \/ Gathers
  BY <1>4, CancelsStep, RecordsStep, EvaluatesStep, StartTurnStep, GathersStep
<1>5. CASE SendsMark \/ SendsStop \/ SendsCancelled \/ SendsTruncated
  BY <1>5, SendsMarkStep, SendsStopStep, SendsCancelledStep, SendsTruncatedStep
<1>6. CASE \E t \in Turns : TurnSteps(t) \/ AudioSteps(t)
  BY <1>6, TurnStepKeeps
<1> QED
  BY <1>1, <1>2, <1>3, <1>4, <1>5, <1>6 DEF Next

\* The two tasks keep the session, the history and the lock in agreement: one
\* turn runs at most, the lock is held by who sends, what the loop captured is
\* what it will record, and an answer enters the history once.
THEOREM TurnsInvariance == Spec => []TurnsInv
  BY TurnsInvInit, TurnsInvNext, PTL DEF Spec

\* What the history keeps of an interrupted answer is what the client was sent
\* of its audio, the frame in flight included.
THEOREM HistoryHeardHolds == Spec => []HistoryHeard
<1>1. TurnsInv => HistoryHeard
  BY DEF TurnsInv, AnswerOf, HistoryHeard
<1> QED
  BY <1>1, TurnsInvariance, PTL

\* Each answer in the history follows the utterance it answers, once.
THEOREM HistoryOrderedHolds == Spec => []HistoryOrdered
<1>1. TurnsInv => HistoryOrdered
  BY DEF TurnsInv
<1> QED
  BY <1>1, TurnsInvariance, PTL

LEMMA ReachesOther ==
  ASSUME TurnsInv, NEW t, NEW event, Reaches(t, event), NEW q \in Turns,
         q # t \/ event # "text"
  PROVE  client'[q].text = client[q].text /\ client'[q].audio = client[q].audio
<1>1. client \in [Turns -> Clients]
  BY DEF TurnsInv, TypeInv
<1> QED
  BY <1>1 DEF Reaches, Told, Clients

\* A turn that the client knows to be interrupted is sent no more text and no
\* more audio, whatever its task had under way.
THEOREM NoStaleOutputHolds == Spec => NoStaleOutput
<1> DEFINE Stays(q) == client'[q].text = client[q].text /\ client'[q].audio = client[q].audio
<1>1. ASSUME TurnsInv, [Next]_vars, NEW q \in told
      PROVE  Stays(q)
  <2>1. q \in Turns /\ Silent(q) /\ client \in [Turns -> Clients]
    BY <1>1 DEF TurnsInv, TypeInv
  <2>2. ASSUME NEW t \in Turns, NEW state, Sends(t, state)
        PROVE  Stays(q)
    <3>1. Reaches(t, state) /\ (t = q => state # "text")
      BY <2>1, <2>2 DEF Sends, Runs, Silent
    <3> QED
      BY <1>1, <2>1, <3>1, ReachesOther
  <2>3. ASSUME NEW t \in Turns, Cancelled(t)
        PROVE  Stays(q)
    <3>1. CASE UNCHANGED client
      BY <3>1
    <3>2. CASE send_lock = t /\ Reaches(t, turn[t].at)
      <4>1. t = q => turn[t].at # "text"
        BY <2>1, <3>2 DEF Silent
      <4> QED
        BY <1>1, <2>1, <3>2, <4>1, ReachesOther
    <3> QED
      BY <2>3, <3>1, <3>2 DEF Cancelled
  <2>4. ASSUME NEW t \in Turns, AudioSent(t)
        PROVE  Stays(q)
    <3>1. t # q
      BY <2>1, <2>4 DEF AudioSent, Silent
    <3> QED
      BY <2>1, <2>4, <3>1 DEF AudioSent
  <2>5. ASSUME SendsCancelled \/ SendsTruncated
        PROVE  Stays(q)
    <3>1. \E event \in {"cancelled", "truncated"} : Reaches(loop.response, event)
      BY <2>5 DEF SendsCancelled, SendsTruncated, Reaches
    <3> QED
      BY <1>1, <2>1, <3>1, ReachesOther
  <2>6. CASE \E t \in Turns : TurnSteps(t) \/ AudioSteps(t)
    <3>1. PICK t \in Turns : TurnSteps(t) \/ AudioSteps(t)
      BY <2>6
    <3>2. \/ \E state : Sends(t, state)
          \/ Cancelled(t) \/ AudioSent(t) \/ UNCHANGED client
      BY <3>1 DEF TurnSteps, AudioSteps, Transcribed, TakesLock, SendsTranscript, SendsCreated,
                  Generates, SendsText, Synthesized, Speaks, SendsDone, SendsError, ProviderFails,
                  SendFails, AudioTakesLock
    <3> QED
      BY <2>2, <2>3, <2>4, <3>2
  <2>7. CASE /\ ~SendsCancelled /\ ~SendsTruncated
             /\ ~\E t \in Turns : TurnSteps(t) \/ AudioSteps(t)
    <3>1. UNCHANGED client
      BY <1>1, <2>7 DEF Next, vars, SpeechStarted, SpeechStopped, Overflows, ClientCancels, Closes,
                        ClosesRuntime, Releases, Cancels, Records, Evaluates, StartTurn, Gathers,
                        LoopTakesLock, LoopSendFails, SendsMark, SendsStop, Disconnects
    <3> QED
      BY <3>1
  <2> QED
    BY <2>5, <2>6, <2>7
<1>2. TurnsInv /\ [Next]_vars =>
        [\A t \in told : client'[t].text = client[t].text /\ client'[t].audio = client[t].audio]_vars
  BY <1>1
<1> QED
  BY <1>2, TurnsInvariance, PTL DEF Spec, NoStaleOutput

-----------------------------------------------------------------------------
(* The session implements the conversation                                 *)

\* Text is shown before it is heard, and while the turn is current nothing of it
\* is left out.
PaceOf(t) ==
  LET at == turn[t].at
      pending == at = "synthesize" \/ turn[t].audio \in {"queued", "sending"}
  IN  /\ client[t].audio <= client[t].text
      /\ pending => client[t].audio < client[t].text
      /\ at \in {"none", "transcribe", "transcript", "created"} =>
           turn[t].generated = 0 /\ client[t].text = 0
      /\ at = "text" => client[t].text + 1 = turn[t].generated
      /\ at \in {"generate", "synthesize", "audio"} => client[t].text = turn[t].generated
      /\ active = t =>
           /\ turn[t].audio # "skipped"
           /\ at \in {"generate", "text"} \/ turn[t].audio = "sent" =>
                client[t].audio = client[t].text
           /\ pending => client[t].audio + 1 = client[t].text

\* A completed answer is remembered as it was shown and heard; a turn is evaluated
\* when it ends, and the last one that was started is the one that runs.
OutcomeOf(t) ==
  /\ turn[t].completed =>
       t \notin told /\ client[t].audio = client[t].text /\ Remembered(t) = client[t].text
  /\ turn[t].at = "done" => turn[t].completed
  /\ turn[t].at = "error" /\ turn[t].completed => ~connected
  /\ turn[t].evaluation # "none" => turn[t].at = "ended"
  /\ turn[t].evaluation = "completed" => turn[t].completed
  /\ turn[t].evaluation = "empty" => Unmentioned(t)
  /\ Running(t) => t = started

\* Only an answer that is not complete is interrupted, and the client knows of it
\* before the history does.
ToldInv ==
  /\ loop.at = "mark" /\ loop.invalidated => ~turn[loop.task].completed
  /\ loop.at = "truncated" => loop.response \in told

TalkInv == ToldInv /\ \A t \in Turns : PaceOf(t) /\ OutcomeOf(t)

Simulated == [Abstract!Next]_(Abstract!vars)

\* What a step leaves of a turn in the conversation.
Same(t) ==
  /\ client'[t].text = client[t].text /\ client'[t].audio = client[t].audio
  /\ turn'[t].evaluation = turn[t].evaluation

LEMMA Stutters ==
  ASSUME UNCHANGED <<history, told>>, \A t \in Turns : Same(t)
  PROVE  Simulated
<1>1. /\ [t \in Turns |-> client'[t].text] = [t \in Turns |-> client[t].text]
      /\ [t \in Turns |-> client'[t].audio] = [t \in Turns |-> client[t].audio]
      /\ [t \in Turns |-> turn'[t].evaluation] = [t \in Turns |-> turn[t].evaluation]
  BY DEF Same
<1> QED
  BY <1>1 DEF Simulated, Abstract!vars

\* The history of the conversation is that of the session.
LEMMA SameWords ==
  ASSUME NEW t \in Turns
  PROVE  /\ Abstract!Entries("assistant", t) = Answers(t)
         /\ Abstract!Recalled(t) = Remembered(t) /\ Abstract!Asked(t) = Asked(t)
         /\ Unmentioned(t) => Abstract!Entries("user", t) = {}
  BY DEF Abstract!Entries, Answers, Abstract!Recalled, Remembered, Abstract!Asked, Asked, Unmentioned

LEMMA SimulatesShows ==
  ASSUME NEW t \in Turns, UNCHANGED <<history, told>>, \A q \in Turns \ {t} : Same(q),
         Asked(t), t \notin told, turn[t].evaluation = "none", turn'[t].evaluation = "none",
         client'[t].audio = client[t].audio, client'[t].text = client[t].text + 1
  PROVE  Simulated
<1>1. [q \in Turns |-> client'[q].text]
        = [[q \in Turns |-> client[q].text] EXCEPT ![t] = client[t].text + 1]
  BY DEF Same
<1>2. /\ [q \in Turns |-> client'[q].audio] = [q \in Turns |-> client[q].audio]
      /\ [q \in Turns |-> turn'[q].evaluation] = [q \in Turns |-> turn[q].evaluation]
  BY DEF Same
<1>3. Abstract!Shows(t)
  BY <1>1, <1>2, SameWords DEF Abstract!Shows
<1> QED
  BY <1>3 DEF Simulated, Abstract!Next

LEMMA SimulatesSpeaks ==
  ASSUME NEW t \in Turns, UNCHANGED <<history, told>>, \A q \in Turns \ {t} : Same(q),
         Asked(t), t \notin told, turn[t].evaluation = "none", turn'[t].evaluation = "none",
         client[t].audio < client[t].text,
         client'[t].text = client[t].text, client'[t].audio = client[t].audio + 1
  PROVE  Simulated
<1>1. [q \in Turns |-> client'[q].audio]
        = [[q \in Turns |-> client[q].audio] EXCEPT ![t] = client[t].audio + 1]
  BY DEF Same
<1>2. /\ [q \in Turns |-> client'[q].text] = [q \in Turns |-> client[q].text]
      /\ [q \in Turns |-> turn'[q].evaluation] = [q \in Turns |-> turn[q].evaluation]
  BY DEF Same
<1>3. Abstract!Speaks(t)
  BY <1>1, <1>2, SameWords DEF Abstract!Speaks
<1> QED
  BY <1>3 DEF Simulated, Abstract!Next

\* A step that appends to the history, or silences a turn.
LEMMA SimulatesWords ==
  ASSUME NEW t \in Turns, \A q \in Turns : Same(q),
         \/ /\ turn[t].evaluation = "none" /\ \A i \in DOMAIN history : history[i][2] < t
            /\ history' = Append(history, <<"user", t, 1>>) /\ UNCHANGED told
         \/ /\ turn[t].evaluation = "none" /\ Asked(t) /\ t \notin told
            /\ client[t].audio = client[t].text
            /\ history' = Append(history, <<"assistant", t, client[t].text>>) /\ UNCHANGED told
         \/ /\ turn[t].evaluation \in {"none", "failed"} /\ Asked(t) /\ t \in told
            /\ history' = Append(history, <<"assistant", t, client[t].audio>>) /\ UNCHANGED told
         \/ /\ Answers(t) = {} /\ told' = told \cup {t} /\ UNCHANGED history
  PROVE  Simulated
<1>1. /\ [q \in Turns |-> client'[q].audio] = [q \in Turns |-> client[q].audio]
      /\ [q \in Turns |-> client'[q].text] = [q \in Turns |-> client[q].text]
      /\ [q \in Turns |-> turn'[q].evaluation] = [q \in Turns |-> turn[q].evaluation]
  BY DEF Same
<1>2. Abstract!Asks(t) \/ Abstract!Completes(t) \/ Abstract!CutsShort(t) \/ Abstract!Silences(t)
  BY <1>1, SameWords DEF Abstract!Asks, Abstract!Completes, Abstract!CutsShort, Abstract!Silences
<1> QED
  BY <1>2 DEF Simulated, Abstract!Next

\* A turn is reported.
LEMMA SimulatesReports ==
  ASSUME NEW t \in Turns, UNCHANGED <<history, told>>, \A q \in Turns \ {t} : Same(q),
         client'[t].audio = client[t].audio, client'[t].text = client[t].text,
         NEW result \in {"empty", "completed", "failed", "interrupted"},
         turn[t].evaluation = "none", turn'[t].evaluation = result,
         result = "empty" => Unmentioned(t),
         result = "completed" => t \notin told /\ Remembered(t) = client[t].text,
         result = "failed" => Answers(t) = {},
         result = "interrupted" => Remembered(t) = client[t].audio
  PROVE  Simulated
<1>1. /\ [q \in Turns |-> client'[q].audio] = [q \in Turns |-> client[q].audio]
      /\ [q \in Turns |-> client'[q].text] = [q \in Turns |-> client[q].text]
  BY DEF Same
<1>2. [q \in Turns |-> turn'[q].evaluation]
        = [[q \in Turns |-> turn[q].evaluation] EXCEPT ![t] = result]
  BY DEF Same
<1>3. Abstract!Reports(t, result)
  BY <1>1, <1>2, SameWords DEF Abstract!Reports
<1> QED
  BY <1>3 DEF Simulated, Abstract!Next

\* What a step leaves of a turn that it does not concern.
LEMMA TalkKept ==
  ASSUME NEW t \in Turns, PaceOf(t), OutcomeOf(t), turn'[t] = turn[t],
         client'[t].text = client[t].text, client'[t].audio = client[t].audio, Apart(t),
         active' = t => active = t, t \in told' => t \in told, connected' => connected,
         Running(t) => UNCHANGED started
  PROVE  PaceOf(t)' /\ OutcomeOf(t)' /\ Same(t)
<1>1. PaceOf(t)'
  BY DEF PaceOf
<1>2. OutcomeOf(t)'
  BY DEF OutcomeOf, Apart, Running
<1> QED
  BY <1>1, <1>2 DEF Same

\* A step of a turn's task leaves the others alone, and completes the turn only
\* while it is current.
LEMMA TaskTalk ==
  ASSUME TurnsInv, TalkInv, NEW t \in Turns, Running(t),
         \A q \in Turns \ {t} : turn'[q] = turn[q] /\ client'[q] = client[q] /\ Apart(q),
         active' \in {0, active}, UNCHANGED <<started, told, loop, connected>>,
         turn'[t].completed => turn[t].completed \/ active = t,
         PaceOf(t)', OutcomeOf(t)'
  PROVE  TalkInv' /\ \A q \in Turns \ {t} : Same(q)
<1>1. ASSUME NEW q \in Turns \ {t}
      PROVE  PaceOf(q)' /\ OutcomeOf(q)' /\ Same(q)
  <2>1. q # 0
    BY TurnParts
  <2> QED
    BY <1>1, <2>1, TalkKept DEF TalkInv
<1>2. ASSUME loop.at = "mark", loop.invalidated
      PROVE  ~turn'[loop.task].completed
  <2>1. loop.task \in Turns /\ active = 0
    BY <1>2, Captured DEF Capturing
  <2>2. ~turn[loop.task].completed
    BY <1>2 DEF TalkInv, ToldInv
  <2> QED
    BY <2>1, <2>2, TurnParts
<1>3. ToldInv'
  BY <1>2 DEF TalkInv, ToldInv
<1> QED
  BY <1>1, <1>3 DEF TalkInv

\* A step that moves the task of a turn to another position of the same answer,
\* without a word.
Passes(t, at, audio) ==
  /\ turn'[t].at = at /\ turn'[t].audio = audio
  /\ turn'[t].generated = turn[t].generated /\ turn'[t].completed = turn[t].completed
  /\ turn'[t].evaluation = turn[t].evaluation

LEMMA PassesAt ==
  ASSUME TurnsInv, NEW t \in Turns
  PROVE  /\ \A at \in TurnStates : At(t, at) =>
              Passes(t, at, turn[t].audio) /\ \A q \in Turns \ {t} : turn'[q] = turn[q]
         /\ \A audio : turn' = [turn EXCEPT ![t].audio = audio] =>
              Passes(t, turn[t].at, audio) /\ \A q \in Turns \ {t} : turn'[q] = turn[q]
<1>1. turn[t] \in TurnRecords /\ turn \in [Turns -> TurnRecords]
  BY TurnParts DEF TurnsInv, TypeInv
<1> QED
  BY <1>1 DEF At, Passes, TurnRecords

\* The task ends.
LEMMA EndTalk ==
  ASSUME TurnsInv, TalkInv, NEW t \in Turns, Running(t), NEW x \in TurnRecords, EndsWith(t, x),
         x.audio \in {"none", "failed"}, x.completed = turn[t].completed,
         x.evaluation = "completed" => turn[t].completed,
         x.evaluation = "empty" => Unmentioned(t),
         UNCHANGED <<started, history, told, loop, connected>>,
         \A q \in Turns \ {t} : client'[q] = client[q],
         client'[t].audio = client[t].audio,
         client'[t].text \in {client[t].text, client[t].text + 1},
         turn[t].completed => client'[t].text = client[t].text
  PROVE  /\ TalkInv' /\ turn'[t].evaluation = x.evaluation
         /\ \A q \in Turns \ {t} : Same(q)
<1>1. /\ turn[t] \in TurnRecords /\ turn \in [Turns -> TurnRecords] /\ t # 0
      /\ client[t].text \in Nat /\ client[t].audio \in Nat
  BY TurnParts DEF TurnsInv, TypeInv, Clients
<1>2. active \in {0, t} /\ response_task = t
  BY OnlyOneRuns
<1>3. active' = 0
  BY <1>2 DEF EndsWith
<1>4. /\ turn'[t].at = "ended" /\ turn'[t].audio = x.audio
      /\ turn'[t].completed = x.completed /\ turn'[t].evaluation = x.evaluation
      /\ \A q \in Turns \ {t} : turn'[q] = turn[q]
  BY <1>1 DEF EndsWith, TurnRecords
<1>5. \A q : Apart(q)
  BY SameHistory
<1>6. PaceOf(t) /\ OutcomeOf(t)
  BY DEF TalkInv
<1>7. PaceOf(t)'
  BY <1>1, <1>3, <1>4, <1>6 DEF PaceOf
<1>8. OutcomeOf(t)'
  BY <1>4, <1>5, <1>6 DEF OutcomeOf, Apart, Running
<1> QED
  BY <1>2, <1>3, <1>4, <1>5, <1>7, <1>8, TaskTalk

\* What holds of a turn whose task takes a step.
LEMMA TalkAt ==
  ASSUME TurnsInv, TalkInv, NEW t \in Turns, Running(t)
  PROVE  /\ PaceOf(t) /\ OutcomeOf(t) /\ turn[t].evaluation = "none" /\ t = started
         /\ turn[t] \in TurnRecords /\ client[t].text \in Nat /\ client[t].audio \in Nat
         /\ turn[t].at # "audio" => turn[t].audio = "none"
         /\ turn[t].at \notin {"transcribe", "transcript", "error"} /\ ~turn[t].completed => Asked(t)
         /\ turn[t].at \in {"transcribe", "transcript"} => Fresh(t)
         /\ turn[t].completed => turn[t].at \in {"done", "error"}
         /\ ~turn[t].completed => Answers(t) = {}
         /\ t \in told => active # t /\ turn[t].audio # "sending"
                          /\ ~(send_lock = t /\ turn[t].at = "text")
<1>1. /\ PaceOf(t) /\ OutcomeOf(t) /\ turn[t].evaluation = "none" /\ t = started
  BY DEF TalkInv, OutcomeOf, Running
<1>2. client[t].text \in Nat /\ client[t].audio \in Nat
  BY TurnParts DEF Clients
<1>3. turn[t].at \notin {"transcribe", "transcript", "error"} /\ ~turn[t].completed => Asked(t)
  BY AtState, TurnParts DEF SessionOf
<1>4. turn[t].at \in {"transcribe", "transcript"} => Fresh(t)
  BY AtState, TurnParts DEF SessionOf
<1>5. ~turn[t].completed => Answers(t) = {}
  BY TurnParts DEF AnswerOf, SessionOf
<1>6. t \in told => active # t /\ turn[t].audio # "sending"
                    /\ ~(send_lock = t /\ turn[t].at = "text")
  BY TurnParts DEF Silent
<1> QED
  BY <1>1, <1>2, <1>3, <1>4, <1>5, <1>6, AtState

\* What an event that is sent shows to the client.
LEMMA ReachesText ==
  ASSUME TurnsInv, NEW t \in Turns, NEW event \in Emitting, Reaches(t, event)
  PROVE  client'[t].text = client[t].text + (IF event = "text" THEN 1 ELSE 0)
<1>1. client \in [Turns -> Clients] /\ client[t] \in Clients
  BY DEF TurnsInv, TypeInv
<1> QED
  BY <1>1, ReachesClient DEF Reaches, Clients, TurnsInv

\* The task ends without a report.
LEMMA EndsTalk ==
  ASSUME TurnsInv, TalkInv, NEW t \in Turns, Running(t), Ends(t),
         turn[t].audio \in {"none", "failed"},
         UNCHANGED <<started, history, told, loop, connected, client>>
  PROVE  TalkInv' /\ Simulated
<1>1. turn[t] \in TurnRecords /\ turn[t].evaluation = "none" /\ client[t].text \in Nat
  BY TalkAt
<1>2. TalkInv' /\ turn'[t].evaluation = "none" /\ \A q \in Turns \ {t} : Same(q)
  BY <1>1, EndTalk DEF Ends
<1> QED
  BY <1>1, <1>2, Stutters DEF Same

LEMMA RaisesTalk ==
  ASSUME TurnsInv, TalkInv, NEW t \in Turns, Running(t), Raises(t),
         turn[t].audio \in {"none", "failed"},
         turn[t].completed => ~connected,
         UNCHANGED <<started, history, told, loop, connected, client>>
  PROVE  TalkInv' /\ Simulated
<1>1. CASE active # t
  BY <1>1, EndsTalk DEF Raises
<1>2. CASE active = t
  <2>1. /\ turn'[t].at = "error" /\ turn'[t].audio = "none" /\ UNCHANGED active
        /\ turn'[t].completed = turn[t].completed /\ turn'[t].evaluation = turn[t].evaluation
        /\ \A q \in Turns \ {t} : turn'[q] = turn[q]
    BY <1>2, TalkAt DEF Raises, TurnRecords, TurnsInv, TypeInv
  <2>2. \A q : Apart(q)
    BY SameHistory
  <2>3. PaceOf(t)'
    BY <2>1, TalkAt DEF PaceOf
  <2>4. OutcomeOf(t)'
    BY <2>1, <2>2, TalkAt DEF OutcomeOf, Apart, Running
  <2>5. TalkInv' /\ \A q \in Turns \ {t} : Same(q)
    BY <2>1, <2>2, <2>3, <2>4, TaskTalk
  <2> QED
    BY <2>1, <2>5, Stutters DEF Same
<1> QED
  BY <1>1, <1>2

\* The task goes on in the same answer, without a word.
LEMMA PassesTalk ==
  ASSUME TurnsInv, TalkInv, NEW t \in Turns, Running(t), NEW at \in TurnStates, NEW audio,
         Passes(t, at, audio), \A q \in Turns \ {t} : turn'[q] = turn[q],
         UNCHANGED <<active, started, history, told, loop, connected, client>>,
         at \notin {"none", "ended", "done", "error"} \/ at = turn[t].at,
         PaceOf(t)'
  PROVE  TalkInv' /\ Simulated
<1>1. \A q : Apart(q)
  BY SameHistory
<1>2. OutcomeOf(t)'
  BY <1>1, TalkAt DEF OutcomeOf, Passes, Apart, Running
<1>3. TalkInv' /\ \A q \in Turns \ {t} : Same(q)
  BY <1>1, <1>2, TaskTalk DEF Passes
<1> QED
  BY <1>3, Stutters DEF Same, Passes

LEMMA QuietTalk ==
  ASSUME TurnsInv, TalkInv, NEW t \in Turns,
         Transcribed(t) \/ TakesLock(t) \/ ProviderFails(t) \/ SendFails(t) \/ Synthesized(t)
           \/ AudioTakesLock(t) \/ Speaks(t)
  PROVE  TalkInv' /\ Simulated
<1>1. Running(t)
  BY TurnParts DEF Transcribed, TakesLock, ProviderFails, SendFails, Synthesized, AudioTakesLock,
     Speaks, Runs, Running, Emitting, AudioOf
<1>2. UNCHANGED <<started, told, loop, connected, history, client>>
  BY DEF Transcribed, TakesLock, ProviderFails, SendFails, Synthesized, AudioTakesLock, Speaks,
     Ends, EndsWith, Raises, sessionVars, linkVars
<1>3. /\ PaceOf(t) /\ OutcomeOf(t) /\ turn[t] \in TurnRecords
      /\ client[t].text \in Nat /\ client[t].audio \in Nat
      /\ turn[t].at # "audio" => turn[t].audio = "none"
      /\ turn[t].completed => turn[t].at \in {"done", "error"}
  BY <1>1, TalkAt
<1>4. ASSUME NEW at \in TurnStates, turn[t].at \in {"transcribe", "synthesize"}, At(t, at),
             UNCHANGED active,
             turn[t].at = "transcribe" => at = "transcript",
             turn[t].at = "synthesize" => at = "generate" /\ active # t
      PROVE  TalkInv' /\ Simulated
  <2>1. Passes(t, at, "none") /\ \A q \in Turns \ {t} : turn'[q] = turn[q]
    BY <1>3, <1>4, PassesAt
  <2>2. PaceOf(t)'
    BY <1>2, <1>3, <1>4, <2>1 DEF PaceOf, Passes
  <2> QED
    BY <1>1, <1>2, <1>4, <2>1, <2>2, PassesTalk
<1>5. CASE Transcribed(t)
  <2>1. turn[t].at = "transcribe" /\ (Ends(t) \/ (At(t, "transcript") /\ UNCHANGED active))
    BY <1>5 DEF Transcribed, Runs, sessionVars
  <2> QED
    BY <1>1, <1>2, <1>3, <1>4, <2>1, EndsTalk DEF TurnStates
<1>6. CASE TakesLock(t)
  <2>1. CASE Ends(t)
    <3>1. turn[t].at # "audio"
      BY <1>6 DEF TakesLock, Runs, Emitting
    <3> QED
      BY <1>1, <1>2, <1>3, <2>1, <3>1, EndsTalk
  <2>2. CASE UNCHANGED <<turn, active>>
    <3>1. PaceOf(t)' /\ Passes(t, turn[t].at, turn[t].audio)
      BY <1>2, <1>3, <2>2 DEF PaceOf, Passes
    <3>2. turn[t].at \in TurnStates
      BY <1>3 DEF TurnRecords
    <3> QED
      BY <1>1, <1>2, <2>2, <3>1, <3>2, PassesTalk
  <2> QED
    BY <1>6, <2>1, <2>2 DEF TakesLock, sessionVars
<1>7. CASE ProviderFails(t)
  <2>1. turn[t].at \in {"transcribe", "generate", "synthesize"} /\ Raises(t)
    BY <1>7 DEF ProviderFails, Runs
  <2> QED
    BY <1>1, <1>2, <1>3, <2>1, RaisesTalk
<1>8. CASE SendFails(t)
  <2>1. turn[t].at \in Emitting /\ ~connected /\ (Ends(t) \/ Raises(t))
    BY <1>8 DEF SendFails, Runs
  <2> QED
    BY <1>1, <1>2, <1>3, <2>1, EndsTalk, RaisesTalk DEF Emitting
<1>9. CASE Synthesized(t)
  <2>1. CASE active = t
    <3>1. /\ turn[t].at = "synthesize" /\ turn[t].audio = "none" /\ UNCHANGED active
          /\ turn' = [turn EXCEPT ![t].at = "audio", ![t].audio = "queued"]
      BY <1>3, <1>9, <2>1 DEF Synthesized, Runs, sessionVars
    <3>2. Passes(t, "audio", "queued") /\ \A q \in Turns \ {t} : turn'[q] = turn[q]
      BY <1>3, <3>1 DEF Passes, TurnRecords, TurnsInv, TypeInv
    <3>3. PaceOf(t)'
      BY <1>2, <1>3, <3>1, <3>2 DEF PaceOf, Passes
    <3> QED
      BY <1>1, <1>2, <3>1, <3>2, <3>3, PassesTalk DEF TurnStates
  <2>2. CASE active # t
    <3>1. turn[t].at = "synthesize" /\ At(t, "generate") /\ UNCHANGED active
      BY <1>9, <2>2 DEF Synthesized, Runs, At, sessionVars
    <3> QED
      BY <1>4, <2>2, <3>1 DEF TurnStates
  <2> QED
    BY <2>1, <2>2
<1>10. CASE AudioTakesLock(t)
  <2>1. PICK audio \in {"sending", "skipped"} :
          /\ turn' = [turn EXCEPT ![t].audio = audio] /\ UNCHANGED active
          /\ turn[t].audio = "queued" /\ turn[t].at = "audio"
          /\ audio = "skipped" => active # t
    BY <1>3, <1>10 DEF AudioTakesLock, MaySend, sessionVars
  <2>2. Passes(t, turn[t].at, audio) /\ \A q \in Turns \ {t} : turn'[q] = turn[q]
    BY <2>1, PassesAt
  <2>3. PaceOf(t)'
    BY <1>2, <1>3, <2>1, <2>2 DEF PaceOf, Passes
  <2> QED
    BY <1>1, <1>2, <2>1, <2>2, <2>3, PassesTalk DEF TurnStates
<1>11. CASE Speaks(t)
  <2>1. turn[t].at = "audio" /\ turn[t].audio \in {"sent", "skipped", "failed"}
    BY <1>11 DEF Speaks, Runs, AudioSettled
  <2>2. CASE turn[t].audio = "failed"
    BY <1>1, <1>2, <1>3, <1>11, <2>1, <2>2, RaisesTalk DEF Speaks
  <2>3. CASE turn[t].audio # "failed"
    <3>1. /\ turn' = [turn EXCEPT ![t] = [Delivered(turn[t]) EXCEPT !.at = "generate"]]
          /\ UNCHANGED active
      BY <1>11, <2>3, TurnParts DEF Speaks, TurnsInv, TypeInv
    <3>2. Passes(t, "generate", "none") /\ \A q \in Turns \ {t} : turn'[q] = turn[q]
      BY <1>3, <3>1 DEF Delivered, Passes, TurnRecords, TurnsInv, TypeInv
    <3>3. PaceOf(t)'
      BY <1>2, <1>3, <2>1, <2>3, <3>1, <3>2 DEF PaceOf, Passes
    <3> QED
      BY <1>1, <1>2, <3>1, <3>2, <3>3, PassesTalk DEF TurnStates
  <2> QED
    BY <2>2, <2>3
<1> QED
  BY <1>5, <1>6, <1>7, <1>8, <1>9, <1>10, <1>11

\* A step that says something to the client, or to the model.
LEMMA SpeakingTalk ==
  ASSUME TurnsInv, TalkInv, NEW t \in Turns,
         SendsTranscript(t) \/ SendsCreated(t) \/ SendsText(t) \/ Generates(t) \/ SendsDone(t)
           \/ SendsError(t) \/ AudioSent(t) \/ Cancelled(t)
  PROVE  TalkInv' /\ Simulated
<1>1. Running(t)
  BY TurnParts DEF SendsTranscript, SendsCreated, SendsText, Generates, SendsDone, SendsError,
     AudioSent, Cancelled, Sends, Runs, Running, AudioOf
<1>2. UNCHANGED <<started, told, loop, connected>>
  BY DEF SendsTranscript, SendsCreated, SendsText, Generates, SendsDone, SendsError,
     AudioSent, Cancelled, Sends, linkVars
<1>3. /\ PaceOf(t) /\ OutcomeOf(t) /\ turn[t] \in TurnRecords
      /\ client[t].text \in Nat /\ client[t].audio \in Nat
      /\ turn[t].at # "audio" => turn[t].audio = "none"
      /\ turn[t].evaluation = "none" /\ t = started
      /\ turn[t].completed => turn[t].at \in {"done", "error"}
      /\ turn \in [Turns -> TurnRecords] /\ client \in [Turns -> Clients]
  BY <1>1, TalkAt DEF TurnsInv, TypeInv
<1>4. ASSUME NEW state \in Emitting, Sends(t, state)
      PROVE  /\ turn[t].at = state /\ connected
             /\ \A q \in Turns \ {t} : client'[q] = client[q]
             /\ client'[t].audio = client[t].audio
             /\ client'[t].text = client[t].text + (IF state = "text" THEN 1 ELSE 0)
             /\ t \in told => state # "text"
  <2>1. Reaches(t, state) /\ TypeInv
    BY <1>4 DEF Sends, TurnsInv
  <2> QED
    BY <1>1, <1>4, <2>1, ReachesClient, ReachesText, TalkAt DEF Sends, Runs
<1>5. ASSUME UNCHANGED history
      PROVE  \A q : Apart(q)
  BY <1>5, SameHistory
<1>6. CASE SendsTranscript(t)
  <2>1. /\ turn[t].at = "transcript" /\ ~turn[t].completed /\ UNCHANGED client /\ Fresh(t)
    BY <1>1, <1>3, <1>6, TalkAt DEF SendsTranscript, Sends, Runs, Reaches
  <2>2. CASE Ends(t) /\ UNCHANGED history
    BY <1>1, <1>2, <1>3, <2>1, <2>2, EndsTalk
  <2>3. CASE EndsWith(t, Evaluated(turn[t], "empty")) /\ UNCHANGED history
    <3> DEFINE x == Evaluated(turn[t], "empty")
    <3>1. /\ x \in TurnRecords /\ x.audio = "none" /\ x.completed = turn[t].completed
          /\ x.evaluation = "empty"
      BY <1>3, <2>1 DEF Evaluated, TurnRecords
    <3>2. Unmentioned(t)
      BY <2>1 DEF Fresh
    <3>3. TalkInv' /\ turn'[t].evaluation = "empty" /\ \A q \in Turns \ {t} : Same(q)
      BY <1>1, <1>2, <1>3, <2>1, <2>3, <3>1, <3>2, EndTalk
    <3> QED
      BY <1>2, <1>3, <2>1, <2>3, <3>2, <3>3, SimulatesReports
  <2>4. CASE /\ active = t /\ At(t, "created") /\ history' = Append(history, <<"user", t, 1>>)
             /\ UNCHANGED active
    <3>1. Passes(t, "created", "none") /\ \A q \in Turns \ {t} : turn'[q] = turn[q]
      BY <1>3, <2>1, <2>4, PassesAt DEF TurnStates
    <3>2. \A q \in Turns \ {t} : Apart(q)
      BY <2>4, AppendsApart DEF TurnsInv
    <3>3. PaceOf(t)' /\ OutcomeOf(t)'
      BY <1>2, <1>3, <2>1, <2>4, <3>1 DEF PaceOf, OutcomeOf, Passes, Running
    <3>4. TalkInv' /\ \A q \in Turns \ {t} : Same(q)
      BY <1>1, <1>2, <2>1, <2>4, <3>1, <3>2, <3>3, TaskTalk DEF Passes
    <3>5. \A i \in DOMAIN history : history[i][2] < t
      <4> SUFFICES ASSUME NEW i \in DOMAIN history PROVE history[i][2] < t
        OBVIOUS
      <4>1. history[i] \in Entries
        BY LenProperties, ElementOfSeq DEF TurnsInv, TypeInv
      <4>2. history[i][2] \in Turns /\ history[i][2] # t
        BY <2>1, <4>1 DEF Entries, Fresh, Unmentioned
      <4>3. ~(history[i][2] > started)
        BY <4>2, TurnParts DEF SessionOf, Fresh, Unmentioned
      <4> QED
        BY <1>3, <4>2, <4>3, TurnParts
    <3>6. Same(t)
      BY <2>1, <3>1 DEF Same, Passes
    <3> QED
      BY <1>2, <1>3, <2>4, <3>4, <3>5, <3>6, SimulatesWords
  <2> QED
    BY <1>6, <2>2, <2>3, <2>4 DEF SendsTranscript
<1>7. CASE SendsCreated(t)
  <2>1. /\ Sends(t, "created") /\ At(t, "generate") /\ UNCHANGED <<active, history>>
    BY <1>7 DEF SendsCreated, sessionVars
  <2>2. Passes(t, "generate", "none") /\ \A q \in Turns \ {t} : turn'[q] = turn[q]
    BY <1>3, <1>4, <2>1, PassesAt DEF TurnStates, Emitting
  <2>3. /\ turn[t].at = "created" /\ \A q \in Turns \ {t} : client'[q] = client[q]
        /\ client'[t].audio = client[t].audio /\ client'[t].text = client[t].text
    BY <1>3, <1>4, <2>1 DEF Emitting
  <2>4. PaceOf(t)' /\ OutcomeOf(t)'
    BY <1>2, <1>3, <1>5, <2>1, <2>2, <2>3 DEF PaceOf, OutcomeOf, Passes, Apart, Running
  <2>5. TalkInv' /\ \A q \in Turns \ {t} : Same(q)
    BY <1>1, <1>2, <1>5, <2>1, <2>2, <2>3, <2>4, TaskTalk DEF Passes
  <2> QED
    BY <1>2, <2>1, <2>2, <2>3, <2>5, Stutters DEF Same, Passes
<1>8. CASE SendsText(t)
  <2>1. /\ Sends(t, "text") /\ At(t, "synthesize") /\ UNCHANGED <<active, history>>
    BY <1>8 DEF SendsText, sessionVars
  <2>2. Passes(t, "synthesize", "none") /\ \A q \in Turns \ {t} : turn'[q] = turn[q]
    BY <1>3, <1>4, <2>1, PassesAt DEF TurnStates, Emitting
  <2>3. /\ turn[t].at = "text" /\ \A q \in Turns \ {t} : client'[q] = client[q]
        /\ client'[t].audio = client[t].audio /\ client'[t].text = client[t].text + 1
        /\ t \notin told
    BY <1>3, <1>4, <2>1 DEF Emitting
  <2>4. PaceOf(t)' /\ OutcomeOf(t)'
    BY <1>2, <1>3, <1>5, <2>1, <2>2, <2>3 DEF PaceOf, OutcomeOf, Passes, Apart, Running
  <2>5. TalkInv' /\ \A q \in Turns \ {t} : Same(q)
    BY <1>1, <1>2, <1>5, <2>1, <2>2, <2>3, <2>4, TaskTalk DEF Passes
  <2>6. Asked(t)
    BY <1>1, <1>3, <2>3, TalkAt
  <2> QED
    BY <1>2, <1>3, <2>1, <2>2, <2>3, <2>5, <2>6, SimulatesShows DEF Passes
<1>9. CASE Generates(t)
  <2>1. turn[t].at = "generate" /\ UNCHANGED client /\ ~turn[t].completed /\ turn[t].audio = "none"
    BY <1>3, <1>9 DEF Generates, Runs
  <2>2. CASE Ends(t) /\ UNCHANGED history
    BY <1>1, <1>2, <1>3, <2>1, <2>2, EndsTalk
  <2>3. CASE /\ turn' = [turn EXCEPT ![t].at = "text", ![t].generated = @ + 1]
             /\ UNCHANGED sessionVars
    <3>1. /\ turn'[t].at = "text" /\ turn'[t].audio = "none"
          /\ turn'[t].generated = turn[t].generated + 1
          /\ turn'[t].completed = turn[t].completed /\ turn'[t].evaluation = turn[t].evaluation
          /\ \A q \in Turns \ {t} : turn'[q] = turn[q]
          /\ UNCHANGED <<active, history>>
      BY <1>3, <2>1, <2>3 DEF TurnRecords, sessionVars
    <3>2. PaceOf(t)' /\ OutcomeOf(t)'
      BY <1>2, <1>3, <1>5, <2>1, <3>1 DEF PaceOf, OutcomeOf, Apart, Running
    <3>3. TalkInv' /\ \A q \in Turns \ {t} : Same(q)
      BY <1>1, <1>2, <1>5, <2>1, <3>1, <3>2, TaskTalk
    <3> QED
      BY <1>2, <2>1, <3>1, <3>3, Stutters DEF Same
  <2>4. CASE /\ active = t
             /\ turn' = [turn EXCEPT ![t].at = "done", ![t].completed = TRUE]
             /\ history' = IF turn[t].generated = 0 THEN history
                           ELSE Append(history, <<"assistant", t, turn[t].generated>>)
             /\ UNCHANGED active
    <3>1. /\ turn'[t].at = "done" /\ turn'[t].audio = "none"
          /\ turn'[t].completed /\ turn'[t].evaluation = "none"
          /\ \A q \in Turns \ {t} : turn'[q] = turn[q]
      BY <1>3, <2>1, <2>4 DEF TurnRecords
    <3>2. /\ client[t].audio = client[t].text /\ client[t].text = turn[t].generated
          /\ Answers(t) = {} /\ Asked(t) /\ t \notin told
      BY <1>1, <1>3, <2>1, <2>4, TalkAt DEF PaceOf
    <3> DEFINE n == client[t].text
    <3>3. CASE n = 0
      <4>1. UNCHANGED history /\ Remembered(t)' = 0
        BY <2>4, <3>2, <3>3, SameHistory, Unanswered DEF Apart
      <4>2. PaceOf(t)' /\ OutcomeOf(t)'
        BY <1>2, <1>3, <2>1, <2>4, <3>1, <3>2, <3>3, <4>1 DEF PaceOf, OutcomeOf, Running
      <4>3. TalkInv' /\ \A q \in Turns \ {t} : Same(q)
        BY <1>1, <1>2, <1>5, <2>1, <2>4, <3>1, <4>1, <4>2, TaskTalk
      <4> QED
        BY <1>2, <1>3, <2>1, <3>1, <4>1, <4>3, Stutters DEF Same
    <3>4. CASE n # 0
      <4>1. history' = Append(history, <<"assistant", t, n>>)
        BY <2>4, <3>2, <3>4
      <4>2. /\ \A q \in Turns \ {t} : Apart(q)
            /\ Answers(t)' = {Len(history) + 1}
            /\ history'[Len(history) + 1] = <<"assistant", t, n>>
        BY <1>3, <3>2, <4>1, Appends, AppendsApart DEF TurnsInv
      <4>3. Remembered(t)' = n
        <5>1. Remembered(t)' = IF Answers(t)' = {} THEN 0
                               ELSE history'[CHOOSE i \in Answers(t)' : TRUE][3]
          BY DEF Remembered, Answers
        <5>2. (CHOOSE i \in {Len(history) + 1} : TRUE) = Len(history) + 1
          OBVIOUS
        <5> QED
          BY <4>2, <5>1, <5>2
      <4>4. PaceOf(t)' /\ OutcomeOf(t)'
        BY <1>2, <1>3, <2>1, <2>4, <3>1, <3>2, <4>3 DEF PaceOf, OutcomeOf, Running
      <4>5. TalkInv' /\ \A q \in Turns \ {t} : Same(q)
        BY <1>1, <1>2, <2>1, <2>4, <3>1, <4>2, <4>4, TaskTalk
      <4>6. Same(t)
        BY <1>3, <2>1, <3>1 DEF Same
      <4> QED
        BY <1>2, <1>3, <3>2, <4>1, <4>5, <4>6, SimulatesWords
    <3> QED
      BY <3>3, <3>4
  <2> QED
    BY <1>9, <2>2, <2>3, <2>4 DEF Generates

<1>10. CASE SendsDone(t)
  <2> DEFINE x == Evaluated(turn[t], "completed")
  <2>1. Sends(t, "done") /\ EndsWith(t, x) /\ UNCHANGED history
    BY <1>10 DEF SendsDone
  <2>2. /\ turn[t].at = "done" /\ \A q \in Turns \ {t} : client'[q] = client[q]
        /\ client'[t].audio = client[t].audio /\ client'[t].text = client[t].text
    BY <1>3, <1>4, <2>1 DEF Emitting
  <2>3. turn[t].completed /\ t \notin told /\ Remembered(t) = client[t].text
    BY <1>3, <2>2 DEF OutcomeOf
  <2>4. /\ x \in TurnRecords /\ x.audio = "none" /\ x.completed = turn[t].completed
        /\ x.evaluation = "completed"
    BY <1>3, <2>2 DEF Evaluated, TurnRecords
  <2> HIDE DEF x
  <2>5. TalkInv' /\ turn'[t].evaluation = "completed" /\ \A q \in Turns \ {t} : Same(q)
    BY <1>1, <1>2, <2>1, <2>2, <2>3, <2>4, EndTalk
  <2> QED
    BY <1>2, <1>3, <2>1, <2>2, <2>3, <2>5, SimulatesReports
<1>11. CASE SendsError(t)
  <2> DEFINE x == Evaluated(turn[t], "failed")
  <2>1. Sends(t, "error") /\ EndsWith(t, x) /\ UNCHANGED history
    BY <1>11 DEF SendsError
  <2>2. /\ turn[t].at = "error" /\ connected /\ \A q \in Turns \ {t} : client'[q] = client[q]
        /\ client'[t].audio = client[t].audio /\ client'[t].text = client[t].text
    BY <1>3, <1>4, <2>1 DEF Emitting
  <2>3. ~turn[t].completed /\ Answers(t) = {}
    BY <1>1, <2>2, TalkAt DEF OutcomeOf
  <2>4. /\ x \in TurnRecords /\ x.audio = "none" /\ x.completed = turn[t].completed
        /\ x.evaluation = "failed"
    BY <1>3, <2>2 DEF Evaluated, TurnRecords
  <2> HIDE DEF x
  <2>5. TalkInv' /\ turn'[t].evaluation = "failed" /\ \A q \in Turns \ {t} : Same(q)
    BY <1>1, <1>2, <2>1, <2>2, <2>3, <2>4, EndTalk
  <2> QED
    BY <1>2, <1>3, <2>1, <2>2, <2>3, <2>5, SimulatesReports
<1>12. CASE AudioSent(t)
  <2>1. /\ turn[t].audio = "sending" /\ turn[t].at = "audio" /\ UNCHANGED <<active, history>>
        /\ t \notin told /\ Asked(t) /\ ~turn[t].completed
    BY <1>1, <1>3, <1>12, TalkAt DEF AudioSent, sessionVars
  <2>2. PICK audio \in {"sent", "failed"} :
          /\ turn' = [turn EXCEPT ![t].audio = audio]
          /\ client' = IF audio = "sent" THEN [client EXCEPT ![t].audio = @ + 1] ELSE client
    BY <1>12 DEF AudioSent
  <2>3. Passes(t, "audio", audio) /\ \A q \in Turns \ {t} : turn'[q] = turn[q]
    BY <2>1, <2>2, PassesAt
  <2>4. /\ \A q \in Turns \ {t} : client'[q] = client[q]
        /\ client'[t].text = client[t].text
        /\ client'[t].audio = client[t].audio + (IF audio = "sent" THEN 1 ELSE 0)
    BY <1>3, <2>2 DEF Clients
  <2>5. PaceOf(t)'
    BY <1>3, <2>1, <2>3, <2>4 DEF PaceOf, Passes
  <2>6. OutcomeOf(t)'
    BY <1>2, <1>3, <1>5, <2>1, <2>3, <2>4 DEF OutcomeOf, Passes, Apart, Running
  <2>7. TalkInv' /\ \A q \in Turns \ {t} : Same(q)
    BY <1>1, <1>2, <1>5, <2>1, <2>3, <2>4, <2>5, <2>6, TaskTalk DEF Passes
  <2>8. client[t].audio < client[t].text
    BY <1>3, <2>1 DEF PaceOf
  <2>9. CASE audio = "sent"
    BY <1>2, <1>3, <2>1, <2>3, <2>4, <2>7, <2>8, <2>9, SimulatesSpeaks DEF Passes
  <2>10. CASE audio = "failed"
    <3>1. Same(t)
      BY <1>3, <2>3, <2>4, <2>10 DEF Same, Passes
    <3> QED
      BY <1>2, <2>1, <2>7, <3>1, Stutters
  <2> QED
    BY <2>9, <2>10
<1>13. CASE Cancelled(t)
  <2> DEFINE x == Delivered(turn[t])
  <2>1. EndsWith(t, x) /\ UNCHANGED history
    BY <1>13 DEF Cancelled, Settled
  <2>2. /\ x \in TurnRecords /\ x.audio = "none" /\ x.completed = turn[t].completed
        /\ x.evaluation = "none"
    <3>1. turn[t].emitted \in Nat /\ turn[t].emitted + 1 \in Nat
      BY <1>3 DEF TurnRecords
    <3> QED
      BY <1>3, <3>1 DEF Delivered, TurnRecords
  <2>3. UNCHANGED client \/ (send_lock = t /\ turn[t].at \in Emitting /\ Reaches(t, turn[t].at))
    BY <1>13 DEF Cancelled
  <2>4. /\ \A q \in Turns \ {t} : client'[q] = client[q]
        /\ client'[t].audio = client[t].audio
        /\ \/ client'[t].text = client[t].text
           \/ turn[t].at = "text" /\ t \notin told /\ client'[t].text = client[t].text + 1
    BY <1>1, <1>3, <2>3, ReachesClient, ReachesText, TalkAt DEF TurnsInv
  <2> HIDE DEF x
  <2>5. TalkInv' /\ turn'[t].evaluation = "none" /\ \A q \in Turns \ {t} : Same(q)
    BY <1>1, <1>2, <1>3, <2>1, <2>2, <2>4, EndTalk
  <2>6. CASE client'[t].text = client[t].text
    <3>1. Same(t)
      BY <1>3, <2>4, <2>5, <2>6 DEF Same
    <3> QED
      BY <1>2, <2>1, <2>5, <3>1, Stutters
  <2>7. CASE turn[t].at = "text" /\ t \notin told /\ client'[t].text = client[t].text + 1
    <3>1. Asked(t)
      BY <1>1, <1>3, <2>7, TalkAt
    <3> QED
      BY <1>2, <1>3, <2>1, <2>4, <2>5, <2>7, <3>1, SimulatesShows
  <2> QED
    BY <2>4, <2>6, <2>7
<1> QED
  BY <1>6, <1>7, <1>8, <1>9, <1>10, <1>11, <1>12, <1>13

\* A step of the loop leaves the pace of every answer, and the outcome but of the
\* turn that it reports.
LEMMA LoopTalk ==
  ASSUME TurnsInv, TalkInv, UNCHANGED <<started, history>>, active' \in {0, active},
         connected' => connected,
         \A t \in Turns :
           /\ turn'[t].at = turn[t].at /\ turn'[t].audio = turn[t].audio
           /\ turn'[t].generated = turn[t].generated /\ turn'[t].completed = turn[t].completed
           /\ turn'[t].evaluation = turn[t].evaluation
              \/ (turn[t].at = "ended" /\ turn'[t].evaluation = "interrupted")
           /\ client'[t].text = client[t].text /\ client'[t].audio = client[t].audio,
         \A t \in told' \ told : ~turn[t].completed,
         ToldInv'
  PROVE  TalkInv'
<1>1. \A q : Apart(q)
  BY SameHistory
<1>2. ASSUME NEW t \in Turns
      PROVE  PaceOf(t)' /\ OutcomeOf(t)'
  <2>1. PaceOf(t) /\ OutcomeOf(t) /\ t # 0
    BY TurnParts DEF TalkInv
  <2>2. PaceOf(t)'
    BY <2>1 DEF PaceOf
  <2>3. Apart(t) /\ (t \in told' => t \in told \/ ~turn[t].completed)
    BY <1>1
  <2>4. OutcomeOf(t)'
    BY <2>1, <2>3 DEF OutcomeOf, Apart, Running
  <2> QED
    BY <2>2, <2>4
<1> QED
  BY <1>2 DEF TalkInv

\* A step of the loop that says and changes nothing.
LEMMA LoopTalkMoves ==
  ASSUME TurnsInv, TalkInv, UNCHANGED <<started, history, turn, client, told>>,
         active' \in {0, active}, connected' => connected, ToldInv'
  PROVE  TalkInv' /\ Simulated
<1>1. TalkInv'
  BY LoopTalk
<1> QED
  BY <1>1, Stutters DEF Same

LEMMA IdleTalk ==
  ASSUME TurnsInv, TalkInv,
         \/ SpeechStarted \/ SpeechStopped \/ Overflows \/ ClientCancels \/ Closes
         \/ ClosesRuntime \/ Releases \/ LoopTakesLock \/ LoopSendFails \/ SendsStop \/ Gathers
         \/ Disconnects \/ UNCHANGED vars
  PROVE  TalkInv' /\ Simulated
<1>1. loop \in Loops
  BY DEF TurnsInv, TypeInv
<1>2. CASE SpeechStarted
  <2> DEFINE barge == response_task # 0 /\ ~Committed(response_state)
  <2>1. /\ UNCHANGED <<started, history, turn, client, told, connected>>
        /\ active' \in {0, active}
        /\ loop'.at = "mark" /\ loop'.task = response_task /\ loop'.invalidated = barge
    BY <1>1, <1>2 DEF SpeechStarted, linkVars, Loops
  <2>2. barge => ~turn[response_task].completed
    BY Tracked DEF Committed, Fresh
  <2>3. ToldInv'
    BY <2>1, <2>2 DEF ToldInv
  <2> QED
    BY <2>1, <2>3, LoopTalkMoves
<1>3. CASE LoopTakesLock \/ Disconnects \/ Overflows \/ UNCHANGED vars
  <2>1. UNCHANGED <<started, history, turn, client, told, active, loop>> /\ (connected' => connected)
    BY <1>3 DEF LoopTakesLock, Disconnects, Overflows, vars, sessionVars, linkVars
  <2>2. ToldInv'
    BY <2>1 DEF TalkInv, ToldInv
  <2> QED
    BY <2>1, <2>2, LoopTalkMoves
<1>4. CASE \/ SpeechStopped \/ ClientCancels \/ Closes \/ ClosesRuntime \/ Releases
           \/ LoopSendFails \/ SendsStop
  <2>1. UNCHANGED <<started, history, turn, client, told, active, connected>>
    BY <1>4 DEF SpeechStopped, ClientCancels, Closes, ClosesRuntime, Releases, LoopSendFails,
       SendsStop, LoopSends, sessionVars, linkVars
  <2>2. loop'.at \notin {"mark", "truncated"}
    BY <1>1, <1>4 DEF SpeechStopped, ClientCancels, Closes, ClosesRuntime, Releases, LoopSendFails,
       SendsStop, Capture, Idle, Loops
  <2>3. ToldInv'
    BY <2>2 DEF ToldInv
  <2> QED
    BY <2>1, <2>3, LoopTalkMoves
<1>5. CASE Gathers
  <2>1. UNCHANGED <<started, history, turn, client, told, active, connected>>
    BY <1>5 DEF Gathers, sessionVars, linkVars
  <2>2. loop'.at \notin {"mark", "truncated"}
    BY <1>1, <1>5 DEF Gathers, Resume, Idle, Loops
  <2>3. ToldInv'
    BY <2>2 DEF ToldInv
  <2> QED
    BY <2>1, <2>3, LoopTalkMoves
<1> QED
  BY <1>2, <1>3, <1>4, <1>5

\* The loop cancels the task that it captured, records what was heard of its
\* answer and reports it.
LEMMA CancelTalk ==
  ASSUME TurnsInv, TalkInv, Cancels \/ Records \/ Evaluates
  PROVE  TalkInv' /\ Simulated
<1>1. PICK t \in Turns : t = loop.task /\ turn[t] \in TurnRecords /\ loop.response \in {0, t}
                         /\ CapturedOf(t)
  BY CapturedTurn DEF Cancels, Records, Evaluates, Capturing
<1>2. /\ turn \in [Turns -> TurnRecords] /\ loop \in Loops
      /\ UNCHANGED <<started, history, client, told, connected>>
  BY DEF TurnsInv, TypeInv, Cancels, Records, Evaluates, sessionVars, linkVars
<1>3. active' \in {0, active}
  BY DEF Cancels, Records, Evaluates, sessionVars
<1>4. loop'.at \notin {"mark", "truncated"}
  BY <1>2 DEF Cancels, Records, Evaluates, Resume, Idle, Loops
<1>5. ToldInv'
  BY <1>4 DEF ToldInv
<1>6. CASE Cancels \/ Records
  <2>1. /\ \A q \in Turns \ {t} : turn'[q] = turn[q]
        /\ turn'[t] \in {turn[t], [turn[t] EXCEPT !.cancelled = TRUE],
                         [turn[t] EXCEPT !.recorded = TRUE]}
    BY <1>1, <1>2, <1>6 DEF Cancels, Records
  <2>2. /\ turn'[t].at = turn[t].at /\ turn'[t].audio = turn[t].audio
        /\ turn'[t].generated = turn[t].generated /\ turn'[t].completed = turn[t].completed
        /\ turn'[t].evaluation = turn[t].evaluation
    BY <1>1, <2>1 DEF TurnRecords
  <2>3. TalkInv'
    BY <1>2, <1>3, <1>5, <2>1, <2>2, LoopTalk
  <2> QED
    BY <1>2, <2>1, <2>2, <2>3, Stutters DEF Same
<1>7. CASE Evaluates
  <2>1. /\ loop.at = "evaluate"
        /\ turn' = [turn EXCEPT ![t] = Evaluated(turn[t], "interrupted")]
    BY <1>1, <1>2, <1>7 DEF Evaluates
  <2>2. turn[t].at = "ended" /\ Remembered(t) = client[t].audio
    BY <1>1, <2>1 DEF CapturedOf
  <2>3. /\ \A q \in Turns \ {t} : turn'[q] = turn[q]
        /\ turn'[t].at = turn[t].at /\ turn'[t].audio = turn[t].audio
        /\ turn'[t].generated = turn[t].generated /\ turn'[t].completed = turn[t].completed
        /\ turn'[t].evaluation = IF turn[t].evaluation = "none" THEN "interrupted"
                                                              ELSE turn[t].evaluation
    BY <1>1, <1>2, <2>1 DEF Evaluated, TurnRecords
  <2>4. TalkInv'
    BY <1>2, <1>3, <1>5, <2>2, <2>3, LoopTalk
  <2>5. CASE turn[t].evaluation = "none"
    BY <1>2, <2>2, <2>3, <2>4, <2>5, SimulatesReports DEF Same
  <2>6. CASE turn[t].evaluation # "none"
    BY <1>2, <2>3, <2>4, <2>6, Stutters DEF Same
  <2> QED
    BY <2>5, <2>6
<1> QED
  BY <1>6, <1>7

\* The client is told that a turn is interrupted, before or after its task ends.
LEMMA SilencesTalk ==
  ASSUME TurnsInv, TalkInv, SendsMark \/ SendsCancelled
  PROVE  TalkInv' /\ Simulated
<1>1. /\ UNCHANGED <<started, history, turn, active, connected>>
      /\ loop \in Loops /\ client \in [Turns -> Clients]
  BY DEF TurnsInv, TypeInv, SendsMark, SendsCancelled, LoopSends, linkVars
<1>2. ASSUME NEW t \in Turns, told' = told \cup {t}, ~turn[t].completed, Answers(t) = {},
             ToldInv', \A q \in Turns : client'[q].text = client[q].text
                                       /\ client'[q].audio = client[q].audio
      PROVE  TalkInv' /\ Simulated
  <2>1. TalkInv'
    BY <1>1, <1>2, LoopTalk
  <2>2. \A q \in Turns : Same(q)
    BY <1>1, <1>2 DEF Same
  <2> QED
    BY <1>1, <1>2, <2>1, <2>2, SimulatesWords
<1>3. CASE SendsMark
  <2>1. /\ loop.at = "mark" /\ UNCHANGED client
        /\ told' = (IF loop.invalidated THEN told \cup {loop.task} ELSE told)
    BY <1>3 DEF SendsMark, LoopSends
  <2>2. ToldInv'
    BY <1>1, <1>3 DEF SendsMark, ToldInv, Idle, Loops
  <2>3. CASE loop.invalidated
    <3>1. PICK t \in Turns : t = loop.task /\ CapturedOf(t) /\ AnswerOf(t)
      BY <2>1, <2>3, CapturedTurn DEF Capturing
    <3>2. ~turn[t].completed /\ ~turn[t].recorded
      BY <2>1, <2>3, <3>1 DEF TalkInv, ToldInv, CapturedOf
    <3>3. Answers(t) = {}
      BY <3>1, <3>2 DEF AnswerOf
    <3> QED
      BY <1>2, <2>1, <2>2, <2>3, <3>1, <3>2, <3>3
  <2>4. CASE ~loop.invalidated
    BY <1>1, <2>1, <2>2, <2>4, LoopTalkMoves
  <2> QED
    BY <2>3, <2>4
<1>4. CASE SendsCancelled
  <2>1. /\ loop.at = "cancelled" /\ told' = told \cup {loop.response}
        /\ client' = [client EXCEPT ![loop.response].events = @ \cup {"cancelled"}]
        /\ loop'.at \in {"truncated", "evaluate"} /\ loop'.response = loop.response
    BY <1>1, <1>4 DEF SendsCancelled, LoopSends, Told, Loops
  <2>2. PICK t \in Turns : t = loop.task /\ CapturedOf(t) /\ AnswerOf(t) /\ loop.response \in {0, t}
    BY <2>1, CapturedTurn DEF Capturing
  <2>3. loop.response = t /\ ~turn[t].completed
    BY <2>1, <2>2 DEF CapturedOf
  <2>4. Answers(t) = {}
    BY <2>1, <2>2, <2>3 DEF AnswerOf
  <2>5. \A q \in Turns : client'[q].text = client[q].text /\ client'[q].audio = client[q].audio
    BY <1>1, <2>1 DEF Clients
  <2>6. ToldInv'
    BY <2>1 DEF ToldInv
  <2> QED
    BY <1>2, <2>1, <2>3, <2>4, <2>5, <2>6
<1> QED
  BY <1>3, <1>4

\* The history takes up what was heard of an answer that the client knows to be
\* cut short.
LEMMA TruncatedTalk ==
  ASSUME TurnsInv, TalkInv, SendsTruncated
  PROVE  TalkInv' /\ Simulated
<1>1. /\ loop.at = "truncated" /\ UNCHANGED <<started, turn, told, active, connected>>
      /\ client' = [client EXCEPT ![loop.response].events = @ \cup {"truncated"}]
      /\ history' = Append(history, <<"assistant", loop.response, turn[loop.response].emitted>>)
      /\ loop' = [loop EXCEPT !.at = "evaluate"]
  BY DEF SendsTruncated, LoopSends, Told, linkVars
<1>2. /\ loop \in Loops /\ client \in [Turns -> Clients] /\ history \in Seq(Entries)
  BY DEF TurnsInv, TypeInv
<1>3. PICK t \in Turns : /\ t = loop.task /\ CapturedOf(t) /\ loop.response \in {0, t}
                         /\ turn[t] \in TurnRecords
                         /\ turn[t].at = "ended" => client[t].audio = turn[t].emitted
  BY <1>1, CapturedTurn DEF Capturing
<1>4. /\ loop.response = t /\ turn[t].at = "ended" /\ ~turn[t].completed /\ Asked(t)
      /\ turn[t].evaluation # "interrupted" /\ client[t].audio = turn[t].emitted
  BY <1>1, <1>3 DEF CapturedOf
<1>5. t \in told /\ PaceOf(t) /\ OutcomeOf(t)
  BY <1>1, <1>4 DEF TalkInv, ToldInv
<1>6. ~Unmentioned(t)
  <2>1. Len(history) \in DOMAIN history
    BY <1>2, <1>4, LenProperties DEF Asked
  <2> QED
    BY <1>4, <2>1 DEF Asked, Unmentioned
<1>7. turn[t].evaluation \in {"none", "failed"}
  BY <1>3, <1>4, <1>5, <1>6 DEF OutcomeOf, TurnRecords
<1>8. history' = Append(history, <<"assistant", t, client[t].audio>>)
  BY <1>1, <1>4
<1>9. \A q \in Turns : client'[q].text = client[q].text /\ client'[q].audio = client[q].audio
  BY <1>1, <1>2 DEF Clients
<1>10. client[t].audio \in Nat
  BY <1>2 DEF Clients
<1>11. \A q \in Turns \ {t} : Apart(q)
  BY <1>8, <1>10, AppendsApart DEF TurnsInv
<1>12. ToldInv'
  BY <1>1, <1>2 DEF ToldInv, Loops
<1>13. PaceOf(t)' /\ OutcomeOf(t)'
  BY <1>1, <1>4, <1>5, <1>7, <1>9 DEF PaceOf, OutcomeOf, Running
<1>14. \A q \in Turns : Same(q)
  BY <1>1, <1>9 DEF Same
<1>15. ASSUME NEW q \in Turns \ {t}
       PROVE  PaceOf(q)' /\ OutcomeOf(q)'
  BY <1>1, <1>9, <1>11, TalkKept DEF TalkInv
<1>16. TalkInv'
  BY <1>12, <1>13, <1>15 DEF TalkInv
<1> QED
  BY <1>1, <1>4, <1>5, <1>7, <1>8, <1>14, <1>16, SimulatesWords

\* The turn that starts is the last one, and no other runs.
LEMMA StartTalk ==
  ASSUME TurnsInv, TalkInv, StartTurn
  PROVE  TalkInv' /\ Simulated
<1>1. /\ loop.at = "start" /\ loop' = Idle /\ UNCHANGED <<history, client, told, connected>>
      /\ started' = started + 1 /\ active' = started + 1
      /\ turn' = [turn EXCEPT ![started + 1].at = "transcribe"]
  BY DEF StartTurn, At, linkVars
<1>2. /\ started \in 0..MaxTurns /\ turn \in [Turns -> TurnRecords] /\ client \in [Turns -> Clients]
      /\ response_task = 0 /\ active = 0 /\ started < MaxTurns
  BY <1>1 DEF TurnsInv, TypeInv, StartInv, SessionInv
<1>3. PICK t \in Turns : t = started + 1 /\ t > started
  BY <1>2, BoundsAssumption DEF Turns
<1>4. turn[t] = NewTurn /\ Fresh(t) /\ t \notin told
  BY <1>3, TurnParts DEF SessionOf
<1>5. /\ turn'[t].at = "transcribe" /\ turn'[t].audio = "none" /\ turn'[t].generated = 0
      /\ ~turn'[t].completed /\ turn'[t].evaluation = "none" /\ turn[t].evaluation = "none"
      /\ \A q \in Turns \ {t} : turn'[q] = turn[q]
  BY <1>1, <1>2, <1>3, <1>4 DEF NewTurn
<1>6. client[t].text = 0 /\ client[t].audio = 0
  BY <1>4 DEF TalkInv, PaceOf, Fresh, NewTurn
<1>7. PaceOf(t)'
  BY <1>1, <1>5, <1>6 DEF PaceOf
<1>8. OutcomeOf(t)'
  BY <1>1, <1>3, <1>5 DEF OutcomeOf, Running
<1>9. ASSUME NEW q \in Turns \ {t}
      PROVE  PaceOf(q)' /\ OutcomeOf(q)' /\ Same(q)
  <2>1. ~Running(q)
    BY <1>2, TurnParts DEF SessionOf
  <2>2. Apart(q)
    BY <1>1, SameHistory
  <2> QED
    BY <1>1, <1>3, <1>5, <1>9, <2>1, <2>2, TalkKept DEF TalkInv
<1>10. ToldInv'
  BY <1>1 DEF ToldInv, Idle
<1>11. TalkInv'
  BY <1>7, <1>8, <1>9, <1>10 DEF TalkInv
<1>12. Same(t)
  BY <1>1, <1>5 DEF Same
<1> QED
  BY <1>1, <1>9, <1>11, <1>12, Stutters

LEMMA TalkInit == Init => TalkInv /\ Abstract!Init
<1> SUFFICES ASSUME Init PROVE TalkInv /\ Abstract!Init
  OBVIOUS
<1>1. /\ started = 0 /\ active = 0 /\ history = <<>> /\ told = {} /\ loop = Idle
      /\ \A t \in Turns : turn[t] = NewTurn /\ client[t] = NewClient
  BY DEF Init
<1>2. \A t \in Turns : PaceOf(t) /\ OutcomeOf(t)
  BY <1>1 DEF PaceOf, OutcomeOf, Running, NewTurn, NewClient, Turns
<1>3. ToldInv
  BY <1>1 DEF ToldInv, Idle
<1>4. Abstract!Init
  BY <1>1 DEF Abstract!Init, NewTurn, NewClient
<1> QED
  BY <1>2, <1>3, <1>4 DEF TalkInv

LEMMA TalkNext == TurnsInv /\ TalkInv /\ [Next]_vars => TalkInv' /\ Simulated
<1> SUFFICES ASSUME TurnsInv, TalkInv, [Next]_vars PROVE TalkInv' /\ Simulated
  OBVIOUS
<1>1. CASE \E t \in Turns : TurnSteps(t) \/ AudioSteps(t)
  BY <1>1, QuietTalk, SpeakingTalk DEF TurnSteps, AudioSteps
<1>2. CASE Cancels \/ Records \/ Evaluates \/ StartTurn
  BY <1>2, CancelTalk, StartTalk
<1>3. CASE SendsMark \/ SendsCancelled \/ SendsTruncated
  BY <1>3, SilencesTalk, TruncatedTalk
<1>4. CASE \/ SpeechStarted \/ SpeechStopped \/ Overflows \/ ClientCancels \/ Closes
           \/ ClosesRuntime \/ Releases \/ LoopTakesLock \/ LoopSendFails \/ SendsStop \/ Gathers
           \/ Disconnects \/ UNCHANGED vars
  BY <1>4, IdleTalk
<1> QED
  BY <1>1, <1>2, <1>3, <1>4 DEF Next

\* A session, with its tasks, its lock and its cancellations, is a conversation:
\* whatever cuts an answer off, what the user was shown, what the user was sent to
\* hear, what the model will remember and how the turn is reported agree.
THEOREM ImplementsConversationHolds == Spec => ImplementsConversation
<1>1. TurnsInv /\ TalkInv /\ [Next]_vars => TalkInv' /\ [Abstract!Next]_(Abstract!vars)
  BY TalkNext DEF Simulated
<1> QED
  BY <1>1, TalkInit, TurnsInvariance, PTL DEF Spec, ImplementsConversation, Abstract!Spec
=============================================================================
