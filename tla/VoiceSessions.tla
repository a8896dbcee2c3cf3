--------------------------- MODULE VoiceSessions ----------------------------
(***************************************************************************)
(* The life of a realtime voice session: the gateway has one created       *)
(* (create_realtime_session), the client uses its one-time ticket for a    *)
(* websocket (realtime_proxy, realtime_socket) or for a WebRTC offer       *)
(* (create_webrtc_offer, SmallWebRTCPeer), and every way it can end gives  *)
(* its place in the registry back.  What is said meanwhile is the matter   *)
(* of the module VoiceTurns.                                               *)
(*                                                                         *)
(* All of it runs on one event loop: a step reaches to the next await.  A  *)
(* handler h serves one attempt to connect; its peer may be closed by the  *)
(* client, by the end of its worker, by the timer and by its own offer,    *)
(* in any order and at any await of the offer or of another close.         *)
(***************************************************************************)
EXTENDS Naturals, FiniteSets

CONSTANTS
  Handlers,     \* attempts to connect
  MaxSessions,  \* max_sessions of the registry
  MaxCreated    \* how many sessions an instance creates

ASSUME SessionsAssumption == MaxSessions \in Nat \ {0} /\ MaxCreated \in Nat

VARIABLES
  created,      \* sessions are numbered as they are created
  sessions, connected, \* VoiceSessionRegistry
  expired,      \* the sessions whose ticket has run out
  tickets,      \* the sessions whose ticket the client has
  active,       \* active_sessions of the metrics
  peers,        \* app.state.webrtc_peers: the sessions that have one
  handler       \* of each attempt
vars == <<created, sessions, connected, expired, tickets, active, peers, handler>>

\* The two closes of a peer: of its transport alone, while it has no lifecycle
\* (_partial_close_started), and of all it holds (PeerLifecycle._closing).
Closes == {"partial", "full"}

\* "closing" is how far each close of the peer is, "early" that one began before
\* the runner ran, "open" what the handler holds.
NewHandler == [at |-> "none", session |-> 0, lifecycle |-> FALSE,
               closing |-> [k \in Closes |-> "no"], early |-> FALSE,
               finalized |-> FALSE, timer |-> FALSE, open |-> {}]

Init ==
  /\ created = 0 /\ sessions = {} /\ connected = {} /\ expired = {} /\ tickets = {}
  /\ active = 0 /\ peers = {}
  /\ handler = [h \in Handlers |-> NewHandler]

At(h, at) == handler[h].at = at
Session(h) == handler[h].session
Goes(h, at) == handler' = [handler EXCEPT ![h].at = at]

-----------------------------------------------------------------------------
(* The registry                                                            *)

\* Mutant of Kept: a ticket that ran out takes a connected session with it.
KeptFresh == sessions \ expired
\* _remove_expired
Kept == sessions \ (expired \ connected)

\* create: a full registry raises, having dropped what expired.
HasRoom == Cardinality(Kept) < MaxSessions
Created ==
  /\ sessions' = IF HasRoom THEN Kept \cup {created + 1} ELSE Kept
  /\ created' = created + 1

\* create_session of the voice service, for its caller: "answered" is whether
\* the answer, which has the ticket, reaches it.
Answer(answered) ==
  tickets' = IF HasRoom /\ answered THEN tickets \cup {created + 1} ELSE tickets

\* The gateway verifies the route only after the session was created: when that
\* fails, or the answer is lost, the session is there and nobody has its ticket.
CreatesSession(answered) ==
  /\ created < MaxCreated
  /\ Created /\ Answer(answered)
  /\ UNCHANGED <<connected, expired, active, peers, handler>>

Expires(s) ==
  /\ s \in sessions \ expired
  /\ expired' = expired \cup {s}
  /\ UNCHANGED <<created, sessions, connected, tickets, active, peers, handler>>

\* consume
Consumable(s) == s \in Kept /\ s \notin connected /\ s \notin expired

\* A handler is refused, or starts with the session and what it holds.
Consumes(h, s, at, open) ==
  /\ At(h, "none") /\ s \in tickets
  /\ sessions' = Kept
  /\ IF Consumable(s)
       THEN /\ connected' = connected \cup {s}
            /\ handler' = [handler EXCEPT ![h].at = at, ![h].session = s, ![h].open = open]
       ELSE Goes(h, "refused") /\ connected' = connected

\* remove, and the counter of the metrics.
Removes(s) ==
  /\ sessions' = sessions \ {s} /\ connected' = connected \ {s}
  /\ active' = IF active = 0 THEN 0 ELSE active - 1

registryVars == <<sessions, connected, active>>

-----------------------------------------------------------------------------
(* A websocket: realtime_socket behind the gateway's realtime_proxy        *)

SocketConnects(h, s) ==
  /\ Consumes(h, s, "accepting", {"provider"})
  /\ UNCHANGED <<created, expired, tickets, active, peers>>

\* The handshake is answered, the session counted.
Accepted(h) ==
  /\ At(h, "accepting")
  /\ active' = active + 1
  /\ Goes(h, "greeting")
  /\ UNCHANGED <<created, sessions, connected, expired, tickets, peers>>

\* session.created and session.configured are sent.
Greeted(h) ==
  /\ At(h, "greeting")
  /\ Goes(h, "serving")
  /\ UNCHANGED <<created, registryVars, expired, tickets, peers>>

\* The client is gone before the handler has reached its try statement.
AcceptFails(h) ==
  /\ At(h, "accepting")
  /\ Goes(h, "lost")
  /\ UNCHANGED <<created, registryVars, expired, tickets, peers>>

GreetingFails(h) ==
  /\ At(h, "greeting")
  /\ Goes(h, "broken")
  /\ UNCHANGED <<created, registryVars, expired, tickets, peers>>

\* Either side of the relay ends, which ends the other; the session is closed,
\* or its time is over.
SocketCloses(h) ==
  /\ At(h, "serving")
  /\ Goes(h, "closing")
  /\ UNCHANGED <<created, registryVars, expired, tickets, peers>>

\* The finally clause; runtime.close or provider.close may raise out of it.
SocketReleases(h) ==
  /\ At(h, "closing")
  /\ handler' = [handler EXCEPT ![h].at = "gone", ![h].open = {}]
  /\ Removes(Session(h))
  /\ UNCHANGED <<created, expired, tickets, peers>>

SocketReleaseFails(h) ==
  /\ At(h, "closing")
  /\ Goes(h, "broken")
  /\ UNCHANGED <<created, registryVars, expired, tickets, peers>>

SocketStep(h) ==
  \/ Accepted(h) \/ Greeted(h) \/ AcceptFails(h) \/ GreetingFails(h) \/ SocketCloses(h)
  \/ SocketReleases(h) \/ SocketReleaseFails(h)

-----------------------------------------------------------------------------
(* An offer: create_webrtc_offer and SmallWebRTCPeer.accept_offer          *)

Offering == {"initializing", "preparing", "starting"}
\* finalize_peer; it also cancels the timer.
Finalized(h, record) == [record EXCEPT !.finalized = TRUE, !.timer = FALSE]

Finalizes(h, record) ==
  IF handler[h].finalized
    THEN handler' = [handler EXCEPT ![h] = record] /\ UNCHANGED <<registryVars, peers>>
    ELSE /\ handler' = [handler EXCEPT ![h] = Finalized(h, record)]
         /\ Removes(Session(h)) /\ peers' = peers \ {Session(h)}

Offers(h, s) ==
  /\ Consumes(h, s, "initializing", {"connection"})
  /\ IF Consumable(s) THEN active' = active + 1 /\ peers' = peers \cup {s}
                      ELSE UNCHANGED <<active, peers>>
  /\ UNCHANGED <<created, expired, tickets>>

\* The connection is initialized: provider, runtime and lifecycle are made.
Initialized(h) ==
  /\ At(h, "initializing")
  /\ handler' = [handler EXCEPT ![h].at = "preparing", ![h].lifecycle = TRUE,
                                ![h].open = @ \cup {"provider"}]
  /\ UNCHANGED <<created, registryVars, expired, tickets, peers>>

\* The runner has its worker and runs.
Prepared(h) ==
  /\ At(h, "preparing")
  /\ handler' = [handler EXCEPT ![h].at = "starting", ![h].open = @ \cup {"worker"}]
  /\ UNCHANGED <<created, registryVars, expired, tickets, peers>>

\* Mutant of Answered: an answered offer has no timer.
AnsweredUntimed(h) == [handler[h] EXCEPT !.at = "answered"]
\* The runner was ready in time; schedule_session_timeout.
Answered(h) == [handler[h] EXCEPT !.at = "answered", !.timer = TRUE]

Answers(h) ==
  /\ At(h, "starting")
  /\ handler' = [handler EXCEPT ![h] = Answered(h)]
  /\ UNCHANGED <<created, registryVars, expired, tickets, peers>>

\* An await of the offer raises, or the runner is not ready in 15 seconds.
OfferFails(h) ==
  /\ handler[h].at \in Offering
  /\ Goes(h, "failing")
  /\ UNCHANGED <<created, registryVars, expired, tickets, peers>>

\* SmallWebRTCPeer.close, with the effect e on the rest of the handler: a close
\* that has begun is not begun again.
AsksToClose(h, e) ==
  LET k == IF handler[h].lifecycle THEN "full" ELSE "partial"
  IN  IF handler[h].closing[k] # "no"
        THEN handler' = [handler EXCEPT ![h] = e]
        ELSE handler' = [handler EXCEPT ![h] =
               [e EXCEPT !.closing[k] = IF k = "full" THEN "runtime" ELSE "transport",
                         !.early = e.early \/ handler[h].at \in {"initializing", "preparing"}]]

\* closed, on_client_disconnected, session.close, _runner_finished
PeerCloses(h) ==
  /\ handler[h].at \in Offering \cup {"answered"}
  /\ AsksToClose(h, handler[h])
  /\ UNCHANGED <<created, registryVars, expired, tickets, peers>>

\* The except clause of the offer.
OfferCloses(h) ==
  /\ At(h, "failing")
  /\ AsksToClose(h, [handler[h] EXCEPT !.at = "over"])
  /\ UNCHANGED <<created, registryVars, expired, tickets, peers>>

\* The timer: close_expired_peer.
TimerFires(h) ==
  /\ handler[h].timer
  /\ LET fired == [handler[h] EXCEPT !.timer = FALSE]
     IN  IF Session(h) \in peers THEN AsksToClose(h, fired)
                                 ELSE handler' = [handler EXCEPT ![h] = fired]
  /\ UNCHANGED <<created, registryVars, expired, tickets, peers>>

-----------------------------------------------------------------------------
(* A close under way: every step may raise, and the next follows all the same *)

Closing(h, k, at) == handler[h].closing[k] = at

RuntimeClosed(h) ==
  /\ Closing(h, "full", "runtime")
  /\ handler' = [handler EXCEPT ![h].closing["full"] = "provider"]
  /\ UNCHANGED <<created, registryVars, expired, tickets, peers>>

\* Mutant of AfterProvider: a provider that cannot be closed ends the close.
AfterProviderRaised(raises) == IF raises THEN "finalizing" ELSE "transport"
AfterProvider(raises) == "transport"

ProviderClosed(h, raises) ==
  /\ Closing(h, "full", "provider")
  /\ handler' = [handler EXCEPT ![h].closing["full"] = AfterProvider(raises),
                                ![h].open = @ \ {"provider"}]
  /\ UNCHANGED <<created, registryVars, expired, tickets, peers>>

\* _close_transport closes what there is by now.
TransportClosed(h, k) ==
  /\ Closing(h, k, "transport")
  /\ handler' = [handler EXCEPT ![h].closing[k] = "finalizing",
                                ![h].open = @ \ {"worker", "connection"}]
  /\ UNCHANGED <<created, registryVars, expired, tickets, peers>>

\* on_closed; an error of an earlier step reaches the caller only then, whose own
\* finalize_peer finds the peer finalized.
Closed(h, k) ==
  /\ Closing(h, k, "finalizing")
  /\ Finalizes(h, [handler[h] EXCEPT !.closing[k] = "done"])
  /\ UNCHANGED <<created, expired, tickets>>

OfferStep(h) ==
  \/ Initialized(h) \/ Prepared(h) \/ Answers(h) \/ OfferFails(h) \/ OfferCloses(h)

CloseStep(h) ==
  \/ RuntimeClosed(h)
  \/ \E raises \in BOOLEAN : ProviderClosed(h, raises)
  \/ \E k \in Closes : TransportClosed(h, k) \/ Closed(h, k)
  \/ TimerFires(h)

Next ==
  \/ \E answered \in BOOLEAN : CreatesSession(answered)
  \/ \E s \in sessions : Expires(s)
  \/ \E h \in Handlers : \/ \E s \in tickets : SocketConnects(h, s) \/ Offers(h, s)
                         \/ SocketStep(h) \/ OfferStep(h) \/ CloseStep(h) \/ PeerCloses(h)

Spec == Init /\ [][Next]_vars

\* The handlers are tasks of the event loop, what they await has a time limit
\* (the session's, the 15 seconds of the runner) or is the transport's to end.
FairSpec ==
  Spec /\ \A h \in Handlers : WF_vars(SocketStep(h)) /\ WF_vars(OfferStep(h))
                               /\ WF_vars(CloseStep(h))

-----------------------------------------------------------------------------
(* Properties                                                              *)

Offered(h) == handler[h].at \in Offering \cup {"failing", "answered", "over"}

\* The handlers that have taken a session's place and not given it back.
Occupies(h) ==
  \/ handler[h].at \in {"accepting", "greeting", "serving", "closing", "lost", "broken"}
  \/ Offered(h) /\ ~handler[h].finalized

\* A session is served by one handler, and no more handlers are served than the
\* registry has places (session.py, consume and _remove_expired: a ticket is good
\* once, and a session in use survives the end of its ticket).
ServedWithinCapacity ==
  /\ \A g, h \in Handlers : Occupies(g) /\ Occupies(h) /\ g # h => Session(g) # Session(h)
  /\ Cardinality({h \in Handlers : Occupies(h)}) <= MaxSessions

ClosesDone(h) == \A k \in Closes : handler[h].closing[k] \in {"no", "done"}

\* A finalized peer whose offer is over, or was answered before anything closed
\* it, holds no provider, worker or connection, whichever of its closes came
\* first and whatever they raised (small_webrtc.py, PeerLifecycle.close).
PeersReleased ==
  \A h \in Handlers :
    handler[h].at \in {"answered", "over"} /\ handler[h].finalized /\ ClosesDone(h)
      /\ ~handler[h].early
    => handler[h].open = {}

\* Every session that was connected is given back, but for a websocket that
\* failed outside of its try statement or in the finally clause (voice/app.py).
ConnectedEnds ==
  \A s \in 1..MaxCreated :
    s \in connected ~> \/ s \notin connected
                      \/ \E h \in Handlers : Session(h) = s /\ handler[h].at \in {"lost", "broken"}
=============================================================================
