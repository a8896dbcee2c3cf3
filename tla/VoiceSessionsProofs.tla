------------------------- MODULE VoiceSessionsProofs -------------------------
(***************************************************************************)
(* For any handlers, any size of the registry and any number of sessions:  *)
(* what is served fits in the registry, and a peer that was closed holds   *)
(* nothing any more.                                                       *)
(***************************************************************************)
EXTENDS VoiceSessions, FiniteSetTheorems, FunctionTheorems, TLAPS

Peers == Offering \cup {"failing", "answered", "over"}
Sockets == {"accepting", "greeting", "serving", "closing", "lost", "broken"}
Places == {"none", "refused", "gone"} \cup Sockets \cup Peers
Steps == {"no", "runtime", "provider", "transport", "finalizing", "done"}
HandlerType ==
  [at : Places, session : Nat, lifecycle : BOOLEAN, closing : [Closes -> Steps],
   early : BOOLEAN, finalized : BOOLEAN, timer : BOOLEAN,
   open : SUBSET {"provider", "worker", "connection"}]

TypeOK ==
  /\ created \in Nat /\ tickets \subseteq Nat
  /\ IsFiniteSet(sessions) /\ Cardinality(sessions) <= MaxSessions
  /\ handler \in [Handlers -> HandlerType]

\* How far a peer has come, and what its closes have left of it: a close that
\* began once the runner ran finds all there is to close.
Untouched(r) == ~r.timer /\ ~r.finalized /\ r.closing["partial"] = "no" /\ r.closing["full"] = "no"

ClosedInv(r) ==
  /\ r.at \in {"initializing", "preparing"} => Untouched(r)
  /\ r.closing["partial"] # "no" => ~r.lifecycle
  /\ r.closing["partial"] \in {"finalizing", "done"} => r.open \cap {"worker", "connection"} = {}
  /\ r.closing["full"] \in {"transport", "finalizing", "done"} => "provider" \notin r.open
  /\ r.closing["full"] \in {"finalizing", "done"} => r.open \cap {"worker", "connection"} = {}

PeerInv(r) ==
  /\ r.at \notin Peers => Untouched(r)
  /\ r.at \in {"none", "initializing"} => ~r.lifecycle
  /\ r.at \in {"preparing", "starting", "answered"} => r.lifecycle
  /\ r.timer => r.at = "answered"
  /\ r.finalized => r.closing["partial"] = "done" \/ r.closing["full"] = "done"
  /\ r.at \in Peers /\ ~r.lifecycle =>
       r.closing["full"] = "no" /\ "provider" \notin r.open /\ "worker" \notin r.open
  /\ ~r.early => ClosedInv(r)

Occupying(r) == r.at \in Sockets \/ (r.at \in Peers /\ ~r.finalized)

\* Whoever is served has its own session, which is in the registry and taken.
OwnSession ==
  /\ \A h \in Handlers : Occupying(handler[h]) => Session(h) \in sessions \cap connected
  /\ \A g, h \in Handlers :
       Occupying(handler[g]) /\ Occupying(handler[h]) /\ g # h => Session(g) # Session(h)

IInv == TypeOK /\ OwnSession /\ \A h \in Handlers : PeerInv(handler[h])

-----------------------------------------------------------------------------
LEMMA InitInv == Init => IInv
<1> SUFFICES ASSUME Init PROVE IInv
  OBVIOUS
<1>1. TypeOK
  BY SessionsAssumption, FS_EmptySet
     DEF Init, TypeOK, HandlerType, NewHandler, Places, Steps, Closes
<1>2. OwnSession
  BY DEF Init, OwnSession, Occupying, NewHandler, Sockets, Peers, Offering
<1>3. \A h \in Handlers : PeerInv(handler[h])
  BY DEF Init, PeerInv, ClosedInv, Untouched, NewHandler, Peers, Offering, Closes
<1> QED
  BY <1>1, <1>2, <1>3 DEF IInv

\* Only finished sessions leave the registry with what expired.
LEMMA KeptFinite ==
  ASSUME IInv
  PROVE  /\ IsFiniteSet(Kept) /\ Cardinality(Kept) <= MaxSessions
         /\ Cardinality(Kept) \in Nat /\ Kept \subseteq sessions
         /\ sessions \cap connected \subseteq Kept
<1>1. Kept \in SUBSET sessions /\ sessions \cap connected \subseteq Kept
  BY DEF Kept
<1>2. IsFiniteSet(sessions) /\ Cardinality(sessions) <= MaxSessions
  BY DEF IInv, TypeOK
<1>3. IsFiniteSet(Kept) /\ Cardinality(Kept) <= Cardinality(sessions)
  BY <1>1, <1>2, FS_Subset
<1>4. Cardinality(Kept) \in Nat /\ Cardinality(sessions) \in Nat
  BY <1>2, <1>3, FS_CardinalityType
<1> QED
  BY <1>1, <1>2, <1>3, <1>4, SessionsAssumption

LEMMA CreateStep ==
  ASSUME IInv, NEW answered \in BOOLEAN, CreatesSession(answered)
  PROVE  IInv'
<1>1. handler' = handler /\ connected' = connected
  BY DEF CreatesSession
<1>2. Kept \subseteq sessions' /\ sessions \cap connected \subseteq Kept
  BY KeptFinite DEF CreatesSession, Created
<1>3. IsFiniteSet(sessions') /\ Cardinality(sessions') <= MaxSessions
  <2>1. CASE HasRoom
    <3>1. Cardinality(Kept) < MaxSessions /\ sessions' = Kept \cup {created + 1}
      BY <2>1 DEF HasRoom, CreatesSession, Created
    <3>2. /\ IsFiniteSet(sessions')
          /\ Cardinality(sessions') \in {Cardinality(Kept), Cardinality(Kept) + 1}
      BY <3>1, KeptFinite, FS_AddElement
    <3> QED
      BY <3>1, <3>2, KeptFinite, SessionsAssumption
  <2>2. CASE ~HasRoom
    BY <2>2, KeptFinite DEF CreatesSession, Created
  <2> QED
    BY <2>1, <2>2
<1>4. created' \in Nat /\ tickets' \subseteq Nat
  BY DEF IInv, TypeOK, CreatesSession, Created, Answer
<1>5. OwnSession'
  BY <1>1, <1>2 DEF IInv, OwnSession, Session
<1> QED
  BY <1>1, <1>3, <1>4, <1>5 DEF IInv, TypeOK

LEMMA ExpiresStep ==
  ASSUME IInv, NEW s, Expires(s)
  PROVE  IInv'
  BY DEF IInv, TypeOK, OwnSession, Session, Expires

-----------------------------------------------------------------------------
(* A step of one handler that leaves the registry as it is                 *)

Moves(h) ==
  /\ handler' = [handler EXCEPT ![h] = handler'[h]]
  /\ UNCHANGED <<created, sessions, connected, tickets>>
  /\ handler'[h].session = handler[h].session
  /\ Occupying(handler'[h]) => Occupying(handler[h])

LEMMA OneHandler ==
  ASSUME IInv, NEW h \in Handlers, Moves(h), handler'[h] \in HandlerType, PeerInv(handler'[h])
  PROVE  IInv'
<1>1. \A g \in Handlers \ {h} : handler'[g] = handler[g]
  BY DEF Moves, IInv, TypeOK
<1>2. TypeOK'
  BY DEF IInv, TypeOK, Moves
<1>3. \A g \in Handlers : /\ Session(g)' = Session(g)
                          /\ Occupying(handler'[g]) => Occupying(handler[g])
  BY <1>1 DEF Moves, Session
<1>4. OwnSession'
  BY <1>3 DEF IInv, OwnSession, Moves
<1>5. \A g \in Handlers : PeerInv(handler'[g])
  BY <1>1 DEF IInv
<1> QED
  BY <1>2, <1>4, <1>5 DEF IInv

LEMMA SocketMoves ==
  ASSUME IInv, NEW h \in Handlers,
         \/ Accepted(h) \/ Greeted(h) \/ AcceptFails(h) \/ GreetingFails(h)
         \/ SocketCloses(h) \/ SocketReleaseFails(h)
  PROVE  IInv'
<1> USE DEF At, Goes, registryVars, Peers, Sockets, Offering, Closes
<1>0. /\ handler[h] \in HandlerType /\ PeerInv(handler[h])
      /\ handler \in [Handlers -> HandlerType]
  BY DEF IInv, TypeOK
<1>1. CASE Accepted(h)
  <2>1. Moves(h)
    BY <1>0, <1>1 DEF Accepted, Moves, Occupying, HandlerType
  <2>2. handler'[h] \in HandlerType
    BY <1>0, <1>1 DEF Accepted, HandlerType, Steps, Places
  <2>3. PeerInv(handler'[h])
    BY <1>0, <1>1 DEF Accepted, HandlerType, PeerInv, ClosedInv, Untouched, Steps, Places
  <2> QED
    BY <2>1, <2>2, <2>3, OneHandler
<1>2. CASE Greeted(h)
  <2>1. Moves(h)
    BY <1>0, <1>2 DEF Greeted, Moves, Occupying, HandlerType
  <2>2. handler'[h] \in HandlerType
    BY <1>0, <1>2 DEF Greeted, HandlerType, Steps, Places
  <2>3. PeerInv(handler'[h])
    BY <1>0, <1>2 DEF Greeted, HandlerType, PeerInv, ClosedInv, Untouched, Steps, Places
  <2> QED
    BY <2>1, <2>2, <2>3, OneHandler
<1>3. CASE AcceptFails(h)
  <2>1. Moves(h)
    BY <1>0, <1>3 DEF AcceptFails, Moves, Occupying, HandlerType
  <2>2. handler'[h] \in HandlerType
    BY <1>0, <1>3 DEF AcceptFails, HandlerType, Steps, Places
  <2>3. PeerInv(handler'[h])
    BY <1>0, <1>3 DEF AcceptFails, HandlerType, PeerInv, ClosedInv, Untouched, Steps, Places
  <2> QED
    BY <2>1, <2>2, <2>3, OneHandler
<1>4. CASE GreetingFails(h)
  <2>1. Moves(h)
    BY <1>0, <1>4 DEF GreetingFails, Moves, Occupying, HandlerType
  <2>2. handler'[h] \in HandlerType
    BY <1>0, <1>4 DEF GreetingFails, HandlerType, Steps, Places
  <2>3. PeerInv(handler'[h])
    BY <1>0, <1>4 DEF GreetingFails, HandlerType, PeerInv, ClosedInv, Untouched, Steps, Places
  <2> QED
    BY <2>1, <2>2, <2>3, OneHandler
<1>5. CASE SocketCloses(h)
  <2>1. Moves(h)
    BY <1>0, <1>5 DEF SocketCloses, Moves, Occupying, HandlerType
  <2>2. handler'[h] \in HandlerType
    BY <1>0, <1>5 DEF SocketCloses, HandlerType, Steps, Places
  <2>3. PeerInv(handler'[h])
    BY <1>0, <1>5 DEF SocketCloses, HandlerType, PeerInv, ClosedInv, Untouched, Steps, Places
  <2> QED
    BY <2>1, <2>2, <2>3, OneHandler
<1>6. CASE SocketReleaseFails(h)
  <2>1. Moves(h)
    BY <1>0, <1>6 DEF SocketReleaseFails, Moves, Occupying, HandlerType
  <2>2. handler'[h] \in HandlerType
    BY <1>0, <1>6 DEF SocketReleaseFails, HandlerType, Steps, Places
  <2>3. PeerInv(handler'[h])
    BY <1>0, <1>6 DEF SocketReleaseFails, HandlerType, PeerInv, ClosedInv, Untouched, Steps, Places
  <2> QED
    BY <2>1, <2>2, <2>3, OneHandler
<1> QED
  BY <1>1, <1>2, <1>3, <1>4, <1>5, <1>6

LEMMA OfferMoves ==
  ASSUME IInv, NEW h \in Handlers,
         Initialized(h) \/ Prepared(h) \/ Answers(h) \/ OfferFails(h)
  PROVE  IInv'
<1> USE DEF At, Goes, registryVars, Peers, Sockets, Offering, Closes
<1>0. /\ handler[h] \in HandlerType /\ PeerInv(handler[h])
      /\ handler \in [Handlers -> HandlerType]
  BY DEF IInv, TypeOK
<1>1. CASE Initialized(h)
  <2>1. Moves(h)
    BY <1>0, <1>1 DEF Initialized, Moves, Occupying, HandlerType
  <2>2. handler'[h] \in HandlerType
    BY <1>0, <1>1 DEF Initialized, HandlerType, Steps, Places
  <2>3. PeerInv(handler'[h])
    BY <1>0, <1>1 DEF Initialized, HandlerType, PeerInv, ClosedInv, Untouched, Steps, Places
  <2> QED
    BY <2>1, <2>2, <2>3, OneHandler
<1>2. CASE Prepared(h)
  <2>1. Moves(h)
    BY <1>0, <1>2 DEF Prepared, Moves, Occupying, HandlerType
  <2>2. handler'[h] \in HandlerType
    BY <1>0, <1>2 DEF Prepared, HandlerType, Steps, Places
  <2>3. PeerInv(handler'[h])
    BY <1>0, <1>2 DEF Prepared, HandlerType, PeerInv, ClosedInv, Untouched, Steps, Places
  <2> QED
    BY <2>1, <2>2, <2>3, OneHandler
<1>3. CASE Answers(h)
  <2>1. Moves(h)
    BY <1>0, <1>3 DEF Answers, Answered, Moves, Occupying, HandlerType
  <2>2. handler'[h] \in HandlerType
    BY <1>0, <1>3 DEF Answers, Answered, HandlerType, Steps, Places
  <2>3. PeerInv(handler'[h])
    BY <1>0, <1>3 DEF Answers, Answered, HandlerType, PeerInv, ClosedInv, Untouched, Steps, Places
  <2> QED
    BY <2>1, <2>2, <2>3, OneHandler
<1>4. CASE OfferFails(h)
  <2>1. Moves(h)
    BY <1>0, <1>4 DEF OfferFails, Moves, Occupying, HandlerType
  <2>2. handler'[h] \in HandlerType
    BY <1>0, <1>4 DEF OfferFails, HandlerType, Steps, Places
  <2>3. PeerInv(handler'[h])
    BY <1>0, <1>4 DEF OfferFails, HandlerType, PeerInv, ClosedInv, Untouched, Steps, Places
  <2> QED
    BY <2>1, <2>2, <2>3, OneHandler
<1> QED
  BY <1>1, <1>2, <1>3, <1>4

LEMMA CloseMoves ==
  ASSUME IInv, NEW h \in Handlers,
         \/ RuntimeClosed(h) \/ \E raises \in BOOLEAN : ProviderClosed(h, raises)
         \/ \E k \in Closes : TransportClosed(h, k)
  PROVE  IInv'
<1> USE DEF At, Goes, registryVars, Peers, Sockets, Offering, Closes, Closing
<1>0. /\ handler[h] \in HandlerType /\ PeerInv(handler[h])
      /\ handler \in [Handlers -> HandlerType]
  BY DEF IInv, TypeOK
<1>1. CASE RuntimeClosed(h)
  <2>1. Moves(h)
    BY <1>0, <1>1 DEF RuntimeClosed, Moves, Occupying, HandlerType
  <2>2. handler'[h] \in HandlerType
    BY <1>0, <1>1 DEF RuntimeClosed, HandlerType, Steps, Places
  <2>3. PeerInv(handler'[h])
    BY <1>0, <1>1 DEF RuntimeClosed, HandlerType, PeerInv, ClosedInv, Untouched, Steps, Places
  <2> QED
    BY <2>1, <2>2, <2>3, OneHandler
<1>2. ASSUME NEW raises \in BOOLEAN, ProviderClosed(h, raises) PROVE IInv'
  <2>1. Moves(h)
    BY <1>0, <1>2 DEF ProviderClosed, AfterProvider, Moves, Occupying, HandlerType
  <2>2. handler'[h] \in HandlerType
    BY <1>0, <1>2 DEF ProviderClosed, AfterProvider, HandlerType, Steps, Places
  <2>3. PeerInv(handler'[h])
    BY <1>0, <1>2 DEF ProviderClosed, AfterProvider, HandlerType, PeerInv, ClosedInv, Untouched, Steps, Places
  <2> QED
    BY <2>1, <2>2, <2>3, OneHandler
<1>3. ASSUME NEW k \in Closes, TransportClosed(h, k) PROVE IInv'
  <2>1. Moves(h)
    BY <1>0, <1>3 DEF TransportClosed, Moves, Occupying, HandlerType
  <2>2. handler'[h] \in HandlerType
    BY <1>0, <1>3 DEF TransportClosed, HandlerType, Steps, Places
  <2>3. PeerInv(handler'[h])
    BY <1>0, <1>3 DEF TransportClosed, HandlerType, PeerInv, ClosedInv, Untouched, Steps, Places
  <2> QED
    BY <2>1, <2>2, <2>3, OneHandler
<1> QED
  BY <1>1, <1>2, <1>3

\* SmallWebRTCPeer.close begins at most once, with the rest of the step in e.
LEMMA AskedInv ==
  ASSUME IInv, NEW h \in Handlers, NEW e \in HandlerType, AsksToClose(h, e),
         handler[h].at \in Peers, PeerInv(handler[h]),
         e.at = handler[h].at \/ (e.at = "over" /\ handler[h].at = "failing"),
         e.timer \in {FALSE, handler[h].timer}, e.at # handler[h].at => ~e.timer,
         e.session = handler[h].session, e.lifecycle = handler[h].lifecycle,
         e.closing = handler[h].closing, e.early = handler[h].early,
         e.finalized = handler[h].finalized, e.open = handler[h].open,
         UNCHANGED <<created, registryVars, tickets>>
  PROVE  IInv'
<1> USE DEF Closes
<1> DEFINE k == IF handler[h].lifecycle THEN "full" ELSE "partial"
<1>0. /\ handler[h] \in HandlerType /\ handler \in [Handlers -> HandlerType]
      /\ k \in Closes /\ e.closing[k] \in Steps
  BY DEF IInv, TypeOK, HandlerType
<1>1. PeerInv(e)
  BY <1>0 DEF PeerInv, ClosedInv, Untouched, Peers, Offering, HandlerType
<1>2. CASE handler[h].closing[k] # "no"
  <2>1. handler' = [handler EXCEPT ![h] = e]
    BY <1>2 DEF AsksToClose
  <2>2. handler'[h] = e
    BY <1>0, <2>1
  <2>3. Moves(h)
    BY <2>1, <2>2 DEF Moves, registryVars, Occupying, Peers, Offering, Sockets
  <2> QED
    BY <1>1, <2>2, <2>3, OneHandler
<1>3. CASE handler[h].closing[k] = "no"
  <2> DEFINE early == e.early \/ handler[h].at \in {"initializing", "preparing"}
             step == IF k = "full" THEN "runtime" ELSE "transport"
             r == [e EXCEPT !.closing[k] = step, !.early = early]
  <2>1. handler' = [handler EXCEPT ![h] = r]
    BY <1>3 DEF AsksToClose
  <2>2. handler'[h] = r
    BY <1>0, <2>1
  <2>3. r \in HandlerType
    BY <1>0 DEF HandlerType, Steps
  <2>4. Moves(h)
    <3>1. r.session = e.session /\ r.at = e.at /\ r.finalized = e.finalized
      BY <1>0
    <3> HIDE DEF r
    <3> QED
      BY <2>1, <2>2, <3>1 DEF Moves, registryVars, Occupying, Peers, Offering, Sockets
  <2>5. PeerInv(r)
    <3>1. /\ r.at = e.at /\ r.lifecycle = e.lifecycle /\ r.timer = e.timer
          /\ r.finalized = e.finalized /\ r.open = e.open /\ r.early = early
          /\ r.closing[k] = step /\ e.closing[k] = "no"
          /\ \A j \in Closes \ {k} : r.closing[j] = e.closing[j]
      BY <1>0, <1>3 DEF HandlerType
    <3> HIDE DEF r
    <3>2. CASE handler[h].lifecycle
      BY <1>0, <1>1, <3>1, <3>2 DEF PeerInv, ClosedInv, Untouched, Peers, Offering
    <3>3. CASE ~handler[h].lifecycle
      BY <1>0, <1>1, <3>1, <3>3 DEF PeerInv, ClosedInv, Untouched, Peers, Offering
    <3> QED
      BY <3>2, <3>3
  <2> QED
    BY <2>2, <2>3, <2>4, <2>5, OneHandler
<1> QED
  BY <1>2, <1>3

LEMMA AskMoves ==
  ASSUME IInv, NEW h \in Handlers, PeerCloses(h) \/ OfferCloses(h) \/ TimerFires(h)
  PROVE  IInv'
<1> USE DEF registryVars, Peers, Offering
<1>0. /\ handler[h] \in HandlerType /\ PeerInv(handler[h])
      /\ handler \in [Handlers -> HandlerType]
  BY DEF IInv, TypeOK
<1>1. CASE PeerCloses(h)
  BY <1>0, <1>1, AskedInv DEF PeerCloses, HandlerType
<1>2. CASE OfferCloses(h)
  <2> DEFINE e == [handler[h] EXCEPT !.at = "over"]
  <2>1. e \in HandlerType /\ AsksToClose(h, e) /\ handler[h].at = "failing"
    BY <1>0, <1>2 DEF OfferCloses, At, HandlerType, Places
  <2>2. ~e.timer
    BY <1>0, <2>1 DEF PeerInv, HandlerType
  <2> QED
    BY <1>0, <1>2, <2>1, <2>2, AskedInv DEF OfferCloses, HandlerType
<1>3. CASE TimerFires(h)
  <2> DEFINE fired == [handler[h] EXCEPT !.timer = FALSE]
  <2>1. fired \in HandlerType /\ handler[h].at = "answered" /\ fired.at = "answered"
    BY <1>0, <1>3 DEF TimerFires, PeerInv, HandlerType, Places
  <2>2. CASE Session(h) \in peers
    BY <1>0, <1>3, <2>1, <2>2, AskedInv DEF TimerFires, HandlerType
  <2>3. CASE Session(h) \notin peers
    <3>1. handler' = [handler EXCEPT ![h] = fired] /\ handler'[h] = fired
      BY <1>0, <1>3, <2>3 DEF TimerFires
    <3>2. Moves(h)
      BY <1>0, <1>3, <2>1, <3>1 DEF TimerFires, Moves, Occupying, HandlerType
    <3>3. PeerInv(fired)
      BY <1>0, <2>1 DEF PeerInv, ClosedInv, Untouched, HandlerType
    <3> QED
      BY <2>1, <3>1, <3>2, <3>3, OneHandler
  <2> QED
    BY <2>2, <2>3
<1> QED
  BY <1>1, <1>2, <1>3

-----------------------------------------------------------------------------
(* Taking a session, and giving it back                                    *)

LEMMA ConsumeStep ==
  ASSUME IInv, NEW h \in Handlers, NEW s \in tickets, SocketConnects(h, s) \/ Offers(h, s)
  PROVE  IInv'
<1> USE DEF At, Goes, Peers, Offering, Sockets
<1>0. /\ handler[h] \in HandlerType /\ PeerInv(handler[h]) /\ handler[h].at = "none"
      /\ handler \in [Handlers -> HandlerType] /\ s \in Nat
      /\ sessions' = Kept /\ UNCHANGED <<created, tickets>>
  BY DEF IInv, TypeOK, SocketConnects, Offers, Consumes
<1>1. \A g \in Handlers \ {h} : handler'[g] = handler[g]
  BY <1>0 DEF SocketConnects, Offers, Consumes
<1>2. CASE ~Consumable(s)
  <2>1. handler' = [handler EXCEPT ![h].at = "refused"] /\ connected' = connected
    BY <1>2 DEF SocketConnects, Offers, Consumes
  <2>2. handler'[h] = [handler[h] EXCEPT !.at = "refused"]
    BY <1>0, <2>1
  <2>3. handler'[h] \in HandlerType /\ ~Occupying(handler'[h])
    BY <1>0, <2>2 DEF HandlerType, Places, Occupying
  <2>4. PeerInv(handler'[h])
    BY <1>0, <2>2 DEF HandlerType, PeerInv, ClosedInv, Untouched
  <2>5. TypeOK'
    BY <1>0, <2>1, <2>3, KeptFinite DEF IInv, TypeOK
  <2>6. OwnSession'
    BY <1>0, <1>1, <2>1, <2>3, KeptFinite DEF IInv, OwnSession, Session
  <2> QED
    BY <1>1, <2>4, <2>5, <2>6 DEF IInv
<1>3. CASE Consumable(s)
  <2>1. PICK a \in {"accepting", "initializing"}, o \in SUBSET {"provider", "connection"} :
          /\ handler' = [handler EXCEPT ![h].at = a, ![h].session = s, ![h].open = o]
          /\ connected' = connected \cup {s}
          /\ a = "initializing" => o = {"connection"}
    <3>1. CASE SocketConnects(h, s)
      <4>1. /\ handler' = [handler EXCEPT ![h].at = "accepting", ![h].session = s,
                                          ![h].open = {"provider"}]
            /\ connected' = connected \cup {s}
        BY <1>3, <3>1 DEF SocketConnects, Consumes
      <4>2. {"provider"} \in SUBSET {"provider", "connection"}
        OBVIOUS
      <4> QED
        BY <4>1, <4>2, Zenon
    <3>2. CASE Offers(h, s)
      <4>1. /\ handler' = [handler EXCEPT ![h].at = "initializing", ![h].session = s,
                                          ![h].open = {"connection"}]
            /\ connected' = connected \cup {s}
        BY <1>3, <3>2 DEF Offers, Consumes
      <4>2. {"connection"} \in SUBSET {"provider", "connection"}
        OBVIOUS
      <4> QED
        BY <4>1, <4>2, Zenon
    <3> QED
      BY <3>1, <3>2
  <2>2. handler'[h] = [handler[h] EXCEPT !.at = a, !.session = s, !.open = o]
    BY <1>0, <2>1
  <2>3. handler'[h] \in HandlerType
    <3>1. a \in Places /\ o \in SUBSET {"provider", "worker", "connection"}
      BY DEF Places
    <3> QED
      BY <1>0, <2>2, <3>1 DEF HandlerType
  <2>4. PeerInv(handler'[h])
    BY <1>0, <2>1, <2>2 DEF HandlerType, PeerInv, ClosedInv, Untouched
  <2>5. TypeOK'
    BY <1>0, <2>1, <2>3, KeptFinite DEF IInv, TypeOK
  <2>6. handler'[h].session = s /\ s \in Kept /\ s \notin connected
    BY <1>0, <1>3, <2>2 DEF HandlerType, Consumable
  <2>7. OwnSession'
    BY <1>0, <1>1, <2>1, <2>6, KeptFinite DEF IInv, OwnSession, Session
  <2> QED
    BY <1>1, <2>4, <2>5, <2>7 DEF IInv
<1> QED
  BY <1>2, <1>3

LEMMA RemovesInv ==
  ASSUME IInv, NEW h \in Handlers, Occupying(handler[h]), Removes(Session(h)),
         handler' = [handler EXCEPT ![h] = handler'[h]], handler'[h] \in HandlerType,
         PeerInv(handler'[h]), ~Occupying(handler'[h]), UNCHANGED <<created, tickets>>
  PROVE  IInv'
<1>1. \A g \in Handlers \ {h} : handler'[g] = handler[g]
  BY DEF IInv, TypeOK
<1>2. IsFiniteSet(sessions') /\ Cardinality(sessions') <= MaxSessions
  <2>1. sessions' \in SUBSET sessions /\ IsFiniteSet(sessions)
    BY DEF Removes, IInv, TypeOK
  <2>2. /\ IsFiniteSet(sessions') /\ Cardinality(sessions') <= Cardinality(sessions)
        /\ Cardinality(sessions') \in Nat /\ Cardinality(sessions) \in Nat
    BY <2>1, FS_Subset, FS_CardinalityType
  <2> QED
    BY <2>2, SessionsAssumption DEF IInv, TypeOK
<1>3. TypeOK'
  BY <1>2 DEF IInv, TypeOK
<1>4. OwnSession'
  BY <1>1 DEF IInv, OwnSession, Session, Removes
<1> QED
  BY <1>1, <1>3, <1>4 DEF IInv

LEMMA ReleaseStep ==
  ASSUME IInv, NEW h \in Handlers, SocketReleases(h)
  PROVE  IInv'
<1> USE DEF Peers, Offering, Sockets
<1>0. /\ handler[h] \in HandlerType /\ PeerInv(handler[h]) /\ handler[h].at = "closing"
      /\ handler \in [Handlers -> HandlerType]
  BY DEF IInv, TypeOK, SocketReleases, At
<1>1. /\ handler' = [handler EXCEPT ![h] = handler'[h]]
      /\ handler'[h] = [handler[h] EXCEPT !.at = "gone", !.open = {}]
  BY <1>0 DEF SocketReleases
<1>2. handler'[h] \in HandlerType /\ ~Occupying(handler'[h]) /\ Occupying(handler[h])
  BY <1>0, <1>1 DEF HandlerType, Places, Occupying
<1>3. PeerInv(handler'[h])
  BY <1>0, <1>1 DEF HandlerType, PeerInv, ClosedInv, Untouched
<1> QED
  BY <1>1, <1>2, <1>3, RemovesInv DEF SocketReleases

LEMMA ClosedStep ==
  ASSUME IInv, NEW h \in Handlers, NEW k \in Closes, Closed(h, k)
  PROVE  IInv'
<1> USE DEF Peers, Offering, Sockets, Closes
<1> DEFINE r == [handler[h] EXCEPT !.closing[k] = "done"]
<1>0. /\ handler[h] \in HandlerType /\ PeerInv(handler[h])
      /\ handler[h].closing[k] = "finalizing" /\ handler \in [Handlers -> HandlerType]
  BY DEF IInv, TypeOK, Closed, Closing
<1>1. handler[h].at \in Peers
  BY <1>0 DEF PeerInv, Untouched
<1>2. /\ r \in HandlerType /\ r.at = handler[h].at /\ r.session = handler[h].session
      /\ r.finalized = handler[h].finalized
  BY <1>0 DEF HandlerType, Steps
<1>3. PeerInv(r) /\ (r.closing["partial"] = "done" \/ r.closing["full"] = "done")
  BY <1>0 DEF HandlerType, PeerInv, ClosedInv, Untouched
<1> HIDE DEF r
<1>4. CASE handler[h].finalized
  <2>1. handler' = [handler EXCEPT ![h] = r] /\ UNCHANGED registryVars
    BY <1>4 DEF Closed, Finalizes, r
  <2>2. handler'[h] = r /\ Moves(h)
    BY <1>0, <1>2, <2>1 DEF Moves, Occupying, Closed, registryVars
  <2> QED
    BY <1>2, <1>3, <2>2, OneHandler
<1>5. CASE ~handler[h].finalized
  <2>1. handler' = [handler EXCEPT ![h] = Finalized(h, r)] /\ Removes(Session(h))
    BY <1>5 DEF Closed, Finalizes, r
  <2>2. handler'[h] = [r EXCEPT !.finalized = TRUE, !.timer = FALSE]
    BY <1>0, <2>1 DEF Finalized
  <2>3. /\ handler'[h] \in HandlerType /\ handler'[h].at = handler[h].at
        /\ handler'[h].finalized
    BY <1>2, <2>2 DEF HandlerType
  <2>4. PeerInv(handler'[h])
    BY <1>1, <1>2, <1>3, <2>2 DEF HandlerType, PeerInv, ClosedInv, Untouched
  <2>5. Occupying(handler[h]) /\ ~Occupying(handler'[h])
    BY <1>1, <1>5, <2>3 DEF Occupying
  <2>6. handler' = [handler EXCEPT ![h] = handler'[h]]
    BY <1>0, <2>1
  <2> QED
    BY <2>1, <2>3, <2>4, <2>5, <2>6, RemovesInv DEF Closed
<1> QED
  BY <1>4, <1>5

-----------------------------------------------------------------------------
(* The specification                                                       *)

LEMMA NextInv == IInv /\ [Next]_vars => IInv'
<1> SUFFICES ASSUME IInv, [Next]_vars PROVE IInv'
  OBVIOUS
<1>1. ASSUME NEW answered \in BOOLEAN, CreatesSession(answered) PROVE IInv'
  BY <1>1, CreateStep
<1>2. ASSUME NEW s \in sessions, Expires(s) PROVE IInv'
  BY <1>2, ExpiresStep
<1>3. ASSUME NEW h \in Handlers, NEW s \in tickets, SocketConnects(h, s) \/ Offers(h, s)
      PROVE  IInv'
  BY <1>3, ConsumeStep
<1>4. ASSUME NEW h \in Handlers, SocketStep(h) PROVE IInv'
  BY <1>4, SocketMoves, ReleaseStep DEF SocketStep
<1>5. ASSUME NEW h \in Handlers, OfferStep(h) \/ PeerCloses(h) PROVE IInv'
  BY <1>5, OfferMoves, AskMoves DEF OfferStep
<1>6. ASSUME NEW h \in Handlers, CloseStep(h) PROVE IInv'
  BY <1>6, CloseMoves, ClosedStep, AskMoves DEF CloseStep
<1>7. CASE UNCHANGED vars
  BY <1>7 DEF IInv, TypeOK, OwnSession, Session, vars
<1> QED
  BY <1>1, <1>2, <1>3, <1>4, <1>5, <1>6, <1>7 DEF Next

\* The registry, the handlers and their peers are related at every moment as this
\* module says.
THEOREM Invariance == FairSpec => []IInv
  BY InitInv, NextInv, PTL DEF FairSpec, Spec

\* Whatever connects, closes or expires when, each session has one handler and no
\* more are served than the registry has places (session.py, consume).
THEOREM ServedWithinCapacityHolds == FairSpec => []ServedWithinCapacity
<1>1. ASSUME IInv PROVE ServedWithinCapacity
  <2> DEFINE S == {h \in Handlers : Occupies(h)}
             f == [h \in S |-> Session(h)]
  <2>1. \A h \in Handlers : Occupies(h) => Occupying(handler[h])
    BY DEF Occupies, Occupying, Offered, Sockets, Peers
  <2>2. \A g, h \in Handlers : Occupies(g) /\ Occupies(h) /\ g # h => Session(g) # Session(h)
    BY <1>1, <2>1 DEF IInv, OwnSession
  <2>3. f \in [S -> sessions]
    BY <1>1, <2>1 DEF IInv, OwnSession
  <2>4. f \in Injection(S, sessions)
    BY <2>2, <2>3, Fun_IsInj
  <2>5. IsFiniteSet(sessions) /\ Cardinality(sessions) <= MaxSessions
    BY <1>1 DEF IInv, TypeOK
  <2>6. IsFiniteSet(S) /\ Cardinality(S) <= Cardinality(sessions)
    BY <2>4, <2>5, FS_Injection
  <2>7. Cardinality(S) \in Nat /\ Cardinality(sessions) \in Nat
    BY <2>5, <2>6, FS_CardinalityType
  <2>8. Cardinality(S) <= MaxSessions
    BY <2>5, <2>6, <2>7, SessionsAssumption
  <2> QED
    BY <2>2, <2>8 DEF ServedWithinCapacity
<1> QED
  BY <1>1, Invariance, PTL

\* Whichever closes of a peer run, in whatever order and whatever they raise, one
\* that began once the runner ran leaves nothing open (small_webrtc.py, close).
THEOREM PeersReleasedHolds == FairSpec => []PeersReleased
<1>1. ASSUME IInv PROVE PeersReleased
  <2> SUFFICES ASSUME NEW h \in Handlers, handler[h].at \in {"answered", "over"},
                      handler[h].finalized, ~handler[h].early
               PROVE  handler[h].open = {}
    BY DEF PeersReleased
  <2>1. handler[h] \in HandlerType /\ PeerInv(handler[h])
    BY <1>1 DEF IInv, TypeOK
  <2>2. handler[h].closing["partial"] = "done" \/ handler[h].closing["full"] = "done"
    BY <2>1 DEF PeerInv
  <2>3. handler[h].open \subseteq {"provider", "worker", "connection"}
    BY <2>1 DEF HandlerType
  <2>4. handler[h].at \in Peers /\ ClosedInv(handler[h])
    BY <2>1 DEF PeerInv, Peers
  <2>5. CASE handler[h].closing["full"] = "done"
    BY <2>3, <2>4, <2>5 DEF ClosedInv
  <2>6. CASE handler[h].closing["partial"] = "done"
    BY <2>1, <2>3, <2>4, <2>6 DEF PeerInv, ClosedInv
  <2> QED
    BY <2>2, <2>5, <2>6
<1> QED
  BY <1>1, Invariance, PTL

=============================================================================
