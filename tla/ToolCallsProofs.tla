--------------------------- MODULE ToolCallsProofs ---------------------------
(***************************************************************************)
(* For any servers, tools, tokens and calls, and any number of aborts: a   *)
(* call that has returned left no task of its provider behind, and a       *)
(* cancellation reaches every call that waits.                             *)
(***************************************************************************)
EXTENDS ToolCalls, TLAPS

Places == {"none", "begun", "waiting", "notifying", "collecting", "closing", "ended"}
TaskStates == {"none", "running", "done", "failed", "cancelling", "cancelled"}
Reasons == {"none", "cancelled", "timeout", "aborted"}
Outcomes == {"none", "refused", "success", "failure"} \cup Reasons
Pairs == Servers \X Tools

TokenRecords == [cancelled : BOOLEAN, callbacks : SUBSET Calls, firing : SUBSET Calls]
CallRecords == [at : Places, tool : {<<>>} \cup Pairs, task : TaskStates, heard : BOOLEAN,
                why : Reasons, outcome : Outcomes, aborts : Nat]

TypeOK ==
  /\ server \in [Servers -> [state : {"pending", "ready", "unavailable"},
                             definitions : SUBSET Pairs]]
  /\ registry \in SUBSET Pairs /\ serving \in BOOLEAN
  /\ token \in [Tokens -> TokenRecords]
  /\ call \in [Calls -> CallRecords]

Left(r) == r.task \notin {"running", "cancelling"} \/ r.aborts >= 2

\* What the record of a call says by itself: how far its provider's task is at
\* each place, and that only an abort makes it give up for one.
RecordInv(r) ==
  /\ r.at \in {"none", "begun"} => r.task = "none" /\ r.why = "none"
  /\ r.at = "collecting" => r.task # "running"
  /\ r.at \in {"closing", "ended"} => Left(r)
  /\ r.why = "aborted" => r.aborts >= 1

\* Where the callback of a call is, by the place of the call.
CallbackInv(c) ==
  /\ At(c, "waiting") => IF Token(c).cancelled THEN call[c].heard \/ c \in Token(c).firing
                                               ELSE c \in Token(c).callbacks
  /\ call[c].at \in {"none", "begun"} => c \notin Token(c).callbacks
  /\ At(c, "ended") /\ call[c].aborts = 0 => c \notin Token(c).callbacks

IInv == TypeOK /\ \A c \in Calls : RecordInv(call[c]) /\ CallbackInv(c)

-----------------------------------------------------------------------------
LEMMA InitInv == Init => IInv
<1> SUFFICES ASSUME Init PROVE IInv
  OBVIOUS
<1> USE CallsAssumption DEF Init
<1>1. TypeOK
  BY DEF TypeOK, TokenRecords, CallRecords, NewServer, NewToken, NewCall, Places, TaskStates, Reasons, Outcomes
<1>2. \A c \in Calls : RecordInv(call[c]) /\ CallbackInv(c)
  BY DEF RecordInv, CallbackInv, NewCall, NewToken, At, Token
<1> QED
  BY <1>1, <1>2 DEF IInv

\* A step of the startup leaves the calls and the tokens alone.
LEMMA StartupStep ==
  ASSUME IInv,
         \/ \E s \in Servers : DiscoveryFails(s) \/ \E listed \in SUBSET Tools : Discovered(s, listed)
         \/ Starts
  PROVE  IInv'
<1> USE CallsAssumption
<1>1. TypeOK'
  <2>1. ASSUME NEW s \in Servers, DiscoveryFails(s) PROVE TypeOK'
    BY <2>1 DEF IInv, TypeOK, DiscoveryFails
  <2>2. ASSUME NEW s \in Servers, NEW listed \in SUBSET Tools, Discovered(s, listed)
        PROVE  TypeOK'
    <3>1. Definitions(s, listed) \in SUBSET Pairs
      BY <2>2 DEF Definitions, Pairs
    <3> QED
      BY <2>2, <3>1 DEF IInv, TypeOK, Discovered
  <2>3. CASE Starts
    <3>1. UNION {server[s].definitions : s \in Servers} \in SUBSET Pairs
      BY DEF IInv, TypeOK
    <3> QED
      BY <2>3, <3>1 DEF IInv, TypeOK, Starts
  <2> QED
    BY <2>1, <2>2, <2>3
<1>2. UNCHANGED <<token, call>>
  BY DEF DiscoveryFails, Discovered, Starts
<1> QED
  BY <1>1, <1>2 DEF IInv, RecordInv, Left, CallbackInv, At, Token

\* A step that writes one call's record, and a token at most by that call's
\* callback, need only be looked at there.
LEMMA OneCall ==
  ASSUME IInv, UNCHANGED startup,
         NEW c \in Calls, NEW r,
         call' = [call EXCEPT ![c] = r],
         r \in CallRecords,
         NEW S \in SUBSET Calls,
         token' = [token EXCEPT ![TokenOf[c]].callbacks = S],
         \A d \in Calls \ {c} : d \in S <=> d \in Token(c).callbacks,
         RecordInv(r),
         CallbackInv(c)'
  PROVE  IInv'
<1> USE CallsAssumption
<1>1. TokenOf[c] \in Tokens
  OBVIOUS
<1>2. TypeOK'
  <2>1. token' \in [Tokens -> TokenRecords]
    BY <1>1 DEF IInv, TypeOK, TokenRecords
  <2>2. call' \in [Calls -> CallRecords]
    BY DEF IInv, TypeOK
  <2> QED
    BY <2>1, <2>2 DEF IInv, TypeOK, startup
<1>3. ASSUME NEW d \in Calls, d # c PROVE RecordInv(call[d])' /\ CallbackInv(d)'
  <2>1. call'[d] = call[d]
    BY <1>3 DEF IInv, TypeOK
  <2>2. /\ Token(d)'.cancelled = Token(d).cancelled
        /\ Token(d)'.firing = Token(d).firing
        /\ d \in Token(d)'.callbacks <=> d \in Token(d).callbacks
    BY <1>1, <1>3 DEF IInv, TypeOK, TokenRecords, Token
  <2> QED
    BY <2>1, <2>2 DEF IInv, RecordInv, Left, CallbackInv, At
<1>4. call'[c] = r
  BY DEF IInv, TypeOK
<1> QED
  BY <1>2, <1>3, <1>4 DEF IInv

LEMMA CancelStep ==
  ASSUME IInv, NEW t \in Tokens, Cancel(t)
  PROVE  IInv'
<1> USE CallsAssumption
<1>1. TypeOK'
  BY DEF IInv, TypeOK, TokenRecords, Cancel, startup
<1>2. UNCHANGED call
  BY DEF Cancel
<1>3. ASSUME NEW c \in Calls PROVE CallbackInv(c)'
  <2>1. CASE TokenOf[c] = t
    <3>1. /\ Token(c)'.cancelled
          /\ Token(c)'.callbacks = {}
          /\ Token(c)'.firing = Token(c).callbacks
      BY <2>1 DEF IInv, TypeOK, TokenRecords, Cancel, Token
    <3>2. ~Token(c).cancelled
      BY <2>1 DEF Cancel, Token
    <3> QED
      BY <1>2, <3>1, <3>2 DEF IInv, CallbackInv, At
  <2>2. CASE TokenOf[c] # t
    <3>1. Token(c)' = Token(c)
      BY <2>2 DEF IInv, TypeOK, Cancel, Token
    <3> QED
      BY <1>2, <3>1 DEF IInv, CallbackInv, At
  <2> QED
    BY <2>1, <2>2
<1> QED
  BY <1>1, <1>2, <1>3 DEF IInv, RecordInv, Left

\* The event of a call is set, whatever the call is doing.
LEMMA FiresStep ==
  ASSUME IInv, NEW t \in Tokens, NEW c \in Calls, Fires(t, c)
  PROVE  IInv'
<1> USE CallsAssumption
<1>1. TypeOK'
  <2>1. token' \in [Tokens -> TokenRecords]
    BY DEF IInv, TypeOK, TokenRecords, Fires
  <2>2. call' \in [Calls -> CallRecords]
    BY DEF IInv, TypeOK, CallRecords, Fires
  <2> QED
    BY <2>1, <2>2 DEF IInv, TypeOK, Fires, startup
<1>2. ASSUME NEW d \in Calls PROVE RecordInv(call[d])' /\ CallbackInv(d)'
  <2>1. /\ call'[d].at = call[d].at /\ call'[d].task = call[d].task
        /\ call'[d].why = call[d].why /\ call'[d].aborts = call[d].aborts
        /\ call'[d].heard = (call[d].heard \/ d = c)
    BY DEF IInv, TypeOK, CallRecords, Fires
  <2>2. /\ Token(d)'.cancelled = Token(d).cancelled
        /\ Token(d)'.callbacks = Token(d).callbacks
        /\ d # c /\ d \in Token(d).firing => d \in Token(d)'.firing
    BY DEF IInv, TypeOK, TokenRecords, Fires, Token
  <2> QED
    BY <2>1, <2>2 DEF IInv, RecordInv, Left, CallbackInv, At
<1> QED
  BY <1>1, <1>2 DEF IInv

\* A step that leaves the tokens alone writes the record of one call.
LEMMA RecordStep ==
  ASSUME IInv, UNCHANGED <<startup, token>>,
         NEW c \in Calls, NEW r \in CallRecords,
         call' = [call EXCEPT ![c] = r],
         RecordInv(r),
         r.at = "waiting" => At(c, "waiting") /\ r.heard = call[c].heard,
         r.at \in {"none", "begun"} => call[c].at \in {"none", "begun"},
         r.at = "ended" /\ r.aborts = 0 =>
           call[c].at \in {"none", "begun"} \/ (At(c, "ended") /\ call[c].aborts = 0)
  PROVE  IInv'
<1> USE CallsAssumption
<1>1. token' = [token EXCEPT ![TokenOf[c]].callbacks = Token(c).callbacks]
  BY DEF IInv, TypeOK, TokenRecords, Token
<1>2. Token(c).callbacks \in SUBSET Calls
  BY DEF IInv, TypeOK, TokenRecords, Token
<1>3. CallbackInv(c)'
  <2>1. call'[c] = r /\ Token(c)' = Token(c)
    BY DEF IInv, TypeOK, Token
  <2> QED
    BY <2>1 DEF IInv, CallbackInv, At
<1> QED
  BY <1>1, <1>2, <1>3, OneCall

LEMMA ListensStep ==
  ASSUME IInv, NEW c \in Calls, Listens(c)
  PROVE  IInv'
<1> USE CallsAssumption
<1> DEFINE r == [call[c] EXCEPT !.at = "waiting", !.task = "running", !.heard = HeardAtOnce(c)]
           S == IF Token(c).cancelled THEN Token(c).callbacks ELSE Token(c).callbacks \cup {c}
<1>1. /\ TokenOf[c] \in Tokens /\ call[c] \in CallRecords /\ Token(c) \in TokenRecords
      /\ At(c, "begun") /\ RecordInv(call[c]) /\ UNCHANGED startup
  BY DEF IInv, TypeOK, Token, Listens
<1>2. call' = [call EXCEPT ![c] = r] /\ r \in CallRecords
  BY <1>1 DEF IInv, TypeOK, Listens, HeardAtOnce, TokenRecords, CallRecords, Places, TaskStates
<1>3. token' = [token EXCEPT ![TokenOf[c]].callbacks = S] /\ S \in SUBSET Calls
  BY <1>1 DEF IInv, TypeOK, Listens, CallbackAdded, Token, TokenRecords
<1>4. RecordInv(r)
  BY <1>1 DEF RecordInv, Left, CallRecords, At
<1>5. CallbackInv(c)'
  <2>1. call'[c] = r /\ Token(c)' = [Token(c) EXCEPT !.callbacks = S]
    BY <1>1, <1>2, <1>3 DEF IInv, TypeOK, Token
  <2> QED
    BY <1>1, <2>1 DEF CallbackInv, At, HeardAtOnce, CallRecords, TokenRecords
<1> HIDE DEF r
<1> QED
  BY <1>1, <1>2, <1>3, <1>4, <1>5, OneCall

LEMMA ClosesStep ==
  ASSUME IInv, NEW c \in Calls, Closes(c)
  PROVE  IInv'
<1> USE CallsAssumption
<1> DEFINE r == [call[c] EXCEPT !.at = "ended"]
           S == Token(c).callbacks \ {c}
<1>1. /\ TokenOf[c] \in Tokens /\ call[c] \in CallRecords /\ Token(c) \in TokenRecords
      /\ At(c, "closing") /\ RecordInv(call[c]) /\ UNCHANGED startup
  BY DEF IInv, TypeOK, Token, Closes
<1>2. call' = [call EXCEPT ![c] = r] /\ r \in CallRecords
  BY <1>1 DEF Closes, CallRecords, Places
<1>3. token' = [token EXCEPT ![TokenOf[c]].callbacks = S] /\ S \in SUBSET Calls
  BY <1>1 DEF Closes, CallbackRemoved, Token, TokenRecords
<1>4. RecordInv(r)
  BY <1>1 DEF RecordInv, Left, CallRecords, At
<1>5. CallbackInv(c)'
  <2>1. call'[c] = r /\ Token(c)' = [Token(c) EXCEPT !.callbacks = S]
    BY <1>1, <1>2, <1>3 DEF IInv, TypeOK, Token
  <2> QED
    BY <1>1, <2>1 DEF CallbackInv, At, CallRecords, TokenRecords
<1> HIDE DEF r
<1> QED
  BY <1>1, <1>2, <1>3, <1>4, <1>5, OneCall

\* The other steps of a call, of its provider and of its handler's end.
LEMMA CallStep ==
  ASSUME IInv, NEW c \in Calls,
         \/ Refused(c) \/ \E tool \in registry : Begins(c, tool)
         \/ \E how \in {"done", "failed"} : Provides(c, how)
         \/ TaskEnds(c) \/ Takes(c) \/ HearsCancel(c) \/ TimesOut(c) \/ Notified(c)
         \/ Collects(c) \/ Aborts(c)
  PROVE  IInv'
<1> USE CallsAssumption
<1> USE DEF CallRecords, Places, TaskStates, Reasons, Outcomes
<1>0. call[c] \in CallRecords /\ RecordInv(call[c]) /\ call \in [Calls -> CallRecords]
  BY DEF IInv, TypeOK
<1>1. ASSUME Refused(c) PROVE IInv'
  <2> DEFINE r == [call[c] EXCEPT !.at = "ended", !.outcome = "refused"]
  <2>2. /\ call' = [call EXCEPT ![c] = r] /\ r \in CallRecords
        /\ UNCHANGED <<startup, token>>
    BY <1>0, <1>1 DEF Refused
  <2>3. RecordInv(r)
    BY <1>0, <1>1 DEF RecordInv, Left, At, Refused
  <2>4. r.at = "ended" /\ call[c].at = "none"
    BY <1>0, <1>1 DEF At, Refused
  <2> HIDE DEF r
  <2> QED
    BY <2>2, <2>3, <2>4, RecordStep DEF At
<1>2. ASSUME NEW tool \in registry, Begins(c, tool) PROVE IInv'
  <2> DEFINE r == IF Token(c).cancelled THEN [call[c] EXCEPT !.at = "ended", !.outcome = "cancelled"]
                                       ELSE [call[c] EXCEPT !.at = "begun", !.tool = tool]
  <2>1. tool \in Pairs
    BY DEF IInv, TypeOK
  <2>2. /\ call' = [call EXCEPT ![c] = r] /\ r \in CallRecords
        /\ UNCHANGED <<startup, token>>
    BY <2>1, <1>0, <1>2 DEF Begins
  <2>3. RecordInv(r)
    BY <1>0, <1>2 DEF RecordInv, Left, At, Begins
  <2>4. r.at \in {"begun", "ended"} /\ call[c].at = "none"
    BY <1>0, <1>2 DEF At, Begins
  <2> HIDE DEF r
  <2> QED
    BY <2>2, <2>3, <2>4, RecordStep DEF At
<1>3. ASSUME NEW how \in {"done", "failed"}, Provides(c, how) PROVE IInv'
  <2> DEFINE r == [call[c] EXCEPT !.task = how]
  <2>2. /\ call' = [call EXCEPT ![c] = r] /\ r \in CallRecords
        /\ UNCHANGED <<startup, token>>
    BY <1>0, <1>3 DEF Provides
  <2>3. RecordInv(r)
    BY <1>0, <1>3 DEF RecordInv, Left, At, Provides
  <2>4. r.at = call[c].at /\ r.heard = call[c].heard /\ r.aborts = call[c].aborts
    BY <1>0, <1>3 DEF At, Provides
  <2> HIDE DEF r
  <2> QED
    BY <2>2, <2>3, <2>4, RecordStep DEF At
<1>4. ASSUME TaskEnds(c) PROVE IInv'
  <2> DEFINE r == [call[c] EXCEPT !.task = "cancelled"]
  <2>2. /\ call' = [call EXCEPT ![c] = r] /\ r \in CallRecords
        /\ UNCHANGED <<startup, token>>
    BY <1>0, <1>4 DEF TaskEnds
  <2>3. RecordInv(r)
    BY <1>0, <1>4 DEF RecordInv, Left, At, TaskEnds
  <2>4. r.at = call[c].at /\ r.heard = call[c].heard /\ r.aborts = call[c].aborts
    BY <1>0, <1>4 DEF At, TaskEnds
  <2> HIDE DEF r
  <2> QED
    BY <2>2, <2>3, <2>4, RecordStep DEF At
<1>5. ASSUME HearsCancel(c) PROVE IInv'
  <2> DEFINE r == [call[c] EXCEPT !.at = "notifying", !.why = "cancelled"]
  <2>2. /\ call' = [call EXCEPT ![c] = r] /\ r \in CallRecords
        /\ UNCHANGED <<startup, token>>
    BY <1>0, <1>5 DEF HearsCancel, GivesUp
  <2>3. RecordInv(r)
    BY <1>0, <1>5 DEF RecordInv, Left, At, HearsCancel, GivesUp
  <2>4. r.at = "notifying"
    BY <1>0, <1>5 DEF At, HearsCancel, GivesUp
  <2> HIDE DEF r
  <2> QED
    BY <2>2, <2>3, <2>4, RecordStep DEF At
<1>6. ASSUME TimesOut(c) PROVE IInv'
  <2> DEFINE r == [call[c] EXCEPT !.at = "notifying", !.why = "timeout"]
  <2>2. /\ call' = [call EXCEPT ![c] = r] /\ r \in CallRecords
        /\ UNCHANGED <<startup, token>>
    BY <1>0, <1>6 DEF TimesOut, GivesUp
  <2>3. RecordInv(r)
    BY <1>0, <1>6 DEF RecordInv, Left, At, TimesOut, GivesUp
  <2>4. r.at = "notifying"
    BY <1>0, <1>6 DEF At, TimesOut, GivesUp
  <2> HIDE DEF r
  <2> QED
    BY <2>2, <2>3, <2>4, RecordStep DEF At
<1>7. ASSUME Notified(c) PROVE IInv'
  <2> DEFINE task == IF call[c].task = "running" THEN "cancelling" ELSE call[c].task
             r == [call[c] EXCEPT !.at = "collecting", !.task = task]
  <2>1. r \in CallRecords
    <3>1. task \in TaskStates /\ "collecting" \in Places
      BY <1>0
    <3> HIDE DEF task, TaskStates, Places, Reasons, Outcomes
    <3> QED
      BY <1>0, <3>1
  <2>2. call' = [call EXCEPT ![c] = r] /\ UNCHANGED <<startup, token>>
    BY <1>0, <1>7 DEF Notified
  <2>3. RecordInv(r)
    BY <1>0, <1>7 DEF RecordInv, Left, At, Notified
  <2>4. r.at = "collecting"
    BY <1>0, <1>7 DEF At, Notified
  <2> HIDE DEF r
  <2> QED
    BY <2>1, <2>2, <2>3, <2>4, RecordStep DEF At
<1>8. ASSUME Collects(c) PROVE IInv'
  <2> DEFINE r == [call[c] EXCEPT !.at = "closing", !.outcome = call[c].why]
  <2>2. /\ call' = [call EXCEPT ![c] = r] /\ r \in CallRecords
        /\ UNCHANGED <<startup, token>>
    BY <1>0, <1>8 DEF Collects, Gathered, Over
  <2>3. RecordInv(r)
    BY <1>0, <1>8 DEF RecordInv, Left, At, Collects, Gathered, Over
  <2>4. r.at = "closing"
    BY <1>0, <1>8 DEF At, Collects, Gathered, Over
  <2> HIDE DEF r
  <2> QED
    BY <2>2, <2>3, <2>4, RecordStep DEF At
<1>9. ASSUME Aborts(c) PROVE IInv'
  <2> DEFINE r == [Aborted(call[c]) EXCEPT !.aborts = call[c].aborts + 1]
  <2>1. Aborted(call[c]) \in CallRecords /\ Aborted(call[c]).aborts = call[c].aborts
    <3>1. call[c] \in CallRecords
      BY <1>0
    <3> QED
      BY <3>1 DEF Aborted
  <2>2. /\ call' = [call EXCEPT ![c] = r] /\ r \in CallRecords
        /\ UNCHANGED <<startup, token>>
    <3>1. call[c].aborts + 1 \in Nat
      BY <1>0
    <3>2. r \in CallRecords
      BY <2>1, <3>1
    <3> QED
      BY <1>9, <3>2 DEF Aborts
  <2>3. RecordInv(r)
    BY <1>0, <1>9 DEF RecordInv, Left, At, Aborts, Aborted
  <2>4. r.at \in {"notifying", "closing", "ended"} /\ r.aborts # 0
    BY <1>0, <1>9 DEF At, Aborts, Aborted
  <2> HIDE DEF r
  <2> QED
    BY <2>2, <2>3, <2>4, RecordStep DEF At
<1>10. ASSUME Takes(c) PROVE IInv'
  <2>1. PICK outcome \in {"success", "failure"} :
          call' = [call EXCEPT ![c].at = "closing", ![c].outcome = outcome]
    BY <1>10 DEF Takes
  <2> DEFINE r == [call[c] EXCEPT !.at = "closing", !.outcome = outcome]
  <2>2. /\ call' = [call EXCEPT ![c] = r] /\ r \in CallRecords
        /\ UNCHANGED <<startup, token>>
    BY <1>0, <1>10, <2>1 DEF Takes
  <2>3. RecordInv(r)
    BY <1>0, <1>10 DEF RecordInv, Left, At, Takes, Over
  <2> HIDE DEF CallRecords
  <2>4. r.at = "closing"
    BY <1>0 DEF CallRecords
  <2> HIDE DEF r
  <2> QED
    BY <2>2, <2>3, <2>4, RecordStep
<1> QED
  BY <1>1, <1>2, <1>3, <1>4, <1>5, <1>6, <1>7, <1>8, <1>9, <1>10

LEMMA NextInv == IInv /\ [Next]_vars => IInv'
<1> SUFFICES ASSUME IInv, [Next]_vars PROVE IInv'
  OBVIOUS
<1>1. CASE UNCHANGED vars
  BY <1>1 DEF IInv, TypeOK, RecordInv, Left, CallbackInv, At, Token, vars
<1>2. CASE Next
  BY <1>2, StartupStep, CancelStep, FiresStep, ListensStep, ClosesStep, CallStep
  DEF Next, Step
<1> QED
  BY <1>1, <1>2

\* The inductive invariant: types, and what the record of a call and the place
\* of its callback say of one another.
THEOREM Invariance == Spec => []IInv
  BY InitInv, NextInv, PTL DEF Spec

\* A call that has returned has no task of its provider running, unless its
\* handler was cancelled twice.
THEOREM ProviderEndedHolds == Spec => []ProviderEnded
<1>1. IInv => ProviderEnded
  BY DEF IInv, TypeOK, CallRecords, RecordInv, Left, ProviderEnded, At
<1> QED
  BY <1>1, Invariance, PTL

\* A cancellation reaches every call that waits with its token, between any two
\* steps of any threads, and no callback outlives its call.
THEOREM CancelReachesHolds == Spec => []CancelReaches
<1>1. IInv => CancelReaches
  BY DEF IInv, CallbackInv, CancelReaches
<1> QED
  BY <1>1, Invariance, PTL
=============================================================================
