--------------------------- MODULE TurnEngineProofs ---------------------------
(* Theorems about TurnEngine, for every value of its constants.             *)
EXTENDS TurnEngine, SequenceTheorems, TLAPS

-----------------------------------------------------------------------------
(* The helpers keep the shape of the App and leave alone what their names   *)
(* do not promise to change.                                                *)

LEMMA AnswerType ==
    ASSUME NEW a \in App, NEW cs
    PROVE  Answer(a, cs) \in App
  <1> DEFINE res == [c \in Calls |-> IF c \in cs THEN a.results[c] + 1
                                                 ELSE a.results[c]]
  <1>1. a.results \in [Calls -> Nat]
    BY DEF App
  <1>2. res \in [Calls -> Nat]
    BY <1>1
  <1>3. Answer(a, cs) = [a EXCEPT !.results = res]
    BY DEF Answer
  <1> HIDE DEF res
  <1> QED
    BY <1>2, <1>3 DEF App

(* Giving the queued calls an error result keeps App well formed.            *)
LEMMA AbandonType ==
    ASSUME NEW a \in App
    PROVE  AbandonQueued(a) \in App
  <1>1. Answer(a, ElemsOf(a.queued)) \in App
    BY AnswerType
  <1>2. <<>> \in Seq(Calls)
    OBVIOUS
  <1> QED
    BY <1>1, <1>2 DEF AbandonQueued, App

(* So does settle_logical_turn.                                              *)
LEMMA SettleTurnType ==
    ASSUME NEW a \in App
    PROVE  SettleTurn(a) \in App
  BY ZenonT(60), AbandonType DEF SettleTurn, App

(* So does settle_provider_cancellation.                                     *)
LEMMA CancellationType ==
    ASSUME NEW a \in App
    PROVE  SettleCancellation(a) \in App
  <1>1. CASE a.executing
    BY <1>1 DEF SettleCancellation, App
  <1>2. CASE ~a.executing
    <2> DEFINE b == [a EXCEPT !.cancelPending = FALSE, !.processing = FALSE,
                              !.processedCalls = FALSE, !.dispatched = FALSE,
                              !.pending = NoCall, !.text = FALSE]
    <2>1. b \in App
      BY DEF App
    <2> HIDE DEF b
    <2>2. SettleTurn(b) \in App
      BY <2>1, SettleTurnType
    <2> QED
      BY <1>2, <2>2 DEF SettleCancellation, b
  <1> QED
    BY <1>1, <1>2

(* So does close_provider_request_marker.                                    *)
LEMMA CloseType ==
    ASSUME NEW a \in App, NEW r
    PROVE  CloseMarker(a, r) \in App
  BY DEF CloseMarker, App

(* So does the handling of a failed settlement.                              *)
LEMMA FailedType ==
    ASSUME NEW a \in App, NEW r
    PROVE  SettlementFailed(a, r) \in App
  <1> DEFINE b == CloseMarker(a, r)
             d == [b EXCEPT !.processing = FALSE, !.pending = NoCall,
                            !.text = FALSE]
  <1>1. b \in App
    BY CloseType
  <1> HIDE DEF b
  <1>2. d \in App
    BY <1>1 DEF App
  <1> HIDE DEF d
  <1>3. SettleTurn(d) \in App
    BY <1>2, SettleTurnType
  <1>4. SettleCancellation(b) \in App
    BY <1>1, CancellationType
  <1>5. [b EXCEPT !.processing = TRUE] \in App
    BY <1>1 DEF App
  <1> QED
    BY <1>1, <1>3, <1>4, <1>5 DEF SettlementFailed, b, d

-----------------------------------------------------------------------------
(* Calls, results and events.                                              *)

LEMMA ResultType ==
    ASSUME NEW c \in Calls
    PROVE  ResultOf(c) \in Events
  BY DEF ResultOf, Events, Calls, EventKinds

(* An event about a request is well formed.                                  *)
LEMMA EventType ==
    ASSUME NEW r \in Requests, NEW k \in EventKinds
    PROVE  Ev(k, r) \in Events
  BY DEF Ev, Events

(* A reply is a short sequence of call kinds.                                *)
LEMMA ReplyType ==
    ASSUME NEW reply \in Replies
    PROVE  reply \in Seq(CallKinds) /\ Len(reply) \in 0 .. MaxBatch
  <1>1. PICK n \in 0 .. MaxBatch : reply \in [1 .. n -> CallKinds]
    BY DEF Replies
  <1>2. n \in Nat
    BY BoundAssumption
  <1> QED
    BY <1>1, <1>2

(* A reply may have no calls.                                                *)
LEMMA EmptyReplyType == <<>> \in Replies
  <1>1. 0 \in 0 .. MaxBatch
    BY BoundAssumption
  <1>2. <<>> \in [1 .. 0 -> CallKinds]
    BY DOMAIN <<>> = 1 .. 0
  <1> QED
    BY <1>1, <1>2 DEF Replies

(* The calls of a reply are calls.                                           *)
LEMMA CallsOfType ==
    ASSUME NEW r \in Requests, task \in [Requests -> Tasks]
    PROVE  /\ CallsOf(r) \in Seq(Calls)
           /\ ElemsOf(CallsOf(r)) \subseteq Calls
  <1>1. task[r].calls \in Replies
    BY DEF Tasks
  <1>2. Len(task[r].calls) \in 0 .. MaxBatch
    BY <1>1, ReplyType
  <1>3. \A i \in 1 .. Len(task[r].calls) : <<r, i>> \in Calls
    BY <1>2, BoundAssumption DEF Calls
  <1>4. CallsOf(r) \in [1 .. Len(task[r].calls) -> Calls]
    BY <1>3 DEF CallsOf
  <1>5. CallsOf(r) \in Seq(Calls)
    BY <1>2, <1>4, BoundAssumption
  <1> QED
    BY <1>4, <1>5 DEF ElemsOf

-----------------------------------------------------------------------------
(* The operators a handler ends with keep the shape of what they assign.    *)

WorkOK ==
    /\ task \in [Requests -> Tasks]
    /\ issued \in 0 .. MaxRequests
    /\ tools \subseteq [call : Calls, token : Tokens]
    /\ token \in Tokens /\ cancelled \subseteq Tokens /\ rooted \subseteq Tokens

Shape == app \in App /\ rx \in Seq(Events) /\ WorkOK

(* A handler that ends by settling leaves a well formed state.               *)
LEMMA SettleShape ==
    ASSUME WorkOK, NEW a \in App, NEW q \in Seq(Events), Settle(a, q)
    PROVE  Shape'
  BY DEF Settle, Shape, WorkOK, work

(* Moving a client task on keeps the tasks well formed.                      *)
LEMMA TaskType ==
    ASSUME task \in [Requests -> Tasks], NEW r \in Requests,
           NEW s \in TaskStates
    PROVE  [task EXCEPT ![r].state = s] \in [Requests -> Tasks]
  BY DEF Tasks

(* So does one that ends by starting a request,                              *)
LEMMA StartShape ==
    ASSUME WorkOK, NEW a \in App, NEW q \in Seq(Events), NEW child \in BOOLEAN,
           StartRequest(a, q, child)
    PROVE  Shape'
  <1> DEFINE r    == issued + 1
             base == [a EXCEPT !.processing = TRUE, !.processedCalls = FALSE,
                               !.dispatched = FALSE, !.text = FALSE]
  <1>1. r \in Tokens
    BY BoundAssumption DEF WorkOK, Tokens
  <1>2. base \in App
    BY DEF App
  <1> HIDE DEF base
  <1>3. /\ token' = r
        /\ rooted' = IF child THEN rooted \cup {r} ELSE rooted \ {r}
        /\ cancelled' = IF child /\ life.shutdown THEN cancelled \cup {r}
                                                  ELSE cancelled \ {r}
        /\ rx' = q
        /\ UNCHANGED tools
    BY DEF StartRequest, NewToken
  <1>4. /\ tools' \subseteq [call : Calls, token : Tokens]
        /\ token' \in Tokens /\ cancelled' \subseteq Tokens
        /\ rooted' \subseteq Tokens
        /\ rx' \in Seq(Events)
    BY <1>1, <1>3 DEF WorkOK
  <1>5. CASE /\ app' = SettleTurn([base EXCEPT !.processing = FALSE])
             /\ UNCHANGED <<task, issued>>
    <2>1. [base EXCEPT !.processing = FALSE] \in App
      BY <1>2 DEF App
    <2>2. app' \in App
      BY <1>5, <2>1, SettleTurnType
    <2> QED
      BY <1>4, <1>5, <2>2 DEF Shape, WorkOK
  <1>6. CASE /\ r <= MaxRequests
             /\ app' = [base EXCEPT !.active = r, !.open = @ \cup {r}]
             /\ task' = [task EXCEPT ![r].state = "opening"]
             /\ issued' = r
    <2>1. r \in Requests
      BY <1>6, BoundAssumption DEF WorkOK, Requests
    <2>2. app' \in App
      BY <1>2, <1>6, <2>1 DEF App
    <2>3. task' \in [Requests -> Tasks]
      BY <1>6, <2>1, TaskType DEF WorkOK, TaskStates
    <2>4. issued' \in 0 .. MaxRequests
      BY <1>6, <2>1, BoundAssumption DEF Requests
    <2> QED
      BY <1>4, <2>2, <2>3, <2>4 DEF Shape, WorkOK
  <1> QED
    BY <1>5, <1>6 DEF StartRequest, base

(* one that ends by dispatching the pending tool,                            *)
LEMMA DispatchShape ==
    ASSUME WorkOK, NEW a \in App, NEW q \in Seq(Events), Dispatch(a, q)
    PROVE  Shape'
  <1>1. CASE a.pending = NoCall /\ Settle(a, q)
    BY <1>1, SettleShape
  <1> SUFFICES ASSUME a.pending # NoCall
               PROVE  Shape'
    BY <1>1 DEF Dispatch
  <1>2. a.pending \in Calls
    BY DEF App
  <1>3. Append(q, ResultOf(a.pending)) \in Seq(Events)
    BY <1>2, ResultType
  <1>4. CASE /\ app' = [a EXCEPT !.executing = TRUE, !.dispatched = TRUE,
                                 !.processing = TRUE]
             /\ tools' = tools \cup {[call |-> a.pending, token |-> token]}
             /\ rx' = q
             /\ UNCHANGED <<task, issued, token, cancelled, rooted>>
    <2>1. app' \in App
      BY <1>4 DEF App
    <2>2. tools' \subseteq [call : Calls, token : Tokens]
      BY <1>2, <1>4 DEF WorkOK
    <2> QED
      BY <1>4, <2>1, <2>2 DEF Shape, WorkOK
  <1>5. CASE Settle([a EXCEPT !.processing = TRUE, !.dispatched = TRUE,
                              !.approval = FALSE],
                    Append(q, ResultOf(a.pending)))
    <2>1. [a EXCEPT !.processing = TRUE, !.dispatched = TRUE,
                    !.approval = FALSE] \in App
      BY DEF App
    <2> QED
      BY <1>3, <1>5, <2>1, SettleShape
  <1>6. CASE Settle([Answer(SettleTurn(a), {a.pending}) EXCEPT
                         !.pending = NoCall, !.processing = FALSE,
                         !.dispatched = TRUE, !.approval = FALSE], q)
    <2> DEFINE b == Answer(SettleTurn(a), {a.pending})
    <2>1. b \in App
      BY SettleTurnType, AnswerType
    <2> HIDE DEF b
    <2>2. [b EXCEPT !.pending = NoCall, !.processing = FALSE,
                    !.dispatched = TRUE, !.approval = FALSE] \in App
      BY <2>1 DEF App
    <2> QED
      BY <1>6, <2>2, SettleShape DEF b
  <1> QED
    BY <1>4, <1>5, <1>6 DEF Dispatch

(* one that ends by beginning a call,                                        *)
LEMMA BeginShape ==
    ASSUME WorkOK, NEW a0 \in App, NEW q \in Seq(Events), NEW c \in Calls,
           BeginCall(c, a0, q)
    PROVE  Shape'
  <1> DEFINE a == [a0 EXCEPT !.pending = c]
  <1>1. a \in App
    BY DEF App
  <1> HIDE DEF a
  <1>2. CASE Settle([a EXCEPT !.processing = TRUE, !.dispatched = TRUE],
                    Append(q, ResultOf(c)))
    <2>1. [a EXCEPT !.processing = TRUE, !.dispatched = TRUE] \in App
      BY <1>1 DEF App
    <2>2. Append(q, ResultOf(c)) \in Seq(Events)
      BY ResultType
    <2> QED
      BY <1>2, <2>1, <2>2, SettleShape
  <1>3. CASE Settle(SettleTurn([Answer(a, {c}) EXCEPT
                         !.pending = NoCall, !.dispatched = TRUE,
                         !.processing = FALSE, !.approval = FALSE]), q)
    <2> DEFINE b == Answer(a, {c})
    <2>1. b \in App
      BY <1>1, AnswerType
    <2> HIDE DEF b
    <2>2. [b EXCEPT !.pending = NoCall, !.dispatched = TRUE,
                    !.processing = FALSE, !.approval = FALSE] \in App
      BY <2>1 DEF App
    <2> QED
      BY <1>3, <2>2, SettleShape, SettleTurnType DEF b
  <1>4. CASE Settle([a EXCEPT !.asking = TRUE, !.processing = FALSE], q)
    <2>1. [a EXCEPT !.asking = TRUE, !.processing = FALSE] \in App
      BY <1>1 DEF App
    <2> QED
      BY <1>4, <2>1, SettleShape
  <1>5. CASE Settle([a EXCEPT !.approval = TRUE, !.processing = FALSE], q)
    <2>1. [a EXCEPT !.approval = TRUE, !.processing = FALSE] \in App
      BY <1>1 DEF App
    <2> QED
      BY <1>5, <2>1, SettleShape
  <1>6. CASE Dispatch(a, q)
    BY <1>1, <1>6, DispatchShape
  <1> QED
    BY <1>2, <1>3, <1>4, <1>5, <1>6 DEF BeginCall, a

(* and one that ends by admitting the calls of a reply.                      *)
LEMMA CallsShape ==
    ASSUME WorkOK, NEW a0 \in App, NEW q \in Seq(Events), NEW cs \in Seq(Calls),
           HandleCalls(cs, a0, q)
    PROVE  Shape'
  <1> DEFINE a == [a0 EXCEPT !.processedCalls = TRUE]
  <1>1. a \in App
    BY DEF App
  <1>2. ElemsOf(cs) \subseteq Calls
    BY DEF ElemsOf
  <1> HIDE DEF a
  <1>3. CASE Settle(SettleTurn([a EXCEPT !.processing = FALSE]), q)
    <2>1. [a EXCEPT !.processing = FALSE] \in App
      BY <1>1 DEF App
    <2> QED
      BY <1>3, <2>1, SettleShape, SettleTurnType
  <1>4. CASE Settle(SettleTurn([a EXCEPT
                        !.pending = NoCall, !.approval = FALSE,
                        !.asking = FALSE, !.processing = FALSE,
                        !.executing = FALSE, !.dispatched = FALSE,
                        !.called = @ \ ElemsOf(cs)]), q)
    <2>1. [a EXCEPT !.pending = NoCall, !.approval = FALSE,
                    !.asking = FALSE, !.processing = FALSE,
                    !.executing = FALSE, !.dispatched = FALSE,
                    !.called = @ \ ElemsOf(cs)] \in App
      BY <1>1, ZenonT(60) DEF App
    <2> QED
      BY <1>4, <2>1, SettleShape, SettleTurnType
  <1>5. CASE /\ cs # <<>>
             /\ BeginCall(Head(cs), [a EXCEPT !.queued = Tail(cs),
                                              !.called = @ \cup ElemsOf(cs),
                                              !.taken = @ \cup ElemsOf(cs)], q)
    <2>1. Head(cs) \in Calls /\ Tail(cs) \in Seq(Calls)
      BY <1>5
    <2>2. [a EXCEPT !.queued = Tail(cs), !.called = @ \cup ElemsOf(cs),
                    !.taken = @ \cup ElemsOf(cs)] \in App
      BY <1>1, <1>2, <2>1 DEF App
    <2> QED
      BY <1>5, <2>1, <2>2, BeginShape
  <1> QED
    BY <1>3, <1>4, <1>5 DEF HandleCalls, a

-----------------------------------------------------------------------------
(* The event handlers keep the type invariant.                             *)

Frame == life \in Life /\ batch \in BOOLEAN /\ prompts \in 0 .. MaxPrompts

(* The type of the state in its two parts.                                   *)
LEMMA TypeSplit == Shape' /\ Frame' => TypeOK'
  BY DEF TypeOK, Shape, Frame, WorkOK

(* The retry counter may be set back to zero.                                *)
LEMMA ResetAttempts ==
    ASSUME NEW a \in App
    PROVE  [a EXCEPT !.attempts = 0] \in App
  <1>1. 0 \in 0 .. MaxRetries
    BY BoundAssumption
  <1> QED
    BY <1>1 DEF App

(* An event taken off the queue is well formed, and so is the rest.          *)
LEMMA ReceiveType ==
    ASSUME TypeOK, NEW kind, Receive(kind)
    PROVE  /\ Head(rx) \in Events /\ Rest \in Seq(Events) /\ Req \in Requests
           /\ life' \in Life /\ prompts' \in 0 .. MaxPrompts
  <1>1. rx \in Seq(Events) /\ rx # <<>>
    BY DEF TypeOK, Receive
  <1>2. Head(rx) \in Events /\ Tail(rx) \in Seq(Events)
    BY <1>1
  <1> QED
    BY <1>2 DEF TypeOK, Receive, Rest, Req, Events

(* Going on with a batch of events keeps the batch flag a boolean.           *)
LEMMA GoOnType == GoOn => batch' \in BOOLEAN
  BY DEF GoOn

(* A handled chunk keeps the type.                                           *)
LEMMA ChunkType == TypeOK /\ HandleChunk => TypeOK'
  <1> SUFFICES ASSUME TypeOK, HandleChunk PROVE TypeOK'
    OBVIOUS
  <1>1. Receive("chunk") /\ GoOn
    BY DEF HandleChunk
  <1>2. Rest \in Seq(Events) /\ Frame'
    BY <1>1, ReceiveType, GoOnType DEF Frame
  <1>3. app \in App /\ WorkOK
    BY DEF TypeOK, WorkOK
  <1>4. CASE Settle([app EXCEPT !.text = TRUE], Rest)
    <2>1. [app EXCEPT !.text = TRUE] \in App
      BY <1>3 DEF App
    <2> QED
      BY <1>2, <1>3, <1>4, <2>1, SettleShape, TypeSplit
  <1>5. CASE /\ app' = [app EXCEPT !.text = TRUE, !.cancelPending = TRUE]
             /\ cancelled' = cancelled \cup {token}
             /\ rx' = Rest
             /\ UNCHANGED <<task, issued, tools, token, rooted>>
    <2>1. app' \in App
      BY <1>3, <1>5 DEF App
    <2>2. WorkOK'
      BY <1>3, <1>5 DEF WorkOK
    <2> QED
      BY <1>2, <1>5, <2>1, <2>2, TypeSplit DEF Shape
  <1>6. CASE Settle(app, Rest)
    BY <1>2, <1>3, <1>6, SettleShape, TypeSplit
  <1> QED
    BY <1>4, <1>5, <1>6 DEF HandleChunk

(* A checkpoint, saved or refused, keeps the type.                           *)
LEMMA PersistType == TypeOK /\ HandlePersist => TypeOK'
  <1> SUFFICES ASSUME TypeOK, HandlePersist PROVE TypeOK'
    OBVIOUS
  <1>1. Receive("persist") /\ GoOn
    BY DEF HandlePersist
  <1>2. Rest \in Seq(Events) /\ Req \in Requests /\ Frame'
    BY <1>1, ReceiveType, GoOnType DEF Frame
  <1>3. app \in App /\ WorkOK
    BY DEF TypeOK, WorkOK
  <1>4. rx' = Rest /\ UNCHANGED <<issued, tools, token, cancelled, rooted>>
    BY DEF HandlePersist
  <1>5. task' \in [Requests -> Tasks]
    <2>1. PICK s \in {"acked", "refused"} :
                 task' = [task EXCEPT ![Req].state = s]
      BY DEF HandlePersist, SetState
    <2>2. s \in TaskStates /\ task \in [Requests -> Tasks]
      BY <1>3 DEF TaskStates, WorkOK
    <2> QED
      BY <1>2, <2>1, <2>2, TaskType
  <1>6. app' \in App
    <2>1. CASE app' = [CloseMarker(app, Req) EXCEPT
                          !.called = @ \cup ElemsOf(CallsOf(Req))]
      <3>1. ElemsOf(CallsOf(Req)) \subseteq Calls
        BY <1>2, <1>3, CallsOfType DEF WorkOK
      <3>2. CloseMarker(app, Req) \in App
        BY <1>3, CloseType
      <3> QED
        BY <2>1, <3>1, <3>2 DEF App
    <2>2. CASE app' = SettlementFailed(app, Req)
      BY <1>3, <2>2, FailedType
    <2> QED
      BY <2>1, <2>2 DEF HandlePersist
  <1>7. Shape'
    BY <1>2, <1>3, <1>4, <1>5, <1>6 DEF Shape, WorkOK
  <1> QED
    BY <1>2, <1>7, TypeSplit

(* A failed request keeps the type.                                          *)
LEMMA FailedEventType == TypeOK /\ HandleFailed => TypeOK'
  <1> SUFFICES ASSUME TypeOK, HandleFailed PROVE TypeOK'
    OBVIOUS
  <1>1. Receive("failed") /\ GoOn /\ Settle(SettlementFailed(app, Req), Rest)
    BY DEF HandleFailed
  <1>2. Rest \in Seq(Events) /\ Frame'
    BY <1>1, ReceiveType, GoOnType DEF Frame
  <1>3. app \in App /\ WorkOK
    BY DEF TypeOK, WorkOK
  <1> QED
    BY <1>1, <1>2, <1>3, FailedType, SettleShape, TypeSplit

(* A cancelled request keeps the type.                                       *)
LEMMA CancelledType == TypeOK /\ HandleCancelled => TypeOK'
  <1> SUFFICES ASSUME TypeOK, HandleCancelled PROVE TypeOK'
    OBVIOUS
  <1> DEFINE b == CloseMarker(app, Req)
  <1>1. /\ Receive("cancelled") /\ GoOn
        /\ Settle(IF app.cancelPending THEN SettleCancellation(b) ELSE b, Rest)
    BY DEF HandleCancelled
  <1>2. Rest \in Seq(Events) /\ Frame'
    BY <1>1, ReceiveType, GoOnType DEF Frame
  <1>3. b \in App /\ WorkOK
    BY CloseType DEF TypeOK, WorkOK
  <1>4. SettleCancellation(b) \in App
    BY <1>3, CancellationType
  <1> HIDE DEF b
  <1> QED
    BY <1>1, <1>2, <1>3, <1>4, SettleShape, TypeSplit

(* The calls of a reply keep the type.                                       *)
LEMMA ToolCallsType == TypeOK /\ HandleToolCalls => TypeOK'
  <1> SUFFICES ASSUME TypeOK, HandleToolCalls PROVE TypeOK'
    OBVIOUS
  <1>1. Receive("calls") /\ GoOn
    BY DEF HandleToolCalls
  <1>2. Rest \in Seq(Events) /\ Req \in Requests /\ Frame'
    BY <1>1, ReceiveType, GoOnType DEF Frame
  <1>3. app \in App /\ WorkOK
    BY DEF TypeOK, WorkOK
  <1>4. CallsOf(Req) \in Seq(Calls)
    BY <1>2, <1>3, CallsOfType DEF WorkOK
  <1>5. Settle(app, Rest) \/ HandleCalls(CallsOf(Req), app, Rest)
    BY DEF HandleToolCalls
  <1>6. Shape'
    BY <1>2, <1>3, <1>4, <1>5, SettleShape, CallsShape
  <1> QED
    BY <1>2, <1>6, TypeSplit

(* A tool result keeps the type, whichever way the turn goes on.             *)
LEMMA ToolResultType == TypeOK /\ HandleToolResult => TypeOK'
  <1> SUFFICES ASSUME TypeOK, HandleToolResult PROVE TypeOK'
    OBVIOUS
  <1> DEFINE a == [Answer(app, {Head(rx).call}) EXCEPT !.executing = FALSE,
                                                       !.pending = NoCall]
             b == [AbandonQueued(a) EXCEPT !.processedCalls = FALSE,
                                           !.dispatched = FALSE, !.text = FALSE]
             d == [b EXCEPT !.cancelPending = FALSE, !.processing = FALSE]
             n == [a EXCEPT !.queued = Tail(@), !.dispatched = FALSE,
                            !.processing = TRUE]
  <1>1. Receive("result") /\ GoOn
    BY DEF HandleToolResult
  <1>2. Rest \in Seq(Events) /\ Frame'
    BY <1>1, ReceiveType, GoOnType DEF Frame
  <1>3. app \in App /\ WorkOK
    BY DEF TypeOK, WorkOK
  <1>4. a \in App
    <2>1. Answer(app, {Head(rx).call}) \in App
      BY <1>3, AnswerType
    <2> QED
      BY <2>1 DEF App
  <1>5. \/ a.queued # <<>> /\ BeginCall(Head(a.queued), n, Rest)
        \/ Settle(b, Rest)
        \/ Settle(SettleTurn(d), Rest)
        \/ StartRequest(a, Rest, FALSE)
    BY DEF HandleToolResult
  <1> HIDE DEF a
  <1>6. b \in App
    <2>1. AbandonQueued(a) \in App
      BY <1>4, AbandonType
    <2> QED
      BY <2>1 DEF App
  <1> HIDE DEF b
  <1>7. SettleTurn(d) \in App
    <2>1. d \in App
      BY <1>6 DEF App
    <2> HIDE DEF d
    <2> QED
      BY <2>1, SettleTurnType
  <1> HIDE DEF d
  <1>8. a.queued # <<>> => Head(a.queued) \in Calls /\ n \in App
    <2>1. a.queued \in Seq(Calls)
      BY <1>4 DEF App
    <2>2. a.queued # <<>> => Head(a.queued) \in Calls /\ Tail(a.queued) \in Seq(Calls)
      BY <2>1
    <2> QED
      BY <1>4, <2>2 DEF App
  <1> HIDE DEF n
  <1>9. Shape'
    BY <1>2, <1>3, <1>4, <1>5, <1>6, <1>7, <1>8, SettleShape, BeginShape,
       StartShape
  <1> QED
    BY <1>2, <1>9, TypeSplit

(* The end of a reply keeps the type.                                        *)
LEMMA DoneType == TypeOK /\ HandleDone => TypeOK'
  <1> SUFFICES ASSUME TypeOK, HandleDone PROVE TypeOK'
    OBVIOUS
  <1> DEFINE a == [app EXCEPT !.attempts = 0]
             d == [a EXCEPT !.processing = FALSE]
             e == [a EXCEPT !.active = IF @ = Req THEN 0 ELSE @]
  <1>1. Receive("done") /\ GoOn
    BY DEF HandleDone
  <1>2. Rest \in Seq(Events) /\ Frame'
    BY <1>1, ReceiveType, GoOnType DEF Frame
  <1>3. app \in App /\ WorkOK
    BY DEF TypeOK, WorkOK
  <1>4. \/ Settle(SettleCancellation(e), Rest)
        \/ Settle(d, Rest) \/ Settle(SettleTurn(d), Rest)
        \/ Dispatch(d, Rest)
    BY DEF HandleDone
  <1>5. a \in App
    BY <1>3, ResetAttempts
  <1> HIDE DEF a
  <1>6. d \in App /\ e \in App
    BY <1>5 DEF App
  <1> HIDE DEF d, e
  <1>7. SettleTurn(d) \in App /\ SettleCancellation(e) \in App
    BY <1>6, SettleTurnType, CancellationType
  <1>8. Shape'
    BY <1>2, <1>3, <1>4, <1>6, <1>7, SettleShape, DispatchShape
  <1> QED
    BY <1>2, <1>8, TypeSplit

(* The check for a turn that only announced its work keeps the type.         *)
LEMMA IntentionType == TypeOK /\ HandleIntention => TypeOK'
  <1> SUFFICES ASSUME TypeOK, HandleIntention PROVE TypeOK'
    OBVIOUS
  <1>1. /\ Receive("done") /\ batch' = FALSE
        /\ StartRequest([app EXCEPT !.attempts = 0], Rest, FALSE)
    BY DEF HandleIntention
  <1>2. Rest \in Seq(Events) /\ Frame'
    BY <1>1, ReceiveType DEF Frame
  <1>3. app \in App /\ WorkOK
    BY DEF TypeOK, WorkOK
  <1>4. [app EXCEPT !.attempts = 0] \in App
    BY <1>3, ResetAttempts
  <1> QED
    BY <1>1, <1>2, <1>3, <1>4, StartShape, TypeSplit

(* A provider error, retried or not, keeps the type.                         *)
LEMMA ErrorType == TypeOK /\ HandleError => TypeOK'
  <1> SUFFICES ASSUME TypeOK, HandleError PROVE TypeOK'
    OBVIOUS
  <1> DEFINE a == [app EXCEPT !.attempts = 0, !.processing = FALSE]
             e == [a EXCEPT !.active = 0]
             p == [a EXCEPT !.processing = TRUE]
             t == [app EXCEPT !.attempts = @ + 1, !.processing = TRUE,
                              !.retryAt = TRUE, !.text = FALSE]
  <1>1. Receive("error") /\ GoOn
    BY DEF HandleError
  <1>2. Rest \in Seq(Events) /\ Frame'
    BY <1>1, ReceiveType, GoOnType DEF Frame
  <1>3. app \in App /\ WorkOK
    BY DEF TypeOK, WorkOK
  <1>4. \/ MayRetry(app) /\ Settle(t, Rest)
        \/ Settle(SettleCancellation(e), Rest)
        \/ Settle(p, Rest) \/ Settle(SettleTurn(a), Rest)
    BY DEF HandleError
  <1>5. a \in App
    <2>1. 0 \in 0 .. MaxRetries
      BY BoundAssumption
    <2> QED
      BY <1>3, <2>1 DEF App
  <1>6. MayRetry(app) => t \in App
    <2>1. MayRetry(app) => app.attempts + 1 \in 0 .. MaxRetries
      BY <1>3, BoundAssumption DEF App, MayRetry
    <2> QED
      BY <1>3, <2>1 DEF App
  <1> HIDE DEF a, t
  <1>7. e \in App /\ p \in App
    BY <1>5 DEF App
  <1> HIDE DEF e, p
  <1>8. SettleTurn(a) \in App /\ SettleCancellation(e) \in App
    BY <1>5, <1>7, SettleTurnType, CancellationType
  <1>9. Shape'
    BY <1>2, <1>3, <1>4, <1>6, <1>7, <1>8, SettleShape
  <1> QED
    BY <1>2, <1>9, TypeSplit

-----------------------------------------------------------------------------
(* The clients, the user and the rest of the actor keep the type invariant. *)

LEMMA ClientType == TypeOK /\ Client => TypeOK'
  <1> SUFFICES ASSUME TypeOK, Client PROVE TypeOK'
    OBVIOUS
  <1>1. PICK r \in Requests : \/ ClientChunk(r) \/ ClientReply(r)
                              \/ ClientError(r) \/ ClientStopped(r)
                              \/ ClientEmit(r)
    BY DEF Client
  <1>2. /\ app \in App /\ rx \in Seq(Events) /\ WorkOK /\ Frame
        /\ task \in [Requests -> Tasks]
    BY DEF TypeOK, WorkOK, Frame
  <1>3. UNCHANGED <<app, issued, tools, token, cancelled, rooted, life, batch,
                    prompts>>
    BY <1>1 DEF ClientChunk, ClientReply, ClientError, ClientStopped,
                ClientFinish, ClientEmit, client
  <1>4. task' \in [Requests -> Tasks] /\ rx' \in Seq(Events)
    <2>1. CASE ClientChunk(r)
      <3>1. task' = [task EXCEPT ![r].state = "streaming"]
        BY <2>1 DEF ClientChunk, SetState
      <3>2. rx' = Append(rx, Ev("chunk", r)) /\ Ev("chunk", r) \in Events
        BY <2>1, EventType DEF ClientChunk, EventKinds
      <3>3. "streaming" \in TaskStates
        BY DEF TaskStates
      <3> QED
        BY <1>2, <3>1, <3>2, <3>3, TaskType
    <2>2. ASSUME NEW o \in Outcomes, NEW reply \in Replies,
                 ClientFinish(r, o, reply)
          PROVE  task' \in [Requests -> Tasks] /\ rx' \in Seq(Events)
      <3>1. [state |-> "waiting", outcome |-> o, calls |-> reply] \in Tasks
        BY DEF Tasks, TaskStates
      <3>2. rx' = Append(rx, Ev("persist", r)) /\ Ev("persist", r) \in Events
        BY <2>2, EventType DEF ClientFinish, EventKinds
      <3> QED
        BY <1>2, <2>2, <3>1, <3>2 DEF ClientFinish
    <2>3. CASE ClientReply(r)
      BY <2>2, <2>3 DEF ClientReply, Outcomes
    <2>4. CASE ClientError(r) \/ ClientStopped(r)
      BY <2>2, <2>4, EmptyReplyType DEF ClientError, ClientStopped, Outcomes
    <2>5. CASE ClientEmit(r)
      <3>1. PICK s \in {"ended", "finishing"} :
                   task' = [task EXCEPT ![r].state = s]
        BY <2>5 DEF ClientEmit, SetState
      <3>2. s \in TaskStates
        BY DEF TaskStates
      <3>3. PICK evs \in Seq(Events) : rx' = rx \o evs
        <4>1. /\ Ev("failed", r) \in Events /\ Ev("done", r) \in Events
              /\ Ev("calls", r) \in Events
              /\ \A o \in {"error", "cancelled"} : Ev(o, r) \in Events
          BY EventType DEF EventKinds
        <4>2. \/ rx' = rx \o <<Ev("failed", r)>>
              \/ rx' = rx \o <<Ev("done", r)>>
              \/ rx' = rx \o <<Ev("calls", r)>>
              \/ rx' = rx \o <<Ev("calls", r), Ev("done", r)>>
              \/ \E o \in {"error", "cancelled"} : rx' = rx \o <<Ev(o, r)>>
          BY <2>5 DEF ClientEmit
        <4>3. ASSUME NEW e \in Events
              PROVE  <<e>> \in Seq(Events)
          OBVIOUS
        <4>4. <<Ev("calls", r), Ev("done", r)>> \in Seq(Events)
          BY <4>1
        <4> QED
          BY <4>1, <4>2, <4>3, <4>4
      <3>4. rx' \in Seq(Events)
        BY <1>2, <3>3
      <3>5. task' \in [Requests -> Tasks]
        BY <1>2, <3>1, <3>2, TaskType
      <3> QED
        BY <3>4, <3>5
    <2> QED
      BY <1>1, <2>1, <2>3, <2>4, <2>5
  <1>5. Shape' /\ Frame'
    BY <1>2, <1>3, <1>4 DEF Shape, WorkOK, Frame
  <1> QED
    BY <1>5, TypeSplit

(* The end of a tool keeps the type.                                         *)
LEMMA ToolType ==
    ASSUME TypeOK, NEW t \in tools, ToolFinish(t)
    PROVE  TypeOK'
  <1>1. t.call \in Calls
    BY DEF TypeOK
  <1>2. Append(rx, ResultOf(t.call)) \in Seq(Events)
    BY <1>1, ResultType DEF TypeOK
  <1>3. Shape' /\ Frame'
    BY <1>2 DEF ToolFinish, TypeOK, Shape, WorkOK, Frame
  <1> QED
    BY <1>3, TypeSplit

(* Dropping a scheduled retry keeps App well formed.                         *)
LEMMA AbandonRetryType ==
    ASSUME NEW a \in App
    PROVE  AbandonRetry(a) \in App
  <1> DEFINE b == [a EXCEPT !.attempts = 0]
             d == [b EXCEPT !.retryAt = FALSE, !.processing = FALSE]
             e == [a EXCEPT !.retryAt = FALSE, !.attempts = 0,
                            !.processing = FALSE]
  <1>1. b \in App
    BY ResetAttempts
  <1>2. d = e
    BY DEF App
  <1> HIDE DEF b
  <1>3. d \in App
    BY <1>1 DEF App
  <1> HIDE DEF d, e
  <1> QED
    BY <1>2, <1>3, SettleTurnType DEF AbandonRetry, e

(* So does cancelling a pending prompt or question.                          *)
LEMMA InteractionType ==
    ASSUME NEW a \in App
    PROVE  SettleInteraction(a) \in App
  <1> DEFINE b == Answer(a, {a.pending})
             d == [b EXCEPT
                     !.pending = NoCall, !.approval = FALSE, !.asking = FALSE,
                     !.processing = FALSE, !.executing = FALSE,
                     !.processedCalls = FALSE, !.dispatched = FALSE]
  <1>1. b \in App
    BY AnswerType
  <1> HIDE DEF b
  <1>2. d \in App
    BY <1>1, ZenonT(60) DEF App
  <1> HIDE DEF d
  <1>3. SettleTurn(d) \in App
    BY <1>2, SettleTurnType
  <1> QED
    BY <1>3 DEF SettleInteraction, b, d

(* A retry that is due keeps the type.                                       *)
LEMMA RetryType == TypeOK /\ RunDueRetry => TypeOK'
  <1> SUFFICES ASSUME TypeOK, RunDueRetry PROVE TypeOK'
    OBVIOUS
  <1>1. app \in App /\ WorkOK /\ rx \in Seq(Events) /\ Frame'
    BY DEF TypeOK, WorkOK, RunDueRetry, Frame
  <1>2. [app EXCEPT !.retryAt = FALSE] \in App
    BY <1>1 DEF App
  <1>3. StartRequest([app EXCEPT !.retryAt = FALSE], rx, TRUE)
    BY DEF RunDueRetry
  <1> QED
    BY <1>1, <1>2, <1>3, StartShape, TypeSplit

(* The user's prompt keeps the type.                                         *)
LEMMA PromptType == TypeOK /\ SendPrompt => TypeOK'
  <1> SUFFICES ASSUME TypeOK, SendPrompt PROVE TypeOK'
    OBVIOUS
  <1> DEFINE b == [app EXCEPT !.attempts = 0]
             d == [b EXCEPT !.turn = TRUE, !.active = 0]
             e == [app EXCEPT !.attempts = 0, !.turn = TRUE, !.active = 0]
  <1>1. app \in App /\ WorkOK /\ rx \in Seq(Events)
    BY DEF TypeOK, WorkOK
  <1>2. Frame'
    BY BoundAssumption DEF TypeOK, SendPrompt, Frame
  <1>3. b \in App
    BY <1>1, ResetAttempts
  <1>4. d = e
    BY <1>1 DEF App
  <1>5. StartRequest(e, rx, TRUE)
    BY DEF SendPrompt
  <1> HIDE DEF b
  <1>6. d \in App
    BY <1>3 DEF App
  <1> HIDE DEF d, e
  <1> QED
    BY <1>1, <1>2, <1>4, <1>5, <1>6, StartShape, TypeSplit

(* The user's answer to a question keeps the type.                           *)
LEMMA AnswerUserType == TypeOK /\ AnswerUser => TypeOK'
  <1> SUFFICES ASSUME TypeOK, AnswerUser PROVE TypeOK'
    OBVIOUS
  <1> DEFINE a == [app EXCEPT !.asking = FALSE]
             c == app.pending
             q == IF c = NoCall THEN rx ELSE Append(rx, ResultOf(c))
             b == Answer(SettleTurn(a), {c})
             d == [b EXCEPT !.processing = FALSE, !.pending = NoCall]
  <1>1. app \in App /\ WorkOK /\ rx \in Seq(Events) /\ Frame'
    BY DEF TypeOK, WorkOK, AnswerUser, Frame
  <1>2. a \in App /\ c \in Calls \cup {NoCall}
    BY <1>1 DEF App
  <1>3. q \in Seq(Events)
    BY <1>1, <1>2, ResultType
  <1>4. Settle(a, q) \/ Settle(d, rx)
    BY DEF AnswerUser
  <1> HIDE DEF a, c, q
  <1>5. b \in App
    BY <1>2, SettleTurnType, AnswerType
  <1> HIDE DEF b
  <1>6. d \in App
    BY <1>5 DEF App
  <1> HIDE DEF d
  <1> QED
    BY <1>1, <1>2, <1>3, <1>4, <1>6, SettleShape, TypeSplit

(* An approval, once or always, keeps the type.                              *)
LEMMA ApproveType ==
    ASSUME TypeOK, NEW always \in BOOLEAN, Approve(always)
    PROVE  TypeOK'
  <1> DEFINE a == [app EXCEPT !.approval = FALSE, !.always = @ \/ always]
  <1>1. app \in App /\ WorkOK /\ rx \in Seq(Events) /\ Frame'
    BY DEF TypeOK, WorkOK, Approve, Frame
  <1>2. a \in App
    <2> DEFINE w == app.always \/ always
    <2>1. w \in BOOLEAN
      BY <1>1
    <2>2. a = [app EXCEPT !.approval = FALSE, !.always = w]
      OBVIOUS
    <2> HIDE DEF w, a
    <2> QED
      BY <1>1, <2>1, <2>2 DEF App
  <1>3. Dispatch(a, rx)
    BY DEF Approve
  <1> HIDE DEF a
  <1> QED
    BY <1>1, <1>2, <1>3, DispatchShape, TypeSplit

(* A denial keeps the type.                                                  *)
LEMMA DenyType == TypeOK /\ Deny => TypeOK'
  <1> SUFFICES ASSUME TypeOK, Deny PROVE TypeOK'
    OBVIOUS
  <1> DEFINE a == [app EXCEPT !.approval = FALSE]
             d == [app EXCEPT !.approval = FALSE, !.processing = TRUE]
             q == Append(rx, ResultOf(app.pending))
  <1>1. app \in App /\ WorkOK /\ rx \in Seq(Events) /\ Frame'
    BY DEF TypeOK, WorkOK, Deny, Frame
  <1>2. a \in App /\ d \in App
    BY <1>1 DEF App
  <1>3. app.pending # NoCall => q \in Seq(Events)
    BY <1>1, ResultType DEF App
  <1>4. Settle(a, rx) \/ (app.pending # NoCall /\ Settle(d, q))
    BY DEF Deny
  <1> HIDE DEF a, d, q
  <1> QED
    BY <1>1, <1>2, <1>3, <1>4, SettleShape, TypeSplit

(* The stop button keeps the type.                                           *)
LEMMA StopType == TypeOK /\ Stop => TypeOK'
  <1> SUFFICES ASSUME TypeOK, Stop PROVE TypeOK'
    OBVIOUS
  <1> DEFINE b == SettleInteraction(app)
             d == [b EXCEPT !.cancelPending = FALSE]
  <1>1. app \in App /\ WorkOK /\ rx \in Seq(Events) /\ Frame
    BY DEF TypeOK, WorkOK, Frame
  <1>2. b \in App
    BY <1>1, InteractionType
  <1>3. \/ Settle(d, rx) /\ UNCHANGED <<life, batch, prompts>>
        \/ Settle(AbandonRetry(app), rx) /\ UNCHANGED <<life, batch, prompts>>
        \/ CancelWork
    BY DEF Stop
  <1> HIDE DEF b
  <1>4. d \in App
    BY <1>2 DEF App
  <1> HIDE DEF d
  <1>5. CASE Settle(d, rx) /\ UNCHANGED <<life, batch, prompts>>
    <2>1. Frame'
      BY <1>1, <1>5 DEF Frame
    <2> QED
      BY <1>1, <1>4, <1>5, <2>1, SettleShape, TypeSplit
  <1>6. CASE Settle(AbandonRetry(app), rx) /\ UNCHANGED <<life, batch, prompts>>
    <2>1. Frame'
      BY <1>1, <1>6 DEF Frame
    <2> QED
      BY <1>1, <1>6, <2>1, AbandonRetryType, SettleShape, TypeSplit
  <1>7. CASE CancelWork
    <2>1. app' \in App
      BY <1>1, <1>7 DEF CancelWork, App
    <2>2. Shape' /\ Frame'
      BY <1>1, <1>7, <2>1 DEF CancelWork, Shape, WorkOK, Frame
    <2> QED
      BY <2>2, TypeSplit
  <1> QED
    BY <1>3, <1>5, <1>6, <1>7

(* The begin of a shutdown keeps the type.                                   *)
LEMMA BeginShutdownType == TypeOK /\ BeginShutdown => TypeOK'
  <1> SUFFICES ASSUME TypeOK, BeginShutdown PROVE TypeOK'
    OBVIOUS
  <1> DEFINE a == SettleInteraction(app)
             d == [a EXCEPT !.cancelPending = TRUE, !.processing = TRUE]
             active == a.active # 0 \/ a.processing \/ a.executing
  <1>1. app \in App /\ rx \in Seq(Events) /\ WorkOK /\ Frame
    BY DEF TypeOK, WorkOK, Frame
  <1>2. a \in App
    BY <1>1, InteractionType
  <1>3. app' = IF active THEN d ELSE a
    BY DEF BeginShutdown
  <1>4. cancelled' = cancelled \cup rooted \cup (IF active THEN {token} ELSE {})
    BY DEF BeginShutdown
  <1> HIDE DEF a, active
  <1>5. app' \in App
    BY <1>2, <1>3 DEF App
  <1>6. cancelled' \subseteq Tokens
    BY <1>1, <1>4 DEF WorkOK
  <1>7. Shape' /\ Frame'
    BY <1>1, <1>5, <1>6 DEF BeginShutdown, Shape, WorkOK, Frame, Life
  <1> QED
    BY <1>7, TypeSplit

(* Ctrl+C keeps the type, whichever of its meanings it has.                  *)
LEMMA CtrlCType == TypeOK /\ CtrlC => TypeOK'
  <1> SUFFICES ASSUME TypeOK, CtrlC PROVE TypeOK'
    OBVIOUS
  <1>1. CASE BeginShutdown
    BY <1>1, BeginShutdownType
  <1>2. CASE /\ app' = [app EXCEPT !.cancelPending = TRUE]
             /\ cancelled' = cancelled \cup {token}
             /\ UNCHANGED <<rx, task, issued, tools, token, rooted, life,
                            batch, prompts>>
    <2>1. app' \in App
      BY <1>2 DEF TypeOK, App
    <2>2. Shape' /\ Frame'
      BY <1>2, <2>1 DEF TypeOK, Shape, WorkOK, Frame
    <2> QED
      BY <2>2, TypeSplit
  <1> QED
    BY <1>1, <1>2 DEF CtrlC

(* Signals and the containment keep the type.                                *)
LEMMA LifeType ==
    TypeOK /\ (SignalArrives \/ QueueSignal \/ Contain) => TypeOK'
  <1> SUFFICES ASSUME TypeOK, SignalArrives \/ QueueSignal \/ Contain
               PROVE  Shape' /\ Frame'
    BY TypeSplit
  <1>1. CASE SignalArrives
    BY <1>1 DEF SignalArrives, TypeOK, Shape, WorkOK, Frame, Life
  <1>2. CASE QueueSignal
    BY <1>2 DEF QueueSignal, TypeOK, Shape, WorkOK, Frame, Life, work
  <1>3. CASE Contain
    BY <1>3 DEF Contain, TypeOK, Shape, WorkOK, Frame, Life, work
  <1> QED
    BY <1>1, <1>2, <1>3

(* Dropping the retry at a shutdown keeps the type.                          *)
LEMMA DropRetryType == TypeOK /\ AbandonRetryAtShutdown => TypeOK'
  <1> SUFFICES ASSUME TypeOK, AbandonRetryAtShutdown PROVE TypeOK'
    OBVIOUS
  <1>1. app \in App /\ WorkOK /\ rx \in Seq(Events) /\ Frame'
    BY DEF TypeOK, WorkOK, AbandonRetryAtShutdown, Frame
  <1>2. Settle(AbandonRetry(app), rx)
    BY DEF AbandonRetryAtShutdown
  <1> QED
    BY <1>1, <1>2, AbandonRetryType, SettleShape, TypeSplit

(* The initial state has the type.                                           *)
LEMMA InitType == Init => TypeOK
  <1> SUFFICES ASSUME Init PROVE TypeOK
    OBVIOUS
  <1>1. 0 \in 0 .. MaxRetries /\ 0 \in 0 .. MaxRequests /\ 0 \in 0 .. MaxPrompts
        /\ 0 \in Tokens
    BY BoundAssumption DEF Tokens
  <1>2. app \in App
    <2>1. [c \in Calls |-> 0] \in [Calls -> Nat]
      OBVIOUS
    <2>2. <<>> \in Seq(Calls)
      OBVIOUS
    <2> QED
      BY <1>1, <2>1, <2>2, SwitchAssumption DEF Init, AppInit, App
  <1>3. task \in [Requests -> Tasks]
    BY EmptyReplyType DEF Init, Tasks, TaskStates, Outcomes
  <1>4. rx \in Seq(Events)
    BY DEF Init
  <1>5. /\ tools \subseteq [call : Calls, token : Tokens]
        /\ token \in Tokens /\ cancelled \subseteq Tokens /\ rooted \subseteq Tokens
    BY <1>1 DEF Init
  <1>6. life \in Life
    BY DEF Init, Life
  <1> QED
    BY <1>1, <1>2, <1>3, <1>4, <1>5, <1>6 DEF Init, TypeOK

(* The type is inductive.                                                    *)
LEMMA TypeStep == TypeOK /\ [Next]_vars => TypeOK'
  <1> SUFFICES ASSUME TypeOK, [Next]_vars PROVE TypeOK'
    OBVIOUS
  <1>1. CASE Client
    BY <1>1, ClientType
  <1>2. CASE \E t \in tools : ToolFinish(t)
    BY <1>2, ToolType
  <1>3. CASE User
    <2>1. ASSUME NEW always \in BOOLEAN, Approve(always) PROVE TypeOK'
      BY <2>1, ApproveType
    <2> QED
      BY <1>3, <2>1, PromptType, AnswerUserType, DenyType, StopType, CtrlCType
         DEF User
  <1>4. CASE HandleEvent
    BY <1>4, ChunkType, PersistType, FailedEventType, CancelledType,
       ToolCallsType, ToolResultType, DoneType, IntentionType, ErrorType
       DEF HandleEvent
  <1>5. CASE RunDueRetry \/ HandleSignal \/ Exit \/ AbandonRetryAtShutdown
             \/ Contain
    BY <1>5, RetryType, BeginShutdownType, DropRetryType, LifeType
       DEF HandleSignal, Exit
  <1>6. CASE SignalArrives \/ QueueSignal
    BY <1>6, LifeType
  <1>7. CASE UNCHANGED vars
    BY <1>7 DEF vars, TypeOK
  <1> QED
    BY <1>1, <1>2, <1>3, <1>4, <1>5, <1>6, <1>7 DEF Next, Actor

-----------------------------------------------------------------------------
(* The state always has the shape TypeOK gives it: in particular the        *)
(* handlers never pass the number of retries or of requests, and every      *)
(* event and every running tool belongs to a call of a request.             *)
THEOREM TypeCorrect == Spec => []TypeOK
  BY InitType, TypeStep, PTL DEF Spec
=============================================================================
