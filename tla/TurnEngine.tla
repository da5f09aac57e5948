------------------------------ MODULE TurnEngine ------------------------------
(***************************************************************************)
(* The turn engine of lethetic: one actor task (src/bin/lethetic) that     *)
(* owns the App and drains a queue of StreamEvents, one client task per    *)
(* provider request, at most one running tool, a user, and the process     *)
(* signals.  A turn is: the user's prompt, a provider request, the tool    *)
(* calls of its reply one after another, and again a request with their    *)
(* results, until a reply asks for nothing.                                *)
(*                                                                         *)
(* The flags of App and RuntimeContext are the fields of the record app,   *)
(* under their names in the source.  A handler builds the record it leaves *)
(* behind and hands it to the operator that ends it: StartRequest,         *)
(* BeginCall, Dispatch or Settle.                                          *)
(***************************************************************************)
EXTENDS Integers, Sequences, FiniteSets

CONSTANTS
    MaxRequests,     \* provider requests of a run; beyond it a start fails
    MaxPrompts,      \* prompts the user types in a run
    MaxBatch,        \* tool calls of one reply
    MaxRetries,      \* provider_retries of the configuration
    CallKinds,       \* what a call may be: see CallKindAssumption
    BatchModes,      \* values of tool_calls: sequential (TRUE), single (FALSE)
    AllowAlways,     \* the user may approve "always"
    SaveFaults,      \* a session save may fail
    DoneLag,         \* a client may be preempted between ToolCalls and Done
    BatchCut,        \* more than MAX_STREAM_EVENTS_PER_TICK events may queue
    Signals          \* a process signal may arrive

ASSUME BoundAssumption ==
    /\ MaxRequests \in Nat \ {0}
    /\ MaxPrompts \in Nat \ {0}
    /\ MaxBatch \in Nat \ {0}
    /\ MaxRetries \in Nat

(* "tool" runs after an approval, "ask" is ask_the_user, "bad" is a call    *)
(* the actor rejects by itself (malformed Python, tool not admitted).       *)
ASSUME CallKindAssumption == CallKinds \subseteq {"tool", "ask", "bad"}

ASSUME SwitchAssumption ==
    BatchModes \cup {AllowAlways, SaveFaults, DoneLag, BatchCut, Signals}
        \subseteq BOOLEAN

Requests == 1 .. MaxRequests
Calls    == Requests \X (1 .. MaxBatch)
NoCall   == <<0, 0>>

(* A token is named after the request it was made for.  One more name is    *)
(* needed for the token of a request whose start fails at the bound.        *)
Tokens == 0 .. MaxRequests + 1

EventKinds == {"chunk", "persist", "calls", "done", "error", "cancelled",
               "failed", "result"}
Events == [kind : EventKinds, req : Requests, call : Calls \cup {NoCall}]

Ev(k, r)    == [kind |-> k, req |-> r, call |-> NoCall]
ResultOf(c) == [kind |-> "result", req |-> c[1], call |-> c]

TaskStates == {"none", "opening", "streaming", "waiting", "acked", "refused",
               "finishing", "ended"}
Outcomes   == {"none", "done", "error", "cancelled"}
Replies    == UNION {[1 .. n -> CallKinds] : n \in 0 .. MaxBatch}
Tasks      == [state : TaskStates, outcome : Outcomes, calls : Replies]

VARIABLES
    app,        \* App and the actor's RuntimeContext
    rx,         \* the actor's queue of StreamEvents
    task,       \* the client task of each request
    issued,     \* requests started so far
    tools,      \* the running tools, each with its call and its token
    token,      \* RuntimeContext.cancellation_token
    cancelled,  \* tokens that are cancelled
    rooted,     \* tokens that are children of the shutdown token
    life,       \* ShutdownCoordinator, the shutdown token, a queued signal
    batch,      \* the actor is inside a batch of stream events
    prompts     \* prompts typed so far

vars == <<app, rx, task, issued, tools, token, cancelled, rooted, life, batch,
          prompts>>
work == <<task, issued, tools, token, cancelled, rooted>>

AppInit(mode) ==
    [batches |-> mode, processing |-> FALSE, executing |-> FALSE,
     processedCalls |-> FALSE, dispatched |-> FALSE, approval |-> FALSE, asking |-> FALSE,
     always |-> FALSE, turn |-> FALSE, text |-> FALSE, cancelPending |-> FALSE,
     retryAt |-> FALSE, attempts |-> 0, pending |-> NoCall, queued |-> <<>>,
     active |-> 0, open |-> {}, called |-> {}, taken |-> {},
     results |-> [c \in Calls |-> 0]]

Init ==
    /\ \E mode \in BatchModes : app = AppInit(mode)
    /\ rx = <<>>
    /\ task = [r \in Requests |->
                  [state |-> "none", outcome |-> "none", calls |-> <<>>]]
    /\ issued = 0
    /\ tools = {}
    /\ token = 0
    /\ cancelled = {}
    /\ rooted = {0}
    /\ life = [state |-> "Running", shutdown |-> FALSE, signal |-> FALSE]
    /\ batch = FALSE
    /\ prompts = 0

-----------------------------------------------------------------------------
(* What the handlers share.                                                *)

KindOf(c)  == task[c[1]].calls[c[2]]
CallsOf(r) == [i \in 1 .. Len(task[r].calls) |-> <<r, i>>]
ElemsOf(s) == {s[i] : i \in DOMAIN s}

Running     == life.state = "Running"
AcceptsWork == ~life.shutdown /\ Running

(* Seeded fault: input is polled during the drain.                          *)
InputWhileDraining == ~batch
InputReady == ~batch /\ AcceptsWork

(* Seeded fault: idleness looks at the provider markers alone.              *)
NoOpenMarker(a) == a.open = {}
FullyIdle(a) ==
    /\ ~a.processing /\ ~a.executing /\ ~a.approval /\ ~a.asking
    /\ a.pending = NoCall
    /\ a.open = {}

(* add_tool_message_with_status: a call gets a result in the transcript.    *)
Answer(a, cs) ==
    [a EXCEPT !.results =
        [c \in Calls |-> IF c \in cs THEN a.results[c] + 1 ELSE a.results[c]]]

AbandonQueued(a) == [Answer(a, ElemsOf(a.queued)) EXCEPT !.queued = <<>>]

SettleTurn(a) == [AbandonQueued(a) EXCEPT !.turn = FALSE]

(* Seeded fault: the cancellation stays pending.                            *)
CancellationStuck(a) ==
    IF a.executing
    THEN [a EXCEPT !.processing = TRUE, !.text = FALSE]
    ELSE SettleTurn([a EXCEPT !.processing = FALSE, !.processedCalls = FALSE,
                              !.dispatched = FALSE, !.pending = NoCall,
                              !.text = FALSE])

(* settle_provider_cancellation: with a tool still running the engine keeps *)
(* waiting for it, otherwise the cancellation is over.                      *)
SettleCancellation(a) ==
    IF a.executing
    THEN [a EXCEPT !.processing = TRUE, !.text = FALSE]
    ELSE SettleTurn([a EXCEPT !.cancelPending = FALSE, !.processing = FALSE,
                              !.processedCalls = FALSE, !.dispatched = FALSE,
                              !.pending = NoCall, !.text = FALSE])

(* Seeded fault: one of the two places a request is known by is missed.     *)
LeakMarker(a, r) == [a EXCEPT !.active = IF @ = r THEN 0 ELSE @]

(* close_provider_request_marker *)
CloseMarker(a, r) ==
    [a EXCEPT !.open = @ \ {r}, !.active = IF @ = r THEN 0 ELSE @]

(* The handler leaves a behind and q in the queue, and starts nothing.      *)
Settle(a, q) == app' = a /\ rx' = q /\ UNCHANGED work

(* Seeded fault: the request gets a token, the context keeps the old one.   *)
TokenNotKept(r) == token' = token
NewToken(r)     == token' = r

(* A new provider request under a new token: persist_before_side_effect,    *)
(* then trigger_persisted_provider_request.  The start is refused when the  *)
(* session cannot be saved, when no logical turn is active, or when the     *)
(* request cannot be prepared.                                              *)
StartRequest(a, q, child) ==
    LET r    == issued + 1
        base == [a EXCEPT !.processing = TRUE, !.processedCalls = FALSE,
                          !.dispatched = FALSE, !.text = FALSE]
    IN  /\ NewToken(r)
        /\ rooted' = IF child THEN rooted \cup {r} ELSE rooted \ {r}
        /\ cancelled' = IF child /\ life.shutdown THEN cancelled \cup {r}
                                                  ELSE cancelled \ {r}
        /\ rx' = q
        /\ UNCHANGED tools
        /\ \/ /\ SaveFaults \/ ~a.turn \/ r > MaxRequests
              /\ app' = SettleTurn([base EXCEPT !.processing = FALSE])
              /\ UNCHANGED <<task, issued>>
           \/ /\ a.turn /\ r <= MaxRequests
              /\ app' = [base EXCEPT !.active = r, !.open = @ \cup {r}]
              /\ task' = [task EXCEPT ![r].state = "opening"]
              /\ issued' = r

(* dispatch_auto_approved_tool runs the pending call, if there is one.      *)
Dispatch(a, q) ==
    \/ a.pending = NoCall /\ Settle(a, q)
    \/ /\ a.pending # NoCall
       /\ app' = [a EXCEPT !.executing = TRUE, !.dispatched = TRUE,
                           !.processing = TRUE]
       /\ tools' = tools \cup {[call |-> a.pending, token |-> token]}
       /\ rx' = q
       /\ UNCHANGED <<task, issued, token, cancelled, rooted>>
    \/ /\ SaveFaults /\ a.pending # NoCall       \* the Python audit fails
       /\ Settle([a EXCEPT !.processing = TRUE, !.dispatched = TRUE,
                           !.approval = FALSE],
                 Append(q, ResultOf(a.pending)))
    \/ /\ SaveFaults /\ a.pending # NoCall       \* the session save fails
       /\ Settle([Answer(SettleTurn(a), {a.pending}) EXCEPT
                      !.pending = NoCall, !.processing = FALSE,
                      !.dispatched = TRUE, !.approval = FALSE], q)

(* begin_tool_call admits, records and routes one call of the batch.        *)
BeginCall(c, a0, q) ==
    LET a == [a0 EXCEPT !.pending = c]
    IN  \/ /\ KindOf(c) = "bad" \/ (SaveFaults /\ KindOf(c) = "tool")
           /\ Settle([a EXCEPT !.processing = TRUE, !.dispatched = TRUE],
                     Append(q, ResultOf(c)))
        \/ /\ SaveFaults                         \* handle_tool_call_save_failure
           /\ Settle(SettleTurn([Answer(a, {c}) EXCEPT
                         !.pending = NoCall, !.dispatched = TRUE,
                         !.processing = FALSE, !.approval = FALSE]), q)
        \/ /\ KindOf(c) = "ask"
           /\ Settle([a EXCEPT !.asking = TRUE, !.processing = FALSE], q)
        \/ /\ KindOf(c) = "tool" /\ ~a.always
           /\ Settle([a EXCEPT !.approval = TRUE, !.processing = FALSE], q)
        \/ /\ KindOf(c) = "tool" /\ a.always
           /\ Dispatch(a, q)

TooMany(cs) == Len(cs) > 1 /\ ~app.batches

(* handle_tool_call_with_provider for the calls cs of a reply.              *)
HandleCalls(cs, a0, q) ==
    LET a == [a0 EXCEPT !.processedCalls = TRUE]
    IN  IF cs = <<>>                             \* an empty tool-call event
        THEN Settle(SettleTurn([a EXCEPT !.processing = FALSE]), q)
        ELSE IF TooMany(cs)                      \* the batch is rejected
        THEN Settle(SettleTurn([a EXCEPT
                        !.pending = NoCall, !.approval = FALSE,
                        !.asking = FALSE, !.processing = FALSE,
                        !.executing = FALSE, !.dispatched = FALSE,
                        !.called = @ \ ElemsOf(cs)]), q)
        ELSE BeginCall(Head(cs), [a EXCEPT !.queued = Tail(cs),
                                           !.called = @ \cup ElemsOf(cs),
                                           !.taken = @ \cup ElemsOf(cs)], q)

-----------------------------------------------------------------------------
(* The client task of request r.                                           *)

SetState(r, s) == task' = [task EXCEPT ![r].state = s]
client == <<issued, tools, token, cancelled, rooted, life, batch, prompts>>

ClientChunk(r) ==
    /\ task[r].state = "opening"
    /\ SetState(r, "streaming")
    /\ rx' = Append(rx, Ev("chunk", r))
    /\ UNCHANGED <<app, client>>

(* The stream is over: the task sends its terminal checkpoint to the actor  *)
(* and blocks for the acknowledgement.                                      *)
ClientFinish(r, outcome, reply) ==
    /\ task[r].state \in {"opening", "streaming"}
    /\ task' = [task EXCEPT ![r] = [state |-> "waiting", outcome |-> outcome,
                                    calls |-> reply]]
    /\ rx' = Append(rx, Ev("persist", r))
    /\ UNCHANGED <<app, client>>

ClientReply(r)   == \E reply \in Replies : ClientFinish(r, "done", reply)
ClientError(r)   == ClientFinish(r, "error", <<>>)
ClientStopped(r) == r \in cancelled /\ ClientFinish(r, "cancelled", <<>>)

(* A reply with tool calls is sent as two events.                           *)
ClientEmit(r) ==
    LET calls == Ev("calls", r)
        done  == Ev("done", r)
        send(s, evs) == SetState(r, s) /\ rx' = rx \o evs
    IN  /\ \/ task[r].state = "refused" /\ send("ended", <<Ev("failed", r)>>)
           \/ /\ task[r].state = "acked"
              /\ \/ task[r].outcome = "done" /\ task[r].calls = <<>>
                    /\ send("ended", <<done>>)
                 \/ task[r].outcome = "done" /\ task[r].calls # <<>>
                    /\ IF DoneLag THEN send("finishing", <<calls>>)
                                  ELSE send("ended", <<calls, done>>)
                 \/ task[r].outcome \in {"error", "cancelled"}
                    /\ send("ended", <<Ev(task[r].outcome, r)>>)
           \/ task[r].state = "finishing" /\ send("ended", <<done>>)
        /\ UNCHANGED <<app, client>>

(* Seeded fault: the tool task ends without sending its result.             *)
ToolVanishes(t) ==
    /\ tools' = tools \ {t}
    /\ UNCHANGED <<app, rx, task, issued, token, cancelled, rooted, life, batch,
                   prompts>>

(* A tool ends, by itself or because its token is cancelled.                *)
ToolFinish(t) ==
    /\ tools' = tools \ {t}
    /\ rx' = Append(rx, ResultOf(t.call))
    /\ UNCHANGED <<app, task, issued, token, cancelled, rooted, life, batch,
                   prompts>>

-----------------------------------------------------------------------------
(* The stream event handlers: each takes the event at the head of rx.      *)

MayContain   == life.state = "Draining" /\ FullyIdle(app) /\ ~app.cancelPending
DropsRetry   == life.state = "Draining" /\ app.retryAt

(* The top of the actor loop (containment, the retry) and a queued signal   *)
(* go before the next batch.  A batch goes on until the queue is empty or   *)
(* it has had its share.                                                    *)
Receive(kind) ==
    /\ rx # <<>> /\ Head(rx).kind = kind
    /\ life.state # "Contained"
    /\ batch \/ ~(life.signal \/ MayContain \/ DropsRetry)
    /\ UNCHANGED <<life, prompts>>

GoOn == batch' \in IF rx' = <<>> THEN {FALSE}
                   ELSE IF BatchCut THEN BOOLEAN ELSE {TRUE}

Req  == Head(rx).req
Rest == Tail(rx)

HandleChunk ==
    /\ Receive("chunk")
    /\ IF app.processing /\ ~app.cancelPending
       THEN \/ Settle([app EXCEPT !.text = TRUE], Rest)
            \/ /\ app' = [app EXCEPT !.text = TRUE, !.cancelPending = TRUE]
               /\ cancelled' = cancelled \cup {token}
               /\ rx' = Rest
               /\ UNCHANGED <<task, issued, tools, token, rooted>>
       ELSE Settle(app, Rest)
    /\ GoOn

(* handle_request_settlement_failure *)
SettlementFailed(a, r) ==
    LET b == CloseMarker(a, r)
    IN  IF a.active # r THEN b
        ELSE IF a.cancelPending THEN SettleCancellation(b)
        ELSE IF a.executing THEN [b EXCEPT !.processing = TRUE]
        ELSE SettleTurn([b EXCEPT !.processing = FALSE, !.pending = NoCall,
                                  !.text = FALSE])

(* persist_provider_checkpoint of a terminal checkpoint; the transcript it  *)
(* installs carries the calls of the reply.                                 *)
HandlePersist ==
    /\ Receive("persist")
    /\ rx' = Rest
    /\ UNCHANGED <<issued, tools, token, cancelled, rooted>>
    /\ \/ /\ app.turn /\ Req \in app.open
          /\ SetState(Req, "acked")
          /\ app' = [CloseMarker(app, Req) EXCEPT
                        !.called = @ \cup ElemsOf(CallsOf(Req))]
       \/ /\ SaveFaults \/ ~app.turn \/ Req \notin app.open
          /\ SetState(Req, "refused")
          /\ app' = SettlementFailed(app, Req)
    /\ GoOn

HandleFailed ==
    /\ Receive("failed")
    /\ Settle(SettlementFailed(app, Req), Rest)
    /\ GoOn

HandleCancelled ==
    /\ Receive("cancelled")
    /\ LET b == CloseMarker(app, Req)
       IN  Settle(IF app.cancelPending THEN SettleCancellation(b) ELSE b, Rest)
    /\ GoOn

IgnoresCalls(a)   == a.cancelPending \/ a.processedCalls

HandleToolCalls ==
    /\ Receive("calls")
    /\ IF IgnoresCalls(app)
       THEN Settle(app, Rest)
       ELSE HandleCalls(CallsOf(Req), app, Rest)
    /\ GoOn

HandleToolResult ==
    /\ Receive("result")
    /\ LET a == [Answer(app, {Head(rx).call}) EXCEPT !.executing = FALSE,
                                                     !.pending = NoCall]
           b == [AbandonQueued(a) EXCEPT !.processedCalls = FALSE,
                                         !.dispatched = FALSE, !.text = FALSE]
       IN  \/ /\ ~a.cancelPending /\ a.queued # <<>>
              /\ BeginCall(Head(a.queued),
                           [a EXCEPT !.queued = Tail(@), !.dispatched = FALSE,
                                     !.processing = TRUE], Rest)
           \/ /\ a.cancelPending
              /\ Settle(IF a.active # 0 THEN b
                        ELSE SettleTurn([b EXCEPT !.cancelPending = FALSE,
                                                  !.processing = FALSE]), Rest)
           \/ /\ ~a.cancelPending /\ a.queued = <<>>
              /\ StartRequest(a, Rest, FALSE)
    /\ GoOn

HandleDone ==
    /\ Receive("done")
    /\ LET a == [app EXCEPT !.attempts = 0]
           d == [a EXCEPT !.processing = FALSE]
           redispatch == /\ d.pending # NoCall /\ d.always /\ ~d.dispatched
       IN  \/ /\ a.cancelPending
              /\ Settle(SettleCancellation(
                          [a EXCEPT !.active = IF @ = Req THEN 0 ELSE @]), Rest)
           \/ /\ ~a.cancelPending /\ ~d.processedCalls
              /\ Settle(IF d.executing THEN d ELSE SettleTurn(d), Rest)
           \/ /\ ~a.cancelPending /\ d.processedCalls /\ redispatch
              /\ Dispatch(d, Rest)
           \/ /\ ~a.cancelPending /\ d.processedCalls /\ ~redispatch
              /\ Settle(d, Rest)
    /\ GoOn

(* The reply only described an action: it is asked again, and the batch ends. *)
HandleIntention ==
    /\ Receive("done")
    /\ ~app.cancelPending /\ ~app.processedCalls /\ app.text
    /\ StartRequest([app EXCEPT !.attempts = 0], Rest, FALSE)
    /\ batch' = FALSE

(* Seeded fault: one retry too many.                                        *)
MayRetryOnceMore(a) ==
    ~a.cancelPending /\ ~a.executing /\ a.attempts <= MaxRetries
MayRetry(a) == ~a.cancelPending /\ ~a.executing /\ a.attempts < MaxRetries

HandleError ==
    /\ Receive("error")
    /\ LET a == [app EXCEPT !.attempts = 0, !.processing = FALSE]
       IN  \/ /\ MayRetry(app)
              /\ Settle([app EXCEPT !.attempts = @ + 1, !.processing = TRUE,
                                    !.retryAt = TRUE, !.text = FALSE], Rest)
           \/ Settle(CASE a.cancelPending ->
                              SettleCancellation([a EXCEPT !.active = 0])
                       [] ~a.cancelPending /\ a.executing ->
                              [a EXCEPT !.processing = TRUE]
                       [] OTHER -> SettleTurn(a), Rest)
    /\ GoOn

HandleEvent ==
    \/ HandleChunk \/ HandlePersist \/ HandleFailed \/ HandleCancelled
    \/ HandleToolCalls \/ HandleToolResult \/ HandleDone \/ HandleIntention
    \/ HandleError

-----------------------------------------------------------------------------
(* Retries, the user, and shutdown.                                        *)

RunDueRetry ==
    /\ ~batch /\ Running /\ app.retryAt /\ app.active = 0
    /\ StartRequest([app EXCEPT !.retryAt = FALSE], rx, TRUE)
    /\ UNCHANGED <<life, batch, prompts>>

AbandonRetry(a) == SettleTurn([a EXCEPT !.retryAt = FALSE, !.attempts = 0,
                                        !.processing = FALSE])

SendPrompt ==
    /\ InputReady /\ ~app.asking /\ FullyIdle(app)
    /\ prompts < MaxPrompts
    /\ prompts' = prompts + 1
    /\ StartRequest([app EXCEPT !.attempts = 0, !.turn = TRUE, !.active = 0],
                    rx, TRUE)
    /\ UNCHANGED <<life, batch>>

AnswerUser ==
    /\ InputReady /\ app.asking
    /\ LET a == [app EXCEPT !.asking = FALSE]
           c == app.pending
       IN  \/ Settle(a, IF c = NoCall THEN rx ELSE Append(rx, ResultOf(c)))
           \/ /\ SaveFaults
              /\ Settle([Answer(SettleTurn(a), {c}) EXCEPT
                             !.processing = FALSE, !.pending = NoCall], rx)
    /\ UNCHANGED <<life, batch, prompts>>

Approve(always) ==
    /\ InputReady /\ app.approval
    /\ Dispatch([app EXCEPT !.approval = FALSE, !.always = @ \/ always], rx)
    /\ UNCHANGED <<life, batch, prompts>>

(* Seeded fault: a denial leaves the call without a result.                 *)
DenyInSilence ==
    /\ InputReady /\ app.approval
    /\ Settle([app EXCEPT !.approval = FALSE, !.processing = TRUE], rx)
    /\ UNCHANGED <<life, batch, prompts>>

Deny ==
    /\ InputReady /\ app.approval
    /\ IF app.pending = NoCall
       THEN Settle([app EXCEPT !.approval = FALSE], rx)
       ELSE Settle([app EXCEPT !.approval = FALSE, !.processing = TRUE],
                   Append(rx, ResultOf(app.pending)))
    /\ UNCHANGED <<life, batch, prompts>>

(* settle_pending_interaction_with_result_checked, once it is persisted.    *)
Interaction(a) == a.approval \/ a.asking
SettleInteraction(a) ==
    IF ~Interaction(a) \/ a.pending = NoCall THEN a
    ELSE SettleTurn([Answer(a, {a.pending}) EXCEPT
            !.pending = NoCall, !.approval = FALSE, !.asking = FALSE,
            !.processing = FALSE, !.executing = FALSE,
            !.processedCalls = FALSE, !.dispatched = FALSE])

CancelWork ==
    /\ app' = [app EXCEPT !.cancelPending = TRUE, !.processing = TRUE]
    /\ cancelled' = cancelled \cup {token}
    /\ UNCHANGED <<rx, task, issued, tools, token, rooted, life, batch, prompts>>

Stop ==
    /\ InputReady
    /\ app.processing \/ app.executing \/ (app.turn /\ Interaction(app))
    /\ IF Interaction(app) /\ ~app.executing
       THEN /\ app.pending # NoCall
            /\ Settle([SettleInteraction(app) EXCEPT !.cancelPending = FALSE],
                      rx)
            /\ UNCHANGED <<life, batch, prompts>>
       ELSE IF ~app.executing /\ app.retryAt
       THEN Settle(AbandonRetry(app), rx) /\ UNCHANGED <<life, batch, prompts>>
       ELSE CancelWork

(* ShutdownCoordinator::begin, under RuntimeContext::begin_shutdown.        *)
BeginShutdown ==
    LET a      == SettleInteraction(app)
        active == a.active # 0 \/ a.processing \/ a.executing
    IN  /\ life' = [state |-> "Draining", shutdown |-> TRUE, signal |-> FALSE]
        /\ app' = IF active THEN [a EXCEPT !.cancelPending = TRUE,
                                           !.processing = TRUE] ELSE a
        /\ cancelled' = cancelled \cup rooted
                          \cup (IF active THEN {token} ELSE {})
        /\ UNCHANGED <<rx, task, issued, tools, token, rooted, batch, prompts>>

CtrlC ==
    /\ InputReady
    /\ IF ~Interaction(app) /\ (app.processing \/ app.executing)
       THEN /\ ~app.cancelPending
            /\ app' = [app EXCEPT !.cancelPending = TRUE]
            /\ cancelled' = cancelled \cup {token}
            /\ UNCHANGED <<rx, task, issued, tools, token, rooted, life,
                           batch, prompts>>
       ELSE BeginShutdown

(* The supervisor cancels the shutdown token, then queues the signal.       *)
SignalArrives ==
    /\ Signals /\ ~life.shutdown
    /\ life' = [life EXCEPT !.shutdown = TRUE]
    /\ cancelled' = cancelled \cup rooted
    /\ UNCHANGED <<app, rx, task, issued, tools, token, rooted, batch, prompts>>

QueueSignal ==
    /\ life.shutdown /\ Running /\ ~life.signal
    /\ life' = [life EXCEPT !.signal = TRUE]
    /\ UNCHANGED <<app, rx, work, batch, prompts>>

HandleSignal == ~batch /\ life.signal /\ Running /\ BeginShutdown

(* Quit in the palette; a lost terminal, server or signal listener.         *)
Exit == ~batch /\ Running /\ BeginShutdown

AbandonRetryAtShutdown ==
    /\ ~batch /\ DropsRetry
    /\ Settle(AbandonRetry(app), rx)
    /\ UNCHANGED <<life, batch, prompts>>

Contain ==
    /\ ~batch /\ MayContain
    /\ life' = [life EXCEPT !.state = "Contained"]
    /\ UNCHANGED <<app, rx, work, batch, prompts>>

-----------------------------------------------------------------------------
Client == \E r \in Requests : \/ ClientChunk(r) \/ ClientReply(r)
                              \/ ClientError(r) \/ ClientStopped(r)
                              \/ ClientEmit(r)

User == \/ SendPrompt \/ AnswerUser \/ Deny \/ Stop \/ CtrlC
        \/ Approve(FALSE) \/ (AllowAlways /\ Approve(TRUE))

Actor == \/ HandleEvent \/ RunDueRetry \/ HandleSignal \/ Exit
         \/ AbandonRetryAtShutdown \/ Contain

Next == Client \/ (\E t \in tools : ToolFinish(t)) \/ User \/ Actor
        \/ SignalArrives \/ QueueSignal

Spec == Init /\ [][Next]_vars

(* The actor loop and the signal supervisor keep running, a client task     *)
(* whose request is over or cancelled gets to its end, and a cancelled tool *)
(* stops.  Nothing is assumed of the user, nor of a model server or a tool  *)
(* that nobody cancelled.                                                   *)
CancelledToolFinish == \E t \in tools : t.token \in cancelled /\ ToolFinish(t)

Fairness ==
    /\ WF_vars(HandleEvent) /\ WF_vars(RunDueRetry) /\ WF_vars(Contain)
    /\ WF_vars(QueueSignal) /\ WF_vars(HandleSignal)
    /\ WF_vars(AbandonRetryAtShutdown)
    /\ WF_vars(CancelledToolFinish)
    /\ \A r \in Requests : WF_vars(ClientEmit(r)) /\ WF_vars(ClientStopped(r))

FairSpec == Spec /\ Fairness

-----------------------------------------------------------------------------
(* What must hold.                                                         *)

App == [processing : BOOLEAN, executing : BOOLEAN, processedCalls : BOOLEAN,
        dispatched : BOOLEAN, approval : BOOLEAN, asking : BOOLEAN,
        always : BOOLEAN, turn : BOOLEAN, text : BOOLEAN,
        cancelPending : BOOLEAN, retryAt : BOOLEAN, batches : BOOLEAN,
        attempts : 0 .. MaxRetries, pending : Calls \cup {NoCall},
        queued : Seq(Calls), active : Requests \cup {0},
        open : SUBSET Requests, called : SUBSET Calls, taken : SUBSET Calls,
        results : [Calls -> Nat]]
Life == [state : {"Running", "Draining", "Contained"}, shutdown : BOOLEAN,
         signal : BOOLEAN]

(* The shape of the state; in particular provider_retry_attempts never      *)
(* passes the configured number of retries.                                 *)
TypeOK ==
    /\ app \in App
    /\ rx \in Seq(Events)
    /\ task \in [Requests -> Tasks]
    /\ issued \in 0 .. MaxRequests
    /\ tools \subseteq [call : Calls, token : Tokens]
    /\ token \in Tokens /\ cancelled \subseteq Tokens /\ rooted \subseteq Tokens
    /\ life \in Life
    /\ batch \in BOOLEAN
    /\ prompts \in 0 .. MaxPrompts

(* The requests the model server is still working on, or whose client task  *)
(* waits for its terminal checkpoint.                                       *)
Live == {r \in Requests : task[r].state \in {"opening", "streaming", "waiting"}}

ResultQueued(c) ==
    \E i \in DOMAIN rx : rx[i].kind = "result" /\ rx[i].call = c

(* A call of the model gets at most one result in the transcript, whatever  *)
(* order the tool's end, a stop, a failed save, the user's answer and the   *)
(* shutdown come in (abandon_queued_tool_calls, ToolResult,                 *)
(* settle_pending_interaction): providers refuse a second result.           *)
AnsweredOnce == \A c \in Calls : app.results[c] <= 1

(* A liveness marker of a request (provider_request_turns) is only held for *)
(* a request whose client task has not had its terminal checkpoint, and the *)
(* active request has its marker: is_fully_idle cannot be pinned by a       *)
(* request that is over.                                                    *)
MarkerIsLive == app.open \subseteq Live /\ app.active \in app.open \cup {0}

(* A pending call is never orphaned: its prompt or question is shown, or    *)
(* its tool runs, or its result is on its way to the actor.                 *)
PendingOwned ==
    app.pending # NoCall =>
        \/ app.approval \/ app.asking
        \/ \E t \in tools : t.call = app.pending
        \/ ResultQueued(app.pending)

(* The executing flag, which keeps Lethetic from going idle, is only up     *)
(* while a tool runs or a result is queued: something will take it down.    *)
ExecutingOwned ==
    app.executing => tools # {} \/ \E i \in DOMAIN rx : rx[i].kind = "result"

(* Never two model requests, two tools, or one of each at the same time.    *)
OneWorker == Cardinality(Live) + Cardinality(tools) <= 1

(* The stop button works: what runs holds the token that a stop cancels     *)
(* (RuntimeContext.cancellation_token is replaced at every start).          *)
StopReaches ==
    AcceptsWork => /\ \A r \in Live : r = token
                   /\ \A t \in tools : t.token = token

(* The engine is never stuck: while it shows work or a pending cancellation *)
(* a client, a tool, an event or a scheduled retry is there to end it.      *)
BusyOwned ==
    AcceptsWork /\ (app.processing \/ app.cancelPending) =>
        \/ tools # {} \/ rx # <<>> \/ app.retryAt
        \/ \E r \in Requests : task[r].state \notin {"none", "ended"}

Starts == issued' # issued \/ ~(tools' \subseteq tools)

(* Once a cancellation is pending no request and no tool is started until   *)
(* it is settled, and a shutdown starts nothing.                            *)
NothingStarts == [][Starts => ~app.cancelPending /\ Running]_vars

(* The model is asked again only when every call that was admitted has      *)
(* exactly one result.                                                      *)
ResultsComplete ==
    [][issued' # issued => \A c \in app.taken : app'.results[c] = 1]_vars

(* The same for every call in the transcript, also those of a reply whose   *)
(* ToolCalls event was ignored because the turn was being cancelled.        *)
TranscriptComplete ==
    [][issued' # issued => \A c \in app.called : app'.results[c] >= 1]_vars

(* Of all that the engine does only this matters to the model: TurnPromise. *)
(* Whatever the user, a failed save or the shutdown come between, who works *)
(* is alone, and nothing is taken, answered or asked for meanwhile.         *)
Promise == INSTANCE TurnPromise WITH
    asked   <- Live # {},
    running <- {t.call : t \in tools},
    taken   <- app.taken,
    results <- app.results
KeepsTurnPromise == Promise!Spec

(* A cancellation is contained: it does not stay pending.                   *)
CancellationEnds == app.cancelPending ~> ~app.cancelPending

(* A shutdown that was asked for, by the user or by a signal, ends.         *)
ShutdownEnds == life.shutdown ~> life.state = "Contained"
=============================================================================
