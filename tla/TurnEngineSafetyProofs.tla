------------------------ MODULE TurnEngineSafetyProofs ------------------------
(* Safety theorems about TurnEngine.                                        *)
(*                                                                          *)
(* MarkerIsLive, ExecutingOwned and PendingOwned hold for every value of    *)
(* the constants.  Each of the three is inductive together with TypeOK.  It *)
(* is stated of the record, the tools and the queue a handler leaves behind *)
(* (Marked, Busy, Owned), once for each operator a handler ends with; a     *)
(* handler then only has to be shown to hand over a record that has it.     *)
(*                                                                          *)
(* OneWorker, AnsweredOnce, StopReaches and ResultsComplete follow from the *)
(* phases of a turn (TurnInv), where the engine is Orderly; BusyOwned and   *)
(* NothingStarts from what the flags promise in each phase (BusyInv,        *)
(* StartInv).  Each assumption on the constants is an exception that TLC    *)
(* finds to break the property.                                             *)
(*                                                                          *)
(* Last, an Orderly engine implements TurnPromise.                          *)
EXTENDS TurnEngineProofs, FiniteSetTheorems

-----------------------------------------------------------------------------
(* What the helpers leave alone.                                           *)

SameRequests(a, b) == b.open = a.open /\ b.active = a.active

(* The call may be dropped, nothing else about it changes.                  *)
SameCall(a, b) ==
    /\ b.executing = a.executing /\ b.approval = a.approval
    /\ b.asking = a.asking /\ b.pending \in {a.pending, NoCall}

(* Answering calls touches neither the requests nor the current call.        *)
LEMMA AnswerSame ==
    ASSUME NEW a \in App, NEW cs
    PROVE  SameRequests(a, Answer(a, cs)) /\ SameCall(a, Answer(a, cs))
  <1> DEFINE res == [c \in Calls |-> IF c \in cs THEN a.results[c] + 1
                                                 ELSE a.results[c]]
  <1>1. Answer(a, cs) = [a EXCEPT !.results = res]
    BY DEF Answer
  <1> HIDE DEF res
  <1> QED
    BY <1>1 DEF App, SameRequests, SameCall

(* Nor does settling the turn.                                               *)
LEMMA SettleTurnSame ==
    ASSUME NEW a \in App
    PROVE  /\ SameRequests(a, AbandonQueued(a)) /\ SameCall(a, AbandonQueued(a))
           /\ SameRequests(a, SettleTurn(a)) /\ SameCall(a, SettleTurn(a))
  <1> DEFINE b == Answer(a, ElemsOf(a.queued))
             d == AbandonQueued(a)
  <1>1. b \in App /\ SameRequests(a, b) /\ SameCall(a, b)
    BY AnswerType, AnswerSame
  <1>2. d = [b EXCEPT !.queued = <<>>]
    BY DEF AbandonQueued
  <1> HIDE DEF b
  <1>3. SameRequests(a, d) /\ SameCall(a, d)
    BY <1>1, <1>2 DEF App, SameRequests, SameCall
  <1>4. d \in App /\ SettleTurn(a) = [d EXCEPT !.turn = FALSE]
    BY AbandonType DEF SettleTurn
  <1> HIDE DEF d
  <1>5. SameRequests(a, SettleTurn(a)) /\ SameCall(a, SettleTurn(a))
    BY <1>3, <1>4 DEF App, SameRequests, SameCall
  <1> QED
    BY <1>3, <1>5 DEF d

(* Settling a cancellation at most drops the current call.                   *)
LEMMA CancellationSame ==
    ASSUME NEW a \in App
    PROVE  /\ SameRequests(a, SettleCancellation(a))
           /\ SameCall(a, SettleCancellation(a))
  <1> DEFINE b == [a EXCEPT !.cancelPending = FALSE, !.processing = FALSE,
                            !.processedCalls = FALSE, !.dispatched = FALSE,
                            !.pending = NoCall, !.text = FALSE]
             d == [a EXCEPT !.processing = TRUE, !.text = FALSE]
  <1>1. b \in App /\ SameRequests(a, b) /\ SameCall(a, b)
    BY ZenonT(60) DEF App, SameRequests, SameCall
  <1>2. SameRequests(a, d) /\ SameCall(a, d)
    BY DEF App, SameRequests, SameCall
  <1>3. SettleCancellation(a) = IF a.executing THEN d ELSE SettleTurn(b)
    BY DEF SettleCancellation
  <1> HIDE DEF b, d
  <1>4. SameRequests(b, SettleTurn(b)) /\ SameCall(b, SettleTurn(b))
    BY <1>1, SettleTurnSame
  <1> QED
    BY <1>1, <1>2, <1>3, <1>4 DEF SameRequests, SameCall

Closed(a, b, r) ==
    b.open = a.open \ {r} /\ b.active = IF a.active = r THEN 0 ELSE a.active

(* Closing a marker closes that of its request alone.                        *)
LEMMA CloseSame ==
    ASSUME NEW a \in App, NEW r
    PROVE  Closed(a, CloseMarker(a, r), r) /\ SameCall(a, CloseMarker(a, r))
  BY DEF CloseMarker, App, Closed, SameCall

(* So does the handling of a failed settlement.                              *)
LEMMA FailedSame ==
    ASSUME NEW a \in App, NEW r
    PROVE  /\ Closed(a, SettlementFailed(a, r), r)
           /\ SameCall(a, SettlementFailed(a, r))
  <1> DEFINE b == CloseMarker(a, r)
             d == [b EXCEPT !.processing = FALSE, !.pending = NoCall,
                            !.text = FALSE]
             e == [b EXCEPT !.processing = TRUE]
  <1>1. b \in App /\ Closed(a, b, r) /\ SameCall(a, b)
    BY CloseType, CloseSame
  <1>2. SettlementFailed(a, r) \in {b, SettleCancellation(b), e, SettleTurn(d)}
    BY DEF SettlementFailed
  <1> HIDE DEF b
  <1>3. /\ d \in App /\ SameRequests(b, d) /\ SameCall(b, d)
        /\ SameRequests(b, e) /\ SameCall(b, e)
    BY <1>1, ZenonT(60) DEF App, SameRequests, SameCall
  <1> HIDE DEF d, e
  <1>4. /\ SameRequests(d, SettleTurn(d)) /\ SameCall(d, SettleTurn(d))
        /\ SameRequests(b, SettleCancellation(b))
        /\ SameCall(b, SettleCancellation(b))
    BY <1>1, <1>3, SettleTurnSame, CancellationSame
  <1> QED
    BY <1>1, <1>2, <1>3, <1>4 DEF SameRequests, SameCall, Closed

(* Dropping a retry touches neither the requests nor the call.               *)
LEMMA AbandonRetrySame ==
    ASSUME NEW a \in App
    PROVE  SameRequests(a, AbandonRetry(a)) /\ SameCall(a, AbandonRetry(a))
  <1> DEFINE b == [a EXCEPT !.attempts = 0]
             d == [b EXCEPT !.retryAt = FALSE, !.processing = FALSE]
             e == [a EXCEPT !.retryAt = FALSE, !.attempts = 0,
                            !.processing = FALSE]
  <1>1. b \in App
    BY ResetAttempts
  <1>2. d = e /\ SameRequests(a, e) /\ SameCall(a, e)
    BY DEF App, SameRequests, SameCall
  <1> HIDE DEF b
  <1>3. d \in App
    BY <1>1 DEF App
  <1>4. AbandonRetry(a) = SettleTurn(e)
    BY DEF AbandonRetry
  <1> HIDE DEF d, e
  <1>5. SameRequests(d, SettleTurn(d)) /\ SameCall(d, SettleTurn(d))
    BY <1>3, SettleTurnSame
  <1> QED
    BY <1>2, <1>4, <1>5 DEF SameRequests, SameCall

(* Cancelling an interaction drops the pending call as a whole.              *)
LEMMA InteractionSame ==
    ASSUME NEW a \in App
    PROVE  LET b == SettleInteraction(a)
           IN  /\ SameRequests(a, b)
               /\ SameCall(a, b) \/ (b.pending = NoCall /\ ~b.executing)
  <1> DEFINE b == Answer(a, {a.pending})
             d == [b EXCEPT
                     !.pending = NoCall, !.approval = FALSE, !.asking = FALSE,
                     !.processing = FALSE, !.executing = FALSE,
                     !.processedCalls = FALSE, !.dispatched = FALSE]
  <1>1. b \in App /\ SameRequests(a, b)
    BY AnswerType, AnswerSame
  <1>2. SettleInteraction(a) \in {a, SettleTurn(d)}
    BY DEF SettleInteraction
  <1> HIDE DEF b
  <1>3. d \in App /\ SameRequests(b, d) /\ d.pending = NoCall /\ ~d.executing
    BY <1>1, ZenonT(60) DEF App, SameRequests
  <1> HIDE DEF d
  <1>4. SameRequests(d, SettleTurn(d)) /\ SameCall(d, SettleTurn(d))
    BY <1>3, SettleTurnSame
  <1> QED
    BY <1>1, <1>2, <1>3, <1>4 DEF SameRequests, SameCall

-----------------------------------------------------------------------------
(* The inductive invariant, of a record a and a queue q.                   *)

HasResult(q)   == \E i \in DOMAIN q : q[i].kind = "result"
HasResultOf(q, c) ==
    \E i \in DOMAIN q : q[i].kind = "result" /\ q[i].call = c

Marked(a)   == a.open \subseteq Live /\ a.active \in a.open \cup {0}
Busy(a, q)  == a.executing => tools # {} \/ HasResult(q)
Owned(a, q) ==
    a.pending # NoCall =>
        \/ a.approval \/ a.asking
        \/ \E t \in tools : t.call = a.pending
        \/ HasResultOf(q, a.pending)
Good(a, q)  == Marked(a) /\ Busy(a, q) /\ Owned(a, q)

IInv == MarkerIsLive /\ ExecutingOwned /\ PendingOwned

(* IInv is Good of the current state.                                        *)
LEMMA GoodNow == IInv <=> Good(app, rx)
  BY DEF IInv, Good, Marked, Busy, Owned, MarkerIsLive, ExecutingOwned,
         PendingOwned, HasResult, HasResultOf, ResultQueued

(* A step that leaves a good record and the workers has IInv after it.       *)
LEMMA GoodNext ==
    ASSUME UNCHANGED tools, Live' = Live, Good(app', rx')
    PROVE  IInv'
  BY DEF IInv, Good, Marked, Busy, Owned, MarkerIsLive, ExecutingOwned,
         PendingOwned, HasResult, HasResultOf, ResultQueued

(* Good survives a helper that touches neither requests nor call,            *)
LEMMA GoodSame ==
    ASSUME NEW a, NEW b, NEW q, Good(a, q), SameRequests(a, b), SameCall(a, b)
    PROVE  Good(b, q)
  BY DEF Good, Marked, Busy, Owned, SameRequests, SameCall

(* and one that closes a request.                                            *)
LEMMA GoodClosed ==
    ASSUME NEW a, NEW b, NEW q, NEW r, Good(a, q), Closed(a, b, r),
           SameCall(a, b)
    PROVE  Good(b, q)
  BY DEF Good, Marked, Busy, Owned, Closed, SameCall

(* A result that is queued is in the queue.                                  *)
LEMMA ResultAppended ==
    ASSUME NEW q \in Seq(Events), NEW c \in Calls
    PROVE  HasResultOf(Append(q, ResultOf(c)), c)
           /\ HasResult(Append(q, ResultOf(c)))
  <1> DEFINE n == Len(q) + 1
             s == Append(q, ResultOf(c))
  <1>1. ResultOf(c) \in Events
    BY ResultType
  <1>2. n \in DOMAIN s /\ s[n] = ResultOf(c)
    BY <1>1
  <1>3. ResultOf(c).kind = "result" /\ ResultOf(c).call = c
    BY DEF ResultOf
  <1> QED
    BY <1>2, <1>3 DEF HasResultOf, HasResult

(* Queueing several events loses no result.                                  *)
LEMMA ConcatKeeps ==
    ASSUME NEW q \in Seq(Events), NEW s \in Seq(Events), NEW c
    PROVE  /\ HasResult(q) => HasResult(q \o s)
           /\ HasResultOf(q, c) => HasResultOf(q \o s, c)
  <1>1. \A i \in DOMAIN q : i \in DOMAIN (q \o s) /\ (q \o s)[i] = q[i]
    OBVIOUS
  <1> QED
    BY <1>1 DEF HasResult, HasResultOf

(* Queueing one event loses no result.                                       *)
LEMMA AppendKeeps ==
    ASSUME NEW q \in Seq(Events), NEW e \in Events, NEW c
    PROVE  /\ HasResult(q) => HasResult(Append(q, e))
           /\ HasResultOf(q, c) => HasResultOf(Append(q, e), c)
  <1>1. \A i \in DOMAIN q : i \in DOMAIN Append(q, e) /\ Append(q, e)[i] = q[i]
    OBVIOUS
  <1> QED
    BY <1>1 DEF HasResult, HasResultOf

(* Taking another event off the queue loses no result.                       *)
LEMMA TailKeeps ==
    ASSUME NEW q \in Seq(Events), q # <<>>, Head(q).kind # "result", NEW c
    PROVE  /\ HasResult(q) => HasResult(Tail(q))
           /\ HasResultOf(q, c) => HasResultOf(Tail(q), c)
  <1>1. ASSUME NEW i \in DOMAIN q, q[i].kind = "result"
        PROVE  i - 1 \in DOMAIN Tail(q) /\ Tail(q)[i - 1] = q[i]
    <2>1. i \in 1 .. Len(q) /\ i # 1
      BY <1>1
    <2>2. i - 1 \in 1 .. Len(Tail(q)) /\ (i - 1) + 1 = i
      BY <2>1
    <2> QED
      BY <2>2
  <1> QED
    BY <1>1 DEF HasResult, HasResultOf

(* The record is still good once such an event was received.                 *)
LEMMA RestGood ==
    ASSUME TypeOK, IInv, NEW kind, kind # "result", Receive(kind)
    PROVE  Good(app, Rest)
  <1>1. rx \in Seq(Events) /\ rx # <<>> /\ Head(rx).kind # "result"
    BY DEF TypeOK, Receive
  <1>2. Good(app, rx)
    BY GoodNow
  <1> QED
    BY <1>1, <1>2, TailKeeps DEF Good, Busy, Owned, Rest

-----------------------------------------------------------------------------
(* The operators a handler ends with, handed a good record.                 *)

LEMMA SettleGood ==
    ASSUME NEW a, NEW q, Settle(a, q), Good(a, q)
    PROVE  IInv'
  <1>1. UNCHANGED tools /\ Live' = Live /\ app' = a /\ rx' = q
    BY DEF Settle, work, Live
  <1> QED
    BY <1>1, GoodNext

(* A handler that ends by starting a request leaves IInv,                    *)
LEMMA StartGood ==
    ASSUME WorkOK, NEW a \in App, NEW q \in Seq(Events), NEW child,
           StartRequest(a, q, child), Good(a, q)
    PROVE  IInv'
  <1> DEFINE r    == issued + 1
             base == [a EXCEPT !.processing = TRUE, !.processedCalls = FALSE,
                               !.dispatched = FALSE, !.text = FALSE]
             b    == [base EXCEPT !.processing = FALSE]
             d    == [base EXCEPT !.active = r, !.open = @ \cup {r}]
  <1>1. base \in App /\ SameRequests(a, base) /\ SameCall(a, base)
    BY DEF App, SameRequests, SameCall
  <1>2. /\ rx' = q /\ UNCHANGED tools
        /\ \/ app' = SettleTurn(b) /\ UNCHANGED task
           \/ /\ r <= MaxRequests
              /\ app' = d
              /\ task' = [task EXCEPT ![r].state = "opening"]
    BY DEF StartRequest
  <1> HIDE DEF base
  <1>3. CASE app' = SettleTurn(b) /\ UNCHANGED task
    <2>1. b \in App /\ SameRequests(base, b) /\ SameCall(base, b)
      BY ZenonT(60), <1>1 DEF App, SameRequests, SameCall
    <2> HIDE DEF b
    <2>2. SameRequests(b, SettleTurn(b)) /\ SameCall(b, SettleTurn(b))
      BY <2>1, SettleTurnSame
    <2>3. Good(SettleTurn(b), q)
      BY <1>1, <2>1, <2>2, GoodSame
    <2>4. Live' = Live
      BY <1>3 DEF Live
    <2> QED
      BY <1>2, <1>3, <2>3, <2>4, GoodNext
  <1>4. CASE /\ r <= MaxRequests
             /\ app' = d
             /\ task' = [task EXCEPT ![r].state = "opening"]
    <2>1. r \in Requests
      BY <1>4, BoundAssumption DEF WorkOK, Requests
    <2>2. /\ d.active = r /\ d.open = base.open \cup {r}
          /\ SameCall(base, d)
      BY <1>1 DEF App, SameCall
    <2>3. Live \cup {r} \subseteq Live'
      BY <1>4, <2>1 DEF Live, WorkOK, Tasks
    <2> HIDE DEF d, r
    <2>4. Good(base, q)
      BY <1>1, GoodSame
    <2>5. MarkerIsLive'
      BY <1>4, <2>2, <2>3, <2>4 DEF MarkerIsLive, Good, Marked
    <2>6. ExecutingOwned' /\ PendingOwned'
      BY <1>2, <1>4, <2>2, <2>4
         DEF Good, Busy, Owned, SameCall, ExecutingOwned, PendingOwned,
             HasResult, HasResultOf, ResultQueued
    <2> QED
      BY <2>5, <2>6 DEF IInv
  <1> QED
    BY <1>2, <1>3, <1>4

(* one that ends by dispatching the pending tool,                            *)
LEMMA DispatchGood ==
    ASSUME NEW a \in App, NEW q \in Seq(Events),
           Dispatch(a, q), Marked(a), Busy(a, q)
    PROVE  IInv'
  <1>1. CASE a.pending = NoCall /\ Settle(a, q)
    <2>1. Good(a, q)
      BY <1>1 DEF Good, Owned
    <2> QED
      BY <1>1, <2>1, SettleGood
  <1> SUFFICES ASSUME a.pending # NoCall
               PROVE  IInv'
    BY <1>1 DEF Dispatch
  <1>2. a.pending \in Calls
    BY DEF App
  <1>3. CASE /\ app' = [a EXCEPT !.executing = TRUE, !.dispatched = TRUE,
                                 !.processing = TRUE]
             /\ tools' = tools \cup {[call |-> a.pending, token |-> token]}
             /\ UNCHANGED task
    <2>1. app'.pending = a.pending /\ SameRequests(a, app')
      BY <1>3 DEF App, SameRequests
    <2>2. \E t \in tools' : t.call = a.pending
      <3>1. [call |-> a.pending, token |-> token] \in tools'
        BY <1>3
      <3>2. [call |-> a.pending, token |-> token].call = a.pending
        OBVIOUS
      <3> QED
        BY <3>1, <3>2
    <2>3. Live' = Live
      BY <1>3 DEF Live
    <2> QED
      BY <2>1, <2>2, <2>3 DEF IInv, Marked, SameRequests, MarkerIsLive,
                              ExecutingOwned, PendingOwned
  <1>4. ASSUME NEW b, NEW s, Settle(b, s), SameRequests(a, b),
               b.executing = a.executing,
               HasResult(q) => HasResult(s),
               b.pending = NoCall \/ HasResultOf(s, b.pending)
        PROVE  IInv'
    <2>1. Good(b, s)
      BY <1>4 DEF Good, Marked, Busy, Owned, SameRequests
    <2> QED
      BY <1>4, <2>1, SettleGood
  <1>5. CASE Settle([a EXCEPT !.processing = TRUE, !.dispatched = TRUE,
                              !.approval = FALSE],
                    Append(q, ResultOf(a.pending)))
    <2> DEFINE b == [a EXCEPT !.processing = TRUE, !.dispatched = TRUE,
                              !.approval = FALSE]
               s == Append(q, ResultOf(a.pending))
    <2>1. SameRequests(a, b) /\ b.executing = a.executing
          /\ b.pending = a.pending
      BY DEF App, SameRequests
    <2>2. HasResult(s) /\ HasResultOf(s, a.pending)
      BY <1>2, ResultAppended
    <2> HIDE DEF b, s
    <2> QED
      BY <1>4, <1>5, <2>1, <2>2 DEF b, s
  <1>6. CASE Settle([Answer(SettleTurn(a), {a.pending}) EXCEPT
                         !.pending = NoCall, !.processing = FALSE,
                         !.dispatched = TRUE, !.approval = FALSE], q)
    <2> DEFINE b == Answer(SettleTurn(a), {a.pending})
               d == [b EXCEPT !.pending = NoCall, !.processing = FALSE,
                              !.dispatched = TRUE, !.approval = FALSE]
    <2>1. /\ SettleTurn(a) \in App /\ SameRequests(a, SettleTurn(a))
          /\ SameCall(a, SettleTurn(a))
      BY SettleTurnType, SettleTurnSame
    <2>2. b \in App /\ SameRequests(a, b) /\ b.executing = a.executing
      BY <2>1, AnswerType, AnswerSame DEF SameRequests, SameCall
    <2>3. Settle(d, q)
      BY <1>6
    <2> HIDE DEF b
    <2>4. SameRequests(a, d) /\ d.executing = a.executing /\ d.pending = NoCall
      BY <2>2 DEF App, SameRequests
    <2> HIDE DEF d
    <2> QED
      BY <1>4, <2>3, <2>4
  <1> QED
    BY <1>3, <1>5, <1>6 DEF Dispatch

(* one that ends by beginning a call,                                        *)
LEMMA BeginGood ==
    ASSUME NEW a0 \in App, NEW q \in Seq(Events), NEW c \in Calls,
           BeginCall(c, a0, q), Marked(a0), Busy(a0, q)
    PROVE  IInv'
  <1> DEFINE a == [a0 EXCEPT !.pending = c]
  <1>1. /\ a \in App /\ SameRequests(a0, a) /\ a.executing = a0.executing
        /\ a.pending = c
    BY DEF App, SameRequests
  <1>2. Marked(a) /\ Busy(a, q)
    BY <1>1 DEF Marked, Busy, SameRequests
  <1>3. \/ Settle([a EXCEPT !.processing = TRUE, !.dispatched = TRUE],
                  Append(q, ResultOf(c)))
        \/ Settle(SettleTurn([Answer(a, {c}) EXCEPT
                         !.pending = NoCall, !.dispatched = TRUE,
                         !.processing = FALSE, !.approval = FALSE]), q)
        \/ Settle([a EXCEPT !.asking = TRUE, !.processing = FALSE], q)
        \/ Settle([a EXCEPT !.approval = TRUE, !.processing = FALSE], q)
        \/ Dispatch(a, q)
    BY DEF BeginCall
  <1> HIDE DEF a
  <1>4. CASE Settle([a EXCEPT !.processing = TRUE, !.dispatched = TRUE],
                    Append(q, ResultOf(c)))
    <2> DEFINE b == [a EXCEPT !.processing = TRUE, !.dispatched = TRUE]
               s == Append(q, ResultOf(c))
    <2>1. SameRequests(a, b) /\ b.pending = c
      BY <1>1 DEF App, SameRequests
    <2>2. HasResult(s) /\ HasResultOf(s, c)
      BY ResultAppended
    <2> HIDE DEF b, s
    <2>3. Good(b, s)
      BY <1>2, <2>1, <2>2 DEF Good, Marked, Busy, Owned, SameRequests
    <2> QED
      BY <1>4, <2>3, SettleGood DEF b, s
  <1>5. CASE Settle(SettleTurn([Answer(a, {c}) EXCEPT
                         !.pending = NoCall, !.dispatched = TRUE,
                         !.processing = FALSE, !.approval = FALSE]), q)
    <2> DEFINE b == Answer(a, {c})
               d == [b EXCEPT !.pending = NoCall, !.dispatched = TRUE,
                              !.processing = FALSE, !.approval = FALSE]
    <2>1. b \in App /\ SameRequests(a, b) /\ b.executing = a.executing
      BY <1>1, AnswerType, AnswerSame DEF SameCall
    <2>2. Settle(SettleTurn(d), q)
      BY <1>5
    <2> HIDE DEF b
    <2>3. /\ d \in App /\ SameRequests(b, d) /\ d.executing = b.executing
          /\ d.pending = NoCall
      BY <2>1 DEF App, SameRequests
    <2> HIDE DEF d
    <2>4. SameRequests(d, SettleTurn(d)) /\ SameCall(d, SettleTurn(d))
      BY <2>3, SettleTurnSame
    <2>5. Good(SettleTurn(d), q)
      BY <1>2, <2>1, <2>3, <2>4
         DEF Good, Marked, Busy, Owned, SameRequests, SameCall
    <2> QED
      BY <2>2, <2>5, SettleGood
  <1>6. CASE \/ Settle([a EXCEPT !.asking = TRUE, !.processing = FALSE], q)
             \/ Settle([a EXCEPT !.approval = TRUE, !.processing = FALSE], q)
    <2> DEFINE b == [a EXCEPT !.asking = TRUE, !.processing = FALSE]
               d == [a EXCEPT !.approval = TRUE, !.processing = FALSE]
    <2>1. /\ SameRequests(a, b) /\ b.executing = a.executing /\ b.asking
          /\ SameRequests(a, d) /\ d.executing = a.executing /\ d.approval
      BY <1>1 DEF App, SameRequests
    <2>2. Settle(b, q) \/ Settle(d, q)
      BY <1>6
    <2> HIDE DEF b, d
    <2>3. Good(b, q) /\ Good(d, q)
      BY <1>2, <2>1 DEF Good, Marked, Busy, Owned, SameRequests
    <2> QED
      BY <2>2, <2>3, SettleGood
  <1>7. CASE Dispatch(a, q)
    BY <1>1, <1>2, <1>7, DispatchGood
  <1> QED
    BY <1>3, <1>4, <1>5, <1>6, <1>7

(* and one that ends by admitting the calls of a reply.                      *)
LEMMA CallsGood ==
    ASSUME NEW a0 \in App, NEW q \in Seq(Events), NEW cs \in Seq(Calls),
           HandleCalls(cs, a0, q), Good(a0, q)
    PROVE  IInv'
  <1> DEFINE a == [a0 EXCEPT !.processedCalls = TRUE]
             b == [a EXCEPT !.processing = FALSE]
             d == [a EXCEPT !.pending = NoCall, !.approval = FALSE,
                            !.asking = FALSE, !.processing = FALSE,
                            !.executing = FALSE, !.dispatched = FALSE,
                            !.called = @ \ ElemsOf(cs)]
             e == [a EXCEPT !.queued = Tail(cs), !.called = @ \cup ElemsOf(cs),
                            !.taken = @ \cup ElemsOf(cs)]
  <1>1. a \in App /\ SameRequests(a0, a) /\ SameCall(a0, a)
    BY DEF App, SameRequests, SameCall
  <1>2. Good(a, q)
    BY <1>1, GoodSame
  <1>3. \/ Settle(SettleTurn(b), q) \/ Settle(SettleTurn(d), q)
        \/ cs # <<>> /\ BeginCall(Head(cs), e, q)
    BY DEF HandleCalls
  <1>4. ElemsOf(cs) \subseteq Calls
    BY DEF ElemsOf
  <1> HIDE DEF a
  <1>5. /\ b \in App /\ SameRequests(a, b) /\ SameCall(a, b)
        /\ d \in App /\ SameRequests(a, d) /\ ~d.executing /\ d.pending = NoCall
    <2>1. b \in App /\ SameRequests(a, b) /\ SameCall(a, b)
      BY ZenonT(60), <1>1 DEF App, SameRequests, SameCall
    <2>2. d \in App
      BY <1>1, ZenonT(60) DEF App
    <2>3. SameRequests(a, d) /\ ~d.executing /\ d.pending = NoCall
      BY <1>1 DEF App, SameRequests
    <2> HIDE DEF b, d
    <2> QED
      BY <2>1, <2>2, <2>3
  <1>6. cs # <<>> => /\ Head(cs) \in Calls
                     /\ e \in App /\ SameRequests(a, e) /\ SameCall(a, e)
    <2>1. cs # <<>> => Head(cs) \in Calls /\ Tail(cs) \in Seq(Calls)
      OBVIOUS
    <2> QED
      BY <1>1, <1>4, <2>1 DEF App, SameRequests, SameCall
  <1> HIDE DEF b, d, e
  <1>7. Good(SettleTurn(b), q)
    BY <1>2, <1>5, SettleTurnSame, GoodSame
  <1>8. Good(SettleTurn(d), q)
    <2>1. Good(d, q)
      BY <1>2, <1>5 DEF Good, Marked, Busy, Owned, SameRequests
    <2> QED
      BY <1>5, <2>1, SettleTurnSame, GoodSame
  <1>9. cs # <<>> => Good(e, q)
    BY <1>2, <1>6, GoodSame
  <1> QED
    BY <1>3, <1>6, <1>7, <1>8, <1>9, SettleGood, BeginGood DEF Good

-----------------------------------------------------------------------------
(* Every event handler keeps the invariant.                                *)

LEMMA ChunkGood == TypeOK /\ IInv /\ HandleChunk => IInv'
  <1> SUFFICES ASSUME TypeOK, IInv, HandleChunk PROVE IInv'
    OBVIOUS
  <1> DEFINE b == [app EXCEPT !.text = TRUE]
             d == [app EXCEPT !.text = TRUE, !.cancelPending = TRUE]
  <1>1. Good(app, Rest)
    BY RestGood DEF HandleChunk
  <1>2. /\ SameRequests(app, b) /\ SameCall(app, b)
        /\ SameRequests(app, d) /\ SameCall(app, d)
    BY DEF TypeOK, App, SameRequests, SameCall
  <1>3. \/ Settle(b, Rest) \/ Settle(app, Rest)
        \/ app' = d /\ rx' = Rest /\ UNCHANGED <<task, tools>>
    BY DEF HandleChunk
  <1> HIDE DEF b, d
  <1>4. Good(b, Rest) /\ Good(d, Rest)
    BY <1>1, <1>2, GoodSame
  <1>5. CASE app' = d /\ rx' = Rest /\ UNCHANGED <<task, tools>>
    <2>1. Live' = Live
      BY <1>5 DEF Live
    <2> QED
      BY <1>4, <1>5, <2>1, GoodNext
  <1> QED
    BY <1>1, <1>3, <1>4, <1>5, SettleGood

(* The checkpoint ends the request's client task as far as Live goes, and   *)
(* its marker is closed in the same step.                                   *)
LEMMA PersistGood == TypeOK /\ IInv /\ HandlePersist => IInv'
  <1> SUFFICES ASSUME TypeOK, IInv, HandlePersist PROVE IInv'
    OBVIOUS
  <1> DEFINE b == CloseMarker(app, Req)
             d == [b EXCEPT !.called = @ \cup ElemsOf(CallsOf(Req))]
  <1>1. Good(app, Rest)
    BY RestGood DEF HandlePersist
  <1>2. app \in App /\ Req \in Requests
    BY ReceiveType DEF HandlePersist, TypeOK
  <1>3. b \in App /\ Closed(app, b, Req) /\ SameCall(app, b)
    BY <1>2, CloseType, CloseSame
  <1>4. /\ rx' = Rest /\ UNCHANGED tools
        /\ app' = d \/ app' = SettlementFailed(app, Req)
    BY DEF HandlePersist
  <1>5. \E s \in {"acked", "refused"} : task' = [task EXCEPT ![Req].state = s]
    BY DEF HandlePersist, SetState
  <1> HIDE DEF b
  <1>6. Closed(app, app', Req) /\ SameCall(app, app')
    <2>1. SameRequests(b, d) /\ SameCall(b, d)
      BY <1>3 DEF App, SameRequests, SameCall
    <2> HIDE DEF d
    <2>2. Closed(app, d, Req) /\ SameCall(app, d)
      BY <1>3, <2>1 DEF SameRequests, SameCall, Closed
    <2> QED
      BY <1>2, <1>4, <2>2, FailedSame
  <1>7. Live \ {Req} \subseteq Live'
    BY <1>5 DEF Live, TypeOK
  <1>8. MarkerIsLive'
    BY <1>1, <1>6, <1>7 DEF Good, Marked, Closed, MarkerIsLive
  <1>9. ExecutingOwned' /\ PendingOwned'
    BY <1>1, <1>4, <1>6 DEF Good, Busy, Owned, SameCall, ExecutingOwned,
       PendingOwned, HasResult, HasResultOf, ResultQueued
  <1> QED
    BY <1>8, <1>9 DEF IInv

(* A failed and a cancelled request leave IInv.                              *)
LEMMA SettlementGood ==
    TypeOK /\ IInv /\ (HandleFailed \/ HandleCancelled) => IInv'
  <1> SUFFICES ASSUME TypeOK, IInv, HandleFailed \/ HandleCancelled
               PROVE  IInv'
    OBVIOUS
  <1> DEFINE b == CloseMarker(app, Req)
  <1>1. Good(app, Rest) /\ app \in App
    BY RestGood DEF HandleFailed, HandleCancelled, TypeOK
  <1>2. \/ Settle(SettlementFailed(app, Req), Rest)
        \/ Settle(SettleCancellation(b), Rest) \/ Settle(b, Rest)
    BY DEF HandleFailed, HandleCancelled
  <1>3. b \in App /\ Good(b, Rest)
    BY <1>1, CloseType, CloseSame, GoodClosed
  <1> HIDE DEF b
  <1>4. Good(SettleCancellation(b), Rest)
    BY <1>3, CancellationSame, GoodSame
  <1>5. Good(SettlementFailed(app, Req), Rest)
    BY <1>1, FailedSame, GoodClosed
  <1> QED
    BY <1>2, <1>3, <1>4, <1>5, SettleGood

(* The calls of a reply leave IInv.                                          *)
LEMMA ToolCallsGood == TypeOK /\ IInv /\ HandleToolCalls => IInv'
  <1> SUFFICES ASSUME TypeOK, IInv, HandleToolCalls PROVE IInv'
    OBVIOUS
  <1>1. Good(app, Rest) /\ app \in App
    BY RestGood DEF HandleToolCalls, TypeOK
  <1>2. Rest \in Seq(Events) /\ Req \in Requests
    BY ReceiveType DEF HandleToolCalls
  <1>3. CallsOf(Req) \in Seq(Calls)
    BY <1>2, CallsOfType DEF TypeOK
  <1> QED
    BY <1>1, <1>2, <1>3, SettleGood, CallsGood DEF HandleToolCalls

(* The result ends the call that was pending; the next call of the batch,   *)
(* or the next request, starts from a record that is neither executing nor  *)
(* waiting.                                                                 *)
LEMMA ToolResultGood == TypeOK /\ IInv /\ HandleToolResult => IInv'
  <1> SUFFICES ASSUME TypeOK, IInv, HandleToolResult PROVE IInv'
    OBVIOUS
  <1> DEFINE z == Answer(app, {Head(rx).call})
             a == [z EXCEPT !.executing = FALSE, !.pending = NoCall]
             y == AbandonQueued(a)
             b == [y EXCEPT !.processedCalls = FALSE, !.dispatched = FALSE,
                            !.text = FALSE]
             d == [b EXCEPT !.cancelPending = FALSE, !.processing = FALSE]
             n == [a EXCEPT !.queued = Tail(@), !.dispatched = FALSE,
                            !.processing = TRUE]
  <1>1. app \in App /\ WorkOK /\ Good(app, rx)
    BY GoodNow DEF TypeOK, WorkOK
  <1>2. Rest \in Seq(Events)
    BY ReceiveType DEF HandleToolResult
  <1>3. \/ a.queued # <<>> /\ BeginCall(Head(a.queued), n, Rest)
        \/ Settle(b, Rest) \/ Settle(SettleTurn(d), Rest)
        \/ StartRequest(a, Rest, FALSE)
    BY DEF HandleToolResult
  <1>4. z \in App /\ SameRequests(app, z)
    BY <1>1, AnswerType, AnswerSame
  <1> HIDE DEF z
  <1>5. a \in App /\ SameRequests(z, a) /\ ~a.executing /\ a.pending = NoCall
    BY <1>4 DEF App, SameRequests
  <1> HIDE DEF a
  <1>6. Good(a, Rest)
    BY <1>1, <1>4, <1>5 DEF Good, Marked, Busy, Owned, SameRequests
  <1>7. y \in App /\ Good(y, Rest)
    BY <1>5, <1>6, AbandonType, SettleTurnSame, GoodSame
  <1> HIDE DEF y
  <1>8. b \in App /\ SameRequests(y, b) /\ SameCall(y, b)
    BY <1>7 DEF App, SameRequests, SameCall
  <1>9. Good(b, Rest)
    BY <1>7, <1>8, GoodSame
  <1> HIDE DEF b
  <1>10. d \in App /\ SameRequests(b, d) /\ SameCall(b, d)
    BY <1>8 DEF App, SameRequests, SameCall
  <1> HIDE DEF d
  <1>11. Good(SettleTurn(d), Rest)
    BY <1>9, <1>10, SettleTurnSame, GoodSame
  <1>12. a.queued # <<>> => /\ Head(a.queued) \in Calls
                            /\ n \in App /\ SameRequests(a, n) /\ SameCall(a, n)
    <2>1. a.queued \in Seq(Calls)
      BY <1>5 DEF App
    <2>2. a.queued # <<>> =>
              Head(a.queued) \in Calls /\ Tail(a.queued) \in Seq(Calls)
      BY <2>1
    <2> QED
      BY <1>5, <2>2 DEF App, SameRequests, SameCall
  <1> HIDE DEF n
  <1>13. a.queued # <<>> => Good(n, Rest)
    BY <1>6, <1>12, GoodSame
  <1>14. CASE a.queued # <<>> /\ BeginCall(Head(a.queued), n, Rest)
    BY <1>2, <1>12, <1>13, <1>14, BeginGood DEF Good
  <1> QED
    BY <1>1, <1>2, <1>3, <1>5, <1>6, <1>9, <1>11, <1>14, SettleGood, StartGood

(* The end of a reply leaves IInv.                                           *)
LEMMA DoneGood == TypeOK /\ IInv /\ HandleDone => IInv'
  <1> SUFFICES ASSUME TypeOK, IInv, HandleDone PROVE IInv'
    OBVIOUS
  <1> DEFINE a == [app EXCEPT !.attempts = 0]
             d == [a EXCEPT !.processing = FALSE]
             e == [a EXCEPT !.active = IF @ = Req THEN 0 ELSE @]
  <1>1. Good(app, Rest) /\ app \in App /\ Rest \in Seq(Events)
    BY RestGood, ReceiveType DEF HandleDone, TypeOK
  <1>2. \/ Settle(SettleCancellation(e), Rest)
        \/ Settle(d, Rest) \/ Settle(SettleTurn(d), Rest)
        \/ Dispatch(d, Rest)
    BY DEF HandleDone
  <1>3. a \in App /\ SameRequests(app, a) /\ SameCall(app, a)
    <2>1. SameRequests(app, a) /\ SameCall(app, a)
      BY <1>1 DEF App, SameRequests, SameCall
    <2> QED
      BY <1>1, <2>1, ResetAttempts
  <1> HIDE DEF a
  <1>4. /\ d \in App /\ SameRequests(a, d) /\ SameCall(a, d)
    BY <1>3 DEF App, SameRequests, SameCall
  <1>5. /\ e \in App /\ e.open = a.open /\ e.active \in {a.active, 0}
        /\ SameCall(a, e)
    BY <1>3 DEF App, SameCall
  <1> HIDE DEF d, e
  <1>6. Good(a, Rest)
    BY <1>1, <1>3, GoodSame
  <1>7. Good(d, Rest) /\ Good(SettleTurn(d), Rest)
    BY <1>4, <1>6, SettleTurnSame, GoodSame
  <1>8. Good(e, Rest)
    BY <1>5, <1>6 DEF Good, Marked, Busy, Owned, SameCall
  <1>9. Good(SettleCancellation(e), Rest)
    BY <1>5, <1>8, CancellationSame, GoodSame
  <1>10. CASE Dispatch(d, Rest)
    BY <1>1, <1>4, <1>7, <1>10, DispatchGood DEF Good
  <1> QED
    BY <1>2, <1>7, <1>9, <1>10, SettleGood

(* The check for an announced intention leaves IInv.                         *)
LEMMA IntentionGood == TypeOK /\ IInv /\ HandleIntention => IInv'
  <1> SUFFICES ASSUME TypeOK, IInv, HandleIntention PROVE IInv'
    OBVIOUS
  <1> DEFINE a == [app EXCEPT !.attempts = 0]
  <1>1. Good(app, Rest) /\ app \in App /\ WorkOK /\ Rest \in Seq(Events)
    BY RestGood, ReceiveType DEF HandleIntention, TypeOK, WorkOK
  <1>2. StartRequest(a, Rest, FALSE)
    BY DEF HandleIntention
  <1>3. SameRequests(app, a) /\ SameCall(app, a)
    BY <1>1 DEF App, SameRequests, SameCall
  <1>4. a \in App
    BY <1>1, ResetAttempts
  <1> HIDE DEF a
  <1>5. Good(a, Rest)
    BY <1>1, <1>3, GoodSame
  <1> QED
    BY <1>1, <1>2, <1>4, <1>5, StartGood

(* A provider error leaves IInv.                                             *)
LEMMA ErrorGood == TypeOK /\ IInv /\ HandleError => IInv'
  <1> SUFFICES ASSUME TypeOK, IInv, HandleError PROVE IInv'
    OBVIOUS
  <1> DEFINE z == [app EXCEPT !.attempts = 0]
             y == [z EXCEPT !.processing = FALSE]
             a == [app EXCEPT !.attempts = 0, !.processing = FALSE]
             e == [a EXCEPT !.active = 0]
             p == [a EXCEPT !.processing = TRUE]
             t == [app EXCEPT !.attempts = @ + 1, !.processing = TRUE,
                              !.retryAt = TRUE, !.text = FALSE]
  <1>1. Good(app, Rest) /\ app \in App
    BY RestGood DEF HandleError, TypeOK
  <1>2. \/ Settle(t, Rest)
        \/ Settle(SettleCancellation(e), Rest)
        \/ Settle(p, Rest) \/ Settle(SettleTurn(a), Rest)
    BY DEF HandleError
  <1>3. SameRequests(app, t) /\ SameCall(app, t)
    BY <1>1 DEF App, SameRequests, SameCall
  <1>4. a \in App /\ SameRequests(app, a) /\ SameCall(app, a)
    <2>1. y = a /\ SameRequests(app, a) /\ SameCall(app, a)
      BY <1>1 DEF App, SameRequests, SameCall
    <2>2. z \in App
      BY <1>1, ResetAttempts
    <2> HIDE DEF z, a
    <2>3. y \in App
      BY <2>2 DEF App
    <2> QED
      BY <2>1, <2>3
  <1> HIDE DEF a, t
  <1>5. /\ e \in App /\ e.open = a.open /\ e.active = 0 /\ SameCall(a, e)
        /\ SameRequests(a, p) /\ SameCall(a, p)
    BY <1>4 DEF App, SameRequests, SameCall
  <1> HIDE DEF e, p
  <1>6. Good(a, Rest) /\ Good(t, Rest)
    BY <1>1, <1>3, <1>4, GoodSame
  <1>7. Good(p, Rest) /\ Good(SettleTurn(a), Rest)
    BY <1>4, <1>5, <1>6, SettleTurnSame, GoodSame
  <1>8. Good(e, Rest)
    BY <1>5, <1>6 DEF Good, Marked, Busy, Owned, SameCall
  <1>9. Good(SettleCancellation(e), Rest)
    BY <1>5, <1>8, CancellationSame, GoodSame
  <1> QED
    BY <1>2, <1>6, <1>7, <1>9, SettleGood

-----------------------------------------------------------------------------
(* The clients, the tools, the user and the rest of the actor.             *)

(* A client task leaves Live only by being acknowledged; until then it only *)
(* adds to the queue.                                                       *)
LEMMA ClientGood == TypeOK /\ IInv /\ Client => IInv'
  <1> SUFFICES ASSUME TypeOK, IInv, Client PROVE IInv'
    OBVIOUS
  <1>1. PICK r \in Requests : \/ ClientChunk(r) \/ ClientReply(r)
                              \/ ClientError(r) \/ ClientStopped(r)
                              \/ ClientEmit(r)
    BY DEF Client
  <1>2. /\ app \in App /\ rx \in Seq(Events) /\ Good(app, rx)
        /\ task \in [Requests -> Tasks]
    BY GoodNow DEF TypeOK
  <1>3. UNCHANGED <<app, tools>>
    BY <1>1 DEF ClientChunk, ClientReply, ClientError, ClientStopped,
                ClientFinish, ClientEmit, client
  <1>4. Live \subseteq Live'
    <2>1. CASE ClientChunk(r) \/ ClientEmit(r)
      <3>1. PICK s \in TaskStates : task' = [task EXCEPT ![r].state = s]
        BY <2>1 DEF ClientChunk, ClientEmit, SetState, TaskStates
      <3>2. \/ task[r].state = "opening" /\ s = "streaming"
            \/ task[r].state \in {"refused", "acked", "finishing"}
        <4>1. CASE ClientChunk(r)
          <5>1. task' = [task EXCEPT ![r].state = "streaming"]
                /\ task[r].state = "opening"
            BY <4>1 DEF ClientChunk, SetState
          <5>2. task'[r].state = s /\ task'[r].state = "streaming"
            BY <1>2, <3>1, <5>1 DEF Tasks
          <5> QED
            BY <5>1, <5>2
        <4>2. CASE ClientEmit(r)
          BY <4>2 DEF ClientEmit
        <4> QED
          BY <2>1, <4>1, <4>2
      <3> QED
        BY <1>2, <3>1, <3>2 DEF Live, Tasks
    <2>2. CASE ClientReply(r) \/ ClientError(r) \/ ClientStopped(r)
      <3>1. PICK o, reply : ClientFinish(r, o, reply)
        BY <2>2 DEF ClientReply, ClientError, ClientStopped
      <3>2. task' = [task EXCEPT ![r] = [state |-> "waiting", outcome |-> o,
                                         calls |-> reply]]
        BY <3>1 DEF ClientFinish
      <3> QED
        BY <1>2, <3>2 DEF Live
    <2> QED
      BY <1>1, <2>1, <2>2
  <1>5. PICK evs \in Seq(Events) : rx' = rx \o evs \/ \E e \in Events :
                                                      rx' = Append(rx, e)
    <2>1. CASE ClientChunk(r)
      <3>1. Ev("chunk", r) \in Events /\ rx' = Append(rx, Ev("chunk", r))
        BY <2>1, EventType DEF ClientChunk, EventKinds
      <3>2. << >> \in Seq(Events)
        OBVIOUS
      <3> QED
        BY <3>1, <3>2
    <2>2. CASE ClientReply(r) \/ ClientError(r) \/ ClientStopped(r)
      <3>1. rx' = Append(rx, Ev("persist", r))
        BY <2>2 DEF ClientReply, ClientError, ClientStopped, ClientFinish
      <3>2. Ev("persist", r) \in Events /\ << >> \in Seq(Events)
        BY EventType DEF EventKinds
      <3> QED
        BY <3>1, <3>2
    <2>3. CASE ClientEmit(r)
      <3>1. /\ Ev("failed", r) \in Events /\ Ev("done", r) \in Events
            /\ Ev("calls", r) \in Events
            /\ \A o \in {"error", "cancelled"} : Ev(o, r) \in Events
        BY EventType DEF EventKinds
      <3>2. \/ rx' = rx \o <<Ev("failed", r)>>
            \/ rx' = rx \o <<Ev("done", r)>>
            \/ rx' = rx \o <<Ev("calls", r)>>
            \/ rx' = rx \o <<Ev("calls", r), Ev("done", r)>>
            \/ \E o \in {"error", "cancelled"} : rx' = rx \o <<Ev(o, r)>>
        BY <2>3 DEF ClientEmit
      <3>3. ASSUME NEW e \in Events
            PROVE  <<e>> \in Seq(Events)
        OBVIOUS
      <3>4. <<Ev("calls", r), Ev("done", r)>> \in Seq(Events)
        BY <3>1
      <3> QED
        BY <3>1, <3>2, <3>3, <3>4
    <2> QED
      BY <1>1, <2>1, <2>2, <2>3
  <1>6. /\ HasResult(rx) => HasResult(rx')
        /\ HasResultOf(rx, app.pending) => HasResultOf(rx', app.pending)
    BY <1>2, <1>5, AppendKeeps, ConcatKeeps
  <1>7. MarkerIsLive'
    BY <1>2, <1>3, <1>4 DEF Good, Marked, MarkerIsLive
  <1>8. ExecutingOwned' /\ PendingOwned'
    BY <1>2, <1>3, <1>6 DEF Good, Busy, Owned, ExecutingOwned, PendingOwned,
       HasResult, HasResultOf, ResultQueued
  <1> QED
    BY <1>7, <1>8 DEF IInv

(* What a tool that ends had been holding up, its result now holds up.      *)
LEMMA ToolGood ==
    ASSUME TypeOK, IInv, NEW t \in tools, ToolFinish(t)
    PROVE  IInv'
  <1>1. /\ t.call \in Calls /\ rx \in Seq(Events) /\ Good(app, rx)
        /\ UNCHANGED <<app, task>> /\ tools' = tools \ {t}
        /\ rx' = Append(rx, ResultOf(t.call))
    BY GoodNow DEF TypeOK, ToolFinish
  <1>2. HasResult(rx') /\ HasResultOf(rx', t.call)
    BY <1>1, ResultAppended
  <1>3. HasResultOf(rx, app.pending) => HasResultOf(rx', app.pending)
    BY <1>1, ResultType, AppendKeeps
  <1>4. MarkerIsLive'
    BY <1>1 DEF Good, Marked, MarkerIsLive, Live
  <1>5. ExecutingOwned'
    BY <1>2 DEF ExecutingOwned, HasResult
  <1>6. app.pending # NoCall =>
            \/ app.approval \/ app.asking
            \/ \E s \in tools' : s.call = app.pending
            \/ HasResultOf(rx', app.pending)
    BY <1>1, <1>2, <1>3 DEF Good, Owned
  <1>7. PendingOwned'
    BY <1>1, <1>6 DEF PendingOwned, HasResultOf, ResultQueued
  <1> QED
    BY <1>4, <1>5, <1>7 DEF IInv

(* The two actions that only start a request leave IInv.                     *)
LEMMA RequestGood == TypeOK /\ IInv /\ (RunDueRetry \/ SendPrompt) => IInv'
  <1> SUFFICES ASSUME TypeOK, IInv, RunDueRetry \/ SendPrompt PROVE IInv'
    OBVIOUS
  <1> DEFINE b == [app EXCEPT !.retryAt = FALSE]
             z == [app EXCEPT !.attempts = 0]
             y == [z EXCEPT !.turn = TRUE, !.active = 0]
             d == [app EXCEPT !.attempts = 0, !.turn = TRUE, !.active = 0]
  <1>1. app \in App /\ WorkOK /\ rx \in Seq(Events) /\ Good(app, rx)
    BY GoodNow DEF TypeOK, WorkOK
  <1>2. StartRequest(b, rx, TRUE) \/ StartRequest(d, rx, TRUE)
    BY DEF RunDueRetry, SendPrompt
  <1>3. b \in App /\ Good(b, rx)
    <2>1. b \in App /\ SameRequests(app, b) /\ SameCall(app, b)
      BY <1>1 DEF App, SameRequests, SameCall
    <2> HIDE DEF b
    <2> QED
      BY <1>1, <2>1, GoodSame
  <1>4. d \in App /\ d.open = app.open /\ d.active = 0 /\ SameCall(app, d)
    <2>1. y = d /\ d.open = app.open /\ d.active = 0 /\ SameCall(app, d)
      BY <1>1 DEF App, SameCall
    <2>2. z \in App
      BY <1>1, ResetAttempts
    <2> HIDE DEF z, d
    <2>3. y \in App
      BY <2>2 DEF App
    <2> QED
      BY <2>1, <2>3
  <1> HIDE DEF b, d
  <1>5. Good(d, rx)
    BY <1>1, <1>4 DEF Good, Marked, Busy, Owned, SameCall
  <1> QED
    BY <1>1, <1>2, <1>3, <1>4, <1>5, StartGood

(* The user's answer queues the result of the pending call.                  *)
LEMMA AnswerUserGood == TypeOK /\ IInv /\ AnswerUser => IInv'
  <1> SUFFICES ASSUME TypeOK, IInv, AnswerUser PROVE IInv'
    OBVIOUS
  <1> DEFINE a == [app EXCEPT !.asking = FALSE]
             c == app.pending
             q == IF c = NoCall THEN rx ELSE Append(rx, ResultOf(c))
             b == Answer(SettleTurn(a), {c})
             d == [b EXCEPT !.processing = FALSE, !.pending = NoCall]
  <1>1. app \in App /\ rx \in Seq(Events) /\ Good(app, rx)
    BY GoodNow DEF TypeOK
  <1>2. Settle(a, q) \/ Settle(d, rx)
    BY DEF AnswerUser
  <1>3. /\ a \in App /\ SameRequests(app, a) /\ a.executing = app.executing
        /\ a.pending = c /\ c \in Calls \cup {NoCall}
    BY <1>1 DEF App, SameRequests
  <1>4. HasResult(rx) => HasResult(q)
    BY <1>1, <1>3, ResultType, AppendKeeps
  <1>5. c # NoCall => HasResultOf(q, c)
    BY <1>1, <1>3, ResultAppended
  <1> HIDE DEF a, c, q
  <1>6. Good(a, q)
    BY <1>1, <1>3, <1>4, <1>5 DEF Good, Marked, Busy, Owned, SameRequests
  <1>7. b \in App /\ SameRequests(a, b) /\ b.executing = a.executing
    BY <1>3, SettleTurnType, SettleTurnSame, AnswerType, AnswerSame
       DEF SameRequests, SameCall
  <1> HIDE DEF b
  <1>8. SameRequests(b, d) /\ d.executing = b.executing /\ d.pending = NoCall
    BY <1>7 DEF App, SameRequests
  <1> HIDE DEF d
  <1>9. Good(d, rx)
    BY <1>1, <1>3, <1>7, <1>8 DEF Good, Marked, Busy, Owned, SameRequests
  <1> QED
    BY <1>2, <1>6, <1>9, SettleGood

(* A decision of the user gives the pending call a tool or a result.         *)
LEMMA ApprovalGood ==
    TypeOK /\ IInv /\ (Deny \/ \E always \in BOOLEAN : Approve(always)) => IInv'
  <1> SUFFICES ASSUME TypeOK, IInv,
                      Deny \/ \E always \in BOOLEAN : Approve(always)
               PROVE  IInv'
    OBVIOUS
  <1>1. app \in App /\ rx \in Seq(Events) /\ Good(app, rx)
    BY GoodNow DEF TypeOK
  <1>2. CASE Deny
    <2> DEFINE a == [app EXCEPT !.approval = FALSE]
               d == [app EXCEPT !.approval = FALSE, !.processing = TRUE]
               q == Append(rx, ResultOf(app.pending))
    <2>1. \/ app.pending = NoCall /\ Settle(a, rx)
          \/ app.pending # NoCall /\ Settle(d, q)
      BY <1>2 DEF Deny
    <2>2. /\ SameRequests(app, a) /\ a.executing = app.executing
          /\ a.pending = app.pending
          /\ SameRequests(app, d) /\ d.pending = app.pending
          /\ app.pending \in Calls \cup {NoCall}
      BY <1>1 DEF App, SameRequests
    <2>3. app.pending # NoCall => HasResult(q) /\ HasResultOf(q, app.pending)
      BY <1>1, <2>2, ResultAppended
    <2> HIDE DEF a, d, q
    <2>4. app.pending = NoCall => Good(a, rx)
      BY <1>1, <2>2 DEF Good, Marked, Busy, Owned, SameRequests
    <2>5. app.pending # NoCall => Good(d, q)
      BY <1>1, <2>2, <2>3 DEF Good, Marked, Busy, Owned, SameRequests
    <2> QED
      BY <2>1, <2>4, <2>5, SettleGood
  <1>3. ASSUME NEW always \in BOOLEAN, Approve(always)
        PROVE  IInv'
    <2> DEFINE a == [app EXCEPT !.approval = FALSE, !.always = @ \/ always]
    <2>1. Dispatch(a, rx)
      BY <1>3 DEF Approve
    <2>2. SameRequests(app, a) /\ a.executing = app.executing
      BY <1>1 DEF App, SameRequests
    <2>3. a \in App
      <3>1. (app.always \/ always) \in BOOLEAN
        OBVIOUS
      <3> QED
        BY <1>1, <3>1 DEF App
    <2> HIDE DEF a
    <2>4. Marked(a) /\ Busy(a, rx)
      BY <1>1, <2>2 DEF Good, Marked, Busy, SameRequests
    <2> QED
      BY <1>1, <2>1, <2>3, <2>4, DispatchGood
  <1> QED
    BY <1>2, <1>3

(* Cancelling an interaction leaves a good record.                           *)
LEMMA InteractionGood ==
    ASSUME NEW a \in App, NEW q, Good(a, q)
    PROVE  Good(SettleInteraction(a), q)
  BY InteractionSame DEF Good, Marked, Busy, Owned, SameRequests, SameCall

(* The stop button and dropping a retry leave IInv.                          *)
LEMMA StopGood == TypeOK /\ IInv /\ (Stop \/ AbandonRetryAtShutdown) => IInv'
  <1> SUFFICES ASSUME TypeOK, IInv, Stop \/ AbandonRetryAtShutdown
               PROVE  IInv'
    OBVIOUS
  <1> DEFINE b == SettleInteraction(app)
             d == [b EXCEPT !.cancelPending = FALSE]
  <1>1. app \in App /\ Good(app, rx)
    BY GoodNow DEF TypeOK
  <1>2. Settle(d, rx) \/ Settle(AbandonRetry(app), rx) \/ CancelWork
    BY DEF Stop, AbandonRetryAtShutdown
  <1>3. b \in App /\ Good(b, rx)
    BY <1>1, InteractionType, InteractionGood
  <1> HIDE DEF b
  <1>4. SameRequests(b, d) /\ SameCall(b, d)
    BY <1>3 DEF App, SameRequests, SameCall
  <1> HIDE DEF d
  <1>5. Good(d, rx) /\ Good(AbandonRetry(app), rx)
    BY <1>1, <1>3, <1>4, AbandonRetrySame, GoodSame
  <1>6. CASE CancelWork
    <2>1. /\ SameRequests(app, app') /\ SameCall(app, app')
          /\ UNCHANGED <<rx, tools>> /\ Live' = Live
      BY <1>1, <1>6 DEF CancelWork, App, SameRequests, SameCall, Live
    <2>2. Good(app', rx)
      BY <1>1, <2>1, GoodSame
    <2> QED
      BY <2>1, <2>2, GoodNext
  <1> QED
    BY <1>2, <1>5, <1>6, SettleGood

(* The begin of a shutdown leaves IInv.                                      *)
LEMMA ShutdownGood == TypeOK /\ IInv /\ BeginShutdown => IInv'
  <1> SUFFICES ASSUME TypeOK, IInv, BeginShutdown PROVE IInv'
    OBVIOUS
  <1> DEFINE a == SettleInteraction(app)
             d == [a EXCEPT !.cancelPending = TRUE, !.processing = TRUE]
  <1>1. app \in App /\ Good(app, rx)
    BY GoodNow DEF TypeOK
  <1>2. app' \in {a, d} /\ UNCHANGED <<rx, task, tools>>
    BY DEF BeginShutdown
  <1>3. a \in App /\ Good(a, rx)
    BY <1>1, InteractionType, InteractionGood
  <1> HIDE DEF a
  <1>4. SameRequests(a, d) /\ SameCall(a, d)
    BY <1>3 DEF App, SameRequests, SameCall
  <1> HIDE DEF d
  <1>5. Good(d, rx) /\ Live' = Live
    BY <1>2, <1>3, <1>4, GoodSame DEF Live
  <1> QED
    BY <1>2, <1>3, <1>5, GoodNext

(* Ctrl+C leaves IInv.                                                       *)
LEMMA CtrlCGood == TypeOK /\ IInv /\ CtrlC => IInv'
  <1> SUFFICES ASSUME TypeOK, IInv, CtrlC PROVE IInv'
    OBVIOUS
  <1>1. CASE BeginShutdown
    BY <1>1, ShutdownGood
  <1>2. CASE /\ app' = [app EXCEPT !.cancelPending = TRUE]
             /\ UNCHANGED <<rx, task, tools>>
    <2>1. /\ SameRequests(app, app') /\ SameCall(app, app') /\ Live' = Live
          /\ Good(app, rx)
      BY <1>2, GoodNow DEF TypeOK, App, SameRequests, SameCall, Live
    <2>2. Good(app', rx)
      BY <2>1, GoodSame
    <2> QED
      BY <1>2, <2>1, <2>2, GoodNext
  <1> QED
    BY <1>1, <1>2 DEF CtrlC

(* What does not touch the flags, the queue and the workers leaves IInv.     *)
LEMMA StutterGood == IInv /\ UNCHANGED <<app, rx, task, tools>> => IInv'
  BY DEF IInv, MarkerIsLive, ExecutingOwned, PendingOwned, ResultQueued, Live

(* IInv holds initially.                                                     *)
LEMMA InitGood == Init => IInv
  BY DEF Init, AppInit, IInv, MarkerIsLive, ExecutingOwned, PendingOwned

(* IInv is inductive, given the type.                                        *)
LEMMA GoodStep == TypeOK /\ IInv /\ [Next]_vars => IInv'
  <1> SUFFICES ASSUME TypeOK, IInv, [Next]_vars PROVE IInv'
    OBVIOUS
  <1>1. CASE Client
    BY <1>1, ClientGood
  <1>2. CASE \E t \in tools : ToolFinish(t)
    BY <1>2, ToolGood
  <1>3. CASE User
    <2>1. Approve(FALSE) \/ Approve(TRUE) =>
              \E always \in BOOLEAN : Approve(always)
      OBVIOUS
    <2> QED
      BY <1>3, <2>1, RequestGood, AnswerUserGood, ApprovalGood, StopGood,
         CtrlCGood DEF User
  <1>4. CASE HandleEvent
    BY <1>4, ChunkGood, PersistGood, SettlementGood, ToolCallsGood,
       ToolResultGood, DoneGood, IntentionGood, ErrorGood DEF HandleEvent
  <1>5. CASE RunDueRetry \/ HandleSignal \/ Exit \/ AbandonRetryAtShutdown
    BY <1>5, RequestGood, ShutdownGood, StopGood DEF HandleSignal, Exit
  <1>6. CASE Contain \/ SignalArrives \/ QueueSignal \/ UNCHANGED vars
    BY <1>6, StutterGood DEF Contain, SignalArrives, QueueSignal, vars, work
  <1> QED
    BY <1>1, <1>2, <1>3, <1>4, <1>5, <1>6 DEF Next, Actor

(* IInv always holds.                                                        *)
LEMMA GoodAlways == Spec => []IInv
  BY TypeCorrect, InitGood, GoodStep, PTL DEF Spec

-----------------------------------------------------------------------------
(* A request whose client task has had its terminal checkpoint holds no     *)
(* liveness marker, however its handlers interleave with stops, failed      *)
(* saves and shutdowns: is_fully_idle is not pinned by a request that is    *)
(* over.                                                                    *)
THEOREM MarkersCorrect == Spec => []MarkerIsLive
  <1>1. IInv => MarkerIsLive
    BY DEF IInv
  <1> QED
    BY <1>1, GoodAlways, PTL

(* is_executing_tool is never left up without a tool that runs or a result  *)
(* that waits, so the engine cannot hang on a tool that is gone.            *)
THEOREM ExecutingCorrect == Spec => []ExecutingOwned
  <1>1. IInv => ExecutingOwned
    BY DEF IInv
  <1> QED
    BY <1>1, GoodAlways, PTL

(* The pending call always has somebody to end it: the user's prompt, a     *)
(* running tool, or its queued result.                                      *)
THEOREM PendingCorrect == Spec => []PendingOwned
  <1>1. IInv => PendingOwned
    BY DEF IInv
  <1> QED
    BY <1>1, GoodAlways, PTL

-----------------------------------------------------------------------------
(* One turn at a time.                                                      *)
(*                                                                          *)
(* OneWorker, AnsweredOnce, StopReaches and ResultsComplete hold where the  *)
(* two events of a reply are handled together (neither DoneLag nor          *)
(* BatchCut) and no question is asked under a standing approval; TLC finds  *)
(* each of the three exceptions to break them.  The invariant is that a     *)
(* turn is in one of four phases, told apart by what is in the queue: the   *)
(* model is asked, its reply is queued, a call is in hand, or nothing is    *)
(* left to come.                                                            *)
Orderly == ~DoneLag /\ ~BatchCut /\ (AllowAlways => "ask" \notin CallKinds)

(* An acknowledgement of a refused checkpoint changes nothing, whenever it   *)
(* is handled.                                                               *)
Kinds(q) == {q[i].kind : i \in DOMAIN q} \ {"failed"}

(* Of the other events at most two are queued at a time, in this order.      *)
Follows == {<<"chunk", "persist">>, <<"calls", "done">>, <<"done", "result">>}
InOrder(q) ==
    \A i, j \in DOMAIN q :
        i < j /\ q[i].kind # "failed" /\ q[j].kind # "failed" =>
            <<q[i].kind, q[j].kind>> \in Follows

Over(r) == task[r].state \in {"refused", "ended"}
Past    == \A r \in Requests : /\ r < issued => Over(r)
                               /\ r > issued => task[r].state = "none"
AtWork  == /\ issued # 0
           /\ task[issued].state \in {"opening", "streaming", "waiting", "acked"}
AtRest  == issued # 0 => Over(issued)

(* Every event is of the last request, and a result of the call in hand.     *)
Addressed(p, q) ==
    \A i \in DOMAIN q :
        /\ q[i].kind = "failed" => Over(q[i].req)
        /\ q[i].kind = "result" => q[i].call = p
        /\ q[i].kind \notin {"failed", "result"} => q[i].req = issued

Resting(a) == /\ a.pending = NoCall /\ a.queued = <<>>
              /\ ~a.approval /\ ~a.asking /\ ~a.executing

Awaited(s) == CASE s = "streaming" -> {"chunk"}
                [] s = "waiting"   -> {"chunk", "persist"}
                [] OTHER           -> {}

Expecting(a) == a.processing /\ ~a.processedCalls /\ ~a.retryAt

Asked(a, q) ==
    /\ AtWork /\ token = issued /\ tools = {}
    /\ Resting(a) /\ Expecting(a)
    /\ Kinds(q) \subseteq Awaited(task[issued].state)

Replied(a, q) ==
    /\ issued # 0 /\ AtRest /\ tools = {}
    /\ Resting(a) /\ Expecting(a)
    /\ Kinds(q) \in {{"calls", "done"}, {"done"}, {"error"}, {"cancelled"}}

(* The calls of a reply have been handled, its end is handled next, before   *)
(* the user can do anything.                                                 *)
DoneNext(a, q, b) ==
    "done" \in Kinds(q) => b /\ ~a.cancelPending /\ a.processedCalls

(* The user is asked about the call in hand, or it runs, or has ended.       *)
Shown(a, q) ==
    /\ a.approval # a.asking /\ ~a.executing
    /\ tools = {} /\ Kinds(q) \subseteq {"done"}
Runs(a, q) ==
    /\ ~a.approval /\ ~a.asking /\ a.executing
    /\ tools = {[call |-> a.pending, token |-> token]}
    /\ Kinds(q) \subseteq {"done"}
HasEnded(a, q) ==
    /\ ~a.approval /\ ~a.asking
    /\ tools = {} /\ "result" \in Kinds(q) /\ Kinds(q) \subseteq {"done", "result"}

Calling(a, q, b) ==
    /\ issued # 0 /\ AtRest
    /\ a.pending # NoCall /\ a.processedCalls /\ ~a.retryAt
    /\ a.always => a.dispatched
    /\ DoneNext(a, q, b)
    /\ Shown(a, q) \/ Runs(a, q) \/ HasEnded(a, q)

Settled(a, q, b) ==
    /\ AtRest /\ tools = {} /\ Resting(a)
    /\ Kinds(q) \subseteq {"done"} /\ DoneNext(a, q, b)
    /\ a.retryAt => a.processing /\ Kinds(q) = {}

Phase(a, q, b) ==
    Asked(a, q) \/ Replied(a, q) \/ Calling(a, q, b) \/ Settled(a, q, b)

(* Every call that was taken has one result, but for those that are due.     *)
Due(a) == ElemsOf(a.queued) \cup {a.pending}
Tally(a, due) ==
    \A c \in Calls : a.results[c] = IF c \in a.taken \ due THEN 1 ELSE 0

Listed(a) ==
    /\ ElemsOf(a.queued) \subseteq a.taken
    /\ a.pending \in a.taken \cup {NoCall}
    /\ \A i, j \in DOMAIN a.queued : a.queued[i] = a.queued[j] => i = j
    /\ a.pending \notin ElemsOf(a.queued)

(* What was taken are calls of replies, and none of a reply still to come.   *)
Known(a) ==
    \A c \in a.taken : c[1] <= issued /\ c[2] <= Len(task[c[1]].calls)
Ahead(a, q) ==
    AtWork \/ "calls" \in Kinds(q) => \A c \in a.taken : c[1] # issued

Allowed(a) == a.always => AllowAlways

Turned(a, q, b) ==
    /\ InOrder(q) /\ Addressed(a.pending, q) /\ Phase(a, q, b)
    /\ Listed(a) /\ Tally(a, Due(a)) /\ Known(a) /\ Ahead(a, q) /\ Allowed(a)

TurnInv == Past /\ Turned(app, rx, batch)

-----------------------------------------------------------------------------
(* Queues.                                                                  *)

(* What is left once the first event has been taken off the queue.           *)
LEMMA TailOrder ==
    ASSUME NEW q \in Seq(Events), q # <<>>, InOrder(q), NEW p, Addressed(p, q)
    PROVE  /\ InOrder(Tail(q)) /\ Addressed(p, Tail(q))
           /\ Head(q).kind = "failed" => Kinds(Tail(q)) = Kinds(q)
           /\ Head(q).kind # "failed" =>
                  /\ Kinds(q) = Kinds(Tail(q)) \cup {Head(q).kind}
                  /\ \A k \in Kinds(Tail(q)) : <<Head(q).kind, k>> \in Follows
  <1> DEFINE s == Tail(q)
  <1>1. \A i \in DOMAIN s : i + 1 \in DOMAIN q /\ s[i] = q[i + 1]
    OBVIOUS
  <1>2. 1 \in DOMAIN q /\ Head(q) = q[1]
    OBVIOUS
  <1>3. \A i \in DOMAIN q : i # 1 => i - 1 \in DOMAIN s /\ q[i] = s[i - 1]
    OBVIOUS
  <1>4. \A i \in DOMAIN s : i \in Nat /\ i >= 1
    OBVIOUS
  <1> HIDE DEF s
  <1>5. InOrder(s)
    <2> SUFFICES ASSUME NEW i \in DOMAIN s, NEW j \in DOMAIN s, i < j,
                        s[i].kind # "failed", s[j].kind # "failed"
                 PROVE  <<s[i].kind, s[j].kind>> \in Follows
      BY DEF InOrder
    <2>1. i + 1 < j + 1
      BY <1>4
    <2> QED
      BY <1>1, <2>1 DEF InOrder
  <1>6. Addressed(p, s)
    BY <1>1 DEF Addressed
  <1>7. {s[i].kind : i \in DOMAIN s} \cup {Head(q).kind}
            = {q[i].kind : i \in DOMAIN q}
    BY <1>1, <1>2, <1>3
  <1>8. ASSUME NEW k \in Kinds(s), Head(q).kind # "failed"
        PROVE  <<Head(q).kind, k>> \in Follows
    <2>1. PICK i \in DOMAIN s : s[i].kind = k /\ k # "failed"
      BY DEF Kinds
    <2>2. i + 1 \in DOMAIN q /\ q[i + 1].kind = k /\ 1 < i + 1
      BY <1>1, <1>4, <2>1
    <2> QED
      BY <1>2, <1>8, <2>1, <2>2 DEF InOrder
  <1> QED
    BY <1>5, <1>6, <1>7, <1>8 DEF s, Kinds

(* What the first event says.                                                *)
LEMMA HeadOrder ==
    ASSUME NEW q \in Seq(Events), q # <<>>, NEW p, Addressed(p, q)
    PROVE  /\ Head(q).kind = "failed" => Over(Head(q).req)
           /\ Head(q).kind = "result" => Head(q).call = p
           /\ Head(q).kind \notin {"failed", "result"} => Head(q).req = issued
  <1>1. 1 \in DOMAIN q /\ Head(q) = q[1]
    OBVIOUS
  <1> QED
    BY <1>1 DEF Addressed

(* An event may be queued if it may follow all that are queued.              *)
LEMMA AppendOrder ==
    ASSUME NEW q \in Seq(Events), NEW e \in Events, InOrder(q),
           NEW p, Addressed(p, q),
           e.kind # "failed" => \A k \in Kinds(q) : <<k, e.kind>> \in Follows,
           e.kind = "failed" => Over(e.req),
           e.kind = "result" => e.call = p,
           e.kind \notin {"failed", "result"} => e.req = issued
    PROVE  /\ Append(q, e) \in Seq(Events)
           /\ InOrder(Append(q, e)) /\ Addressed(p, Append(q, e))
           /\ Kinds(Append(q, e)) = Kinds(q) \cup ({e.kind} \ {"failed"})
  <1> DEFINE s == Append(q, e)
             n == Len(q) + 1
  <1>1. /\ \A i \in DOMAIN s : i # n => i \in DOMAIN q /\ s[i] = q[i]
        /\ \A i \in DOMAIN q : i \in DOMAIN s /\ s[i] = q[i] /\ i < n
        /\ n \in DOMAIN s /\ s[n] = e /\ s \in Seq(Events)
        /\ \A i \in DOMAIN s : i \in Nat /\ i <= n
    OBVIOUS
  <1>2. n \in Nat
    OBVIOUS
  <1> HIDE DEF s, n
  <1>3. InOrder(s)
    <2> SUFFICES ASSUME NEW i \in DOMAIN s, NEW j \in DOMAIN s, i < j,
                        s[i].kind # "failed", s[j].kind # "failed"
                 PROVE  <<s[i].kind, s[j].kind>> \in Follows
      BY DEF InOrder
    <2>1. i # n /\ i \in DOMAIN q /\ s[i] = q[i]
      BY <1>1, <1>2
    <2>2. CASE j # n
      BY <1>1, <2>1, <2>2 DEF InOrder
    <2>3. CASE j = n
      BY <1>1, <2>1, <2>3 DEF Kinds
    <2> QED
      BY <2>2, <2>3
  <1>4. Addressed(p, s)
    BY <1>1 DEF Addressed
  <1>5. {s[i].kind : i \in DOMAIN s} = {q[i].kind : i \in DOMAIN q} \cup {e.kind}
    BY <1>1
  <1> QED
    BY <1>1, <1>3, <1>4, <1>5 DEF s, Kinds

(* A queue without results is addressed whichever call is in hand.           *)
LEMMA NoResultAddressed ==
    ASSUME NEW q, NEW p, NEW c, Addressed(p, q), "result" \notin Kinds(q)
    PROVE  Addressed(c, q)
  BY DEF Addressed, Kinds

-----------------------------------------------------------------------------
(* What the helpers do to the turn.                                         *)

SameFlags(a, b) ==
    /\ b.processing = a.processing /\ b.processedCalls = a.processedCalls
    /\ b.dispatched = a.dispatched /\ b.always = a.always
    /\ b.retryAt = a.retryAt /\ b.cancelPending = a.cancelPending

SameHand(a, b) ==
    /\ b.pending = a.pending /\ b.approval = a.approval
    /\ b.asking = a.asking /\ b.executing = a.executing

SameTurn(a, b) ==
    /\ SameFlags(a, b) /\ SameHand(a, b)
    /\ b.queued = a.queued /\ b.taken = a.taken /\ b.results = a.results

(* Nothing is in hand, and all that was taken has been answered.             *)
Quiet(a) == Resting(a) /\ ~a.retryAt /\ Tally(a, {}) /\ Allowed(a)

(* An answer is one result for each of the calls answered.                   *)
LEMMA AnswerTally ==
    ASSUME NEW a \in App, NEW due, NEW cs, Tally(a, due),
           cs \cap Calls \subseteq a.taken \cap due
    PROVE  LET b == Answer(a, cs)
           IN  /\ b \in App /\ SameFlags(a, b) /\ SameHand(a, b)
               /\ b.queued = a.queued /\ b.taken = a.taken
               /\ Tally(b, due \ cs)
  <1> DEFINE res == [c \in Calls |-> IF c \in cs THEN a.results[c] + 1
                                                 ELSE a.results[c]]
             b   == [a EXCEPT !.results = res]
  <1>1. Answer(a, cs) = b /\ b \in App
    BY AnswerType DEF Answer
  <1>2. /\ SameFlags(a, b) /\ SameHand(a, b)
        /\ b.queued = a.queued /\ b.taken = a.taken /\ b.results = res
    BY DEF App, SameFlags, SameHand
  <1>3. \A c \in Calls : res[c] = IF c \in cs THEN a.results[c] + 1
                                              ELSE a.results[c]
    OBVIOUS
  <1> HIDE DEF res, b
  <1>4. Tally(b, due \ cs)
    BY <1>2, <1>3 DEF Tally
  <1> QED
    BY <1>1, <1>2, <1>4

(* A settled turn has answered the calls that were queued.                   *)
LEMMA SettleTurnTally ==
    ASSUME NEW a \in App, NEW due, Tally(a, due),
           ElemsOf(a.queued) \subseteq a.taken \cap due
    PROVE  /\ LET b == AbandonQueued(a)
              IN  /\ b \in App /\ SameFlags(a, b) /\ SameHand(a, b)
                  /\ b.queued = <<>> /\ b.taken = a.taken
                  /\ Tally(b, due \ ElemsOf(a.queued))
           /\ LET b == SettleTurn(a)
              IN  /\ b \in App /\ SameFlags(a, b) /\ SameHand(a, b)
                  /\ b.queued = <<>> /\ b.taken = a.taken
                  /\ Tally(b, due \ ElemsOf(a.queued))
  <1> DEFINE z == Answer(a, ElemsOf(a.queued))
             y == AbandonQueued(a)
             b == SettleTurn(a)
             D == due \ ElemsOf(a.queued)
  <1>1. /\ z \in App /\ SameFlags(a, z) /\ SameHand(a, z)
        /\ z.taken = a.taken /\ Tally(z, D)
    BY AnswerTally
  <1>2. y = [z EXCEPT !.queued = <<>>] /\ y \in App
        /\ b = [y EXCEPT !.turn = FALSE] /\ b \in App
    BY AbandonType, SettleTurnType DEF AbandonQueued, SettleTurn
  <1> HIDE DEF z, y, b, D
  <1>3. /\ SameFlags(z, y) /\ SameHand(z, y) /\ y.queued = <<>>
        /\ y.taken = z.taken /\ y.results = z.results
    BY <1>1, <1>2 DEF App, SameFlags, SameHand
  <1>4. /\ SameFlags(y, b) /\ SameHand(y, b) /\ b.queued = y.queued
        /\ b.taken = y.taken /\ b.results = y.results
    BY <1>2 DEF App, SameFlags, SameHand
  <1>5. Tally(y, D) /\ Tally(b, D)
    BY <1>1, <1>3, <1>4 DEF Tally
  <1> QED
    BY <1>1, <1>2, <1>3, <1>4, <1>5 DEF SameFlags, SameHand, z, y, b, D

(* Settling the turn of a quiet record leaves it quiet,                      *)
LEMMA SettleTurnQuiet ==
    ASSUME NEW a \in App, Quiet(a)
    PROVE  LET b == SettleTurn(a)
           IN  b \in App /\ Quiet(b) /\ SameFlags(a, b) /\ b.taken = a.taken
  <1>1. ElemsOf(a.queued) = {}
    BY DEF Quiet, Resting, ElemsOf
  <1>2. Tally(a, {}) /\ {} \ ElemsOf(a.queued) = {}
    BY DEF Quiet
  <1> QED
    BY <1>1, <1>2, SettleTurnTally
    DEF Quiet, Resting, SameFlags, SameHand, Allowed

(* and so does settling its cancellation.                                    *)
LEMMA CancellationQuiet ==
    ASSUME NEW a \in App, Quiet(a)
    PROVE  LET b == SettleCancellation(a)
           IN  b \in App /\ Quiet(b) /\ b.taken = a.taken
  <1> DEFINE d == [a EXCEPT !.cancelPending = FALSE, !.processing = FALSE,
                            !.processedCalls = FALSE, !.dispatched = FALSE,
                            !.pending = NoCall, !.text = FALSE]
  <1>1. SettleCancellation(a) = SettleTurn(d)
    BY DEF SettleCancellation, Quiet, Resting
  <1>2. /\ d \in App /\ d.pending = NoCall /\ d.retryAt = a.retryAt
        /\ d.always = a.always
        /\ d.approval = a.approval /\ d.asking = a.asking
        /\ d.executing = a.executing /\ d.queued = a.queued
        /\ d.taken = a.taken /\ d.results = a.results
    BY ZenonT(60) DEF App
  <1> HIDE DEF d
  <1>3. Quiet(d)
    BY <1>2 DEF Quiet, Resting, Tally, Allowed
  <1> QED
    BY <1>1, <1>2, <1>3, SettleTurnQuiet

(* A marker is no part of the turn.                                          *)
LEMMA CloseTurn ==
    ASSUME NEW a \in App, NEW r
    PROVE  CloseMarker(a, r) \in App /\ SameTurn(a, CloseMarker(a, r))
  <1> DEFINE b == CloseMarker(a, r)
             n == IF a.active = r THEN 0 ELSE a.active
  <1>1. b = [a EXCEPT !.open = a.open \ {r}, !.active = n] /\ b \in App
    BY CloseType DEF CloseMarker
  <1> HIDE DEF b, n
  <1>2. /\ b.processing = a.processing /\ b.processedCalls = a.processedCalls
        /\ b.dispatched = a.dispatched /\ b.always = a.always
        /\ b.retryAt = a.retryAt /\ b.cancelPending = a.cancelPending
    BY <1>1 DEF App
  <1>3. /\ b.pending = a.pending /\ b.approval = a.approval
        /\ b.asking = a.asking /\ b.executing = a.executing
    BY <1>1 DEF App
  <1>4. b.queued = a.queued /\ b.taken = a.taken /\ b.results = a.results
    BY <1>1 DEF App
  <1> QED
    BY <1>1, <1>2, <1>3, <1>4 DEF SameTurn, SameFlags, SameHand, b

(* A refused checkpoint leaves a quiet record quiet, and if another request  *)
(* is active it changes nothing.                                             *)
LEMMA FailedQuiet ==
    ASSUME NEW a \in App, NEW r
    PROVE  LET b == SettlementFailed(a, r)
           IN  /\ b \in App
               /\ Quiet(a) => Quiet(b) /\ b.taken = a.taken
               /\ a.active # r => SameTurn(a, b)
  <1> DEFINE b == CloseMarker(a, r)
             d == [b EXCEPT !.processing = FALSE, !.pending = NoCall,
                            !.text = FALSE]
  <1>1. b \in App /\ SameTurn(a, b)
    BY CloseTurn
  <1>2. /\ a.active # r => SettlementFailed(a, r) = b
        /\ ~a.executing =>
               SettlementFailed(a, r) \in {b, SettleCancellation(b), SettleTurn(d)}
    BY DEF SettlementFailed
  <1> HIDE DEF b
  <1>3. /\ d \in App /\ d.pending = NoCall /\ d.retryAt = b.retryAt
        /\ d.always = b.always
        /\ d.approval = b.approval /\ d.asking = b.asking
        /\ d.executing = b.executing /\ d.queued = b.queued
        /\ d.taken = b.taken /\ d.results = b.results
    BY ZenonT(60), <1>1 DEF App
  <1> HIDE DEF d
  <1>4. ASSUME Quiet(a)
        PROVE  Quiet(b) /\ Quiet(d) /\ b.taken = a.taken /\ d.taken = a.taken
    BY <1>1, <1>3, <1>4
       DEF Quiet, Resting, Tally, Allowed, SameTurn, SameFlags, SameHand
  <1>5. ASSUME Quiet(a)
        PROVE  Quiet(SettlementFailed(a, r))
               /\ SettlementFailed(a, r).taken = a.taken
    <2>1. ~a.executing
      BY <1>5 DEF Quiet, Resting
    <2> QED
      BY <1>1, <1>2, <1>3, <1>4, <1>5, <2>1, SettleTurnQuiet, CancellationQuiet
  <1> QED
    BY <1>1, <1>2, <1>5, FailedType

(* Dropping a retry leaves a quiet record.                                   *)
LEMMA AbandonRetryQuiet ==
    ASSUME NEW a \in App, Resting(a), Tally(a, {}), Allowed(a)
    PROVE  LET b == AbandonRetry(a)
           IN  b \in App /\ Quiet(b) /\ b.taken = a.taken
  <1> DEFINE z == [a EXCEPT !.attempts = 0]
             y == [z EXCEPT !.retryAt = FALSE, !.processing = FALSE]
             d == [a EXCEPT !.retryAt = FALSE, !.attempts = 0,
                            !.processing = FALSE]
  <1>1. z \in App
    BY ResetAttempts
  <1>2. /\ y = d /\ d.pending = a.pending /\ ~d.retryAt
        /\ d.always = a.always
        /\ d.approval = a.approval /\ d.asking = a.asking
        /\ d.executing = a.executing /\ d.queued = a.queued
        /\ d.taken = a.taken /\ d.results = a.results
    BY DEF App
  <1> HIDE DEF z
  <1>3. y \in App
    BY <1>1 DEF App
  <1>4. AbandonRetry(a) = SettleTurn(d)
    BY DEF AbandonRetry
  <1> HIDE DEF d, y
  <1>5. d \in App /\ Quiet(d)
    BY <1>2, <1>3 DEF Quiet, Resting, Tally, Allowed
  <1> QED
    BY <1>2, <1>4, <1>5, SettleTurnQuiet

(* What is settled without being run is answered: the call in hand and those *)
(* behind it.                                                                *)
LEMMA DueTally ==
    ASSUME NEW a \in App, NEW c, Tally(a, ElemsOf(a.queued) \cup {c}),
           ElemsOf(a.queued) \subseteq a.taken, c \in a.taken,
           c \notin ElemsOf(a.queued)
    PROVE  /\ LET b == Answer(SettleTurn(a), {c})
              IN  /\ b \in App /\ SameFlags(a, b) /\ SameHand(a, b)
                  /\ b.queued = <<>> /\ b.taken = a.taken /\ Tally(b, {})
           /\ LET b == Answer(a, {c})
              IN  /\ b \in App /\ SameFlags(a, b) /\ SameHand(a, b)
                  /\ b.queued = a.queued /\ b.taken = a.taken
                  /\ Tally(b, ElemsOf(b.queued))
  <1> DEFINE E == ElemsOf(a.queued)
             y == SettleTurn(a)
  <1>1. /\ y \in App /\ SameFlags(a, y) /\ SameHand(a, y)
        /\ y.queued = <<>> /\ y.taken = a.taken
        /\ Tally(y, (E \cup {c}) \ E)
    BY SettleTurnTally
  <1>2. (E \cup {c}) \ E = {c} /\ {c} \ {c} = {} /\ (E \cup {c}) \ {c} = E
    OBVIOUS
  <1>3. Tally(y, {c}) /\ {c} \cap Calls \subseteq y.taken \cap {c}
    BY <1>1, <1>2
  <1>4. {c} \cap Calls \subseteq a.taken \cap (E \cup {c}) /\ Tally(a, E \cup {c})
    OBVIOUS
  <1> HIDE DEF y
  <1>5. LET b == Answer(y, {c})
        IN  /\ b \in App /\ SameFlags(y, b) /\ SameHand(y, b)
            /\ b.queued = y.queued /\ b.taken = y.taken
            /\ Tally(b, {c} \ {c})
    BY <1>1, <1>3, AnswerTally
  <1> HIDE DEF E
  <1>6. LET b == Answer(a, {c})
        IN  /\ b \in App /\ SameFlags(a, b) /\ SameHand(a, b)
            /\ b.queued = a.queued /\ b.taken = a.taken /\ Tally(b, E)
    BY <1>2, <1>4, AnswerTally
  <1> QED
    BY <1>1, <1>2, <1>5, <1>6 DEF SameFlags, SameHand, E, y

-----------------------------------------------------------------------------
(* The operators a handler ends with.                                       *)

(* A handler that leaves the workers alone.                                  *)
LEMMA TurnNext ==
    ASSUME Past, UNCHANGED <<task, issued, tools, token>>,
           Turned(app', rx', batch')
    PROVE  TurnInv'
  BY DEF TurnInv, Turned, Past, Over, AtWork, AtRest, InOrder, Addressed, Phase,
         Asked, Replied, Calling, Settled, Shown, Runs, HasEnded, DoneNext,
         Resting, Expecting, Kinds, Listed, Tally, Due, Known, Ahead, Allowed

(* The phase sees no more of the record than SameTurn says.                  *)
LEMMA SameTurned ==
    ASSUME NEW a, NEW b, NEW q, NEW t, Turned(a, q, t), SameTurn(a, b)
    PROVE  Turned(b, q, t)
  BY DEF Turned, SameTurn, SameFlags, SameHand, Phase, Asked, Replied, Calling,
         Settled, Shown, Runs, HasEnded, DoneNext, Resting, Expecting, Listed,
         Tally, Due, Known, Ahead, Allowed

(* A batch goes on while events are queued.                                  *)
LEMMA GoOnDone ==
    ASSUME Orderly, GoOn, rx' \in Seq(Events), rx' # <<>>
    PROVE  batch'
  BY DEF Orderly, GoOn

(* An empty queue holds no kind of event.                                    *)
LEMMA KindsOfNone == ASSUME NEW q, q = <<>> PROVE Kinds(q) = {}
  BY DEF Kinds

(* A queue that holds what may still come once a turn is settled.            *)
Rested(q) == InOrder(q) /\ Addressed(NoCall, q) /\ Kinds(q) = {}

(* A quiet record that is left behind is settled.                            *)
LEMMA QuietNext ==
    ASSUME Past', AtRest', tools' = {}, Quiet(app'),
           Known(app)', InOrder(rx'), Addressed(NoCall, rx)', Kinds(rx') \subseteq {"done"},
           DoneNext(app', rx', batch')
    PROVE  TurnInv'
  <1>1. ElemsOf(app'.queued) = {}
    BY DEF Quiet, Resting, ElemsOf
  <1>2. Listed(app)'
    BY <1>1 DEF Listed, Quiet, Resting, ElemsOf
  <1>3. NoCall \notin Calls
    BY DEF NoCall, Calls, Requests
  <1>4. Tally(app', Due(app'))
    BY <1>1, <1>3 DEF Tally, Due, Quiet, Resting
  <1>5. Ahead(app, rx)'
    BY DEF Ahead, AtWork, AtRest, Over, Kinds
  <1>6. Settled(app, rx, batch)'
    BY DEF Settled, Quiet, Resting, DoneNext, Kinds
  <1> QED
    BY <1>2, <1>4, <1>5, <1>6
    DEF TurnInv, Turned, Phase, Quiet, Resting, InOrder, Tally, Due, Allowed

(* Starting a request from a quiet record: the model is asked, or, if the    *)
(* start fails, the turn is settled.  It is asked with complete results.     *)
LEMMA StartTurn ==
    ASSUME WorkOK, Past, NEW a \in App, NEW q \in Seq(Events), NEW child,
           StartRequest(a, q, child), Quiet(a), AtRest, tools = {},
           Known(a), Rested(q)
    PROVE  /\ TurnInv'
           /\ issued' # issued => \A c \in a.taken : app'.results[c] = 1
  <1> DEFINE r    == issued + 1
             base == [a EXCEPT !.processing = TRUE, !.processedCalls = FALSE,
                               !.dispatched = FALSE, !.text = FALSE]
             b    == [base EXCEPT !.processing = FALSE]
             d    == [base EXCEPT !.active = r, !.open = @ \cup {r}]
  <1>1. /\ base \in App /\ SameHand(a, base) /\ base.queued = a.queued
        /\ base.taken = a.taken /\ base.results = a.results
        /\ base.retryAt = a.retryAt /\ base.always = a.always
        /\ base.processing /\ ~base.processedCalls
    BY DEF App, SameHand
  <1>2. /\ rx' = q /\ UNCHANGED tools /\ token' = r
        /\ \/ app' = SettleTurn(b) /\ UNCHANGED <<task, issued>>
           \/ /\ r <= MaxRequests
              /\ app' = d
              /\ task' = [task EXCEPT ![r].state = "opening"]
              /\ issued' = r
    BY DEF StartRequest, NewToken
  <1> HIDE DEF base
  <1>3. CASE app' = SettleTurn(b) /\ UNCHANGED <<task, issued>>
    <2>1. /\ b \in App /\ SameHand(base, b) /\ b.queued = base.queued
          /\ b.taken = base.taken /\ b.results = base.results
          /\ b.retryAt = base.retryAt /\ b.always = base.always
      BY ZenonT(60), <1>1 DEF App, SameHand
    <2> HIDE DEF b
    <2>2. Quiet(b) /\ b.taken = a.taken
      BY <1>1, <2>1 DEF Quiet, Resting, Tally, SameHand, Allowed
    <2>3. Quiet(SettleTurn(b)) /\ SettleTurn(b).taken = a.taken
      BY <2>1, <2>2, SettleTurnQuiet
    <2>4. /\ Past' /\ AtRest' /\ tools' = {} /\ Addressed(NoCall, rx)'
          /\ Known(app)'
      BY <1>2, <1>3, <2>3 DEF Past, AtRest, Over, Rested, Addressed, Known
    <2> QED
      BY <1>2, <1>3, <2>3, <2>4, QuietNext DEF Rested, DoneNext
  <1>4. CASE /\ r <= MaxRequests
             /\ app' = d
             /\ task' = [task EXCEPT ![r].state = "opening"]
             /\ issued' = r
    <2>1. r \in Requests /\ r # 0 /\ issued \in 0 .. MaxRequests
          /\ task \in [Requests -> Tasks]
      BY <1>4, BoundAssumption DEF WorkOK, Requests
    <2>2. /\ SameHand(base, d) /\ d.queued = base.queued
          /\ d.taken = base.taken /\ d.results = base.results
          /\ d.retryAt = base.retryAt /\ d.processing = base.processing
          /\ d.always = base.always
          /\ d.processedCalls = base.processedCalls
      BY <1>1 DEF App, SameHand
    <2> HIDE DEF d
    <2>3. /\ Resting(app') /\ Expecting(app') /\ Tally(app', {})
          /\ app'.taken = a.taken /\ Allowed(app')
      BY <1>1, <1>4, <2>2
      DEF Quiet, Resting, Tally, SameHand, Expecting, Allowed
    <2>4. /\ task'[r].state = "opening"
          /\ \A s \in Requests \ {r} : task'[s] = task[s]
          /\ \A s \in Requests : task'[s].calls = task[s].calls
      BY <1>4, <2>1 DEF Tasks
    <2>5. task[r].state = "none"
      BY <2>1 DEF Past
    <2>6. \A s \in Requests : Over(s) => Over(s)'
      BY <2>4, <2>5 DEF Over
    <2>7. Past'
      BY <1>4, <2>1, <2>4, <2>6 DEF Past, AtRest, Over, Requests
    <2>8. Addressed(NoCall, rx)' /\ InOrder(rx)' /\ Kinds(rx)' = {}
      <3>1. \A i \in DOMAIN q : q[i].kind = "failed"
        BY DEF Rested, Kinds
      <3>2. \A i \in DOMAIN q : q[i].req \in Requests
        <4>1. \A i \in DOMAIN q : q[i] \in Events
          OBVIOUS
        <4> QED
          BY <4>1 DEF Events
      <3>3. \A i \in DOMAIN q : Over(q[i].req)'
        BY <2>6, <3>1, <3>2 DEF Rested, Addressed
      <3> QED
        BY <1>2, <3>1, <3>3 DEF Addressed, InOrder, Rested, Kinds
    <2>9. Asked(app, rx)'
      <3>1. AtWork'
        BY <1>4, <2>1, <2>4 DEF AtWork
      <3> QED
        BY <1>2, <1>4, <2>3, <2>8, <3>1 DEF Asked, Resting, Expecting
    <2>10. Listed(app)' /\ Tally(app, Due(app))'
      <3>1. ElemsOf(app'.queued) = {}
        BY <2>3 DEF Resting, ElemsOf
      <3>2. NoCall \notin Calls
        BY DEF NoCall, Calls, Requests
      <3>3. Listed(app')
        BY <2>3, <3>1 DEF Listed, Resting
      <3>4. Tally(app', Due(app'))
        BY <2>3, <3>1, <3>2 DEF Tally, Due, Resting
      <3> QED
        BY <3>3, <3>4 DEF Listed, Tally, Due
    <2>11. Known(app)' /\ Ahead(app, rx)'
      <3>1. a.taken \subseteq Calls /\ \A c \in Calls : c[1] \in Requests
        BY DEF App, Calls
      <3>2. \A c \in app'.taken : /\ c[1] <= issued' /\ c[1] # issued'
                                 /\ task'[c[1]].calls = task[c[1]].calls
        BY <1>4, <2>1, <2>3, <2>4, <3>1 DEF Known, Requests
      <3> QED
        BY <2>3, <3>2 DEF Known, Ahead
    <2>12. TurnInv'
      BY <2>3, <2>7, <2>8, <2>9, <2>10, <2>11
      DEF TurnInv, Turned, Phase, Resting, Allowed
    <2>13. \A c \in a.taken : app'.results[c] = 1
      BY <2>3 DEF Tally, App
    <2> QED
      BY <2>12, <2>13
  <1> QED
    BY <1>2, <1>3, <1>4

(* Call c is about to be dealt with, and those in the queue after it.        *)
InHand(a, c, q, t) ==
    /\ issued # 0 /\ AtRest /\ tools = {}
    /\ a.processedCalls /\ ~a.retryAt
    /\ ~a.approval /\ ~a.asking /\ ~a.executing
    /\ InOrder(q) /\ Addressed(c, q)
    /\ Kinds(q) \subseteq {"done"} /\ DoneNext(a, q, t)
    /\ ElemsOf(a.queued) \cup {c} \subseteq a.taken
    /\ \A i, j \in DOMAIN a.queued : a.queued[i] = a.queued[j] => i = j
    /\ c \notin ElemsOf(a.queued)
    /\ Tally(a, ElemsOf(a.queued) \cup {c}) /\ Known(a) /\ Allowed(a)

(* The call in hand is shown, runs, or has its result queued.                *)
LEMMA CallNext ==
    ASSUME Past, NEW a, NEW c \in Calls, NEW q \in Seq(Events),
           InHand(a, c, q, batch'),
           UNCHANGED <<task, issued, token>>,
           app'.pending = c, app'.queued = a.queued, app'.taken = a.taken,
           app'.results = a.results, app'.processedCalls, ~app'.retryAt,
           app'.cancelPending = a.cancelPending, Allowed(app'),
           app'.always => app'.dispatched,
           \/ /\ rx' = q /\ app'.approval # app'.asking /\ ~app'.executing
              /\ tools' = tools
           \/ /\ rx' = q /\ ~app'.approval /\ ~app'.asking /\ app'.executing
              /\ tools' = tools \cup {[call |-> c, token |-> token]}
           \/ /\ rx' = Append(q, ResultOf(c)) /\ ~app'.approval /\ ~app'.asking
              /\ tools' = tools
    PROVE  TurnInv'
  <1> DEFINE e == ResultOf(c)
  <1>1. e \in Events /\ e.kind = "result" /\ e.call = c
    BY ResultType DEF ResultOf
  <1> HIDE DEF e
  <1>2. /\ InOrder(q) /\ Addressed(c, q) /\ Kinds(q) \subseteq {"done"}
        /\ \A k \in Kinds(q) : <<k, e.kind>> \in Follows
    BY <1>1 DEF InHand, Follows
  <1>3. LET s == Append(q, e)
        IN  /\ InOrder(s) /\ Addressed(c, s) /\ Kinds(s) = Kinds(q) \cup {"result"}
    BY <1>1, <1>2, AppendOrder
  <1>4. /\ InOrder(rx') /\ Addressed(c, rx')
        /\ rx' = q \/ (rx' = Append(q, e) /\ Kinds(rx') = Kinds(q) \cup {"result"})
    BY <1>2, <1>3 DEF e
  <1>5. Addressed(app.pending, rx)' /\ InOrder(rx)' /\ Past' /\ AtRest'
    BY <1>4 DEF Addressed, InOrder, Past, AtRest, Over, InHand
  <1>6. c # NoCall
    BY DEF NoCall, Calls, Requests
  <1>7. Calling(app, rx, batch)'
    <2>1. DoneNext(app', rx', batch') /\ tools = {} /\ issued # 0
      BY <1>4 DEF DoneNext, InHand
    <2>2. /\ DoneNext(app, rx, batch)' /\ issued' # 0 /\ app'.pending # NoCall
          /\ app'.processedCalls /\ ~app'.retryAt
          /\ app'.always => app'.dispatched
      BY <1>6, <2>1 DEF DoneNext, Kinds
    <2>3. Shown(app, rx)' \/ Runs(app, rx)' \/ HasEnded(app, rx)'
      <3>1. ASSUME rx' = q PROVE Kinds(rx)' \subseteq {"done"}
        BY <1>2, <3>1 DEF Kinds
      <3>2. ASSUME rx' = Append(q, e)
            PROVE  "result" \in Kinds(rx)' /\ Kinds(rx)' \subseteq {"done", "result"}
        <4>1. Kinds(rx)' = Kinds(q) \cup {"result"}
          BY <1>3, <3>2 DEF Kinds
        <4> QED
          BY <1>2, <4>1
      <3>3. /\ app'.approval # app'.asking /\ ~app'.executing /\ tools' = {}
               => (rx' = q => Shown(app, rx)')
            /\ /\ ~app'.approval /\ ~app'.asking /\ app'.executing
               /\ tools' = {[call |-> c, token |-> token]}
               => (rx' = q => Runs(app, rx)')
            /\ ~app'.approval /\ ~app'.asking /\ tools' = {}
               => (rx' = Append(q, e) => HasEnded(app, rx)')
        BY <3>1, <3>2 DEF Shown, Runs, HasEnded
      <3> QED
        BY <2>1, <3>3 DEF e
    <2> QED
      BY <1>5, <2>2, <2>3 DEF Calling
  <1>8. Listed(app)' /\ Tally(app, Due(app))'
    BY DEF Listed, Tally, Due, InHand, ElemsOf
  <1>9. Known(app)' /\ Ahead(app, rx)' /\ Allowed(app)'
    <2>1. ~AtWork' /\ "calls" \notin Kinds(rx')
      BY <1>2, <1>4, <1>5 DEF AtWork, AtRest, Over
    <2> QED
      BY <2>1 DEF Known, Ahead, Allowed, InHand, Kinds
  <1> QED
    BY <1>5, <1>7, <1>8, <1>9 DEF TurnInv, Turned, Phase

(* The call in hand and those after it are answered without being run.       *)
LEMMA CallFails ==
    ASSUME Past, NEW a, NEW c, NEW b, NEW q, InHand(a, c, q, batch'),
           Settle(b, q), Quiet(b), b.taken = a.taken,
           b.processedCalls, b.cancelPending = a.cancelPending
    PROVE  TurnInv'
  <1>1. "result" \notin Kinds(q) /\ Addressed(NoCall, q)
    BY NoResultAddressed DEF InHand
  <1>2. /\ app' = b /\ rx' = q /\ UNCHANGED <<task, issued, tools, token>>
    BY DEF Settle, work
  <1>3. /\ Past' /\ AtRest' /\ tools' = {} /\ Addressed(NoCall, rx)'
        /\ Known(app)'
    BY <1>1, <1>2 DEF Past, AtRest, Over, Addressed, Known, InHand
  <1>4. DoneNext(app', rx', batch')
    BY <1>2 DEF DoneNext, InHand
  <1> QED
    BY <1>2, <1>3, <1>4, QuietNext DEF InHand

(* Dispatching the call in hand,                                             *)
LEMMA DispatchTurn ==
    ASSUME Past, NEW a \in App, NEW q \in Seq(Events), Dispatch(a, q),
           a.pending # NoCall, InHand(a, a.pending, q, batch')
    PROVE  TurnInv' /\ UNCHANGED issued
  <1> DEFINE c == a.pending
             b == [a EXCEPT !.executing = TRUE, !.dispatched = TRUE,
                            !.processing = TRUE]
             d == [a EXCEPT !.processing = TRUE, !.dispatched = TRUE,
                            !.approval = FALSE]
             y == Answer(SettleTurn(a), {c})
             e == [y EXCEPT !.pending = NoCall, !.processing = FALSE,
                            !.dispatched = TRUE, !.approval = FALSE]
  <1>1. c \in Calls
    BY DEF App
  <1>2. /\ UNCHANGED <<task, issued, token>>
        /\ \/ app' = b /\ rx' = q
              /\ tools' = tools \cup {[call |-> c, token |-> token]}
           \/ app' = d /\ rx' = Append(q, ResultOf(c)) /\ tools' = tools
           \/ Settle(e, q)
    BY DEF Dispatch, Settle, work
  <1>3. /\ b.pending = c /\ b.queued = a.queued /\ b.taken = a.taken
        /\ b.results = a.results /\ b.processedCalls = a.processedCalls
        /\ b.retryAt = a.retryAt /\ b.cancelPending = a.cancelPending
        /\ b.always = a.always /\ b.dispatched /\ b.executing
        /\ b.approval = a.approval /\ b.asking = a.asking
    BY DEF App
  <1>4. /\ d.pending = c /\ d.queued = a.queued /\ d.taken = a.taken
        /\ d.results = a.results /\ d.processedCalls = a.processedCalls
        /\ d.retryAt = a.retryAt /\ d.cancelPending = a.cancelPending
        /\ d.always = a.always /\ d.dispatched /\ d.executing = a.executing
        /\ ~d.approval /\ d.asking = a.asking
    BY DEF App
  <1> HIDE DEF b, d
  <1>5. CASE app' = b /\ rx' = q
             /\ tools' = tools \cup {[call |-> c, token |-> token]}
    <2>1. /\ app'.processedCalls /\ ~app'.retryAt /\ Allowed(app')
          /\ ~app'.approval /\ ~app'.asking
      BY <1>3, <1>5 DEF InHand, Allowed
    <2> QED
      BY <1>1, <1>2, <1>3, <1>5, <2>1, CallNext
  <1>6. CASE app' = d /\ rx' = Append(q, ResultOf(c)) /\ tools' = tools
    <2>1. /\ app'.processedCalls /\ ~app'.retryAt /\ Allowed(app')
          /\ ~app'.approval /\ ~app'.asking
      BY <1>4, <1>6 DEF InHand, Allowed
    <2> QED
      BY <1>1, <1>2, <1>4, <1>6, <2>1, CallNext
  <1>7. CASE Settle(e, q)
    <2>1. /\ y \in App /\ SameFlags(a, y) /\ SameHand(a, y)
          /\ y.queued = <<>> /\ y.taken = a.taken /\ Tally(y, {})
      BY DueTally DEF InHand
    <2> HIDE DEF y
    <2>2. /\ e.pending = NoCall /\ e.queued = y.queued /\ e.taken = y.taken
          /\ e.results = y.results /\ e.processedCalls = y.processedCalls
          /\ e.retryAt = y.retryAt /\ e.cancelPending = y.cancelPending
          /\ e.always = y.always /\ e.executing = y.executing
          /\ ~e.approval /\ e.asking = y.asking
      BY <2>1 DEF App
    <2> HIDE DEF e
    <2>3. Quiet(e) /\ e.taken = a.taken /\ e.processedCalls
          /\ e.cancelPending = a.cancelPending
      BY <2>1, <2>2
      DEF Quiet, Resting, Tally, Allowed, InHand, SameFlags, SameHand
    <2> QED
      BY <1>2, <1>7, <2>3, CallFails
  <1> QED
    BY <1>2, <1>5, <1>6, <1>7

(* and beginning it.                                                         *)
LEMMA BeginTurn ==
    ASSUME Orderly, Past, task \in [Requests -> Tasks],
           NEW a0 \in App, NEW q \in Seq(Events), NEW c \in Calls,
           BeginCall(c, a0, q), InHand(a0, c, q, batch')
    PROVE  TurnInv' /\ UNCHANGED issued
  <1> DEFINE a == [a0 EXCEPT !.pending = c]
             b == [a EXCEPT !.processing = TRUE, !.dispatched = TRUE]
             d == [a EXCEPT !.asking = TRUE, !.processing = FALSE]
             e == [a EXCEPT !.approval = TRUE, !.processing = FALSE]
             y == Answer(a, {c})
             z == [y EXCEPT !.pending = NoCall, !.dispatched = TRUE,
                            !.processing = FALSE, !.approval = FALSE]
  <1>1. /\ a \in App /\ SameFlags(a0, a) /\ a.queued = a0.queued
        /\ a.taken = a0.taken /\ a.results = a0.results /\ a.pending = c
        /\ a.approval = a0.approval /\ a.asking = a0.asking
        /\ a.executing = a0.executing
    BY DEF App, SameFlags
  <1>2. InHand(a, c, q, batch')
    BY <1>1 DEF InHand, SameFlags, DoneNext, Tally, Known, Allowed
  <1>3. c # NoCall
    BY DEF NoCall, Calls, Requests
  <1>4. \/ Settle(b, Append(q, ResultOf(c)))
        \/ Settle(SettleTurn(z), q)
        \/ KindOf(c) = "ask" /\ Settle(d, q)
        \/ ~a.always /\ Settle(e, q)
        \/ Dispatch(a, q)
    BY DEF BeginCall
  <1> HIDE DEF a
  <1>5. CASE Settle(b, Append(q, ResultOf(c)))
    <2>1. /\ b.pending = c /\ b.queued = a.queued /\ b.taken = a.taken
          /\ b.results = a.results /\ b.processedCalls = a.processedCalls
          /\ b.retryAt = a.retryAt /\ b.cancelPending = a.cancelPending
          /\ b.always = a.always /\ b.dispatched /\ b.executing = a.executing
          /\ b.approval = a.approval /\ b.asking = a.asking
      BY <1>1 DEF App
    <2>2. /\ UNCHANGED <<task, issued, token, tools>> /\ app' = b
          /\ rx' = Append(q, ResultOf(c))
      BY <1>5 DEF Settle, work
    <2> HIDE DEF b
    <2>3. /\ app'.processedCalls /\ ~app'.retryAt /\ Allowed(app')
          /\ ~app'.approval /\ ~app'.asking
      BY <1>2, <2>1, <2>2 DEF InHand, Allowed
    <2> QED
      BY <1>2, <2>1, <2>2, <2>3, CallNext
  <1>6. ASSUME NEW f, f \in {d, e}, ~a.always, Settle(f, q)
        PROVE  TurnInv' /\ UNCHANGED issued
    <2>1. /\ f.pending = c /\ f.queued = a.queued /\ f.taken = a.taken
          /\ f.results = a.results /\ f.processedCalls = a.processedCalls
          /\ f.retryAt = a.retryAt /\ f.cancelPending = a.cancelPending
          /\ f.always = a.always /\ f.executing = a.executing
          /\ \/ f.approval = a.approval /\ f.asking
             \/ f.approval /\ f.asking = a.asking
      BY <1>1, <1>6 DEF App
    <2>2. UNCHANGED <<task, issued, token, tools>> /\ app' = f /\ rx' = q
      BY <1>6 DEF Settle, work
    <2> HIDE DEF d, e
    <2>3. /\ app'.processedCalls /\ ~app'.retryAt /\ Allowed(app')
          /\ app'.always => app'.dispatched
          /\ app'.approval # app'.asking /\ ~app'.executing
      <3>1. /\ app'.processedCalls /\ ~app'.retryAt /\ ~app'.always
            /\ ~app'.executing
        BY <1>2, <1>6, <2>1, <2>2 DEF InHand
      <3>2. app'.approval # app'.asking
        BY <1>1, <1>2, <2>1, <2>2 DEF InHand, App
      <3> QED
        BY <3>1, <3>2 DEF Allowed
    <2> QED
      BY <1>2, <2>1, <2>2, <2>3, CallNext
  <1>7. CASE KindOf(c) = "ask" /\ Settle(d, q)
    <2>1. KindOf(c) \in CallKinds
      <3>1. c[1] \in Requests /\ c[2] \in 1 .. Len(task[c[1]].calls)
        BY <1>2 DEF InHand, Known, Calls
      <3>2. task[c[1]].calls \in Replies
        BY <3>1 DEF Tasks
      <3>3. task[c[1]].calls \in Seq(CallKinds)
        BY <3>2, ReplyType
      <3> QED
        BY <3>1, <3>3 DEF KindOf
    <2>2. ~a.always
      BY <1>2, <1>7, <2>1 DEF Orderly, InHand, Allowed
    <2> QED
      BY <1>6, <1>7, <2>2
  <1>8. CASE Settle(SettleTurn(z), q)
    <2>1. /\ y \in App /\ SameFlags(a, y) /\ SameHand(a, y)
          /\ y.queued = a.queued /\ y.taken = a.taken
          /\ Tally(y, ElemsOf(y.queued))
      BY <1>1, <1>2, DueTally DEF InHand
    <2> HIDE DEF y
    <2>2. /\ z \in App /\ z.pending = NoCall /\ z.queued = y.queued
          /\ z.taken = y.taken /\ z.results = y.results
          /\ z.processedCalls = y.processedCalls
          /\ z.retryAt = y.retryAt /\ z.cancelPending = y.cancelPending
          /\ z.always = y.always /\ z.executing = y.executing
          /\ ~z.approval /\ z.asking = y.asking
      BY ZenonT(60), <2>1 DEF App
    <2> HIDE DEF z
    <2>3. Tally(z, ElemsOf(z.queued)) /\ ElemsOf(z.queued) \subseteq z.taken
      BY <1>2, <2>1, <2>2 DEF Tally, InHand
    <2>4. LET f == SettleTurn(z)
          IN  /\ f \in App /\ SameFlags(z, f) /\ SameHand(z, f)
              /\ f.queued = <<>> /\ f.taken = z.taken
              /\ Tally(f, ElemsOf(z.queued) \ ElemsOf(z.queued))
      BY <2>2, <2>3, SettleTurnTally
    <2>5. ElemsOf(z.queued) \ ElemsOf(z.queued) = {}
      OBVIOUS
    <2>6. Quiet(SettleTurn(z))
      BY <1>2, <2>1, <2>2, <2>4, <2>5
      DEF Quiet, Resting, Allowed, InHand, SameFlags, SameHand
    <2>7. /\ SettleTurn(z).taken = a.taken /\ SettleTurn(z).processedCalls
          /\ SettleTurn(z).cancelPending = a.cancelPending
      BY <1>2, <2>1, <2>2, <2>4 DEF InHand, SameFlags
    <2>8. UNCHANGED issued
      BY <1>8 DEF Settle, work
    <2> QED
      BY <1>2, <1>8, <2>6, <2>7, <2>8, CallFails
  <1>9. CASE Dispatch(a, q)
    BY <1>1, <1>2, <1>3, <1>9, DispatchTurn
  <1> QED
    BY <1>4, <1>5, <1>6, <1>7, <1>8, <1>9

-----------------------------------------------------------------------------
(* What a handler may assume, and hands over.                               *)

(* A request starts only when all the calls that were taken are answered.    *)
Complete == issued' # issued => \A c \in app.taken : app'.results[c] = 1

(* What the first event of the queue says of the turn.                       *)
LEMMA Received ==
    ASSUME TypeOK, TurnInv, NEW kind, Receive(kind)
    PROVE  /\ Rest \in Seq(Events) /\ Req \in Requests
           /\ InOrder(Rest) /\ Addressed(app.pending, Rest)
           /\ kind = "failed" => Kinds(Rest) = Kinds(rx) /\ Over(Req)
           /\ kind # "failed" =>
                  /\ Kinds(rx) = Kinds(Rest) \cup {kind}
                  /\ \A k \in Kinds(Rest) : <<kind, k>> \in Follows
           /\ kind = "result" => Head(rx).call = app.pending
           /\ kind \notin {"failed", "result"} => Req = issued
  <1>1. rx \in Seq(Events) /\ rx # <<>> /\ Head(rx).kind = kind
    BY DEF TypeOK, Receive
  <1>2. InOrder(rx) /\ Addressed(app.pending, rx)
    BY DEF TurnInv, Turned
  <1>3. Rest \in Seq(Events) /\ Req \in Requests
    BY ReceiveType
  <1> QED
    BY <1>1, <1>2, <1>3, TailOrder, HeadOrder DEF Rest, Req

(* Which phase the queue shows.                                              *)
LEMMA PhaseOf ==
    ASSUME TurnInv
    PROVE  /\ "chunk" \in Kinds(rx) \/ "persist" \in Kinds(rx) => Asked(app, rx)
           /\ \/ "calls" \in Kinds(rx) \/ "error" \in Kinds(rx)
              \/ "cancelled" \in Kinds(rx)
              => Replied(app, rx)
           /\ "result" \in Kinds(rx) =>
                  Calling(app, rx, batch) /\ HasEnded(app, rx)
           /\ "done" \in Kinds(rx) => ~Asked(app, rx)
  <1>1. Asked(app, rx) => Kinds(rx) \subseteq {"chunk", "persist"}
    BY DEF Asked, Awaited
  <1>2. Replied(app, rx) =>
            Kinds(rx) \in {{"calls", "done"}, {"done"}, {"error"}, {"cancelled"}}
    BY DEF Replied
  <1>3. Calling(app, rx, batch) =>
            /\ Kinds(rx) \subseteq {"done", "result"}
            /\ "result" \in Kinds(rx) => HasEnded(app, rx)
    BY DEF Calling, Shown, Runs, HasEnded
  <1>4. Settled(app, rx, batch) => Kinds(rx) \subseteq {"done"}
    BY DEF Settled
  <1>5. \/ Asked(app, rx) \/ Replied(app, rx) \/ Calling(app, rx, batch)
        \/ Settled(app, rx, batch)
    BY DEF TurnInv, Turned, Phase
  <1> QED
    BY <1>1, <1>2, <1>3, <1>4, <1>5

(* With nothing in hand, nothing is due.                                     *)
LEMMA RestingTally ==
    ASSUME TurnInv, Resting(app)
    PROVE  Tally(app, {}) /\ Allowed(app) /\ Known(app)
  <1>1. ElemsOf(app.queued) = {} /\ NoCall \notin Calls
    BY DEF Resting, ElemsOf, NoCall, Calls, Requests
  <1> QED
    BY <1>1 DEF TurnInv, Turned, Tally, Due, Resting

(* The handler settles the turn and nothing else.                            *)
LEMMA SettledNext ==
    ASSUME TurnInv, NEW b, NEW q, Settle(b, q), Quiet(b), b.taken = app.taken,
           AtRest, tools = {}, InOrder(q), Addressed(NoCall, q),
           Kinds(q) \subseteq {"done"}, DoneNext(b, q, batch')
    PROVE  TurnInv' /\ Complete
  <1>1. /\ app' = b /\ rx' = q /\ UNCHANGED <<task, issued, tools, token>>
    BY DEF Settle, work
  <1>2. Known(app) /\ Past
    BY DEF TurnInv, Turned
  <1>3. /\ Past' /\ AtRest' /\ tools' = {} /\ Addressed(NoCall, rx)'
        /\ Known(app)'
    BY <1>1, <1>2 DEF Past, AtRest, Over, Addressed, Known
  <1> QED
    BY <1>1, <1>3, QuietNext DEF Complete

(* The record is left as it is, but perhaps for the cancellation.            *)
LEMMA CancelTurned ==
    ASSUME NEW a \in App, NEW b \in App, NEW q, NEW t, Turned(a, q, t),
           SameHand(a, b), a.processing => b.processing,
           b.processedCalls = a.processedCalls, b.dispatched = a.dispatched,
           b.always = a.always, b.retryAt = a.retryAt,
           b.queued = a.queued, b.taken = a.taken, b.results = a.results,
           \/ ~t \/ b.cancelPending = a.cancelPending \/ Asked(a, q)
    PROVE  Turned(b, q, t)
  <1>1. Phase(b, q, t)
    <2>1. Asked(a, q) => Asked(b, q)
      BY DEF Asked, Resting, Expecting, SameHand
    <2>2. Replied(a, q) => Replied(b, q)
      BY DEF Replied, Resting, Expecting, SameHand
    <2>3. ~Asked(a, q) /\ DoneNext(a, q, t) => DoneNext(b, q, t)
      BY DEF DoneNext
    <2>4. /\ Shown(a, q) => Shown(b, q)
          /\ Runs(a, q) => Runs(b, q)
          /\ HasEnded(a, q) => HasEnded(b, q)
      BY DEF Shown, Runs, HasEnded, SameHand
    <2>5. ~Asked(a, q) /\ Calling(a, q, t) => Calling(b, q, t)
      BY <2>3, <2>4 DEF Calling, SameHand
    <2>6. ~Asked(a, q) /\ Settled(a, q, t) => Settled(b, q, t)
      BY <2>3 DEF Settled, Resting, SameHand
    <2> QED
      BY <2>1, <2>2, <2>5, <2>6 DEF Turned, Phase
  <1> QED
    BY <1>1 DEF Turned, SameHand, Listed, Tally, Due, Known, Ahead, Allowed

(* An event is dropped that the turn does not wait for.                      *)
LEMMA RestTurned ==
    ASSUME Orderly, TypeOK, TurnInv, NEW kind, Receive(kind), GoOn, rx' = Rest,
           kind \in {"failed", "chunk"} \/ (kind = "calls" /\ Replied(app, rx))
    PROVE  Turned(app, Rest, batch')
  <1>1. /\ Rest \in Seq(Events) /\ InOrder(Rest) /\ Addressed(app.pending, Rest)
        /\ kind = "failed" => Kinds(Rest) = Kinds(rx)
        /\ kind # "failed" => /\ Kinds(rx) = Kinds(Rest) \cup {kind}
                              /\ \A k \in Kinds(Rest) : <<kind, k>> \in Follows
    BY Received
  <1>2. "done" \in Kinds(Rest) => batch'
    BY <1>1, GoOnDone, KindsOfNone
  <1>3. Kinds(Rest) \subseteq Kinds(rx)
    BY <1>1
  <1>4. Phase(app, Rest, batch')
    <2>1. CASE kind = "failed"
      <3>1. DoneNext(app, rx, batch) => DoneNext(app, Rest, batch')
        BY <1>1, <1>2, <2>1 DEF DoneNext
      <3>2. Kinds(Rest) = Kinds(rx)
        BY <1>1, <2>1
      <3> QED
        BY <3>1, <3>2 DEF TurnInv, Turned, Phase, Asked, Replied, Calling, Settled,
           Shown, Runs, HasEnded
    <2>2. CASE kind = "chunk"
      BY <1>1, <2>2, PhaseOf DEF Phase, Asked
    <2>3. CASE kind = "calls" /\ Replied(app, rx)
      <3>1. Kinds(Rest) = {"done"}
        BY <1>1, <2>3 DEF Replied, Follows
      <3> QED
        BY <2>3, <3>1 DEF Phase, Replied
    <2> QED
      BY <2>1, <2>2, <2>3
  <1> QED
    BY <1>1, <1>3, <1>4 DEF TurnInv, Turned, Ahead

-----------------------------------------------------------------------------
(* The event handlers.                                                      *)

(* A chunk, perhaps the one that shows a loop and stops the request.         *)
LEMMA ChunkTurn ==
    ASSUME Orderly, TypeOK, TurnInv, HandleChunk
    PROVE  TurnInv' /\ Complete
  <1> DEFINE b == [app EXCEPT !.text = TRUE]
             d == [app EXCEPT !.text = TRUE, !.cancelPending = TRUE]
  <1>1. Receive("chunk") /\ GoOn /\ rx' = Rest
        /\ app' \in {app, b, d} /\ UNCHANGED <<task, issued, tools, token>>
    BY DEF HandleChunk, Settle, work
  <1>2. Turned(app, Rest, batch')
    BY <1>1, RestTurned
  <1>3. app \in App /\ b \in App /\ d \in App /\ SameTurn(app, b)
        /\ SameHand(app, d) /\ d.queued = app.queued /\ d.taken = app.taken
        /\ d.results = app.results
    BY DEF TypeOK, App, SameTurn, SameFlags, SameHand
  <1>4. /\ d.processing = app.processing /\ d.processedCalls = app.processedCalls
        /\ d.dispatched = app.dispatched /\ d.always = app.always
        /\ d.retryAt = app.retryAt
    BY DEF TypeOK, App
  <1>5. Asked(app, Rest)
    <2>1. Asked(app, rx) /\ Kinds(Rest) \subseteq Kinds(rx)
      BY <1>1, Received, PhaseOf
    <2> QED
      BY <2>1 DEF Asked
  <1> HIDE DEF b, d
  <1>6. Turned(app', rx', batch')
    BY <1>1, <1>2, <1>3, <1>4, <1>5, SameTurned, CancelTurned
  <1> QED
    BY <1>1, <1>6, TurnNext DEF TurnInv, Complete

(* The checkpoint of the request that is at work.                            *)
LEMMA PersistTurn ==
    ASSUME TypeOK, TurnInv, HandlePersist
    PROVE  TurnInv' /\ Complete
  <1> DEFINE b == CloseMarker(app, Req)
             d == [b EXCEPT !.called = @ \cup ElemsOf(CallsOf(Req))]
  <1>1. /\ Receive("persist") /\ rx' = Rest /\ UNCHANGED <<issued, tools, token>>
        /\ \/ task' = [task EXCEPT ![Req].state = "acked"] /\ app' = d
           \/ /\ task' = [task EXCEPT ![Req].state = "refused"]
              /\ app' = SettlementFailed(app, Req)
    BY DEF HandlePersist, SetState
  <1>2. /\ Rest \in Seq(Events) /\ InOrder(Rest) /\ Addressed(app.pending, Rest)
        /\ Kinds(Rest) = {} /\ Req = issued /\ Req \in Requests
    <2>1. \A k \in Kinds(Rest) : <<"persist", k>> \in Follows
      BY <1>1, Received
    <2> QED
      BY <1>1, <2>1, Received DEF Follows
  <1>3. Asked(app, rx) /\ Past
    BY <1>1, Received, PhaseOf DEF TurnInv
  <1>4. /\ Quiet(app) /\ Known(app) /\ Addressed(NoCall, Rest)
        /\ tools = {} /\ token = issued /\ AtWork
    BY <1>2, <1>3, RestingTally DEF Asked, Quiet, Expecting, Resting
  <1>5. app \in App /\ task \in [Requests -> Tasks] /\ issued \in 0 .. MaxRequests
    BY DEF TypeOK
  <1>6. /\ \A r \in Requests : task'[r].calls = task[r].calls
        /\ \A r \in Requests : Over(r) => Over(r)'
        /\ \A r \in Requests \ {issued} : task'[r] = task[r]
    <2>1. task[issued].state \notin {"refused", "ended"}
      BY <1>4 DEF AtWork
    <2> QED
      BY <1>1, <1>2, <1>5, <2>1 DEF Over, Tasks
  <1>7. Past' /\ Addressed(NoCall, rx)'
    <2>1. Past'
      BY <1>1, <1>2, <1>3, <1>6 DEF Past, Over, Requests
    <2>2. \A i \in DOMAIN Rest : Rest[i].req \in Requests
      <3>1. \A i \in DOMAIN Rest : Rest[i] \in Events
        BY <1>2
      <3> QED
        BY <3>1 DEF Events
    <2> QED
      BY <1>1, <1>4, <1>6, <2>1, <2>2 DEF Addressed
  <1>8. CASE task' = [task EXCEPT ![Req].state = "acked"] /\ app' = d
    <2>1. b \in App /\ SameTurn(app, b)
      BY <1>5, CloseTurn
    <2> HIDE DEF b
    <2>2. SameTurn(b, d)
      BY <2>1 DEF App, SameTurn, SameFlags, SameHand
    <2>3. SameTurn(app, app')
      BY <1>8, <2>1, <2>2 DEF SameTurn, SameFlags, SameHand
    <2> HIDE DEF d
    <2>4. task'[issued].state = "acked"
      BY <1>2, <1>5, <1>8 DEF Tasks
    <2>5. Asked(app, rx)'
      BY ZenonT(60), <1>1, <1>2, <1>3, <1>4, <2>3, <2>4
      DEF Asked, AtWork, Resting, Expecting, SameTurn, SameFlags, SameHand, Kinds
    <2>6. Turned(app, Rest, batch')
      BY <1>2, <1>3, <1>4 DEF TurnInv, Turned, Phase, Asked, Ahead
    <2>7. Listed(app') /\ Tally(app', Due(app')) /\ Allowed(app')
      BY <2>3, <2>6 DEF Turned, Listed, Tally, Due, Allowed, SameTurn, SameFlags,
         SameHand
    <2>8. Known(app)' /\ Ahead(app, rx)'
      <3>1. /\ app'.taken = app.taken /\ app.taken \subseteq Calls
            /\ \A c \in Calls : c[1] \in Requests
        BY <1>5, <2>3 DEF App, SameTurn, Calls
      <3>2. \A c \in app.taken : c[1] # issued
        BY <1>4, <2>6 DEF Turned, Ahead
      <3> QED
        BY <1>1, <1>4, <1>6, <3>1, <3>2 DEF Known, Ahead
    <2>9. app'.pending = NoCall /\ InOrder(rx')
      BY <1>1, <1>2, <1>4, <2>3 DEF Quiet, Resting, SameTurn, SameHand
    <2> QED
      BY <1>1, <1>7, <2>5, <2>7, <2>8, <2>9
      DEF TurnInv, Turned, Phase, InOrder, Listed, Tally, Due, Allowed, Complete
  <1>9. CASE /\ task' = [task EXCEPT ![Req].state = "refused"]
              /\ app' = SettlementFailed(app, Req)
    <2>1. Quiet(app') /\ app'.taken = app.taken
      BY <1>4, <1>5, <1>9, FailedQuiet
    <2>2. AtRest' /\ tools' = {}
      BY <1>1, <1>2, <1>4, <1>5, <1>9 DEF AtRest, Over, Tasks
    <2>3. Known(app)'
      <3>1. /\ app.taken \subseteq Calls /\ \A c \in Calls : c[1] \in Requests
        BY <1>5 DEF App, Calls
      <3> QED
        BY <1>1, <1>4, <1>6, <2>1, <3>1 DEF Known
    <2> QED
      BY <1>1, <1>2, <1>7, <2>1, <2>2, <2>3, QuietNext DEF DoneNext, Complete
  <1> QED
    BY <1>1, <1>8, <1>9

(* What a refused checkpoint leaves behind is no matter of the turn.         *)
LEMMA FailedTurn ==
    ASSUME Orderly, TypeOK, IInv, TurnInv, HandleFailed
    PROVE  TurnInv' /\ Complete
  <1> DEFINE b == SettlementFailed(app, Req)
  <1>1. /\ Receive("failed") /\ GoOn /\ rx' = Rest /\ app' = b
        /\ UNCHANGED <<task, issued, tools, token>>
    BY DEF HandleFailed, Settle, work
  <1>2. Turned(app, Rest, batch')
    BY <1>1, RestTurned
  <1>3. app.active # Req
    <2>1. Req \in Requests /\ Over(Req)
      BY <1>1, Received
    <2>2. Req \notin Live /\ Req # 0
      BY <2>1 DEF Over, Live, Requests
    <2> QED
      BY <2>2 DEF IInv, MarkerIsLive
  <1>4. SameTurn(app, b)
    BY <1>3, FailedQuiet DEF TypeOK
  <1> HIDE DEF b
  <1> QED
    BY <1>1, <1>2, <1>4, SameTurned, TurnNext DEF TurnInv, Complete

(* A reply that ends a turn was the last event; only Done comes with a       *)
(* result behind it.                                                         *)
LEMMA EndOfReply ==
    ASSUME TypeOK, TurnInv, NEW kind \in {"error", "cancelled"}, Receive(kind)
    PROVE  /\ Quiet(app) /\ AtRest /\ issued # 0 /\ tools = {} /\ Rested(Rest)
           /\ Expecting(app)
  <1>1. Replied(app, rx)
    BY Received, PhaseOf
  <1>2. Kinds(Rest) = {} /\ InOrder(Rest) /\ Addressed(app.pending, Rest)
    <2>1. \A k \in Kinds(Rest) : <<kind, k>> \in Follows
      BY Received
    <2> QED
      BY <2>1, Received DEF Follows
  <1>3. Resting(app)
    BY <1>1 DEF Replied
  <1> QED
    BY <1>1, <1>2, <1>3, RestingTally
    DEF Replied, Quiet, Expecting, Rested, Resting

(* The client was stopped: its turn is settled.                              *)
LEMMA CancelledTurn ==
    ASSUME TypeOK, TurnInv, HandleCancelled
    PROVE  TurnInv' /\ Complete
  <1> DEFINE b == CloseMarker(app, Req)
  <1>1. /\ Receive("cancelled")
        /\ Settle(SettleCancellation(b), Rest) \/ Settle(b, Rest)
    BY DEF HandleCancelled
  <1>2. Quiet(app) /\ AtRest /\ tools = {} /\ Rested(Rest)
    BY <1>1, EndOfReply
  <1>3. b \in App /\ SameTurn(app, b)
    BY CloseTurn DEF TypeOK
  <1> HIDE DEF b
  <1>4. Quiet(b) /\ b.taken = app.taken
    BY <1>2, <1>3 DEF Quiet, Resting, Tally, Allowed, SameTurn, SameFlags, SameHand
  <1>5. Quiet(SettleCancellation(b)) /\ SettleCancellation(b).taken = app.taken
    BY <1>3, <1>4, CancellationQuiet
  <1> QED
    BY <1>1, <1>2, <1>4, <1>5, SettledNext DEF Rested, DoneNext

(* A provider error: the retry is scheduled or the turn is settled.          *)
LEMMA ErrorTurn ==
    ASSUME TypeOK, TurnInv, HandleError
    PROVE  TurnInv' /\ Complete
  <1> DEFINE z == [app EXCEPT !.attempts = 0]
             y == [z EXCEPT !.processing = FALSE]
             a == [app EXCEPT !.attempts = 0, !.processing = FALSE]
             e == [a EXCEPT !.active = 0]
             t == [app EXCEPT !.attempts = @ + 1, !.processing = TRUE,
                              !.retryAt = TRUE, !.text = FALSE]
  <1>1. /\ Receive("error")
        /\ \/ Settle(t, Rest)
           \/ Settle(SettleCancellation(e), Rest)
           \/ Settle(SettleTurn(a), Rest)
           \/ app.executing
    <2>1. a.executing = app.executing
      BY DEF TypeOK, App
    <2> QED
      BY <2>1 DEF HandleError
  <1>2. /\ Quiet(app) /\ AtRest /\ issued # 0 /\ tools = {} /\ Rested(Rest)
        /\ ~app.executing /\ Known(app)
    BY <1>1, EndOfReply, RestingTally DEF Quiet, Resting
  <1>3. a \in App /\ SameHand(app, a) /\ a.queued = app.queued
        /\ a.taken = app.taken /\ a.results = app.results
        /\ a.retryAt = app.retryAt /\ a.always = app.always
    <2>1. /\ y = a /\ SameHand(app, a) /\ a.queued = app.queued
          /\ a.taken = app.taken /\ a.results = app.results
          /\ a.retryAt = app.retryAt /\ a.always = app.always
      BY DEF TypeOK, App, SameHand
    <2>2. z \in App
      BY ResetAttempts DEF TypeOK
    <2> HIDE DEF z, a
    <2>3. y \in App
      BY <2>2 DEF App
    <2> QED
      BY <2>1, <2>3
  <1>4. /\ SameHand(app, t) /\ t.queued = app.queued /\ t.taken = app.taken
        /\ t.results = app.results /\ t.always = app.always
        /\ t.processing /\ t.retryAt
    BY DEF TypeOK, App, SameHand
  <1> HIDE DEF a, t
  <1>5. e \in App /\ SameTurn(a, e)
    BY <1>3 DEF App, SameTurn, SameFlags, SameHand
  <1> HIDE DEF e
  <1>6. Quiet(a) /\ Quiet(e) /\ e.taken = app.taken
    BY <1>2, <1>3, <1>5
    DEF Quiet, Resting, Tally, Allowed, SameTurn, SameFlags, SameHand
  <1>7. /\ Quiet(SettleTurn(a)) /\ SettleTurn(a).taken = app.taken
        /\ Quiet(SettleCancellation(e)) /\ SettleCancellation(e).taken = app.taken
    BY <1>3, <1>5, <1>6, SettleTurnQuiet, CancellationQuiet
  <1>8. CASE Settle(t, Rest)
    <2>1. app' = t /\ rx' = Rest /\ UNCHANGED <<task, issued, tools, token>>
      BY <1>8 DEF Settle, work
    <2>2. Settled(t, Rest, batch')
      BY <1>2, <1>4 DEF Settled, Rested, Quiet, Resting, SameHand, DoneNext
    <2>3. /\ Listed(t) /\ Tally(t, Due(t)) /\ Known(t) /\ Allowed(t)
          /\ t.pending = NoCall
      BY <1>2, <1>4
      DEF TurnInv, Turned, Listed, Tally, Due, Known, Allowed, SameHand, Quiet, Resting
    <2>4. Ahead(t, Rest)
      BY <1>2 DEF Ahead, AtWork, AtRest, Over, Rested
    <2>5. Turned(t, Rest, batch')
      BY <1>2, <2>2, <2>3, <2>4 DEF Turned, Phase, Rested
    <2> QED
      BY <2>1, <2>5, TurnNext DEF TurnInv, Complete
  <1> QED
    BY <1>1, <1>2, <1>7, <1>8, SettledNext DEF Rested, DoneNext

(* The first of different calls, and those after it.                         *)
LEMMA SplitCalls ==
    ASSUME NEW s \in Seq(Calls), s # <<>>,
           \A i, j \in DOMAIN s : s[i] = s[j] => i = j
    PROVE  /\ Head(s) \in Calls /\ Tail(s) \in Seq(Calls)
           /\ ElemsOf(Tail(s)) \cup {Head(s)} = ElemsOf(s)
           /\ Head(s) \notin ElemsOf(Tail(s))
           /\ \A i, j \in DOMAIN Tail(s) : Tail(s)[i] = Tail(s)[j] => i = j
  <1> DEFINE t == Tail(s)
             h == Head(s)
  <1>1. /\ h \in Calls /\ t \in Seq(Calls) /\ 1 \in DOMAIN s /\ h = s[1]
        /\ \A i \in DOMAIN t : i + 1 \in DOMAIN s /\ t[i] = s[i + 1]
        /\ \A i \in DOMAIN s : i # 1 => i - 1 \in DOMAIN t /\ s[i] = t[i - 1]
        /\ \A i \in DOMAIN t : i \in Nat /\ i >= 1
    OBVIOUS
  <1> HIDE DEF t, h
  <1>2. ElemsOf(t) \cup {h} = ElemsOf(s)
    BY <1>1 DEF ElemsOf
  <1>3. h \notin ElemsOf(t)
    <2> SUFFICES ASSUME NEW i \in DOMAIN t, t[i] = h PROVE FALSE
      BY DEF ElemsOf
    <2>1. i + 1 = 1
      BY <1>1
    <2> QED
      BY <1>1, <2>1
  <1>4. \A i, j \in DOMAIN t : t[i] = t[j] => i = j
    <2> SUFFICES ASSUME NEW i \in DOMAIN t, NEW j \in DOMAIN t, t[i] = t[j]
                 PROVE  i = j
      OBVIOUS
    <2>1. i + 1 = j + 1
      BY <1>1
    <2> QED
      BY <1>1, <2>1
  <1> QED
    BY <1>1, <1>2, <1>3, <1>4 DEF t, h

(* The calls of a reply are different calls of that request.                 *)
LEMMA CallsOfReply ==
    ASSUME NEW r \in Requests, task \in [Requests -> Tasks]
    PROVE  /\ CallsOf(r) \in Seq(Calls)
           /\ \A i, j \in DOMAIN CallsOf(r) : CallsOf(r)[i] = CallsOf(r)[j] => i = j
           /\ \A c \in ElemsOf(CallsOf(r)) :
                  c[1] = r /\ c[2] <= Len(task[r].calls)
  <1>1. task[r].calls \in Replies
    BY DEF Tasks
  <1>2. Len(task[r].calls) \in Nat
    BY <1>1, ReplyType, BoundAssumption
  <1>3. /\ DOMAIN CallsOf(r) = 1 .. Len(task[r].calls)
        /\ \A i \in DOMAIN CallsOf(r) : CallsOf(r)[i] = <<r, i>>
    BY DEF CallsOf
  <1>4. CallsOf(r) \in Seq(Calls)
    BY CallsOfType
  <1>5. \A i, j \in DOMAIN CallsOf(r) : CallsOf(r)[i] = CallsOf(r)[j] => i = j
    BY <1>3
  <1>6. ASSUME NEW c \in ElemsOf(CallsOf(r))
        PROVE  c[1] = r /\ c[2] <= Len(task[r].calls)
    <2>1. PICK i \in 1 .. Len(task[r].calls) : c = <<r, i>>
      BY <1>3 DEF ElemsOf
    <2> QED
      BY <1>2, <2>1
  <1> QED
    BY <1>4, <1>5, <1>6

(* The calls of a reply: they are taken and the first is begun, or they are  *)
(* rejected or ignored.                                                      *)
LEMMA ToolCallsTurn ==
    ASSUME Orderly, TypeOK, TurnInv, HandleToolCalls
    PROVE  TurnInv' /\ Complete
  <1> DEFINE cs == CallsOf(Req)
             z  == [app EXCEPT !.processedCalls = TRUE]
             a  == [z EXCEPT !.processing = FALSE]
             b  == [z EXCEPT !.pending = NoCall, !.approval = FALSE,
                             !.asking = FALSE, !.processing = FALSE,
                             !.executing = FALSE, !.dispatched = FALSE,
                             !.called = @ \ ElemsOf(cs)]
             e  == [z EXCEPT !.queued = Tail(cs),
                             !.called = @ \cup ElemsOf(cs),
                             !.taken = @ \cup ElemsOf(cs)]
  <1>1. /\ Receive("calls") /\ GoOn
        /\ \/ IgnoresCalls(app) /\ Settle(app, Rest)
           \/ /\ ~app.cancelPending
              /\ \/ Settle(SettleTurn(a), Rest) \/ Settle(SettleTurn(b), Rest)
                 \/ cs # <<>> /\ BeginCall(Head(cs), e, Rest)
    BY DEF HandleToolCalls, HandleCalls, IgnoresCalls
  <1>2. /\ Rest \in Seq(Events) /\ InOrder(Rest) /\ Addressed(app.pending, Rest)
        /\ Kinds(Rest) = {"done"} /\ Req = issued /\ Req \in Requests
    <2>1. Replied(app, rx) /\ \A k \in Kinds(Rest) : <<"calls", k>> \in Follows
      BY <1>1, Received, PhaseOf
    <2> QED
      BY <1>1, <2>1, Received DEF Follows, Replied
  <1>3. Replied(app, rx) /\ Past
    BY <1>1, Received, PhaseOf DEF TurnInv
  <1>4. /\ Quiet(app) /\ Known(app) /\ Addressed(NoCall, Rest)
        /\ tools = {} /\ AtRest /\ issued # 0
    BY <1>2, <1>3, RestingTally DEF Replied, Quiet, Expecting, Resting
  <1>5. app \in App /\ task \in [Requests -> Tasks] /\ issued \in Nat
    BY DEF TypeOK
  <1>6. rx' = Rest /\ Rest # <<>> => batch'
    BY <1>1, <1>2, GoOnDone
  <1>7. Rest # <<>>
    BY <1>2, KindsOfNone
  <1>8. /\ cs \in Seq(Calls)
        /\ \A i, j \in DOMAIN cs : cs[i] = cs[j] => i = j
        /\ \A c \in ElemsOf(cs) : c[1] = issued /\ c[2] <= Len(task[issued].calls)
    BY <1>2, <1>5, CallsOfReply
  <1>9. z \in App /\ SameHand(app, z) /\ z.queued = app.queued
        /\ z.taken = app.taken /\ z.results = app.results
        /\ z.retryAt = app.retryAt /\ z.always = app.always
        /\ z.processedCalls /\ z.cancelPending = app.cancelPending
    BY <1>5 DEF App, SameHand
  <1> HIDE DEF cs, z
  <1>10. ASSUME NEW f \in {a, b}, ~app.cancelPending, Settle(SettleTurn(f), Rest)
         PROVE  TurnInv' /\ Complete
    <2>1. /\ b.queued = z.queued /\ b.taken = z.taken /\ b.results = z.results
          /\ b.retryAt = z.retryAt /\ b.always = z.always
          /\ b.processedCalls = z.processedCalls
          /\ b.cancelPending = z.cancelPending
          /\ a.queued = z.queued /\ a.taken = z.taken /\ a.results = z.results
          /\ a.retryAt = z.retryAt /\ a.always = z.always
          /\ a.processedCalls = z.processedCalls
          /\ a.cancelPending = z.cancelPending
      BY <1>9 DEF App
    <2>2. /\ f.queued = app.queued /\ f.taken = app.taken
          /\ f.results = app.results /\ f.retryAt = app.retryAt
          /\ f.always = app.always /\ f.processedCalls
          /\ f.cancelPending = app.cancelPending
      BY <1>9, <2>1
    <2>3. f.pending = NoCall /\ ~f.approval /\ ~f.asking /\ ~f.executing
      BY <1>4, <1>9 DEF App, SameHand, Quiet, Resting
    <2>4. a \in App /\ b \in App
      BY ZenonT(60), <1>9 DEF App, NoCall
    <2> HIDE DEF a, b
    <2>5. Quiet(f)
      BY <1>4, <2>2, <2>3 DEF Quiet, Resting, Tally, Allowed
    <2>6. /\ Quiet(SettleTurn(f)) /\ SettleTurn(f).taken = app.taken
          /\ SettleTurn(f).processedCalls /\ ~SettleTurn(f).cancelPending
      BY <1>10, <2>2, <2>4, <2>5, SettleTurnQuiet DEF SameFlags
    <2>7. batch'
      BY <1>6, <1>7, <1>10 DEF Settle
    <2> QED
      BY <1>2, <1>4, <1>10, <2>6, <2>7, SettledNext DEF DoneNext
  <1>11. ASSUME ~app.cancelPending, cs # <<>>, BeginCall(Head(cs), e, Rest)
         PROVE  TurnInv' /\ Complete
    <2> DEFINE c == Head(cs)
    <2>1. /\ c \in Calls /\ Tail(cs) \in Seq(Calls)
          /\ ElemsOf(Tail(cs)) \cup {c} = ElemsOf(cs)
          /\ c \notin ElemsOf(Tail(cs))
          /\ \A i, j \in DOMAIN Tail(cs) : Tail(cs)[i] = Tail(cs)[j] => i = j
      BY <1>8, <1>11, SplitCalls
    <2>2. ElemsOf(cs) \subseteq Calls
      BY <1>2, <1>5, CallsOfType DEF cs
    <2>3. /\ e \in App /\ SameHand(app, e) /\ e.queued = Tail(cs)
          /\ e.taken = app.taken \cup ElemsOf(cs) /\ e.results = app.results
          /\ e.retryAt = app.retryAt /\ e.always = app.always
          /\ e.processedCalls /\ ~e.cancelPending
      BY <1>9, <1>11, <2>1, <2>2 DEF App, SameHand
    <2> HIDE DEF e, c
    <2>4. \A k \in app.taken : k[1] # issued
      BY <1>1, Received DEF TurnInv, Turned, Ahead
    <2>5. Known(e)
      BY <1>4, <1>5, <1>8, <2>3 DEF Known
    <2>6. Tally(e, ElemsOf(e.queued) \cup {c})
      <3>1. \A k \in Calls : k \in e.taken \ ElemsOf(cs) <=> k \in app.taken
        BY <1>8, <2>3, <2>4
      <3> QED
        BY <1>4, <2>1, <2>3, <3>1 DEF Tally, Quiet
    <2>7. Addressed(c, Rest)
      BY <1>2, <1>4, NoResultAddressed
    <2>8. batch'
      <3>1. rx' # <<>>
        <4>1. \/ rx' = Rest \/ rx' = Append(Rest, ResultOf(c))
          BY <1>11, <2>3 DEF BeginCall, Dispatch, Settle, c
        <4> QED
          BY <1>2, <1>7, <4>1
      <3> QED
        BY <1>1, <3>1 DEF GoOn, Orderly
    <2>9. InHand(e, c, Rest, batch')
      BY <1>2, <1>4, <2>1, <2>3, <2>5, <2>6, <2>7, <2>8
      DEF InHand, DoneNext, SameHand, Quiet, Resting, Allowed
    <2>10. TurnInv' /\ UNCHANGED issued
      BY <1>2, <1>3, <1>5, <1>11, <2>1, <2>3, <2>9, BeginTurn DEF c
    <2> QED
      BY <2>10 DEF Complete
  <1>12. CASE Settle(app, Rest)
    <2>1. rx' = Rest /\ app' = app /\ UNCHANGED <<task, issued, tools, token>>
      BY <1>12 DEF Settle, work
    <2>2. Turned(app, Rest, batch')
      BY <1>1, <1>3, <2>1, RestTurned
    <2> QED
      BY <1>3, <2>1, <2>2, TurnNext DEF Complete
  <1> QED
    BY <1>1, <1>10, <1>11, <1>12

(* The result of the call in hand: the next call is begun, or the model is   *)
(* asked again, or a cancellation is settled.                                *)
LEMMA ToolResultTurn ==
    ASSUME Orderly, TypeOK, TurnInv, HandleToolResult
    PROVE  TurnInv' /\ Complete
  <1> DEFINE y == Answer(app, {Head(rx).call})
             a == [y EXCEPT !.executing = FALSE, !.pending = NoCall]
             x == AbandonQueued(a)
             b == [x EXCEPT !.processedCalls = FALSE, !.dispatched = FALSE,
                            !.text = FALSE]
             d == [b EXCEPT !.cancelPending = FALSE, !.processing = FALSE]
             n == [a EXCEPT !.queued = Tail(@), !.dispatched = FALSE,
                            !.processing = TRUE]
  <1>1. /\ Receive("result")
        /\ \/ a.queued # <<>> /\ BeginCall(Head(a.queued), n, Rest)
           \/ Settle(b, Rest) \/ Settle(SettleTurn(d), Rest)
           \/ a.queued = <<>> /\ StartRequest(a, Rest, FALSE)
    BY DEF HandleToolResult
  <1>2. /\ Rest \in Seq(Events) /\ InOrder(Rest) /\ Addressed(NoCall, Rest)
        /\ Kinds(Rest) = {} /\ Head(rx).call = app.pending
        /\ \A c : Addressed(c, Rest)
    <2>1. Kinds(Rest) = {}
      <3>1. \A k \in Kinds(Rest) : <<"result", k>> \in Follows
        BY <1>1, Received
      <3> QED
        BY <3>1 DEF Follows
    <2> QED
      BY <1>1, <2>1, Received, NoResultAddressed
  <1>3. Calling(app, rx, batch) /\ HasEnded(app, rx) /\ Past
    BY <1>1, Received, PhaseOf DEF TurnInv
  <1>4. /\ app \in App /\ task \in [Requests -> Tasks] /\ WorkOK
        /\ app.pending # NoCall
        /\ ~app.approval /\ ~app.asking /\ ~app.retryAt /\ app.processedCalls
        /\ tools = {} /\ AtRest /\ issued # 0
    BY <1>3 DEF TypeOK, WorkOK, Calling, HasEnded
  <1>5. /\ Tally(app, ElemsOf(app.queued) \cup {app.pending}) /\ Known(app)
        /\ ElemsOf(app.queued) \subseteq app.taken /\ app.pending \in app.taken
        /\ app.pending \notin ElemsOf(app.queued) /\ Allowed(app)
        /\ \A i, j \in DOMAIN app.queued : app.queued[i] = app.queued[j] => i = j
    BY <1>4 DEF TurnInv, Turned, Listed, Due
  <1>6. /\ y \in App /\ SameFlags(app, y) /\ SameHand(app, y)
        /\ y.queued = app.queued /\ y.taken = app.taken
        /\ Tally(y, ElemsOf(y.queued))
    BY <1>2, <1>4, <1>5, DueTally
  <1> HIDE DEF y
  <1>7. /\ a \in App /\ SameFlags(y, a) /\ a.pending = NoCall /\ ~a.executing
        /\ a.approval = y.approval /\ a.asking = y.asking
        /\ a.queued = y.queued /\ a.taken = y.taken /\ a.results = y.results
    BY <1>6 DEF App, SameFlags
  <1> HIDE DEF a
  <1>8. /\ Tally(a, ElemsOf(a.queued)) /\ Known(a) /\ Allowed(a) /\ ~a.retryAt
        /\ ~a.approval /\ ~a.asking /\ a.processedCalls /\ a.taken = app.taken
        /\ ElemsOf(a.queued) \subseteq a.taken /\ a.queued = app.queued
    BY <1>4, <1>5, <1>6, <1>7 DEF Tally, Known, Allowed, SameFlags, SameHand
  <1>9. CASE a.queued # <<>> /\ BeginCall(Head(a.queued), n, Rest)
    <2> DEFINE c == Head(a.queued)
               s == Tail(a.queued)
    <2>1. a.queued \in Seq(Calls)
      BY <1>7 DEF App
    <2>2. /\ c \in Calls /\ s \in Seq(Calls)
          /\ ElemsOf(s) \cup {c} = ElemsOf(a.queued)
          /\ c \notin ElemsOf(s)
          /\ \A i, j \in DOMAIN s : s[i] = s[j] => i = j
      BY <1>5, <1>8, <1>9, <2>1, SplitCalls
    <2>3. /\ n \in App /\ n.queued = s /\ n.taken = a.taken
          /\ n.results = a.results /\ n.retryAt = a.retryAt
          /\ n.always = a.always /\ n.processedCalls = a.processedCalls
          /\ n.approval = a.approval /\ n.asking = a.asking
          /\ n.executing = a.executing
      BY <1>7, <2>2 DEF App
    <2> HIDE DEF n, c, s
    <2>4. Tally(n, ElemsOf(n.queued) \cup {c})
      BY <1>8, <2>2, <2>3 DEF Tally
    <2>5. InHand(n, c, Rest, batch')
      BY <1>2, <1>4, <1>7, <1>8, <2>2, <2>3, <2>4 DEF InHand, DoneNext, Known, Allowed
    <2>6. TurnInv' /\ UNCHANGED issued
      BY <1>2, <1>3, <1>4, <1>9, <2>2, <2>3, <2>5, BeginTurn DEF c
    <2> QED
      BY <2>6 DEF Complete
  <1>10. ASSUME Settle(b, Rest) \/ Settle(SettleTurn(d), Rest)
         PROVE  TurnInv' /\ Complete
    <2>1. /\ x \in App /\ SameFlags(a, x) /\ SameHand(a, x)
          /\ x.queued = <<>> /\ x.taken = a.taken
          /\ Tally(x, ElemsOf(a.queued) \ ElemsOf(a.queued))
      BY <1>7, <1>8, SettleTurnTally
    <2>2. ElemsOf(a.queued) \ ElemsOf(a.queued) = {}
      OBVIOUS
    <2> HIDE DEF x
    <2>3. /\ b \in App /\ SameHand(x, b) /\ b.queued = x.queued
          /\ b.taken = x.taken /\ b.results = x.results
          /\ b.retryAt = x.retryAt /\ b.always = x.always
      BY <2>1 DEF App, SameHand
    <2> HIDE DEF b
    <2>4. /\ d \in App /\ SameHand(b, d) /\ d.queued = b.queued
          /\ d.taken = b.taken /\ d.results = b.results
          /\ d.retryAt = b.retryAt /\ d.always = b.always
      BY <2>3 DEF App, SameHand
    <2> HIDE DEF d
    <2>5. Quiet(b) /\ Quiet(d) /\ b.taken = app.taken /\ d.taken = app.taken
      BY <1>7, <1>8, <2>1, <2>2, <2>3, <2>4
      DEF Quiet, Resting, Tally, Allowed, SameHand, SameFlags
    <2>6. Quiet(SettleTurn(d)) /\ SettleTurn(d).taken = app.taken
      BY <2>4, <2>5, SettleTurnQuiet
    <2> QED
      BY <1>2, <1>4, <1>10, <2>5, <2>6, SettledNext DEF DoneNext
  <1>11. CASE a.queued = <<>> /\ StartRequest(a, Rest, FALSE)
    <2>1. Quiet(a)
      BY <1>7, <1>8, <1>11 DEF Quiet, Resting, Tally, ElemsOf
    <2> QED
      BY <1>2, <1>3, <1>4, <1>7, <1>8, <1>11, <2>1, StartTurn DEF Rested, Complete
  <1> QED
    BY <1>1, <1>9, <1>10, <1>11

(* The end of a reply.  That of one whose calls are being worked on changes  *)
(* nothing; otherwise the turn, or its cancellation, is settled.             *)
LEMMA DoneTurn ==
    ASSUME Orderly, TypeOK, TurnInv, HandleDone
    PROVE  TurnInv' /\ Complete
  <1> DEFINE a == [app EXCEPT !.attempts = 0]
             d == [a EXCEPT !.processing = FALSE]
             e == [a EXCEPT !.active = IF @ = Req THEN 0 ELSE @]
  <1>1. /\ Receive("done") /\ GoOn
        /\ \/ a.cancelPending /\ Settle(SettleCancellation(e), Rest)
           \/ /\ ~a.cancelPending /\ ~d.processedCalls
              /\ d.executing \/ Settle(SettleTurn(d), Rest)
           \/ /\ ~a.cancelPending /\ d.processedCalls
              /\ \/ d.pending # NoCall /\ d.always /\ ~d.dispatched
                 \/ Settle(d, Rest)
    BY DEF HandleDone
  <1>2. /\ Rest \in Seq(Events) /\ InOrder(Rest) /\ Addressed(app.pending, Rest)
        /\ Kinds(Rest) \subseteq {"result"} /\ Kinds(rx) = Kinds(Rest) \cup {"done"}
    <2>1. \A k \in Kinds(Rest) : <<"done", k>> \in Follows
      BY <1>1, Received
    <2> QED
      BY <1>1, <2>1, Received DEF Follows
  <1>3. /\ Replied(app, rx) \/ Calling(app, rx, batch) \/ Settled(app, rx, batch)
        /\ Past
    BY <1>2, PhaseOf DEF TurnInv, Turned, Phase
  <1>4. /\ a \in App /\ SameTurn(app, a)
    BY ResetAttempts DEF TypeOK, App, SameTurn, SameFlags, SameHand
  <1> HIDE DEF a
  <1>5. /\ d \in App /\ SameHand(a, d) /\ d.queued = a.queued
        /\ d.taken = a.taken /\ d.results = a.results
        /\ d.retryAt = a.retryAt /\ d.always = a.always
        /\ d.processedCalls = a.processedCalls /\ d.dispatched = a.dispatched
        /\ d.cancelPending = a.cancelPending
        /\ e \in App /\ SameTurn(a, e)
    BY <1>4 DEF App, SameTurn, SameFlags, SameHand
  <1> HIDE DEF d, e
  <1>6. CASE ~app.processedCalls \/ app.cancelPending
    <2>1. Replied(app, rx)
      BY <1>2, <1>3, <1>6 DEF Calling, Settled, DoneNext
    <2>2. Kinds(Rest) = {} /\ Rested(Rest)
      BY <1>2, <2>1 DEF Replied, Rested, Resting
    <2>3. Quiet(app) /\ Quiet(d) /\ Quiet(e) /\ d.taken = app.taken
          /\ e.taken = app.taken
      <3>1. Quiet(app)
        BY <2>1, RestingTally DEF Replied, Quiet, Expecting
      <3> QED
        BY <1>4, <1>5, <3>1
        DEF Quiet, Resting, Tally, Allowed, SameTurn, SameHand, SameFlags
    <2>4. /\ Quiet(SettleTurn(d)) /\ SettleTurn(d).taken = app.taken
          /\ Quiet(SettleCancellation(e))
          /\ SettleCancellation(e).taken = app.taken
      BY <1>5, <2>3, SettleTurnQuiet, CancellationQuiet
    <2>5. Settle(SettleCancellation(e), Rest) \/ Settle(SettleTurn(d), Rest)
      BY <1>1, <1>4, <1>5, <1>6, <2>3
      DEF Quiet, Resting, SameTurn, SameFlags, SameHand
    <2> QED
      BY <2>1, <2>2, <2>4, <2>5, SettledNext DEF Rested, Replied, DoneNext
  <1>7. CASE app.processedCalls /\ ~app.cancelPending
    <2>1. Calling(app, rx, batch) \/ Settled(app, rx, batch)
      BY <1>3, <1>7 DEF Replied, Expecting
    <2>2. Settle(d, Rest)
      BY <1>1, <1>4, <1>5, <1>7, <2>1
      DEF Calling, Settled, Resting, SameTurn, SameFlags, SameHand
    <2>3. app' = d /\ rx' = Rest /\ UNCHANGED <<task, issued, tools, token>>
      BY <2>2 DEF Settle, work
    <2>4. DoneNext(d, Rest, batch')
      BY <1>2 DEF DoneNext
    <2>5. ASSUME Calling(app, rx, batch) PROVE Calling(d, Rest, batch')
      <3>1. Shown(app, rx) => Shown(d, Rest)
        BY <1>2, <1>4, <1>5 DEF Shown, SameTurn, SameHand
      <3>2. Runs(app, rx) => Runs(d, Rest)
        BY <1>2, <1>4, <1>5 DEF Runs, SameTurn, SameHand
      <3>3. HasEnded(app, rx) => HasEnded(d, Rest)
        BY <1>2, <1>4, <1>5 DEF HasEnded, SameTurn, SameHand
      <3> QED
        BY <1>4, <1>5, <2>4, <2>5, <3>1, <3>2, <3>3
        DEF Calling, SameTurn, SameHand, SameFlags
    <2>6. ASSUME Settled(app, rx, batch) PROVE Settled(d, Rest, batch')
      <3>1. ~app.retryAt
        BY <1>2, <2>6 DEF Settled
      <3> QED
        BY <1>2, <1>4, <1>5, <2>4, <2>6, <3>1
        DEF Settled, Resting, SameTurn, SameHand, SameFlags
    <2>7. /\ Listed(d) /\ Tally(d, Due(d)) /\ Known(d) /\ Allowed(d)
          /\ d.pending = app.pending
      BY <1>4, <1>5 DEF TurnInv, Turned, Listed, Tally, Due, Known, Allowed,
         SameTurn, SameHand, SameFlags
    <2>8. Ahead(d, Rest)
      BY <1>2, <2>1 DEF Ahead, AtWork, AtRest, Over, Calling, Settled
    <2>9. Turned(d, Rest, batch')
      BY <1>2, <2>1, <2>5, <2>6, <2>7, <2>8 DEF Turned, Phase
    <2> QED
      BY <1>3, <2>3, <2>9, TurnNext DEF Complete
  <1> QED
    BY <1>6, <1>7

(* A reply that only announces work is asked again.                          *)
LEMMA IntentionTurn ==
    ASSUME TypeOK, TurnInv, HandleIntention
    PROVE  TurnInv' /\ Complete
  <1> DEFINE a == [app EXCEPT !.attempts = 0]
  <1>1. /\ Receive("done") /\ ~app.processedCalls
        /\ StartRequest(a, Rest, FALSE)
    BY DEF HandleIntention
  <1>2. /\ Rest \in Seq(Events) /\ InOrder(Rest) /\ Addressed(app.pending, Rest)
        /\ Kinds(Rest) \subseteq {"result"} /\ Kinds(rx) = Kinds(Rest) \cup {"done"}
    <2>1. \A k \in Kinds(Rest) : <<"done", k>> \in Follows
      BY <1>1, Received
    <2> QED
      BY <1>1, <2>1, Received DEF Follows
  <1>3. Replied(app, rx) /\ Past
    BY <1>1, <1>2, PhaseOf DEF TurnInv, Turned, Phase, Calling, Settled, DoneNext
  <1>4. Kinds(Rest) = {} /\ Rested(Rest)
    BY <1>2, <1>3 DEF Replied, Rested, Resting
  <1>5. a \in App /\ SameTurn(app, a) /\ WorkOK
    BY ResetAttempts DEF TypeOK, WorkOK, App, SameTurn, SameFlags, SameHand
  <1> HIDE DEF a
  <1>6. Quiet(a) /\ Known(a) /\ a.taken = app.taken
    <2>1. Resting(app)
      BY <1>3 DEF Replied
    <2>2. Quiet(app) /\ Known(app)
      BY <1>3, <2>1, RestingTally DEF Replied, Quiet, Expecting
    <2> QED
      BY <1>5, <2>2
      DEF Quiet, Resting, Tally, Allowed, Known, SameTurn, SameHand, SameFlags
  <1> QED
    BY <1>1, <1>2, <1>3, <1>4, <1>5, <1>6, StartTurn DEF Replied, Complete

-----------------------------------------------------------------------------
(* The client tasks and the tools.                                          *)

(* A task that is neither unborn nor over is that of the last request, and   *)
(* the turn waits for it.                                                    *)
LEMMA WorkerTurn ==
    ASSUME TypeOK, TurnInv, NEW r \in Requests,
           task[r].state \notin {"none", "refused", "ended"}
    PROVE  r = issued /\ Asked(app, rx) /\ Addressed(NoCall, rx)
  <1>1. r = issued
    BY DEF TurnInv, Past, Over, Requests, TypeOK
  <1>2. ~AtRest
    BY <1>1 DEF AtRest, Over, Requests
  <1>3. Asked(app, rx)
    BY <1>2 DEF TurnInv, Turned, Phase, Replied, Calling, Settled
  <1> QED
    BY <1>1, <1>3 DEF TurnInv, Turned, Asked, Resting

(* That task moves on; what is queued by then is of its new state.           *)
LEMMA WorkerNext ==
    ASSUME TypeOK, TurnInv, Asked(app, rx),
           \A r \in Requests \ {issued} : task'[r] = task[r],
           UNCHANGED <<app, issued>>,
           rx' \in Seq(Events), InOrder(rx'), Addressed(NoCall, rx'),
           (Asked(app, rx) \/ Replied(app, rx))'
    PROVE  TurnInv'
  <1>1. /\ Past /\ AtWork /\ app.pending = NoCall
        /\ app.taken \subseteq Calls /\ \A c \in Calls : c[1] \in Requests
    BY DEF TurnInv, Asked, Resting, TypeOK, App, Calls
  <1>2. \A r \in Requests : Over(r) => r # issued /\ Over(r)'
    BY <1>1 DEF AtWork, Over
  <1>3. Past'
    BY <1>1, <1>2 DEF Past, Requests
  <1>4. Addressed(app.pending, rx)'
    <2>1. \A i \in DOMAIN rx' : rx'[i].req \in Requests
      <3>1. \A i \in DOMAIN rx' : rx'[i] \in Events
        OBVIOUS
      <3> QED
        BY <3>1 DEF Events
    <2> QED
      BY <1>1, <1>2, <2>1 DEF Addressed
  <1>5. /\ Listed(app) /\ Tally(app, Due(app)) /\ Known(app) /\ Allowed(app)
        /\ \A c \in app.taken : c[1] # issued
    BY <1>1 DEF TurnInv, Turned, Ahead
  <1>6. Known(app)' /\ Ahead(app, rx)'
    BY <1>1, <1>5 DEF Known, Ahead
  <1> QED
    BY <1>3, <1>4, <1>5, <1>6
    DEF TurnInv, Turned, Phase, InOrder, Listed, Tally, Due, Allowed

(* The client queues an event and goes on waiting,                           *)
LEMMA ClientWaits ==
    ASSUME TypeOK, TurnInv, Asked(app, rx), Addressed(NoCall, rx),
           NEW k \in {"chunk", "persist"},
           NEW s \in {"streaming", "waiting"}, k \in Awaited(s),
           \A x \in Kinds(rx) : x \in Awaited(s) /\ <<x, k>> \in Follows,
           rx' = Append(rx, Ev(k, issued)), task'[issued].state = s,
           \A r \in Requests \ {issued} : task'[r] = task[r],
           UNCHANGED <<app, issued, tools, token>>
    PROVE  TurnInv'
  <1> DEFINE e == Ev(k, issued)
  <1>1. e \in Events /\ e.kind = k /\ e.req = issued
    <2>1. issued \in Requests /\ k \in EventKinds
      BY DEF Asked, AtWork, TypeOK, Requests, EventKinds
    <2> QED
      BY <2>1, EventType DEF Ev
  <1> HIDE DEF e
  <1>2. rx \in Seq(Events) /\ InOrder(rx)
    BY DEF TypeOK, TurnInv, Turned
  <1>3. /\ Append(rx, e) \in Seq(Events) /\ InOrder(Append(rx, e))
        /\ Addressed(NoCall, Append(rx, e))
        /\ Kinds(Append(rx, e)) = Kinds(rx) \cup {k}
    BY <1>1, <1>2, AppendOrder
  <1>4. /\ rx' \in Seq(Events) /\ InOrder(rx') /\ Addressed(NoCall, rx')
        /\ Kinds(rx)' \subseteq Awaited(s)
    BY ZenonT(60), <1>3 DEF e, Kinds
  <1>5. Asked(app, rx)'
    BY <1>4 DEF Asked, AtWork, Resting, Expecting
  <1> QED
    BY <1>4, <1>5, WorkerNext

(* or it queues the end of its reply.                                        *)
LEMMA ClientEnds ==
    ASSUME TypeOK, TurnInv, Asked(app, rx), task'[issued].state = "ended",
           \A r \in Requests \ {issued} : task'[r] = task[r],
           UNCHANGED <<app, issued, tools, token>>,
           rx' \in Seq(Events), InOrder(rx'), Addressed(NoCall, rx'),
           Kinds(rx') \in {{"calls", "done"}, {"done"}, {"error"}, {"cancelled"}}
    PROVE  TurnInv'
  <1>1. Replied(app, rx)'
    BY DEF Asked, Replied, AtWork, AtRest, Over, Resting, Expecting, Kinds
  <1> QED
    BY <1>1, WorkerNext

(* The client of a refused checkpoint has a last word, and nobody waits.     *)
LEMMA ClientRefused ==
    ASSUME TypeOK, TurnInv, NEW r \in Requests, task[r].state = "refused",
           task' = [task EXCEPT ![r].state = "ended"],
           rx' = Append(rx, Ev("failed", r)),
           UNCHANGED <<app, issued, tools, token, batch>>
    PROVE  TurnInv'
  <1> DEFINE e == Ev("failed", r)
  <1>1. e \in Events /\ e.kind = "failed" /\ e.req = r
    BY EventType DEF Ev, EventKinds
  <1> HIDE DEF e
  <1>2. rx \in Seq(Events) /\ InOrder(rx) /\ Addressed(app.pending, rx) /\ Past
    BY DEF TypeOK, TurnInv, Turned
  <1>3. /\ task'[r].state = "ended"
        /\ \A s \in Requests : s # r => task'[s] = task[s]
        /\ \A s \in Requests : task'[s].calls = task[s].calls
    BY DEF TypeOK, Tasks
  <1>4. /\ \A s \in Requests : Over(s)' <=> Over(s)
        /\ \A s \in Requests : ~Over(s) => task'[s] = task[s]
        /\ Over(r)
    BY <1>3 DEF Over
  <1>5. /\ rx' \in Seq(Events) /\ InOrder(rx') /\ Addressed(app.pending, rx')
        /\ Kinds(rx') = Kinds(rx)
    <2>1. LET s == Append(rx, e)
          IN  /\ s \in Seq(Events) /\ InOrder(s) /\ Addressed(app.pending, s)
              /\ Kinds(s) = Kinds(rx) \cup ({e.kind} \ {"failed"})
      BY <1>1, <1>2, <1>4, AppendOrder
    <2> QED
      BY <1>1, <2>1 DEF e
  <1>6. Past'
    BY <1>2, <1>3, <1>4 DEF Past, Over
  <1>7. Addressed(app.pending, rx)'
    <2>1. \A i \in DOMAIN rx' : rx'[i].req \in Requests
      <3>1. \A i \in DOMAIN rx' : rx'[i] \in Events
        BY <1>5
      <3> QED
        BY <3>1 DEF Events
    <2> QED
      BY <1>4, <1>5, <2>1 DEF Addressed
  <1>8. issued # 0 => issued \in Requests
    BY DEF TypeOK, Requests
  <1>9. AtRest' = AtRest /\ (AtWork => AtWork') /\ (AtWork' => AtWork)
        /\ (AtWork => task'[issued] = task[issued])
    BY <1>3, <1>4, <1>8 DEF AtRest, AtWork, Over
  <1>10. Phase(app, rx, batch)'
    <2>1. Asked(app, rx) => Asked(app, rx)'
      BY <1>5, <1>9 DEF Asked, Resting, Expecting, Kinds
    <2>2. Replied(app, rx) => Replied(app, rx)'
      BY <1>5, <1>9 DEF Replied, Resting, Expecting, Kinds
    <2>3. Calling(app, rx, batch) => Calling(app, rx, batch)'
      BY <1>5, <1>9 DEF Calling, Shown, Runs, HasEnded, DoneNext, Kinds
    <2>4. Settled(app, rx, batch) => Settled(app, rx, batch)'
      BY <1>5, <1>9 DEF Settled, Resting, DoneNext, Kinds
    <2> QED
      BY <2>1, <2>2, <2>3, <2>4 DEF TurnInv, Turned, Phase
  <1>11. Known(app)' /\ Ahead(app, rx)'
    <2>1. /\ app.taken \subseteq Calls /\ \A c \in Calls : c[1] \in Requests
      BY DEF TypeOK, App, Calls
    <2>2. Known(app) /\ Ahead(app, rx)
      BY DEF TurnInv, Turned
    <2> QED
      BY <1>3, <1>5, <1>9, <2>1, <2>2 DEF Known, Ahead, Kinds
  <1> QED
    BY <1>5, <1>6, <1>7, <1>10, <1>11
    DEF TurnInv, Turned, InOrder, Listed, Tally, Due, Allowed

(* Whatever a client does, the turn is in order.                             *)
LEMMA ClientTurn ==
    ASSUME Orderly, TypeOK, TurnInv, Client
    PROVE  TurnInv' /\ Complete
  <1>1. PICK r \in Requests : \/ ClientChunk(r) \/ ClientReply(r)
                              \/ ClientError(r) \/ ClientStopped(r)
                              \/ ClientEmit(r)
    BY DEF Client
  <1>2. /\ UNCHANGED <<app, issued, tools, token, batch>>
        /\ task \in [Requests -> Tasks] /\ rx \in Seq(Events) /\ InOrder(rx)
    BY <1>1 DEF ClientChunk, ClientReply, ClientError, ClientStopped,
                ClientFinish, ClientEmit, client, TypeOK, TurnInv, Turned
  <1>3. CASE ClientChunk(r)
    <2>1. /\ task[r].state = "opening" /\ rx' = Append(rx, Ev("chunk", r))
          /\ task' = [task EXCEPT ![r].state = "streaming"]
      BY <1>3 DEF ClientChunk, SetState
    <2>2. r = issued /\ Asked(app, rx) /\ Addressed(NoCall, rx)
      BY <2>1, WorkerTurn
    <2>3. Kinds(rx) = {}
      BY <2>1, <2>2 DEF Asked, Awaited
    <2>4. /\ task'[issued].state = "streaming"
          /\ \A s \in Requests \ {issued} : task'[s] = task[s]
      BY <1>2, <2>1, <2>2 DEF Tasks
    <2>5. "chunk" \in Awaited("streaming")
      BY DEF Awaited
    <2> QED
      BY <1>2, <2>1, <2>2, <2>3, <2>4, <2>5, ClientWaits DEF Complete
  <1>4. ASSUME NEW o, NEW reply, ClientFinish(r, o, reply)
        PROVE  TurnInv' /\ Complete
    <2>1. /\ task[r].state \in {"opening", "streaming"}
          /\ rx' = Append(rx, Ev("persist", r))
          /\ task' = [task EXCEPT ![r] = [state |-> "waiting", outcome |-> o,
                                          calls |-> reply]]
      BY <1>4 DEF ClientFinish
    <2>2. r = issued /\ Asked(app, rx) /\ Addressed(NoCall, rx)
      BY <2>1, WorkerTurn
    <2>3. Kinds(rx) \subseteq {"chunk"}
      BY <2>1, <2>2 DEF Asked, Awaited
    <2>4. /\ task'[issued].state = "waiting"
          /\ \A s \in Requests \ {issued} : task'[s] = task[s]
      BY <1>2, <2>1, <2>2
    <2>5. /\ "persist" \in Awaited("waiting") /\ "chunk" \in Awaited("waiting")
          /\ <<"chunk", "persist">> \in Follows
      BY DEF Awaited, Follows
    <2> QED
      BY <1>2, <2>1, <2>2, <2>3, <2>4, <2>5, ClientWaits DEF Complete
  <1>5. CASE task[r].state = "refused" /\ ClientEmit(r)
    <2>1. /\ rx' = rx \o <<Ev("failed", r)>>
          /\ task' = [task EXCEPT ![r].state = "ended"]
      BY <1>5 DEF ClientEmit, SetState
    <2>2. rx' = Append(rx, Ev("failed", r))
      <3>1. Ev("failed", r) \in Events
        BY EventType DEF EventKinds
      <3> QED
        BY <1>2, <2>1, <3>1
    <2> QED
      BY <1>2, <1>5, <2>1, <2>2, ClientRefused DEF Complete
  <1>6. CASE task[r].state # "refused" /\ ClientEmit(r)
    <2>1. task[r].state \in {"acked", "finishing"}
      BY <1>6 DEF ClientEmit
    <2>2. r = issued /\ Asked(app, rx) /\ Addressed(NoCall, rx)
      BY <2>1, WorkerTurn
    <2>3. task[r].state = "acked" /\ Kinds(rx) = {}
      BY <2>1, <2>2 DEF Asked, AtWork, Awaited
    <2>4. /\ task' = [task EXCEPT ![r].state = "ended"]
          /\ \/ \E k \in {"done", "error", "cancelled"} : rx' = rx \o <<Ev(k, r)>>
             \/ rx' = rx \o <<Ev("calls", r), Ev("done", r)>>
      BY <1>6, <2>3 DEF ClientEmit, SetState, Orderly
    <2>5. /\ task'[issued].state = "ended"
          /\ \A s \in Requests \ {issued} : task'[s] = task[s]
      BY <1>2, <2>2, <2>4 DEF Tasks
    <2>6. \A k \in EventKinds : Ev(k, r) \in Events /\ Ev(k, r).kind = k
                                /\ Ev(k, r).req = issued
      BY <2>2, EventType DEF Ev
    <2>7. /\ rx' \in Seq(Events) /\ InOrder(rx') /\ Addressed(NoCall, rx')
          /\ Kinds(rx') \in {{"calls", "done"}, {"done"}, {"error"}, {"cancelled"}}
      <3>1. CASE \E k \in {"done", "error", "cancelled"} : rx' = rx \o <<Ev(k, r)>>
        <4>1. PICK k \in {"done", "error", "cancelled"} : rx' = rx \o <<Ev(k, r)>>
          BY <3>1
        <4> DEFINE e == Ev(k, r)
        <4>2. e \in Events /\ e.kind = k /\ e.req = issued
          BY <2>6 DEF EventKinds
        <4>3. rx' = Append(rx, e)
          BY <1>2, <4>1, <4>2
        <4> HIDE DEF e
        <4>4. LET s == Append(rx, e)
              IN  /\ s \in Seq(Events) /\ InOrder(s) /\ Addressed(NoCall, s)
                  /\ Kinds(s) = Kinds(rx) \cup ({e.kind} \ {"failed"})
          BY <1>2, <2>2, <2>3, <4>2, AppendOrder
        <4>5. Kinds(rx) \cup ({e.kind} \ {"failed"}) = {k}
          BY <2>3, <4>2
        <4> QED
          BY <4>3, <4>4, <4>5
      <3>2. CASE rx' = rx \o <<Ev("calls", r), Ev("done", r)>>
        <4> DEFINE e == Ev("calls", r)
                   f == Ev("done", r)
                   q == Append(rx, e)
        <4>1. /\ e \in Events /\ e.kind = "calls" /\ e.req = issued
              /\ f \in Events /\ f.kind = "done" /\ f.req = issued
          BY <2>6 DEF EventKinds
        <4>2. rx' = Append(q, f)
          BY <1>2, <3>2, <4>1
        <4> HIDE DEF e, f
        <4>3. /\ q \in Seq(Events) /\ InOrder(q) /\ Addressed(NoCall, q)
              /\ Kinds(q) = Kinds(rx) \cup ({e.kind} \ {"failed"})
          BY <1>2, <2>2, <2>3, <4>1, AppendOrder
        <4>4. Kinds(q) = {"calls"} /\ <<"calls", "done">> \in Follows
          BY <2>3, <4>1, <4>3 DEF Follows
        <4> HIDE DEF q
        <4>5. LET s == Append(q, f)
              IN  /\ s \in Seq(Events) /\ InOrder(s) /\ Addressed(NoCall, s)
                  /\ Kinds(s) = Kinds(q) \cup ({f.kind} \ {"failed"})
          BY <4>1, <4>3, <4>4, AppendOrder
        <4>6. Kinds(q) \cup ({f.kind} \ {"failed"}) = {"calls", "done"}
          BY <4>1, <4>4
        <4> QED
          BY <4>2, <4>5, <4>6
      <3> QED
        BY <2>4, <3>1, <3>2
    <2> QED
      BY <1>2, <2>2, <2>5, <2>7, ClientEnds DEF Complete
  <1> QED
    BY <1>1, <1>3, <1>4, <1>5, <1>6 DEF ClientReply, ClientError, ClientStopped

(* A tool ends: its result is queued.                                        *)
LEMMA ToolTurn ==
    ASSUME TypeOK, TurnInv, NEW t \in tools, ToolFinish(t)
    PROVE  TurnInv' /\ Complete
  <1> DEFINE c == app.pending
             e == ResultOf(c)
  <1>1. /\ tools' = tools \ {t} /\ rx' = Append(rx, ResultOf(t.call))
        /\ UNCHANGED <<app, task, issued, token, batch>>
    BY DEF ToolFinish
  <1>2. /\ Calling(app, rx, batch) /\ Runs(app, rx) /\ Past
        /\ rx \in Seq(Events) /\ InOrder(rx) /\ Addressed(c, rx)
    BY DEF TurnInv, Turned, Phase, Asked, Replied, Settled, Calling, Shown,
           HasEnded, TypeOK
  <1>3. t.call = c /\ tools' = {} /\ c \in Calls
    BY <1>1, <1>2 DEF Runs, Calling, TypeOK, App
  <1>4. e \in Events /\ e.kind = "result" /\ e.call = c
    BY <1>3, ResultType DEF ResultOf
  <1>5. rx' = Append(rx, e)
    BY <1>1, <1>3
  <1> HIDE DEF e
  <1>6. Kinds(rx) \subseteq {"done"} /\ \A k \in Kinds(rx) : <<k, e.kind>> \in Follows
    BY <1>2, <1>4 DEF Runs, Follows
  <1>7. /\ InOrder(rx') /\ Addressed(c, rx') /\ Kinds(rx') = Kinds(rx) \cup {"result"}
    <2>1. LET s == Append(rx, e)
          IN  /\ InOrder(s) /\ Addressed(c, s)
              /\ Kinds(s) = Kinds(rx) \cup ({e.kind} \ {"failed"})
      BY <1>2, <1>4, <1>6, AppendOrder
    <2> QED
      BY <1>4, <1>5, <2>1
  <1>8. Addressed(app.pending, rx)' /\ Past'
    BY <1>1, <1>2, <1>7 DEF Addressed, Past, Over
  <1>9. Calling(app, rx, batch)'
    <2>1. HasEnded(app, rx)'
      BY <1>1, <1>2, <1>3, <1>6, <1>7 DEF HasEnded, Runs, Kinds
    <2>2. DoneNext(app, rx, batch)'
      BY <1>1, <1>2, <1>7 DEF DoneNext, Calling, Kinds
    <2> QED
      BY <1>1, <1>2, <2>1, <2>2 DEF Calling, AtRest, Over
  <1>10. Ahead(app, rx)'
    BY <1>1, <1>2, <1>6, <1>7 DEF Ahead, AtWork, AtRest, Over, Calling, Kinds
  <1> QED
    BY <1>1, <1>7, <1>8, <1>9, <1>10
    DEF TurnInv, Turned, Phase, InOrder, Listed, Tally, Due, Known, Allowed,
        Complete

-----------------------------------------------------------------------------
(* Retries, the user, and shutdown.                                         *)

(* Nothing comes any more of a turn that waits for its retry, nor of one     *)
(* that is idle.                                                             *)
LEMMA IdleTurn ==
    ASSUME TypeOK, TurnInv, ~batch, app.retryAt \/ FullyIdle(app)
    PROVE  /\ Resting(app) /\ Tally(app, {}) /\ Allowed(app) /\ Known(app)
           /\ AtRest /\ tools = {} /\ Rested(rx) /\ Past
           /\ FullyIdle(app) => ~app.retryAt
  <1>1. Settled(app, rx, batch)
    BY DEF TurnInv, Turned, Phase, Asked, Replied, Expecting, Calling, FullyIdle
  <1>2. /\ Resting(app) /\ AtRest /\ tools = {} /\ Kinds(rx) = {}
        /\ FullyIdle(app) => ~app.retryAt
    BY <1>1 DEF Settled, DoneNext, FullyIdle
  <1>3. Tally(app, {}) /\ Allowed(app) /\ Known(app)
    BY <1>2, RestingTally
  <1> QED
    BY <1>2, <1>3 DEF TurnInv, Turned, Rested, Resting

(* A retry that is due, and a prompt.                                        *)
LEMMA RequestTurn ==
    ASSUME TypeOK, TurnInv, RunDueRetry \/ SendPrompt
    PROVE  TurnInv' /\ Complete
  <1> DEFINE z == [app EXCEPT !.attempts = 0]
             y == [z EXCEPT !.turn = TRUE, !.active = 0]
             a == [app EXCEPT !.attempts = 0, !.turn = TRUE, !.active = 0]
             b == [app EXCEPT !.retryAt = FALSE]
  <1>1. \/ ~batch /\ app.retryAt /\ StartRequest(b, rx, TRUE)
        \/ ~batch /\ FullyIdle(app) /\ StartRequest(a, rx, TRUE)
    BY DEF RunDueRetry, SendPrompt, InputReady
  <1>2. /\ Resting(app) /\ Tally(app, {}) /\ Allowed(app) /\ Known(app)
        /\ AtRest /\ tools = {} /\ Rested(rx) /\ Past
        /\ FullyIdle(app) => ~app.retryAt
    BY <1>1, IdleTurn
  <1>3. app \in App /\ rx \in Seq(Events) /\ WorkOK
    BY DEF TypeOK, WorkOK
  <1>4. /\ b \in App /\ SameHand(app, b) /\ b.queued = app.queued
        /\ b.taken = app.taken /\ b.results = app.results
        /\ b.always = app.always /\ ~b.retryAt
    BY <1>3 DEF App, SameHand
  <1>5. y = a /\ SameTurn(app, a)
    BY <1>3 DEF App, SameTurn, SameFlags, SameHand
  <1>6. y \in App
    <2>1. z \in App
      BY <1>3, ResetAttempts
    <2> HIDE DEF z
    <2> QED
      BY <2>1, BoundAssumption DEF App
  <1> HIDE DEF a, b, y
  <1>7. ASSUME NEW d \in App, SameHand(app, d), d.queued = app.queued,
               d.taken = app.taken, d.results = app.results,
               d.always = app.always, ~d.retryAt, StartRequest(d, rx, TRUE)
        PROVE  TurnInv' /\ Complete
    <2>1. Quiet(d) /\ Known(d)
      BY <1>2, <1>7 DEF Quiet, Resting, Tally, Allowed, Known, SameHand
    <2> QED
      BY <1>2, <1>3, <1>7, <2>1, StartTurn DEF Complete
  <1> QED
    BY <1>1, <1>2, <1>4, <1>5, <1>6, <1>7 DEF SameTurn, SameFlags

(* While the user is asked, the call in hand may be taken up again in any    *)
(* record that still knows it.                                               *)
LEMMA ShownTurn ==
    ASSUME TypeOK, TurnInv, ~batch, Interaction(app), NEW b, NEW t,
           ~b.approval, ~b.asking, b.executing = app.executing,
           b.processedCalls = app.processedCalls, b.retryAt = app.retryAt,
           b.queued = app.queued, b.taken = app.taken, b.results = app.results,
           Allowed(b)
    PROVE  /\ InHand(b, app.pending, rx, t)
           /\ app.pending \in Calls /\ app.pending # NoCall
           /\ app.approval # app.asking /\ ~app.executing
           /\ app.processedCalls /\ ~app.retryAt
           /\ app.always => app.dispatched
           /\ Past /\ rx \in Seq(Events) /\ app \in App
  <1>1. Calling(app, rx, batch) /\ Shown(app, rx)
    BY DEF TurnInv, Turned, Phase, Asked, Replied, Settled, Resting, Calling,
           Runs, HasEnded, Interaction
  <1>2. /\ Kinds(rx) = {} /\ app.pending # NoCall /\ tools = {}
        /\ AtRest /\ issued # 0 /\ app.processedCalls /\ ~app.retryAt
        /\ app.approval # app.asking /\ ~app.executing
        /\ app.always => app.dispatched
    BY <1>1 DEF Calling, Shown, DoneNext
  <1>3. /\ Past /\ rx \in Seq(Events) /\ app \in App /\ app.pending \in Calls
        /\ InOrder(rx) /\ Addressed(app.pending, rx)
    BY <1>2 DEF TypeOK, App, TurnInv, Turned
  <1>4. /\ Tally(app, ElemsOf(app.queued) \cup {app.pending}) /\ Known(app)
        /\ ElemsOf(app.queued) \subseteq app.taken /\ app.pending \in app.taken
        /\ app.pending \notin ElemsOf(app.queued)
        /\ \A i, j \in DOMAIN app.queued : app.queued[i] = app.queued[j] => i = j
    BY <1>2 DEF TurnInv, Turned, Listed, Due
  <1> QED
    BY <1>2, <1>3, <1>4 DEF InHand, DoneNext, Tally, Known

(* The answer of the user is the result of the call.                         *)
LEMMA AnswerUserTurn ==
    ASSUME TypeOK, TurnInv, AnswerUser
    PROVE  TurnInv' /\ Complete
  <1> DEFINE a == [app EXCEPT !.asking = FALSE]
             c == app.pending
             y == Answer(SettleTurn(a), {c})
             b == [y EXCEPT !.processing = FALSE, !.pending = NoCall]
  <1>1. /\ app.asking /\ ~batch /\ UNCHANGED batch
        /\ \/ Settle(a, IF c = NoCall THEN rx ELSE Append(rx, ResultOf(c)))
           \/ Settle(b, rx)
    BY DEF AnswerUser, InputReady
  <1>2. /\ a \in App /\ a.approval = app.approval /\ ~a.asking
        /\ a.executing = app.executing
        /\ a.processedCalls = app.processedCalls /\ a.retryAt = app.retryAt
        /\ a.queued = app.queued /\ a.taken = app.taken
        /\ a.results = app.results /\ a.always = app.always
        /\ a.pending = app.pending /\ a.dispatched = app.dispatched
        /\ a.cancelPending = app.cancelPending
    BY DEF TypeOK, App
  <1>3. ~app.approval /\ Allowed(app)
    BY <1>1 DEF TurnInv, Turned, Phase, Asked, Replied, Settled, Resting,
           Calling, Shown, Runs, HasEnded, TypeOK, App
  <1>4. /\ InHand(a, c, rx, batch') /\ c \in Calls /\ c # NoCall
        /\ ~app.executing /\ app.processedCalls /\ ~app.retryAt
        /\ app.always => app.dispatched
        /\ Past /\ rx \in Seq(Events)
    BY <1>1, <1>2, <1>3, ShownTurn DEF Interaction, Allowed
  <1> HIDE DEF a
  <1>5. CASE Settle(a, IF c = NoCall THEN rx ELSE Append(rx, ResultOf(c)))
    <2>1. /\ app' = a /\ rx' = Append(rx, ResultOf(c))
          /\ UNCHANGED <<task, issued, tools, token>>
      BY <1>4, <1>5 DEF Settle, work
    <2> QED
      BY <1>2, <1>3, <1>4, <2>1, CallNext DEF Complete, Allowed
  <1>6. CASE Settle(b, rx)
    <2>1. /\ y \in App /\ SameFlags(a, y) /\ SameHand(a, y)
          /\ y.queued = <<>> /\ y.taken = a.taken /\ Tally(y, {})
      BY <1>2, <1>4, DueTally DEF InHand
    <2> HIDE DEF y
    <2>2. /\ b.pending = NoCall /\ b.approval = y.approval
          /\ b.asking = y.asking /\ b.executing = y.executing
          /\ b.queued = y.queued /\ b.taken = y.taken /\ b.results = y.results
          /\ b.retryAt = y.retryAt /\ b.always = y.always
          /\ b.processedCalls = y.processedCalls
          /\ b.cancelPending = y.cancelPending
      BY <2>1 DEF App
    <2> HIDE DEF b
    <2>3. Quiet(b)
      BY <1>2, <1>3, <1>4, <2>1, <2>2
      DEF Quiet, Resting, Tally, Allowed, SameFlags, SameHand
    <2>4. UNCHANGED issued
      BY <1>6 DEF Settle, work
    <2> QED
      BY <1>2, <1>4, <1>6, <2>1, <2>2, <2>3, <2>4, CallFails
      DEF Complete, SameFlags
  <1> QED
    BY <1>1, <1>5, <1>6

(* An approved call is dispatched; a denied one has its result queued.       *)
LEMMA ApprovalTurn ==
    ASSUME TypeOK, TurnInv,
           \/ Approve(FALSE) \/ (AllowAlways /\ Approve(TRUE)) \/ Deny
    PROVE  TurnInv' /\ Complete
  <1>1. app.approval /\ ~batch /\ UNCHANGED batch /\ Interaction(app)
    BY DEF Approve, Deny, InputReady, Interaction
  <1>2. ~app.asking /\ Allowed(app) /\ app \in App
    BY <1>1 DEF TurnInv, Turned, Phase, Asked, Replied, Settled, Resting,
           Calling, Shown, Runs, HasEnded, TypeOK, App
  <1>3. ASSUME NEW s \in BOOLEAN, Approve(s), s => AllowAlways
        PROVE  TurnInv' /\ Complete
    <2> DEFINE d == [app EXCEPT !.approval = FALSE, !.always = @ \/ s]
    <2>1. Dispatch(d, rx)
      BY <1>3 DEF Approve
    <2>2. /\ d \in App /\ ~d.approval /\ d.asking = app.asking
          /\ d.executing = app.executing
          /\ d.processedCalls = app.processedCalls /\ d.retryAt = app.retryAt
          /\ d.queued = app.queued /\ d.taken = app.taken
          /\ d.results = app.results /\ d.pending = app.pending
      BY <1>2 DEF App
    <2>3. d.always => app.always \/ s
      BY <1>2 DEF App
    <2> HIDE DEF d
    <2>4. Allowed(d)
      BY <1>2, <1>3, <2>3 DEF Allowed
    <2>5. /\ InHand(d, app.pending, rx, batch') /\ app.pending # NoCall
          /\ Past /\ rx \in Seq(Events)
      BY <1>1, <1>2, <2>2, <2>4, ShownTurn
    <2>6. TurnInv' /\ UNCHANGED issued
      BY <2>1, <2>2, <2>5, DispatchTurn
    <2> QED
      BY <2>6 DEF Complete
  <1>4. CASE Deny
    <2> DEFINE a == [app EXCEPT !.approval = FALSE, !.processing = TRUE]
    <2>1. /\ a \in App /\ ~a.approval /\ a.asking = app.asking
          /\ a.executing = app.executing /\ a.always = app.always
          /\ a.processedCalls = app.processedCalls /\ a.retryAt = app.retryAt
          /\ a.queued = app.queued /\ a.taken = app.taken
          /\ a.results = app.results /\ a.pending = app.pending
          /\ a.dispatched = app.dispatched
          /\ a.cancelPending = app.cancelPending
      BY <1>2 DEF App
    <2>2. app.pending # NoCall => Settle(a, Append(rx, ResultOf(app.pending)))
      BY <1>4 DEF Deny
    <2> HIDE DEF a
    <2>3. /\ InHand(a, app.pending, rx, batch') /\ app.pending # NoCall
          /\ app.pending \in Calls /\ ~app.executing /\ app.processedCalls
          /\ ~app.retryAt
          /\ app.always => app.dispatched
          /\ Past /\ rx \in Seq(Events)
      BY <1>1, <1>2, <2>1, ShownTurn DEF Allowed
    <2>4. /\ app' = a /\ rx' = Append(rx, ResultOf(app.pending))
          /\ UNCHANGED <<task, issued, tools, token>>
      BY <2>2, <2>3 DEF Settle, work
    <2> QED
      BY <1>2, <2>1, <2>3, <2>4, CallNext DEF Complete, Allowed
  <1> QED
    BY <1>3, <1>4

(* A question or an approval that is withdrawn answers its call and those    *)
(* behind it.                                                                *)
LEMMA InteractionTurn ==
    ASSUME TypeOK, TurnInv, ~batch, Interaction(app)
    PROVE  LET b == SettleInteraction(app)
           IN  /\ b \in App /\ Quiet(b) /\ b.taken = app.taken
               /\ AtRest /\ tools = {} /\ Rested(rx)
  <1> DEFINE z == [app EXCEPT !.approval = FALSE, !.asking = FALSE]
             y == Answer(app, {app.pending})
             d == [y EXCEPT
                     !.pending = NoCall, !.approval = FALSE, !.asking = FALSE,
                     !.processing = FALSE, !.executing = FALSE,
                     !.processedCalls = FALSE, !.dispatched = FALSE]
             E == ElemsOf(y.queued)
  <1>1. /\ ~z.approval /\ ~z.asking /\ z.executing = app.executing
        /\ z.processedCalls = app.processedCalls /\ z.retryAt = app.retryAt
        /\ z.queued = app.queued /\ z.taken = app.taken
        /\ z.results = app.results /\ z.always = app.always
    BY DEF TypeOK, App
  <1>2. Allowed(app) /\ Allowed(z)
    BY <1>1 DEF TurnInv, Turned, Allowed
  <1> HIDE DEF z
  <1>3. /\ InHand(z, app.pending, rx, TRUE) /\ InHand(z, app.pending, rx, FALSE)
        /\ app.pending # NoCall /\ ~app.retryAt
        /\ app \in App
    BY <1>1, <1>2, ShownTurn
  <1>4. /\ AtRest /\ tools = {} /\ Kinds(rx) = {} /\ Rested(rx)
    <2>1. Kinds(rx) = {} /\ InOrder(rx) /\ Addressed(app.pending, rx)
      BY <1>3 DEF InHand, DoneNext
    <2> QED
      BY <1>3, <2>1, NoResultAddressed DEF InHand, Rested
  <1>5. /\ Tally(app, ElemsOf(app.queued) \cup {app.pending})
        /\ ElemsOf(app.queued) \subseteq app.taken /\ app.pending \in app.taken
        /\ app.pending \notin ElemsOf(app.queued)
    BY <1>1, <1>3 DEF InHand, Tally
  <1>6. /\ y \in App /\ SameFlags(app, y) /\ y.queued = app.queued
        /\ y.taken = app.taken /\ Tally(y, E)
    BY <1>3, <1>5, DueTally
  <1>7. SettleInteraction(app) = SettleTurn(d)
    BY <1>3 DEF SettleInteraction
  <1> HIDE DEF y
  <1>8. /\ d.pending = NoCall /\ ~d.approval /\ ~d.asking /\ ~d.executing
        /\ d.queued = y.queued /\ d.taken = y.taken /\ d.results = y.results
        /\ d.retryAt = y.retryAt /\ d.always = y.always
    BY <1>6 DEF App
  <1>9. d \in App
    BY <1>6 DEF App
  <1> HIDE DEF d
  <1>10. Tally(d, E) /\ E = ElemsOf(d.queued) /\ E \subseteq d.taken \cap E
    BY <1>5, <1>6, <1>8 DEF Tally
  <1> HIDE DEF E
  <1>11. LET b == SettleTurn(d)
         IN  /\ b \in App /\ SameFlags(d, b) /\ SameHand(d, b)
             /\ b.queued = <<>> /\ b.taken = d.taken /\ Tally(b, E \ E)
    BY <1>9, <1>10, SettleTurnTally
  <1>12. E \ E = {}
    OBVIOUS
  <1>13. Quiet(SettleTurn(d)) /\ SettleTurn(d).taken = app.taken
    BY <1>2, <1>3, <1>6, <1>8, <1>11, <1>12
    DEF Quiet, Resting, Allowed, SameFlags, SameHand
  <1> QED
    BY <1>4, <1>7, <1>11, <1>13

(* A cancellation asked for between two batches waits for its turn to end.   *)
LEMMA CancelNext ==
    ASSUME TypeOK, TurnInv, ~batch, UNCHANGED <<rx, task, issued, tools, token, batch>>,
           \/ app' = app
           \/ app' = [app EXCEPT !.cancelPending = TRUE]
           \/ app' = [app EXCEPT !.cancelPending = TRUE, !.processing = TRUE]
    PROVE  TurnInv' /\ Complete
  <1>1. /\ app \in App /\ app' \in App /\ SameHand(app, app')
        /\ app.processing => app'.processing
        /\ app'.processedCalls = app.processedCalls
        /\ app'.dispatched = app.dispatched
        /\ app'.always = app.always /\ app'.retryAt = app.retryAt
        /\ app'.queued = app.queued /\ app'.taken = app.taken
        /\ app'.results = app.results
    BY ZenonT(60) DEF TypeOK, App, SameHand
  <1>2. Turned(app', rx, batch)
    BY <1>1, CancelTurned DEF TurnInv
  <1> QED
    BY <1>2, TurnNext DEF TurnInv, Complete

(* A stop, and the end of a scheduled retry.                                 *)
LEMMA StopTurn ==
    ASSUME TypeOK, TurnInv, Stop \/ AbandonRetryAtShutdown
    PROVE  TurnInv' /\ Complete
  <1> DEFINE s == SettleInteraction(app)
             b == [s EXCEPT !.cancelPending = FALSE]
  <1>1. ~batch
    BY DEF Stop, InputReady, AbandonRetryAtShutdown
  <1>2. \/ Interaction(app) /\ Settle(b, rx)
        \/ app.retryAt /\ Settle(AbandonRetry(app), rx)
        \/ CancelWork
    BY DEF Stop, AbandonRetryAtShutdown, DropsRetry
  <1>3. CASE Interaction(app) /\ Settle(b, rx)
    <2>1. /\ s \in App /\ Quiet(s) /\ s.taken = app.taken
          /\ AtRest /\ tools = {} /\ Rested(rx)
      BY <1>1, <1>3, InteractionTurn
    <2> HIDE DEF s
    <2>2. /\ SameHand(s, b) /\ b.queued = s.queued /\ b.taken = s.taken
          /\ b.results = s.results /\ b.retryAt = s.retryAt
          /\ b.always = s.always
      BY <2>1 DEF App, SameHand
    <2> HIDE DEF b
    <2>3. Quiet(b)
      BY <2>1, <2>2 DEF Quiet, Resting, Tally, Allowed, SameHand
    <2> QED
      BY <1>3, <2>1, <2>2, <2>3, SettledNext DEF Rested, DoneNext
  <1>4. CASE app.retryAt /\ Settle(AbandonRetry(app), rx)
    <2>1. /\ Resting(app) /\ Tally(app, {}) /\ Allowed(app)
          /\ AtRest /\ tools = {} /\ Rested(rx) /\ app \in App
      BY <1>1, <1>4, IdleTurn DEF TypeOK
    <2>2. /\ Quiet(AbandonRetry(app)) /\ AbandonRetry(app).taken = app.taken
      BY <2>1, AbandonRetryQuiet
    <2> QED
      BY <1>4, <2>1, <2>2, SettledNext DEF Rested, DoneNext
  <1>5. CASE CancelWork
    BY <1>1, <1>5, CancelNext DEF CancelWork
  <1> QED
    BY <1>2, <1>3, <1>4, <1>5

(* A shutdown withdraws a question, and cancels what is at work.             *)
LEMMA ShutdownTurn ==
    ASSUME TypeOK, TurnInv, ~batch, BeginShutdown
    PROVE  TurnInv' /\ Complete
  <1> DEFINE s == SettleInteraction(app)
             b == [s EXCEPT !.cancelPending = TRUE, !.processing = TRUE]
  <1>1. /\ app' \in {s, b}
        /\ UNCHANGED <<rx, task, issued, tools, token, batch>>
    BY DEF BeginShutdown
  <1>2. CASE ~Interaction(app)
    BY <1>1, <1>2, CancelNext DEF SettleInteraction
  <1>3. CASE Interaction(app)
    <2>1. /\ s \in App /\ Quiet(s) /\ s.taken = app.taken
          /\ AtRest /\ tools = {} /\ Rested(rx)
      BY <1>3, InteractionTurn
    <2> HIDE DEF s
    <2>2. /\ SameHand(s, b) /\ b.queued = s.queued /\ b.taken = s.taken
          /\ b.results = s.results /\ b.retryAt = s.retryAt
          /\ b.always = s.always
      BY <2>1 DEF App, SameHand
    <2> HIDE DEF b
    <2>3. Quiet(app') /\ app'.taken = app.taken
      BY <1>1, <2>1, <2>2 DEF Quiet, Resting, Tally, Allowed, SameHand
    <2>4. Past /\ Known(app)
      BY DEF TurnInv, Turned
    <2>5. /\ Past' /\ AtRest' /\ tools' = {} /\ Known(app)'
          /\ InOrder(rx') /\ Addressed(NoCall, rx)' /\ Kinds(rx') = {}
      BY <1>1, <2>1, <2>3, <2>4
      DEF Past, AtRest, Over, Known, Rested, InOrder, Addressed, Kinds
    <2> QED
      BY <1>1, <2>3, <2>5, QuietNext DEF DoneNext, Complete
  <1> QED
    BY <1>2, <1>3

(* Ctrl-C cancels what is at work, or shuts down.                            *)
LEMMA CtrlCTurn ==
    ASSUME TypeOK, TurnInv, CtrlC
    PROVE  TurnInv' /\ Complete
  <1>1. ~batch
    BY DEF CtrlC, InputReady
  <1>2. CASE BeginShutdown
    BY <1>1, <1>2, ShutdownTurn
  <1>3. CASE ~BeginShutdown
    BY <1>1, <1>3, CancelNext DEF CtrlC
  <1> QED
    BY <1>2, <1>3

-----------------------------------------------------------------------------
(* The invariant, and what it says.                                         *)

(* What concerns neither the record, the queue nor the workers leaves the    *)
(* turn as it is.                                                            *)
LEMMA StutterTurn ==
    ASSUME TypeOK, TurnInv, UNCHANGED <<app, rx, task, issued, tools, token, batch>>
    PROVE  TurnInv' /\ Complete
  <1>1. Turned(app', rx', batch')
    BY DEF TurnInv
  <1> QED
    BY <1>1, TurnNext DEF TurnInv, Complete

(* Initially the turn is settled and nothing was taken.                      *)
LEMMA InitTurn == Init => TurnInv
  <1> SUFFICES ASSUME Init PROVE TurnInv
    OBVIOUS
  <1>1. /\ app.pending = NoCall /\ app.queued = <<>> /\ ~app.approval
        /\ ~app.asking /\ ~app.executing /\ ~app.retryAt /\ ~app.always
        /\ app.taken = {} /\ app.results = [c \in Calls |-> 0]
    BY DEF Init, AppInit
  <1>2. /\ rx = <<>> /\ tools = {} /\ issued = 0
        /\ \A r \in Requests : task[r].state = "none"
    BY DEF Init
  <1>3. Kinds(rx) = {} /\ InOrder(rx) /\ Addressed(app.pending, rx)
    BY <1>2 DEF Kinds, InOrder, Addressed
  <1>4. Past /\ AtRest /\ ~AtWork
    BY <1>2 DEF Past, AtRest, AtWork, Requests
  <1>5. Settled(app, rx, batch)
    BY <1>1, <1>2, <1>3, <1>4 DEF Settled, Resting, DoneNext
  <1>6. Listed(app) /\ Tally(app, Due(app)) /\ Known(app) /\ Ahead(app, rx)
        /\ Allowed(app)
    BY <1>1 DEF Listed, Tally, Known, Ahead, Allowed, ElemsOf
  <1> QED
    BY <1>3, <1>4, <1>5, <1>6 DEF TurnInv, Turned, Phase

(* Every step keeps the turn in order, and starts no request before all      *)
(* calls are answered.                                                       *)
LEMMA TurnStep ==
    ASSUME Orderly, TypeOK, IInv, TurnInv, [Next]_vars
    PROVE  TurnInv' /\ Complete
  <1>1. CASE Client
    BY <1>1, ClientTurn
  <1>2. CASE \E t \in tools : ToolFinish(t)
    BY <1>2, ToolTurn
  <1>3. CASE User
    BY <1>3, RequestTurn, AnswerUserTurn, ApprovalTurn, StopTurn, CtrlCTurn
       DEF User
  <1>4. CASE HandleEvent
    BY <1>4, ChunkTurn, PersistTurn, FailedTurn, CancelledTurn, ToolCallsTurn,
       ToolResultTurn, DoneTurn, IntentionTurn, ErrorTurn DEF HandleEvent
  <1>5. CASE RunDueRetry \/ HandleSignal \/ Exit \/ AbandonRetryAtShutdown
    BY <1>5, RequestTurn, ShutdownTurn, StopTurn DEF HandleSignal, Exit
  <1>6. CASE Contain \/ SignalArrives \/ QueueSignal \/ UNCHANGED vars
    BY <1>6, StutterTurn DEF Contain, SignalArrives, QueueSignal, vars, work
  <1> QED
    BY <1>1, <1>2, <1>3, <1>4, <1>5, <1>6 DEF Next, Actor

(* In every phase but the first no request is at work, in that one no tool.  *)
LEMMA WorkersNow ==
    ASSUME TypeOK, TurnInv
    PROVE  \/ Live \subseteq {issued} /\ token = issued /\ tools = {}
           \/ Live = {} /\ tools \subseteq {[call |-> app.pending, token |-> token]}
  <1>1. issued \in Nat /\ \A r \in Requests : r \in Nat
    BY DEF TypeOK, Requests
  <1>2. Live \subseteq {issued}
    BY <1>1 DEF Live, TurnInv, Past, Over
  <1>3. AtRest => Live = {}
    BY <1>2 DEF Live, AtRest, Over, Requests
  <1> QED
    BY <1>2, <1>3 DEF TurnInv, Turned, Phase, Asked, Replied, Calling, Settled,
       Shown, Runs, HasEnded

(* The invariant always holds.                                               *)
LEMMA TurnAlways == ASSUME Orderly PROVE Spec => [](TypeOK /\ TurnInv)
  <1>1. TypeOK /\ IInv /\ TurnInv /\ [Next]_vars => TurnInv'
    BY TurnStep
  <1> QED
    BY <1>1, TypeCorrect, GoodAlways, InitTurn, PTL DEF Spec

-----------------------------------------------------------------------------
(* There is never a second model request or a second tool at work, nor a    *)
(* tool beside a request: no handler starts one while another goes on.      *)
THEOREM OneWorkerCorrect == ASSUME Orderly PROVE Spec => []OneWorker
  <1>1. ASSUME TypeOK, TurnInv PROVE OneWorker
    <2>1. ASSUME NEW S, NEW x, S \subseteq {x} PROVE Cardinality(S) \in {0, 1}
      <3>1. S = {} \/ S = {x}
        BY <2>1
      <3> QED
        BY <3>1, FS_EmptySet, FS_Singleton
    <2>2. Cardinality({}) = 0
      BY FS_EmptySet
    <2> QED
      BY <1>1, <2>1, <2>2, WorkersNow DEF OneWorker
  <1> QED
    BY <1>1, TurnAlways, PTL

(* No call is answered twice, whichever of its tool, the user, a failed     *)
(* save, a stop and the shutdown comes first.                               *)
THEOREM AnsweredOnceCorrect == ASSUME Orderly PROVE Spec => []AnsweredOnce
  <1>1. TypeOK /\ TurnInv => AnsweredOnce
    BY DEF TurnInv, Turned, Tally, AnsweredOnce
  <1> QED
    BY <1>1, TurnAlways, PTL

(* Whatever is at work holds the token a stop cancels.                      *)
THEOREM StopReachesCorrect == ASSUME Orderly PROVE Spec => []StopReaches
  <1>1. TypeOK /\ TurnInv => StopReaches
    BY WorkersNow DEF StopReaches
  <1> QED
    BY <1>1, TurnAlways, PTL

(* The model is asked again only when every call that was admitted has its  *)
(* one result: no reply is left half answered by a failed save, a denial, a *)
(* stop or a retry.                                                         *)
THEOREM ResultsCompleteCorrect == ASSUME Orderly PROVE Spec => ResultsComplete
  <1>1. TypeOK /\ IInv /\ TurnInv /\ [Next]_vars =>
            [issued' # issued => \A c \in app.taken : app'.results[c] = 1]_vars
    BY TurnStep DEF Complete
  <1> QED
    BY <1>1, TypeCorrect, GoodAlways, TurnAlways, PTL DEF Spec, ResultsComplete

-----------------------------------------------------------------------------
(* The engine is never stuck.                                               *)
(*                                                                          *)
(* BusyOwned needs one assumption more, that no retry is configured: the    *)
(* engine forgets a stop that is asked for while a retry is scheduled, and  *)
(* when its start then fails the cancellation stays.  The invariant says    *)
(* what the flags promise in each phase: a cancellation is pending only     *)
(* while something is at work, and a settled turn shows none.               *)
Unretried == Orderly /\ MaxRetries = 0

(* What is said of a record alone.                                           *)
Heedful(a) ==
    /\ a.cancelPending => ~Interaction(a) /\ (a.processing \/ a.executing)
    /\ Interaction(a) => ~a.processing
    /\ a.asking => "ask" \in CallKinds
    /\ ~a.retryAt
Calm(a)   == ~a.processing /\ ~a.cancelPending /\ ~Interaction(a) /\ ~a.retryAt
Handed(a) == Heedful(a) /\ (~a.processing \/ a.pending # NoCall)

(* The request is stopped, or has ended because it was.                      *)
Doomed == \/ AtWork /\ token \in cancelled
          \/ /\ AtWork /\ task[issued].state \in {"waiting", "acked"}
             /\ task[issued].outcome = "cancelled"
          \/ "cancelled" \in Kinds(rx)

BusyInv ==
    /\ Heedful(app)
    /\ AtWork /\ task[issued].state # "acked" => app.active = issued
    /\ Doomed => app.cancelPending \/ life.shutdown
    /\ Settled(app, rx, batch) /\ ~life.shutdown => ~app.processing

(* Where the turn is settled or a call is in hand, the record says it all.   *)
LEMMA EndBusy ==
    ASSUME TurnInv', Handed(app') PROVE BusyInv'
  <1>1. Calling(app, rx, batch)' \/ Settled(app, rx, batch)'
        \/ Asked(app, rx)' \/ Replied(app, rx)'
    BY DEF TurnInv, Turned, Phase
  <1>2. ~Asked(app, rx)' /\ ~Replied(app, rx)'
    BY DEF Asked, Replied, Expecting, Resting, Handed
  <1>3. AtRest' /\ "cancelled" \notin Kinds(rx)'
    BY <1>1, <1>2 DEF Calling, Settled, Shown, Runs, HasEnded
  <1>4. ~AtWork' /\ ~Doomed'
    BY <1>3 DEF AtWork, AtRest, Over, Doomed
  <1>5. Settled(app, rx, batch)' => ~app'.processing
    BY DEF Settled, Resting, Handed
  <1>6. Heedful(app)'
    BY DEF Handed, Heedful, Interaction
  <1> QED
    BY <1>4, <1>5, <1>6 DEF BusyInv

(* Answering and settling touch none of the flags.                           *)
LEMMA FlagsKept ==
    ASSUME NEW a \in App, NEW cs
    PROVE  /\ SameFlags(a, Answer(a, cs)) /\ SameHand(a, Answer(a, cs))
           /\ SameFlags(a, AbandonQueued(a)) /\ SameHand(a, AbandonQueued(a))
           /\ SameFlags(a, SettleTurn(a)) /\ SameHand(a, SettleTurn(a))
           /\ SameRequests(a, Answer(a, cs)) /\ SameRequests(a, SettleTurn(a))
  <1>1. ASSUME NEW ds
        PROVE  SameFlags(a, Answer(a, ds)) /\ SameHand(a, Answer(a, ds))
    <2> DEFINE res == [c \in Calls |-> IF c \in ds THEN a.results[c] + 1
                                                   ELSE a.results[c]]
    <2>1. Answer(a, ds) = [a EXCEPT !.results = res]
      BY DEF Answer
    <2> HIDE DEF res
    <2> QED
      BY <2>1 DEF App, SameFlags, SameHand
  <1> DEFINE b == Answer(a, ElemsOf(a.queued))
             d == AbandonQueued(a)
  <1>2. b \in App /\ d \in App
    BY AnswerType, AbandonType
  <1>3. d = [b EXCEPT !.queued = <<>>] /\ SettleTurn(a) = [d EXCEPT !.turn = FALSE]
    BY DEF AbandonQueued, SettleTurn
  <1>4. SameFlags(a, b) /\ SameHand(a, b)
    BY <1>1
  <1> HIDE DEF b, d
  <1>5. SameFlags(b, d) /\ SameHand(b, d)
    BY <1>2, <1>3 DEF App, SameFlags, SameHand
  <1>6. SameFlags(d, SettleTurn(a)) /\ SameHand(d, SettleTurn(a))
    BY <1>2, <1>3 DEF App, SameFlags, SameHand
  <1> QED
    BY <1>1, <1>4, <1>5, <1>6, AnswerSame, SettleTurnSame
    DEF SameFlags, SameHand, d

(* A settled cancellation leaves a calm record.                              *)
LEMMA CancellationCalm ==
    ASSUME NEW a \in App, ~a.executing, ~Interaction(a), ~a.retryAt
    PROVE  Calm(SettleCancellation(a))
  <1> DEFINE d == [a EXCEPT !.cancelPending = FALSE, !.processing = FALSE,
                            !.processedCalls = FALSE, !.dispatched = FALSE,
                            !.pending = NoCall, !.text = FALSE]
  <1>1. SettleCancellation(a) = SettleTurn(d)
    BY DEF SettleCancellation
  <1>2. d \in App /\ Calm(d)
    BY DEF App, Calm, Interaction
  <1> HIDE DEF d
  <1> QED
    BY <1>1, <1>2, FlagsKept DEF Calm, Interaction, SameFlags, SameHand

(* So does a turn settled in any record that is not busy.                    *)
LEMMA SettleTurnCalm ==
    ASSUME NEW a \in App, Calm(a) PROVE Calm(SettleTurn(a))
  BY FlagsKept DEF Calm, Interaction, SameFlags, SameHand

(* and nothing is in hand that it has to wait for.                           *)
LEMMA CalmHanded == ASSUME NEW a, Calm(a) PROVE Handed(a)
  BY DEF Calm, Handed, Heedful, Interaction

(* A call of a reply is of a kind that calls have.                           *)
LEMMA KnownKind ==
    ASSUME NEW c \in Calls, task \in [Requests -> Tasks],
           c[2] <= Len(task[c[1]].calls)
    PROVE  KindOf(c) \in CallKinds
  <1>1. c[1] \in Requests /\ c[2] \in 1 .. Len(task[c[1]].calls)
    BY DEF Calls
  <1>2. task[c[1]].calls \in Replies
    BY <1>1 DEF Tasks
  <1>3. task[c[1]].calls \in Seq(CallKinds)
    BY <1>2, ReplyType
  <1> QED
    BY <1>1, <1>3 DEF KindOf

(* Starting a request that nobody has stopped.                               *)
LEMMA StartBusy ==
    ASSUME WorkOK, NEW a \in App, NEW q, NEW child, TurnInv',
           StartRequest(a, q, child), ~a.cancelPending, Resting(a), ~a.retryAt,
           Kinds(q) = {}, UNCHANGED life
    PROVE  BusyInv'
  <1> DEFINE r    == issued + 1
             base == [a EXCEPT !.processing = TRUE, !.processedCalls = FALSE,
                               !.dispatched = FALSE, !.text = FALSE]
             b    == [base EXCEPT !.processing = FALSE]
             d    == [base EXCEPT !.active = r, !.open = @ \cup {r}]
  <1>1. /\ base \in App /\ base.cancelPending = a.cancelPending
        /\ base.retryAt = a.retryAt /\ base.approval = a.approval
        /\ base.asking = a.asking /\ base.executing = a.executing
        /\ base.processing
    BY DEF App
  <1>2. /\ rx' = q /\ token' = r
        /\ r \in cancelled' => life.shutdown
        /\ \/ app' = SettleTurn(b)
           \/ /\ r <= MaxRequests
              /\ app' = d
              /\ task' = [task EXCEPT ![r].state = "opening"]
              /\ issued' = r
    BY DEF StartRequest, NewToken
  <1> HIDE DEF base
  <1>3. CASE app' = SettleTurn(b)
    <2>1. b \in App /\ Calm(b)
      BY ZenonT(60), <1>1 DEF App, Calm, Interaction, Resting
    <2> HIDE DEF b
    <2> QED
      BY <1>3, <2>1, SettleTurnCalm, CalmHanded, EndBusy
  <1>4. CASE /\ r <= MaxRequests
             /\ app' = d
             /\ task' = [task EXCEPT ![r].state = "opening"]
             /\ issued' = r
    <2>1. r \in Requests /\ task \in [Requests -> Tasks]
      BY <1>4, BoundAssumption DEF WorkOK, Requests
    <2>2. task'[issued'].state = "opening"
      BY <1>4, <2>1 DEF Tasks
    <2>3. d.active = r /\ Heedful(d)
      BY <1>1 DEF App, Heedful, Interaction, Resting
    <2> HIDE DEF d
    <2>4. Kinds(rx)' = {}
      BY <1>2 DEF Kinds
    <2>5. AtWork' /\ ~Settled(app, rx, batch)'
      BY <1>4, <2>1, <2>2 DEF AtWork, Settled, AtRest, Over, Requests
    <2>6. Doomed' => life'.shutdown
      BY <1>2, <1>4, <2>2, <2>4 DEF Doomed
    <2> QED
      BY <1>4, <2>3, <2>5, <2>6 DEF BusyInv, Heedful, Interaction
  <1> QED
    BY <1>2, <1>3, <1>4

(* A call is dispatched, shown or rejected only while nobody has stopped.    *)
LEMMA DispatchHanded ==
    ASSUME NEW a \in App, NEW q, Dispatch(a, q), a.pending # NoCall,
           ~a.cancelPending, ~Interaction(a), ~a.retryAt
    PROVE  Handed(app') /\ ~app'.cancelPending
  <1> DEFINE b == [a EXCEPT !.executing = TRUE, !.dispatched = TRUE,
                            !.processing = TRUE]
             d == [a EXCEPT !.processing = TRUE, !.dispatched = TRUE,
                            !.approval = FALSE]
             x == SettleTurn(a)
             y == Answer(x, {a.pending})
             e == [y EXCEPT !.pending = NoCall, !.processing = FALSE,
                            !.dispatched = TRUE, !.approval = FALSE]
  <1>1. app' \in {b, d, e}
    BY DEF Dispatch, Settle
  <1>2. \A f \in {b, d} : Handed(f) /\ ~f.cancelPending
    BY ZenonT(60) DEF App, Handed, Heedful, Interaction
  <1>3. Handed(e) /\ ~e.cancelPending
    <2>1. x \in App /\ SameFlags(a, x) /\ SameHand(a, x)
      BY SettleTurnType, FlagsKept
    <2> HIDE DEF x
    <2>2. y \in App /\ SameFlags(x, y) /\ SameHand(x, y)
      BY <2>1, AnswerType, FlagsKept
    <2> HIDE DEF y
    <2>3. /\ ~e.processing /\ ~e.approval /\ e.asking = y.asking
          /\ e.cancelPending = y.cancelPending /\ e.retryAt = y.retryAt
      BY <2>2 DEF App
    <2> HIDE DEF e
    <2>4. Calm(e)
      BY <2>1, <2>2, <2>3 DEF Calm, Interaction, SameFlags, SameHand
    <2> QED
      BY <2>4, CalmHanded DEF Calm
  <1> QED
    BY <1>1, <1>2, <1>3

(* So is one that is begun.                                                  *)
LEMMA BeginHanded ==
    ASSUME NEW a0 \in App, NEW q, NEW c \in Calls, BeginCall(c, a0, q),
           KindOf(c) \in CallKinds,
           ~a0.cancelPending, ~Interaction(a0), ~a0.retryAt
    PROVE  Handed(app') /\ ~app'.cancelPending
  <1> DEFINE a == [a0 EXCEPT !.pending = c]
             b == [a EXCEPT !.processing = TRUE, !.dispatched = TRUE]
             d == [a EXCEPT !.asking = TRUE, !.processing = FALSE]
             e == [a EXCEPT !.approval = TRUE, !.processing = FALSE]
             y == Answer(a, {c})
             z == [y EXCEPT !.pending = NoCall, !.dispatched = TRUE,
                            !.processing = FALSE, !.approval = FALSE]
  <1>1. /\ a \in App /\ a.pending = c
        /\ a.cancelPending = a0.cancelPending /\ a.retryAt = a0.retryAt
        /\ a.approval = a0.approval /\ a.asking = a0.asking
    BY DEF App
  <1>2. c # NoCall
    BY DEF NoCall, Calls, Requests
  <1>3. \/ app' \in {b, e, SettleTurn(z)} \/ Dispatch(a, q)
        \/ app' = d /\ "ask" \in CallKinds
    BY DEF BeginCall, Settle
  <1> HIDE DEF a
  <1>4. /\ \A f \in {b, e} : Handed(f) /\ ~f.cancelPending
        /\ "ask" \in CallKinds => Handed(d) /\ ~d.cancelPending
    BY <1>1, <1>2 DEF App, Handed, Heedful, Interaction
  <1>5. Calm(SettleTurn(z))
    <2>1. y \in App /\ SameFlags(a, y) /\ SameHand(a, y)
      BY <1>1, AnswerType, FlagsKept
    <2> HIDE DEF y
    <2>2. z \in App /\ Calm(z)
      <3>1. /\ ~z.processing /\ ~z.approval /\ z.asking = y.asking
            /\ z.cancelPending = y.cancelPending /\ z.retryAt = y.retryAt
            /\ z \in App
        BY ZenonT(60), <2>1 DEF App, NoCall
      <3> QED
        BY <1>1, <2>1, <3>1 DEF Calm, Interaction, SameFlags, SameHand
    <2> HIDE DEF z
    <2> QED
      BY <2>2, SettleTurnCalm
  <1>6. Interaction(a) = Interaction(a0)
    BY <1>1 DEF Interaction
  <1> QED
    BY <1>1, <1>2, <1>3, <1>4, <1>5, <1>6, CalmHanded, DispatchHanded DEF Calm

-----------------------------------------------------------------------------
(* What each handler does to the flags.                                     *)

(* A chunk: the request goes on, or a loop stops it.                         *)
LEMMA ChunkBusy ==
    ASSUME TypeOK, TurnInv, TurnInv', BusyInv, HandleChunk PROVE BusyInv'
  <1> DEFINE b == [app EXCEPT !.text = TRUE]
             d == [app EXCEPT !.text = TRUE, !.cancelPending = TRUE]
  <1>1. /\ Receive("chunk") /\ rx' = Rest
        /\ UNCHANGED <<task, issued, tools, token, life>>
        /\ \/ app' \in {app, b} /\ UNCHANGED cancelled
           \/ app' = d /\ app.processing
    BY DEF HandleChunk, Settle, work, Receive
  <1>2. Asked(app, rx) /\ Kinds(rx) = Kinds(Rest) \cup {"chunk"}
    BY <1>1, Received, PhaseOf
  <1>3. /\ b.processing = app.processing /\ b.cancelPending = app.cancelPending
        /\ b.active = app.active /\ b.retryAt = app.retryAt
        /\ b.approval = app.approval /\ b.asking = app.asking
        /\ d.processing = app.processing /\ d.cancelPending
        /\ d.active = app.active /\ d.retryAt = app.retryAt
        /\ d.approval = app.approval /\ d.asking = app.asking
    BY DEF TypeOK, App
  <1> HIDE DEF b, d
  <1>4. /\ app'.processing /\ app'.active = app.active
        /\ ~app'.retryAt /\ ~app'.approval /\ ~app'.asking
        /\ app'.cancelPending \/ (app'.cancelPending = app.cancelPending
                                  /\ UNCHANGED cancelled)
    BY <1>1, <1>2, <1>3 DEF Asked, Resting, Expecting
  <1>5. AtWork' = AtWork /\ AtWork /\ ~Settled(app, rx, batch)'
    BY <1>1, <1>2 DEF Asked, AtWork, Settled, AtRest, Over, TypeOK, Requests
  <1>6. Doomed' => app'.cancelPending \/ life'.shutdown
    <2>1. "cancelled" \notin Kinds(rx)'
      BY <1>1, <1>2 DEF Asked, Awaited, Kinds
    <2> QED
      BY <1>1, <1>4, <1>5, <2>1 DEF Doomed, BusyInv
  <1> QED
    BY <1>1, <1>4, <1>5, <1>6 DEF BusyInv, Heedful, Interaction

(* A checkpoint: the turn goes on to its reply, or is settled.               *)
LEMMA PersistBusy ==
    ASSUME TypeOK, TurnInv, TurnInv', BusyInv, HandlePersist PROVE BusyInv'
  <1> DEFINE b == CloseMarker(app, Req)
             d == [b EXCEPT !.called = @ \cup ElemsOf(CallsOf(Req))]
             e == [b EXCEPT !.processing = FALSE, !.pending = NoCall,
                            !.text = FALSE]
  <1>1. /\ Receive("persist") /\ rx' = Rest
        /\ UNCHANGED <<issued, tools, token, cancelled, life>>
        /\ \/ task' = [task EXCEPT ![Req].state = "acked"] /\ app' = d
           \/ app' = SettlementFailed(app, Req)
    BY DEF HandlePersist, SetState, Receive
  <1>2. /\ Req = issued /\ Req \in Requests /\ Asked(app, rx)
        /\ Kinds(rx) = Kinds(Rest) \cup {"persist"}
    BY <1>1, Received, PhaseOf
  <1>3. task[issued].state = "waiting" /\ AtWork
    BY <1>2 DEF Asked, Awaited
  <1>4. app.active = Req /\ app \in App /\ task \in [Requests -> Tasks]
    BY <1>2, <1>3 DEF BusyInv, TypeOK
  <1>5. b \in App /\ SameTurn(app, b)
    BY <1>4, CloseTurn
  <1>6. CASE app' = SettlementFailed(app, Req)
    <2>1. b.executing = app.executing /\ b.cancelPending = app.cancelPending
          /\ ~app.executing /\ ~Interaction(b) /\ ~b.retryAt
      BY <1>2, <1>5 DEF SameTurn, SameFlags, SameHand, Asked, Resting, Expecting,
         Interaction
    <2>2. app' = IF app.cancelPending THEN SettleCancellation(b) ELSE SettleTurn(e)
      BY <1>4, <1>6, <2>1 DEF SettlementFailed
    <2> HIDE DEF b
    <2>3. e \in App /\ ~b.cancelPending => Calm(e)
      BY <1>5, <2>1 DEF App, Calm, Interaction, NoCall
    <2> HIDE DEF e
    <2>4. e \in App
      BY <1>5 DEF App, NoCall, e
    <2> QED
      BY <1>5, <2>1, <2>2, <2>3, <2>4, CancellationCalm, SettleTurnCalm,
         CalmHanded, EndBusy
  <1>7. CASE task' = [task EXCEPT ![Req].state = "acked"] /\ app' = d
    <2> HIDE DEF b
    <2>1. /\ d.cancelPending = b.cancelPending /\ d.processing = b.processing
          /\ d.retryAt = b.retryAt /\ d.approval = b.approval
          /\ d.asking = b.asking
      BY <1>5 DEF App
    <2> HIDE DEF d
    <2>2. Heedful(app) /\ Heedful(app') /\ app'.cancelPending = app.cancelPending
      BY <1>2, <1>5, <1>7, <2>1
      DEF BusyInv, Heedful, Interaction, SameTurn, SameFlags, SameHand, Asked,
          Expecting
    <2>3. task'[issued'].state = "acked" /\ task'[issued'].outcome = task[issued].outcome
      BY <1>1, <1>2, <1>4, <1>7 DEF Tasks
    <2>4. AtWork' /\ ~Settled(app, rx, batch)'
      BY <1>1, <1>2, <2>3 DEF AtWork, Settled, AtRest, Over, Requests
    <2>5. Doomed' => Doomed
      <3>1. "cancelled" \notin Kinds(rx)'
        BY <1>1, <1>2 DEF Asked, Awaited, Kinds
      <3> QED
        BY <1>1, <1>3, <2>3, <3>1 DEF Doomed
    <2> QED
      BY <1>1, <2>2, <2>3, <2>4, <2>5 DEF BusyInv, Heedful, Interaction
  <1> QED
    BY <1>1, <1>6, <1>7

(* The flags and the request of the turn are the same, its queue as long.    *)
LEMMA SameBusy ==
    ASSUME BusyInv, SameTurn(app, app'), app'.active = app.active,
           UNCHANGED <<issued, token, cancelled>>,
           life'.shutdown = life.shutdown \/ life'.shutdown,
           AtWork' => AtWork /\ task'[issued] = task[issued],
           Settled(app, rx, batch)' => Settled(app, rx, batch),
           "cancelled" \in Kinds(rx') => "cancelled" \in Kinds(rx)
    PROVE  BusyInv'
  <1>1. Doomed' => Doomed
    BY DEF Doomed, Kinds
  <1>2. Heedful(app)'
    BY DEF BusyInv, Heedful, Interaction, SameTurn, SameFlags, SameHand
  <1>3. /\ app'.processing = app.processing
        /\ app'.cancelPending = app.cancelPending
    BY DEF SameTurn, SameFlags
  <1> QED
    BY <1>1, <1>2, <1>3 DEF BusyInv

(* A refused checkpoint is acknowledged: the turn has gone on without it.    *)
LEMMA FailedBusy ==
    ASSUME TypeOK, IInv, TurnInv, TurnInv', BusyInv, HandleFailed, Orderly
    PROVE  BusyInv'
  <1> DEFINE b == SettlementFailed(app, Req)
  <1>1. /\ Receive("failed") /\ GoOn /\ rx' = Rest /\ app' = b
        /\ UNCHANGED <<task, issued, tools, token, cancelled, life>>
    BY DEF HandleFailed, Settle, work, Receive
  <1>2. Kinds(Rest) = Kinds(rx) /\ Rest \in Seq(Events)
    BY <1>1, Received
  <1>3. app.active # Req
    <2>1. Req \in Requests /\ Over(Req)
      BY <1>1, Received
    <2>2. Req \notin Live /\ Req # 0
      BY <2>1 DEF Over, Live, Requests
    <2> QED
      BY <2>2 DEF IInv, MarkerIsLive
  <1>4. SameTurn(app, b) /\ Closed(app, b, Req)
    BY <1>3, FailedQuiet, FailedSame DEF TypeOK
  <1> HIDE DEF b
  <1>5. app'.active = app.active /\ SameTurn(app, app')
    BY <1>1, <1>3, <1>4 DEF Closed
  <1>6. Settled(app, rx, batch)' => Settled(app, rx, batch)
    <2>1. Kinds(rx)' = Kinds(rx) /\ AtRest' = AtRest
      BY <1>1, <1>2 DEF Kinds, AtRest, Over
    <2>2. ASSUME Settled(app, rx, batch)' PROVE Settled(app, rx, batch)
      <3>1. /\ AtRest /\ tools = {} /\ Resting(app) /\ Kinds(rx) \subseteq {"done"}
            /\ app.retryAt => app.processing /\ Kinds(rx) = {}
        BY <1>1, <1>5, <2>1, <2>2
        DEF Settled, Resting, SameTurn, SameHand, SameFlags
      <3>2. ~Asked(app, rx) /\ ~Calling(app, rx, batch)
        BY <3>1 DEF Asked, AtWork, AtRest, Over, Calling, Resting, TypeOK, Requests
      <3>3. ~Replied(app, rx)
        <4>1. "done" \in Kinds(rx) => app.processedCalls
          BY <1>5, <2>1, <2>2 DEF Settled, DoneNext, SameTurn, SameFlags
        <4> QED
          BY <3>1, <4>1 DEF Replied, Expecting
      <3> QED
        BY <3>2, <3>3 DEF TurnInv, Turned, Phase
    <2> QED
      BY <2>2
  <1>7. (AtWork' => AtWork /\ task'[issued] = task[issued])
        /\ ("cancelled" \in Kinds(rx') => "cancelled" \in Kinds(rx))
    BY <1>1, <1>2 DEF AtWork
  <1> QED
    BY <1>1, <1>5, <1>6, <1>7, SameBusy

(* The client was stopped: either that is pending still, or all shuts down.  *)
LEMMA CancelledBusy ==
    ASSUME TypeOK, TurnInv, TurnInv', BusyInv, HandleCancelled PROVE BusyInv'
  <1> DEFINE b == CloseMarker(app, Req)
  <1>1. /\ Receive("cancelled") /\ rx' = Rest
        /\ UNCHANGED <<task, issued, tools, token, cancelled, life>>
        /\ IF app.cancelPending THEN app' = SettleCancellation(b) ELSE app' = b
    BY DEF HandleCancelled, Settle, work, Receive
  <1>2. /\ Quiet(app) /\ AtRest /\ Rested(Rest) /\ Expecting(app)
        /\ "cancelled" \in Kinds(rx)
    BY <1>1, EndOfReply, Received
  <1>3. b \in App /\ SameTurn(app, b)
    BY CloseTurn DEF TypeOK
  <1> HIDE DEF b
  <1>4. CASE app.cancelPending
    <2>1. ~b.executing /\ ~Interaction(b) /\ ~b.retryAt
      BY <1>2, <1>3
      DEF Quiet, Resting, Interaction, SameTurn, SameFlags, SameHand
    <2> QED
      BY <1>1, <1>3, <1>4, <2>1, CancellationCalm, CalmHanded, EndBusy
  <1>5. CASE ~app.cancelPending
    <2>1. life'.shutdown
      BY <1>1, <1>2, <1>5 DEF BusyInv, Doomed
    <2>2. Heedful(app)'
      BY <1>1, <1>3, <1>5
      DEF BusyInv, Heedful, Interaction, SameTurn, SameFlags, SameHand
    <2>3. ~AtWork'
      BY <1>1, <1>2 DEF AtWork, AtRest, Over
    <2> QED
      BY <2>1, <2>2, <2>3 DEF BusyInv
  <1> QED
    BY <1>4, <1>5

(* An error is final where no retry is configured.                           *)
LEMMA ErrorBusy ==
    ASSUME Unretried, TypeOK, TurnInv, TurnInv', HandleError PROVE BusyInv'
  <1> DEFINE z == [app EXCEPT !.attempts = 0]
             y == [z EXCEPT !.processing = FALSE]
             a == [app EXCEPT !.attempts = 0, !.processing = FALSE]
             e == [a EXCEPT !.active = 0]
  <1>1. Receive("error") /\ app \in App
    BY DEF HandleError, TypeOK
  <1>2. Quiet(app)
    BY <1>1, EndOfReply
  <1>3. ~MayRetry(app)
    BY <1>1 DEF MayRetry, App, Unretried
  <1>4. /\ y = a /\ SameHand(app, a) /\ a.retryAt = app.retryAt
        /\ a.cancelPending = app.cancelPending /\ ~a.processing
    BY <1>1 DEF App, SameHand
  <1>5. y \in App
    <2>1. z \in App
      BY <1>1, ResetAttempts
    <2> HIDE DEF z
    <2> QED
      BY <2>1 DEF App
  <1>6. app' = IF a.cancelPending THEN SettleCancellation(e) ELSE SettleTurn(a)
    <2>1. ~a.executing
      BY <1>2, <1>4 DEF Quiet, Resting, SameHand
    <2> HIDE DEF a
    <2>2. \/ app' = SettleCancellation(e) /\ a.cancelPending
          \/ app' = SettleTurn(a) /\ ~a.cancelPending
      BY <1>3, <2>1 DEF HandleError, Settle, a
    <2> QED
      BY <2>2
  <1> HIDE DEF a
  <1>7. e \in App /\ SameTurn(a, e)
    BY ZenonT(60), <1>4, <1>5 DEF App, SameTurn, SameFlags, SameHand
  <1> HIDE DEF e
  <1>8. /\ ~e.executing /\ ~Interaction(e) /\ ~e.retryAt
        /\ ~a.cancelPending => Calm(a)
    BY <1>2, <1>4, <1>7
    DEF Quiet, Resting, Calm, Interaction, SameTurn, SameFlags, SameHand
  <1> QED
    BY <1>4, <1>5, <1>6, <1>7, <1>8, CancellationCalm, SettleTurnCalm,
       CalmHanded, EndBusy

(* The calls of a reply are begun, rejected, or ignored.                     *)
LEMMA ToolCallsBusy ==
    ASSUME TypeOK, TurnInv, TurnInv', BusyInv, HandleToolCalls PROVE BusyInv'
  <1> DEFINE cs == CallsOf(Req)
             z  == [app EXCEPT !.processedCalls = TRUE]
             a  == [z EXCEPT !.processing = FALSE]
             b  == [z EXCEPT !.pending = NoCall, !.approval = FALSE,
                             !.asking = FALSE, !.processing = FALSE,
                             !.executing = FALSE, !.dispatched = FALSE,
                             !.called = @ \ ElemsOf(cs)]
             e  == [z EXCEPT !.queued = Tail(cs),
                             !.called = @ \cup ElemsOf(cs),
                             !.taken = @ \cup ElemsOf(cs)]
  <1>1. /\ Receive("calls")
        /\ \/ IgnoresCalls(app) /\ Settle(app, Rest)
           \/ /\ ~app.cancelPending
              /\ \/ app' \in {SettleTurn(a), SettleTurn(b)}
                 \/ cs # <<>> /\ BeginCall(Head(cs), e, Rest)
    BY DEF HandleToolCalls, HandleCalls, IgnoresCalls, Settle
  <1>2. /\ Replied(app, rx) /\ Req \in Requests
        /\ Kinds(rx) = Kinds(Rest) \cup {"calls"}
    BY <1>1, Received, PhaseOf
  <1>3. app \in App /\ ~Interaction(app) /\ ~app.retryAt
        /\ task \in [Requests -> Tasks]
    BY <1>2 DEF TypeOK, Replied, Resting, Expecting, Interaction
  <1>4. z \in App /\ z.approval = app.approval /\ z.asking = app.asking
        /\ z.retryAt = app.retryAt /\ z.cancelPending = app.cancelPending
    BY <1>3 DEF App
  <1>5. cs \in Seq(Calls) /\ ElemsOf(cs) \subseteq Calls
    BY <1>2, <1>3, CallsOfType
  <1> HIDE DEF cs, z
  <1>6. CASE ~app.cancelPending /\ app' \in {SettleTurn(a), SettleTurn(b)}
    <2>1. a \in App /\ b \in App
      BY ZenonT(60), <1>4 DEF App, NoCall
    <2>2. Calm(a) /\ Calm(b)
      BY <1>3, <1>4, <1>6 DEF App, Calm, Interaction
    <2> HIDE DEF a, b
    <2> QED
      BY <1>6, <2>1, <2>2, SettleTurnCalm, CalmHanded, EndBusy
  <1>7. CASE ~app.cancelPending /\ cs # <<>> /\ BeginCall(Head(cs), e, Rest)
    <2>1. Head(cs) \in Calls /\ Tail(cs) \in Seq(Calls)
      BY <1>5, <1>7
    <2>2. /\ e \in App /\ e.cancelPending = z.cancelPending
          /\ e.approval = z.approval /\ e.asking = z.asking
          /\ e.retryAt = z.retryAt
      BY <1>4, <1>5, <2>1 DEF App
    <2> HIDE DEF e
    <2>3. KindOf(Head(cs)) \in CallKinds
      <3>1. Head(cs) \in ElemsOf(cs)
        BY <1>5, <1>7 DEF ElemsOf
      <3>2. Head(cs)[1] = Req /\ Head(cs)[2] <= Len(task[Req].calls)
        BY <1>2, <1>3, <3>1, CallsOfReply DEF cs
      <3> QED
        BY <1>3, <2>1, <3>2, KnownKind
    <2> QED
      BY <1>3, <1>4, <1>7, <2>1, <2>2, <2>3, BeginHanded, EndBusy
      DEF Interaction
  <1>8. CASE Settle(app, Rest)
    <2>1. /\ app' = app /\ rx' = Rest
          /\ UNCHANGED <<task, issued, tools, token, cancelled, life>>
      BY <1>1, <1>8 DEF Settle, work, Receive
    <2>2. AtRest /\ ~AtWork /\ "cancelled" \notin Kinds(rx)
      BY <1>2 DEF Replied, AtWork, AtRest, Over
    <2>3. ~AtWork' /\ "cancelled" \notin Kinds(rx)'
      BY <1>2, <2>1, <2>2 DEF AtWork, Kinds
    <2>4. ~Settled(app, rx, batch)'
      <3>1. Kinds(Rest) = {"done"}
        <4>1. \A k \in Kinds(Rest) : <<"calls", k>> \in Follows
          BY <1>1, Received
        <4> QED
          BY <1>2, <4>1 DEF Replied, Follows
      <3>2. ~app.processedCalls
        BY <1>2 DEF Replied, Expecting
      <3> QED
        BY <2>1, <3>1, <3>2 DEF Settled, DoneNext, Kinds
    <2> QED
      BY <2>1, <2>3, <2>4 DEF BusyInv, Doomed, Heedful, Interaction
  <1> QED
    BY <1>1, <1>6, <1>7, <1>8

(* After a result the next call begins, or the next request, or all is over. *)
LEMMA ToolResultBusy ==
    ASSUME TypeOK, IInv, TurnInv, TurnInv', HandleToolResult PROVE BusyInv'
  <1> DEFINE y == Answer(app, {Head(rx).call})
             a == [y EXCEPT !.executing = FALSE, !.pending = NoCall]
             x == AbandonQueued(a)
             b == [x EXCEPT !.processedCalls = FALSE, !.dispatched = FALSE,
                            !.text = FALSE]
             d == [b EXCEPT !.cancelPending = FALSE, !.processing = FALSE]
             n == [a EXCEPT !.queued = Tail(@), !.dispatched = FALSE,
                            !.processing = TRUE]
  <1>1. /\ Receive("result") /\ UNCHANGED life
        /\ \/ ~a.cancelPending /\ a.queued # <<>> /\ BeginCall(Head(a.queued), n, Rest)
           \/ a.active # 0 \/ app' = SettleTurn(d)
           \/ ~a.cancelPending /\ a.queued = <<>> /\ StartRequest(a, Rest, FALSE)
    BY DEF HandleToolResult, Settle, Receive
  <1>2. /\ Calling(app, rx, batch) /\ HasEnded(app, rx)
        /\ Kinds(Rest) = {}
    <2>1. \A k \in Kinds(Rest) : <<"result", k>> \in Follows
      BY <1>1, Received
    <2> QED
      BY <1>1, <2>1, Received, PhaseOf DEF Follows
  <1>3. /\ app \in App /\ WorkOK /\ ~app.approval /\ ~app.asking /\ ~app.retryAt
        /\ AtRest /\ tools = {}
    BY <1>2 DEF TypeOK, WorkOK, Calling, HasEnded
  <1>4. app.active = 0
    <2>1. Live = {}
      BY <1>3, WorkersNow
      DEF AtRest, Over, Live, TurnInv, Past, Requests, TypeOK
    <2> QED
      BY <2>1 DEF IInv, MarkerIsLive
  <1>5. /\ y \in App /\ SameFlags(app, y) /\ SameHand(app, y)
        /\ y.active = app.active /\ y.queued = app.queued
    <2> DEFINE res == [c \in Calls |-> IF c \in {Head(rx).call}
                                       THEN app.results[c] + 1
                                       ELSE app.results[c]]
    <2>1. y = [app EXCEPT !.results = res]
      BY DEF Answer
    <2> HIDE DEF res
    <2>2. y.queued = app.queued
      BY <1>3, <2>1 DEF App
    <2> QED
      BY <1>3, <2>2, AnswerType, FlagsKept DEF SameRequests
  <1> HIDE DEF y
  <1>6. /\ a \in App /\ SameFlags(y, a) /\ a.pending = NoCall /\ ~a.executing
        /\ a.approval = y.approval /\ a.asking = y.asking
        /\ a.active = y.active /\ a.queued = y.queued
    BY <1>5 DEF App, SameFlags
  <1> HIDE DEF a
  <1>7. ~Interaction(a) /\ ~a.retryAt /\ a.active = 0
    BY <1>3, <1>4, <1>5, <1>6 DEF Interaction, SameFlags, SameHand
  <1>8. CASE ~a.cancelPending /\ a.queued # <<>> /\ BeginCall(Head(a.queued), n, Rest)
    <2>1. a.queued \in Seq(Calls)
      BY <1>6 DEF App
    <2>2. Head(a.queued) \in Calls /\ Tail(a.queued) \in Seq(Calls)
      BY <1>8, <2>1
    <2>3. /\ n \in App /\ n.cancelPending = a.cancelPending
          /\ n.approval = a.approval /\ n.asking = a.asking
          /\ n.retryAt = a.retryAt
      BY <1>6, <2>2 DEF App
    <2> HIDE DEF n
    <2>4. KindOf(Head(a.queued)) \in CallKinds
      <3>1. a.queued = app.queued
        BY <1>5, <1>6
      <3>2. Head(a.queued) \in app.taken
        BY <1>8, <2>1, <3>1 DEF TurnInv, Turned, Listed, ElemsOf
      <3> QED
        BY <1>3, <2>2, <3>2, KnownKind DEF TurnInv, Turned, Known, WorkOK
    <2> QED
      BY <1>7, <1>8, <2>2, <2>3, <2>4, BeginHanded, EndBusy DEF Interaction
  <1>9. CASE app' = SettleTurn(d)
    <2>1. x \in App /\ SameFlags(a, x) /\ SameHand(a, x)
      BY <1>6, AbandonType, FlagsKept
    <2> HIDE DEF x
    <2>2. /\ b \in App /\ b.approval = x.approval /\ b.asking = x.asking
          /\ b.retryAt = x.retryAt
      BY <2>1 DEF App
    <2> HIDE DEF b
    <2>3. d \in App /\ Calm(d)
      BY ZenonT(60), <1>7, <2>1, <2>2 DEF App, Calm, Interaction, SameFlags, SameHand
    <2> HIDE DEF d
    <2> QED
      BY <1>9, <2>3, SettleTurnCalm, CalmHanded, EndBusy
  <1>10. CASE /\ ~a.cancelPending /\ a.queued = <<>>
              /\ StartRequest(a, Rest, FALSE)
    <2>1. Resting(a)
      BY <1>6, <1>7, <1>10 DEF Resting, Interaction
    <2> QED
      BY <1>1, <1>2, <1>3, <1>6, <1>7, <1>10, <2>1, StartBusy
  <1> QED
    BY <1>1, <1>7, <1>8, <1>9, <1>10

(* The end of a reply hands the turn to its call, or settles it.             *)
LEMMA DoneBusy ==
    ASSUME TypeOK, TurnInv, TurnInv', BusyInv, HandleDone PROVE BusyInv'
  <1> DEFINE a == [app EXCEPT !.attempts = 0]
             d == [a EXCEPT !.processing = FALSE]
             e == [a EXCEPT !.active = IF @ = Req THEN 0 ELSE @]
  <1>1. /\ Receive("done")
        /\ \/ a.cancelPending /\ app' = SettleCancellation(e)
           \/ /\ ~a.cancelPending /\ ~d.processedCalls
              /\ d.executing \/ app' = SettleTurn(d)
           \/ /\ ~a.cancelPending /\ d.processedCalls
              /\ \/ d.pending # NoCall /\ d.always /\ ~d.dispatched
                 \/ app' = d
    BY DEF HandleDone, Settle
  <1>2. /\ Kinds(rx) = Kinds(Rest) \cup {"done"}
        /\ Replied(app, rx) \/ Calling(app, rx, batch) \/ Settled(app, rx, batch)
    BY <1>1, Received, PhaseOf DEF TurnInv, Turned, Phase
  <1>3. /\ a \in App /\ SameTurn(app, a)
    BY ResetAttempts DEF TypeOK, App, SameTurn, SameFlags, SameHand
  <1> HIDE DEF a
  <1>4. /\ d \in App /\ SameHand(a, d) /\ ~d.processing
        /\ d.retryAt = a.retryAt /\ d.always = a.always
        /\ d.processedCalls = a.processedCalls /\ d.dispatched = a.dispatched
        /\ d.cancelPending = a.cancelPending
        /\ e \in App /\ SameTurn(a, e)
    BY <1>3 DEF App, SameTurn, SameFlags, SameHand
  <1> HIDE DEF d, e
  <1>5. ~app.retryAt
    BY DEF BusyInv, Heedful
  <1>6. CASE ~app.processedCalls \/ app.cancelPending
    <2>1. Replied(app, rx)
      BY <1>2, <1>6 DEF Calling, Settled, DoneNext
    <2>2. /\ ~e.executing /\ ~Interaction(e) /\ ~e.retryAt /\ ~d.executing
          /\ ~d.cancelPending => Calm(d)
      BY <1>3, <1>4, <1>5, <2>1
      DEF Replied, Resting, Calm, Interaction, SameTurn, SameFlags, SameHand
    <2>3. \/ app' = SettleCancellation(e)
          \/ app' = SettleTurn(d) /\ ~d.cancelPending
      BY <1>1, <1>3, <1>4, <1>6, <2>2 DEF SameTurn, SameFlags
    <2> QED
      BY <1>4, <2>2, <2>3, CancellationCalm, SettleTurnCalm, CalmHanded, EndBusy
  <1>7. CASE app.processedCalls /\ ~app.cancelPending
    <2>1. Calling(app, rx, batch) \/ Settled(app, rx, batch)
      BY <1>2, <1>7 DEF Replied, Expecting
    <2>2. app' = d
      BY <1>1, <1>3, <1>4, <1>7, <2>1
      DEF Calling, Settled, Resting, SameTurn, SameFlags, SameHand
    <2>3. Handed(d)
      BY <1>3, <1>4, <1>5, <1>7
      DEF BusyInv, Handed, Heedful, Interaction, SameTurn, SameFlags, SameHand
    <2> QED
      BY <2>2, <2>3, EndBusy
  <1> QED
    BY <1>6, <1>7

(* A reply that only described an action is asked again.                     *)
LEMMA IntentionBusy ==
    ASSUME TypeOK, TurnInv, TurnInv', HandleIntention PROVE BusyInv'
  <1> DEFINE a == [app EXCEPT !.attempts = 0]
  <1>1. /\ Receive("done") /\ ~app.processedCalls /\ ~app.cancelPending
        /\ StartRequest(a, Rest, FALSE) /\ UNCHANGED life
    BY DEF HandleIntention, Receive
  <1>2. /\ Kinds(Rest) \subseteq {"result"} /\ Kinds(rx) = Kinds(Rest) \cup {"done"}
    <2>1. \A k \in Kinds(Rest) : <<"done", k>> \in Follows
      BY <1>1, Received
    <2> QED
      BY <1>1, <2>1, Received DEF Follows
  <1>3. Replied(app, rx)
    BY <1>1, <1>2, PhaseOf DEF TurnInv, Turned, Phase, Calling, Settled, DoneNext
  <1>4. Kinds(Rest) = {}
    BY <1>2, <1>3 DEF Replied
  <1>5. a \in App /\ SameTurn(app, a) /\ WorkOK
    BY ResetAttempts DEF TypeOK, WorkOK, App, SameTurn, SameFlags, SameHand
  <1> HIDE DEF a
  <1>6. Resting(a) /\ ~a.retryAt /\ ~a.cancelPending
    BY <1>1, <1>3, <1>5
    DEF Replied, Resting, Expecting, SameTurn, SameFlags, SameHand
  <1> QED
    BY <1>1, <1>4, <1>5, <1>6, StartBusy

-----------------------------------------------------------------------------
(* A client queues its event: who stopped it is known until it is handled.   *)
LEMMA ClientBusy ==
    ASSUME Orderly, TypeOK, TurnInv, TurnInv', BusyInv, Client PROVE BusyInv'
  <1>1. PICK r \in Requests : \/ ClientChunk(r) \/ ClientReply(r)
                              \/ ClientError(r) \/ ClientStopped(r)
                              \/ ClientEmit(r)
    BY DEF Client
  <1>2. /\ UNCHANGED <<app, issued, tools, token, cancelled, life, batch>>
        /\ task \in [Requests -> Tasks] /\ rx \in Seq(Events) /\ Heedful(app)'
    BY <1>1 DEF ClientChunk, ClientReply, ClientError, ClientStopped,
                ClientFinish, ClientEmit, client, TypeOK, BusyInv, Heedful,
                Interaction
  <1>3. ASSUME task[r].state \notin {"none", "refused", "ended"}
        PROVE  r = issued /\ Asked(app, rx) /\ "cancelled" \notin Kinds(rx)
    BY <1>3, WorkerTurn DEF Asked, Awaited
  <1>4. ASSUME NEW k \in EventKinds, rx' = Append(rx, Ev(k, r))
        PROVE  Kinds(rx') = Kinds(rx) \cup ({k} \ {"failed"})
    <2> DEFINE e == Ev(k, r)
    <2>1. e \in Events /\ e.kind = k
      BY EventType DEF Ev
    <2>2. rx' = Append(rx, e)
      BY <1>4
    <2> HIDE DEF e
    <2> QED
      BY <1>2, <2>1, <2>2 DEF Kinds
  <1>5. CASE ClientChunk(r)
    <2>1. /\ task[r].state = "opening" /\ rx' = Append(rx, Ev("chunk", r))
          /\ task' = [task EXCEPT ![r].state = "streaming"]
      BY <1>5 DEF ClientChunk, SetState
    <2>2. /\ r = issued /\ AtWork /\ "cancelled" \notin Kinds(rx)
          /\ task'[issued].state = "streaming"
      BY <1>2, <1>3, <2>1 DEF Asked, Tasks
    <2>3. "cancelled" \notin Kinds(rx')
      BY <1>4, <2>1, <2>2 DEF EventKinds
    <2>4. AtWork' /\ ~Settled(app, rx, batch)'
      BY <1>2, <2>2 DEF AtWork, Settled, AtRest, Over
    <2> QED
      BY <1>2, <2>1, <2>2, <2>3, <2>4 DEF BusyInv, Doomed, Kinds
  <1>6. ASSUME NEW o, NEW reply, ClientFinish(r, o, reply),
               o = "cancelled" => r \in cancelled
        PROVE  BusyInv'
    <2>1. /\ task[r].state \in {"opening", "streaming"}
          /\ rx' = Append(rx, Ev("persist", r))
          /\ task' = [task EXCEPT ![r] = [state |-> "waiting", outcome |-> o,
                                          calls |-> reply]]
      BY <1>6 DEF ClientFinish
    <2>2. /\ r = issued /\ AtWork /\ token = issued
          /\ "cancelled" \notin Kinds(rx)
          /\ task'[issued].state = "waiting" /\ task'[issued].outcome = o
      BY <1>2, <1>3, <2>1 DEF Asked
    <2>3. "cancelled" \notin Kinds(rx')
      BY <1>4, <2>1, <2>2 DEF EventKinds
    <2>4. AtWork' /\ ~Settled(app, rx, batch)'
      BY <1>2, <2>2 DEF AtWork, Settled, AtRest, Over
    <2>5. Doomed' => Doomed
      BY <1>2, <1>6, <2>2, <2>3 DEF Doomed, Kinds
    <2> QED
      BY <1>2, <2>1, <2>2, <2>4, <2>5 DEF BusyInv
  <1>7. CASE task[r].state = "refused" /\ ClientEmit(r)
    <2>1. /\ rx' = rx \o <<Ev("failed", r)>>
          /\ task' = [task EXCEPT ![r].state = "ended"]
      BY <1>7 DEF ClientEmit, SetState
    <2>2. rx' = Append(rx, Ev("failed", r))
      <3>1. Ev("failed", r) \in Events
        BY EventType DEF EventKinds
      <3> QED
        BY <1>2, <2>1, <3>1
    <2>3. Kinds(rx') = Kinds(rx)
      BY <1>4, <2>2 DEF EventKinds
    <2>4. /\ task'[r].state = "ended"
          /\ \A s \in Requests : s # r => task'[s] = task[s]
      BY <1>2, <2>1 DEF Tasks
    <2>5. /\ AtRest' => AtRest
          /\ AtWork' => AtWork /\ task'[issued] = task[issued]
      BY <1>2, <1>7, <2>4 DEF AtRest, AtWork, Over, TypeOK, Requests
    <2>6. Settled(app, rx, batch)' => Settled(app, rx, batch)
      BY <1>2, <2>3, <2>5 DEF Settled, Resting, DoneNext, Kinds
    <2>7. SameTurn(app, app')
      BY <1>2 DEF SameTurn, SameFlags, SameHand
    <2> QED
      BY <1>2, <2>3, <2>5, <2>6, <2>7, SameBusy
  <1>8. CASE task[r].state # "refused" /\ ClientEmit(r)
    <2>1. task[r].state \in {"acked", "finishing"}
      BY <1>8 DEF ClientEmit
    <2>2. r = issued /\ Asked(app, rx) /\ "cancelled" \notin Kinds(rx)
      BY <1>3, <2>1
    <2>3. task[r].state = "acked" /\ app.processing /\ ~app.processedCalls
      BY <2>1, <2>2 DEF Asked, AtWork, Expecting
    <2>4. /\ task' = [task EXCEPT ![r].state = "ended"]
          /\ \/ \E k \in {"done", "error", "cancelled"} :
                    /\ rx' = rx \o <<Ev(k, r)>>
                    /\ k = "cancelled" => task[r].outcome = "cancelled"
             \/ rx' = rx \o <<Ev("calls", r), Ev("done", r)>>
      BY <1>8, <2>3 DEF ClientEmit, SetState, Orderly
    <2>5. task'[issued].state = "ended" /\ ~AtWork'
      BY <1>2, <2>2, <2>4 DEF Tasks, AtWork
    <2>6. /\ "cancelled" \in Kinds(rx)' => task[r].outcome = "cancelled"
          /\ "done" \in Kinds(rx') \/ Kinds(rx') \cap {"error", "cancelled"} # {}
      <3>1. CASE \E k \in {"done", "error", "cancelled"} :
                    /\ rx' = rx \o <<Ev(k, r)>>
                    /\ k = "cancelled" => task[r].outcome = "cancelled"
        <4>1. PICK k \in {"done", "error", "cancelled"} :
                    /\ rx' = rx \o <<Ev(k, r)>>
                    /\ k = "cancelled" => task[r].outcome = "cancelled"
          BY <3>1
        <4>2. Ev(k, r) \in Events
          BY EventType DEF EventKinds
        <4>3. rx' = Append(rx, Ev(k, r))
          BY <1>2, <4>1, <4>2
        <4>4. Kinds(rx') = Kinds(rx) \cup {k}
          BY <1>4, <4>3 DEF EventKinds
        <4> QED
          BY <2>2, <4>1, <4>4 DEF Kinds
      <3>2. CASE rx' = rx \o <<Ev("calls", r), Ev("done", r)>>
        <4> DEFINE e == Ev("calls", r)
                   f == Ev("done", r)
        <4>1. e \in Events /\ e.kind = "calls" /\ f \in Events /\ f.kind = "done"
          BY EventType DEF EventKinds, Ev
        <4>2. rx' = Append(Append(rx, e), f)
          BY <1>2, <3>2, <4>1
        <4> HIDE DEF e, f
        <4>3. Kinds(rx') = Kinds(rx) \cup {"calls", "done"}
          BY <1>2, <4>1, <4>2 DEF Kinds
        <4> QED
          BY <2>2, <4>3 DEF Kinds
      <3> QED
        BY <2>4, <3>1, <3>2
    <2>7. Doomed' => Doomed
      BY <1>2, <2>2, <2>3, <2>5, <2>6 DEF Doomed, Asked
    <2>8. ~Settled(app, rx, batch)'
      BY <1>2, <2>3, <2>6 DEF Settled, DoneNext, Kinds
    <2> QED
      BY <1>2, <2>5, <2>7, <2>8 DEF BusyInv
  <1> QED
    BY <1>1, <1>5, <1>6, <1>7, <1>8 DEF ClientReply, ClientError, ClientStopped

(* A tool ends: the call is in hand still.                                   *)
LEMMA ToolBusy ==
    ASSUME TypeOK, TurnInv, TurnInv', BusyInv, NEW t \in tools, ToolFinish(t)
    PROVE  BusyInv'
  <1>1. app' = app
    BY DEF ToolFinish
  <1>2. Runs(app, rx) /\ app.pending # NoCall
    BY DEF TurnInv, Turned, Phase, Asked, Replied, Settled, Calling, Shown,
           HasEnded
  <1>3. Handed(app')
    BY <1>1, <1>2 DEF BusyInv, Handed
  <1> QED
    BY <1>3, EndBusy

(* A prompt is sent when nothing is left of a cancellation.                  *)
LEMMA PromptBusy ==
    ASSUME TypeOK, TurnInv, TurnInv', BusyInv, SendPrompt PROVE BusyInv'
  <1> DEFINE z == [app EXCEPT !.attempts = 0]
             y == [z EXCEPT !.turn = TRUE, !.active = 0]
             a == [app EXCEPT !.attempts = 0, !.turn = TRUE, !.active = 0]
  <1>1. /\ ~batch /\ FullyIdle(app) /\ StartRequest(a, rx, TRUE)
        /\ UNCHANGED life
    BY DEF SendPrompt, InputReady
  <1>2. Resting(app) /\ Rested(rx)
    BY <1>1, IdleTurn
  <1>3. ~app.cancelPending /\ ~app.retryAt
    BY <1>1 DEF BusyInv, Heedful, FullyIdle
  <1>4. app \in App /\ WorkOK
    BY DEF TypeOK, WorkOK
  <1>5. y = a /\ SameTurn(app, a)
    BY <1>4 DEF App, SameTurn, SameFlags, SameHand
  <1>6. y \in App
    <2>1. z \in App
      BY <1>4, ResetAttempts
    <2> HIDE DEF z
    <2> QED
      BY <2>1, BoundAssumption DEF App
  <1> HIDE DEF a, y
  <1> QED
    BY <1>1, <1>2, <1>3, <1>4, <1>5, <1>6, StartBusy
    DEF Resting, Rested, SameTurn, SameFlags, SameHand

(* While a question is shown nothing is cancelled.                           *)
LEMMA ShownCalm ==
    ASSUME TypeOK, TurnInv, BusyInv, ~batch, Interaction(app)
    PROVE  /\ app.pending \in Calls /\ app.pending # NoCall
           /\ app.approval # app.asking /\ ~app.executing
           /\ ~app.processing /\ ~app.cancelPending /\ ~app.retryAt
           /\ app \in App
  <1> DEFINE z == [app EXCEPT !.approval = FALSE, !.asking = FALSE]
  <1>1. /\ ~z.approval /\ ~z.asking /\ z.executing = app.executing
        /\ z.processedCalls = app.processedCalls /\ z.retryAt = app.retryAt
        /\ z.queued = app.queued /\ z.taken = app.taken
        /\ z.results = app.results /\ z.always = app.always
    BY DEF TypeOK, App
  <1>2. Allowed(z)
    BY <1>1 DEF TurnInv, Turned, Allowed
  <1> HIDE DEF z
  <1> QED
    BY <1>1, <1>2, ShownTurn DEF BusyInv, Heedful

(* The user answers.                                                         *)
LEMMA AnswerUserBusy ==
    ASSUME TypeOK, TurnInv, TurnInv', BusyInv, AnswerUser PROVE BusyInv'
  <1> DEFINE a == [app EXCEPT !.asking = FALSE]
             x == SettleTurn(a)
             y == Answer(x, {app.pending})
             b == [y EXCEPT !.processing = FALSE, !.pending = NoCall]
  <1>1. app.asking /\ ~batch /\ app' \in {a, b}
    BY DEF AnswerUser, InputReady, Settle
  <1>2. /\ app.approval # app.asking /\ ~app.processing
        /\ ~app.cancelPending /\ ~app.retryAt /\ app \in App
    BY <1>1, ShownCalm DEF Interaction
  <1>3. a \in App /\ Calm(a)
    BY <1>1, <1>2 DEF App, Calm, Interaction
  <1> HIDE DEF a
  <1>4. x \in App /\ Calm(x)
    BY <1>3, SettleTurnType, SettleTurnCalm
  <1> HIDE DEF x
  <1>5. y \in App /\ SameFlags(x, y) /\ SameHand(x, y)
    BY <1>4, AnswerType, FlagsKept
  <1> HIDE DEF y
  <1>6. Calm(b)
    BY <1>4, <1>5 DEF App, Calm, Interaction, SameFlags, SameHand
  <1> QED
    BY <1>1, <1>3, <1>6, CalmHanded, EndBusy

(* The user approves or denies.                                              *)
LEMMA ApprovalBusy ==
    ASSUME TypeOK, TurnInv, TurnInv', BusyInv,
           Deny \/ \E always \in BOOLEAN : Approve(always)
    PROVE  BusyInv'
  <1>1. app.approval /\ ~batch
    BY DEF Deny, Approve, InputReady
  <1>2. /\ app.pending # NoCall /\ ~app.asking
        /\ ~app.cancelPending /\ ~app.retryAt /\ app \in App
    BY <1>1, ShownCalm DEF Interaction
  <1>3. CASE Deny
    <2> DEFINE d == [app EXCEPT !.approval = FALSE, !.processing = TRUE]
    <2>1. app' = d
      BY <1>2, <1>3 DEF Deny, Settle
    <2>2. Handed(d)
      BY <1>2 DEF App, Handed, Heedful, Interaction
    <2> QED
      BY <2>1, <2>2, EndBusy
  <1>4. ASSUME NEW always \in BOOLEAN, Approve(always) PROVE BusyInv'
    <2> DEFINE a == [app EXCEPT !.approval = FALSE, !.always = @ \/ always]
    <2>1. Dispatch(a, rx)
      BY <1>4 DEF Approve
    <2>2. /\ a \in App /\ a.pending = app.pending /\ ~a.approval /\ ~a.asking
          /\ ~a.cancelPending /\ ~a.retryAt
      BY ZenonT(60), <1>2 DEF App
    <2> HIDE DEF a
    <2> QED
      BY <1>2, <2>1, <2>2, DispatchHanded, EndBusy DEF Interaction
  <1> QED
    BY <1>3, <1>4

(* A question that is withdrawn leaves a calm record.                        *)
LEMMA WithdrawnCalm ==
    ASSUME NEW a \in App, Interaction(a), a.pending # NoCall,
           ~a.cancelPending, ~a.retryAt
    PROVE  SettleInteraction(a) \in App /\ Calm(SettleInteraction(a))
  <1> DEFINE y == Answer(a, {a.pending})
             d == [y EXCEPT
                     !.pending = NoCall, !.approval = FALSE, !.asking = FALSE,
                     !.processing = FALSE, !.executing = FALSE,
                     !.processedCalls = FALSE, !.dispatched = FALSE]
  <1>1. SettleInteraction(a) = SettleTurn(d)
    BY DEF SettleInteraction
  <1>2. y \in App /\ SameFlags(a, y)
    BY AnswerType, FlagsKept
  <1> HIDE DEF y
  <1>3. d \in App /\ Calm(d)
    <2>1. NoCall \in Calls \cup {NoCall}
      OBVIOUS
    <2>2. d \in App
      BY ZenonT(60), <1>2, <2>1 DEF App
    <2>3. ~d.processing /\ ~d.approval /\ ~d.asking
      BY <1>2 DEF App
    <2>4. d.cancelPending = y.cancelPending /\ d.retryAt = y.retryAt
      BY <1>2 DEF App
    <2> QED
      BY <1>2, <2>2, <2>3, <2>4 DEF Calm, Interaction, SameFlags
  <1> HIDE DEF d
  <1> QED
    BY <1>1, <1>3, SettleTurnType, SettleTurnCalm

(* A cancellation that is asked for finds something to cancel.               *)
LEMMA CancelBusy ==
    ASSUME TypeOK, TurnInv, BusyInv, ~batch, AcceptsWork, ~Interaction(app),
           app.processing \/ app.executing,
           UNCHANGED <<rx, task, issued, tools, token, life, batch>>,
           \/ app' = [app EXCEPT !.cancelPending = TRUE]
           \/ app' = [app EXCEPT !.cancelPending = TRUE, !.processing = TRUE]
    PROVE  BusyInv'
  <1>1. /\ app'.cancelPending /\ app'.active = app.active
        /\ SameHand(app, app') /\ app'.queued = app.queued
        /\ app'.retryAt = app.retryAt /\ app'.executing = app.executing
        /\ app'.processing \/ app'.processing = app.processing
    BY DEF TypeOK, App, SameHand
  <1>2. Heedful(app)'
    BY <1>1 DEF BusyInv, Heedful, Interaction, SameHand
  <1>3. ~Settled(app, rx, batch)'
    <2>1. ~Settled(app, rx, batch)
      BY DEF BusyInv, AcceptsWork, Settled, Resting
    <2>2. ASSUME Settled(app, rx, batch)' PROVE Settled(app, rx, batch)
      <3>1. AtRest /\ tools = {} /\ Resting(app) /\ Kinds(rx) = {}
        BY SMTT(30), <1>1, <2>2 DEF Settled, AtRest, Over, Resting, DoneNext, Kinds, SameHand
      <3> QED
        BY <3>1 DEF Settled, DoneNext, BusyInv, Heedful
    <2> QED
      BY <2>1, <2>2
  <1>4. AtWork' = AtWork
    BY DEF AtWork
  <1> QED
    BY <1>1, <1>2, <1>3, <1>4 DEF BusyInv

(* The user stops.                                                           *)
LEMMA StopBusy ==
    ASSUME TypeOK, TurnInv, TurnInv', BusyInv, Stop PROVE BusyInv'
  <1> DEFINE s == SettleInteraction(app)
             b == [s EXCEPT !.cancelPending = FALSE]
  <1>1. ~batch /\ AcceptsWork /\ ~app.retryAt
    BY DEF Stop, InputReady, BusyInv, Heedful
  <1>2. CASE Interaction(app)
    <2>1. /\ app.pending # NoCall /\ ~app.executing /\ ~app.cancelPending
          /\ app \in App
      BY <1>1, <1>2, ShownCalm
    <2>2. app' = b
      BY <1>2, <2>1 DEF Stop, Settle
    <2>3. s \in App /\ Calm(s)
      BY <1>1, <1>2, <2>1, WithdrawnCalm
    <2> HIDE DEF s
    <2>4. Calm(b)
      BY <2>3 DEF App, Calm, Interaction
    <2> QED
      BY <2>2, <2>4, CalmHanded, EndBusy
  <1>3. CASE ~Interaction(app)
    <2>1. CancelWork /\ (app.processing \/ app.executing)
      BY <1>1, <1>3 DEF Stop
    <2> QED
      BY <1>1, <1>3, <2>1, CancelBusy DEF CancelWork
  <1> QED
    BY <1>2, <1>3

(* A shutdown cancels what is at work, and withdraws a question.             *)
LEMMA ShutdownBusy ==
    ASSUME TypeOK, TurnInv, TurnInv', BusyInv, ~batch, BeginShutdown
    PROVE  BusyInv'
  <1> DEFINE s == SettleInteraction(app)
             b == [s EXCEPT !.cancelPending = TRUE, !.processing = TRUE]
  <1>1. /\ app' \in {s, b} /\ life'.shutdown
        /\ UNCHANGED <<rx, task, issued, tools, token, batch>>
    BY DEF BeginShutdown
  <1>2. app \in App
    BY DEF TypeOK
  <1>3. /\ s \in App /\ ~Interaction(s) /\ ~s.retryAt /\ s.active = app.active
        /\ s.cancelPending => s.processing \/ s.executing
    <2>1. CASE Interaction(app)
      BY <1>2, <2>1, ShownCalm, WithdrawnCalm, InteractionSame
      DEF Calm, SameRequests
    <2>2. CASE ~Interaction(app)
      BY <1>2, <2>2 DEF SettleInteraction, BusyInv, Heedful
    <2> QED
      BY <2>1, <2>2
  <1> HIDE DEF s
  <1>4. Heedful(app)' /\ app'.active = app.active
    BY <1>1, <1>3 DEF App, Heedful, Interaction
  <1>5. AtWork' = AtWork
    BY <1>1 DEF AtWork
  <1> QED
    BY <1>1, <1>4, <1>5 DEF BusyInv

(* Ctrl-C.                                                                   *)
LEMMA CtrlCBusy ==
    ASSUME TypeOK, TurnInv, TurnInv', BusyInv, CtrlC PROVE BusyInv'
  <1>1. ~batch /\ AcceptsWork
    BY DEF CtrlC, InputReady
  <1>2. CASE BeginShutdown
    BY <1>1, <1>2, ShutdownBusy
  <1>3. CASE ~BeginShutdown
    BY <1>1, <1>3, CancelBusy DEF CtrlC
  <1> QED
    BY <1>2, <1>3

(* What the supervisor does touches the turn no more than a stutter, unless  *)
(* it is a signal.                                                           *)
LEMMA LifeBusy ==
    ASSUME BusyInv, UNCHANGED <<app, rx, task, issued, tools, token, batch>>,
           \/ life'.shutdown
           \/ life'.shutdown = life.shutdown /\ UNCHANGED cancelled
    PROVE  BusyInv'
  <1>1. CASE life'.shutdown
    BY <1>1 DEF BusyInv, Heedful, Interaction, AtWork
  <1>2. CASE life'.shutdown = life.shutdown /\ UNCHANGED cancelled
    BY <1>2 DEF BusyInv, Heedful, Interaction, AtWork, Doomed, Kinds, Settled,
                AtRest, Over, Resting, DoneNext
  <1> QED
    BY <1>1, <1>2

(* Initially nothing is at work and nothing shown.                           *)
LEMMA InitBusy == Init => BusyInv
  BY DEF Init, AppInit, BusyInv, Heedful, Interaction, AtWork, Doomed, Kinds

(* Every step keeps what the flags promise.                                  *)
LEMMA BusyStep ==
    ASSUME Unretried, TypeOK, IInv, TurnInv, TurnInv', BusyInv, [Next]_vars
    PROVE  BusyInv'
  <1>1. Orderly /\ ~app.retryAt
    BY DEF Unretried, BusyInv, Heedful
  <1>2. CASE Client
    BY <1>1, <1>2, ClientBusy
  <1>3. CASE \E t \in tools : ToolFinish(t)
    BY <1>3, ToolBusy
  <1>4. CASE User
    BY <1>4, PromptBusy, AnswerUserBusy, ApprovalBusy, StopBusy, CtrlCBusy
       DEF User
  <1>5. CASE HandleEvent
    BY <1>1, <1>5, ChunkBusy, PersistBusy, FailedBusy, CancelledBusy,
       ToolCallsBusy, ToolResultBusy, DoneBusy, IntentionBusy, ErrorBusy
       DEF HandleEvent
  <1>6. CASE HandleSignal \/ Exit
    BY <1>6, ShutdownBusy DEF HandleSignal, Exit
  <1>7. CASE SignalArrives
    BY <1>7, LifeBusy DEF SignalArrives, TypeOK, Life
  <1>8. CASE Contain \/ QueueSignal
    BY <1>8, LifeBusy DEF Contain, QueueSignal, TypeOK, Life, work
  <1>9. CASE UNCHANGED vars
    BY <1>9, LifeBusy DEF vars
  <1> QED
    BY <1>1, <1>2, <1>3, <1>4, <1>5, <1>6, <1>7, <1>8, <1>9
       DEF Next, Actor, RunDueRetry, AbandonRetryAtShutdown, DropsRetry

(* The invariant always holds.                                               *)
LEMMA BusyAlways == ASSUME Unretried PROVE Spec => []BusyInv
  <1>1. Orderly
    BY DEF Unretried
  <1>2. TypeOK /\ IInv /\ TurnInv /\ TurnInv' /\ BusyInv /\ [Next]_vars => BusyInv'
    BY BusyStep
  <1>3. Spec => [](TypeOK /\ TurnInv)
    BY <1>1, TurnAlways
  <1> QED
    BY <1>2, <1>3, GoodAlways, InitBusy, PTL DEF Spec

(* The engine is never stuck: work that is shown has a worker, an event or a *)
(* retry to end it, and so has a cancellation that is pending.               *)
THEOREM BusyOwnedCorrect == ASSUME Unretried PROVE Spec => []BusyOwned
  <1>1. ASSUME TypeOK, TurnInv, BusyInv PROVE BusyOwned
    <2>1. SUFFICES ASSUME AcceptsWork, app.processing \/ app.cancelPending,
                          tools = {}, rx = <<>>
                   PROVE  \E r \in Requests : task[r].state \notin {"none", "ended"}
      BY DEF BusyOwned
    <2>2. Kinds(rx) = {}
      BY <2>1, KindsOfNone
    <2>3. ~Replied(app, rx) /\ ~Runs(app, rx) /\ ~HasEnded(app, rx)
      BY <2>1, <2>2 DEF Replied, Runs, HasEnded
    <2>4. CASE Asked(app, rx)
      BY <1>1, <2>4 DEF Asked, AtWork, TypeOK, Requests
    <2>5. CASE Shown(app, rx)
      BY <1>1, <2>1, <2>5 DEF Shown, BusyInv, Heedful, Interaction, TypeOK, App
    <2>6. CASE Settled(app, rx, batch)
      BY <1>1, <2>1, <2>6 DEF Settled, Resting, BusyInv, Heedful, AcceptsWork
    <2> QED
      BY <1>1, <2>3, <2>4, <2>5, <2>6 DEF TurnInv, Turned, Phase, Calling
  <1>2. Orderly
    BY DEF Unretried
  <1> QED
    BY <1>1, <1>2, BusyAlways, TurnAlways, PTL

-----------------------------------------------------------------------------
(* Nothing starts after a stop or a shutdown.                               *)
(*                                                                          *)
(* NothingStarts needs that no question is asked either: an answer leaves   *)
(* the engine showing no work, and a shutdown right after it cancels        *)
(* nothing, while the result is still to start a request.  The invariant    *)
(* is that a turn which goes on into the shutdown is cancelled, and that a  *)
(* result waiting between two batches shows as work.                        *)
Unasked == Unretried /\ "ask" \notin CallKinds

Drained == Settled(app, rx, batch) /\ Kinds(rx) = {}

StartInv ==
    /\ ~Running => app.cancelPending \/ Drained
    /\ "result" \in Kinds(rx) /\ ~batch => app.processing \/ app.executing

(* A calm record with nothing queued and nothing running is drained.         *)
LEMMA CalmDrained ==
    ASSUME TypeOK', TurnInv', Calm(app'), Kinds(rx)' = {}, tools' = {}
    PROVE  Drained'
  <1>1. ~Asked(app, rx)' /\ ~Replied(app, rx)'
    BY DEF Asked, Replied, Expecting, Calm
  <1>2. ~Calling(app, rx, batch)'
    <2>1. ~Shown(app, rx)'
      BY DEF TypeOK, App, Shown, Calm, Interaction
    <2>2. ~Runs(app, rx)' /\ ~HasEnded(app, rx)'
      BY DEF Runs, HasEnded, Kinds
    <2> QED
      BY <2>1, <2>2 DEF Calling
  <1> QED
    BY <1>1, <1>2 DEF TurnInv, Turned, Phase, Drained

(* What a handler does once the turn is cancelled: it starts nothing, and    *)
(* the cancellation stays pending or the turn is settled.                    *)
Contained == /\ app'.cancelPending \/ Drained'
             /\ ~Starts

(* A checkpoint is acknowledged, or the turn settled.                        *)
LEMMA CancelledPersist ==
    ASSUME TypeOK, TypeOK', TurnInv, TurnInv', BusyInv,
           app.cancelPending, HandlePersist
    PROVE  Contained
  <1> DEFINE b == CloseMarker(app, Req)
             d == [b EXCEPT !.called = @ \cup ElemsOf(CallsOf(Req))]
  <1>1. /\ Receive("persist") /\ rx' = Rest /\ UNCHANGED <<issued, tools>>
        /\ app' \in {d, SettlementFailed(app, Req)}
    BY DEF HandlePersist
  <1>2. /\ Req = issued /\ Asked(app, rx)
        /\ \A k \in Kinds(Rest) : <<"persist", k>> \in Follows
        /\ Kinds(rx) = Kinds(Rest) \cup {"persist"}
    BY <1>1, Received, PhaseOf
  <1>3. /\ app.active = Req /\ app \in App /\ Kinds(rx)' = {} /\ tools' = {}
    BY <1>1, <1>2 DEF Asked, Awaited, BusyInv, TypeOK, Follows, Kinds
  <1>4. b \in App /\ SameTurn(app, b)
    BY <1>3, CloseTurn
  <1> HIDE DEF b
  <1>5. CASE app' = d
    <2>1. d.cancelPending
      BY <1>4 DEF App, SameTurn, SameFlags
    <2> QED
      BY <1>1, <1>5, <2>1 DEF Contained, Starts
  <1>6. CASE app' = SettlementFailed(app, Req)
    <2>1. app' = SettleCancellation(b)
      BY <1>3, <1>6 DEF SettlementFailed, b
    <2>2. ~b.executing /\ ~Interaction(b) /\ ~b.retryAt
      BY <1>2, <1>4 DEF SameTurn, SameFlags, SameHand, Asked, Resting,
         Expecting, Interaction
    <2> QED
      BY <1>1, <1>3, <1>4, <2>1, <2>2, CancellationCalm, CalmDrained
      DEF Contained, Starts
  <1> QED
    BY <1>1, <1>5, <1>6

(* The end of the reply is the end of the cancellation,                      *)
LEMMA CancelledDone ==
    ASSUME TypeOK, TypeOK', TurnInv, TurnInv', BusyInv,
           app.cancelPending, HandleDone \/ HandleCancelled
    PROVE  Contained
  <1> DEFINE z == [app EXCEPT !.attempts = 0]
             e == [z EXCEPT !.active = IF @ = Req THEN 0 ELSE @]
             b == CloseMarker(app, Req)
  <1>1. z \in App /\ SameTurn(app, z)
    BY ResetAttempts DEF TypeOK, App, SameTurn, SameFlags, SameHand
  <1>2. b \in App /\ SameTurn(app, b)
    BY CloseTurn DEF TypeOK
  <1>3. PICK kind \in {"done", "cancelled"} : Receive(kind)
    BY DEF HandleDone, HandleCancelled
  <1>4. /\ \/ z.cancelPending /\ Settle(SettleCancellation(e), Rest)
           \/ ~z.cancelPending
           \/ Settle(SettleCancellation(b), Rest)
    BY DEF HandleDone, HandleCancelled
  <1> HIDE DEF z, b
  <1>5. e \in App /\ SameTurn(app, e)
    BY <1>1 DEF App, SameTurn, SameFlags, SameHand
  <1> HIDE DEF e
  <1>6. PICK a \in App : SameTurn(app, a) /\ Settle(SettleCancellation(a), Rest)
    BY <1>1, <1>2, <1>4, <1>5 DEF SameTurn, SameFlags
  <1>7. /\ kind \in Kinds(rx) /\ Kinds(rx) = Kinds(Rest) \cup {kind}
        /\ \A k \in Kinds(Rest) : <<kind, k>> \in Follows
    BY <1>3, Received
  <1>8. Replied(app, rx)
    BY <1>7 DEF TurnInv, Turned, Phase, Asked, Awaited, Calling, Shown, Runs,
       HasEnded, Settled, DoneNext
  <1>9. /\ Kinds(rx)' = {} /\ tools' = {} /\ issued' = issued /\ tools = {}
    BY <1>6, <1>7, <1>8 DEF Replied, Follows, Settle, work, Kinds
  <1>10. ~a.executing /\ ~Interaction(a) /\ ~a.retryAt
    BY <1>6, <1>8 DEF SameTurn, SameFlags, SameHand, Replied, Resting,
       Expecting, Interaction
  <1>11. Drained'
    BY <1>6, <1>9, <1>10, CancellationCalm, CalmDrained DEF Settle
  <1> QED
    BY <1>9, <1>11 DEF Contained, Starts

(* and so is the result of the tool,                                         *)
LEMMA CancelledResult ==
    ASSUME TypeOK, TypeOK', TurnInv, TurnInv', BusyInv,
           app.cancelPending, HandleToolResult
    PROVE  Contained
  <1> DEFINE y == Answer(app, {Head(rx).call})
             a == [y EXCEPT !.executing = FALSE, !.pending = NoCall]
             x == AbandonQueued(a)
             b == [x EXCEPT !.processedCalls = FALSE, !.dispatched = FALSE,
                            !.text = FALSE]
             d == [b EXCEPT !.cancelPending = FALSE, !.processing = FALSE]
  <1>1. /\ Receive("result")
        /\ \/ ~a.cancelPending
           \/ Settle(IF a.active # 0 THEN b ELSE SettleTurn(d), Rest)
    BY DEF HandleToolResult
  <1>2. /\ Calling(app, rx, batch) /\ HasEnded(app, rx)
        /\ Kinds(Rest) = {}
    <2>1. \A k \in Kinds(Rest) : <<"result", k>> \in Follows
      BY <1>1, Received
    <2> QED
      BY <1>1, <2>1, Received, PhaseOf DEF Follows
  <1>3. /\ app \in App /\ ~app.approval /\ ~app.asking /\ ~app.retryAt
        /\ tools = {}
    BY <1>2 DEF TypeOK, Calling, HasEnded
  <1>4. y \in App /\ SameFlags(app, y) /\ SameHand(app, y)
    BY <1>3, AnswerType, FlagsKept
  <1> HIDE DEF y
  <1>5. /\ a \in App /\ a.cancelPending = y.cancelPending
        /\ a.approval = y.approval /\ a.asking = y.asking
        /\ a.retryAt = y.retryAt
    BY <1>4 DEF App, NoCall
  <1> HIDE DEF a
  <1>6. x \in App /\ SameFlags(a, x) /\ SameHand(a, x)
    BY <1>5, AbandonType, FlagsKept
  <1> HIDE DEF x
  <1>7. /\ b \in App /\ b.cancelPending = x.cancelPending
        /\ b.approval = x.approval /\ b.asking = x.asking
        /\ b.retryAt = x.retryAt
    BY <1>6 DEF App
  <1> HIDE DEF b
  <1>8. d \in App /\ Calm(d) /\ a.cancelPending /\ b.cancelPending
    <2>1. /\ d \in App /\ ~d.processing /\ ~d.cancelPending
          /\ d.approval = b.approval /\ d.asking = b.asking
          /\ d.retryAt = b.retryAt
      BY <1>7 DEF App
    <2> HIDE DEF d
    <2> QED
      BY <1>3, <1>4, <1>5, <1>6, <1>7, <2>1
      DEF Calm, Interaction, SameFlags, SameHand
  <1> HIDE DEF d
  <1>9. /\ app' = b \/ app' = SettleTurn(d)
        /\ Kinds(rx)' = {} /\ tools' = {} /\ issued' = issued
    BY <1>1, <1>2, <1>3, <1>8 DEF Settle, work, Kinds
  <1> QED
    BY <1>3, <1>8, <1>9, SettleTurnCalm, CalmDrained DEF Contained, Starts

(* and an error.                                                             *)
LEMMA CancelledError ==
    ASSUME TypeOK, TypeOK', TurnInv, TurnInv', BusyInv,
           app.cancelPending, HandleError
    PROVE  Contained
  <1> DEFINE z == [app EXCEPT !.attempts = 0]
             y == [z EXCEPT !.processing = FALSE]
             a == [app EXCEPT !.attempts = 0, !.processing = FALSE]
             e == [a EXCEPT !.active = 0]
  <1>1. Receive("error") /\ app \in App
    BY DEF HandleError, TypeOK
  <1>2. Quiet(app) /\ Rested(Rest)
    BY <1>1, EndOfReply
  <1>3. /\ y = a /\ SameHand(app, a) /\ a.retryAt = app.retryAt
        /\ a.cancelPending = app.cancelPending
    BY <1>1 DEF App, SameHand
  <1>4. y \in App
    <2>1. z \in App
      BY <1>1, ResetAttempts
    <2> HIDE DEF z
    <2> QED
      BY <2>1 DEF App
  <1>5. Settle(SettleCancellation(e), Rest)
    BY <1>3 DEF HandleError, MayRetry
  <1> HIDE DEF a
  <1>6. e \in App /\ SameTurn(a, e)
    BY ZenonT(60), <1>3, <1>4 DEF App, SameTurn, SameFlags, SameHand
  <1> HIDE DEF e
  <1>7. ~e.executing /\ ~Interaction(e) /\ ~e.retryAt
    BY <1>2, <1>3, <1>6
    DEF Quiet, Resting, Interaction, SameTurn, SameFlags, SameHand
  <1>8. tools = {}
    BY <1>1, Received, PhaseOf DEF Replied
  <1>9. Kinds(rx)' = {} /\ tools' = {} /\ issued' = issued
    BY <1>2, <1>5, <1>8 DEF Rested, Settle, work, Kinds
  <1> QED
    BY <1>5, <1>6, <1>7, <1>8, <1>9, CancellationCalm, CalmDrained
    DEF Contained, Starts, Settle

(* Whatever event is handled, the cancellation is contained.                 *)
LEMMA CancelledEvent ==
    ASSUME TypeOK, TypeOK', IInv, TurnInv, TurnInv', BusyInv,
           app.cancelPending, HandleEvent
    PROVE  Contained
  <1>1. CASE HandleChunk \/ HandleToolCalls
    BY <1>1 DEF HandleChunk, HandleToolCalls, IgnoresCalls, Settle, work,
       Contained, Starts
  <1>2. CASE HandleFailed
    <2> DEFINE b == CloseMarker(app, Req)
    <2>1. /\ Receive("failed") /\ app' = SettlementFailed(app, Req)
          /\ UNCHANGED <<issued, tools>>
      BY <1>2 DEF HandleFailed, Settle, work
    <2>2. app.active # Req
      <3>1. Req \in Requests /\ Over(Req)
        BY <2>1, Received
      <3>2. Req \notin Live /\ Req # 0
        BY <3>1 DEF Over, Live, Requests
      <3> QED
        BY <3>2 DEF IInv, MarkerIsLive
    <2>3. app' = b /\ SameTurn(app, b)
      BY <2>1, <2>2, CloseTurn DEF SettlementFailed, TypeOK
    <2> QED
      BY <2>1, <2>3 DEF Contained, Starts, SameTurn, SameFlags
  <1>3. ~HandleIntention
    BY DEF HandleIntention
  <1> QED
    BY <1>1, <1>2, <1>3, CancelledPersist, CancelledDone, CancelledResult,
       CancelledError DEF HandleEvent

(* Of a drained turn only old acknowledgements are left to handle.           *)
LEMMA DrainedEvent ==
    ASSUME TypeOK, IInv, TurnInv, BusyInv, Drained, HandleEvent
    PROVE  Contained
  <1> DEFINE b == CloseMarker(app, Req)
  <1>1. Kinds(rx) = {} /\ ~app.retryAt
    BY DEF Drained, BusyInv, Heedful
  <1>2. ASSUME NEW kind, Receive(kind) PROVE kind = "failed"
    BY <1>1, <1>2, Received
  <1>3. HandleFailed
    BY <1>2 DEF HandleEvent, HandleChunk, HandlePersist, HandleCancelled,
       HandleToolCalls, HandleToolResult, HandleDone, HandleIntention, HandleError
  <1>4. /\ Receive("failed") /\ app' = SettlementFailed(app, Req) /\ rx' = Rest
        /\ UNCHANGED <<task, issued, tools>>
    BY <1>3 DEF HandleFailed, Settle, work
  <1>5. Kinds(rx)' = {} /\ app.active # Req
    <2>1. Kinds(Rest) = {} /\ Req \in Requests /\ Over(Req)
      BY <1>1, <1>4, Received
    <2>2. Req \notin Live /\ Req # 0
      BY <2>1 DEF Over, Live, Requests
    <2> QED
      BY <1>4, <2>1, <2>2 DEF IInv, MarkerIsLive, Kinds
  <1>6. app' = b /\ SameTurn(app, b)
    BY <1>4, <1>5, CloseTurn DEF SettlementFailed, TypeOK
  <1>7. Settled(app, rx, batch)'
    BY <1>1, <1>4, <1>5, <1>6
    DEF Drained, Settled, Resting, DoneNext, AtRest, Over, SameTurn, SameFlags,
        SameHand, Kinds
  <1> QED
    BY <1>4, <1>5, <1>7 DEF Contained, Starts, Drained

(* A batch that is over has left no result behind.                           *)
LEMMA EventQueue ==
    ASSUME Orderly, TypeOK, TurnInv, HandleEvent
    PROVE  UNCHANGED life /\ (~batch' => Kinds(rx)' = {})
  <1>1. CASE HandleIntention
    <2>1. /\ Receive("done") /\ ~app.processedCalls /\ rx' = Rest
      BY <1>1 DEF HandleIntention, StartRequest
    <2>2. /\ \A k \in Kinds(Rest) : <<"done", k>> \in Follows
          /\ Kinds(rx) = Kinds(Rest) \cup {"done"}
      BY <2>1, Received
    <2>3. Replied(app, rx)
      BY <2>1, <2>2 DEF TurnInv, Turned, Phase, Asked, Awaited, Calling,
         Settled, DoneNext
    <2>4. Kinds(rx)' = {}
      BY <2>1, <2>2, <2>3 DEF Replied, Follows, Kinds
    <2> QED
      BY <2>1, <2>4 DEF Receive
  <1>2. CASE ~HandleIntention
    <2>1. GoOn /\ UNCHANGED life
      BY <1>2 DEF HandleEvent, HandleChunk, HandlePersist, HandleFailed,
         HandleCancelled, HandleToolCalls, HandleToolResult, HandleDone,
         HandleError, Receive
    <2> QED
      BY <2>1, KindsOfNone DEF GoOn, Orderly, Kinds
  <1> QED
    BY <1>1, <1>2

(* A client queues no result, and in a turn at rest nothing that counts.     *)
LEMMA ClientQueue ==
    ASSUME TypeOK, TurnInv, TurnInv', Client
    PROVE  /\ UNCHANGED <<app, issued, tools, life, batch>>
           /\ "result" \in Kinds(rx)' => "result" \in Kinds(rx)
           /\ Drained => Drained'
  <1>1. PICK r \in Requests : \/ ClientChunk(r) \/ ClientReply(r)
                              \/ ClientError(r) \/ ClientStopped(r)
                              \/ ClientEmit(r)
    BY DEF Client
  <1>2. /\ UNCHANGED <<app, issued, tools, life, batch>>
        /\ task \in [Requests -> Tasks] /\ rx \in Seq(Events)
    BY <1>1 DEF ClientChunk, ClientReply, ClientError, ClientStopped,
                ClientFinish, ClientEmit, client, TypeOK
  <1>3. CASE task[r].state \notin {"none", "refused", "ended"}
    <2>1. Asked(app, rx)
      BY <1>3, WorkerTurn
    <2>2. ~Drained /\ app.pending = NoCall
      BY <2>1 DEF Asked, AtWork, Resting, Drained, Settled, AtRest, Over
    <2>3. ~Calling(app, rx, batch)'
      BY <1>2, <2>2 DEF Calling
    <2>4. "result" \notin Kinds(rx)'
      BY <2>3 DEF TurnInv, Turned, Phase, Asked, Awaited, Replied, Settled, Kinds
    <2> QED
      BY <1>2, <2>2, <2>4
  <1>4. CASE task[r].state \in {"none", "refused", "ended"}
    <2> DEFINE e == Ev("failed", r)
    <2>1. /\ task[r].state = "refused" /\ rx' = rx \o <<e>>
          /\ task' = [task EXCEPT ![r].state = "ended"]
      BY <1>1, <1>4 DEF ClientChunk, ClientReply, ClientError, ClientStopped,
         ClientFinish, ClientEmit, SetState
    <2>2. e \in Events /\ e.kind = "failed"
      BY EventType DEF EventKinds, Ev
    <2>3. rx' = Append(rx, e)
      BY <1>2, <2>1, <2>2
    <2> HIDE DEF e
    <2>4. Kinds(rx') = Kinds(rx)
      BY <1>2, <2>2, <2>3 DEF Kinds
    <2>5. /\ task'[r].state = "ended"
          /\ \A s \in Requests : s # r => task'[s] = task[s]
      BY <1>2, <2>1 DEF Tasks
    <2>6. AtRest => AtRest'
      BY <1>2, <2>1, <2>5 DEF AtRest, Over, TypeOK, Requests
    <2>7. Drained => Drained'
      BY <1>2, <2>4, <2>6 DEF Drained, Settled, Resting, DoneNext, Kinds
    <2> QED
      BY <1>2, <2>4, <2>7 DEF Kinds
  <1> QED
    BY <1>3, <1>4

(* While a question is shown no result waits.                                *)
LEMMA ShownQueue ==
    ASSUME TypeOK, TurnInv, Interaction(app)
    PROVE  "result" \notin Kinds(rx)
  BY DEF TurnInv, Turned, Phase, Asked, Replied, Settled, Resting, Calling,
         Runs, HasEnded, Shown, Interaction

(* What may start, and what is promised of it.                               *)
Permitted == Starts => ~app.cancelPending /\ Running

(* An answer to an approval goes on with the turn.                           *)
LEMMA ApprovalStart ==
    ASSUME TypeOK, TurnInv, BusyInv, StartInv,
           Deny \/ \E always \in BOOLEAN : Approve(always)
    PROVE  StartInv' /\ Permitted
  <1>1. app.approval /\ ~batch /\ Running /\ UNCHANGED life
    BY DEF Deny, Approve, InputReady, AcceptsWork
  <1>2. /\ app.pending # NoCall /\ ~app.cancelPending /\ app \in App
        /\ "result" \notin Kinds(rx)
    BY <1>1, ShownCalm, ShownQueue DEF Interaction
  <1>3. app'.processing \/ app'.executing \/ rx' = rx
    <2>1. CASE Deny
      BY <1>2, <2>1 DEF Deny, Settle, App
    <2>2. ASSUME NEW always \in BOOLEAN, Approve(always)
          PROVE  app'.processing \/ rx' = rx
      <3> DEFINE a == [app EXCEPT !.approval = FALSE, !.always = @ \/ always]
      <3>1. Dispatch(a, rx)
        BY <2>2 DEF Approve
      <3>2. a \in App
        BY ZenonT(60), <1>2 DEF App
      <3> HIDE DEF a
      <3> QED
        BY <3>1, <3>2 DEF Dispatch, Settle, App
    <2> QED
      BY <2>1, <2>2
  <1> QED
    BY <1>1, <1>2, <1>3 DEF StartInv, Permitted, Running, Kinds

(* A stop starts nothing.                                                    *)
LEMMA StopStart ==
    ASSUME TypeOK, TurnInv, BusyInv, StartInv, Stop
    PROVE  StartInv' /\ Permitted
  <1>1. ~batch /\ Running /\ UNCHANGED <<rx, issued, tools, life>> /\ ~app.retryAt
    BY DEF Stop, InputReady, AcceptsWork, CancelWork, Settle, work, BusyInv,
           Heedful
  <1>2. Interaction(app) \/ app'.processing
    BY <1>1 DEF Stop, CancelWork, TypeOK, App
  <1> QED
    BY <1>1, <1>2, ShownQueue
    DEF StartInv, Permitted, Starts, Running, Kinds

(* A shutdown cancels what goes on; what it does not cancel is drained.      *)
LEMMA ShutdownStart ==
    ASSUME TypeOK, TypeOK', TurnInv, TurnInv', BusyInv, StartInv, ~batch,
           BeginShutdown
    PROVE  StartInv' /\ Permitted
  <1> DEFINE s == SettleInteraction(app)
             b == [s EXCEPT !.cancelPending = TRUE, !.processing = TRUE]
  <1>1. /\ \/ app' = b
           \/ app' = s /\ ~s.processing /\ ~s.executing
        /\ UNCHANGED <<rx, issued, tools, batch>> /\ app \in App
    BY DEF BeginShutdown, TypeOK
  <1>2. /\ s \in App /\ ~Interaction(s)
        /\ ~s.processing /\ ~s.executing => "result" \notin Kinds(rx)
    <2>1. CASE Interaction(app)
      BY <1>1, <2>1, ShownCalm, ShownQueue, WithdrawnCalm DEF Calm
    <2>2. CASE ~Interaction(app)
      BY <1>1, <2>2 DEF SettleInteraction, StartInv
    <2> QED
      BY <2>1, <2>2
  <1> HIDE DEF s
  <1>3. CASE app' = b
    <2>1. b.cancelPending /\ b.processing
      BY <1>2 DEF App
    <2> QED
      BY <1>1, <1>3, <2>1 DEF StartInv, Permitted, Starts
  <1>4. CASE app' = s /\ ~s.processing /\ ~s.executing
    <2>1. "result" \notin Kinds(rx)' /\ ~batch'
      BY <1>1, <1>2, <1>4 DEF Kinds
    <2>2. ~Asked(app, rx)' /\ ~Replied(app, rx)' /\ ~Calling(app, rx, batch)'
      <3>1. ~Shown(app, rx)'
        BY <1>2, <1>4 DEF TypeOK, App, Shown, Interaction
      <3> QED
        BY <1>4, <2>1, <3>1
        DEF Asked, Replied, Expecting, Calling, Runs, HasEnded, Kinds
    <2>3. Drained'
      BY <2>1, <2>2 DEF TurnInv, Turned, Phase, Drained, Settled, DoneNext, Kinds
    <2> QED
      BY <1>1, <2>1, <2>3 DEF StartInv, Permitted, Starts
  <1> QED
    BY <1>1, <1>3, <1>4

(* Every step keeps the promise, and starts only what it may.                *)
LEMMA StartStep ==
    ASSUME Unasked, TypeOK, TypeOK', IInv, TurnInv, TurnInv', BusyInv, StartInv,
           [Next]_vars
    PROVE  StartInv' /\ Permitted
  <1>1. Orderly /\ ~app.retryAt /\ ~app.asking
    BY DEF Unasked, Unretried, BusyInv, Heedful
  <1>2. CASE Client
    BY <1>2, ClientQueue DEF StartInv, Permitted, Starts, Running
  <1>3. CASE \E t \in tools : ToolFinish(t)
    <2>1. /\ UNCHANGED <<app, issued, life>> /\ tools # {} /\ tools' \subseteq tools
      BY <1>3 DEF ToolFinish
    <2>2. app.executing /\ ~Drained
      BY <2>1 DEF TurnInv, Turned, Phase, Asked, Replied, Settled, Calling,
         Shown, Runs, HasEnded, Drained
    <2> QED
      BY <2>1, <2>2 DEF StartInv, Permitted, Starts, Running
  <1>4. CASE SendPrompt
    <2>1. /\ ~batch /\ Running /\ FullyIdle(app) /\ UNCHANGED life /\ rx' = rx
      BY <1>4 DEF SendPrompt, InputReady, AcceptsWork, StartRequest
    <2>2. ~app.cancelPending /\ Kinds(rx)' = {}
      BY <2>1, IdleTurn DEF Rested, Kinds, BusyInv, Heedful, FullyIdle
    <2> QED
      BY <2>1, <2>2 DEF StartInv, Permitted, Running
  <1>5. CASE AnswerUser
    BY <1>1, <1>5 DEF AnswerUser
  <1>6. CASE CtrlC /\ ~BeginShutdown
    <2>1. /\ Running
          /\ app'.processing \/ app'.executing
          /\ UNCHANGED <<issued, tools, life>>
      BY <1>6 DEF CtrlC, InputReady, AcceptsWork, TypeOK, App
    <2> QED
      BY <2>1 DEF StartInv, Permitted, Starts, Running
  <1>7. CASE HandleEvent
    <2>1. UNCHANGED life /\ (~batch' => Kinds(rx)' = {})
      BY <1>1, <1>7, EventQueue
    <2>2. CASE app.cancelPending \/ ~Running
      <3>1. Contained
        BY <1>7, <2>2, CancelledEvent, DrainedEvent DEF StartInv
      <3> QED
        BY <2>1, <3>1 DEF Contained, StartInv, Permitted
    <2>3. CASE ~app.cancelPending /\ Running
      BY <2>1, <2>3 DEF StartInv, Permitted, Running
    <2> QED
      BY <2>2, <2>3
  <1>8. CASE BeginShutdown /\ ~batch
    BY <1>8, ShutdownStart
  <1>9. CASE SignalArrives \/ QueueSignal \/ Contain \/ UNCHANGED vars
    <2>1. /\ UNCHANGED <<app, rx, task, issued, tools, batch>>
          /\ Running => Running'
      BY <1>9 DEF SignalArrives, QueueSignal, Contain, vars, work, MayContain,
         Running, TypeOK, Life
    <2>2. Drained => Drained'
      BY <2>1 DEF Drained, Settled, AtRest, Over, Resting, DoneNext, Kinds
    <2> QED
      BY <2>1, <2>2 DEF StartInv, Permitted, Starts, Kinds
  <1> QED
    BY <1>1, <1>2, <1>3, <1>4, <1>5, <1>6, <1>7, <1>8, <1>9, ApprovalStart, StopStart
       DEF Next, Actor, User, CtrlC, InputReady, HandleSignal, Exit,
           RunDueRetry, AbandonRetryAtShutdown, DropsRetry

(* Once a cancellation is pending nothing is started until it is settled,    *)
(* and a shutdown starts nothing.                                            *)
THEOREM NothingStartsCorrect == ASSUME Unasked PROVE Spec => NothingStarts
  <1>1. Unretried /\ Orderly
    BY DEF Unasked, Unretried
  <1>2. Init => StartInv
    BY DEF Init, StartInv, Running, Kinds
  <1>3. /\ TypeOK /\ TypeOK' /\ IInv /\ TurnInv /\ TurnInv' /\ BusyInv /\ StartInv
        /\ [Next]_vars
        => StartInv' /\ [Starts => ~app.cancelPending /\ Running]_vars
    BY StartStep DEF Permitted
  <1>4. Spec => [](TypeOK /\ TurnInv) /\ []BusyInv
    BY <1>1, TurnAlways, BusyAlways
  <1> QED
    BY <1>2, <1>3, <1>4, GoodAlways, PTL DEF Spec, NothingStarts


-----------------------------------------------------------------------------
(* TurnEngine keeps the promise of a turn.                                  *)
(*                                                                          *)
(* The tally (TurnInv) says which results there are from what is in hand,   *)
(* so it remains to be seen that no step puts a call in hand that is not a  *)
(* new one (Hands), and that none begins one thing and ends another.        *)

(* What is in hand in b was in hand in a.                                   *)
Hands(a, b) == b.taken = a.taken /\ Due(b) \subseteq Due(a) \cup {NoCall}

LEMMA HandsOn ==
    ASSUME NEW a, NEW b, NEW d, Hands(a, b), Hands(b, d)
    PROVE  Hands(a, d)
  BY DEF Hands

LEMMA HandsSame ==
    ASSUME NEW a, NEW b, b.pending = a.pending \/ b.pending = NoCall,
           b.queued = a.queued, b.taken = a.taken
    PROVE  Hands(a, b)
  BY DEF Hands, Due

(* Answering and settling put nothing in hand.                               *)
LEMMA SettlingHands ==
    ASSUME NEW a \in App, NEW cs
    PROVE  /\ Hands(a, Answer(a, cs)) /\ Hands(a, AbandonQueued(a))
           /\ Hands(a, SettleTurn(a))
  <1>1. ASSUME NEW ds PROVE Hands(a, Answer(a, ds))
    <2> DEFINE res == [c \in Calls |-> IF c \in ds THEN a.results[c] + 1
                                                   ELSE a.results[c]]
    <2>1. Answer(a, ds) = [a EXCEPT !.results = res]
      BY DEF Answer
    <2> HIDE DEF res
    <2> QED
      BY <2>1, HandsSame DEF App
  <1> DEFINE b == Answer(a, ElemsOf(a.queued))
             d == AbandonQueued(a)
  <1>2. b \in App /\ d \in App /\ Hands(a, b)
    BY <1>1, AnswerType, AbandonType
  <1>3. d = [b EXCEPT !.queued = <<>>] /\ SettleTurn(a) = [d EXCEPT !.turn = FALSE]
    BY DEF AbandonQueued, SettleTurn
  <1> HIDE DEF b, d
  <1>4. Hands(b, d)
    <2>1. d.queued = <<>> /\ d.pending = b.pending /\ d.taken = b.taken
      BY <1>2, <1>3 DEF App
    <2>2. ElemsOf(d.queued) = {}
      BY <2>1 DEF ElemsOf
    <2> QED
      BY <2>1, <2>2 DEF Hands, Due
  <1> DEFINE e == SettleTurn(a)
  <1>5. Hands(d, e)
    <2>1. e.queued = d.queued /\ e.pending = d.pending /\ e.taken = d.taken
      BY <1>2, <1>3 DEF App
    <2> QED
      BY <2>1, HandsSame
  <1> QED
    BY <1>1, <1>2, <1>4, <1>5, HandsOn DEF d

LEMMA CancellationHands ==
    ASSUME NEW a \in App PROVE Hands(a, SettleCancellation(a))
  <1> DEFINE d == [a EXCEPT !.cancelPending = FALSE, !.processing = FALSE,
                            !.processedCalls = FALSE, !.dispatched = FALSE,
                            !.pending = NoCall, !.text = FALSE]
             e == [a EXCEPT !.processing = TRUE, !.text = FALSE]
  <1>1. SettleCancellation(a) \in {e, SettleTurn(d)}
    BY DEF SettleCancellation
  <1>2. d \in App
    BY DEF App
  <1>3. Hands(a, d) /\ Hands(a, e)
    <2>1. /\ d.pending = NoCall /\ d.queued = a.queued /\ d.taken = a.taken
          /\ e.pending = a.pending /\ e.queued = a.queued /\ e.taken = a.taken
      BY DEF App
    <2> QED
      BY <2>1, HandsSame
  <1> HIDE DEF d, e
  <1> QED
    BY <1>1, <1>2, <1>3, SettlingHands, HandsOn

LEMMA CloseHands ==
    ASSUME NEW a \in App, NEW r PROVE Hands(a, CloseMarker(a, r))
  BY CloseTurn, HandsSame DEF SameTurn, SameHand

LEMMA FailedHands ==
    ASSUME NEW a \in App, NEW r PROVE Hands(a, SettlementFailed(a, r))
  <1> DEFINE b == CloseMarker(a, r)
             d == [b EXCEPT !.processing = FALSE, !.pending = NoCall,
                            !.text = FALSE]
             e == [b EXCEPT !.processing = TRUE]
  <1>1. SettlementFailed(a, r) \in {b, e, SettleCancellation(b), SettleTurn(d)}
    BY DEF SettlementFailed
  <1>2. b \in App /\ Hands(a, b)
    BY CloseType, CloseHands
  <1> HIDE DEF b
  <1>3. d \in App
    BY <1>2 DEF App
  <1>4. Hands(b, d) /\ Hands(b, e)
    <2>1. /\ d.pending = NoCall /\ d.queued = b.queued /\ d.taken = b.taken
          /\ e.pending = b.pending /\ e.queued = b.queued /\ e.taken = b.taken
      BY <1>2 DEF App
    <2> QED
      BY <2>1, HandsSame
  <1> HIDE DEF d, e
  <1> QED
    BY <1>1, <1>2, <1>3, <1>4, SettlingHands, CancellationHands, HandsOn

LEMMA RetryHands ==
    ASSUME NEW a \in App PROVE Hands(a, AbandonRetry(a))
  <1> DEFINE b == [a EXCEPT !.attempts = 0]
             d == [b EXCEPT !.retryAt = FALSE, !.processing = FALSE]
             e == [a EXCEPT !.retryAt = FALSE, !.attempts = 0,
                            !.processing = FALSE]
  <1>1. b \in App
    BY ResetAttempts
  <1>2. d = e /\ Hands(a, e)
    <2>1. e.pending = a.pending /\ e.queued = a.queued /\ e.taken = a.taken
      BY DEF App
    <2> QED
      BY <2>1, HandsSame DEF App
  <1> HIDE DEF b
  <1>3. d \in App
    BY <1>1 DEF App
  <1>4. AbandonRetry(a) = SettleTurn(e)
    BY DEF AbandonRetry
  <1> HIDE DEF d, e
  <1> QED
    BY <1>2, <1>3, <1>4, SettlingHands, HandsOn

LEMMA InteractionHands ==
    ASSUME NEW a \in App PROVE Hands(a, SettleInteraction(a))
  <1> DEFINE b == Answer(a, {a.pending})
             d == [b EXCEPT
                     !.pending = NoCall, !.approval = FALSE, !.asking = FALSE,
                     !.processing = FALSE, !.executing = FALSE,
                     !.processedCalls = FALSE, !.dispatched = FALSE]
  <1>1. b \in App /\ Hands(a, b)
    BY AnswerType, SettlingHands
  <1>2. SettleInteraction(a) \in {a, SettleTurn(d)}
    BY DEF SettleInteraction
  <1> HIDE DEF b
  <1>3. d \in App
    BY <1>1, ZenonT(60) DEF App
  <1>4. Hands(b, d)
    <2>1. d.pending = NoCall /\ d.queued = b.queued /\ d.taken = b.taken
      BY <1>1 DEF App
    <2> QED
      BY <2>1, HandsSame
  <1> HIDE DEF d
  <1>5. Hands(a, a)
    BY DEF Hands
  <1> QED
    BY <1>1, <1>2, <1>3, <1>4, <1>5, SettlingHands, HandsOn

(* A step that ends nothing.                                                 *)
Grows == Live \subseteq Live' /\ tools \subseteq tools'

LEMMA SettleGrows ==
    ASSUME NEW a, NEW q, Settle(a, q) PROVE Grows /\ app' = a /\ task' = task
  BY DEF Settle, work, Grows, Live

(* Starting a request puts nothing in hand,                                  *)
LEMMA StartHands ==
    ASSUME task \in [Requests -> Tasks], NEW a \in App, NEW q, NEW child,
           StartRequest(a, q, child)
    PROVE  Hands(a, app') /\ Grows
  <1> DEFINE r == issued + 1
             base == [a EXCEPT !.processing = TRUE, !.processedCalls = FALSE,
                               !.dispatched = FALSE, !.text = FALSE]
             d == [base EXCEPT !.processing = FALSE]
             e == [base EXCEPT !.active = r, !.open = @ \cup {r}]
  <1>1. /\ UNCHANGED tools
        /\ \/ app' = SettleTurn(d) /\ UNCHANGED task
           \/ /\ r <= MaxRequests /\ app' = e
              /\ task' = [task EXCEPT ![r].state = "opening"]
    BY DEF StartRequest
  <1>2. base \in App /\ Hands(a, base)
    <2>1. /\ base.pending = a.pending /\ base.queued = a.queued
          /\ base.taken = a.taken
      BY DEF App
    <2>2. base \in App
      BY DEF App
    <2> QED
      BY <2>1, <2>2, HandsSame
  <1> HIDE DEF base
  <1>3. d \in App /\ Hands(base, d) /\ Hands(base, e)
    <2>1. /\ d.pending = base.pending /\ d.queued = base.queued
          /\ d.taken = base.taken
          /\ e.pending = base.pending /\ e.queued = base.queued
          /\ e.taken = base.taken
      BY <1>2 DEF App
    <2>2. d \in App
      BY <1>2 DEF App
    <2> QED
      BY <2>1, <2>2, HandsSame
  <1> HIDE DEF d, e
  <1>4. Hands(a, app')
    BY <1>1, <1>2, <1>3, SettlingHands, HandsOn
  <1>5. Live \subseteq Live'
    BY <1>1 DEF Live, Tasks
  <1> QED
    BY <1>1, <1>4, <1>5 DEF Grows

(* nor does dispatching the call in hand;                                    *)
LEMMA DispatchHands ==
    ASSUME NEW a \in App, NEW q, Dispatch(a, q)
    PROVE  Hands(a, app') /\ Grows /\ task' = task
  <1> DEFINE c == a.pending
             b == [a EXCEPT !.executing = TRUE, !.dispatched = TRUE,
                            !.processing = TRUE]
             d == [a EXCEPT !.processing = TRUE, !.dispatched = TRUE,
                            !.approval = FALSE]
             y == SettleTurn(a)
             z == Answer(y, {c})
             e == [z EXCEPT !.pending = NoCall, !.processing = FALSE,
                            !.dispatched = TRUE, !.approval = FALSE]
  <1>1. /\ app' \in {a, b, d, e}
        /\ task' = task /\ tools \subseteq tools'
    BY DEF Dispatch, Settle, work
  <1>2. Hands(a, a) /\ Hands(a, b) /\ Hands(a, d)
    <2>1. /\ b.pending = a.pending /\ b.queued = a.queued /\ b.taken = a.taken
          /\ d.pending = a.pending /\ d.queued = a.queued /\ d.taken = a.taken
      BY DEF App
    <2> QED
      BY <2>1, HandsSame
  <1>3. y \in App /\ z \in App /\ Hands(a, y) /\ Hands(y, z)
    BY SettleTurnType, AnswerType, SettlingHands
  <1> HIDE DEF b, d, y, z
  <1>4. Hands(z, e)
    <2>1. e.pending = NoCall /\ e.queued = z.queued /\ e.taken = z.taken
      BY <1>3 DEF App
    <2> QED
      BY <2>1, HandsSame
  <1> HIDE DEF e
  <1> QED
    BY <1>1, <1>2, <1>3, <1>4, HandsOn DEF Grows, Live

(* and beginning a call puts that one in hand.                               *)
LEMMA BeginHands ==
    ASSUME NEW a0 \in App, NEW c \in Calls, NEW q, BeginCall(c, a0, q)
    PROVE  /\ app'.taken = a0.taken
           /\ Due(app') \subseteq Due(a0) \cup {c, NoCall}
           /\ Grows /\ task' = task
  <1> DEFINE a == [a0 EXCEPT !.pending = c]
             b == [a EXCEPT !.processing = TRUE, !.dispatched = TRUE]
             d == [a EXCEPT !.asking = TRUE, !.processing = FALSE]
             e == [a EXCEPT !.approval = TRUE, !.processing = FALSE]
             y == Answer(a, {c})
             z == [y EXCEPT !.pending = NoCall, !.dispatched = TRUE,
                            !.processing = FALSE, !.approval = FALSE]
  <1>1. a \in App /\ a.taken = a0.taken /\ Due(a) \subseteq Due(a0) \cup {c}
    BY DEF App, Due
  <1>2. \/ Settle(b, Append(q, ResultOf(c))) \/ Settle(d, q) \/ Settle(e, q)
        \/ Settle(SettleTurn(z), q) \/ Dispatch(a, q)
    BY DEF BeginCall
  <1> HIDE DEF a
  <1>3. Hands(a, b) /\ Hands(a, d) /\ Hands(a, e)
    <2>1. /\ b.pending = a.pending /\ b.queued = a.queued /\ b.taken = a.taken
          /\ d.pending = a.pending /\ d.queued = a.queued /\ d.taken = a.taken
          /\ e.pending = a.pending /\ e.queued = a.queued /\ e.taken = a.taken
      BY <1>1 DEF App
    <2> QED
      BY <2>1, HandsSame
  <1>4. y \in App /\ Hands(a, y)
    BY <1>1, AnswerType, SettlingHands
  <1> HIDE DEF b, d, e, y
  <1>5. z \in App /\ Hands(y, z)
    <2>1. z.pending = NoCall /\ z.queued = y.queued /\ z.taken = y.taken
      BY <1>4 DEF App
    <2>2. z \in App
      BY <1>4 DEF App
    <2> QED
      BY <2>1, <2>2, HandsSame
  <1> HIDE DEF z
  <1>6. Hands(a, SettleTurn(z))
    BY <1>4, <1>5, SettlingHands, HandsOn
  <1>7. Hands(a, app') /\ Grows /\ task' = task
    BY <1>1, <1>2, <1>3, <1>6, SettleGrows, DispatchHands
  <1> QED
    BY <1>1, <1>7 DEF Hands

LEMMA SettleHands ==
    ASSUME NEW b, NEW q, Settle(b, q), Hands(app, b)
    PROVE  Hands(app, app') /\ Grows /\ task' = task
  BY SettleGrows

(* The handlers of events: the end of a request ends something,              *)
LEMMA RequestEndHands ==
    ASSUME TypeOK, HandlePersist
    PROVE  Hands(app, app') /\ Live' \subseteq Live /\ UNCHANGED tools
  <1> DEFINE b == CloseMarker(app, Req)
             d == [b EXCEPT !.called = @ \cup ElemsOf(CallsOf(Req))]
  <1>1. /\ UNCHANGED tools
        /\ \/ app' = d /\ SetState(Req, "acked")
           \/ app' = SettlementFailed(app, Req) /\ SetState(Req, "refused")
    BY DEF HandlePersist
  <1>2. app \in App /\ b \in App /\ Hands(app, b)
    BY CloseType, CloseHands DEF TypeOK
  <1> HIDE DEF b
  <1>3. Hands(b, d)
    <2>1. d.pending = b.pending /\ d.queued = b.queued /\ d.taken = b.taken
      BY <1>2 DEF App
    <2> QED
      BY <2>1, HandsSame
  <1> HIDE DEF d
  <1>4. Live' \subseteq Live
    <2>1. task \in [Requests -> Tasks]
      BY DEF TypeOK
    <2> QED
      BY <1>1, <2>1 DEF SetState, Live, Tasks
  <1> QED
    BY <1>1, <1>2, <1>3, <1>4, FailedHands, HandsOn

(* and the others go on with what is in hand.                                *)
LEMMA ChunkHands ==
    ASSUME TypeOK, HandleChunk PROVE Hands(app, app') /\ Grows /\ task' = task
  <1> DEFINE b == [app EXCEPT !.text = TRUE]
             d == [app EXCEPT !.text = TRUE, !.cancelPending = TRUE]
  <1>1. app' \in {app, b, d} /\ UNCHANGED <<task, tools>>
    BY DEF HandleChunk, Settle, work
  <1>2. Hands(app, app) /\ Hands(app, b) /\ Hands(app, d)
    <2>1. /\ b.pending = app.pending /\ b.queued = app.queued
          /\ b.taken = app.taken
          /\ d.pending = app.pending /\ d.queued = app.queued
          /\ d.taken = app.taken
      BY DEF TypeOK, App
    <2> QED
      BY <2>1, HandsSame
  <1> HIDE DEF b, d
  <1> QED
    BY <1>1, <1>2 DEF Grows, Live

LEMMA EndedHands ==
    ASSUME TypeOK, HandleFailed \/ HandleCancelled
    PROVE  Hands(app, app') /\ Grows /\ task' = task
  <1> DEFINE b == CloseMarker(app, Req)
  <1>1. app \in App /\ b \in App /\ Hands(app, b)
    BY CloseType, CloseHands DEF TypeOK
  <1>2. \/ Settle(SettlementFailed(app, Req), Rest)
        \/ Settle(SettleCancellation(b), Rest) \/ Settle(b, Rest)
    BY DEF HandleFailed, HandleCancelled
  <1> HIDE DEF b
  <1>3. Hands(app, SettleCancellation(b)) /\ Hands(app, SettlementFailed(app, Req))
    BY <1>1, CancellationHands, FailedHands, HandsOn
  <1> QED
    BY <1>1, <1>2, <1>3, SettleHands

LEMMA DoneHands ==
    ASSUME TypeOK, HandleDone PROVE Hands(app, app') /\ Grows /\ task' = task
  <1> DEFINE a == [app EXCEPT !.attempts = 0]
             d == [a EXCEPT !.processing = FALSE]
             e == [a EXCEPT !.active = IF @ = Req THEN 0 ELSE @]
  <1>1. \/ Settle(SettleCancellation(e), Rest)
        \/ Settle(d, Rest) \/ Settle(SettleTurn(d), Rest)
        \/ Dispatch(d, Rest)
    BY DEF HandleDone
  <1>2. a \in App /\ Hands(app, a)
    <2>1. a \in App
      BY ResetAttempts DEF TypeOK
    <2>2. a.pending = app.pending /\ a.queued = app.queued /\ a.taken = app.taken
      BY DEF TypeOK, App
    <2> QED
      BY <2>1, <2>2, HandsSame
  <1> HIDE DEF a
  <1>3. d \in App /\ e \in App /\ Hands(a, d) /\ Hands(a, e)
    <2>1. d \in App /\ e \in App
      BY <1>2 DEF App
    <2>2. /\ d.pending = a.pending /\ d.queued = a.queued /\ d.taken = a.taken
          /\ e.pending = a.pending /\ e.queued = a.queued /\ e.taken = a.taken
      BY <1>2 DEF App
    <2> QED
      BY <2>1, <2>2, HandsSame
  <1> HIDE DEF d, e
  <1>4. /\ Hands(app, d) /\ Hands(app, SettleTurn(d))
        /\ Hands(app, SettleCancellation(e))
    BY <1>2, <1>3, SettlingHands, CancellationHands, HandsOn
  <1>5. CASE Dispatch(d, Rest)
    BY <1>3, <1>4, <1>5, DispatchHands, HandsOn
  <1> QED
    BY <1>1, <1>4, <1>5, SettleHands

LEMMA ErrorHands ==
    ASSUME TypeOK, HandleError PROVE Hands(app, app') /\ Grows /\ task' = task
  <1> DEFINE a == [app EXCEPT !.attempts = 0, !.processing = FALSE]
             e == [a EXCEPT !.active = 0]
             p == [a EXCEPT !.processing = TRUE]
             t == [app EXCEPT !.attempts = @ + 1, !.processing = TRUE,
                              !.retryAt = TRUE, !.text = FALSE]
  <1>1. \/ Settle(t, Rest) \/ Settle(SettleCancellation(e), Rest)
        \/ Settle(p, Rest) \/ Settle(SettleTurn(a), Rest)
    BY DEF HandleError
  <1>2. a \in App /\ Hands(app, a) /\ Hands(app, t)
    <2>1. 0 \in 0 .. MaxRetries
      BY BoundAssumption
    <2>2. a \in App
      BY <2>1 DEF TypeOK, App
    <2>3. /\ a.pending = app.pending /\ a.queued = app.queued
          /\ a.taken = app.taken
          /\ t.pending = app.pending /\ t.queued = app.queued
          /\ t.taken = app.taken
      BY DEF TypeOK, App
    <2> QED
      BY <2>2, <2>3, HandsSame
  <1> HIDE DEF a, t
  <1>3. e \in App /\ Hands(a, e) /\ Hands(a, p)
    <2>1. e \in App
      BY <1>2 DEF App
    <2>2. /\ e.pending = a.pending /\ e.queued = a.queued /\ e.taken = a.taken
          /\ p.pending = a.pending /\ p.queued = a.queued /\ p.taken = a.taken
      BY <1>2 DEF App
    <2> QED
      BY <2>1, <2>2, HandsSame
  <1> HIDE DEF e, p
  <1>4. /\ Hands(app, p) /\ Hands(app, SettleTurn(a))
        /\ Hands(app, SettleCancellation(e))
    BY <1>2, <1>3, SettlingHands, CancellationHands, HandsOn
  <1> QED
    BY <1>1, <1>2, <1>4, SettleHands

(* A request is started in a record with nothing new in hand.                *)
LEMMA AskHands ==
    ASSUME TypeOK, HandleIntention \/ RunDueRetry \/ SendPrompt
    PROVE  Hands(app, app') /\ Grows
  <1> DEFINE a == [app EXCEPT !.attempts = 0]
             d == [a EXCEPT !.turn = TRUE, !.active = 0]
             p == [app EXCEPT !.attempts = 0, !.turn = TRUE, !.active = 0]
             b == [app EXCEPT !.retryAt = FALSE]
  <1>1. \/ StartRequest(a, Rest, FALSE) \/ StartRequest(b, rx, TRUE)
        \/ StartRequest(p, rx, TRUE)
    BY DEF HandleIntention, RunDueRetry, SendPrompt
  <1>2. /\ a \in App /\ b \in App /\ p = d
        /\ Hands(app, a) /\ Hands(app, b)
    <2>1. a \in App
      BY ResetAttempts DEF TypeOK
    <2>2. b \in App /\ p = d
      BY DEF TypeOK, App
    <2>3. /\ a.pending = app.pending /\ a.queued = app.queued
          /\ a.taken = app.taken
          /\ b.pending = app.pending /\ b.queued = app.queued
          /\ b.taken = app.taken
      BY DEF TypeOK, App
    <2> QED
      BY <2>1, <2>2, <2>3, HandsSame
  <1> HIDE DEF a, b, p
  <1>3. d \in App /\ Hands(a, d)
    <2>1. d.pending = a.pending /\ d.queued = a.queued /\ d.taken = a.taken
      BY <1>2 DEF App
    <2> QED
      BY <1>2, <2>1, HandsSame DEF App
  <1> HIDE DEF d
  <1>4. task \in [Requests -> Tasks]
    BY DEF TypeOK
  <1> QED
    BY <1>1, <1>2, <1>3, <1>4, StartHands, HandsOn


(* The calls of a reply: what is in hand then is new.                        *)
LEMMA ToolCallsHands ==
    ASSUME TypeOK, TurnInv, HandleToolCalls
    PROVE  /\ Grows /\ task' = task
           /\ \/ Hands(app, app')
              \/ /\ Replied(app, rx) /\ app.taken \subseteq app'.taken
                 /\ Due(app') \subseteq (app'.taken \ app.taken) \cup {NoCall}
  <1> DEFINE cs == CallsOf(Req)
             z  == [app EXCEPT !.processedCalls = TRUE]
             a  == [z EXCEPT !.processing = FALSE]
             b  == [z EXCEPT !.pending = NoCall, !.approval = FALSE,
                             !.asking = FALSE, !.processing = FALSE,
                             !.executing = FALSE, !.dispatched = FALSE,
                             !.called = @ \ ElemsOf(cs)]
             e  == [z EXCEPT !.queued = Tail(cs),
                             !.called = @ \cup ElemsOf(cs),
                             !.taken = @ \cup ElemsOf(cs)]
  <1>1. /\ Receive("calls")
        /\ \/ Settle(app, Rest)
           \/ Settle(SettleTurn(a), Rest) \/ Settle(SettleTurn(b), Rest)
           \/ cs # <<>> /\ BeginCall(Head(cs), e, Rest)
    BY DEF HandleToolCalls, HandleCalls
  <1>2. /\ Replied(app, rx) /\ Req = issued /\ Req \in Requests
        /\ "calls" \in Kinds(rx)
    BY <1>1, Received, PhaseOf
  <1>3. app \in App /\ task \in [Requests -> Tasks]
    BY DEF TypeOK
  <1>4. /\ cs \in Seq(Calls)
        /\ \A i, j \in DOMAIN cs : cs[i] = cs[j] => i = j
        /\ \A c \in ElemsOf(cs) : c[1] = issued
    BY <1>2, <1>3, CallsOfReply
  <1>5. ElemsOf(cs) \subseteq Calls
    BY <1>2, <1>3, CallsOfType
  <1>6. z \in App /\ z.pending = app.pending /\ z.queued = app.queued
        /\ z.taken = app.taken
    BY <1>3 DEF App
  <1> HIDE DEF cs, z
  <1>7. a \in App /\ b \in App /\ Hands(app, a) /\ Hands(app, b)
    <2>1. a \in App /\ b \in App
      BY ZenonT(60), <1>6 DEF App, NoCall
    <2>2. /\ a.pending = z.pending /\ a.queued = z.queued /\ a.taken = z.taken
          /\ b.pending = NoCall /\ b.queued = z.queued /\ b.taken = z.taken
      BY <1>6 DEF App
    <2> QED
      BY <1>6, <2>1, <2>2, HandsSame
  <1> HIDE DEF a, b
  <1>8. Hands(app, app) /\ Hands(app, SettleTurn(a)) /\ Hands(app, SettleTurn(b))
    BY <1>7, SettlingHands, HandsOn DEF Hands
  <1>9. ASSUME cs # <<>>, BeginCall(Head(cs), e, Rest)
        PROVE  /\ Grows /\ task' = task /\ app.taken \subseteq app'.taken
               /\ Due(app') \subseteq (app'.taken \ app.taken) \cup {NoCall}
    <2> DEFINE c == Head(cs)
    <2>1. /\ c \in Calls /\ Tail(cs) \in Seq(Calls)
          /\ ElemsOf(Tail(cs)) \cup {c} = ElemsOf(cs)
      BY <1>4, <1>9, SplitCalls
    <2>2. /\ e \in App /\ e.pending = NoCall /\ e.queued = Tail(cs)
          /\ e.taken = app.taken \cup ElemsOf(cs)
      BY <1>2, <1>5, <1>6, <2>1 DEF App, Replied, Resting
    <2> HIDE DEF e, c
    <2>3. \A k \in app.taken : k \notin ElemsOf(cs)
      BY <1>2, <1>4 DEF TurnInv, Turned, Ahead
    <2>4. /\ app'.taken = e.taken /\ Grows /\ task' = task
          /\ Due(app') \subseteq Due(e) \cup {c, NoCall}
      BY <1>9, <2>1, <2>2, BeginHands DEF c
    <2>5. Due(e) \cup {c, NoCall} = ElemsOf(cs) \cup {NoCall}
      BY <2>1, <2>2 DEF Due
    <2> QED
      BY <2>2, <2>3, <2>4, <2>5
  <1> QED
    BY <1>1, <1>2, <1>8, <1>9, SettleHands

(* A result: the call it is of is not in hand any more, the next one was.    *)
LEMMA ToolResultHands ==
    ASSUME TypeOK, HandleToolResult PROVE Hands(app, app') /\ Grows
  <1> DEFINE y == Answer(app, {Head(rx).call})
             a == [y EXCEPT !.executing = FALSE, !.pending = NoCall]
             x == AbandonQueued(a)
             b == [x EXCEPT !.processedCalls = FALSE, !.dispatched = FALSE,
                            !.text = FALSE]
             d == [b EXCEPT !.cancelPending = FALSE, !.processing = FALSE]
             n == [a EXCEPT !.queued = Tail(@), !.dispatched = FALSE,
                            !.processing = TRUE]
  <1>1. \/ a.queued # <<>> /\ BeginCall(Head(a.queued), n, Rest)
        \/ Settle(b, Rest) \/ Settle(SettleTurn(d), Rest)
        \/ StartRequest(a, Rest, FALSE)
    BY DEF HandleToolResult
  <1>2. app \in App /\ task \in [Requests -> Tasks]
    BY DEF TypeOK
  <1>3. y \in App /\ Hands(app, y)
    BY <1>2, AnswerType, SettlingHands
  <1> HIDE DEF y
  <1>4. a \in App /\ Hands(app, a)
    <2>1. a \in App
      BY <1>3 DEF App
    <2>2. a.pending = NoCall /\ a.queued = y.queued /\ a.taken = y.taken
      BY <1>3 DEF App
    <2> QED
      BY <1>3, <2>1, <2>2, HandsSame, HandsOn
  <1> HIDE DEF a
  <1>5. x \in App /\ Hands(app, x)
    BY <1>4, AbandonType, SettlingHands, HandsOn
  <1> HIDE DEF x
  <1>6. b \in App /\ Hands(app, b)
    <2>1. b \in App
      BY <1>5 DEF App
    <2>2. b.pending = x.pending /\ b.queued = x.queued /\ b.taken = x.taken
      BY <1>5 DEF App
    <2> QED
      BY <1>5, <2>1, <2>2, HandsSame, HandsOn
  <1> HIDE DEF b
  <1>7. d \in App /\ Hands(app, d)
    <2>1. d \in App
      BY <1>6 DEF App
    <2>2. d.pending = b.pending /\ d.queued = b.queued /\ d.taken = b.taken
      BY <1>6 DEF App
    <2> QED
      BY <1>6, <2>1, <2>2, HandsSame, HandsOn
  <1> HIDE DEF d
  <1>8. CASE a.queued # <<>> /\ BeginCall(Head(a.queued), n, Rest)
    <2> DEFINE c == Head(a.queued)
               s == Tail(a.queued)
    <2>1. a.queued \in Seq(Calls)
      BY <1>4 DEF App
    <2>2. c \in Calls /\ s \in Seq(Calls) /\ ElemsOf(s) \cup {c} \subseteq ElemsOf(a.queued)
      <3>1. /\ c \in Calls /\ s \in Seq(Calls) /\ 1 \in DOMAIN a.queued
            /\ c = a.queued[1]
            /\ \A i \in DOMAIN s : i + 1 \in DOMAIN a.queued /\ s[i] = a.queued[i + 1]
        BY <1>8, <2>1
      <3> QED
        BY <3>1 DEF ElemsOf
    <2>3. n \in App /\ n.queued = s /\ n.taken = a.taken /\ n.pending = a.pending
      BY <1>4, <2>2 DEF App
    <2> HIDE DEF n, c, s
    <2>4. /\ app'.taken = n.taken /\ Grows
          /\ Due(app') \subseteq Due(n) \cup {c, NoCall}
      BY <1>8, <2>2, <2>3, BeginHands DEF c
    <2>5. Due(n) \cup {c, NoCall} \subseteq Due(a) \cup {NoCall}
      BY <2>2, <2>3 DEF Due
    <2>6. Hands(a, app')
      BY <2>3, <2>4, <2>5 DEF Hands
    <2> QED
      BY <1>4, <2>4, <2>6, HandsOn
  <1>9. CASE StartRequest(a, Rest, FALSE)
    BY <1>2, <1>4, <1>9, StartHands, HandsOn
  <1> QED
    BY <1>1, <1>6, <1>7, <1>8, <1>9, SettleHands, SettlingHands, HandsOn

(* What the user and the shutdown do.                                        *)
LEMMA AnswerUserHands ==
    ASSUME TypeOK, AnswerUser PROVE Hands(app, app') /\ Grows /\ task' = task
  <1> DEFINE a == [app EXCEPT !.asking = FALSE]
             c == app.pending
             y == Answer(SettleTurn(a), {c})
             b == [y EXCEPT !.processing = FALSE, !.pending = NoCall]
  <1>1. \/ Settle(a, IF c = NoCall THEN rx ELSE Append(rx, ResultOf(c)))
        \/ Settle(b, rx)
    BY DEF AnswerUser
  <1>2. a \in App /\ Hands(app, a)
    <2>1. a \in App
      BY DEF TypeOK, App
    <2>2. a.pending = app.pending /\ a.queued = app.queued /\ a.taken = app.taken
      BY DEF TypeOK, App
    <2> QED
      BY <2>1, <2>2, HandsSame
  <1> HIDE DEF a, c
  <1>3. y \in App /\ Hands(app, y)
    <2>1. SettleTurn(a) \in App /\ Hands(app, SettleTurn(a))
      BY <1>2, SettleTurnType, SettlingHands, HandsOn
    <2> QED
      BY <2>1, AnswerType, SettlingHands, HandsOn
  <1> HIDE DEF y
  <1>4. Hands(app, b)
    <2>1. b.pending = NoCall /\ b.queued = y.queued /\ b.taken = y.taken
      BY <1>3 DEF App
    <2> QED
      BY <1>3, <2>1, HandsSame, HandsOn
  <1> HIDE DEF b
  <1> QED
    BY <1>1, <1>2, <1>4, SettleHands

LEMMA ApprovalHands ==
    ASSUME TypeOK, Deny \/ \E s \in BOOLEAN : Approve(s)
    PROVE  Hands(app, app') /\ Grows /\ task' = task
  <1> DEFINE a == [app EXCEPT !.approval = FALSE]
             b == [app EXCEPT !.approval = FALSE, !.processing = TRUE]
             d(s) == [app EXCEPT !.approval = FALSE, !.always = @ \/ s]
  <1>1. \/ Settle(a, rx) \/ Settle(b, Append(rx, ResultOf(app.pending)))
        \/ \E s \in BOOLEAN : Dispatch(d(s), rx)
    BY DEF Deny, Approve
  <1>2. Hands(app, a) /\ Hands(app, b)
    <2>1. /\ a.pending = app.pending /\ a.queued = app.queued
          /\ a.taken = app.taken
          /\ b.pending = app.pending /\ b.queued = app.queued
          /\ b.taken = app.taken
      BY DEF TypeOK, App
    <2> QED
      BY <2>1, HandsSame
  <1> HIDE DEF a, b
  <1>3. ASSUME NEW s \in BOOLEAN, Dispatch(d(s), rx)
        PROVE  Hands(app, app') /\ Grows /\ task' = task
    <2> DEFINE e == d(s)
    <2>. app \in App
      BY DEF TypeOK
    <2>1. /\ e \in App /\ e.pending = app.pending /\ e.queued = app.queued
          /\ e.taken = app.taken
      BY <1>3 DEF App
    <2>2. Dispatch(e, rx)
      BY <1>3
    <2> HIDE DEF e
    <2> QED
      BY <2>1, <2>2, HandsSame, DispatchHands, HandsOn
  <1> QED
    BY <1>1, <1>2, <1>3, SettleHands

LEMMA StopHands ==
    ASSUME TypeOK, Stop \/ AbandonRetryAtShutdown
    PROVE  Hands(app, app') /\ Grows /\ task' = task
  <1> DEFINE s == SettleInteraction(app)
             b == [s EXCEPT !.cancelPending = FALSE]
             d == [app EXCEPT !.cancelPending = TRUE, !.processing = TRUE]
  <1>1. \/ Settle(b, rx) \/ Settle(AbandonRetry(app), rx)
        \/ app' = d /\ UNCHANGED <<task, tools>>
    BY DEF Stop, AbandonRetryAtShutdown, CancelWork
  <1>2. app \in App /\ s \in App
    BY InteractionType DEF TypeOK
  <1>3. Hands(app, s) /\ Hands(app, AbandonRetry(app))
    BY <1>2, InteractionHands, RetryHands
  <1> HIDE DEF s
  <1>4. Hands(app, b) /\ Hands(app, d)
    <2>1. /\ b.pending = s.pending /\ b.queued = s.queued /\ b.taken = s.taken
          /\ d.pending = app.pending /\ d.queued = app.queued
          /\ d.taken = app.taken
      BY <1>2 DEF App
    <2> QED
      BY <1>3, <2>1, HandsSame, HandsOn
  <1> HIDE DEF b, d
  <1> QED
    BY <1>1, <1>3, <1>4, SettleHands DEF Grows, Live

LEMMA ShutdownHands ==
    ASSUME TypeOK, BeginShutdown \/ CtrlC
    PROVE  Hands(app, app') /\ Grows /\ task' = task
  <1> DEFINE s == SettleInteraction(app)
             b == [s EXCEPT !.cancelPending = TRUE, !.processing = TRUE]
             d == [app EXCEPT !.cancelPending = TRUE]
  <1>1. app' \in {s, b, d} /\ UNCHANGED <<task, tools>>
    BY DEF BeginShutdown, CtrlC
  <1>2. app \in App /\ s \in App
    BY InteractionType DEF TypeOK
  <1>3. Hands(app, s)
    BY <1>2, InteractionHands
  <1> HIDE DEF s
  <1>4. Hands(app, b) /\ Hands(app, d)
    <2>1. /\ b.pending = s.pending /\ b.queued = s.queued /\ b.taken = s.taken
          /\ d.pending = app.pending /\ d.queued = app.queued
          /\ d.taken = app.taken
      BY <1>2 DEF App
    <2> QED
      BY <1>3, <2>1, HandsSame, HandsOn
  <1> HIDE DEF b, d
  <1> QED
    BY <1>1, <1>3, <1>4 DEF Grows, Live

(* The client and the tools leave everything in hand.                        *)
LEMMA ClientHands ==
    ASSUME TypeOK, Client
    PROVE  app' = app /\ tools' = tools /\ Live' = Live
  <1>1. PICK r \in Requests : \/ ClientChunk(r) \/ ClientReply(r)
                              \/ ClientError(r) \/ ClientStopped(r)
                              \/ ClientEmit(r)
    BY DEF Client
  <1>2. app' = app /\ tools' = tools
    BY <1>1 DEF ClientChunk, ClientReply, ClientError, ClientStopped,
                ClientFinish, ClientEmit, client
  <1>3. /\ \A q \in Requests \ {r} : task'[q] = task[q]
        /\ \/ /\ task[r].state \in {"opening", "streaming", "waiting"}
              /\ task'[r].state \in {"opening", "streaming", "waiting"}
           \/ /\ task[r].state \notin {"opening", "streaming", "waiting"}
              /\ task'[r].state \notin {"opening", "streaming", "waiting"}
    <2>1. task \in [Requests -> Tasks]
      BY DEF TypeOK
    <2>2. CASE ClientChunk(r)
      BY <2>1, <2>2 DEF ClientChunk, SetState, Tasks
    <2>3. CASE ClientReply(r) \/ ClientError(r) \/ ClientStopped(r)
      BY <2>1, <2>3 DEF ClientReply, ClientError, ClientStopped, ClientFinish
    <2>4. CASE ClientEmit(r)
      <3>1. /\ task[r].state \in {"refused", "acked", "finishing"}
            /\ \E s \in {"ended", "finishing"} : SetState(r, s)
        BY <2>4 DEF ClientEmit
      <3> QED
        BY <2>1, <3>1 DEF SetState, Tasks
    <2> QED
      BY <1>1, <2>2, <2>3, <2>4
  <1>4. Live' = Live
    BY <1>3 DEF Live
  <1> QED
    BY <1>2, <1>4

(* Together: a step begins or ends something, but not both, and what is in   *)
(* hand then is not new, but for the calls of a reply.                       *)
Shrinks == Live' \subseteq Live /\ tools' \subseteq tools

Takes == /\ Replied(app, rx) /\ task' = task
         /\ app.taken \subseteq app'.taken
         /\ Due(app') \subseteq (app'.taken \ app.taken) \cup {NoCall}

LEMMA StepHands ==
    ASSUME TypeOK, TurnInv, [Next]_vars
    PROVE  Takes \/ (Hands(app, app') /\ (Grows \/ Shrinks))
  <1>1. CASE Client
    BY <1>1, ClientHands, HandsSame DEF Grows
  <1>2. CASE \E t \in tools : ToolFinish(t)
    BY <1>2, HandsSame DEF ToolFinish, Shrinks, Live
  <1>3. CASE User
    <2>1. User => \/ SendPrompt \/ AnswerUser \/ Deny \/ Stop \/ CtrlC
                  \/ \E s \in BOOLEAN : Approve(s)
      BY DEF User
    <2> QED
      BY <1>3, <2>1, AskHands, AnswerUserHands, ApprovalHands, StopHands,
         ShutdownHands
  <1>4. CASE HandlePersist
    BY <1>4, RequestEndHands DEF Shrinks
  <1>5. CASE HandleToolCalls
    BY <1>5, ToolCallsHands DEF Takes
  <1>6. CASE HandleEvent /\ ~HandlePersist /\ ~HandleToolCalls
    BY <1>6, ChunkHands, EndedHands, ToolResultHands, DoneHands, AskHands,
       ErrorHands DEF HandleEvent
  <1>7. CASE RunDueRetry \/ HandleSignal \/ Exit \/ AbandonRetryAtShutdown
    BY <1>7, AskHands, ShutdownHands, StopHands DEF HandleSignal, Exit
  <1>8. CASE Contain \/ SignalArrives \/ QueueSignal \/ UNCHANGED vars
    <2>1. UNCHANGED <<app, task, tools>>
      BY <1>8 DEF Contain, SignalArrives, QueueSignal, vars, work
    <2> QED
      BY <2>1, HandsSame DEF Grows, Live
  <1> QED
    BY <1>1, <1>2, <1>3, <1>4, <1>5, <1>6, <1>7, <1>8 DEF Next, Actor, HandleEvent

-----------------------------------------------------------------------------
(* Who works is alone, and nothing is taken or answered meanwhile.          *)
SameBooks == app'.taken = app.taken /\ app'.results = app.results

(* While a tool runs: the handlers that could do more find their guards      *)
(* closed by the flags of the call.                                          *)
LEMMA ToolRuns ==
    ASSUME TypeOK, TurnInv, tools # {}
    PROVE  /\ app.executing /\ ~Interaction(app) /\ ~app.retryAt
           /\ app.processedCalls /\ Kinds(rx) \subseteq {"done"}
           /\ app.always => app.dispatched
           /\ "done" \in Kinds(rx) => ~app.cancelPending
           /\ Live = {} /\ tools = {[call |-> app.pending, token |-> token]}
           /\ app.pending # NoCall
  <1>1. Calling(app, rx, batch) /\ Runs(app, rx)
    BY DEF TurnInv, Turned, Phase, Asked, Replied, Settled, Calling, Shown,
           HasEnded
  <1>2. Live = {}
    BY WorkersNow
  <1> QED
    BY <1>1, <1>2 DEF Calling, Runs, DoneNext, Interaction

LEMMA ToolEvents ==
    ASSUME TypeOK, TurnInv, tools # {}, HandleEvent
    PROVE  HandleFailed \/ (HandleDone /\ ~app.cancelPending)
  <1>1. /\ Kinds(rx) \subseteq {"done"} /\ app.processedCalls
        /\ "done" \in Kinds(rx) => ~app.cancelPending
    BY ToolRuns
  <1>2. ASSUME NEW k, Receive(k), k # "failed" PROVE k \in Kinds(rx)
    BY <1>2, Received
  <1>3. /\ ~Receive("chunk") /\ ~Receive("persist") /\ ~Receive("cancelled")
        /\ ~Receive("calls") /\ ~Receive("result") /\ ~Receive("error")
        /\ Receive("done") => ~app.cancelPending
    BY <1>1, <1>2
  <1> QED
    BY <1>1, <1>3 DEF HandleEvent, HandleChunk, HandlePersist, HandleCancelled,
       HandleToolCalls, HandleToolResult, HandleError, HandleIntention, HandleDone

LEMMA ToolBooks ==
    ASSUME TypeOK, TurnInv, tools # {}, [Next]_vars PROVE SameBooks
  <1>1. app \in App
    BY DEF TypeOK
  <1>2. /\ app.executing /\ ~Interaction(app) /\ ~app.retryAt
        /\ app.always => app.dispatched
    BY ToolRuns
  <1>3. CASE HandleFailed
    <2> DEFINE b == CloseMarker(app, Req)
    <2>1. b \in App /\ SameTurn(app, b)
      BY <1>1, CloseTurn
    <2>2. Settle(SettlementFailed(app, Req), Rest)
      BY <1>3 DEF HandleFailed
    <2>3. app' \in {b, [b EXCEPT !.processing = TRUE], SettleCancellation(b)}
      BY <1>2, <2>2 DEF SettlementFailed, Settle
    <2>4. b.executing
      BY <1>2, <2>1 DEF SameTurn, SameHand
    <2>5. app' \in {b, [b EXCEPT !.processing = TRUE],
                       [b EXCEPT !.processing = TRUE, !.text = FALSE]}
      BY <2>3, <2>4 DEF SettleCancellation
    <2> HIDE DEF b
    <2> QED
      BY <2>1, <2>5 DEF SameBooks, SameTurn, App
  <1>4. CASE HandleDone /\ ~app.cancelPending
    <2> DEFINE a == [app EXCEPT !.attempts = 0]
               d == [a EXCEPT !.processing = FALSE]
    <2>1. a \in App
      BY <1>1, ResetAttempts
    <2>2. /\ a.executing = app.executing /\ a.cancelPending = app.cancelPending
          /\ a.always = app.always /\ a.dispatched = app.dispatched
          /\ a.taken = app.taken /\ a.results = app.results
      BY <1>1 DEF App
    <2>3. \/ a.cancelPending
          \/ Settle(IF d.executing THEN d ELSE SettleTurn(d), Rest)
          \/ d.always /\ ~d.dispatched
          \/ Settle(d, Rest)
      BY <1>4 DEF HandleDone
    <2> HIDE DEF a
    <2>4. /\ d.executing = a.executing
          /\ d.always = a.always /\ d.dispatched = a.dispatched
          /\ d.taken = a.taken /\ d.results = a.results
      BY <2>1 DEF App
    <2> HIDE DEF d
    <2> QED
      BY <1>2, <1>4, <2>2, <2>3, <2>4 DEF SameBooks, Settle
  <1>5. CASE HandleEvent
    BY <1>3, <1>4, <1>5, ToolEvents
  <1>6. CASE Client \/ \E t \in tools : ToolFinish(t)
    BY <1>6, ClientHands DEF ToolFinish, SameBooks
  <1>7. CASE CtrlC \/ BeginShutdown \/ Stop
    <2>1. app' \in {app, [app EXCEPT !.cancelPending = TRUE],
                    [app EXCEPT !.cancelPending = TRUE, !.processing = TRUE]}
      BY <1>2, <1>7 DEF CtrlC, BeginShutdown, Stop, CancelWork, SettleInteraction
    <2> QED
      BY <1>1, <2>1 DEF SameBooks, App
  <1>8. ~SendPrompt /\ ~AnswerUser /\ ~Deny /\ \A s : ~Approve(s)
    BY <1>2 DEF SendPrompt, FullyIdle, AnswerUser, Deny, Approve, Interaction
  <1>9. ~RunDueRetry /\ ~AbandonRetryAtShutdown
    BY <1>2 DEF RunDueRetry, AbandonRetryAtShutdown, DropsRetry
  <1>10. CASE Contain \/ SignalArrives \/ QueueSignal \/ UNCHANGED vars
    BY <1>10 DEF Contain, SignalArrives, QueueSignal, vars, work, SameBooks
  <1> QED
    BY <1>5, <1>6, <1>7, <1>8, <1>9, <1>10
    DEF Next, Actor, User, HandleSignal, Exit

(* While the model is at work nothing is in hand.                            *)
LEMMA LiveAsked ==
    ASSUME TypeOK, TurnInv, Live # {}
    PROVE  tools = {} /\ Resting(app) /\ Due(app) = {NoCall}
  <1>1. PICK r \in Requests : task[r].state \in {"opening", "streaming", "waiting"}
    BY DEF Live
  <1>2. Asked(app, rx)
    BY <1>1, WorkerTurn
  <1> QED
    BY <1>2 DEF Asked, Resting, Due, ElemsOf

LEMMA RepliedRests ==
    ASSUME TypeOK, TurnInv, Replied(app, rx)
    PROVE  Live = {} /\ tools = {} /\ Due(app) = {NoCall}
  <1>1. tools = {} /\ Due(app) = {NoCall} /\ AtRest
    BY DEF Replied, Resting, Due, ElemsOf
  <1>2. Live = {}
    <2> SUFFICES ASSUME Live # {} PROVE FALSE
      OBVIOUS
    <2>1. PICK r \in Requests : task[r].state \in {"opening", "streaming", "waiting"}
      BY DEF Live
    <2>2. Asked(app, rx)
      BY <2>1, WorkerTurn
    <2> QED
      BY <1>1, <2>2 DEF Asked, AtWork, AtRest, Over
  <1> QED
    BY <1>1, <1>2

(* What the books say: a taken call has its result once it is not due.       *)
Booked(a) == /\ a.results \in [Calls -> Nat] /\ a.taken \subseteq Calls
             /\ Tally(a, Due(a))

LEMMA BooksNow == ASSUME TypeOK, TurnInv PROVE Booked(app)
  BY DEF TypeOK, App, TurnInv, Turned, Booked

LEMMA LiveBooks ==
    ASSUME TypeOK, TurnInv, Booked(app'), Live # {}, Hands(app, app')
    PROVE  SameBooks
  <1>1. /\ Booked(app) /\ Booked(app') /\ Due(app) = {NoCall}
        /\ app'.taken = app.taken /\ Due(app') \subseteq {NoCall}
        /\ NoCall \notin Calls
    BY BooksNow, LiveAsked DEF Hands, NoCall, Calls, Requests
  <1>2. \A c \in Calls : app'.results[c] = app.results[c]
    BY <1>1 DEF Booked, Tally
  <1> QED
    BY <1>1, <1>2 DEF Booked, SameBooks

(* There is at most one worker, and then the call that works is due.         *)
Alone ==
    /\ \/ Live \subseteq {issued} /\ tools = {}
       \/ Live = {} /\ tools \subseteq {[call |-> app.pending, token |-> token]}
    /\ Live # {} => Due(app) = {NoCall}
    /\ tools # {} => /\ {t.call : t \in tools} = {app.pending}
                      /\ app.pending \in app.taken
                      /\ app.results[app.pending] = 0

LEMMA AloneNow == TypeOK /\ TurnInv => Alone /\ Booked(app)
  <1> SUFFICES ASSUME TypeOK, TurnInv PROVE Alone /\ Booked(app)
    OBVIOUS
  <1>1. ASSUME tools # {}
        PROVE  /\ {t.call : t \in tools} = {app.pending}
               /\ app.pending \in app.taken /\ app.results[app.pending] = 0
    <2>1. app.pending # NoCall /\ tools = {[call |-> app.pending, token |-> token]}
      BY <1>1, ToolRuns
    <2>2. app.pending \in app.taken /\ app.pending \in Due(app)
      BY <2>1 DEF TurnInv, Turned, Listed, Due
    <2>3. app.pending \in Calls /\ Tally(app, Due(app))
      BY <2>2 DEF TypeOK, App, TurnInv, Turned
    <2> QED
      BY <2>1, <2>2, <2>3 DEF Tally
  <1> QED
    BY <1>1, WorkersNow, LiveAsked, BooksNow DEF Alone

LEMMA AloneNext == TypeOK' /\ TurnInv' => Alone' /\ Booked(app)'
  BY AloneNow, PTL

(* Somebody works: the step is the end of that work, or nobody notices it.   *)
LEMMA SomebodyStep ==
    ASSUME TypeOK, TurnInv, TypeOK', TurnInv', [Next]_vars, Live # {} \/ tools # {}
    PROVE  /\ SameBooks
           /\ \/ Live' = {} /\ tools' = {}
              \/ /\ (Live # {}) <=> (Live # {})'
                 /\ {t.call : t \in tools} = {t.call : t \in tools'}
  <1>1. Hands(app, app') /\ (Grows \/ Shrinks)
    BY StepHands, RepliedRests DEF Takes
  <1>2. Alone /\ Alone' /\ Booked(app')
    BY AloneNow, AloneNext DEF Booked, Tally, Due
  <1>3. SameBooks
    BY <1>1, <1>2, LiveBooks, ToolBooks
  <1>4. /\ \/ Live \subseteq {issued} /\ tools = {}
           \/ Live = {} /\ tools \subseteq {[call |-> app.pending, token |-> token]}
        /\ \/ Live' \subseteq {issued'} /\ tools' = {}
           \/ Live' = {} /\ tools' \subseteq {[call |-> app'.pending, token |-> token']}
    BY <1>2 DEF Alone
  <1>5. CASE Grows
    <2>1. tools # {} => tools' = tools
      BY <1>4, <1>5 DEF Grows
    <2> QED
      BY <1>3, <1>4, <1>5, <2>1 DEF Grows
  <1>6. CASE Shrinks
    BY <1>3, <1>4, <1>6 DEF Shrinks
  <1> QED
    BY <1>1, <1>5, <1>6

(* Nobody works: what is in hand afterwards was due or is new, so the books  *)
(* only say that some of it has its result now.                              *)
LEMMA NobodyBooks ==
    ASSUME Booked(app), Booked(app'), Hands(app, app')
    PROVE  /\ app'.taken = app.taken
           /\ LET due == {c \in app.taken : app.results[c] = 0}
                  cs  == {c \in due : app'.results[c] = 1}
              IN  /\ app'.results = [c \in Calls |->
                                        IF c \in cs THEN 1 ELSE app.results[c]]
                  /\ Due(app') = {NoCall} => cs = due
  <1> DEFINE due == {c \in app.taken : app.results[c] = 0}
             cs  == {c \in due : app'.results[c] = 1}
             res == [c \in Calls |-> IF c \in cs THEN 1 ELSE app.results[c]]
  <1>1. /\ app'.taken = app.taken /\ Due(app') \subseteq Due(app) \cup {NoCall}
        /\ NoCall \notin Calls
    BY DEF Hands, NoCall, Calls, Requests
  <1>2. /\ \A c \in Calls : app.results[c] = IF c \in app.taken \ Due(app) THEN 1 ELSE 0
        /\ \A c \in Calls : app'.results[c] = IF c \in app.taken \ Due(app') THEN 1 ELSE 0
    BY <1>1 DEF Booked, Tally
  <1>3. \A c \in Calls : app'.results[c] = res[c]
    BY <1>1, <1>2
  <1>4. app'.results = res
    BY <1>3 DEF Booked
  <1>5. Due(app') = {NoCall} => cs = due
    BY <1>1, <1>2 DEF Booked
  <1> QED
    BY <1>1, <1>4, <1>5

LEMMA TakeBooks ==
    ASSUME Booked(app), Booked(app'), Takes, Due(app) = {NoCall}
    PROVE  LET new == app'.taken \ app.taken
               cs  == {c \in new : app'.results[c] = 1}
           IN  /\ {c \in app.taken : app.results[c] = 0} = {}
               /\ new \in SUBSET (Calls \ app.taken)
               /\ app'.taken = app.taken \cup new
               /\ app'.results = [c \in Calls |->
                                     IF c \in cs THEN 1 ELSE app.results[c]]
  <1> DEFINE new == app'.taken \ app.taken
             cs  == {c \in new : app'.results[c] = 1}
             res == [c \in Calls |-> IF c \in cs THEN 1 ELSE app.results[c]]
  <1>1. /\ app.taken \subseteq app'.taken /\ NoCall \notin Calls
        /\ Due(app') \subseteq new \cup {NoCall}
        /\ app.taken \subseteq Calls /\ app'.taken \subseteq Calls
    BY DEF Takes, NoCall, Calls, Requests, Booked
  <1>2. /\ \A c \in Calls : app.results[c] = IF c \in app.taken THEN 1 ELSE 0
        /\ \A c \in Calls : app'.results[c] = IF c \in app'.taken \ Due(app') THEN 1 ELSE 0
    BY <1>1 DEF Booked, Tally
  <1>3. \A c \in Calls : app'.results[c] = res[c]
    BY <1>1, <1>2
  <1>4. app'.results = res
    BY <1>3 DEF Booked
  <1> QED
    BY <1>1, <1>2, <1>4

LEMMA NobodyStep ==
    ASSUME TypeOK, TurnInv, TypeOK', TurnInv', [Next]_vars, Live = {}, tools = {}
    PROVE  Promise!Ask \/ Promise!Take \/ Promise!Proceed
  <1> DEFINE due == {c \in app.taken : app.results[c] = 0}
             run == {t.call : t \in tools}
  <1>1. /\ Alone' /\ Booked(app) /\ Booked(app')
        /\ Takes \/ (Hands(app, app') /\ (Grows \/ Shrinks))
    BY AloneNow, AloneNext, StepHands DEF Booked, Tally, Due
  <1>2. run = {} /\ Promise!Nobody
    BY DEF Promise!Nobody
  <1>3. run' = {} \/ \E c \in {c \in app'.taken : app'.results[c] = 0} : run' = {c}
    BY <1>1 DEF Alone
  <1>4. CASE Hands(app, app') /\ Live' # {}
    <2>1. run' = {} /\ Due(app') = {NoCall}
      BY <1>1, <1>4 DEF Alone, Due
    <2>2. /\ app'.taken = app.taken
          /\ app'.results = [c \in Calls |-> IF c \in due THEN 1 ELSE app.results[c]]
      BY <1>1, <1>4, <2>1, NobodyBooks
    <2> QED
      BY <1>2, <1>4, <2>1, <2>2
      DEF Promise!Ask, Promise!Answer, Promise!Due
  <1>5. CASE Hands(app, app') /\ Live' = {}
    <2>1. /\ app'.taken = app.taken
          /\ \E cs \in SUBSET due :
                app'.results = [c \in Calls |-> IF c \in cs THEN 1 ELSE app.results[c]]
      BY <1>1, <1>5, NobodyBooks
    <2> QED
      BY <1>2, <1>3, <1>5, <2>1
      DEF Promise!Proceed, Promise!Answer, Promise!Begin, Promise!Due
  <1>6. CASE Takes
    <2>1. Due(app) = {NoCall} /\ Live' = {}
      BY <1>6, RepliedRests DEF Takes, Live
    <2> DEFINE new == app'.taken \ app.taken
               got == {c \in new : app'.results[c] = 1}
    <2>2. /\ due = {} /\ new \in SUBSET (Calls \ app.taken)
          /\ app'.taken = app.taken \cup new /\ got \in SUBSET new
          /\ app'.results = [c \in Calls |-> IF c \in got THEN 1 ELSE app.results[c]]
      BY <1>1, <1>6, <2>1, TakeBooks
    <2> HIDE DEF new, got
    <2> QED
      BY <1>2, <1>3, <2>1, <2>2
      DEF Promise!Take, Promise!Answer, Promise!Begin, Promise!Due
  <1> QED
    BY <1>1, <1>4, <1>5, <1>6

LEMMA TurnPromiseStep ==
    TypeOK /\ TurnInv /\ TypeOK' /\ TurnInv' /\ [Next]_vars
        => [Promise!Next]_<<Live # {}, {t.call : t \in tools}, app.taken, app.results>>
  <1> SUFFICES ASSUME TypeOK, TurnInv, TypeOK', TurnInv', [Next]_vars
               PROVE  [Promise!Next]_<<Live # {}, {t.call : t \in tools},
                                       app.taken, app.results>>
    OBVIOUS
  <1>1. CASE Live = {} /\ tools = {}
    BY <1>1, NobodyStep DEF Promise!Next
  <1>2. CASE Live # {} \/ tools # {}
    <2>1. /\ SameBooks
          /\ \/ Live' = {} /\ tools' = {}
             \/ /\ (Live # {}) <=> (Live # {})'
                /\ {t.call : t \in tools} = {t.call : t \in tools'}
      BY <1>2, SomebodyStep
    <2>2. CASE Live' = {} /\ tools' = {}
      <3>1. ~Promise!Nobody
        BY <1>2 DEF Promise!Nobody
      <3>2. Promise!End
        BY <2>1, <2>2, <3>1 DEF Promise!End, SameBooks
      <3> QED
        BY <3>2 DEF Promise!Next
    <2>3. CASE /\ (Live # {}) <=> (Live # {})'
               /\ {t.call : t \in tools} = {t.call : t \in tools'}
      BY <2>1, <2>3 DEF SameBooks
    <2> QED
      BY <2>1, <2>2, <2>3
  <1> QED
    BY <1>1, <1>2

LEMMA TurnPromiseInit == Init => Promise!Init
  BY DEF Init, AppInit, Live, Promise!Init

(* TurnEngine implements TurnPromise.  Whatever the user, a failed save, a   *)
(* stop, a retry and the shutdown come between: who works is alone, nothing  *)
(* is taken or answered meanwhile, a call that runs was due, and the model   *)
(* is asked with every result there is to give.                              *)
THEOREM TurnPromiseCorrect == ASSUME Orderly PROVE Spec => KeepsTurnPromise
  BY TurnAlways, TurnPromiseInit, TurnPromiseStep, PTL
  DEF Spec, KeepsTurnPromise, Promise!Spec
=============================================================================
