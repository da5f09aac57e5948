----------------------------- MODULE CommandReplay -----------------------------
(* Commands of a browser over sockets that break and servers that restart:  *)
(* pending commands and their replay (web/src/transport.ts), the session    *)
(* task of each socket (wfe/server.rs), the actor's mailbox and the cache   *)
(* of answers (wfe/actor.rs), admission and completion (wfe/runtime.rs) and *)
(* the actor's loop around them (bin/lethetic/runtime.rs).                  *)
EXTENDS Naturals, Sequences, FiniteSets

CONSTANTS
    Commands,         \* request IDs; each is used for one command
    Kind,             \* what each command does
    Nothing,          \* no session load is pending
    MaxInFlight,      \* MAX_IN_FLIGHT of the browser
    ReplayWindow,     \* COMPLETED_REPLAY_WINDOW of the browser
    MailboxCapacity,  \* WFE_COMMAND_MAILBOX_CAPACITY
    ResponseCapacity, \* WFE_CONNECTION_PENDING_RESPONSES
    CacheCapacity,    \* WFE_REQUEST_REPLAY_CAPACITY
    MaxConnections,   \* bound: sockets that the browser opens
    MaxEpochs,        \* bound: servers that are started
    MaxRevision,      \* bound: revision up to which others change the state
    StopDuringLoad    \* remote control may end while a session is loading

Kinds == {"edit", "load"}

ASSUME CommandAssumption == /\ Kind \in [Commands -> Kinds]
                            /\ Nothing \notin Commands
                            /\ StopDuringLoad \in BOOLEAN
ASSUME CommandBounds == /\ MaxInFlight \in Nat \ {0}
                        /\ ReplayWindow \in Nat \ {0}
                        /\ MailboxCapacity \in Nat \ {0}
                        /\ ResponseCapacity \in Nat \ {0}
                        /\ CacheCapacity \in Nat \ {0}
                        /\ MaxConnections \in Nat \ {0}
                        /\ MaxEpochs \in Nat \ {0}
                        /\ MaxRevision \in Nat

Connections == 1 .. MaxConnections

(* An answer carries the revision at which it was made.                      *)
AnswerKinds == {"ok", "failed", "stale", "busy", "unavailable"}
Answers == [is : AnswerKinds, rev : Nat]
Unanswered == [is |-> "none", rev |-> 0]

VARIABLES
    browser,   \* sockets opened, pending and completed commands, the proof
    outcome,   \* what the user has been told of each command
    expected,  \* the expected_revision of each command
    up, down,  \* frames on the wire of each socket
    serving,   \* sockets with a live session task
    calls,     \* commands that session tasks have handed to the actor
    mailbox,   \* the actor's mailbox
    actor,     \* the WFE runtime: epoch, revision, cache, flights
    app,       \* the application: pending load, effects, whether it is up;
               \* history: the commands that acted and then failed
    forgotten  \* history: commands whose answer made room for another

vars == <<browser, outcome, expected, up, down, serving, calls, mailbox,
          actor, app, forgotten>>
onBrowser == <<browser, outcome, expected>>
onServer == <<serving, calls, mailbox>>
inActor == <<actor, app, forgotten>>

Init ==
    /\ browser = [conn |-> 0, open |-> FALSE, synced |-> FALSE, proof |-> 1,
                  pending |-> <<>>, sent |-> [c \in Commands |-> 0],
                  completed |-> <<>>, faulty |-> FALSE]
    /\ outcome = [c \in Commands |-> "idle"]
    /\ expected = [c \in Commands |-> 0]
    /\ up = [k \in Connections |-> <<>>]
    /\ down = [k \in Connections |-> <<>>]
    /\ serving = {}
    /\ calls = {}
    /\ mailbox = <<>>
    /\ actor = [on |-> TRUE, epoch |-> 1, revision |-> 0, cache |-> <<>>,
                waiters |-> [c \in Commands |-> {}]]
    /\ app = [up |-> TRUE, load |-> Nothing, times |-> [c \in Commands |-> 0],
              halfway |-> {}]
    /\ forgotten = {}

Pending == {browser.pending[i] : i \in 1 .. Len(browser.pending)}

(* A sequence without its i-th element, and without its first n.             *)
Without(s, i) == [j \in 1 .. Len(s) - 1 |-> IF j < i THEN s[j] ELSE s[j + 1]]
Beyond(s, n) == [j \in 1 .. Len(s) - n |-> s[j + n]]

-----------------------------------------------------------------------------
(* The browser.                                                              *)

(* The server accepts the proof of its own process only.                     *)
Connect ==
    /\ ~browser.open
    /\ browser.conn < MaxConnections
    /\ actor.on
    /\ browser.proof = actor.epoch
    /\ browser' = [browser EXCEPT !.conn = @ + 1, !.open = TRUE, !.synced = FALSE]
    /\ serving' = serving \union {browser.conn + 1}
    /\ UNCHANGED <<outcome, expected, up, down, calls, mailbox>>
    /\ UNCHANGED inActor

(* abandonPendingForNewAuthenticationEpoch.  Seeded fault: the commands are  *)
(* kept for the new server.                                                  *)
KeepPending == browser.pending
AbandonPending == <<>>

Told(c, pending) ==
    IF \E i \in 1 .. Len(pending) : pending[i] = c THEN "pending" ELSE "abandoned"

Reauthenticate ==
    /\ ~browser.open
    /\ actor.on
    /\ browser.proof # actor.epoch
    /\ browser' = [browser EXCEPT !.proof = actor.epoch, !.completed = <<>>,
                                  !.pending = AbandonPending,
                                  !.sent = [c \in Commands |-> 0]]
    /\ outcome' = [c \in Commands |->
                      IF outcome[c] = "pending" THEN Told(c, AbandonPending)
                                                ELSE outcome[c]]
    /\ UNCHANGED expected
    /\ UNCHANGED <<up, down>>
    /\ UNCHANGED onServer
    /\ UNCHANGED inActor

(* A frame is sent, or the socket is found clogged and closes.  The browser  *)
(* shows some revision, the last one or an older one.                        *)
Issue(c) ==
    /\ outcome[c] = "idle"
    /\ browser.open
    /\ browser.synced
    /\ Len(browser.pending) < MaxInFlight
    /\ \E r \in 0 .. actor.revision : expected' = [expected EXCEPT ![c] = r]
    /\ outcome' = [outcome EXCEPT ![c] = "pending"]
    /\ \/ /\ browser' = [browser EXCEPT !.pending = Append(@, c),
                                        !.sent[c] = browser.conn]
          /\ up' = [up EXCEPT ![browser.conn] = Append(@, c)]
          /\ UNCHANGED down
       \/ /\ browser.conn < MaxConnections
          /\ browser' = [browser EXCEPT !.pending = Append(@, c),
                                        !.open = FALSE, !.synced = FALSE]
          /\ down' = [down EXCEPT ![browser.conn] = <<>>]
          /\ UNCHANGED up
    /\ UNCHANGED onServer
    /\ UNCHANGED inActor

(* replayPending: once per socket, in the order of issue.  Seeded fault: a   *)
(* resync replays what this socket has sent already.                         *)
ReplayAll(c) == TRUE
ToReplay(c) == browser.sent[c] # browser.conn

InOrder(S) ==
    {f \in UNION {[1 .. n -> S] : n \in 0 .. Len(browser.pending)} :
        /\ \A c \in S : \E i \in DOMAIN f : f[i] = c
        /\ \A i, j \in DOMAIN f : i < j =>
               \E a, b \in 1 .. Len(browser.pending) :
                   a < b /\ browser.pending[a] = f[i] /\ browser.pending[b] = f[j]}

(* markSynchronized, after hello and snapshot and after every resync.        *)
Synchronize ==
    /\ browser.open
    /\ ~browser.synced
    /\ \E again \in InOrder({c \in Pending : ToReplay(c)}) :
           up' = [up EXCEPT ![browser.conn] = @ \o again]
    /\ browser' = [browser EXCEPT
           !.synced = TRUE,
           !.sent = [c \in Commands |-> IF c \in Pending THEN browser.conn ELSE 0]]
    /\ UNCHANGED <<outcome, expected, down>>
    /\ UNCHANGED onServer
    /\ UNCHANGED inActor

MarkStale ==
    /\ browser.open
    /\ browser.synced
    /\ browser' = [browser EXCEPT !.synced = FALSE]
    /\ UNCHANGED <<outcome, expected, up, down>>
    /\ UNCHANGED onServer
    /\ UNCHANGED inActor

(* The socket closes, for whatever reason.  The last one that the bound      *)
(* admits stays while its session does.                                      *)
Break ==
    /\ browser.open
    /\ browser.conn < MaxConnections \/ browser.conn \notin serving
    /\ browser' = [browser EXCEPT !.open = FALSE, !.synced = FALSE]
    /\ down' = [down EXCEPT ![browser.conn] = <<>>]
    /\ UNCHANGED <<outcome, expected, up>>
    /\ UNCHANGED onServer
    /\ UNCHANGED inActor

(* rememberCompleted: the newest answers, oldest first.                      *)
Completed(m) ==
    LET s == Append(browser.completed, m) IN
    IF Len(s) > ReplayWindow THEN Tail(s) ELSE s

IsCompleted(m) ==
    \E i \in 1 .. Len(browser.completed) : browser.completed[i] = m

(* routeResponse.  An answer at an unknown revision, and every stale one,    *)
(* makes the browser ask for a snapshot.                                     *)
TakeAnswer ==
    /\ browser.open
    /\ down[browser.conn] # <<>>
    /\ LET m == Head(down[browser.conn]) IN
       \/ /\ \E i \in 1 .. Len(browser.pending), doubt \in BOOLEAN :
                 /\ browser.pending[i] = m.id
                 /\ m.answer.is = "ok" => ~doubt
                 /\ m.answer.is = "stale" => doubt
                 /\ browser' = [browser EXCEPT
                        !.pending = Without(@, i),
                        !.sent[m.id] = 0,
                        !.completed = Completed(m),
                        !.synced = @ /\ ~doubt]
          /\ outcome' = [outcome EXCEPT ![m.id] = m.answer.is]
       \/ /\ m.id \notin Pending
          /\ IsCompleted(m)
          /\ UNCHANGED <<browser, outcome>>
       \/ /\ m.id \notin Pending
          /\ ~IsCompleted(m)
          /\ browser' = [browser EXCEPT !.open = FALSE, !.synced = FALSE,
                                        !.faulty = TRUE]
          /\ UNCHANGED outcome
    /\ down' = [down EXCEPT ![browser.conn] = IF browser'.open THEN Tail(@) ELSE <<>>]
    /\ UNCHANGED <<expected, up>>
    /\ UNCHANGED onServer
    /\ UNCHANGED inActor

-----------------------------------------------------------------------------
(* The session task of a socket: run_websocket_session.                      *)

CallsOf(k) == {x \in calls : x.conn = k}

(* What the server writes to a socket that the browser has left is lost.     *)
Reply(k, c, a) ==
    down' = IF browser.open /\ browser.conn = k
            THEN [down EXCEPT ![k] = Append(@, [id |-> c, answer |-> a])]
            ELSE down

LocalAnswer(is) == [is |-> is, rev |-> actor.revision]

Busy(k) ==
    \/ Cardinality(CallsOf(k)) >= ResponseCapacity
    \/ actor.on /\ Len(mailbox) >= MailboxCapacity

(* A frame is handed to the actor, or answered on the spot; a session that   *)
(* finds the mailbox closed says so and ends.                                *)
ReadFrame(k) ==
    /\ k \in serving
    /\ up[k] # <<>>
    /\ up' = [up EXCEPT ![k] = Tail(@)]
    /\ LET c == Head(up[k]) IN
       \/ /\ Busy(k)
          /\ Reply(k, c, LocalAnswer("busy"))
          /\ UNCHANGED onServer
       \/ /\ ~Busy(k)
          /\ actor.on
          /\ mailbox' = Append(mailbox, [conn |-> k, id |-> c])
          /\ calls' = calls \union {[conn |-> k, id |-> c, answer |-> Unanswered]}
          /\ UNCHANGED <<down, serving>>
       \/ /\ ~Busy(k)
          /\ ~actor.on
          /\ Reply(k, c, LocalAnswer("unavailable"))
          /\ serving' = serving \ {k}
          /\ calls' = calls \ CallsOf(k)
          /\ UNCHANGED mailbox
    /\ UNCHANGED onBrowser
    /\ UNCHANGED inActor

(* The answers of one socket are sent in any order.                          *)
SendAnswer(k) ==
    /\ k \in serving
    /\ \E x \in CallsOf(k) :
           /\ x.answer # Unanswered
           /\ Reply(k, x.id, x.answer)
           /\ IF x.answer.is = "unavailable"
              THEN /\ serving' = serving \ {k}
                   /\ calls' = calls \ CallsOf(k)
              ELSE /\ calls' = calls \ {x}
                   /\ UNCHANGED serving
    /\ UNCHANGED <<up, mailbox>>
    /\ UNCHANGED onBrowser
    /\ UNCHANGED inActor

(* A session whose socket is gone notices at some time; before, it goes on   *)
(* reading what the socket held.  Frames that were not read are lost.        *)
Gone(k) == k # browser.conn \/ ~browser.open \/ ~actor.on

Leave(k) ==
    /\ k \in serving
    /\ Gone(k) \/ k < MaxConnections
    /\ serving' = serving \ {k}
    /\ calls' = calls \ CallsOf(k)
    /\ up' = [up EXCEPT ![k] = <<>>]
    /\ UNCHANGED <<down, mailbox>>
    /\ UNCHANGED onBrowser
    /\ UNCHANGED inActor

-----------------------------------------------------------------------------
(* The actor: WfeRuntime::admit and complete, and process_wfe_command, which *)
(* runs without interruption by another command.                             *)

ResolvedFor(ks, c, a, cs) ==
    {IF x.conn \in ks /\ x.id = c /\ x.answer = Unanswered
     THEN [x EXCEPT !.answer = a] ELSE x : x \in cs}

(* The waiting session, if it is still there, is given the answer.           *)
Resolve(ks, c, a) == calls' = ResolvedFor(ks, c, a, calls)

Entry(c) == {i \in 1 .. Len(actor.cache) : actor.cache[i].id = c}
(* Seeded fault: the cache is not looked at.                                 *)
NeverCached(c) == FALSE
IsCached(c) == Entry(c) # {}

(* Room is made by evicting the oldest entries: at least one if the cache is *)
(* full, and more if the answers are long (WFE_REQUEST_REPLAY_BYTE_BUDGET).  *)
(* Seeded fault: nothing is evicted for the count's sake.                    *)
AlwaysFits(n) == TRUE
Fits(n) == Len(actor.cache) - n < CacheCapacity

Remember(c, a) ==
    \E n \in 0 .. Len(actor.cache) :
        /\ Fits(n)
        /\ actor' = [actor EXCEPT
               !.cache = Append(Beyond(@, n), [id |-> c, answer |-> a]),
               !.revision = a.rev,
               !.waiters[c] = {}]
        /\ forgotten' = forgotten \union ({actor.cache[i].id : i \in 1 .. n} \ {c})

Arrived(c, k) ==
    /\ actor.on
    /\ app.up
    /\ mailbox # <<>>
    /\ Head(mailbox) = [conn |-> k, id |-> c]
    /\ mailbox' = Tail(mailbox)
    /\ UNCHANGED onBrowser
    /\ UNCHANGED <<up, down, serving>>

(* A remembered answer is given again; the entry becomes the newest.         *)
AnswerAgain(c, k) ==
    /\ Arrived(c, k)
    /\ IsCached(c)
    /\ \E i \in Entry(c) :
           /\ Resolve({k}, c, actor.cache[i].answer)
           /\ actor' = [actor EXCEPT
                  !.cache = Append(Without(@, i), actor.cache[i])]
    /\ UNCHANGED <<app, forgotten>>

(* A duplicate of a request in flight waits for the same answer.  Seeded     *)
(* fault: it is dropped.                                                     *)
NotJoined(c, k) == actor.waiters[c]
Joined(c, k) == actor.waiters[c] \union {k}

Coalesce(c, k) ==
    /\ Arrived(c, k)
    /\ ~IsCached(c)
    /\ actor.waiters[c] # {}
    /\ actor' = [actor EXCEPT !.waiters[c] = Joined(c, k)]
    /\ UNCHANGED <<calls, app, forgotten>>

Fresh(c) == ~IsCached(c) /\ actor.waiters[c] = {}

(* validate_request: only the current revision is good.                      *)
IsCurrent(c) == expected[c] = actor.revision

Settle(c, k, a) ==
    /\ Resolve({k}, c, a)
    /\ Remember(c, a)

RefuseStale(c, k) ==
    /\ Arrived(c, k)
    /\ Fresh(c)
    /\ ~IsCurrent(c)
    /\ Settle(c, k, LocalAnswer("stale"))
    /\ UNCHANGED app

Admitted(c, k) ==
    /\ Arrived(c, k)
    /\ Fresh(c)
    /\ IsCurrent(c)

(* Not possible in the current state of the application, taken back because  *)
(* it was not saved, another session is being loaded, or Lethetic is shutting*)
(* down: such an answer is remembered like any other.  (That the reason may  *)
(* show in the state is OtherChange.)                                        *)
Fail(c, k) ==
    /\ Admitted(c, k)
    /\ Settle(c, k, LocalAnswer("failed"))
    /\ UNCHANGED app

(* An effect shows in the state, which is published before the answer.       *)
Perform(c) == app' = [app EXCEPT !.times[c] = @ + 1]
Published == [is |-> "ok", rev |-> actor.revision + 1]
FailedAfterwards == [is |-> "failed", rev |-> actor.revision + 1]

Edit(c, k) ==
    /\ Admitted(c, k)
    /\ Kind[c] = "edit"
    /\ Perform(c)
    /\ Settle(c, k, Published)

(* The command acts, wholly or in part, and is answered with an error: the   *)
(* model is switched and cannot be saved, some of the sessions are wiped and *)
(* one is not, a prompt is in the conversation and its request not started.  *)
FailHalfway(c, k) ==
    /\ Admitted(c, k)
    /\ Kind[c] = "edit"
    /\ app' = [app EXCEPT !.times[c] = @ + 1, !.halfway = @ \union {c}]
    /\ Settle(c, k, FailedAfterwards)

(* ResumeSession: the command stays in flight until the session is loaded.   *)
StartLoad(c, k) ==
    /\ Admitted(c, k)
    /\ Kind[c] = "load"
    /\ app.load = Nothing
    /\ app' = [app EXCEPT !.times[c] = @ + 1, !.load = c]
    /\ actor' = [actor EXCEPT !.revision = @ + 1, !.waiters[c] = {k}]
    /\ UNCHANGED <<calls, forgotten>>

Handle(c, k) ==
    \/ AnswerAgain(c, k) \/ Coalesce(c, k) \/ RefuseStale(c, k)
    \/ Fail(c, k) \/ Edit(c, k) \/ FailHalfway(c, k) \/ StartLoad(c, k)

(* wfe_runtime = None: what was in the mailbox or in flight has no answer.   *)
CloseRuntime ==
    /\ actor' = [actor EXCEPT !.on = FALSE,
                              !.waiters = [c \in Commands |-> {}]]
    /\ mailbox' = <<>>
    /\ calls' = {IF x.answer = Unanswered
                 THEN [x EXCEPT !.answer = LocalAnswer("unavailable")] ELSE x
                   : x \in calls}
    /\ UNCHANGED forgotten

(* finish_pending_wfe_session_load, after the loaded session was installed   *)
(* or refused.  A load whose request the runtime does not hold is fatal.     *)
FinishLoad ==
    /\ app.load # Nothing
    /\ app.up
    /\ \E done \in BOOLEAN :
           LET c == app.load
               a == [is |-> IF done THEN "ok" ELSE "failed",
                     rev |-> actor.revision + 1]
               held == actor.on /\ actor.waiters[c] # {}
           IN /\ app' = [app EXCEPT !.load = Nothing, !.up = held]
              /\ \/ /\ held
                    /\ Resolve(actor.waiters[c], c, a)
                    /\ Remember(c, a)
                    /\ UNCHANGED mailbox
                 \/ /\ ~held
                    /\ actor.on
                    /\ CloseRuntime
                 \/ /\ ~held
                    /\ ~actor.on
                    /\ UNCHANGED <<calls, mailbox, actor, forgotten>>
    /\ UNCHANGED onBrowser
    /\ UNCHANGED <<up, down, serving>>

(* The user, the model or another browser changes the state.                 *)
OtherChange ==
    /\ actor.on
    /\ app.up
    /\ actor.revision < MaxRevision
    /\ actor' = [actor EXCEPT !.revision = @ + 1]
    /\ UNCHANGED <<app, forgotten, up, down>>
    /\ UNCHANGED onBrowser
    /\ UNCHANGED onServer

(* Remote control ends and the application goes on: the palette's Stop, or   *)
(* the listener of a server that the palette started has failed.             *)
StopRemoteControl ==
    /\ actor.on
    /\ app.up
    /\ actor.epoch < MaxEpochs
    /\ StopDuringLoad \/ app.load = Nothing
    /\ CloseRuntime
    /\ UNCHANGED <<app, up, down, serving>>
    /\ UNCHANGED onBrowser

(* The process ends, by a crash or at its exit, and takes its sessions along.*)
EndProcess ==
    /\ actor.epoch < MaxEpochs
    /\ actor' = [actor EXCEPT !.on = FALSE,
                              !.waiters = [c \in Commands |-> {}]]
    /\ app' = [app EXCEPT !.up = TRUE, !.load = Nothing]
    /\ mailbox' = <<>>
    /\ calls' = {}
    /\ serving' = {}
    /\ up' = [k \in Connections |-> <<>>]
    /\ UNCHANGED <<down, forgotten>>
    /\ UNCHANGED onBrowser

(* A new server has a new proof, no answers, and counts revisions anew.      *)
StartServer ==
    /\ ~actor.on
    /\ app.up
    /\ actor.epoch < MaxEpochs
    /\ serving = {}
    /\ actor' = [actor EXCEPT !.on = TRUE, !.epoch = @ + 1, !.revision = 0,
                              !.cache = <<>>]
    /\ UNCHANGED <<app, forgotten, up, down>>
    /\ UNCHANGED onBrowser
    /\ UNCHANGED onServer

-----------------------------------------------------------------------------

ActorNext ==
    \/ \E c \in Commands, k \in Connections : Handle(c, k)
    \/ FinishLoad \/ OtherChange
    \/ StopRemoteControl \/ EndProcess \/ StartServer

BrowserNext ==
    \/ Connect \/ Reauthenticate \/ Synchronize \/ MarkStale \/ Break
    \/ TakeAnswer \/ \E c \in Commands : Issue(c)

SessionNext ==
    \E k \in Connections : ReadFrame(k) \/ SendAnswer(k) \/ Leave(k)

Next == BrowserNext \/ SessionNext \/ ActorNext

Spec == Init /\ [][Next]_vars

(* The browser retries until it is connected; the runtime polls every task;  *)
(* the actor's loop takes the mailbox and a finished load, which ends one    *)
(* way or the other.  Nothing is assumed of the user, of breaks and stops,   *)
(* and of a server that was stopped.                                         *)
Fairness ==
    /\ WF_vars(Connect) /\ WF_vars(Reauthenticate)
    /\ WF_vars(Synchronize) /\ WF_vars(TakeAnswer)
    /\ WF_vars(Break /\ browser.conn \notin serving)
    /\ WF_vars(FinishLoad)
    /\ WF_vars(\E c \in Commands, k \in Connections : Handle(c, k))
    /\ \A k \in Connections :
           /\ WF_vars(ReadFrame(k))
           /\ WF_vars(SendAnswer(k))
           /\ WF_vars(Leave(k) /\ Gone(k))

FairSpec == Spec /\ Fairness

-----------------------------------------------------------------------------

(* The state of the browser, the wire, the sessions and the actor is well    *)
(* formed; nothing that has a capacity exceeds it.                           *)
TypeOK ==
    /\ browser \in [conn : 0 .. MaxConnections, open : BOOLEAN, synced : BOOLEAN,
                    proof : Nat, pending : Seq(Commands),
                    sent : [Commands -> 0 .. MaxConnections],
                    completed : Seq([id : Commands, answer : Answers]),
                    faulty : BOOLEAN]
    /\ browser.open => browser.conn \in Connections
    /\ Len(browser.pending) <= MaxInFlight
    /\ outcome \in [Commands -> {"idle", "pending", "abandoned"} \union AnswerKinds]
    /\ expected \in [Commands -> Nat]
    /\ up \in [Connections -> Seq(Commands)]
    /\ down \in [Connections -> Seq([id : Commands, answer : Answers])]
    /\ serving \subseteq Connections
    /\ calls \subseteq [conn : Connections, id : Commands,
                        answer : Answers \union {Unanswered}]
    /\ mailbox \in Seq([conn : Connections, id : Commands])
    /\ Len(mailbox) <= MailboxCapacity
    /\ actor \in [on : BOOLEAN, epoch : Nat, revision : Nat,
                  cache : Seq([id : Commands, answer : Answers]),
                  waiters : [Commands -> SUBSET Connections]]
    /\ Len(actor.cache) <= CacheCapacity
    /\ app \in [up : BOOLEAN, load : Commands \union {Nothing},
                times : [Commands -> Nat], halfway : SUBSET Commands]
    /\ forgotten \subseteq Commands

(* However often a command is sent again, over however many sockets and      *)
(* servers, it is performed once: the cache answers the second copy, and     *)
(* when the cache has forgotten it the revision that the command expects is  *)
(* gone (wfe/runtime.rs:570; a new server is given none of the old commands).    *)
AppliedOnce == \A c \in Commands : app.times[c] <= 1

(* The browser never gets an answer it cannot place: each copy of a command  *)
(* that is sent on a socket is answered once on it (transport.ts:775).       *)
NoFault == ~browser.faulty

(* What a refusal says of a command is true of all its copies, unless the    *)
(* answer had been evicted from the cache: one that is refused as stale has  *)
(* not been performed by an earlier copy and is not by a later one; one that *)
(* is answered with an error has not been performed either, but by the very  *)
(* handler that acted and then failed (wfe_commands.rs:341).  (Busy says     *)
(* nothing: it may answer a copy of a command whose original is in the       *)
(* mailbox or done.)                                                         *)
RefusalIsTrue ==
    \A c \in Commands :
        /\ outcome[c] = "stale" => app.times[c] = 0 \/ c \in forgotten
        /\ outcome[c] = "failed" /\ Kind[c] = "edit" =>
               app.times[c] = 0 \/ c \in forgotten \/ c \in app.halfway

(* Every command is answered or given up, whatever breaks, unless there is   *)
(* no server any more.                                                       *)
EveryCommandEnds ==
    \A c \in Commands :
        outcome[c] = "pending" ~> outcome[c] # "pending" \/ ~actor.on

(* Remote control that ends while a session is loading does not end the      *)
(* program ("A palette-started listener failing ends remote control, not the *)
(* session.", bin/lethetic/runtime.rs:404).                                  *)
StopIsNotFatal == app.up

(* What the user has been told of a command, and how often it was performed, *)
(* are what CommandPromise allows.                                           *)
Summary(o) == CASE o \in {"idle", "pending", "abandoned", "ok"} -> o
                [] OTHER -> "refused"

Promise == INSTANCE CommandPromise WITH
    times <- app.times,
    told <- [c \in Commands |-> Summary(outcome[c])]

KeepsCommandPromise == Promise!Spec
=============================================================================
