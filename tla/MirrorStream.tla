----------------------------- MODULE MirrorStream -----------------------------
(***************************************************************************)
(* The state that lethetic mirrors to a browser: the actor publishes it    *)
(* (MirrorPublisher, src/src/wfe/state.rs), the task of a WebSocket        *)
(* connection relays it (run_websocket_session, src/src/wfe/server.rs),    *)
(* and the browser's reducer keeps a copy (reduceServerMessage,            *)
(* src/web/src/protocol.ts).                                               *)
(*                                                                         *)
(* Every publication goes two ways: as a snapshot into a watch channel,    *)
(* which keeps only the latest, and then as a patch into a broadcast ring, *)
(* which overruns slow readers.  The connection reads both and sends the   *)
(* browser patches while it can and snapshots when it must.  Connections   *)
(* share nothing but the two channels, so the module has one of them,      *)
(* which may break and be made again.                                      *)
(*                                                                         *)
(* Sequence and revision are only ever changed together, by one: a single  *)
(* number stands for both, and a patch's base is the number before its own.*)
(***************************************************************************)
EXTENDS Integers, Sequences

CONSTANTS
    Sections,        \* parts of the application state that a patch replaces
    Volatile,        \* those whose change is no new revision
    Values,          \* contents of a section
    Initial,         \* the state that is published first
    NoState,         \* None: no state is known
    RingCapacity,    \* WFE_PATCH_BROADCAST_CAPACITY
    WireCapacity,    \* messages on their way, the one that is being sent included
    MaxRevision,     \* publications of a run
    MaxConnections   \* connections of a run

ASSUME SectionAssumption == Volatile \subseteq Sections

ASSUME MirrorBounds ==
    /\ RingCapacity \in Nat \ {0}
    /\ WireCapacity \in Nat \ {0, 1}
    /\ MaxRevision \in Nat
    /\ MaxConnections \in Nat

States  == [Sections -> Values]

ASSUME StateAssumption == Initial \in States /\ NoState \notin States

Changes == UNION {[S -> Values] : S \in SUBSET Sections}
Revisions == 0 .. MaxRevision

Messages ==
         [kind : {"hello", "answer"}, rev : Revisions]
    \cup [kind : {"snapshot"}, rev : Revisions, state : States]
    \cup [kind : {"patch"}, rev : Revisions, changes : Changes]

VARIABLES
    state,        \* MirrorPublisher.state
    revision,     \* MirrorPublisher.sequence and .revision
    patches,      \* the patches made, by their number
    broadcast,    \* how many of them the ring has been given
    history,      \* history[r + 1]: what revision r was published as
    conn,         \* the locals of run_websocket_session
    wire,         \* messages on their way to the browser
    browser,      \* RemoteState of the browser
    asked,        \* the browser's request for a snapshot
    connections   \* connections made so far

publisher == <<state, revision, patches, broadcast, history>>
vars == <<publisher, conn, wire, browser, asked, connections>>

-----------------------------------------------------------------------------
(* States and patches.                                                     *)

SemanticallyEqual(s, t) == \A x \in Sections \ Volatile : s[x] = t[x]

(* Seeded fault: the two lists of sections are out of step, and one that    *)
(* makes a revision is missing from the patches.                            *)
SectionForgotten(s, t) ==
    LET forgotten == CHOOSE x \in Sections \ Volatile : TRUE
    IN  [x \in {y \in Sections \ {forgotten} : s[y] # t[y]} |-> t[x]]

(* A patch carries every section that differs, volatile ones too.           *)
Between(s, t) == [x \in {y \in Sections : s[y] # t[y]} |-> t[x]]

Apply(s, changes) ==
    [x \in Sections |-> IF x \in DOMAIN changes THEN changes[x] ELSE s[x]]

Hello(r)       == [kind |-> "hello", rev |-> r]
Snapshot(r, s) == [kind |-> "snapshot", rev |-> r, state |-> s]
Patch(r, ch)   == [kind |-> "patch", rev |-> r, changes |-> ch]
(* The response to request_snapshot; rev is what the connection has sent.   *)
Answer(r)      == [kind |-> "answer", rev |-> r]

NoConnection == [phase |-> "closed", next |-> 1, fresh |-> FALSE, last |-> 0,
                 known |-> NoState, patched |-> NoState]

Init ==
    /\ state = Initial
    /\ revision = 0 /\ patches = <<>> /\ broadcast = 0
    /\ history = <<state>>
    /\ conn = NoConnection
    /\ wire = <<>>
    /\ browser = [phase |-> "disconnected", hello |-> 0, view |-> NoState,
                  rev |-> 0]
    /\ asked = "no"
    /\ connections = 0

-----------------------------------------------------------------------------
(* The publisher.  The ring is given the patch after the snapshot, and the  *)
(* connection may run in between; the actor publishes nothing else then.    *)

Published == broadcast = revision

PublishVolatile(s) ==
    /\ Published
    /\ SemanticallyEqual(s, state) /\ s # state
    /\ state' = s
    /\ conn' = [conn EXCEPT !.fresh = TRUE]
    /\ UNCHANGED <<revision, patches, broadcast, history, wire, browser, asked,
                   connections>>

PublishRevision(s) ==
    /\ Published /\ revision < MaxRevision
    /\ ~SemanticallyEqual(s, state)
    /\ patches' = Append(patches, Between(state, s))
    /\ state' = s
    /\ revision' = revision + 1
    /\ history' = Append(history, s)
    /\ conn' = [conn EXCEPT !.fresh = TRUE]
    /\ UNCHANGED <<broadcast, wire, browser, asked, connections>>

BroadcastPatch ==
    /\ ~Published
    /\ broadcast' = revision
    /\ UNCHANGED <<state, revision, patches, history, conn, wire, browser, asked,
                   connections>>

-----------------------------------------------------------------------------
(* The connection.  subscribe_patches comes before the snapshot is read.    *)

Connect ==
    /\ conn.phase = "closed" /\ connections < MaxConnections
    /\ conn' = [NoConnection EXCEPT !.phase = "subscribed",
                                    !.next = broadcast + 1]
    /\ browser' = [browser EXCEPT !.phase = "awaiting_hello"]
    /\ connections' = connections + 1
    /\ UNCHANGED <<publisher, wire, asked>>

Greet ==
    /\ conn.phase = "subscribed"
    /\ wire' = <<Hello(revision), Snapshot(revision, state)>>
    /\ conn' = [conn EXCEPT !.phase = "idle", !.fresh = FALSE,
                            !.last = revision, !.known = state]
    /\ UNCHANGED <<publisher, browser, asked, connections>>

(* Seeded fault: an off-by-one lets one message too many into the socket.   *)
RoomForOneMore == Len(wire) <= WireCapacity

Room == Len(wire) < WireCapacity

(* The latest snapshot is read from the watch channel and sent.             *)
SendLatest(c) ==
    /\ Room
    /\ wire' = Append(wire, Snapshot(revision, state))
    /\ conn' = [c EXCEPT !.phase = "idle", !.fresh = FALSE,
                         !.last = revision, !.known = state, !.patched = NoState]

(* The oldest patch that the ring still has, and whether the connection's   *)
(* next one has been overrun.                                               *)
Oldest == IF broadcast > RingCapacity THEN broadcast - RingCapacity + 1 ELSE 1
Lagged == conn.next < Oldest

SkipPatch ==
    /\ conn.phase = "idle" /\ conn.next <= broadcast
    /\ ~Lagged /\ conn.next <= conn.last
    /\ conn' = [conn EXCEPT !.next = @ + 1]
    /\ UNCHANGED <<publisher, wire, browser, asked, connections>>

(* The connection awaits the send before it looks at the latest snapshot.   *)
RelayPatch ==
    /\ conn.phase = "idle" /\ conn.next <= broadcast
    /\ ~Lagged /\ conn.next = conn.last + 1
    /\ Room
    /\ wire' = Append(wire, Patch(conn.next, patches[conn.next]))
    /\ conn' = [conn EXCEPT !.phase = "check", !.next = @ + 1, !.last = @ + 1,
                            !.patched = Apply(conn.known, patches[conn.next])]
    /\ UNCHANGED <<publisher, browser, asked, connections>>

CheckPatched ==
    /\ conn.phase = "check"
    /\ \/ /\ revision = conn.last /\ conn.patched = state
          /\ conn' = [conn EXCEPT !.phase = "idle", !.fresh = FALSE,
                                  !.known = state, !.patched = NoState]
          /\ UNCHANGED wire
       \/ /\ ~(revision = conn.last /\ conn.patched = state)
          /\ SendLatest(conn)
    /\ UNCHANGED <<publisher, browser, asked, connections>>

(* Seeded fault: after an overrun the connection goes on with the patches   *)
(* that are left.                                                           *)
ResumeAfterLag ==
    /\ conn.phase = "idle" /\ conn.next <= broadcast
    /\ Lagged \/ conn.next > conn.last + 1
    /\ conn' = [conn EXCEPT !.next = Oldest, !.last = Oldest - 1]
    /\ UNCHANGED <<publisher, wire, browser, asked, connections>>

RecoverLag ==
    /\ conn.phase = "idle" /\ conn.next <= broadcast
    /\ Lagged \/ conn.next > conn.last + 1
    /\ SendLatest([conn EXCEPT !.next = IF Lagged THEN Oldest ELSE @ + 1])
    /\ UNCHANGED <<publisher, browser, asked, connections>>

(* Seeded fault: only the counters are looked at.                           *)
CountersDiffer == FALSE

(* snapshots.changed(): a revision that is one ahead is left to its patch.  *)
VolatileChange == revision = conn.last /\ conn.known # state
SkippedState   == revision > conn.last + 1

SnapshotChanged ==
    /\ conn.phase = "idle" /\ conn.fresh
    /\ \/ /\ VolatileChange \/ SkippedState
          /\ SendLatest(conn)
       \/ /\ ~(VolatileChange \/ SkippedState)
          /\ conn' = [conn EXCEPT !.fresh = FALSE]
          /\ UNCHANGED wire
    /\ UNCHANGED <<publisher, browser, asked, connections>>

(* The actor has answered request_snapshot; the snapshot is read after the  *)
(* answer is sent.                                                          *)
SendAnswer ==
    /\ conn.phase = "idle" /\ asked = "sent" /\ Room
    /\ asked' = "answered"
    /\ wire' = Append(wire, Answer(conn.last))
    /\ conn' = [conn EXCEPT !.phase = "answer"]
    /\ UNCHANGED <<publisher, browser, connections>>

(* Seeded fault: the answer is taken for the snapshot.                      *)
AnswerOnly ==
    /\ conn.phase = "answer"
    /\ conn' = [conn EXCEPT !.phase = "idle"]
    /\ UNCHANGED <<publisher, wire, browser, asked, connections>>

SendAskedSnapshot ==
    /\ conn.phase = "answer"
    /\ SendLatest(conn)
    /\ UNCHANGED <<publisher, browser, asked, connections>>

(* The socket breaks.  The request that was not answered stays pending in   *)
(* the browser and is sent again once it is synchronized.                   *)
Disconnect ==
    /\ conn.phase # "closed"
    /\ conn' = NoConnection
    /\ wire' = <<>>
    /\ browser' = [browser EXCEPT !.phase = "disconnected"]
    /\ asked' = IF asked = "no" THEN "no" ELSE "unsent"
    /\ UNCHANGED <<publisher, connections>>

-----------------------------------------------------------------------------
(* The browser.                                                            *)

Ask(a) == IF a = "no" THEN "sent" ELSE a

(* markSynchronized sends again what is pending.                            *)
Synchronized(a) == IF a = "unsent" THEN "sent" ELSE a

TakeHello(m) ==
    /\ m.kind = "hello"
    /\ browser' = [browser EXCEPT !.phase = "awaiting_snapshot", !.hello = m.rev]
    /\ UNCHANGED asked

(* The reducer refuses a first snapshot that is behind the hello, and       *)
(* leaves a later one that is older than its state aside.                   *)
TakeSnapshot(m) ==
    /\ m.kind = "snapshot"
    /\ \/ /\ browser.phase = "awaiting_snapshot" /\ m.rev < browser.hello
          /\ browser' = [browser EXCEPT !.phase = "stale"]
          /\ asked' = Ask(asked)
       \/ /\ browser.phase \in {"live", "stale"} /\ m.rev < browser.rev
          /\ asked' = IF browser.phase = "live" THEN Synchronized(asked)
                                                ELSE asked
          /\ UNCHANGED browser
       \/ /\ \/ browser.phase = "awaiting_snapshot" /\ m.rev >= browser.hello
             \/ browser.phase \in {"live", "stale"} /\ m.rev >= browser.rev
          /\ browser' = [browser EXCEPT !.phase = "live", !.view = m.state,
                                        !.rev = m.rev]
          /\ asked' = Synchronized(asked)

(* Patches are of no use to a stale browser: it asks for a snapshot.        *)
TakePatch(m) ==
    /\ m.kind = "patch"
    /\ \/ /\ browser.phase = "live" /\ m.rev = browser.rev + 1
          /\ browser' = [browser EXCEPT !.view = Apply(@, m.changes),
                                        !.rev = m.rev]
          /\ asked' = Synchronized(asked)
       \/ /\ browser.phase = "live" /\ m.rev <= browser.rev
          /\ asked' = Synchronized(asked)
          /\ UNCHANGED browser
       \/ /\ browser.phase # "live" \/ m.rev > browser.rev + 1
          /\ browser' = [browser EXCEPT !.phase = "stale"]
          /\ asked' = Ask(asked)

TakeAnswer(m) ==
    /\ m.kind = "answer"
    /\ asked' = "no"
    /\ UNCHANGED browser

Receive ==
    /\ wire # <<>>
    /\ wire' = Tail(wire)
    /\ \/ TakeHello(Head(wire)) \/ TakeSnapshot(Head(wire))
       \/ TakePatch(Head(wire)) \/ TakeAnswer(Head(wire))
    /\ UNCHANGED <<publisher, conn, connections>>

(* A command came back with stale_revision, or the revision of a response   *)
(* has not been seen for a while: there has been more than one revision.    *)
Doubt ==
    /\ browser.phase = "live" /\ revision > 0
    /\ browser' = [browser EXCEPT !.phase = "stale"]
    /\ asked' = Ask(asked)
    /\ UNCHANGED <<publisher, conn, wire, connections>>

(* The timer of a stale browser, and the probe of an idle one.              *)
RequestSnapshot ==
    /\ browser.phase \in {"live", "stale"} /\ asked = "no"
    /\ asked' = "sent"
    /\ UNCHANGED <<publisher, conn, wire, browser, connections>>

-----------------------------------------------------------------------------
Publisher == \/ \E s \in States : PublishVolatile(s) \/ PublishRevision(s)
             \/ BroadcastPatch

Connection == \/ Greet \/ SkipPatch \/ RelayPatch \/ CheckPatched \/ RecoverLag
              \/ SnapshotChanged \/ SendAnswer \/ SendAskedSnapshot

Next == \/ Publisher \/ Connection \/ Connect \/ Disconnect
        \/ Receive \/ Doubt \/ RequestSnapshot

Spec == Init /\ [][Next]_vars

(* The connection's task and the browser keep running, and select! is not   *)
(* biased: each of its branches gets its turn.  A stale browser's timer     *)
(* fires.  Nothing is assumed of publications, breaks and reconnects.       *)
Fairness ==
    /\ WF_vars(BroadcastPatch)
    /\ WF_vars(Greet) /\ WF_vars(SkipPatch) /\ WF_vars(RelayPatch)
    /\ WF_vars(CheckPatched) /\ WF_vars(RecoverLag) /\ WF_vars(SendAskedSnapshot)
    /\ SF_vars(SnapshotChanged) /\ SF_vars(SendAnswer)
    /\ WF_vars(Receive)
    /\ WF_vars(browser.phase = "stale" /\ RequestSnapshot)

FairSpec == Spec /\ Fairness

-----------------------------------------------------------------------------
(* What must hold.                                                         *)

ConnPhases    == {"closed", "subscribed", "idle", "check", "answer"}
BrowserPhases == {"disconnected", "awaiting_hello", "awaiting_snapshot", "live",
                  "stale"}

(* The shape of the state; the wire never holds more than the socket takes. *)
TypeOK ==
    /\ state \in States /\ revision \in Revisions
    /\ patches \in Seq(Changes) /\ Len(patches) = revision
    /\ history \in Seq(States) /\ Len(history) = revision + 1
    /\ broadcast \in 0 .. revision
    /\ conn \in [phase : ConnPhases, next : 1 .. revision + 1, fresh : BOOLEAN,
                 last : 0 .. revision, known : States \cup {NoState},
                 patched : States \cup {NoState}]
    /\ wire \in Seq(Messages) /\ Len(wire) <= WireCapacity
    /\ browser \in [phase : BrowserPhases, hello : Revisions,
                    view : States \cup {NoState}, rev : Revisions]
    /\ asked \in {"no", "unsent", "sent", "answered"}
    /\ connections \in 0 .. MaxConnections

(* Whatever patches and snapshots were lost, skipped or overrun, what the   *)
(* browser shows as revision r means what the actor published as revision   *)
(* r: a command that is admitted at r is a command about what the user saw. *)
ViewIsRevision ==
    browser.view # NoState =>
        \A x \in Sections \ Volatile :
            browser.view[x] = history[browser.rev + 1][x]

(* A patch that reaches a synchronized browser is the one that follows its  *)
(* state: the reducer's answers to gaps and repeated patches are not needed *)
(* on a connection that works.                                              *)
PatchFollows ==
    browser.phase = "live" /\ wire # <<>> /\ Head(wire).kind = "patch" =>
        Head(wire).rev = browser.rev + 1

(* The mirror implements its promise: the browser is shown published        *)
(* revisions, whole, and never an earlier one after a later one, across     *)
(* breaks and reconnects too.                                               *)
Meaning(s) == [x \in Sections \ Volatile |-> s[x]]

Promise == INSTANCE MirrorPromise WITH
    Contents  <- [Sections \ Volatile -> Values],
    Nothing   <- NoState,
    published <- [r \in 1 .. Len(history) |-> Meaning(history[r])],
    shown     <- [rev |-> browser.rev,
                  contents |-> IF browser.view = NoState
                               THEN NoState ELSE Meaning(browser.view)]

KeepsPromise == Promise!Spec

(* When the actor stops publishing, a connected browser comes to show the   *)
(* whole state, volatile sections included.                                 *)
CaughtUp ==
    <>[][state' = state]_vars =>
        <>[](conn.phase = "closed" \/ browser.view = state)

(* A browser that doubts its state is synchronized again, or disconnected.  *)
LiveAgain == browser.phase = "stale" ~> browser.phase # "stale"
=============================================================================
