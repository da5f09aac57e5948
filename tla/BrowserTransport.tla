---------------------------- MODULE BrowserTransport ----------------------------
(* How the browser gets and keeps a connection: authentication, reconnects, *)
(* the timers that watch a socket, the network's and the page's comings and *)
(* goings (web/src/transport.ts), and the phase of the state that the page  *)
(* shows (web/src/app.tsx, web/src/protocol.ts).                            *)
EXTENDS Naturals

CONSTANTS
    Modes,           \* how pages authenticate: by a session, by a token
    RefreshInterval, \* SESSION_REAUTHENTICATION_PREOPEN_FAILURE_INTERVAL
    MaxEpochs        \* bound: Lethetic processes that are started

ASSUME TransportAssumption == /\ Modes \subseteq {"session", "token"}
                              /\ RefreshInterval \in Nat \ {0}
                              /\ MaxEpochs \in Nat \ {0}

(* "aborting" is a socket that is closed before it was open.                 *)
SocketStates == {"none", "connecting", "open", "closing", "aborting"}
SocketTimers == {"sync", "stale", "liveness", "response"}
Timers == SocketTimers \union {"reconnect"}
Actions == {"connect", "session_auth", "token_auth"}
Phases == {"disconnected", "hello", "snapshot", "live", "stale", "incompatible"}

(* A request for a snapshot: the application's, or the liveness check's.     *)
Probes == {"none", "app", "liveness"}

VARIABLES
    mode,    \* authenticationMode
    b,       \* the transport and the application of the page
    world,   \* the network, the server, and whether they behave from now on
    history  \* for the properties

vars == <<mode, b, world, history>>

Init ==
    /\ mode \in Modes
    /\ b = [socket |-> "none", mute |-> FALSE, timers |-> {},
            synced |-> FALSE, hello |-> FALSE, probe |-> "none", sent |-> FALSE,
            proof |-> 0, opened |-> FALSE, failures |-> 0, token |-> mode = "token",
            action |-> "connect", asking |-> TRUE, closed |-> FALSE,
            suspended |-> FALSE, phase |-> "disconnected", wait |-> FALSE,
            lag |-> FALSE]
    /\ world = [online |-> TRUE, server |-> 1, calm |-> FALSE, owed |-> FALSE]
    /\ history = [barred |-> FALSE, refused |-> FALSE, cause |-> FALSE,
                  late |-> FALSE]

-----------------------------------------------------------------------------
(* What handlers do to the page.  An operator named for several outcomes is  *)
(* the set of them.                                                          *)

(* transportStatus with "reconnecting" or "offline".                         *)
Down(x) ==
    [x EXCEPT !.phase = IF @ = "incompatible" THEN @ ELSE "disconnected"]

Unwatched(x) == [x EXCEPT !.timers = @ \ SocketTimers]

(* socket.close().                                                           *)
CloseSocket(x) ==
    [x EXCEPT !.socket = CASE @ = "connecting" -> "aborting"
                           [] @ = "open"       -> "closing"
                           [] OTHER            -> @]

Schedule(x, action) ==
    LET y == [x EXCEPT !.action = IF action = "connect" THEN @ ELSE action] IN
    IF y.closed \/ y.suspended \/ "reconnect" \in y.timers
    THEN y
    ELSE Down([y EXCEPT !.timers = @ \union {"reconnect"}])

(* The constructor of the socket may throw.                                  *)
ConnectOutcomes(x, online) ==
    IF x.closed \/ x.suspended \/ ~online
    THEN {IF online THEN x ELSE Down(x)}
    ELSE IF x.proof = 0
    THEN {x}
    ELSE LET y == Down([x EXCEPT !.socket = "none", !.mute = FALSE, !.timers = {},
                                 !.synced = FALSE, !.hello = FALSE, !.sent = FALSE])
         IN {[y EXCEPT !.socket = "connecting"]}
            \union (IF world.calm THEN {} ELSE {Schedule(y, "connect")})

AuthAction == IF mode = "session" THEN "session_auth" ELSE "token_auth"

Authenticate(x) ==
    IF mode = "token" /\ ~x.token
    THEN x
    ELSE [x EXCEPT !.asking = TRUE, !.timers = @ \ {"reconnect"}]

ReconnectOutcomes(x) ==
    LET y == [x EXCEPT !.action = "connect"] IN
    IF x.action = "connect" THEN ConnectOutcomes(y, TRUE) ELSE {Authenticate(y)}

MarkSynchronized(x) ==
    IF x.socket # "open"
    THEN x
    ELSE [x EXCEPT
             !.synced = TRUE,
             !.action = "connect",
             !.sent = x.probe # "none",
             !.timers = (@ \ {"sync", "stale"}) \union
                           {IF x.probe = "liveness" THEN "response" ELSE "liveness"}]

(* Seeded fault: the recovery has no deadline.                               *)
StaleForGood(x) == [x EXCEPT !.synced = FALSE, !.timers = @ \ {"liveness"}]

MarkStale(x) ==
    [x EXCEPT !.synced = FALSE,
              !.timers = (@ \ {"liveness"}) \union
                            (IF x.socket = "open" THEN {"stale"} ELSE {})]

(* The application's #requestSnapshot.  With MAX_IN_FLIGHT commands pending   *)
(* nothing is sent.                                                          *)
AskOutcomes(x) ==
    LET y == [MarkStale(x) EXCEPT !.wait = TRUE]
        mayAsk == y.probe = "none" /\ y.hello /\ y.socket = "open"
    IN {[y EXCEPT !.probe = IF mayAsk /\ ~full THEN "app" ELSE @,
                  !.sent = (mayAsk /\ ~full) \/ @]
          : full \in IF world.calm THEN {FALSE} ELSE BOOLEAN}

DoubtOutcomes(x) == AskOutcomes([x EXCEPT !.phase = "stale"])

(* noteServerActivity: any message puts off the liveness check.              *)
Heard(x) ==
    [x EXCEPT !.timers = IF x.synced /\ x.probe # "liveness"
                         THEN @ \union {"liveness"} ELSE @]

(* protocolFault, and the close of the socket that follows it.               *)
FaultOutcomes(x) ==
    {CloseSocket(y) : y \in IF x.phase = "live" THEN DoubtOutcomes(x) ELSE {x}}

(* What closePermanently and a page that goes away for good have in common.  *)
Forget(x) ==
    [x EXCEPT !.closed = TRUE, !.suspended = FALSE, !.synced = FALSE,
              !.asking = FALSE, !.timers = {}, !.proof = 0, !.token = FALSE,
              !.probe = IF @ = "none" THEN @ ELSE "app",
              !.action = "connect", !.opened = FALSE, !.failures = 0,
              !.socket = "none"]

ClosePermanently(x) == [Forget(x) EXCEPT !.phase = "incompatible"]

Usable == b.socket = "open" /\ ~b.mute
Foul == ~world.calm

-----------------------------------------------------------------------------
(* Authentication.                                                           *)

(* A new proof is another process's: what was sent to the last one is given  *)
(* up, and the application starts over (authenticationEpochChanged).         *)
Abandon(x) ==
    [Unwatched(x) EXCEPT !.probe = "none", !.synced = FALSE, !.hello = FALSE,
                         !.phase = "disconnected", !.wait = FALSE, !.lag = FALSE]

Granted(x, proof) ==
    LET y == IF mode = "session" /\ x.proof \notin {0, proof} THEN Abandon(x) ELSE x
        z == IF mode = "session" THEN [y EXCEPT !.opened = FALSE, !.failures = 0] ELSE y
    IN [z EXCEPT !.asking = FALSE, !.token = FALSE, !.proof = proof]

(* A token is good for the process that printed it.  The answer may be that  *)
(* of a process that has ended since.                                        *)
AuthAccepted ==
    /\ b.asking
    /\ \E proof \in (IF Foul THEN 1 .. world.server ELSE {world.server}) :
           /\ mode = "token" => proof = 1
           /\ b' \in ConnectOutcomes(Granted(b, proof), world.online)
    /\ history' = [history EXCEPT !.refused = FALSE]
    /\ UNCHANGED <<mode, world>>

(* No answer in time, no connection, 5xx, or 429 with a time to wait.        *)
AuthFailed ==
    /\ b.asking
    /\ Foul
    /\ b' = Schedule([b EXCEPT !.asking = FALSE], AuthAction)
    /\ \E wait \in BOOLEAN : history' = [history EXCEPT !.barred = wait]
    /\ UNCHANGED <<mode, world>>

AuthRefused ==
    /\ b.asking
    /\ Foul \/ (mode = "token" /\ world.server # 1)
    /\ b' = [b EXCEPT !.asking = FALSE, !.token = FALSE]
    /\ history' = [history EXCEPT !.refused = TRUE]
    /\ UNCHANGED <<mode, world>>

-----------------------------------------------------------------------------
(* The socket.                                                               *)

(* beginRemoteConnection.  Seeded fault: the page waits for no hello.        *)
NotBegun(x) == x
Begun(x) == [x EXCEPT !.phase = "hello"]

SocketOpens ==
    /\ b.socket = "connecting"
    /\ b.proof = world.server
    /\ b' = [Begun(b) EXCEPT
                      !.socket = "open",
                      !.timers = @ \union {"sync"},
                      !.opened = @ \/ mode = "session",
                      !.failures = IF mode = "session" THEN 0 ELSE @]
    /\ history' = [history EXCEPT !.refused = FALSE, !.late = FALSE]
    /\ UNCHANGED <<mode, world>>

(* The server did not echo the proof.                                        *)
ProofMismatch ==
    /\ b.socket = "connecting"
    /\ Foul
    /\ b' \in FaultOutcomes([b EXCEPT !.socket = "open"])
    /\ UNCHANGED <<mode, world, history>>

(* preopenReconnectAction.  Past the interval the counter stands still here. *)
(* Seeded faults: the bound is off by one; a proof is never refreshed.       *)
CountedTooFar(x) == IF x.failures <= RefreshInterval THEN x.failures + 1 ELSE x.failures
Counted(x) == IF x.failures < RefreshInterval THEN x.failures + 1 ELSE x.failures

Trusted(x) == FALSE
Doubtful(x) == x.opened \/ Counted(x) = RefreshInterval

AfterFailure(x) ==
    IF mode = "token"
    THEN Schedule(x, "connect")
    ELSE Schedule([x EXCEPT !.failures = Counted(x)],
                  IF Doubtful(x) THEN "session_auth" ELSE "connect")

(* The close event: whatever the browser or the other side has closed, and   *)
(* sockets that fail.                                                        *)
SocketClosed ==
    /\ \/ b.socket \in {"closing", "aborting"}
       \/ b.socket \in {"connecting", "open"} /\ (Foul \/ b.proof # world.server)
    /\ LET x == [Unwatched(b) EXCEPT !.socket = "none", !.synced = FALSE, !.hello = FALSE]
       IN b' = IF b.socket \in {"connecting", "aborting"} THEN AfterFailure(x)
               ELSE Schedule(x, "connect")
    /\ world' = [world EXCEPT !.owed = FALSE]
    /\ UNCHANGED <<mode, history>>

(* A send finds the socket full or broken.                                   *)
Clog ==
    /\ b.socket = "open"
    /\ Foul
    /\ b' = CloseSocket(b)
    /\ UNCHANGED <<mode, world, history>>

-----------------------------------------------------------------------------
(* Messages.  The server sends a hello first, then a snapshot, then patches  *)
(* and snapshots, and an answer to each request.                             *)

TakeHello ==
    /\ Usable
    /\ ~b.hello
    /\ \E good \in BOOLEAN :
           /\ ~good => Foul
           /\ b' = IF good /\ b.phase = "hello"
                   THEN [b EXCEPT !.phase = "snapshot", !.hello = TRUE]
                   ELSE ClosePermanently(b)
           /\ history' = [history EXCEPT !.cause = @ \/ ~good]
    /\ world' = [world EXCEPT !.owed = TRUE]
    /\ UNCHANGED mode

Shows(x) == [MarkSynchronized([x EXCEPT !.phase = "live"]) EXCEPT !.wait = FALSE]

TakeSnapshot ==
    /\ Usable
    /\ b.hello
    /\ b' = Shows(Heard(b))
    /\ world' = [world EXCEPT !.owed = FALSE]
    /\ UNCHANGED <<mode, history>>

(* A snapshot or a patch that does not fit, or is malformed within.          *)
TakePatch ==
    /\ Usable
    /\ b.hello
    /\ b.phase \in {"live", "stale"}
    /\ \/ /\ b.phase = "live"
          /\ b' = Shows(Heard(b))
       \/ /\ b.phase = "stale" \/ Foul
          /\ b' \in DoubtOutcomes(Heard(b))
    /\ UNCHANGED <<mode, world, history>>

TakeNonsense ==
    /\ Usable
    /\ Foul
    /\ \/ b' \in FaultOutcomes(b) /\ UNCHANGED history
       \/ b' = ClosePermanently(b) /\ history' = [history EXCEPT !.cause = TRUE]
    /\ UNCHANGED <<mode, world>>

(* The answer to the request for a snapshot.  Unless it is an error the      *)
(* snapshot follows.                                                         *)
TakeProbeAnswer ==
    /\ Usable
    /\ b.probe # "none"
    /\ b.sent
    /\ LET x == [Heard(b) EXCEPT !.probe = "none", !.sent = FALSE,
                                 !.timers = IF b.probe = "liveness" THEN @ \ {"response"} ELSE @]
           y == IF b.probe = "liveness" /\ b.synced
                THEN [x EXCEPT !.timers = @ \union {"liveness"}] ELSE x
       IN \/ b' = y /\ world' = [world EXCEPT !.owed = TRUE]
          \/ Foul /\ b' = y /\ UNCHANGED world
          \/ Foul /\ b.probe = "app" /\ b' \in DoubtOutcomes(y) /\ UNCHANGED world
    /\ UNCHANGED <<mode, history>>

(* A command's answer: at a revision that the page will be shown soon, or    *)
(* one that says that the page is behind.                                    *)
TakeAnswer ==
    /\ Usable
    /\ Foul
    /\ b.hello
    /\ b.phase \in {"live", "stale"}
    /\ \/ b' = [Heard(b) EXCEPT !.lag = TRUE]
       \/ b' \in DoubtOutcomes(Heard(b))
    /\ UNCHANGED <<mode, world, history>>

-----------------------------------------------------------------------------
(* Timers.  When everything behaves, the answer is there before them.        *)

Fires(t) ==
    /\ t \in b.timers
    /\ UNCHANGED mode

ReconnectTimer ==
    /\ Fires("reconnect")
    /\ UNCHANGED world
    /\ LET x == [b EXCEPT !.timers = @ \ {"reconnect"}] IN
       b' \in IF ~world.online THEN {Down(x)}
              ELSE IF x.suspended \/ x.closed THEN {x}
              ELSE ReconnectOutcomes(x)
    /\ history' = [history EXCEPT !.barred = FALSE]

(* The server has something to send that ends the wait.                      *)
Coming == world.owed \/ (b.probe # "none" /\ b.sent) \/ ~b.hello

RecoveryTimer(t) ==
    /\ t \in {"sync", "stale", "response"}
    /\ Fires(t)
    /\ Foul \/ b.mute \/ b.socket # "open" \/ ~Coming
    /\ LET x == [b EXCEPT !.timers = @ \ {t}] IN
       b' \in CASE t = "sync" /\ ~x.synced -> FaultOutcomes(x)
                [] t = "stale" /\ ~x.synced -> {CloseSocket(x)}
                [] t = "response" /\ x.probe = "liveness" -> {CloseSocket(x)}
                [] OTHER -> {x}
    /\ UNCHANGED <<world, history>>

LivenessTimer ==
    /\ Fires("liveness")
    /\ LET x == [b EXCEPT !.timers = @ \ {"liveness"}]
           asked == [x EXCEPT !.probe = "liveness", !.sent = TRUE,
                              !.timers = @ \union {"response"}]
       IN b' \in IF x.socket # "open" \/ ~x.synced THEN {x}
                 ELSE IF x.probe # "none" THEN {CloseSocket(x)}
                 ELSE {asked} \union (IF Foul THEN {CloseSocket(x)} ELSE {})
    /\ UNCHANGED <<world, history>>

(* The application's own: two seconds after it asked for a snapshot, and     *)
(* 900 ms after an answer at a revision that it has not seen.                *)
SnapshotWaitTimer ==
    /\ b.wait
    /\ LET x == [b EXCEPT !.wait = FALSE] IN
       b' \in IF x.phase = "stale" THEN AskOutcomes(x) ELSE {x}
    /\ UNCHANGED <<mode, world, history>>

RevisionLagTimer ==
    /\ b.lag
    /\ LET x == [b EXCEPT !.lag = FALSE] IN b' \in {x} \union DoubtOutcomes(x)
    /\ history' = [history EXCEPT !.late = @ \/ (b.phase = "hello" /\ b'.phase = "stale")]
    /\ UNCHANGED <<mode, world>>

-----------------------------------------------------------------------------
(* The network, the page and the server.                                     *)

(* Seeded faults: a request under way, or a scheduled retry, is not looked   *)
(* at.                                                                       *)
UnderwayOrRetried(x) == x.socket # "none" \/ "reconnect" \in x.timers
UnderwayByNow(x)     == x.socket # "none" \/ x.asking
Underway(x) == x.socket # "none" \/ x.asking \/ "reconnect" \in x.timers

(* The event may also come when the network was there before.                *)
GoOnline ==
    /\ world' = [world EXCEPT !.online = TRUE]
    /\ b' \in IF b.closed \/ b.suspended \/ Underway(b)
              THEN {b} ELSE ReconnectOutcomes(b)
    /\ UNCHANGED <<mode, history>>

(* An authentication under way is aborted, which ends it at once.            *)
GoOffline ==
    /\ world.online
    /\ Foul
    /\ world' = [world EXCEPT !.online = FALSE]
    /\ LET x == Down(CloseSocket([Unwatched(b) EXCEPT !.synced = FALSE])) IN
       b' = IF x.asking THEN Schedule([x EXCEPT !.asking = FALSE], AuthAction) ELSE x
    /\ UNCHANGED <<mode, history>>

Interrupted(x) ==
    [x EXCEPT !.action = IF x.asking THEN AuthAction ELSE @, !.asking = FALSE]

(* The page goes into the back/forward cache, or for good.                   *)
PageHide ==
    /\ ~b.suspended
    /\ Foul
    /\ \/ b' = Down([Unwatched(Interrupted(b)) EXCEPT
                        !.suspended = TRUE, !.synced = FALSE, !.socket = "none"])
       \/ b' = Forget(b)
    /\ world' = [world EXCEPT !.owed = FALSE]
    /\ history' = [history EXCEPT !.barred = @ /\ ~b'.closed]
    /\ UNCHANGED mode

PageShow ==
    /\ b.suspended
    /\ ~b.closed
    /\ LET x == Down([b EXCEPT !.suspended = FALSE]) IN
       b' \in IF ~world.online \/ "reconnect" \in x.timers \/ x.asking
              THEN {x} ELSE ReconnectOutcomes(x)
    /\ UNCHANGED <<mode, world, history>>

(* The other side is lost without a word; with a restart, so are the proofs. *)
Lose ==
    /\ Foul
    /\ b' = [b EXCEPT !.mute = b.socket = "open"]
    /\ \/ UNCHANGED world
       \/ /\ world.server < MaxEpochs
          /\ world' = [world EXCEPT !.server = @ + 1, !.owed = FALSE]
    /\ UNCHANGED <<mode, history>>

(* From now on the network, the server and the user do no harm.              *)
Calm ==
    /\ world.online
    /\ ~b.suspended
    /\ world' = [world EXCEPT !.calm = TRUE]
    /\ UNCHANGED <<mode, b, history>>

-----------------------------------------------------------------------------

Next ==
    \/ AuthAccepted \/ AuthFailed \/ AuthRefused
    \/ SocketOpens \/ ProofMismatch \/ SocketClosed \/ Clog
    \/ TakeHello \/ TakeSnapshot \/ TakePatch \/ TakeNonsense
    \/ TakeProbeAnswer \/ TakeAnswer
    \/ ReconnectTimer \/ LivenessTimer \/ SnapshotWaitTimer \/ RevisionLagTimer
    \/ \E t \in SocketTimers : RecoveryTimer(t)
    \/ GoOnline \/ GoOffline \/ PageHide \/ PageShow \/ Lose \/ Calm

Spec == Init /\ [][Next]_vars

(* Timers run out, sockets and requests end, and what the server has sent    *)
(* arrives; a server that behaves sends a hello, a first snapshot and the    *)
(* snapshots that it was asked for.                                          *)
Fairness ==
    /\ WF_vars(AuthAccepted \/ AuthFailed \/ AuthRefused)
    /\ WF_vars(SocketOpens)
    /\ WF_vars(SocketClosed /\ b.socket # "open")
    /\ WF_vars(TakeHello)
    /\ WF_vars(TakeSnapshot /\ world.owed)
    /\ WF_vars(TakeProbeAnswer)
    /\ WF_vars(ReconnectTimer) /\ WF_vars(LivenessTimer)
    /\ WF_vars(SnapshotWaitTimer) /\ WF_vars(RevisionLagTimer)
    /\ \A t \in SocketTimers : WF_vars(RecoveryTimer(t))

FairSpec == Spec /\ Fairness

-----------------------------------------------------------------------------

(* A page, as TypeOK and the lemmas about its operations want it.           *)
Page ==
    [socket : SocketStates, mute : BOOLEAN, timers : SUBSET Timers,
     synced : BOOLEAN, hello : BOOLEAN, probe : Probes, sent : BOOLEAN,
     proof : 0 .. MaxEpochs, opened : BOOLEAN, failures : 0 .. RefreshInterval,
     token : BOOLEAN, action : Actions, asking : BOOLEAN, closed : BOOLEAN,
     suspended : BOOLEAN, phase : Phases, wait : BOOLEAN, lag : BOOLEAN]

(* The state of the page, the world and the observations is well formed.     *)
TypeOK ==
    /\ mode \in Modes
    /\ b \in Page
    /\ world \in [online : BOOLEAN, server : 1 .. MaxEpochs, calm : BOOLEAN,
                  owed : BOOLEAN]
    /\ history \in [barred : BOOLEAN, refused : BOOLEAN, cause : BOOLEAN,
                    late : BOOLEAN]

(* One way to a connection at a time: while an authentication is under way   *)
(* there is no socket and no retry is scheduled, and while a retry is        *)
(* scheduled there is no socket (#connectionWorkInFlight, #handleOnline).    *)
OneAttempt ==
    /\ b.asking => b.socket = "none" /\ "reconnect" \notin b.timers
    /\ "reconnect" \in b.timers => b.socket = "none"

(* A page that is shown and has the network is never asleep: whatever order  *)
(* sockets, timers, the network and the back/forward cache fail and return   *)
(* in, something is under way that ends in a socket, unless the server has   *)
(* refused the page's authentication (#handlePageShow, #handleOnline).       *)
Woken ==
    world.online /\ ~b.closed /\ ~b.suspended /\ ~history.refused =>
        b.socket # "none" \/ b.asking \/ "reconnect" \in b.timers

(* And a socket that is open is watched: a timer runs that replaces it when  *)
(* the answer does not come (#armLivenessTimer, #armStaleRecoveryTimer).     *)
Watched ==
    b.socket = "open" =>
        b.timers \intersect (IF b.synced THEN {"liveness", "response"}
                                        ELSE {"sync", "stale"}) # {}

(* Both together: there is no state that a page only leaves when the user    *)
(* reloads it.                                                               *)
Attended == Woken /\ Watched

(* The transport takes itself for synchronized exactly when the page shows   *)
(* a live state: the two keep their own flags (markSynchronized, markStale). *)
Agree == ~b.closed => (b.synced <=> b.phase = "live")

(* A time to wait that the server has asked for is kept, whatever comes and  *)
(* goes in the meantime (retryAfterMilliseconds).        *)
RetryAfterKept == history.barred => ~b.asking /\ b.socket = "none"

(* A page gives its controls up for good only for what the server has sent,  *)
(* or, which is a defect, when the lag timer of the last connection made the *)
(* state of the next one stale before its hello (#scheduleRevisionLag).      *)
ClosedForCause == b.phase = "incompatible" => history.cause \/ history.late

(* A token is not good for another process, and its proof is not either.     *)
Lost == mode = "token" /\ b.proof \notin {0, world.server}

(* When the network and the server behave, a page that is shown comes to     *)
(* show a live state, from whatever state they left it in, also from a       *)
(* socket whose other side is gone.                                          *)
Recovers ==
    world.calm ~> b.phase = "live" \/ b.closed \/ history.refused \/ Lost
=============================================================================
