------------------------ MODULE BrowserTransportProofs ------------------------
(* Theorems about BrowserTransport, for every value of its constants.       *)
EXTENDS BrowserTransport, TLAPS

(* What a handler leaves alone: every field but those of F.                  *)
Keeps(x, y, F) ==
    /\ "socket"    \notin F => y.socket = x.socket
    /\ "mute"      \notin F => y.mute = x.mute
    /\ "timers"    \notin F => y.timers = x.timers
    /\ "synced"    \notin F => y.synced = x.synced
    /\ "hello"     \notin F => y.hello = x.hello
    /\ "probe"     \notin F => y.probe = x.probe
    /\ "sent"      \notin F => y.sent = x.sent
    /\ "proof"     \notin F => y.proof = x.proof
    /\ "opened"    \notin F => y.opened = x.opened
    /\ "failures"  \notin F => y.failures = x.failures
    /\ "token"     \notin F => y.token = x.token
    /\ "action"    \notin F => y.action = x.action
    /\ "asking"    \notin F => y.asking = x.asking
    /\ "closed"    \notin F => y.closed = x.closed
    /\ "suspended" \notin F => y.suspended = x.suspended
    /\ "phase"     \notin F => y.phase = x.phase
    /\ "wait"      \notin F => y.wait = x.wait
    /\ "lag"       \notin F => y.lag = x.lag


LEMMA DownDoes ==
    ASSUME NEW x \in Page
    PROVE  /\ Down(x) \in Page
           /\ Keeps(x, Down(x), {"phase"})
           /\ Down(x).phase = IF x.phase = "incompatible" THEN x.phase ELSE "disconnected"
  BY DEF Down, Page, Keeps, Phases

LEMMA UnwatchedDoes ==
    ASSUME NEW x \in Page
    PROVE  /\ Unwatched(x) \in Page
           /\ Keeps(x, Unwatched(x), {"timers"})
           /\ Unwatched(x).timers = x.timers \ SocketTimers
  BY DEF Unwatched, Page, Keeps

LEMMA MarkStaleDoes ==
    ASSUME NEW x \in Page
    PROVE  /\ MarkStale(x) \in Page
           /\ Keeps(x, MarkStale(x), {"timers", "synced"})
           /\ ~MarkStale(x).synced
           /\ MarkStale(x).timers = (x.timers \ {"liveness"}) \union
                            (IF x.socket = "open" THEN {"stale"} ELSE {})
  BY DEF MarkStale, Page, Keeps, Timers, SocketTimers

LEMMA AskDoes ==
    ASSUME NEW x \in Page, NEW y \in AskOutcomes(x)
    PROVE  /\ y \in Page
           /\ Keeps(x, y, {"timers", "synced", "wait", "probe", "sent"})
           /\ ~y.synced
           /\ y.timers = MarkStale(x).timers
           /\ \/ y.probe = x.probe /\ y.sent = x.sent
              \/ x.probe = "none" /\ x.hello /\ x.socket = "open" /\ y.probe = "app"
  <1> DEFINE z == [MarkStale(x) EXCEPT !.wait = TRUE]
             may == z.probe = "none" /\ z.hello /\ z.socket = "open"
             P(full) == IF may /\ ~full THEN "app" ELSE z.probe
             S(full) == (may /\ ~full) \/ z.sent
  <1>1. /\ z \in Page
        /\ Keeps(MarkStale(x), z, {"wait"})
    BY MarkStaleDoes DEF Page, Keeps
  <1>2. PICK full \in BOOLEAN :
            y = [z EXCEPT !.probe = P(full), !.sent = S(full)]
    BY Zenon DEF AskOutcomes
  <1>3. P(full) \in Probes /\ S(full) \in BOOLEAN
    BY <1>1 DEF Page, Probes
  <1>4. z.probe = x.probe /\ z.sent = x.sent /\ z.hello = x.hello /\ z.socket = x.socket
    BY <1>1, MarkStaleDoes DEF Keeps
  <1>5. \/ P(full) = "app" /\ S(full) /\ may
        \/ P(full) = z.probe /\ S(full) = z.sent
    BY <1>1 DEF Page
  <1> HIDE DEF z, P, S, may
  <1>6. /\ y \in Page
        /\ Keeps(z, y, {"probe", "sent"})
        /\ y.probe = P(full)
        /\ y.sent = S(full)
    BY <1>1, <1>2, <1>3 DEF Page, Keeps
  <1>7. Keeps(x, y, {"timers", "synced", "wait", "probe", "sent"})
    BY <1>1, <1>6, MarkStaleDoes DEF Keeps
  <1>8. ~y.synced /\ y.timers = MarkStale(x).timers
    BY <1>1, <1>6, MarkStaleDoes DEF Keeps
  <1>9. \/ y.probe = x.probe /\ y.sent = x.sent
        \/ x.probe = "none" /\ x.hello /\ x.socket = "open" /\ y.probe = "app"
    BY Zenon, <1>4, <1>5, <1>6 DEF may
  <1> QED
    BY <1>6, <1>7, <1>8, <1>9

DownPhase(p) == IF p = "incompatible" THEN p ELSE "disconnected"

LEMMA CloseSocketDoes ==
    ASSUME NEW x \in Page
    PROVE  /\ CloseSocket(x) \in Page
           /\ Keeps(x, CloseSocket(x), {"socket"})
           /\ CloseSocket(x).socket \notin {"open", "connecting"}
           /\ CloseSocket(x).socket = "none" <=> x.socket = "none"
           /\ CloseSocket(x).socket = "closing" <=> x.socket \in {"open", "closing"}
  <1> DEFINE k == CASE x.socket = "connecting" -> "aborting"
                    [] x.socket = "open"       -> "closing"
                    [] OTHER                   -> x.socket
  <1>1. /\ k \in SocketStates
        /\ k \notin {"open", "connecting"}
        /\ k = "none" <=> x.socket = "none"
        /\ k = "closing" <=> x.socket \in {"open", "closing"}
    BY DEF Page, SocketStates
  <1>2. CloseSocket(x) = [x EXCEPT !.socket = k]
    BY DEF CloseSocket
  <1> HIDE DEF k
  <1> QED
    BY <1>1, <1>2 DEF Page, Keeps

(* Whether #scheduleReconnect does nothing but note the action.              *)
Barren(x) == x.closed \/ x.suspended \/ "reconnect" \in x.timers

LEMMA ScheduleDoes ==
    ASSUME NEW x \in Page, NEW a \in Actions
    PROVE  /\ Schedule(x, a) \in Page
           /\ Keeps(x, Schedule(x, a), {"action", "timers", "phase"})
           /\ Schedule(x, a).action = IF a = "connect" THEN x.action ELSE a
           /\ Barren(x) => Keeps(x, Schedule(x, a), {"action"})
           /\ ~Barren(x) => /\ Schedule(x, a).timers = x.timers \union {"reconnect"}
                            /\ Schedule(x, a).phase = DownPhase(x.phase)
  <1> DEFINE act == IF a = "connect" THEN x.action ELSE a
             y == [x EXCEPT !.action = act]
             z == [y EXCEPT !.timers = @ \union {"reconnect"}]
  <1>1. act \in Actions
    BY DEF Page
  <1>2. Schedule(x, a) = IF y.closed \/ y.suspended \/ "reconnect" \in y.timers
                         THEN y ELSE Down(z)
    BY DEF Schedule
  <1>3. act = IF a = "connect" THEN x.action ELSE a
    OBVIOUS
  <1> HIDE DEF act
  <1>4. y \in Page /\ Keeps(x, y, {"action"}) /\ y.action = act
    BY <1>1 DEF Page, Keeps
  <1> HIDE DEF y
  <1>5. z \in Page /\ Keeps(y, z, {"timers"}) /\ z.timers = y.timers \union {"reconnect"}
    BY <1>4 DEF Page, Keeps, Timers
  <1> HIDE DEF z
  <1>6. /\ Down(z) \in Page
        /\ Keeps(z, Down(z), {"phase"})
        /\ Down(z).phase = DownPhase(z.phase)
    BY <1>5, DownDoes DEF DownPhase
  <1>7. Barren(x) => Schedule(x, a) = y
    BY <1>2, <1>4 DEF Barren, Keeps
  <1>8. ~Barren(x) => Schedule(x, a) = Down(z)
    BY <1>2, <1>4 DEF Barren, Keeps
  <1> QED
    BY <1>3, <1>4, <1>5, <1>6, <1>7, <1>8 DEF Keeps

(* A connect that the page's state forbids, and one that it does not.        *)
Stays(x, y) == Keeps(x, y, {"phase"}) /\ y.phase \in {x.phase, DownPhase(x.phase)}

Dials(x, y) ==
    /\ ~x.closed /\ ~x.suspended /\ x.proof # 0
    /\ Keeps(x, y, {"socket", "mute", "timers", "synced", "hello", "sent", "phase"})
    /\ ~y.synced /\ ~y.hello /\ ~y.sent
    /\ y.phase = DownPhase(x.phase)
    /\ \/ y.socket = "connecting" /\ y.timers = {}
       \/ y.socket = "none" /\ y.timers = {"reconnect"}

LEMMA ConnectDoes ==
    ASSUME NEW x \in Page, NEW online \in BOOLEAN, NEW y \in ConnectOutcomes(x, online)
    PROVE  /\ y \in Page
           /\ \/ (x.closed \/ x.suspended \/ ~online \/ x.proof = 0) /\ Stays(x, y)
              \/ online /\ Dials(x, y)
           /\ online /\ ~Dials(x, y) => y = x
  <1>1. CASE x.closed \/ x.suspended \/ ~online
    <2>1. y = IF online THEN x ELSE Down(x)
      BY <1>1 DEF ConnectOutcomes
    <2> QED
      BY <1>1, <2>1, DownDoes DEF Stays, Keeps, DownPhase
  <1>2. CASE ~(x.closed \/ x.suspended \/ ~online) /\ x.proof = 0
    <2>1. y = x
      BY <1>2 DEF ConnectOutcomes
    <2> QED
      BY <1>2, <2>1 DEF Stays, Keeps, Dials
  <1>3. CASE ~(x.closed \/ x.suspended \/ ~online) /\ x.proof # 0
    <2> DEFINE z == [x EXCEPT !.socket = "none", !.mute = FALSE, !.timers = {},
                              !.synced = FALSE, !.hello = FALSE, !.sent = FALSE]
               d == Down(z)
               c == [d EXCEPT !.socket = "connecting"]
               r == Schedule(d, "connect")
    <2>1. y = c \/ y = r
      BY <1>3 DEF ConnectOutcomes
    <2>2. /\ z \in Page
          /\ Keeps(x, z, {"socket", "mute", "timers", "synced", "hello", "sent"})
          /\ z.socket = "none" /\ z.timers = {} /\ ~z.synced /\ ~z.hello /\ ~z.sent
      BY DEF Page, Keeps, SocketStates
    <2> HIDE DEF z
    <2>3. d \in Page /\ Keeps(z, d, {"phase"}) /\ d.phase = DownPhase(z.phase)
      BY <2>2, DownDoes DEF DownPhase
    <2> HIDE DEF d
    <2>4. c \in Page /\ Keeps(d, c, {"socket"}) /\ c.socket = "connecting"
      BY <2>3 DEF Page, Keeps, SocketStates
    <2> HIDE DEF c
    <2>5. /\ r \in Page
          /\ Keeps(d, r, {"action", "timers", "phase"})
          /\ r.action = d.action
          /\ ~Barren(d) => r.timers = d.timers \union {"reconnect"}
                           /\ r.phase = DownPhase(d.phase)
      BY <2>3, ScheduleDoes DEF Actions
    <2> HIDE DEF r
    <2>6. ~Barren(d)
      BY <1>3, <2>2, <2>3 DEF Barren, Keeps
    <2>7. Dials(x, c)
      BY <1>3, <2>2, <2>3, <2>4 DEF Dials, Keeps
    <2>8. r.timers = {"reconnect"} /\ r.phase = DownPhase(x.phase)
      BY <2>2, <2>3, <2>5, <2>6 DEF Keeps, DownPhase
    <2>9. Dials(x, r)
      BY <1>3, <2>2, <2>3, <2>5, <2>8 DEF Dials, Keeps
    <2> QED
      BY <1>3, <2>1, <2>4, <2>5, <2>7, <2>9
  <1> QED
    BY <1>1, <1>2, <1>3

LEMMA AuthenticateDoes ==
    ASSUME NEW x \in Page
    PROVE  /\ Authenticate(x) \in Page
           /\ mode = "token" /\ ~x.token => Authenticate(x) = x
           /\ ~(mode = "token" /\ ~x.token) =>
                  /\ Keeps(x, Authenticate(x), {"asking", "timers"})
                  /\ Authenticate(x).asking
                  /\ Authenticate(x).timers = x.timers \ {"reconnect"}
  BY ZenonT(60) DEF Authenticate, Page, Keeps

(* #runReconnectAction: what it was told, a socket, or an authentication.    *)
LEMMA ReconnectDoes ==
    ASSUME NEW x \in Page, NEW y \in ReconnectOutcomes(x)
    PROVE  /\ y \in Page
           /\ y.action = "connect"
           /\ \/ /\ x.action = "connect" /\ (x.closed \/ x.suspended \/ x.proof = 0)
                 /\ y = x
              \/ x.action = "connect" /\ Dials(x, y)
              \/ /\ x.action # "connect" /\ mode = "token" /\ ~x.token
                 /\ Keeps(x, y, {"action"})
              \/ /\ x.action # "connect" /\ ~(mode = "token" /\ ~x.token)
                 /\ Keeps(x, y, {"action", "asking", "timers"})
                 /\ y.asking
                 /\ y.timers = x.timers \ {"reconnect"}
  <1> DEFINE z == [x EXCEPT !.action = "connect"]
  <1>1. z \in Page /\ Keeps(x, z, {"action"}) /\ z.action = "connect"
    BY DEF Page, Keeps, Actions
  <1>2. CASE x.action = "connect"
    <2>1. z = x
      BY <1>2 DEF Page
    <2>2. y \in ConnectOutcomes(x, TRUE)
      BY <1>2, <2>1 DEF ReconnectOutcomes
    <2>3. /\ y \in Page
          /\ \/ (x.closed \/ x.suspended \/ x.proof = 0) /\ Stays(x, y)
             \/ Dials(x, y)
          /\ ~Dials(x, y) => y = x
      BY <2>2, ConnectDoes
    <2>4. CASE Dials(x, y)
      BY <1>2, <2>3, <2>4 DEF Dials, Keeps
    <2>5. CASE ~Dials(x, y)
      BY <1>2, <2>3, <2>5
    <2> QED
      BY <2>4, <2>5
  <1>3. CASE x.action # "connect"
    <2> HIDE DEF z
    <2>1. y = Authenticate(z)
      BY <1>3 DEF ReconnectOutcomes, z
    <2> QED
      BY <1>1, <1>3, <2>1, AuthenticateDoes DEF Keeps
  <1> QED
    BY <1>2, <1>3

LEMMA MarkSynchronizedDoes ==
    ASSUME NEW x \in Page, x.socket = "open"
    PROVE  /\ MarkSynchronized(x) \in Page
           /\ Keeps(x, MarkSynchronized(x), {"synced", "action", "sent", "timers"})
           /\ MarkSynchronized(x).synced
           /\ MarkSynchronized(x).action = "connect"
           /\ MarkSynchronized(x).timers = (x.timers \ {"sync", "stale"}) \union
                           {IF x.probe = "liveness" THEN "response" ELSE "liveness"}
  <1> DEFINE ts == (x.timers \ {"sync", "stale"}) \union
                           {IF x.probe = "liveness" THEN "response" ELSE "liveness"}
             q == x.probe # "none"
  <1>1. ts \in SUBSET Timers /\ q \in BOOLEAN
    BY DEF Page, Timers, SocketTimers
  <1>2. MarkSynchronized(x) = [x EXCEPT !.synced = TRUE, !.action = "connect",
                                        !.sent = q, !.timers = ts]
    BY DEF MarkSynchronized
  <1> HIDE DEF q
  <1>3. ts = (x.timers \ {"sync", "stale"}) \union
                           {IF x.probe = "liveness" THEN "response" ELSE "liveness"}
    OBVIOUS
  <1> HIDE DEF ts
  <1> QED
    BY ZenonT(60), <1>1, <1>2, <1>3 DEF Page, Keeps, Actions

LEMMA ShowsDoes ==
    ASSUME NEW x \in Page, x.socket = "open"
    PROVE  /\ Shows(x) \in Page
           /\ Keeps(x, Shows(x), {"phase", "synced", "action", "sent", "timers", "wait"})
           /\ Shows(x).phase = "live" /\ Shows(x).synced
           /\ Shows(x).action = "connect"
           /\ Shows(x).timers = (x.timers \ {"sync", "stale"}) \union
                           {IF x.probe = "liveness" THEN "response" ELSE "liveness"}
  <1> DEFINE z == [x EXCEPT !.phase = "live"]
             m == MarkSynchronized(z)
  <1>1. z \in Page /\ Keeps(x, z, {"phase"}) /\ z.phase = "live"
    BY DEF Page, Keeps, Phases
  <1> HIDE DEF z
  <1>2. z.socket = "open" /\ z.timers = x.timers /\ z.probe = x.probe
    BY <1>1 DEF Keeps
  <1>3. /\ m \in Page
        /\ Keeps(z, m, {"synced", "action", "sent", "timers"})
        /\ m.synced /\ m.action = "connect"
        /\ m.timers = (x.timers \ {"sync", "stale"}) \union
                           {IF x.probe = "liveness" THEN "response" ELSE "liveness"}
    BY <1>1, <1>2, MarkSynchronizedDoes
  <1> HIDE DEF m
  <1>4. Shows(x) = [m EXCEPT !.wait = FALSE]
    BY DEF Shows, m, z
  <1>5. Shows(x) \in Page /\ Keeps(m, Shows(x), {"wait"})
    BY ZenonT(60), <1>3, <1>4 DEF Page, Keeps
  <1>6. Keeps(x, Shows(x), {"phase", "synced", "action", "sent", "timers", "wait"})
    BY <1>1, <1>3, <1>5 DEF Keeps
  <1>7. /\ Shows(x).phase = "live" /\ Shows(x).synced = m.synced
        /\ Shows(x).action = m.action /\ Shows(x).timers = m.timers
    BY <1>1, <1>3, <1>5 DEF Keeps
  <1> QED
    BY <1>3, <1>5, <1>6, <1>7

LEMMA DoubtDoes ==
    ASSUME NEW x \in Page, NEW y \in DoubtOutcomes(x)
    PROVE  /\ y \in Page
           /\ Keeps(x, y, {"phase", "timers", "synced", "wait", "probe", "sent"})
           /\ y.phase = "stale" /\ ~y.synced
           /\ y.timers = MarkStale(x).timers
           /\ \/ y.probe = x.probe /\ y.sent = x.sent
              \/ x.probe = "none" /\ x.hello /\ x.socket = "open" /\ y.probe = "app"
  <1> DEFINE z == [x EXCEPT !.phase = "stale"]
  <1>1. z \in Page /\ Keeps(x, z, {"phase"}) /\ z.phase = "stale"
    BY DEF Page, Keeps, Phases
  <1>2. y \in AskOutcomes(z)
    BY DEF DoubtOutcomes
  <1> HIDE DEF z
  <1>3. MarkStale(z).timers = MarkStale(x).timers
    BY <1>1, MarkStaleDoes DEF Keeps
  <1>4. /\ y \in Page
        /\ Keeps(z, y, {"timers", "synced", "wait", "probe", "sent"})
        /\ ~y.synced
        /\ y.timers = MarkStale(z).timers
        /\ \/ y.probe = z.probe /\ y.sent = z.sent
           \/ z.probe = "none" /\ z.hello /\ z.socket = "open" /\ y.probe = "app"
    BY <1>1, <1>2, AskDoes
  <1>5. z.probe = x.probe /\ z.sent = x.sent /\ z.hello = x.hello /\ z.socket = x.socket
    BY <1>1 DEF Keeps
  <1>6. Keeps(x, y, {"phase", "timers", "synced", "wait", "probe", "sent"})
    BY <1>1, <1>4 DEF Keeps
  <1>7. y.phase = "stale"
    BY <1>1, <1>4 DEF Keeps
  <1> QED
    BY <1>3, <1>4, <1>5, <1>6, <1>7

LEMMA HeardDoes ==
    ASSUME NEW x \in Page
    PROVE  /\ Heard(x) \in Page
           /\ Keeps(x, Heard(x), {"timers"})
           /\ Heard(x).timers = IF x.synced /\ x.probe # "liveness"
                                THEN x.timers \union {"liveness"} ELSE x.timers
  BY DEF Heard, Page, Keeps, Timers, SocketTimers

(* A page that has found a fault closes its socket, and is stale if it was   *)
(* live.                                                                     *)
LEMMA FaultDoes ==
    ASSUME NEW x \in Page, NEW y \in FaultOutcomes(x)
    PROVE  /\ y \in Page
           /\ Keeps(x, y, {"socket", "phase", "timers", "synced", "wait", "probe", "sent"})
           /\ y.socket \notin {"open", "connecting"}
           /\ y.socket = "none" <=> x.socket = "none"
           /\ y.socket = "closing" <=> x.socket \in {"open", "closing"}
           /\ x.phase # "live" => Keeps(x, y, {"socket"})
           /\ x.phase = "live" => y.phase = "stale" /\ ~y.synced
           /\ "response" \in y.timers <=> "response" \in x.timers
           /\ "reconnect" \in y.timers <=> "reconnect" \in x.timers
           /\ y.timers # {} => x.timers # {} \/ x.socket = "open"
           /\ y.probe = x.probe \/ x.probe = "none"
  <1>1. PICK z \in (IF x.phase = "live" THEN DoubtOutcomes(x) ELSE {x}) :
            y = CloseSocket(z)
    BY Zenon DEF FaultOutcomes
  <1>2. CASE x.phase = "live"
    <2>1. z \in DoubtOutcomes(x)
      BY <1>1, <1>2
    <2>2. /\ z \in Page
          /\ Keeps(x, z, {"phase", "timers", "synced", "wait", "probe", "sent"})
          /\ z.phase = "stale" /\ ~z.synced
          /\ z.timers = MarkStale(x).timers
          /\ z.probe = x.probe \/ x.probe = "none"
      BY <2>1, DoubtDoes
    <2>3. z.timers = (x.timers \ {"liveness"}) \union
                            (IF x.socket = "open" THEN {"stale"} ELSE {})
      BY <2>2, MarkStaleDoes
    <2>4. /\ y \in Page
          /\ Keeps(z, y, {"socket"})
          /\ y.socket \notin {"open", "connecting"}
          /\ y.socket = "none" <=> z.socket = "none"
          /\ y.socket = "closing" <=> z.socket \in {"open", "closing"}
      BY <1>1, <2>2, CloseSocketDoes
    <2> QED
      BY <1>2, <2>2, <2>3, <2>4 DEF Keeps
  <1>3. CASE x.phase # "live"
    <2>1. z = x
      BY <1>1, <1>3
    <2> QED
      BY <1>1, <1>3, <2>1, CloseSocketDoes DEF Keeps
  <1> QED
    BY <1>2, <1>3

LEMMA ForgetDoes ==
    ASSUME NEW x \in Page
    PROVE  /\ Forget(x) \in Page
           /\ Forget(x).closed /\ ~Forget(x).suspended
           /\ ~Forget(x).synced /\ ~Forget(x).asking
           /\ Forget(x).timers = {} /\ Forget(x).socket = "none"
           /\ Forget(x).phase = x.phase
  <1> DEFINE p == IF x.probe = "none" THEN x.probe ELSE "app"
  <1>1. p \in Probes
    BY DEF Probes
  <1>2. Forget(x) =
            [x EXCEPT !.closed = TRUE, !.suspended = FALSE, !.synced = FALSE,
                      !.asking = FALSE, !.timers = {}, !.proof = 0, !.token = FALSE,
                      !.probe = p,
                      !.action = "connect", !.opened = FALSE, !.failures = 0,
                      !.socket = "none"]
    BY DEF Forget
  <1>3. /\ 0 \in 0 .. MaxEpochs /\ 0 \in 0 .. RefreshInterval
        /\ "connect" \in Actions /\ "none" \in SocketStates
    BY TransportAssumption DEF Actions, SocketStates
  <1> HIDE DEF p
  <1> QED
    BY <1>1, <1>2, <1>3, ZenonT(60) DEF Page

LEMMA ClosePermanentlyDoes ==
    ASSUME NEW x \in Page
    PROVE  /\ ClosePermanently(x) \in Page
           /\ ClosePermanently(x).closed /\ ~ClosePermanently(x).suspended
           /\ ~ClosePermanently(x).synced /\ ~ClosePermanently(x).asking
           /\ ClosePermanently(x).timers = {} /\ ClosePermanently(x).socket = "none"
  <1> DEFINE f == Forget(x)
  <1>1. /\ f \in Page
        /\ f.closed /\ ~f.suspended /\ ~f.synced /\ ~f.asking
        /\ f.timers = {} /\ f.socket = "none"
    BY ForgetDoes
  <1>2. ClosePermanently(x) = [f EXCEPT !.phase = "incompatible"]
    BY DEF ClosePermanently
  <1> HIDE DEF f
  <1> QED
    BY <1>1, <1>2 DEF Page, Phases

(* The page after an authentication, before it connects.                     *)
LEMMA GrantedDoes ==
    ASSUME NEW x \in Page, NEW proof \in 1 .. MaxEpochs
    PROVE  /\ Granted(x, proof) \in Page
           /\ Granted(x, proof).proof = proof
           /\ ~Granted(x, proof).asking
           /\ Granted(x, proof).socket = x.socket
           /\ Granted(x, proof).closed = x.closed
           /\ Granted(x, proof).suspended = x.suspended
           /\ Granted(x, proof).action = x.action
           /\ \/ /\ Granted(x, proof).phase = x.phase
                 /\ Granted(x, proof).synced = x.synced
                 /\ Granted(x, proof).timers = x.timers
                 /\ Granted(x, proof).probe = x.probe
              \/ /\ Granted(x, proof).phase = "disconnected"
                 /\ ~Granted(x, proof).synced
                 /\ Granted(x, proof).timers = x.timers \ SocketTimers
  <1> DEFINE u == Unwatched(x)
             n == [u EXCEPT !.probe = "none", !.synced = FALSE, !.hello = FALSE,
                            !.phase = "disconnected", !.wait = FALSE, !.lag = FALSE]
             y == IF mode = "session" /\ x.proof \notin {0, proof} THEN n ELSE x
             z == IF mode = "session" THEN [y EXCEPT !.opened = FALSE, !.failures = 0]
                                      ELSE y
  <1>1. u \in Page /\ Keeps(x, u, {"timers"}) /\ u.timers = x.timers \ SocketTimers
    BY UnwatchedDoes
  <1> HIDE DEF u
  <1>2. /\ n \in Page
        /\ Keeps(u, n, {"probe", "synced", "hello", "phase", "wait", "lag"})
        /\ ~n.synced /\ n.phase = "disconnected"
    BY <1>1, ZenonT(60) DEF Page, Keeps, Probes, Phases
  <1>3. n = Abandon(x)
    BY DEF n, u, Abandon
  <1> HIDE DEF n
  <1>4. /\ y \in Page
        /\ \/ y = x
           \/ /\ Keeps(x, y, {"timers", "probe", "synced", "hello", "phase", "wait", "lag"})
              /\ ~y.synced /\ y.phase = "disconnected"
              /\ y.timers = x.timers \ SocketTimers
    BY <1>1, <1>2 DEF Keeps
  <1>5. Granted(x, proof) = [z EXCEPT !.asking = FALSE, !.token = FALSE, !.proof = proof]
    BY <1>3 DEF Granted
  <1> HIDE DEF y
  <1>6. z \in Page /\ Keeps(y, z, {"opened", "failures"})
    <2>1. 0 \in 0 .. RefreshInterval
      BY TransportAssumption
    <2> DEFINE q == [y EXCEPT !.opened = FALSE, !.failures = 0]
    <2>2. q \in Page /\ Keeps(y, q, {"opened", "failures"})
      BY <1>4, <2>1 DEF Page, Keeps
    <2>3. Keeps(y, y, {"opened", "failures"})
      BY DEF Keeps
    <2>4. z = q \/ z = y
      OBVIOUS
    <2> HIDE DEF q, z
    <2> QED
      BY <1>4, <2>2, <2>3, <2>4
  <1> HIDE DEF z
  <1> DEFINE g == Granted(x, proof)
  <1>7. proof \in 0 .. MaxEpochs
    BY TransportAssumption
  <1>8. /\ g \in Page
        /\ Keeps(z, g, {"asking", "token", "proof"})
        /\ ~g.asking /\ g.proof = proof
    BY <1>5, <1>6, <1>7 DEF Page, Keeps
  <1> HIDE DEF g
  <1>9. Keeps(y, g, {"opened", "failures", "asking", "token", "proof"})
    BY <1>6, <1>8 DEF Keeps
  <1>10. /\ g.socket = x.socket /\ g.closed = x.closed
         /\ g.suspended = x.suspended /\ g.action = x.action
    BY <1>4, <1>9 DEF Keeps
  <1>11. \/ /\ g.phase = x.phase /\ g.synced = x.synced
            /\ g.timers = x.timers /\ g.probe = x.probe
         \/ /\ g.phase = "disconnected" /\ ~g.synced
            /\ g.timers = x.timers \ SocketTimers
    BY <1>4, <1>9 DEF Keeps
  <1> QED
    BY <1>8, <1>10, <1>11 DEF g

LEMMA AfterFailureDoes ==
    ASSUME NEW x \in Page
    PROVE  /\ AfterFailure(x) \in Page
           /\ Keeps(x, AfterFailure(x), {"failures", "action", "timers", "phase"})
           /\ mode = "token" => AfterFailure(x).action = x.action
           /\ ~Barren(x) => /\ AfterFailure(x).timers = x.timers \union {"reconnect"}
                            /\ AfterFailure(x).phase = DownPhase(x.phase)
  <1>1. CASE mode = "token"
    <2>1. AfterFailure(x) = Schedule(x, "connect")
      BY <1>1 DEF AfterFailure
    <2>2. Keeps(x, Schedule(x, "connect"), {"failures", "action", "timers", "phase"})
      BY ScheduleDoes DEF Actions, Keeps
    <2> QED
      BY <2>1, <2>2, ScheduleDoes DEF Actions
  <1>2. CASE mode # "token"
    <2> DEFINE k == Counted(x)
               a == IF Doubtful(x) THEN "session_auth" ELSE "connect"
               z == [x EXCEPT !.failures = k]
    <2>1. k \in 0 .. RefreshInterval
      BY TransportAssumption DEF Counted, Page
    <2>2. a \in Actions
      BY DEF Actions
    <2>3. AfterFailure(x) = Schedule(z, a)
      BY <1>2 DEF AfterFailure
    <2> HIDE DEF k, a
    <2>4. z \in Page /\ Keeps(x, z, {"failures"})
      BY <2>1 DEF Page, Keeps
    <2> HIDE DEF z
    <2>5. Barren(z) <=> Barren(x)
      BY <2>4 DEF Barren, Keeps
    <2>6. /\ AfterFailure(x) \in Page
          /\ Keeps(z, AfterFailure(x), {"action", "timers", "phase"})
          /\ ~Barren(z) => /\ AfterFailure(x).timers = z.timers \union {"reconnect"}
                           /\ AfterFailure(x).phase = DownPhase(z.phase)
      BY <2>2, <2>3, <2>4, ScheduleDoes
    <2>7. Keeps(x, AfterFailure(x), {"failures", "action", "timers", "phase"})
      BY <2>4, <2>6 DEF Keeps
    <2>8. z.timers = x.timers /\ z.phase = x.phase
      BY <2>4 DEF Keeps
    <2> QED
      BY <1>2, <2>5, <2>6, <2>7, <2>8
  <1> QED
    BY <1>1, <1>2

LEMMA InterruptedDoes ==
    ASSUME NEW x \in Page, mode \in {"session", "token"}
    PROVE  /\ Interrupted(x) \in Page
           /\ Keeps(x, Interrupted(x), {"action", "asking"})
           /\ ~Interrupted(x).asking
           /\ Interrupted(x).action = IF x.asking THEN AuthAction ELSE x.action
  <1> DEFINE a == IF x.asking THEN AuthAction ELSE x.action
  <1>1. a \in Actions
    BY DEF AuthAction, Actions, Page
  <1>2. Interrupted(x) = [x EXCEPT !.action = a, !.asking = FALSE]
    BY DEF Interrupted
  <1>3. a = IF x.asking THEN AuthAction ELSE x.action
    OBVIOUS
  <1> HIDE DEF a
  <1> QED
    BY <1>1, <1>2, <1>3 DEF Page, Keeps

-----------------------------------------------------------------------------
(* The inductive invariant.                                                  *)

(* One attempt at a time.                                                    *)
Single(x) ==
    /\ x.asking => x.socket = "none" /\ "reconnect" \notin x.timers
    /\ "reconnect" \in x.timers => x.socket = "none"

(* Pages that are out of sight, and pages that have given up.                *)
Dormant(x) ==
    /\ x.suspended => x.socket = "none" /\ ~x.asking
    /\ x.closed => x.socket = "none" /\ ~x.asking /\ x.timers = {}
    /\ x.phase = "incompatible" => x.closed

(* What the timers of a socket stand for.                                    *)
Timed(x) ==
    /\ "response" \in x.timers => x.probe = "liveness"
    /\ x.socket = "open" =>
           IF x.synced THEN "liveness" \in x.timers \/ "response" \in x.timers
                       ELSE "sync" \in x.timers \/ "stale" \in x.timers

(* The flags of the transport and the phase of the application.              *)
Abreast(x) ==
    /\ x.synced => x.socket \in {"open", "closing"}
    /\ ~x.closed => (x.synced <=> x.phase = "live")
    /\ x.socket \in {"connecting", "open"} /\ (x.synced \/ x.sent) => x.hello

(* What is needed for the next attempt is there, unless it was refused.      *)
Ready(x, refused) ==
    ~x.closed =>
        /\ x.asking => x.action = "connect" /\ (mode = "token" => x.token)
        /\ x.socket # "none" => x.action = "connect" /\ x.proof # 0
        /\ x.action # "connect" => (mode = "token" => x.token)
        /\ x.action = "connect" => x.asking \/ x.proof # 0 \/ refused

(* And one is under way.                                                     *)
Awake(x, online, refused) ==
    online /\ ~x.closed /\ ~x.suspended /\ ~refused =>
        x.socket # "none" \/ x.asking \/ "reconnect" \in x.timers

(* A page that waits for a hello shows so.                                   *)
Greeted(x, late) == x.socket = "open" /\ ~x.hello => x.phase = "hello" \/ late

PageInv(x) == Single(x) /\ Dormant(x) /\ Timed(x) /\ Abreast(x)

IInv ==
    /\ PageInv(b)
    /\ Ready(b, history.refused)
    /\ Awake(b, world.online, history.refused)
    /\ Greeted(b, history.late)
    /\ b.phase = "incompatible" => history.cause \/ history.late
    /\ history.barred => "reconnect" \in b.timers

-----------------------------------------------------------------------------
(* The initial state.                                                        *)

LEMMA TransportInit ==
    ASSUME Init
    PROVE  TypeOK /\ IInv
  <1>1. 0 \in 0 .. MaxEpochs /\ 0 \in 0 .. RefreshInterval /\ 1 \in 1 .. MaxEpochs
    BY TransportAssumption
  <1>2. b \in Page
    BY <1>1 DEF Init, Page, SocketStates, Probes, Actions, Phases
  <1>3. TypeOK
    BY <1>1, <1>2 DEF Init, TypeOK
  <1>4. IInv
    BY DEF Init, IInv, PageInv, Single, Dormant, Timed, Abreast, Ready, Awake, Greeted
  <1> QED
    BY <1>3, <1>4

-----------------------------------------------------------------------------
(* Every action keeps the invariant.                                         *)

(* A socket that was dialled, or one whose constructor threw.                *)
LEMMA DialledKeeps ==
    ASSUME NEW x \in Page, NEW y \in Page, Dials(x, y), ~x.asking,
           x.action = "connect", x.phase = "incompatible" => x.closed,
           NEW r, NEW l, NEW online
    PROVE  /\ PageInv(y)
           /\ Ready(y, r) /\ Awake(y, online, r) /\ Greeted(y, l)
           /\ y.phase # "incompatible"
  <1>1. y.phase = "disconnected"
    BY DEF Dials, DownPhase
  <1> QED
    BY <1>1 DEF Dials, Keeps, PageInv, Single, Dormant, Timed, Abreast, Ready, Awake,
                Greeted

(* A page that runs its reconnect action when nothing is under way.          *)
LEMMA ReconnectKeeps ==
    ASSUME NEW x \in Page, NEW y \in ReconnectOutcomes(x),
           mode \in {"session", "token"},
           PageInv(x), x.socket = "none", ~x.asking, "reconnect" \notin x.timers,
           ~x.suspended, ~x.closed, NEW r, Ready(x, r), NEW l, NEW online
    PROVE  /\ PageInv(y)
           /\ Ready(y, r) /\ Awake(y, online, r) /\ Greeted(y, l)
           /\ y.phase = "incompatible" => x.phase = "incompatible"
  <1> USE DEF PageInv
  <1>0. /\ y \in Page
        /\ y.action = "connect"
    BY ReconnectDoes
  <1>1. CASE x.action = "connect" /\ (x.closed \/ x.suspended \/ x.proof = 0) /\ y = x
    BY <1>1 DEF Ready, Awake, Greeted
  <1>2. CASE x.action = "connect" /\ Dials(x, y)
    BY <1>0, <1>2, DialledKeeps DEF Dormant
  <1>3. CASE /\ x.action # "connect" /\ mode = "token" /\ ~x.token
             /\ Keeps(x, y, {"action"})
    BY <1>3 DEF Ready
  <1>4. CASE /\ x.action # "connect" /\ ~(mode = "token" /\ ~x.token)
             /\ Keeps(x, y, {"action", "asking", "timers"})
             /\ y.asking
             /\ y.timers = x.timers \ {"reconnect"}
    <2> QED
      BY <1>0, <1>4 DEF Keeps, Single, Dormant, Timed, Abreast, Ready, Awake, Greeted
  <1> QED
    BY <1>1, <1>2, <1>3, <1>4, ReconnectDoes

LEMMA AuthAcceptedKeeps ==
    ASSUME TypeOK, IInv, AuthAccepted
    PROVE  TypeOK' /\ IInv'
  <1> USE DEF PageInv
  <1>1. PICK proof \in 1 .. world.server :
            /\ mode = "token" => proof = 1
            /\ b' \in ConnectOutcomes(Granted(b, proof), world.online)
    BY DEF AuthAccepted, TypeOK
  <1>2. proof \in 1 .. MaxEpochs
    BY TransportAssumption DEF TypeOK
  <1> DEFINE g == Granted(b, proof)
  <1>3. /\ g \in Page
        /\ g.proof # 0 /\ ~g.asking /\ g.socket = b.socket
        /\ g.closed = b.closed /\ g.suspended = b.suspended /\ g.action = b.action
        /\ \/ /\ g.phase = b.phase /\ g.synced = b.synced
              /\ g.timers = b.timers /\ g.probe = b.probe
           \/ /\ g.phase = "disconnected" /\ ~g.synced
              /\ g.timers = b.timers \ SocketTimers
    BY <1>2, GrantedDoes DEF TypeOK
  <1> HIDE DEF g
  <1>4. /\ b.asking /\ b.socket = "none" /\ "reconnect" \notin b.timers
        /\ ~b.suspended /\ ~b.closed /\ b.action = "connect" /\ b.phase # "incompatible"
        /\ ~b.synced
    BY DEF AuthAccepted, IInv, Single, Dormant, Ready, Abreast
  <1>5. /\ b' \in Page
        /\ \/ ~world.online /\ Stays(g, b')
           \/ world.online /\ Dials(g, b')
    BY <1>1, <1>3, <1>4, ConnectDoes DEF g, TypeOK
  <1>6. /\ history' = [history EXCEPT !.refused = FALSE]
        /\ UNCHANGED <<mode, world>>
    BY DEF AuthAccepted
  <1>7. TypeOK'
    BY <1>5, <1>6 DEF TypeOK
  <1>8. /\ history'.late = history.late /\ history'.cause = history.cause
        /\ history'.barred = history.barred /\ ~history'.refused
    BY <1>6 DEF TypeOK
  <1>9. ~history.barred
    BY <1>4 DEF IInv
  <1>10. CASE Dials(g, b')
    <2>1. g.phase # "incompatible"
      BY <1>3, <1>4
    <2>2. /\ PageInv(b')
          /\ Ready(b', history'.refused) /\ Awake(b', world'.online, history'.refused)
          /\ Greeted(b', history'.late) /\ b'.phase # "incompatible"
      BY <1>3, <1>4, <1>5, <1>10, <2>1, DialledKeeps
    <2> QED
      BY <1>6, <1>7, <1>8, <1>9, <2>2 DEF IInv, Ready
  <1>11. CASE ~world.online /\ Stays(g, b')
    <2>1. b'.phase # "incompatible" /\ b'.phase # "live"
      BY <1>3, <1>4, <1>11 DEF Stays, DownPhase, IInv, Abreast
    <2>2. Keeps(g, b', {"phase"})
      BY <1>11 DEF Stays
    <2>3. PageInv(b')
      BY <1>3, <1>4, <2>1, <2>2 DEF Keeps, IInv, Single, Dormant, Timed, Abreast, SocketTimers
    <2>4. Ready(b', FALSE) /\ Awake(b', world'.online, FALSE) /\ Greeted(b', history'.late)
      BY <1>3, <1>4, <1>6, <1>11, <2>2 DEF Keeps, Ready, Awake, Greeted
    <2> QED
      BY <1>6, <1>7, <1>8, <1>9, <2>1, <2>3, <2>4 DEF IInv, Ready, Awake
  <1> QED
    BY <1>5, <1>10, <1>11

(* A page whose authentication failed without a verdict.                     *)
LEMMA RescheduledKeeps ==
    ASSUME mode \in {"session", "token"},
           NEW x \in Page, PageInv(x), x.socket = "none", ~x.synced, ~x.closed,
           x.phase \notin {"live", "incompatible"},
           NEW a \in Actions, ~x.asking, a = "connect" => x.proof # 0,
           (x.action # "connect" \/ a # "connect") /\ mode = "token" => x.token,
           NEW r \in BOOLEAN, NEW l \in BOOLEAN, NEW online \in BOOLEAN,
           x.action = "connect" \/ a # "connect"
    PROVE  /\ Schedule(x, a) \in Page
           /\ PageInv(Schedule(x, a))
           /\ Ready(Schedule(x, a), r) /\ Awake(Schedule(x, a), online, r)
           /\ Greeted(Schedule(x, a), l)
           /\ Schedule(x, a).phase # "incompatible"
           /\ ~x.suspended => "reconnect" \in Schedule(x, a).timers
  <1> DEFINE y == Schedule(x, a)
  <1>1. /\ y \in Page
        /\ Keeps(x, y, {"action", "timers", "phase"})
        /\ y.action = IF a = "connect" THEN x.action ELSE a
        /\ Barren(x) => Keeps(x, y, {"action"})
        /\ ~Barren(x) => /\ y.timers = x.timers \union {"reconnect"}
                         /\ y.phase = DownPhase(x.phase)
    BY ScheduleDoes
  <1> HIDE DEF y
  <1>2. y.phase \notin {"live", "incompatible"}
    BY <1>1 DEF Keeps, DownPhase
  <1>3. /\ "response" \in y.timers <=> "response" \in x.timers
        /\ ~x.suspended => "reconnect" \in y.timers
    BY <1>1 DEF Keeps, Barren
  <1>4. PageInv(y)
    BY <1>1, <1>2, <1>3 DEF Keeps, PageInv, Single, Dormant, Timed, Abreast
  <1>5. Ready(y, r) /\ Awake(y, online, r) /\ Greeted(y, l)
    BY <1>1, <1>3 DEF Keeps, Ready, Awake, Greeted
  <1> QED
    BY <1>1, <1>2, <1>3, <1>4, <1>5 DEF y

LEMMA AuthFailedKeeps ==
    ASSUME TypeOK, IInv, AuthFailed
    PROVE  TypeOK' /\ IInv'
  <1> DEFINE x == [b EXCEPT !.asking = FALSE]
  <1>1. PICK wait \in BOOLEAN : history' = [history EXCEPT !.barred = wait]
    BY DEF AuthFailed
  <1>2. b.asking /\ b' = Schedule(x, AuthAction) /\ UNCHANGED <<mode, world>>
    BY DEF AuthFailed
  <1>3. x \in Page /\ Keeps(b, x, {"asking"}) /\ ~x.asking
    BY DEF TypeOK, Page, Keeps
  <1> HIDE DEF x
  <1>4. mode \in {"session", "token"}
    BY TransportAssumption DEF TypeOK
  <1>5. AuthAction \in Actions /\ AuthAction # "connect"
    BY DEF AuthAction, Actions
  <1>6. /\ b.socket = "none" /\ ~b.closed /\ ~b.suspended /\ ~b.synced
        /\ b.phase \notin {"live", "incompatible"}
        /\ mode = "token" => b.token
        /\ PageInv(b)
    BY <1>2 DEF IInv, PageInv, Single, Dormant, Abreast, Ready
  <1>7. PageInv(x)
    BY <1>3, <1>6 DEF Keeps, PageInv, Single, Dormant, Timed, Abreast
  <1>8. /\ b' \in Page /\ PageInv(b')
        /\ Ready(b', history'.refused) /\ Awake(b', world'.online, history'.refused)
        /\ Greeted(b', history'.late)
        /\ b'.phase # "incompatible" /\ "reconnect" \in b'.timers
    <2>1. /\ history'.refused \in BOOLEAN /\ history'.late \in BOOLEAN
          /\ world'.online \in BOOLEAN
      BY <1>1, <1>2 DEF TypeOK
    <2> QED
      BY <1>2, <1>3, <1>4, <1>5, <1>6, <1>7, <2>1, RescheduledKeeps DEF Keeps
  <1>9. TypeOK'
    BY <1>1, <1>2, <1>8 DEF TypeOK
  <1> QED
    BY <1>2, <1>8, <1>9 DEF IInv, Ready

LEMMA AuthRefusedKeeps ==
    ASSUME TypeOK, IInv, AuthRefused
    PROVE  TypeOK' /\ IInv'
  <1>1. /\ b.asking
        /\ b' = [b EXCEPT !.asking = FALSE, !.token = FALSE]
        /\ history' = [history EXCEPT !.refused = TRUE]
        /\ UNCHANGED <<mode, world>>
    BY DEF AuthRefused
  <1>2. /\ b' \in Page /\ Keeps(b, b', {"asking", "token"})
        /\ ~b'.asking /\ ~b'.token
    BY <1>1 DEF TypeOK, Page, Keeps
  <1>3. TypeOK'
    BY <1>1, <1>2 DEF TypeOK
  <1>4. /\ history'.refused /\ history'.late = history.late
        /\ history'.cause = history.cause /\ history'.barred = history.barred
    BY <1>1 DEF TypeOK
  <1>5. (b.socket = "none" /\ b.action = "connect") \/ b.closed
    BY <1>1 DEF IInv, PageInv, Single, Ready
  <1>6. PageInv(b')
    BY <1>2 DEF Keeps, IInv, PageInv, Single, Dormant, Timed, Abreast
  <1>7. Ready(b', history'.refused) /\ Awake(b', world'.online, history'.refused)
    BY <1>2, <1>4, <1>5 DEF Keeps, IInv, PageInv, Single, Dormant, Ready, Awake
  <1>8. Greeted(b', history'.late)
    BY <1>2, <1>4 DEF Keeps, IInv, Greeted
  <1> QED
    BY <1>1, <1>2, <1>3, <1>4, <1>6, <1>7, <1>8 DEF Keeps, IInv, Ready

LEMMA SocketOpensKeeps ==
    ASSUME TypeOK, IInv, SocketOpens
    PROVE  TypeOK' /\ IInv'
  <1> DEFINE o == b.opened \/ mode = "session"
             n == IF mode = "session" THEN 0 ELSE b.failures
             h == [b EXCEPT !.phase = "hello"]
  <1>1. /\ b.socket = "connecting" /\ b.proof = world.server
        /\ b' = [h EXCEPT !.socket = "open", !.timers = @ \union {"sync"},
                          !.opened = o, !.failures = n]
        /\ history' = [history EXCEPT !.refused = FALSE, !.late = FALSE]
        /\ UNCHANGED <<mode, world>>
    BY DEF SocketOpens, Begun
  <1>2. o \in BOOLEAN /\ n \in 0 .. RefreshInterval
    BY TransportAssumption DEF TypeOK, Page
  <1> HIDE DEF o, n
  <1>3. h \in Page /\ Keeps(b, h, {"phase"}) /\ h.phase = "hello"
    BY DEF TypeOK, Page, Keeps, Phases
  <1> HIDE DEF h
  <1>4. /\ b' \in Page
        /\ Keeps(h, b', {"socket", "timers", "opened", "failures"})
        /\ b'.socket = "open" /\ b'.timers = h.timers \union {"sync"}
    BY <1>1, <1>2, <1>3 DEF Page, Keeps, SocketStates, Timers, SocketTimers
  <1>5. /\ b'.phase = "hello" /\ b'.timers = b.timers \union {"sync"}
        /\ Keeps(b, b', {"phase", "socket", "timers", "opened", "failures"})
    BY <1>3, <1>4 DEF Keeps
  <1>6. TypeOK'
    BY <1>1, <1>4 DEF TypeOK
  <1>7. /\ ~history'.refused /\ ~history'.late
        /\ history'.cause = history.cause /\ history'.barred = history.barred
    BY <1>1 DEF TypeOK
  <1>8. /\ ~b.synced /\ ~b.asking /\ ~b.closed /\ ~b.suspended
        /\ "reconnect" \notin b.timers /\ b.action = "connect" /\ b.proof # 0
        /\ ~history.barred
    BY <1>1 DEF IInv, PageInv, Single, Dormant, Abreast, Ready
  <1>9. PageInv(b')
    BY <1>1, <1>4, <1>5, <1>8 DEF Keeps, IInv, PageInv, Single, Dormant, Timed, Abreast
  <1>10. /\ Ready(b', history'.refused) /\ Awake(b', world'.online, history'.refused)
         /\ Greeted(b', history'.late)
    BY <1>4, <1>5, <1>8 DEF Keeps, Ready, Awake, Greeted
  <1> QED
    BY <1>1, <1>5, <1>6, <1>7, <1>8, <1>9, <1>10 DEF IInv, Ready

(* What several actions do to a page keeps the invariant.                    *)

LEMMA GivenUpKeeps ==
    ASSUME NEW y, y.closed, ~y.suspended, ~y.synced, ~y.asking, y.timers = {},
           y.socket = "none", NEW r, NEW l, NEW online
    PROVE  PageInv(y) /\ Ready(y, r) /\ Awake(y, online, r) /\ Greeted(y, l)
  BY DEF PageInv, Single, Dormant, Timed, Abreast, Ready, Awake, Greeted

LEMMA CloseSocketKeeps ==
    ASSUME NEW x \in Page, PageInv(x), NEW r, Ready(x, r), NEW online, Awake(x, online, r),
           NEW l
    PROVE  /\ CloseSocket(x) \in Page /\ PageInv(CloseSocket(x))
           /\ Ready(CloseSocket(x), r) /\ Awake(CloseSocket(x), online, r)
           /\ Greeted(CloseSocket(x), l)
           /\ Keeps(x, CloseSocket(x), {"socket"})
  <1> DEFINE y == CloseSocket(x)
  <1>1. /\ y \in Page
        /\ Keeps(x, y, {"socket"})
        /\ y.socket \notin {"open", "connecting"}
        /\ y.socket = "none" <=> x.socket = "none"
        /\ y.socket = "closing" <=> x.socket \in {"open", "closing"}
    BY CloseSocketDoes
  <1> HIDE DEF y
  <1>2. PageInv(y)
    BY <1>1 DEF Keeps, PageInv, Single, Dormant, Timed, Abreast
  <1>3. Ready(y, r) /\ Awake(y, online, r) /\ Greeted(y, l)
    BY <1>1 DEF Keeps, Ready, Awake, Greeted
  <1> QED
    BY <1>1, <1>2, <1>3 DEF y

LEMMA FaultKeeps ==
    ASSUME NEW x \in Page, NEW y \in FaultOutcomes(x), Single(x), Dormant(x),
           "response" \in x.timers => x.probe = "liveness",
           x.synced => x.socket \in {"open", "closing"},
           ~x.closed => (x.synced <=> x.phase = "live"),
           NEW r, Ready(x, r), NEW online, Awake(x, online, r), NEW l
    PROVE  /\ y \in Page /\ PageInv(y)
           /\ Ready(y, r) /\ Awake(y, online, r) /\ Greeted(y, l)
           /\ y.phase = "incompatible" => x.phase = "incompatible"
           /\ "reconnect" \in y.timers <=> "reconnect" \in x.timers
  <1>1. /\ y \in Page
        /\ Keeps(x, y, {"socket", "phase", "timers", "synced", "wait", "probe", "sent"})
        /\ y.socket \notin {"open", "connecting"}
        /\ y.socket = "none" <=> x.socket = "none"
        /\ y.socket = "closing" <=> x.socket \in {"open", "closing"}
        /\ x.phase # "live" => Keeps(x, y, {"socket"})
        /\ x.phase = "live" => y.phase = "stale" /\ ~y.synced
        /\ "response" \in y.timers <=> "response" \in x.timers
        /\ "reconnect" \in y.timers <=> "reconnect" \in x.timers
        /\ y.timers # {} => x.timers # {} \/ x.socket = "open"
        /\ y.probe = x.probe \/ x.probe = "none"
    BY FaultDoes
  <1>2. Single(y) /\ Timed(y)
    BY <1>1 DEF Keeps, Single, Timed
  <1>3. Dormant(y)
    BY <1>1 DEF Keeps, Dormant
  <1>4. Abreast(y)
    BY <1>1 DEF Keeps, Abreast
  <1>5. Ready(y, r) /\ Awake(y, online, r) /\ Greeted(y, l)
    BY <1>1 DEF Keeps, Ready, Awake, Greeted
  <1>6. y.phase = "incompatible" => x.phase = "incompatible"
    BY <1>1 DEF Keeps
  <1> QED
    BY <1>1, <1>2, <1>3, <1>4, <1>5, <1>6 DEF PageInv

LEMMA DoubtKeeps ==
    ASSUME NEW x \in Page, NEW y \in DoubtOutcomes(x), PageInv(x),
           NEW r, Ready(x, r), NEW online, Awake(x, online, r)
    PROVE  /\ y \in Page /\ PageInv(y)
           /\ Ready(y, r) /\ Awake(y, online, r)
           /\ y.phase = "stale" /\ y.hello = x.hello /\ y.socket = x.socket
           /\ "reconnect" \in y.timers <=> "reconnect" \in x.timers
  <1>1. /\ y \in Page
        /\ Keeps(x, y, {"phase", "timers", "synced", "wait", "probe", "sent"})
        /\ y.phase = "stale" /\ ~y.synced
        /\ y.timers = (x.timers \ {"liveness"}) \union
                            (IF x.socket = "open" THEN {"stale"} ELSE {})
        /\ \/ y.probe = x.probe /\ y.sent = x.sent
           \/ x.probe = "none" /\ x.hello /\ x.socket = "open" /\ y.probe = "app"
    BY DoubtDoes, MarkStaleDoes
  <1>2. /\ "reconnect" \in y.timers <=> "reconnect" \in x.timers
        /\ "response" \in y.timers <=> "response" \in x.timers
        /\ x.socket = "open" => "stale" \in y.timers
        /\ x.socket # "open" /\ x.timers = {} => y.timers = {}
    BY <1>1
  <1>3. Single(y) /\ Dormant(y)
    BY <1>1, <1>2 DEF Keeps, PageInv, Single, Dormant
  <1>4. Timed(y)
    BY <1>1, <1>2 DEF Keeps, PageInv, Timed
  <1>5. Abreast(y)
    BY <1>1 DEF Keeps, PageInv, Abreast
  <1>6. Ready(y, r) /\ Awake(y, online, r)
    BY <1>1, <1>2 DEF Keeps, Ready, Awake
  <1>7. y.hello = x.hello /\ y.socket = x.socket
    BY <1>1 DEF Keeps
  <1> QED
    BY <1>1, <1>2, <1>3, <1>4, <1>5, <1>6, <1>7 DEF PageInv

LEMMA HeardKeeps ==
    ASSUME NEW x \in Page, x.socket = "open", PageInv(x),
           NEW r, Ready(x, r), NEW online, NEW l, Greeted(x, l)
    PROVE  /\ Heard(x) \in Page /\ PageInv(Heard(x))
           /\ Ready(Heard(x), r) /\ Awake(Heard(x), online, r) /\ Greeted(Heard(x), l)
           /\ Keeps(x, Heard(x), {"timers"})
           /\ "reconnect" \in Heard(x).timers <=> "reconnect" \in x.timers
           /\ x.synced /\ x.probe # "liveness" => "liveness" \in Heard(x).timers
  <1> DEFINE y == Heard(x)
  <1>1. /\ y \in Page
        /\ Keeps(x, y, {"timers"})
        /\ y.timers = IF x.synced /\ x.probe # "liveness"
                      THEN x.timers \union {"liveness"} ELSE x.timers
    BY HeardDoes
  <1> HIDE DEF y
  <1>2. /\ \A t \in Timers \ {"liveness"} : t \in y.timers <=> t \in x.timers
        /\ "liveness" \in x.timers => "liveness" \in y.timers
    BY <1>1
  <1>3. PageInv(y)
    BY <1>1, <1>2 DEF Keeps, PageInv, Single, Dormant, Timed, Abreast, Timers, SocketTimers
  <1>4. Ready(y, r) /\ Awake(y, online, r) /\ Greeted(y, l)
    BY <1>1 DEF Keeps, Ready, Awake, Greeted
  <1> QED
    BY <1>1, <1>2, <1>3, <1>4 DEF y, Timers

LEMMA ShowsKeeps ==
    ASSUME NEW x \in Page, x.socket = "open", x.hello, PageInv(x),
           NEW r, Ready(x, r), NEW online, NEW l
    PROVE  /\ Shows(x) \in Page /\ PageInv(Shows(x))
           /\ Ready(Shows(x), r) /\ Awake(Shows(x), online, r) /\ Greeted(Shows(x), l)
           /\ Shows(x).phase = "live"
           /\ "reconnect" \in Shows(x).timers <=> "reconnect" \in x.timers
  <1> DEFINE y == Shows(x)
  <1>1. /\ y \in Page
        /\ Keeps(x, y, {"phase", "synced", "action", "sent", "timers", "wait"})
        /\ y.phase = "live" /\ y.synced
        /\ y.action = "connect"
        /\ y.timers = (x.timers \ {"sync", "stale"}) \union
                           {IF x.probe = "liveness" THEN "response" ELSE "liveness"}
    BY ShowsDoes
  <1> HIDE DEF y
  <1>2. /\ "reconnect" \in y.timers <=> "reconnect" \in x.timers
        /\ "response" \in y.timers => "response" \in x.timers \/ x.probe = "liveness"
        /\ "liveness" \in y.timers \/ "response" \in y.timers
    BY <1>1
  <1>3. PageInv(y)
    BY <1>1, <1>2 DEF Keeps, PageInv, Single, Dormant, Timed, Abreast
  <1>4. Ready(y, r) /\ Awake(y, online, r) /\ Greeted(y, l)
    BY <1>1 DEF Keeps, PageInv, Single, Ready, Awake, Greeted
  <1> QED
    BY <1>1, <1>2, <1>3, <1>4 DEF y


LEMMA ProofMismatchKeeps ==
    ASSUME TypeOK, IInv, ProofMismatch
    PROVE  TypeOK' /\ IInv'
  <1> DEFINE x == [b EXCEPT !.socket = "open"]
  <1>1. /\ b.socket = "connecting" /\ b' \in FaultOutcomes(x)
        /\ UNCHANGED <<mode, world, history>>
    BY DEF ProofMismatch
  <1>2. x \in Page /\ Keeps(b, x, {"socket"}) /\ x.socket = "open"
    BY DEF TypeOK, Page, Keeps, SocketStates
  <1> HIDE DEF x
  <1>3. /\ ~b.synced /\ ~b.asking /\ ~b.closed /\ ~b.suspended
        /\ "reconnect" \notin b.timers
    BY <1>1 DEF IInv, PageInv, Single, Dormant, Abreast
  <1>4. /\ Single(x) /\ Dormant(x)
        /\ "response" \in x.timers => x.probe = "liveness"
        /\ x.synced => x.socket \in {"open", "closing"}
        /\ ~x.closed => (x.synced <=> x.phase = "live")
    BY <1>2, <1>3 DEF Keeps, IInv, PageInv, Single, Dormant, Timed, Abreast
  <1>5. Ready(x, history.refused) /\ Awake(x, world.online, history.refused)
    BY <1>1, <1>2, <1>3 DEF Keeps, IInv, Ready, Awake
  <1>6. /\ b' \in Page /\ PageInv(b')
        /\ Ready(b', history.refused) /\ Awake(b', world.online, history.refused)
        /\ Greeted(b', history.late)
        /\ b'.phase = "incompatible" => x.phase = "incompatible"
        /\ "reconnect" \in b'.timers <=> "reconnect" \in x.timers
    BY <1>1, <1>2, <1>4, <1>5, FaultKeeps
  <1> QED
    BY <1>1, <1>2, <1>6 DEF TypeOK, IInv, Keeps, Ready

LEMMA SocketClosedKeeps ==
    ASSUME TypeOK, IInv, SocketClosed
    PROVE  TypeOK' /\ IInv'
  <1> DEFINE u == Unwatched(b)
             x == [u EXCEPT !.socket = "none", !.synced = FALSE, !.hello = FALSE]
  <1>1. /\ b.socket # "none"
        /\ b' = IF b.socket \in {"connecting", "aborting"} THEN AfterFailure(x)
                ELSE Schedule(x, "connect")
        /\ world' = [world EXCEPT !.owed = FALSE]
        /\ UNCHANGED <<mode, history>>
    BY DEF SocketClosed
  <1>2. u \in Page /\ Keeps(b, u, {"timers"}) /\ u.timers = b.timers \ SocketTimers
    BY UnwatchedDoes DEF TypeOK
  <1> HIDE DEF u
  <1>3. /\ x \in Page /\ Keeps(u, x, {"socket", "synced", "hello"})
        /\ x.socket = "none" /\ ~x.synced
    BY <1>2 DEF Page, Keeps, SocketStates
  <1> HIDE DEF x
  <1>4. /\ ~b.asking /\ ~b.closed /\ ~b.suspended /\ "reconnect" \notin b.timers
        /\ b.action = "connect" /\ b.proof # 0 /\ b.phase # "incompatible"
    BY <1>1 DEF IInv, PageInv, Single, Dormant, Ready
  <1>5. /\ Keeps(b, x, {"timers", "socket", "synced", "hello"})
        /\ x.timers = b.timers \ SocketTimers
        /\ ~Barren(x)
    BY <1>2, <1>3, <1>4 DEF Keeps, Barren
  <1>6. /\ b' \in Page
        /\ Keeps(x, b', {"failures", "action", "timers", "phase"})
        /\ mode = "token" => b'.action = x.action
        /\ b'.timers = x.timers \union {"reconnect"}
        /\ b'.phase = DownPhase(x.phase)
    <2>1. CASE b.socket \in {"connecting", "aborting"}
      BY <1>1, <1>3, <1>5, <2>1, AfterFailureDoes
    <2>2. CASE b.socket \notin {"connecting", "aborting"}
      <3>1. b' = Schedule(x, "connect")
        BY <1>1, <2>2
      <3>2. /\ b' \in Page
            /\ Keeps(x, b', {"action", "timers", "phase"})
            /\ b'.action = x.action
            /\ b'.timers = x.timers \union {"reconnect"}
            /\ b'.phase = DownPhase(x.phase)
        BY <1>3, <1>5, <3>1, ScheduleDoes DEF Actions
      <3> QED
        BY <3>2 DEF Keeps
    <2> QED
      BY <2>1, <2>2
  <1>7. /\ b'.phase = "disconnected" /\ ~b'.synced /\ b'.socket = "none"
        /\ "reconnect" \in b'.timers /\ "response" \notin b'.timers
        /\ ~b'.asking /\ ~b'.closed /\ ~b'.suspended /\ b'.proof # 0
        /\ mode = "token" => b'.action = "connect"
    BY <1>3, <1>4, <1>5, <1>6 DEF Keeps, DownPhase, SocketTimers
  <1>8. world'.online = world.online /\ world' \in [online : BOOLEAN, server : 1 .. MaxEpochs,
                                                    calm : BOOLEAN, owed : BOOLEAN]
    BY <1>1 DEF TypeOK
  <1>9. TypeOK'
    BY <1>1, <1>6, <1>8 DEF TypeOK
  <1>10. PageInv(b')
    BY <1>7 DEF PageInv, Single, Dormant, Timed, Abreast
  <1>11. /\ Awake(b', world'.online, history'.refused)
         /\ Greeted(b', history'.late)
    BY <1>7 DEF Awake, Greeted
  <1>12. Ready(b, history.refused)'
    BY <1>1, <1>7 DEF Ready
  <1> QED
    BY <1>7, <1>9, <1>10, <1>11, <1>12 DEF IInv

LEMMA ClogKeeps ==
    ASSUME TypeOK, IInv, Clog
    PROVE  TypeOK' /\ IInv'
  <1>1. b' = CloseSocket(b) /\ UNCHANGED <<mode, world, history>>
    BY DEF Clog
  <1>2. /\ b' \in Page /\ PageInv(b')
        /\ Ready(b', history.refused) /\ Awake(b', world.online, history.refused)
        /\ Greeted(b', history.late)
        /\ Keeps(b, b', {"socket"})
    BY <1>1, CloseSocketKeeps DEF TypeOK, IInv
  <1> QED
    BY <1>1, <1>2 DEF TypeOK, IInv, Keeps, Ready

LEMMA TakeHelloKeeps ==
    ASSUME TypeOK, IInv, TakeHello
    PROVE  TypeOK' /\ IInv'
  <1>1. PICK good \in BOOLEAN :
            /\ b' = IF good /\ b.phase = "hello"
                    THEN [b EXCEPT !.phase = "snapshot", !.hello = TRUE]
                    ELSE ClosePermanently(b)
            /\ history' = [history EXCEPT !.cause = @ \/ ~good]
    BY DEF TakeHello
  <1>2. /\ b.socket = "open" /\ ~b.hello /\ UNCHANGED mode
        /\ world' = [world EXCEPT !.owed = TRUE]
    BY DEF TakeHello, Usable
  <1>3. /\ world'.online = world.online
        /\ world' \in [online : BOOLEAN, server : 1 .. MaxEpochs, calm : BOOLEAN,
                       owed : BOOLEAN]
    BY <1>2 DEF TypeOK
  <1>4. /\ history' \in [barred : BOOLEAN, refused : BOOLEAN, cause : BOOLEAN,
                         late : BOOLEAN]
        /\ history'.cause = (history.cause \/ ~good)
        /\ history'.barred = history.barred /\ history'.refused = history.refused
        /\ history'.late = history.late
    BY <1>1 DEF TypeOK
  <1>5. ~history.barred /\ ~b.synced
    BY <1>2 DEF IInv, PageInv, Single, Abreast
  <1>6. CASE good /\ b.phase = "hello"
    <2>1. /\ b' \in Page /\ Keeps(b, b', {"phase", "hello"})
          /\ b'.phase = "snapshot" /\ b'.hello
      BY <1>1, <1>6 DEF TypeOK, Page, Keeps, Phases
    <2>2. PageInv(b')
      BY <1>5, <2>1 DEF Keeps, IInv, PageInv, Single, Dormant, Timed, Abreast
    <2>3. /\ Awake(b', world'.online, history'.refused) /\ Greeted(b', history'.late)
          /\ Ready(b, history.refused)'
      BY <1>2, <1>3, <1>4, <2>1 DEF Keeps, IInv, Ready, Awake, Greeted
    <2> QED
      BY <1>2, <1>3, <1>4, <1>5, <2>1, <2>2, <2>3 DEF TypeOK, IInv
  <1>7. CASE ~(good /\ b.phase = "hello")
    <2>1. /\ b' \in Page /\ b'.closed /\ ~b'.suspended /\ ~b'.synced /\ ~b'.asking
          /\ b'.timers = {} /\ b'.socket = "none"
      BY <1>1, <1>7, ClosePermanentlyDoes DEF TypeOK
    <2>2. /\ PageInv(b') /\ Ready(b, history.refused)'
          /\ Awake(b', world'.online, history'.refused) /\ Greeted(b', history'.late)
      BY <2>1, GivenUpKeeps DEF Ready
    <2>3. history'.cause \/ history'.late
      BY <1>2, <1>4, <1>7 DEF IInv, Greeted
    <2> QED
      BY <1>2, <1>3, <1>4, <1>5, <2>1, <2>2, <2>3 DEF TypeOK, IInv
  <1> QED
    BY <1>6, <1>7

LEMMA TakeSnapshotKeeps ==
    ASSUME TypeOK, IInv, TakeSnapshot
    PROVE  TypeOK' /\ IInv'
  <1>1. /\ b.socket = "open" /\ b.hello /\ b' = Shows(Heard(b))
        /\ world' = [world EXCEPT !.owed = FALSE]
        /\ UNCHANGED <<mode, history>>
    BY DEF TakeSnapshot, Usable
  <1>2. /\ world'.online = world.online
        /\ world' \in [online : BOOLEAN, server : 1 .. MaxEpochs, calm : BOOLEAN,
                       owed : BOOLEAN]
    BY <1>1 DEF TypeOK
  <1> DEFINE h == Heard(b)
  <1>3. /\ h \in Page /\ PageInv(h) /\ Ready(h, history.refused)
        /\ Keeps(b, h, {"timers"})
        /\ "reconnect" \in h.timers <=> "reconnect" \in b.timers
    BY <1>1, HeardKeeps DEF TypeOK, IInv
  <1> HIDE DEF h
  <1>4. /\ b' \in Page /\ PageInv(b')
        /\ Ready(b', history.refused) /\ Awake(b', world'.online, history.refused)
        /\ Greeted(b', history.late)
        /\ b'.phase = "live"
        /\ "reconnect" \in b'.timers <=> "reconnect" \in h.timers
    <2>1. h.socket = "open" /\ h.hello /\ b' = Shows(h)
      BY <1>1, <1>3 DEF Keeps, h
    <2> QED
      BY <1>3, <2>1, ShowsKeeps
  <1> QED
    BY <1>1, <1>2, <1>3, <1>4 DEF TypeOK, IInv, Ready

LEMMA TakePatchKeeps ==
    ASSUME TypeOK, IInv, TakePatch
    PROVE  TypeOK' /\ IInv'
  <1> DEFINE h == Heard(b)
  <1>1. /\ b.socket = "open" /\ b.hello /\ UNCHANGED <<mode, world, history>>
        /\ b' = Shows(h) \/ b' \in DoubtOutcomes(h)
    BY DEF TakePatch, Usable
  <1>2. /\ h \in Page /\ PageInv(h) /\ Ready(h, history.refused)
        /\ Awake(h, world.online, history.refused)
        /\ Keeps(b, h, {"timers"})
        /\ "reconnect" \in h.timers <=> "reconnect" \in b.timers
    BY <1>1, HeardKeeps DEF TypeOK, IInv
  <1> HIDE DEF h
  <1>3. h.socket = "open" /\ h.hello
    BY <1>1, <1>2 DEF Keeps
  <1>4. /\ b' \in Page /\ PageInv(b')
        /\ Ready(b', history.refused) /\ Awake(b', world.online, history.refused)
        /\ Greeted(b', history.late)
        /\ b'.phase # "incompatible"
        /\ "reconnect" \in b'.timers <=> "reconnect" \in h.timers
    <2>1. CASE b' = Shows(h)
      BY <1>2, <1>3, <2>1, ShowsKeeps
    <2>2. CASE b' \in DoubtOutcomes(h)
      BY <1>2, <1>3, <2>2, DoubtKeeps DEF Greeted
    <2> QED
      BY <1>1, <2>1, <2>2
  <1> QED
    BY <1>1, <1>2, <1>4 DEF TypeOK, IInv, Ready

LEMMA TakeNonsenseKeeps ==
    ASSUME TypeOK, IInv, TakeNonsense
    PROVE  TypeOK' /\ IInv'
  <1>1. /\ b.socket = "open" /\ UNCHANGED <<mode, world>>
        /\ \/ b' \in FaultOutcomes(b) /\ UNCHANGED history
           \/ b' = ClosePermanently(b) /\ history' = [history EXCEPT !.cause = TRUE]
    BY DEF TakeNonsense, Usable
  <1>2. CASE b' \in FaultOutcomes(b) /\ UNCHANGED history
    <2>1. /\ b' \in Page /\ PageInv(b')
          /\ Ready(b', history.refused) /\ Awake(b', world.online, history.refused)
          /\ Greeted(b', history.late)
          /\ b'.phase = "incompatible" => b.phase = "incompatible"
          /\ "reconnect" \in b'.timers <=> "reconnect" \in b.timers
      BY <1>2, FaultKeeps DEF TypeOK, IInv, PageInv, Timed, Abreast
    <2> QED
      BY <1>1, <1>2, <2>1 DEF TypeOK, IInv, Ready
  <1>3. CASE b' = ClosePermanently(b) /\ history' = [history EXCEPT !.cause = TRUE]
    <2>1. /\ b' \in Page /\ b'.closed /\ ~b'.suspended /\ ~b'.synced /\ ~b'.asking
          /\ b'.timers = {} /\ b'.socket = "none"
      BY <1>3, ClosePermanentlyDoes DEF TypeOK
    <2>2. /\ PageInv(b') /\ Ready(b, history.refused)'
          /\ Awake(b', world'.online, history'.refused) /\ Greeted(b', history'.late)
      BY <2>1, GivenUpKeeps DEF Ready
    <2>3. /\ history' \in [barred : BOOLEAN, refused : BOOLEAN, cause : BOOLEAN,
                           late : BOOLEAN]
          /\ history'.cause /\ history'.barred = history.barred
      BY <1>3 DEF TypeOK
    <2>4. ~history.barred
      BY <1>1 DEF IInv, PageInv, Single
    <2> QED
      BY <1>1, <2>1, <2>2, <2>3, <2>4 DEF TypeOK, IInv
  <1> QED
    BY <1>1, <1>2, <1>3

LEMMA TakeProbeAnswerKeeps ==
    ASSUME TypeOK, IInv, TakeProbeAnswer
    PROVE  TypeOK' /\ IInv'
  <1> DEFINE h == Heard(b)
             t == IF b.probe = "liveness" THEN h.timers \ {"response"} ELSE h.timers
             x == [h EXCEPT !.probe = "none", !.sent = FALSE, !.timers = t]
             y == IF b.probe = "liveness" /\ b.synced
                  THEN [x EXCEPT !.timers = @ \union {"liveness"}] ELSE x
  <1>1. /\ b.socket = "open" /\ b.sent /\ UNCHANGED <<mode, history>>
        /\ b' = y \/ b' \in DoubtOutcomes(y)
        /\ world' = [world EXCEPT !.owed = TRUE] \/ UNCHANGED world
    BY DEF TakeProbeAnswer, Usable
  <1>2. /\ world'.online = world.online
        /\ world' \in [online : BOOLEAN, server : 1 .. MaxEpochs, calm : BOOLEAN,
                       owed : BOOLEAN]
    BY <1>1 DEF TypeOK
  <1>3. /\ h \in Page /\ PageInv(h) /\ Ready(h, history.refused)
        /\ Awake(h, world.online, history.refused)
        /\ Keeps(b, h, {"timers"})
        /\ "reconnect" \in h.timers <=> "reconnect" \in b.timers
        /\ b.synced /\ b.probe # "liveness" => "liveness" \in h.timers
    BY <1>1, HeardKeeps DEF TypeOK, IInv
  <1> HIDE DEF h
  <1>4. h.socket = "open" /\ h.hello /\ h.probe = b.probe /\ h.synced = b.synced
    BY <1>1, <1>3 DEF Keeps, IInv, PageInv, Abreast
  <1>5. /\ t \in SUBSET Timers
        /\ \A k \in Timers \ {"response"} : k \in t <=> k \in h.timers
        /\ "response" \notin t
    BY <1>3, <1>4 DEF Page, PageInv, Timed
  <1> HIDE DEF t
  <1>6. /\ x \in Page /\ Keeps(h, x, {"probe", "sent", "timers"})
        /\ x.timers = t /\ x.probe = "none" /\ ~x.sent
    BY <1>3, <1>5 DEF Page, Keeps, Probes
  <1> HIDE DEF x
  <1>7. /\ y \in Page /\ Keeps(h, y, {"probe", "sent", "timers"})
        /\ y.timers = IF b.probe = "liveness" /\ b.synced THEN t \union {"liveness"} ELSE t
        /\ ~y.sent
    <2>1. CASE b.probe = "liveness" /\ b.synced
      <3>1. y = [x EXCEPT !.timers = @ \union {"liveness"}]
        BY <2>1
      <3> HIDE DEF y
      <3>2. /\ y \in Page /\ Keeps(x, y, {"timers"})
            /\ y.timers = x.timers \union {"liveness"}
        BY <1>6, <3>1 DEF Page, Keeps, Timers, SocketTimers
      <3> QED
        BY <1>6, <2>1, <3>2 DEF Keeps
    <2>2. CASE ~(b.probe = "liveness" /\ b.synced)
      <3>1. y = x
        BY <2>2
      <3> HIDE DEF y
      <3> QED
        BY <1>6, <2>2, <3>1
    <2> QED
      BY <2>1, <2>2
  <1> HIDE DEF y
  <1>8. /\ \A k \in Timers \ {"response", "liveness"} : k \in y.timers <=> k \in h.timers
        /\ "response" \notin y.timers
        /\ "liveness" \in h.timers => "liveness" \in y.timers
        /\ b.synced => "liveness" \in y.timers
    BY <1>3, <1>5, <1>7 DEF Timers, SocketTimers
  <1>9. PageInv(y)
    <2>1. y.socket = "open" /\ y.hello
      BY <1>4, <1>7 DEF Keeps
    <2>2. y.synced = b.synced
      BY <1>4, <1>7 DEF Keeps
    <2>3. "reconnect" \in y.timers <=> "reconnect" \in h.timers
      BY <1>8 DEF Timers
    <2>4. ~y.synced => "sync" \in y.timers \/ "stale" \in y.timers
      BY <1>3, <1>4, <1>8, <2>2 DEF PageInv, Timed, Timers, SocketTimers
    <2>5. Timed(y)
      BY <1>8, <2>2, <2>4 DEF Timed
    <2>6. Single(y) /\ Dormant(y)
      BY <1>3, <1>4, <1>7, <2>1, <2>3 DEF Keeps, PageInv, Single, Dormant
    <2>7. Abreast(y)
      BY <1>3, <1>4, <1>7, <2>1, <2>3 DEF Keeps, PageInv, Abreast
    <2> QED
      BY <2>5, <2>6, <2>7 DEF PageInv
  <1>10. /\ Ready(y, history.refused) /\ Awake(y, world.online, history.refused)
         /\ Keeps(b, y, {"probe", "sent", "timers"})
         /\ "reconnect" \in y.timers <=> "reconnect" \in b.timers
         /\ y.hello /\ y.socket = "open"
    <2>1. "reconnect" \in y.timers <=> "reconnect" \in b.timers
      BY <1>3, <1>4, <1>7, <1>8 DEF Keeps, Timers
    <2>2. Keeps(b, y, {"probe", "sent", "timers"})
      BY ZenonT(60), <1>3, <1>4, <1>7, <1>8 DEF Keeps
    <2>3. y.hello /\ y.socket = "open"
      BY <1>3, <1>4, <1>7, <1>8 DEF Keeps
    <2> QED
      BY <1>3, <2>1, <2>2, <2>3 DEF Keeps, Ready, Awake
  <1>11. /\ b' \in Page /\ PageInv(b')
         /\ Ready(b', history.refused) /\ Awake(b', world.online, history.refused)
         /\ Greeted(b', history.late)
         /\ b'.phase = "incompatible" => b.phase = "incompatible"
         /\ "reconnect" \in b'.timers <=> "reconnect" \in b.timers
    <2>1. CASE b' = y
      BY <1>7, <1>9, <1>10, <2>1 DEF Greeted, Keeps
    <2>2. CASE b' \in DoubtOutcomes(y)
      BY <1>7, <1>9, <1>10, <2>2, DoubtKeeps DEF Greeted
    <2> QED
      BY <1>1, <2>1, <2>2
  <1> QED
    BY <1>1, <1>2, <1>11 DEF TypeOK, IInv, Ready

LEMMA TakeAnswerKeeps ==
    ASSUME TypeOK, IInv, TakeAnswer
    PROVE  TypeOK' /\ IInv'
  <1> DEFINE h == Heard(b)
  <1>1. /\ b.socket = "open" /\ b.hello /\ UNCHANGED <<mode, world, history>>
        /\ b' = [h EXCEPT !.lag = TRUE] \/ b' \in DoubtOutcomes(h)
    BY DEF TakeAnswer, Usable
  <1>2. /\ h \in Page /\ PageInv(h) /\ Ready(h, history.refused)
        /\ Awake(h, world.online, history.refused)
        /\ Keeps(b, h, {"timers"})
        /\ "reconnect" \in h.timers <=> "reconnect" \in b.timers
    BY <1>1, HeardKeeps DEF TypeOK, IInv
  <1> HIDE DEF h
  <1>3. h.socket = "open" /\ h.hello /\ h.phase = b.phase
    BY <1>1, <1>2 DEF Keeps
  <1>4. /\ b' \in Page /\ PageInv(b')
        /\ Ready(b', history.refused) /\ Awake(b', world.online, history.refused)
        /\ Greeted(b', history.late)
        /\ b'.phase = "incompatible" => b.phase = "incompatible"
        /\ "reconnect" \in b'.timers <=> "reconnect" \in h.timers
    <2>1. CASE b' = [h EXCEPT !.lag = TRUE]
      <3>1. b' \in Page /\ Keeps(h, b', {"lag"})
        BY <1>2, <2>1 DEF Page, Keeps
      <3>2. PageInv(b')
        BY <1>2, <3>1 DEF Keeps, PageInv, Single, Dormant, Timed, Abreast
      <3> QED
        BY <1>2, <1>3, <3>1, <3>2 DEF Keeps, Ready, Awake, Greeted
    <2>2. CASE b' \in DoubtOutcomes(h)
      BY <1>2, <1>3, <2>2, DoubtKeeps DEF Greeted
    <2> QED
      BY <1>1, <2>1, <2>2
  <1> QED
    BY <1>1, <1>2, <1>4 DEF TypeOK, IInv, Ready

LEMMA ReconnectTimerKeeps ==
    ASSUME TypeOK, IInv, ReconnectTimer
    PROVE  TypeOK' /\ IInv'
  <1> DEFINE x == [b EXCEPT !.timers = @ \ {"reconnect"}]
  <1>1. /\ "reconnect" \in b.timers /\ UNCHANGED <<mode, world>>
        /\ b' \in IF ~world.online THEN {Down(x)}
                  ELSE IF x.suspended \/ x.closed THEN {x}
                  ELSE ReconnectOutcomes(x)
        /\ history' = [history EXCEPT !.barred = FALSE]
    BY DEF ReconnectTimer, Fires
  <1>2. /\ x \in Page /\ Keeps(b, x, {"timers"})
        /\ x.timers = b.timers \ {"reconnect"}
    BY DEF TypeOK, Page, Keeps
  <1> HIDE DEF x
  <1>3. /\ history' \in [barred : BOOLEAN, refused : BOOLEAN, cause : BOOLEAN,
                         late : BOOLEAN]
        /\ ~history'.barred /\ history'.refused = history.refused
        /\ history'.cause = history.cause /\ history'.late = history.late
    BY <1>1 DEF TypeOK
  <1>4. /\ x.socket = "none" /\ ~x.asking /\ ~x.closed /\ ~x.synced
        /\ "reconnect" \notin x.timers /\ x.phase \notin {"live", "incompatible"}
    BY <1>1, <1>2 DEF Keeps, IInv, PageInv, Single, Dormant, Abreast
  <1>5. PageInv(x)
    BY <1>2, <1>4 DEF Keeps, IInv, PageInv, Single, Dormant, Timed, Abreast
  <1>6. Ready(x, history.refused) /\ Greeted(x, history.late)
    BY <1>2, <1>4 DEF Keeps, IInv, Ready, Greeted
  <1>7. /\ b' \in Page /\ PageInv(b')
        /\ Ready(b', history.refused) /\ Awake(b', world.online, history.refused)
        /\ Greeted(b', history.late)
        /\ b'.phase # "incompatible"
    <2>1. CASE ~world.online
      <3>1. b' = Down(x)
        BY <1>1, <2>1
      <3>2. b' \in Page /\ Keeps(x, b', {"phase"}) /\ b'.phase = "disconnected"
        BY <1>2, <1>4, <3>1, DownDoes
      <3>3. PageInv(b')
        BY <1>4, <1>5, <3>2 DEF Keeps, PageInv, Single, Dormant, Timed, Abreast
      <3> QED
        BY <1>4, <1>6, <2>1, <3>2, <3>3 DEF Keeps, Ready, Awake, Greeted
    <2>2. CASE world.online /\ x.suspended
      <3>1. b' = x
        BY <1>1, <2>2
      <3> QED
        BY <1>2, <1>4, <1>5, <1>6, <2>2, <3>1 DEF Awake
    <2>3. CASE world.online /\ ~x.suspended
      <3>1. b' \in ReconnectOutcomes(x)
        BY <1>1, <1>4, <2>3
      <3>2. mode \in {"session", "token"}
        BY TransportAssumption DEF TypeOK
      <3>3. /\ PageInv(b')
            /\ Ready(b', history.refused) /\ Awake(b', world.online, history.refused)
            /\ Greeted(b', history.late)
            /\ b'.phase = "incompatible" => x.phase = "incompatible"
        BY <1>2, <1>4, <1>5, <1>6, <2>3, <3>1, <3>2, ReconnectKeeps
      <3>4. b' \in Page
        BY <1>2, <3>1, ReconnectDoes
      <3> QED
        BY <1>4, <3>3, <3>4
    <2> QED
      BY <2>1, <2>2, <2>3 DEF TypeOK
  <1> QED
    BY <1>1, <1>3, <1>7 DEF TypeOK, IInv, Ready

LEMMA RecoveryTimerKeeps ==
    ASSUME TypeOK, IInv, NEW t, RecoveryTimer(t)
    PROVE  TypeOK' /\ IInv'
  <1> DEFINE x == [b EXCEPT !.timers = @ \ {t}]
  <1>1. /\ t \in {"sync", "stale", "response"} /\ t \in b.timers
        /\ UNCHANGED <<mode, world, history>>
        /\ b' \in CASE t = "sync" /\ ~x.synced -> FaultOutcomes(x)
                    [] t = "stale" /\ ~x.synced -> {CloseSocket(x)}
                    [] t = "response" /\ x.probe = "liveness" -> {CloseSocket(x)}
                    [] OTHER -> {x}
    BY DEF RecoveryTimer, Fires
  <1>2. x \in Page /\ Keeps(b, x, {"timers"}) /\ x.timers = b.timers \ {t}
    BY DEF TypeOK, Page, Keeps
  <1> HIDE DEF x
  <1>3. "reconnect" \in x.timers <=> "reconnect" \in b.timers
    BY <1>1, <1>2
  <1>4. /\ Single(x) /\ Dormant(x) /\ Abreast(x)
        /\ "response" \in x.timers => x.probe = "liveness"
        /\ Ready(x, history.refused) /\ Awake(x, world.online, history.refused)
        /\ Greeted(x, history.late)
    BY <1>2, <1>3 DEF Keeps, IInv, PageInv, Single, Dormant, Timed, Abreast, Ready, Awake,
                      Greeted
  <1>5. /\ b' \in Page /\ PageInv(b')
        /\ Ready(b', history.refused) /\ Awake(b', world.online, history.refused)
        /\ Greeted(b', history.late)
        /\ b'.phase = "incompatible" => x.phase = "incompatible"
        /\ "reconnect" \in b'.timers <=> "reconnect" \in x.timers
    <2>1. CASE b' \in FaultOutcomes(x)
      BY <1>2, <1>4, <2>1, FaultKeeps DEF Abreast
    <2>2. CASE b' = CloseSocket(x)
      <3>1. /\ b' \in Page
            /\ Keeps(x, b', {"socket"})
            /\ b'.socket \notin {"open", "connecting"}
            /\ b'.socket = "none" <=> x.socket = "none"
            /\ b'.socket = "closing" <=> x.socket \in {"open", "closing"}
        BY <1>2, <2>2, CloseSocketDoes
      <3>2. PageInv(b')
        BY <1>4, <3>1 DEF Keeps, PageInv, Single, Dormant, Timed, Abreast
      <3> QED
        BY <1>4, <3>1, <3>2 DEF Keeps, Ready, Awake, Greeted
    <2>3. CASE b' = x /\ ~(t = "sync" /\ ~x.synced) /\ ~(t = "stale" /\ ~x.synced)
                      /\ ~(t = "response" /\ x.probe = "liveness")
      <3>1. x.synced
        BY <1>1, <1>2, <2>3 DEF Keeps, IInv, PageInv, Timed
      <3>2. Timed(x)
        BY <1>1, <1>2, <1>4, <2>3, <3>1 DEF Keeps, IInv, PageInv, Timed
      <3> QED
        BY <1>2, <1>4, <2>3, <3>2 DEF PageInv
    <2> QED
      BY <1>1, <2>1, <2>2, <2>3
  <1> QED
    BY <1>1, <1>2, <1>3, <1>5 DEF TypeOK, IInv, Keeps, Ready

LEMMA LivenessTimerKeeps ==
    ASSUME TypeOK, IInv, LivenessTimer
    PROVE  TypeOK' /\ IInv'
  <1> DEFINE x == [b EXCEPT !.timers = @ \ {"liveness"}]
             a == [x EXCEPT !.probe = "liveness", !.sent = TRUE,
                            !.timers = @ \union {"response"}]
  <1>1. /\ "liveness" \in b.timers /\ UNCHANGED <<mode, world, history>>
        /\ \/ b' = x /\ ~(x.socket = "open" /\ x.synced)
           \/ b' = CloseSocket(x)
           \/ b' = a /\ x.socket = "open" /\ x.synced /\ x.probe = "none"
    BY DEF LivenessTimer, Fires
  <1>2. /\ x \in Page /\ Keeps(b, x, {"timers"})
        /\ x.timers = b.timers \ {"liveness"}
    BY DEF TypeOK, Page, Keeps
  <1> HIDE DEF x
  <1>3. /\ a \in Page /\ Keeps(x, a, {"probe", "sent", "timers"})
        /\ a.probe = "liveness" /\ a.timers = x.timers \union {"response"}
    BY <1>2 DEF Page, Keeps, Probes, Timers, SocketTimers
  <1> HIDE DEF a
  <1>4. "reconnect" \in x.timers <=> "reconnect" \in b.timers
    BY <1>2
  <1>5. /\ Single(x) /\ Dormant(x) /\ Abreast(x)
        /\ "response" \in x.timers => x.probe = "liveness"
        /\ Ready(x, history.refused) /\ Awake(x, world.online, history.refused)
        /\ Greeted(x, history.late)
    BY <1>2, <1>4 DEF Keeps, IInv, PageInv, Single, Dormant, Timed, Abreast, Ready, Awake,
                      Greeted
  <1>6. /\ b' \in Page /\ PageInv(b')
        /\ Ready(b', history.refused) /\ Awake(b', world.online, history.refused)
        /\ Greeted(b', history.late)
        /\ b'.phase = x.phase
        /\ "reconnect" \in b'.timers <=> "reconnect" \in x.timers
    <2>1. CASE b' = x /\ ~(x.socket = "open" /\ x.synced)
      <3>1. Timed(x)
        BY <1>2, <1>5, <2>1 DEF Keeps, IInv, PageInv, Timed
      <3> QED
        BY <1>2, <1>5, <2>1, <3>1 DEF PageInv
    <2>2. CASE b' = CloseSocket(x)
      <3>1. /\ b' \in Page
            /\ Keeps(x, b', {"socket"})
            /\ b'.socket \notin {"open", "connecting"}
            /\ b'.socket = "none" <=> x.socket = "none"
            /\ b'.socket = "closing" <=> x.socket \in {"open", "closing"}
        BY <1>2, <2>2, CloseSocketDoes
      <3>2. PageInv(b')
        BY <1>5, <3>1 DEF Keeps, PageInv, Single, Dormant, Timed, Abreast
      <3> QED
        BY <1>5, <3>1, <3>2 DEF Keeps, Ready, Awake, Greeted
    <2>3. CASE b' = a /\ x.socket = "open" /\ x.synced /\ x.probe = "none"
      <3>1. /\ "reconnect" \in a.timers <=> "reconnect" \in x.timers
            /\ "response" \in a.timers
        BY <1>3
      <3>2. PageInv(a)
        BY <1>3, <1>5, <2>3, <3>1 DEF Keeps, PageInv, Single, Dormant, Timed, Abreast
      <3> QED
        BY <1>3, <1>5, <2>3, <3>1, <3>2 DEF Keeps, Ready, Awake, Greeted
    <2> QED
      BY <1>1, <2>1, <2>2, <2>3
  <1> QED
    BY <1>1, <1>2, <1>4, <1>6 DEF TypeOK, IInv, Keeps, Ready

LEMMA SnapshotWaitTimerKeeps ==
    ASSUME TypeOK, IInv, SnapshotWaitTimer
    PROVE  TypeOK' /\ IInv'
  <1> DEFINE x == [b EXCEPT !.wait = FALSE]
  <1>1. /\ UNCHANGED <<mode, world, history>>
        /\ b' \in IF x.phase = "stale" THEN AskOutcomes(x) ELSE {x}
    BY DEF SnapshotWaitTimer
  <1>2. x \in Page /\ Keeps(b, x, {"wait"})
    BY DEF TypeOK, Page, Keeps
  <1> HIDE DEF x
  <1>3. /\ PageInv(x) /\ Ready(x, history.refused)
        /\ Awake(x, world.online, history.refused) /\ Greeted(x, history.late)
    BY <1>2 DEF Keeps, IInv, PageInv, Single, Dormant, Timed, Abreast, Ready, Awake, Greeted
  <1>4. /\ b' \in Page /\ PageInv(b')
        /\ Ready(b', history.refused) /\ Awake(b', world.online, history.refused)
        /\ Greeted(b', history.late)
        /\ b'.phase = x.phase
        /\ "reconnect" \in b'.timers <=> "reconnect" \in x.timers
    <2>1. CASE x.phase = "stale"
      <3>1. [x EXCEPT !.phase = "stale"] = x
        BY <1>2, <2>1 DEF Page
      <3>2. b' \in DoubtOutcomes(x)
        BY <1>1, <2>1, <3>1 DEF DoubtOutcomes
      <3>3. /\ b' \in Page /\ PageInv(b')
            /\ Ready(b', history.refused) /\ Awake(b', world.online, history.refused)
            /\ b'.phase = "stale" /\ b'.hello = x.hello /\ b'.socket = x.socket
            /\ "reconnect" \in b'.timers <=> "reconnect" \in x.timers
        BY <1>2, <1>3, <3>2, DoubtKeeps
      <3> QED
        BY <1>3, <2>1, <3>3 DEF Greeted
    <2>2. CASE x.phase # "stale"
      BY <1>1, <1>2, <1>3, <2>2
    <2> QED
      BY <2>1, <2>2
  <1> QED
    BY <1>1, <1>2, <1>4 DEF TypeOK, IInv, Keeps, Ready

LEMMA RevisionLagTimerKeeps ==
    ASSUME TypeOK, IInv, RevisionLagTimer
    PROVE  TypeOK' /\ IInv'
  <1> DEFINE x == [b EXCEPT !.lag = FALSE]
             l == history.late \/ (b.phase = "hello" /\ b'.phase = "stale")
  <1>1. /\ UNCHANGED <<mode, world>>
        /\ b' = x \/ b' \in DoubtOutcomes(x)
        /\ history' = [history EXCEPT !.late = l]
    BY DEF RevisionLagTimer
  <1>2. x \in Page /\ Keeps(b, x, {"lag"})
    BY DEF TypeOK, Page, Keeps
  <1> HIDE DEF x
  <1>3. l \in BOOLEAN
    BY DEF TypeOK
  <1>4. /\ history' \in [barred : BOOLEAN, refused : BOOLEAN, cause : BOOLEAN,
                         late : BOOLEAN]
        /\ history'.late = l /\ history'.barred = history.barred
        /\ history'.refused = history.refused /\ history'.cause = history.cause
    <2> HIDE DEF l
    <2> QED
      BY <1>1, <1>3 DEF TypeOK
  <1>5. /\ PageInv(x) /\ Ready(x, history.refused)
        /\ Awake(x, world.online, history.refused) /\ Greeted(x, history.late)
    BY <1>2 DEF Keeps, IInv, PageInv, Single, Dormant, Timed, Abreast, Ready, Awake, Greeted
  <1>6. /\ b' \in Page /\ PageInv(b')
        /\ Ready(b', history.refused) /\ Awake(b', world.online, history.refused)
        /\ Greeted(b', l)
        /\ b'.phase = "incompatible" => x.phase = "incompatible"
        /\ "reconnect" \in b'.timers <=> "reconnect" \in x.timers
    <2>1. CASE b' = x
      BY <1>2, <1>5, <2>1 DEF Greeted
    <2>2. CASE b' \in DoubtOutcomes(x)
      <3>1. /\ b' \in Page /\ PageInv(b')
            /\ Ready(b', history.refused) /\ Awake(b', world.online, history.refused)
            /\ b'.phase = "stale" /\ b'.hello = x.hello /\ b'.socket = x.socket
            /\ "reconnect" \in b'.timers <=> "reconnect" \in x.timers
        BY <1>2, <1>5, <2>2, DoubtKeeps
      <3>2. Greeted(b', l)
        BY <1>2, <1>5, <3>1 DEF Greeted, Keeps
      <3> QED
        BY <3>1, <3>2
    <2> QED
      BY <1>1, <2>1, <2>2
  <1> QED
    BY <1>1, <1>2, <1>4, <1>6 DEF TypeOK, IInv, Keeps, Ready

LEMMA GoOnlineKeeps ==
    ASSUME TypeOK, IInv, GoOnline
    PROVE  TypeOK' /\ IInv'
  <1>1. /\ world' = [world EXCEPT !.online = TRUE]
        /\ b' \in IF b.closed \/ b.suspended \/ Underway(b)
                  THEN {b} ELSE ReconnectOutcomes(b)
        /\ UNCHANGED <<mode, history>>
    BY DEF GoOnline
  <1>2. /\ world'.online
        /\ world' \in [online : BOOLEAN, server : 1 .. MaxEpochs, calm : BOOLEAN,
                       owed : BOOLEAN]
    BY <1>1 DEF TypeOK
  <1>3. CASE b.closed \/ b.suspended \/ Underway(b)
    <2>1. b' = b
      BY <1>1, <1>3
    <2> QED
      BY <1>1, <1>2, <1>3, <2>1 DEF TypeOK, IInv, Ready, Awake, Underway
  <1>4. CASE ~(b.closed \/ b.suspended \/ Underway(b))
    <2>1. b' \in ReconnectOutcomes(b)
      BY <1>1, <1>4
    <2>2. mode \in {"session", "token"} /\ b \in Page
      BY TransportAssumption DEF TypeOK
    <2>3. /\ b.socket = "none" /\ ~b.asking /\ "reconnect" \notin b.timers
          /\ ~b.suspended /\ ~b.closed
      BY <1>4 DEF Underway
    <2>4. /\ PageInv(b')
          /\ Ready(b', history.refused) /\ Awake(b', world'.online, history.refused)
          /\ Greeted(b', history.late)
          /\ b'.phase = "incompatible" => b.phase = "incompatible"
      BY <2>1, <2>2, <2>3, ReconnectKeeps DEF IInv
    <2>5. b' \in Page
      BY <2>1, <2>2, ReconnectDoes
    <2> QED
      BY <1>1, <1>2, <2>3, <2>4, <2>5 DEF TypeOK, IInv, Ready
  <1> QED
    BY <1>3, <1>4

LEMMA GoOfflineKeeps ==
    ASSUME TypeOK, IInv, GoOffline
    PROVE  TypeOK' /\ IInv'
  <1> DEFINE u == Unwatched(b)
             q == [u EXCEPT !.synced = FALSE]
             c == CloseSocket(q)
             x == Down(c)
             z == [x EXCEPT !.asking = FALSE]
  <1>1. /\ b' = IF x.asking THEN Schedule(z, AuthAction) ELSE x
        /\ world' = [world EXCEPT !.online = FALSE]
        /\ UNCHANGED <<mode, history>>
    BY DEF GoOffline
  <1>2. u \in Page /\ Keeps(b, u, {"timers"}) /\ u.timers = b.timers \ SocketTimers
    BY UnwatchedDoes DEF TypeOK
  <1> HIDE DEF u
  <1>3. q \in Page /\ Keeps(u, q, {"synced"}) /\ ~q.synced
    BY <1>2 DEF Page, Keeps
  <1> HIDE DEF q
  <1>4. /\ c \in Page
        /\ Keeps(q, c, {"socket"})
        /\ c.socket \notin {"open", "connecting"}
        /\ c.socket = "none" <=> q.socket = "none"
    BY <1>3, CloseSocketDoes
  <1> HIDE DEF c
  <1>5. x \in Page /\ Keeps(c, x, {"phase"}) /\ x.phase = DownPhase(c.phase)
    BY <1>4, DownDoes DEF DownPhase
  <1> HIDE DEF x
  <1>6. z \in Page /\ Keeps(x, z, {"asking"}) /\ ~z.asking
    BY <1>5 DEF Page, Keeps
  <1> HIDE DEF z
  <1>7. /\ Keeps(b, x, {"timers", "synced", "socket", "phase"})
        /\ x.phase = DownPhase(b.phase) /\ ~x.synced
        /\ x.socket \notin {"open", "connecting"}
        /\ x.socket = "none" <=> b.socket = "none"
        /\ x.timers = b.timers \ SocketTimers
    BY <1>2, <1>3, <1>4, <1>5 DEF Keeps
  <1>8. /\ "reconnect" \in x.timers <=> "reconnect" \in b.timers
        /\ "response" \notin x.timers
        /\ b.timers = {} => x.timers = {}
        /\ x.phase \in {"disconnected", "incompatible"}
        /\ x.phase = "incompatible" => b.phase = "incompatible"
    BY <1>7 DEF SocketTimers, DownPhase
  <1>9. PageInv(x)
    BY <1>7, <1>8 DEF Keeps, IInv, PageInv, Single, Dormant, Timed, Abreast
  <1>10. Ready(x, history.refused) /\ Greeted(x, history.late)
    BY <1>7 DEF Keeps, IInv, Ready, Greeted
  <1>11. /\ ~world'.online
         /\ world' \in [online : BOOLEAN, server : 1 .. MaxEpochs, calm : BOOLEAN,
                        owed : BOOLEAN]
    BY <1>1 DEF TypeOK
  <1>12. CASE ~x.asking
    <2>1. b' = x
      BY <1>1, <1>12
    <2> QED
      BY <1>1, <1>5, <1>8, <1>9, <1>10, <1>11, <2>1 DEF TypeOK, IInv, Ready, Awake
  <1>13. CASE x.asking
    <2>1. b' = Schedule(z, AuthAction)
      BY <1>1, <1>13
    <2>2. /\ x.socket = "none" /\ ~x.suspended /\ ~x.closed /\ x.phase # "incompatible"
          /\ b.asking
      BY <1>7, <1>9, <1>13 DEF Keeps, PageInv, Single, Dormant
    <2>3. /\ z.socket = "none" /\ ~z.synced /\ ~z.closed /\ ~z.suspended
          /\ z.phase \notin {"live", "incompatible"}
          /\ mode = "token" => z.token
      BY <1>6, <1>7, <1>8, <1>10, <1>13, <2>2 DEF Keeps, Ready
    <2>4. PageInv(z)
      BY <1>6, <1>9, <2>2, <2>3 DEF Keeps, PageInv, Single, Dormant, Timed, Abreast
    <2>5. AuthAction \in Actions /\ AuthAction # "connect"
      BY DEF AuthAction, Actions
    <2>6. mode \in {"session", "token"}
      BY TransportAssumption DEF TypeOK
    <2>7. /\ history.refused \in BOOLEAN /\ history.late \in BOOLEAN
          /\ world'.online \in BOOLEAN
      BY <1>11 DEF TypeOK
    <2>8. /\ b' \in Page /\ PageInv(b')
          /\ Ready(b', history.refused) /\ Awake(b', world'.online, history.refused)
          /\ Greeted(b', history.late)
          /\ b'.phase # "incompatible" /\ "reconnect" \in b'.timers
      BY <1>6, <2>1, <2>3, <2>4, <2>5, <2>6, <2>7, RescheduledKeeps
    <2> QED
      BY <1>1, <1>11, <2>8 DEF TypeOK, IInv, Ready
  <1> QED
    BY <1>12, <1>13

LEMMA PageHideKeeps ==
    ASSUME TypeOK, IInv, PageHide
    PROVE  TypeOK' /\ IInv'
  <1> DEFINE i == Interrupted(b)
             u == Unwatched(i)
             x == [u EXCEPT !.suspended = TRUE, !.synced = FALSE, !.socket = "none"]
             k == history.barred /\ ~b'.closed
  <1>1. /\ b' = Down(x) \/ b' = Forget(b)
        /\ world' = [world EXCEPT !.owed = FALSE]
        /\ history' = [history EXCEPT !.barred = k]
        /\ UNCHANGED mode
    BY DEF PageHide
  <1>2. /\ world'.online = world.online
        /\ world' \in [online : BOOLEAN, server : 1 .. MaxEpochs, calm : BOOLEAN,
                       owed : BOOLEAN]
    BY <1>1 DEF TypeOK
  <1>3. k \in BOOLEAN
    BY DEF TypeOK
  <1>4. /\ history' \in [barred : BOOLEAN, refused : BOOLEAN, cause : BOOLEAN,
                         late : BOOLEAN]
        /\ history'.barred => history.barred /\ ~b'.closed
        /\ history'.refused = history.refused
        /\ history'.cause = history.cause /\ history'.late = history.late
    <2>1. k => history.barred /\ ~b'.closed
      OBVIOUS
    <2> HIDE DEF k
    <2> QED
      BY <1>1, <1>3, <2>1 DEF TypeOK
  <1> HIDE DEF k
  <1>5. mode \in {"session", "token"}
    BY TransportAssumption DEF TypeOK
  <1>6. CASE b' = Forget(b)
    <2>1. /\ b' \in Page /\ b'.closed /\ ~b'.suspended /\ ~b'.synced /\ ~b'.asking
          /\ b'.timers = {} /\ b'.socket = "none" /\ b'.phase = b.phase
      BY <1>6, ForgetDoes DEF TypeOK
    <2>2. /\ PageInv(b') /\ Ready(b, history.refused)'
          /\ Awake(b', world'.online, history'.refused) /\ Greeted(b', history'.late)
      BY <2>1, GivenUpKeeps DEF Ready
    <2> QED
      BY <1>1, <1>2, <1>4, <2>1, <2>2 DEF TypeOK, IInv
  <1>7. CASE b' = Down(x)
    <2>1. /\ i \in Page /\ Keeps(b, i, {"action", "asking"}) /\ ~i.asking
          /\ i.action = IF b.asking THEN AuthAction ELSE b.action
      BY <1>5, InterruptedDoes DEF TypeOK
    <2> HIDE DEF i
    <2>2. u \in Page /\ Keeps(i, u, {"timers"}) /\ u.timers = i.timers \ SocketTimers
      BY <2>1, UnwatchedDoes
    <2> HIDE DEF u
    <2>3. /\ x \in Page /\ Keeps(u, x, {"suspended", "synced", "socket"})
          /\ x.suspended /\ ~x.synced /\ x.socket = "none"
      BY <2>2 DEF Page, Keeps, SocketStates
    <2> HIDE DEF x
    <2>4. b' \in Page /\ Keeps(x, b', {"phase"}) /\ b'.phase = DownPhase(x.phase)
      BY <1>7, <2>3, DownDoes DEF DownPhase
    <2>5. /\ Keeps(b, b', {"action", "asking", "timers", "suspended", "synced", "socket",
                           "phase"})
          /\ b'.action = IF b.asking THEN AuthAction ELSE b.action
          /\ ~b'.asking /\ b'.suspended /\ ~b'.synced /\ b'.socket = "none"
          /\ b'.timers = b.timers \ SocketTimers
          /\ b'.phase = DownPhase(b.phase)
      <3>1. /\ Keeps(b, u, {"action", "asking", "timers"})
            /\ u.action = i.action /\ ~u.asking /\ u.timers = b.timers \ SocketTimers
        BY <2>1, <2>2 DEF Keeps
      <3>2. /\ Keeps(b, x, {"action", "asking", "timers", "suspended", "synced", "socket"})
            /\ x.action = i.action /\ ~x.asking /\ x.timers = b.timers \ SocketTimers
        BY <2>3, <3>1 DEF Keeps
      <3>3. Keeps(b, b', {"action", "asking", "timers", "suspended", "synced", "socket",
                          "phase"})
        BY <2>4, <3>2 DEF Keeps
      <3>4. /\ b'.action = i.action /\ ~b'.asking /\ b'.suspended /\ ~b'.synced
            /\ b'.socket = "none" /\ b'.timers = b.timers \ SocketTimers
            /\ b'.phase = DownPhase(b.phase)
        BY <2>3, <2>4, <3>2 DEF Keeps
      <3> QED
        BY <2>1, <3>3, <3>4
    <2>6. /\ "reconnect" \in b'.timers <=> "reconnect" \in b.timers
          /\ "response" \notin b'.timers
          /\ b.timers = {} => b'.timers = {}
          /\ b'.phase \in {"disconnected", "incompatible"}
          /\ b'.phase = "incompatible" => b.phase = "incompatible"
      BY <2>5 DEF SocketTimers, DownPhase
    <2>7. PageInv(b')
      BY <2>5, <2>6 DEF Keeps, IInv, PageInv, Single, Dormant, Timed, Abreast
    <2>8. Ready(b, history.refused)'
      BY <1>1, <1>4, <2>5 DEF Keeps, IInv, Ready, AuthAction
    <2>9. Awake(b', world'.online, history'.refused) /\ Greeted(b', history'.late)
      BY <2>5 DEF Awake, Greeted
    <2> QED
      BY <1>1, <1>2, <1>4, <2>4, <2>6, <2>7, <2>8, <2>9 DEF TypeOK, IInv
  <1> QED
    BY <1>1, <1>6, <1>7

LEMMA PageShowKeeps ==
    ASSUME TypeOK, IInv, PageShow
    PROVE  TypeOK' /\ IInv'
  <1> DEFINE s == [b EXCEPT !.suspended = FALSE]
             x == Down(s)
  <1>1. /\ b.suspended /\ ~b.closed /\ UNCHANGED <<mode, world, history>>
        /\ b' \in IF ~world.online \/ "reconnect" \in x.timers \/ x.asking
                  THEN {x} ELSE ReconnectOutcomes(x)
    BY DEF PageShow
  <1>2. s \in Page /\ Keeps(b, s, {"suspended"}) /\ ~s.suspended
    BY DEF TypeOK, Page, Keeps
  <1> HIDE DEF s
  <1>3. x \in Page /\ Keeps(s, x, {"phase"}) /\ x.phase = DownPhase(s.phase)
    BY <1>2, DownDoes DEF DownPhase
  <1> HIDE DEF x
  <1>4. /\ Keeps(b, x, {"suspended", "phase"}) /\ ~x.suspended
        /\ x.phase = DownPhase(b.phase)
    BY <1>2, <1>3 DEF Keeps
  <1>5. /\ x.socket = "none" /\ ~x.asking /\ ~x.closed /\ ~x.synced
        /\ x.phase = "disconnected"
    BY <1>1, <1>4 DEF Keeps, IInv, PageInv, Dormant, Abreast, DownPhase
  <1>6. PageInv(x)
    BY <1>4, <1>5 DEF Keeps, IInv, PageInv, Single, Dormant, Timed, Abreast
  <1>7. Ready(x, history.refused) /\ Greeted(x, history.late)
    BY <1>4, <1>5 DEF Keeps, IInv, Ready, Greeted
  <1>8. /\ b' \in Page /\ PageInv(b')
        /\ Ready(b', history.refused) /\ Awake(b', world.online, history.refused)
        /\ Greeted(b', history.late)
        /\ b'.phase # "incompatible"
        /\ "reconnect" \in b.timers => "reconnect" \in b'.timers
    <2>1. CASE ~world.online \/ "reconnect" \in x.timers
      <3>1. b' = x
        BY <1>1, <2>1
      <3> QED
        BY <1>3, <1>4, <1>5, <1>6, <1>7, <2>1, <3>1 DEF Awake, Keeps
    <2>2. CASE world.online /\ "reconnect" \notin x.timers
      <3>1. b' \in ReconnectOutcomes(x)
        BY <1>1, <1>5, <2>2
      <3>2. mode \in {"session", "token"}
        BY TransportAssumption DEF TypeOK
      <3>3. /\ PageInv(b')
            /\ Ready(b', history.refused) /\ Awake(b', world.online, history.refused)
            /\ Greeted(b', history.late)
            /\ b'.phase = "incompatible" => x.phase = "incompatible"
        BY <1>3, <1>4, <1>5, <1>6, <1>7, <2>2, <3>1, <3>2, ReconnectKeeps
      <3>4. b' \in Page
        BY <1>3, <3>1, ReconnectDoes
      <3>5. "reconnect" \notin b.timers
        BY <1>4, <2>2 DEF Keeps
      <3> QED
        BY <1>5, <3>3, <3>4, <3>5
    <2> QED
      BY <2>1, <2>2
  <1> QED
    BY <1>1, <1>8 DEF TypeOK, IInv, Ready

LEMMA LoseKeeps ==
    ASSUME TypeOK, IInv, Lose
    PROVE  TypeOK' /\ IInv'
  <1> DEFINE m == b.socket = "open"
  <1>1. /\ b' = [b EXCEPT !.mute = m]
        /\ \/ UNCHANGED world
           \/ /\ world.server < MaxEpochs
              /\ world' = [world EXCEPT !.server = @ + 1, !.owed = FALSE]
        /\ UNCHANGED <<mode, history>>
    BY DEF Lose
  <1>2. m \in BOOLEAN
    OBVIOUS
  <1> HIDE DEF m
  <1>3. b' \in Page /\ Keeps(b, b', {"mute"})
    BY <1>1, <1>2 DEF TypeOK, Page, Keeps
  <1>4. /\ world'.online = world.online
        /\ world' \in [online : BOOLEAN, server : 1 .. MaxEpochs, calm : BOOLEAN,
                       owed : BOOLEAN]
    <2>1. CASE UNCHANGED world
      BY <2>1 DEF TypeOK
    <2>2. CASE /\ world.server < MaxEpochs
               /\ world' = [world EXCEPT !.server = @ + 1, !.owed = FALSE]
      <3>1. world.server + 1 \in 1 .. MaxEpochs
        BY <2>2, TransportAssumption DEF TypeOK
      <3> QED
        BY <2>2, <3>1 DEF TypeOK
    <2> QED
      BY <1>1, <2>1, <2>2
  <1>5. PageInv(b')
    BY <1>3 DEF Keeps, IInv, PageInv, Single, Dormant, Timed, Abreast
  <1>6. /\ Ready(b', history.refused) /\ Awake(b', world.online, history.refused)
        /\ Greeted(b', history.late)
    BY <1>3 DEF Keeps, IInv, Ready, Awake, Greeted
  <1> QED
    BY <1>1, <1>3, <1>4, <1>5, <1>6 DEF TypeOK, IInv, Keeps, Ready

LEMMA CalmKeeps ==
    ASSUME TypeOK, IInv, Calm
    PROVE  TypeOK' /\ IInv'
  <1>1. world' = [world EXCEPT !.calm = TRUE] /\ UNCHANGED <<mode, b, history>>
    BY DEF Calm
  <1>2. /\ world'.online = world.online
        /\ world' \in [online : BOOLEAN, server : 1 .. MaxEpochs, calm : BOOLEAN,
                       owed : BOOLEAN]
    BY <1>1 DEF TypeOK
  <1> QED
    BY <1>1, <1>2 DEF TypeOK, IInv, Ready

LEMMA TransportStep ==
    ASSUME TypeOK, IInv, [Next]_vars
    PROVE  TypeOK' /\ IInv'
  <1>1. CASE UNCHANGED vars
    BY <1>1 DEF vars, TypeOK, IInv, Ready
  <1>2. CASE AuthAccepted
    BY <1>2, AuthAcceptedKeeps
  <1>3. CASE AuthFailed
    BY <1>3, AuthFailedKeeps
  <1>4. CASE AuthRefused
    BY <1>4, AuthRefusedKeeps
  <1>5. CASE SocketOpens
    BY <1>5, SocketOpensKeeps
  <1>6. CASE ProofMismatch
    BY <1>6, ProofMismatchKeeps
  <1>7. CASE SocketClosed
    BY <1>7, SocketClosedKeeps
  <1>8. CASE Clog
    BY <1>8, ClogKeeps
  <1>9. CASE TakeHello
    BY <1>9, TakeHelloKeeps
  <1>10. CASE TakeSnapshot
    BY <1>10, TakeSnapshotKeeps
  <1>11. CASE TakePatch
    BY <1>11, TakePatchKeeps
  <1>12. CASE TakeNonsense
    BY <1>12, TakeNonsenseKeeps
  <1>13. CASE TakeProbeAnswer
    BY <1>13, TakeProbeAnswerKeeps
  <1>14. CASE TakeAnswer
    BY <1>14, TakeAnswerKeeps
  <1>15. CASE ReconnectTimer
    BY <1>15, ReconnectTimerKeeps
  <1>16. CASE LivenessTimer
    BY <1>16, LivenessTimerKeeps
  <1>17. CASE SnapshotWaitTimer
    BY <1>17, SnapshotWaitTimerKeeps
  <1>18. CASE RevisionLagTimer
    BY <1>18, RevisionLagTimerKeeps
  <1>19. ASSUME NEW t \in SocketTimers, RecoveryTimer(t)
         PROVE  TypeOK' /\ IInv'
    BY <1>19, RecoveryTimerKeeps
  <1>20. CASE GoOnline
    BY <1>20, GoOnlineKeeps
  <1>21. CASE GoOffline
    BY <1>21, GoOfflineKeeps
  <1>22. CASE PageHide
    BY <1>22, PageHideKeeps
  <1>23. CASE PageShow
    BY <1>23, PageShowKeeps
  <1>24. CASE Lose
    BY <1>24, LoseKeeps
  <1>25. CASE Calm
    BY <1>25, CalmKeeps
  <1> QED
    BY <1>1, <1>2, <1>3, <1>4, <1>5, <1>6, <1>7, <1>8, <1>9, <1>10, <1>11, <1>12, <1>13,
       <1>14, <1>15, <1>16, <1>17, <1>18, <1>19, <1>20, <1>21, <1>22, <1>23, <1>24, <1>25
       DEF Next

LEMMA TransportInvariant == Spec => [](TypeOK /\ IInv)
  <1>1. Init => TypeOK /\ IInv
    BY TransportInit
  <1>2. TypeOK /\ IInv /\ [Next]_vars => (TypeOK /\ IInv)'
    BY TransportStep
  <1> QED
    BY <1>1, <1>2, PTL DEF Spec

-----------------------------------------------------------------------------

(* The state of the page, the world and the observations keeps its type,     *)
(* whatever the refresh interval and the number of processes: the counter of *)
(* failures never passes the interval, and every proof is one of a process   *)
(* that was started (transport.ts, #preopenReconnectAction).                 *)
THEOREM TransportTypeCorrect == Spec => []TypeOK
  BY TransportInvariant, PTL

(* There is one way to a connection at a time: an authentication, a          *)
(* scheduled retry and a socket exclude one another                          *)
(* (#connectionWorkInFlight, #handleOnline).                                 *)
THEOREM OneAttemptCorrect == Spec => []OneAttempt
  <1>1. IInv => OneAttempt
    BY DEF IInv, PageInv, Single, OneAttempt
  <1> QED
    BY <1>1, TransportInvariant, PTL

(* A page never falls asleep: one that is shown, has the network and was not *)
(* refused is on its way to a socket or has one, and a timer watches every   *)
(* open socket (#handlePageShow, #handleOnline, #armLivenessTimer).          *)
THEOREM AttendedCorrect == Spec => []Attended
  <1>1. TypeOK /\ IInv => Attended
    <2> SUFFICES ASSUME TypeOK, IInv
                 PROVE  Attended
      OBVIOUS
    <2>1. Woken
      BY DEF IInv, Awake, Woken
    <2>2. Watched
      BY DEF IInv, PageInv, Timed, Watched
    <2> QED
      BY <2>1, <2>2 DEF Attended
  <1> QED
    BY <1>1, TransportInvariant, PTL

(* The transport takes itself for synchronized exactly when the page shows a *)
(* live state (markSynchronized, markStale).                                 *)
THEOREM AgreeCorrect == Spec => []Agree
  <1>1. IInv => Agree
    BY DEF IInv, PageInv, Abreast, Agree
  <1> QED
    BY <1>1, TransportInvariant, PTL

(* A time to wait that the server has asked for is kept                      *)
(* (retryAfterMilliseconds).                                                 *)
THEOREM RetryAfterCorrect == Spec => []RetryAfterKept
  <1>1. IInv => RetryAfterKept
    BY DEF IInv, PageInv, Single, RetryAfterKept
  <1> QED
    BY <1>1, TransportInvariant, PTL

(* A page gives its controls up for good only for what the server has sent,  *)
(* or for the lag timer of an earlier connection (closePermanently,          *)
(* #scheduleRevisionLag).                                                    *)
THEOREM ClosedForCauseCorrect == Spec => []ClosedForCause
  <1>1. IInv => ClosedForCause
    BY DEF IInv, ClosedForCause
  <1> QED
    BY <1>1, TransportInvariant, PTL
=============================================================================
