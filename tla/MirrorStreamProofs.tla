--------------------------- MODULE MirrorStreamProofs ---------------------------
(* Theorems about MirrorStream, for every set of sections, every capacity   *)
(* of the ring and of the socket, and any number of revisions and           *)
(* connections.                                                             *)
EXTENDS MirrorStream, SequenceTheorems, TLAPS

USE SectionAssumption, MirrorBounds, StateAssumption

-----------------------------------------------------------------------------
(* Patches and messages.                                                   *)

(* A patch replaces some of the sections.                                   *)
LEMMA BetweenType ==
    ASSUME NEW s \in States, NEW t \in States
    PROVE  Between(s, t) \in Changes
  <1> DEFINE D == {y \in Sections : s[y] # t[y]}
  <1>1. D \in SUBSET Sections
    OBVIOUS
  <1>2. \A x \in D : t[x] \in Values
    BY DEF States
  <1>3. Between(s, t) = [x \in D |-> t[x]]
    BY DEF Between
  <1> HIDE DEF D
  <1>4. Between(s, t) \in [D -> Values]
    BY <1>2, <1>3
  <1> QED
    BY <1>1, <1>4 DEF Changes

(* A patch leads from a state to a state.                                   *)
LEMMA ApplyType ==
    ASSUME NEW s \in States, NEW ch \in Changes
    PROVE  Apply(s, ch) \in States
  <1>1. PICK S \in SUBSET Sections : ch \in [S -> Values]
    BY DEF Changes
  <1>2. \A x \in Sections :
            (IF x \in DOMAIN ch THEN ch[x] ELSE s[x]) \in Values
    BY <1>1 DEF States
  <1> QED
    BY <1>2 DEF Apply, States

(* What is sent is a message.                                               *)
LEMMA MessageType ==
    ASSUME NEW r \in Revisions
    PROVE  /\ Hello(r) \in Messages
           /\ Answer(r) \in Messages
           /\ \A s \in States : Snapshot(r, s) \in Messages
           /\ \A ch \in Changes : Patch(r, ch) \in Messages
  BY DEF Messages, Hello, Answer, Snapshot, Patch

(* What a message carries.                                                  *)
LEMMA MessageParts ==
    ASSUME NEW m \in Messages
    PROVE  /\ m.rev \in Revisions
           /\ m.kind = "snapshot" => m.state \in States
           /\ m.kind = "patch" => m.changes \in Changes
  <1>1. CASE m \in [kind : {"hello", "answer"}, rev : Revisions]
    BY <1>1
  <1>2. CASE m \in [kind : {"snapshot"}, rev : Revisions, state : States]
    BY <1>2
  <1>3. CASE m \in [kind : {"patch"}, rev : Revisions, changes : Changes]
    BY <1>3
  <1> QED
    BY <1>1, <1>2, <1>3 DEF Messages

(* Reading the first message leaves the others.                             *)
LEMMA WireTail ==
    ASSUME wire \in Seq(Messages), wire # <<>>
    PROVE  /\ Head(wire) \in Messages
           /\ Head(wire) = wire[1]
           /\ Tail(wire) \in Seq(Messages)
           /\ Len(wire) \in Nat \ {0}
           /\ Len(Tail(wire)) = Len(wire) - 1
           /\ \A i \in 1 .. Len(wire) - 1 : Tail(wire)[i] = wire[i + 1]
  OBVIOUS

(* Sending appends one.                                                     *)
LEMMA WireAppend ==
    ASSUME wire \in Seq(Messages), NEW m \in Messages
    PROVE  /\ Append(wire, m) \in Seq(Messages)
           /\ Len(wire) \in Nat
           /\ Len(Append(wire, m)) = Len(wire) + 1
           /\ \A i \in 1 .. Len(wire) : Append(wire, m)[i] = wire[i]
           /\ Append(wire, m)[Len(wire) + 1] = m
  OBVIOUS

(* The patch that a receiver goes on with after an overrun is in the ring.  *)
LEMMA OldestType ==
    ASSUME broadcast \in Nat
    PROVE  /\ Oldest \in 1 .. broadcast + 1
           /\ broadcast >= 1 => Oldest <= broadcast
  BY DEF Oldest

-----------------------------------------------------------------------------
(* Type correctness.                                                       *)

(* The locals of a connection when revision is r.                           *)
Nexts(r) == 1 .. r + 1
Lasts(r) == 0 .. r
Views    == States \cup {NoState}

LocalsAt(r) == [phase : ConnPhases, next : Nexts(r), fresh : BOOLEAN,
                last : Lasts(r), known : Views, patched : Views]

Remote == [phase : BrowserPhases, hello : Revisions, view : Views,
           rev : Revisions]

(* A new revision takes nothing from the ranges of the locals.              *)
LEMMA LocalsGrow ==
    ASSUME NEW r \in Nat, NEW c \in LocalsAt(r)
    PROVE  c \in LocalsAt(r + 1)
  <1>1. Nexts(r) \subseteq Nexts(r + 1) /\ Lasts(r) \subseteq Lasts(r + 1)
    BY DEF Nexts, Lasts
  <1> QED
    BY <1>1 DEF LocalsAt

(* A connection that is made, and one that is gone, has none of the state.  *)
LEMMA NoConnectionType ==
    ASSUME NEW r \in Nat
    PROVE  NoConnection \in LocalsAt(r)
  <1>1. 1 \in Nexts(r) /\ 0 \in Lasts(r) /\ NoState \in Views
    BY DEF Nexts, Lasts, Views
  <1> QED
    BY <1>1 DEF NoConnection, LocalsAt, ConnPhases

(* Sending the latest snapshot keeps the type.                              *)
LEMMA SendLatestType ==
    ASSUME TypeOK, NEW c \in LocalsAt(revision), SendLatest(c)
    PROVE  /\ conn' \in LocalsAt(revision)
           /\ wire' \in Seq(Messages) /\ Len(wire') <= WireCapacity
  <1>1. revision \in Revisions /\ state \in States /\ wire \in Seq(Messages)
    BY DEF TypeOK
  <1>2. Snapshot(revision, state) \in Messages
    BY <1>1, MessageType
  <1>3. Len(wire) < WireCapacity /\ wire' = Append(wire, Snapshot(revision, state))
    BY DEF SendLatest, Room
  <1>4. wire' \in Seq(Messages) /\ Len(wire') <= WireCapacity
    BY <1>1, <1>2, <1>3, WireAppend
  <1>5. revision \in Lasts(revision) /\ state \in Views /\ NoState \in Views
    BY <1>1 DEF Lasts, Views, Revisions
  <1>6. conn' \in LocalsAt(revision)
    BY <1>5 DEF SendLatest, LocalsAt, ConnPhases
  <1> QED
    BY <1>4, <1>6

(* A connection that has greeted knows a state, and a browser that is       *)
(* synchronized shows one: there is something for a patch to change.        *)
StatesHeld ==
    /\ conn.phase \in {"idle", "check", "answer"} => conn.known \in States
    /\ browser.phase = "live" => browser.view \in States

(* The first state has the type.                                            *)
LEMMA TypeInit == Init => TypeOK
  <1> SUFFICES ASSUME Init PROVE TypeOK
    OBVIOUS
  <1>1. patches \in Seq(Changes) /\ Len(patches) = 0
    BY DEF Init
  <1>2. history \in Seq(States) /\ Len(history) = 1
    BY DEF Init
  <1>3. wire \in Seq(Messages) /\ Len(wire) = 0
    BY DEF Init
  <1> QED
    BY <1>1, <1>2, <1>3 DEF Init, TypeOK, NoConnection, ConnPhases, Revisions,
                            BrowserPhases

(* Every step keeps it, as long as patches have states to be applied to.    *)
LEMMA TypeStep == TypeOK /\ StatesHeld /\ [Next]_vars => TypeOK'
  <1> SUFFICES ASSUME TypeOK, StatesHeld, [Next]_vars PROVE TypeOK'
    OBVIOUS
  <1>t. /\ state \in States /\ revision \in Revisions
        /\ patches \in Seq(Changes) /\ Len(patches) = revision
        /\ history \in Seq(States) /\ Len(history) = revision + 1
        /\ broadcast \in 0 .. revision
        /\ conn \in LocalsAt(revision)
        /\ wire \in Seq(Messages) /\ Len(wire) <= WireCapacity
        /\ browser \in Remote
        /\ asked \in {"no", "unsent", "sent", "answered"}
        /\ connections \in 0 .. MaxConnections
    BY DEF TypeOK, LocalsAt, Remote, Nexts, Lasts, Views
  <1>r. revision \in Nat /\ broadcast \in Nat /\ Len(wire) \in Nat
    BY <1>t DEF Revisions
  <1> DEFINE PublisherType == /\ state' \in States /\ revision' \in Revisions
                              /\ patches' \in Seq(Changes)
                              /\ Len(patches') = revision'
                              /\ history' \in Seq(States)
                              /\ Len(history') = revision' + 1
                              /\ broadcast' \in 0 .. revision'
             RestType == /\ conn' \in LocalsAt(revision')
                         /\ wire' \in Seq(Messages) /\ Len(wire') <= WireCapacity
                         /\ browser' \in Remote
                         /\ asked' \in {"no", "unsent", "sent", "answered"}
                         /\ connections' \in 0 .. MaxConnections
  <1>q. PublisherType /\ RestType => TypeOK'
    BY DEF TypeOK, LocalsAt, Remote, Nexts, Lasts, Views
  <1>p. UNCHANGED publisher => PublisherType /\ revision' = revision
    BY <1>t DEF publisher
  <1>w. wire' = wire => wire' \in Seq(Messages) /\ Len(wire') <= WireCapacity
    BY <1>t
  <1>1. ASSUME NEW s \in States, PublishVolatile(s) PROVE TypeOK'
    <2>1. PublisherType /\ revision' = revision
      BY <1>1, <1>t DEF PublishVolatile
    <2>2. conn' \in LocalsAt(revision)
      BY <1>1, <1>t DEF PublishVolatile, LocalsAt
    <2> QED
      BY <1>1, <1>t, <1>q, <2>1, <2>2 DEF PublishVolatile
  <1>2. ASSUME NEW s \in States, PublishRevision(s) PROVE TypeOK'
    <2>1. revision' = revision + 1 /\ revision' \in Revisions
      BY <1>2, <1>r DEF PublishRevision, Revisions
    <2>2. Between(state, s) \in Changes
      BY <1>t, BetweenType
    <2>3. patches' \in Seq(Changes) /\ Len(patches') = revision'
      BY <1>2, <1>t, <2>1, <2>2 DEF PublishRevision
    <2>4. history' \in Seq(States) /\ Len(history') = revision' + 1
      BY <1>2, <1>t, <2>1 DEF PublishRevision
    <2>5. broadcast' \in 0 .. revision' /\ state' \in States
      BY <1>2, <1>t, <1>r, <2>1 DEF PublishRevision
    <2>6. conn' \in LocalsAt(revision')
      <3>1. [conn EXCEPT !.fresh = TRUE] \in LocalsAt(revision)
        BY <1>t DEF LocalsAt
      <3> QED
        BY <1>2, <1>r, <2>1, <3>1, LocalsGrow DEF PublishRevision
    <2>7. RestType
      BY <1>2, <1>t, <2>6 DEF PublishRevision
    <2> QED
      BY <1>q, <2>1, <2>3, <2>4, <2>5, <2>7
  <1>3. CASE BroadcastPatch
    <2>1. PublisherType /\ revision' = revision
      BY <1>3, <1>t, <1>r DEF BroadcastPatch
    <2> QED
      BY <1>3, <1>t, <1>q, <2>1 DEF BroadcastPatch
  <1>4. CASE Connect
    <2>1. conn' \in LocalsAt(revision)
      <3>1. broadcast + 1 \in Nexts(revision)
        BY <1>t, <1>r DEF Nexts
      <3>2. NoConnection \in LocalsAt(revision)
        BY <1>r, NoConnectionType
      <3> QED
        BY <1>4, <3>1, <3>2 DEF Connect, LocalsAt, ConnPhases
    <2>2. browser' \in Remote
      BY <1>4, <1>t DEF Connect, Remote, BrowserPhases
    <2>3. connections' \in 0 .. MaxConnections
      BY <1>4, <1>t DEF Connect
    <2> QED
      BY <1>4, <1>t, <1>q, <1>p, <1>w, <2>1, <2>2, <2>3 DEF Connect
  <1>5. CASE Greet
    <2>1. conn' \in LocalsAt(revision)
      <3>1. revision \in Lasts(revision) /\ state \in Views
        BY <1>t, <1>r DEF Lasts, Views
      <3> QED
        BY <1>5, <1>t, <3>1 DEF Greet, LocalsAt, ConnPhases
    <2>2. Hello(revision) \in Messages /\ Snapshot(revision, state) \in Messages
      BY <1>t, MessageType
    <2>3. wire' \in Seq(Messages) /\ Len(wire') = 2
      BY <1>5, <2>2 DEF Greet
    <2> QED
      BY <1>5, <1>t, <1>q, <1>p, <2>1, <2>3 DEF Greet
  <1>6. CASE SkipPatch
    <2>1. conn' \in LocalsAt(revision)
      <3>1. conn.next \in Nexts(revision) /\ conn.next <= broadcast
        BY <1>6, <1>t DEF SkipPatch, LocalsAt
      <3>2. conn.next + 1 \in Nexts(revision)
        BY <1>t, <1>r, <3>1 DEF Nexts
      <3> QED
        BY <1>6, <1>t, <3>2 DEF SkipPatch, LocalsAt
    <2> QED
      BY <1>6, <1>t, <1>q, <1>p, <1>w, <2>1 DEF SkipPatch
  <1>7. CASE RelayPatch
    <2>1. /\ conn.next \in 1 .. broadcast /\ conn.next = conn.last + 1
          /\ conn.phase = "idle"
      BY <1>7, <1>t, <1>r DEF RelayPatch, LocalsAt, Nexts
    <2>2. /\ conn.next \in Revisions /\ conn.next \in Lasts(revision)
          /\ conn.next + 1 \in Nexts(revision)
          /\ conn.next \in 1 .. Len(patches)
      BY <1>t, <1>r, <2>1 DEF Lasts, Nexts, Revisions
    <2>3. patches[conn.next] \in Changes
      BY <1>t, <2>2
    <2>4. Apply(conn.known, patches[conn.next]) \in Views
      BY <2>1, <2>3, ApplyType DEF StatesHeld, Views
    <2>5. conn' \in LocalsAt(revision)
      BY <1>7, <1>t, <2>1, <2>2, <2>4 DEF RelayPatch, LocalsAt, ConnPhases
    <2>6. Patch(conn.next, patches[conn.next]) \in Messages
      BY <2>2, <2>3, MessageType
    <2>7. wire' \in Seq(Messages) /\ Len(wire') <= WireCapacity
      BY <1>7, <1>t, <1>r, <2>6, WireAppend DEF RelayPatch, Room
    <2> QED
      BY <1>7, <1>t, <1>q, <1>p, <2>5, <2>7 DEF RelayPatch
  <1>8. CASE CheckPatched
    <2>1. CASE revision = conn.last /\ conn.patched = state
      <3>1. state \in Views /\ NoState \in Views
        BY <1>t DEF Views
      <3>2. /\ conn' = [conn EXCEPT !.phase = "idle", !.fresh = FALSE,
                                    !.known = state, !.patched = NoState]
            /\ UNCHANGED wire
        BY <1>8, <2>1 DEF CheckPatched, SendLatest
      <3>3. conn' \in LocalsAt(revision)
        BY <1>t, <3>1, <3>2 DEF LocalsAt, ConnPhases
      <3> QED
        BY <1>8, <1>t, <1>q, <1>p, <1>w, <3>2, <3>3 DEF CheckPatched
    <2>2. CASE SendLatest(conn)
      <3>1. /\ conn' \in LocalsAt(revision)
            /\ wire' \in Seq(Messages) /\ Len(wire') <= WireCapacity
        BY <1>t, <2>2, SendLatestType
      <3> QED
        BY <1>8, <1>t, <1>q, <1>p, <3>1 DEF CheckPatched
    <2> QED
      BY <1>8, <2>1, <2>2 DEF CheckPatched
  <1>9. CASE RecoverLag
    <2> DEFINE c == [conn EXCEPT !.next = IF Lagged THEN Oldest ELSE @ + 1]
    <2>1. conn.next \in 1 .. broadcast
      BY <1>9, <1>t, <1>r DEF RecoverLag, LocalsAt, Nexts
    <2>2. (IF Lagged THEN Oldest ELSE conn.next + 1) \in Nexts(revision)
      BY <1>t, <1>r, <2>1, OldestType DEF Nexts
    <2>3. c \in LocalsAt(revision)
      BY <1>t, <2>2 DEF LocalsAt
    <2> HIDE DEF c
    <2>4. SendLatest(c)
      BY <1>9 DEF RecoverLag, c
    <2>5. /\ conn' \in LocalsAt(revision)
          /\ wire' \in Seq(Messages) /\ Len(wire') <= WireCapacity
      BY <2>3, <2>4, SendLatestType
    <2> QED
      BY <1>9, <1>t, <1>q, <1>p, <2>5 DEF RecoverLag
  <1>10. CASE SnapshotChanged
    <2>1. CASE SendLatest(conn)
      <3>1. /\ conn' \in LocalsAt(revision)
            /\ wire' \in Seq(Messages) /\ Len(wire') <= WireCapacity
        BY <1>t, <2>1, SendLatestType
      <3> QED
        BY <1>10, <1>t, <1>q, <1>p, <3>1 DEF SnapshotChanged
    <2>2. CASE conn' = [conn EXCEPT !.fresh = FALSE] /\ UNCHANGED wire
      <3>1. conn' \in LocalsAt(revision)
        BY <1>t, <2>2 DEF LocalsAt
      <3> QED
        BY <1>10, <1>t, <1>q, <1>p, <1>w, <2>2, <3>1 DEF SnapshotChanged
    <2> QED
      BY <1>10, <2>1, <2>2 DEF SnapshotChanged
  <1>11. CASE SendAnswer
    <2>1. conn.last \in Revisions
      BY <1>t, <1>r DEF LocalsAt, Lasts, Revisions
    <2>2. wire' \in Seq(Messages) /\ Len(wire') <= WireCapacity
      BY <1>11, <1>t, <1>r, <2>1, MessageType, WireAppend DEF SendAnswer, Room
    <2>3. conn' \in LocalsAt(revision)
      BY <1>11, <1>t DEF SendAnswer, LocalsAt, ConnPhases
    <2> QED
      BY <1>11, <1>t, <1>q, <1>p, <2>2, <2>3 DEF SendAnswer
  <1>12. CASE SendAskedSnapshot
    <2>1. /\ conn' \in LocalsAt(revision)
          /\ wire' \in Seq(Messages) /\ Len(wire') <= WireCapacity
      BY <1>12, <1>t, SendLatestType DEF SendAskedSnapshot
    <2> QED
      BY <1>12, <1>t, <1>q, <1>p, <2>1 DEF SendAskedSnapshot
  <1>13. CASE Disconnect
    <2>1. conn' \in LocalsAt(revision)
      BY <1>13, <1>r, NoConnectionType DEF Disconnect
    <2>2. wire' \in Seq(Messages) /\ Len(wire') <= WireCapacity
      BY <1>13 DEF Disconnect
    <2>3. browser' \in Remote
      BY <1>13, <1>t DEF Disconnect, Remote, BrowserPhases
    <2> QED
      BY <1>13, <1>t, <1>q, <1>p, <2>1, <2>2, <2>3 DEF Disconnect
  <1>14. CASE Receive
    <2> DEFINE m == Head(wire)
    <2>1. m \in Messages /\ wire' \in Seq(Messages) /\ Len(wire') <= WireCapacity
      BY <1>14, <1>t, WireTail DEF Receive
    <2> HIDE DEF m
    <2>2. /\ m.rev \in Revisions
          /\ m.kind = "snapshot" => m.state \in States
          /\ m.kind = "patch" => m.changes \in Changes
      BY <2>1, MessageParts
    <2>3. /\ Ask(asked) \in {"no", "unsent", "sent", "answered"}
          /\ Synchronized(asked) \in {"no", "unsent", "sent", "answered"}
      BY <1>t DEF Ask, Synchronized
    <2>4. CASE TakeHello(m)
      BY <1>14, <1>t, <1>q, <1>p, <2>1, <2>2, <2>4
      DEF Receive, TakeHello, Remote, BrowserPhases
    <2>5. CASE TakeSnapshot(m)
      <3>1. m.state \in Views
        BY <2>2, <2>5 DEF TakeSnapshot, Views
      <3>2. browser' \in Remote
        BY <1>t, <2>2, <2>5, <3>1 DEF TakeSnapshot, Remote, BrowserPhases
      <3> QED
        BY <1>14, <1>t, <1>q, <1>p, <2>1, <2>3, <2>5, <3>2
        DEF Receive, TakeSnapshot
    <2>6. CASE TakePatch(m)
      <3>1. browser.phase = "live" => Apply(browser.view, m.changes) \in Views
        BY <2>2, <2>6, ApplyType DEF TakePatch, StatesHeld, Views
      <3>2. browser' \in Remote
        BY <1>t, <2>2, <2>6, <3>1 DEF TakePatch, Remote, BrowserPhases
      <3> QED
        BY <1>14, <1>t, <1>q, <1>p, <2>1, <2>3, <2>6, <3>2
        DEF Receive, TakePatch
    <2>7. CASE TakeAnswer(m)
      BY <1>14, <1>t, <1>q, <1>p, <2>1, <2>7 DEF Receive, TakeAnswer
    <2> QED
      BY <1>14, <2>4, <2>5, <2>6, <2>7 DEF Receive, m
  <1>15. CASE Doubt
    <2>1. browser' \in Remote
      BY <1>15, <1>t DEF Doubt, Remote, BrowserPhases
    <2> QED
      BY <1>15, <1>t, <1>q, <1>p, <1>w, <2>1 DEF Doubt, Ask
  <1>16. CASE RequestSnapshot
    BY <1>16, <1>t, <1>q, <1>p, <1>w DEF RequestSnapshot
  <1>17. CASE UNCHANGED vars
    BY <1>17, <1>t, <1>q, <1>p, <1>w DEF vars
  <1> QED
    BY <1>1, <1>2, <1>3, <1>4, <1>5, <1>6, <1>7, <1>8, <1>9, <1>10, <1>11,
       <1>12, <1>13, <1>14, <1>15, <1>16, <1>17
    DEF Next, Publisher, Connection

(* Whoever is to apply a patch has a state to apply it to.                  *)
LEMMA HeldStep == TypeOK /\ StatesHeld /\ [Next]_vars => StatesHeld'
  <1> SUFFICES ASSUME TypeOK, StatesHeld, [Next]_vars PROVE StatesHeld'
    OBVIOUS
  <1>t. /\ state \in States /\ wire \in Seq(Messages)
        /\ conn \in LocalsAt(revision) /\ browser \in Remote
    BY DEF TypeOK, LocalsAt, Remote, Nexts, Lasts, Views
  <1> DEFINE ConnHeld == conn.phase \in {"idle", "check", "answer"} =>
                             conn.known \in States
             BrowserHeld == browser.phase = "live" => browser.view \in States
  <1>h. ConnHeld /\ BrowserHeld
    BY DEF StatesHeld
  <1>q. ConnHeld' /\ BrowserHeld' => StatesHeld'
    BY DEF StatesHeld
  <1>b. browser' = browser => BrowserHeld'
    BY <1>h
  <1>s. ASSUME NEW c \in LocalsAt(revision), SendLatest(c) PROVE ConnHeld'
    BY <1>t, <1>s DEF SendLatest, LocalsAt
  <1>1. CASE Publisher
    <2>1. /\ conn' = conn \/ conn' = [conn EXCEPT !.fresh = TRUE]
          /\ browser' = browser
      BY <1>1 DEF Publisher, PublishVolatile, PublishRevision, BroadcastPatch
    <2> QED
      BY <1>h, <1>t, <1>b, <1>q, <2>1 DEF LocalsAt
  <1>2. CASE Connect \/ Disconnect
    <2>1. ConnHeld'
      <3>1. CASE Connect
        <4>1. NoConnection \in LocalsAt(revision)
          BY NoConnectionType DEF TypeOK, Revisions
        <4>2. conn'.phase = "subscribed"
          BY <3>1, <4>1 DEF Connect, LocalsAt
        <4> QED
          BY <4>2
      <3>2. CASE Disconnect
        BY <3>2 DEF Disconnect, NoConnection
      <3> QED
        BY <1>2, <3>1, <3>2
    <2>2. BrowserHeld'
      BY <1>2, <1>t DEF Connect, Disconnect, Remote
    <2> QED
      BY <1>q, <2>1, <2>2
  <1>3. CASE Greet \/ SkipPatch \/ SendAnswer \/ RelayPatch
    <2>1. ConnHeld'
      BY <1>3, <1>t, <1>h
      DEF Greet, SkipPatch, SendAnswer, RelayPatch, LocalsAt
    <2> QED
      BY <1>3, <1>b, <1>q, <2>1 DEF Greet, SkipPatch, SendAnswer, RelayPatch
  <1>4. CASE CheckPatched
    <2>1. CASE SendLatest(conn)
      BY <1>4, <1>t, <1>s, <1>b, <1>q, <2>1 DEF CheckPatched
    <2>2. CASE conn' = [conn EXCEPT !.phase = "idle", !.fresh = FALSE,
                                    !.known = state, !.patched = NoState]
      BY <1>4, <1>t, <1>b, <1>q, <2>2 DEF CheckPatched, LocalsAt
    <2> QED
      BY <1>4, <2>1, <2>2 DEF CheckPatched
  <1>5. CASE RecoverLag
    BY <1>5, <1>t, <1>b, <1>q DEF RecoverLag, SendLatest, LocalsAt
  <1>6. CASE SnapshotChanged
    <2>1. CASE SendLatest(conn)
      BY <1>6, <1>t, <1>s, <1>b, <1>q, <2>1 DEF SnapshotChanged
    <2>2. CASE conn' = [conn EXCEPT !.fresh = FALSE]
      BY <1>6, <1>t, <1>h, <1>b, <1>q, <2>2 DEF SnapshotChanged, LocalsAt
    <2> QED
      BY <1>6, <2>1, <2>2 DEF SnapshotChanged
  <1>7. CASE SendAskedSnapshot
    BY <1>7, <1>t, <1>s, <1>b, <1>q DEF SendAskedSnapshot
  <1>8. CASE Receive
    <2> DEFINE m == Head(wire)
    <2>1. m \in Messages
      BY <1>8, <1>t, WireTail DEF Receive
    <2> HIDE DEF m
    <2>2. /\ m.kind = "snapshot" => m.state \in States
          /\ m.kind = "patch" => m.changes \in Changes
      BY <2>1, MessageParts
    <2>3. ConnHeld'
      BY <1>8, <1>h DEF Receive
    <2>4. CASE TakeHello(m)
      BY <2>4, <2>3, <1>t, <1>q DEF TakeHello, Remote
    <2>5. CASE TakeSnapshot(m)
      BY <2>5, <2>2, <2>3, <1>t, <1>h, <1>q DEF TakeSnapshot, Remote
    <2>6. CASE TakePatch(m)
      <3>1. BrowserHeld'
        BY <2>6, <2>2, <1>t, <1>h, ApplyType, ZenonT(60) DEF TakePatch, Remote
      <3> QED
        BY <2>3, <3>1, <1>q
    <2>7. CASE TakeAnswer(m)
      BY <2>7, <2>3, <1>b, <1>q DEF TakeAnswer
    <2> QED
      BY <1>8, <2>4, <2>5, <2>6, <2>7, <2>3 DEF Receive, m
  <1>9. CASE Doubt \/ RequestSnapshot
    BY <1>9, <1>t, <1>h, <1>q DEF Doubt, RequestSnapshot, Remote
  <1>10. CASE UNCHANGED vars
    BY <1>10, <1>h, <1>q DEF vars
  <1> QED
    BY <1>1, <1>2, <1>3, <1>4, <1>5, <1>6, <1>7, <1>8, <1>9, <1>10
    DEF Next, Connection

(* The two invariants hold together.                                        *)
LEMMA TypeAndHeld == Spec => [](TypeOK /\ StatesHeld)
  <1>1. Init => TypeOK /\ StatesHeld
    BY TypeInit DEF Init, StatesHeld, NoConnection
  <1>2. TypeOK /\ StatesHeld /\ [Next]_vars => (TypeOK /\ StatesHeld)'
    BY TypeStep, HeldStep
  <1> QED
    BY <1>1, <1>2, PTL DEF Spec

(* The state keeps its type: the counters stay within what was published,   *)
(* the connection never reads beyond the ring, and the socket is never      *)
(* given more than it takes.                                                *)
THEOREM MirrorTypeCorrect == Spec => []TypeOK
  BY TypeAndHeld, PTL

-----------------------------------------------------------------------------
(* What the browser shows is a published revision, and patches reach it in  *)
(* their order: ViewIsRevision and PatchFollows.                            *)

(* The sections that a revision stands for.                                 *)
Kept == Sections \ Volatile

-----------------------------------------------------------------------------
(* The invariant behind ViewIsRevision.                                    *)

(* State s may be shown as revision r.                                      *)
Means(s, r) ==
    /\ s \in States /\ r \in 0 .. revision
    /\ \A x \in Kept : s[x] = history[r + 1][x]

(* Patch r leads from revision r - 1 to revision r.                         *)
Leads(r) ==
    \A x \in Kept :
        history[r + 1][x] = IF x \in DOMAIN patches[r] THEN patches[r][x]
                                                        ELSE history[r][x]

Sound(m) ==
    /\ m.rev <= revision
    /\ m.kind = "snapshot" => Means(m.state, m.rev)
    /\ m.kind = "patch" => m.rev >= 1 /\ m.changes = patches[m.rev]

Coherent ==
    /\ Means(state, revision)
    /\ \A r \in 1 .. revision : Leads(r)
    /\ \A i \in 1 .. Len(wire) : Sound(wire[i])
    /\ browser.view # NoState => Means(browser.view, browser.rev)

-----------------------------------------------------------------------------
(* The invariant behind PatchFollows: the messages of a connection are a    *)
(* chain that begins at the browser and ends at the connection.             *)

(* What the receiver of message i has seen before it.                       *)
Before(i) == IF i = 1 THEN browser.rev ELSE wire[i - 1].rev

(* The first link holds once the browser is live: a browser that is not     *)
(* lets patches pass.                                                       *)
Link(i) ==
    /\ Before(i) <= wire[i].rev
    /\ i # 1 \/ browser.phase = "live" =>
         /\ wire[i].kind = "patch" => wire[i].rev = Before(i) + 1
         /\ wire[i].kind = "answer" => wire[i].rev = Before(i)

Chained ==
    /\ browser.rev <= revision
    /\ conn.phase \in {"closed", "subscribed"} =>
         wire = <<>> /\ browser.phase \in {"disconnected", "awaiting_hello"}
    /\ \A i \in 1 .. Len(wire) : Link(i)
    /\ conn.phase \in {"idle", "check", "answer"} =>
         IF wire # <<>> THEN conn.last = wire[Len(wire)].rev
                        ELSE /\ browser.rev <= conn.last
                             /\ browser.phase = "live" => browser.rev = conn.last

-----------------------------------------------------------------------------
(* Proof of the first.                                                     *)

(* A patch that is made between two states leads from one to the other.     *)
LEMMA BetweenLeads ==
    ASSUME NEW s, NEW t, NEW x \in Sections
    PROVE  t[x] = IF x \in DOMAIN Between(s, t) THEN Between(s, t)[x] ELSE s[x]
  BY DEF Between

(* A patch that leads to the next revision, applied to what may be shown as *)
(* a revision, gives what may be shown as the next.                         *)
LEMMA ApplyMeans ==
    ASSUME TypeOK, NEW r, NEW s, Means(s, r), r + 1 \in 1 .. revision,
           Leads(r + 1)
    PROVE  Means(Apply(s, patches[r + 1]), r + 1)
  <1>1. r \in Nat /\ s \in States /\ patches[r + 1] \in Changes
    BY DEF TypeOK, Means, Revisions
  <1>2. Apply(s, patches[r + 1]) \in States
    BY <1>1, ApplyType
  <1>3. ASSUME NEW x \in Kept
        PROVE  Apply(s, patches[r + 1])[x] = history[r + 1 + 1][x]
    <2>1. s[x] = history[r + 1][x] /\ x \in Sections
      BY <1>3 DEF Means, Kept
    <2>2. history[r + 1 + 1][x] = IF x \in DOMAIN patches[r + 1]
                                  THEN patches[r + 1][x] ELSE history[r + 1][x]
      BY <1>3 DEF Leads
    <2> QED
      BY <2>1, <2>2 DEF Apply
  <1> QED
    BY <1>1, <1>2, <1>3 DEF Means

(* A step that publishes nothing changes no meaning.                        *)
LEMMA MeaningsStay ==
    ASSUME Coherent, UNCHANGED <<state, revision, patches, history>>
    PROVE  /\ Means(state, revision)'
           /\ (\A r \in 1 .. revision : Leads(r))'
           /\ \A s, r : Means(s, r) => Means(s, r)'
           /\ \A m : Sound(m) => Sound(m)'
  <1>1. \A s, r : Means(s, r) => Means(s, r)'
    BY DEF Means
  <1>2. \A m : Sound(m) => Sound(m)'
    BY <1>1 DEF Sound
  <1>3. Means(state, revision)'
    BY <1>1 DEF Coherent, Means
  <1>4. (\A r \in 1 .. revision : Leads(r))'
    BY DEF Coherent, Leads
  <1> QED
    BY <1>1, <1>2, <1>3, <1>4

(* Nor does one that neither sends, nor reads, nor publishes.               *)
LEMMA CoherentStays ==
    ASSUME Coherent, UNCHANGED <<state, revision, patches, history, wire>>,
           browser'.view = browser.view, browser'.rev = browser.rev
    PROVE  Coherent'
  <1>1. (\A i \in 1 .. Len(wire) : Sound(wire[i]))'
    BY MeaningsStay DEF Coherent
  <1>2. (browser.view # NoState => Means(browser.view, browser.rev))'
    <2>1. browser.view # NoState => Means(browser.view, browser.rev)'
      BY MeaningsStay DEF Coherent
    <2> QED
      BY <2>1 DEF Means
  <1> QED
    BY <1>1, <1>2, MeaningsStay DEF Coherent

(* A sound message may be sent.                                             *)
LEMMA CoherentSend ==
    ASSUME TypeOK, Coherent, UNCHANGED <<state, revision, patches, history, browser>>,
           NEW m \in Messages, Sound(m), wire' = Append(wire, m)
    PROVE  Coherent'
  <1>1. ASSUME NEW i \in 1 .. Len(wire') PROVE Sound(wire[i])'
    <2>1. Len(wire') = Len(wire) + 1 /\ Len(wire) \in Nat
      BY WireAppend DEF TypeOK
    <2>2. CASE i \in 1 .. Len(wire)
      <3>1. wire'[i] = wire[i]
        BY <2>2, WireAppend DEF TypeOK
      <3>2. Sound(wire[i])
        BY <2>2 DEF Coherent
      <3> QED
        BY <3>1, <3>2, MeaningsStay
    <2>3. CASE i = Len(wire) + 1
      <3>1. wire'[i] = m
        BY <2>3, WireAppend DEF TypeOK
      <3> QED
        BY <3>1, MeaningsStay
    <2> QED
      BY <2>1, <2>2, <2>3
  <1>2. (browser.view # NoState => Means(browser.view, browser.rev))'
    BY MeaningsStay DEF Coherent, Means
  <1> QED
    BY <1>1, <1>2, MeaningsStay DEF Coherent

(* The latest snapshot is sound.                                            *)
LEMMA LatestSound ==
    ASSUME TypeOK, Coherent
    PROVE  /\ Snapshot(revision, state) \in Messages
           /\ Sound(Snapshot(revision, state))
  <1>1. revision \in Revisions /\ state \in States /\ revision \in Nat
    BY DEF TypeOK, Revisions
  <1>2. Snapshot(revision, state) \in Messages
    BY <1>1, MessageType
  <1>3. Means(state, revision)
    BY DEF Coherent
  <1> QED
    BY <1>1, <1>2, <1>3 DEF Sound, Snapshot

(* Nothing is on its way at first, and nothing is shown.                    *)
LEMMA CoherentInit == TypeOK /\ Init => Coherent
  <1> SUFFICES ASSUME TypeOK, Init PROVE Coherent
    OBVIOUS
  <1>1. Means(state, revision)
    BY DEF Init, Means, TypeOK
  <1>2. Len(wire) = 0 /\ revision = 0 /\ browser.view = NoState
    BY DEF Init
  <1> QED
    BY <1>1, <1>2 DEF Coherent

(* A volatile change does not change what revisions mean.                   *)
LEMMA CoherentPublishVolatile ==
    ASSUME TypeOK, Coherent, NEW s \in States, PublishVolatile(s)
    PROVE  Coherent'
  <1>1. UNCHANGED <<revision, patches, history, wire, browser>> /\ state' = s
    BY DEF PublishVolatile
  <1>2. Means(s, revision)
    BY DEF Coherent, Means, PublishVolatile, SemanticallyEqual, Kept
  <1>3. Means(state, revision)'
    BY <1>1, <1>2 DEF Means
  <1>4. (\A r \in 1 .. revision : Leads(r))'
    BY <1>1 DEF Coherent, Leads
  <1>5. \A t, r : Means(t, r) => Means(t, r)'
    BY <1>1 DEF Means
  <1>6. (\A i \in 1 .. Len(wire) : Sound(wire[i]))'
    BY <1>1, <1>5 DEF Coherent, Sound
  <1>7. (browser.view # NoState => Means(browser.view, browser.rev))'
    BY <1>1, <1>5 DEF Coherent, Means
  <1> QED
    BY <1>3, <1>4, <1>6, <1>7 DEF Coherent

(* A new revision has its patch and its meaning, and the old ones stay.     *)
LEMMA CoherentPublishRevision ==
    ASSUME TypeOK, Coherent, NEW s \in States, PublishRevision(s)
    PROVE  Coherent'
  <1>1. /\ UNCHANGED <<wire, browser>> /\ state' = s
        /\ revision' = revision + 1 /\ revision \in Nat
        /\ history' = Append(history, s)
        /\ patches' = Append(patches, Between(state, s))
    BY DEF PublishRevision, TypeOK, Revisions
  <1>2. /\ patches \in Seq(Changes) /\ Len(patches) = revision
        /\ history \in Seq(States) /\ Len(history) = revision + 1
        /\ Between(state, s) \in Changes
    BY BetweenType DEF TypeOK
  <1>3. /\ \A r \in 0 .. revision : history'[r + 1] = history[r + 1]
        /\ history'[revision + 2] = s
    BY <1>1, <1>2
  <1>4. /\ \A r \in 1 .. revision : patches'[r] = patches[r]
        /\ patches'[revision + 1] = Between(state, s)
    BY <1>1, <1>2
  <1>5. Means(state, revision)'
    <2>1. revision' + 1 = revision + 2 /\ revision' \in 0 .. revision'
      BY <1>1
    <2> QED
      BY <1>1, <1>3, <2>1 DEF Means
  <1>6. ASSUME NEW t, NEW r, Means(t, r) PROVE Means(t, r)'
    <2>1. t \in States /\ r \in 0 .. revision /\ r \in 0 .. revision'
      BY <1>1, <1>6 DEF Means
    <2>2. history'[r + 1] = history[r + 1]
      BY <1>3, <2>1
    <2> QED
      BY <1>6, <2>1, <2>2 DEF Means
  <1>7. ASSUME NEW r \in 1 .. revision' PROVE Leads(r)'
    <2>1. CASE r \in 1 .. revision
      <3>1. Leads(r) /\ patches'[r] = patches[r]
        BY <2>1, <1>4 DEF Coherent
      <3>2. r \in 0 .. revision /\ r - 1 \in 0 .. revision /\ r - 1 + 1 = r
        BY <2>1, <1>1
      <3>3. history'[r + 1] = history[r + 1] /\ history'[r] = history[r]
        BY <3>2, <1>3
      <3> QED
        BY <3>1, <3>3 DEF Leads
    <2>2. CASE r = revision + 1
      <3>1. /\ patches'[r] = Between(state, s)
            /\ history'[r + 1] = s /\ history'[r] = history[revision + 1]
        <4>1. r = revision + 1 /\ r + 1 = revision + 2 /\ revision \in 0 .. revision
          BY <2>2, <1>1
        <4>2. history'[revision + 1] = history[revision + 1]
          BY <1>3, <4>1
        <4> QED
          BY <1>3, <1>4, <4>1, <4>2
      <3>2. \A x \in Kept : state[x] = history[revision + 1][x]
        BY DEF Coherent, Means
      <3>3. ASSUME NEW x \in Kept
            PROVE  history'[r + 1][x] = IF x \in DOMAIN patches'[r]
                                        THEN patches'[r][x] ELSE history'[r][x]
        <4>1. s[x] = IF x \in DOMAIN Between(state, s)
                     THEN Between(state, s)[x] ELSE state[x]
          BY <3>3, BetweenLeads DEF Kept
        <4> QED
          BY <3>1, <3>2, <4>1
      <3> QED
        BY <3>3 DEF Leads
    <2> QED
      BY <1>1, <2>1, <2>2
  <1>8. (\A i \in 1 .. Len(wire) : Sound(wire[i]))'
    <2>1. ASSUME NEW i \in 1 .. Len(wire) PROVE Sound(wire[i])'
      <3>1. Sound(wire[i]) /\ wire[i] \in Messages /\ wire'[i] = wire[i]
        BY <2>1, <1>1 DEF Coherent, TypeOK
      <3>2. wire[i].rev \in Nat
        BY <3>1, MessageParts DEF Revisions
      <3>3. wire[i].rev <= revision'
        BY <1>1, <3>1, <3>2 DEF Sound
      <3>4. wire[i].kind = "patch" =>
              wire[i].rev \in 1 .. revision
        BY <3>1, <3>2 DEF Sound
      <3> QED
        BY <3>1, <3>3, <3>4, <1>4, <1>6 DEF Sound
    <2> QED
      BY <1>1, <2>1
  <1>9. (browser.view # NoState => Means(browser.view, browser.rev))'
    <2>1. browser.view # NoState => Means(browser.view, browser.rev)
      BY DEF Coherent
    <2> QED
      BY <1>1, <1>6, <2>1
  <1> QED
    BY <1>5, <1>7, <1>8, <1>9 DEF Coherent

(* What a sound message makes the browser show is sound.                    *)
LEMMA CoherentReceive ==
    ASSUME TypeOK, StatesHeld, Coherent, Receive
    PROVE  Coherent'
  <1> DEFINE m == Head(wire)
  <1>1. /\ m \in Messages /\ Sound(m)
        /\ Len(wire') = Len(wire) - 1 /\ Len(wire) \in Nat \ {0}
        /\ \A i \in 1 .. Len(wire) - 1 : wire'[i] = wire[i + 1]
    BY WireTail DEF Receive, TypeOK, Coherent
  <1> HIDE DEF m
  <1>2. UNCHANGED <<state, revision, patches, history>>
    BY DEF Receive, publisher
  <1>3. (\A i \in 1 .. Len(wire) : Sound(wire[i]))'
    <2>1. ASSUME NEW i \in 1 .. Len(wire') PROVE Sound(wire[i])'
      <3>1. wire'[i] = wire[i + 1] /\ i + 1 \in 1 .. Len(wire)
        BY <2>1, <1>1
      <3>2. Sound(wire[i + 1])
        BY <3>1 DEF Coherent
      <3> QED
        BY <3>1, <3>2, <1>2, MeaningsStay
    <2> QED
      BY <2>1
  <1>4. SUFFICES (browser.view # NoState => Means(browser.view, browser.rev))'
    BY <1>2, <1>3, MeaningsStay DEF Coherent
  <1>5. browser.view # NoState => Means(browser.view, browser.rev)
    BY DEF Coherent
  <1>6. browser \in Remote
    BY DEF TypeOK, Remote, Views
  <1>7. CASE browser'.view = browser.view /\ browser'.rev = browser.rev
    <2>1. \A s, r : Means(s, r) => Means(s, r)'
      BY <1>2, MeaningsStay
    <2> QED
      BY <1>5, <1>7, <2>1 DEF Means
  <1>8. CASE TakeHello(m) \/ TakeAnswer(m)
    BY <1>6, <1>7, <1>8 DEF TakeHello, TakeAnswer, Remote
  <1>9. CASE TakeSnapshot(m)
    <2>1. CASE browser' = browser \/ browser' = [browser EXCEPT !.phase = "stale"]
      BY <1>6, <1>7, <2>1 DEF Remote
    <2>2. CASE browser' = [browser EXCEPT !.phase = "live", !.view = m.state,
                                          !.rev = m.rev]
      <3>1. Means(m.state, m.rev)
        BY <1>1, <1>9 DEF Sound, TakeSnapshot
      <3>2. browser'.view = m.state /\ browser'.rev = m.rev
        BY <1>6, <2>2 DEF Remote
      <3> QED
        BY <3>1, <3>2, <1>2 DEF Means
    <2> QED
      BY <1>9, <2>1, <2>2 DEF TakeSnapshot
  <1>10. CASE TakePatch(m)
    <2>1. CASE browser' = browser \/ browser' = [browser EXCEPT !.phase = "stale"]
      BY <1>6, <1>7, <2>1 DEF Remote
    <2>2. CASE /\ browser.phase = "live" /\ m.rev = browser.rev + 1
               /\ browser' = [browser EXCEPT !.view = Apply(@, m.changes),
                                             !.rev = m.rev]
      <3>1. Means(browser.view, browser.rev)
        BY <1>5, <2>2, StateAssumption DEF StatesHeld
      <3>2. m.rev \in 1 .. revision /\ m.changes = patches[m.rev]
        BY <1>1, <1>10, <2>2, MessageParts DEF Sound, TakePatch, Revisions
      <3>3. Leads(m.rev)
        BY <3>2 DEF Coherent
      <3>4. Means(Apply(browser.view, m.changes), m.rev)
        BY <2>2, <3>1, <3>2, <3>3, ApplyMeans
      <3>5. browser'.view = Apply(browser.view, m.changes) /\ browser'.rev = m.rev
        BY <1>6, <2>2 DEF Remote
      <3> QED
        BY <3>4, <3>5, <1>2 DEF Means
    <2> QED
      BY <1>10, <2>1, <2>2 DEF TakePatch
  <1> QED
    BY <1>8, <1>9, <1>10 DEF Receive, m

(* Every step keeps meanings.                                               *)
LEMMA CoherentStep ==
    TypeOK /\ StatesHeld /\ Coherent /\ [Next]_vars => Coherent'
  <1> SUFFICES ASSUME TypeOK, StatesHeld, Coherent, [Next]_vars PROVE Coherent'
    OBVIOUS
  <1>t. /\ conn \in LocalsAt(revision) /\ browser \in Remote
        /\ revision \in Revisions /\ revision \in Nat /\ broadcast \in 0 .. revision
        /\ Len(patches) = revision
    BY DEF TypeOK, LocalsAt, Remote, Nexts, Lasts, Views, Revisions
  <1>s. ASSUME NEW c, SendLatest(c), UNCHANGED <<publisher, browser>>
        PROVE  Coherent'
    BY <1>s, LatestSound, CoherentSend DEF SendLatest, publisher
  <1>1. ASSUME NEW s \in States, PublishVolatile(s) PROVE Coherent'
    BY <1>1, CoherentPublishVolatile
  <1>2. ASSUME NEW s \in States, PublishRevision(s) PROVE Coherent'
    BY <1>2, CoherentPublishRevision
  <1>3. CASE BroadcastPatch \/ SkipPatch \/ RequestSnapshot
    BY <1>3, CoherentStays DEF BroadcastPatch, SkipPatch, RequestSnapshot, publisher
  <1>4. CASE Connect \/ Doubt
    <2>1. UNCHANGED <<state, revision, patches, history, wire>>
      BY <1>4 DEF Connect, Doubt, publisher
    <2>2. browser'.view = browser.view /\ browser'.rev = browser.rev
      BY <1>4, <1>t DEF Connect, Doubt, Remote
    <2> QED
      BY <2>1, <2>2, CoherentStays
  <1>5. CASE Disconnect
    <2>1. /\ UNCHANGED <<state, revision, patches, history>> /\ wire' = <<>>
          /\ browser'.view = browser.view /\ browser'.rev = browser.rev
      BY <1>5, <1>t DEF Disconnect, publisher, Remote
    <2>2. (\A i \in 1 .. Len(wire) : Sound(wire[i]))'
      BY <2>1
    <2>3. (browser.view # NoState => Means(browser.view, browser.rev))'
      BY <2>1 DEF Coherent, Means
    <2> QED
      BY <2>1, <2>2, <2>3, MeaningsStay DEF Coherent
  <1>6. CASE Greet
    <2>1. /\ UNCHANGED <<state, revision, patches, history, browser>>
          /\ wire' = <<Hello(revision), Snapshot(revision, state)>>
      BY <1>6 DEF Greet, publisher
    <2>2. Sound(Hello(revision)) /\ Sound(Snapshot(revision, state))
      BY <1>t, LatestSound DEF Sound, Hello
    <2>3. ASSUME NEW i \in 1 .. Len(wire') PROVE Sound(wire[i])'
      <3>1. i = 1 \/ i = 2
        BY <2>1
      <3>2. wire'[1] = Hello(revision) /\ wire'[2] = Snapshot(revision, state)
        BY <2>1
      <3> QED
        BY <2>1, <2>2, <3>1, <3>2, MeaningsStay
    <2>4. (browser.view # NoState => Means(browser.view, browser.rev))'
      BY <2>1 DEF Coherent, Means
    <2> QED
      BY <2>1, <2>3, <2>4, MeaningsStay DEF Coherent
  <1>7. CASE RelayPatch
    <2>1. /\ conn.next \in 1 .. revision /\ conn.next \in Revisions
          /\ conn.next \in 1 .. Len(patches)
      <3>1. conn.next \in 1 .. revision + 1 /\ conn.next <= broadcast
        BY <1>7, <1>t DEF RelayPatch, LocalsAt, Nexts
      <3> QED
        BY <1>t, <3>1 DEF Revisions
    <2>2. patches[conn.next] \in Changes
      BY <2>1 DEF TypeOK
    <2>3. Sound(Patch(conn.next, patches[conn.next]))
      BY <1>t, <2>1 DEF Sound, Patch
    <2>4. Patch(conn.next, patches[conn.next]) \in Messages
      BY <2>1, <2>2, MessageType
    <2> QED
      BY <1>7, <2>3, <2>4, CoherentSend DEF RelayPatch, publisher
  <1>8. CASE SendAnswer
    <2>1. conn.last \in Revisions /\ conn.last <= revision
      <3>1. conn.last \in 0 .. revision
        BY <1>t DEF LocalsAt, Lasts
      <3> QED
        BY <1>t, <3>1 DEF Revisions
    <2>2. Answer(conn.last) \in Messages /\ Sound(Answer(conn.last))
      BY <2>1, MessageType DEF Sound, Answer
    <2> QED
      BY <1>8, <2>2, CoherentSend DEF SendAnswer, publisher
  <1>9. CASE CheckPatched
    BY <1>9, <1>s, CoherentStays DEF CheckPatched, publisher
  <1>10. CASE RecoverLag \/ SendAskedSnapshot
    BY <1>10, <1>s DEF RecoverLag, SendAskedSnapshot
  <1>11. CASE SnapshotChanged
    BY <1>11, <1>s, CoherentStays DEF SnapshotChanged, publisher
  <1>12. CASE Receive
    BY <1>12, CoherentReceive
  <1>13. CASE UNCHANGED vars
    BY <1>13, CoherentStays DEF vars, publisher
  <1> QED
    BY <1>1, <1>2, <1>3, <1>4, <1>5, <1>6, <1>7, <1>8, <1>9, <1>10, <1>11,
       <1>12, <1>13
    DEF Next, Publisher, Connection

(* What the browser shows as a revision means what was published as it,     *)
(* whatever patches and snapshots were lost, skipped or overrun.            *)
THEOREM ViewCorrect == Spec => []ViewIsRevision
  <1>1. TypeOK /\ Init => Coherent
    BY CoherentInit
  <1>2. TypeOK /\ StatesHeld /\ Coherent /\ [Next]_vars => Coherent'
    BY CoherentStep
  <1>3. Coherent => ViewIsRevision
    BY DEF Coherent, Means, Kept, ViewIsRevision
  <1> QED
    BY <1>1, <1>2, <1>3, TypeAndHeld, PTL DEF Spec

-----------------------------------------------------------------------------
(* Proof of the second.                                                    *)

(* The phases of a connection that has greeted.                             *)
Serving == {"idle", "check", "answer"}

(* A message may be sent if it goes on from what was sent last.             *)
LEMMA ChainSend ==
    ASSUME TypeOK, Chained, UNCHANGED <<revision, browser>>,
           conn.phase \in Serving, conn'.phase \in Serving,
           NEW m \in Messages, wire' = Append(wire, m),
           conn'.last = m.rev, conn.last <= m.rev,
           m.kind = "patch" => m.rev = conn.last + 1,
           m.kind = "answer" => m.rev = conn.last
    PROVE  Chained'
  <1>1. /\ wire \in Seq(Messages) /\ Len(wire) \in Nat /\ wire' \in Seq(Messages)
        /\ Len(wire') = Len(wire) + 1 /\ wire' # <<>>
        /\ \A i \in 1 .. Len(wire) : wire'[i] = wire[i]
        /\ wire'[Len(wire')] = m
    BY WireAppend DEF TypeOK
  <1>2. ASSUME NEW i \in 1 .. Len(wire') PROVE Link(i)'
    <2>1. CASE i \in 1 .. Len(wire)
      <3>1. Link(i) /\ wire'[i] = wire[i]
        BY <1>1, <2>1 DEF Chained
      <3>2. Before(i)' = Before(i)
        <4>1. CASE i = 1
          BY <4>1 DEF Before
        <4>2. CASE i # 1
          <5>1. i - 1 \in 1 .. Len(wire)
            BY <1>1, <2>1, <4>2
          <5> QED
            BY <1>1, <4>2, <5>1 DEF Before
        <4> QED
          BY <4>1, <4>2
      <3> QED
        BY <3>1, <3>2 DEF Link
    <2>2. CASE i = Len(wire) + 1
      <3>1. wire'[i] = m
        BY <1>1, <2>2
      <3>2. CASE wire = <<>>
        <4>1. i = 1 /\ Before(i)' = browser.rev
          BY <2>2, <3>2 DEF Before
        <4>2. browser.rev <= conn.last /\ (browser.phase = "live" => browser.rev = conn.last)
          BY <3>2 DEF Chained, Serving
        <4>3. browser.rev \in Nat /\ conn.last \in Nat /\ m.rev \in Nat
          BY MessageParts DEF TypeOK, Revisions
        <4> QED
          BY <3>1, <4>1, <4>2, <4>3 DEF Link
      <3>3. CASE wire # <<>>
        <4>1. i # 1 /\ i - 1 = Len(wire) /\ i - 1 \in 1 .. Len(wire)
          BY <1>1, <2>2, <3>3
        <4>2. wire'[i - 1] = wire[Len(wire)]
          BY <1>1, <4>1
        <4>3. Before(i)' = conn.last
          BY <3>3, <4>1, <4>2 DEF Before, Chained, Serving
        <4> QED
          BY <3>1, <4>3 DEF Link
      <3> QED
        BY <3>2, <3>3
    <2> QED
      BY <1>1, <2>1, <2>2
  <1>3. browser'.rev <= revision'
    BY DEF Chained
  <1>4. conn'.phase \notin {"closed", "subscribed"}
    BY DEF Serving
  <1>5. conn'.last = wire'[Len(wire')].rev
    BY <1>1
  <1> QED
    BY <1>1, <1>2, <1>3, <1>4, <1>5 DEF Chained

(* A step in which nothing is sent or read keeps the chain.                 *)
LEMMA ChainStays ==
    ASSUME TypeOK, Chained, wire' = wire, revision <= revision',
           conn'.phase = conn.phase \/ {conn.phase, conn'.phase} \subseteq Serving,
           conn'.last = conn.last,
           browser'.rev = browser.rev,
           browser'.phase = browser.phase \/ browser'.phase = "stale",
           revision' \in Nat,
           conn.phase \in {"closed", "subscribed"} => browser' = browser
    PROVE  Chained'
  <1>1. browser'.rev <= revision'
    BY DEF Chained, TypeOK, Revisions
  <1>2. conn'.phase \in {"closed", "subscribed"} =>
          wire' = <<>> /\ browser'.phase \in {"disconnected", "awaiting_hello"}
    BY DEF Chained, Serving
  <1>3. ASSUME NEW i \in 1 .. Len(wire') PROVE Link(i)'
    <2>1. Link(i) /\ Before(i)' = Before(i) /\ wire'[i] = wire[i]
      BY <1>3 DEF Chained, Before
    <2> QED
      BY <2>1 DEF Link
  <1>4. conn'.phase \in Serving =>
         IF wire' # <<>> THEN conn'.last = wire'[Len(wire')].rev
                         ELSE /\ browser'.rev <= conn'.last
                              /\ browser'.phase = "live" => browser'.rev = conn'.last
    <2>1. conn'.phase \in Serving => conn.phase \in Serving
      BY DEF Serving
    <2> QED
      BY <2>1 DEF Chained, Serving
  <1> QED
    BY <1>1, <1>2, <1>3, <1>4 DEF Chained, Serving

(* A live browser is where the message that it has read last leaves it.     *)
LEMMA ChainReceive ==
    ASSUME TypeOK, Coherent, Chained, Receive
    PROVE  Chained'
  <1> DEFINE m == wire[1]
  <1>1. /\ wire \in Seq(Messages) /\ m \in Messages /\ m = Head(wire)
        /\ Len(wire') = Len(wire) - 1 /\ Len(wire) \in Nat \ {0}
        /\ \A i \in 1 .. Len(wire) - 1 : wire'[i] = wire[i + 1]
        /\ wire' \in Seq(Messages) /\ wire # <<>>
        /\ revision' = revision /\ conn' = conn
    BY WireTail DEF Receive, TypeOK, publisher
  <1>2. m.rev \in Nat /\ browser.rev \in Nat /\ browser \in Remote
        /\ revision \in Nat
    BY <1>1, MessageParts DEF TypeOK, Revisions, Remote, Views
  <1>3. Link(1) /\ Before(1) = browser.rev /\ m.rev <= revision
    BY <1>1 DEF Chained, Before, Coherent, Sound
  <1>4. /\ browser.rev <= m.rev
        /\ browser.phase = "live" => /\ m.kind = "patch" => m.rev = browser.rev + 1
                                     /\ m.kind = "answer" => m.rev = browser.rev
    BY <1>3 DEF Link
  <1>5. /\ browser'.rev \in Nat /\ browser'.rev <= m.rev
        /\ browser'.phase = "live" => browser'.rev = m.rev
    <2> HIDE DEF m
    <2>1. CASE TakeHello(m)
      BY <1>2, <1>4, <2>1 DEF TakeHello, Remote
    <2>2. CASE TakeSnapshot(m)
      <3>1. ~(m.rev < browser.rev)
        BY <1>2, <1>4
      <3>2. CASE browser' = [browser EXCEPT !.phase = "stale"]
        BY <1>2, <1>4, <3>2 DEF Remote
      <3>3. CASE browser' = [browser EXCEPT !.phase = "live", !.view = m.state,
                                            !.rev = m.rev]
        BY <1>2, <3>3 DEF Remote
      <3> QED
        BY <2>2, <3>1, <3>2, <3>3 DEF TakeSnapshot
    <2>3. CASE TakePatch(m)
      <3>1. ~(browser.phase = "live" /\ m.rev <= browser.rev)
        BY <1>2, <1>4, <2>3 DEF TakePatch
      <3>2. CASE browser' = [browser EXCEPT !.phase = "stale"]
        BY <1>2, <1>4, <3>2 DEF Remote
      <3>3. CASE browser' = [browser EXCEPT !.view = Apply(@, m.changes),
                                            !.rev = m.rev]
        BY <1>2, <3>3 DEF Remote
      <3> QED
        BY <2>3, <3>1, <3>2, <3>3 DEF TakePatch
    <2>4. CASE TakeAnswer(m)
      BY <1>2, <1>4, <2>4 DEF TakeAnswer
    <2> QED
      BY <1>1, <2>1, <2>2, <2>3, <2>4 DEF Receive
  <1>6. ASSUME NEW i \in 1 .. Len(wire') PROVE Link(i)'
    <2>1. /\ i + 1 \in 1 .. Len(wire) /\ i + 1 # 1 /\ i + 1 - 1 = i
          /\ i \in 1 .. Len(wire)
          /\ wire'[i] = wire[i + 1]
      BY <1>1, <1>6
    <2>2. Link(i + 1) /\ Before(i + 1) = wire[i].rev
      BY <2>1 DEF Chained, Before
    <2>3. CASE i = 1
      <3>1. Before(i)' = browser'.rev
        BY <2>3 DEF Before
      <3>2. wire'[i].rev \in Nat /\ wire'[i] = wire[2] /\ Before(2) = m.rev /\ Link(2)
        <4>1. wire[2] \in Messages
          BY <1>1, <2>1, <2>3
        <4> QED
          BY <2>1, <2>2, <2>3, <4>1, MessageParts DEF Revisions
      <3> HIDE DEF m
      <3> QED
        BY <1>2, <1>5, <2>3, <3>1, <3>2 DEF Link
    <2>4. CASE i # 1
      <3>1. i - 1 \in 1 .. Len(wire) - 1 /\ i - 1 + 1 = i
        BY <1>1, <1>6, <2>4
      <3>2. wire'[i - 1] = wire[i]
        BY <1>1, <3>1
      <3>3. Before(i)' = Before(i + 1)
        BY <2>2, <2>4, <3>2 DEF Before
      <3> QED
        BY <2>1, <2>2, <3>3 DEF Link
    <2> QED
      BY <2>3, <2>4
  <1>7. conn.phase \in Serving
    BY <1>1 DEF Chained, Serving, TypeOK, ConnPhases
  <1>8. IF wire' # <<>> THEN conn.last = wire'[Len(wire')].rev
                        ELSE /\ browser'.rev <= conn.last
                             /\ browser'.phase = "live" => browser'.rev = conn.last
    <2>1. conn.last = wire[Len(wire)].rev
      BY <1>1, <1>7 DEF Chained, Serving
    <2>2. CASE wire' = <<>>
      <3>1. Len(wire) = 1
        <4>1. Len(wire') = 0
          BY <2>2
        <4> QED
          BY <1>1, <4>1
      <3>2. conn.last = m.rev
        BY <2>1, <3>1
      <3> QED
        BY <1>5, <2>2, <3>2
    <2>3. CASE wire' # <<>>
      <3>1. Len(wire') \in 1 .. Len(wire) - 1 /\ Len(wire') + 1 = Len(wire)
        BY <1>1, <2>3
      <3> QED
        BY <1>1, <2>1, <2>3, <3>1
    <2> QED
      BY <2>2, <2>3
  <1>9. browser'.rev <= revision
    BY <1>2, <1>3, <1>5
  <1> QED
    BY <1>1, <1>6, <1>7, <1>8, <1>9 DEF Chained, Serving

(* Every step keeps the chain.                                              *)
LEMMA ChainedStep ==
    TypeOK /\ StatesHeld /\ Coherent /\ Chained /\ [Next]_vars => Chained'
  <1> SUFFICES ASSUME TypeOK, StatesHeld, Coherent, Chained, [Next]_vars
               PROVE  Chained'
    OBVIOUS
  <1>t. /\ conn \in LocalsAt(revision) /\ browser \in Remote
        /\ revision \in Revisions /\ revision \in Nat /\ broadcast \in 0 .. revision
        /\ Len(patches) = revision /\ patches \in Seq(Changes)
        /\ wire \in Seq(Messages)
    BY DEF TypeOK, LocalsAt, Remote, Nexts, Lasts, Views, Revisions
  <1>n. /\ conn.last \in 0 .. revision /\ conn.last \in Revisions
        /\ conn.next \in 1 .. revision + 1 /\ conn.phase \in ConnPhases
        /\ browser.rev \in Nat
    <2>1. conn.last \in 0 .. revision /\ conn.next \in 1 .. revision + 1
      BY <1>t DEF LocalsAt, Lasts, Nexts
    <2> QED
      BY <1>t, <2>1 DEF LocalsAt, Remote, Revisions
  <1>s. ASSUME NEW c \in LocalsAt(revision), SendLatest(c), conn.phase \in Serving,
               UNCHANGED <<publisher, browser>>
        PROVE  Chained'
    <2> DEFINE m == Snapshot(revision, state)
    <2>1. m \in Messages /\ m.rev = revision /\ m.kind = "snapshot"
      BY LatestSound DEF Snapshot
    <2>2. wire' = Append(wire, m) /\ conn'.phase = "idle" /\ conn'.last = revision
      BY <1>s DEF SendLatest, LocalsAt
    <2> HIDE DEF m
    <2> QED
      BY <1>n, <1>s, <1>t, <2>1, <2>2, ChainSend DEF Serving, publisher
  <1>1. CASE Publisher
    <2>1. /\ conn'.phase = conn.phase /\ conn'.last = conn.last
          /\ wire' = wire /\ browser' = browser
          /\ revision' = revision \/ revision' = revision + 1
      BY <1>1, <1>t
      DEF Publisher, PublishVolatile, PublishRevision, BroadcastPatch, LocalsAt
    <2> QED
      BY <1>t, <2>1, ChainStays
  <1>2. CASE Connect
    <2>1. /\ conn.phase = "closed" /\ wire' = wire /\ wire = <<>>
          /\ revision' = revision
          /\ browser' = [browser EXCEPT !.phase = "awaiting_hello"]
          /\ conn' = [NoConnection EXCEPT !.phase = "subscribed",
                                          !.next = broadcast + 1]
      BY <1>2 DEF Connect, Chained, publisher
    <2>2. conn'.phase = "subscribed"
      BY <1>t, <2>1, NoConnectionType DEF LocalsAt
    <2>3. browser'.rev = browser.rev /\ browser'.phase = "awaiting_hello"
      BY <1>t, <2>1 DEF Remote
    <2>4. wire' = <<>> /\ Len(wire') = 0
      BY <2>1
    <2> QED
      BY <2>1, <2>2, <2>3, <2>4 DEF Chained
  <1>3. CASE Disconnect
    <2>1. /\ wire' = <<>> /\ Len(wire') = 0 /\ revision' = revision
          /\ browser' = [browser EXCEPT !.phase = "disconnected"]
          /\ conn'.phase = "closed"
      BY <1>3 DEF Disconnect, publisher, NoConnection
    <2>2. browser'.rev = browser.rev /\ browser'.phase = "disconnected"
      BY <1>t, <2>1 DEF Remote
    <2> QED
      BY <2>1, <2>2 DEF Chained
  <1>4. CASE Greet
    <2>1. /\ wire' = <<Hello(revision), Snapshot(revision, state)>>
          /\ conn' = [conn EXCEPT !.phase = "idle", !.fresh = FALSE,
                                  !.last = revision, !.known = state]
          /\ UNCHANGED <<revision, browser>>
          /\ conn.phase = "subscribed"
      BY <1>4 DEF Greet, publisher
    <2>2. conn'.phase = "idle" /\ conn'.last = revision
      BY <1>t, <2>1 DEF LocalsAt
    <2>3. /\ Len(wire') = 2
          /\ wire'[1].rev = revision /\ wire'[1].kind = "hello"
          /\ wire'[2].rev = revision /\ wire'[2].kind = "snapshot"
      BY <2>1 DEF Hello, Snapshot
    <2>4. browser.rev <= revision
      BY DEF Chained
    <2>5. ASSUME NEW i \in 1 .. Len(wire') PROVE Link(i)'
      <3>1. i = 1 \/ i = 2
        BY <2>3
      <3>2. Before(1)' = browser.rev /\ Before(2)' = revision
        BY <2>1, <2>3 DEF Before
      <3>3. Before(i)' <= wire'[i].rev /\ wire'[i].kind \in {"hello", "snapshot"}
        BY <1>t, <2>3, <2>4, <3>1, <3>2
      <3> QED
        BY <3>3 DEF Link
    <2> QED
      BY <2>1, <2>2, <2>3, <2>4, <2>5 DEF Chained
  <1>5. CASE SkipPatch
    <2>1. conn'.phase = conn.phase /\ conn'.last = conn.last
      BY <1>5, <1>t DEF SkipPatch, LocalsAt
    <2> QED
      BY <1>5, <1>t, <2>1, ChainStays DEF SkipPatch, publisher
  <1>6. CASE RelayPatch
    <2> DEFINE m == Patch(conn.next, patches[conn.next])
    <2>1. /\ conn.next \in 1 .. Len(patches) /\ conn.next = conn.last + 1
          /\ conn.next \in Revisions
      BY <1>6, <1>t, <1>n DEF RelayPatch, Revisions
    <2>2. patches[conn.next] \in Changes
      BY <1>t, <2>1
    <2>3. m \in Messages /\ m.rev = conn.last + 1 /\ m.kind = "patch"
      BY <2>1, <2>2, MessageType DEF Patch
    <2>4. /\ wire' = Append(wire, m) /\ conn'.phase = "check"
          /\ conn'.last = conn.last + 1 /\ conn.phase = "idle"
      BY <1>6, <1>t DEF RelayPatch, LocalsAt
    <2> HIDE DEF m
    <2> QED
      BY <1>6, <1>n, <2>3, <2>4, ChainSend DEF RelayPatch, Serving, publisher
  <1>7. CASE CheckPatched
    <2>1. CASE SendLatest(conn)
      BY <1>7, <1>s, <1>t, <2>1 DEF CheckPatched, Serving
    <2>2. CASE /\ conn' = [conn EXCEPT !.phase = "idle", !.fresh = FALSE,
                                       !.known = state, !.patched = NoState]
               /\ UNCHANGED wire
      <3>1. conn'.phase = "idle" /\ conn'.last = conn.last
        BY <1>t, <2>2 DEF LocalsAt
      <3> QED
        BY <1>7, <1>t, <2>2, <3>1, ChainStays DEF CheckPatched, Serving, publisher
    <2> QED
      BY <1>7, <2>1, <2>2 DEF CheckPatched
  <1>8. CASE RecoverLag
    <2> DEFINE c == [conn EXCEPT !.next = IF Lagged THEN Oldest ELSE @ + 1]
    <2>1. (IF Lagged THEN Oldest ELSE conn.next + 1) \in Nexts(revision)
      <3>1. conn.next <= broadcast
        BY <1>8 DEF RecoverLag
      <3> QED
        BY <1>t, <1>n, <3>1, OldestType DEF Nexts
    <2>2. c \in LocalsAt(revision)
      BY <1>t, <2>1 DEF LocalsAt
    <2> HIDE DEF c
    <2>3. SendLatest(c)
      BY <1>8 DEF RecoverLag, c
    <2> QED
      BY <1>8, <1>s, <2>2, <2>3 DEF RecoverLag, Serving
  <1>9. CASE SnapshotChanged
    <2>1. CASE SendLatest(conn)
      BY <1>9, <1>s, <1>t, <2>1 DEF SnapshotChanged, Serving
    <2>2. CASE conn' = [conn EXCEPT !.fresh = FALSE] /\ UNCHANGED wire
      <3>1. conn'.phase = conn.phase /\ conn'.last = conn.last
        BY <1>t, <2>2 DEF LocalsAt
      <3> QED
        BY <1>9, <1>t, <2>2, <3>1, ChainStays DEF SnapshotChanged, publisher
    <2> QED
      BY <1>9, <2>1, <2>2 DEF SnapshotChanged
  <1>10. CASE SendAnswer
    <2> DEFINE m == Answer(conn.last)
    <2>1. m \in Messages /\ m.rev = conn.last /\ m.kind = "answer"
      BY <1>n, MessageType DEF Answer
    <2>2. /\ wire' = Append(wire, m) /\ conn'.phase = "answer"
          /\ conn'.last = conn.last /\ conn.phase = "idle"
      BY <1>10, <1>t DEF SendAnswer, LocalsAt
    <2> HIDE DEF m
    <2> QED
      BY <1>10, <1>n, <2>1, <2>2, ChainSend DEF SendAnswer, Serving, publisher
  <1>11. CASE SendAskedSnapshot
    BY <1>11, <1>s, <1>t DEF SendAskedSnapshot, Serving
  <1>12. CASE Receive
    BY <1>12, ChainReceive
  <1>13. CASE Doubt
    <2>1. browser'.rev = browser.rev /\ browser'.phase = "stale"
      BY <1>13, <1>t DEF Doubt, Remote
    <2>2. conn.phase \notin {"closed", "subscribed"}
      BY <1>13 DEF Doubt, Chained
    <2> QED
      BY <1>13, <1>t, <2>1, <2>2, ChainStays DEF Doubt, publisher
  <1>14. CASE RequestSnapshot \/ UNCHANGED vars
    BY <1>14, <1>t, ChainStays DEF RequestSnapshot, vars, publisher
  <1> QED
    BY <1>1, <1>2, <1>3, <1>4, <1>5, <1>6, <1>7, <1>8, <1>9, <1>10, <1>11,
       <1>12, <1>13, <1>14
    DEF Next, Connection

(* The first state has nothing to chain.                                    *)
LEMMA ChainedInit == Init => Chained
  <1> SUFFICES ASSUME Init PROVE Chained
    OBVIOUS
  <1>1. /\ wire = <<>> /\ Len(wire) = 0 /\ browser.rev = 0 /\ revision = 0
        /\ browser.phase = "disconnected" /\ conn.phase = "closed"
    BY DEF Init, NoConnection
  <1> QED
    BY <1>1 DEF Chained

(* The patch that a live browser reads next follows the state that it has.  *)
THEOREM PatchesInOrder == Spec => []PatchFollows
  <1>1. Init => Chained
    BY ChainedInit
  <1>2. Init => TypeOK /\ Coherent
    BY TypeInit, CoherentInit
  <1>3. TypeOK /\ StatesHeld /\ Coherent /\ Chained /\ [Next]_vars
        => (Coherent /\ Chained)'
    BY CoherentStep, ChainedStep
  <1>4. TypeOK /\ Chained => PatchFollows
    <2> SUFFICES ASSUME TypeOK, Chained, browser.phase = "live", wire # <<>>,
                        Head(wire).kind = "patch"
                 PROVE  Head(wire).rev = browser.rev + 1
      BY DEF PatchFollows
    <2>1. Head(wire) = wire[1] /\ 1 \in 1 .. Len(wire)
      BY WireTail DEF TypeOK
    <2> QED
      BY <2>1 DEF Chained, Link, Before
  <1> QED
    BY <1>1, <1>2, <1>3, <1>4, TypeAndHeld, PTL DEF Spec

-----------------------------------------------------------------------------
(* The mirror implements its promise.                                      *)

ContentsOf(h) == [r \in 1 .. Len(h) |-> Meaning(h[r])]
PublishedSoFar == ContentsOf(history)
ShownNow == [rev |-> browser.rev,
             contents |-> IF browser.view = NoState THEN NoState
                                                    ELSE Meaning(browser.view)]

(* The contents of a history of states.                                     *)
LEMMA ContentsType ==
    ASSUME NEW h \in Seq(States)
    PROVE  /\ ContentsOf(h) \in Seq([Kept -> Values])
           /\ Len(ContentsOf(h)) = Len(h) /\ Len(h) \in Nat
           /\ \A r \in 1 .. Len(h) : ContentsOf(h)[r] = Meaning(h[r])
  <1>1. Len(h) \in Nat
    OBVIOUS
  <1>2. ASSUME NEW r \in 1 .. Len(h) PROVE Meaning(h[r]) \in [Kept -> Values]
    <2>1. h[r] \in States
      BY <1>2
    <2> QED
      BY <2>1 DEF Meaning, Kept, States
  <1>3. ContentsOf(h) \in [1 .. Len(h) -> [Kept -> Values]]
    BY <1>2 DEF ContentsOf
  <1>4. ContentsOf(h) \in Seq([Kept -> Values])
    BY <1>1, <1>3
  <1>5. Len(ContentsOf(h)) = Len(h)
    BY <1>1, <1>3
  <1> QED
    BY <1>1, <1>4, <1>5 DEF ContentsOf

(* What may be shown as a revision has the contents that were published.    *)
LEMMA MeansContents ==
    ASSUME NEW s, NEW r, Means(s, r), Len(history) = revision + 1,
           revision \in Nat
    PROVE  /\ r + 1 \in 1 .. Len(history)
           /\ PublishedSoFar[r + 1] = Meaning(s)
  <1>1. r \in 0 .. revision /\ \A x \in Kept : s[x] = history[r + 1][x]
    BY DEF Means
  <1>2. r + 1 \in 1 .. Len(history)
    BY <1>1
  <1>3. Meaning(s) = Meaning(history[r + 1])
    BY <1>1 DEF Meaning, Kept
  <1> QED
    BY <1>2, <1>3 DEF PublishedSoFar, ContentsOf

(* A new revision is a new one to a viewer: its contents differ.            *)
LEMMA PromisePublish ==
    ASSUME TypeOK, Coherent, NEW s \in States, PublishRevision(s)
    PROVE  /\ Meaning(s) \in [Kept -> Values] \ {PublishedSoFar[Len(PublishedSoFar)]}
           /\ PublishedSoFar' = Append(PublishedSoFar, Meaning(s))
  <1>1. /\ history' = Append(history, s) /\ history \in Seq(States)
        /\ Len(history) = revision + 1 /\ revision \in Nat
        /\ ~SemanticallyEqual(s, state)
    BY DEF PublishRevision, TypeOK, Revisions
  <1>2. Meaning(s) \in [Kept -> Values]
    BY DEF Meaning, Kept, States
  <1>3. Len(PublishedSoFar) = revision + 1
    BY <1>1, ContentsType DEF PublishedSoFar
  <1>4. PublishedSoFar[revision + 1] = Meaning(state)
    BY <1>1, MeansContents DEF Coherent
  <1>5. Meaning(s) # Meaning(state)
    <2>1. PICK x \in Kept : s[x] # state[x]
      BY <1>1 DEF SemanticallyEqual, Kept
    <2>2. Meaning(s)[x] = s[x] /\ Meaning(state)[x] = state[x]
      BY <2>1 DEF Meaning, Kept
    <2> QED
      BY <2>1, <2>2
  <1>6. PublishedSoFar' = Append(PublishedSoFar, Meaning(s))
    <2> DEFINE h == Append(history, s)
               p == Append(PublishedSoFar, Meaning(s))
               n == Len(history)
    <2>1. /\ n \in Nat /\ Len(h) = n + 1 /\ h \in Seq(States) /\ h[n + 1] = s
          /\ \A r \in 1 .. n : h[r] = history[r]
      BY <1>1
    <2>2. /\ PublishedSoFar \in Seq([Kept -> Values]) /\ Len(PublishedSoFar) = n
          /\ \A r \in 1 .. n : PublishedSoFar[r] = Meaning(history[r])
      BY <1>1, ContentsType DEF PublishedSoFar
    <2>3. /\ p \in Seq([Kept -> Values]) /\ Len(p) = n + 1
          /\ p[n + 1] = Meaning(s)
          /\ \A r \in 1 .. n : p[r] = PublishedSoFar[r]
      BY <1>2, <2>2
    <2>4. /\ ContentsOf(h) \in Seq([Kept -> Values]) /\ Len(ContentsOf(h)) = n + 1
          /\ \A r \in 1 .. n + 1 : ContentsOf(h)[r] = Meaning(h[r])
      BY <2>1, ContentsType
    <2> HIDE DEF h, p, n
    <2>5. ASSUME NEW r \in 1 .. n + 1 PROVE ContentsOf(h)[r] = p[r]
      <3>1. CASE r = n + 1
        BY <2>1, <2>3, <2>4, <3>1
      <3>2. CASE r # n + 1
        <4>1. r \in 1 .. n
          BY <2>1, <3>2
        <4> QED
          BY <2>1, <2>2, <2>3, <2>4, <4>1
      <3> QED
        BY <3>1, <3>2
    <2>6. ContentsOf(h) = p
      BY <2>3, <2>4, <2>5, SeqEqual
    <2> QED
      BY <1>1, <2>6 DEF PublishedSoFar, h, p
  <1> QED
    BY <1>2, <1>3, <1>4, <1>5, <1>6

(* What a browser shows after a message was published, and is not older     *)
(* than what it showed before.                                              *)
LEMMA PromiseShow ==
    ASSUME TypeOK, StatesHeld, Coherent, Coherent', Chained, Receive
    PROVE  \/ ShownNow' = ShownNow
           \/ \E r \in browser.rev .. Len(PublishedSoFar) - 1 :
                  ShownNow' = [rev |-> r, contents |-> PublishedSoFar[r + 1]]
  <1>1. history' = history /\ revision' = revision /\ wire # <<>>
    BY DEF Receive, publisher
  <1>2. /\ Len(history) = revision + 1 /\ revision \in Nat /\ browser \in Remote
        /\ browser.rev \in Nat /\ wire \in Seq(Messages)
    BY DEF TypeOK, Revisions, Remote, Views
  <1> DEFINE m == wire[1]
  <1>3. /\ m = Head(wire) /\ m \in Messages /\ m.rev \in Nat
        /\ 1 \in 1 .. Len(wire)
    BY <1>1, <1>2, WireTail, MessageParts DEF Revisions
  <1>4. browser.rev <= m.rev
    BY <1>3 DEF Chained, Link, Before
  <1> HIDE DEF m
  <1>5. \/ browser'.view = browser.view /\ browser'.rev = browser.rev
        \/ browser'.view # NoState /\ browser'.rev \in Nat
           /\ browser.rev <= browser'.rev
    <2>1. CASE TakeHello(m) \/ TakeAnswer(m)
      BY <1>2, <2>1 DEF TakeHello, TakeAnswer, Remote
    <2>2. CASE TakeSnapshot(m)
      <3>1. CASE browser' = browser \/ browser' = [browser EXCEPT !.phase = "stale"]
        BY <1>2, <3>1 DEF Remote
      <3>2. CASE browser' = [browser EXCEPT !.phase = "live", !.view = m.state,
                                            !.rev = m.rev]
        <4>1. browser'.view = m.state /\ browser'.rev = m.rev
          BY <1>2, <3>2 DEF Remote
        <4>2. m.state \in States
          BY <1>3, <2>2, MessageParts DEF TakeSnapshot
        <4> QED
          BY <1>3, <1>4, <4>1, <4>2
      <3> QED
        BY <2>2, <3>1, <3>2 DEF TakeSnapshot
    <2>3. CASE TakePatch(m)
      <3>1. CASE browser' = browser \/ browser' = [browser EXCEPT !.phase = "stale"]
        BY <1>2, <3>1 DEF Remote
      <3>2. CASE /\ browser.phase = "live"
                 /\ browser' = [browser EXCEPT !.view = Apply(@, m.changes),
                                               !.rev = m.rev]
        <4>1. browser'.view = Apply(browser.view, m.changes) /\ browser'.rev = m.rev
          BY <1>2, <3>2 DEF Remote
        <4>2. Apply(browser.view, m.changes) # NoState
          <5>1. browser.view \in States /\ m.changes \in Changes
            BY <1>3, <2>3, <3>2, MessageParts DEF StatesHeld, TakePatch
          <5> QED
            BY <5>1, ApplyType
        <4> QED
          BY <1>3, <1>4, <4>1, <4>2
      <3> QED
        BY <2>3, <3>1, <3>2 DEF TakePatch
    <2> QED
      BY <1>3, <2>1, <2>2, <2>3 DEF Receive
  <1>6. CASE browser'.view = browser.view /\ browser'.rev = browser.rev
    BY <1>6 DEF ShownNow
  <1>7. CASE browser'.view # NoState /\ browser'.rev \in Nat /\ browser.rev <= browser'.rev
    <2>1. Means(browser.view, browser.rev)'
      BY <1>7 DEF Coherent
    <2>2. /\ browser'.rev + 1 \in 1 .. Len(history)
          /\ PublishedSoFar[browser'.rev + 1] = Meaning(browser'.view)
      <3>1. PICK v, r : v = browser'.view /\ r = browser'.rev
        OBVIOUS
      <3>2. Means(v, r)
        BY <1>1, <2>1, <3>1 DEF Means
      <3> QED
        BY <1>2, <3>1, <3>2, MeansContents
    <2>3. Len(PublishedSoFar) = Len(history)
      BY ContentsType DEF PublishedSoFar, TypeOK
    <2>4. browser'.rev \in browser.rev .. Len(PublishedSoFar) - 1
      BY <1>2, <1>7, <2>2, <2>3
    <2>5. ShownNow' = [rev |-> browser'.rev, contents |-> PublishedSoFar[browser'.rev + 1]]
      BY <1>7, <2>2 DEF ShownNow
    <2> QED
      BY <2>4, <2>5
  <1> QED
    BY <1>5, <1>6, <1>7

(* Every step of the mirror is a step of its promise.                       *)
LEMMA PromiseStep ==
    TypeOK /\ StatesHeld /\ Coherent /\ Coherent' /\ Chained /\ [Next]_vars
    => [Promise!Next]_<<PublishedSoFar, ShownNow>>
  <1> SUFFICES ASSUME TypeOK, StatesHeld, Coherent, Coherent', Chained, [Next]_vars
               PROVE  [Promise!Next]_<<PublishedSoFar, ShownNow>>
    OBVIOUS
  <1>p. /\ Promise!Publish <=>
             /\ \E c \in [Kept -> Values] \ {PublishedSoFar[Len(PublishedSoFar)]} :
                    PublishedSoFar' = Append(PublishedSoFar, c)
             /\ UNCHANGED ShownNow
        /\ Promise!Show <=>
             /\ \E r \in browser.rev .. Len(PublishedSoFar) - 1 :
                    ShownNow' = [rev |-> r, contents |-> PublishedSoFar[r + 1]]
             /\ UNCHANGED PublishedSoFar
    BY DEF Promise!Publish, Promise!Show, PublishedSoFar, ContentsOf, ShownNow, Kept
  <1>u. ASSUME history' = history, browser'.view = browser.view,
               browser'.rev = browser.rev
        PROVE  UNCHANGED <<PublishedSoFar, ShownNow>>
    BY <1>u DEF PublishedSoFar, ShownNow
  <1>b. browser \in Remote
    BY DEF TypeOK, Remote, Views
  <1>1. ASSUME NEW s \in States, PublishRevision(s)
        PROVE  Promise!Next
    <2>1. UNCHANGED ShownNow
      BY <1>1 DEF PublishRevision, ShownNow
    <2> QED
      BY <1>1, <1>p, <2>1, PromisePublish DEF Promise!Next
  <1>2. CASE Receive
    <2>1. history' = history
      BY <1>2 DEF Receive, publisher
    <2>2. UNCHANGED PublishedSoFar
      BY <2>1 DEF PublishedSoFar
    <2> QED
      BY <1>2, <1>p, <2>2, PromiseShow DEF Promise!Next
  <1>3. CASE Connect \/ Disconnect \/ Doubt
    <2>1. browser'.view = browser.view /\ browser'.rev = browser.rev
      BY <1>3, <1>b DEF Connect, Disconnect, Doubt, Remote
    <2>2. history' = history
      BY <1>3 DEF Connect, Disconnect, Doubt, publisher
    <2> QED
      BY <1>u, <2>1, <2>2
  <1>4. CASE BroadcastPatch \/ RequestSnapshot \/ UNCHANGED vars
    BY <1>4, <1>u DEF BroadcastPatch, RequestSnapshot, vars, publisher
  <1>5. ASSUME NEW s \in States, PublishVolatile(s)
        PROVE  UNCHANGED <<PublishedSoFar, ShownNow>>
    BY <1>5, <1>u DEF PublishVolatile
  <1>6. CASE Connection
    BY <1>6, <1>u
    DEF Connection, Greet, SkipPatch, RelayPatch, CheckPatched, RecoverLag,
        SnapshotChanged, SendAnswer, SendAskedSnapshot, publisher
  <1> QED
    BY <1>1, <1>2, <1>3, <1>4, <1>5, <1>6 DEF Next, Publisher

(* The mirror implements its promise: published revisions, whole and in     *)
(* their order, whatever the channels lose.                                 *)
THEOREM PromiseCorrect == Spec => KeepsPromise
  <1>1. Init => Promise!Init
    <2> SUFFICES ASSUME Init PROVE Promise!Init
      OBVIOUS
    <2>1. Len(history) = 1 /\ history[1] = Initial /\ browser.rev = 0
          /\ browser.view = NoState
      BY DEF Init
    <2>2. Meaning(Initial) \in [Kept -> Values]
      BY DEF Meaning, Kept, States
    <2>3. <<Meaning(Initial)>> = [r \in 1 .. Len(history) |-> Meaning(history[r])]
      BY <2>1
    <2> QED
      BY <2>1, <2>2, <2>3 DEF Promise!Init, Kept
  <1>2. Init => TypeOK /\ Coherent /\ Chained
    BY TypeInit, CoherentInit, ChainedInit
  <1>3. TypeOK /\ StatesHeld /\ Coherent /\ Chained /\ [Next]_vars
        => (Coherent /\ Chained)'
    BY CoherentStep, ChainedStep
  <1>4. TypeOK /\ StatesHeld /\ Coherent /\ Coherent' /\ Chained /\ [Next]_vars
        => [Promise!Next]_<<[r \in 1 .. Len(history) |-> Meaning(history[r])],
                            [rev |-> browser.rev,
                             contents |-> IF browser.view = NoState
                                          THEN NoState ELSE Meaning(browser.view)]>>
    BY PromiseStep DEF PublishedSoFar, ContentsOf, ShownNow
  <1> QED
    BY <1>1, <1>2, <1>3, <1>4, TypeAndHeld, PTL DEF Spec, KeepsPromise, Promise!Spec
=============================================================================
