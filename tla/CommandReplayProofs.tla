-------------------------- MODULE CommandReplayProofs --------------------------
(* Type correctness of CommandReplay, for every set of commands and every    *)
(* capacity and bound; that a command takes effect at most once, that the    *)
(* browser can place every answer, and that CommandReplay implements         *)
(* CommandPromise.                                                           *)
EXTENDS CommandReplay, SequenceTheorems, TLAPS

USE CommandAssumption, CommandBounds

-----------------------------------------------------------------------------
(* Sequences.                                                                *)

(* Without removes one element and keeps the others.                         *)
LEMMA WithoutType ==
    ASSUME NEW S, NEW s \in Seq(S), NEW i \in 1 .. Len(s)
    PROVE  /\ Without(s, i) \in Seq(S)
           /\ Len(Without(s, i)) = Len(s) - 1
           /\ \A j \in 1 .. Len(s) - 1 :
                  Without(s, i)[j] = IF j < i THEN s[j] ELSE s[j + 1]
  <1> DEFINE t == Without(s, i)
  <1>1. Len(s) \in Nat \ {0} /\ s \in [1 .. Len(s) -> S]
    BY LenProperties
  <1>2. t \in [1 .. Len(s) - 1 -> S]
    BY <1>1 DEF Without
  <1>3. Len(s) - 1 \in Nat
    BY <1>1
  <1>4. t \in Seq(S) /\ Len(t) = Len(s) - 1
    BY <1>2, <1>3
  <1> QED
    BY <1>1, <1>4 DEF Without

(* Beyond drops the first elements.                                          *)
LEMMA BeyondType ==
    ASSUME NEW S, NEW s \in Seq(S), NEW n \in 0 .. Len(s)
    PROVE  /\ Beyond(s, n) \in Seq(S)
           /\ Len(Beyond(s, n)) = Len(s) - n
           /\ \A j \in 1 .. Len(s) - n : Beyond(s, n)[j] = s[j + n]
  <1> DEFINE t == Beyond(s, n)
  <1>1. Len(s) \in Nat /\ s \in [1 .. Len(s) -> S]
    BY LenProperties
  <1>2. t \in [1 .. Len(s) - n -> S]
    BY <1>1 DEF Beyond
  <1>3. Len(s) - n \in Nat
    BY <1>1
  <1>4. t \in Seq(S) /\ Len(t) = Len(s) - n
    BY <1>2, <1>3
  <1> QED
    BY <1>1, <1>4 DEF Beyond

(* One socket's frames are replaced.                                         *)
LEMMA SocketType ==
    ASSUME NEW S, NEW f \in [Connections -> Seq(S)],
           NEW k \in Connections, NEW s \in Seq(S)
    PROVE  /\ [f EXCEPT ![k] = s] \in [Connections -> Seq(S)]
           /\ [f EXCEPT ![k] = <<>>] \in [Connections -> Seq(S)]
  <1> DEFINE T == Seq(S)
  <1>1. <<>> \in T
    OBVIOUS
  <1> HIDE DEF T
  <1>2. [f EXCEPT ![k] = s] \in [Connections -> T]
    <2> f \in [Connections -> T] /\ s \in T
      BY DEF T
    <2> QED
      OBVIOUS
  <1>3. [f EXCEPT ![k] = <<>>] \in [Connections -> T]
    <2> f \in [Connections -> T]
      BY DEF T
    <2> QED
      BY <1>1
  <1> QED
    BY <1>2, <1>3 DEF T

(* What is replayed is a sequence of the commands to replay.                 *)
LEMMA InOrderType ==
    ASSUME NEW S \in SUBSET Commands, NEW f \in InOrder(S),
           browser.pending \in Seq(Commands)
    PROVE  /\ f \in Seq(Commands)
           /\ \A i \in 1 .. Len(f) : f[i] \in S
  <1>1. PICK n \in 0 .. Len(browser.pending) : f \in [1 .. n -> S]
    BY DEF InOrder
  <1>2. n \in Nat
    BY <1>1
  <1> QED
    BY <1>1, <1>2

(* Sending appends one, reading takes the first.                             *)
LEMMA AppendType ==
    ASSUME NEW S, NEW s \in Seq(S), NEW x \in S
    PROVE  /\ Append(s, x) \in Seq(S)
           /\ Len(Append(s, x)) = Len(s) + 1
           /\ Len(s) \in Nat
           /\ Append(s, x) # <<>>
           /\ Append(s, x)[Len(s) + 1] = x
           /\ \A i \in 1 .. Len(s) : Append(s, x)[i] = s[i]
  OBVIOUS

LEMMA TailType ==
    ASSUME NEW S, NEW s \in Seq(S), s # <<>>
    PROVE  /\ Head(s) \in S
           /\ Tail(s) \in Seq(S)
           /\ Len(s) \in Nat \ {0}
           /\ Len(Tail(s)) = Len(s) - 1
           /\ Head(s) = s[1]
           /\ \A i \in 1 .. Len(s) - 1 : Tail(s)[i] = s[i + 1]
  OBVIOUS

-----------------------------------------------------------------------------
(* The components of the state.                                              *)

Entries == [id : Commands, answer : Answers]
Browsers ==
    [conn : 0 .. MaxConnections, open : BOOLEAN, synced : BOOLEAN,
     proof : Nat, pending : Seq(Commands),
     sent : [Commands -> 0 .. MaxConnections],
     completed : Seq(Entries), faulty : BOOLEAN]
Outcomes == {"idle", "pending", "abandoned"} \union AnswerKinds
Calls == [conn : Connections, id : Commands, answer : Answers \union {Unanswered}]
Envelopes == [conn : Connections, id : Commands]
Actors == [on : BOOLEAN, epoch : Nat, revision : Nat, cache : Seq(Entries),
           waiters : [Commands -> SUBSET Connections]]
Apps == [up : BOOLEAN, load : Commands \union {Nothing}, times : [Commands -> Nat],
         halfway : SUBSET Commands]

BrowserOK ==
    /\ browser \in Browsers
    /\ browser.open => browser.conn \in Connections
    /\ Len(browser.pending) <= MaxInFlight
    /\ outcome \in [Commands -> Outcomes]
    /\ expected \in [Commands -> Nat]
WireOK ==
    /\ up \in [Connections -> Seq(Commands)]
    /\ down \in [Connections -> Seq(Entries)]
ServerOK ==
    /\ serving \subseteq Connections
    /\ calls \subseteq Calls
    /\ mailbox \in Seq(Envelopes)
    /\ Len(mailbox) <= MailboxCapacity
ActorOK ==
    /\ actor \in Actors
    /\ Len(actor.cache) <= CacheCapacity
    /\ app \in Apps
    /\ forgotten \subseteq Commands

(* The invariant, taken apart.                                               *)
LEMMA TypeParts == TypeOK <=> BrowserOK /\ WireOK /\ ServerOK /\ ActorOK
  BY DEF TypeOK, BrowserOK, WireOK, ServerOK, ActorOK, Browsers, Outcomes,
         Entries, Calls, Envelopes, Actors, Apps

USE DEF Connections

LEMMA AnswerType ==
    ASSUME ActorOK, NEW is \in AnswerKinds
    PROVE  LocalAnswer(is) \in Answers /\ LocalAnswer(is).is = is
                                       /\ LocalAnswer(is).rev = actor.revision
  BY DEF ActorOK, Actors, LocalAnswer, Answers

LEMMA InitType == Init => TypeOK
  <1> SUFFICES ASSUME Init PROVE BrowserOK /\ WireOK /\ ServerOK /\ ActorOK
    BY TypeParts
  <1>1. BrowserOK
    BY DEF Init, BrowserOK, Browsers, Outcomes
  <1>2. WireOK
    BY DEF Init, WireOK
  <1>3. ServerOK
    BY DEF Init, ServerOK
  <1>4. ActorOK
    BY DEF Init, ActorOK, Actors, Apps
  <1> QED
    BY <1>1, <1>2, <1>3, <1>4

LEMMA TypePartsNext ==
    TypeOK' <=> BrowserOK' /\ WireOK' /\ ServerOK' /\ ActorOK'
  BY DEF TypeOK, BrowserOK, WireOK, ServerOK, ActorOK, Browsers, Outcomes,
         Entries, Calls, Envelopes, Actors, Apps

(* What a step leaves alone keeps its type.                                  *)
LEMMA BrowserKept == BrowserOK /\ UNCHANGED onBrowser => BrowserOK'
  BY DEF BrowserOK, onBrowser
LEMMA WireKept == WireOK /\ UNCHANGED <<up, down>> => WireOK'
  BY DEF WireOK
LEMMA ServerKept == ServerOK /\ UNCHANGED onServer => ServerOK'
  BY DEF ServerOK, onServer
LEMMA ActorKept == ActorOK /\ UNCHANGED inActor => ActorOK'
  BY DEF ActorOK, inActor

(* Frames are added to and taken from one end of one socket.                 *)
LEMMA ReplyType ==
    ASSUME WireOK, NEW k \in Connections, NEW c \in Commands, NEW a \in Answers,
           Reply(k, c, a)
    PROVE  down' \in [Connections -> Seq(Entries)]
  <1>1. [id |-> c, answer |-> a] \in Entries
    BY DEF Entries
  <1>2. Append(down[k], [id |-> c, answer |-> a]) \in Seq(Entries)
    BY <1>1 DEF WireOK
  <1> QED
    BY <1>2 DEF Reply, WireOK

LEMMA ResolvedType ==
    ASSUME calls \subseteq Calls, NEW ks, NEW c, NEW a \in Answers
    PROVE  ResolvedFor(ks, c, a, calls) \subseteq Calls
  <1> SUFFICES ASSUME NEW x \in calls
               PROVE  [x EXCEPT !.answer = a] \in Calls /\ x \in Calls
    BY DEF ResolvedFor
  <1> QED
    BY DEF Calls

LEMMA RememberType ==
    ASSUME ActorOK, NEW c \in Commands, NEW a \in Answers, Remember(c, a)
    PROVE  /\ actor' \in Actors
           /\ Len(actor'.cache) <= CacheCapacity
           /\ forgotten' \subseteq Commands
  <1>1. PICK n \in 0 .. Len(actor.cache) :
            /\ Fits(n)
            /\ actor' = [actor EXCEPT
                   !.cache = Append(Beyond(@, n), [id |-> c, answer |-> a]),
                   !.revision = a.rev,
                   !.waiters[c] = {}]
            /\ forgotten' = forgotten \union ({actor.cache[i].id : i \in 1 .. n} \ {c})
    BY DEF Remember
  <1> DEFINE rest == Beyond(actor.cache, n)
             e == [id |-> c, answer |-> a]
  <1>2. actor.cache \in Seq(Entries)
    BY DEF ActorOK, Actors
  <1>3. rest \in Seq(Entries) /\ Len(rest) = Len(actor.cache) - n
    BY <1>2, BeyondType
  <1>4. e \in Entries
    BY DEF Entries
  <1>5. Append(rest, e) \in Seq(Entries) /\ Len(Append(rest, e)) = Len(rest) + 1
    <2> HIDE DEF rest, e
    <2> QED
      BY <1>3, <1>4, AppendType
  <1> HIDE DEF rest, e
  <1>6. n \in Nat /\ Len(actor.cache) \in Nat
    BY <1>2
  <1>7. Len(rest) < CacheCapacity
    BY <1>1, <1>3, <1>6 DEF Fits
  <1>8. Len(Append(rest, e)) <= CacheCapacity
    BY <1>3, <1>5, <1>6, <1>7
  <1>9. a.rev \in Nat
    BY DEF Answers
  <1>10. [actor.waiters EXCEPT ![c] = {}] \in [Commands -> SUBSET Connections]
    BY DEF ActorOK, Actors
  <1>11. actor' = [actor EXCEPT !.cache = Append(rest, e), !.revision = a.rev,
                                !.waiters = [actor.waiters EXCEPT ![c] = {}]]
    BY <1>1 DEF rest, e, ActorOK, Actors
  <1>12. actor' \in Actors /\ actor'.cache = Append(rest, e)
    BY <1>11, <1>5, <1>9, <1>10 DEF ActorOK, Actors
  <1>13. \A i \in 1 .. n : actor.cache[i].id \in Commands
    <2> TAKE i \in 1 .. n
    <2>1. i \in 1 .. Len(actor.cache)
      BY <1>6
    <2>2. actor.cache[i] \in Entries
      BY <1>2, <2>1
    <2> QED
      BY <2>2 DEF Entries
  <1>14. forgotten' \subseteq Commands
    BY <1>1, <1>13 DEF ActorOK
  <1> QED
    BY <1>8, <1>12, <1>14

-----------------------------------------------------------------------------
(* The browser's actions.                                                    *)

(* What the browser does to its own record.                                  *)
LEMMA BrowserSteps ==
    ASSUME TypeOK,
           \/ Connect \/ Reauthenticate \/ MarkStale \/ Break
    PROVE  TypeOK'
  <1>1. BrowserOK /\ WireOK /\ ServerOK /\ ActorOK
    BY TypeParts
  <1>2. CASE Connect
    <2>0. browser.conn + 1 \in Connections /\ browser.conn + 1 \in 0 .. MaxConnections
      BY <1>1, <1>2 DEF Connect, BrowserOK, Browsers
    <2>1. BrowserOK'
      <3>1. browser' \in Browsers
        BY <1>1, <1>2, <2>0 DEF Connect, BrowserOK, Browsers
      <3>2. browser'.conn = browser.conn + 1 /\ browser'.pending = browser.pending
        BY <1>1, <1>2 DEF Connect, BrowserOK, Browsers
      <3> QED
        BY <1>1, <1>2, <2>0, <3>1, <3>2 DEF Connect, BrowserOK
    <2>2. WireOK' /\ ActorOK'
      BY <1>1, <1>2, WireKept, ActorKept DEF Connect
    <2>3. ServerOK'
      BY <1>1, <1>2, <2>0 DEF Connect, ServerOK
    <2> QED
      BY <2>1, <2>2, <2>3, TypePartsNext
  <1>3. CASE Reauthenticate
    <2>1. browser' \in Browsers
      <3>1. [c \in Commands |-> 0] \in [Commands -> 0 .. MaxConnections]
        OBVIOUS
      <3>2. actor.epoch \in Nat /\ <<>> \in Seq(Commands) /\ <<>> \in Seq(Entries)
        BY <1>1 DEF ActorOK, Actors
      <3> QED
        BY <1>1, <1>3, <3>1, <3>2 DEF Reauthenticate, AbandonPending, BrowserOK, Browsers
    <2>2. outcome' \in [Commands -> Outcomes]
      BY <1>1, <1>3 DEF Reauthenticate, Told, BrowserOK, Outcomes
    <2>3. BrowserOK'
      BY <1>1, <1>3, <2>1, <2>2 DEF Reauthenticate, AbandonPending, BrowserOK, Browsers
    <2>4. WireOK' /\ ServerOK' /\ ActorOK'
      BY <1>1, <1>3, WireKept, ServerKept, ActorKept DEF Reauthenticate
    <2> QED
      BY <2>3, <2>4, TypePartsNext
  <1>4. CASE MarkStale
    <2>1. BrowserOK'
      BY <1>1, <1>4 DEF MarkStale, BrowserOK, Browsers
    <2>2. WireOK' /\ ServerOK' /\ ActorOK'
      BY <1>1, <1>4, WireKept, ServerKept, ActorKept DEF MarkStale
    <2> QED
      BY <2>1, <2>2, TypePartsNext
  <1>5. CASE Break
    <2>1. BrowserOK'
      BY <1>1, <1>5 DEF Break, BrowserOK, Browsers
    <2>2. WireOK'
      BY <1>1, <1>5, SocketType DEF Break, WireOK, BrowserOK
    <2>3. ServerOK' /\ ActorOK'
      BY <1>1, <1>5, ServerKept, ActorKept DEF Break
    <2> QED
      BY <2>1, <2>2, <2>3, TypePartsNext
  <1> QED
    BY <1>2, <1>3, <1>4, <1>5

LEMMA IssueType ==
    ASSUME TypeOK, NEW c \in Commands, Issue(c)
    PROVE  TypeOK'
  <1>1. BrowserOK /\ WireOK /\ ServerOK /\ ActorOK
    BY TypeParts
  <1> DEFINE longer == Append(browser.pending, c)
  <1>2. longer \in Seq(Commands) /\ Len(longer) = Len(browser.pending) + 1
                                 /\ Len(browser.pending) \in Nat
    BY <1>1, AppendType DEF BrowserOK, Browsers
  <1> HIDE DEF longer
  <1>3. browser.conn \in Connections
    BY <1>1 DEF Issue, BrowserOK
  <1>4. \/ /\ browser' = [browser EXCEPT !.pending = longer, !.sent[c] = browser.conn]
           /\ up' = [up EXCEPT ![browser.conn] = Append(@, c)]
           /\ UNCHANGED down
        \/ /\ browser' = [browser EXCEPT !.pending = longer,
                                         !.open = FALSE, !.synced = FALSE]
           /\ down' = [down EXCEPT ![browser.conn] = <<>>]
           /\ UNCHANGED up
    BY <1>1 DEF Issue, longer, BrowserOK, Browsers
  <1>5. browser' \in Browsers /\ browser'.pending = longer
    <2>1. [browser.sent EXCEPT ![c] = browser.conn] \in [Commands -> 0 .. MaxConnections]
      BY <1>1, <1>3 DEF BrowserOK, Browsers
    <2>2. \/ browser' = [browser EXCEPT !.pending = longer,
                             !.sent = [browser.sent EXCEPT ![c] = browser.conn]]
          \/ browser' = [browser EXCEPT !.pending = longer,
                                        !.open = FALSE, !.synced = FALSE]
      BY <1>1, <1>4 DEF BrowserOK, Browsers
    <2> QED
      BY <1>1, <1>2, <2>1, <2>2 DEF BrowserOK, Browsers
  <1>6. browser'.open => browser'.conn \in Connections
    BY <1>1, <1>3, <1>4 DEF BrowserOK, Browsers
  <1>7. Len(browser'.pending) <= MaxInFlight
    BY <1>2, <1>5 DEF Issue
  <1>8. outcome' \in [Commands -> Outcomes]
    BY <1>1 DEF Issue, BrowserOK, Outcomes
  <1>9. expected' \in [Commands -> Nat]
    <2>1. PICK r \in 0 .. actor.revision : expected' = [expected EXCEPT ![c] = r]
      BY DEF Issue
    <2>2. r \in Nat
      BY <1>1 DEF ActorOK, Actors
    <2> QED
      BY <1>1, <2>1, <2>2 DEF BrowserOK
  <1>10. BrowserOK'
    BY <1>5, <1>6, <1>7, <1>8, <1>9 DEF BrowserOK
  <1>11. up' \in [Connections -> Seq(Commands)]
    <2>1. Append(up[browser.conn], c) \in Seq(Commands)
      BY <1>1, <1>3, AppendType DEF WireOK
    <2> QED
      BY <1>1, <1>4, <2>1 DEF WireOK
  <1>12. WireOK'
    <2>1. [down EXCEPT ![browser.conn] = <<>>] \in [Connections -> Seq(Entries)]
      <3>1. down \in [Connections -> Seq(Entries)] /\ <<>> \in Seq(Entries)
        BY <1>1 DEF WireOK
      <3> QED
        BY <1>3, <3>1, SocketType
    <2>2. down' \in [Connections -> Seq(Entries)]
      BY <1>1, <1>4, <2>1 DEF WireOK
    <2> QED
      BY <1>11, <2>2 DEF WireOK
  <1>13. ServerOK' /\ ActorOK'
    BY <1>1, ServerKept, ActorKept DEF Issue
  <1> QED
    BY <1>10, <1>12, <1>13, TypePartsNext

LEMMA SynchronizeType ==
    ASSUME TypeOK, Synchronize
    PROVE  TypeOK'
  <1>1. BrowserOK /\ WireOK /\ ServerOK /\ ActorOK
    BY TypeParts
  <1> DEFINE S == {c \in Pending : ToReplay(c)}
  <1>2. browser.pending \in Seq(Commands)
    BY <1>1 DEF BrowserOK, Browsers
  <1>3. S \in SUBSET Commands
    BY <1>2 DEF Pending
  <1>4. PICK again \in InOrder(S) : up' = [up EXCEPT ![browser.conn] = @ \o again]
    BY DEF Synchronize
  <1> HIDE DEF S
  <1>5. again \in Seq(Commands)
    BY <1>2, <1>3, InOrderType
  <1>6. browser.conn \in Connections
    BY <1>1 DEF Synchronize, BrowserOK
  <1>7. up[browser.conn] \o again \in Seq(Commands)
    BY <1>1, <1>5, <1>6, ConcatProperties DEF WireOK
  <1>8. WireOK'
    BY <1>1, <1>4, <1>7 DEF WireOK, Synchronize
  <1>9. BrowserOK'
    <2> DEFINE sent == [c \in Commands |-> IF c \in Pending THEN browser.conn ELSE 0]
    <2>1. sent \in [Commands -> 0 .. MaxConnections]
      BY <1>6
    <2> HIDE DEF sent
    <2>2. browser' = [browser EXCEPT !.synced = TRUE, !.sent = sent]
      BY DEF Synchronize, sent
    <2>3. /\ browser' \in Browsers
          /\ browser'.conn = browser.conn /\ browser'.pending = browser.pending
      BY <1>1, <2>1, <2>2 DEF BrowserOK, Browsers
    <2> QED
      BY <1>1, <1>6, <2>3 DEF Synchronize, BrowserOK
  <1>10. ServerOK' /\ ActorOK'
    BY <1>1, ServerKept, ActorKept DEF Synchronize
  <1> QED
    BY <1>8, <1>9, <1>10, TypePartsNext

LEMMA TakeAnswerType ==
    ASSUME TypeOK, TakeAnswer
    PROVE  TypeOK'
  <1>1. BrowserOK /\ WireOK /\ ServerOK /\ ActorOK
    BY TypeParts
  <1> DEFINE m == Head(down[browser.conn])
  <1>2. browser.conn \in Connections /\ down[browser.conn] # <<>>
    BY <1>1 DEF TakeAnswer, BrowserOK
  <1>3. m \in Entries /\ Tail(down[browser.conn]) \in Seq(Entries)
    BY <1>1, <1>2, TailType DEF WireOK
  <1>4. Completed(m) \in Seq(Entries)
    <2> HIDE DEF m
    <2>0. browser.completed \in Seq(Entries)
      BY <1>1 DEF BrowserOK, Browsers
    <2>1. Append(browser.completed, m) \in Seq(Entries)
      BY <1>3, <2>0, AppendType
    <2>2. Append(browser.completed, m) # <<>>
      BY <1>3, <2>0, AppendType
    <2>3. Tail(Append(browser.completed, m)) \in Seq(Entries)
      BY <2>1, <2>2, TailType
    <2> QED
      BY <2>1, <2>3 DEF Completed
  <1>5. WireOK'
    <2>1. \/ down' = [down EXCEPT ![browser.conn] = Tail(@)]
          \/ down' = [down EXCEPT ![browser.conn] = <<>>]
      BY DEF TakeAnswer
    <2> QED
      BY <1>1, <1>2, <1>3, <2>1, SocketType DEF WireOK, TakeAnswer
  <1>6. ServerOK' /\ ActorOK'
    BY <1>1, ServerKept, ActorKept DEF TakeAnswer
  <1>7. expected' = expected
    BY DEF TakeAnswer
  <1>8. BrowserOK'
    <2>1. CASE \E i \in 1 .. Len(browser.pending), doubt \in BOOLEAN :
                   /\ browser' = [browser EXCEPT !.pending = Without(@, i),
                                                 !.sent[m.id] = 0,
                                                 !.completed = Completed(m),
                                                 !.synced = @ /\ ~doubt]
                   /\ outcome' = [outcome EXCEPT ![m.id] = m.answer.is]
      <3>1. PICK i \in 1 .. Len(browser.pending), doubt \in BOOLEAN :
                   /\ browser' = [browser EXCEPT !.pending = Without(@, i),
                                                 !.sent[m.id] = 0,
                                                 !.completed = Completed(m),
                                                 !.synced = @ /\ ~doubt]
                   /\ outcome' = [outcome EXCEPT ![m.id] = m.answer.is]
        BY <2>1
      <3>2. /\ Without(browser.pending, i) \in Seq(Commands)
            /\ Len(Without(browser.pending, i)) = Len(browser.pending) - 1
            /\ Len(browser.pending) \in Nat
        BY <1>1, WithoutType DEF BrowserOK, Browsers
      <3> DEFINE done == Completed(m)
      <3> HIDE DEF m, done
      <3>3. browser' = [browser EXCEPT !.pending = Without(browser.pending, i),
                                       !.sent = [browser.sent EXCEPT ![m.id] = 0],
                                       !.completed = done,
                                       !.synced = browser.synced /\ ~doubt]
        BY <1>1, <3>1 DEF BrowserOK, Browsers, done
      <3>4. [browser.sent EXCEPT ![m.id] = 0] \in [Commands -> 0 .. MaxConnections]
        <4> DEFINE d == m.id
        <4>0. d \in Commands
          BY <1>3 DEF Entries
        <4> HIDE DEF d
        <4>1. browser.sent \in [Commands -> 0 .. MaxConnections]
          BY <1>1 DEF BrowserOK, Browsers
        <4>2. [browser.sent EXCEPT ![d] = 0] \in [Commands -> 0 .. MaxConnections]
          BY <4>0, <4>1
        <4> QED
          BY <4>2 DEF d
      <3>5. /\ browser' \in Browsers
            /\ browser'.pending = Without(browser.pending, i)
            /\ browser'.open = browser.open /\ browser'.conn = browser.conn
        BY <1>1, <1>4, <3>2, <3>3, <3>4 DEF BrowserOK, Browsers, Entries, done
      <3>6. outcome' \in [Commands -> Outcomes]
        BY <1>1, <1>3, <3>1 DEF BrowserOK, Outcomes, Entries, Answers
      <3>7. Len(browser'.pending) <= MaxInFlight
        BY <1>1, <3>2, <3>5 DEF BrowserOK
      <3> QED
        BY <1>1, <1>7, <3>5, <3>6, <3>7 DEF BrowserOK
    <2>2. CASE UNCHANGED <<browser, outcome>>
      BY <1>1, <1>7, <2>2, BrowserKept DEF onBrowser
    <2>3. CASE /\ browser' = [browser EXCEPT !.open = FALSE, !.synced = FALSE,
                                            !.faulty = TRUE]
               /\ UNCHANGED outcome
      BY <1>1, <1>7, <2>3 DEF BrowserOK, Browsers
    <2> QED
      BY <2>1, <2>2, <2>3 DEF TakeAnswer
  <1> QED
    BY <1>5, <1>6, <1>8, TypePartsNext

-----------------------------------------------------------------------------
(* The session tasks.                                                        *)

LEMMA ReadFrameType ==
    ASSUME TypeOK, NEW k \in Connections, ReadFrame(k)
    PROVE  TypeOK'
  <1>1. BrowserOK /\ WireOK /\ ServerOK /\ ActorOK
    BY TypeParts
  <1> DEFINE c == Head(up[k])
  <1>2. up[k] \in Seq(Commands) /\ up[k] # <<>>
    BY <1>1 DEF ReadFrame, WireOK
  <1>3. c \in Commands /\ Tail(up[k]) \in Seq(Commands)
    BY <1>2, TailType
  <1>4. up' \in [Connections -> Seq(Commands)]
    BY <1>1, <1>3, SocketType DEF ReadFrame, WireOK
  <1> HIDE DEF c
  <1>5. BrowserOK' /\ ActorOK'
    BY <1>1, BrowserKept, ActorKept DEF ReadFrame
  <1>6. CASE Reply(k, c, LocalAnswer("busy")) /\ UNCHANGED onServer
    <2>1. down' \in [Connections -> Seq(Entries)]
      BY <1>1, <1>3, <1>6, ReplyType, AnswerType DEF AnswerKinds
    <2> QED
      BY <1>1, <1>4, <1>5, <1>6, <2>1, ServerKept, TypePartsNext DEF WireOK
  <1>7. CASE /\ ~Busy(k)
             /\ actor.on
             /\ mailbox' = Append(mailbox, [conn |-> k, id |-> c])
             /\ calls' = calls \union {[conn |-> k, id |-> c, answer |-> Unanswered]}
             /\ UNCHANGED <<down, serving>>
    <2>1. [conn |-> k, id |-> c] \in Envelopes
      BY <1>3 DEF Envelopes
    <2>2. mailbox' \in Seq(Envelopes) /\ Len(mailbox') = Len(mailbox) + 1
      BY <1>1, <1>7, <2>1, AppendType DEF ServerOK
    <2>3. Len(mailbox) < MailboxCapacity
      BY <1>1, <1>7 DEF Busy, ServerOK
    <2>4. [conn |-> k, id |-> c, answer |-> Unanswered] \in Calls
      BY <1>3 DEF Calls
    <2>5. ServerOK'
      BY <1>1, <1>7, <2>2, <2>3, <2>4 DEF ServerOK
    <2> QED
      BY <1>1, <1>4, <1>5, <1>7, <2>5, TypePartsNext DEF WireOK
  <1>8. CASE /\ Reply(k, c, LocalAnswer("unavailable"))
             /\ serving' = serving \ {k}
             /\ calls' = calls \ CallsOf(k)
             /\ UNCHANGED mailbox
    <2>1. down' \in [Connections -> Seq(Entries)]
      BY <1>1, <1>3, <1>8, ReplyType, AnswerType DEF AnswerKinds
    <2>2. ServerOK'
      BY <1>1, <1>8 DEF ServerOK
    <2> QED
      BY <1>1, <1>4, <1>5, <2>1, <2>2, TypePartsNext DEF WireOK
  <1> QED
    BY <1>6, <1>7, <1>8 DEF ReadFrame, c

LEMMA SendAnswerType ==
    ASSUME TypeOK, NEW k \in Connections, SendAnswer(k)
    PROVE  TypeOK'
  <1>1. BrowserOK /\ WireOK /\ ServerOK /\ ActorOK
    BY TypeParts
  <1>2. PICK x \in CallsOf(k) : x.answer # Unanswered /\ Reply(k, x.id, x.answer)
    BY DEF SendAnswer
  <1>3. x.id \in Commands /\ x.answer \in Answers
    BY <1>1, <1>2 DEF CallsOf, ServerOK, Calls
  <1>4. down' \in [Connections -> Seq(Entries)]
    BY <1>1, <1>2, <1>3, ReplyType
  <1>5. WireOK'
    BY <1>1, <1>4 DEF SendAnswer, WireOK
  <1>6. serving' \subseteq serving /\ calls' \subseteq calls
    BY DEF SendAnswer
  <1>7. ServerOK'
    BY <1>1, <1>6 DEF SendAnswer, ServerOK
  <1>8. BrowserOK' /\ ActorOK'
    BY <1>1, BrowserKept, ActorKept DEF SendAnswer
  <1> QED
    BY <1>5, <1>7, <1>8, TypePartsNext

LEMMA LeaveType ==
    ASSUME TypeOK, NEW k \in Connections, Leave(k)
    PROVE  TypeOK'
  <1>1. BrowserOK /\ WireOK /\ ServerOK /\ ActorOK
    BY TypeParts
  <1>2. up' \in [Connections -> Seq(Commands)]
    <2>1. <<>> \in Seq(Commands)
      OBVIOUS
    <2> QED
      BY <1>1, <2>1, SocketType DEF Leave, WireOK
  <1>3. WireOK'
    BY <1>1, <1>2 DEF Leave, WireOK
  <1>4. ServerOK'
    BY <1>1 DEF Leave, ServerOK
  <1>5. BrowserOK' /\ ActorOK'
    BY <1>1, BrowserKept, ActorKept DEF Leave
  <1> QED
    BY <1>3, <1>4, <1>5, TypePartsNext

-----------------------------------------------------------------------------
(* The actor.                                                                *)

(* What every command leaves alone.                                          *)
LEMMA ArrivedType ==
    ASSUME TypeOK, NEW c \in Commands, NEW k \in Connections, Arrived(c, k)
    PROVE  /\ BrowserOK' /\ WireOK'
           /\ serving' \subseteq Connections
           /\ mailbox' \in Seq(Envelopes)
           /\ Len(mailbox') <= MailboxCapacity
  <1>1. BrowserOK /\ WireOK /\ ServerOK /\ ActorOK
    BY TypeParts
  <1>2. BrowserOK' /\ WireOK'
    BY <1>1, BrowserKept, WireKept DEF Arrived
  <1>3. /\ mailbox' \in Seq(Envelopes)
        /\ Len(mailbox') = Len(mailbox) - 1
        /\ Len(mailbox) \in Nat
    BY <1>1, TailType DEF Arrived, ServerOK
  <1> QED
    BY <1>1, <1>2, <1>3 DEF Arrived, ServerOK

LEMMA SettleType ==
    ASSUME TypeOK, NEW c \in Commands, NEW k \in Connections, Arrived(c, k),
           NEW a \in Answers, Settle(c, k, a), app' \in Apps
    PROVE  TypeOK'
  <1>1. ServerOK /\ ActorOK
    BY TypeParts
  <1>2. calls' \subseteq Calls
    BY <1>1, ResolvedType DEF Settle, Resolve, ServerOK
  <1>3. ServerOK'
    BY <1>2, ArrivedType DEF ServerOK
  <1>4. ActorOK'
    BY <1>1, RememberType DEF Settle, ActorOK
  <1> QED
    BY <1>3, <1>4, ArrivedType, TypePartsNext

(* Whatever becomes of a command, the actor touches neither the browser nor  *)
(* the sockets.                                                              *)
LEMMA HandleTouches ==
    ASSUME NEW c \in Commands, NEW k \in Connections, Handle(c, k)
    PROVE  UNCHANGED onBrowser /\ UNCHANGED <<up, down, serving>>
  <1>1. Arrived(c, k)
    BY DEF Handle, AnswerAgain, Coalesce, RefuseStale, Fail, Edit, FailHalfway,
           StartLoad, Admitted
  <1> QED
    BY <1>1 DEF Arrived

LEMMA HandleType ==
    ASSUME TypeOK, NEW c \in Commands, NEW k \in Connections, Handle(c, k)
    PROVE  TypeOK'
  <1>1. BrowserOK /\ WireOK /\ ServerOK /\ ActorOK
    BY TypeParts
  <1>2. Arrived(c, k)
    BY DEF Handle, AnswerAgain, Coalesce, RefuseStale, Fail, Edit, FailHalfway, StartLoad, Admitted
  <1>3. app \in Apps /\ actor.revision \in Nat
    BY <1>1 DEF ActorOK, Actors
  <1>4. CASE AnswerAgain(c, k)
    <2>1. PICK i \in Entry(c) :
              /\ Resolve({k}, c, actor.cache[i].answer)
              /\ actor' = [actor EXCEPT !.cache = Append(Without(@, i), actor.cache[i])]
      BY <1>4 DEF AnswerAgain
    <2>2. actor.cache \in Seq(Entries) /\ i \in 1 .. Len(actor.cache)
      BY <1>1, <2>1 DEF ActorOK, Actors, Entry
    <2> DEFINE e == actor.cache[i]
               moved == Append(Without(actor.cache, i), e)
    <2>3. e \in Entries
      BY <2>2
    <2>4. e.answer \in Answers
      BY <2>3 DEF Entries
    <2>5. /\ Without(actor.cache, i) \in Seq(Entries)
          /\ Len(Without(actor.cache, i)) = Len(actor.cache) - 1
          /\ Len(actor.cache) \in Nat
      BY <2>2, WithoutType
    <2> HIDE DEF e
    <2>6. moved \in Seq(Entries) /\ Len(moved) = Len(actor.cache)
      BY <2>3, <2>5, AppendType
    <2>7. actor' = [actor EXCEPT !.cache = moved]
      BY <1>1, <2>1 DEF ActorOK, Actors, e
    <2> HIDE DEF moved
    <2>8. ActorOK'
      BY <1>1, <1>4, <2>6, <2>7 DEF AnswerAgain, ActorOK, Actors
    <2>9. calls' \subseteq Calls
      BY <1>1, <2>1, <2>4, ResolvedType DEF Resolve, ServerOK, e
    <2>10. ServerOK'
      BY <1>2, <2>9, ArrivedType DEF ServerOK
    <2> QED
      BY <1>2, <2>8, <2>10, ArrivedType, TypePartsNext
  <1>5. CASE Coalesce(c, k)
    <2>1. Joined(c, k) \in SUBSET Connections
      BY <1>1 DEF Joined, ActorOK, Actors
    <2>2. ActorOK'
      BY <1>1, <1>5, <2>1 DEF Coalesce, ActorOK, Actors
    <2>3. ServerOK'
      BY <1>1, <1>2, <1>5, ArrivedType DEF Coalesce, ServerOK
    <2> QED
      BY <1>2, <2>2, <2>3, ArrivedType, TypePartsNext
  <1>6. CASE RefuseStale(c, k)
    <2>1. LocalAnswer("stale") \in Answers
      BY <1>1, AnswerType DEF AnswerKinds
    <2>2. Settle(c, k, LocalAnswer("stale")) /\ app' \in Apps
      BY <1>3, <1>6 DEF RefuseStale
    <2> QED
      BY <1>2, <2>1, <2>2, SettleType
  <1>7. CASE Fail(c, k)
    <2>1. LocalAnswer("failed") \in Answers
      BY <1>1, AnswerType DEF AnswerKinds
    <2>2. Settle(c, k, LocalAnswer("failed")) /\ app' \in Apps
      BY <1>3, <1>7 DEF Fail
    <2> QED
      BY <1>2, <2>1, <2>2, SettleType
  <1>8. CASE Edit(c, k)
    <2>1. Published \in Answers
      BY <1>3 DEF Published, Answers, AnswerKinds
    <2>2. app' \in Apps
      BY <1>3, <1>8 DEF Edit, Perform, Apps
    <2> QED
      BY <1>2, <1>8, <2>1, <2>2, SettleType DEF Edit
  <1>10. CASE FailHalfway(c, k)
    <2>1. FailedAfterwards \in Answers
      BY <1>3 DEF FailedAfterwards, Answers, AnswerKinds
    <2>2. app' \in Apps
      <3>1. app' = [app EXCEPT !.times = [app.times EXCEPT ![c] = @ + 1],
                               !.halfway = @ \union {c}]
        BY <1>3, <1>10 DEF FailHalfway, Apps
      <3>2. [app.times EXCEPT ![c] = @ + 1] \in [Commands -> Nat]
        BY <1>3 DEF Apps
      <3> QED
        BY <1>3, <3>1, <3>2 DEF Apps
    <2> QED
      BY <1>2, <1>10, <2>1, <2>2, SettleType DEF FailHalfway
  <1>9. CASE StartLoad(c, k)
    <2>1. app' \in Apps
      <3>1. app' = [app EXCEPT !.times = [app.times EXCEPT ![c] = @ + 1], !.load = c]
        BY <1>3, <1>9 DEF StartLoad, Apps
      <3>2. [app.times EXCEPT ![c] = @ + 1] \in [Commands -> Nat]
        BY <1>3 DEF Apps
      <3> QED
        BY <1>3, <3>1, <3>2 DEF Apps
    <2>2. ActorOK'
      <3>1. actor' \in Actors /\ actor'.cache = actor.cache
        <4>1. [actor.waiters EXCEPT ![c] = {k}] \in [Commands -> SUBSET Connections]
          BY <1>1 DEF ActorOK, Actors
        <4>2. actor' = [actor EXCEPT !.revision = @ + 1,
                            !.waiters = [actor.waiters EXCEPT ![c] = {k}]]
          BY <1>1, <1>9 DEF StartLoad, ActorOK, Actors
        <4>3. actor.revision + 1 \in Nat /\ actor \in Actors
          BY <1>1, <1>3 DEF ActorOK
        <4> DEFINE w == [actor.waiters EXCEPT ![c] = {k}]
                   r == actor.revision + 1
        <4> HIDE DEF w, r
        <4>4. actor' = [actor EXCEPT !.revision = r, !.waiters = w]
          BY <4>2 DEF w, r
        <4>5. w \in [Commands -> SUBSET Connections] /\ r \in Nat
          BY <4>1, <4>3 DEF w, r
        <4> QED
          BY <4>3, <4>4, <4>5 DEF Actors
      <3> QED
        BY <1>1, <1>9, <2>1, <3>1 DEF StartLoad, ActorOK
    <2>3. ServerOK'
      BY <1>1, <1>2, <1>9, ArrivedType DEF StartLoad, ServerOK
    <2> QED
      BY <1>2, <2>2, <2>3, ArrivedType, TypePartsNext
  <1> QED
    BY <1>4, <1>5, <1>6, <1>7, <1>8, <1>9, <1>10 DEF Handle

-----------------------------------------------------------------------------
(* Loads, other changes, and the end and start of a server.                  *)

LEMMA CloseType ==
    ASSUME TypeOK, CloseRuntime
    PROVE  /\ calls' \subseteq Calls
           /\ mailbox' \in Seq(Envelopes) /\ Len(mailbox') <= MailboxCapacity
           /\ actor' \in Actors /\ Len(actor'.cache) <= CacheCapacity
           /\ forgotten' \subseteq Commands
  <1>1. ServerOK /\ ActorOK
    BY TypeParts
  <1>2. calls' \subseteq Calls
    <2>1. LocalAnswer("unavailable") \in Answers
      BY <1>1, AnswerType DEF AnswerKinds
    <2> SUFFICES ASSUME NEW x \in calls
                 PROVE  /\ [x EXCEPT !.answer = LocalAnswer("unavailable")] \in Calls
                        /\ x \in Calls
      BY DEF CloseRuntime
    <2> QED
      BY <1>1, <2>1 DEF ServerOK, Calls
  <1>3. mailbox' = <<>>
    BY DEF CloseRuntime
  <1>4. mailbox' \in Seq(Envelopes) /\ Len(mailbox') <= MailboxCapacity
    BY <1>3
  <1>5. actor' \in Actors /\ actor'.cache = actor.cache
    BY <1>1 DEF CloseRuntime, ActorOK, Actors
  <1> QED
    BY <1>1, <1>2, <1>4, <1>5 DEF CloseRuntime, ActorOK

LEMMA FinishLoadType ==
    ASSUME TypeOK, FinishLoad
    PROVE  TypeOK'
  <1>1. BrowserOK /\ WireOK /\ ServerOK /\ ActorOK
    BY TypeParts
  <1>2. BrowserOK' /\ WireOK'
    BY <1>1, BrowserKept, WireKept DEF FinishLoad
  <1> DEFINE c == app.load
             answer(done) == [is |-> IF done THEN "ok" ELSE "failed",
                              rev |-> actor.revision + 1]
  <1>3. PICK done \in BOOLEAN :
            /\ \E held \in BOOLEAN : app' = [app EXCEPT !.load = Nothing, !.up = held]
            /\ \/ /\ Resolve(actor.waiters[c], c, answer(done))
                  /\ Remember(c, answer(done))
                  /\ UNCHANGED mailbox
               \/ CloseRuntime
               \/ UNCHANGED <<calls, mailbox, actor, forgotten>>
    BY <1>1 DEF FinishLoad
  <1>4. c \in Commands /\ app' \in Apps
    BY <1>1, <1>3 DEF FinishLoad, ActorOK, Apps
  <1>5. answer(done) \in Answers
    BY <1>1 DEF ActorOK, Actors, Answers, AnswerKinds
  <1> HIDE DEF answer, c
  <1>6. serving' = serving
    BY DEF FinishLoad
  <1>7. CASE /\ Resolve(actor.waiters[c], c, answer(done))
             /\ Remember(c, answer(done))
             /\ UNCHANGED mailbox
    <2>1. calls' \subseteq Calls
      BY <1>1, <1>5, <1>7, ResolvedType DEF Resolve, ServerOK
    <2>2. ServerOK'
      BY <1>1, <1>6, <1>7, <2>1 DEF ServerOK
    <2>3. ActorOK'
      BY <1>1, <1>4, <1>5, <1>7, RememberType DEF ActorOK
    <2> QED
      BY <1>2, <2>2, <2>3, TypePartsNext
  <1>8. CASE CloseRuntime
    <2>1. ServerOK' /\ ActorOK'
      BY <1>1, <1>4, <1>6, <1>8, CloseType DEF ServerOK, ActorOK
    <2> QED
      BY <1>2, <2>1, TypePartsNext
  <1>9. CASE UNCHANGED <<calls, mailbox, actor, forgotten>>
    <2>1. ServerOK' /\ ActorOK'
      BY <1>1, <1>4, <1>6, <1>9 DEF ServerOK, ActorOK
    <2> QED
      BY <1>2, <2>1, TypePartsNext
  <1> QED
    BY <1>3, <1>7, <1>8, <1>9

LEMMA ServerStepsType ==
    ASSUME TypeOK,
           OtherChange \/ StopRemoteControl \/ EndProcess \/ StartServer
    PROVE  TypeOK'
  <1>1. BrowserOK /\ WireOK /\ ServerOK /\ ActorOK
    BY TypeParts
  <1>2. BrowserOK'
    BY <1>1, BrowserKept DEF OtherChange, StopRemoteControl, EndProcess, StartServer
  <1>3. CASE OtherChange
    <2>1. actor' \in Actors /\ actor'.cache = actor.cache
      <3> DEFINE n == actor.revision + 1
      <3>1. actor \in Actors /\ n \in Nat
        BY <1>1 DEF ActorOK, Actors
      <3>2. actor' = [actor EXCEPT !.revision = n]
        BY <1>3 DEF OtherChange
      <3> HIDE DEF n
      <3> QED
        BY <3>1, <3>2 DEF Actors
    <2>2. ActorOK'
      BY <1>1, <1>3, <2>1 DEF OtherChange, ActorOK
    <2>3. WireOK' /\ ServerOK'
      BY <1>1, <1>3, WireKept, ServerKept DEF OtherChange
    <2> QED
      BY <1>2, <2>2, <2>3, TypePartsNext
  <1>4. CASE StopRemoteControl
    <2>1. WireOK'
      BY <1>1, <1>4, WireKept DEF StopRemoteControl
    <2>2. ServerOK' /\ ActorOK'
      BY <1>1, <1>4, CloseType DEF StopRemoteControl, ServerOK, ActorOK
    <2> QED
      BY <1>2, <2>1, <2>2, TypePartsNext
  <1>5. CASE EndProcess
    <2>1. up' \in [Connections -> Seq(Commands)]
      <3>1. <<>> \in Seq(Commands)
        OBVIOUS
      <3> QED
        BY <1>5, <3>1 DEF EndProcess
    <2>2. WireOK'
      BY <1>1, <1>5, <2>1 DEF EndProcess, WireOK
    <2>3. <<>> \in Seq(Envelopes) /\ Len(<<>>) = 0
      OBVIOUS
    <2>4. ServerOK'
      BY <1>5, <2>3 DEF EndProcess, ServerOK
    <2>5. actor' \in Actors /\ actor'.cache = actor.cache
      BY <1>1, <1>5 DEF EndProcess, ActorOK, Actors
    <2>6. app' \in Apps
      BY <1>1, <1>5 DEF EndProcess, ActorOK, Apps
    <2>7. ActorOK'
      BY <1>1, <1>5, <2>5, <2>6 DEF EndProcess, ActorOK
    <2> QED
      BY <1>2, <2>2, <2>4, <2>7, TypePartsNext
  <1>6. CASE StartServer
    <2>1. <<>> \in Seq(Entries) /\ Len(<<>>) = 0
      OBVIOUS
    <2>2. actor' \in Actors /\ actor'.cache = <<>>
      <3> DEFINE e == actor.epoch + 1
      <3>1. e \in Nat
        BY <1>1 DEF ActorOK, Actors
      <3>2. actor' = [actor EXCEPT !.on = TRUE, !.epoch = e, !.revision = 0,
                                   !.cache = <<>>]
        BY <1>6 DEF StartServer
      <3> HIDE DEF e
      <3> QED
        BY <1>1, <2>1, <3>1, <3>2 DEF ActorOK, Actors
    <2>3. ActorOK'
      BY <1>1, <1>6, <2>1, <2>2 DEF StartServer, ActorOK
    <2>4. WireOK' /\ ServerOK'
      BY <1>1, <1>6, WireKept, ServerKept DEF StartServer
    <2> QED
      BY <1>2, <2>3, <2>4, TypePartsNext
  <1> QED
    BY <1>3, <1>4, <1>5, <1>6

-----------------------------------------------------------------------------

LEMMA StepType == TypeOK /\ [Next]_vars => TypeOK'
  <1> SUFFICES ASSUME TypeOK, [Next]_vars PROVE TypeOK'
    OBVIOUS
  <1>1. CASE BrowserNext
    BY <1>1, BrowserSteps, IssueType, SynchronizeType, TakeAnswerType DEF BrowserNext
  <1>2. CASE SessionNext
    BY <1>2, ReadFrameType, SendAnswerType, LeaveType DEF SessionNext
  <1>3. CASE ActorNext
    BY <1>3, HandleType, FinishLoadType, ServerStepsType DEF ActorNext
  <1>4. CASE UNCHANGED vars
    BY <1>4 DEF vars, TypeOK
  <1> QED
    BY <1>1, <1>2, <1>3, <1>4 DEF Next

(* Every reachable state is of the types that the code declares: no queue,   *)
(* cache or table of pending commands outgrows its limit (transport.ts:389,  *)
(* server.rs:1109, actor.rs:207).                                            *)
THEOREM CommandTypeCorrect == Spec => []TypeOK
  BY InitType, StepType, PTL DEF Spec

-----------------------------------------------------------------------------
HIDE CommandAssumption
USE DEF Connections

(* Where copies of a command may be: with the browser, if it would send them *)
(* to this server; on the wire of a session; in the mailbox.                 *)

Among(s, x) == \E i \in 1 .. Len(s) : s[i] = x

Awaited(c) == Among(browser.pending, c) /\ browser.proof = actor.epoch
Wired(c) == \E k \in serving : Among(up[k], c)
Mailed(c) == \E i \in 1 .. Len(mailbox) : mailbox[i].id = c
Copied(c) == Awaited(c) \/ Wired(c) \/ Mailed(c)

(* Servers end with what they were sent, and a browser that has no proof of  *)
(* the server that runs has nothing with it.                                 *)
ServersApart ==
    /\ browser.proof <= actor.epoch
    /\ ~actor.on => mailbox = <<>>
    /\ actor.on /\ browser.proof # actor.epoch => serving = {} /\ mailbox = <<>>
    /\ \A k \in Connections : k > browser.conn => up[k] = <<>>

(* The browser keeps one copy of what it has not been answered; of what it   *)
(* has not sent or has given up there is none.                               *)
PendingOnce ==
    \A i, j \in 1 .. Len(browser.pending) :
        browser.pending[i] = browser.pending[j] => i = j
PendingIsTold == \A c \in Commands : Among(browser.pending, c) => outcome[c] = "pending"
Quiet ==
    \A c \in Commands :
        /\ outcome[c] \in {"idle", "abandoned"} => ~Wired(c) /\ ~Mailed(c)
        /\ outcome[c] = "idle" => app.times[c] = 0

(* A server that may get a copy of what was performed is past the revision   *)
(* that the command expects.                                                 *)
PastRevision ==
    \A c \in Commands :
        actor.on /\ Copied(c) /\ app.times[c] > 0 => expected[c] < actor.revision

(* Verdicts that are nowhere said: with a session, on the wire, in the cache *)
(* or to the user.                                                           *)
Verdicts == Commands \X {"ok", "stale", "failed"}
Clear(B, s) == \A i \in 1 .. Len(s) : <<s[i].id, s[i].answer.is>> \notin B
Unsaid(B, d, C, o, s) ==
    /\ \A k \in Connections : Clear(B, d[k])
    /\ \A x \in C : <<x.id, x.answer.is>> \notin B
    /\ \A c \in Commands : <<c, o[c]>> \notin B
    /\ Clear(B, s)
NeverSaid(B) == Unsaid(B, down, calls, outcome, actor.cache)

(* Success is claimed only of what was performed.                            *)
Unearned(t) == {v \in Commands \X {"ok"} : t[v[1]] = 0}
OkIsTrue ==
    /\ NeverSaid(Unearned(app.times))
    /\ app.load # Nothing => app.times[app.load] > 0

-----------------------------------------------------------------------------
(* What is among a sequence.                                                 *)

LEMMA AmongAppend ==
    ASSUME NEW S, NEW s \in Seq(S), NEW x \in S, NEW y, Among(Append(s, x), y)
    PROVE  Among(s, y) \/ x = y
  <1>1. PICK i \in 1 .. Len(Append(s, x)) : Append(s, x)[i] = y
    BY DEF Among
  <1>2. Len(s) \in Nat /\ Len(Append(s, x)) = Len(s) + 1
    BY AppendType
  <1>3. i \in 1 .. Len(s) \/ i = Len(s) + 1
    BY <1>2
  <1> QED
    BY <1>1, <1>3, AppendType DEF Among

LEMMA AmongTail ==
    ASSUME NEW S, NEW s \in Seq(S), s # <<>>, NEW y
    PROVE  /\ Among(s, Head(s))
           /\ Among(Tail(s), y) => Among(s, y)
  <1>1. Len(s) \in Nat \ {0} /\ Len(Tail(s)) = Len(s) - 1 /\ Head(s) = s[1]
    BY TailType
  <1>2. Among(s, Head(s))
    BY <1>1 DEF Among
  <1>3. ASSUME Among(Tail(s), y) PROVE Among(s, y)
    <2>1. PICK i \in 1 .. Len(s) - 1 : Tail(s)[i] = y
      BY <1>1, <1>3 DEF Among
    <2>2. i + 1 \in 1 .. Len(s) /\ s[i + 1] = y
      BY <1>1, <2>1, TailType
    <2> QED
      BY <2>2 DEF Among
  <1> QED
    BY <1>2, <1>3

LEMMA AmongWithout ==
    ASSUME NEW S, NEW s \in Seq(S), NEW i \in 1 .. Len(s), NEW y,
           Among(Without(s, i), y)
    PROVE  Among(s, y)
  <1>1. Len(s) \in Nat /\ Len(Without(s, i)) = Len(s) - 1
    BY WithoutType
  <1>2. PICK j \in 1 .. Len(s) - 1 : Without(s, i)[j] = y
    BY <1>1 DEF Among
  <1>3. j \in 1 .. Len(s) /\ j + 1 \in 1 .. Len(s)
    BY <1>1
  <1>4. s[j] = y \/ s[j + 1] = y
    BY <1>2, WithoutType
  <1> QED
    BY <1>3, <1>4 DEF Among

LEMMA AmongConcat ==
    ASSUME NEW S, NEW s \in Seq(S), NEW t \in Seq(S), NEW y, Among(s \o t, y)
    PROVE  Among(s, y) \/ Among(t, y)
  <1>1. /\ Len(s) \in Nat /\ Len(t) \in Nat
        /\ Len(s \o t) = Len(s) + Len(t)
        /\ \A i \in 1 .. Len(s) + Len(t) :
               (s \o t)[i] = IF i <= Len(s) THEN s[i] ELSE t[i - Len(s)]
    BY ConcatProperties, LenProperties
  <1>2. PICK i \in 1 .. Len(s) + Len(t) : (s \o t)[i] = y
    BY <1>1 DEF Among
  <1>3. CASE i <= Len(s)
    BY <1>1, <1>2, <1>3 DEF Among
  <1>4. CASE i > Len(s)
    <2>1. i - Len(s) \in 1 .. Len(t) /\ t[i - Len(s)] = y
      BY <1>1, <1>2, <1>4
    <2> QED
      BY <2>1 DEF Among
  <1> QED
    BY <1>1, <1>2, <1>3, <1>4

(* The head of the mailbox is mailed, and what remains was.                  *)
LEMMA MailedSteps ==
    ASSUME TypeOK, NEW c \in Commands
    PROVE  /\ \A d \in Commands, k \in Connections :
                  Arrived(d, k) => Mailed(d) /\ (Mailed(c)' => Mailed(c))
           /\ \A d \in Commands, k \in Connections :
                  mailbox' = Append(mailbox, [conn |-> k, id |-> d]) =>
                      (Mailed(c)' => Mailed(c) \/ c = d)
  <1>1. mailbox \in Seq(Envelopes)
    BY TypeParts DEF ServerOK
  <1>2. ASSUME NEW d \in Commands, NEW k \in Connections, Arrived(d, k)
        PROVE  Mailed(d) /\ (Mailed(c)' => Mailed(c))
    <2>1. mailbox # <<>> /\ mailbox' = Tail(mailbox) /\ Head(mailbox).id = d
      BY <1>2 DEF Arrived
    <2>2. /\ Len(mailbox) \in Nat \ {0} /\ Len(mailbox') = Len(mailbox) - 1
          /\ Head(mailbox) = mailbox[1]
          /\ \A i \in 1 .. Len(mailbox) - 1 : mailbox'[i] = mailbox[i + 1]
      BY <1>1, <2>1, TailType
    <2>3. Mailed(d)
      BY <2>1, <2>2 DEF Mailed
    <2>4. ASSUME Mailed(c)' PROVE Mailed(c)
      <3>1. PICK i \in 1 .. Len(mailbox) - 1 : mailbox'[i].id = c
        BY <2>2, <2>4 DEF Mailed
      <3>2. i + 1 \in 1 .. Len(mailbox) /\ mailbox[i + 1].id = c
        BY <2>2, <3>1
      <3> QED
        BY <3>2 DEF Mailed
    <2> QED
      BY <2>3, <2>4
  <1>3. ASSUME NEW d \in Commands, NEW k \in Connections,
               mailbox' = Append(mailbox, [conn |-> k, id |-> d]), Mailed(c)'
        PROVE  Mailed(c) \/ c = d
    <2> DEFINE e == [conn |-> k, id |-> d]
    <2>1. e \in Envelopes /\ e.id = d
      BY DEF Envelopes
    <2> HIDE DEF e
    <2>2. /\ Len(mailbox) \in Nat /\ Len(mailbox') = Len(mailbox) + 1
          /\ mailbox'[Len(mailbox) + 1] = e
          /\ \A i \in 1 .. Len(mailbox) : mailbox'[i] = mailbox[i]
      BY <1>1, <1>3, <2>1, AppendType DEF e
    <2>3. PICK i \in 1 .. Len(mailbox) + 1 : mailbox'[i].id = c
      BY <1>3, <2>2 DEF Mailed
    <2>4. i \in 1 .. Len(mailbox) \/ i = Len(mailbox) + 1
      BY <2>2
    <2> QED
      BY <2>1, <2>2, <2>3, <2>4 DEF Mailed
  <1> QED
    BY <1>2, <1>3

(* An answer ends a pending command, repeats a completed one, or is a fault. *)
LEMMA AnswerTaken ==
    ASSUME TypeOK, TakeAnswer
    PROVE  LET m == Head(down[browser.conn]) IN
           /\ browser.conn \in Connections /\ down[browser.conn] # <<>>
           /\ m \in Entries
           /\ browser'.conn = browser.conn /\ browser'.proof = browser.proof
           /\ UNCHANGED <<expected, up, serving, calls, mailbox, actor, app, forgotten>>
           /\ \/ \E i \in 1 .. Len(browser.pending) :
                    /\ browser.pending[i] = m.id
                    /\ browser'.pending = Without(browser.pending, i)
                    /\ browser'.sent = [browser.sent EXCEPT ![m.id] = 0]
                    /\ browser'.faulty = browser.faulty
                    /\ outcome' = [outcome EXCEPT ![m.id] = m.answer.is]
                    /\ down' = [down EXCEPT ![browser.conn] = Tail(@)]
              \/ /\ UNCHANGED <<browser, outcome>>
                 /\ ~Among(browser.pending, m.id)
              \/ /\ browser'.pending = browser.pending
                 /\ ~browser'.open
                 /\ ~Among(browser.pending, m.id)
                 /\ UNCHANGED outcome
           /\ \/ down' = [down EXCEPT ![browser.conn] = Tail(@)]
              \/ down' = [down EXCEPT ![browser.conn] = <<>>]
  <1> DEFINE m == Head(down[browser.conn])
             done == Completed(m)
  <1>1. BrowserOK /\ WireOK
    BY TypeParts
  <1>2. browser.conn \in Connections /\ down[browser.conn] # <<>> /\ browser.open
    BY <1>1 DEF TakeAnswer, BrowserOK
  <1>3. m \in Entries
    BY <1>1, <1>2, TailType DEF WireOK
  <1>4. UNCHANGED <<expected, up, serving, calls, mailbox, actor, app, forgotten>>
    BY DEF TakeAnswer, onServer, inActor
  <1>5. \/ down' = [down EXCEPT ![browser.conn] = Tail(@)]
        \/ down' = [down EXCEPT ![browser.conn] = <<>>]
    BY DEF TakeAnswer
  <1>6. browser'.open => down' = [down EXCEPT ![browser.conn] = Tail(@)]
    BY DEF TakeAnswer
  <1>7. \A c : Among(browser.pending, c) <=> c \in Pending
    BY DEF Among, Pending
  <1>8. \/ \E i \in 1 .. Len(browser.pending), doubt \in BOOLEAN :
              /\ browser.pending[i] = m.id
              /\ browser' = [browser EXCEPT
                        !.pending = Without(@, i),
                        !.sent[m.id] = 0,
                        !.completed = done,
                        !.synced = @ /\ ~doubt]
              /\ outcome' = [outcome EXCEPT ![m.id] = m.answer.is]
        \/ /\ m.id \notin Pending
           /\ UNCHANGED <<browser, outcome>>
        \/ /\ m.id \notin Pending
           /\ browser' = [browser EXCEPT !.open = FALSE, !.synced = FALSE,
                                         !.faulty = TRUE]
           /\ UNCHANGED outcome
    BY DEF TakeAnswer
  <1> HIDE DEF m, done
  <1>9. CASE \E i \in 1 .. Len(browser.pending), doubt \in BOOLEAN :
              /\ browser.pending[i] = m.id
              /\ browser' = [browser EXCEPT
                        !.pending = Without(@, i),
                        !.sent[m.id] = 0,
                        !.completed = done,
                        !.synced = @ /\ ~doubt]
              /\ outcome' = [outcome EXCEPT ![m.id] = m.answer.is]
    <2>1. PICK i \in 1 .. Len(browser.pending), doubt \in BOOLEAN :
              /\ browser.pending[i] = m.id
              /\ browser' = [browser EXCEPT
                        !.pending = Without(@, i),
                        !.sent[m.id] = 0,
                        !.completed = done,
                        !.synced = @ /\ ~doubt]
              /\ outcome' = [outcome EXCEPT ![m.id] = m.answer.is]
      BY <1>9
    <2>2. browser \in Browsers
      BY <1>1 DEF BrowserOK
    <2>3. /\ browser'.pending = Without(browser.pending, i)
          /\ browser'.sent = [browser.sent EXCEPT ![m.id] = 0]
          /\ browser'.faulty = browser.faulty
          /\ browser'.open = browser.open
          /\ browser'.conn = browser.conn
          /\ browser'.proof = browser.proof
      BY <2>1, <2>2 DEF Browsers
    <2> QED
      BY <1>2, <1>3, <1>4, <1>6, <2>1, <2>3 DEF m
  <1>10. CASE m.id \notin Pending /\ UNCHANGED <<browser, outcome>>
    BY <1>2, <1>3, <1>4, <1>5, <1>7, <1>10 DEF m
  <1>11. CASE /\ m.id \notin Pending
              /\ browser' = [browser EXCEPT !.open = FALSE, !.synced = FALSE,
                                            !.faulty = TRUE]
              /\ UNCHANGED outcome
    <2>1. /\ browser'.pending = browser.pending /\ ~browser'.open
          /\ browser'.conn = browser.conn /\ browser'.proof = browser.proof
      BY <1>1, <1>11 DEF BrowserOK, Browsers
    <2> QED
      BY <1>2, <1>3, <1>4, <1>5, <1>7, <1>11, <2>1 DEF m
  <1> QED
    BY <1>8, <1>9, <1>10, <1>11

-----------------------------------------------------------------------------
(* Servers apart.                                                            *)

LEMMA ServersInit == Init => ServersApart
  BY DEF Init, ServersApart

LEMMA ServersStep == TypeOK /\ ServersApart /\ [Next]_vars => ServersApart'
  <1> SUFFICES ASSUME TypeOK, ServersApart, [Next]_vars PROVE ServersApart'
    OBVIOUS
  <1>1. /\ BrowserOK /\ WireOK /\ ServerOK /\ ActorOK
        /\ browser.conn \in 0 .. MaxConnections
        /\ browser.proof \in Nat /\ actor.epoch \in Nat
    BY TypeParts DEF BrowserOK, Browsers, ActorOK, Actors
  <1>2. ASSUME NEW c \in Commands, Issue(c) PROVE ServersApart'
    <2>1. /\ browser'.conn = browser.conn /\ browser'.proof = browser.proof
          /\ UNCHANGED <<actor, mailbox, serving>>
      BY <1>1, <1>2 DEF Issue, BrowserOK, Browsers, onServer, inActor
    <2>2. \A j \in Connections : j # browser.conn => up'[j] = up[j]
      BY <1>1, <1>2 DEF Issue, WireOK
    <2> QED
      BY <1>1, <2>1, <2>2 DEF ServersApart
  <1>3. CASE Synchronize
    BY <1>1, <1>3 DEF Synchronize, ServersApart, BrowserOK, Browsers, WireOK, onServer, inActor
  <1>4. CASE Connect \/ Reauthenticate \/ MarkStale \/ Break \/ TakeAnswer
    <2>1. /\ UNCHANGED <<up, actor, mailbox>> /\ browser'.conn >= browser.conn
          /\ browser'.conn \in Nat
          /\ UNCHANGED serving \/ browser.proof = actor.epoch
          /\ browser'.proof = browser.proof \/ browser'.proof = actor.epoch
      <3>1. CASE Connect
        BY <1>1, <3>1 DEF Connect, BrowserOK, Browsers, inActor
      <3>2. CASE Reauthenticate
        BY <1>1, <3>2 DEF Reauthenticate, BrowserOK, Browsers, onServer, inActor
      <3>3. CASE MarkStale
        BY <1>1, <3>3 DEF MarkStale, BrowserOK, Browsers, onServer, inActor
      <3>4. CASE Break
        BY <1>1, <3>4 DEF Break, BrowserOK, Browsers, onServer, inActor
      <3>5. CASE TakeAnswer
        BY <1>1, <3>5, AnswerTaken
      <3> QED
        BY <1>4, <3>1, <3>2, <3>3, <3>4, <3>5
    <2> QED
      BY <1>1, <2>1 DEF ServersApart
  <1>5. ASSUME NEW k \in Connections, ReadFrame(k) \/ SendAnswer(k) \/ Leave(k)
        PROVE  ServersApart'
    <2>1. /\ UNCHANGED <<browser, actor>> /\ serving # {} /\ serving' \subseteq serving
          /\ UNCHANGED mailbox \/ actor.on
          /\ \A j \in Connections : up'[j] = up[j] \/ up[j] # <<>> \/ up'[j] = <<>>
      BY <1>1, <1>5 DEF ReadFrame, SendAnswer, Leave, onBrowser, inActor, onServer, WireOK
    <2> QED
      BY <1>1, <2>1 DEF ServersApart
  <1>6. CASE ActorNext
    <2>1. /\ UNCHANGED browser
          /\ UNCHANGED up \/ up' = [k \in Connections |-> <<>>]
          /\ UNCHANGED serving \/ serving' = {}
      BY ZenonT(60), <1>6 DEF ActorNext, Handle, AnswerAgain, Coalesce,
                              RefuseStale, Fail, Edit, FailHalfway, StartLoad,
                              Admitted, Arrived, FinishLoad, OtherChange,
                              StopRemoteControl, EndProcess, StartServer,
                              onBrowser, onServer
    <2>2. \/ /\ actor'.epoch = actor.epoch /\ actor'.on = actor.on
             /\ actor.on /\ mailbox # <<>> /\ serving' = serving
          \/ /\ actor'.epoch = actor.epoch /\ actor'.on = actor.on
             /\ mailbox' = mailbox /\ serving' = serving
          \/ /\ actor'.epoch = actor.epoch /\ ~actor'.on /\ mailbox' = <<>>
          \/ /\ actor'.epoch = actor.epoch + 1 /\ ~actor.on
             /\ mailbox' = mailbox /\ serving' = {}
      <3>1. ASSUME NEW c \in Commands, NEW k \in Connections, Handle(c, k)
            PROVE  /\ actor'.epoch = actor.epoch /\ actor'.on = actor.on
                   /\ actor.on /\ mailbox # <<>> /\ serving' = serving
        BY <1>1, <3>1 DEF Handle, AnswerAgain, Coalesce, RefuseStale, Fail,
                          Edit, FailHalfway, StartLoad, Admitted, Arrived,
                          Settle, Remember, ActorOK, Actors
      <3>2. CASE FinishLoad
        BY <1>1, <3>2 DEF FinishLoad, Remember, CloseRuntime, ActorOK, Actors
      <3>3. CASE OtherChange
        BY <1>1, <3>3 DEF OtherChange, onServer, ActorOK, Actors
      <3>4. CASE StopRemoteControl \/ EndProcess
        BY <1>1, <3>4 DEF StopRemoteControl, EndProcess, CloseRuntime, ActorOK, Actors
      <3>5. CASE StartServer
        BY <1>1, <3>5 DEF StartServer, onServer, ActorOK, Actors
      <3> QED
        BY <1>6, <3>1, <3>2, <3>3, <3>4, <3>5 DEF ActorNext
    <2> QED
      BY <1>1, <2>1, <2>2 DEF ServersApart
  <1>7. CASE UNCHANGED vars
    BY <1>7 DEF vars, ServersApart
  <1> QED
    BY <1>2, <1>3, <1>4, <1>5, <1>6, <1>7 DEF Next, BrowserNext, SessionNext

(* No server has anything of another's: a server that ends takes its mailbox *)
(* along, and a browser without proof of the new one has no session with it. *)
THEOREM ServersCorrect == Spec => []ServersApart
  BY CommandTypeCorrect, ServersInit, ServersStep, PTL DEF Spec

-----------------------------------------------------------------------------
(* What a step does to copies, to effects, to revisions, to what was told.   *)

LEMMA SessionCopies ==
    ASSUME TypeOK, NEW c \in Commands, NEW k \in Connections,
           ReadFrame(k) \/ SendAnswer(k) \/ Leave(k)
    PROVE  /\ (Wired(c) \/ Mailed(c))' => Wired(c) \/ Mailed(c)
           /\ UNCHANGED <<browser, outcome, expected, actor, app>>
  <1>1. up \in [Connections -> Seq(Commands)] /\ serving \subseteq Connections
    BY TypeParts DEF WireOK, ServerOK
  <1>2. CASE ReadFrame(k)
    <2> DEFINE d == Head(up[k])
    <2>1. /\ k \in serving /\ up[k] # <<>> /\ up[k] \in Seq(Commands)
          /\ up' = [up EXCEPT ![k] = Tail(@)]
          /\ serving' \subseteq serving
          /\ UNCHANGED mailbox \/ mailbox' = Append(mailbox, [conn |-> k, id |-> d])
      BY <1>1, <1>2 DEF ReadFrame, onServer
    <2>2. d \in Commands /\ Among(up[k], d) /\ (Among(Tail(up[k]), c) => Among(up[k], c))
      BY <2>1, TailType, AmongTail
    <2> HIDE DEF d
    <2>3. Wired(d)
      BY <2>1, <2>2 DEF Wired
    <2>4. ASSUME Wired(c)' PROVE Wired(c)
      <3>1. PICK j \in serving : Among(up'[j], c)
        BY <2>1, <2>4 DEF Wired, Among
      <3>2. Among(up[j], c)
        BY <1>1, <2>1, <2>2, <3>1
      <3> QED
        BY <3>2 DEF Wired
    <2>5. ASSUME Mailed(c)' PROVE Wired(c) \/ Mailed(c)
      <3>1. CASE UNCHANGED mailbox
        BY <2>5, <3>1 DEF Mailed
      <3>2. CASE mailbox' = Append(mailbox, [conn |-> k, id |-> d])
        BY <2>2, <2>3, <2>5, <3>2, MailedSteps
      <3> QED
        BY <2>1, <3>1, <3>2
    <2> QED
      BY <1>2, <2>4, <2>5 DEF ReadFrame, onBrowser, inActor
  <1>3. CASE SendAnswer(k) \/ Leave(k)
    <2>1. /\ serving' \subseteq serving /\ mailbox' = mailbox
          /\ \A j \in Connections : up'[j] = up[j] \/ up'[j] = <<>>
          /\ UNCHANGED <<browser, outcome, expected, actor, app>>
      BY <1>1, <1>3 DEF SendAnswer, Leave, onBrowser, inActor
    <2>2. ~Among(<<>>, c)
      BY DEF Among
    <2>3. ASSUME Wired(c)' PROVE Wired(c)
      <3>1. PICK j \in serving : Among(up'[j], c)
        BY <2>1, <2>3 DEF Wired, Among
      <3>2. Among(up[j], c)
        BY <1>1, <2>1, <2>2, <3>1
      <3> QED
        BY <3>2 DEF Wired
    <2>4. Mailed(c)' => Mailed(c)
      BY <2>1 DEF Mailed
    <2> QED
      BY <2>1, <2>3, <2>4
  <1> QED
    BY <1>2, <1>3

LEMMA ActorCopies ==
    ASSUME TypeOK, ServersApart, NEW c \in Commands, ActorNext
    PROVE  /\ (Wired(c) \/ Mailed(c))' => Wired(c) \/ Mailed(c)
           /\ UNCHANGED <<browser, outcome, expected>>
           /\ \/ actor'.epoch = actor.epoch /\ (actor'.on => actor.on)
              \/ /\ actor'.epoch = actor.epoch + 1
                 /\ ~Wired(c)' /\ ~Mailed(c)'
  <1>1. /\ up \in [Connections -> Seq(Commands)] /\ actor \in Actors
        /\ actor.epoch \in Nat
    BY TypeParts DEF WireOK, ActorOK, Actors
  <1>2. ASSUME NEW d \in Commands, NEW k \in Connections, Handle(d, k)
        PROVE  /\ Arrived(d, k)
               /\ actor'.epoch = actor.epoch /\ actor'.on = actor.on
    BY <1>1, <1>2 DEF Handle, AnswerAgain, Coalesce, RefuseStale, Fail, Edit,
                      FailHalfway, StartLoad, Admitted, Settle, Remember, Actors
  <1>3. ASSUME NEW d \in Commands, NEW k \in Connections, Handle(d, k)
        PROVE  /\ Wired(c)' => Wired(c)
               /\ Mailed(c)' => Mailed(c)
               /\ UNCHANGED <<browser, outcome, expected>>
    <2>1. Arrived(d, k)
      BY <1>2, <1>3
    <2>2. UNCHANGED <<browser, outcome, expected, up, serving>>
      BY <2>1 DEF Arrived, onBrowser
    <2> QED
      BY <2>1, <2>2, MailedSteps DEF Wired, Among
  <1>4. CASE FinishLoad \/ OtherChange \/ StopRemoteControl \/ EndProcess \/ StartServer
    <2>1. UNCHANGED <<browser, outcome, expected>>
      BY <1>4 DEF FinishLoad, OtherChange, StopRemoteControl, EndProcess, StartServer, onBrowser
    <2>2. UNCHANGED <<up, serving>> \/ serving' = {}
      BY <1>4 DEF FinishLoad, OtherChange, StopRemoteControl, EndProcess, StartServer, onServer
    <2>3. UNCHANGED mailbox \/ mailbox' = <<>>
      BY <1>4 DEF FinishLoad, OtherChange, StopRemoteControl, EndProcess,
                  StartServer,
                  CloseRuntime, onServer
    <2>4. Wired(c)' => Wired(c)
      BY <2>2 DEF Wired, Among
    <2>5. Mailed(c)' => Mailed(c)
      BY <2>3 DEF Mailed
    <2>6. \/ actor'.epoch = actor.epoch /\ (actor'.on => actor.on)
          \/ /\ actor'.epoch = actor.epoch + 1
             /\ ~Wired(c)' /\ ~Mailed(c)'
      <3>1. CASE FinishLoad
        BY <1>1, <3>1 DEF FinishLoad, Remember, CloseRuntime, Actors
      <3>2. CASE OtherChange \/ StopRemoteControl \/ EndProcess
        BY <1>1, <3>2 DEF OtherChange, StopRemoteControl, EndProcess, CloseRuntime, Actors
      <3>3. CASE StartServer
        <4>1. serving' = {} /\ mailbox' = <<>> /\ actor'.epoch = actor.epoch + 1
          BY <1>1, <3>3 DEF StartServer, onServer, ServersApart, Actors
        <4> QED
          BY <4>1 DEF Wired, Mailed
      <3> QED
        BY <1>4, <3>1, <3>2, <3>3
    <2> QED
      BY <2>1, <2>4, <2>5, <2>6
  <1> QED
    BY <1>2, <1>3, <1>4 DEF ActorNext

(* What the browser sends anew is pending, and goes to a server of its proof.*)
LEMMA BrowserCopies ==
    ASSUME TypeOK, ServersApart, NEW c \in Commands, BrowserNext
    PROVE  /\ (Wired(c) \/ Mailed(c))' =>
                  \/ Wired(c) \/ Mailed(c) \/ Issue(c)
                  \/ /\ Among(browser.pending, c)
                     /\ actor.on => browser.proof = actor.epoch
           /\ Among(browser.pending, c)' => Among(browser.pending, c) \/ Issue(c)
           /\ Awaited(c)' => Awaited(c) \/ Issue(c)
           /\ UNCHANGED <<actor, app>>
  <1>1. /\ up \in [Connections -> Seq(Commands)] /\ browser \in Browsers
        /\ browser.open => browser.conn \in Connections
        /\ serving \subseteq Connections
    BY TypeParts DEF WireOK, BrowserOK, ServerOK
  <1>2. browser.pending \in Seq(Commands) /\ browser.conn \in 0 .. MaxConnections
    BY <1>1 DEF Browsers
  <1>3. ASSUME NEW d \in Commands, Issue(d)
        PROVE  /\ (Wired(c) \/ Mailed(c))' => Wired(c) \/ Mailed(c) \/ Issue(c)
               /\ Among(browser.pending, c)' => Among(browser.pending, c) \/ Issue(c)
               /\ browser'.proof = browser.proof
               /\ UNCHANGED <<actor, app>>
    <2>1. /\ browser.conn \in Connections
          /\ UNCHANGED <<mailbox, serving, actor, app>>
          /\ browser'.pending = Append(browser.pending, d)
          /\ browser'.proof = browser.proof
          /\ UNCHANGED up \/ up' = [up EXCEPT ![browser.conn] = Append(@, d)]
      BY <1>1, <1>3 DEF Issue, Browsers, onServer, inActor
    <2>2. Among(browser.pending, c)' => Among(browser.pending, c) \/ Issue(c)
      BY <1>2, <1>3, <2>1, AmongAppend DEF Among
    <2>3. ASSUME Wired(c)' PROVE Wired(c) \/ c = d
      <3>1. PICK j \in serving : Among(up'[j], c)
        BY <2>1, <2>3 DEF Wired, Among
      <3>2. up[j] \in Seq(Commands) /\ (up'[j] = up[j] \/ up'[j] = Append(up[j], d))
        BY <1>1, <2>1, <3>1
      <3>3. Among(up[j], c) \/ c = d
        <4>1. CASE up'[j] = up[j]
          BY <3>1, <4>1
        <4>2. CASE up'[j] = Append(up[j], d)
          <5>1. Among(Append(up[j], d), c)
            BY <3>1, <4>2
          <5> QED
            BY <3>2, <5>1, AmongAppend
        <4> QED
          BY <3>2, <4>1, <4>2
      <3> QED
        BY <3>1, <3>3 DEF Wired
    <2>4. Mailed(c)' => Mailed(c)
      BY <2>1 DEF Mailed
    <2> QED
      BY <1>3, <2>1, <2>2, <2>3, <2>4
  <1>4. CASE Synchronize
    <2> DEFINE S == {d \in Pending : ToReplay(d)}
    <2>1. S \in SUBSET Commands /\ browser.conn \in Connections
      BY <1>1, <1>2, <1>4 DEF Pending, Synchronize
    <2>2. PICK again \in InOrder(S) : up' = [up EXCEPT ![browser.conn] = @ \o again]
      BY <1>4 DEF Synchronize
    <2>3. again \in Seq(Commands) /\ \A i \in 1 .. Len(again) : again[i] \in S
      <3> HIDE DEF S
      <3> QED
        BY <1>2, <2>1, <2>2, InOrderType
    <2>4. Among(again, c) => Among(browser.pending, c)
      BY <2>3 DEF Among, Pending
    <2>5. /\ browser'.pending = browser.pending /\ browser'.proof = browser.proof
          /\ UNCHANGED <<mailbox, serving, actor, app>>
      BY <1>1, <1>4 DEF Synchronize, Browsers, onServer, inActor
    <2>6. ASSUME Wired(c)'
          PROVE  \/ Wired(c)
                 \/ /\ Among(browser.pending, c)
                    /\ actor.on => browser.proof = actor.epoch
      <3>1. PICK j \in serving : Among(up'[j], c)
        BY <2>5, <2>6 DEF Wired, Among
      <3>2. actor.on => browser.proof = actor.epoch
        BY <3>1 DEF ServersApart
      <3>3. up[j] \in Seq(Commands) /\ (up'[j] = up[j] \/ up'[j] = up[j] \o again)
        BY <1>1, <2>2, <3>1
      <3>4. Among(up[j], c) \/ Among(again, c)
        BY <2>3, <3>1, <3>3, AmongConcat
      <3> QED
        BY <2>4, <3>1, <3>2, <3>4 DEF Wired
    <2>7. Mailed(c)' => Mailed(c)
      BY <2>5 DEF Mailed
    <2>8. Awaited(c)' => Awaited(c)
      BY <2>5 DEF Awaited, Among
    <2>9. Among(browser.pending, c)' => Among(browser.pending, c)
      BY <2>5 DEF Among
    <2> QED
      BY <2>5, <2>6, <2>7, <2>8, <2>9
  <1>5. CASE Connect
    <2> DEFINE k == browser.conn + 1
    <2>1. /\ k \in Connections /\ serving' = serving \union {k}
          /\ browser'.pending = browser.pending /\ browser'.proof = browser.proof
          /\ UNCHANGED <<up, mailbox, actor, app>>
      BY <1>1, <1>2, <1>5 DEF Connect, Browsers, inActor
    <2>2. up[k] = <<>>
      BY <1>2, <2>1 DEF ServersApart
    <2>3. ~Among(up[k], c)
      BY <2>2 DEF Among
    <2> HIDE DEF k
    <2>4. Wired(c)' => Wired(c)
      BY <2>1, <2>3 DEF Wired, Among
    <2> QED
      BY <2>1, <2>4 DEF Mailed, Awaited, Among
  <1>6. CASE Reauthenticate
    <2>1. browser'.pending = <<>> /\ UNCHANGED <<up, serving, mailbox, actor, app>>
      BY <1>1, <1>6 DEF Reauthenticate, AbandonPending, Browsers, onServer, inActor
    <2>2. ~Among(browser.pending, c)'
      BY <2>1 DEF Among
    <2> QED
      BY <2>1, <2>2 DEF Wired, Mailed, Awaited, Among
  <1>7. CASE MarkStale \/ Break
    <2>1. /\ browser'.pending = browser.pending /\ browser'.proof = browser.proof
          /\ UNCHANGED <<up, serving, mailbox, actor, app>>
      BY <1>1, <1>7 DEF MarkStale, Break, Browsers, onServer, inActor
    <2> QED
      BY <2>1 DEF Wired, Mailed, Awaited, Among
  <1>8. CASE TakeAnswer
    <2>1. /\ browser'.proof = browser.proof
          /\ UNCHANGED <<up, serving, mailbox, actor, app>>
          /\ \/ UNCHANGED browser \/ browser'.pending = browser.pending
             \/ \E i \in 1 .. Len(browser.pending) :
                     browser'.pending = Without(browser.pending, i)
      BY <1>8, AnswerTaken
    <2>2. ASSUME Among(browser.pending, c)' PROVE Among(browser.pending, c)
      <3>1. CASE UNCHANGED browser \/ browser'.pending = browser.pending
        BY <2>2, <3>1 DEF Among
      <3>2. CASE \E i \in 1 .. Len(browser.pending) :
                     browser'.pending = Without(browser.pending, i)
        <4>1. PICK i \in 1 .. Len(browser.pending) :
                     browser'.pending = Without(browser.pending, i)
          BY <3>2
        <4>2. Among(Without(browser.pending, i), c)
          BY <2>2, <4>1 DEF Among
        <4> QED
          BY <1>2, <4>2, AmongWithout
      <3> QED
        BY <2>1, <3>1, <3>2
    <2> QED
      BY <2>1, <2>2 DEF Wired, Mailed, Awaited, Among
  <1>9. ASSUME NEW d \in Commands, Issue(d)
        PROVE  Awaited(c)' => Awaited(c) \/ Issue(c)
    BY <1>3, <1>9 DEF Awaited
  <1> QED
    BY <1>3, <1>4, <1>5, <1>6, <1>7, <1>8, <1>9 DEF BrowserNext

(* A command is performed when it is current, by the server it was sent to,  *)
(* and the revision that the server publishes is a later one.                *)
Performed(c) ==
    /\ actor.on /\ actor'.on
    /\ Mailed(c)
    /\ IsCurrent(c)
    /\ app'.times = [app.times EXCEPT ![c] = @ + 1]
    /\ actor'.revision = actor.revision + 1
    /\ UNCHANGED <<outcome, expected>>

LEMMA ActorEffects ==
    ASSUME TypeOK, ActorNext
    PROVE  /\ app'.times = app.times \/ \E c \in Commands : Performed(c)
           /\ actor.on /\ actor'.on => actor'.revision >= actor.revision
  <1>1. /\ actor \in Actors /\ app \in Apps /\ actor.revision \in Nat
    BY TypeParts DEF ActorOK, Actors
  <1>2. ASSUME NEW c \in Commands, NEW k \in Connections, Handle(c, k)
        PROVE  /\ app'.times = app.times \/ Performed(c)
               /\ actor'.revision >= actor.revision
    <2>1. Arrived(c, k) /\ actor.on /\ UNCHANGED <<outcome, expected>>
      BY <1>2 DEF Handle, AnswerAgain, Coalesce, RefuseStale, Fail, Edit,
                  FailHalfway, StartLoad, Admitted, Arrived, onBrowser
    <2>2. Mailed(c)
      BY <2>1, MailedSteps
    <2>3. CASE AnswerAgain(c, k) \/ Coalesce(c, k)
      <3>1. app' = app /\ actor'.revision = actor.revision
        BY <1>1, <2>3 DEF AnswerAgain, Coalesce, Actors
      <3> QED
        BY <1>1, <3>1
    <2>4. CASE RefuseStale(c, k) \/ Fail(c, k)
      <3>1. \/ Remember(c, LocalAnswer("stale")) \/ Remember(c, LocalAnswer("failed"))
        BY <2>4 DEF RefuseStale, Fail, Settle
      <3>2. app' = app /\ actor'.revision = actor.revision
        BY <1>1, <2>4, <3>1 DEF RefuseStale, Fail, Remember, LocalAnswer, Actors
      <3> QED
        BY <1>1, <3>2
    <2>5. CASE Edit(c, k)
      <3>1. Remember(c, Published) /\ IsCurrent(c) /\ Perform(c)
        BY <2>5 DEF Edit, Admitted, Settle
      <3>2. actor'.revision = actor.revision + 1 /\ actor'.on = actor.on
        BY <1>1, <3>1 DEF Remember, Published, Actors
      <3>3. app'.times = [app.times EXCEPT ![c] = @ + 1]
        BY <1>1, <3>1 DEF Perform, Apps
      <3> QED
        BY <1>1, <2>1, <2>2, <3>1, <3>2, <3>3 DEF Performed
    <2>7. CASE FailHalfway(c, k)
      <3>1. /\ Remember(c, FailedAfterwards) /\ IsCurrent(c)
            /\ app' = [app EXCEPT !.times[c] = @ + 1, !.halfway = @ \union {c}]
        BY <2>7 DEF FailHalfway, Admitted, Settle
      <3>2. actor'.revision = actor.revision + 1 /\ actor'.on = actor.on
        BY <1>1, <3>1 DEF Remember, FailedAfterwards, Actors
      <3>3. app'.times = [app.times EXCEPT ![c] = @ + 1]
        BY <1>1, <3>1 DEF Apps
      <3> QED
        BY <1>1, <2>1, <2>2, <3>1, <3>2, <3>3 DEF Performed
    <2>6. CASE StartLoad(c, k)
      <3>1. /\ IsCurrent(c)
            /\ actor'.revision = actor.revision + 1 /\ actor'.on = actor.on
            /\ app'.times = [app.times EXCEPT ![c] = @ + 1]
        BY <1>1, <2>6 DEF StartLoad, Admitted, Actors, Apps
      <3> QED
        BY <1>1, <2>1, <2>2, <3>1 DEF Performed
    <2> QED
      BY <1>2, <2>3, <2>4, <2>5, <2>6, <2>7 DEF Handle
  <1>3. CASE FinishLoad
    <2>1. app'.times = app.times
      BY <1>1, <1>3 DEF FinishLoad, Apps
    <2>2. \/ actor'.revision = actor.revision + 1
          \/ ~actor'.on
          \/ actor' = actor
      <3>1. ASSUME NEW c, NEW a, Remember(c, a), a.rev = actor.revision + 1
            PROVE  actor'.revision = actor.revision + 1
        BY <1>1, <3>1 DEF Remember, Actors
      <3>2. CloseRuntime => ~actor'.on
        BY <1>1 DEF CloseRuntime, Actors
      <3>3. \/ \E c, is : Remember(c, [is |-> is, rev |-> actor.revision + 1])
            \/ CloseRuntime \/ actor' = actor
        BY <1>3 DEF FinishLoad
      <3> QED
        BY <3>1, <3>2, <3>3
    <2> QED
      BY <1>1, <2>1, <2>2
  <1>4. CASE OtherChange
    BY <1>1, <1>4 DEF OtherChange, Actors
  <1>5. CASE StopRemoteControl \/ EndProcess \/ StartServer
    BY <1>1, <1>5 DEF StopRemoteControl, EndProcess, StartServer, CloseRuntime, Actors, Apps
  <1> QED
    BY <1>2, <1>3, <1>4, <1>5 DEF ActorNext

(* What the user is told of a command only changes when it is issued,        *)
(* answered, or given up with all the others.                                *)
LEMMA ToldSteps ==
    ASSUME TypeOK, BrowserNext
    PROVE  \/ UNCHANGED outcome /\ (UNCHANGED expected)
           \/ \E c \in Commands :
                  /\ Issue(c)
                  /\ outcome' = [outcome EXCEPT ![c] = "pending"]
                  /\ \A d \in Commands : d # c => expected'[d] = expected[d]
           \/ \E i \in 1 .. Len(down[browser.conn]) :
                  LET m == down[browser.conn][i] IN
                  /\ browser.conn \in Connections
                  /\ m \in Entries
                  /\ Among(browser.pending, m.id)
                  /\ outcome' = [outcome EXCEPT ![m.id] = m.answer.is]
                  /\ UNCHANGED expected
           \/ /\ actor.on /\ browser.proof # actor.epoch
              /\ outcome' = [c \in Commands |-> IF outcome[c] = "pending"
                                                THEN "abandoned" ELSE outcome[c]]
              /\ UNCHANGED expected
  <1>1. WireOK /\ BrowserOK
    BY TypeParts
  <1>2. CASE TakeAnswer
    <2>1. /\ browser.conn \in Connections /\ down[browser.conn] # <<>>
          /\ UNCHANGED expected
      BY <1>2, AnswerTaken
    <2> DEFINE m == Head(down[browser.conn])
    <2>2. /\ 1 \in 1 .. Len(down[browser.conn]) /\ m = down[browser.conn][1]
          /\ m \in Entries
      BY <1>1, <2>1, TailType DEF WireOK
    <2>3. \/ UNCHANGED outcome
          \/ /\ Among(browser.pending, m.id)
             /\ outcome' = [outcome EXCEPT ![m.id] = m.answer.is]
      BY <1>2, AnswerTaken DEF Among
    <2> HIDE DEF m
    <2> QED
      BY <2>1, <2>2, <2>3
  <1>3. CASE Reauthenticate
    <2>1. \A c \in Commands : Told(c, AbandonPending) = "abandoned"
      BY DEF Told, AbandonPending
    <2> QED
      BY <1>3, <2>1 DEF Reauthenticate
  <1>4. CASE Connect \/ Synchronize \/ MarkStale \/ Break
    BY <1>4 DEF Connect, Synchronize, MarkStale, Break
  <1>5. ASSUME NEW c \in Commands, Issue(c)
        PROVE  /\ outcome' = [outcome EXCEPT ![c] = "pending"]
               /\ \A d \in Commands : d # c => expected'[d] = expected[d]
    BY <1>1, <1>5 DEF Issue, BrowserOK
  <1> QED
    BY <1>2, <1>3, <1>4, <1>5 DEF BrowserNext

-----------------------------------------------------------------------------
(* What the browser keeps and tells.                                         *)

BrowserSide == PendingOnce /\ PendingIsTold

LEMMA BrowserSideInit == Init => BrowserSide
  BY DEF Init, BrowserSide, PendingOnce, PendingIsTold, Among

LEMMA BrowserSideStep == TypeOK /\ BrowserSide /\ [Next]_vars => BrowserSide'
  <1> SUFFICES ASSUME TypeOK, BrowserSide, [Next]_vars PROVE BrowserSide'
    OBVIOUS
  <1>1. /\ browser \in Browsers /\ browser.pending \in Seq(Commands)
        /\ outcome \in [Commands -> Outcomes]
    BY TypeParts DEF BrowserOK, Browsers
  <1>2. ASSUME UNCHANGED outcome, browser'.pending = browser.pending
        PROVE  BrowserSide'
    BY <1>2 DEF BrowserSide, PendingOnce, PendingIsTold, Among
  <1>3. CASE SessionNext \/ ActorNext \/ UNCHANGED vars
    <2>1. UNCHANGED <<browser, outcome>>
      BY ZenonT(60), <1>3 DEF SessionNext, ReadFrame, SendAnswer, Leave,
                              ActorNext, Handle, AnswerAgain, Coalesce,
                              RefuseStale, Fail, Edit, FailHalfway, StartLoad,
                              Admitted, Arrived, FinishLoad, OtherChange,
                              StopRemoteControl, EndProcess, StartServer,
                              onBrowser, vars
    <2> QED
      BY <1>2, <2>1
  <1>4. CASE Connect \/ Synchronize \/ MarkStale \/ Break
    <2>1. UNCHANGED outcome /\ browser'.pending = browser.pending
      BY <1>1, <1>4 DEF Connect, Synchronize, MarkStale, Break, Browsers
    <2> QED
      BY <1>2, <2>1
  <1>5. CASE Reauthenticate
    <2>1. browser'.pending = <<>>
      BY <1>1, <1>5 DEF Reauthenticate, AbandonPending, Browsers
    <2> QED
      BY <2>1 DEF BrowserSide, PendingOnce, PendingIsTold, Among
  <1>6. ASSUME NEW c \in Commands, Issue(c) PROVE BrowserSide'
    <2>1. /\ browser'.pending = Append(browser.pending, c)
          /\ outcome' = [outcome EXCEPT ![c] = "pending"]
          /\ outcome[c] = "idle"
      BY <1>1, <1>6 DEF Issue, Browsers
    <2>2. ~Among(browser.pending, c)
      BY <2>1 DEF BrowserSide, PendingIsTold
    <2>3. /\ Len(browser.pending) \in Nat
          /\ Len(browser'.pending) = Len(browser.pending) + 1
          /\ browser'.pending[Len(browser.pending) + 1] = c
          /\ \A i \in 1 .. Len(browser.pending) : browser'.pending[i] = browser.pending[i]
      BY <1>1, <2>1, AppendType
    <2>4. PendingOnce'
      <3>1. SUFFICES ASSUME NEW i \in 1 .. Len(browser.pending) + 1,
                            NEW j \in 1 .. Len(browser.pending) + 1,
                            browser'.pending[i] = browser'.pending[j]
                     PROVE  i = j
        BY <2>3 DEF PendingOnce
      <3>2. i \in 1 .. Len(browser.pending) \/ i = Len(browser.pending) + 1
        BY <2>3
      <3>3. j \in 1 .. Len(browser.pending) \/ j = Len(browser.pending) + 1
        BY <2>3
      <3> QED
        BY <2>2, <2>3, <3>1, <3>2, <3>3 DEF BrowserSide, PendingOnce, Among
    <2>5. ASSUME NEW d \in Commands, Among(browser'.pending, d)
          PROVE  outcome'[d] = "pending"
      <3>1. Among(browser.pending, d) \/ d = c
        BY <1>1, <2>1, <2>5, AmongAppend
      <3> QED
        BY <1>1, <2>1, <3>1 DEF BrowserSide, PendingIsTold
    <2>6. PendingIsTold'
      BY <2>5 DEF PendingIsTold, Among
    <2> QED
      BY <2>4, <2>6 DEF BrowserSide
  <1>7. CASE TakeAnswer
    <2> DEFINE m == Head(down[browser.conn])
    <2>1. CASE UNCHANGED <<browser, outcome>>
      BY <1>2, <2>1
    <2>2. CASE browser'.pending = browser.pending /\ UNCHANGED outcome
      BY <1>2, <2>2
    <2>3. CASE \E i \in 1 .. Len(browser.pending) :
                    /\ browser.pending[i] = m.id
                    /\ browser'.pending = Without(browser.pending, i)
                    /\ outcome' = [outcome EXCEPT ![m.id] = m.answer.is]
      <3>1. PICK i \in 1 .. Len(browser.pending) :
                    /\ browser.pending[i] = m.id
                    /\ browser'.pending = Without(browser.pending, i)
                    /\ outcome' = [outcome EXCEPT ![m.id] = m.answer.is]
        BY <2>3
      <3> HIDE DEF m
      <3> DEFINE n == Len(browser.pending)
      <3> DEFINE rest == Without(browser.pending, i)
      <3>a. /\ Len(rest) = n - 1
            /\ \A j \in 1 .. n - 1 : rest[j] =
                   IF j < i THEN browser.pending[j] ELSE browser.pending[j + 1]
        BY <1>1, WithoutType
      <3>b. browser'.pending = rest
        BY <3>1
      <3>c. n \in Nat /\ i \in Nat
        BY <1>1
      <3> HIDE DEF rest, n
      <3>2. /\ n \in Nat /\ i \in Nat /\ Len(browser'.pending) = n - 1
            /\ \A j \in 1 .. n - 1 : browser'.pending[j] =
                   IF j < i THEN browser.pending[j] ELSE browser.pending[j + 1]
        BY <3>a, <3>b, <3>c
      <3> USE DEF n
      <3>3. \A j \in 1 .. n - 1 : \E k \in 1 .. n :
                /\ browser'.pending[j] = browser.pending[k]
                /\ k = IF j < i THEN j ELSE j + 1
        BY <3>2
      <3>4. PendingOnce'
        <4> SUFFICES ASSUME NEW j \in 1 .. n - 1, NEW l \in 1 .. n - 1,
                            browser'.pending[j] = browser'.pending[l]
                     PROVE  j = l
          BY <3>2 DEF PendingOnce
        <4>1. PICK a \in 1 .. n : /\ browser'.pending[j] = browser.pending[a]
                                  /\ a = IF j < i THEN j ELSE j + 1
          BY <3>3
        <4>2. PICK b \in 1 .. n : /\ browser'.pending[l] = browser.pending[b]
                                  /\ b = IF l < i THEN l ELSE l + 1
          BY <3>3
        <4>3. a = b
          BY <4>1, <4>2 DEF BrowserSide, PendingOnce
        <4> QED
          BY <3>2, <4>1, <4>2, <4>3
      <3>5. ASSUME NEW d \in Commands, Among(browser'.pending, d)
            PROVE  outcome'[d] = "pending"
        <4>1. PICK j \in 1 .. n - 1 : browser'.pending[j] = d
          BY <3>2, <3>5 DEF Among
        <4>2. PICK k \in 1 .. n : /\ browser'.pending[j] = browser.pending[k]
                                  /\ k = IF j < i THEN j ELSE j + 1
          BY <3>3
        <4>3. k # i
          BY <3>2, <4>2
        <4>4. d # m.id
          BY <3>1, <4>1, <4>2, <4>3 DEF BrowserSide, PendingOnce
        <4>5. outcome[d] = "pending"
          BY <4>1, <4>2 DEF BrowserSide, PendingIsTold, Among
        <4> QED
          BY <1>1, <3>1, <4>4, <4>5
      <3>6. PendingIsTold'
        BY <3>5 DEF PendingIsTold, Among
      <3> QED
        BY <3>4, <3>6 DEF BrowserSide
    <2> QED
      BY <1>7, <2>1, <2>2, <2>3, AnswerTaken
  <1> QED
    BY <1>3, <1>4, <1>5, <1>6, <1>7 DEF Next, BrowserNext

(* The browser holds one copy of each command it has no answer to.           *)
THEOREM BrowserSideCorrect == Spec => []BrowserSide
  BY CommandTypeCorrect, BrowserSideInit, BrowserSideStep, PTL DEF Spec

-----------------------------------------------------------------------------
(* Of what the browser has not sent, or has given up, there is no copy.      *)

LEMMA QuietInit == Init => Quiet
  BY DEF Init, Quiet, Wired, Mailed

LEMMA QuietStep ==
    TypeOK /\ ServersApart /\ PendingIsTold /\ Quiet /\ [Next]_vars => Quiet'
  <1> SUFFICES ASSUME TypeOK, ServersApart, PendingIsTold, Quiet, [Next]_vars,
                      NEW c \in Commands
               PROVE  /\ outcome'[c] \in {"idle", "abandoned"} => ~Wired(c)' /\ ~Mailed(c)'
                      /\ outcome'[c] = "idle" => app'.times[c] = 0
    BY DEF Quiet
  <1>1. outcome \in [Commands -> Outcomes] /\ app.times \in [Commands -> Nat]
    BY TypeParts DEF BrowserOK, ActorOK, Apps
  <1>2. CASE BrowserNext
    <2>1. Issue(c) => outcome'[c] = "pending"
      BY <1>1 DEF Issue
    <2>2. outcome'[c] = "idle" => outcome[c] = "idle"
      BY <1>1, <1>2, ToldSteps DEF Entries, Answers, AnswerKinds
    <2>3. outcome'[c] = "abandoned" =>
              \/ outcome[c] = "abandoned"
              \/ outcome[c] = "pending" /\ actor.on /\ browser.proof # actor.epoch
      BY <1>1, <1>2, ToldSteps DEF Entries, Answers, AnswerKinds
    <2>4. app' = app
      BY <1>2, BrowserCopies
    <2>5. ASSUME outcome'[c] \in {"idle", "abandoned"}, Wired(c)' \/ Mailed(c)'
          PROVE  FALSE
      <3>1. \/ Wired(c) \/ Mailed(c)
            \/ /\ Among(browser.pending, c)
               /\ actor.on => browser.proof = actor.epoch
        BY <1>2, <2>1, <2>5, BrowserCopies
      <3>2. CASE Wired(c) \/ Mailed(c)
        <4>1. outcome[c] \notin {"idle", "abandoned"}
          BY <3>2 DEF Quiet
        <4>2. actor.on /\ browser.proof # actor.epoch
          BY <2>2, <2>3, <2>5, <4>1
        <4>3. serving = {} /\ mailbox = <<>>
          BY <4>2 DEF ServersApart
        <4> QED
          BY <3>2, <4>3 DEF Wired, Mailed
      <3>3. CASE /\ Among(browser.pending, c)
                 /\ actor.on => browser.proof = actor.epoch
        <4>1. outcome[c] = "pending"
          BY <3>3 DEF PendingIsTold
        <4> QED
          BY <2>2, <2>3, <2>5, <3>3, <4>1
      <3> QED
        BY <3>1, <3>2, <3>3
    <2> QED
      BY <2>2, <2>4, <2>5 DEF Quiet
  <1>3. CASE SessionNext
    <2>1. /\ (Wired(c) \/ Mailed(c))' => Wired(c) \/ Mailed(c)
          /\ UNCHANGED <<outcome, app>>
      BY <1>3, SessionCopies DEF SessionNext
    <2> QED
      BY <2>1 DEF Quiet
  <1>4. CASE ActorNext
    <2>1. /\ (Wired(c) \/ Mailed(c))' => Wired(c) \/ Mailed(c)
          /\ UNCHANGED outcome
      BY <1>4, ActorCopies
    <2>2. outcome[c] = "idle" => app'.times[c] = app.times[c]
      <3>1. CASE \E d \in Commands : Performed(d)
        <4>1. PICK d \in Commands : Performed(d)
          BY <3>1
        <4>2. outcome[d] # "idle"
          BY <4>1 DEF Performed, Quiet
        <4> QED
          BY <1>1, <4>1, <4>2 DEF Performed
      <3> QED
        BY <1>4, <3>1, ActorEffects
    <2> QED
      BY <2>1, <2>2 DEF Quiet
  <1>5. CASE UNCHANGED vars
    BY <1>5 DEF vars, Quiet, Wired, Mailed, Among
  <1> QED
    BY <1>2, <1>3, <1>4, <1>5 DEF Next

(* Of what the browser has given up nothing is on its way.                   *)
THEOREM QuietCorrect == Spec => []Quiet
  <1>1. BrowserSide => PendingIsTold
    BY DEF BrowserSide
  <1> QED
    BY CommandTypeCorrect, ServersCorrect, BrowserSideCorrect, QuietInit, QuietStep,
       <1>1, PTL DEF Spec

(* A server that may get a copy might have got one before, unless the        *)
(* command was just issued: a new server has none of the old copies.         *)
LEMMA CopiesKept ==
    ASSUME TypeOK, ServersApart, [Next]_vars, NEW c \in Commands,
           actor'.on, Copied(c)'
    PROVE  Issue(c) \/ (actor.on /\ Copied(c))
  <1>1. browser.proof \in Nat /\ actor.epoch \in Nat
    BY TypeParts DEF BrowserOK, Browsers, ActorOK, Actors
  <1>2. CASE BrowserNext
    BY <1>2, BrowserCopies DEF Copied, Awaited
  <1>3. CASE SessionNext
    <2>1. /\ (Wired(c) \/ Mailed(c))' => Wired(c) \/ Mailed(c)
          /\ UNCHANGED <<browser, actor>>
      BY <1>3, SessionCopies DEF SessionNext
    <2> QED
      BY <2>1 DEF Copied, Awaited, Among
  <1>4. CASE ActorNext
    <2>1. CASE actor'.epoch = actor.epoch /\ (actor'.on => actor.on)
      BY <1>4, <2>1, ActorCopies DEF Copied, Awaited, Among
    <2>2. CASE actor'.epoch = actor.epoch + 1 /\ ~Wired(c)' /\ ~Mailed(c)'
      <3>1. browser'.proof # actor'.epoch
        BY <1>1, <1>4, <2>2, ActorCopies DEF ServersApart
      <3> QED
        BY <2>2, <3>1 DEF Copied, Awaited
    <2> QED
      BY <1>4, <2>1, <2>2, ActorCopies
  <1>5. CASE UNCHANGED vars
    BY <1>5 DEF vars, Copied, Awaited, Wired, Mailed, Among
  <1> QED
    BY <1>2, <1>3, <1>4, <1>5 DEF Next

-----------------------------------------------------------------------------
(* At most once.                                                             *)

Once == PastRevision /\ AppliedOnce

LEMMA OnceInit == Init => Once
  BY DEF Init, Once, PastRevision, AppliedOnce

LEMMA OnceStep ==
    TypeOK /\ ServersApart /\ Quiet /\ Once /\ [Next]_vars => Once'
  <1> SUFFICES ASSUME TypeOK, ServersApart, Quiet, Once, [Next]_vars,
                      NEW c \in Commands
               PROVE  /\ actor'.on /\ Copied(c)' /\ app'.times[c] > 0 =>
                             expected'[c] < actor'.revision
                      /\ app'.times[c] <= 1
    BY DEF Once, PastRevision, AppliedOnce
  <1>1. /\ app.times \in [Commands -> Nat] /\ expected \in [Commands -> Nat]
        /\ actor.revision \in Nat /\ actor'.revision \in Nat
        /\ expected'[c] \in Nat
    <2>1. TypeOK'
      BY StepType
    <2> QED
      BY <2>1, TypeParts, TypePartsNext DEF BrowserOK, Browsers, ActorOK, Apps, Actors
  <1>2. app.times[c] <= 1
    BY DEF Once, AppliedOnce
  <1>3. Issue(c) => app.times[c] = 0
    BY DEF Issue, Quiet
  <1>4. actor'.on /\ Copied(c)' => Issue(c) \/ (actor.on /\ Copied(c))
    BY CopiesKept
  <1>5. CASE BrowserNext
    <2>1. UNCHANGED <<actor, app>>
      BY <1>5, BrowserCopies
    <2>2. expected'[c] = expected[c] \/ Issue(c)
      BY <1>1, <1>5, ToldSteps
    <2> QED
      BY <1>2, <1>3, <1>4, <2>1, <2>2 DEF Once, PastRevision
  <1>6. CASE SessionNext \/ UNCHANGED vars
    <2>1. UNCHANGED <<expected, actor, app>>
      BY <1>6, SessionCopies DEF SessionNext, vars
    <2> QED
      BY <1>2, <1>3, <1>4, <2>1 DEF Once, PastRevision
  <1>7. CASE ActorNext
    <2>1. UNCHANGED expected
      BY <1>7, ActorCopies
    <2>2. CASE app'.times = app.times
      <3>1. actor.on /\ actor'.on => actor'.revision >= actor.revision
        BY <1>7, ActorEffects
      <3> QED
        BY <1>1, <1>2, <1>3, <1>4, <2>1, <2>2, <3>1 DEF Once, PastRevision
    <2>3. ASSUME NEW d \in Commands, Performed(d)
          PROVE  /\ actor'.on /\ Copied(c)' /\ app'.times[c] > 0 =>
                        expected'[c] < actor'.revision
                 /\ app'.times[c] <= 1
      <3>1. CASE c = d
        <4>1. app.times[c] = 0
          <5>1. Copied(c) /\ actor.on /\ expected[c] = actor.revision
            BY <2>3, <3>1 DEF Performed, Copied, IsCurrent
          <5> QED
            BY <1>1, <5>1 DEF Once, PastRevision
        <4>2. app'.times[c] = 1 /\ expected'[c] = actor.revision
                               /\ actor'.revision = actor.revision + 1
          BY <1>1, <2>1, <2>3, <3>1, <4>1 DEF Performed, IsCurrent
        <4> QED
          BY <1>1, <4>2
      <3>2. CASE c # d
        <4>1. app'.times[c] = app.times[c] /\ actor'.revision = actor.revision + 1
          BY <1>1, <2>3, <3>2 DEF Performed
        <4> QED
          BY <1>1, <1>2, <1>3, <1>4, <2>1, <4>1 DEF Once, PastRevision
      <3> QED
        BY <3>1, <3>2
    <2> QED
      BY <1>7, <2>2, <2>3, ActorEffects
  <1> QED
    BY <1>5, <1>6, <1>7 DEF Next

LEMMA OnceHolds == Spec => []Once
  BY CommandTypeCorrect, ServersCorrect, QuietCorrect, OnceInit, OnceStep, PTL DEF Spec

(* However often a command is sent again, over whichever sockets and to      *)
(* whichever servers, it takes effect at most once: a server that may still  *)
(* get a copy is past the revision that the command expects                  *)
(* (runtime.rs:568), whatever its cache of answers has forgotten.            *)
THEOREM AppliedOnceCorrect == Spec => []AppliedOnce
  <1>1. Once => AppliedOnce
    BY DEF Once
  <1> QED
    BY OnceHolds, <1>1, PTL

-----------------------------------------------------------------------------
(* What is said.  Whatever tells of a command passes on what was said before;*)
(* only the actor, when it decides on the command, says something new.       *)

LEMMA ClearSteps ==
    ASSUME NEW B, NEW s \in Seq(Entries), Clear(B, s)
    PROVE  /\ \A e \in Entries :
                  <<e.id, e.answer.is>> \notin B => Clear(B, Append(s, e))
           /\ s # <<>> => Clear(B, Tail(s))
           /\ \A n \in 0 .. Len(s) : Clear(B, Beyond(s, n))
           /\ \A i \in 1 .. Len(s) : Clear(B, Without(s, i))
           /\ Clear(B, <<>>)
  <1>0. Len(s) \in Nat
    OBVIOUS
  <1>1. ASSUME NEW e \in Entries, <<e.id, e.answer.is>> \notin B
        PROVE  Clear(B, Append(s, e))
    <2>1. /\ Len(Append(s, e)) = Len(s) + 1
          /\ Append(s, e)[Len(s) + 1] = e
          /\ \A i \in 1 .. Len(s) : Append(s, e)[i] = s[i]
      BY AppendType
    <2>2. \A i \in 1 .. Len(s) + 1 : i \in 1 .. Len(s) \/ i = Len(s) + 1
      BY <1>0
    <2> QED
      BY <1>1, <2>1, <2>2 DEF Clear
  <1>2. ASSUME s # <<>> PROVE Clear(B, Tail(s))
    <2>1. /\ Len(Tail(s)) = Len(s) - 1
          /\ \A i \in 1 .. Len(s) - 1 : Tail(s)[i] = s[i + 1]
      BY <1>2, TailType
    <2>2. \A i \in 1 .. Len(s) - 1 : i + 1 \in 1 .. Len(s)
      BY <1>0
    <2> QED
      BY <2>1, <2>2 DEF Clear
  <1>3. ASSUME NEW n \in 0 .. Len(s) PROVE Clear(B, Beyond(s, n))
    <2>1. /\ Len(Beyond(s, n)) = Len(s) - n
          /\ \A j \in 1 .. Len(s) - n : Beyond(s, n)[j] = s[j + n]
      BY BeyondType
    <2>2. \A j \in 1 .. Len(s) - n : j + n \in 1 .. Len(s)
      BY <1>0
    <2> QED
      BY <2>1, <2>2 DEF Clear
  <1>4. ASSUME NEW i \in 1 .. Len(s) PROVE Clear(B, Without(s, i))
    <2>1. /\ Len(Without(s, i)) = Len(s) - 1
          /\ \A j \in 1 .. Len(s) - 1 :
                 Without(s, i)[j] = IF j < i THEN s[j] ELSE s[j + 1]
      BY WithoutType
    <2>2. \A j \in 1 .. Len(s) - 1 : j \in 1 .. Len(s) /\ j + 1 \in 1 .. Len(s)
      BY <1>0
    <2> QED
      BY <2>1, <2>2 DEF Clear
  <1>5. Clear(B, <<>>)
    BY DEF Clear
  <1> QED
    BY <1>1, <1>2, <1>3, <1>4, <1>5

LEMMA ReplySays ==
    ASSUME TypeOK, NEW B, NeverSaid(B), NEW k \in Connections, NEW c \in Commands,
           NEW a \in Answers, <<c, a.is>> \notin B, Reply(k, c, a)
    PROVE  \A j \in Connections : Clear(B, down'[j])
  <1>1. down \in [Connections -> Seq(Entries)]
    BY TypeParts DEF WireOK
  <1> DEFINE e == [id |-> c, answer |-> a]
  <1>2. e \in Entries /\ <<e.id, e.answer.is>> \notin B
    BY DEF Entries
  <1> HIDE DEF e
  <1>3. down[k] \in Seq(Entries) /\ \A j \in Connections : Clear(B, down[j])
    BY <1>1 DEF NeverSaid, Unsaid
  <1>4. Clear(B, Append(down[k], e))
    BY <1>2, <1>3, ClearSteps
  <1>5. down' = down \/ down' = [down EXCEPT ![k] = Append(@, e)]
    BY DEF Reply, e
  <1> QED
    BY <1>1, <1>3, <1>4, <1>5

LEMMA RememberSays ==
    ASSUME TypeOK, NEW B, NeverSaid(B), NEW c \in Commands,
           NEW a \in Answers, <<c, a.is>> \notin B, Remember(c, a)
    PROVE  Clear(B, actor'.cache)
  <1>1. actor \in Actors /\ actor.cache \in Seq(Entries) /\ Clear(B, actor.cache)
    BY TypeParts DEF ActorOK, Actors, NeverSaid, Unsaid
  <1> DEFINE e == [id |-> c, answer |-> a]
  <1>2. e \in Entries /\ <<e.id, e.answer.is>> \notin B
    BY DEF Entries
  <1> HIDE DEF e
  <1>3. PICK n \in 0 .. Len(actor.cache) : actor'.cache = Append(Beyond(actor.cache, n), e)
    BY <1>1 DEF Remember, Actors, e
  <1>4. Beyond(actor.cache, n) \in Seq(Entries) /\ Clear(B, Beyond(actor.cache, n))
    BY <1>1, BeyondType, ClearSteps
  <1> QED
    BY <1>2, <1>3, <1>4, ClearSteps

LEMMA ResolveSays ==
    ASSUME TypeOK, NEW B, NeverSaid(B), NEW ks, NEW c, NEW a,
           <<c, a.is>> \notin B, Resolve(ks, c, a)
    PROVE  \A x \in calls' : <<x.id, x.answer.is>> \notin B
  <1> SUFFICES ASSUME NEW x \in calls
               PROVE  /\ <<x.id, x.answer.is>> \notin B
                      /\ x.id = c => <<[x EXCEPT !.answer = a].id,
                                       [x EXCEPT !.answer = a].answer.is>> \notin B
    BY DEF Resolve, ResolvedFor
  <1>1. x \in Calls
    BY TypeParts DEF ServerOK
  <1>2. [x EXCEPT !.answer = a].id = x.id /\ [x EXCEPT !.answer = a].answer = a
    BY <1>1 DEF Calls
  <1> QED
    BY <1>2 DEF NeverSaid, Unsaid

(* A closing runtime only tells that it is unavailable.                      *)
LEMMA CloseSays ==
    ASSUME TypeOK, NEW B \in SUBSET Verdicts, NeverSaid(B), CloseRuntime
    PROVE  \A x \in calls' : <<x.id, x.answer.is>> \notin B
  <1> SUFFICES ASSUME NEW x \in calls
               PROVE  /\ <<x.id, x.answer.is>> \notin B
                      /\ [x EXCEPT !.answer = LocalAnswer("unavailable")].answer.is
                             = "unavailable"
    BY DEF CloseRuntime, Verdicts
  <1>1. x \in Calls /\ ActorOK
    BY TypeParts DEF ServerOK
  <1>2. LocalAnswer("unavailable").is = "unavailable"
    BY <1>1, AnswerType DEF AnswerKinds
  <1> QED
    BY <1>1, <1>2 DEF NeverSaid, Unsaid, Calls

LEMMA BrowserSays ==
    ASSUME TypeOK, BrowserNext, NEW B \in SUBSET Verdicts, NeverSaid(B)
    PROVE  Unsaid(B, down', calls', outcome', actor'.cache)
  <1>1. /\ down \in [Connections -> Seq(Entries)] /\ browser \in Browsers
        /\ outcome \in [Commands -> Outcomes]
    BY TypeParts DEF WireOK, BrowserOK
  <1>2. UNCHANGED <<actor, calls>>
    BY DEF BrowserNext, Connect, Reauthenticate, Synchronize, MarkStale, Break,
           TakeAnswer, Issue, onServer, inActor
  <1>3. /\ \A k \in Connections : Clear(B, down[k])
        /\ \A x \in calls : <<x.id, x.answer.is>> \notin B
        /\ \A c \in Commands : <<c, outcome[c]>> \notin B
        /\ Clear(B, actor.cache)
    BY DEF NeverSaid, Unsaid
  <1>4. \/ UNCHANGED down
        \/ down' = [down EXCEPT ![browser.conn] = <<>>]
        \/ /\ down[browser.conn] # <<>> /\ browser.conn \in Connections
           /\ down' = [down EXCEPT ![browser.conn] = Tail(@)]
    <2>1. CASE TakeAnswer
      BY <2>1, AnswerTaken
    <2>2. CASE ~TakeAnswer
      BY <2>2 DEF BrowserNext, Connect, Reauthenticate, Synchronize, MarkStale, Break, Issue
    <2> QED
      BY <2>1, <2>2
  <1>5. ASSUME NEW k \in Connections PROVE Clear(B, down'[k])
    <2>1. down[k] \in Seq(Entries) /\ Clear(B, down[k])
      BY <1>1, <1>3
    <2>2. Clear(B, <<>>) /\ (down[k] # <<>> => Clear(B, Tail(down[k])))
      BY <2>1, ClearSteps
    <2>3. \/ down'[k] = down[k] \/ down'[k] = <<>>
          \/ down[k] # <<>> /\ down'[k] = Tail(down[k])
      BY <1>1, <1>4
    <2> QED
      BY <2>1, <2>2, <2>3
  <1>6. ASSUME NEW c \in Commands PROVE <<c, outcome'[c]>> \notin B
    <2>1. CASE outcome'[c] \in {outcome[c], "pending", "abandoned"}
      BY <1>3, <2>1 DEF Verdicts
    <2>2. CASE \E i \in 1 .. Len(down[browser.conn]) :
                  /\ browser.conn \in Connections
                  /\ down[browser.conn][i].id = c
                  /\ outcome'[c] = down[browser.conn][i].answer.is
      BY <1>3, <2>2 DEF Clear
    <2>3. \/ outcome'[c] \in {outcome[c], "pending", "abandoned"}
          \/ \E i \in 1 .. Len(down[browser.conn]) :
                  /\ browser.conn \in Connections
                  /\ down[browser.conn][i].id = c
                  /\ outcome'[c] = down[browser.conn][i].answer.is
      BY <1>1, ToldSteps
    <2> QED
      BY <2>1, <2>2, <2>3
  <1> QED
    BY <1>2, <1>3, <1>5, <1>6 DEF Unsaid

LEMMA SessionSays ==
    ASSUME TypeOK, NEW k \in Connections, ReadFrame(k) \/ SendAnswer(k) \/ Leave(k),
           NEW B \in SUBSET Verdicts, NeverSaid(B)
    PROVE  Unsaid(B, down', calls', outcome', actor'.cache)
  <1>1. BrowserOK /\ WireOK /\ ServerOK /\ ActorOK
    BY TypeParts
  <1>2. UNCHANGED <<actor, outcome>>
    BY DEF ReadFrame, SendAnswer, Leave, onBrowser, inActor
  <1>3. /\ \A j \in Connections : Clear(B, down[j])
        /\ \A x \in calls : <<x.id, x.answer.is>> \notin B
        /\ \A c \in Commands : <<c, outcome[c]>> \notin B
        /\ Clear(B, actor.cache)
    BY DEF NeverSaid, Unsaid
  <1>4. \/ UNCHANGED down
        \/ \E c \in Commands, a \in Answers : Reply(k, c, a) /\ <<c, a.is>> \notin B
    <2>1. CASE ReadFrame(k)
      <3> DEFINE c == Head(up[k])
      <3>1. c \in Commands
        BY <1>1, <2>1, TailType DEF ReadFrame, WireOK
      <3>2. \/ UNCHANGED down \/ Reply(k, c, LocalAnswer("busy"))
            \/ Reply(k, c, LocalAnswer("unavailable"))
        BY <2>1 DEF ReadFrame
      <3>3. /\ LocalAnswer("busy") \in Answers /\ LocalAnswer("unavailable") \in Answers
            /\ LocalAnswer("busy").is = "busy"
            /\ LocalAnswer("unavailable").is = "unavailable"
        BY <1>1, AnswerType DEF AnswerKinds
      <3> HIDE DEF c
      <3>4. <<c, "busy">> \notin B /\ <<c, "unavailable">> \notin B
        BY DEF Verdicts
      <3> QED
        BY <3>1, <3>2, <3>3, <3>4
    <2>2. CASE SendAnswer(k)
      <3>1. PICK x \in CallsOf(k) : x.answer # Unanswered /\ Reply(k, x.id, x.answer)
        BY <2>2 DEF SendAnswer
      <3>2. x.id \in Commands /\ x.answer \in Answers /\ x \in calls
        BY <1>1, <3>1 DEF CallsOf, ServerOK, Calls
      <3> QED
        BY <1>3, <3>1, <3>2
    <2>3. CASE Leave(k)
      BY <2>3 DEF Leave
    <2> QED
      BY <2>1, <2>2, <2>3
  <1>5. \A j \in Connections : Clear(B, down'[j])
    <2>1. CASE UNCHANGED down
      BY <1>3, <2>1
    <2>2. CASE \E c \in Commands, a \in Answers : Reply(k, c, a) /\ <<c, a.is>> \notin B
      BY <2>2, ReplySays
    <2> QED
      BY <1>4, <2>1, <2>2
  <1>6. \A x \in calls' : <<x.id, x.answer.is>> \notin B
    <2>1. \A x \in calls' : x \in calls \/ x.answer = Unanswered
      BY DEF ReadFrame, SendAnswer, Leave, onServer
    <2>2. \A x : <<x.id, Unanswered.is>> \notin B
      BY DEF Unanswered, Verdicts
    <2> QED
      BY <1>3, <2>1, <2>2
  <1> QED
    BY <1>2, <1>3, <1>5, <1>6 DEF Unsaid

(* The actor decides on a command, or finishes the load.                     *)
Decides(c, is) ==
    \/ is = "stale" /\ \E k \in Connections : RefuseStale(c, k)
    \/ is = "failed" /\ \E k \in Connections : Fail(c, k) \/ FailHalfway(c, k)
    \/ is = "ok" /\ \E k \in Connections : Edit(c, k)
    \/ is \in {"ok", "failed"} /\ FinishLoad /\ app.load = c

LEMMA HandleSays ==
    ASSUME TypeOK, NEW d \in Commands, NEW k \in Connections, Handle(d, k),
           NEW B \in SUBSET Verdicts, NeverSaid(B),
           \A c \in Commands, is \in AnswerKinds : Decides(c, is) => <<c, is>> \notin B
    PROVE  /\ \A x \in calls' : <<x.id, x.answer.is>> \notin B
           /\ Clear(B, actor'.cache)
  <1>1. ServerOK /\ ActorOK
    BY TypeParts
  <1>2. actor \in Actors /\ actor.cache \in Seq(Entries) /\ actor.revision \in Nat
    BY <1>1 DEF ActorOK, Actors
  <1>3. /\ \A x \in calls : <<x.id, x.answer.is>> \notin B
        /\ Clear(B, actor.cache)
    BY DEF NeverSaid, Unsaid
  <1>4. ASSUME NEW a \in Answers, Settle(d, k, a), <<d, a.is>> \notin B
        PROVE  /\ \A x \in calls' : <<x.id, x.answer.is>> \notin B
               /\ Clear(B, actor'.cache)
    BY <1>4, ResolveSays, RememberSays DEF Settle
  <1>5. CASE AnswerAgain(d, k)
    <2>1. PICK i \in Entry(d) :
            /\ Resolve({k}, d, actor.cache[i].answer)
            /\ actor' = [actor EXCEPT !.cache = Append(Without(@, i), actor.cache[i])]
      BY <1>5 DEF AnswerAgain
    <2> DEFINE e == actor.cache[i]
    <2>2. i \in 1 .. Len(actor.cache) /\ e \in Entries /\ e.id = d
      BY <1>2, <2>1 DEF Entry
    <2>3. /\ <<d, e.answer.is>> \notin B /\ Clear(B, Without(actor.cache, i))
          /\ Without(actor.cache, i) \in Seq(Entries)
      BY <1>2, <1>3, <2>2, ClearSteps, WithoutType DEF Clear
    <2>4. actor'.cache = Append(Without(actor.cache, i), e)
      BY <1>2, <2>1 DEF Actors
    <2>5. Resolve({k}, d, e.answer)
      BY <2>1
    <2> HIDE DEF e
    <2>6. Clear(B, actor'.cache)
      BY <2>2, <2>3, <2>4, ClearSteps
    <2> QED
      BY <2>3, <2>5, <2>6, ResolveSays
  <1>6. CASE Coalesce(d, k) \/ StartLoad(d, k)
    <2>1. actor'.cache = actor.cache /\ UNCHANGED calls
      BY <1>2, <1>6 DEF Coalesce, StartLoad, Actors
    <2> QED
      BY <1>3, <2>1
  <1>7. ASSUME NEW is \in {"stale", "failed"}, Decides(d, is), Settle(d, k, LocalAnswer(is))
        PROVE  /\ \A x \in calls' : <<x.id, x.answer.is>> \notin B
               /\ Clear(B, actor'.cache)
    <2>1. is \in AnswerKinds
      BY DEF AnswerKinds
    <2>2. LocalAnswer(is) \in Answers /\ LocalAnswer(is).is = is
      BY <1>1, <2>1, AnswerType
    <2> QED
      BY <1>4, <1>7, <2>1, <2>2
  <1>8. CASE Edit(d, k)
    <2>1. Settle(d, k, Published) /\ Decides(d, "ok")
      BY <1>8 DEF Edit, Decides
    <2>2. Published \in Answers /\ Published.is = "ok" /\ "ok" \in AnswerKinds
      BY <1>2 DEF Published, Answers, AnswerKinds
    <2> QED
      BY <1>4, <2>1, <2>2
  <1>11. CASE FailHalfway(d, k)
    <2>1. Settle(d, k, FailedAfterwards) /\ Decides(d, "failed")
      BY <1>11 DEF FailHalfway, Decides
    <2>2. /\ FailedAfterwards \in Answers /\ FailedAfterwards.is = "failed"
          /\ "failed" \in AnswerKinds
      BY <1>2 DEF FailedAfterwards, Answers, AnswerKinds
    <2> QED
      BY <1>4, <2>1, <2>2
  <1>9. CASE RefuseStale(d, k)
    <2>1. Settle(d, k, LocalAnswer("stale")) /\ Decides(d, "stale")
      BY <1>9 DEF RefuseStale, Decides
    <2> QED
      BY <1>7, <2>1
  <1>10. CASE Fail(d, k)
    <2>1. Settle(d, k, LocalAnswer("failed")) /\ Decides(d, "failed")
      BY <1>10 DEF Fail, Decides
    <2> QED
      BY <1>7, <2>1
  <1> QED
    BY <1>5, <1>6, <1>8, <1>9, <1>10, <1>11 DEF Handle

LEMMA FinishSays ==
    ASSUME TypeOK, FinishLoad, NEW B \in SUBSET Verdicts, NeverSaid(B),
           \A c \in Commands, is \in AnswerKinds : Decides(c, is) => <<c, is>> \notin B
    PROVE  /\ \A x \in calls' : <<x.id, x.answer.is>> \notin B
           /\ Clear(B, actor'.cache)
  <1>1. actor \in Actors /\ app \in Apps /\ actor.revision \in Nat
    BY TypeParts DEF ActorOK, Actors
  <1>2. /\ \A x \in calls : <<x.id, x.answer.is>> \notin B
        /\ Clear(B, actor.cache)
    BY DEF NeverSaid, Unsaid
  <1> DEFINE c == app.load
             a(done) == [is |-> IF done THEN "ok" ELSE "failed", rev |-> actor.revision + 1]
  <1>3. PICK done \in BOOLEAN :
           \/ Resolve(actor.waiters[c], c, a(done)) /\ Remember(c, a(done))
           \/ CloseRuntime
           \/ UNCHANGED <<calls, actor>>
    BY DEF FinishLoad
  <1>4. c \in Commands
    BY <1>1 DEF FinishLoad, Apps
  <1>5. /\ a(done) \in Answers
        /\ a(done).is \in AnswerKinds /\ a(done).is \in {"ok", "failed"}
    BY <1>1 DEF Answers, AnswerKinds
  <1> HIDE DEF a
  <1>6. <<c, a(done).is>> \notin B
    BY <1>4, <1>5 DEF Decides
  <1> HIDE DEF c
  <1>7. CASE Resolve(actor.waiters[c], c, a(done)) /\ Remember(c, a(done))
    BY <1>4, <1>5, <1>6, <1>7, ResolveSays, RememberSays
  <1>8. CASE CloseRuntime
    <2>1. actor'.cache = actor.cache
      BY <1>1, <1>8 DEF CloseRuntime, Actors
    <2> QED
      BY <1>2, <1>8, <2>1, CloseSays
  <1>9. CASE UNCHANGED <<calls, actor>>
    BY <1>2, <1>9
  <1> QED
    BY <1>3, <1>7, <1>8, <1>9

LEMMA ActorSays ==
    ASSUME TypeOK, ActorNext, NEW B \in SUBSET Verdicts, NeverSaid(B),
           \A c \in Commands, is \in AnswerKinds : Decides(c, is) => <<c, is>> \notin B
    PROVE  Unsaid(B, down', calls', outcome', actor'.cache)
  <1>1. actor \in Actors
    BY TypeParts DEF ActorOK
  <1>2. /\ \A k \in Connections : Clear(B, down[k])
        /\ \A x \in calls : <<x.id, x.answer.is>> \notin B
        /\ \A c \in Commands : <<c, outcome[c]>> \notin B
        /\ Clear(B, actor.cache)
    BY DEF NeverSaid, Unsaid
  <1>3. UNCHANGED <<down, outcome>>
    <2>1. CASE \E d \in Commands, k \in Connections : Handle(d, k)
      <3>1. PICK d \in Commands, k \in Connections : Handle(d, k)
        BY <2>1
      <3> QED
        BY <3>1, HandleTouches DEF onBrowser
    <2>2. CASE ~\E d \in Commands, k \in Connections : Handle(d, k)
      BY <2>2 DEF ActorNext, FinishLoad, OtherChange, StopRemoteControl, EndProcess,
                  StartServer, onBrowser
    <2> QED
      BY <2>1, <2>2
  <1>4. CASE OtherChange \/ EndProcess \/ StartServer
    <2>1. /\ calls' = {} \/ UNCHANGED calls
          /\ actor'.cache = actor.cache \/ actor'.cache = <<>>
      BY <1>1, <1>4 DEF OtherChange, EndProcess, StartServer, onServer, Actors
    <2>2. Clear(B, <<>>)
      BY DEF Clear
    <2> QED
      BY <1>2, <1>3, <2>1, <2>2 DEF Unsaid
  <1>5. CASE StopRemoteControl
    <2>1. CloseRuntime /\ actor'.cache = actor.cache
      BY <1>1, <1>5 DEF StopRemoteControl, CloseRuntime, Actors
    <2> QED
      BY <1>2, <1>3, <2>1, CloseSays DEF Unsaid
  <1>6. CASE FinishLoad
    BY <1>2, <1>3, <1>6, FinishSays DEF Unsaid
  <1>7. CASE \E d \in Commands, k \in Connections : Handle(d, k)
    BY <1>2, <1>3, <1>7, HandleSays DEF Unsaid
  <1> QED
    BY <1>4, <1>5, <1>6, <1>7 DEF ActorNext

(* A verdict that was not said before is the decision of this step.          *)
LEMMA StepSays ==
    ASSUME TypeOK, [Next]_vars, NEW B \in SUBSET Verdicts, NeverSaid(B),
           \A c \in Commands, is \in AnswerKinds : Decides(c, is) => <<c, is>> \notin B
    PROVE  Unsaid(B, down', calls', outcome', actor'.cache)
  <1>1. CASE UNCHANGED vars
    BY <1>1 DEF vars, NeverSaid, Unsaid
  <1> QED
    BY <1>1, BrowserSays, SessionSays, ActorSays DEF Next, SessionNext

-----------------------------------------------------------------------------
(* Success is claimed only of what was performed.                            *)

(* What is performed, and which load is under way, changes as the actor      *)
(* performs a command.                                                       *)
LEMMA Performing ==
    ASSUME TypeOK, [Next]_vars
    PROVE  /\ \/ app'.times = app.times
              \/ \E c \in Commands, k \in Connections :
                     /\ Edit(c, k) \/ FailHalfway(c, k) \/ StartLoad(c, k)
                     /\ app'.times = [app.times EXCEPT ![c] = @ + 1]
           /\ \/ app'.load \in {app.load, Nothing}
              \/ \E c \in Commands, k \in Connections :
                     StartLoad(c, k) /\ app'.load = c
  <1>1. app \in Apps
    BY TypeParts DEF ActorOK
  <1>2. ASSUME NEW c \in Commands, NEW k \in Connections, Handle(c, k)
        PROVE  \/ app' = app
               \/ /\ Edit(c, k) \/ FailHalfway(c, k)
                  /\ app'.load = app.load
                  /\ app'.times = [app.times EXCEPT ![c] = @ + 1]
               \/ /\ StartLoad(c, k) /\ app'.load = c
                  /\ app'.times = [app.times EXCEPT ![c] = @ + 1]
    <2>1. CASE AnswerAgain(c, k) \/ Coalesce(c, k) \/ RefuseStale(c, k) \/ Fail(c, k)
      BY <2>1 DEF AnswerAgain, Coalesce, RefuseStale, Fail
    <2>2. CASE Edit(c, k)
      BY <1>1, <2>2 DEF Edit, Perform, Apps
    <2>4. CASE FailHalfway(c, k)
      BY <1>1, <2>4 DEF FailHalfway, Apps
    <2>3. CASE StartLoad(c, k)
      BY <1>1, <2>3 DEF StartLoad, Apps
    <2> QED
      BY <1>2, <2>1, <2>2, <2>3, <2>4 DEF Handle
  <1>3. CASE FinishLoad \/ EndProcess
    BY <1>1, <1>3 DEF FinishLoad, EndProcess, Apps
  <1>4. CASE OtherChange \/ StopRemoteControl \/ StartServer
    BY <1>4 DEF OtherChange, StopRemoteControl, StartServer
  <1>5. CASE BrowserNext \/ SessionNext \/ UNCHANGED vars
    BY <1>5 DEF BrowserNext, Connect, Reauthenticate, Synchronize, MarkStale,
                Break, TakeAnswer, Issue, SessionNext, ReadFrame, SendAnswer,
                Leave, inActor, vars
  <1> QED
    BY <1>2, <1>3, <1>4, <1>5 DEF Next, ActorNext

(* Effects are never undone, so that a true claim remains true.              *)
LEMMA TimesGrow ==
    ASSUME TypeOK, [Next]_vars
    PROVE  \A c \in Commands : app.times[c] > 0 => app'.times[c] > 0
  <1>1. app.times \in [Commands -> Nat]
    BY TypeParts DEF ActorOK, Apps
  <1>2. \/ app'.times = app.times
        \/ \E d \in Commands : app'.times = [app.times EXCEPT ![d] = @ + 1]
    BY Performing
  <1>3. ASSUME NEW d \in Commands, app'.times = [app.times EXCEPT ![d] = @ + 1],
               NEW c \in Commands, app.times[c] > 0
        PROVE  app'.times[c] > 0
    <2>1. app'.times[c] = IF c = d THEN app.times[c] + 1 ELSE app.times[c]
      BY <1>1, <1>3
    <2> QED
      BY <1>1, <1>3, <2>1
  <1> QED
    BY <1>2, <1>3

LEMMA OkInit == Init => OkIsTrue
  BY DEF Init, OkIsTrue, NeverSaid, Unsaid, Clear, Unearned

LEMMA OkStep == TypeOK /\ OkIsTrue /\ [Next]_vars => OkIsTrue'
  <1> SUFFICES ASSUME TypeOK, OkIsTrue, [Next]_vars PROVE OkIsTrue'
    OBVIOUS
  <1>1. app \in Apps
    BY TypeParts DEF ActorOK
  <1>2. app'.times \in [Commands -> Nat]
    BY StepType, TypePartsNext DEF ActorOK, Apps
  <1> DEFINE B == Unearned(app'.times)
  <1>3. B \in SUBSET Verdicts /\ B \subseteq Unearned(app.times)
    <2>1. \A c \in Commands : app'.times[c] = 0 => app.times[c] = 0
      BY <1>1, TimesGrow DEF Apps
    <2> QED
      BY <2>1 DEF Unearned, Verdicts
  <1>4. NeverSaid(B)
    <2> HIDE DEF B
    <2> QED
      BY <1>3 DEF OkIsTrue, NeverSaid, Unsaid, Clear
  <1>5. ASSUME NEW c \in Commands, NEW is \in AnswerKinds, Decides(c, is)
        PROVE  <<c, is>> \notin B
    <2>1. CASE is # "ok"
      BY <2>1 DEF Unearned
    <2>2. CASE \E k \in Connections : Edit(c, k)
      <3>1. app'.times[c] > 0
        BY <1>1, <2>2 DEF Edit, Perform, Apps
      <3> QED
        BY <3>1 DEF Unearned
    <2>3. CASE FinishLoad /\ app.load = c
      <3>1. app'.times[c] > 0
        BY <1>1, <2>3 DEF FinishLoad, OkIsTrue, Apps
      <3> QED
        BY <3>1 DEF Unearned
    <2> QED
      BY <1>5, <2>1, <2>2, <2>3 DEF Decides
  <1>6. NeverSaid(Unearned(app.times))'
    <2>1. Unsaid(B, down', calls', outcome', actor'.cache)
      <3> HIDE DEF B
      <3> QED
        BY <1>3, <1>4, <1>5, StepSays
    <2> QED
      BY <2>1 DEF NeverSaid, Unsaid, Clear, Unearned
  <1>7. app'.load # Nothing => app'.times[app'.load] > 0
    <2>1. CASE app'.load \in {app.load, Nothing}
      BY <1>1, <2>1, TimesGrow DEF OkIsTrue, Apps
    <2>2. ASSUME NEW c \in Commands, NEW k \in Connections, StartLoad(c, k), app'.load = c
          PROVE  app'.times[app'.load] > 0
      BY <1>1, <2>2 DEF StartLoad, Apps
    <2> QED
      BY <2>1, <2>2, Performing
  <1> QED
    BY <1>6, <1>7 DEF OkIsTrue

(* Wherever an answer is - in the cache, with a session, on the wire, shown  *)
(* to the user - it claims success only of a command that took effect.       *)
THEOREM OkCorrect == Spec => []OkIsTrue
  BY CommandTypeCorrect, OkInit, OkStep, PTL DEF Spec

-----------------------------------------------------------------------------
(* One copy of a command per socket: on its way up, with the session, or its *)
(* answer on its way down.                                                   *)

Distinct(s) == \A i, j \in 1 .. Len(s) : s[i] = s[j] => i = j

On(s, c) == \E i \in 1 .. Len(s) : s[i].id = c
DistinctIds(s) == \A i, j \in 1 .. Len(s) : s[i].id = s[j].id => i = j

Called(C, k, c) == \E x \in C : x.conn = k /\ x.id = c
CalledOnce(C, k) ==
    \A x, y \in C : x.conn = k /\ y.conn = k /\ x.id = y.id => x = y

Apart(c, k, u, d, C) ==
    /\ ~(Among(u, c) /\ Called(C, k, c))
    /\ ~(Among(u, c) /\ On(d, c))
    /\ ~(Called(C, k, c) /\ On(d, c))

(* Whatever is underway on the browser's socket was sent on it and waits for *)
(* its answer.                                                               *)
Expecting(x, k, c) == Among(x.pending, c) /\ x.sent[c] = k
Placed(c, k, u, d, C, x) ==
    Among(u, c) \/ Called(C, k, c) \/ On(d, c) => Expecting(x, k, c)

OneCopy(k, u, d, C, x) ==
    /\ Distinct(u) /\ DistinctIds(d) /\ CalledOnce(C, k)
    /\ \A c \in Commands : Apart(c, k, u, d, C)
    /\ \A c \in Commands : Placed(c, k, u, d, C, x)

SocketInv ==
    browser.open =>
        OneCopy(browser.conn, up[browser.conn], down[browser.conn], calls, browser)

(* There is nothing on sockets that were not opened yet.                     *)
Unopened ==
    \A k \in Connections :
        k > browser.conn =>
            k \notin serving /\ up[k] = <<>> /\ down[k] = <<>>
                             /\ \A x \in calls : x.conn # k

LEMMA DistinctSteps ==
    ASSUME NEW S, NEW s \in Seq(S), Distinct(s)
    PROVE  /\ \A x \in S : ~Among(s, x) => Distinct(Append(s, x))
           /\ s # <<>> => Distinct(Tail(s)) /\ ~Among(Tail(s), Head(s))
  <1>1. ASSUME NEW x \in S, ~Among(s, x)
        PROVE  Distinct(Append(s, x))
    <2> DEFINE t == Append(s, x)
               n == Len(s)
    <2>1. /\ n \in Nat /\ Len(t) = n + 1 /\ t[n + 1] = x
          /\ \A i \in 1 .. n : t[i] = s[i]
      BY AppendType
    <2> HIDE DEF t
    <2>2. SUFFICES ASSUME NEW i \in 1 .. n + 1, NEW j \in 1 .. n + 1, t[i] = t[j]
                   PROVE  i = j
      BY <2>1 DEF Distinct, t
    <2>3. (i \in 1 .. n \/ i = n + 1) /\ (j \in 1 .. n \/ j = n + 1)
      BY <2>1
    <2> QED
      BY <1>1, <2>1, <2>2, <2>3 DEF Distinct, Among
  <1>2. ASSUME s # <<>>
        PROVE  Distinct(Tail(s)) /\ ~Among(Tail(s), Head(s))
    <2> DEFINE t == Tail(s)
               n == Len(s)
    <2>1. /\ n \in Nat \ {0} /\ Len(t) = n - 1 /\ Head(s) = s[1]
          /\ \A i \in 1 .. n - 1 : t[i] = s[i + 1]
      BY <1>2, TailType
    <2> HIDE DEF t
    <2>2. \A i \in 1 .. n - 1 : i + 1 \in 1 .. n
      BY <2>1
    <2>3. Distinct(t)
      <3>1. SUFFICES ASSUME NEW i \in 1 .. n - 1, NEW j \in 1 .. n - 1, t[i] = t[j]
                     PROVE  i = j
        BY <2>1 DEF Distinct
      <3>2. i + 1 = j + 1
        BY <2>1, <2>2, <3>1 DEF Distinct
      <3> QED
        BY <2>1, <3>2
    <2>4. ~Among(t, Head(s))
      <3>1. SUFFICES ASSUME NEW i \in 1 .. n - 1, t[i] = s[1]
                     PROVE  FALSE
        BY <2>1 DEF Among
      <3>2. i + 1 = 1
        BY <2>1, <2>2, <3>1 DEF Distinct
      <3> QED
        BY <2>1, <3>2
    <2> QED
      BY <2>3, <2>4 DEF t
  <1> QED
    BY <1>1, <1>2

LEMMA DistinctConcat ==
    ASSUME NEW S, NEW s \in Seq(S), NEW t \in Seq(S), Distinct(s), Distinct(t),
           \A x : ~(Among(s, x) /\ Among(t, x))
    PROVE  Distinct(s \o t)
  <1> DEFINE r == s \o t
             n == Len(s)
             o == Len(t)
  <1>1. /\ n \in Nat /\ o \in Nat /\ Len(r) = n + o
        /\ \A i \in 1 .. n + o : r[i] = IF i <= n THEN s[i] ELSE t[i - n]
    BY ConcatProperties, LenProperties
  <1> HIDE DEF r, n, o
  <1>2. SUFFICES ASSUME NEW i \in 1 .. n + o, NEW j \in 1 .. n + o, r[i] = r[j]
                 PROVE  i = j
    BY <1>1 DEF Distinct, r
  <1>3. CASE i <= n /\ j <= n
    BY <1>1, <1>2, <1>3 DEF Distinct, n
  <1>4. CASE i > n /\ j > n
    <2>1. i - n \in 1 .. o /\ j - n \in 1 .. o /\ t[i - n] = t[j - n]
      BY <1>1, <1>2, <1>4
    <2>2. i - n = j - n
      BY <2>1 DEF Distinct, o
    <2> QED
      BY <1>1, <2>2
  <1>5. CASE i <= n /\ j > n
    <2>1. s[i] = t[j - n] /\ j - n \in 1 .. o /\ i \in 1 .. n
      BY <1>1, <1>2, <1>5
    <2> QED
      BY <2>1 DEF Among, n, o
  <1>6. CASE i > n /\ j <= n
    <2>1. s[j] = t[i - n] /\ i - n \in 1 .. o /\ j \in 1 .. n
      BY <1>1, <1>2, <1>6
    <2> QED
      BY <2>1 DEF Among, n, o
  <1> QED
    BY <1>1, <1>3, <1>4, <1>5, <1>6

(* The replayed commands are in the order of the pending ones, without       *)
(* repetition.                                                               *)
LEMMA InOrderDistinct ==
    ASSUME NEW S \in SUBSET Commands, NEW f \in InOrder(S),
           browser.pending \in Seq(Commands), PendingOnce
    PROVE  Distinct(f)
  <1>1. PICK n \in 0 .. Len(browser.pending) : f \in [1 .. n -> S]
    BY DEF InOrder
  <1>2. n \in Nat /\ Len(f) = n /\ DOMAIN f = 1 .. n
    BY <1>1
  <1>3. \A i, j \in DOMAIN f : i < j =>
            \E a, b \in 1 .. Len(browser.pending) :
                a < b /\ browser.pending[a] = f[i] /\ browser.pending[b] = f[j]
    BY DEF InOrder
  <1>4. \A i, j \in 1 .. n : i < j => f[i] # f[j]
    <2> SUFFICES ASSUME NEW i \in 1 .. n, NEW j \in 1 .. n, i < j, f[i] = f[j]
                 PROVE  FALSE
      OBVIOUS
    <2>1. PICK a, b \in 1 .. Len(browser.pending) :
              a < b /\ browser.pending[a] = f[i] /\ browser.pending[b] = f[j]
      BY <1>2, <1>3
    <2>2. a = b
      BY <2>1 DEF PendingOnce
    <2> QED
      BY <2>1, <2>2
  <1>5. SUFFICES ASSUME NEW i \in 1 .. n, NEW j \in 1 .. n, f[i] = f[j]
                 PROVE  i = j
    BY <1>2 DEF Distinct
  <1>6. i < j \/ j < i \/ i = j
    BY <1>2
  <1> QED
    BY <1>4, <1>5, <1>6

LEMMA OnSteps ==
    ASSUME NEW s \in Seq(Entries), NEW c
    PROVE  /\ \A e \in Entries : On(Append(s, e), c) => On(s, c) \/ e.id = c
           /\ s # <<>> => On(s, Head(s).id) /\ (On(Tail(s), c) => On(s, c))
           /\ ~On(<<>>, c) /\ ~Among(<<>>, c)
  <1>1. ASSUME NEW e \in Entries, On(Append(s, e), c)
        PROVE  On(s, c) \/ e.id = c
    <2>1. PICK i \in 1 .. Len(Append(s, e)) : Append(s, e)[i].id = c
      BY <1>1 DEF On
    <2>2. i \in 1 .. Len(s) \/ i = Len(s) + 1
      BY <2>1, AppendType
    <2> QED
      BY <2>1, <2>2, AppendType DEF On
  <1>2. ASSUME s # <<>>
        PROVE  On(s, Head(s).id) /\ (On(Tail(s), c) => On(s, c))
    <2>1. Len(s) \in Nat \ {0} /\ Len(Tail(s)) = Len(s) - 1 /\ Head(s) = s[1]
      BY <1>2, TailType
    <2>2. On(s, Head(s).id)
      BY <2>1 DEF On
    <2>3. ASSUME On(Tail(s), c) PROVE On(s, c)
      <3>1. PICK i \in 1 .. Len(s) - 1 : Tail(s)[i].id = c
        BY <2>1, <2>3 DEF On
      <3>2. i + 1 \in 1 .. Len(s) /\ s[i + 1].id = c
        BY <1>2, <2>1, <3>1, TailType
      <3> QED
        BY <3>2 DEF On
    <2> QED
      BY <2>2, <2>3
  <1>3. ~On(<<>>, c) /\ ~Among(<<>>, c)
    BY DEF On, Among
  <1> QED
    BY <1>1, <1>2, <1>3

LEMMA DistinctIdsSteps ==
    ASSUME NEW s \in Seq(Entries), DistinctIds(s)
    PROVE  /\ \A e \in Entries : ~On(s, e.id) => DistinctIds(Append(s, e))
           /\ s # <<>> => DistinctIds(Tail(s)) /\ ~On(Tail(s), Head(s).id)
  <1>1. ASSUME NEW e \in Entries, ~On(s, e.id)
        PROVE  DistinctIds(Append(s, e))
    <2> DEFINE t == Append(s, e)
               n == Len(s)
    <2>1. /\ n \in Nat /\ Len(t) = n + 1 /\ t[n + 1] = e
          /\ \A i \in 1 .. n : t[i] = s[i]
      BY AppendType
    <2> HIDE DEF t
    <2>2. SUFFICES ASSUME NEW i \in 1 .. n + 1, NEW j \in 1 .. n + 1, t[i].id = t[j].id
                   PROVE  i = j
      BY <2>1 DEF DistinctIds, t
    <2>3. (i \in 1 .. n \/ i = n + 1) /\ (j \in 1 .. n \/ j = n + 1)
      BY <2>1
    <2> QED
      BY <1>1, <2>1, <2>2, <2>3 DEF DistinctIds, On
  <1>2. ASSUME s # <<>>
        PROVE  DistinctIds(Tail(s)) /\ ~On(Tail(s), Head(s).id)
    <2> DEFINE t == Tail(s)
               n == Len(s)
    <2>1. /\ n \in Nat \ {0} /\ Len(t) = n - 1 /\ Head(s) = s[1]
          /\ \A i \in 1 .. n - 1 : t[i] = s[i + 1]
      BY <1>2, TailType
    <2> HIDE DEF t
    <2>2. \A i \in 1 .. n - 1 : i + 1 \in 1 .. n
      BY <2>1
    <2>3. DistinctIds(t)
      <3>1. SUFFICES ASSUME NEW i \in 1 .. n - 1, NEW j \in 1 .. n - 1, t[i].id = t[j].id
                     PROVE  i = j
        BY <2>1 DEF DistinctIds
      <3>2. i + 1 = j + 1
        BY <2>1, <2>2, <3>1 DEF DistinctIds
      <3> QED
        BY <2>1, <3>2
    <2>4. ~On(t, Head(s).id)
      <3>1. SUFFICES ASSUME NEW i \in 1 .. n - 1, t[i].id = s[1].id
                     PROVE  FALSE
        BY <2>1 DEF On
      <3>2. i + 1 = 1
        BY <2>1, <2>2, <3>1 DEF DistinctIds
      <3> QED
        BY <2>1, <3>2
    <2> QED
      BY <2>3, <2>4 DEF t
  <1> QED
    BY <1>1, <1>2

(* What is appended is there, and what is taken out is all that is missing.  *)
LEMMA AmongStays ==
    ASSUME NEW S, NEW s \in Seq(S), NEW y, Among(s, y)
    PROVE  /\ \A x \in S : Among(Append(s, x), y)
           /\ \A i \in 1 .. Len(s) : y # s[i] => Among(Without(s, i), y)
  <1>1. PICK j \in 1 .. Len(s) : s[j] = y
    BY DEF Among
  <1>2. Len(s) \in Nat
    BY LenProperties
  <1>3. ASSUME NEW x \in S PROVE Among(Append(s, x), y)
    <2>1. Len(Append(s, x)) = Len(s) + 1 /\ Append(s, x)[j] = y
      BY <1>1, AppendType
    <2>2. j \in 1 .. Len(s) + 1
      BY <1>2
    <2> QED
      BY <2>1, <2>2 DEF Among
  <1>4. ASSUME NEW i \in 1 .. Len(s), y # s[i]
        PROVE  Among(Without(s, i), y)
    <2> DEFINE k == IF j < i THEN j ELSE j - 1
    <2>1. k \in 1 .. Len(s) - 1 /\ (k < i => k = j) /\ (~(k < i) => k + 1 = j)
      BY <1>1, <1>2, <1>4
    <2>2. Len(Without(s, i)) = Len(s) - 1
          /\ Without(s, i)[k] = IF k < i THEN s[k] ELSE s[k + 1]
      BY <2>1, WithoutType
    <2> HIDE DEF k
    <2>3. Without(s, i)[k] = y
      BY <1>1, <2>1, <2>2
    <2> QED
      BY <2>1, <2>2, <2>3 DEF Among
  <1> QED
    BY <1>3, <1>4

-----------------------------------------------------------------------------
(* Steps keep one copy.                                                      *)

(* What only takes away keeps it.                                            *)
LEMMA FewerCopies ==
    ASSUME NEW k, NEW u, NEW d, NEW C, NEW x, OneCopy(k, u, d, C, x),
           NEW v, NEW e, NEW D, NEW y, Distinct(v), DistinctIds(e), CalledOnce(D, k),
           \A c \in Commands : /\ Among(v, c) => Among(u, c)
                               /\ On(e, c) => On(d, c)
                               /\ Called(D, k, c) => Called(C, k, c)
                               /\ Expecting(x, k, c) => Expecting(y, k, c)
    PROVE  OneCopy(k, v, e, D, y)
  <1>1. \A c \in Commands : Apart(c, k, v, e, D)
    BY DEF OneCopy, Apart
  <1>2. \A c \in Commands : Placed(c, k, v, e, D, y)
    BY DEF OneCopy, Placed
  <1> QED
    BY <1>1, <1>2 DEF OneCopy

(* A browser that expects the same on the same open socket, and nothing new  *)
(* on it.                                                                    *)
LEMMA SameSocket ==
    ASSUME TypeOK, SocketInv, browser'.conn = browser.conn, browser'.open => browser.open,
           browser'.pending = browser.pending, browser'.sent = browser.sent,
           browser.open =>
               /\ up'[browser.conn] = up[browser.conn] \/ up'[browser.conn] = <<>>
               /\ down'[browser.conn] = down[browser.conn],
           CalledOnce(calls, browser.conn) => CalledOnce(calls', browser.conn),
           \A c \in Commands : Called(calls', browser.conn, c) =>
                               Called(calls, browser.conn, c)
    PROVE  SocketInv'
  <1> SUFFICES ASSUME browser'.open
               PROVE  OneCopy(browser.conn, up'[browser.conn], down'[browser.conn],
                              calls', browser')
    BY DEF SocketInv
  <1>1. OneCopy(browser.conn, up[browser.conn], down[browser.conn], calls, browser)
    BY DEF SocketInv
  <1>2. Distinct(up'[browser.conn]) /\ Distinct(<<>>)
    BY <1>1 DEF OneCopy, Distinct
  <1>3. \A c \in Commands : Among(up'[browser.conn], c) => Among(up[browser.conn], c)
    BY DEF Among
  <1>4. \A c \in Commands : Expecting(browser, browser.conn, c) =>
                            Expecting(browser', browser.conn, c)
    BY DEF Expecting
  <1>5. DistinctIds(down'[browser.conn]) /\ CalledOnce(calls', browser.conn)
    BY <1>1 DEF OneCopy
  <1> QED
    BY <1>1, <1>2, <1>3, <1>4, <1>5, FewerCopies

LEMMA IssueSocket ==
    ASSUME TypeOK, BrowserSide, SocketInv, NEW c \in Commands, Issue(c)
    PROVE  SocketInv'
  <1> DEFINE k == browser.conn
  <1>1. /\ up \in [Connections -> Seq(Commands)] /\ down \in [Connections -> Seq(Entries)]
        /\ browser \in Browsers /\ browser.open /\ k \in Connections
        /\ browser.pending \in Seq(Commands) /\ browser.sent \in [Commands -> 0 .. MaxConnections]
    BY TypeParts DEF WireOK, BrowserOK, Browsers, Issue
  <1>2. ~Among(browser.pending, c)
    BY DEF BrowserSide, PendingIsTold, Issue
  <1>3. OneCopy(k, up[k], down[k], calls, browser)
    BY <1>1 DEF SocketInv
  <1>4. ~Among(up[k], c) /\ ~Called(calls, k, c) /\ ~On(down[k], c)
    BY <1>2, <1>3 DEF OneCopy, Placed, Expecting
  <1>5. CASE ~browser'.open
    BY <1>5 DEF SocketInv
  <1>6. CASE browser'.open
    <2>1. /\ browser' = [browser EXCEPT !.pending = Append(@, c), !.sent[c] = k]
          /\ up' = [up EXCEPT ![k] = Append(@, c)]
          /\ UNCHANGED <<down, calls>>
      BY <1>1, <1>6 DEF Issue, Browsers, onServer
    <2>2. /\ browser'.conn = k /\ browser'.pending = Append(browser.pending, c)
          /\ browser'.sent = [browser.sent EXCEPT ![c] = k]
          /\ up'[k] = Append(up[k], c)
      BY <1>1, <2>1 DEF Browsers
    <2>3. Distinct(up'[k])
      BY <1>1, <1>3, <1>4, <2>2, DistinctSteps DEF OneCopy
    <2>4. ASSUME NEW b \in Commands
          PROVE  /\ Apart(b, k, up'[k], down'[k], calls')
                 /\ Placed(b, k, up'[k], down'[k], calls', browser')
      <3>1. Among(up'[k], b) => Among(up[k], b) \/ b = c
        BY <1>1, <2>2, AmongAppend
      <3>2. Apart(b, k, up'[k], down'[k], calls')
        BY <1>3, <1>4, <2>1, <3>1 DEF OneCopy, Apart
      <3>3. Expecting(browser', k, c)
        <4>1. browser'.pending[Len(browser.pending) + 1] = c
              /\ Len(browser'.pending) = Len(browser.pending) + 1
              /\ Len(browser.pending) \in Nat
          BY <1>1, <2>2, AppendType
        <4>2. Among(browser'.pending, c)
          BY <4>1 DEF Among
        <4> QED
          BY <1>1, <2>2, <4>2 DEF Expecting
      <3>4. Expecting(browser, k, b) => Expecting(browser', k, b)
        <4>1. browser.sent[b] = k => browser'.sent[b] = k
          BY <1>1, <2>2
        <4>2. Among(browser.pending, b) => Among(browser'.pending, b)
          BY <1>1, <2>2, AmongStays
        <4> QED
          BY <4>1, <4>2 DEF Expecting
      <3>5. Placed(b, k, up[k], down[k], calls, browser)
        BY <1>3 DEF OneCopy
      <3>6. Placed(b, k, up'[k], down'[k], calls', browser')
        BY <2>1, <3>1, <3>3, <3>4, <3>5 DEF Placed
      <3> QED
        BY <3>2, <3>6
    <2>5. OneCopy(k, up'[k], down'[k], calls', browser')
      BY <1>3, <2>1, <2>3, <2>4 DEF OneCopy
    <2> QED
      BY <2>2, <2>5 DEF SocketInv
  <1> QED
    BY <1>5, <1>6

LEMMA SynchronizeSocket ==
    ASSUME TypeOK, BrowserSide, SocketInv, Synchronize
    PROVE  SocketInv'
  <1> DEFINE k == browser.conn
             S == {c \in Pending : ToReplay(c)}
  <1>1. /\ up \in [Connections -> Seq(Commands)]
        /\ browser \in Browsers /\ browser.open /\ k \in Connections
        /\ browser.pending \in Seq(Commands) /\ browser.sent \in [Commands -> 0 .. MaxConnections]
    BY TypeParts DEF WireOK, BrowserOK, Browsers, Synchronize
  <1>2. OneCopy(k, up[k], down[k], calls, browser)
    BY <1>1 DEF SocketInv
  <1>3. S \in SUBSET Commands
    BY <1>1 DEF Pending
  <1>4. PICK again \in InOrder(S) : up' = [up EXCEPT ![k] = @ \o again]
    BY DEF Synchronize
  <1>5. \A c \in S : Among(browser.pending, c) /\ browser.sent[c] # k
    BY DEF Pending, Among, ToReplay
  <1>6. /\ browser'.conn = k /\ browser'.pending = browser.pending
        /\ browser'.sent = [c \in Commands |-> IF c \in Pending THEN k ELSE 0]
        /\ UNCHANGED <<down, calls>>
        /\ up'[k] = up[k] \o again
    BY <1>1, <1>4 DEF Synchronize, Browsers, onServer
  <1> HIDE DEF S
  <1>7. again \in Seq(Commands) /\ \A i \in 1 .. Len(again) : again[i] \in S
    BY <1>1, <1>3, <1>4, InOrderType
  <1>8. Distinct(again)
    BY <1>1, <1>3, <1>4, InOrderDistinct DEF BrowserSide
  <1>9. \A c : Among(again, c) => c \in S
    BY <1>7 DEF Among
  <1>10. \A c \in S : ~Among(up[k], c) /\ ~Called(calls, k, c) /\ ~On(down[k], c)
    BY <1>2, <1>3, <1>5 DEF OneCopy, Placed, Expecting
  <1>11. Distinct(up[k] \o again)
    BY <1>1, <1>2, <1>7, <1>8, <1>9, <1>10, DistinctConcat DEF OneCopy
  <1>12. ASSUME NEW c \in Commands
         PROVE  /\ Apart(c, k, up'[k], down'[k], calls')
                /\ Placed(c, k, up'[k], down'[k], calls', browser')
    <2>1. Among(up'[k], c) => Among(up[k], c) \/ c \in S
      BY <1>1, <1>6, <1>7, <1>9, AmongConcat
    <2>2. Apart(c, k, up'[k], down'[k], calls')
      BY <1>2, <1>6, <1>10, <2>1 DEF OneCopy, Apart
    <2>3. Among(browser.pending, c) => Expecting(browser', k, c)
      BY <1>6 DEF Expecting, Among, Pending
    <2>4. Placed(c, k, up[k], down[k], calls, browser)
      BY <1>2 DEF OneCopy
    <2>5. Placed(c, k, up'[k], down'[k], calls', browser')
      BY <1>5, <1>6, <2>1, <2>3, <2>4 DEF Placed, Expecting
    <2> QED
      BY <2>2, <2>5
  <1>13. OneCopy(k, up'[k], down'[k], calls', browser')
    BY <1>2, <1>6, <1>11, <1>12 DEF OneCopy
  <1> QED
    BY <1>6, <1>13 DEF SocketInv

(* An answer on the browser's socket is one that the browser waits for.      *)
LEMMA TakeAnswerSocket ==
    ASSUME TypeOK, BrowserSide, SocketInv, TakeAnswer
    PROVE  SocketInv' /\ browser'.faulty = browser.faulty
  <1> DEFINE k == browser.conn
             m == Head(down[browser.conn])
  <1>1. /\ down \in [Connections -> Seq(Entries)] /\ browser.open
        /\ browser.pending \in Seq(Commands) /\ browser.sent \in [Commands -> 0 .. MaxConnections]
    BY TypeParts DEF WireOK, BrowserOK, Browsers, TakeAnswer
  <1>2. k \in Connections /\ down[k] # <<>> /\ m \in Entries /\ browser'.conn = k
        /\ UNCHANGED <<up, calls>>
    BY AnswerTaken
  <1>3. OneCopy(k, up[k], down[k], calls, browser)
    BY <1>1 DEF SocketInv
  <1>4. down[k] \in Seq(Entries) /\ On(down[k], m.id) /\ m.id \in Commands
    BY <1>1, <1>2, OnSteps DEF Entries
  <1>5. Among(browser.pending, m.id) /\ ~Among(up[k], m.id) /\ ~Called(calls, k, m.id)
    BY <1>3, <1>4 DEF OneCopy, Apart, Placed, Expecting
  <1>6. PICK i \in 1 .. Len(browser.pending) :
           /\ browser.pending[i] = m.id
           /\ browser'.pending = Without(browser.pending, i)
           /\ browser'.sent = [browser.sent EXCEPT ![m.id] = 0]
           /\ browser'.faulty = browser.faulty
           /\ down' = [down EXCEPT ![k] = Tail(@)]
    BY <1>5, AnswerTaken
  <1> HIDE DEF m
  <1>7. down'[k] = Tail(down[k])
    BY <1>1, <1>2, <1>6
  <1>8. DistinctIds(down'[k]) /\ ~On(down'[k], m.id)
    BY <1>2, <1>3, <1>4, <1>7, DistinctIdsSteps DEF OneCopy, m
  <1>9. ASSUME NEW c \in Commands
        PROVE  /\ Apart(c, k, up[k], down'[k], calls)
               /\ Placed(c, k, up[k], down'[k], calls, browser')
    <2>1. On(down'[k], c) => On(down[k], c)
      BY <1>2, <1>4, <1>7, OnSteps
    <2>2. Apart(c, k, up[k], down[k], calls) /\ Placed(c, k, up[k], down[k], calls, browser)
      BY <1>3 DEF OneCopy
    <2>3. Apart(c, k, up[k], down'[k], calls)
      BY <2>1, <2>2 DEF Apart
    <2>4. CASE c = m.id
      <3>1. ~Among(up[k], c) /\ ~Called(calls, k, c) /\ ~On(down'[k], c)
        BY <1>5, <1>8, <2>4
      <3> QED
        BY <2>3, <3>1 DEF Placed
    <2>5. CASE c # m.id
      <3>1. Among(browser.pending, c) => Among(browser'.pending, c)
        BY <1>1, <1>6, <2>5, AmongStays
      <3>2. browser'.sent[c] = browser.sent[c]
        BY <1>1, <1>6, <2>5
      <3>3. Expecting(browser, k, c) => Expecting(browser', k, c)
        BY <3>1, <3>2 DEF Expecting
      <3> QED
        BY <2>1, <2>2, <2>3, <3>3 DEF Placed
    <2> QED
      BY <2>4, <2>5
  <1>10. OneCopy(k, up'[k], down'[k], calls', browser')
    BY <1>2, <1>3, <1>8, <1>9 DEF OneCopy
  <1> QED
    BY <1>2, <1>6, <1>10 DEF SocketInv

-----------------------------------------------------------------------------
(* The sessions.                                                             *)

(* A copy of one command moves on; the others stay where they are or vanish. *)
LEMMA CopyMoves ==
    ASSUME NEW k, NEW u, NEW d, NEW C, NEW x, OneCopy(k, u, d, C, x),
           NEW c, Expecting(x, k, c),
           NEW v, NEW e, NEW D, Distinct(v), DistinctIds(e), CalledOnce(D, k),
           Apart(c, k, v, e, D),
           \A b \in Commands : b # c => /\ Among(v, b) => Among(u, b)
                                        /\ On(e, b) => On(d, b)
                                        /\ Called(D, k, b) => Called(C, k, b)
    PROVE  OneCopy(k, v, e, D, x)
  <1>1. \A b \in Commands : b # c => Apart(b, k, v, e, D) /\ Placed(b, k, v, e, D, x)
    BY DEF OneCopy, Apart, Placed
  <1>2. Placed(c, k, v, e, D, x)
    BY DEF Placed
  <1> QED
    BY <1>1, <1>2 DEF OneCopy

LEMMA ReadFrameSocket ==
    ASSUME TypeOK, SocketInv, browser.open, ReadFrame(browser.conn),
           browser.conn \in Connections
    PROVE  SocketInv'
  <1> DEFINE k == browser.conn
             c == Head(up[browser.conn])
  <1>1. /\ up \in [Connections -> Seq(Commands)] /\ down \in [Connections -> Seq(Entries)]
        /\ up[k] \in Seq(Commands) /\ down[k] \in Seq(Entries) /\ calls \subseteq Calls
        /\ ActorOK
    BY TypeParts DEF WireOK, ServerOK
  <1>2. browser' = browser /\ up' = [up EXCEPT ![k] = Tail(@)] /\ up[k] # <<>>
    BY DEF ReadFrame, onBrowser
  <1>3. up'[k] = Tail(up[k])
    BY <1>1, <1>2
  <1>4. OneCopy(k, up[k], down[k], calls, browser)
    BY DEF SocketInv
  <1>5. c \in Commands /\ Among(up[k], c)
    BY <1>1, <1>2, AmongTail, TailType
  <1>6. Expecting(browser, k, c) /\ ~Called(calls, k, c) /\ ~On(down[k], c)
    BY <1>4, <1>5 DEF OneCopy, Apart, Placed
  <1>7. Distinct(up'[k]) /\ ~Among(up'[k], c)
    BY <1>1, <1>2, <1>3, <1>4, DistinctSteps DEF OneCopy
  <1>8. \A b \in Commands : Among(up'[k], b) => Among(up[k], b)
    BY <1>1, <1>2, <1>3, AmongTail
  <1>9. DistinctIds(down[k]) /\ CalledOnce(calls, k)
    BY <1>4 DEF OneCopy
  <1>10. \/ \E a \in Answers : Reply(k, c, a) /\ calls' \subseteq calls
         \/ /\ calls' = calls \union {[conn |-> k, id |-> c, answer |-> Unanswered]}
            /\ down' = down
    BY <1>1, AnswerType DEF ReadFrame, onServer, AnswerKinds
  <1> HIDE DEF c
  <1>11. ASSUME NEW a \in Answers, Reply(k, c, a), calls' \subseteq calls
         PROVE  OneCopy(k, up'[k], down'[k], calls', browser)
    <2> DEFINE e == [id |-> c, answer |-> a]
    <2>1. e \in Entries /\ e.id = c
      BY <1>5 DEF Entries
    <2>2. down'[k] = Append(down[k], e)
      BY <1>1, <1>11 DEF Reply
    <2> HIDE DEF e
    <2>3. DistinctIds(down'[k])
      BY <1>1, <1>6, <1>9, <2>1, <2>2, DistinctIdsSteps
    <2>4. \A b \in Commands : b # c => (On(down'[k], b) => On(down[k], b))
      BY <1>1, <2>1, <2>2, OnSteps
    <2>5. /\ CalledOnce(calls', k)
          /\ \A b : Called(calls', k, b) => Called(calls, k, b)
      BY <1>9, <1>11 DEF CalledOnce, Called
    <2>6. Apart(c, k, up'[k], down'[k], calls')
      BY <1>6, <1>7, <2>5 DEF Apart
    <2> QED
      BY <1>4, <1>6, <1>7, <1>8, <2>3, <2>4, <2>5, <2>6, CopyMoves
  <1>12. ASSUME calls' = calls \union {[conn |-> k, id |-> c, answer |-> Unanswered]},
                down' = down
         PROVE  OneCopy(k, up'[k], down'[k], calls', browser)
    <2>1. CalledOnce(calls', k)
      BY <1>6, <1>9, <1>12 DEF CalledOnce, Called
    <2>2. \A b : b # c => (Called(calls', k, b) => Called(calls, k, b))
      BY <1>12 DEF Called
    <2>3. Apart(c, k, up'[k], down'[k], calls')
      BY <1>6, <1>7, <1>12 DEF Apart
    <2> QED
      BY <1>4, <1>6, <1>7, <1>8, <1>9, <1>12, <2>1, <2>2, <2>3, CopyMoves
  <1>13. OneCopy(k, up'[k], down'[k], calls', browser)
    BY <1>10, <1>11, <1>12
  <1> QED
    BY <1>2, <1>13 DEF SocketInv

LEMMA SendAnswerSocket ==
    ASSUME TypeOK, SocketInv, browser.open, SendAnswer(browser.conn),
           browser.conn \in Connections
    PROVE  SocketInv'
  <1> DEFINE k == browser.conn
  <1>1. /\ down \in [Connections -> Seq(Entries)]
        /\ down[k] \in Seq(Entries) /\ calls \subseteq Calls
    BY TypeParts DEF WireOK, ServerOK
  <1>2. browser' = browser /\ up' = up
    BY DEF SendAnswer, onBrowser
  <1>3. PICK x \in calls : /\ x.conn = k /\ x.answer # Unanswered
                           /\ Reply(k, x.id, x.answer)
                           /\ calls' = calls \ CallsOf(k) \/ calls' = calls \ {x}
    BY DEF SendAnswer, CallsOf
  <1>4. OneCopy(k, up[k], down[k], calls, browser)
    BY DEF SocketInv
  <1> DEFINE c == x.id
             e == [id |-> x.id, answer |-> x.answer]
  <1>5. c \in Commands /\ e \in Entries /\ e.id = c /\ Called(calls, k, c)
    BY <1>1, <1>3 DEF Calls, Entries, Called
  <1>6. Expecting(browser, k, c) /\ ~Among(up[k], c) /\ ~On(down[k], c)
    BY <1>4, <1>5 DEF OneCopy, Apart, Placed
  <1>7. down'[k] = Append(down[k], e)
    BY <1>1, <1>3 DEF Reply
  <1>8. DistinctIds(down[k]) /\ CalledOnce(calls, k) /\ Distinct(up[k])
    BY <1>4 DEF OneCopy
  <1>9. /\ CalledOnce(calls', k) /\ ~Called(calls', k, c)
        /\ \A b : Called(calls', k, b) => Called(calls, k, b)
    BY <1>3, <1>8 DEF CalledOnce, Called, CallsOf
  <1> HIDE DEF c, e
  <1>10. DistinctIds(down'[k])
    BY <1>1, <1>5, <1>6, <1>7, <1>8, DistinctIdsSteps
  <1>11. \A b \in Commands : b # c => (On(down'[k], b) => On(down[k], b))
    BY <1>1, <1>5, <1>7, OnSteps
  <1>12. Apart(c, k, up[k], down'[k], calls')
    BY <1>6, <1>9 DEF Apart
  <1>13. OneCopy(k, up[k], down'[k], calls', browser)
    BY <1>4, <1>6, <1>8, <1>9, <1>10, <1>11, <1>12, CopyMoves
  <1> QED
    BY <1>2, <1>13 DEF SocketInv

(* A session of another socket, and one that ends.                           *)
LEMMA SessionSocket ==
    ASSUME TypeOK, SocketInv, NEW k \in Connections,
           ReadFrame(k) \/ SendAnswer(k) \/ Leave(k)
    PROVE  SocketInv'
  <1>1. /\ up \in [Connections -> Seq(Commands)]
        /\ browser.open => browser.conn \in Connections
    BY TypeParts DEF WireOK, BrowserOK
  <1>2. browser' = browser
    BY DEF ReadFrame, SendAnswer, Leave, onBrowser
  <1>3. CASE ~browser.open
    BY <1>2, <1>3 DEF SocketInv
  <1>4. CASE browser.open /\ k = browser.conn /\ ~Leave(k)
    BY <1>1, <1>4, ReadFrameSocket, SendAnswerSocket
  <1>5. CASE browser.open /\ (k # browser.conn \/ Leave(k))
    <2> DEFINE j == browser.conn
    <2>1. up'[j] = up[j] \/ up'[j] = <<>>
      BY <1>1, <1>5 DEF ReadFrame, SendAnswer, Leave
    <2>2. down'[j] = down[j]
      BY <1>5 DEF ReadFrame, SendAnswer, Leave, Reply
    <2>3. \A x \in calls' : x.conn = j => x \in calls
      BY <1>5 DEF ReadFrame, SendAnswer, Leave, onServer
    <2>4. /\ CalledOnce(calls, j) => CalledOnce(calls', j)
          /\ \A c \in Commands : Called(calls', j, c) => Called(calls, j, c)
      BY <2>3 DEF CalledOnce, Called
    <2> QED
      BY <1>2, <2>1, <2>2, <2>4, SameSocket
  <1> QED
    BY <1>3, <1>4, <1>5

-----------------------------------------------------------------------------
(* The actor.                                                                *)

(* The actor answers the calls of the sessions or ends them.                 *)
CallsAnswered(C, D) ==
    /\ \A k : CalledOnce(C, k) => CalledOnce(D, k)
    /\ \A k, c : Called(D, k, c) => Called(C, k, c)
    /\ \A y \in D : \E x \in C : y.conn = x.conn

(* Answering calls makes none.                                               *)
LEMMA CallsKept ==
    ASSUME NEW C, NEW f, \A x \in C : f[x].conn = x.conn /\ f[x].id = x.id
    PROVE  CallsAnswered(C, {f[x] : x \in C})
  <1> DEFINE D == {f[x] : x \in C}
  <1>1. ASSUME NEW k, CalledOnce(C, k) PROVE CalledOnce(D, k)
    BY <1>1 DEF CalledOnce
  <1>2. \A k, c : Called(D, k, c) => Called(C, k, c)
    BY DEF Called
  <1>3. \A y \in D : \E x \in C : y.conn = x.conn
    OBVIOUS
  <1> QED
    BY <1>1, <1>2, <1>3 DEF CallsAnswered

LEMMA ResolvedCalls ==
    ASSUME TypeOK, NEW ks, NEW c, NEW a
    PROVE  CallsAnswered(calls, ResolvedFor(ks, c, a, calls))
  <1> DEFINE f == [x \in calls |->
                      IF x.conn \in ks /\ x.id = c /\ x.answer = Unanswered
                      THEN [x EXCEPT !.answer = a] ELSE x]
  <1>1. \A x \in calls : f[x].conn = x.conn /\ f[x].id = x.id
    BY TypeParts DEF ServerOK, Calls
  <1>2. ResolvedFor(ks, c, a, calls) = {f[x] : x \in calls}
    BY DEF ResolvedFor
  <1> HIDE DEF f
  <1> QED
    BY <1>1, <1>2, CallsKept

LEMMA ClosedCalls ==
    ASSUME TypeOK, CloseRuntime
    PROVE  CallsAnswered(calls, calls')
  <1> DEFINE f == [x \in calls |->
                      IF x.answer = Unanswered
                      THEN [x EXCEPT !.answer = LocalAnswer("unavailable")] ELSE x]
  <1>1. \A x \in calls : f[x].conn = x.conn /\ f[x].id = x.id
    BY TypeParts DEF ServerOK, Calls
  <1>2. calls' = {f[x] : x \in calls}
    BY DEF CloseRuntime
  <1> HIDE DEF f
  <1> QED
    BY <1>1, <1>2, CallsKept

LEMMA ActorKeepsSockets ==
    ASSUME TypeOK, ActorNext
    PROVE  /\ UNCHANGED <<browser, down>> /\ serving' \subseteq serving
           /\ \A k \in Connections : up'[k] = up[k] \/ up'[k] = <<>>
           /\ CallsAnswered(calls, calls')
  <1>1. UNCHANGED <<browser, down>> /\ serving' \subseteq serving
    <2>1. CASE \E d \in Commands, j \in Connections : Handle(d, j)
      <3>1. PICK d \in Commands, j \in Connections : Handle(d, j)
        BY <2>1
      <3> QED
        BY <3>1, HandleTouches DEF onBrowser
    <2>2. CASE ~\E d \in Commands, j \in Connections : Handle(d, j)
      BY <2>2 DEF ActorNext, FinishLoad, OtherChange, StopRemoteControl, EndProcess,
                  StartServer, onBrowser, onServer
    <2> QED
      BY <2>1, <2>2
  <1>2. \A k \in Connections : up'[k] = up[k] \/ up'[k] = <<>>
    <2>1. CASE \E d \in Commands, j \in Connections : Handle(d, j)
      <3>1. PICK d \in Commands, j \in Connections : Handle(d, j)
        BY <2>1
      <3> QED
        BY <3>1, HandleTouches
    <2>2. CASE ~\E d \in Commands, j \in Connections : Handle(d, j)
      BY <2>2 DEF ActorNext, FinishLoad, OtherChange, StopRemoteControl, EndProcess,
                  StartServer
    <2> QED
      BY <2>1, <2>2
  <1>3. \/ UNCHANGED calls \/ calls' = {} \/ CloseRuntime
        \/ \E ks, c, a : calls' = ResolvedFor(ks, c, a, calls)
    <2>1. ASSUME NEW c \in Commands, NEW k \in Connections, Handle(c, k)
          PROVE  \/ UNCHANGED calls
                 \/ \E a : calls' = ResolvedFor({k}, c, a, calls)
      BY <2>1 DEF Handle, AnswerAgain, Coalesce, RefuseStale, Fail, Edit,
                  FailHalfway, StartLoad, Settle, Resolve
    <2>2. CASE FinishLoad
      BY <2>2 DEF FinishLoad, Resolve
    <2>3. CASE OtherChange \/ StopRemoteControl \/ EndProcess \/ StartServer
      BY <2>3 DEF OtherChange, StopRemoteControl, EndProcess, StartServer, onServer
    <2> QED
      BY <2>1, <2>2, <2>3 DEF ActorNext
  <1>4. CallsAnswered(calls, calls) /\ CallsAnswered(calls, {})
    BY DEF CallsAnswered, CalledOnce, Called
  <1> QED
    BY <1>1, <1>2, <1>3, <1>4, ResolvedCalls, ClosedCalls

-----------------------------------------------------------------------------
(* Sockets that were not opened yet.                                         *)

LEMMA UnopenedInit == Init => Unopened
  BY DEF Init, Unopened

LEMMA UnopenedStep == TypeOK /\ Unopened /\ [Next]_vars => Unopened'
  <1> SUFFICES ASSUME TypeOK, Unopened, [Next]_vars PROVE Unopened'
    OBVIOUS
  <1>1. /\ up \in [Connections -> Seq(Commands)] /\ down \in [Connections -> Seq(Entries)]
        /\ browser \in Browsers /\ browser.conn \in 0 .. MaxConnections
        /\ serving \subseteq Connections
    BY TypeParts DEF WireOK, BrowserOK, Browsers, ServerOK
  <1>2. CASE BrowserNext
    <2>1. /\ browser'.conn \in Nat /\ browser'.conn >= browser.conn
          /\ calls' = calls
          /\ serving' = serving \/ serving' = serving \union {browser'.conn}
      <3>1. CASE Connect
        BY <1>1, <3>1 DEF Connect, Browsers
      <3>2. CASE TakeAnswer
        BY <1>1, <3>2, AnswerTaken
      <3>3. CASE Reauthenticate \/ Synchronize \/ MarkStale \/ Break
        <4>1. browser'.conn = browser.conn
          BY <1>1, <3>3 DEF Reauthenticate, Synchronize, MarkStale, Break, Browsers
        <4>2. UNCHANGED <<calls, serving>>
          BY <3>3 DEF Reauthenticate, Synchronize, MarkStale, Break, onServer
        <4> QED
          BY <1>1, <4>1, <4>2
      <3>4. ASSUME NEW c \in Commands, Issue(c) 
            PROVE
                   /\ browser'.conn \in Nat /\ browser'.conn >= browser.conn
                   /\ UNCHANGED <<calls, serving>>
        <4>1. browser'.conn = browser.conn
          BY <1>1, <3>4 DEF Issue, Browsers
        <4>2. UNCHANGED <<calls, serving>>
          BY <3>4 DEF Issue, onServer
        <4> QED
          BY <1>1, <4>1, <4>2
      <3> QED
        BY <1>2, <3>1, <3>2, <3>3, <3>4 DEF BrowserNext
    <2>2. \A k \in Connections : k # browser.conn => up'[k] = up[k] /\ down'[k] = down[k]
      <3>1. CASE \E c \in Commands : Issue(c)
        BY <1>1, <3>1 DEF Issue
      <3>2. CASE Connect \/ Reauthenticate \/ MarkStale \/ Break
        BY <1>1, <3>2 DEF Connect, Reauthenticate, MarkStale, Break
      <3>3. CASE Synchronize
        BY <1>1, <3>3 DEF Synchronize
      <3>4. CASE TakeAnswer
        BY <1>1, <3>4 DEF TakeAnswer
      <3> QED
        BY <1>2, <3>1, <3>2, <3>3, <3>4 DEF BrowserNext
    <2> QED
      <3> SUFFICES ASSUME NEW k \in Connections, k > browser'.conn
                   PROVE  k \notin serving' /\ up'[k] = <<>> /\ down'[k] = <<>>
                                            /\ \A x \in calls' : x.conn # k
        BY DEF Unopened
      <3>1. k > browser.conn /\ k # browser.conn /\ k # browser'.conn
        BY <1>1, <2>1
      <3> QED
        BY <2>1, <2>2, <3>1 DEF Unopened
  <1>3. ASSUME NEW j \in Connections, ReadFrame(j) \/ SendAnswer(j) \/ Leave(j)
        PROVE  Unopened'
    <2>1. j \in serving /\ ~(j > browser.conn) /\ browser' = browser
      BY <1>3 DEF Unopened, ReadFrame, SendAnswer, Leave, onBrowser
    <2>2. serving' \subseteq serving /\ \A x \in calls' : x \in calls \/ x.conn = j
      BY <1>3 DEF ReadFrame, SendAnswer, Leave, onServer
    <2>3. \A k \in Connections : k # j => up'[k] = up[k] /\ down'[k] = down[k]
      BY <1>1, <1>3 DEF ReadFrame, SendAnswer, Leave, Reply
    <2> QED
      BY <2>1, <2>2, <2>3 DEF Unopened
  <1>4. CASE ActorNext
    <2>1. /\ UNCHANGED <<browser, down>> /\ serving' \subseteq serving
          /\ \A k \in Connections : up'[k] = up[k] \/ up'[k] = <<>>
          /\ CallsAnswered(calls, calls')
      BY <1>4, ActorKeepsSockets
    <2> QED
      BY <2>1 DEF Unopened, CallsAnswered
  <1>5. CASE UNCHANGED vars
    BY <1>5 DEF vars, Unopened
  <1> QED
    BY <1>2, <1>3, <1>4, <1>5 DEF Next, SessionNext

-----------------------------------------------------------------------------
(* The browser can place every answer.                                       *)

LEMMA ConnectSocket ==
    ASSUME TypeOK, Unopened, Connect
    PROVE  SocketInv'
  <1> DEFINE j == browser.conn + 1
  <1>1. /\ browser'.conn = j /\ j \in Connections /\ j > browser.conn
        /\ UNCHANGED <<up, down, calls>>
    <2>1. browser \in Browsers /\ browser.conn \in 0 .. MaxConnections
      BY TypeParts DEF BrowserOK, Browsers
    <2>2. browser.conn \in Nat /\ MaxConnections \in Nat /\ browser.conn < MaxConnections
      BY <2>1, CommandBounds DEF Connect
    <2>3. browser'.conn = j /\ UNCHANGED <<up, down, calls>>
      BY <2>1 DEF Connect, Browsers
    <2> QED
      BY <2>2, <2>3 DEF Connections
  <1>2. up'[j] = <<>> /\ down'[j] = <<>> /\ \A x \in calls' : x.conn # j
    BY <1>1 DEF Unopened
  <1>3. \A c : ~Among(<<>>, c) /\ ~On(<<>>, c) /\ ~Called(calls', j, c)
    BY <1>2 DEF Among, On, Called
  <1>4. Distinct(<<>>) /\ DistinctIds(<<>>) /\ CalledOnce(calls', j)
    BY <1>2 DEF Distinct, DistinctIds, CalledOnce
  <1>5. OneCopy(j, up'[j], down'[j], calls', browser')
    BY <1>2, <1>3, <1>4 DEF OneCopy, Apart, Placed
  <1> QED
    BY <1>1, <1>5 DEF SocketInv

Placeable == SocketInv /\ Unopened /\ NoFault

LEMMA PlaceableInit == Init => Placeable
  BY UnopenedInit DEF Init, Placeable, SocketInv, NoFault

LEMMA PlaceableStep == TypeOK /\ BrowserSide /\ Placeable /\ [Next]_vars => Placeable'
  <1> SUFFICES ASSUME TypeOK, BrowserSide, SocketInv, Unopened, NoFault, [Next]_vars
               PROVE  SocketInv' /\ NoFault'
    BY UnopenedStep DEF Placeable
  <1>1. browser \in Browsers /\ (browser.open => browser.conn \in Connections)
    BY TypeParts DEF BrowserOK
  <1>2. ASSUME NEW c \in Commands, Issue(c) PROVE SocketInv' /\ NoFault'
    <2>1. browser'.faulty = browser.faulty
      BY <1>1, <1>2 DEF Issue, Browsers
    <2> QED
      BY <1>2, <2>1, IssueSocket DEF NoFault
  <1>3. CASE Synchronize
    <2>1. browser'.faulty = browser.faulty
      BY <1>1, <1>3 DEF Synchronize, Browsers
    <2> QED
      BY <1>3, <2>1, SynchronizeSocket DEF NoFault
  <1>4. CASE TakeAnswer
    BY <1>4, TakeAnswerSocket DEF NoFault
  <1>5. CASE Connect
    <2>1. browser'.faulty = browser.faulty
      BY <1>1, <1>5 DEF Connect, Browsers
    <2> QED
      BY <1>5, <2>1, ConnectSocket DEF NoFault
  <1>6. CASE Reauthenticate \/ Break
    <2>1. browser'.faulty = browser.faulty /\ ~browser'.open
      BY <1>1, <1>6 DEF Reauthenticate, Break, Browsers
    <2> QED
      BY <2>1 DEF NoFault, SocketInv
  <1>7. CASE MarkStale \/ UNCHANGED vars
    <2>1. /\ browser'.faulty = browser.faulty /\ browser'.open = browser.open
          /\ browser'.conn = browser.conn
          /\ browser'.pending = browser.pending /\ browser'.sent = browser.sent
          /\ UNCHANGED <<up, down, calls>>
      BY <1>1, <1>7 DEF MarkStale, Browsers, onServer, vars
    <2>2. SocketInv'
      BY <2>1, SameSocket
    <2> QED
      BY <2>1, <2>2 DEF NoFault
  <1>8. CASE SessionNext
    <2>1. browser' = browser
      BY <1>8 DEF SessionNext, ReadFrame, SendAnswer, Leave, onBrowser
    <2> QED
      BY <1>8, <2>1, SessionSocket DEF NoFault, SessionNext
  <1>9. CASE ActorNext
    <2>1. /\ UNCHANGED <<browser, down>>
          /\ \A k \in Connections : up'[k] = up[k] \/ up'[k] = <<>>
          /\ CallsAnswered(calls, calls')
      BY <1>9, ActorKeepsSockets
    <2>2. SocketInv'
      BY <1>1, <2>1, SameSocket DEF CallsAnswered
    <2> QED
      BY <2>1, <2>2 DEF NoFault
  <1> QED
    BY <1>2, <1>3, <1>4, <1>5, <1>6, <1>7, <1>8, <1>9 DEF Next, BrowserNext

(* The browser never gets an answer that it cannot place, which would end    *)
(* its connection (transport.ts:775): a command is sent once on a socket,    *)
(* and its copy there is on its way up, or with the session, or answered,    *)
(* never two of these, while the browser waits for it.                       *)
THEOREM NoFaultCorrect == Spec => []NoFault
  <1>1. Placeable => NoFault
    BY DEF Placeable
  <1> QED
    BY CommandTypeCorrect, BrowserSideCorrect, PlaceableInit, PlaceableStep, <1>1, PTL
       DEF Spec

-----------------------------------------------------------------------------
(* A refusal is true.  As long as a copy of a command may reach the server   *)
(* that performed or refused it, the server remembers what it did, unless    *)
(* the answer made room for another: no copy is decided on differently.  An  *)
(* error counts as a refusal unless the command acted before it failed.      *)

RefusalsOf(c) ==
    {<<c, "stale">>} \union
    IF Kind[c] = "edit" /\ c \notin app.halfway THEN {<<c, "failed">>} ELSE {}
Refused(c) == ~NeverSaid(RefusalsOf(c))
Remembered(c) == c \in forgotten \/ On(actor.cache, c) \/ actor.waiters[c] # {}

StillRemembered ==
    \A c \in Commands :
        actor.on /\ Copied(c) /\ (app.times[c] > 0 \/ Refused(c)) => Remembered(c)
RefusedUndone ==
    \A c \in Commands : Refused(c) => app.times[c] = 0 \/ c \in forgotten
RefusedIssued == \A c \in Commands : outcome[c] = "idle" => ~Refused(c)
LoadIsLoad == app.load # Nothing => Kind[app.load] = "load"
RefusalInv == StillRemembered /\ RefusedUndone /\ RefusedIssued /\ LoadIsLoad

LEMMA RefusalInit == Init => RefusalInv
  BY DEF Init, RefusalInv, StillRemembered, RefusedUndone, RefusedIssued,
         LoadIsLoad,
         Refused, RefusalsOf, NeverSaid, Unsaid, Clear

LEMMA CachedIsOn == \A c : IsCached(c) <=> On(actor.cache, c)
  BY DEF IsCached, Entry, On

(* What is appended is there; what remains behind the first n, or is not the *)
(* i-th, is still there.                                                     *)
LEMMA OnStays ==
    ASSUME NEW s \in Seq(Entries), NEW c, On(s, c)
    PROVE  /\ \A e : On(Append(s, e), c)
           /\ \A n \in 0 .. Len(s) :
                  On(Beyond(s, n), c) \/ c \in {s[i].id : i \in 1 .. n}
           /\ \A i \in 1 .. Len(s) : On(Without(s, i), c) \/ s[i].id = c
  <1>1. PICK i \in 1 .. Len(s) : s[i].id = c
    BY DEF On
  <1>2. Len(s) \in Nat
    OBVIOUS
  <1>3. ASSUME NEW e PROVE On(Append(s, e), c)
    <2>1. Len(Append(s, e)) = Len(s) + 1 /\ Append(s, e)[i] = s[i]
      OBVIOUS
    <2> QED
      BY <1>1, <1>2, <2>1 DEF On
  <1>4. ASSUME NEW n \in 0 .. Len(s)
        PROVE  On(Beyond(s, n), c) \/ c \in {s[j].id : j \in 1 .. n}
    <2>1. CASE i \in 1 .. n
      BY <1>1, <2>1
    <2>2. CASE i \notin 1 .. n
      <3>1. i - n \in 1 .. Len(s) - n /\ (i - n) + n = i
        BY <1>2, <2>2
      <3>2. /\ Len(Beyond(s, n)) = Len(s) - n
            /\ \A j \in 1 .. Len(s) - n : Beyond(s, n)[j] = s[j + n]
        BY BeyondType
      <3>3. Beyond(s, n)[i - n] = s[i]
        BY <3>1, <3>2
      <3> QED
        BY <1>1, <3>1, <3>2, <3>3 DEF On
    <2> QED
      BY <2>1, <2>2
  <1>5. ASSUME NEW j \in 1 .. Len(s), s[j].id # c PROVE On(Without(s, j), c)
    <2>1. /\ Len(Without(s, j)) = Len(s) - 1
          /\ \A h \in 1 .. Len(s) - 1 :
                 Without(s, j)[h] = IF h < j THEN s[h] ELSE s[h + 1]
      BY WithoutType
    <2>2. CASE i < j
      <3>1. i \in 1 .. Len(s) - 1
        BY <1>2, <2>2
      <3> QED
        BY <1>1, <2>1, <2>2, <3>1 DEF On
    <2>3. CASE i > j
      <3>1. i - 1 \in 1 .. Len(s) - 1 /\ ~(i - 1 < j) /\ (i - 1) + 1 = i
        BY <1>2, <2>3
      <3>2. Without(s, j)[i - 1] = s[i]
        BY <2>1, <3>1
      <3> QED
        BY <1>1, <2>1, <3>1, <3>2 DEF On
    <2> QED
      BY <1>1, <1>2, <1>5, <2>2, <2>3
  <1> QED
    BY <1>3, <1>4, <1>5

(* Remembering one answer forgets others openly only.                        *)
LEMMA RememberKeeps ==
    ASSUME TypeOK, NEW d \in Commands, NEW a \in Answers, Remember(d, a)
    PROVE  /\ On(actor'.cache, d)
           /\ forgotten \subseteq forgotten'
           /\ \A c \in Commands : Remembered(c) => Remembered(c)'
  <1>1. actor \in Actors /\ actor.cache \in Seq(Entries)
    BY TypeParts DEF ActorOK, Actors
  <1> DEFINE e == [id |-> d, answer |-> a]
  <1>2. e \in Entries /\ e.id = d
    BY DEF Entries
  <1> HIDE DEF e
  <1>3. PICK n \in 0 .. Len(actor.cache) :
           /\ actor'.cache = Append(Beyond(actor.cache, n), e)
           /\ actor'.waiters = [actor.waiters EXCEPT ![d] = {}]
           /\ forgotten' = forgotten \union ({actor.cache[i].id : i \in 1 .. n} \ {d})
    BY <1>1 DEF Remember, Actors, e
  <1> DEFINE rest == Beyond(actor.cache, n)
  <1>4. rest \in Seq(Entries)
    BY <1>1, BeyondType
  <1>5. On(actor'.cache, d)
    <2> HIDE DEF rest
    <2>1. /\ Len(rest) \in Nat /\ Len(Append(rest, e)) = Len(rest) + 1
          /\ Append(rest, e)[Len(rest) + 1] = e
      BY <1>2, <1>4, AppendType
    <2> QED
      BY <1>2, <1>3, <2>1 DEF On, rest
  <1>6. ASSUME NEW c \in Commands, Remembered(c), c # d PROVE Remembered(c)'
    <2>1. actor'.waiters[c] = actor.waiters[c]
      BY <1>1, <1>3, <1>6 DEF Actors
    <2>2. On(actor.cache, c) => On(rest, c) \/ c \in forgotten'
      BY <1>1, <1>3, <1>6, OnStays
    <2> HIDE DEF rest
    <2>3. On(rest, c) => On(Append(rest, e), c)
      BY <1>4, OnStays
    <2> QED
      BY <1>3, <1>6, <2>1, <2>2, <2>3 DEF Remembered, rest
  <1> QED
    BY <1>3, <1>5, <1>6 DEF Remembered

(* A server forgets only what it counts as forgotten, until it ends.         *)
LEMMA MemoryKept ==
    ASSUME TypeOK, [Next]_vars
    PROVE  /\ forgotten \subseteq forgotten'
           /\ actor.on /\ actor'.on =>
                  \A c \in Commands : Remembered(c) => Remembered(c)'
  <1>1. /\ actor \in Actors /\ actor.cache \in Seq(Entries) /\ actor.revision \in Nat
        /\ app \in Apps /\ ActorOK
    BY TypeParts DEF ActorOK, Actors
  <1>2. ASSUME NEW d \in Commands, NEW a \in Answers, Remember(d, a)
        PROVE  /\ forgotten \subseteq forgotten'
               /\ \A c \in Commands : Remembered(c) => Remembered(c)'
    BY <1>2, RememberKeeps
  <1>3. ASSUME NEW d \in Commands, NEW k \in Connections, Handle(d, k)
        PROVE  /\ forgotten \subseteq forgotten'
               /\ \A c \in Commands : Remembered(c) => Remembered(c)'
    <2>1. CASE AnswerAgain(d, k)
      <3>1. PICK i \in Entry(d) :
              actor' = [actor EXCEPT !.cache = Append(Without(@, i), actor.cache[i])]
        BY <2>1 DEF AnswerAgain
      <3> DEFINE e == actor.cache[i]
                 rest == Without(actor.cache, i)
      <3>2. /\ i \in 1 .. Len(actor.cache) /\ e \in Entries
            /\ rest \in Seq(Entries)
        BY <1>1, <3>1, WithoutType DEF Entry
      <3>3. /\ actor'.cache = Append(rest, e) /\ actor'.waiters = actor.waiters
            /\ forgotten' = forgotten
        BY <1>1, <2>1, <3>1 DEF AnswerAgain, Actors
      <3>4. ASSUME NEW c \in Commands, On(actor.cache, c) PROVE On(actor'.cache, c)
        <4>1. On(rest, c) \/ e.id = c
          BY <1>1, <3>2, <3>4, OnStays
        <4> HIDE DEF rest, e
        <4>2. /\ Len(rest) \in Nat /\ Len(Append(rest, e)) = Len(rest) + 1
              /\ Append(rest, e)[Len(rest) + 1] = e
          BY <3>2, AppendType
        <4>3. On(rest, c) => On(Append(rest, e), c)
          BY <3>2, OnStays
        <4>4. e.id = c => On(Append(rest, e), c)
          BY <4>2 DEF On
        <4> QED
          BY <3>3, <4>1, <4>3, <4>4
      <3> QED
        BY <3>3, <3>4 DEF Remembered
    <2>2. CASE Coalesce(d, k) \/ StartLoad(d, k)
      <3>1. /\ actor'.cache = actor.cache /\ forgotten' = forgotten
            /\ \/ actor'.waiters = [actor.waiters EXCEPT ![d] = Joined(d, k)]
               \/ actor'.waiters = [actor.waiters EXCEPT ![d] = {k}]
        BY <1>1, <2>2 DEF Coalesce, StartLoad, Actors
      <3>2. Joined(d, k) # {} /\ {k} # {}
        BY DEF Joined
      <3>3. ASSUME NEW c \in Commands, actor.waiters[c] # {}
            PROVE  actor'.waiters[c] # {}
        <4>1. actor.waiters \in [Commands -> SUBSET Connections]
          BY <1>1 DEF Actors
        <4>2. actor'.waiters[c] \in {actor.waiters[c], Joined(d, k), {k}}
          <5> HIDE DEF Joined
          <5> QED
            BY <3>1, <4>1
        <4> QED
          BY <3>2, <3>3, <4>2
      <3> QED
        BY <3>1, <3>3 DEF Remembered
    <2>3. CASE RefuseStale(d, k) \/ Fail(d, k) \/ Edit(d, k) \/ FailHalfway(d, k)
      <3>1. \E a \in Answers : Remember(d, a)
        <4>1. /\ LocalAnswer("stale") \in Answers /\ LocalAnswer("failed") \in Answers
              /\ Published \in Answers /\ FailedAfterwards \in Answers
          BY <1>1 DEF Actors, LocalAnswer, Published, FailedAfterwards, Answers, AnswerKinds
        <4> QED
          BY <2>3, <4>1 DEF RefuseStale, Fail, Edit, FailHalfway, Settle
      <3> QED
        BY <1>2, <3>1
    <2> QED
      BY <1>3, <2>1, <2>2, <2>3 DEF Handle
  <1>4. CASE FinishLoad
    <2>1. \/ \E a \in Answers : Remember(app.load, a)
          \/ CloseRuntime
          \/ UNCHANGED <<actor, forgotten>>
      <3>1. \A done \in BOOLEAN : [is |-> IF done THEN "ok" ELSE "failed",
                                   rev |-> actor.revision + 1] \in Answers
        BY <1>1 DEF Answers, AnswerKinds
      <3> QED
        BY <1>4, <3>1 DEF FinishLoad
    <2>2. app.load \in Commands
      BY <1>1, <1>4 DEF FinishLoad, Apps
    <2>3. CASE CloseRuntime
      BY <1>1, <2>3 DEF CloseRuntime, Actors
    <2>4. CASE UNCHANGED <<actor, forgotten>>
      BY <2>4 DEF Remembered, On
    <2> QED
      BY <1>2, <2>1, <2>2, <2>3, <2>4
  <1>5. CASE OtherChange
    BY <1>1, <1>5 DEF OtherChange, Remembered, On, Actors
  <1>6. CASE StopRemoteControl \/ EndProcess \/ StartServer
    BY <1>1, <1>6 DEF StopRemoteControl, CloseRuntime, EndProcess, StartServer, Actors
  <1>7. CASE BrowserNext \/ SessionNext \/ UNCHANGED vars
    <2>1. UNCHANGED <<actor, forgotten>>
      BY <1>7 DEF BrowserNext, Connect, Reauthenticate, Synchronize, MarkStale,
                  Break,
                  TakeAnswer, Issue, SessionNext, ReadFrame, SendAnswer, Leave,
                  inActor, vars
    <2> QED
      BY <2>1 DEF Remembered, On
  <1> QED
    BY <1>3, <1>4, <1>5, <1>6, <1>7 DEF Next, ActorNext

(* A command is decided on that is in the mailbox, and that the server does  *)
(* not remember; from then on it does.                                       *)
LEMMA Decided ==
    ASSUME TypeOK, NEW c \in Commands, NEW k \in Connections,
           \/ RefuseStale(c, k) \/ Fail(c, k) \/ Edit(c, k) \/ FailHalfway(c, k)
           \/ StartLoad(c, k)
    PROVE  /\ actor.on /\ Mailed(c)
           /\ Remembered(c) => c \in forgotten
           /\ Remembered(c)'
  <1>1. actor \in Actors /\ actor.revision \in Nat
    BY TypeParts DEF ActorOK, Actors
  <1>2. Arrived(c, k) /\ Fresh(c)
    BY DEF RefuseStale, Fail, Edit, FailHalfway, StartLoad, Admitted
  <1>3. actor.on /\ Mailed(c)
    BY <1>2, MailedSteps DEF Arrived
  <1>4. Remembered(c) => c \in forgotten
    BY <1>2, CachedIsOn DEF Fresh, Remembered
  <1>5. ASSUME StartLoad(c, k) PROVE Remembered(c)'
    <2>1. actor'.waiters = [actor.waiters EXCEPT ![c] = {k}]
      BY <1>1, <1>5 DEF StartLoad, Actors
    <2>2. actor'.waiters[c] = {k}
      BY <1>1, <2>1 DEF Actors
    <2> QED
      BY <2>2 DEF Remembered
  <1>6. ASSUME RefuseStale(c, k) \/ Fail(c, k) \/ Edit(c, k) \/ FailHalfway(c, k)
        PROVE  Remembered(c)'
    <2>1. \E a \in Answers : Remember(c, a)
      <3>1. /\ LocalAnswer("stale") \in Answers /\ LocalAnswer("failed") \in Answers
            /\ Published \in Answers /\ FailedAfterwards \in Answers
        BY <1>1 DEF Actors, LocalAnswer, Published, FailedAfterwards, Answers, AnswerKinds
      <3> QED
        BY <1>6, <3>1 DEF RefuseStale, Fail, Edit, FailHalfway, Settle
    <2> QED
      BY <2>1, RememberKeeps DEF Remembered
  <1> QED
    BY <1>3, <1>4, <1>5, <1>6

(* That a command failed halfway is not forgotten.                           *)
LEMMA HalfwayGrows ==
    ASSUME TypeOK, [Next]_vars
    PROVE  app.halfway \subseteq app'.halfway
  <1>1. app \in Apps
    BY TypeParts DEF ActorOK
  <1>2. CASE \E c \in Commands, k \in Connections : Handle(c, k)
    <2>1. PICK c \in Commands, k \in Connections : Handle(c, k)
      BY <1>2
    <2>2. CASE FailHalfway(c, k)
      BY <1>1, <2>2 DEF FailHalfway, Apps
    <2>3. CASE Edit(c, k) \/ StartLoad(c, k)
      BY <1>1, <2>3 DEF Edit, Perform, StartLoad, Apps
    <2>4. CASE \/ AnswerAgain(c, k) \/ Coalesce(c, k)
               \/ RefuseStale(c, k) \/ Fail(c, k)
      BY <2>4 DEF AnswerAgain, Coalesce, RefuseStale, Fail
    <2> QED
      BY <2>1, <2>2, <2>3, <2>4 DEF Handle
  <1>3. CASE FinishLoad \/ EndProcess
    BY <1>1, <1>3 DEF FinishLoad, EndProcess, Apps
  <1>4. CASE OtherChange \/ StopRemoteControl \/ StartServer
    BY <1>4 DEF OtherChange, StopRemoteControl, StartServer
  <1>5. CASE BrowserNext \/ SessionNext \/ UNCHANGED vars
    BY <1>5 DEF BrowserNext, Connect, Reauthenticate, Synchronize, MarkStale,
                Break, TakeAnswer, Issue, SessionNext, ReadFrame, SendAnswer,
                Leave, inActor, vars
  <1> QED
    BY <1>2, <1>3, <1>4, <1>5 DEF Next, ActorNext

(* A new refusal is the actor's; the end of a load is not one, nor is an     *)
(* error after the command has acted.                                        *)
LEMMA NewRefusal ==
    ASSUME TypeOK, LoadIsLoad, [Next]_vars, NEW c \in Commands,
           ~Refused(c), Refused(c)'
    PROVE  \E k \in Connections : RefuseStale(c, k) \/ Fail(c, k)
  <1>1. SUFFICES ASSUME \A k \in Connections : ~RefuseStale(c, k) /\ ~Fail(c, k)
                 PROVE  FALSE
    OBVIOUS
  <1> DEFINE B == RefusalsOf(c)'
  <1>2. B \in SUBSET Verdicts /\ B \subseteq RefusalsOf(c)
    BY HalfwayGrows DEF RefusalsOf, Verdicts
  <1>3. NeverSaid(B)
    <2>1. NeverSaid(RefusalsOf(c))
      BY DEF Refused
    <2> HIDE DEF B
    <2> QED
      BY <1>2, <2>1 DEF NeverSaid, Unsaid, Clear
  <1>4. ASSUME NEW d \in Commands, NEW is \in AnswerKinds, Decides(d, is)
        PROVE  <<d, is>> \notin B
    <2> SUFFICES ASSUME <<d, is>> \in B PROVE FALSE
      OBVIOUS
    <2>1. /\ d = c
          /\ is = "stale" \/ (is = "failed" /\ Kind[c] = "edit" /\ c \notin app'.halfway)
      BY DEF RefusalsOf
    <2>2. \/ is = "failed" /\ FinishLoad /\ app.load = c
          \/ is = "failed" /\ \E k \in Connections : FailHalfway(c, k)
      BY <1>1, <1>4, <2>1 DEF Decides
    <2>3. CASE FinishLoad /\ app.load = c
      BY <2>1, <2>2, <2>3 DEF FinishLoad, LoadIsLoad
    <2>4. CASE \E k \in Connections : FailHalfway(c, k)
      <3>1. app \in Apps
        BY TypeParts DEF ActorOK
      <3>2. c \in app'.halfway
        BY <2>4, <3>1 DEF FailHalfway, Apps
      <3> QED
        BY <2>1, <2>2, <3>2, <2>3
    <2> QED
      BY <2>2, <2>3, <2>4
  <1>5. Unsaid(B, down', calls', outcome', actor'.cache)
    <2> HIDE DEF B
    <2> QED
      BY <1>2, <1>3, <1>4, StepSays
  <1> QED
    BY <1>5 DEF Refused, NeverSaid, Unsaid, Clear

LEMMA RefusalStep ==
    TypeOK /\ ServersApart /\ Quiet /\ RefusalInv /\ [Next]_vars => RefusalInv'
  <1> SUFFICES ASSUME TypeOK, ServersApart, Quiet, RefusalInv, [Next]_vars
               PROVE  RefusalInv'
    OBVIOUS
  <1>1. /\ app \in Apps /\ app.times \in [Commands -> Nat]
        /\ outcome \in [Commands -> Outcomes]
    BY TypeParts DEF ActorOK, Apps, BrowserOK
  <1>2. StillRemembered /\ RefusedUndone /\ RefusedIssued /\ LoadIsLoad
    BY DEF RefusalInv
  <1>3. LoadIsLoad'
    BY <1>2, Performing DEF LoadIsLoad, StartLoad
  <1>4. ASSUME NEW c \in Commands
        PROVE  /\ actor'.on /\ Copied(c)' /\ (app'.times[c] > 0 \/ Refused(c)') =>
                      Remembered(c)'
               /\ Refused(c)' => app'.times[c] = 0 \/ c \in forgotten'
               /\ outcome'[c] = "idle" => ~Refused(c)'
    <2>1. CASE ~Refused(c) /\ Refused(c)'
      <3>1. PICK k \in Connections : RefuseStale(c, k) \/ Fail(c, k)
        BY <1>2, <2>1, NewRefusal
      <3>2. /\ actor.on /\ Mailed(c) /\ Remembered(c)'
            /\ Remembered(c) => c \in forgotten
        BY <3>1, Decided
      <3>3. UNCHANGED <<app, outcome>>
        BY <3>1 DEF RefuseStale, Fail, Admitted, Arrived, onBrowser
      <3>4. app.times[c] > 0 => c \in forgotten
        BY <1>2, <3>2 DEF StillRemembered, Copied
      <3>5. outcome[c] # "idle"
        BY <3>2 DEF Quiet
      <3> QED
        BY <1>1, <3>2, <3>3, <3>4, <3>5, MemoryKept
    <2>2. CASE app'.times[c] # app.times[c] /\ (Refused(c)' => Refused(c))
      <3>1. PICK d \in Commands, k \in Connections :
                /\ Edit(d, k) \/ FailHalfway(d, k) \/ StartLoad(d, k)
                /\ app'.times = [app.times EXCEPT ![d] = @ + 1]
        BY <2>2, Performing
      <3>2. d = c
        BY <1>1, <2>2, <3>1
      <3>3. /\ actor.on /\ Mailed(c) /\ Remembered(c)'
            /\ Remembered(c) => c \in forgotten
        BY <3>1, <3>2, Decided
      <3>4. UNCHANGED outcome
        BY <3>1 DEF Edit, FailHalfway, StartLoad, Admitted, Arrived, onBrowser
      <3>5. Refused(c) => c \in forgotten
        BY <1>2, <3>3 DEF StillRemembered, Copied
      <3>6. outcome[c] # "idle"
        BY <3>3 DEF Quiet
      <3> QED
        BY <2>2, <3>3, <3>4, <3>5, <3>6, MemoryKept
    <2>3. CASE app'.times[c] = app.times[c] /\ (Refused(c)' => Refused(c))
      <3>1. outcome'[c] = "idle" => outcome[c] = "idle"
        <4>1. CASE BrowserNext
          BY <1>1, <4>1, ToldSteps DEF Entries, Answers, AnswerKinds
        <4>2. CASE SessionNext
          BY <4>2, SessionCopies DEF SessionNext
        <4>3. CASE ActorNext \/ UNCHANGED vars
          BY <4>3, ActorCopies DEF vars
        <4> QED
          BY <4>1, <4>2, <4>3 DEF Next
      <3>2. Refused(c)' => app'.times[c] = 0 \/ c \in forgotten'
        BY <1>2, <2>3, MemoryKept DEF RefusedUndone
      <3>3. ASSUME actor'.on, Copied(c)', app'.times[c] > 0 \/ Refused(c)'
            PROVE  Remembered(c)'
        <4>1. app.times[c] > 0 \/ Refused(c)
          BY <2>3, <3>3
        <4>2. ~Issue(c)
          BY <1>2, <4>1 DEF Issue, Quiet, RefusedIssued
        <4>3. actor.on /\ Copied(c)
          BY <3>3, <4>2, CopiesKept
        <4>4. Remembered(c)
          BY <1>2, <4>1, <4>3 DEF StillRemembered
        <4> QED
          BY <3>3, <4>3, <4>4, MemoryKept
      <3> QED
        BY <1>2, <2>3, <3>1, <3>2, <3>3 DEF RefusedIssued
    <2> QED
      BY <2>1, <2>2, <2>3
  <1>5. StillRemembered'
    BY <1>4 DEF StillRemembered
  <1>6. RefusedUndone' /\ RefusedIssued'
    BY <1>4 DEF RefusedUndone, RefusedIssued
  <1> QED
    BY <1>3, <1>5, <1>6 DEF RefusalInv

(* A command that was refused as stale took no effect, over however many     *)
(* sockets and servers its copies went, and an edit that was answered with an*)
(* error took none but in the handler that failed, unless the cache had to   *)
(* forget its answer (actor.rs:207).                                         *)
THEOREM RefusalIsTrueCorrect == Spec => []RefusalIsTrue
  <1>1. RefusalInv => RefusalIsTrue
    <2> SUFFICES ASSUME RefusalInv, NEW c \in Commands,
                        \/ outcome[c] = "stale"
                        \/ /\ outcome[c] = "failed" /\ Kind[c] = "edit"
                           /\ c \notin app.halfway
                 PROVE  app.times[c] = 0 \/ c \in forgotten
      BY DEF RefusalIsTrue
    <2>1. <<c, outcome[c]>> \in RefusalsOf(c)
      BY DEF RefusalsOf
    <2>2. Refused(c)
      BY <2>1 DEF Refused, NeverSaid, Unsaid
    <2> QED
      BY <2>2 DEF RefusalInv, RefusedUndone
  <1> QED
    BY CommandTypeCorrect, ServersCorrect, QuietCorrect, RefusalInit, RefusalStep,
       <1>1, PTL DEF Spec

-----------------------------------------------------------------------------
(* The refinement.                                                           *)

LEMMA PromiseInit == Init => Promise!Init
  BY DEF Init, Promise!Init, Summary

LEMMA PromiseStep ==
    TypeOK /\ ServersApart /\ PendingIsTold /\ Quiet /\ Once /\ OkIsTrue /\ [Next]_vars
        => [Promise!Next]_<<app.times, [c \in Commands |-> Summary(outcome[c])]>>
  <1> SUFFICES ASSUME TypeOK, ServersApart, PendingIsTold, Quiet, Once, OkIsTrue,
                      [Next]_vars
               PROVE  [Promise!Next]_<<app.times, [c \in Commands |-> Summary(outcome[c])]>>
    OBVIOUS
  <1> DEFINE told == [c \in Commands |-> Summary(outcome[c])]
  <1>1. /\ outcome \in [Commands -> Outcomes] /\ app.times \in [Commands -> Nat]
    BY TypeParts DEF BrowserOK, ActorOK, Apps
  <1>2. ASSUME UNCHANGED <<outcome, app>>
        PROVE  UNCHANGED <<app.times, told>>
    BY <1>2
  <1>3. CASE BrowserNext
    <2>1. app'.times = app.times
      BY <1>3, BrowserCopies DEF BrowserNext, Connect, Reauthenticate,
                                 Synchronize,
         MarkStale, Break, TakeAnswer, Issue, inActor
    <2>2. CASE UNCHANGED outcome
      BY <2>1, <2>2
    <2>3. ASSUME NEW c \in Commands, Issue(c), outcome' = [outcome EXCEPT ![c] = "pending"]
          PROVE  Promise!Issue(c)
      <3>1. told[c] = "idle"
        BY <2>3 DEF Issue, Summary
      <3>2. told' = [told EXCEPT ![c] = "pending"]
        BY <1>1, <2>3 DEF Summary
      <3> QED
        BY <2>1, <3>1, <3>2 DEF Promise!Issue
    <2>4. ASSUME NEW i \in 1 .. Len(down[browser.conn]),
                 browser.conn \in Connections,
                 down[browser.conn][i] \in Entries,
                 Among(browser.pending, down[browser.conn][i].id),
                 outcome' = [outcome EXCEPT ![down[browser.conn][i].id]
                                                = down[browser.conn][i].answer.is]
          PROVE  Promise!Answer(down[browser.conn][i].id)
      <3> DEFINE m == down[browser.conn][i]
      <3>1. m.id \in Commands /\ m.answer.is \in AnswerKinds
        BY <2>4 DEF Entries, Answers
      <3>2. told[m.id] = "pending"
        BY <2>4, <3>1 DEF PendingIsTold, Summary
      <3>3. told' = [told EXCEPT ![m.id] = Summary(m.answer.is)]
        BY <1>1, <2>4, <3>1
      <3>4. Summary(m.answer.is) \in {"ok", "refused"}
        BY <3>1 DEF Summary, AnswerKinds
      <3>5. Summary(m.answer.is) = "ok" => m.answer.is = "ok"
        BY <3>1 DEF Summary, AnswerKinds
      <3>6. m.answer.is = "ok" => app.times[m.id] > 0
        <4>1. <<m.id, "ok">> \notin Unearned(app.times) \/ m.answer.is # "ok"
          BY <2>4 DEF OkIsTrue, NeverSaid, Unsaid, Clear
        <4> QED
          BY <1>1, <3>1, <4>1 DEF Unearned
      <3>7. app.times[m.id] <= 1
        BY <3>1 DEF Once, AppliedOnce
      <3>8. Summary(m.answer.is) = "ok" => app.times[m.id] = 1
        BY <1>1, <3>1, <3>5, <3>6, <3>7
      <3> HIDE DEF told
      <3> QED
        BY <2>1, <3>2, <3>3, <3>4, <3>8 DEF Promise!Answer, told
    <2>5. ASSUME outcome' = [c \in Commands |-> IF outcome[c] = "pending"
                                                THEN "abandoned" ELSE outcome[c]]
          PROVE  Promise!Abandon
      <3>1. \A c \in Commands :
                told'[c] = IF told[c] = "pending" THEN "abandoned" ELSE told[c]
        BY <1>1, <2>5 DEF Summary, Outcomes, AnswerKinds
      <3>2. told' = [c \in Commands |->
                        IF told[c] = "pending" THEN "abandoned" ELSE told[c]]
        BY <3>1
      <3> QED
        BY <2>1, <3>2 DEF Promise!Abandon
    <2>6. UNCHANGED outcome \/ Promise!Next
      BY <1>3, <2>3, <2>4, <2>5, ToldSteps DEF Promise!Next, Entries
    <2> QED
      BY <2>2, <2>6
  <1>4. CASE SessionNext
    <2>1. UNCHANGED <<outcome, app>>
      BY <1>4 DEF SessionNext, ReadFrame, SendAnswer, Leave, onBrowser, inActor
    <2> QED
      BY <1>2, <2>1
  <1>5. CASE ActorNext
    <2>1. UNCHANGED outcome
      BY ZenonT(60), <1>5 DEF ActorNext, Handle, AnswerAgain, Coalesce,
                              RefuseStale, Fail, Edit, FailHalfway, StartLoad,
                              Admitted, Arrived, FinishLoad, OtherChange,
                              StopRemoteControl, EndProcess, StartServer,
                              onBrowser
    <2>2. told' = told
      BY <2>1
    <2>3. ASSUME NEW c \in Commands, Performed(c) PROVE Promise!Apply(c)
      <3>1. app.times[c] = 0
        <4>1. Copied(c) /\ actor.on /\ expected[c] = actor.revision
          BY <2>3 DEF Performed, Copied, IsCurrent
        <4>2. actor.revision \in Nat
          BY TypeParts DEF ActorOK, Actors
        <4> QED
          BY <1>1, <4>1, <4>2 DEF Once, PastRevision
      <3>2. outcome[c] \notin {"idle", "abandoned"}
        BY <2>3 DEF Performed, Quiet
      <3>3. outcome[c] # "ok"
        BY <3>1 DEF OkIsTrue, NeverSaid, Unsaid, Unearned
      <3>4. told[c] \in {"pending", "refused"}
        BY <1>1, <3>2, <3>3 DEF Summary, Outcomes, AnswerKinds
      <3>5. app'.times = [app.times EXCEPT ![c] = 1]
        BY <1>1, <2>3, <3>1 DEF Performed
      <3> QED
        BY <2>2, <3>1, <3>4, <3>5 DEF Promise!Apply
    <2> QED
      BY <1>5, <2>2, <2>3, ActorEffects DEF Promise!Next
  <1>6. CASE UNCHANGED vars
    BY <1>2, <1>6 DEF vars
  <1> QED
    BY <1>3, <1>4, <1>5, <1>6 DEF Next

(* CommandReplay implements CommandPromise: a command is performed once or   *)
(* never, success is only told when it was, and what was given up stays      *)
(* undone.                                                                   *)
THEOREM CommandPromiseCorrect == Spec => KeepsCommandPromise
  <1>1. BrowserSide => PendingIsTold
    BY DEF BrowserSide
  <1> QED
    BY CommandTypeCorrect, ServersCorrect, BrowserSideCorrect, QuietCorrect, OnceHolds,
       OkCorrect, PromiseInit, PromiseStep, <1>1, PTL
    DEF Spec, KeepsCommandPromise, Promise!Spec
=============================================================================
