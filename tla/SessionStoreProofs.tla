--------------------------- MODULE SessionStoreProofs ---------------------------
(* Theorems about SessionStore, for every set of processes and of sessions  *)
(* and any number of crashes and failures: the types, that two processes    *)
(* never use one session, that what was said is kept, and the order in      *)
(* which a deletion takes a session apart.                                  *)
EXTENDS SessionStore, TLAPS

USE SessionAssumption

-----------------------------------------------------------------------------
(* Types.                                                                   *)

Making == {"mkdir", "newLock", "newBind", "newBound"}
Locking == DOMAIN AfterLock
Binding == DOMAIN AfterBind
Reading == {"resumeRead", "deleteRead", "recoverRead"}
Holding == {"resumeCheck", "adopt", "recoverSave"}
Removing == {"runtime", "workspace", "tombstone", "wipe", "rmdir", "gone"}
Saving == {"save", "commit"}

(* What a save may be followed by.                                          *)
After == {"idle", "new", "resumeRead", "loadLock", "python", "launch", "begin"}

Steps == {"idle", "new", "python", "launch", "begin"}
             \cup Making \cup Locking \cup Binding \cup Reading \cup Holding
             \cup Removing \cup Saving

App == [at : Steps, then : Steps, cur : Sessions \cup {None},
        python : BOOLEAN, committed : BOOLEAN, tgt : Sessions \cup {None},
        seen : Lifecycle, found : BOOLEAN]
Lock == [path : Processes \cup {Free}, id : Processes \cup {Free}]
History == [asked : SUBSET Sessions, late : SUBSET Sessions,
            faults : 0 .. MaxFaults]

Typed ==
    /\ record \in [Sessions -> Lifecycle]
    /\ disk \in [Sessions -> Disk]
    /\ lock \in [Sessions -> Lock]
    /\ app \in [Processes -> App]
    /\ history \in History

-----------------------------------------------------------------------------
(* The invariant: what is true of a session whoever works on it, and what a *)
(* process may count on at each step.                                       *)

(* There is a runtime, and no deletion has overlooked it.                   *)
Alive(s) == disk[s].runtime /\ s \notin history.late

(* The session may lose what it says.                                       *)
Doomed(s) == s \in history.asked \/ disk[s].saved = None

(* A directory outlives the state, the state the workspace, and it names    *)
(* the runtime; a session is marked for deletion with its binding, and only *)
(* if the user has asked for it or there is nothing in it.                  *)
Sound(s) ==
    /\ ~disk[s].dir => disk[s].saved = None
    /\ disk[s].saved = None => ~disk[s].workspace
    /\ Alive(s) => disk[s].saved = "python"
    /\ record[s].state = "Deleting" /\ Alive(s) => record[s].python
    /\ record[s].state = "Deleted" => ~disk[s].dir
    /\ record[s].state \in Tombs => record[s].bound /\ Doomed(s)

Both(p, s) == lock[s].path = p /\ lock[s].id = p

(* Who is in a session holds it, knows its runtime, and has not seen it     *)
(* marked for deletion without having been asked for that.                  *)
InSession(p, a) ==
    a.cur # None =>
        /\ Both(p, a.cur)
        /\ ~(a.at = "gone" /\ a.tgt = a.cur) => disk[a.cur].dir
        /\ Alive(a.cur) => a.python
        /\ record[a.cur].state \in Tombs => a.cur \in history.asked

(* A save is followed by what is about the same session or by what is about *)
(* another; the state is written, with the runtime, before the launch.      *)
SaveWell(a) ==
    /\ a.at \in Saving =>
         /\ a.then \in After
         /\ a.then = "begin" => a.tgt = a.cur
         /\ a.then = "new" => a.tgt = None
         /\ a.then \in {"resumeRead", "loadLock"} =>
                a.tgt \in Sessions /\ a.tgt # a.cur
         /\ a.then = "launch" => a.python
    /\ a.at \in Saving \cup {"python", "launch"} => a.cur # None
    /\ a.at \in {"commit", "python", "launch"} => disk[a.cur].saved # None
    /\ a.at = "launch" => a.python
    /\ a.at \in {"commit", "launch"} /\ a.python => disk[a.cur].saved = "python"

(* What is locked, and what is known, at the steps to a session.            *)
Approach(p, a) ==
    /\ a.at = "new" => a.tgt = None
    /\ a.at \in Making \cup Reading \cup Locking \cup Binding \cup Holding =>
         a.tgt \in Sessions /\ a.tgt # a.cur
    /\ a.at \in Making =>
         /\ lock[a.tgt].id = p /\ record[a.tgt].state = "Creating"
         /\ disk[a.tgt].saved = None
    /\ a.at \in Binding \cup {"newBind", "newBound"} =>
         lock[a.tgt].path = p /\ disk[a.tgt].dir
    /\ a.at \in Holding => Both(p, a.tgt) /\ disk[a.tgt].dir
    /\ a.at \in {"deleteLock", "deleteBind"} =>
         a.found \/ ~Alive(a.tgt)
    /\ a.seen.state \in Tombs => a.seen.bound

(* What a deletion holds, and what it has removed.                          *)
Deleting(p, a) ==
    /\ a.at \in Removing \cup {"begin"} =>
         /\ a.tgt \in Sessions /\ Both(p, a.tgt)
         /\ disk[a.tgt].dir <=> a.at # "gone"
    /\ a.at = "begin" => a.cur = a.tgt \/ a.found \/ ~Alive(a.tgt)
    /\ a.at = "runtime" => a.found \/ ~Alive(a.tgt)
    /\ a.at \in Removing \ {"runtime"} => ~Alive(a.tgt)
    /\ a.at \in Removing \ {"runtime", "workspace"} => ~disk[a.tgt].workspace
    /\ a.at \in {"wipe", "rmdir", "gone"} => record[a.tgt].bound
    /\ a.at \in {"rmdir", "gone"} => disk[a.tgt].saved = None
    /\ a.at \in Removing =>
         Doomed(a.tgt) /\ (a.tgt = a.cur => a.tgt \in history.asked)

Local(p, a) ==
    InSession(p, a) /\ SaveWell(a) /\ Approach(p, a) /\ Deleting(p, a)

IInv ==
    /\ Typed
    /\ \A s \in Sessions : Sound(s)
    /\ \A p \in Processes : Local(p, app[p])

-----------------------------------------------------------------------------
(* What a step of one process leaves to the others.                         *)

Grows == history.asked \subseteq history'.asked
            /\ history.late \subseteq history'.late

(* Nothing is written to what another holds, no lock of another is touched, *)
(* no directory vanishes from under it, and a runtime that is launched next *)
(* to a deletion that does not know of it is noted.                         *)
Undisturbed(p) ==
    \A q \in Processes \ {p} :
        /\ app'[q] = app[q]
        /\ \A s \in Sessions :
               /\ lock[s].id = q => /\ lock'[s].id = q
                                    /\ record'[s] = record[s]
                                    /\ disk'[s] = disk[s]
               /\ lock[s].path = q => /\ lock'[s].path = q
                                      /\ disk[s].dir => disk'[s].dir
        /\ app[q].at \in {"deleteLock", "deleteBind"} /\ ~app[q].found =>
               (Alive(app[q].tgt)' => Alive(app[q].tgt))

(* What each step has to keep.                                              *)
Keeps(p) ==
    /\ Typed' /\ Grows /\ Undisturbed(p)
    /\ \A s \in Sessions : Sound(s)'
    /\ Local(p, app[p])'

LEMMA OthersKeep ==
    ASSUME IInv, NEW p \in Processes, Grows, Undisturbed(p),
           NEW q \in Processes \ {p}
    PROVE  Local(q, app[q])'
<1> DEFINE a == app[q]
<1>1. app'[q] = a /\ Local(q, a)
  BY DEF IInv, Undisturbed
<1>2. a \in App
  BY DEF IInv, Typed
<1>3. ASSUME NEW s \in Sessions, lock[s].id = q
      PROVE  /\ lock'[s].id = q /\ record'[s] = record[s]
             /\ disk'[s] = disk[s] /\ (Alive(s)' => Alive(s))
             /\ Doomed(s) => Doomed(s)'
  BY <1>3 DEF Undisturbed, Grows, Alive, Doomed
<1>4. ASSUME NEW s \in Sessions, lock[s].path = q
      PROVE  lock'[s].path = q /\ (disk[s].dir => disk'[s].dir)
  BY <1>4 DEF Undisturbed
<1>5. InSession(q, a)'
  BY <1>1, <1>2, <1>3, <1>4 DEF Local, InSession, Both, App, Grows
<1>6. SaveWell(a)'
  BY <1>1, <1>2, <1>3 DEF Local, InSession, Both, SaveWell, App, Saving
<1>7. Approach(q, a)'
  BY <1>1, <1>2, <1>3, <1>4 DEF Local, Approach, Undisturbed, App, Both,
     Making, Reading, Locking, Binding, Holding, AfterLock, AfterBind
<1>8. Deleting(q, a)'
  BY <1>1, <1>2, <1>3, <1>4 DEF Local, Deleting, App, Both, Removing, Grows
<1>9. QED
  BY <1>1, <1>5, <1>6, <1>7, <1>8 DEF Local

(* A step that keeps what its process knows keeps the invariant.            *)
LEMMA KeepsAll ==
    ASSUME IInv, NEW p \in Processes, Keeps(p)
    PROVE  IInv'
  BY OthersKeep DEF Keeps, IInv

-----------------------------------------------------------------------------
(* The end of an operation.                                                 *)

(* Dropping a lease touches no lock of another process.                     *)
LEMMA DropsKeep ==
    ASSUME Typed, NEW p \in Processes, NEW s \in Sessions \cup {None}, Drops(p, s)
    PROVE  /\ lock' \in [Sessions -> Lock]
           /\ \A x \in Sessions : x # s => lock'[x] = lock[x]
           /\ \A x \in Sessions, q \in Processes \ {p} :
                  /\ lock[x].id = q => lock'[x].id = q
                  /\ lock[x].path = q => lock'[x].path = q
  BY DEF Typed, Drops, Without, Lock

LEMMA AppMade ==
    ASSUME NEW at \in Steps, NEW then \in Steps, NEW cur \in Sessions \cup {None},
           NEW python \in BOOLEAN, NEW committed \in BOOLEAN,
           NEW tgt \in Sessions \cup {None}, NEW seen \in Lifecycle,
           NEW found \in BOOLEAN
    PROVE  [at |-> at, then |-> then, cur |-> cur, python |-> python,
            committed |-> committed, tgt |-> tgt, seen |-> seen,
            found |-> found] \in App
  BY DEF App

LEMMA StartedType == Started \in App
<1>1. "idle" \in Steps /\ NoRecord \in Lifecycle
  BY DEF Steps, NoRecord, Lifecycle
<1>2. QED
  BY <1>1, AppMade DEF Started

LEMMA OnwardIdle ==
    ASSUME NEW a \in App
    PROVE  /\ Onward(a, "idle") \in App
           /\ Onward(a, "idle").at = "idle" /\ Onward(a, "idle").cur = a.cur
           /\ Onward(a, "idle").python = a.python
           /\ Onward(a, "idle").seen = NoRecord
  BY StartedType DEF Onward, Started, App

LEMMA OnwardStep ==
    ASSUME NEW a \in App, NEW step \in Steps \ {"idle"}
    PROVE  /\ Onward(a, step) \in App
           /\ Onward(a, step) = [a EXCEPT !.at = step]
  BY DEF Onward, App

LEMMA BecomesKeeps ==
    ASSUME Typed, NEW p \in Processes, NEW a \in App, Becomes(p, a)
    PROVE  /\ app' \in [Processes -> App] /\ app'[p] = a
           /\ \A q \in Processes \ {p} : app'[q] = app[q]
  BY DEF Typed, Becomes

(* Between two operations a process only knows the session it is in.        *)
LEMMA IdleLocal ==
    ASSUME NEW p \in Processes, NEW a, Local(p, a), a \in App,
           ~(a.at = "gone" /\ a.tgt = a.cur), Grows,
           a.cur # None => /\ lock'[a.cur] = lock[a.cur]
                           /\ disk'[a.cur] = disk[a.cur]
                           /\ record'[a.cur] = record[a.cur],
           app'[p] = Onward(a, "idle")
    PROVE  Local(p, app[p])'
<1> DEFINE b == Onward(a, "idle")
<1>1. b \in App /\ b.at = "idle" /\ b.cur = a.cur /\ b.python = a.python
      /\ b.seen = NoRecord
  BY OnwardIdle
<1> HIDE DEF b
<1>2. InSession(p, b)'
  BY <1>1 DEF InSession, Local, Alive, Both, Grows, App
<1>3. SaveWell(b)' /\ Approach(p, b)' /\ Deleting(p, b)'
  BY <1>1 DEF SaveWell, Approach, Deleting, NoRecord, Saving, Making,
     Reading, Locking, Binding, Holding, Removing, AfterLock, AfterBind, Tombs
<1>4. QED
  BY <1>2, <1>3 DEF Local, b

LEMMA IdleKnows ==
    ASSUME NEW p \in Processes, app'[p].at = "idle", app'[p].seen = NoRecord,
           InSession(p, app[p])'
    PROVE  Local(p, app[p])'
  BY DEF Local, SaveWell, Approach, Deleting, NoRecord, Tombs, Making, Reading,
     Locking, Binding, Holding, Removing, Saving, AfterLock, AfterBind

(* Leaving is safe whatever was written to the target, if that is sound.    *)
LEMMA LeaveKeeps ==
    ASSUME IInv, NEW p \in Processes, Leave(p), ~At(p, "gone"), Grows,
           record' \in [Sessions -> Lifecycle], history' \in History,
           disk' = disk,
           \A s \in Sessions : Sound(s)',
           \A s \in Sessions : s # Target(p) \/ Target(p) = app[p].cur =>
               record'[s] = record[s],
           record' = record \/ Both(p, Target(p))
    PROVE  Keeps(p)
<1> DEFINE a == app[p]
           s == IF Target(p) = a.cur THEN None ELSE Target(p)
<1>1. a \in App /\ Typed /\ Local(p, a) /\ s \in Sessions \cup {None}
  BY DEF IInv, Typed, App, Target
<1>2. Onward(a, "idle") \in App
  BY <1>1, OnwardIdle
<1>3. /\ app' \in [Processes -> App] /\ app'[p] = Onward(a, "idle")
      /\ \A q \in Processes \ {p} : app'[q] = app[q]
  BY <1>1, <1>2, BecomesKeeps DEF Leave, Go
<1>4. Drops(p, s)
  BY DEF Leave
<1>5. /\ lock' \in [Sessions -> Lock]
      /\ \A x \in Sessions : x # s => lock'[x] = lock[x]
      /\ \A x \in Sessions, q \in Processes \ {p} :
             /\ lock[x].id = q => lock'[x].id = q
             /\ lock[x].path = q => lock'[x].path = q
  BY <1>1, <1>4, DropsKeep
<1>6. Undisturbed(p)
  BY <1>1, <1>3, <1>5 DEF Undisturbed, Both, Alive, Grows, Typed, Target
<1>7. a.cur # None => lock'[a.cur] = lock[a.cur] /\ record'[a.cur] = record[a.cur]
  BY <1>1, <1>5 DEF App, Target
<1>8. Local(p, app[p])'
  BY <1>1, <1>3, <1>7, IdleLocal DEF At, App
<1>9. QED
  BY <1>1, <1>3, <1>5, <1>6, <1>8 DEF Keeps, Typed

LEMMA RefuseKeeps ==
    ASSUME IInv, NEW p \in Processes, Refuse(p), ~At(p, "gone")
    PROVE  Keeps(p)
<1>1. Leave(p) /\ record' = record /\ disk' = disk /\ history' = history
  BY DEF Refuse
<1>2. \A s \in Sessions : Sound(s)'
  BY <1>1 DEF IInv, Sound, Alive, Doomed
<1>3. Grows /\ record' \in [Sessions -> Lifecycle] /\ history' \in History
  BY <1>1 DEF IInv, Typed, Grows
<1>4. QED
  BY <1>1, <1>2, <1>3, LeaveKeeps

LEMMA FaultKeeps ==
    ASSUME Typed, Fault
    PROVE  /\ history' \in History /\ Grows
           /\ history'.asked = history.asked /\ history'.late = history.late
  BY DEF Typed, Fault, History, Grows

LEMMA FailKeeps ==
    ASSUME IInv, NEW p \in Processes, Fail(p)
    PROVE  Keeps(p)
<1>1. Leave(p) /\ record' = record /\ disk' = disk /\ Fault
  BY DEF Fail
<1>2. history' \in History /\ Grows
      /\ history'.asked = history.asked /\ history'.late = history.late
  BY <1>1, FaultKeeps DEF IInv
<1>3. \A s \in Sessions : Sound(s)'
  BY <1>1, <1>2 DEF IInv, Sound, Alive, Doomed
<1>4. QED
  BY <1>1, <1>2, <1>3, LeaveKeeps DEF IInv, Typed, Fail

-----------------------------------------------------------------------------
(* Commands, and steps that only read.                                      *)

LEMMA QuietKeeps ==
    ASSUME IInv, NEW p \in Processes, NEW b \in App, Becomes(p, b),
           UNCHANGED <<record, disk, lock, history>>, Local(p, b)
    PROVE  Keeps(p)
<1>1. Typed
  BY DEF IInv
<1>2. /\ app' \in [Processes -> App] /\ app'[p] = b
      /\ \A q \in Processes \ {p} : app'[q] = app[q]
  BY <1>1, BecomesKeeps
<1>3. Typed' /\ Grows
  BY <1>1, <1>2 DEF Typed, Grows
<1>4. Undisturbed(p)
  BY <1>2, Typed DEF Undisturbed, Alive
<1>5. \A s \in Sessions : Sound(s)'
  BY DEF IInv, Sound, Alive, Doomed
<1>6. Local(p, b)' /\ app'[p] = b
  BY <1>2 DEF Local, InSession, SaveWell, Approach, Deleting, Alive, Both,
     Doomed
<1>7. Local(p, app[p])'
  BY <1>6 DEF Local, InSession, SaveWell, Approach, Deleting, Alive, Both,
     Doomed
<1>8. QED
  BY <1>3, <1>4, <1>5, <1>7 DEF Keeps

(* What is to follow a save suits the process that begins it.               *)
Follows(p, step, s) ==
    \/ step = "new" /\ s = None
    \/ step \in {"resumeRead", "loadLock"} /\ s \in Sessions /\ s # app[p].cur
    \/ step \in {"python", "begin"} /\ s = app[p].cur /\ s # None

LEMMA SaveFirstKeeps ==
    ASSUME IInv, NEW p \in Processes, At(p, "idle"), NEW step,
           NEW s \in Sessions \cup {None}, Follows(p, step, s),
           SaveFirst(p, step, s)
    PROVE  Keeps(p)
<1> DEFINE a == app[p]
           b == [a EXCEPT !.at = IF a.cur = None THEN step ELSE "save",
                          !.then = step, !.tgt = s]
<1>1. a \in App /\ Local(p, a) /\ a.at = "idle"
  BY DEF IInv, Typed, At
<1>2. step \in Steps /\ step \in After /\ "save" \in Steps
  BY DEF Follows, Steps, After, Locking, AfterLock, Reading, Saving
<1>3. b \in App
  BY <1>1, <1>2 DEF App
<1>4. /\ b.at = IF a.cur = None THEN step ELSE "save"
      /\ b.then = step /\ b.tgt = s /\ b.cur = a.cur /\ b.python = a.python
      /\ b.seen = a.seen
  BY <1>1 DEF App
<1> HIDE DEF b
<1>5. InSession(p, b)
  BY <1>1, <1>4, <1>2 DEF Local, InSession, Follows
<1>6. SaveWell(b)
  BY <1>1, <1>2, <1>4 DEF SaveWell, Follows, Saving
<1>7. Approach(p, b) /\ Deleting(p, b)
  BY <1>1, <1>4 DEF Local, Approach, Deleting, Follows, Making, Reading,
     Locking, Binding, Holding, Removing, AfterLock, AfterBind
<1>8. QED
  BY <1>3, <1>5, <1>6, <1>7, QuietKeeps DEF SaveFirst, Local, b

LEMMA CommandKeeps ==
    ASSUME IInv, NEW p \in Processes, Command(p)
    PROVE  Keeps(p)
<1> DEFINE a == app[p]
<1>1. a \in App /\ Local(p, a)
  BY DEF IInv, Typed
<1>2. CASE New(p)
  BY <1>2, SaveFirstKeeps DEF New, Follows
<1>3. CASE Python(p)
  BY <1>1, <1>3, SaveFirstKeeps DEF Python, Follows, App
<1>4. ASSUME NEW s \in Sessions, Resume(p, s)
      PROVE  Keeps(p)
  BY <1>4, SaveFirstKeeps DEF Resume, Follows
<1>5. ASSUME NEW s \in Sessions, Load(p, s)
      PROVE  Keeps(p)
  BY <1>5, SaveFirstKeeps DEF Load, Follows
<1>6. ASSUME NEW s \in Sessions, Delete(p, s)
      PROVE  Keeps(p)
  <2>1. CASE a.cur = s
    BY <1>6, <2>1, SaveFirstKeeps DEF Delete, Follows
  <2>2. CASE a.cur # s
    <3> DEFINE b == [a EXCEPT !.tgt = s,
                       !.at = IF Listed(p, s) = "cleanup" THEN "recoverRead"
                              ELSE "deleteRead"]
    <3>1. /\ Becomes(p, b) /\ UNCHANGED <<record, disk, lock, history>>
          /\ a.at = "idle"
      BY <1>6, <2>2 DEF Delete, At
    <3>2. /\ b.at \in Reading /\ b.at # "resumeRead" /\ b.tgt = s
          /\ b.cur = a.cur /\ b.python = a.python /\ b.seen = a.seen
      BY <1>1 DEF App, Reading
    <3>3. b \in App
      BY ZenonT(60), <1>1 DEF App, Steps, Reading
    <3> HIDE DEF b
    <3>4. Local(p, b)
      BY <1>1, <2>2, <3>1, <3>2 DEF Local, InSession, SaveWell, Approach, Deleting,
         Making, Reading, Locking, Binding, Holding, Removing, Saving,
         AfterLock, AfterBind
    <3>5. QED
      BY <3>1, <3>3, <3>4, QuietKeeps
  <2>3. QED
    BY <1>6, <2>1, <2>2 DEF Delete
<1>7. QED
  BY <1>2, <1>3, <1>4, <1>5, <1>6 DEF Command


LEMMA ResumeReadKeeps ==
    ASSUME IInv, NEW p \in Processes, ResumeRead(p)
    PROVE  Keeps(p)
<1> DEFINE a == app[p]
           s == Target(p)
           b == [a EXCEPT !.at = "resumeLock", !.seen = record[s]]
<1>1. a \in App /\ Local(p, a) /\ a.at = "resumeRead" /\ a.tgt = s
  BY DEF IInv, Typed, ResumeRead, At, Target
<1>2. s \in Sessions
  BY <1>1 DEF Local, Approach, Reading
<1>3. CASE Refuse(p)
  BY <1>1, <1>3, RefuseKeeps DEF At
<1>4. CASE /\ record[s].state \notin Tombs /\ Becomes(p, b)
           /\ UNCHANGED <<record, disk, lock, history>>
  <2>1. record[s] \in Lifecycle /\ "resumeLock" \in Steps
    BY <1>2 DEF IInv, Typed, Steps, Locking, AfterLock
  <2>2. b \in App
    BY <1>1, <2>1 DEF App
  <2>3. /\ b.at = "resumeLock" /\ b.tgt = s /\ b.cur = a.cur
        /\ b.python = a.python /\ b.seen = record[s]
    BY <1>1 DEF App
  <2> HIDE DEF b
  <2>4. Local(p, b)
    BY <1>1, <1>2, <1>4, <2>3 DEF Local, InSession, SaveWell, Approach,
       Deleting, Making, Reading, Locking, Binding, Holding, Removing, Saving,
       AfterLock, AfterBind
  <2>5. QED
    BY <1>4, <2>2, <2>4, QuietKeeps
<1>5. QED
  BY <1>3, <1>4 DEF ResumeRead

(* A session without a state is removed, which nobody has to ask for.       *)
LEMMA ResumeCheckKeeps ==
    ASSUME IInv, NEW p \in Processes, ResumeCheck(p)
    PROVE  Keeps(p)
<1> DEFINE a == app[p]
           s == Target(p)
           step == IF a.seen.state = "Creating" /\ disk[s].saved = None
                   THEN "tombstone" ELSE "adopt"
           b == [a EXCEPT !.at = step]
<1>1. a \in App /\ Local(p, a) /\ a.at = "resumeCheck" /\ a.tgt = s
  BY DEF IInv, Typed, ResumeCheck, At, Target
<1>2. /\ s \in Sessions /\ s # a.cur /\ Both(p, s) /\ disk[s].dir
      /\ a.seen.state \in Tombs => a.seen.bound
  BY <1>1 DEF Local, Approach, Holding
<1>3. step \in Steps \ {"idle"}
  BY DEF Steps, Removing, Holding
<1>4. Becomes(p, b) /\ b \in App /\ UNCHANGED <<record, disk, lock, history>>
  BY <1>1, <1>3, OnwardStep DEF ResumeCheck, Go
<1>5. /\ b.at = step /\ b.tgt = s /\ b.cur = a.cur /\ b.python = a.python
      /\ b.seen = a.seen
  BY <1>1 DEF App
<1>6. step = "tombstone" => /\ disk[s].saved = None /\ ~disk[s].workspace
                            /\ ~Alive(s)
  BY <1>2 DEF IInv, Sound, None
<1>7. step \in {"tombstone", "adopt"}
  OBVIOUS
<1> HIDE DEF b, step
<1>8. InSession(p, b) /\ SaveWell(b)
  BY <1>1, <1>5, <1>7 DEF Local, InSession, SaveWell, Saving
<1>9. Approach(p, b)
  BY <1>2, <1>5, <1>7 DEF Approach, Making, Reading, Locking, Binding,
     Holding, AfterLock, AfterBind
<1>10. Deleting(p, b)
  BY <1>2, <1>5, <1>6, <1>7 DEF Deleting, Removing, Doomed
<1>11. QED
  BY <1>4, <1>8, <1>9, <1>10, QuietKeeps DEF Local

LEMMA DeleteReadKeeps ==
    ASSUME IInv, NEW p \in Processes, DeleteRead(p)
    PROVE  Keeps(p)
<1> DEFINE a == app[p]
           s == Target(p)
           b == IF disk[s].saved = None THEN [a EXCEPT !.at = "recoverRead"]
                ELSE [a EXCEPT !.at = "deleteLock",
                               !.found = (disk[s].saved = "python")]
<1>1. a \in App /\ Local(p, a) /\ a.at = "deleteRead" /\ a.tgt = s
  BY DEF IInv, Typed, DeleteRead, At, Target
<1>2. /\ s \in Sessions /\ s # a.cur /\ Sound(s)
      /\ a.seen.state \in Tombs => a.seen.bound
  BY <1>1 DEF Local, Approach, Reading, IInv
<1>3. "recoverRead" \in Steps /\ "deleteLock" \in Steps
      /\ (disk[s].saved = "python") \in BOOLEAN
  BY DEF Steps, Reading, Locking, AfterLock
<1>4. b \in App
  BY <1>1, <1>3 DEF App
<1>5. /\ b.at \in {"recoverRead", "deleteLock"} /\ b.tgt = s /\ b.cur = a.cur
      /\ b.python = a.python /\ b.seen = a.seen
      /\ b.at = "deleteLock" => (b.found <=> disk[s].saved = "python")
  BY <1>1 DEF App
<1>6. Becomes(p, b) /\ UNCHANGED <<record, disk, lock, history>>
  BY DEF DeleteRead
<1> HIDE DEF b
<1>7. InSession(p, b) /\ SaveWell(b) /\ Deleting(p, b)
  BY <1>1, <1>5 DEF Local, InSession, SaveWell, Deleting, Saving, Removing
<1>8. Approach(p, b)
  BY <1>2, <1>5 DEF Approach, Sound, Making, Reading, Locking, Binding,
     Holding, AfterLock, AfterBind
<1>9. QED
  BY <1>4, <1>6, <1>7, <1>8, QuietKeeps DEF Local

LEMMA RecoverReadKeeps ==
    ASSUME IInv, NEW p \in Processes, RecoverRead(p)
    PROVE  Keeps(p)
<1> DEFINE a == app[p]
           s == Target(p)
           b == [a EXCEPT !.at = "recoverLock", !.seen = record[s]]
<1>1. a \in App /\ Local(p, a) /\ a.at = "recoverRead" /\ a.tgt = s
  BY DEF IInv, Typed, RecoverRead, At, Target
<1>2. s \in Sessions /\ s # a.cur /\ Sound(s)
  BY <1>1 DEF Local, Approach, Reading, IInv
<1>3. CASE Refuse(p)
  BY <1>1, <1>3, RefuseKeeps DEF At
<1>4. CASE Becomes(p, b) /\ UNCHANGED <<record, disk, lock, history>>
  <2>1. record[s] \in Lifecycle /\ "recoverLock" \in Steps
    BY <1>2 DEF IInv, Typed, Steps, Locking, AfterLock
  <2>2. b \in App
    BY <1>1, <2>1 DEF App
  <2>3. /\ b.at = "recoverLock" /\ b.tgt = s /\ b.cur = a.cur
        /\ b.python = a.python /\ b.seen = record[s]
    BY <1>1 DEF App
  <2> HIDE DEF b
  <2>4. InSession(p, b) /\ SaveWell(b) /\ Deleting(p, b)
    BY <1>1, <2>3 DEF Local, InSession, SaveWell, Deleting, Saving, Removing
  <2>5. Approach(p, b)
    BY <1>2, <2>3 DEF Approach, Sound, Making, Reading, Locking, Binding,
       Holding, AfterLock, AfterBind
  <2>6. QED
    BY <1>4, <2>2, <2>4, <2>5, QuietKeeps DEF Local
<1>5. QED
  BY <1>3, <1>4 DEF RecoverRead

-----------------------------------------------------------------------------
(* Steps that write.                                                        *)

(* Nobody else is disturbed when a process writes to a session of which no  *)
(* other process holds the identity, does not take the directory away from  *)
(* under another's lock, and brings no runtime to life.                     *)
LEMMA WriteUndisturbed ==
    ASSUME IInv, NEW p \in Processes, NEW s \in Sessions, Grows,
           \A q \in Processes \ {p} :
               /\ app'[q] = app[q]
               /\ \A x \in Sessions : /\ lock[x].id = q => lock'[x].id = q
                                      /\ lock[x].path = q => lock'[x].path = q,
           \A x \in Sessions \ {s} : record'[x] = record[x] /\ disk'[x] = disk[x],
           lock[s].id \in {p, Free},
           disk[s].dir => lock[s].path = p \/ disk'[s].dir,
           Alive(s)' => Alive(s)
    PROVE  Undisturbed(p)
<1> SUFFICES ASSUME NEW q \in Processes \ {p}
             PROVE  /\ app'[q] = app[q]
                    /\ \A x \in Sessions :
                           /\ lock[x].id = q => /\ lock'[x].id = q
                                                /\ record'[x] = record[x]
                                                /\ disk'[x] = disk[x]
                           /\ lock[x].path = q => /\ lock'[x].path = q
                                                  /\ disk[x].dir => disk'[x].dir
                    /\ app[q].at \in {"deleteLock", "deleteBind"} /\ ~app[q].found =>
                           (Alive(app[q].tgt)' => Alive(app[q].tgt))
  BY DEF Undisturbed
<1>1. app'[q] = app[q]
  OBVIOUS
<1>2. ASSUME NEW x \in Sessions
      PROVE  /\ lock[x].id = q => /\ lock'[x].id = q
                                  /\ record'[x] = record[x]
                                  /\ disk'[x] = disk[x]
             /\ lock[x].path = q => /\ lock'[x].path = q
                                    /\ disk[x].dir => disk'[x].dir
  OBVIOUS
<1>3. ASSUME NEW x \in Sessions, disk'[x].runtime /\ x \notin history'.late
      PROVE  Alive(x)
  BY <1>3 DEF Alive, Grows
<1>4. ASSUME app[q].at \in {"deleteLock", "deleteBind"}
      PROVE  app[q].tgt \in Sessions
  BY <1>4 DEF IInv, Local, Approach, Locking, Binding, AfterLock, AfterBind
<1>5. app[q].at \in {"deleteLock", "deleteBind"} /\ ~app[q].found =>
          (Alive(app[q].tgt)' => Alive(app[q].tgt))
  BY <1>1, <1>3, <1>4 DEF Alive
<1>6. QED
  BY <1>1, <1>2, <1>5

LEMMA SaveStateKeeps ==
    ASSUME IInv, NEW p \in Processes, SaveState(p)
    PROVE  Keeps(p)
<1> DEFINE a == app[p]
           c == a.cur
           step == IF a.committed THEN a.then ELSE "commit"
           b == Onward(a, step)
<1>1. a \in App /\ Local(p, a) /\ a.at = "save" /\ Typed
  BY DEF IInv, Typed, SaveState, At
<1>2. c \in Sessions /\ Both(p, c) /\ disk[c].dir /\ (Alive(c) => a.python)
      /\ (record[c].state \in Tombs => c \in history.asked) /\ Sound(c)
  BY <1>1 DEF Local, InSession, SaveWell, Saving, App, IInv
<1>3. step \in Steps /\ step \in {a.then, "commit"} /\ a.then \in After
  BY <1>1 DEF Steps, Saving, App, Local, SaveWell
<1>4. b \in App /\ (step # "idle" => b = [a EXCEPT !.at = step])
  BY <1>1, <1>3, OnwardIdle, OnwardStep
<1>5. /\ app' \in [Processes -> App] /\ app'[p] = b
      /\ \A q \in Processes \ {p} : app'[q] = app[q]
  BY <1>1, <1>4, BecomesKeeps DEF SaveState, Go
<1>6. /\ disk' \in [Sessions -> Disk]
      /\ \A x \in Sessions \ {c} : disk'[x] = disk[x]
      /\ disk'[c] = [disk[c] EXCEPT !.saved = IF a.python THEN "python" ELSE "bare"]
  BY <1>1, <1>2 DEF SaveState, Typed, Disk
<1>7. record' = record /\ lock' = lock /\ history' = history
  BY DEF SaveState
<1>8. Typed' /\ Grows
  BY <1>1, <1>5, <1>6, <1>7 DEF Typed, Grows
<1>9. /\ disk'[c].dir /\ disk'[c].saved = IF a.python THEN "python" ELSE "bare"
      /\ disk'[c].runtime = disk[c].runtime /\ disk'[c].saved # None
  BY <1>1, <1>2, <1>6 DEF Typed, Disk, None
<1>10. Undisturbed(p)
  BY ZenonT(60), <1>2, <1>5, <1>6, <1>7, <1>8, <1>9, WriteUndisturbed DEF Both, Alive
<1>11. ASSUME NEW s \in Sessions
       PROVE  Sound(s)'
  <2>1. CASE s = c
    BY <1>2, <1>7, <1>9, <2>1 DEF Sound, Alive, Doomed
  <2>2. CASE s # c
    BY <1>6, <1>7, <2>2 DEF IInv, Sound, Alive, Doomed
  <2>3. QED
    BY <2>1, <2>2
<1>12. app'[p].cur = c /\ app'[p].python = a.python
  BY <1>1, <1>4, <1>5, OnwardIdle DEF App
<1>13. InSession(p, app[p])'
  BY <1>2, <1>7, <1>9, <1>12 DEF InSession, Both, Alive
<1>14. Local(p, app[p])'
  <2>1. CASE step = "idle"
    BY <1>1, <1>5, <1>13, <2>1, OnwardIdle, IdleKnows
  <2>2. CASE step # "idle"
    <3>1. /\ app'[p].at = step /\ app'[p].tgt = a.tgt /\ app'[p].then = a.then
          /\ app'[p].seen = a.seen
      BY <1>1, <1>4, <1>5, <2>2 DEF App
    <3> HIDE DEF step
    <3>2. SaveWell(app[p])'
      BY <1>1, <1>2, <1>3, <1>9, <1>12, <2>2, <3>1 DEF Local, SaveWell, Saving,
         After
    <3>3. Approach(p, app[p])'
      BY <1>1, <1>3, <1>12, <2>2, <3>1 DEF Local, Approach, SaveWell, After,
         Making, Reading, Locking, Binding, Holding, Saving, AfterLock, AfterBind
    <3>4. Deleting(p, app[p])'
      BY <1>1, <1>2, <1>3, <1>7, <1>9, <1>12, <2>2, <3>1 DEF Local, Deleting,
         SaveWell, After, Removing, Saving, Both
    <3>5. QED
      BY <1>13, <3>2, <3>3, <3>4 DEF Local
  <2>3. QED
    BY <2>1, <2>2
<1>15. QED
  BY <1>8, <1>10, <1>11, <1>14 DEF Keeps


LEMMA CommitSavedKeeps ==
    ASSUME IInv, NEW p \in Processes, CommitSaved(p)
    PROVE  Keeps(p)
<1> DEFINE a == app[p]
           c == a.cur
           step == a.then
           m == [a EXCEPT !.committed = TRUE]
           b == Onward(m, step)
<1>1. a \in App /\ Local(p, a) /\ a.at = "commit" /\ Typed
  BY DEF IInv, Typed, CommitSaved, At
<1>2. c \in Sessions /\ Both(p, c) /\ disk[c].dir /\ (Alive(c) => a.python)
      /\ Sound(c) /\ disk[c].saved # None
      /\ (a.python => disk[c].saved = "python")
  BY <1>1 DEF Local, InSession, SaveWell, Saving, App, IInv
<1>3. CASE Refuse(p)
  BY <1>1, <1>3, RefuseKeeps DEF At
<1>4. CASE Commits(c) /\ Becomes(p, b) /\ UNCHANGED <<disk, lock, history>>
  <2>1. m \in App /\ m.cur = c /\ m.python = a.python /\ m.tgt = a.tgt
        /\ m.then = a.then /\ m.seen = a.seen /\ a.then \in After
        /\ step \in Steps
    BY <1>1 DEF App, Local, SaveWell, Saving
  <2> HIDE DEF m
  <2>2. b \in App /\ (step # "idle" => b = [m EXCEPT !.at = step])
    BY <2>1, OnwardIdle, OnwardStep
  <2>3. /\ app' \in [Processes -> App] /\ app'[p] = b
        /\ \A q \in Processes \ {p} : app'[q] = app[q]
    BY <1>1, <1>4, <2>2, BecomesKeeps
  <2>4. /\ record' \in [Sessions -> Lifecycle]
        /\ \A x \in Sessions \ {c} : record'[x] = record[x]
        /\ record'[c].state = "Active"
    BY <1>1, <1>2, <1>4 DEF Commits, Typed, Lifecycle
  <2>5. disk' = disk /\ lock' = lock /\ history' = history
    BY <1>4
  <2>6. Typed' /\ Grows
    BY <1>1, <2>3, <2>4, <2>5 DEF Typed, Grows
  <2>7. Undisturbed(p)
    BY <1>2, <2>3, <2>4, <2>5, <2>6, WriteUndisturbed DEF Both, Alive
  <2>8. \A s \in Sessions : Sound(s)'
    BY <1>2, <2>4, <2>5 DEF IInv, Sound, Alive, Doomed, Tombs
  <2>9. app'[p].cur = c /\ app'[p].python = a.python
    BY <2>1, <2>2, <2>3, OnwardIdle DEF App
  <2>10. InSession(p, app[p])'
    BY <1>2, <2>4, <2>5, <2>9 DEF InSession, Both, Alive, Tombs
  <2>11. Local(p, app[p])'
    <3>1. CASE step = "idle"
      BY <2>1, <2>3, <2>10, <3>1, OnwardIdle, IdleKnows
    <3>2. CASE step # "idle"
      <4>1. /\ app'[p].at = step /\ app'[p].tgt = a.tgt /\ app'[p].then = a.then
            /\ app'[p].seen = a.seen
        BY <2>1, <2>2, <2>3, <3>2 DEF App
      <4>2. SaveWell(app[p])'
        BY <1>1, <1>2, <2>1, <2>5, <2>9, <3>2, <4>1 DEF Local, SaveWell, Saving,
           After
      <4>3. Approach(p, app[p])'
        BY <1>1, <2>1, <2>9, <3>2, <4>1 DEF Local, Approach, SaveWell, After,
           Making, Reading, Locking, Binding, Holding, Saving, AfterLock, AfterBind
      <4>4. Deleting(p, app[p])'
        BY <1>1, <1>2, <2>1, <2>5, <2>9, <3>2, <4>1 DEF Local, Deleting,
           SaveWell, After, Removing, Saving, Both
      <4>5. QED
        BY <2>10, <4>2, <4>3, <4>4 DEF Local
    <3>3. QED
      BY <3>1, <3>2
  <2>12. QED
    BY <2>6, <2>7, <2>8, <2>11 DEF Keeps
<1>5. QED
  BY <1>3, <1>4 DEF CommitSaved

(* A step of a creation writes to a session that is only being created.     *)
LEMMA NewRecordKeeps ==
    ASSUME IInv, NEW p \in Processes, NewRecord(p)
    PROVE  Keeps(p)
<1> DEFINE a == app[p]
<1>1. a \in App /\ Local(p, a) /\ a.at = "new" /\ Typed
  BY DEF IInv, Typed, NewRecord, At
<1>2. CASE Refuse(p)
  BY <1>1, <1>2, RefuseKeeps DEF At
<1>3. ASSUME NEW s \in Sessions, Fresh(s), lock[s].id = Free,
             lock' = [lock EXCEPT ![s].id = p],
             record' = [record EXCEPT ![s].state = "Creating"],
             Becomes(p, [a EXCEPT !.at = "mkdir", !.tgt = s]),
             UNCHANGED <<disk, history>>
      PROVE  Keeps(p)
  <2> DEFINE b == [a EXCEPT !.at = "mkdir", !.tgt = s]
  <2>1. b \in App
    BY <1>1 DEF App, Steps, Making
  <2>2. /\ app' \in [Processes -> App] /\ app'[p] = b
        /\ \A q \in Processes \ {p} : app'[q] = app[q]
    BY <1>1, <1>3, <2>1, BecomesKeeps
  <2>3. /\ record' \in [Sessions -> Lifecycle]
        /\ \A x \in Sessions \ {s} : record'[x] = record[x]
        /\ record'[s].state = "Creating"
    BY <1>1, <1>3 DEF Typed, Lifecycle
  <2>4. /\ lock' \in [Sessions -> Lock]
        /\ \A x \in Sessions \ {s} : lock'[x] = lock[x]
        /\ lock'[s].id = p /\ lock'[s].path = lock[s].path
    BY <1>1, <1>3 DEF Typed, Lock
  <2>5. Typed' /\ Grows
    BY <1>1, <1>3, <2>2, <2>3, <2>4 DEF Typed, Grows
  <2>6. /\ \A q \in Processes \ {p} :
               /\ app'[q] = app[q]
               /\ \A x \in Sessions : /\ lock[x].id = q => lock'[x].id = q
                                      /\ lock[x].path = q => lock'[x].path = q
    BY <1>3, <2>2, <2>4
  <2>7. Undisturbed(p)
    BY <1>3, <2>3, <2>5, <2>6, WriteUndisturbed DEF Alive
  <2>8. \A x \in Sessions : Sound(x)'
    BY <1>3, <2>3 DEF IInv, Sound, Alive, Doomed, Tombs
  <2>9. disk[s].saved = None /\ a.cur # s
    BY <1>1, <1>3 DEF Fresh, IInv, Sound, Local, InSession, Both
  <2>10. /\ app'[p].at = "mkdir" /\ app'[p].tgt = s /\ app'[p].cur = a.cur
         /\ app'[p].python = a.python /\ app'[p].seen = a.seen
    BY <1>1, <2>2 DEF App
  <2>11. InSession(p, app[p])'
    BY <1>1, <1>3, <2>3, <2>4, <2>9, <2>10 DEF Local, InSession, Both, Alive, App
  <2>12. Approach(p, app[p])'
    BY <1>1, <1>3, <2>3, <2>4, <2>9, <2>10 DEF Local, Approach, Making, Reading,
       Locking, Binding, Holding, AfterLock, AfterBind
  <2>13. SaveWell(app[p])' /\ Deleting(p, app[p])'
    BY <2>10 DEF SaveWell, Deleting, Saving, Removing
  <2>14. QED
    BY <2>5, <2>7, <2>8, <2>11, <2>12, <2>13 DEF Keeps, Local
<1>4. QED
  BY <1>2, <1>3 DEF NewRecord


LEMMA GoKeeps ==
    ASSUME Typed, NEW p \in Processes, NEW step \in Steps \ {"idle"}, Go(p, step)
    PROVE  /\ app' \in [Processes -> App]
           /\ \A q \in Processes \ {p} : app'[q] = app[q]
           /\ app'[p].at = step /\ app'[p].cur = app[p].cur
           /\ app'[p].tgt = app[p].tgt /\ app'[p].python = app[p].python
           /\ app'[p].found = app[p].found /\ app'[p].seen = app[p].seen
<1>1. app[p] \in App
  BY DEF Typed
<1>2. Onward(app[p], step) = [app[p] EXCEPT !.at = step]
      /\ Onward(app[p], step) \in App
  BY <1>1, OnwardStep
<1>3. /\ app' \in [Processes -> App] /\ app'[p] = [app[p] EXCEPT !.at = step]
      /\ \A q \in Processes \ {p} : app'[q] = app[q]
  BY <1>2, BecomesKeeps DEF Go
<1>4. QED
  BY <1>1, <1>3 DEF App

LEMMA MakeDirectoryKeeps ==
    ASSUME IInv, NEW p \in Processes, MakeDirectory(p)
    PROVE  Keeps(p)
<1> DEFINE a == app[p]
           s == a.tgt
<1>1. a \in App /\ Local(p, a) /\ a.at = "mkdir" /\ Typed
  BY DEF IInv, Typed, MakeDirectory, At
<1>2. /\ s \in Sessions /\ s # a.cur /\ lock[s].id = p /\ Sound(s)
      /\ record[s].state = "Creating" /\ disk[s].saved = None
  BY <1>1 DEF Local, Approach, Making, IInv
<1>3. /\ app' \in [Processes -> App]
      /\ \A q \in Processes \ {p} : app'[q] = app[q]
      /\ app'[p].at = "newLock" /\ app'[p].cur = a.cur /\ app'[p].tgt = s
      /\ app'[p].python = a.python /\ app'[p].seen = a.seen
  BY <1>1, GoKeeps DEF MakeDirectory, Steps, Making
<1>4. /\ disk' \in [Sessions -> Disk]
      /\ \A x \in Sessions \ {s} : disk'[x] = disk[x]
      /\ disk'[s].dir /\ disk'[s].saved = None
      /\ disk'[s].workspace = disk[s].workspace
      /\ disk'[s].runtime = disk[s].runtime
  BY ZenonT(60), <1>1, <1>2 DEF MakeDirectory, Typed, Disk, Target
<1>5. record' = record /\ lock' = lock /\ history' = history
  BY DEF MakeDirectory
<1>6. Typed' /\ Grows
  BY <1>1, <1>3, <1>4, <1>5 DEF Typed, Grows
<1>7. Undisturbed(p)
  BY <1>2, <1>3, <1>4, <1>5, <1>6, WriteUndisturbed DEF Alive
<1>8. \A x \in Sessions : Sound(x)'
  BY <1>2, <1>4, <1>5 DEF IInv, Sound, Alive, Doomed, Tombs
<1>9. InSession(p, app[p])'
  BY <1>1, <1>2, <1>3, <1>4, <1>5 DEF Local, InSession, Both, Alive, App
<1>10. Approach(p, app[p])'
  BY <1>1, <1>2, <1>3, <1>4, <1>5 DEF Local, Approach, Making, Reading,
     Locking, Binding, Holding, AfterLock, AfterBind
<1>11. SaveWell(app[p])' /\ Deleting(p, app[p])'
  BY <1>3 DEF SaveWell, Deleting, Saving, Removing
<1>12. QED
  BY <1>6, <1>7, <1>8, <1>9, <1>10, <1>11 DEF Keeps, Local

LEMMA NewIdentityKeeps ==
    ASSUME IInv, NEW p \in Processes, NewIdentity(p)
    PROVE  Keeps(p)
<1> DEFINE a == app[p]
           s == a.tgt
<1>1. a \in App /\ Local(p, a) /\ a.at = "newBind" /\ Typed
  BY DEF IInv, Typed, NewIdentity, At
<1>2. /\ s \in Sessions /\ s # a.cur /\ Both(p, s) /\ Sound(s) /\ disk[s].dir
      /\ record[s].state = "Creating" /\ disk[s].saved = None
  BY <1>1 DEF Local, Approach, Making, IInv, Both
<1>3. /\ app' \in [Processes -> App]
      /\ \A q \in Processes \ {p} : app'[q] = app[q]
      /\ app'[p].at = "newBound" /\ app'[p].cur = a.cur /\ app'[p].tgt = s
      /\ app'[p].python = a.python /\ app'[p].seen = a.seen
  BY <1>1, GoKeeps DEF NewIdentity, Steps, Making
<1>4. /\ disk' \in [Sessions -> Disk]
      /\ \A x \in Sessions \ {s} : disk'[x] = disk[x]
      /\ disk'[s].dir /\ disk'[s].saved = None
      /\ disk'[s].workspace = disk[s].workspace
      /\ disk'[s].runtime = disk[s].runtime
  BY ZenonT(60), <1>1, <1>2 DEF NewIdentity, Typed, Disk, Target
<1>5. record' = record /\ lock' = lock /\ history' = history
  BY DEF NewIdentity
<1>6. Typed' /\ Grows
  BY <1>1, <1>3, <1>4, <1>5 DEF Typed, Grows
<1>7. Undisturbed(p)
  BY <1>2, <1>3, <1>4, <1>5, <1>6, WriteUndisturbed DEF Alive, Both
<1>8. \A x \in Sessions : Sound(x)'
  BY <1>2, <1>4, <1>5 DEF IInv, Sound, Alive, Doomed, Tombs
<1>9. InSession(p, app[p])'
  BY <1>1, <1>2, <1>3, <1>4, <1>5 DEF Local, InSession, Both, Alive, App
<1>10. Approach(p, app[p])'
  BY <1>1, <1>2, <1>3, <1>4, <1>5 DEF Local, Approach, Making, Reading, Both,
     Locking, Binding, Holding, AfterLock, AfterBind
<1>11. SaveWell(app[p])' /\ Deleting(p, app[p])'
  BY <1>3 DEF SaveWell, Deleting, Saving, Removing
<1>12. QED
  BY <1>6, <1>7, <1>8, <1>9, <1>10, <1>11 DEF Keeps, Local

(* The process moves into the session it has created, and out of the other. *)
LEMMA NewBoundKeeps ==
    ASSUME IInv, NEW p \in Processes, NewBound(p)
    PROVE  Keeps(p)
<1> DEFINE a == app[p]
           s == a.tgt
           b == [Started EXCEPT !.at = "save", !.cur = s, !.tgt = s]
<1>1. a \in App /\ Local(p, a) /\ a.at = "newBound" /\ Typed
  BY DEF IInv, Typed, NewBound, At
<1>2. /\ s \in Sessions /\ s # a.cur /\ Both(p, s) /\ Sound(s) /\ disk[s].dir
      /\ record[s].state = "Creating" /\ disk[s].saved = None
  BY <1>1 DEF Local, Approach, Making, IInv, Both
<1>3. b \in App
  BY <1>2, StartedType DEF App, Steps, Saving
<1>4. /\ b.at = "save" /\ b.then = "idle" /\ b.cur = s /\ b.tgt = s
      /\ b.seen = NoRecord
  BY DEF Started
<1>5. Becomes(p, b)
  BY DEF NewBound, Target
<1> HIDE DEF b
<1>6. /\ app' \in [Processes -> App] /\ app'[p] = b
      /\ \A q \in Processes \ {p} : app'[q] = app[q]
  BY <1>1, <1>3, <1>5, BecomesKeeps
<1>7. /\ record' \in [Sessions -> Lifecycle]
      /\ \A x \in Sessions \ {s} : record'[x] = record[x]
      /\ record'[s].state = "Creating"
  BY <1>1, <1>2 DEF NewBound, Typed, Lifecycle, Target
<1>8. /\ lock' \in [Sessions -> Lock]
      /\ \A x \in Sessions : x # a.cur => lock'[x] = lock[x]
      /\ \A x \in Sessions, q \in Processes \ {p} :
             /\ lock[x].id = q => lock'[x].id = q
             /\ lock[x].path = q => lock'[x].path = q
  BY <1>1, DropsKeep DEF NewBound, App
<1>9. disk' = disk /\ history' = history
  BY DEF NewBound
<1>10. Typed' /\ Grows
  BY <1>1, <1>6, <1>7, <1>8, <1>9 DEF Typed, Grows
<1>11. Undisturbed(p)
  BY <1>2, <1>6, <1>7, <1>8, <1>9, <1>10, WriteUndisturbed DEF Alive, Both
<1>12. \A x \in Sessions : Sound(x)'
  BY <1>2, <1>7, <1>9 DEF IInv, Sound, Alive, Doomed, Tombs
<1>13. ~Alive(s)
  BY <1>2 DEF Sound, None
<1>14. InSession(p, app[p])'
  BY <1>2, <1>4, <1>6, <1>7, <1>8, <1>9, <1>13 DEF InSession, Both, Alive, Tombs
<1>15. Approach(p, app[p])' /\ SaveWell(app[p])' /\ Deleting(p, app[p])'
  BY <1>2, <1>4, <1>6 DEF Approach, SaveWell, Deleting, NoRecord, Tombs, After,
     Making, Reading, Locking, Binding, Holding, Saving, Removing, AfterLock,
     AfterBind
<1>16. QED
  BY <1>10, <1>11, <1>12, <1>14, <1>15 DEF Keeps, Local

-----------------------------------------------------------------------------
(* The two locks of a session.                                              *)

LEMMA LockPathKeeps ==
    ASSUME IInv, NEW p \in Processes, LockPath(p)
    PROVE  Keeps(p)
<1> DEFINE a == app[p]
           s == a.tgt
           step == AfterLock[a.at]
<1>1. a \in App /\ Local(p, a) /\ a.at \in Locking /\ Typed
  BY DEF IInv, Typed, LockPath, Locking
<1>2. s \in Sessions /\ s # a.cur
  BY <1>1 DEF Local, Approach
<1>3. CASE Refuse(p)
  BY <1>1, <1>3, RefuseKeeps DEF At, Locking, AfterLock
<1>4. CASE /\ disk[s].dir /\ lock[s].path = Free
           /\ lock' = [lock EXCEPT ![s].path = p]
           /\ Go(p, step) /\ UNCHANGED <<record, disk, history>>
  <2>1. \/ step = "newBind" /\ a.at = "newLock"
        \/ step \in Binding /\ (step = "deleteBind" => a.at = "deleteLock")
    BY <1>1 DEF Locking, AfterLock, Binding, AfterBind
  <2>2. step \in Steps \ {"idle"}
    BY <2>1 DEF Steps, Making, Binding, AfterBind
  <2> HIDE DEF step
  <2>3. /\ app' \in [Processes -> App]
        /\ \A q \in Processes \ {p} : app'[q] = app[q]
        /\ app'[p].at = step /\ app'[p].cur = a.cur /\ app'[p].tgt = s
        /\ app'[p].python = a.python /\ app'[p].seen = a.seen
        /\ app'[p].found = a.found
    BY <1>1, <1>4, <2>2, GoKeeps
  <2>4. /\ lock' \in [Sessions -> Lock]
        /\ \A x \in Sessions \ {s} : lock'[x] = lock[x]
        /\ lock'[s].path = p /\ lock'[s].id = lock[s].id
    BY <1>1, <1>2, <1>4 DEF Typed, Lock
  <2>5. Typed' /\ Grows
    BY <1>1, <1>4, <2>3, <2>4 DEF Typed, Grows
  <2>6. Undisturbed(p)
    BY <1>2, <1>4, <2>3, <2>4 DEF Undisturbed, Alive
  <2>7. \A x \in Sessions : Sound(x)'
    BY <1>4 DEF IInv, Sound, Alive, Doomed
  <2>8. InSession(p, app[p])'
    BY <1>1, <1>2, <1>4, <2>3, <2>4 DEF Local, InSession, Both, Alive, App,
       Locking, AfterLock
  <2>9. Approach(p, app[p])'
    BY <1>1, <1>2, <1>4, <2>1, <2>3, <2>4 DEF Local, Approach, Making, Reading,
       Locking, Binding, Holding, AfterLock, AfterBind, Alive
  <2>10. SaveWell(app[p])' /\ Deleting(p, app[p])'
    BY <2>1, <2>3 DEF SaveWell, Deleting, Saving, Removing, Binding, AfterBind
  <2>11. QED
    BY <2>5, <2>6, <2>7, <2>8, <2>9, <2>10 DEF Keeps, Local
<1>5. QED
  BY <1>3, <1>4 DEF LockPath, Target

LEMMA BindIdentityKeeps ==
    ASSUME IInv, NEW p \in Processes, BindIdentity(p)
    PROVE  Keeps(p)
<1> DEFINE a == app[p]
           s == a.tgt
           step == AfterBind[a.at]
<1>1. a \in App /\ Local(p, a) /\ a.at \in Binding /\ Typed
  BY DEF IInv, Typed, BindIdentity, Binding
<1>2. s \in Sessions /\ s # a.cur /\ lock[s].path = p /\ disk[s].dir
  BY <1>1 DEF Local, Approach
<1>3. CASE Refuse(p)
  BY <1>1, <1>3, RefuseKeeps DEF At, Binding, AfterBind
<1>4. CASE /\ Bindable(a.at, s)
           /\ lock' = [lock EXCEPT ![s].id = p]
           /\ disk' = [disk EXCEPT ![s].registered = TRUE]
           /\ Go(p, step) /\ UNCHANGED <<record, history>>
  <2>1. \/ step \in Holding
        \/ step = "begin" /\ (a.found \/ ~Alive(s))
    BY <1>1 DEF Binding, AfterBind, Holding, Local, Approach
  <2>2. step \in Steps \ {"idle"}
    BY <2>1 DEF Steps, Holding
  <2> HIDE DEF step
  <2>3. /\ app' \in [Processes -> App]
        /\ \A q \in Processes \ {p} : app'[q] = app[q]
        /\ app'[p].at = step /\ app'[p].cur = a.cur /\ app'[p].tgt = s
        /\ app'[p].python = a.python /\ app'[p].seen = a.seen
        /\ app'[p].found = a.found
    BY <1>1, <1>4, <2>2, GoKeeps
  <2>4. /\ lock' \in [Sessions -> Lock]
        /\ \A x \in Sessions \ {s} : lock'[x] = lock[x]
        /\ lock'[s].path = p /\ lock'[s].id = p
    BY <1>1, <1>2, <1>4 DEF Typed, Lock
  <2>5. /\ disk' \in [Sessions -> Disk]
        /\ \A x \in Sessions \ {s} : disk'[x] = disk[x]
        /\ disk'[s].dir = disk[s].dir /\ disk'[s].saved = disk[s].saved
        /\ disk'[s].workspace = disk[s].workspace
        /\ disk'[s].runtime = disk[s].runtime
    BY <1>1, <1>2, <1>4 DEF Typed, Disk
  <2>6. Typed' /\ Grows
    BY <1>1, <1>4, <2>3, <2>4, <2>5 DEF Typed, Grows
  <2>7. lock[s].id = Free
    BY <1>4 DEF Bindable
  <2>8. \A q \in Processes \ {p} :
            /\ app'[q] = app[q]
            /\ \A x \in Sessions : /\ lock[x].id = q => lock'[x].id = q
                                   /\ lock[x].path = q => lock'[x].path = q
    BY <1>2, <2>3, <2>4, <2>7
  <2>9. Undisturbed(p)
    BY <1>2, <1>4, <2>5, <2>6, <2>7, <2>8, WriteUndisturbed DEF Alive
  <2>10. \A x \in Sessions : Sound(x)'
    BY <1>4, <2>5 DEF IInv, Sound, Alive, Doomed
  <2>11. InSession(p, app[p])'
    BY <1>1, <1>2, <1>4, <2>3, <2>4, <2>5 DEF Local, InSession, Both, Alive, App,
       Binding, AfterBind
  <2>12. Approach(p, app[p])'
    BY <1>1, <1>2, <2>1, <2>3, <2>4, <2>5 DEF Local, Approach, Making, Reading,
       Locking, Binding, Holding, AfterLock, AfterBind, Both
  <2>13. SaveWell(app[p])' /\ Deleting(p, app[p])'
    BY <1>2, <1>4, <2>1, <2>3, <2>4, <2>5 DEF SaveWell, Deleting, Saving, Removing,
       Holding, Both, Alive
  <2>14. QED
    BY <2>6, <2>9, <2>10, <2>11, <2>12, <2>13 DEF Keeps, Local
<1>5. QED
  BY <1>3, <1>4 DEF BindIdentity, Target

-----------------------------------------------------------------------------
(* The steps of a deletion.                                                 *)

LEMMA RemovalKeeps ==
    ASSUME IInv, NEW p \in Processes, NEW s \in Sessions,
           app[p].tgt = s, app[p].at \in Removing \cup {"begin"},
           app' \in [Processes -> App],
           \A q \in Processes \ {p} : app'[q] = app[q],
           app'[p].at \in Removing, app'[p].tgt = s, app'[p].cur = app[p].cur,
           app'[p].python = app[p].python, app'[p].seen = app[p].seen,
           record' \in [Sessions -> Lifecycle], disk' \in [Sessions -> Disk],
           \A x \in Sessions \ {s} : record'[x] = record[x] /\ disk'[x] = disk[x],
           lock' = lock, history' \in History, Grows,
           Alive(s)' => Alive(s), Sound(s)', Deleting(p, app[p])'
    PROVE  Keeps(p)
<1> DEFINE a == app[p]
<1>1. a \in App /\ Local(p, a) /\ Typed
  BY DEF IInv, Typed
<1>2. Both(p, s)
  BY <1>1 DEF Local, Deleting
<1>3. Typed'
  BY <1>1 DEF Typed
<1>4. Undisturbed(p)
  BY <1>2, WriteUndisturbed DEF Both
<1>5. \A x \in Sessions : Sound(x)'
  BY DEF IInv, Sound, Alive, Doomed, Grows
<1>6. ~(a.at = "gone" /\ a.tgt = a.cur) \/ a.cur # s \/ app'[p].at = "gone"
      \/ disk'[s].dir
  BY DEF Deleting
<1>7. InSession(p, app[p])'
  <2>1. CASE a.cur = s
    BY <1>1, <1>2, <2>1 DEF Local, InSession, Both, Deleting
  <2>2. CASE a.cur # s
    BY <1>1, <2>2 DEF Local, InSession, Both, Alive, App, Grows
  <2>3. QED
    BY <2>1, <2>2
<1>8. Approach(p, app[p])' /\ SaveWell(app[p])'
  BY <1>1 DEF Local, Approach, SaveWell, Making, Reading, Locking, Binding,
     Holding, Saving, Removing, AfterLock, AfterBind
<1>9. QED
  BY <1>3, <1>4, <1>5, <1>7, <1>8 DEF Keeps, Local

LEMMA BeginKeeps ==
    ASSUME IInv, NEW p \in Processes, Begin(p), NEW s, s = app[p].tgt
    PROVE  Keeps(p)
<1> DEFINE a == app[p]
           names == IF a.cur = s THEN a.python ELSE a.found
           b == [a EXCEPT !.at = "runtime", !.found = names]
<1>1. a \in App /\ a.tgt = s /\ Local(p, a) /\ a.at = "begin" /\ Typed
  BY DEF IInv, Typed, Begin, At
<1>2. /\ s \in Sessions /\ Both(p, s) /\ Sound(s) /\ disk[s].dir
      /\ names \in BOOLEAN /\ (names \/ ~Alive(s))
  BY <1>1 DEF Local, Deleting, InSession, IInv, App, None
<1>3. CASE Refuse(p)
  BY <1>1, <1>3, RefuseKeeps DEF At
<1>4. CASE /\ record' = [record EXCEPT ![s] =
                   [state |-> "Deleting", bound |-> TRUE, python |-> names]]
           /\ Becomes(p, b)
           /\ history' = [history EXCEPT !.asked = @ \cup {s}]
           /\ UNCHANGED <<disk, lock>>
  <2>1. b \in App
    BY ZenonT(60), <1>1, <1>2 DEF App, Steps, Removing
  <2>2. /\ app' \in [Processes -> App] /\ app'[p] = b
        /\ \A q \in Processes \ {p} : app'[q] = app[q]
    BY <1>1, <1>4, <2>1, BecomesKeeps
  <2>3. /\ app'[p].at = "runtime" /\ app'[p].tgt = s /\ app'[p].cur = a.cur
        /\ app'[p].python = a.python /\ app'[p].seen = a.seen
        /\ app'[p].found = names
    BY <1>1, <2>2 DEF App
  <2> HIDE DEF names, b
  <2>4. /\ record' \in [Sessions -> Lifecycle]
        /\ \A x \in Sessions \ {s} : record'[x] = record[x]
        /\ record'[s] = [state |-> "Deleting", bound |-> TRUE, python |-> names]
    BY <1>1, <1>2, <1>4 DEF Typed, Lifecycle, Tombs
  <2>5. /\ history' \in History /\ Grows /\ s \in history'.asked
        /\ history'.late = history.late
    BY <1>1, <1>2, <1>4 DEF Typed, History, Grows
  <2>6. disk' = disk /\ lock' = lock
    BY <1>4
  <2>7. Sound(s)' /\ (Alive(s)' <=> Alive(s))
    BY <1>2, <2>4, <2>5, <2>6 DEF Sound, Alive, Doomed
  <2>8. Deleting(p, app[p])'
    BY <1>2, <2>3, <2>5, <2>6 DEF Deleting, Removing, Both, Alive, Doomed
  <2>9. disk' \in [Sessions -> Disk] /\ app'[p].at \in Removing
        /\ a.at \in Removing \cup {"begin"}
    BY <1>1, <2>3, <2>6 DEF Typed, Removing
  <2>10. QED
    BY <1>2, <2>2, <2>3, <2>4, <2>5, <2>6, <2>7, <2>8, <2>9, RemovalKeeps
<1>5. QED
  BY <1>3, <1>4 DEF Begin, Target

LEMMA DeleteRuntimeKeeps ==
    ASSUME IInv, NEW p \in Processes, DeleteRuntime(p), NEW s, s = app[p].tgt
    PROVE  Keeps(p)
<1> DEFINE a == app[p]
<1>1. a \in App /\ a.tgt = s /\ Local(p, a) /\ a.at = "runtime" /\ Typed
  BY DEF IInv, Typed, DeleteRuntime, At
<1>2. /\ s \in Sessions /\ Both(p, s) /\ Sound(s) /\ disk[s].dir
      /\ (a.found \/ ~Alive(s)) /\ Doomed(s)
      /\ (s = a.cur => s \in history.asked)
  BY <1>1 DEF Local, Deleting, IInv, Removing
<1>3. /\ app' \in [Processes -> App]
      /\ \A q \in Processes \ {p} : app'[q] = app[q]
      /\ app'[p].at = "workspace" /\ app'[p].cur = a.cur /\ app'[p].tgt = s
      /\ app'[p].python = a.python /\ app'[p].seen = a.seen
  BY <1>1, GoKeeps DEF DeleteRuntime, Steps, Removing
<1>4. /\ disk' \in [Sessions -> Disk]
      /\ \A x \in Sessions \ {s} : disk'[x] = disk[x]
      /\ disk'[s].dir = disk[s].dir /\ disk'[s].saved = disk[s].saved
      /\ disk'[s].workspace = disk[s].workspace
      /\ disk'[s].runtime <=> (disk[s].runtime /\ ~a.found)
  <2> DEFINE left == disk[s].runtime /\ ~a.found
  <2>1. left \in BOOLEAN
    OBVIOUS
  <2>2. disk' = [disk EXCEPT ![s].runtime = left]
    BY <1>1, <1>2 DEF DeleteRuntime, Target, Typed, Disk
  <2> HIDE DEF left
  <2>3. /\ disk' \in [Sessions -> Disk]
        /\ \A x \in Sessions \ {s} : disk'[x] = disk[x]
        /\ disk'[s].dir = disk[s].dir /\ disk'[s].saved = disk[s].saved
        /\ disk'[s].workspace = disk[s].workspace
        /\ disk'[s].runtime = left
    BY ZenonT(60), <1>1, <1>2, <2>1, <2>2 DEF Typed, Disk
  <2>4. QED
    BY <2>3 DEF left
<1>5. record' = record /\ lock' = lock /\ history' = history
  BY DEF DeleteRuntime
<1>6. ~Alive(s)' /\ Sound(s)'
  BY <1>2, <1>4, <1>5 DEF Sound, Alive, Doomed
<1>7. Deleting(p, app[p])'
  BY <1>2, <1>3, <1>4, <1>5, <1>6 DEF Deleting, Removing, Both, Doomed
<1>8. record' \in [Sessions -> Lifecycle] /\ history' \in History /\ Grows
      /\ a.at \in Removing /\ app'[p].at \in Removing
  BY <1>1, <1>3, <1>5 DEF Typed, Grows, Removing
<1>9. QED
  BY <1>2, <1>3, <1>4, <1>5, <1>6, <1>7, <1>8, RemovalKeeps

LEMMA DeleteWorkspaceKeeps ==
    ASSUME IInv, NEW p \in Processes, DeleteWorkspace(p), NEW s, s = app[p].tgt
    PROVE  Keeps(p)
<1> DEFINE a == app[p]
<1>1. a \in App /\ a.tgt = s /\ Local(p, a) /\ a.at = "workspace" /\ Typed
  BY DEF IInv, Typed, DeleteWorkspace, At
<1>2. /\ s \in Sessions /\ Both(p, s) /\ Sound(s) /\ disk[s].dir /\ ~Alive(s)
      /\ Doomed(s) /\ (s = a.cur => s \in history.asked)
  BY <1>1 DEF Local, Deleting, IInv, Removing
<1>3. /\ app' \in [Processes -> App]
      /\ \A q \in Processes \ {p} : app'[q] = app[q]
      /\ app'[p].at = "tombstone" /\ app'[p].cur = a.cur /\ app'[p].tgt = s
      /\ app'[p].python = a.python /\ app'[p].seen = a.seen
  BY <1>1, GoKeeps DEF DeleteWorkspace, Steps, Removing
<1>4. /\ disk' \in [Sessions -> Disk]
      /\ \A x \in Sessions \ {s} : disk'[x] = disk[x]
      /\ disk'[s].dir = disk[s].dir /\ disk'[s].saved = disk[s].saved
      /\ ~disk'[s].workspace /\ disk'[s].runtime = disk[s].runtime
  BY ZenonT(60), <1>1, <1>2 DEF DeleteWorkspace, Typed, Disk, Target
<1>5. record' = record /\ lock' = lock /\ history' = history
  BY DEF DeleteWorkspace
<1>6. ~Alive(s)' /\ Sound(s)'
  BY <1>2, <1>4, <1>5 DEF Sound, Alive, Doomed
<1>7. Deleting(p, app[p])'
  BY <1>2, <1>3, <1>4, <1>5, <1>6 DEF Deleting, Removing, Both, Doomed
<1>8. record' \in [Sessions -> Lifecycle] /\ history' \in History /\ Grows
      /\ a.at \in Removing /\ app'[p].at \in Removing
  BY <1>1, <1>3, <1>5 DEF Typed, Grows, Removing
<1>9. QED
  BY <1>2, <1>3, <1>4, <1>5, <1>6, <1>7, <1>8, RemovalKeeps

LEMMA TombstoneKeeps ==
    ASSUME IInv, NEW p \in Processes, Tombstone(p), NEW s, s = app[p].tgt
    PROVE  Keeps(p)
<1> DEFINE a == app[p]
<1>1. a \in App /\ a.tgt = s /\ Local(p, a) /\ a.at = "tombstone" /\ Typed
  BY DEF IInv, Typed, Tombstone, At
<1>2. /\ s \in Sessions /\ Both(p, s) /\ Sound(s) /\ disk[s].dir /\ ~Alive(s)
      /\ Doomed(s) /\ (s = a.cur => s \in history.asked) /\ ~disk[s].workspace
  BY <1>1 DEF Local, Deleting, IInv, Removing
<1>3. /\ app' \in [Processes -> App]
      /\ \A q \in Processes \ {p} : app'[q] = app[q]
      /\ app'[p].at = "wipe" /\ app'[p].cur = a.cur /\ app'[p].tgt = s
      /\ app'[p].python = a.python /\ app'[p].seen = a.seen
  BY <1>1, GoKeeps DEF Tombstone, Steps, Removing
<1>4. /\ record' \in [Sessions -> Lifecycle]
      /\ \A x \in Sessions \ {s} : record'[x] = record[x]
      /\ record'[s].state = "Deleting" /\ record'[s].bound
  BY <1>1, <1>2 DEF Tombstone, Typed, Lifecycle, Target, Tombs
<1>5. disk' = disk /\ lock' = lock /\ history' = history
  BY DEF Tombstone
<1>6. ~Alive(s)' /\ Sound(s)'
  BY <1>2, <1>4, <1>5 DEF Sound, Alive, Doomed
<1>7. Deleting(p, app[p])'
  BY <1>2, <1>3, <1>4, <1>5, <1>6 DEF Deleting, Removing, Both, Doomed
<1>8. disk' \in [Sessions -> Disk] /\ history' \in History /\ Grows
      /\ a.at \in Removing /\ app'[p].at \in Removing
  BY <1>1, <1>3, <1>5 DEF Typed, Grows, Removing
<1>9. QED
  BY <1>2, <1>3, <1>4, <1>5, <1>6, <1>7, <1>8, RemovalKeeps

LEMMA WipeKeeps ==
    ASSUME IInv, NEW p \in Processes, Wipe(p), NEW s, s = app[p].tgt
    PROVE  Keeps(p)
<1> DEFINE a == app[p]
<1>1. a \in App /\ a.tgt = s /\ Local(p, a) /\ a.at = "wipe" /\ Typed
  BY DEF IInv, Typed, Wipe, At
<1>2. /\ s \in Sessions /\ Both(p, s) /\ Sound(s) /\ disk[s].dir /\ ~Alive(s)
      /\ Doomed(s) /\ (s = a.cur => s \in history.asked) /\ ~disk[s].workspace
      /\ record[s].bound
  BY <1>1 DEF Local, Deleting, IInv, Removing
<1>3. /\ app' \in [Processes -> App]
      /\ \A q \in Processes \ {p} : app'[q] = app[q]
      /\ app'[p].at = "rmdir" /\ app'[p].cur = a.cur /\ app'[p].tgt = s
      /\ app'[p].python = a.python /\ app'[p].seen = a.seen
  BY <1>1, GoKeeps DEF Wipe, Steps, Removing
<1>4. /\ disk' \in [Sessions -> Disk]
      /\ \A x \in Sessions \ {s} : disk'[x] = disk[x]
      /\ disk'[s].dir = disk[s].dir /\ disk'[s].saved = None
      /\ disk'[s].workspace = disk[s].workspace
      /\ disk'[s].runtime = disk[s].runtime
  BY <1>1, <1>2 DEF Wipe, Typed, Disk, Target
<1>5. record' = record /\ lock' = lock /\ history' = history
  BY DEF Wipe
<1>6. ~Alive(s)' /\ Sound(s)'
  BY <1>2, <1>4, <1>5 DEF Sound, Alive, Doomed
<1>7. Deleting(p, app[p])'
  BY <1>2, <1>3, <1>4, <1>5, <1>6 DEF Deleting, Removing, Both, Doomed
<1>8. record' \in [Sessions -> Lifecycle] /\ history' \in History /\ Grows
      /\ a.at \in Removing /\ app'[p].at \in Removing
  BY <1>1, <1>3, <1>5 DEF Typed, Grows, Removing
<1>9. QED
  BY <1>2, <1>3, <1>4, <1>5, <1>6, <1>7, <1>8, RemovalKeeps

LEMMA RemoveDirectoryKeeps ==
    ASSUME IInv, NEW p \in Processes, RemoveDirectory(p), NEW s, s = app[p].tgt
    PROVE  Keeps(p)
<1> DEFINE a == app[p]
<1>1. a \in App /\ a.tgt = s /\ Local(p, a) /\ a.at = "rmdir" /\ Typed
  BY DEF IInv, Typed, RemoveDirectory, At
<1>2. /\ s \in Sessions /\ Both(p, s) /\ Sound(s) /\ disk[s].dir /\ ~Alive(s)
      /\ Doomed(s) /\ (s = a.cur => s \in history.asked) /\ ~disk[s].workspace
      /\ record[s].bound
      /\ disk[s].saved = None
  BY <1>1 DEF Local, Deleting, IInv, Removing
<1>3. /\ app' \in [Processes -> App]
      /\ \A q \in Processes \ {p} : app'[q] = app[q]
      /\ app'[p].at = "gone" /\ app'[p].cur = a.cur /\ app'[p].tgt = s
      /\ app'[p].python = a.python /\ app'[p].seen = a.seen
  BY <1>1, GoKeeps DEF RemoveDirectory, Steps, Removing
<1>4. /\ disk' \in [Sessions -> Disk]
      /\ \A x \in Sessions \ {s} : disk'[x] = disk[x]
      /\ ~disk'[s].dir /\ disk'[s].saved = None
      /\ disk'[s].workspace = disk[s].workspace
      /\ disk'[s].runtime = disk[s].runtime
  BY ZenonT(60), <1>1, <1>2 DEF RemoveDirectory, Typed, Disk, Target
<1>5. record' = record /\ lock' = lock /\ history' = history
  BY DEF RemoveDirectory
<1>6. ~Alive(s)' /\ Sound(s)'
  BY <1>2, <1>4, <1>5 DEF Sound, Alive, Doomed
<1>7. Deleting(p, app[p])'
  BY <1>2, <1>3, <1>4, <1>5, <1>6 DEF Deleting, Removing, Both, Doomed
<1>8. record' \in [Sessions -> Lifecycle] /\ history' \in History /\ Grows
      /\ a.at \in Removing /\ app'[p].at \in Removing
  BY <1>1, <1>3, <1>5 DEF Typed, Grows, Removing
<1>9. QED
  BY <1>2, <1>3, <1>4, <1>5, <1>6, <1>7, <1>8, RemovalKeeps


(* A process that has removed the session it was in goes on to a new one.   *)
LEMMA GoneKeeps ==
    ASSUME IInv, NEW p \in Processes, Gone(p), NEW s, s = app[p].tgt
    PROVE  Keeps(p)
<1> DEFINE a == app[p]
<1>1. a \in App /\ a.tgt = s /\ Local(p, a) /\ a.at = "gone" /\ Typed
  BY DEF IInv, Typed, Gone, At
<1>2. /\ s \in Sessions /\ Both(p, s) /\ Sound(s) /\ ~disk[s].dir
      /\ Doomed(s) /\ record[s].bound /\ ~Alive(s)
  BY <1>1 DEF Local, Deleting, IInv, Removing
<1>3. PICK written \in BOOLEAN :
          /\ record' = IF written
                       THEN [record EXCEPT ![s].state = "Deleted"] ELSE record
          /\ IF written THEN UNCHANGED history ELSE Fault
          /\ Becomes(p, IF a.cur # s THEN Onward(a, "idle")
                        ELSE [Started EXCEPT
                                 !.at = IF written THEN "new" ELSE "idle"])
  BY <1>1 DEF Gone, Target
<1> DEFINE b == IF a.cur # s THEN Onward(a, "idle")
                ELSE [Started EXCEPT !.at = IF written THEN "new" ELSE "idle"]
<1>4. b \in App
  BY <1>1, OnwardIdle, StartedType DEF App, Steps
<1>5. /\ b.at \in {"idle", "new"} /\ b.seen = NoRecord
      /\ b.at = "new" => b.tgt = None
      /\ IF a.cur # s THEN b.cur = a.cur /\ b.python = a.python ELSE b.cur = None
  BY <1>1, OnwardIdle DEF Started
<1>6. Becomes(p, b)
  BY <1>3
<1> HIDE DEF b
<1>7. /\ app' \in [Processes -> App] /\ app'[p] = b
      /\ \A q \in Processes \ {p} : app'[q] = app[q]
  BY <1>1, <1>4, <1>6, BecomesKeeps
<1>8. /\ record' \in [Sessions -> Lifecycle]
      /\ \A x \in Sessions \ {s} : record'[x] = record[x]
      /\ record'[s].bound /\ record'[s].state \in {record[s].state, "Deleted"}
  BY <1>1, <1>2, <1>3 DEF Typed, Lifecycle, Tombs
<1>9. /\ history' \in History /\ Grows
      /\ history'.asked = history.asked /\ history'.late = history.late
  BY <1>1, <1>3, FaultKeeps DEF Typed, Grows
<1>10. Drops(p, s) /\ disk' = disk
  BY <1>1 DEF Gone, Target
<1>11. /\ lock' \in [Sessions -> Lock]
       /\ \A x \in Sessions : x # s => lock'[x] = lock[x]
       /\ \A x \in Sessions, q \in Processes \ {p} :
              /\ lock[x].id = q => lock'[x].id = q
              /\ lock[x].path = q => lock'[x].path = q
  BY <1>1, <1>2, <1>10, DropsKeep
<1>12. Typed'
  BY <1>1, <1>7, <1>8, <1>9, <1>10, <1>11 DEF Typed
<1>13. Undisturbed(p)
  BY <1>2, <1>7, <1>8, <1>9, <1>10, <1>11, WriteUndisturbed DEF Both, Alive
<1>14. ASSUME NEW x \in Sessions
       PROVE  Sound(x)'
  BY <1>2, <1>8, <1>9, <1>10 DEF IInv, Sound, Alive, Doomed, Tombs
<1>15. InSession(p, app[p])'
  BY <1>1, <1>5, <1>7, <1>8, <1>9, <1>10, <1>11 DEF Local, InSession, Both,
     Alive, App
<1>16. SaveWell(app[p])' /\ Approach(p, app[p])' /\ Deleting(p, app[p])'
  BY <1>5, <1>7 DEF SaveWell, Approach, Deleting, NoRecord, Tombs, Making,
     Reading, Locking, Binding, Holding, Removing, Saving, AfterLock, AfterBind
<1>17. QED
  BY <1>9, <1>12, <1>13, <1>14, <1>15, <1>16 DEF Keeps, Local

(* What is written back is the record of before the locks, if it had no     *)
(* binding: nobody had begun a deletion then.                               *)
LEMMA RecoverSaveKeeps ==
    ASSUME IInv, NEW p \in Processes, RecoverSave(p), NEW s, s = app[p].tgt
    PROVE  Keeps(p)
<1> DEFINE a == app[p]
           back == Rebound(p)
<1>1. a \in App /\ a.tgt = s /\ Local(p, a) /\ a.at = "recoverSave" /\ Typed
  BY DEF IInv, Typed, RecoverSave, At
<1>2. /\ s \in Sessions /\ Both(p, s) /\ Sound(s) /\ disk[s].dir /\ s # a.cur
      /\ a.seen.state \in Tombs => a.seen.bound
  BY <1>1 DEF Local, Approach, IInv, Holding
<1>3. /\ back \in Lifecycle
      /\ back.state \in Tombs => back = record[s]
  BY <1>1, <1>2 DEF Rebound, Target, App, Lifecycle, Typed
<1>4. record' = [record EXCEPT ![s] = back] /\ disk' = disk /\ history' = history
  BY <1>1 DEF RecoverSave, Target
<1>5. back.state \in Tombs => back.python \/ ~Alive(s)
  BY <1>2, <1>3 DEF Sound, Tombs
<1>6. \/ /\ back.state \in Tombs /\ UNCHANGED lock
         /\ Becomes(p, [a EXCEPT !.at = "begin", !.found = back.python])
      \/ back.state \notin Tombs /\ Leave(p)
  BY DEF RecoverSave
<1> HIDE DEF back
<1>7. /\ record' \in [Sessions -> Lifecycle] /\ record'[s] = back
      /\ \A x \in Sessions \ {s} : record'[x] = record[x]
  BY <1>1, <1>2, <1>3, <1>4 DEF Typed
<1>8. ASSUME NEW x \in Sessions
      PROVE  Sound(x)'
  BY <1>2, <1>3, <1>4, <1>7 DEF IInv, Sound, Alive, Doomed, Tombs
<1>9. Grows /\ history' \in History
  BY <1>1, <1>4 DEF Grows, Typed
<1>10. CASE Leave(p)
  BY <1>1, <1>2, <1>4, <1>7, <1>8, <1>9, <1>10, LeaveKeeps DEF At, Target
<1>11. CASE /\ back.state \in Tombs /\ UNCHANGED lock
            /\ Becomes(p, [a EXCEPT !.at = "begin", !.found = back.python])
  <2> DEFINE b == [a EXCEPT !.at = "begin", !.found = back.python]
  <2>1. b \in App
    BY <1>1, <1>3 DEF App, Lifecycle, Steps
  <2>2. /\ b.at = "begin" /\ b.cur = a.cur /\ b.python = a.python
        /\ b.seen = a.seen /\ b.tgt = s /\ b.found = back.python
    BY <1>1 DEF App
  <2> HIDE DEF b
  <2>3. /\ app' \in [Processes -> App] /\ app'[p] = b
        /\ \A q \in Processes \ {p} : app'[q] = app[q]
    BY <1>1, <1>11, <2>1, BecomesKeeps DEF b
  <2>4. Typed'
    BY <1>1, <1>4, <1>7, <1>9, <1>11, <2>3 DEF Typed
  <2>5. record' = record
    BY <1>1, <1>3, <1>7, <1>11 DEF Typed
  <2>6. Undisturbed(p)
    BY <1>4, <1>11, <2>3, <2>5 DEF Undisturbed, Alive
  <2>7. InSession(p, app[p])'
    BY <1>1, <1>4, <1>11, <2>2, <2>3, <2>5 DEF Local, InSession, Both, Alive
  <2>8. SaveWell(app[p])' /\ Approach(p, app[p])'
    BY <1>2, <2>2, <2>3 DEF SaveWell, Approach, Making, Reading, Locking,
       Binding, Holding, Saving, AfterLock, AfterBind
  <2>9. Deleting(p, app[p])'
    BY <1>2, <1>4, <1>5, <1>11, <2>2, <2>3 DEF Deleting, Removing, Both, Alive
  <2>10. QED
    BY <1>8, <1>9, <2>4, <2>6, <2>7, <2>8, <2>9 DEF Keeps, Local
<1>12. QED
  BY <1>6, <1>10, <1>11

-----------------------------------------------------------------------------
(* The runtime, and the way into a session that exists.                     *)

LEMMA AdoptKeeps ==
    ASSUME IInv, NEW p \in Processes, Adopt(p), NEW s, s = app[p].tgt
    PROVE  Keeps(p)
<1> DEFINE a == app[p]
<1>1. a \in App /\ a.tgt = s /\ Local(p, a) /\ a.at = "adopt" /\ Typed
  BY DEF IInv, Typed, Adopt, At
<1>2. /\ s \in Sessions /\ Both(p, s) /\ Sound(s) /\ disk[s].dir /\ s # a.cur
  BY <1>1 DEF Local, Approach, IInv, Holding
<1>3. CASE Refuse(p)
  BY <1>1, <1>3, RefuseKeeps DEF At
<1>4. ASSUME Commits(s)
      PROVE  /\ record' \in [Sessions -> Lifecycle]
             /\ \A x \in Sessions \ {s} : record'[x] = record[x]
             /\ record'[s].state = "Active"
  BY <1>1, <1>2, <1>4 DEF Commits, Typed, Lifecycle
<1>5. CASE Commits(s) /\ Leave(p) /\ Fault /\ UNCHANGED disk
  <2>1. /\ history' \in History /\ Grows
        /\ history'.asked = history.asked /\ history'.late = history.late
    BY <1>1, <1>5, FaultKeeps
  <2>2. \A x \in Sessions : Sound(x)'
    BY <1>4, <1>5, <2>1 DEF IInv, Sound, Alive, Doomed, Tombs
  <2>3. QED
    BY <1>1, <1>2, <1>4, <1>5, <2>1, <2>2, LeaveKeeps DEF At, Target
<1>6. ASSUME Commits(s), NEW ready \in BOOLEAN, Drops(p, a.cur),
             UNCHANGED <<disk, history>>,
             Becomes(p, [Started EXCEPT
                     !.at = IF ready THEN "save" ELSE "idle",
                     !.then = IF ready THEN "python" ELSE "idle",
                     !.cur = s, !.python = (disk[s].saved = "python"),
                     !.committed = TRUE, !.tgt = IF ready THEN s ELSE None])
      PROVE  Keeps(p)
  <2> DEFINE b == [Started EXCEPT
                     !.at = IF ready THEN "save" ELSE "idle",
                     !.then = IF ready THEN "python" ELSE "idle",
                     !.cur = s, !.python = (disk[s].saved = "python"),
                     !.committed = TRUE, !.tgt = IF ready THEN s ELSE None]
  <2>1. "save" \in Steps /\ "idle" \in Steps /\ "python" \in Steps
        /\ (disk[s].saved = "python") \in BOOLEAN
    BY DEF Steps, Saving
  <2>2. b \in App
    BY <1>2, <2>1, StartedType DEF App
  <2>3. /\ b.at = IF ready THEN "save" ELSE "idle"
        /\ b.then = IF ready THEN "python" ELSE "idle"
        /\ b.cur = s /\ b.seen = NoRecord
        /\ b.python <=> disk[s].saved = "python"
    BY DEF Started
  <2>4. Becomes(p, b)
    BY <1>6
  <2> HIDE DEF b
  <2>5. /\ app' \in [Processes -> App] /\ app'[p] = b
        /\ \A q \in Processes \ {p} : app'[q] = app[q]
    BY <1>1, <2>2, <2>4, BecomesKeeps
  <2>6. /\ lock' \in [Sessions -> Lock]
        /\ \A x \in Sessions : x # a.cur => lock'[x] = lock[x]
        /\ \A x \in Sessions, q \in Processes \ {p} :
               /\ lock[x].id = q => lock'[x].id = q
               /\ lock[x].path = q => lock'[x].path = q
    BY <1>1, <1>6, DropsKeep DEF App
  <2>7. Typed' /\ Grows
    BY <1>1, <1>4, <1>6, <2>5, <2>6 DEF Typed, Grows
  <2>8. Undisturbed(p)
    BY <1>2, <1>4, <1>6, <2>5, <2>6, <2>7, WriteUndisturbed DEF Both, Alive
  <2>9. \A x \in Sessions : Sound(x)'
    BY <1>4, <1>6 DEF IInv, Sound, Alive, Doomed, Tombs
  <2>10. InSession(p, app[p])'
    BY <1>2, <1>4, <1>6, <2>3, <2>5, <2>6 DEF InSession, Both, Alive, Sound, Tombs
  <2>11. SaveWell(app[p])' /\ Approach(p, app[p])' /\ Deleting(p, app[p])'
    BY <1>2, <2>3, <2>5 DEF SaveWell, Approach, Deleting, NoRecord, Tombs, Making,
       Reading, Locking, Binding, Holding, Removing, Saving, AfterLock,
       AfterBind, After
  <2>12. QED
    BY <2>7, <2>8, <2>9, <2>10, <2>11 DEF Keeps, Local
<1>7. QED
  BY <1>1, <1>3, <1>5, <1>6 DEF Adopt, Target

LEMMA MakeWorkspaceKeeps ==
    ASSUME IInv, NEW p \in Processes, MakeWorkspace(p), NEW c, c = app[p].cur
    PROVE  Keeps(p)
<1> DEFINE a == app[p]
<1>1. a \in App /\ a.cur = c /\ Local(p, a) /\ a.at = "python" /\ Typed
  BY DEF IInv, Typed, MakeWorkspace, At
<1>2. /\ c \in Sessions /\ Both(p, c) /\ Sound(c) /\ disk[c].dir
      /\ disk[c].saved # None
      /\ record[c].state \in Tombs => c \in history.asked
  BY <1>1 DEF Local, InSession, SaveWell, Saving, App, IInv
<1>3. CASE Refuse(p)
  BY <1>1, <1>3, RefuseKeeps DEF At
<1>4. CASE disk' = [disk EXCEPT ![c].workspace = TRUE] /\ record' = record
  <2>1. /\ disk' \in [Sessions -> Disk]
        /\ \A x \in Sessions \ {c} : disk'[x] = disk[x]
        /\ disk'[c].dir = disk[c].dir /\ disk'[c].saved = disk[c].saved
        /\ disk'[c].runtime = disk[c].runtime
    BY ZenonT(60), <1>1, <1>2, <1>4 DEF Typed, Disk
  <2>2. CASE /\ Becomes(p, [a EXCEPT !.at = "save", !.then = "launch",
                                      !.python = TRUE])
             /\ UNCHANGED <<lock, history>>
    <3> DEFINE b == [a EXCEPT !.at = "save", !.then = "launch", !.python = TRUE]
    <3>1. b \in App
      BY <1>1 DEF App, Steps, Saving
    <3>2. /\ b.at = "save" /\ b.then = "launch" /\ b.python /\ b.cur = c
          /\ b.seen = a.seen
      BY <1>1 DEF App
    <3>3. Becomes(p, b)
      BY <2>2
    <3> HIDE DEF b
    <3>4. /\ app' \in [Processes -> App] /\ app'[p] = b
          /\ \A q \in Processes \ {p} : app'[q] = app[q]
      BY <1>1, <3>1, <3>3, BecomesKeeps
    <3>5. Typed' /\ Grows
      BY <1>1, <1>4, <2>1, <2>2, <3>4 DEF Typed, Grows
    <3>6. Undisturbed(p)
      BY <1>2, <1>4, <2>1, <2>2, <3>4, <3>5, WriteUndisturbed DEF Both, Alive
    <3>7. \A x \in Sessions : Sound(x)'
      BY <1>2, <1>4, <2>1, <2>2 DEF IInv, Sound, Alive, Doomed
    <3>8. InSession(p, app[p])'
      BY <1>2, <1>4, <2>1, <2>2, <3>2, <3>4 DEF InSession, Both, Alive
    <3>9. SaveWell(app[p])' /\ Approach(p, app[p])' /\ Deleting(p, app[p])'
      BY <1>1, <1>2, <3>2, <3>4 DEF Local, SaveWell, Approach, Deleting, Making,
         Reading, Locking, Binding, Holding, Removing, Saving, AfterLock,
         AfterBind, After, None
    <3>10. QED
      BY <3>5, <3>6, <3>7, <3>8, <3>9 DEF Keeps, Local
  <2>3. CASE Leave(p) /\ Fault
    <3>1. /\ history' \in History /\ Grows
          /\ history'.asked = history.asked /\ history'.late = history.late
      BY <1>1, <2>3, FaultKeeps
    <3> DEFINE s == IF Target(p) = c THEN None ELSE Target(p)
    <3>2. s \in Sessions \cup {None} /\ Drops(p, s) /\ s # c
      BY <1>1, <1>2, <2>3 DEF Leave, Target, App
    <3>3. /\ lock' \in [Sessions -> Lock] /\ lock'[c] = lock[c]
          /\ \A x \in Sessions, q \in Processes \ {p} :
                 /\ lock[x].id = q => lock'[x].id = q
                 /\ lock[x].path = q => lock'[x].path = q
      BY <1>1, <1>2, <3>2, DropsKeep
    <3>4. /\ app' \in [Processes -> App] /\ app'[p] = Onward(a, "idle")
          /\ \A q \in Processes \ {p} : app'[q] = app[q]
      BY <1>1, <2>3, OnwardIdle, BecomesKeeps DEF Leave, Go
    <3>5. Typed'
      BY <1>1, <1>4, <2>1, <3>1, <3>3, <3>4 DEF Typed
    <3>6. Undisturbed(p)
      BY <1>2, <1>4, <2>1, <3>1, <3>3, <3>4, WriteUndisturbed DEF Both, Alive
    <3>7. \A x \in Sessions : Sound(x)'
      BY <1>2, <1>4, <2>1, <3>1 DEF IInv, Sound, Alive, Doomed
    <3>8. InSession(p, app[p])'
      BY <1>1, <1>2, <1>4, <2>1, <3>1, <3>3, <3>4, OnwardIdle DEF Local, InSession,
         Both, Alive
    <3>9. Local(p, app[p])'
      BY <1>1, <3>4, <3>8, OnwardIdle, IdleKnows
    <3>10. QED
      BY <3>1, <3>5, <3>6, <3>7, <3>9 DEF Keeps
  <2>4. QED
    BY <1>3, <2>2, <2>3 DEF MakeWorkspace
<1>5. QED
  BY <1>3, <1>4 DEF MakeWorkspace

(* A deletion that does not know of the runtime is noted in history.late.   *)
LEMMA LaunchKeeps ==
    ASSUME IInv, NEW p \in Processes, Launch(p), NEW c, c = app[p].cur
    PROVE  Keeps(p)
<1> DEFINE a == app[p]
<1>1. a \in App /\ a.cur = c /\ Local(p, a) /\ a.at = "launch" /\ Typed
  BY DEF IInv, Typed, Launch, At
<1>2. /\ c \in Sessions /\ Both(p, c) /\ Sound(c) /\ disk[c].dir /\ a.python
      /\ disk[c].saved = "python" /\ disk[c].saved # None
      /\ record[c].state \in Tombs => c \in history.asked
  BY <1>1 DEF Local, InSession, SaveWell, Saving, App, IInv
<1>3. /\ disk' \in [Sessions -> Disk]
      /\ \A x \in Sessions \ {c} : disk'[x] = disk[x]
      /\ disk'[c].dir /\ disk'[c].saved = disk[c].saved
  BY <1>1, <1>2 DEF Launch, Typed, Disk
<1>4. /\ history' \in History /\ Grows /\ history'.asked = history.asked
      /\ Unaware(c) => c \in history'.late
  BY <1>1, <1>2 DEF Launch, Typed, History, Grows
<1>5. record' = record /\ lock' = lock
  BY DEF Launch
<1>6. /\ app' \in [Processes -> App] /\ app'[p] = Onward(a, "idle")
      /\ \A q \in Processes \ {p} : app'[q] = app[q]
  BY <1>1, OnwardIdle, BecomesKeeps DEF Launch, Go
<1>7. Typed'
  BY <1>1, <1>3, <1>4, <1>5, <1>6 DEF Typed
<1>8. Undisturbed(p)
  <2> SUFFICES ASSUME NEW q \in Processes \ {p}
               PROVE  /\ app'[q] = app[q]
                      /\ \A x \in Sessions :
                             /\ lock[x].id = q => /\ lock'[x].id = q
                                                  /\ record'[x] = record[x]
                                                  /\ disk'[x] = disk[x]
                             /\ lock[x].path = q =>
                                    /\ lock'[x].path = q
                                    /\ disk[x].dir => disk'[x].dir
                      /\ app[q].at \in {"deleteLock", "deleteBind"}
                         /\ ~app[q].found =>
                             (Alive(app[q].tgt)' => Alive(app[q].tgt))
    BY DEF Undisturbed
  <2>1. ASSUME NEW x \in Sessions
        PROVE  /\ lock[x].id = q => /\ lock'[x].id = q
                                    /\ record'[x] = record[x]
                                    /\ disk'[x] = disk[x]
               /\ lock[x].path = q => /\ lock'[x].path = q
                                      /\ disk[x].dir => disk'[x].dir
    BY <1>2, <1>3, <1>5 DEF Both
  <2>2. ASSUME NEW x \in Sessions, app[q].tgt = x, ~app[q].found,
               app[q].at \in {"deleteLock", "deleteBind"},
               disk'[x].runtime /\ x \notin history'.late
        PROVE  Alive(x)
    <3>1. CASE x = c
      <4>1. Local(q, app[q])
        BY DEF IInv
      <4>2. app[q].at # "deleteBind"
        BY <1>2, <2>2, <3>1, <4>1 DEF Local, Approach, Binding, AfterBind, Both
      <4>3. Unaware(c)
        BY <2>2, <3>1, <4>2 DEF Unaware, Target
      <4>4. QED
        BY <1>4, <2>2, <3>1, <4>3
    <3>2. CASE x # c
      BY <1>3, <1>4, <2>2, <3>2 DEF Alive, Grows
    <3>3. QED
      BY <3>1, <3>2
  <2>3. ASSUME app[q].at \in {"deleteLock", "deleteBind"}
        PROVE  app[q].tgt \in Sessions
    BY <2>3 DEF IInv, Local, Approach, Locking, Binding, AfterLock, AfterBind
  <2>4. app'[q] = app[q]
    BY <1>6
  <2>5. app[q].at \in {"deleteLock", "deleteBind"} /\ ~app[q].found =>
            (Alive(app[q].tgt)' => Alive(app[q].tgt))
    BY <2>2, <2>3, <2>4 DEF Alive
  <2>6. QED
    BY <2>1, <2>4, <2>5
<1>9. ASSUME NEW x \in Sessions
      PROVE  Sound(x)'
  <2>1. CASE x = c
    BY <1>2, <1>3, <1>4, <1>5, <2>1 DEF Sound, Alive, Doomed, Unaware
  <2>2. CASE x # c
    BY <1>3, <1>4, <1>5, <2>2 DEF IInv, Sound, Alive, Doomed, Grows
  <2>3. QED
    BY <2>1, <2>2
<1>10. InSession(p, app[p])'
  BY <1>1, <1>2, <1>3, <1>4, <1>5, <1>6, OnwardIdle DEF InSession, Both, Alive
<1>11. Local(p, app[p])'
  BY <1>1, <1>6, <1>10, OnwardIdle, IdleKnows
<1>12. QED
  BY <1>4, <1>7, <1>8, <1>9, <1>11 DEF Keeps

(* The locks of a process end with it.                                      *)
LEMMA ExitKeeps ==
    ASSUME IInv, NEW p \in Processes, Exit(p)
    PROVE  Keeps(p)
<1>1. Typed
  BY DEF IInv
<1>2. /\ history' \in History /\ Grows
      /\ history'.asked = history.asked /\ history'.late = history.late
  BY <1>1, FaultKeeps DEF Exit, Typed, Grows
<1>3. /\ app' \in [Processes -> App] /\ app'[p] = Started
      /\ \A q \in Processes \ {p} : app'[q] = app[q]
  BY <1>1, StartedType, BecomesKeeps DEF Exit
<1>4. /\ lock' \in [Sessions -> Lock]
      /\ \A x \in Sessions, q \in Processes \ {p} :
             /\ lock[x].id = q => lock'[x].id = q
             /\ lock[x].path = q => lock'[x].path = q
  BY <1>1 DEF Exit, Typed, Without, Lock
<1>5. record' = record /\ disk' = disk
  BY DEF Exit
<1>6. Typed'
  BY <1>1, <1>2, <1>3, <1>4, <1>5 DEF Typed
<1>7. Undisturbed(p)
  BY <1>2, <1>3, <1>4, <1>5 DEF Undisturbed, Alive
<1>8. \A x \in Sessions : Sound(x)'
  BY <1>2, <1>5 DEF IInv, Sound, Alive, Doomed
<1>9. Local(p, app[p])'
  <2>1. app'[p].at = "idle" /\ app'[p].seen = NoRecord /\ app'[p].cur = None
    BY <1>3 DEF Started
  <2>2. QED
    BY <2>1, IdleKnows DEF InSession
<1>10. QED
  BY <1>2, <1>6, <1>7, <1>8, <1>9 DEF Keeps

-----------------------------------------------------------------------------
(* The invariant holds.                                                     *)

LEMMA StepKeeps ==
    ASSUME IInv, NEW p \in Processes, Step(p)
    PROVE  Keeps(p)
<1>1. CASE SaveState(p)
  BY <1>1, SaveStateKeeps
<1>2. CASE CommitSaved(p)
  BY <1>2, CommitSavedKeeps
<1>3. CASE NewRecord(p)
  BY <1>3, NewRecordKeeps
<1>4. CASE MakeDirectory(p)
  BY <1>4, MakeDirectoryKeeps
<1>5. CASE NewIdentity(p)
  BY <1>5, NewIdentityKeeps
<1>6. CASE NewBound(p)
  BY <1>6, NewBoundKeeps
<1>7. CASE LockPath(p)
  BY <1>7, LockPathKeeps
<1>8. CASE BindIdentity(p)
  BY <1>8, BindIdentityKeeps
<1>9. CASE ResumeRead(p)
  BY <1>9, ResumeReadKeeps
<1>10. CASE ResumeCheck(p)
  BY <1>10, ResumeCheckKeeps
<1>11. CASE Adopt(p)
  BY <1>11, AdoptKeeps
<1>12. CASE MakeWorkspace(p)
  BY <1>12, MakeWorkspaceKeeps
<1>13. CASE Launch(p)
  BY <1>13, LaunchKeeps
<1>14. CASE DeleteRead(p)
  BY <1>14, DeleteReadKeeps
<1>15. CASE RecoverRead(p)
  BY <1>15, RecoverReadKeeps
<1>16. CASE RecoverSave(p)
  BY <1>16, RecoverSaveKeeps
<1>17. CASE Begin(p)
  BY <1>17, BeginKeeps
<1>18. CASE DeleteRuntime(p)
  BY <1>18, DeleteRuntimeKeeps
<1>19. CASE DeleteWorkspace(p)
  BY <1>19, DeleteWorkspaceKeeps
<1>20. CASE Tombstone(p)
  BY <1>20, TombstoneKeeps
<1>21. CASE Wipe(p)
  BY <1>21, WipeKeeps
<1>22. CASE RemoveDirectory(p)
  BY <1>22, RemoveDirectoryKeeps
<1>23. CASE Gone(p)
  BY <1>23, GoneKeeps
<1>24. QED
  BY <1>1, <1>2, <1>3, <1>4, <1>5, <1>6, <1>7, <1>8, <1>9, <1>10, <1>11, <1>12,
     <1>13, <1>14, <1>15, <1>16, <1>17, <1>18, <1>19, <1>20, <1>21, <1>22, <1>23
     DEF Step

LEMMA InitIInv == Init => IInv
<1> SUFFICES ASSUME Init
             PROVE  IInv
  OBVIOUS
<1>1. PICK old \in SUBSET Sessions :
          disk = [s \in Sessions |->
                      [dir |-> s \in old, registered |-> FALSE,
                       workspace |-> FALSE, runtime |-> FALSE,
                       saved |-> IF s \in old THEN "bare" ELSE None]]
  BY DEF Init
<1>2. ASSUME NEW s \in Sessions
      PROVE  /\ disk[s] \in Disk /\ ~disk[s].workspace /\ ~disk[s].runtime
             /\ disk[s].dir <=> s \in old
             /\ disk[s].saved = IF s \in old THEN "bare" ELSE None
  <2> DEFINE inOld == s \in old
  <2>1. /\ disk[s] = [dir |-> inOld, registered |-> FALSE, workspace |-> FALSE,
                      runtime |-> FALSE, saved |-> IF inOld THEN "bare" ELSE None]
        /\ inOld \in BOOLEAN
    BY <1>1
  <2> HIDE DEF inOld
  <2>2. disk[s] \in Disk
    BY <2>1 DEF Disk
  <2>3. /\ ~disk[s].workspace /\ ~disk[s].runtime
        /\ disk[s].dir <=> inOld
        /\ disk[s].saved = IF inOld THEN "bare" ELSE None
    BY <2>1
  <2>4. QED
    BY <2>2, <2>3 DEF inOld
<1>3. disk \in [Sessions -> Disk]
  BY <1>1, <1>2
<1>4. record = [s \in Sessions |-> NoRecord] /\ NoRecord \in Lifecycle
  BY DEF Init, NoRecord, Lifecycle
<1>5. lock \in [Sessions -> Lock]
  BY DEF Init, Unlocked, Lock
<1>6. app = [p \in Processes |-> Started] /\ Started \in App
  BY StartedType DEF Init
<1>7. history \in History
  BY DEF Init, History, SessionAssumption
<1>8. Typed
  BY <1>3, <1>4, <1>5, <1>6, <1>7 DEF Typed
<1>9. \A s \in Sessions : Sound(s)
  BY <1>2, <1>4 DEF Sound, Alive, NoRecord, Tombs, None
<1>10. ASSUME NEW p \in Processes
       PROVE  Local(p, app[p])
  <2>1. app[p].at = "idle" /\ app[p].seen = NoRecord /\ app[p].cur = None
    BY <1>6 DEF Started
  <2>2. QED
    BY <2>1 DEF Local, InSession, SaveWell, Approach, Deleting, NoRecord, Tombs,
       Making, Reading, Locking, Binding, Holding, Removing, Saving, AfterLock,
       AfterBind
<1>11. QED
  BY <1>8, <1>9, <1>10 DEF IInv

LEMMA NextIInv == IInv /\ [Next]_vars => IInv'
<1> SUFFICES ASSUME IInv, [Next]_vars
             PROVE  IInv'
  OBVIOUS
<1>1. CASE UNCHANGED vars
  BY <1>1 DEF vars, IInv, Typed, Sound, Local, InSession, SaveWell, Approach,
     Deleting, Alive, Doomed, Both
<1>2. ASSUME NEW p \in Processes, Step(p) \/ Command(p) \/ Fail(p) \/ Exit(p)
      PROVE  IInv'
  BY <1>2, StepKeeps, CommandKeeps, FailKeeps, ExitKeeps, KeepsAll
<1>3. QED
  BY <1>1, <1>2 DEF Next

(* The invariant holds of every run.                                        *)
THEOREM SessionInvariant == Spec => []IInv
  BY InitIInv, NextIInv, PTL DEF Spec

(* The types are right, and who is in a session holds both its locks.       *)
THEOREM SessionTypeCorrect == Spec => []TypeOK
<1>1. IInv => TypeOK
  BY DEF IInv, TypeOK, Typed, App, Lock, History, Local, InSession, Both, Target
<1>2. QED
  BY <1>1, SessionInvariant, PTL

(* Two processes never use one session, in whatever way each came to it,    *)
(* and the session a process is in has a directory (OneUser).               *)
THEOREM OneUserCorrect == Spec => []OneUser
<1>1. IInv => OneUser
  <2> SUFFICES ASSUME IInv, NEW p \in Processes, NEW q \in Processes,
                      NEW s \in Sessions
               PROVE  /\ Uses(p, s) /\ Uses(q, s) => p = q
                      /\ app[p].cur = s /\ ~At(p, "gone") => disk[s].dir
    BY DEF OneUser
  <2>1. ASSUME NEW r \in Processes, Uses(r, s)
        PROVE  lock[s].id = r
    BY <2>1 DEF IInv, Uses, Target, At, Leased, Local, InSession, Approach,
       Deleting, Both, Making, Holding, Removing
  <2>2. app[p].cur = s /\ ~At(p, "gone") => disk[s].dir
    BY DEF IInv, At, Local, InSession
  <2>3. QED
    BY <2>1, <2>2
<1>2. QED
  BY <1>1, SessionInvariant, PTL

(* No workspace outlives its session's directory, and no runtime but one    *)
(* that was launched next to a deletion that did not know of it             *)
(* (ReleasedFirst).                                                         *)
THEOREM ReleasedFirstCorrect == Spec => []ReleasedFirst
<1>1. IInv => ReleasedFirst
  BY DEF IInv, Sound, Alive, ReleasedFirst, None
<1>2. QED
  BY <1>1, SessionInvariant, PTL

-----------------------------------------------------------------------------
(* What was said is kept.                                                   *)

(* Only a deletion takes a state away, and it holds a session that is       *)
(* doomed.                                                                  *)
LEMMA SavedKept ==
    ASSUME IInv, NEW p \in Processes,
           Step(p) \/ Command(p) \/ Fail(p) \/ Exit(p),
           NEW s \in Sessions, ~Doomed(s)
    PROVE  disk'[s].saved # None
<1>1. Typed
  BY DEF IInv
<1>2. disk[s].saved # None /\ s \notin history.asked
  BY DEF Doomed
<1>3. CASE SaveState(p)
  BY <1>1, <1>2, <1>3 DEF SaveState, Typed, Disk, None
<1>4. CASE Wipe(p)
  <2>1. app[p].tgt # s /\ app[p].tgt \in Sessions
    BY <1>4 DEF IInv, Local, Deleting, Wipe, At, Removing
  <2>2. QED
    BY <1>1, <1>2, <1>4, <2>1 DEF Wipe, Target, Typed
<1>5. CASE MakeDirectory(p) \/ NewIdentity(p) \/ MakeWorkspace(p) \/ Launch(p)
  BY <1>1, <1>2, <1>5 DEF MakeDirectory, NewIdentity, MakeWorkspace, Launch,
     Refuse, Typed, Disk
<1>6. CASE BindIdentity(p) \/ DeleteRuntime(p) \/ DeleteWorkspace(p)
           \/ RemoveDirectory(p)
  BY <1>1, <1>2, <1>6 DEF BindIdentity, DeleteRuntime, DeleteWorkspace,
     RemoveDirectory, Refuse, Typed, Disk
<1>7. CASE disk' = disk
  BY <1>2, <1>7
<1>8. Command(p) \/ Fail(p) \/ Exit(p) => disk' = disk
  BY DEF Command, New, Python, Resume, Load, Delete, SaveFirst, Fail, Exit
<1>9. Step(p) => \/ SaveState(p) \/ Wipe(p) \/ disk' = disk
                 \/ MakeDirectory(p) \/ NewIdentity(p) \/ MakeWorkspace(p)
                 \/ Launch(p) \/ BindIdentity(p) \/ DeleteRuntime(p)
                 \/ DeleteWorkspace(p) \/ RemoveDirectory(p)
  BY DEF Step, CommitSaved, NewRecord, NewBound, LockPath, ResumeRead,
     ResumeCheck, Adopt, DeleteRead, RecoverRead, RecoverSave, Begin, Tombstone,
     Gone, Refuse
<1>10. QED
  BY <1>3, <1>4, <1>5, <1>6, <1>7, <1>8, <1>9

(* What the user has said is kept until a deletion is asked for, and the    *)
(* session is neither listed nor removed as a leftover, whatever crashes or *)
(* fails (WorkKept).                                                        *)
THEOREM WorkKeptCorrect == Spec => WorkKept
<1>1. IInv /\ IInv' /\ [Next]_vars =>
          [\A s \in Sessions :
               disk[s].saved # None /\ s \notin history'.asked =>
                   /\ disk'[s].saved # None /\ disk'[s].dir
                   /\ record'[s].state \notin Tombs]_vars
  <2> SUFFICES ASSUME IInv, IInv', Next, NEW s \in Sessions,
                      disk[s].saved # None, s \notin history'.asked
               PROVE  /\ disk'[s].saved # None /\ disk'[s].dir
                      /\ record'[s].state \notin Tombs
    OBVIOUS
  <2>1. PICK p \in Processes : Step(p) \/ Command(p) \/ Fail(p) \/ Exit(p)
    BY DEF Next
  <2>2. Keeps(p)
    BY <2>1, StepKeeps, CommandKeeps, FailKeeps, ExitKeeps
  <2>3. ~Doomed(s)
    BY <2>2 DEF Keeps, Grows, Doomed
  <2>4. disk'[s].saved # None
    BY <2>1, <2>3, SavedKept
  <2>5. Sound(s)'
    BY DEF IInv
  <2>6. QED
    BY <2>4, <2>5 DEF Sound, Doomed
<1>2. QED
  BY <1>1, SessionInvariant, PTL DEF Spec, WorkKept
=============================================================================
