------------------------- MODULE ContainerCleanupProofs -------------------------
(* That no container is forgotten and no record cleared too early, for any   *)
(* containers, programs, bounds and limits of a pass, torn writes included.  *)
EXTENDS ContainerCleanup, TLAPS

USE CleanupAssumption

-----------------------------------------------------------------------------
(* Types.                                                                    *)

(* One worker, one record becomes another.                                   *)
LEMMA PutWorker ==
    ASSUME TypeOK, NEW c \in Containers, NEW w \in Worker,
           worker' = [worker EXCEPT ![c] = w]
    PROVE  worker' \in [Containers -> Worker] /\ worker'[c] = w
  BY DEF TypeOK

LEMMA PutRecord ==
    ASSUME TypeOK, NEW c \in Containers, NEW r \in Record,
           record' = [record EXCEPT ![c] = r]
    PROVE  record' \in [Containers -> Record] /\ record'[c] = r
  BY DEF TypeOK

LEMMA RecordTypes ==
    NoRecord \in Record /\ Fresh \in Record
  BY DEF NoRecord, Fresh, Record

LEMMA TryingType ==
    ASSUME NEW s \in BOOLEAN
    PROVE  Trying(s) \in Worker
  BY DEF Trying, Worker

Steps == {"none", "trying", "verified", "over", "lost"} \cup Holding

(* A worker goes on to a step.                                               *)
LEMMA GoesType ==
    ASSUME TypeOK, NEW c \in Containers, NEW step \in Steps, Goes(c, step)
    PROVE  /\ worker' \in [Containers -> Worker]
           /\ worker'[c].at = step /\ worker'[c].saved = worker[c].saved
  <1>1. worker[c] \in Worker
    BY DEF TypeOK
  <1>2. [worker[c] EXCEPT !.at = step] \in Worker
    BY <1>1 DEF Worker, Steps
  <1>3. worker' = [worker EXCEPT ![c] = [worker[c] EXCEPT !.at = step]]
    BY DEF Goes
  <1>4. worker' \in [Containers -> Worker] /\ worker'[c] = [worker[c] EXCEPT !.at = step]
    BY <1>2, <1>3, PutWorker
  <1> QED
    BY <1>1, <1>4 DEF Worker

(* A fault is counted.                                                       *)
LEMMA FaultType ==
    ASSUME TypeOK, Fault
    PROVE  faults' \in 0 .. MaxFaults
  BY DEF TypeOK, Fault

(* What podman has after a cleanup.                                          *)
LEMMA RemovedType ==
    ASSUME TypeOK, NEW c \in Containers, Removed(c) \/ NotRemoved(c)
    PROVE  /\ present' \subseteq present /\ coming' \subseteq coming
           /\ present' \subseteq Containers /\ coming' \subseteq Containers
           /\ NotRemoved(c) => faults' \in 0 .. MaxFaults
  BY FaultType DEF TypeOK, Removed, NotRemoved

(* A worker after its last attempt or a crash.                               *)
LEMMA EndedType ==
    ASSUME NEW w \in Worker
    PROVE  Ended(w) \in Worker
  BY DEF Ended, Worker

(* The steps of a worker keep the type.                                      *)
LEMMA WorkerType ==
    ASSUME TypeOK, NEW c \in Containers, WorkerStep(c)
    PROVE  TypeOK'
  <1>1. CASE Launch(c) \/ Appear(c) \/ Created(c) \/ Discard(c) \/ Drop(c)
             \/ BeginSave(c)
    <2>1. worker' \in [Containers -> Worker]
      BY <1>1, GoesType DEF TypeOK, Launch, Appear, Created, Discard, Drop,
                            BeginSave, Steps, Holding
    <2> QED
      BY <1>1, <2>1 DEF TypeOK, Launch, Appear, Created, Discard, Drop, BeginSave
  <1>2. CASE Discarded(c) \/ Try(c)
    <2>1. worker' \in [Containers -> Worker]
      BY <1>2, GoesType DEF Discarded, Try, Steps
    <2> QED
      BY <1>2, <2>1, RemovedType DEF TypeOK, Discarded, Try
  <1>3. CASE NotDiscarded(c)
    <2>1. worker' \in [Containers -> Worker]
      BY <1>3, GoesType DEF NotDiscarded, Steps, Holding
    <2> QED
      BY <1>3, <2>1, RemovedType DEF TypeOK, NotDiscarded
  <1>4. CASE Save(c) \/ SaveFails(c)
    <2>1. worker' \in [Containers -> Worker]
      BY <1>4, TryingType, PutWorker DEF Save, SaveFails
    <2>2. record' \in [Containers -> Record]
      BY <1>4, RecordTypes, PutRecord DEF TypeOK, Save, SaveFails
    <2> QED
      BY <1>4, <2>1, <2>2, FaultType DEF TypeOK, Save, SaveFails
  <1>5. CASE TryFails(c)
    <2>1. worker[c] \in Worker
      BY DEF TypeOK
    <2>2. ASSUME worker[c].tries > 1
          PROVE  Again(worker[c]) \in Worker
      BY <2>1, <2>2 DEF Again, Worker
    <2>3. worker' \in [Containers -> Worker]
      <3>1. CASE worker[c].tries > 1
        BY <1>5, <2>2, <3>1, PutWorker DEF TryFails
      <3>2. CASE ~(worker[c].tries > 1)
        BY <1>5, <2>1, <3>2, EndedType, PutWorker DEF TryFails
      <3> QED
        BY <3>1, <3>2
    <2> QED
      BY <1>5, <2>3, RemovedType DEF TypeOK, TryFails
  <1>6. CASE Clear(c) \/ ClearFails(c)
    <2>1. worker' \in [Containers -> Worker]
      BY <1>6, GoesType DEF Clear, ClearFails, Steps
    <2>2. record' \in [Containers -> Record]
      BY <1>6, RecordTypes, PutRecord DEF TypeOK, Clear, ClearFails
    <2> QED
      BY <1>6, <2>1, <2>2, FaultType DEF TypeOK, Clear, ClearFails
  <1>7. CASE Crash(c)
    <2>0. worker[c] \in Worker
      BY DEF TypeOK
    <2>1. worker' \in [Containers -> Worker]
      BY <1>7, <2>0, EndedType, PutWorker DEF Crash
    <2> QED
      BY <1>7, <2>1, FaultType DEF TypeOK, Crash, At
  <1> QED
    BY <1>1, <1>2, <1>3, <1>4, <1>5, <1>6, <1>7 DEF WorkerStep, Cleanup

(* A pass that becomes something that a pass can be.                         *)
LEMMA BecomesType ==
    ASSUME TypeOK, NEW p \in Probers, NEW s \in Pass, Becomes(p, s)
    PROVE  pass' \in [Probers -> Pass]
  BY DEF TypeOK, Becomes

LEMMA NoPassType == NoPass \in Pass
  BY DEF NoPass, Pass

(* The steps of a pass keep the type.                                        *)
LEMMA PassType ==
    ASSUME TypeOK, NEW p \in Probers, PassStep(p)
    PROVE  TypeOK'
  <1> DEFINE s == pass[p]
  <1>0. s \in Pass
    BY DEF TypeOK
  <1>1. CASE Probe(p)
    <2>1. [NoPass EXCEPT !.at = "listing"] \in Pass
      BY DEF NoPass, Pass
    <2>2. pass' \in [Probers -> Pass]
      BY <1>1, <2>1, BecomesType DEF Probe
    <2> QED
      BY <1>1, <2>2 DEF TypeOK, Probe
  <1>2. CASE List(p)
    <2>1. [s EXCEPT !.at = "reading", !.listed = Filed] \in Pass
      BY <1>0 DEF Filed, Pass
    <2>2. pass' \in [Probers -> Pass]
      <3>1. CASE Tidy
        BY <1>2, <2>1, <3>1, BecomesType DEF List
      <3>2. CASE ~Tidy
        BY <1>2, <3>2, BecomesType, NoPassType DEF List
      <3> QED
        BY <3>1, <3>2
    <2> QED
      BY <1>2, <2>2 DEF TypeOK, List
  <1>3. CASE Read(p)
    <2>1. PICK c \in s.listed :
              Becomes(p, IF record[c].filed
                         THEN [s EXCEPT !.listed = @ \ {c},
                                   !.chosen = @ \cup {c},
                                   !.seen[c] = record[c].attempts]
                         ELSE NoPass)
      BY <1>3 DEF Read
    <2>2. c \in Containers /\ record[c] \in Record
      BY <1>0 DEF TypeOK, Pass
    <2>3. [s EXCEPT !.listed = @ \ {c}, !.chosen = @ \cup {c},
                    !.seen[c] = record[c].attempts] \in Pass
      BY <1>0, <2>2 DEF Pass, Record
    <2>4. pass' \in [Probers -> Pass]
      <3>1. CASE record[c].filed
        BY <2>1, <2>3, <3>1, BecomesType
      <3>2. CASE ~record[c].filed
        BY <2>1, <3>2, BecomesType, NoPassType
      <3> QED
        BY <3>1, <3>2
    <2> QED
      BY <1>3, <2>4 DEF TypeOK, Read
  <1>4. CASE Choose(p)
    <2>1. [s EXCEPT !.at = "working", !.chosen = Chosen(s)] \in Pass
      BY <1>0 DEF Chosen, Pass
    <2>2. pass' \in [Probers -> Pass]
      BY <1>4, <2>1, BecomesType DEF Choose
    <2> QED
      BY <1>4, <2>2 DEF TypeOK, Choose
  <1>5. ASSUME NEW c \in Containers, WorkOff(p, c) \/ WorkFails(p, c)
        PROVE  TypeOK'
    <2>1. /\ [s EXCEPT !.at = "clearing", !.chosen = @ \ {c}, !.now = {c}] \in Pass
          /\ [s EXCEPT !.at = "rewriting", !.chosen = @ \ {c}, !.now = {c}] \in Pass
      BY <1>0 DEF Pass
    <2>2. pass' \in [Probers -> Pass]
      BY <1>5, <2>1, BecomesType DEF WorkOff, WorkFails, Works
    <2> QED
      BY <1>5, <2>2, RemovedType DEF TypeOK, WorkOff, WorkFails, Works
  <1>6. ASSUME Onward(p)
        PROVE  pass' \in [Probers -> Pass]
    <2>1. [s EXCEPT !.at = "working", !.now = {}] \in Pass
      BY <1>0 DEF Pass
    <2> QED
      BY <1>6, <2>1, BecomesType DEF Onward
  <1>7. CASE ClearRecord(p)
    <2>1. record' \in [Containers -> Record]
      BY <1>7, RecordTypes DEF TypeOK, ClearRecord
    <2> QED
      BY <1>6, <1>7, <2>1 DEF TypeOK, ClearRecord
  <1>8. CASE Rewrite(p)
    <2>1. \A c \in Containers : OneMore(s.seen[c]) \in 0 .. MaxAttempts
      BY <1>0 DEF Pass, OneMore
    <2>2. record' \in [Containers -> Record]
      BY <1>8, <2>1 DEF TypeOK, Rewrite, Record
    <2> QED
      BY <1>6, <1>8, <2>2 DEF TypeOK, Rewrite
  <1>9. CASE RewriteFails(p)
    BY <1>6, <1>9, FaultType DEF TypeOK, RewriteFails
  <1>10. CASE EndPass(p) \/ Abandon(p)
    <2>1. pass' \in [Probers -> Pass]
      BY <1>10, BecomesType, NoPassType DEF EndPass, Abandon
    <2> QED
      BY <1>10, <2>1, FaultType DEF TypeOK, EndPass, Abandon
  <1> QED
    BY <1>1, <1>2, <1>3, <1>4, <1>5, <1>7, <1>8, <1>9, <1>10
       DEF PassStep, Progress

(* Nothing is under way at first.                                            *)
LEMMA InitType == Init => TypeOK
  <1> SUFFICES ASSUME Init
               PROVE  TypeOK
    OBVIOUS
  <1>1. worker \in [Containers -> Worker]
    BY DEF Init, Worker
  <1>2. record \in [Containers -> Record]
    BY DEF Init, Record, NoRecord
  <1>3. pass \in [Probers -> Pass]
    BY NoPassType DEF Init
  <1>4. /\ present \subseteq Containers /\ coming \subseteq Containers
        /\ litter \in BOOLEAN
    BY DEF Init
  <1>5. faults \in 0 .. MaxFaults
    BY DEF Init
  <1> QED
    BY <1>1, <1>2, <1>3, <1>4, <1>5 DEF TypeOK

LEMMA NextType == TypeOK /\ [Next]_vars => TypeOK'
  <1> SUFFICES ASSUME TypeOK, [Next]_vars
               PROVE  TypeOK'
    OBVIOUS
  <1>1. CASE UNCHANGED vars
    BY <1>1 DEF TypeOK, vars
  <1> QED
    BY <1>1, WorkerType, PassType DEF Next

(* The state of the containers, the workers, the records and the passes      *)
(* keeps its type, whatever is cleaned up and fails at the same time.        *)
THEOREM TypeCorrect == Spec => []TypeOK
  BY InitType, NextType, PTL DEF Spec

-----------------------------------------------------------------------------
(* Who answers for a container.  A record exists, and a pass knows of it,    *)
(* only after the worker is dropped; until then the worker answers for it,   *)
(* then the record, or nobody can.                                           *)

There(c) == c \in present \cup coming

Known(p, c) ==
    c \in pass[p].listed \cup pass[p].chosen \cup pass[p].now

Answered(c) == There(c) =>
    \/ worker[c].at \in Holding \cup {"lost"}
    \/ worker[c].at = "trying" /\ ~worker[c].saved
    \/ record[c].filed

(* What has not been launched or is verified to be gone is not there, and no *)
(* create command of it is under way.                                        *)
Clearing(p, c) == pass[p].at = "clearing" /\ c \in pass[p].now

Gone(c) ==
    worker[c].at \in {"none", "verified"} \/ (\E p \in Probers : Clearing(p, c)) =>
        ~There(c)

Unknown(c) ==
    worker[c].at \in {"none"} \cup Holding =>
        /\ ~worker[c].saved /\ ~record[c].filed
        /\ \A p \in Probers : ~Known(p, c)

Kept(c) == Answered(c) /\ Gone(c) /\ Unknown(c)

IInv == TypeOK /\ \A c \in Containers : Kept(c)

(* A cleanup leaves no container that was not there, and a successful one    *)
(* not that of which it is.                                                  *)
LEMMA Removes ==
    ASSUME NEW c, Removed(c) \/ NotRemoved(c), NEW d
    PROVE  /\ There(d)' => There(d)
           /\ Removed(c) => ~There(c)'
  BY DEF Removed, NotRemoved, There

(* A step of the worker of c leaves the other workers and records alone, and *)
(* the passes.                                                               *)
LEMMA WorkerAlone ==
    ASSUME TypeOK, NEW c \in Containers, WorkerStep(c),
           NEW d \in Containers, d # c
    PROVE  /\ worker'[d] = worker[d] /\ record'[d] = record[d]
           /\ There(d)' => There(d)
           /\ pass' = pass
  <1>1. worker'[d] = worker[d] /\ record'[d] = record[d] /\ pass' = pass
    BY DEF TypeOK, WorkerStep, Cleanup, Goes, Launch, Appear, Created, Discard,
           Drop, Discarded, NotDiscarded, BeginSave, Save, Try, TryFails, Clear,
           SaveFails, ClearFails, Crash
  <1>2. There(d)' => There(d)
    BY Removes DEF There, WorkerStep, Cleanup, Launch, Appear, Created, Discard,
           Drop, Discarded, NotDiscarded, BeginSave, Save, Try, TryFails, Clear,
           SaveFails, ClearFails, Crash
  <1> QED
    BY <1>1, <1>2

(* So they stay as they are.                                                 *)
LEMMA AloneKept ==
    ASSUME TypeOK, NEW c \in Containers, WorkerStep(c),
           NEW d \in Containers, d # c, Kept(d)
    PROVE  Kept(d)'
  BY WorkerAlone DEF Kept, Answered, Gone, Clearing, Unknown, Known

(* The container of a worker that takes a step is answered for afterwards.   *)
LEMMA WorkerKept ==
    ASSUME TypeOK, NEW c \in Containers, WorkerStep(c), Kept(c)
    PROVE  Kept(c)'
  <1> USE DEF Kept, Answered, Gone, Unknown
  <1>0. /\ pass' = pass
        /\ \A p \in Probers : /\ Known(p, c)' = Known(p, c)
                              /\ Clearing(p, c)' = Clearing(p, c)
    <2>1. pass' = pass
      BY DEF WorkerStep, Cleanup, Launch, Appear, Created, Discard, Drop,
             Discarded, NotDiscarded, BeginSave, Save, Try, TryFails, Clear,
             SaveFails, ClearFails, Crash
    <2> QED
      BY <2>1 DEF Known, Clearing
  <1>1. CASE Launch(c)
    <2>1. /\ worker[c].at = "none" /\ worker'[c].at = "creating"
          /\ worker'[c].saved = worker[c].saved /\ record' = record
      BY <1>1, GoesType DEF Launch, At, Steps, Holding
    <2>2. ~\E p \in Probers : Clearing(p, c)
      BY <2>1 DEF Known, Clearing
    <2> QED
      BY <1>0, <2>1, <2>2 DEF Holding
  <1>2. CASE Appear(c)
    <2>1. worker' = worker /\ record' = record /\ There(c)' = There(c)
      BY <1>2 DEF Appear, There
    <2> QED
      BY <1>0, <2>1
  <1>3. CASE Created(c) \/ Discard(c) \/ Drop(c) \/ BeginSave(c)
    <2>1. /\ worker[c].at \in Holding /\ worker'[c].at \in Holding
          /\ worker'[c].saved = worker[c].saved
      BY <1>3, GoesType DEF Created, Discard, Drop, BeginSave, At, Steps, Holding
    <2>2. pass' = pass /\ record' = record /\ There(c)' = There(c)
      BY <1>3 DEF Created, Discard, Drop, BeginSave, There
    <2> QED
      BY <1>0, <2>1, <2>2 DEF Holding
  <1>4. CASE Discarded(c) \/ Try(c)
    <2>1. ~There(c)' /\ pass' = pass /\ record' = record
      BY <1>4, Removes DEF Discarded, Try
    <2>2. worker'[c].at \in {"verified", "over"}
      BY <1>4, GoesType DEF Discarded, Try, Steps
    <2> QED
      BY <1>0, <2>1, <2>2 DEF Holding
  <1>5. CASE NotDiscarded(c)
    <2>1. /\ worker[c].at \in Holding /\ worker'[c].at \in Holding
          /\ worker'[c].saved = worker[c].saved
      BY <1>5, GoesType DEF NotDiscarded, At, Steps, Holding
    <2>2. pass' = pass /\ record' = record /\ (There(c)' => There(c))
      BY <1>5, Removes DEF NotDiscarded
    <2> QED
      BY <1>0, <2>1, <2>2 DEF Holding
  <1>6. CASE Save(c) \/ SaveFails(c)
    <2>1. /\ worker'[c].at = "trying" /\ pass' = pass
          /\ ~worker'[c].saved \/ record'[c].filed
          /\ There(c)' = There(c) /\ worker[c].at \in Holding
      BY <1>6 DEF Save, SaveFails, Trying, Fresh, At, TypeOK, There, Holding
    <2>2. ~\E p \in Probers : Clearing(p, c)
      BY <2>1 DEF Known, Clearing
    <2> QED
      BY <1>0, <2>1, <2>2 DEF Holding
  <1>7. CASE TryFails(c) \/ Crash(c)
    <2>1. /\ pass' = pass /\ record' = record /\ (There(c)' => There(c))
          /\ worker[c].at \in {"trying", "verified"} \cup Holding
      BY <1>7, Removes DEF TryFails, Crash, At, There
    <2>2. \/ /\ worker'[c].at = "trying" /\ worker[c].at = "trying"
             /\ worker'[c].saved = worker[c].saved
          \/ worker'[c].at = "over" /\ worker[c].saved
          \/ worker'[c].at = "lost"
      BY <1>7 DEF TryFails, Crash, Again, Ended, At, TypeOK, Worker
    <2>3. CASE worker'[c].at = "over" /\ worker[c].saved
      <3>1. worker[c].at \in {"trying", "verified"}
        BY <1>0, <2>1, <2>3 DEF Holding
      <3> QED
        BY <1>0, <2>1, <2>3, <3>1 DEF Holding
    <2>4. CASE worker'[c].at = "lost"
      BY <1>0, <2>1, <2>4 DEF Holding
    <2>5. CASE /\ worker'[c].at = "trying" /\ worker[c].at = "trying"
               /\ worker'[c].saved = worker[c].saved
      BY <1>0, <2>1, <2>5 DEF Holding
    <2> QED
      BY <2>2, <2>3, <2>4, <2>5
  <1>8. CASE Clear(c) \/ ClearFails(c)
    <2>1. ~There(c)' /\ pass' = pass
      BY <1>8 DEF Clear, ClearFails, At, There
    <2>2. worker'[c].at = "over"
      BY <1>8, GoesType DEF Clear, ClearFails, Steps
    <2> QED
      BY <1>0, <2>1, <2>2 DEF Holding
  <1> QED
    BY <1>1, <1>2, <1>3, <1>4, <1>5, <1>6, <1>7, <1>8 DEF WorkerStep, Cleanup
(* A pass learns of a container from its record, and files or clears it only *)
(* if it is at work on it.                                                   *)
LEMMA PassMoves ==
    ASSUME TypeOK, NEW p \in Probers, PassStep(p), NEW c \in Containers
    PROVE  /\ worker' = worker /\ (There(c)' => There(c))
           /\ \A q \in Probers : Known(q, c)' => Known(q, c) \/ record[c].filed
           /\ \A q \in Probers : Clearing(q, c)' => Clearing(q, c) \/ ~There(c)'
           /\ record'[c].filed => record[c].filed \/ Known(p, c)
           /\ record[c].filed => record'[c].filed \/ Clearing(p, c)
  <1> DEFINE s == pass[p]
  <1> DEFINE Told(t) == c \in t.listed \cup t.chosen \cup t.now
  <1>0. /\ s \in Pass
        /\ \A q \in Probers : q # p => pass'[q] = pass[q]
        /\ \A t : Becomes(p, t) => pass'[p] = t
    BY DEF TypeOK, PassStep, Progress, Becomes, Probe, List, Read, Choose, WorkOff,
           WorkFails, Works, Onward, ClearRecord, Rewrite, RewriteFails,
           EndPass, Abandon
  <1>1. SUFFICES
          /\ worker' = worker /\ (There(c)' => There(c))
          /\ Told(pass'[p]) => Told(s) \/ record[c].filed
          /\ pass'[p].at = "clearing" /\ c \in pass'[p].now =>
                 Clearing(p, c) \/ ~There(c)'
          /\ record'[c].filed => record[c].filed \/ Known(p, c)
          /\ record[c].filed => record'[c].filed \/ Clearing(p, c)
    BY <1>0 DEF Known, Clearing
  <1>2. ASSUME NEW t \in {NoPass, [NoPass EXCEPT !.at = "listing"]}
        PROVE  ~Told(t) /\ t.at # "clearing"
    BY DEF NoPass
  <1>3. CASE Probe(p) \/ EndPass(p) \/ Abandon(p)
    BY <1>0, <1>2, <1>3 DEF Probe, EndPass, Abandon, There
  <1>4. CASE List(p)
    <2>1. CASE Tidy
      <3>1. /\ pass'[p].listed = Filed /\ pass'[p].chosen = s.chosen
            /\ pass'[p].now = s.now /\ pass'[p].at = "reading"
        BY <1>0, <1>4, <2>1 DEF List, Pass
      <3> QED
        BY <1>4, <3>1 DEF List, Filed, There
    <2>2. CASE ~Tidy
      BY <1>0, <1>2, <1>4, <2>2 DEF List, There
    <2> QED
      BY <2>1, <2>2
  <1>5. CASE Read(p)
    <2>1. PICK d \in s.listed :
              Becomes(p, IF record[d].filed
                         THEN [s EXCEPT !.listed = @ \ {d},
                                   !.chosen = @ \cup {d},
                                   !.seen[d] = record[d].attempts]
                         ELSE NoPass)
      BY <1>5 DEF Read
    <2>2. CASE record[d].filed
      <3>1. /\ pass'[p].listed = s.listed \ {d}
            /\ pass'[p].chosen = s.chosen \cup {d}
            /\ pass'[p].now = s.now /\ pass'[p].at = s.at
        BY <1>0, <2>1, <2>2 DEF Pass
      <3> QED
        BY <1>5, <2>2, <3>1 DEF Read, There
    <2>3. CASE ~record[d].filed
      BY <1>0, <1>2, <1>5, <2>1, <2>3 DEF Read, There
    <2> QED
      BY <2>2, <2>3
  <1>6. CASE Choose(p)
    <2>1. /\ pass'[p].listed = s.listed /\ pass'[p].chosen = Chosen(s)
          /\ pass'[p].now = s.now /\ pass'[p].at = "working"
      BY <1>0, <1>6 DEF Choose, Pass
    <2>2. Chosen(s) \subseteq s.chosen
      BY DEF Chosen
    <2> QED
      BY <1>6, <2>1, <2>2 DEF Choose, There
  <1>7. ASSUME NEW d \in Containers, WorkOff(p, d) \/ WorkFails(p, d)
        PROVE  /\ worker' = worker /\ (There(c)' => There(c))
               /\ Told(pass'[p]) => Told(s) \/ record[c].filed
               /\ pass'[p].at = "clearing" /\ c \in pass'[p].now =>
                      Clearing(p, c) \/ ~There(c)'
               /\ record' = record
    <2>1. /\ worker' = worker /\ record' = record /\ (There(c)' => There(c))
          /\ d \in s.chosen
      BY <1>7, Removes DEF WorkOff, WorkFails, Works
    <2>2. /\ pass'[p].listed = s.listed /\ pass'[p].chosen = s.chosen \ {d}
          /\ pass'[p].now = {d}
          /\ pass'[p].at = IF WorkOff(p, d) THEN "clearing" ELSE "rewriting"
      BY <1>0, <1>7 DEF WorkOff, WorkFails, Works, Pass
    <2>3. WorkOff(p, d) => ~There(d)'
      BY Removes DEF WorkOff
    <2> QED
      BY <2>1, <2>2, <2>3
  <1>8. ASSUME Onward(p)
        PROVE  /\ pass'[p].listed = s.listed /\ pass'[p].chosen = s.chosen
               /\ pass'[p].now = {} /\ pass'[p].at = "working"
    BY <1>0, <1>8 DEF Onward, Pass
  <1>9. CASE ClearRecord(p)
    BY <1>8, <1>9 DEF ClearRecord, There, Known, Clearing
  <1>10. CASE Rewrite(p)
    BY <1>8, <1>10 DEF Rewrite, There, Known
  <1>11. CASE RewriteFails(p)
    BY <1>8, <1>11 DEF RewriteFails, There
  <1> QED
    BY <1>3, <1>4, <1>5, <1>6, <1>7, <1>9, <1>10, <1>11 DEF PassStep, Progress

(* So every container is answered for after the step of a pass.              *)
LEMMA PassKept ==
    ASSUME TypeOK, NEW p \in Probers, PassStep(p), NEW c \in Containers, Kept(c)
    PROVE  Kept(c)'
  <1> USE PassMoves
  <1>1. Answered(c)'
    BY DEF Kept, Answered, Gone
  <1>2. Gone(c)'
    BY DEF Kept, Gone
  <1>3. Unknown(c)'
    BY DEF Kept, Unknown
  <1> QED
    BY <1>1, <1>2, <1>3 DEF Kept

LEMMA InitKept == Init => IInv
  <1> SUFFICES ASSUME Init, NEW c \in Containers
               PROVE  Kept(c)
    BY InitType DEF IInv
  <1>1. ~There(c) /\ ~record[c].filed /\ ~worker[c].saved
    BY DEF Init, There, NoRecord
  <1>2. \A p \in Probers : ~Known(p, c)
    BY DEF Init, Known, NoPass
  <1> QED
    BY <1>1, <1>2 DEF Kept, Answered, Gone, Unknown

LEMMA NextKept == IInv /\ [Next]_vars => IInv'
  <1> SUFFICES ASSUME IInv, [Next]_vars
               PROVE  IInv'
    OBVIOUS
  <1>1. TypeOK /\ TypeOK'
    BY NextType DEF IInv
  <1>2. ASSUME NEW c \in Containers, WorkerStep(c), NEW d \in Containers
        PROVE  Kept(d)'
    BY <1>1, <1>2, WorkerKept, AloneKept DEF IInv
  <1>3. ASSUME NEW p \in Probers, PassStep(p), NEW d \in Containers
        PROVE  Kept(d)'
    BY <1>1, <1>3, PassKept DEF IInv
  <1>4. ASSUME UNCHANGED vars, NEW d \in Containers
        PROVE  Kept(d)'
    BY <1>4 DEF IInv, vars, Kept, Answered, Gone, Clearing, Unknown, Known, There
  <1> QED
    BY <1>1, <1>2, <1>3, <1>4 DEF Next, IInv

LEMMA Invariance == Spec => []IInv
  BY InitKept, NextKept, PTL DEF Spec

(* Whatever cuts off a creation, however often cleanups fail and whoever     *)
(* works off the queue at the same time, a container that podman has or may  *)
(* still get has a worker or a record that answers for it, unless its worker *)
(* ended before a record was saved.                                          *)
THEOREM NoneForgottenCorrect == Spec => []NoneForgotten
  <1>1. IInv => NoneForgotten
    BY DEF IInv, TypeOK, NoneForgotten, Kept, Answered, Gone, There
  <1> QED
    BY <1>1, Invariance, PTL

(* A record is cleared only when its container is gone for good: the one who *)
(* clears it has verified that, and nobody has brought it back since.        *)
THEOREM RecordKeptCorrect == Spec => RecordKept
  <1>1. ASSUME IInv, [Next]_vars, NEW c \in Containers,
               record[c].filed, ~record'[c].filed
        PROVE  c \notin present' \cup coming'
    <2>1. CASE UNCHANGED vars
      BY <1>1, <2>1 DEF vars
    <2>2. ASSUME NEW p \in Probers, PassStep(p)
          PROVE  ~There(c)'
      BY <1>1, <2>2, PassMoves DEF IInv, Kept, Gone
    <2>3. ASSUME NEW d \in Containers, WorkerStep(d)
          PROVE  ~There(c)'
      <3>1. c = d
        BY <1>1, <2>3, WorkerAlone DEF IInv
      <3>2. record' # record /\ record' # [record EXCEPT ![c] = Fresh]
        <4>1. ASSUME record' = [record EXCEPT ![c] = Fresh]
              PROVE  record'[c] = Fresh
          BY <1>1, <4>1, RecordTypes, PutRecord DEF IInv
        <4>2. Fresh.filed
          BY DEF Fresh
        <4> QED
          BY <1>1, <4>1, <4>2
      <3>3. Clear(c)
        BY <1>1, <2>3, <3>1, <3>2 DEF WorkerStep, Cleanup, Launch, Appear, Created,
           Discard, Drop, Discarded, NotDiscarded, BeginSave, Save, Try,
           TryFails, SaveFails, ClearFails, Crash
      <3> QED
        BY <1>1, <3>3 DEF IInv, Kept, Gone, Clear, At, There
    <2> QED
      BY <1>1, <2>1, <2>2, <2>3 DEF Next, There
  <1>2. IInv /\ [Next]_vars =>
            [\A c \in Containers : record[c].filed /\ ~record'[c].filed =>
                c \notin present' \cup coming']_vars
    BY <1>1
  <1> QED
    BY <1>2, Invariance, PTL DEF Spec, RecordKept
=============================================================================
