------------------------- MODULE BackgroundTasksProofs -------------------------
(* The safety properties of BackgroundTasks, for every number of tasks and   *)
(* every limit of the registry.                                              *)
(*                                                                           *)
(* The invariant follows one task at a time.  Life ties what the registry    *)
(* says of a task to where its supervisor and its process are; Blame says    *)
(* that the stop token, later the verdict that the supervisor carries, later *)
(* the state that it recorded, all tell whether a stop came in time; Told    *)
(* accounts for every task that counts as delivered.  Waits is about the     *)
(* call that waits, and Numbered says that a new task gets a fresh place.    *)
EXTENDS BackgroundTasks, FiniteSetTheorems, TLAPS

TaskRecord == [state : States, notify : Targets, stop : BOOLEAN,
               delivered : BOOLEAN, announced : BOOLEAN]

Judging == {"waiting", "grace", "killing", "draining"}
Judged  == {"exited", "stopped"}
Over    == {"recorded", "done"}

Life(i) ==
    /\ sup[i] = "none" <=> task[i].state = "none"
    /\ sup[i] = "none" <=> proc[i] = "none"
    /\ sup[i] \in Judging \union Judged => task[i].state = "running"
    /\ sup[i] \in Over => task[i].state \in {"exited", "stopped", "forgotten"}
    /\ sup[i] \in {"draining"} \union Judged \union Over => proc[i] = "ended"

Blame(i) ==
    /\ sup[i] = "none" => i \notin asked
    /\ sup[i] \in Judging => (task[i].stop <=> i \in asked)
    /\ sup[i] = "stopped" => i \in asked
    /\ sup[i] = "exited" => i \notin asked
    /\ Ended(task, i) => (task[i].state = "stopped" <=> i \in asked)

Told(i) ==
    /\ task[i].state = "none" => told[i] = {}
    /\ task[i].state = "forgotten" => task[i].delivered
    /\ UsedUp(i) => task[i].delivered
    /\ task[i].delivered =>
           \/ UsedUp(i)
           \/ task[i].notify = "none"
           \/ task[i].notify = "user" /\ task[i].announced
    /\ "again" \notin told[i]

Waits ==
    /\ tool.kind # "none" => tool.id \in Ids
    /\ tool.kind \in {"looked", "asleep"} /\ Ended(task, tool.id) =>
           tool.heard \/ sup[tool.id] = "recorded"

Numbered ==
    \E n \in 0 .. MaxStarts : \A i \in Ids : task[i].state # "none" <=> i <= n

IInv ==
    /\ \A i \in Ids : Life(i)
    /\ \A i \in Ids : Blame(i)
    /\ \A i \in Ids : Told(i)
    /\ Waits
    /\ Numbered

-----------------------------------------------------------------------------
(* The operators.                                                            *)

(* Forgetting changes the state of tasks that have ended and were delivered, *)
(* and nothing else.                                                         *)
LEMMA ForgetOldDoes ==
    ASSUME NEW t \in [Ids -> TaskRecord]
    PROVE  /\ ForgetOld(t) \in [Ids -> TaskRecord]
           /\ \A i \in Ids :
                  /\ ForgetOld(t)[i].notify = t[i].notify
                  /\ ForgetOld(t)[i].stop = t[i].stop
                  /\ ForgetOld(t)[i].delivered = t[i].delivered
                  /\ ForgetOld(t)[i].announced = t[i].announced
                  /\ \/ ForgetOld(t)[i].state = t[i].state
                     \/ /\ ForgetOld(t)[i].state = "forgotten"
                        /\ Ended(t, i)
                        /\ t[i].delivered
  <1> DEFINE Old(i) == /\ i \in Forgettable(t)
                       /\ Cardinality({j \in Forgettable(t) : j < i}) + MaxTasks
                              < Cardinality(Present(t))
  <1>1. \A i \in Ids : Old(i) => Ended(t, i) /\ t[i].delivered
    BY DEF Forgettable
  <1>2. ForgetOld(t) = [i \in Ids |-> IF Old(i) THEN [t[i] EXCEPT !.state = "forgotten"]
                                               ELSE t[i]]
    BY DEF ForgetOld
  <1> HIDE DEF Old
  <1>3. \A i \in Ids : [t[i] EXCEPT !.state = "forgotten"] \in TaskRecord
    BY DEF TaskRecord, States
  <1>4. ForgetOld(t) \in [Ids -> TaskRecord]
    BY <1>2, <1>3
  <1> QED
    BY <1>1, <1>2, <1>4 DEF TaskRecord

(* The next place in the registry is free.                                   *)
LEMMA StartedCounts ==
    ASSUME NEW n \in 0 .. MaxStarts,
           \A i \in Ids : task[i].state # "none" <=> i <= n
    PROVE  Started = n
  <1>1. MaxStarts \in Nat
    BY BackgroundAssumption
  <1>2. {i \in Ids : task[i].state # "none"} = 1 .. n
    BY <1>1 DEF Ids
  <1>3. Cardinality(1 .. n) = n
    BY <1>1, FS_Interval
  <1> QED
    BY <1>2, <1>3 DEF Started

LEMMA BackgroundInit == Init => TypeOK /\ IInv
  <1> SUFFICES ASSUME Init PROVE TypeOK /\ IInv
    OBVIOUS
  <1> USE BackgroundAssumption
  <1>1. TypeOK
    BY DEF Init, TypeOK, NoTask, NoCall, States, Targets, Processes, Supervisors
  <1>2. ASSUME NEW i \in Ids
        PROVE  Life(i) /\ Blame(i) /\ Told(i)
    BY DEF Init, NoTask, Life, Blame, Told, UsedUp, Ended, Judging, Judged, Over
  <1>3. Waits
    BY DEF Init, NoCall, Waits
  <1>4. Numbered
    <2>1. \A i \in Ids : task[i].state # "none" <=> i <= 0
      BY DEF Init, NoTask, Ids
    <2>2. 0 \in 0 .. MaxStarts
      OBVIOUS
    <2> QED
      BY <2>1, <2>2 DEF Numbered
  <1> QED
    BY <1>1, <1>2, <1>3, <1>4 DEF IInv

-----------------------------------------------------------------------------
(* The invariant and the step, one action at a time.                         *)

(* What touches neither the registry nor the observations can only disturb   *)
(* Waits.                                                                    *)
LEMMA RegistryKept ==
    ASSUME TypeOK, IInv, UNCHANGED registry, UNCHANGED observed, Waits'
    PROVE  IInv'
  BY DEF IInv, registry, observed, Life, Blame, Told, UsedUp, Ended, Numbered

LEMMA ToolKeeps ==
    ASSUME TypeOK, IInv,
           \/ Sleep \/ Wake \/ GiveUp \/ StartTurn \/ EndTurn \/ SwitchMode
           \/ \E i \in Ids : BeginWait(i)
    PROVE  TypeOK' /\ IInv'
  <1> USE BackgroundAssumption
  <1>1. UNCHANGED registry /\ UNCHANGED observed
    BY DEF Sleep, Wake, GiveUp, StartTurn, EndTurn, SwitchMode, BeginWait
  <1>2. TypeOK' /\ Waits'
    <2>1. CASE Sleep
      BY <2>1, <1>1 DEF Sleep, Sleeps, TypeOK, IInv, Waits, registry, observed, Ended
    <2>2. CASE Wake \/ \E i \in Ids : BeginWait(i)
      <3>1. PICK i \in Ids : tool' = [kind |-> "listening", id |-> i, heard |-> FALSE]
        BY <2>2 DEF Wake, BeginWait, Listen, IInv, Waits
      <3>2. i \in 0 .. MaxStarts
        BY DEF Ids
      <3>3. mode' = mode /\ engine' = engine
        BY <2>2 DEF Wake, BeginWait
      <3> QED
        BY <1>1, <3>1, <3>2, <3>3 DEF TypeOK, Waits, registry, observed
    <2>5. CASE GiveUp
      BY <2>5, <1>1 DEF GiveUp, NoCall, TypeOK, Waits, registry, observed
    <2>3. CASE StartTurn \/ EndTurn
      BY <2>3, <1>1 DEF StartTurn, EndTurn, TypeOK, IInv, Waits, registry, observed,
                        Ended
    <2>4. CASE SwitchMode
      BY <2>4, <1>1 DEF SwitchMode, NextMode, Modes, TypeOK, IInv, Waits, registry,
                        observed, Ended
    <2> QED
      BY <2>1, <2>2, <2>3, <2>4, <2>5
  <1> QED
    BY <1>1, <1>2, RegistryKept

LEMMA StartKeeps ==
    ASSUME TypeOK, IInv, Start
    PROVE  TypeOK' /\ IInv'
  <1> USE BackgroundAssumption
  <1>1. PICK n \in 0 .. MaxStarts : \A i \in Ids : task[i].state # "none" <=> i <= n
    BY DEF IInv, Numbered
  <1>2. Started = n
    BY <1>1, StartedCounts
  <1> DEFINE k == n + 1
  <1>3. k \in Ids /\ task[k].state = "none"
    BY <1>1, <1>2 DEF Start, Ids
  <1>4. PICK target \in Targets :
            LET notify == IF mode = "poll" /\ target = "model" THEN "user" ELSE target
            IN /\ task' = ForgetOld([task EXCEPT
                              ![k] = [NoTask EXCEPT !.state = "running",
                                                    !.notify = notify]])
               /\ proc' = [proc EXCEPT ![k] = "running"]
               /\ sup' = [sup EXCEPT ![k] = "waiting"]
    BY <1>2 DEF Start
  <1> DEFINE notify == IF mode = "poll" /\ target = "model" THEN "user" ELSE target
             new == [NoTask EXCEPT !.state = "running", !.notify = notify]
             t == [task EXCEPT ![k] = new]
  <1>5. new \in TaskRecord /\ new.state = "running" /\ new.stop = FALSE
        /\ new.delivered = FALSE
    BY DEF TaskRecord, NoTask, States, Targets
  <1> HIDE DEF new, notify
  <1>6. t \in [Ids -> TaskRecord] /\ t[k] = new /\ \A i \in Ids \ {k} : t[i] = task[i]
    BY <1>3, <1>5 DEF TypeOK, TaskRecord
  <1>7. task' = ForgetOld(t)
    BY <1>4 DEF new, notify
  <1>8. UNCHANGED <<mode, tool, engine, asked, told>> /\ tool.kind = "none"
    BY DEF Start, MayCall, observed
  <1> HIDE DEF t, k
  <1>9. TypeOK'
    <2>1. task' \in [Ids -> TaskRecord]
      BY <1>6, <1>7, ForgetOldDoes
    <2>2. proc' \in [Ids -> Processes] /\ sup' \in [Ids -> Supervisors]
      BY <1>3, <1>4 DEF TypeOK, Processes, Supervisors
    <2> QED
      BY <2>1, <2>2, <1>8 DEF TypeOK, TaskRecord
  <1>10. ASSUME NEW i \in Ids
         PROVE  Life(i)' /\ Blame(i)' /\ Told(i)'
    <2>1. /\ task'[i].notify = t[i].notify
          /\ task'[i].stop = t[i].stop
          /\ task'[i].delivered = t[i].delivered
          /\ task'[i].announced = t[i].announced
          /\ \/ task'[i].state = t[i].state
             \/ task'[i].state = "forgotten" /\ Ended(t, i) /\ t[i].delivered
      BY <1>6, <1>7, ForgetOldDoes
    <2>2. Life(i) /\ Blame(i) /\ Told(i)
      BY DEF IInv
    <2>3. CASE i = k
      <3>1. sup'[i] = "waiting" /\ proc'[i] = "running"
        BY <2>3, <1>3, <1>4 DEF TypeOK
      <3>2. /\ task'[i].state = "running" /\ ~task'[i].stop /\ ~task'[i].delivered
        BY <2>1, <2>3, <1>5, <1>6 DEF Ended
      <3>3. i \notin asked /\ told[i] = {}
        BY <2>2, <2>3, <1>3 DEF Life, Blame, Told, UsedUp
      <3> QED
        BY <3>1, <3>2, <3>3, <1>8 DEF Life, Blame, Told, UsedUp, Ended, Judging, Judged, Over
    <2>4. CASE i # k
      <3>1. sup'[i] = sup[i] /\ proc'[i] = proc[i] /\ t[i] = task[i]
        BY <2>4, <1>3, <1>4, <1>6 DEF TypeOK
      <3>2. Life(i)'
        BY <2>1, <2>2, <3>1 DEF Life, Ended, Judging, Judged, Over
      <3>3. Blame(i)'
        BY <2>1, <2>2, <3>1, <1>8 DEF Blame, Ended
      <3>4. Told(i)'
        BY <2>1, <2>2, <3>1, <1>8 DEF Told, UsedUp, Ended
      <3> QED
        BY <3>2, <3>3, <3>4
    <2> QED
      BY <2>3, <2>4
  <1>11. Numbered'
    <2>1. \A i \in Ids : task'[i].state # "none" <=> t[i].state # "none"
      BY <1>6, <1>7, ForgetOldDoes DEF Ended
    <2>2. \A i \in Ids : t[i].state # "none" <=> i <= k
      BY <1>1, <1>3, <1>5, <1>6 DEF k, Ids
    <2>3. k \in 0 .. MaxStarts
      BY <1>3 DEF Ids
    <2> QED
      BY <2>1, <2>2, <2>3 DEF Numbered
  <1>12. Waits'
    BY <1>8 DEF Waits
  <1> QED
    BY <1>9, <1>10, <1>11, <1>12 DEF IInv

(* The model reads the end of a task.                                        *)
LEMMA ReadKeeps ==
    ASSUME TypeOK, IInv, NEW j \in Ids, Ended(task, j), Read(j),
           UNCHANGED <<proc, sup, asked>>, tool' = tool \/ tool' = NoCall
    PROVE  IInv' /\ task' \in [Ids -> TaskRecord] /\ told' \in [Ids -> SUBSET Ways]
  <1>1. /\ task' \in [Ids -> TaskRecord]
        /\ task'[j] = [task[j] EXCEPT !.delivered = TRUE]
        /\ \A i \in Ids \ {j} : task'[i] = task[i]
    BY DEF Read, TypeOK, TaskRecord
  <1>2. \A i \in Ids : /\ task'[i].state = task[i].state
                       /\ task'[i].stop = task[i].stop
                       /\ task'[i].notify = task[i].notify
                       /\ task'[i].announced = task[i].announced
                       /\ task'[i].delivered = (task[i].delivered \/ i = j)
    BY <1>1 DEF TypeOK, TaskRecord
  <1>3. /\ told' \in [Ids -> SUBSET Ways]
        /\ told'[j] = told[j] \union {"read"}
        /\ \A i \in Ids \ {j} : told'[i] = told[i]
    BY DEF Read, TypeOK, Ways
  <1>4. ASSUME NEW i \in Ids
        PROVE  Life(i)' /\ Blame(i)'
    BY <1>2 DEF IInv, Life, Blame, Ended
  <1>5. ASSUME NEW i \in Ids
        PROVE  Told(i)'
    <2>1. Told(i)
      BY <1>5 DEF IInv
    <2>2. "again" \notin told'[i] /\ (UsedUp(i)' <=> UsedUp(i) \/ i = j)
      BY <1>3, <2>1 DEF Told, UsedUp
    <2>3. CASE i = j
      BY <1>2, <2>1, <2>2, <2>3 DEF Told, Ended
    <2>4. CASE i # j
      BY <1>2, <1>3, <2>1, <2>2, <2>4 DEF Told
    <2> QED
      BY <2>3, <2>4
  <1>6. Waits'
    BY <1>2 DEF IInv, Waits, NoCall, Ended
  <1>7. Numbered'
    BY <1>2 DEF IInv, Numbered
  <1> QED
    BY <1>1, <1>3, <1>4, <1>5, <1>6, <1>7 DEF IInv, TypeOK

(* What merely shows the ends of tasks changes nothing but the history.      *)
LEMMA ShowKeeps ==
    ASSUME TypeOK, IInv, List \/ Summarize \/ \E j \in Ids : Glance(j)
    PROVE  TypeOK' /\ IInv'
  <1>1. PICK S \in SUBSET {i \in Ids : Ended(task, i)} : Show(S)
    <2>1. CASE List
      BY <2>1 DEF List
    <2>2. CASE Summarize
      <3>1. PICK S \in SUBSET {i \in Ids : Ended(task, i) /\ task[i].notify = "model"} :
                Show(S)
        BY <2>2 DEF Summarize
      <3>2. S \in SUBSET {i \in Ids : Ended(task, i)}
        OBVIOUS
      <3> QED
        BY <3>1, <3>2
    <2>3. CASE \E j \in Ids : Glance(j)
      <3>1. PICK j \in Ids : Ended(task, j) /\ Show({j})
        BY <2>3 DEF Glance
      <3>2. {j} \in SUBSET {i \in Ids : Ended(task, i)}
        BY <3>1
      <3> QED
        BY <3>1, <3>2
    <2> QED
      BY <2>1, <2>2, <2>3
  <1>2. /\ UNCHANGED <<mode, task, proc, sup, tool, engine, asked>>
        /\ told' = [i \in Ids |-> IF i \in S THEN told[i] \union {"shown"} ELSE told[i]]
    BY <1>1 DEF Show, registry
  <1>3. told' \in [Ids -> SUBSET Ways]
    BY <1>2 DEF TypeOK, Ways
  <1>4. TypeOK'
    BY <1>2, <1>3 DEF TypeOK
  <1>5. ASSUME NEW i \in Ids
        PROVE  Told(i)'
    <2>1. Told(i)
      BY DEF IInv
    <2>2. /\ UsedUp(i)' <=> UsedUp(i)
          /\ "again" \in told'[i] <=> "again" \in told[i]
          /\ task[i].state = "none" => told'[i] = told[i]
      BY <1>2 DEF UsedUp, Ended
    <2> QED
      BY <1>2, <2>1, <2>2 DEF Told
  <1>6. \A i \in Ids : Life(i)' /\ Blame(i)'
    BY <1>2 DEF IInv, Life, Blame, Ended
  <1>7. Waits' /\ Numbered'
    BY <1>2 DEF IInv, Waits, Numbered, Ended
  <1> QED
    BY <1>4, <1>5, <1>6, <1>7 DEF IInv

LEMMA StatusKeeps ==
    ASSUME TypeOK, IInv, NEW j \in Ids, Status(j)
    PROVE  TypeOK' /\ IInv'
  <1>1. IInv' /\ task' \in [Ids -> TaskRecord] /\ told' \in [Ids -> SUBSET Ways]
    BY ReadKeeps DEF Status
  <1> QED
    BY <1>1 DEF Status, TypeOK, TaskRecord

LEMMA LookKeeps ==
    ASSUME TypeOK, IInv, Look
    PROVE  TypeOK' /\ IInv'
  <1> USE BackgroundAssumption
  <1>0. tool.id \in Ids
    BY DEF Look, IInv, Waits
  <1>1. CASE Ended(task, tool.id) /\ Read(tool.id) /\ tool' = NoCall
    <2>1. IInv' /\ task' \in [Ids -> TaskRecord] /\ told' \in [Ids -> SUBSET Ways]
      BY <1>0, <1>1, ReadKeeps DEF Look
    <2> QED
      BY <1>1, <2>1 DEF Look, TypeOK, TaskRecord, NoCall
  <1>2. CASE /\ task[tool.id].state = "running"
             /\ tool' = [tool EXCEPT !.kind = "looked"]
             /\ UNCHANGED <<task, told>>
    <2>1. UNCHANGED registry /\ UNCHANGED observed
      BY <1>2 DEF Look, registry, observed
    <2>2. Waits'
      BY <1>0, <1>2 DEF Look, TypeOK, Waits, Ended
    <2>3. TypeOK'
      BY <1>2 DEF Look, TypeOK
    <2> QED
      BY <2>1, <2>2, <2>3, RegistryKept
  <1> QED
    BY <1>1, <1>2 DEF Look

(* A stop sets the tokens of tasks that run, and of no other.                *)
LEMMA StopsKeep ==
    ASSUME TypeOK, IInv, NEW S \in SUBSET Ids,
           \A i \in S : task[i].state = "running",
           task' = [i \in Ids |-> IF i \in S THEN [task[i] EXCEPT !.stop = TRUE]
                                             ELSE task[i]],
           asked' = asked \union InTime(S),
           UNCHANGED <<proc, sup, told>>, Waits'
    PROVE  IInv' /\ task' \in [Ids -> TaskRecord] /\ asked' \subseteq Ids
  <1> DEFINE new(i) == IF i \in S THEN [task[i] EXCEPT !.stop = TRUE] ELSE task[i]
  <1>0. \A i \in Ids : new(i) \in TaskRecord
    BY DEF TypeOK, TaskRecord
  <1>1. task' \in [Ids -> TaskRecord]
    <2> HIDE DEF new
    <2>1. task' = [i \in Ids |-> new(i)]
      BY DEF new
    <2> QED
      BY <1>0, <2>1
  <1> HIDE DEF new
  <1>2. \A i \in Ids : /\ task'[i].state = task[i].state
                       /\ task'[i].notify = task[i].notify
                       /\ task'[i].announced = task[i].announced
                       /\ task'[i].delivered = task[i].delivered
                       /\ task'[i].stop = (task[i].stop \/ i \in S)
    BY DEF TypeOK, TaskRecord
  <1>3. \A i \in Ids : i \in asked' <=> i \in asked \/ (i \in S /\ sup[i] \notin Judged)
    BY DEF InTime, Judged
  <1>4. ASSUME NEW i \in Ids
        PROVE  Life(i)'
    BY <1>2 DEF IInv, Life
  <1>5. ASSUME NEW i \in Ids
        PROVE  Blame(i)'
    <2>1. Blame(i) /\ Life(i)
      BY DEF IInv
    <2>2. CASE i \in S
      BY <1>2, <1>3, <2>1, <2>2 DEF Blame, Life, Ended, Judging, Judged
    <2>3. CASE i \notin S
      BY <1>2, <1>3, <2>1, <2>3 DEF Blame, Ended
    <2> QED
      BY <2>2, <2>3
  <1>6. ASSUME NEW i \in Ids
        PROVE  Told(i)'
    <2>1. Told(i)
      BY <1>6 DEF IInv
    <2> QED
      BY <1>2, <2>1 DEF Told, UsedUp
  <1>7. Numbered'
    BY <1>2 DEF IInv, Numbered
  <1> QED
    BY <1>1, <1>4, <1>5, <1>6, <1>7 DEF IInv, InTime, TypeOK

LEMMA StopTaskKeeps ==
    ASSUME TypeOK, IInv, NEW j \in Ids, StopTask(j)
    PROVE  TypeOK' /\ IInv'
  <1> USE BackgroundAssumption
  <1>1. task' = [i \in Ids |-> IF i \in {j} THEN [task[i] EXCEPT !.stop = TRUE]
                                            ELSE task[i]]
    BY DEF StopTask, TypeOK
  <1>2. Waits' /\ tool' \in [kind : {"none", "listening", "looked", "asleep"},
                             id : 0 .. MaxStarts, heard : BOOLEAN]
    BY DEF StopTask, Listen, Waits, Ids
  <1>3. IInv' /\ task' \in [Ids -> TaskRecord] /\ asked' \subseteq Ids
    <2>1. {j} \in SUBSET Ids /\ \A i \in {j} : task[i].state = "running"
      BY DEF StopTask
    <2>2. asked' = asked \union InTime({j}) /\ UNCHANGED <<proc, sup, told>>
      BY DEF StopTask
    <2> QED
      BY <1>1, <1>2, <2>1, <2>2, StopsKeep
  <1> QED
    BY <1>2, <1>3 DEF StopTask, TypeOK, TaskRecord

LEMMA LeaveKeeps ==
    ASSUME TypeOK, IInv, Leave
    PROVE  TypeOK' /\ IInv'
  <1> DEFINE S == {i \in Ids : task[i].state = "running"}
  <1>1. /\ task' = [i \in Ids |-> IF i \in S THEN [task[i] EXCEPT !.stop = TRUE]
                                             ELSE task[i]]
        /\ asked' = asked \union InTime(S)
        /\ UNCHANGED <<proc, sup, told, mode, tool>>
        /\ engine' = [engine EXCEPT !.life = "leaving"]
    BY DEF Leave
  <1>2. S \in SUBSET Ids /\ \A i \in S : task[i].state = "running"
    OBVIOUS
  <1> HIDE DEF S
  <1>3. \A i \in Ids : task'[i].state = task[i].state
    BY <1>1 DEF TypeOK
  <1>4. Waits'
    BY <1>1, <1>3 DEF IInv, Waits, Ended
  <1>5. IInv' /\ task' \in [Ids -> TaskRecord] /\ asked' \subseteq Ids
    BY <1>1, <1>2, <1>4, StopsKeep
  <1> QED
    BY <1>1, <1>5 DEF TypeOK, TaskRecord

(* A process ends, by itself or with Lethetic.                               *)
LEMMA ProcessKeeps ==
    ASSUME TypeOK, IInv, (\E j \in Ids : ProcessEnds(j)) \/ Gone
    PROVE  TypeOK' /\ IInv'
  <1>1. UNCHANGED <<mode, task, sup, tool, asked, told>>
    BY DEF ProcessEnds, Gone, observed
  <1>2. proc' \in [Ids -> Processes]
    BY DEF ProcessEnds, Gone, TypeOK, Processes
  <1>3. \A i \in Ids : proc'[i] = proc[i] \/ (proc[i] # "none" /\ proc'[i] = "ended")
    BY DEF ProcessEnds, Gone, TypeOK, Processes
  <1>4. TypeOK'
    BY <1>1, <1>2 DEF ProcessEnds, Gone, TypeOK
  <1>5. ASSUME NEW i \in Ids
        PROVE  Life(i)'
    BY <1>1, <1>3 DEF IInv, Life
  <1> QED
    BY <1>1, <1>4, <1>5 DEF IInv, Blame, Told, UsedUp, Waits, Numbered, Ended

(* A supervisor moves, and nothing else does.                                *)
LEMMA MovesKeep ==
    ASSUME TypeOK, IInv, NEW j \in Ids, Reap(j) \/ Terminate(j) \/ Kill(j)
    PROVE  TypeOK' /\ IInv'
  <1>1. /\ UNCHANGED <<mode, task, proc, engine, tool, asked, told>>
        /\ sup[j] \in {"waiting", "grace", "killing"}
        /\ \E to \in {"grace", "killing", "draining"} :
               /\ sup' = [sup EXCEPT ![j] = to]
               /\ to = "draining" => proc[j] = "ended"
    BY DEF Reap, Terminate, Kill, Moves, observed
  <1>2. TypeOK'
    BY <1>1 DEF TypeOK, Supervisors
  <1>3. \A i \in Ids \ {j} : sup'[i] = sup[i]
    BY <1>1 DEF TypeOK
  <1>4. sup'[j] \in {"grace", "killing", "draining"}
        /\ (sup'[j] = "draining" => proc[j] = "ended")
    BY <1>1 DEF TypeOK
  <1>5. ASSUME NEW i \in Ids
        PROVE  Life(i)' /\ Blame(i)'
    <2>1. Life(i) /\ Blame(i)
      BY DEF IInv
    <2>2. CASE i = j
      BY <1>1, <1>4, <2>1, <2>2 DEF Life, Blame, Ended, Judging, Judged, Over
    <2>3. CASE i # j
      BY <1>1, <1>3, <2>1, <2>3 DEF Life, Blame, Ended
    <2> QED
      BY <2>2, <2>3
  <1>6. Waits'
    BY <1>1, <1>3 DEF IInv, Waits, Ended
  <1> QED
    BY <1>1, <1>2, <1>5, <1>6 DEF IInv, Told, UsedUp, Numbered

LEMMA JudgeKeeps ==
    ASSUME TypeOK, IInv, NEW j \in Ids, Judge(j)
    PROVE  TypeOK' /\ IInv'
  <1>1. /\ UNCHANGED <<mode, proc, engine, tool, asked, told>>
        /\ sup[j] = "draining"
        /\ sup' = [sup EXCEPT ![j] = Verdict(j)]
        /\ task' = [task EXCEPT ![j].stop = TRUE]
    BY DEF Judge, observed
  <1>2. task' \in [Ids -> TaskRecord] /\ sup' \in [Ids -> Supervisors]
    <2>1. Verdict(j) \in Supervisors
      BY DEF Verdict, Supervisors
    <2>2. task' \in [Ids -> TaskRecord]
      <3>1. task \in [Ids -> TaskRecord]
        BY DEF TypeOK, TaskRecord
      <3> DEFINE new == [task[j] EXCEPT !.stop = TRUE]
      <3>2. new \in TaskRecord
        <4>1. task[j] \in TaskRecord
          BY <3>1
        <4> QED
          BY <4>1 DEF TaskRecord
      <3>3. task' = [task EXCEPT ![j] = new]
        BY <1>1, <3>1
      <3> HIDE DEF new
      <3> QED
        BY <3>1, <3>2, <3>3
    <2> QED
      BY <1>1, <2>1, <2>2 DEF TypeOK
  <1>3. /\ \A i \in Ids \ {j} : sup'[i] = sup[i] /\ task'[i] = task[i]
        /\ sup'[j] = Verdict(j)
    BY <1>1 DEF TypeOK
  <1>4. \A i \in Ids : /\ task'[i].state = task[i].state
                       /\ task'[i].notify = task[i].notify
                       /\ task'[i].announced = task[i].announced
                       /\ task'[i].delivered = task[i].delivered
    BY <1>1 DEF TypeOK, TaskRecord
  <1>5. TypeOK'
    BY <1>1, <1>2 DEF TypeOK, TaskRecord
  <1>6. ASSUME NEW i \in Ids
        PROVE  Life(i)' /\ Blame(i)'
    <2>1. Life(i) /\ Blame(i)
      BY DEF IInv
    <2>2. CASE i = j
      BY <1>1, <1>3, <1>4, <2>1, <2>2
         DEF Life, Blame, Ended, Judging, Judged, Over, Verdict
    <2>3. CASE i # j
      BY <1>1, <1>3, <2>1, <2>3 DEF Life, Blame, Ended
    <2> QED
      BY <2>2, <2>3
  <1>7. Waits'
    BY <1>1, <1>3, <1>4 DEF IInv, Waits, Ended
  <1>8. ASSUME NEW i \in Ids
        PROVE  Told(i)'
    <2>1. Told(i)
      BY <1>8 DEF IInv
    <2> QED
      BY <1>1, <1>4, <2>1 DEF Told, UsedUp
  <1>9. Numbered'
    BY <1>4 DEF IInv, Numbered
  <1> QED
    BY <1>5, <1>6, <1>7, <1>8, <1>9 DEF IInv

LEMMA RecordKeeps ==
    ASSUME TypeOK, IInv, NEW j \in Ids, Record(j)
    PROVE  TypeOK' /\ IInv'
  <1>1. /\ UNCHANGED <<mode, proc, engine, tool, asked, told>>
        /\ sup[j] \in Judged
        /\ sup' = [sup EXCEPT ![j] = "recorded"]
        /\ task' = [task EXCEPT ![j].state = sup[j],
                                ![j].delivered = @ \/ task[j].notify = "none"]
    BY DEF Record, observed, Judged
  <1>2. task' \in [Ids -> TaskRecord] /\ sup' \in [Ids -> Supervisors]
    <2> DEFINE over == task[j].delivered \/ task[j].notify = "none"
               new == [task[j] EXCEPT !.state = sup[j], !.delivered = over]
    <2>1. task' = [task EXCEPT ![j] = new]
      BY <1>1 DEF TypeOK
    <2>2. over \in BOOLEAN
      BY DEF TypeOK
    <2> HIDE DEF over
    <2>3. task[j] \in TaskRecord /\ sup[j] \in States
      BY <1>1 DEF TypeOK, TaskRecord, States, Judged
    <2>5. new \in TaskRecord
      BY <2>2, <2>3 DEF TaskRecord
    <2> HIDE DEF new
    <2>4. task' \in [Ids -> TaskRecord]
      BY <2>1, <2>5 DEF TypeOK, TaskRecord
    <2> QED
      BY <1>1, <2>4 DEF TypeOK, Supervisors
  <1>3. /\ \A i \in Ids \ {j} : sup'[i] = sup[i] /\ task'[i] = task[i]
        /\ sup'[j] = "recorded"
    BY <1>1 DEF TypeOK
  <1>4. /\ task'[j].state = sup[j]
        /\ task'[j].notify = task[j].notify
        /\ task'[j].announced = task[j].announced
        /\ task'[j].delivered = (task[j].delivered \/ task[j].notify = "none")
    BY <1>1 DEF TypeOK, TaskRecord
  <1>5. TypeOK'
    BY <1>1, <1>2 DEF TypeOK, TaskRecord
  <1>6. ASSUME NEW i \in Ids
        PROVE  Life(i)' /\ Blame(i)'
    <2>1. Life(i) /\ Blame(i)
      BY DEF IInv
    <2>2. CASE i = j
      BY <1>1, <1>3, <1>4, <2>1, <2>2 DEF Life, Blame, Ended, Judging, Judged, Over
    <2>3. CASE i # j
      BY <1>1, <1>3, <2>1, <2>3 DEF Life, Blame, Ended
    <2> QED
      BY <2>2, <2>3
  <1>7. Waits'
    <2>1. CASE tool.kind = "none"
      BY <1>1, <2>1 DEF Waits
    <2>2. CASE tool.id = j
      BY <1>1, <1>3, <2>2 DEF IInv, Waits
    <2>3. CASE tool.kind # "none" /\ tool.id # j
      <3>1. tool.id \in Ids \ {j}
        BY <2>3 DEF IInv, Waits
      <3>2. task'[tool.id] = task[tool.id] /\ sup'[tool.id] = sup[tool.id]
        BY <1>3, <3>1
      <3> QED
        BY <1>1, <3>2 DEF IInv, Waits, Ended
    <2> QED
      BY <2>1, <2>2, <2>3
  <1>8. ASSUME NEW i \in Ids
        PROVE  Told(i)'
    <2>1. Told(i) /\ Life(i)
      BY <1>8 DEF IInv
    <2>2. CASE i = j
      BY <1>1, <1>4, <2>1, <2>2 DEF Told, UsedUp, Life, Judged
    <2>3. CASE i # j
      BY <1>1, <1>3, <2>1, <2>3 DEF Told, UsedUp
    <2> QED
      BY <2>2, <2>3
  <1>9. Numbered'
    <2>1. \A i \in Ids : task'[i].state # "none" <=> task[i].state # "none"
      BY <1>1, <1>3, <1>4 DEF IInv, Life, Judged
    <2> QED
      BY <2>1 DEF IInv, Numbered
  <1> QED
    BY <1>5, <1>6, <1>7, <1>8, <1>9 DEF IInv

LEMMA NotifyKeeps ==
    ASSUME TypeOK, IInv, NEW j \in Ids, NotifyWaiters(j)
    PROVE  TypeOK' /\ IInv'
  <1>1. /\ UNCHANGED <<mode, task, proc, engine, asked, told>>
        /\ sup[j] = "recorded"
        /\ sup' = [sup EXCEPT ![j] = "done"]
        /\ tool' = [tool EXCEPT !.heard = @ \/ tool.kind # "none"]
    BY DEF NotifyWaiters, Moves, observed
  <1>2. /\ \A i \in Ids \ {j} : sup'[i] = sup[i]
        /\ sup'[j] = "done"
    BY <1>1 DEF TypeOK
  <1>3. TypeOK'
    BY <1>1 DEF TypeOK, Supervisors
  <1>4. ASSUME NEW i \in Ids
        PROVE  Life(i)' /\ Blame(i)'
    <2>1. Life(i) /\ Blame(i)
      BY DEF IInv
    <2>2. CASE i = j
      BY <1>1, <1>2, <2>1, <2>2 DEF Life, Blame, Ended, Judging, Judged, Over
    <2>3. CASE i # j
      BY <1>1, <1>2, <2>1, <2>3 DEF Life, Blame, Ended
    <2> QED
      BY <2>2, <2>3
  <1>5. Waits'
    <2>1. tool'.kind = tool.kind /\ tool'.id = tool.id
          /\ (tool.kind # "none" => tool'.heard)
      BY <1>1 DEF TypeOK
    <2> QED
      BY <2>1 DEF IInv, Waits
  <1> QED
    BY <1>1, <1>3, <1>4, <1>5 DEF IInv, Told, UsedUp, Numbered

(* Each way in which the prompt ends tells of the notices that were taken.   *)
LEMMA AccountDoes ==
    ASSUME TypeOK, NEW S \in SUBSET Ids, NEW way \in {"noticed", "lost"},
           Account(S, way)
    PROVE  /\ told' \in [Ids -> SUBSET Ways]
           /\ \A i \in Ids \ S : told'[i] = told[i]
           /\ \A i \in S : UsedUp(i)'
           /\ \A i \in S : ~UsedUp(i) /\ "again" \notin told[i] => "again" \notin told'[i]
  <1> DEFINE new(i) == told[i] \union {way}
                       \union (IF told[i] \intersect {"read", "noticed"} = {}
                               THEN {} ELSE {"again"})
  <1>1. told' = [i \in Ids |-> IF i \notin S THEN told[i] ELSE new(i)]
    BY DEF Account
  <1>2. \A i \in Ids : told[i] \subseteq Ways
    BY DEF TypeOK
  <1>3. way \in Ways /\ "again" \in Ways /\ way # "again"
    BY DEF Ways
  <1>4. \A i \in Ids : new(i) \subseteq Ways
    BY <1>2, <1>3
  <1>5. \A i \in Ids : way \in new(i)
    OBVIOUS
  <1>6. \A i \in Ids : ~UsedUp(i) /\ "again" \notin told[i] => "again" \notin new(i)
    BY <1>3 DEF UsedUp
  <1> HIDE DEF new
  <1>7. told' \in [Ids -> SUBSET Ways]
    BY <1>1, <1>2, <1>4
  <1>8. \A i \in S : told'[i] = new(i)
    BY <1>1
  <1> QED
    BY <1>1, <1>5, <1>6, <1>7, <1>8 DEF UsedUp

LEMMA PushKeeps ==
    ASSUME TypeOK, IInv, Push
    PROVE  TypeOK' /\ IInv'
  <1>1. /\ UNCHANGED <<mode, proc, sup, tool, asked>>
        /\ task' = [i \in Ids |->
                       IF i \in Announced
                       THEN [task[i] EXCEPT !.announced = TRUE, !.delivered = TRUE]
                       ELSE IF i \in Taken THEN [task[i] EXCEPT !.delivered = TRUE]
                       ELSE task[i]]
    BY DEF Push
  <1>2. Announced \in SUBSET Ids /\ Taken \in SUBSET Ids
    BY DEF Announced, Taken, Untold
  <1>3. \A i \in Announced : Ended(task, i) /\ task[i].notify = "user"
    BY DEF Announced
  <1>4. \A i \in Taken : /\ Ended(task, i) /\ task[i].notify = "model"
                         /\ ~task[i].delivered
    BY DEF Taken, Untold
  <1>5. \E way \in {"noticed", "lost"} : Account(Taken, way)
    BY DEF Push
  <1>6. /\ told' \in [Ids -> SUBSET Ways]
        /\ \A i \in Ids \ Taken : told'[i] = told[i]
        /\ \A i \in Taken : UsedUp(i)'
        /\ \A i \in Taken :
               ~UsedUp(i) /\ "again" \notin told[i] => "again" \notin told'[i]
    BY <1>2, <1>5, AccountDoes
  <1>7. engine' \in [turn : BOOLEAN, life : {"up", "leaving", "gone"}]
    BY DEF Push, TypeOK
  <1>8. task' \in [Ids -> TaskRecord]
    BY ZenonT(60), <1>1 DEF TypeOK, TaskRecord
  <1>9. \A i \in Ids : /\ task'[i].state = task[i].state
                       /\ task'[i].notify = task[i].notify
                       /\ task'[i].stop = task[i].stop
                       /\ task'[i].announced = (task[i].announced \/ i \in Announced)
                       /\ task'[i].delivered =
                              (task[i].delivered \/ i \in Announced \/ i \in Taken)
    BY <1>1 DEF TypeOK, TaskRecord
  <1>10. TypeOK'
    BY <1>1, <1>6, <1>7, <1>8 DEF TypeOK, TaskRecord
  <1>11. ASSUME NEW i \in Ids
         PROVE  Life(i)' /\ Blame(i)'
    <2>1. Life(i) /\ Blame(i)
      BY DEF IInv
    <2>2. Life(i)'
      BY <1>1, <1>9, <2>1 DEF Life
    <2>3. Blame(i)'
      BY <1>1, <1>9, <2>1 DEF Blame, Ended
    <2> QED
      BY <2>2, <2>3
  <1>12. ASSUME NEW i \in Ids
         PROVE  Told(i)'
    <2>1. Told(i)
      BY DEF IInv
    <2>2. CASE i \in Taken
      <3>1. task'[i].delivered /\ task'[i].state \notin {"none", "forgotten"}
        BY <1>4, <1>9, <2>2 DEF Ended
      <3>2. UsedUp(i)' /\ "again" \notin told'[i]
        BY <1>4, <1>6, <2>1, <2>2 DEF Told
      <3> QED
        BY <3>1, <3>2 DEF Told
    <2>3. CASE i \notin Taken
      <3>1. told'[i] = told[i] /\ (UsedUp(i)' <=> UsedUp(i))
        BY <1>6, <2>3 DEF UsedUp
      <3> QED
        BY <1>3, <1>9, <2>1, <2>3, <3>1 DEF Told
    <2> QED
      BY <2>2, <2>3
  <1>13. Waits'
    BY <1>1, <1>9 DEF IInv, Waits, Ended
  <1>14. Numbered'
    BY <1>9 DEF IInv, Numbered
  <1> QED
    BY <1>10, <1>11, <1>12, <1>13, <1>14 DEF IInv

-----------------------------------------------------------------------------

LEMMA BackgroundStep ==
    ASSUME TypeOK, IInv, [Next]_vars
    PROVE  TypeOK' /\ IInv'
  <1>1. CASE Next
    BY <1>1, StartKeeps, LookKeeps, ToolKeeps, StatusKeeps, StopTaskKeeps, ProcessKeeps,
       MovesKeep, JudgeKeeps, RecordKeeps, NotifyKeeps, PushKeeps, LeaveKeeps, ShowKeeps
       DEF Next, Supervisor
  <1>2. CASE UNCHANGED vars
    BY <1>2 DEF vars, TypeOK, IInv, Life, Blame, Told, UsedUp, Waits, Numbered, Ended
  <1> QED
    BY <1>1, <1>2

LEMMA BackgroundInvariant == Spec => [](TypeOK /\ IInv)
  <1>1. TypeOK /\ IInv /\ [Next]_vars => (TypeOK /\ IInv)'
    BY BackgroundStep
  <1> QED
    BY <1>1, BackgroundInit, PTL DEF Spec

(* The state of the registry, the supervisors, the call that waits and the   *)
(* actor keeps its type (background.rs).                                     *)
THEOREM BackgroundTypeCorrect == Spec => []TypeOK
  BY BackgroundInvariant, PTL

(* For every number of tasks: what the registry says of an end is true of    *)
(* the process, and a task is recorded as stopped exactly when it was asked  *)
(* to stop before its supervisor had judged the end (start, stop, stop_all). *)
THEOREM VerdictCorrect == Spec => []VerdictTrue
  <1>1. TypeOK /\ IInv => VerdictTrue
    <2> SUFFICES ASSUME TypeOK, IInv, NEW i \in Ids
                 PROVE  /\ Ended(task, i) =>
                               proc[i] = "ended" /\ (task[i].state = "stopped" <=> i \in asked)
                        /\ proc[i] = "running" => task[i].state = "running"
      BY DEF VerdictTrue
    <2>1. Life(i) /\ Blame(i) /\ sup[i] \in Supervisors
      BY DEF IInv, TypeOK
    <2> QED
      BY <2>1 DEF Life, Blame, Ended, Judging, Judged, Over, Supervisors
  <1> QED
    BY <1>1, BackgroundInvariant, PTL

(* No end of a task slips between the look of a waiting call and its sleep   *)
(* (wait, notify_waiters).                                                   *)
THEOREM WakeupCorrect == Spec => []NoLostWakeup
  <1>1. IInv => NoLostWakeup
    BY DEF IInv, Waits, NoLostWakeup
  <1> QED
    BY <1>1, BackgroundInvariant, PTL

(* For every number of tasks and every limit of the registry: what counts as *)
(* delivered to the model it has read, or was given a notice of, or that     *)
(* notice was in a refused prompt; what merely showed an end never counts;   *)
(* no notice repeats another, or what was read; and nothing is forgotten     *)
(* that was told to nobody (take_model_notifications, mark_delivered,        *)
(* forget_old).                                                              *)
THEOREM DeliveredCorrect == Spec => []DeliveredIsTold
  <1>1. IInv => DeliveredIsTold
    <2> SUFFICES ASSUME IInv, NEW i \in Ids
                 PROVE  /\ task[i].notify = "model" => (task[i].delivered <=> UsedUp(i))
                        /\ "again" \notin told[i]
                        /\ task[i].state = "forgotten" =>
                               \/ task[i].notify = "none"
                               \/ task[i].announced
                               \/ UsedUp(i)
      BY DEF DeliveredIsTold
    <2>1. Told(i)
      BY DEF IInv
    <2> QED
      BY <2>1 DEF Told
  <1> QED
    BY <1>1, BackgroundInvariant, PTL
=============================================================================
