---------------------------- MODULE BackgroundTasks ----------------------------
(* Shell commands that the model starts and works past: the registry, the    *)
(* supervisor of each process, the tool that waits for and stops them, and   *)
(* the notice of their end (background.rs, tools/background_task.rs, and the *)
(* part of the actor's loop that tells the notices).                         *)
EXTENDS Naturals, FiniteSets

CONSTANTS
    MaxStarts,  \* bound: tasks that are started
    MaxTasks    \* MAX_TASKS

ASSUME BackgroundAssumption == MaxStarts \in Nat /\ MaxTasks \in Nat

(* A task's place in the registry is the number in its name.                 *)
Ids == 1 .. MaxStarts
Modes == {"notify", "poll", "off"}
Targets == {"model", "user", "none"}
States == {"none", "running", "exited", "stopped", "forgotten"}
Processes == {"none", "running", "ended"}
Supervisors == {"none", "waiting", "grace", "killing", "draining",
                "exited", "stopped", "recorded", "done"}

(* How the end of a task came to the model: it asked for it by status or     *)
(* wait; a notice of it was put into the conversation; the notice was lost   *)
(* with a prompt that was refused; something showed it that keeps no account *)
(* (output, list, a stop that came too late, the summary in a request).      *)
(* "again": it had been told when a notice of it was made.                   *)
Ways == {"read", "noticed", "lost", "shown", "again"}

VARIABLES
    mode,    \* MODE
    task,    \* REGISTRY: the task of each id, also those that were forgotten
    proc,    \* the process of each task
    sup,     \* how far the supervisor of each task is
    tool,    \* the background_task call that waits, and whether it was woken
    engine,  \* whether a turn is under way, and whether Lethetic runs
    asked,   \* history: the tasks that were asked to stop in time
    told     \* history: how the end of each task came to the model

registry == <<task, proc, sup>>
observed == <<asked, told>>
vars == <<mode, task, proc, sup, tool, engine, asked, told>>

NoTask == [state |-> "none", notify |-> "none", stop |-> FALSE,
           delivered |-> FALSE, announced |-> FALSE]
NoCall == [kind |-> "none", id |-> 0, heard |-> FALSE]

Init ==
    /\ mode \in Modes
    /\ task = [i \in Ids |-> NoTask]
    /\ proc = [i \in Ids |-> "none"]
    /\ sup = [i \in Ids |-> "none"]
    /\ tool = NoCall
    /\ engine = [turn |-> FALSE, life |-> "up"]
    /\ asked = {}
    /\ told = [i \in Ids |-> {}]

Ended(t, i) == t[i].state \in {"exited", "stopped"}
Present(t)  == {i \in Ids : t[i].state = "running" \/ Ended(t, i)}
Started     == Cardinality({i \in Ids : task[i].state # "none"})

-----------------------------------------------------------------------------
(* The model's calls.  A turn runs one tool at a time.                       *)

MayCall == engine.turn /\ engine.life = "up" /\ tool.kind = "none"

Forgettable(t) == {i \in Present(t) : Ended(t, i) /\ t[i].delivered}

(* Oldest first, as long as there are too many.                              *)
ForgetOld(t) ==
    [i \in Ids |->
        IF /\ i \in Forgettable(t)
           /\ Cardinality({j \in Forgettable(t) : j < i}) + MaxTasks
                  < Cardinality(Present(t))
        THEN [t[i] EXCEPT !.state = "forgotten"]
        ELSE t[i]]

Start ==
    /\ MayCall
    /\ mode # "off"
    /\ Started < MaxStarts
    /\ \E target \in Targets :
           LET i == Started + 1
               notify == IF mode = "poll" /\ target = "model" THEN "user" ELSE target
           IN /\ task' = ForgetOld([task EXCEPT
                              ![i] = [NoTask EXCEPT !.state = "running",
                                                    !.notify = notify]])
              /\ proc' = [proc EXCEPT ![i] = "running"]
              /\ sup' = [sup EXCEPT ![i] = "waiting"]
    /\ UNCHANGED <<mode, tool, engine>>
    /\ UNCHANGED observed

(* The model reads that a task has ended, by status or wait, which counts as *)
(* delivered.  Seeded fault: it does not count, as with output.              *)
ReadUncounted(i) == told' = [told EXCEPT ![i] = @ \union {"read"}] /\ UNCHANGED task
Read(i) ==
    /\ told' = [told EXCEPT ![i] = @ \union {"read"}]
    /\ task' = [task EXCEPT ![i].delivered = TRUE]

Status(i) ==
    /\ MayCall
    /\ Ended(task, i)
    /\ Read(i)
    /\ UNCHANGED <<mode, proc, sup, tool, engine, asked>>

(* What shows the ends of tasks without counting them as delivered.          *)
Show(S) ==
    /\ told' = [i \in Ids |-> IF i \in S THEN told[i] \union {"shown"} ELSE told[i]]
    /\ UNCHANGED <<mode, tool, engine, asked>>
    /\ UNCHANGED registry

(* output, or a stop that comes too late.                                    *)
Glance(i) ==
    /\ MayCall
    /\ Ended(task, i)
    /\ Show({i})

List ==
    /\ MayCall
    /\ Show({i \in Ids : Ended(task, i)})

(* A request carries the block that the actor's loop made of the tasks; it   *)
(* may be older than a call that has told an end in the meantime.            *)
Summarize ==
    /\ MayCall
    /\ \E S \in SUBSET {i \in Ids : Ended(task, i) /\ task[i].notify = "model"} :
           Show(S)

(* Seeded fault: it listens for the task after.                             *)
ListenToNext(i) == tool' = [kind |-> "listening", id |-> i + 1, heard |-> FALSE]
Listen(i) == tool' = [kind |-> "listening", id |-> i, heard |-> FALSE]

BeginWait(i) ==
    /\ MayCall
    /\ i \in Present(task)
    /\ Listen(i)
    /\ UNCHANGED <<mode, engine>>
    /\ UNCHANGED registry
    /\ UNCHANGED observed

(* A stop comes too late when the supervisor has judged the end.            *)
InTime(S) == {i \in S : sup[i] \notin {"exited", "stopped"}}

StopTask(i) ==
    /\ MayCall
    /\ task[i].state = "running"
    /\ task' = [task EXCEPT ![i].stop = TRUE]
    /\ asked' = asked \union InTime({i})
    /\ Listen(i)
    /\ UNCHANGED <<mode, proc, sup, engine, told>>

(* wait() listens before it looks, so that an end in between is heard.       *)
Look ==
    /\ tool.kind = "listening"
    /\ \/ /\ Ended(task, tool.id)
          /\ Read(tool.id)
          /\ tool' = NoCall
       \/ /\ task[tool.id].state = "running"
          /\ tool' = [tool EXCEPT !.kind = "looked"]
          /\ UNCHANGED <<task, told>>
    /\ UNCHANGED <<mode, proc, sup, engine, asked>>

(* Seeded fault: it listens only from here on.                               *)
ListensLate == [tool EXCEPT !.kind = "asleep", !.heard = FALSE]
Sleeps      == [tool EXCEPT !.kind = "asleep"]

Sleep ==
    /\ tool.kind = "looked"
    /\ tool' = Sleeps
    /\ UNCHANGED <<mode, engine>>
    /\ UNCHANGED registry
    /\ UNCHANGED observed

Wake ==
    /\ tool.kind = "asleep"
    /\ tool.heard
    /\ Listen(tool.id)
    /\ UNCHANGED <<mode, engine>>
    /\ UNCHANGED registry
    /\ UNCHANGED observed

(* The time is up, or the turn is stopped.                                   *)
GiveUp ==
    /\ tool.kind = "asleep"
    /\ tool' = NoCall
    /\ UNCHANGED <<mode, engine>>
    /\ UNCHANGED registry
    /\ UNCHANGED observed

-----------------------------------------------------------------------------
(* A process and its supervisor.                                             *)

Exists(i) == engine.life # "gone" /\ proc[i] # "none"

(* By itself, or by a signal, which it may ignore unless it is SIGKILL.      *)
ProcessEnds(i) ==
    /\ Exists(i)
    /\ proc[i] = "running"
    /\ proc' = [proc EXCEPT ![i] = "ended"]
    /\ UNCHANGED <<mode, task, sup, tool, engine>>
    /\ UNCHANGED observed

Moves(i, from, to) ==
    /\ Exists(i)
    /\ sup[i] \in from
    /\ sup' = [sup EXCEPT ![i] = to]
    /\ UNCHANGED <<mode, task, proc, engine>>
    /\ UNCHANGED observed

(* child.wait returns.                                                       *)
Reap(i) ==
    /\ proc[i] = "ended"
    /\ Moves(i, {"waiting", "grace", "killing"}, "draining")
    /\ UNCHANGED tool

Terminate(i) ==
    /\ task[i].stop
    /\ Moves(i, {"waiting"}, "grace")
    /\ UNCHANGED tool

(* STOP_GRACE is over.  Seeded fault: the process is taken for ended.        *)
TakeForEnded(i) == Moves(i, {"grace"}, "draining") /\ UNCHANGED tool
Kill(i) ==
    /\ proc[i] = "running"
    /\ Moves(i, {"grace"}, "killing")
    /\ UNCHANGED tool

(* The output has been read to its end, or for two seconds.  The supervisor  *)
(* keeps what it found until it has the registry.                            *)
Verdict(i) == IF task[i].stop THEN "stopped" ELSE "exited"

Judge(i) ==
    /\ Exists(i)
    /\ sup[i] = "draining"
    /\ sup' = [sup EXCEPT ![i] = Verdict(i)]
    /\ task' = [task EXCEPT ![i].stop = TRUE]
    /\ UNCHANGED <<mode, proc, tool, engine>>
    /\ UNCHANGED observed

Record(i) ==
    /\ Exists(i)
    /\ sup[i] \in {"exited", "stopped"}
    /\ sup' = [sup EXCEPT ![i] = "recorded"]
    /\ task' = [task EXCEPT ![i].state = sup[i],
                            ![i].delivered = @ \/ task[i].notify = "none"]
    /\ UNCHANGED <<mode, proc, tool, engine>>
    /\ UNCHANGED observed

(* FINISHED.notify_waiters: whoever listens is woken, whatever it waits for. *)
NotifyWaiters(i) ==
    /\ Moves(i, {"recorded"}, "done")
    /\ tool' = [tool EXCEPT !.heard = @ \/ tool.kind # "none"]

-----------------------------------------------------------------------------
(* The actor.                                                                *)

StartTurn ==
    /\ engine.life = "up"
    /\ ~engine.turn
    /\ engine' = [engine EXCEPT !.turn = TRUE]
    /\ UNCHANGED <<mode, tool>>
    /\ UNCHANGED registry
    /\ UNCHANGED observed

EndTurn ==
    /\ engine.turn
    /\ tool.kind = "none"
    /\ engine' = [engine EXCEPT !.turn = FALSE]
    /\ UNCHANGED <<mode, tool>>
    /\ UNCHANGED registry
    /\ UNCHANGED observed

NextMode == CASE mode = "notify" -> "poll"
              [] mode = "poll"   -> "off"
              [] mode = "off"    -> "notify"

SwitchMode ==
    /\ engine.life = "up"
    /\ mode' = NextMode
    /\ UNCHANGED <<tool, engine>>
    /\ UNCHANGED registry
    /\ UNCHANGED observed

(* Seeded fault: the user is told of nothing while the model is not.         *)
AnnouncedWithNotices ==
    {i \in Ids : /\ Ended(task, i) /\ task[i].notify = "user" /\ ~task[i].announced
                 /\ mode = "notify"}
Announced == {i \in Ids : Ended(task, i) /\ task[i].notify = "user" /\ ~task[i].announced}
Untold    == {i \in Ids : Ended(task, i) /\ task[i].notify = "model" /\ ~task[i].delivered}

Taken == IF mode = "notify" THEN Untold ELSE {}

Due ==
    {i \in Ids : /\ Ended(task, i)
                 /\ \/ task[i].notify = "user" /\ ~task[i].announced
                    \/ task[i].notify = "model" /\ ~task[i].delivered /\ mode = "notify"}

(* What a notice of the tasks S does to what the model was told.             *)
Account(S, way) ==
    told' = [i \in Ids |->
                IF i \notin S THEN told[i]
                ELSE told[i] \union {way}
                     \union (IF told[i] \intersect {"read", "noticed"} = {}
                             THEN {} ELSE {"again"})]

(* The head of the actor's loop.  The prompt that carries the notices starts *)
(* a turn; or it is in the conversation and could not be saved or sent; or   *)
(* it is refused before that, because the Python policy or its preflight     *)
(* says no, or a signal has come in the meantime.                            *)
Push ==
    /\ engine.life = "up"
    /\ ~engine.turn
    /\ Due # {}
    /\ task' = [i \in Ids |->
                   IF i \in Announced
                   THEN [task[i] EXCEPT !.announced = TRUE, !.delivered = TRUE]
                   ELSE IF i \in Taken THEN [task[i] EXCEPT !.delivered = TRUE]
                   ELSE task[i]]
    /\ \/ /\ Taken # {}
          /\ engine' = [engine EXCEPT !.turn = TRUE]
          /\ Account(Taken, "noticed")
       \/ /\ \E way \in {"noticed", "lost"} : Account(Taken, way)
          /\ UNCHANGED engine
    /\ UNCHANGED <<mode, proc, sup, tool, asked>>

(* stop_all.  The processes are sent a SIGTERM.                              *)
Leave ==
    /\ engine.life = "up"
    /\ ~engine.turn
    /\ engine' = [engine EXCEPT !.life = "leaving"]
    /\ LET running == {i \in Ids : task[i].state = "running"} IN
       /\ task' = [i \in Ids |-> IF i \in running
                                 THEN [task[i] EXCEPT !.stop = TRUE] ELSE task[i]]
       /\ asked' = asked \union InTime(running)
    /\ UNCHANGED <<mode, proc, sup, tool, told>>

(* The runtime drops the supervisors, which kills what they have not reaped. *)
Gone ==
    /\ engine.life = "leaving"
    /\ engine' = [engine EXCEPT !.life = "gone"]
    /\ proc' = [i \in Ids |-> IF proc[i] = "none" THEN "none" ELSE "ended"]
    /\ UNCHANGED <<mode, task, sup, tool>>
    /\ UNCHANGED observed

-----------------------------------------------------------------------------

Supervisor(i) ==
    Reap(i) \/ Terminate(i) \/ Kill(i) \/ Judge(i) \/ Record(i) \/ NotifyWaiters(i)

Next ==
    \/ Start \/ Look \/ Sleep \/ Wake \/ GiveUp
    \/ \E i \in Ids : Status(i) \/ BeginWait(i) \/ StopTask(i) \/ Glance(i)
    \/ List \/ Summarize
    \/ \E i \in Ids : ProcessEnds(i)
    \/ \E i \in Ids : Supervisor(i)
    \/ StartTurn \/ EndTurn \/ SwitchMode \/ Push \/ Leave \/ Gone

Spec == Init /\ [][Next]_vars

(* Supervisors are scheduled, SIGKILL ends a process, a wait has a timeout,  *)
(* a turn ends, and every turn of the loop begins with Push.                 *)
Fairness ==
    /\ \A i \in Ids : WF_vars(Supervisor(i))
    /\ \A i \in Ids : WF_vars(sup[i] = "killing" /\ ProcessEnds(i))
    /\ WF_vars(Look) /\ WF_vars(Sleep) /\ WF_vars(Wake) /\ WF_vars(GiveUp)
    /\ SF_vars(EndTurn)
    /\ SF_vars(Push)

FairSpec == Spec /\ Fairness

-----------------------------------------------------------------------------

(* The state of the registry, the supervisors, the tool and the actor is     *)
(* well formed.                                                              *)
TypeOK ==
    /\ mode \in Modes
    /\ task \in [Ids -> [state : States, notify : Targets, stop : BOOLEAN,
                         delivered : BOOLEAN, announced : BOOLEAN]]
    /\ proc \in [Ids -> Processes]
    /\ sup \in [Ids -> Supervisors]
    /\ tool \in [kind : {"none", "listening", "looked", "asleep"}, id : 0 .. MaxStarts,
                 heard : BOOLEAN]
    /\ engine \in [turn : BOOLEAN, life : {"up", "leaving", "gone"}]
    /\ asked \subseteq Ids
    /\ told \in [Ids -> SUBSET Ways]

(* What the registry says of an end is true: the process has ended, and a    *)
(* task is recorded as stopped when and only when it was asked to, at the    *)
(* latest while the rest of its output was read; and a task is taken for     *)
(* running as long as its process runs (start, stop, stop_all).              *)
VerdictTrue ==
    \A i \in Ids :
        /\ Ended(task, i) => proc[i] = "ended" /\ (task[i].state = "stopped" <=> i \in asked)
        /\ proc[i] = "running" => task[i].state = "running"

(* A call that waits for a task is not asleep past its end: it has been, or  *)
(* is about to be, woken (wait, notify_waiters).                             *)
NoLostWakeup ==
    tool.kind = "asleep" /\ Ended(task, tool.id) =>
        tool.heard \/ sup[tool.id] = "recorded"

(* The notice of an end is used up.                                          *)
UsedUp(i) == told[i] \intersect {"read", "noticed", "lost"} # {}

(* No end is dropped, and no notice repeats what the model has asked for or  *)
(* been given a notice of.  What counts as delivered to the model is what it *)
(* read by status or wait, or was given a notice of, and nothing that merely *)
(* showed the end uses the notice up: a later one may repeat what output,    *)
(* list, a late stop or the summary showed.  The one loss is of the notices  *)
(* that were in a refused prompt (background.rs:710).  What is forgotten has *)
(* been told to the user or the model, unless nobody is to be told           *)
(* (take_model_notifications, mark_delivered, forget_old).                   *)
DeliveredIsTold ==
    \A i \in Ids :
        /\ task[i].notify = "model" => (task[i].delivered <=> UsedUp(i))
        /\ "again" \notin told[i]
        /\ task[i].state = "forgotten" =>
               task[i].notify = "none" \/ task[i].announced \/ UsedUp(i)

(* An end that is due is told, or its notice lost with a refused prompt,     *)
(* whatever turns, waits and stops come between, as long as Lethetic runs    *)
(* and the mode stays (the head of run_actor).                               *)
DueIsTold == \A i \in Ids : i \in Due ~> i \notin Due \/ engine.life # "up"
=============================================================================
