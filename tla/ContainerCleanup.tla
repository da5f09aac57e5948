---------------------------- MODULE ContainerCleanup ----------------------------
(* The containers of transient Python workers, who has to remove each, and   *)
(* the queue of cleanup records for what could not be removed at once        *)
(* (python/mod.rs, python/retained_podman/transient.rs and cleanup_queue.rs).*)
(* A container and its worker are one; what runs in it is left out.  Workers *)
(* and passes over the queue may be of different programs, so each comes to  *)
(* an end on its own; a crash of a program is one after another.             *)
EXTENDS Naturals, FiniteSets

CONSTANTS
    Containers,   \* numbered in the order of their records' file names
    Stuck,        \* those that podman refuses to remove
    Probers,      \* who may work off the queue at a time
    MaxPerPass,   \* MAX_TRANSIENT_CLEANUP_RECORDS_PER_RETRY
    MaxTries,     \* the attempts of a dropped worker
    MaxAttempts,  \* bound: where the attempts counter saturates
    MaxFaults,    \* bound: crashes, cancellations, failing calls
    TornWrites    \* whether a crash may come in the middle of a write

ASSUME CleanupAssumption ==
    /\ Containers \subseteq Nat /\ Stuck \subseteq Containers
    /\ MaxPerPass \in Nat \ {0} /\ MaxTries \in Nat \ {0}
    /\ MaxAttempts \in Nat /\ MaxFaults \in Nat
    /\ TornWrites \in BOOLEAN

VARIABLES
    present,  \* the containers that podman has
    coming,   \* those whose create command may still take effect
    worker,   \* the worker of each container, up to its last attempt
    record,   \* transient-python-cleanups/<name or id>.json
    litter,   \* a temporary file was left in that directory
    pass,     \* the passes over the records
    faults

vars == <<present, coming, worker, record, litter, pass, faults>>

(* creating: TransientCreationGuard without an id.  owned: a guard with one, *)
(* a CleanupOwner or a Worker.  discarding: its cleanup_now, or terminate.   *)
(* dropping to verified: Drop.  lost: nobody was left to remove it, and it   *)
(* was not recorded.  saved: cleanup_record is Some.                         *)
Holding  == {"creating", "owned", "discarding", "dropping", "saving"}
Worker == [at : {"none", "trying", "verified", "over", "lost"} \cup Holding,
           tries : 0 .. MaxTries, saved : BOOLEAN]
Record == [filed : BOOLEAN, attempts : 0 .. MaxAttempts]
NoRecord == [filed |-> FALSE, attempts |-> 0]
Fresh == [filed |-> TRUE, attempts |-> 0]

(* listed: entries still to be read.  chosen: records read, then those of    *)
(* them that are worked off.  seen: their attempts as read.  now: the one at *)
(* work.                                                                     *)
Pass == [at : {"idle", "listing", "reading", "working", "clearing",
               "rewriting"},
         listed : SUBSET Containers, chosen : SUBSET Containers,
         seen : [Containers -> 0 .. MaxAttempts], now : SUBSET Containers]
NoPass == [at |-> "idle", listed |-> {}, chosen |-> {},
           seen |-> [c \in Containers |-> 0], now |-> {}]

Init ==
    /\ present = {} /\ coming = {}
    /\ worker = [c \in Containers |->
                    [at |-> "none", tries |-> 0, saved |-> FALSE]]
    /\ record = [c \in Containers |-> NoRecord]
    /\ litter = FALSE
    /\ pass = [p \in Probers |-> NoPass]
    /\ faults = 0

-----------------------------------------------------------------------------
(* podman.                                                                   *)

Fault == faults < MaxFaults /\ faults' = faults + 1

(* A create command takes effect, perhaps after it was given up.             *)
Appear(c) ==
    /\ c \in coming
    /\ coming' = coming \ {c} /\ present' = present \cup {c}
    /\ UNCHANGED <<worker, record, litter, pass, faults>>

(* cleanup_interrupted_transient_create and cleanup_transient_container: the *)
(* container is absent now.  Without an id it is looked for five times by    *)
(* its name; a create that takes effect at all does so before the last look. *)
Removed(c) ==
    /\ c \in Stuck => c \notin present
    /\ present' = present \ {c} /\ coming' = coming \ {c}

(* They end with an error: podman refuses, or fails, after it has removed    *)
(* the container or before.                                                  *)
NotRemoved(c) ==
    /\ UNCHANGED coming
    /\ \/ c \in Stuck \cap present /\ UNCHANGED <<present, faults>>
       \/ Fault /\ present' \in {present, present \ ({c} \ Stuck)}

-----------------------------------------------------------------------------
(* The worker of a container.                                                *)

At(c, step) == worker[c].at = step
Goes(c, step) == worker' = [worker EXCEPT ![c].at = step]

Launch(c) ==
    /\ At(c, "none") /\ Goes(c, "creating")
    /\ coming' = coming \cup {c}
    /\ UNCHANGED <<present, record, litter, pass, faults>>

(* The id is known, from the command or from an inspection by name.          *)
Created(c) ==
    /\ At(c, "creating") /\ c \in present /\ Goes(c, "owned")
    /\ UNCHANGED <<present, coming, record, litter, pass, faults>>

(* The create fails, times out, or what it left cannot be attested; a start  *)
(* that goes wrong; and the end of a worker that was in use.                 *)
Discard(c) ==
    /\ worker[c].at \in {"creating", "owned"} /\ Goes(c, "discarding")
    /\ UNCHANGED <<present, coming, record, litter, pass, faults>>

Discarded(c) ==
    /\ At(c, "discarding") /\ Removed(c) /\ Goes(c, "over")
    /\ UNCHANGED <<record, litter, pass, faults>>

(* Seeded fault: the guard is disarmed although its cleanup failed.          *)
DisarmedAnyway(c) ==
    /\ At(c, "discarding") /\ NotRemoved(c) /\ Goes(c, "over")
    /\ UNCHANGED <<record, litter, pass>>

NotDiscarded(c) ==
    /\ At(c, "discarding") /\ NotRemoved(c) /\ Goes(c, "dropping")
    /\ UNCHANGED <<record, litter, pass>>

(* The future or the worker is dropped where it is.                          *)
Drop(c) ==
    /\ worker[c].at \in {"creating", "owned", "discarding"}
    /\ Goes(c, "dropping")
    /\ UNCHANGED <<present, coming, record, litter, pass, faults>>

(* persist_transient_cleanup_record: a temporary file, then its rename.      *)
Trying(saved) == [at |-> "trying", tries |-> MaxTries, saved |-> saved]

BeginSave(c) ==
    /\ At(c, "dropping") /\ Goes(c, "saving")
    /\ UNCHANGED <<present, coming, record, litter, pass, faults>>

Save(c) ==
    /\ At(c, "saving")
    /\ record' = [record EXCEPT ![c] = Fresh]
    /\ worker' = [worker EXCEPT ![c] = Trying(TRUE)]
    /\ UNCHANGED <<present, coming, litter, pass, faults>>

(* Also when only the rename could not be made durable.                      *)
SaveFails(c) ==
    /\ worker[c].at \in {"dropping", "saving"} /\ Fault
    /\ worker' = [worker EXCEPT ![c] = Trying(FALSE)]
    /\ \/ UNCHANGED record
       \/ At(c, "saving") /\ record' = [record EXCEPT ![c] = Fresh]
    /\ UNCHANGED <<present, coming, litter, pass>>

(* run_transient_creation_drop_cleanup and run_drop_cleanup.                 *)
Again(w) == [at |-> "trying", tries |-> w.tries - 1, saved |-> w.saved]
Ended(w) == [at |-> IF w.saved THEN "over" ELSE "lost", tries |-> 0,
             saved |-> w.saved]

Try(c) ==
    /\ At(c, "trying") /\ Removed(c)
    /\ Goes(c, IF worker[c].saved THEN "verified" ELSE "over")
    /\ UNCHANGED <<record, litter, pass, faults>>

TryFails(c) ==
    /\ At(c, "trying") /\ NotRemoved(c)
    /\ worker' = [worker EXCEPT ![c] = IF @.tries > 1 THEN Again(@)
                                       ELSE Ended(@)]
    /\ UNCHANGED <<record, litter, pass>>

Clear(c) ==
    /\ At(c, "verified") /\ Goes(c, "over")
    /\ record' = [record EXCEPT ![c] = NoRecord]
    /\ UNCHANGED <<present, coming, litter, pass, faults>>

ClearFails(c) ==
    /\ At(c, "verified") /\ Fault /\ Goes(c, "over")
    /\ UNCHANGED <<present, coming, record, litter, pass>>

(* The program ends without running any Drop, or the cleanup thread cannot   *)
(* be started.                                                               *)
Crash(c) ==
    /\ worker[c].at \in {"trying", "verified"} \cup Holding /\ Fault
    /\ At(c, "saving") => TornWrites
    /\ litter' = (litter \/ At(c, "saving"))
    /\ worker' = [worker EXCEPT ![c] = Ended(@)]
    /\ UNCHANGED <<present, coming, record, pass>>

-----------------------------------------------------------------------------
(* retry_pending_transient_cleanups_at, before each probe of podman.         *)

Becomes(p, s) == pass' = [pass EXCEPT ![p] = s]
Filed == {c \in Containers : record[c].filed}

(* A temporary file is no .json: an entry that fails the pass.               *)
Tidy ==
    /\ ~litter
    /\ \A c \in Containers : ~At(c, "saving")
    /\ \A p \in Probers : pass[p].at # "rewriting"

Probe(p) ==
    /\ pass[p].at = "idle" /\ Becomes(p, [NoPass EXCEPT !.at = "listing"])
    /\ UNCHANGED <<present, coming, worker, record, litter, faults>>

List(p) ==
    /\ pass[p].at = "listing"
    /\ Becomes(p, IF Tidy
                  THEN [pass[p] EXCEPT !.at = "reading", !.listed = Filed]
                  ELSE NoPass)
    /\ UNCHANGED <<present, coming, worker, record, litter, faults>>

(* A record that was cleared since the listing fails the pass, too.          *)
Read(p) ==
    /\ pass[p].at = "reading"
    /\ \E c \in pass[p].listed :
           Becomes(p, IF record[c].filed
                      THEN [pass[p] EXCEPT !.listed = @ \ {c},
                                !.chosen = @ \cup {c},
                                !.seen[c] = record[c].attempts]
                      ELSE NoPass)
    /\ UNCHANGED <<present, coming, worker, record, litter, faults>>

(* The order of the pending map: fewest attempts first, then by name.        *)
NameBefore(s, c, d) == c < d  \* seeded fault: nothing is ever put behind
Before(s, c, d) ==
    s.seen[c] < s.seen[d] \/ (s.seen[c] = s.seen[d] /\ c < d)

Chosen(s) ==
    {c \in s.chosen :
        Cardinality({d \in s.chosen : Before(s, d, c)}) < MaxPerPass}

Choose(p) ==
    /\ pass[p].at = "reading" /\ pass[p].listed = {}
    /\ Becomes(p, [pass[p] EXCEPT !.at = "working",
                                  !.chosen = Chosen(pass[p])])
    /\ UNCHANGED <<present, coming, worker, record, litter, faults>>

Works(p, c, step) ==
    /\ pass[p].at = "working" /\ c \in pass[p].chosen
    /\ \A d \in pass[p].chosen \ {c} : Before(pass[p], c, d)
    /\ Becomes(p, [pass[p] EXCEPT !.at = step, !.chosen = @ \ {c},
                                  !.now = {c}])
    /\ UNCHANGED <<worker, record, litter>>

WorkOff(p, c) ==
    Works(p, c, "clearing") /\ Removed(c) /\ UNCHANGED faults

WorkFails(p, c) == Works(p, c, "rewriting") /\ NotRemoved(c)

Onward(p) == Becomes(p, [pass[p] EXCEPT !.at = "working", !.now = {}])

ClearRecord(p) ==
    /\ pass[p].at = "clearing" /\ Onward(p)
    /\ record' = [c \in Containers |-> IF c \in pass[p].now
                                       THEN NoRecord ELSE record[c]]
    /\ UNCHANGED <<present, coming, worker, litter, faults>>

NoLimit(n) == n + 1  \* seeded fault: the counter does not saturate
OneMore(n) == IF n < MaxAttempts THEN n + 1 ELSE n

(* The record as it was read, counted up: it may have been cleared since.    *)
Rewrite(p) ==
    /\ pass[p].at = "rewriting" /\ Onward(p)
    /\ record' = [c \in Containers |->
                     IF c \in pass[p].now
                     THEN [filed |-> TRUE,
                           attempts |-> OneMore(pass[p].seen[c])]
                     ELSE record[c]]
    /\ UNCHANGED <<present, coming, worker, litter, faults>>

RewriteFails(p) ==
    /\ pass[p].at = "rewriting" /\ Onward(p) /\ Fault
    /\ UNCHANGED <<present, coming, worker, record, litter>>

EndPass(p) ==
    /\ pass[p].at = "working" /\ pass[p].chosen = {} /\ Becomes(p, NoPass)
    /\ UNCHANGED <<present, coming, worker, record, litter, faults>>

(* The probe is dropped, a record cannot be read or cleared, or the program  *)
(* crashes.                                                                  *)
Abandon(p) ==
    /\ pass[p].at # "idle" /\ Fault /\ Becomes(p, NoPass)
    /\ pass[p].at = "rewriting" => TornWrites
    /\ litter' = (litter \/ pass[p].at = "rewriting")
    /\ UNCHANGED <<present, coming, worker, record>>

-----------------------------------------------------------------------------

Cleanup(c) ==
    \/ Discarded(c) \/ NotDiscarded(c) \/ BeginSave(c) \/ Save(c)
    \/ Try(c) \/ TryFails(c) \/ Clear(c)

WorkerStep(c) ==
    \/ Launch(c) \/ Appear(c) \/ Created(c) \/ Discard(c) \/ Drop(c)
    \/ Cleanup(c) \/ SaveFails(c) \/ ClearFails(c) \/ Crash(c)

Progress(p) ==
    \/ List(p) \/ Read(p) \/ Choose(p)
    \/ \E c \in Containers : WorkOff(p, c) \/ WorkFails(p, c)
    \/ ClearRecord(p) \/ Rewrite(p) \/ EndPass(p)

PassStep(p) == Probe(p) \/ Progress(p) \/ RewriteFails(p) \/ Abandon(p)

Next ==
    \/ \E c \in Containers : WorkerStep(c)
    \/ \E p \in Probers : PassStep(p)

Spec == Init /\ [][Next]_vars

(* Once it has begun, a cleanup or a pass goes on: each podman command has   *)
(* its timeout.  Nothing makes a program probe podman.                       *)
FairSpec ==
    /\ Spec
    /\ \A c \in Containers : WF_vars(Cleanup(c))
    /\ \A p \in Probers : WF_vars(Progress(p))

-----------------------------------------------------------------------------

TypeOK ==
    /\ present \subseteq Containers /\ coming \subseteq Containers
    /\ worker \in [Containers -> Worker]
    /\ record \in [Containers -> Record]
    /\ litter \in BOOLEAN
    /\ pass \in [Probers -> Pass]
    /\ faults \in 0 .. MaxFaults

(* No container is forgotten: one that podman has, or may still get, has a   *)
(* worker or a cleanup record that answers for it, however creations are cut *)
(* off and whichever workers and passes clean up at the same time, unless    *)
(* its worker ended without a Drop or could not save the record.             *)
NoneForgotten ==
    \A c \in present \cup coming :
        worker[c].at \in Holding \cup {"trying", "lost"} \/ record[c].filed

(* A cleanup record is kept until the container is gone for good, although   *)
(* others may clear it, or file it again, at the same time.                  *)
RecordKept ==
    [][\A c \in Containers : record[c].filed /\ ~record'[c].filed =>
           c \notin present' \cup coming']_vars

(* Where podman is probed again and again, a record whose container can be   *)
(* removed is worked off, although others keep failing and a pass takes only *)
(* so many.                                                                  *)
Probed == []<>(\E p \in Probers : pass[p].at = "listing")

Drained ==
    Probed => \A c \in Containers \ Stuck : []<>(~record[c].filed)
=============================================================================
