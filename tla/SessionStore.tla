------------------------------ MODULE SessionStore ------------------------------
(* Durable chat sessions: their directories, the records of their lifecycle, *)
(* the locks that keep two processes of Lethetic off one session, and the    *)
(* Python runtime that belongs to each (session_store.rs, app/lifecycle.rs,  *)
(* app/session_state.rs, app/python_session.rs, session_load.rs).  A step    *)
(* ends at each durable write, at each lock and at each await, so that a     *)
(* crash, an error or another process can come between any two.              *)
EXTENDS Naturals

CONSTANTS
    Processes,  \* Lethetic processes on one project
    Sessions,   \* session ids, each with its directory name
    MaxFaults   \* bound: crashes, failed writes and cancellations

Free == "free"
None == "none"

ASSUME SessionAssumption ==
    MaxFaults \in Nat /\ Free \notin Processes /\ None \notin Sessions

Tombs == {"Deleting", "Deleted"}
Lifecycle == [state : {"none", "Creating", "Active"} \cup Tombs,
              bound : BOOLEAN, python : BOOLEAN]
NoRecord == [state |-> "none", bound |-> FALSE, python |-> FALSE]

VARIABLES
    record,  \* lifecycle-<id>.json; python: it names a runtime to delete
    disk,    \* what else is durable of each session
    lock,    \* who holds the flock of each path and of each identity
    app,     \* the processes: the session each is in, and how far it is
    history  \* for the properties, and the faults so far

vars == <<record, disk, lock, app, history>>

(* registered: identity-<id>.json exists.  saved: session_state.json, and    *)
(* whether it names a Python runtime.                                        *)
Disk == [dir : BOOLEAN, registered : BOOLEAN, workspace : BOOLEAN,
         runtime : BOOLEAN, saved : {None, "bare", "python"}]
Unlocked == [path |-> Free, id |-> Free]

(* at: the step the process is about to take, and then: the one after the    *)
(* save.  cur, python and committed: App.session_id, python_runtime_id and   *)
(* session_creation_committed.  tgt: the session the operation is about.     *)
(* seen: the record as it was read before the locks; found: whether a        *)
(* deletion has found a runtime to delete.                                   *)
Started == [at |-> "idle", then |-> "idle", cur |-> None, python |-> FALSE,
            committed |-> FALSE, tgt |-> None, seen |-> NoRecord,
            found |-> FALSE]

(* Sessions of an older version have a directory and a state, no records.    *)
Init ==
    /\ record = [s \in Sessions |-> NoRecord]
    /\ \E old \in SUBSET Sessions :
           disk = [s \in Sessions |->
                      [dir |-> s \in old, registered |-> FALSE,
                       workspace |-> FALSE, runtime |-> FALSE,
                       saved |-> IF s \in old THEN "bare" ELSE None]]
    /\ lock = [s \in Sessions |-> Unlocked]
    /\ app = [p \in Processes |-> Started]
    /\ history = [asked |-> {}, late |-> {}, faults |-> 0]

-----------------------------------------------------------------------------
(* Where an operation goes on, and how it ends.                              *)

At(p, step) == app[p].at = step
Target(p) == app[p].tgt

Onward(a, step) ==
    IF step = "idle"
    THEN [Started EXCEPT !.cur = a.cur, !.python = a.python,
                         !.committed = a.committed]
    ELSE [a EXCEPT !.at = step]

Becomes(p, a) == app' = [app EXCEPT ![p] = a]
Go(p, step) == Becomes(p, Onward(app[p], step))

Without(p, s) == [path |-> IF lock[s].path = p THEN Free ELSE lock[s].path,
                  id |-> IF lock[s].id = p THEN Free ELSE lock[s].id]

(* The lease of a session is dropped, unless there is none.                  *)
Drops(p, s) == lock' = IF s = None THEN lock
                       ELSE [lock EXCEPT ![s] = Without(p, s)]

(* Seeded fault: the lease goes with the operation, also the process's own.   *)
LeaveAll(p) == Go(p, "idle") /\ Drops(p, Target(p))

(* The operation is over: the lease of its target goes with it, unless the   *)
(* target is the session the process is in.                                  *)
Leave(p) ==
    /\ Go(p, "idle")
    /\ Drops(p, IF Target(p) = app[p].cur THEN None ELSE Target(p))

Refuse(p) == Leave(p) /\ UNCHANGED <<record, disk, history>>

(* A write or a call fails.                                                  *)
Fault ==
    /\ history.faults < MaxFaults
    /\ history' = [history EXCEPT !.faults = @ + 1]

(* Most commands save the session the process is in before all else.         *)
SaveFirst(p, step, s) ==
    /\ Becomes(p, [app[p] EXCEPT
                      !.at = IF app[p].cur = None THEN step ELSE "save",
                      !.then = step, !.tgt = s])
    /\ UNCHANGED <<record, disk, lock, history>>

-----------------------------------------------------------------------------
(* save_session_checked and commit_locked_session_creation.                  *)

SaveState(p) ==
    /\ At(p, "save")
    /\ disk' = [disk EXCEPT ![app[p].cur].saved =
                                IF app[p].python THEN "python" ELSE "bare"]
    /\ Go(p, IF app[p].committed THEN app[p].then ELSE "commit")
    /\ UNCHANGED <<record, lock, history>>

Commits(s) ==
    /\ disk[s].saved # None /\ record[s].state \notin Tombs
    /\ record' = [record EXCEPT ![s].state = "Active", ![s].bound = TRUE]

CommitSaved(p) ==
    /\ At(p, "commit")
    /\ \/ /\ Commits(app[p].cur)
          /\ Becomes(p, Onward([app[p] EXCEPT !.committed = TRUE], app[p].then))
          /\ UNCHANGED <<disk, lock, history>>
       \/ record[app[p].cur].state \in Tombs /\ Refuse(p)

-----------------------------------------------------------------------------
(* create_locked_session, and the rest of start_new_session_checked.         *)

Fresh(s) ==
    record[s] = NoRecord /\ ~disk[s].registered /\ ~disk[s].dir

New(p) == At(p, "idle") /\ SaveFirst(p, "new", None)

NewRecord(p) ==
    /\ At(p, "new")
    /\ \/ \E s \in Sessions :
              /\ Fresh(s) /\ lock[s].id = Free
              /\ lock' = [lock EXCEPT ![s].id = p]
              /\ record' = [record EXCEPT ![s].state = "Creating"]
              /\ Becomes(p, [app[p] EXCEPT !.at = "mkdir", !.tgt = s])
              /\ UNCHANGED <<disk, history>>
       \/ (\A s \in Sessions : ~Fresh(s)) /\ Refuse(p)

MakeDirectory(p) ==
    /\ At(p, "mkdir")
    /\ disk' = [disk EXCEPT ![Target(p)].dir = TRUE]
    /\ Go(p, "newLock")
    /\ UNCHANGED <<record, lock, history>>

NewIdentity(p) ==
    /\ At(p, "newBind")
    /\ disk' = [disk EXCEPT ![Target(p)].registered = TRUE]
    /\ Go(p, "newBound")
    /\ UNCHANGED <<record, lock, history>>

(* The record gets its binding; the new session becomes the one the process  *)
(* is in, the lease of the former one is dropped, and it is saved.           *)
NewBound(p) ==
    /\ At(p, "newBound")
    /\ record' = [record EXCEPT ![Target(p)] =
                     [state |-> "Creating", bound |-> TRUE, python |-> FALSE]]
    /\ Becomes(p, [Started EXCEPT !.at = "save", !.cur = Target(p),
                                  !.tgt = Target(p)])
    /\ Drops(p, app[p].cur)
    /\ UNCHANGED <<disk, history>>

-----------------------------------------------------------------------------
(* try_lock_session_path, bind_identity and bind_identity_with_lock.         *)

AfterLock == [newLock |-> "newBind", resumeLock |-> "resumeBind",
              loadLock |-> "loadBind", recoverLock |-> "recoverBind",
              deleteLock |-> "deleteBind"]

LockPath(p) ==
    LET s == Target(p) IN
    /\ app[p].at \in DOMAIN AfterLock
    /\ \/ /\ disk[s].dir /\ lock[s].path = Free
          /\ lock' = [lock EXCEPT ![s].path = p]
          /\ Go(p, AfterLock[app[p].at])
          /\ UNCHANGED <<record, disk, history>>
       \/ ~(disk[s].dir /\ lock[s].path = Free) /\ Refuse(p)

AfterBind == [resumeBind |-> "resumeCheck", loadBind |-> "adopt",
              recoverBind |-> "recoverSave", deleteBind |-> "begin"]

(* Seeded fault: the path's lock is enough.                                  *)
BindableByPath(step, s) ==
    /\ step \in {"resumeBind", "loadBind"} => record[s].state \notin Tombs
    /\ step = "loadBind" => disk[s].saved # None

(* Seeded fault: a lease to delete is got like a lease to use.               *)
BindableToUse(step, s) ==
    /\ lock[s].id = Free /\ record[s].state \notin Tombs
    /\ step = "loadBind" => disk[s].saved # None

(* A lease to use a session is refused when the record says that it is being *)
(* deleted; a lease to delete it is not.  The loader reads the state first.  *)
Bindable(step, s) ==
    /\ lock[s].id = Free
    /\ step \in {"resumeBind", "loadBind"} => record[s].state \notin Tombs
    /\ step = "loadBind" => disk[s].saved # None

BindIdentity(p) ==
    LET s == Target(p) IN
    /\ app[p].at \in DOMAIN AfterBind
    /\ \/ /\ Bindable(app[p].at, s)
          /\ lock' = [lock EXCEPT ![s].id = p]
          /\ disk' = [disk EXCEPT ![s].registered = TRUE]
          /\ Go(p, AfterBind[app[p].at])
          /\ UNCHANGED <<record, history>>
       \/ ~Bindable(app[p].at, s) /\ Refuse(p)

-----------------------------------------------------------------------------
(* The list of sessions (refresh_session_list) and the two ways to resume.   *)

(* "cleanup": listed only to be deleted.                                     *)
Listed(p, s) ==
    IF ~disk[s].dir THEN "no"
    ELSE IF record[s].state \in Tombs THEN "cleanup"
    ELSE IF disk[s].saved # None \/ app[p].cur = s THEN "resumable"
    ELSE IF record[s].state = "Creating" THEN "cleanup"
    ELSE "no"

Resume(p, s) ==
    At(p, "idle") /\ app[p].cur # s /\ SaveFirst(p, "resumeRead", s)

Load(p, s) ==
    /\ At(p, "idle") /\ app[p].cur # s /\ Listed(p, s) = "resumable"
    /\ SaveFirst(p, "loadLock", s)

ResumeRead(p) ==
    LET s == Target(p)
        known == record[s] # NoRecord \/ disk[s].registered IN
    /\ At(p, "resumeRead")
    /\ \/ /\ known /\ record[s].state \notin Tombs
          /\ Becomes(p, [app[p] EXCEPT !.at = "resumeLock", !.seen = record[s]])
          /\ UNCHANGED <<record, disk, lock, history>>
       \/ ~(known /\ record[s].state \notin Tombs) /\ Refuse(p)

(* Seeded fault: that the record says Creating is enough.                    *)
ResumeByRecord(p) ==
    /\ At(p, "resumeCheck")
    /\ Go(p, IF app[p].seen.state = "Creating" THEN "tombstone" ELSE "adopt")
    /\ UNCHANGED <<record, disk, lock, history>>

(* A session that never got a state is removed instead of resumed.           *)
ResumeCheck(p) ==
    /\ At(p, "resumeCheck")
    /\ Go(p, IF app[p].seen.state = "Creating" /\ disk[Target(p)].saved = None
             THEN "tombstone" ELSE "adopt")
    /\ UNCHANGED <<record, disk, lock, history>>

(* The creation is committed if it was not, and the process is in the        *)
(* session, unless Python cannot be detached or bound; if the policy says    *)
(* so, Python is made ready.                                                 *)
Adopt(p) ==
    LET s == Target(p) IN
    /\ At(p, "adopt")
    /\ \/ /\ Commits(s)
          /\ \E ready \in BOOLEAN :
                 Becomes(p, [Started EXCEPT
                     !.at = IF ready THEN "save" ELSE "idle",
                     !.then = IF ready THEN "python" ELSE "idle",
                     !.cur = s, !.python = (disk[s].saved = "python"),
                     !.committed = TRUE, !.tgt = IF ready THEN s ELSE None])
          /\ Drops(p, app[p].cur)
          /\ UNCHANGED <<disk, history>>
       \/ Commits(s) /\ Leave(p) /\ Fault /\ UNCHANGED disk
       \/ /\ disk[s].saved = None \/ record[s].state \in Tombs
          /\ Refuse(p)

-----------------------------------------------------------------------------
(* ensure_nonlocal_python_session: the runtime is named in the saved state   *)
(* before there is one.  The worker may not be bound to its workspace.       *)

Python(p) ==
    /\ At(p, "idle") /\ app[p].cur # None
    /\ SaveFirst(p, "python", app[p].cur)

MakeWorkspace(p) ==
    LET s == app[p].cur IN
    /\ At(p, "python")
    /\ \/ /\ app[p].python => disk[s].workspace
          /\ disk' = [disk EXCEPT ![s].workspace = TRUE]
          /\ Becomes(p, [app[p] EXCEPT !.at = "save", !.then = "launch",
                                       !.python = TRUE])
          /\ UNCHANGED <<record, lock, history>>
       \/ /\ app[p].python => disk[s].workspace
          /\ disk' = [disk EXCEPT ![s].workspace = TRUE]
          /\ Leave(p) /\ Fault /\ UNCHANGED record
       \/ app[p].python /\ ~disk[s].workspace /\ Refuse(p)

(* A deletion that does not know of the runtime: its tombstone, or the state *)
(* it has read, is from before.                                              *)
Unaware(s) ==
    \/ record[s].state = "Deleting" /\ ~record[s].python
    \/ \E q \in Processes : /\ Target(q) = s /\ ~app[q].found
                            /\ app[q].at = "deleteLock"

Launch(p) ==
    LET s == app[p].cur IN
    /\ At(p, "launch")
    /\ disk' = [disk EXCEPT ![s].runtime = TRUE]
    /\ history' = IF Unaware(s)
                  THEN [history EXCEPT !.late = @ \cup {s}] ELSE history
    /\ Go(p, "idle")
    /\ UNCHANGED <<record, lock>>

-----------------------------------------------------------------------------
(* delete_session_transaction: preparation.                                  *)

(* The session the process is in is saved first, and not deleted when it is  *)
(* listed for cleanup; of another one the lease is taken.                    *)
Delete(p, s) ==
    /\ At(p, "idle") /\ Listed(p, s) # "no"
    /\ \/ /\ app[p].cur = s /\ Listed(p, s) = "resumable"
          /\ SaveFirst(p, "begin", s)
       \/ /\ app[p].cur # s
          /\ Becomes(p, [app[p] EXCEPT !.tgt = s,
                 !.at = IF Listed(p, s) = "cleanup" THEN "recoverRead"
                        ELSE "deleteRead"])
          /\ UNCHANGED <<record, disk, lock, history>>

(* The state that names the runtime is read before the session is locked.    *)
DeleteRead(p) ==
    LET s == Target(p) IN
    /\ At(p, "deleteRead")
    /\ Becomes(p, IF disk[s].saved = None
                  THEN [app[p] EXCEPT !.at = "recoverRead"]
                  ELSE [app[p] EXCEPT !.at = "deleteLock",
                                      !.found = (disk[s].saved = "python")])
    /\ UNCHANGED <<record, disk, lock, history>>

(* lock_recoverable_session_path: the record is read before the locks ...    *)
RecoverRead(p) ==
    LET s == Target(p) IN
    /\ At(p, "recoverRead")
    /\ \/ /\ record[s].state \in {"Creating"} \cup Tombs
          /\ Becomes(p, [app[p] EXCEPT !.at = "recoverLock", !.seen = record[s]])
          /\ UNCHANGED <<record, disk, lock, history>>
       \/ record[s].state \in {"none", "Active"} /\ Refuse(p)

Rebound(p) ==
    IF app[p].seen.bound THEN record[Target(p)]
    ELSE [app[p].seen EXCEPT !.bound = TRUE]

(* ... and written back if it had no binding.  Then deletion_resources takes *)
(* the runtime from it, and refuses it when no deletion has begun.           *)
RecoverSave(p) ==
    /\ At(p, "recoverSave")
    /\ record' = [record EXCEPT ![Target(p)] = Rebound(p)]
    /\ \/ /\ Rebound(p).state \in Tombs
          /\ Becomes(p, [app[p] EXCEPT !.at = "begin",
                                       !.found = Rebound(p).python])
          /\ UNCHANGED lock
       \/ Rebound(p).state \notin Tombs /\ Leave(p)
    /\ UNCHANGED <<disk, history>>

-----------------------------------------------------------------------------
(* execute_session_deletion and remove_locked_session.                       *)

Begin(p) ==
    LET s == Target(p)
        names == IF app[p].cur = s THEN app[p].python ELSE app[p].found IN
    /\ At(p, "begin")
    /\ \/ /\ record[s].python => names
          /\ record' = [record EXCEPT ![s] =
                 [state |-> "Deleting", bound |-> TRUE, python |-> names]]
          /\ Becomes(p, [app[p] EXCEPT !.at = "runtime", !.found = names])
          /\ history' = [history EXCEPT !.asked = @ \cup {s}]
          /\ UNCHANGED <<disk, lock>>
       \/ record[s].python /\ ~names /\ Refuse(p)

DeleteRuntime(p) ==
    /\ At(p, "runtime")
    /\ disk' = [disk EXCEPT ![Target(p)].runtime = @ /\ ~app[p].found]
    /\ Go(p, "workspace")
    /\ UNCHANGED <<record, lock, history>>

(* Seeded fault: only a workspace that the state names is deleted.           *)
DeleteNamedWorkspace(p) ==
    /\ At(p, "workspace")
    /\ disk' = [disk EXCEPT ![Target(p)].workspace = @ /\ ~app[p].found]
    /\ Go(p, "tombstone")
    /\ UNCHANGED <<record, lock, history>>

(* The workspace is looked up by the session's id when none is known.        *)
DeleteWorkspace(p) ==
    /\ At(p, "workspace")
    /\ disk' = [disk EXCEPT ![Target(p)].workspace = FALSE]
    /\ Go(p, "tombstone")
    /\ UNCHANGED <<record, lock, history>>

Tombstone(p) ==
    /\ At(p, "tombstone")
    /\ record' = [record EXCEPT ![Target(p)].state = "Deleting",
                                ![Target(p)].bound = TRUE]
    /\ Go(p, "wipe")
    /\ UNCHANGED <<disk, lock, history>>

Wipe(p) ==
    /\ At(p, "wipe")
    /\ disk' = [disk EXCEPT ![Target(p)].saved = None]
    /\ Go(p, "rmdir")
    /\ UNCHANGED <<record, lock, history>>

RemoveDirectory(p) ==
    /\ At(p, "rmdir")
    /\ disk' = [disk EXCEPT ![Target(p)].dir = FALSE]
    /\ Go(p, "gone")
    /\ UNCHANGED <<record, lock, history>>

(* That the last write fails is only a warning.  A process that has deleted  *)
(* the session it was in creates another one, unless it was warned.          *)
Gone(p) ==
    LET s == Target(p) IN
    /\ At(p, "gone")
    /\ \E written \in BOOLEAN :
           /\ record' = IF written
                        THEN [record EXCEPT ![s].state = "Deleted"] ELSE record
           /\ IF written THEN UNCHANGED history ELSE Fault
           /\ Becomes(p, IF app[p].cur # s THEN Onward(app[p], "idle")
                         ELSE [Started EXCEPT
                                  !.at = IF written THEN "new" ELSE "idle"])
    /\ Drops(p, s)
    /\ UNCHANGED disk

-----------------------------------------------------------------------------
(* What goes wrong: a step fails, or is cancelled by a shutdown, and the     *)
(* operation ends there; a process dies, or, between two operations, quits.  *)
(* The locks of a process end with it.                                       *)

Fail(p) ==
    /\ ~At(p, "idle") /\ ~At(p, "gone")
    /\ Fault /\ Leave(p)
    /\ UNCHANGED <<record, disk>>

Exit(p) ==
    /\ IF At(p, "idle") THEN UNCHANGED history ELSE Fault
    /\ lock' = [s \in Sessions |-> Without(p, s)]
    /\ Becomes(p, Started)
    /\ UNCHANGED <<record, disk>>

Step(p) ==
    \/ SaveState(p) \/ CommitSaved(p)
    \/ NewRecord(p) \/ MakeDirectory(p) \/ NewIdentity(p) \/ NewBound(p)
    \/ LockPath(p) \/ BindIdentity(p)
    \/ ResumeRead(p) \/ ResumeCheck(p) \/ Adopt(p)
    \/ MakeWorkspace(p) \/ Launch(p)
    \/ DeleteRead(p) \/ RecoverRead(p) \/ RecoverSave(p)
    \/ Begin(p) \/ DeleteRuntime(p) \/ DeleteWorkspace(p)
    \/ Tombstone(p) \/ Wipe(p) \/ RemoveDirectory(p) \/ Gone(p)

Command(p) ==
    \/ New(p) \/ Python(p)
    \/ \E s \in Sessions : Resume(p, s) \/ Load(p, s) \/ Delete(p, s)

Next == \E p \in Processes : Step(p) \/ Command(p) \/ Fail(p) \/ Exit(p)

Spec == Init /\ [][Next]_vars

(* A process goes on with what it has begun, and the user asks again for a   *)
(* deletion that did not succeed.                                            *)
FairSpec ==
    /\ Spec
    /\ \A p \in Processes : WF_vars(Step(p))
    /\ \A p \in Processes : \A s \in Sessions : SF_vars(Delete(p, s))

-----------------------------------------------------------------------------
(* Properties.                                                               *)

(* The types, and the locks: who is in a session holds both.                 *)
TypeOK ==
    /\ record \in [Sessions -> Lifecycle]
    /\ disk \in [Sessions -> Disk]
    /\ lock \in [Sessions -> [path : Processes \cup {Free},
                              id : Processes \cup {Free}]]
    /\ \A p \in Processes :
           /\ app[p].cur \in Sessions \cup {None}
           /\ app[p].cur # None => lock[app[p].cur] = [path |-> p, id |-> p]
           /\ Target(p) \in Sessions \cup {None}
           /\ app[p].seen \in Lifecycle
    /\ history.asked \subseteq Sessions /\ history.late \subseteq Sessions
    /\ history.faults \in 0 .. MaxFaults

(* The steps that write to a session under its lease.                        *)
Leased == {"newBind", "newBound", "resumeCheck", "adopt", "recoverSave",
           "runtime", "workspace", "tombstone", "wipe", "rmdir", "gone"}

Uses(p, s) ==
    \/ app[p].cur = s
    \/ Target(p) = s /\ (app[p].at \in Leased \/ At(p, "mkdir") \/ At(p, "newLock"))

(* Two processes never use one session, whichever of them creates, resumes,  *)
(* loads, cleans up or deletes it, and who uses it, past its creation, has a *)
(* directory to use (SessionLease).                                          *)
OneUser ==
    \A p, q \in Processes, s \in Sessions :
        /\ Uses(p, s) /\ Uses(q, s) => p = q
        /\ app[p].cur = s /\ ~At(p, "gone") => disk[s].dir

(* What the user has said is kept until a deletion is asked for, whatever    *)
(* crashes or fails in between, and it can be had again: the session is      *)
(* never removed as a leftover, nor listed as one.                           *)
WorkKept ==
    [][\A s \in Sessions :
           disk[s].saved # None /\ s \notin history'.asked =>
               /\ disk'[s].saved # None /\ disk'[s].dir
               /\ record'[s].state \notin Tombs]_vars

(* The directory is the last to go, since the list of sessions is a list of  *)
(* directories: no workspace is left that no one can delete any more, and no *)
(* runtime, but for one that was launched behind the back of a deletion.     *)
ReleasedFirst ==
    \A s \in Sessions :
        ~disk[s].dir => /\ ~disk[s].workspace
                        /\ disk[s].runtime => s \in history.late

(* A deletion that has begun is finished if it is asked for again, from      *)
(* wherever it was interrupted, unless a process stays in the session or the *)
(* mark of the deletion is lost (MarkStays).                                 *)
DeletionEnds ==
    \A s \in Sessions :
        (record[s].state = "Deleting" /\ disk[s].dir) ~>
            \/ ~disk[s].dir \/ record[s].state = "Creating"
            \/ \E p \in Processes : app[p].cur = s

(* What the code does not keep (README tells how).                          *)

(* What an interrupted creation has left, and is listed to be deleted, does  *)
(* not stay when its deletion is asked for.                                  *)
LeftoverGoes ==
    \A s \in Sessions :
        (/\ record[s].state = "Creating"
         /\ \E p \in Processes : Listed(p, s) = "cleanup")
            ~> record[s].state # "Creating"

(* The deletion of a session takes its runtime with it.                      *)
RuntimeFollows ==
    \A s \in Sessions : ~disk[s].dir => ~disk[s].runtime

(* A session that the user has begun to delete, and that is therefore        *)
(* durably marked for deletion, stays marked.                                *)
MarkStays ==
    [][\A s \in history.asked :
           record[s].state \in Tombs => record'[s].state \in Tombs]_vars

=============================================================================
