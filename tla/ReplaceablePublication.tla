---------------------- MODULE ReplaceablePublication ----------------------
(***************************************************************************)
(* How one file of the runtime directory is replaced although no pathname  *)
(* is ever renamed over: under a durable intent the old file is moved to a *)
(* backup and the new one, written beside it, is moved into its place.     *)
(* Whoever finds an interrupted replacement finishes it or rolls it back.  *)
(*                                                                         *)
(* The file is the pending recovery of the journal.  Publishers hold the   *)
(* journal's lock exclusively, readers share it; the publication has a     *)
(* lock of its own, which a reader takes only when it sees a control file. *)
(* Creating, renaming and removing a file are each atomic and durable.  A  *)
(* file is abstracted to the digest of its content.                        *)
(***************************************************************************)
EXTENDS Naturals

CONSTANTS
    Procs,       \* processes that run commands of the workspace
    Values,      \* contents that are published
    None,        \* no such file
    MaxStops     \* bound: operations that fail or end early

ASSUME NoneAssumption  ==
    /\ None \notin Values \cup Procs
    /\ None \notin [old : Values \cup {None}, new : Values]
ASSUME StopsAssumption == MaxStops \in Nat

VARIABLES
    target, pending, backup,   \* the file and its two copies, or None
    intent,      \* the intent file: the digests replaced and published, or None
    cmd,         \* per process: the operation it is in
    sidecar,     \* the holder of the publication lock, or None
    found,       \* per process: what its last read of the file found
    stops

files == <<target, pending, backup, intent>>
vars  == <<files, cmd, sidecar, found, stops>>

MaybeValue == Values \cup {None}

Idle == [pc |-> "idle", op |-> "none", lock |-> "none", new |-> None]

Init ==
    /\ target = None /\ pending = None /\ backup = None /\ intent = None
    /\ cmd = [p \in Procs |-> Idle]
    /\ sidecar = None
    /\ found = [p \in Procs |-> None]
    /\ stops = 0

At(p, pc)   == cmd[p].pc = pc
Goto(p, pc) == cmd' = [cmd EXCEPT ![p].pc = pc]

\* Mutant: the publication lock is left behind.
CloseHolding(p) ==
    /\ cmd' = [cmd EXCEPT ![p] = Idle]
    /\ UNCHANGED sidecar

\* The operation is over: its locks are released.
Close(p) ==
    /\ cmd' = [cmd EXCEPT ![p] = Idle]
    /\ sidecar' = IF sidecar = p THEN None ELSE sidecar

-----------------------------------------------------------------------------
(* Operations *)

LockFree(mode) ==
    \A q \in Procs : cmd[q].lock = "none" \/ (mode = "shared" /\ cmd[q].lock = "shared")

Begin(p, op, mode, new, pc) ==
    /\ At(p, "idle") /\ LockFree(mode)
    /\ cmd' = [cmd EXCEPT ![p] = [pc |-> pc, op |-> op, lock |-> mode, new |-> new]]
    /\ UNCHANGED <<files, sidecar, found, stops>>

\* Mutant: readers do not look for an interrupted publication.
BeginReadAtOnce(p) ==
    \E mode \in {"shared", "exclusive"} : Begin(p, "read", mode, None, "operate")

\* A read, or the read before a removal, first looks for control files.
BeginRead(p) ==
    \E mode \in {"shared", "exclusive"} : Begin(p, "read", mode, None, "seekIntent")
BeginRemove(p) == Begin(p, "remove", "exclusive", None, "seekIntent")

\* A publication takes the publication lock whatever it would find.
BeginPublish(p) == \E v \in Values : Begin(p, "publish", "exclusive", v, "lock")

\* Mutant: a control file is seen, and the file is read nevertheless.
SeekOn(p, pc, control, next) ==
    /\ At(p, pc)
    /\ Goto(p, next)
    /\ UNCHANGED <<files, sidecar, found, stops>>

\* The control files are inspected one after the other; with none of them there
\* the file is read without the publication lock.
Seek(p, pc, control, next) ==
    /\ At(p, pc)
    /\ Goto(p, IF control # None THEN "lock" ELSE next)
    /\ UNCHANGED <<files, sidecar, found, stops>>

SeekControls(p) ==
    \/ Seek(p, "seekIntent", intent, "seekPending")
    \/ Seek(p, "seekPending", pending, "seekBackup")
    \/ Seek(p, "seekBackup", backup, "operate")

\* Mutant: two readers may recover the same publication.
LockAnyway(p) ==
    /\ At(p, "lock")
    /\ sidecar' = p
    /\ Goto(p, "recover")
    /\ UNCHANGED <<files, found, stops>>

Lock(p) ==
    /\ At(p, "lock") /\ sidecar = None
    /\ sidecar' = p
    /\ Goto(p, "recover")
    /\ UNCHANGED <<files, found, stops>>

ReadTarget(p) ==
    /\ At(p, "operate") /\ cmd[p].op \in {"read", "remove"}
    /\ found' = [found EXCEPT ![p] = target]
    /\ IF cmd[p].op = "remove" /\ target # None
       THEN Goto(p, "remove") /\ UNCHANGED sidecar
       ELSE Close(p)
    /\ UNCHANGED <<files, stops>>

RemoveTarget(p) ==
    /\ At(p, "remove")
    /\ target' = None
    /\ Close(p)
    /\ UNCHANGED <<pending, backup, intent, found, stops>>

-----------------------------------------------------------------------------
(* The steps of a publication, and of its recovery *)

\* Publishing what is there already changes nothing.  No file is ever created or
\* renamed over another one: the operation fails instead.
WriteIntent(p) ==
    /\ At(p, "operate") /\ cmd[p].op = "publish"
    /\ IF target = cmd[p].new
       THEN Close(p) /\ UNCHANGED intent
       ELSE /\ IF intent = None
               THEN intent' = [old |-> target, new |-> cmd[p].new] /\ Goto(p, "pending")
               ELSE Goto(p, "failed") /\ UNCHANGED intent
            /\ UNCHANGED sidecar
    /\ UNCHANGED <<target, pending, backup, found, stops>>

WritePending(p) ==
    /\ At(p, "pending")
    /\ IF pending = None
       THEN /\ pending' = intent.new
            /\ Goto(p, IF intent.old = None THEN "publish" ELSE "quarantine")
       ELSE Goto(p, "failed") /\ UNCHANGED pending
    /\ UNCHANGED <<target, backup, intent, sidecar, found, stops>>

Quarantine(p) ==
    /\ At(p, "quarantine")
    /\ IF backup = None
       THEN backup' = target /\ target' = None /\ Goto(p, "publish")
       ELSE Goto(p, "failed") /\ UNCHANGED <<backup, target>>
    /\ UNCHANGED <<pending, intent, sidecar, found, stops>>

PublishTarget(p) ==
    /\ At(p, "publish")
    /\ IF target = None
       THEN target' = pending /\ pending' = None /\ Goto(p, "finish")
       ELSE Goto(p, "failed") /\ UNCHANGED <<target, pending>>
    /\ UNCHANGED <<backup, intent, sidecar, found, stops>>

\* Mutant: the backup is left where it is.
KeepBackup(p) ==
    /\ At(p, "finish")
    /\ Goto(p, IF target = intent.new THEN "removePending" ELSE "failed")
    /\ UNCHANGED <<files, sidecar, found, stops>>

\* Clean up behind the new target: the backup, a leftover of the new file, and
\* the intent last.
RemoveBackup(p) ==
    /\ At(p, "finish")
    /\ IF target = intent.new
       THEN /\ backup' = IF intent.old # None THEN None ELSE backup
            /\ Goto(p, "removePending")
       ELSE Goto(p, "failed") /\ UNCHANGED backup
    /\ UNCHANGED <<target, pending, intent, sidecar, found, stops>>

RemovePending(p) ==
    /\ At(p, "removePending")
    /\ pending' = None
    /\ Goto(p, "removeIntent")
    /\ UNCHANGED <<target, backup, intent, sidecar, found, stops>>

\* What a publisher did is done; a recovery goes on to its own operation.
RemoveIntent(p) ==
    /\ At(p, "removeIntent")
    /\ intent' = None
    /\ IF cmd[p].op = "publish" /\ target = cmd[p].new
       THEN Close(p)
       ELSE Goto(p, "operate") /\ UNCHANGED sidecar
    /\ UNCHANGED <<target, pending, backup, found, stops>>

\* Under the lock: where an interrupted publication is taken up.
ResumeAt ==
    LET kind(file) == IF file = None            THEN "missing"
                      ELSE IF file = intent.new THEN "new"
                      ELSE IF file = intent.old THEN "old" ELSE "unexpected"
        state == <<kind(target), kind(pending), kind(backup)>>
    IN  IF intent = None THEN "operate" ELSE
        CASE kind(target) = "new"                          -> "finish"
          [] state = <<"old", "new", "missing">>           -> "quarantine"
          [] state = <<"missing", "new", "old">>           -> "publish"
          [] state = <<"missing", "new", "missing">>
                /\ intent.old = None                       -> "publish"
          [] state = <<"old", "missing", "missing">>       -> "removeIntent"
          [] state = <<"missing", "missing", "old">>       -> "rollBack"
          [] state = <<"missing", "missing", "missing">>
                /\ intent.old = None                       -> "removeIntent"
          [] OTHER                                         -> "failed"

\* Rolling back moves the backup into its place before the intent goes.
Recover(p) ==
    /\ At(p, "recover")
    /\ IF ResumeAt = "rollBack"
       THEN target' = backup /\ backup' = None /\ Goto(p, "removeIntent")
       ELSE Goto(p, ResumeAt) /\ UNCHANGED <<target, backup>>
    /\ UNCHANGED <<pending, intent, sidecar, found, stops>>

-----------------------------------------------------------------------------

\* The process ends, or a step of the operation returns an error: the locks are
\* released and the files stay as they are.
StopProcess(p) ==
    /\ stops < MaxStops /\ stops' = stops + 1
    /\ ~At(p, "idle")
    /\ Close(p)
    /\ UNCHANGED <<files, found>>

Step(p) ==
    \/ SeekControls(p) \/ Lock(p) \/ Recover(p)
    \/ ReadTarget(p) \/ RemoveTarget(p)
    \/ WriteIntent(p) \/ WritePending(p) \/ Quarantine(p) \/ PublishTarget(p)
    \/ RemoveBackup(p) \/ RemovePending(p) \/ RemoveIntent(p)

Next ==
    \E p \in Procs :
        \/ BeginRead(p) \/ BeginRemove(p) \/ BeginPublish(p)
        \/ Step(p)
        \/ StopProcess(p)

Spec == Init /\ [][Next]_vars

\* A command that runs ends, and commands that read the file are run again.
FairSpec ==
    /\ Spec
    /\ \A p \in Procs : WF_vars(Step(p)) /\ SF_vars(BeginRead(p))

-----------------------------------------------------------------------------
(* Correctness *)

\* Files, sessions and locks are well formed; the publication lock is held within
\* a session that holds the journal's lock.
TypeOK ==
    /\ {target, pending, backup} \subseteq MaybeValue
    /\ intent # None => intent.old \in MaybeValue /\ intent.new \in Values
    /\ sidecar # None => cmd[sidecar].lock # "none"
    /\ found \in [Procs -> MaybeValue]
    /\ stops \in 0..MaxStops

\* Neither a publication nor a recovery ever meets files that it must refuse, at
\* whatever steps the ones before it were interrupted ("has unsafe state").
NeverRefused == \A p \in Procs : ~At(p, "failed")

\* A copy never outlives the intent that explains it, so that "an absent control
\* cannot conceal a mid-publication journal target".
ControlsCovered == intent = None => pending = None /\ backup = None

\* The value of the file for those who recover it before they read it: once the
\* new content is written, it is the value.
LogicalValue ==
    CASE intent = None                      -> target
      [] intent # None /\ pending # None    -> intent.new
      [] intent # None /\ pending = None    -> IF target # None THEN target ELSE backup

\* Replacing the file implements the atomic file: reads never find a part of a
\* replacement, none of them finds the file missing while it is replaced, and a
\* replacement that was interrupted happened or did not happen, for all readers.
Atomic == INSTANCE AtomicFile WITH Readers <- Procs, value <- LogicalValue
ReplacesAtomically == Atomic!Spec

\* An interrupted publication is finished or rolled back, and its controls are
\* removed, by the commands that read the file after it.
PublicationResolved == intent # None ~> intent = None

=============================================================================
