------------------------- MODULE WorkspaceJournal -------------------------
(***************************************************************************)
(* The journal file of a workspace: who may open it, how a record is       *)
(* appended, what a crash leaves of an append, and how `workspace recover` *)
(* discards an incomplete last line.                                       *)
(*                                                                         *)
(* The file is abstracted to its complete records and an incomplete tail.  *)
(* A record is written in two halves and then synchronised.  The end of a  *)
(* process keeps what it wrote; a power loss may also lose what was not    *)
(* synchronised.  The recovery intent is a file that ReplaceablePublication*)
(* replaces as a whole: here it is one variable.                           *)
(***************************************************************************)
EXTENDS Integers, SequencesExt

CONSTANTS
    Procs,         \* processes that run commands of the workspace
    Size,          \* Size[k]: bytes of an encoded record of kind k
    MaxBytes,      \* bytes that a journal may have
    MaxBuilt,      \* bound: records built, until only recoveries build more
    MaxStops       \* bound: processes ended and power losses

Kinds == {"event", "intended", "integrated", "recovered"}

ASSUME SizeAssumption   == Size \in [Kinds -> Nat \ {0}] /\ MaxBytes \in Nat
ASSUME BoundsAssumption == MaxBuilt \in Nat /\ MaxStops \in Nat

VARIABLES
    file,      \* the journal file: complete records and tail
    synced,    \* the file as of its last synchronisation
    intent,    \* the pending recovery intent, or None
    cmd,       \* per process: the command's position and what it knows
    acked,     \* history: the records some writer was told are recorded
    built, stops

vars == <<file, synced, intent, cmd, acked, built, stops>>

None == <<>>

\* A record has a hash, here the number under which it was built; the record of a
\* recovery also names the fragment that was discarded.
Ids      == 1..(MaxBuilt + MaxStops)
Fragment == [id : Ids, part : 1..2]
Record   == [kind : Kinds, id : Ids, discarded : {None} \cup Fragment]

Idle == [pc |-> "idle", lock |-> "none", seen |-> <<>>, rec |-> None]

Init ==
    /\ file = [recs |-> <<>>, tail |-> None] /\ synced = file
    /\ intent = None
    /\ cmd = [p \in Procs |-> Idle]
    /\ acked = <<>>
    /\ built = 0 /\ stops = 0

At(p, pc)   == cmd[p].pc = pc
Goto(p, pc) == cmd' = [cmd EXCEPT ![p].pc = pc]
Close(p)    == cmd' = [cmd EXCEPT ![p] = Idle]

-----------------------------------------------------------------------------
(* Capacity *)

\* Byte b of record k is at <<k, b>>.
Bytes(recs) == Cardinality(UNION {{k} \X (1..Size[recs[k].kind]) : k \in DOMAIN recs})

Count(recs, kind) == Cardinality({k \in DOMAIN recs : recs[k].kind = kind})

\* Between an integration's intent and its completion record.
IntegrationPending(recs) == Count(recs, "intended") > Count(recs, "integrated")

\* Room kept free for the completion record of a pending integration.
Reserved(recs) == IF IntegrationPending(recs) THEN Size["integrated"] ELSE 0

Fits(recs, kind, reserved) == Bytes(recs) + Size[kind] + reserved <= MaxBytes

\* The runtime reducer admits one intent at a time and completes only that one.
Admitted(recs, kind) ==
    /\ kind = "intended" => ~IntegrationPending(recs)
    /\ kind = "integrated" => IntegrationPending(recs)

\* Mutant: the reservation is that of the journal before the append.
AppendableBefore(recs, kind) ==
    /\ Admitted(recs, kind)
    /\ Fits(recs, kind, IF kind = "integrated" THEN 0 ELSE Reserved(recs))

Appendable(recs, kind) ==
    /\ Admitted(recs, kind)
    /\ Fits(recs, kind, Reserved(Append(recs, [kind |-> kind])))

-----------------------------------------------------------------------------
(* Opening and reading *)

\* Mutant: whoever shares the lock does not keep a writer out.
LockFreeOfWriters(mode) == \A q \in Procs : cmd[q].lock # "exclusive"

\* The locks are taken without waiting: a held lock refuses the command.
LockFree(mode) ==
    \A q \in Procs : cmd[q].lock = "none" \/ (mode = "shared" /\ cmd[q].lock = "shared")

\* Mutant: what is in the file is taken to be on disk.
OpenUnsynced(p, pc) ==
    /\ At(p, "idle") /\ LockFree("exclusive")
    /\ cmd' = [cmd EXCEPT ![p] = [Idle EXCEPT !.pc = pc, !.lock = "exclusive"]]
    /\ UNCHANGED <<file, synced, intent, acked, built, stops>>

\* A writer synchronises the existing file before it looks at it.
OpenWriter(p, pc) ==
    /\ At(p, "idle") /\ LockFree("exclusive")
    /\ cmd' = [cmd EXCEPT ![p] = [Idle EXCEPT !.pc = pc, !.lock = "exclusive"]]
    /\ synced' = file
    /\ UNCHANGED <<file, intent, acked, built, stops>>

OpenReader(p) ==
    /\ At(p, "idle") /\ LockFree("shared")
    /\ cmd' = [cmd EXCEPT ![p] = [Idle EXCEPT !.pc = "read", !.lock = "shared"]]
    /\ UNCHANGED <<file, synced, intent, acked, built, stops>>

\* ReadSnapshot refuses while a recovery is pending or the tail is incomplete; a
\* writer synchronises once more, and only then acts on what it read.
ReadSnapshot(p) ==
    /\ At(p, "read")
    /\ IF intent # None \/ file.tail # None
       THEN Close(p) /\ UNCHANGED <<synced, acked>>
       ELSE IF cmd[p].lock = "exclusive"
            THEN /\ synced' = file
                 /\ acked' = file.recs
                 /\ cmd' = [cmd EXCEPT ![p].pc = "ready", ![p].seen = file.recs]
            ELSE Close(p) /\ UNCHANGED <<synced, acked>>
    /\ UNCHANGED <<file, intent, built, stops>>

EndCommand(p) ==
    /\ At(p, "ready") \/ At(p, "refused")
    /\ Close(p)
    /\ UNCHANGED <<file, synced, intent, acked, built, stops>>

-----------------------------------------------------------------------------
(* Appending *)

\* The first half of an encoded record.
WriteHalf(p, record, pc) ==
    /\ built' = built + 1
    /\ file' = [file EXCEPT !.tail = [id |-> record.id, part |-> 1]]
    /\ cmd' = [cmd EXCEPT ![p].pc = pc, ![p].rec = record]

\* AppendIfHead: the head read by this command must still be the head.
AppendHalf(p) ==
    /\ At(p, "ready") /\ built < MaxBuilt
    /\ intent = None /\ file.tail = None
    /\ file.recs = cmd[p].seen
    /\ \E kind \in {"event", "intended", "integrated"} :
          /\ Appendable(file.recs, kind)
          /\ WriteHalf(p, [kind |-> kind, id |-> built + 1, discarded |-> None], "rest")
    /\ UNCHANGED <<synced, intent, acked, stops>>

AppendRest(p) ==
    /\ At(p, "rest") \/ At(p, "restRecovered")
    /\ file' = [recs |-> Append(file.recs, cmd[p].rec), tail |-> None]
    /\ Goto(p, IF At(p, "rest") THEN "sync" ELSE "syncRecovered")
    /\ UNCHANGED <<synced, intent, acked, built, stops>>

\* Mutant: success is reported before the file is synchronised.
AckUnsynced(p) ==
    /\ At(p, "sync")
    /\ acked' = file.recs
    /\ cmd' = [cmd EXCEPT ![p].pc = "ready", ![p].seen = file.recs, ![p].rec = None]
    /\ UNCHANGED <<file, synced, intent, built, stops>>

\* The append reports success once the file and its directory are synchronised.
AppendSync(p) ==
    /\ At(p, "sync")
    /\ synced' = file
    /\ acked' = file.recs
    /\ cmd' = [cmd EXCEPT ![p].pc = "ready", ![p].seen = file.recs, ![p].rec = None]
    /\ UNCHANGED <<file, intent, built, stops>>

-----------------------------------------------------------------------------
(* Recovery *)

\* Mutant: a recovery is only ever prepared, never taken up.
PrepareOnly(p) ==
    /\ At(p, "recover")
    /\ IF intent # None \/ file.tail = None
       THEN Goto(p, "read") /\ UNCHANGED intent
       ELSE /\ intent' = [recs |-> file.recs, discarded |-> file.tail,
                          truncated |-> FALSE]
            /\ Goto(p, "complete")
    /\ UNCHANGED <<file, synced, acked, built, stops>>

\* RecoverIncompleteTail: take up a pending recovery, or prepare one for the tail.
PrepareRecovery(p) ==
    /\ At(p, "recover")
    /\ IF intent # None
       THEN Goto(p, "complete") /\ UNCHANGED intent
       ELSE IF file.tail = None
            THEN Goto(p, "read") /\ UNCHANGED intent
            ELSE /\ intent' = [recs |-> file.recs, discarded |-> file.tail,
                               truncated |-> FALSE]
                 /\ Goto(p, "complete")
    /\ UNCHANGED <<file, synced, acked, built, stops>>

AlreadyRecorded ==
    /\ file.tail = None
    /\ file.recs # <<>>
    /\ Last(file.recs).kind = "recovered"
    /\ Last(file.recs).discarded = intent.discarded
    /\ Front(file.recs) = intent.recs

\* The journal is still what the intent was prepared for.
WithinBoundary ==
    /\ file.recs = intent.recs
    /\ file.tail # None => intent.truncated \/ file.tail = intent.discarded

CompleteRecovery(p) ==
    /\ At(p, "complete")
    /\ CASE AlreadyRecorded ->
              synced' = file /\ Goto(p, "remove") /\ UNCHANGED <<file, intent>>
         [] ~AlreadyRecorded /\ ~WithinBoundary ->
              Goto(p, "refused") /\ UNCHANGED <<file, synced, intent>>
         [] ~AlreadyRecorded /\ WithinBoundary /\ file.tail # None ->
              /\ file' = [file EXCEPT !.tail = None]
              /\ Goto(p, "syncTruncated")
              /\ UNCHANGED <<synced, intent>>
         [] OTHER ->
              /\ intent' = [intent EXCEPT !.truncated = TRUE]
              /\ Goto(p, "append")
              /\ UNCHANGED <<file, synced>>
    /\ UNCHANGED <<acked, built, stops>>

SyncTruncated(p) ==
    /\ At(p, "syncTruncated")
    /\ synced' = file
    /\ Goto(p, "markTruncated")
    /\ UNCHANGED <<file, intent, acked, built, stops>>

MarkTruncated(p) ==
    /\ At(p, "markTruncated")
    /\ intent' = [intent EXCEPT !.truncated = TRUE]
    /\ Goto(p, "append")
    /\ UNCHANGED <<file, synced, acked, built, stops>>

\* The recovery record has to fit beside the reservation, as any other record.
AppendRecovered(p) ==
    /\ At(p, "append")
    /\ IF Appendable(file.recs, "recovered")
       THEN WriteHalf(p, [kind |-> "recovered", id |-> built + 1,
                          discarded |-> intent.discarded], "restRecovered")
       ELSE Close(p) /\ UNCHANGED <<file, built>>
    /\ UNCHANGED <<synced, intent, acked, stops>>

\* Mutant: the intent goes before the recovery record is durable.
RecoveredUnsynced(p) ==
    /\ At(p, "syncRecovered")
    /\ Goto(p, "remove")
    /\ UNCHANGED <<file, synced, intent, acked, built, stops>>

SyncRecovered(p) ==
    /\ At(p, "syncRecovered")
    /\ synced' = file
    /\ Goto(p, "remove")
    /\ UNCHANGED <<file, intent, acked, built, stops>>

\* The intent goes last; the command then reads the journal and continues.
RemoveIntent(p) ==
    /\ At(p, "remove")
    /\ intent' = None
    /\ Goto(p, "read")
    /\ UNCHANGED <<file, synced, acked, built, stops>>

-----------------------------------------------------------------------------
(* Failures *)

\* The process ends, or an error ends the command: its lock is released and what
\* it wrote stays.
StopProcess(p) ==
    /\ stops < MaxStops /\ stops' = stops + 1
    /\ ~At(p, "idle")
    /\ Close(p)
    /\ UNCHANGED <<file, synced, intent, acked, built>>

\* What may be left of writes that were not synchronised: what was synchronised,
\* what was written, or the first complete records of what was appended since and
\* perhaps a part of the next one.
Survives(left) ==
    \/ left = file
    \/ left = synced
    \/ /\ synced.tail = None
       /\ IsPrefix(synced.recs, left.recs)
       /\ IF left.recs = file.recs
          THEN file.tail # None /\ (left.tail = None \/ left.tail.id = file.tail.id)
          ELSE left.tail = None \/ left.tail.id = file.recs[Len(left.recs) + 1].id

Leftovers ==
    {left \in [recs : {SubSeq(file.recs, 1, n) : n \in 0..Len(file.recs)},
               tail : {None} \cup Fragment] : Survives(left)}

PowerLoss ==
    /\ stops < MaxStops /\ stops' = stops + 1
    /\ cmd' = [p \in Procs |-> Idle]
    /\ \E left \in Leftovers : file' = left /\ synced' = left
    /\ UNCHANGED <<intent, acked, built>>

-----------------------------------------------------------------------------

Step(p) ==
    \/ ReadSnapshot(p) \/ EndCommand(p)
    \/ AppendRest(p) \/ AppendSync(p)
    \/ PrepareRecovery(p) \/ CompleteRecovery(p)
    \/ SyncTruncated(p) \/ MarkTruncated(p)
    \/ AppendRecovered(p) \/ SyncRecovered(p) \/ RemoveIntent(p)

Next ==
    \/ \E p \in Procs :
          \/ OpenWriter(p, "read") \/ OpenWriter(p, "recover") \/ OpenReader(p)
          \/ Step(p) \/ AppendHalf(p)
          \/ StopProcess(p)
    \/ PowerLoss

Spec == Init /\ [][Next]_vars

\* A command that runs ends, and `workspace recover` is run until it gets the lock.
FairSpec ==
    /\ Spec
    /\ \A p \in Procs : WF_vars(Step(p)) /\ SF_vars(OpenWriter(p, "recover"))

-----------------------------------------------------------------------------
(* Correctness *)

\* The file, the intent and the sessions are well formed; a lock is exclusive.
TypeOK ==
    /\ \A f \in {file, synced} :
          f.recs \in Seq(Record) /\ f.tail \in {None} \cup Fragment
    /\ intent # None => /\ intent.recs \in Seq(Record)
                        /\ intent.discarded \in Fragment
                        /\ intent.truncated \in BOOLEAN
    /\ \A p, q \in Procs :
          cmd[p].lock = "exclusive" /\ p # q => cmd[q].lock = "none"
    /\ acked \in Seq(Record)
    /\ built \in 0..(MaxBuilt + MaxStops) /\ stops \in 0..MaxStops

\* A record that an append acknowledged, or that a writer acted on, is never lost:
\* not by a process or a power loss, and not by the truncation of a torn tail.
AckedDurable == IsPrefix(acked, synced.recs) /\ IsPrefix(acked, file.recs)

\* The checks of a resumed recovery ("journal changed outside the pending recovery
\* boundary", "incomplete journal tail changed after recovery was prepared") never
\* refuse a recovery that was only interrupted.
RecoveryNeverRefused == \A p \in Procs : ~At(p, "refused")

\* A discarded tail is recorded exactly once, however often its recovery is
\* interrupted, and its intent is given up only with that record durable.
DiscardRecordedOnce ==
    /\ \A j, k \in 1..Len(file.recs) :
          /\ file.recs[j].kind = "recovered" /\ file.recs[k].kind = "recovered"
          /\ file.recs[j].discarded = file.recs[k].discarded
          => j = k
    /\ \A p \in Procs : At(p, "remove") => AlreadyRecorded /\ synced = file

\* The completion record of a pending integration always fits.
CompletionFits == IntegrationPending(file.recs) => Fits(file.recs, "integrated", 0)

\* A torn tail or a pending recovery is repaired, unless the recovery record does
\* not fit into what the journal has left.  The lock is only ever tried, so that
\* commands that overlap without end would keep the recovery out.
Repaired  == file.tail = None /\ intent = None
Exhausted == ~Appendable(file.recs, "recovered")
LockFreed == []<>LockFree("exclusive")
TornTailRepaired == LockFreed => (~Repaired ~> Repaired \/ Exhausted)

=============================================================================
