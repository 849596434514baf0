-------------------- MODULE ReplaceablePublicationProofs --------------------
(***************************************************************************)
(* Proofs about ReplaceablePublication for any processes and contents.     *)
(*                                                                         *)
(* The inductive invariant has three parts: who holds which lock, which    *)
(* five arrangements of the files an intent explains, and which of them    *)
(* the holder of the publication lock is looking at, step by step.         *)
(***************************************************************************)
EXTENDS ReplaceablePublication, TLAPS

\* The steps taken under the publication lock, those whose process has found no
\* intent, or removed it, in its session, and those of the search for one.
Publishing == {"recover", "pending", "quarantine", "publish", "finish", "removePending",
               "removeIntent"}
Unintended == {"seekPending", "seekBackup", "operate", "remove"}
Seeking    == {"seekIntent", "seekPending", "seekBackup"}
Places == Publishing \cup Unintended \cup {"idle", "seekIntent", "lock", "failed"}

Command == [pc : Places, op : {"none", "read", "remove", "publish"},
            lock : {"none", "shared", "exclusive"}, new : MaybeValue]

IntentState == [old : MaybeValue, new : Values]

\* A session holds the journal's lock, exclusively unless it only reads, and a
\* publication does not search before it takes the publication lock.
Sessions ==
    /\ cmd \in [Procs -> Command]
    /\ \A p \in Procs :
          /\ At(p, "idle") <=> cmd[p].lock = "none"
          /\ cmd[p].op \in {"remove", "publish"} => cmd[p].lock = "exclusive"
          /\ At(p, "remove") => cmd[p].op = "remove"
          /\ cmd[p].op = "publish" => cmd[p].new \in Values /\ cmd[p].pc \notin Seeking

\* No other session is open beside an exclusive one.
Exclusion ==
    \A p, q \in Procs : p # q /\ cmd[p].lock = "exclusive" => cmd[q].lock = "none"

\* The publication lock is held in a session, and by whoever publishes or recovers.
SidecarHeld ==
    /\ sidecar \in Procs \cup {None}
    /\ sidecar # None => ~At(sidecar, "idle")
    /\ \A p \in Procs :
          cmd[p].pc \in Publishing \/ (At(p, "operate") /\ cmd[p].op = "publish") => sidecar = p

\* The arrangements of the files that an intent explains.
Before    == target = intent.old /\ pending = None /\ backup = None
Prepared  == target = intent.old /\ pending = intent.new /\ backup = None
Vacated   == target = None /\ pending = intent.new /\ backup = intent.old
Replaced  == target = intent.new /\ pending = None /\ backup \in {intent.old, None}
Cleaned   == target = intent.new /\ pending = None /\ backup = None

FilesExplained ==
    /\ target \in MaybeValue
    /\ intent = None => pending = None /\ backup = None
    /\ intent # None => /\ intent \in IntentState /\ intent.old # intent.new
                        /\ Before \/ Prepared \/ Vacated \/ Replaced

\* What a process relies on at a step.
Place(pc) ==
    /\ pc \in Unintended => intent = None
    /\ pc \in Publishing \ {"recover"} => intent # None
    /\ pc = "pending"       => Before
    /\ pc = "quarantine"    => Prepared /\ intent.old # None
    /\ pc = "publish"       => Vacated
    /\ pc = "finish"        => Replaced
    /\ pc = "removePending" => Cleaned
    /\ pc = "removeIntent"  => Before \/ Cleaned
    /\ pc # "failed"

Inv ==
    /\ Sessions
    /\ Exclusion
    /\ SidecarHeld
    /\ FilesExplained
    /\ \A p \in Procs : Place(cmd[p].pc)
    /\ found \in [Procs -> MaybeValue]
    /\ stops \in 0..MaxStops

-----------------------------------------------------------------------------
(* The inductive invariant *)

\* No file and no session at first.
LEMMA InvInit == Init => Inv
<1> SUFFICES ASSUME Init PROVE Inv
    OBVIOUS
<1>1. Sessions
    BY DEF Init, Sessions, Idle, Command, Places, MaybeValue, At
<1>2. Exclusion /\ SidecarHeld /\ FilesExplained
    BY NoneAssumption
    DEF Init, Exclusion, SidecarHeld, FilesExplained, Idle, MaybeValue, Publishing, At
<1>3. \A p \in Procs : Place(cmd[p].pc)
    BY DEF Init, Idle, Place, Publishing, Unintended
<1> QED
    BY <1>1, <1>2, <1>3, StopsAssumption DEF Init, Inv, MaybeValue

\* The files change only in the hands of the holder of the publication lock, under
\* an intent, or in an exclusive session.
FilesHeld(p) ==
    \/ UNCHANGED files
    \/ sidecar = p /\ intent # None /\ cmd[p].pc \in Publishing
    \/ cmd[p].lock = "exclusive"

\* Then no other process relied on what they were.
LEMMA OthersInPlace ==
    ASSUME Inv, NEW p \in Procs, FilesHeld(p), NEW q \in Procs, q # p, cmd'[q] = cmd[q]
    PROVE  Place(cmd[q].pc)'
<1>1. Place(cmd[q].pc) /\ cmd[q].pc \in Places
    BY DEF Inv, Sessions, Command
<1>2. CASE UNCHANGED files
    BY <1>1, <1>2 DEF Place, files, Before, Prepared, Vacated, Replaced, Cleaned
<1>3. CASE sidecar = p /\ intent # None /\ cmd[p].pc \in Publishing
    <2>1. cmd[q].pc \notin Publishing \cup Unintended
        BY <1>1, <1>3 DEF Inv, SidecarHeld, Place
    <2> QED
        BY <1>1, <2>1 DEF Place, Places, Publishing, Unintended
<1>4. CASE cmd[p].lock = "exclusive"
    <2>1. At(q, "idle")
        BY <1>4 DEF Inv, Exclusion, Sessions
    <2> QED
        BY <2>1 DEF Place, Publishing, Unintended, At
<1> QED
    BY <1>2, <1>3, <1>4 DEF FilesHeld

\* The process goes on within its session.
LEMMA MovingOn ==
    ASSUME Inv, NEW p \in Procs, NEW pc \in Places \ {"idle"}, ~At(p, "idle"), Goto(p, pc),
           FilesHeld(p), FilesExplained', Place(pc)',
           sidecar' = sidecar \/ (sidecar = None /\ sidecar' = p),
           cmd[p].op = "publish" => pc \notin Seeking,
           pc = "remove" => cmd[p].op = "remove",
           pc \in Publishing \/ (pc = "operate" /\ cmd[p].op = "publish") => sidecar' = p,
           found' \in [Procs -> MaybeValue], UNCHANGED stops
    PROVE  Inv'
<1>1. /\ cmd \in [Procs -> Command] /\ cmd' = [cmd EXCEPT ![p].pc = pc]
      /\ cmd[p] \in Command
    BY DEF Inv, Sessions, Goto
<1>2. /\ cmd'[p].pc = pc /\ cmd'[p].op = cmd[p].op /\ cmd'[p].lock = cmd[p].lock
      /\ cmd'[p].new = cmd[p].new /\ cmd'[p] \in Command
      /\ \A q \in Procs : q # p => cmd'[q] = cmd[q]
      /\ cmd' \in [Procs -> Command]
    BY <1>1 DEF Command
<1>3. Sessions'
    BY <1>2 DEF Inv, Sessions, At
<1>4. Exclusion'
    BY <1>2 DEF Inv, Exclusion
<1>5. SidecarHeld'
    <2>1. sidecar' \in Procs \cup {None}
        BY DEF Inv, SidecarHeld
    <2>2. ASSUME sidecar' # None PROVE ~At(sidecar, "idle")'
        BY <1>2, <2>2 DEF Inv, SidecarHeld, At
    <2>3. ASSUME NEW q \in Procs,
                 (cmd[q].pc \in Publishing \/ (At(q, "operate") /\ cmd[q].op = "publish"))'
          PROVE  sidecar' = q
        <3>1. CASE q = p
            BY <1>2, <2>3, <3>1 DEF At
        <3>2. CASE q # p
            BY <1>2, <2>3, <3>2, NoneAssumption DEF Inv, SidecarHeld, At
        <3> QED
            BY <3>1, <3>2
    <2> QED
        BY <2>1, <2>2, <2>3 DEF SidecarHeld
<1>6. ASSUME NEW q \in Procs PROVE Place(cmd[q].pc)'
    <2>1. CASE q = p
        BY <1>2, <2>1
    <2>2. CASE q # p
        BY <1>2, <2>2, OthersInPlace
    <2> QED
        BY <2>1, <2>2
<1> QED
    BY <1>3, <1>4, <1>5, <1>6 DEF Inv

\* The process ends its session.
LEMMA Closing ==
    ASSUME Inv, NEW p \in Procs, ~At(p, "idle"), Close(p), FilesHeld(p), FilesExplained',
           found' \in [Procs -> MaybeValue], stops' \in 0..MaxStops
    PROVE  Inv'
<1>1. cmd \in [Procs -> Command] /\ cmd' = [cmd EXCEPT ![p] = Idle]
    BY DEF Inv, Sessions, Close
<1>2. /\ cmd'[p] = Idle /\ Idle \in Command
      /\ \A q \in Procs : q # p => cmd'[q] = cmd[q]
      /\ cmd' \in [Procs -> Command]
    BY <1>1 DEF Idle, Command, Places, MaybeValue
<1>3. /\ Idle.pc = "idle" /\ Idle.op = "none" /\ Idle.lock = "none"
      /\ "idle" \notin Publishing
    BY DEF Idle, Publishing
<1>4. Sessions'
    BY <1>2, <1>3 DEF Inv, Sessions, At
<1>5. Exclusion'
    BY <1>2, <1>3 DEF Inv, Exclusion
<1>6. SidecarHeld'
    BY <1>2, <1>3, NoneAssumption DEF Inv, SidecarHeld, Close, At
<1>7. ASSUME NEW q \in Procs PROVE Place(cmd[q].pc)'
    <2>1. CASE q = p
        BY <1>2, <1>3, <2>1 DEF Place, Unintended
    <2>2. CASE q # p
        BY <1>2, <2>2, OthersInPlace
    <2> QED
        BY <2>1, <2>2
<1> QED
    BY <1>4, <1>5, <1>6, <1>7 DEF Inv

-----------------------------------------------------------------------------
(* Steps that leave the files alone *)

\* Files that are not touched stay explained.
LEMMA FilesUntouched ==
    ASSUME Inv, NEW p \in Procs, UNCHANGED files
    PROVE  FilesExplained' /\ FilesHeld(p)
BY DEF Inv, FilesExplained, FilesHeld, files, Before, Prepared, Vacated, Replaced

\* A session begins where no other one is in the way, with nothing to rely on but
\* for a publication, which waits for its lock.
LEMMA BeginInv ==
    ASSUME Inv, NEW p \in Procs, BeginRead(p) \/ BeginRemove(p) \/ BeginPublish(p)
    PROVE  Inv'
<1>1. PICK op \in {"read", "remove", "publish"}, mode \in {"shared", "exclusive"},
           new \in MaybeValue, pc \in {"seekIntent", "lock"} :
           /\ Begin(p, op, mode, new, pc)
           /\ op \in {"remove", "publish"} => mode = "exclusive"
           /\ op = "publish" => new \in Values /\ pc = "lock"
    BY DEF BeginRead, BeginRemove, BeginPublish, MaybeValue
<1> DEFINE session == [pc |-> pc, op |-> op, lock |-> mode, new |-> new]
<1>2. /\ At(p, "idle") /\ LockFree(mode) /\ cmd' = [cmd EXCEPT ![p] = session]
      /\ UNCHANGED <<files, sidecar, found, stops>>
    BY <1>1 DEF Begin
<1>3. /\ session \in Command /\ session.pc = pc /\ session.op = op
      /\ session.lock = mode /\ session.new = new
    BY DEF Command, Places
<1>4. /\ cmd'[p] = session /\ cmd' \in [Procs -> Command]
      /\ \A q \in Procs : q # p => cmd'[q] = cmd[q]
    BY <1>2, <1>3 DEF Inv, Sessions
<1>5. Sessions'
    BY <1>1, <1>3, <1>4 DEF Inv, Sessions, Seeking, At
<1>6. Exclusion'
    <2>1. ASSUME NEW q \in Procs
          PROVE  cmd[q].lock = "none" \/ (mode = "shared" /\ cmd[q].lock = "shared")
        BY <1>2 DEF LockFree
    <2> QED
        BY <1>3, <1>4, <2>1 DEF Inv, Exclusion
<1>7. SidecarHeld'
    <2>1. sidecar # p /\ pc \notin Publishing /\ pc # "operate"
        BY <1>2, NoneAssumption DEF Inv, SidecarHeld, Publishing
    <2> QED
        BY <1>2, <1>3, <1>4, <2>1 DEF Inv, SidecarHeld, At
<1>8. ASSUME NEW q \in Procs PROVE Place(cmd[q].pc)'
    <2>1. CASE q = p
        BY <1>3, <1>4, <2>1 DEF Place, Publishing, Unintended
    <2>2. CASE q # p
        BY <1>2, <1>4, <2>2, OthersInPlace, FilesUntouched
    <2> QED
        BY <2>1, <2>2
<1> QED
    BY <1>2, <1>5, <1>6, <1>7, <1>8, FilesUntouched DEF Inv

\* A process that finds no intent relies on it from then on: it holds the journal's
\* lock, so that no publication begins.
LEMMA SeekInv == ASSUME Inv, NEW p \in Procs, SeekControls(p) PROVE Inv'
<1>1. UNCHANGED <<files, sidecar, found, stops>> /\ ~At(p, "idle")
    BY DEF SeekControls, Seek, At
<1>2. FilesExplained' /\ FilesHeld(p) /\ found' \in [Procs -> MaybeValue]
    BY <1>1, FilesUntouched DEF Inv
<1>3. /\ cmd[p].pc \in Unintended => intent = None
      /\ cmd[p].op # "publish"
    BY DEF Inv, Place, Sessions, SeekControls, Seek, Seeking, At
<1>4. ASSUME NEW pc \in {"lock", "seekPending", "seekBackup", "operate"}, Goto(p, pc),
             pc \in Unintended => intent = None
      PROVE  Inv'
    <2>1. /\ pc \in Places \ {"idle"} /\ pc \notin Publishing
          /\ Place(pc)'
        BY <1>1, <1>4 DEF Places, Publishing, Unintended, Place, files
    <2> QED
        BY <1>1, <1>2, <1>3, <1>4, <2>1, MovingOn
<1>5. CASE Goto(p, "lock")
    BY <1>4, <1>5 DEF Unintended
<1>6. CASE Goto(p, "seekPending") /\ intent = None
    BY <1>4, <1>6
<1>7. CASE Goto(p, "seekBackup") /\ At(p, "seekPending")
    BY <1>3, <1>4, <1>7 DEF Unintended, At
<1>8. CASE Goto(p, "operate") /\ At(p, "seekBackup")
    BY <1>3, <1>4, <1>8 DEF Unintended, At
<1> QED
    BY <1>5, <1>6, <1>7, <1>8 DEF SeekControls, Seek

\* The publication lock is taken where nobody holds it.
LEMMA LockInv == ASSUME Inv, NEW p \in Procs, Lock(p) PROVE Inv'
<1>1. /\ UNCHANGED <<files, found, stops>> /\ ~At(p, "idle")
      /\ sidecar = None /\ sidecar' = p /\ Goto(p, "recover")
    BY DEF Lock, At
<1>2. /\ FilesExplained' /\ FilesHeld(p) /\ found' \in [Procs -> MaybeValue]
      /\ "recover" \in Places \ {"idle"} /\ Place("recover")' /\ "recover" \notin Seeking
    BY <1>1, FilesUntouched DEF Inv, Places, Place, Publishing, Unintended, Seeking
<1> QED
    BY <1>1, <1>2, MovingOn

-----------------------------------------------------------------------------
(* Recovery *)

\* Every arrangement of the files that an intent explains is taken up at the step
\* that finds it, and none has to be rolled back: a new file is only removed behind
\* a target that is new.
LEMMA ResumeInPlace ==
    ASSUME Inv
    PROVE  /\ ResumeAt # "rollBack"
           /\ ResumeAt \in {"operate", "quarantine", "publish", "finish", "removeIntent"}
           /\ Place(ResumeAt)
<1>1. CASE intent = None
    BY <1>1 DEF ResumeAt, Place, Publishing, Unintended
<1>2. CASE intent # None
    <2> DEFINE o == intent.old
               n == intent.new
    <2>1. n # None /\ o # n /\ o \in MaybeValue
        BY <1>2, NoneAssumption DEF Inv, FilesExplained, IntentState
    <2>2. CASE Before
        <3>1. ResumeAt = "removeIntent"
            BY <1>2, <2>1, <2>2 DEF ResumeAt, Before
        <3> QED
            BY <1>2, <2>2, <3>1 DEF Place, Publishing, Unintended
    <2>3. CASE Prepared /\ o # None
        <3>1. ResumeAt = "quarantine"
            BY <1>2, <2>1, <2>3 DEF ResumeAt, Prepared
        <3> QED
            BY <1>2, <2>3, <3>1 DEF Place, Publishing, Unintended
    <2>4. CASE (Prepared /\ o = None) \/ Vacated
        <3>1. ResumeAt = "publish"
            BY <1>2, <2>1, <2>4 DEF ResumeAt, Prepared, Vacated
        <3>2. Vacated
            BY <2>4 DEF Prepared, Vacated
        <3> QED
            BY <1>2, <3>1, <3>2 DEF Place, Publishing, Unintended
    <2>5. CASE Replaced
        <3>1. ResumeAt = "finish"
            BY <1>2, <2>1, <2>5 DEF ResumeAt, Replaced
        <3> QED
            BY <1>2, <2>5, <3>1 DEF Place, Publishing, Unintended
    <2> QED
        BY <1>2, <2>2, <2>3, <2>4, <2>5 DEF Inv, FilesExplained
<1> QED
    BY <1>1, <1>2


\* A recovery touches no file before it has found its step.
LEMMA RecoverInv == ASSUME Inv, NEW p \in Procs, Recover(p) PROVE Inv'
<1>1. /\ UNCHANGED <<files, sidecar, found, stops>> /\ At(p, "recover") /\ Goto(p, ResumeAt)
      /\ ResumeAt \in {"operate", "quarantine", "publish", "finish", "removeIntent"}
      /\ Place(ResumeAt)
    BY ResumeInPlace DEF Recover, files
<1>2. sidecar = p
    BY <1>1 DEF Inv, SidecarHeld, Publishing, At
<1>3. /\ FilesExplained' /\ FilesHeld(p) /\ found' \in [Procs -> MaybeValue]
    BY <1>1, FilesUntouched DEF Inv
<1>4. ASSUME NEW pc \in {"operate", "quarantine", "publish", "finish", "removeIntent"},
             Goto(p, pc), Place(pc)
      PROVE  Inv'
    <2>1. Place(pc)'
        BY <1>1, <1>4 DEF Place, files, Before, Prepared, Vacated, Replaced, Cleaned
    <2>2. pc \in Places \ {"idle"} /\ pc \notin Seeking /\ ~At(p, "idle")
        BY <1>1 DEF Places, Publishing, Unintended, Seeking, At
    <2> QED
        BY <1>1, <1>2, <1>3, <1>4, <2>1, <2>2, MovingOn
<1> QED
    BY <1>1, <1>4

-----------------------------------------------------------------------------
(* The steps of a publication *)

\* Within a publication its process holds both locks and relies on its place.
LEMMA Holding ==
    ASSUME Inv, NEW p \in Procs, cmd[p].pc \in Publishing \ {"recover"}
    PROVE  /\ sidecar = p /\ FilesHeld(p) /\ ~At(p, "idle")
           /\ intent \in IntentState /\ intent.old # intent.new
           /\ intent.new # None /\ intent # None
           /\ Place(cmd[p].pc)
<1>1. sidecar = p /\ Place(cmd[p].pc) /\ ~At(p, "idle")
    BY DEF Inv, SidecarHeld, Publishing, At
<1>2. intent # None
    BY <1>1 DEF Place
<1> QED
    BY <1>1, <1>2, NoneAssumption DEF Inv, FilesExplained, FilesHeld, IntentState

\* Such a step keeps the invariant if its files are still explained by the intent
\* and are those its next step relies on.
LEMMA Publication ==
    ASSUME Inv, NEW p \in Procs, cmd[p].pc \in Publishing \ {"recover"},
           NEW pc \in Publishing \ {"recover"}, Goto(p, pc), Place(pc)',
           UNCHANGED <<intent, sidecar, found, stops>>,
           (Before \/ Prepared \/ Vacated \/ Replaced)', target' \in MaybeValue
    PROVE  Inv'
<1>1. pc \in Places \ {"idle"} /\ pc \notin Seeking /\ pc # "remove"
    BY DEF Places, Publishing, Seeking
<1>2. sidecar = p /\ FilesHeld(p) /\ ~At(p, "idle")
    BY Holding
<1>3. FilesExplained'
    BY Holding DEF FilesExplained
<1> QED
    BY <1>1, <1>2, <1>3, MovingOn DEF Inv

\* The intent is written where there is none, for a content that is new.
LEMMA WriteIntentInv == ASSUME Inv, NEW p \in Procs, WriteIntent(p) PROVE Inv'
<1>1. /\ UNCHANGED <<target, pending, backup, found, stops>>
      /\ At(p, "operate") /\ cmd[p].op = "publish"
    BY DEF WriteIntent
<1>2. /\ sidecar = p /\ intent = None /\ pending = None /\ backup = None
      /\ target \in MaybeValue /\ cmd[p].new \in Values
      /\ cmd[p].lock = "exclusive" /\ FilesHeld(p) /\ ~At(p, "idle")
    BY <1>1 DEF Inv, SidecarHeld, FilesExplained, Place, Unintended, Sessions, FilesHeld, At
<1>3. CASE Close(p) /\ UNCHANGED intent
    BY <1>1, <1>2, <1>3, Closing, FilesUntouched DEF Inv, files
<1>4. CASE /\ target # cmd[p].new /\ Goto(p, "pending") /\ UNCHANGED sidecar
           /\ intent' = [old |-> target, new |-> cmd[p].new]
    <2>1. intent' \in IntentState /\ intent' # None
        BY <1>2, <1>4, NoneAssumption DEF IntentState, MaybeValue
    <2>2. Before'
        BY <1>1, <1>2, <1>4 DEF Before
    <2>3. FilesExplained'
        BY <1>1, <1>2, <1>4, <2>1, <2>2 DEF FilesExplained
    <2>4. Place("pending")' /\ "pending" \in Places \ {"idle"} /\ "pending" \notin Seeking
        BY <2>1, <2>2 DEF Place, Publishing, Unintended, Places, Seeking
    <2> QED
        BY <1>1, <1>2, <1>4, <2>3, <2>4, MovingOn DEF Inv
<1> QED
    BY <1>2, <1>3, <1>4 DEF WriteIntent

\* The new file is written beside the old one.
LEMMA WritePendingInv == ASSUME Inv, NEW p \in Procs, WritePending(p) PROVE Inv'
<1>1. At(p, "pending") /\ cmd[p].pc \in Publishing \ {"recover"}
    BY DEF WritePending, Publishing, At
<1>2. /\ UNCHANGED <<target, backup, intent, sidecar, found, stops>>
      /\ pending' = intent.new /\ Before /\ target \in MaybeValue
      /\ Goto(p, IF intent.old = None THEN "publish" ELSE "quarantine")
    BY <1>1, Holding DEF WritePending, Place, At, Before, Inv, FilesExplained
<1>3. Prepared'
    BY <1>2 DEF Before, Prepared
<1>4. CASE intent.old = None
    <2>1. Vacated' /\ "publish" \in Publishing \ {"recover"}
        BY <1>2, <1>4 DEF Before, Vacated, Publishing
    <2>2. Place("publish")'
        BY <1>1, <1>2, <2>1, Holding DEF Place, Publishing, Unintended
    <2> QED
        BY <1>1, <1>2, <1>4, <2>1, <2>2, Publication
<1>5. CASE intent.old # None
    <2>1. Place("quarantine")' /\ "quarantine" \in Publishing \ {"recover"}
        BY <1>1, <1>2, <1>3, <1>5, Holding DEF Place, Publishing, Unintended
    <2> QED
        BY <1>1, <1>2, <1>3, <1>5, <2>1, Publication
<1> QED
    BY <1>4, <1>5

\* The old file is moved to the vacant name of the backup.
LEMMA QuarantineInv == ASSUME Inv, NEW p \in Procs, Quarantine(p) PROVE Inv'
<1>1. At(p, "quarantine") /\ cmd[p].pc \in Publishing \ {"recover"}
    BY DEF Quarantine, Publishing, At
<1>2. /\ UNCHANGED <<pending, intent, sidecar, found, stops>>
      /\ backup' = target /\ target' = None /\ Goto(p, "publish") /\ Prepared
    BY <1>1, Holding DEF Quarantine, Place, At, Prepared
<1>3. Vacated' /\ "publish" \in Publishing \ {"recover"} /\ target' \in MaybeValue
    BY <1>2 DEF Prepared, Vacated, Publishing, MaybeValue
<1>4. Place("publish")'
    BY <1>1, <1>2, <1>3, Holding DEF Place, Publishing, Unintended
<1> QED
    BY <1>1, <1>2, <1>3, <1>4, Publication

\* The new file is moved to the vacant name of the target.
LEMMA PublishTargetInv == ASSUME Inv, NEW p \in Procs, PublishTarget(p) PROVE Inv'
<1>1. At(p, "publish") /\ cmd[p].pc \in Publishing \ {"recover"}
    BY DEF PublishTarget, Publishing, At
<1>2. /\ UNCHANGED <<backup, intent, sidecar, found, stops>>
      /\ target' = pending /\ pending' = None /\ Goto(p, "finish") /\ Vacated
    BY <1>1, Holding DEF PublishTarget, Place, At, Vacated
<1>3. Replaced' /\ "finish" \in Publishing \ {"recover"} /\ target' \in MaybeValue
    BY <1>1, <1>2, Holding DEF Vacated, Replaced, Publishing, MaybeValue, IntentState
<1>4. Place("finish")'
    BY <1>1, <1>2, <1>3, Holding DEF Place, Publishing, Unintended
<1> QED
    BY <1>1, <1>2, <1>3, <1>4, Publication

\* Behind a new target the backup goes first.
LEMMA RemoveBackupInv == ASSUME Inv, NEW p \in Procs, RemoveBackup(p) PROVE Inv'
<1>1. At(p, "finish") /\ cmd[p].pc \in Publishing \ {"recover"}
    BY DEF RemoveBackup, Publishing, At
<1>2. /\ UNCHANGED <<target, pending, intent, sidecar, found, stops>>
      /\ backup' = None /\ Goto(p, "removePending") /\ Replaced /\ target \in MaybeValue
    BY <1>1, Holding DEF RemoveBackup, Place, At, Replaced, Inv, FilesExplained
<1>3. Cleaned' /\ Replaced' /\ "removePending" \in Publishing \ {"recover"}
    BY <1>2 DEF Replaced, Cleaned, Publishing
<1>4. Place("removePending")'
    BY <1>1, <1>2, <1>3, Holding DEF Place, Publishing, Unintended
<1> QED
    BY <1>1, <1>2, <1>3, <1>4, Publication

\* Then a leftover of the new file.
LEMMA RemovePendingInv == ASSUME Inv, NEW p \in Procs, RemovePending(p) PROVE Inv'
<1>1. At(p, "removePending") /\ cmd[p].pc \in Publishing \ {"recover"}
    BY DEF RemovePending, Publishing, At
<1>2. /\ UNCHANGED <<target, backup, intent, sidecar, found, stops>>
      /\ pending' = None /\ Goto(p, "removeIntent") /\ Cleaned /\ target \in MaybeValue
    BY <1>1, Holding DEF RemovePending, Place, At, Inv, FilesExplained
<1>3. Cleaned' /\ Replaced' /\ "removeIntent" \in Publishing \ {"recover"}
    BY <1>2 DEF Replaced, Cleaned, Publishing
<1>4. Place("removeIntent")'
    BY <1>1, <1>2, <1>3, Holding DEF Place, Publishing, Unintended
<1> QED
    BY <1>1, <1>2, <1>3, <1>4, Publication

\* The intent goes last, when no copy is left to be explained.
LEMMA RemoveIntentInv == ASSUME Inv, NEW p \in Procs, RemoveIntent(p) PROVE Inv'
<1>1. At(p, "removeIntent") /\ cmd[p].pc \in Publishing \ {"recover"}
    BY DEF RemoveIntent, Publishing, At
<1>2. /\ UNCHANGED <<target, pending, backup, found, stops>> /\ intent' = None
      /\ pending = None /\ backup = None /\ target \in MaybeValue
    BY <1>1, Holding DEF RemoveIntent, Place, At, Before, Cleaned, Inv, FilesExplained
<1>3. FilesExplained' /\ FilesHeld(p) /\ sidecar = p /\ ~At(p, "idle")
    BY <1>1, <1>2, Holding DEF FilesExplained
<1>4. CASE Close(p)
    BY <1>2, <1>3, <1>4, Closing DEF Inv
<1>5. CASE Goto(p, "operate") /\ UNCHANGED sidecar
    <2>1. Place("operate")' /\ "operate" \in Places \ {"idle"} /\ "operate" \notin Seeking
        BY <1>2 DEF Place, Publishing, Unintended, Places, Seeking
    <2> QED
        BY <1>2, <1>3, <1>5, <2>1, MovingOn DEF Inv
<1> QED
    BY <1>4, <1>5 DEF RemoveIntent
-----------------------------------------------------------------------------
(* The other operations *)

\* A read touches no file.
LEMMA ReadTargetInv == ASSUME Inv, NEW p \in Procs, ReadTarget(p) PROVE Inv'
<1>1. /\ UNCHANGED <<files, stops>> /\ At(p, "operate") /\ cmd[p].op \in {"read", "remove"}
      /\ found' = [found EXCEPT ![p] = target]
    BY DEF ReadTarget
<1>2. /\ FilesExplained' /\ FilesHeld(p) /\ ~At(p, "idle") /\ intent' = None
      /\ found' \in [Procs -> MaybeValue]
    BY <1>1, FilesUntouched DEF Inv, FilesExplained, Place, Unintended, At, files
<1>3. CASE Close(p)
    BY <1>1, <1>2, <1>3, Closing DEF Inv
<1>4. CASE Goto(p, "remove") /\ UNCHANGED sidecar /\ cmd[p].op = "remove"
    <2>1. Place("remove")' /\ "remove" \in Places \ {"idle"} /\ "remove" \notin Seeking
          /\ "remove" \notin Publishing
        BY <1>2 DEF Place, Publishing, Unintended, Places, Seeking
    <2> QED
        BY <1>1, <1>2, <1>4, <2>1, MovingOn
<1> QED
    BY <1>3, <1>4 DEF ReadTarget

\* A removal is exclusive.
LEMMA RemoveTargetInv ==
    ASSUME Inv, NEW p \in Procs, RemoveTarget(p)
    PROVE  Inv'
<1>1. /\ UNCHANGED <<pending, backup, intent, found, stops>> /\ At(p, "remove")
      /\ target' = None /\ Close(p)
    BY DEF RemoveTarget
<1>2. intent = None /\ FilesHeld(p) /\ ~At(p, "idle")
    BY <1>1 DEF Inv, Sessions, Place, Unintended, FilesHeld, At
<1>3. FilesExplained'
    BY <1>1, <1>2 DEF Inv, FilesExplained, MaybeValue
<1> QED
    BY <1>1, <1>2, <1>3, Closing DEF Inv

\* A process that stops gives up its locks and nothing else.
LEMMA StopProcessInv == ASSUME Inv, NEW p \in Procs, StopProcess(p) PROVE Inv'
<1>1. /\ UNCHANGED <<files, found>> /\ ~At(p, "idle") /\ Close(p)
      /\ stops < MaxStops /\ stops' = stops + 1
    BY DEF StopProcess
<1>2. stops' \in 0..MaxStops
    BY <1>1, StopsAssumption DEF Inv
<1> QED
    BY <1>1, <1>2, Closing, FilesUntouched DEF Inv

\* Every step keeps the invariant.
LEMMA InvNext == Inv /\ [Next]_vars => Inv'
<1> SUFFICES ASSUME Inv, [Next]_vars PROVE Inv'
    OBVIOUS
<1>1. CASE UNCHANGED vars
    BY <1>1 DEF vars, files, Inv, Sessions, Exclusion, SidecarHeld, FilesExplained, Place, At,
                Before, Prepared, Vacated, Replaced, Cleaned
<1>2. ASSUME NEW p \in Procs, BeginRead(p) \/ BeginRemove(p) \/ BeginPublish(p)
      PROVE  Inv'
    BY <1>2, BeginInv
<1>3. ASSUME NEW p \in Procs, Step(p)
      PROVE  Inv'
    BY <1>3, SeekInv, LockInv, RecoverInv, ReadTargetInv, RemoveTargetInv, WriteIntentInv,
       WritePendingInv, QuarantineInv, PublishTargetInv, RemoveBackupInv, RemovePendingInv,
       RemoveIntentInv DEF Step
<1>4. ASSUME NEW p \in Procs, StopProcess(p)
      PROVE  Inv'
    BY <1>4, StopProcessInv
<1> QED
    BY <1>1, <1>2, <1>3, <1>4 DEF Next

\* Whatever runs beside a publication and wherever it stops, the invariant holds.
THEOREM Invariance == Spec => []Inv
BY InvInit, InvNext, PTL DEF Spec

-----------------------------------------------------------------------------
(* What follows from it *)

\* Files, sessions and locks are well formed.
THEOREM TypeCorrect == Spec => []TypeOK
<1>1. Inv => TypeOK
    <2> SUFFICES ASSUME Inv PROVE TypeOK
        OBVIOUS
    <2>1. {target, pending, backup} \subseteq MaybeValue
        BY DEF Inv, FilesExplained, IntentState, MaybeValue, Before, Prepared, Vacated, Replaced
    <2>2. intent # None => intent.old \in MaybeValue /\ intent.new \in Values
        BY DEF Inv, FilesExplained, IntentState
    <2>3. sidecar # None => cmd[sidecar].lock # "none"
        BY DEF Inv, SidecarHeld, Sessions
    <2> QED
        BY <2>1, <2>2, <2>3 DEF Inv, TypeOK
<1> QED
    BY <1>1, Invariance, PTL

\* No publication and no recovery ever meets files it must refuse.
THEOREM NeverRefusedSafe == Spec => []NeverRefused
<1>1. Inv => NeverRefused
    BY DEF Inv, Place, NeverRefused, At
<1> QED
    BY <1>1, Invariance, PTL

\* A copy never outlives the intent that explains it.
THEOREM ControlsSafe == Spec => []ControlsCovered
<1>1. Inv => ControlsCovered
    BY DEF Inv, FilesExplained, ControlsCovered
<1> QED
    BY <1>1, Invariance, PTL

\* The file has the value it is given before, while and after it is replaced.
LEMMA Value ==
    ASSUME Inv
    PROVE  /\ intent = None => LogicalValue = target
           /\ intent # None => /\ Before => LogicalValue = intent.old
                               /\ Prepared \/ Vacated \/ Replaced => LogicalValue = intent.new
<1>1. CASE intent = None
    BY <1>1 DEF LogicalValue
<1>2. CASE intent # None
    <2>1. intent.new # None
        BY <1>2, NoneAssumption DEF Inv, FilesExplained, IntentState
    <2> QED
        BY <1>2, <2>1 DEF LogicalValue, Before, Prepared, Vacated, Replaced
<1> QED
    BY <1>1, <1>2

\* Each step of a replacement, a read, a removal or a recovery is a step of the
\* atomic file or invisible in it.  The new content becomes the value when it is
\* written beside the old one.
LEMMA StepImplements ==
    ASSUME Inv, NEW p \in Procs, Step(p)
    PROVE  [Atomic!Next]_(Atomic!vars)
<1>1. Inv'
    BY InvNext DEF Next
<1>2. ASSUME LogicalValue' = LogicalValue, UNCHANGED found
      PROVE  [Atomic!Next]_(Atomic!vars)
    BY <1>2 DEF Atomic!vars
<1>3. CASE SeekControls(p) \/ Lock(p) \/ Recover(p)
    <2>1. UNCHANGED <<files, found>>
        BY <1>3, ResumeInPlace DEF SeekControls, Seek, Lock, Recover, files
    <2>2. LogicalValue' = LogicalValue
        BY <2>1 DEF LogicalValue, files
    <2> QED
        BY <1>2, <2>1, <2>2
<1>4. CASE ReadTarget(p)
    <2>1. /\ intent = None /\ UNCHANGED <<target, intent>>
          /\ found' = [found EXCEPT ![p] = target]
        BY <1>4 DEF ReadTarget, Inv, Place, Unintended, At, files
    <2>2. Atomic!Read(p)
        BY <1>1, <2>1, Value DEF Atomic!Read, LogicalValue
    <2> QED
        BY <2>2 DEF Atomic!Next
<1>5. CASE RemoveTarget(p)
    <2>1. intent = None /\ UNCHANGED <<intent, found>> /\ target' = None
        BY <1>5 DEF RemoveTarget, Inv, Place, Unintended, At
    <2>2. LogicalValue = target /\ LogicalValue' = None
        BY <2>1 DEF LogicalValue
    <2> QED
        BY <1>2, <2>1, <2>2 DEF Atomic!Next, Atomic!Remove
<1>6. CASE WriteIntent(p)
    <2>1. /\ intent = None /\ pending = None /\ backup = None
          /\ UNCHANGED <<target, pending, backup, found>>
          /\ intent' = None \/ (intent' # None /\ Before')
        BY <1>1, <1>6 DEF WriteIntent, Inv, Place, Unintended, FilesExplained, Before, At
    <2>2. LogicalValue' = LogicalValue
        BY <2>1 DEF LogicalValue
    <2> QED
        BY <1>2, <2>1, <2>2
<1>7. CASE WritePending(p)
    <2>1. At(p, "pending") /\ cmd[p].pc \in Publishing \ {"recover"}
        BY <1>7 DEF WritePending, Publishing, At
    <2>2. /\ intent # None /\ intent.new # None /\ intent.new \in Values /\ Before
          /\ UNCHANGED <<intent, found>> /\ pending' = intent.new
        BY <1>7, <2>1, Holding DEF WritePending, Place, IntentState, Before, At
    <2>3. LogicalValue' = intent.new
        BY <2>2 DEF LogicalValue
    <2> QED
        BY <2>2, <2>3 DEF Atomic!Next, Atomic!Replace
<1>8. CASE Quarantine(p) \/ PublishTarget(p) \/ RemoveBackup(p) \/ RemovePending(p)
    <2>1. cmd[p].pc \in {"quarantine", "publish", "finish", "removePending"}
        BY <1>8 DEF Quarantine, PublishTarget, RemoveBackup, RemovePending, At
    <2>2. /\ intent # None /\ intent.new # None
          /\ Prepared \/ Vacated \/ Replaced \/ Cleaned
        BY <2>1, Holding DEF Publishing, Place
    <2>3. UNCHANGED <<intent, found>>
        BY <1>8 DEF Quarantine, PublishTarget, RemoveBackup, RemovePending
    <2>4. LogicalValue = intent.new
        BY <2>2, Value DEF Cleaned, Replaced
    <2>5. pending' # None \/ (pending' = None /\ target' = intent.new)
        BY <1>8, <2>1, <2>2, Holding
        DEF Quarantine, PublishTarget, RemoveBackup, RemovePending, Place, Publishing, At,
            Prepared, Vacated, Replaced, Cleaned
    <2>6. LogicalValue' = intent.new
        BY <2>2, <2>3, <2>5 DEF LogicalValue
    <2> QED
        BY <1>2, <2>3, <2>4, <2>6
<1>9. CASE RemoveIntent(p)
    <2>1. cmd[p].pc = "removeIntent" /\ cmd[p].pc \in Publishing \ {"recover"}
        BY <1>9 DEF RemoveIntent, Publishing, At
    <2>2. intent # None /\ pending = None /\ backup = None
        BY <2>1, Holding DEF Place, Before, Cleaned
    <2>3. UNCHANGED <<target, found>> /\ intent' = None
        BY <1>9 DEF RemoveIntent
    <2>4. LogicalValue = target /\ LogicalValue' = target
        BY <2>2, <2>3 DEF LogicalValue
    <2> QED
        BY <1>2, <2>3, <2>4
<1> QED
    BY <1>3, <1>4, <1>5, <1>6, <1>7, <1>8, <1>9 DEF Step

\* Whoever reads, recovers or stops in between, replacing the file by way of an
\* intent, a pending file and a backup is replacing an atomic file.
THEOREM Implements == Spec => ReplacesAtomically
<1>1. Init => Atomic!Init
    BY DEF Init, Atomic!Init, LogicalValue
<1>2. ASSUME Inv, [Next]_vars
      PROVE  [Atomic!Next]_(Atomic!vars)
    <2>1. ASSUME UNCHANGED <<files, found>> PROVE [Atomic!Next]_(Atomic!vars)
        BY <2>1 DEF Atomic!vars, LogicalValue, files
    <2>2. ASSUME NEW p \in Procs,
                 BeginRead(p) \/ BeginRemove(p) \/ BeginPublish(p) \/ StopProcess(p)
          PROVE  UNCHANGED <<files, found>>
        BY <2>2 DEF BeginRead, BeginRemove, BeginPublish, Begin, StopProcess
    <2>3. CASE UNCHANGED vars
        BY <2>1, <2>3 DEF vars
    <2> QED
        BY <1>2, <2>1, <2>2, <2>3, StepImplements DEF Next
<1> QED
    BY <1>1, <1>2, Invariance, PTL DEF Spec, ReplacesAtomically, Atomic!Spec
=============================================================================
