----------------------- MODULE WorkspaceJournalProofs -----------------------
(***************************************************************************)
(* Proofs about WorkspaceJournal for any processes, record sizes and       *)
(* bounds.                                                                 *)
(*                                                                         *)
(* The inductive invariant says how far the file may be ahead of what is   *)
(* synchronised, in which states a pending recovery finds the file, and    *)
(* what a writer relies on at each of its steps.  That a discarded tail is *)
(* recorded once follows from the order of the identities: a fragment that *)
(* was discarded lies strictly between the record before it and the record *)
(* of its recovery.  The reservation for the completion record of a        *)
(* pending integration is kept by every first part of the journal.         *)
(***************************************************************************)
EXTENDS WorkspaceJournal, FiniteSetTheorems, TLAPS

Files       == [recs : Seq(Record), tail : {None} \cup Fragment]
IntentState == [recs : Seq(Record), discarded : Fragment, truncated : BOOLEAN]

\* The steps of a writer that may have written what is not synchronised, and all
\* the steps of a writer but the first look at the journal.
Recording == {"rest", "restRecovered", "sync", "syncRecovered", "remove"}
Writing   == Recording \cup {"ready", "recover", "complete", "syncTruncated",
                             "markTruncated", "append", "refused"}

Command == [pc : Writing \cup {"idle", "read"}, lock : {"none", "shared", "exclusive"},
            seen : Seq(Record), rec : {None} \cup Record]

-----------------------------------------------------------------------------
(* The order of records *)

\* The fragment is of a record built after those of recs.
Beyond(recs, fragment) == \A k \in 1..Len(recs) : recs[k].id < fragment.id

\* Records follow each other in the order they were built, and what a recovery
\* discarded was begun after the record before it.
Ordered(recs, limit) ==
    /\ \A k \in 1..Len(recs) : recs[k].id <= limit
    /\ \A j, k \in 1..Len(recs) : j < k => recs[j].id < recs[k].id
    /\ \A k \in 1..Len(recs) : recs[k].kind = "recovered" =>
          /\ recs[k].discarded \in Fragment
          /\ recs[k].discarded.id < recs[k].id
          /\ \A j \in 1..Len(recs) : j < k => recs[j].id < recs[k].discarded.id

FileOrdered(f) ==
    /\ Ordered(f.recs, built)
    /\ f.tail # None => Beyond(f.recs, f.tail) /\ f.tail.id <= built

\* A record built after the others goes behind them.
LEMMA OrderedAppend ==
    ASSUME NEW recs \in Seq(Record), NEW r \in Record, NEW limit \in Int,
           Ordered(recs, limit), Beyond(recs, r), r.id <= limit,
           r.kind = "recovered" =>
              r.discarded \in Fragment /\ Beyond(recs, r.discarded) /\ r.discarded.id < r.id
    PROVE  Ordered(Append(recs, r), limit)
<1> DEFINE new == Append(recs, r)
           n == Len(recs)
<1>1. /\ n \in Nat /\ Len(new) = n + 1 /\ new[n + 1] = r
      /\ \A k \in 1..n : new[k] = recs[k]
      /\ \A k \in 1..(n + 1) : k \in 1..n \/ k = n + 1
    OBVIOUS
<1> HIDE DEF new, n
<1>2. \A k \in 1..n : recs[k].id <= limit /\ recs[k].id < r.id
    BY DEF Ordered, Beyond, n
<1>3. \A j, k \in 1..n : j < k => recs[j].id < recs[k].id
    BY DEF Ordered, n
<1>4. \A k \in 1..n : recs[k].kind = "recovered" =>
          /\ recs[k].discarded \in Fragment
          /\ recs[k].discarded.id < recs[k].id
          /\ \A j \in 1..n : j < k => recs[j].id < recs[k].discarded.id
    BY DEF Ordered, n
<1>5. r.kind = "recovered" => \A j \in 1..n : recs[j].id < r.discarded.id
    BY DEF Beyond, n
<1>6. \A j, k \in 1..(n + 1) : j < k => j \in 1..n
    BY <1>1
<1>7. \A k \in 1..(n + 1) : new[k].id <= limit
    BY <1>1, <1>2
<1>8. \A j, k \in 1..(n + 1) : j < k => new[j].id < new[k].id
    BY <1>1, <1>2, <1>3, <1>6
<1>9. ASSUME NEW k \in 1..(n + 1), new[k].kind = "recovered"
      PROVE  /\ new[k].discarded \in Fragment
             /\ new[k].discarded.id < new[k].id
             /\ \A j \in 1..(n + 1) : j < k => new[j].id < new[k].discarded.id
    <2>1. CASE k = n + 1
        BY <1>1, <1>5, <1>6, <1>9, <2>1
    <2>2. CASE k \in 1..n
        BY <1>1, <1>4, <1>6, <1>9, <2>2
    <2> QED
        BY <1>1, <2>1, <2>2
<1> QED
    BY <1>1, <1>7, <1>8, <1>9 DEF Ordered, new

\* The first records of an ordered journal are ordered, and what is left of the
\* next one lies beyond them.
LEMMA OrderedPrefix ==
    ASSUME NEW recs \in Seq(Record), NEW n \in 0..Len(recs), NEW limit \in Int,
           Ordered(recs, limit)
    PROVE  /\ SubSeq(recs, 1, n) \in Seq(Record) /\ Len(SubSeq(recs, 1, n)) = n
           /\ Ordered(SubSeq(recs, 1, n), limit)
           /\ n # Len(recs) => /\ n + 1 \in 1..Len(recs)
                               /\ Beyond(SubSeq(recs, 1, n), recs[n + 1])
<1> DEFINE new == SubSeq(recs, 1, n)
<1>1. /\ n \in Nat /\ n <= Len(recs) /\ new \in Seq(Record) /\ Len(new) = n
      /\ \A k \in 1..n : new[k] = recs[k] /\ k \in 1..Len(recs)
    OBVIOUS
<1> HIDE DEF new
<1>2. Ordered(new, limit)
    BY <1>1 DEF Ordered
<1>3. n # Len(recs) => n + 1 \in 1..Len(recs) /\ Beyond(new, recs[n + 1])
    BY <1>1 DEF Ordered, Beyond
<1> QED
    BY <1>1, <1>2, <1>3 DEF new

\* A higher limit keeps the order.
LEMMA OrderedLimit ==
    ASSUME NEW recs \in Seq(Record), NEW limit \in Int, NEW higher \in Int, limit <= higher,
           Ordered(recs, limit)
    PROVE  Ordered(recs, higher)
<1>1. \A k \in 1..Len(recs) : recs[k].id \in Int
    <2>1. \A k \in 1..Len(recs) : recs[k] \in Record
        OBVIOUS
    <2> QED
        BY <2>1, BoundsAssumption DEF Record, Ids
<1> QED
    BY <1>1 DEF Ordered

\* In an ordered journal no fragment is discarded by two recoveries.
LEMMA DiscardedOnce ==
    ASSUME NEW recs \in Seq(Record), NEW limit \in Int, Ordered(recs, limit),
           NEW j \in 1..Len(recs), NEW k \in 1..Len(recs),
           recs[j].kind = "recovered", recs[k].kind = "recovered",
           recs[j].discarded = recs[k].discarded
    PROVE  j = k
<1>1. ASSUME NEW a \in 1..Len(recs), NEW b \in 1..Len(recs), a < b,
             recs[a].kind = "recovered", recs[b].kind = "recovered"
      PROVE  recs[a].discarded.id < recs[b].discarded.id
    <2>1. /\ recs[a].discarded.id < recs[a].id /\ recs[a].id < recs[b].discarded.id
          /\ recs[a].discarded \in Fragment /\ recs[b].discarded \in Fragment
        BY <1>1 DEF Ordered
    <2>2. recs[a] \in Record
        OBVIOUS
    <2>3. recs[a].id \in Int
        BY <2>2, BoundsAssumption DEF Record, Ids
    <2>4. recs[a].discarded.id \in Int /\ recs[b].discarded.id \in Int
        BY <2>1, BoundsAssumption DEF Fragment, Ids
    <2> QED
        BY <2>1, <2>3, <2>4
<1>2. recs[j].discarded.id \in Int
    BY BoundsAssumption DEF Ordered, Fragment, Ids
<1>3. j < k \/ k < j \/ j = k
    OBVIOUS
<1> QED
    BY <1>1, <1>2, <1>3

-----------------------------------------------------------------------------
(* Prefixes and the last record *)

\* A journal begins with itself, and a longer one with what a shorter one begins
\* with.
LEMMA PrefixAppend ==
    ASSUME NEW s \in Seq(Record), NEW t \in Seq(Record), NEW r \in Record
    PROVE  /\ IsPrefix(s, s)
           /\ IsPrefix(s, t) => IsPrefix(s, Append(t, r))
<1>1. IsPrefix(s, s)
    BY DEF IsPrefix
<1>2. ASSUME IsPrefix(s, t) PROVE IsPrefix(s, Append(t, r))
    <2>1. Len(s) <= Len(t) /\ SubSeq(s, 1, Len(s)) = SubSeq(t, 1, Len(s))
        BY <1>2 DEF IsPrefix
    <2>2. SubSeq(Append(t, r), 1, Len(s)) = SubSeq(t, 1, Len(s))
        BY <2>1
    <2> QED
        BY <2>1, <2>2 DEF IsPrefix
<1> QED
    BY <1>1, <1>2

\* A fragment or a record is not None.
LEMMA NotNone ==
    /\ \A f \in Fragment : f # None
    /\ \A r \in Record : r # None
    /\ \A i \in IntentState : i # None
BY DEF Fragment, Record, IntentState, None


\* What a process or a power loss leaves of an ordered journal: its synchronised
\* records or all of them.
LEMMA PrefixBetween ==
    ASSUME NEW s \in Seq(Record), NEW t \in Seq(Record), NEW n \in 0..Len(t),
           t = s \/ \E r \in Record : t = Append(s, r),
           IsPrefix(s, SubSeq(t, 1, n))
    PROVE  SubSeq(t, 1, n) = t \/ (SubSeq(t, 1, n) = s /\ n = Len(s) /\ n + 1 = Len(t))
<1> DEFINE u == SubSeq(t, 1, n)
<1>1. u \in Seq(Record) /\ Len(u) = n
    OBVIOUS
<1>2. Len(s) <= n /\ SubSeq(s, 1, Len(s)) = SubSeq(u, 1, Len(s))
    BY <1>1 DEF IsPrefix
<1>3. CASE n = Len(t)
    BY <1>3
<1>4. CASE n # Len(t)
    <2>1. PICK r \in Record : t = Append(s, r)
        BY <1>2, <1>4
    <2>2. Len(t) = Len(s) + 1 /\ n = Len(s)
        BY <1>2, <1>4, <2>1
    <2>3. SubSeq(t, 1, Len(s)) = s
        BY <2>1
    <2> QED
        BY <2>2, <2>3
<1> QED
    BY <1>3, <1>4

\* A longer journal begins with what the journal it begins with begins with.
LEMMA AppendParts ==
    ASSUME NEW s \in Seq(Record), NEW r \in Record
    PROVE  /\ Append(s, r) \in Seq(Record) /\ Append(s, r) # <<>> /\ Append(s, r) # s
           /\ Last(Append(s, r)) = r /\ Front(Append(s, r)) = s
           /\ Len(Append(s, r)) = Len(s) + 1 /\ Append(s, r)[Len(s) + 1] = r
<1>1. /\ Append(s, r) \in Seq(Record) /\ Len(Append(s, r)) = Len(s) + 1
      /\ Append(s, r)[Len(s) + 1] = r
    OBVIOUS
<1>2. Last(Append(s, r)) = r
    BY <1>1 DEF Last
<1>3. Front(Append(s, r)) = s
    BY <1>1 DEF Front
<1> QED
    BY <1>1, <1>2, <1>3

-----------------------------------------------------------------------------
(* The invariant *)

\* At most one record has been appended since the last synchronisation.
AtMostOneAhead ==
    \/ file.recs = synced.recs
    \/ /\ \E r \in Record : file.recs = Append(synced.recs, r)
       /\ file.tail = None /\ synced.tail = None

DiskInv ==
    /\ file \in Files /\ FileOrdered(file)
    /\ synced \in Files /\ FileOrdered(synced)
    /\ AtMostOneAhead
    /\ acked \in Seq(Record) /\ IsPrefix(acked, synced.recs)
    /\ built \in Nat /\ stops \in 0..MaxStops /\ built <= MaxBuilt + stops

\* A pending recovery finds the journal with the fragment it discards, without it,
\* or with the record of the recovery.
Begun ==
    /\ ~intent.truncated
    /\ file.recs = intent.recs /\ synced.recs = intent.recs
    /\ file.tail \in {None, intent.discarded} /\ synced.tail \in {None, intent.discarded}
    /\ file.tail # None => synced.tail = file.tail

Truncated ==
    /\ intent.truncated
    /\ file.recs = intent.recs /\ synced.recs = intent.recs

Recovers(r) == r.kind = "recovered" /\ r.discarded = intent.discarded

Recorded ==
    /\ intent.truncated
    /\ \E r \in Record : Recovers(r) /\ file.recs = Append(intent.recs, r)
    /\ file.tail = None
    /\ synced = file \/ (synced.recs = intent.recs /\ synced.tail = None)

IntentInv ==
    intent # None =>
       /\ intent \in IntentState
       /\ Ordered(intent.recs, built)
       /\ Beyond(intent.recs, intent.discarded) /\ intent.discarded.id <= built
       /\ Begun \/ Truncated \/ Recorded

Sessions ==
    /\ cmd \in [Procs -> Command]
    /\ \A p \in Procs : cmd[p].pc \in Writing => cmd[p].lock = "exclusive"
    /\ \A p, q \in Procs :
          cmd[p].lock = "exclusive" /\ p # q => cmd[q].lock = "none"

\* The record of command c is half written, or written but not synchronised.
HalfWritten(c) ==
    /\ c.rec \in Record
    /\ file.recs = synced.recs /\ synced.tail = None
    /\ file.tail = [id |-> c.rec.id, part |-> 1]

Written(c) ==
    /\ c.rec \in Record
    /\ file.recs = Append(synced.recs, c.rec)
    /\ file.tail = None /\ synced.tail = None

\* What a writer relies on at each of its steps.
Place(c) ==
    /\ c.lock = "exclusive" /\ c.pc \in {"read", "recover"} => synced = file
    /\ c.pc = "ready" =>
          synced = file /\ file.tail = None /\ intent = None /\ c.seen = file.recs
    /\ c.pc = "rest" => HalfWritten(c) /\ intent = None /\ c.rec.kind # "recovered"
    /\ c.pc = "sync" => Written(c) /\ intent = None
    /\ c.pc = "complete" => synced = file /\ intent # None
    /\ c.pc = "syncTruncated" =>
          intent # None /\ file.tail = None /\ file.recs = intent.recs
    /\ c.pc \in {"markTruncated", "append"} =>
          intent # None /\ synced = file /\ file.tail = None /\ file.recs = intent.recs
    /\ c.pc = "append" => intent.truncated
    /\ c.pc = "restRecovered" =>
          /\ HalfWritten(c) /\ Recovers(c.rec) /\ intent.discarded.id < c.rec.id
          /\ intent # None /\ intent.truncated /\ file.recs = intent.recs
    /\ c.pc = "syncRecovered" =>
          /\ Written(c) /\ Recovers(c.rec)
          /\ intent # None /\ Recorded
    /\ c.pc = "remove" => intent # None /\ Recorded /\ synced = file
    /\ c.pc # "refused"

\* There is a recovery to be made, and its record is not built yet.
Owing ==
    /\ file.tail # None \/ intent # None
    /\ \A p \in Procs : cmd[p].pc \notin Recording

\* Every stop leaves at most one recovery to be made.
Budget == Owing => built < MaxBuilt + stops

Inv == DiskInv /\ IntentInv /\ Sessions /\ (\A p \in Procs : Place(cmd[p])) /\ Budget

-----------------------------------------------------------------------------
(* Frames *)

Alone(p) == \A q \in Procs \ {p} : cmd[q].lock = "none"

Becomes(p, c) == cmd' = [cmd EXCEPT ![p] = c]

\* Only the holder of the exclusive lock is past its first look at the journal.
LEMMA HolderAlone ==
    ASSUME Sessions, NEW p \in Procs, cmd[p].lock = "exclusive"
    PROVE  Alone(p)
BY DEF Sessions, Alone

\* A process without a lock relies on nothing.
LEMMA NothingHeld ==
    ASSUME NEW c \in Command, c.pc \notin Writing, c.lock # "exclusive"
    PROVE  Place(c)'
BY DEF Place, Command, Writing, Recording

\* A step of the only process at work keeps the invariant when it keeps that of
\* the disk and of the pending recovery, and the process arrives where it may be.
LEMMA AloneStep ==
    ASSUME Sessions, NEW p \in Procs, NEW c \in Command, Alone(p), Becomes(p, c),
           c.lock = "exclusive" \/ c = Idle \/ c.pc = "read",
           DiskInv', IntentInv', Place(c)',
           c.pc \notin Recording /\ (file'.tail # None \/ intent' # None)
              => built' < MaxBuilt + stops'
    PROVE  Inv'
<1>1. cmd' \in [Procs -> Command] /\ cmd'[p] = c
      /\ \A q \in Procs : q # p => cmd'[q] = cmd[q]
    BY DEF Sessions, Becomes
<1>2. \A q \in Procs : q # p => cmd[q].lock = "none" /\ cmd[q].pc \notin Writing
    BY DEF Alone, Sessions
<1>3. Sessions'
    <2>1. c.pc \in Writing => c.lock = "exclusive"
        BY DEF Idle, Writing, Recording
    <2> QED
        BY <1>1, <1>2, <2>1 DEF Sessions
<1>4. ASSUME NEW q \in Procs PROVE Place(cmd[q])'
    <2>1. CASE q = p
        BY <1>1, <2>1
    <2>2. CASE q # p
        <3>1. PICK d \in Command : d = cmd[q]
            BY DEF Sessions
        <3>2. Place(d)'
            BY <1>2, <2>2, <3>1, NothingHeld
        <3> QED
            BY <1>1, <2>2, <3>1, <3>2
    <2> QED
        BY <2>1, <2>2
<1>5. Budget'
    BY <1>1 DEF Budget, Owing
<1> QED
    BY <1>3, <1>4, <1>5 DEF Inv

\* The disk and the pending recovery are as they were.
DiskSame == UNCHANGED <<file, synced, intent, acked, built>>

\* A step that leaves the disk alone keeps the invariants of the disk.
LEMMA SameDisk ==
    ASSUME DiskInv, IntentInv, DiskSame, stops' \in 0..MaxStops, stops <= stops'
    PROVE  DiskInv' /\ IntentInv'
<1>1. DiskInv'
    <2>1. FileOrdered(file)' /\ FileOrdered(synced)' /\ AtMostOneAhead'
        BY DEF DiskInv, DiskSame, FileOrdered, AtMostOneAhead
    <2>2. built' \in Nat /\ built' <= MaxBuilt + stops'
        <3>1. built' = built /\ built \in Nat /\ built <= MaxBuilt + stops
            BY DEF DiskInv, DiskSame
        <3>2. PICK m \in Int : m = stops' /\ stops <= m
            BY BoundsAssumption
        <3>3. PICK n \in Int : n = stops
            BY BoundsAssumption DEF DiskInv
        <3>4. n <= m /\ built <= MaxBuilt + n
            BY <3>1, <3>2, <3>3
        <3>5. built <= MaxBuilt + m
            BY <3>1, <3>4, BoundsAssumption
        <3> QED
            BY <3>1, <3>2, <3>5
    <2> QED
        BY <2>1, <2>2 DEF DiskInv, DiskSame
<1>2. IntentInv'
    BY DEF IntentInv, DiskSame, Begun, Truncated, Recorded, Recovers
<1> QED
    BY <1>1, <1>2

\* A process that leaves gives up its lock, a reader shares it; both leave the
\* journal as it is.
LEMMA LeaveStep ==
    ASSUME Inv, NEW p \in Procs, NEW c \in Command, Becomes(p, c), DiskSame,
           c.pc \notin Writing, c.lock # "exclusive",
           c.lock = "none" \/ \A q \in Procs : cmd[q].lock # "exclusive",
           stops' \in 0..MaxStops,
           stops' = stops + 1 \/ (stops' = stops /\ cmd[p].pc \notin Recording)
    PROVE  Inv'
<1>1. cmd' \in [Procs -> Command] /\ cmd'[p] = c
      /\ \A q \in Procs : q # p => cmd'[q] = cmd[q]
    BY DEF Inv, Sessions, Becomes
<1>2. stops \in Nat /\ stops <= stops'
    BY BoundsAssumption DEF Inv, DiskInv
<1>3. DiskInv' /\ IntentInv'
    BY <1>2, SameDisk DEF Inv
<1>4. Sessions'
    BY <1>1 DEF Inv, Sessions, Command
<1>5. ASSUME NEW q \in Procs PROVE Place(cmd[q])'
    <2>1. CASE q = p
        <3>1. Place(c)'
            BY NothingHeld
        <3> QED
            BY <1>1, <2>1, <3>1
    <2>2. CASE q # p
        <3>1. Place(cmd[q]) /\ cmd'[q] = cmd[q]
            BY <1>1, <2>2 DEF Inv
        <3> QED
            BY <3>1 DEF DiskSame, Place, HalfWritten, Written, Recorded, Recovers
    <2> QED
        BY <2>1, <2>2
<1>6. Budget'
    <2>1. built <= MaxBuilt + stops /\ built \in Nat /\ (Owing => built < MaxBuilt + stops)
        BY DEF Inv, DiskInv, Budget
    <2>2. CASE stops' = stops + 1
        BY <1>2, <2>1, <2>2, BoundsAssumption DEF DiskSame, Budget
    <2>3. CASE stops' = stops /\ cmd[p].pc \notin Recording
        <3>1. Owing' => Owing
            BY <1>1, <2>3 DEF Owing, DiskSame
        <3> QED
            BY <2>1, <2>3, <3>1 DEF DiskSame, Budget
    <2> QED
        BY <2>2, <2>3
<1> QED
    BY <1>3, <1>4, <1>5, <1>6 DEF Inv

\* What is written is then also synchronised: the pending recovery still finds it.
LEMMA Synchronised ==
    ASSUME DiskInv, IntentInv, synced' = file, acked' \in {acked, file.recs},
           UNCHANGED <<file, intent, built, stops>>
    PROVE  DiskInv' /\ IntentInv'
<1>1. file \in Files /\ file.recs \in Seq(Record) /\ synced.recs \in Seq(Record)
    BY DEF DiskInv, Files
<1>2. IsPrefix(file.recs, file.recs) /\ IsPrefix(acked, file.recs)
    <2>1. IsPrefix(file.recs, file.recs)
        BY <1>1 DEF IsPrefix
    <2>2. acked \in Seq(Record) /\ IsPrefix(acked, synced.recs)
        BY DEF DiskInv
    <2>3. CASE file.recs = synced.recs
        BY <2>1, <2>2, <2>3
    <2>4. ASSUME NEW r \in Record, file.recs = Append(synced.recs, r)
          PROVE  IsPrefix(acked, file.recs)
        BY <1>1, <2>2, <2>4, PrefixAppend
    <2> QED
        BY <2>1, <2>2, <2>3, <2>4 DEF DiskInv, AtMostOneAhead
<1>3. FileOrdered(file)' /\ FileOrdered(synced)' /\ AtMostOneAhead'
    BY DEF DiskInv, FileOrdered, AtMostOneAhead
<1>4. DiskInv'
    <2>1. acked' \in Seq(Record) /\ IsPrefix(acked', synced'.recs)
        BY <1>1, <1>2 DEF DiskInv
    <2>2. built' \in Nat /\ stops' \in 0..MaxStops /\ built' <= MaxBuilt + stops'
        <3>1. built' = built /\ stops' = stops
            OBVIOUS
        <3> QED
            BY <3>1 DEF DiskInv
    <2> QED
        BY <1>1, <1>3, <2>1, <2>2 DEF DiskInv
<1>5. IntentInv'
    <2>1. ASSUME intent # None
          PROVE  (Begun \/ Truncated \/ Recorded)'
        BY <2>1 DEF IntentInv, Begun, Truncated, Recorded, Recovers
    <2> QED
        BY <2>1 DEF IntentInv
<1> QED
    BY <1>4, <1>5

\* The first half of a record built by the only process at work.
LEMMA HalfDisk ==
    ASSUME DiskInv, IntentInv, NEW r \in Record, r.id = built + 1,
           file.tail = None, synced = file, built < MaxBuilt + stops,
           intent = None \/ Truncated,
           built' = built + 1,
           file' = [file EXCEPT !.tail = [id |-> r.id, part |-> 1]],
           UNCHANGED <<synced, intent, acked, stops>>
    PROVE  /\ DiskInv' /\ IntentInv'
           /\ file'.recs = file.recs /\ file'.tail = [id |-> r.id, part |-> 1]
           /\ file'.recs = synced'.recs /\ synced'.tail = None
<1>1. /\ file \in Files /\ file.recs \in Seq(Record) /\ Ordered(file.recs, built)
      /\ built \in Nat
    BY DEF DiskInv, Files, FileOrdered
<1>2. /\ file' \in Files /\ file'.recs = file.recs
      /\ file'.tail = [id |-> r.id, part |-> 1]
    <2>1. r.id \in Ids
        BY DEF Record
    <2> QED
        BY <1>1, <2>1 DEF Files, Fragment
<1>3. Ordered(file.recs, built + 1)
    BY <1>1, OrderedLimit
<1>4. Beyond(file.recs, [id |-> r.id, part |-> 1])
    <2>1. \A k \in 1..Len(file.recs) : file.recs[k] \in Record
        BY <1>1
    <2>2. \A k \in 1..Len(file.recs) : file.recs[k].id \in Int
        BY <2>1, BoundsAssumption DEF Record, Ids
    <2> QED
        BY <1>1, <2>2 DEF Beyond, Ordered
<1>5. FileOrdered(file)' /\ FileOrdered(synced)'
    BY <1>1, <1>2, <1>3, <1>4 DEF FileOrdered
<1>6. AtMostOneAhead'
    BY <1>2 DEF AtMostOneAhead
<1>7. built' \in Nat /\ built' <= MaxBuilt + stops'
    <2>1. PICK m \in Int : m = stops
        BY BoundsAssumption DEF DiskInv
    <2>2. built + 1 <= MaxBuilt + m
        BY <1>1, <2>1, BoundsAssumption
    <2> QED
        BY <1>1, <2>1, <2>2
<1>8. DiskInv'
    BY <1>2, <1>5, <1>6, <1>7 DEF DiskInv
<1>9. IntentInv'
    <2>1. ASSUME intent # None PROVE IntentInv'
        <3>1. /\ intent \in IntentState /\ Ordered(intent.recs, built)
              /\ Beyond(intent.recs, intent.discarded) /\ intent.discarded.id <= built
            BY <2>1 DEF IntentInv
        <3>2. intent.recs \in Seq(Record) /\ intent.discarded.id \in Int
            BY <3>1, BoundsAssumption DEF IntentState, Fragment, Ids
        <3>3. Ordered(intent.recs, built + 1) /\ intent.discarded.id <= built + 1
            BY <1>1, <3>1, <3>2, OrderedLimit
        <3>4. Truncated'
            BY <1>2, <2>1 DEF Truncated
        <3> QED
            BY <3>1, <3>3, <3>4 DEF IntentInv
    <2> QED
        BY <2>1 DEF IntentInv
<1> QED
    BY <1>2, <1>8, <1>9

\* The rest of a record: the file is one record ahead.
LEMMA RestDisk ==
    ASSUME DiskInv, IntentInv, NEW c \in Command, HalfWritten(c),
           \/ intent = None /\ c.rec.kind # "recovered"
           \/ /\ intent # None /\ Truncated
              /\ Recovers(c.rec) /\ intent.discarded.id < c.rec.id,
           file' = [recs |-> Append(file.recs, c.rec), tail |-> None],
           UNCHANGED <<synced, intent, acked, built, stops>>
    PROVE  /\ DiskInv' /\ IntentInv' /\ Written(c)'
           /\ intent # None => Recorded'
<1>1. /\ file \in Files /\ file.recs \in Seq(Record) /\ Ordered(file.recs, built)
      /\ built \in Nat /\ c.rec \in Record /\ file.recs = synced.recs
      /\ c.rec.id \in Int
    BY BoundsAssumption DEF DiskInv, Files, FileOrdered, HalfWritten, Record, Ids
<1>2. /\ file'.recs = Append(file.recs, c.rec) /\ file'.tail = None
      /\ file'.recs \in Seq(Record) /\ file' \in Files
    BY <1>1 DEF Files
<1>3. Beyond(file.recs, c.rec) /\ c.rec.id <= built
    BY NotNone DEF DiskInv, FileOrdered, HalfWritten, Beyond, None
<1>4. c.rec.kind = "recovered" =>
          /\ c.rec.discarded \in Fragment
          /\ Beyond(file.recs, c.rec.discarded) /\ c.rec.discarded.id < c.rec.id
    <2>1. CASE c.rec.kind # "recovered"
        BY <2>1
    <2>2. CASE c.rec.kind = "recovered"
        <3>1. /\ intent # None /\ Truncated
              /\ Recovers(c.rec) /\ intent.discarded.id < c.rec.id
            BY <2>2
        <3>2. c.rec.discarded \in Fragment /\ Beyond(file.recs, c.rec.discarded)
            BY <3>1 DEF IntentInv, IntentState, Truncated, Recovers
        <3> QED
            BY <3>1, <3>2 DEF Recovers
    <2> QED
        BY <2>1, <2>2
<1>5. Ordered(file'.recs, built)
    BY <1>1, <1>2, <1>3, <1>4, OrderedAppend
<1>6. FileOrdered(file)' /\ FileOrdered(synced)'
    BY <1>2, <1>5 DEF FileOrdered, DiskInv
<1>7. Written(c)' /\ AtMostOneAhead'
    BY <1>1, <1>2 DEF Written, AtMostOneAhead, HalfWritten
<1>8. DiskInv'
    <2>1. built' = built /\ stops' = stops
        OBVIOUS
    <2> QED
        BY <1>2, <1>6, <1>7, <2>1 DEF DiskInv
<1>9. ASSUME intent # None PROVE Recorded'
    <2>1. /\ intent.truncated /\ Recovers(c.rec)
          /\ file.recs = intent.recs /\ synced.recs = intent.recs
        BY <1>9 DEF Truncated
    <2> QED
        BY <1>1, <1>2, <2>1 DEF Recorded, Recovers, HalfWritten
<1>10. IntentInv'
    BY <1>9 DEF IntentInv
<1> QED
    BY <1>7, <1>8, <1>9, <1>10

-----------------------------------------------------------------------------
(* Opening and reading *)

\* A writer synchronises the file under the lock before it looks at it.
LEMMA OpenWriterStep ==
    ASSUME Inv, NEW p \in Procs, NEW pc \in {"read", "recover"}, OpenWriter(p, pc)
    PROVE  Inv'
<1>1. PICK c : c = [Idle EXCEPT !.pc = pc, !.lock = "exclusive"]
    OBVIOUS
<1>2. /\ c \in Command /\ c.pc = pc /\ c.lock = "exclusive"
      /\ Becomes(p, c)
    <2>1. c = [pc |-> pc, lock |-> "exclusive", seen |-> <<>>, rec |-> None]
        BY <1>1 DEF Idle
    <2>2. Becomes(p, c)
        BY <1>1 DEF OpenWriter, Becomes
    <2> QED
        BY <2>1, <2>2 DEF Command, Writing
<1>3. Alone(p) /\ Sessions /\ cmd[p].pc = "idle"
    BY DEF OpenWriter, LockFree, Alone, At, Inv
<1>4. DiskInv' /\ IntentInv'
    BY Synchronised DEF Inv, OpenWriter
<1>5. Place(c)'
    BY <1>2 DEF Place, OpenWriter
<1>6. file'.tail # None \/ intent' # None => built' < MaxBuilt + stops'
    <2>1. \A q \in Procs : cmd[q].pc \notin Recording
        BY <1>3 DEF OpenWriter, LockFree, Sessions, Writing
    <2>2. file.tail # None \/ intent # None => built < MaxBuilt + stops
        BY <2>1 DEF Inv, Budget, Owing
    <2> QED
        BY <2>2 DEF OpenWriter
<1> QED
    BY <1>2, <1>3, <1>4, <1>5, <1>6, AloneStep

\* A reader only shares the lock.
LEMMA OpenReaderStep ==
    ASSUME Inv, NEW p \in Procs, OpenReader(p)
    PROVE  Inv'
<1>1. PICK c : c = [Idle EXCEPT !.pc = "read", !.lock = "shared"]
    OBVIOUS
<1>2. /\ c \in Command /\ c.pc = "read" /\ c.lock = "shared"
      /\ Becomes(p, c)
    <2>1. c = [pc |-> "read", lock |-> "shared", seen |-> <<>>, rec |-> None]
        BY <1>1 DEF Idle
    <2>2. Becomes(p, c)
        BY <1>1 DEF OpenReader, Becomes
    <2> QED
        BY <2>1, <2>2 DEF Command, Writing
<1>3. /\ \A q \in Procs : cmd[q].lock # "exclusive"
      /\ cmd[p].pc = "idle"
    BY DEF OpenReader, LockFree, At
<1>4. DiskSame /\ stops' = stops /\ stops \in 0..MaxStops
    BY DEF OpenReader, DiskSame, Inv, DiskInv
<1>5. c.pc \notin Writing /\ cmd[p].pc \notin Recording
    BY <1>2, <1>3 DEF Writing, Recording
<1> QED
    BY <1>2, <1>3, <1>4, <1>5, LeaveStep

\* A command that gives up without having written.
LEMMA CloseStep ==
    ASSUME Inv, NEW p \in Procs, Close(p), DiskSame, stops' \in 0..MaxStops,
           stops' = stops + 1 \/ (stops' = stops /\ cmd[p].pc \notin Recording)
    PROVE  Inv'
<1>1. PICK c : c = Idle
    OBVIOUS
<1>2. c \in Command /\ c.pc \notin Writing /\ c.lock = "none" /\ Becomes(p, c)
    BY <1>1 DEF Idle, Command, None, Writing, Recording, Close, Becomes
<1> QED
    BY <1>2, LeaveStep

\* A writer acts on a journal with neither a torn tail nor a pending recovery.
LEMMA ReadSnapshotStep ==
    ASSUME Inv, NEW p \in Procs, ReadSnapshot(p)
    PROVE  Inv'
<1>1. CASE intent # None \/ file.tail # None \/ cmd[p].lock # "exclusive"
    <2>1. Close(p) /\ DiskSame /\ stops' = stops /\ stops \in 0..MaxStops
          /\ cmd[p].pc \notin Recording
        BY <1>1 DEF ReadSnapshot, DiskSame, Inv, DiskInv, At, Recording
    <2> QED
        BY <2>1, CloseStep
<1>2. CASE intent = None /\ file.tail = None /\ cmd[p].lock = "exclusive"
    <2>1. PICK c : c = [cmd[p] EXCEPT !.pc = "ready", !.seen = file.recs]
        OBVIOUS
    <2>2. cmd[p] \in Command /\ cmd \in [Procs -> Command] /\ file.recs \in Seq(Record)
        BY DEF Inv, Sessions, DiskInv, Files
    <2>3. /\ c \in Command /\ c.pc = "ready" /\ c.lock = "exclusive"
          /\ c.seen = file.recs
        BY <1>2, <2>1, <2>2 DEF Command, Writing, Recording
    <2>4. Becomes(p, c)
        BY <1>2, <2>1, <2>2 DEF ReadSnapshot, Becomes
    <2>5. DiskInv' /\ IntentInv'
        BY <1>2, Synchronised DEF Inv, ReadSnapshot
    <2>6. Place(c)' /\ file'.tail = None /\ intent' = None
        BY <1>2, <2>3 DEF Place, ReadSnapshot
    <2>7. Alone(p) /\ Sessions
        BY <1>2, HolderAlone DEF Inv
    <2> QED
        BY <2>3, <2>4, <2>5, <2>6, <2>7, AloneStep
<1> QED
    BY <1>1, <1>2

-----------------------------------------------------------------------------
(* Appending *)

\* A writer past its first look holds the lock alone.
LEMMA WriterAlone ==
    ASSUME Inv, NEW p \in Procs, cmd[p].pc \in Writing
    PROVE  /\ cmd[p] \in Command /\ cmd[p].lock = "exclusive"
           /\ Sessions /\ Alone(p) /\ Place(cmd[p])
           /\ cmd[p].pc \notin Recording /\ (file.tail # None \/ intent # None)
                 => built < MaxBuilt + stops
<1>1. cmd[p] \in Command /\ cmd[p].lock = "exclusive" /\ Sessions /\ Place(cmd[p])
    BY DEF Inv, Sessions
<1>2. Alone(p)
    BY <1>1, HolderAlone
<1>3. cmd[p].pc \notin Recording => \A q \in Procs : cmd[q].pc \notin Recording
    BY <1>2 DEF Alone, Inv, Sessions, Writing
<1> QED
    BY <1>1, <1>2, <1>3 DEF Inv, Budget, Owing

\* The record that is begun is built after all that are in the journal.
LEMMA AppendHalfStep ==
    ASSUME Inv, NEW p \in Procs, AppendHalf(p)
    PROVE  Inv'
<1>1. PICK kind \in {"event", "intended", "integrated"} :
          WriteHalf(p, [kind |-> kind, id |-> built + 1, discarded |-> None], "rest")
    BY DEF AppendHalf
<1>2. PICK r : r = [kind |-> kind, id |-> built + 1, discarded |-> None]
    OBVIOUS
<1>3. /\ cmd[p].pc = "ready" /\ built < MaxBuilt /\ intent = None /\ file.tail = None
      /\ UNCHANGED <<synced, intent, acked, stops>>
    BY DEF AppendHalf, At
<1>4. cmd[p].pc \in Writing
    BY <1>3 DEF Writing
<1>5. /\ cmd[p] \in Command /\ cmd[p].lock = "exclusive" /\ Sessions /\ Alone(p)
      /\ synced = file
    BY <1>3, <1>4, WriterAlone DEF Place
<1>6. built \in Nat /\ built < MaxBuilt + stops
    <2>1. built \in Nat /\ stops \in Nat
        BY BoundsAssumption DEF Inv, DiskInv
    <2> QED
        BY <1>3, <2>1, BoundsAssumption
<1>7. r \in Record /\ r.id = built + 1 /\ r.kind # "recovered"
    <2>1. built + 1 \in Ids
        BY <1>3, <1>6, BoundsAssumption DEF Ids
    <2> QED
        BY <1>2, <2>1 DEF Record, Kinds
<1>8. /\ built' = built + 1
      /\ file' = [file EXCEPT !.tail = [id |-> r.id, part |-> 1]]
    BY <1>1, <1>2 DEF WriteHalf
<1>9. /\ DiskInv' /\ IntentInv'
      /\ file'.recs = synced'.recs /\ synced'.tail = None
      /\ file'.tail = [id |-> r.id, part |-> 1]
    BY <1>3, <1>5, <1>6, <1>7, <1>8, HalfDisk DEF Inv
<1>10. PICK c : c = [cmd[p] EXCEPT !.pc = "rest", !.rec = r]
    OBVIOUS
<1>11. /\ c \in Command /\ c.pc = "rest" /\ c.lock = "exclusive" /\ c.rec = r
       /\ Becomes(p, c)
    <2>1. c \in Command /\ c.pc = "rest" /\ c.lock = "exclusive" /\ c.rec = r
        BY <1>5, <1>7, <1>10 DEF Command, Writing, Recording
    <2>2. Becomes(p, c)
        BY <1>1, <1>2, <1>10 DEF WriteHalf, Becomes, Inv, Sessions
    <2> QED
        BY <2>1, <2>2
<1>12. Place(c)' /\ c.pc \in Recording
    BY <1>3, <1>7, <1>9, <1>11 DEF Place, HalfWritten, Recording
<1> QED
    BY <1>5, <1>9, <1>11, <1>12, AloneStep

\* The record is complete, and the file one record ahead.
LEMMA AppendRestStep ==
    ASSUME Inv, NEW p \in Procs, AppendRest(p)
    PROVE  Inv'
<1>1. /\ cmd[p].pc \in {"rest", "restRecovered"}
      /\ file' = [recs |-> Append(file.recs, cmd[p].rec), tail |-> None]
      /\ UNCHANGED <<synced, intent, acked, built, stops>>
    BY DEF AppendRest, At
<1>2. cmd[p].pc \in Writing
    BY <1>1 DEF Writing, Recording
<1>3. /\ cmd[p] \in Command /\ cmd[p].lock = "exclusive" /\ Sessions /\ Alone(p)
      /\ Place(cmd[p])
    BY <1>2, WriterAlone
<1>4. PICK c : c = [cmd[p] EXCEPT !.pc =
                       IF cmd[p].pc = "rest" THEN "sync" ELSE "syncRecovered"]
    OBVIOUS
<1>5. /\ c \in Command /\ c.lock = "exclusive" /\ c.rec = cmd[p].rec
      /\ c.pc = IF cmd[p].pc = "rest" THEN "sync" ELSE "syncRecovered"
    BY <1>3, <1>4 DEF Command, Writing, Recording
<1>6. Becomes(p, c)
    BY <1>4 DEF AppendRest, Goto, At, Becomes, Inv, Sessions
<1>7. HalfWritten(c)
    BY <1>1, <1>3, <1>5 DEF Place, HalfWritten
<1>8. \/ intent = None /\ c.rec.kind # "recovered"
      \/ /\ intent # None /\ Truncated
         /\ Recovers(c.rec) /\ intent.discarded.id < c.rec.id
    BY <1>1, <1>3, <1>5 DEF Place, HalfWritten, Truncated, Recovers
<1>9. DiskInv' /\ IntentInv' /\ Written(c)' /\ (intent # None => Recorded')
    <2>1. file' = [recs |-> Append(file.recs, c.rec), tail |-> None]
        BY <1>1, <1>5
    <2> QED
        BY <1>1, <1>5, <1>7, <1>8, <2>1, RestDisk DEF Inv
<1>10. CASE cmd[p].pc = "rest"
    <2>1. c.pc = "sync" /\ intent = None
        BY <1>3, <1>5, <1>10 DEF Place
    <2>2. Place(c)' /\ c.pc \in Recording
        BY <1>1, <1>9, <2>1 DEF Place, Recording
    <2> QED
        BY <1>3, <1>5, <1>6, <1>9, <2>2, AloneStep
<1>11. CASE cmd[p].pc = "restRecovered"
    <2>1. c.pc = "syncRecovered" /\ intent # None /\ Recovers(c.rec)
        BY <1>3, <1>5, <1>11 DEF Place, Recovers
    <2>2. Place(c)' /\ c.pc \in Recording
        BY <1>1, <1>9, <2>1 DEF Place, Recording, Recovers
    <2> QED
        BY <1>3, <1>5, <1>6, <1>9, <2>2, AloneStep
<1> QED
    BY <1>1, <1>10, <1>11

\* What is acknowledged has been synchronised.
LEMMA AppendSyncStep ==
    ASSUME Inv, NEW p \in Procs, AppendSync(p)
    PROVE  Inv'
<1>1. /\ cmd[p].pc = "sync" /\ synced' = file /\ acked' = file.recs
      /\ UNCHANGED <<file, intent, built, stops>>
    BY DEF AppendSync, At
<1>2. cmd[p].pc \in Writing
    BY <1>1 DEF Writing, Recording
<1>3. /\ cmd[p] \in Command /\ cmd[p].lock = "exclusive" /\ Sessions /\ Alone(p)
      /\ Place(cmd[p])
    BY <1>2, WriterAlone
<1>4. PICK c : c = [cmd[p] EXCEPT !.pc = "ready", !.seen = file.recs, !.rec = None]
    OBVIOUS
<1>5. file.recs \in Seq(Record)
    BY DEF Inv, DiskInv, Files
<1>6. c \in Command /\ c.pc = "ready" /\ c.lock = "exclusive" /\ c.seen = file.recs
    BY <1>3, <1>4, <1>5 DEF Command, Writing, Recording
<1>7. Becomes(p, c)
    BY <1>4 DEF AppendSync, Becomes, Inv, Sessions
<1>8. DiskInv' /\ IntentInv'
    BY <1>1, Synchronised DEF Inv
<1>9. file'.tail = None /\ intent' = None
    BY <1>1, <1>3 DEF Place, Written
<1>10. Place(c)'
    BY <1>1, <1>6, <1>9 DEF Place
<1> QED
    BY <1>3, <1>6, <1>7, <1>8, <1>9, <1>10, AloneStep

-----------------------------------------------------------------------------
(* Recovery *)

\* A recovery that has recorded what it discarded is told from one that has not.
LEMMA RecordedIsRecorded ==
    ASSUME DiskInv, intent # None, IntentInv
    PROVE  /\ AlreadyRecorded <=> Recorded
           /\ ~Recorded => (WithinBoundary /\ (Begun \/ Truncated))
<1>1. /\ intent.recs \in Seq(Record) /\ file.recs \in Seq(Record)
      /\ Begun \/ Truncated \/ Recorded
    BY DEF IntentInv, IntentState, DiskInv, Files
<1>2. ASSUME Recorded PROVE AlreadyRecorded
    <2>1. PICK r \in Record : Recovers(r) /\ file.recs = Append(intent.recs, r)
        BY <1>2 DEF Recorded
    <2>2. file.recs # <<>> /\ Last(file.recs) = r /\ Front(file.recs) = intent.recs
        BY <1>1, <2>1, AppendParts
    <2> QED
        BY <1>2, <2>1, <2>2 DEF Recorded, AlreadyRecorded, Recovers
<1>3. ASSUME Begun \/ Truncated PROVE ~AlreadyRecorded /\ WithinBoundary
    <2>1. file.recs = intent.recs
        BY <1>3 DEF Begun, Truncated
    <2>2. file.recs # <<>> => Len(Front(file.recs)) = Len(file.recs) - 1
        BY <1>1 DEF Front
    <2>3. Front(file.recs) = intent.recs => file.recs = <<>>
        <3>1. Len(file.recs) # Len(file.recs) - 1
            BY <1>1
        <3> QED
            BY <2>1, <2>2, <3>1
    <2>4. file.tail # None => intent.truncated \/ file.tail = intent.discarded
        BY <1>3 DEF Begun, Truncated
    <2> QED
        BY <2>1, <2>3, <2>4 DEF AlreadyRecorded, WithinBoundary
<1> QED
    BY <1>1, <1>2, <1>3

\* A writer that goes to another step with the lock and what it read.
LEMMA GotoStep ==
    ASSUME Inv, NEW p \in Procs, cmd[p].lock = "exclusive",
           NEW pc \in Writing \cup {"read"}, Goto(p, pc)
    PROVE  \E c \in Command : /\ Becomes(p, c)
                              /\ c.pc = pc /\ c.lock = "exclusive"
                              /\ c.rec = cmd[p].rec /\ c.seen = cmd[p].seen
<1>1. PICK c : c = [cmd[p] EXCEPT !.pc = pc]
    OBVIOUS
<1>2. cmd[p] \in Command
    BY DEF Inv, Sessions
<1>3. /\ c \in Command /\ c.pc = pc /\ c.lock = "exclusive"
      /\ c.rec = cmd[p].rec /\ c.seen = cmd[p].seen
    BY <1>1, <1>2 DEF Command
<1>4. Becomes(p, c)
    BY <1>1 DEF Goto, Becomes, Inv, Sessions
<1> QED
    BY <1>3, <1>4

\* The intent is prepared for the synchronised journal and its torn tail.
LEMMA PrepareRecoveryStep ==
    ASSUME Inv, NEW p \in Procs, PrepareRecovery(p)
    PROVE  Inv'
<1>1. /\ cmd[p].pc = "recover"
      /\ UNCHANGED <<file, synced, acked, built, stops>>
    BY DEF PrepareRecovery, At
<1>2. cmd[p].pc \in Writing /\ cmd[p].pc \notin Recording
    BY <1>1 DEF Writing, Recording
<1>3. /\ cmd[p] \in Command /\ cmd[p].lock = "exclusive" /\ Sessions /\ Alone(p)
      /\ synced = file
      /\ file.tail # None \/ intent # None => built < MaxBuilt + stops
    BY <1>1, <1>2, WriterAlone DEF Place
<1>4. DiskInv'
    BY <1>1 DEF Inv, DiskInv, FileOrdered, AtMostOneAhead
<1>5. CASE intent # None \/ file.tail = None
    <2>1. PICK pc \in {"read", "complete"} :
              /\ Goto(p, pc) /\ intent' = intent
              /\ pc = "complete" <=> intent # None
        BY <1>5 DEF PrepareRecovery
    <2>2. pc \in Writing \cup {"read"} /\ pc \notin Recording
        BY DEF Writing, Recording
    <2>3. PICK c \in Command : Becomes(p, c) /\ c.pc = pc /\ c.lock = "exclusive"
        BY <1>3, <2>1, <2>2, GotoStep
    <2>4. IntentInv'
        BY <1>1, <2>1 DEF Inv, IntentInv, Begun, Truncated, Recorded, Recovers
    <2>5. Place(c)'
        BY <1>1, <1>3, <2>1, <2>3 DEF Place
    <2> QED
        BY <1>1, <1>3, <1>4, <2>1, <2>3, <2>4, <2>5, AloneStep
<1>6. CASE intent = None /\ file.tail # None
    <2>1. /\ Goto(p, "complete")
          /\ intent' = [recs |-> file.recs, discarded |-> file.tail, truncated |-> FALSE]
        BY <1>6 DEF PrepareRecovery
    <2>2. PICK c \in Command : Becomes(p, c) /\ c.pc = "complete" /\ c.lock = "exclusive"
        BY <1>3, <2>1, GotoStep DEF Writing
    <2>3. /\ file.recs \in Seq(Record) /\ file.tail \in Fragment
          /\ Ordered(file.recs, built) /\ Beyond(file.recs, file.tail)
          /\ file.tail.id <= built
        BY <1>6 DEF Inv, DiskInv, Files, FileOrdered
    <2>4. intent' \in IntentState /\ intent' # None
        <3>1. PICK i : i = intent'
            OBVIOUS
        <3>2. i \in IntentState
            BY <2>1, <2>3, <3>1 DEF IntentState
        <3> QED
            BY <3>1, <3>2, NotNone
    <2>5. /\ Ordered(intent'.recs, built) /\ Beyond(intent'.recs, intent'.discarded)
          /\ intent'.discarded.id <= built
        BY <2>1, <2>3
    <2>6. Begun'
        BY <1>1, <1>3, <2>1 DEF Begun
    <2>7. IntentInv'
        BY <1>1, <2>4, <2>5, <2>6 DEF IntentInv
    <2>8. Place(c)'
        BY <1>1, <1>3, <2>2, <2>4 DEF Place
    <2> QED
        BY <1>1, <1>3, <1>4, <1>6, <2>2, <2>7, <2>8, AloneStep
<1> QED
    BY <1>5, <1>6

\* A recovery taken up again finds its record, its fragment, or neither.
LEMMA CompleteRecoveryStep ==
    ASSUME Inv, NEW p \in Procs, CompleteRecovery(p)
    PROVE  Inv'
<1>1. cmd[p].pc = "complete" /\ UNCHANGED <<acked, built, stops>>
    BY DEF CompleteRecovery, At
<1>2. cmd[p].pc \in Writing /\ cmd[p].pc \notin Recording
    BY <1>1 DEF Writing, Recording
<1>3. /\ cmd[p] \in Command /\ cmd[p].lock = "exclusive" /\ Sessions /\ Alone(p)
      /\ synced = file /\ intent # None
      /\ built < MaxBuilt + stops
    BY <1>1, <1>2, WriterAlone DEF Place
<1>4. /\ AlreadyRecorded <=> Recorded
      /\ ~Recorded => (WithinBoundary /\ (Begun \/ Truncated))
    BY <1>3, RecordedIsRecorded DEF Inv
<1>5. CASE Recorded
    <2>1. Goto(p, "remove") /\ synced' = file /\ UNCHANGED <<file, intent>>
        BY <1>4, <1>5 DEF CompleteRecovery
    <2>2. PICK c \in Command : Becomes(p, c) /\ c.pc = "remove" /\ c.lock = "exclusive"
        BY <1>3, <2>1, GotoStep DEF Writing, Recording
    <2>3. DiskInv' /\ IntentInv'
        BY <1>1, <2>1, Synchronised DEF Inv
    <2>4. Recorded'
        BY <1>5, <2>1 DEF Recorded, Recovers
    <2>5. Place(c)' /\ c.pc \in Recording
        BY <1>3, <2>1, <2>2, <2>4 DEF Place, Recording
    <2> QED
        BY <1>3, <2>2, <2>3, <2>5, AloneStep
<1>6. CASE ~Recorded /\ file.tail # None
    <2>1. /\ file' = [file EXCEPT !.tail = None]
          /\ Goto(p, "syncTruncated") /\ UNCHANGED <<synced, intent>>
        BY <1>4, <1>6 DEF CompleteRecovery
    <2>2. PICK c \in Command :
              Becomes(p, c) /\ c.pc = "syncTruncated" /\ c.lock = "exclusive"
        BY <1>3, <2>1, GotoStep DEF Writing
    <2>3. file' \in Files /\ file'.recs = file.recs /\ file'.tail = None
        BY <2>1 DEF Inv, DiskInv, Files
    <2>4. DiskInv'
        <3>1. FileOrdered(file)' /\ FileOrdered(synced)'
            BY <1>1, <2>1, <2>3 DEF Inv, DiskInv, FileOrdered
        <3>2. AtMostOneAhead'
            BY <1>3, <2>1, <2>3 DEF AtMostOneAhead
        <3> QED
            BY <1>1, <2>1, <2>3, <3>1, <3>2 DEF Inv, DiskInv
    <2>5. (Begun \/ Truncated)'
        BY <1>4, <1>6, <2>1, <2>3 DEF Begun, Truncated
    <2>6. IntentInv'
        BY <1>1, <2>1, <2>5 DEF Inv, IntentInv
    <2>7. Place(c)'
        BY <1>3, <2>1, <2>2, <2>3, <2>5 DEF Place, Begun, Truncated
    <2> QED
        BY <1>1, <1>3, <2>2, <2>4, <2>6, <2>7, AloneStep
<1>7. CASE ~Recorded /\ file.tail = None
    <2>1. /\ intent' = [intent EXCEPT !.truncated = TRUE]
          /\ Goto(p, "append") /\ UNCHANGED <<file, synced>>
        BY <1>4, <1>7 DEF CompleteRecovery
    <2>2. PICK c \in Command : Becomes(p, c) /\ c.pc = "append" /\ c.lock = "exclusive"
        BY <1>3, <2>1, GotoStep DEF Writing
    <2>3. intent \in IntentState
        BY <1>3 DEF Inv, IntentInv
    <2>4. /\ intent' \in IntentState /\ intent'.recs = intent.recs
          /\ intent'.discarded = intent.discarded /\ intent'.truncated
        BY <2>1, <2>3 DEF IntentState
    <2>5. intent' # None
        <3>1. PICK i : i = intent'
            OBVIOUS
        <3> QED
            BY <2>4, <3>1, NotNone
    <2>6. DiskInv'
        BY <1>1, <2>1 DEF Inv, DiskInv, FileOrdered, AtMostOneAhead
    <2>7. Truncated'
        BY <1>4, <1>7, <2>1, <2>4 DEF Begun, Truncated
    <2>8. IntentInv'
        BY <1>1, <1>3, <2>4, <2>7 DEF Inv, IntentInv
    <2>9. Place(c)'
        BY <1>3, <1>7, <2>1, <2>2, <2>4, <2>5, <2>7 DEF Place, Truncated
    <2> QED
        BY <1>1, <1>3, <2>2, <2>6, <2>8, <2>9, AloneStep
<1> QED
    BY <1>5, <1>6, <1>7

\* The truncation is synchronised.
LEMMA SyncTruncatedStep ==
    ASSUME Inv, NEW p \in Procs, SyncTruncated(p)
    PROVE  Inv'
<1>1. /\ cmd[p].pc = "syncTruncated" /\ synced' = file /\ Goto(p, "markTruncated")
      /\ UNCHANGED <<file, intent, acked, built, stops>>
    BY DEF SyncTruncated, At
<1>2. cmd[p].pc \in Writing /\ cmd[p].pc \notin Recording
    BY <1>1 DEF Writing, Recording
<1>3. /\ cmd[p].lock = "exclusive" /\ Sessions /\ Alone(p)
      /\ intent # None /\ file.tail = None /\ file.recs = intent.recs
      /\ built < MaxBuilt + stops
    BY <1>1, <1>2, WriterAlone DEF Place
<1>4. PICK c \in Command :
          Becomes(p, c) /\ c.pc = "markTruncated" /\ c.lock = "exclusive"
    BY <1>1, <1>3, GotoStep DEF Writing
<1>5. DiskInv' /\ IntentInv'
    BY <1>1, Synchronised DEF Inv
<1>6. Place(c)'
    BY <1>1, <1>3, <1>4 DEF Place
<1> QED
    BY <1>1, <1>3, <1>4, <1>5, <1>6, AloneStep

\* Only a synchronised truncation is noted in the intent.
LEMMA MarkTruncatedStep ==
    ASSUME Inv, NEW p \in Procs, MarkTruncated(p)
    PROVE  Inv'
<1>1. /\ cmd[p].pc = "markTruncated" /\ Goto(p, "append")
      /\ intent' = [intent EXCEPT !.truncated = TRUE]
      /\ UNCHANGED <<file, synced, acked, built, stops>>
    BY DEF MarkTruncated, At
<1>2. cmd[p].pc \in Writing /\ cmd[p].pc \notin Recording
    BY <1>1 DEF Writing, Recording
<1>3. /\ cmd[p].lock = "exclusive" /\ Sessions /\ Alone(p)
      /\ intent # None /\ synced = file /\ file.tail = None /\ file.recs = intent.recs
      /\ built < MaxBuilt + stops
    BY <1>1, <1>2, WriterAlone DEF Place
<1>4. PICK c \in Command : Becomes(p, c) /\ c.pc = "append" /\ c.lock = "exclusive"
    BY <1>1, <1>3, GotoStep DEF Writing
<1>5. intent \in IntentState
    BY <1>3 DEF Inv, IntentInv
<1>6. /\ intent' \in IntentState /\ intent'.recs = intent.recs
      /\ intent'.discarded = intent.discarded /\ intent'.truncated
    BY <1>1, <1>5 DEF IntentState
<1>7. intent' # None
    <2>1. PICK i : i = intent'
        OBVIOUS
    <2> QED
        BY <1>6, <2>1, NotNone
<1>8. DiskInv'
    BY <1>1 DEF Inv, DiskInv, FileOrdered, AtMostOneAhead
<1>9. Truncated'
    BY <1>1, <1>3, <1>6 DEF Truncated
<1>10. IntentInv'
    BY <1>1, <1>3, <1>6, <1>9 DEF Inv, IntentInv
<1>11. Place(c)'
    BY <1>1, <1>3, <1>4, <1>6, <1>7 DEF Place
<1> QED
    BY <1>1, <1>3, <1>4, <1>8, <1>10, <1>11, AloneStep

\* The record of the recovery is begun on the truncated journal.
LEMMA AppendRecoveredStep ==
    ASSUME Inv, NEW p \in Procs, AppendRecovered(p)
    PROVE  Inv'
<1>1. cmd[p].pc = "append" /\ UNCHANGED <<synced, intent, acked, stops>>
    BY DEF AppendRecovered, At
<1>2. cmd[p].pc \in Writing /\ cmd[p].pc \notin Recording
    BY <1>1 DEF Writing, Recording
<1>3. /\ cmd[p] \in Command /\ cmd[p].lock = "exclusive" /\ Sessions /\ Alone(p)
      /\ intent # None /\ intent.truncated
      /\ synced = file /\ file.tail = None /\ file.recs = intent.recs
      /\ built < MaxBuilt + stops
    BY <1>1, <1>2, WriterAlone DEF Place
<1>4. CASE ~Appendable(file.recs, "recovered")
    <2>1. Close(p) /\ DiskSame /\ stops' = stops /\ stops \in 0..MaxStops
        BY <1>4 DEF AppendRecovered, DiskSame, Inv, DiskInv
    <2> QED
        BY <1>2, <2>1, CloseStep
<1>5. CASE Appendable(file.recs, "recovered")
    <2>1. PICK r : r = [kind |-> "recovered", id |-> built + 1,
                        discarded |-> intent.discarded]
        OBVIOUS
    <2>2. WriteHalf(p, r, "restRecovered")
        BY <1>5, <2>1 DEF AppendRecovered
    <2>3. /\ intent \in IntentState /\ intent.discarded \in Fragment
          /\ intent.discarded.id <= built /\ built \in Nat
          /\ intent.discarded.id \in Int
        BY <1>3, BoundsAssumption DEF Inv, IntentInv, IntentState, DiskInv, Fragment, Ids
    <2>4. built + 1 \in Ids
        <3>1. PICK m \in Nat : m = stops /\ m <= MaxStops
            BY BoundsAssumption DEF Inv, DiskInv
        <3>2. built < MaxBuilt + m
            BY <1>3, <3>1
        <3> QED
            BY <2>3, <3>1, <3>2, BoundsAssumption DEF Ids
    <2>5. /\ r \in Record /\ r.id = built + 1 /\ Recovers(r)
          /\ intent.discarded.id < r.id
        BY <2>1, <2>3, <2>4 DEF Record, Kinds, Recovers
    <2>6. /\ built' = built + 1
          /\ file' = [file EXCEPT !.tail = [id |-> r.id, part |-> 1]]
          /\ cmd' = [cmd EXCEPT ![p].pc = "restRecovered", ![p].rec = r]
        BY <2>2 DEF WriteHalf
    <2>7. Truncated
        BY <1>3 DEF Truncated
    <2>8. /\ DiskInv' /\ IntentInv'
          /\ file'.recs = file.recs /\ file'.tail = [id |-> r.id, part |-> 1]
          /\ file'.recs = synced'.recs /\ synced'.tail = None
        BY <1>1, <1>3, <2>5, <2>6, <2>7, HalfDisk DEF Inv
    <2>9. PICK c : c = [cmd[p] EXCEPT !.pc = "restRecovered", !.rec = r]
        OBVIOUS
    <2>10. c \in Command /\ c.pc = "restRecovered" /\ c.lock = "exclusive" /\ c.rec = r
        BY <1>3, <2>5, <2>9 DEF Command, Writing, Recording
    <2>11. Becomes(p, c)
        BY <2>6, <2>9 DEF Becomes, Inv, Sessions
    <2>12. HalfWritten(c)' /\ Recovers(c.rec)'
        BY <1>1, <2>5, <2>8, <2>10 DEF HalfWritten, Recovers
    <2>13. Place(c)' /\ c.pc \in Recording
        BY <1>1, <1>3, <2>5, <2>8, <2>10, <2>12 DEF Place, Recording
    <2> QED
        BY <1>3, <2>8, <2>10, <2>11, <2>13, AloneStep
<1> QED
    BY <1>4, <1>5

\* The record of the recovery is synchronised before the intent goes.
LEMMA SyncRecoveredStep ==
    ASSUME Inv, NEW p \in Procs, SyncRecovered(p)
    PROVE  Inv'
<1>1. /\ cmd[p].pc = "syncRecovered" /\ synced' = file /\ Goto(p, "remove")
      /\ UNCHANGED <<file, intent, acked, built, stops>>
    BY DEF SyncRecovered, At
<1>2. cmd[p].pc \in Writing
    BY <1>1 DEF Writing, Recording
<1>3. /\ cmd[p].lock = "exclusive" /\ Sessions /\ Alone(p)
      /\ intent # None /\ Recorded
    BY <1>1, <1>2, WriterAlone DEF Place
<1>4. PICK c \in Command : Becomes(p, c) /\ c.pc = "remove" /\ c.lock = "exclusive"
    BY <1>1, <1>3, GotoStep DEF Writing, Recording
<1>5. DiskInv' /\ IntentInv'
    BY <1>1, Synchronised DEF Inv
<1>6. Recorded'
    BY <1>1, <1>3 DEF Recorded, Recovers
<1>7. Place(c)' /\ c.pc \in Recording
    BY <1>1, <1>3, <1>4, <1>6 DEF Place, Recording
<1> QED
    BY <1>3, <1>4, <1>5, <1>7, AloneStep

\* The intent goes once its record is on disk.
LEMMA RemoveIntentStep ==
    ASSUME Inv, NEW p \in Procs, RemoveIntent(p)
    PROVE  Inv'
<1>1. /\ cmd[p].pc = "remove" /\ intent' = None /\ Goto(p, "read")
      /\ UNCHANGED <<file, synced, acked, built, stops>>
    BY DEF RemoveIntent, At
<1>2. cmd[p].pc \in Writing
    BY <1>1 DEF Writing, Recording
<1>3. /\ cmd[p].lock = "exclusive" /\ Sessions /\ Alone(p)
      /\ Recorded /\ synced = file
    BY <1>1, <1>2, WriterAlone DEF Place
<1>4. PICK c \in Command : Becomes(p, c) /\ c.pc = "read" /\ c.lock = "exclusive"
    BY <1>1, <1>3, GotoStep
<1>5. DiskInv' /\ IntentInv'
    BY <1>1 DEF Inv, DiskInv, FileOrdered, AtMostOneAhead, IntentInv
<1>6. Place(c)' /\ file'.tail = None
    BY <1>1, <1>3, <1>4 DEF Place, Recorded
<1> QED
    BY <1>1, <1>3, <1>4, <1>5, <1>6, AloneStep

-----------------------------------------------------------------------------
(* Failures *)

\* A power loss leaves the synchronised records, or one record more.
LEMMA PowerLossStep ==
    ASSUME Inv, PowerLoss
    PROVE  Inv'
<1>1. /\ stops' = stops + 1 /\ stops' \in 0..MaxStops
      /\ cmd' = [p \in Procs |-> Idle]
      /\ UNCHANGED <<intent, acked, built>>
    BY BoundsAssumption DEF PowerLoss, Inv, DiskInv
<1>2. PICK left \in Leftovers : file' = left /\ synced' = left
    BY DEF PowerLoss
<1>3. /\ file \in Files /\ file.recs \in Seq(Record)
      /\ synced \in Files /\ synced.recs \in Seq(Record)
      /\ FileOrdered(file) /\ FileOrdered(synced) /\ AtMostOneAhead
      /\ acked \in Seq(Record) /\ IsPrefix(acked, synced.recs)
      /\ built \in Nat /\ built <= MaxBuilt + stops
    BY DEF Inv, DiskInv, Files
<1>4. /\ left.tail \in {None} \cup Fragment /\ Survives(left)
      /\ left = [recs |-> left.recs, tail |-> left.tail]
    BY <1>2 DEF Leftovers
<1>5. PICK n \in 0..Len(file.recs) : left.recs = SubSeq(file.recs, 1, n)
    BY <1>2 DEF Leftovers
<1>6. left \in Files
    <2>1. left.recs \in Seq(Record)
        BY <1>3, <1>5
    <2> QED
        BY <1>4, <2>1 DEF Files
<1>7. \/ left = file
      \/ left = synced
      \/ /\ left.recs = file.recs /\ synced.tail = None /\ file.tail # None
         /\ left.tail = None \/ left.tail.id = file.tail.id
      \/ /\ left.recs = synced.recs /\ file.recs # synced.recs
         /\ left.tail = None \/ left.tail.id = file.recs[Len(synced.recs) + 1].id
    <2>1. CASE left = file \/ left = synced
        BY <2>1
    <2>2. CASE /\ synced.tail = None
               /\ IsPrefix(synced.recs, left.recs)
               /\ IF left.recs = file.recs
                  THEN file.tail # None /\ (left.tail = None \/ left.tail.id = file.tail.id)
                  ELSE left.tail = None \/ left.tail.id = file.recs[Len(left.recs) + 1].id
        <3>1. left.recs = file.recs \/ left.recs = synced.recs
            BY <1>3, <1>5, <2>2, PrefixBetween DEF AtMostOneAhead
        <3> QED
            BY <2>2, <3>1
    <2> QED
        BY <1>4, <2>1, <2>2 DEF Survives
<1>8. FileOrdered(left)
    <2>1. CASE left = file \/ left = synced
        BY <1>3, <2>1
    <2>2. CASE /\ left.recs = file.recs /\ synced.tail = None /\ file.tail # None
               /\ left.tail = None \/ left.tail.id = file.tail.id
        BY <1>3, <2>2 DEF FileOrdered, Beyond
    <2>3. CASE /\ left.recs = synced.recs /\ file.recs # synced.recs
               /\ left.tail = None \/ left.tail.id = file.recs[Len(synced.recs) + 1].id
        <3>1. PICK r \in Record : file.recs = Append(synced.recs, r)
            BY <1>3, <2>3 DEF AtMostOneAhead
        <3>2. /\ Len(file.recs) = Len(synced.recs) + 1
              /\ Len(synced.recs) \in 0..Len(file.recs)
              /\ SubSeq(file.recs, 1, Len(synced.recs)) = synced.recs
            BY <1>3, <3>1
        <3>3. /\ Len(synced.recs) + 1 \in 1..Len(file.recs)
              /\ Beyond(synced.recs, file.recs[Len(synced.recs) + 1])
            <4>1. built \in Int /\ Len(synced.recs) # Len(file.recs)
                BY <1>3, <3>2
            <4> QED
                BY <1>3, <3>2, <4>1, OrderedPrefix DEF FileOrdered
        <3>4. file.recs[Len(synced.recs) + 1].id <= built
            BY <1>3, <3>3 DEF FileOrdered, Ordered
        <3> QED
            BY <1>3, <2>3, <3>3, <3>4 DEF FileOrdered, Beyond
    <2> QED
        BY <1>7, <2>1, <2>2, <2>3
<1>9. IsPrefix(acked, left.recs)
    <2>1. left.recs = synced.recs \/ left.recs = file.recs
        BY <1>7
    <2>2. CASE left.recs = synced.recs
        BY <1>3, <2>2
    <2>3. ASSUME NEW r \in Record, left.recs = Append(synced.recs, r)
          PROVE  IsPrefix(acked, left.recs)
        BY <1>3, <2>3, PrefixAppend
    <2> QED
        BY <1>3, <2>1, <2>2, <2>3 DEF AtMostOneAhead
<1>10. built' \in Nat /\ built' < MaxBuilt + stops'
    <2>1. PICK m \in Nat : m = stops
        BY BoundsAssumption DEF Inv, DiskInv
    <2>2. built < MaxBuilt + (m + 1)
        BY <1>3, <2>1, BoundsAssumption
    <2> QED
        BY <1>1, <1>3, <2>1, <2>2
<1>11. DiskInv'
    <2>1. FileOrdered(file)' /\ FileOrdered(synced)'
        BY <1>1, <1>2, <1>8 DEF FileOrdered
    <2>2. AtMostOneAhead'
        BY <1>2 DEF AtMostOneAhead
    <2>3. built' <= MaxBuilt + stops'
        <3>1. PICK m \in Int : m = stops'
            BY <1>1, BoundsAssumption
        <3>2. PICK a \in Int : a = built'
            BY <1>10
        <3>3. a < MaxBuilt + m
            BY <1>10, <3>1, <3>2
        <3>4. a <= MaxBuilt + m
            BY <3>3, BoundsAssumption
        <3> QED
            BY <3>1, <3>2, <3>4
    <2> QED
        BY <1>1, <1>2, <1>3, <1>6, <1>9, <1>10, <2>1, <2>2, <2>3 DEF DiskInv
<1>12. IntentInv'
    <2>1. SUFFICES ASSUME intent # None PROVE (Begun \/ Truncated \/ Recorded)'
        BY <1>1 DEF Inv, IntentInv
    <2>2. CASE Begun
        <3>1. /\ ~intent.truncated
              /\ left.recs = intent.recs
              /\ left.tail \in {None, intent.discarded}
            BY <1>7, <2>2 DEF Begun
        <3> QED
            BY <1>1, <1>2, <3>1 DEF Begun
    <2>3. CASE Truncated
        <3>1. intent.truncated /\ left.recs = intent.recs
            BY <1>7, <2>3 DEF Truncated
        <3> QED
            BY <1>1, <1>2, <3>1 DEF Truncated
    <2>4. CASE Recorded
        <3>1. \/ left = file
              \/ left.recs = intent.recs
            BY <1>7, <2>4 DEF Recorded
        <3>2. CASE left = file
            BY <1>1, <1>2, <2>4, <3>2 DEF Recorded, Recovers
        <3>3. CASE left.recs = intent.recs
            BY <1>1, <1>2, <2>4, <3>3 DEF Recorded, Truncated
        <3> QED
            BY <3>1, <3>2, <3>3
    <2> QED
        BY <2>1, <2>2, <2>3, <2>4 DEF Inv, IntentInv
<1>13. \A p \in Procs : cmd'[p] = Idle
    BY <1>1
<1>14. Idle \in Command /\ Idle.pc \notin Writing /\ Idle.lock = "none"
    BY DEF Idle, Command, None, Writing, Recording
<1>15. Sessions'
    BY <1>1, <1>13, <1>14 DEF Sessions
<1>16. ASSUME NEW p \in Procs PROVE Place(cmd[p])'
    <2>1. PICK c : c = Idle
        OBVIOUS
    <2>2. Place(c)'
        BY <1>14, <2>1, NothingHeld
    <2> QED
        BY <1>13, <2>1, <2>2
<1>17. Budget'
    BY <1>10 DEF Budget
<1> QED
    BY <1>11, <1>12, <1>15, <1>16, <1>17 DEF Inv

-----------------------------------------------------------------------------
(* The theorems *)

\* An empty journal.
LEMMA InitInv == Init => Inv
<1> SUFFICES ASSUME Init PROVE Inv
    OBVIOUS
<1>1. /\ file = [recs |-> <<>>, tail |-> None] /\ synced = file /\ intent = None
      /\ cmd = [p \in Procs |-> Idle] /\ acked = <<>> /\ built = 0 /\ stops = 0
    BY DEF Init
<1>2. DiskInv
    <2>1. file \in Files /\ file.recs = <<>> /\ file.tail = None /\ <<>> \in Seq(Record)
        BY <1>1 DEF Files
    <2>2. FileOrdered(file)
        BY <2>1 DEF FileOrdered, Ordered
    <2>3. IsPrefix(acked, synced.recs)
        BY <1>1, <2>1 DEF IsPrefix
    <2>4. built <= MaxBuilt + stops /\ stops \in 0..MaxStops
        BY <1>1, BoundsAssumption
    <2> QED
        BY <1>1, <2>1, <2>2, <2>3, <2>4 DEF DiskInv, AtMostOneAhead
<1>3. \A p \in Procs : cmd[p] = Idle
    BY <1>1
<1>4. Idle \in Command /\ Idle.pc = "idle" /\ Idle.lock = "none"
    BY DEF Idle, Command, None
<1>5. Sessions
    BY <1>1, <1>3, <1>4 DEF Sessions, Writing, Recording
<1>6. \A p \in Procs : Place(cmd[p])
    BY <1>3, <1>4 DEF Place
<1> QED
    BY <1>1, <1>2, <1>5, <1>6 DEF Inv, IntentInv, Budget, Owing

\* Every step keeps the invariant.
LEMMA NextInv == Inv /\ [Next]_vars => Inv'
<1> SUFFICES ASSUME Inv, [Next]_vars PROVE Inv'
    OBVIOUS
<1>1. ASSUME NEW p \in Procs,
             OpenWriter(p, "read") \/ OpenWriter(p, "recover") \/ OpenReader(p)
      PROVE  Inv'
    BY <1>1, OpenWriterStep, OpenReaderStep
<1>2. ASSUME NEW p \in Procs, Step(p)
      PROVE  Inv'
    <2>1. CASE EndCommand(p)
        <3>1. /\ Close(p) /\ DiskSame /\ stops' = stops /\ stops \in 0..MaxStops
              /\ cmd[p].pc \notin Recording
            BY <2>1 DEF EndCommand, DiskSame, At, Recording, Inv, DiskInv
        <3> QED
            BY <3>1, CloseStep
    <2> QED
        BY <1>2, <2>1, ReadSnapshotStep, AppendRestStep, AppendSyncStep,
           PrepareRecoveryStep, CompleteRecoveryStep, SyncTruncatedStep,
           MarkTruncatedStep, AppendRecoveredStep, SyncRecoveredStep, RemoveIntentStep
           DEF Step
<1>3. ASSUME NEW p \in Procs, AppendHalf(p)
      PROVE  Inv'
    BY <1>3, AppendHalfStep
<1>4. ASSUME NEW p \in Procs, StopProcess(p)
      PROVE  Inv'
    <2>1. Close(p) /\ DiskSame /\ stops' = stops + 1 /\ stops' \in 0..MaxStops
        BY <1>4, BoundsAssumption DEF StopProcess, DiskSame, Inv, DiskInv
    <2> QED
        BY <2>1, CloseStep
<1>5. CASE PowerLoss
    BY <1>5, PowerLossStep
<1>6. CASE UNCHANGED vars
    <2>1. DiskSame /\ stops' = stops /\ cmd' = cmd
        BY <1>6 DEF vars, DiskSame
    <2>2. DiskInv' /\ IntentInv'
        <3>1. stops' \in 0..MaxStops /\ stops <= stops'
            BY <2>1, BoundsAssumption DEF Inv, DiskInv
        <3> QED
            BY <2>1, <3>1, SameDisk DEF Inv
    <2>3. Sessions' /\ Budget'
        BY <2>1 DEF Inv, Sessions, Budget, Owing, DiskSame
    <2>4. ASSUME NEW p \in Procs PROVE Place(cmd[p])'
        BY <2>1 DEF Inv, DiskSame, Place, HalfWritten, Written, Recorded, Recovers
    <2> QED
        BY <2>2, <2>3, <2>4 DEF Inv
<1> QED
    BY <1>1, <1>2, <1>3, <1>4, <1>5, <1>6 DEF Next

\* The file, what is synchronised and the pending recovery always agree as Inv says,
\* whatever the steps of the processes and the power losses in between.
THEOREM Invariance == Spec => []Inv
<1> QED
    BY InitInv, NextInv, PTL DEF Spec

\* The file, the intent and the sessions are well formed, and no process holds a
\* lock beside a writer (openWorkspaceJournal).
THEOREM TypeCorrect == Spec => []TypeOK
<1>1. Inv => TypeOK
    <2> SUFFICES ASSUME Inv PROVE TypeOK
        OBVIOUS
    <2>1. /\ file \in Files /\ synced \in Files
          /\ acked \in Seq(Record) /\ stops \in 0..MaxStops
          /\ built \in Nat /\ built <= MaxBuilt + stops
        BY DEF Inv, DiskInv
    <2>2. \A f \in {file, synced} : f.recs \in Seq(Record) /\ f.tail \in {None} \cup Fragment
        BY <2>1 DEF Files
    <2>3. intent # None => /\ intent.recs \in Seq(Record)
                           /\ intent.discarded \in Fragment
                           /\ intent.truncated \in BOOLEAN
        BY DEF Inv, IntentInv, IntentState
    <2>4. \A p, q \in Procs :
             cmd[p].lock = "exclusive" /\ p # q => cmd[q].lock = "none"
        BY DEF Inv, Sessions
    <2>5. built \in 0..(MaxBuilt + MaxStops)
        BY <2>1, BoundsAssumption
    <2> QED
        BY <2>1, <2>2, <2>3, <2>4, <2>5 DEF TypeOK
<1> QED
    BY <1>1, Invariance, PTL

\* A record that was acknowledged, or that a writer acted on, is on disk for good:
\* no end of a process, power loss or truncation of a torn tail takes it away.
THEOREM AckedSafe == Spec => []AckedDurable
<1>1. Inv => AckedDurable
    <2> SUFFICES ASSUME Inv PROVE AckedDurable
        OBVIOUS
    <2>1. /\ acked \in Seq(Record) /\ IsPrefix(acked, synced.recs)
          /\ synced.recs \in Seq(Record) /\ AtMostOneAhead
        BY DEF Inv, DiskInv, Files
    <2>2. ASSUME NEW r \in Record, file.recs = Append(synced.recs, r)
          PROVE  IsPrefix(acked, file.recs)
        BY <2>1, <2>2, PrefixAppend
    <2> QED
        BY <2>1, <2>2 DEF AckedDurable, AtMostOneAhead
<1> QED
    BY <1>1, Invariance, PTL

\* A recovery that was only interrupted always finds the journal within the bounds
\* of its intent (completeRecovery refuses none).
THEOREM RecoverySafe == Spec => []RecoveryNeverRefused
<1>1. Inv => RecoveryNeverRefused
    BY DEF Inv, Place, RecoveryNeverRefused, At
<1> QED
    BY <1>1, Invariance, PTL

\* No fragment is recorded as discarded by two recoveries, and the intent of a
\* recovery is given up only with its record on disk.
THEOREM DiscardSafe == Spec => []DiscardRecordedOnce
<1>1. Inv => DiscardRecordedOnce
    <2> SUFFICES ASSUME Inv PROVE DiscardRecordedOnce
        OBVIOUS
    <2>1. file.recs \in Seq(Record) /\ Ordered(file.recs, built) /\ built \in Int
        BY DEF Inv, DiskInv, Files, FileOrdered
    <2>2. \A j, k \in 1..Len(file.recs) :
             /\ file.recs[j].kind = "recovered" /\ file.recs[k].kind = "recovered"
             /\ file.recs[j].discarded = file.recs[k].discarded
             => j = k
        BY <2>1, DiscardedOnce
    <2>3. ASSUME NEW p \in Procs, At(p, "remove")
          PROVE  AlreadyRecorded /\ synced = file
        <3>1. intent # None /\ Recorded /\ synced = file
            BY <2>3 DEF Inv, Place, At
        <3> QED
            BY <3>1, RecordedIsRecorded DEF Inv
    <2> QED
        BY <2>2, <2>3 DEF DiscardRecordedOnce
<1> QED
    BY <1>1, Invariance, PTL

-----------------------------------------------------------------------------
(* Capacity *)

Places(recs) == UNION {{k} \X (1..Size[recs[k].kind]) : k \in DOMAIN recs}

HasRoom(recs) == IntegrationPending(recs) => Fits(recs, "integrated", 0)

\* The completion record fits, and would fit if only the first records were left.
PrefixesFit(recs) == \A n \in 0..Len(recs) : HasRoom(SubSeq(recs, 1, n))

\* It fits now, and when the record that is half written is complete.
CapacityInv ==
    /\ PrefixesFit(file.recs)
    /\ \A p \in Procs : cmd[p].pc \in {"rest", "restRecovered"} =>
                           PrefixesFit(Append(file.recs, cmd[p].rec))

\* A sequence with one more element.
LEMMA Appended ==
    ASSUME NEW S, NEW recs \in Seq(S), NEW r
    PROVE  /\ DOMAIN Append(recs, r) = DOMAIN recs \cup {Len(recs) + 1}
           /\ Len(recs) + 1 \notin DOMAIN recs
           /\ Append(recs, r)[Len(recs) + 1] = r
           /\ \A k \in DOMAIN recs : Append(recs, r)[k] = recs[k]
<1> DEFINE T == S \cup {r}
<1>1. recs \in Seq(T) /\ r \in T
    OBVIOUS
<1> QED
    BY <1>1

\* The places of the bytes of a journal are finitely many.
LEMMA PlacesFinite ==
    ASSUME NEW recs \in Seq(Record)
    PROVE  IsFiniteSet(Places(recs)) /\ Bytes(recs) = Cardinality(Places(recs))
           /\ Bytes(recs) \in Nat
<1> DEFINE D == DOMAIN recs
           A == 1..Size["event"]
           B == 1..Size["intended"]
           C == 1..Size["integrated"]
           E == 1..Size["recovered"]
<1>1. \A kind \in Kinds : Size[kind] \in Nat /\ IsFiniteSet(1..Size[kind])
    BY SizeAssumption, FS_Interval
<1>2. IsFiniteSet(A) /\ IsFiniteSet(B) /\ IsFiniteSet(C) /\ IsFiniteSet(E)
    BY <1>1 DEF Kinds
<1>3. IsFiniteSet(((A \cup B) \cup C) \cup E)
    BY <1>2, FS_Union
<1>4. IsFiniteSet(D)
    <2>1. D = 1..Len(recs) /\ Len(recs) \in Int
        OBVIOUS
    <2> QED
        BY <2>1, FS_Interval
<1>5. IsFiniteSet(D \X (((A \cup B) \cup C) \cup E))
    BY <1>3, <1>4, FS_Product
<1>6. \A k \in D : recs[k].kind \in {"event", "intended", "integrated", "recovered"}
    <2>1. \A k \in D : recs[k] \in Record
        OBVIOUS
    <2> QED
        BY <2>1 DEF Record, Kinds
<1>7. Places(recs) \subseteq D \X (((A \cup B) \cup C) \cup E)
    <2>1. SUFFICES ASSUME NEW k \in D, NEW x \in {k} \X (1..Size[recs[k].kind])
                   PROVE  x \in D \X (((A \cup B) \cup C) \cup E)
        BY DEF Places
    <2>2. 1..Size[recs[k].kind] \subseteq ((A \cup B) \cup C) \cup E
        BY <1>6
    <2> QED
        BY <2>2
<1>8. IsFiniteSet(Places(recs))
    BY <1>5, <1>7, FS_Subset
<1> QED
    BY <1>8, FS_CardinalityType DEF Bytes, Places

\* A record adds its size to the bytes of the journal.
LEMMA BytesAppend ==
    ASSUME NEW recs \in Seq(Record), NEW r \in Record
    PROVE  Bytes(Append(recs, r)) = Bytes(recs) + Size[r.kind]
<1> DEFINE new == Append(recs, r)
           n == Len(recs) + 1
           extra == {n} \X (1..Size[r.kind])
<1>1. /\ DOMAIN new = DOMAIN recs \cup {n} /\ n \notin DOMAIN recs
      /\ new[n] = r /\ \A k \in DOMAIN recs : new[k] = recs[k]
    BY Appended
<1>2. new \in Seq(Record)
    OBVIOUS
<1>3. Size[r.kind] \in Nat /\ Size[r.kind] > 0
    BY SizeAssumption DEF Record
<1> HIDE DEF new, n
<1>4. Places(new) = Places(recs) \cup extra
    BY <1>1 DEF Places
<1>5. Places(recs) \cap extra = {}
    BY <1>1 DEF Places
<1>6. IsFiniteSet(extra) /\ Cardinality(extra) = Size[r.kind]
    <2>1. IsFiniteSet({n}) /\ Cardinality({n}) = 1
        BY FS_Singleton
    <2>2. IsFiniteSet(1..Size[r.kind]) /\ Cardinality(1..Size[r.kind]) = Size[r.kind]
        <3>1. PICK m \in Nat : m = Size[r.kind] /\ m > 0
            BY <1>3
        <3>2. IsFiniteSet(1..m) /\ Cardinality(1..m) = IF 1 > m THEN 0 ELSE m - 1 + 1
            BY 1 \in Int, m \in Int, FS_Interval
        <3> QED
            BY <3>1, <3>2
    <2>3. IsFiniteSet(extra) /\ Cardinality(extra) = 1 * Size[r.kind]
        BY <2>1, <2>2, FS_Product
    <2> QED
        BY <1>3, <2>3
<1>7. /\ IsFiniteSet(Places(recs)) /\ Bytes(recs) = Cardinality(Places(recs))
      /\ Bytes(recs) \in Nat
    BY PlacesFinite
<1>8. Bytes(new) = Cardinality(Places(new))
    BY <1>2, PlacesFinite
<1>9. Cardinality(Places(recs) \cup extra) = Cardinality(Places(recs)) + Cardinality(extra)
    <2>1. Cardinality(Places(recs) \cap extra) = 0
        BY <1>5, FS_EmptySet
    <2>2. PICK a \in Nat, b \in Nat : a = Cardinality(Places(recs)) /\ b = Cardinality(extra)
        BY <1>3, <1>6, <1>7
    <2>3. Cardinality(Places(recs) \cup extra)
             = Cardinality(Places(recs)) + Cardinality(extra) - Cardinality(Places(recs) \cap extra)
        BY <1>6, <1>7, FS_Union
    <2>4. Cardinality(Places(recs) \cup extra) = a + b - 0
        BY <2>1, <2>2, <2>3
    <2> QED
        BY <2>2, <2>4
<1> QED
    BY <1>4, <1>6, <1>7, <1>8, <1>9 DEF new

\* Whether an integration is pending after a record depends on its kind only.
LEMMA PendingByKind ==
    ASSUME NEW recs \in Seq(Record), NEW r, NEW s, r.kind = s.kind
    PROVE  IntegrationPending(Append(recs, r)) <=> IntegrationPending(Append(recs, s))
<1> DEFINE R == Append(recs, r)
           T == Append(recs, s)
           n == Len(recs) + 1
<1>1. /\ DOMAIN R = DOMAIN recs \cup {n} /\ R[n] = r /\ \A k \in DOMAIN recs : R[k] = recs[k]
      /\ DOMAIN T = DOMAIN recs \cup {n} /\ T[n] = s /\ \A k \in DOMAIN recs : T[k] = recs[k]
    BY Appended
<1> HIDE DEF R, T, n
<1>2. \A kind : {k \in DOMAIN R : R[k].kind = kind} = {k \in DOMAIN T : T[k].kind = kind}
    BY <1>1
<1>3. \A kind : Count(R, kind) = Count(T, kind)
    BY <1>2 DEF Count
<1>4. IntegrationPending(R) <=> IntegrationPending(T)
    BY <1>3 DEF IntegrationPending
<1> QED
    BY <1>4 DEF R, T

\* A record that may be appended leaves room for the completion record.
LEMMA AppendableRoom ==
    ASSUME NEW recs \in Seq(Record), NEW r \in Record, Appendable(recs, r.kind)
    PROVE  HasRoom(Append(recs, r))
<1> SUFFICES ASSUME IntegrationPending(Append(recs, r))
             PROVE  Bytes(Append(recs, r)) + Size["integrated"] + 0 <= MaxBytes
    BY DEF HasRoom, Fits
<1>1. IntegrationPending(Append(recs, [kind |-> r.kind]))
    BY PendingByKind
<1>2. Bytes(recs) + Size[r.kind] + Size["integrated"] <= MaxBytes
    BY <1>1 DEF Appendable, Fits, Reserved
<1>3. Bytes(Append(recs, r)) = Bytes(recs) + Size[r.kind]
    BY BytesAppend
<1>4. Bytes(recs) \in Nat /\ Size[r.kind] \in Nat /\ Size["integrated"] \in Nat /\ MaxBytes \in Nat
    BY PlacesFinite, SizeAssumption DEF Record, Kinds
<1> QED
    BY <1>2, <1>3, <1>4

\* The prefixes of a journal with one more record.
LEMMA PrefixesAppend ==
    ASSUME NEW recs \in Seq(Record), NEW r \in Record, PrefixesFit(recs), HasRoom(Append(recs, r))
    PROVE  PrefixesFit(Append(recs, r))
<1> SUFFICES ASSUME NEW n \in 0..Len(Append(recs, r))
             PROVE  HasRoom(SubSeq(Append(recs, r), 1, n))
    BY DEF PrefixesFit
<1>1. CASE n \in 0..Len(recs)
    <2>1. SubSeq(Append(recs, r), 1, n) = SubSeq(recs, 1, n)
        BY <1>1
    <2> QED
        BY <1>1, <2>1 DEF PrefixesFit
<1>2. CASE n \notin 0..Len(recs)
    <2>1. SubSeq(Append(recs, r), 1, n) = Append(recs, r)
        BY <1>2
    <2> QED
        BY <2>1
<1> QED
    BY <1>1, <1>2

\* The first records of a journal have no prefixes that the journal has not.
LEMMA PrefixesOfPrefix ==
    ASSUME NEW recs \in Seq(Record), NEW n \in 0..Len(recs), PrefixesFit(recs)
    PROVE  PrefixesFit(SubSeq(recs, 1, n))
<1> SUFFICES ASSUME NEW m \in 0..Len(SubSeq(recs, 1, n))
             PROVE  HasRoom(SubSeq(SubSeq(recs, 1, n), 1, m))
    BY DEF PrefixesFit
<1>1. m \in 0..Len(recs) /\ SubSeq(SubSeq(recs, 1, n), 1, m) = SubSeq(recs, 1, m)
    OBVIOUS
<1> QED
    BY <1>1 DEF PrefixesFit

\* A step that leaves the records alone, and after which only what was being
\* written before is.
LEMMA CapacityFrame ==
    ASSUME CapacityInv, file'.recs = file.recs,
           \A p \in Procs : cmd'[p].pc \in {"rest", "restRecovered"} => cmd'[p] = cmd[p]
    PROVE  CapacityInv'
BY DEF CapacityInv

\* A record is begun that may be appended.
LEMMA CapacityBegun ==
    ASSUME Inv, CapacityInv, NEW p \in Procs, NEW r \in Record, NEW pc,
           Appendable(file.recs, r.kind), WriteHalf(p, r, pc)
    PROVE  CapacityInv'
<1>1. file.recs \in Seq(Record) /\ file'.recs = file.recs
    BY DEF Inv, DiskInv, Files, WriteHalf
<1>2. PrefixesFit(Append(file.recs, r))
    BY <1>1, AppendableRoom, PrefixesAppend DEF CapacityInv
<1>3. cmd'[p].rec = r /\ \A q \in Procs \ {p} : cmd'[q] = cmd[q]
    BY DEF WriteHalf, Inv, Sessions, Command
<1> QED
    BY <1>1, <1>2, <1>3 DEF CapacityInv

\* Every step keeps room for the completion record.
LEMMA CapacityStep ==
    ASSUME Inv, CapacityInv, [Next]_vars
    PROVE  CapacityInv'
<1>1. /\ cmd \in [Procs -> Command]
      /\ file \in Files /\ file.recs \in Seq(Record)
    BY DEF Inv, DiskInv, Sessions, Files
<1>2. ASSUME NEW p \in Procs, AppendHalf(p)
      PROVE  CapacityInv'
    <2>1. PICK kind \in {"event", "intended", "integrated"} :
             /\ Appendable(file.recs, kind)
             /\ WriteHalf(p, [kind |-> kind, id |-> built + 1, discarded |-> None], "rest")
        BY <1>2 DEF AppendHalf
    <2> DEFINE r == [kind |-> kind, id |-> built + 1, discarded |-> None]
    <2>2. built + 1 \in Ids
        BY <1>2, BoundsAssumption DEF AppendHalf, Inv, DiskInv, Ids
    <2>3. r \in Record /\ r.kind = kind
        BY <2>2 DEF Record, Kinds
    <2> QED
        BY <2>1, <2>3, CapacityBegun
<1>3. ASSUME NEW p \in Procs, AppendRecovered(p)
      PROVE  CapacityInv'
    <2>1. CASE ~Appendable(file.recs, "recovered")
        <3>1. file' = file /\ cmd' = [cmd EXCEPT ![p] = Idle]
            BY <1>3, <2>1 DEF AppendRecovered, Close
        <3> QED
            BY <1>1, <3>1, CapacityFrame DEF Idle
    <2>2. CASE Appendable(file.recs, "recovered")
        <3> DEFINE r == [kind |-> "recovered", id |-> built + 1, discarded |-> intent.discarded]
        <3>1. WriteHalf(p, r, "restRecovered")
            BY <1>3, <2>2 DEF AppendRecovered
        <3>2. cmd[p].pc = "append" /\ cmd[p].pc \in Writing /\ cmd[p].pc \notin Recording
            BY <1>3 DEF AppendRecovered, At, Writing, Recording
        <3>3. intent # None /\ built < MaxBuilt + stops
            BY <3>2, WriterAlone DEF Place
        <3>4. intent.discarded \in Fragment /\ built \in Nat
            BY <3>3, BoundsAssumption DEF Inv, IntentInv, IntentState, DiskInv
        <3>5. built + 1 \in Ids
            <4>1. PICK m \in Nat : m = stops /\ m <= MaxStops
                BY BoundsAssumption DEF Inv, DiskInv
            <4>2. built < MaxBuilt + m
                BY <3>3, <4>1
            <4> QED
                BY <3>4, <4>1, <4>2, BoundsAssumption DEF Ids
        <3>6. r \in Record /\ r.kind = "recovered"
            BY <3>4, <3>5 DEF Record, Kinds
        <3> QED
            BY <2>2, <3>1, <3>6, CapacityBegun
    <2> QED
        BY <2>1, <2>2
<1>4. ASSUME NEW p \in Procs, AppendRest(p)
      PROVE  CapacityInv'
    <2>1. /\ file'.recs = Append(file.recs, cmd[p].rec)
          /\ cmd[p].pc \in {"rest", "restRecovered"}
          /\ cmd' = [cmd EXCEPT ![p].pc = IF At(p, "rest") THEN "sync" ELSE "syncRecovered"]
        BY <1>4 DEF AppendRest, At, Goto
    <2>2. PrefixesFit(Append(file.recs, cmd[p].rec))
        BY <2>1 DEF CapacityInv
    <2>3. \A q \in Procs : cmd'[q].pc \notin {"rest", "restRecovered"}
        <3>1. \A q \in Procs \ {p} : cmd[q].lock # "exclusive"
            BY <2>1 DEF Inv, Sessions, Writing, Recording
        <3>2. \A q \in Procs \ {p} : cmd[q].pc \notin {"rest", "restRecovered"}
            BY <3>1 DEF Inv, Sessions, Writing, Recording
        <3> QED
            BY <1>1, <2>1, <3>2
    <2> QED
        BY <2>1, <2>2, <2>3 DEF CapacityInv
<1>5. CASE PowerLoss
    <2>1. PICK left \in Leftovers : file' = left
        BY <1>5 DEF PowerLoss
    <2>2. PICK n \in 0..Len(file.recs) : left.recs = SubSeq(file.recs, 1, n)
        BY <2>1 DEF Leftovers
    <2>3. PrefixesFit(file'.recs)
        BY <1>1, <2>1, <2>2, PrefixesOfPrefix DEF CapacityInv
    <2>4. \A q \in Procs : cmd'[q].pc = "idle"
        BY <1>5 DEF PowerLoss, Idle
    <2> QED
        BY <2>3, <2>4 DEF CapacityInv
<1>6. ASSUME NEW p \in Procs,
             \/ OpenWriter(p, "read") \/ OpenWriter(p, "recover") \/ OpenReader(p)
             \/ ReadSnapshot(p) \/ EndCommand(p) \/ StopProcess(p)
      PROVE  CapacityInv'
    <2>1. file' = file
        BY <1>6 DEF OpenWriter, OpenReader, ReadSnapshot, EndCommand, StopProcess
    <2>2. cmd'[p].pc \notin {"rest", "restRecovered"} /\ \A q \in Procs \ {p} : cmd'[q] = cmd[q]
        <3>1. CASE OpenWriter(p, "read") \/ OpenWriter(p, "recover")
            <4>1. PICK pc \in {"read", "recover"} : OpenWriter(p, pc)
                BY <3>1
            <4>2. cmd' = [cmd EXCEPT ![p] = [Idle EXCEPT !.pc = pc, !.lock = "exclusive"]]
                BY <4>1 DEF OpenWriter
            <4> QED
                BY <1>1, <4>2 DEF Idle
        <3>2. CASE OpenReader(p)
            BY <1>1, <3>2 DEF OpenReader, Idle, Command
        <3>3. CASE ReadSnapshot(p)
            BY <1>1, <3>3 DEF ReadSnapshot, Close, Idle, Command
        <3>4. CASE EndCommand(p) \/ StopProcess(p)
            BY <1>1, <3>4 DEF EndCommand, StopProcess, Close, Idle, Command
        <3> QED
            BY <1>6, <3>1, <3>2, <3>3, <3>4
    <2> QED
        BY <2>1, <2>2, CapacityFrame
<1>7. ASSUME NEW p \in Procs,
             \/ AppendSync(p) \/ PrepareRecovery(p) \/ CompleteRecovery(p)
             \/ SyncTruncated(p) \/ MarkTruncated(p) \/ SyncRecovered(p) \/ RemoveIntent(p)
      PROVE  CapacityInv'
    <2>1. file'.recs = file.recs
        BY <1>1, <1>7 DEF AppendSync, PrepareRecovery, CompleteRecovery, SyncTruncated, MarkTruncated,
              SyncRecovered, RemoveIntent, Files
    <2>2. cmd'[p].pc \notin {"rest", "restRecovered"} /\ \A q \in Procs \ {p} : cmd'[q] = cmd[q]
        <3>1. CASE AppendSync(p)
            BY <1>1, <3>1 DEF AppendSync, Goto, Command
        <3>2. CASE PrepareRecovery(p)
            BY <1>1, <3>2 DEF PrepareRecovery, Goto, Command
        <3>3. CASE CompleteRecovery(p)
            BY <1>1, <3>3 DEF CompleteRecovery, Goto, Command
        <3>4. CASE SyncTruncated(p)
            BY <1>1, <3>4 DEF SyncTruncated, Goto, Command
        <3>5. CASE MarkTruncated(p)
            BY <1>1, <3>5 DEF MarkTruncated, Goto, Command
        <3>6. CASE SyncRecovered(p)
            BY <1>1, <3>6 DEF SyncRecovered, Goto, Command
        <3>7. CASE RemoveIntent(p)
            BY <1>1, <3>7 DEF RemoveIntent, Goto, Close, Idle, Command
        <3> QED
            BY <1>7, <3>1, <3>2, <3>3, <3>4, <3>5, <3>6, <3>7
    <2> QED
        BY <2>1, <2>2, CapacityFrame
<1>8. CASE UNCHANGED vars
    BY <1>8, CapacityFrame DEF vars
<1> QED
    BY <1>2, <1>3, <1>4, <1>5, <1>6, <1>7, <1>8 DEF Next, Step

\* While an integration is pending its completion record fits, whatever is appended,
\* recovered or lost in between (integrationCompletionReservationBytes).
THEOREM CapacitySafe == Spec => []CompletionFits
<1>1. Init => CapacityInv
    <2> SUFFICES ASSUME Init PROVE CapacityInv
        OBVIOUS
    <2>1. file.recs = <<>> /\ \A p \in Procs : cmd[p].pc = "idle"
        BY DEF Init, Idle
    <2>2. \A n \in 0..Len(<<>>) : SubSeq(<<>>, 1, n) = <<>>
        OBVIOUS
    <2>3. \A kind : {k \in DOMAIN <<>> : <<>>[k].kind = kind} = {}
        OBVIOUS
    <2>4. ~IntegrationPending(<<>>)
        BY <2>3, FS_EmptySet DEF IntegrationPending, Count
    <2> QED
        BY <2>1, <2>2, <2>4 DEF CapacityInv, PrefixesFit, HasRoom
<1>2. Inv /\ CapacityInv => CompletionFits
    <2> SUFFICES ASSUME Inv, CapacityInv PROVE CompletionFits
        OBVIOUS
    <2>1. file.recs \in Seq(Record)
        BY DEF Inv, DiskInv, Files
    <2>2. Len(file.recs) \in 0..Len(file.recs) /\ SubSeq(file.recs, 1, Len(file.recs)) = file.recs
        BY <2>1
    <2>3. HasRoom(file.recs)
        BY <2>2 DEF CapacityInv, PrefixesFit
    <2> QED
        BY <2>3 DEF CompletionFits, HasRoom
<1>3. Inv /\ CapacityInv /\ [Next]_vars => CapacityInv'
    BY CapacityStep
<1> QED
    BY <1>1, <1>2, <1>3, Invariance, PTL DEF Spec
=============================================================================
