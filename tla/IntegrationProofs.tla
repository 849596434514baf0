------------------------- MODULE IntegrationProofs -------------------------
(***************************************************************************)
(* Proofs about Integration for any set of attempts and any bounds.        *)
(*                                                                         *)
(* RecordedReachedRef and RefAtFrontier are not inductive: they say        *)
(* nothing of a command that is about to record a merge.  Inv adds what    *)
(* the command has established at each of its steps.                       *)
(***************************************************************************)
EXTENDS Integration, FiniteSetTheorems, TLAPS

\* The steps of a command that has made no promise yet, and the steps it takes
\* once it has found the feature ref at its merge.
BeforePromise == {"accept", "inspectFresh", "promise"}
Published == {"inspectSwapped", "verify", "reconfirmPublished", "inspectFinal", "record"}

\* At most one intent is pending, for an attempt that is not integrated.
OnePromise ==
    /\ promised = {} \/ \E a \in Attempts : promised = {a}
    /\ \A a \in promised : ~InChain(a)

\* What the command relies on at each step.
CommandInPlace ==
    /\ cmd.pc \in BeforePromise => promised = {} /\ ~InChain(cmd.attempt)
    /\ cmd.pc \in Steps \ BeforePromise => promised = {cmd.attempt}
    /\ cmd.pc \in Published => /\ cmd.attempt \in reached
                               /\ moves = 0 => ref = cmd.attempt

Inv ==
    /\ TypeOK
    /\ OnePromise
    /\ CommandInPlace
    /\ ref \in reached
    /\ RecordedReachedRef
    /\ RefAtFrontier

-----------------------------------------------------------------------------
(* The chain and the state of the feature ref *)

\* Recording an attempt adds it, and nothing else, to the chain.
LEMMA ChainAppend ==
    ASSUME chain \in Seq(Attempts), NEW a \in Attempts, chain' = Append(chain, a)
    PROVE  /\ chain' \in Seq(Attempts)
           /\ \A b : InChain(b)' <=> InChain(b) \/ b = a
           /\ ExpectedRef' = a
           /\ \A k \in 1..Len(chain') :
                 chain'[k] = a \/ \E j \in 1..Len(chain) : chain'[k] = chain[j]
<1>1. /\ Len(chain) \in Nat /\ Len(chain') = Len(chain) + 1 /\ chain' # <<>>
      /\ chain' \in Seq(Attempts)
      /\ \A k \in 1..Len(chain) : chain'[k] = chain[k]
      /\ chain'[Len(chain) + 1] = a
    OBVIOUS
<1>2. ASSUME NEW b PROVE InChain(b)' <=> InChain(b) \/ b = a
    <2>1. 1..Len(chain') = 1..Len(chain) \cup {Len(chain) + 1}
        BY <1>1
    <2> QED
        BY <1>1, <2>1 DEF InChain
<1> QED
    BY <1>1, <1>2 DEF ExpectedRef

\* The expected head is no merge, or the merge of an integrated attempt.
LEMMA ExpectedHead ==
    ASSUME chain \in Seq(Attempts)
    PROVE  ExpectedRef = "absent" \/ (ExpectedRef \in Attempts /\ InChain(ExpectedRef))
<1>1. CASE chain = <<>>
    BY <1>1 DEF ExpectedRef
<1>2. CASE chain # <<>>
    <2>1. Len(chain) \in 1..Len(chain) /\ chain[Len(chain)] \in Attempts
        BY <1>2
    <2> QED
        BY <1>2, <2>1 DEF ExpectedRef, InChain
<1> QED
    BY <1>1, <1>2

\* For an attempt that is not integrated the three states of the ref exclude each
\* other: the ref is at its merge only where that is said.
LEMMA RefStates ==
    ASSUME chain \in Seq(Attempts), NEW a \in Attempts, ~InChain(a)
    PROVE  /\ ExpectedRef # a
           /\ RefState(a) = "expected" <=> ref = ExpectedRef
           /\ RefState(a) = "merge" <=> ref = a /\ a \in objects
<1>1. ExpectedRef # a
    BY ExpectedHead, NamesAssumption
<1> QED
    BY <1>1 DEF RefState

-----------------------------------------------------------------------------
(* The inductive invariant *)

\* Nothing is promised before the first command.
LEMMA InvInit == Init => Inv
<1> SUFFICES ASSUME Init PROVE Inv
    OBVIOUS
<1>1. TypeOK
    BY FS_EmptySet, BoundsAssumption DEF Init, TypeOK
<1>2. OnePromise /\ CommandInPlace
    BY DEF Init, OnePromise, CommandInPlace, Idle, Steps, BeforePromise, Published
<1>3. RecordedReachedRef /\ RefAtFrontier /\ ref \in reached
    BY DEF Init, RecordedReachedRef, RefAtFrontier, ExpectedRef
<1> QED
    BY <1>1, <1>2, <1>3 DEF Inv

\* A running command works on one of the attempts.
LEMMA CommandType ==
    ASSUME TypeOK
    PROVE  /\ ~At("idle") => cmd.pc \in Steps /\ cmd.attempt \in Attempts
           /\ At("idle") => cmd = Idle
BY DEF TypeOK, At, Idle, Steps

\* Moving on keeps the attempt; a refused requirement ends the command.
LEMMA Moving ==
    ASSUME TypeOK, NEW pc \in Steps, ~At("idle")
    PROVE  /\ Goto(pc) => /\ cmd' \in [pc : Steps, attempt : Attempts]
                          /\ cmd'.pc = pc /\ cmd'.attempt = cmd.attempt
           /\ \A cond \in BOOLEAN :
                  Require(cond, pc) => (Goto(pc) /\ cond) \/ cmd' = Idle
<1>1. cmd \in [pc : Steps, attempt : Attempts]
    BY DEF TypeOK, At, Idle
<1>2. ASSUME Goto(pc)
      PROVE  /\ cmd' \in [pc : Steps, attempt : Attempts]
             /\ cmd'.pc = pc /\ cmd'.attempt = cmd.attempt
    BY <1>1, <1>2 DEF Goto
<1> QED
    BY <1>2 DEF Require

\* Ending the command leaves the invariant as it was.
LEMMA Ending ==
    ASSUME Inv, cmd' = Idle, UNCHANGED <<promised, chain, git, exact, moves, prunes>>,
           crashes' \in 0..MaxCrashes
    PROVE  Inv'
<1>1. cmd'.pc = "idle" /\ UNCHANGED <<ref, objects, reached>>
    BY DEF Idle, git
<1> QED
    BY <1>1 DEF Inv, TypeOK, OnePromise, CommandInPlace, RecordedReachedRef, RefAtFrontier,
                ExpectedRef, InChain, Idle, Steps, BeforePromise, Published

\* A step that only moves the command on keeps the invariant if it stays on its
\* side of the promise and finds the ref at the merge before it relies on that.
LEMMA Advancing ==
    ASSUME Inv, ~At("idle"), NEW pc \in Steps, Goto(pc),
           UNCHANGED <<promised, chain, git, exact, bounds>>,
           pc \in BeforePromise <=> cmd.pc \in BeforePromise,
           pc \in Published => cmd.pc \in Published \/ ref = cmd.attempt
    PROVE  Inv'
<1>1. /\ cmd' \in [pc : Steps, attempt : Attempts]
      /\ cmd'.pc = pc /\ cmd'.attempt = cmd.attempt
    BY Moving DEF Inv
<1>2. cmd.pc \in Steps
    BY CommandType DEF Inv
<1>3. UNCHANGED <<ref, objects, reached, crashes, moves, prunes>>
    BY DEF git, bounds
<1>4. TypeOK'
    BY <1>1, <1>3 DEF Inv, TypeOK
<1>5. CommandInPlace'
    BY <1>1, <1>2, <1>3 DEF Inv, CommandInPlace, InChain
<1> QED
    BY <1>3, <1>4, <1>5 DEF Inv, OnePromise, InChain, RecordedReachedRef, RefAtFrontier,
                            ExpectedRef

\* Ending the command changes nothing else.
LEMMA Refusing ==
    ASSUME Inv, cmd' = Idle, UNCHANGED <<promised, chain, git, exact, bounds>>
    PROVE  Inv'
<1>1. UNCHANGED <<crashes, moves, prunes>>
    BY DEF bounds
<1> QED
    BY <1>1, Ending DEF Inv, TypeOK

\* A command is begun for a new attempt, or again for the promised one.
LEMMA BeginInv == ASSUME Inv, NEW a \in Attempts, Begin(a) PROVE Inv'
<1>1. UNCHANGED <<promised, chain, ref, objects, reached, exact, crashes, moves, prunes>>
    BY DEF Begin, git, bounds
<1>2. \/ promised = {} /\ ~InChain(a) /\ cmd' = [pc |-> "accept", attempt |-> a]
      \/ promised = {a} /\ cmd' = [pc |-> "reaccept", attempt |-> a]
    BY DEF Begin
<1>3. TypeOK'
    BY <1>1, <1>2 DEF Inv, TypeOK, Steps
<1>4. CommandInPlace'
    BY <1>1, <1>2 DEF CommandInPlace, InChain, Steps, BeforePromise, Published
<1> QED
    BY <1>1, <1>3, <1>4 DEF Inv, OnePromise, InChain, RecordedReachedRef, RefAtFrontier,
                            ExpectedRef

\* Checking the worktree moves the command on or ends it.
LEMMA ConfirmAcceptanceInv == ASSUME Inv, ConfirmAcceptance PROVE Inv'
<1> USE DEF ConfirmAcceptance, At, Steps, BeforePromise, Published
<1>1. CASE cmd' = Idle
    BY <1>1, Refusing
<1>2. CASE At("accept") /\ Goto("inspectFresh")
    BY <1>2, Advancing
<1>3. CASE At("reaccept") /\ Goto("inspect")
    BY <1>3, Advancing
<1>4. CASE At("reconfirm") /\ Goto("inspectPublish")
    BY <1>4, Advancing
<1>5. CASE At("reconfirmPublished") /\ Goto("inspectFinal")
    BY <1>5, Advancing
<1> QED
    BY <1>1, <1>2, <1>3, <1>4, <1>5 DEF Require

\* Inspecting the ref moves the command on or ends it; it goes on to verify, or
\* past it, only where the ref is at the merge.
LEMMA InspectInv == ASSUME Inv, Inspect PROVE Inv'
<1> DEFINE a == cmd.attempt
           state == IF a \in exact THEN RefState(a) ELSE "refused"
<1>1. ASSUME ~At("idle"), cmd.pc \in Steps \ BeforePromise, state = "merge"
      PROVE  ref = a
    <2>1. a \in Attempts /\ ~InChain(a) /\ chain \in Seq(Attempts)
        BY <1>1, CommandType DEF Inv, CommandInPlace, OnePromise, TypeOK
    <2> QED
        BY <1>1, <2>1, RefStates
<1>2. UNCHANGED <<promised, chain, git, exact, bounds>>
    BY DEF Inspect
<1>3. CASE cmd' = Idle
    BY <1>2, <1>3, Refusing
<1> USE DEF At, Steps, BeforePromise, Published
<1>4. CASE At("inspectFresh") /\ Goto("promise")
    BY <1>2, <1>4, Advancing
<1>5. CASE At("inspect") /\ (Goto("create") \/ Goto("reconfirm"))
    BY <1>2, <1>5, Advancing
<1>6. CASE At("inspectPublish") /\ Goto("swap")
    BY <1>2, <1>6, Advancing
<1>7. CASE (At("inspect") \/ At("inspectPublish")) /\ Goto("verify") /\ state = "merge"
    BY <1>1, <1>2, <1>7, Advancing
<1>8. CASE \/ At("inspectSwapped") /\ Goto("verify")
           \/ At("verify") /\ Goto("reconfirmPublished")
           \/ At("inspectFinal") /\ Goto("record")
    BY <1>2, <1>8, Advancing
<1> QED
    BY <1>3, <1>4, <1>5, <1>6, <1>7, <1>8 DEF Inspect, Require

\* A promise is made for an attempt that is not integrated, while none is pending.
LEMMA AppendIntentInv == ASSUME Inv, AppendIntent PROVE Inv'
<1>1. /\ UNCHANGED <<chain, ref, objects, reached, exact, crashes, moves, prunes>>
      /\ promised' = {cmd.attempt} /\ Goto("reaccept") /\ cmd.pc = "promise"
    BY DEF AppendIntent, git, bounds, At
<1>2. /\ cmd.attempt \in Attempts /\ ~InChain(cmd.attempt)
      /\ promised = {}
    BY <1>1, CommandType DEF Inv, CommandInPlace, BeforePromise, At
<1>3. /\ cmd' \in [pc : Steps, attempt : Attempts]
      /\ cmd'.pc = "reaccept" /\ cmd'.attempt = cmd.attempt
    BY <1>1, Moving DEF Inv, Steps, At
<1>4. TypeOK'
    <2>1. Cardinality({cmd.attempt}) = 1
        BY FS_Singleton
    <2> QED
        BY <1>1, <1>2, <1>3, <2>1 DEF Inv, TypeOK
<1>5. CommandInPlace' /\ OnePromise'
    BY <1>1, <1>2, <1>3 DEF CommandInPlace, OnePromise, InChain, BeforePromise, Published
<1> QED
    BY <1>1, <1>2, <1>4, <1>5 DEF Inv, RecordedReachedRef, RefAtFrontier, ExpectedRef

\* Creating the merge commit only adds an object.
LEMMA CreateCommitInv == ASSUME Inv, CreateCommit PROVE Inv'
<1>1. /\ UNCHANGED <<promised, chain, ref, reached, exact, crashes, moves, prunes>>
      /\ cmd.pc = "create"
    BY DEF CreateCommit, bounds, At
<1>2. CASE objects' = objects /\ cmd' = Idle
    BY <1>1, <1>2, Refusing DEF git, bounds
<1>3. CASE objects' = objects \cup {cmd.attempt} /\ Goto("reconfirm")
    <2>1. /\ cmd' \in [pc : Steps, attempt : Attempts] /\ cmd.attempt \in Attempts
          /\ cmd'.pc = "reconfirm" /\ cmd'.attempt = cmd.attempt
        BY <1>1, <1>3, CommandType, Moving DEF Inv, Steps, At
    <2>2. TypeOK'
        BY <1>1, <1>3, <2>1 DEF Inv, TypeOK
    <2>3. CommandInPlace' /\ OnePromise'
        BY <1>1, <2>1 DEF Inv, CommandInPlace, OnePromise, InChain, Steps, BeforePromise, Published
    <2> QED
        BY <1>1, <1>3, <2>2, <2>3 DEF Inv, RecordedReachedRef, RefAtFrontier, ExpectedRef
<1> QED
    BY <1>2, <1>3 DEF CreateCommit

\* The ref is moved from the expected head to the existing merge that was promised.
LEMMA SwapRefInv == ASSUME Inv, SwapRef PROVE Inv'
<1>1. /\ UNCHANGED <<promised, chain, objects, exact, crashes, moves, prunes>>
      /\ cmd.pc = "swap"
    BY DEF SwapRef, bounds, At
<1>2. CASE UNCHANGED <<ref, reached>> /\ cmd' = Idle
    BY <1>1, <1>2, Refusing DEF git, bounds
<1>3. CASE /\ ref' = cmd.attempt /\ cmd.attempt \in objects
           /\ reached' = reached \cup {cmd.attempt} /\ Goto("inspectSwapped")
    <2>1. /\ cmd' \in [pc : Steps, attempt : Attempts] /\ cmd.attempt \in Attempts
          /\ cmd'.pc = "inspectSwapped" /\ cmd'.attempt = cmd.attempt
        BY <1>1, <1>3, CommandType, Moving DEF Inv, Steps, At
    <2>2. TypeOK'
        BY <1>1, <1>3, <2>1 DEF Inv, TypeOK
    <2>3. promised = {cmd.attempt}
        BY <1>1 DEF Inv, CommandInPlace, Steps, BeforePromise
    <2>4. CommandInPlace' /\ OnePromise'
        BY <1>1, <1>3, <2>1, <2>3
        DEF Inv, CommandInPlace, OnePromise, InChain, Steps, BeforePromise, Published
    <2>5. RecordedReachedRef' /\ RefAtFrontier' /\ ref' \in reached'
        BY <1>1, <1>3, <2>3 DEF Inv, RecordedReachedRef, RefAtFrontier
    <2> QED
        BY <2>2, <2>4, <2>5 DEF Inv
<1> QED
    BY <1>2, <1>3 DEF SwapRef

\* The recorded merge has been in the ref, and is still there if nobody moved it.
LEMMA AppendIntegratedInv == ASSUME Inv, AppendIntegrated PROVE Inv'
<1> DEFINE a == cmd.attempt
<1>1. /\ UNCHANGED <<ref, objects, reached, exact, crashes, moves, prunes>>
      /\ cmd.pc = "record" /\ promised' = {} /\ chain' = Append(chain, a) /\ cmd' = Idle
    BY DEF AppendIntegrated, git, bounds, At
<1>2. a \in Attempts /\ a \in reached /\ (moves = 0 => ref = a)
    BY <1>1, CommandType DEF Inv, CommandInPlace, Published, At
<1>3. chain \in Seq(Attempts)
    BY DEF Inv, TypeOK
<1>4. /\ chain' \in Seq(Attempts) /\ ExpectedRef' = a
      /\ \A k \in 1..Len(chain') : chain'[k] = a \/ \E j \in 1..Len(chain) : chain'[k] = chain[j]
    BY <1>1, <1>2, <1>3, ChainAppend
<1>5. TypeOK'
    BY <1>1, <1>4, FS_EmptySet DEF Inv, TypeOK
<1>6. CommandInPlace' /\ OnePromise'
    BY <1>1 DEF CommandInPlace, OnePromise, Idle, Steps, BeforePromise, Published
<1>7. RecordedReachedRef' /\ RefAtFrontier'
    BY <1>1, <1>2, <1>4 DEF Inv, RecordedReachedRef, RefAtFrontier
<1> QED
    BY <1>1, <1>5, <1>6, <1>7 DEF Inv

\* A crash forgets the command's position.
LEMMA CrashInv == ASSUME Inv, Crash PROVE Inv'
BY Ending, BoundsAssumption DEF Inv, TypeOK, Crash, bounds

\* Whoever moves the ref gives up what was known of its place.
LEMMA OthersMoveRefInv == ASSUME Inv, OthersMoveRef PROVE Inv'
<1>1. /\ UNCHANGED <<promised, chain, objects, exact, cmd, crashes, prunes>>
      /\ moves < MaxRefMoves /\ moves' = moves + 1
    BY DEF OthersMoveRef
<1>2. PICK new \in {"absent", "foreign"} \cup objects :
            ref' = new /\ reached' = reached \cup {new}
    BY DEF OthersMoveRef
<1>3. TypeOK' /\ moves' # 0
    BY <1>1, <1>2, BoundsAssumption DEF Inv, TypeOK
<1>4. CommandInPlace' /\ OnePromise'
    BY <1>1, <1>2, <1>3 DEF Inv, CommandInPlace, OnePromise, InChain
<1> QED
    BY <1>1, <1>2, <1>3, <1>4 DEF Inv, RecordedReachedRef, RefAtFrontier

\* The agent's worktree carries nothing the invariant speaks of.
LEMMA AgentTouchesInv == ASSUME Inv, AgentTouches PROVE Inv'
<1>1. /\ UNCHANGED <<promised, chain, ref, objects, reached, cmd, crashes, moves, prunes>>
      /\ \E a \in Attempts : exact' = IF a \in exact THEN exact \ {a} ELSE exact \cup {a}
    BY DEF AgentTouches, git, bounds
<1>2. TypeOK'
    BY <1>1 DEF Inv, TypeOK
<1> QED
    BY <1>1, <1>2 DEF Inv, CommandInPlace, OnePromise, InChain, RecordedReachedRef,
                      RefAtFrontier, ExpectedRef

\* Git never prunes the merge the ref is at.
LEMMA GitPrunesInv == ASSUME Inv, GitPrunes PROVE Inv'
<1>1. /\ UNCHANGED <<promised, chain, ref, reached, exact, cmd, crashes, moves>>
      /\ prunes < MaxPrunes /\ prunes' = prunes + 1
    BY DEF GitPrunes
<1>2. PICK a \in objects : ref # a /\ objects' = objects \ {a}
    BY DEF GitPrunes, Reachable
<1>3. TypeOK'
    BY <1>1, <1>2, BoundsAssumption DEF Inv, TypeOK
<1>4. RefAtFrontier'
    BY <1>1, <1>2 DEF Inv, RefAtFrontier, ExpectedRef
<1> QED
    BY <1>1, <1>3, <1>4 DEF Inv, CommandInPlace, OnePromise, InChain, RecordedReachedRef

\* Every step keeps the invariant.
LEMMA InvNext == Inv /\ [Next]_vars => Inv'
<1> SUFFICES ASSUME Inv, [Next]_vars PROVE Inv'
    OBVIOUS
<1>1. CASE UNCHANGED vars
    BY <1>1 DEF vars, git, bounds, Inv, TypeOK, OnePromise, CommandInPlace, InChain,
                RecordedReachedRef, RefAtFrontier, ExpectedRef
<1>2. CASE \E a \in Attempts : Begin(a)
    BY <1>2, BeginInv
<1>3. CASE Step
    BY <1>3, ConfirmAcceptanceInv, InspectInv, AppendIntentInv, CreateCommitInv, SwapRefInv,
       AppendIntegratedInv DEF Step
<1>4. CASE Crash \/ OthersMoveRef \/ AgentTouches \/ GitPrunes
    BY <1>4, CrashInv, OthersMoveRefInv, AgentTouchesInv, GitPrunesInv
<1> QED
    BY <1>1, <1>2, <1>3, <1>4 DEF Next

\* However the command is interrupted, whoever moves the ref and whatever Git
\* prunes, the invariant holds.
THEOREM Invariance == Spec => []Inv
BY InvInit, InvNext, PTL DEF Spec

-----------------------------------------------------------------------------
(* What follows from it *)

\* The journal, the repository and the command are well formed.
THEOREM TypeCorrect == Spec => []TypeOK
<1>1. Inv => TypeOK
    BY DEF Inv
<1> QED
    BY <1>1, Invariance, PTL

\* Whatever is recorded as integrated has been in the feature ref.
THEOREM RecordedSafe == Spec => []RecordedReachedRef
<1>1. Inv => RecordedReachedRef
    BY DEF Inv
<1> QED
    BY <1>1, Invariance, PTL

\* Unless somebody else moves it, the ref is at the frontier or at the promise.
THEOREM FrontierSafe == Spec => []RefAtFrontier
<1>1. Inv => RefAtFrontier
    BY DEF Inv
<1> QED
    BY <1>1, Invariance, PTL

\* The command moves the ref only from the frontier to the promised merge: of its
\* steps the swap alone writes the ref.
THEOREM RefSafe == Spec => RefMovesByPromise
<1>1. ASSUME Inv, [Next]_vars
      PROVE  [cmd' # cmd /\ ref' # ref => /\ promised = {ref'}
                                          /\ ref = ExpectedRef
                                          /\ ref' \in objects]_vars
    <2> SUFFICES ASSUME cmd' # cmd, ref' # ref
                 PROVE  promised = {ref'} /\ ref = ExpectedRef /\ ref' \in objects
        OBVIOUS
    <2>1. SwapRef
        BY <1>1 DEF Next, Step, vars, git, Begin, ConfirmAcceptance, Inspect, AppendIntent,
                    CreateCommit, AppendIntegrated, Crash, OthersMoveRef, AgentTouches, GitPrunes
    <2>2. ref' = cmd.attempt /\ ref = ExpectedRef /\ cmd.attempt \in objects
        BY <2>1 DEF SwapRef
    <2>3. promised = {cmd.attempt}
        BY <1>1, <2>1 DEF SwapRef, At, Inv, CommandInPlace, Steps, BeforePromise
    <2> QED
        BY <2>2, <2>3
<1> QED
    BY <1>1, Invariance, PTL DEF Spec, RefMovesByPromise

\* With every Git step, crash and outsider in between, the journal still promises
\* one attempt at a time and records only the promised one.
THEOREM Implements == Spec => KeepsPromise
<1>1. Init => Abstract!Init
    BY DEF Init, Abstract!Init
<1>2. ASSUME Inv, [Next]_vars
      PROVE  [Abstract!Next]_(Abstract!vars)
    <2>1. CASE AppendIntent
        <3>1. cmd.attempt \in Attempts /\ promised = {} /\ ~InChain(cmd.attempt)
            BY <1>2, <2>1, CommandType DEF AppendIntent, At, Inv, CommandInPlace, BeforePromise
        <3>2. Abstract!Promise(cmd.attempt)
            BY <2>1, <3>1 DEF AppendIntent, Abstract!Promise, Abstract!InChain, InChain
        <3> QED
            BY <3>1, <3>2 DEF Abstract!Next
    <2>2. CASE AppendIntegrated
        <3>1. cmd.attempt \in Attempts /\ promised = {cmd.attempt}
            BY <1>2, <2>2, CommandType
            DEF AppendIntegrated, At, Inv, CommandInPlace, Steps, BeforePromise
        <3>2. Abstract!Record(cmd.attempt)
            BY <2>2, <3>1 DEF AppendIntegrated, Abstract!Record
        <3> QED
            BY <3>1, <3>2 DEF Abstract!Next
    <2>3. CASE ~AppendIntent /\ ~AppendIntegrated
        BY <1>2, <2>3 DEF Next, Step, vars, Begin, ConfirmAcceptance, Inspect, CreateCommit,
            SwapRef, Crash, OthersMoveRef, AgentTouches, GitPrunes, Abstract!vars
    <2> QED
        BY <2>1, <2>2, <2>3
<1> QED
    BY <1>1, <1>2, Invariance, PTL DEF Spec, KeepsPromise, Abstract!Spec
=============================================================================
