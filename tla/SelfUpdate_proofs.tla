-------------------------- MODULE SelfUpdate_proofs --------------------------
(***************************************************************************)
(* Proofs about SelfUpdate: type correctness for every number of requests  *)
(* and processes, and, for one prepare request at a time and one Aseprite  *)
(* process on the profile, the invariants that make the transaction safe   *)
(* and its implementation of ManagerTransaction.                           *)
(***************************************************************************)
EXTENDS SelfUpdate, TLAPS

\* The values the code moves around are well formed.
LEMMA ArtifactTypes ==
  ASSUME NEW v \in Version
  PROVE  /\ Release(v) \in Artifact /\ Release(v).version = v
         /\ Recovery(v) \in Artifact /\ Recovery(v).version = v
BY DEF Release, Recovery, Artifact

LEMMA NoneIsNothing ==
  /\ \A a \in Artifact : a # None
  /\ \A j \in Journal : j # None
  /\ \A r \in Receipt : r # None
  /\ \A t \in Task : t # None
BY NoneAssumption

LEMMA ReceiptOfType ==
  ASSUME NEW j \in Journal
  PROVE  ReceiptOf(j) \in Receipt
BY DEF ReceiptOf, Journal, Receipt

\* What is known of a request by the place it has reached.
LEMMA TaskStateCases ==
  ASSUME NEW s \in TaskState
  PROVE  /\ s.pc \in TaskPC
         /\ s.pc \in {"idle", "checked"} => s.artifact = None /\ s.recovery = None
         /\ s.pc \notin {"idle", "checked"} =>
              /\ s.artifact \in Artifact /\ s.recovery \in Artifact
              /\ \A pc \in TaskPC \ {"idle", "checked"} :
                   [s EXCEPT !.pc = pc] \in TaskState
BY DEF TaskState, TaskPC

LEMMA LuaStateCases ==
  ASSUME NEW s \in LuaState
  PROVE  /\ s.pc \in Waiting \cup {"preparing", "extracting"}
         /\ s.pc \in Waiting => s.task = None /\ s.reading = None
         /\ s.pc = "preparing" => s.task \in Task
         /\ s.pc = "extracting" => s.reading \in Artifact
         /\ s.pc \in Waiting => \A pc \in Waiting : [s EXCEPT !.pc = pc] \in LuaState
BY DEF LuaState, Waiting

LEMMA IdleTypes == IdleTask \in TaskState /\ IdleLua \in LuaState
                   /\ [IdleLua EXCEPT !.pc = "stopping"] \in LuaState
BY DEF IdleTask, IdleLua, TaskState, LuaState, Waiting

-----------------------------------------------------------------------------
(* Type correctness.                                                       *)

\* A request keeps its archives while it moves on from "built".
LEMMA TaskMoves ==
  ASSUME TypeOK, NEW t \in Task, task[t].pc \notin {"idle", "checked"},
         NEW pc \in TaskPC \ {"idle", "checked"}
  PROVE  [task EXCEPT ![t].pc = pc] \in [Task -> TaskState]
<1>1. task[t] \in TaskState
  BY DEF TypeOK
<1>2. [task[t] EXCEPT !.pc = pc] \in TaskState
  BY <1>1, TaskStateCases
<1>. QED
  BY <1>2 DEF TypeOK

LEMMA TypeInit == Init => TypeOK
BY VersionAssumption, IdleTypes DEF Init, TypeOK

LEMMA TypePrepare ==
  ASSUME TypeOK, NEW t \in Task, PrepareStep(t)
  PROVE  TypeOK'
<1>t. task[t] \in TaskState
  BY DEF TypeOK
<1>h. helper.version \in Version
  BY DEF TypeOK
<1>j. task[t].pc \notin {"idle", "checked"} => JournalOf(t) \in Journal
  BY <1>t, TaskStateCases DEF JournalOf, Journal, Artifact
<1>b. ASSUME NEW a \in Artifact, Build(t, a)
      PROVE  TypeOK'
  <2>1. [pc |-> "built", artifact |-> a, recovery |-> Recovery(helper.version)]
          \in TaskState
    BY <1>h, ArtifactTypes DEF TaskState, TaskPC
  <2>. QED
    BY <1>b, <2>1 DEF Build, TypeOK, disk
<1>1. CASE BuildUpdate(t)
  BY <1>1, <1>b, ArtifactTypes DEF BuildUpdate
<1>2. CASE BuildRollback(t)
  <2>1. cache.previous \in Artifact
    BY <1>2 DEF BuildRollback, TypeOK
  <2>. QED
    BY <1>2, <1>b, <2>1 DEF BuildRollback
<1>3. CASE Admit(t)
  BY <1>3, TaskMoves DEF Admit, TypeOK, TaskPC, disk
<1>4. CASE CopyCandidate(t)
  BY <1>4, <1>t, TaskMoves, TaskStateCases DEF CopyCandidate, TypeOK, TaskPC
<1>5. CASE CopyRecovery(t)
  BY <1>5, <1>t, TaskMoves, TaskStateCases DEF CopyRecovery, TypeOK, TaskPC
<1>6. CASE Rehash(t)
  BY <1>6, TaskMoves DEF Rehash, TypeOK, TaskPC, disk
<1>7. CASE Publish(t)
  BY <1>7, <1>j, TaskMoves DEF Publish, TypeOK, TaskPC
<1>a. task[t].pc \notin {"idle", "checked"} =>
        task[t].artifact \in Artifact /\ task[t].recovery \in Artifact
  BY <1>t, TaskStateCases
<1>e. EndsInError(t) => /\ task' \in [Task -> TaskState]
                        /\ lua' \in [Instance -> LuaState]
  BY IdleTypes DEF EndsInError, LuaAfter, TypeOK
<1>8. CASE PrepareFails(t)
  BY <1>8, <1>a, <1>e DEF PrepareFails, TypeOK
<1>10. CASE CopyRecoveryFails(t) \/ RehashFails(t) \/ PublishFails(t)
  BY <1>10, <1>a, <1>j, TaskMoves
  DEF CopyRecoveryFails, RehashFails, PublishFails, TypeOK, TaskPC, Undoing, disk
<1>11. CASE UndoCandidate(t) \/ UndoRecovery(t)
  BY <1>11, <1>e, TaskMoves DEF UndoCandidate, UndoRecovery, TypeOK, TaskPC, Undoing
<1>9. CASE AnswerUnheard(t)
  BY <1>9, IdleTypes DEF AnswerUnheard, TypeOK, disk
<1>. QED
  BY <1>1, <1>2, <1>3, <1>4, <1>5, <1>6, <1>7, <1>8, <1>9, <1>10, <1>11
  DEF PrepareStep

LEMMA TypeHelperDrains ==
  ASSUME TypeOK, NEW i \in Instance, OwnHelperDrains(i)
  PROVE  helper' \in [pc : Reconciling \cup Working \cup {"down"},
                      version : Version, owner : Instance \cup {None}]
BY DEF OwnHelperDrains, TypeOK, Working

LEMMA TypeLua ==
  ASSUME TypeOK, NEW i \in Instance, LuaStep(i)
  PROVE  TypeOK'
<1>l. lua[i] \in LuaState
  BY DEF TypeOK
<1>w. ASSUME NEW pc \in Waiting, lua[i].pc \in Waiting
      PROVE  [lua EXCEPT ![i].pc = pc] \in [Instance -> LuaState]
  BY <1>l, <1>w, LuaStateCases DEF TypeOK
<1>1. ASSUME NEW t \in Task, RequestPrepare(i, t)
      PROVE  TypeOK'
  <2>1. task[t] \in TaskState
    BY DEF TypeOK
  <2>2. [task[t] EXCEPT !.pc = "checked"] \in TaskState
    BY <1>1, <2>1 DEF RequestPrepare, TaskState, TaskPC
  <2>3. [pc |-> "preparing", task |-> t, reading |-> None] \in LuaState
    BY DEF LuaState
  <2>. QED
    BY <1>1, <2>2, <2>3 DEF RequestPrepare, TypeOK, disk
<1>2. ASSUME NEW t \in Task, ReceiveReady(i, t)
      PROVE  TypeOK'
  BY <1>2, IdleTypes DEF ReceiveReady, TypeOK, disk
<1>3. CASE ShutdownDone(i)
  BY <1>3, <1>w, TypeHelperDrains DEF ShutdownDone, TypeOK, disk, Waiting
<1>4. CASE Cancel(i) \/ DialogClosed(i)
  BY <1>4, IdleTypes, TypeHelperDrains DEF Cancel, DialogClosed, TypeOK, disk
<1>5. CASE DelayElapsed(i)
  BY <1>5, <1>w DEF DelayElapsed, TypeOK, disk, Waiting
<1>6. CASE PromptEnds(i)
  BY <1>6, IdleTypes DEF PromptEnds, TypeOK, disk
<1>7. CASE PromptAccepted(i)
  <2>1. [pc |-> "extracting", task |-> None, reading |-> candidate] \in LuaState
    BY <1>7 DEF PromptAccepted, TypeOK, LuaState
  <2>. QED
    BY <1>7, <2>1 DEF PromptAccepted, TypeOK, disk
<1>8. CASE Extracted(i)
  <2>1. lua[i].reading.version \in Version /\ tree.version \in Version
    BY <1>8, <1>l, LuaStateCases DEF Extracted, TypeOK, Artifact
  <2>2. tree' \in [version : Version, intact : BOOLEAN]
    <3>1. CASE tree' = [version |-> lua[i].reading.version, intact |-> TRUE]
      BY <2>1, <3>1
    <3>2. ASSUME NEW v \in {tree.version, lua[i].reading.version},
                 tree' = [version |-> v, intact |-> FALSE]
          PROVE  tree' \in [version : Version, intact : BOOLEAN]
      BY <2>1, <3>2
    <3>. QED
      BY <1>8, <3>1, <3>2 DEF Extracted
  <2>3. lua' \in [Instance -> LuaState]
    BY <1>8, IdleTypes DEF Extracted, TypeOK
  <2>. QED
    BY <1>8, <2>2, <2>3 DEF Extracted, TypeOK, disk
<1>9. CASE StartHelper(i)
  BY <1>9 DEF StartHelper, Launch, TypeOK, disk, Reconciling
<1>. QED
  BY <1>1, <1>2, <1>3, <1>4, <1>5, <1>6, <1>7, <1>8, <1>9 DEF LuaStep

\* TypeOK is not inductive alone: the commit reads the journal, so that it
\* must be there from the moment it was verified until it is cleared.
Committing == {"verified", "recoveryRotated", "recoveryCached", "candidateRotated",
               "candidateCached", "recorded"}
JournalHeld == helper.pc \in Committing => journal # None
TypeInv == TypeOK /\ JournalHeld

LEMMA TypeReconcile ==
  ASSUME TypeInv, Reconcile
  PROVE  TypeOK'
<1>. USE DEF TypeInv
<1>1. ASSUME NEW pc \in Reconciling \cup {"serving"}, GoTo(pc)
      PROVE  helper' \in [pc : Reconciling \cup Working \cup {"down"},
                          version : Version, owner : Instance \cup {None}]
  BY <1>1 DEF GoTo, TypeOK, Working
<1>j. helper.pc \in Committing =>
        /\ journal \in Journal
        /\ journal.artifact \in Artifact /\ journal.recovery \in Artifact
  BY DEF TypeOK, JournalHeld, Journal
<1>2. CASE NothingPending \/ Discard \/ Verify \/ RecoveryRequired
  BY <1>2, <1>1 DEF NothingPending, Discard, Verify, RecoveryRequired, Unresolved,
     Serve, TypeOK, disk, Reconciling
<1>3. CASE RotateForRecovery \/ RotateForCandidate
  BY <1>3, <1>1, <1>j
  DEF RotateForRecovery, RotateForCandidate, Rotate, TypeOK, disk, Reconciling
<1>4. CASE StoreRecovery \/ StoreCandidate
  BY <1>4, <1>1, <1>j
  DEF StoreRecovery, StoreCandidate, Store, At, TypeOK, disk, Reconciling, Committing
<1>5. CASE WriteReceipt
  BY <1>5, <1>1, <1>j, ReceiptOfType
  DEF WriteReceipt, At, TypeOK, disk, Reconciling, Committing
<1>6. CASE ClearJournal \/ ClearCandidate \/ ClearRecovery
  BY <1>6, <1>1
  DEF ClearJournal, ClearCandidate, ClearRecovery, Serve, TypeOK, disk, Reconciling
<1>. QED
  BY <1>2, <1>3, <1>4, <1>5, <1>6 DEF Reconcile

LEMMA TypeRest ==
  ASSUME TypeOK, ReconcileFails \/ HelperDies \/ ReinstallByHand \/ UNCHANGED vars
  PROVE  TypeOK'
<1>1. CASE ReconcileFails
  BY <1>1 DEF ReconcileFails, Serve, GoTo, TypeOK, disk, Working
<1>2. CASE HelperDies
  BY <1>2, IdleTypes DEF HelperDies, HelperGone, TypeOK, disk
<1>3. CASE ReinstallByHand
  BY <1>3 DEF ReinstallByHand, TypeOK, disk
<1>4. CASE UNCHANGED vars
  BY <1>4 DEF vars, TypeOK
<1>. QED
  BY <1>1, <1>2, <1>3, <1>4

\* The journal leaves the disk only as a reconciliation ends with it.
LEMMA HeldNext ==
  ASSUME TypeInv, [Next]_vars
  PROVE  JournalHeld'
<1>. USE DEF TypeInv
<1>1. ASSUME NEW t \in Task, PrepareStep(t)
      PROVE  JournalHeld'
  <2>1. helper' = helper
    BY <1>1 DEF PrepareStep, BuildUpdate, BuildRollback, Build, Admit, CopyCandidate,
       CopyRecovery, Rehash, Publish, AnswerUnheard, PrepareFails, CopyRecoveryFails,
       RehashFails, PublishFails, UndoCandidate, UndoRecovery
  <2>2. CASE journal' = journal
    BY <2>1, <2>2 DEF JournalHeld
  <2>3. CASE journal' = JournalOf(t) /\ task[t].pc = "rehashed"
    <3>1. JournalOf(t) \in Journal
      BY <2>3, TaskStateCases DEF TypeOK, JournalOf, Journal, Artifact
    <3>. QED
      BY <2>3, <3>1, NoneIsNothing DEF JournalHeld
  <2>. QED
    BY <1>1, <2>2, <2>3 DEF PrepareStep, BuildUpdate, BuildRollback, Build, Admit,
       CopyCandidate, CopyRecovery, Rehash, Publish, AnswerUnheard, PrepareFails,
       CopyRecoveryFails, RehashFails, PublishFails, UndoCandidate, UndoRecovery, disk
<1>2. ASSUME NEW i \in Instance, LuaStep(i)
      PROVE  JournalHeld'
  <2>1. journal' = journal
    BY <1>2 DEF LuaStep, RequestPrepare, ReceiveReady, ShutdownDone, Cancel,
       DialogClosed, DelayElapsed, PromptEnds, PromptAccepted, Extracted, StartHelper, Launch, disk
  <2>2. helper'.pc \in {helper.pc, "draining", "starting"}
    BY <1>2 DEF LuaStep, RequestPrepare, ReceiveReady, ShutdownDone, Cancel,
       DialogClosed, DelayElapsed, PromptEnds, PromptAccepted, Extracted, StartHelper, Launch,
       OwnHelperDrains, TypeOK
  <2>. QED
    BY <2>1, <2>2 DEF JournalHeld, Committing
<1>3. CASE Reconcile
  BY <1>3 DEF Reconcile, NothingPending, Discard, Verify, RecoveryRequired, Unresolved,
     RotateForRecovery, RotateForCandidate, Rotate, StoreRecovery, StoreCandidate, Store,
     WriteReceipt, ClearJournal, ClearCandidate, ClearRecovery, Serve, GoTo, At, disk,
     JournalHeld, Committing, TypeOK
<1>4. CASE ReconcileFails \/ HelperDies \/ ReinstallByHand \/ UNCHANGED vars
  BY <1>4 DEF ReconcileFails, HelperDies, HelperGone, ReinstallByHand, Serve, GoTo, disk,
     vars, JournalHeld, Committing, TypeOK
<1>. QED
  BY <1>1, <1>2, <1>3, <1>4 DEF Next

\* TypeOK holds in every reachable state, for any number of requests worked
\* on at once and of Aseprite processes on the profile.
THEOREM TypeCorrect == Spec => []TypeOK
<1>1. Init => TypeInv
  BY TypeInit DEF Init, TypeInv, JournalHeld, Committing
<1>2. TypeInv /\ [Next]_vars => TypeInv'
  <2>. SUFFICES ASSUME TypeInv, [Next]_vars PROVE TypeInv'
    OBVIOUS
  <2>1. TypeOK'
    BY TypePrepare, TypeLua, TypeReconcile, TypeRest DEF Next, TypeInv
  <2>. QED
    BY <2>1, HeldNext DEF TypeInv
<1>3. TypeInv => TypeOK
  BY DEF TypeInv
<1>. QED
  BY <1>1, <1>2, <1>3, PTL DEF Spec

-----------------------------------------------------------------------------
(* Safety for one prepare request at a time and one Aseprite process on    *)
(* the profile, which sends its helper nothing while an installation is    *)
(* due.  SelfUpdateOverlap, SelfUpdateShared and SelfUpdateBrowsing show   *)
(* what happens without each of these assumptions.                         *)

OneRequest  == \A s, t \in Task : s = t
OneProcess  == \A i, j \in Instance : i = j
NoBrowsing  == ~Browsing

\* Requests live only while the helper serves or drains, and are awaited only
\* while it serves.
Served ==
  /\ helper.pc \notin Working => \A t \in Task : task[t] = IdleTask
  /\ \A i \in Instance : lua[i].pc = "preparing" =>
       helper.pc = "serving" /\ task[lua[i].task].pc # "idle"

\* A request that has not published works in the absence of a journal, and
\* what it has copied is what it has built; a published journal is backed up.
\* While a request takes back what it has copied, a journal is its own.
Prepared ==
  \A t \in Task :
    /\ task[t].pc \notin {"idle", "published", "undoCandidate", "undoRecovery"} =>
         journal = None
    /\ task[t].pc \in {"undoCandidate", "undoRecovery"} /\ journal # None =>
         journal = JournalOf(t)
    /\ task[t].pc \in {"candidateCopied", "bothCopied", "rehashed"} =>
         candidate = task[t].artifact
    /\ task[t].pc \in {"bothCopied", "rehashed"} => recovery = task[t].recovery
    /\ task[t].pc = "published" => journal # None /\ BackedUp

\* While an operation is past "ready", nothing else is under way.
Alone ==
  \A i \in Instance : lua[i].pc \in {"stopping", "delay", "prompt", "extracting"} =>
    helper.pc \in Working \cup {"down"} /\ \A t \in Task : task[t] = IdleTask

\* The journal names its archives by their versions.
Named ==
  journal # None => journal.artifact.version = journal.target
                    /\ journal.recovery.version = journal.previous

\* A journal never lies over archives of another transaction: where one of
\* its two is not there, none is.
OwnArchives ==
  journal # None => /\ candidate \in {journal.artifact, None}
                    /\ recovery \in {journal.recovery, None}

\* What Verify has established stays so until the journal is cleared.
Verified ==
  helper.pc \in Committing =>
    journal # None /\ NewIntact /\ BackedUp /\ journal.target # journal.previous

\* How far the two rotations of the cache have come, and the receipt.
Rotated ==
  /\ helper.pc = "recoveryCached" => cache.current = journal.recovery
  /\ helper.pc = "candidateRotated" => cache.previous = journal.recovery
  /\ helper.pc \in {"candidateCached", "recorded"} =>
       cache = [current |-> journal.artifact, previous |-> journal.recovery]
  /\ helper.pc = "recorded" => receipt = ReceiptOf(journal)

Cleared == helper.pc \in {"journalGone", "candidateGone"} => journal = None

IInv == /\ TypeOK /\ Served /\ Prepared /\ Alone /\ Named /\ Verified /\ Rotated
        /\ Cleared /\ InstallerGuarded /\ OwnArchives

LEMMA InvInit == Init => IInv
<1>. SUFFICES ASSUME Init PROVE IInv
  OBVIOUS
<1>1. TypeOK
  BY TypeInit
<1>2. Served /\ Prepared /\ Alone /\ InstallerGuarded
  BY DEF Init, Served, Prepared, Alone, InstallerGuarded, IdleTask, IdleLua
<1>3. Named /\ Verified /\ Rotated /\ Cleared /\ OwnArchives
  BY DEF Init, Named, Verified, Rotated, Cleared, OwnArchives, Committing
<1>. QED
  BY <1>1, <1>2, <1>3 DEF IInv

\* A step of the only request is a step of the serving helper while Lua waits
\* for it or has given up.
LEMMA RequestAlone ==
  ASSUME IInv, OneRequest, NEW t \in Task, task[t].pc # "idle"
  PROVE  /\ helper.pc \in Working
         /\ \A s \in Task : s = t
         /\ \A i \in Instance : lua[i].pc \in {"idle", "preparing"}
         /\ \A i \in Instance : lua[i].pc = "preparing" => lua[i].task = t
         /\ task[t].pc \notin {"idle", "published", "undoCandidate", "undoRecovery"} =>
              journal = None
<1>1. helper.pc \in Working
  BY DEF IInv, Served, IdleTask
<1>2. ASSUME NEW i \in Instance
      PROVE  lua[i].pc \in {"idle", "preparing"}
  <2>1. lua[i].pc \in Waiting \cup {"preparing", "extracting"}
    BY LuaStateCases DEF IInv, TypeOK
  <2>. QED
    BY <2>1 DEF IInv, Alone, IdleTask, Waiting
<1>3. ASSUME NEW i \in Instance, lua[i].pc = "preparing"
      PROVE  lua[i].task = t
  BY <1>3, LuaStateCases DEF IInv, TypeOK, OneRequest
<1>. QED
  BY <1>1, <1>2, <1>3 DEF IInv, Prepared, OneRequest

\* What a request's steps leave alone, whoever waits for it.
LEMMA PrepareFrame ==
  ASSUME IInv, OneRequest, NEW t \in Task, task[t].pc # "idle",
         UNCHANGED <<tree, cache, receipt, helper, status>>,
         \A i \in Instance : lua'[i].pc \in {"idle", "preparing"}
  PROVE  (Verified /\ Rotated /\ Cleared /\ Alone /\ InstallerGuarded)'
BY RequestAlone
DEF Verified, Rotated, Cleared, Alone, InstallerGuarded, Committing, Working

\* Until it is published or fails, a request changes no journal.
LEMMA InvPrepareQuiet ==
  ASSUME IInv, OneRequest, NEW t \in Task,
         \/ BuildUpdate(t) \/ BuildRollback(t) \/ Admit(t)
         \/ CopyCandidate(t) \/ CopyRecovery(t) \/ Rehash(t)
  PROVE  IInv'
<1>. DEFINE next == task'[t]
<1>1. TypeOK'
  BY TypePrepare DEF IInv, PrepareStep
<1>2. /\ task[t].pc \notin Undoing \cup {"idle", "published"}
      /\ UNCHANGED <<tree, journal, cache, receipt, helper, status, lua>>
      /\ task' \in [Task -> TaskState]
  BY <1>1 DEF TypeOK, BuildUpdate, BuildRollback, Build, Admit, CopyCandidate,
     CopyRecovery, Rehash, disk, Undoing
<1>3. /\ helper.pc \in Working /\ journal = None
      /\ \A s \in Task : s = t
      /\ \A i \in Instance : lua[i].pc \in {"idle", "preparing"}
      /\ \A i \in Instance : lua[i].pc = "preparing" => lua[i].task = t
  BY <1>2, RequestAlone DEF Undoing
<1>r. \A pc \in TaskPC : /\ [task[t] EXCEPT !.pc = pc].pc = pc
                         /\ [task[t] EXCEPT !.pc = pc].artifact = task[t].artifact
                         /\ [task[t] EXCEPT !.pc = pc].recovery = task[t].recovery
  BY DEF IInv, TypeOK, TaskState
<1>4. /\ next.pc \notin Undoing \cup {"idle", "checked", "published"}
      /\ next.pc \in {"candidateCopied", "bothCopied", "rehashed"} =>
           candidate' = next.artifact
      /\ next.pc \in {"bothCopied", "rehashed"} => recovery' = next.recovery
  <2>1. ASSUME NEW a, Build(t, a) PROVE next.pc = "built"
    BY <2>1 DEF IInv, TypeOK, Build
  <2>2. CASE Admit(t)
    BY <2>2, <1>r DEF IInv, TypeOK, Admit, TaskPC, Undoing
  <2>3. CASE CopyCandidate(t)
    BY <2>3, <1>r DEF IInv, TypeOK, CopyCandidate, TaskPC, Undoing
  <2>4. CASE CopyRecovery(t)
    BY <2>4, <1>r DEF IInv, TypeOK, Prepared, CopyRecovery, TaskPC, Undoing
  <2>5. CASE Rehash(t)
    BY <2>5, <1>r DEF IInv, TypeOK, Rehash, disk, TaskPC, Undoing
  <2>. QED
    BY <2>1, <2>2, <2>3, <2>4, <2>5 DEF BuildUpdate, BuildRollback, Undoing
<1>5. Served'
  BY <1>2, <1>3, <1>4 DEF IInv, Served
<1>6. Prepared'
  BY <1>2, <1>3, <1>4 DEF Prepared, Undoing
<1>7. (Verified /\ Rotated /\ Cleared /\ Alone /\ InstallerGuarded)'
  BY <1>2, <1>3, PrepareFrame
<1>8. Named' /\ OwnArchives'
  BY <1>2, <1>3 DEF Named, OwnArchives
<1>. QED
  BY <1>1, <1>5, <1>6, <1>7, <1>8 DEF IInv

\* The journal a request publishes is well formed and names its archives.
LEMMA JournalOfType ==
  ASSUME TypeOK, NEW t \in Task, task[t].pc \notin {"idle", "checked"}
  PROVE  /\ JournalOf(t) \in Journal
         /\ JournalOf(t) # None
         /\ JournalOf(t).artifact = task[t].artifact
         /\ JournalOf(t).recovery = task[t].recovery
         /\ JournalOf(t).artifact.version = JournalOf(t).target
         /\ JournalOf(t).recovery.version = JournalOf(t).previous
<1>1. task[t].artifact \in Artifact /\ task[t].recovery \in Artifact
  BY TaskStateCases DEF TypeOK
<1>2. JournalOf(t) \in Journal
  BY <1>1 DEF JournalOf, Journal, Artifact
<1>. QED
  BY <1>2, NoneIsNothing DEF JournalOf

LEMMA InvPublish ==
  ASSUME IInv, OneRequest, NEW t \in Task, Publish(t)
  PROVE  IInv'
<1>1. TypeOK'
  BY TypePrepare DEF IInv, PrepareStep
<1>2. /\ task[t].pc = "rehashed" /\ journal' = JournalOf(t)
      /\ UNCHANGED <<tree, candidate, recovery, cache, receipt, helper, status, lua>>
      /\ task'[t].pc = "published"
  BY DEF Publish, IInv, TypeOK
<1>3. /\ helper.pc \in Working /\ \A s \in Task : s = t
      /\ \A i \in Instance : lua[i].pc \in {"idle", "preparing"}
      /\ \A i \in Instance : lua[i].pc = "preparing" => lua[i].task = t
  BY <1>2, RequestAlone
<1>4. /\ journal' # None
      /\ journal'.artifact = candidate' /\ journal'.recovery = recovery'
      /\ journal'.artifact.version = journal'.target
      /\ journal'.recovery.version = journal'.previous
  BY <1>2, JournalOfType DEF IInv, Prepared
<1>5. Served'
  BY <1>2, <1>3 DEF IInv, Served
<1>6. Prepared' /\ Named' /\ OwnArchives'
  BY <1>2, <1>3, <1>4 DEF Prepared, Named, OwnArchives, BackedUp
<1>7. (Verified /\ Rotated /\ Cleared /\ Alone /\ InstallerGuarded)'
  BY <1>2, <1>3, PrepareFrame
<1>. QED
  BY <1>1, <1>5, <1>6, <1>7 DEF IInv

\* Whatever way a request ends in an error, it is gone and nobody waits.
LEMMA ErrorEnds ==
  ASSUME IInv, OneRequest, NEW t \in Task, task[t].pc # "idle", EndsInError(t)
  PROVE  /\ task'[t] = IdleTask
         /\ \A i \in Instance : lua'[i].pc = "idle"
         /\ UNCHANGED helper => Served' /\ Prepared'
<1>1. task'[t] = IdleTask /\ \A s \in Task : s = t
  BY RequestAlone DEF EndsInError, IInv, TypeOK
<1>2. ASSUME NEW i \in Instance PROVE lua'[i].pc = "idle"
  BY RequestAlone DEF EndsInError, LuaAfter, IdleLua
<1>3. ASSUME UNCHANGED helper PROVE Served' /\ Prepared'
  BY <1>1, <1>2, <1>3 DEF Served, Prepared, IdleTask
<1>. QED
  BY <1>1, <1>2, <1>3

\* Before there is anything to undo.
LEMMA InvPrepareFails ==
  ASSUME IInv, OneRequest, NEW t \in Task, PrepareFails(t)
  PROVE  IInv'
<1>1. TypeOK'
  BY TypePrepare DEF IInv, PrepareStep
<1>2. /\ task[t].pc \in {"checked", "built", "admitted"} /\ EndsInError(t)
      /\ UNCHANGED <<tree, journal, cache, receipt, helper, status>>
  BY DEF PrepareFails
<1>3. journal = None /\ journal' = None
  BY <1>2, RequestAlone
<1>4. /\ \A i \in Instance : lua'[i].pc = "idle"
      /\ Served' /\ Prepared'
  BY <1>2, ErrorEnds
<1>5. Named' /\ OwnArchives'
  BY <1>3 DEF Named, OwnArchives
<1>6. (Verified /\ Rotated /\ Cleared /\ Alone /\ InstallerGuarded)'
  BY <1>2, <1>4, PrepareFrame
<1>. QED
  BY <1>1, <1>4, <1>5, <1>6 DEF IInv

\* The three failures that have something to undo.
LEMMA InvBeginUndo ==
  ASSUME IInv, OneRequest, NEW t \in Task,
         CopyRecoveryFails(t) \/ RehashFails(t) \/ PublishFails(t)
  PROVE  IInv'
<1>t. TypeOK /\ TypeOK'
  BY TypePrepare DEF IInv, PrepareStep
<1>1. /\ task[t].pc \in {"candidateCopied", "bothCopied", "rehashed"}
      /\ task' = [task EXCEPT ![t].pc = task'[t].pc]
      /\ task'[t].pc \in {"undoCopy", "undoCandidate"}
      /\ UNCHANGED <<tree, candidate, cache, receipt, helper, status, lua>>
  BY <1>t DEF CopyRecoveryFails, RehashFails, PublishFails, disk, TypeOK, TaskState
<1>2. /\ helper.pc \in Working /\ journal = None /\ \A s \in Task : s = t
      /\ \A i \in Instance : lua[i].pc \in {"idle", "preparing"}
      /\ \A i \in Instance : lua[i].pc = "preparing" => lua[i].task = t
  BY <1>1, RequestAlone
<1>3. task'[t].artifact = task[t].artifact /\ task'[t].recovery = task[t].recovery
  BY <1>t, <1>1 DEF TypeOK, TaskState
<1>4. \/ journal' = None
      \/ /\ journal' = JournalOf(t) /\ task'[t].pc = "undoCandidate"
         /\ candidate' = journal'.artifact /\ recovery' = journal'.recovery
         /\ journal'.artifact.version = journal'.target
         /\ journal'.recovery.version = journal'.previous
  <2>1. CASE journal' = None
    BY <2>1
  <2>2. CASE PublishFails(t) /\ journal' # None
    <3>1. /\ task[t].pc = "rehashed" /\ journal' = JournalOf(t)
          /\ UNCHANGED <<candidate, recovery>>
      BY <1>2, <2>2 DEF PublishFails
    <3>2. task'[t].pc = "undoCandidate"
      BY <1>t, <2>2 DEF PublishFails, TypeOK, TaskState
    <3>. QED
      BY <1>t, <3>1, <3>2, JournalOfType DEF IInv, Prepared
  <2>. QED
    BY <1>2, <2>1, <2>2 DEF CopyRecoveryFails, RehashFails, disk
<1>5. JournalOf(t)' = JournalOf(t)
  BY <1>3 DEF JournalOf
<1>6. Served'
  BY <1>1, <1>2 DEF IInv, Served
<1>7. Prepared'
  BY <1>1, <1>2, <1>4, <1>5 DEF Prepared
<1>8. Named' /\ OwnArchives'
  BY <1>4 DEF Named, OwnArchives
<1>9. (Verified /\ Rotated /\ Cleared /\ Alone /\ InstallerGuarded)'
  BY <1>1, <1>2, PrepareFrame
<1>. QED
  BY <1>t, <1>6, <1>7, <1>8, <1>9 DEF IInv

\* Undoing takes nothing away but the request's own copies.
LEMMA InvUndo ==
  ASSUME IInv, OneRequest, NEW t \in Task, UndoCandidate(t) \/ UndoRecovery(t)
  PROVE  IInv'
<1>t. TypeOK /\ TypeOK'
  BY TypePrepare DEF IInv, PrepareStep
<1>1. /\ task[t].pc \in Undoing
      /\ candidate' \in {candidate, None} /\ recovery' \in {recovery, None}
      /\ UNCHANGED <<tree, journal, cache, receipt, helper, status>>
  BY DEF UndoCandidate, UndoRecovery, Undoing
<1>2. /\ helper.pc \in Working /\ \A s \in Task : s = t
      /\ \A i \in Instance : lua[i].pc \in {"idle", "preparing"}
      /\ \A i \in Instance : lua[i].pc = "preparing" => lua[i].task = t
  BY <1>1, RequestAlone DEF Undoing
<1>3. Named' /\ OwnArchives'
  BY <1>1 DEF IInv, Named, OwnArchives
<1>4. CASE EndsInError(t)
  <2>1. /\ \A i \in Instance : lua'[i].pc = "idle"
        /\ Served' /\ Prepared'
    BY <1>1, <1>4, ErrorEnds DEF Undoing
  <2>2. (Verified /\ Rotated /\ Cleared /\ Alone /\ InstallerGuarded)'
    BY <1>1, <2>1, PrepareFrame DEF Undoing
  <2>. QED
    BY <1>t, <1>3, <2>1, <2>2 DEF IInv
<1>5. CASE /\ task[t].pc = "undoCandidate" /\ UNCHANGED lua
           /\ task' = [task EXCEPT ![t].pc = "undoRecovery"]
  <2>1. /\ task'[t].pc = "undoRecovery"
        /\ task'[t].artifact = task[t].artifact /\ task'[t].recovery = task[t].recovery
    BY <1>t, <1>5 DEF TypeOK, TaskState
  <2>2. JournalOf(t)' = JournalOf(t)
    BY <2>1 DEF JournalOf
  <2>3. Served'
    BY <1>1, <1>2, <1>5, <2>1 DEF IInv, Served
  <2>4. Prepared'
    BY <1>1, <1>2, <1>5, <2>1, <2>2 DEF IInv, Prepared
  <2>5. (Verified /\ Rotated /\ Cleared /\ Alone /\ InstallerGuarded)'
    BY <1>1, <1>2, <1>5, PrepareFrame
  <2>. QED
    BY <1>t, <1>3, <2>3, <2>4, <2>5 DEF IInv
<1>. QED
  BY <1>4, <1>5 DEF UndoCandidate, UndoRecovery

LEMMA InvAnswerUnheard ==
  ASSUME IInv, OneRequest, NEW t \in Task, AnswerUnheard(t)
  PROVE  IInv'
<1>1. TypeOK'
  BY TypePrepare DEF IInv, PrepareStep
<1>2. /\ task[t].pc = "published" /\ task'[t] = IdleTask
      /\ UNCHANGED <<tree, journal, candidate, recovery, cache, receipt, helper,
                     status, lua>>
      /\ \A i \in Instance : ~(lua[i].pc = "preparing" /\ lua[i].task = t)
  BY DEF AnswerUnheard, disk, IInv, TypeOK
<1>3. /\ helper.pc \in Working /\ \A s \in Task : s = t
      /\ \A i \in Instance : lua[i].pc = "idle"
  BY <1>2, RequestAlone
<1>4. Served' /\ Prepared'
  BY <1>2, <1>3 DEF Served, Prepared, IdleTask
<1>5. Named' /\ OwnArchives'
  BY <1>2 DEF IInv, Named, OwnArchives, BackedUp
<1>6. (Verified /\ Rotated /\ Cleared /\ Alone /\ InstallerGuarded)'
  BY <1>2, <1>3, PrepareFrame
<1>. QED
  BY <1>1, <1>4, <1>5, <1>6 DEF IInv

LEMMA InvPrepare ==
  ASSUME IInv, OneRequest, NEW t \in Task, PrepareStep(t)
  PROVE  IInv'
BY InvPrepareQuiet, InvPublish, InvPrepareFails, InvBeginUndo, InvUndo, InvAnswerUnheard
DEF PrepareStep

\* The parts of the invariant that only read the disk, the receipt and where
\* the helper is.
LEMMA DiskFrame ==
  ASSUME IInv, UNCHANGED <<tree, disk, cache, receipt>>,
         helper'.pc \in {helper.pc, "down", "starting"} \cup Working,
         helper'.version = helper.version \/ helper'.pc \notin Committing
  PROVE  (Named /\ Verified /\ Rotated /\ Cleared /\ OwnArchives)'
<1>. USE DEF Working
<1>1. Named' /\ OwnArchives'
  BY DEF IInv, disk, Named, OwnArchives, BackedUp
<1>2. Verified'
  BY DEF IInv, disk, Verified, NewIntact, BackedUp, Committing
<1>3. Rotated' /\ Cleared'
  BY DEF IInv, disk, Rotated, Cleared
<1>. QED
  BY <1>1, <1>2, <1>3

\* Lua's steps, for the only process on the profile.
LEMMA InvLua ==
  ASSUME IInv, OneRequest, OneProcess, NoBrowsing, NEW i \in Instance, LuaStep(i)
  PROVE  IInv'
<1>t. TypeOK /\ TypeOK'
  BY TypeLua DEF IInv
<1>l. lua[i] \in LuaState
  BY <1>t DEF TypeOK
<1>i. \A j \in Instance : j = i
  BY DEF OneProcess
<1>1. ASSUME NEW t \in Task, RequestPrepare(i, t)
      PROVE  IInv'
  <2>1. /\ helper.pc = "serving" /\ journal = None
        /\ task'[t].pc = "checked"
        /\ lua'[i] = [pc |-> "preparing", task |-> t, reading |-> None]
        /\ UNCHANGED <<tree, disk, cache, receipt, helper>>
    <3>1. task[t] \in TaskState
      BY <1>t DEF TypeOK
    <3>. QED
      BY <1>1, <1>t, <3>1 DEF RequestPrepare, TypeOK, TaskState
  <2>2. \A s \in Task : s = t
    BY DEF OneRequest
  <2>3. Served' /\ Prepared'
    BY <1>i, <2>1, <2>2 DEF Served, Prepared, Working, disk
  <2>4. Alone' /\ InstallerGuarded'
    BY <1>i, <2>1 DEF Alone, InstallerGuarded
  <2>. QED
    BY <1>t, <2>1, <2>3, <2>4, DiskFrame DEF IInv
<1>2. ASSUME NEW t \in Task, ReceiveReady(i, t)
      PROVE  IInv'
  <2>1. /\ task[t].pc = "published" /\ task'[t] = IdleTask
        /\ lua'[i] \in {IdleLua, [IdleLua EXCEPT !.pc = "stopping"]}
        /\ UNCHANGED <<tree, disk, cache, receipt, helper>>
    BY <1>2, <1>t DEF ReceiveReady, TypeOK
  <2>2. helper.pc \in Working /\ \A s \in Task : s = t
    BY <2>1, RequestAlone
  <2>3. journal # None /\ BackedUp
    BY <2>1 DEF IInv, Prepared
  <2>4. lua'[i].pc \in {"idle", "stopping"}
    BY <2>1 DEF IdleLua
  <2>5. Served' /\ Prepared'
    BY <1>i, <2>1, <2>2, <2>4 DEF Served, Prepared, IdleTask
  <2>6. Alone' /\ InstallerGuarded'
    BY <1>i, <2>1, <2>2, <2>3, <2>4 DEF Alone, InstallerGuarded, BackedUp, disk
  <2>. QED
    BY <1>t, <2>1, <2>5, <2>6, DiskFrame DEF IInv
\* The other steps take the operation on, or end it; meanwhile the helper
\* can only begin to drain.
<1>3. ASSUME lua[i].pc \in {"stopping", "delay", "prompt", "extracting"},
             lua'[i].pc \in {"idle", "delay", "prompt", "extracting"},
             lua'[i].pc = "extracting" => lua'[i].reading = candidate,
             UNCHANGED disk,
             helper'.pc \in {helper.pc, "draining"}, UNCHANGED task
      PROVE  Served' /\ Prepared' /\ Alone' /\ InstallerGuarded'
  <2>1. /\ \A t \in Task : task[t] = IdleTask /\ task'[t] = IdleTask
        /\ helper'.pc \in Working \cup {"down"}
    BY <1>3, <1>t DEF IInv, Alone, Working
  <2>2. journal # None /\ BackedUp
    BY <1>3 DEF IInv, InstallerGuarded
  <2>3. Served' /\ Prepared'
    BY <1>3, <1>i, <2>1 DEF Served, Prepared, IdleTask
  <2>. QED
    BY <1>3, <1>i, <2>1, <2>2, <2>3 DEF Alone, InstallerGuarded, BackedUp, disk
<1>g. OwnHelperDrains(i) =>
        /\ helper'.pc \in {helper.pc, "draining"} /\ helper'.version = helper.version
        /\ helper'.pc # helper.pc => helper.pc = "serving"
  BY <1>t DEF OwnHelperDrains, TypeOK
<1>4. CASE ShutdownDone(i)
  <2>1. /\ lua[i].pc = "stopping" /\ lua'[i].pc = "delay"
        /\ UNCHANGED <<tree, disk, cache, receipt, task>>
    BY <1>4, <1>t, <1>l, LuaStateCases DEF ShutdownDone, TypeOK, LuaState
  <2>2. OwnHelperDrains(i)
    BY <1>4 DEF ShutdownDone
  <2>. QED
    BY <1>t, <1>3, <1>g, <2>1, <2>2, DiskFrame DEF IInv, Working
<1>5. CASE Cancel(i) \/ DialogClosed(i)
  <2>1. /\ lua'[i].pc = "idle"
        /\ UNCHANGED <<tree, disk, cache, receipt, task>>
        /\ OwnHelperDrains(i) \/ UNCHANGED helper
    BY <1>5, <1>t DEF Cancel, DialogClosed, TypeOK, IdleLua
  <2>2. /\ helper'.pc \in {helper.pc, "draining"} /\ helper'.version = helper.version
        /\ helper'.pc # helper.pc => helper.pc = "serving"
    BY <1>g, <2>1
  <2>3. Served' /\ Prepared' /\ Alone' /\ InstallerGuarded'
    BY <1>i, <2>1, <2>2
    DEF IInv, JournalOf, Served, Prepared, Alone, InstallerGuarded, BackedUp, disk, Working
  <2>. QED
    BY <1>t, <2>1, <2>2, <2>3, DiskFrame DEF IInv, Working
<1>6. CASE DelayElapsed(i) \/ PromptEnds(i) \/ PromptAccepted(i)
  <2>1. /\ lua[i].pc \in {"delay", "prompt"}
        /\ lua'[i].pc \in {"idle", "prompt", "extracting"}
        /\ lua'[i].pc = "extracting" => lua'[i].reading = candidate
        /\ UNCHANGED <<tree, disk, cache, receipt, helper, task>>
    BY <1>6, <1>t, <1>l
    DEF DelayElapsed, PromptEnds, PromptAccepted, TypeOK, LuaState, IdleLua
  <2>. QED
    BY <1>t, <1>3, <2>1, DiskFrame DEF IInv
<1>7. CASE Extracted(i)
  <2>1. /\ lua[i].pc = "extracting" /\ lua'[i] = IdleLua
        /\ UNCHANGED <<disk, cache, receipt, helper, task>>
    BY <1>7, <1>t DEF Extracted, TypeOK
  <2>2. helper.pc \in Working \cup {"down"}
    BY <2>1 DEF IInv, Alone
  <2>3. (Named /\ Verified /\ Rotated /\ Cleared /\ OwnArchives)'
    BY <2>1, <2>2
    DEF IInv, Named, Verified, Rotated, Cleared, OwnArchives, BackedUp,
        Committing, Working, disk
  <2>. QED
    BY <1>t, <1>3, <2>1, <2>3 DEF IInv, IdleLua
<1>8. CASE StartHelper(i)
  <2>1. /\ lua[i].pc = "idle" /\ helper.pc = "down" /\ helper'.pc = "starting"
        /\ UNCHANGED <<tree, disk, cache, receipt, task, lua>>
    BY <1>8 DEF StartHelper, Launch, NoBrowsing
  <2>2. Served' /\ Prepared' /\ Alone' /\ InstallerGuarded'
    BY <1>i, <2>1 DEF IInv, Served, Prepared, Alone, InstallerGuarded, IdleTask,
       BackedUp, disk, Working
  <2>. QED
    BY <1>t, <2>1, <2>2, DiskFrame DEF IInv, Committing
<1>. QED
  BY <1>1, <1>2, <1>4, <1>5, <1>6, <1>7, <1>8 DEF LuaStep

\* The reconciliation: no request and no operation is under way.
LEMMA InvReconcile ==
  ASSUME IInv, Reconcile
  PROVE  IInv'
<1>t. TypeOK /\ TypeOK'
  BY TypeReconcile DEF IInv, TypeInv, Verified, JournalHeld
<1>1. /\ helper.pc \in Reconciling
      /\ helper'.pc \in Reconciling \cup {"serving"}
      /\ helper'.version = helper.version
      /\ UNCHANGED <<tree, task, lua>>
  BY <1>t DEF Reconcile, NothingPending, Discard, Verify, RecoveryRequired, Unresolved,
     RotateForRecovery, RotateForCandidate, Rotate, StoreRecovery, StoreCandidate, Store,
     WriteReceipt, ClearJournal, ClearCandidate, ClearRecovery, Serve, GoTo, At, disk,
     TypeOK, Reconciling
<1>2. /\ \A t \in Task : task[t] = IdleTask
      /\ \A i \in Instance : lua[i].pc = "idle"
  <2>1. \A i \in Instance : lua[i].pc \in Waiting \cup {"preparing", "extracting"}
    BY <1>t, LuaStateCases DEF TypeOK
  <2>. QED
    BY <1>1, <2>1 DEF IInv, Served, Alone, Waiting, Reconciling, Working
<1>3. Served' /\ Prepared' /\ Alone' /\ InstallerGuarded'
  BY <1>1, <1>2 DEF Served, Prepared, Alone, InstallerGuarded, IdleTask
<1>j. journal # None => journal.artifact # None /\ journal.recovery # None
  BY <1>t, NoneIsNothing DEF TypeOK, Journal
<1>4. CASE NothingPending \/ RecoveryRequired
  <2>1. /\ helper.pc = "starting" /\ helper'.pc = "serving"
        /\ UNCHANGED <<tree, disk, cache, receipt>>
    BY <1>4, <1>t DEF NothingPending, RecoveryRequired, Unresolved, At, Serve, GoTo,
       disk, TypeOK
  <2>. QED
    BY <1>t, <1>1, <1>3, <2>1, DiskFrame DEF IInv, Working
<1>5. CASE Discard \/ ClearJournal
  <2>1. journal' = None /\ helper'.pc = "journalGone"
    BY <1>5, <1>t DEF Discard, ClearJournal, GoTo, TypeOK
  <2>2. (Named /\ Verified /\ Rotated /\ Cleared /\ OwnArchives)'
    BY <2>1 DEF Named, Verified, Rotated, Cleared, OwnArchives, Committing
  <2>. QED
    BY <1>t, <1>3, <2>2 DEF IInv
<1>6. CASE Verify
  <2>1. /\ journal # None /\ ~OldIntact /\ NewIntact /\ BackedUp
        /\ helper'.pc = "verified" /\ UNCHANGED <<tree, disk, cache, receipt>>
    BY <1>6, <1>t DEF Verify, GoTo, TypeOK
  <2>2. journal.target # journal.previous
    BY <2>1 DEF OldIntact, NewIntact
  <2>3. (Named /\ Verified /\ Rotated /\ Cleared /\ OwnArchives)'
    BY <1>1, <2>1, <2>2
    DEF IInv, Named, Verified, Rotated, Cleared, OwnArchives, NewIntact,
        BackedUp, disk
  <2>. QED
    BY <1>t, <1>3, <2>3 DEF IInv
\* Four rotations and the receipt: the journal and its archives stay.
<1>7. ASSUME helper.pc \in Committing, helper'.pc \in Committing,
             UNCHANGED disk, Rotated'
      PROVE  IInv'
  <2>1. (Named /\ Verified /\ Cleared /\ OwnArchives)'
    BY <1>1, <1>7 DEF IInv, Named, Verified, Cleared, OwnArchives, NewIntact,
       BackedUp, disk, Committing, Working
  <2>. QED
    BY <1>t, <1>3, <1>7, <2>1 DEF IInv
<1>a. helper.pc \in Committing => journal.artifact # journal.recovery
  BY DEF IInv, Verified, Named
<1>8. CASE RotateForRecovery
  <2>1. /\ helper.pc = "verified" /\ helper'.pc = "recoveryRotated" /\ UNCHANGED disk
    BY <1>8, <1>t DEF RotateForRecovery, Rotate, At, GoTo, TypeOK
  <2>. QED
    BY <1>7, <2>1 DEF Rotated, Committing
<1>9. CASE StoreRecovery
  <2>1. /\ helper.pc = "recoveryRotated" /\ helper'.pc = "recoveryCached"
        /\ UNCHANGED disk /\ cache'.current = journal.recovery
    BY <1>9, <1>t DEF StoreRecovery, Store, At, GoTo, TypeOK
  <2>. QED
    BY <1>7, <2>1 DEF Rotated, Committing, disk
<1>10. CASE RotateForCandidate
  <2>1. /\ helper.pc = "recoveryCached" /\ helper'.pc = "candidateRotated"
        /\ UNCHANGED disk
    BY <1>10, <1>t DEF RotateForCandidate, Rotate, At, GoTo, TypeOK
  <2>2. cache.current \notin {None, journal.artifact}
    BY <1>j, <1>a, <2>1 DEF IInv, Rotated, Verified, Committing
  <2>3. cache'.previous = journal.recovery
    BY <1>10, <1>t, <2>1, <2>2 DEF RotateForCandidate, Rotate, IInv, Rotated, TypeOK
  <2>. QED
    BY <1>7, <2>1, <2>3 DEF Rotated, Committing, disk
<1>11. CASE StoreCandidate
  <2>1. /\ helper.pc = "candidateRotated" /\ helper'.pc = "candidateCached"
        /\ UNCHANGED disk /\ cache' = [cache EXCEPT !.current = journal.artifact]
    BY <1>11, <1>t DEF StoreCandidate, Store, At, GoTo, TypeOK
  <2>2. cache' = [current |-> journal.artifact, previous |-> journal.recovery]
    BY <1>t, <2>1 DEF IInv, Rotated, TypeOK
  <2>. QED
    BY <1>7, <2>1, <2>2 DEF Rotated, Committing, disk
<1>12. CASE WriteReceipt
  <2>1. /\ helper.pc = "candidateCached" /\ helper'.pc = "recorded"
        /\ UNCHANGED <<disk, cache>> /\ receipt' = ReceiptOf(journal)
    BY <1>12, <1>t DEF WriteReceipt, At, GoTo, TypeOK
  <2>. QED
    BY <1>7, <2>1 DEF IInv, Rotated, Committing, ReceiptOf, disk
<1>13. CASE ClearCandidate \/ ClearRecovery
  <2>1. /\ helper.pc \in {"journalGone", "candidateGone"}
        /\ helper'.pc \in {"candidateGone", "serving"} /\ journal' = journal
    BY <1>13, <1>t DEF ClearCandidate, ClearRecovery, At, Serve, GoTo, TypeOK
  <2>2. (Named /\ Verified /\ Rotated /\ Cleared /\ OwnArchives)'
    BY <2>1 DEF IInv, Named, Verified, Rotated, Cleared, OwnArchives, Committing
  <2>. QED
    BY <1>t, <1>3, <2>2 DEF IInv
<1>. QED
  BY <1>4, <1>5, <1>6, <1>8, <1>9, <1>10, <1>11, <1>12, <1>13 DEF Reconcile

\* Failures of the reconciliation, the end of the helper, and the user.
LEMMA InvRest ==
  ASSUME IInv, ReconcileFails \/ HelperDies \/ ReinstallByHand \/ UNCHANGED vars
  PROVE  IInv'
<1>t. TypeOK /\ TypeOK'
  BY TypeRest DEF IInv
<1>1. CASE ReconcileFails
  <2>1. /\ helper.pc \in Reconciling /\ helper'.pc = "serving"
        /\ UNCHANGED <<tree, disk, cache, receipt, task, lua>>
    BY <1>1, <1>t DEF ReconcileFails, Serve, GoTo, TypeOK
  <2>2. Served' /\ Prepared' /\ Alone' /\ InstallerGuarded'
    BY <2>1 DEF IInv, JournalOf, Served, Prepared, Alone, InstallerGuarded, BackedUp, disk,
       Reconciling, Working
  <2>. QED
    BY <1>t, <2>1, <2>2, DiskFrame DEF IInv, Committing, Working
<1>2. CASE HelperDies
  <2>1. /\ helper'.pc = "down" /\ \A t \in Task : task'[t] = IdleTask
        /\ \A i \in Instance : /\ lua'[i].pc # "preparing"
                               /\ lua'[i].pc # "idle" => lua'[i] = lua[i]
        /\ UNCHANGED <<tree, disk, cache, receipt>>
    BY <1>2, <1>t DEF HelperDies, HelperGone, TypeOK, IdleLua
  <2>2. Served' /\ Prepared' /\ Alone'
    BY <2>1 DEF Served, Prepared, Alone, IdleTask
  <2>3. InstallerGuarded'
    BY <2>1 DEF IInv, InstallerGuarded, BackedUp, disk
  <2>. QED
    BY <1>t, <2>1, <2>2, <2>3, DiskFrame DEF IInv, Committing
<1>3. CASE ReinstallByHand
  <2>1. /\ helper.pc \in Working \cup {"down"}
        /\ UNCHANGED <<disk, cache, receipt, helper, status, task, lua>>
    BY <1>3 DEF ReinstallByHand
  <2>2. Served' /\ Prepared' /\ Alone' /\ InstallerGuarded'
    BY <2>1 DEF IInv, JournalOf, Served, Prepared, Alone, InstallerGuarded, BackedUp, disk
  <2>3. (Named /\ Verified /\ Rotated /\ Cleared /\ OwnArchives)'
    BY <2>1 DEF IInv, Named, Verified, Rotated, Cleared, OwnArchives,
       BackedUp, disk, Committing, Working
  <2>. QED
    BY <1>t, <2>2, <2>3 DEF IInv
<1>4. CASE UNCHANGED vars
  BY <1>4, <1>t
  DEF IInv, JournalOf, Served, Prepared, Alone, Named, Verified, Rotated, Cleared, NewIntact,
      InstallerGuarded, OwnArchives, BackedUp, vars, disk
<1>. QED
  BY <1>1, <1>2, <1>3, <1>4

LEMMA InvNext ==
  ASSUME OneRequest, OneProcess, NoBrowsing
  PROVE  IInv /\ [Next]_vars => IInv'
BY InvPrepare, InvLua, InvReconcile, InvRest DEF Next

\* For one prepare request at a time and one Aseprite process on the profile,
\* from the moment Lua stops the helper until Aseprite has replaced the folder
\* the journal is there with both its archives, and the candidate is what is
\* being installed: the helper's admission, the order of begin_self_update and
\* the order of Lua's waits make it so through every crash and failure.
THEOREM InstallerIsGuarded ==
  ASSUME OneRequest, OneProcess, NoBrowsing
  PROVE  Spec => []InstallerGuarded
<1>1. IInv => InstallerGuarded
  BY DEF IInv
<1>. QED
  BY <1>1, InvInit, InvNext, PTL DEF Spec

\* Under the same assumptions a journal never lies over archives of another
\* transaction, whatever earlier ones have left and failing ones take back.
THEOREM ArchivesAreOwn ==
  ASSUME OneRequest, OneProcess, NoBrowsing
  PROVE  Spec => []OwnArchives
<1>1. IInv => OwnArchives
  BY DEF IInv
<1>. QED
  BY <1>1, InvInit, InvNext, PTL DEF Spec

-----------------------------------------------------------------------------
(* What a step may do, and the abstract transaction.                       *)

\* Every step of Next, by what it does to the journal, the recovery archive,
\* the receipt and the installed folder.
LEMMA StepEffects ==
  ASSUME IInv, OneRequest, Next
  PROVE  \/ UNCHANGED <<journal, recovery, receipt, tree>>
         \/ /\ UNCHANGED <<journal, receipt, tree>>
            /\ \E t \in Task : UndoRecovery(t)
         \/ /\ journal = None /\ UNCHANGED <<receipt, tree>>
            /\ \/ journal' = None
               \/ journal' \in Journal
         \/ /\ UNCHANGED <<journal, recovery, receipt>>
            /\ tree' \in [version : Version, intact : BOOLEAN]
         \/ Discard \/ WriteReceipt \/ ClearJournal
<1>t. TypeOK
  BY DEF IInv
<1>1. ASSUME NEW t \in Task, PrepareStep(t)
      PROVE  /\ UNCHANGED <<receipt, tree>>
             /\ \/ UNCHANGED <<journal, recovery>>
                \/ UNCHANGED journal /\ UndoRecovery(t)
                \/ journal = None /\ (journal' = None \/ journal' \in Journal)
  <2>1. task[t].pc \notin {"idle", "published", "undoCandidate", "undoRecovery"} =>
          journal = None
    BY DEF IInv, Prepared
  <2>2. task[t].pc = "rehashed" => JournalOf(t) \in Journal
    BY <1>t, JournalOfType
  <2>. QED
    BY <1>1, <2>1, <2>2 DEF PrepareStep, BuildUpdate, BuildRollback, Build, Admit,
       CopyCandidate, CopyRecovery, Rehash, Publish, AnswerUnheard, PrepareFails,
       CopyRecoveryFails, RehashFails, PublishFails, UndoCandidate, UndoRecovery, disk
<1>2. ASSUME NEW i \in Instance, LuaStep(i)
      PROVE  UNCHANGED <<journal, recovery, receipt>>
             /\ tree' \in [version : Version, intact : BOOLEAN]
  <2>1. tree' \in [version : Version, intact : BOOLEAN]
    BY <1>t, <1>2, TypeLua DEF TypeOK
  <2>. QED
    BY <1>2, <2>1 DEF LuaStep, RequestPrepare, ReceiveReady, ShutdownDone, Cancel,
       DialogClosed, DelayElapsed, PromptEnds, PromptAccepted, Extracted, StartHelper, Launch, disk
<1>3. CASE Reconcile
  <2>1. helper.pc = "candidateGone" => journal = None
    BY DEF IInv, Cleared
  <2>. QED
    BY <1>3, <2>1 DEF Reconcile, NothingPending, Verify, RecoveryRequired, Unresolved,
       RotateForRecovery, RotateForCandidate, Rotate, StoreRecovery, StoreCandidate,
       Store, ClearCandidate, ClearRecovery, At, disk
<1>4. CASE ReconcileFails \/ HelperDies \/ ReinstallByHand
  BY <1>4 DEF ReconcileFails, HelperDies, ReinstallByHand, disk
<1>. QED
  BY <1>1, <1>2, <1>3, <1>4 DEF Next

\* For one prepare request at a time and one process on the profile: as long
\* as a journal is pending its recovery archive is not overwritten, and only
\* the preparation that failed to make it durable takes the archive away,
\* while no installer is open or due.
THEOREM RecoveryIsKept ==
  ASSUME OneRequest, OneProcess, NoBrowsing
  PROVE  Spec => RecoveryKept
<1>1. ASSUME IInv, [Next]_vars, journal # None, journal' # None,
             recovery = journal.recovery, recovery' # recovery
      PROVE  /\ \E t \in Task : UndoRecovery(t) /\ JournalOf(t) = journal
             /\ \A i \in Instance : lua[i].pc \in {"idle", "preparing"}
  <2>1. PICK t \in Task : UndoRecovery(t)
    BY <1>1, StepEffects DEF Discard, WriteReceipt, ClearJournal, disk, vars
  <2>2. task[t].pc = "undoRecovery"
    BY <2>1 DEF UndoRecovery
  <2>. QED
    BY <1>1, <2>1, <2>2, RequestAlone DEF IInv, Prepared
<1>. QED
  BY <1>1, InvInit, InvNext, PTL DEF Spec, RecoveryKept

\* Under the same assumptions a receipt is written only over a cache that
\* holds exactly the two artifacts it records.
THEOREM ReceiptIsCached ==
  ASSUME OneRequest, OneProcess, NoBrowsing
  PROVE  Spec => ReceiptMatchesCache
<1>1. ASSUME IInv, [Next]_vars, receipt' # receipt
      PROVE  cache' = [current |-> receipt'.artifact,
                       previous |-> receipt'.previousArtifact]
  <2>1. WriteReceipt
    BY <1>1, StepEffects DEF Discard, ClearJournal, vars
  <2>2. /\ receipt' = ReceiptOf(journal) /\ cache' = cache
        /\ cache = [current |-> journal.artifact, previous |-> journal.recovery]
    BY <1>1, <2>1 DEF WriteReceipt, At, IInv, Rotated, disk
  <2>. QED
    BY <2>2 DEF ReceiptOf
<1>. QED
  BY <1>1, InvInit, InvNext, PTL DEF Spec, ReceiptMatchesCache

LEMMA InitImplements == Init => Transaction!Init
BY VersionAssumption
DEF Init, Transaction!Init, OpenTransaction, RecordedTransaction

LEMMA StepImplements ==
  ASSUME IInv, OneRequest, [Next]_vars
  PROVE  [Transaction!Next]_(Transaction!tvars)
<1>. USE DEF OpenTransaction, RecordedTransaction
<1>t. TypeOK
  BY DEF IInv
<1>n. \A j \in Journal :
        /\ j # None
        /\ [target |-> j.target, previous |-> j.previous] \in Transaction!Transaction
        /\ [target |-> j.target, previous |-> j.previous] # None
  BY NoneIsNothing, NoneAssumption DEF Journal, Transaction!Transaction
<1>1. CASE UNCHANGED <<journal, receipt, tree>>
  BY <1>1 DEF Transaction!tvars
<1>2. CASE journal = None /\ journal' \in Journal /\ UNCHANGED <<receipt, tree>>
  <2>1. Transaction!Open
    BY <1>2, <1>n DEF Transaction!Open
  <2>. QED
    BY <2>1 DEF Transaction!Next
<1>3. CASE /\ UNCHANGED <<journal, receipt>>
           /\ tree' \in [version : Version, intact : BOOLEAN]
  <2>1. Transaction!Replace
    BY <1>3 DEF Transaction!Replace
  <2>. QED
    BY <2>1 DEF Transaction!Next
<1>4. CASE Discard
  <2>1. Transaction!Discard
    BY <1>4, <1>t, <1>n
    DEF Discard, OldIntact, Transaction!Discard, Transaction!Intact, TypeOK
  <2>. QED
    BY <2>1 DEF Transaction!Next
<1>5. CASE WriteReceipt
  <2>1. /\ journal \in Journal /\ journal' = journal /\ tree' = tree
        /\ receipt' = ReceiptOf(journal) /\ receipt' # None
        /\ tree = [version |-> journal.target, intact |-> TRUE]
    BY <1>5, <1>t, ReceiptOfType, NoneIsNothing
    DEF WriteReceipt, At, IInv, Verified, NewIntact, Committing, TypeOK, disk
  <2>2. Transaction!Record
    BY <1>n, <2>1 DEF Transaction!Record, Transaction!Intact, ReceiptOf
  <2>. QED
    BY <2>2 DEF Transaction!Next
<1>6. CASE ClearJournal
  <2>1. /\ journal \in Journal /\ journal' = None /\ UNCHANGED <<tree, receipt>>
        /\ receipt = ReceiptOf(journal) /\ receipt # None
        /\ tree = [version |-> journal.target, intact |-> TRUE]
    BY <1>6, <1>t, ReceiptOfType, NoneIsNothing
    DEF ClearJournal, At, IInv, Verified, Rotated, NewIntact, Committing, TypeOK
  <2>2. Transaction!CloseRecorded
    BY <1>n, <2>1 DEF Transaction!CloseRecorded, Transaction!Intact, ReceiptOf
  <2>. QED
    BY <2>2 DEF Transaction!Next
<1>. QED
  BY <1>1, <1>2, <1>3, <1>4, <1>5, <1>6, StepEffects DEF vars

\* For one prepare request at a time and one Aseprite process on the profile,
\* the helper's files, crashes, failures and replays implement the abstract
\* transaction of ManagerTransaction, whatever the versions.
THEOREM TransactionIsImplemented ==
  ASSUME OneRequest, OneProcess, NoBrowsing
  PROVE  Spec => ImplementsTransaction
<1>. QED
  BY InvInit, InvNext, InitImplements, StepImplements, PTL
  DEF Spec, ImplementsTransaction, Transaction!Spec

=============================================================================
