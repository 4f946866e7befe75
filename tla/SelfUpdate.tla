----------------------------- MODULE SelfUpdate -----------------------------
(***************************************************************************)
(* The manager's own update and rollback transaction.                      *)
(*                                                                         *)
(* The running helper prepares a transaction: it copies the new package    *)
(* (the candidate) and an archive of the installed manager (the recovery)  *)
(* into self-update/, rehashes both copies and publishes pending.json, the *)
(* journal.  Lua then stops the helper and hands the candidate to          *)
(* Aseprite's installer, which replaces the manager's folder and with it   *)
(* the helper binary.  The next helper to start reads the journal and      *)
(* either discards it (the old manager is intact), completes it (the new   *)
(* one is: cache rotation, receipt, clearing) or reports                   *)
(* SELF_UPDATE_RECOVERY_REQUIRED and keeps everything.                     *)
(*                                                                         *)
(* Every file operation is a step of its own, and the helper may die       *)
(* between any two of them.  atomic_write and atomic_copy (temporary file, *)
(* fsync, rename) are atomic.  A package is identified by its bytes, so an *)
(* Artifact value stands for the archive, its SHA-256 and its length.      *)
(***************************************************************************)
EXTENDS Naturals

CONSTANTS
  Version,       \* versions of the manager, compared like semantic versions
  FirstVersion,  \* the version installed at the start
  Task,          \* prepare requests the helper may be working on at once
  Instance,      \* Aseprite processes that share this user profile
  Browsing,      \* Help or GitHub is looked at while an installation is due
  None           \* an absent file, journal or receipt

\* A published archive of a version, and the archive the helper builds from
\* the installed folder: same version, different bytes.
Artifact == [version : Version, kind : {"release", "recovery"}]
Release(v)  == [version |-> v, kind |-> "release"]
Recovery(v) == [version |-> v, kind |-> "recovery"]

Journal == [target : Version, previous : Version,
            artifact : Artifact, recovery : Artifact]
Receipt == [version : Version, artifact : Artifact,
            previousVersion : Version, previousArtifact : Artifact]

ASSUME VersionAssumption == Version \subseteq Nat /\ FirstVersion \in Version
ASSUME BrowsingAssumption == Browsing \in BOOLEAN
ASSUME NoneAssumption ==
  /\ None \notin Artifact /\ None \notin Journal /\ None \notin Receipt
  /\ None \notin Task /\ None \notin Instance
  /\ None \notin [target : Version, previous : Version]

VARIABLES
  tree,       \* the installed manager folder: version of its helper binary,
              \* and whether the whole folder validates as that version
  journal,    \* self-update/pending.json
  candidate,  \* self-update/candidate.aseprite-extension
  recovery,   \* self-update/recovery.aseprite-extension
  cache,      \* the manager's current and previous artifacts under cache/
  receipt,    \* receipts/aseprite-extension-manager.json
  helper,     \* the helper process: where it is, its VERSION, who launched it
  status,     \* Context.self_update_status
  task,       \* per prepare request: where it is and what it has built
  lua         \* per Aseprite process: the update operation of its controller

disk == <<journal, candidate, recovery>>
vars == <<tree, journal, candidate, recovery, cache, receipt, helper, status, task, lua>>

Reconciling == {"starting", "verified", "recoveryRotated", "recoveryCached",
                "candidateRotated", "candidateCached", "recorded",
                "journalGone", "candidateGone"}
Undoing == {"undoCopy", "undoCandidate", "undoRecovery"}
TaskPC == {"idle", "checked", "built", "admitted", "candidateCopied",
           "bothCopied", "rehashed", "published"} \cup Undoing
Waiting == {"idle", "stopping", "delay", "prompt"}
Working == {"serving", "draining"}

\* A request has its two archives once it is built; an operation waits for a
\* request, reads an archive, or does neither.
TaskState ==
  [pc : {"idle", "checked"}, artifact : {None}, recovery : {None}]
    \cup [pc : TaskPC \ {"idle", "checked"}, artifact : Artifact, recovery : Artifact]
LuaState ==
  [pc : Waiting, task : {None}, reading : {None}]
    \cup [pc : {"preparing"}, task : Task, reading : {None}]
    \cup [pc : {"extracting"}, task : {None}, reading : Artifact]

IdleTask == [pc |-> "idle", artifact |-> None, recovery |-> None]
IdleLua  == [pc |-> "idle", task |-> None, reading |-> None]

TypeOK ==
  /\ tree \in [version : Version, intact : BOOLEAN]
  /\ journal \in Journal \cup {None}
  /\ candidate \in Artifact \cup {None}
  /\ recovery \in Artifact \cup {None}
  /\ cache \in [current : Artifact \cup {None}, previous : Artifact \cup {None}]
  /\ receipt \in Receipt \cup {None}
  /\ helper \in [pc : Reconciling \cup Working \cup {"down"}, version : Version,
                 owner : Instance \cup {None}]
  /\ status \in {"ok", "recoveryRequired"}
  /\ task \in [Task -> TaskState]
  /\ lua \in [Instance -> LuaState]

Init ==
  /\ tree = [version |-> FirstVersion, intact |-> TRUE]
  /\ journal = None /\ candidate = None /\ recovery = None
  /\ cache = [current |-> None, previous |-> None]
  /\ receipt = None
  /\ helper = [pc |-> "down", version |-> FirstVersion, owner |-> None]
  /\ status = "ok"
  /\ task = [t \in Task |-> IdleTask]
  /\ lua = [i \in Instance |-> IdleLua]

-----------------------------------------------------------------------------
(* Preparing a transaction: requests the serving helper works on.          *)

\* prepareSelfUpdate and prepareSelfRollback refuse when a journal exists.
\* The check is made as the request arrives, before the network is awaited.
RequestPrepare(i, t) ==
  /\ helper.pc = "serving" /\ helper.owner = i
  /\ lua[i] = IdleLua
  /\ task[t].pc = "idle"
  /\ journal = None
  /\ task' = [task EXCEPT ![t].pc = "checked"]
  /\ lua' = [lua EXCEPT ![i] = [pc |-> "preparing", task |-> t, reading |-> None]]
  /\ UNCHANGED <<tree, disk, cache, receipt, helper, status>>

\* The installed folder must validate at the running helper's version; the
\* recovery archive is then packed from it.
Build(t, artifact) ==
  /\ task[t].pc = "checked"
  /\ tree = [version |-> helper.version, intact |-> TRUE]
  /\ task' = [task EXCEPT ![t] = [pc |-> "built", artifact |-> artifact,
                                  recovery |-> Recovery(helper.version)]]
  /\ UNCHANGED <<tree, disk, cache, receipt, helper, status, lua>>

\* The latest stable release, downloaded and validated, must be newer.
BuildUpdate(t) ==
  \E v \in Version : v > helper.version /\ Build(t, Release(v))

\* The cached previous artifact must be the one the receipt names: its
\* version by validation, its bytes by the integrity check.
BuildRollback(t) ==
  /\ receipt # None /\ cache.previous # None
  /\ cache.previous.version = receipt.previousVersion
  /\ cache.previous = receipt.previousArtifact
  /\ Build(t, cache.previous)

\* begin_self_update looks for a journal once more.
Admit(t) ==
  /\ task[t].pc = "built" /\ journal = None
  /\ task' = [task EXCEPT ![t].pc = "admitted"]
  /\ UNCHANGED <<tree, disk, cache, receipt, helper, status, lua>>

CopyCandidate(t) ==
  /\ task[t].pc = "admitted"
  /\ candidate' = task[t].artifact
  /\ task' = [task EXCEPT ![t].pc = "candidateCopied"]
  /\ UNCHANGED <<tree, journal, recovery, cache, receipt, helper, status, lua>>

CopyRecovery(t) ==
  /\ task[t].pc = "candidateCopied"
  /\ recovery' = task[t].recovery
  /\ task' = [task EXCEPT ![t].pc = "bothCopied"]
  /\ UNCHANGED <<tree, journal, candidate, cache, receipt, helper, status, lua>>

\* Both copies must hash to what the journal is going to say.
Rehash(t) ==
  /\ task[t].pc = "bothCopied"
  /\ candidate = task[t].artifact /\ recovery = task[t].recovery
  /\ task' = [task EXCEPT ![t].pc = "rehashed"]
  /\ UNCHANGED <<tree, disk, cache, receipt, helper, status, lua>>

JournalOf(t) ==
  [target |-> task[t].artifact.version, previous |-> task[t].recovery.version,
   artifact |-> task[t].artifact, recovery |-> task[t].recovery]

Publish(t) ==
  /\ task[t].pc = "rehashed"
  /\ journal' = JournalOf(t)
  /\ task' = [task EXCEPT ![t].pc = "published"]
  /\ UNCHANGED <<tree, candidate, recovery, cache, receipt, helper, status, lua>>

\* The operation of Lua that waits for request t, if there still is one.
LuaAfter(t, next) ==
  [i \in Instance |-> IF lua[i].pc = "preparing" /\ lua[i].task = t
                      THEN next ELSE lua[i]]

\* The request answers with an error.  (Slip: it keeps what it had built.)
EndsInError_NoReset(t) ==
  /\ task' = [task EXCEPT ![t].pc = "idle"]
  /\ lua' = LuaAfter(t, IdleLua)

EndsInError(t) ==
  /\ task' = [task EXCEPT ![t] = IdleTask]
  /\ lua' = LuaAfter(t, IdleLua)

\* Up to the first copy a failure leaves nothing to undo.  A copy, like the
\* journal, is renamed into place before its directory is synced, so that
\* one that failed may be there all the same.
PrepareFails(t) ==
  /\ task[t].pc \in {"checked", "built", "admitted"}
  /\ \/ candidate' = candidate
     \/ task[t].pc = "admitted" /\ candidate' = task[t].artifact
  /\ EndsInError(t)
  /\ UNCHANGED <<tree, journal, recovery, cache, receipt, helper, status>>

\* Later begin_self_update takes back what it has copied, one file after the
\* other: the candidate alone when the second copy failed, else both.
CopyRecoveryFails(t) ==
  /\ task[t].pc = "candidateCopied"
  /\ recovery' \in {recovery, task[t].recovery}
  /\ task' = [task EXCEPT ![t].pc = "undoCopy"]
  /\ UNCHANGED <<tree, journal, candidate, cache, receipt, helper, status, lua>>

RehashFails(t) ==
  /\ task[t].pc = "bothCopied"
  /\ task' = [task EXCEPT ![t].pc = "undoCandidate"]
  /\ UNCHANGED <<tree, disk, cache, receipt, helper, status, lua>>

PublishFails(t) ==
  /\ task[t].pc = "rehashed"
  /\ journal' \in {journal, JournalOf(t)}
  /\ task' = [task EXCEPT ![t].pc = "undoCandidate"]
  /\ UNCHANGED <<tree, candidate, recovery, cache, receipt, helper, status, lua>>

\* The error of a removal is ignored.
UndoCandidate(t) ==
  /\ task[t].pc \in {"undoCopy", "undoCandidate"}
  /\ candidate' \in {candidate, None}
  /\ IF task[t].pc = "undoCopy" THEN EndsInError(t)
     ELSE task' = [task EXCEPT ![t].pc = "undoRecovery"] /\ UNCHANGED lua
  /\ UNCHANGED <<tree, journal, recovery, cache, receipt, helper, status>>

UndoRecovery(t) ==
  /\ task[t].pc = "undoRecovery"
  /\ recovery' \in {recovery, None}
  /\ EndsInError(t)
  /\ UNCHANGED <<tree, journal, candidate, cache, receipt, helper, status>>

-----------------------------------------------------------------------------
(* Lua's side: the controller of one Aseprite process.                     *)

\* The "ready" answer.  Both paths must name files, and the helper is asked
\* to shut down; otherwise the operation ends with an error.
ReceiveReady(i, t) ==
  /\ lua[i].pc = "preparing" /\ lua[i].task = t
  /\ task[t].pc = "published"
  /\ task' = [task EXCEPT ![t] = IdleTask]
  /\ lua' = [lua EXCEPT ![i] = IF candidate # None /\ recovery # None
                               THEN [IdleLua EXCEPT !.pc = "stopping"]
                               ELSE IdleLua]
  /\ UNCHANGED <<tree, disk, cache, receipt, helper, status>>

\* An answer to an operation the user has cancelled goes nowhere.
AnswerUnheard(t) ==
  /\ task[t].pc = "published"
  /\ \A i \in Instance : ~(lua[i].pc = "preparing" /\ lua[i].task = t)
  /\ task' = [task EXCEPT ![t] = IdleTask]
  /\ UNCHANGED <<tree, disk, cache, receipt, helper, status, lua>>

\* The helper process ends, at whatever it was doing; its requests end too.
HelperGone ==
  /\ helper' = [helper EXCEPT !.pc = "down"]
  /\ task' = [t \in Task |-> IdleTask]

\* The shutdown request of process i, or the end of its connection, reaches
\* its own helper, which stops reading but lets its requests go on while it
\* drains, holding the lock.
OwnHelperDrains(i) ==
  helper' = IF helper.owner = i /\ helper.pc = "serving"
            THEN [helper EXCEPT !.pc = "draining"] ELSE helper

\* The helper has answered the shutdown; the short delay timer starts.
ShutdownDone(i) ==
  /\ lua[i].pc = "stopping"
  /\ OwnHelperDrains(i)
  /\ lua' = [lua EXCEPT ![i].pc = "delay"]
  /\ UNCHANGED <<tree, disk, cache, receipt, status, task>>

\* Cancel in the progress dialog.  The helper goes on with the request; a
\* shutdown that was already sent still takes effect.
Cancel(i) ==
  /\ lua[i].pc \in {"preparing", "stopping", "delay"}
  /\ lua' = [lua EXCEPT ![i] = IdleLua]
  /\ IF lua[i].pc = "stopping" THEN OwnHelperDrains(i) ELSE UNCHANGED helper
  /\ UNCHANGED <<tree, disk, cache, receipt, status, task>>

\* The window is closed: the operation is dropped and the helper shut down.
DialogClosed(i) ==
  /\ lua[i].pc \in {"idle", "preparing", "stopping", "delay"}
  /\ lua' = [lua EXCEPT ![i] = IdleLua]
  /\ OwnHelperDrains(i)
  /\ UNCHANGED <<tree, disk, cache, receipt, status, task>>

\* The timer fires and Aseprite's installer is opened on the candidate path.
DelayElapsed(i) ==
  /\ lua[i].pc = "delay"
  /\ lua' = [lua EXCEPT ![i].pc = "prompt"]
  /\ UNCHANGED <<tree, disk, cache, receipt, helper, status, task>>

\* The user declines, or the installer cannot read the file.
PromptEnds(i) ==
  /\ lua[i].pc = "prompt"
  /\ lua' = [lua EXCEPT ![i] = IdleLua]
  /\ UNCHANGED <<tree, disk, cache, receipt, helper, status, task>>

PromptAccepted(i) ==
  /\ lua[i].pc = "prompt" /\ candidate # None
  /\ lua' = [lua EXCEPT ![i] = [pc |-> "extracting", task |-> None, reading |-> candidate]]
  /\ UNCHANGED <<tree, disk, cache, receipt, helper, status, task>>

\* Aseprite replaces the folder file by file: it may finish, or leave a mix
\* whose helper binary is the old one or the new one.
Extracted(i) ==
  /\ lua[i].pc = "extracting"
  /\ \/ tree' = [version |-> lua[i].reading.version, intact |-> TRUE]
     \/ \E v \in {tree.version, lua[i].reading.version} :
          tree' = [version |-> v, intact |-> FALSE]
  /\ lua' = [lua EXCEPT ![i] = IdleLua]
  /\ UNCHANGED <<disk, cache, receipt, helper, status, task>>

\* The user installs some version without the manager (the documented way
\* out of SELF_UPDATE_RECOVERY_REQUIRED), completely or not.
ReinstallByHand ==
  /\ helper.pc \in Working \cup {"down"}
  /\ \E i \in Instance : lua[i].pc \notin {"prompt", "extracting"}
  /\ tree' \in [version : Version, intact : BOOLEAN]
  /\ UNCHANGED <<disk, cache, receipt, helper, status, task, lua>>

-----------------------------------------------------------------------------
(* The helper process: start, reconciliation step by step, death.          *)

\* A process launches the installed binary; the profile lock admits one.
Launch(i) ==
  /\ helper.pc = "down"
  /\ helper' = [pc |-> "starting", version |-> tree.version, owner |-> i]
  /\ UNCHANGED <<tree, disk, cache, receipt, status, task, lua>>

\* Slip: a refresh is let through while the delay timer runs.
StartHelper_DuringDelay(i) == lua[i].pc \in {"idle", "delay"} /\ Launch(i)

\* Any request launches a helper if there is none.  An operation under way
\* blocks the others, but neither diagnostics nor the list of repositories.
StartHelper(i) ==
  /\ lua[i].pc = "idle" \/ (Browsing /\ lua[i].pc = "delay")
  /\ Launch(i)

\* The launcher is read to its end on Aseprite's only Lua thread, and the
\* helper prints its handshake after the reconciliation: meanwhile neither a
\* timer nor a click nor the installer of that process gets a turn.
Launching(i) == helper.owner = i /\ helper.pc \in Reconciling

\* Crash, idle timeout, client gone, launch given up, or drained.
HelperDies ==
  /\ helper.pc # "down"
  /\ HelperGone
  /\ lua' = [i \in Instance |-> IF lua[i].pc = "preparing" THEN IdleLua ELSE lua[i]]
  /\ UNCHANGED <<tree, disk, cache, receipt, status>>

At(pc) == helper.pc = pc
GoTo(pc) == helper' = [helper EXCEPT !.pc = pc]

\* Reconciliation is over and the helper serves its client.
Serve(outcome) ==
  /\ GoTo("serving")
  /\ status' = outcome

BackedUp  == candidate = journal.artifact /\ recovery = journal.recovery

\* Slip: a journal is discarded only over both of its archives.
OldIntact_BackedUp == /\ helper.version = journal.previous /\ BackedUp
                      /\ tree = [version |-> journal.previous, intact |-> TRUE]

OldIntact == helper.version = journal.previous
             /\ tree = [version |-> journal.previous, intact |-> TRUE]
NewIntact == helper.version = journal.target
             /\ tree = [version |-> journal.target, intact |-> TRUE]

NothingPending ==
  /\ At("starting") /\ journal = None
  /\ Serve("ok")
  /\ UNCHANGED <<tree, disk, cache, receipt, task, lua>>

\* The old manager is intact: clear_self_update, whose first removal is the
\* journal's.
Discard ==
  /\ At("starting") /\ journal # None /\ OldIntact
  /\ journal' = None
  /\ GoTo("journalGone")
  /\ UNCHANGED <<tree, candidate, recovery, cache, receipt, status, task, lua>>

\* Slip: the version alone is checked, not the installed folder.
Verify_VersionOnly ==
  /\ At("starting") /\ journal # None /\ ~OldIntact
  /\ helper.version = journal.target /\ BackedUp
  /\ GoTo("verified")
  /\ UNCHANGED <<tree, disk, cache, receipt, status, task, lua>>

Verify ==
  /\ At("starting") /\ journal # None /\ ~OldIntact
  /\ NewIntact /\ BackedUp
  /\ GoTo("verified")
  /\ UNCHANGED <<tree, disk, cache, receipt, status, task, lua>>

Unresolved ==
  /\ At("starting") /\ journal # None /\ ~OldIntact
  /\ ~(NewIntact /\ BackedUp)
  /\ UNCHANGED <<tree, journal, candidate, cache, receipt, task, lua>>

\* Slips: the archive is tidied away; the error does not reach the status.
RecoveryRequired_Tidies ==
  Unresolved /\ Serve("recoveryRequired") /\ recovery' = None
RecoveryRequired_Silent ==
  Unresolved /\ Serve("ok") /\ UNCHANGED recovery

RecoveryRequired ==
  Unresolved /\ Serve("recoveryRequired") /\ UNCHANGED recovery

\* cache_artifact, first half: a different current becomes the previous.
Rotate(from, to, artifact) ==
  /\ At(from)
  /\ cache' = IF cache.current \in {None, artifact} THEN cache
              ELSE [cache EXCEPT !.previous = cache.current]
  /\ GoTo(to)
  /\ UNCHANGED <<tree, disk, receipt, status, task, lua>>

\* cache_artifact, second half: the artifact becomes the current.
Store(from, to, artifact) ==
  /\ At(from)
  /\ cache' = [cache EXCEPT !.current = artifact]
  /\ GoTo(to)
  /\ UNCHANGED <<tree, disk, receipt, status, task, lua>>

RotateForRecovery  == Rotate("verified", "recoveryRotated", journal.recovery)
StoreRecovery      == Store("recoveryRotated", "recoveryCached", journal.recovery)
\* Slip: the second cache_artifact does not rotate.
RotateForCandidate_Skipped ==
  Rotate("recoveryCached", "candidateRotated", journal.recovery)

RotateForCandidate == Rotate("recoveryCached", "candidateRotated", journal.artifact)
StoreCandidate     == Store("candidateRotated", "candidateCached", journal.artifact)

ReceiptOf(j) == [version |-> j.target, artifact |-> j.artifact,
                 previousVersion |-> j.previous, previousArtifact |-> j.recovery]

WriteReceipt ==
  /\ At("candidateCached")
  /\ receipt' = ReceiptOf(journal)
  /\ GoTo("recorded")
  /\ UNCHANGED <<tree, disk, cache, status, task, lua>>

\* clear_self_update removes the journal first, then the two archives.
ClearJournal ==
  /\ At("recorded")
  /\ journal' = None
  /\ GoTo("journalGone")
  /\ UNCHANGED <<tree, candidate, recovery, cache, receipt, status, task, lua>>

ClearCandidate ==
  /\ At("journalGone")
  /\ candidate' = None
  /\ GoTo("candidateGone")
  /\ UNCHANGED <<tree, journal, recovery, cache, receipt, status, task, lua>>

ClearRecovery ==
  /\ At("candidateGone")
  /\ recovery' = None
  /\ Serve("ok")
  /\ UNCHANGED <<tree, journal, candidate, cache, receipt, task, lua>>

\* Any step of the reconciliation can fail; the error becomes the status and
\* the helper serves all the same.
ReconcileFails ==
  /\ helper.pc \in Reconciling
  /\ Serve("recoveryRequired")
  /\ UNCHANGED <<tree, disk, cache, receipt, task, lua>>

Reconcile ==
  \/ NothingPending \/ Discard \/ Verify \/ RecoveryRequired
  \/ RotateForRecovery \/ StoreRecovery \/ RotateForCandidate \/ StoreCandidate
  \/ WriteReceipt \/ ClearJournal \/ ClearCandidate \/ ClearRecovery

PrepareStep(t) ==
  \/ BuildUpdate(t) \/ BuildRollback(t) \/ Admit(t) \/ CopyCandidate(t)
  \/ CopyRecovery(t) \/ Rehash(t) \/ Publish(t) \/ AnswerUnheard(t)
  \/ PrepareFails(t) \/ CopyRecoveryFails(t) \/ RehashFails(t) \/ PublishFails(t)
  \/ UndoCandidate(t) \/ UndoRecovery(t)

LuaStep(i) ==
  /\ ~Launching(i)
  /\ \/ \E t \in Task : RequestPrepare(i, t) \/ ReceiveReady(i, t)
     \/ ShutdownDone(i) \/ Cancel(i) \/ DialogClosed(i) \/ DelayElapsed(i) \/ PromptEnds(i)
     \/ PromptAccepted(i) \/ Extracted(i) \/ StartHelper(i)

Next ==
  \/ Reconcile \/ ReconcileFails \/ HelperDies \/ ReinstallByHand
  \/ \E t \in Task : PrepareStep(t)
  \/ \E i \in Instance : LuaStep(i)

Spec == Init /\ [][Next]_vars

\* The helper's startup code runs on until it serves or dies.
FairSpec == Spec /\ WF_vars(Reconcile)

-----------------------------------------------------------------------------
(* Properties.                                                             *)

\* The helper's transaction implements the abstract one: crashes, failures
\* and replays of clear_self_update and of the cache rotation never close a
\* transaction early, never write a receipt for a manager that is not the one
\* installed, and never open a transaction over an open one.
OpenTransaction ==
  IF journal = None THEN None
  ELSE [target |-> journal.target, previous |-> journal.previous]
RecordedTransaction ==
  IF receipt = None THEN None
  ELSE [target |-> receipt.version, previous |-> receipt.previousVersion]

Transaction == INSTANCE ManagerTransaction WITH
  installed <- tree, open <- OpenTransaction, recorded <- RecordedTransaction

ImplementsTransaction == Transaction!Spec

\* From the moment Lua starts to stop the helper until Aseprite has finished
\* replacing the folder, the journal is there, both archives are the ones it
\* names, and the archive being read is the journal's candidate.
InstallerGuarded ==
  \A i \in Instance :
    lua[i].pc \in {"stopping", "delay", "prompt", "extracting"} =>
      /\ journal # None /\ BackedUp
      /\ lua[i].pc = "extracting" => lua[i].reading = journal.artifact

\* As long as a journal is pending, the recovery archive it names is never
\* overwritten, and taken away only by the preparation that failed to make
\* that journal durable: then no installer has been opened, nor will be.
RecoveryKept ==
  [][journal # None /\ journal' # None /\ recovery = journal.recovery /\ recovery' # recovery
       => /\ \E t \in Task : UndoRecovery(t) /\ JournalOf(t) = journal
          /\ \A i \in Instance : lua[i].pc \in {"idle", "preparing"}]_vars

\* A receipt is written only when the cache holds exactly the two artifacts
\* it records, also when earlier attempts died between the rotations.
ReceiptMatchesCache ==
  [][receipt' # receipt =>
       cache' = [current |-> receipt'.artifact,
                 previous |-> receipt'.previousArtifact]]_vars

\* What a journal says was read back from the two files before it appeared.
PublishedAsRehashed ==
  [][journal = None /\ journal' # None =>
       candidate = journal'.artifact /\ recovery = journal'.recovery]_vars

\* The manager's folder is replaced by the manager's own operation only under
\* a pending journal, so that the next helper knows there is something to
\* verify and what to fall back to.
ReplacementJournaled ==
  [][\A i \in Instance : Extracted(i) => journal # None]_vars

\* What Lua hands to Aseprite's installer is the candidate: the file is still
\* there when the prompt opens.
CandidateHandedOver ==
  \A i \in Instance : lua[i].pc = "prompt" => candidate # None

\* With no transaction under way the cache holds the artifact the receipt
\* records and the one a rollback would return to.
RecordedArtifactsCached ==
  helper.pc = "serving" /\ journal = None /\ receipt # None =>
    cache = [current |-> receipt.artifact, previous |-> receipt.previousArtifact]

\* Helpers are started again and again, and from some point on no start is
\* cut short and none fails.
StartsSettle ==
  /\ []<>(helper.pc = "starting")
  /\ <>[][helper.pc \in Reconciling /\ helper'.pc \notin Reconciling
            => Reconcile]_vars

\* Then a pending journal is always either resolved or reported: it never
\* lingers behind a status that says all is well.
JournalSettles ==
  StartsSettle => []<>(journal = None \/ status = "recoveryRequired")

\* And where the old manager stays as it was, a preparation that failed or was
\* given up never blocks the later ones for good, whatever it has left of its
\* archives: the journal goes.
JournalClears ==
  StartsSettle
    /\ <>[](journal # None => tree = [version |-> journal.previous, intact |-> TRUE])
  => []<>(journal = None)

=============================================================================
