--------------------------- MODULE InstallRecord ---------------------------
(***************************************************************************)
(* How an installation becomes a record: the receipt of one package and    *)
(* the two artifacts kept for a rollback.                                  *)
(*                                                                         *)
(* A package is prepared, handed to Aseprite's installer, and verified:    *)
(* the installed folder is looked up and compared with the artifact, the   *)
(* cache is rotated (current to previous, the artifact to current) and the *)
(* receipt is written.  The window (Lua and its helper, which holds the    *)
(* profile lock as long as it runs) and the command line tool (which takes *)
(* the lock to prepare, drops it while the prompt is open and takes it     *)
(* again to verify) do this on the same profile.  The window can also      *)
(* restore the cached artifact.  Both processes may die at any step.       *)
(*                                                                         *)
(* Lua may cancel an operation; the helper does not hear of that, and its  *)
(* handler goes on beside what Lua begins next.  More than one element in  *)
(* LuaOp lets such operations overlap.                                     *)
(***************************************************************************)
EXTENDS Naturals

CONSTANTS
  Artifact,   \* packages, told apart by their bytes
  Version,
  VersionOf,  \* the version in an artifact's manifest
  LuaOp,      \* operations of the window
  CliOp,      \* runs of the command line tool
  None

Op == LuaOp \cup CliOp

\* An artifact also stands for the source it came from, None for a source
\* that is not known.
Receipt == [artifact : Artifact, source : Artifact \cup {None},
            previous : Artifact \cup {None}, previousSource : Artifact \cup {None}]

\* The installed folder: the version in its manifest, and the artifact whose
\* files it holds, None if they are those of no single artifact.
Folder == [version : Version, content : Artifact \cup {None}]

ASSUME VersionAssumption == VersionOf \in [Artifact -> Version]
ASSUME OpAssumption == LuaOp \cap CliOp = {} /\ "helper" \notin Op
ASSUME NoneAssumption ==
  None \notin Artifact /\ None \notin Receipt /\ None \notin Folder /\ None \notin Op
  /\ None # "helper"

VARIABLES
  installed,  \* the package's folder under extensions/
  receipt,    \* receipts/<package>.json
  cache,      \* cache/<package>/current and previous
  lock,       \* manager.lock: "helper" or a run of the command line tool
  active,     \* Lua's activeOperation
  op,         \* where each operation is
  torn        \* history: a verification ended between cache and receipt,
              \* "now" until the next receipt is written or removed

vars == <<installed, receipt, cache, lock, active, op, torn>>

\* What verify_and_record has done; "verify" is the request for it.
Verifying == {"found", "compared", "read", "rotated", "stored"}
Idle == [pc |-> "idle", artifact |-> None, source |-> None, restore |-> FALSE, prior |-> None]
OpState ==
  {Idle} \cup
  [pc : {"prompt", "verify", "found", "compared"}, artifact : Artifact,
   source : Artifact \cup {None}, restore : BOOLEAN, prior : {None}]
  \cup
  [pc : {"read", "rotated", "stored"}, artifact : Artifact,
   source : Artifact \cup {None}, restore : BOOLEAN, prior : Receipt \cup {None}]

TypeOK ==
  /\ installed \in Folder \cup {None}
  /\ receipt \in Receipt \cup {None}
  /\ cache \in [current : Artifact \cup {None}, previous : Artifact \cup {None}]
  /\ lock \in {"helper", None} \cup CliOp
  /\ active \in LuaOp \cup {None}
  /\ op \in [Op -> OpState]
  /\ torn \in {"never", "now", "once"}

Init ==
  /\ installed = None /\ receipt = None
  /\ cache = [current |-> None, previous |-> None]
  /\ lock = None /\ active = None
  /\ op = [o \in Op |-> Idle]
  /\ torn = "never"

At(o, pc) == op[o].pc = pc

-----------------------------------------------------------------------------
(* Processes.                                                              *)

HelperStarts ==
  /\ lock = None
  /\ lock' = "helper"
  /\ UNCHANGED <<installed, receipt, cache, active, op, torn>>

\* Idle, or Lua has left: no request is at work.
HelperEnds ==
  /\ lock = "helper"
  /\ \A o \in LuaOp : op[o].pc \notin Verifying
  /\ lock' = None
  /\ UNCHANGED <<installed, receipt, cache, active, op, torn>>

\* What a verification of o that is cut short leaves behind.
TornBy(o) == IF op[o].pc \in {"rotated", "stored"} THEN "now" ELSE torn

\* The helper dies; Lua's pending request fails and its operation is over.
\* An operation that waits for the installer does not notice.
HelperDies ==
  /\ lock = "helper"
  /\ lock' = None
  /\ op' = [o \in Op |-> IF o \in LuaOp /\ op[o].pc \in Verifying THEN Idle ELSE op[o]]
  /\ active' = IF active # None /\ op[active].pc \in Verifying THEN None ELSE active
  /\ torn' = IF \E o \in LuaOp : op[o].pc \in {"rotated", "stored"} THEN "now" ELSE torn
  /\ UNCHANGED <<installed, receipt, cache>>

\* The command line tool is interrupted, or gives up on a busy profile.
CliDies(o) ==
  /\ o \in CliOp /\ op[o] # Idle
  /\ lock' = IF lock = o THEN None ELSE lock
  /\ op' = [op EXCEPT ![o] = Idle]
  /\ torn' = TornBy(o)
  /\ UNCHANGED <<installed, receipt, cache, active>>

-----------------------------------------------------------------------------
(* Preparing.                                                              *)

\* Lua has one operation at a time; the tool prepares under the lock and
\* drops it.
MayBegin(o) ==
  /\ op[o] = Idle
  /\ IF o \in LuaOp THEN active = None /\ lock = "helper" ELSE lock = None

Begin(o, artifact, source, restore) ==
  /\ op' = [op EXCEPT ![o] = [pc |-> "prompt", artifact |-> artifact, source |-> source,
                              restore |-> restore, prior |-> None]]
  /\ active' = IF o \in LuaOp THEN o ELSE active
  /\ UNCHANGED <<installed, receipt, cache, lock, torn>>

\* Resolved, downloaded, validated and staged.
Prepare(o, artifact) == MayBegin(o) /\ Begin(o, artifact, artifact, FALSE)

\* prepareRollback takes the previous artifact when the installed version is
\* the receipt's, else the current one; it must be what the receipt says, if
\* there is a receipt and if that says anything.
MatchesReceipt == receipt # None /\ installed # None
                  /\ VersionOf[receipt.artifact] = installed.version
Restorable == IF MatchesReceipt THEN cache.previous ELSE cache.current
Recorded   == IF receipt = None THEN None
              ELSE IF MatchesReceipt THEN receipt.previous ELSE receipt.artifact
RestoreSource == IF receipt = None THEN None
                 ELSE IF MatchesReceipt THEN receipt.previousSource ELSE receipt.source

MayRestore(o) ==
  /\ o \in LuaOp /\ MayBegin(o)
  /\ Restorable # None
  /\ Recorded \in {None, Restorable}

\* Slip: the source of the installed version is passed for the restored one.
PrepareRollback_OwnSource(o) ==
  /\ MayRestore(o)
  /\ Begin(o, Restorable, IF receipt = None THEN None ELSE receipt.source, TRUE)

PrepareRollback(o) == MayRestore(o) /\ Begin(o, Restorable, RestoreSource, TRUE)

\* The user cancels: Lua's operation is over, the helper's work is not.  The
\* request to verify may have been sent or not.
Cancel ==
  /\ active # None
  /\ active' = None
  /\ \/ op[active].pc # "prompt" /\ UNCHANGED op
     \/ op[active].pc \notin Verifying /\ op' = [op EXCEPT ![active] = Idle]
  /\ UNCHANGED <<installed, receipt, cache, lock, torn>>

-----------------------------------------------------------------------------
(* Aseprite, and the user by hand.                                         *)

\* The installer replaces the folder file by file, and may stop halfway, with
\* the manifest of either version.
PromptAccepted(o) ==
  /\ At(o, "prompt")
  /\ LET new == VersionOf[op[o].artifact]
         old == IF installed = None THEN {} ELSE {installed.version} IN
     installed' \in {[version |-> new, content |-> op[o].artifact]}
                    \cup [version : {new} \cup old, content : {None}]
  /\ op' = [op EXCEPT ![o].pc = "verify"]
  /\ UNCHANGED <<receipt, cache, lock, active, torn>>

\* Refused; Aseprite does not always say so.
PromptRefused(o) ==
  /\ At(o, "prompt")
  /\ \/ /\ op' = [op EXCEPT ![o].pc = "verify"]
        /\ UNCHANGED active
     \/ /\ o \in LuaOp
        /\ op' = [op EXCEPT ![o] = Idle]
        /\ active' = None
  /\ UNCHANGED <<installed, receipt, cache, lock, torn>>

InstallByHand(artifact) ==
  /\ installed' = [version |-> VersionOf[artifact], content |-> artifact]
  /\ UNCHANGED <<receipt, cache, lock, active, op, torn>>

\* uninstallPackage (module Uninstall): the folder and the receipt go, the
\* cached artifacts stay.
Uninstall ==
  /\ lock = "helper" /\ active = None /\ installed # None
  /\ installed' = None
  /\ receipt' = None
  /\ torn' = IF torn = "now" THEN "once" ELSE torn
  /\ UNCHANGED <<cache, lock, active, op>>

-----------------------------------------------------------------------------
(* verify_and_record.                                                      *)

\* The end of an operation: Lua's is over, the tool drops the lock.
End(o) ==
  /\ op' = [op EXCEPT ![o] = Idle]
  /\ active' = IF active = o THEN None ELSE active
  /\ lock' = IF lock = o THEN None ELSE lock

GoTo(o, pc) ==
  /\ op' = [op EXCEPT ![o].pc = pc]
  /\ UNCHANGED <<lock, active>>

\* Slip: the tool verifies without taking the lock again.
Find_Unlocked(o) ==
  /\ At(o, "verify") /\ (o \in LuaOp => lock = "helper")
  /\ installed # None /\ installed.version = VersionOf[op[o].artifact]
  /\ GoTo(o, "found")
  /\ UNCHANGED <<installed, receipt, cache, torn>>

\* The folder is there, in the expected version.
Find(o) ==
  /\ At(o, "verify")
  /\ IF o \in LuaOp THEN lock = "helper" /\ lock' = lock ELSE lock = None /\ lock' = o
  /\ installed # None /\ installed.version = VersionOf[op[o].artifact]
  /\ op' = [op EXCEPT ![o].pc = "found"]
  /\ UNCHANGED <<installed, receipt, cache, active, torn>>

\* It is not, or a helper cannot be started: nothing has been changed.
FindNothing(o) ==
  /\ At(o, "verify")
  /\ End(o)
  /\ UNCHANGED <<installed, receipt, cache, torn>>

\* Every file of the artifact is there with the same bytes.
Compare(o) ==
  /\ At(o, "found")
  /\ installed # None /\ installed.content = op[o].artifact
  /\ GoTo(o, "compared")
  /\ UNCHANGED <<installed, receipt, cache, torn>>

ReadPrior(o) ==
  /\ At(o, "compared")
  /\ op' = [op EXCEPT ![o].pc = "read", ![o].prior = receipt]
  /\ UNCHANGED <<installed, receipt, cache, lock, active, torn>>

\* cache_artifact: the current artifact becomes the previous one.
Rotate(o) ==
  /\ At(o, "read")
  /\ cache' = IF cache.current \in {None, op[o].artifact} THEN cache
              ELSE [cache EXCEPT !.previous = cache.current]
  /\ GoTo(o, "rotated")
  /\ UNCHANGED <<installed, receipt, torn>>

Store(o) ==
  /\ At(o, "rotated")
  /\ cache' = [cache EXCEPT !.current = op[o].artifact]
  /\ GoTo(o, "stored")
  /\ UNCHANGED <<installed, receipt, torn>>

\* previous_identity: what the receipt says of the previous artifact.
ReceiptOf(o) ==
  LET prior == op[o].prior
      old == IF cache.previous = None \/ prior = None THEN [artifact |-> None, source |-> None]
             ELSE IF prior.artifact = op[o].artifact
             THEN [artifact |-> prior.previous, source |-> prior.previousSource]
             ELSE [artifact |-> prior.artifact, source |-> prior.source]
  IN [artifact |-> op[o].artifact, source |-> op[o].source,
      previous |-> old.artifact, previousSource |-> old.source]

WriteReceipt(o) ==
  /\ At(o, "stored")
  /\ receipt' = ReceiptOf(o)
  /\ torn' = IF torn = "now" THEN "once" ELSE torn
  /\ End(o)
  /\ UNCHANGED <<installed, cache>>

\* Slip: the operation is over for Lua, and its state is kept.
VerifyFails_Kept(o) ==
  /\ op[o].pc \in Verifying
  /\ op' = [op EXCEPT ![o].pc = "idle"]
  /\ active' = IF active = o THEN None ELSE active
  /\ lock' = IF lock = o THEN None ELSE lock
  /\ torn' = TornBy(o)
  /\ UNCHANGED <<installed, receipt, cache>>

\* The comparison fails, or any step reports an error.  Lua may go on with an
\* immediate restore, which is an operation of its own.
VerifyFails(o) ==
  /\ op[o].pc \in Verifying
  /\ End(o)
  /\ torn' = TornBy(o)
  /\ UNCHANGED <<installed, receipt, cache>>

Verify(o) ==
  \/ Find(o) \/ FindNothing(o) \/ Compare(o) \/ ReadPrior(o) \/ Rotate(o) \/ Store(o)
  \/ WriteReceipt(o) \/ VerifyFails(o)

Next ==
  \/ HelperStarts \/ HelperEnds \/ HelperDies \/ Cancel \/ Uninstall
  \/ \E artifact \in Artifact : InstallByHand(artifact)
  \/ \E o \in Op :
       \/ CliDies(o) \/ PrepareRollback(o) \/ PromptAccepted(o) \/ PromptRefused(o) \/ Verify(o)
       \/ \E artifact \in Artifact : Prepare(o, artifact)

Spec == Init /\ [][Next]_vars

-----------------------------------------------------------------------------
(* Properties.                                                             *)

AtRest == \A o \in Op : op[o].pc \notin {"rotated", "stored"}

\* Whenever no verification is changing the cache, the package a restore would
\* fall back to is the one the receipt records, and an earlier one is kept
\* beside it, not a copy.  After a verification that was cut short this holds
\* again from the next receipt on, except that the earlier package may no
\* longer be the one the receipt records.
RestoreReady ==
  AtRest /\ torn # "now" /\ receipt # None =>
    /\ cache.current = receipt.artifact
    /\ torn = "never" =>
         cache.previous # cache.current /\ receipt.previous \in {None, cache.previous}

\* A receipt never claims a source its artifact did not come from, whatever
\* was installed, restored, cancelled and installed again in between.
SourceTruthful ==
  receipt # None =>
    /\ receipt.source \in {None, receipt.artifact}
    /\ receipt.previousSource \in {None, receipt.previous}

\* A restore hands the installer only what the receipt, if there is one,
\* records.
RollbackRecorded ==
  [][\A o \in LuaOp : PrepareRollback(o) /\ receipt # None =>
       Restorable \in {receipt.artifact, receipt.previous}]_vars

=============================================================================
