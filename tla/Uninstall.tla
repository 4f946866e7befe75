----------------------------- MODULE Uninstall -----------------------------
(***************************************************************************)
(* Uninstalling one package: the folder is moved to quarantine storage and *)
(* its receipt is archived there and removed.                              *)
(*                                                                         *)
(* The helper has no way to make this one atomic step.  It prepares a      *)
(* quarantine directory with a record and a copy of the receipt, renames   *)
(* the folder into it, syncs the three directories concerned, rewrites the *)
(* record and, if the move is known to be durable, removes the receipt.    *)
(* The process may die anywhere; the power may fail, and then a rename or  *)
(* a removal that was not synced may turn out not to have happened.  The   *)
(* next helper to start finishes the receipt cleanup of every record.      *)
(*                                                                         *)
(* The user may install the package again at any time, over the folder or  *)
(* beside it; verifyInstall then writes a new receipt.  Receipts differ in *)
(* their bytes (the time of installation): stamp tells them apart.         *)
(***************************************************************************)
EXTENDS Naturals, FiniteSets

CONSTANTS
  Path,      \* direct children of extensions/ that can hold the package
  Version,
  Id,        \* identities of installed folders
  Slot,      \* quarantine directories
  MaxStamp,  \* bound: receipts written
  Overlap,   \* may verifyInstall, cancelled in Lua, run beside an uninstall?
  None

ASSUME BoundAssumption == MaxStamp \in Nat /\ Overlap \in BOOLEAN

Folder  == [id : Id, version : Version]
Receipt == [version : Version, stamp : 1..MaxStamp]

ASSUME NoneAssumption ==
  None \notin Folder /\ None \notin Receipt /\ None \notin Path
  /\ None \notin Version /\ None \notin Slot

VARIABLES
  installed,  \* per path: the folder that lies there
  receipt,    \* receipts/<package>.json
  slot,       \* uninstalled/extension-*: record, archived receipt, folder
  helper,     \* "down", "starting" (reconciling), "serving"
  todo,       \* starting: quarantine directories still to be looked at
  work,       \* the uninstallPackage handler
  verify,     \* the verifyInstall handler: the version it found installed
  stamp,      \* stamp of the next receipt
  undo,       \* a removed receipt whose removal is not synced
  owed,       \* history: folders nobody has deleted or replaced
  cleaned,    \* history: quarantine directories whose uninstall removed the receipt
  failed      \* history: a file operation of this start has failed

vars == <<installed, receipt, slot, helper, todo, work, verify, stamp, undo, owed, cleaned, failed>>

\* path and version are what uninstall.json says; moved folders are durable
\* once the directories are synced.
SlotState ==
  [phase : {"absent", "made", "prepared", "committed"},
   path : Path \cup {None}, version : Version \cup {None},
   archived : Receipt \cup {None}, extension : Folder \cup {None},
   durable : BOOLEAN]
NoSlot == [phase |-> "absent", path |-> None, version |-> None,
           archived |-> None, extension |-> None, durable |-> FALSE]

WorkPC == {"made", "prepared", "archived", "moved", "synced", "recorded",
           "matched", "removed"}
WorkState ==
  [pc : {"checked"}, path : Path, version : Version, archive : BOOLEAN, slot : {None}]
  \cup [pc : WorkPC, path : Path, version : Version, archive : BOOLEAN, slot : Slot]
  \cup {None}

TypeOK ==
  /\ installed \in [Path -> Folder \cup {None}]
  /\ receipt \in Receipt \cup {None}
  /\ slot \in [Slot -> SlotState]
  /\ helper \in {"down", "starting", "serving"}
  /\ todo \subseteq Slot
  /\ work \in WorkState
  /\ verify \in Version \cup {None}
  /\ stamp \in 1..(MaxStamp + 1)
  /\ undo \in Receipt \cup {None}
  /\ owed \subseteq Id
  /\ cleaned \subseteq Slot
  /\ failed \in BOOLEAN

Init ==
  /\ installed = [p \in Path |-> None]
  /\ receipt = None /\ undo = None /\ stamp = 1
  /\ slot = [s \in Slot |-> NoSlot]
  /\ helper = "down" /\ todo = {}
  /\ work = None /\ verify = None
  /\ owed = {} /\ cleaned = {} /\ failed = FALSE

Present == {p \in Path : installed[p] # None}

-----------------------------------------------------------------------------
(* The user and verifyInstall.                                             *)

\* The user installs a version; a folder already at that path is replaced.
Install(p) ==
  \E id \in Id \ owed, v \in Version :
    /\ installed' = [installed EXCEPT ![p] = [id |-> id, version |-> v]]
    /\ owed' = (owed \cup {id}) \ (IF installed[p] = None THEN {} ELSE {installed[p].id})
    /\ UNCHANGED <<receipt, slot, helper, todo, work, verify, stamp, undo, cleaned, failed>>

\* verifyInstall finds exactly one installed package of the name.  Lua has
\* one operation at a time, but a cancelled one goes on in the helper.
VerifyInstall(p) ==
  /\ helper = "serving" /\ verify = None
  /\ work = None \/ Overlap
  /\ Present = {p}
  /\ verify' = installed[p].version
  /\ UNCHANGED <<installed, receipt, slot, helper, todo, work, stamp, undo, owed, cleaned, failed>>

\* It writes the receipt, atomically and durably.
WriteReceipt ==
  /\ verify # None /\ stamp <= MaxStamp
  /\ receipt' = [version |-> verify, stamp |-> stamp]
  /\ stamp' = stamp + 1
  /\ undo' = None
  /\ verify' = None
  /\ UNCHANGED <<installed, slot, helper, todo, work, owed, cleaned, failed>>

\* The content differs from the prepared package, or a file operation fails.
VerifyFails ==
  /\ verify # None
  /\ verify' = None
  /\ UNCHANGED <<installed, receipt, slot, helper, todo, work, stamp, undo, owed, cleaned, failed>>

-----------------------------------------------------------------------------
(* The uninstallPackage handler.                                           *)

\* The path, name and version of the request are checked against the folder.
\* The receipt is concerned only if it is that of the only such package.
Uninstall(p) ==
  /\ helper = "serving" /\ work = None
  /\ verify = None \/ Overlap
  /\ installed[p] # None
  /\ work' = [pc |-> "checked", path |-> p, version |-> installed[p].version,
              archive |-> /\ Present = {p}
                          /\ receipt # None
                          /\ receipt.version = installed[p].version,
              slot |-> None]
  /\ UNCHANGED <<installed, receipt, slot, helper, todo, verify, stamp, undo, owed, cleaned, failed>>

WorkAt(pc) == work # None /\ work.pc = pc

\* Slip: the new directory's name is not kept.
MakeSlot_Forgotten ==
  /\ WorkAt("checked")
  /\ \E s \in Slot :
       /\ slot[s].phase = "absent"
       /\ slot' = [slot EXCEPT ![s] = [NoSlot EXCEPT !.phase = "made"]]
  /\ work' = [work EXCEPT !.pc = "made"]
  /\ UNCHANGED <<installed, receipt, helper, todo, verify, stamp, undo, owed, cleaned, failed>>

MakeSlot ==
  /\ WorkAt("checked")
  /\ \E s \in Slot :
       /\ slot[s].phase = "absent"
       /\ slot' = [slot EXCEPT ![s] = [NoSlot EXCEPT !.phase = "made"]]
       /\ work' = [work EXCEPT !.pc = "made", !.slot = s]
  /\ UNCHANGED <<installed, receipt, helper, todo, verify, stamp, undo, owed, cleaned, failed>>

WriteRecord ==
  /\ WorkAt("made")
  /\ slot' = [slot EXCEPT ![work.slot].phase = "prepared",
                          ![work.slot].path = work.path,
                          ![work.slot].version = work.version]
  /\ work' = [work EXCEPT !.pc = "prepared"]
  /\ UNCHANGED <<installed, receipt, helper, todo, verify, stamp, undo, owed, cleaned, failed>>

\* The copy is read back and compared with the active receipt; a receipt
\* that has changed makes the request fail.
ArchiveReceipt ==
  /\ WorkAt("prepared")
  /\ work.archive => receipt # None /\ receipt.version = work.version
  /\ slot' = IF work.archive THEN [slot EXCEPT ![work.slot].archived = receipt] ELSE slot
  /\ work' = [work EXCEPT !.pc = "archived"]
  /\ UNCHANGED <<installed, receipt, helper, todo, verify, stamp, undo, owed, cleaned, failed>>

\* Slip: the temporary directory is given up (keep) only at the very end, so
\* that an error after the move removes the moved folder with it.
UninstallFails_Late ==
  /\ work # None /\ work.pc \in WorkPC \cup {"checked"}
  /\ slot' = [s \in Slot |-> IF s = work.slot THEN NoSlot ELSE slot[s]]
  /\ work' = None
  /\ UNCHANGED <<installed, receipt, helper, todo, verify, stamp, undo, owed, cleaned, failed>>

\* An error up to the move: the temporary directory is removed again.
UninstallFails ==
  /\ work # None /\ work.pc \in {"checked", "made", "prepared", "archived"}
  /\ slot' = [s \in Slot |-> IF s = work.slot THEN NoSlot ELSE slot[s]]
  /\ work' = None
  /\ UNCHANGED <<installed, receipt, helper, todo, verify, stamp, undo, owed, cleaned, failed>>

\* The rename takes whatever folder lies at the path by now.
MoveFolder ==
  /\ WorkAt("archived") /\ installed[work.path] # None
  /\ installed' = [installed EXCEPT ![work.path] = None]
  /\ slot' = [slot EXCEPT ![work.slot].extension = installed[work.path]]
  /\ work' = [work EXCEPT !.pc = "moved"]
  /\ UNCHANGED <<receipt, helper, todo, verify, stamp, undo, owed, cleaned, failed>>

\* The three directories are synced; any of the syncs may fail.
SyncMove ==
  /\ WorkAt("moved")
  /\ \E ok \in BOOLEAN : slot' = [slot EXCEPT ![work.slot].durable = ok]
  /\ work' = [work EXCEPT !.pc = "synced"]
  /\ UNCHANGED <<installed, receipt, helper, todo, verify, stamp, undo, owed, cleaned, failed>>

\* The record is rewritten as committed; failing that, it stays as it is.
CommitRecord ==
  /\ WorkAt("synced")
  /\ \E phase \in {"prepared", "committed"} :
       slot' = [slot EXCEPT ![work.slot].phase = phase]
  /\ work' = [work EXCEPT !.pc = "recorded"]
  /\ UNCHANGED <<installed, receipt, helper, todo, verify, stamp, undo, owed, cleaned, failed>>

\* The active receipt is the archived one, byte for byte.
Matches(s) ==
  /\ receipt # None
  /\ slot[s].archived = receipt
  /\ receipt.version = slot[s].version

\* Slip: the receipt is removed whether or not the move is durable.
MatchReceipt_Anyway ==
  /\ WorkAt("recorded") /\ work.archive
  /\ Matches(work.slot)
  /\ work' = [work EXCEPT !.pc = "matched"]
  /\ UNCHANGED <<installed, receipt, slot, helper, todo, verify, stamp, undo, owed, cleaned, failed>>

MatchReceipt ==
  /\ WorkAt("recorded") /\ work.archive /\ slot[work.slot].durable
  /\ Matches(work.slot)
  /\ work' = [work EXCEPT !.pc = "matched"]
  /\ UNCHANGED <<installed, receipt, slot, helper, todo, verify, stamp, undo, owed, cleaned, failed>>

\* Nothing to remove; or the cleanup is left to the next start, for want of a
\* durable move or because a file operation fails.
LeaveReceipt ==
  /\ WorkAt("recorded") \/ WorkAt("matched")
  /\ work' = None
  /\ UNCHANGED <<installed, receipt, slot, helper, todo, verify, stamp, undo, owed, cleaned, failed>>

RemoveReceipt ==
  /\ WorkAt("matched")
  /\ receipt' = None
  /\ undo' = receipt
  /\ work' = [work EXCEPT !.pc = "removed"]
  /\ cleaned' = cleaned \cup {work.slot}
  /\ UNCHANGED <<installed, slot, helper, todo, verify, stamp, owed, failed>>

SyncRemoval ==
  /\ WorkAt("removed")
  /\ undo' \in {None, undo}
  /\ work' = None
  /\ UNCHANGED <<installed, receipt, slot, helper, todo, verify, stamp, owed, cleaned, failed>>

-----------------------------------------------------------------------------
(* Crash, power loss, start.                                               *)

HandlersEnd ==
  /\ helper' = "down" /\ todo' = {}
  /\ work' = None /\ verify' = None /\ failed' = FALSE

Crash ==
  /\ helper # "down"
  /\ HandlersEnd
  /\ UNCHANGED <<installed, receipt, slot, stamp, undo, owed, cleaned>>

\* Renames that were not synced and can be undone: nothing lies in the old
\* place.
Undoable == {s \in Slot : /\ slot[s].extension # None /\ ~slot[s].durable
                          /\ installed[slot[s].path] = None}

PowerLoss ==
  /\ HandlersEnd
  /\ \E back \in SUBSET Undoable :
       /\ \A s, t \in back : slot[s].path = slot[t].path => s = t
       /\ installed' = [p \in Path |->
            IF \E s \in back : slot[s].path = p
            THEN slot[CHOOSE s \in back : slot[s].path = p].extension
            ELSE installed[p]]
       /\ slot' = [s \in Slot |->
            IF s \in back THEN [slot[s] EXCEPT !.extension = None]
            ELSE [slot[s] EXCEPT !.durable = (slot[s].extension # None)]]
  /\ receipt' \in {receipt} \cup (IF receipt = None THEN {undo} ELSE {})
  /\ undo' = None
  /\ UNCHANGED <<stamp, owed, cleaned>>

Start ==
  /\ helper = "down"
  /\ helper' = "starting"
  /\ todo' = {s \in Slot : slot[s].phase # "absent"}
  /\ UNCHANGED <<installed, receipt, slot, work, verify, stamp, undo, owed, cleaned, failed>>

\* A record that can be read, whose folder is in quarantine and no longer in
\* its old place: its receipt is to go, if it is still the archived one.
Sweepable(s) ==
  /\ slot[s].phase \in {"prepared", "committed"}
  /\ slot[s].extension # None
  /\ installed[slot[s].path] = None

\* Its removal may not be synced, unnoticed.
Sweep(s, sweepable) ==
  /\ helper = "starting" /\ s \in todo
  /\ todo' = todo \ {s}
  /\ IF sweepable
     THEN receipt' = None /\ undo' \in {None, receipt}
     ELSE UNCHANGED <<receipt, undo>>
  /\ UNCHANGED <<installed, slot, helper, work, verify, stamp, owed, cleaned, failed>>

\* Slips: only committed records are looked at; the receipt's bytes are not
\* compared.
ReconcileSlot_Committed(s) ==
  Sweep(s, Sweepable(s) /\ Matches(s) /\ slot[s].phase = "committed")
ReconcileSlot_ByVersion(s) ==
  Sweep(s, Sweepable(s) /\ receipt # None /\ receipt.version = slot[s].version)

ReconcileSlot(s) == Sweep(s, Sweepable(s) /\ Matches(s))

Serve ==
  /\ helper = "starting" /\ todo = {}
  /\ helper' = "serving" /\ failed' = FALSE
  /\ UNCHANGED <<installed, receipt, slot, todo, work, verify, stamp, undo, owed, cleaned>>

\* A file operation fails; the start goes on to the next record.
SweepFails(s) ==
  /\ helper = "starting" /\ s \in todo
  /\ todo' = todo \ {s}
  /\ failed' = TRUE
  /\ UNCHANGED <<installed, receipt, slot, helper, work, verify, stamp, undo, owed, cleaned>>

Starting == Serve \/ \E s \in Slot : ReconcileSlot(s)

Handler ==
  \/ MakeSlot \/ WriteRecord \/ ArchiveReceipt \/ UninstallFails \/ MoveFolder
  \/ SyncMove \/ CommitRecord \/ MatchReceipt \/ LeaveReceipt \/ RemoveReceipt
  \/ SyncRemoval

Next ==
  \/ \E p \in Path : Install(p) \/ VerifyInstall(p) \/ Uninstall(p)
  \/ WriteReceipt \/ VerifyFails \/ Handler
  \/ Crash \/ PowerLoss \/ Start \/ Starting
  \/ \E s \in Slot : SweepFails(s)

Spec == Init /\ [][Next]_vars

\* A start that is not cut short runs to its end.
FairSpec == Spec /\ WF_vars(Starting)

-----------------------------------------------------------------------------
(* Properties.                                                             *)

\* No extension files are deleted: a folder the user has not replaced is at
\* some path or in some quarantine directory, whatever failed in between.
NothingLost ==
  owed \subseteq {installed[p].id : p \in Present}
           \cup {slot[s].extension.id : s \in {t \in Slot : slot[t].extension # None}}

\* A receipt is removed only if a quarantine directory that holds a folder
\* has an identical copy of it.
RemovedReceiptArchived ==
  [][receipt # None /\ receipt' = None =>
       \E s \in Slot : slot[s].archived = receipt /\ slot[s].extension # None]_vars

\* An uninstall that has removed the receipt is final: no power loss afterwards
\* puts its folder back, unmanaged.
RemovalIsFinal ==
  [][\A s \in cleaned : slot[s].extension # None => slot'[s].extension # None]_vars

\* A receipt that an interrupted uninstall left behind.
Leftover(s) == Sweepable(s) /\ Matches(s)

\* If helpers are started again and again and from some point on no start is
\* cut short or meets a failing file operation, an interrupted cleanup is
\* always completed in the end.
CleanupSettles ==
  /\ []<>(helper = "starting")
  /\ <>[]~failed
  /\ <>[][helper = "starting" => helper' # "down"]_vars
  => []<>(\A s \in Slot : ~Leftover(s))

\* "A receipt is written only when the expected package name and version are
\* present" (docs/architecture.md).  With Overlap it is not so: between the
\* scan of verifyInstall and its receipt the folder may be moved away.
RecordedWhileInstalled == [][stamp' # stamp => Present # {}]_vars

=============================================================================
