-------------------------- MODULE Uninstall_proofs --------------------------
(***************************************************************************)
(* Proofs about Uninstall: type correctness, that no folder is lost and    *)
(* that an uninstall which has removed the receipt is final, whatever runs *)
(* beside it; and, when verifyInstall and uninstallPackage exclude each    *)
(* other, that a removed receipt is archived and that a receipt is only    *)
(* written for a package that is installed.                                *)
(***************************************************************************)
EXTENDS Uninstall, TLAPS

\* Lua's one operation at a time, none of them cancelled.
Exclusive == Overlap = FALSE

-----------------------------------------------------------------------------
(* Type correctness.                                                       *)

LEMMA NoneIsNothing ==
  /\ \A f \in Folder : f # None
  /\ \A r \in Receipt : r # None
  /\ \A s \in Slot : s # None
  /\ \A p \in Path : p # None
BY NoneAssumption

\* What is known of the handler by the place it has reached.
LEMMA WorkCases ==
  ASSUME TypeOK, work # None
  PROVE  /\ work.pc \in WorkPC \cup {"checked"}
         /\ work.path \in Path /\ work.version \in Version /\ work.archive \in BOOLEAN
         /\ work.pc = "checked" => work.slot = None
         /\ work.pc \in WorkPC => work.slot \in Slot
         /\ work.pc \in WorkPC =>
              \A pc \in WorkPC : [work EXCEPT !.pc = pc] \in WorkState
         /\ \A s \in Slot : [work EXCEPT !.pc = "made", !.slot = s] \in WorkState
<1>1. work \in WorkState /\ work \notin {None}
  BY DEF TypeOK
<1>2. CASE work \in [pc : {"checked"}, path : Path, version : Version,
                     archive : BOOLEAN, slot : {None}]
  BY <1>2 DEF WorkState, WorkPC
<1>3. CASE work \in [pc : WorkPC, path : Path, version : Version,
                     archive : BOOLEAN, slot : Slot]
  BY <1>3 DEF WorkState, WorkPC
<1>. QED
  BY <1>1, <1>2, <1>3 DEF WorkState

\* A step of the handler writes one field of its slot.
LEMMA SlotWrites ==
  ASSUME TypeOK, NEW s \in Slot
  PROVE  /\ slot[s] \in SlotState
         /\ \A phase \in {"prepared", "committed"} :
              [slot EXCEPT ![s].phase = phase] \in [Slot -> SlotState]
         /\ \A p \in Path, v \in Version :
              [slot EXCEPT ![s].phase = "prepared", ![s].path = p, ![s].version = v]
                \in [Slot -> SlotState]
         /\ \A r \in Receipt : [slot EXCEPT ![s].archived = r] \in [Slot -> SlotState]
         /\ \A f \in Folder : [slot EXCEPT ![s].extension = f] \in [Slot -> SlotState]
         /\ \A ok \in BOOLEAN : [slot EXCEPT ![s].durable = ok] \in [Slot -> SlotState]
<1>1. slot \in [Slot -> SlotState] /\ slot[s] \in SlotState
  BY DEF TypeOK
<1>2. \A phase \in {"prepared", "committed"} : [slot[s] EXCEPT !.phase = phase] \in SlotState
  BY <1>1 DEF SlotState
<1>3. \A p \in Path, v \in Version :
        [slot[s] EXCEPT !.phase = "prepared", !.path = p, !.version = v] \in SlotState
  BY <1>1 DEF SlotState
<1>4. \A r \in Receipt : [slot[s] EXCEPT !.archived = r] \in SlotState
  BY <1>1 DEF SlotState
<1>5. \A f \in Folder : [slot[s] EXCEPT !.extension = f] \in SlotState
  BY <1>1 DEF SlotState
<1>6. \A ok \in BOOLEAN : [slot[s] EXCEPT !.durable = ok] \in SlotState
  BY <1>1 DEF SlotState
<1>7. \A p \in Path, v \in Version :
        [slot EXCEPT ![s].phase = "prepared", ![s].path = p, ![s].version = v]
          = [slot EXCEPT ![s] = [slot[s] EXCEPT !.phase = "prepared", !.path = p,
                                                !.version = v]]
  BY <1>1
<1>. QED
  BY <1>1, <1>2, <1>3, <1>4, <1>5, <1>6, <1>7

LEMMA NoSlotType ==
  NoSlot \in SlotState /\ [NoSlot EXCEPT !.phase = "made"] \in SlotState
BY DEF NoSlot, SlotState

LEMMA TypeInit == Init => TypeOK
<1>. SUFFICES ASSUME Init
              PROVE  TypeOK
  OBVIOUS
<1>1. None \in WorkState
  BY DEF WorkState
<1>2. 1 \in 1..(MaxStamp + 1)
  BY BoundAssumption
<1>3. slot \in [Slot -> SlotState]
  BY NoSlotType DEF Init
<1>. QED
  BY <1>1, <1>2, <1>3 DEF Init, TypeOK

LEMMA TypeUser ==
  ASSUME TypeOK, NEW p \in Path, Install(p) \/ VerifyInstall(p) \/ Uninstall(p)
  PROVE  TypeOK'
<1>1. CASE Install(p)
  BY <1>1 DEF Install, TypeOK, Folder
<1>2. CASE VerifyInstall(p)
  <2>1. installed[p] \in Folder
    BY <1>2, NoneIsNothing DEF VerifyInstall, Present, TypeOK
  <2>. QED
    BY <1>2, <2>1 DEF VerifyInstall, TypeOK, Folder
<1>3. CASE Uninstall(p)
  <2>1. installed[p].version \in Version
    BY <1>3 DEF Uninstall, TypeOK, Folder
  <2>. DEFINE archive == /\ Present = {p} /\ receipt # None
                         /\ receipt.version = installed[p].version
  <2>2. [pc |-> "checked", path |-> p, version |-> installed[p].version,
         archive |-> archive, slot |-> None] \in WorkState
    <3>1. archive \in BOOLEAN
      OBVIOUS
    <3>. HIDE DEF archive
    <3>. QED
      BY <2>1, <3>1 DEF WorkState
  <2>. QED
    BY <1>3, <2>2 DEF Uninstall, TypeOK
<1>. QED
  BY <1>1, <1>2, <1>3

LEMMA TypeReceipt ==
  ASSUME TypeOK, WriteReceipt \/ VerifyFails
  PROVE  TypeOK'
<1>1. CASE WriteReceipt
  BY <1>1, BoundAssumption DEF WriteReceipt, TypeOK, Receipt
<1>2. CASE VerifyFails
  BY <1>2 DEF VerifyFails, TypeOK
<1>. QED
  BY <1>1, <1>2

LEMMA TypeHandler ==
  ASSUME TypeOK, Handler
  PROVE  TypeOK'
<1>w. None \in WorkState
  BY DEF WorkState
<1>1. CASE MakeSlot
  <2>1. PICK s \in Slot :
          /\ slot[s].phase = "absent"
          /\ slot' = [slot EXCEPT ![s] = [NoSlot EXCEPT !.phase = "made"]]
          /\ work' = [work EXCEPT !.pc = "made", !.slot = s]
    BY <1>1 DEF MakeSlot
  <2>2. work' \in WorkState
    BY <1>1, <2>1, WorkCases DEF MakeSlot, WorkAt
  <2>3. slot' \in [Slot -> SlotState]
    BY <2>1, NoSlotType DEF TypeOK
  <2>. QED
    BY <1>1, <2>2, <2>3 DEF MakeSlot, TypeOK
<1>2. CASE WriteRecord
  BY <1>2, WorkCases, SlotWrites DEF WriteRecord, WorkAt, WorkPC, TypeOK
<1>3. CASE ArchiveReceipt
  BY <1>3, WorkCases, SlotWrites DEF ArchiveReceipt, WorkAt, WorkPC, TypeOK
<1>4. CASE UninstallFails
  BY <1>4, <1>w, NoSlotType DEF UninstallFails, TypeOK
<1>5. CASE MoveFolder
  BY <1>5, WorkCases, SlotWrites DEF MoveFolder, WorkAt, WorkPC, TypeOK
<1>6. CASE SyncMove
  <2>1. slot' \in [Slot -> SlotState]
    <3>1. PICK ok \in BOOLEAN : slot' = [slot EXCEPT ![work.slot].durable = ok]
      BY <1>6 DEF SyncMove
    <3>2. work.slot \in Slot
      BY <1>6, WorkCases DEF SyncMove, WorkAt, WorkPC
    <3>. QED
      BY <3>1, <3>2, SlotWrites
  <2>2. work' \in WorkState
    BY <1>6, WorkCases DEF SyncMove, WorkAt, WorkPC
  <2>. QED
    BY <1>6, <2>1, <2>2 DEF SyncMove, TypeOK
<1>7. CASE CommitRecord
  <2>1. slot' \in [Slot -> SlotState]
    <3>1. PICK phase \in {"prepared", "committed"} :
            slot' = [slot EXCEPT ![work.slot].phase = phase]
      BY <1>7 DEF CommitRecord
    <3>2. work.slot \in Slot
      BY <1>7, WorkCases DEF CommitRecord, WorkAt, WorkPC
    <3>. QED
      BY <3>1, <3>2, SlotWrites
  <2>2. work' \in WorkState
    BY <1>7, WorkCases DEF CommitRecord, WorkAt, WorkPC
  <2>. QED
    BY <1>7, <2>1, <2>2 DEF CommitRecord, TypeOK
<1>8. CASE MatchReceipt
  BY <1>8, WorkCases DEF MatchReceipt, WorkAt, WorkPC, TypeOK
<1>9. CASE LeaveReceipt
  BY <1>9, <1>w DEF LeaveReceipt, TypeOK
<1>10. CASE RemoveReceipt
  BY <1>10, WorkCases DEF RemoveReceipt, WorkAt, WorkPC, TypeOK
<1>11. CASE SyncRemoval
  BY <1>11, <1>w DEF SyncRemoval, TypeOK
<1>. QED
  BY <1>1, <1>2, <1>3, <1>4, <1>5, <1>6, <1>7, <1>8, <1>9, <1>10, <1>11 DEF Handler

LEMMA TypePowerLoss ==
  ASSUME TypeOK, PowerLoss
  PROVE  TypeOK'
<1>1. PICK back \in SUBSET Undoable :
        /\ installed' = [p \in Path |->
             IF \E s \in back : slot[s].path = p
             THEN slot[CHOOSE s \in back : slot[s].path = p].extension
             ELSE installed[p]]
        /\ slot' = [s \in Slot |->
             IF s \in back THEN [slot[s] EXCEPT !.extension = None]
             ELSE [slot[s] EXCEPT !.durable = (slot[s].extension # None)]]
  BY DEF PowerLoss
<1>2. \A s \in Slot : slot[s] \in SlotState
  BY DEF TypeOK
<1>3. \A s \in Slot : /\ slot[s].extension \in Folder \cup {None}
                      /\ [slot[s] EXCEPT !.extension = None] \in SlotState
  BY <1>2 DEF SlotState
<1>4. \A s \in Slot, ok \in BOOLEAN : [slot[s] EXCEPT !.durable = ok] \in SlotState
  BY <1>2 DEF SlotState
<1>5. slot' \in [Slot -> SlotState]
  <2>1. \A s \in Slot : (slot[s].extension # None) \in BOOLEAN
    OBVIOUS
  <2>. QED
    BY <1>1, <1>3, <1>4, <2>1
<1>6. installed' \in [Path -> Folder \cup {None}]
  <2>1. ASSUME NEW p \in Path, \E s \in back : slot[s].path = p
        PROVE  slot[CHOOSE s \in back : slot[s].path = p].extension \in Folder \cup {None}
    <3>1. (CHOOSE s \in back : slot[s].path = p) \in Slot
      BY <2>1 DEF Undoable
    <3>. QED
      BY <3>1, <1>3
  <2>2. \A p \in Path : installed[p] \in Folder \cup {None}
    BY DEF TypeOK
  <2>. QED
    BY <1>1, <2>1, <2>2
<1>7. receipt' \in Receipt \cup {None}
  BY DEF PowerLoss, TypeOK
<1>. QED
  BY <1>5, <1>6, <1>7 DEF PowerLoss, HandlersEnd, TypeOK, WorkState

LEMMA TypeStart ==
  ASSUME TypeOK, Crash \/ Start \/ Starting \/ \E s \in Slot : SweepFails(s)
  PROVE  TypeOK'
<1>1. CASE Crash
  BY <1>1 DEF Crash, HandlersEnd, TypeOK, WorkState
<1>2. CASE Start
  BY <1>2 DEF Start, TypeOK
<1>3. CASE Serve
  BY <1>3 DEF Serve, TypeOK
<1>4. ASSUME NEW s \in Slot, ReconcileSlot(s)
      PROVE  TypeOK'
  BY <1>4 DEF ReconcileSlot, Sweep, TypeOK
<1>5. ASSUME NEW s \in Slot, SweepFails(s)
      PROVE  TypeOK'
  BY <1>5 DEF SweepFails, TypeOK
<1>. QED
  BY <1>1, <1>2, <1>3, <1>4, <1>5 DEF Starting

LEMMA TypeNext == TypeOK /\ [Next]_vars => TypeOK'
<1>. SUFFICES ASSUME TypeOK, [Next]_vars
              PROVE  TypeOK'
  OBVIOUS
<1>1. CASE UNCHANGED vars
  BY <1>1 DEF vars, TypeOK
<1>. QED
  BY <1>1, TypeUser, TypeReceipt, TypeHandler, TypePowerLoss, TypeStart DEF Next

\* Every variable keeps its type, for any number of folders, versions,
\* quarantine directories and receipts, and whether or not requests overlap.
THEOREM TypeCorrect == Spec => []TypeOK
<1>1. Init => TypeOK
  BY TypeInit
<1>2. TypeOK /\ [Next]_vars => TypeOK'
  BY TypeNext
<1>. QED
  BY <1>1, <1>2, PTL DEF Spec

-----------------------------------------------------------------------------
(* The folders and the finality of a removal, whatever runs beside.        *)

\* A folder in quarantine has a record that says where it came from.
Recorded ==
  \A s \in Slot : slot[s].extension # None =>
    slot[s].phase \in {"prepared", "committed"} /\ slot[s].path \in Path

Early == {"made", "prepared", "archived"}

\* The handler's own directory is empty before the move and full after it.
OwnSlot ==
  work # None /\ work.pc # "checked" =>
    /\ work.pc \in Early => slot[work.slot].extension = None
    /\ work.pc \in {"prepared", "archived"} =>
         slot[work.slot].phase = "prepared" /\ slot[work.slot].path = work.path
    /\ work.pc \notin Early => slot[work.slot].extension # None

\* A removal follows a durable move, and its directory is left alone.
Final ==
  /\ \A s \in cleaned : /\ slot[s].durable /\ slot[s].extension # None
  /\ work # None /\ work.pc = "matched" => slot[work.slot].durable
  /\ work # None /\ work.pc \notin {"checked", "removed"} => work.slot \notin cleaned

IInv == TypeOK /\ Recorded /\ OwnSlot /\ Final /\ NothingLost

LEMMA InvInit == Init => IInv
<1>. SUFFICES ASSUME Init
              PROVE  IInv
  OBVIOUS
<1>1. Recorded /\ OwnSlot /\ Final
  BY DEF Init, Recorded, OwnSlot, Final, NoSlot
<1>2. NothingLost
  BY DEF Init, NothingLost
<1>. QED
  BY <1>1, <1>2, TypeInit DEF IInv

\* A folder is somewhere.
Somewhere(x) ==
  \/ \E p \in Path : installed[p] # None /\ installed[p].id = x
  \/ \E s \in Slot : slot[s].extension # None /\ slot[s].extension.id = x

LEMMA LostMeans ==
  /\ NothingLost <=> \A x \in owed : Somewhere(x)
  /\ NothingLost' <=> \A x \in owed' : Somewhere(x)'
BY DEF NothingLost, Somewhere, Present

\* A step that leaves the folders, the directories and the handler's place.
LEMMA InvElsewhere ==
  ASSUME IInv, TypeOK', UNCHANGED <<slot, cleaned>>, work' = work \/ work' = None,
         NothingLost'
  PROVE  IInv'
BY DEF IInv, Recorded, OwnSlot, Final

LEMMA InvUser ==
  ASSUME IInv, NEW p \in Path, Install(p) \/ VerifyInstall(p) \/ Uninstall(p)
  PROVE  IInv'
<1>t. TypeOK'
  BY TypeUser DEF IInv
<1>1. CASE Install(p)
  <2>1. PICK id \in Id \ owed, v \in Version :
          /\ installed' = [installed EXCEPT ![p] = [id |-> id, version |-> v]]
          /\ owed' = (owed \cup {id})
                       \ (IF installed[p] = None THEN {} ELSE {installed[p].id})
    BY <1>1 DEF Install
  <2>2. [id |-> id, version |-> v] # None
    BY NoneIsNothing DEF Folder
  <2>3. installed \in [Path -> Folder \cup {None}] /\ UNCHANGED slot
    BY <1>1 DEF Install, IInv, TypeOK
  <2>4. ASSUME NEW x \in owed'
        PROVE  Somewhere(x)'
    <3>1. CASE x = id
      BY <2>1, <2>2, <2>3, <3>1 DEF Somewhere
    <3>2. CASE x # id
      <4>1. x \in owed /\ (installed[p] # None => x # installed[p].id)
        BY <2>1, <2>4, <3>2
      <4>2. Somewhere(x)
        BY <4>1, LostMeans DEF IInv
      <4>. QED
        BY <2>1, <2>3, <4>1, <4>2 DEF Somewhere
    <3>. QED
      BY <3>1, <3>2
  <2>. QED
    BY <1>1, <1>t, <2>4, LostMeans, InvElsewhere DEF Install
<1>2. CASE VerifyInstall(p)
  <2>1. NothingLost'
    BY <1>2 DEF VerifyInstall, IInv, NothingLost, Present
  <2>. QED
    BY <1>2, <1>t, <2>1, InvElsewhere DEF VerifyInstall
<1>3. CASE Uninstall(p)
  <2>1. NothingLost'
    BY <1>3 DEF Uninstall, IInv, NothingLost, Present
  <2>2. work'.pc = "checked"
    BY <1>3 DEF Uninstall
  <2>. QED
    BY <1>3, <1>t, <2>1, <2>2 DEF Uninstall, IInv, Recorded, OwnSlot, Final
<1>. QED
  BY <1>1, <1>2, <1>3

LEMMA InvReceipt ==
  ASSUME IInv, WriteReceipt \/ VerifyFails
  PROVE  IInv'
<1>1. TypeOK'
  BY TypeReceipt DEF IInv
<1>2. NothingLost'
  BY DEF WriteReceipt, VerifyFails, IInv, NothingLost, Present
<1>. QED
  BY <1>1, <1>2, InvElsewhere DEF WriteReceipt, VerifyFails

LEMMA InvHandler ==
  ASSUME IInv, Handler
  PROVE  IInv'
<1>t. TypeOK /\ TypeOK'
  BY TypeHandler DEF IInv
<1>w. work # None
  BY DEF Handler, WorkAt, MakeSlot, WriteRecord, ArchiveReceipt, UninstallFails,
         MoveFolder, SyncMove, CommitRecord, MatchReceipt, LeaveReceipt,
         RemoveReceipt, SyncRemoval
<1>s. work.pc # "checked" => work.slot \in Slot
  BY <1>t, <1>w, WorkCases
<1>f. \A s \in Slot : slot[s] \in SlotState
  BY <1>t DEF TypeOK
<1>n. work # None => /\ work.pc \in WorkPC \cup {"checked"}
                     /\ work.pc = "checked" => work.slot = None
  BY <1>t, WorkCases
<1>k. ASSUME \A s \in Slot : slot'[s].extension = slot[s].extension,
             UNCHANGED <<installed, owed>>
      PROVE  NothingLost'
  BY <1>k, LostMeans DEF IInv, Somewhere
<1>1. CASE MakeSlot
  <2>1. PICK s \in Slot :
          /\ slot[s].phase = "absent"
          /\ slot' = [slot EXCEPT ![s] = [NoSlot EXCEPT !.phase = "made"]]
          /\ work' = [work EXCEPT !.pc = "made", !.slot = s]
    BY <1>1 DEF MakeSlot
  <2>2. slot[s].extension = None /\ s \notin cleaned
    BY <2>1 DEF IInv, Recorded, Final
  <2>3. slot'[s].extension = None /\ \A r \in Slot \ {s} : slot'[r] = slot[r]
    BY <1>t, <2>1 DEF NoSlot, TypeOK
  <2>4. work'.pc = "made" /\ work'.slot = s
    BY <1>t, <1>w, <2>1, WorkCases DEF TypeOK, WorkState
  <2>5. NothingLost'
    BY <1>1, <1>k, <2>2, <2>3 DEF MakeSlot
  <2>6. Recorded'
    BY <2>2, <2>3 DEF IInv, Recorded
  <2>7. OwnSlot'
    BY <2>3, <2>4 DEF OwnSlot, Early
  <2>8. Final'
    BY <1>1, <2>2, <2>3, <2>4 DEF MakeSlot, IInv, Final, TypeOK
  <2>. QED
    BY <1>t, <2>5, <2>6, <2>7, <2>8 DEF IInv
<1>m. \A pc \in WorkPC :
        /\ [work EXCEPT !.pc = pc].pc = pc
        /\ [work EXCEPT !.pc = pc].slot = work.slot
        /\ [work EXCEPT !.pc = pc].path = work.path
        /\ work.path \in Path
  BY <1>t, <1>w, WorkCases DEF TypeOK, WorkState
<1>2. CASE WriteRecord
  <2>1. work.pc = "made" /\ work'.pc = "prepared" /\ work'.slot = work.slot
          /\ work'.path = work.path /\ UNCHANGED <<cleaned, installed, owed>>
    BY <1>2, <1>m DEF WriteRecord, WorkAt, WorkPC
  <2>2. /\ slot'[work.slot].phase = "prepared" /\ slot'[work.slot].path = work.path
        /\ slot'[work.slot].extension = slot[work.slot].extension
        /\ \A s \in Slot \ {work.slot} : slot'[s] = slot[s]
    BY <1>2, <1>t, <1>s, <1>f, <2>1 DEF WriteRecord, TypeOK, SlotState
  <2>3. NothingLost'
    BY <1>k, <2>1, <2>2
  <2>4. Recorded'
    BY <1>m, <2>1, <2>2 DEF IInv, Recorded, WorkPC
  <2>5. OwnSlot'
    BY <1>w, <2>1, <2>2 DEF IInv, OwnSlot, Early
  <2>6. Final'
    BY <1>w, <2>1, <2>2 DEF IInv, Final, TypeOK
  <2>. QED
    BY <1>t, <2>3, <2>4, <2>5, <2>6 DEF IInv
<1>3. CASE ArchiveReceipt
  <2>1. work.pc = "prepared" /\ work'.pc = "archived" /\ work'.slot = work.slot
          /\ work'.path = work.path /\ UNCHANGED <<cleaned, installed, owed>>
    BY <1>3, <1>m DEF ArchiveReceipt, WorkAt, WorkPC
  <2>2. \A s \in Slot : /\ slot'[s].phase = slot[s].phase /\ slot'[s].path = slot[s].path
                        /\ slot'[s].extension = slot[s].extension
                        /\ slot'[s].durable = slot[s].durable
    BY <1>3, <1>t, <1>s, <1>f, <2>1 DEF ArchiveReceipt, TypeOK, SlotState
  <2>3. NothingLost'
    BY <1>k, <2>1, <2>2
  <2>4. Recorded'
    BY <2>2 DEF IInv, Recorded
  <2>5. OwnSlot'
    BY <1>s, <1>w, <2>1, <2>2 DEF IInv, OwnSlot, Early
  <2>6. Final'
    BY <1>w, <2>1, <2>2 DEF IInv, Final, TypeOK
  <2>. QED
    BY <1>t, <2>3, <2>4, <2>5, <2>6 DEF IInv
<1>4. CASE UninstallFails
  <2>1. work.pc \in Early => slot[work.slot].extension = None /\ work.slot \notin cleaned
    BY <1>w DEF IInv, OwnSlot, Final, Early
  <2>2. work.pc = "checked" => work.slot \notin Slot
    BY <1>n, <1>w, NoneIsNothing
  <2>3. /\ \A s \in Slot : s = work.slot =>
             slot[s].extension = None /\ slot'[s].extension = None /\ s \notin cleaned
        /\ \A s \in Slot : s # work.slot => slot'[s] = slot[s]
        /\ work' = None /\ UNCHANGED <<cleaned, installed, owed>>
    BY <1>4, <2>1, <2>2 DEF UninstallFails, Early, NoSlot
  <2>4. NothingLost'
    BY <1>k, <2>3
  <2>5. Recorded'
    BY <2>3 DEF IInv, Recorded
  <2>6. OwnSlot'
    BY <2>3 DEF OwnSlot
  <2>7. Final'
    BY <2>3 DEF IInv, Final, TypeOK
  <2>. QED
    BY <1>t, <2>4, <2>5, <2>6, <2>7 DEF IInv
<1>5. CASE MoveFolder
  <2>1. work.pc = "archived" /\ work'.pc = "moved" /\ work'.slot = work.slot
          /\ UNCHANGED <<cleaned, owed>>
    BY <1>5, <1>m DEF MoveFolder, WorkAt, WorkPC
  <2>2. /\ slot[work.slot].extension = None
        /\ slot'[work.slot].extension = installed[work.path]
        /\ slot'[work.slot].phase = "prepared"
        /\ slot'[work.slot].path \in Path
        /\ slot'[work.slot].durable = slot[work.slot].durable
        /\ \A s \in Slot \ {work.slot} : slot'[s] = slot[s]
        /\ installed[work.path] # None
    <3>1. /\ slot[work.slot].extension = None /\ slot[work.slot].phase = "prepared"
          /\ slot[work.slot].path = work.path
      BY <1>w, <2>1 DEF IInv, OwnSlot, Early
    <3>. QED
      BY <1>5, <1>t, <1>s, <1>f, <1>m, <2>1, <3>1 DEF MoveFolder, TypeOK, SlotState, WorkPC
  <2>3. ASSUME NEW x \in owed'
        PROVE  Somewhere(x)'
    <3>1. Somewhere(x)
      BY <2>1, <2>3, LostMeans DEF IInv
    <3>2. CASE \E s \in Slot : slot[s].extension # None /\ slot[s].extension.id = x
      BY <2>2, <3>2 DEF Somewhere
    <3>3. ASSUME NEW p \in Path, installed[p] # None, installed[p].id = x
          PROVE  Somewhere(x)'
      <4>1. CASE p = work.path
        BY <1>s, <2>1, <2>2, <3>3, <4>1 DEF Somewhere
      <4>2. CASE p # work.path
        <5>1. installed'[p] = installed[p]
          BY <1>5, <1>t, <4>2 DEF MoveFolder, TypeOK
        <5>. QED
          BY <3>3, <5>1 DEF Somewhere
      <4>. QED
        BY <4>1, <4>2
    <3>. QED
      BY <3>1, <3>2, <3>3 DEF Somewhere
  <2>4. Recorded'
    BY <2>2 DEF IInv, Recorded
  <2>5. OwnSlot'
    BY <2>1, <2>2 DEF OwnSlot, Early
  <2>6. Final'
    BY <1>w, <2>1, <2>2 DEF IInv, Final, TypeOK
  <2>. QED
    BY <1>t, <2>3, <2>4, <2>5, <2>6, LostMeans DEF IInv
<1>6. CASE SyncMove
  <2>1. work.pc = "moved" /\ work'.pc = "synced" /\ work'.slot = work.slot
          /\ UNCHANGED <<cleaned, installed, owed>>
    BY <1>6, <1>m DEF SyncMove, WorkAt, WorkPC
  <2>2. /\ \A s \in Slot : /\ slot'[s].phase = slot[s].phase /\ slot'[s].path = slot[s].path
                           /\ slot'[s].extension = slot[s].extension
        /\ \A s \in Slot \ {work.slot} : slot'[s] = slot[s]
    <3>1. PICK ok \in BOOLEAN : slot' = [slot EXCEPT ![work.slot].durable = ok]
      BY <1>6 DEF SyncMove
    <3>. QED
      BY <1>t, <1>s, <1>f, <2>1, <3>1 DEF TypeOK, SlotState
  <2>3. NothingLost'
    BY <1>k, <2>1, <2>2
  <2>4. Recorded'
    BY <2>2 DEF IInv, Recorded
  <2>5. OwnSlot'
    BY <1>s, <1>w, <2>1, <2>2 DEF IInv, OwnSlot, Early
  <2>6. Final'
    BY <1>w, <2>1, <2>2 DEF IInv, Final, TypeOK
  <2>. QED
    BY <1>t, <2>3, <2>4, <2>5, <2>6 DEF IInv
<1>7. CASE CommitRecord
  <2>1. work.pc = "synced" /\ work'.pc = "recorded" /\ work'.slot = work.slot
          /\ UNCHANGED <<cleaned, installed, owed>>
    BY <1>7, <1>m DEF CommitRecord, WorkAt, WorkPC
  <2>2. /\ \A s \in Slot : /\ slot'[s].path = slot[s].path
                           /\ slot'[s].extension = slot[s].extension
                           /\ slot'[s].durable = slot[s].durable
        /\ slot'[work.slot].phase \in {"prepared", "committed"}
        /\ \A s \in Slot \ {work.slot} : slot'[s] = slot[s]
    <3>1. PICK phase \in {"prepared", "committed"} :
            slot' = [slot EXCEPT ![work.slot].phase = phase]
      BY <1>7 DEF CommitRecord
    <3>. QED
      BY <1>t, <1>s, <1>f, <2>1, <3>1 DEF TypeOK, SlotState
  <2>3. NothingLost'
    BY <1>k, <2>1, <2>2
  <2>4. Recorded'
    BY <2>2 DEF IInv, Recorded
  <2>5. OwnSlot'
    BY <1>s, <1>w, <2>1, <2>2 DEF IInv, OwnSlot, Early
  <2>6. Final'
    BY <1>w, <2>1, <2>2 DEF IInv, Final, TypeOK
  <2>. QED
    BY <1>t, <2>3, <2>4, <2>5, <2>6 DEF IInv
<1>8. CASE MatchReceipt
  <2>1. work.pc = "recorded" /\ work'.pc = "matched" /\ work'.slot = work.slot
          /\ UNCHANGED <<slot, cleaned, installed, owed>> /\ slot[work.slot].durable
    BY <1>8, <1>m DEF MatchReceipt, WorkAt, WorkPC
  <2>2. NothingLost'
    BY <1>k, <2>1
  <2>. QED
    BY <1>t, <1>w, <2>1, <2>2 DEF IInv, Recorded, OwnSlot, Final, Early
<1>9. CASE LeaveReceipt
  <2>1. NothingLost'
    BY <1>9, <1>k DEF LeaveReceipt
  <2>. QED
    BY <1>9, <1>t, <2>1, InvElsewhere DEF LeaveReceipt
<1>10. CASE RemoveReceipt
  <2>1. work.pc = "matched" /\ work'.pc = "removed" /\ work'.slot = work.slot
          /\ cleaned' = cleaned \cup {work.slot} /\ UNCHANGED <<slot, installed, owed>>
    BY <1>10, <1>m DEF RemoveReceipt, WorkAt, WorkPC
  <2>2. slot[work.slot].durable /\ slot[work.slot].extension # None
    BY <1>w, <2>1 DEF IInv, OwnSlot, Final, Early
  <2>3. NothingLost'
    BY <1>k, <2>1
  <2>. QED
    BY <1>t, <1>w, <2>1, <2>2, <2>3 DEF IInv, Recorded, OwnSlot, Final, Early
<1>11. CASE SyncRemoval
  <2>1. NothingLost'
    BY <1>11, <1>k DEF SyncRemoval
  <2>. QED
    BY <1>11, <1>t, <2>1, InvElsewhere DEF SyncRemoval
<1>. QED
  BY <1>1, <1>2, <1>3, <1>4, <1>5, <1>6, <1>7, <1>8, <1>9, <1>10, <1>11 DEF Handler

\* A power loss puts folders back where nothing lies, one per place.
LEMMA PutBack ==
  ASSUME IInv, PowerLoss
  PROVE  \E back \in SUBSET Slot :
           /\ \A s \in back : /\ ~slot[s].durable /\ installed[slot[s].path] = None
                              /\ slot[s].path \in Path
                              /\ installed'[slot[s].path] = slot[s].extension
           /\ \A p \in Path : installed[p] # None => installed'[p] = installed[p]
           /\ \A s \in back : slot'[s].extension = None
           /\ \A s \in Slot \ back :
                /\ slot'[s].extension = slot[s].extension
                /\ slot'[s].durable = (slot[s].extension # None)
           /\ \A s \in Slot : slot'[s].phase = slot[s].phase /\ slot'[s].path = slot[s].path
<1>1. PICK back \in SUBSET Undoable :
        /\ \A s, t \in back : slot[s].path = slot[t].path => s = t
        /\ installed' = [p \in Path |->
             IF \E s \in back : slot[s].path = p
             THEN slot[CHOOSE s \in back : slot[s].path = p].extension
             ELSE installed[p]]
        /\ slot' = [s \in Slot |->
             IF s \in back THEN [slot[s] EXCEPT !.extension = None]
             ELSE [slot[s] EXCEPT !.durable = (slot[s].extension # None)]]
  BY DEF PowerLoss
<1>2. \A s \in Slot : slot[s] \in SlotState
  BY DEF IInv, TypeOK
<1>3. \A s \in back : /\ s \in Slot /\ slot[s].extension # None /\ ~slot[s].durable
                      /\ installed[slot[s].path] = None /\ slot[s].path \in Path
  BY DEF Undoable, IInv, Recorded
<1>4. ASSUME NEW s \in back
      PROVE  installed'[slot[s].path] = slot[s].extension
  <2>1. (CHOOSE t \in back : slot[t].path = slot[s].path) = s
    BY <1>1
  <2>. QED
    BY <1>1, <1>3, <2>1
<1>5. \A p \in Path : installed[p] # None => installed'[p] = installed[p]
  BY <1>1, <1>3
<1>6. /\ \A s \in back : slot'[s].extension = None
      /\ \A s \in Slot \ back : slot'[s].extension = slot[s].extension
      /\ \A s \in Slot : slot'[s].phase = slot[s].phase /\ slot'[s].path = slot[s].path
  BY <1>1, <1>2, <1>3 DEF SlotState
<1>7. \A s \in Slot \ back : slot'[s].durable = (slot[s].extension # None)
  BY <1>1, <1>2 DEF SlotState
<1>8. back \in SUBSET Slot
  BY <1>3
<1>. QED
  BY <1>3, <1>4, <1>5, <1>6, <1>7, <1>8

LEMMA InvPowerLoss ==
  ASSUME IInv, PowerLoss
  PROVE  IInv'
<1>t. TypeOK'
  BY TypePowerLoss DEF IInv
<1>1. PICK back \in SUBSET Slot :
           /\ \A s \in back : /\ ~slot[s].durable /\ installed[slot[s].path] = None
                              /\ slot[s].path \in Path
                              /\ installed'[slot[s].path] = slot[s].extension
           /\ \A p \in Path : installed[p] # None => installed'[p] = installed[p]
           /\ \A s \in back : slot'[s].extension = None
           /\ \A s \in Slot \ back :
                /\ slot'[s].extension = slot[s].extension
                /\ slot'[s].durable = (slot[s].extension # None)
           /\ \A s \in Slot : slot'[s].phase = slot[s].phase /\ slot'[s].path = slot[s].path
  BY PutBack
<1>2. work' = None /\ UNCHANGED <<owed, cleaned>>
  BY DEF PowerLoss, HandlersEnd
<1>3. ASSUME NEW x \in owed'
      PROVE  Somewhere(x)'
  <2>1. Somewhere(x)
    BY <1>2, <1>3, LostMeans DEF IInv
  <2>2. ASSUME NEW p \in Path, installed[p] # None, installed[p].id = x
        PROVE  Somewhere(x)'
    BY <1>1, <2>2 DEF Somewhere
  <2>3. ASSUME NEW s \in Slot, slot[s].extension # None, slot[s].extension.id = x
        PROVE  Somewhere(x)'
    <3>1. CASE s \in back
      BY <1>1, <2>3, <3>1 DEF Somewhere
    <3>2. CASE s \notin back
      BY <1>1, <2>3, <3>2 DEF Somewhere
    <3>. QED
      BY <3>1, <3>2
  <2>. QED
    BY <2>1, <2>2, <2>3 DEF Somewhere
<1>4. Recorded'
  BY <1>1 DEF IInv, Recorded
<1>5. OwnSlot'
  BY <1>2 DEF OwnSlot
<1>6. Final'
  <2>1. ASSUME NEW s \in cleaned
        PROVE  slot'[s].durable /\ slot'[s].extension # None
    <3>1. s \in Slot /\ slot[s].durable /\ slot[s].extension # None
      BY DEF IInv, Final, TypeOK
    <3>. QED
      BY <1>1, <3>1
  <2>. QED
    BY <1>2, <2>1 DEF Final
<1>. QED
  BY <1>t, <1>3, <1>4, <1>5, <1>6, LostMeans DEF IInv

LEMMA InvStart ==
  ASSUME IInv, Crash \/ Start \/ Starting \/ \E s \in Slot : SweepFails(s)
  PROVE  IInv'
<1>1. TypeOK'
  BY TypeStart DEF IInv
<1>2. /\ UNCHANGED <<installed, slot, owed, cleaned>>
      /\ work' = work \/ work' = None
  BY DEF Crash, HandlersEnd, Start, Starting, Serve, ReconcileSlot, Sweep, SweepFails
<1>3. NothingLost'
  BY <1>2 DEF IInv, NothingLost, Present
<1>. QED
  BY <1>1, <1>2, <1>3, InvElsewhere

LEMMA InvNext == IInv /\ [Next]_vars => IInv'
<1>. SUFFICES ASSUME IInv, [Next]_vars
              PROVE  IInv'
  OBVIOUS
<1>1. CASE UNCHANGED vars
  <2>1. TypeOK' /\ NothingLost'
    BY <1>1, TypeNext DEF vars, IInv, NothingLost, Present
  <2>. QED
    BY <1>1, <2>1, InvElsewhere DEF vars
<1>. QED
  BY <1>1, InvUser, InvReceipt, InvHandler, InvPowerLoss, InvStart DEF Next

LEMMA InvAlways == Spec => []IInv
<1>. QED
  BY InvInit, InvNext, PTL DEF Spec

\* No folder is ever lost: wherever the helper dies, whatever file operation
\* fails and whatever a power loss undoes, a folder that the user has not
\* replaced lies at its place or in quarantine.
THEOREM NothingIsLost == Spec => []NothingLost
<1>1. IInv => NothingLost
  BY DEF IInv
<1>. QED
  BY <1>1, InvAlways, PTL

\* No power loss undoes an uninstall that has removed the receipt.
THEOREM RemovalStays == Spec => RemovalIsFinal
<1>1. ASSUME IInv, [Next]_vars
      PROVE  [\A s \in cleaned : slot[s].extension # None
                                   => slot'[s].extension # None]_vars
  <2>1. CASE UNCHANGED vars
    BY <2>1
  <2>2. CASE PowerLoss
    <3>1. PICK back \in SUBSET Slot :
            /\ \A s \in back : ~slot[s].durable
            /\ \A s \in Slot \ back : slot'[s].extension = slot[s].extension
      BY <1>1, <2>2, PutBack
    <3>. QED
      BY <1>1, <3>1 DEF IInv, Final, TypeOK
  <2>3. CASE ~PowerLoss /\ Next
    <3>1. cleaned \subseteq cleaned'
      BY <2>3 DEF Next, Install, VerifyInstall, Uninstall, WriteReceipt, VerifyFails,
         Handler, MakeSlot, WriteRecord, ArchiveReceipt, UninstallFails, MoveFolder,
         SyncMove, CommitRecord, MatchReceipt, LeaveReceipt, RemoveReceipt, SyncRemoval,
         Crash, Start, Starting, Serve, ReconcileSlot, Sweep, SweepFails
    <3>2. IInv'
      BY <1>1, InvNext
    <3>. QED
      BY <3>1, <3>2 DEF IInv, Final
  <2>. QED
    BY <1>1, <2>1, <2>2, <2>3
<1>. QED
  BY <1>1, InvAlways, PTL DEF Spec, RemovalIsFinal

-----------------------------------------------------------------------------
(* The receipts, when operations exclude each other.                       *)

\* The handlers run apart from each other, and only in a helper that serves.
Apart ==
  /\ work # None => verify = None
  /\ helper # "serving" => work = None

\* Between the comparison and the removal the receipt stays the archived one.
StillMatching ==
  work # None /\ work.pc = "matched" =>
    receipt # None /\ slot[work.slot].archived = receipt

StillInstalled == verify # None => Present # {}

EInv == IInv /\ Apart /\ StillMatching /\ StillInstalled

LEMMA ExclInit == Init => EInv
BY InvInit DEF Init, EInv, Apart, StillMatching, StillInstalled

\* A step of the handler other than those that make the receipts match.
LEMMA ExclHandler ==
  ASSUME EInv, Handler
  PROVE  EInv'
<1>i. IInv /\ IInv'
  BY InvHandler DEF EInv
<1>w. work # None /\ verify = None /\ helper = "serving" /\ UNCHANGED <<verify, helper>>
  BY DEF EInv, Apart, Handler, WorkAt, MakeSlot, WriteRecord, ArchiveReceipt,
         UninstallFails, MoveFolder, SyncMove, CommitRecord, MatchReceipt, LeaveReceipt,
         RemoveReceipt, SyncRemoval
<1>n. \A pc \in WorkPC : [work EXCEPT !.pc = pc].pc = pc
                         /\ [work EXCEPT !.pc = pc].slot = work.slot
  BY <1>i, <1>w, WorkCases DEF IInv, TypeOK, WorkState
<1>1. work' # None /\ work'.pc = "matched" =>
        receipt # None /\ slot[work.slot].archived = receipt
        /\ work'.slot = work.slot /\ UNCHANGED <<receipt, slot>>
  <2>1. CASE MatchReceipt
    BY <1>n, <2>1 DEF MatchReceipt, WorkAt, Matches, WorkPC
  <2>2. CASE MakeSlot
    <3>1. work'.pc = "made"
      BY <1>i, <1>w, <2>2, WorkCases DEF MakeSlot, IInv, TypeOK, WorkState
    <3>. QED
      BY <3>1
  <2>3. CASE ~MatchReceipt /\ ~MakeSlot
    BY <1>n, <2>3 DEF Handler, WriteRecord, ArchiveReceipt, UninstallFails, MoveFolder,
       SyncMove, CommitRecord, LeaveReceipt, RemoveReceipt, SyncRemoval, WorkPC
  <2>. QED
    BY <2>1, <2>2, <2>3
<1>. QED
  BY <1>i, <1>w, <1>1 DEF EInv, Apart, StillMatching, StillInstalled

LEMMA ExclNext == ASSUME Exclusive PROVE EInv /\ [Next]_vars => EInv'
<1>. SUFFICES ASSUME EInv, [Next]_vars
              PROVE  EInv'
  OBVIOUS
<1>i. IInv /\ IInv'
  BY InvNext DEF EInv
<1>1. CASE UNCHANGED vars
  BY <1>i, <1>1 DEF vars, EInv, Apart, StillMatching, StillInstalled, Present
<1>2. ASSUME NEW p \in Path, Install(p)
      PROVE  EInv'
  <2>1. Present # {} => Present' # {}
    <3>1. \A id \in Id, v \in Version : [id |-> id, version |-> v] # None
      BY NoneIsNothing DEF Folder
    <3>. QED
      BY <1>i, <1>2, <3>1 DEF Install, Present, IInv, TypeOK
  <2>. QED
    BY <1>i, <1>2, <2>1 DEF Install, EInv, Apart, StillMatching, StillInstalled
<1>3. ASSUME NEW p \in Path, VerifyInstall(p)
      PROVE  EInv'
  BY <1>i, <1>3 DEF VerifyInstall, Exclusive, EInv, Apart, StillMatching, StillInstalled,
     Present
<1>4. ASSUME NEW p \in Path, Uninstall(p)
      PROVE  EInv'
  <2>1. work'.pc = "checked"
    BY <1>4 DEF Uninstall
  <2>. QED
    BY <1>i, <1>4, <2>1
    DEF Uninstall, Exclusive, EInv, Apart, StillMatching, StillInstalled
<1>5. CASE WriteReceipt \/ VerifyFails
  BY <1>i, <1>5 DEF WriteReceipt, VerifyFails, EInv, Apart, StillMatching, StillInstalled
<1>6. CASE Handler
  BY <1>6, ExclHandler
<1>7. CASE PowerLoss
  BY <1>i, <1>7 DEF PowerLoss, HandlersEnd, EInv, Apart, StillMatching, StillInstalled
<1>8. CASE Crash
  BY <1>i, <1>8 DEF Crash, HandlersEnd, EInv, Apart, StillMatching, StillInstalled
<1>9. CASE Start \/ Serve \/ \E s \in Slot : SweepFails(s)
  BY <1>i, <1>9 DEF Start, Serve, SweepFails, EInv, Apart, StillMatching, StillInstalled,
     Present
<1>10. ASSUME NEW s \in Slot, ReconcileSlot(s)
       PROVE  EInv'
  BY <1>i, <1>10
  DEF ReconcileSlot, Sweep, EInv, Apart, StillMatching, StillInstalled, Present
<1>. QED
  BY <1>1, <1>2, <1>3, <1>4, <1>5, <1>6, <1>7, <1>8, <1>9, <1>10 DEF Next, Starting

LEMMA ExclAlways == ASSUME Exclusive PROVE Spec => []EInv
<1>1. EInv /\ [Next]_vars => EInv'
  BY ExclNext
<1>. QED
  BY <1>1, ExclInit, PTL DEF Spec

\* A receipt that is removed, by the uninstall or by a later start, lies in
\* quarantine, byte for byte, beside a folder.
THEOREM RemovedIsArchived == ASSUME Exclusive PROVE Spec => RemovedReceiptArchived
<1>1. ASSUME EInv, [Next]_vars
      PROVE  [receipt # None /\ receipt' = None =>
                \E s \in Slot : slot[s].archived = receipt /\ slot[s].extension # None]_vars
  <2>1. SUFFICES ASSUME Next, receipt # None, receipt' = None
                 PROVE  \E s \in Slot : slot[s].archived = receipt /\ slot[s].extension # None
    BY <1>1
  <2>2. CASE RemoveReceipt
    <3>1. work # None /\ work.pc = "matched"
      BY <2>2 DEF RemoveReceipt, WorkAt
    <3>2. work.slot \in Slot
      BY <1>1, <3>1, WorkCases DEF EInv, IInv, WorkPC
    <3>. QED
      BY <1>1, <3>1, <3>2 DEF EInv, IInv, OwnSlot, StillMatching, Early
  <2>3. ASSUME NEW s \in Slot, ReconcileSlot(s)
        PROVE  slot[s].archived = receipt /\ slot[s].extension # None
    BY <2>1, <2>3 DEF ReconcileSlot, Sweep, Sweepable, Matches
  <2>4. CASE WriteReceipt
    <3>1. receipt' \in Receipt
      <4>1. TypeOK'
        BY <1>1, TypeNext DEF EInv, IInv
      <4>2. verify \in Version /\ stamp \in 1..MaxStamp
        BY <1>1, <2>4, BoundAssumption DEF WriteReceipt, EInv, IInv, TypeOK
      <4>. QED
        BY <2>4, <4>2 DEF WriteReceipt, Receipt
    <3>. QED
      BY <2>1, <3>1, NoneIsNothing
  <2>5. CASE PowerLoss
    BY <2>1, <2>5 DEF PowerLoss
  <2>. QED
    BY <2>1, <2>2, <2>3, <2>4, <2>5
    DEF Next, Install, VerifyInstall, Uninstall, VerifyFails, Handler, MakeSlot,
        WriteRecord, ArchiveReceipt, UninstallFails, MoveFolder, SyncMove, CommitRecord,
        MatchReceipt, LeaveReceipt, SyncRemoval, Crash, Start, Starting, Serve, SweepFails
<1>. QED
  BY <1>1, ExclAlways, PTL DEF Spec, RemovedReceiptArchived

=============================================================================
