------------------------ MODULE InstallRecord_proofs ------------------------
(***************************************************************************)
(* Proofs about InstallRecord: type correctness and truthful sources,      *)
(* whatever overlaps; and, when the window's operations do not overlap,    *)
(* that a restore finds the recorded artifact, for any number of packages, *)
(* versions and runs of the command line tool.                             *)
(***************************************************************************)
EXTENDS InstallRecord, TLAPS

\* Lua's one operation at a time, none of them cancelled under way.
OneLuaOp == \A o, p \in LuaOp : o = p

-----------------------------------------------------------------------------
(* Type correctness.                                                       *)

LEMMA NoneIsNothing ==
  /\ \A a \in Artifact : a # None
  /\ \A r \in Receipt : r # None
  /\ \A o \in Op : o # None /\ o # "helper"
  /\ None # "helper"
BY NoneAssumption, OpAssumption

\* What an operation carries, by the place it has reached.
LEMMA OpCases ==
  ASSUME TypeOK, NEW o \in Op
  PROVE  /\ op \in [Op -> OpState]
         /\ op[o] # Idle <=> op[o].pc # "idle"
         /\ op[o].pc # "idle" =>
              /\ op[o].pc \in {"prompt", "verify", "found", "compared", "read", "rotated", "stored"}
              /\ op[o].artifact \in Artifact /\ op[o].source \in Artifact \cup {None}
         /\ op[o].pc \in {"prompt", "verify", "found", "compared"} => op[o].prior = None
         /\ op[o].prior \in Receipt \cup {None}
<1>1. op \in [Op -> OpState] /\ op[o] \in OpState
  BY DEF TypeOK
<1>2. CASE op[o] = Idle
  BY <1>1, <1>2 DEF Idle
<1>3. CASE op[o] \in [pc : {"prompt", "verify", "found", "compared"}, artifact : Artifact,
                      source : Artifact \cup {None}, restore : BOOLEAN, prior : {None}]
  BY <1>1, <1>3 DEF Idle
<1>4. CASE op[o] \in [pc : {"read", "rotated", "stored"}, artifact : Artifact,
                      source : Artifact \cup {None}, restore : BOOLEAN,
                      prior : Receipt \cup {None}]
  BY <1>1, <1>4 DEF Idle
<1>. QED
  BY <1>1, <1>2, <1>3, <1>4 DEF OpState

\* Moving on keeps the form of an operation.
LEMMA OpMoves ==
  ASSUME TypeOK, NEW o \in Op
  PROVE  /\ op[o].pc \in {"prompt", "verify", "found"} =>
              \A pc \in {"verify", "found", "compared"} :
                [op EXCEPT ![o].pc = pc] \in [Op -> OpState]
         /\ op[o].pc = "compared" =>
              \A r \in Receipt \cup {None} :
                [op EXCEPT ![o].pc = "read", ![o].prior = r] \in [Op -> OpState]
         /\ op[o].pc \in {"read", "rotated"} =>
              \A pc \in {"rotated", "stored"} : [op EXCEPT ![o].pc = pc] \in [Op -> OpState]
         /\ [op EXCEPT ![o] = Idle] \in [Op -> OpState]
<1>1. op \in [Op -> OpState] /\ op[o] \in OpState
  BY DEF TypeOK
<1>2. Idle \in OpState
  BY DEF OpState
<1>3. ASSUME op[o].pc \in {"prompt", "verify", "found"}, NEW pc \in {"verify", "found", "compared"}
      PROVE  [op[o] EXCEPT !.pc = pc] \in OpState
  BY <1>1, <1>3 DEF OpState, Idle
<1>4. ASSUME op[o].pc = "compared", NEW r \in Receipt \cup {None}
      PROVE  [op[o] EXCEPT !.pc = "read", !.prior = r] \in OpState
  <2>1. op[o] \in [pc : {"prompt", "verify", "found", "compared"}, artifact : Artifact,
                   source : Artifact \cup {None}, restore : BOOLEAN, prior : {None}]
    BY <1>1, <1>4 DEF OpState, Idle
  <2>. DEFINE moved == [op[o] EXCEPT !.pc = "read"]
  <2>2. moved \in [pc : {"read"}, artifact : Artifact, source : Artifact \cup {None},
                   restore : BOOLEAN, prior : {None}]
    BY <2>1
  <2>3. [moved EXCEPT !.prior = r] \in
          [pc : {"read"}, artifact : Artifact, source : Artifact \cup {None},
           restore : BOOLEAN, prior : Receipt \cup {None}]
    BY <2>2
  <2>. QED
    BY <2>3 DEF OpState
<1>5. ASSUME op[o].pc \in {"read", "rotated"}, NEW pc \in {"rotated", "stored"}
      PROVE  [op[o] EXCEPT !.pc = pc] \in OpState
  BY <1>1, <1>5 DEF OpState, Idle
<1>. QED
  BY <1>1, <1>2, <1>3, <1>4, <1>5

LEMMA TypeInit == Init => TypeOK
BY DEF Init, TypeOK, OpState

LEMMA BeginType ==
  ASSUME TypeOK, NEW o \in Op, NEW artifact \in Artifact, NEW source \in Artifact \cup {None},
         NEW restore \in BOOLEAN, Begin(o, artifact, source, restore)
  PROVE  TypeOK'
<1>1. [pc |-> "prompt", artifact |-> artifact, source |-> source, restore |-> restore,
       prior |-> None] \in OpState
  BY DEF OpState
<1>. QED
  BY <1>1 DEF TypeOK, Begin

\* A rollback prepares an artifact, from a source or from none.
LEMMA RestoreType ==
  ASSUME TypeOK, NEW o \in Op, MayRestore(o)
  PROVE  Restorable \in Artifact /\ RestoreSource \in Artifact \cup {None}
BY DEF TypeOK, MayRestore, Restorable, RestoreSource, Receipt

LEMMA ReceiptType ==
  ASSUME TypeOK, NEW o \in Op, At(o, "stored")
  PROVE  ReceiptOf(o) \in Receipt
<1>1. op[o].artifact \in Artifact /\ op[o].source \in Artifact \cup {None}
      /\ op[o].prior \in Receipt \cup {None}
  BY OpCases DEF At
<1>. QED
  BY <1>1 DEF ReceiptOf, Receipt

LEMMA EndType ==
  ASSUME TypeOK, NEW o \in Op, End(o)
  PROVE  /\ op' \in [Op -> OpState] /\ active' \in LuaOp \cup {None}
         /\ lock' \in {"helper", None} \cup CliOp
BY OpMoves DEF TypeOK, End

LEMMA TypeNext == TypeOK /\ [Next]_vars => TypeOK'
<1>. SUFFICES ASSUME TypeOK, [Next]_vars PROVE TypeOK'
  OBVIOUS
<1>1. CASE HelperStarts \/ HelperEnds \/ Uninstall
  BY <1>1 DEF HelperStarts, HelperEnds, Uninstall, TypeOK
<1>2. CASE HelperDies
  BY <1>2 DEF HelperDies, TypeOK, OpState
<1>3. CASE Cancel
  <2>1. active \in Op
    BY <1>3 DEF Cancel, TypeOK, Op
  <2>. QED
    BY <1>3, <2>1, OpMoves DEF Cancel, TypeOK
<1>4. ASSUME NEW artifact \in Artifact, InstallByHand(artifact)
      PROVE  TypeOK'
  BY <1>4, VersionAssumption DEF InstallByHand, TypeOK, Folder
<1>5. ASSUME NEW o \in Op, NEW artifact \in Artifact, Prepare(o, artifact)
      PROVE  TypeOK'
  BY <1>5, BeginType DEF Prepare
<1>6. ASSUME NEW o \in Op, PrepareRollback(o)
      PROVE  TypeOK'
  BY <1>6, BeginType, RestoreType DEF PrepareRollback
<1>7. ASSUME NEW o \in Op, CliDies(o)
      PROVE  TypeOK'
  BY <1>7, OpMoves DEF CliDies, TypeOK, TornBy
<1>8. ASSUME NEW o \in Op, PromptAccepted(o)
      PROVE  TypeOK'
  <2>1. op[o].artifact \in Artifact /\ VersionOf[op[o].artifact] \in Version
    BY <1>8, OpCases, VersionAssumption DEF PromptAccepted, At
  <2>2. installed' \in Folder
    BY <1>8, <2>1 DEF PromptAccepted, TypeOK, Folder
  <2>3. op' \in [Op -> OpState]
    BY <1>8, OpMoves DEF PromptAccepted, At
  <2>. QED
    BY <1>8, <2>2, <2>3 DEF PromptAccepted, TypeOK
<1>9. ASSUME NEW o \in Op, PromptRefused(o)
      PROVE  TypeOK'
  <2>1. op[o].pc = "prompt"
        /\ (op' = [op EXCEPT ![o].pc = "verify"] \/ op' = [op EXCEPT ![o] = Idle])
    BY <1>9 DEF PromptRefused, At
  <2>2. [op EXCEPT ![o].pc = "verify"] \in [Op -> OpState]
    BY <2>1, OpMoves
  <2>3. [op EXCEPT ![o] = Idle] \in [Op -> OpState]
    BY OpMoves
  <2>4. op' \in [Op -> OpState]
    BY <2>1, <2>2, <2>3
  <2>. QED
    BY <1>9, <2>4 DEF PromptRefused, TypeOK
<1>10. ASSUME NEW o \in Op, Find(o) \/ Compare(o) \/ ReadPrior(o)
       PROVE  TypeOK'
  <2>1. op' \in [Op -> OpState]
    <3>1. CASE Find(o)
      BY <3>1, OpMoves DEF Find, At
    <3>2. CASE Compare(o)
      BY <3>2, OpMoves DEF Compare, GoTo, At
    <3>3. CASE ReadPrior(o)
      <4>1. receipt \in Receipt \cup {None} /\ op[o].pc = "compared"
        BY <3>3 DEF ReadPrior, At, TypeOK
      <4>. QED
        BY <3>3, <4>1, OpMoves DEF ReadPrior
    <3>. QED
      BY <1>10, <3>1, <3>2, <3>3
  <2>. QED
    BY <1>10, <2>1 DEF Find, Compare, ReadPrior, GoTo, TypeOK, Op
<1>11. ASSUME NEW o \in Op, Rotate(o) \/ Store(o)
       PROVE  TypeOK'
  <2>1. op' \in [Op -> OpState] /\ op[o].artifact \in Artifact
    BY <1>11, OpMoves, OpCases DEF Rotate, Store, GoTo, At
  <2>. QED
    BY <1>11, <2>1 DEF Rotate, Store, GoTo, TypeOK
<1>12. ASSUME NEW o \in Op, FindNothing(o) \/ WriteReceipt(o) \/ VerifyFails(o)
       PROVE  TypeOK'
  <2>1. End(o)
    BY <1>12 DEF FindNothing, WriteReceipt, VerifyFails
  <2>2. receipt' \in Receipt \cup {None} /\ torn' \in {"never", "now", "once"}
    BY <1>12, ReceiptType DEF FindNothing, WriteReceipt, VerifyFails, TypeOK, TornBy
  <2>3. installed' = installed /\ cache' = cache
    BY <1>12 DEF FindNothing, WriteReceipt, VerifyFails
  <2>. QED
    BY <2>1, <2>2, <2>3, EndType DEF TypeOK
<1>13. CASE UNCHANGED vars
  BY <1>13 DEF vars, TypeOK
<1>. QED
  BY <1>1, <1>2, <1>3, <1>4, <1>5, <1>6, <1>7, <1>8, <1>9, <1>10, <1>11, <1>12, <1>13
     DEF Next, Verify

\* Type correctness, whatever overlaps.
THEOREM TypeCorrect == Spec => []TypeOK
BY TypeInit, TypeNext, PTL DEF Spec

-----------------------------------------------------------------------------
(* Sources.                                                                *)

Truthful(r) == r.source \in {None, r.artifact} /\ r.previousSource \in {None, r.previous}

\* What an operation carries is truthful as well.
OpTruthful(o) ==
  /\ op[o].pc # "idle" => op[o].source \in {None, op[o].artifact}
  /\ op[o].prior # None => Truthful(op[o].prior)

SourceInv == SourceTruthful /\ \A o \in Op : OpTruthful(o)

LEMMA SourceInit == Init => SourceInv
BY DEF Init, SourceInv, SourceTruthful, OpTruthful, Idle

\* Steps that write no receipt, and begin nothing.
LEMMA SourceKept ==
  ASSUME SourceInv, receipt' \in {None, receipt},
         \A o \in Op :
           /\ op'[o].pc # "idle" => /\ op[o].pc # "idle"
                                    /\ op'[o].artifact = op[o].artifact
                                    /\ op'[o].source = op[o].source
           /\ op'[o].prior \in {None, op[o].prior, receipt}
  PROVE  SourceInv'
BY DEF SourceInv, SourceTruthful, OpTruthful, Truthful

LEMMA SourceNext == TypeOK /\ SourceInv /\ [Next]_vars => SourceInv'
<1>. SUFFICES ASSUME TypeOK, SourceInv, [Next]_vars PROVE SourceInv'
  OBVIOUS
<1>. op \in [Op -> OpState]
  BY DEF TypeOK
<1>. DEFINE Carried(o) == /\ op[o].pc # "idle"
                         /\ op'[o].artifact = op[o].artifact /\ op'[o].source = op[o].source
                         /\ op'[o].prior = op[o].prior
            Moves(o) == /\ op'[o] = Idle \/ Carried(o)
                        /\ \A q \in Op \ {o} : op'[q] = op[q]
<1>1. ASSUME NEW o \in Op, Moves(o), receipt' \in {None, receipt}
      PROVE  SourceInv'
  BY <1>1, SourceKept DEF Idle
<1>2. ASSUME UNCHANGED op, receipt' \in {None, receipt}
      PROVE  SourceInv'
  BY <1>2, SourceKept
<1>3. ASSUME NEW o \in Op, NEW artifact \in Artifact, NEW source \in {None, artifact},
             NEW restore \in BOOLEAN, Begin(o, artifact, source, restore)
      PROVE  SourceInv'
  BY <1>3 DEF Begin, SourceInv, SourceTruthful, OpTruthful, Truthful
<1>4. CASE HelperStarts \/ HelperEnds \/ Uninstall
  BY <1>2, <1>4 DEF HelperStarts, HelperEnds, Uninstall
<1>5. CASE HelperDies
  BY <1>5, SourceKept DEF HelperDies, Idle
<1>6. CASE Cancel
  <2>1. active \in Op
    BY <1>6 DEF Cancel, TypeOK, Op
  <2>2. receipt' = receipt /\ (op' = op \/ op' = [op EXCEPT ![active] = Idle])
    BY <1>6 DEF Cancel
  <2>3. CASE op' = op
    BY <1>2, <2>2, <2>3
  <2>4. CASE op' = [op EXCEPT ![active] = Idle]
    <3>1. Moves(active)
      BY <2>1, <2>4
    <3>. QED
      BY <1>1, <2>1, <2>2, <3>1
  <2>. QED
    BY <2>2, <2>3, <2>4
<1>7. ASSUME NEW artifact \in Artifact, InstallByHand(artifact)
      PROVE  SourceInv'
  BY <1>2, <1>7 DEF InstallByHand
<1>8. ASSUME NEW o \in Op, NEW artifact \in Artifact, Prepare(o, artifact)
      PROVE  SourceInv'
  BY <1>3, <1>8 DEF Prepare
<1>9. ASSUME NEW o \in Op, PrepareRollback(o)
      PROVE  SourceInv'
  <2>1. Restorable \in Artifact
    BY <1>9, RestoreType DEF PrepareRollback
  <2>2. RestoreSource \in {None, Restorable}
    BY <1>9, NoneIsNothing
       DEF PrepareRollback, MayRestore, Recorded, RestoreSource, SourceInv, SourceTruthful,
           TypeOK, Receipt
  <2>. QED
    BY <1>3, <1>9, <2>1, <2>2 DEF PrepareRollback
<1>10. ASSUME NEW o \in Op, \/ CliDies(o) \/ PromptAccepted(o) \/ PromptRefused(o) \/ Find(o)
                            \/ FindNothing(o) \/ Compare(o) \/ Rotate(o) \/ Store(o)
                            \/ VerifyFails(o)
       PROVE  SourceInv'
  <2>1. Moves(o)
    <3>1. CASE CliDies(o) \/ FindNothing(o) \/ VerifyFails(o)
      BY <3>1 DEF CliDies, FindNothing, VerifyFails, End
    <3>2. CASE PromptAccepted(o)
      <4>1. op[o].pc = "prompt" /\ op' = [op EXCEPT ![o].pc = "verify"]
        BY <3>2 DEF PromptAccepted, At
      <4>. QED
        BY <4>1, OpCases
    <3>3. CASE PromptRefused(o)
      <4>1. op[o].pc = "prompt" /\ (\/ op' = [op EXCEPT ![o].pc = "verify"]
                                    \/ op' = [op EXCEPT ![o] = Idle])
        BY <3>3 DEF PromptRefused, At
      <4>2. CASE op' = [op EXCEPT ![o].pc = "verify"]
        BY <4>1, <4>2, OpCases
      <4>3. CASE op' = [op EXCEPT ![o] = Idle]
        BY <4>3
      <4>. QED
        BY <4>1, <4>2, <4>3
    <3>4. CASE Find(o)
      BY <3>4, OpCases DEF Find, At
    <3>5. CASE Compare(o)
      BY <3>5, OpCases DEF Compare, GoTo, At
    <3>6. CASE Rotate(o)
      BY <3>6, OpCases DEF Rotate, GoTo, At
    <3>7. CASE Store(o)
      BY <3>7, OpCases DEF Store, GoTo, At
    <3>. QED
      BY <1>10, <3>1, <3>2, <3>3, <3>4, <3>5, <3>6, <3>7
  <2>2. receipt' = receipt
    BY <1>10
       DEF CliDies, PromptAccepted, PromptRefused, Find, FindNothing, Compare, Rotate, Store,
           VerifyFails
  <2>. QED
    BY <1>1, <2>1, <2>2
<1>11. ASSUME NEW o \in Op, ReadPrior(o)
       PROVE  SourceInv'
  <2>1. /\ op'[o].artifact = op[o].artifact /\ op'[o].source = op[o].source
        /\ op'[o].prior = receipt /\ op[o].pc # "idle"
        /\ \A q \in Op \ {o} : op'[q] = op[q]
    <3>1. op[o].pc = "compared" /\ op[o] \in OpState
      BY <1>11 DEF ReadPrior, At
    <3>2. op[o] \in [pc : {"prompt", "verify", "found", "compared"}, artifact : Artifact,
                     source : Artifact \cup {None}, restore : BOOLEAN, prior : {None}]
      BY <3>1 DEF OpState, Idle
    <3>. QED
      BY <1>11, <3>1, <3>2 DEF ReadPrior
  <2>2. receipt' = receipt
    BY <1>11 DEF ReadPrior
  <2>. QED
    BY <2>1, <2>2, SourceKept
<1>12. ASSUME NEW o \in Op, WriteReceipt(o)
       PROVE  SourceInv'
  <2>1. OpTruthful(o) /\ op[o].pc = "stored"
    BY <1>12 DEF SourceInv, WriteReceipt, At
  <2>2. Truthful(ReceiptOf(o))
    BY <2>1 DEF ReceiptOf, OpTruthful, Truthful
  <2>3. \A q \in Op : OpTruthful(q)'
    BY <1>12 DEF WriteReceipt, End, SourceInv, OpTruthful, Truthful, Idle
  <2>. QED
    BY <1>12, <2>2, <2>3 DEF WriteReceipt, SourceInv, SourceTruthful, Truthful
<1>13. CASE UNCHANGED vars
  BY <1>2, <1>13 DEF vars
<1>. QED
  BY <1>4, <1>5, <1>6, <1>7, <1>8, <1>9, <1>10, <1>11, <1>12, <1>13 DEF Next, Verify

\* A receipt never claims a source its artifact did not come from: not after
\* a restore, a cancelled or interrupted verification, a manual installation
\* or an operation of another process in between.
THEOREM SourcesAreTruthful == Spec => []SourceTruthful
<1>1. SourceInv => SourceTruthful
  BY DEF SourceInv
<1>2. TypeOK /\ SourceInv /\ [Next]_vars => (TypeOK /\ SourceInv)'
  BY TypeNext, SourceNext
<1>. QED
  BY <1>1, <1>2, TypeInit, SourceInit, PTL DEF Spec

-----------------------------------------------------------------------------
(* The cache and the receipt.                                              *)

\* Who must hold the profile while o is verified.
Holder(o) == IF o \in LuaOp THEN "helper" ELSE o

Exclusive == \A o \in Op : op[o].pc \in Verifying => lock = Holder(o)

\* The cache between two rotations: previous is an artifact of its own.
CacheKept ==
  AtRest /\ torn = "never" =>
    cache.previous = None \/ (cache.current # None /\ cache.previous # cache.current)

\* What verify_and_record has established on its way to the receipt.
Consistent(o) ==
  LET artifact == op[o].artifact
      prior    == op[o].prior
  IN
  /\ At(o, "read") /\ torn = "never" /\ prior # None =>
       cache.current = prior.artifact /\ prior.previous \in {None, cache.previous}
  /\ At(o, "rotated") /\ torn = "never" =>
       IF cache.current \in {None, artifact}
       THEN cache.previous = None \/ (cache.current # None /\ cache.previous # cache.current)
       ELSE cache.previous = cache.current
  /\ At(o, "stored") => cache.current = artifact
  /\ At(o, "stored") /\ torn = "never" => cache.previous # artifact
  /\ op[o].pc \in {"rotated", "stored"} /\ torn = "never" /\ prior # None =>
       IF prior.artifact = artifact THEN prior.previous \in {None, cache.previous}
       ELSE cache.previous = prior.artifact

ReadyInv == RestoreReady /\ CacheKept /\ \A o \in Op : Consistent(o)

LEMMA ReadyInit == Init => Exclusive /\ ReadyInv
<1>. SUFFICES ASSUME Init PROVE Exclusive /\ ReadyInv
  OBVIOUS
<1>1. \A o \in Op : op[o].pc = "idle"
  BY DEF Init, Idle
<1>2. Exclusive
  BY <1>1 DEF Exclusive, Verifying
<1>3. RestoreReady /\ CacheKept
  BY DEF Init, RestoreReady, CacheKept
<1>4. \A o \in Op : Consistent(o)
  BY <1>1 DEF Consistent, At
<1>. QED
  BY <1>2, <1>3, <1>4 DEF ReadyInv

\* Steps after which no more is verified than before, under the same lock.
LEMMA ExclusiveKept ==
  ASSUME Exclusive,
         \A o \in Op : op'[o].pc \in Verifying =>
                        op[o].pc \in Verifying /\ (lock' = lock \/ lock # Holder(o))
  PROVE  Exclusive'
BY DEF Exclusive, Holder

\* Steps that move one operation, which holds the profile before or after.
LEMMA ExclusiveMove ==
  ASSUME TypeOK, Exclusive, NEW o \in Op, \A q \in Op \ {o} : op'[q] = op[q],
         lock' = lock \/ lock = None,
         op'[o].pc \in Verifying => lock' = Holder(o)
  PROVE  Exclusive'
<1>1. \A q \in Op : Holder(q) # None
  BY NoneIsNothing DEF Holder
<1>. QED
  BY <1>1 DEF Exclusive, Holder

LEMMA ExclusiveNext == TypeOK /\ Exclusive /\ [Next]_vars => Exclusive'
<1>. SUFFICES ASSUME TypeOK, Exclusive, [Next]_vars PROVE Exclusive'
  OBVIOUS
<1>. op \in [Op -> OpState]
  BY DEF TypeOK
<1>1. CASE HelperStarts
  <2>1. \A o \in Op : Holder(o) # None
    BY NoneIsNothing DEF Holder
  <2>. QED
    BY <1>1, <2>1, ExclusiveKept DEF HelperStarts, Exclusive
<1>2. CASE HelperEnds
  <2>1. \A o \in Op : op[o].pc \notin Verifying
    <3>1. \A o \in Op : o \in LuaOp \/ Holder(o) # "helper"
      BY NoneIsNothing DEF Holder
    <3>. QED
      BY <1>2, <3>1 DEF HelperEnds, Exclusive
  <2>. QED
    BY <1>2, <2>1 DEF HelperEnds, Exclusive
<1>3. CASE HelperDies
  <2>1. \A o \in Op : o \in LuaOp => op'[o].pc \notin Verifying
    BY <1>3 DEF HelperDies, Idle, Verifying
  <2>2. \A o \in Op : o \notin LuaOp => op'[o] = op[o] /\ Holder(o) # "helper"
    BY <1>3, NoneIsNothing DEF HelperDies, Holder
  <2>. QED
    BY <1>3, <2>1, <2>2, ExclusiveKept DEF HelperDies
<1>4. CASE Cancel
  <2>1. active \in Op /\ lock' = lock
    BY <1>4 DEF Cancel, TypeOK, Op
  <2>2. op' = op \/ op' = [op EXCEPT ![active] = Idle]
    BY <1>4 DEF Cancel
  <2>3. \A o \in Op : op'[o].pc \in Verifying => op[o].pc \in Verifying
    BY <2>1, <2>2 DEF Idle, Verifying
  <2>. QED
    BY <2>1, <2>3, ExclusiveKept
<1>5. CASE Uninstall \/ UNCHANGED vars \/ \E artifact \in Artifact : InstallByHand(artifact)
  BY <1>5, ExclusiveKept DEF Uninstall, vars, InstallByHand
<1>6. ASSUME NEW o \in Op, CliDies(o) \/ FindNothing(o) \/ WriteReceipt(o) \/ VerifyFails(o)
      PROVE  Exclusive'
  <2>1. /\ op'[o] = Idle /\ (\A q \in Op \ {o} : op'[q] = op[q])
        /\ lock' = IF lock = o THEN None ELSE lock
    BY <1>6 DEF CliDies, FindNothing, WriteReceipt, VerifyFails, End
  <2>2. \A q \in Op \ {o} : lock = o => lock # Holder(q)
    BY NoneIsNothing DEF Holder
  <2>3. \A q \in Op : op'[q].pc \in Verifying =>
                       op[q].pc \in Verifying /\ (lock' = lock \/ lock # Holder(q))
    BY <2>1, <2>2 DEF Idle, Verifying
  <2>. QED
    BY <2>3, ExclusiveKept
<1>7. ASSUME NEW o \in Op, NEW artifact, NEW source, NEW restore,
             Begin(o, artifact, source, restore)
      PROVE  Exclusive'
  BY <1>7, ExclusiveMove DEF Begin, Verifying
<1>8. ASSUME NEW o \in Op, PromptAccepted(o) \/ PromptRefused(o)
      PROVE  Exclusive'
  <2>1. /\ op[o].pc = "prompt" /\ lock' = lock
        /\ op' = [op EXCEPT ![o].pc = "verify"] \/ op' = [op EXCEPT ![o] = Idle]
    BY <1>8 DEF PromptAccepted, PromptRefused, At
  <2>2. op'[o].pc \notin Verifying
    <3>1. CASE op' = [op EXCEPT ![o].pc = "verify"]
      BY <2>1, <3>1, OpCases DEF Verifying
    <3>2. CASE op' = [op EXCEPT ![o] = Idle]
      BY <3>2 DEF Verifying, Idle
    <3>. QED
      BY <2>1, <3>1, <3>2
  <2>. QED
    BY <2>1, <2>2, ExclusiveMove
<1>9. ASSUME NEW o \in Op, Find(o)
      PROVE  Exclusive'
  <2>1. lock' = Holder(o) /\ (lock' = lock \/ lock = None)
    BY <1>9 DEF Find, Holder
  <2>. QED
    BY <1>9, <2>1, ExclusiveMove DEF Find
<1>10. ASSUME NEW o \in Op, Compare(o) \/ ReadPrior(o) \/ Rotate(o) \/ Store(o)
       PROVE  Exclusive'
  <2>1. lock' = lock /\ lock = Holder(o)
    BY <1>10 DEF Compare, ReadPrior, Rotate, Store, GoTo, At, Exclusive, Verifying
  <2>2. \A q \in Op \ {o} : op'[q] = op[q]
    BY <1>10 DEF Compare, ReadPrior, Rotate, Store, GoTo
  <2>. QED
    BY <2>1, <2>2, ExclusiveMove
<1>. QED
  BY <1>1, <1>2, <1>3, <1>4, <1>5, <1>6, <1>7, <1>8, <1>9, <1>10
     DEF Next, Verify, Prepare, PrepareRollback

\* Steps that leave the cache alone and write no receipt: what is cut short
\* between cache and receipt is noted.
LEMMA ReadyKept ==
  ASSUME ReadyInv, cache' = cache, receipt' \in {None, receipt},
         \/ torn' = torn
         \/ torn' = "once" /\ torn = "now" /\ receipt' = None
         \/ torn' = "now",
         \A o \in Op :
           /\ op'[o].pc \in {"read", "rotated", "stored"} => op'[o] = op[o]
           /\ op[o].pc \in {"rotated", "stored"} => op'[o] = op[o] \/ torn' = "now"
  PROVE  ReadyInv'
<1>1. torn' # "now" /\ AtRest' => AtRest
  BY DEF AtRest
<1>2. torn' = "never" => torn = "never"
  OBVIOUS
<1>3. RestoreReady'
  BY <1>1, <1>2 DEF ReadyInv, RestoreReady
<1>4. CacheKept'
  BY <1>1, <1>2 DEF ReadyInv, CacheKept
<1>5. ASSUME NEW o \in Op
      PROVE  Consistent(o)'
  <2>1. CASE op'[o] = op[o]
    BY <1>2, <2>1 DEF ReadyInv, Consistent, At
  <2>2. CASE op'[o].pc \notin {"read", "rotated", "stored"}
    BY <2>2 DEF Consistent, At
  <2>. QED
    BY <2>1, <2>2
<1>. QED
  BY <1>3, <1>4, <1>5 DEF ReadyInv

\* Nobody else is verified meanwhile.
LEMMA Alone ==
  ASSUME OneLuaOp, Exclusive, NEW o \in Op, op[o].pc \in Verifying
  PROVE  \A q \in Op \ {o} : op[q].pc \notin Verifying
<1>1. \A q \in Op \ {o} : Holder(q) # Holder(o)
  BY NoneIsNothing DEF Holder, OneLuaOp, Op
<1>. QED
  BY <1>1 DEF Exclusive

\* Steps of one operation on its way to the receipt.
LEMMA ReadyMove ==
  ASSUME OneLuaOp, Exclusive, NEW o \in Op, op[o].pc \in Verifying,
         \A q \in Op \ {o} : op'[q] = op[q],
         RestoreReady', CacheKept', Consistent(o)'
  PROVE  ReadyInv'
<1>1. \A q \in Op \ {o} : op[q].pc \notin Verifying
  BY Alone
<1>2. \A q \in Op \ {o} : Consistent(q)'
  BY <1>1 DEF Consistent, At, Verifying
<1>. QED
  BY <1>2 DEF ReadyInv

LEMMA ReadyNext ==
  OneLuaOp /\ TypeOK /\ Exclusive /\ ReadyInv /\ [Next]_vars => ReadyInv'
<1>. SUFFICES ASSUME OneLuaOp, TypeOK, Exclusive, ReadyInv, [Next]_vars PROVE ReadyInv'
  OBVIOUS
<1>. op \in [Op -> OpState]
  BY DEF TypeOK
<1>1. CASE HelperStarts \/ HelperEnds \/ UNCHANGED vars
           \/ \E artifact \in Artifact : InstallByHand(artifact)
  BY <1>1, ReadyKept DEF HelperStarts, HelperEnds, vars, InstallByHand
<1>2. CASE HelperDies
  <2>1. torn' \in {torn, "now"}
    BY <1>2 DEF HelperDies
  <2>2. ASSUME NEW o \in Op
        PROVE  /\ op'[o].pc \in {"read", "rotated", "stored"} => op'[o] = op[o]
               /\ op[o].pc \in {"rotated", "stored"} => op'[o] = op[o] \/ torn' = "now"
    BY <1>2 DEF HelperDies, Idle
  <2>. QED
    BY <1>2, <2>1, <2>2, ReadyKept DEF HelperDies
<1>3. CASE Cancel
  <2>1. active \in Op /\ cache' = cache /\ receipt' = receipt /\ torn' = torn
    BY <1>3 DEF Cancel, TypeOK, Op
  <2>2. op' = op \/ (op[active].pc \notin Verifying /\ op' = [op EXCEPT ![active] = Idle])
    BY <1>3 DEF Cancel
  <2>3. ASSUME NEW o \in Op
        PROVE  /\ op'[o].pc \in {"read", "rotated", "stored"} => op'[o] = op[o]
               /\ op[o].pc \in {"rotated", "stored"} => op'[o] = op[o]
    BY <2>1, <2>2 DEF Idle, Verifying
  <2>. QED
    BY <2>1, <2>3, ReadyKept
<1>4. CASE Uninstall
  BY <1>4, ReadyKept DEF Uninstall
<1>5. ASSUME NEW o \in Op, CliDies(o) \/ FindNothing(o) \/ VerifyFails(o)
      PROVE  ReadyInv'
  <2>1. /\ op'[o] = Idle /\ (\A q \in Op \ {o} : op'[q] = op[q])
        /\ cache' = cache /\ receipt' = receipt
    BY <1>5 DEF CliDies, FindNothing, VerifyFails, End
  <2>2. torn' = TornBy(o) \/ (op[o].pc = "verify" /\ torn' = torn)
    BY <1>5 DEF CliDies, FindNothing, VerifyFails, At
  <2>3. torn' \in {torn, "now"} /\ (op[o].pc \in {"rotated", "stored"} => torn' = "now")
    BY <2>2 DEF TornBy
  <2>4. op'[o].pc = "idle"
    BY <2>1 DEF Idle
  <2>. QED
    BY <2>1, <2>3, <2>4, ReadyKept
<1>6. ASSUME NEW o \in Op, NEW artifact, NEW source, NEW restore, MayBegin(o),
             Begin(o, artifact, source, restore)
      PROVE  ReadyInv'
  <2>1. op[o].pc = "idle" /\ op'[o].pc = "prompt"
        /\ \A q \in Op \ {o} : op'[q] = op[q]
    BY <1>6 DEF MayBegin, Begin, Idle
  <2>. QED
    BY <1>6, <2>1, ReadyKept DEF Begin
<1>7. ASSUME NEW o \in Op,
             PromptAccepted(o) \/ PromptRefused(o) \/ Find(o) \/ Compare(o)
      PROVE  ReadyInv'
  <2>1. /\ op[o].pc \in {"prompt", "verify", "found"}
        /\ \/ op' = [op EXCEPT ![o] = Idle]
           \/ \E pc \in {"verify", "found", "compared"} : op' = [op EXCEPT ![o].pc = pc]
        /\ cache' = cache /\ receipt' = receipt /\ torn' = torn
    <3>1. CASE PromptAccepted(o)
      BY <3>1 DEF PromptAccepted, At
    <3>2. CASE PromptRefused(o)
      BY <3>2 DEF PromptRefused, At
    <3>3. CASE Find(o)
      BY <3>3 DEF Find, At
    <3>4. CASE Compare(o)
      BY <3>4 DEF Compare, GoTo, At
    <3>. QED
      BY <1>7, <3>1, <3>2, <3>3, <3>4
  <2>2. op'[o].pc \in {"idle", "verify", "found", "compared"}
    <3>1. CASE op' = [op EXCEPT ![o] = Idle]
      BY <3>1 DEF Idle
    <3>2. ASSUME NEW pc \in {"verify", "found", "compared"}, op' = [op EXCEPT ![o].pc = pc]
          PROVE  op'[o].pc = pc
      BY <2>1, <3>2, OpCases
    <3>. QED
      BY <2>1, <3>1, <3>2
  <2>3. \A q \in Op \ {o} : op'[q] = op[q]
    BY <2>1
  <2>. QED
    BY <2>1, <2>2, <2>3, ReadyKept
<1>8. ASSUME NEW o \in Op, ReadPrior(o)
      PROVE  ReadyInv'
  <2>1. /\ op[o].pc = "compared" /\ cache' = cache /\ receipt' = receipt /\ torn' = torn
        /\ op'[o].pc = "read" /\ op'[o].prior = receipt
        /\ \A q \in Op \ {o} : op'[q] = op[q]
    <3>1. op[o].pc = "compared" /\ op[o] \in OpState
      BY <1>8 DEF ReadPrior, At
    <3>2. op[o] \in [pc : {"prompt", "verify", "found", "compared"}, artifact : Artifact,
                     source : Artifact \cup {None}, restore : BOOLEAN, prior : {None}]
      BY <3>1 DEF OpState, Idle
    <3>. QED
      BY <1>8, <3>1, <3>2 DEF ReadPrior
  <2>2. AtRest
    BY <2>1, Alone DEF AtRest, Verifying
  <2>3. Consistent(o)'
    BY <2>1, <2>2 DEF Consistent, At, ReadyInv, RestoreReady
  <2>4. RestoreReady' /\ CacheKept'
    BY <2>1, <2>2 DEF ReadyInv, RestoreReady, CacheKept
  <2>. QED
    BY <2>1, <2>3, <2>4, ReadyMove DEF Verifying
<1>9. ASSUME NEW o \in Op, Rotate(o) \/ Store(o)
      PROVE  ReadyInv'
  <2>1. /\ receipt' = receipt /\ torn' = torn /\ op[o].pc \in {"read", "rotated"}
        /\ \A q \in Op \ {o} : op'[q] = op[q]
    BY <1>9 DEF Rotate, Store, GoTo, At
  <2>2. /\ op'[o].pc \in {"rotated", "stored"} /\ op'[o].artifact = op[o].artifact
        /\ op'[o].prior = op[o].prior
        /\ Rotate(o) => op'[o].pc = "rotated"
        /\ Store(o) => op'[o].pc = "stored"
    <3>1. CASE Rotate(o)
      BY <3>1, OpCases DEF Rotate, Store, GoTo, At
    <3>2. CASE Store(o)
      BY <3>2, OpCases DEF Rotate, Store, GoTo, At
    <3>. QED
      BY <1>9, <3>1, <3>2
  <2>3. ~ AtRest'
    BY <2>2 DEF AtRest
  <2>4. RestoreReady' /\ CacheKept'
    BY <2>3 DEF RestoreReady, CacheKept
  <2>5. /\ op[o].artifact \in Artifact /\ op[o].artifact # None
        /\ op[o].prior # None => op[o].prior.artifact # None
        /\ cache \in [current : Artifact \cup {None}, previous : Artifact \cup {None}]
    BY <2>1, OpCases, NoneIsNothing DEF TypeOK, Receipt
  <2>6. CASE Rotate(o)
    <3>1. At(o, "read") /\ AtRest /\ Consistent(o) /\ CacheKept
      BY <2>1, <2>6, Alone DEF Rotate, At, AtRest, Verifying, ReadyInv
    <3>2. cache' = IF cache.current \in {None, op[o].artifact} THEN cache
                   ELSE [cache EXCEPT !.previous = cache.current]
      BY <2>6 DEF Rotate
    <3>3. ASSUME cache.current \in {None, op[o].artifact}
          PROVE  Consistent(o)'
      BY <2>1, <2>2, <2>5, <2>6, <3>1, <3>2, <3>3 DEF Consistent, At, CacheKept
    <3>4. ASSUME cache.current \notin {None, op[o].artifact}
          PROVE  Consistent(o)'
      <4>1. cache'.current = cache.current /\ cache'.previous = cache.current
        BY <2>5, <3>2, <3>4
      <4>. QED
        BY <2>1, <2>2, <2>5, <2>6, <3>1, <3>4, <4>1 DEF Consistent, At
    <3>5. Consistent(o)'
      BY <3>3, <3>4
    <3>. QED
      BY <2>1, <2>4, <3>5, ReadyMove DEF Verifying
  <2>7. CASE Store(o)
    <3>1. At(o, "rotated") /\ Consistent(o)
      BY <2>7 DEF Store, ReadyInv
    <3>2. cache'.current = op[o].artifact /\ cache'.previous = cache.previous
      BY <2>5, <2>7 DEF Store
    <3>3. Consistent(o)'
      BY <2>1, <2>2, <2>5, <2>7, <3>1, <3>2 DEF Consistent, At
    <3>. QED
      BY <2>1, <2>4, <3>3, ReadyMove DEF Verifying
  <2>. QED
    BY <1>9, <2>6, <2>7
<1>10. ASSUME NEW o \in Op, WriteReceipt(o)
       PROVE  ReadyInv'
  <2>1. /\ op[o].pc = "stored" /\ Consistent(o) /\ cache' = cache /\ receipt' = ReceiptOf(o)
        /\ op'[o] = Idle /\ (\A q \in Op \ {o} : op'[q] = op[q])
        /\ torn' = IF torn = "now" THEN "once" ELSE torn
    BY <1>10 DEF WriteReceipt, End, At, ReadyInv
  <2>2. Consistent(o)'
    BY <2>1 DEF Consistent, At, Idle
  <2>3. cache.current = op[o].artifact /\ receipt'.artifact = op[o].artifact
    BY <2>1 DEF Consistent, At, ReceiptOf
  <2>4. op[o].artifact # None
    BY <2>1, OpCases, NoneIsNothing
  <2>5. ASSUME torn' = "never"
        PROVE  cache.previous # cache.current /\ receipt'.previous \in {None, cache.previous}
    BY <2>1, <2>3, <2>5 DEF Consistent, At, ReceiptOf
  <2>6. RestoreReady' /\ CacheKept'
    BY <2>1, <2>3, <2>4, <2>5 DEF RestoreReady, CacheKept
  <2>. QED
    BY <2>1, <2>2, <2>6, ReadyMove DEF Verifying
<1>. QED
  BY <1>1, <1>2, <1>3, <1>4, <1>5, <1>6, <1>7, <1>8, <1>9, <1>10
     DEF Next, Verify, Prepare, PrepareRollback, MayRestore

\* When no operation of the window goes on beside another, a restore finds the
\* package the receipt records and an earlier one beside it, however the
\* window and the command line tool take turns and wherever they die.
THEOREM RestoresAreReady ==
  ASSUME OneLuaOp
  PROVE  Spec => []RestoreReady
<1>1. Init => TypeOK /\ Exclusive /\ ReadyInv
  BY TypeInit, ReadyInit
<1>2. TypeOK /\ Exclusive /\ ReadyInv /\ [Next]_vars => (TypeOK /\ Exclusive /\ ReadyInv)'
  BY OneLuaOp, TypeNext, ExclusiveNext, ReadyNext
<1>3. ReadyInv => RestoreReady
  BY DEF ReadyInv
<1>. QED
  BY <1>1, <1>2, <1>3, PTL DEF Spec

=============================================================================
