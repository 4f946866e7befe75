------------------------- MODULE ManagerTransaction -------------------------
(***************************************************************************)
(* What a manager update or rollback promises, without files, processes or *)
(* crashes: a transaction is opened when none is open; the installed       *)
(* manager may be replaced at any time, by anything; the receipt changes   *)
(* only to record an open transaction whose target is installed intact;    *)
(* and a transaction is closed only when it has been recorded or when the  *)
(* manager it would have replaced is still intact.                         *)
(***************************************************************************)
CONSTANTS Version, None

Transaction == [target : Version, previous : Version]

VARIABLES
  installed,  \* the installed manager: [version, intact]
  open,       \* the open transaction, or None
  recorded    \* the transaction the receipt tells of, or None

tvars == <<installed, open, recorded>>

Intact(v) == installed = [version |-> v, intact |-> TRUE]

Init ==
  /\ installed \in [version : Version, intact : {TRUE}]
  /\ open = None /\ recorded = None

Open ==
  /\ open = None
  /\ open' \in Transaction
  /\ UNCHANGED <<installed, recorded>>

Replace ==
  /\ installed' \in [version : Version, intact : BOOLEAN]
  /\ UNCHANGED <<open, recorded>>

Record ==
  /\ open # None /\ Intact(open.target)
  /\ recorded' = open
  /\ UNCHANGED <<installed, open>>

CloseRecorded ==
  /\ open # None /\ recorded = open /\ Intact(open.target)
  /\ open' = None
  /\ UNCHANGED <<installed, recorded>>

Discard ==
  /\ open # None /\ Intact(open.previous)
  /\ open' = None
  /\ UNCHANGED <<installed, recorded>>

Next == Open \/ Replace \/ Record \/ CloseRecorded \/ Discard

Spec == Init /\ [][Next]_tvars

=============================================================================
