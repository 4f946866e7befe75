-------------------------- MODULE Controller_proofs --------------------------
(***************************************************************************)
(* Proofs about Controller, for any number of packages, connections,       *)
(* operations and refreshes: type correctness, that the uninstall lock     *)
(* stands for what the helper has done, that the list is true, and that    *)
(* the window never waits for good.                                        *)
(***************************************************************************)
EXTENDS Controller, TLAPS

\* Nothing of an unloaded plugin remains.
Unloaded ==
  window = "exited" =>
    /\ pending = {} /\ rpc = None /\ ~offer
    /\ prompt = None /\ ~selfUpdateTimer /\ activeOperation = None

\* Operations and refreshes are numbered as they begin.
Numbered ==
  /\ \A r \in pending : r.operation <= operations /\ r.generation <= refreshGeneration
  /\ activeOperation # None => activeOperation.id <= operations

\* What the active operation is, and which requests it may have.
Operating ==
  activeOperation # None =>
    /\ activeOperation.progress = (activeOperation.kind # "uninstall")
    /\ activeOperation.prepared => activeOperation.kind = "self"
    /\ activeOperation.kind = "self" => activeOperation.package = None
    /\ \A r \in pending : r.operation = activeOperation.id =>
         /\ r.kind = "uninstall" <=> activeOperation.kind = "uninstall"
         /\ r.kind = "shutdown" => activeOperation.prepared

\* The removals there may be beside those the window knows of.
Unsettled(previous) ==
  IF previous = "clean" THEN moved ELSE moved \cap listed

\* An uninstall under way is the only one, and moves nothing but its package.
\* Until its answer is that the folder was moved, nothing else was; after an
\* answer nothing will be.
Removing ==
  LET o == activeOperation IN
  /\ o # None /\ o.kind = "uninstall" /\ o.package # None
  /\ asked \subseteq {[operation |-> o.id, package |-> o.package]}
  /\ Unsettled(o.previous) \subseteq {o.package}
  /\ \A r \in pending : r.kind = "uninstall" /\ r.operation = o.id =>
       /\ r.served # "no" => asked = {}
       /\ r.served # "yes" => Unsettled(o.previous) = {}

\* The lock: other operations and the installer's prompt need it off.
Locked ==
  window # "exited" =>
    /\ uninstallState = "clean" => asked = {} /\ moved = {}
    /\ uninstallState = "confirmed" => asked = {} /\ moved \cap listed = {}
    /\ uninstallState = "pending" => Removing
    /\ activeOperation # None /\ activeOperation.kind # "uninstall" => uninstallState = "clean"
    /\ activeOperation # None /\ activeOperation.kind = "uninstall" => uninstallState = "pending"
    /\ prompt # None => uninstallState = "clean"

\* No refresh that counts is under way while the lock is on.
Refreshing ==
  window # "exited" /\ restartRequired =>
    \A r \in pending : r.kind \in Chain => r.generation # refreshGeneration

\* The list, and what the current refresh has read, has every package that
\* was verified.
Listing ==
  /\ ready => verified \subseteq listed
  /\ \A r \in pending : r.kind \in Chain /\ r.generation = refreshGeneration =>
       /\ r.kind # "scanInstalled" => verified \subseteq listed
       /\ r.served = "yes" => verified \subseteq r.seen

\* The current connection is not being closed.
Connected ==
  /\ \A r \in pending : r.kind = "shutdown" => r.client # rpc
  /\ \A r \in pending : r.client = rpc => ~r.lost

\* The startup check is made once, and finds a window that is shut at rest.
Startup ==
  /\ \A r, s \in pending : r.kind = "startup" /\ s.kind = "startup" => r = s
  /\ checkDue \/ offer => \A r \in pending : r.kind # "startup"
  /\ ~(checkDue /\ offer)
  /\ window = "shut" /\ (checkDue \/ \E r \in pending : r.kind = "startup") =>
       activeOperation = None /\ ~busy

\* Something is under way on the current connection.
Waiting ==
  window # "exited" =>
    /\ activeOperation # None /\ activeOperation.kind = "uninstall" =>
         /\ window = "open"
         /\ \E r \in pending : /\ r.kind = "uninstall" /\ r.client = rpc
                               /\ r.operation = activeOperation.id
    /\ busy /\ activeOperation = None =>
         \E r \in pending : /\ r.kind \in Chain /\ r.client = rpc
                            /\ r.generation = refreshGeneration

Inv ==
  /\ TypeOK /\ Unloaded /\ Numbered /\ Operating /\ Locked /\ Refreshing
  /\ Listing /\ Connected /\ Startup /\ Waiting

-----------------------------------------------------------------------------
(* Types.                                                                  *)

RequestKind == Chain \cup {"startup", "prepare", "verify", "uninstall", "shutdown"}

\* What TypeOK says of single requests and operations.
LEMMA Types ==
  ASSUME TypeOK
  PROVE  /\ operations \in Nat /\ operations <= MaxOperation
         /\ refreshGeneration \in Nat /\ refreshGeneration <= MaxGeneration
         /\ \A r \in pending :
              /\ r \in Request /\ r.kind \in RequestKind
              /\ r.client \in Client /\ r.client # None
              /\ r.generation \in Nat /\ r.operation \in Nat
              /\ r.served \in {"no", "yes", "refused"} /\ r.seen \subseteq Package
              /\ r.lost \in BOOLEAN
         /\ activeOperation # None =>
              /\ activeOperation \in Operation
              /\ activeOperation.id \in 1 .. MaxOperation /\ activeOperation.kind \in Kind
              /\ activeOperation.package \in Package \cup {None}
              /\ activeOperation.previous \in {"clean", "confirmed"}
              /\ activeOperation.prepared \in BOOLEAN /\ activeOperation.progress \in BOOLEAN
         /\ prompt # None => prompt \in Operation /\ prompt.id \in 1 .. MaxOperation
                             /\ prompt.package \in Package \cup {None}
BY ControllerAssumption DEF TypeOK, Request, Operation, RequestKind

\* A request has been made, on the current connection or on a new one.
Requested(new, rest, kind, g, o) ==
  /\ new \in Request /\ new.kind = kind /\ new.generation = g /\ new.operation = o
  /\ new.served = "no" /\ new.lost = FALSE /\ new.client = rpc'
  /\ rpc' \in Client /\ rpc' # None /\ (rpc # None => rpc' = rpc)
  /\ pending' = rest \cup {new} /\ pending' \subseteq Request
  /\ \A r \in rest : r.kind = "shutdown" => r.client # rpc'
  /\ \A r \in rest : r.client = rpc' => ~r.lost

LEMMA AskIs ==
  ASSUME TypeOK, Connected, NEW rest \in SUBSET pending, NEW kind \in RequestKind,
         NEW g \in 0 .. MaxGeneration, NEW o \in 0 .. MaxOperation, Ask(rest, kind, g, o)
  PROVE  \E new : Requested(new, rest, kind, g, o)
<1>1. PICK c \in IF rpc # None THEN {rpc} ELSE {d \in Client : \A r \in rest : r.client # d} :
        rpc' = c /\ pending' = rest \cup {NewRequest(kind, c, g, o)}
  BY DEF Ask
<1>2. /\ c \in Client /\ c # None /\ (rpc # None => c = rpc)
      /\ rpc = None => \A r \in rest : r.client # c
  BY <1>1, ControllerAssumption DEF TypeOK
<1>3. /\ \A r \in rest : r.kind = "shutdown" => r.client # c
      /\ \A r \in rest : r.client = c => ~r.lost
  BY <1>2 DEF Connected
<1> DEFINE new == NewRequest(kind, c, g, o)
<1>4. /\ new \in Request /\ new.kind = kind /\ new.client = c /\ new.generation = g
      /\ new.operation = o /\ new.served = "no" /\ new.lost = FALSE
  BY <1>2 DEF NewRequest, Request, RequestKind
<1>5. pending' = rest \cup {new}
  BY <1>1
<1> HIDE DEF new
<1>6. pending' \subseteq Request
  BY <1>4, <1>5 DEF TypeOK
<1>7. Requested(new, rest, kind, g, o)
  BY <1>1, <1>2, <1>3, <1>4, <1>5, <1>6 DEF Requested
<1> QED
  BY <1>7

LEMMA RefreshIs ==
  ASSUME TypeOK, Connected, NEW rest \in SUBSET pending, NEW stillBusy \in BOOLEAN,
         Refresh(rest, stillBusy), ~restartRequired
  PROVE  /\ ready' = FALSE /\ busy' = TRUE /\ refreshGeneration' = refreshGeneration + 1
         /\ refreshGeneration' \in 0 .. MaxGeneration
         /\ \E new : Requested(new, rest, "scanInstalled", refreshGeneration', 0)
<1>1. /\ ready' = FALSE /\ busy' = TRUE
      /\ refreshGeneration' = refreshGeneration + 1 /\ refreshGeneration < MaxGeneration
      /\ Ask(rest, "scanInstalled", refreshGeneration', 0)
  BY DEF Refresh
<1>2. refreshGeneration' \in 0 .. MaxGeneration /\ 0 \in 0 .. MaxOperation
  BY <1>1, ControllerAssumption DEF TypeOK
<1>3. "scanInstalled" \in RequestKind
  BY DEF RequestKind, Chain
<1> QED
  BY <1>1, <1>2, <1>3, AskIs

\* The current connection, if there is one, is being closed.
LEMMA ShutdownIs ==
  ASSUME TypeOK, NEW rest \in SUBSET pending, NEW o \in 0 .. MaxOperation, Shutdown(rest, o)
  PROVE  /\ rpc' = None /\ pending' \subseteq Request
         /\ \A r \in pending' : r.client # rpc'
         /\ \A r \in pending' :
              \/ r \in rest
              \/ /\ r.kind = "shutdown" /\ r.generation = 0 /\ r.operation = o
<1> DEFINE new == NewRequest("shutdown", rpc, 0, o)
<1>1. rpc' = None /\ \A r \in pending' : r \in rest \/ (rpc # None /\ r = new)
  BY DEF Shutdown
<1>2. rpc # None => /\ new \in Request /\ new.kind = "shutdown"
                    /\ new.generation = 0 /\ new.operation = o
  BY ControllerAssumption DEF NewRequest, Request, TypeOK
<1> HIDE DEF new
<1>3. \A r \in rest : r \in Request
  BY DEF TypeOK
<1>4. pending' \subseteq Request
  BY <1>1, <1>2, <1>3
<1>5. \A r \in pending' : r.client # None
  BY <1>4, ControllerAssumption DEF Request
<1> QED
  BY <1>1, <1>2, <1>4, <1>5

-----------------------------------------------------------------------------
(* What several actions do.                                                *)

\* The operation that was active, if any, is over, and the list is refreshed.
LEMMA RefreshKeeps ==
  ASSUME Inv, window # "exited", uninstallState # "pending",
         NEW rest \in SUBSET pending, NEW stillBusy \in BOOLEAN, Refresh(rest, stillBusy),
         stillBusy => busy /\ activeOperation = None /\ rest = pending,
         activeOperation' = None, selfUpdateTimer' = FALSE,
         prompt' = prompt \/ prompt' = None,
         window' = window \/ window' = "open",
         window' = "shut" => activeOperation # None,
         UNCHANGED <<operations, uninstallState, offer, checkDue, listed, asked, moved>>,
         installed' \subseteq Package, moved \cap installed' = {}, verified' \subseteq installed',
         restartRequired => verified' \subseteq verified
  PROVE  Inv'
<1>. USE DEF Inv
<1>1. Unloaded' /\ Operating' /\ Locked'
  BY DEF Unloaded, Operating, Locked, Removing
<1>2. CASE restartRequired
  <2>. ready' = FALSE /\ pending' = rest /\ busy' = stillBusy
       /\ rpc' = rpc /\ refreshGeneration' = refreshGeneration
    BY <1>2 DEF Refresh
  <2>1. TypeOK'
    BY DEF TypeOK
  <2>2. Numbered'
    BY DEF Numbered
  <2>3. Refreshing' /\ Listing'
    BY <1>2 DEF Refreshing, Listing, restartRequired
  <2>4. Connected' /\ Startup'
    BY DEF Connected, Startup
  <2>5. Waiting'
    BY DEF Waiting
  <2> QED
    BY <1>1, <2>1, <2>2, <2>3, <2>4, <2>5
<1>3. CASE ~restartRequired
  <2>1. /\ ready' = FALSE /\ busy' = TRUE /\ refreshGeneration' = refreshGeneration + 1
        /\ refreshGeneration' \in 0 .. MaxGeneration
        /\ \E new : Requested(new, rest, "scanInstalled", refreshGeneration', 0)
    BY <1>3, RefreshIs
  <2>2. PICK new : Requested(new, rest, "scanInstalled", refreshGeneration', 0)
    BY <2>1
  <2>3. refreshGeneration \in Nat
        /\ \A r \in rest : r.generation \in Nat /\ r.generation <= refreshGeneration
    BY Types DEF Numbered
  <2>4. TypeOK'
    BY <2>1, <2>2 DEF TypeOK, Requested
  <2>5. Numbered'
    BY <2>1, <2>2, <2>3, Types DEF Numbered, Requested
  <2>6. Refreshing'
    BY <1>3 DEF Refreshing, restartRequired
  <2>7. Listing'
    BY <2>1, <2>2, <2>3 DEF Listing, Requested
  <2>8. Connected' /\ Startup'
    BY <2>1, <2>2 DEF Connected, Startup, Requested
  <2>9. Waiting'
    BY <2>1, <2>2 DEF Waiting, Requested, Chain
  <2> QED
    BY <1>1, <2>4, <2>5, <2>6, <2>7, <2>8, <2>9
<1> QED
  BY <1>2, <1>3

\* The operation is over, and nothing else begins.
LEMMA EndKeeps ==
  ASSUME Inv, window # "exited", uninstallState # "pending",
         NEW rest \in SUBSET pending, NoRefresh(rest),
         activeOperation' = None, selfUpdateTimer' = FALSE,
         prompt' = prompt \/ prompt' = None,
         UNCHANGED <<window, operations, uninstallState, offer, checkDue, listed, asked, moved>>,
         installed' \subseteq Package, moved \cap installed' = {}, verified' \subseteq installed',
         verified' \subseteq verified
  PROVE  Inv'
<1>. USE DEF Inv, NoRefresh, Idle
<1>1. TypeOK'
  BY DEF TypeOK
<1>2. Unloaded'
  BY DEF Unloaded
<1>3. Numbered'
  BY DEF Numbered
<1>4. Operating'
  BY DEF Operating
<1>5. Locked'
  BY DEF Locked, Removing
<1>6. Refreshing'
  BY DEF Refreshing, restartRequired
<1>7. Listing'
  BY DEF Listing
<1>8. Connected'
  BY DEF Connected
<1>9. Startup'
  BY DEF Startup
<1>10. Waiting'
  BY DEF Waiting
<1> QED
  BY <1>1, <1>2, <1>3, <1>4, <1>5, <1>6, <1>7, <1>8, <1>9, <1>10

\* Requests go whose answers are not waited for.
LEMMA RestKeeps ==
  ASSUME Inv, window # "exited", pending' \in SUBSET pending,
         \A r \in pending : r \notin pending' =>
           /\ r.kind = "uninstall" => ~IsActive(r.operation)
           /\ r.kind \in Chain => ~Current(r),
         offer' \in BOOLEAN,
         offer' => offer \/ (~checkDue /\ \A r \in pending' : r.kind # "startup"),
         UNCHANGED <<window, rpc, refreshGeneration, operating, uninstallState, checkDue,
                     model, disk>>
  PROVE  Inv'
<1>. USE DEF Inv, operating, model, disk
<1>1. TypeOK'
  BY DEF TypeOK
<1>2. Unloaded' /\ Numbered' /\ Operating'
  BY DEF Unloaded, Numbered, Operating
<1>3. Locked'
  BY DEF Locked, Removing, Unsettled
<1>4. Refreshing' /\ Listing' /\ Connected'
  BY DEF Refreshing, Listing, Connected, restartRequired
<1>5. Startup'
  BY DEF Startup
<1>6. Waiting'
  BY DEF Waiting, IsActive, Current
<1> QED
  BY <1>1, <1>2, <1>3, <1>4, <1>5, <1>6

\* A shut window's connection is closed.
LEMMA StopKeeps ==
  ASSUME Inv, window = "shut", ~busy, NEW rest \in SUBSET pending, Shutdown(rest, 0),
         offer' \in BOOLEAN, offer' => offer,
         UNCHANGED <<window, refreshGeneration, operating, uninstallState, checkDue, model, disk>>
  PROVE  Inv'
<1>. USE DEF Inv, operating, model, disk
<1>1. rpc' = None /\ pending' \subseteq Request /\ \A r \in pending' : r.client # rpc'
  BY ShutdownIs, ControllerAssumption
<1>3. \A r \in pending' : \/ r \in rest
                         \/ /\ r.kind = "shutdown" /\ r.generation = 0 /\ r.operation = 0
  BY ShutdownIs, ControllerAssumption
<1>4. TypeOK'
  BY <1>1 DEF TypeOK
<1>5. Unloaded' /\ Numbered'
  BY <1>3, Types DEF Unloaded, Numbered
<1>6. Operating'
  BY <1>3, Types DEF Operating
<1>7. Locked'
  BY <1>3 DEF Locked, Removing, Unsettled
<1>8. Refreshing' /\ Listing'
  BY <1>3 DEF Refreshing, Listing, restartRequired, Chain
<1>9. Connected'
  BY <1>1 DEF Connected
<1>10. Startup' /\ Waiting'
  BY <1>3 DEF Startup, Waiting
<1> QED
  BY <1>4, <1>5, <1>6, <1>7, <1>8, <1>9, <1>10

\* An operation other than an uninstall begins, with a request or without.
LEMMA BeginKeeps ==
  ASSUME Inv, window # "exited", uninstallState = "clean", NEW rest \in SUBSET pending,
         NEW kind \in Kind, kind # "uninstall", NEW p \in Package \cup {None},
         kind = "self" => p = None,
         NEW restore \in BOOLEAN, Begin(kind, p, restore),
         \/ Ask(rest, "prepare", 0, operations + 1)
         \/ rest = pending /\ UNCHANGED requests,
         window = "shut" => ~checkDue /\ \A r \in rest : r.kind # "startup",
         ~selfUpdateTimer, offer' \in BOOLEAN, offer' => offer,
         UNCHANGED <<window, refreshGeneration, prompt, selfUpdateTimer, uninstallState,
                     checkDue, listed, disk>>
  PROVE  Inv'
<1>. USE DEF Inv, disk
<1>1. /\ operations < MaxOperation /\ operations' = operations + 1
      /\ busy' = TRUE /\ ready' = FALSE
      /\ activeOperation' =
           [id |-> operations + 1, kind |-> kind, package |-> p, restore |-> restore,
            progress |-> TRUE, prepared |-> FALSE, previous |-> "clean"]
  BY DEF Begin
<1>2. operations \in Nat /\ operations + 1 \in 1 .. MaxOperation
  BY <1>1, ControllerAssumption DEF TypeOK
<1>3. /\ activeOperation' \in Operation /\ activeOperation' # None
      /\ activeOperation'.id = operations + 1 /\ activeOperation'.kind = kind
      /\ activeOperation'.progress = TRUE /\ activeOperation'.prepared = FALSE
      /\ activeOperation'.package = p
  <2> DEFINE op == [id |-> operations + 1, kind |-> kind, package |-> p, restore |-> restore,
                    progress |-> TRUE, prepared |-> FALSE, previous |-> "clean"]
  <2>1. op \in Operation
    BY <1>2 DEF Operation
  <2>2. /\ op.id = operations + 1 /\ op.kind = kind /\ op.progress = TRUE
        /\ op.prepared = FALSE /\ op.package = p
    OBVIOUS
  <2>3. activeOperation' = op
    BY <1>1
  <2> HIDE DEF op
  <2> QED
    BY <2>1, <2>2, <2>3, OperationAssumption
<1>4. "prepare" \in RequestKind /\ 0 \in 0 .. MaxGeneration /\ operations + 1 \in 0 .. MaxOperation
  BY <1>2, ControllerAssumption DEF RequestKind
<1>5. PICK made \in SUBSET Request :
        /\ pending' = rest \cup made /\ pending' \subseteq Request
        /\ \A new \in made : /\ new.kind = "prepare" /\ new.generation = 0
                            /\ new.operation = operations + 1 /\ new.served = "no"
                            /\ new.lost = FALSE /\ new.client = rpc' /\ rpc' # None
        /\ rpc' \in Client \cup {None} /\ (rpc # None => rpc' = rpc)
        /\ \A r \in rest : r.kind = "shutdown" => r.client # rpc'
        /\ \A r \in rest : r.client = rpc' => ~r.lost
  <2>1. CASE Ask(rest, "prepare", 0, operations + 1)
    <3>1. PICK new : Requested(new, rest, "prepare", 0, operations + 1)
      BY <1>4, <2>1, AskIs
    <3> WITNESS {new} \in SUBSET Request
    <3> QED
      BY <3>1 DEF Requested
  <2>2. CASE rest = pending /\ UNCHANGED requests
    <3> WITNESS {} \in SUBSET Request
    <3> QED
      BY <2>2 DEF requests, TypeOK, Connected
  <2> QED
    BY <2>1, <2>2
<1>6. \A r \in rest : r.operation \in Nat /\ r.operation <= operations
                      /\ r.generation \in Nat /\ r.generation <= refreshGeneration
  BY Types DEF Numbered
<1>7. TypeOK'
  <2>1. pending' \subseteq Request /\ rpc' \in Client \cup {None} /\ operations' \in 0 .. MaxOperation
    BY <1>1, <1>2, <1>5, ControllerAssumption
  <2> QED
    BY <1>1, <1>3, <2>1 DEF TypeOK
<1>8. Unloaded'
  BY DEF Unloaded
<1>9. Numbered'
  BY <1>1, <1>2, <1>3, <1>5, <1>6, Types DEF Numbered
<1>10. Operating'
  <2>1. \A r \in pending' : r.operation = operations + 1 => r \in made
    BY <1>2, <1>5, <1>6
  <2>2. \A r \in made : r.kind = "prepare"
    BY <1>5
  <2> QED
    BY <1>3, <2>1, <2>2 DEF Operating
<1>11. Locked' /\ Refreshing'
  BY <1>3 DEF Locked, Refreshing, restartRequired
<1>12. Listing'
  BY <1>1, <1>5 DEF Listing, Chain
<1>13. Connected'
  BY <1>5, Types DEF Connected
<1>14. Startup'
  BY <1>5 DEF Startup
<1>15. Waiting'
  BY <1>3 DEF Waiting
<1> QED
  BY <1>7, <1>8, <1>9, <1>10, <1>11, <1>12, <1>13, <1>14, <1>15

\* The operation makes its next request.
LEMMA AskKeeps ==
  ASSUME Inv, window # "exited", activeOperation # None, activeOperation.kind # "uninstall",
         NEW rest \in SUBSET pending, NEW kind \in {"prepare", "verify"},
         \A r \in pending : r \in rest \/ r.kind = "prepare",
         Ask(rest, kind, 0, activeOperation.id),
         prompt' = prompt \/ prompt' = None,
         installed' \subseteq Package, moved \cap installed' = {}, verified \subseteq installed',
         UNCHANGED <<window, refreshGeneration, activeOperation, operations, selfUpdateTimer,
                     uninstallState, startup, model, asked, moved, verified>>
  PROVE  Inv'
<1>. USE DEF Inv, startup, model
<1>1. kind \in RequestKind /\ 0 \in 0 .. MaxGeneration /\ activeOperation.id \in 0 .. MaxOperation
  BY Types, ControllerAssumption DEF RequestKind
<1>2. PICK new : Requested(new, rest, kind, 0, activeOperation.id)
  BY <1>1, AskIs
<1>3. TypeOK'
  BY <1>2 DEF TypeOK, Requested
<1>4. Unloaded'
  BY DEF Unloaded
<1>5. Numbered'
  BY <1>2, Types DEF Numbered, Requested
<1>6. Operating'
  BY <1>2 DEF Operating, Requested
<1>7. Locked'
  BY DEF Locked
<1>8. Refreshing' /\ Listing'
  BY <1>2 DEF Refreshing, Listing, restartRequired, Requested, Chain
<1>9. Connected'
  BY <1>2, Types DEF Connected, Requested
<1>10. Startup'
  BY <1>2 DEF Startup, Requested
<1>11. Waiting'
  BY DEF Waiting
<1> QED
  BY <1>3, <1>4, <1>5, <1>6, <1>7, <1>8, <1>9, <1>10, <1>11

\* The window is opened again, or a prompt comes back that nothing waits for.
LEMMA StillKeeps ==
  ASSUME Inv, window # "exited", window' = window \/ window' = "open",
         ready' \in BOOLEAN, ready' => ready, prompt' = prompt \/ prompt' = None,
         UNCHANGED <<requests, refreshGeneration, activeOperation, operations, selfUpdateTimer,
                     uninstallState, startup, busy, listed, asked, moved>>,
         installed' \subseteq Package, moved \cap installed' = {}, verified' \subseteq installed',
         verified' \subseteq verified
  PROVE  Inv'
<1>. USE DEF Inv, requests, startup
<1>1. TypeOK'
  BY DEF TypeOK
<1>2. Unloaded' /\ Numbered' /\ Operating'
  BY DEF Unloaded, Numbered, Operating
<1>3. Locked'
  BY DEF Locked, Removing, Unsettled
<1>4. Refreshing' /\ Listing' /\ Connected'
  BY DEF Refreshing, Listing, Connected, restartRequired
<1>5. Startup' /\ Waiting'
  BY DEF Startup, Waiting
<1> QED
  BY <1>1, <1>2, <1>3, <1>4, <1>5

\* The installer's prompt opens.
LEMMA PromptKeeps ==
  ASSUME Inv, window # "exited", activeOperation # None, activeOperation.kind # "uninstall",
         prompt' = activeOperation, selfUpdateTimer' \in BOOLEAN,
         selfUpdateTimer' => selfUpdateTimer,
         pending' \in SUBSET pending,
         \A r \in pending : r \in pending' \/ r.kind = "prepare",
         UNCHANGED <<window, rpc, refreshGeneration, activeOperation, operations,
                     uninstallState, startup, model, disk>>
  PROVE  Inv'
<1>. USE DEF Inv, startup, model, disk
<1>1. TypeOK'
  BY DEF TypeOK
<1>2. Unloaded' /\ Numbered' /\ Operating'
  BY DEF Unloaded, Numbered, Operating
<1>3. Locked'
  BY DEF Locked
<1>4. Refreshing' /\ Listing' /\ Connected'
  BY DEF Refreshing, Listing, Connected, restartRequired
<1>5. Startup' /\ Waiting'
  BY DEF Startup, Waiting
<1> QED
  BY <1>1, <1>2, <1>3, <1>4, <1>5

\* The same requests, of which the helper has served some.
Alike(q, r) ==
  /\ q.kind = r.kind /\ q.client = r.client /\ q.lost = r.lost
  /\ q.generation = r.generation /\ q.operation = r.operation

LEMMA AlikeKeeps ==
  ASSUME Unloaded, Numbered, Operating, Refreshing, Connected, Startup, Waiting,
         \A q \in pending' : \E r \in pending : Alike(q, r),
         \A r \in pending : \E q \in pending' : Alike(q, r),
         \A q \in pending' : q.kind = "startup" => q \in pending,
         UNCHANGED <<window, rpc, refreshGeneration, operating, uninstallState, startup, model>>
  PROVE  Unloaded' /\ Numbered' /\ Operating' /\ Refreshing' /\ Connected' /\ Startup' /\ Waiting'
<1>. USE DEF Alike, operating, startup, model
<1>1. Unloaded' /\ Numbered'
  BY DEF Unloaded, Numbered
<1>2. Operating'
  BY DEF Operating
<1>3. Refreshing' /\ Connected'
  BY DEF Refreshing, Connected, restartRequired
<1>4. Startup'
  BY DEF Startup
<1>5. Waiting'
  BY DEF Waiting
<1> QED
  BY <1>1, <1>2, <1>3, <1>4, <1>5

-----------------------------------------------------------------------------
(* The user.                                                               *)

LEMMA OpenKeeps ==
  ASSUME Inv, Open  PROVE Inv'
<1>. USE DEF Inv, Open, operating, startup, disk
<1>1. window # "exited" /\ moved \cap installed = {} /\ verified \subseteq installed
      /\ installed \subseteq Package /\ busy \in BOOLEAN
  BY DEF TypeOK
<1>2. CASE restartRequired
  <2>1. ready' = FALSE /\ UNCHANGED <<requests, refreshGeneration, busy>>
    BY <1>2 DEF Refresh, requests
  <2> QED
    BY <1>1, <2>1, StillKeeps
<1>3. CASE ~restartRequired /\ activeOperation = None
  <2>1. Refresh(pending, busy) /\ uninstallState # "pending"
    BY <1>3 DEF restartRequired
  <2>2. activeOperation' = None /\ selfUpdateTimer' = FALSE
    BY <1>3 DEF TypeOK
  <2> QED
    BY <1>1, <1>3, <2>1, <2>2, RefreshKeeps
<1>4. CASE ~restartRequired /\ activeOperation # None
  <2>1. UNCHANGED <<requests, refreshGeneration, busy, ready>> /\ ready \in BOOLEAN
    BY <1>4 DEF TypeOK
  <2> QED
    BY <1>1, <2>1, StillKeeps
<1> QED
  BY <1>2, <1>3, <1>4

LEMMA RefreshClickedKeeps ==
  ASSUME Inv, RefreshClicked  PROVE Inv'
<1>. USE DEF Inv, RefreshClicked, Clickable, operating, startup, disk
<1>1. window = "open" /\ moved \cap installed = {} /\ verified \subseteq installed
      /\ installed \subseteq Package /\ busy \in BOOLEAN
  BY DEF TypeOK
<1>2. CASE restartRequired
  <2>1. ready' = FALSE /\ UNCHANGED <<requests, refreshGeneration, busy>>
    BY <1>2 DEF Refresh, requests
  <2> QED
    BY <1>1, <2>1, StillKeeps
<1>3. CASE ~restartRequired
  <2>1. Refresh(pending, busy) /\ uninstallState # "pending"
    BY <1>3 DEF restartRequired
  <2>2. activeOperation' = None /\ selfUpdateTimer' = FALSE
    BY <1>3 DEF TypeOK
  <2> QED
    BY <1>1, <1>3, <2>1, <2>2, RefreshKeeps
<1> QED
  BY <1>2, <1>3

LEMMA BeginInstallKeeps ==
  ASSUME Inv, BeginInstall  PROVE Inv'
<1>. USE DEF Inv, BeginInstall, Clickable, disk, startup
<1>1. /\ window = "open" /\ uninstallState = "clean" /\ ~selfUpdateTimer
      /\ offer \in BOOLEAN /\ listed \subseteq Package
  BY DEF restartRequired, TypeOK
<1>2. PICK kind \in {"install", "clear"}, p \in Package \cup {None}, restore \in BOOLEAN :
        Begin(kind, p, restore)
  BY <1>1
<1>3. kind \in Kind /\ kind # "uninstall" /\ kind # "self"
  BY <1>2 DEF Kind
<1>4. Ask(pending, "prepare", 0, operations + 1) \/ UNCHANGED requests
  OBVIOUS
<1> QED
  BY <1>1, <1>2, <1>3, <1>4, BeginKeeps

LEMMA SelfUpdateClickedKeeps ==
  ASSUME Inv, SelfUpdateClicked  PROVE Inv'
<1>. USE DEF Inv, SelfUpdateClicked, BeginSelfUpdate, Clickable, disk, startup
<1>1. /\ window = "open" /\ uninstallState = "clean" /\ ~selfUpdateTimer
      /\ offer \in BOOLEAN
  BY DEF restartRequired, TypeOK
<1>2. "self" \in Kind
  BY DEF Kind
<1> QED
  BY <1>1, <1>2, BeginKeeps

LEMMA NativePreferencesKeeps ==
  ASSUME Inv, NativePreferences  PROVE Inv'
<1>. USE DEF Inv, NativePreferences, Clickable, operating, startup
<1>1. window = "open" /\ uninstallState = "clean" /\ moved = {} /\ ~restartRequired
      /\ installed \subseteq Package /\ busy \in BOOLEAN /\ ready \in BOOLEAN
  BY DEF restartRequired, TypeOK, Locked
<1>2. installed' \subseteq Package /\ verified' \subseteq installed' /\ verified' \subseteq verified
      /\ moved \cap installed' = {}
  BY <1>1
<1>3. CASE activeOperation = None
  <2>1. activeOperation' = None /\ selfUpdateTimer' = FALSE
    BY <1>3 DEF TypeOK
  <2>2. Refresh(pending, busy)
    BY <1>3
  <2> QED
    BY <1>1, <1>2, <1>3, <2>1, <2>2, RefreshKeeps
<1>4. CASE activeOperation # None
  <2>1. UNCHANGED <<requests, refreshGeneration, busy, ready>>
    BY <1>4
  <2> QED
    BY <1>1, <1>2, <2>1, StillKeeps
<1> QED
  BY <1>3, <1>4

LEMMA CancelOperationKeeps ==
  ASSUME Inv, CancelOperation  PROVE Inv'
<1>. USE DEF Inv, CancelOperation, Finish, startup, disk
<1>1. uninstallState # "pending" /\ window # "exited" /\ activeOperation # None
  BY DEF Locked, Removing, Operating
<1>2. WithoutTicket \in SUBSET pending
  BY DEF WithoutTicket
<1>3. moved \cap installed = {} /\ verified \subseteq installed /\ installed \subseteq Package
  BY DEF TypeOK
<1>4. CASE activeOperation.prepared
  BY <1>1, <1>2, <1>3, <1>4, RefreshKeeps
<1>5. CASE ~activeOperation.prepared
  BY <1>1, <1>2, <1>3, <1>5, EndKeeps
<1> QED
  BY <1>4, <1>5

LEMMA ExitKeeps ==
  ASSUME Inv, Exit  PROVE Inv'
<1>. USE DEF Inv, Exit, Finish, model, disk
<1>1. TypeOK'
  BY DEF TypeOK
<1>2. Unloaded' /\ Numbered' /\ Operating' /\ Locked' /\ Refreshing'
  BY DEF Unloaded, Numbered, Operating, Locked, Refreshing
<1>3. Listing' /\ Connected' /\ Startup' /\ Waiting'
  BY DEF Listing, Connected, Startup, Waiting
<1> QED
  BY <1>1, <1>2, <1>3

LEMMA UninstallKeeps ==
  ASSUME Inv, NEW p \in Package, Uninstall(p)  PROVE Inv'
<1>. USE DEF Inv, Uninstall, Clickable, startup
<1>1. /\ window = "open" /\ activeOperation = None /\ prompt = None /\ ~selfUpdateTimer
      /\ asked = {} /\ p # None
      /\ uninstallState = "clean" => moved = {}
      /\ uninstallState = "confirmed" => moved \cap listed = {}
  BY ControllerAssumption DEF TypeOK, Locked
<1> DEFINE op == [id |-> operations + 1, kind |-> "uninstall", package |-> p, restore |-> FALSE,
                  progress |-> FALSE, prepared |-> FALSE, previous |-> uninstallState]
<1>2. /\ operations < MaxOperation /\ operations' = operations + 1
      /\ busy' = TRUE /\ ready' = FALSE /\ activeOperation' = op
      /\ refreshGeneration < MaxGeneration /\ refreshGeneration' = refreshGeneration + 1
  BY DEF Begin
<1>3. /\ operations \in Nat /\ operations + 1 \in 1 .. MaxOperation
      /\ operations + 1 \in 0 .. MaxOperation
      /\ refreshGeneration \in Nat /\ refreshGeneration + 1 \in 0 .. MaxGeneration
  BY <1>2, ControllerAssumption DEF TypeOK
<1>4. op \in Operation
  BY <1>3 DEF Operation, Kind
<1>5. /\ op.id = operations + 1 /\ op.kind = "uninstall" /\ op.package = p
      /\ op.progress = FALSE /\ op.prepared = FALSE /\ op.previous = uninstallState
  OBVIOUS
<1> HIDE DEF op
<1>6. activeOperation' # None
  BY <1>2, <1>4, OperationAssumption
<1>7. "uninstall" \in RequestKind /\ 0 \in 0 .. MaxGeneration
  BY ControllerAssumption DEF RequestKind
<1>8. PICK new : Requested(new, pending, "uninstall", 0, operations + 1)
  BY <1>3, <1>7, AskIs
<1>9. \A r \in pending : r.operation \in Nat /\ r.operation <= operations
                         /\ r.generation \in Nat /\ r.generation <= refreshGeneration
  BY Types DEF Numbered
<1>10. \A r \in pending' : /\ r.operation = operations + 1 => r = new
                           /\ r = new \/ r \in pending
  BY <1>3, <1>8, <1>9 DEF Requested
<1>11. new.kind = "uninstall" /\ new.served = "no" /\ new.generation = 0 /\ new \in pending'
       /\ new.operation = operations + 1 /\ new.client = rpc'
  BY <1>8 DEF Requested
<1>12. TypeOK'
  <2>1. /\ asked' \subseteq [operation : 1 .. MaxOperation, package : Package]
        /\ pending' \subseteq Request /\ rpc' \in Client
        /\ operations' \in 0 .. MaxOperation /\ refreshGeneration' \in 0 .. MaxGeneration
    BY <1>1, <1>2, <1>3, <1>8 DEF Requested
  <2>2. activeOperation' \in Operation /\ activeOperation'.kind = "uninstall"
    BY <1>2, <1>4, <1>5
  <2> QED
    BY <1>1, <1>2, <1>6, <2>1, <2>2 DEF TypeOK
<1>13. Unloaded' /\ Numbered'
  BY <1>1, <1>2, <1>3, <1>5, <1>8, <1>9 DEF Unloaded, Numbered, Requested
<1>14. Operating'
  BY <1>2, <1>5, <1>6, <1>10, <1>11 DEF Operating
<1>15. Locked'
  <2>1. asked' \subseteq {[operation |-> op.id, package |-> op.package]}
    BY <1>1, <1>5
  <2>2. /\ uninstallState = "clean" => moved' = {}
        /\ uninstallState # "clean" => moved' \cap listed' = {}
    BY <1>1
  <2>3. Unsettled(activeOperation.previous)' = {}
    BY <1>2, <1>5, <2>2 DEF Unsettled
  <2>4. Removing'
    BY <1>1, <1>2, <1>5, <1>6, <1>10, <1>11, <2>1, <2>3 DEF Removing
  <2> QED
    BY <1>1, <1>2, <1>5, <2>4 DEF Locked
<1>16. Refreshing' /\ Listing'
  <2>1. \A r \in pending' : r.kind \in Chain => r.generation # refreshGeneration'
    BY <1>2, <1>3, <1>9, <1>10, <1>11 DEF Chain
  <2> QED
    BY <1>2, <2>1 DEF Refreshing, Listing
<1>17. Connected' /\ Startup'
  BY <1>1, <1>8, <1>10 DEF Connected, Startup, Requested
<1>18. Waiting'
  BY <1>1, <1>2, <1>5, <1>6, <1>11 DEF Waiting
<1> QED
  BY <1>12, <1>13, <1>14, <1>15, <1>16, <1>17, <1>18

LEMMA DialogClosedKeeps ==
  ASSUME Inv, DialogClosed  PROVE Inv'
<1>. USE DEF Inv, DialogClosed, Clickable, Finish, startup, disk
<1>1. /\ refreshGeneration \in Nat /\ refreshGeneration' = refreshGeneration + 1
      /\ refreshGeneration' \in 0 .. MaxGeneration
  BY ControllerAssumption DEF TypeOK
<1>2. WithoutTicket \in SUBSET pending
  BY DEF WithoutTicket
<1>3. /\ rpc' = None /\ pending' \subseteq Request
      /\ \A r \in pending' : r.client # rpc'
      /\ \A r \in pending' : \/ r \in pending
                             \/ r.kind = "shutdown" /\ (r.generation = 0 /\ r.operation = 0)
  BY <1>2, ShutdownIs, ControllerAssumption
<1>4. TypeOK'
  BY <1>1, <1>3 DEF TypeOK
<1>5. Unloaded' /\ Operating' /\ Locked'
  BY DEF Unloaded, Operating, Locked
<1>6. \A r \in pending' : /\ r.operation <= operations /\ r.generation <= refreshGeneration
                          /\ r.generation # refreshGeneration' \/ r.kind = "shutdown"
  BY <1>1, <1>3, Types DEF Numbered
<1>7. Numbered'
  BY <1>1, <1>3, <1>6, Types DEF Numbered
<1>8. Refreshing' /\ Listing'
  BY <1>6 DEF Refreshing, Listing, Chain
<1>9. Connected' /\ Startup' /\ Waiting'
  BY <1>3 DEF Connected, Startup, Waiting
<1> QED
  BY <1>4, <1>5, <1>7, <1>8, <1>9

LEMMA PromptEndsKeeps ==
  ASSUME Inv, PromptEnds  PROVE Inv'
<1>. USE DEF Inv, PromptEnds, startup, model
<1>1. /\ window # "exited" /\ uninstallState = "clean" /\ moved = {}
      /\ activeOperation # None => activeOperation.kind # "uninstall"
  BY DEF Unloaded, Locked
<1>2. /\ installed' \subseteq Package /\ moved \cap installed' = {}
      /\ verified \subseteq installed' /\ ready \in BOOLEAN
  BY <1>1, Types DEF TypeOK
<1>3. CASE ~IsActive(prompt.id)
  <2>1. UNCHANGED <<requests, refreshGeneration, activeOperation, operations, selfUpdateTimer,
                    busy, ready>>
    BY <1>3
  <2>2. UNCHANGED <<uninstallState, startup, listed, asked, moved, verified, window>>
    OBVIOUS
  <2> QED
    BY <1>1, <1>2, <2>1, <2>2, StillKeeps
<1>4. CASE IsActive(prompt.id) /\ Finish /\ operations' = operations /\ NoRefresh(pending)
  BY <1>1, <1>2, <1>4, EndKeeps DEF Finish
<1>5. CASE IsActive(prompt.id) /\ Finish /\ operations' = operations /\ Refresh(pending, FALSE)
  BY <1>1, <1>2, <1>5, RefreshKeeps DEF Finish, IsActive
<1>6. CASE /\ IsActive(prompt.id)
           /\ Ask(pending, "verify", 0, prompt.id)
           /\ UNCHANGED <<refreshGeneration, activeOperation, operations, selfUpdateTimer, busy, ready>>
  BY <1>1, <1>2, <1>6, AskKeeps DEF IsActive
<1> QED
  BY <1>3, <1>4, <1>5, <1>6

LEMMA TimerFiresKeeps ==
  ASSUME Inv, TimerFires  PROVE Inv'
<1>. USE DEF Inv, TimerFires, requests
<1>1. /\ window # "exited" /\ activeOperation # None /\ activeOperation.kind # "uninstall"
  BY DEF TypeOK, Unloaded, Operating
<1> QED
  BY <1>1, PromptKeeps

LEMMA StartupCheckKeeps ==
  ASSUME Inv, StartupCheck  PROVE Inv'
<1>. USE DEF Inv, StartupCheck, operating, model, disk
<1>1. "startup" \in RequestKind /\ 0 \in 0 .. MaxGeneration /\ 0 \in 0 .. MaxOperation
  BY ControllerAssumption DEF RequestKind
<1>2. PICK new : Requested(new, pending, "startup", 0, 0)
  BY <1>1, AskIs
<1>3. TypeOK'
  BY <1>2 DEF TypeOK, Requested
<1>4. Unloaded' /\ Numbered'
  BY <1>2, Types DEF Unloaded, Numbered, Requested
<1>5. Operating'
  BY <1>2, Types DEF Operating, Requested
<1>6. Locked'
  BY <1>2 DEF Locked, Removing, Unsettled, Requested
<1>7. Refreshing' /\ Listing'
  BY <1>2 DEF Refreshing, Listing, restartRequired, Requested, Chain
<1>8. Connected'
  BY <1>2 DEF Connected, Requested
<1>9. Startup'
  BY <1>2 DEF Startup, Requested
<1>10. Waiting'
  <2>1. /\ \A r \in pending : r.client = rpc => r.client = rpc'
        /\ pending \subseteq pending'
    BY <1>2, Types DEF Requested
  <2> QED
    BY <2>1 DEF Waiting
<1> QED
  BY <1>3, <1>4, <1>5, <1>6, <1>7, <1>8, <1>9, <1>10

-----------------------------------------------------------------------------
(* Offers of a manager update.                                             *)

LEMMA OfferUpdateKeeps ==
  ASSUME Inv, window # "exited", ~busy, activeOperation = None,
         NEW rest \in SUBSET pending, \A r \in pending : r \in rest \/ r.kind = "startup",
         window = "shut" => ~checkDue /\ \A r \in rest : r.kind # "startup",
         OfferUpdate(rest), offer' \in BOOLEAN, offer' => offer,
         UNCHANGED <<window, refreshGeneration, uninstallState, checkDue, disk>>
  PROVE  Inv'
<1>. USE DEF Inv
<1>1. CASE BeginSelfUpdate(rest) /\ UNCHANGED <<prompt, selfUpdateTimer>> /\ UNCHANGED listed
  <2>1. uninstallState = "clean" /\ ~selfUpdateTimer /\ "self" \in Kind
    BY <1>1 DEF BeginSelfUpdate, restartRequired, TypeOK, Kind
  <2> QED
    BY <1>1, <2>1, BeginKeeps DEF BeginSelfUpdate
<1>2. CASE StopUnlessOpen(rest) /\ UNCHANGED <<operating, model>>
  <2>1. CASE window = "shut"
    BY <1>2, <2>1, StopKeeps DEF StopUnlessOpen
  <2>2. CASE window # "shut"
    BY <1>2, <2>2, RestKeeps DEF StopUnlessOpen, Chain
  <2> QED
    BY <2>1, <2>2
<1> QED
  BY <1>1, <1>2 DEF OfferUpdate

LEMMA OfferTickKeeps ==
  ASSUME Inv, OfferTick  PROVE Inv'
<1>. USE DEF Inv, OfferTick
<1>1. /\ window # "exited" /\ ~checkDue /\ \A r \in pending : r.kind # "startup"
  BY DEF Unloaded, Startup
<1>2. OfferUpdate(pending) /\ ~busy /\ activeOperation = None /\ offer' = FALSE
  OBVIOUS
<1> QED
  BY <1>1, <1>2, OfferUpdateKeeps

LEMMA StartupAnsweredKeeps ==
  ASSUME Inv, NEW r \in pending, StartupAnswered(r)  PROVE Inv'
<1>. USE DEF Inv, StartupAnswered
<1>1. /\ r.kind = "startup" /\ window # "exited" /\ ~checkDue /\ offer \in BOOLEAN
      /\ \A q \in Rest(r) : q.kind # "startup"
      /\ window = "shut" => ~busy
      /\ Rest(r) \in SUBSET pending /\ \A q \in pending : q \in Rest(r) \/ q = r
  BY DEF Startup, TypeOK, Rest
<1>2. CASE StopUnlessOpen(Rest(r)) /\ UNCHANGED <<operating, model, offer>>
  <2>1. CASE window = "shut"
    BY <1>1, <1>2, <2>1, StopKeeps DEF StopUnlessOpen
  <2>2. CASE window # "shut"
    BY <1>1, <1>2, <2>2, RestKeeps DEF StopUnlessOpen, Chain
  <2> QED
    BY <2>1, <2>2
<1>3. CASE /\ offer' = TRUE /\ pending' = Rest(r) /\ UNCHANGED <<rpc, operating, model>>
  BY <1>1, <1>3, RestKeeps DEF Chain
<1>4. CASE ~busy /\ activeOperation = None /\ OfferUpdate(Rest(r)) /\ UNCHANGED offer
  BY <1>1, <1>4, OfferUpdateKeeps
<1> QED
  BY <1>2, <1>3, <1>4

-----------------------------------------------------------------------------
(* The helper.                                                             *)

LEMMA ScansKeeps ==
  ASSUME Inv, NEW r \in pending, Scans(r)  PROVE Inv'
<1>. USE DEF Inv, operating, startup, model, disk
<1> DEFINE q == [r EXCEPT !.served = "yes", !.seen = installed]
<1>1. r.kind \in Scanning /\ r \in Request /\ installed \subseteq Package
      /\ verified \subseteq installed /\ pending' = (pending \ {r}) \cup {q}
  BY DEF Scans, Served, TypeOK
<1>2. q \in Request /\ Alike(q, r) /\ q.seen = installed
  BY <1>1 DEF Request, Alike
<1> HIDE DEF q
<1>3. /\ \A s \in pending' : s = q \/ s \in pending
      /\ \A s \in pending : s = r \/ s \in pending'
      /\ q \in pending' /\ pending' \subseteq Request
  BY <1>1, <1>2 DEF TypeOK
<1>4. \A s : Alike(s, s)
  BY DEF Alike
<1>5. /\ \A s \in pending' : \E p \in pending : Alike(s, p)
      /\ \A s \in pending : \E p \in pending' : Alike(p, s)
      /\ \A s \in pending' : s.kind \in {"startup", "uninstall"} => s \in pending
  BY <1>1, <1>2, <1>3, <1>4 DEF Alike, Scanning
<1>6. UNCHANGED <<window, rpc, refreshGeneration, operating, uninstallState, startup, model>>
      /\ UNCHANGED disk
  BY DEF Scans
<1>7. Unloaded' /\ Numbered' /\ Operating' /\ Refreshing' /\ Connected' /\ Startup' /\ Waiting'
  BY <1>5, <1>6, AlikeKeeps
<1>8. TypeOK'
  BY <1>3, <1>6 DEF TypeOK
<1>9. Locked'
  BY <1>5, <1>6 DEF Locked, Removing, Unsettled
<1>10. Listing'
  BY <1>1, <1>2, <1>3, <1>6 DEF Listing, Alike
<1> QED
  BY <1>7, <1>8, <1>9, <1>10

\* What the answer of the helper to an uninstall does to the requests.
LEMMA AnswerIs ==
  ASSUME TypeOK, NEW a, NEW outcome \in {"yes", "refused"}, AnswerUninstall(a, outcome)
  PROVE  /\ pending' \subseteq Request
         /\ \A q \in pending' : \E r \in pending : Alike(q, r)
         /\ \A r \in pending : \E q \in pending' : Alike(q, r)
         /\ \A q \in pending' : q.kind # "uninstall" => q \in pending
         /\ \A q \in pending' :
              q.kind = "uninstall" /\ q.operation = a.operation => q.served = outcome
<1> DEFINE Answered(r) == IF r.kind = "uninstall" /\ r.operation = a.operation
                          THEN [r EXCEPT !.served = outcome] ELSE r
<1>1. pending' = {Answered(r) : r \in pending}
  BY DEF AnswerUninstall
<1>2. \A r \in pending :
        /\ Answered(r) \in Request /\ Alike(Answered(r), r)
        /\ r.kind # "uninstall" => Answered(r) = r
        /\ r.kind = "uninstall" /\ r.operation = a.operation => Answered(r).served = outcome
  <2> TAKE r \in pending
  <2>1. r \in Request
    BY DEF TypeOK
  <2>2. CASE r.kind = "uninstall" /\ r.operation = a.operation
    <3>1. Answered(r) = [r EXCEPT !.served = outcome]
      BY <2>2
    <3> QED
      BY <2>1, <2>2, <3>1 DEF Request, Alike
  <2>3. CASE ~(r.kind = "uninstall" /\ r.operation = a.operation)
    <3>1. Answered(r) = r
      BY <2>3
    <3> QED
      BY <2>1, <2>3, <3>1 DEF Alike
  <2> QED
    BY <2>2, <2>3
<1> HIDE DEF Answered
<1>3. /\ \A q \in pending' : \E r \in pending : q = Answered(r)
      /\ \A r \in pending : Answered(r) \in pending'
  BY <1>1
<1> QED
  BY <1>2, <1>3 DEF Alike

LEMMA MovesKeeps ==
  ASSUME Inv, NEW a \in asked, Moves(a)  PROVE Inv'
<1>. USE DEF Inv, Moves
<1>1. /\ pending' \subseteq Request
      /\ \A q \in pending' : \E r \in pending : Alike(q, r)
      /\ \A r \in pending : \E q \in pending' : Alike(q, r)
      /\ \A q \in pending' : q.kind # "uninstall" => q \in pending
      /\ \A q \in pending' :
           q.kind = "uninstall" /\ q.operation = a.operation => q.served = "yes"
  BY AnswerIs
<1>2. Unloaded' /\ Numbered' /\ Operating' /\ Refreshing' /\ Connected' /\ Startup' /\ Waiting'
  BY <1>1, AlikeKeeps
<1>3. a.package \in Package
  BY DEF TypeOK
<1>4. TypeOK'
  BY <1>1, <1>3 DEF TypeOK, operating, startup, model
<1>5. Locked'
  <2>1. SUFFICES ASSUME window # "exited"
                 PROVE  Locked'
    BY DEF Locked
  <2>2. uninstallState \notin {"clean", "confirmed"}
    BY <2>1 DEF Locked
  <2>3. ASSUME uninstallState = "pending"
        PROVE  Removing'
    <3>1. Removing
      BY <2>1, <2>3 DEF Locked
    <3>2. asked \subseteq {a} /\ a.operation = activeOperation.id
          /\ a.package = activeOperation.package
      BY <3>1 DEF Removing
    <3>3. asked' = {}
      BY <3>2
    <3>4. Unsettled(activeOperation.previous)' \subseteq {activeOperation.package}
      BY <3>1, <3>2 DEF Removing, Unsettled, operating, model
    <3> QED
      BY <1>1, <3>1, <3>2, <3>3, <3>4 DEF Removing, operating
  <2> QED
    BY <2>1, <2>2, <2>3 DEF Locked, operating
<1>6. Listing'
  BY <1>1 DEF Listing, model, Chain
<1> QED
  BY <1>2, <1>4, <1>5, <1>6

LEMMA RefusesKeeps ==
  ASSUME Inv, NEW a \in asked, Refuses(a)  PROVE Inv'
<1>. USE DEF Inv, Refuses
<1>1. /\ pending' \subseteq Request
      /\ \A q \in pending' : \E r \in pending : Alike(q, r)
      /\ \A r \in pending : \E q \in pending' : Alike(q, r)
      /\ \A q \in pending' : q.kind # "uninstall" => q \in pending
      /\ \A q \in pending' :
           q.kind = "uninstall" /\ q.operation = a.operation => q.served = "refused"
  BY AnswerIs
<1>2. Unloaded' /\ Numbered' /\ Operating' /\ Refreshing' /\ Connected' /\ Startup' /\ Waiting'
  BY <1>1, AlikeKeeps
<1>3. TypeOK'
  BY <1>1 DEF TypeOK, operating, startup, model
<1>4. Locked'
  <2>1. SUFFICES ASSUME window # "exited"
                 PROVE  Locked'
    BY DEF Locked
  <2>2. uninstallState \notin {"clean", "confirmed"}
    BY <2>1 DEF Locked
  <2>3. ASSUME uninstallState = "pending"
        PROVE  Removing'
    <3>1. Removing
      BY <2>1, <2>3 DEF Locked
    <3>2. asked \subseteq {a} /\ asked' = {} /\ a.operation = activeOperation.id
      BY <3>1 DEF Removing
    <3>3. \A q \in pending' : q.kind = "uninstall" /\ q.operation = activeOperation.id =>
            q.served = "refused" /\ Unsettled(activeOperation.previous) = {}
      BY <1>1, <3>1, <3>2 DEF Removing, Alike
    <3> QED
      BY <3>1, <3>2, <3>3 DEF Removing, Unsettled, operating, model
  <2> QED
    BY <2>1, <2>2, <2>3 DEF Locked, operating
<1>5. Listing'
  BY <1>1 DEF Listing, model, Chain
<1> QED
  BY <1>2, <1>3, <1>4, <1>5

-----------------------------------------------------------------------------
(* Answers.                                                                *)

\* A request has been answered; what remains may still name the window's
\* client, and an answer finds the window there.
LEMMA AnswerFinds ==
  ASSUME Inv, NEW r \in pending
  PROVE  /\ window # "exited" /\ Rest(r) \in SUBSET pending
         /\ \A q \in pending : q \in Rest(r) \/ q = r
         /\ moved \cap installed = {} /\ verified \subseteq installed /\ installed \subseteq Package
BY DEF Inv, Unloaded, Rest, TypeOK

\* The next request of a refresh.
LEMMA ChainedKeeps ==
  ASSUME Inv, NEW r \in pending, r.kind \in Chain, Current(r),
         NEW kind \in {"refreshRegistry", "listUpdates"}, Chained(r, kind),
         listed' \subseteq Package, verified \subseteq listed',
         UNCHANGED <<window, rpc, refreshGeneration, operating, uninstallState, startup, disk,
                     busy, ready>>
  PROVE  Inv'
<1>. USE DEF Inv, operating, startup, disk, Current
<1> DEFINE new == NewRequest(kind, r.client, r.generation, 0)
<1>1. window # "exited" /\ uninstallState = "clean"
  BY DEF Unloaded, Refreshing, restartRequired
<1>2. /\ new \in Request /\ new.kind = kind /\ new.client = r.client
      /\ new.generation = refreshGeneration /\ new.operation = 0
      /\ new.served = "no" /\ new.lost = FALSE
  <2>1. r.client \in Client /\ r.generation \in 0 .. MaxGeneration /\ 0 \in 0 .. MaxOperation
    BY ControllerAssumption DEF TypeOK, Request
  <2> QED
    BY <2>1 DEF NewRequest, Request, Chain
<1>3. pending' = (pending \ {r}) \cup {new}
  BY DEF Chained, Rest
<1> HIDE DEF new
<1>4. TypeOK'
  BY <1>1, <1>2, <1>3 DEF TypeOK
<1>5. Unloaded'
  BY <1>1 DEF Unloaded
<1>6. Numbered' /\ Operating'
  BY <1>2, <1>3, Types DEF Numbered, Operating
<1>7. Locked' /\ Refreshing'
  BY <1>1 DEF Locked, Refreshing, restartRequired
<1>8. Listing'
  BY <1>2, <1>3 DEF Listing
<1>9. Connected'
  BY <1>2, <1>3 DEF Connected
<1>10. Startup'
  BY <1>2, <1>3 DEF Startup
<1>11. Waiting'
  BY <1>1, <1>2, <1>3 DEF Waiting, Locked, Chain
<1> QED
  BY <1>4, <1>5, <1>6, <1>7, <1>8, <1>9, <1>10, <1>11

LEMMA RefreshAnsweredKeeps ==
  ASSUME Inv, NEW r \in pending, RefreshAnswered(r)  PROVE Inv'
<1>. USE DEF Inv
<1>1. r.kind \in Chain /\ r.kind # "uninstall"
  BY DEF RefreshAnswered, Chain
<1>2. PICK outcome \in Outcome(r) :
        IF ~Current(r) THEN Ignore(r)
        ELSE /\ CASE outcome = "ok" /\ r.kind = "scanInstalled" ->
                       Chained(r, "refreshRegistry") /\ listed' = r.seen /\ UNCHANGED <<busy, ready>>
                  [] outcome = "ok" /\ r.kind = "refreshRegistry" ->
                       Chained(r, "listUpdates") /\ UNCHANGED model
                  [] OTHER ->
                       /\ pending' = Rest(r) /\ busy' = FALSE
                       /\ ready' = (r.kind = "listUpdates")
                       /\ listed' = IF outcome = "ok" THEN r.seen ELSE listed
             /\ UNCHANGED <<window, rpc, refreshGeneration, operating, uninstallState, startup, disk>>
  BY DEF RefreshAnswered
<1>3. CASE ~Current(r)
  <2>1. offer \in BOOLEAN
    BY DEF TypeOK
  <2> QED
    BY <1>1, <1>2, <1>3, <2>1, AnswerFinds, RestKeeps DEF Ignore, startup
<1>4. CASE Current(r)
  <2>1. /\ UNCHANGED <<window, rpc, refreshGeneration, operating, uninstallState, startup, disk>>
        /\ r.seen \subseteq Package
        /\ outcome = "ok" /\ r.kind # "refreshRegistry" => verified \subseteq r.seen
        /\ r.kind # "scanInstalled" => verified \subseteq listed
    BY <1>1, <1>2, <1>4, Types DEF Outcome, Scanning, Listing, Current, Chain
  <2>2. CASE outcome = "ok" /\ r.kind = "scanInstalled"
    BY <1>1, <1>2, <1>4, <2>1, <2>2, ChainedKeeps
  <2>3. CASE outcome = "ok" /\ r.kind = "refreshRegistry"
    <3>1. Chained(r, "listUpdates") /\ UNCHANGED model /\ listed \subseteq Package
      BY <1>2, <1>4, <2>3 DEF TypeOK
    <3> QED
      BY <1>1, <1>4, <2>1, <2>3, <3>1, ChainedKeeps DEF model
  <2>4. CASE outcome # "ok" \/ r.kind = "listUpdates"
    <3>. USE DEF operating, startup, disk, Current
    <3>1. /\ pending' = Rest(r) /\ busy' = FALSE /\ ready' = (r.kind = "listUpdates")
          /\ listed' = IF outcome = "ok" THEN r.seen ELSE listed
      BY <1>2, <1>4, <2>4
    <3>2. Rest(r) \in SUBSET pending /\ window # "exited" /\ uninstallState = "clean"
          /\ listed \subseteq Package
      BY <1>1, <1>4, AnswerFinds DEF Refreshing, restartRequired, TypeOK
    <3>3. r.kind = "listUpdates" => verified \subseteq listed'
      BY <2>1, <3>1
    <3>4. \A q \in pending : q.kind \in Chain /\ Current(q) /\ q.kind # "scanInstalled" =>
            verified \subseteq listed'
      BY <2>1, <2>4, <3>1, <3>3 DEF Listing
    <3>5. TypeOK'
      BY <2>1, <3>1, <3>2 DEF TypeOK
    <3>6. Unloaded' /\ Numbered' /\ Operating'
      BY <2>1, <3>1, <3>2 DEF Unloaded, Numbered, Operating
    <3>7. Locked' /\ Refreshing'
      BY <2>1, <3>2 DEF Locked, Refreshing, restartRequired
    <3>8. Listing'
      BY <2>1, <3>1, <3>2, <3>3, <3>4 DEF Listing
    <3>9. Connected' /\ Startup'
      BY <2>1, <3>1, <3>2 DEF Connected, Startup
    <3>10. Waiting'
      BY <2>1, <3>1, <3>2 DEF Waiting, Locked
    <3> QED
      BY <3>5, <3>6, <3>7, <3>8, <3>9, <3>10
  <2> QED
    BY <1>1, <2>2, <2>3, <2>4 DEF Chain
<1> QED
  BY <1>3, <1>4

LEMMA LateAnswerKeeps ==
  ASSUME Inv, NEW r \in pending, LateAnswer(r)  PROVE Inv'
<1>1. r.kind \notin Chain /\ ~IsActive(r.operation) /\ offer \in BOOLEAN
  BY DEF LateAnswer, Chain, Inv, TypeOK
<1> QED
  BY <1>1, AnswerFinds, RestKeeps DEF LateAnswer, Ignore, startup

LEMMA PreparedKeeps ==
  ASSUME Inv, NEW r \in pending, Prepared(r)  PROVE Inv'
<1>. USE DEF Inv
<1>1. /\ activeOperation # None /\ r.operation = activeOperation.id /\ r.kind = "prepare"
      /\ activeOperation.kind # "uninstall" /\ window # "exited" /\ uninstallState = "clean"
      /\ UNCHANGED <<window, uninstallState, startup, listed, disk>>
  BY AnswerFinds DEF Prepared, Answers, IsActive, Operating, Locked
<1>2. CASE EndOperation(Rest(r))
  BY <1>1, <1>2, AnswerFinds, EndKeeps DEF EndOperation, Finish, startup, disk
<1>3. CASE /\ Ask(Rest(r), "prepare", 0, r.operation)
           /\ UNCHANGED <<refreshGeneration, operating, busy, ready>>
  BY <1>1, <1>3, AnswerFinds, AskKeeps DEF operating, disk, model
<1>4. CASE /\ prompt' = activeOperation /\ pending' = Rest(r)
           /\ UNCHANGED <<rpc, refreshGeneration, activeOperation, operations, selfUpdateTimer,
                          busy, ready>>
  <2>1. selfUpdateTimer' \in BOOLEAN /\ (selfUpdateTimer' => selfUpdateTimer)
    BY <1>4 DEF TypeOK
  <2>2. pending' \in SUBSET pending /\ \A q \in pending : q \in pending' \/ q.kind = "prepare"
    BY <1>1, <1>4, AnswerFinds
  <2>3. UNCHANGED <<window, rpc, refreshGeneration, activeOperation, operations,
                    uninstallState, startup, model, disk>>
    BY <1>1, <1>4 DEF model
  <2> QED
    BY <1>1, <1>4, <2>1, <2>2, <2>3, PromptKeeps
<1>5. CASE /\ activeOperation.kind = "self"
           /\ activeOperation' = [activeOperation EXCEPT !.prepared = TRUE]
           /\ Shutdown(Rest(r), r.operation)
           /\ selfUpdateTimer' = (rpc = None)
           /\ UNCHANGED <<refreshGeneration, operations, prompt, busy, ready>>
  <2>. USE <1>1, <1>5 DEF startup, disk
  <2> DEFINE op == [activeOperation EXCEPT !.prepared = TRUE]
  <2>1. /\ op \in Operation /\ op.id = activeOperation.id /\ op.kind = "self"
        /\ op.prepared = TRUE /\ op.progress = activeOperation.progress
        /\ op.package = activeOperation.package
    BY Types DEF Operation
  <2>2. activeOperation' = op
    OBVIOUS
  <2> HIDE DEF op
  <2>3. op # None
    BY <2>1, OperationAssumption
  <2>4. /\ rpc' = None /\ pending' \subseteq Request
        /\ \A q \in pending' : q.client # rpc'
        /\ \A q \in pending' : \/ q \in Rest(r)
                               \/ /\ q.kind = "shutdown" /\ q.generation = 0
                                  /\ q.operation = activeOperation.id
    <3>1. activeOperation.id \in 0 .. MaxOperation
      BY Types
    <3> QED
      BY <3>1, AnswerFinds, ShutdownIs
  <2>5. \A q \in pending' : q \in pending \/ (/\ q.kind = "shutdown" /\ q.generation = 0
                                             /\ q.operation = activeOperation.id)
    BY <2>4, AnswerFinds
  <2>6. TypeOK'
    BY <2>1, <2>2, <2>3, <2>4 DEF TypeOK
  <2>7. Unloaded'
    BY DEF Unloaded
  <2>8. Numbered'
    BY <2>1, <2>2, <2>5, Types DEF Numbered
  <2>9. Operating'
    BY <2>1, <2>2, <2>5 DEF Operating
  <2>10. Locked'
    BY <2>1, <2>2 DEF Locked
  <2>11. Refreshing' /\ Listing'
    BY <2>5 DEF Refreshing, Listing, restartRequired, Chain
  <2>12. Connected' /\ Startup'
    BY <2>3, <2>2, <2>4, <2>5 DEF Connected, Startup
  <2>13. Waiting'
    BY <2>1, <2>2, <2>3 DEF Waiting
  <2> QED
    BY <2>6, <2>7, <2>8, <2>9, <2>10, <2>11, <2>12, <2>13
<1> QED
  BY <1>2, <1>3, <1>4, <1>5 DEF Prepared

LEMMA ShutdownSettledKeeps ==
  ASSUME Inv, NEW r \in pending, ShutdownSettled(r)  PROVE Inv'
<1>. USE DEF Inv, startup, model, disk
<1> DEFINE Lost(q) == IF q.client = r.client THEN [q EXCEPT !.lost = TRUE] ELSE q
<1>1. /\ r.kind = "shutdown" /\ r.client # rpc
      /\ pending' = {Lost(q) : q \in Rest(r)}
      /\ UNCHANGED <<window, rpc, refreshGeneration, activeOperation, operations, prompt,
                     uninstallState, startup, model, disk>>
      /\ selfUpdateTimer' = (selfUpdateTimer \/ IsActive(r.operation))
  BY DEF ShutdownSettled, Connected
<1>2. \A q \in pending :
        /\ Lost(q) \in Request /\ Lost(q).kind = q.kind /\ Lost(q).client = q.client
        /\ Lost(q).generation = q.generation /\ Lost(q).operation = q.operation
        /\ Lost(q).served = q.served /\ Lost(q).seen = q.seen
        /\ q.client = rpc => Lost(q) = q
  <2> TAKE q \in pending
  <2>1. q \in Request
    BY DEF TypeOK
  <2>2. CASE q.client = r.client
    <3>1. Lost(q) = [q EXCEPT !.lost = TRUE]
      BY <2>2
    <3> QED
      BY <1>1, <2>1, <2>2, <3>1 DEF Request
  <2>3. CASE q.client # r.client
    <3>1. Lost(q) = q
      BY <2>3
    <3> QED
      BY <2>1, <3>1
  <2> QED
    BY <2>2, <2>3
<1> HIDE DEF Lost
<1>3. /\ \A s \in pending' : \E q \in pending : s = Lost(q)
      /\ \A q \in pending : q # r => Lost(q) \in pending'
  BY <1>1, AnswerFinds
<1>4. window # "exited"
  BY AnswerFinds
<1>5. selfUpdateTimer' => activeOperation # None /\ activeOperation.prepared
  BY <1>1 DEF TypeOK, Operating, IsActive
<1>6. TypeOK'
  <2>1. pending' \subseteq Request /\ selfUpdateTimer' \in BOOLEAN
    BY <1>1, <1>2, <1>3 DEF TypeOK, IsActive
  <2> QED
    BY <1>1, <1>5, <2>1 DEF TypeOK
<1>7. Unloaded' /\ Numbered'
  BY <1>1, <1>2, <1>3, <1>4 DEF Unloaded, Numbered
<1>8. Operating'
  BY <1>1, <1>2, <1>3 DEF Operating
<1>9. Locked'
  BY <1>1, <1>2, <1>3 DEF Locked, Removing, Unsettled
<1>10. Refreshing' /\ Listing'
  BY <1>1, <1>2, <1>3 DEF Refreshing, Listing, restartRequired
<1>11. Connected'
  BY <1>1, <1>2, <1>3 DEF Connected
<1>12. Startup'
  <2>1. \A s \in pending' : s.kind = "startup" => \E q \in pending : q.kind = "startup" /\ s = Lost(q)
    BY <1>2, <1>3
  <2>2. \A s, t \in pending' : s.kind = "startup" /\ t.kind = "startup" => s = t
    BY <2>1 DEF Startup
  <2>3. checkDue \/ offer => \A s \in pending' : s.kind # "startup"
    BY <2>1 DEF Startup
  <2>4. window = "shut" /\ (checkDue \/ \E s \in pending' : s.kind = "startup") =>
          activeOperation = None /\ ~busy
    BY <2>1 DEF Startup
  <2>5. ~(checkDue /\ offer)
    BY DEF Startup
  <2> QED
    BY <1>1, <2>2, <2>3, <2>4, <2>5 DEF Startup
<1>13. Waiting'
  BY <1>1, <1>2, <1>3 DEF Waiting, Chain
<1> QED
  BY <1>6, <1>7, <1>8, <1>9, <1>10, <1>11, <1>12, <1>13

LEMMA VerifiedKeeps ==
  ASSUME Inv, NEW r \in pending, Verified(r)  PROVE Inv'
<1>. USE DEF Inv
<1>1. /\ activeOperation # None /\ r.operation = activeOperation.id /\ r.kind = "verify"
      /\ activeOperation.kind # "uninstall" /\ window # "exited" /\ uninstallState = "clean"
      /\ UNCHANGED <<window, uninstallState, startup, listed, installed, asked, moved>>
  BY AnswerFinds DEF Verified, Answers, IsActive, Operating, Locked
<1>2. ~restartRequired
  BY <1>1 DEF restartRequired
<1>3. CASE /\ verified' = verified \cup ({activeOperation.package} \cap installed)
           /\ EndAndRefresh(Rest(r))
  <2>1. verified' \subseteq installed'
    BY <1>1, <1>3, AnswerFinds
  <2> QED
    BY <1>1, <1>2, <1>3, <2>1, AnswerFinds, RefreshKeeps DEF EndAndRefresh, Finish, startup
<1>4. CASE UNCHANGED verified /\ EndOperation(Rest(r))
  BY <1>1, <1>4, AnswerFinds, EndKeeps DEF EndOperation, Finish, startup
<1>5. CASE UNCHANGED verified /\ EndAndRefresh(Rest(r))
  BY <1>1, <1>2, <1>5, AnswerFinds, RefreshKeeps DEF EndAndRefresh, Finish, startup
<1>6. CASE /\ activeOperation.package \in listed
           /\ Begin("install", activeOperation.package, TRUE)
           /\ Ask(Rest(r), "prepare", 0, operations + 1)
           /\ UNCHANGED <<refreshGeneration, prompt, selfUpdateTimer, verified>>
  <2>1. "install" \in Kind /\ activeOperation.package \in Package \cup {None}
        /\ offer \in BOOLEAN
    BY <1>6 DEF Kind, TypeOK
  <2>2. ~selfUpdateTimer
    BY <1>6, ControllerAssumption DEF TypeOK, Operating
  <2>3. window = "shut" => ~checkDue /\ \A q \in Rest(r) : q.kind # "startup"
    BY <1>1, AnswerFinds DEF Startup
  <2>4. UNCHANGED <<window, refreshGeneration, prompt, selfUpdateTimer, uninstallState,
                    checkDue, listed, disk>> /\ offer' = offer
    BY <1>1, <1>6 DEF startup, disk
  <2> QED
    BY <1>1, <1>6, <2>1, <2>2, <2>3, <2>4, AnswerFinds, BeginKeeps
<1> QED
  BY <1>3, <1>4, <1>5, <1>6 DEF Verified

LEMMA UninstalledKeeps ==
  ASSUME Inv, NEW r \in pending, Uninstalled(r)  PROVE Inv'
<1>. USE DEF Inv, startup, disk
<1>1. /\ activeOperation # None /\ r.operation = activeOperation.id /\ r.kind = "uninstall"
      /\ activeOperation.kind = "uninstall" /\ window # "exited"
  BY AnswerFinds DEF Uninstalled, Answers, IsActive, Operating
<1>2. /\ uninstallState = "pending" /\ Removing /\ prompt = None /\ window = "open"
  BY <1>1 DEF Locked, Waiting
<1>3. /\ UNCHANGED <<window, rpc, refreshGeneration, operations, prompt, startup, disk>>
      /\ pending' = Rest(r) /\ pending' \in SUBSET pending
      /\ activeOperation' = None /\ selfUpdateTimer' = FALSE /\ busy' = FALSE /\ ready' = FALSE
  BY AnswerFinds DEF Uninstalled, EndOperation, NoRefresh, Idle, Finish
<1>4. PICK outcome \in Outcome(r) :
        /\ uninstallState' = CASE outcome = "ok" -> "confirmed"
                               [] outcome = "refused" -> activeOperation.previous
                               [] outcome = "failed" -> "uncertain"
        /\ listed' = IF outcome = "ok" THEN listed \ {activeOperation.package} ELSE listed
  BY DEF Uninstalled
<1>5. /\ outcome \in {"ok", "refused", "failed"}
      /\ outcome = "ok" => r.served = "yes"
      /\ outcome = "refused" => r.served = "refused"
  BY <1>1, <1>4 DEF Outcome
<1>6. /\ uninstallState' \in {"clean", "confirmed", "uncertain"}
      /\ uninstallState' = "clean" => asked = {} /\ moved = {}
      /\ uninstallState' = "confirmed" => asked = {} /\ moved \cap listed' = {}
  <2>1. activeOperation.previous \in {"clean", "confirmed"}
    BY <1>1, Types
  <2>2. CASE outcome = "ok"
    BY <1>1, <1>2, <1>4, <1>5, <2>2 DEF Removing, Unsettled
  <2>3. CASE outcome = "refused"
    BY <1>1, <1>2, <1>4, <1>5, <2>1, <2>3 DEF Removing, Unsettled
  <2>4. CASE outcome = "failed"
    BY <1>4, <2>4
  <2> QED
    BY <1>5, <2>2, <2>3, <2>4
<1>7. listed' \subseteq listed
  BY <1>4
<1>8. TypeOK'
  BY <1>3, <1>6, <1>7 DEF TypeOK
<1>9. Unloaded' /\ Numbered' /\ Operating'
  BY <1>1, <1>3 DEF Unloaded, Numbered, Operating
<1>10. Locked'
  BY <1>2, <1>3, <1>6 DEF Locked
<1>11. Refreshing' /\ Listing'
  <2>1. \A q \in pending : q.kind \in Chain => q.generation # refreshGeneration
    BY <1>1, <1>2 DEF Refreshing, restartRequired
  <2> QED
    BY <1>3, <2>1 DEF Refreshing, Listing
<1>12. Connected' /\ Startup' /\ Waiting'
  BY <1>3 DEF Connected, Startup, Waiting
<1> QED
  BY <1>8, <1>9, <1>10, <1>11, <1>12

-----------------------------------------------------------------------------
(* The invariant.                                                          *)

LEMMA InitInv ==
  Init => Inv
<1>. SUFFICES ASSUME Init PROVE Inv
  OBVIOUS
<1>. USE DEF Init
<1>1. TypeOK
  <2>1. 0 \in 0 .. MaxGeneration /\ 0 \in 0 .. MaxOperation
    BY ControllerAssumption
  <2>2. {selfUpdateTimer, offer, checkDue, busy, ready} \subseteq BOOLEAN
    OBVIOUS
  <2> QED
    BY <2>1, <2>2 DEF TypeOK
<1>2. Unloaded /\ Numbered /\ Operating /\ Locked /\ Refreshing
  BY DEF Unloaded, Numbered, Operating, Locked, Refreshing
<1>3. Listing /\ Connected /\ Startup /\ Waiting
  BY DEF Listing, Connected, Startup, Waiting
<1> QED
  BY <1>1, <1>2, <1>3 DEF Inv

LEMMA NextInv ==
  Inv /\ [Next]_vars => Inv'
<1>. SUFFICES ASSUME Inv, [Next]_vars PROVE Inv'
  OBVIOUS
<1>1. CASE \/ Open \/ RefreshClicked \/ BeginInstall \/ SelfUpdateClicked \/ NativePreferences
           \/ CancelOperation \/ DialogClosed \/ Exit
  BY <1>1, OpenKeeps, RefreshClickedKeeps, BeginInstallKeeps, SelfUpdateClickedKeeps,
     NativePreferencesKeeps, CancelOperationKeeps, DialogClosedKeeps, ExitKeeps
<1>2. CASE StartupCheck \/ OfferTick \/ TimerFires \/ PromptEnds
  BY <1>2, StartupCheckKeeps, OfferTickKeeps, TimerFiresKeeps, PromptEndsKeeps
<1>3. CASE \E p \in Package : Uninstall(p)
  BY <1>3, UninstallKeeps
<1>4. CASE \E a \in asked : Moves(a) \/ Refuses(a)
  BY <1>4, MovesKeeps, RefusesKeeps
<1>5. CASE \E r \in pending :
             \/ Scans(r) \/ RefreshAnswered(r) \/ StartupAnswered(r) \/ LateAnswer(r)
             \/ Prepared(r) \/ ShutdownSettled(r) \/ Verified(r) \/ Uninstalled(r)
  BY <1>5, ScansKeeps, RefreshAnsweredKeeps, StartupAnsweredKeeps, LateAnswerKeeps,
     PreparedKeeps, ShutdownSettledKeeps, VerifiedKeeps, UninstalledKeeps
<1>6. CASE UNCHANGED vars
  BY <1>6 DEF vars, requests, operating, startup, model, disk, Inv, TypeOK, Unloaded, Numbered,
     Operating, Locked, Removing, Unsettled, Refreshing, restartRequired, Listing, Connected,
     Startup, Waiting
<1> QED
  BY <1>1, <1>2, <1>3, <1>4, <1>5, <1>6 DEF Next

LEMMA Invariant ==
  Spec => []Inv
BY InitInv, NextInv, PTL DEF Spec

-----------------------------------------------------------------------------
(* The theorems.                                                           *)

\* The controller's state keeps its shape: a timer that opens the installer
\* only beside a manager update whose helper was told to stop, a pending
\* uninstall only beside its operation, and nothing both moved and installed.
THEOREM TypeCorrect ==
  Spec => []TypeOK
BY Invariant, PTL DEF Inv

\* While the uninstall lock is off, no folder has been moved away and none
\* will be; while further removals are allowed, none but those the window has
\* been told of: whatever was cancelled, lost or answered late.
THEOREM RemovalsAreSettled ==
  Spec => []RemovalsSettled
<1>1. Inv => RemovalsSettled
  BY DEF Inv, Locked, RemovalsSettled
<1> QED
  BY <1>1, Invariant, PTL

\* A list reported as complete has every package whose installation was
\* reported, and one shown while removals go on has none that was removed but
\* the one under way, however answers of earlier refreshes arrive.
THEOREM ListStaysTrue ==
  Spec => []ListIsTrue
<1>1. Inv => ListIsTrue
  <2>. SUFFICES ASSUME Inv, window = "open" PROVE ListIsTrue
    BY DEF ListIsTrue
  <2>1. ready => verified \subseteq listed
    BY DEF Inv, Listing
  <2>2. CASE uninstallState = "confirmed"
    <3>1. moved \cap listed = {}
      BY <2>2 DEF Inv, Locked
    <3> QED
      BY <2>1, <2>2, <3>1 DEF ListIsTrue
  <2>3. CASE uninstallState = "pending"
    <3>1. Removing /\ listed \subseteq Package
      BY <2>3 DEF Inv, Locked, TypeOK
    <3>2. moved \cap listed \subseteq {activeOperation.package} /\ activeOperation # None
      BY <3>1 DEF Removing, Unsettled
    <3> QED
      BY <2>1, <2>3, <3>1, <3>2 DEF ListIsTrue
  <2> QED
    BY <2>1, <2>2, <2>3 DEF ListIsTrue
<1> QED
  BY <1>1, Invariant, PTL

\* The window never waits for something that will not come: an operation can
\* be cancelled or has a request on a connection that nobody closes on
\* purpose, and so has a refresh that keeps the controls off.
THEOREM NeverWaitsForGood ==
  Spec => []NeverStuck
<1>1. Inv => NeverStuck
  <2>. SUFFICES ASSUME Inv, window # "exited" PROVE NeverStuck
    BY DEF NeverStuck
  <2>1. \A r \in pending : r.client = rpc => ~r.lost
    BY DEF Inv, Connected
  <2>2. activeOperation # None =>
          \/ activeOperation.progress
          \/ \E r \in pending : r.operation = activeOperation.id /\ ~r.lost
    BY <2>1 DEF Inv, Operating, Waiting
  <2>3. busy /\ activeOperation = None =>
          \E r \in pending : r.kind \in Chain /\ r.generation = refreshGeneration /\ ~r.lost
    BY <2>1 DEF Inv, Waiting
  <2> QED
    BY <2>2, <2>3 DEF NeverStuck
<1> QED
  BY <1>1, Invariant, PTL
=============================================================================
