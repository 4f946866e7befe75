----------------------------- MODULE Controller -----------------------------
(***************************************************************************)
(* The window's controller: which of its operations may run, what its list *)
(* of installed extensions shows, and what it locks once a folder may have *)
(* been moved away.                                                        *)
(*                                                                         *)
(* All of it runs on Aseprite's one thread, one handler at a time; between *)
(* two handlers the helper works, answers arrive in any order, connections *)
(* are lost and the user clicks.  A confirmation is part of the handler    *)
(* that asks (every operation looks at the lock and at activeOperation     *)
(* again after it); the installer's prompt is a step of its own.           *)
(***************************************************************************)
EXTENDS Naturals

CONSTANTS
  Package,
  Client,         \* Rpc objects, each with a helper of its own
  MaxGeneration,  \* bound on the refreshes begun or given up
  MaxOperation,   \* bound on the operations begun
  None

ASSUME ControllerAssumption ==
  /\ MaxGeneration \in Nat /\ MaxOperation \in Nat
  /\ None \notin Client \cup Package

VARIABLES
  window,          \* ui.dialog; "exited" once the plugin is unloaded
  rpc,             \* self.rpc
  pending,         \* requests with a callback to come
  refreshGeneration,
  activeOperation, operations,  \* the operation, and the number begun so far
  prompt,          \* the operation the installer's prompt is open for
  selfUpdateTimer,
  uninstallState,
  offer,           \* pendingStartupManagerUpdateVersion
  checkDue,        \* the daily startup check has not been made
  busy, ready,     \* model.busy; model.status is that of a finished refresh
  listed,          \* model.installed
  installed,       \* the folders there are
  asked,           \* uninstalls the helper may yet carry out
  moved,           \* history: packages the helper has moved away
  verified         \* history: packages reported as installed, and left alone since

requests   == <<rpc, pending>>
operating  == <<activeOperation, operations, prompt, selfUpdateTimer>>
startup    == <<offer, checkDue>>
model      == <<busy, ready, listed>>
disk       == <<installed, asked, moved, verified>>
vars == <<window, requests, refreshGeneration, operating, uninstallState, startup, model, disk>>

Chain == {"scanInstalled", "refreshRegistry", "listUpdates"}
Kind  == {"install", "self", "uninstall", "clear"}

Request ==
  [kind : Chain \cup {"startup", "prepare", "verify", "uninstall", "shutdown"},
   client : Client,
   generation : 0 .. MaxGeneration, operation : 0 .. MaxOperation,  \* 0: none
   served : {"no", "yes", "refused"}, seen : SUBSET Package,
   lost : BOOLEAN]  \* its connection was closed on purpose

Operation ==
  [id : 1 .. MaxOperation, kind : Kind, package : Package \cup {None},
   restore : BOOLEAN, progress : BOOLEAN, prepared : BOOLEAN,
   previous : {"clean", "confirmed"}]

ASSUME OperationAssumption == None \notin Operation

TypeOK ==
  /\ window \in {"shut", "open", "exited"}
  /\ rpc \in Client \cup {None} /\ pending \subseteq Request
  /\ refreshGeneration \in 0 .. MaxGeneration /\ operations \in 0 .. MaxOperation
  /\ activeOperation \in Operation \cup {None} /\ prompt \in Operation \cup {None}
  /\ uninstallState \in {"clean", "pending", "confirmed", "uncertain"}
  /\ uninstallState = "pending" /\ window # "exited"
       => activeOperation # None /\ activeOperation.kind = "uninstall"
  /\ selfUpdateTimer => activeOperation # None /\ activeOperation.prepared
  /\ {selfUpdateTimer, offer, checkDue, busy, ready} \subseteq BOOLEAN
  /\ listed \subseteq Package /\ installed \subseteq Package
  /\ asked \subseteq [operation : 1 .. MaxOperation, package : Package]
  /\ moved \subseteq Package \ installed /\ verified \subseteq installed

Init ==
  /\ window = "shut" /\ rpc = None /\ pending = {}
  /\ refreshGeneration = 0 /\ activeOperation = None /\ operations = 0
  /\ prompt = None /\ selfUpdateTimer = FALSE /\ uninstallState = "clean"
  /\ offer = FALSE /\ checkDue \in BOOLEAN
  /\ busy = FALSE /\ ready = FALSE /\ listed = {}
  /\ installed \in SUBSET Package /\ asked = {} /\ moved = {} /\ verified = {}

-----------------------------------------------------------------------------
(* Helpers.  rest is what remains pending.                                 *)

restartRequired == uninstallState # "clean"

NewRequest(kind, c, g, o) ==
  [kind |-> kind, client |-> c, generation |-> g, operation |-> o,
   served |-> "no", seen |-> {}, lost |-> FALSE]

\* _ensure_rpc and a request.
Ask(rest, kind, g, o) ==
  \E c \in IF rpc # None THEN {rpc} ELSE {d \in Client : \A r \in rest : r.client # d} :
    rpc' = c /\ pending' = rest \cup {NewRequest(kind, c, g, o)}

\* _shutdown_rpc on behalf of an operation, or of none.
Shutdown(rest, o) ==
  /\ rpc' = None
  /\ pending' = IF rpc = None THEN rest
                ELSE rest \cup {NewRequest("shutdown", rpc, 0, o)}

\* refresh, where the operation that was active, if any, is over.  When it is
\* blocked, stillBusy is what model.busy is left at.
Refresh(rest, stillBusy) ==
  /\ ready' = FALSE
  /\ IF restartRequired
     THEN /\ pending' = rest /\ busy' = stillBusy
          /\ UNCHANGED <<rpc, refreshGeneration>>
     ELSE /\ refreshGeneration < MaxGeneration
          /\ refreshGeneration' = refreshGeneration + 1
          /\ busy' = TRUE
          /\ Ask(rest, "scanInstalled", refreshGeneration + 1, 0)

\* _begin_operation, which is refused while another one is active.
Begin(kind, p, restore) ==
  /\ operations < MaxOperation
  /\ operations' = operations + 1
  /\ activeOperation' =
       [id |-> operations + 1, kind |-> kind, package |-> p, restore |-> restore,
        progress |-> kind # "uninstall", prepared |-> FALSE,
        previous |-> IF kind = "uninstall" THEN uninstallState ELSE "clean"]
  /\ busy' = TRUE /\ ready' = FALSE

\* Slip: the timer that opens the installer runs on.
Finish_TimerRuns == activeOperation' = None /\ UNCHANGED selfUpdateTimer

\* _finish_operation and the end of a cancelled operation.
Finish == activeOperation' = None /\ selfUpdateTimer' = FALSE

Idle == busy' = FALSE /\ ready' = FALSE
NoRefresh(rest) == Idle /\ pending' = rest /\ UNCHANGED <<rpc, refreshGeneration>>

IsActive(o) == activeOperation # None /\ activeOperation.id = o

\* The requests whose ticket the operation does not hold.
WithoutTicket ==
  IF activeOperation = None THEN pending
  ELSE {r \in pending : r.operation # activeOperation.id \/ r.kind = "shutdown"}

\* The user can click into the manager's window and its dialogs.
Clickable == window = "open" /\ prompt = None
-----------------------------------------------------------------------------
(* The user.                                                               *)

\* The command in the menu, which also works while the window is open.
Open ==
  /\ window \in {"shut", "open"} /\ prompt = None
  /\ window' = "open"
  /\ IF restartRequired \/ activeOperation = None
     THEN Refresh(pending, busy)
     ELSE UNCHANGED <<requests, refreshGeneration, busy, ready>>
  /\ UNCHANGED <<operating, uninstallState, startup, listed, disk>>

\* The button of the window.
RefreshClicked ==
  /\ Clickable /\ ~busy /\ (restartRequired \/ activeOperation = None)
  /\ Refresh(pending, busy)
  /\ UNCHANGED <<window, operating, uninstallState, startup, listed, disk>>

\* An installation (from GitHub, a local folder or the catalog), an update, a
\* restore or a cleaning of the cache; the controls are off while busy.  For a
\* catalog package without a compatible version nothing is asked for: the
\* operation waits for the user to cancel it.
BeginInstall ==
  /\ Clickable /\ ~busy /\ ~restartRequired /\ activeOperation = None
  /\ \/ \E p \in Package : Begin("install", p, FALSE)
     \/ \E p \in listed : Begin("install", p, TRUE)
     \/ Begin("clear", None, FALSE)
  /\ \/ Ask(pending, "prepare", 0, operations + 1)
     \/ /\ activeOperation'.kind = "install" /\ ~activeOperation'.restore
        /\ UNCHANGED requests
  /\ UNCHANGED <<window, refreshGeneration, prompt, selfUpdateTimer, uninstallState,
                 startup, listed, disk>>

BeginSelfUpdate(rest) ==
  /\ ~restartRequired /\ activeOperation = None
  /\ Begin("self", None, FALSE)
  /\ Ask(rest, "prepare", 0, operations + 1)

\* The update or restore of the manager, which Help offers at any time.
SelfUpdateClicked ==
  /\ Clickable /\ BeginSelfUpdate(pending)
  /\ UNCHANGED <<window, refreshGeneration, prompt, selfUpdateTimer, uninstallState,
                 startup, listed, disk>>

\* Uninstalls may follow one another; nothing else may follow them.
Uninstall(p) ==
  /\ Clickable /\ ~busy /\ activeOperation = None /\ p \in listed
  /\ uninstallState \in {"clean", "confirmed"}
  /\ Begin("uninstall", p, FALSE)
  /\ refreshGeneration < MaxGeneration /\ refreshGeneration' = refreshGeneration + 1
  /\ uninstallState' = "pending"
  /\ Ask(pending, "uninstall", 0, operations + 1)
  /\ asked' = asked \cup {[operation |-> operations + 1, package |-> p]}
  /\ UNCHANGED <<window, prompt, selfUpdateTimer, startup, listed, installed, moved, verified>>

\* Aseprite's own preferences, where any extension can be added or removed.
NativePreferences ==
  /\ Clickable /\ ~busy /\ ~restartRequired
  /\ \E p \in Package :
       /\ installed' \in {installed, installed \cup {p}, installed \ {p}}
       /\ verified' = verified \cap installed'
  /\ IF activeOperation = None THEN Refresh(pending, busy)
     ELSE UNCHANGED <<requests, refreshGeneration, busy, ready>>
  /\ UNCHANGED <<window, operating, uninstallState, startup, listed, asked, moved>>

\* The progress dialog is closed.  A helper stopped for a manager update is
\* started again.
CancelOperation ==
  /\ activeOperation # None /\ activeOperation.progress /\ window # "exited"
  /\ Finish
  /\ IF activeOperation.prepared THEN Refresh(WithoutTicket, FALSE)
     ELSE NoRefresh(WithoutTicket)
  /\ UNCHANGED <<window, operations, prompt, uninstallState, startup, listed, disk>>

\* Slip: an uninstall under way is forgotten like any other operation.
DialogClosed_Forgets ==
  /\ Clickable
  /\ window' = "shut" /\ Finish
  /\ refreshGeneration < MaxGeneration /\ refreshGeneration' = refreshGeneration + 1
  /\ uninstallState' = IF uninstallState = "pending" THEN activeOperation.previous ELSE uninstallState
  /\ busy' = FALSE
  /\ Shutdown(WithoutTicket, 0)
  /\ UNCHANGED <<operations, prompt, startup, ready, listed, disk>>

\* on_dialog_closed.
DialogClosed ==
  /\ Clickable
  /\ window' = "shut" /\ Finish
  /\ refreshGeneration < MaxGeneration /\ refreshGeneration' = refreshGeneration + 1
  /\ uninstallState' = IF uninstallState = "pending" THEN "uncertain" ELSE uninstallState
  /\ busy' = FALSE
  /\ ready' = (ready /\ uninstallState # "pending")
  /\ Shutdown(WithoutTicket, 0)
  /\ UNCHANGED <<operations, prompt, startup, listed, disk>>

\* close: the plugin is unloaded, and nothing of the controller remains.
Exit ==
  /\ window' = "exited" /\ window # "exited"
  /\ rpc' = None /\ pending' = {} /\ Finish /\ prompt' = None /\ offer' = FALSE
  /\ UNCHANGED <<refreshGeneration, operations, uninstallState, checkDue, model, disk>>

-----------------------------------------------------------------------------
(* The helper.                                                             *)

Served(r, outcome, seen) == (pending \ {r}) \cup {[r EXCEPT !.served = outcome, !.seen = seen]}

\* It reads the folders.
Scanning == {"scanInstalled", "listUpdates", "verify"}

Scans(r) ==
  /\ r \in pending /\ r.kind \in Scanning /\ r.served = "no"
  /\ pending' = Served(r, "yes", installed)
  /\ UNCHANGED <<window, rpc, refreshGeneration, operating, uninstallState, startup, model, disk>>

AnswerUninstall(a, outcome) ==
  pending' = {IF r.kind = "uninstall" /\ r.operation = a.operation
              THEN [r EXCEPT !.served = outcome] ELSE r : r \in pending}

\* It moves the folder, whether or not Lua still waits for the answer.
Moves(a) ==
  /\ a \in asked /\ a.package \in installed
  /\ asked' = asked \ {a} /\ installed' = installed \ {a.package}
  /\ moved' = moved \cup {a.package} /\ verified' = verified \ {a.package}
  /\ AnswerUninstall(a, "yes")
  /\ UNCHANGED <<window, rpc, refreshGeneration, operating, uninstallState, startup, model>>

\* A definite rejection leaves the folder where it is.
Refuses(a) ==
  /\ a \in asked
  /\ asked' = asked \ {a}
  /\ AnswerUninstall(a, "refused")
  /\ UNCHANGED <<window, rpc, refreshGeneration, operating, uninstallState, startup, model,
                 installed, moved, verified>>

-----------------------------------------------------------------------------
(* Answers.  outcome: "ok", "refused" (an error the helper has returned),  *)
(* or "failed" (no connection, no answer).                                 *)

Outcome(r) ==
  {o \in {"ok", "refused", "failed"} :
     /\ o = "ok" /\ r.kind \in Scanning \cup {"uninstall"} => r.served = "yes"
     /\ o = "refused" /\ r.kind = "uninstall" => r.served = "refused"}

Rest(r) == pending \ {r}

\* An answer that comes too late changes nothing.
Ignore(r) ==
  /\ pending' = Rest(r)
  /\ UNCHANGED <<window, rpc, refreshGeneration, operating, uninstallState, startup, model, disk>>

\* Slip: the answers of every refresh are taken.
Current_Any(r) == r.generation <= refreshGeneration

Current(r) == r.generation = refreshGeneration

\* The next request of a refresh goes to the client that it has begun with.
Chained(r, kind) == pending' = Rest(r) \cup {NewRequest(kind, r.client, r.generation, 0)}

RefreshAnswered(r) ==
  /\ r \in pending /\ r.kind \in Chain
  /\ \E outcome \in Outcome(r) :
       IF ~Current(r) THEN Ignore(r)
       ELSE /\ CASE outcome = "ok" /\ r.kind = "scanInstalled" ->
                      Chained(r, "refreshRegistry") /\ listed' = r.seen /\ UNCHANGED <<busy, ready>>
                 [] outcome = "ok" /\ r.kind = "refreshRegistry" ->
                      Chained(r, "listUpdates") /\ UNCHANGED model
                 [] OTHER ->
                      /\ pending' = Rest(r) /\ busy' = FALSE
                      /\ ready' = (r.kind = "listUpdates")
                      /\ listed' = IF outcome = "ok" THEN r.seen ELSE listed
            /\ UNCHANGED <<window, rpc, refreshGeneration, operating, uninstallState, startup, disk>>

\* The daily check, half a second after the start.
StartupCheck ==
  /\ checkDue /\ checkDue' = FALSE /\ window # "exited"
  /\ Ask(pending, "startup", 0, 0)
  /\ UNCHANGED <<window, refreshGeneration, operating, uninstallState, offer, model, disk>>

\* The helper is stopped unless the window uses it.
StopUnlessOpen(rest) ==
  IF window = "shut" THEN Shutdown(rest, 0) ELSE pending' = rest /\ UNCHANGED rpc

\* A manager update is offered: it begins, or it is declined or blocked.
OfferUpdate(rest) ==
  \/ /\ BeginSelfUpdate(rest) /\ UNCHANGED <<prompt, selfUpdateTimer>>
     /\ UNCHANGED listed
  \/ StopUnlessOpen(rest) /\ UNCHANGED <<operating, model>>

\* Slip: the check stops its helper under the window.
StartupAnswered_Stops(r) ==
  /\ r \in pending /\ r.kind = "startup" /\ window # "exited"
  /\ Shutdown(Rest(r), 0) /\ UNCHANGED <<operating, model, offer>>
  /\ UNCHANGED <<window, refreshGeneration, uninstallState, checkDue, disk>>

StartupAnswered(r) ==
  /\ r \in pending /\ r.kind = "startup" /\ window # "exited"
  /\ \/ StopUnlessOpen(Rest(r)) /\ UNCHANGED <<operating, model, offer>>
     \/ /\ busy \/ activeOperation # None
        /\ offer' = TRUE /\ pending' = Rest(r) /\ UNCHANGED <<rpc, operating, model>>
     \/ /\ ~busy /\ activeOperation = None
        /\ OfferUpdate(Rest(r)) /\ UNCHANGED offer
  /\ UNCHANGED <<window, refreshGeneration, uninstallState, checkDue, disk>>

\* The timer that waits for the window to be idle.
OfferTick ==
  /\ offer /\ ~busy /\ activeOperation = None
  /\ offer' = FALSE /\ OfferUpdate(pending)
  /\ UNCHANGED <<window, refreshGeneration, uninstallState, checkDue, disk>>

-----------------------------------------------------------------------------
(* Answers to an operation; those to one that is over find it gone.        *)

Answers(r, kind) == r \in pending /\ r.kind = kind /\ IsActive(r.operation)

\* An answer whose operation is over; a shutdown's still closes its socket.
LateAnswer(r) ==
  /\ r \in pending /\ r.kind \in {"prepare", "verify", "uninstall"} /\ ~IsActive(r.operation)
  /\ Ignore(r)

\* _finish_operation alone.
EndOperation(rest) ==
  Finish /\ NoRefresh(rest) /\ UNCHANGED <<operations, prompt>>

\* _finish_operation and a refresh.
EndAndRefresh(rest) ==
  Finish /\ Refresh(rest, FALSE) /\ UNCHANGED <<operations, prompt>>

Prepared(r) ==
  /\ Answers(r, "prepare")
  /\ \/ EndOperation(Rest(r))  \* an error, an incomplete package, no asset chosen, a clean cache
     \/ \* one more request: the asset chosen is resolved, the resolution prepared
        /\ activeOperation.kind = "install" /\ ~activeOperation.restore
        /\ Ask(Rest(r), "prepare", 0, r.operation)
        /\ UNCHANGED <<refreshGeneration, operating, busy, ready>>
     \/ /\ activeOperation.kind = "install" /\ prompt = None
        /\ prompt' = activeOperation /\ pending' = Rest(r)
        /\ UNCHANGED <<rpc, refreshGeneration, activeOperation, operations, selfUpdateTimer, busy, ready>>
     \/ \* the helper must stop before the manager is replaced
        /\ activeOperation.kind = "self"
        /\ activeOperation' = [activeOperation EXCEPT !.prepared = TRUE]
        /\ Shutdown(Rest(r), r.operation)
        /\ selfUpdateTimer' = (rpc = None)
        /\ UNCHANGED <<refreshGeneration, operations, prompt, busy, ready>>
  /\ UNCHANGED <<window, uninstallState, startup, listed, disk>>

\* The connection is closed on purpose, whatever the answer; the callbacks of
\* its other requests may never run.
ShutdownSettled(r) ==
  /\ r \in pending /\ r.kind = "shutdown"
  /\ pending' = {IF q.client = r.client THEN [q EXCEPT !.lost = TRUE] ELSE q : q \in Rest(r)}
  /\ selfUpdateTimer' = (selfUpdateTimer \/ IsActive(r.operation))
  /\ UNCHANGED <<window, rpc, refreshGeneration, activeOperation, operations, prompt,
                 uninstallState, startup, model, disk>>

TimerFires ==
  /\ selfUpdateTimer /\ prompt = None
  /\ selfUpdateTimer' = FALSE /\ prompt' = activeOperation
  /\ UNCHANGED <<window, requests, refreshGeneration, activeOperation, operations,
                 uninstallState, startup, model, disk>>

\* The installer's prompt comes back; an operation cancelled meanwhile goes no
\* further, whatever has been installed.
PromptEnds ==
  /\ prompt # None /\ prompt' = None
  /\ installed' \in {installed, installed \cup ({prompt.package} \ {None})}
  /\ \/ ~IsActive(prompt.id)
        /\ UNCHANGED <<requests, refreshGeneration, activeOperation, operations, selfUpdateTimer, busy, ready>>
     \/ /\ IsActive(prompt.id) /\ Finish /\ UNCHANGED operations
        /\ NoRefresh(pending) \/ Refresh(pending, FALSE)
     \/ /\ IsActive(prompt.id) /\ prompt.kind = "install"
        /\ Ask(pending, "verify", 0, prompt.id)
        /\ UNCHANGED <<refreshGeneration, activeOperation, operations, selfUpdateTimer, busy, ready>>
  /\ UNCHANGED <<window, uninstallState, startup, listed, asked, moved, verified>>

Verified(r) ==
  /\ Answers(r, "verify")
  /\ \/ /\ r.served = "yes" /\ activeOperation.package \in r.seen
        /\ verified' = verified \cup ({activeOperation.package} \cap installed)
        /\ EndAndRefresh(Rest(r))
     \/ UNCHANGED verified /\ (EndOperation(Rest(r)) \/ EndAndRefresh(Rest(r)))
     \/ \* the user has the previous package restored
        /\ ~activeOperation.restore /\ activeOperation.package \in listed
        /\ Begin("install", activeOperation.package, TRUE)
        /\ Ask(Rest(r), "prepare", 0, operations + 1)
        /\ UNCHANGED <<refreshGeneration, prompt, selfUpdateTimer, verified>>
  /\ UNCHANGED <<window, uninstallState, startup, listed, installed, asked, moved>>

\* Only a rejection by the helper proves that the folder is where it was; an
\* answer about another package or version, which it never gives, does not.
Uninstalled(r) ==
  /\ Answers(r, "uninstall")
  /\ \E outcome \in Outcome(r) :
       /\ uninstallState' = CASE outcome = "ok" -> "confirmed"
                              [] outcome = "refused" -> activeOperation.previous
                              [] outcome = "failed" -> "uncertain"
       /\ listed' = IF outcome = "ok" THEN listed \ {activeOperation.package} ELSE listed
  /\ EndOperation(Rest(r))
  /\ UNCHANGED <<window, startup, disk>>

Next ==
  \/ Open \/ RefreshClicked \/ BeginInstall \/ SelfUpdateClicked \/ NativePreferences
  \/ CancelOperation \/ DialogClosed \/ Exit \/ StartupCheck \/ OfferTick
  \/ TimerFires \/ PromptEnds
  \/ \E p \in Package : Uninstall(p)
  \/ \E a \in asked : Moves(a) \/ Refuses(a)
  \/ \E r \in pending :
       \/ Scans(r) \/ RefreshAnswered(r) \/ StartupAnswered(r) \/ LateAnswer(r)
       \/ Prepared(r) \/ ShutdownSettled(r) \/ Verified(r) \/ Uninstalled(r)

Spec == Init /\ [][Next]_vars

-----------------------------------------------------------------------------
(* Properties.                                                             *)

\* What the lock stands for.  While it is off, no folder has been moved away
\* and none will be; while further removals are allowed, none but those the
\* window has been told of.  An uninstall that was cancelled with its window,
\* or lost with its connection, may still be carried out.
RemovalsSettled ==
  window # "exited" =>
    /\ uninstallState = "clean" => asked = {} /\ moved = {}
    /\ uninstallState = "confirmed" => asked = {} /\ moved \cap listed = {}

\* Answers of an earlier refresh, or of one begun before an operation, never
\* bring back what the window has since changed: a list reported as complete
\* has every package whose installation was reported, and one shown while
\* removals go on has none that was removed.
ListIsTrue ==
  window = "open" =>
    /\ ready => verified \subseteq listed
    /\ uninstallState \in {"pending", "confirmed"} => moved \cap listed \subseteq
         {p \in Package : activeOperation # None /\ activeOperation.package = p}

\* The window never waits for something that will not come.  An operation has
\* a dialog to cancel it, or a request on a connection that nobody closes on
\* purpose, and so has a refresh that keeps the controls off.
NeverStuck ==
  window # "exited" =>
    /\ activeOperation # None =>
         \/ activeOperation.progress
         \/ \E r \in pending : r.operation = activeOperation.id /\ ~r.lost
    /\ busy /\ activeOperation = None =>
         \E r \in pending : r.kind \in Chain /\ r.generation = refreshGeneration /\ ~r.lost
=============================================================================
