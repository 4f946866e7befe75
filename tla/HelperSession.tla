--------------------------- MODULE HelperSession ---------------------------
(***************************************************************************)
(* The helper process: how it is launched, takes the profile lock, serves  *)
(* one connection and ends.                                                *)
(*                                                                         *)
(* The launcher takes the lock, drops it and starts the server process,    *)
(* which takes it again.  The server's loop waits for a message, for the   *)
(* notification of a shutdown or for the idle timeout; every request runs  *)
(* on its own, holding one of a few permits.  When the loop ends, the      *)
(* server gives the answers two seconds to go out and returns, which frees *)
(* the lock; the runtime is torn down after that: it drops the requests    *)
(* that wait for something and lets those that are in the middle of file   *)
(* operations come to the end of them.                                     *)
(*                                                                         *)
(* Lua, the other end of the connection, sends requests and may close it   *)
(* at any time, which is all that happens to a request it cancels.         *)
(***************************************************************************)
EXTENDS Naturals, Sequences, FiniteSets

CONSTANTS
  Helper,     \* launches, each with its server process
  Request,
  Shutdowns,  \* the requests that are shutdown requests
  Permits,    \* MAX_CONCURRENT_REQUESTS
  None

ASSUME PermitAssumption ==
  IsFiniteSet(Request) /\ Shutdowns \subseteq Request /\ Permits \in Nat \ {0}
ASSUME NoneAssumption == None \notin Helper

VARIABLES
  lock,      \* manager.lock: the launch that holds it
  proc,      \* where each launch has come to
  client,    \* Lua's end of each connection
  inbox,     \* messages on their way to the server
  outbox,    \* answers the writer task has not sent yet
  notified,  \* the loop's current wait has been notified of a shutdown
  task,      \* where each request has come to
  home,      \* the server a request was sent to
  heard,     \* requests whose answer has arrived
  ended      \* history: why the loop ended

vars == <<lock, proc, client, inbox, outbox, notified, task, home, heard, ended>>
conn == <<client, inbox, outbox, notified, heard>>
reqs == <<task, home>>

\* The loop runs in "waiting" (the select) and "handling" (a message).
Looping == {"waiting", "handling"}
Serving == Looping \cup {"flushing"}
Locked  == {"checking", "starting", "listening"} \cup Serving
Phase   == Locked \cup {"new", "spawned", "teardown", "gone"}

TaskPhase == {"none", "sent", "awaiting", "working", "sleeping", "done", "refused", "cut", "unread"}
\* A request keeps its permit until its future ends.
Running == {"awaiting", "working", "sleeping"}

RequestsOf(h) == {r \in Request : home[r] = h}
InUse(h) == {r \in RequestsOf(h) : task[r] \in Running}

\* Types, and no more requests at work than there are permits.
TypeOK ==
  /\ lock \in Helper \cup {None}
  /\ proc \in [Helper -> Phase]
  /\ client \in [Helper -> {"none", "open", "closed"}]
  /\ inbox \in [Helper -> Seq(Request)]
  /\ outbox \in [Helper -> Seq(Request)]
  /\ notified \in [Helper -> BOOLEAN]
  /\ task \in [Request -> TaskPhase]
  /\ home \in [Request -> Helper \cup {None}]
  /\ heard \subseteq Request
  /\ ended \in [Helper -> {"no", "idle", "shutdown", "left"}]
  /\ \A h \in Helper : Cardinality(InUse(h)) <= Permits

Init ==
  /\ lock = None
  /\ proc = [h \in Helper |-> "new"]
  /\ client = [h \in Helper |-> "none"]
  /\ inbox = [h \in Helper |-> <<>>] /\ outbox = [h \in Helper |-> <<>>]
  /\ notified = [h \in Helper |-> FALSE]
  /\ task = [r \in Request |-> "none"] /\ home = [r \in Request |-> None]
  /\ heard = {}
  /\ ended = [h \in Helper |-> "no"]

\* What becomes of the requests of a process that ends.
Cut(h) ==
  [r \in Request |-> IF r \in InUse(h) THEN "cut"
                     ELSE IF r \in RequestsOf(h) /\ task[r] = "sent" THEN "unread" ELSE task[r]]

\* The end of the process h, wherever it is: the system frees the lock.
Exit(h) ==
  /\ proc' = [proc EXCEPT ![h] = "gone"]
  /\ lock' = IF lock = h THEN None ELSE lock
  /\ task' = Cut(h)
  /\ UNCHANGED <<conn, home, ended>>

-----------------------------------------------------------------------------
(* Launch.                                                                 *)

\* The launcher looks whether the profile is free.
Launch(h) ==
  /\ proc[h] = "new"
  /\ IF lock = None
     THEN lock' = h /\ proc' = [proc EXCEPT ![h] = "checking"]
     ELSE UNCHANGED lock /\ proc' = [proc EXCEPT ![h] = "gone"]
  /\ UNCHANGED <<conn, reqs, ended>>

Spawn(h) ==
  /\ proc[h] = "checking"
  /\ lock' = None
  /\ proc' = [proc EXCEPT ![h] = "spawned"]
  /\ UNCHANGED <<conn, reqs, ended>>

\* Slip: the server trusts the launcher's check.
TakeLock_Trusting(h) ==
  /\ proc[h] = "spawned"
  /\ lock' = h
  /\ proc' = [proc EXCEPT ![h] = "starting"]
  /\ UNCHANGED <<conn, reqs, ended>>

\* The server takes the lock again, or ends with PROFILE_BUSY.
TakeLock(h) ==
  /\ proc[h] = "spawned"
  /\ IF lock = None
     THEN lock' = h /\ proc' = [proc EXCEPT ![h] = "starting"]
     ELSE UNCHANGED lock /\ proc' = [proc EXCEPT ![h] = "gone"]
  /\ UNCHANGED <<conn, reqs, ended>>

\* Reconciled, bound to a port, handshake printed.
Listen(h) ==
  /\ proc[h] = "starting"
  /\ proc' = [proc EXCEPT ![h] = "listening"]
  /\ UNCHANGED <<lock, conn, reqs, ended>>

Connect(h) ==
  /\ proc[h] = "listening" /\ client[h] = "none"
  /\ client' = [client EXCEPT ![h] = "open"]
  /\ proc' = [proc EXCEPT ![h] = "waiting"]
  /\ UNCHANGED <<lock, inbox, outbox, notified, heard, reqs, ended>>

\* Nobody connects within the idle time.
AcceptTimeout(h) == proc[h] = "listening" /\ Exit(h)

-----------------------------------------------------------------------------
(* Lua's end.                                                              *)

\* Lua may not have noticed yet that the process is gone.
Send(h, r) ==
  /\ client[h] = "open" /\ task[r] = "none"
  /\ inbox' = [inbox EXCEPT ![h] = Append(@, r)]
  /\ task' = [task EXCEPT ![r] = IF proc[h] = "gone" THEN "unread" ELSE "sent"]
  /\ home' = [home EXCEPT ![r] = h]
  /\ UNCHANGED <<lock, proc, client, outbox, notified, heard, ended>>

\* After the answer to a shutdown, or for any other reason.
Close(h) ==
  /\ client[h] = "open"
  /\ client' = [client EXCEPT ![h] = "closed"]
  /\ UNCHANGED <<lock, proc, inbox, outbox, notified, heard, reqs, ended>>

-----------------------------------------------------------------------------
(* The loop of run_connection.                                             *)

\* The select takes a message and forgets the shutdown it waited for.
Receive(h) ==
  /\ proc[h] = "waiting" /\ inbox[h] # <<>>
  /\ proc' = [proc EXCEPT ![h] = "handling"]
  /\ notified' = [notified EXCEPT ![h] = FALSE]
  /\ UNCHANGED <<lock, client, inbox, outbox, heard, reqs, ended>>

\* Slip: a request that is refused is not answered.
Refuse_Silent(h) ==
  /\ proc[h] = "handling"
  /\ task' = [task EXCEPT ![Head(inbox[h])] = "refused"]
  /\ inbox' = [inbox EXCEPT ![h] = Tail(@)]
  /\ proc' = [proc EXCEPT ![h] = "waiting"]
  /\ UNCHANGED <<lock, client, outbox, notified, heard, home, ended>>

\* Refused: no permit is left, or the message is not a valid request.
Refuse(h) ==
  /\ proc[h] = "handling"
  /\ task' = [task EXCEPT ![Head(inbox[h])] = "refused"]
  /\ outbox' = [outbox EXCEPT ![h] = Append(@, Head(inbox[h]))]
  /\ inbox' = [inbox EXCEPT ![h] = Tail(@)]
  /\ proc' = [proc EXCEPT ![h] = "waiting"]
  /\ UNCHANGED <<lock, client, notified, heard, home, ended>>

\* The request is spawned with its permit.
Grant(h) ==
  /\ task' = [task EXCEPT ![Head(inbox[h])] = "awaiting"]
  /\ inbox' = [inbox EXCEPT ![h] = Tail(@)]
  /\ proc' = [proc EXCEPT ![h] = "waiting"]
  /\ UNCHANGED <<lock, client, outbox, notified, heard, home, ended>>

\* Slip: one request too many.
Accept_OneMore(h) ==
  /\ proc[h] = "handling" /\ Cardinality(InUse(h)) <= Permits
  /\ Grant(h)

Accept(h) ==
  /\ proc[h] = "handling" /\ Cardinality(InUse(h)) < Permits
  /\ Grant(h)

LoopEnds(h, why) ==
  /\ proc' = [proc EXCEPT ![h] = "flushing"]
  /\ ended' = [ended EXCEPT ![h] = why]
  /\ UNCHANGED <<lock, conn, reqs>>

Notified(h) == proc[h] = "waiting" /\ notified[h] /\ LoopEnds(h, "shutdown")

ClientLeft(h) ==
  /\ proc[h] = "waiting" /\ inbox[h] = <<>> /\ client[h] = "closed"
  /\ LoopEnds(h, "left")

\* A connection that breaks makes the server end with an error, at once.
ConnectionError(h) == proc[h] = "waiting" /\ client[h] = "closed" /\ Exit(h)

\* The idle time has passed without a message.  A loop whose requests are
\* still running goes on, with a new wait.
IdleExpires(h) == proc[h] = "waiting" /\ inbox[h] = <<>> /\ client[h] = "open"

IdleGoesOn(h) ==
  /\ IdleExpires(h) /\ InUse(h) # {}
  /\ notified' = [notified EXCEPT ![h] = FALSE]
  /\ UNCHANGED <<lock, proc, client, inbox, outbox, heard, reqs, ended>>

\* Slip: the permit is dropped when the request is spawned, so the idle
\* timeout does not see it.
IdleEnds_Unseen(h) ==
  /\ IdleExpires(h)
  /\ LoopEnds(h, "idle")

\* Slip: a request that is still running keeps the loop going for good.
IdleEnds_Never(h) ==
  /\ IdleExpires(h) /\ RequestsOf(h) = {}
  /\ LoopEnds(h, "idle")

IdleEnds(h) ==
  /\ IdleExpires(h) /\ InUse(h) = {}
  /\ LoopEnds(h, "idle")

-----------------------------------------------------------------------------
(* Requests and the writer.                                                *)

\* A request goes on from an await, into file operations.
Work(r) ==
  /\ task[r] = "awaiting" /\ proc[home[r]] \in Serving
  /\ task' = [task EXCEPT ![r] = "working"]
  /\ UNCHANGED <<lock, proc, conn, home, ended>>

Yield(r) ==
  /\ task[r] = "working"
  /\ task' = [task EXCEPT ![r] = "awaiting"]
  /\ UNCHANGED <<lock, proc, conn, home, ended>>

\* A shutdown request sleeps for 20 ms after its answer.
Answer(r) ==
  /\ task[r] = "working"
  /\ task' = [task EXCEPT ![r] = IF r \in Shutdowns THEN "sleeping" ELSE "done"]
  /\ outbox' = [outbox EXCEPT ![home[r]] = Append(@, r)]
  /\ UNCHANGED <<lock, proc, client, inbox, notified, heard, home, ended>>

\* Only a loop that waits at this moment is notified.
Notify(r) ==
  /\ task[r] = "sleeping" /\ proc[home[r]] \in Serving
  /\ task' = [task EXCEPT ![r] = "done"]
  /\ notified' = [notified EXCEPT ![home[r]] = @ \/ proc[home[r]] = "waiting"]
  /\ UNCHANGED <<lock, proc, client, inbox, outbox, heard, home, ended>>

\* The writer task sends an answer, to a client that may have left.
Write(h) ==
  /\ proc[h] \in Serving /\ outbox[h] # <<>>
  /\ outbox' = [outbox EXCEPT ![h] = Tail(@)]
  /\ heard' = heard \cup (IF client[h] = "open" THEN {Head(outbox[h])} ELSE {})
  /\ UNCHANGED <<lock, proc, client, inbox, notified, reqs, ended>>

-----------------------------------------------------------------------------
(* The end.                                                                *)

\* The writer is done, or two seconds are over; serve returns and drops the
\* lock.
Return(h) ==
  /\ proc[h] = "flushing"
  /\ lock' = None
  /\ proc' = [proc EXCEPT ![h] = "teardown"]
  /\ UNCHANGED <<conn, reqs, ended>>

\* The runtime has waited for the file operations in progress.
Teardown(h) ==
  /\ proc[h] = "teardown"
  /\ \A r \in RequestsOf(h) : task[r] # "working"
  /\ Exit(h)

\* The process is killed, by its launcher after ten seconds without a
\* handshake or from outside.
Die(h) == proc[h] \in Phase \ {"new", "gone"} /\ Exit(h)

Loop(h) ==
  \/ Receive(h) \/ Refuse(h) \/ Accept(h) \/ Notified(h) \/ ClientLeft(h)
  \/ ConnectionError(h) \/ IdleEnds(h) \/ Return(h) \/ Teardown(h)

Starting(h) == Spawn(h) \/ TakeLock(h) \/ Listen(h) \/ AcceptTimeout(h)

Next ==
  \/ \E h \in Helper :
       \/ Launch(h) \/ Starting(h) \/ Connect(h) \/ Close(h)
       \/ Loop(h) \/ IdleGoesOn(h) \/ Write(h) \/ Die(h)
       \/ \E r \in Request : Send(h, r)
  \/ \E r \in Request : Work(r) \/ Yield(r) \/ Answer(r) \/ Notify(r)

Spec == Init /\ [][Next]_vars

\* Processes that are not killed run on, timers fire, and every handler comes
\* to its answer.
FairSpec ==
  /\ Spec
  /\ \A h \in Helper : WF_vars(Starting(h)) /\ WF_vars(Loop(h)) /\ WF_vars(Write(h))
  /\ \A r \in Request : WF_vars(Work(r)) /\ SF_vars(Answer(r)) /\ WF_vars(Notify(r))

-----------------------------------------------------------------------------
(* Properties.                                                             *)

Working(h) == {r \in RequestsOf(h) : task[r] = "working"}

\* Two helpers are at work on the profile at the same time only when one of
\* them is being torn down.
OneAtWork ==
  \A g, h \in Helper :
    g # h /\ (Working(g) # {} \/ proc[g] = "starting") /\ (Working(h) # {} \/ proc[h] = "starting")
      => "teardown" \in {proc[g], proc[h]}

\* The idle timeout never cuts a request short, however late it fires.
IdleCutsNothing ==
  \A h \in Helper : ended[h] = "idle" =>
    \A r \in RequestsOf(h) : task[r] \notin Running \cup {"cut"}

\* Whatever changes the profile holds its lock.
LockedWhileWorking == \A h \in Helper : Working(h) # {} => lock = h

\* Once Lua has left, or a shutdown has been answered, the process ends.
HelperEnds ==
  \A h \in Helper :
    /\ (client[h] = "closed") ~> (proc[h] = "gone")
    /\ \A r \in Shutdowns :
         (home[r] = h /\ task[r] \in {"sleeping", "done"}) ~> (proc[h] = "gone")

\* Every request is answered as long as Lua listens, unless the end of the
\* process finds it unread, at work, or answered but not yet sent.
AnsweredOrEnded ==
  \A r \in Request, h \in Helper :
    (home[r] = h /\ task[r] = "sent") ~>
      \/ r \in heard \/ client[h] = "closed" \/ task[r] \in {"unread", "cut"}
      \/ proc[h] = "gone" /\ \E i \in DOMAIN outbox[h] : outbox[h][i] = r

=============================================================================
