-------------------------------- MODULE Rpc --------------------------------
(***************************************************************************)
(* Lua's end of the connection to the helper: the table of pending         *)
(* requests, the socket and the timer of a connection being made.          *)
(*                                                                         *)
(* Everything here runs on Aseprite's one thread.  A handler, of a socket  *)
(* message or of the timer, may call the callbacks of several requests; in *)
(* between, the callbacks make and cancel requests of their own, so such a *)
(* handler takes several steps.  The socket library queues its messages,   *)
(* and those of a socket that has been closed still arrive.                *)
(***************************************************************************)
EXTENDS Naturals, Sequences

CONSTANTS
  Request,
  Shutdowns,  \* the requests that Rpc:shutdown makes
  Socket,     \* connections, each with a helper of its own
  None

ASSUME RpcAssumption == Shutdowns \subseteq Request /\ None \notin Socket \cup Request

VARIABLES
  state, socket, intentionalClose, pending, sent,
  handler,   \* what is left of the handler that runs, after its callbacks
  calling,   \* one of its callbacks has begun
  failing,   \* the requests _fail_pending has yet to go through
  peer,      \* the connection of each socket, as the socket library has it
  queue,     \* messages of each socket that Lua has not handled
  wire,      \* requests sent on each socket
  served,    \* requests the helper has answered
  outcome,   \* history: what became of each request
  stranded   \* history: requests a handler has left behind unsent

vars == <<state, socket, intentionalClose, pending, sent, handler, calling, failing,
          peer, queue, wire, served, outcome, stranded>>
link == <<state, socket, intentionalClose, peer, queue>>
work == <<handler, calling, failing, stranded>>

Message == [type : {"open", "text", "invalid", "close"}, id : Request \cup {None}]
Note(t) == [type |-> t, id |-> None]
Reply(r) == [type |-> "text", id |-> r]

Unsent == pending \ sent

\* Types; a request is in a table exactly as long as it has no outcome, and
\* a handler's callbacks are over when the handler is.
TypeOK ==
  /\ state \in {"closed", "connecting", "open"}
  /\ socket \in Socket \cup {None}
  /\ intentionalClose \in BOOLEAN /\ calling \in BOOLEAN
  /\ pending \cup failing = {r \in Request : outcome[r] = "pending"}
  /\ pending \cap failing = {}
  /\ sent \subseteq Request /\ served \subseteq sent /\ stranded \subseteq Request
  /\ handler \in {"none", "callbacks", "close", "flush", "disturbed"}
  /\ handler = "none" => failing = {} /\ ~calling
  /\ peer \in [Socket -> {"unused", "connecting", "up", "down"}]
  /\ queue \in [Socket -> Seq(Message)]
  /\ wire \in [Socket -> SUBSET sent]
  /\ outcome \in [Request -> {"new", "pending", "answered", "failed", "cancelled"}]

Init ==
  /\ state = "closed" /\ socket = None /\ intentionalClose = FALSE
  /\ pending = {} /\ sent = {}
  /\ handler = "none" /\ calling = FALSE /\ failing = {} /\ stranded = {}
  /\ peer = [s \in Socket |-> "unused"]
  /\ queue = [s \in Socket |-> <<>>]
  /\ wire = [s \in Socket |-> {}] /\ served = {}
  /\ outcome = [r \in Request |-> "new"]

-----------------------------------------------------------------------------
(* Helpers of the actions.  q is the queue without the message at hand.    *)

\* A connection that was up reports its end, later.
CloseSocket(q) ==
  /\ socket' = None /\ state' = "closed"
  /\ IF socket = None THEN peer' = peer /\ queue' = q
     ELSE /\ peer' = [peer EXCEPT ![socket] = "down"]
          /\ queue' = IF peer[socket] = "up"
                      THEN [q EXCEPT ![socket] = Append(@, Note("close"))] ELSE q

\* The callback of r, of which only that of a shutdown touches the socket.
RunCallback(r, q) ==
  IF r \in Shutdowns
  THEN intentionalClose' = TRUE /\ CloseSocket(q)
  ELSE queue' = q /\ UNCHANGED <<state, socket, intentionalClose, peer>>

CanSend == socket # None /\ peer[socket] = "up"

Transmit(r) ==
  /\ sent' = sent \cup {r}
  /\ wire' = [wire EXCEPT ![socket] = @ \cup {r}]

FailAll(rest) ==
  /\ failing' = pending /\ pending' = {}
  /\ handler' = rest /\ calling' = FALSE
  /\ UNCHANGED stranded

-----------------------------------------------------------------------------
(* Requests, from the window or from within a callback.                    *)

\* Lua code of the window runs.
Scripts == handler = "none" \/ calling

\* _flush goes through the table that a request made now is added to, which
\* leaves undefined how it goes on.
Enters(r) ==
  /\ Scripts /\ outcome[r] = "new"
  /\ handler' = IF handler = "flush" THEN "disturbed" ELSE handler
  /\ UNCHANGED <<calling, failing, stranded, served>>

Accepted(r) ==
  /\ pending' = pending \cup {r}
  /\ outcome' = [outcome EXCEPT ![r] = "pending"]

\* The helper, or the socket, cannot be started.
RequestFails(r) ==
  /\ Enters(r) /\ state = "closed" /\ r \notin Shutdowns
  /\ outcome' = [outcome EXCEPT ![r] = "failed"]
  /\ UNCHANGED <<link, pending, sent, wire>>

RequestConnects(r) ==
  /\ Enters(r) /\ state = "closed" /\ r \notin Shutdowns
  /\ Accepted(r)
  /\ \E s \in Socket :
       /\ peer[s] = "unused"
       /\ socket' = s /\ peer' = [peer EXCEPT ![s] = "connecting"]
  /\ state' = "connecting"
  /\ UNCHANGED <<intentionalClose, queue, sent, wire>>

RequestWaits(r) ==
  /\ Enters(r) /\ state = "connecting"
  /\ Accepted(r)
  /\ UNCHANGED <<link, sent, wire>>

RequestSent(r) ==
  /\ Enters(r) /\ state = "open" /\ CanSend
  /\ Accepted(r) /\ Transmit(r)
  /\ UNCHANGED link

RequestNotSent(r) ==
  /\ Enters(r) /\ state = "open" /\ ~CanSend
  /\ outcome' = [outcome EXCEPT ![r] = "failed"]
  /\ RunCallback(r, queue)
  /\ UNCHANGED <<pending, sent, wire>>

\* The window keeps no ticket for a shutdown.
Cancel(r) ==
  /\ Scripts /\ r \in (pending \cup failing) \ Shutdowns
  /\ pending' = pending \ {r} /\ failing' = failing \ {r}
  /\ outcome' = [outcome EXCEPT ![r] = "cancelled"]
  /\ UNCHANGED <<link, sent, wire, served, handler, calling, stranded>>

-----------------------------------------------------------------------------
(* Handlers.                                                               *)

\* The next message of s has this type; q is the queue without it.
Receives(s, t) == handler = "none" /\ queue[s] # <<>> /\ Head(queue[s]).type = t
Rest(s) == [queue EXCEPT ![s] = Tail(@)]

\* Whichever socket it is that has opened.
Open(s) ==
  /\ Receives(s, "open")
  /\ state' = "open" /\ queue' = Rest(s)
  /\ handler' = "flush"
  /\ UNCHANGED <<socket, intentionalClose, peer, pending, sent, calling, failing,
                 wire, served, outcome, stranded>>

\* Slip: an answered request stays in the table.
Text_Kept(s) ==
  /\ Receives(s, "text")
  /\ LET r == Head(queue[s]).id IN
     IF r \in pending
     THEN outcome' = [outcome EXCEPT ![r] = "answered"] /\ RunCallback(r, Rest(s))
     ELSE queue' = Rest(s) /\ UNCHANGED <<state, socket, intentionalClose, peer, outcome>>
  /\ UNCHANGED <<work, sent, wire, served, pending>>

\* An answer, which may be an error; nobody waits for one that was cancelled.
Text(s) ==
  /\ Receives(s, "text")
  /\ LET r == Head(queue[s]).id IN
     /\ pending' = pending \ {r}
     /\ IF r \in pending
        THEN outcome' = [outcome EXCEPT ![r] = "answered"] /\ RunCallback(r, Rest(s))
        ELSE queue' = Rest(s) /\ UNCHANGED <<state, socket, intentionalClose, peer, outcome>>
  /\ UNCHANGED <<work, sent, wire, served>>

\* A message that is too long, no JSON or of another protocol.
Invalid(s) ==
  /\ Receives(s, "invalid")
  /\ FailAll("close")
  /\ queue' = Rest(s)
  /\ UNCHANGED <<state, socket, intentionalClose, peer, sent, wire, served, outcome>>

\* Slip: the connection is forgotten without being closed.
Closed_Leaks(s) ==
  /\ Receives(s, "close")
  /\ intentionalClose' = FALSE
  /\ socket' = None /\ state' = "closed" /\ queue' = Rest(s) /\ UNCHANGED peer
  /\ IF intentionalClose THEN UNCHANGED <<pending, work>> ELSE FailAll("callbacks")
  /\ UNCHANGED <<sent, wire, served, outcome>>

\* Slip: the requests of a connection that has ended wait on.
Closed_Silent(s) ==
  /\ Receives(s, "close")
  /\ intentionalClose' = FALSE
  /\ CloseSocket(Rest(s))
  /\ UNCHANGED <<pending, work, sent, wire, served, outcome>>

\* Whichever socket it is that has closed.
Closed(s) ==
  /\ Receives(s, "close")
  /\ intentionalClose' = FALSE
  /\ CloseSocket(Rest(s))
  /\ IF intentionalClose THEN UNCHANGED <<pending, work>> ELSE FailAll("callbacks")
  /\ UNCHANGED <<sent, wire, served, outcome>>

\* Slip: the timer runs from the moment the connection is up.
Timer_Late ==
  /\ handler = "none" /\ state = "connecting" /\ CanSend
  /\ FailAll("close")
  /\ UNCHANGED <<link, sent, wire, served, outcome>>

\* Ten seconds without a connection.
Timer ==
  /\ handler = "none" /\ state = "connecting"
  /\ FailAll("close")
  /\ UNCHANGED <<link, sent, wire, served, outcome>>

\* _fail_pending calls the next request's callback, in any order.
Callback(r) ==
  /\ r \in failing
  /\ failing' = failing \ {r} /\ calling' = TRUE
  /\ outcome' = [outcome EXCEPT ![r] = "failed"]
  /\ RunCallback(r, queue)
  /\ UNCHANGED <<pending, sent, handler, wire, served, stranded>>

\* Slip: _flush sends every request in the table.
FlushSend_Again(r) ==
  /\ handler \in {"flush", "disturbed"} /\ r \in pending /\ CanSend
  /\ Transmit(r) /\ calling' = FALSE
  /\ UNCHANGED <<link, pending, handler, failing, served, outcome, stranded>>

FlushSend(r) ==
  /\ handler \in {"flush", "disturbed"} /\ r \in Unsent /\ CanSend
  /\ Transmit(r) /\ calling' = FALSE
  /\ UNCHANGED <<link, pending, handler, failing, served, outcome, stranded>>

FlushFails(r) ==
  /\ handler \in {"flush", "disturbed"} /\ r \in Unsent /\ ~CanSend
  /\ pending' = pending \ {r} /\ calling' = TRUE
  /\ outcome' = [outcome EXCEPT ![r] = "failed"]
  /\ RunCallback(r, queue)
  /\ UNCHANGED <<sent, handler, failing, wire, served, stranded>>

\* The handler of an invalid message and that of the timer close the socket
\* after the callbacks; what these have sent to it or left for it to open is
\* not looked at again.
HandlerEnds ==
  /\ handler # "none" /\ failing = {} /\ (handler = "flush" => Unsent = {})
  /\ handler' = "none" /\ calling' = FALSE
  /\ IF handler = "close" THEN CloseSocket(queue) ELSE UNCHANGED <<state, socket, peer, queue>>
  /\ stranded' = IF handler \in {"close", "disturbed"} THEN stranded \cup Unsent ELSE stranded
  /\ UNCHANGED <<intentionalClose, pending, sent, failing, wire, served, outcome>>

-----------------------------------------------------------------------------
(* The socket library and the helper at the other end.                     *)

Arrives(s, m) == queue' = [queue EXCEPT ![s] = Append(@, m)]

Connects(s) ==
  /\ peer[s] = "connecting"
  /\ peer' = [peer EXCEPT ![s] = "up"]
  /\ Arrives(s, Note("open"))
  /\ UNCHANGED <<state, socket, intentionalClose, pending, sent, work, wire, served, outcome>>

Replies(s, r) ==
  /\ peer[s] = "up" /\ r \in wire[s] \ served
  /\ served' = served \cup {r}
  /\ Arrives(s, Reply(r))
  /\ UNCHANGED <<state, socket, intentionalClose, pending, sent, work, peer, wire, outcome>>

Garbles(s) ==
  /\ peer[s] = "up" /\ wire[s] # {}
  /\ ~ \E i \in DOMAIN queue[s] : queue[s][i].type = "invalid"
  /\ Arrives(s, Note("invalid"))
  /\ UNCHANGED <<state, socket, intentionalClose, pending, sent, work, peer, wire, served, outcome>>

\* The helper ends, or the connection breaks.
Drops(s) ==
  /\ peer[s] = "up"
  /\ peer' = [peer EXCEPT ![s] = "down"]
  /\ Arrives(s, Note("close"))
  /\ UNCHANGED <<state, socket, intentionalClose, pending, sent, work, wire, served, outcome>>

Deliver(s) == Open(s) \/ Text(s) \/ Invalid(s) \/ Closed(s)
GoOn == HandlerEnds \/ \E r \in Request : Callback(r) \/ FlushSend(r) \/ FlushFails(r)

Next ==
  \/ \E r \in Request :
       \/ RequestFails(r) \/ RequestConnects(r) \/ RequestWaits(r)
       \/ RequestSent(r) \/ RequestNotSent(r) \/ Cancel(r)
  \/ Timer \/ GoOn
  \/ \E s \in Socket :
       \/ Deliver(s) \/ Connects(s) \/ Garbles(s) \/ Drops(s)
       \/ \E r \in Request : Replies(s, r)

Spec == Init /\ [][Next]_vars

\* Aseprite runs its handlers to the end, delivers the messages of a socket
\* and fires the timer; a helper answers each request unless its connection
\* ends (HelperSession).
FairSpec ==
  /\ Spec
  /\ WF_vars(Timer) /\ WF_vars(GoOn)
  /\ \A s \in Socket :
       /\ SF_vars(Deliver(s))
       /\ \A r \in Request : WF_vars(Replies(s, r) \/ (r \in wire[s] /\ Drops(s)))

-----------------------------------------------------------------------------
(* Properties.                                                             *)

\* A request goes to one helper at most, whatever becomes of the connections,
\* and its callbacks report one outcome at most, an answer only of its own.
AbstractCalls == INSTANCE Calls
ImplementsCalls == AbstractCalls!Spec

\* Every live connection is the current one, so that no helper is kept alive
\* (and its lock on the profile with it) by a connection nobody will close.
OneConnection ==
  \A s \in Socket : peer[s] \in {"connecting", "up"} => s = socket /\ state # "closed"

\* A shutdown has come back, and Rpc has closed the connection on purpose.
ClosedOnPurpose == \E r \in Shutdowns : outcome[r] \in {"answered", "failed"}

Queued(s, m) == \E i \in DOMAIN queue[s] : queue[s][i] = m

\* Between two handlers something is under way that will settle each pending
\* request: a connection being made, the helper, or a message in the queue.
\* A connection closed on purpose forgets the others, and a handler that has
\* requests made under it may leave them behind.
Accounted ==
  handler = "none" /\ ~ClosedOnPurpose =>
    \A r \in pending \ stranded :
      IF r \notin sent THEN state = "connecting"
      ELSE \E s \in Socket :
             /\ r \in wire[s]
             /\ \/ peer[s] = "up" /\ r \notin served
                \/ Queued(s, Reply(r)) \/ Queued(s, Note("close"))

\* Under the same conditions each request is settled in the end.
Settled ==
  \A r \in Request :
    (r \in pending) ~> (r \notin pending \cup failing \/ r \in stranded \/ ClosedOnPurpose)

=============================================================================
