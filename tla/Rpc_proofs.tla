----------------------------- MODULE Rpc_proofs -----------------------------
(***************************************************************************)
(* Proofs about Rpc, for any number of requests and connections: type      *)
(* correctness, that the current connection is the only live one, that     *)
(* each pending request is accounted for, and that Rpc implements Calls.   *)
(***************************************************************************)
EXTENDS Rpc, SequenceTheorems, TLAPS

-----------------------------------------------------------------------------
(* Queues of messages.                                                     *)

Msgs(q) == {q[i] : i \in DOMAIN q}

Queues == [Socket -> Seq(Message)]

LEMMA NoteType ==
  /\ \A t \in {"open", "invalid", "close"} : Note(t) \in Message /\ Note(t).type = t
  /\ \A r \in Request : Reply(r) \in Message /\ Reply(r).type = "text" /\ Reply(r).id = r
BY DEF Note, Reply, Message

LEMMA MsgsAppend ==
  ASSUME NEW q \in Seq(Message), NEW m \in Message
  PROVE  Append(q, m) \in Seq(Message) /\ Msgs(Append(q, m)) = Msgs(q) \cup {m}
<1>1. Append(q, m) \in Seq(Message) /\ Len(Append(q, m)) = Len(q) + 1 /\ Len(q) \in Nat
  BY AppendProperties, LenProperties
<1>2. /\ DOMAIN q = 1..Len(q) /\ DOMAIN Append(q, m) = 1..(Len(q) + 1)
      /\ \A i \in 1..Len(q) : Append(q, m)[i] = q[i]
      /\ Append(q, m)[Len(q) + 1] = m
  BY <1>1, AppendProperties, LenProperties
<1>3. Msgs(Append(q, m)) \subseteq Msgs(q) \cup {m}
  BY <1>1, <1>2 DEF Msgs
<1>4. Msgs(q) \cup {m} \subseteq Msgs(Append(q, m))
  BY <1>1, <1>2 DEF Msgs
<1>. QED
  BY <1>1, <1>3, <1>4

LEMMA MsgsTail ==
  ASSUME NEW q \in Seq(Message), q # <<>>
  PROVE  /\ Tail(q) \in Seq(Message) /\ Head(q) \in Message
         /\ Msgs(q) = Msgs(Tail(q)) \cup {Head(q)}
<1>1. /\ Tail(q) \in Seq(Message) /\ Head(q) \in Message /\ Head(q) = q[1]
      /\ Len(q) \in Nat \ {0} /\ Len(Tail(q)) = Len(q) - 1
      /\ DOMAIN q = 1..Len(q) /\ DOMAIN Tail(q) = 1..(Len(q) - 1)
      /\ \A i \in 1..(Len(q) - 1) : Tail(q)[i] = q[i + 1]
  BY HeadTailProperties, LenProperties, EmptySeq
<1>2. ASSUME NEW i \in 1..Len(q), i # 1 PROVE q[i] \in Msgs(Tail(q))
  <2>1. i - 1 \in 1..(Len(q) - 1) /\ Tail(q)[i - 1] = q[i]
    BY <1>1, <1>2
  <2>. QED
    BY <1>1, <2>1 DEF Msgs
<1>3. Msgs(q) \subseteq Msgs(Tail(q)) \cup {Head(q)}
  BY <1>1, <1>2 DEF Msgs
<1>4. \A i \in 1..(Len(q) - 1) : i + 1 \in 1..Len(q)
  BY <1>1
<1>5. Msgs(Tail(q)) \cup {Head(q)} \subseteq Msgs(q)
  BY <1>1, <1>4 DEF Msgs
<1>. QED
  BY <1>1, <1>3, <1>5

LEMMA RestEffect ==
  ASSUME TypeOK, NEW s \in Socket, queue[s] # <<>>
  PROVE  /\ Rest(s) \in Queues /\ Head(queue[s]) \in Message
         /\ Head(queue[s]) \in Msgs(queue[s])
         /\ \A p \in Socket : /\ Msgs(Rest(s)[p]) \subseteq Msgs(queue[p])
                              /\ Msgs(queue[p]) \subseteq Msgs(Rest(s)[p]) \cup {Head(queue[s])}
<1>1. queue \in Queues /\ queue[s] \in Seq(Message)
  BY DEF TypeOK, Queues
<1>2. /\ Tail(queue[s]) \in Seq(Message) /\ Head(queue[s]) \in Message
      /\ Msgs(queue[s]) = Msgs(Tail(queue[s])) \cup {Head(queue[s])}
  BY <1>1, MsgsTail
<1>. QED
  BY <1>1, <1>2 DEF Rest, Queues

\* A message arrives.
LEMMA ArrivesEffect ==
  ASSUME TypeOK, NEW s \in Socket, NEW m \in Message, Arrives(s, m)
  PROVE  /\ queue' \in Queues
         /\ \A p \in Socket : /\ Msgs(queue[p]) \subseteq Msgs(queue'[p])
                              /\ Msgs(queue'[p]) \subseteq Msgs(queue[p]) \cup {m}
         /\ m \in Msgs(queue'[s])
<1>1. queue \in Queues /\ queue[s] \in Seq(Message)
  BY DEF TypeOK, Queues
<1>2. Append(queue[s], m) \in Seq(Message)
      /\ Msgs(Append(queue[s], m)) = Msgs(queue[s]) \cup {m}
  BY <1>1, MsgsAppend
<1>. QED
  BY <1>1, <1>2 DEF Arrives, Queues

-----------------------------------------------------------------------------
(* The socket.                                                             *)

PeerState == {"unused", "connecting", "up", "down"}

\* The socket stays as it is or is closed, and reports its end if it was up.
LinkMoves(q) ==
  /\ state' \in {"closed", "connecting", "open"}
  /\ socket' \in Socket \cup {None} /\ intentionalClose' \in BOOLEAN
  /\ peer' \in [Socket -> PeerState] /\ queue' \in Queues
  /\ \A s \in Socket :
       /\ Msgs(q[s]) \subseteq Msgs(queue'[s])
       /\ Msgs(queue'[s]) \subseteq Msgs(q[s]) \cup {Note("close")}
       /\ \/ peer'[s] = peer[s]
          \/ peer'[s] = "down" /\ (peer[s] = "up" => Note("close") \in Msgs(queue'[s]))
  /\ OneConnection'

LEMMA LinkKept ==
  ASSUME TypeOK, OneConnection
  PROVE  \A q \in Queues :
           queue' = q /\ UNCHANGED <<state, socket, intentionalClose, peer>> => LinkMoves(q)
BY DEF LinkMoves, TypeOK, OneConnection, PeerState

LEMMA CloseMoves ==
  ASSUME TypeOK, OneConnection
  PROVE  \A q \in Queues :
           CloseSocket(q) /\ intentionalClose' \in BOOLEAN =>
             LinkMoves(q) /\ state' = "closed"
<1>. SUFFICES ASSUME NEW q \in Queues, CloseSocket(q), intentionalClose' \in BOOLEAN
              PROVE  LinkMoves(q) /\ state' = "closed"
  OBVIOUS
<1>1. CASE socket = None
  BY <1>1, RpcAssumption DEF CloseSocket, LinkMoves, TypeOK, OneConnection, PeerState
<1>2. CASE socket # None
  <2>1. socket \in Socket /\ q[socket] \in Seq(Message) /\ Note("close") \in Message
    BY <1>2, NoteType DEF TypeOK, Queues
  <2>2. /\ Append(q[socket], Note("close")) \in Seq(Message)
        /\ Msgs(Append(q[socket], Note("close"))) = Msgs(q[socket]) \cup {Note("close")}
    BY <2>1, MsgsAppend
  <2>3. peer' \in [Socket -> PeerState] /\ peer'[socket] = "down"
        /\ \A s \in Socket \ {socket} : peer'[s] = peer[s]
    BY <1>2, <2>1 DEF CloseSocket, TypeOK, PeerState
  <2>4. /\ queue' \in Queues
        /\ \A s \in Socket \ {socket} : queue'[s] = q[s]
        /\ queue'[socket] = IF peer[socket] = "up" THEN Append(q[socket], Note("close"))
                            ELSE q[socket]
    BY <1>2, <2>1, <2>2 DEF CloseSocket, Queues
  <2>5. \A s \in Socket :
          /\ Msgs(q[s]) \subseteq Msgs(queue'[s])
          /\ Msgs(queue'[s]) \subseteq Msgs(q[s]) \cup {Note("close")}
          /\ \/ peer'[s] = peer[s]
             \/ peer'[s] = "down" /\ (peer[s] = "up" => Note("close") \in Msgs(queue'[s]))
    BY <2>2, <2>3, <2>4
  <2>6. OneConnection'
    BY <2>3 DEF OneConnection
  <2>7. state' = "closed" /\ socket' = None
    BY DEF CloseSocket
  <2>. QED
    BY <2>3, <2>4, <2>5, <2>6, <2>7 DEF LinkMoves
<1>. QED
  BY <1>1, <1>2

LEMMA CallbackMoves ==
  ASSUME TypeOK, OneConnection, NEW r \in Request
  PROVE  \A q \in Queues : RunCallback(r, q) =>
           LinkMoves(q) /\ (r \notin Shutdowns => state' = state /\ intentionalClose' = intentionalClose)
<1>. SUFFICES ASSUME NEW q \in Queues, RunCallback(r, q)
              PROVE  LinkMoves(q) /\ (r \notin Shutdowns => state' = state /\ intentionalClose' = intentionalClose)
  OBVIOUS
<1>1. CASE r \in Shutdowns
  BY <1>1, CloseMoves DEF RunCallback
<1>2. CASE r \notin Shutdowns
  BY <1>2, LinkKept DEF RunCallback
<1>. QED
  BY <1>1, <1>2

LEMMA QueueType == TypeOK => queue \in Queues
BY DEF TypeOK, Queues

-----------------------------------------------------------------------------
(* The inductive invariant.                                                *)

\* What was sent belongs to a request that was accepted.
Known == \A r \in sent : outcome[r] # "new"

\* An answer in a queue was given by the helper.
Truthful ==
  \A s \in Socket : \A m \in Msgs(queue[s]) : m.type = "text" => m.id \in served

\* Only the callback of a shutdown announces that the connection will close.
Purposeful == intentionalClose => ClosedOnPurpose

\* The way back to a request that was sent.
Way(r) ==
  \E s \in Socket :
    /\ r \in wire[s]
    /\ \/ peer[s] = "up" /\ r \notin served
       \/ Reply(r) \in Msgs(queue[s])
       \/ Note("close") \in Msgs(queue[s])

\* Accounted, within a handler as well: one that flushes or that closes the
\* socket will look at the unsent requests at its end.
Covered ==
  ~ClosedOnPurpose =>
    \A r \in pending \ stranded :
      IF r \notin sent
      THEN state = "connecting" \/ handler \in {"close", "flush", "disturbed"}
      ELSE Way(r)

IInv == TypeOK /\ OneConnection /\ Known /\ Truthful /\ Purposeful /\ Covered

LEMMA InitInv == Init => IInv
<1>. SUFFICES ASSUME Init PROVE IInv
  OBVIOUS
<1>1. <<>> \in Seq(Message) /\ Msgs(<<>>) = {}
  BY EmptySeq DEF Msgs
<1>. QED
  BY <1>1 DEF Init, IInv, TypeOK, OneConnection, Known, Truthful, Purposeful, Covered

\* A shutdown that has come back stays so.
LEMMA PurposeKept ==
  ASSUME \A r \in Request : outcome'[r] = outcome[r] \/ outcome[r] \in {"new", "pending"},
         ClosedOnPurpose
  PROVE  ClosedOnPurpose'
BY RpcAssumption DEF ClosedOnPurpose

\* The way back survives a message that is not on it, and the socket's end.
LEMMA WayMoves ==
  ASSUME NEW r \in Request, Way(r), served' = served,
         \A s \in Socket : wire[s] \subseteq wire'[s]
  PROVE  \A q \in Queues, m \in Message :
           /\ LinkMoves(q) /\ m # Reply(r) /\ m # Note("close")
           /\ \A s \in Socket : Msgs(queue[s]) \subseteq Msgs(q[s]) \cup {m}
           => Way(r)'
<1>. SUFFICES ASSUME NEW q \in Queues, NEW m \in Message, LinkMoves(q),
                     m # Reply(r), m # Note("close"),
                     \A s \in Socket : Msgs(queue[s]) \subseteq Msgs(q[s]) \cup {m}
              PROVE  Way(r)'
  OBVIOUS
<1>1. PICK s \in Socket :
        /\ r \in wire[s]
        /\ \/ peer[s] = "up" /\ r \notin served
           \/ Reply(r) \in Msgs(queue[s])
           \/ Note("close") \in Msgs(queue[s])
  BY DEF Way
<1>2. /\ r \in wire'[s]
      /\ \/ peer'[s] = "up" /\ r \notin served'
         \/ Reply(r) \in Msgs(queue'[s])
         \/ Note("close") \in Msgs(queue'[s])
  BY <1>1 DEF LinkMoves
<1>. QED
  BY <1>2 DEF Way, Reply, Note

\* The same when no message is handled.
LEMMA WayStays ==
  ASSUME TypeOK, NEW r \in Request, Way(r), served' = served, LinkMoves(queue),
         \A s \in Socket : wire[s] \subseteq wire'[s]
  PROVE  Way(r)'
<1>1. queue \in Queues /\ Note("open") \in Message /\ Note("open") # Reply(r)
      /\ Note("open") # Note("close")
  BY QueueType, NoteType
<1>. QED
  BY <1>1, WayMoves

\* What is true of answers stays true of a queue that has only lost messages
\* or been told of a connection's end.
LEMMA TruthMoves ==
  ASSUME Truthful, served \subseteq served'
  PROVE  \A q \in Queues :
           /\ LinkMoves(q)
           /\ \A s \in Socket : Msgs(q[s]) \subseteq Msgs(queue[s])
           => Truthful'
<1>. SUFFICES ASSUME NEW q \in Queues, LinkMoves(q),
                     \A s \in Socket : Msgs(q[s]) \subseteq Msgs(queue[s])
              PROVE  Truthful'
  OBVIOUS
<1>1. Note("close").type # "text"
  BY NoteType
<1>. QED
  BY <1>1 DEF Truthful, LinkMoves

-----------------------------------------------------------------------------
(* Requests.                                                               *)

LEMMA RequestKeeps ==
  ASSUME IInv, NEW r \in Request,
         RequestFails(r) \/ RequestWaits(r) \/ RequestSent(r) \/ RequestNotSent(r)
  PROVE  IInv'
<1>. USE DEF IInv
<1>1. /\ outcome[r] = "new" /\ r \notin pending \cup failing /\ r \notin sent /\ r \notin served
      /\ outcome' \in [Request -> {"new", "pending", "answered", "failed", "cancelled"}]
      /\ outcome'[r] \in {"failed", "pending"}
      /\ \A x \in Request \ {r} : outcome'[x] = outcome[x]
      /\ served' = served /\ failing' = failing /\ stranded' = stranded /\ calling' = calling
      /\ handler' = IF handler = "flush" THEN "disturbed" ELSE handler
  BY DEF RequestFails, RequestWaits, RequestSent, RequestNotSent, Enters, Accepted, TypeOK, Known
<1>2. LinkMoves(queue) /\ (~ClosedOnPurpose' => state' = state)
      /\ (intentionalClose' => ClosedOnPurpose')
  <2>0. ClosedOnPurpose => ClosedOnPurpose'
    BY <1>1, PurposeKept
  <2>1. CASE RequestNotSent(r)
    <3>1. outcome'[r] = "failed" /\ RunCallback(r, queue)
      BY <2>1 DEF RequestNotSent, TypeOK
    <3>. QED
      BY <2>0, <3>1, QueueType, CallbackMoves DEF ClosedOnPurpose, Purposeful
  <2>2. CASE RequestFails(r) \/ RequestWaits(r) \/ RequestSent(r)
    <3>1. UNCHANGED link
      BY <2>2 DEF RequestFails, RequestWaits, RequestSent
    <3>. QED
      BY <2>0, <3>1, QueueType, LinkKept DEF link, Purposeful
  <2>. QED
    BY <2>1, <2>2
<1>3. /\ sent' \subseteq Request /\ sent \subseteq sent' /\ sent' \subseteq sent \cup {r}
      /\ wire' \in [Socket -> SUBSET sent'] /\ \A s \in Socket : wire[s] \subseteq wire'[s]
      /\ pending \subseteq pending' /\ pending' \subseteq pending \cup {r}
      /\ r \in pending' <=> outcome'[r] = "pending"
      /\ r \in sent' => r \in pending' /\ CanSend /\ r \in wire'[socket]
                        /\ peer' = peer
      /\ r \in pending' \ sent' => state = "connecting"
  <2>0. sent \subseteq Request /\ wire \in [Socket -> SUBSET sent]
        /\ socket \in Socket \cup {None} /\ outcome \in [Request -> {"new", "pending", "answered", "failed", "cancelled"}]
    BY DEF TypeOK
  <2>1. CASE RequestFails(r) \/ RequestNotSent(r)
    <3>1. outcome'[r] = "failed" /\ UNCHANGED <<pending, sent, wire>>
      BY <2>0, <2>1 DEF RequestFails, RequestNotSent
    <3>. QED
      BY <1>1, <2>0, <3>1
  <2>2. CASE RequestWaits(r)
    <3>1. outcome'[r] = "pending" /\ pending' = pending \cup {r} /\ UNCHANGED <<sent, wire>>
          /\ state = "connecting"
      BY <2>0, <2>2 DEF RequestWaits, Accepted
    <3>. QED
      BY <1>1, <2>0, <3>1
  <2>3. CASE RequestSent(r)
    <3>1. outcome'[r] = "pending" /\ pending' = pending \cup {r} /\ peer' = peer /\ CanSend
      BY <2>0, <2>3 DEF RequestSent, Accepted, link
    <3>2. sent' = sent \cup {r} /\ wire' = [wire EXCEPT ![socket] = @ \cup {r}]
          /\ socket \in Socket
      BY <2>0, <2>3, <3>1 DEF RequestSent, Transmit, CanSend
    <3>3. /\ wire' \in [Socket -> SUBSET sent'] /\ wire'[socket] = wire[socket] \cup {r}
          /\ \A s \in Socket : wire[s] \subseteq wire'[s]
      BY <2>0, <3>2
    <3>. QED
      BY <1>1, <2>0, <3>1, <3>2, <3>3
  <2>. QED
    BY <2>1, <2>2, <2>3
<1>4. TypeOK'
  BY <1>1, <1>2, <1>3 DEF TypeOK, LinkMoves, PeerState, Queues
<1>5. OneConnection' /\ Purposeful'
  BY <1>2 DEF LinkMoves, Purposeful
<1>6. Known'
  BY <1>1, <1>3 DEF Known, TypeOK
<1>7. Truthful'
  BY <1>1, <1>2, QueueType, TruthMoves
<1>8. ASSUME ~ClosedOnPurpose', NEW x \in pending' \ stranded'
      PROVE  IF x \notin sent' THEN state' = "connecting" \/ handler' \in {"close", "flush", "disturbed"}
             ELSE Way(x)'
  <2>1. ~ClosedOnPurpose
    BY <1>1, <1>8, PurposeKept
  <2>2. CASE x = r /\ r \in sent'
    <3>1. socket \in Socket /\ peer'[socket] = "up" /\ r \in wire'[socket] /\ r \notin served'
      BY <1>1, <1>3, <2>2 DEF CanSend, TypeOK
    <3>. QED
      BY <2>2, <3>1 DEF Way
  <2>3. CASE x = r /\ r \notin sent'
    BY <1>2, <1>3, <1>8, <2>3
  <2>4. CASE x # r
    <3>1. x \in pending \ stranded /\ x \in Request /\ (x \in sent <=> x \in sent')
      BY <1>1, <1>3, <1>8, <2>4 DEF TypeOK
    <3>2. CASE x \in sent
      BY <1>1, <1>2, <1>3, <2>1, <3>1, <3>2, WayStays DEF Covered
    <3>3. CASE x \notin sent
      BY <1>1, <1>2, <1>8, <2>1, <3>1, <3>3 DEF Covered
    <3>. QED
      BY <3>1, <3>2, <3>3
  <2>. QED
    BY <2>2, <2>3, <2>4
<1>. QED
  BY <1>4, <1>5, <1>6, <1>7, <1>8 DEF Covered

LEMMA ConnectKeeps ==
  ASSUME IInv, NEW r \in Request, RequestConnects(r)
  PROVE  IInv'
<1>. USE DEF IInv
<1>1. /\ outcome[r] = "new" /\ r \notin pending \cup failing /\ r \notin sent
      /\ outcome' = [outcome EXCEPT ![r] = "pending"] /\ pending' = pending \cup {r}
      /\ served' = served /\ failing' = failing /\ stranded' = stranded /\ calling' = calling
      /\ handler' = IF handler = "flush" THEN "disturbed" ELSE handler
      /\ state = "closed" /\ state' = "connecting"
      /\ UNCHANGED <<intentionalClose, queue, sent, wire>>
  BY DEF RequestConnects, Enters, Accepted, TypeOK, Known
<1>2. PICK s \in Socket :
        peer[s] = "unused" /\ socket' = s /\ peer' = [peer EXCEPT ![s] = "connecting"]
  BY DEF RequestConnects
<1>3. TypeOK'
  BY <1>1, <1>2 DEF TypeOK
<1>4. OneConnection'
  BY <1>1, <1>2 DEF OneConnection, TypeOK
<1>5. \A x \in Request : outcome'[x] = outcome[x] \/ outcome[x] \in {"new", "pending"}
  BY <1>1 DEF TypeOK
<1>6. Known' /\ Purposeful' /\ Truthful'
  BY <1>1, <1>5, PurposeKept DEF Known, TypeOK, Purposeful, Truthful
<1>7. ASSUME NEW x \in pending \ stranded, x \in sent, Way(x)
      PROVE  Way(x)'
  BY <1>1, <1>2, <1>7 DEF Way, TypeOK
<1>8. Covered'
  BY <1>1, <1>5, <1>7, PurposeKept DEF Covered
<1>. QED
  BY <1>3, <1>4, <1>6, <1>8

LEMMA CancelKeeps ==
  ASSUME IInv, NEW r \in Request, Cancel(r)
  PROVE  IInv'
<1>. USE DEF IInv
<1>1. /\ r \notin Shutdowns /\ outcome[r] = "pending"
      /\ outcome' = [outcome EXCEPT ![r] = "cancelled"]
      /\ pending' = pending \ {r} /\ failing' = failing \ {r}
      /\ UNCHANGED <<state, socket, intentionalClose, peer, queue, sent, wire, served,
                     handler, calling, stranded>>
  BY DEF Cancel, link, TypeOK
<1>2. TypeOK'
  BY <1>1 DEF TypeOK
<1>3. \A x \in Request : outcome'[x] = outcome[x] \/ outcome[x] \in {"new", "pending"}
  BY <1>1 DEF TypeOK
<1>4. OneConnection' /\ Known' /\ Purposeful' /\ Truthful'
  BY <1>1, <1>3, PurposeKept DEF OneConnection, Known, TypeOK, Purposeful, Truthful
<1>5. \A x : Way(x) => Way(x)'
  BY <1>1 DEF Way
<1>6. Covered'
  BY <1>1, <1>3, <1>5, PurposeKept DEF Covered
<1>. QED
  BY <1>2, <1>4, <1>6

-----------------------------------------------------------------------------
(* Handlers.                                                               *)

\* _fail_pending: nobody is left in the table.
LEMMA FailAllType ==
  ASSUME IInv, NEW rest \in {"callbacks", "close"}, handler = "none", FailAll(rest),
         NEW q \in Queues, LinkMoves(q),
         \A s \in Socket : Msgs(q[s]) \subseteq Msgs(queue[s]),
         UNCHANGED <<sent, wire, served, outcome>>,
         intentionalClose' => ClosedOnPurpose
  PROVE  IInv'
<1>. USE DEF IInv
<1>1. pending' = {} /\ failing' = pending /\ failing = {}
  BY DEF FailAll, TypeOK
<1>2. TypeOK'
  BY <1>1 DEF TypeOK, FailAll, LinkMoves, PeerState, Queues
<1>3. Truthful'
  BY TruthMoves
<1>4. OneConnection' /\ Known' /\ Purposeful' /\ Covered'
  BY <1>1 DEF LinkMoves, Known, Purposeful, ClosedOnPurpose, Covered
<1>. QED
  BY <1>2, <1>3, <1>4

LEMMA ReceivesEffect ==
  ASSUME TypeOK, NEW s \in Socket, NEW t \in {"open", "text", "invalid", "close"}, Receives(s, t)
  PROVE  /\ handler = "none" /\ ~calling /\ failing = {}
         /\ queue[s] # <<>> /\ Head(queue[s]).type = t
         /\ Rest(s) \in Queues /\ Head(queue[s]) \in Message
         /\ Head(queue[s]) \in Msgs(queue[s])
         /\ \A p \in Socket : /\ Msgs(Rest(s)[p]) \subseteq Msgs(queue[p])
                              /\ Msgs(queue[p]) \subseteq Msgs(Rest(s)[p]) \cup {Head(queue[s])}
<1>1. queue[s] # <<>> /\ Head(queue[s]).type = t /\ handler = "none" /\ ~calling /\ failing = {}
  BY DEF Receives, TypeOK
<1>. QED
  BY <1>1, RestEffect

LEMMA InvalidKeeps ==
  ASSUME IInv, NEW s \in Socket, Invalid(s)
  PROVE  IInv'
<1>. USE DEF IInv
<1>1. Receives(s, "invalid") /\ FailAll("close") /\ queue' = Rest(s)
      /\ UNCHANGED <<state, socket, intentionalClose, peer, sent, wire, served, outcome>>
  BY DEF Invalid
<1>2. handler = "none" /\ Rest(s) \in Queues
      /\ \A p \in Socket : Msgs(Rest(s)[p]) \subseteq Msgs(queue[p])
  BY <1>1, ReceivesEffect
<1>3. LinkMoves(Rest(s))
  BY <1>1, <1>2, LinkKept
<1>. QED
  BY <1>1, <1>2, <1>3, FailAllType DEF Purposeful

LEMMA TimerKeeps ==
  ASSUME IInv, Timer
  PROVE  IInv'
<1>. USE DEF IInv
<1>1. handler = "none" /\ FailAll("close") /\ queue \in Queues
      /\ UNCHANGED <<state, socket, intentionalClose, peer, queue, sent, wire, served, outcome>>
  BY QueueType DEF Timer, link
<1>2. LinkMoves(queue)
  BY <1>1, LinkKept
<1>. QED
  BY <1>1, <1>2, FailAllType DEF Purposeful

LEMMA ClosedKeeps ==
  ASSUME IInv, NEW s \in Socket, Closed(s)
  PROVE  IInv'
<1>. USE DEF IInv
<1>1. /\ Receives(s, "close") /\ CloseSocket(Rest(s)) /\ intentionalClose' = FALSE
      /\ UNCHANGED <<sent, wire, served, outcome>>
      /\ IF intentionalClose THEN UNCHANGED <<pending, work>> ELSE FailAll("callbacks")
  BY DEF Closed
<1>2. handler = "none" /\ Rest(s) \in Queues
      /\ \A p \in Socket : Msgs(Rest(s)[p]) \subseteq Msgs(queue[p])
  BY <1>1, ReceivesEffect
<1>3. LinkMoves(Rest(s))
  BY <1>1, <1>2, CloseMoves
<1>4. CASE ~intentionalClose
  BY <1>1, <1>2, <1>3, <1>4, FailAllType
<1>5. CASE intentionalClose
  <2>1. ClosedOnPurpose /\ ClosedOnPurpose'
    BY <1>1, <1>5 DEF Purposeful, ClosedOnPurpose
  <2>2. UNCHANGED <<pending, handler, calling, failing, stranded>>
    BY <1>1, <1>5 DEF work
  <2>3. TypeOK'
    BY <1>1, <1>3, <2>2 DEF TypeOK, LinkMoves, PeerState, Queues
  <2>4. Truthful'
    BY <1>1, <1>2, <1>3, TruthMoves
  <2>. QED
    BY <1>1, <1>3, <2>1, <2>3, <2>4 DEF LinkMoves, Known, Purposeful, Covered
<1>. QED
  BY <1>4, <1>5

LEMMA OpenKeeps ==
  ASSUME IInv, NEW s \in Socket, Open(s)
  PROVE  IInv'
<1>. USE DEF IInv
<1>1. /\ Receives(s, "open") /\ queue' = Rest(s) /\ state' = "open" /\ handler' = "flush"
      /\ UNCHANGED <<socket, intentionalClose, peer, pending, sent, calling, failing,
                     wire, served, outcome, stranded>>
  BY DEF Open
<1>2. /\ handler = "none" /\ ~calling /\ failing = {} /\ Rest(s) \in Queues
      /\ Head(queue[s]) \in Message /\ Head(queue[s]).type = "open"
      /\ \A p \in Socket : /\ Msgs(Rest(s)[p]) \subseteq Msgs(queue[p])
                           /\ Msgs(queue[p]) \subseteq Msgs(Rest(s)[p]) \cup {Head(queue[s])}
  BY <1>1, ReceivesEffect
<1>3. LinkMoves(Rest(s))
  BY <1>1, <1>2 DEF LinkMoves, TypeOK, PeerState, OneConnection
<1>4. TypeOK'
  BY <1>1, <1>2 DEF TypeOK, Queues
<1>5. Truthful'
  BY <1>1, <1>2, <1>3, TruthMoves
<1>6. ASSUME NEW x \in pending, Way(x)
      PROVE  Way(x)'
  <2>1. x \in Request /\ Head(queue[s]) # Reply(x) /\ Head(queue[s]) # Note("close")
    BY <1>2, NoteType DEF TypeOK
  <2>2. served' = served /\ \A p \in Socket : wire[p] \subseteq wire'[p]
    BY <1>1
  <2>. QED
    BY <1>2, <1>3, <1>6, <2>1, <2>2, WayMoves
<1>7. OneConnection' /\ Known' /\ Purposeful'
  BY <1>1, <1>3 DEF LinkMoves, Known, Purposeful, ClosedOnPurpose
<1>8. Covered'
  BY <1>1, <1>6 DEF Covered, ClosedOnPurpose
<1>. QED
  BY <1>4, <1>5, <1>7, <1>8

\* A request of a table is settled and its callback called, after a message m
\* or none.
LEMMA SettleKeeps ==
  ASSUME IInv, NEW r \in pending \cup failing, NEW o \in {"answered", "failed"},
         NEW q \in Queues, NEW m \in Message,
         pending' = pending \ {r}, failing' = failing \ {r},
         outcome' = [outcome EXCEPT ![r] = o], RunCallback(r, q),
         UNCHANGED <<sent, wire, served, handler, stranded>>,
         calling' \in BOOLEAN, handler = "none" => ~calling',
         m # Note("close"), \A x \in Request : m = Reply(x) => x = r,
         \A s \in Socket : /\ Msgs(q[s]) \subseteq Msgs(queue[s])
                           /\ Msgs(queue[s]) \subseteq Msgs(q[s]) \cup {m}
  PROVE  IInv'
<1>. USE DEF IInv
<1>1. r \in Request /\ outcome[r] = "pending" /\ outcome'[r] = o
      /\ \A x \in Request \ {r} : outcome'[x] = outcome[x]
      /\ outcome' \in [Request -> {"new", "pending", "answered", "failed", "cancelled"}]
  BY DEF TypeOK
<1>2. LinkMoves(q) /\ (r \notin Shutdowns => state' = state /\ intentionalClose' = intentionalClose)
  BY <1>1, CallbackMoves
<1>3. ClosedOnPurpose => ClosedOnPurpose'
  BY <1>1, PurposeKept
<1>4. r \in Shutdowns => ClosedOnPurpose'
  BY <1>1 DEF ClosedOnPurpose
<1>5. TypeOK'
  BY <1>1, <1>2 DEF TypeOK, LinkMoves, PeerState, Queues
<1>6. Truthful'
  BY <1>2, TruthMoves
<1>7. OneConnection' /\ Known' /\ Purposeful'
  BY <1>1, <1>2, <1>3, <1>4 DEF LinkMoves, Known, Purposeful, TypeOK
<1>8. ASSUME NEW x \in pending', Way(x)
      PROVE  Way(x)'
  <2>1. x \in Request /\ x # r
    BY <1>8 DEF TypeOK
  <2>2. m # Reply(x) /\ \A s \in Socket : wire[s] \subseteq wire'[s]
    BY <2>1
  <2>. QED
    BY <1>2, <1>8, <2>1, <2>2, WayMoves
<1>9. Covered'
  BY <1>2, <1>3, <1>4, <1>8 DEF Covered
<1>. QED
  BY <1>5, <1>6, <1>7, <1>9

LEMMA TextKeeps ==
  ASSUME IInv, NEW s \in Socket, Text(s)
  PROVE  IInv'
<1>. USE DEF IInv
<1>. DEFINE m == Head(queue[s])
<1>1. /\ Receives(s, "text") /\ pending' = pending \ {m.id}
      /\ UNCHANGED <<handler, calling, failing, stranded, sent, wire, served>>
      /\ IF m.id \in pending
         THEN outcome' = [outcome EXCEPT ![m.id] = "answered"] /\ RunCallback(m.id, Rest(s))
         ELSE queue' = Rest(s) /\ UNCHANGED <<state, socket, intentionalClose, peer, outcome>>
  BY DEF Text, work
<1>2. /\ handler = "none" /\ ~calling /\ failing = {} /\ Rest(s) \in Queues
      /\ m \in Message /\ m.type = "text" /\ m \in Msgs(queue[s])
      /\ \A p \in Socket : /\ Msgs(Rest(s)[p]) \subseteq Msgs(queue[p])
                           /\ Msgs(queue[p]) \subseteq Msgs(Rest(s)[p]) \cup {m}
  BY <1>1, ReceivesEffect
<1>3. m # Note("close") /\ \A x \in Request : m = Reply(x) => x = m.id
  BY <1>2, NoteType
<1>4. CASE m.id \in pending
  <2>0. calling' = calling /\ calling \in BOOLEAN
    BY <1>1 DEF TypeOK
  <2>1. m.id \in pending \cup failing /\ failing' = failing \ {m.id} /\ calling' \in BOOLEAN
        /\ (handler = "none" => ~calling') /\ "answered" \in {"answered", "failed"}
    <3>1. m.id \in pending \cup failing /\ failing' = failing \ {m.id}
      BY <1>1, <1>2, <1>4
    <3>2. calling' \in BOOLEAN /\ ~calling'
      BY <1>2, <2>0, Zenon
    <3>. QED
      BY <3>1, <3>2
  <2>2. outcome' = [outcome EXCEPT ![m.id] = "answered"] /\ RunCallback(m.id, Rest(s))
    BY <1>1, <1>4
  <2>. HIDE DEF m
  <2>. QED
    BY <1>1, <1>2, <1>3, <2>1, <2>2, SettleKeeps
<1>5. CASE m.id \notin pending
  <2>1. queue' = Rest(s) /\ pending' = pending /\ UNCHANGED <<state, socket, intentionalClose, peer, outcome>>
    BY <1>1, <1>5
  <2>2. LinkMoves(Rest(s))
    BY <1>2, <2>1, LinkKept
  <2>3. TypeOK'
    BY <1>1, <1>2, <2>1 DEF TypeOK, Queues
  <2>4. Truthful'
    BY <1>1, <1>2, <2>2, TruthMoves
  <2>5. ASSUME NEW x \in pending, Way(x)
        PROVE  Way(x)'
    <3>1. x \in Request /\ m # Reply(x) /\ m # Note("close") /\ served' = served
          /\ \A p \in Socket : wire[p] \subseteq wire'[p]
      BY <1>1, <1>3, <1>5 DEF TypeOK
    <3>. QED
      BY <1>2, <2>2, <2>5, <3>1, WayMoves
  <2>6. OneConnection' /\ Known' /\ Purposeful' /\ Covered'
    BY <1>1, <2>1, <2>2, <2>5 DEF LinkMoves, Known, Purposeful, ClosedOnPurpose, Covered
  <2>. QED
    BY <2>3, <2>4, <2>6
<1>. QED
  BY <1>4, <1>5

LEMMA CallbackKeeps ==
  ASSUME IInv, NEW r \in Request, Callback(r) \/ FlushFails(r)
  PROVE  IInv'
<1>. USE DEF IInv
<1>1. /\ r \in pending \cup failing /\ handler # "none" /\ calling' \in BOOLEAN
      /\ pending' = pending \ {r} /\ failing' = failing \ {r}
      /\ outcome' = [outcome EXCEPT ![r] = "failed"] /\ RunCallback(r, queue)
      /\ UNCHANGED <<sent, wire, served, handler, stranded>>
  <2>1. CASE Callback(r)
    <3>1. r \in failing /\ r \notin pending /\ pending' = pending /\ failing' = failing \ {r}
          /\ calling' = TRUE
      BY <2>1 DEF Callback, TypeOK
    <3>2. outcome' = [outcome EXCEPT ![r] = "failed"] /\ RunCallback(r, queue)
          /\ UNCHANGED <<sent, wire, served, handler, stranded>>
      BY <2>1 DEF Callback
    <3>3. handler # "none"
      BY <3>1 DEF TypeOK
    <3>. QED
      BY <3>1, <3>2, <3>3
  <2>2. CASE FlushFails(r)
    <3>1. r \in pending /\ r \notin failing /\ pending' = pending \ {r} /\ failing' = failing
          /\ calling' = TRUE /\ handler # "none"
      BY <2>2 DEF FlushFails, Unsent, TypeOK
    <3>2. outcome' = [outcome EXCEPT ![r] = "failed"] /\ RunCallback(r, queue)
          /\ UNCHANGED <<sent, wire, served, handler, stranded>>
      BY <2>2 DEF FlushFails
    <3>. QED
      BY <3>1, <3>2
  <2>. QED
    BY <2>1, <2>2
<1>2. /\ queue \in Queues /\ Note("open") \in Message /\ Note("open") # Note("close")
      /\ \A x \in Request : Note("open") # Reply(x)
  BY QueueType, NoteType
<1>3. \A s \in Socket : /\ Msgs(queue[s]) \subseteq Msgs(queue[s])
                        /\ Msgs(queue[s]) \subseteq Msgs(queue[s]) \cup {Note("open")}
  OBVIOUS
<1>. QED
  BY <1>1, <1>2, <1>3, SettleKeeps

LEMMA FlushSendKeeps ==
  ASSUME IInv, NEW r \in Request, FlushSend(r)
  PROVE  IInv'
<1>. USE DEF IInv
<1>1. /\ r \in pending /\ r \notin sent /\ r \notin served /\ outcome[r] = "pending"
      /\ socket \in Socket /\ peer[socket] = "up" /\ handler # "none"
      /\ sent' = sent \cup {r} /\ wire' = [wire EXCEPT ![socket] = @ \cup {r}]
      /\ calling' = FALSE
      /\ UNCHANGED <<state, socket, intentionalClose, peer, queue, pending, handler, failing,
                     served, outcome, stranded>>
  BY DEF FlushSend, Unsent, CanSend, Transmit, link, TypeOK
<1>2. /\ wire' \in [Socket -> SUBSET sent'] /\ r \in wire'[socket]
      /\ \A s \in Socket : wire[s] \subseteq wire'[s]
  BY <1>1 DEF TypeOK
<1>3. TypeOK'
  BY <1>1, <1>2 DEF TypeOK
<1>4. OneConnection' /\ Known' /\ Purposeful' /\ Truthful'
  BY <1>1 DEF OneConnection, Known, Purposeful, ClosedOnPurpose, Truthful
<1>5. LinkMoves(queue)
  BY <1>1, QueueType, LinkKept
<1>6. Way(r)'
  BY <1>1, <1>2 DEF Way
<1>7. ASSUME NEW x \in pending, Way(x)
      PROVE  Way(x)'
  BY <1>1, <1>2, <1>5, <1>7, WayStays DEF TypeOK
<1>8. Covered'
  BY <1>1, <1>6, <1>7 DEF Covered, ClosedOnPurpose
<1>. QED
  BY <1>3, <1>4, <1>8

LEMMA HandlerEndsKeeps ==
  ASSUME IInv, HandlerEnds
  PROVE  IInv'
<1>. USE DEF IInv
<1>1. /\ handler # "none" /\ failing = {} /\ handler' = "none" /\ calling' = FALSE
      /\ handler = "flush" => Unsent = {}
      /\ stranded' = IF handler \in {"close", "disturbed"} THEN stranded \cup Unsent ELSE stranded
      /\ UNCHANGED <<intentionalClose, pending, sent, failing, wire, served, outcome>>
  BY DEF HandlerEnds
<1>2. LinkMoves(queue) /\ (handler # "close" => state' = state)
  BY <1>1, QueueType, CloseMoves, LinkKept DEF HandlerEnds, TypeOK
<1>3. TypeOK'
  BY <1>1, <1>2 DEF TypeOK, LinkMoves, PeerState, Queues, Unsent
<1>4. Truthful'
  BY <1>1, <1>2, QueueType, TruthMoves
<1>5. ASSUME NEW x \in pending, Way(x)
      PROVE  Way(x)'
  BY <1>1, <1>2, <1>5, WayStays DEF TypeOK
<1>6. OneConnection' /\ Known' /\ Purposeful'
  BY <1>1, <1>2 DEF LinkMoves, Known, Purposeful, ClosedOnPurpose
<1>7. Covered'
  BY <1>1, <1>2, <1>5 DEF Covered, ClosedOnPurpose, Unsent, TypeOK
<1>. QED
  BY <1>3, <1>4, <1>6, <1>7

-----------------------------------------------------------------------------
(* The other end.                                                          *)

LEMMA LibraryKeeps ==
  ASSUME IInv, NEW s \in Socket,
         Connects(s) \/ Garbles(s) \/ Drops(s) \/ \E r \in Request : Replies(s, r)
  PROVE  IInv'
<1>. USE DEF IInv
<1>1. /\ UNCHANGED <<state, socket, intentionalClose, pending, sent, handler, calling, failing,
                     stranded, wire, outcome>>
      /\ \A p \in Socket \ {s} : peer'[p] = peer[p]
      /\ peer' \in [Socket -> PeerState]
      /\ peer'[s] \in {"connecting", "up"} => peer[s] \in {"connecting", "up"}
  BY DEF Connects, Garbles, Drops, Replies, work, TypeOK, PeerState
<1>2. PICK m \in Message :
        /\ Arrives(s, m)
        /\ m.type = "text" => m.id \in served'
        /\ peer[s] = "up" => peer'[s] = "up" \/ m = Note("close")
        /\ \A x \in served' \ served : x \in wire[s] /\ m = Reply(x)
        /\ served \subseteq served' /\ served' \subseteq sent
  <2>1. CASE Connects(s)
    BY <2>1, NoteType DEF Connects, TypeOK
  <2>2. CASE Garbles(s)
    BY <2>2, NoteType DEF Garbles, TypeOK
  <2>3. CASE Drops(s)
    BY <2>3, NoteType DEF Drops, TypeOK
  <2>4. ASSUME NEW r \in Request, Replies(s, r)
        PROVE  \E m \in Message :
                 /\ Arrives(s, m)
                 /\ m.type = "text" => m.id \in served'
                 /\ peer[s] = "up" => peer'[s] = "up" \/ m = Note("close")
                 /\ \A x \in served' \ served : x \in wire[s] /\ m = Reply(x)
                 /\ served \subseteq served' /\ served' \subseteq sent
    <3>1. Reply(r) \in Message /\ Reply(r).id = r /\ Arrives(s, Reply(r))
          /\ served' = served \cup {r} /\ peer' = peer /\ r \in wire[s] /\ r \in sent
      BY <2>4, NoteType DEF Replies, TypeOK
    <3>. QED
      BY <3>1 DEF TypeOK
  <2>. QED
    BY <2>1, <2>2, <2>3, <2>4
<1>3. /\ queue' \in Queues /\ m \in Msgs(queue'[s])
      /\ \A p \in Socket : /\ Msgs(queue[p]) \subseteq Msgs(queue'[p])
                           /\ Msgs(queue'[p]) \subseteq Msgs(queue[p]) \cup {m}
  BY <1>2, ArrivesEffect
<1>4. TypeOK'
  BY <1>1, <1>2, <1>3 DEF TypeOK, PeerState, Queues
<1>5. OneConnection' /\ Known' /\ Purposeful'
  BY <1>1 DEF OneConnection, Known, Purposeful, ClosedOnPurpose
<1>6. Truthful'
  BY <1>2, <1>3 DEF Truthful
<1>7. ASSUME NEW x \in pending, Way(x)
      PROVE  Way(x)'
  <2>1. PICK p \in Socket :
          /\ x \in wire[p]
          /\ \/ peer[p] = "up" /\ x \notin served
             \/ Reply(x) \in Msgs(queue[p])
             \/ Note("close") \in Msgs(queue[p])
    BY <1>7 DEF Way
  <2>2. CASE x \in served' \ served
    BY <1>1, <1>2, <1>3, <2>2 DEF Way
  <2>3. CASE x \notin served' \ served
    BY <1>1, <1>2, <1>3, <2>1, <2>3 DEF Way
  <2>. QED
    BY <2>2, <2>3
<1>8. Covered'
  BY <1>1, <1>7 DEF Covered, ClosedOnPurpose
<1>. QED
  BY <1>4, <1>5, <1>6, <1>8

LEMMA InvNext == IInv /\ [Next]_vars => IInv'
<1>. SUFFICES ASSUME IInv, [Next]_vars PROVE IInv'
  OBVIOUS
<1>1. ASSUME NEW r \in Request,
             \/ RequestFails(r) \/ RequestConnects(r) \/ RequestWaits(r)
             \/ RequestSent(r) \/ RequestNotSent(r) \/ Cancel(r)
      PROVE  IInv'
  BY <1>1, RequestKeeps, ConnectKeeps, CancelKeeps
<1>2. CASE Timer
  BY <1>2, TimerKeeps
<1>3. CASE GoOn
  BY <1>3, CallbackKeeps, FlushSendKeeps, HandlerEndsKeeps DEF GoOn
<1>4. ASSUME NEW s \in Socket,
             \/ Deliver(s) \/ Connects(s) \/ Garbles(s) \/ Drops(s)
             \/ \E r \in Request : Replies(s, r)
      PROVE  IInv'
  BY <1>4, OpenKeeps, TextKeeps, InvalidKeeps, ClosedKeeps, LibraryKeeps DEF Deliver
<1>5. CASE UNCHANGED vars
  BY <1>5 DEF vars, IInv, TypeOK, OneConnection, Known, Truthful, Purposeful, Covered,
              ClosedOnPurpose, Way
<1>. QED
  BY <1>1, <1>2, <1>3, <1>4, <1>5 DEF Next

-----------------------------------------------------------------------------
(* Theorems.                                                               *)

LEMMA AlwaysInv == Spec => []IInv
<1>. QED
  BY InitInv, InvNext, PTL DEF Spec

\* Rpc keeps its types, and the tables hold exactly the unsettled requests.
THEOREM TypeCorrect == Spec => []TypeOK
<1>1. IInv => TypeOK
  BY DEF IInv
<1>. QED
  BY <1>1, AlwaysInv, PTL

\* No live connection is left behind by a later one.
THEOREM ConnectionIsOne == Spec => []OneConnection
<1>1. IInv => OneConnection
  BY DEF IInv
<1>. QED
  BY <1>1, AlwaysInv, PTL

\* Between handlers something is under way for each pending request.
THEOREM RequestsAreAccounted == Spec => []Accounted
<1>1. IInv => Accounted
  BY DEF IInv, Covered, Accounted, Way, Queued, Msgs
<1>. QED
  BY <1>1, AlwaysInv, PTL

-----------------------------------------------------------------------------
(* Rpc implements Calls.                                                   *)

LEMMA InitImplements == Init => AbstractCalls!Init
BY DEF Init, AbstractCalls!Init

\* What the refinement tells apart.
Shown == <<outcome, wire, served>>

LEMMA SentIsSent ==
  ASSUME TypeOK, NEW r \in Request, AbstractCalls!Sent(r)
  PROVE  r \in sent
BY DEF AbstractCalls!Sent, TypeOK

\* A request fails before it was accepted, or is accepted, or is sent.
LEMMA RequestImplements ==
  ASSUME IInv, NEW r \in Request,
         \/ RequestFails(r) \/ RequestConnects(r) \/ RequestWaits(r)
         \/ RequestSent(r) \/ RequestNotSent(r) \/ Cancel(r) \/ FlushSend(r)
         \/ FlushFails(r) \/ Callback(r)
  PROVE  AbstractCalls!Next
<1>. USE DEF IInv
<1>1. CASE RequestFails(r) \/ RequestNotSent(r)
  <2>1. outcome[r] = "new" /\ outcome' = [outcome EXCEPT ![r] = "failed"] /\ UNCHANGED <<wire, served>>
    BY <1>1 DEF RequestFails, RequestNotSent, Enters
  <2>2. AbstractCalls!Fail(r)
    BY <2>1 DEF AbstractCalls!Fail, AbstractCalls!Becomes
  <2>. QED
    BY <2>2 DEF AbstractCalls!Next
<1>2. CASE RequestConnects(r) \/ RequestWaits(r)
  <2>1. outcome[r] = "new" /\ outcome' = [outcome EXCEPT ![r] = "pending"] /\ UNCHANGED <<wire, served>>
    BY <1>2 DEF RequestConnects, RequestWaits, Enters, Accepted
  <2>2. AbstractCalls!Accept(r)
    BY <2>1 DEF AbstractCalls!Accept, AbstractCalls!Becomes
  <2>. QED
    BY <2>2 DEF AbstractCalls!Next
<1>3. CASE RequestSent(r) \/ FlushSend(r)
  <2>1. /\ outcome[r] \in {"new", "pending"} /\ r \notin sent
        /\ outcome' = [outcome EXCEPT ![r] = "pending"]
        /\ socket \in Socket /\ wire' = [wire EXCEPT ![socket] = @ \cup {r}]
        /\ served' = served
    <3>1. CASE RequestSent(r)
      BY <3>1 DEF RequestSent, Enters, Accepted, Transmit, CanSend, TypeOK, Known
    <3>2. CASE FlushSend(r)
      BY <3>2 DEF FlushSend, Transmit, CanSend, TypeOK, Unsent
    <3>. QED
      BY <1>3, <3>1, <3>2
  <2>2. ~AbstractCalls!Sent(r)
    BY <2>1, SentIsSent
  <2>3. AbstractCalls!Send(r)
    BY <2>1, <2>2 DEF AbstractCalls!Send, AbstractCalls!Becomes
  <2>. QED
    BY <2>3 DEF AbstractCalls!Next
<1>4. CASE Cancel(r)
  <2>1. outcome[r] = "pending" /\ outcome' = [outcome EXCEPT ![r] = "cancelled"]
        /\ UNCHANGED <<wire, served>>
    BY <1>4 DEF Cancel, TypeOK
  <2>2. AbstractCalls!Cancel(r)
    BY <2>1 DEF AbstractCalls!Cancel, AbstractCalls!Becomes
  <2>. QED
    BY <2>2 DEF AbstractCalls!Next
<1>5. CASE FlushFails(r) \/ Callback(r)
  <2>1. outcome[r] = "pending" /\ outcome' = [outcome EXCEPT ![r] = "failed"]
        /\ UNCHANGED <<wire, served>>
    BY <1>5 DEF FlushFails, Callback, Unsent, TypeOK
  <2>2. AbstractCalls!Fail(r)
    BY <2>1 DEF AbstractCalls!Fail, AbstractCalls!Becomes
  <2>. QED
    BY <2>2 DEF AbstractCalls!Next
<1>. QED
  BY <1>1, <1>2, <1>3, <1>4, <1>5

\* An answer in the queue was given by the helper that was sent the request.
LEMMA TextImplements ==
  ASSUME IInv, NEW s \in Socket, Text(s)
  PROVE  AbstractCalls!Next \/ UNCHANGED Shown
<1>. USE DEF IInv
<1>. DEFINE m == Head(queue[s])
<1>1. /\ Receives(s, "text") /\ UNCHANGED <<wire, served>>
      /\ IF m.id \in pending THEN outcome' = [outcome EXCEPT ![m.id] = "answered"]
         ELSE outcome' = outcome
  BY DEF Text
<1>2. m.type = "text" /\ m \in Msgs(queue[s])
  BY <1>1, ReceivesEffect
<1>3. m.id \in served
  BY <1>2 DEF Truthful
<1>4. CASE m.id \in pending
  <2>1. m.id \in Request /\ outcome[m.id] = "pending"
    BY <1>4 DEF TypeOK
  <2>2. AbstractCalls!Answer(m.id)
    BY <1>1, <1>3, <1>4, <2>1 DEF AbstractCalls!Answer, AbstractCalls!Becomes
  <2>. QED
    BY <2>1, <2>2 DEF AbstractCalls!Next
<1>5. CASE m.id \notin pending
  BY <1>1, <1>5 DEF Shown
<1>. QED
  BY <1>4, <1>5

LEMMA StepImplements ==
  IInv /\ [Next]_vars => [AbstractCalls!Next]_<<outcome, wire, served>>
<1>. SUFFICES ASSUME IInv, [Next]_vars PROVE AbstractCalls!Next \/ UNCHANGED Shown
  BY DEF Shown
<1>1. ASSUME NEW r \in Request,
             \/ RequestFails(r) \/ RequestConnects(r) \/ RequestWaits(r)
             \/ RequestSent(r) \/ RequestNotSent(r) \/ Cancel(r) \/ FlushSend(r)
             \/ FlushFails(r) \/ Callback(r)
      PROVE  AbstractCalls!Next
  BY <1>1, RequestImplements
<1>2. CASE Timer \/ HandlerEnds \/ UNCHANGED vars
  BY <1>2 DEF Timer, HandlerEnds, vars, Shown
<1>3. ASSUME NEW s \in Socket, Deliver(s)
      PROVE  AbstractCalls!Next \/ UNCHANGED Shown
  BY <1>3, TextImplements DEF Deliver, Open, Invalid, Closed, Shown
<1>4. ASSUME NEW s \in Socket, Connects(s) \/ Garbles(s) \/ Drops(s)
      PROVE  UNCHANGED Shown
  BY <1>4 DEF Connects, Garbles, Drops, Shown
<1>5. ASSUME NEW s \in Socket, NEW r \in Request, Replies(s, r)
      PROVE  AbstractCalls!Next
  <2>1. AbstractCalls!Serve(r)
    BY <1>5 DEF Replies, AbstractCalls!Serve, AbstractCalls!Sent
  <2>. QED
    BY <2>1 DEF AbstractCalls!Next
<1>. QED
  BY <1>1, <1>2, <1>3, <1>4, <1>5 DEF Next, GoOn

\* Whatever becomes of the connections, each request is sent at most once and
\* comes to at most one outcome.
THEOREM CallsAreImplemented == Spec => ImplementsCalls
<1>. QED
  BY InitImplements, StepImplements, AlwaysInv, PTL
  DEF Spec, ImplementsCalls, AbstractCalls!Spec
=============================================================================
