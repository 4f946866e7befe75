------------------------ MODULE HelperSession_proofs ------------------------
(***************************************************************************)
(* Proofs about HelperSession, for any number of launches, requests and    *)
(* permits: type correctness, that two helpers never work on the profile   *)
(* at the same time unless one is being torn down, and that the idle       *)
(* timeout never cuts a request short.                                     *)
(***************************************************************************)
EXTENDS HelperSession, FiniteSetTheorems, SequenceTheorems, TLAPS

-----------------------------------------------------------------------------
(* The inductive invariant.                                                *)

\* A launch past its check of the profile holds the lock until it returns.
Holder == \A h \in Helper : proc[h] \in Locked => lock = h

\* A request is at work only in a server that has not ended, and cut short
\* only by the end of one.
AtHome ==
  \A r \in Request :
    /\ task[r] \in Running =>
         home[r] \in Helper /\ proc[home[r]] \in Serving \cup {"teardown"}
    /\ task[r] = "cut" => home[r] \in Helper /\ proc[home[r]] = "gone"

\* The messages a server has not read were sent to it, and the one it is
\* handling is among them.
Queued ==
  \A h \in Helper :
    /\ proc[h] = "handling" => inbox[h] # <<>>
    /\ \A i \in 1..Len(inbox[h]) : home[inbox[h][i]] = h /\ task[inbox[h][i]] # "none"

\* The reason why a loop ended is given when it ends.
Over == \A h \in Helper : ended[h] # "no" => proc[h] \in {"flushing", "teardown", "gone"}

IInv == TypeOK /\ Holder /\ AtHome /\ Queued /\ Over /\ IdleCutsNothing

LEMMA NoneIsNoHelper == \A h \in Helper : h # None
BY NoneAssumption

\* Requests at work are a finite set.
LEMMA InUseFinite ==
  ASSUME NEW h \in Helper
  PROVE  IsFiniteSet(InUse(h)) /\ Cardinality(InUse(h)) \in Nat
<1>1. IsFiniteSet(Request) /\ InUse(h) \in SUBSET Request
  BY PermitAssumption DEF InUse, RequestsOf
<1>2. IsFiniteSet(InUse(h))
  BY <1>1, FS_Subset
<1>. QED
  BY <1>2, FS_CardinalityType

\* A step that puts no request to work keeps the number of them in bounds.
LEMMA NoMoreAtWork ==
  ASSUME TypeOK, \A h \in Helper : InUse(h)' \subseteq InUse(h)
  PROVE  \A h \in Helper : Cardinality(InUse(h)') <= Permits
<1>. TAKE h \in Helper
<1>1. IsFiniteSet(InUse(h)) /\ Cardinality(InUse(h)) \in Nat
  BY InUseFinite
<1>2. InUse(h)' \in SUBSET InUse(h)
  OBVIOUS
<1>3. IsFiniteSet(InUse(h)') /\ Cardinality(InUse(h)') <= Cardinality(InUse(h))
  BY <1>1, <1>2, FS_Subset
<1>4. Cardinality(InUse(h)') \in Nat
  BY <1>3, FS_CardinalityType
<1>5. Cardinality(InUse(h)) <= Permits
  BY DEF TypeOK
<1>. QED
  BY <1>1, <1>3, <1>4, <1>5, PermitAssumption

LEMMA InitInv == Init => IInv
<1>. SUFFICES ASSUME Init PROVE IInv
  OBVIOUS
<1>1. \A h \in Helper : InUse(h) = {}
  BY DEF Init, InUse, RequestsOf, Running
<1>2. \A h \in Helper : Cardinality(InUse(h)) <= Permits
  BY <1>1, FS_EmptySet, PermitAssumption
<1>3. <<>> \in Seq(Request) /\ Len(<<>>) = 0
  BY EmptySeq
<1>4. TypeOK
  BY <1>2, <1>3 DEF Init, TypeOK, Phase, TaskPhase
<1>5. Holder /\ AtHome /\ Over /\ IdleCutsNothing
  BY DEF Init, Holder, AtHome, Over, IdleCutsNothing, Locked, Serving, Looping, Running
<1>6. Queued
  BY <1>3 DEF Init, Queued
<1>. QED
  BY <1>4, <1>5, <1>6 DEF IInv

-----------------------------------------------------------------------------
(* One step.                                                               *)

\* The end of a process, which several steps share.
LEMMA ExitKeeps ==
  ASSUME IInv, NEW h \in Helper, proc[h] # "new", Exit(h)
  PROVE  IInv'
<1>. USE DEF IInv
<1>1. /\ task' \in [Request -> TaskPhase]
      /\ \A r \in Request : task'[r] \in Running => task[r] \in Running /\ home[r] # h
      /\ \A r \in Request : task[r] # "none" => task'[r] # "none"
      /\ \A r \in Request : task'[r] = "cut" => task[r] = "cut" \/ r \in InUse(h)
      /\ \A r \in InUse(h) : home[r] = h
  BY DEF Exit, Cut, TypeOK, TaskPhase, InUse, RequestsOf, Running
<1>2. home' = home /\ inbox' = inbox /\ ended' = ended
  BY DEF Exit, conn
<1>3. \A g \in Helper : InUse(g)' \subseteq InUse(g)
  BY <1>1, <1>2 DEF InUse, RequestsOf
<1>4. \A g \in Helper : Cardinality(InUse(g)') <= Permits
  BY <1>3, NoMoreAtWork
<1>5. TypeOK'
  BY <1>1, <1>4 DEF TypeOK, Exit, conn, Phase
<1>6. Holder'
  BY DEF Holder, TypeOK, Exit, Locked, Serving, Looping
<1>7. AtHome'
  BY <1>1, <1>2 DEF AtHome, TypeOK, Exit
<1>8. Queued'
  BY <1>1, <1>2 DEF Queued, TypeOK, Exit
<1>9. Over'
  BY <1>2 DEF Over, TypeOK, Exit
<1>10. IdleCutsNothing'
  BY <1>1, <1>2 DEF IdleCutsNothing, InUse, RequestsOf, TypeOK
<1>. QED
  BY <1>5, <1>6, <1>7, <1>8, <1>9, <1>10

\* Steps before a connection is there: no request is involved.
LEMMA StartingKeeps ==
  ASSUME IInv, NEW h \in Helper, Launch(h) \/ Spawn(h) \/ TakeLock(h) \/ Listen(h) \/ Connect(h)
  PROVE  IInv'
<1>. USE DEF IInv
<1>1. /\ task' = task /\ home' = home /\ inbox' = inbox /\ ended' = ended
      /\ proc[h] \in {"new", "checking", "spawned", "starting", "listening"}
      /\ proc'[h] \in {"checking", "spawned", "starting", "listening", "waiting", "gone"}
      /\ \A g \in Helper \ {h} : proc'[g] = proc[g]
  BY DEF Launch, Spawn, TakeLock, Listen, Connect, conn, reqs, TypeOK
<1>2. \A g \in Helper : InUse(g)' \subseteq InUse(g)
  BY <1>1 DEF InUse, RequestsOf
<1>3. \A g \in Helper : Cardinality(InUse(g)') <= Permits
  BY <1>2, NoMoreAtWork
<1>4. TypeOK'
  BY <1>3 DEF TypeOK, Launch, Spawn, TakeLock, Listen, Connect, conn, reqs, Phase, Locked,
              Serving, Looping
<1>5. Holder'
  BY NoneIsNoHelper DEF Holder, TypeOK, Launch, Spawn, TakeLock, Listen, Connect, Locked,
                        Serving, Looping
<1>6. AtHome'
  BY <1>1 DEF AtHome, Serving, Looping
<1>7. Queued'
  BY <1>1 DEF Queued
<1>8. Over' /\ IdleCutsNothing'
  BY <1>1 DEF Over, IdleCutsNothing, RequestsOf
<1>. QED
  BY <1>4, <1>5, <1>6, <1>7, <1>8

LEMMA SendKeeps ==
  ASSUME IInv, NEW h \in Helper, NEW r \in Request, Send(h, r)
  PROVE  IInv'
<1>. USE DEF IInv
<1>1. inbox[h] \in Seq(Request) /\ inbox \in [Helper -> Seq(Request)]
  BY DEF TypeOK
<1>2. /\ inbox'[h] \in Seq(Request) /\ inbox'[h] # <<>>
      /\ Len(inbox[h]) \in Nat /\ Len(inbox'[h]) = Len(inbox[h]) + 1
      /\ \A i \in 1..Len(inbox[h]) : inbox'[h][i] = inbox[h][i]
      /\ inbox'[h][Len(inbox[h]) + 1] = r
  BY <1>1, AppendProperties, LenProperties DEF Send
<1>3. /\ task[r] = "none" /\ task'[r] \in {"sent", "unread"} /\ home'[r] = h
      /\ \A q \in Request \ {r} : task'[q] = task[q] /\ home'[q] = home[q]
      /\ \A g \in Helper \ {h} : inbox'[g] = inbox[g]
      /\ proc' = proc /\ ended' = ended /\ lock' = lock
  BY DEF Send, TypeOK
<1>4. \A g \in Helper : InUse(g)' \subseteq InUse(g)
  BY <1>3 DEF InUse, RequestsOf, Running
<1>5. \A g \in Helper : Cardinality(InUse(g)') <= Permits
  BY <1>4, NoMoreAtWork
<1>6. inbox' \in [Helper -> Seq(Request)]
  BY <1>1, <1>2 DEF Send
<1>7. TypeOK'
  BY <1>5, <1>6 DEF TypeOK, Send, TaskPhase
<1>8. Holder' /\ Over'
  BY <1>3 DEF Holder, Over
<1>9. AtHome' /\ IdleCutsNothing'
  BY <1>3 DEF AtHome, IdleCutsNothing, RequestsOf, Running
<1>10. Queued'
  <2>. SUFFICES ASSUME NEW g \in Helper
                PROVE  /\ proc'[g] = "handling" => inbox'[g] # <<>>
                       /\ \A i \in 1..Len(inbox'[g]) :
                            home'[inbox'[g][i]] = g /\ task'[inbox'[g][i]] # "none"
    BY DEF Queued
  <2>1. \A i \in 1..Len(inbox[g]) : inbox[g][i] \in Request \ {r}
    BY <1>1, <1>3, ElementOfSeq DEF Queued
  <2>2. CASE g # h
    BY <1>3, <2>1, <2>2 DEF Queued
  <2>3. CASE g = h
    BY <1>2, <1>3, <2>1, <2>3 DEF Queued
  <2>. QED
    BY <2>2, <2>3
<1>. QED
  BY <1>7, <1>8, <1>9, <1>10

\* Steps that only touch Lua's end or the way of the answers.
LEMMA AnsweringKeeps ==
  ASSUME IInv, NEW h \in Helper, Close(h) \/ IdleGoesOn(h) \/ Write(h)
  PROVE  IInv'
<1>. USE DEF IInv
<1>1. /\ task' = task /\ home' = home /\ inbox' = inbox /\ ended' = ended /\ proc' = proc
      /\ lock' = lock
  BY DEF Close, IdleGoesOn, Write, reqs
<1>2. \A g \in Helper : InUse(g)' \subseteq InUse(g)
  BY <1>1 DEF InUse, RequestsOf
<1>3. \A g \in Helper : Cardinality(InUse(g)') <= Permits
  BY <1>2, NoMoreAtWork
<1>4. outbox \in [Helper -> Seq(Request)] /\ heard \subseteq Request
  BY DEF TypeOK
<1>5. outbox' \in [Helper -> Seq(Request)] /\ heard' \subseteq Request
  <2>1. CASE Write(h)
    <3>1. Head(outbox[h]) \in Request /\ Tail(outbox[h]) \in Seq(Request)
      BY <1>4, <2>1, HeadTailProperties DEF Write
    <3>. QED
      BY <1>4, <2>1, <3>1 DEF Write
  <2>2. CASE Close(h) \/ IdleGoesOn(h)
    BY <1>4, <2>2 DEF Close, IdleGoesOn
  <2>. QED
    BY <2>1, <2>2
<1>6. TypeOK'
  BY <1>1, <1>3, <1>5 DEF TypeOK, Close, IdleGoesOn, Write
<1>7. Holder' /\ AtHome' /\ Over'
  BY <1>1 DEF Holder, AtHome, Over
<1>8. Queued' /\ IdleCutsNothing'
  BY <1>1 DEF Queued, IdleCutsNothing, RequestsOf
<1>. QED
  BY <1>6, <1>7, <1>8

\* Steps of the loop that put no request to work, and the return of serve.
LEMMA LoopKeeps ==
  ASSUME IInv, NEW h \in Helper,
         Receive(h) \/ Notified(h) \/ ClientLeft(h) \/ IdleEnds(h) \/ Return(h)
  PROVE  IInv'
<1>. USE DEF IInv
<1>. DEFINE Ends(why) == proc[h] = "waiting" /\ LoopEnds(h, why)
<1>1. CASE Receive(h)
  BY <1>1, NoMoreAtWork
     DEF Receive, reqs, TypeOK, Holder, AtHome, Queued, Over, IdleCutsNothing, RequestsOf, InUse,
         Phase, Locked, Serving, Looping
<1>2. ASSUME NEW why \in {"shutdown", "left", "idle"}, Ends(why),
             why = "idle" => InUse(h) = {}
      PROVE  IInv'
  <2>1. /\ task' = task /\ home' = home /\ inbox' = inbox /\ lock' = lock
        /\ proc[h] = "waiting" /\ proc'[h] = "flushing" /\ ended'[h] = why
        /\ \A g \in Helper \ {h} : proc'[g] = proc[g] /\ ended'[g] = ended[g]
    BY <1>2 DEF LoopEnds, conn, reqs, TypeOK
  <2>2. \A g \in Helper : InUse(g)' \subseteq InUse(g)
    BY <2>1 DEF InUse, RequestsOf
  <2>3. \A g \in Helper : Cardinality(InUse(g)') <= Permits
    BY <2>2, NoMoreAtWork
  <2>4. TypeOK'
    BY <1>2, <2>3 DEF TypeOK, LoopEnds, conn, reqs, Phase, Locked, Serving
  <2>5. Holder' /\ AtHome' /\ Over'
    BY <2>1 DEF Holder, AtHome, Over, Locked, Serving, Looping
  <2>6. Queued'
    BY <2>1 DEF Queued
  <2>7. IdleCutsNothing'
    <3>1. why = "idle" => \A r \in RequestsOf(h) : task[r] \notin Running
      BY <1>2 DEF InUse
    <3>2. \A r \in RequestsOf(h) : task[r] # "cut"
      BY <2>1 DEF AtHome, RequestsOf
    <3>. QED
      BY <2>1, <3>1, <3>2 DEF IdleCutsNothing, RequestsOf
  <2>. QED
    BY <2>4, <2>5, <2>6, <2>7
<1>3. CASE Notified(h) \/ ClientLeft(h) \/ IdleEnds(h)
  BY <1>2, <1>3 DEF Notified, ClientLeft, IdleEnds, IdleExpires
<1>4. CASE Return(h)
  <2>1. /\ task' = task /\ home' = home /\ inbox' = inbox /\ ended' = ended /\ lock' = None
        /\ proc[h] = "flushing" /\ proc'[h] = "teardown"
        /\ \A g \in Helper \ {h} : proc'[g] = proc[g]
    BY <1>4 DEF Return, conn, reqs, TypeOK
  <2>2. \A g \in Helper : InUse(g)' \subseteq InUse(g)
    BY <2>1 DEF InUse, RequestsOf
  <2>3. \A g \in Helper : Cardinality(InUse(g)') <= Permits
    BY <2>2, NoMoreAtWork
  <2>4. TypeOK'
    BY <1>4, <2>3 DEF TypeOK, Return, conn, reqs, Phase
  <2>5. Holder'
    BY <2>1 DEF Holder, Locked, Serving, Looping
  <2>6. AtHome' /\ Over'
    BY <2>1 DEF AtHome, Over
  <2>7. Queued' /\ IdleCutsNothing'
    BY <2>1 DEF Queued, IdleCutsNothing, RequestsOf
  <2>. QED
    BY <2>4, <2>5, <2>6, <2>7
<1>. QED
  BY <1>1, <1>3, <1>4

\* The handling of a message takes it off the queue; r is the request in it.
LEMMA HandlingTakes ==
  ASSUME IInv, NEW h \in Helper, proc[h] = "handling",
         inbox' = [inbox EXCEPT ![h] = Tail(@)], home' = home,
         \A r \in Request : task[r] # "none" => task'[r] # "none",
         proc' = [proc EXCEPT ![h] = "waiting"]
  PROVE  /\ Head(inbox[h]) \in Request /\ home[Head(inbox[h])] = h
         /\ inbox' \in [Helper -> Seq(Request)]
         /\ Queued'
<1>. USE DEF IInv
<1>1. inbox[h] \in Seq(Request) /\ inbox[h] # <<>> /\ inbox \in [Helper -> Seq(Request)]
  BY DEF TypeOK, Queued
<1>2. /\ Head(inbox[h]) = inbox[h][1] /\ Len(inbox[h]) \in Nat /\ 1 \in 1..Len(inbox[h])
      /\ Head(inbox[h]) \in Request /\ Tail(inbox[h]) \in Seq(Request)
      /\ Len(Tail(inbox[h])) = Len(inbox[h]) - 1
      /\ \A i \in 1..Len(Tail(inbox[h])) : Tail(inbox[h])[i] = inbox[h][i + 1]
  <2>1. Len(inbox[h]) \in Nat /\ Len(inbox[h]) # 0
    BY <1>1, LenProperties, EmptySeq, SMT
  <2>2. Head(inbox[h]) = inbox[h][1]
    BY <1>1
  <2>. QED
    BY <1>1, <2>1, <2>2, HeadTailProperties
<1>3. home[Head(inbox[h])] = h
  BY <1>2 DEF Queued
<1>4. inbox' \in [Helper -> Seq(Request)]
  BY <1>1, <1>2
<1>5. Queued'
  <2>. SUFFICES ASSUME NEW g \in Helper
                PROVE  /\ proc'[g] = "handling" => inbox'[g] # <<>>
                       /\ \A i \in 1..Len(inbox'[g]) :
                            home'[inbox'[g][i]] = g /\ task'[inbox'[g][i]] # "none"
    BY DEF Queued
  <2>1. \A i \in 1..Len(inbox[g]) : inbox[g][i] \in Request
    BY <1>1, ElementOfSeq
  <2>2. CASE g # h
    BY <1>1, <2>1, <2>2 DEF Queued, TypeOK
  <2>3. CASE g = h
    <3>1. \A i \in 1..Len(inbox'[h]) : i + 1 \in 1..Len(inbox[h]) /\ inbox'[h][i] = inbox[h][i + 1]
      BY <1>1, <1>2
    <3>2. proc'[h] # "handling"
      BY DEF TypeOK
    <3>. QED
      BY <2>1, <2>3, <3>1, <3>2 DEF Queued
  <2>. QED
    BY <2>2, <2>3
<1>. QED
  BY <1>2, <1>3, <1>4, <1>5

LEMMA RefuseKeeps ==
  ASSUME IInv, NEW h \in Helper, Refuse(h)
  PROVE  IInv'
<1>. USE DEF IInv
<1>. DEFINE r == Head(inbox[h])
<1>1. \A q \in Request : task[q] # "none" => task'[q] # "none"
  BY DEF Refuse, TypeOK
<1>2. r \in Request /\ home[r] = h /\ inbox' \in [Helper -> Seq(Request)] /\ Queued'
  BY <1>1, HandlingTakes DEF Refuse
<1>. HIDE DEF r
<1>3. /\ proc[h] = "handling" /\ proc'[h] = "waiting" /\ task'[r] = "refused"
      /\ \A q \in Request \ {r} : task'[q] = task[q]
      /\ \A g \in Helper \ {h} : proc'[g] = proc[g]
      /\ home' = home /\ ended' = ended /\ lock' = lock
  BY <1>2 DEF Refuse, TypeOK, r
<1>4. \A g \in Helper : InUse(g)' \subseteq InUse(g)
  BY <1>3 DEF InUse, RequestsOf, Running
<1>5. \A g \in Helper : Cardinality(InUse(g)') <= Permits
  BY <1>4, NoMoreAtWork
<1>6. outbox' \in [Helper -> Seq(Request)]
  <2>1. Append(outbox[h], r) \in Seq(Request)
    BY <1>2, AppendProperties DEF TypeOK
  <2>. QED
    BY <2>1 DEF TypeOK, Refuse, r
<1>7. TypeOK'
  BY <1>2, <1>5, <1>6 DEF TypeOK, Refuse, TaskPhase, Phase, Locked, Serving, Looping, r
<1>8. Holder' /\ AtHome' /\ Over' /\ IdleCutsNothing'
  BY <1>3 DEF Holder, AtHome, Over, IdleCutsNothing, RequestsOf, Running, Locked, Serving, Looping
<1>. QED
  BY <1>2, <1>7, <1>8

\* The only step that puts a request to work takes a free permit.
LEMMA AcceptKeeps ==
  ASSUME IInv, NEW h \in Helper, Accept(h)
  PROVE  IInv'
<1>. USE DEF IInv
<1>. DEFINE r == Head(inbox[h])
<1>1. \A q \in Request : task[q] # "none" => task'[q] # "none"
  BY DEF Accept, Grant, TypeOK
<1>2. r \in Request /\ home[r] = h /\ inbox' \in [Helper -> Seq(Request)] /\ Queued'
  BY <1>1, HandlingTakes DEF Accept, Grant
<1>. HIDE DEF r
<1>3. /\ proc[h] = "handling" /\ proc'[h] = "waiting" /\ task'[r] = "awaiting"
      /\ \A q \in Request \ {r} : task'[q] = task[q]
      /\ \A g \in Helper \ {h} : proc'[g] = proc[g]
      /\ home' = home /\ ended' = ended /\ lock' = lock
  BY <1>2 DEF Accept, Grant, TypeOK, r
<1>4. \A g \in Helper : Cardinality(InUse(g)') <= Permits
  <2>. TAKE g \in Helper
  <2>1. IsFiniteSet(InUse(g)) /\ Cardinality(InUse(g)) \in Nat /\ Cardinality(InUse(g)) <= Permits
    BY InUseFinite DEF TypeOK
  <2>2. CASE g # h
    <3>1. InUse(g)' \in SUBSET InUse(g)
      BY <1>2, <1>3, <2>2 DEF InUse, RequestsOf
    <3>2. IsFiniteSet(InUse(g)') /\ Cardinality(InUse(g)') <= Cardinality(InUse(g))
      BY <2>1, <3>1, FS_Subset
    <3>. QED
      BY <2>1, <3>2, FS_CardinalityType, PermitAssumption
  <2>3. CASE g = h
    <3>1. InUse(h)' \in SUBSET (InUse(h) \cup {r})
      BY <1>3 DEF InUse, RequestsOf
    <3>2. /\ IsFiniteSet(InUse(h) \cup {r})
          /\ Cardinality(InUse(h) \cup {r}) \in Nat
          /\ Cardinality(InUse(h) \cup {r}) <= Cardinality(InUse(h)) + 1
      BY <2>1, <2>3, FS_AddElement
    <3>3. IsFiniteSet(InUse(h)') /\ Cardinality(InUse(h)') <= Cardinality(InUse(h) \cup {r})
      BY <3>1, <3>2, FS_Subset
    <3>4. Cardinality(InUse(h)') \in Nat
      BY <3>3, FS_CardinalityType
    <3>5. Cardinality(InUse(h)) < Permits
      BY DEF Accept
    <3>. QED
      BY <2>1, <2>3, <3>2, <3>3, <3>4, <3>5, PermitAssumption
  <2>. QED
    BY <2>2, <2>3
<1>5. TypeOK'
  BY <1>2, <1>4 DEF TypeOK, Accept, Grant, TaskPhase, Phase, Locked, Serving, Looping, r
<1>6. Holder' /\ Over'
  BY <1>3 DEF Holder, Over, Locked, Serving, Looping
<1>7. AtHome'
  BY <1>2, <1>3 DEF AtHome, Serving, Looping
<1>8. IdleCutsNothing'
  <2>1. ended[h] = "no"
    BY <1>3 DEF Over
  <2>. QED
    BY <1>2, <1>3, <2>1 DEF IdleCutsNothing, RequestsOf
<1>. QED
  BY <1>2, <1>5, <1>6, <1>7, <1>8

\* A request at work moves on or is done.
LEMMA WorkKeeps ==
  ASSUME IInv, NEW r \in Request, Work(r) \/ Yield(r) \/ Answer(r) \/ Notify(r)
  PROVE  IInv'
<1>. USE DEF IInv
<1>1. /\ task[r] \in Running /\ task'[r] \in Running \cup {"done"}
      /\ \A q \in Request \ {r} : task'[q] = task[q]
      /\ home' = home /\ inbox' = inbox /\ ended' = ended /\ proc' = proc /\ lock' = lock
  BY DEF Work, Yield, Answer, Notify, conn, TypeOK, Running
<1>2. home[r] \in Helper
  BY <1>1 DEF AtHome
<1>3. \A g \in Helper : InUse(g)' \subseteq InUse(g)
  BY <1>1 DEF InUse, RequestsOf
<1>4. \A g \in Helper : Cardinality(InUse(g)') <= Permits
  BY <1>3, NoMoreAtWork
<1>5. outbox' \in [Helper -> Seq(Request)] /\ notified' \in [Helper -> BOOLEAN]
  <2>1. Append(outbox[home[r]], r) \in Seq(Request)
    BY <1>2, AppendProperties DEF TypeOK
  <2>. QED
    BY <2>1 DEF TypeOK, Work, Yield, Answer, Notify, conn
<1>6. TypeOK'
  BY <1>4, <1>5 DEF TypeOK, Work, Yield, Answer, Notify, conn, TaskPhase
<1>7. Holder' /\ AtHome' /\ Over'
  BY <1>1 DEF Holder, AtHome, Over, Running
<1>8. Queued'
  <2>1. \A q \in Request : task[q] # "none" => task'[q] # "none"
    BY <1>1 DEF Running
  <2>2. \A g \in Helper : \A i \in 1..Len(inbox[g]) : inbox[g][i] \in Request
    BY ElementOfSeq DEF TypeOK
  <2>. QED
    BY <1>1, <2>1, <2>2 DEF Queued
<1>9. IdleCutsNothing'
  BY <1>1 DEF IdleCutsNothing, RequestsOf, Running
<1>. QED
  BY <1>6, <1>7, <1>8, <1>9

LEMMA NextKeeps == IInv /\ [Next]_vars => IInv'
<1>. SUFFICES ASSUME IInv, [Next]_vars PROVE IInv'
  OBVIOUS
<1>1. ASSUME NEW h \in Helper, Launch(h) \/ Starting(h) \/ Connect(h)
      PROVE  IInv'
  <2>1. CASE AcceptTimeout(h)
    BY <2>1, ExitKeeps DEF AcceptTimeout
  <2>. QED
    BY <1>1, <2>1, StartingKeeps DEF Starting
<1>2. ASSUME NEW h \in Helper, Close(h) \/ IdleGoesOn(h) \/ Write(h)
      PROVE  IInv'
  BY <1>2, AnsweringKeeps
<1>3. ASSUME NEW h \in Helper, Loop(h)
      PROVE  IInv'
  <2>1. CASE ConnectionError(h)
    BY <2>1, ExitKeeps DEF ConnectionError
  <2>2. CASE Teardown(h)
    BY <2>2, ExitKeeps DEF Teardown
  <2>3. CASE Refuse(h)
    BY <2>3, RefuseKeeps
  <2>4. CASE Accept(h)
    BY <2>4, AcceptKeeps
  <2>5. CASE Receive(h) \/ Notified(h) \/ ClientLeft(h) \/ IdleEnds(h) \/ Return(h)
    BY <2>5, LoopKeeps
  <2>. QED
    BY <1>3, <2>1, <2>2, <2>3, <2>4, <2>5 DEF Loop
<1>4. ASSUME NEW h \in Helper, Die(h)
      PROVE  IInv'
  BY <1>4, ExitKeeps DEF Die
<1>5. ASSUME NEW h \in Helper, NEW r \in Request, Send(h, r)
      PROVE  IInv'
  BY <1>5, SendKeeps
<1>6. ASSUME NEW r \in Request, Work(r) \/ Yield(r) \/ Answer(r) \/ Notify(r)
      PROVE  IInv'
  BY <1>6, WorkKeeps
<1>7. CASE UNCHANGED vars
  <2>1. \A g \in Helper : InUse(g)' = InUse(g) /\ RequestsOf(g)' = RequestsOf(g)
    BY <1>7 DEF vars, InUse, RequestsOf
  <2>2. TypeOK'
    BY <1>7, <2>1 DEF vars, IInv, TypeOK
  <2>3. Holder' /\ AtHome' /\ Over'
    BY <1>7 DEF vars, IInv, Holder, AtHome, Over
  <2>4. Queued' /\ IdleCutsNothing'
    BY <1>7, <2>1 DEF vars, IInv, Queued, IdleCutsNothing
  <2>. QED
    BY <2>2, <2>3, <2>4 DEF IInv
<1>. QED
  BY <1>1, <1>2, <1>3, <1>4, <1>5, <1>6, <1>7 DEF Next

LEMMA AlwaysInv == Spec => []IInv
BY InitInv, NextKeeps, PTL DEF Spec

-----------------------------------------------------------------------------
(* The theorems.                                                           *)

\* Type correctness, and no more requests at work than there are permits,
\* whatever the answers, the timeouts and the ends of the processes do.
THEOREM TypeCorrect == Spec => []TypeOK
<1>1. IInv => TypeOK
  BY DEF IInv
<1>. QED
  BY <1>1, AlwaysInv, PTL

\* Two helpers are at work on a profile at the same time only when one of
\* them has returned from serve and is being torn down.
THEOREM HelpersTakeTurns == Spec => []OneAtWork
<1>1. IInv => OneAtWork
  <2>. SUFFICES ASSUME IInv, NEW g \in Helper, NEW h \in Helper, g # h,
                       Working(g) # {} \/ proc[g] = "starting",
                       Working(h) # {} \/ proc[h] = "starting"
                PROVE  "teardown" \in {proc[g], proc[h]}
    BY DEF OneAtWork
  <2>1. \A k \in Helper : Working(k) # {} \/ proc[k] = "starting"
                            => proc[k] \in Locked \cup {"teardown"}
    BY DEF IInv, AtHome, Working, RequestsOf, Running, Locked
  <2>2. ~ (proc[g] \in Locked /\ proc[h] \in Locked)
    BY DEF IInv, Holder
  <2>. QED
    BY <2>1, <2>2
<1>. QED
  BY <1>1, AlwaysInv, PTL

\* However late the idle timeout fires, and whatever was sent meanwhile, it
\* ends a server only when none of its requests is at work, and no such
\* request is cut short afterwards.
THEOREM IdleIsHarmless == Spec => []IdleCutsNothing
<1>1. IInv => IdleCutsNothing
  BY DEF IInv
<1>. QED
  BY <1>1, AlwaysInv, PTL

=============================================================================
