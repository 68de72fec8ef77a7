--------------------------- MODULE LiveRunsStops ----------------------------
(***************************************************************************)
(* What clients and the service do to queues and chats keeps the agreement *)
(* too: removals, send-now, deletions, stops and transfers; so every step  *)
(* keeps it.                                                               *)
(***************************************************************************)
EXTENDS LiveRunsSteps

(* Queued turns are dropped or reordered, chats deleted, and chats left    *)
(* with nothing running or queued leave the registry.                      *)
LEMMA AgreementQueues ==
    ASSUME TypeOK, TypeOK', Agreement, NEW gone \in SUBSET Call,
           \A d \in gone : phase[d] = "queued",
           phase' = [d \in Call |-> IF d \in gone THEN "dropped" ELSE phase[d]],
           \A s \in Session : /\ Distinct(queue'[s])
                              /\ Range(queue'[s]) = Range(queue[s]) \ gone,
           \A k \in Place : \/ threads'[k] = threads[k]
                            \/ /\ threads'[k] = None
                               /\ threads[k] # None
                               /\ active[threads[k]] = None
                               /\ queue'[threads[k]] = <<>>,
           \A s \in Session : deleted[s] => deleted'[s],
           UNCHANGED <<active, thread, next, at>>
    PROVE  Agreement'
<1> USE DEF Agreement
<1>1. \A s \in Session : queue[s] \in Seq(Call) /\ queue'[s] \in Seq(Call)
  BY DEF TypeOK
<1>2. \A s \in Session : \A e : /\ e \in Range(queue[s]) <=>
                                      \E i \in 1 .. Len(queue[s]) : queue[s][i] = e
                                /\ e \in Range(queue'[s]) <=>
                                      \E i \in 1 .. Len(queue'[s]) : queue'[s][i] = e
  BY <1>1, RangeElements
<1>3. \A d \in Call : /\ phase'[d] \in Holding <=> phase[d] \in Holding
                      /\ phase'[d] \in Holding => phase'[d] = phase[d]
                      /\ phase'[d] = "queued" <=> phase[d] = "queued" /\ d \notin gone
                      /\ phase'[d] = "none" <=> phase[d] = "none"
                      /\ phase'[d] = "next" <=> phase[d] = "next"
                      /\ phase'[d] \in {"retired", "unstarted"}
                           <=> phase[d] \in {"retired", "unstarted"}
  BY DEF Holding
<1>4. \A d \in Call : phase'[d] = "queued" =>
         thread[d] \in Session /\ thread[d] # None /\ d \in Range(queue'[thread[d]])
  BY <1>2, <1>3 DEF QueuedIsIn, TypeOK
<1>5. \A s \in Session : Range(queue'[s]) # {} => queue[s] # <<>>
  <2> SUFFICES ASSUME NEW s \in Session, NEW e \in Range(queue'[s])
               PROVE  queue[s] # <<>>
    OBVIOUS
  <2>1. \E i \in 1 .. Len(queue[s]) : queue[s][i] = e
    BY <1>2
  <2> QED BY <2>1
<1>6. \A s \in Session : queue'[s] # <<>> => queue[s] # <<>>
  <2> SUFFICES ASSUME NEW s \in Session, queue'[s] # <<>>
               PROVE  queue[s] # <<>>
    OBVIOUS
  <2>1. 1 \in 1 .. Len(queue'[s])
    BY <1>1
  <2>2. queue'[s][1] \in Range(queue'[s])
    BY <1>2, <2>1
  <2> QED BY <1>5, <2>2
<1>7. HolderIsActive' /\ AdmittedOnce' /\ HandedOn'
  BY <1>3 DEF HolderIsActive, AdmittedOnce, HandedOn, TypeOK
<1>8. ActiveHolds'
  BY <1>3 DEF ActiveHolds, TypeOK
<1>9. QueueWaits'
  <2> SUFFICES ASSUME NEW s \in Session, NEW i \in 1 .. Len(queue'[s])
               PROVE  /\ phase'[queue'[s][i]] = "queued"
                      /\ thread'[queue'[s][i]] = s
                      /\ \A j \in 1 .. Len(queue'[s]) :
                            queue'[s][i] = queue'[s][j] => i = j
    BY DEF QueueWaits
  <2>1. queue'[s][i] \in Range(queue'[s])
    BY <1>2
  <2>2. queue'[s][i] \in Range(queue[s]) /\ queue'[s][i] \notin gone
    BY <2>1
  <2>3. /\ queue'[s][i] \in Call
        /\ phase[queue'[s][i]] = "queued"
        /\ thread[queue'[s][i]] = s
    BY <2>2, QueuedNotWorking
  <2> QED BY <1>3, <2>2, <2>3 DEF Distinct
<1>10. QueuedIsIn'
  <2> SUFFICES ASSUME NEW d \in Call, phase'[d] = "queued"
               PROVE  /\ thread[d] # None
                      /\ \E i \in 1 .. Len(queue'[thread[d]]) :
                            queue'[thread[d]][i] = d
    BY DEF QueuedIsIn
  <2>1. thread[d] \in Session /\ thread[d] # None /\ d \in Range(queue'[thread[d]])
    BY <1>4
  <2> QED BY <1>2, <2>1
<1>11. BehindReply'
  BY <1>6 DEF BehindReply
<1>12. Registered'
  <2> SUFFICES ASSUME NEW d \in Call, phase'[d] \in Live
               PROVE  thread[d] # None /\ threads'[PlaceOf(d)] = thread[d]
    BY DEF Registered
  <2>1. /\ phase[d] \in Live
        /\ thread[d] \in Session
        /\ thread[d] # None
        /\ threads[PlaceOf(d)] = thread[d]
        /\ PlaceOf(d) \in Place
    BY <1>3, PlaceOfCall DEF Registered, Live, TypeOK
  <2>2. active[thread[d]] # None \/ queue'[thread[d]] # <<>>
    <3>1. CASE phase[d] \in Holding
      BY <2>1, <3>1, CallAssumption DEF HolderIsActive
    <3>2. CASE phase'[d] = "queued"
      <4>1. \E i \in 1 .. Len(queue'[thread[d]]) : queue'[thread[d]][i] = d
        BY <1>2, <1>4, <2>1, <3>2
      <4> QED BY <4>1
    <3> QED BY <1>3, <3>1, <3>2 DEF Live
  <2> QED BY <2>1, <2>2
<1>13. OnePlace' /\ TransfersRefuse'
  <2>1. Transfer \subseteq Session
    BY DEF Session
  <2> QED BY <2>1 DEF OnePlace, TransfersRefuse
<1>14. Unpublished'
  <2> SUFFICES ASSUME NEW d \in Call, phase'[d] = "none"
               PROVE  /\ thread[d] = None
                      /\ active[d] = None
                      /\ queue'[d] = <<>>
                      /\ \A k \in Place : threads'[k] # d
    BY DEF Unpublished
  <2>1. d \in Session /\ d # None
    BY CallAssumption DEF Session
  <2> QED BY <1>3, <1>6, <2>1 DEF Unpublished
<1> QED BY <1>7, <1>8, <1>9, <1>10, <1>11, <1>12, <1>13, <1>14

(* The turns of a queue are distinct.                                      *)
LEMMA QueueDistinct ==
    ASSUME Agreement, NEW s \in Session
    PROVE  Distinct(queue[s])
BY DEF Agreement, QueueWaits, Distinct

(* removeQueued: the reply it waits behind keeps its chat in the registry. *)
LEMMA AgreementRemoveQueued ==
    ASSUME TypeOK, TypeOK', Agreement, NEW c \in Call, RemoveQueued(c)
    PROVE  Agreement'
<1> USE DEF callVars
<1> DEFINE s == thread[c]
           q == queue[s]
<1>1. s \in Session /\ s # None /\ q \in Seq(Call) /\ Distinct(q)
  BY QueueDistinct DEF RemoveQueued, TypeOK
<1>2. PICK i \in 1 .. Len(q) : /\ q[i] = c
                               /\ queue' = [queue EXCEPT ![s] = DeleteAt(q, i)]
  <2>1. DOMAIN q = 1 .. Len(q)
    BY <1>1
  <2> QED BY <2>1 DEF RemoveQueued
<1>3. /\ Distinct(DeleteAt(q, i))
      /\ Range(DeleteAt(q, i)) = Range(q) \ {c}
  BY <1>2, <1>1, DeleteAtDistinct
<1>4. c \in Range(q) /\ phase[c] = "queued" /\ q # <<>>
  BY <1>2, <1>1, RangeElements, QueuedNotWorking
<1>5. active[s] # None
  BY <1>1, <1>4 DEF Agreement, BehindReply
<1>6. /\ UNCHANGED <<deleted, active, thread, next, at>>
      /\ phase' = [phase EXCEPT ![c] = "dropped"]
      /\ DropIdle({s})
  BY DEF RemoveQueued
<1>7. \A k \in Place : threads'[k] = threads[k]
  BY <1>5, <1>6 DEF DropIdle, IdleAfter
<1>8. \A r \in Session : c \in Range(queue[r]) => r = s
  BY QueuedNotWorking
<1>9. \A r \in Session : /\ Distinct(queue'[r])
                         /\ Range(queue'[r]) = Range(queue[r]) \ {c}
  <2> SUFFICES ASSUME NEW r \in Session
               PROVE  /\ Distinct(queue'[r])
                      /\ Range(queue'[r]) = Range(queue[r]) \ {c}
    OBVIOUS
  <2>1. CASE r = s
    <3>1. queue'[r] = DeleteAt(q, i)
      BY <1>2, <2>1 DEF TypeOK
    <3> QED BY <1>3, <2>1, <3>1
  <2>2. CASE r # s
    <3>1. queue'[r] = queue[r] /\ c \notin Range(queue[r])
      BY <1>2, <1>8, <2>2 DEF TypeOK
    <3> QED BY <3>1, QueueDistinct
  <2> QED BY <2>1, <2>2
<1>10. phase' = [d \in Call |-> IF d \in {c} THEN "dropped" ELSE phase[d]]
  BY <1>6 DEF TypeOK
<1> QED BY <1>4, <1>6, <1>7, <1>9, <1>10, AgreementQueues

(* SendQueued reorders one queue.                                          *)
LEMMA AgreementSendQueued ==
    ASSUME TypeOK, TypeOK', Agreement, NEW c \in Call, SendQueued(c)
    PROVE  Agreement'
<1> USE DEF registryVars, callVars
<1> DEFINE s == thread[c]
           q == queue[s]
<1>1. s \in Session /\ s # None /\ q \in Seq(Call) /\ Distinct(q)
  BY QueueDistinct DEF SendQueued, TypeOK
<1>2. PICK i \in 1 .. Len(q) :
        q[i] = c /\ queue' = [queue EXCEPT ![s] = PutFirst(q[i], DeleteAt(q, i))]
  <2>1. DOMAIN q = 1 .. Len(q)
    BY <1>1
  <2> QED BY <2>1 DEF SendQueued
<1>3. /\ Distinct(PutFirst(q[i], DeleteAt(q, i)))
      /\ Range(PutFirst(q[i], DeleteAt(q, i))) = Range(q)
  BY <1>1, MoveFirstDistinct
<1>4. UNCHANGED <<threads, deleted, active, thread, phase, next, at>>
  BY DEF SendQueued
<1>5. \A r \in Session : /\ Distinct(queue'[r])
                         /\ Range(queue'[r]) = Range(queue[r]) \ {}
  <2> SUFFICES ASSUME NEW r \in Session
               PROVE  Distinct(queue'[r]) /\ Range(queue'[r]) = Range(queue[r])
    OBVIOUS
  <2>1. CASE r = s
    <3>1. queue'[r] = PutFirst(q[i], DeleteAt(q, i))
      BY <1>2, <2>1 DEF TypeOK
    <3> QED BY <1>3, <2>1, <3>1
  <2>2. CASE r # s
    <3>1. queue'[r] = queue[r]
      BY <1>2, <2>2 DEF TypeOK
    <3> QED BY <3>1, QueueDistinct
  <2> QED BY <2>1, <2>2
<1>6. phase' = [d \in Call |-> IF d \in {} THEN "dropped" ELSE phase[d]]
  BY <1>4 DEF TypeOK
<1> QED BY <1>4, <1>5, <1>6, AgreementQueues

(* A stop ends the queues of the sessions S and leaves their replies be.   *)
LEMMA AgreementHalt ==
    ASSUME TypeOK, TypeOK', Agreement, NEW S \in SUBSET Session, Halt(S),
           DropIdle(S) \/ threads' = threads,
           \A s \in Session : deleted[s] => deleted'[s], at' = at
    PROVE  Agreement'
<1> DEFINE lost == UNION {Range(queue[s]) : s \in S}
<1>1. lost \in SUBSET Call /\ \A d \in lost : phase[d] = "queued"
  BY QueuedNotWorking
<1>2. /\ queue' = [s \in Session |-> IF s \in S THEN <<>> ELSE queue[s]]
      /\ phase' = [d \in Call |-> IF d \in lost THEN "dropped" ELSE phase[d]]
      /\ UNCHANGED <<active, thread, next>>
  BY DEF Halt, Emptied
<1> HIDE DEF lost
<1>3. ASSUME NEW s \in Session
      PROVE  /\ Distinct(queue'[s])
             /\ Range(queue'[s]) = Range(queue[s]) \ lost
  <2>1. CASE s \in S
    <3>1. queue'[s] = <<>> /\ Range(queue[s]) \subseteq lost
      BY <1>2, <2>1 DEF lost
    <3>2. Range(<<>>) = {}
      BY DEF Range
    <3>3. Distinct(<<>>)
      BY DEF Distinct
    <3> QED BY <3>1, <3>2, <3>3
  <2>2. CASE s \notin S
    <3>1. queue'[s] = queue[s]
      BY <1>2, <2>2
    <3>2. \A d \in Range(queue[s]) : d \notin lost
      BY <2>2, QueuedNotWorking DEF lost
    <3> QED BY <3>1, <3>2, QueueDistinct
  <2> QED BY <2>1, <2>2
<1>4. \A k \in Place : \/ threads'[k] = threads[k]
                       \/ /\ threads'[k] = None
                          /\ threads[k] # None
                          /\ active[threads[k]] = None
                          /\ queue'[threads[k]] = <<>>
  BY <1>2 DEF DropIdle, IdleAfter, TypeOK
<1> QED BY <1>1, <1>2, <1>3, <1>4, AgreementQueues

(* FinishTransfer replaces a chat nothing runs in by its placeholder.      *)
LEMMA AgreementBeginTransfer ==
    ASSUME TypeOK, TypeOK', Agreement, NEW t \in Transfer, BeginTransfer(t)
    PROVE  Agreement'
<1> USE DEF sessionVars, runVars, callVars
<1> DEFINE k == ChatOf[t]
<1>1. UNCHANGED <<deleted, active, queue, thread, phase, next, at>>
  BY DEF BeginTransfer
<1>2. AdmittedOnce'
  BY <1>1 DEF Agreement, AdmittedOnce
<1>3. CASE threads' = threads
  BY <1>1, <1>2, <1>3, AgreementFrame
<1>4. CASE Movable(threads[k]) /\ threads' = [threads EXCEPT ![k] = t]
  <2>1. k \in Place /\ t \notin Call
    BY CallAssumption DEF Place
  <2>2. /\ threads'[k] = t
        /\ \A p \in Place : p # k => threads'[p] = threads[p]
    BY <1>4, <2>1 DEF TypeOK
  <2>3. Registered'
    <3> SUFFICES ASSUME NEW d \in Call, phase[d] \in Live
                 PROVE  thread[d] # None /\ threads'[PlaceOf(d)] = thread[d]
      BY <1>1 DEF Registered
    <3>1. /\ thread[d] # None
          /\ threads[PlaceOf(d)] = thread[d]
          /\ PlaceOf(d) \in Place
      BY PlaceOfCall DEF Agreement, Registered
    <3>2. active[thread[d]] # None \/ queue[thread[d]] # <<>>
      <4>1. CASE phase[d] \in Holding
        BY <4>1, CallAssumption DEF Agreement, HolderIsActive
      <4>2. CASE phase[d] = "queued"
        <5>1. \E i \in 1 .. Len(queue[thread[d]]) : queue[thread[d]][i] = d
          BY <4>2 DEF Agreement, QueuedIsIn
        <5> QED BY <5>1
      <4> QED BY <4>1, <4>2 DEF Live
    <3>3. PlaceOf(d) # k
      BY <1>4, <3>1, <3>2 DEF Movable
    <3> QED BY <2>2, <3>1, <3>3
  <2>4. OnePlace'
    <3>1. PlaceOfSession(t) = k
      BY <2>1 DEF PlaceOfSession
    <3> QED BY <1>1, <2>2, <3>1 DEF Agreement, OnePlace
  <2>5. Unpublished'
    BY <1>1, <2>1, <2>2 DEF Agreement, Unpublished
  <2> QED BY <1>1, <1>2, <2>3, <2>4, <2>5
             DEF Agreement, HolderIsActive, ActiveHolds, QueueWaits, QueuedIsIn,
                 BehindReply, HandedOn, TransfersRefuse
<1> QED BY <1>3, <1>4 DEF BeginTransfer

(* The placeholder of a transfer goes with it, and nothing else does.      *)
LEMMA AgreementEndTransfer ==
    ASSUME TypeOK, TypeOK', Agreement, NEW t \in Transfer, EndTransfer(t)
    PROVE  Agreement'
<1> USE DEF sessionVars, runVars, callVars
<1>1. UNCHANGED <<deleted, active, queue, thread, phase, next, at>>
  BY DEF EndTransfer
<1>2. \A k \in Place : \/ threads'[k] = threads[k]
                       \/ /\ threads'[k] = None
                          /\ threads[k] # None
                          /\ active[threads[k]] = None
                          /\ queue'[threads[k]] = <<>>
  BY <1>1, CallAssumption DEF EndTransfer, DropIdle, IdleAfter
<1>3. phase' = [d \in Call |-> IF d \in {} THEN "dropped" ELSE phase[d]]
  BY <1>1 DEF TypeOK
<1>4. \A s \in Session : /\ Distinct(queue'[s])
                         /\ Range(queue'[s]) = Range(queue[s]) \ {}
  BY <1>1, QueueDistinct
<1> QED BY <1>1, <1>2, <1>3, <1>4, AgreementQueues

(* Every step keeps the registry, the sessions and the runs in agreement.  *)
LEMMA AgreementNext ==
    ASSUME TypeOK, TypeOK', Agreement, [Next]_vars
    PROVE  Agreement'
<1> USE DEF registryVars, sessionVars, runVars, callVars, serviceVars
<1>1. ASSUME NEW c \in Call, AcceptStep(c) PROVE Agreement'
  <2>1. CASE AdmitQueued(c)
    BY <2>1, AgreementAdmitQueued
  <2>2. CASE AdmitActive(c)
    BY <2>2, AgreementAdmitActive
  <2>3. CASE \/ TurnAway(c) \/ Register(c) \/ AwaitPrevious(c) \/ Rejoin(c)
             \/ RefuseAdmission(c) \/ Unregister(c) \/ AnswerRefused(c)
             \/ AnswerStarted(c)
    <3>1. UNCHANGED <<threads, deleted, active, queue, thread, phase, next>>
      BY <2>3 DEF TurnAway, Register, AwaitPrevious, Rejoin, RefuseAdmission,
                  Unregister, AnswerRefused, AnswerStarted
    <3>2. PICK to : at' = [at EXCEPT ![c] = to]
      BY <2>3 DEF TurnAway, Register, AwaitPrevious, Rejoin, RefuseAdmission,
                  Unregister, AnswerRefused, AnswerStarted
    <3>3. \/ to \notin {"idle", "accept", "wait", "admit", "unregister", "answer"}
          \/ at[c] \in {"idle", "accept", "wait", "admit", "unregister", "answer"}
      BY <2>3, <3>2 DEF TurnAway, Register, AwaitPrevious, Rejoin,
            RefuseAdmission, Unregister, AnswerRefused, AnswerStarted, TypeOK
    <3>4. AdmittedOnce'
      BY <3>1, <3>2, <3>3 DEF Agreement, AdmittedOnce, TypeOK
    <3> QED BY <3>1, <3>4, AgreementFrame
  <2> QED BY <1>1, <2>1, <2>2, <2>3 DEF AcceptStep
<1>2. ASSUME NEW c \in Call, RunStep(c) PROVE Agreement'
  <2>1. CASE Start(c) \/ FailToStart(c) \/ BeginFinish(c) \/ Done(c)
    BY <2>1, AgreementRun
  <2>2. CASE CloseUnstarted(c) \/ HandOn(c)
    BY <2>2, AgreementRunNext
  <2>3. CASE EndUnstarted(c)
    BY <2>3, AgreementAdvance DEF EndUnstarted
  <2>4. CASE Retire(c)
    <3>1. GoesOn(c) \in BOOLEAN
      BY DEF GoesOn
    <3> QED BY <2>4, <3>1, AgreementAdvance DEF Retire
  <2> QED BY <1>2, <2>1, <2>2, <2>3, <2>4 DEF RunStep
<1>3. ASSUME NEW t \in Transfer, EndTransfer(t) PROVE Agreement'
  BY <1>3, AgreementEndTransfer
<1>4. ASSUME ClientStep PROVE Agreement'
  <2>1. ASSUME NEW c \in Call, RemoveQueued(c) PROVE Agreement'
    BY <2>1, AgreementRemoveQueued
  <2>2. ASSUME NEW c \in Call, SendQueued(c) PROVE Agreement'
    BY <2>2, AgreementSendQueued
  <2>3. ASSUME NEW c \in Call,
               Arrive(c) \/ Leave(c) \/ Cancel(c) \/ Release(c)
        PROVE  Agreement'
    <3>1. UNCHANGED <<threads, deleted, active, queue, thread, phase, next>>
      BY <2>3 DEF Arrive, Leave, Cancel, Release
    <3>2. \/ at' = at
          \/ at' = [at EXCEPT ![c] = "accept"] /\ at[c] = "idle"
          \/ at' = [at EXCEPT ![c] = "refused"]
      BY <2>3 DEF Arrive, Leave, Cancel, Release
    <3>3. AdmittedOnce'
      BY <3>1, <3>2 DEF Agreement, AdmittedOnce, TypeOK
    <3> QED BY <3>1, <3>3, AgreementFrame
  <2>4. ASSUME NEW k \in Chat, StopThread(k) PROVE Agreement'
    <3>1. {threads[k]} \in SUBSET Session
      BY <2>4 DEF StopThread, TypeOK, Place
    <3> QED BY <2>4, <3>1, AgreementHalt DEF StopThread, StopSessions
  <2>5. ASSUME NEW K, StopDevice(K) PROVE Agreement'
    <3> DEFINE S == {s \in Session : IsDevice(s) /\ \E k \in K : threads[k] = s}
    <3>1. /\ Halt(S)
          /\ DropIdle(S)
          /\ \A s \in Session : deleted[s] => deleted'[s]
          /\ at' = at
      BY <2>5 DEF StopDevice, StopSessions
    <3>2. S \in SUBSET Session
      OBVIOUS
    <3> HIDE DEF S
    <3> QED BY <3>1, <3>2, AgreementHalt
  <2>6. ASSUME NEW t \in Transfer, BeginTransfer(t) PROVE Agreement'
    BY <2>6, AgreementBeginTransfer
  <2> QED BY <1>4, <2>1, <2>2, <2>3, <2>4, <2>5, <2>6
             DEF ClientStep, StopDeviceThread, StopDeviceThreads
<1>5. ASSUME Stop PROVE Agreement'
  <2>1. {threads[k] : k \in Place} \ {None} \in SUBSET Session
    BY DEF TypeOK
  <2> QED BY <1>5, <2>1, AgreementHalt DEF Stop
<1>6. CASE Wait \/ UNCHANGED vars
  <2>1. UNCHANGED <<threads, deleted, active, queue, thread, phase, next, at>>
    BY <1>6 DEF Wait, vars
  <2>2. AdmittedOnce'
    BY <2>1 DEF Agreement, AdmittedOnce
  <2> QED BY <2>1, <2>2, AgreementFrame
<1> QED BY <1>1, <1>2, <1>3, <1>4, <1>5, <1>6 DEF Next

=============================================================================
