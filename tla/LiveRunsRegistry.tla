-------------------------- MODULE LiveRunsRegistry --------------------------
(***************************************************************************)
(* What the registry of LiveRuns promises its callers, for every set of    *)
(* calls, transfers, chats, nonces and keys: which runs, requests and      *)
(* chats it finds, what a stop reaches, what a deletion takes away and     *)
(* what becomes of a queue.  Each definition below is the little more that *)
(* a property needs than the inductive invariant of LiveRunsProofs has,    *)
(* and each lemma named for it says that every step keeps it.              *)
(***************************************************************************)
EXTENDS LiveRunsInvariant

(* What advance does to the chat's slot and queue.                         *)
LEMMA AdvanceSlots ==
    ASSUME TypeOK, Agreement, NEW c \in Call, phase[c] \in Holding,
           NEW goOn, NEW to, Advance(c, goOn, to)
    PROVE  LET s  == thread[c]
               on == goOn /\ ~deleted[s] /\ ~closing /\ queue[s] # <<>>
           IN  /\ s \in Session
               /\ active[s] = c
               /\ active' = [active EXCEPT ![s] = IF on THEN Head(queue[s])
                                                  ELSE None]
               /\ queue' = [queue EXCEPT ![s] = IF on THEN Tail(queue[s])
                                                ELSE <<>>]
<1>1. thread[c] \in Session /\ active[thread[c]] = c
  BY DEF Agreement, HolderIsActive, TypeOK
<1> QED BY <1>1 DEF Advance, TypeOK

(* The sessions of the registry, which Engine.Stop halts.                  *)
LEMMA FoundSessions ==
    ASSUME TypeOK
    PROVE  {threads[k] : k \in Place} \ {None} \in SUBSET Session
BY DEF TypeOK

-----------------------------------------------------------------------------
(* The queues.                                                             *)

Bounded == \A s \in Session : Len(queue[s]) <= MaxQueuedTurns

(* Only admit makes a queue longer.                                        *)
LEMMA QueuesShrink ==
    ASSUME TypeOK, Agreement, [Next]_vars
    PROVE  \/ \A s \in Session : Len(queue'[s]) <= Len(queue[s])
           \/ \E c \in Call : AdmitQueued(c)
<1> USE DEF registryVars, sessionVars, runVars, callVars, serviceVars
<1> DEFINE Shrink == \A s \in Session : Len(queue'[s]) <= Len(queue[s])
<1>1. \A s \in Session : queue[s] \in Seq(Call) /\ Len(queue[s]) \in Nat
  BY DEF TypeOK
<1>2. queue' = queue => Shrink
  BY <1>1
<1>3. ASSUME NEW S \in SUBSET Session, Halt(S) PROVE Shrink
  BY <1>1, <1>3 DEF Halt, Emptied
<1>4. ASSUME NEW c \in Call, phase[c] \in Holding, NEW goOn, NEW to,
             Advance(c, goOn, to)
      PROVE  Shrink
  <2> DEFINE s == thread[c]
  <2>1. /\ s \in Session
        /\ \/ queue' = [queue EXCEPT ![s] = <<>>]
           \/ queue[s] # <<>> /\ queue' = [queue EXCEPT ![s] = Tail(queue[s])]
    BY <1>4, AdvanceSlots
  <2>2. queue[s] # <<>> => Len(Tail(queue[s])) <= Len(queue[s])
    BY <1>1, <2>1
  <2>3. Len(<<>>) <= Len(queue[s])
    BY <1>1, <2>1
  <2> HIDE DEF s
  <2> QED BY <1>1, <2>1, <2>2, <2>3 DEF TypeOK
<1>5. ASSUME NEW c \in Call, AcceptStep(c), ~AdmitQueued(c) PROVE Shrink
  BY <1>2, <1>5, Zenon DEF AcceptStep, TurnAway, Register, AwaitPrevious, Rejoin,
     RefuseAdmission, AdmitActive, Unregister, AnswerRefused, AnswerStarted
<1>6. ASSUME NEW c \in Call, RunStep(c) PROVE Shrink
  BY <1>2, <1>4, <1>6, Zenon DEF RunStep, Start, FailToStart, EndUnstarted,
     CloseUnstarted, BeginFinish, Retire, HandOn, Done, Holding
<1>7. ASSUME NEW c \in Call, RemoveQueued(c) \/ SendQueued(c) PROVE Shrink
  <2> DEFINE s == thread[c]
  <2>1. s \in Session
    BY <1>7 DEF RemoveQueued, SendQueued, TypeOK
  <2>2. PICK i \in DOMAIN queue[s] :
          \/ queue' = [queue EXCEPT ![s] = DeleteAt(@, i)]
          \/ queue' = [queue EXCEPT ![s] = PutFirst(c, DeleteAt(@, i))]
    BY <1>7 DEF RemoveQueued, SendQueued
  <2>3. i \in 1 .. Len(queue[s])
    BY <1>1, <2>1
  <2> DEFINE q == DeleteAt(queue[s], i)
  <2>4. q \in Seq(Call) /\ Len(q) = Len(queue[s]) - 1
    BY <1>1, <2>1, <2>3, DeleteAtElements
  <2>5. \/ queue' = [queue EXCEPT ![s] = q]
        \/ queue' = [queue EXCEPT ![s] = PutFirst(c, q)]
    BY <2>2
  <2> HIDE DEF q, s
  <2>6. Len(PutFirst(c, q)) = Len(q) + 1
    BY <2>4, PutFirstElements, Zenon
  <2>7. Len(q) <= Len(queue[s]) /\ Len(PutFirst(c, q)) <= Len(queue[s])
    BY <1>1, <2>1, <2>4, <2>6
  <2>8. /\ queue'[s] = q \/ queue'[s] = PutFirst(c, q)
        /\ \A r \in Session : r # s => queue'[r] = queue[r]
    BY <2>1, <2>5 DEF TypeOK
  <2>9. \A r \in Session : Len(queue[r]) <= Len(queue[r])
    BY <1>1
  <2> QED BY <2>7, <2>8, <2>9
<1>8. ASSUME NEW k \in Chat, StopThread(k) PROVE Shrink
  <2>1. {threads[k]} \in SUBSET Session
    BY <1>8 DEF StopThread, TypeOK, Place
  <2> QED BY <1>3, <1>8, <2>1 DEF StopThread, StopSessions
<1>9. ASSUME NEW K, StopDevice(K) PROVE Shrink
  <2> DEFINE S == {s \in Session : IsDevice(s) /\ \E k \in K : threads[k] = s}
  <2>1. Halt(S) /\ S \in SUBSET Session
    BY <1>9 DEF StopDevice, StopSessions
  <2> QED BY <1>3, <2>1
<1>10. CASE Stop
  BY <1>3, <1>10, FoundSessions DEF Stop
<1>11. ASSUME ClientStep PROVE Shrink
  BY <1>2, <1>7, <1>8, <1>9, <1>11, Zenon DEF ClientStep, Arrive, Leave, Cancel,
     Release, StopDeviceThread, StopDeviceThreads, BeginTransfer
<1>12. CASE Wait \/ UNCHANGED vars \/ \E t \in Transfer : EndTransfer(t)
  BY <1>2, <1>12, Zenon DEF Wait, vars, EndTransfer
<1> QED BY <1>5, <1>6, <1>10, <1>11, <1>12 DEF Next

(* admit refuses a turn of a chat whose queue is full.                     *)
LEMMA BoundedNext ==
    ASSUME TypeOK, TypeOK', Agreement, Bounded, [Next]_vars
    PROVE  Bounded'
<1>1. /\ \A s \in Session : Len(queue[s]) \in Nat /\ Len(queue'[s]) \in Nat
      /\ MaxQueuedTurns \in Nat
  BY CallAssumption DEF TypeOK
<1>2. CASE \A s \in Session : Len(queue'[s]) <= Len(queue[s])
  BY <1>1, <1>2 DEF Bounded
<1>3. ASSUME NEW c \in Call, AdmitQueued(c) PROVE Bounded'
  <2> DEFINE s == threads[PlaceOf(c)]
  <2>1. s \in Session /\ queue' = [queue EXCEPT ![s] = Append(@, c)]
    BY <1>3, PlaceOfCall DEF AdmitQueued, TypeOK
  <2>2. ~(Len(queue[s]) >= MaxQueuedTurns)
    BY <1>3 DEF AdmitQueued, QueueFull
  <2>3. Len(Append(queue[s], c)) = Len(queue[s]) + 1
    BY <2>1 DEF TypeOK
  <2>4. Len(Append(queue[s], c)) <= MaxQueuedTurns
    BY <1>1, <2>1, <2>2, <2>3
  <2> HIDE DEF s
  <2> QED BY <2>1, <2>4 DEF Bounded, TypeOK
<1> QED BY <1>2, <1>3, QueuesShrink

-----------------------------------------------------------------------------
(* What the registry finds.                                                *)

(* The calls between registering their request and being admitted.         *)
Admitting == {"admit", "unregister"}

(* The registry's runs are the live ones, and its requests those of the    *)
(* live runs and of the calls on their way in.                             *)
Found ==
    /\ runs = {c \in Call : phase[c] \in Live}
    /\ \A c \in Call : phase[c] \in Live \/ at[c] \in Admitting =>
          requests[Turn[c].nonce] = c
    /\ \A n \in Nonce : requests[n] # None =>
          /\ Turn[requests[n]].nonce = n
          /\ phase[requests[n]] \in Live \/ at[requests[n]] \in Admitting

(* A step that forgets the runs of S as they end, and admits none.         *)
Forgets(S) ==
    /\ Forget(S)
    /\ \A d \in S : d \in Call /\ phase[d] \in Live
    /\ \A d \in Call : phase'[d] \in Live <=> phase[d] \in Live /\ d \notin S
    /\ \A d \in Call : at'[d] \in Admitting <=> at[d] \in Admitting
    /\ thread' = thread

(* A step that forgets runs as they end leaves the others found.           *)
LEMMA FoundForgets ==
    ASSUME TypeOK, Agreement, Found, NEW S, Forgets(S)
    PROVE  Found'
<1>1. \A c \in Call : at[c] \in Admitting => c \notin S
  BY DEF Agreement, AdmittedOnce, Forgets, Admitting, Live, Holding
<1>2. runs' = {c \in Call : phase'[c] \in Live}
  BY DEF Found, Forgets, Forget
<1>3. ASSUME NEW c \in Call, phase'[c] \in Live \/ at'[c] \in Admitting
      PROVE  requests'[Turn[c].nonce] = c
  <2>1. (phase[c] \in Live \/ at[c] \in Admitting) /\ c \notin S
    BY <1>1, <1>3 DEF Forgets
  <2> QED BY <2>1, CallAssumption DEF Found, Forgets, Forget
<1>4. ASSUME NEW n \in Nonce, requests'[n] # None
      PROVE  /\ Turn[requests'[n]].nonce = n
             /\ phase'[requests'[n]] \in Live \/ at'[requests'[n]] \in Admitting
  <2>1. requests'[n] = requests[n] /\ requests[n] \notin S /\ requests[n] # None
    BY <1>4 DEF Forgets, Forget
  <2>2. requests[n] \in Call
    BY <2>1 DEF TypeOK
  <2> QED BY <2>1, <2>2 DEF Found, Forgets
<1> QED BY <1>2, <1>3, <1>4 DEF Found

(* A step that changes neither runs nor requests, admits none and ends     *)
(* none.                                                                   *)
LEMMA ForgetsNone ==
    ASSUME TypeOK, UNCHANGED <<runs, requests, thread>>,
           \A d \in Call : phase'[d] \in Live <=> phase[d] \in Live,
           \A d \in Call : at'[d] \in Admitting <=> at[d] \in Admitting
    PROVE  Forgets({})
BY DEF Forgets, Forget, TypeOK

(* advance forgets the run it retires and the queued turns it ends.        *)
LEMMA AdvanceForgets ==
    ASSUME TypeOK, Agreement, NEW c \in Call, phase[c] \in Holding,
           NEW goOn \in BOOLEAN, NEW to \in {"retired", "unstarted"},
           Advance(c, goOn, to), at' = at
    PROVE  \E S : Forgets(S)
<1> DEFINE s    == thread[c]
           on   == goOn /\ ~deleted[s] /\ ~closing /\ queue[s] # <<>>
           lost == IF on THEN {} ELSE Range(queue[s])
           turn == IF on THEN Head(queue[s]) ELSE None
<1>1. s \in Session
  BY DEF Agreement, HolderIsActive, TypeOK
<1>2. \A d \in lost : d \in Call /\ phase[d] = "queued"
  BY <1>1, QueuedNotWorking
<1>3. turn # None => turn \in Call /\ phase[turn] = "queued"
  <2> SUFFICES ASSUME on PROVE turn \in Call /\ phase[turn] = "queued"
    OBVIOUS
  <2>1. queue[s] \in Seq(Call) /\ queue[s] # <<>>
    BY <1>1 DEF TypeOK
  <2>2. queue[s][1] \in Range(queue[s])
    BY <2>1, RangeElements
  <2> QED BY <1>1, <2>1, <2>2, QueuedNotWorking
<1>4. turn \notin lost
  BY <1>2, CallAssumption
<1>5. /\ phase' = [d \in Call |-> CASE d = c      -> to
                                    [] d = turn   -> "next"
                                    [] d \in lost -> "dropped"
                                    [] OTHER      -> phase[d]]
      /\ Forget({c} \cup lost)
      /\ thread' = thread
  BY DEF Advance
<1> HIDE DEF lost, turn, on, s
<1>6. c \notin lost /\ c # turn
  BY <1>2, <1>3, CallAssumption DEF Holding
<1>7. ASSUME NEW d \in Call
      PROVE  phase'[d] \in Live <=> phase[d] \in Live /\ d \notin {c} \cup lost
  <2>1. CASE d = c
    BY <1>5, <1>6, <2>1 DEF Live, Holding
  <2>2. CASE d = turn
    <3>1. d # None
      BY CallAssumption
    <3>2. phase[d] = "queued" /\ phase'[d] = "next" /\ d # c /\ d \notin lost
      BY <1>3, <1>4, <1>5, <1>6, <2>2, <3>1
    <3> QED BY <3>2 DEF Live, Holding
  <2>3. CASE d # c /\ d \in lost
    <3>1. phase'[d] = "dropped"
      BY <1>4, <1>5, <2>3
    <3> QED BY <2>3, <3>1 DEF Live, Holding
  <2>4. CASE d # c /\ d # turn /\ d \notin lost
    <3>1. phase'[d] = phase[d]
      BY <1>5, <2>4
    <3> QED BY <2>4, <3>1
  <2> QED BY <2>1, <2>2, <2>3, <2>4
<1>8. Forgets({c} \cup lost)
  BY <1>2, <1>5, <1>7 DEF Forgets, Live
<1> QED BY <1>8

(* A stop forgets the queued turns it ends.                                *)
LEMMA HaltForgets ==
    ASSUME TypeOK, Agreement, NEW S \in SUBSET Session, Halt(S), at' = at
    PROVE  \E L : Forgets(L)
<1> DEFINE lost == UNION {Range(queue[s]) : s \in S}
<1>1. \A d \in lost : d \in Call /\ phase[d] = "queued"
  BY QueuedNotWorking
<1>2. /\ phase' = [d \in Call |-> IF d \in lost THEN "dropped" ELSE phase[d]]
      /\ Forget(lost)
      /\ thread' = thread
  BY DEF Halt
<1> HIDE DEF lost
<1>3. Forgets(lost)
  BY <1>1, <1>2 DEF Forgets, Live, Holding
<1> QED BY <1>3

(* Every step but a registration, its undoing and an admission forgets the *)
(* runs it ends, and no other.                                             *)
LEMMA StepForgets ==
    ASSUME TypeOK, Agreement, [Next]_vars
    PROVE  \/ \E S : Forgets(S)
           \/ \E c \in Call : \/ Register(c) \/ Unregister(c)
                              \/ AdmitQueued(c) \/ AdmitActive(c)
<1> USE DEF registryVars, sessionVars, runVars, callVars, serviceVars
<1> DEFINE Some == \E S : Forgets(S)
<1>1. ASSUME NEW c \in Call,
             \/ TurnAway(c) \/ AwaitPrevious(c) \/ Rejoin(c)
             \/ RefuseAdmission(c) \/ AnswerRefused(c) \/ AnswerStarted(c)
             \/ Arrive(c) \/ Leave(c)
      PROVE  Some
  <2>1. UNCHANGED <<runs, requests, thread, phase>>
    BY <1>1 DEF TurnAway, AwaitPrevious, Rejoin, RefuseAdmission,
                AnswerRefused, AnswerStarted, Arrive, Leave
  <2>2. PICK to : at' = [at EXCEPT ![c] = to]
    BY <1>1, Zenon DEF TurnAway, AwaitPrevious, Rejoin, RefuseAdmission,
                AnswerRefused, AnswerStarted, Arrive, Leave
  <2>3. to \in Admitting <=> at[c] \in Admitting
    BY <1>1, <2>2, Zenon DEF TurnAway, AwaitPrevious, Rejoin, RefuseAdmission,
                AnswerRefused, AnswerStarted, Arrive, Leave, Admitting, TypeOK
  <2>4. \A d \in Call : at'[d] \in Admitting <=> at[d] \in Admitting
    BY <2>2, <2>3 DEF TypeOK
  <2> QED BY <2>1, <2>4, ForgetsNone
<1>2. ASSUME NEW c \in Call,
             Start(c) \/ FailToStart(c) \/ BeginFinish(c) \/ Done(c)
      PROVE  Some
  <2>1. UNCHANGED <<runs, requests, thread, at>>
    BY <1>2 DEF Start, FailToStart, BeginFinish, Done
  <2>2. \A d \in Call : phase'[d] \in Live <=> phase[d] \in Live
    BY <1>2 DEF Start, FailToStart, BeginFinish, Done, Live, Holding, TypeOK
  <2> QED BY <2>1, <2>2, ForgetsNone
<1>3. ASSUME NEW c \in Call, CloseUnstarted(c) \/ HandOn(c) PROVE Some
  <2>1. next[c] # None => next[c] \in Call /\ next[c] # c /\ phase[next[c]] = "next"
    BY <1>3 DEF Agreement, HandedOn, CloseUnstarted, HandOn, TypeOK
  <2>2. /\ UNCHANGED <<runs, requests, thread, at>>
        /\ phase[c] \notin Live /\ phase'[c] \notin Live
        /\ \A d \in Call \ {c} : /\ d = next[c] => phase'[d] = "launching"
                                 /\ d # next[c] => phase'[d] = phase[d]
    <3>1. CASE CloseUnstarted(c)
      BY <2>1, <3>1, CallAssumption DEF CloseUnstarted, RunNext, Live, Holding
    <3>2. CASE HandOn(c)
      BY <2>1, <3>2, CallAssumption DEF HandOn, RunNext, Live, Holding
    <3> QED BY <1>3, <3>1, <3>2
  <2>3. ASSUME NEW d \in Call PROVE phase'[d] \in Live <=> phase[d] \in Live
    <3>1. d # None
      BY CallAssumption
    <3> QED BY <2>1, <2>2, <3>1 DEF Live, Holding
  <2> QED BY <2>2, <2>3, ForgetsNone
<1>4. ASSUME NEW c \in Call, EndUnstarted(c) \/ Retire(c) PROVE Some
  <2>1. GoesOn(c) \in BOOLEAN
    BY DEF GoesOn
  <2> QED BY <1>4, <2>1, AdvanceForgets, Zenon DEF EndUnstarted, Retire, Holding
<1>5. ASSUME NEW c \in Call, RemoveQueued(c) PROVE Some
  <2>1. thread[c] \in Session /\ c \in Range(queue[thread[c]])
    BY <1>5, RangeElements DEF RemoveQueued, TypeOK
  <2>2. phase[c] = "queued"
    BY <2>1, QueuedNotWorking
  <2>3. Forgets({c})
    BY <1>5, <2>2 DEF RemoveQueued, Forgets, Live, Holding, TypeOK
  <2> QED BY <2>3
<1>6. ASSUME NEW k \in Chat, StopThread(k) PROVE Some
  <2>1. {threads[k]} \in SUBSET Session
    BY <1>6 DEF StopThread, TypeOK, Place
  <2> QED BY <1>6, <2>1, HaltForgets DEF StopThread, StopSessions
<1>7. ASSUME NEW K, StopDevice(K) PROVE Some
  <2> DEFINE S == {s \in Session : IsDevice(s) /\ \E k \in K : threads[k] = s}
  <2>1. Halt(S) /\ S \in SUBSET Session /\ at' = at
    BY <1>7 DEF StopDevice, StopSessions
  <2> QED BY <2>1, HaltForgets
<1>8. CASE Stop
  BY <1>8, FoundSessions, HaltForgets DEF Stop
<1>9. ASSUME UNCHANGED <<runs, requests, thread, phase, at>> PROVE Some
  BY <1>9, ForgetsNone
<1>10. ASSUME ClientStep PROVE Some
  <2>1. ASSUME NEW c \in Call, Cancel(c) \/ SendQueued(c) \/ Release(c) PROVE Some
    BY <1>9, <2>1 DEF Cancel, SendQueued, Release
  <2>2. ASSUME NEW t \in Transfer, BeginTransfer(t) PROVE Some
    BY <1>9, <2>2 DEF BeginTransfer
  <2> QED BY <1>1, <1>5, <1>6, <1>7, <1>10, <2>1, <2>2, Zenon
             DEF ClientStep, StopDeviceThread, StopDeviceThreads
<1>11. ASSUME Wait \/ UNCHANGED vars \/ \E t \in Transfer : EndTransfer(t) PROVE Some
  BY <1>9, <1>11, Zenon DEF Wait, vars, EndTransfer
<1> QED BY <1>1, <1>2, <1>3, <1>4, <1>8, <1>10, <1>11
           DEF Next, AcceptStep, RunStep

(* Every step keeps the live runs found, and only those.                   *)
LEMMA FoundNext ==
    ASSUME TypeOK, Agreement, Found, [Next]_vars
    PROVE  Found'
<1> USE DEF registryVars, sessionVars, runVars, callVars, serviceVars
<1>0. \A c \in Call : Turn[c].nonce \in Nonce /\ c # None
  BY CallAssumption
<1>1. ASSUME NEW c \in Call, Register(c) PROVE Found'
  <2>1. /\ requests[Turn[c].nonce] = None
        /\ requests' = [requests EXCEPT ![Turn[c].nonce] = c]
        /\ at' = [at EXCEPT ![c] = "admit"]
        /\ UNCHANGED <<runs, phase>>
    BY <1>1 DEF Register
  <2>2. \A d \in Call : phase'[d] \in Live \/ at'[d] \in Admitting =>
           requests'[Turn[d].nonce] = d
    BY <1>0, <2>1 DEF Found, TypeOK
  <2>3. \A n \in Nonce : requests'[n] # None =>
          /\ Turn[requests'[n]].nonce = n
          /\ phase'[requests'[n]] \in Live \/ at'[requests'[n]] \in Admitting
    BY <1>0, <2>1 DEF Found, TypeOK, Admitting
  <2> QED BY <2>1, <2>2, <2>3 DEF Found
<1>2. ASSUME NEW c \in Call, Unregister(c) PROVE Found'
  <2>1. /\ requests[Turn[c].nonce] = c
        /\ requests' = [requests EXCEPT ![Turn[c].nonce] = None]
        /\ at' = [at EXCEPT ![c] = "answer"]
        /\ phase[c] = "none"
        /\ UNCHANGED <<runs, phase>>
    BY <1>0, <1>2, Zenon DEF Unregister, Found, Admitting, Agreement, AdmittedOnce, TypeOK
  <2>2. \A d \in Call : phase'[d] \in Live \/ at'[d] \in Admitting =>
           requests'[Turn[d].nonce] = d
    <3> SUFFICES ASSUME NEW d \in Call, phase'[d] \in Live \/ at'[d] \in Admitting
                 PROVE  requests'[Turn[d].nonce] = d
      OBVIOUS
    <3>1. d # c
      BY <2>1 DEF Live, Holding, Admitting, TypeOK
    <3>2. requests[Turn[d].nonce] = d
      BY <2>1, <3>1 DEF Found, TypeOK
    <3> QED BY <1>0, <2>1, <3>1, <3>2 DEF TypeOK
  <2>3. \A n \in Nonce : requests'[n] # None =>
          /\ Turn[requests'[n]].nonce = n
          /\ phase'[requests'[n]] \in Live \/ at'[requests'[n]] \in Admitting
    <3> SUFFICES ASSUME NEW n \in Nonce, requests'[n] # None
                 PROVE  /\ Turn[requests'[n]].nonce = n
                        /\ \/ phase'[requests'[n]] \in Live
                           \/ at'[requests'[n]] \in Admitting
      OBVIOUS
    <3>1. n # Turn[c].nonce /\ requests'[n] = requests[n]
      BY <1>0, <2>1 DEF TypeOK
    <3>2. requests[n] \in Call /\ requests[n] # c
      BY <3>1 DEF Found, TypeOK
    <3> QED BY <2>1, <3>1, <3>2 DEF Found, TypeOK
  <2> QED BY <2>1, <2>2, <2>3 DEF Found
<1>3. ASSUME NEW c \in Call, AdmitQueued(c) \/ AdmitActive(c) PROVE Found'
  <2>1. /\ at[c] = "admit"
        /\ runs' = runs \cup {c}
        /\ UNCHANGED requests
        /\ \A d \in Call : phase'[d] \in Live <=> phase[d] \in Live \/ d = c
        /\ \A d \in Call \ {c} : at'[d] = at[d]
        /\ at'[c] \notin Admitting
    <3>1. CASE AdmitQueued(c)
      BY <3>1 DEF AdmitQueued, Live, Holding, Admitting, TypeOK
    <3>2. CASE AdmitActive(c)
      BY <3>2 DEF AdmitActive, Live, Holding, Admitting, TypeOK
    <3> QED BY <1>3, <3>1, <3>2
  <2>2. requests[Turn[c].nonce] = c
    BY <2>1 DEF Found, Admitting
  <2>3. runs' = {d \in Call : phase'[d] \in Live}
    BY <2>1 DEF Found
  <2>4. \A d \in Call : phase'[d] \in Live \/ at'[d] \in Admitting =>
           requests'[Turn[d].nonce] = d
    BY <2>1, <2>2 DEF Found
  <2>5. \A n \in Nonce : requests'[n] # None =>
          /\ Turn[requests'[n]].nonce = n
          /\ phase'[requests'[n]] \in Live \/ at'[requests'[n]] \in Admitting
    BY <2>1 DEF Found, TypeOK
  <2> QED BY <2>3, <2>4, <2>5 DEF Found
<1> QED BY <1>1, <1>2, <1>3, StepForgets, FoundForgets

(* A chat is found only while it has a reply or is being moved.            *)
Busy ==
    \A k \in Place : threads[k] # None =>
        \/ active[threads[k]] # None
        \/ threads[k] \in Transfer /\ transfer[threads[k]] = "removing"

(* Every step keeps a chat found only while it has work.                   *)
LEMMA BusyNext ==
    ASSUME TypeOK, Agreement, Busy, [Next]_vars
    PROVE  Busy'
<1> USE DEF registryVars, sessionVars, runVars, callVars, serviceVars
<1>1. ASSUME UNCHANGED <<active, transfer>>,
             \A k \in Place : threads'[k] \in {threads[k], None}
      PROVE  Busy'
  BY <1>1 DEF Busy
<1>2. ASSUME NEW S, DropIdle(S)
      PROVE  \A k \in Place : threads'[k] \in {threads[k], None}
  BY <1>2 DEF DropIdle
<1>3. ASSUME NEW c \in Call, AdmitActive(c) PROVE Busy'
  <2> DEFINE s == IF threads[PlaceOf(c)] = None THEN c ELSE threads[PlaceOf(c)]
  <2>1. s \in Session /\ c # None /\ PlaceOf(c) \in Place
    BY CallAssumption, PlaceOfCall DEF TypeOK, Session
  <2>2. /\ threads' = [threads EXCEPT ![PlaceOf(c)] = s]
        /\ active' = [active EXCEPT ![s] = c]
        /\ transfer' = transfer
    BY <1>3 DEF AdmitActive
  <2> HIDE DEF s
  <2>3. active'[s] # None /\ \A r \in Session : active[r] # None => active'[r] # None
    BY <2>1, <2>2 DEF TypeOK
  <2>4. \A k \in Place : threads'[k] = s \/ threads'[k] = threads[k]
    BY <2>1, <2>2 DEF TypeOK
  <2>5. \A k \in Place : threads[k] # None => threads[k] \in Session
    BY DEF TypeOK
  <2> QED BY <2>2, <2>3, <2>4, <2>5 DEF Busy
<1>4. ASSUME NEW c \in Call, phase[c] \in Holding, NEW goOn, NEW to,
             Advance(c, goOn, to), transfer' = transfer
      PROVE  Busy'
  <2> DEFINE s  == thread[c]
             on == goOn /\ ~deleted[s] /\ ~closing /\ queue[s] # <<>>
  <2>1. /\ s \in Session
        /\ active' = [active EXCEPT ![s] = IF on THEN Head(queue[s]) ELSE None]
        /\ queue' = [queue EXCEPT ![s] = IF on THEN Tail(queue[s]) ELSE <<>>]
        /\ DropIdle({s})
    <3>1. DropIdle({s})
      BY <1>4 DEF Advance
    <3> QED BY <1>4, <3>1, AdvanceSlots
  <2>2. on => Head(queue[s]) # None
    <3> SUFFICES ASSUME on PROVE Head(queue[s]) # None
      OBVIOUS
    <3>1. queue[s] \in Seq(Call) /\ queue[s] # <<>>
      BY <2>1 DEF TypeOK
    <3> QED BY <3>1, CallAssumption
  <2>3. \/ active'[s] # None
        \/ IdleAfter(s)
    BY <2>1, <2>2 DEF IdleAfter, TypeOK
  <2>4. \A r \in Session \ {s} : active'[r] = active[r]
    BY <2>1 DEF TypeOK
  <2> HIDE DEF s, on
  <2> SUFFICES ASSUME NEW k \in Place, threads'[k] # None
               PROVE  \/ active'[threads'[k]] # None
                      \/ /\ threads'[k] \in Transfer
                         /\ transfer'[threads'[k]] = "removing"
    BY DEF Busy
  <2>5. threads'[k] = threads[k] /\ (threads[k] = s => ~IdleAfter(s))
    BY <2>1 DEF DropIdle
  <2>6. threads[k] \in Session
    BY <2>5 DEF TypeOK
  <2> QED BY <1>4, <2>3, <2>4, <2>5, <2>6 DEF Busy
<1>5. ASSUME NEW t \in Transfer, BeginTransfer(t) PROVE Busy'
  <2>1. CASE threads' = threads /\ transfer' = [transfer EXCEPT ![t] = "done"]
    BY <1>5, <2>1 DEF BeginTransfer, Busy, TypeOK
  <2>2. CASE /\ threads' = [threads EXCEPT ![ChatOf[t]] = t]
             /\ transfer' = [transfer EXCEPT ![t] = "removing"]
    BY <1>5, <2>2 DEF BeginTransfer, Busy, TypeOK
  <2> QED BY <1>5, <2>1, <2>2, Zenon DEF BeginTransfer
<1>6. ASSUME NEW t \in Transfer, EndTransfer(t) PROVE Busy'
  <2>1. /\ transfer' = [transfer EXCEPT ![t] = "done"]
        /\ UNCHANGED <<active, queue>>
        /\ DropIdle({t})
    BY <1>6 DEF EndTransfer
  <2>2. active[t] = None => IdleAfter(t)
    BY <2>1 DEF IdleAfter, Agreement, BehindReply, Session
  <2> SUFFICES ASSUME NEW k \in Place, threads'[k] # None
               PROVE  \/ active'[threads'[k]] # None
                      \/ /\ threads'[k] \in Transfer
                         /\ transfer'[threads'[k]] = "removing"
    BY DEF Busy
  <2>3. threads'[k] = threads[k] /\ (threads[k] = t => ~IdleAfter(t))
    BY <2>1 DEF DropIdle
  <2> QED BY <2>1, <2>2, <2>3 DEF Busy, TypeOK
<1>7. ASSUME NEW c \in Call, AcceptStep(c) PROVE Busy'
  BY <1>1, <1>3, <1>7, Zenon DEF AcceptStep, TurnAway, Register, AwaitPrevious, Rejoin,
     RefuseAdmission, AdmitQueued, Unregister, AnswerRefused, AnswerStarted
<1>8. ASSUME NEW c \in Call, RunStep(c) PROVE Busy'
  BY <1>1, <1>4, <1>8, Zenon DEF RunStep, Start, FailToStart, EndUnstarted,
     CloseUnstarted, BeginFinish, Retire, HandOn, Done, Holding
<1>9. ASSUME ClientStep PROVE Busy'
  <2>1. ASSUME NEW c \in Call,
               \/ Arrive(c) \/ Leave(c) \/ RemoveQueued(c) \/ Cancel(c)
               \/ SendQueued(c) \/ Release(c)
        PROVE  Busy'
    BY <1>1, <1>2, <2>1 DEF Arrive, Leave, RemoveQueued, Cancel, SendQueued,
       Release
  <2>2. ASSUME NEW k \in Chat, StopThread(k) PROVE Busy'
    BY <1>1, <1>2, <2>2 DEF StopThread, StopSessions, Halt
  <2>3. ASSUME NEW K, StopDevice(K) PROVE Busy'
    BY <1>1, <1>2, <2>3 DEF StopDevice, StopSessions, Halt
  <2> QED BY <1>5, <1>9, <2>1, <2>2, <2>3, Zenon
             DEF ClientStep, StopDeviceThread, StopDeviceThreads
<1>10. CASE Stop \/ Wait \/ UNCHANGED vars
  BY <1>1, <1>10 DEF Stop, Halt, Wait, vars
<1> QED BY <1>6, <1>7, <1>8, <1>9, <1>10 DEF Next

-----------------------------------------------------------------------------
(* Stops.                                                                  *)

(* A reply finishing with its cancellation unread was cancelled by the     *)
(* deletion of its chat or by Engine.Stop, which end its queue themselves. *)
Told ==
    /\ StopReachesReply
    /\ \A c \in Call : phase[c] = "ending" /\ c \in cancelled =>
          c \in stopped \/ closing \/ deleted[thread[c]]

(* A step that stops no chat, starts no reply and ends none.               *)
LEMMA ToldFrame ==
    ASSUME Told, UNCHANGED <<closing, deleted>>,
           cancelled \subseteq cancelled', stopped \subseteq stopped',
           \A d \in Call : phase'[d] \in {"running", "ending"} =>
               /\ phase'[d] = phase[d]
               /\ thread'[d] = thread[d]
               /\ phase[d] = "ending" /\ d \in cancelled' => d \in cancelled
    PROVE  Told'
BY DEF Told, StopReachesReply

(* A stop cancels every reply of the chats it stops.                       *)
LEMMA ToldHalt ==
    ASSUME TypeOK, Agreement, Told, NEW S \in SUBSET Session, Halt(S),
           closing => closing',
           \A s \in Session : deleted[s] => deleted'[s],
           \A s \in S : closing' \/ deleted'[s],
           \A d \in Call : phase[d] = "running" /\ (closing' \/ deleted'[thread[d]])
               => closing \/ deleted[thread[d]] \/ thread[d] \in S
    PROVE  Told'
<1>1. /\ cancelled' = cancelled \cup Replies(S)
      /\ UNCHANGED <<thread, stopped>>
      /\ \A d \in Call : phase'[d] \in {"running", "ending"} => phase'[d] = phase[d]
  BY DEF Halt
<1>2. ASSUME NEW d \in Call, phase'[d] = "running",
             closing' \/ deleted'[thread'[d]]
      PROVE  d \in cancelled'
  <2>1. phase[d] = "running" /\ thread[d] # None /\ active[thread[d]] = d
    BY <1>1, <1>2 DEF Agreement, HolderIsActive, Holding
  <2>2. thread[d] \in S => d \in Replies(S)
    BY <2>1, CallAssumption DEF Replies
  <2> QED BY <1>1, <1>2, <2>1, <2>2 DEF Told, StopReachesReply
<1>3. ASSUME NEW d \in Call, phase'[d] = "ending", d \in cancelled'
      PROVE  d \in stopped' \/ closing' \/ deleted'[thread'[d]]
  <2>0. phase[d] = "ending"
    BY <1>1, <1>3
  <2>1. phase[d] = "ending" /\ thread[d] \in Session
    BY <2>0 DEF Agreement, HolderIsActive, Holding, TypeOK
  <2>2. CASE d \in cancelled
    BY <1>1, <2>1, <2>2 DEF Told
  <2>3. CASE d \in Replies(S)
    <3>1. PICK s \in S : active[s] = d
      BY <2>3 DEF Replies
    <3>2. thread[d] = s
      BY <3>1, CallAssumption DEF Agreement, ActiveHolds
    <3> QED BY <1>1, <3>2
  <2> QED BY <1>1, <1>3, <2>2, <2>3
<1> QED BY <1>2, <1>3 DEF Told, StopReachesReply

(* Every step keeps a stopped chat's reply told of the stop.               *)
LEMMA ToldNext ==
    ASSUME TypeOK, Agreement, Told, [Next]_vars
    PROVE  Told'
<1> USE DEF registryVars, sessionVars, runVars, callVars, serviceVars
<1>1. CASE UNCHANGED <<closing, deleted, cancelled, stopped, phase, thread>>
  BY <1>1, ToldFrame
<1>2. ASSUME NEW c \in Call, AdmitQueued(c) \/ AdmitActive(c) PROVE Told'
  <2>1. UNCHANGED <<closing, deleted, cancelled, stopped>>
    BY <1>2 DEF AdmitQueued, AdmitActive
  <2>2. \A d \in Call : phase'[d] \in {"running", "ending"} =>
           phase'[d] = phase[d] /\ thread'[d] = thread[d]
    BY <1>2 DEF AdmitQueued, AdmitActive, TypeOK
  <2> QED BY <2>1, <2>2, ToldFrame
<1>3. ASSUME NEW c \in Call, AcceptStep(c) PROVE Told'
  BY <1>1, <1>2, <1>3, Zenon DEF AcceptStep, TurnAway, Register, AwaitPrevious, Rejoin,
     RefuseAdmission, Unregister, AnswerRefused, AnswerStarted
<1>4. ASSUME NEW c \in Call, Start(c) PROVE Told'
  <2>1. /\ UNCHANGED <<closing, deleted, cancelled, stopped, thread>>
        /\ phase' = [phase EXCEPT ![c] = "running"]
        /\ ~closing /\ ~deleted[thread[c]]
    BY <1>4 DEF Start, MayStart
  <2> QED BY <2>1 DEF Told, StopReachesReply, TypeOK
<1>5. ASSUME NEW c \in Call, BeginFinish(c) PROVE Told'
  <2>1. /\ UNCHANGED <<closing, deleted, cancelled, thread>>
        /\ phase' = [phase EXCEPT ![c] = "ending"]
        /\ stopped \subseteq stopped'
        /\ c \in cancelled => c \in stopped'
    BY <1>5 DEF BeginFinish
  <2> QED BY <2>1 DEF Told, StopReachesReply, TypeOK
<1>6. ASSUME NEW c \in Call,
             \/ FailToStart(c) \/ EndUnstarted(c) \/ CloseUnstarted(c)
             \/ Retire(c) \/ HandOn(c) \/ Done(c)
      PROVE  Told'
  <2>1. UNCHANGED <<closing, deleted, cancelled, stopped, thread>>
    BY <1>6, Zenon DEF FailToStart, EndUnstarted, CloseUnstarted, Retire, HandOn, Done,
                Advance
  <2>2. \A d \in Call : phase'[d] \in {"running", "ending"} => phase'[d] = phase[d]
    <3>1. CASE FailToStart(c) \/ Done(c)
      BY <3>1 DEF FailToStart, Done, TypeOK
    <3>2. CASE CloseUnstarted(c) \/ HandOn(c)
      BY <3>2 DEF CloseUnstarted, HandOn, RunNext
    <3>3. CASE EndUnstarted(c) \/ Retire(c)
      BY <3>3 DEF EndUnstarted, Retire, Advance
    <3> QED BY <1>6, <3>1, <3>2, <3>3
  <2> QED BY <2>1, <2>2, ToldFrame
<1>7. ASSUME NEW c \in Call, RunStep(c) PROVE Told'
  BY <1>4, <1>5, <1>6, <1>7 DEF RunStep
<1>8. ASSUME NEW c \in Call, RemoveQueued(c) \/ Cancel(c) \/ SendQueued(c)
      PROVE  Told'
  <2>1. UNCHANGED <<closing, deleted, stopped, thread>>
    BY <1>8 DEF RemoveQueued, Cancel, SendQueued
  <2>2. cancelled \subseteq cancelled'
    BY <1>8 DEF RemoveQueued, Cancel, SendQueued
  <2>3. \A d \in Call : phase'[d] \in {"running", "ending"} =>
           /\ phase'[d] = phase[d]
           /\ phase[d] = "ending" /\ d \in cancelled' => d \in cancelled
    <3>1. CASE RemoveQueued(c)
      BY <3>1 DEF RemoveQueued, TypeOK
    <3>2. CASE Cancel(c)
      BY <3>2 DEF Cancel
    <3>3. CASE SendQueued(c)
      <4>1. phase' = phase
        BY <3>3 DEF SendQueued
      <4>2. cancelled' = cancelled \/ \E d \in {active[thread[c]]} :
              phase[d] # "ending" /\ cancelled' = cancelled \cup {d}
        BY <3>3 DEF SendQueued
      <4> QED BY <4>1, <4>2
    <3> QED BY <1>8, <3>1, <3>2, <3>3
  <2> QED BY <2>1, <2>2, <2>3, ToldFrame
<1>9. ASSUME NEW S \in SUBSET Session, StopSessions(S), closing' = closing
      PROVE  Told'
  <2>1. /\ Halt(S)
        /\ deleted' = [s \in Session |-> deleted[s] \/ s \in S]
    BY <1>9 DEF StopSessions
  <2>2. \A d \in Call : phase[d] = "running" => thread[d] \in Session
    BY DEF Agreement, HolderIsActive, Holding, TypeOK
  <2>3. /\ \A s \in Session : deleted[s] => deleted'[s]
        /\ \A s \in S : deleted'[s]
        /\ \A d \in Call : phase[d] = "running" /\ deleted'[thread[d]]
               => deleted[thread[d]] \/ thread[d] \in S
    BY <2>1, <2>2, Zenon
  <2> QED BY <1>9, <2>1, <2>3, ToldHalt
<1>10. ASSUME NEW k \in Chat, StopThread(k) PROVE Told'
  <2>1. {threads[k]} \in SUBSET Session
    BY <1>10 DEF StopThread, TypeOK, Place
  <2> QED BY <1>9, <1>10, <2>1 DEF StopThread
<1>11. ASSUME NEW K, StopDevice(K) PROVE Told'
  <2> DEFINE S == {s \in Session : IsDevice(s) /\ \E k \in K : threads[k] = s}
  <2>1. StopSessions(S) /\ S \in SUBSET Session /\ closing' = closing
    BY <1>11 DEF StopDevice
  <2> QED BY <1>9, <2>1
<1>12. CASE Stop
  <2> DEFINE S == {threads[k] : k \in Place} \ {None}
  <2>1. S \in SUBSET Session
    BY FoundSessions
  <2>2. \A d \in Call : phase[d] = "running" => thread[d] \in S
    BY PlaceOfCall DEF Agreement, Registered, Live, Holding
  <2>3. Halt(S) /\ closing' /\ deleted' = deleted
    BY <1>12 DEF Stop
  <2> HIDE DEF S
  <2> QED BY <2>1, <2>2, <2>3, ToldHalt
<1>13. ASSUME ClientStep PROVE Told'
  BY <1>1, <1>8, <1>10, <1>11, <1>13, Zenon DEF ClientStep, Arrive, Leave, Release,
     StopDeviceThread, StopDeviceThreads, BeginTransfer
<1>14. CASE Wait \/ UNCHANGED vars \/ \E t \in Transfer : EndTransfer(t)
  BY <1>1, <1>14, Zenon DEF Wait, vars, EndTransfer
<1> QED BY <1>3, <1>7, <1>12, <1>13, <1>14 DEF Next

(* advance ends a queue or hands its chat on as the client asked.          *)
LEMMA EndsAsAsked ==
    ASSUME TypeOK, Agreement, Told, Next
    PROVE  StoppedReplyEndsQueue /\ YieldedReplyHandsOn
<1> DEFINE Asked == StoppedReplyEndsQueue /\ YieldedReplyHandsOn
<1> USE DEF registryVars, sessionVars, runVars, callVars, serviceVars
<1>1. CASE active' = active
  BY <1>1 DEF StoppedReplyEndsQueue, YieldedReplyHandsOn
<1>2. ASSUME NEW c \in Call, AdmitActive(c) PROVE Asked
  <2> DEFINE s == IF threads[PlaceOf(c)] = None THEN c ELSE threads[PlaceOf(c)]
  <2>1. s \in Session /\ active' = [active EXCEPT ![s] = c]
    BY <1>2, PlaceOfCall DEF AdmitActive, TypeOK, Session
  <2>2. active[s] = None
    BY <1>2 DEF AdmitActive, Agreement, AdmittedOnce, Unpublished
  <2> HIDE DEF s
  <2>3. \A r \in Session : active[r] \in Call => active'[r] = active[r]
    BY <2>1, <2>2, CallAssumption DEF TypeOK
  <2> QED BY <2>3 DEF StoppedReplyEndsQueue, YieldedReplyHandsOn, TypeOK
<1>3. ASSUME NEW c \in Call, phase[c] \in Holding, NEW goOn \in BOOLEAN,
             NEW to, Advance(c, goOn, to),
             c \in yielded => goOn,
             phase[c] = "ending" /\ c \in cancelled \ yielded =>
                 ~goOn \/ closing \/ deleted[thread[c]]
      PROVE  Asked
  <2> DEFINE s  == thread[c]
             on == goOn /\ ~deleted[s] /\ ~closing /\ queue[s] # <<>>
  <2>1. /\ s \in Session
        /\ active[s] = c
        /\ active' = [active EXCEPT ![s] = IF on THEN Head(queue[s]) ELSE None]
    BY <1>3, AdvanceSlots
  <2>2. \A r \in Session : r # s => active'[r] = active[r]
    BY <2>1 DEF TypeOK
  <2>3. active'[s] = IF on THEN Head(queue[s]) ELSE None
    BY <2>1 DEF TypeOK
  <2>4. StoppedReplyEndsQueue
    BY <1>3, <2>1, <2>2, <2>3 DEF StoppedReplyEndsQueue
  <2>5. YieldedReplyHandsOn
    BY <1>3, <2>1, <2>2, <2>3 DEF YieldedReplyHandsOn
  <2> QED BY <2>4, <2>5
<1>4. ASSUME NEW c \in Call, EndUnstarted(c) PROVE Asked
  BY <1>3, <1>4, Zenon DEF EndUnstarted, Holding
<1>5. ASSUME NEW c \in Call, Retire(c) PROVE Asked
  <2>1. /\ phase[c] = "ending"
        /\ Advance(c, GoesOn(c), "retired")
        /\ GoesOn(c) \in BOOLEAN
        /\ c \in yielded => GoesOn(c)
        /\ c \in cancelled \ yielded => ~GoesOn(c) \/ closing \/ deleted[thread[c]]
    BY <1>5 DEF Retire, GoesOn, Told
  <2> QED BY <1>3, <2>1 DEF Holding
<1>6. ASSUME NEW c \in Call, AcceptStep(c) PROVE Asked
  BY <1>1, <1>2, <1>6, Zenon DEF AcceptStep, TurnAway, Register, AwaitPrevious,
     Rejoin, RefuseAdmission, AdmitQueued, Unregister, AnswerRefused,
     AnswerStarted
<1>7. ASSUME NEW c \in Call, RunStep(c) PROVE Asked
  BY <1>1, <1>4, <1>5, <1>7 DEF RunStep, Start, FailToStart, CloseUnstarted,
     BeginFinish, HandOn, Done
<1>8. ASSUME ClientStep PROVE Asked
  BY <1>1, <1>8, Zenon DEF ClientStep, Arrive, Leave, RemoveQueued, Cancel,
     SendQueued, Release, StopThread, StopDeviceThread, StopDeviceThreads,
     StopDevice, StopSessions, Halt, BeginTransfer
<1>9. CASE Stop \/ Wait \/ \E t \in Transfer : EndTransfer(t)
  BY <1>1, <1>9, Zenon DEF Stop, Halt, Wait, EndTransfer
<1> QED BY <1>6, <1>7, <1>8, <1>9 DEF Next

-----------------------------------------------------------------------------
(* Deletions.                                                              *)

(* A session takes turns that hold the row as it does, and a run of a      *)
(* deleted device chat is over or its session is deleted.                  *)
Gone ==
    /\ \A c \in Call : thread[c] # None => HoldsRow(thread[c]) = HoldsRow(c)
    /\ \A c \in doomed : /\ thread[c] # None
                         /\ c \notin held
                         /\ phase[c] \in Live => deleted[thread[c]]

(* The session a live turn of a device chat is found by is the chat's.     *)
LEMMA DeviceSession ==
    ASSUME TypeOK, Agreement, Gone, NEW c \in Call, phase[c] \in Live,
           Turn[c].device
    PROVE  /\ thread[c] \in Session
           /\ IsDevice(thread[c])
           /\ threads[PlaceOf(c)] = thread[c]
<1> DEFINE s == thread[c]
<1>1. s \in Call /\ threads[PlaceOf(c)] = s
  BY DEF Agreement, Registered, TransfersRefuse, TypeOK, Session
<1>2. PlaceOf(s) = PlaceOf(c) /\ HoldsRow(s) = HoldsRow(c)
  BY <1>1, CallAssumption DEF Agreement, OnePlace, PlaceOfSession, Gone
<1>3. s \in Call /\ c \in Call /\ Turn[s].chat \in Chat /\ Turn[c].chat \in Chat
  BY <1>1, CallAssumption
<1> HIDE DEF s
<1>4. s = c \/ (Turn[s].kind # "ask" /\ Turn[c].kind # "ask")
  BY <1>2, <1>3, CallAssumption DEF PlaceOf
<1>5. Turn[s].device
  BY <1>2, <1>4 DEF HoldsRow
<1> QED BY <1>1, <1>5 DEF IsDevice, Session, s

(* Every step keeps the runs of a deleted chat out of its row.             *)
LEMMA GoneNext ==
    ASSUME TypeOK, Agreement, Gone, [Next]_vars
    PROVE  Gone'
<1> USE DEF registryVars, sessionVars, runVars, callVars, serviceVars
<1>1. ASSUME NEW c \in Call, AdmitQueued(c) \/ AdmitActive(c) PROVE Gone'
  <2>1. thread[c] = None /\ c \notin doomed
    BY <1>1 DEF AdmitQueued, AdmitActive, Agreement, AdmittedOnce, Unpublished,
                Gone
  <2>2. /\ UNCHANGED <<doomed, held, deleted>>
        /\ \A d \in Call \ {c} : phase'[d] = phase[d] /\ thread'[d] = thread[d]
    BY <1>1 DEF AdmitQueued, AdmitActive, TypeOK
  <2>3. HoldsRow(thread'[c]) = HoldsRow(c)
    <3>1. CASE AdmitQueued(c)
      <4>1. thread'[c] = threads[PlaceOf(c)]
        BY <3>1 DEF AdmitQueued, TypeOK
      <4>2. HoldsRow(threads[PlaceOf(c)]) = HoldsRow(c)
        BY <3>1 DEF AdmitQueued, Takes
      <4> QED BY <4>1, <4>2
    <3>2. CASE AdmitActive(c)
      <4>1. thread'[c] = IF threads[PlaceOf(c)] = None THEN c ELSE threads[PlaceOf(c)]
        BY <3>2 DEF AdmitActive, TypeOK
      <4>2. threads[PlaceOf(c)] # None => HoldsRow(threads[PlaceOf(c)]) = HoldsRow(c)
        BY <3>2 DEF AdmitActive, Takes
      <4> QED BY <4>1, <4>2
    <3> QED BY <1>1, <3>1, <3>2
  <2> QED BY <2>1, <2>2, <2>3, Zenon DEF Gone, TypeOK
<1>2. ASSUME ~ \E c \in Call : AdmitQueued(c) \/ AdmitActive(c)
      PROVE  thread' = thread /\ \A d \in Call : phase'[d] \in Live => phase[d] \in Live
  BY <1>2, StepForgets DEF Forgets, Register, Unregister
<1>3. ASSUME thread' = thread,
             \A d \in Call : phase'[d] \in Live => phase[d] \in Live,
             doomed' = doomed, \A d \in doomed : d \notin held',
             \A s \in Session : deleted[s] => deleted'[s]
      PROVE  Gone'
  <2>1. \A c \in Call : thread'[c] # None => HoldsRow(thread'[c]) = HoldsRow(c)
    BY <1>3 DEF Gone
  <2>2. ASSUME NEW c \in doomed
        PROVE  /\ thread'[c] # None
               /\ c \notin held'
               /\ phase'[c] \in Live => deleted'[thread'[c]]
    <3>1. c \in Call /\ thread[c] \in Session /\ thread'[c] = thread[c]
      BY <1>3, <2>2 DEF Gone, TypeOK
    <3> QED BY <1>3, <2>2, <3>1 DEF Gone
  <2> QED BY <1>3, <2>1, <2>2 DEF Gone
<1>4. ASSUME NEW c \in Call, AcceptStep(c) PROVE Gone'
  BY <1>1, <1>2, <1>3, <1>4, Zenon DEF AcceptStep, TurnAway, Register, AwaitPrevious,
     Rejoin, RefuseAdmission, Unregister, AnswerRefused, AnswerStarted, Gone
<1> DEFINE Admits == \E c \in Call : AdmitQueued(c) \/ AdmitActive(c)
<1>5. CASE Admits
  BY <1>1, <1>5
<1> SUFFICES ASSUME ~Admits PROVE Gone'
  BY <1>5
<1>6. thread' = thread /\ \A d \in Call : phase'[d] \in Live => phase[d] \in Live
  BY <1>2
<1> HIDE DEF Admits
<1>7. CASE UNCHANGED <<doomed, held, deleted>>
  BY <1>3, <1>6, <1>7 DEF Gone
<1>8. ASSUME NEW c \in Call, Retire(c) PROVE Gone'
  <2>1. UNCHANGED <<doomed, deleted>> /\ phase[c] \in Live
    BY <1>8 DEF Retire, Advance, Live, Holding
  <2>2. \A d \in doomed : d \notin held'
    BY <1>8, <2>1 DEF Retire, KeepsLog, Gone
  <2> QED BY <1>3, <1>6, <2>1, <2>2
<1>9. ASSUME NEW c \in Call, RunStep(c) PROVE Gone'
  BY <1>7, <1>8, <1>9, Zenon DEF RunStep, Start, FailToStart, EndUnstarted,
     CloseUnstarted, BeginFinish, HandOn, Done, Advance
<1>10. ASSUME NEW c \in Call, Release(c) PROVE Gone'
  BY <1>3, <1>6, <1>10 DEF Release, Gone
<1>11. ASSUME NEW k \in Chat, StopThread(k) PROVE Gone'
  <2>1. UNCHANGED <<doomed, held>> /\ \A s \in Session : deleted[s] => deleted'[s]
    BY <1>11, Zenon DEF StopThread, StopSessions
  <2> QED BY <1>3, <1>6, <2>1 DEF Gone
<1>12. ASSUME NEW K, StopDevice(K) PROVE Gone'
  <2> DEFINE S    == {s \in Session : IsDevice(s) /\ \E k \in K : threads[k] = s}
             kept == {c \in Call : Turn[c].device /\ PlaceOf(c) \in K}
  <2>1. /\ deleted' = [s \in Session |-> deleted[s] \/ s \in S]
        /\ held' = held \ kept
        /\ doomed' = doomed \cup {c \in kept : thread[c] # None}
    BY <1>12 DEF StopDevice, StopSessions
  <2>2. ASSUME NEW c \in kept, phase[c] \in Live PROVE deleted'[thread[c]]
    BY <2>1, <2>2, DeviceSession, Zenon
  <2>3. ASSUME NEW c \in doomed'
        PROVE  /\ thread'[c] # None
               /\ c \notin held'
               /\ phase'[c] \in Live => deleted'[thread'[c]]
    <3>1. CASE c \in doomed
      BY <1>6, <2>1, <3>1 DEF Gone, TypeOK
    <3>2. CASE c \in kept /\ thread[c] # None
      BY <1>6, <2>1, <2>2, <3>2
    <3> QED BY <2>1, <2>3, <3>1, <3>2
  <2> QED BY <1>6, <2>3 DEF Gone
<1>13. ASSUME ClientStep PROVE Gone'
  BY <1>7, <1>10, <1>11, <1>12, <1>13, Zenon DEF ClientStep, Arrive, Leave,
     RemoveQueued, Cancel, SendQueued, StopDeviceThread, StopDeviceThreads,
     BeginTransfer
<1>14. CASE Stop \/ Wait \/ UNCHANGED vars \/ \E t \in Transfer : EndTransfer(t)
  BY <1>7, <1>14, Zenon DEF Stop, Wait, vars, EndTransfer
<1> QED BY <1>4, <1>9, <1>13, <1>14 DEF Next
=============================================================================
