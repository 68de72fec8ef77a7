--------------------------- MODULE LiveRunsProofs ---------------------------
(***************************************************************************)
(* The theorems of LiveRuns: the inductive invariant, and what follows.    *)
(***************************************************************************)
EXTENDS LiveRunsStops, LiveRunsRegistry

(* The inductive invariant.                                                *)
Inv == TypeOK /\ Agreement /\ WorkingCount

(* The inductive invariant holds of every reachable state.                 *)
THEOREM Invariance == Spec => []Inv
<1>1. Init => Inv
  <2> SUFFICES ASSUME Init PROVE Inv
    OBVIOUS
  <2>1. {c \in Call : phase[c] \in Working} = {}
    BY DEF Init, Working
  <2>2. WorkingCount
    BY <2>1, FS_EmptySet DEF Init, WorkingCount
  <2> QED BY <2>2, TypeInit, AgreementInit DEF Inv
<1>2. Inv /\ [Next]_vars => Inv'
  <2> SUFFICES ASSUME Inv, [Next]_vars PROVE Inv'
    OBVIOUS
  <2>1. TypeOK' /\ WorkingCount'
    BY TypeNext, CountNext DEF Inv
  <2> QED BY <2>1, AgreementNext DEF Inv
<1> QED BY <1>1, <1>2, PTL DEF Spec

(* Every variable keeps its type; in particular finishRun never counts the *)
(* WaitGroup below zero, at which it would panic.                          *)
THEOREM TypeCorrect == Spec => []TypeOK
<1>1. Inv => TypeOK
  BY DEF Inv
<1> QED BY <1>1, Invariance, PTL

(* However many requests, retries, cancellations, deletions, transfers and *)
(* stops meet, a chat never has two turns that start, stream or commit:    *)
(* both are the Active of the one session the chat is registered by.       *)
THEOREM OneReply == Spec => []OneReplyPerChat
<1>1. Inv => OneReplyPerChat
  <2> SUFFICES ASSUME Inv, NEW c \in Call, NEW d \in Call,
                      phase[c] \in Holding, phase[d] \in Holding,
                      PlaceOf(c) = PlaceOf(d)
               PROVE  c = d
    BY DEF OneReplyPerChat
  <2>1. thread[c] = thread[d]
    BY DEF Inv, Agreement, Registered, Live
  <2> QED BY <2>1 DEF Inv, Agreement, HolderIsActive
<1> QED BY <1>1, Invariance, PTL

(* Once Wait has answered, the service stays stopped and nothing counts.   *)
WaitedOut == waited => closing /\ working = 0

(* Once Engine.Wait has answered, no started run has anything left to      *)
(* write: the stop is seen by every launch before it counts itself.        *)
THEOREM WaitCovers == Spec => []WaitCoversRuns
<1> USE DEF registryVars, sessionVars, runVars, callVars, serviceVars
<1>1. Init => WaitedOut
  BY DEF Init, WaitedOut
<1>2. Inv /\ WaitedOut /\ [Next]_vars => WaitedOut'
  <2> SUFFICES ASSUME Inv, WaitedOut, [Next]_vars PROVE WaitedOut'
    OBVIOUS
  <2>1. ASSUME NEW c \in Call, AcceptStep(c) PROVE WaitedOut'
    BY <2>1 DEF WaitedOut, AcceptStep, TurnAway, Register, AwaitPrevious,
       Rejoin, RefuseAdmission, AdmitQueued, AdmitActive, Unregister,
       AnswerRefused, AnswerStarted
  <2>2. ASSUME NEW c \in Call, RunStep(c) PROVE WaitedOut'
    <3>1. CASE Start(c)
      BY <3>1 DEF Start, MayStart, WaitedOut
    <3>2. CASE Done(c)
      <4> DEFINE W == {d \in Call : phase[d] \in Working}
      <4>1. c \in W /\ IsFiniteSet(W) /\ working = Cardinality(W)
        BY <3>2 DEF Done, Inv, WorkingCount, Working
      <4>2. working # 0
        BY <4>1, FS_EmptySet
      <4> QED BY <3>2, <4>2 DEF Done, WaitedOut
    <3>3. CASE \/ FailToStart(c) \/ EndUnstarted(c) \/ CloseUnstarted(c)
               \/ BeginFinish(c) \/ Retire(c) \/ HandOn(c)
      BY <3>3 DEF FailToStart, EndUnstarted, CloseUnstarted, BeginFinish,
                  Retire, HandOn, WaitedOut
    <3> QED BY <2>2, <3>1, <3>2, <3>3 DEF RunStep
  <2>3. ASSUME NEW t \in Transfer, EndTransfer(t) \/ BeginTransfer(t)
        PROVE  WaitedOut'
    BY <2>3 DEF EndTransfer, BeginTransfer, WaitedOut
  <2>4. ASSUME ClientStep PROVE WaitedOut'
    BY <2>3, <2>4 DEF ClientStep, Arrive, Leave, RemoveQueued, Cancel,
       SendQueued, Release, StopThread, StopDeviceThread, StopDeviceThreads,
       StopDevice, WaitedOut
  <2>5. CASE Stop \/ Wait \/ UNCHANGED vars
    BY <2>5 DEF Stop, Wait, vars, WaitedOut
  <2> QED BY <2>1, <2>2, <2>3, <2>4, <2>5 DEF Next
<1>3. Inv /\ WaitedOut => WaitCoversRuns
  <2> SUFFICES ASSUME Inv, working = 0, NEW c \in Call, phase[c] \in Working
               PROVE  FALSE
    BY DEF WaitedOut, WaitCoversRuns
  <2> DEFINE W == {d \in Call : phase[d] \in Working}
  <2>1. c \in W /\ IsFiniteSet(W) /\ working = Cardinality(W)
    BY DEF Inv, WorkingCount
  <2> QED BY <2>1, FS_EmptySet
<1> QED BY <1>1, <1>2, <1>3, Invariance, PTL DEF Spec

(* The phases of a run whose Finished is closed.                           *)
Final == {"dropped", "void", "over"}

(* A step that ends the runs of S, each for the first time.                *)
Ends(S) ==
    \A d \in Call :
        IF d \in S
        THEN phase[d] \notin Final /\ phase'[d] \in Final
             /\ finished'[d] = finished[d] + 1
        ELSE (phase'[d] \in Final <=> phase[d] \in Final)
             /\ finished'[d] = finished[d]

(* A step that closes Finished of the runs it ends, and of no other, keeps *)
(* FinishedOnce.                                                           *)
LEMMA EndsOnce ==
    ASSUME TypeOK, FinishedOnce, NEW S, Ends(S)
    PROVE  FinishedOnce'
BY DEF FinishedOnce, Ends, Final, TypeOK

(* advance closes Finished of the queued turns it ends, and of no other.   *)
LEMMA AdvanceEnds ==
    ASSUME TypeOK, Agreement, NEW c \in Call, phase[c] \in Holding,
           NEW goOn \in BOOLEAN, NEW to \in {"retired", "unstarted"},
           Advance(c, goOn, to)
    PROVE  \E S : Ends(S)
<1> DEFINE s    == thread[c]
           on   == goOn /\ ~deleted[s] /\ ~closing /\ queue[s] # <<>>
           lost == IF on THEN {} ELSE Range(queue[s])
           turn == IF on THEN Head(queue[s]) ELSE None
<1>1. s \in Session
  BY DEF Agreement, HolderIsActive, TypeOK
<1>2. \A d \in lost : d \in Call /\ phase[d] = "queued"
  BY <1>1, QueuedNotWorking
<1>3. turn # None => turn \in Call /\ phase[turn] = "queued"
  <2> SUFFICES ASSUME on PROVE turn \in Call /\ phase[turn] = "queued"
    OBVIOUS
  <2>1. queue[s] \in Seq(Call) /\ queue[s] # <<>>
    BY <1>1 DEF TypeOK
  <2>2. queue[s][1] \in Range(queue[s])
    BY <2>1, RangeElements
  <2> QED BY <1>1, <2>1, <2>2, QueuedNotWorking
<1>4. /\ phase' = [d \in Call |-> CASE d = c      -> to
                                    [] d = turn   -> "next"
                                    [] d \in lost -> "dropped"
                                    [] OTHER      -> phase[d]]
      /\ finished' = [d \in Call |-> finished[d] + IF d \in lost THEN 1 ELSE 0]
  BY DEF Advance, CloseFinished
<1>5. turn \notin lost
  BY <1>2, CallAssumption
<1> HIDE DEF lost, turn, on, s
<1>6. c \notin lost /\ c # turn
  BY <1>2, <1>3, CallAssumption DEF Holding
<1>7. phase'[c] = to
  BY <1>4, <1>6
<1>8. \A d \in Call \ {c} : d = turn => phase'[d] = "next"
  BY <1>4, <1>5
<1>9. \A d \in Call \ {c} : d \in lost => phase'[d] = "dropped"
  BY <1>4, <1>5
<1>10. \A d \in Call \ {c} : d # turn /\ d \notin lost => phase'[d] = phase[d]
  BY <1>4
<1>11. \A d \in Call : finished'[d] = IF d \in lost THEN finished[d] + 1
                                      ELSE finished[d]
  BY <1>4 DEF TypeOK
<1>12. Ends(lost)
  <2> SUFFICES ASSUME NEW d \in Call
               PROVE  IF d \in lost
                      THEN phase[d] \notin Final /\ phase'[d] \in Final
                           /\ finished'[d] = finished[d] + 1
                      ELSE (phase'[d] \in Final <=> phase[d] \in Final)
                           /\ finished'[d] = finished[d]
    BY DEF Ends
  <2>1. CASE d = c
    BY <1>6, <1>7, <1>11, <2>1 DEF Final, Holding
  <2>2. CASE d = turn
    <3>1. d # None
      BY CallAssumption
    <3>2. phase[d] = "queued" /\ phase'[d] = "next"
      BY <1>3, <1>6, <1>8, <2>2, <3>1
    <3> QED BY <1>5, <1>11, <2>2, <3>2 DEF Final
  <2>3. CASE d # c /\ d \in lost
    BY <1>2, <1>9, <1>11, <2>3 DEF Final
  <2>4. CASE d # c /\ d # turn /\ d \notin lost
    BY <1>10, <1>11, <2>4
  <2> QED BY <2>1, <2>2, <2>3, <2>4
<1> QED BY <1>12

(* So does a stop.                                                         *)
LEMMA HaltEnds ==
    ASSUME TypeOK, Agreement, NEW S \in SUBSET Session, Halt(S)
    PROVE  \E L : Ends(L)
<1> DEFINE lost == UNION {Range(queue[s]) : s \in S}
<1>1. \A d \in lost : phase[d] = "queued"
  BY QueuedNotWorking
<1>2. /\ phase' = [d \in Call |-> IF d \in lost THEN "dropped" ELSE phase[d]]
      /\ finished' = [d \in Call |-> finished[d] + IF d \in lost THEN 1 ELSE 0]
  BY DEF Halt, CloseFinished
<1> HIDE DEF lost
<1>3. Ends(lost)
  BY <1>1, <1>2 DEF Ends, Final, TypeOK
<1> QED BY <1>3

(* The turn a run hands its chat to does not end; the run itself may.      *)
LEMMA RunNextEnds ==
    ASSUME TypeOK, Agreement, NEW c \in Call, CloseUnstarted(c) \/ HandOn(c)
    PROVE  \E S : Ends(S)
<1>1. next[c] # None => next[c] \in Call /\ next[c] # c /\ phase[next[c]] = "next"
  BY DEF Agreement, HandedOn, CloseUnstarted, HandOn, TypeOK
<1>2. CASE CloseUnstarted(c)
  <2>1. /\ phase[c] = "unstarted"
        /\ phase'[c] = "void"
        /\ \A d \in Call \ {c} : /\ d = next[c] => phase'[d] = "launching"
                                 /\ d # next[c] => phase'[d] = phase[d]
    BY <1>1, <1>2, CallAssumption DEF CloseUnstarted, RunNext
  <2>2. \A d \in Call : finished'[d] = IF d = c THEN finished[d] + 1
                                       ELSE finished[d]
    BY <1>2 DEF CloseUnstarted, CloseFinished, TypeOK
  <2>3. ASSUME NEW d \in Call \ {c}
        PROVE  phase'[d] \in Final <=> phase[d] \in Final
    <3>1. d # None
      BY CallAssumption
    <3>2. CASE d = next[c]
      BY <1>1, <2>1, <3>1, <3>2 DEF Final
    <3> QED BY <2>1, <3>2
  <2>4. Ends({c})
    BY <2>1, <2>2, <2>3 DEF Ends, Final
  <2> QED BY <2>4
<1>3. CASE HandOn(c)
  <2>1. /\ phase[c] = "retired"
        /\ phase'[c] = "closed"
        /\ \A d \in Call \ {c} : /\ d = next[c] => phase'[d] = "launching"
                                 /\ d # next[c] => phase'[d] = phase[d]
    BY <1>1, <1>3, CallAssumption DEF HandOn, RunNext
  <2>2. finished' = finished
    BY <1>3 DEF HandOn
  <2>3. ASSUME NEW d \in Call \ {c}
        PROVE  phase'[d] \in Final <=> phase[d] \in Final
    <3>1. d # None
      BY CallAssumption
    <3>2. CASE d = next[c]
      BY <1>1, <2>1, <3>1, <3>2 DEF Final
    <3> QED BY <2>1, <3>2
  <2>4. Ends({})
    BY <2>1, <2>2, <2>3 DEF Ends, Final
  <2> QED BY <2>4
<1> QED BY <1>2, <1>3

(* However stops, removals, hand-ons and failed launches meet, the channel *)
(* that tells of a run's end is closed once, as the run ends.              *)
THEOREM FinishedOnceAlways == Spec => []FinishedOnce
<1> USE DEF registryVars, sessionVars, runVars, callVars, serviceVars
<1>1. Init => FinishedOnce
  BY DEF Init, FinishedOnce
<1>2. Inv /\ FinishedOnce /\ [Next]_vars => FinishedOnce'
  <2> SUFFICES ASSUME TypeOK, Agreement, FinishedOnce, [Next]_vars
               PROVE  FinishedOnce'
    BY DEF Inv
  <2> SUFFICES \E S : Ends(S)
    BY EndsOnce
  <2>1. ASSUME NEW c \in Call, AcceptStep(c) PROVE \E S : Ends(S)
    <3>1. CASE AdmitQueued(c) \/ AdmitActive(c)
      <4>1. phase[c] = "none" /\ finished' = finished
        BY <3>1 DEF AdmitQueued, AdmitActive, Agreement, AdmittedOnce
      <4>2. Ends({})
        BY <3>1, <4>1 DEF AdmitQueued, AdmitActive, Ends, Final, TypeOK
      <4> QED BY <4>2
    <3>2. CASE UNCHANGED <<phase, finished>>
      <4>1. Ends({})
        BY <3>2 DEF Ends
      <4> QED BY <4>1
    <3> QED BY <2>1, <3>1, <3>2 DEF AcceptStep, TurnAway, Register,
          AwaitPrevious, Rejoin, RefuseAdmission, Unregister, AnswerRefused,
          AnswerStarted
  <2>2. ASSUME NEW c \in Call, RunStep(c) PROVE \E S : Ends(S)
    <3>1. CASE Start(c) \/ FailToStart(c) \/ BeginFinish(c)
      <4>1. Ends({})
        BY <3>1 DEF Start, FailToStart, BeginFinish, Ends, Final, TypeOK
      <4> QED BY <4>1
    <3>2. CASE EndUnstarted(c)
      BY <3>2, AdvanceEnds DEF EndUnstarted, Holding
    <3>3. CASE Retire(c)
      <4>1. GoesOn(c) \in BOOLEAN
        BY DEF GoesOn
      <4> QED BY <3>3, <4>1, AdvanceEnds DEF Retire, Holding
    <3>4. CASE CloseUnstarted(c) \/ HandOn(c)
      BY <3>4, RunNextEnds
    <3>5. CASE Done(c)
      <4>1. Ends({c})
        BY <3>5 DEF Done, CloseFinished, Ends, Final, TypeOK
      <4> QED BY <4>1
    <3> QED BY <2>2, <3>1, <3>2, <3>3, <3>4, <3>5 DEF RunStep
  <2>3. ASSUME NEW c \in Call, RemoveQueued(c) PROVE \E S : Ends(S)
    <3>1. thread[c] \in Session /\ c \in Range(queue[thread[c]])
      BY <2>3, RangeElements DEF RemoveQueued, TypeOK
    <3>2. phase[c] = "queued"
      BY <3>1, QueuedNotWorking
    <3>3. Ends({c})
      BY <2>3, <3>2 DEF RemoveQueued, CloseFinished, Ends, Final, TypeOK
    <3> QED BY <3>3
  <2>4. ASSUME NEW k \in Chat, StopThread(k) PROVE \E S : Ends(S)
    <3>1. {threads[k]} \in SUBSET Session
      BY <2>4 DEF StopThread, TypeOK, Place
    <3> QED BY <2>4, <3>1, HaltEnds DEF StopThread, StopSessions
  <2>5. ASSUME NEW K, StopDevice(K) PROVE \E S : Ends(S)
    <3> DEFINE S == {s \in Session : IsDevice(s) /\ \E k \in K : threads[k] = s}
    <3>1. Halt(S)
      BY <2>5 DEF StopDevice, StopSessions
    <3> QED BY <3>1, HaltEnds
  <2>6. CASE Stop
    <3>1. {threads[k] : k \in Place} \ {None} \in SUBSET Session
      BY DEF TypeOK
    <3> QED BY <2>6, <3>1, HaltEnds DEF Stop
  <2>7. CASE UNCHANGED <<phase, finished>>
    <3>1. Ends({})
      BY <2>7 DEF Ends
    <3> QED BY <3>1
  <2>8. ASSUME ClientStep PROVE \E S : Ends(S)
    BY <2>3, <2>4, <2>5, <2>7, <2>8 DEF ClientStep, Arrive, Leave, Cancel,
       SendQueued, Release, StopDeviceThread, StopDeviceThreads, BeginTransfer
  <2>9. CASE Wait \/ UNCHANGED vars \/ \E t \in Transfer : EndTransfer(t)
    BY <2>7, <2>9 DEF Wait, vars, EndTransfer
  <2> QED BY <2>1, <2>2, <2>6, <2>8, <2>9 DEF Next
<1> QED BY <1>1, <1>2, Invariance, PTL DEF Spec

-----------------------------------------------------------------------------
(* The registry.                                                           *)

(* Turns wait only behind a reply, which SendQueued dereferences, and no   *)
(* chat holds more than MaxQueuedTurns of them, whatever was removed, sent *)
(* ahead, stopped or handed on meanwhile.                                  *)
THEOREM QueueBehind == Spec => []QueueBehindReply
<1>1. Init => Bounded
  BY CallAssumption DEF Init, Bounded
<1>2. Inv /\ Inv' /\ Bounded /\ [Next]_vars => Bounded'
  BY BoundedNext DEF Inv
<1>3. Inv /\ Bounded => QueueBehindReply
  BY DEF Inv, Agreement, BehindReply, Bounded, QueueBehindReply
<1> QED BY <1>1, <1>2, <1>3, Invariance, PTL DEF Spec

(* "each chat's running reply and the turns queued behind it, and nothing  *)
(* once they end" (liveRuns): a run is found by its id exactly while it    *)
(* holds or waits for its chat and by its request from before that, and a  *)
(* chat only while it has a reply or is being moved.                       *)
THEOREM Registry == Spec => []RegistryExact
<1>1. Init => Found /\ Busy
  BY DEF Init, Found, Busy, Live, Holding, Admitting
<1>2. Inv /\ Found /\ Busy /\ [Next]_vars => (Found /\ Busy)'
  BY FoundNext, BusyNext DEF Inv
<1>3. Inv /\ Found /\ Busy => RegistryExact
  <2> SUFFICES ASSUME TypeOK, Found, Busy PROVE RegistryExact
    BY DEF Inv
  <2>1. runs = {c \in Call : phase[c] \in Live}
    BY DEF Found
  <2>2. \A c \in runs : requests[Turn[c].nonce] = c
    BY <2>1 DEF Found
  <2>3. \A n \in Nonce : requests[n] # None =>
          /\ Turn[requests[n]].nonce = n
          /\ requests[n] \in runs \/ at[requests[n]] \in {"admit", "unregister"}
    BY <2>1, CallAssumption DEF Found, Admitting, TypeOK
  <2> QED BY <2>1, <2>2, <2>3 DEF Busy, RegistryExact, Live
<1> QED BY <1>1, <1>2, <1>3, Invariance, PTL DEF Spec

(* While a transfer holds its chat, no turn of that chat starts, streams,  *)
(* commits or waits, so the row being removed is the one its client has:   *)
(* the placeholder it puts in the registry takes no turn.                  *)
THEOREM MovingIdle == Spec => []MovingChatIsIdle
<1>1. Inv /\ RegistryExact => MovingChatIsIdle
  <2> SUFFICES ASSUME Inv, RegistryExact, NEW t \in Transfer,
                      threads[ChatOf[t]] = t, NEW c \in runs,
                      PlaceOf(c) = ChatOf[t]
               PROVE  FALSE
    BY DEF MovingChatIsIdle
  <2>1. c \in Call /\ phase[c] \in Live
    BY DEF RegistryExact, Live
  <2>2. thread[c] = t
    BY <2>1 DEF Inv, Agreement, Registered
  <2> QED BY <2>1, <2>2 DEF Inv, Agreement, TransfersRefuse
<1> QED BY <1>1, Invariance, Registry, PTL

(* What is known of a stop holds of every reachable state.                 *)
LEMMA ToldAlways == Spec => []Told
<1>1. Init => Told
  BY DEF Init, Told, StopReachesReply
<1>2. Inv /\ Told /\ [Next]_vars => Told'
  BY ToldNext DEF Inv
<1> QED BY <1>1, <1>2, Invariance, PTL DEF Spec

(* Every reply streaming in a deleted chat, or once the service stops, has *)
(* been cancelled: launch is refused at its end, and a stop finds every    *)
(* reply that got past it.                                                 *)
THEOREM StopReaches == Spec => []StopReachesReply
<1>1. Told => StopReachesReply
  BY DEF Told
<1> QED BY <1>1, ToldAlways, PTL

(* What becomes of the turns queued behind a reply is what the client      *)
(* asked of advance: a reply it stopped, and not for a queued turn, never  *)
(* hands its chat on, and one stopped for a queued turn, even one already  *)
(* finishing, hands it to the first turn of the queue.                     *)
THEOREM QueueEnds == Spec => QueueEndsAsAsked
<1>1. Inv /\ Told /\ [Next]_vars => [StoppedReplyEndsQueue /\ YieldedReplyHandsOn]_vars
  BY EndsAsAsked DEF Inv
<1> QED BY <1>1, Invariance, ToldAlways, PTL DEF Spec, QueueEndsAsAsked


(* Once a client deletes its device chat, or all of them, no log of a run  *)
(* admitted before is kept: a run still live then belongs to the session   *)
(* the deletion marked, and finishRun keeps no log for it.                 *)
THEOREM DeletedGone == Spec => []DeletedNotHeld
<1>1. Init => Gone
  BY DEF Init, Gone
<1>2. Inv /\ Gone /\ [Next]_vars => Gone'
  BY GoneNext DEF Inv
<1>3. Gone => DeletedNotHeld
  BY DEF Gone, DeletedNotHeld
<1> QED BY <1>1, <1>2, <1>3, Invariance, PTL DEF Spec
=============================================================================
