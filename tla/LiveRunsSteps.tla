--------------------------- MODULE LiveRunsSteps ----------------------------
(***************************************************************************)
(* Every step of a run and of AcceptTurn keeps the agreement of the        *)
(* registry, the sessions and the runs: admission, launch, and advance,    *)
(* which hands a chat on.                                                  *)
(***************************************************************************)
EXTENDS LiveRunsInvariant

(* A queue's places are told apart by what follows them.                   *)
LEMMA SuccDistinct == \A a, b \in Int : a + 1 = b + 1 => a = b
OBVIOUS

(* A place of a queue's tail is one further on in the queue.               *)
LEMMA TailPlace ==
    \A n \in Nat \ {0} : \A j \in 1 .. n - 1 : j \in Int /\ j + 1 \in 1 .. n
OBVIOUS

(* A place of a queue but its first has one before it.                     *)
LEMMA PlaceBefore ==
    \A n \in Nat \ {0} : \A j \in 1 .. n :
        j # 1 => j - 1 \in 1 .. n - 1 /\ (j - 1) + 1 = j
OBVIOUS

(* What a place of a queue of calls holds is a call.                       *)
LEMMA PlaceHolds ==
    \A S : \A seq \in Seq(S) : \A i \in 1 .. Len(seq) : seq[i] \in S
  OBVIOUS

(* The agreement of the registry, the sessions and the runs.               *)

(* An empty registry agrees with its runs.                                 *)
LEMMA AgreementInit == Init => Agreement
<1> SUFFICES ASSUME Init PROVE Agreement
  OBVIOUS
<1>1. /\ HolderIsActive
      /\ ActiveHolds
      /\ QueuedIsIn
      /\ BehindReply
      /\ Registered
      /\ HandedOn
  BY DEF Init, Session, Holding, Live, HolderIsActive, ActiveHolds, QueuedIsIn,
         BehindReply, Registered, HandedOn
<1>2. QueueWaits
  BY DEF Init, QueueWaits
<1>3. OnePlace /\ AdmittedOnce
  BY DEF Init, OnePlace, AdmittedOnce
<1>4. Unpublished /\ TransfersRefuse
  BY CallAssumption, Zenon DEF Init, Unpublished, TransfersRefuse, Session
<1> QED BY <1>1, <1>2, <1>3, <1>4 DEF Agreement

(* A step that moves no run and no session.                                *)
LEMMA AgreementFrame ==
    ASSUME Agreement, AdmittedOnce',
           UNCHANGED <<threads, deleted, active, queue, thread, phase, next>>
    PROVE  Agreement'
BY DEF Agreement, HolderIsActive, ActiveHolds, QueueWaits, QueuedIsIn,
       BehindReply, Registered, OnePlace, Unpublished, HandedOn,
       TransfersRefuse

(* Runs move on, each between phases its session treats alike.             *)
LEMMA AgreementMove ==
    ASSUME TypeOK, Agreement, HandedOn',
           \A d \in Call : /\ phase'[d] \in Holding <=> phase[d] \in Holding
                           /\ phase'[d] = "queued" <=> phase[d] = "queued"
                           /\ phase'[d] = "none" <=> phase[d] = "none",
           UNCHANGED <<threads, deleted, active, queue, thread, at>>
    PROVE  Agreement'
<1> USE DEF Agreement, TypeOK
<1>1. HolderIsActive' /\ Registered' /\ Unpublished' /\ AdmittedOnce' /\ QueuedIsIn'
  BY DEF HolderIsActive, Registered, Unpublished, AdmittedOnce, QueuedIsIn, Live
<1>2. ActiveHolds'
  BY DEF ActiveHolds
<1>3. QueueWaits'
  BY DEF QueueWaits
<1>4. BehindReply' /\ OnePlace' /\ TransfersRefuse'
  BY DEF BehindReply, OnePlace, TransfersRefuse
<1> QED BY <1>1, <1>2, <1>3, <1>4

(* A run moves on in its launch or its end.                                *)
LEMMA AgreementRun ==
    ASSUME TypeOK, Agreement, NEW c \in Call,
           Start(c) \/ FailToStart(c) \/ BeginFinish(c) \/ Done(c)
    PROVE  Agreement'
<1> USE DEF registryVars, sessionVars, callVars, serviceVars
<1>1. PICK to : /\ phase' = [phase EXCEPT ![c] = to]
                /\ \/ phase[c] \in {"launching", "running"}
                      /\ to \in {"running", "failed", "ending"}
                   \/ phase[c] = "closed" /\ to = "over"
  BY DEF Start, FailToStart, BeginFinish, Done
<1>2. UNCHANGED <<threads, deleted, active, queue, thread, next, at>>
  BY DEF Start, FailToStart, BeginFinish, Done
<1>3. \A d \in Call : /\ phase'[d] \in Holding <=> phase[d] \in Holding
                      /\ phase'[d] = "queued" <=> phase[d] = "queued"
                      /\ phase'[d] = "none" <=> phase[d] = "none"
                      /\ phase'[d] = "next" <=> phase[d] = "next"
                      /\ phase'[d] \in {"retired", "unstarted"}
                           <=> phase[d] \in {"retired", "unstarted"}
  BY <1>1 DEF Holding, TypeOK
<1>4. HandedOn'
  BY <1>2, <1>3 DEF Agreement, HandedOn, TypeOK
<1> QED BY <1>2, <1>3, <1>4, AgreementMove

(* The turn a run handed its chat to is launched.                          *)
LEMMA AgreementRunNext ==
    ASSUME TypeOK, Agreement, NEW c \in Call,
           CloseUnstarted(c) \/ HandOn(c)
    PROVE  Agreement'
<1> USE DEF registryVars, sessionVars, callVars, serviceVars
<1>1. PICK to \in {"void", "closed"} : RunNext(c, to)
  BY DEF CloseUnstarted, HandOn
<1>2. /\ phase[c] \in {"retired", "unstarted"}
      /\ UNCHANGED <<threads, deleted, active, queue, thread, next, at>>
  BY DEF CloseUnstarted, HandOn
<1>3. next[c] # None => next[c] \in Call /\ next[c] # c /\ phase[next[c]] = "next"
  BY <1>2 DEF Agreement, HandedOn, TypeOK
<1>4. /\ phase'[c] = to
      /\ next[c] # None => phase'[next[c]] = "launching"
      /\ \A d \in Call : d # c /\ d # next[c] => phase'[d] = phase[d]
  <2>1. phase'[c] = to
    BY <1>1, <1>3, CallAssumption DEF RunNext
  <2>2. next[c] # None => phase'[next[c]] = "launching"
    BY <1>1, <1>3 DEF RunNext
  <2>3. \A d \in Call : d # c /\ d # next[c] => phase'[d] = phase[d]
    BY <1>1 DEF RunNext
  <2> QED BY <2>1, <2>2, <2>3
<1>5. None \notin Call
  BY CallAssumption
<1>6. \A d \in Call : /\ phase'[d] \in Holding <=> phase[d] \in Holding
                      /\ phase'[d] = "queued" <=> phase[d] = "queued"
                      /\ phase'[d] = "none" <=> phase[d] = "none"
                      /\ phase'[d] \in {"retired", "unstarted"}
                           <=> d # c /\ phase[d] \in {"retired", "unstarted"}
  BY <1>2, <1>3, <1>4, <1>5 DEF Holding
<1>7. HandedOn'
  <2> SUFFICES ASSUME NEW d \in Call, d # c, next[d] # None,
                      phase[d] \in {"retired", "unstarted"}
               PROVE  /\ phase'[next[d]] = "next"
                      /\ \A e \in Call : phase[e] \in {"retired", "unstarted"}
                                         /\ next[e] = next[d] => e = d
    BY <1>2, <1>6 DEF HandedOn
  <2>1. /\ next[d] \in Call
        /\ phase[next[d]] = "next"
        /\ \A e \in Call : phase[e] \in {"retired", "unstarted"}
                           /\ next[e] = next[d] => e = d
    BY DEF Agreement, HandedOn, TypeOK
  <2>2. next[d] # c /\ next[d] # next[c]
    BY <1>2, <2>1
  <2> QED BY <1>4, <2>1, <2>2
<1> QED BY <1>2, <1>6, <1>7, AgreementMove

(* admit queues a turn behind the reply of its chat.                       *)
LEMMA AgreementAdmitQueued ==
    ASSUME TypeOK, Agreement, NEW c \in Call, AdmitQueued(c)
    PROVE  Agreement'
<1> DEFINE s == threads[PlaceOf(c)]
<1> USE DEF Agreement, TypeOK
<1>1. PlaceOf(c) \in Place
  BY PlaceOfCall
<1>2. /\ s \in Session
      /\ s # None
      /\ s \notin Transfer
      /\ active[s] # None
      /\ PlaceOfSession(s) = PlaceOf(c)
  BY <1>1 DEF AdmitQueued, Takes, TransfersRefuse, OnePlace
<1>3. phase[c] = "none" /\ thread[c] = None
  BY DEF AdmitQueued, AdmittedOnce, Unpublished
<1>4. /\ thread' = [thread EXCEPT ![c] = s]
      /\ phase' = [phase EXCEPT ![c] = "queued"]
      /\ queue' = [queue EXCEPT ![s] = Append(queue[s], c)]
      /\ at' = [at EXCEPT ![c] = "following"]
      /\ UNCHANGED <<threads, deleted, active, next>>
  BY DEF AdmitQueued
<1> HIDE DEF s
<1>5. /\ Len(queue'[s]) = Len(queue[s]) + 1
      /\ queue'[s][Len(queue[s]) + 1] = c
      /\ \A i \in 1 .. Len(queue[s]) : queue'[s][i] = queue[s][i]
      /\ \A r \in Session : r # s => queue'[r] = queue[r]
  BY <1>2, <1>4
<1>6. \A r \in Session : \A i \in 1 .. Len(queue[r]) : queue[r][i] # c
  BY <1>3 DEF QueueWaits
<1>7. \A r \in Session : active[r] # c
  <2> SUFFICES ASSUME NEW r \in Session, active[r] = c PROVE FALSE
    OBVIOUS
  <2>1. active[r] # None
    BY CallAssumption
  <2>2. phase[c] \in Holding
    BY <2>1 DEF ActiveHolds
  <2> QED BY <1>3, <2>2 DEF Holding
<1>8. HolderIsActive' /\ Registered'
  BY <1>2, <1>3, <1>4 DEF HolderIsActive, Registered, Holding, Live, s
<1>9. ActiveHolds'
  BY <1>3, <1>4, <1>7 DEF ActiveHolds
<1>10. QueueWaits'
  <2> SUFFICES ASSUME NEW r \in Session, NEW i \in 1 .. Len(queue'[r])
               PROVE  /\ phase'[queue'[r][i]] = "queued"
                      /\ thread'[queue'[r][i]] = r
                      /\ \A j \in 1 .. Len(queue'[r]) :
                            queue'[r][i] = queue'[r][j] => i = j
    BY DEF QueueWaits
  <2>1. CASE r # s
    BY <1>4, <1>5, <1>6, <2>1 DEF QueueWaits
  <2>2. CASE r = s
    <3>1. Len(queue[s]) \in Nat
      BY <1>2
    <3> QED BY <1>4, <1>5, <1>6, <2>2, <3>1 DEF QueueWaits
  <2> QED BY <2>1, <2>2
<1>11. QueuedIsIn'
  <2> SUFFICES ASSUME NEW d \in Call, phase'[d] = "queued"
               PROVE  /\ thread'[d] # None
                      /\ \E i \in 1 .. Len(queue'[thread'[d]]) :
                            queue'[thread'[d]][i] = d
    BY DEF QueuedIsIn
  <2>1. CASE d = c
    <3>1. Len(queue[s]) + 1 \in 1 .. Len(queue'[s])
      BY <1>2, <1>5
    <3> QED BY <1>2, <1>4, <1>5, <2>1, <3>1
  <2>2. CASE d # c
    <3>1. phase[d] = "queued" /\ thread'[d] = thread[d]
      BY <1>4, <2>2
    <3>2. PICK i \in 1 .. Len(queue[thread[d]]) : queue[thread[d]][i] = d
      BY <3>1 DEF QueuedIsIn
    <3>3. thread[d] \in Session /\ thread[d] # None
      BY <3>1 DEF QueuedIsIn
    <3>4. CASE thread[d] = s
      <4>1. i \in 1 .. Len(queue'[s]) /\ queue'[s][i] = d
        BY <1>2, <1>5, <3>2, <3>4
      <4> QED BY <3>1, <3>3, <3>4, <4>1
    <3>5. CASE thread[d] # s
      BY <1>5, <3>1, <3>2, <3>3, <3>5, Zenon
    <3> QED BY <3>4, <3>5
  <2> QED BY <2>1, <2>2
<1>12. BehindReply'
  BY <1>2, <1>4, <1>5 DEF BehindReply
<1>13. OnePlace' /\ TransfersRefuse'
  BY <1>2, <1>4 DEF OnePlace, TransfersRefuse
<1>14. Unpublished' /\ AdmittedOnce'
  <2>1. \A d \in Call : phase[d] = "none" => d # s
    BY <1>1 DEF Unpublished, s
  <2> QED BY <1>3, <1>4, <1>5, <2>1, CallAssumption
             DEF Unpublished, AdmittedOnce, Session
<1>15. HandedOn'
  BY <1>3, <1>4 DEF HandedOn
<1> QED BY <1>8, <1>9, <1>10, <1>11, <1>12, <1>13, <1>14, <1>15

(* admit gives a turn the slot of a chat with no reply.                    *)
LEMMA AgreementAdmitActive ==
    ASSUME TypeOK, Agreement, NEW c \in Call, AdmitActive(c)
    PROVE  Agreement'
<1> DEFINE found == threads[PlaceOf(c)]
           s     == IF found = None THEN c ELSE found
<1> USE DEF Agreement, TypeOK
<1>1. PlaceOf(c) \in Place
  BY PlaceOfCall
<1>2. phase[c] = "none" /\ thread[c] = None
  BY DEF AdmitActive, AdmittedOnce, Unpublished
<1>3. /\ thread' = [thread EXCEPT ![c] = s]
      /\ threads' = [threads EXCEPT ![PlaceOf(c)] = s]
      /\ phase' = [phase EXCEPT ![c] = "launching"]
      /\ active' = [active EXCEPT ![s] = c]
      /\ at' = [at EXCEPT ![c] = "launch"]
      /\ UNCHANGED <<queue, deleted, next>>
  BY DEF AdmitActive
<1>4. /\ s \in Session
      /\ s # None
      /\ s \notin Transfer
      /\ active[s] = None
      /\ PlaceOfSession(s) = PlaceOf(c)
  <2>1. CASE found = None
    BY <1>2, <2>1, CallAssumption DEF Session, PlaceOfSession, Unpublished
  <2>2. CASE found # None
    BY <1>1, <2>2 DEF AdmitActive, Takes, TransfersRefuse, OnePlace
  <2> QED BY <2>1, <2>2
<1>5. found = None \/ found = s
  OBVIOUS
<1> HIDE DEF s, found
<1>6. queue[s] = <<>>
  BY <1>4 DEF BehindReply
<1>7. \A d \in Call : phase[d] \in Live => thread[d] # s /\ PlaceOf(d) # PlaceOf(c)
  <2> SUFFICES ASSUME NEW d \in Call, phase[d] \in Live
               PROVE  thread[d] # s /\ PlaceOf(d) # PlaceOf(c)
    OBVIOUS
  <2>1. thread[d] # s
    BY <1>4, <1>6, CallAssumption DEF HolderIsActive, QueuedIsIn, Live
  <2> QED BY <1>5, <2>1 DEF Registered, found
<1>8. \A r \in Session : active[r] # c
  <2> SUFFICES ASSUME NEW r \in Session, active[r] = c PROVE FALSE
    OBVIOUS
  <2>1. active[r] # None
    BY CallAssumption
  <2>2. phase[c] \in Holding
    BY <2>1 DEF ActiveHolds
  <2> QED BY <1>2, <2>2 DEF Holding
<1>9. HolderIsActive' /\ Registered'
  BY <1>1, <1>3, <1>4, <1>7 DEF HolderIsActive, Registered, Live
<1>10. ActiveHolds'
  BY <1>2, <1>3, <1>4, <1>8 DEF ActiveHolds, Holding
<1>11. QueueWaits'
  <2>1. \A r \in Session : \A i \in 1 .. Len(queue[r]) : queue[r][i] # c
    BY <1>2 DEF QueueWaits
  <2> QED BY <1>3, <2>1 DEF QueueWaits
<1>12. QueuedIsIn' /\ BehindReply'
  BY <1>2, <1>3, <1>4, <1>8 DEF QueuedIsIn, BehindReply
<1>13. OnePlace' /\ TransfersRefuse'
  BY <1>1, <1>3, <1>4 DEF OnePlace, TransfersRefuse
<1>14. Unpublished' /\ AdmittedOnce'
  <2>1. \A d \in Call : phase[d] = "none" /\ d # c => d # s
    BY <1>1 DEF Unpublished, s, found
  <2> QED BY <1>1, <1>2, <1>3, <1>4, <2>1, CallAssumption
             DEF Unpublished, AdmittedOnce, Session
<1>15. HandedOn'
  BY <1>2, <1>3 DEF HandedOn
<1> QED BY <1>9, <1>10, <1>11, <1>12, <1>13, <1>14, <1>15

(* advance, whether the chat goes on to its next turn or ends its queue.   *)
LEMMA AgreementAdvance ==
    ASSUME TypeOK, Agreement, NEW c \in Call, phase[c] \in {"failed", "ending"},
           NEW goOn \in BOOLEAN, NEW to \in {"retired", "unstarted"},
           Advance(c, goOn, to), at' = at
    PROVE  Agreement'
<1> DEFINE s    == thread[c]
           q    == queue[s]
           on   == goOn /\ ~deleted[s] /\ ~closing /\ q # <<>>
           turn == IF on THEN Head(q) ELSE None
           lost == IF on THEN {} ELSE Range(q)
<1> USE DEF Agreement, TypeOK
<1>1. s \in Session /\ s # None /\ active[s] = c /\ q \in Seq(Call)
  BY DEF HolderIsActive, Holding
<1>2. \A d \in Range(q) : d \in Call /\ phase[d] = "queued" /\ thread[d] = s
  BY <1>1, QueuedNotWorking
<1>3. turn # None => /\ turn \in Call
                     /\ phase[turn] = "queued"
                     /\ thread[turn] = s
  BY <1>1, <1>2, RangeElements
<1>4. None \notin Call
  BY CallAssumption
<1>5. /\ active' = [active EXCEPT ![s] = turn]
      /\ queue' = [queue EXCEPT ![s] = IF on THEN Tail(q) ELSE <<>>]
      /\ phase' = [d \in Call |-> CASE d = c -> to
                                    [] d = turn -> "next"
                                    [] d \in lost -> "dropped"
                                    [] OTHER -> phase[d]]
      /\ next' = [next EXCEPT ![c] = turn]
      /\ DropIdle({s})
      /\ UNCHANGED <<deleted, thread>>
  BY <1>1 DEF Advance
<1>6. \A e : e \in Range(q) <=> \E i \in 1 .. Len(q) : q[i] = e
  BY <1>1, RangeElements
<1>7. on => turn \in Call /\ turn = q[1] /\ q # <<>> /\ Len(q) \in Nat \ {0}
  BY <1>1
<1>8. on \in BOOLEAN /\ (~on => turn = None /\ lost = Range(q)) /\ (on => lost = {})
  OBVIOUS
<1> HIDE DEF s, q, on, turn, lost
<1>9. /\ phase'[c] = to
      /\ turn # None => phase'[turn] = "next"
      /\ \A d \in lost : phase'[d] = "dropped"
      /\ \A d \in Call : d \notin {c, turn} \cup lost => phase'[d] = phase[d]
      /\ c \notin lost /\ c # turn /\ turn \notin lost
  <2>1. c \notin Range(q) /\ c # turn
    BY <1>2, <1>3, <1>4
  <2>2. c \notin lost /\ turn \notin lost /\ \A d \in lost : d \in Call
    BY <1>2, <1>4, <1>8, <2>1
  <2> QED BY <1>3, <1>5, <2>1, <2>2
<1>10. /\ active'[s] = turn
       /\ \A r \in Session : r # s => active'[r] = active[r] /\ queue'[r] = queue[r]
       /\ on => queue'[s] = Tail(q)
       /\ ~on => queue'[s] = <<>>
  BY <1>1, <1>5, <1>8
<1>11. on => /\ Len(queue'[s]) = Len(q) - 1
             /\ \A i \in 1 .. Len(q) - 1 : queue'[s][i] = q[i + 1]
  <2> SUFFICES ASSUME on
               PROVE  /\ Len(queue'[s]) = Len(q) - 1
                      /\ \A i \in 1 .. Len(q) - 1 : queue'[s][i] = q[i + 1]
    OBVIOUS
  <2>1. q \in Seq(Call) /\ q # <<>>
    BY <1>1, <1>7
  <2>2. /\ Len(Tail(q)) = Len(q) - 1
        /\ \A i \in 1 .. Len(Tail(q)) : Tail(q)[i] = q[i + 1]
    BY <2>1
  <2> QED BY <1>10, <2>2, Zenon
<1>12. \A d \in Call : phase'[d] \in Live =>
         /\ d # c
         /\ d \notin lost
         /\ phase[d] \in Live
         /\ d # turn => phase'[d] = phase[d]
  <2>1. \A d \in Call : phase'[d] \in Live => d # c /\ d \notin lost
    BY <1>9 DEF Live, Holding
  <2> QED BY <1>3, <1>4, <1>9, <2>1 DEF Live, Holding
<1>13. \A d \in Call : phase'[d] \in Holding /\ d # turn => thread[d] # s
  BY <1>1, <1>12 DEF HolderIsActive, Live, Holding
<1>14. HolderIsActive'
  BY <1>1, <1>3, <1>5, <1>10, <1>12, <1>13, <1>4 DEF HolderIsActive, Live, Holding
<1>15. ActiveHolds'
  <2> SUFFICES ASSUME NEW r \in Session, active'[r] # None
               PROVE  phase'[active'[r]] \in Holding /\ thread'[active'[r]] = r
    BY DEF ActiveHolds
  <2>1. CASE r = s
    BY <1>3, <1>5, <1>9, <1>10, <2>1 DEF Holding
  <2>2. CASE r # s
    <3>1. /\ active'[r] = active[r]
          /\ active[r] \in Call
          /\ phase[active[r]] \in Holding
          /\ thread[active[r]] = r
      BY <1>10, <2>2 DEF ActiveHolds
    <3>2. active[r] \notin {c, turn} \cup lost
      BY <1>2, <1>3, <1>4, <1>8, <2>2, <3>1 DEF s, Holding
    <3> QED BY <1>5, <1>9, <3>1, <3>2
  <2> QED BY <2>1, <2>2
<1>16. QueueWaits'
  <2> SUFFICES ASSUME NEW r \in Session, NEW i \in 1 .. Len(queue'[r])
               PROVE  /\ phase'[queue'[r][i]] = "queued"
                      /\ thread'[queue'[r][i]] = r
                      /\ \A j \in 1 .. Len(queue'[r]) :
                            queue'[r][i] = queue'[r][j] => i = j
    BY DEF QueueWaits
  <2>1. CASE r # s
    <3>0. queue'[r] = queue[r] /\ queue[r] \in Seq(Call)
      BY <1>10, <2>1
    <3>1. /\ queue[r][i] \in Call
          /\ phase[queue[r][i]] = "queued"
          /\ thread[queue[r][i]] = r
          /\ \A j \in 1 .. Len(queue[r]) : queue[r][i] = queue[r][j] => i = j
      BY <3>0 DEF QueueWaits
    <3>2. queue[r][i] \notin {c, turn} \cup lost
      BY <1>2, <1>3, <1>4, <1>8, <2>1, <3>1 DEF s
    <3> QED BY <1>5, <1>9, <3>0, <3>1, <3>2
  <2>2. CASE r = s
    <3>0. on /\ i \in 1 .. Len(q) - 1
      <4>1. on
        <5>1. ~on => 1 .. Len(queue'[s]) = {}
          BY <1>10
        <5> QED BY <1>8, <2>2, <5>1, Zenon
      <4>2. Len(queue'[r]) = Len(q) - 1
        BY <1>11, <2>2, <4>1, Zenon
      <4> QED BY <4>1, <4>2, Zenon
    <3>1. on /\ i \in 1 .. Len(q) - 1 /\ i + 1 \in 1 .. Len(q) /\ i \in Int
      BY <1>7, <3>0, TailPlace, Zenon
    <3>2. /\ queue'[s][i] = q[i + 1]
          /\ q[i + 1] \in Call
          /\ phase[q[i + 1]] = "queued"
          /\ thread[q[i + 1]] = s
          /\ \A j \in 1 .. Len(q) : q[i + 1] = q[j] => i + 1 = j
      <4>1. queue'[s][i] = q[i + 1]
        BY <1>11, <3>1, Zenon
      <4>2. q[i + 1] \in Call
        BY <1>1, <3>1, PlaceHolds, Zenon DEF q
      <4>3. \A k \in 1 .. Len(q) :
              /\ phase[q[k]] = "queued"
              /\ thread[q[k]] = s
              /\ \A j \in 1 .. Len(q) : q[k] = q[j] => k = j
        BY <1>1, Zenon DEF QueueWaits, Agreement, q
      <4> QED BY <3>1, <4>1, <4>2, <4>3, Zenon
    <3>3. q[i + 1] # turn /\ q[i + 1] # c /\ lost = {}
      <4>1. q[i + 1] # turn
        BY <1>7, <1>8, <3>1, <3>2
      <4>2. q[i + 1] # c
        BY <1>7, <1>8, <3>1, <3>2
      <4>3. lost = {}
        BY <1>7, <1>8, <3>1, <3>2
      <4> QED BY <4>1, <4>2, <4>3
    <3>4. phase'[q[i + 1]] = "queued"
      BY <1>9, <3>2, <3>3
    <3>5. ASSUME NEW j \in 1 .. Len(queue'[s]), queue'[s][i] = queue'[s][j]
          PROVE  i = j
      <4>0. j \in 1 .. Len(q) - 1
        BY <1>11, <3>1, Zenon
      <4>1. /\ j \in Int
            /\ j + 1 \in 1 .. Len(q)
            /\ queue'[s][j] = q[j + 1]
        BY <1>7, <1>11, <3>1, <4>0, TailPlace, Zenon
      <4>2. i + 1 = j + 1
        BY <3>2, <3>5, <4>1, Zenon
      <4> QED BY SuccDistinct, <3>1, <4>1, <4>2, Zenon
    <3>6. thread'[q[i + 1]] = s
      BY <1>5, <3>2
    <3> HIDE DEF Agreement, TypeOK
    <3> QED BY <2>2, <3>2, <3>4, <3>5, <3>6
  <2> QED BY <2>1, <2>2
<1>17. QueuedIsIn'
  <2> SUFFICES ASSUME NEW d \in Call, phase'[d] = "queued"
               PROVE  /\ thread'[d] # None
                      /\ \E i \in 1 .. Len(queue'[thread'[d]]) :
                            queue'[thread'[d]][i] = d
    BY DEF QueuedIsIn
  <2>1. d # turn /\ d \notin lost /\ d # c /\ phase[d] = "queued"
    BY <1>4, <1>9, <1>12 DEF Live
  <2>2. thread[d] \in Session /\ thread[d] # None
    BY <2>1 DEF QueuedIsIn
  <2>3. PICK i \in 1 .. Len(queue[thread[d]]) : queue[thread[d]][i] = d
    BY <2>1 DEF QueuedIsIn
  <2>4. CASE thread[d] # s
    BY <1>5, <1>10, <2>2, <2>3, <2>4
  <2>5. CASE thread[d] = s
    <3>1. i \in 1 .. Len(q) /\ q[i] = d
      BY <2>3, <2>5 DEF q
    <3>2. on
      BY <1>6, <1>8, <2>1, <3>1
    <3>3. i # 1
      BY <1>7, <2>1, <3>1, <3>2
    <3>4. i - 1 \in 1 .. Len(q) - 1 /\ (i - 1) + 1 = i
      BY <1>7, <3>1, <3>2, <3>3, PlaceBefore, Zenon
    <3>5. queue'[s][i - 1] = d /\ i - 1 \in 1 .. Len(queue'[s])
      BY <1>11, <3>1, <3>2, <3>4
    <3> QED BY <1>5, <2>2, <2>5, <3>5
  <2> QED BY <2>4, <2>5
<1>18. BehindReply'
  BY <1>3, <1>4, <1>7, <1>10 DEF BehindReply
<1>19. Registered'
  <2> SUFFICES ASSUME NEW d \in Call, phase'[d] \in Live
               PROVE  thread'[d] # None /\ threads'[PlaceOf(d)] = thread'[d]
    BY DEF Registered
  <2>1. /\ thread'[d] = thread[d]
        /\ thread[d] # None
        /\ threads[PlaceOf(d)] = thread[d]
        /\ PlaceOf(d) \in Place
    BY <1>5, <1>12, PlaceOfCall DEF Registered
  <2>2. CASE thread[d] # s
    BY <1>5, <2>1, <2>2 DEF DropIdle
  <2>3. CASE thread[d] = s
    <3>1. on
      <4>1. CASE d = turn
        BY <1>4, <1>8, <4>1
      <4>2. CASE d # turn
        <5>1. phase[d] = "queued"
          BY <1>12, <1>13, <2>3, <4>2 DEF Live
        <5>2. PICK i \in 1 .. Len(queue[thread[d]]) : queue[thread[d]][i] = d
          BY <5>1 DEF QueuedIsIn
        <5>3. i \in 1 .. Len(q) /\ q[i] = d
          BY <2>3, <5>2, Zenon DEF q
        <5>4. d \in Range(q)
          BY <1>6, <5>3, Zenon
        <5> QED BY <1>8, <1>12, <5>4
      <4> QED BY <4>1, <4>2
    <3>2. ~ IdleAfter(s)
      BY <1>4, <1>7, <1>10, <3>1 DEF IdleAfter
    <3> QED BY <1>5, <2>1, <2>3, <3>2 DEF DropIdle
  <2> QED BY <2>2, <2>3
<1>20. \A k \in Place : threads'[k] = threads[k] \/ threads'[k] = None
  BY <1>5 DEF DropIdle
<1>21. OnePlace' /\ TransfersRefuse'
  BY <1>5, <1>20 DEF OnePlace, TransfersRefuse
<1>22. AdmittedOnce'
  <2>1. \A d \in Call : phase[d] = "none" => phase'[d] = "none"
    BY <1>2, <1>3, <1>4, <1>8, <1>9, Zenon
  <2> QED BY <2>1 DEF AdmittedOnce
<1>23. Unpublished'
  <2> SUFFICES ASSUME NEW d \in Call, phase'[d] = "none"
               PROVE  /\ thread'[d] = None
                      /\ active'[d] = None
                      /\ queue'[d] = <<>>
                      /\ \A k \in Place : threads'[k] # d
    BY DEF Unpublished
  <2>1. phase[d] = "none"
    BY <1>4, <1>9, Zenon
  <2>2. /\ thread[d] = None
        /\ active[d] = None
        /\ queue[d] = <<>>
        /\ \A k \in Place : threads[k] # d
    BY <2>1 DEF Unpublished
  <2>3. d # s /\ d # None /\ d \in Session
    BY <1>1, <1>4, <2>2 DEF Session
  <2> QED BY <1>5, <1>10, <1>20, <2>2, <2>3
<1>24. HandedOn'
  <2> DEFINE Out(d) == phase'[d] \in {"retired", "unstarted"} /\ next'[d] # None
  <2>1. ASSUME NEW d \in Call, d # c, Out(d)
        PROVE  /\ phase[d] \in {"retired", "unstarted"}
               /\ next[d] = next'[d]
               /\ next[d] # turn
               /\ next[d] \in Call
               /\ phase[next[d]] = "next"
               /\ phase'[next[d]] = "next"
    <3>1. d # turn /\ d \notin lost
      BY <1>4, <1>9, <2>1
    <3>2. /\ phase[d] \in {"retired", "unstarted"}
          /\ next[d] = next'[d]
          /\ next[d] # None
          /\ next[d] \in Call
          /\ phase[next[d]] = "next"
      BY <1>5, <1>9, <2>1, <3>1 DEF HandedOn
    <3>3. next[d] \notin {c, turn} \cup lost
      BY <1>2, <1>3, <1>4, <1>8, <3>2
    <3> QED BY <1>9, <3>2, <3>3
  <2>2. next'[c] = turn
    BY <1>5
  <2> SUFFICES ASSUME NEW d \in Call, Out(d)
               PROVE  /\ phase'[next'[d]] = "next"
                      /\ \A e \in Call : Out(e) /\ next'[e] = next'[d] => e = d
    BY DEF HandedOn
  <2>3. CASE d = c
    <3> HIDE DEF Agreement, TypeOK
    <3>1. phase'[next'[d]] = "next"
      BY <1>9, <2>2, <2>3
    <3>2. ASSUME NEW e \in Call, Out(e), next'[e] = next'[d] PROVE e = d
      <4>1. ASSUME e # c PROVE FALSE
        <5>1. next[e] = next'[e] /\ next[e] # turn
          BY <2>1, <3>2, <4>1
        <5> QED BY <2>2, <2>3, <3>2, <5>1
      <4> QED BY <2>3, <4>1
    <3> QED BY <3>1, <3>2
  <2>4. CASE d # c
    <3>1. phase'[next'[d]] = "next"
      BY <2>1, <2>4
    <3>2. ASSUME NEW e \in Call, Out(e), next'[e] = next'[d] PROVE e = d
      <4>1. e # c
        BY <2>1, <2>2, <2>4, <3>2
      <4>2. /\ phase[d] \in {"retired", "unstarted"}
            /\ phase[e] \in {"retired", "unstarted"}
            /\ next[d] # None
            /\ next[e] = next[d]
        BY <2>1, <2>4, <3>2, <4>1
      <4> QED BY <4>2 DEF HandedOn
    <3> QED BY <3>1, <3>2
  <2> QED BY <2>3, <2>4
<1> QED BY <1>14, <1>15, <1>16, <1>17, <1>18, <1>19, <1>21, <1>22, <1>23, <1>24

=============================================================================
