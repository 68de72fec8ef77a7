------------------------- MODULE LiveRunsInvariant --------------------------
(***************************************************************************)
(* The inductive invariant of LiveRuns, for every set of calls, transfers, *)
(* chats, nonces and keys.  OneReplyPerChat speaks of runs alone; it is    *)
(* preserved only because the registry's maps, the sessions and the runs   *)
(* agree, which is what the invariant says, one definition per agreement.  *)
(* Here are the facts about sequences it rests on, and that every step     *)
(* keeps the types and the count of the WaitGroup.                         *)
(***************************************************************************)
EXTENDS LiveRuns, FiniteSetTheorems, TLAPS

(* The phases of a run its session knows.                                  *)
Live == Holding \cup {"queued"}

(* A run that holds its chat is its session's Active.                      *)
HolderIsActive ==
    \A c \in Call : phase[c] \in Holding =>
        thread[c] # None /\ active[thread[c]] = c

ActiveHolds ==
    \A s \in Session : active[s] # None =>
        phase[active[s]] \in Holding /\ thread[active[s]] = s

(* A queue holds queued turns of its own session, each once.               *)
QueueWaits ==
    \A s \in Session : \A i \in 1 .. Len(queue[s]) :
        /\ phase[queue[s][i]] = "queued"
        /\ thread[queue[s][i]] = s
        /\ \A j \in 1 .. Len(queue[s]) : queue[s][i] = queue[s][j] => i = j

QueuedIsIn ==
    \A c \in Call : phase[c] = "queued" =>
        /\ thread[c] # None
        /\ \E i \in 1 .. Len(queue[thread[c]]) : queue[thread[c]][i] = c

(* Turns wait only behind a reply.                                         *)
BehindReply ==
    \A s \in Session : queue[s] # <<>> => active[s] # None

(* The session of a live run is the one its chat is found by.              *)
Registered ==
    \A c \in Call : phase[c] \in Live =>
        thread[c] # None /\ threads[PlaceOf(c)] = thread[c]

(* A session stands for one chat, and takes turns of that chat only.       *)
OnePlace ==
    /\ \A k \in Place : threads[k] # None => PlaceOfSession(threads[k]) = k
    /\ \A c \in Call : thread[c] # None => PlaceOfSession(thread[c]) = PlaceOf(c)

(* A run admit has not published is nobody's, nor is the session it may    *)
(* make.                                                                   *)
Unpublished ==
    \A c \in Call : phase[c] = "none" =>
        /\ thread[c] = None
        /\ active[c] = None
        /\ queue[c] = <<>>
        /\ \A k \in Place : threads[k] # c

AdmittedOnce ==
    \A c \in Call :
        at[c] \in {"idle", "accept", "wait", "admit", "unregister", "answer"}
            => phase[c] = "none"

(* The turn a retired run hands its chat to waits for it, and for it only. *)
HandedOn ==
    \A c \in Call : phase[c] \in {"retired", "unstarted"} /\ next[c] # None =>
        /\ phase[next[c]] = "next"
        /\ \A d \in Call : phase[d] \in {"retired", "unstarted"}
                           /\ next[d] = next[c] => d = c

(* A chat being moved takes no turn: its placeholder is born deleted.      *)
TransfersRefuse ==
    /\ \A t \in Transfer : deleted[t]
    /\ \A c \in Call : thread[c] \notin Transfer

(* The WaitGroup counts the runs that have something left to write.        *)
WorkingCount ==
    LET W == {c \in Call : phase[c] \in Working}
    IN  IsFiniteSet(W) /\ working = Cardinality(W)

Agreement ==
    /\ HolderIsActive
    /\ ActiveHolds
    /\ QueueWaits
    /\ QueuedIsIn
    /\ BehindReply
    /\ Registered
    /\ OnePlace
    /\ Unpublished
    /\ AdmittedOnce
    /\ HandedOn
    /\ TransfersRefuse

-----------------------------------------------------------------------------
(* Sequences.                                                              *)

(* What slices.Delete leaves of a queue.                                   *)
LEMMA DeleteAtElements ==
    ASSUME NEW S, NEW q \in Seq(S), NEW i \in 1 .. Len(q)
    PROVE  /\ DeleteAt(q, i) \in Seq(S)
           /\ Len(DeleteAt(q, i)) = Len(q) - 1
           /\ \A j \in 1 .. Len(q) - 1 :
                 DeleteAt(q, i)[j] = IF j < i THEN q[j] ELSE q[j + 1]
<1> DEFINE l == SubSeq(q, 1, i - 1)
           r == SubSeq(q, i + 1, Len(q))
<1>1. l \in Seq(S) /\ Len(l) = i - 1 /\ \A j \in 1 .. i - 1 : l[j] = q[j]
  OBVIOUS
<1>2. /\ r \in Seq(S)
      /\ Len(r) = Len(q) - i
      /\ \A j \in 1 .. Len(q) - i : r[j] = q[j + i]
  OBVIOUS
<1>3. DeleteAt(q, i) = l \o r
  BY DEF DeleteAt
<1> HIDE DEF l, r
<1>4. l \o r \in Seq(S) /\ Len(l \o r) = Len(q) - 1
  <2>1. l \in Seq(S) /\ r \in Seq(S)
    BY <1>1, <1>2
  <2>2. Len(l \o r) = Len(l) + Len(r)
    BY <2>1
  <2>3. Len(q) \in Nat /\ (i - 1) + (Len(q) - i) = Len(q) - 1
    OBVIOUS
  <2>4. l \o r \in Seq(S)
    BY <2>1
  <2> QED BY <1>1, <1>2, <2>2, <2>3, <2>4
<1>5. \A j \in 1 .. Len(q) - 1 : j < i => (l \o r)[j] = q[j]
  BY <1>1, <1>2
<1>6. ASSUME NEW j \in 1 .. Len(q) - 1, ~ (j < i)
      PROVE  (l \o r)[j] = q[j + 1]
  <2>1. (l \o r)[j] = r[j - (i - 1)]
    BY <1>1, <1>2, <1>6
  <2>2. r[j - (i - 1)] = q[j + 1]
    BY <1>2, <1>6
  <2> QED BY <2>1, <2>2
<1> QED BY <1>3, <1>4, <1>5, <1>6

(* What append([]*Run{r}, ...) makes.                                      *)
LEMMA PutFirstElements ==
    ASSUME NEW S, NEW q \in Seq(S), NEW e \in S
    PROVE  /\ PutFirst(e, q) \in Seq(S)
           /\ Len(PutFirst(e, q)) = Len(q) + 1
           /\ PutFirst(e, q)[1] = e
           /\ \A j \in 1 .. Len(q) : PutFirst(e, q)[j + 1] = q[j]
BY DEF PutFirst

(* The turns of a queue.                                                   *)
LEMMA RangeElements ==
    ASSUME NEW S, NEW q \in Seq(S)
    PROVE  /\ Range(q) \subseteq S
           /\ \A e : e \in Range(q) <=> \E i \in 1 .. Len(q) : q[i] = e
BY DEF Range

(* No turn is in a queue twice.                                            *)
Distinct(q) == \A i, j \in 1 .. Len(q) : q[i] = q[j] => i = j

(* A queue of distinct turns without one of them.                          *)
LEMMA DeleteAtDistinct ==
    ASSUME NEW S, NEW q \in Seq(S), NEW i \in 1 .. Len(q), Distinct(q)
    PROVE  /\ Distinct(DeleteAt(q, i))
           /\ Range(DeleteAt(q, i)) = Range(q) \ {q[i]}
<1> DEFINE p    == DeleteAt(q, i)
           k(j) == IF j < i THEN j ELSE j + 1
<1>1. /\ p \in Seq(S)
      /\ Len(p) = Len(q) - 1
      /\ \A j \in 1 .. Len(q) - 1 : p[j] = IF j < i THEN q[j] ELSE q[j + 1]
  BY DeleteAtElements
<1>2. Len(q) \in Nat
  OBVIOUS
<1> HIDE DEF p
<1>3. \A j \in 1 .. Len(p) : k(j) \in 1 .. Len(q) /\ k(j) # i /\ p[j] = q[k(j)]
  BY <1>1, <1>2
<1>4. \A j, l \in 1 .. Len(p) : k(j) = k(l) => j = l
  BY <1>1, <1>2
<1>5. Distinct(p)
  BY <1>3, <1>4 DEF Distinct
<1>6. ASSUME NEW e, e \in Range(p) PROVE e \in Range(q) \ {q[i]}
  <2>1. PICK j \in 1 .. Len(p) : p[j] = e
    BY <1>1, <1>6, RangeElements
  <2>2. q[k(j)] = e /\ k(j) \in 1 .. Len(q) /\ k(j) # i
    BY <1>3, <2>1
  <2>3. e # q[i]
    BY <2>2 DEF Distinct
  <2> QED BY <2>2, <2>3, RangeElements
<1>7. ASSUME NEW e, e \in Range(q) \ {q[i]} PROVE e \in Range(p)
  <2>1. PICK m \in 1 .. Len(q) : q[m] = e
    BY <1>7, RangeElements
  <2>2. m # i
    BY <1>7, <2>1
  <2>3. CASE m < i
    <3>1. m \in 1 .. Len(p) /\ p[m] = e
      BY <1>1, <1>2, <2>1, <2>3
    <3> QED BY <1>1, <3>1, RangeElements
  <2>4. CASE ~ (m < i)
    <3>1. m - 1 \in 1 .. Len(p) /\ ~ (m - 1 < i) /\ (m - 1) + 1 = m
      BY <1>1, <1>2, <2>1, <2>2, <2>4
    <3>2. p[m - 1] = e
      BY <1>1, <2>1, <3>1
    <3> QED BY <1>1, <3>1, <3>2, RangeElements
  <2> QED BY <2>3, <2>4
<1>8. Range(p) = Range(q) \ {q[i]}
  BY <1>6, <1>7
<1> QED BY <1>5, <1>8 DEF p

(* A queue of distinct turns with one of them moved first.                 *)
LEMMA MoveFirstDistinct ==
    ASSUME NEW S, NEW q \in Seq(S), NEW i \in 1 .. Len(q), Distinct(q)
    PROVE  /\ PutFirst(q[i], DeleteAt(q, i)) \in Seq(S)
           /\ Distinct(PutFirst(q[i], DeleteAt(q, i)))
           /\ Range(PutFirst(q[i], DeleteAt(q, i))) = Range(q)
<1> DEFINE p == DeleteAt(q, i)
           m == PutFirst(q[i], p)
<1>1. /\ p \in Seq(S)
      /\ Distinct(p)
      /\ Range(p) = Range(q) \ {q[i]}
  BY DeleteAtElements, DeleteAtDistinct
<1>2. q[i] \in S
  OBVIOUS
<1> HIDE DEF p
<1>3. /\ m \in Seq(S)
      /\ Len(m) = Len(p) + 1
      /\ m[1] = q[i]
      /\ \A j \in 1 .. Len(p) : m[j + 1] = p[j]
  <2> DEFINE x == q[i]
  <2>1. x \in S /\ p \in Seq(S)
    BY <1>1, <1>2
  <2> HIDE DEF x
  <2>2. /\ PutFirst(x, p) \in Seq(S)
        /\ Len(PutFirst(x, p)) = Len(p) + 1
        /\ PutFirst(x, p)[1] = x
        /\ \A j \in 1 .. Len(p) : PutFirst(x, p)[j + 1] = p[j]
    BY <2>1, PutFirstElements
  <2> QED BY <2>2 DEF x
<1> HIDE DEF m
<1>4. Len(p) \in Nat
  BY <1>1
<1>5. \A j \in 1 .. Len(p) : p[j] # q[i]
  BY <1>1, RangeElements
<1>6. Distinct(m)
  <2> SUFFICES ASSUME NEW j \in 1 .. Len(m), NEW l \in 1 .. Len(m), m[j] = m[l]
               PROVE  j = l
    BY DEF Distinct
  <2>1. j # 1 => j - 1 \in 1 .. Len(p) /\ m[j] = p[j - 1]
    <3>1. j # 1 => j - 1 \in 1 .. Len(p) /\ (j - 1) + 1 = j
      BY <1>3, <1>4
    <3> QED BY <1>3, <3>1
  <2>2. l # 1 => l - 1 \in 1 .. Len(p) /\ m[l] = p[l - 1]
    <3>1. l # 1 => l - 1 \in 1 .. Len(p) /\ (l - 1) + 1 = l
      BY <1>3, <1>4
    <3> QED BY <1>3, <3>1
  <2>3. CASE j = 1 \/ l = 1
    BY <1>3, <1>5, <2>1, <2>2, <2>3
  <2>4. CASE j # 1 /\ l # 1
    <3>1. j - 1 = l - 1
      BY <1>1, <2>1, <2>2, <2>4 DEF Distinct
    <3> QED BY <1>3, <1>4, <3>1
  <2> QED BY <2>3, <2>4
<1>7. Range(m) = Range(p) \cup {q[i]}
  <2>1. ASSUME NEW e, e \in Range(m) PROVE e \in Range(p) \cup {q[i]}
    <3>1. PICK j \in 1 .. Len(m) : m[j] = e
      BY <1>3, <2>1, RangeElements
    <3>2. CASE j = 1
      BY <1>3, <3>1, <3>2
    <3>3. CASE j # 1
      <4>1. j - 1 \in 1 .. Len(p) /\ (j - 1) + 1 = j
        BY <1>3, <1>4, <3>3
      <4>2. p[j - 1] = e
        BY <1>3, <3>1, <4>1
      <4> QED BY <1>1, <4>1, <4>2, RangeElements
    <3> QED BY <3>2, <3>3
  <2>2. ASSUME NEW e, e \in Range(p) \cup {q[i]} PROVE e \in Range(m)
    <3>1. CASE e = q[i]
      <4>1. 1 \in 1 .. Len(m)
        BY <1>3, <1>4
      <4> QED BY <1>3, <3>1, <4>1, RangeElements
    <3>2. CASE e \in Range(p)
      <4>1. PICK j \in 1 .. Len(p) : p[j] = e
        BY <1>1, <3>2, RangeElements
      <4>2. j + 1 \in 1 .. Len(m) /\ m[j + 1] = e
        BY <1>3, <1>4, <4>1
      <4> QED BY <1>3, <4>2, RangeElements
    <3> QED BY <2>2, <3>1, <3>2
  <2> QED BY <2>1, <2>2
<1>8. q[i] \in Range(q)
  BY RangeElements
<1>9. Range(m) = Range(q)
  BY <1>1, <1>7, <1>8
<1> QED BY <1>3, <1>6, <1>9 DEF m, p

-----------------------------------------------------------------------------
(* Type correctness.                                                       *)

(* Every turn has a place.                                                 *)
LEMMA PlaceOfCall ==
    ASSUME NEW c \in Call
    PROVE  PlaceOf(c) \in Place
BY CallAssumption DEF PlaceOf, Place

(* An empty registry has its types.                                        *)
LEMMA TypeInit == Init => TypeOK
<1> SUFFICES ASSUME Init PROVE TypeOK
  OBVIOUS
<1>1. queue \in [Session -> Seq(Call)]
  BY DEF Init
<1>2. deleted \in [Session -> BOOLEAN]
  BY DEF Init
<1>3. phase \in [Call -> Phase] /\ at \in [Call -> Step]
  BY DEF Init, Phase, Step
<1> QED BY <1>1, <1>2, <1>3 DEF Init, TypeOK

(* Retiring a run keeps the types.                                         *)
LEMMA TypeAdvance ==
    ASSUME TypeOK, NEW c \in Call, thread[c] # None, NEW goOn \in BOOLEAN,
           NEW to \in Phase, Advance(c, goOn, to)
    PROVE  /\ active' \in [Session -> Call \cup {None}]
           /\ queue' \in [Session -> Seq(Call)]
           /\ phase' \in [Call -> Phase]
           /\ next' \in [Call -> Call \cup {None}]
           /\ runs' \in SUBSET Call
           /\ requests' \in [Nonce -> Call \cup {None}]
           /\ finished' \in [Call -> Nat]
           /\ threads' \in [Place -> Session \cup {None}]
           /\ UNCHANGED <<deleted, thread, cancelled, yielded>>
<1>1. thread[c] \in Session /\ queue[thread[c]] \in Seq(Call)
  BY DEF TypeOK
<1>2. queue[thread[c]] # <<>> =>
        /\ Head(queue[thread[c]]) \in Call
        /\ Tail(queue[thread[c]]) \in Seq(Call)
  BY <1>1
<1>3. /\ active' \in [Session -> Call \cup {None}]
      /\ queue' \in [Session -> Seq(Call)]
      /\ next' \in [Call -> Call \cup {None}]
  BY <1>1, <1>2 DEF Advance, TypeOK
<1>4. phase' \in [Call -> Phase]
  BY DEF Advance, TypeOK, Phase, Holding
<1> QED
  BY <1>3, <1>4 DEF Advance, TypeOK, Forget, CloseFinished, DropIdle

(* Stopping sessions keeps the types.                                      *)
LEMMA TypeHalt ==
    ASSUME TypeOK, NEW S \in SUBSET Session, Halt(S)
    PROVE  /\ queue' \in [Session -> Seq(Call)]
           /\ phase' \in [Call -> Phase]
           /\ cancelled' \in SUBSET Call
           /\ runs' \in SUBSET Call
           /\ requests' \in [Nonce -> Call \cup {None}]
           /\ finished' \in [Call -> Nat]
           /\ UNCHANGED <<active, thread, yielded, stopped, next>>
<1>1. cancelled' \in SUBSET Call
  BY DEF Halt, Replies, TypeOK
<1>2. phase' \in [Call -> Phase]
  BY DEF Halt, TypeOK, Phase
<1>3. queue' \in [Session -> Seq(Call)]
  BY DEF Halt, Emptied, TypeOK
<1> QED
  BY <1>1, <1>2, <1>3 DEF Halt, TypeOK, Forget, CloseFinished

(* Every step keeps the types; retiring a run and stopping a session rely  *)
(* on the run having a session, and the WaitGroup on being counted up.     *)
LEMMA TypeNext ==
    ASSUME TypeOK, Agreement, WorkingCount, [Next]_vars
    PROVE  TypeOK'
<1> USE DEF registryVars, sessionVars, runVars, callVars, serviceVars
<1>1. ASSUME NEW c \in Call, AcceptStep(c) PROVE TypeOK'
  <2>1. CASE TurnAway(c)
    BY <2>1 DEF TurnAway, TypeOK, Step
  <2>2. CASE Register(c)
    BY <2>2, CallAssumption DEF Register, TypeOK, Step
  <2>3. CASE AwaitPrevious(c)
    BY <2>3, CallAssumption DEF AwaitPrevious, TypeOK, Step
  <2>4. CASE Rejoin(c)
    BY <2>4 DEF Rejoin, TypeOK, Step
  <2>5. CASE RefuseAdmission(c)
    BY <2>5 DEF RefuseAdmission, TypeOK, Step
  <2>6. CASE AdmitQueued(c)
    BY <2>6, PlaceOfCall DEF AdmitQueued, TypeOK, Step, Phase
  <2>7. CASE AdmitActive(c)
    BY <2>7, PlaceOfCall DEF AdmitActive, TypeOK, Step, Phase, Holding, Session
  <2>8. CASE Unregister(c)
    BY <2>8, CallAssumption DEF Unregister, TypeOK, Step
  <2>9. CASE AnswerRefused(c)
    BY <2>9 DEF AnswerRefused, TypeOK, Step
  <2>10. CASE AnswerStarted(c)
    BY <2>10 DEF AnswerStarted, TypeOK, Step
  <2> QED BY <1>1, <2>1, <2>2, <2>3, <2>4, <2>5, <2>6, <2>7, <2>8, <2>9, <2>10
             DEF AcceptStep
<1>2. ASSUME NEW c \in Call, RunStep(c) PROVE TypeOK'
  <2>1. CASE Start(c)
    BY <2>1 DEF Start, TypeOK, Phase, Holding
  <2>2. CASE FailToStart(c)
    BY <2>2 DEF FailToStart, TypeOK, Phase, Holding
  <2>3. CASE EndUnstarted(c)
    <3>1. thread[c] # None
      BY <2>3 DEF EndUnstarted, Agreement, HolderIsActive, Holding
    <3> QED BY <2>3, <3>1, TypeAdvance DEF EndUnstarted, TypeOK, Phase
  <2>4. CASE CloseUnstarted(c)
    BY <2>4 DEF CloseUnstarted, CloseFinished, RunNext, TypeOK, Phase, Holding
  <2>5. CASE BeginFinish(c)
    BY <2>5 DEF BeginFinish, TypeOK, Phase, Holding
  <2>6. CASE Retire(c)
    <3>1. thread[c] # None /\ GoesOn(c) \in BOOLEAN
      BY <2>6 DEF Retire, Agreement, HolderIsActive, Holding, GoesOn
    <3> QED BY <2>6, <3>1, TypeAdvance DEF Retire, TypeOK, Phase, Working
  <2>7. CASE HandOn(c)
    BY <2>7 DEF HandOn, RunNext, TypeOK, Phase, Holding, Working
  <2>8. CASE Done(c)
    <3> DEFINE W == {d \in Call : phase[d] \in Working}
    <3>1. c \in W /\ IsFiniteSet(W) /\ working = Cardinality(W)
      BY <2>8 DEF Done, WorkingCount, Working
    <3>2. working # 0
      BY <3>1, FS_EmptySet
    <3>3. working - 1 \in Nat
      BY <3>2 DEF TypeOK
    <3> QED BY <2>8, <3>3 DEF Done, CloseFinished, TypeOK, Phase
  <2> QED BY <1>2, <2>1, <2>2, <2>3, <2>4, <2>5, <2>6, <2>7, <2>8 DEF RunStep
<1>3. ASSUME NEW t \in Transfer, EndTransfer(t) PROVE TypeOK'
  BY <1>3 DEF EndTransfer, DropIdle, TypeOK
<1>4. ASSUME ClientStep PROVE TypeOK'
  <2>1. ASSUME NEW c \in Call, Arrive(c) PROVE TypeOK'
    BY <2>1 DEF Arrive, TypeOK, Step
  <2>2. ASSUME NEW c \in Call, Leave(c) PROVE TypeOK'
    BY <2>2 DEF Leave, TypeOK, Step
  <2>3. ASSUME NEW c \in Call, RemoveQueued(c) PROVE TypeOK'
    <3>1. thread[c] \in Session
      BY <2>3 DEF RemoveQueued, TypeOK
    <3>2. queue' \in [Session -> Seq(Call)]
      BY <2>3, <3>1, DeleteAtElements DEF RemoveQueued, TypeOK
    <3> QED BY <2>3, <3>2
               DEF RemoveQueued, Forget, CloseFinished, DropIdle, TypeOK, Phase
  <2>4. ASSUME NEW c \in Call, Cancel(c) PROVE TypeOK'
    BY <2>4 DEF Cancel, TypeOK
  <2>5. ASSUME NEW c \in Call, SendQueued(c) PROVE TypeOK'
    <3>1. thread[c] \in Session
      BY <2>5 DEF SendQueued, TypeOK
    <3>2. PICK i \in DOMAIN queue[thread[c]] :
            queue' = [queue EXCEPT ![thread[c]] = PutFirst(c, DeleteAt(@, i))]
      BY <2>5 DEF SendQueued
    <3>3. PutFirst(c, DeleteAt(queue[thread[c]], i)) \in Seq(Call)
      <4>1. queue[thread[c]] \in Seq(Call) /\ i \in 1 .. Len(queue[thread[c]])
        BY <3>1 DEF TypeOK
      <4>2. DeleteAt(queue[thread[c]], i) \in Seq(Call)
        BY <4>1, DeleteAtElements
      <4> QED BY <4>2, PutFirstElements
    <3>4. queue' \in [Session -> Seq(Call)]
      BY <3>2, <3>3 DEF TypeOK
    <3>5. active[thread[c]] \in Call
      BY <2>5, <3>1 DEF SendQueued, TypeOK, Agreement, BehindReply
    <3> QED BY <2>5, <3>4, <3>5 DEF SendQueued, TypeOK
  <2>6. ASSUME NEW c \in Call, Release(c) PROVE TypeOK'
    BY <2>6 DEF Release, TypeOK
  <2>7. ASSUME NEW k \in Chat, StopThread(k) PROVE TypeOK'
    <3>1. threads[k] \in Session
      BY <2>7 DEF StopThread, TypeOK, Place
    <3> QED BY <2>7, <3>1, TypeHalt DEF StopThread, StopSessions, DropIdle, TypeOK
  <2>8. ASSUME NEW K, StopDevice(K) PROVE TypeOK'
    <3> DEFINE S == {s \in Session : IsDevice(s) /\ \E k \in K : threads[k] = s}
    <3>1. Halt(S) /\ DropIdle(S) /\ deleted' \in [Session -> BOOLEAN]
      BY <2>8 DEF StopDevice, StopSessions, TypeOK
    <3> QED BY <2>8, <3>1, TypeHalt DEF StopDevice, DropIdle, TypeOK
  <2>9. ASSUME NEW t \in Transfer, BeginTransfer(t) PROVE TypeOK'
    BY <2>9, CallAssumption DEF BeginTransfer, TypeOK, Session, Place
  <2> QED BY <1>4, <2>1, <2>2, <2>3, <2>4, <2>5, <2>6, <2>7, <2>8, <2>9
             DEF ClientStep, StopDeviceThread, StopDeviceThreads
<1>5. ASSUME Stop PROVE TypeOK'
  <2>1. {threads[k] : k \in Place} \ {None} \in SUBSET Session
    BY DEF TypeOK
  <2> QED BY <1>5, <2>1, TypeHalt DEF Stop, TypeOK
<1>6. ASSUME Wait PROVE TypeOK'
  BY <1>6 DEF Wait, TypeOK
<1>7. CASE UNCHANGED vars
  BY <1>7 DEF vars, TypeOK
<1> QED BY <1>1, <1>2, <1>3, <1>4, <1>5, <1>6, <1>7 DEF Next

-----------------------------------------------------------------------------
(* The WaitGroup.                                                          *)

(* A step that starts and ends no goroutine leaves the count right.        *)
LEMMA CountFrame ==
    ASSUME WorkingCount, working' = working,
           \A d \in Call : phase'[d] \in Working <=> phase[d] \in Working
    PROVE  WorkingCount'
<1>1. {c \in Call : phase'[c] \in Working} = {c \in Call : phase[c] \in Working}
  OBVIOUS
<1> QED BY <1>1 DEF WorkingCount

(* No turn of a queue has started.                                         *)
LEMMA QueuedNotWorking ==
    ASSUME TypeOK, Agreement, NEW s \in Session, NEW d \in Range(queue[s])
    PROVE  d \in Call /\ phase[d] = "queued" /\ thread[d] = s
<1>1. queue[s] \in Seq(Call)
  BY DEF TypeOK
<1>2. PICK i \in 1 .. Len(queue[s]) : queue[s][i] = d
  BY <1>1, RangeElements
<1> QED BY <1>1, <1>2 DEF Agreement, QueueWaits

(* advance moves no run into or out of the runs the WaitGroup counts.      *)
LEMMA CountAdvance ==
    ASSUME TypeOK, Agreement, NEW c \in Call, phase[c] \in Holding,
           NEW goOn \in BOOLEAN, NEW to \in Phase, Advance(c, goOn, to),
           to \in Working <=> phase[c] \in Working
    PROVE  \A d \in Call : phase'[d] \in Working <=> phase[d] \in Working
<1>1. thread[c] \in Session
  BY DEF Agreement, HolderIsActive, TypeOK
<1> DEFINE q == queue[thread[c]]
<1>2. \A d \in Range(q) : phase[d] = "queued"
  BY <1>1, QueuedNotWorking
<1>3. q # <<>> => Head(q) \in Range(q)
  BY <1>1, RangeElements DEF TypeOK
<1> SUFFICES ASSUME NEW d \in Call
             PROVE  phase'[d] \in Working <=> phase[d] \in Working
  OBVIOUS
<1>4. None \notin Call
  BY CallAssumption
<1> QED BY <1>2, <1>3, <1>4 DEF Advance, Working

(* Nor does a stop, which ends queued turns only.                          *)
LEMMA CountHalt ==
    ASSUME TypeOK, Agreement, NEW S \in SUBSET Session, Halt(S)
    PROVE  \A d \in Call : phase'[d] \in Working <=> phase[d] \in Working
<1>1. \A s \in S : \A d \in Range(queue[s]) : phase[d] = "queued"
  BY QueuedNotWorking
<1> QED BY <1>1 DEF Halt, Working

(* A run handed the chat starts its launch, which counts it only later.    *)
LEMMA CountRunNext ==
    ASSUME TypeOK, Agreement, NEW c \in Call,
           phase[c] \in {"retired", "unstarted"}, NEW to, RunNext(c, to),
           to \in Working <=> phase[c] \in Working
    PROVE  \A d \in Call : phase'[d] \in Working <=> phase[d] \in Working
BY CallAssumption DEF RunNext, Agreement, HandedOn, Working

(* The WaitGroup is raised as a run starts and lowered as it is done, and  *)
(* otherwise neither it nor the runs it counts change.                     *)
LEMMA CountNext ==
    ASSUME TypeOK, Agreement, WorkingCount, [Next]_vars
    PROVE  WorkingCount'
<1> USE DEF registryVars, sessionVars, runVars, callVars, serviceVars
<1> DEFINE Same == /\ working' = working
                   /\ \A d \in Call : phase'[d] \in Working <=> phase[d] \in Working
<1>1. ASSUME NEW c \in Call, AcceptStep(c) PROVE Same
  <2>1. CASE AdmitQueued(c) \/ AdmitActive(c)
    <3>1. phase[c] = "none"
      BY <2>1 DEF AdmitQueued, AdmitActive, Agreement, AdmittedOnce
    <3> QED BY <2>1, <3>1 DEF AdmitQueued, AdmitActive, Working, TypeOK
  <2> QED BY <1>1, <2>1 DEF AcceptStep, TurnAway, Register, AwaitPrevious,
             Rejoin, RefuseAdmission, Unregister, AnswerRefused, AnswerStarted
<1>2. ASSUME NEW c \in Call, RunStep(c) PROVE WorkingCount'
  <2> DEFINE W == {d \in Call : phase[d] \in Working}
  <2>0. IsFiniteSet(W) /\ working = Cardinality(W)
    BY DEF WorkingCount
  <2>1. CASE Start(c)
    <3>1. c \notin W
      BY <2>1 DEF Start, Working
    <3>2. {d \in Call : phase'[d] \in Working} = W \cup {c}
      BY <2>1 DEF Start, Working, TypeOK
    <3>3. working' = working + 1
      BY <2>1 DEF Start
    <3> QED BY <2>0, <3>1, <3>2, <3>3, FS_AddElement DEF WorkingCount
  <2>2. CASE FailToStart(c) \/ BeginFinish(c)
    <3>1. Same
      BY <2>2 DEF FailToStart, BeginFinish, Working, TypeOK
    <3> QED BY <3>1, CountFrame
  <2>3. CASE EndUnstarted(c)
    <3>1. Same
      BY <2>3, CountAdvance DEF EndUnstarted, Holding, Working, Phase
    <3> QED BY <3>1, CountFrame
  <2>4. CASE CloseUnstarted(c)
    <3>1. Same
      BY <2>4, CountRunNext DEF CloseUnstarted, Working
    <3> QED BY <3>1, CountFrame
  <2>5. CASE Retire(c)
    <3>1. GoesOn(c) \in BOOLEAN
      BY DEF GoesOn
    <3>2. Same
      BY <2>5, <3>1, CountAdvance DEF Retire, Holding, Working, Phase
    <3> QED BY <3>2, CountFrame
  <2>6. CASE HandOn(c)
    <3>1. Same
      BY <2>6, CountRunNext DEF HandOn, Working
    <3> QED BY <3>1, CountFrame
  <2>7. CASE Done(c)
    <3>1. c \in W
      BY <2>7 DEF Done, Working
    <3>2. {d \in Call : phase'[d] \in Working} = W \ {c}
      BY <2>7 DEF Done, Working, TypeOK
    <3>3. working' = working - 1
      BY <2>7 DEF Done
    <3> QED BY <2>0, <3>1, <3>2, <3>3, FS_RemoveElement DEF WorkingCount
  <2> QED BY <1>2, <2>1, <2>2, <2>3, <2>4, <2>5, <2>6, <2>7 DEF RunStep
<1>3. ASSUME NEW t \in Transfer, EndTransfer(t) PROVE Same
  BY <1>3 DEF EndTransfer
<1>4. ASSUME ClientStep PROVE Same
  <2>1. ASSUME NEW c \in Call, RemoveQueued(c) PROVE Same
    <3>1. thread[c] \in Session /\ c \in Range(queue[thread[c]])
      BY <2>1, RangeElements DEF RemoveQueued, TypeOK
    <3>2. phase[c] = "queued"
      BY <3>1, QueuedNotWorking
    <3> QED BY <2>1, <3>2 DEF RemoveQueued, Working, TypeOK
  <2>2. ASSUME NEW c \in Call,
               Arrive(c) \/ Leave(c) \/ Cancel(c) \/ SendQueued(c) \/ Release(c)
        PROVE  Same
    BY <2>2 DEF Arrive, Leave, Cancel, SendQueued, Release
  <2>3. ASSUME NEW k \in Chat, StopThread(k) PROVE Same
    <3>1. threads[k] \in Session
      BY <2>3 DEF StopThread, TypeOK, Place
    <3> QED BY <2>3, <3>1, CountHalt DEF StopThread, StopSessions
  <2>4. ASSUME NEW K, StopDevice(K) PROVE Same
    <3> DEFINE S == {s \in Session : IsDevice(s) /\ \E k \in K : threads[k] = s}
    <3>1. Halt(S) /\ working' = working
      BY <2>4 DEF StopDevice, StopSessions
    <3> QED BY <3>1, CountHalt
  <2>5. ASSUME NEW t \in Transfer, BeginTransfer(t) PROVE Same
    BY <2>5 DEF BeginTransfer
  <2> QED BY <1>4, <2>1, <2>2, <2>3, <2>4, <2>5
             DEF ClientStep, StopDeviceThread, StopDeviceThreads
<1>5. ASSUME Stop PROVE Same
  <2>1. {threads[k] : k \in Place} \ {None} \in SUBSET Session
    BY DEF TypeOK
  <2> QED BY <1>5, <2>1, CountHalt DEF Stop
<1>6. CASE Wait \/ UNCHANGED vars
  BY <1>6, CountFrame DEF Wait, vars
<1> QED BY <1>1, <1>2, <1>3, <1>4, <1>5, <1>6, CountFrame DEF Next

=============================================================================
