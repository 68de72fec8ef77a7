------------------------------ MODULE LiveRuns ------------------------------
(***************************************************************************)
(* The registry of live runs of the chat engine (internal/engine): each    *)
(* chat's running reply, the turns queued behind it, the client requests   *)
(* that started them and the logs kept for device chats.                   *)
(*                                                                         *)
(* Every critical section of liveRuns.mu is one atomic step; everything    *)
(* the code does between two critical sections (reads, writes, model       *)
(* calls) lets every other goroutine run.  What such I/O answers is chosen *)
(* nondeterministically; module StoredChat says what it does to the row.   *)
(*                                                                         *)
(* A Run object is named by the AcceptTurn call that made it, since a call *)
(* makes at most one, and a threadSession by the call or the transfer that *)
(* made it.  All calls are one owner's: keys of the maps carry the owner,  *)
(* so owners never meet.                                                   *)
(***************************************************************************)
EXTENDS Naturals, FiniteSets, Sequences, Functions

CONSTANTS
    Call,           \* invocations of AcceptTurn
    Transfer,       \* invocations of FinishTransfer
    Chat,           \* chat ids clients name
    Nonce,          \* client request ids
    Key,            \* content keys
    Turn,           \* the request each call carries
    ChatOf,         \* the chat each transfer removes
    MaxQueuedTurns, \* turns a chat holds behind its running reply
    None            \* the nil pointer

Session == Call \cup Transfer

(* An ask runs in a chat of its own, under a fresh id: the call's.         *)
Place == Chat \cup Call

ASSUME CallAssumption ==
    /\ None \notin Call \cup Transfer
    /\ Call \cap Transfer = {}
    /\ Call \cap Chat = {}
    /\ Turn \in [Call -> [nonce : Nonce, chat : Chat, key : Key,
                          kind : {"send", "compact", "ask"},
                          device : BOOLEAN, seeded : BOOLEAN]]
    /\ ChatOf \in [Transfer -> Chat]
    /\ MaxQueuedTurns \in Nat \ {0}

VARIABLES
    closing,   \* liveRuns.closing
    threads,   \* liveRuns.threads: the session of each chat, or None
    runs,      \* liveRuns.runs: the runs found by their own id
    requests,  \* liveRuns.requests: the run of each client request, or None
    held,      \* liveRuns.held: the ended runs whose logs are kept
    working,   \* liveRuns.working: runs started and not done
    waited,    \* Wait has answered that every started run is done
    deleted,   \* threadSession.deleted
    active,    \* threadSession.Active
    queue,     \* threadSession.Queue
    thread,    \* Run.Thread
    phase,     \* where each run is between admission and its end
    cancelled, \* the runs with Run.cancelled
    yielded,   \* the runs with Run.yielded
    stopped,   \* finishRun's copy of Run.cancelled, read as the run ended
    next,      \* the turn a retired run hands its chat to
    finished,  \* how often Run.Finished was closed
    at,        \* where each AcceptTurn call is
    previous,  \* AcceptTurn's previous
    low,       \* AcceptTurn's reading of the memory left, taken on arrival
    accepted,  \* the runs whose accepted channel is closed
    refused,   \* the runs with Run.refused
    transfer,  \* where each FinishTransfer is
    doomed     \* history: runs of device chats deleted since they were admitted

registryVars == <<threads, runs, requests>>
sessionVars  == <<deleted, active, queue>>
runVars      == <<thread, phase, cancelled, yielded, stopped, next, finished>>
callVars     == <<at, previous, low, accepted, refused>>
serviceVars  == <<closing, waited, working, held, transfer, doomed>>
vars == <<registryVars, sessionVars, runVars, callVars, serviceVars>>

-----------------------------------------------------------------------------

(* The phases of a run that holds its chat's running slot: handed the      *)
(* chat, in launch, refused by launch, streaming, and in finishRun.        *)
Holding == {"next", "launching", "failed", "running", "ending"}

(* The phases of a run whose goroutine has started and is not done.        *)
Working == {"running", "ending", "retired", "closed"}

Phase == Holding \cup Working
           \cup {"none", "queued", "dropped", "unstarted", "void", "over"}

Step == {"idle", "accept", "wait", "admit", "unregister", "answer",
         "launch", "refused", "following"}

PlaceOf(c) == IF Turn[c].kind = "ask" THEN c ELSE Turn[c].chat

PlaceOfSession(s) == IF s \in Call THEN PlaceOf(s) ELSE ChatOf[s]

(* The run holds the row of a device chat and of an ask.                   *)
HoldsRow(c) == Turn[c].device \/ Turn[c].kind = "ask"

(* A request's digest covers everything but the key.                       *)
Digest(c) == [chat |-> Turn[c].chat, kind |-> Turn[c].kind,
              device |-> Turn[c].device, seeded |-> Turn[c].seeded]

(* Every variable keeps its type; working, a WaitGroup whose counter       *)
(* panics below zero, stays a natural number.                              *)
TypeOK ==
    /\ closing \in BOOLEAN
    /\ threads \in [Place -> Session \cup {None}]
    /\ runs \in SUBSET Call
    /\ requests \in [Nonce -> Call \cup {None}]
    /\ held \in SUBSET Call
    /\ working \in Nat
    /\ waited \in BOOLEAN
    /\ deleted \in [Session -> BOOLEAN]
    /\ active \in [Session -> Call \cup {None}]
    /\ queue \in [Session -> Seq(Call)]
    /\ thread \in [Call -> Session \cup {None}]
    /\ phase \in [Call -> Phase]
    /\ cancelled \in SUBSET Call
    /\ yielded \in SUBSET Call
    /\ stopped \in SUBSET Call
    /\ next \in [Call -> Call \cup {None}]
    /\ finished \in [Call -> Nat]
    /\ at \in [Call -> Step]
    /\ previous \in [Call -> Call \cup {None}]
    /\ low \in [Call -> BOOLEAN]
    /\ accepted \in SUBSET Call
    /\ refused \in SUBSET Call
    /\ transfer \in [Transfer -> {"idle", "removing", "done"}]
    /\ doomed \in SUBSET Call

Init ==
    /\ closing = FALSE
    /\ threads = [k \in Place |-> None]
    /\ runs = {}
    /\ requests = [n \in Nonce |-> None]
    /\ held = {}
    /\ working = 0
    /\ waited = FALSE
    /\ deleted = [s \in Session |-> s \in Transfer]
    /\ active = [s \in Session |-> None]
    /\ queue = [s \in Session |-> <<>>]
    /\ thread = [c \in Call |-> None]
    /\ phase = [c \in Call |-> "none"]
    /\ cancelled = {}
    /\ yielded = {}
    /\ stopped = {}
    /\ next = [c \in Call |-> None]
    /\ finished = [c \in Call |-> 0]
    /\ at = [c \in Call |-> "idle"]
    /\ previous = [c \in Call |-> None]
    /\ low = [c \in Call |-> FALSE]
    /\ accepted = {}
    /\ refused = {}
    /\ transfer = [t \in Transfer |-> "idle"]
    /\ doomed = {}

-----------------------------------------------------------------------------
(* What the critical sections share.                                       *)

(* Mutants, named after the definition they break, are plausible mistakes  *)
(* in that code; the runs check that each is caught.                       *)

(* liveRuns.forget, for every run of S.                                    *)
Forget(S) ==
    /\ runs' = runs \ S
    /\ requests' = [n \in Nonce |->
                      IF requests[n] \in S THEN None ELSE requests[n]]

(* close(r.Finished), for every run of S.                                  *)
CloseFinished(S) ==
    finished' = [c \in Call |-> finished[c] + IF c \in S THEN 1 ELSE 0]

(* A chat with nothing running or queued, once this step is taken.         *)
IdleAfter(s) == active'[s] = None /\ queue'[s] = <<>>

(* dropIdle, for every session of S.                                       *)
DropIdle(S) ==
    threads' = [k \in Place |->
                  IF threads[k] \in S /\ IdleAfter(threads[k])
                  THEN None ELSE threads[k]]

(* advance: retire c from its chat and hand the chat to the head of its    *)
(* queue, or end every turn queued.                                        *)
Advance(c, goOn, to) ==
    LET s    == thread[c]
        on   == goOn /\ ~deleted[s] /\ ~closing /\ queue[s] # <<>>
        lost == IF on THEN {} ELSE Range(queue[s])
        turn == IF on THEN Head(queue[s]) ELSE None
    IN  /\ active' = [active EXCEPT ![s] = IF on THEN turn
                                           ELSE IF @ = c THEN None ELSE @]
        /\ queue' = [queue EXCEPT ![s] = IF on THEN Tail(@) ELSE <<>>]
        /\ phase' = [d \in Call |-> CASE d = c      -> to
                                      [] d = turn   -> "next"
                                      [] d \in lost -> "dropped"
                                      [] OTHER      -> phase[d]]
        /\ next' = [next EXCEPT ![c] = turn]
        /\ Forget({c} \cup lost)
        /\ CloseFinished(lost)
        /\ DropIdle({s})
        /\ UNCHANGED <<deleted, thread, cancelled, yielded>>

RunNextNotLaunched(c, to) == phase' = [phase EXCEPT ![c] = to]

(* The turn c was handed on to starts: go runQueue(next).                  *)
RunNext(c, to) ==
    phase' = [d \in Call |-> CASE d = c       -> to
                               [] d = next[c] -> "launching"
                               [] OTHER       -> phase[d]]

RepliesWithQueue(S) == {active[s] : s \in {r \in S : queue[r] # <<>>}}

(* The running replies of the sessions S, which a stop cancels.            *)
Replies(S) == {active[s] : s \in S} \ {None}

EmptiedNothing(S) == queue

(* The queues once a stop has ended the turns of the sessions S.           *)
Emptied(S) == [s \in Session |-> IF s \in S THEN <<>> ELSE queue[s]]

(* Cancel the running replies of the sessions S and end their queues.      *)
Halt(S) ==
    LET lost == UNION {Range(queue[s]) : s \in S}
    IN  /\ cancelled' = cancelled \cup Replies(S)
        /\ queue' = Emptied(S)
        /\ phase' = [c \in Call |-> IF c \in lost THEN "dropped" ELSE phase[c]]
        /\ Forget(lost)
        /\ CloseFinished(lost)
        /\ UNCHANGED <<active, thread, yielded, stopped, next>>

-----------------------------------------------------------------------------
(* AcceptTurn: a request finds the run an earlier one started, or becomes  *)
(* a run.                                                                  *)

(* The memory left is read once, before the loop.                          *)
Arrive(c) ==
    /\ at[c] = "idle"
    /\ at' = [at EXCEPT ![c] = "accept"]
    /\ \E l \in BOOLEAN : low' = [low EXCEPT ![c] = l]
    /\ UNCHANGED <<registryVars, sessionVars, runVars, previous, accepted,
                   refused, serviceVars>>

(* The service is stopping, has no memory for a new run, or the nonce was  *)
(* used for another request.                                               *)
TurnAway(c) ==
    LET found == requests[Turn[c].nonce]
    IN  /\ at[c] = "accept"
        /\ \/ closing
           \/ found = None /\ low[c]
           \/ found # None /\ Digest(found) # Digest(c)
        /\ at' = [at EXCEPT ![c] = "refused"]
        /\ UNCHANGED <<registryVars, sessionVars, runVars, previous, low,
                       accepted, refused, serviceVars>>

Register(c) ==
    /\ at[c] = "accept"
    /\ ~closing
    /\ ~low[c]
    /\ requests[Turn[c].nonce] = None
    /\ requests' = [requests EXCEPT ![Turn[c].nonce] = c]
    /\ at' = [at EXCEPT ![c] = "admit"]
    /\ UNCHANGED <<threads, runs, sessionVars, runVars, previous, low,
                   accepted, refused, serviceVars>>

AwaitPrevious(c) ==
    LET found == requests[Turn[c].nonce]
    IN  /\ at[c] = "accept"
        /\ ~closing
        /\ found # None
        /\ Digest(found) = Digest(c)
        /\ previous' = [previous EXCEPT ![c] = found]
        /\ at' = [at EXCEPT ![c] = "wait"]
        /\ UNCHANGED <<registryVars, sessionVars, runVars, low, accepted,
                       refused, serviceVars>>

(* The caller leaves before the run it retried is accepted.                *)
Leave(c) ==
    /\ at[c] = "wait"
    /\ previous[c] \notin accepted
    /\ at' = [at EXCEPT ![c] = "refused"]
    /\ UNCHANGED <<registryVars, sessionVars, runVars, previous, low,
                   accepted, refused, serviceVars>>

(* The run it retried is accepted: it is followed while it is live, and    *)
(* one refused or ended meanwhile is checked again as a new request is.    *)
Rejoin(c) ==
    LET p == previous[c]
        other == ~Turn[thread[p]].device /\ Turn[thread[p]].key # Turn[c].key
    IN  /\ at[c] = "wait"
        /\ p \in accepted
        /\ at' = [at EXCEPT ![c] =
                    CASE p \in refused                -> "accept"
                      [] p \notin refused /\ other    -> "refused"
                      [] p \notin refused /\ ~other
                           /\ requests[Turn[c].nonce] = p -> "following"
                      [] OTHER                        -> "accept"]
        /\ UNCHANGED <<registryVars, sessionVars, runVars, previous, low,
                       accepted, refused, serviceVars>>

-----------------------------------------------------------------------------
(* admit: a turn joins its chat.                                           *)

(* The session of a chat takes a turn that holds its row as it does and    *)
(* carries its key.                                                        *)
Takes(s, c) ==
    /\ ~deleted[s]
    /\ HoldsRow(s) = HoldsRow(c)
    /\ Turn[s].device \/ Turn[s].key = Turn[c].key

QueueFullOffByOne(s) == Len(queue[s]) > MaxQueuedTurns

QueueFull(s) == Len(queue[s]) >= MaxQueuedTurns

(* A spent quota, an unreadable chat, a refused grant, a transcript that   *)
(* already holds the turn, or any guard of the two admissions below.       *)
RefuseAdmission(c) ==
    /\ at[c] = "admit"
    /\ at' = [at EXCEPT ![c] = "unregister"]
    /\ UNCHANGED <<registryVars, sessionVars, runVars, previous, low,
                   accepted, refused, serviceVars>>

(* A turn behind a running reply is accepted as it is queued.              *)
AdmitQueued(c) ==
    LET s == threads[PlaceOf(c)]
    IN  /\ at[c] = "admit"
        /\ ~closing
        /\ s # None
        /\ Takes(s, c)
        /\ active[s] # None
        /\ Turn[c].kind # "compact"
        /\ ~QueueFull(s)
        /\ thread' = [thread EXCEPT ![c] = s]
        /\ runs' = runs \cup {c}
        /\ queue' = [queue EXCEPT ![s] = Append(@, c)]
        /\ phase' = [phase EXCEPT ![c] = "queued"]
        /\ accepted' = accepted \cup {c}
        /\ at' = [at EXCEPT ![c] = "following"]
        /\ UNCHANGED <<threads, requests, deleted, active, cancelled, yielded,
                       stopped, next, finished, previous, low, refused,
                       serviceVars>>

AdmitActiveBeside(c) ==
    LET s == IF threads[PlaceOf(c)] = None THEN c ELSE threads[PlaceOf(c)]
    IN  /\ at[c] = "admit"
        /\ ~closing
        /\ s # c => Takes(s, c)
        /\ threads' = [threads EXCEPT ![PlaceOf(c)] = s]
        /\ thread' = [thread EXCEPT ![c] = s]
        /\ runs' = runs \cup {c}
        /\ active' = [active EXCEPT ![s] = c]
        /\ phase' = [phase EXCEPT ![c] = "launching"]
        /\ at' = [at EXCEPT ![c] = "launch"]
        /\ UNCHANGED <<requests, deleted, queue, cancelled, yielded, stopped,
                       next, finished, previous, low, accepted, refused,
                       serviceVars>>

(* A turn of a chat with no running reply takes its slot.  An idle device  *)
(* chat needs the transcript its client sends.                             *)
AdmitActive(c) ==
    LET found == threads[PlaceOf(c)]
        s     == IF found = None THEN c ELSE found
    IN  /\ at[c] = "admit"
        /\ ~closing
        /\ found # None => Takes(found, c) /\ active[found] = None
        /\ Turn[c].device /\ Turn[c].kind # "ask" => Turn[c].seeded
        /\ threads' = [threads EXCEPT ![PlaceOf(c)] = s]
        /\ thread' = [thread EXCEPT ![c] = s]
        /\ runs' = runs \cup {c}
        /\ active' = [active EXCEPT ![s] = c]
        /\ phase' = [phase EXCEPT ![c] = "launching"]
        /\ at' = [at EXCEPT ![c] = "launch"]
        /\ UNCHANGED <<requests, deleted, queue, cancelled, yielded, stopped,
                       next, finished, previous, low, accepted, refused,
                       serviceVars>>

(* AcceptTurn undoes the registration of a turn admit refused.             *)
Unregister(c) ==
    /\ at[c] = "unregister"
    /\ requests' = [requests EXCEPT ![Turn[c].nonce] =
                      IF @ = c THEN None ELSE @]
    /\ at' = [at EXCEPT ![c] = "answer"]
    /\ UNCHANGED <<threads, runs, sessionVars, runVars, previous, low,
                   accepted, refused, serviceVars>>

(* r.refused = err; close(r.accepted), after admit or launch refused it.   *)
AnswerRefused(c) ==
    /\ \/ at[c] = "answer"
       \/ at[c] = "launch" /\ phase[c] = "void"
    /\ refused' = refused \cup {c}
    /\ accepted' = accepted \cup {c}
    /\ at' = [at EXCEPT ![c] = "refused"]
    /\ UNCHANGED <<registryVars, sessionVars, runVars, previous, low,
                   serviceVars>>

(* close(r.accepted), after launch started it.                             *)
AnswerStarted(c) ==
    /\ at[c] = "launch"
    /\ phase[c] \in Working \cup {"over"}
    /\ accepted' = accepted \cup {c}
    /\ at' = [at EXCEPT ![c] = "following"]
    /\ UNCHANGED <<registryVars, sessionVars, runVars, previous, low, refused,
                   serviceVars>>

-----------------------------------------------------------------------------
(* launch, runQueue and endUnstarted: a turn starts or fails to.           *)

MayStartWhileClosing(c) == ~deleted[thread[c]]

(* Launch commits the turn with no lock held, and is refused at its end.   *)
MayStart(c) == ~deleted[thread[c]] /\ ~closing

Start(c) ==
    /\ phase[c] = "launching"
    /\ MayStart(c)
    /\ phase' = [phase EXCEPT ![c] = "running"]
    /\ working' = working + 1
    /\ UNCHANGED <<registryVars, sessionVars, thread, cancelled, yielded,
                   stopped, next, finished, callVars, closing, waited, held,
                   transfer, doomed>>

(* The chat is flagged, cannot be read or saved, already holds the turn,   *)
(* is being deleted, or the service is stopping.                           *)
FailToStart(c) ==
    /\ phase[c] = "launching"
    /\ phase' = [phase EXCEPT ![c] = "failed"]
    /\ UNCHANGED <<registryVars, sessionVars, thread, cancelled, yielded,
                   stopped, next, finished, callVars, serviceVars>>

EndUnstarted(c) ==
    /\ phase[c] = "failed"
    /\ Advance(c, TRUE, "unstarted")
    /\ UNCHANGED <<stopped, callVars, serviceVars>>

CloseUnstarted(c) ==
    /\ phase[c] = "unstarted"
    /\ CloseFinished({c})
    /\ RunNext(c, "void")
    /\ UNCHANGED <<registryVars, sessionVars, thread, cancelled, yielded,
                   stopped, next, callVars, serviceVars>>

-----------------------------------------------------------------------------
(* finishRun.                                                              *)

(* The reply ended, failed or was interrupted; from here it is too late to *)
(* cancel it, and cancelled is read.                                       *)
BeginFinish(c) ==
    /\ phase[c] = "running"
    /\ phase' = [phase EXCEPT ![c] = "ending"]
    /\ stopped' = IF c \in cancelled THEN stopped \cup {c} ELSE stopped
    /\ UNCHANGED <<registryVars, sessionVars, thread, cancelled, yielded, next,
                   finished, callVars, serviceVars>>

GoesOnUnlessStopped(c) == c \notin stopped

(* A stopped reply ends its chat's queue unless it was stopped for it.     *)
GoesOn(c) == c \notin stopped \/ c \in yielded

KeepsLogOfDeleted(c) == Turn[c].device /\ Turn[c].kind # "ask"

(* The log of a device chat's run is kept unless the chat was deleted.     *)
KeepsLog(c) ==
    /\ Turn[c].device
    /\ Turn[c].kind # "ask"
    /\ ~deleted[thread[c]]

(* The reply is committed (StoredChat) and the chat handed on.             *)
Retire(c) ==
    /\ phase[c] = "ending"
    /\ Advance(c, GoesOn(c), "retired")
    /\ held' = IF KeepsLog(c) THEN held \cup {c} ELSE held
    /\ UNCHANGED <<stopped, callVars, closing, waited, working, transfer,
                   doomed>>

(* The last frame is written, the log closed and the next turn launched.   *)
HandOn(c) ==
    /\ phase[c] = "retired"
    /\ RunNext(c, "closed")
    /\ UNCHANGED <<registryVars, sessionVars, thread, cancelled, yielded,
                   stopped, next, finished, callVars, serviceVars>>

(* The reply is screened, and finishRun returns.                           *)
Done(c) ==
    /\ phase[c] = "closed"
    /\ phase' = [phase EXCEPT ![c] = "over"]
    /\ CloseFinished({c})
    /\ working' = working - 1
    /\ UNCHANGED <<registryVars, sessionVars, thread, cancelled, yielded,
                   stopped, next, callVars, closing, waited, held, transfer,
                   doomed>>

-----------------------------------------------------------------------------
(* What a client asks of a run: CancelThread, SendQueued, RemoveQueued.    *)
(* authorizedRun finds the run under an earlier lock than the one the      *)
(* operation takes, so the run may have moved on meanwhile: an operation   *)
(* knows only that its run was admitted.                                   *)

(* slices.Delete of one turn, and append([]*Run{r}, ...) of the others.    *)
DeleteAt(q, i) == SubSeq(q, 1, i - 1) \o SubSeq(q, i + 1, Len(q))

PutFirst(c, q) == <<c>> \o q

(* RemoveQueued, and CancelThread of a turn still queued.                  *)
RemoveQueued(c) ==
    LET s == thread[c]
    IN  /\ s # None
        /\ \E i \in DOMAIN queue[s] :
              /\ queue[s][i] = c
              /\ queue' = [queue EXCEPT ![s] = DeleteAt(@, i)]
        /\ cancelled' = cancelled \cup {c}
        /\ phase' = [phase EXCEPT ![c] = "dropped"]
        /\ Forget({c})
        /\ CloseFinished({c})
        /\ active' = active
        /\ DropIdle({s})
        /\ UNCHANGED <<deleted, thread, yielded, stopped, next, callVars,
                       serviceVars>>

(* CancelThread of the reply that holds its chat.                          *)
Cancel(c) ==
    /\ thread[c] # None
    /\ active[thread[c]] = c
    /\ phase[c] # "ending"
    /\ cancelled' = cancelled \cup {c}
    /\ UNCHANGED <<registryVars, sessionVars, thread, phase, yielded, stopped,
                   next, finished, callVars, serviceVars>>

(* The turn moves first and the running reply is stopped for it; one       *)
(* already finishing still hands the chat on.                              *)
SendQueued(c) ==
    LET s == thread[c]
    IN  /\ s # None
        /\ \E i \in DOMAIN queue[s] :
              /\ queue[s][i] = c
              /\ queue' = [queue EXCEPT ![s] = PutFirst(c, DeleteAt(@, i))]
        /\ yielded' = yielded \cup {active[s]}
        /\ cancelled' = IF phase[active[s]] = "ending" THEN cancelled
                        ELSE cancelled \cup {active[s]}
        /\ UNCHANGED <<registryVars, deleted, active, thread, phase, stopped,
                       next, finished, callVars, serviceVars>>

-----------------------------------------------------------------------------
(* Chats are deleted, moved to the device, and the service stops.          *)

(* stop, for every session of S: the chats are being deleted.              *)
StopSessions(S) ==
    /\ deleted' = [s \in Session |-> deleted[s] \/ s \in S]
    /\ Halt(S)
    /\ DropIdle(S)

StopThread(k) ==
    /\ threads[k] # None
    /\ StopSessions({threads[k]})
    /\ UNCHANGED <<callVars, serviceVars>>

(* isDevice: the client keeps the chat, and no key names it.               *)
IsDevice(s) == s \in Call /\ Turn[s].device

(* StopDeviceThread of one chat, and StopDeviceThreads of them all, with   *)
(* the logs held of the chats at the places K.                             *)
StopDevice(K) ==
    LET S    == {s \in Session : IsDevice(s) /\ \E k \in K : threads[k] = s}
        kept == {c \in Call : Turn[c].device /\ PlaceOf(c) \in K}
    IN  /\ StopSessions(S)
        /\ held' = held \ kept
        /\ doomed' = doomed \cup {c \in kept : thread[c] # None}
        /\ UNCHANGED <<callVars, closing, waited, working, transfer>>

StopDeviceThread(k) == StopDevice({k})

StopDeviceThreads == StopDevice(Place)

(* A held log is read to its end by its client, or its time is up.         *)
Release(c) ==
    /\ c \in held
    /\ held' = held \ {c}
    /\ UNCHANGED <<registryVars, sessionVars, runVars, callVars, closing,
                   waited, working, transfer, doomed>>

MovableQueueOnly(s) == s # None => ~deleted[s] /\ queue[s] = <<>>

(* A chat FinishTransfer may take: with no run, and not being deleted.     *)
Movable(s) == s # None => ~deleted[s] /\ active[s] = None /\ queue[s] = <<>>

(* FinishTransfer refuses a chat that is live or being deleted, and else   *)
(* keeps it from starting a run until its row is removed.                  *)
BeginTransfer(t) ==
    LET k    == ChatOf[t]
        free == Movable(threads[k])
    IN  /\ transfer[t] = "idle"
        /\ transfer' = [transfer EXCEPT ![t] =
                          IF free THEN "removing" ELSE "done"]
        /\ threads' = IF free THEN [threads EXCEPT ![k] = t] ELSE threads
        /\ UNCHANGED <<runs, requests, sessionVars, runVars, callVars, closing,
                       waited, working, held, doomed>>

EndTransferKept(t) ==
    /\ transfer[t] = "removing"
    /\ transfer' = [transfer EXCEPT ![t] = "done"]
    /\ UNCHANGED <<registryVars, sessionVars, runVars, callVars, closing,
                   waited, working, held, doomed>>

EndTransfer(t) ==
    /\ transfer[t] = "removing"
    /\ transfer' = [transfer EXCEPT ![t] = "done"]
    /\ UNCHANGED sessionVars
    /\ DropIdle({t})
    /\ UNCHANGED <<runs, requests, runVars, callVars, closing, waited, working,
                   held, doomed>>

(* Engine.Stop: no chat leaves the registry before its reply ends.         *)
Stop ==
    /\ ~closing
    /\ closing' = TRUE
    /\ Halt({threads[k] : k \in Place} \ {None})
    /\ UNCHANGED <<threads, deleted, callVars, waited, working, held, transfer,
                   doomed>>

(* Engine.Wait answers, which Run calls once Stop has returned.            *)
Wait ==
    /\ closing
    /\ working = 0
    /\ ~waited
    /\ waited' = TRUE
    /\ UNCHANGED <<registryVars, sessionVars, runVars, callVars, closing,
                   working, held, transfer, doomed>>

-----------------------------------------------------------------------------

(* The steps of AcceptTurn's own goroutine.                                *)
AcceptStep(c) ==
    \/ TurnAway(c) \/ Register(c) \/ AwaitPrevious(c) \/ Rejoin(c)
    \/ RefuseAdmission(c) \/ AdmitQueued(c) \/ AdmitActive(c)
    \/ Unregister(c) \/ AnswerRefused(c) \/ AnswerStarted(c)

(* The steps that carry a run from its launch to its end.                  *)
RunStep(c) ==
    \/ Start(c) \/ FailToStart(c) \/ EndUnstarted(c) \/ CloseUnstarted(c)
    \/ BeginFinish(c) \/ Retire(c) \/ HandOn(c) \/ Done(c)

(* What clients do, in any order or not at all.                            *)
ClientStep ==
    \/ \E c \in Call : \/ Arrive(c) \/ Leave(c) \/ RemoveQueued(c)
                       \/ Cancel(c) \/ SendQueued(c) \/ Release(c)
    \/ \E k \in Chat : StopThread(k) \/ StopDeviceThread(k)
    \/ StopDeviceThreads
    \/ \E t \in Transfer : BeginTransfer(t)

Next ==
    \/ \E c \in Call : AcceptStep(c) \/ RunStep(c)
    \/ \E t \in Transfer : EndTransfer(t)
    \/ ClientStep
    \/ Stop
    \/ Wait

(* Goroutines are scheduled, a run's reads, writes and model calls have    *)
(* deadlines (CommitTimeout, RunTimeout), and a removal answers.  Clients  *)
(* and the signal to stop owe nothing.                                     *)
Fairness ==
    /\ \A c \in Call : WF_vars(AcceptStep(c)) /\ WF_vars(RunStep(c))
    /\ \A t \in Transfer : WF_vars(EndTransfer(t))

Spec == Init /\ [][Next]_vars /\ Fairness

-----------------------------------------------------------------------------
(* Safety.                                                                 *)

(* A chat has at most one turn that starts, streams or commits, whatever   *)
(* sessions the chat went through: launch and finishRun read and write its *)
(* row with no lock held, and rely on it.                                  *)
OneReplyPerChat ==
    \A c, d \in Call :
        phase[c] \in Holding /\ phase[d] \in Holding /\ PlaceOf(c) = PlaceOf(d)
            => c = d

(* Turns wait only behind a reply, which SendQueued dereferences, and no   *)
(* chat holds more than MaxQueuedTurns of them.                            *)
QueueBehindReply ==
    \A s \in Session :
        /\ queue[s] # <<>> => active[s] # None
        /\ Len(queue[s]) <= MaxQueuedTurns

(* "each chat's running reply and the turns queued behind it, and nothing  *)
(* once they end" (liveRuns): a run is found by its id exactly while it    *)
(* holds or waits for its chat, and by its request from before that; a     *)
(* chat is found only while it has a reply or is being moved.              *)
RegistryExact ==
    /\ runs = {c \in Call : phase[c] \in Holding \cup {"queued"}}
    /\ \A c \in runs : requests[Turn[c].nonce] = c
    /\ \A n \in Nonce : requests[n] # None =>
          /\ Turn[requests[n]].nonce = n
          /\ requests[n] \in runs \/ at[requests[n]] \in {"admit", "unregister"}
    /\ \A k \in Place : threads[k] # None =>
          \/ active[threads[k]] # None
          \/ threads[k] \in Transfer /\ transfer[threads[k]] = "removing"

(* Finished is closed once, however stops, removals, advances and launch   *)
(* failures meet: a second close would panic with the registry locked.     *)
FinishedOnce ==
    \A c \in Call : finished[c] = IF phase[c] \in {"dropped", "void", "over"}
                                  THEN 1 ELSE 0

(* Once a client deletes its device chat, or all of them, no log of a run  *)
(* admitted before is kept, even that of a reply that was then finishing.  *)
DeletedNotHeld == held \cap doomed = {}

(* Every reply streaming in a deleted chat, or once the service stops, has *)
(* been cancelled, also one that was starting when the stop came.          *)
StopReachesReply ==
    \A c \in Call :
        phase[c] = "running" /\ (closing \/ deleted[thread[c]])
            => c \in cancelled

(* Once Wait has answered, no started run has anything left to write: a    *)
(* launch that was under way when the service stopped starts nothing.      *)
WaitCoversRuns ==
    waited => \A c \in Call : phase[c] \notin Working

(* While a transfer holds its chat, no turn of that chat starts, streams,  *)
(* commits or waits: the row being removed is the one the client copied.   *)
MovingChatIsIdle ==
    \A t \in Transfer : threads[ChatOf[t]] = t =>
        \A c \in runs : PlaceOf(c) # ChatOf[t]

StoppedReplyEndsQueue ==
    \A s \in Session : \A c \in cancelled \ yielded :
        active[s] = c /\ phase[c] = "ending" => active'[s] \in {c, None}

YieldedReplyHandsOn ==
    \A s \in Session : \A c \in yielded :
        /\ active[s] = c /\ active'[s] # c
        /\ queue[s] # <<>> /\ ~deleted[s] /\ ~closing
        => active'[s] = Head(queue[s])

(* What becomes of the turns queued behind a reply is what the client      *)
(* asked (advance): a reply it stopped, and not for a queued turn, never   *)
(* hands its chat on, and one stopped for a queued turn, even one already  *)
(* finishing, hands it to the first turn of the queue and to no other.     *)
QueueEndsAsAsked == [][StoppedReplyEndsQueue /\ YieldedReplyHandsOn]_vars

(* "Stops the chat's running reply. The turns queued behind it end too"    *)
(* (protocol/openapi.yaml, /v1/threads/cancel), of every run a client      *)
(* cancelled, started or not.                                              *)
CancelEndsQueue ==
    [][\A s \in Session : \A c \in cancelled \ yielded :
          active[s] = c => active'[s] \in {c, None}]_vars

-----------------------------------------------------------------------------
(* Liveness.                                                               *)

(* Every turn request is answered, a retried one that waits for the first  *)
(* included (AcceptTurn), and every registered run, queued or started,     *)
(* ends and leaves the registry (finishRun, advance).                      *)
EveryTurnEnds ==
    \A c \in Call : /\ at[c] = "accept" ~> at[c] \in {"refused", "following"}
                    /\ c \in runs ~> finished[c] > 0 /\ c \notin runs
=============================================================================
