------------------------------ MODULE Rebuilds ------------------------------
(***************************************************************************)
(* The background rebuilds of one caller's search index: the runner that   *)
(* keeps one job per owner (internal/jobs) and startRebuild, which joins,  *)
(* replaces or begins one (internal/search/rebuild.go).  A job cancelled   *)
(* goes on until its work sees its context end; the job that replaces it   *)
(* waits for that.                                                         *)
(***************************************************************************)
EXTENDS Naturals, Sequences, FiniteSets

CONSTANTS
    Request,    \* calls of Rebuild and of startEmbeddingRepair
    Key,        \* the content keys requests come with
    None,
    Budgets     \* bound: the jobs started, requests, Forgets and expiries

VARIABLES
    jobs,      \* every job, in the order they were started
    running,   \* Runner.jobs: the job the owner has, or None
    started,   \* Service.started: the rebuild last started, or None
    request,
    budget

vars == <<jobs, running, started, request, budget>>

Spend(what) == budget[what] > 0 /\ budget' = [budget EXCEPT ![what] = @ - 1]

Idle == [pc |-> "idle", kid |-> None, repair |-> FALSE, saw |-> None]

(* The jobs and their callers have the shapes the code gives them. *)
TypeOK ==
    /\ running \in DOMAIN jobs \cup {None} /\ started \in DOMAIN jobs \cup {None}
    /\ \A j \in DOMAIN jobs :
         /\ jobs[j].state \in {"running", "complete", "partial", "failed"}
         /\ jobs[j].pc = "done" <=> jobs[j].state # "running"
         /\ jobs[j].after # None => jobs[j].after < j
    /\ \A r \in Request : request[r].pc \in {"idle", "start", "check"}

Init ==
    /\ budget \in Budgets
    /\ jobs = <<>> /\ running = None /\ started = None
    /\ request = [r \in Request |-> Idle]

-----------------------------------------------------------------------------
(* Requests, each step of startRebuild under the service's lock.           *)

Ask(r) ==
    /\ request[r].pc = "idle"
    /\ Spend("requests")
    /\ \E k \in Key, repair \in BOOLEAN :
         request' = [request EXCEPT ![r] = [pc |-> "start", kid |-> k, repair |-> repair, saw |-> None]]
    /\ UNCHANGED <<jobs, running, started>>

SameWork(r, j) == jobs[j].kid = request[r].kid /\ jobs[j].repair = request[r].repair

Reply(r) == request' = [request EXCEPT ![r] = Idle]

(* Runner.Cancel: the owner's job is forgotten and its context ended.      *)
Cancelled(j) == IF j = None THEN jobs ELSE [jobs EXCEPT ![j].ended = TRUE]

(* A new job takes the owner's place; it waits for the one it cancelled.   *)
Start(r) ==
    /\ Len(jobs) < budget.jobs
    /\ jobs' = Append(Cancelled(running),
                      [kid |-> request[r].kid, repair |-> request[r].repair, state |-> "running",
                       pc |-> "waits", ended |-> FALSE, after |-> running])
    /\ running' = Len(jobs) + 1
    /\ started' = Len(jobs) + 1
    /\ Reply(r)

(* A variant: the new job begins beside the one it cancelled.              *)
WaitsNothing(j) == TRUE

(* The work begins once the predecessor has ended, or its own context has. *)
Waited(j) == jobs[j].ended \/ \A i \in {jobs[j].after} \ {None} : jobs[i].pc = "done"

StartRebuild(r) ==
    LET prev == started
        state == IF prev = None THEN "none" ELSE jobs[prev].state
    IN /\ request[r].pc = "start"
       /\ \/ /\ state = "running" /\ (request[r].repair \/ SameWork(r, prev))
             /\ Reply(r)                                                     \* joined
             /\ UNCHANGED <<jobs, running, started>>
          \/ /\ state = "failed" /\ ~request[r].repair
             /\ started' = None                                              \* reported, and forgotten
             /\ jobs' = Cancelled(running) /\ running' = None
             /\ Reply(r)
          \/ /\ state = "complete" /\ SameWork(r, prev)
             /\ request' = [request EXCEPT ![r].pc = "check", ![r].saw = prev]
             /\ UNCHANGED <<jobs, running, started>>
          \/ /\ \/ state \in {"none", "partial"}
                \/ state = "running" /\ ~request[r].repair /\ ~SameWork(r, prev)
                \/ state = "failed" /\ request[r].repair
                \/ state = "complete" /\ ~SameWork(r, prev)
             /\ Start(r)
       /\ UNCHANGED budget

(* needsRepair answers, the lock taken again: a rebuild started meanwhile  *)
(* is looked at instead.                                                   *)
NeedsRepair(r) ==
    /\ request[r].pc = "check"
    /\ \/ Reply(r) /\ UNCHANGED <<jobs, running, started>>     \* it fails, or needs none
       \/ /\ started # request[r].saw
          /\ request' = [request EXCEPT ![r].pc = "start", ![r].saw = None]
          /\ UNCHANGED <<jobs, running, started>>
       \/ started = request[r].saw /\ Start(r)
    /\ UNCHANGED budget

(* A start-fresh key: forgetRebuild ends and forgets the caller's rebuild. *)
Forget ==
    /\ Spend("forgets")
    /\ started' = None
    /\ jobs' = Cancelled(running) /\ running' = None
    /\ UNCHANGED request

-----------------------------------------------------------------------------
(* Jobs.                                                                   *)

Begin(j) ==
    /\ jobs[j].pc = "waits" /\ Waited(j)
    /\ jobs' = [jobs EXCEPT ![j].pc = "works"]
    /\ UNCHANGED <<running, started, request, budget>>

(* The work returns; one whose context ended returns a partial rebuild.    *)
Finish(j) ==
    /\ jobs[j].pc = "works"
    /\ \E state \in IF jobs[j].ended THEN {"partial", "failed"} ELSE {"complete", "partial", "failed"} :
         jobs' = [jobs EXCEPT ![j].pc = "done", ![j].state = state, ![j].ended = TRUE]
    /\ UNCHANGED <<running, started, request, budget>>

(* The job's time is up.                                                   *)
Expire(j) ==
    /\ jobs[j].state = "running" /\ ~jobs[j].ended
    /\ Spend("expiries")
    /\ jobs' = [jobs EXCEPT ![j].ended = TRUE]
    /\ UNCHANGED <<running, started, request>>

(* The retention of an ended job passes: the runner and the service forget *)
(* it, unless another has taken its place.                                 *)
Forgotten(held, j) == held = j

ForgetEnded(j) ==
    /\ jobs[j].pc = "done"
    /\ Spend("expiries")
    /\ \/ running' = (IF Forgotten(running, j) THEN None ELSE running) /\ UNCHANGED started
       \/ started' = (IF Forgotten(started, j) THEN None ELSE started) /\ UNCHANGED running
    /\ UNCHANGED <<jobs, request>>

Next ==
    \/ \E r \in Request : Ask(r) \/ StartRebuild(r) \/ NeedsRepair(r)
    \/ Forget
    \/ \E j \in DOMAIN jobs : Begin(j) \/ Finish(j) \/ Expire(j) \/ ForgetEnded(j)

Spec == Init /\ [][Next]_vars

-----------------------------------------------------------------------------
Works(j) == jobs[j].pc = "works"

(* A job that goes on unstopped is the one the runner and the service hold *)
(* for the owner, so a request finds it and another Forget or rebuild      *)
(* stops it: forgetting an ended job never forgets its successor.          *)
RunningIsHeld ==
    \A j \in DOMAIN jobs :
        jobs[j].state = "running" /\ ~jobs[j].ended => running = j /\ started = j

(* A rebuild not itself stopped works only once the job it replaced has    *)
(* wound down, so of two such jobs one at a time changes the index         *)
(* (startRebuild's wait for its predecessor).                              *)
WorksAfterPredecessor ==
    \A j \in DOMAIN jobs :
        Works(j) /\ ~jobs[j].ended /\ jobs[j].after # None => jobs[jobs[j].after].pc = "done"

(* Two rebuilds never write the same index: one that goes on works while   *)
(* no other still winds down (startRebuild's comment).                     *)
TwoNeverWrite ==
    \A i, j \in DOMAIN jobs : Works(i) /\ Works(j) /\ ~jobs[j].ended => i = j
=============================================================================
