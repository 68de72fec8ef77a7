----------------------------- MODULE StoredChat -----------------------------
(***************************************************************************)
(* How a stored chat is changed (internal/store/store.go, rows.go, and     *)
(* launch and finishRun of internal/engine): it is read with its revision, *)
(* changed, and pushed at that revision; a conflict reads it again.  The   *)
(* control plane keeps the row.  Its answers may be lost, and a request    *)
(* that was given up may arrive later, so a push is sent again under the   *)
(* idempotency key of the first.                                           *)
(*                                                                         *)
(* The runs of one instance take the chat one after another (LiveRuns,     *)
(* OneReplyPerChat); those of another instance know nothing of them.  An   *)
(* instance may crash, and a client may send the same request to another.  *)
(***************************************************************************)
EXTENDS ChatRow, FiniteSets

CONSTANTS
    Deleter,            \* the deletions requested
    Instance,
    On,                 \* the instance each run and each deletion is on
    MaxCommitAttempts,  \* reads and pushes of one change; also removeAttempts
    MaxSends            \* the sends of one push, in Store.Push and PutBlob

ASSUME StoreAssumption ==
    /\ On \in [Run \cup Deleter -> Instance]
    /\ Deleter \cap (Run \cup Editor) = {}
    /\ MaxCommitAttempts \in Nat \ {0}
    /\ MaxSends \in Nat \ {0}
    /\ None \notin [rev : Nat, chat : Thread]

Writer == Run \cup Editor

VARIABLES
    row,       \* the control plane's row: its revision and chat, or None
    rev,       \* the last revision the control plane gave
    answered,  \* the idempotency keys it has made a change under
    late,      \* the puts whose sender no longer waits for an answer
    at,        \* where each writer and each deletion is, see Where
    stage,     \* what a writer is committing
    attempt,   \* reads made of the row for it, the current one included
    sends,     \* sends made of the push under way
    put,       \* the push under way, or a deletion's revision, or None
    first,     \* what a run's first read of the row found
    stopped    \* the runs whose session is marked deleted

vars == <<row, rev, answered, late, at, stage, attempt, sends, put,
          first, stopped>>

Stage == {"launch", "finish", "edit"}

(* Where a writer or a deletion is.  It loads the row, a launch checks for *)
(* deletion, it pushes, a launch makes its last check, and the run works.  *)
Settled == {"over", "gone", "skipped", "failed", "already", "crashed"}

Where == {"idle", "load", "check", "push", "saved", "running"} \cup Settled

Busy(w) == at[w] \notin {"idle"} \cup Settled

(* The key of a push: Push draws one for every change it is asked to make, *)
(* and keeps it for every send.                                            *)
PutKey == [by : Writer, stage : Stage, attempt : 1..MaxCommitAttempts, send : 1..MaxSends]

Put == [key : PutKey, match : Nat, chat : Thread]

Chats(r) == IF r = None THEN None ELSE r.chat

Init ==
    /\ row = None
    /\ rev = 0
    /\ answered = {}
    /\ late = {}
    /\ at = [w \in Writer \cup Deleter |-> "idle"]
    /\ stage = [w \in Writer |-> IF w \in Run THEN "launch" ELSE "edit"]
    /\ attempt = [w \in Writer \cup Deleter |-> 1]
    /\ sends = [w \in Writer |-> 0]
    /\ put = [w \in Writer \cup Deleter |-> None]
    /\ first = [r \in Run |-> None]
    /\ stopped = {}

-----------------------------------------------------------------------------
(* The control plane.  A put is made at the revision it names, and a put   *)
(* that names none only creates; under a key it knows it answers as it did *)
(* and changes nothing.  It gives no revision twice.                       *)

Matches(p) == IF row = None THEN p.match = 0 ELSE p.match = row.rev

Outcome(p) ==
    IF p.key \in answered \/ Matches(p) THEN "ok" ELSE "stale"

PutBlob(p) ==
    IF p.key \notin answered /\ Matches(p)
    THEN /\ row' = [rev |-> rev + 1, chat |-> p.chat]
         /\ rev' = rev + 1
         /\ answered' = answered \cup {p.key}
    ELSE UNCHANGED <<row, rev, answered>>

-----------------------------------------------------------------------------
(* Reading and pushing.                                                    *)

(* AcceptTurn starts a run only when no other of the instance has the chat.*)
Begin(w) ==
    /\ at[w] = "idle"
    /\ w \in Run => \A r \in Run : On[r] = On[w] => ~Busy(r)
    /\ at' = [at EXCEPT ![w] = "load"]
    /\ UNCHANGED <<row, rev, answered, late, stage, attempt, sends, put, first, stopped>>

MayCreateAlways(w) == stage[w] = "launch"

(* Only the first read of a new chat's turn takes a missing row for one to *)
(* create.                                                                 *)
MayCreate(w) == stage[w] = "launch" /\ attempt[w] = 1

(* The chat a writer pushes, from the one it read.                         *)
Changed(w, chat) ==
    CASE stage[w] = "launch" -> Asked(w, chat)
      [] stage[w] = "finish" -> Replied(w, chat)
      [] stage[w] = "edit"   -> Edited(w, chat)

Read == IF row = None THEN [rev |-> 0, chat |-> newThread] ELSE row

(* A turn is refused on a chat that has its request, or not its message.   *)
Refuses(w, chat) ==
    stage[w] = "launch" /\ (chat.last = Turn[w].nonce \/ ~Applicable(Turn[w], chat.msgs))

Noted(w) ==
    IF stage[w] = "launch" /\ attempt[w] = 1
    THEN [first EXCEPT ![w] = IF row = None THEN "missing" ELSE "found"]
    ELSE first

(* prepareTurn and MutateThread load the chat as it is now and change it.  *)
Load(w) ==
    /\ at[w] = "load"
    /\ row # None \/ MayCreate(w)
    /\ ~Refuses(w, Read.chat)
    /\ put' = [put EXCEPT ![w] =
                 [key   |-> [by |-> w, stage |-> stage[w], attempt |-> attempt[w], send |-> 1],
                  match |-> Read.rev,
                  chat  |-> Changed(w, Read.chat)]]
    /\ at' = [at EXCEPT ![w] = IF stage[w] = "launch" THEN "check" ELSE "push"]
    /\ sends' = [sends EXCEPT ![w] = 1]
    /\ first' = Noted(w)
    /\ UNCHANGED <<row, rev, answered, late, stage, attempt, stopped>>

(* errAlreadyApplied: the request is the last the chat took.               *)
AlreadyApplied(r) ==
    /\ at[r] = "load"
    /\ stage[r] = "launch"
    /\ Read.chat.last = Turn[r].nonce
    /\ at' = [at EXCEPT ![r] = "already"]
    /\ first' = Noted(r)
    /\ UNCHANGED <<row, rev, answered, late, stage, attempt, sends, put, stopped>>

(* The chat is gone, or the turn does not fit it, or the read fails.       *)
LoadFails(w) ==
    /\ at[w] = "load"
    /\ at' = [at EXCEPT ![w] = "failed"]
    /\ first' = Noted(w)
    /\ UNCHANGED <<row, rev, answered, late, stage, attempt, sends, put, stopped>>

(* launch asks whether the chat is being deleted before it pushes.         *)
Check(r) ==
    /\ at[r] = "check"
    /\ IF r \in stopped
       THEN /\ at' = [at EXCEPT ![r] = "failed"]
            /\ put' = [put EXCEPT ![r] = None]
       ELSE /\ at' = [at EXCEPT ![r] = "push"]
            /\ UNCHANGED put
    /\ UNCHANGED <<row, rev, answered, late, stage, attempt, sends, first, stopped>>

-----------------------------------------------------------------------------
(* The push is answered.                                                   *)

Pushed(w) == IF stage[w] = "launch" THEN "saved" ELSE "over"

Accepted(w) ==
    /\ at[w] = "push"
    /\ Outcome(put[w]) = "ok"
    /\ PutBlob(put[w])
    /\ at' = [at EXCEPT ![w] = Pushed(w)]
    /\ put' = [put EXCEPT ![w] = None]
    /\ UNCHANGED <<late, stage, attempt, sends, first, stopped>>

ConflictedKeepingChat(w) ==
    /\ at[w] = "push"
    /\ Outcome(put[w]) = "stale"
    /\ row # None
    /\ attempt[w] < MaxCommitAttempts
    /\ attempt' = [attempt EXCEPT ![w] = @ + 1]
    /\ put' = [put EXCEPT ![w].match = row.rev, ![w].key.attempt = attempt[w] + 1]
    /\ UNCHANGED <<row, rev, answered, late, at, stage, sends, first, stopped>>

(* REVISION_CONFLICT: the row is read again, a bounded number of times.    *)
Conflicted(w) ==
    /\ at[w] = "push"
    /\ Outcome(put[w]) = "stale"
    /\ put' = [put EXCEPT ![w] = None]
    /\ IF attempt[w] < MaxCommitAttempts
       THEN /\ at' = [at EXCEPT ![w] = "load"]
            /\ attempt' = [attempt EXCEPT ![w] = @ + 1]
       ELSE /\ at' = [at EXCEPT ![w] = "failed"]
            /\ UNCHANGED attempt
    /\ UNCHANGED <<row, rev, answered, late, stage, sends, first, stopped>>

(* Any other answer refuses the change for good: a full quota, another     *)
(* key, a chat too large.                                                  *)
Rejected(w) ==
    /\ at[w] = "push"
    /\ put[w].key \notin answered
    /\ at' = [at EXCEPT ![w] = "failed"]
    /\ put' = [put EXCEPT ![w] = None]
    /\ UNCHANGED <<row, rev, answered, late, stage, attempt, sends, first, stopped>>

ResendRestarted(w) ==
    /\ at[w] = "push"
    /\ late' = late \cup {put[w]}
    /\ sends' = [sends EXCEPT ![w] = IF @ < MaxSends THEN @ + 1 ELSE 1]
    /\ UNCHANGED <<row, rev, answered, at, stage, attempt, put, first, stopped>>

(* No answer: the put may have arrived, may yet, or never will.  It is     *)
(* sent again under the same key.                                          *)
Resend(w) ==
    /\ at[w] = "push"
    /\ late' = late \cup {put[w]}
    /\ sends[w] < MaxSends
    /\ sends' = [sends EXCEPT ![w] = @ + 1]
    /\ UNCHANGED <<row, rev, answered, at, stage, attempt, put, first, stopped>>

UnknownTakenForPushed(w) ==
    /\ at[w] = "push"
    /\ late' = late \cup {put[w]}
    /\ at' = [at EXCEPT ![w] = Pushed(w)]
    /\ put' = [put EXCEPT ![w] = None]
    /\ UNCHANGED <<row, rev, answered, stage, attempt, sends, first, stopped>>

(* SYNC_OUTCOME_UNKNOWN, after the last send or the caller's deadline.     *)
Unknown(w) ==
    /\ at[w] = "push"
    /\ late' = late \cup {put[w]}
    /\ at' = [at EXCEPT ![w] = "failed"]
    /\ put' = [put EXCEPT ![w] = None]
    /\ UNCHANGED <<row, rev, answered, stage, attempt, sends, first, stopped>>

(* A put nobody waits for arrives, or is turned away.                      *)
Arrive(p) ==
    /\ p \in late
    /\ late' = late \ {p}
    /\ PutBlob(p)
    /\ UNCHANGED <<at, stage, attempt, sends, put, first, stopped>>

-----------------------------------------------------------------------------
(* A run, once its turn is stored.                                         *)

(* launch's last check, under the lock: a chat being deleted refuses, and  *)
(* so does an instance that is stopping.                                   *)
Start(r) ==
    /\ at[r] = "saved"
    /\ r \notin stopped
    /\ at' = [at EXCEPT ![r] = "running"]
    /\ UNCHANGED <<row, rev, answered, late, stage, attempt, sends, put, first, stopped>>

StartRefused(r) ==
    /\ at[r] = "saved"
    /\ at' = [at EXCEPT ![r] = "failed"]
    /\ UNCHANGED <<row, rev, answered, late, stage, attempt, sends, put, first, stopped>>

(* finishRun commits the reply unless the chat is being deleted.           *)
Finish(r) ==
    /\ at[r] = "running"
    /\ IF r \in stopped
       THEN /\ at' = [at EXCEPT ![r] = "skipped"]
            /\ UNCHANGED <<stage, attempt>>
       ELSE /\ at' = [at EXCEPT ![r] = "load"]
            /\ stage' = [stage EXCEPT ![r] = "finish"]
            /\ attempt' = [attempt EXCEPT ![r] = 1]
    /\ UNCHANGED <<row, rev, answered, late, sends, put, first, stopped>>

-----------------------------------------------------------------------------
(* A deletion: the instance's runs are marked, then the row removed at the *)
(* revision it is read at.                                                 *)

StopThread(d) ==
    /\ at[d] = "idle"
    /\ stopped' = stopped \cup {r \in Run : On[r] = On[d] /\ Busy(r)}
    /\ at' = [at EXCEPT ![d] = "load"]
    /\ UNCHANGED <<row, rev, answered, late, stage, attempt, sends, put, first>>

(* A missing row is gone.                                                  *)
RemoveReads(d) ==
    /\ at[d] = "load"
    /\ IF row = None
       THEN /\ at' = [at EXCEPT ![d] = "gone"]
            /\ UNCHANGED put
       ELSE /\ at' = [at EXCEPT ![d] = "push"]
            /\ put' = [put EXCEPT ![d] = row.rev]
    /\ UNCHANGED <<row, rev, answered, late, stage, attempt, sends, first, stopped>>

Removable(d) == row # None /\ row.rev = put[d]

RemoveRow(d) ==
    /\ at[d] = "push"
    /\ Removable(d)
    /\ row' = None
    /\ at' = [at EXCEPT ![d] = "gone"]
    /\ UNCHANGED <<rev, answered, late, stage, attempt, sends, put, first, stopped>>

RemoveConflicts(d) ==
    /\ at[d] = "push"
    /\ ~Removable(d)
    /\ IF attempt[d] < MaxCommitAttempts
       THEN /\ at' = [at EXCEPT ![d] = "load"]
            /\ attempt' = [attempt EXCEPT ![d] = @ + 1]
       ELSE /\ at' = [at EXCEPT ![d] = "failed"]
            /\ UNCHANGED attempt
    /\ UNCHANGED <<row, rev, answered, late, stage, sends, put, first, stopped>>

(* The read or the deletion fails, or its answer is lost.                  *)
RemoveFails(d) ==
    /\ at[d] \in {"load", "push"}
    /\ at' = [at EXCEPT ![d] = "failed"]
    /\ \/ UNCHANGED row
       \/ at[d] = "push" /\ Removable(d) /\ row' = None
    /\ UNCHANGED <<rev, answered, late, stage, attempt, sends, put, first, stopped>>

-----------------------------------------------------------------------------
(* An instance crashes with all it has in memory; what it sent is out.     *)
Crash(i) ==
    LET dead == {r \in Run : On[r] = i /\ Busy(r)}
    IN  /\ dead # {}
        /\ at' = [w \in DOMAIN at |-> IF w \in dead THEN "crashed" ELSE at[w]]
        /\ late' = late \cup {put[r] : r \in {w \in dead : at[w] = "push"}}
        /\ put' = [w \in DOMAIN put |-> IF w \in dead THEN None ELSE put[w]]
        /\ UNCHANGED <<row, rev, answered, stage, attempt, sends, first, stopped>>

Commit(w) ==
    \/ Load(w) \/ LoadFails(w)
    \/ Accepted(w) \/ Conflicted(w) \/ Rejected(w)
    \/ Resend(w) \/ Unknown(w)

RunStep(r) == AlreadyApplied(r) \/ Check(r) \/ Start(r) \/ StartRefused(r) \/ Finish(r)

DeleteStep(d) == RemoveReads(d) \/ RemoveRow(d) \/ RemoveConflicts(d) \/ RemoveFails(d)

Next ==
    \/ \E w \in Writer : Begin(w) \/ Commit(w)
    \/ \E r \in Run : RunStep(r)
    \/ \E d \in Deleter : StopThread(d) \/ DeleteStep(d)
    \/ \E p \in late : Arrive(p)
    \/ \E i \in Instance : Crash(i)

(* Every call has a deadline, so a writer that waits comes to an answer or *)
(* gives up; no request need ever be made, and none given up need arrive.  *)
Fairness ==
    /\ \A w \in Writer : WF_vars(Commit(w))
    /\ \A r \in Run : WF_vars(RunStep(r))
    /\ \A d \in Deleter : WF_vars(DeleteStep(d))

Spec == Init /\ [][Next]_vars /\ Fairness

-----------------------------------------------------------------------------
(* Every variable has its type; a writer has a push exactly while it is    *)
(* between its read and the push's answer, and a push names a revision     *)
(* that was given.                                                         *)
TypeOK ==
    /\ row # None => row.rev \in 1..rev /\ row.chat \in Thread
    /\ rev \in Nat
    /\ answered \subseteq PutKey
    /\ late \subseteq Put
    /\ at \in [Writer \cup Deleter -> Where]
    /\ stage \in [Writer -> Stage]
    /\ attempt \in [Writer \cup Deleter -> 1..MaxCommitAttempts]
    /\ sends \in [Writer -> 0..MaxSends]
    /\ first \in [Run -> {None, "found", "missing"}]
    /\ stopped \subseteq Run
    /\ \A w \in Writer :
          IF at[w] \in {"check", "push"}
          THEN put[w] \in Put /\ put[w].match <= rev
          ELSE put[w] = None

(* MutateThread: "a conflict never overwrites another writer's change",    *)
(* and Push: a push sent again is answered "with the first push's          *)
(* outcome".  Reads, conflicts, lost answers, late arrivals, deletions and *)
(* crashes notwithstanding, every change is made to the chat as it is      *)
(* stored at that moment, and made once (AtomicChat says when a turn's may *)
(* be made again).                                                         *)
Atomic == INSTANCE AtomicChat WITH
              chat     <- Chats(row),
              deletion <- \E d \in Deleter : at[d] # "idle"

ImplementsAtomicChat == Atomic!ASpec

(* applyTurn and finishRun's commit look for a message before they add it: *)
(* a request carried out by two instances, or committed after a conflict,  *)
(* is in the chat once, and so is every reply.                             *)
MessagesOnce == row # None => IsInjective(row.chat.msgs)

(* The marker by which other clients see a reply streaming goes with the   *)
(* reply's commit and no late or repeated push brings it back.             *)
MarkerGoes ==
    row # None => \A r \in Run :
        <<r, "finish">> \in row.chat.by => row.chat.active # r

(* The stored chat stays sound, whatever pushes are retried, late or lost: *)
(* it has its type, each message once (applyTurn, finishRun), and no       *)
(* marker of a run whose reply it holds (commit).                          *)
ChatStaysSound == TypeOK /\ MessagesOnce /\ MarkerGoes

(* launch: "One that writer removed was deleted, so only a first attempt   *)
(* creates it".  A chat comes into being only by a turn whose first read   *)
(* found none, so a run never brings back a chat deleted while it started. *)
NeverRecreates ==
    [][row = None /\ row' # None =>
         \E r \in Run : /\ row'.chat.by = {<<r, "launch">>}
                        /\ first[r] = "missing"]_vars

(* A client is told that its request was already applied (ALREADY_APPLIED) *)
(* only when another run took it: never because of the run's own push, its *)
(* answer lost.  A deletion in between is the exception.                   *)
AlreadyByAnother ==
    \A r \in Run :
        at[r] = "already" /\ (\A d \in Deleter : at[d] = "idle") =>
            \E o \in Run \ {r} :
                /\ Turn[o].nonce = Turn[r].nonce
                /\ <<o, "launch">> \in row.chat.by

(* What a caller is told is true: a run that started has its question, one *)
(* that finished its reply, and an edit that succeeded its change, made by *)
(* the control plane, however many answers were lost on the way.           *)
SuccessIsStored ==
    \A w \in Writer :
        LET made(s) == \E k \in answered : k.by = w /\ k.stage = s
        IN  /\ at[w] \in {"saved", "running"} => made("launch")
            /\ at[w] = "over" => made(stage[w])

(* What callers are told is true: of a run started, finished or edit made  *)
(* that the control plane has made the change (Push), and of a request     *)
(* already applied that another run took it (errAlreadyApplied).           *)
AnswersAreTrue == SuccessIsStored /\ AlreadyByAnother

Committing(w) == at[w] = "load"

Committed(w) == at[w] \in Settled \cup {"running"}

(* A commit settles: conflicts and lost answers are retried a bounded      *)
(* number of times, and then the caller is told.                           *)
CommitsSettle == \A w \in Writer : Committing(w) ~> Committed(w)
=============================================================================
