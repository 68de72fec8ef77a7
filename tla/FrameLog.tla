------------------------------ MODULE FrameLog ------------------------------
(***************************************************************************)
(* A run's stream and its log (internal/engine/stream.go, runlog.go) and   *)
(* the clients that follow it (follow.go, turn.go): deltas held back to    *)
(* leave as one frame, frames folded into a checkpoint once they outgrow   *)
(* the log's budget, frames lent to streams that send them after the lock  *)
(* is released, and the wiping of a log its run and its readers have left. *)
(*                                                                         *)
(* An event is its number.  A frame holds the numbers of the events it     *)
(* stands for, so that a merged frame, a tool's activity as it stands and  *)
(* the frames they replace can be told apart and compared; a frame's size  *)
(* is how many.  A frame is also the buffer that holds its bytes: gen      *)
(* tells the buffers a fold makes from those emit made.  The three frames  *)
(* a run starts with are one, "reset", for the MESSAGES_SNAPSHOT among     *)
(* them sets the chat back to where the run began; so are the frames that  *)
(* end it.                                                                 *)
(*                                                                         *)
(* Stream.mu orders emits and is held from grow to the fold that follows;  *)
(* FrameLog.mu is not, so a reader may come between the two (mustFold).    *)
(***************************************************************************)
EXTENDS Naturals, FiniteSets, FiniteSetsExt, SequencesExt

CONSTANTS
    Follower,      \* the clients that follow the run
    Text,          \* what deltas extend: messages, reasoning, call arguments
    Activity,      \* the tools whose activity is reported
    Budget,        \* runLogBudget, in events
    MaxMerged,     \* mergedFrameBytes, in events
    MaxEvents,     \* bound: the events a run emits
    None

ASSUME LogAssumption ==
    /\ Budget \in Nat
    /\ MaxMerged \in Nat \ {0}
    /\ MaxEvents \in Nat
    /\ "kept" \notin Text \cup Activity
    /\ Text \cap Activity = {}

VARIABLES
    phase,       \* where the run is, see Phase
    emitted,     \* how many events were emitted
    emitting,    \* the event emit is framing under Stream.mu, or None
    pending,     \* Stream.pending: the deltas held back, or None
    lastDelta,   \* Stream.lastDelta, or None
    activities,  \* Stream.activities, by tool; <<>> for one not opened
    observed,    \* what the assembler saw: the reply that is committed
    mustFold,    \* write's full, until the fold
    base,        \* FrameLog.base
    checkpoint,  \* FrameLog.checkpoint
    frames,      \* FrameLog.frames
    folds,       \* FrameLog.folds
    retired,     \* FrameLog.retired
    held,        \* FrameLog.held, as liveRuns.held has the log
    at,          \* where each follower's stream is
    via,         \* the route each stream came by
    cursor,      \* Follow's from
    lent,        \* what each stream read and has not called done for
    woken,       \* the streams whose wake channel is closed
    applied,     \* each client's Last-Event-ID, plus one
    partway,     \* the clients that have part of a checkpoint
    shown,       \* what each client shows
    memory,      \* history: the buffers that hold plaintext
    log,         \* history: every frame grow appended
    said         \* history: what the run emitted, as a client would show it

streamVars   == <<phase, emitted, emitting, pending, lastDelta, activities,
                  observed, mustFold>>
logVars      == <<base, checkpoint, frames, folds, retired>>
followVars   == <<at, via, cursor, lent, applied, partway, shown>>
vars == <<streamVars, logVars, held, followVars, woken, memory, log, said>>

-----------------------------------------------------------------------------

(* Registered and not started; streaming; its pending deltas flushed; its  *)
(* reply taken to be committed; unregistered; its last frame written; and  *)
(* its log closed, which ends it.                                          *)
Phase == {"waiting", "reply", "flushed", "ending", "left", "last", "closed"}

BlockKey == Text \cup Activity \cup {"kept"}

Frame == [kind : {"kept", "delta", "activity"}, op : {"reset", "set", "add"},
          key : BlockKey, ids : Seq(1 .. MaxEvents), gen : Nat]

Blank == [k \in BlockKey |-> <<>>]

(* What a client that shows v shows once it applies frame f.               *)
Apply(v, f) ==
    CASE f.op = "reset" -> [Blank EXCEPT ![f.key] = f.ids]
      [] f.op = "set"   -> [v EXCEPT ![f.key] = f.ids]
      [] OTHER          -> [v EXCEPT ![f.key] = @ \o f.ids]

Render(fs) == FoldLeft(Apply, Blank, fs)

Size(fs) == FoldLeft(LAMBDA n, f : n + Len(f.ids), 0, fs)

(* FrameLog.sent.                                                          *)
Sent == base + Len(frames)

Attached == {f \in Follower : at[f] # "away"}

(* Every variable keeps its type; what is held back to be framed extends a *)
(* text, and the log's last frame is known as a delta only when it is one. *)
TypeOK ==
    /\ phase \in Phase
    /\ emitted \in 0 .. MaxEvents
    /\ emitting \in Frame \cup {None}
    /\ pending \in [key : Text, ids : Seq(1 .. MaxEvents)] \cup {None}
    /\ lastDelta \in Text \cup {None}
    /\ activities \in [Activity -> Seq(1 .. MaxEvents)]
    /\ observed \in [BlockKey -> Seq(1 .. MaxEvents)]
    /\ mustFold \in BOOLEAN
    /\ base \in 0 .. MaxEvents
    /\ checkpoint \in Seq(Frame)
    /\ frames \in Seq(Frame)
    /\ folds \in 0 .. MaxEvents
    /\ \A r \in retired : r.folds \in 1 .. folds /\ r.frames \subseteq Frame
    /\ held \in BOOLEAN
    /\ at \in [Follower -> {"away", "attached", "sending", "waiting", "end",
                            "leaving"}]
    /\ via \in [Follower -> {"turn", "follow"}]
    /\ cursor \in [Follower -> 0 .. MaxEvents]
    /\ woken \subseteq Follower
    /\ applied \in [Follower -> 0 .. MaxEvents]
    /\ partway \subseteq Follower
    /\ shown \in [Follower -> [BlockKey -> Seq(1 .. MaxEvents)]]
    /\ memory \subseteq Frame

NoLoan == [checkpoint |-> <<>>, frames |-> <<>>, first |-> 0, folds |-> 0,
           closed |-> FALSE]

Init ==
    /\ phase = "waiting"
    /\ emitted = 0
    /\ emitting = None
    /\ pending = None
    /\ lastDelta = None
    /\ activities = [a \in Activity |-> <<>>]
    /\ observed = Blank
    /\ mustFold = FALSE
    /\ base = 0
    /\ checkpoint = <<>>
    /\ frames = <<>>
    /\ folds = 0
    /\ retired = {}
    /\ held = FALSE
    /\ at = [f \in Follower |-> "away"]
    /\ via = [f \in Follower |-> "turn"]
    /\ cursor = [f \in Follower |-> 0]
    /\ lent = [f \in Follower |-> NoLoan]
    /\ woken = {}
    /\ applied = [f \in Follower |-> 0]
    /\ partway = {}
    /\ shown = [f \in Follower |-> Blank]
    /\ memory = {}
    /\ log = <<>>
    /\ said = Blank

-----------------------------------------------------------------------------
(* The log.                                                                *)

(* Stream.track.                                                           *)
Track(f) ==
    IF f.kind # "activity" THEN activities
    ELSE [activities EXCEPT ![f.key] = IF f.op = "set" THEN f.ids
                                       ELSE IF @ = <<>> THEN @ ELSE @ \o f.ids]

(* What the log's last frame extends, when it is a delta.                  *)
LastDelta(f) == IF f.kind = "delta" THEN f.key ELSE None

(* Stream.write up to the fold: grow wakes every reader, and the assembler *)
(* observes the frame while the reply streams, which is also when a log    *)
(* past its budget is folded.                                              *)
Write(f, streaming) ==
    /\ frames' = Append(frames, f)
    /\ memory' = memory \cup {f}
    /\ log' = Append(log, f)
    /\ woken' = Follower
    /\ lastDelta' = LastDelta(f)
    /\ activities' = Track(f)
    /\ observed' = IF streaming THEN Apply(observed, f) ELSE observed
    /\ mustFold' = (streaming /\ Size(frames') > Budget)

(* fold's merge of a run of deltas.                                        *)
Merged(deltas) ==
    [kind |-> "delta", op |-> "add", key |-> deltas[1].key,
     ids |-> FlattenSeq([i \in DOMAIN deltas |-> deltas[i].ids]),
     gen |-> folds + 1]

(* fold's flush: every delta of the run but the last merged.               *)
FlushRun(acc) ==
    LET n == Len(acc.run)
        m == SubSeq(acc.run, 1, n - 1)
    IN  IF n > 2
        THEN [acc EXCEPT !.out = @ \o <<Merged(m), acc.run[n]>>,
                         !.dropped = @ \cup Range(m), !.run = <<>>]
        ELSE [acc EXCEPT !.out = @ \o acc.run, !.run = <<>>]

(* What fold does with one entry.                                          *)
FoldEntry(acc, e) ==
    IF /\ e.kind = "delta"
       /\ acc.run # <<>>
       /\ acc.run[1].key = e.key
       /\ Size(acc.run) + Len(e.ids) <= MaxMerged
    THEN [acc EXCEPT !.run = Append(@, e)]
    ELSE LET a   == FlushRun(acc)
             now == [e EXCEPT !.op = "set", !.ids = activities[e.key],
                              !.gen = folds + 1]
         IN  CASE e.kind = "delta" -> [a EXCEPT !.run = <<e>>]
               [] e.kind = "kept" -> [a EXCEPT !.out = Append(@, e)]
               [] OTHER ->
                    [a EXCEPT !.dropped = @ \cup {e}, !.placed = @ \cup {e.key},
                              !.out = IF e.key \in a.placed
                                         \/ activities[e.key] = <<>>
                                      THEN @ ELSE Append(@, now)]

Folded ==
    FlushRun(FoldLeft(FoldEntry,
                      [out |-> <<>>, run |-> <<>>, dropped |-> {}, placed |-> {}],
                      checkpoint \o frames))

(* Reclaiming with every fold's frames but the last ones'.                 *)
OldestNow(n, S) == n

(* The fold of the oldest frames lent to the streams S, n being the last.  *)
Oldest(n, S) == Min({n} \cup {lent[f].folds : f \in S})

(* reclaim: of the frames r retired, wipe those no stream of S holds.      *)
Reclaim(r, n, S) ==
    LET gone == {x \in r : x.folds <= Oldest(n, S)}
    IN  /\ retired' = r \ gone
        /\ memory' = (memory \cup Range(checkpoint'))
                       \ UNION {x.frames : x \in gone}

Sending == {f \in Follower : at[f] = "sending"}

Fold ==
    /\ mustFold
    /\ mustFold' = FALSE
    /\ checkpoint' = Folded.out
    /\ base' = Sent
    /\ frames' = <<>>
    /\ folds' = folds + 1
    /\ Reclaim(retired \cup {[folds |-> folds + 1, frames |-> Folded.dropped]},
               folds + 1, Sending)
    /\ UNCHANGED <<phase, emitted, emitting, pending, lastDelta, activities,
                   observed, held, followVars, woken, log, said>>

(* An ended log that nothing drains and nobody keeps is wiped.             *)
Wipes(ended, readers, hold) == ended /\ readers = {} /\ ~hold

Wipe(ended, readers, hold) ==
    IF Wipes(ended, readers, hold)
    THEN /\ checkpoint' = <<>>
         /\ frames' = <<>>
         /\ retired' = {}
         /\ memory' = memory \ (Range(checkpoint) \cup Range(frames)
                                  \cup UNION {r.frames : r \in retired})
         /\ UNCHANGED <<base, folds>>
    ELSE UNCHANGED <<logVars, memory>>

-----------------------------------------------------------------------------
(* The run.                                                                *)

NewFrame(kind, op, key) ==
    [kind |-> kind, op |-> op, key |-> key, ids |-> <<emitted + 1>>, gen |-> 0]

(* launch's last lock: the frames a run starts with, none of which folds.  *)
Start ==
    LET f == NewFrame("kept", "reset", "kept")
    IN  /\ phase = "waiting"
        /\ phase' = "reply"
        /\ emitted' = emitted + 1
        /\ said' = Apply(said, f)
        /\ Write(f, FALSE)
        /\ UNCHANGED <<emitting, pending, base, checkpoint, folds, retired, held,
                       followVars>>

(* emit takes Stream.mu.  A tool opens its activity before it reports on   *)
(* it; a queue that changes is told until the run leaves the registry.     *)
Emit(f) ==
    /\ \/ phase = "reply"
       \/ phase = "ending" /\ f.kind = "kept"
    /\ emitting = None
    /\ ~mustFold
    /\ emitted < MaxEvents - 1
    /\ emitted' = emitted + 1
    /\ emitting' = f
    /\ said' = Apply(said, f)
    /\ UNCHANGED <<phase, pending, lastDelta, activities, observed, mustFold,
                   logVars, held, followVars, woken, memory, log>>

EmitDelta(k) == Emit(NewFrame("delta", "add", k))

EmitActivity(k) ==
    Emit(NewFrame("activity", IF said[k] = <<>> THEN "set" ELSE "add", k))

EmitKept == Emit(NewFrame("kept", "add", "kept"))

(* The event extends what is held back, and fits with it in one frame.     *)
Joins(f) ==
    /\ f.kind = "delta"
    /\ pending # None
    /\ pending.key = f.key
    /\ Len(pending.ids) + Len(f.ids) <= MaxMerged

Join ==
    /\ emitting # None
    /\ Joins(emitting)
    /\ pending' = [pending EXCEPT !.ids = @ \o emitting.ids]
    /\ emitting' = None
    /\ UNCHANGED <<phase, emitted, lastDelta, activities, observed, mustFold,
                   logVars, held, followVars, woken, memory, log, said>>

(* framePending: before an event that does not join, as the reply ends, or *)
(* as the window's timer fires.                                            *)
FramePending ==
    /\ pending # None
    /\ ~mustFold
    /\ emitting # None => ~Joins(emitting)
    /\ Write([kind |-> "delta", op |-> "add", key |-> pending.key,
              ids |-> pending.ids, gen |-> 0], TRUE)
    /\ pending' = None
    /\ UNCHANGED <<phase, emitted, emitting, base, checkpoint, folds, retired,
                   held, followVars, said>>

(* A delta to what the last frame extended, within its window.             *)
HoldBack ==
    /\ emitting # None
    /\ emitting.kind = "delta"
    /\ pending = None
    /\ ~mustFold
    /\ emitting.key = lastDelta
    /\ pending' = [key |-> emitting.key, ids |-> emitting.ids]
    /\ emitting' = None
    /\ UNCHANGED <<phase, emitted, lastDelta, activities, observed, mustFold,
                   logVars, held, followVars, woken, memory, log, said>>

(* Anything else is framed at once.                                        *)
WriteOut ==
    /\ emitting # None
    /\ pending = None
    /\ ~mustFold
    /\ Write(emitting, phase = "reply")
    /\ emitting' = None
    /\ UNCHANGED <<phase, emitted, pending, base, checkpoint, folds, retired,
                   held, followVars, said>>

(* finishRun takes Stream.mu, flushes what is held back and takes the      *)
(* reply to commit; from here nothing is observed or folded.               *)
BeginFinish ==
    /\ phase = "reply"
    /\ emitting = None
    /\ ~mustFold
    /\ phase' = "flushed"
    /\ UNCHANGED <<emitted, emitting, pending, lastDelta, activities, observed,
                   mustFold, logVars, held, followVars, woken, memory, log, said>>

(* Taking the reply without its last deltas.                               *)
TakeReplyUnflushed ==
    /\ phase = "flushed"
    /\ ~mustFold
    /\ phase' = "ending"
    /\ activities' = [a \in Activity |-> <<>>]
    /\ UNCHANGED <<emitted, emitting, pending, lastDelta, observed, mustFold,
                   logVars, held, followVars, woken, memory, log, said>>

TakeReply ==
    /\ phase = "flushed"
    /\ pending = None
    /\ ~mustFold
    /\ phase' = "ending"
    /\ activities' = [a \in Activity |-> <<>>]
    /\ UNCHANGED <<emitted, emitting, pending, lastDelta, observed, mustFold,
                   logVars, held, followVars, woken, memory, log, said>>

(* The run leaves the registry: after its reply, or having never started   *)
(* (endQueued, endUnstarted).  The log of a device chat's reply is kept,   *)
(* unless the chat was deleted.                                            *)
Unregister ==
    /\ phase \in {"waiting", "ending"}
    /\ emitting = None
    /\ held' \in IF phase = "ending" THEN BOOLEAN ELSE {FALSE}
    /\ phase' = "left"
    /\ UNCHANGED <<emitted, emitting, pending, lastDelta, activities, observed,
                   mustFold, logVars, followVars, woken, memory, log, said>>

(* The frames that tell the run's end.                                     *)
EmitLast ==
    LET f == NewFrame("kept", "add", "kept")
    IN  /\ phase = "left"
        /\ phase' = "last"
        /\ emitted' = emitted + 1
        /\ said' = Apply(said, f)
        /\ Write(f, FALSE)
        /\ UNCHANGED <<emitting, pending, base, checkpoint, folds, retired, held,
                       followVars>>

(* Ending the log without waking who waits for it.                         *)
CloseQuietly ==
    /\ phase = "last"
    /\ phase' = "closed"
    /\ woken' = woken
    /\ Wipe(TRUE, Attached, held)
    /\ UNCHANGED <<emitted, emitting, pending, lastDelta, activities, observed,
                   mustFold, held, followVars, log, said>>

(* FrameLog.close.                                                         *)
Close ==
    /\ phase = "last"
    /\ phase' = "closed"
    /\ woken' = Follower
    /\ Wipe(TRUE, Attached, held)
    /\ UNCHANGED <<emitted, emitting, pending, lastDelta, activities, observed,
                   mustFold, held, followVars, log, said>>

-----------------------------------------------------------------------------
(* The followers.                                                          *)

(* A stream attaches while the run is registered, by the request that      *)
(* started it or one that follows it, and later while its log is held.     *)
Attach(f, route) ==
    /\ at[f] = "away"
    /\ \/ phase \in {"waiting", "reply", "flushed", "ending"}
       \/ held /\ route = "follow"
    /\ at' = [at EXCEPT ![f] = "attached"]
    /\ via' = [via EXCEPT ![f] = route]
    /\ applied' = [applied EXCEPT ![f] = IF route = "turn" THEN 0 ELSE @]
    /\ shown' = [shown EXCEPT ![f] = IF route = "turn" THEN Blank ELSE @]
    /\ partway' = IF route = "turn" THEN partway \ {f} ELSE partway
    /\ UNCHANGED <<streamVars, logVars, held, cursor, lent, woken, memory, log,
                   said>>

(* ResumeFrom, then Follow's first Read, which waits for nothing.          *)
Resume(f) ==
    /\ at[f] = "attached"
    /\ at' = [at EXCEPT ![f] = IF applied[f] <= Sent THEN "waiting"
                               ELSE "leaving"]
    /\ cursor' = [cursor EXCEPT ![f] = applied[f]]
    /\ woken' = woken \cup {f}
    /\ UNCHANGED <<streamVars, logVars, held, via, lent, applied, partway, shown,
                   memory, log, said>>

(* A follower behind the frames the log holds is sent their checkpoint.    *)
Behind(c) == c < base

Read(f) ==
    LET first == IF Behind(cursor[f]) THEN base ELSE cursor[f]
    IN  /\ at[f] = "waiting"
        /\ f \in woken
        /\ at' = [at EXCEPT ![f] = "sending"]
        /\ woken' = woken \ {f}
        /\ lent' = [lent EXCEPT ![f] =
             [checkpoint |-> IF Behind(cursor[f]) THEN checkpoint ELSE <<>>,
              frames |-> SubSeq(frames, first - base + 1, Len(frames)),
              first |-> first, folds |-> folds, closed |-> phase = "closed"]]
        /\ UNCHANGED <<streamVars, logVars, held, via, cursor, applied, partway,
                       shown, memory, log, said>>

Loan(f) == lent[f].checkpoint \o lent[f].frames

(* Naming a cursor with every frame of a checkpoint.                       *)
NamedEach(f, n) ==
    LET cp == Len(lent[f].checkpoint)
    IN  lent[f].first + IF n < cp THEN 0 ELSE n - cp

(* The cursor the client knows once n frames reach it: only a checkpoint's *)
(* last frame names one, the one before the first frame after it.          *)
Named(f, n) ==
    IF n < Len(lent[f].checkpoint) THEN applied[f]
    ELSE lent[f].first + (n - Len(lent[f].checkpoint))

(* n frames reach the client, and the stream calls done.                   *)
Deliver(f, n) ==
    LET cp == Len(lent[f].checkpoint)
    IN  /\ at[f] = "sending"
        /\ shown' = [shown EXCEPT ![f] =
                       FoldLeft(Apply, @, SubSeq(Loan(f), 1, n))]
        /\ applied' = [applied EXCEPT ![f] = Named(f, n)]
        /\ partway' = IF cp = 0 \/ n = 0 THEN partway
                      ELSE IF n < cp THEN partway \cup {f} ELSE partway \ {f}
        /\ checkpoint' = checkpoint
        /\ Reclaim(retired, folds, Sending \ {f})
        /\ lent' = [lent EXCEPT ![f] = NoLoan]
        /\ UNCHANGED <<streamVars, base, frames, folds, held, via, woken, log,
                       said>>

(* The run's end, as Read found it with the frames.                        *)
Over(f) == lent[f].closed

(* Every frame read is sent.                                               *)
SendAll(f) ==
    /\ Deliver(f, Len(Loan(f)))
    /\ cursor' = [cursor EXCEPT ![f] = lent[f].first + Len(lent[f].frames)]
    /\ at' = [at EXCEPT ![f] = IF Over(f) THEN "end" ELSE "waiting"]

(* The connection is lost with some of them sent.                          *)
SendPart(f) ==
    \E n \in 0 .. Len(Loan(f)) :
        /\ Deliver(f, n)
        /\ cursor' = cursor
        /\ at' = [at EXCEPT ![f] = "leaving"]

(* The client leaves while its stream waits.                               *)
Drop(f) ==
    /\ at[f] = "waiting"
    /\ at' = [at EXCEPT ![f] = "leaving"]
    /\ UNCHANGED <<streamVars, logVars, held, via, cursor, lent, woken, applied,
                   partway, shown, memory, log, said>>

(* A client that followed the run to its end needs the log no longer; the  *)
(* request that started it says nothing of it.                             *)
ReachEnd(f) ==
    /\ at[f] = "end"
    /\ at' = [at EXCEPT ![f] = "leaving"]
    /\ held' = (held /\ via[f] = "turn")
    /\ Wipe(phase = "closed", Attached, held')
    /\ UNCHANGED <<streamVars, via, cursor, lent, woken, applied, partway, shown,
                   log, said>>

(* The last stream leaving a log as it is.                                 *)
DetachOnly(f) ==
    /\ at[f] = "leaving"
    /\ at' = [at EXCEPT ![f] = "away"]
    /\ UNCHANGED <<streamVars, logVars, held, via, cursor, lent, woken, applied,
                   partway, shown, memory, log, said>>

Detach(f) ==
    /\ at[f] = "leaving"
    /\ at' = [at EXCEPT ![f] = "away"]
    /\ Wipe(phase = "closed", Attached \ {f}, held)
    /\ UNCHANGED <<streamVars, held, via, cursor, lent, woken, applied, partway,
                   shown, log, said>>

(* A held log's time is up, or its chat is deleted.                        *)
Release ==
    /\ held
    /\ held' = FALSE
    /\ Wipe(phase = "closed", Attached, FALSE)
    /\ UNCHANGED <<streamVars, followVars, woken, log, said>>

-----------------------------------------------------------------------------

(* The steps of a run with nothing more to say, to its end.                *)
RunStep ==
    \/ Fold \/ Join \/ FramePending \/ HoldBack \/ WriteOut
    \/ BeginFinish \/ TakeReply \/ Unregister \/ EmitLast \/ Close

FollowStep(f) ==
    Resume(f) \/ Read(f) \/ SendAll(f) \/ ReachEnd(f) \/ Detach(f)

Next ==
    \/ Start \/ EmitKept \/ RunStep \/ Release
    \/ \E k \in Text : EmitDelta(k)
    \/ \E k \in Activity : EmitActivity(k)
    \/ \E f \in Follower :
          \/ \E route \in {"turn", "follow"} : Attach(f, route)
          \/ FollowStep(f) \/ SendPart(f) \/ Drop(f)

(* A run ends by its deadline, a held log's timer fires, and a stream's    *)
(* goroutine is scheduled; writes to a client answer or fail.              *)
Fairness ==
    /\ WF_vars(RunStep)
    /\ WF_vars(Release)
    /\ \A f \in Follower : WF_vars(FollowStep(f))

Spec == Init /\ [][Next]_vars /\ Fairness

-----------------------------------------------------------------------------
(* Safety.                                                                 *)

(* "The frames stay intact until the follower calls done" (Read): no fold, *)
(* done or wipe clears a frame a stream is still sending.                  *)
LentIntact == \A f \in Sending : Range(Loan(f)) \subseteq memory

(* No plaintext outlives what may still be sent: the buffers not yet       *)
(* cleared are those of the log and of the frames retired, which are gone  *)
(* once no stream is sending; and none is left of an ended log that        *)
(* nothing drains and nobody holds.                                        *)
NothingLeaks ==
    /\ memory = Range(checkpoint) \cup Range(frames)
                  \cup UNION {r.frames : r \in retired}
    /\ Sending = {} => retired = {}
    /\ phase = "closed" /\ Attached = {} /\ ~held => memory = {}

(* Whatever connections a client lost, and however often the log was       *)
(* folded meanwhile, a client whose last event is the k-th shows what the  *)
(* first k frames show; one with part of a checkpoint is still before it.  *)
ShowsPrefix ==
    \A f \in Follower :
        IF f \in partway THEN applied[f] < base
        ELSE shown[f] = Render(SubSeq(log, 1, applied[f]))

(* A client that names the last event it applied is never told it names an *)
(* event the run never sent, nor finds the frames after it wiped.          *)
ResumeAccepted ==
    \A f \in Follower : at[f] \in {"attached", "waiting"} =>
        /\ applied[f] <= Sent
        /\ Sent = Len(log)

(* A client told that the run ended was sent all of it.                    *)
EndIsWhole ==
    \A f \in Follower : at[f] = "end" =>
        applied[f] = Len(log) /\ shown[f] = said

(* What a client sees is the run, whatever it lost and however the log was *)
(* folded (Follow, ResumeFrom): the stream keeps its types, the client     *)
(* shows what the frames up to its cursor show, may resume from it, and    *)
(* has all of the run once told that it ended.                             *)
ClientSeesRun == TypeOK /\ ShowsPrefix /\ ResumeAccepted /\ EndIsWhole

(* The reply committed is the one streamed: once finishRun takes it, it    *)
(* holds every delta and activity the run emitted, those held back too.    *)
CommittedIsStreamed ==
    phase \in {"ending", "left", "last", "closed"} =>
        \A k \in Text \cup Activity : observed[k] = said[k]

-----------------------------------------------------------------------------
(* Liveness.                                                               *)

Closed == phase = "closed"

Wiped == memory = {}

(* Once a run's log is closed, it is wiped: every stream is woken, sends   *)
(* the rest and leaves, and a held log's time runs out.                    *)
ClosedIsWiped == Closed ~> Wiped

=============================================================================
