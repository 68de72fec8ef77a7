----------------------------- MODULE ReplyStream -----------------------------
(***************************************************************************)
(* A reply as it streams (internal/engine: agent.go, thoughts.go): the     *)
(* deltas of each model turn, the tool calls they open and the goroutines  *)
(* that carry those out, the timeline the events leave (internal/domain/   *)
(* timeline.go), and the summaries of its reasoning, made in the           *)
(* background while the trace they sum up is still open.                   *)
(*                                                                         *)
(* Text and reasoning are counted by their deltas.  A call's id and name   *)
(* come with its first delta, as the model's server streams them.          *)
(***************************************************************************)
EXTENDS Naturals, SequencesExt, FiniteSetsExt

CONSTANTS
    Search,           \* the names of the search tools
    Widget,           \* the names of the widgets
    Name,             \* the names a model calls
    MaxToolCalls,     \* the calls a turn may open
    MaxWidgetRetries,
    None,
    Budgets           \* bound: turns, deltas and summaries

VARIABLES
    phase,     \* "stream", "calls" or "over"
    calls,     \* the turn's calls so far
    texted,    \* whether the turn streamed text
    ran,       \* each call's goroutine: "running", or what the model is told
    rejected,  \* widget calls whose arguments were refused, by name
    timeline,  \* the reply's blocks
    thought,   \* the trace followed: its block, epoch, timer, and whether a
               \* summary of it is being made
    making,    \* the summaries being made
    framed,    \* history: the summary last framed
    told,      \* history: the conversation's calls with what they were told
    budget

vars == <<phase, calls, texted, ran, rejected, timeline, thought, making, framed, told, budget>>

(* The reply, its calls and its thoughts have the shapes the code gives them. *)
TypeOK ==
    /\ phase \in {"stream", "calls", "over"}
    /\ Len(calls) <= MaxToolCalls
    /\ \A b \in ToSet(timeline) : b.type \in {"content", "thinking", "tool_call"}
    /\ \A i, j \in DOMAIN timeline : timeline[i].id = timeline[j].id => i = j
    /\ thought.timer => thought.block # None /\ ~thought.inFlight
    /\ \A m \in making : m.epoch <= thought.epoch

Untraced(epoch) == [block |-> None, epoch |-> epoch, timer |-> FALSE, inFlight |-> FALSE]

Init ==
    /\ budget \in Budgets
    /\ phase = "stream"
    /\ calls = <<>> /\ ran = <<>> /\ texted = FALSE
    /\ rejected = [w \in Widget |-> 0]
    /\ timeline = <<>>
    /\ thought = Untraced(0) /\ making = {}
    /\ framed = None /\ told = {}

Spend(what) == budget[what] > 0 /\ budget' = [budget EXCEPT ![what] = @ - 1]

-----------------------------------------------------------------------------
(* MessageAssembler.                                                       *)

Block(type, id, name) == [type |-> type, id |-> id, name |-> name, text |-> 0, complete |-> FALSE, result |-> None]

(* streamed: reasoning after the text it led to is the tail of its block.  *)
Streamed(type) ==
    LET n == Len(timeline)
        late == type = "thinking" /\ n > 1 /\ timeline[n].type = "content" /\ timeline[n - 1].type = "thinking"
    IN IF late THEN [timeline EXCEPT ![n - 1].text = @ + 1]
       ELSE IF n > 0 /\ timeline[n].type = type THEN [timeline EXCEPT ![n].text = @ + 1]
       ELSE Append(timeline, [Block(type, <<type, n>>, None) EXCEPT !.text = 1])

At(id) == CHOOSE i \in DOMAIN timeline : timeline[i].id = id

-----------------------------------------------------------------------------
(* thoughtSummaries.                                                       *)

(* close: the reply moved on from the trace, whose summaries are dropped.  *)
Close == Untraced(thought.epoch + 1)

(* follow, of reasoning: of the block the reply streams into, considered   *)
(* for a summary unless one is made or waits for its interval.             *)
FollowReasoning(blocks) ==
    LET last == Last(blocks)
        moved == IF last.id = thought.block THEN thought ELSE [Close EXCEPT !.block = last.id]
    IN thought' = IF last.type # "thinking" THEN thought
                  ELSE IF moved.inFlight \/ moved.timer THEN moved
                  ELSE [moved EXCEPT !.timer = TRUE]

(* fire, when the interval since the last summary is over.                 *)
Fire ==
    /\ thought.timer
    /\ Spend("summaries")
    /\ thought' = [thought EXCEPT !.timer = FALSE, !.inFlight = TRUE]
    /\ making' = making \cup {[epoch |-> thought.epoch, block |-> thought.block]}
    /\ UNCHANGED <<phase, calls, texted, ran, rejected, timeline, framed, told>>

(* A summary arrives, or fails: it is framed if its trace is still open.   *)
Summarized(m) ==
    /\ making' = making \ {m}
    /\ IF m.epoch = thought.epoch
       THEN /\ thought' = [thought EXCEPT !.inFlight = FALSE]
            /\ framed' \in {framed, [block |-> m.block, last |-> IF timeline = <<>> THEN None ELSE Last(timeline).id,
                                     phase |-> phase]}
       ELSE UNCHANGED <<thought, framed>>
    /\ UNCHANGED <<phase, calls, texted, ran, rejected, timeline, told, budget>>

-----------------------------------------------------------------------------
(* turn: the deltas a model streams.                                       *)

Streaming == phase = "stream" /\ Spend("deltas")

Reason ==
    /\ Streaming
    /\ timeline' = Streamed("thinking")
    /\ FollowReasoning(timeline')
    /\ UNCHANGED <<phase, calls, texted, ran, rejected, making, framed, told>>

Text ==
    /\ Streaming
    /\ timeline' = Streamed("content")
    /\ texted' = TRUE
    /\ thought' = Close
    /\ UNCHANGED <<phase, calls, ran, rejected, making, framed, told>>

(* The calls of a turn are told apart by how many there were before.       *)
Id(i) == <<"call", budget.turns, i>>

Started(i, name) == Append(timeline, Block("tool_call", Id(i), name))

(* A search tool's arguments are shown as they come; a widget's are held   *)
(* back to be shown whole.                                                 *)
Shown(name) == IF name \in Widget THEN 0 ELSE 1

(* announce: a delta opens a call, or adds to its arguments.               *)
Announce(i, name) ==
    /\ Streaming
    /\ \/ /\ i \in DOMAIN calls /\ calls[i].name = name
          /\ calls' = [calls EXCEPT ![i].args = @ + 1]
          /\ timeline' = [timeline EXCEPT ![At(Id(i))].text = @ + Shown(name)]
          /\ UNCHANGED thought
       \/ /\ i = Len(calls) + 1
          /\ \E args \in 0 .. 1 :
               /\ calls' = Append(calls, [name |-> name, args |-> args])
               /\ timeline' = [Started(i, name) EXCEPT ![Len(timeline) + 1].text = args * Shown(name)]
          /\ thought' = Close
    /\ UNCHANGED <<phase, texted, ran, rejected, making, framed, told>>

CutOffEnding ==
    /\ phase = "stream"
    /\ phase' = "over"
    /\ thought' = Close
    /\ timeline' = [i \in DOMAIN timeline |-> [timeline[i] EXCEPT !.complete = @ \/ timeline[i].type = "tool_call"]]
    /\ UNCHANGED <<calls, texted, ran, rejected, making, framed, told, budget>>

(* The stream is cut, fails or exceeds the tool calls, or the run is       *)
(* cancelled: its calls stay open, and the run ends with the reply so far. *)
CutOff ==
    /\ phase = "stream"
    /\ phase' = "over"
    /\ thought' = Close
    /\ UNCHANGED <<calls, texted, ran, rejected, timeline, making, framed, told, budget>>

(* A call's arguments as the model and the client read them once it ends:  *)
(* none are an empty object, one delta.                                    *)
Whole(call) == Max({1, call.args})

(* The turn ends: each call is shown the arguments it was not yet, and is  *)
(* complete.                                                               *)
Ended(block, call) ==
    [block EXCEPT !.complete = TRUE,
                  !.text = IF call.args = 0 THEN @ + 1 ELSE IF call.name \in Widget THEN @ + call.args ELSE @]

EndCalls(blocks) ==
    [b \in DOMAIN blocks |->
        IF \E i \in DOMAIN calls : blocks[b].id = Id(i)
        THEN Ended(blocks[b], calls[CHOOSE i \in DOMAIN calls : blocks[b].id = Id(i)])
        ELSE blocks[b]]

EndTurn ==
    /\ phase = "stream"
    /\ calls # <<>> \/ texted
    /\ timeline' = EndCalls(timeline)
    /\ IF calls = <<>>
       THEN phase' = "over" /\ thought' = Close /\ UNCHANGED ran
       ELSE phase' = "calls" /\ ran' = [i \in DOMAIN calls |-> "running"] /\ UNCHANGED thought
    /\ UNCHANGED <<calls, texted, rejected, making, framed, told, budget>>

-----------------------------------------------------------------------------
(* execute: a goroutine for each call.                                     *)

Running(i) == phase = "calls" /\ ran[i] = "running"

Answer(i, answer, result) ==
    /\ ran' = [ran EXCEPT ![i] = answer]
    /\ timeline' = IF result = None THEN timeline ELSE [timeline EXCEPT ![At(Id(i))].result = result]
    /\ UNCHANGED <<phase, calls, texted, thought, making, framed, told, budget>>

(* Invoke of a search tool: its results, or its failure.                   *)
CallTool(i) ==
    /\ Running(i) /\ calls[i].name \in Search
    /\ \E answer \in {"read", "failed"} : Answer(i, answer, answer)
    /\ UNCHANGED rejected

(* Invoke of a widget the client draws.                                    *)
Draw(i) ==
    /\ Running(i) /\ calls[i].name \in Widget
    /\ Answer(i, "rendered", "read")
    /\ UNCHANGED rejected

(* Invoke of a widget whose arguments are refused, which the model is told *)
(* a few times.                                                            *)
Refuse(i) ==
    LET name == calls[i].name
        again == rejected[name] < MaxWidgetRetries
    IN /\ Running(i) /\ name \in Widget
       /\ Answer(i, IF again THEN "refused" ELSE "executed", "failed")
       /\ rejected' = IF again THEN [rejected EXCEPT ![name] = @ + 1] ELSE rejected

(* Invoke of a name no tool has.                                           *)
Unknown(i) ==
    /\ Running(i) /\ calls[i].name \notin Search \cup Widget
    /\ Answer(i, "unknown", None)
    /\ UNCHANGED rejected

(* A call's goroutine panics, which is that call's failure.                *)
Panic(i) ==
    /\ Running(i)
    /\ Answer(i, "failed", None)
    /\ UNCHANGED rejected

(* loop: the next turn reads the calls with what each was told.            *)
NextTurn ==
    /\ phase = "calls"
    /\ \A i \in DOMAIN ran : ran[i] # "running"
    /\ told' = told \cup {[id |-> Id(i), name |-> calls[i].name, args |-> Whole(calls[i]), answer |-> ran[i]] : i \in DOMAIN calls}
    /\ IF budget.turns = 0
       THEN phase' = "over" /\ thought' = Close /\ UNCHANGED budget
       ELSE phase' = "stream" /\ Spend("turns") /\ UNCHANGED thought
    /\ calls' = <<>> /\ ran' = <<>> /\ texted' = FALSE
    /\ UNCHANGED <<rejected, timeline, making, framed>>

Next ==
    \/ Reason \/ Text \/ CutOff \/ EndTurn \/ NextTurn \/ Fire
    \/ \E i \in 1 .. MaxToolCalls, name \in Name : Announce(i, name)
    \/ \E i \in DOMAIN ran : CallTool(i) \/ Draw(i) \/ Refuse(i) \/ Unknown(i) \/ Panic(i)
    \/ \E m \in making : Summarized(m)

Spec == Init /\ [][Next]_vars

-----------------------------------------------------------------------------
(* A summary is framed only while the reply streams into the block it sums *)
(* up, and never once the reply is over: one of a trace that closed as it  *)
(* was made is dropped.                                                    *)
SummaryOfOpenTrace == framed # None => framed.block = framed.last /\ framed.phase # "over"

(* A call the reply keeps as complete is one whose turn ended, with the    *)
(* arguments the model reads back next: a stream cut midway leaves its     *)
(* calls open, a widget's arguments are shown once and whole, and a call   *)
(* has a result only once it is complete.                                  *)
CompleteCallIsWhole ==
    \A b \in ToSet(timeline) :
        /\ b.result # None => b.complete
        /\ b.complete => \/ \E t \in told : t.id = b.id /\ t.args = b.text
                         \/ \E i \in DOMAIN ran : Id(i) = b.id /\ Whole(calls[i]) = b.text

(* Each call the model reads back has one answer, a goroutine that         *)
(* panicked included, and a widget's refused arguments are told no more    *)
(* than the retries a run may take, its calls of one turn running at once. *)
CallsAnswered ==
    /\ \A t \in told : t.answer # None
    /\ \A w \in Widget :
         Cardinality({t \in told : t.name = w /\ t.answer = "refused"}) <= MaxWidgetRetries

=============================================================================
