------------------------------ MODULE ModelLoop ------------------------------
(***************************************************************************)
(* A run's model turns (internal/engine: agent.go, context.go) and the     *)
(* compaction of its chat (compaction.go).  Each model request must fit    *)
(* the share of the window a prompt may fill.  A prompt that does not has  *)
(* its chat compacted, once in a run: the messages up to the latest        *)
(* exchanges are summarized into a marker the model reads in their place,  *)
(* and which the run's commit puts in the chat (finish.go).                *)
(*                                                                         *)
(* Tokens are small numbers.  A message is its id, role and tokens; a      *)
(* marker also holds the ids its summary covers.  Indexes are from one, so *)
(* a chat without a marker has its latest at zero.                         *)
(***************************************************************************)
EXTENDS Integers, SequencesExt, FiniteSetsExt

CONSTANTS
    Limit,      \* the tokens a prompt may fill
    Fixed,      \* those of its system prompt, reminder and widgets
    Reserve,    \* those kept for a summary
    Recent,     \* the most the kept exchanges fill
    MaxTurns,
    Summaries,  \* the tokens a summary may come to
    Exchanges,  \* those a turn's calls and their results may
    Final,      \* those of the instruction past the last turn
    None,
    Budgets     \* bound: the chat, the first message shown, the tokens of the
                \* search tools, and how many requests fail

VARIABLES
    pc,
    chat,       \* req.messages
    exchange,   \* the tokens of each turn's calls and results
    turn,
    mayCompact, \* req.compact # nil
    refreshed,
    marker,     \* r.compacted: the marker and the question it sits before
    failure,
    sent,       \* history: the requests sent
    stored,     \* the chat as it is stored
    budget

vars == <<pc, chat, exchange, turn, mayCompact, refreshed, marker, failure, sent, stored, budget>>

Cost(messages) == SumFunction([i \in DOMAIN messages |-> messages[i].cost])

From(messages, i) == SubSeq(messages, i, Len(messages))

Latest(messages) == Max({0} \cup {i \in DOMAIN messages : messages[i].role = "marker"})

lastQuestion(messages) == Max({0} \cup {i \in DOMAIN messages : messages[i].role = "user"})

(* render: the history the model reads, from the latest marker on.         *)
Groups == From(chat, Max({1, Latest(chat)}))

fixedCost(tools) == Fixed + IF tools THEN budget.search ELSE 0

(* fits, of a prompt and the run's exchange so far.                        *)
fits(tools) == fixedCost(tools) + Cost(Groups) + SumFunction(exchange) <= Limit

(* preflightBudget, which does not count the search tools.                 *)
Preflight ==
    LET question == lastQuestion(Groups)
        kept == Fixed + (IF question > 1 THEN Reserve ELSE 0) + Cost(From(Groups, Max({1, question})))
    IN Fixed + Cost(Groups) <= Limit \/ kept <= Limit

(* The turn and what its calls cost have the shapes the code gives them. *)
TypeOK ==
    /\ pc \in {"preflight", "fit", "top", "send", "refresh", "reply", "done", "failed", "committed"}
    /\ turn \in 1 .. MaxTurns + 1
    /\ \A i, j \in DOMAIN chat : chat[i].id = chat[j].id => i = j
    /\ mayCompact => marker = None
    /\ marker # None => Latest(chat) > 0 /\ chat[Latest(chat) + 1].id = marker.before

Init ==
    /\ budget \in Budgets
    /\ chat = budget.chat
    /\ stored = chat
    /\ pc = "preflight"
    /\ exchange = <<>> /\ turn = 1
    /\ mayCompact = TRUE /\ refreshed = FALSE
    /\ marker = None /\ failure = None
    /\ sent = <<>>

Fail(why) == pc' = "failed" /\ failure' = why

-----------------------------------------------------------------------------
(* Compaction.                                                             *)

(* The tokens a compaction may keep of the exchanges before the question.  *)
KeptBudgetWhole(reserved) == Recent

KeptBudget(reserved) ==
    LET room == Limit - reserved - Reserve - Cost(From(chat, lastQuestion(chat)))
    IN Min({Recent, (room * 5) \div 10})

(* keptFrom: the question that opens the latest whole exchanges shown to   *)
(* the client that fill no more than that, or else the turn's question.    *)
keptFrom(reserved) ==
    LET question == lastQuestion(chat)
        fitting == {i \in Max({Latest(chat) + 2, budget.shown}) .. question - 1 :
                       /\ chat[i].role = "user"
                       /\ Cost(SubSeq(chat, i, question - 1)) <= KeptBudget(reserved)}
    IN Min({question} \cup fitting)

(* compact: the summary takes the place of the messages it covers.         *)
Compact(reserved, then) ==
    LET kept == keptFrom(reserved)
        covered == {chat[i].id : i \in {j \in 1 .. kept - 1 : chat[j].role # "marker"}}
    IN /\ mayCompact' = FALSE
       /\ UNCHANGED <<exchange, turn, refreshed, sent, stored>>
       /\ IF lastQuestion(chat) <= Latest(chat) + 1
          THEN Fail("too large") /\ UNCHANGED <<chat, marker, budget>>
          ELSE \/ \E cost \in Summaries :
                    LET made == [id |-> 0, role |-> "marker", cost |-> cost, covers |-> covered]
                    IN /\ chat' = InsertAt(chat, kept, made)
                       /\ marker' = [made |-> made, before |-> chat[kept].id]
                       /\ pc' = then
                       /\ UNCHANGED <<failure, budget>>
               \/ /\ budget.faults > 0
                  /\ budget' = [budget EXCEPT !.faults = @ - 1]
                  /\ Fail("compaction")
                  /\ UNCHANGED <<chat, marker>>

-----------------------------------------------------------------------------
(* The loop.                                                               *)

PreflightTurn ==
    /\ pc = "preflight"
    /\ IF Preflight THEN pc' = "fit" /\ UNCHANGED failure ELSE Fail("refused")
    /\ UNCHANGED <<chat, exchange, turn, mayCompact, refreshed, marker, sent, stored, budget>>

(* fitted: the first prompt, of a chat compacted first if need be.         *)
Fitted ==
    /\ pc = "fit"
    /\ IF ~fits(TRUE) /\ fixedCost(TRUE) <= Limit /\ mayCompact
       THEN Compact(fixedCost(TRUE), "fit")
       ELSE /\ IF fits(TRUE) THEN pc' = "top" /\ UNCHANGED failure ELSE Fail("too large")
            /\ UNCHANGED <<chat, exchange, turn, mayCompact, refreshed, marker, sent, stored, budget>>

(* Past the last turn the model is offered no tools, and told so.          *)
Offered == turn <= MaxTurns

(* loop, before a turn's request: an exchange that outgrew the window      *)
(* compacts the history before it, if the run has not yet.                 *)
Top ==
    /\ pc = "top"
    /\ IF ~fits(Offered) /\ mayCompact
       THEN Compact(fixedCost(Offered) + SumFunction(exchange), "top")
       ELSE /\ IF fits(Offered) THEN pc' = "send" /\ UNCHANGED failure ELSE Fail("too large")
            /\ UNCHANGED <<chat, exchange, turn, mayCompact, refreshed, marker, sent, stored, budget>>

(* Only the first turn's request is billed as the customer's.              *)
Billed == turn = 1

RequestBody(served) ==
    [turn |-> turn, tools |-> Offered, billed |-> Billed, served |-> served,
     cost |-> fixedCost(Offered) + Cost(Groups) + SumFunction(exchange)]

Faulty == budget.faults > 0 /\ budget' = [budget EXCEPT !.faults = @ - 1]

(* turn: the model serves the request, or refuses it; a credential it      *)
(* rejects is refreshed once, and the request replayed.                    *)
Send ==
    /\ pc = "send"
    /\ \/ /\ sent' = Append(sent, RequestBody(TRUE))
          /\ pc' = "reply"
          /\ UNCHANGED <<refreshed, failure, budget>>
       \/ /\ Faulty
          /\ sent' = Append(sent, RequestBody(FALSE))
          /\ refreshed' = TRUE
          /\ IF refreshed THEN Fail("unauthorized") ELSE pc' = "refresh" /\ UNCHANGED failure
       \/ /\ Faulty
          /\ sent' = Append(sent, RequestBody(FALSE))
          /\ Fail("model")
          /\ UNCHANGED refreshed
    /\ UNCHANGED <<chat, exchange, turn, mayCompact, marker, stored>>

Refresh ==
    /\ pc = "refresh"
    /\ \/ pc' = "send" /\ UNCHANGED <<failure, budget>>
       \/ Faulty /\ Fail("refresh")
    /\ UNCHANGED <<chat, exchange, turn, mayCompact, refreshed, marker, sent, stored>>

(* The reply, streamed: an answer ends the run, and calls begin another    *)
(* turn with their results; a stream cut fails it.                         *)
Reply ==
    /\ pc = "reply"
    /\ \/ pc' = "done" /\ UNCHANGED <<exchange, turn, failure, budget>>
       \/ Faulty /\ Fail("stream") /\ UNCHANGED <<exchange, turn>>
       \/ /\ turn > MaxTurns
          /\ Fail("turns")
          /\ UNCHANGED <<exchange, turn, budget>>
       \/ /\ turn <= MaxTurns
          /\ \E cost \in Exchanges :
               exchange' = exchange \o (IF turn = MaxTurns THEN <<cost, Final>> ELSE <<cost>>)
          /\ turn' = turn + 1
          /\ pc' = "top"
          /\ UNCHANGED <<failure, budget>>
    /\ UNCHANGED <<chat, mayCompact, refreshed, marker, sent, stored>>

-----------------------------------------------------------------------------
(* Another client cuts the stored chat, as an edit or a regeneration does. *)
(* The run reads it next when it commits, so any moment before is the same.*)
Cut(n) ==
    /\ pc \in {"done", "failed"}
    /\ Len(stored) = Len(budget.chat)
    /\ stored' = SubSeq(stored, 1, n)
    /\ UNCHANGED <<pc, chat, exchange, turn, mayCompact, refreshed, marker, failure, sent, budget>>

(* finishRun: the marker goes before the first question it kept, unless    *)
(* that question is gone.                                                  *)
Placed(messages) ==
    LET at == {i \in DOMAIN messages : messages[i].id = marker.before}
    IN IF at = {} THEN messages ELSE InsertAt(messages, Min(at), marker.made)

Commit ==
    /\ pc \in {"done", "failed"}
    /\ pc' = "committed"
    /\ stored' = IF marker = None THEN stored ELSE Placed(stored)
    /\ UNCHANGED <<chat, exchange, turn, mayCompact, refreshed, marker, failure, sent, budget>>

Next ==
    \/ PreflightTurn \/ Fitted \/ Top \/ Send \/ Refresh \/ Reply \/ Commit
    \/ \E n \in 1 .. Len(budget.chat) - 1 : Cut(n)

Spec == Init /\ [][Next]_vars

-----------------------------------------------------------------------------
(* No request the model is sent fills more than a prompt may: a compaction *)
(* that did not make enough room fails the run instead.                    *)
RequestsFit == \A i \in DOMAIN sent : sent[i].cost <= Limit

(* A turn the preflight let through is not refused as too large before its *)
(* first request, when its summary takes no more than its reserve and no   *)
(* search tools, which the preflight does not count, are offered.          *)
PreflightHolds ==
    failure = "too large" /\ sent = <<>> =>
        budget.search > 0 \/ (marker # None /\ marker.made.cost > Reserve)

(* Of the requests the model serves, the first is billed as the customer's *)
(* and no other, a replay after a refreshed credential included; there are *)
(* at most one more than the turns, the last without tools.                *)
BilledOnce ==
    LET served == SelectSeq(sent, LAMBDA r : r.served)
    IN /\ \A i \in DOMAIN served : served[i].billed <=> i = 1
       /\ Len(served) <= MaxTurns + 1
       /\ Len(served) = MaxTurns + 1 => ~Last(served).tools

(* In the stored chat the marker is followed by a question, and stands     *)
(* after each message its summary covers and no other, so the model goes   *)
(* on reading every message either whole or summarized.                    *)
MarkerInPlace ==
    pc = "committed" =>
        \A i \in {j \in DOMAIN stored : stored[j].id = 0} :
            /\ i < Len(stored) /\ stored[i + 1].role = "user"
            /\ stored[i].covers = {stored[j].id : j \in {k \in 1 .. i - 1 : stored[k].role # "marker"}}

=============================================================================
