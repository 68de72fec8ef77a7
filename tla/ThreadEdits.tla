----------------------------- MODULE ThreadEdits -----------------------------
(***************************************************************************)
(* What its user changes in a chat while a reply to it is written: a       *)
(* message deleted, a reply edited in place, a question of a reply's       *)
(* widget answered (internal/server/records.go and domain/questions.go),   *)
(* against the turn that read the chat when it began and commits what it   *)
(* made of it when it ends (engine/transcript.go and finish.go).           *)
(*                                                                         *)
(* Each change of the stored chat is one step, as MutateThread makes it.   *)
(* A chat runs one turn at a time.  A reply has one questions widget at    *)
(* most, which is named by the reply.  A text is how often it was written. *)
(***************************************************************************)
EXTENDS Integers, SequencesExt, FiniteSetsExt

CONSTANTS
    Option,
    Asked,              \* the questions each version of a widget asks
    Single,             \* the questions that take one option
    None,
    Budgets             \* bound: the turns and the changes, and the changes made during a turn

VARIABLES
    msgs,    \* the stored chat
    run,     \* the turn running, with its copy of the chat
    next,    \* the next id
    given,   \* history: what the user answered of each widget last
    budget

vars == <<msgs, run, next, given, budget>>

IdsOf(s) == {s[n].id : n \in DOMAIN s}

At(s, id) == CHOOSE n \in DOMAIN s : s[n].id = id

Message(id, role) == [id |-> id, role |-> role, text |-> 1, widget |-> None, sent |-> <<>>, covers |-> {}]

Plain(s) == SelectSeq(s, LAMBDA m : m.role # "compaction")

(* The chat and the turn beside its edits have the shapes the code gives them. *)
TypeOK ==
    /\ Cardinality(IdsOf(msgs)) = Len(msgs)
    /\ \A n \in DOMAIN msgs : /\ msgs[n].id < next
                              /\ msgs[n].widget # None => /\ msgs[n].role = "assistant"
                                                          /\ DOMAIN msgs[n].widget.answers \subseteq Asked[msgs[n].widget.args]
    /\ run # None => run.reply < next

Init ==
    /\ budget \in Budgets
    /\ msgs = <<Message(1, "user"), [Message(2, "assistant") EXCEPT !.widget = [args |-> 1, answers |-> <<>>]]>>
    /\ run = None
    /\ next = 3
    /\ given = <<>>

-----------------------------------------------------------------------------
(* Answers.                                                                *)

(* picked: options the question offers, one for a question that takes one. *)
Picked(q) == {ids \in SUBSET Option : q \in Single => Cardinality(ids) = 1}

(* What earlier messages sent of a widget.                                 *)
Sent(s, call) == FoldLeft(LAMBDA was, m : IF call \in DOMAIN m.sent THEN m.sent[call] ELSE was, <<>>, s)

(* The answers a new message sends: those of each widget that changed      *)
(* since a message last sent them.                                         *)
PendingAnswers(s) ==
    LET pending == {n \in DOMAIN s : s[n].widget # None /\ s[n].widget.answers # Sent(s, s[n].id)}
    IN [call \in {s[n].id : n \in pending} |-> s[At(s, call)].widget.answers]

(* AnswerQuestions: each question named takes the options picked, or none. *)
Answered(answers, changes) ==
    LET kept == (DOMAIN answers \cup DOMAIN changes) \ {q \in DOMAIN changes : changes[q] = None}
    IN [q \in kept |-> IF q \in DOMAIN changes THEN changes[q] ELSE answers[q]]

KeepNoAnswers(m, from) == m

(* A continued reply takes the answers given while it ran.                 *)
KeepAnswers(m, from) ==
    IF m.widget = None \/ from.widget = None THEN m ELSE [m EXCEPT !.widget.answers = from.widget.answers]

-----------------------------------------------------------------------------
(* Changes of the chat by its user.                                        *)

Changes(kind) ==
    /\ budget.changes > 0 /\ (run = None \/ kind \in budget.during)
    /\ budget' = [budget EXCEPT !.changes = @ - 1]

DropCompactionsAfter(s, index) == SubSeq(s, 1, index) \o Plain(SubSeq(s, index + 1, Len(s)))

(* deleteMessage: a chat keeps its last message, and no later summary.     *)
DeleteMessage(n) ==
    /\ Changes("delete")
    /\ msgs[n].role # "compaction" /\ Len(Plain(msgs)) > 1
    /\ msgs' = DropCompactionsAfter(RemoveAt(msgs, n), n - 1)
    /\ UNCHANGED <<run, next, given>>

(* updateMessage.                                                          *)
UpdateMessage(n) ==
    /\ Changes("update")
    /\ msgs[n].role = "assistant"
    /\ msgs' = DropCompactionsAfter([msgs EXCEPT ![n].text = @ + 1], n)
    /\ UNCHANGED <<run, next, given>>

(* answerQuestions, of questions the widget asks.                          *)
AnswerQuestions(n, changes) ==
    LET answers == Answered(msgs[n].widget.answers, changes)
        id == msgs[n].id
    IN /\ Changes("answer")
       /\ msgs[n].widget # None
       /\ DOMAIN changes \subseteq Asked[msgs[n].widget.args]
       /\ \A q \in DOMAIN changes : changes[q] \in Picked(q) \cup {None}
       /\ msgs' = [msgs EXCEPT ![n].widget.answers = answers]
       /\ given' = [i \in DOMAIN given \cup {id} |-> IF i = id THEN answers ELSE given[i]]
       /\ UNCHANGED <<run, next>>

-----------------------------------------------------------------------------
(* The turn.                                                               *)

Question(s, id) == [Message(id, "user") EXCEPT !.sent = PendingAnswers(s)]

(* applyTurn, of a turn that names the message at n.                       *)
Applied(kind, n) ==
    CASE kind = "send" -> Append(msgs, Question(msgs, next))
      [] kind = "edit" -> Append(SubSeq(msgs, 1, n - 1), Question(SubSeq(msgs, 1, n - 1), next))
      [] kind = "regenerate" -> SubSeq(msgs, 1, n - 1)
      [] kind = "continue" -> SubSeq(msgs, 1, n)
      [] kind = "retry" -> msgs

Names(kind, n) ==
    CASE kind = "send" -> n = Len(msgs)
      [] kind = "edit" -> msgs[n].role = "user"
      [] kind = "retry" -> msgs[n].widget # None
      [] OTHER -> msgs[n].role = "assistant"

(* A turn is saved as it starts, and works on its copy.                    *)
StartTurn(kind, n) ==
    LET s == Applied(kind, n)
    IN /\ run = None /\ budget.turns > 0 /\ Names(kind, n)
       /\ msgs' = s
       /\ run' = [kind |-> kind, copy |-> s, compacted |-> None,
                  reply |-> IF kind \in {"continue", "retry"} THEN msgs[n].id ELSE next + 1]
       /\ next' = next + 2
       /\ budget' = [budget EXCEPT !.turns = @ - 1]
       /\ UNCHANGED given

(* It may summarize what comes before a question it keeps.                 *)
Compact(n) ==
    LET before == SubSeq(run.copy, 1, n - 1)
        told == UNION {IF m.role = "compaction" THEN m.covers ELSE {<<m.id, m.text>>} : m \in ToSet(before)}
    IN /\ run # None /\ run.kind # "retry" /\ run.compacted = None
       /\ n \in 2..Len(run.copy) /\ run.copy[n].role = "user"
       /\ run' = [run EXCEPT !.compacted = [beforeId |-> run.copy[n].id,
                                            marker |-> [Message(next, "compaction") EXCEPT !.covers = told]]]
       /\ next' = next + 1
       /\ UNCHANGED <<msgs, given, budget>>

(* The compaction is kept before the first question it kept, unless that   *)
(* question is gone.                                                       *)
WithMarker(s) ==
    IF run.compacted = None \/ run.compacted.beforeId \notin IdsOf(s) THEN s
    ELSE InsertAt(s, At(s, run.compacted.beforeId), run.compacted.marker)

(* finishRun's commit of a reply: a new one is appended, a continued one   *)
(* takes the place of what it continued.  A turn that failed at once has   *)
(* none.                                                                   *)
WithReply(s, m) ==
    IF m.id \notin IdsOf(s) THEN Append(s, m)
    ELSE IF run.kind = "continue" THEN [s EXCEPT ![At(s, m.id)] = KeepAnswers(m, @)]
    ELSE s

Finish(widget) ==
    LET continued == run.copy[At(run.copy, run.reply)]
        m == IF run.kind = "continue"
             THEN [continued EXCEPT !.text = @ + 1, !.widget = IF @ = None THEN widget ELSE @]
             ELSE [Message(run.reply, "assistant") EXCEPT !.widget = widget]
    IN /\ run # None /\ run.kind # "retry"
       /\ msgs' \in {WithReply(WithMarker(msgs), m), WithMarker(msgs)}
       /\ run' = None
       /\ UNCHANGED <<next, given, budget>>

(* ReplaceWidget: answers belong to the questions the user was shown.      *)
ReplaceWidget(s, n, args) == [s EXCEPT ![n].widget = [args |-> args, answers |-> <<>>]]

(* A retried widget is replaced unless it changed or was removed meanwhile, *)
(* or the retry failed.                                                     *)
FinishRetry(args) ==
    LET replaces == {n \in DOMAIN msgs : /\ msgs[n].id = run.reply /\ msgs[n].widget # None
                                         /\ msgs[n].widget.args \in {run.copy[At(run.copy, run.reply)].widget.args, args}}
    IN /\ run # None /\ run.kind = "retry"
       /\ \/ UNCHANGED <<msgs, given>>
          \/ \E n \in replaces : /\ msgs' = ReplaceWidget(msgs, n, args)
                                 /\ given' = [i \in DOMAIN given \cup {run.reply} |->
                                                 IF i = run.reply THEN <<>> ELSE given[i]]
       /\ run' = None
       /\ UNCHANGED <<next, budget>>

Next ==
    \/ \E n \in DOMAIN msgs :
         \/ DeleteMessage(n) \/ UpdateMessage(n)
         \/ \E changes \in budget.answers : AnswerQuestions(n, changes)
         \/ \E kind \in budget.kinds : StartTurn(kind, n)
    \/ \E n \in 2..next : Compact(n)
    \/ \E widget \in {None} \cup {[args |-> a, answers |-> <<>>] : a \in DOMAIN Asked} : Finish(widget)
    \/ \E args \in DOMAIN Asked : FinishRetry(args)

Spec == Init /\ [][Next]_vars

-----------------------------------------------------------------------------
(* Each widget in the chat holds what its user last answered of it, and    *)
(* questions that were replaced hold none: a turn that ends loses no       *)
(* answer given while it ran.                                              *)
AnswersKept ==
    \A m \in ToSet(msgs) : m.widget # None =>
        m.widget.answers = IF m.id \in DOMAIN given THEN given[m.id] ELSE <<>>

(* The model that reads a question knows every answer given until it was   *)
(* sent, and no other: what the messages sent, one after the other, is     *)
(* what the widgets before it hold.                                        *)
AnswersToldStep ==
    (run = None /\ run' # None /\ run'.kind \in {"send", "edit"}) =>
        \A m \in ToSet(msgs') : m.widget # None => Sent(msgs', m.id) = m.widget.answers

(* No summary keeps what a deleted message said, or what a reply edited in *)
(* place said before.                                                      *)
SummaryForgets ==
    LET there == {<<m.id, m.text>> : m \in ToSet(msgs)}
    IN \A m \in ToSet(msgs) : m.covers \subseteq there

=============================================================================
