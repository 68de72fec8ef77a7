------------------------------ MODULE Screening -----------------------------
(***************************************************************************)
(* What a completed run submits for acceptable-use classification          *)
(* (internal/engine/safeguards.go): the chat's history and the reply, cut  *)
(* from the front to what the sidecar takes.                               *)
(*                                                                         *)
(* A text is a sequence of characters, each its bytes and its bytes once   *)
(* encoded.  Init is the run as finishRun finds it, Screen the submission. *)
(***************************************************************************)
EXTENDS Integers, SequencesExt

CONSTANTS
    None,
    Prompts,    \* the system prompts, as texts
    Histories,  \* the histories: messages, each its role, its content and its tool calls
    Replies,    \* the replies, each a sequence of texts
    Kinds,      \* the kinds of turn
    Bars,       \* what keeps a run from being screened
    Cap,        \* maxSubmissionBytes, less the envelope
    Frame,      \* the bytes of a message encoded with no content
    Growth      \* jsonEscapeGrowth

VARIABLES
    run,        \* the run: its prompt, history, reply, kind and what bars it
    submitted   \* the messages delivered, <<>> when none are, None before

vars == <<run, submitted>>

Init ==
    /\ run \in [prompt : Prompts, history : Histories, reply : Replies, kind : Kinds, bars : Bars]
    /\ submitted = None

Bytes(text) == FoldSeq(LAMBDA c, n : n + c.raw, 0, text)
Size(m) == Frame + FoldSeq(LAMBDA c, n : n + c.encoded, 0, m.content)

NewLine == [raw |-> 1, encoded |-> 2]
Placeholder == [raw |-> 3, encoded |-> 3]

(* A part that is no object is passed over; one that is no text leaves its kind. *)
flattenContent(content) ==
    IF content.kind = "text" THEN content.text
    ELSE FlattenSeq([i \in DOMAIN content.parts |->
             LET part == content.parts[i]
             IN  IF part.type = "none" THEN <<>>
                 ELSE (IF i > 1 THEN <<NewLine>> ELSE <<>>)
                      \o (IF part.type = "text" THEN part.text ELSE <<Placeholder>>)])

(* A message as the model reads it: its text, then the results of its calls. *)
RenderMessage(m) ==
    <<[role |-> m.role, content |-> m.content]>>
    \o [i \in 1 .. m.calls |-> [role |-> "tool", content |-> [kind |-> "text", text |-> <<>>]]]

Screened(role) == role # "tool"

(* The prompt and the whole history, without tool results. *)
screening ==
    LET groups == FlattenSeq([i \in DOMAIN run.history |-> RenderMessage(run.history[i])])
        read == SelectSeq(groups, LAMBDA m : Screened(m.role))
    IN  (IF run.prompt = <<>> THEN <<>> ELSE <<[role |-> "system", content |-> run.prompt]>>)
        \o [i \in DOMAIN read |-> [read[i] EXCEPT !.content = flattenContent(@)]]

(* The texts of the reply that are not empty, on lines of their own. *)
ReplyText ==
    FoldLeft(LAMBDA all, text : IF all = <<>> THEN text ELSE all \o <<NewLine>> \o text, <<>>,
             SelectSeq(run.reply, LAMBDA text : text # <<>>))

EarlierKept(messages) == messages

(* A continued reply, whole, takes the place of its earlier text. *)
Earlier(messages) ==
    IF run.kind = "continue" /\ messages # <<>> /\ Last(messages).role = "assistant"
    THEN Front(messages) ELSE messages

Conversation ==
    Append(Earlier(screening),
           [role |-> "assistant", content |-> ReplyText])

(* How many bytes of a message's content are sure to fit, however they are encoded. *)
Keep(m, room) == (IF room - Frame > 0 THEN room - Frame ELSE 0) \div Growth

(* The end of a text, without the character the cut falls in. *)
CutTo(text, bytes) ==
    CHOOSE tail \in Suffixes(text) :
        /\ Bytes(tail) <= bytes
        /\ \A longer \in Suffixes(text) : Bytes(longer) <= bytes => Len(longer) <= Len(tail)

(* The newest messages that fit, or the end of the newest when it alone does not. *)
encodeSubmission(messages) ==
    LET step(m, acc) ==
            IF acc.full \/ Size(m) + 1 > acc.room THEN [acc EXCEPT !.full = TRUE]
            ELSE [room |-> acc.room - Size(m) - 1, kept |-> <<m>> \o acc.kept, full |-> FALSE]
        took == FoldRight(step, messages, [room |-> Cap, kept |-> <<>>, full |-> FALSE])
        last == Last(messages)
    IN  IF took.kept # <<>> THEN took.kept
        ELSE <<[last EXCEPT !.content = CutTo(@, Keep(last, took.room))]>>

(* screen and submit: a run that completed with a reply is delivered. *)
Screen ==
    /\ submitted = None
    /\ submitted' = IF run.bars = None /\ ReplyText # <<>> THEN encodeSubmission(Conversation) ELSE <<>>
    /\ UNCHANGED run

Next == Screen

-----------------------------------------------------------------------------
Delivered == submitted # None /\ submitted # <<>>

Total(messages) == FoldSeq(LAMBDA m, n : n + Size(m) + 1, 0, messages)

(* A submission is within the sidecar's cap, however its text is encoded, and *)
(* leaves out no message that would have fitted before the ones it holds      *)
(* (encodeSubmission).                                                        *)
SubmissionFits ==
    Delivered =>
        /\ Total(submitted) - 1 <= Cap
        /\ \A tail \in Suffixes(Conversation) :
              Len(tail) > Len(submitted) => Total(tail) > Cap

(* What is submitted ends in the run's reply, whole unless it alone exceeds the *)
(* cap, after the messages before it; a continued reply's earlier text is not   *)
(* beside it (screen).                                                          *)
ReplyScreened ==
    Delivered =>
        /\ Last(submitted).role = "assistant"
        /\ \/ IsSuffix(submitted, Conversation)
           \/ Len(submitted) = 1 /\ IsSuffix(submitted[1].content, ReplyText)
        /\ run.kind = "continue" /\ Len(submitted) > 1 => submitted[Len(submitted) - 1].role # "assistant"
=============================================================================
