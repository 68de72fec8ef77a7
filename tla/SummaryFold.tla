----------------------------- MODULE SummaryFold -----------------------------
(***************************************************************************)
(* A summary written by a model (internal/summarize): the documents are    *)
(* read in parts that fit beside the summary of the parts before, a        *)
(* document too large for a part cut into pieces; each part is one call,   *)
(* tried again after a failure worth retrying.                             *)
(***************************************************************************)
EXTENDS Naturals, SequencesExt

CONSTANTS
    Documents,   \* the inputs: each the documents by size and blank space
    Earlier,     \* the sizes of the summary an input begins with
    Room,        \* what a call holds beside its instructions and its answer
    MinPart,     \* the least room a part needs
    Overhead,    \* what a document's tags cost
    Continued,   \* what marking a document as continued adds to them
    Summaries,   \* the sizes of the summaries a model writes
    Attempts,    \* the calls a part is given
    None

VARIABLES
    input,    \* the documents to read
    fold,     \* whether the task reads its input in several parts
    docs,     \* those not yet read
    summary,  \* the size of the summary so far
    call,     \* the part asked for: its documents and the attempt, or None
    read,     \* the words read so far, in order
    result    \* None, or how the summary ended

vars == <<input, fold, docs, summary, call, read, result>>

(* The documents, the summary and the calls have the shapes the code gives them. *)
TypeOK ==
    /\ result \in {None, "written", "too_large", "failed"}
    /\ call # None => call.attempt \in 1 .. Attempts /\ result = None
    /\ \A i \in DOMAIN docs : docs[i].to <= input[docs[i].n].words

(* A document is words from..to of the nth, with blank space between them. *)
Whole(n, d) == [n |-> n, from |-> 1, to |-> d.words, blank |-> d.blank, extra |-> 0]

Words(d) == d.to - d.from + 1

Cost(d) == Words(d) + d.blank + Overhead + d.extra

Init ==
    /\ input \in Documents /\ fold \in BOOLEAN
    /\ docs = [n \in DOMAIN input |-> Whole(n, input[n])]
    /\ summary \in Earlier
    /\ call = None /\ read = <<>> /\ result = None

-----------------------------------------------------------------------------
(* take                                                                    *)

Costs(ds) == FoldLeft(LAMBDA sum, d : sum + Cost(d), 0, ds)

(* The documents that fit together, in order.                              *)
Fit(budget) ==
    CHOOSE k \in 0 .. Len(docs) :
        /\ Costs(SubSeq(docs, 1, k)) <= budget
        /\ k < Len(docs) => Costs(SubSeq(docs, 1, k + 1)) > budget

(* A variant: the rest after a document that was cut loses its remainder.  *)
RestDropped(d, cut) == <<>>

(* What is left of a document cut after `cut` words.                       *)
Rest(d, cut) == IF cut = Words(d) THEN <<>>
                ELSE <<[d EXCEPT !.from = @ + cut, !.blank = 0, !.extra = Continued]>>

(* Where split may end the first piece: it cuts between paragraphs, which  *)
(* may be short of the room, and leaves blank space out.                   *)
Cuts(d, room) == IF Words(d) = 0 THEN {0} ELSE {cut \in 1 .. room : cut <= Words(d)}

(* The part and the rest each way take may cut.                            *)
Taken(budget) ==
    LET k == Fit(budget)
        d == docs[1]
        room == budget - Overhead - d.extra
    IN IF k > 0 \/ docs = <<>> THEN {[part |-> SubSeq(docs, 1, k), rest |-> SubSeq(docs, k + 1, Len(docs))]}
       ELSE {[part |-> <<[d EXCEPT !.to = d.from + cut - 1, !.blank = 0]>>,
              rest |-> Rest(d, cut) \o Tail(docs)] : cut \in Cuts(d, room)}

Budget(s) == IF s >= Room THEN 0 ELSE Room - s

TooLarge(budget) ==
    \/ budget < MinPart
    \/ docs # <<>> /\ Fit(budget) = 0 /\ Overhead + docs[1].extra >= budget

Ask ==
    LET budget == Budget(summary)
    IN /\ result = None /\ call = None
       /\ docs # <<>> \/ read = <<>>
       /\ IF TooLarge(budget)
          THEN result' = "too_large" /\ UNCHANGED <<docs, call>>
          ELSE \E t \in Taken(budget) :
                 IF t.rest # <<>> /\ ~fold
                 THEN result' = "too_large" /\ UNCHANGED <<docs, call>>
                 ELSE /\ call' = [part |-> t.part, attempt |-> 1]
                      /\ docs' = t.rest
                      /\ UNCHANGED result
       /\ UNCHANGED <<input, fold, summary, read>>

-----------------------------------------------------------------------------
(* call and attempt                                                        *)

WordsOf(part) == FlattenSeq([i \in DOMAIN part |-> [w \in 1 .. Words(part[i]) |-> <<part[i].n, part[i].from + w - 1>>]])

Answer(size) ==
    /\ call # None
    /\ summary' = size
    /\ read' = read \o WordsOf(call.part)
    /\ call' = None
    /\ result' = IF docs = <<>> THEN "written" ELSE None
    /\ UNCHANGED <<input, fold, docs>>

Retry ==
    /\ call # None /\ call.attempt < Attempts
    /\ call' = [call EXCEPT !.attempt = @ + 1]
    /\ UNCHANGED <<input, fold, docs, summary, read, result>>

(* A refusal not worth retrying, the last attempt's, or the caller leaves. *)
Fail ==
    /\ call # None
    /\ result' = "failed" /\ call' = None
    /\ UNCHANGED <<input, fold, docs, summary, read>>

Next == Ask \/ (\E size \in Summaries : Answer(size)) \/ Retry \/ Fail

Spec == Init /\ [][Next]_vars

-----------------------------------------------------------------------------
(* A summary written has read every word of every document once and in     *)
(* order, however the documents were cut and whichever calls were retried. *)
EveryWordRead ==
    result = "written" => read = WordsOf([n \in DOMAIN input |-> Whole(n, input[n])])

(* Every call fits the model's window: the part asked for beside the       *)
(* summary so far.                                                         *)
CallsFit == call # None => summary + Costs(call.part) <= Room
=============================================================================
