------------------------------- MODULE MCReply ------------------------------
(***************************************************************************)
(* Instances, for TLC, of what makes a reply: the credentials its requests *)
(* carry, the files a turn attaches, the loop of the model's turns, the    *)
(* stream of one turn, the calls that fold a long text into a summary, the *)
(* gate of embedding calls, the changes a chat takes while its reply is    *)
(* made, and what is submitted of the reply once it is whole.              *)
(*                                                                         *)
(* The parts share no state.  A behaviour is one of one part.  The part    *)
(* "callers" is that of Callers itself; the variables of the others are    *)
(* v1, v2, ... in the order their modules declare them.                    *)
(***************************************************************************)
EXTENDS Callers, SequencesExt, FiniteSetsExt

CONSTANTS
    c1, c2, c3, o1, o2,
    LoopBudgets, StreamBudgets, GateBudgets, FoldDocuments, EditBudgets, UploadBudgets

VARIABLES part, v1, v2, v3, v4, v5, v6, v7, v8, v9, v10, v11

From6 == <<v6, v7, v8, v9, v10, v11>>
From8 == <<v8, v9, v10, v11>>
From9 == <<v9, v10, v11>>

From1 == <<v1, v2, v3, v4, v5, From6>>

NoneFrom9 == v9 = None /\ v10 = None /\ v11 = None
NoneFrom8 == v8 = None /\ NoneFrom9
NoneFrom6 == v6 = None /\ v7 = None /\ NoneFrom8
NoneFrom1 == v1 = None /\ v2 = None /\ v3 = None /\ v4 = None /\ v5 = None /\ NoneFrom6

-----------------------------------------------------------------------------
(* A prompt of at most twenty tokens, two turns of tools.                  *)
Loop == INSTANCE ModelLoop WITH
    Limit <- 20, Fixed <- 3, Reserve <- 4, Recent <- 6, MaxTurns <- 2, Summaries <- {4, 5},
    Exchanges <- {1, 6}, Final <- 1, Budgets <- LoopBudgets,
    pc <- v1, chat <- v2, exchange <- v3, turn <- v4, mayCompact <- v5, refreshed <- v6,
    marker <- v7, failure <- v8, sent <- v9, stored <- v10, budget <- v11

Exchanged(costs) ==
    [i \in DOMAIN costs |->
        [id |-> i, role |-> IF i % 2 = 1 THEN "user" ELSE "assistant", cost |-> costs[i]]]

Marker == [id |-> 9, role |-> "marker", cost |-> 3, covers |-> {1, 2}]

Chats ==
    {Exchanged(costs) : costs \in [1 .. 1 -> {1, 9, 17}] \cup [1 .. 3 -> {1, 9}] \cup [1 .. 5 -> {1, 9}]
                                 \cup {<<a, 4, b, 4, c>> : a, b, c \in {1, 9}}}
    \cup {InsertAt(Exchanged(costs), 3, Marker) : costs \in [1 .. 5 -> {1, 9}]}

Turns == [chat : Chats, shown : {1, 4}, search : {0, 3}, faults : {1}]

(* Two calls a turn, of a search tool, a widget and a name that is neither. *)
Stream == INSTANCE ReplyStream WITH
    Search <- {"web_search"}, Widget <- {"render"}, Name <- {"web_search", "render", "other"},
    MaxToolCalls <- 2, MaxWidgetRetries <- 1, Budgets <- StreamBudgets,
    phase <- v1, calls <- v2, texted <- v3, ran <- v4, rejected <- v5, timeline <- v6,
    thought <- v7, making <- v8, framed <- v9, told <- v10, budget <- v11

Replies == [turns : {1}, deltas : {4}, summaries : {2}]

(* Three callers of two owners, and room to track one.                     *)
Gate == INSTANCE InferenceGate WITH
    Call <- {c1, c2, c3}, Owner <- {o1, o2}, GlobalConcurrent <- 2, CallerConcurrent <- 1,
    GlobalBurst <- 3, CallerBurst <- 2, MaxCallers <- 1, Inputs <- {1, 2}, Budgets <- GateBudgets,
    limits <- v1, callers <- v2, recent <- v3, slots <- v4, rate <- v5, calls <- v6,
    admitted <- v7, budget <- v8

Embeddings == [calls : {5}, refills : {1}]

(* Documents that fill a call, exceed it, or are blank.                    *)
Fold == INSTANCE SummaryFold WITH
    Documents <- FoldDocuments, Earlier <- {0, 1, 5}, Room <- 8, MinPart <- 4, Overhead <- 2,
    Continued <- 1, Summaries <- {1, 3}, Attempts <- 2,
    input <- v1, fold <- v2, docs <- v3, summary <- v4, call <- v5, read <- v6, result <- v7

Texts == UNION {[1 .. n -> [words : 0 .. 5, blank : {0, 2}]] : n \in 0 .. 3}

(* A widget asks one question and, made again, two.                        *)
Edits == INSTANCE ThreadEdits WITH
    Option <- {1, 2}, Asked <- <<{"q"}, {"q", "r"}>>, Single <- {"q"}, Budgets <- EditBudgets,
    msgs <- v1, run <- v2, next <- v3, given <- v4, budget <- v5

Kinds == {"send", "edit", "regenerate", "continue", "retry"}

Changes ==
    {[turns |-> 3, changes |-> 1, during |-> {"answer"}, answers |-> {[q |-> {1}]}, kinds |-> Kinds],
     [turns |-> 2, changes |-> 2, during |-> {"answer"}, kinds |-> Kinds,
      answers |-> {[q |-> {1}], [q |-> None], [r |-> {}], [q |-> {2}, r |-> {1, 2}]}]}

DeletedMeanwhile == [turns : {2}, changes : {1}, during : {{"delete"}}, answers : {{}}, kinds : {{"send"}}]

(* Texts about the longest taken, images about the largest kept.           *)
Uploaded == INSTANCE Uploads WITH
    MaxTextBytes <- 5, MaxUploadBytes <- 4, ModelImageSide <- 2, MaxImagePixels <- 8,
    Deadline <- 4, Delays <- {0, 1, 2}, Budgets <- UploadBudgets,
    Files <-
        [group : {"text", None}, size : {0, 5, 6}, nul : BOOLEAN, sniffs : BOOLEAN, grows : {0, 2},
         magic : {FALSE}, image : {None}]
        \cup [group : {"image"}, size : {3}, nul : {FALSE}, sniffs : {FALSE}, grows : {0}, magic : {FALSE},
              image : {None, <<1, 1>>, <<2, 2>>, <<5, 1>>, <<1, 5>>, <<4, 2>>, <<3, 3>>}]
        \cup [group : {"document", "audio"}, size : {3}, nul : {FALSE}, sniffs : {FALSE}, grows : {0},
              magic : BOOLEAN, image : {None}],
    Clients <-
        [name : {"image", "text"}, kind : {"image", "document"}, text : {0, 6},
         image : {None, <<1, 2>>, <<4, 1>>, <<1, 3>>}, encoded : {0}],
    up <- v1, made <- v2, chat <- v3, turn <- v4, budget <- v5

Attached ==
    {[uploads |-> 2, turns |-> 1, clients |-> FALSE], [uploads |-> 1, turns |-> 2, clients |-> FALSE],
     [uploads |-> 0, turns |-> 1, clients |-> TRUE]}

(* Texts of one byte a character or three, which encoding keeps or grows,  *)
(* about what a submission holds.                                          *)
Plain == [raw |-> 1, encoded |-> 1]
Escaped == [raw |-> 1, encoded |-> 6]
Wide == [raw |-> 3, encoded |-> 3]

Said(text) == [kind |-> "text", text |-> text]
WithParts(parts) == [kind |-> "parts", parts |-> parts]

Asks ==
    {[role |-> "user", content |-> c, calls |-> 0] :
        c \in {Said(<<Plain>>), Said(<<Wide, Escaped>>),
               WithParts(<<[type |-> "image"], [type |-> "text", text |-> <<Plain>>]>>),
               WithParts(<<[type |-> "none"], [type |-> "text", text |-> <<Plain, Plain>>]>>)}}
Spoken ==
    {[role |-> "assistant", content |-> Said(text), calls |-> n] : text \in {<<>>, <<Wide, Wide>>}, n \in 0 .. 1}

ReplyTexts == {<<>>, <<Plain>>, <<Plain, Wide, Escaped>>, [i \in 1 .. 5 |-> Escaped], [i \in 1 .. 25 |-> Plain]}

Submitted == INSTANCE Screening WITH
    Prompts <- {<<>>, <<Wide>>}, Cap <- 24, Frame <- 3, Growth <- 6, Kinds <- {"send", "continue"},
    Histories <-
        {<<q>> : q \in Asks} \cup {<<q, a>> : q \in Asks, a \in Spoken}
        \cup {<<q, a, r>> : q \in Asks, a \in Spoken, r \in Asks},
    Replies <- {<<text>> : text \in ReplyTexts} \cup {<<<<>>, <<Wide>>>>, <<<<Plain>>, <<Plain>>>>},
    Bars <- {None, "cancelled"},
    run <- v1, submitted <- v2

(* Requests of one caller: three that show one of three tokens, where one  *)
(* expires early, two where the caches may overflow, or three that show a  *)
(* free key; or none.                                                      *)
TokenExpiry == <<1, 3, 4>>

NoCalls == [tokens |-> 0, keys |-> 0, evictions |-> 0, changes |-> 0]

OnlyNone == {NoCalls}

Calls ==
    {[tokens |-> 3, keys |-> 0, evictions |-> 0, changes |-> 0],
     [tokens |-> 2, keys |-> 0, evictions |-> 1, changes |-> 0],
     [tokens |-> 0, keys |-> 3, evictions |-> 0, changes |-> 1], NoCalls}

-----------------------------------------------------------------------------
(* Nobody calls while another part goes on.                                *)
Uncalled == Init /\ budget = NoCalls

ReplyInit ==
    \/ part = "callers" /\ Init /\ budget # NoCalls /\ NoneFrom1
    \/ /\ Uncalled
       /\ \/ part = "loop" /\ Loop!Init
          \/ part = "stream" /\ Stream!Init
          \/ part = "gate" /\ Gate!Init /\ NoneFrom9
          \/ part = "fold" /\ Fold!Init /\ NoneFrom8
          \/ part = "edits" /\ Edits!Init /\ NoneFrom6
          \/ part = "uploads" /\ Uploaded!Init /\ NoneFrom6
          \/ part = "screening" /\ Submitted!Init /\ v3 = None /\ v4 = None /\ v5 = None /\ NoneFrom6

ReplyNext ==
    /\ UNCHANGED part
    /\ \/ part = "callers" /\ Next /\ UNCHANGED From1
       \/ /\ UNCHANGED vars
          /\ \/ part = "loop" /\ Loop!Next
             \/ part = "stream" /\ Stream!Next
             \/ part = "gate" /\ Gate!Next /\ UNCHANGED From9
             \/ part = "fold" /\ Fold!Next /\ UNCHANGED From8
             \/ part = "edits" /\ Edits!Next /\ UNCHANGED From6
             \/ part = "uploads" /\ Uploaded!Next /\ UNCHANGED From6
             \/ part = "screening" /\ Submitted!Next /\ UNCHANGED <<v3, v4, v5, From6>>

ReplySpec == ReplyInit /\ [][ReplyNext]_<<part, vars, From1>>

(* The gate tells neither callers nor owners apart, Callers no requests.   *)
Symmetry == Permutations({c1, c2, c3}) \cup Permutations({o1, o2})

-----------------------------------------------------------------------------
(* Each part's properties, with its type invariant.                        *)

(* The loop of a run's model calls keeps within its limits (agent.go): no   *)
(* request fills more than a prompt may, one that preflight let through is *)
(* not refused as too large before its first request unless its summary    *)
(* outgrows its reserve or search tools are offered, the first request a   *)
(* model serves alone is billed as the customer's and the last offers no   *)
(* tools, and a stored compaction marker stands right after what its       *)
(* summary covers.                                                         *)
LoopKeepsLimits ==
    part = "loop" => /\ Loop!TypeOK /\ Loop!RequestsFit /\ Loop!PreflightHolds
                     /\ Loop!BilledOnce /\ Loop!MarkerInPlace

(* The stream of a turn tells what happened (agent.go, tools.go): a        *)
(* summary of thoughts is framed only while the trace it sums up is open,  *)
(* a call kept as complete is one whose turn ended, with the arguments the *)
(* model reads back, and each call has one answer, one whose goroutine     *)
(* panicked included, within a widget's retries.                           *)
StreamTellsCalls ==
    part = "stream" => /\ Stream!TypeOK /\ Stream!SummaryOfOpenTrace
                       /\ Stream!CompleteCallIsWhole /\ Stream!CallsAnswered

(* The gate of embedding calls keeps its shares (gate.go): no caller has   *)
(* more calls in flight than its own, even when its limit was forgotten    *)
(* and made again, every slot is held by a call that will give it back,    *)
(* and the callers' rates gave what the process's gave.                    *)
GateKeepsShares ==
    part = "gate" => Gate!TypeOK /\ Gate!CallerShare /\ Gate!SlotsHeld /\ Gate!RatesAgree

(* A folded summary read every word of every document once and in order,   *)
(* in calls that fit the model's window (summarize.go).                     *)
FoldReadsAll == part = "fold" => Fold!TypeOK /\ Fold!EveryWordRead /\ Fold!CallsFit

(* The chat's widgets hold what their user last answered, also when a turn *)
(* that ran meanwhile is committed, no summary keeps what a message        *)
(* deleted or edited in place said, and what is sent before a question     *)
(* tells the model every answer the widgets hold (finish.go, records.go).  *)
EditsKeepAnswers ==
    [][part = "edits" =>
          /\ (Edits!TypeOK /\ Edits!AnswersKept /\ Edits!SummaryForgets)'
          /\ Edits!AnswersToldStep]_<<part, From1>>

(* "A summary of the deleted message must not keep what it said"           *)
(* (records.go), nor that of a reply edited in place.                      *)
SummaryForgets == part = "edits" => Edits!SummaryForgets

(* What an upload answers with, the turn that sends it back takes; the     *)
(* copy it made of an image is kept as it is; no image is longer on a side *)
(* than models read, or empty; and a busy converter is asked again only    *)
(* within the conversion's deadline (attach.go, documents.go).            *)
UploadsAreTaken ==
    part = "uploads" => /\ Uploaded!TypeOK /\ Uploaded!UploadTaken /\ Uploaded!CopyKept
                        /\ Uploaded!ImagesBounded /\ Uploaded!WaitsInTime

(* What is submitted for screening ends in the run's reply, with a         *)
(* continued reply's earlier text not beside it, is within the sidecar's   *)
(* cap, and leaves out no message that would have fitted before the ones   *)
(* it holds (safeguards.go).                                                *)
ScreensReply == part = "screening" => Submitted!SubmissionFits /\ Submitted!ReplyScreened
=============================================================================
