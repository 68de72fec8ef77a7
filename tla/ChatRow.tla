------------------------------ MODULE ChatRow ------------------------------
(***************************************************************************)
(* A stored chat's content (internal/domain Thread) and the changes its    *)
(* writers make to it: a turn asks (internal/engine/transcript.go), a      *)
(* run's end commits its reply (finish.go), and an edit is any other       *)
(* change made by MutateThread, such as a new title or an answer.          *)
(*                                                                         *)
(* A message is its id.  A question takes its request's nonce, a reply the *)
(* run that wrote it, and a continued reply keeps its own.  The field by   *)
(* is a history: the launches and the ends whose change the row holds.     *)
(***************************************************************************)
EXTENDS Naturals, Sequences, FiniteSetsExt, Functions

CONSTANTS
    Run,      \* the runs that are started on the chat
    Editor,   \* the calls that change it otherwise
    Nonce,    \* the ids of the requests
    Turn,     \* the request each run carries out
    None

Message == Nonce \cup Run

Kind == {"send", "edit", "regenerate", "continue", "answer"}

Request == [nonce : Nonce, kind : Kind, on : Message \cup {None}]

ASSUME ChatAssumption ==
    /\ Turn \in [Run -> Request]
    /\ Nonce \cap Run = {}
    /\ Run \cap Editor = {}
    /\ None \notin Message \cup Editor
    /\ \A r \in Run : Turn[r].kind = "continue" => Turn[r].on # None

Thread == [msgs   : Seq(Message),            \* Thread.Messages
           last   : Nonce \cup {None},       \* Thread.LastRequestID
           active : Run \cup {None},         \* Thread.ActiveRun
           edits  : SUBSET Editor,
           by     : SUBSET (Run \X {"launch", "finish"})]

ASSUME NilAssumption == None \notin Thread

newThread == [msgs |-> <<>>, last |-> None, active |-> None,
              edits |-> {}, by |-> {}]

(* The turns that name a message to cut the chat at.                       *)
Cuts(turn) == turn.kind \in {"edit", "regenerate", "continue"}

Asks(turn) == turn.kind \in {"send", "edit"}

(* A cut finds its message, and in the role its kind is about.             *)
Applicable(turn, msgs) ==
    \/ turn.nonce \in Range(msgs)
    \/ ~Cuts(turn)
    \/ /\ turn.on \in Range(msgs)
       /\ turn.on \in Nonce <=> turn.kind = "edit"

(* A continuation keeps the reply it extends.                              *)
CutAt(turn, msgs) ==
    LET index == Min({i \in DOMAIN msgs : msgs[i] = turn.on})
    IN  SubSeq(msgs, 1, IF turn.kind = "continue" THEN index ELSE index - 1)

applyTurnAgain(turn, msgs) ==
    LET kept == IF Cuts(turn) THEN CutAt(turn, msgs) ELSE msgs
    IN  IF Asks(turn) THEN Append(kept, turn.nonce) ELSE kept

applyTurn(turn, msgs) ==
    IF turn.nonce \in Range(msgs) THEN msgs
    ELSE LET kept == IF Cuts(turn) THEN CutAt(turn, msgs) ELSE msgs
         IN  IF Asks(turn) THEN Append(kept, turn.nonce) ELSE kept

(* What prepareTurn makes of the chat it read.                             *)
Asked(r, chat) ==
    [chat EXCEPT !.msgs = applyTurn(Turn[r], @), !.last = Turn[r].nonce,
                 !.active = r, !.by = @ \cup {<<r, "launch">>}]

ReplyId(r) == IF Turn[r].kind = "continue" THEN Turn[r].on ELSE r

(* finishRun's commit: a reply the chat does not hold is appended, one it  *)
(* continued is replaced in place, and the run's own marker is cleared.    *)
Replied(r, chat) ==
    [chat EXCEPT !.msgs = IF ReplyId(r) \in Range(@) THEN @ ELSE Append(@, ReplyId(r)),
                 !.active = IF @ = r THEN None ELSE @,
                 !.by = @ \cup {<<r, "finish">>}]

Edited(w, chat) == [chat EXCEPT !.edits = @ \cup {w}]
=============================================================================
