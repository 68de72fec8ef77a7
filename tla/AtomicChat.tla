----------------------------- MODULE AtomicChat -----------------------------
(***************************************************************************)
(* What the store promises of a chat: its writers read and write it in one *)
(* step, so no change is made to another chat than the one that is stored, *)
(* none is lost under another's and none is made twice.  StoredChat shows  *)
(* that reading at a revision, pushing at it and retrying, over a network  *)
(* that loses and delays answers, implements this.                         *)
(*                                                                         *)
(* There is one exception.  A push that creates a chat names no revision,  *)
(* so a copy of it that was delayed fits again once the chat is deleted,   *)
(* and the turn, which conflicted meanwhile, may ask a second time.        *)
(***************************************************************************)
EXTENDS ChatRow

VARIABLES
    chat,      \* the stored chat, or None
    deletion   \* whether its deletion was ever asked for

AInit == chat = None /\ deletion = FALSE

(* A turn starts a chat or continues it, once unless the chat was deleted  *)
(* meanwhile, and never one whose last request it is.                      *)
AAsk(r) ==
    LET before == IF chat = None THEN newThread ELSE chat
    IN  /\ <<r, "launch">> \in before.by => deletion
        /\ before.last # Turn[r].nonce
        /\ Applicable(Turn[r], before.msgs)
        /\ chat' = Asked(r, before)
        /\ UNCHANGED deletion

(* A run's end needs the chat to be there still.                           *)
AReply(r) ==
    /\ chat # None
    /\ <<r, "finish">> \notin chat.by
    /\ chat' = Replied(r, chat)
    /\ UNCHANGED deletion

AEdit(w) ==
    /\ chat # None
    /\ w \notin chat.edits
    /\ chat' = Edited(w, chat)
    /\ UNCHANGED deletion

AAskDeletion ==
    /\ deletion' = TRUE
    /\ UNCHANGED chat

ADelete ==
    /\ deletion
    /\ chat # None
    /\ chat' = None
    /\ UNCHANGED deletion

ANext ==
    \/ \E r \in Run : AAsk(r) \/ AReply(r)
    \/ \E w \in Editor : AEdit(w)
    \/ AAskDeletion \/ ADelete

ASpec == AInit /\ [][ANext]_<<chat, deletion>>
=============================================================================
