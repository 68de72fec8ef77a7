------------------------------- MODULE Uploads -------------------------------
(***************************************************************************)
(* A file uploaded, converted to an attachment's descriptor and sent back  *)
(* with the turn that attaches it (internal/attach/attach.go): the upload  *)
(* keeps nothing, so the turn checks the descriptor as if any client had   *)
(* made it.  A document is converted by a service that may be busy.        *)
(*                                                                         *)
(* A file is the group its name puts it in, its size and what its bytes    *)
(* show.  A text is its length, and an image its width and height, none of *)
(* them zero, with as many bytes as pixels.  The chat is one message, which  *)
(* a turn edits.                                                           *)
(***************************************************************************)
EXTENDS Integers, SequencesExt, FiniteSetsExt

CONSTANTS
    MaxTextBytes,
    MaxUploadBytes,
    ModelImageSide,
    MaxImagePixels,     \* of one image, and of the images a turn resizes
    Deadline,           \* ConversionDeadline
    Delays,             \* what a busy service asks to wait
    Files,              \* what clients upload
    Clients,            \* the descriptors clients make themselves
    None,
    Budgets             \* bounds: the uploads, the turns, and whether clients make descriptors

VARIABLES
    up,      \* the upload
    made,    \* the descriptors uploads answered with
    chat,    \* the attachments the chat holds
    turn,    \* the last turn: what it sent, and what refused it
    budget

vars == <<up, made, chat, turn, budget>>

NoUpload == [pc |-> "idle", file |-> None, clock |-> 0, tries |-> 0, refused |-> None]

(* The files and their uploads have the shapes the code gives them. *)
TypeOK ==
    /\ up.pc \in {"idle", "convert", "done"}
    /\ \A n \in DOMAIN chat : chat[n].kind \in {"image", "document", "audio"}

Init ==
    /\ budget \in Budgets
    /\ up = NoUpload
    /\ made = {}
    /\ chat = <<>>
    /\ turn = [sent |-> <<>>, refused |-> None]

-----------------------------------------------------------------------------
(* Groups and images.                                                      *)

KindOf(group) == CASE group \in {"text", "document"} -> "document" [] OTHER -> group

MaxBytes(group) == IF group = "text" THEN MaxTextBytes ELSE MaxUploadBytes

maxContent(group) == IF group \in {"text", "image"} THEN MaxBytes(group) ELSE MaxTextBytes

Side(image) == Max({image[1], image[2]})

Pixels(image) == image[1] * image[2]

(* The copy of an image no longer on either side than side.                *)
Scaled(image, side) ==
    CASE Side(image) <= side -> image
      [] Side(image) > side /\ image[1] >= image[2] -> <<side, Max({1, (image[2] * side) \div image[1]})>>
      [] OTHER -> <<Max({1, (image[1] * side) \div image[2]}), side>>

ResizesTo(image) == Scaled(image, ModelImageSide)

Resizable(image) == image # None /\ Pixels(image) <= MaxImagePixels

(* A descriptor: its text is that of its pages too, and an image tells how *)
(* often it was encoded.                                                   *)
Descriptor(file, group, text, image) ==
    [name |-> file.group, kind |-> KindOf(group), text |-> text, image |-> image,
     encoded |-> IF image = None THEN 0 ELSE 1]

-----------------------------------------------------------------------------
(* The upload.                                                             *)

Refuse(why) == up' = [up EXCEPT !.pc = "done", !.refused = why] /\ UNCHANGED made

Answer(d) == up' = [up EXCEPT !.pc = "done"] /\ made' = made \cup {d}

(* A file of no group is read as text when its bytes look like it.         *)
GroupOf(file) == IF file.group = None /\ file.sniffs THEN "text" ELSE file.group

TextFitsAsRead(file) == TRUE

(* What is not UTF-8 is replaced by something longer.                      *)
TextFits(file) == file.size + file.grows <= maxContent("text")

(* Why Preprocess refuses a file before any service is called.             *)
Refusal(file, group) ==
    CASE file.size = 0 -> "empty"
      [] file.size > 0 /\ group = None -> "type"
      [] file.size > 0 /\ group # None /\ file.size > MaxBytes(group) -> "too large"
      [] group = "text" /\ (file.nul \/ ~TextFits(file)) -> "text"
      [] group = "image" /\ ~Resizable(file.image) -> "image"
      [] group = "document" /\ ~file.magic -> "contents"
      [] OTHER -> None

(* What Preprocess makes of a text or an image.                            *)
Preprocessed(file, group) ==
    IF group = "text" THEN Descriptor(file, group, file.size + file.grows, None)
    ELSE Descriptor(file, group, 0, ResizesTo(file.image))

(* HandleUpload, up to the call of a service.                              *)
Upload(file) ==
    LET group == GroupOf(file)
        why == Refusal(file, group)
        here == why # None \/ group \in {"text", "image"}
    IN /\ up.pc = "idle" /\ budget.uploads > 0
       /\ budget' = [budget EXCEPT !.uploads = @ - 1]
       /\ up' = [up EXCEPT !.pc = IF here THEN "done" ELSE "convert", !.file = file, !.refused = why]
       /\ made' = IF here /\ why = None THEN made \cup {Preprocessed(file, group)} ELSE made
       /\ UNCHANGED <<chat, turn>>

(* multipartCall: an answer as long as a text may be, in time.             *)
Answered(text, took) ==
    /\ up.pc = "convert" /\ up.clock + took < Deadline
    /\ IF text > MaxTextBytes THEN Refuse("too large")
       ELSE Answer(Descriptor(up.file, up.file.group, text, None))
    /\ UNCHANGED <<chat, turn, budget>>

(* Convert waits out a delay that ends before its deadline, counted from   *)
(* when it was asked to.                                                   *)
MayWait(took, delay) == up.file.group = "document" /\ delay # 0 /\ up.clock + took + delay < Deadline

Busy(took, delay) ==
    /\ up.pc = "convert" /\ up.clock + took < Deadline
    /\ IF MayWait(took, delay) THEN up' = [up EXCEPT !.clock = @ + took + delay, !.tries = @ + 1] /\ UNCHANGED made
       ELSE Refuse("busy")
    /\ UNCHANGED <<chat, turn, budget>>

(* A final refusal, or the deadline, or the client gone.                   *)
Failed ==
    /\ up.pc = "convert" /\ Refuse("failed")
    /\ UNCHANGED <<chat, turn, budget>>

Idle ==
    /\ up.pc = "done" /\ up' = NoUpload
    /\ UNCHANGED <<made, chat, turn, budget>>

-----------------------------------------------------------------------------
(* The turn.                                                               *)

(* fitsUpload.                                                             *)
fitsUpload(d) ==
    LET group == IF d.name = None /\ d.kind = "document" /\ d.image = None THEN "text" ELSE d.name
        content == d.text + (IF d.image = None THEN 0 ELSE Pixels(d.image))
    IN /\ group # None /\ KindOf(group) = d.kind
       /\ group = "image" => d.image # None
       /\ content <= maxContent(group)

ResizePixels(d) == IF d.kind # "image" \/ d.image = None \/ Side(d.image) <= ModelImageSide THEN 0 ELSE Pixels(d.image)

(* stored: an image within the bounds is kept.                             *)
stored(d) ==
    IF d.kind # "image" \/ Side(d.image) <= ModelImageSide THEN d
    ELSE [d EXCEPT !.image = ResizesTo(@), !.encoded = @ + 1]

(* OfTurn, of a turn that sends descriptors whole or names what its chat   *)
(* holds.                                                                  *)
Turn(sent, named) ==
    LET pixels == FoldLeft(LAMBDA n, d : n + ResizePixels(d), 0, sent)
        why == CASE \E d \in ToSet(sent) : ~fitsUpload(d) -> "unfit"
                 [] (\A d \in ToSet(sent) : fitsUpload(d)) /\ pixels > MaxImagePixels -> "pixels"
                 [] \E n \in ToSet(named) : n \notin DOMAIN chat -> "not found"
                 [] OTHER -> None
    IN /\ budget.turns > 0
       /\ budget' = [budget EXCEPT !.turns = @ - 1]
       /\ turn' = [sent |-> sent, refused |-> why]
       /\ chat' = IF why # None THEN chat
                  ELSE [n \in DOMAIN named |-> chat[named[n]]] \o [n \in DOMAIN sent |-> stored(sent[n])]
       /\ UNCHANGED <<up, made>>

Next ==
    \/ \E file \in Files : Upload(file)
    \/ \E text \in 0..MaxTextBytes + 1, took \in {0, 1} : Answered(text, took)
    \/ \E took \in {0, 1}, delay \in Delays : Busy(took, delay)
    \/ Failed \/ Idle
    \/ \E a, b \in made \cup (IF budget.clients THEN Clients ELSE {}) : Turn(<<a>>, <<>>) \/ Turn(<<a, b>>, <<>>)
    \/ \E n \in 1..2 : Turn(<<>>, <<n>>) \/ \E d \in made : Turn(<<d>>, <<n>>)

Spec == Init /\ [][Next]_vars

-----------------------------------------------------------------------------
(* What an upload answers with, the turn that sends it back takes: no file *)
(* is converted and then refused.                                          *)
UploadTaken == ToSet(turn.sent) \subseteq made => turn.refused \notin {"unfit", "pixels"}

(* The copy an upload made of an image is kept as it is, however often it  *)
(* is sent and named: it is not encoded anew.                              *)
CopyKept == turn.refused = None /\ ToSet(turn.sent) \subseteq made => ToSet(turn.sent) \subseteq ToSet(chat)

(* No image a chat holds is longer on a side than models read, or has a    *)
(* side of nothing.                                                        *)
ImagesBounded ==
    \A n \in DOMAIN chat : chat[n].kind = "image" =>
        Side(chat[n].image) <= ModelImageSide /\ Pixels(chat[n].image) >= 1

(* A busy service is asked again only within the deadline, and no more     *)
(* often than the deadline has time for.                                   *)
WaitsInTime == up.clock < Deadline /\ up.tries <= up.clock

=============================================================================
