------------------------------- MODULE Export -------------------------------
(***************************************************************************)
(* An export of everything the caller stores (internal/archives: export.go *)
(* backup.go, reads.go) and whether a restore takes it (restore.go), while *)
(* rows are written and deleted.  Rows are listed newest first in pages, a *)
(* page after the last row of the one before as the rows sort then         *)
(* (internal/store/store.go, EachPage).                                    *)
(*                                                                         *)
(* A native backup holds projects, their documents and chats with each     *)
(* image beside them; a conversations export names the images of its chats *)
(* first and reads them again once every chat is written.                  *)
(***************************************************************************)
EXTENDS Naturals, SequencesExt, FiniteSetsExt

CONSTANTS
    Stored,      \* the rows at first: id to its scope, project, images and
                 \* place, whether the key opens it, and where its activity
                 \* puts it once that is recorded
    Device,      \* the device's chats, in the order they are sent
    Inline,      \* images a chat holds itself
    None,
    PageLimit,   \* the rows of a page
    Budgets      \* bound: the format, whether the cloud's key is given, and how
                 \* many writes, deletions and faults there are

VARIABLES
    rows,     \* the rows now
    images,   \* the images storage holds
    ex,       \* the export
    zip,      \* what it wrote
    touched,  \* history: the rows written or deleted since it began
    budget

vars == <<rows, images, ex, zip, touched, budget>>

Kinds == {"projects", "project_documents", "cloud_chats", "local_chats", "images"}

Spend(what) == budget[what] > 0 /\ budget' = [budget EXCEPT ![what] = @ - 1]

(* The rows, the export and its archive have the shapes the code gives them. *)
TypeOK ==
    /\ DOMAIN rows \subseteq DOMAIN Stored
    /\ \A a, b \in DOMAIN rows : rows[a].place = rows[b].place => a = b
    /\ ex.pc \in {"projects", "documents", "chats", "device", "images", "done", "failed", "repeated"}
    /\ ex.again # <<>> => ex.pc \in {"device", "chats", "images", "failed"}
    /\ zip.counts \in [Kinds -> Nat]

Init ==
    /\ budget \in Budgets
    /\ rows = Stored
    /\ images = UNION {ToSet(Stored[id].images) : id \in DOMAIN Stored} \ Inline
    /\ ex = [pc |-> IF budget.format = "native" /\ budget.key THEN "projects" ELSE "device",
             cursor |-> None, seen |-> {}, page |-> <<>>, more |-> TRUE, held |-> {},
             projects |-> {}, chats |-> {}, device |-> Device, again |-> <<>>, reread |-> None]
    /\ zip = [files |-> {}, omitted |-> {}, names |-> {}, counts |-> [k \in Kinds |-> 0]]
    /\ touched = {}

-----------------------------------------------------------------------------
(* The account, meanwhile.                                                 *)

(* A row is written: it is listed first, and a chat may lose an image.     *)
Write(id) ==
    /\ Spend("writes")
    /\ \E drop \in 0 .. Min({1, Len(rows[id].images)}) :
         rows' = [rows EXCEPT ![id].place = Max({rows[r].place : r \in DOMAIN rows}) + 1,
                              ![id].activity = None,
                              ![id].images = SubSeq(@, drop + 1, Len(@))]
    /\ touched' = touched \cup {id}
    /\ UNCHANGED <<images, ex, zip>>

(* A row is deleted; a project's documents go with it.                     *)
Delete(id) ==
    LET gone == {id} \cup {r \in DOMAIN rows : rows[r].scope = "document" /\ rows[r].project = id}
    IN /\ Spend("deletions")
       /\ rows' = [r \in DOMAIN rows \ gone |-> rows[r]]
       /\ images' = images \ ToSet(rows[id].images)
       /\ touched' = touched \cup gone
       /\ UNCHANGED <<ex, zip>>

-----------------------------------------------------------------------------
(* Listing.                                                                *)

AfterSkipping(scope, cursor) ==
    {id \in DOMAIN rows : rows[id].scope = scope /\ (cursor # None => rows[id].place + 1 < cursor)}

(* handleListStatus: a scope's rows after a cursor.                        *)
After(scope, cursor) ==
    {id \in DOMAIN rows : rows[id].scope = scope /\ (cursor # None => rows[id].place < cursor)}

(* A page of them, newest first.                                           *)
PageOf(scope, cursor) ==
    LET all == SetToSortSeq(After(scope, cursor), LAMBDA a, b : rows[a].place > rows[b].place)
    IN SubSeq(all, 1, Min({PageLimit, Len(all)}))

(* EachPage hands over each row once.                                      *)
Fresh(page) == SelectSeq(page, LAMBDA id : id \notin ex.seen)

(* backfillChatActivity: a chat read before its activity was recorded is   *)
(* filed where its activity puts it.                                       *)
Backfilled(read) ==
    [id \in DOMAIN rows |->
        IF id \in read /\ rows[id].activity # None
        THEN [rows[id] EXCEPT !.place = rows[id].activity, !.activity = None] ELSE rows[id]]

(* EachPage: a page listed and read.  The rows the key opens and the       *)
(* control plane serves are visited, the others named as omitted.          *)
List(scope) ==
    LET page == PageOf(scope, ex.cursor)
        fresh == Fresh(page)
        readable == {id \in ToSet(fresh) : rows[id].opens}
    IN /\ ex.page = <<>> /\ ex.more
       /\ \E read \in SUBSET readable : \E filed \in {read, {}} :
            /\ IF read = readable /\ filed = read THEN UNCHANGED budget ELSE Spend("faults")
            /\ rows' = Backfilled(filed)
            /\ ex' = [ex EXCEPT
                 !.page = [i \in DOMAIN SelectSeq(fresh, LAMBDA id : id \in read) |->
                              LET id == SelectSeq(fresh, LAMBDA x : x \in read)[i]
                              IN [id |-> id, project |-> rows[id].project, images |-> rows[id].images]],
                 !.seen = @ \cup ToSet(page),
                 !.held = images,
                 !.cursor = IF page = <<>> THEN @ ELSE rows[Last(page)].place,
                 !.more = Len(page) = PageLimit]
            /\ zip' = [zip EXCEPT !.omitted = @ \cup (ToSet(fresh) \ read)]
       /\ UNCHANGED <<images, touched>>

(* A listing fails, which fails the export.                                *)
ListFails ==
    /\ ex.pc \in {"projects", "chats"}
    /\ ex.page = <<>> /\ ex.more
    /\ Spend("faults")
    /\ ex' = [ex EXCEPT !.pc = "failed"]
    /\ UNCHANGED <<rows, images, zip, touched>>

Listed == ex.page = <<>> /\ ~ex.more

(* The export goes on to its next part.                                    *)
Onto(pc) ==
    /\ ex' = [ex EXCEPT !.pc = pc, !.page = <<>>, !.cursor = None, !.seen = {}, !.more = TRUE]
    /\ UNCHANGED <<rows, images, zip, touched, budget>>

-----------------------------------------------------------------------------
(* The native backup.                                                      *)

(* BackupWriter.Add of entries, counted by kind; one the backup holds      *)
(* already is refused, which fails the export.                             *)
Add(files, omitted, after) ==
    IF files \cap zip.files # {}
    THEN ex' = [ex EXCEPT !.pc = "repeated"] /\ UNCHANGED zip
    ELSE /\ ex' = after
         /\ zip' = [zip EXCEPT !.files = @ \cup files, !.omitted = @ \cup omitted,
                       !.counts = [k \in Kinds |-> @[k] + Cardinality({f \in files : f[1] = k})]]

(* writeBackup of a project, then of its documents.                        *)
Project ==
    /\ ex.pc = "projects" /\ ex.page # <<>>
    /\ Add({<<"projects", Head(ex.page).id>>}, {},
           [ex EXCEPT !.pc = "documents", !.projects = @ \cup {Head(ex.page).id}])
    /\ UNCHANGED <<rows, images, touched, budget>>

(* ProjectDocuments, listed and read at once.                              *)
Documents ==
    LET p == Head(ex.page).id
        docs == {id \in DOMAIN rows : rows[id].scope = "document" /\ rows[id].project = p}
        readable == {d \in docs : rows[d].opens}
    IN /\ ex.pc = "documents"
       /\ \E read \in SUBSET readable :
            /\ IF read = readable THEN UNCHANGED budget ELSE Spend("faults")
            /\ Add({<<"project_documents", d, p>> : d \in read}, docs \ read,
                   [ex EXCEPT !.pc = "projects", !.page = Tail(@)])
       /\ UNCHANGED <<rows, images, touched>>

(* readStored of a chat's images, ahead of the chat: one deleted since the *)
(* page was listed may have been read before, and one storage does not     *)
(* serve, a fault, is left out as one it no longer holds is.               *)
ReadImages(chat, got) ==
    /\ \A i \in got : chat.images[i] \in Inline \cup images \cup ex.held
    /\ IF \A i \in DOMAIN chat.images \ got : chat.images[i] \notin Inline \cup images
       THEN UNCHANGED budget ELSE Spend("faults")

(* backupChat: the images read, then the chat, linked to the project it is *)
(* in.                                                                     *)
backupChat(kind, chat, project, after) ==
    \E got \in SUBSET DOMAIN chat.images :
        LET entry(i) == <<"images", chat.id, i>>
        IN /\ ReadImages(chat, got)
           /\ Add({entry(i) : i \in got} \cup {<<kind, chat.id, project>>},
                  {entry(i) : i \in DOMAIN chat.images \ got}, after)
           /\ UNCHANGED <<rows, images, touched>>

(* A chat's project, unless the backup does not hold it.                   *)
Kept(project) == IF project \in ex.projects THEN project ELSE None

CloudChat ==
    /\ budget.format = "native"
    /\ ex.pc = "chats" /\ ex.page # <<>>
    /\ backupChat("cloud_chats", Head(ex.page), Kept(Head(ex.page).project),
                  [ex EXCEPT !.page = Tail(@), !.chats = @ \cup {Head(ex.page).id}])

(* A chat moved to the cloud whose device copy remains is kept once.       *)
LocalChat ==
    /\ budget.format = "native"
    /\ ex.pc = "device" /\ ex.device # <<>>
    /\ IF Head(ex.device).id \in ex.chats
       THEN /\ ex' = [ex EXCEPT !.device = Tail(@)]
            /\ zip' = [zip EXCEPT !.omitted = @ \cup {<<"local_chats", Head(ex.device).id>>}]
            /\ UNCHANGED <<rows, images, touched, budget>>
       ELSE backupChat("local_chats", Head(ex.device), None, [ex EXCEPT !.device = Tail(@)])

(* openNativeBackup takes a backup whose counts match its entries, and     *)
(* nativeCloud one whose documents are filed with their project; a chat    *)
(* without its project's link is not refused but loses it.                 *)
Restores ==
    /\ \A k \in Kinds : zip.counts[k] = Cardinality({f \in zip.files : f[1] = k})
    /\ \A f \in zip.files :
         f[1] \in {"project_documents", "cloud_chats"} =>
            f[3] = None \/ <<"projects", f[3]>> \in zip.files

-----------------------------------------------------------------------------
(* The conversations export.                                               *)

(* conversationsExport.chat: the chat names the images read, each to be    *)
(* written at a path of its own once read again: an inline one from its    *)
(* place in the chat.                                                      *)
Conversation(chat, after) ==
    \E got \in SUBSET DOMAIN chat.images :
        /\ ReadImages(chat, got)
        /\ zip' = [zip EXCEPT !.files = @ \cup {<<"chat", chat.id>>},
                              !.omitted = @ \cup {<<"images", chat.id, i>> : i \in DOMAIN chat.images \ got},
                              !.names = @ \cup {[path |-> <<chat.id, i>>, bytes |-> chat.images[i]] : i \in got}]
        /\ ex' = [after EXCEPT !.again = @ \o
                    SelectSeq([i \in DOMAIN chat.images |->
                                  [path |-> <<chat.id, i>>, chat |-> chat, at |-> i,
                                   bytes |-> chat.images[i]]],
                              LAMBDA image : image.at \in got)]
        /\ UNCHANGED <<rows, images, touched>>

DeviceConversation ==
    /\ budget.format = "conversations"
    /\ ex.pc = "device" /\ ex.device # <<>>
    /\ Conversation(Head(ex.device), [ex EXCEPT !.device = Tail(@), !.chats = @ \cup {Head(ex.device).id}])

(* eachStoredChat, without the chats the device sent.                      *)
StoredConversation ==
    /\ budget.format = "conversations"
    /\ ex.pc = "chats" /\ ex.page # <<>>
    /\ IF Head(ex.page).id \in ex.chats
       THEN ex' = [ex EXCEPT !.page = Tail(@)] /\ UNCHANGED <<rows, images, zip, touched, budget>>
       ELSE Conversation(Head(ex.page), [ex EXCEPT !.page = Tail(@)])

(* The chat an inline image is read from again, kept for its next images.  *)
RereadChat(image) ==
    IF image.chat \in ToSet(Device) THEN image.chat
    ELSE IF ex.reread # None /\ ex.reread.id = image.chat.id THEN ex.reread
    ELSE IF image.chat.id \in DOMAIN rows
         THEN [id |-> image.chat.id, images |-> rows[image.chat.id].images] ELSE None

(* readAgain: what an image reads as now, or None.                         *)
ReadAgain(image) ==
    IF image.bytes \notin Inline THEN IF image.bytes \in images THEN image.bytes ELSE None
    ELSE LET chat == RereadChat(image)
         IN IF chat # None /\ image.at \in DOMAIN chat.images THEN chat.images[image.at] ELSE None

(* writeImage: one not read as it first was fails the export.              *)
SameAs(image) == ReadAgain(image) = image.bytes

WriteImage ==
    LET image == Head(ex.again)
    IN /\ ex.pc = "images" /\ ex.again # <<>>
       /\ \/ /\ SameAs(image)
             /\ zip' = [zip EXCEPT !.files = @ \cup {<<"image", image.path, ReadAgain(image)>>}]
             /\ ex' = [ex EXCEPT !.again = Tail(@),
                                 !.reread = IF image.bytes \in Inline THEN RereadChat(image) ELSE @]
             /\ UNCHANGED budget
          \/ /\ IF SameAs(image) THEN Spend("faults") ELSE UNCHANGED budget
             /\ ex' = [ex EXCEPT !.pc = "failed"]
             /\ UNCHANGED zip
       /\ UNCHANGED <<rows, images, touched>>

-----------------------------------------------------------------------------
Next ==
    \/ \E id \in DOMAIN rows : Write(id) \/ Delete(id)
    \/ ListFails
    \/ ex.pc = "projects" /\ List("project")
    \/ Project \/ Documents
    \/ ex.pc = "projects" /\ Listed /\ Onto("chats")
    \/ ex.pc = "chats" /\ List("chat")
    \/ CloudChat \/ StoredConversation
    \/ ex.pc = "chats" /\ Listed /\ Onto(IF budget.format = "native" THEN "device" ELSE "images")
    \/ LocalChat \/ DeviceConversation
    \/ ex.pc = "device" /\ ex.device = <<>> 
         /\ Onto(IF budget.format = "native" THEN "done" ELSE IF budget.key THEN "chats" ELSE "images")
    \/ WriteImage
    \/ ex.pc = "images" /\ ex.again = <<>> /\ Onto("done")

Spec == Init /\ [][Next]_vars

-----------------------------------------------------------------------------
(* The rows an archive holds or names as left out, and the documents of a  *)
(* project it does not hold, which go with it.                             *)
Accounted ==
    LET named == zip.omitted \cup {f[2] : f \in zip.files}
    IN named \cup {id \in DOMAIN rows : rows[id].scope = "document" /\ rows[id].project \notin ex.projects}

Exported(scope) == budget.key /\ (scope = "chat" \/ budget.format = "native")

(* Every row that nobody writes or deletes while a finished export runs is *)
(* in it, or named as left out: a page begins where the last one ended,    *)
(* whatever moved to the front or was filed back meanwhile.                *)
SettledKept ==
    ex.pc = "done" =>
        \A id \in DOMAIN rows \ touched : Exported(rows[id].scope) => id \in Accounted

(* A finished native backup is one a restore takes, losing no chat its     *)
(* project, and no export fails for being given an entry twice: a chat     *)
(* listed again, and a device copy of a stored chat, are passed over.      *)
BackupRestores ==
    /\ ex.pc # "repeated"
    /\ ex.pc = "done" /\ budget.format = "native" => Restores

(* A finished conversations export holds each image its chats name, as it  *)
(* was read when its chat was written.                                     *)
NamesOnlyHeld ==
    ex.pc = "done" => \A n \in zip.names : <<"image", n.path, n.bytes>> \in zip.files

=============================================================================
