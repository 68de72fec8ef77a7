------------------------------- MODULE MCStore ------------------------------
(***************************************************************************)
(* Instances, for TLC, of what is stored beside the chats' rows and of     *)
(* what moves it: a chat's attachments, the keys rows are sealed under,    *)
(* the import of an archive into the account, the reading of an archive,   *)
(* the disk it is kept on, the export, and the reads of its images.        *)
(*                                                                         *)
(* The parts share no state.  A behaviour is one of one part, whose        *)
(* variables are v1, v2, ... in the order its module declares them.        *)
(***************************************************************************)
EXTENDS Integers, SequencesExt

CONSTANTS
    None, a1, a2, t1, t2, s1, s2, c1, c2, c3, c4, p1, p2, d1,
    AttachmentBudgets, KeyBudgets, ImportBudgets, ArchiveBudgets, DiskBudgets, ExportBudgets, ExportPages

VARIABLES part, v1, v2, v3, v4, v5, v6, v7, v8, v9, v10, v11, v12

From10 == <<v10, v11, v12>>
From7 == <<v7, v8, v9, From10>>
From6 == <<v6, From7>>
From5 == <<v5, From6>>

vars == <<part, v1, v2, v3, v4, From5>>

NoneFrom10 == v10 = None /\ v11 = None /\ v12 = None
NoneFrom7 == v7 = None /\ v8 = None /\ v9 = None /\ NoneFrom10
NoneFrom6 == v6 = None /\ NoneFrom7
NoneFrom5 == v5 = None /\ NoneFrom6

-----------------------------------------------------------------------------
(* Two turns, an import and two sweeps, of two attachments.                *)
Attached == INSTANCE Attachments WITH
    Att <- {a1, a2}, Turn <- {t1, t2}, Import <- {"import"}, Imported <- {a2}, Sweeper <- {s1, s2},
    ReserveAttempts <- 2, Budgets <- AttachmentBudgets,
    row <- v1, index <- v2, pending <- v3, queue <- v4, lease <- v5, bucket <- v6, writer <- v7,
    sweep <- v8, release <- v9, wipe <- v10, left <- v11, budget <- v12

Attaching(faults, turns, imports, may) ==
    [faults |-> faults, turns |-> turns, imports |-> imports, may |-> may]

Attachings ==
    {Attaching(1, 2, 0, {}), Attaching(1, 1, 1, {}), Attaching(0, 3, 0, {})}

AttachmentReleased == {Attaching(1, 2, 0, {"release"})}

(* Two rows, two keys, two devices, and two replicas that reseal.          *)
Keyed == INSTANCE StoredKeys WITH
    Row <- {"x1", "x2"}, Key <- {"k1", "k2"}, Writer <- {"w1", "w2"}, Device <- {"d1", "d2"},
    Job <- {"j1", "j2"}, ResealPage <- 1, ResealAttempts <- 2, Budgets <- KeyBudgets,
    current <- v1, rows <- v2, last <- v3, wrote <- v4, under <- v5, writer <- v6, device <- v7,
    job <- v8, budget <- v9

Keying(pushes, registrations, reseals, removals, cuts) ==
    [pushes |-> pushes, registrations |-> registrations, reseals |-> reseals,
     removals |-> removals, cuts |-> cuts]

Keyings == {Keying(1, 1, 2, 0, 0), Keying(2, 1, 1, 0, 0), Keying(1, 1, 1, 1, 1), Keying(0, 2, 1, 0, 0)}

(* An archive of a project, its document and its chat; a row sealed under  *)
(* another key holds the chat's first derived id.                          *)
Imported == INSTANCE CloudImport WITH
    Archive <- <<"p", "d", "c">>,
    Kind <- [p |-> "project", d |-> "document", c |-> "chat"],
    Parent <- [p |-> None, d |-> "p", c |-> "p"],
    Replica <- {"r1", "r2"}, MaxGenerations <- 2, Foreign <- {<<"c", 1, None>>}, Budgets <- ImportBudgets,
    rows <- v1, made <- v2, late <- v3, job <- v4, budget <- v5

Importing(jobs, faults, deletions, held) ==
    [jobs |-> jobs, faults |-> faults, deletions |-> deletions, held |-> held]

Importings ==
    {Importing(2, 2, 0, {}), Importing(2, 1, 1, {}), Importing(3, 1, 0, {}), Importing(2, 1, 1, {"p"})}

(* Two archives read at once, of callers two of which are signed out and   *)
(* of whom one may import.                                                 *)
Read == INSTANCE ArchiveImport WITH
    Request <- {"r1", "r2"}, Caller <- {"u1", "g1", "g2"}, Anonymous <- {"g1", "g2"},
    MaxAnonymous <- 1, MaxChats <- 3, Budgets <- ArchiveBudgets,
    req <- v1, running <- v2, jobs <- v3, budget <- v4

Record(format, key, project, path, documents, messages) ==
    [format |-> format, key |-> key, project |-> project, path |-> path, hashed |-> TRUE,
     documents |-> documents, messages |-> messages]

ChatRecord(key, attachments, project, path) ==
    Record("chat", key, project, path, <<>>,
           <<[role |-> "user", attachments |-> attachments], [role |-> "other", attachments |-> <<"image">>]>>)

Chat1 == ChatRecord("c1", <<"image", "bare">>, None, "1")
Chat2 == ChatRecord("c2", <<>>, "p1", "2")
Chat3 == ChatRecord("c3", <<>>, "p2", "3")
Chat4 == ChatRecord("c4", <<>>, None, "8")
Unreadable == [ChatRecord("bad", <<>>, None, "4") EXCEPT !.format = "unknown"]
Project1 == Record("project", "p1", None, "5", <<"d1">>, <<>>)
Document(project, path) == Record("document", path, project, path, <<>>, <<>>)

File(kind, place, depth, records) == [kind |-> kind, part |-> place, depth |-> depth, records |-> records]

Backup(projects, documents, cloud, local) ==
    [kind |-> "backup", projects |-> projects, documents |-> documents, cloudChats |-> cloud,
     localChats |-> local, entries |-> {x.path : x \in ToSet(projects \o documents \o cloud \o local)},
     counts |-> <<Len(projects), Len(documents), Len(cloud), Len(local)>>]

(* Exports of other services, lists of records, and backups: whole, with a *)
(* chat that cannot be read, a document of no project, too many chats, or  *)
(* an entry that is missing.                                               *)
Archives ==
    {[kind |-> "export",
      files |-> <<File("conversations", 1, 0, <<Chat1, Chat2>>), File("conversations", 0, 0, <<Chat2>>),
                  File("conversations", -1, 1, <<Chat3>>), File("project", 0, 1, <<Project1>>)>>],
     [kind |-> "export", files |-> <<File("projects", 0, 0, <<Project1>>)>>],
     [kind |-> "records", records |-> <<Chat1, Unreadable>>],
     [kind |-> "records", records |-> <<>>],
     [kind |-> "records", records |-> <<Chat1, Chat2, Chat3, Chat4>>],
     Backup(<<Project1>>, <<Document("p1", "6")>>, <<Chat2, Chat3>>, <<Chat1>>),
     Backup(<<Project1>>, <<Document("p1", "6")>>, <<Chat2>>, <<Chat1, Unreadable>>),
     Backup(<<Project1>>, <<Document("p2", "7")>>, <<Chat2>>, <<>>),
     Backup(<<Project1>>, <<Document("p1", "6")>>, <<Chat1>>, <<Chat2, Chat3, Chat4>>),
     Backup(<<>>, <<>>, <<Chat1, Chat2, Chat3, Chat4>>, <<>>),
     Backup(<<>>, <<>>, <<Unreadable>>, <<>>),
     [Backup(<<Project1>>, <<>>, <<Chat2>>, <<>>) EXCEPT !.entries = {"5"}]}

Readings == {[archives |-> 2, faults |-> 1, holds |-> Archives]}

(* Three imports on a disk of four units.                                  *)
Disk == INSTANCE Scratch WITH
    Request <- {"r1", "r2", "r3"}, Size <- 4, Chunk <- {1, 2, 3}, Budgets <- DiskBudgets,
    taken <- v1, waiters <- v2, lease <- v3, detached <- v4, budget <- v5

Writes == {[writes |-> 5, files |-> 4]}

(* Chats one and four of a project, one the key does not open, and one     *)
(* whose activity, not recorded yet, files it last; on the device a chat   *)
(* of its own, and its copy of one moved to the cloud.                     *)
Row(scope, project, images, place, opens, activity) ==
    [scope |-> scope, project |-> project, images |-> images, place |-> place,
     opens |-> opens, activity |-> activity]

Exported == INSTANCE Export WITH
    Stored <-
        c1 :> Row("chat", p1, <<"in1", "in2", "kept">>, 9, TRUE, None)
        @@ c2 :> Row("chat", None, <<>>, 8, TRUE, 2)
        @@ c3 :> Row("chat", None, <<>>, 7, FALSE, None)
        @@ c4 :> Row("chat", p2, <<>>, 6, TRUE, None)
        @@ p1 :> Row("project", None, <<>>, 5, TRUE, None)
        @@ p2 :> Row("project", None, <<>>, 4, TRUE, None)
        @@ d1 :> Row("document", p1, <<>>, 3, TRUE, None),
    Device <- <<[id |-> None, images |-> <<"in1">>], [id |-> c4, images |-> <<"in2">>]>>,
    Inline <- {"in1", "in2"}, PageLimit <- 2, Budgets <- ExportBudgets,
    rows <- v1, images <- v2, ex <- v3, zip <- v4, touched <- v5, budget <- v6

Exports ==
    [format : {"native", "conversations"}, key : {TRUE}, writes : {1}, deletions : {1}, faults : {1}]
    \cup [format : {"native", "conversations"}, key : {FALSE}, writes : {0}, deletions : {0}, faults : {0}]

(* A page's chats name up to four attachments, some of them twice.         *)
Images == INSTANCE PageReads WITH
    Pages <- ExportPages, ReadsAhead <- 2,
    page <- v1, reads <- v2, started <- v3, writer <- v4

Pages ==
    UNION {[1 .. n -> {<<1, "a">>, <<1, "b">>, <<2, "a">>, <<2, "c">>, <<3, "a">>}] : n \in 0 .. 4}

-----------------------------------------------------------------------------
Init ==
    \/ part = "attachments" /\ Attached!Init
    \/ part = "keys" /\ Keyed!Init /\ NoneFrom10
    \/ part = "import" /\ Imported!Init /\ NoneFrom6
    \/ part = "archive" /\ Read!Init /\ NoneFrom5
    \/ part = "disk" /\ Disk!Init /\ NoneFrom6
    \/ part = "export" /\ Exported!Init /\ NoneFrom7
    \/ part = "images" /\ Images!Init /\ NoneFrom5

Next ==
    \/ part = "attachments" /\ Attached!Next /\ UNCHANGED part
    \/ part = "keys" /\ Keyed!Next /\ UNCHANGED <<part, From10>>
    \/ part = "import" /\ Imported!Next /\ UNCHANGED <<part, From6>>
    \/ part = "archive" /\ Read!Next /\ UNCHANGED <<part, From5>>
    \/ part = "disk" /\ Disk!Next /\ UNCHANGED <<part, From6>>
    \/ part = "export" /\ Exported!Next /\ UNCHANGED <<part, From7>>
    \/ part = "images" /\ Images!Next /\ UNCHANGED <<part, From5>>

Spec == Init /\ [][Next]_vars

Symmetry == Permutations({t1, t2}) \cup Permutations({s1, s2})

-----------------------------------------------------------------------------
(* Each part's properties, with its type invariant.                        *)

(* What a stored chat names is indexed under it and its bytes are stored,  *)
(* whatever sweeps, deletions and other uploads of the same bytes go on    *)
(* (attachments.go, maintenance.go).                                       *)
NamedIsStored == part = "attachments" => Attached!NamedIsStored

(* What chats name is stored, and stored bytes are never lost from sight:  *)
(* they are indexed, reserved or queued, or in the hands of who deletes    *)
(* them, unless a deletion failed (attachments.go, maintenance.go).        *)
AttachmentsStored ==
    part = "attachments" => Attached!TypeOK /\ Attached!NamedIsStored /\ Attached!Reclaimable

(* A reseal, a job's or a read's, never takes a row back to a text that a  *)
(* writer replaced, no registration strands what the key it replaces       *)
(* sealed, and a reseal that reports nothing remaining or blocked left no  *)
(* row under another key while its target stays registered (keys.go,       *)
(* reseal.go, rewrap.go).                                                  *)
KeysStrandNothing ==
    part = "keys" => Keyed!TypeOK /\ Keyed!ResealKeepsText /\ Keyed!NoneStranded /\ Keyed!CompleteIsWhole

(* However often and wherever an import runs, an entity has one row of it; *)
(* what it reports stored was stored, and what it reports blocked had no   *)
(* project to go under (cloudimport.go).                                   *)
ImportsOnce == part = "import" => Imported!TypeOK /\ Imported!OneCopy /\ Imported!ReportedIsStored

(* The job of a cloud import starts with all the archive has for the       *)
(* cloud, each chat in a project the import holds; a chat that cannot be   *)
(* read fails a restore before any of it is stored; an import that ends    *)
(* well leaves nothing out in silence, and one that fails says so, alone   *)
(* before its first line and as its last after; and the places of          *)
(* signed-out callers are those of their running imports (import.go,       *)
(* restore.go).                                                            *)
ArchivesReadWhole ==
    part = "archive" =>
        /\ Read!TypeOK /\ Read!JobIsWhole /\ Read!UnreadableStoresNothing
        /\ Read!NothingLostInSilence /\ Read!EndsAsStarted /\ Read!PlacesHeld

(* The disk space counted as taken is that of files still to be released,  *)
(* and whoever waits for space waits for someone who does not wait         *)
(* (scratch.go).                                                           *)
DiskNeverStuck == part = "disk" => Disk!TypeOK /\ Disk!SpaceIsHeld /\ Disk!WaitsForProgress

(* Every row that nobody writes or deletes while an export runs is in it   *)
(* or named as left out; a finished backup is one that a restore takes,    *)
(* with no entry twice; a finished conversations export holds each image   *)
(* its chats name; and the images read ahead are within their bound, none  *)
(* waited for that was not started and none read past its page (export.go, *)
(* reads.go).                                                              *)
ExportsWhole ==
    /\ part = "export" =>
          Exported!TypeOK /\ Exported!SettledKept /\ Exported!BackupRestores /\ Exported!NamesOnlyHeld
    /\ part = "images" => Images!TypeOK /\ Images!ReadsBounded /\ Images!WaitsForStarted
=============================================================================
