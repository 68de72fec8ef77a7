---------------------------- MODULE ArchiveImport ----------------------------
(***************************************************************************)
(* Reading an archive into chats (internal/archives/import.go and          *)
(* restore.go): an export of another service, or a backup, each of its     *)
(* records in turn, either streamed back to the device or written to the   *)
(* archive of a cloud import, whose job starts once every record it holds  *)
(* was read.                                                               *)
(*                                                                         *)
(* An archive is what it holds, record by record.  An attachment is        *)
(* "image" or "document", or "bare" of its content.                        *)
(***************************************************************************)
EXTENDS Integers, SequencesExt, FiniteSetsExt

CONSTANTS
    Request,
    Caller,
    Anonymous,          \* the callers that are signed out
    MaxAnonymous,       \* maxAnonymousArchives
    MaxChats,           \* maxImportChats
    None,
    Budgets             \* bound: the archives sent, and the faults met

VARIABLES
    req,     \* the imports
    running, \* anonymousArchives.running
    jobs,    \* each caller's running import job: the request that started it
    budget

vars == <<req, running, jobs, budget>>

Active == {r \in Request : req[r].state = "reading"}

Idle == [state |-> "idle", caller |-> None, archive |-> None, cloud |-> FALSE, todo |-> <<>>, seen |-> {},
         recognized |-> FALSE, chats |-> 0, out |-> <<>>, entities |-> <<>>, left |-> 0, skipped |-> 0,
         unlinked |-> 0, job |-> FALSE, failed |-> None]

(* The reading of an archive and its job have the shapes the code gives them. *)
TypeOK ==
    /\ running \subseteq Anonymous
    /\ Cardinality(running) <= MaxAnonymous
    /\ \A c \in Caller : jobs[c] # None => req[jobs[c]].job /\ req[jobs[c]].caller = c /\ req[jobs[c]].cloud
    /\ \A r \in Request : /\ req[r].state \in {"idle", "reading", "ended"}
                          /\ req[r].state = "ended" <=> (req[r].out # <<>> /\ Last(req[r].out).line # "thread")

Init ==
    /\ budget \in Budgets
    /\ req = [r \in Request |-> Idle]
    /\ running = {}
    /\ jobs = [c \in Caller |-> None]

-----------------------------------------------------------------------------
(* The answer (importStream).                                              *)

(* finish: the line that ends the answer, or the error alone where no line *)
(* was written.                                                            *)
Finished(q, why) ==
    [q EXCEPT !.state = "ended", !.todo = <<>>, !.failed = why,
              !.out = CASE why = None -> Append(@, [line |-> "done", job |-> q.job])
                        [] why # None /\ q.out = <<>> -> <<[line |-> "refused"]>>
                        [] OTHER -> Append(@, [line |-> "error"])]

(* HandleImport's deferred end gives an anonymous caller's place back,     *)
(* however the import ended.                                               *)
PlacesAfter(q) == IF q.state = "ended" THEN running \ {q.caller} ELSE running

Put(r, q) == req' = [req EXCEPT ![r] = q] /\ running' = PlacesAfter(q)

-----------------------------------------------------------------------------
(* What an archive gives to read, in order.                                *)

shallowest(files) == SelectSeq(files, LAMBDA f : \A g \in ToSet(files) : f.depth <= g.depth)

(* A stable sort by part, conversations.json first.                        *)
conversationFiles(files) ==
    LET found == shallowest(SelectSeq(files, LAMBDA f : f.kind = "conversations"))
        before(m, n) == found[m].part < found[n].part \/ (found[m].part = found[n].part /\ m < n)
        order == SetToSortSeq(DOMAIN found, before)
    IN [n \in DOMAIN order |-> found[order[n]]]

projectFiles(files) ==
    shallowest(SelectSeq(files, LAMBDA f : f.kind = "projects")) \o SelectSeq(files, LAMBDA f : f.kind = "project")

(* openNativeBackup: every entry is listed once, as it is.                 *)
Opens(backup) ==
    LET files == backup.projects \o backup.documents \o backup.cloudChats \o backup.localChats
    IN /\ \A m, n \in DOMAIN files : m # n => files[m].path # files[n].path
       /\ {files[n].path : n \in DOMAIN files} = backup.entries
       /\ \A n \in DOMAIN files : files[n].hashed
       /\ backup.counts = <<Len(backup.projects), Len(backup.documents), Len(backup.cloudChats), Len(backup.localChats)>>

Each(op, records) == [n \in DOMAIN records |-> [op |-> op, record |-> records[n]]]

CompletesOnly == <<[op |-> "complete", record |-> None]>>

(* native: with cloud storage the device's chats are checked before the    *)
(* cloud's part is stored, and streamed after it.                          *)
native(backup, cloud) ==
    IF cloud
    THEN Each("check", backup.localChats)
            \o Each("project", backup.projects) \o Each("document", backup.documents) \o Each("chat", backup.cloudChats)
            \o CompletesOnly \o Each("local", backup.localChats)
    ELSE Each("local", backup.cloudChats \o backup.localChats) \o CompletesOnly

(* export: the records of the files that hold any.                         *)
export(files) ==
    LET records == conversationFiles(files) \o projectFiles(files)
        all == FlattenSeq([n \in DOMAIN records |-> Each("record", records[n].records)])
    IN IF records = <<>> THEN <<[op |-> "record", record |-> [format |-> "unknown"]]>> ELSE all \o CompletesOnly

(* run.                                                                    *)
Reads(a, cloud) ==
    CASE a.kind = "export" -> export(a.files)
      [] a.kind = "records" -> Each("record", a.records) \o CompletesOnly
      [] a.kind = "backup" -> IF Opens(a) THEN native(a, cloud) ELSE <<[op |-> "record", record |-> [format |-> "unknown"]]>>

(* HandleImport.  A signed-out caller imports to its device, one archive   *)
(* at a time, while there is a place.                                      *)
Import(r, c, a, cloud) ==
    LET q == [Idle EXCEPT !.caller = c, !.archive = a, !.cloud = cloud]
        begun == [q EXCEPT !.state = "reading", !.todo = Reads(a, cloud),
                           !.recognized = a.kind = "backup", !.skipped = IF a.kind = "backup" /\ ~cloud THEN Len(a.projects) ELSE 0]
    IN /\ req[r].state = "idle" /\ budget.archives > 0
       /\ budget' = [budget EXCEPT !.archives = @ - 1]
       /\ CASE c \notin Anonymous -> req' = [req EXCEPT ![r] = begun] /\ UNCHANGED running
            [] c \in Anonymous /\ (c \in running \/ Cardinality(running) >= MaxAnonymous) ->
                 req' = [req EXCEPT ![r] = Finished(q, "busy")] /\ UNCHANGED running
            [] OTHER -> IF cloud THEN Put(r, Finished(q, "signed out"))
                        ELSE req' = [req EXCEPT ![r] = begun] /\ running' = running \cup {c}
       /\ UNCHANGED jobs

-----------------------------------------------------------------------------
(* Reading.                                                                *)

Doing(r, op) == r \in Active /\ req[r].todo # <<>> /\ Head(req[r].todo).op = op

Done(r) == [req[r] EXCEPT !.todo = Tail(@)]

Unreadable(record) == record.format = "unknown"

Spoils == budget.faults > 0

Spoil == budget' = [budget EXCEPT !.faults = @ - 1]

(* prepare: messages of the roles a chat has, and attachments with their   *)
(* content.                                                                *)
prepare(c) ==
    LET messages == SelectSeq(c.messages, LAMBDA m : m.role # "other")
    IN [key |-> c.key,
        messages |-> [n \in DOMAIN messages |-> SelectSeq(messages[n].attachments, LAMBDA a : a # "bare")]]

LeftOut(c) ==
    LET bare(m) == Len(SelectSeq(m.attachments, LAMBDA a : a = "bare"))
    IN FoldLeft(LAMBDA n, m : n + (IF m.role = "other" THEN 0 ELSE bare(m)), 0, c.messages)

Counted(q, c) == [q EXCEPT !.chats = @ + 1, !.left = @ + LeftOut(c)]

TooMany(q) == q.chats >= MaxChats

Entity(kind, key, project, held) == [kind |-> kind, key |-> key, project |-> project, held |-> held]

(* toDevice, and the line it writes, which a client that is gone does not  *)
(* take.                                                                   *)
toDevice(r, q, c) ==
    \/ TooMany(q) /\ Put(r, Finished(Counted(q, c), "limit")) /\ UNCHANGED budget
    \/ ~TooMany(q) /\ UNCHANGED budget
       /\ Put(r, [Counted(q, c) EXCEPT !.out = Append(@, [line |-> "thread", chat |-> prepare(c)]),
                                       !.unlinked = @ + (IF c.project # None THEN 1 ELSE 0)])
    \/ ~TooMany(q) /\ Spoils /\ Spoil /\ Put(r, Finished(Counted(q, c), "gone"))

(* toCloud, and the entity it writes, for which there may be no space.     *)
toCloud(r, q, c, project) ==
    \/ TooMany(q) /\ Put(r, Finished(Counted(q, c), "limit")) /\ UNCHANGED budget
    \/ ~TooMany(q) /\ UNCHANGED budget
       /\ Put(r, [Counted(q, c) EXCEPT !.entities = Append(@, Entity("chat", c.key, project, prepare(c)))])
    \/ ~TooMany(q) /\ Spoils /\ Spoil /\ Put(r, Finished(Counted(q, c), "space"))

KnownUnseen(q, key) == FALSE

(* A split export repeats a conversation, which is read once.              *)
Known(q, key) == key \in q.seen

(* record, of an export: a conversation, or a project with its documents.  *)
Record(r) ==
    LET record == Head(req[r].todo).record
        q == [Done(r) EXCEPT !.recognized = TRUE]
        documents == [n \in DOMAIN record.documents |-> Entity("document", record.documents[n], record.key, None)]
    IN /\ Doing(r, "record")
       /\ CASE record.format = "unknown" -> Put(r, Finished(Done(r), "unreadable")) /\ UNCHANGED budget
            [] record.format = "chat" /\ Known(q, record.key) -> Put(r, q) /\ UNCHANGED budget
            [] record.format = "chat" /\ ~Known(q, record.key) ->
                 LET read == [q EXCEPT !.seen = @ \cup {record.key}]
                 IN IF q.cloud THEN toCloud(r, read, record, None) ELSE toDevice(r, read, record)
            [] record.format = "project" /\ ~q.cloud -> Put(r, [q EXCEPT !.skipped = @ + 1]) /\ UNCHANGED budget
            [] OTHER -> /\ Put(r, [q EXCEPT !.entities = @ \o <<Entity("project", record.key, None, None)>> \o documents])
                        /\ UNCHANGED budget
       /\ UNCHANGED jobs

(* native's check of a chat for the device, and nativeCloud's projects and *)
(* documents: each must be filed as its archive says.                      *)
Check(r) ==
    /\ Doing(r, "check")
    /\ Put(r, IF Unreadable(Head(req[r].todo).record) THEN Finished(Done(r), "unreadable") ELSE Done(r))
    /\ UNCHANGED <<jobs, budget>>

Project(r) ==
    LET record == Head(req[r].todo).record
    IN /\ Doing(r, "project")
       /\ Put(r, IF Unreadable(record) THEN Finished(Done(r), "unreadable")
                 ELSE [Done(r) EXCEPT !.entities = Append(@, Entity("project", record.key, None, None))])
       /\ UNCHANGED <<jobs, budget>>

Projects(q) == {q.entities[n].key : n \in {m \in DOMAIN q.entities : q.entities[m].kind = "project"}}

Document(r) ==
    LET record == Head(req[r].todo).record
    IN /\ Doing(r, "document")
       /\ Put(r, IF Unreadable(record) \/ record.project \notin Projects(req[r]) THEN Finished(Done(r), "unreadable")
                 ELSE [Done(r) EXCEPT !.entities = Append(@, Entity("document", record.key, record.project, None))])
       /\ UNCHANGED <<jobs, budget>>

(* nativeCloud's chats keep the project the backup holds.                  *)
Chat(r) ==
    LET record == Head(req[r].todo).record
        linked == record.project \in Projects(req[r]) \cup {None}
    IN /\ Doing(r, "chat")
       /\ IF Unreadable(record) THEN Put(r, Finished(Done(r), "unreadable")) /\ UNCHANGED budget
          ELSE toCloud(r, [Done(r) EXCEPT !.unlinked = @ + (IF linked THEN 0 ELSE 1)], record,
                       IF linked THEN record.project ELSE None)
       /\ UNCHANGED jobs

(* native's chats for the device.                                          *)
Local(r) ==
    LET record == Head(req[r].todo).record
    IN /\ Doing(r, "local")
       /\ IF Unreadable(record) THEN Put(r, Finished(Done(r), "unreadable")) /\ UNCHANGED budget
          ELSE toDevice(r, Done(r), record)
       /\ UNCHANGED jobs

(* complete, and startImport: a caller has one import job at a time.       *)
Complete(r) ==
    LET q == Done(r)
    IN /\ Doing(r, "complete")
       /\ CASE ~q.recognized -> Put(r, Finished(q, "unrecognized")) /\ UNCHANGED jobs
            [] q.recognized /\ ~q.cloud /\ q.out = <<>> /\ q.skipped > 0 ->
                 Put(r, Finished(q, "projects")) /\ UNCHANGED jobs
            [] q.recognized /\ q.entities # <<>> ->
                 IF jobs[q.caller] # None THEN Put(r, Finished(q, "import running")) /\ UNCHANGED jobs
                 ELSE Put(r, [q EXCEPT !.job = TRUE]) /\ jobs' = [jobs EXCEPT ![q.caller] = r]
            [] OTHER -> Put(r, q) /\ UNCHANGED jobs
       /\ UNCHANGED budget

Finish(r) ==
    /\ r \in Active /\ req[r].todo = <<>>
    /\ Put(r, Finished(req[r], None))
    /\ UNCHANGED <<jobs, budget>>

(* A job that ends gives way to the next.                                  *)
JobEnds(c) ==
    /\ jobs[c] # None
    /\ jobs' = [jobs EXCEPT ![c] = None]
    /\ UNCHANGED <<req, running, budget>>

Next ==
    \/ \E r \in Request :
         \/ \E c \in Caller, a \in budget.holds, cloud \in BOOLEAN : Import(r, c, a, cloud)
         \/ Record(r) \/ Check(r) \/ Project(r) \/ Document(r) \/ Chat(r) \/ Local(r)
         \/ Complete(r) \/ Finish(r)
    \/ \E c \in Caller : JobEnds(c)

Spec == Init /\ [][Next]_vars

-----------------------------------------------------------------------------
(* What an archive holds, by key.                                          *)

RecordsOf(a) ==
    CASE a.kind = "export" -> UNION {ToSet(f.records) : f \in ToSet(conversationFiles(a.files) \o projectFiles(a.files))}
      [] a.kind = "records" -> ToSet(a.records)
      [] OTHER -> {}

ChatRecords(a, kind) ==
    CASE a.kind = "backup" -> ToSet(IF kind = "cloud" THEN a.cloudChats ELSE a.localChats)
      [] OTHER -> {x \in RecordsOf(a) : kind = "cloud" /\ x.format = "chat"}

ChatsOf(a, kind) == {x.key : x \in ChatRecords(a, kind)}

ProjectsOf(a) == IF a.kind = "backup" THEN {x.key : x \in ToSet(a.projects)}
                 ELSE {x.key : x \in {y \in RecordsOf(a) : y.format = "project"}}

Written(q, kind) == SelectSeq(q.entities, LAMBDA e : e.kind = kind)

KeysOf(entities) == {entities[n].key : n \in DOMAIN entities}

Streamed(q) == SelectSeq(q.out, LAMBDA l : l.line = "thread")

(* The job of a cloud import starts with everything the archive has for    *)
(* the cloud: each chat and project once, each document after its project, *)
(* and each chat in a project the import holds.                            *)
JobIsWhole ==
    \A r \in Request :
        LET q == req[r]
        IN q.job =>
            /\ KeysOf(Written(q, "chat")) = ChatsOf(q.archive, "cloud")
            /\ Len(Written(q, "chat")) = Cardinality(KeysOf(Written(q, "chat")))
            /\ KeysOf(Written(q, "project")) = ProjectsOf(q.archive)
            /\ \A n \in DOMAIN q.entities :
                 q.entities[n].project # None =>
                    \E m \in 1..n - 1 : q.entities[m].kind = "project" /\ q.entities[m].key = q.entities[n].project

(* A chat that cannot be read fails the restore before the cloud's part is *)
(* stored, the device's chats included, which are read after it.           *)
UnreadableStoresNothing == \A r \in Request : req[r].failed = "unreadable" => ~req[r].job

(* An import that ends well leaves nothing out in silence: each chat is a  *)
(* line or an entity, once, each project is stored or counted as skipped,  *)
(* and the attachments left out of a message are counted, each once.       *)
NothingLostInSilence ==
    \A r \in Request :
        LET q == req[r]
            lines == Streamed(q)
            device == {lines[n].chat.key : n \in DOMAIN lines}
            stored == KeysOf(Written(q, "chat"))
        IN q.state = "ended" /\ q.failed = None =>
            /\ device \cup stored = ChatsOf(q.archive, "cloud") \cup ChatsOf(q.archive, "local")
            /\ Len(lines) + Len(Written(q, "chat")) = q.chats /\ q.chats = Cardinality(device) + Cardinality(stored)
            /\ q.left = MapThenSumSet(LeftOut, ChatRecords(q.archive, "cloud") \cup ChatRecords(q.archive, "local"))
            /\ q.skipped = (IF q.cloud THEN 0 ELSE Cardinality(ProjectsOf(q.archive)))
            /\ (q.cloud /\ stored \cup ProjectsOf(q.archive) # {}) => Last(q.out).job

(* An import that fails before its first line answers with an error alone; *)
(* one that fails after ends with an error line.                           *)
EndsAsStarted ==
    \A r \in Request :
        LET out == req[r].out
        IN /\ \A n \in DOMAIN out : n < Len(out) => out[n].line = "thread"
           /\ req[r].failed # None => (Last(out).line = "error" <=> Len(out) > 1)

(* The places of signed-out callers are those of the imports they have     *)
(* running, each caller's one.                                             *)
PlacesHeld ==
    /\ running = {req[r].caller : r \in {x \in Active : req[x].caller \in Anonymous}}
    /\ \A r, s \in Active : req[r].caller = req[s].caller /\ req[r].caller \in Anonymous => r = s

=============================================================================
