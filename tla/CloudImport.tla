---------------------------- MODULE CloudImport -----------------------------
(***************************************************************************)
(* The import of a cloud archive (internal/archives/cloudimport.go): a job *)
(* per replica stores an archive's projects, then their documents and      *)
(* chats, each under the first of the ids derived for it that is vacant.   *)
(* Writes lose their answers or arrive late, jobs are cut short and run    *)
(* again, here or on another replica, and the user deletes rows meanwhile. *)
(***************************************************************************)
EXTENDS Naturals, Sequences, FiniteSets, TLC

CONSTANTS
    Archive,         \* the archive's entities, in the order they are stored
    Kind,            \* Kind[e]: "project", "document" or "chat"
    Parent,          \* Parent[e]: the project an entity is of, or None
    Replica, None,
    MaxGenerations,  \* maxImportGenerations
    Foreign,         \* derived ids that rows sealed under another key hold
    Budgets          \* bound: jobs, faults and deletions, and which
                     \* entities the account holds under their own id

VARIABLES
    rows,   \* the account's rows: id to the origin, key and project of each
    made,   \* the ids that ever had a row of the import
    late,   \* creates that are still to arrive
    job, budget

vars == <<rows, made, late, job, budget>>

Entity == {Archive[i] : i \in DOMAIN Archive}

Idle == [pc |-> "idle"]

(* A row's id: the entity and which copy, 0 for its own id; a document's   *)
(* is under its project's.                                                 *)
OwnId(e, project) == <<e, 0, IF Kind[e] = "document" THEN project ELSE None>>

importedID(e, g, project) == <<e, g + 1, IF Kind[e] = "document" THEN project ELSE None>>

Spend(what) == budget[what] > 0 /\ budget' = [budget EXCEPT ![what] = @ - 1]

Taken(id) == id \in DOMAIN rows

Filled(id, row) == (id :> row) @@ rows

(* Stored rows and the jobs that write them have the shapes the code gives them. *)
TypeOK ==
    /\ \A id \in DOMAIN rows : rows[id].origin \in Entity \cup {None}
    /\ \A r \in Replica : job[r].pc \in {"idle", "ended"} \/ job[r].gen \in 0 .. MaxGenerations

Init ==
    /\ budget \in Budgets
    /\ rows = [id \in {OwnId(e, None) : e \in budget.held} \cup Foreign |->
                  [origin |-> None, key |-> IF id \in Foreign THEN "other" ELSE "ours",
                   project |-> None]]
    /\ made = {}
    /\ late = {}
    /\ job = [r \in Replica |-> Idle]

-----------------------------------------------------------------------------
Become(r, changes) == job' = [job EXCEPT ![r] = changes @@ @]

(* startImport: one running import per replica; an ended one gives way.    *)
startImport(r) ==
    /\ job[r].pc \in {"idle", "ended"}
    /\ Spend("jobs")
    /\ job' = [job EXCEPT ![r] =
         [pc |-> "next", todo |-> Archive, kind |-> None, held |-> {}, gen |-> 0,
          conflict |-> FALSE, projects |-> <<>>, became |-> <<>>]]
    /\ UNCHANGED <<rows, made, late>>

Now(r) == Head(job[r].todo)

(* The project an entity goes under, and whether it was stored.            *)
Project(r) == IF Parent[Now(r)] = None THEN None ELSE job[r].projects[Parent[Now(r)]]

Blocked(r) == Parent[Now(r)] # None /\ Parent[Now(r)] \notin DOMAIN job[r].projects

(* hold lists the rows of a kind as the import comes to it.                *)
hold(r) ==
    /\ job[r].pc = "next" /\ job[r].todo # <<>>
    /\ job[r].kind # Kind[Now(r)]
    /\ \/ Become(r, [kind |-> Kind[Now(r)],
                     held |-> {e \in Entity : /\ Kind[e] = Kind[Now(r)]
                                              /\ \E id \in DOMAIN rows : id[1] = e /\ id[2] = 0}])
          /\ UNCHANGED budget
       \/ Spend("faults") /\ Become(r, [pc |-> "ended", todo |-> <<>>])
    /\ UNCHANGED <<rows, made, late>>

(* count records what became of the entity, and goes on with the next.     *)
(* An entity's failure counts against it alone.                            *)
count(r, outcome, id) ==
    Become(r, [pc |-> "next", gen |-> 0, todo |-> Tail(job[r].todo),
               became |-> (Now(r) :> outcome) @@ job[r].became,
               projects |-> IF Kind[Now(r)] = "project" /\ outcome \in {"imported", "skipped"}
                            THEN (Now(r) :> id) @@ job[r].projects ELSE job[r].projects])

(* restore, of an entity whose project was stored: its own id first, when  *)
(* the account held it.  An entity of a project that was not is blocked.   *)
restore(r) ==
    /\ job[r].pc = "next" /\ job[r].todo # <<>>
    /\ job[r].kind = Kind[Now(r)]
    /\ IF Blocked(r) THEN count(r, "blocked", None)
       ELSE Become(r, [pc |-> IF /\ Now(r) \in job[r].held
                                 /\ \/ Kind[Now(r)] # "document"
                                    \/ Project(r) = OwnId(Parent[Now(r)], None)
                              THEN "own" ELSE "inspect"])
    /\ UNCHANGED <<rows, made, late, budget>>

(* inspect: what holds an id.                                              *)
inspect(id, e) ==
    IF ~Taken(id) THEN "vacant"
    ELSE IF rows[id].key = "other" THEN "otherKey"
    ELSE IF rows[id].origin = e THEN "sameImport" ELSE "anotherRow"

InspectOwn(r) ==
    LET id == OwnId(Now(r), Project(r))
    IN /\ job[r].pc = "own"
       /\ \/ /\ inspect(id, None) \in {"anotherRow", "sameImport"}
             /\ count(r, "skipped", id)
             /\ UNCHANGED budget
          \/ /\ inspect(id, None) \in {"vacant", "otherKey"}
             /\ Become(r, [pc |-> "inspect"])
             /\ UNCHANGED budget
          \/ Spend("faults") /\ count(r, "failed", None)
       /\ UNCHANGED <<rows, made, late>>

Target(r) == importedID(Now(r), job[r].gen, Project(r))

(* The next id, or none is left.                                           *)
PassOver(r) ==
    IF job[r].gen + 1 < MaxGenerations
    THEN Become(r, [pc |-> "inspect", gen |-> job[r].gen + 1])
    ELSE count(r, "failed", None)

Inspect(r) ==
    LET holder == inspect(Target(r), Now(r))
    IN /\ job[r].pc = "inspect"
       /\ \/ /\ CASE holder = "vacant" -> Become(r, [pc |-> "push"])
                  [] holder = "sameImport" -> count(r, "skipped", Target(r))
                  [] OTHER -> PassOver(r)
             /\ UNCHANGED budget
          \/ Spend("faults") /\ count(r, "failed", None)
       /\ UNCHANGED <<rows, made, late>>

Made(r) == [origin |-> Now(r), key |-> "ours", project |-> Project(r)]

(* Push of the row as a create.                                            *)
Push(r) ==
    LET id == Target(r)
    IN /\ job[r].pc = "push"
       /\ IF Taken(id)
          THEN /\ Become(r, [pc |-> "settle", conflict |-> TRUE])
               /\ UNCHANGED <<rows, made, late, budget>>
          ELSE \/ /\ rows' = Filled(id, Made(r)) /\ made' = made \cup {id}
                  /\ \/ count(r, "imported", id) /\ UNCHANGED budget
                     \/ Spend("faults") /\ Become(r, [pc |-> "settle", conflict |-> FALSE])
                  /\ UNCHANGED late
               \/ /\ Spend("faults")
                  /\ late' \in {late, late \cup {[id |-> id, row |-> Made(r)]}}
                  /\ Become(r, [pc |-> "settle", conflict |-> FALSE])
                  /\ UNCHANGED <<rows, made>>

SettlePassingOver(r) ==
    LET id == Target(r)
    IN /\ job[r].pc = "settle"
       /\ IF inspect(id, Now(r)) = "sameImport"
          THEN count(r, IF job[r].conflict THEN "skipped" ELSE "imported", id)
          ELSE PassOver(r)
       /\ UNCHANGED <<rows, made, late, budget>>

(* A failed push is settled by reading the row back.                       *)
Settle(r) ==
    LET id == Target(r)
    IN /\ job[r].pc = "settle"
       /\ \/ /\ IF inspect(id, Now(r)) = "sameImport"
                THEN count(r, IF job[r].conflict THEN "skipped" ELSE "imported", id)
                ELSE IF job[r].conflict THEN PassOver(r)
                ELSE count(r, "failed", None)
             /\ UNCHANGED budget
          \/ Spend("faults") /\ count(r, "failed", None)
       /\ UNCHANGED <<rows, made, late>>

(* run ends.                                                               *)
Complete(r) ==
    /\ job[r].pc = "next" /\ job[r].todo = <<>>
    /\ Become(r, [pc |-> "ended"])
    /\ UNCHANGED <<rows, made, late, budget>>

(* The job's time or the caller's credential runs out, or its process      *)
(* ends.                                                                   *)
CutShort(r) ==
    /\ job[r].pc \notin {"idle", "ended"}
    /\ Spend("faults")
    /\ job' = [job EXCEPT ![r] = Idle]
    /\ UNCHANGED <<rows, made, late>>

Arrive(m) ==
    /\ late' = late \ {m}
    /\ IF Taken(m.id) THEN UNCHANGED <<rows, made>>
       ELSE rows' = Filled(m.id, m.row) /\ made' = made \cup {m.id}
    /\ UNCHANGED <<job, budget>>

(* The user deletes a row the key reads; a project's documents go with it. *)
Delete(id) ==
    /\ rows[id].key = "ours"
    /\ Spend("deletions")
    /\ rows' = [x \in {y \in DOMAIN rows : y # id /\ y[3] # id} |-> rows[x]]
    /\ UNCHANGED <<made, late, job>>

JobStep(r) ==
    \/ hold(r) \/ restore(r) \/ InspectOwn(r) \/ Inspect(r) \/ Push(r) \/ Settle(r) \/ Complete(r)

Next ==
    \/ \E r \in Replica : startImport(r) \/ JobStep(r) \/ CutShort(r)
    \/ \E m \in late : Arrive(m)
    \/ \E id \in DOMAIN rows : Delete(id)

Spec == Init /\ [][Next]_vars

-----------------------------------------------------------------------------
(* However often and wherever the import runs, and whichever answers it    *)
(* loses, an entity has one row of the import that the key reads.          *)
OneCopy ==
    \A a, b \in DOMAIN rows : /\ rows[a].origin # None
                              /\ rows[a].origin = rows[b].origin
                              /\ a[3] = b[3]
                              => a = b

(* What a job reports as imported or skipped was stored or held under an   *)
(* id of the entity, and nothing it reports as blocked had its project.    *)
ReportedIsStored ==
    \A r \in Replica : job[r].pc # "idle" =>
        \A e \in DOMAIN job[r].became :
            /\ job[r].became[e] = "imported" =>
                  \E id \in made : id[1] = e
            /\ job[r].became[e] = "skipped" =>
                  e \in budget.held \/ \E id \in made : id[1] = e
            /\ job[r].became[e] = "blocked" <=>
                  Parent[e] # None /\ Parent[e] \notin DOMAIN job[r].projects

=============================================================================
