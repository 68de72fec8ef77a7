---------------------------- MODULE Attachments -----------------------------
(***************************************************************************)
(* The attachments of one chat (internal/store: attachments.go,            *)
(* maintenance.go, rewrap.go; internal/attach/documents.go;                *)
(* internal/archives/cloudimport.go): bytes in buckets under an id derived *)
(* from the upload, indexed by the control plane under the chat.           *)
(*                                                                         *)
(* A writer reserves an id, stores the bytes and registers them, then      *)
(* pushes the chat that names them; an import retires what it stored for a *)
(* chat that was not stored.  A deletion of the chat, the purge of what no *)
(* chat names and the release of abandoned writes delete bytes.  The same  *)
(* upload stored again, as a request carried out twice does, is the same   *)
(* id.                                                                     *)
(***************************************************************************)
EXTENDS Naturals, FiniteSets, TLC

CONSTANTS
    Att,              \* the ids of uploads under the chat
    Turn,             \* writers that carry out a turn
    Import,           \* writers that import the chat
    Imported,         \* the ids an import stores under, named for its archive
    Sweeper,          \* the replicas' purge sweeps
    None,
    ReserveAttempts,  \* reserveAttempts
    Budgets           \* bound: the turns, the imports and the faults of a
                      \* behaviour, and the races of Races that may happen

VARIABLES
    row,      \* the stored chat: its revision, the ids it names, its origin
    index,    \* the ids indexed under the chat
    pending,  \* the ledger of reserved writes
    queue,    \* the ids queued for purging
    lease,    \* whose claim a queued id is under
    bucket,   \* the ids whose bytes are stored
    writer,
    sweep,
    release,  \* what the release of abandoned writes is deleting
    wipe,     \* what a deletion of the chat is deleting
    left,     \* bytes whose deletion failed or was cut off
    budget

vars == <<row, index, pending, queue, lease, bucket, writer, sweep, release,
          wipe, left, budget>>

control == <<row, index, pending, queue, lease>>

Writer == Turn \cup Import

(* Bound: the races a behaviour may run into.  An upload made again while  *)
(* its released bytes are being deleted; a chat deleted while an upload it *)
(* holds is made again; two imports of the chat at once; a registration    *)
(* refused of an id already indexed; an id queued for purging between its  *)
(* reservation and its registration.                                       *)
Races == {"release", "remake", "retire", "refusal", "queue"}

Idle == [pc |-> "idle"]

Spend == budget.faults > 0 /\ budget' = [budget EXCEPT !.faults = @ - 1]

Revision == IF row = None THEN 0 ELSE row.rev

(* Whether the row carries the import's origin, which its writes keep.     *)
FromImport == IF row = None THEN FALSE ELSE row.origin

Names == IF row = None THEN {} ELSE row.refs

(* The row, the leases and the writers have the shapes the code gives them. *)
TypeOK ==
    /\ index \subseteq Att /\ pending \subseteq Att /\ queue \subseteq Att
    /\ bucket \subseteq Att /\ release \subseteq Att /\ wipe \subseteq Att
    /\ lease \in [Att -> Sweeper \cup {None}]
    /\ \A a \in Att : lease[a] # None => a \in queue
    /\ budget.may \subseteq Races

Init ==
    /\ row = None
    /\ index = {} /\ pending = {} /\ queue = {} /\ bucket = {}
    /\ lease = [a \in Att |-> None]
    /\ writer = [w \in Writer |-> Idle]
    /\ sweep = [s \in Sweeper |-> Idle]
    /\ release = {} /\ wipe = {} /\ left = {}
    /\ budget \in Budgets

-----------------------------------------------------------------------------
(* Writers.                                                                *)

Become(w, changes) == writer' = [writer EXCEPT ![w] = changes @@ @]

(* A turn reads its chat and names some of what it names already and the   *)
(* uploads it sends; StripInlineAttachments leaves the rest by key.        *)
BeginTurn(w) ==
    /\ writer[w].pc = "idle"
    /\ budget.turns > 0
    /\ budget' = [budget EXCEPT !.turns = @ - 1]
    /\ \E sent \in SUBSET (Att \ Imported), kept \in SUBSET Names :
         writer' = [writer EXCEPT ![w] =
            [pc |-> "reserve", base |-> Revision, sent |-> sent, want |-> kept \cup sent,
             todo |-> sent, tries |-> 1, fixed |-> FALSE]]
    /\ UNCHANGED <<control, bucket, sweep, release, wipe, left>>

(* restore builds a chat whose id is vacant.                               *)
BeginImport(w) ==
    /\ writer[w].pc = "idle"
    /\ row = None
    /\ "retire" \in budget.may \/ \A v \in Import : writer[v].pc = "idle"
    /\ budget.imports > 0
    /\ budget' = [budget EXCEPT !.imports = @ - 1]
    /\ \E sent \in SUBSET Imported \ {{}} :
         writer' = [writer EXCEPT ![w] =
            [pc |-> "reserve", base |-> 0, sent |-> sent, want |-> sent, todo |-> sent,
             tries |-> 1, fixed |-> TRUE]]
    /\ UNCHANGED <<control, bucket, sweep, release, wipe, left>>

Begin(w) == IF w \in Turn THEN BeginTurn(w) ELSE BeginImport(w)

(* A writer ends; an import goes on without the attachment that failed.    *)
GiveUp(w) ==
    writer' = [writer EXCEPT ![w] =
        IF w \in Turn THEN Idle
        ELSE [@ EXCEPT !.pc = "reserve", !.todo = @ \ {writer[w].at}, !.tries = 1,
                       !.want = @ \ {writer[w].at}, !.sent = @ \ {writer[w].at}]]

(* reserveAttachment, tried again while a purge of the id is under way.    *)
Reserve(w) ==
    /\ writer[w].pc = "reserve"
    /\ \E a \in writer[w].todo :
         /\ a \in release => "release" \in budget.may
         /\ a \in wipe => "remake" \in budget.may
         /\ \/ /\ a \notin queue
               /\ pending' = pending \cup {a}
               /\ Become(w, [pc |-> "put", at |-> a])
            \/ /\ a \in queue
               /\ writer[w].tries < ReserveAttempts
               /\ Become(w, [tries |-> writer[w].tries + 1])
               /\ UNCHANGED pending
            \/ /\ a \in queue
               /\ writer[w].tries = ReserveAttempts
               /\ writer' = [writer EXCEPT ![w] =
                    IF w \in Turn THEN Idle
                    ELSE [@ EXCEPT !.todo = @ \ {a}, !.tries = 1, !.want = @ \ {a},
                                   !.sent = @ \ {a}]]
               /\ UNCHANGED pending
    /\ UNCHANGED <<row, index, queue, lease, bucket, sweep, release, wipe, left, budget>>

(* PutAttachment stores the bytes, or may have and fails.                  *)
Put(w) ==
    /\ writer[w].pc = "put"
    /\ \/ /\ bucket' = bucket \cup {writer[w].at}
          /\ Become(w, [pc |-> "register"])
          /\ UNCHANGED budget
       \/ /\ Spend
          /\ bucket' \in {bucket, bucket \cup {writer[w].at}}
          /\ GiveUp(w)
    /\ UNCHANGED <<control, sweep, release, wipe, left>>

Storing(w, a) == writer[w].pc # "idle" /\ a \in writer[w].sent

(* Whether an id is indexed already, or another writer stores it too.      *)
Shared(w, a) ==
    a \in index \cup queue \/ \E v \in Writer \ {w} : Storing(v, a)

(* RegisterAttachmentIndex: taken, with an answer or without, or refused,  *)
(* which removes the bytes.                                                *)
Register(w) ==
    LET a == writer[w].at
    IN /\ writer[w].pc = "register"
       /\ \/ /\ index' = index \cup {a}
             /\ Become(w, [pc |-> "reserve", todo |-> writer[w].todo \ {a}, tries |-> 1])
             /\ UNCHANGED <<bucket, left, budget>>
          \/ /\ Spend
             /\ index' \in {index, index \cup {a}}
             /\ GiveUp(w)
             /\ UNCHANGED <<bucket, left>>
          \/ /\ Spend
             /\ Shared(w, a) => "refusal" \in budget.may
             /\ \/ bucket' = bucket \ {a} /\ UNCHANGED left
                \/ left' = left \cup {a} /\ UNCHANGED bucket
             /\ GiveUp(w)
             /\ UNCHANGED index
       /\ UNCHANGED <<row, pending, queue, lease, sweep, release, wipe>>

Ready(w) == writer[w].pc = "reserve" /\ writer[w].todo = {}

Missing(w) == writer[w].want \ index

(* The control plane takes the chat at the revision it was read at, and    *)
(* only when it holds what the chat names.                                 *)
Push(w) ==
    /\ Ready(w)
    /\ writer[w].base = Revision
    /\ Missing(w) = {}
    /\ row' = [rev |-> Revision + 1, refs |-> writer[w].want,
               origin |-> FromImport \/ w \in Import]
    /\ \/ writer' = [writer EXCEPT ![w] = Idle] /\ UNCHANGED budget
       \/ Spend /\ w \in Import /\ Become(w, [pc |-> "inspect"])
    /\ UNCHANGED <<index, pending, queue, lease, bucket, sweep, release, wipe, left>>

(* A push that is refused, or never arrives.  An import then asks what     *)
(* holds its id.                                                           *)
PushFails(w) ==
    /\ Ready(w)
    /\ IF writer[w].base = Revision /\ Missing(w) = {} THEN Spend ELSE UNCHANGED budget
    /\ writer[w].base = Revision /\ Missing(w) # {} => writer[w].fixed
    /\ IF w \in Turn THEN writer' = [writer EXCEPT ![w] = Idle]
                     ELSE Become(w, [pc |-> "inspect"])
    /\ UNCHANGED <<control, bucket, sweep, release, wipe, left>>

(* RepairAttachments: what the turn still holds is placed again, and a     *)
(* reference to what is gone is dropped.                                   *)
Repair(w) ==
    LET m == Missing(w)
    IN /\ Ready(w)
       /\ writer[w].base = Revision
       /\ m # {}
       /\ ~writer[w].fixed
       /\ Become(w, [fixed |-> TRUE, tries |-> 1, todo |-> m \cap writer[w].sent,
                     want |-> writer[w].want \ (m \ writer[w].sent)])
       /\ UNCHANGED <<control, bucket, sweep, release, wipe, left, budget>>

(* restore settles a failed push by reading the row back, and retires what *)
(* was stored for a chat that is not the import's.                         *)
Inspect(w) ==
    /\ writer[w].pc = "inspect"
    /\ \/ /\ FromImport
          /\ writer' = [writer EXCEPT ![w] = Idle]
          /\ UNCHANGED budget
       \/ /\ ~FromImport
          /\ Become(w, [pc |-> "retire", todo |-> writer[w].sent])
          /\ UNCHANGED budget
       \/ /\ Spend
          /\ writer' = [writer EXCEPT ![w] = Idle]
    /\ UNCHANGED <<control, bucket, sweep, release, wipe, left>>

RetireUnindexing(w) ==
    /\ writer[w].pc = "retire"
    /\ index' = index \ writer[w].todo
    /\ writer' = [writer EXCEPT ![w] = Idle]
    /\ UNCHANGED <<row, pending, queue, lease, bucket, sweep, release, wipe, left, budget>>

(* RetireAttachments: out of the index, then out of buckets.  One that     *)
(* could not be dropped from the index keeps its bytes.                    *)
Retire(w) ==
    /\ writer[w].pc = "retire"
    /\ IF writer[w].todo = {}
       THEN /\ writer' = [writer EXCEPT ![w] = Idle]
            /\ UNCHANGED <<index, budget>>
       ELSE \E a \in writer[w].todo :
              IF a \in index
              THEN \/ /\ index' = index \ {a}
                      /\ Become(w, [pc |-> "unstore", at |-> a])
                      /\ UNCHANGED budget
                   \/ /\ Spend
                      /\ Become(w, [todo |-> writer[w].todo \ {a}])
                      /\ UNCHANGED index
              ELSE /\ Become(w, [todo |-> writer[w].todo \ {a}])
                   /\ UNCHANGED <<index, budget>>
    /\ UNCHANGED <<row, pending, queue, lease, bucket, sweep, release, wipe, left>>

Delete(a) ==
    \/ bucket' = bucket \ {a} /\ UNCHANGED <<left, budget>>
    \/ Spend /\ left' = left \cup {a} /\ UNCHANGED bucket

Unstore(w) ==
    /\ writer[w].pc = "unstore"
    /\ Delete(writer[w].at)
    /\ Become(w, [pc |-> "retire", todo |-> writer[w].todo \ {writer[w].at}])
    /\ UNCHANGED <<control, sweep, release, wipe>>

-----------------------------------------------------------------------------
(* A deletion: the control plane drops the chat's index rows and names     *)
(* them, and deleteBucketAttachments deletes them.                         *)

Remove ==
    /\ row # None
    /\ wipe = {}
    /\ (\E w \in Writer, a \in index : Storing(w, a)) => "remake" \in budget.may
    /\ row' = None
    /\ index' = {}
    /\ wipe' = index
    /\ UNCHANGED <<pending, queue, lease, bucket, writer, sweep, release, left, budget>>

Wipe ==
    \E a \in wipe :
        /\ wipe' = wipe \ {a}
        /\ Delete(a)
        /\ UNCHANGED <<control, writer, sweep, release>>

-----------------------------------------------------------------------------
(* The sweeps.                                                             *)

Placing(a) == \E w \in Writer : writer[w].pc \in {"put", "register"} /\ writer[w].at = a

(* The control plane queues what no chat names.                            *)
Enqueue ==
    LET unnamed == {a \in index \ Names : Placing(a) => "queue" \in budget.may}
    IN /\ unnamed # {}
       /\ queue' = queue \cup unnamed
       /\ index' = index \ unnamed
       /\ UNCHANGED <<row, pending, lease, bucket, writer, sweep, release, wipe, left, budget>>

Claim(s) ==
    LET claim == {a \in queue : lease[a] = None}
    IN /\ sweep[s].pc = "idle"
       /\ claim # {}
       /\ lease' = [a \in Att |-> IF a \in claim THEN s ELSE lease[a]]
       /\ sweep' = [sweep EXCEPT ![s] = [pc |-> "claimed", todo |-> claim, done |-> {}]]
       /\ UNCHANGED <<row, index, pending, queue, bucket, writer, release, wipe, left, budget>>

Purge(s) ==
    /\ sweep[s].pc = "claimed"
    /\ \E a \in sweep[s].todo :
         \/ /\ bucket' = bucket \ {a}
            /\ sweep' = [sweep EXCEPT ![s].todo = @ \ {a}, ![s].done = @ \cup {a}]
            /\ UNCHANGED budget
         \/ /\ Spend
            /\ sweep' = [sweep EXCEPT ![s].todo = @ \ {a}]
            /\ UNCHANGED bucket
    /\ UNCHANGED <<control, writer, release, wipe, left>>

(* AckAttachmentPurges: what is still under this claim is forgotten.       *)
Ack(s) ==
    LET mine == {a \in sweep[s].done : lease[a] = s}
    IN /\ sweep[s].pc = "claimed"
       /\ sweep[s].todo = {}
       /\ sweep' = [sweep EXCEPT ![s] = Idle]
       /\ \/ /\ queue' = queue \ mine
             /\ lease' = [a \in Att |-> IF a \in mine THEN None ELSE lease[a]]
             /\ UNCHANGED budget
          \/ Spend /\ UNCHANGED <<queue, lease>>
       /\ UNCHANGED <<row, index, pending, bucket, writer, release, wipe, left>>

(* A lease ends, after purgeLeaseBudget stopped the sweep's deletes.       *)
Lapse(s) ==
    /\ \E a \in Att : lease[a] = s
    /\ lease' = [a \in Att |-> IF lease[a] = s THEN None ELSE lease[a]]
    /\ sweep' = [sweep EXCEPT ![s] = IF @.pc = "idle" THEN @ ELSE [@ EXCEPT !.todo = {}]]
    /\ UNCHANGED <<row, index, pending, queue, bucket, writer, release, wipe, left, budget>>

(* releasePending: of the writes pending for longer than any request goes  *)
(* on, the control plane hands over those not indexed, and forgets all.    *)
Release ==
    LET ended == {a \in pending : ~Placing(a)}
    IN /\ release = {}
       /\ ended # {}
       /\ release' = ended \ index
       /\ pending' = pending \ ended
       /\ UNCHANGED <<row, index, queue, lease, bucket, writer, sweep, wipe, left, budget>>

DeleteReleased ==
    \E a \in release :
        /\ release' = release \ {a}
        /\ Delete(a)
        /\ UNCHANGED <<control, writer, sweep, wipe>>

(* A replica ends: its writers, or its sweep.                              *)
Crash ==
    /\ Spend
    /\ \/ \E w \in Writer : writer[w].pc # "idle" /\ writer' = [writer EXCEPT ![w] = Idle]
                            /\ left' = left \cup (IF writer[w].pc = "unstore"
                                                  THEN {writer[w].at} ELSE {})
                            /\ UNCHANGED <<sweep, release, wipe>>
       \/ \E s \in Sweeper : sweep[s].pc # "idle" /\ sweep' = [sweep EXCEPT ![s] = Idle]
                            /\ UNCHANGED <<writer, release, wipe, left>>
       \/ /\ release \cup wipe # {}
          /\ release' = {} /\ wipe' = {} /\ left' = left \cup release \cup wipe
          /\ UNCHANGED <<writer, sweep>>
    /\ UNCHANGED <<control, bucket>>

Next ==
    \/ \E w \in Writer :
          \/ Begin(w) \/ Reserve(w) \/ Put(w) \/ Register(w) \/ Push(w) \/ PushFails(w)
          \/ Repair(w) \/ Inspect(w) \/ Retire(w) \/ Unstore(w)
    \/ \E s \in Sweeper : Claim(s) \/ Purge(s) \/ Ack(s) \/ Lapse(s)
    \/ Remove \/ Wipe \/ Enqueue \/ Release \/ DeleteReleased \/ Crash

Spec == Init /\ [][Next]_vars

-----------------------------------------------------------------------------
(* What a stored chat names is indexed under it and its bytes are stored,  *)
(* whatever sweeps, deletions and other uploads of the same bytes go on.   *)
NamedIsStored == Names \subseteq index \cap bucket

(* Bytes are never lost from sight: stored bytes are indexed, reserved or  *)
(* queued, or in the hands of who deletes them, unless a deletion failed.  *)
Reclaimable ==
    bucket \subseteq UNION {index, pending, queue, release, wipe, left,
                            {writer[w].at : w \in {v \in Writer : writer[v].pc \in {"register", "unstore"}}}}

=============================================================================
