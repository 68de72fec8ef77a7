---------------------------- MODULE SearchIndex -----------------------------
(***************************************************************************)
(* One caller's search index (internal/search: writer.go, stored.go,       *)
(* index.go, rebuild.go, cache.go, query.go), kept by several replicas     *)
(* beside the chats it is of.  The control plane counts the chat writes    *)
(* and names the published index object, the source revision it covers and *)
(* whether it is incomplete (internal/controlplane/cpstub, the control     *)
(* plane as the harness uses it).                                          *)
(*                                                                         *)
(* A write's update waits with its replica's writer, which takes every     *)
(* waiting update, merges them into the index it loads, and publishes the  *)
(* result at the generation it read.  A rebuild lists the chats page by    *)
(* page and does the same.  Both hold the replica's lock of the owner from *)
(* reading the publication to publishing, and change the cached index in   *)
(* place.  The key and the model of the index do not change here.          *)
(***************************************************************************)
EXTENDS Integers, FiniteSets, SequencesExt

CONSTANTS
    Chat,
    Replica,
    None,
    Indexed,          \* the chats that are stored before the first step
    Budgets,          \* bound: the writes, rebuilds and faults of a behaviour
    PublishAttempts,  \* publishAttempts
    RebuildPage       \* rebuildPage

VARIABLES
    blobs,    \* the stored chats: revision, and the source revision of the text
    source,   \* SourceRevision
    record,   \* the publication record
    bucket,   \* the index objects
    late,     \* publications whose answer is no longer waited for
    cache,    \* each replica's decoded index: its object, and completeAt
    landed,   \* writes answered whose updates are not with the writer yet
    pending,  \* the writer's waiting updates, by chat
    batch,    \* the updates a writer has taken
    rebuild,  \* each replica's rebuild
    cycle,    \* the read-modify-publish cycle of the lock's holder
    budget    \* the writes and rebuilds left at each replica, the faults left,
              \* and which of the events Surprises names may happen

vars == <<blobs, source, record, bucket, late, cache, landed, pending, batch,
          rebuild, cycle, budget>>

control == <<blobs, source>>
work == <<landed, pending, batch, rebuild>>

NoRow == [etag |-> 0, of |-> 0]

Empty == [chats |-> [c \in Chat |-> None], incomplete |-> FALSE, reindex |-> None]

Free == [pc |-> "free"]

Idle == [pc |-> "idle"]

(* A chat resealed; a chat deleted that is already gone; a rebuild's check *)
(* of a chat that fails.                                                   *)
Surprises == {"reseal", "gone", "check"}

Spend == budget.faults > 0 /\ budget' = [budget EXCEPT !.faults = @ - 1]

(* The index, its copies and its writers have the shapes the code gives them. *)
TypeOK ==
    /\ blobs \in [Chat -> [etag : Nat, of : Nat]]
    /\ source \in Nat
    /\ record.covered \in 0 .. source
    /\ budget.may \subseteq Surprises
    /\ \A p \in Replica :
          /\ cycle[p].pc \in {"free", "begin", "read", "merged", "lost"}
          /\ rebuild[p].pc \in {"idle", "start", "page", "listed"}
          /\ cycle[p].pc # "free" /\ cycle[p].by = "writer" => batch[p] # {}
          /\ cycle[p].pc # "free" /\ cycle[p].by = "rebuild" => rebuild[p].pc = "listed"

Init ==
    /\ blobs = [c \in Chat |-> IF c \in Indexed THEN [etag |-> 1, of |-> 1] ELSE NoRow]
    /\ source = 1
    /\ record = [gen |-> 0, covered |-> 0, object |-> None, incomplete |-> FALSE]
    /\ bucket = << >>
    /\ late = {}
    /\ cache = [p \in Replica |-> None]
    /\ landed = [p \in Replica |-> {}]
    /\ pending = [p \in Replica |-> [c \in Chat |-> None]]
    /\ batch = [p \in Replica |-> {}]
    /\ rebuild = [p \in Replica |-> Idle]
    /\ cycle = [p \in Replica |-> Free]
    /\ budget \in Budgets

-----------------------------------------------------------------------------
(* The chats.  A chat made again under its id starts over at revision 1.   *)

Update(c, removed, etag, rev) ==
    [chat |-> c, removed |-> removed, etag |-> etag, rev |-> rev, replaced |-> {}]

(* Push: the control plane takes the row and counts the write, and         *)
(* ChatStored hands its update to the writer once it is answered.          *)
PushChat(p, c) ==
    /\ budget.writes[p] > 0
    /\ budget' = [budget EXCEPT !.writes[p] = @ - 1]
    /\ blobs' = [blobs EXCEPT ![c] = [etag |-> @.etag + 1, of |-> source + 1]]
    /\ source' = source + 1
    /\ landed' = [landed EXCEPT ![p] =
                    @ \cup {Update(c, FALSE, blobs[c].etag + 1, source + 1)}]
    /\ UNCHANGED <<record, bucket, late, cache, pending, batch, rebuild, cycle>>

(* Remove: a row already gone leaves a removal without a revision.         *)
RemoveChat(p, c) ==
    /\ budget.writes[p] > 0
    /\ budget' = [budget EXCEPT !.writes[p] = @ - 1]
    /\ \/ /\ blobs[c] # NoRow
          /\ source' = source + 1
          /\ landed' = [landed EXCEPT ![p] = @ \cup {Update(c, TRUE, 0, source + 1)}]
       \/ /\ blobs[c] = NoRow
          /\ "gone" \in budget.may
          /\ landed' = [landed EXCEPT ![p] = @ \cup {Update(c, TRUE, 0, 0)}]
          /\ UNCHANGED source
    /\ blobs' = [blobs EXCEPT ![c] = NoRow]
    /\ UNCHANGED <<record, bucket, late, cache, pending, batch, rebuild, cycle>>

(* A row resealed under the current key gets a revision, and no write.     *)
Rewrap(c) ==
    /\ blobs[c] # NoRow
    /\ "reseal" \in budget.may
    /\ Spend
    /\ blobs' = [blobs EXCEPT ![c].etag = @ + 1]
    /\ UNCHANGED <<source, record, bucket, late, cache, work, cycle>>

-----------------------------------------------------------------------------
(* The writer.                                                             *)

revisions(u) == (IF u.rev > 0 THEN {u.rev} ELSE {}) \cup u.replaced

Kept(prev, u) == prev.rev > u.rev /\ (u.rev > 0 \/ u.removed)

add(prev, u) ==
    IF prev = None THEN u
    ELSE IF Kept(prev, u)
         THEN [prev EXCEPT !.replaced = @ \cup revisions(u)]
         ELSE [u EXCEPT !.replaced = @ \cup revisions(prev)]

(* ChatStored and ChatRemoved leave an update with the writer.             *)
Enqueue(p) ==
    \E u \in landed[p] :
        /\ landed' = [landed EXCEPT ![p] = @ \ {u}]
        /\ pending' = [pending EXCEPT ![p][u.chat] = add(@, u)]
        /\ UNCHANGED <<control, record, bucket, late, cache, batch, rebuild, cycle, budget>>

Waiting(p) == {pending[p][c] : c \in {d \in Chat : pending[p][d] # None}}

(* runWriter takes every waiting update.                                   *)
Take(p) ==
    /\ batch[p] = {}
    /\ Waiting(p) # {}
    /\ batch' = [batch EXCEPT ![p] = Waiting(p)]
    /\ pending' = [pending EXCEPT ![p] = [c \in Chat |-> None]]
    /\ UNCHANGED <<control, record, bucket, late, cache, landed, rebuild, cycle, budget>>

(* apply takes the lock, and asks which removed chats were made again; one *)
(* it gets no answer for may have been.                                    *)
Lock(p) ==
    LET removed == {u.chat : u \in {v \in batch[p] : v.removed}}
    IN /\ cycle[p].pc = "free"
       /\ batch[p] # {}
       /\ \E unread \in SUBSET removed :
            /\ IF unread = {} THEN UNCHANGED budget ELSE Spend
            /\ cycle' = [cycle EXCEPT ![p] =
                 [pc |-> "begin", by |-> "writer", attempt |-> 1,
                  remade |-> unread \cup {c \in removed : blobs[c] # NoRow}]]
       /\ UNCHANGED <<control, record, bucket, late, cache, work>>

(* The publication, with the source revision it is served with.            *)
ReadRecord(p) ==
    /\ cycle[p].pc = "begin"
    /\ cycle' = [cycle EXCEPT ![p] = [pc |-> "read", pub |-> record, source |-> source] @@ @]
    /\ UNCHANGED <<control, record, bucket, late, cache, work, budget>>

-----------------------------------------------------------------------------
(* Loading: the cache when it is of the object, else the bucket.  An       *)
(* object that is gone gives an empty index, which is not cached.          *)

Cached(p, object) == cache[p] # None /\ cache[p].object = object

load(p, object) ==
    IF object = None THEN [ix |-> Empty, ok |-> FALSE]
    ELSE IF Cached(p, object) THEN [ix |-> cache[p].ix, ok |-> TRUE]
    ELSE IF object \in DOMAIN bucket THEN [ix |-> bucket[object], ok |-> TRUE]
    ELSE [ix |-> Empty, ok |-> FALSE]

(* What the cache holds once object was loaded and its index changed in    *)
(* place to ix; one of another object is dropped.                          *)
CacheAfter(p, object, ix) ==
    IF object = None THEN cache[p]
    ELSE IF Cached(p, object) THEN [cache[p] EXCEPT !.ix = ix]
    ELSE IF object \in DOMAIN bucket
         THEN [object |-> object, ix |-> ix, completeAt |-> 0]
         ELSE None

completeThrough(p, pub) ==
    \/ ~pub.incomplete
    \/ Cached(p, pub.object) /\ pub.gen > 0 /\ cache[p].completeAt = pub.gen

-----------------------------------------------------------------------------
(* Merging a batch.                                                        *)

liveSince(rev, src, inHand) == rev > 0 /\ (rev + 1) .. src \subseteq inHand

Snapshot(c, etag) ==
    IF blobs[c] = NoRow THEN "deleted"
    ELSE IF blobs[c].etag = etag THEN "current" ELSE "stale"

entrySupersedes(entry, etag, rev) ==
    IF entry.rev > 0 /\ rev > 0 THEN entry.rev > rev ELSE entry.etag > etag

(* What one update makes of the index: whether it changed, and whether it  *)
(* was taken, missed, or superseded by a later write.  reads is whether    *)
(* the control plane answers for the chat.                                 *)
storeEntry(ix, u, src, inHand, reads) ==
    LET live  == liveSince(u.rev, src, inHand)
        snap  == Snapshot(u.chat, u.etag)
        entry == ix.chats[u.chat]
        same  == entry # None /\ entry.rev = u.rev /\ entry.etag = u.etag
        newer == entry # None /\ entrySupersedes(entry, u.etag, u.rev)
    IN CASE ~live /\ ~reads -> [ix |-> ix, changed |-> FALSE, result |-> "missed"]
         [] ~live /\ reads /\ snap = "stale" ->
              [ix |-> ix, changed |-> FALSE, result |-> "superseded"]
         [] ~live /\ reads /\ snap = "deleted" ->
              [ix |-> [ix EXCEPT !.chats[u.chat] = None],
               changed |-> entry # None, result |-> "superseded"]
         [] OTHER ->
              IF same \/ newer
              THEN [ix |-> ix, changed |-> FALSE, result |-> "taken"]
              ELSE [ix |-> [ix EXCEPT !.chats[u.chat] =
                              [etag |-> u.etag, rev |-> u.rev, of |-> u.rev]],
                    changed |-> TRUE, result |-> "taken"]

removeEntry(ix, ok, u, remade) ==
    LET entry == ix.chats[u.chat]
    IN IF remade THEN [ix |-> ix, changed |-> FALSE, result |-> "superseded"]
       ELSE IF \/ entry = None /\ ok
               \/ entry # None /\ u.rev > 0 /\ entry.rev > u.rev
            THEN [ix |-> ix, changed |-> FALSE, result |-> "taken"]
            ELSE [ix |-> [ix EXCEPT !.chats[u.chat] = None],
                  changed |-> TRUE, result |-> "taken"]

(* The updates in the order of their revisions, then of their chats.       *)
Ordered(updates) ==
    SetToSortSeq(updates, LAMBDA a, b : a.rev < b.rev)

(* One attempt at merging the batch taken at p into the index loaded.      *)
Merged(p, loaded, reads) ==
    LET w      == cycle[p]
        inHand == UNION {revisions(u) : u \in batch[p]}
        Step(acc, u) ==
            LET one == IF u.removed
                       THEN removeEntry(acc.ix, loaded.ok, u, u.chat \in w.remade)
                       ELSE storeEntry(acc.ix, u, w.source, inHand, reads)
            IN [ix      |-> one.ix,
                changed |-> acc.changed \/ one.changed,
                took    |-> acc.took \cup IF one.result = "taken" THEN revisions(u) ELSE {},
                behind  |-> acc.behind \cup IF one.result = "superseded" /\ revisions(u) # {}
                                            THEN {u} ELSE {}]
    IN FoldLeft(Step, [ix |-> loaded.ix, changed |-> FALSE, took |-> {}, behind |-> {}],
                Ordered(batch[p]))

(* The writes covered without a gap.                                       *)
Covers(from, took) ==
    CHOOSE n \in from .. from + Cardinality(took) :
        /\ (from + 1) .. n \subseteq took
        /\ n + 1 \notin took

(* fold: a superseded update's revisions go to a later write's update.     *)
fold(waiting, behind) ==
    [c \in Chat |->
        LET mine == UNION {revisions(u) : u \in {v \in behind : v.chat = c}}
        IN IF /\ waiting[c] # None
              /\ mine # {}
              /\ \A r \in mine : waiting[c].rev > r
           THEN [waiting[c] EXCEPT !.replaced = @ \cup mine]
           ELSE waiting[c]]

(* The end of a writer's cycle: the lock is let go, and what was           *)
(* superseded handed on.                                                   *)
EndWriter(p, behind) ==
    /\ batch' = [batch EXCEPT ![p] = {}]
    /\ pending' = [pending EXCEPT ![p] = fold(@, behind)]
    /\ cycle' = [cycle EXCEPT ![p] = Free]
    /\ UNCHANGED <<landed, rebuild>>

(* apply, from the load to the publication it wants.                       *)
Merge(p) ==
    /\ cycle[p].pc = "read"
    /\ cycle[p].by = "writer"
    /\ \E reads \in BOOLEAN :
         LET w      == cycle[p]
             loaded == load(p, w.pub.object)
             m      == Merged(p, loaded, reads)
             cov    == Covers(w.pub.covered, m.took)
             whole  == w.pub.object = None \/ loaded.ok
             inc    == ~whole \/ ~completeThrough(p, w.pub)
             ix     == [m.ix EXCEPT !.incomplete = inc]
         IN /\ IF reads THEN UNCHANGED budget ELSE Spend
            /\ IF ~m.changed /\ cov = w.pub.covered
               THEN /\ cache' = [cache EXCEPT ![p] = CacheAfter(p, w.pub.object, m.ix)]
                    /\ EndWriter(p, m.behind)
               ELSE /\ cache' = [cache EXCEPT ![p] = CacheAfter(p, w.pub.object, ix)]
                    /\ cycle' = [cycle EXCEPT ![p] =
                         [pc |-> "merged", ix |-> ix, covered |-> cov, incomplete |-> inc,
                          behind |-> m.behind] @@ @]
                    /\ UNCHANGED work
    /\ UNCHANGED <<control, record, bucket, late>>

-----------------------------------------------------------------------------
(* A rebuild.                                                              *)

(* rebuild reads the publication, for its target, and then the checkpoint  *)
(* the published index may hold, under the lock readers share.             *)
BeginRebuild(p) ==
    /\ rebuild[p].pc = "idle"
    /\ budget.rebuilds[p] > 0
    /\ budget' = [budget EXCEPT !.rebuilds[p] = @ - 1]
    /\ rebuild' = [rebuild EXCEPT ![p] = [pc |-> "start", pub |-> record, target |-> source]]
    /\ UNCHANGED <<control, record, bucket, late, cache, landed, pending, batch, cycle>>

Page(cursor, target, started, failed) ==
    [pc |-> "page", cursor |-> cursor, target |-> target, started |-> started,
     failed |-> failed]

loadCheckpoint(p) ==
    LET r      == rebuild[p]
        reads  == r.pub.object # None /\ r.pub.incomplete
        loaded == load(p, r.pub.object)
        at     == loaded.ix.reindex
        resume == /\ reads /\ loaded.ok /\ loaded.ix.incomplete
                  /\ at # None /\ r.pub.covered = at.target
    IN /\ r.pc = "start"
       /\ cycle[p].pc = "free"
       /\ rebuild' = [rebuild EXCEPT ![p] =
            IF resume THEN Page(at.cursor, at.target, at.started, FALSE)
                      ELSE Page(None, r.target, <<p, budget.rebuilds[p]>>, FALSE)]
       /\ cache' = IF reads THEN [cache EXCEPT ![p] = CacheAfter(p, r.pub.object, loaded.ix)]
                            ELSE cache
       /\ UNCHANGED <<control, record, bucket, late, landed, pending, batch, cycle, budget>>

(* The stored chats past a cursor, newest write first.                     *)
ListedAfter(cursor) ==
    SetToSortSeq({c \in Chat : blobs[c] # NoRow /\ (cursor = None \/ blobs[c].of < cursor)},
                 LAMBDA a, b : blobs[a].of > blobs[b].of)

(* A page of chats, read outside the lock; a row may be unreadable.  A     *)
(* full page has a next one, which may turn out empty.                     *)
ListPage(p) ==
    /\ rebuild[p].pc = "page"
    /\ LET all  == ListedAfter(rebuild[p].cursor)
           full == Len(all) >= RebuildPage
           page == IF full THEN SubSeq(all, 1, RebuildPage) ELSE all
       IN \E bad \in SUBSET ToSet(page) :
            /\ IF bad = {} THEN UNCHANGED budget ELSE Spend
            /\ rebuild' = [rebuild EXCEPT ![p] =
                 [@ EXCEPT !.pc = "listed"] @@
                 [next |-> IF full THEN blobs[Last(page)].of ELSE None,
                  unreadable |-> bad # {},
                  rows |-> [i \in DOMAIN SelectSeq(page, LAMBDA c : c \notin bad) |->
                     LET c == SelectSeq(page, LAMBDA d : d \notin bad)[i]
                     IN [chat |-> c, etag |-> blobs[c].etag, of |-> blobs[c].of]]]]
    /\ UNCHANGED <<control, record, bucket, late, cache, landed, pending, batch, cycle>>

(* rebuildPage takes the lock.                                             *)
LockPage(p) ==
    /\ rebuild[p].pc = "listed"
    /\ cycle[p].pc = "free"
    /\ cycle' = [cycle EXCEPT ![p] = [pc |-> "begin", by |-> "rebuild", attempt |-> 1]]
    /\ UNCHANGED <<control, record, bucket, late, cache, work, budget>>

(* The end of a page's cycle.                                              *)
EndPage(p, r) ==
    /\ cycle' = [cycle EXCEPT ![p] = Free]
    /\ rebuild' = [rebuild EXCEPT ![p] = r]
    /\ UNCHANGED <<landed, pending, batch>>

(* The entries from before the rebuild go when it starts over.             *)
WithoutStale(ix, r) ==
    [ix EXCEPT !.chats = [c \in Chat |->
        IF r.cursor = None /\ @[c] # None /\ @[c].rev <= r.target THEN None ELSE @[c]]]

(* The page's chats taken into the index.                                  *)
TakeRows(ix, rows, target) ==
    LET Step(acc, row) ==
            LET entry == acc.chats[row.chat]
                snap  == Snapshot(row.chat, row.etag)
            IN IF snap = "deleted" THEN [acc EXCEPT !.chats[row.chat] = None]
               ELSE IF \/ entry # None /\ entrySupersedes(entry, row.etag, target)
                       \/ snap = "stale"
                    THEN acc
                    ELSE [acc EXCEPT !.chats[row.chat] =
                            [etag |-> row.etag, rev |-> target, of |-> row.of]]
    IN FoldLeft(Step, ix, rows)

(* rebuildPage, from the load to the publication it wants.  An index that  *)
(* holds another rebuild's checkpoint is resumed from it; one that holds   *)
(* none any more ends a rebuild under way.                                 *)
MergePage(p) ==
    LET w      == cycle[p]
        r      == rebuild[p]
        loaded == load(p, w.pub.object)
        at     == loaded.ix.reindex
        kept   == WithoutStale(loaded.ix, r)
        inc    == \/ r.next # None \/ r.failed \/ r.unreadable
                  \/ ~loaded.ok /\ r.cursor # None
                  \/ w.pub.covered > r.target /\ w.pub.incomplete
        mark   == IF inc /\ ~r.failed /\ ~r.unreadable /\ r.next # None
                  THEN [cursor |-> r.next, target |-> r.target, started |-> r.started]
                  ELSE None
        ix     == [TakeRows(kept, r.rows, r.target) EXCEPT !.incomplete = inc, !.reindex = mark]
        Leave(changed) == cache' = [cache EXCEPT ![p] = CacheAfter(p, w.pub.object, changed)]
    IN /\ w.pc = "read"
       /\ w.by = "rebuild"
       /\ \/ /\ at # None
             /\ at # [cursor |-> r.cursor, target |-> r.target, started |-> r.started]
             /\ EndPage(p, Page(at.cursor, at.target, at.started, r.failed))
             /\ Leave(loaded.ix)
             /\ UNCHANGED budget
          \/ /\ at = None
             /\ r.cursor # None
             /\ EndPage(p, Idle)
             /\ Leave(loaded.ix)
             /\ UNCHANGED budget
          \/ /\ at = (IF r.cursor = None THEN None
                      ELSE [cursor |-> r.cursor, target |-> r.target, started |-> r.started])
             /\ \/ /\ cycle' = [cycle EXCEPT ![p] =
                        [pc |-> "merged", ix |-> ix, incomplete |-> inc,
                         covered |-> IF r.target > w.pub.covered THEN r.target ELSE w.pub.covered]
                        @@ @]
                   /\ Leave(ix)
                   /\ UNCHANGED <<work, budget>>
                \/ \E k \in DOMAIN r.rows :
                     /\ "check" \in budget.may
                     /\ Spend
                     /\ EndPage(p, Idle)
                     /\ Leave(TakeRows(kept, SubSeq(r.rows, 1, k - 1), r.target))
       /\ UNCHANGED <<control, record, bucket, late>>

-----------------------------------------------------------------------------
(* Publishing.                                                             *)

(* What the holder of the lock does once its cycle failed, or landed.      *)
EndFailed(p) ==
    IF cycle[p].by = "writer" THEN EndWriter(p, {}) ELSE EndPage(p, Idle)

EndPublished(p) ==
    LET r == rebuild[p]
    IN IF cycle[p].by = "writer" THEN EndWriter(p, cycle[p].behind)
       ELSE EndPage(p, IF r.next = None THEN Idle
                       ELSE Page(r.next, r.target, r.started, r.failed \/ r.unreadable))

(* An object key no other object has.                                      *)
newObjectKey(p) ==
    LET used == DOMAIN bucket \cup {l.object : l \in late}
        n    == CHOOSE k \in 0 .. Cardinality(used) :
                    /\ <<cycle[p].pub.gen, p, k>> \notin used
                    /\ \A j \in 0 .. k - 1 : <<cycle[p].pub.gen, p, j>> \in used
    IN <<cycle[p].pub.gen, p, n>>

(* The control plane takes a publication at the generation it expects.     *)
Accepts(req) ==
    /\ req.gen = record.gen
    /\ req.covered \in record.covered .. source

Accepted(req) ==
    [gen |-> record.gen + 1, covered |-> req.covered, object |-> req.object,
     incomplete |-> req.incomplete \/ req.covered < source]

Without(objects) == [o \in DOMAIN bucket \ objects |-> bucket[o]]

Request(p) ==
    [gen |-> cycle[p].pub.gen, covered |-> cycle[p].covered, object |-> newObjectKey(p),
     incomplete |-> cycle[p].incomplete]

(* publish, answered.  A conflict is tried again from the record as it is. *)
Publish(p) ==
    LET w == cycle[p]  req == Request(p)
    IN /\ w.pc = "merged"
       /\ IF Accepts(req)
          THEN /\ record' = Accepted(req)
               /\ bucket' = (req.object :> w.ix) @@ Without({w.pub.object})
               /\ cache' = [cache EXCEPT ![p] =
                    [object |-> req.object, ix |-> w.ix,
                     completeAt |-> IF w.incomplete THEN 0 ELSE w.pub.gen + 1]]
               /\ EndPublished(p)
          ELSE /\ cache' = [cache EXCEPT ![p] = None]
               /\ UNCHANGED <<record, bucket>>
               /\ IF w.attempt < PublishAttempts
                  THEN /\ cycle' = [cycle EXCEPT ![p] =
                            IF w.by = "writer"
                            THEN [pc |-> "begin", by |-> w.by, attempt |-> w.attempt + 1,
                                  remade |-> w.remade]
                            ELSE [pc |-> "begin", by |-> w.by, attempt |-> w.attempt + 1]]
                       /\ UNCHANGED work
                  ELSE EndFailed(p)
       /\ UNCHANGED <<control, late, budget>>

(* The object is not stored, and the cache dropped.                        *)
SaveFails(p) ==
    /\ cycle[p].pc = "merged"
    /\ Spend
    /\ cache' = [cache EXCEPT ![p] = None]
    /\ EndFailed(p)
    /\ UNCHANGED <<control, record, bucket, late>>

(* publish loses the answer: the publication landed, may yet, or never.    *)
LoseAnswer(p) ==
    LET req == Request(p)
    IN /\ cycle[p].pc = "merged"
       /\ Spend
       /\ bucket' = (req.object :> cycle[p].ix) @@ bucket
       /\ cache' = [cache EXCEPT ![p] = None]
       /\ cycle' = [cycle EXCEPT ![p] = [pc |-> "lost", object |-> req.object] @@ @]
       /\ \/ Accepts(req) /\ record' = Accepted(req) /\ UNCHANGED late
          \/ late' = late \cup {req} /\ UNCHANGED record
          \/ UNCHANGED <<record, late>>
       /\ UNCHANGED <<control, work>>

ReconcileWithoutReading(p) ==
    /\ cycle[p].pc = "lost"
    /\ bucket' = Without({cycle[p].object})
    /\ EndFailed(p)
    /\ UNCHANGED <<control, record, late, cache, budget>>

(* The record is read back.                                                *)
Reconcile(p) ==
    /\ cycle[p].pc = "lost"
    /\ \/ /\ record.object = cycle[p].object
          /\ bucket' = Without({cycle[p].pub.object})
          /\ EndPublished(p)
          /\ UNCHANGED budget
       \/ /\ record.object # cycle[p].object
          /\ bucket' = Without({cycle[p].object})
          /\ EndFailed(p)
          /\ UNCHANGED budget
       \/ /\ Spend
          /\ EndFailed(p)
          /\ UNCHANGED bucket
    /\ UNCHANGED <<control, record, late, cache>>

(* A publication nobody waits for reaches the control plane.               *)
Land ==
    \E req \in late :
        /\ late' = late \ {req}
        /\ record' = IF Accepts(req) THEN Accepted(req) ELSE record
        /\ UNCHANGED <<control, bucket, cache, work, cycle, budget>>

(* A read of the record or the object fails, or the time is up.            *)
Fail(p) ==
    /\ cycle[p].pc \in {"begin", "read"}
    /\ Spend
    /\ EndFailed(p)
    /\ UNCHANGED <<control, record, bucket, late, cache>>

(* A query fills the cache from the published object; needsRepair reads    *)
(* past it, and the budget evicts it.                                      *)
Query(p) ==
    /\ cycle[p].pc = "free"
    /\ ~Cached(p, record.object)
    /\ cache' = [cache EXCEPT ![p] = CacheAfter(p, record.object, load(p, record.object).ix)]
    /\ UNCHANGED <<control, record, bucket, late, work, cycle, budget>>

Drop(p) ==
    /\ cycle[p].pc = "free"
    /\ cache[p] # None
    /\ Spend
    /\ cache' = [cache EXCEPT ![p] = None]
    /\ UNCHANGED <<control, record, bucket, late, work, cycle>>

(* A replica ends with all it holds; its chats and objects stay.           *)
Crash(p) ==
    /\ Spend
    /\ cache' = [cache EXCEPT ![p] = None]
    /\ landed' = [landed EXCEPT ![p] = {}]
    /\ pending' = [pending EXCEPT ![p] = [c \in Chat |-> None]]
    /\ batch' = [batch EXCEPT ![p] = {}]
    /\ rebuild' = [rebuild EXCEPT ![p] = Idle]
    /\ cycle' = [cycle EXCEPT ![p] = Free]
    /\ UNCHANGED <<control, record, bucket, late>>

Next ==
    \/ \E p \in Replica, c \in Chat : PushChat(p, c) \/ RemoveChat(p, c)
    \/ \E c \in Chat : Rewrap(c)
    \/ \E p \in Replica :
          \/ Enqueue(p) \/ Take(p) \/ Lock(p) \/ ReadRecord(p) \/ Merge(p)
          \/ BeginRebuild(p) \/ loadCheckpoint(p) \/ ListPage(p) \/ LockPage(p)
          \/ MergePage(p) \/ Publish(p) \/ SaveFails(p) \/ LoseAnswer(p)
          \/ Reconcile(p) \/ Fail(p) \/ Query(p) \/ Drop(p) \/ Crash(p)
    \/ Land

Spec == Init /\ [][Next]_vars

-----------------------------------------------------------------------------
(* What a query at a replica answers with.                                 *)

rebuildNeeded(p) ==
    LET loaded == load(p, record.object)
    IN \/ record.incomplete \/ record.covered < source
       \/ loaded.ix.incomplete
       \/ record.object # None /\ ~loaded.ok
       \/ record.object = None /\ source > 0

(* A query that asks for no rebuild answers for every chat as it is        *)
(* stored: whatever replica serves it, its copy of the index holds an      *)
(* entry for every chat, made from the chat's latest text.                 *)
AnswersForEveryChat ==
    \A p \in Replica : cycle[p].pc = "free" /\ ~rebuildNeeded(p) =>
        \A c \in Chat : blobs[c] # NoRow =>
            LET entry == load(p, record.object).ix.chats[c]
            IN entry # None /\ entry.of = blobs[c].of

(* And it names no chat that is deleted.                                   *)
NamesNoDeletedChat ==
    \A p \in Replica : cycle[p].pc = "free" /\ ~rebuildNeeded(p) =>
        \A c \in Chat : blobs[c] = NoRow => load(p, record.object).ix.chats[c] = None

(* What is served was stored: a replica's copy of an object, while nobody  *)
(* there changes it, is the object.                                        *)
ServedIsStored ==
    \A p \in Replica :
        cycle[p].pc = "free" /\ cache[p] # None /\ cache[p].object \in DOMAIN bucket
            => cache[p].ix = bucket[cache[p].object]

(* The published index is not deleted: while no publication is under way   *)
(* that nobody waits for, no step leaves the record naming an object that  *)
(* is gone.                                                                *)
PublishedKeptStep ==
    LET stored == record.object = None \/ record.object \in DOMAIN bucket
    IN stored /\ late = {} /\ late' = {} => stored'

=============================================================================
