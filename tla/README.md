# Verification of the harness

TLA+ models of the harness: its chat engine, its store, its search and its
imports and exports. TLC checks them on small instances, and TLAPS proves, for
every value of the constants, the safety properties of the live run registry,
of the stored chat and of listings.

* [The system](#the-system): its parts, and what makes each correct
* [The modules](#the-modules): what each models, and what it abstracts
* [The runs](#the-runs): what TLC checks, with which bounds and fairness
* [The proofs](#the-proofs): what TLAPS proves, and the argument
* [Disagreements](#disagreements) between the code and its documents
* [Not modelled](#not-modelled)

## The system

The harness is one Go service that runs inside an enclave, in several
instances. Clients send it chat turns; it runs the model and its tools, streams
the reply as server-sent events, and stores the chat, sealed under the user's
key, as a row of an external *control plane*. Nothing is shared between
instances but the control plane's rows and the buckets of attachments.

| Part | What makes it correct | Modules |
|---|---|---|
| Live run registry, launch, finish, transfer (`engine/live.go`, `accept.go`, `queue.go`, `start.go`, `finish.go`, `transfer.go`, `shutdown.go`) | critical sections are short, and reads, writes and the model come between them: a chat has one reply, a stop reaches it, each queued turn ends once or is handed on | `LiveRuns` |
| Frame log and streams (`engine/runlog.go`, `stream.go`, `follow.go`) | streams send frames after the lock is released, while folds drop and wipe them: a lent frame is intact, a client shows a prefix of the run, no plaintext outlives its last reader | `FrameLog` |
| Stored chats (`store/`, `controlplane/`) | answers are lost and requests arrive late, on several instances: each change is made once to the chat as stored, or its caller is told it may not have been | `StoredChat`, `ChatRow`, `AtomicChat` |
| A reply's making (`engine/agent.go`, `compaction.go`, `context.go`, `stream.go`, `thoughts.go`, `safeguards.go`, `summarize/`) | prompts fit at every boundary; calls are whole, answered once and billed once; what is screened fits and ends in the reply | `ModelLoop`, `ReplyStream`, `SummaryFold`, `Screening` |
| A chat's changes meanwhile (`domain/`, `server/records.go`) | no answer is lost or told twice, and no summary keeps a deleted message | `ThreadEdits` |
| Attachments (`store/attachments.go`, `maintenance.go`, `attach/`) | sweeps, crashes and uploads of the same bytes leave every named attachment stored | `Attachments`, `Uploads` |
| Keys (`store/keys.go`, `reseal.go`) | rows are sealed again beside writers, and none is stranded | `StoredKeys` |
| Listings, profile (`store/summaries.go`, `domain/profile.go`) | a kept summary is served only for its revision; no device's change undoes another's | `SummaryCache`, `Profiles` |
| Search (`search/`, `searchindex/`, `jobs/`) | an index published by several replicas covers exactly what it claims; slots of the embedding gate are never lost | `SearchIndex`, `Rebuilds`, `TokenIndex`, `InferenceGate` |
| Archives (`archives/`, `importer/`) | an import stores once however often it is retried; an export accounts for every settled row; nobody waits for disk space holding some | `ArchiveImport`, `CloudImport`, `Export`, `PageReads`, `Scratch`, `ImportTree` |
| Callers (`auth/`) | a key is let in only if accepted lately; a refused run takes up the newest token | `Callers` |

The control plane, the buckets, the model service and the converter are
external. They are modelled from how the code uses them: what they answer is a
choice, within what the code takes from them.

## The modules

Operators whose names extend another's (`GoesOnAlways` beside `GoesOn`) are
plausible mistakes in the code the other models. Nothing uses them but the
mutation tests listed in `PROJECT.json`, which replace the right definition by
the wrong one and expect TLC to find the property violated.

Most modules take a constant `Budgets`: what a behaviour may still do (requests,
faults, crashes, changes by others). A step that the world, not the code,
decides to take spends some of it.

### The engine

**LiveRuns.** A `Run` object is named by the `AcceptTurn` call that made it and
a `threadSession` by the call or transfer that made it. `phase` says where a run
is: *queued*; *next* (handed the chat by `advance`, its goroutine not yet
started), *launching*, *failed* (`launch` returned an error), *running*,
*ending* (`finishRun` past its first lock), all of which hold the chat; then
*retired*, *closed*, *over*, or *unstarted* and *void* for one that never ran,
or *dropped* for one removed from a queue. `at` says where the call is in
`AcceptTurn`. One owner is modelled: the maps' keys carry the owner. What I/O
answers is free; the request is its nonce, chat, key, kind and whether it is a
device chat's; grants, quotas and the memory probe are free choices; an
operation a client makes on a run is possible whenever the run was ever
admitted, since the run may have moved on between the two locks.

**FrameLog.** A frame carries the numbers of the events it stands for, so that
merging, replacing and wiping can be told apart from losing; sizes count events.
A client applies `reset`, `set` and `add` as the protocol says. `memory` holds
the buffers not cleared. The frames a run starts with are one `reset`, and those
that end it are one frame. The window's timer may fire at any time.

**ModelLoop** is `loop` with its limits, its one renewal of credentials, its
preflight and its compaction; texts are costs in tokens. **ReplyStream** is one
turn's stream: the calls announced, completed, run in goroutines of their own
and answered, and the summaries of thoughts made beside them. **SummaryFold**
splits documents into parts that fit a call and folds them into a summary; a
document is its words and the blanks around them. **Screening** is what a
completed run submits; a text is characters with the bytes each takes before and
after encoding, and every message is counted with a comma, as the code does.

**ThreadEdits** is one chat beside one turn: sends, edits, regenerations,
continuations and answers to widgets, and what `finishRun` commits. Left out:
an answer to a widget that was replaced by one with the same question ids, an
update of the very reply being continued, and a reply deleted while it is
continued, which the commit appends again.

**Callers** has one signed-in and one signed-out caller with several requests.
Signatures are left out; the caches' eviction by other callers is a choice.
Two presentations that overlap may keep the older of two tokens (`chatToken`
reads and then adds with no lock between, `auth.go:328`): `RenewedIsNewest`
excepts them.

### The store

**StoredChat.** A push is its idempotency key, the revision it names and the
chat it writes. Every send may be answered, or lose its answer, after which the
put stays in `late` and may arrive at any time or never. The control plane makes
a put at the revision it names, answers a known idempotency key as before
without a change, and never gives a revision twice (an assumption about the
service: the repository's test stub restarts a deleted row's revisions).
`Editor` stands for the other callers of `MutateThread`. `MaxSends` stands for
the sends of `Store.Push` times those of `Client.PutBlob`. An instance may crash
at any moment; its puts stay out. **ChatRow** holds the changes themselves, and
**AtomicChat** is the abstract specification: each writer reads and writes the
chat in one step. `StoredChat` assumes of one instance's runs what `LiveRuns`
shows (`OneReplyPerChat`).

**Attachments** is one chat's attachments between the index, the ledger of
reserved writes, the purge queue and the buckets, with the turns that place
them, an import, and the sweeps of several replicas, any of which may fail
between two requests. `Races` names five races of which the run
`store` explores none and the run `store_release` one; a behaviour runs into one
only where its budget says so. **Uploads** is the way of a file through the
converter and back with the turn: the converter answers valid UTF-8, no image
has a side of zero, and a JPEG copy is within the size limit.

**StoredKeys** is the registry of keys and the rows sealed under them. **SummaryCache** is one instance's kept summaries:
a row's title stands for all its content, and changes with every revision, as
its project may change without one. **Profiles** is the profile row beside
several devices and the apps' own sync; the row is never deleted, and the cap of
its clocks (2^53) is left out.

### Search

**SearchIndex** is the published index with the writers, rebuilds and caches of
several replicas. Chats are listed in the order they were written; a page is
listed and read in one step; embeddings, orphan objects, changes of the key or
the model and the waits of `Flush` are left out. Reseals of rows meet writers
but not rebuilds in the run: a rebuild passes over a row resealed after it read
it (`rebuild.go:406`) until the row is next written or the index rebuilt.
**Rebuilds** is the job runner as rebuilds use it. **TokenIndex** is the index
as a data structure: vectors are how close they are to a query, the rank
constant is 0 rather than 60, and the sum of the words' weights is a product;
dimensions and models are left out. **InferenceGate** is the gate's semaphores
and rates.

### Archives

**ArchiveImport** reads an archive's records to the device or to a job;
**CloudImport** is the job, which stores each record under the first vacant of
the ids derived for it. A device chat that cannot be streamed after the job was
started ends the request, and the import goes on (`restore.go:226`). **Export** is an export beside writers. A page is listed
and read in one step, a project's documents are read at once, and documents in
blobs behave as images. Rows that are written while the export pages may move
past it, so the properties are about the rows that are left alone. A restore is
checked for its counts and links. **PageReads** is the read-ahead of images,
**Scratch** the disk's semaphore, and **ImportTree** the reading of a ChatGPT
conversation, which may be any graph of nodes.

### Instances

The modules `MC*` hold the constants for TLC. Where parts share no state, one
module holds several (`MCReply`, `MCCatalog`, `MCStore`, `MCProgress`): `part`
says which one a behaviour is of, and the others stand still.

## The runs

Run one with `tlc -config <cfg> <module>`. Every run says `CHECK_DEADLOCK
FALSE`: the finite sets of calls, events or writers are used up, after which the
service waits for ever for a next request.

| Run | Module, configuration | Shows |
|---|---|---|
| `live` | `MCLiveRuns`, `LiveRuns` | one reply per chat, turns wait only behind it, `Finished` closed once, stops reach every reply, nothing written after `Wait`, the registry holds exactly what is live, no turn on a chat being moved, no log of a deleted device chat, queues ended or handed on as asked |
| `log` | `MCFrameLog`, `FrameLog` | lent frames are intact, no plaintext is left, clients show a prefix of the run, what is committed was streamed |
| `stored` | `MCStoredChat`, `StoredChat` | the store implements `AtomicChat`, callers are told the truth, a deleted chat is not brought back, no message twice |
| `progress` | `MCProgress`, `Progress` | every request is answered and every run ends, an ended run's plaintext goes, commits settle, a conversation's reading ends |
| `reply` | `MCReply`, `Reply` | limits and bills of the loop, calls of the stream, shares of the gate, folds, answers kept, uploads taken, submissions, credentials |
| `catalog` | `MCCatalog`, `Catalog` | search, rebuild jobs, the token index, listings, the profile |
| `store` | `MCStore`, `Store` | attachments, keys, imports, archives, the scratch disk, exports |
| `cancel`, `summary_deleted`, `search_check`, `rebuild_overlap`, `store_release` | `LiveRunsCancel`, `ReplyDeleted`, `CatalogCheck`, `CatalogOverlap`, `StoreRelease` | expected violations: see [Disagreements](#disagreements) |

**Bounds.** *Turns:* three turns of one chat are a running reply and a first and
a second in its queue, which is what send-now and removal tell apart; a fourth
finds the queue full; two calls of one nonce are a retry. `MCLiveRuns` splits
them into parts, in each of which only some clients turn up, and bars from the
two largest parts what the others explore (refusals, and a deletion together
with a shutdown). *Log:* a budget of one event folds the log at every second
frame, and six events fold a fold's checkpoint again, with three deltas to
merge; two followers are a stream that reads before a fold and one after it.
*Stored chat:* two attempts are one conflict and one exhaustion, where the code
has three, and two sends one lost answer under the same key. *Search:* two
replicas, two chats and pages of one chat make a rebuild that resumes beside
writers on both. *Attachments:* two turns of one upload and two sweeps are each
shared id in the hands of two. *Imports:* two ids derived for an entity, one of
them taken by a row of another key. The rest are the least at which a limit is
reached, exceeded and left again.

**Fairness.** Goroutines are scheduled, and every call they wait for has a
deadline, so their steps are weakly fair: in `LiveRuns` the steps of
`AcceptTurn` (its launch is bounded by `CommitTimeout`), of a run
(`RunTimeout`, then `CommitTimeout`) and of a transfer's end; in `FrameLog` the
run, the held log's timer (`heldRunTTL`) and a stream whose client reads or is
cut off; in `StoredChat` the commits and deletions under way; in `ImportTree`
its one loop. Clients, the signal to stop, crashes and late arrivals are never
obliged to happen. Only the run `progress` uses fairness.

## The proofs

`tlapm <module>.tla` checks a module's proofs. The theorems hold for any sets of
calls, chats, runs, editors, deletions, instances and listings and for any
limits, from these assumptions: `CallAssumption`, `ChatAssumption`,
`NilAssumption` and `StoreAssumption` say that sets of objects the code tells
apart are disjoint, that every call, run and transfer has its request, chat and
instance, that limits are positive, and that a continuation names the reply it
continues. TLC evaluates them in the runs `live`, `stored` and `progress`.

| Theorem | In | States |
|---|---|---|
| `Invariance`, `TypeCorrect` | `LiveRunsProofs` | `Spec => []Inv`; the types, so that the WaitGroup never goes below zero |
| `OneReply` | | `[]OneReplyPerChat` |
| `QueueBehind` | | `[]QueueBehindReply` |
| `FinishedOnceAlways` | | `[]FinishedOnce` |
| `Registry` | | `[]RegistryExact` |
| `MovingIdle` | | `[]MovingChatIsIdle` |
| `StopReaches` | | `[]StopReachesReply` |
| `WaitCovers` | | `[]WaitCoversRuns` |
| `DeletedGone` | | `[]DeletedNotHeld` |
| `QueueEnds` | | `QueueEndsAsAsked`, an action property |
| `StoredInvariance` | `StoredChatProofs` | `Spec => []Inv` of the stored chat |
| `SoundAlways` | | `[]ChatStaysSound` |
| `AnswersTrue` | | `[]AnswersAreTrue` |
| `NeverRecreated` | | `NeverRecreates`, an action property |
| `Refinement` | | `ImplementsAtomicChat`: every step of `StoredChat` is a step of `AtomicChat` or changes nothing of it |
| `Listed` | `SummaryCacheProofs` | `[]ListedAsStored` |

So every property of the runs `live` and `stored` is proved.

**The registry.** `LiveRunsInvariant` states the inductive invariant and proves
that every step keeps the types and the WaitGroup's count; `LiveRunsSteps` and
`LiveRunsStops` prove that each action keeps `Agreement`. `OneReplyPerChat`
speaks of two runs' phases. What keeps them apart is that each is its session's
`Active` (`HolderIsActive`) and that both have the same session, the one their
chat is registered by (`Registered`). For that to be inductive the rest of the
agreement is needed. A queue's turns are queued, in one place and once
(`QueueWaits`, `QueuedIsIn`), so that `advance` makes active a turn that holds
nothing yet. A queue is never without a reply (`BehindReply`), so that
`dropIdle` never unregisters a session with turns left. A session stands for one
chat (`OnePlace`), a run that is not yet admitted is nobody's (`Unpublished`,
`AdmittedOnce`), a turn handed on is handed on by one run (`HandedOn`), and a
transfer's placeholder takes no turn (`TransfersRefuse`). `WaitCovers` needs
besides that `Wait` answers only once the service is closing and that no launch
then starts.

`LiveRunsRegistry` builds five more invariants on the agreement, each with a
lemma that every step keeps it: `Bounded` (queues within the limit), `Found`
(the maps hold the live runs and the calls on their way in), `Busy` (a chat is
registered only while it has work), `Told` and `Gone`. `StopReachesReply` is not
inductive alone: `Told` adds that a reply that finishes with its cancellation
unread was cancelled by a deletion or a shutdown, which is also why such a reply
hands nothing on (`QueueEnds`). `DeletedNotHeld` needs `Gone`: a run caught by
the deletion of its device chat is over, or its session is marked deleted and
its log is not held when it ends.

**The stored chat.** `StoredChatInvariant` states the invariant and sorts the
steps by what they do to the row: most move one writer on and touch nothing
shared (`Quiet`), and the others write the row, remove it, or start a writer's
next attempt or stage. That a change is made once, to the chat as stored, is a
matter of every push that may still arrive (`Out`: those under way and those
nobody waits for any more). Each carries the change of its stage to the chat of
the revision it names (`Reads`), under a key drawn for one read only
(`DrawnOnce`). A push that a writer has moved on from was made, or no longer
matches, or would create a chat that was deleted (`Spent`); so a retry after a
conflict never makes a change that a late push also makes. `Answered` and `Made`
tie what callers were told to what the control plane made, `Kept` and
`LastAsked` what the row holds to the runs that put it there, and `Present` says
that the chat of a request already applied stays until a deletion.

`Refinement` maps the row to its chat and "a deletion was asked for" to the
abstract deletion. A put that is made maps to the abstract change of its writer,
since `Reads` says that what it writes is that change applied to the chat as
stored; it is the writer's first of the stage or follows a deletion, since
`Spent`, `Answered` and `Kept` say so; everything else but the removal stutters.

**The listings.** A revision is of one content wherever it is held, in the row,
in the cache, with a save whose push has returned or with a listing
(`Contents`), and everything a listing has is of a moment since it began
(`Follows`). A kept summary that is served is therefore that of the row listed,
its project apart, which the listing takes from the rows.

**Only model-checked.** Liveness, and whatever needs fairness or `ENABLED` (the
run `progress`), is beyond the prover. So is induction over data: what the folds
and recursive functions over frames, prompts, documents, postings, archives and
trees compute for every input (`FrameLog`, `SummaryFold`, `TokenIndex`,
`ArchiveImport`, `Export`, `ImportTree`, `Screening`, `Profiles`, and the sums
of `Scratch` and `InferenceGate`). The remaining parts (`Callers`,
`SearchIndex`, `Rebuilds`, `Attachments`, `StoredKeys`, `CloudImport`,
`ModelLoop`, `ReplyStream`, `ThreadEdits`, `Uploads`, `PageReads`) have
inductive invariants within reach that are not written yet.

## Disagreements

Where the code and what it says of itself differ; each run shows the behaviour.

* `cancel`: `endUnstarted` (`engine/start.go:370`) calls `advance(r, true)`
  whether or not its turn was cancelled. A turn cancelled while it is being
  launched, and that then fails to start, hands its chat to the turn queued
  behind it. `engine/live.go:242`: "A chat whose reply was stopped ends the
  turns queued behind it"; `protocol/openapi.yaml:212`: "The turns queued behind
  it end too". `QueueEnds` proves that a reply that did start keeps the promise.
* `summary_deleted`: a turn that compacts its chat commits the summary it made
  at its start (`engine/finish.go:72`); a message that is deleted meanwhile
  stays in it. `server/records.go:361`: "A summary of the deleted message must
  not keep what it said."
* `search_check`: `rebuildPage` changes the index the cache serves before its
  checks, and leaves those changes there when a check fails
  (`search/rebuild.go:394`). `search/cache.go:24`: "every change is stored
  before it is served."
* `rebuild_overlap`: `forgetLocked` (`search/rebuild.go:200`) forgets a
  cancelled rebuild without waiting for it, and the next begins while it winds
  down. `search/rebuild.go:108`: "so two never write the same index."
* `store_release`: `releasePending` (`store/maintenance.go:157`) deletes the
  bytes of abandoned writes after the control plane forgot them; an upload of
  the same bytes in between is then named by a chat and not stored.
  `store/maintenance.go:154`: "one it cannot delete is left in buckets, named by
  no chat."

## Not modelled

* In the engine: the transport of tool sessions, citations, heartbeats and
  usage; the text of prompts; the expiry of a run's marker, which a turn saved
  and then refused at launch's last check leaves (`start.go:263`).
* In the store: the scopes and expiry of grants, flagged chats, shares. A put
  that creates a chat and arrives after a deletion that found no row creates it
  (`AtomicChat` allows it).
* In search: embeddings, orphan objects, changes of key or model.
* In archives: reading the form, rendering to other formats, the importers of
  formats that are plain lists.
* Sealing, inference and its catalog, page fetching, buckets, speech, and the
  HTTP routes: computation over bytes, or calls to other services.
