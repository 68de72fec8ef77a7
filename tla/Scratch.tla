------------------------------ MODULE Scratch -------------------------------
(***************************************************************************)
(* The disk space archive requests spool into (internal/archives/          *)
(* scratch.go): a weighted semaphore as large as the disk, of which a      *)
(* request holds what its files take.  A request that holds nothing waits  *)
(* its turn for space; one that holds some is refused rather than wait.  A *)
(* file handed to a background import keeps its space after the request.   *)
(***************************************************************************)
EXTENDS Naturals, SequencesExt, FiniteSetsExt

CONSTANTS
    Request,
    Size,       \* the space there is
    Chunk,      \* the sizes written at once
    Budgets     \* bound: the files and the writes

VARIABLES
    taken,     \* the semaphore's count
    waiters,   \* its queue: who waits, for which file and how much
    lease,     \* request to what its lease holds and what each file does
    detached,  \* the space of the files handed on, each until its release
    budget

vars == <<taken, waiters, lease, detached, budget>>

Spend(what) == budget[what] > 0 /\ budget' = [budget EXCEPT ![what] = @ - 1]

Waiting(r) == \E i \in DOMAIN waiters : waiters[i].r = r

(* The space and the requests for it have the shapes the code gives them. *)
TypeOK ==
    /\ taken \in 0 .. Size
    /\ \A r \in Request : lease[r].held \in 0 .. Size
    /\ \A i, j \in DOMAIN waiters : waiters[i].r = waiters[j].r => i = j

Init ==
    /\ budget \in Budgets
    /\ taken = 0 /\ waiters = <<>> /\ detached = <<>>
    /\ lease = [r \in Request |-> [held |-> 0, files |-> <<>>]]

-----------------------------------------------------------------------------
(* The semaphore (golang.org/x/sync), first come first served.             *)

Holding(l, w) == [l EXCEPT ![w.r].held = @ + w.n, ![w.r].files[w.file] = @ + w.n]

(* How many of the queue's first fit, one after the other.                 *)
Fitting(queue, free) ==
    LET need(k) == FoldLeft(LAMBDA sum, w : sum + w.n, 0, SubSeq(queue, 1, k))
    IN Max({k \in 0 .. Len(queue) : need(k) <= free})

(* The waiters served once `used` of the space is taken.                   *)
Serve(queue, used, l) ==
    LET served == SubSeq(queue, 1, Fitting(queue, Size - used))
    IN /\ waiters' = SubSeq(queue, Len(served) + 1, Len(queue))
       /\ taken' = FoldLeft(LAMBDA sum, w : sum + w.n, used, served)
       /\ lease' = FoldLeft(Holding, l, served)

TryAcquire(n) == waiters = <<>> /\ taken + n <= Size

-----------------------------------------------------------------------------

Create(r) ==
    /\ ~Waiting(r)
    /\ Spend("files")
    /\ lease' = [lease EXCEPT ![r].files = Append(@, 0)]
    /\ UNCHANGED <<taken, waiters, detached>>

(* A variant: a request that holds space waits for more.                   *)
MayWaitHolding(r) == TRUE

(* Take refuses a request that holds space rather than have it wait.       *)
MayWait(r) == lease[r].held = 0

(* Write takes the space first; one refused writes nothing, and one that   *)
(* then falls short keeps the space until its release.                     *)
Write(r) ==
    /\ ~Waiting(r) /\ lease[r].files # <<>>
    /\ Spend("writes")
    /\ \E n \in Chunk :
         LET w == [r |-> r, file |-> Len(lease[r].files), n |-> n]
         IN \/ /\ lease[r].held + n > Size \/ (~TryAcquire(n) /\ ~MayWait(r))   \* too large, or busy
               /\ UNCHANGED <<taken, waiters, lease>>
            \/ /\ lease[r].held + n <= Size /\ TryAcquire(n)
               /\ taken' = taken + n /\ lease' = Holding(lease, w)
               /\ UNCHANGED waiters
            \/ /\ lease[r].held + n <= Size /\ ~TryAcquire(n) /\ MayWait(r)
               /\ waiters' = Append(waiters, w)
               /\ UNCHANGED <<taken, lease>>
    /\ UNCHANGED detached

(* The wait, or the request, ends: those behind it may fit.                *)
GiveUp(r) ==
    /\ Waiting(r)
    /\ Serve(SelectSeq(waiters, LAMBDA w : w.r # r), taken, lease)
    /\ UNCHANGED <<detached, budget>>

Empty == [held |-> 0, files |-> <<>>]

Release(r) ==
    /\ ~Waiting(r) /\ lease[r] # Empty
    /\ Serve(waiters, taken - lease[r].held, [lease EXCEPT ![r] = Empty])
    /\ UNCHANGED <<detached, budget>>

Detach(r) ==
    /\ ~Waiting(r) /\ lease[r].files # <<>>
    /\ detached' = Append(detached, Head(lease[r].files))
    /\ lease' = [lease EXCEPT ![r].held = @ - Head(lease[r].files), ![r].files = Tail(@)]
    /\ UNCHANGED <<taken, waiters, budget>>

(* The import that took a file releases it.                                *)
ReleaseFile(i) ==
    /\ detached' = RemoveAt(detached, i)
    /\ Serve(waiters, taken - detached[i], lease)
    /\ UNCHANGED budget

Next ==
    \/ \E r \in Request : Create(r) \/ Write(r) \/ GiveUp(r) \/ Release(r) \/ Detach(r)
    \/ \E i \in DOMAIN detached : ReleaseFile(i)

Spec == Init /\ [][Next]_vars

-----------------------------------------------------------------------------
(* The space counted as taken is the space of files some request or import *)
(* still releases: none is freed twice, none is lost when a file is handed *)
(* on, and the disk is never promised beyond its size.                     *)
SpaceIsHeld ==
    /\ taken = MapThenSumSet(LAMBDA r : lease[r].held, Request) + FoldLeft(LAMBDA a, b : a + b, 0, detached)
    /\ \A r \in Request : lease[r].held = FoldLeft(LAMBDA a, b : a + b, 0, lease[r].files)

(* Whoever waits for space waits for someone who does not: requests that   *)
(* hold space never wait for each other's (Take, errScratchBusy).          *)
WaitsForProgress ==
    waiters # <<>> => \/ \E r \in Request : lease[r].held > 0 /\ ~Waiting(r)
                      \/ \E i \in DOMAIN detached : detached[i] > 0
=============================================================================
