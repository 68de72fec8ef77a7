----------------------------- MODULE PageReads ------------------------------
(***************************************************************************)
(* The attachments of a page of chats, read a few at a time ahead of the   *)
(* export that writes them in the order the page lists them                *)
(* (internal/archives/reads.go, pageReads).                                *)
(***************************************************************************)
EXTENDS Naturals, SequencesExt, FiniteSets

CONSTANTS
    Pages,        \* the pages: each the attachments of its chats, in order,
                  \* as <<chat, attachment>>
    ReadsAhead,
    None

VARIABLES
    page,     \* the page written
    reads,    \* the reads queued, in order: each attachment of a chat once
    started,  \* how many were started
    writer    \* where the writer is: its place and what it waits for

vars == <<page, reads, started, writer>>

(* Each read once, where the page first names it (add).                    *)
Queue(p) ==
    LET firsts == SelectSeq([j \in DOMAIN p |-> j], LAMBDA j : \A h \in 1 .. j - 1 : p[h] # p[j])
    IN [i \in DOMAIN firsts |-> [key |-> p[firsts[i]], state |-> "queued"]]

(* Reads from the first not started up to the nth are started.             *)
Started(r, n) == [i \in DOMAIN r |-> IF i <= n /\ r[i].state = "queued" THEN [r[i] EXCEPT !.state = "runs"] ELSE r[i]]

Least(a, b) == IF a < b THEN a ELSE b

(* The pages read and handed over have the shapes the code gives them. *)
TypeOK ==
    /\ started \in 0 .. Len(reads)
    /\ \A i \in DOMAIN reads : reads[i].state = "queued" <=> i > started
    /\ writer.at \in 1 .. Len(page) + 1

Init ==
    /\ page \in Pages
    /\ reads = Started(Queue(page), ReadsAhead)
    /\ started = Least(ReadsAhead, Len(reads))
    /\ writer = [at |-> 1, pc |-> "write", read |-> None]

(* take starts the reads that follow the one taken.                        *)
Ahead(i) == i + ReadsAhead - 1

(* The writer takes the read of its attachment; one it took before, it     *)
(* reads itself.                                                           *)
Take ==
    /\ writer.pc = "write" /\ writer.at <= Len(page)
    /\ LET i == CHOOSE i \in DOMAIN reads : reads[i].key = page[writer.at]
       IN IF reads[i].state = "taken"
          THEN writer' = [writer EXCEPT !.pc = "direct"] /\ UNCHANGED <<reads, started>>
          ELSE /\ started' = Least(IF Ahead(i) > started THEN Ahead(i) ELSE started, Len(reads))
               /\ reads' = Started(reads, started')
               /\ writer' = [writer EXCEPT !.pc = "waits", !.read = i]
    /\ UNCHANGED page

Taken ==
    /\ writer.pc = "waits" /\ reads[writer.read].state = "done"
    /\ reads' = [reads EXCEPT ![writer.read].state = "taken"]
    /\ writer' = [at |-> writer.at + 1, pc |-> "write", read |-> None]
    /\ UNCHANGED <<page, started>>

ReadDirectly ==
    /\ writer.pc = "direct"
    /\ writer' = [writer EXCEPT !.at = @ + 1, !.pc = "write"]
    /\ UNCHANGED <<page, reads, started>>

(* A read returns.                                                         *)
Return(i) ==
    /\ reads[i].state = "runs"
    /\ reads' = [reads EXCEPT ![i].state = "done"]
    /\ UNCHANGED <<page, started, writer>>

(* The export fails at an attachment; close waits for the reads that run.  *)
Fail ==
    /\ writer.pc \in {"waits", "direct"}
    /\ writer' = [writer EXCEPT !.pc = "closes"]
    /\ UNCHANGED <<page, reads, started>>

Close ==
    /\ writer.pc = "closes" \/ (writer.pc = "write" /\ writer.at > Len(page))
    /\ \A i \in DOMAIN reads : reads[i].state # "runs"
    /\ writer' = [writer EXCEPT !.pc = "closed"]
    /\ UNCHANGED <<page, reads, started>>

Next ==
    \/ Take \/ Taken \/ ReadDirectly \/ Fail \/ Close
    \/ \E i \in DOMAIN reads : Return(i)

Spec == Init /\ [][Next]_vars

Holds == {i \in DOMAIN reads : reads[i].state \in {"runs", "done"}}

(* The attachments read at once and held unwritten are at most readsAhead, *)
(* the one the writer reads itself included, whatever order reads return   *)
(* in and however often a chat names an attachment.                        *)
ReadsBounded == Cardinality(Holds) + (IF writer.pc = "direct" THEN 1 ELSE 0) <= ReadsAhead

(* The writer waits only for a read that was started, and the page's reads *)
(* have all ended once it is closed, so none outlives the export.          *)
WaitsForStarted ==
    /\ writer.pc = "waits" => writer.read <= started
    /\ writer.pc = "closed" => \A i \in DOMAIN reads : reads[i].state # "runs"
=============================================================================
