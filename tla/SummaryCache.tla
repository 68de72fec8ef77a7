---------------------------- MODULE SummaryCache ----------------------------
(***************************************************************************)
(* The summaries of chats one instance keeps between listings              *)
(* (internal/store/summaries.go), each served only while the control plane *)
(* lists its chat at the revision it was read at, while chats are saved by *)
(* this and other instances and projects are deleted.                      *)
(***************************************************************************)
EXTENDS Naturals, FiniteSets

CONSTANTS
    Chat,
    Project,
    Listing,    \* requests that list the chats
    None,
    Budgets     \* bound: saves, moves, deletions and listings

VARIABLES
    row,      \* a chat as stored: its revision, title and project, or None
    kept,     \* the summaries kept, each with its revision
    saving,   \* a save whose summary is yet to be kept, or None
    listing,
    seen,     \* history: the summaries each chat has had since a listing began
    budget

vars == <<row, kept, saving, listing, seen, budget>>

Spend(what) == budget[what] > 0 /\ budget' = [budget EXCEPT ![what] = @ - 1]

Summary(r) == [title |-> r.title, project |-> r.project]

Idle == [pc |-> "idle", listed |-> [c \in {} |-> None], found |-> [c \in {} |-> None]]

(* The rows, the cache and its readers have the shapes the code gives them. *)
TypeOK ==
    /\ \A c \in Chat : kept[c] # None /\ row[c] # None => kept[c].etag <= row[c].etag
    /\ \A l \in Listing : DOMAIN listing[l].found \subseteq DOMAIN listing[l].listed

Init ==
    /\ budget \in Budgets
    /\ \E p \in Project : row = [c \in Chat |-> [etag |-> 1, title |-> 1, project |-> p]]
    /\ kept = [c \in Chat |-> None]
    /\ saving = None
    /\ listing = [l \in Listing |-> Idle]
    /\ seen = [l \in Listing |-> [c \in Chat |-> {}]]

(* Every listing under way sees what a chat becomes.                       *)
Became(c, summaries) ==
    seen' = [l \in Listing |-> IF listing[l].pc = "idle" THEN seen[l]
                               ELSE [seen[l] EXCEPT ![c] = @ \cup summaries]]

-----------------------------------------------------------------------------

(* A chat is saved at the revision it was read at, by this instance or by  *)
(* another, titled anew and perhaps in another project.                    *)
Save(c) ==
    /\ row[c] # None
    /\ Spend("saves")
    /\ \E project \in Project \cup {None}, here \in BOOLEAN :
         LET r == [etag |-> row[c].etag + 1, title |-> row[c].title + 1, project |-> project]
         IN /\ row' = [row EXCEPT ![c] = r]
            /\ Became(c, {Summary(r)})
            /\ IF here
               THEN saving = None /\ saving' = [chat |-> c, etag |-> r.etag, summary |-> Summary(r)]
               ELSE UNCHANGED saving
    /\ UNCHANGED <<kept, listing>>

(* SaveThread keeps the summary once the push has returned.                *)
Keep ==
    /\ saving # None
    /\ kept' = [kept EXCEPT ![saving.chat] = [etag |-> saving.etag, summary |-> saving.summary]]
    /\ saving' = None
    /\ UNCHANGED <<row, listing, seen, budget>>

(* The control plane deletes a project: its chats leave it without a new   *)
(* revision.                                                               *)
DeleteProject(p) ==
    /\ Spend("deletions")
    /\ row' = [c \in Chat |-> IF row[c] # None /\ row[c].project = p THEN [row[c] EXCEPT !.project = None] ELSE row[c]]
    /\ seen' = [l \in Listing |-> IF listing[l].pc = "idle" THEN seen[l]
                  ELSE [c \in Chat |-> seen[l][c] \cup IF row'[c] = None THEN {} ELSE {Summary(row'[c])}]]
    /\ UNCHANGED <<kept, saving, listing>>

Delete(c) ==
    /\ row[c] # None
    /\ Spend("deletions")
    /\ row' = [row EXCEPT ![c] = None]
    /\ UNCHANGED <<kept, saving, listing, seen>>

(* A summary's time passes, or newer ones push it out.                     *)
Lapse(c) ==
    /\ kept[c] # None
    /\ kept' = [kept EXCEPT ![c] = None]
    /\ UNCHANGED <<row, saving, listing, seen, budget>>

-----------------------------------------------------------------------------
(* ThreadSummaries: the revisions listed, the kept summaries at those, and *)
(* the other chats read.                                                   *)

(* A variant: a kept summary is served whatever the chat's revision.       *)
KeptAtAny(c, listed) == kept[c] # None

KeptAt(c, listed) == kept[c] # None /\ kept[c].etag = listed.etag

(* The listed project is current: the chat may have left one deleted.      *)
Served(c, listed) == [kept[c].summary EXCEPT !.project = listed.project]

List(l) ==
    /\ listing[l].pc = "idle"
    /\ Spend("listings")
    /\ LET live == {c \in Chat : row[c] # None}
       IN /\ listing' = [listing EXCEPT ![l].pc = "serve", ![l].listed = [c \in live |-> row[c]]]
          /\ seen' = [seen EXCEPT ![l] = [c \in Chat |-> IF c \in live THEN {Summary(row[c])} ELSE {}]]
    /\ UNCHANGED <<row, kept, saving>>

Serve(l) ==
    LET listed == listing[l].listed
    IN /\ listing[l].pc = "serve"
       /\ listing' = [listing EXCEPT ![l].pc = "pull",
                        ![l].found = [c \in {d \in DOMAIN listed : KeptAt(d, listed[d])} |-> Served(c, listed[c])]]
       /\ UNCHANGED <<row, kept, saving, seen, budget>>

(* The stale chats are read together and their summaries kept; one deleted *)
(* since is left out.                                                      *)
Pull(l) ==
    LET stale == {c \in DOMAIN listing[l].listed \ DOMAIN listing[l].found : row[c] # None}
        found == listing[l].found
    IN /\ listing[l].pc = "pull"
       /\ listing' = [listing EXCEPT ![l].pc = "listed",
                        ![l].found = [c \in DOMAIN found \cup stale |-> IF c \in stale THEN Summary(row[c]) ELSE found[c]]]
       /\ kept' = [c \in Chat |-> IF c \in stale THEN [etag |-> row[c].etag, summary |-> Summary(row[c])] ELSE kept[c]]
       /\ UNCHANGED <<row, saving, seen, budget>>

Answer(l) ==
    /\ listing[l].pc = "listed"
    /\ listing' = [listing EXCEPT ![l] = Idle]
    /\ seen' = [seen EXCEPT ![l] = [c \in Chat |-> {}]]
    /\ UNCHANGED <<row, kept, saving, budget>>

Next ==
    \/ \E c \in Chat : Save(c) \/ Delete(c) \/ Lapse(c)
    \/ Keep
    \/ \E p \in Project : DeleteProject(p)
    \/ \E l \in Listing : List(l) \/ Serve(l) \/ Pull(l) \/ Answer(l)

Spec == Init /\ [][Next]_vars

-----------------------------------------------------------------------------
(* A listing shows each chat as it was stored at some moment since the     *)
(* listing began, its project included, whatever was kept, saved on other  *)
(* instances or moved out of a deleted project since.                      *)
ListedAsStored ==
    \A l \in Listing : listing[l].pc = "listed" =>
        \A c \in DOMAIN listing[l].found : listing[l].found[c] \in seen[l][c]
=============================================================================
