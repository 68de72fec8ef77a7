------------------------- MODULE SummaryCacheProofs -------------------------
(***************************************************************************)
(* The theorem of SummaryCache, for any chats, projects and listings and   *)
(* any number of saves, moves and deletions.                               *)
(*                                                                         *)
(* A revision is of one content, wherever it is held: in the row, in the   *)
(* cache, with a save whose push has returned, or with a listing.  Only    *)
(* the project may change under a revision, and a listing has that from    *)
(* the rows it listed.                                                     *)
(***************************************************************************)
EXTENDS SummaryCache, TLAPS

OfRevision(etag, summary) ==
    summary = [title |-> etag, project |-> summary.project]

Contents ==
    /\ \A c \in Chat : row[c] # None => row[c].title = row[c].etag
    /\ \A c \in Chat : kept[c] # None => OfRevision(kept[c].etag, kept[c].summary)
    /\ saving # None =>
          saving.chat \in Chat /\ OfRevision(saving.etag, saving.summary)

(* What a listing under way has of the rows, and what became of them.      *)
Follows(l) ==
    /\ DOMAIN listing[l].listed \subseteq Chat
    /\ DOMAIN listing[l].found \subseteq DOMAIN listing[l].listed
    /\ listing[l].pc \in {"idle", "serve"} => DOMAIN listing[l].found = {}
    /\ listing[l].pc # "idle" =>
          \A c \in DOMAIN listing[l].listed :
              /\ row[c] # None => Summary(row[c]) \in seen[l][c]
              /\ Summary(listing[l].listed[c]) \in seen[l][c]
              /\ listing[l].listed[c].title = listing[l].listed[c].etag
    /\ listing[l].pc \in {"pull", "listed"} =>
          \A c \in DOMAIN listing[l].found : listing[l].found[c] \in seen[l][c]

Listings ==
    /\ DOMAIN listing = Listing
    /\ \A l \in Listing : DOMAIN listing[l] = {"pc", "listed", "found"}

Shaped ==
    /\ row = [c \in Chat |-> row[c]]
    /\ kept = [c \in Chat |-> kept[c]]
    /\ Listings
    /\ seen = [l \in Listing |-> [c \in Chat |-> seen[l][c]]]

Inv == Shaped /\ Contents /\ \A l \in Listing : Follows(l)

-----------------------------------------------------------------------------

(* A listing that takes the rows, and one that takes summaries.            *)
LEMMA ListedMoves ==
    ASSUME Listings, NEW l \in Listing, NEW to, NEW m,
           listing' = [listing EXCEPT ![l].pc = to, ![l].listed = m]
    PROVE  /\ listing'[l].pc = to /\ listing'[l].listed = m
           /\ listing'[l].found = listing[l].found
           /\ \A k \in Listing \ {l} : listing'[k] = listing[k]
           /\ Listings'
<1>1. listing'[l] = [listing[l] EXCEPT !.pc = to, !.listed = m]
  BY DEF Listings
<1>2. DOMAIN listing[l] = {"pc", "listed", "found"}
  BY DEF Listings
<1>3. /\ DOMAIN listing' = Listing
      /\ \A k \in Listing \ {l} : listing'[k] = listing[k]
  BY DEF Listings
<1>4. DOMAIN listing'[l] = {"pc", "listed", "found"}
  BY <1>1, <1>2, Zenon
<1>5. /\ listing'[l].pc = to /\ listing'[l].listed = m
      /\ listing'[l].found = listing[l].found
  BY <1>1, <1>2, Zenon
<1> QED BY <1>3, <1>4, <1>5 DEF Listings

(* What a listing's step from one place to the next leaves as it was.      *)
LEMMA FoundMoves ==
    ASSUME Listings, NEW l \in Listing, NEW to, NEW m,
           listing' = [listing EXCEPT ![l].pc = to, ![l].found = m]
    PROVE  /\ listing'[l].pc = to /\ listing'[l].found = m
           /\ listing'[l].listed = listing[l].listed
           /\ \A k \in Listing \ {l} : listing'[k] = listing[k]
           /\ Listings'
<1>1. listing'[l] = [listing[l] EXCEPT !.pc = to, !.found = m]
  BY DEF Listings
<1>2. DOMAIN listing[l] = {"pc", "listed", "found"}
  BY DEF Listings
<1>3. /\ DOMAIN listing' = Listing
      /\ \A k \in Listing \ {l} : listing'[k] = listing[k]
  BY DEF Listings
<1>4. DOMAIN listing'[l] = {"pc", "listed", "found"}
  BY <1>1, <1>2, Zenon
<1>5. /\ listing'[l].pc = to /\ listing'[l].found = m
      /\ listing'[l].listed = listing[l].listed
  BY <1>1, <1>2, Zenon
<1> QED BY <1>3, <1>4, <1>5 DEF Listings

(* The invariant holds before any chat is stored.                          *)
LEMMA InvInit ==
    ASSUME Init
    PROVE  Inv
<1>1. Shaped
  BY DEF Init, Shaped, Listings, Idle
<1>2. Contents
  BY DEF Init, Contents
<1>3. \A l \in Listing : Follows(l)
  BY DEF Init, Follows, Idle
<1> QED BY <1>1, <1>2, <1>3 DEF Inv

(* A listing that takes no part in a step follows the rows as they change. *)
LEMMA StillFollows ==
    ASSUME NEW l \in Listing, Follows(l), listing'[l] = listing[l],
           listing[l].pc # "idle" =>
               \A c \in Chat : /\ seen[l][c] \subseteq seen'[l][c]
                               /\ row'[c] # None => \/ row'[c] = row[c]
                                                    \/ Summary(row'[c]) \in seen'[l][c]
    PROVE  Follows(l)'
<1>1. ASSUME listing[l].pc # "idle", NEW c \in DOMAIN listing[l].listed
      PROVE  /\ row'[c] # None => Summary(row'[c]) \in seen'[l][c]
             /\ Summary(listing[l].listed[c]) \in seen'[l][c]
             /\ listing[l].listed[c].title = listing[l].listed[c].etag
  BY <1>1 DEF Follows
<1>2. ASSUME listing[l].pc \in {"pull", "listed"}, NEW c \in DOMAIN listing[l].found
      PROVE  listing[l].found[c] \in seen'[l][c]
  BY <1>2 DEF Follows
<1>3. /\ DOMAIN listing[l].listed \subseteq Chat
      /\ DOMAIN listing[l].found \subseteq DOMAIN listing[l].listed
      /\ listing[l].pc \in {"idle", "serve"} => DOMAIN listing[l].found = {}
  BY DEF Follows
<1> QED BY <1>1, <1>2, <1>3 DEF Follows, Summary

(* A save makes a revision's content, which every listing under way sees.  *)
LEMMA SaveInv ==
    ASSUME Inv, NEW c \in Chat, Save(c)
    PROVE  Inv'
<1>1. PICK project \in Project \cup {None}, here \in BOOLEAN :
        LET r == [etag |-> row[c].etag + 1, title |-> row[c].title + 1, project |-> project]
        IN /\ row' = [row EXCEPT ![c] = r]
           /\ Became(c, {Summary(r)})
           /\ IF here
              THEN saving = None /\ saving' = [chat |-> c, etag |-> r.etag, summary |-> Summary(r)]
              ELSE UNCHANGED saving
  BY Zenon DEF Save
<1> DEFINE r == [etag |-> row[c].etag + 1, title |-> row[c].title + 1, project |-> project]
<1>2. /\ row[c] # None
      /\ row' = [row EXCEPT ![c] = r]
      /\ Became(c, {Summary(r)})
      /\ \/ saving' = saving
         \/ saving' = [chat |-> c, etag |-> r.etag, summary |-> Summary(r)]
      /\ UNCHANGED <<kept, listing>>
  BY <1>1, Zenon DEF Save
<1>3. r.title = r.etag
  BY <1>2 DEF Inv, Contents
<1> HIDE DEF r
<1>4. row'[c] = r /\ \A d \in Chat \ {c} : row'[d] = row[d]
  BY <1>2 DEF Inv, Shaped
<1>5. ASSUME NEW l \in Listing, listing[l].pc # "idle"
      PROVE  /\ Summary(r) \in seen'[l][c]
             /\ \A d \in Chat : seen[l][d] \subseteq seen'[l][d]
  BY <1>2, <1>5 DEF Became, Inv, Shaped
<1>6. ASSUME NEW l \in Listing PROVE Follows(l)'
  BY <1>2, <1>4, <1>5, StillFollows DEF Inv
<1>7. Contents'
  BY <1>2, <1>3, <1>4 DEF Inv, Contents, OfRevision, Summary
<1>8. Shaped'
  <2>1. row' = [d \in Chat |-> row'[d]]
    BY <1>2, Zenon DEF Inv, Shaped
  <2>2. seen' = [l \in Listing |-> [d \in Chat |-> seen'[l][d]]]
    BY <1>2, Zenon DEF Became, Inv, Shaped
  <2> QED BY <1>2, <2>1, <2>2 DEF Inv, Shaped, Listings
<1> QED BY <1>6, <1>7, <1>8 DEF Inv

(* A project that goes takes no content with it.                           *)
LEMMA DeleteProjectInv ==
    ASSUME Inv, NEW p \in Project, DeleteProject(p)
    PROVE  Inv'
<1>1. /\ row' = [c \in Chat |-> IF row[c] # None /\ row[c].project = p
                                THEN [row[c] EXCEPT !.project = None] ELSE row[c]]
      /\ seen' = [l \in Listing |-> IF listing[l].pc = "idle" THEN seen[l]
                    ELSE [c \in Chat |-> seen[l][c] \cup IF row'[c] = None THEN {}
                                                         ELSE {Summary(row'[c])}]]
      /\ UNCHANGED <<kept, saving, listing>>
  BY DEF DeleteProject
<1>2. ASSUME NEW l \in Listing PROVE Follows(l)'
  <2>1. ASSUME listing[l].pc # "idle", NEW c \in Chat
        PROVE  /\ seen[l][c] \subseteq seen'[l][c]
               /\ row'[c] # None => Summary(row'[c]) \in seen'[l][c]
    BY <1>1, <2>1
  <2> QED BY <1>1, <2>1, StillFollows, Zenon DEF Inv
<1>3. ASSUME NEW c \in Chat, row'[c] # None PROVE row'[c].title = row'[c].etag
  BY <1>1, <1>3 DEF Inv, Contents
<1>4. Contents'
  BY <1>1, <1>3 DEF Inv, Contents
<1>5. Shaped'
  BY <1>1, Zenon DEF Inv, Shaped, Listings
<1> QED BY <1>2, <1>4, <1>5 DEF Inv

(* A chat that goes, a summary that is kept or lapses.                     *)
LEMMA CacheInv ==
    ASSUME Inv, Keep \/ \E c \in Chat : Delete(c) \/ Lapse(c)
    PROVE  Inv'
<1>1. /\ UNCHANGED <<listing, seen>>
      /\ row' = row \/ \E c \in Chat : row' = [row EXCEPT ![c] = None]
      /\ \/ kept' = kept
         \/ \E c \in Chat : kept' = [kept EXCEPT ![c] = None]
         \/ /\ saving # None
            /\ kept' = [kept EXCEPT ![saving.chat] =
                          [etag |-> saving.etag, summary |-> saving.summary]]
      /\ saving' = saving \/ saving' = None
  BY DEF Keep, Delete, Lapse
<1>2. \A c \in Chat : row'[c] # None => row'[c] = row[c]
  BY <1>1 DEF Inv, Shaped
<1>3. \A l \in Listing : Follows(l)'
  BY <1>1, <1>2, StillFollows DEF Inv
<1>4. ASSUME NEW c \in Chat, kept'[c] # None
      PROVE  OfRevision(kept'[c].etag, kept'[c].summary)
  <2>1. CASE saving # None /\ kept' = [kept EXCEPT ![saving.chat] =
                          [etag |-> saving.etag, summary |-> saving.summary]]
    <3>1. CASE c = saving.chat
      <4>1. kept'[c] = [etag |-> saving.etag, summary |-> saving.summary]
        BY <2>1, <3>1 DEF Inv, Shaped
      <4>2. kept'[c].etag = saving.etag /\ kept'[c].summary = saving.summary
        BY <4>1
      <4> QED BY <2>1, <4>2 DEF Inv, Contents
    <3>2. CASE c # saving.chat
      <4>1. kept'[c] = kept[c]
        BY <2>1, <3>2 DEF Inv, Shaped
      <4> QED BY <1>4, <4>1 DEF Inv, Contents
    <3> QED BY <3>1, <3>2
  <2>2. CASE kept' = kept \/ \E d \in Chat : kept' = [kept EXCEPT ![d] = None]
    <3>1. kept'[c] = kept[c]
      BY <1>4, <2>2 DEF Inv, Shaped
    <3> QED BY <1>4, <3>1 DEF Inv, Contents
  <2> QED BY <1>1, <2>1, <2>2
<1>5. Contents'
  BY <1>1, <1>2, <1>4 DEF Inv, Contents
<1>6. Shaped'
  BY <1>1 DEF Inv, Shaped, Listings
<1> QED BY <1>3, <1>5, <1>6 DEF Inv

(* A listing takes the rows as they are.                                   *)
LEMMA ListInv ==
    ASSUME Inv, NEW l \in Listing, List(l)
    PROVE  Inv'
<1> DEFINE live == {c \in Chat : row[c] # None}
<1>1. /\ listing' = [listing EXCEPT ![l].pc = "serve", ![l].listed = [c \in live |-> row[c]]]
      /\ seen' = [seen EXCEPT ![l] = [c \in Chat |-> IF c \in live THEN {Summary(row[c])}
                                                      ELSE {}]]
      /\ listing[l].pc = "idle"
      /\ UNCHANGED <<row, kept, saving>>
  BY DEF List
<1>2. live \subseteq Chat /\ \A c \in live : row[c] # None
  OBVIOUS
<1> HIDE DEF live
<1>0. /\ listing'[l].pc = "serve"
      /\ listing'[l].listed = [c \in live |-> row[c]]
      /\ listing'[l].found = listing[l].found
      /\ \A k \in Listing \ {l} : listing'[k] = listing[k]
      /\ Listings'
  BY <1>1, ListedMoves, Zenon DEF Inv, Shaped
<1>3. /\ \A c \in live : seen'[l][c] = {Summary(row[c])}
      /\ \A k \in Listing \ {l} : listing'[k] = listing[k] /\ seen'[k] = seen[k]
  <2>1. /\ seen'[l] = [c \in Chat |-> IF c \in live THEN {Summary(row[c])} ELSE {}]
        /\ \A k \in Listing \ {l} : seen'[k] = seen[k]
    BY <1>1 DEF Inv, Shaped
  <2> QED BY <1>0, <1>2, <2>1
<1>4. DOMAIN listing[l].found = {}
  BY <1>1 DEF Inv, Follows
<1>5. \A c \in live : /\ listing'[l].listed[c] = row[c]
                      /\ row[c].title = row[c].etag
  BY <1>0, <1>2 DEF Inv, Contents
<1>6. Follows(l)'
  <2>1. DOMAIN listing'[l].listed = live /\ DOMAIN listing'[l].found = {}
    BY <1>0, <1>4
  <2>2. \A c \in live :
          /\ Summary(row'[c]) \in seen'[l][c]
          /\ Summary(listing'[l].listed[c]) \in seen'[l][c]
          /\ listing'[l].listed[c].title = listing'[l].listed[c].etag
    BY <1>1, <1>3, <1>5, Zenon
  <2> QED BY <1>0, <1>2, <2>1, <2>2 DEF Follows, Summary
<1>7. \A k \in Listing \ {l} : Follows(k)'
  BY <1>1, <1>3, StillFollows, Zenon DEF Inv
<1>8. Contents'
  BY <1>1 DEF Inv, Contents
<1>9. Shaped'
  <2>1. seen' = [k \in Listing |-> [c \in Chat |-> seen'[k][c]]]
    BY <1>1, Zenon DEF Inv, Shaped
  <2> QED BY <1>1, <1>0, <2>1 DEF Inv, Shaped
<1> QED BY <1>6, <1>7, <1>8, <1>9 DEF Inv

(* A summary kept at the listed revision is the listed row's.              *)
LEMMA ServeInv ==
    ASSUME Inv, NEW l \in Listing, Serve(l)
    PROVE  Inv'
<1> DEFINE listed == listing[l].listed
           at     == {d \in DOMAIN listed : KeptAt(d, listed[d])}
<1>1. /\ listing[l].pc = "serve"
      /\ listing' = [listing EXCEPT ![l].pc = "pull",
                                    ![l].found = [c \in at |-> Served(c, listed[c])]]
      /\ UNCHANGED <<row, kept, saving, seen>>
  BY DEF Serve
<1>2. at \subseteq DOMAIN listed /\ DOMAIN listed \subseteq Chat
  BY DEF Inv, Follows
<1>3. ASSUME NEW c \in at PROVE Served(c, listed[c]) = Summary(listed[c])
  <2>1. /\ kept[c] # None /\ kept[c].etag = listed[c].etag
        /\ listed[c].title = listed[c].etag
    BY <1>1 DEF KeptAt, Inv, Follows
  <2>2. kept[c].summary = [title |-> listed[c].etag, project |-> kept[c].summary.project]
    BY <1>2, <2>1 DEF Inv, Contents, OfRevision
  <2> QED BY <2>1, <2>2 DEF Served, Summary
<1>4. \A c \in DOMAIN listed : /\ row[c] # None => Summary(row[c]) \in seen[l][c]
                               /\ Summary(listed[c]) \in seen[l][c]
                               /\ listed[c].title = listed[c].etag
  BY <1>1 DEF Inv, Follows
<1>5. /\ listing'[l].pc = "pull"
      /\ listing'[l].listed = listed
      /\ listing'[l].found = [c \in at |-> Served(c, listed[c])]
      /\ \A k \in Listing \ {l} : listing'[k] = listing[k]
      /\ Listings'
  BY <1>1, FoundMoves, Zenon DEF Inv, Shaped
<1> HIDE DEF listed, at
<1>6. \A c \in at : listing'[l].found[c] \in seen[l][c]
  BY <1>2, <1>3, <1>4, <1>5
<1>7. DOMAIN listing'[l].found = at
  BY <1>5
<1>8. Follows(l)'
  BY <1>1, <1>2, <1>4, <1>5, <1>6, <1>7, Zenon DEF Follows, Summary
<1>9. \A k \in Listing \ {l} : Follows(k)'
  BY <1>1, <1>5, StillFollows, Zenon DEF Inv
<1>10. Contents'
  BY <1>1 DEF Inv, Contents
<1>11. Shaped'
  BY <1>1, <1>5 DEF Inv, Shaped
<1> QED BY <1>8, <1>9, <1>10, <1>11 DEF Inv

(* A chat read is as it is stored.                                         *)
LEMMA PullInv ==
    ASSUME Inv, NEW l \in Listing, Pull(l)
    PROVE  Inv'
<1> DEFINE listed == listing[l].listed
           found  == listing[l].found
           stale  == {c \in DOMAIN listed \ DOMAIN found : row[c] # None}
<1>1. /\ listing[l].pc = "pull"
      /\ listing' = [listing EXCEPT ![l].pc = "listed",
                        ![l].found = [c \in DOMAIN found \cup stale |->
                                        IF c \in stale THEN Summary(row[c]) ELSE found[c]]]
      /\ kept' = [c \in Chat |-> IF c \in stale
                                 THEN [etag |-> row[c].etag, summary |-> Summary(row[c])]
                                 ELSE kept[c]]
      /\ UNCHANGED <<row, saving, seen>>
  BY Zenon DEF Pull
<1>2. /\ stale \subseteq DOMAIN listed /\ DOMAIN listed \subseteq Chat
      /\ DOMAIN found \subseteq DOMAIN listed
      /\ \A c \in stale : row[c] # None
  BY DEF Inv, Follows
<1>3. /\ \A c \in DOMAIN listed : /\ row[c] # None => Summary(row[c]) \in seen[l][c]
                                  /\ Summary(listed[c]) \in seen[l][c]
                                  /\ listed[c].title = listed[c].etag
      /\ \A c \in DOMAIN found : found[c] \in seen[l][c]
  BY <1>1 DEF Inv, Follows
<1>4. /\ listing'[l].pc = "listed"
      /\ listing'[l].listed = listed
      /\ listing'[l].found = [c \in DOMAIN found \cup stale |->
                                IF c \in stale THEN Summary(row[c]) ELSE found[c]]
      /\ \A k \in Listing \ {l} : listing'[k] = listing[k]
      /\ Listings'
  BY <1>1, FoundMoves, Zenon DEF Inv, Shaped
<1> HIDE DEF listed, found, stale
<1>5. /\ DOMAIN listing'[l].found = DOMAIN found \cup stale
      /\ \A c \in DOMAIN found \cup stale : listing'[l].found[c] \in seen[l][c]
  BY <1>2, <1>3, <1>4
<1>6. Follows(l)'
  BY <1>1, <1>2, <1>3, <1>4, <1>5, Zenon DEF Follows, Summary
<1>7. \A k \in Listing \ {l} : Follows(k)'
  BY <1>1, <1>4, StillFollows, Zenon DEF Inv
<1>8. ASSUME NEW c \in Chat, kept'[c] # None
      PROVE  OfRevision(kept'[c].etag, kept'[c].summary)
  <2>1. CASE c \in stale
    <3>1. kept'[c].etag = row[c].etag /\ kept'[c].summary = Summary(row[c])
      BY <1>1, <2>1
    <3>2. row[c].title = row[c].etag
      BY <1>2, <2>1 DEF Inv, Contents
    <3> QED BY <3>1, <3>2 DEF OfRevision, Summary
  <2>2. CASE c \notin stale
    <3>1. kept'[c] = kept[c]
      BY <1>1, <2>2
    <3> QED BY <1>8, <3>1 DEF Inv, Contents
  <2> QED BY <2>1, <2>2
<1>9. Contents'
  BY <1>1, <1>8 DEF Inv, Contents
<1>10. Shaped'
  <2>1. kept' = [c \in Chat |-> kept'[c]]
    BY <1>1
  <2> QED BY <1>1, <1>4, <2>1 DEF Inv, Shaped
<1> QED BY <1>6, <1>7, <1>9, <1>10 DEF Inv

(* A listing that answers starts again from nothing seen.                  *)
LEMMA AnswerInv ==
    ASSUME Inv, NEW l \in Listing, Answer(l)
    PROVE  Inv'
<1>1. /\ listing' = [listing EXCEPT ![l] = Idle]
      /\ seen' = [seen EXCEPT ![l] = [c \in Chat |-> {}]]
      /\ UNCHANGED <<row, kept, saving>>
  BY DEF Answer
<1>2. /\ listing'[l] = Idle
      /\ \A k \in Listing \ {l} : listing'[k] = listing[k] /\ seen'[k] = seen[k]
      /\ Listings'
  BY <1>1 DEF Inv, Shaped, Listings, Idle
<1>3. Follows(l)'
  BY <1>2 DEF Follows, Idle
<1>4. \A k \in Listing \ {l} : Follows(k)'
  BY <1>1, <1>2, StillFollows DEF Inv
<1>5. Contents'
  BY <1>1 DEF Inv, Contents
<1>6. Shaped'
  <2>1. seen' = [k \in Listing |-> [c \in Chat |-> seen'[k][c]]]
    BY <1>1, Zenon DEF Inv, Shaped
  <2> QED BY <1>1, <1>2, <2>1 DEF Inv, Shaped
<1> QED BY <1>3, <1>4, <1>5, <1>6 DEF Inv

(* Every step keeps the invariant.                                         *)
LEMMA InvNext ==
    ASSUME Inv, [Next]_vars
    PROVE  Inv'
<1>1. CASE UNCHANGED vars
  <2>1. \A l \in Listing : Follows(l)'
    BY <1>1, StillFollows DEF vars, Inv
  <2> QED BY <1>1, <2>1 DEF vars, Inv, Shaped, Listings, Contents
<1> QED BY <1>1, SaveInv, DeleteProjectInv, CacheInv, ListInv, ServeInv, PullInv, AnswerInv
        DEF Next

(* ListedAsStored: a listing shows each chat as it was stored at some      *)
(* moment since the listing began (ThreadSummaries), for any number of     *)
(* chats, listings and writers: a summary kept is served only at the       *)
(* listed revision, and with the project listed.                           *)
THEOREM Listed == Spec => []ListedAsStored
<1>1. Inv => ListedAsStored
  BY DEF Inv, Follows, ListedAsStored
<1> QED BY <1>1, InvInit, InvNext, PTL DEF Spec
=============================================================================
