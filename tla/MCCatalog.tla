------------------------------ MODULE MCCatalog -----------------------------
(***************************************************************************)
(* Instances, for TLC, of what is kept of the chats beside them: the       *)
(* published search index, the jobs that rebuild it, the index of tokens   *)
(* it is, the summaries listings show, and the profile.                    *)
(*                                                                         *)
(* The parts share no state.  A behaviour is one of one part.  The part    *)
(* "listings" is that of SummaryCache itself; the variables of the others  *)
(* are v1, v2, ... in the order their modules declare them.                *)
(***************************************************************************)
EXTENDS SummaryCache, Integers, SequencesExt

CONSTANTS
    c1, c2, p1, p2, l1, l2, r1, r2, k1, k2,
    SearchBudgets, RebuildBudgets, TokenBudgets, ProfileBudgets

VARIABLES part, v1, v2, v3, v4, v5, v6, v7, v8, v9, v10, v11, v12

From7 == <<v7, v8, v9, v10, v11, v12>>
From6 == <<v6, From7>>
From5 == <<v5, From6>>

From1 == <<v1, v2, v3, v4, From5>>

NoneFrom7 == v7 = None /\ v8 = None /\ v9 = None /\ v10 = None /\ v11 = None /\ v12 = None
NoneFrom6 == v6 = None /\ NoneFrom7
NoneFrom5 == v5 = None /\ NoneFrom6
NoneFrom1 == v1 = None /\ v2 = None /\ v3 = None /\ v4 = None /\ NoneFrom5

-----------------------------------------------------------------------------
(* Two replicas, two chats, one of them stored and not yet indexed, and    *)
(* pages of one chat.                                                      *)
Search == INSTANCE SearchIndex WITH
    Chat <- {c1, c2}, Replica <- {p1, p2}, Indexed <- {c1}, Budgets <- SearchBudgets,
    PublishAttempts <- 2, RebuildPage <- 1,
    blobs <- v1, source <- v2, record <- v3, bucket <- v4, late <- v5, cache <- v6,
    landed <- v7, pending <- v8, batch <- v9, rebuild <- v10, cycle <- v11, budget <- v12

Searched(w1, w2, b1, b2, faults, may) ==
    [writes   |-> (p1 :> w1 @@ p2 :> w2),
     rebuilds |-> (p1 :> b1 @@ p2 :> b2),
     faults   |-> faults,
     may      |-> may]

(* Writers of two replicas; a rebuild beside writers, with a fault; two    *)
(* rebuilds at once.                                                       *)
Searches ==
    {Searched(2, 1, 0, 0, 0, {"gone"}),
     Searched(1, 1, 0, 0, 1, {"gone", "reseal"}),
     Searched(1, 1, 1, 0, 0, {}),
     Searched(1, 0, 1, 1, 0, {"gone"}),
     Searched(0, 1, 1, 0, 1, {}),
     Searched(1, 0, 1, 0, 1, {}),
     Searched(1, 0, 0, 0, 2, {}),
     Searched(0, 0, 1, 0, 1, {"check"})}

CheckFails == {Searched(0, 0, 1, 1, 1, {"check"})}

(* Two requests at once under two keys, and three jobs.                    *)
Rebuilt == INSTANCE Rebuilds WITH
    Request <- {r1, r2}, Key <- {k1, k2}, Budgets <- RebuildBudgets,
    jobs <- v1, running <- v2, started <- v3, request <- v4, budget <- v5

Jobs == [jobs : {3}, requests : {3}, forgets : {1}, expiries : {1}]

(* Chats of up to three distinct tokens, two of which are indexed, and an  *)
(* index that compacts at two dead slots.                                  *)
Tokens == INSTANCE TokenIndex WITH
    Chat <- 1 .. 3, Token <- {"a", "b", "c"}, Vector <- {1, 2}, KeyId <- {"k"}, MaxChats <- 3,
    MaxTokens <- 2, MaxChunks <- 1, CompactionMinDead <- 2, Depth <- 3, RrfK <- 0,
    Budgets <- TokenBudgets,
    ix <- v1, held <- v2, refused <- v3, budget <- v4

Texts ==
    {[changes |-> 6, chats |-> {1, 2}, vectors |-> {<<>>},
      tokens |-> {<<"a">>, <<"b", "a", "b", "c">>}],
     [changes |-> 3, chats |-> 1 .. 3, vectors |-> {<<>>, <<1>>, <<2>>},
      tokens |-> {<<>>, <<"a">>, <<"a", "b", "a">>}]}

(* A chat saved, moved and deleted beside two listings; or left alone.     *)
NoListings == [saves |-> 0, deletions |-> 0, listings |-> 0]

OnlyNone == {NoListings}

Listings ==
    {[saves |-> 2, deletions |-> 1, listings |-> 2], [saves |-> 3, deletions |-> 0, listings |-> 2],
     [saves |-> 1, deletions |-> 1, listings |-> 3], NoListings}

(* Two requests at once that save, merge, favour, choose and pin.          *)
Profile == INSTANCE Profiles WITH
    Request <- {r1, r2}, Chat <- {"c", "d"}, Setting <- {"v"}, MaxList <- 2,
    MaxCommitAttempts <- 2, Budgets <- ProfileBudgets,
    row <- v1, req <- v2, app <- v3, said <- v4, budget <- v5

Prompt(id, text) == [id |-> <<id>>, text |-> text, copies |-> 0]

Edit == [kind |-> "edit", save |-> <<>>, update |-> <<>>, delete |-> {}, add |-> <<>>, remove |-> {},
         default |-> {}, setting |-> None]

Merge(presets, favorites, default, changed) ==
    [kind |-> "merge", changed |-> changed,
     local |-> [presets |-> presets, favorites |-> favorites, default |-> default, setting |-> "t"]]

Changed ==
    {[Edit EXCEPT !.save = <<Prompt("p", "x")>>, !.add = <<<<"p">>>>],
     [Edit EXCEPT !.save = <<Prompt("q", "y")>>, !.remove = {<<"p">>}, !.default = {<<"q">>}, !.setting = "s"],
     [Edit EXCEPT !.update = <<Prompt("p", "z")>>, !.default = {None}],
     [Edit EXCEPT !.delete = {<<"p">>}, !.add = <<<<"p">>, <<"q">>>>, !.default = {<<"p">>}],
     Merge(<<Prompt("p", "unset"), Prompt("q", "y")>>, <<<<"p">>>>, <<"p">>, {}),
     Merge(<<Prompt("p", "w")>>, <<<<"p">>, <<"q">>>>, None, {"favorites", "default", "setting"})}
    \cup [kind : {"pin"}, chat : {"c"}, pinned : BOOLEAN] \cup [kind : {"pin"}, chat : {"d"}, pinned : {TRUE}]

Settings ==
    {[requests |-> 3, app |-> 0, ops |-> Changed], [requests |-> 2, app |-> 1, ops |-> Changed]}

-----------------------------------------------------------------------------
(* Nobody lists the chats while another part goes on.                      *)
Unlisted == Init /\ budget = NoListings

CatalogInit ==
    \/ part = "listings" /\ Init /\ budget # NoListings /\ NoneFrom1
    \/ /\ Unlisted
       /\ \/ part = "search" /\ Search!Init
          \/ part = "rebuilds" /\ Rebuilt!Init /\ NoneFrom6
          \/ part = "tokens" /\ Tokens!Init /\ NoneFrom5
          \/ part = "profile" /\ Profile!Init /\ NoneFrom6

CatalogNext ==
    /\ UNCHANGED part
    /\ \/ part = "listings" /\ Next /\ UNCHANGED From1
       \/ /\ UNCHANGED vars
          /\ \/ part = "search" /\ Search!Next
             \/ part = "rebuilds" /\ Rebuilt!Next /\ UNCHANGED From6
             \/ part = "tokens" /\ Tokens!Next /\ UNCHANGED From5
             \/ part = "profile" /\ Profile!Next /\ UNCHANGED From6

CatalogSpec == CatalogInit /\ [][CatalogNext]_<<part, vars, From1>>

-----------------------------------------------------------------------------
(* Each part's properties, with its type invariant.                        *)

(* The search index tells what is stored (index.go, rebuild.go): a query   *)
(* that asks for no rebuild answers, whichever replica serves it, for      *)
(* every chat as it is stored and names none that is deleted, a replica's  *)
(* copy of the index, while nobody there changes it, is the one stored,    *)
(* and the index published is not deleted while no publication is under    *)
(* way that nobody waits for.                                              *)
SearchTellsStored ==
    [][part = "search" =>
          /\ (Search!TypeOK /\ Search!AnswersForEveryChat /\ Search!NamesNoDeletedChat /\ Search!ServedIsStored)'
          /\ Search!PublishedKeptStep]_<<part, From1>>

(* A replica's copy of the index, while nobody there changes it, is the    *)
(* index that is stored (rebuild.go).                                      *)
ServedIsStored == part = "search" => Search!ServedIsStored

(* A rebuild that goes on is the one a request finds and a Forget stops,   *)
(* and one that is not stopped works only once the one it replaced has     *)
(* wound down (rebuild.go).                                                *)
RebuildsInTurn ==
    part = "rebuilds" => Rebuilt!TypeOK /\ Rebuilt!RunningIsHeld /\ Rebuilt!WorksAfterPredecessor

(* Two rebuilds never write the same index: one that goes on works while   *)
(* no other still winds down (rebuild.go).                                 *)
TwoNeverWrite == part = "rebuilds" => Rebuilt!TwoNeverWrite

(* The index of tokens finds a chat by the words and vectors last put for  *)
(* it, through removals, new generations and compactions, is stored as     *)
(* Decode takes it, and a search names held chats, each once, those with   *)
(* words of the query first and those with more before those with fewer    *)
(* (internal/searchindex).                                                 *)
TokensFound ==
    part = "tokens" => Tokens!TypeOK /\ Tokens!FoundAsHeld /\ Tokens!Decodes /\ Tokens!SearchRanks

(* The profile holds what the changes made to it say, each on its own      *)
(* items, so no device's change undoes another's; merging the same local   *)
(* settings twice is merging them once; and a field that is not as the     *)
(* apps' sync last read it has a later clock than any it saw (profile.go). *)
ProfileKeepsChanges ==
    part = "profile" =>
        /\ Profile!TypeOK /\ Profile!HoldsWhatWasSaid /\ Profile!MergeAgainIsNothing /\ Profile!ClocksTell
=============================================================================
