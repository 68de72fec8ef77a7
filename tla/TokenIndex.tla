------------------------------ MODULE TokenIndex ------------------------------
(***************************************************************************)
(* The search index as a data structure (internal/searchindex/index.go):   *)
(* a slot for each generation of a chat, tombstoned when the chat changes  *)
(* or goes; the posting lists, which name slots; and the compaction that   *)
(* gives the slots new numbers once tombstones outnumber chats.  The index *)
(* is stored and read back between changes.                                *)
(*                                                                         *)
(* A vector is how close it is to what a query asks.  Slots are from one,  *)
(* and a chat's name orders it.                                            *)
(***************************************************************************)
EXTENDS Integers, SequencesExt, FiniteSetsExt, Functions

CONSTANTS
    Chat,               \* ids: a set of numbers
    Token,
    Vector,             \* a set of numbers
    KeyId,              \* the keys an embedding may need
    MaxChats,
    MaxTokens,          \* MaxTokensPerChat
    MaxChunks,          \* MaxChunksPerChat
    CompactionMinDead,
    Depth,              \* rrfCandidateDepth
    RrfK,
    None,
    Budgets             \* bound: the changes made, and what they name

VARIABLES
    ix,      \* the index
    held,    \* history: what was last put for each chat
    refused, \* whether the stored index was refused when read back
    budget

vars == <<ix, held, refused, budget>>

Live == {s \in DOMAIN ix.slots : ix.slots[s] # None}

(* The index and its postings have the shapes the code gives them. *)
TypeOK ==
    /\ ix.slots \in Seq(Chat \cup {None})
    /\ ix.dead = Cardinality(DOMAIN ix.slots \ Live)
    /\ \A c \in DOMAIN ix.chats : ix.slots[ix.chats[c].slot] = c
    /\ \A t \in DOMAIN ix.postings : ix.postings[t] # <<>>

Init ==
    /\ budget \in Budgets
    /\ ix = [slots |-> <<>>, chats |-> <<>>, postings |-> <<>>, dead |-> 0]
    /\ held = <<>>
    /\ refused = FALSE

Spend == budget.changes > 0 /\ budget' = [budget EXCEPT !.changes = @ - 1]

Without(f, x) == Restrict(f, DOMAIN f \ {x})

With(f, x, y) == [z \in DOMAIN f \cup {x} |-> IF z = x THEN y ELSE f[z]]

-----------------------------------------------------------------------------
(* maybeCompact: the live slots in their order, numbered anew.             *)

Compacts(i) == i.dead >= CompactionMinDead /\ i.dead > Cardinality(DOMAIN i.chats)

Remap(i) ==
    LET live == {s \in DOMAIN i.slots : i.slots[s] # None}
    IN [s \in live |-> Cardinality({r \in live : r <= s})]

Compacted(i) ==
    LET remap == Remap(i)
        kept == {t \in DOMAIN i.postings : ToSet(i.postings[t]) \cap DOMAIN remap # {}}
        renumbered(list) ==
            LET live == SelectSeq(list, LAMBDA s : s \in DOMAIN remap)
            IN [n \in DOMAIN live |-> remap[live[n]]]
    IN [slots |-> SelectSeq(i.slots, LAMBDA c : c # None),
        chats |-> [c \in DOMAIN i.chats |-> [i.chats[c] EXCEPT !.slot = remap[@]]],
        postings |-> [t \in kept |-> renumbered(i.postings[t])],
        dead |-> 0]

maybeCompact(i) == IF Compacts(i) THEN Compacted(i) ELSE i

-----------------------------------------------------------------------------
(* Changes.                                                                *)

(* The generation of a chat before this one leaves a tombstone.            *)
Buried(i, c) ==
    IF c \notin DOMAIN i.chats THEN i
    ELSE [i EXCEPT !.slots[i.chats[c].slot] = None, !.dead = @ + 1]

(* The tokens posted for a chat: each once, and no more than a chat has.   *)
Posted(tokens) ==
    LET once == FoldLeft(LAMBDA kept, t : IF t \in ToSet(kept) THEN kept ELSE Append(kept, t), <<>>, tokens)
    IN SubSeq(once, 1, Min({Len(once), MaxTokens}))

PostingsWith(i, tokens, slot) ==
    LET posted == ToSet(Posted(tokens))
    IN [t \in DOMAIN i.postings \cup posted |->
            (IF t \in DOMAIN i.postings THEN i.postings[t] ELSE <<>>) \o (IF t \in posted THEN <<slot>> ELSE <<>>)]

(* Upsert.  The last of its writers' checks is the index being full.       *)
Upsert(c, vectors, pending, tokens) ==
    LET was == Buried(ix, c)
        slot == Len(was.slots) + 1
        entry == [slot |-> slot, vectors |-> vectors, pending |-> pending, keyId |-> None]
    IN /\ Spend
       /\ Len(vectors) <= MaxChunks
       /\ c \in DOMAIN ix.chats \/ Cardinality(DOMAIN ix.chats) < MaxChats
       /\ ix' = maybeCompact([was EXCEPT !.slots = Append(@, c), !.chats = With(@, c, entry),
                                         !.postings = PostingsWith(was, tokens, slot)])
       /\ held' = With(held, c, [tokens |-> ToSet(Posted(tokens)), vectors |-> vectors])
       /\ UNCHANGED refused

RemoveChat(c) ==
    /\ Spend
    /\ c \in DOMAIN ix.chats
    /\ ix' = maybeCompact([Buried(ix, c) EXCEPT !.chats = Without(@, c)])
    /\ held' = Without(held, c)
    /\ UNCHANGED refused

RepairEmbedding(c, vectors) ==
    /\ Spend
    /\ c \in DOMAIN ix.chats
    /\ Len(vectors) <= MaxChunks
    /\ ix' = [ix EXCEPT !.chats[c].vectors = vectors, !.chats[c].pending = FALSE, !.chats[c].keyId = None]
    /\ held' = [held EXCEPT ![c].vectors = vectors]
    /\ UNCHANGED refused

MarkEmbeddingKey(c, key) ==
    /\ Spend
    /\ c \in DOMAIN ix.chats
    /\ ix.chats[c].pending /\ ix.chats[c].keyId # key
    /\ ix' = [ix EXCEPT !.chats[c].keyId = key]
    /\ UNCHANGED <<held, refused>>

-----------------------------------------------------------------------------
(* Decode, of an index that was encoded: what it refuses, and what it      *)
(* makes of one it takes.                                                  *)

Ordered(list) == \A m, n \in DOMAIN list : m < n => list[m] < list[n]

SlotsMatch ==
    /\ \A s \in Live : ix.slots[s] \in DOMAIN ix.chats /\ ix.chats[ix.slots[s]].slot \in DOMAIN ix.slots
                         /\ ix.slots[ix.chats[ix.slots[s]].slot] = ix.slots[s]
    /\ Cardinality(Live) = Cardinality(DOMAIN ix.chats)

Decodable ==
    LET dead == Cardinality(DOMAIN ix.slots \ Live)
    IN /\ Len(ix.slots) <= 2 * MaxChats
       /\ SlotsMatch
       /\ ~(dead >= CompactionMinDead /\ dead > Cardinality(Live))
       /\ Cardinality(DOMAIN ix.chats) <= MaxChats
       /\ \A c \in DOMAIN ix.chats :
            /\ ix.chats[c].keyId # None => ix.chats[c].pending
            /\ Len(ix.chats[c].vectors) <= MaxChunks
       /\ \A t \in DOMAIN ix.postings :
            LET list == ix.postings[t]
            IN list # <<>> /\ ToSet(list) \subseteq DOMAIN ix.slots /\ Ordered(list)
       /\ MapThenSumSet(LAMBDA t : Len(ix.postings[t]), DOMAIN ix.postings) <= Len(ix.slots) * MaxTokens

(* An entry with words and no vectors is taken to wait for them.           *)
Decoded ==
    LET posted == UNION {ToSet(ix.postings[t]) : t \in DOMAIN ix.postings}
    IN [ix EXCEPT !.dead = Cardinality(DOMAIN ix.slots \ Live),
                  !.chats = [c \in DOMAIN ix.chats |->
                                [ix.chats[c] EXCEPT !.pending = @ \/ (ix.chats[c].vectors = <<>> /\ ix.chats[c].slot \in posted)]]]

Reload ==
    /\ IF Decodable THEN ix' = Decoded /\ UNCHANGED refused ELSE refused' = TRUE /\ UNCHANGED ix
    /\ UNCHANGED <<held, budget>>

-----------------------------------------------------------------------------
(* Search.  A sum of logarithms orders as the product of their arguments;  *)
(* a token in m of n chats has 2(n + 1)/(2m + 1).                          *)

livePostingsAll(i, t) == IF t \in DOMAIN i.postings THEN i.postings[t] ELSE <<>>

livePostings(i, t) ==
    IF t \in DOMAIN i.postings THEN SelectSeq(i.postings[t], LAMBDA s : i.slots[s] # None) ELSE <<>>

Product(S, f(_)) == FoldSet(LAMBDA x, product : f(x) * product, 1, S)

(* rankSlots: the slots of scores, which are fractions, the best first and *)
(* ties by name.                                                           *)
rankSlots(scores) ==
    LET over(a, b) == scores[a][1] * scores[b][2] > scores[b][1] * scores[a][2]
        before(a, b) == over(a, b) \/ (~over(b, a) /\ ix.slots[a] < ix.slots[b])
        ranked == SetToSortSeq(DOMAIN scores, before)
    IN SubSeq(ranked, 1, Min({Len(ranked), Depth}))

lexicalRanked(tokens) ==
    LET n == Cardinality(DOMAIN ix.chats)
        matched(s) == {t \in tokens : s \in ToSet(livePostings(ix, t))}
        score(s) == <<Product(matched(s), LAMBDA t : 2 * (n + 1)),
                      Product(matched(s), LAMBDA t : 2 * Len(livePostings(ix, t)) + 1)>>
    IN rankSlots([s \in {x \in DOMAIN ix.slots : matched(x) # {}} |-> score(s)])

semanticRanked ==
    LET best(s) == Max(ToSet(ix.chats[ix.slots[s]].vectors))
    IN rankSlots([s \in {x \in Live : ix.chats[ix.slots[x]].vectors # <<>>} |-> <<best(s), 1>>])

RankIn(list, s) == CHOOSE n \in DOMAIN list : list[n] = s

(* Search: the slots either list ranks; those with a word of the query     *)
(* first, then by the fusion of their ranks, then by name.                 *)
Fused(lexical, semantic) ==
    LET weight(list, s, w) == IF s \in ToSet(list) THEN <<w, RrfK + RankIn(list, s)>> ELSE <<0, 1>>
        score(s) == LET l == weight(lexical, s, 2)  v == weight(semantic, s, 1)
                    IN <<l[1] * v[2] + v[1] * l[2], l[2] * v[2]>>
        over(a, b) == score(a)[1] * score(b)[2] > score(b)[1] * score(a)[2]
        before(a, b) == \/ a \in ToSet(lexical) /\ b \notin ToSet(lexical)
                        \/ /\ a \in ToSet(lexical) <=> b \in ToSet(lexical)
                           /\ over(a, b) \/ (~over(b, a) /\ ix.slots[a] < ix.slots[b])
    IN SetToSortSeq(ToSet(lexical) \cup ToSet(semantic), before)

Search(tokens) ==
    LET found == Fused(lexicalRanked(tokens), semanticRanked)
    IN [n \in DOMAIN found |-> ix.slots[found[n]]]

-----------------------------------------------------------------------------
Next ==
    \/ \E c \in budget.chats :
         \/ RemoveChat(c)
         \/ \E vectors \in budget.vectors :
              \/ RepairEmbedding(c, vectors)
              \/ \E tokens \in budget.tokens, pending \in BOOLEAN :
                   (pending => vectors = <<>>) /\ Upsert(c, vectors, pending, tokens)
         \/ \E key \in KeyId : MarkEmbeddingKey(c, key)
    \/ Reload

Spec == Init /\ [][Next]_vars

-----------------------------------------------------------------------------
(* The words and vectors found for each chat are those last put for it:    *)
(* no posting of an earlier generation, of a removed chat or of the chat   *)
(* whose slot another now has is found, through any compaction.            *)
FoundAsHeld ==
    /\ DOMAIN ix.chats = DOMAIN held
    /\ \A c \in DOMAIN held : ix.chats[c].vectors = held[c].vectors
    /\ \A t \in Token :
         {ix.slots[s] : s \in ToSet(livePostings(ix, t))} = {c \in DOMAIN held : t \in held[c].tokens}

(* Whatever changes were made to it, the index that is stored is one that  *)
(* Decode takes, its tombstones within the bound a compaction keeps.       *)
Decodes == Decodable /\ ~refused

(* A search names each chat once and no other than a chat held; a chat     *)
(* with a word of the query comes before every one without, unless more    *)
(* have one than are ranked; and of two chats with no vectors, the one     *)
(* with all the other's words of the query and more comes first.           *)
SearchRanks ==
    \A tokens \in SUBSET Token \ {{}} :
        LET found == Search(tokens)
            worded == {c \in DOMAIN held : held[c].tokens \cap tokens # {}}
        IN /\ IsInjective(found) /\ ToSet(found) \subseteq DOMAIN held
           /\ Cardinality(worded) <= Depth => worded = ToSet(SubSeq(found, 1, Cardinality(worded)))
           /\ \A a, b \in worded :
                /\ Cardinality(worded) <= Depth
                /\ held[a].vectors = <<>> /\ held[b].vectors = <<>>
                /\ held[b].tokens \cap tokens \subseteq held[a].tokens
                /\ held[b].tokens \cap tokens # held[a].tokens \cap tokens
                => RankIn(found, a) < RankIn(found, b)

=============================================================================
