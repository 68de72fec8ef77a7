------------------------------ MODULE ImportTree ------------------------------
(***************************************************************************)
(* Reading a conversation of a ChatGPT export, which is a tree of nodes    *)
(* (internal/importer/chatgpt.go): the branch that leads to the current    *)
(* node or, where the tree does not lead there, the first child of each    *)
(* node from each root.  The export is another program's, so a node may    *)
(* name a parent or a child that is missing, or its own descendant.        *)
(*                                                                         *)
(* A node's message is "user" or "assistant" (one with something to show), *)
(* "silent" (the user's, with nothing to show), "thoughts" (with a text)   *)
(* or "other".                                                             *)
(***************************************************************************)
EXTENDS Integers, SequencesExt, FiniteSetsExt

CONSTANTS
    Convs,              \* the conversations read
    NoParent,           \* the empty parent
    ChatgptRoot,        \* the parent of a conversation's first nodes, in the tree or not
    None

VARIABLES
    conv,    \* the conversation: parent, child and kind of each node, and the current node
    pc,      \* what is being done
    at,      \* the node it is at
    seen,    \* the nodes it was at
    branch,  \* the nodes left to visit or to follow
    visited,
    followed,
    out      \* the messages read, each with the node of its thoughts

vars == <<conv, pc, at, seen, branch, visited, followed, out>>

Node == DOMAIN conv.parent

Tops == {NoParent, ChatgptRoot}

(* Only messages with something to show are read, and only a reply looks   *)
(* for thoughts.                                                           *)
TypeOK ==
    /\ pc \in {"climb", "visit", "follow", "thoughts", "done"}
    /\ \A n \in DOMAIN out : conv.kind[out[n].node] \in {"user", "assistant"}
    /\ pc = "thoughts" => conv.kind[Last(out).node] = "assistant"

Init ==
    /\ conv \in Convs
    /\ pc = "climb" /\ at = conv.current
    /\ seen = {} /\ visited = {} /\ followed = {} /\ branch = <<>> /\ out = <<>>

-----------------------------------------------------------------------------
(* chatgptActivePath, from the current node up.                            *)

(* The branch is turned from the root down.                                *)
Led == <<at>> \o branch

ClimbsOn == at \in Node \ seen

Roots == SetToSortSeq({n \in Node : conv.parent[n] \in Tops}, <)

Climb ==
    /\ pc = "climb" /\ at \notin Tops
    /\ IF ClimbsOn
       THEN /\ branch' = Led /\ seen' = seen \cup {at} /\ at' = conv.parent[at]
            /\ UNCHANGED pc
       ELSE pc' = "follow" /\ branch' = Roots /\ seen' = {} /\ at' = None
    /\ UNCHANGED <<conv, visited, followed, out>>

(* At the root the branch is read, unless it is empty.                     *)
Climbed ==
    /\ pc = "climb" /\ at \in Tops
    /\ IF branch # <<>> THEN pc' = "visit" /\ UNCHANGED branch ELSE pc' = "follow" /\ branch' = Roots
    /\ seen' = {} /\ at' = None
    /\ UNCHANGED <<conv, visited, followed, out>>

-----------------------------------------------------------------------------
(* visit, and chatgptMessageOf.                                            *)

Shown(n) == n \in Node \ visited /\ conv.kind[n] \in {"user", "assistant"}

(* The node is read; a reply looks for its thoughts before the next.       *)
Read(n, then) ==
    /\ visited' = visited \cup {n}
    /\ out' = IF Shown(n) THEN Append(out, [node |-> n, thoughts |-> None, then |-> then]) ELSE out
    /\ pc' = IF Shown(n) /\ conv.kind[n] = "assistant" THEN "thoughts" ELSE then

Visit ==
    /\ pc = "visit" /\ branch # <<>>
    /\ Read(Head(branch), "visit")
    /\ at' = Head(branch) /\ branch' = Tail(branch) /\ seen' = {}
    /\ UNCHANGED <<conv, followed>>

FollowedNone(n) == FALSE

Followed(n) == n \in followed

(* follow: a node, then its first child, and then the next root.           *)
Follow ==
    LET n == Head(branch)
        child == IF n \in Node /\ conv.child[n] # None THEN <<conv.child[n]>> ELSE <<>>
    IN /\ pc = "follow" /\ branch # <<>>
       /\ IF Followed(n) THEN branch' = Tail(branch) /\ UNCHANGED <<visited, followed, out, pc, at>>
          ELSE Read(n, "follow") /\ followed' = followed \cup {n} /\ at' = n /\ branch' = child \o Tail(branch)
       /\ seen' = {} /\ UNCHANGED conv

Done ==
    /\ pc \in {"visit", "follow"} /\ branch = <<>>
    /\ pc' = "done"
    /\ UNCHANGED <<conv, at, seen, branch, visited, followed, out>>

-----------------------------------------------------------------------------
(* chatgptThoughts, from the reply up: the nearest recorded since the      *)
(* user's message that opened the turn.                                    *)

OpensTurn(n) == conv.kind[n] \in {"user", "silent"}

Thoughts ==
    LET stop(node) == out' = [out EXCEPT ![Len(out)].thoughts = node] /\ pc' = Last(out).then /\ UNCHANGED <<at, seen>>
    IN /\ pc = "thoughts"
       /\ CASE at \notin Node \ seen -> stop(None)
            [] at \in Node \ seen /\ OpensTurn(at) -> stop(None)
            [] at \in Node \ seen /\ ~OpensTurn(at) /\ conv.kind[at] = "thoughts" -> stop(at)
            [] OTHER -> seen' = seen \cup {at} /\ at' = conv.parent[at] /\ UNCHANGED <<out, pc>>
       /\ UNCHANGED <<conv, branch, visited, followed>>

Next == Climb \/ Climbed \/ Visit \/ Follow \/ Done \/ Thoughts

Spec == Init /\ [][Next]_vars /\ WF_vars(Next)

-----------------------------------------------------------------------------
(* The nodes above one, itself first, as far as the tree goes.             *)
Above[n \in Node, left \in 0..Cardinality(Node)] ==
    IF left = 0 \/ conv.parent[n] \notin Node THEN <<n>> ELSE <<n>> \o Above[conv.parent[n], left - 1]

Upward(n) == Above[n, Cardinality(Node)]

(* Where the branch of the current node meets the top of the tree.         *)
Tips == {k \in DOMAIN Upward(conv.current) : conv.parent[Upward(conv.current)[k]] \in Tops}

Leads == conv.current \in Node \ Tops /\ Tips # {}

Path == Reverse(SubSeq(Upward(conv.current), 1, Min(Tips)))

Messages(s) == SelectSeq(s, LAMBDA n : conv.kind[n] \in {"user", "assistant"})

ReadNodes == [n \in DOMAIN out |-> out[n].node]

(* Where the tree leads to the current node, what is read is the branch to *)
(* it from the root down, each message of it once and none of another.     *)
(* Where it does not, no message is read twice either, and the messages at *)
(* the roots are all read.                                                 *)
BranchRead ==
    pc = "done" =>
        IF Leads THEN ReadNodes = Messages(Path)
        ELSE IsInjective(ReadNodes) /\ ToSet(Messages(Roots)) \subseteq ToSet(ReadNodes)

(* The thoughts a reply is given are of its own turn: between them and the *)
(* reply lies no message of the user's, and none is nearer.                *)
ThoughtsOfTurn ==
    \A n \in DOMAIN out :
        LET up == Upward(out[n].node)
        IN out[n].thoughts # None =>
            \E k \in DOMAIN up :
                /\ up[k] = out[n].thoughts
                /\ \A j \in 1..k - 1 : conv.kind[up[j]] \notin {"user", "silent", "thoughts"}

Ended == pc = "done"
=============================================================================
