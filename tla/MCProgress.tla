----------------------------- MODULE MCProgress -----------------------------
(***************************************************************************)
(* What must eventually happen: turns are answered and runs end            *)
(* (LiveRuns), a run's log is wiped (FrameLog), commits settle             *)
(* (StoredChat) and the reading of an exported conversation ends           *)
(* (ImportTree).                                                           *)
(*                                                                         *)
(* A behaviour is one of one part.  The parts "answer" and "end" are       *)
(* LiveRuns's, of a turn with its retry and of two turns; the variables of *)
(* the others are v1, v2, ... in the order their modules declare them.     *)
(***************************************************************************)
EXTENDS LiveRuns, TLC

CONSTANTS c1, c2, chat1, n1, n2, k1, f1, r1, r2, Parts

VARIABLES
    part, v1, v2, v3, v4, v5, v6, v7, v8, v9, v10, v11, v12, v13, v14, v15, v16, v17, v18, v19, v20,
    v21, v22, v23, v24, v25

From12 == <<v12, v13, v14, v15, v16, v17, v18, v19, v20, v21, v22, v23, v24, v25>>
From9 == <<v9, v10, v11, From12>>
From1 == <<v1, v2, v3, v4, v5, v6, v7, v8, From9>>

NoneFrom12 ==
    /\ v12 = None /\ v13 = None /\ v14 = None /\ v15 = None /\ v16 = None /\ v17 = None /\ v18 = None
    /\ v19 = None /\ v20 = None /\ v21 = None /\ v22 = None /\ v23 = None /\ v24 = None /\ v25 = None
NoneFrom9 == v9 = None /\ v10 = None /\ v11 = None /\ NoneFrom12
NoneFrom1 ==
    /\ v1 = None /\ v2 = None /\ v3 = None /\ v4 = None /\ v5 = None /\ v6 = None /\ v7 = None
    /\ v8 = None /\ NoneFrom9

allVars == <<part, vars, From1>>

-----------------------------------------------------------------------------
Send(nonce) ==
    [nonce |-> nonce, chat |-> chat1, key |-> k1, kind |-> "send", device |-> FALSE, seeded |-> TRUE]

(* A turn and its retry.                                                   *)
AnswerTurn == (c1 :> Send(n1)) @@ (c2 :> Send(n1))

NoTransfer == <<>>

(* Two turns of one chat.                                                  *)
End == INSTANCE LiveRuns WITH Turn <- (c1 :> Send(n1)) @@ (c2 :> Send(n2))

(* One client follows a run.                                               *)
Log == INSTANCE FrameLog WITH
    Follower <- {f1}, Text <- {"text"}, Activity <- {}, Budget <- 1, MaxMerged <- 3, MaxEvents <- 4,
    phase <- v1, emitted <- v2, emitting <- v3, pending <- v4, lastDelta <- v5, activities <- v6,
    observed <- v7, mustFold <- v8, base <- v9, checkpoint <- v10, frames <- v11, folds <- v12,
    retired <- v13, held <- v14, at <- v15, via <- v16, cursor <- v17, lent <- v18, woken <- v19,
    applied <- v20, partway <- v21, shown <- v22, memory <- v23, log <- v24, said <- v25

(* One request sent to two instances.                                      *)
Stored == INSTANCE StoredChat WITH
    Run <- {r1, r2}, Editor <- {}, Deleter <- {}, Nonce <- {n1}, Instance <- {"a", "b"},
    Turn <- [r \in {r1, r2} |-> [nonce |-> n1, kind |-> "send", on |-> None]],
    On <- (r1 :> "a") @@ (r2 :> "b"), MaxCommitAttempts <- 2, MaxSends <- 2,
    row <- v1, rev <- v2, answered <- v3, late <- v4, at <- v5, stage <- v6, attempt <- v7, sends <- v8,
    put <- v9, first <- v10, stopped <- v11

(* Trees of three nodes: where each may have any parent, a missing one or  *)
(* a descendant included; where each may name any child; and where one     *)
(* node is the root ChatGPT names.                                         *)
Conversations(nodes, parents, kinds, children, currents) ==
    [parent : [nodes -> parents], kind : kinds, child : [nodes -> children], current : currents]

RepliesAtOne == {k \in [1..3 -> {"user", "assistant", "thoughts", "silent"}] : k[1] = "assistant"}

RootShown == [n \in {1, 2, 4} |-> "assistant"]

RootHidden == [RootShown EXCEPT ![4] = "other"]

Trees ==
    Conversations(1..3, {0, 1, 2, 3, 9}, RepliesAtOne, {None}, {1, 9})
    \cup Conversations(1..3, {0, 1}, {<<"user", "assistant", "assistant">>, <<"other", "user", "assistant">>},
                       {None, 1, 2, 3, 9}, {0})
    \cup Conversations({1, 2, 4}, {0, 1, 4}, {RootShown, RootHidden}, {None, 1}, {0, 1, 4})

Tree == INSTANCE ImportTree WITH
    Convs <- Trees, NoParent <- 0, ChatgptRoot <- 4,
    conv <- v1, pc <- v2, at <- v3, seen <- v4, branch <- v5, visited <- v6, followed <- v7, out <- v8

-----------------------------------------------------------------------------
Answering(step) == part = "answer" /\ step /\ UNCHANGED <<part, From1>>

Ending(step) == part = "end" /\ step /\ UNCHANGED <<part, From1>>

Draining(step) == part = "drain" /\ step /\ UNCHANGED <<part, vars>>

Committing(step) == part = "commit" /\ step /\ UNCHANGED <<part, vars, From12>>

Reading(step) == part = "tree" /\ step /\ UNCHANGED <<part, vars, From9>>

ProgressInit ==
    /\ part \in Parts
    /\ \/ part = "answer" /\ Init /\ NoneFrom1
       \/ part = "end" /\ End!Init /\ NoneFrom1
       \/ part = "drain" /\ Log!Init /\ Init
       \/ part = "commit" /\ Stored!Init /\ Init /\ NoneFrom12
       \/ part = "tree" /\ Tree!Init /\ Init /\ NoneFrom9

ProgressNext ==
    \/ Answering(Next)
    \/ Ending(End!Next)
    \/ Draining(Log!Next)
    \/ Committing(Stored!Next)
    \/ Reading(Tree!Next)

(* Each part's own fairness.                                               *)
ProgressFairness ==
    /\ \A c \in Call :
          /\ WF_allVars(Answering(AcceptStep(c)) \/ Ending(End!AcceptStep(c)))
          /\ WF_allVars(Answering(RunStep(c)) \/ Ending(End!RunStep(c)))
    /\ WF_allVars(Draining(Log!RunStep))
    /\ WF_allVars(Draining(Log!Release))
    /\ WF_allVars(Draining(Log!FollowStep(f1)))
    /\ \A r \in {r1, r2} :
          /\ WF_allVars(Committing(Stored!Commit(r)))
          /\ WF_allVars(Committing(Stored!RunStep(r)))
    /\ WF_allVars(Reading(Tree!Next))

ProgressSpec == ProgressInit /\ [][ProgressNext]_allVars /\ ProgressFairness

-----------------------------------------------------------------------------
(* Once a run's log is closed, it is wiped (FrameLog's ClosedIsWiped).     *)
ClosedIsWiped == (part = "drain" /\ Log!Closed) ~> (part = "drain" /\ Log!Wiped)

(* A commit settles: conflicts and lost answers are retried a bounded      *)
(* number of times (MutateThread, Push), and then the caller is told.      *)
CommitsSettle ==
    \A r \in {r1, r2} :
        (part = "commit" /\ Stored!Committing(r)) ~> (part = "commit" /\ Stored!Committed(r))

(* Reading an exported conversation ends, however its nodes name each      *)
(* other, with the branch to its current node, each message of it once,    *)
(* and with each reply given the thoughts of its own turn                  *)
(* (chatgptActivePath, chatgptMessages, chatgptThoughts).                  *)
TreesRead ==
    <>(part = "tree" => Tree!Ended /\ Tree!TypeOK /\ Tree!BranchRead /\ Tree!ThoughtsOfTurn)
=============================================================================
