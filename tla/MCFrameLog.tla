----------------------------- MODULE MCFrameLog -----------------------------
(***************************************************************************)
(* Instances of FrameLog for TLC: one client that follows a run of up to   *)
(* MaxEvents events of every kind, or two that follow a shorter run        *)
(* without deltas, whose log is folded, lent and wiped all the same.       *)
(***************************************************************************)
EXTENDS FrameLog

CONSTANTS f1, f2, MaxShared

VARIABLE readers \* the clients that follow the run at all

LogInit == Init /\ readers \in SUBSET Follower \ {{}}

LogNext ==
    /\ Next
    /\ \A f \in Follower \ readers : at'[f] = at[f]
    /\ readers = Follower /\ emitting' # None =>
          emitting'.kind # "delta" /\ emitted' < MaxShared
    /\ UNCHANGED readers

LogSpec == LogInit /\ [][LogNext]_<<vars, readers>>

(* Followers are told apart by nothing but their streams.                  *)
Symmetry == Permutations(Follower)

=============================================================================
