----------------------------- MODULE MCLiveRuns -----------------------------
(***************************************************************************)
(* An instance of LiveRuns with the requests of several clients of one     *)
(* chat.  Part says which of the clients turn up in a behaviour, and so    *)
(* which requests meet.                                                    *)
(***************************************************************************)
EXTENDS LiveRuns, TLC

CONSTANTS c1, c2, c3, r1, r2, r3, r4, d1, d2, d3, t1, chat1, m1, m2, m3, n1, n2, Parts

VARIABLE part

Request(nonce, key, kind) ==
    [nonce |-> nonce, chat |-> chat1, key |-> key, kind |-> kind, device |-> FALSE, seeded |-> TRUE]

Send(nonce) == Request(nonce, "k1", "send")

OnDevice(request) == [request EXCEPT !.device = TRUE]

(* Three turns of a stored chat; a turn with its retry under another key,   *)
(* an ask that reuses its nonce and a turn under another key; and, of a    *)
(* device chat, a compaction and two turns, one without its transcript.    *)
Requests ==
    (c1 :> Send(m1)) @@ (c2 :> Send(m2)) @@ (c3 :> Send(m3))
    @@ (r1 :> Send(n1)) @@ (r2 :> Request(n1, "k2", "send"))
    @@ (r3 :> Request(n1, "k1", "ask")) @@ (r4 :> Request(n2, "k2", "send"))
    @@ (d1 :> OnDevice(Request(n1, "k1", "compact"))) @@ (d2 :> OnDevice(Send(n2)))
    @@ (d3 :> [OnDevice(Send(n1)) EXCEPT !.seeded = FALSE])

Moved == (t1 :> chat1)

(* The calls made in each part.                                            *)
Callers ==
    [queue     |-> {c1, c2, c3},
     full      |-> {c1, c2, c3, r1},
     retried   |-> {r1, r2},
     asked     |-> {r1, r3},
     followed  |-> {r1, r4},
     compacted |-> {d1, d2},
     unseeded  |-> {d3, d2}]

(* The parts in which the chat is being moved to the device.               *)
Moving == {"asked", "followed"}

PartInit == part = None /\ Init

(* The part is chosen: the other clients come and are turned away, since   *)
(* memory is low or, of a transfer, since the chat is live.                *)
Choose ==
    /\ part = None
    /\ part' \in Parts
    /\ LET away == Call \ Callers[part']
       IN /\ at' = [c \in Call |-> IF c \in away THEN "refused" ELSE "idle"]
          /\ low' = [c \in Call |-> c \in away]
    /\ transfer' = [t \in Transfer |-> IF part' \in Moving THEN "idle" ELSE "done"]
    /\ UNCHANGED <<registryVars, sessionVars, runVars, previous, accepted, refused, closing, waited,
                   working, held, doomed>>

(* In "queue" and "full" there is memory for every turn and none is        *)
(* refused; in "queue" the chat is deleted or the service stopped, not     *)
(* both; in "full" clients only send turns, and replies go on.             *)
PartNext ==
    \/ Choose
    \/ /\ part # None
       /\ Next
       /\ part \in {"queue", "full"} => UNCHANGED low /\ "unregister" \notin Range(at')
       /\ part = "queue" => ~closing' \/ \A c \in Call : ~deleted'[c]
       /\ part = "full" => /\ UNCHANGED <<closing, cancelled, deleted>>
                           /\ Range(phase') \subseteq {"none", "queued", "launching", "running"}
       /\ UNCHANGED part

PartSpec == PartInit /\ [][PartNext]_<<part, vars>>

(* The turns of "queue" are told apart by their nonces alone: exchanging   *)
(* calls exchanges their nonces.                                           *)
NonceOf == (c1 :> m1) @@ (c2 :> m2) @@ (c3 :> m3)

CallOf == (m1 :> c1) @@ (m2 :> c2) @@ (m3 :> c3)

Symmetry ==
    {p @@ [m \in {m1, m2, m3} |-> NonceOf[p[CallOf[m]]]] : p \in Permutations({c1, c2, c3})}
=============================================================================
