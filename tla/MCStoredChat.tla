---------------------------- MODULE MCStoredChat ----------------------------
(***************************************************************************)
(* Instances of StoredChat: one request, sent to two instances of the      *)
(* service, with an edit beside it, with its reply regenerated, with its   *)
(* question edited, or with its reply continued and the chat deleted; and  *)
(* one whose reply is regenerated and whose question is then edited.       *)
(***************************************************************************)
EXTENDS StoredChat, TLC

CONSTANTS r1, r2, r3, r4, r5, e1, d1, n1, n2, n3, n4

VARIABLE scenario \* who comes at all, and whether a push is sent again

Send(n) == [nonce |-> n, kind |-> "send", on |-> None]

Requests == r1 :> Send(n1)
         @@ r2 :> Send(n1)
         @@ r3 :> [nonce |-> n2, kind |-> "regenerate", on |-> r1]
         @@ r4 :> [nonce |-> n3, kind |-> "edit", on |-> n1]
         @@ r5 :> [nonce |-> n4, kind |-> "continue", on |-> r1]

Apart == [w \in Run \cup Deleter |-> IF w = r2 THEN "b" ELSE "a"]

Scenarios ==
    {[who |-> {r1, r2, e1}, resend |-> TRUE],
     [who |-> {r1, r2, r3}, resend |-> FALSE],
     [who |-> {r1, r2, r4}, resend |-> FALSE],
     [who |-> {r1, r3, r4}, resend |-> FALSE],
     [who |-> {r1, r2, r5, d1}, resend |-> FALSE]}

ChatInit == Init /\ scenario \in Scenarios

ChatNext ==
    /\ Next
    /\ \A w \in (Writer \cup Deleter) \ scenario.who : at'[w] = "idle"
    /\ ~scenario.resend => \A w \in Writer : sends'[w] <= 1
    /\ UNCHANGED scenario

ChatSpec == ChatInit /\ [][ChatNext]_<<vars, scenario>>
=============================================================================
