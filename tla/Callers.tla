------------------------------- MODULE Callers ------------------------------
(***************************************************************************)
(* The credentials requests carry (internal/auth): the chat token of a     *)
(* signed-in caller, kept at hand for a run that outlives its own, and the *)
(* free key of a signed-out one, which the control plane is asked about.   *)
(*                                                                         *)
(* One caller of each kind is modelled, with several requests at once; the *)
(* caches hold at most one entry of each, which other callers may push out.*)
(***************************************************************************)
EXTENDS Integers, Sequences

CONSTANTS
    None,
    Request,        \* requests under way at once
    Token,          \* the caller's chat tokens
    Expires,        \* when each expires
    Leeway,         \* how long after its expiry a token is still accepted
    CredentialTTL,  \* how long a token is kept at hand
    FreeKeyTTL,     \* how long a free key found valid admits its caller
    Timeout,        \* the longest the control plane is waited for
    MaxNow,         \* the last moment modelled
    Budgets         \* what a behaviour may do: opens and changes of each kind

VARIABLES
    now,
    newest,   \* Authenticator.newest: a token and until when it is kept, or None
    valid,    \* Authenticator.valid: until when the free key is, or None
    answers,  \* what the control plane answers of the free key
    req,      \* each request: what it has yet to do, and what it was given
    run,      \* the run of a signed-in caller, and how it was renewed
    past,     \* what happened, for the properties
    budget

vars == <<now, newest, valid, answers, req, run, past, budget>>

Answers == {"valid", "spent", "disabled"}

(* A spent key may open a session, which shows the quota. *)
Accepted == {"valid", "spent"}

(* The checks a request makes, in their order: Caller, then Inference in the *)
(* routes of signed-out callers; in the others chatToken, as Authenticate    *)
(* calls it and then as Inference does.                                      *)
FreeRoutes == {<<"recognize">>, <<"recognize", "inference">>, <<"inference", "turn">>}
TokenRoutes == {<<"token">>, <<"token", "credential", "start">>}

Idle ==
    [pc |-> "idle", todo |-> <<>>, token |-> None, sent |-> None, answer |-> None,
     validatedFree |-> None, credential |-> None, turn |-> FALSE, could |-> FALSE]

Init ==
    /\ now = 0
    /\ newest = None
    /\ valid = None
    /\ answers = "valid"
    /\ req = [r \in Request |-> Idle]
    /\ run = None
    /\ past = [accepted |-> None, first |-> [t \in Token |-> None], clean |-> TRUE]
    /\ budget \in Budgets

Does(r, check) == req[r].pc = "open" /\ req[r].todo # <<>> /\ Head(req[r].todo) = check

Refused == [Idle EXCEPT !.pc = "refused"]

(* The request goes on to its next check, or is served after its last. *)
Passed(q) ==
    [q EXCEPT !.todo = Tail(@), !.pc = IF Len(q.todo) = 1 THEN "served" ELSE "open",
              !.sent = None, !.answer = None]

-----------------------------------------------------------------------------
(* The caches.                                                             *)
Held(entry) == entry # None /\ now <= entry.until

KeyCached == valid # None /\ now <= valid

Tick ==
    /\ now < MaxNow
    /\ now' = now + 1
    /\ UNCHANGED <<newest, valid, answers, req, run, past, budget>>

(* Other callers fill a cache, which drops the entry used least lately. *)
Evict ==
    /\ budget.evictions > 0
    /\ budget' = [budget EXCEPT !.evictions = @ - 1]
    /\ newest' = None
    /\ valid' = None
    /\ past' = [past EXCEPT !.clean = FALSE]
    /\ UNCHANGED <<now, answers, req, run>>

-----------------------------------------------------------------------------
(* Signed-in callers.                                                      *)

Present(r, t) ==
    /\ req[r].pc = "idle"
    /\ budget.tokens > 0
    /\ budget' = [budget EXCEPT !.tokens = @ - 1]
    /\ \E todo \in TokenRoutes :
          req' = [req EXCEPT ![r] = [Idle EXCEPT !.pc = "open", !.todo = todo, !.token = t]]
    /\ UNCHANGED <<now, newest, valid, answers, run, past>>

(* The token is the one to keep: none is at hand, or one that expires sooner. *)
Newer(t) == ~Held(newest) \/ Expires[t] > Expires[newest.token]

(* What the properties count of a token shown: when it first was. *)
ShownFirst(t) == [past EXCEPT !.first[t] = IF @ = None THEN now ELSE @]

(* chatToken verifies the token, with some leeway after its expiry, and looks *)
(* up the one at hand, then, with no lock between, keeps the newer.           *)
(* Authenticate goes on whatever it finds, Inference refuses a token expired. *)
ChatToken(r) ==
    /\ Does(r, "token") \/ Does(r, "credential")
    /\ LET q == req[r]
           ok == now < Expires[q.token] + Leeway
           others == \E o \in Request \ {r} : req[o].pc = "adding"
       IN  /\ req' = [req EXCEPT ![r] = IF ~ok /\ Does(r, "credential")
                                        THEN Refused
                                        ELSE IF ok /\ Newer(q.token) THEN [q EXCEPT !.pc = "adding"]
                                        ELSE Passed(q)]
           /\ past' = [IF ok /\ ~Newer(q.token) THEN ShownFirst(q.token) ELSE past
                       EXCEPT !.clean = @ /\ ~others]
    /\ UNCHANGED <<now, newest, valid, answers, run, budget>>

AddToken(r) ==
    /\ req[r].pc = "adding"
    /\ newest' = [token |-> req[r].token, until |-> now + CredentialTTL]
    /\ req' = [req EXCEPT ![r] = Passed(@)]
    /\ past' = ShownFirst(req[r].token)
    /\ UNCHANGED <<now, valid, answers, run, budget>>

(* The turn's run makes its calls under the request's token. *)
StartRun(r) ==
    /\ Does(r, "start")
    /\ run = None
    /\ run' = [token |-> req[r].token, refused |-> None]
    /\ req' = [req EXCEPT ![r] = Passed(@)]
    /\ UNCHANGED <<now, newest, valid, answers, past, budget>>

(* The newest token the caller presented, unless it was refused or expired. *)
Renewed(refused) ==
    IF Held(newest) /\ newest.token # refused /\ Expires[newest.token] > now THEN newest.token ELSE None

(* A model call is refused, and the run takes up a token once. *)
RefuseCall ==
    /\ run # None
    /\ run.refused = None
    /\ run' = [token |-> Renewed(run.token), refused |-> run.token]
    /\ UNCHANGED <<now, newest, valid, answers, req, past, budget>>

-----------------------------------------------------------------------------
(* Signed-out callers.                                                     *)
Open(r) ==
    /\ req[r].pc = "idle"
    /\ budget.keys > 0
    /\ budget' = [budget EXCEPT !.keys = @ - 1]
    /\ \E todo \in FreeRoutes :
          req' = [req EXCEPT ![r] = [Idle EXCEPT !.pc = "open", !.todo = todo,
                                                 !.turn = "turn" \in {todo[i] : i \in DOMAIN todo},
                                                 !.could = answers = "valid"]]
    /\ UNCHANGED <<now, newest, valid, answers, run, past>>

Ask(r) ==
    /\ req' = [req EXCEPT ![r].pc = "asked", ![r].sent = now, ![r].answer = None]
    /\ UNCHANGED <<now, newest, valid, answers, run, past, budget>>

(* A key let in because it was accepted lately is not accepted anew. *)
Recognized == valid

(* Recognize lets in a key accepted lately, and asks about another. *)
Recognize(r) ==
    /\ Does(r, "recognize")
    /\ IF KeyCached
       THEN /\ req' = [req EXCEPT ![r] = Passed(@)]
            /\ valid' = Recognized
            /\ UNCHANGED <<now, newest, answers, run, past, budget>>
       ELSE Ask(r)

KnownAnswerCached(q) == IF q.validatedFree = None /\ KeyCached THEN "valid" ELSE q.validatedFree

(* freeKey uses the answer its own request already had. *)
KnownAnswer(q) == q.validatedFree

Inference(r) ==
    /\ Does(r, "inference")
    /\ IF KnownAnswer(req[r]) # None
       THEN /\ req' = [req EXCEPT ![r] = [Passed(@) EXCEPT !.credential = KnownAnswer(req[r]),
                                                           !.validatedFree = None]]
            /\ UNCHANGED <<now, newest, valid, answers, run, past, budget>>
       ELSE Ask(r)

(* The control plane answers as the key then is; the answer may be slow. *)
Decide(r) ==
    /\ req[r].pc = "asked"
    /\ req[r].answer = None
    /\ req' = [req EXCEPT ![r].answer = answers]
    /\ past' = IF answers \in Accepted THEN [past EXCEPT !.accepted = now] ELSE past
    /\ UNCHANGED <<now, newest, valid, answers, run, budget>>

(* A key accepted is remembered, and its answer is the request's. *)
Answered(r) ==
    LET q == req[r]
        given == IF Head(q.todo) = "recognize" THEN [q EXCEPT !.validatedFree = q.answer]
                                               ELSE [q EXCEPT !.credential = q.answer]
    IN  /\ q.pc = "asked"
        /\ q.answer # None
        /\ now <= q.sent + Timeout
        /\ valid' = IF q.answer \in Accepted THEN now + FreeKeyTTL ELSE valid
        /\ req' = [req EXCEPT ![r] = IF q.answer \in Accepted THEN Passed(given)
                                     ELSE Refused]
        /\ UNCHANGED <<now, newest, answers, run, past, budget>>

(* No answer came, or none that says anything. *)
Unanswered(r) ==
    /\ req[r].pc = "asked"
    /\ req' = [req EXCEPT ![r] = Refused]
    /\ UNCHANGED <<now, newest, valid, answers, run, past, budget>>

(* admit starts no work for a key with no request left. *)
AdmitTurn(r) ==
    /\ Does(r, "turn")
    /\ req' = [req EXCEPT ![r] = IF @.credential = "spent" THEN Refused ELSE Passed(@)]
    /\ UNCHANGED <<now, newest, valid, answers, run, past, budget>>

(* The key's quota is spent or renewed, or the key disabled. *)
Change ==
    /\ budget.changes > 0
    /\ budget' = [budget EXCEPT !.changes = @ - 1]
    /\ answers' \in Answers \ {answers}
    /\ req' = [r \in Request |-> [req[r] EXCEPT !.could = @ \/ (req[r].turn /\ answers' = "valid")]]
    /\ UNCHANGED <<now, newest, valid, run, past>>

(* A request that was answered makes room for the next. *)
Leave(r) ==
    /\ req[r].pc \in {"served", "refused"}
    /\ req' = [req EXCEPT ![r] = Idle]
    /\ UNCHANGED <<now, newest, valid, answers, run, past, budget>>

Next ==
    \/ Tick \/ Evict \/ RefuseCall \/ Change
    \/ \E r \in Request :
          \/ \E t \in Token : Present(r, t)
          \/ ChatToken(r) \/ AddToken(r) \/ StartRun(r) \/ Open(r) \/ Recognize(r) \/ Inference(r)
          \/ Decide(r) \/ Answered(r) \/ Unanswered(r) \/ AdmitTurn(r) \/ Leave(r)

Spec == Init /\ [][Next]_vars

-----------------------------------------------------------------------------
Time == 0 .. MaxNow + CredentialTTL + FreeKeyTTL

(* The caches, the requests and the run have the shapes the code gives them. *)
TypeOK ==
    /\ now \in 0 .. MaxNow
    /\ newest = None \/ newest \in [token : Token, until : Time]
    /\ valid = None \/ valid \in Time
    /\ answers \in Answers
    /\ \A r \in Request :
          /\ req[r].pc \in {"idle", "open", "adding", "asked", "served", "refused"}
          /\ req[r].validatedFree = None \/ req[r].validatedFree \in Accepted
          /\ req[r].credential = None \/ req[r].credential \in Accepted
    /\ run = None \/ run \in [token : Token \cup {None}, refused : Token \cup {None}]

(* A signed-out request is let in only while the control plane accepted its *)
(* key at most freeKeyTTL and one call ago, however often the key was let in *)
(* from the cache since (Recognize); what it asks for after that is served   *)
(* on the answer it was itself given (freeKey).                              *)
KeyAcceptedLately ==
    \A r \in Request :
        /\ req[r].pc = "asked" \/ Does(r, "recognize")
        /\ req'[r].pc # "refused" /\ req'[r].todo # req[r].todo
        => past.accepted # None /\ now - past.accepted <= FreeKeyTTL + Timeout

(* A turn is admitted under a free key only if the key had quota left at some *)
(* moment of that same request: an answer given to an earlier one, or the     *)
(* session a spent key may open, starts no work (freeKey, admit).             *)
TurnHadQuota ==
    \A r \in Request : req[r].pc = "served" /\ req[r].turn => req[r].could

(* A run whose call was refused takes up a token the caller presented, not the *)
(* one refused and not an expired one, and none the caller presented lately    *)
(* lasts longer; it is told to ask for another only when there is none         *)
(* (chatToken, Renewed).  Presentations that overlap may keep the older token, *)
(* and a full cache drops it: both are excepted.                               *)
RenewedIsNewest ==
    run # None /\ run' # run /\ run'.refused # None =>
        /\ run'.token # None =>
              run'.token # run.token /\ Expires[run'.token] > now /\ past.first[run'.token] # None
        /\ past.clean =>
              \A t \in Token :
                  /\ past.first[t] # None
                  /\ now <= past.first[t] + CredentialTTL
                  /\ Expires[t] > now
                  /\ Expires[t] > Expires[run.token]
                  => run'.token # None /\ Expires[run'.token] >= Expires[t]

(* Callers are who they were found to be, whatever tokens and answers      *)
(* overlap, lapse or are pushed out: the caches and requests keep their    *)
(* types, a turn under a free key had quota at some moment of its request, *)
(* a signed-out request is let in only on a lately accepted key, and a run *)
(* renews its token with the newest one presented (auth.go).               *)
CallersAreKnown == [][(TypeOK /\ TurnHadQuota)' /\ KeyAcceptedLately /\ RenewedIsNewest]_vars
=============================================================================
