------------------------ MODULE StoredChatInvariant -------------------------
(***************************************************************************)
(* The inductive invariant of StoredChat, for every set of runs, edits,    *)
(* deletions and instances.  That a change is made to the chat as it is    *)
(* stored, and once, is a matter of every push that may still arrive: what *)
(* it was made from, the key it is sent under, and whether it still fits.  *)
(***************************************************************************)
EXTENDS StoredChat, TLAPS

(* The pushes that may still be made: those under way, and those given up. *)
Sending == {"check", "push"}

Out == late \cup {put[w] : w \in {v \in Writer : at[v] \in Sending}}

(* A deletion of the chat was asked for.                                   *)
Deleting == \E d \in Deleter : at[d] # "idle"

(* The key of the change a writer is making.                               *)
KeyOf(w) == [by |-> w, stage |-> stage[w], attempt |-> attempt[w], send |-> 1]

Current(k) == k.stage = stage[k.by] /\ k.attempt = attempt[k.by]

(* The change made under a key.                                            *)
Change(k, chat) ==
    CASE k.stage = "launch" -> Asked(k.by, chat)
      [] k.stage = "finish" -> Replied(k.by, chat)
      [] k.stage = "edit"   -> Edited(k.by, chat)

(* The chat takes the change.                                              *)
Fits(k, chat) ==
    k.stage = "launch" =>
        /\ chat.last # Turn[k.by].nonce
        /\ Applicable(Turn[k.by], chat.msgs)

(* The pushes of a writer carry the stage it is in.                        *)
Stages ==
    /\ \A w \in Editor : stage[w] = "edit"
    /\ \A r \in Run : stage[r] \in {"launch", "finish"}
    /\ \A w \in Writer : at[w] \in {"check", "saved", "running"} => stage[w] = "launch"
    /\ put = [w \in Writer \cup Deleter |-> put[w]]

Mine == \A w \in Writer : at[w] \in Sending => put[w].key = KeyOf(w)

(* A writer told of success made its change under its own key.             *)
Made == \A w \in Writer : at[w] \in {"saved", "running", "over"} => KeyOf(w) \in answered

(* A key is drawn once: for a read that was made.                          *)
Drawn(k) ==
    /\ k.send = 1
    /\ k.stage = "edit" <=> k.by \in Editor
    /\ \/ /\ k.stage = stage[k.by]
          /\ \/ k.attempt < attempt[k.by]
             \/ k.attempt = attempt[k.by] /\ at[k.by] \notin {"idle", "load"}
       \/ k.stage = "launch" /\ stage[k.by] = "finish"

DrawnOnce ==
    /\ \A k \in answered : Drawn(k)
    /\ \A p \in Out : Drawn(p.key)
    /\ \A p, q \in Out : p.key = q.key => p = q

(* A push holds its change to the chat it was read from.                   *)
ReadFrom(p) ==
    /\ p.match <= rev
    /\ p.match = 0 =>
          /\ p.key.stage = "launch"
          /\ p.key.attempt = 1
          /\ first[p.key.by] = "missing"
          /\ p.chat = Asked(p.key.by, newThread)
          /\ Fits(p.key, newThread)
    /\ row # None /\ row.rev = p.match =>
          p.chat = Change(p.key, row.chat) /\ Fits(p.key, row.chat)

Reads == \A p \in Out : ReadFrom(p)

(* A push that still fits is the only one its writer may yet make, unless  *)
(* the row it would create was deleted.                                    *)
Spent ==
    \A p \in Out : \/ p.key \in answered
                   \/ Current(p.key)
                   \/ ~Matches(p)
                   \/ Deleting /\ p.match = 0

(* A change that was made is its writer's last of that stage.              *)
Answered ==
    \A k \in answered :
        \/ Current(k)
        \/ k.stage = "launch" /\ (stage[k.by] = "finish" \/ Deleting)

(* What the row holds was made under a key.                                *)
MadeBy(w, s) == \E k \in answered : k.by = w /\ k.stage = s

Kept ==
    row # None =>
        /\ \A r \in Run : \A s \in {"launch", "finish"} :
              <<r, s>> \in row.chat.by => MadeBy(r, s)
        /\ \A w \in row.chat.edits : MadeBy(w, "edit")

(* The last request of the row is that of a run that asked.                *)
LastAsked ==
    row # None /\ row.chat.last # None =>
        \E o \in Run : Turn[o].nonce = row.chat.last /\ <<o, "launch">> \in row.chat.by

(* The chat a request was already applied to is there until a deletion.    *)
Present ==
    (\E r \in Run : at[r] = "already") /\ ~Deleting => row # None

Agreed ==
    /\ Stages /\ Mine /\ Made /\ DrawnOnce /\ Reads /\ Spent /\ Answered
    /\ Kept /\ LastAsked /\ Present

Inv == TypeOK /\ MessagesOnce /\ MarkerGoes /\ AlreadyByAnother /\ Agreed

-----------------------------------------------------------------------------
(* Chats.                                                                  *)

(* The elements of a sequence.                                             *)
LEMMA Elements ==
    ASSUME NEW S, NEW s \in Seq(S)
    PROVE  /\ DOMAIN s = 1 .. Len(s)
           /\ Range(s) \subseteq S
           /\ \A e : e \in Range(s) <=> \E i \in 1 .. Len(s) : s[i] = e
BY DEF Range

(* A message the chat does not hold is added to it once.                   *)
LEMMA AppendOnce ==
    ASSUME NEW S, NEW s \in Seq(S), IsInjective(s), NEW e \in S, e \notin Range(s)
    PROVE  Append(s, e) \in Seq(S) /\ IsInjective(Append(s, e))
<1> DEFINE t == Append(s, e)
<1>1. /\ t \in Seq(S)
      /\ DOMAIN t = 1 .. Len(s) + 1
      /\ \A i \in 1 .. Len(s) : t[i] = s[i]
      /\ t[Len(s) + 1] = e
      /\ Len(s) \in Nat
  OBVIOUS
<1>2. \A i \in 1 .. Len(s) : s[i] # e
  BY DEF Range
<1>3. \A i, j \in 1 .. Len(s) : s[i] = s[j] => i = j
  BY DEF IsInjective
<1> HIDE DEF t
<1>4. \A i \in DOMAIN t : i \in 1 .. Len(s) \/ i = Len(s) + 1
  BY <1>1
<1>5. IsInjective(t)
  BY <1>1, <1>2, <1>3, <1>4 DEF IsInjective
<1> QED BY <1>1, <1>5 DEF t

(* The messages before a cut are in the chat once.                         *)
LEMMA PrefixOnce ==
    ASSUME NEW S, NEW s \in Seq(S), IsInjective(s), NEW n \in 0 .. Len(s)
    PROVE  /\ SubSeq(s, 1, n) \in Seq(S)
           /\ IsInjective(SubSeq(s, 1, n))
           /\ Range(SubSeq(s, 1, n)) \subseteq Range(s)
<1> DEFINE t == SubSeq(s, 1, n)
<1>1. t \in Seq(S) /\ DOMAIN t = 1 .. n /\ \A i \in 1 .. n : t[i] = s[i]
  OBVIOUS
<1>2. \A i \in 1 .. n : i \in DOMAIN s
  OBVIOUS
<1> HIDE DEF t
<1>3. IsInjective(t)
  BY <1>1, <1>2 DEF IsInjective
<1>4. Range(t) \subseteq Range(s)
  BY <1>1, <1>2 DEF Range
<1> QED BY <1>1, <1>3, <1>4 DEF t

(* A cut finds its message where it is.                                    *)
LEMMA CutOnce ==
    ASSUME NEW msgs \in Seq(Message), IsInjective(msgs), NEW turn,
           turn.on \in Range(msgs)
    PROVE  /\ CutAt(turn, msgs) \in Seq(Message)
           /\ IsInjective(CutAt(turn, msgs))
           /\ Range(CutAt(turn, msgs)) \subseteq Range(msgs)
<1>1. PICK i \in 1 .. Len(msgs) : msgs[i] = turn.on
  BY Elements
<1>2. \A j \in 1 .. Len(msgs) : msgs[j] = turn.on => j = i
  BY <1>1 DEF IsInjective
<1>3. {j \in DOMAIN msgs : msgs[j] = turn.on} = {i}
  BY <1>1, <1>2
<1>4. Min({i}) = i
  BY DEF Min
<1>5. Min({j \in DOMAIN msgs : msgs[j] = turn.on}) = i
  BY <1>3, <1>4, Zenon
<1>6. \E n \in 0 .. Len(msgs) : CutAt(turn, msgs) = SubSeq(msgs, 1, n)
  <2>1. CutAt(turn, msgs) = SubSeq(msgs, 1, IF turn.kind = "continue" THEN i ELSE i - 1)
    BY <1>5, Zenon DEF CutAt
  <2>2. i \in 0 .. Len(msgs) /\ i - 1 \in 0 .. Len(msgs)
    BY <1>1
  <2> QED BY <2>1, <2>2
<1> QED BY <1>6, PrefixOnce

(* applyTurn leaves every message in the chat once.                        *)
LEMMA TurnOnce ==
    ASSUME NEW r \in Run, NEW msgs \in Seq(Message), IsInjective(msgs),
           Applicable(Turn[r], msgs)
    PROVE  /\ applyTurn(Turn[r], msgs) \in Seq(Message)
           /\ IsInjective(applyTurn(Turn[r], msgs))
<1> DEFINE turn == Turn[r]
           kept == IF Cuts(turn) THEN CutAt(turn, msgs) ELSE msgs
<1>1. turn.nonce \in Message
  BY ChatAssumption DEF Request, Message
<1>2. CASE turn.nonce \in Range(msgs)
  BY <1>2 DEF applyTurn
<1>3. CASE turn.nonce \notin Range(msgs)
  <2>1. Cuts(turn) => turn.on \in Range(msgs)
    BY <1>3 DEF Applicable
  <2>2. kept \in Seq(Message) /\ IsInjective(kept) /\ Range(kept) \subseteq Range(msgs)
    BY <2>1, CutOnce
  <2>3. applyTurn(turn, msgs) = IF Asks(turn) THEN Append(kept, turn.nonce) ELSE kept
    BY <1>3 DEF applyTurn
  <2> HIDE DEF kept, turn
  <2>4. turn.nonce \notin Range(kept)
    BY <1>3, <2>2
  <2>5. Append(kept, turn.nonce) \in Seq(Message) /\ IsInjective(Append(kept, turn.nonce))
    BY <1>1, <2>2, <2>4, AppendOnce
  <2>6. /\ applyTurn(turn, msgs) \in Seq(Message)
        /\ IsInjective(applyTurn(turn, msgs))
    BY <2>2, <2>3, <2>5
  <2> QED BY <2>6 DEF turn
<1> QED BY <1>2, <1>3

(* What a turn, a reply and an edit make of a chat.                        *)
LEMMA AskedIs ==
    ASSUME NEW r \in Run, NEW chat \in Thread
    PROVE  /\ Asked(r, chat).msgs = applyTurn(Turn[r], chat.msgs)
           /\ Asked(r, chat).last = Turn[r].nonce
           /\ Asked(r, chat).active = r
           /\ Asked(r, chat).edits = chat.edits
           /\ Asked(r, chat).by = chat.by \cup {<<r, "launch">>}
BY DEF Asked, Thread

(* What finishRun's commit makes of each field of a chat.                  *)
LEMMA RepliedIs ==
    ASSUME NEW r \in Run, NEW chat \in Thread
    PROVE  /\ Replied(r, chat).msgs = IF ReplyId(r) \in Range(chat.msgs) THEN chat.msgs
                                      ELSE Append(chat.msgs, ReplyId(r))
           /\ Replied(r, chat).last = chat.last
           /\ Replied(r, chat).active = IF chat.active = r THEN None ELSE chat.active
           /\ Replied(r, chat).edits = chat.edits
           /\ Replied(r, chat).by = chat.by \cup {<<r, "finish">>}
BY DEF Replied, Thread

(* What an edit makes of each field of a chat.                             *)
LEMMA EditedIs ==
    ASSUME NEW w \in Editor, NEW chat \in Thread
    PROVE  /\ Edited(w, chat).msgs = chat.msgs
           /\ Edited(w, chat).last = chat.last
           /\ Edited(w, chat).active = chat.active
           /\ Edited(w, chat).edits = chat.edits \cup {w}
           /\ Edited(w, chat).by = chat.by
BY DEF Edited, Thread

(* A change is one of the three.                                           *)
LEMMA ChangeIs ==
    ASSUME NEW k \in PutKey, k.stage = "edit" <=> k.by \in Editor, NEW chat
    PROVE  \/ k.stage = "launch" /\ k.by \in Run /\ Change(k, chat) = Asked(k.by, chat)
           \/ k.stage = "finish" /\ k.by \in Run /\ Change(k, chat) = Replied(k.by, chat)
           \/ k.stage = "edit" /\ k.by \in Editor /\ Change(k, chat) = Edited(k.by, chat)
<1>1. k.by \in Writer /\ k.stage \in {"launch", "finish", "edit"}
  BY DEF PutKey, Stage
<1> QED BY <1>1 DEF Change, Writer

(* A change keeps a chat's type, and every message once.                   *)
LEMMA ChangeOnce ==
    ASSUME NEW k \in PutKey, k.stage = "edit" <=> k.by \in Editor,
           NEW chat \in Thread, IsInjective(chat.msgs), Fits(k, chat)
    PROVE  /\ Change(k, chat) \in Thread
           /\ IsInjective(Change(k, chat).msgs)
<1>1. /\ chat.msgs \in Seq(Message)
      /\ chat.by \in SUBSET (Run \X {"launch", "finish"})
  BY DEF Thread
<1>2. ASSUME NEW r \in Run, Fits([by |-> r, stage |-> "launch"], chat)
      PROVE  Asked(r, chat) \in Thread /\ IsInjective(Asked(r, chat).msgs)
  <2>1. /\ applyTurn(Turn[r], chat.msgs) \in Seq(Message)
        /\ IsInjective(applyTurn(Turn[r], chat.msgs))
    BY <1>1, <1>2, TurnOnce DEF Fits
  <2>2. Turn[r].nonce \in Nonce
    BY ChatAssumption DEF Request
  <2>3. chat.by \cup {<<r, "launch">>} \in SUBSET (Run \X {"launch", "finish"})
    BY <1>1
  <2>4. Asked(r, chat) \in Thread
    BY <2>1, <2>2, <2>3, Zenon DEF Asked, Thread
  <2> QED BY <2>1, <2>4, AskedIs
<1>3. ASSUME NEW r \in Run
      PROVE  Replied(r, chat) \in Thread /\ IsInjective(Replied(r, chat).msgs)
  <2> DEFINE m == IF ReplyId(r) \in Range(chat.msgs) THEN chat.msgs
                  ELSE Append(chat.msgs, ReplyId(r))
  <2>1. ReplyId(r) \in Message
    BY ChatAssumption DEF Request, Message, ReplyId
  <2>2. m \in Seq(Message) /\ IsInjective(m)
    BY <1>1, <2>1, AppendOnce
  <2>3. chat.by \cup {<<r, "finish">>} \in SUBSET (Run \X {"launch", "finish"})
    BY <1>1
  <2>4. (IF chat.active = r THEN None ELSE chat.active) \in Run \cup {None}
    BY DEF Thread
  <2>5. Replied(r, chat) \in Thread
    BY <2>2, <2>3, <2>4, Zenon DEF Replied, Thread
  <2> QED BY <2>2, <2>5, RepliedIs
<1>4. ASSUME NEW w \in Editor
      PROVE  Edited(w, chat) \in Thread /\ IsInjective(Edited(w, chat).msgs)
  BY EditedIs DEF Edited, Thread
<1>5. k.stage = "launch" => Fits([by |-> k.by, stage |-> "launch"], chat)
  BY DEF Fits
<1> QED BY <1>2, <1>3, <1>4, <1>5, ChangeIs

(* The chat a first turn starts from is one, and repeats no message.       *)
LEMMA NewChat == newThread \in Thread /\ IsInjective(newThread.msgs)
BY DEF newThread, Thread, IsInjective

-----------------------------------------------------------------------------
(* Steps.  Most only move a writer on; the others read the row, write it,  *)
(* remove it, or start a writer's next change.                             *)

(* Every writer stays at its change, and goes back to no read.             *)
Same ==
    \A w \in Writer :
        /\ stage'[w] = stage[w]
        /\ attempt'[w] = attempt[w]
        /\ at'[w] \in {"idle", "load"} => at[w] \in {"idle", "load"}

(* A run notes what its first read found as it reads.                      *)
Firsts ==
    \A r \in Run :
        \/ first'[r] = first[r]
        \/ at[r] = "load" /\ stage[r] = "launch" /\ attempt[r] = 1

Quiet ==
    /\ Same /\ Firsts /\ Out' \subseteq Out /\ (Deleting => Deleting')
    /\ UNCHANGED <<row, rev, answered>>

Writes(p) ==
    /\ Same /\ first' = first /\ Out' \subseteq Out /\ Deleting' = Deleting
    /\ p \in Out /\ p.key \notin answered /\ Matches(p)
    /\ row' = [rev |-> rev + 1, chat |-> p.chat]
    /\ rev' = rev + 1
    /\ answered' = answered \cup {p.key}

Removes ==
    /\ Same /\ first' = first /\ Out' \subseteq Out /\ Deleting /\ Deleting'
    /\ row # None /\ row' = None /\ UNCHANGED <<rev, answered>>

(* A writer reads the row and has its change to push.                      *)
Loads(w, p) ==
    /\ Same /\ Firsts /\ Out' \subseteq Out \cup {p} /\ Deleting' = Deleting
    /\ at[w] = "load" /\ at'[w] \notin {"idle", "load"}
    /\ row = None => MayCreate(w) /\ first'[w] = "missing"
    /\ p = [key   |-> KeyOf(w),
            match |-> Read.rev,
            chat  |-> Change(KeyOf(w), Read.chat)]
    /\ Fits(KeyOf(w), Read.chat)
    /\ UNCHANGED <<row, rev, answered>>

(* A writer reads the row again after a conflict.                          *)
Retries(w) ==
    /\ \A v \in Writer \ {w} :
          attempt'[v] = attempt[v] /\ at'[v] = at[v]
    /\ attempt'[w] = attempt[w] + 1
    /\ at[w] = "push" /\ put[w].key \notin answered /\ ~Matches(put[w])
    /\ Out' \subseteq Out /\ Deleting' = Deleting
    /\ UNCHANGED <<row, rev, answered, stage, first>>

(* A run whose reply is complete commits it.                               *)
Finishes(r) ==
    /\ \A v \in Writer \ {r} :
          attempt'[v] = attempt[v] /\ stage'[v] = stage[v] /\ at'[v] = at[v]
    /\ at[r] = "running" /\ stage'[r] = "finish"
    /\ Out' \subseteq Out /\ Deleting' = Deleting
    /\ UNCHANGED <<row, rev, answered, first>>

(* A step that sends no new push leaves out only ones that were.           *)
LEMMA OutShrinks ==
    ASSUME late' \subseteq Out,
           \A w \in Writer : at'[w] \in Sending =>
               at[w] \in Sending /\ put'[w] = put[w]
    PROVE  Out' \subseteq Out
BY DEF Out

(* Delayed pushes and those a writer waits for are still out.              *)
LEMMA OutHas ==
    /\ late \subseteq Out
    /\ \A w \in Writer : at[w] \in Sending => put[w] \in Out
BY DEF Out

(* A put that arrives is made or changes nothing.                          *)
LEMMA PutShapes ==
    ASSUME Same, first' = first, Out' \subseteq Out, Deleting' = Deleting,
           NEW p \in Out, PutBlob(p)
    PROVE  Quiet \/ Writes(p)
BY DEF Quiet, Writes, PutBlob, Firsts

(* A step of one writer or of one deletion.                                *)
LEMMA MoveAt ==
    ASSUME TypeOK, NEW w \in Writer \cup Deleter, NEW to,
           at' = [at EXCEPT ![w] = to]
    PROVE  at'[w] = to /\ \A v \in Writer \cup Deleter : v # w => at'[v] = at[v]
BY DEF TypeOK

(* Giving one writer a push changes no other's.                            *)
LEMMA MovePut ==
    ASSUME Stages, NEW w \in Writer \cup Deleter, NEW to,
           put' = [put EXCEPT ![w] = to]
    PROVE  put'[w] = to /\ \A v \in Writer \cup Deleter : v # w => put'[v] = put[v]
BY DEF Stages

(* A writer's step is no deletion's.                                       *)
LEMMA MoveDeleting ==
    ASSUME NEW w \in Writer,
           \A v \in Writer \cup Deleter : v # w => at'[v] = at[v]
    PROVE  Deleting' = Deleting
<1>1. \A d \in Deleter : at'[d] = at[d]
  BY StoreAssumption DEF Writer
<1> QED BY <1>1 DEF Deleting

(* A step of a writer that only moves it on.                               *)
LEMMA MoveQuiet ==
    ASSUME NEW w \in Writer,
           \A v \in Writer \cup Deleter : v # w => at'[v] = at[v],
           at'[w] # "idle",
           at'[w] = "load" => at[w] = "idle",
           at'[w] \in Sending => at[w] \in Sending /\ put'[w] = put[w],
           \A v \in Writer : v # w => put'[v] = put[v],
           UNCHANGED <<row, rev, answered, stage, attempt>>,
           late' \subseteq Out, Firsts
    PROVE  Quiet
<1>1. Deleting' = Deleting
  BY MoveDeleting
<1>2. Same
  BY DEF Same
<1>3. Out' \subseteq Out
  BY OutShrinks
<1> QED BY <1>1, <1>2, <1>3 DEF Quiet

(* A deletion moves on.                                                    *)
LEMMA MoveDeletion ==
    ASSUME NEW d \in Deleter,
           \A v \in Writer \cup Deleter : v # d => at'[v] = at[v],
           at'[d] # "idle",
           \A v \in Writer : put'[v] = put[v] /\ attempt'[v] = attempt[v],
           UNCHANGED <<late, stage, first>>
    PROVE  Same /\ first' = first /\ Out' \subseteq Out /\ Deleting'
<1>1. \A v \in Writer : at'[v] = at[v]
  BY StoreAssumption DEF Writer
<1>2. Same
  BY <1>1 DEF Same
<1>3. Out' \subseteq Out
  BY <1>1, OutShrinks, OutHas
<1> QED BY <1>2, <1>3 DEF Deleting

(* A writer that begins touches nothing shared.                            *)
LEMMA BeginShape ==
    ASSUME TypeOK, NEW w \in Writer, Begin(w)
    PROVE  Quiet
<1>1. at'[w] = "load" /\ \A v \in Writer \cup Deleter : v # w => at'[v] = at[v]
  BY MoveAt, Zenon DEF Begin
<1>2. /\ at[w] = "idle"
      /\ UNCHANGED <<row, rev, answered, late, stage, attempt, put, first>>
  BY DEF Begin
<1> QED BY <1>1, <1>2, MoveQuiet, OutHas DEF Firsts, Sending

(* prepareTurn or MutateThread reads the row.                              *)
LEMMA LoadShape ==
    ASSUME TypeOK, Stages, NEW w \in Writer, Load(w)
    PROVE  \E p : Loads(w, p)
<1> DEFINE p == [key   |-> KeyOf(w),
                 match |-> Read.rev,
                 chat  |-> Change(KeyOf(w), Read.chat)]
<1>1. Changed(w, Read.chat) = Change(KeyOf(w), Read.chat)
  BY Zenon DEF Changed, Change, KeyOf
<1>2. put' = [put EXCEPT ![w] = p]
  BY <1>1 DEF Load, KeyOf
<1>3. p = [key   |-> KeyOf(w),
           match |-> Read.rev,
           chat  |-> Change(KeyOf(w), Read.chat)]
  OBVIOUS
<1> HIDE DEF p
<1>4. put'[w] = p /\ \A v \in Writer : v # w => put'[v] = put[v]
  BY <1>2, MovePut, Zenon
<1>5. /\ at'[w] \in Sending
      /\ \A v \in Writer \cup Deleter : v # w => at'[v] = at[v]
  <2> DEFINE to == IF stage[w] = "launch" THEN "check" ELSE "push"
  <2>1. at' = [at EXCEPT ![w] = to] /\ to \in Sending
    BY DEF Load, Sending
  <2> HIDE DEF to
  <2> QED BY <2>1, MoveAt, Zenon
<1>6. /\ at[w] = "load"
      /\ UNCHANGED <<row, rev, answered, late, stage, attempt>>
      /\ first' = Noted(w)
      /\ row # None \/ MayCreate(w)
      /\ ~Refuses(w, Read.chat)
  BY DEF Load
<1>7. Firsts /\ (row = None => first'[w] = "missing")
  <2>1. stage[w] = "launch" => w \in Run
    BY DEF Stages, Writer
  <2> QED BY <1>6, <2>1 DEF Noted, Firsts, MayCreate, TypeOK
<1>8. Same /\ Deleting' = Deleting
  BY <1>5, <1>6, MoveDeleting DEF Same, Sending
<1>9. Out' \subseteq Out \cup {p}
  BY <1>4, <1>5, <1>6 DEF Out
<1>10. Fits(KeyOf(w), Read.chat)
  BY <1>6 DEF Fits, Refuses, KeyOf
<1>11. Loads(w, p)
  BY <1>3, <1>5, <1>6, <1>7, <1>8, <1>9, <1>10 DEF Loads, Sending
<1> QED BY <1>11

(* A failed read of the row touches nothing shared.                        *)
LEMMA LoadFailsShape ==
    ASSUME TypeOK, NEW w \in Writer, LoadFails(w)
    PROVE  Quiet
<1>1. at'[w] = "failed" /\ \A v \in Writer \cup Deleter : v # w => at'[v] = at[v]
  BY MoveAt, Zenon DEF LoadFails
<1>2. Firsts
  BY DEF LoadFails, Noted, Firsts, TypeOK
<1>3. UNCHANGED <<row, rev, answered, late, stage, attempt, put>>
  BY DEF LoadFails
<1> QED BY <1>1, <1>2, <1>3, MoveQuiet, OutHas DEF Sending

(* The answer to a push.                                                   *)
LEMMA AcceptedShape ==
    ASSUME TypeOK, Stages, NEW w \in Writer, Accepted(w)
    PROVE  Quiet \/ \E p : Writes(p)
<1> DEFINE p == put[w]
<1>1. /\ at[w] = "push"
      /\ PutBlob(p)
      /\ put' = [put EXCEPT ![w] = None]
      /\ UNCHANGED <<late, stage, attempt, first>>
  BY DEF Accepted
<1>2. /\ at'[w] \in {"saved", "over"}
      /\ \A v \in Writer \cup Deleter : v # w => at'[v] = at[v]
  <2> DEFINE to == Pushed(w)
  <2>1. at' = [at EXCEPT ![w] = to] /\ to \in {"saved", "over"}
    BY DEF Accepted, Pushed
  <2> HIDE DEF to
  <2> QED BY <2>1, MoveAt, Zenon
<1>3. p \in Out /\ late \subseteq Out
  BY <1>1, OutHas DEF Sending
<1>4. \A v \in Writer : v # w => put'[v] = put[v]
  BY <1>1, MovePut
<1> HIDE DEF p
<1>5. Out' \subseteq Out
  BY <1>1, <1>2, <1>3, <1>4, OutShrinks DEF Sending
<1>6. Same /\ Deleting' = Deleting
  BY <1>1, <1>2, MoveDeleting DEF Same
<1> QED BY <1>1, <1>3, <1>5, <1>6, PutShapes

(* A conflict gives up or reads the row again.                             *)
LEMMA ConflictedShape ==
    ASSUME TypeOK, Stages, NEW w \in Writer, Conflicted(w)
    PROVE  Quiet \/ Retries(w)
<1>1. /\ at[w] = "push"
      /\ put[w].key \notin answered /\ ~Matches(put[w])
      /\ put' = [put EXCEPT ![w] = None]
      /\ UNCHANGED <<row, rev, answered, late, stage, first>>
  BY DEF Conflicted, Outcome
<1>2. \A v \in Writer : v # w => put'[v] = put[v]
  BY <1>1, MovePut
<1>3. late \subseteq Out
  BY OutHas
<1>4. CASE attempt[w] < MaxCommitAttempts
  <2>1. /\ at' = [at EXCEPT ![w] = "load"]
        /\ attempt' = [attempt EXCEPT ![w] = @ + 1]
    BY <1>4 DEF Conflicted
  <2>2. at'[w] = "load" /\ \A v \in Writer \cup Deleter : v # w => at'[v] = at[v]
    BY <2>1, MoveAt, Zenon
  <2>3. /\ attempt'[w] = attempt[w] + 1
        /\ \A v \in Writer \ {w} : attempt'[v] = attempt[v]
    BY <2>1 DEF TypeOK
  <2>4. Out' \subseteq Out
    BY <1>1, <1>2, <1>3, <2>2, OutShrinks DEF Sending
  <2>5. Deleting' = Deleting
    BY <2>2, MoveDeleting
  <2> QED BY <1>1, <2>2, <2>3, <2>4, <2>5 DEF Retries
<1>5. CASE ~(attempt[w] < MaxCommitAttempts)
  <2>1. at' = [at EXCEPT ![w] = "failed"] /\ attempt' = attempt
    BY <1>5 DEF Conflicted
  <2>2. at'[w] = "failed" /\ \A v \in Writer \cup Deleter : v # w => at'[v] = at[v]
    BY <2>1, MoveAt, Zenon
  <2> QED BY <1>1, <1>2, <1>3, <2>1, <2>2, MoveQuiet DEF Sending, Firsts
<1> QED BY <1>4, <1>5

(* A push given up on changes no row in that step.                         *)
LEMMA GivenUpShape ==
    ASSUME TypeOK, Stages, NEW w \in Writer, Rejected(w) \/ Unknown(w)
    PROVE  Quiet
<1>1. at'[w] = "failed" /\ \A v \in Writer \cup Deleter : v # w => at'[v] = at[v]
  BY MoveAt DEF Rejected, Unknown
<1>2. \A v \in Writer : v # w => put'[v] = put[v]
  BY MovePut DEF Rejected, Unknown
<1>3. late' \subseteq Out
  BY OutHas DEF Rejected, Unknown, Sending
<1>4. UNCHANGED <<row, rev, answered, stage, attempt, first>>
  BY DEF Rejected, Unknown
<1> QED BY <1>1, <1>2, <1>3, <1>4, MoveQuiet DEF Sending, Firsts

(* The client's retry leaves one more copy of the same push out.           *)
LEMMA ResendShape ==
    ASSUME NEW w \in Writer, Resend(w)
    PROVE  Quiet
<1>1. /\ at[w] = "push" /\ late' = late \cup {put[w]}
      /\ UNCHANGED <<row, rev, answered, at, stage, attempt, put, first>>
  BY DEF Resend
<1>2. Out' \subseteq Out
  BY <1>1, OutHas, OutShrinks DEF Sending
<1> QED BY <1>1, <1>2 DEF Quiet, Same, Firsts, Deleting

(* A run's own steps touch nothing shared, or start its commit.            *)
LEMMA RunShapes ==
    ASSUME TypeOK, Stages, NEW r \in Run, RunStep(r)
    PROVE  Quiet \/ Finishes(r)
<1>0. late \subseteq Out /\ r \in Writer
  BY OutHas DEF Writer
<1>1. CASE AlreadyApplied(r)
  <2>1. Firsts
    BY <1>1 DEF AlreadyApplied, Noted, Firsts, TypeOK
  <2>2. at'[r] = "already" /\ \A v \in Writer \cup Deleter : v # r => at'[v] = at[v]
    BY <1>0, <1>1, MoveAt, Zenon DEF AlreadyApplied
  <2>3. UNCHANGED <<row, rev, answered, late, stage, attempt, put>>
    BY <1>1 DEF AlreadyApplied
  <2> QED BY <1>0, <2>1, <2>2, <2>3, MoveQuiet DEF Sending
<1>2. CASE Check(r)
  <2>1. /\ UNCHANGED <<row, rev, answered, late, stage, attempt, first>>
        /\ at[r] = "check"
    BY <1>2 DEF Check
  <2>2. CASE at' = [at EXCEPT ![r] = "failed"] /\ put' = [put EXCEPT ![r] = None]
    <3>1. at'[r] = "failed" /\ \A v \in Writer \cup Deleter : v # r => at'[v] = at[v]
      BY <1>0, <2>2, MoveAt, Zenon
    <3>2. \A v \in Writer : v # r => put'[v] = put[v]
      BY <1>0, <2>2, MovePut
    <3> QED BY <1>0, <2>1, <3>1, <3>2, MoveQuiet DEF Sending, Firsts
  <2>3. CASE at' = [at EXCEPT ![r] = "push"] /\ put' = put
    <3>1. at'[r] = "push" /\ \A v \in Writer \cup Deleter : v # r => at'[v] = at[v]
      BY <1>0, <2>3, MoveAt, Zenon
    <3> QED BY <1>0, <2>1, <2>3, <3>1, MoveQuiet DEF Sending, Firsts
  <2> QED BY <1>2, <2>2, <2>3 DEF Check
<1>3. CASE Start(r) \/ StartRefused(r)
  <2>1. /\ at'[r] \in {"running", "failed"}
        /\ \A v \in Writer \cup Deleter : v # r => at'[v] = at[v]
    BY <1>0, <1>3, MoveAt DEF Start, StartRefused
  <2>2. UNCHANGED <<row, rev, answered, late, stage, attempt, put, first>>
    BY <1>3 DEF Start, StartRefused
  <2> QED BY <1>0, <2>1, <2>2, MoveQuiet DEF Sending, Firsts
<1>4. CASE Finish(r)
  <2>1. /\ at[r] = "running"
        /\ UNCHANGED <<row, rev, answered, late, put, first>>
    BY <1>4 DEF Finish
  <2>2. CASE at' = [at EXCEPT ![r] = "skipped"] /\ UNCHANGED <<stage, attempt>>
    <3>1. at'[r] = "skipped" /\ \A v \in Writer \cup Deleter : v # r => at'[v] = at[v]
      BY <1>0, <2>2, MoveAt, Zenon
    <3> QED BY <1>0, <2>1, <2>2, <3>1, MoveQuiet DEF Sending, Firsts
  <2>3. CASE /\ at' = [at EXCEPT ![r] = "load"]
             /\ stage' = [stage EXCEPT ![r] = "finish"]
             /\ attempt' = [attempt EXCEPT ![r] = 1]
    <3>1. at'[r] = "load" /\ \A v \in Writer \cup Deleter : v # r => at'[v] = at[v]
      BY <1>0, <2>3, MoveAt, Zenon
    <3>2. /\ stage'[r] = "finish"
          /\ \A v \in Writer \ {r} : stage'[v] = stage[v] /\ attempt'[v] = attempt[v]
      BY <1>0, <2>3 DEF TypeOK
    <3>3. Out' \subseteq Out
      BY <1>0, <2>1, <3>1, OutShrinks DEF Sending
    <3>4. Deleting' = Deleting
      BY <1>0, <3>1, MoveDeleting
    <3> QED BY <2>1, <3>1, <3>2, <3>3, <3>4 DEF Finishes
  <2> QED BY <1>4, <2>2, <2>3 DEF Finish
<1> QED BY <1>1, <1>2, <1>3, <1>4 DEF RunStep

(* A deletion's steps touch nothing shared, or take the row.               *)
LEMMA DeletionShapes ==
    ASSUME TypeOK, Stages, NEW d \in Deleter, StopThread(d) \/ DeleteStep(d)
    PROVE  Quiet \/ Removes
<1>1. /\ at'[d] # "idle"
      /\ \A v \in Writer \cup Deleter : v # d => at'[v] = at[v]
  BY MoveAt DEF StopThread, DeleteStep, RemoveReads, RemoveRow, RemoveConflicts,
     RemoveFails
<1>2. /\ \A v \in Writer : put'[v] = put[v] /\ attempt'[v] = attempt[v]
      /\ UNCHANGED <<late, stage, first, rev, answered>>
  BY StoreAssumption, Zenon DEF StopThread, DeleteStep, RemoveReads, RemoveRow,
     RemoveConflicts, RemoveFails, Writer, Stages, TypeOK
<1>3. Same /\ first' = first /\ Out' \subseteq Out /\ Deleting'
  BY <1>1, <1>2, MoveDeletion
<1>4. CASE row' = row
  BY <1>2, <1>3, <1>4 DEF Quiet, Firsts
<1>5. CASE row' # row
  <2>1. row # None /\ row' = None /\ at[d] # "idle"
    BY <1>5 DEF StopThread, DeleteStep, RemoveReads, RemoveRow, RemoveConflicts,
       RemoveFails, Removable
  <2> QED BY <1>2, <1>3, <2>1 DEF Removes, Deleting
<1> QED BY <1>4, <1>5

(* A crashed replica leaves behind only the pushes it had sent.            *)
LEMMA CrashShapes ==
    ASSUME TypeOK, Stages, NEW i \in Instance, Crash(i)
    PROVE  Quiet
<1> DEFINE dead == {r \in Run : On[r] = i /\ Busy(r)}
<1>1. /\ at' = [w \in DOMAIN at |-> IF w \in dead THEN "crashed" ELSE at[w]]
      /\ late' = late \cup {put[r] : r \in {w \in dead : at[w] = "push"}}
      /\ put' = [w \in DOMAIN put |-> IF w \in dead THEN None ELSE put[w]]
      /\ UNCHANGED <<row, rev, answered, stage, attempt, first>>
      /\ dead \subseteq Run
  BY DEF Crash
<1> HIDE DEF dead
<1>2. DOMAIN at = Writer \cup Deleter /\ DOMAIN put = Writer \cup Deleter
  BY DEF TypeOK, Stages
<1>3. late' \subseteq Out
  BY <1>1, OutHas DEF Sending, Writer
<1>4. \A w \in Writer : at'[w] \in Sending => at[w] \in Sending /\ put'[w] = put[w]
  BY <1>1, <1>2 DEF Sending
<1>5. Out' \subseteq Out
  BY <1>3, <1>4, OutShrinks
<1>6. Same /\ Firsts
  BY <1>1, <1>2 DEF Same, Firsts
<1>7. \A d \in Deleter : at'[d] = at[d]
  BY <1>1, <1>2, StoreAssumption
<1> QED BY <1>1, <1>5, <1>6, <1>7 DEF Quiet, Deleting

(* Every step has one of these shapes.                                     *)
LEMMA Shapes ==
    ASSUME TypeOK, Stages, [Next]_vars
    PROVE  \/ Quiet \/ Removes \/ \E p : Writes(p)
           \/ \E w \in Writer : Retries(w) \/ \E p : Loads(w, p)
           \/ \E r \in Run : Finishes(r)
<1>1. CASE UNCHANGED vars
  BY <1>1 DEF vars, Quiet, Same, Firsts, Out, Deleting
<1>2. ASSUME NEW p \in late, Arrive(p) PROVE Quiet \/ Writes(p)
  <2>1. p \in Out /\ late' \subseteq Out /\ PutBlob(p)
    BY <1>2, OutHas DEF Arrive
  <2>2. Out' \subseteq Out
    BY <1>2, <2>1, OutShrinks DEF Arrive
  <2>3. Same /\ first' = first /\ Deleting' = Deleting
    BY <1>2 DEF Arrive, Same, Deleting
  <2> QED BY <2>1, <2>2, <2>3, PutShapes
<1>3. ASSUME NEW w \in Writer, Begin(w) \/ Commit(w)
      PROVE  Quiet \/ (\E p : Writes(p)) \/ Retries(w) \/ \E p : Loads(w, p)
  BY <1>3, BeginShape, LoadShape, LoadFailsShape, AcceptedShape, ConflictedShape,
     GivenUpShape, ResendShape DEF Commit
<1> QED BY <1>1, <1>2, <1>3, RunShapes, DeletionShapes, CrashShapes DEF Next
=============================================================================
