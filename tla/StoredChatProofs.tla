-------------------------- MODULE StoredChatProofs --------------------------
(***************************************************************************)
(* The theorems of StoredChat: its invariant is inductive, and the stored  *)
(* chat is the atomic one of AtomicChat, for every set of runs, edits,     *)
(* deletions and instances, and any bounds on reads and sends.             *)
(***************************************************************************)
EXTENDS StoredChatInvariant

(* The pushes that are out, and their keys, have their type.               *)
LEMMA OutTyped ==
    ASSUME TypeOK
    PROVE  \A p \in Out : /\ p \in Put
                          /\ p.key \in PutKey
                          /\ p.key.by \in Writer
                          /\ p.key.attempt \in Nat
                          /\ p.match \in Nat
                          /\ p.chat \in Thread
<1>1. \A p \in Out : p \in Put
  BY DEF Out, TypeOK, Sending
<1> QED BY <1>1 DEF Put, PutKey

(* A change that is made is made to the chat as it is stored, by a writer  *)
(* that is still at it, or that creates the chat.                          *)
LEMMA WriteIs ==
    ASSUME Inv, NEW p, Writes(p)
    PROVE  /\ p \in Put
           /\ p.key.stage = "edit" <=> p.key.by \in Editor
           /\ Read.chat \in Thread /\ IsInjective(Read.chat.msgs)
           /\ p.chat = Change(p.key, Read.chat)
           /\ Fits(p.key, Read.chat)
           /\ row = None => /\ p.key.stage = "launch"
                            /\ p.key.by \in Run
                            /\ first[p.key.by] = "missing"
           /\ row # None => Current(p.key)
<1>1. p \in Out /\ p.key \notin answered /\ Matches(p)
  BY DEF Writes
<1>2. p \in Put /\ p.key \in PutKey /\ p.key.by \in Writer
  BY <1>1, OutTyped DEF Inv
<1>3. ReadFrom(p) /\ (p.key.stage = "edit" <=> p.key.by \in Editor)
  BY <1>1 DEF Inv, Agreed, Reads, DrawnOnce, Drawn
<1>4. CASE row = None
  <2>1. /\ p.match = 0
        /\ Read.chat = newThread
    BY <1>1, <1>4 DEF Matches, Read
  <2>2. /\ p.key.stage = "launch"
        /\ first[p.key.by] = "missing"
        /\ p.chat = Asked(p.key.by, newThread)
        /\ Fits(p.key, newThread)
    BY <1>3, <2>1 DEF ReadFrom
  <2>3. p.key.by \in Run
    BY <1>2, <1>3, <2>2 DEF Writer
  <2>4. p.chat = Change(p.key, newThread)
    BY <2>2 DEF Change
  <2> QED BY <1>2, <1>3, <1>4, <2>1, <2>2, <2>3, <2>4, NewChat
<1>5. CASE row # None
  <2>1. /\ p.match = row.rev
        /\ Read = row
        /\ row.rev # 0
        /\ row.chat \in Thread
        /\ IsInjective(row.chat.msgs)
    BY <1>1, <1>5 DEF Matches, Read, Inv, TypeOK, MessagesOnce
  <2>2. p.chat = Change(p.key, row.chat) /\ Fits(p.key, row.chat)
    BY <1>3, <1>5, <2>1 DEF ReadFrom
  <2>3. Current(p.key)
    BY <1>1, <2>1 DEF Inv, Agreed, Spent
  <2> QED BY <1>2, <1>3, <1>5, <2>1, <2>2, <2>3
<1> QED BY <1>4, <1>5

-----------------------------------------------------------------------------
(* Keys.                                                                   *)

(* A key that was drawn stays drawn.                                       *)
LEMMA DrawnStays ==
    ASSUME TypeOK, Stages, NEW k \in PutKey, Drawn(k),
           \/ Same
           \/ \E w \in Writer : Retries(w)
           \/ \E r \in Run : Finishes(r)
    PROVE  Drawn(k)'
<1>1. /\ k.by \in Writer /\ k.attempt \in Nat
      /\ attempt[k.by] \in Nat
  BY DEF PutKey, TypeOK
<1>2. CASE Same
  BY <1>1, <1>2 DEF Same, Drawn
<1>3. ASSUME NEW w \in Writer, Retries(w) PROVE Drawn(k)'
  <2>1. CASE k.by = w
    BY <1>1, <1>3, <2>1 DEF Retries, Drawn
  <2>2. CASE k.by # w
    BY <1>1, <1>3, <2>2 DEF Retries, Drawn
  <2> QED BY <2>1, <2>2
<1>4. ASSUME NEW r \in Run, Finishes(r) PROVE Drawn(k)'
  <2>1. CASE k.by = r
    <3>1. stage[r] = "launch"
      BY <1>4 DEF Finishes, Stages, Writer
    <3> QED BY <1>4, <2>1, <3>1 DEF Finishes, Drawn
  <2>2. CASE k.by # r
    BY <1>1, <1>4, <2>2 DEF Finishes, Drawn
  <2> QED BY <2>1, <2>2
<1> QED BY <1>2, <1>3, <1>4

(* Each step's own facts about the keys.                                   *)
LEMMA DrawnOnceNext ==
    ASSUME Inv, [Next]_vars
    PROVE  DrawnOnce'
<1>1. /\ TypeOK /\ Stages /\ DrawnOnce
      /\ answered \subseteq PutKey
      /\ \A p \in Out : p.key \in PutKey
  BY OutTyped DEF Inv, Agreed, TypeOK
<1>2. ASSUME \/ Same
             \/ \E w \in Writer : Retries(w)
             \/ \E r \in Run : Finishes(r),
             Out' \subseteq Out,
             \/ answered' = answered
             \/ \E p \in Out : answered' = answered \cup {p.key}
      PROVE  DrawnOnce'
  <2>1. \A k \in answered : Drawn(k)'
    BY <1>1, <1>2, DrawnStays DEF DrawnOnce
  <2>2. \A p \in Out : Drawn(p.key)'
    BY <1>1, <1>2, DrawnStays DEF DrawnOnce
  <2> QED BY <1>1, <1>2, <2>1, <2>2 DEF DrawnOnce
<1>3. CASE Quiet \/ Removes
  BY <1>2, <1>3 DEF Quiet, Removes
<1>4. ASSUME NEW p, Writes(p) PROVE DrawnOnce'
  BY <1>2, <1>4 DEF Writes
<1>5. ASSUME NEW w \in Writer, Retries(w) PROVE DrawnOnce'
  BY <1>2, <1>5 DEF Retries
<1>6. ASSUME NEW r \in Run, Finishes(r) PROVE DrawnOnce'
  BY <1>2, <1>6 DEF Finishes
<1>7. ASSUME NEW w \in Writer, NEW p, Loads(w, p) PROVE DrawnOnce'
  <2>1. /\ Same /\ Out' \subseteq Out \cup {p} /\ answered' = answered
        /\ p.key = KeyOf(w) /\ at[w] = "load" /\ at'[w] \notin {"idle", "load"}
    BY <1>7 DEF Loads
  <2>2. /\ \A k \in answered : Drawn(k)'
        /\ \A q \in Out : Drawn(q.key)'
    BY <1>1, <2>1, DrawnStays DEF DrawnOnce
  <2>3. Drawn(p.key)'
    BY <1>1, <2>1 DEF Drawn, KeyOf, Same, Stages, Writer
  <2>4. ~Drawn(KeyOf(w))
    BY <1>1, <2>1 DEF Drawn, KeyOf, TypeOK
  <2>5. \A q \in Out : q.key # KeyOf(w)
    BY <1>1, <2>4 DEF DrawnOnce
  <2>6. \A q \in Out' : Drawn(q.key)'
    BY <2>1, <2>2, <2>3
  <2>7. \A q, o \in Out' : q.key = o.key => q = o
    BY <1>1, <2>1, <2>5 DEF DrawnOnce
  <2> QED BY <2>1, <2>2, <2>6, <2>7 DEF DrawnOnce
<1> QED BY <1>1, <1>3, <1>4, <1>5, <1>6, <1>7, Shapes

-----------------------------------------------------------------------------
(* Pushes.                                                                 *)

(* A push still holds its change to the chat it was read from.             *)
LEMMA ReadsNext ==
    ASSUME Inv, [Next]_vars
    PROVE  Reads'
<1>1. /\ TypeOK /\ Stages
      /\ rev \in Nat
      /\ \A p \in Out : /\ ReadFrom(p) /\ Drawn(p.key) /\ p.match \in Nat
                        /\ p.key.by \in Writer /\ p.key.attempt \in Nat
  BY OutTyped DEF Inv, Agreed, TypeOK, Reads, DrawnOnce
<1>2. ASSUME NEW p \in Out, Firsts, p.match = 0
      PROVE  first'[p.key.by] = first[p.key.by]
  <2>1. p.key.stage = "launch" /\ p.key.attempt = 1
    BY <1>1, <1>2 DEF ReadFrom
  <2>2. p.key.by \in Run
    BY <1>1, <2>1 DEF Drawn, Writer
  <2>3. /\ attempt[p.key.by] \in Nat \ {0}
        /\ ~(attempt[p.key.by] < 1)
    BY <1>1 DEF TypeOK
  <2>4. ~(/\ at[p.key.by] = "load" /\ stage[p.key.by] = "launch"
          /\ attempt[p.key.by] = 1)
    BY <1>1, <2>1, <2>3 DEF Drawn
  <2> QED BY <1>2, <2>2, <2>4 DEF Firsts
<1>3. ASSUME Firsts, NEW p \in Out, UNCHANGED <<row, rev>>
      PROVE  ReadFrom(p)'
  BY <1>1, <1>2, <1>3 DEF ReadFrom
<1>4. CASE Quiet
  BY <1>3, <1>4 DEF Quiet, Reads
<1>5. CASE Removes
  BY <1>1, <1>5 DEF Removes, Reads, ReadFrom
<1>6. ASSUME NEW p, Writes(p) PROVE Reads'
  <2>1. \A q \in Out : /\ q.match <= rev'
                       /\ row'.rev # q.match
                       /\ q.match = 0 => first'[q.key.by] = first[q.key.by]
    BY <1>1, <1>6 DEF Writes, ReadFrom
  <2> QED BY <1>1, <1>6, <2>1 DEF Writes, Reads, ReadFrom
<1>7. ASSUME NEW w \in Writer, Retries(w) PROVE Reads'
  BY <1>3, <1>7 DEF Retries, Reads, Firsts
<1>8. ASSUME NEW r \in Run, Finishes(r) PROVE Reads'
  BY <1>3, <1>8 DEF Finishes, Reads, Firsts
<1>9. ASSUME NEW w \in Writer, NEW p, Loads(w, p) PROVE Reads'
  <2>1. /\ Firsts /\ Out' \subseteq Out \cup {p} /\ UNCHANGED <<row, rev>>
        /\ row = None => MayCreate(w) /\ first'[w] = "missing"
        /\ p.key = KeyOf(w) /\ p.match = Read.rev
        /\ p.chat = Change(KeyOf(w), Read.chat) /\ Fits(KeyOf(w), Read.chat)
    BY <1>9 DEF Loads
  <2>2. \A q \in Out : ReadFrom(q)'
    BY <1>3, <2>1
  <2>3. ReadFrom(p)'
    <3>1. CASE row = None
      <4>1. /\ Read.rev = 0 /\ Read.chat = newThread
            /\ KeyOf(w).stage = "launch" /\ KeyOf(w).attempt = 1 /\ KeyOf(w).by = w
        BY <2>1, <3>1 DEF Read, MayCreate, KeyOf
      <4>2. Change(KeyOf(w), newThread) = Asked(w, newThread)
        BY <4>1 DEF Change
      <4> QED BY <1>1, <2>1, <3>1, <4>1, <4>2 DEF ReadFrom
    <3>2. CASE row # None
      <4>1. Read = row /\ row.rev \in 1 .. rev
        BY <1>1, <3>2 DEF Read, TypeOK
      <4>2. p.match = row.rev /\ p.match # 0 /\ p.match <= rev
        BY <1>1, <2>1, <4>1
      <4> QED BY <2>1, <4>1, <4>2 DEF ReadFrom
    <3> QED BY <3>1, <3>2
  <2> QED BY <2>1, <2>2, <2>3 DEF Reads
<1> QED BY <1>1, <1>4, <1>5, <1>6, <1>7, <1>8, <1>9, Shapes

(* A push whose writer has moved on can no longer be made, but for one     *)
(* that creates a deleted chat.                                            *)
LEMMA SpentNext ==
    ASSUME Inv, [Next]_vars
    PROVE  Spent'
<1>1. /\ TypeOK /\ Stages /\ DrawnOnce /\ Spent
      /\ rev \in Nat
      /\ \A p \in Out : /\ p.match <= rev /\ p.match \in Nat
                        /\ p.key \in PutKey /\ p.key.by \in Writer
                        /\ Drawn(p.key)
  BY OutTyped DEF Inv, Agreed, TypeOK, Reads, ReadFrom, DrawnOnce
<1>2. ASSUME Same, UNCHANGED <<row, answered>>, Deleting => Deleting',
             NEW p \in Out
      PROVE  \/ p.key \in answered' \/ Current(p.key)' \/ ~Matches(p)'
             \/ Deleting' /\ p.match = 0
  BY <1>1, <1>2 DEF Spent, Same, Current, Matches
<1>3. CASE Quiet
  BY <1>2, <1>3 DEF Quiet, Spent
<1>4. CASE Removes
  BY <1>1, <1>4 DEF Removes, Spent, Matches
<1>5. ASSUME NEW p, Writes(p) PROVE Spent'
  <2>1. row' = [rev |-> rev + 1, chat |-> p.chat] /\ p.chat \in Thread
    BY <1>1, <1>5, OutTyped DEF Writes
  <2>2. row' # None
    BY <1>1, <2>1, StoreAssumption
  <2>3. \A q \in Out : row'.rev # q.match
    BY <1>1, <2>1
  <2> QED BY <1>5, <2>2, <2>3 DEF Writes, Spent, Matches
<1>6. ASSUME NEW w \in Writer, Retries(w) PROVE Spent'
  <2>1. put[w] \in Out /\ put[w].key = KeyOf(w) /\ ~Matches(put[w])
    BY <1>6, OutHas DEF Retries, Sending, Inv, Agreed, Mine
  <2>2. ASSUME NEW p \in Out, Current(p.key), p.key.by = w PROVE ~Matches(p)
    <3>1. p.key = KeyOf(w)
      BY <1>1, <2>2 DEF Current, KeyOf, Drawn, PutKey
    <3> QED BY <1>1, <2>1, <3>1 DEF DrawnOnce
  <2>3. \A p \in Out : p.key.by # w => (Current(p.key)' <=> Current(p.key))
    BY <1>1, <1>6 DEF Retries, Current
  <2> QED BY <1>1, <1>6, <2>2, <2>3 DEF Retries, Spent, Matches
<1>7. ASSUME NEW r \in Run, Finishes(r) PROVE Spent'
  <2>1. KeyOf(r) \in answered /\ r \in Writer
    BY <1>7 DEF Finishes, Inv, Agreed, Made, Writer
  <2>2. ASSUME NEW p \in Out, Current(p.key), p.key.by = r PROVE p.key \in answered
    <3>1. p.key = KeyOf(r)
      BY <1>1, <2>2 DEF Current, KeyOf, Drawn, PutKey
    <3> QED BY <2>1, <3>1
  <2>3. \A p \in Out : p.key.by # r => (Current(p.key)' <=> Current(p.key))
    BY <1>1, <1>7 DEF Finishes, Current
  <2> QED BY <1>1, <1>7, <2>2, <2>3 DEF Finishes, Spent, Matches
<1>8. ASSUME NEW w \in Writer, NEW p, Loads(w, p) PROVE Spent'
  <2>1. /\ Same /\ Out' \subseteq Out \cup {p} /\ UNCHANGED <<row, answered>>
        /\ Deleting' = Deleting /\ p.key = KeyOf(w)
    BY <1>8 DEF Loads
  <2>2. Current(p.key)'
    BY <2>1 DEF Current, KeyOf, Same
  <2> QED BY <1>2, <2>1, <2>2 DEF Spent
<1> QED BY <1>1, <1>3, <1>4, <1>5, <1>6, <1>7, <1>8, Shapes

(* A change that was made is its writer's last of that stage.              *)
LEMMA AnsweredNext ==
    ASSUME Inv, [Next]_vars
    PROVE  Answered'
<1>1. /\ TypeOK /\ Stages /\ Answered
      /\ \A k \in answered : k \in PutKey /\ k.by \in Writer /\ Drawn(k)
  BY DEF Inv, Agreed, TypeOK, PutKey, DrawnOnce
<1>2. ASSUME Same, Deleting => Deleting', NEW k \in answered
      PROVE  \/ Current(k)'
             \/ k.stage = "launch" /\ (stage'[k.by] = "finish" \/ Deleting')
  BY <1>1, <1>2 DEF Answered, Same, Current
<1>3. CASE Quiet \/ Removes
  BY <1>2, <1>3 DEF Quiet, Removes, Answered
<1>4. ASSUME NEW p, Writes(p) PROVE Answered'
  <2>1. /\ Same /\ Deleting' = Deleting /\ answered' = answered \cup {p.key}
        /\ p \in Out /\ p.key \notin answered /\ Matches(p)
    BY <1>4 DEF Writes
  <2>2. p.key.by \in Writer
    BY <1>1, <2>1, OutTyped
  <2>3. Current(p.key) \/ (Deleting /\ p.key.stage = "launch")
    <3>1. ReadFrom(p) /\ (Current(p.key) \/ (Deleting /\ p.match = 0))
      BY <2>1 DEF Inv, Agreed, Spent, Reads
    <3> QED BY <3>1 DEF ReadFrom
  <2>4. Current(p.key)' \/ (Deleting' /\ p.key.stage = "launch")
    BY <2>1, <2>2, <2>3 DEF Current, Same
  <2> QED BY <1>2, <2>1, <2>4 DEF Answered
<1>5. ASSUME NEW w \in Writer, Retries(w) PROVE Answered'
  <2>1. KeyOf(w) \notin answered
    BY <1>5 DEF Retries, Sending, Inv, Agreed, Mine
  <2>2. ASSUME NEW k \in answered, Current(k), k.by = w PROVE FALSE
    <3>1. k = KeyOf(w)
      BY <1>1, <2>2 DEF Current, KeyOf, Drawn, PutKey
    <3> QED BY <2>1, <3>1
  <2>3. \A k \in answered : k.by # w => (Current(k)' <=> Current(k))
    BY <1>1, <1>5 DEF Retries, Current
  <2> QED BY <1>1, <1>5, <2>2, <2>3 DEF Retries, Answered
<1>6. ASSUME NEW r \in Run, Finishes(r) PROVE Answered'
  <2>1. stage[r] = "launch" /\ stage'[r] = "finish"
    BY <1>1, <1>6 DEF Finishes, Stages, Writer
  <2>2. ASSUME NEW k \in answered
        PROVE  \/ Current(k)'
               \/ k.stage = "launch" /\ (stage'[k.by] = "finish" \/ Deleting')
    <3>1. CASE k.by = r
      BY <1>1, <2>1, <3>1 DEF Answered, Current
    <3>2. CASE k.by # r
      BY <1>1, <1>6, <3>2 DEF Answered, Current, Finishes
    <3> QED BY <3>1, <3>2
  <2> QED BY <1>6, <2>2 DEF Finishes, Answered
<1>7. ASSUME NEW w \in Writer, NEW p, Loads(w, p) PROVE Answered'
  BY <1>2, <1>7 DEF Loads, Answered
<1> QED BY <1>1, <1>3, <1>4, <1>5, <1>6, <1>7, Shapes

-----------------------------------------------------------------------------
(* The row.                                                                *)

(* A step leaves the row, removes it as was asked, or makes a change.      *)
LEMMA RowSteps ==
    ASSUME TypeOK, Stages, [Next]_vars
    PROVE  /\ \/ UNCHANGED <<row, rev, answered>>
              \/ /\ row # None /\ row' = None /\ Deleting /\ Deleting'
                 /\ UNCHANGED <<rev, answered>>
              \/ \E p : Writes(p)
           /\ Deleting => Deleting'
<1>1. ASSUME Quiet \/ Removes \/ \E p : Writes(p)
      PROVE  Deleting => Deleting'
  BY <1>1, Zenon DEF Quiet, Removes, Writes
<1>2. ASSUME Quiet \/ Removes
      PROVE  \/ UNCHANGED <<row, rev, answered>>
             \/ /\ row # None /\ row' = None /\ Deleting /\ Deleting'
                /\ UNCHANGED <<rev, answered>>
  BY <1>2 DEF Quiet, Removes
<1>3. ASSUME NEW w \in Writer, Retries(w) \/ \E p : Loads(w, p)
      PROVE  UNCHANGED <<row, rev, answered>> /\ Deleting' = Deleting
  BY <1>3 DEF Retries, Loads
<1>4. ASSUME NEW r \in Run, Finishes(r)
      PROVE  UNCHANGED <<row, rev, answered>> /\ Deleting' = Deleting
  BY <1>4 DEF Finishes
<1> QED BY <1>1, <1>2, <1>3, <1>4, Shapes

(* A change leaves a sound chat, and what it adds was made under a key.    *)
LEMMA WriteSound ==
    ASSUME Inv, NEW p, Writes(p)
    PROVE  /\ row' # None
           /\ row'.rev \in 1 .. rev' /\ rev' \in Nat
           /\ row'.chat \in Thread
           /\ answered' \subseteq PutKey
           /\ (MessagesOnce /\ MarkerGoes /\ Kept /\ LastAsked)'
<1> DEFINE k      == p.key
           before == Read.chat
           after  == p.chat
<1>1. /\ row' = [rev |-> rev + 1, chat |-> after]
      /\ rev' = rev + 1
      /\ answered' = answered \cup {k}
      /\ rev \in Nat /\ answered \subseteq PutKey
  BY DEF Writes, Inv, TypeOK
<1>2. /\ k \in PutKey /\ (k.stage = "edit" <=> k.by \in Editor)
      /\ before \in Thread /\ IsInjective(before.msgs)
      /\ after = Change(k, before)
      /\ Fits(k, before)
  BY WriteIs DEF Put
<1>3. after \in Thread /\ IsInjective(after.msgs)
  BY <1>2, ChangeOnce
<1>4. /\ \A r \in Run : \A s \in {"launch", "finish"} :
            <<r, s>> \in before.by => MadeBy(r, s)
      /\ \A w \in before.edits : MadeBy(w, "edit")
      /\ \A r \in Run : <<r, "finish">> \in before.by => before.active # r
      /\ before.last # None =>
            \E o \in Run : Turn[o].nonce = before.last /\ <<o, "launch">> \in before.by
  <2>1. CASE row = None
    BY <2>1 DEF Read, newThread
  <2>2. CASE row # None
    BY <2>2 DEF Read, Inv, Agreed, Kept, MarkerGoes, LastAsked
  <2> QED BY <2>1, <2>2
<1>5. ASSUME k.stage = "launch", <<k.by, "finish">> \in before.by, k.by \in Run
      PROVE  FALSE
  <2>1. row # None
    BY <1>5 DEF Read, newThread
  <2>2. Current(k)
    BY <2>1, WriteIs
  <2>3. PICK m \in answered : m.by = k.by /\ m.stage = "finish"
    BY <1>4, <1>5, Zenon DEF MadeBy
  <2>4. stage[k.by] = "finish"
    BY <2>3 DEF Inv, Agreed, Answered, Current
  <2> QED BY <1>5, <2>2, <2>4 DEF Current
<1> HIDE DEF k, before, after
<1>6. /\ row' # None
      /\ row'.rev \in 1 .. rev' /\ rev' \in Nat
      /\ row'.chat = after
      /\ answered' \subseteq PutKey
  <2>1. row' # None
    BY <1>1, <1>3, StoreAssumption
  <2>2. row'.rev = rev + 1 /\ row'.chat = after
    BY <1>1
  <2> QED BY <1>1, <1>2, <2>1, <2>2
<1>7. /\ \A w, s : MadeBy(w, s) => MadeBy(w, s)'
      /\ MadeBy(k.by, k.stage)'
  BY <1>1 DEF MadeBy
<1>8. CASE k.stage = "launch"
  <2>1. /\ k.by \in Run
        /\ after.last = Turn[k.by].nonce
        /\ after.active = k.by
        /\ after.edits = before.edits
        /\ after.by = before.by \cup {<<k.by, "launch">>}
    BY <1>2, <1>8, ChangeIs, AskedIs
  <2>2. \A r \in Run : <<r, "finish">> \in after.by => after.active # r
    BY <1>5, <1>8, <2>1
  <2>3. \A r \in Run : \A s \in {"launch", "finish"} :
            <<r, s>> \in after.by => MadeBy(r, s)'
    BY <1>4, <1>7, <1>8, <2>1, Zenon
  <2>4. \A w \in after.edits : MadeBy(w, "edit")'
    BY <1>4, <1>7, <2>1
  <2> QED BY <1>3, <1>6, <2>1, <2>2, <2>3, <2>4
          DEF MessagesOnce, MarkerGoes, Kept, LastAsked
<1>9. CASE k.stage = "finish"
  <2>1. /\ k.by \in Run
        /\ after.last = before.last
        /\ after.active = IF before.active = k.by THEN None ELSE before.active
        /\ after.edits = before.edits
        /\ after.by = before.by \cup {<<k.by, "finish">>}
    BY <1>2, <1>9, ChangeIs, RepliedIs
  <2>2. \A r \in Run : <<r, "finish">> \in after.by => after.active # r
    <3>1. None \notin Run
      BY ChatAssumption DEF Message
    <3> QED BY <1>4, <2>1, <3>1
  <2>3. \A r \in Run : \A s \in {"launch", "finish"} :
            <<r, s>> \in after.by => MadeBy(r, s)'
    BY <1>4, <1>7, <1>9, <2>1, Zenon
  <2>4. \A w \in after.edits : MadeBy(w, "edit")'
    BY <1>4, <1>7, <2>1
  <2>5. after.last # None =>
            \E o \in Run : Turn[o].nonce = after.last /\ <<o, "launch">> \in after.by
    BY <1>4, <2>1
  <2> QED BY <1>3, <1>6, <2>2, <2>3, <2>4, <2>5
          DEF MessagesOnce, MarkerGoes, Kept, LastAsked
<1>10. CASE k.stage = "edit"
  <2>1. /\ after.last = before.last
        /\ after.active = before.active
        /\ after.edits = before.edits \cup {k.by}
        /\ after.by = before.by
    BY <1>2, <1>10, ChangeIs, EditedIs
  <2>2. \A w \in after.edits : MadeBy(w, "edit")'
    BY <1>4, <1>7, <1>10, <2>1
  <2>3. \A r \in Run : \A s \in {"launch", "finish"} :
            <<r, s>> \in after.by => MadeBy(r, s)'
    BY <1>4, <1>7, <2>1, Zenon
  <2> QED BY <1>3, <1>4, <1>6, <2>1, <2>2, <2>3
          DEF MessagesOnce, MarkerGoes, Kept, LastAsked
<1>11. k.stage \in {"launch", "finish", "edit"}
  BY <1>2 DEF PutKey, Stage
<1>12. (MessagesOnce /\ MarkerGoes /\ Kept /\ LastAsked)'
  BY <1>8, <1>9, <1>10, <1>11
<1> QED BY <1>3, <1>6, <1>12

(* Every step leaves the row sound.                                        *)
LEMMA RowNext ==
    ASSUME Inv, [Next]_vars
    PROVE  /\ row' # None => row'.rev \in 1 .. rev' /\ row'.chat \in Thread
           /\ rev' \in Nat
           /\ answered' \subseteq PutKey
           /\ (MessagesOnce /\ MarkerGoes /\ Kept /\ LastAsked)'
<1>1. TypeOK /\ Stages
  BY DEF Inv, Agreed
<1>2. CASE UNCHANGED <<row, rev, answered>>
  <2>1. (MessagesOnce /\ MarkerGoes /\ LastAsked)'
    BY <1>2, Zenon DEF Inv, Agreed, MessagesOnce, MarkerGoes, LastAsked
  <2>2. Kept'
    BY <1>2 DEF Inv, Agreed, Kept, MadeBy
  <2> QED BY <1>2, <2>1, <2>2 DEF Inv, TypeOK
<1>3. CASE row' = None /\ UNCHANGED <<rev, answered>>
  BY <1>3 DEF Inv, TypeOK, MessagesOnce, MarkerGoes, Kept, LastAsked
<1> QED BY <1>1, <1>2, <1>3, RowSteps, WriteSound

-----------------------------------------------------------------------------
(* Writers.                                                                *)

(* What a writer has.                                                      *)
Local(w) ==
    /\ IF at[w] \in Sending
       THEN put[w] \in Put /\ put[w].match <= rev /\ put[w].key = KeyOf(w)
       ELSE put[w] = None
    /\ at[w] \in {"saved", "running", "over"} => KeyOf(w) \in answered
    /\ w \in Editor => stage[w] = "edit"
    /\ w \in Run => stage[w] \in {"launch", "finish"}
    /\ at[w] \in {"check", "saved", "running"} => stage[w] = "launch"

Typed ==
    /\ late \subseteq Put
    /\ at \in [Writer \cup Deleter -> Where]
    /\ stage \in [Writer -> Stage]
    /\ attempt \in [Writer \cup Deleter -> 1 .. MaxCommitAttempts]
    /\ sends \in [Writer -> 0 .. MaxSends]
    /\ first \in [Run -> {None, "found", "missing"}]
    /\ stopped \subseteq Run
    /\ put = [w \in Writer \cup Deleter |-> put[w]]

(* Revisions are given in order, and a key stays answered.                 *)
Grows == rev \in Nat /\ rev' \in Nat /\ rev <= rev' /\ answered \subseteq answered'

(* The invariant gives each writer its part of it.                         *)
LEMMA LocalInv ==
    ASSUME Inv
    PROVE  Typed /\ \A w \in Writer : Local(w)
<1>1. Typed
  BY DEF Inv, Agreed, Stages, TypeOK, Typed
<1>2. ASSUME NEW w \in Writer PROVE Local(w)
  BY <1>2, Zenon DEF Inv, Agreed, Stages, Mine, Made, TypeOK, Local, Sending, Writer
<1> QED BY <1>1, <1>2

(* Revisions and answered pushes only grow.                                *)
LEMMA GrowsNext ==
    ASSUME Inv, [Next]_vars
    PROVE  Grows
<1>1. TypeOK /\ Stages /\ rev \in Nat
  BY DEF Inv, Agreed, TypeOK
<1> QED BY <1>1, RowSteps DEF Grows, Writes

(* Every writer still has an entry when one is given a push.               *)
LEMMA PutKeepsDomain ==
    ASSUME Typed, NEW w, NEW p, put' = [put EXCEPT ![w] = p]
    PROVE  put' = [v \in Writer \cup Deleter |-> put'[v]]
<1>1. DOMAIN put = Writer \cup Deleter
  BY DEF Typed
<1>2. put' = [v \in Writer \cup Deleter |-> IF v = w THEN p ELSE put[v]]
  BY <1>1, Zenon
<1>3. \A v \in Writer \cup Deleter : put'[v] = IF v = w THEN p ELSE put[v]
  BY <1>2
<1> QED BY <1>2, <1>3, Zenon

(* The writers that take no part in a step keep what they have.            *)
LEMMA LocalStays ==
    ASSUME NEW v \in Writer, Local(v), Grows,
           at'[v] = at[v], put'[v] = put[v], stage'[v] = stage[v],
           attempt'[v] = attempt[v]
    PROVE  Local(v)'
<1>1. KeyOf(v)' = KeyOf(v)
  BY DEF KeyOf
<1>2. put[v] \in Put => put[v].match \in Nat
  BY DEF Put
<1> QED BY <1>1, <1>2 DEF Local, Grows

(* A step of one writer.                                                   *)
LEMMA OneWriter ==
    ASSUME NEW w \in Writer, \A v \in Writer : Local(v), Grows,
           \A v \in Writer \ {w} : /\ at'[v] = at[v] /\ put'[v] = put[v]
                                   /\ stage'[v] = stage[v]
                                   /\ attempt'[v] = attempt[v],
           Local(w)'
    PROVE  \A v \in Writer : Local(v)'
<1>1. ASSUME NEW v \in Writer PROVE Local(v)'
  <2>1. CASE v = w
    BY <2>1
  <2>2. CASE v # w
    BY <2>2, LocalStays
  <2> QED BY <2>1, <2>2
<1> QED BY <1>1

(* A writer that does not push has nothing to push.                        *)
LEMMA MovesOn ==
    ASSUME NEW w \in Writer, Typed, \A v \in Writer : Local(v), Grows, NEW to,
           at' = [at EXCEPT ![w] = to], to \notin Sending,
           to \in {"saved", "running", "over"} => KeyOf(w) \in answered',
           to \in {"saved", "running"} => stage[w] = "launch",
           \/ put' = [put EXCEPT ![w] = None]
           \/ put' = put /\ at[w] \notin Sending,
           stage' = stage, attempt' = attempt
    PROVE  \A v \in Writer : Local(v)'
<1>1. at'[w] = to /\ \A v \in Writer \ {w} : at'[v] = at[v]
  BY DEF Typed
<1>2. put'[w] = None /\ \A v \in Writer \ {w} : put'[v] = put[v]
  BY Zenon DEF Typed, Local
<1>3. KeyOf(w)' = KeyOf(w)
  BY DEF KeyOf
<1>4. Local(w)'
  BY <1>1, <1>2, <1>3 DEF Local, Sending
<1> QED BY <1>1, <1>2, <1>4, OneWriter

(* Beginning, or failing to read, keeps each writer's part.                *)
LEMMA BeginLocal ==
    ASSUME Inv, Grows, NEW w \in Writer, Begin(w) \/ LoadFails(w)
    PROVE  Typed' /\ \A v \in Writer : Local(v)'
<1>1. Typed /\ \A v \in Writer : Local(v)
  BY LocalInv
<1>2. Typed'
  BY <1>1 DEF Begin, LoadFails, Noted, Typed, Where, Settled
<1>3. \A v \in Writer : Local(v)'
  BY <1>1, MovesOn DEF Begin, LoadFails, Sending
<1> QED BY <1>2, <1>3

(* The push a read makes has its type, and its writer's key.               *)
LEMMA LoadLocal ==
    ASSUME Inv, Grows, NEW w \in Writer, Load(w)
    PROVE  Typed' /\ \A v \in Writer : Local(v)'
<1> DEFINE k == KeyOf(w)
           p == [key |-> k, match |-> Read.rev, chat |-> Change(k, Read.chat)]
<1>1. Typed /\ \A v \in Writer : Local(v)
  BY LocalInv
<1>2. /\ at[w] = "load"
      /\ row # None \/ MayCreate(w)
      /\ ~Refuses(w, Read.chat)
      /\ at' = [at EXCEPT ![w] = IF stage[w] = "launch" THEN "check" ELSE "push"]
      /\ sends' = [sends EXCEPT ![w] = 1]
      /\ first' = Noted(w)
      /\ UNCHANGED <<row, rev, answered, late, stage, attempt, stopped>>
      /\ put' = [put EXCEPT ![w] = p]
  BY Zenon DEF Load, Changed, Change, KeyOf
<1>3. k \in PutKey /\ (k.stage = "edit" <=> k.by \in Editor)
  <2>1. /\ stage[w] \in Stage /\ attempt[w] \in 1 .. MaxCommitAttempts
        /\ 1 \in 1 .. MaxSends
    BY <1>1, StoreAssumption DEF Typed
  <2>2. stage[w] = "edit" <=> w \in Editor
    BY <1>1 DEF Local, Writer
  <2> QED BY <2>1, <2>2 DEF KeyOf, PutKey
<1>4. /\ Read.rev \in Nat /\ Read.rev <= rev
      /\ Read.chat \in Thread /\ IsInjective(Read.chat.msgs)
  BY NewChat DEF Read, Inv, TypeOK, MessagesOnce
<1>5. Fits(k, Read.chat)
  BY <1>2 DEF Fits, Refuses, KeyOf
<1>6. Change(k, Read.chat) \in Thread
  BY <1>3, <1>4, <1>5, ChangeOnce
<1>7. p \in Put /\ p.match <= rev /\ p.key = k
  BY <1>3, <1>4, <1>6 DEF Put
<1>8. k' = k
  BY <1>2 DEF KeyOf
<1> HIDE DEF p, k
<1>9. put'[w] = p /\ \A v \in Writer \ {w} : put'[v] = put[v]
  BY <1>1, <1>2 DEF Typed
<1>10. /\ at'[w] \in Sending
       /\ at'[w] = "check" => stage[w] = "launch"
       /\ \A v \in Writer \ {w} : at'[v] = at[v]
  BY <1>1, <1>2 DEF Typed, Sending
<1>11. Local(w)'
  <2>1. put'[w] \in Put /\ put'[w].match <= rev' /\ put'[w].key = KeyOf(w)'
    BY <1>2, <1>7, <1>8, <1>9 DEF k
  <2>2. at'[w] \notin {"saved", "running", "over"}
    BY <1>10 DEF Sending
  <2>3. w \in Editor => stage'[w] = "edit"
    BY <1>1, <1>2 DEF Local
  <2>4. /\ w \in Run => stage'[w] \in {"launch", "finish"}
        /\ at'[w] \in {"check", "saved", "running"} => stage'[w] = "launch"
    BY <1>1, <1>2, <1>10, <2>2 DEF Local
  <2> QED BY <1>10, <2>1, <2>2, <2>3, <2>4 DEF Local
<1>12. Typed'
  <2>1. at' \in [Writer \cup Deleter -> Where]
    BY <1>1, <1>2 DEF Typed, Where
  <2>2. sends' \in [Writer -> 0 .. MaxSends]
    BY <1>1, <1>2, StoreAssumption DEF Typed
  <2>3. first' \in [Run -> {None, "found", "missing"}]
    BY <1>1, <1>2, Zenon DEF Typed, Noted
  <2>4. put' = [v \in Writer \cup Deleter |-> put'[v]]
    BY <1>1, <1>2, PutKeepsDomain, Zenon
  <2> QED BY <1>1, <1>2, <2>1, <2>2, <2>3, <2>4 DEF Typed
<1>13. \A v \in Writer : Local(v)'
  BY <1>1, <1>2, <1>9, <1>10, <1>11, OneWriter
<1> QED BY <1>12, <1>13

(* A push that is answered, or given up, is its writer's no more, and a    *)
(* writer told of success made its change under its own key.               *)
LEMMA AcceptedLocal ==
    ASSUME Inv, Grows, NEW w \in Writer, Accepted(w)
    PROVE  Typed' /\ \A v \in Writer : Local(v)'
<1> DEFINE to == Pushed(w)
<1>1. Typed /\ \A v \in Writer : Local(v)
  BY LocalInv
<1>2. /\ at[w] = "push" /\ Outcome(put[w]) = "ok" /\ PutBlob(put[w])
      /\ at' = [at EXCEPT ![w] = to]
      /\ put' = [put EXCEPT ![w] = None]
      /\ UNCHANGED <<late, stage, attempt, sends, first, stopped>>
  BY DEF Accepted
<1>3. put[w].key = KeyOf(w)
  BY <1>1, <1>2 DEF Local, Sending
<1>4. KeyOf(w) \in answered'
  BY <1>2, <1>3 DEF Outcome, PutBlob
<1>5. to \in {"saved", "over"} /\ (to = "saved" => stage[w] = "launch")
  BY DEF Pushed
<1> HIDE DEF to
<1>6. \A v \in Writer : Local(v)'
  BY <1>1, <1>2, <1>4, <1>5, MovesOn, Zenon DEF Sending
<1>7. put' = [v \in Writer \cup Deleter |-> put'[v]]
  BY <1>1, <1>2, PutKeepsDomain, Zenon
<1>8. Typed'
  BY <1>1, <1>2, <1>5, <1>7 DEF Typed, Where, Settled
<1> QED BY <1>6, <1>8

(* Giving up a push keeps each writer's part.                              *)
LEMMA GivenUpLocal ==
    ASSUME Inv, Grows, NEW w \in Writer, Rejected(w) \/ Unknown(w)
    PROVE  Typed' /\ \A v \in Writer : Local(v)'
<1>1. Typed /\ \A v \in Writer : Local(v)
  BY LocalInv
<1>2. /\ at[w] = "push"
      /\ late' \subseteq late \cup {put[w]}
      /\ at' = [at EXCEPT ![w] = "failed"]
      /\ put' = [put EXCEPT ![w] = None]
      /\ UNCHANGED <<stage, attempt, sends, first, stopped>>
  BY DEF Rejected, Unknown
<1>3. put[w] \in Put
  BY <1>1, <1>2 DEF Local, Sending
<1>4. \A v \in Writer : Local(v)'
  BY <1>1, <1>2, MovesOn, Zenon DEF Sending
<1>5. put' = [v \in Writer \cup Deleter |-> put'[v]]
  BY <1>1, <1>2, PutKeepsDomain, Zenon
<1>6. Typed'
  BY <1>1, <1>2, <1>3, <1>5 DEF Typed, Where, Settled
<1> QED BY <1>4, <1>6

(* A conflict leaves nothing to push, and a next read its own key.         *)
LEMMA ConflictedLocal ==
    ASSUME Inv, Grows, NEW w \in Writer, Conflicted(w)
    PROVE  Typed' /\ \A v \in Writer : Local(v)'
<1>1. Typed /\ \A v \in Writer : Local(v)
  BY LocalInv
<1>2. /\ put' = [put EXCEPT ![w] = None]
      /\ UNCHANGED <<late, stage, sends, first, stopped>>
  BY DEF Conflicted
<1>3. put' = [v \in Writer \cup Deleter |-> put'[v]]
  BY <1>1, <1>2, PutKeepsDomain, Zenon
<1>4. CASE attempt[w] < MaxCommitAttempts
  <2>1. /\ at' = [at EXCEPT ![w] = "load"]
        /\ attempt' = [attempt EXCEPT ![w] = @ + 1]
    BY <1>4 DEF Conflicted
  <2>2. at'[w] = "load" /\ \A v \in Writer \ {w} : at'[v] = at[v]
    BY <1>1, <2>1 DEF Typed
  <2>3. put'[w] = None /\ \A v \in Writer \ {w} : put'[v] = put[v]
    BY <1>1, <1>2 DEF Typed
  <2>4. \A v \in Writer \ {w} : attempt'[v] = attempt[v] /\ stage'[v] = stage[v]
    BY <1>1, <1>2, <2>1 DEF Typed
  <2>5. Local(w)'
    BY <1>1, <1>2, <2>2, <2>3 DEF Local, Sending
  <2>6. \A v \in Writer : Local(v)'
    BY <1>1, <2>2, <2>3, <2>4, <2>5, OneWriter
  <2>7. attempt' \in [Writer \cup Deleter -> 1 .. MaxCommitAttempts]
    BY <1>1, <1>4, <2>1, StoreAssumption DEF Typed
  <2>8. at' \in [Writer \cup Deleter -> Where]
    BY <1>1, <2>1 DEF Typed, Where
  <2> QED BY <1>1, <1>2, <1>3, <2>6, <2>7, <2>8 DEF Typed
<1>5. CASE ~(attempt[w] < MaxCommitAttempts)
  <2>1. at' = [at EXCEPT ![w] = "failed"] /\ attempt' = attempt
    BY <1>5 DEF Conflicted
  <2>2. \A v \in Writer : Local(v)'
    BY <1>1, <1>2, <2>1, MovesOn, Zenon DEF Sending
  <2>3. at' \in [Writer \cup Deleter -> Where]
    BY <1>1, <2>1 DEF Typed, Where, Settled
  <2> QED BY <1>1, <1>2, <1>3, <2>1, <2>2, <2>3 DEF Typed
<1> QED BY <1>4, <1>5

(* A put that is sent again, or that arrives, is no other writer's.        *)
LEMMA SentLocal ==
    ASSUME Inv, Grows,
           \/ \E w \in Writer : Resend(w)
           \/ \E p \in late : Arrive(p)
           \/ UNCHANGED vars
    PROVE  Typed' /\ \A v \in Writer : Local(v)'
<1>1. Typed /\ \A v \in Writer : Local(v)
  BY LocalInv
<1>2. UNCHANGED <<at, stage, attempt, put, first, stopped>>
  BY Zenon DEF Resend, Arrive, vars
<1>3. \A v \in Writer : Local(v)'
  BY <1>1, <1>2, LocalStays
<1>4. \A w \in Writer : at[w] = "push" => put[w] \in Put
  BY <1>1 DEF Local, Sending
<1>5. late' \subseteq Put
  BY <1>1, <1>4 DEF Typed, Resend, Arrive, vars
<1>6. sends' \in [Writer -> 0 .. MaxSends]
  BY <1>1, StoreAssumption DEF Typed, Resend, Arrive, vars
<1> QED BY <1>1, <1>2, <1>3, <1>5, <1>6 DEF Typed

(* A run's own steps.                                                      *)
LEMMA RunLocal ==
    ASSUME Inv, Grows, NEW r \in Run, RunStep(r)
    PROVE  Typed' /\ \A v \in Writer : Local(v)'
<1>1. Typed /\ (\A v \in Writer : Local(v)) /\ r \in Writer
  BY LocalInv DEF Writer
<1>2. CASE AlreadyApplied(r)
  <2>1. /\ at[r] = "load" /\ at' = [at EXCEPT ![r] = "already"] /\ first' = Noted(r)
        /\ UNCHANGED <<late, stage, attempt, sends, put, stopped>>
    BY <1>2 DEF AlreadyApplied
  <2>2. \A v \in Writer : Local(v)'
    BY <1>1, <2>1, MovesOn, Zenon DEF Sending
  <2>3. at' \in [Writer \cup Deleter -> Where]
    BY <1>1, <2>1 DEF Typed, Where, Settled
  <2>4. first' \in [Run -> {None, "found", "missing"}]
    BY <1>1, <2>1 DEF Typed, Noted
  <2> QED BY <1>1, <2>1, <2>2, <2>3, <2>4 DEF Typed
<1>3. CASE Check(r)
  <2>1. at[r] = "check" /\ UNCHANGED <<late, stage, attempt, sends, first, stopped>>
    BY <1>3 DEF Check
  <2>2. CASE at' = [at EXCEPT ![r] = "failed"] /\ put' = [put EXCEPT ![r] = None]
    <3>1. \A v \in Writer : Local(v)'
      BY <1>1, <2>1, <2>2, MovesOn, Zenon DEF Sending
    <3>2. put' = [v \in Writer \cup Deleter |-> put'[v]]
      BY <1>1, <2>2, PutKeepsDomain, Zenon
    <3>3. at' \in [Writer \cup Deleter -> Where]
      BY <1>1, <2>2 DEF Typed, Where, Settled
    <3> QED BY <1>1, <2>1, <3>1, <3>2, <3>3 DEF Typed
  <2>3. CASE at' = [at EXCEPT ![r] = "push"] /\ put' = put
    <3>1. at'[r] = "push" /\ \A v \in Writer \ {r} : at'[v] = at[v]
      BY <1>1, <2>3 DEF Typed
    <3>2. KeyOf(r)' = KeyOf(r)
      BY <2>1 DEF KeyOf
    <3>3. /\ put'[r] \in Put /\ put'[r].match <= rev' /\ put'[r].key = KeyOf(r)'
          /\ r \in Editor => stage'[r] = "edit"
          /\ stage'[r] \in {"launch", "finish"}
      <4>1. put[r] \in Put /\ put[r].match <= rev /\ put[r].key = KeyOf(r)
        BY <1>1, <2>1 DEF Local, Sending
      <4>2. put[r].match \in Nat
        BY <4>1 DEF Put
      <4>3. put[r].match <= rev'
        BY <4>1, <4>2 DEF Grows
      <4> QED BY <1>1, <2>1, <2>3, <3>2, <4>1, <4>3 DEF Local
    <3>4. Local(r)'
      BY <3>1, <3>3 DEF Local, Sending
    <3>5. \A v \in Writer : Local(v)'
      BY <1>1, <2>1, <2>3, <3>1, <3>4, OneWriter
    <3>6. at' \in [Writer \cup Deleter -> Where]
      BY <1>1, <2>3 DEF Typed, Where
    <3> QED BY <1>1, <2>1, <2>3, <3>5, <3>6 DEF Typed
  <2> QED BY <1>3, <2>2, <2>3 DEF Check
<1>4. CASE Start(r) \/ StartRefused(r)
  <2>1. /\ at[r] = "saved"
        /\ at' = [at EXCEPT ![r] = "running"] \/ at' = [at EXCEPT ![r] = "failed"]
        /\ UNCHANGED <<late, stage, attempt, sends, put, first, stopped>>
    BY <1>4 DEF Start, StartRefused
  <2>2. KeyOf(r) \in answered' /\ stage[r] = "launch"
    BY <1>1, <2>1 DEF Local, Grows
  <2>3. \A v \in Writer : Local(v)'
    BY <1>1, <2>1, <2>2, MovesOn DEF Sending
  <2>4. at' \in [Writer \cup Deleter -> Where]
    BY <1>1, <2>1 DEF Typed, Where, Settled
  <2> QED BY <1>1, <2>1, <2>3, <2>4 DEF Typed
<1>5. CASE Finish(r)
  <2>1. /\ at[r] = "running"
        /\ UNCHANGED <<late, sends, put, first, stopped>>
    BY <1>5 DEF Finish
  <2>2. CASE at' = [at EXCEPT ![r] = "skipped"] /\ UNCHANGED <<stage, attempt>>
    <3>1. \A v \in Writer : Local(v)'
      BY <1>1, <2>1, <2>2, MovesOn, Zenon DEF Sending
    <3>2. at' \in [Writer \cup Deleter -> Where]
      BY <1>1, <2>2 DEF Typed, Where, Settled
    <3> QED BY <1>1, <2>1, <2>2, <3>1, <3>2 DEF Typed
  <2>3. CASE /\ at' = [at EXCEPT ![r] = "load"]
             /\ stage' = [stage EXCEPT ![r] = "finish"]
             /\ attempt' = [attempt EXCEPT ![r] = 1]
    <3>1. /\ at'[r] = "load" /\ stage'[r] = "finish"
          /\ \A v \in Writer \ {r} : /\ at'[v] = at[v] /\ stage'[v] = stage[v]
                                     /\ attempt'[v] = attempt[v]
      BY <1>1, <2>3 DEF Typed
    <3>2. r \notin Editor /\ put'[r] = None
      BY <1>1, <2>1, ChatAssumption DEF Local, Sending
    <3>3. Local(r)'
      BY <3>1, <3>2 DEF Local, Sending
    <3>4. \A v \in Writer : Local(v)'
      BY <1>1, <2>1, <3>1, <3>3, OneWriter
    <3>5. at' \in [Writer \cup Deleter -> Where]
      BY <1>1, <2>3 DEF Typed, Where
    <3>6. /\ stage' \in [Writer -> Stage]
          /\ attempt' \in [Writer \cup Deleter -> 1 .. MaxCommitAttempts]
      BY <1>1, <2>3, StoreAssumption DEF Typed, Stage
    <3> QED BY <1>1, <2>1, <3>4, <3>5, <3>6 DEF Typed
  <2> QED BY <1>5, <2>2, <2>3 DEF Finish
<1> QED BY <1>2, <1>3, <1>4, <1>5 DEF RunStep

(* A deletion's steps are no writer's.                                     *)
LEMMA DeletionLocal ==
    ASSUME Inv, Grows, NEW d \in Deleter, StopThread(d) \/ DeleteStep(d)
    PROVE  Typed' /\ \A v \in Writer : Local(v)'
<1>1. Typed /\ (\A v \in Writer : Local(v)) /\ d \notin Writer
  BY LocalInv, StoreAssumption DEF Writer
<1>2. /\ UNCHANGED <<late, stage, sends, first>>
      /\ stopped' \subseteq stopped \cup Run
      /\ \E to \in Where : at' = [at EXCEPT ![d] = to]
  BY DEF StopThread, DeleteStep, RemoveReads, RemoveRow, RemoveConflicts,
         RemoveFails, Where, Settled
<1>3. put' = put \/ \E n : put' = [put EXCEPT ![d] = n]
  BY DEF StopThread, DeleteStep, RemoveReads, RemoveRow, RemoveConflicts, RemoveFails
<1>4. \/ attempt' = attempt
      \/ attempt[d] < MaxCommitAttempts /\ attempt' = [attempt EXCEPT ![d] = @ + 1]
  BY DEF StopThread, DeleteStep, RemoveReads, RemoveRow, RemoveConflicts, RemoveFails
<1>5. \A v \in Writer : at'[v] = at[v]
  BY <1>1, <1>2 DEF Typed
<1>6. \A v \in Writer : put'[v] = put[v]
  BY <1>1, <1>3 DEF Typed
<1>7. \A v \in Writer : attempt'[v] = attempt[v]
  BY <1>1, <1>4 DEF Typed
<1>8. \A v \in Writer : Local(v)'
  BY <1>1, <1>2, <1>5, <1>6, <1>7, LocalStays
<1>9. at' \in [Writer \cup Deleter -> Where]
  BY <1>1, <1>2 DEF Typed
<1>10. attempt' \in [Writer \cup Deleter -> 1 .. MaxCommitAttempts]
  BY <1>1, <1>4, StoreAssumption DEF Typed
<1>11. put' = [v \in Writer \cup Deleter |-> put'[v]]
  BY <1>1, <1>3, PutKeepsDomain DEF Typed
<1> QED BY <1>1, <1>2, <1>8, <1>9, <1>10, <1>11 DEF Typed

(* A crash takes a run's push with it.                                     *)
LEMMA CrashLocal ==
    ASSUME Inv, Grows, NEW i \in Instance, Crash(i)
    PROVE  Typed' /\ \A v \in Writer : Local(v)'
<1> DEFINE dead == {r \in Run : On[r] = i /\ Busy(r)}
<1>1. Typed /\ \A v \in Writer : Local(v)
  BY LocalInv
<1>2. /\ at' = [w \in DOMAIN at |-> IF w \in dead THEN "crashed" ELSE at[w]]
      /\ late' = late \cup {put[r] : r \in {w \in dead : at[w] = "push"}}
      /\ put' = [w \in DOMAIN put |-> IF w \in dead THEN None ELSE put[w]]
      /\ UNCHANGED <<stage, attempt, sends, first, stopped>>
      /\ dead \subseteq Writer
  BY DEF Crash, Writer
<1> HIDE DEF dead
<1>3. DOMAIN at = Writer \cup Deleter /\ DOMAIN put = Writer \cup Deleter
  BY <1>1 DEF Typed
<1>4. \A v \in Writer \cup Deleter : /\ at'[v] = IF v \in dead THEN "crashed" ELSE at[v]
                                     /\ put'[v] = IF v \in dead THEN None ELSE put[v]
  BY <1>2, <1>3
<1>5. ASSUME NEW v \in Writer PROVE Local(v)'
  <2>1. CASE v \in dead
    <3>1. at'[v] = "crashed" /\ put'[v] = None
      BY <1>4, <2>1
    <3>2. /\ v \in Editor => stage'[v] = "edit"
          /\ v \in Run => stage'[v] \in {"launch", "finish"}
      BY <1>1, <1>2 DEF Local
    <3> QED BY <3>1, <3>2 DEF Local, Sending
  <2>2. CASE v \notin dead
    BY <1>1, <1>2, <1>4, <2>2, LocalStays
  <2> QED BY <2>1, <2>2
<1>6. \A w \in dead : at[w] = "push" => put[w] \in Put
  BY <1>1, <1>2 DEF Local, Sending
<1>7. late' \subseteq Put
  BY <1>1, <1>2, <1>6, Zenon DEF Typed
<1>8. at' \in [Writer \cup Deleter -> Where]
  BY <1>1, <1>2, <1>3 DEF Typed, Where, Settled
<1>9. put' = [v \in Writer \cup Deleter |-> put'[v]]
  BY <1>2, <1>3, <1>4
<1> QED BY <1>1, <1>2, <1>5, <1>7, <1>8, <1>9, Zenon DEF Typed

(* Every step keeps each writer's part of the invariant.                   *)
LEMMA LocalNext ==
    ASSUME Inv, [Next]_vars
    PROVE  Typed' /\ \A v \in Writer : Local(v)'
<1>1. Grows
  BY GrowsNext
<1>2. ASSUME NEW w \in Writer, Begin(w) \/ Commit(w)
      PROVE  Typed' /\ \A v \in Writer : Local(v)'
  BY <1>1, <1>2, BeginLocal, LoadLocal, AcceptedLocal, ConflictedLocal, GivenUpLocal,
     SentLocal DEF Commit
<1> QED BY <1>1, <1>2, RunLocal, DeletionLocal, CrashLocal, SentLocal DEF Next

-----------------------------------------------------------------------------
(* Requests already applied.                                               *)

(* A change keeps the changes the chat holds.                              *)
LEMMA WriteKeeps ==
    ASSUME Inv, NEW p, Writes(p)
    PROVE  row'.chat = p.chat /\ Read.chat.by \subseteq p.chat.by
<1>1. /\ p.key \in PutKey /\ (p.key.stage = "edit" <=> p.key.by \in Editor)
      /\ Read.chat \in Thread /\ p.chat = Change(p.key, Read.chat)
  BY WriteIs DEF Put
<1>2. row'.chat = p.chat
  BY DEF Writes
<1> QED BY <1>1, <1>2, ChangeIs, AskedIs, RepliedIs, EditedIs

(* A run is told so by its own read only.                                  *)
LEMMA AlreadyFrom ==
    ASSUME TypeOK, [Next]_vars, NEW r \in Run, at'[r] = "already"
    PROVE  at[r] = "already" \/ AlreadyApplied(r)
<1>1. r \in Writer \cup Deleter /\ at \in [Writer \cup Deleter -> Where]
  BY DEF TypeOK, Writer
<1>2. ASSUME NEW w \in Writer \cup Deleter, NEW to, at' = [at EXCEPT ![w] = to],
             to # "already" \/ w # r
      PROVE  at[r] = "already"
  BY <1>1, <1>2
<1>3. ASSUME NEW w \in Writer, Begin(w) \/ Commit(w) PROVE at[r] = "already"
  <2>1. at' = at \/ \E to : at' = [at EXCEPT ![w] = to] /\ to # "already"
    BY <1>3 DEF Begin, Commit, Load, LoadFails, Accepted, Pushed, Conflicted, Rejected,
       Resend, Unknown
  <2> QED BY <1>2, <2>1
<1>4. ASSUME NEW q \in Run, RunStep(q) PROVE at[r] = "already" \/ AlreadyApplied(r)
  <2>1. CASE AlreadyApplied(q)
    BY <1>2, <2>1, Zenon DEF AlreadyApplied, Writer
  <2>2. CASE ~AlreadyApplied(q)
    <3>1. \E to : at' = [at EXCEPT ![q] = to] /\ to # "already"
      BY <1>4, <2>2 DEF RunStep, Check, Start, StartRefused, Finish
    <3> QED BY <1>2, <3>1 DEF Writer
  <2> QED BY <2>1, <2>2
<1>5. ASSUME NEW d \in Deleter, StopThread(d) \/ DeleteStep(d) PROVE at[r] = "already"
  <2>1. \E to : at' = [at EXCEPT ![d] = to] /\ to # "already"
    BY <1>5 DEF StopThread, DeleteStep, RemoveReads, RemoveRow, RemoveConflicts, RemoveFails
  <2> QED BY <1>2, <2>1
<1>6. ASSUME NEW i \in Instance, Crash(i) PROVE at[r] = "already"
  BY <1>1, <1>6 DEF Crash
<1>7. CASE UNCHANGED vars \/ \E p \in late : Arrive(p)
  BY <1>7 DEF vars, Arrive
<1> QED BY <1>3, <1>4, <1>5, <1>6, <1>7 DEF Next

(* Its request is then in the chat, by another run.                        *)
LEMMA AppliedByAnother ==
    ASSUME Inv, NEW r \in Run, AlreadyApplied(r), ~Deleting
    PROVE  /\ row # None
           /\ \E o \in Run \ {r} : /\ Turn[o].nonce = Turn[r].nonce
                                   /\ <<o, "launch">> \in row.chat.by
<1>1. at[r] = "load" /\ stage[r] = "launch" /\ Read.chat.last = Turn[r].nonce
  BY DEF AlreadyApplied
<1>2. Turn[r].nonce # None
  BY ChatAssumption DEF Request, Message
<1>3. row # None
  BY <1>1, <1>2 DEF Read, newThread
<1>4. row.chat.last = Turn[r].nonce
  BY <1>1, <1>3 DEF Read
<1>5. PICK o \in Run : Turn[o].nonce = row.chat.last /\ <<o, "launch">> \in row.chat.by
  BY <1>2, <1>3, <1>4 DEF Inv, Agreed, LastAsked
<1>6. ASSUME o = r PROVE FALSE
  <2>1. PICK k \in answered : k.by = r /\ k.stage = "launch"
    BY <1>3, <1>5, <1>6, Zenon DEF Inv, Agreed, Kept, MadeBy
  <2>2. Drawn(k) /\ (Current(k) \/ stage[r] = "finish")
    BY <2>1 DEF Inv, Agreed, DrawnOnce, Answered
  <2>3. k.attempt = attempt[r] /\ attempt[r] \in Nat
    BY <1>1, <2>1, <2>2 DEF Current, Inv, TypeOK, Writer
  <2> QED BY <1>1, <2>1, <2>2, <2>3 DEF Drawn
<1> QED BY <1>3, <1>4, <1>5, <1>6

(* A request found applied was applied by another run, on this row.        *)
LEMMA AlreadyNext ==
    ASSUME Inv, [Next]_vars
    PROVE  AlreadyByAnother' /\ Present'
<1>1. TypeOK /\ Stages
  BY DEF Inv, Agreed
<1>2. ASSUME NEW r \in Run, at'[r] = "already", ~Deleting'
      PROVE  /\ row' # None
             /\ \E o \in Run \ {r} : /\ Turn[o].nonce = Turn[r].nonce
                                     /\ <<o, "launch">> \in row'.chat.by
  <2>1. ~Deleting
    BY <1>1, <1>2, RowSteps
  <2>2. at[r] = "already" \/ AlreadyApplied(r)
    BY <1>1, <1>2, AlreadyFrom
  <2>3. /\ row # None
        /\ \E o \in Run \ {r} : /\ Turn[o].nonce = Turn[r].nonce
                                /\ <<o, "launch">> \in row.chat.by
    <3>1. CASE at[r] = "already"
      BY <2>1, <3>1 DEF Inv, Agreed, Present, AlreadyByAnother, Deleting
    <3>2. CASE AlreadyApplied(r)
      BY <2>1, <3>2, AppliedByAnother
    <3> QED BY <2>2, <3>1, <3>2
  <2>4. row' # None /\ row.chat.by \subseteq row'.chat.by
    <3>1. CASE row' = row
      BY <2>3, <3>1
    <3>2. ASSUME NEW p, Writes(p) PROVE row' # None /\ row.chat.by \subseteq row'.chat.by
      BY <2>3, <3>2, WriteSound, WriteKeeps DEF Read
    <3> QED BY <1>1, <2>1, <3>1, <3>2, RowSteps
  <2> QED BY <2>3, <2>4
<1>3. Present'
  BY <1>2 DEF Present
<1>4. AlreadyByAnother'
  BY <1>2 DEF AlreadyByAnother, Deleting
<1> QED BY <1>3, <1>4

-----------------------------------------------------------------------------
(* The invariant.                                                          *)

(* The invariant holds before any writer begins.                           *)
LEMMA InvInit ==
    ASSUME Init
    PROVE  Inv
<1>1. Out = {} /\ ~Deleting
  BY DEF Init, Out, Deleting, Sending
<1>2. TypeOK
  BY StoreAssumption, ChatAssumption DEF Init, TypeOK, Where, Stage, Writer, PutKey
<1>3. Stages
  BY ChatAssumption DEF Init, Stages, Writer
<1>4. Mine /\ Made
  BY DEF Init, Mine, Made, Sending
<1>5. DrawnOnce /\ Reads /\ Spent /\ Answered
  BY <1>1 DEF Init, DrawnOnce, Reads, Spent, Answered
<1>6. /\ MessagesOnce /\ MarkerGoes /\ Kept /\ LastAsked
      /\ AlreadyByAnother /\ Present
  BY DEF Init, MessagesOnce, MarkerGoes, Kept, LastAsked, AlreadyByAnother, Present, Writer
<1> QED BY <1>2, <1>3, <1>4, <1>5, <1>6 DEF Inv, Agreed

(* Every step keeps the invariant.                                         *)
LEMMA InvNext ==
    ASSUME Inv, [Next]_vars
    PROVE  Inv'
<1>1. Typed' /\ \A w \in Writer : Local(w)'
  BY LocalNext
<1>2. TypeOK'
  BY <1>1, RowNext DEF TypeOK, Typed, Local, Sending
<1>3. Stages'
  BY <1>1 DEF Stages, Typed, Local, Writer
<1>4. Mine' /\ Made'
  BY <1>1 DEF Mine, Made, Local
<1> QED BY <1>2, <1>3, <1>4, RowNext, DrawnOnceNext, ReadsNext, SpentNext, AnsweredNext,
        AlreadyNext DEF Inv, Agreed

(* Every push that may still arrive changes the chat as it is stored, and  *)
(* what the row holds was made under a key whose writer drew it once       *)
(* (Store.Push, MutateThread, launch): the invariant of the stored chat.   *)
THEOREM StoredInvariance == Spec => []Inv
BY InvInit, InvNext, PTL DEF Spec

(* ChatStaysSound, for every set of writers and instances: however pushes  *)
(* are retried, late or lost, the stored chat has each message once        *)
(* (applyTurn, finishRun) and no marker of a run whose reply it holds.     *)
THEOREM SoundAlways == Spec => []ChatStaysSound
<1>1. Inv => ChatStaysSound
  BY DEF Inv, ChatStaysSound
<1> QED BY <1>1, StoredInvariance, PTL

(* AnswersAreTrue: a caller told of success has its change made (Push),    *)
(* and one told that its request was already applied was preceded by       *)
(* another run (errAlreadyApplied).                                        *)
THEOREM AnswersTrue == Spec => []AnswersAreTrue
<1>1. Inv => AnswersAreTrue
  <2> SUFFICES ASSUME Inv PROVE SuccessIsStored /\ AlreadyByAnother
    BY DEF AnswersAreTrue
  <2>1. ASSUME NEW w \in Writer, at[w] \in {"saved", "running", "over"}
        PROVE  \E k \in answered : k.by = w /\ k.stage = stage[w]
    <3>1. KeyOf(w) \in answered
      BY <2>1 DEF Inv, Agreed, Made
    <3> QED BY <3>1 DEF KeyOf
  <2>2. ASSUME NEW w \in Writer, at[w] \in {"saved", "running"}
        PROVE  \E k \in answered : k.by = w /\ k.stage = "launch"
    BY <2>1, <2>2 DEF Inv, Agreed, Stages
  <2>3. SuccessIsStored
    BY <2>1, <2>2 DEF SuccessIsStored
  <2> QED BY <2>3 DEF Inv
<1> QED BY <1>1, StoredInvariance, PTL

(* NeverRecreates: a chat comes into being only by the turn of a run whose *)
(* first read found none (launch, prepareTurn), whatever arrives late.     *)
THEOREM NeverRecreated == Spec => NeverRecreates
<1>1. ASSUME Inv, [Next]_vars
      PROVE  [row = None /\ row' # None =>
                \E r \in Run : /\ row'.chat.by = {<<r, "launch">>}
                               /\ first[r] = "missing"]_vars
  <2> SUFFICES ASSUME row = None, row' # None
               PROVE  \E r \in Run : /\ row'.chat.by = {<<r, "launch">>}
                                     /\ first[r] = "missing"
    OBVIOUS
  <2>1. PICK p : Writes(p)
    BY <1>1, RowSteps DEF Inv, Agreed
  <2>2. /\ p.key.by \in Run /\ p.key.stage = "launch" /\ first[p.key.by] = "missing"
        /\ Read.chat = newThread
        /\ p.chat = Change(p.key, newThread)
    BY <1>1, <2>1, WriteIs DEF Read
  <2>3. p.chat = Asked(p.key.by, newThread) /\ newThread.by = {}
    BY <2>2 DEF Change, newThread
  <2>4. p.chat.by = {<<p.key.by, "launch">>}
    BY <2>2, <2>3, NewChat, AskedIs
  <2> QED BY <1>1, <2>1, <2>2, <2>4, WriteKeeps
<1> QED BY <1>1, StoredInvariance, PTL DEF Spec, NeverRecreates

-----------------------------------------------------------------------------
(* The atomic chat.                                                        *)

(* No change is made twice, but for a turn's once its chat was deleted.    *)
LEMMA WriteOnce ==
    ASSUME Inv, NEW p, Writes(p), row # None,
           MadeBy(p.key.by, p.key.stage)
    PROVE  p.key.stage = "launch" /\ Deleting
<1>1. PICK k \in answered : k.by = p.key.by /\ k.stage = p.key.stage
  BY Zenon DEF MadeBy
<1>2. /\ p.key \in PutKey /\ p.key \notin answered /\ p \in Out /\ k \in PutKey
      /\ Current(p.key) /\ k.send = 1 /\ p.key.send = 1
  <2>1. p.key \notin answered /\ p \in Out
    BY DEF Writes
  <2>2. DrawnOnce /\ answered \subseteq PutKey
    BY DEF Inv, Agreed, TypeOK
  <2>3. k.send = 1 /\ p.key.send = 1
    BY <2>1, <2>2, Zenon DEF DrawnOnce, Drawn
  <2>4. p \in Put /\ Current(p.key)
    BY WriteIs
  <2>5. p.key \in PutKey
    BY <2>4 DEF Put
  <2> QED BY <2>1, <2>2, <2>3, <2>4, <2>5
<1>3. CASE Current(k)
  <2>1. k.attempt = p.key.attempt
    BY <1>1, <1>2, <1>3 DEF Current
  <2>2. k = p.key
    BY <1>1, <1>2, <2>1 DEF PutKey
  <2> QED BY <1>2, <2>2
<1>4. CASE ~Current(k)
  BY <1>1, <1>2, <1>4 DEF Inv, Agreed, Answered, Current
<1> QED BY <1>3, <1>4

(* The atomic chat's changes are the stored one's.                         *)
LEMMA SameChanges ==
    /\ Atomic!newThread = newThread
    /\ \A r, c : Atomic!Asked(r, c) = Asked(r, c)
    /\ \A r, c : Atomic!Replied(r, c) = Replied(r, c)
    /\ \A w, c : Atomic!Edited(w, c) = Edited(w, c)
    /\ \A turn, msgs : Atomic!Applicable(turn, msgs) <=> Applicable(turn, msgs)
<1>1. Atomic!newThread = newThread
  BY DEF newThread, Atomic!newThread
<1>2. \A turn : (Atomic!Cuts(turn) <=> Cuts(turn)) /\ (Atomic!Asks(turn) <=> Asks(turn))
  BY DEF Cuts, Atomic!Cuts, Asks, Atomic!Asks
<1>3. \A turn, msgs : Atomic!CutAt(turn, msgs) = CutAt(turn, msgs)
  <2>1. \A S : Atomic!Min(S) = Min(S)
    BY DEF Min, Atomic!Min
  <2> QED BY <2>1, Zenon DEF CutAt, Atomic!CutAt
<1>0. \A msgs : Atomic!Range(msgs) = Range(msgs)
  BY DEF Range, Atomic!Range
<1>4. \A turn, msgs : Atomic!applyTurn(turn, msgs) = applyTurn(turn, msgs)
  BY <1>0, <1>2, <1>3, Zenon DEF applyTurn, Atomic!applyTurn
<1>5. \A r, c : Atomic!Asked(r, c) = Asked(r, c)
  BY <1>4, Zenon DEF Asked, Atomic!Asked
<1>6. \A r : Atomic!ReplyId(r) = ReplyId(r)
  BY DEF ReplyId, Atomic!ReplyId
<1>7. \A r, c : Atomic!Replied(r, c) = Replied(r, c)
  BY <1>0, <1>6, Zenon DEF Replied, Atomic!Replied
<1>8. \A w, c : Atomic!Edited(w, c) = Edited(w, c)
  BY DEF Edited, Atomic!Edited
<1>9. \A turn, msgs : Atomic!Applicable(turn, msgs) <=> Applicable(turn, msgs)
  BY <1>0, <1>2, Zenon DEF Applicable, Atomic!Applicable
<1> QED BY <1>1, <1>5, <1>7, <1>8, <1>9

(* A change that is made is one step of the atomic chat.                   *)
LEMMA WriteIsAtomic ==
    ASSUME Inv, NEW p, Writes(p)
    PROVE  Atomic!ANext
<1> DEFINE k == p.key
<1>1. /\ k \in PutKey /\ (k.stage = "edit" <=> k.by \in Editor)
      /\ Read.chat \in Thread
      /\ p.chat = Change(k, Read.chat)
      /\ Fits(k, Read.chat)
      /\ row = None => k.stage = "launch"
  BY WriteIs DEF Put
<1>2. Chats(row)' = p.chat /\ Deleting' = Deleting
  BY WriteSound, WriteKeeps DEF Chats, Writes
<1>3. Read.chat = IF Chats(row) = None THEN newThread ELSE Chats(row)
  <2>1. CASE row = None
    BY <2>1 DEF Read, Chats
  <2>2. CASE row # None
    <3>1. row.chat # None
      BY <2>2, NilAssumption DEF Inv, TypeOK
    <3> QED BY <2>2, <3>1 DEF Read, Chats
  <2> QED BY <2>1, <2>2
<1>4. row # None => Chats(row) = row.chat /\ Chats(row) # None /\ Read.chat = row.chat
  BY NilAssumption DEF Inv, TypeOK, Read, Chats
<1>5. /\ \A r \in Run : \A s \in {"launch", "finish"} :
            <<r, s>> \in Read.chat.by => row # None /\ MadeBy(r, s)
      /\ \A w \in Read.chat.edits : row # None /\ MadeBy(w, "edit")
  <2>1. CASE row = None
    BY <2>1 DEF Read, newThread
  <2>2. CASE row # None
    BY <2>2, Zenon DEF Read, Inv, Agreed, Kept
  <2> QED BY <2>1, <2>2
<1>6. CASE k.stage = "launch" /\ k.by \in Run /\ Change(k, Read.chat) = Asked(k.by, Read.chat)
  <2>1. <<k.by, "launch">> \in Read.chat.by => Deleting
    BY <1>5, <1>6, WriteOnce, Zenon
  <2>2. Read.chat.last # Turn[k.by].nonce /\ Applicable(Turn[k.by], Read.chat.msgs)
    BY <1>1, <1>6 DEF Fits
  <2>3. Atomic!AAsk(k.by)
    <3> DEFINE before == IF Chats(row) = None THEN Atomic!newThread ELSE Chats(row)
    <3>1. before = Read.chat
      BY <1>3, SameChanges, Zenon
    <3>2. Chats(row)' = Asked(k.by, Read.chat)
      BY <1>1, <1>2, <1>6
    <3>3. Chats(row)' = Atomic!Asked(k.by, before)
      BY <3>1, <3>2, SameChanges, Zenon
    <3>4. Atomic!Applicable(Turn[k.by], before.msgs)
      BY <2>2, <3>1, SameChanges, Zenon
    <3>5. UNCHANGED (\E d \in Deleter : at[d] # "idle")
      BY <1>2 DEF Deleting
    <3>6. /\ <<k.by, "launch">> \in before.by => (\E d \in Deleter : at[d] # "idle")
          /\ before.last # Turn[k.by].nonce
      BY <2>1, <2>2, <3>1 DEF Deleting
    <3> HIDE DEF before
    <3> QED BY <3>3, <3>4, <3>5, <3>6 DEF Atomic!AAsk, before
  <2> QED BY <1>6, <2>3 DEF Atomic!ANext
<1>7. CASE k.stage = "finish" /\ k.by \in Run /\ Change(k, Read.chat) = Replied(k.by, Read.chat)
  <2>1. row # None
    BY <1>1, <1>7
  <2>2. <<k.by, "finish">> \notin Read.chat.by
    BY <1>5, <1>7, WriteOnce, Zenon
  <2>3. Atomic!AReply(k.by)
    BY <1>1, <1>2, <1>4, <1>7, <2>1, <2>2, SameChanges DEF Atomic!AReply, Deleting
  <2> QED BY <1>7, <2>3 DEF Atomic!ANext
<1>8. CASE k.stage = "edit" /\ k.by \in Editor /\ Change(k, Read.chat) = Edited(k.by, Read.chat)
  <2>1. row # None
    BY <1>1, <1>8
  <2>2. k.by \notin Read.chat.edits
    BY <1>5, <1>8, WriteOnce
  <2>3. Atomic!AEdit(k.by)
    BY <1>1, <1>2, <1>4, <1>8, <2>1, <2>2, SameChanges DEF Atomic!AEdit, Deleting
  <2> QED BY <1>8, <2>3 DEF Atomic!ANext
<1> HIDE DEF k
<1> QED BY <1>1, <1>6, <1>7, <1>8, ChangeIs

(* ImplementsAtomicChat: reading the chat at a revision, pushing a change  *)
(* at it and reading again after a conflict (MutateThread, launch, Push)   *)
(* is changing it in one step, lost and late answers, deletions and        *)
(* crashes notwithstanding.                                                *)
THEOREM Refinement == Spec => ImplementsAtomicChat
<1>1. Init => Atomic!AInit
  BY DEF Init, Atomic!AInit, Chats
<1>2. ASSUME Inv, [Next]_vars
      PROVE  [Atomic!ANext]_<<Chats(row), \E d \in Deleter : at[d] # "idle">>
  <2>1. TypeOK /\ Stages
    BY <1>2 DEF Inv, Agreed
  <2>2. CASE UNCHANGED row /\ (Deleting => Deleting')
    <3>1. Chats(row)' = Chats(row)
      BY <2>2 DEF Chats
    <3>2. CASE Deleting' = Deleting
      BY <3>1, <3>2 DEF Deleting
    <3>3. CASE Deleting' # Deleting
      <4>1. Deleting' = TRUE
        BY <2>2, <3>3 DEF Deleting
      <4>2. Atomic!AAskDeletion
        BY <3>1, <4>1 DEF Atomic!AAskDeletion, Deleting
      <4> QED BY <4>2 DEF Atomic!ANext
    <3> QED BY <3>2, <3>3
  <2>3. CASE row # None /\ row' = None /\ Deleting /\ Deleting'
    <3>1. Chats(row) # None /\ Chats(row)' = None
      BY <2>1, <2>3, NilAssumption DEF Chats, TypeOK
    <3>2. Atomic!ADelete
      BY <2>3, <3>1 DEF Atomic!ADelete, Deleting
    <3> QED BY <3>2 DEF Atomic!ANext
  <2>4. ASSUME NEW p, Writes(p) PROVE Atomic!ANext
    BY <1>2, <2>4, WriteIsAtomic
  <2> QED BY <1>2, <2>1, <2>2, <2>3, <2>4, RowSteps
<1> QED BY <1>1, <1>2, StoredInvariance, PTL DEF Spec, ImplementsAtomicChat, Atomic!ASpec
=============================================================================
