----------------------------- MODULE StoredKeys -----------------------------
(***************************************************************************)
(* The caller's content keys and the rows sealed under them                *)
(* (internal/store: keys.go, reseal.go, rewrap.go, rows.go; the control    *)
(* plane as internal/controlplane/cpstub keeps it).  Devices register      *)
(* keys; writers read and push rows under the key they hold, a read        *)
(* resealing a row from before the registry; jobs on several replicas seal *)
(* every row again under the registered key.                               *)
(***************************************************************************)
EXTENDS Integers, FiniteSets, SequencesExt, FiniteSetsExt

CONSTANTS
    Row, Key, Writer, Device,
    Job,             \* the replicas' reseal jobs of the caller
    None,
    ResealPage,      \* resealPage
    ResealAttempts,  \* resealAttempts
    Budgets          \* bound: pushes, registrations, reseals, and removals

VARIABLES
    current,   \* the registered key and its revision
    rows,      \* each row: its revision, the key id it names, the key that
               \* seals it, its text and whether it is in its cooldown
    last,      \* the last revision each row had; one made again never has
               \* an earlier one's
    wrote,     \* the text last written to each row
    under,     \* the rows whose last write was under a registered key
    writer, device, job, budget

vars == <<current, rows, last, wrote, under, writer, device, job, budget>>

Idle == [pc |-> "idle"]

Gone == [etag |-> 0]

Exists(r) == rows[r].etag # 0

Vias == {"passkey", "recovery", "start_fresh"}

(* The keys, the rows and the pass over them have the shapes the code gives them. *)
TypeOK ==
    /\ current.id \in Key \cup {None} /\ current.etag \in Nat
    /\ \A r \in Row : Exists(r) => /\ rows[r].kid \in {None, rows[r].sealed}
                                   /\ rows[r].sealed \in Key
                                   /\ rows[r].text \in Nat

(* Rows from before the registry name no key id, or that of an older key.  *)
Init ==
    /\ current = [id |-> None, etag |-> 0]
    /\ rows \in [Row -> {Gone} \cup [etag : {1}, kid : Key \cup {None}, sealed : Key,
                                     text : {0}, cool : {FALSE}]]
    /\ \A r \in Row : Exists(r) => rows[r].kid \in {None, rows[r].sealed}
    /\ last = [r \in Row |-> 1]
    /\ wrote = [r \in Row |-> 0]
    /\ under = {}
    /\ writer = [w \in Writer |-> Idle]
    /\ device = [d \in Device |-> Idle]
    /\ job = [j \in Job |-> Idle]
    /\ budget \in Budgets

Spend(what) == budget[what] > 0 /\ budget' = [budget EXCEPT ![what] = @ - 1]

-----------------------------------------------------------------------------
(* The registry.                                                           *)

(* hasDataUnderOtherKey: rows of another key id, and rows of none when     *)
(* those count.                                                            *)
hasDataUnderOtherKey(k, legacy) ==
    \E r \in Row : /\ Exists(r)
                   /\ \/ rows[r].kid = None /\ legacy
                      \/ rows[r].kid \notin {None, k}

(* CurrentKey: what a device's If-Match will be, and the key it registers. *)
CurrentKey(d) ==
    /\ device[d].pc = "idle"
    /\ Spend("registrations")
    /\ \E k \in Key, via \in Vias :
         device' = [device EXCEPT ![d] =
            [pc |-> "register", key |-> k, via |-> via,
             match |-> IF current.id = None THEN None ELSE current.etag]]
    /\ UNCHANGED <<current, rows, last, wrote, under, writer, job>>

(* Whether handleRegisterKey takes the key: over none, over the same key   *)
(* asserted again, and over another key.                                   *)
Accepts(d) ==
    LET asserting == device[d].via = "recovery"
        fresh == device[d].via = "start_fresh"
    IN IF current.id = None
       THEN /\ device[d].match = None
            /\ asserting \/ fresh \/ ~hasDataUnderOtherKey(device[d].key, TRUE)
       ELSE /\ device[d].match = current.etag
            /\ \/ device[d].key = current.id
               \/ ~hasDataUnderOtherKey(device[d].key, ~asserting)
               \/ fresh

(* Whether it wipes the rows, as only a fresh start does.                  *)
Wipes(d) ==
    /\ device[d].via = "start_fresh"
    /\ device[d].key # current.id
    /\ hasDataUnderOtherKey(device[d].key, TRUE)

RegisterKey(d) ==
    /\ device[d].pc = "register"
    /\ device' = [device EXCEPT ![d] = Idle]
    /\ IF Accepts(d)
       THEN /\ current' = [id |-> device[d].key, etag |-> current.etag + 1]
            /\ rows' = IF Wipes(d) THEN [r \in Row |-> Gone]
                       ELSE IF device[d].key = current.id THEN rows
                       ELSE [r \in Row |-> IF Exists(r) THEN [rows[r] EXCEPT !.cool = FALSE]
                                                        ELSE Gone]
       ELSE UNCHANGED <<current, rows>>
    /\ UNCHANGED <<last, wrote, writer, job, budget>>
    /\ under' = IF Accepts(d) /\ Wipes(d) THEN {} ELSE under

-----------------------------------------------------------------------------
(* Writers.                                                                *)

Opens(k, r) == rows[r].sealed = k

(* pullOne: a row the key opens is read; one from before the registry is   *)
(* to be resealed first when the key is the registered one.                *)
Pull(w) ==
    /\ writer[w].pc = "idle"
    /\ Spend("pushes")
    /\ \E r \in Row, k \in Key :
         /\ Exists(r) => Opens(k, r)
         /\ writer' = [writer EXCEPT ![w] =
              [pc |-> IF Exists(r) /\ rows[r].kid = None /\ current.id = k
                      THEN "rewrap" ELSE "push",
               row |-> r, key |-> k, etag |-> rows[r].etag,
               text |-> IF Exists(r) THEN rows[r].text ELSE 0]]
    /\ UNCHANGED <<current, rows, last, wrote, under, device, job>>

(* rewrapRow: the row's text sealed under the key, at the revision read.   *)
(* The control plane takes it only under the registered key.               *)
Rewrap(r, k, text) ==
    /\ rows' = [rows EXCEPT ![r] = [@ EXCEPT !.etag = last[r] + 1, !.kid = k,
                                              !.sealed = k, !.text = text]]
    /\ last' = [last EXCEPT ![r] = @ + 1]
    /\ under' = under \cup {r}

CanRewrapAny(r, etag, k) == Exists(r) /\ current.id = k

CanRewrap(r, etag, k) == Exists(r) /\ rows[r].etag = etag /\ current.id = k

(* The reseal a read makes, best effort.                                   *)
RewrapRead(w) ==
    LET x == writer[w]
    IN /\ x.pc = "rewrap"
       /\ IF CanRewrap(x.row, x.etag, x.key)
          THEN /\ Rewrap(x.row, x.key, x.text)
               /\ writer' = [writer EXCEPT ![w].pc = "push", ![w].etag = last[x.row] + 1]
          ELSE writer' = [writer EXCEPT ![w].pc = "push"] /\ UNCHANGED <<rows, last, under>>
       /\ UNCHANGED <<current, wrote, device, job, budget>>

(* Push, at the revision read, or as a create.  The control plane takes    *)
(* new rows only under the registered key.                                 *)
Push(w) ==
    LET x == writer[w]
    IN /\ x.pc = "push"
       /\ writer' = [writer EXCEPT ![w] = Idle]
       /\ IF rows[x.row].etag = x.etag /\ current.id \in {None, x.key}
          THEN /\ rows' = [rows EXCEPT ![x.row] =
                    [etag |-> last[x.row] + 1, kid |-> x.key, sealed |-> x.key,
                     text |-> x.text + 1, cool |-> FALSE]]
               /\ last' = [last EXCEPT ![x.row] = @ + 1]
               /\ wrote' = [wrote EXCEPT ![x.row] = x.text + 1]
               /\ under' = IF current.id = None THEN under \ {x.row} ELSE under \cup {x.row}
          ELSE UNCHANGED <<rows, last, wrote, under>>
       /\ UNCHANGED <<current, device, job, budget>>

(* Remove, at whatever revision the row has.                               *)
RemoveRow(r) ==
    /\ Exists(r)
    /\ Spend("removals")
    /\ rows' = [rows EXCEPT ![r] = Gone]
    /\ wrote' = [wrote EXCEPT ![r] = 0]
    /\ under' = under \ {r}
    /\ UNCHANGED <<current, last, writer, device, job>>

-----------------------------------------------------------------------------
(* Reseal jobs.                                                            *)

(* Reseal: only under the registered key, with some of the keys.           *)
Reseal(j) ==
    /\ job[j].pc \in {"idle", "ended"}
    /\ current.id # None
    /\ Spend("reseals")
    /\ \E keys \in SUBSET Key \ {{}} :
         job' = [job EXCEPT ![j] =
            [pc |-> "list", keys |-> keys, target |-> current.id, migrated |-> 0,
             remaining |-> 0, blocked |-> 0]]
    /\ UNCHANGED <<current, rows, last, wrote, under, writer, device>>

NeedsMigration == {r \in Row : Exists(r) /\ rows[r].kid # current.id}

(* ListNeedsMigration: a page of the rows outside their cooldown, by id,   *)
(* and how many there are in and outside it.                               *)
List(j) ==
    LET retryable == {r \in NeedsMigration : ~rows[r].cool}
        page == SetToSeq(retryable)
    IN /\ job[j].pc = "list"
       /\ job' = [job EXCEPT ![j] =
            [x \in {"todo", "found", "cooling", "done", "shut", "try"} |->
                CASE x = "todo" -> SubSeq(page, 1, Min({ResealPage, Len(page)}))
                  [] x = "found" -> Cardinality(retryable)
                  [] x = "cooling" -> Cardinality(NeedsMigration \ retryable)
                  [] OTHER -> 0] @@ [@ EXCEPT !.pc = "row"]]
       /\ UNCHANGED <<current, rows, last, wrote, under, writer, device, budget>>

(* What resealOne came to: resealed or blocked, and the next row.          *)
Outcome(j, which) ==
    job' = [job EXCEPT ![j] = [@ EXCEPT !.pc = "row", !.todo = Tail(@), !.try = 0,
                                        ![which] = @ + 1]]

(* resealOne reads the row as it is now.                                   *)
ReadRow(j) ==
    /\ job[j].pc = "row"
    /\ job[j].todo # <<>>
    /\ LET r == Head(job[j].todo)
       IN IF ~Exists(r) \/ (rows[r].kid # job[j].target /\ rows[r].sealed \notin job[j].keys)
             \/ job[j].try = ResealAttempts
          THEN /\ Outcome(j, "shut")
               /\ rows' = IF Exists(r) THEN [rows EXCEPT ![r].cool = TRUE] ELSE rows
          ELSE /\ IF rows[r].kid = job[j].target THEN Outcome(j, "done")
                  ELSE job' = [job EXCEPT ![j] = [etag |-> rows[r].etag, text |-> rows[r].text]
                                                 @@ [@ EXCEPT !.pc = "rewrap"]]
               /\ UNCHANGED rows
    /\ UNCHANGED <<current, last, wrote, under, writer, device, budget>>

(* resealOne writes it back, or reads it again when it changed.            *)
RewrapRow(j) ==
    LET r == Head(job[j].todo)
        at == job[j].etag
    IN /\ job[j].pc = "rewrap"
       /\ IF CanRewrap(r, at, job[j].target)
          THEN /\ Rewrap(r, job[j].target, job[j].text)
               /\ Outcome(j, "done")
          ELSE IF rows[r].etag # at
          THEN /\ job' = [job EXCEPT ![j] = [@ EXCEPT !.pc = "row", !.try = @ + 1]]
               /\ UNCHANGED <<rows, last, under>>
          ELSE /\ rows' = [rows EXCEPT ![r].cool = TRUE]
               /\ Outcome(j, "shut")
               /\ UNCHANGED <<last, under>>
       /\ UNCHANGED <<current, wrote, writer, device, budget>>

(* reseal counts the page and lists the next, until none remain or a page  *)
(* reseals nothing.                                                        *)
EndPage(j) ==
    LET x == job[j]
        remaining == Max({0, x.found - x.done - x.shut})
    IN /\ x.pc = "row"
       /\ x.todo = <<>>
       /\ job' = [job EXCEPT ![j] =
            [pc |-> IF x.done = 0 \/ remaining = 0 THEN "ended" ELSE "list",
             keys |-> x.keys, target |-> x.target, migrated |-> x.migrated + x.done,
             remaining |-> remaining, blocked |-> x.cooling + x.shut]]
       /\ UNCHANGED <<current, rows, last, wrote, under, writer, device, budget>>

(* The job's time, or the caller's credential, runs out: a partial report. *)
CutShort(j) ==
    /\ job[j].pc \notin {"idle", "ended"}
    /\ Spend("cuts")
    /\ job' = [job EXCEPT ![j] = Idle]
    /\ UNCHANGED <<current, rows, last, wrote, under, writer, device>>

(* A row's cooldown passes.                                                *)
Cool(r) ==
    /\ Exists(r) /\ rows[r].cool
    /\ Spend("cuts")
    /\ rows' = [rows EXCEPT ![r].cool = FALSE]
    /\ UNCHANGED <<current, last, wrote, under, writer, device, job>>

JobStep(j) == List(j) \/ ReadRow(j) \/ RewrapRow(j) \/ EndPage(j)

Next ==
    \/ \E d \in Device : CurrentKey(d) \/ RegisterKey(d)
    \/ \E w \in Writer : Pull(w) \/ RewrapRead(w) \/ Push(w)
    \/ \E j \in Job : Reseal(j) \/ JobStep(j) \/ CutShort(j)
    \/ \E r \in Row : RemoveRow(r) \/ Cool(r)

Spec == Init /\ [][Next]_vars

-----------------------------------------------------------------------------
(* A reseal, a job's or a read's, never takes a row back to a text that a  *)
(* writer replaced, however its read and its write interleave with pushes. *)
ResealKeepsText == \A r \in Row : Exists(r) => rows[r].text = wrote[r]

(* What was last sealed under a registered key stays under the registered  *)
(* key: no registration strands what the key it replaces sealed, whatever  *)
(* pushes and reseals are under way.                                       *)
NoneStranded == \A r \in under : rows[r].sealed = current.id

(* A reseal that ends with nothing remaining or blocked leaves no row      *)
(* under another key than its target, while that stays the registered key. *)
CompleteIsWhole ==
    \A j \in Job : /\ job[j].pc = "ended"
                   /\ job[j].remaining = 0 /\ job[j].blocked = 0
                   /\ current.id = job[j].target
                   => NeedsMigration = {}

=============================================================================
