------------------------------- MODULE Profiles -------------------------------
(***************************************************************************)
(* The profile row (internal/domain/profile.go, store.go MutateProfile and *)
(* pins.go): saved prompts, the favorites and the default among them, a    *)
(* setting and the pinned chats, which several devices edit at once, a     *)
(* device merges its own settings into, and the apps' own sync writes too. *)
(*                                                                         *)
(* A prompt's id is a sequence: the copy a merge makes of a prompt has its *)
(* id with the text that differed.  Text is "unset" where its device has   *)
(* none, which a stored prompt's never is.                                 *)
(***************************************************************************)
EXTENDS Integers, SequencesExt, FiniteSetsExt

CONSTANTS
    Request,
    Chat,
    Setting,
    MaxList,            \* maxProfileList
    MaxCommitAttempts,
    None,
    Budgets             \* bound: the edits, locals and pins asked for, and how many

VARIABLES
    row,     \* the stored profile
    req,     \* the requests that change it
    app,     \* what the apps' own sync last read
    said,    \* history: what the changes made say of each prompt, favorite, pin and setting
    budget

vars == <<row, req, app, said, budget>>

Field == {"presets", "favorites", "default", "setting", "pins"}

NoRow == [presets |-> <<>>, favorites |-> <<>>, default |-> None, setting |-> None, pins |-> <<>>,
          clocks |-> [f \in Field |-> 0], clockVersion |-> 0, revision |-> 0]

(* A default prompt is an id, none chosen (<<>>), or not set.              *)
Nothing == [presets |-> {}, favorites |-> {}, default |-> None, setting |-> None, pins |-> {}]

Idle == [phase |-> "idle", op |-> None, read |-> None, writes |-> None, attempts |-> 0]

IdsOf(presets) == {presets[n].id : n \in DOMAIN presets}

(* The profile and the devices' copies have the shapes the code gives them. *)
TypeOK ==
    /\ IsInjective(row.favorites) /\ IsInjective(row.pins)
    /\ Cardinality(IdsOf(row.presets)) = Len(row.presets)
    /\ Len(row.presets) <= MaxList /\ Len(row.favorites) <= MaxList
    /\ \A n \in DOMAIN row.presets : row.presets[n].text # "unset"
    /\ \A r \in Request : req[r].phase \in {"idle", "load", "push", "saved", "refused", "conflicted"}

Init ==
    /\ budget \in Budgets
    /\ row = NoRow
    /\ req = [r \in Request |-> Idle]
    /\ app = NoRow
    /\ said = Nothing

Without(list, S) == SelectSeq(list, LAMBDA x : x \notin S)

Added(list, ids) == FoldLeft(LAMBDA kept, id : IF id \in ToSet(kept) THEN kept ELSE Append(kept, id), list, ids)

Saved(presets, p) ==
    IF p.id \in IdsOf(presets) THEN [n \in DOMAIN presets |-> IF presets[n].id = p.id THEN p ELSE presets[n]]
    ELSE Append(presets, p)

-----------------------------------------------------------------------------
(* The changes.                                                            *)

(* Apply.  A patch sets the default, to none too, or leaves it ({}).      *)
Patched(p, e) ==
    [p EXCEPT !.setting = IF e.setting = None THEN @ ELSE e.setting,
              !.default = IF e.default = {} THEN @ ELSE CHOOSE d \in e.default : TRUE]

(* A prompt another device deleted stays deleted.                          *)
Updated(presets, u) == IF u.id \in IdsOf(presets) THEN Saved(presets, u) ELSE presets

(* updateProfile: Apply, then ApplyPromptEdits.                            *)
ApplyPromptEdits(p, e) ==
    LET q == Patched(p, e)
        saved == FoldLeft(Updated, FoldLeft(Saved, q.presets, e.save), e.update)
    IN [q EXCEPT !.presets = SelectSeq(saved, LAMBDA x : x.id \notin e.delete),
                 !.favorites = Added(Without(@, e.delete \cup e.remove), Without(e.add, e.delete)),
                 !.default = IF @ \in e.delete THEN <<>> ELSE @]

completed(p) == [p EXCEPT !.text = IF @ = "unset" THEN "" ELSE @]

samePrompt(a, b) == completed(a) = completed(b)

(* The copy made of a prompt whose text differs.                           *)
Copied(preset) == [preset EXCEPT !.id = Append(@, preset.text), !.copies = @ + 1]

(* A device's prompt among those there are, and the ids it now goes by.    *)
Taken(into, preset) ==
    LET differs == \E n \in DOMAIN into.presets :
                       into.presets[n].id = preset.id /\ ~samePrompt(into.presets[n], preset)
        in == IF differs THEN Copied(preset) ELSE preset
    IN [presets |-> IF in.id \in IdsOf(into.presets) THEN into.presets ELSE Append(into.presets, in),
        remapped |-> IF differs THEN (preset.id :> in.id) @@ into.remapped ELSE into.remapped]

(* MergeDeviceProfile: what the row lacks, and what the device says it     *)
(* changed.                                                                *)
MergeDeviceProfile(p, local, changed) ==
    LET taken == FoldLeft(Taken, [presets |-> p.presets, remapped |-> <<>>], local.presets)
        now(id) == IF id \in DOMAIN taken.remapped THEN taken.remapped[id] ELSE id
        takes(f, was) == local[f] # None /\ (was = None \/ f \in changed)
    IN [p EXCEPT !.setting = IF takes("setting", @) THEN local.setting ELSE @,
                 !.presets = taken.presets,
                 !.favorites = Added(IF "favorites" \in changed THEN <<>> ELSE @,
                                     [n \in DOMAIN local.favorites |-> now(local.favorites[n])]),
                 !.default = CASE takes("default", @) -> now(local.default)
                               [] "default" \in changed /\ local.default = None -> None
                               [] OTHER -> @]

(* SetPin.                                                                 *)
SetPin(p, chat, pinned) == [p EXCEPT !.pins = Without(@, {chat}) \o (IF pinned THEN <<chat>> ELSE <<>>)]

Changed(p, op) ==
    CASE op.kind = "edit" -> ApplyPromptEdits(p, op)
      [] op.kind = "merge" -> MergeDeviceProfile(p, op.local, op.changed)
      [] op.kind = "pin" -> SetPin(p, op.chat, op.pinned)

TooLong(p) == Len(p.presets) > MaxList \/ Len(p.favorites) > MaxList

-----------------------------------------------------------------------------
(* Storing a change (MutateProfile over CommitRow).                        *)

Differ(p, q) == {f \in Field : p[f] # q[f]}

(* stampEdits: each field changed takes a clock past every one the row     *)
(* holds, and the clocks are those of the revision the write creates.      *)
Stamped(p, was) ==
    LET latest == Max({was.clocks[f] : f \in Field})
    IN [p EXCEPT !.clocks = [f \in Field |-> IF f \in Differ(p, was) THEN latest + 1 ELSE was.clocks[f]],
                 !.clockVersion = was.revision + 1, !.revision = was.revision + 1]

(* PrepareWrite.                                                           *)
PrepareWrite(p, was) == Stamped([p EXCEPT !.presets = [n \in DOMAIN @ |-> completed(@[n])]], was)

(* What the changes say, item by item, in the order they were made.        *)
Says(s, op) ==
    LET named(id) == {p \in s.presets : p.id = id}
        put(set, p) == (set \ {q \in set : q.id = p.id}) \cup {completed(p)}
        clashes(p) == \E q \in named(p.id) : ~samePrompt(q, p)
        mapped(id) == LET c == {p \in ToSet(op.local.presets) : p.id = id /\ clashes(p)}
                      IN IF c = {} THEN id ELSE Copied(CHOOSE p \in c : TRUE).id
    IN CASE op.kind = "pin" -> [s EXCEPT !.pins = IF op.pinned THEN @ \cup {op.chat} ELSE @ \ {op.chat}]
         [] op.kind = "edit" ->
              LET saved == FoldLeft(put, s.presets, op.save)
                  updated == FoldLeft(LAMBDA set, u : IF \E p \in set : p.id = u.id THEN put(set, u) ELSE set, saved, op.update)
              IN [s EXCEPT !.presets = {p \in updated : p.id \notin op.delete},
                           !.favorites = ((@ \ op.remove) \cup ToSet(op.add)) \ op.delete,
                           !.default = LET d == CHOOSE x \in (IF op.default = {} THEN {@} ELSE op.default) : TRUE
                                       IN IF d \in op.delete THEN <<>> ELSE d,
                           !.setting = IF op.setting = None THEN @ ELSE op.setting]
         [] op.kind = "merge" ->
              [s EXCEPT !.presets = @ \cup {completed(p) : p \in {x \in ToSet(op.local.presets) : named(x.id) = {}}}
                                      \cup {completed(Copied(p)) : p \in {x \in ToSet(op.local.presets) :
                                                                           clashes(x) /\ named(Copied(x).id) = {}}},
                        !.favorites = (IF "favorites" \in op.changed THEN {} ELSE @)
                                        \cup {mapped(id) : id \in ToSet(op.local.favorites)},
                        !.default = IF "default" \in op.changed \/ @ = None
                                    THEN (IF op.local.default = None THEN None ELSE mapped(op.local.default)) ELSE @,
                        !.setting = IF op.local.setting # None /\ ("setting" \in op.changed \/ @ = None)
                                    THEN op.local.setting ELSE @]

Ask(r, op) ==
    /\ req[r].phase = "idle" /\ budget.requests > 0
    /\ req' = [req EXCEPT ![r] = [Idle EXCEPT !.phase = "load", !.op = op]]
    /\ budget' = [budget EXCEPT !.requests = @ - 1]
    /\ UNCHANGED <<row, app, said>>

BaseOfFirst(r) == IF req[r].read = None THEN row ELSE req[r].read

BaseOf(r) == row

(* The row is read and changed.  A change that changes nothing is made.    *)
Load(r) ==
    LET was == BaseOf(r)
        p == Changed(was, req[r].op)
    IN /\ req[r].phase = "load"
       /\ CASE TooLong(p) /\ req[r].op.kind # "pin" -> req' = [req EXCEPT ![r].phase = "refused"] /\ UNCHANGED said
            [] p = was /\ ~TooLong(p) -> req' = [req EXCEPT ![r].phase = "saved"] /\ said' = Says(said, req[r].op)
            [] OTHER -> /\ req' = [req EXCEPT ![r].phase = "push", ![r].read = was,
                                              ![r].writes = [PrepareWrite(p, was) EXCEPT !.revision = row.revision + 1]]
                        /\ UNCHANGED said
       /\ UNCHANGED <<row, app, budget>>

(* The control plane takes the row over the revision it was read at; any   *)
(* other is a conflict, and the change is made again on the row as it is.  *)
Push(r) ==
    LET q == req[r]
    IN /\ q.phase = "push"
       /\ IF row.revision + 1 = q.writes.revision
          THEN row' = q.writes /\ said' = Says(said, q.op) /\ req' = [req EXCEPT ![r].phase = "saved"]
          ELSE /\ req' = [req EXCEPT ![r].phase = IF q.attempts + 1 < MaxCommitAttempts THEN "load" ELSE "conflicted",
                                     ![r].attempts = @ + 1]
               /\ UNCHANGED <<row, said>>
       /\ UNCHANGED <<app, budget>>

(* The apps' own sync: it reads the row, and writes a setting over the row *)
(* it read, with a clock of its own.                                       *)
AppReads ==
    /\ app # row /\ app' = row
    /\ UNCHANGED <<row, req, said, budget>>

AppWrites(v) ==
    /\ budget.app > 0 /\ app = row /\ row.setting # v
    /\ row' = Stamped([row EXCEPT !.setting = v], row)
    /\ app' = row'
    /\ said' = [said EXCEPT !.setting = v]
    /\ budget' = [budget EXCEPT !.app = @ - 1]
    /\ UNCHANGED req

Next ==
    \/ \E r \in Request : (\E op \in budget.ops : Ask(r, op)) \/ Load(r) \/ Push(r)
    \/ AppReads
    \/ \E v \in Setting : AppWrites(v)

Spec == Init /\ [][Next]_vars

-----------------------------------------------------------------------------
(* The row holds what the changes made say, each of them on its own items: *)
(* no device's change undoes another's of another prompt, favorite, chat   *)
(* or field, a deleted prompt stays deleted and is no favorite, and a      *)
(* merge loses the text of neither side.                                   *)
HoldsWhatWasSaid ==
    /\ ToSet(row.presets) = said.presets
    /\ ToSet(row.favorites) = said.favorites
    /\ row.default = said.default /\ row.setting = said.setting
    /\ ToSet(row.pins) = said.pins

(* A device that merges its settings again, not having heard that they     *)
(* were merged, changes nothing.                                           *)
MergeAgainIsNothing ==
    \A op \in {o \in budget.ops : o.kind = "merge"} :
        LET once == PrepareWrite(Changed(row, op), row)
        IN Changed(once, op) = once

(* The clocks tell the apps' sync what changed: they are the row's, and a  *)
(* field that is not as the sync last read it has a later clock than any   *)
(* it saw.                                                                 *)
ClocksTell ==
    /\ row.clockVersion = row.revision
    /\ \A f \in Differ(row, app) : \A g \in Field : row.clocks[f] > app.clocks[g]

=============================================================================
