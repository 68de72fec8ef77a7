---------------------------- MODULE InferenceGate ----------------------------
(***************************************************************************)
(* The gate embedding calls pass (internal/search/gate.go): each caller    *)
(* has slots for the calls in flight and a rate for the foreground and for *)
(* the background, within the slots and the rate of the process.  Limits   *)
(* are tracked for so many callers; past that an idle caller's is          *)
(* forgotten.  A foreground call is refused at once, a background one      *)
(* waits until its context ends.                                           *)
(***************************************************************************)
EXTENDS Naturals, SequencesExt, FiniteSetsExt

CONSTANTS
    Call,              \* the goroutines that embed
    Owner,
    None,
    GlobalConcurrent, CallerConcurrent,   \* calls in flight
    GlobalBurst, CallerBurst,             \* inputs taken before time refills
    MaxCallers,        \* the limits tracked
    Inputs,            \* the inputs of one call
    Budgets            \* bound: calls and refills

VARIABLES
    limits,   \* every limit ever made, so that a forgotten one is still held
    callers,  \* the limits tracked: owner to its place in limits
    recent,   \* the owners tracked, the one longest unused first
    slots,    \* the process's slots taken
    rate,     \* what the process's rate has left
    calls,
    admitted, \* history: inputs admitted since the rates were last full
    budget

vars == <<limits, callers, recent, slots, rate, calls, admitted, budget>>

Spend(what) == budget[what] > 0 /\ budget' = [budget EXCEPT ![what] = @ - 1]

Class(wait) == IF wait THEN "background" ELSE "foreground"

(* The gate's limits, slots and calls have the shapes the code gives them. *)
TypeOK ==
    /\ \A o \in DOMAIN callers : limits[callers[o]].owner = o
    /\ ToSet(recent) = DOMAIN callers /\ IsInjective(recent)
    /\ Cardinality(DOMAIN callers) <= MaxCallers
    /\ \A i \in DOMAIN limits : limits[i].active >= 0 /\ limits[i].slots \in 0 .. CallerConcurrent
    /\ slots \in 0 .. GlobalConcurrent

Idle == [pc |-> "idle", limit |-> None, wait |-> FALSE, inputs |-> 0]

Init ==
    /\ budget \in Budgets
    /\ limits = <<>> /\ callers = [o \in {} |-> None] /\ recent = <<>>
    /\ slots = 0 /\ rate = GlobalBurst /\ admitted = 0
    /\ calls = [c \in Call |-> Idle]

To(c, pc) == calls' = [calls EXCEPT ![c].pc = pc]

-----------------------------------------------------------------------------
(* begin                                                                   *)

Tracked(o) == o \in DOMAIN callers

(* The callers whose limit may be forgotten, the longest unused first.     *)
Inactive == SelectSeq(recent, LAMBDA o : limits[callers[o]].active = 0)

(* A variant: the longest unused caller goes whether it is used or not.    *)
EvictedActive(idle) ==
    IF Cardinality(DOMAIN callers) < MaxCallers THEN {} ELSE {Head(recent)}

(* The callers forgotten to make room: the first `idle` inactive ones are  *)
(* past the idle time; when they make no room, the longest unused goes.    *)
Evicted(idle) ==
    IF Cardinality(DOMAIN callers) < MaxCallers THEN {}
    ELSE LET past == ToSet(SubSeq(Inactive, 1, idle))
         IN IF past = {} /\ Inactive # <<>> THEN {Head(Inactive)} ELSE past

Fresh(o) == [owner |-> o, foreground |-> CallerBurst, background |-> CallerBurst,
             slots |-> 0, active |-> 1]

Begin(c) ==
    /\ calls[c].pc = "idle"
    /\ Spend("calls")
    /\ \E o \in Owner, wait \in BOOLEAN, n \in Inputs :
         LET entered(i) == [calls EXCEPT ![c] =
                 [pc |-> IF wait THEN "rate" ELSE "slot", limit |-> i, wait |-> wait, inputs |-> n]]
         IN \/ /\ Tracked(o)
               /\ limits' = [limits EXCEPT ![callers[o]].active = @ + 1]
               /\ recent' = Append(SelectSeq(recent, LAMBDA p : p # o), o)
               /\ calls' = entered(callers[o])
               /\ UNCHANGED callers
            \/ /\ ~Tracked(o)
               /\ \E idle \in 0 .. Len(Inactive) :
                    LET kept == DOMAIN callers \ Evicted(idle)
                    IN IF Cardinality(kept) >= MaxCallers
                       THEN UNCHANGED <<limits, callers, recent, calls>>     \* refused
                       ELSE /\ limits' = Append(limits, Fresh(o))
                            /\ callers' = [p \in kept \cup {o} |-> IF p = o THEN Len(limits) + 1 ELSE callers[p]]
                            /\ recent' = Append(SelectSeq(recent, LAMBDA p : p \in kept), o)
                            /\ calls' = entered(Len(limits) + 1)
    /\ UNCHANGED <<slots, rate, admitted>>

-----------------------------------------------------------------------------
(* acquire and what releases it                                            *)

(* Both rates have the inputs and both give them, or neither does.         *)
ReserveRate(c) ==
    LET k == Class(calls[c].wait)
        n == calls[c].inputs
        i == calls[c].limit
    IN /\ limits[i][k] >= n /\ rate >= n
       /\ limits' = [limits EXCEPT ![i][k] = @ - n]
       /\ rate' = rate - n
       /\ admitted' = admitted + n

NoRate(c) == limits[calls[c].limit][Class(calls[c].wait)] < calls[c].inputs \/ rate < calls[c].inputs

WaitForRate(c) ==
    /\ calls[c].pc = "rate"
    /\ \/ ReserveRate(c) /\ To(c, "slot")
       \/ NoRate(c) /\ To(c, "finish") /\ UNCHANGED <<limits, rate, admitted>>  \* never fits, or ctx ends
    /\ UNCHANGED <<callers, recent, slots, budget>>

TakeSlot(c) ==
    LET i == calls[c].limit
        free == limits[i].slots < CallerConcurrent
    IN /\ calls[c].pc = "slot"
       /\ \/ free /\ limits' = [limits EXCEPT ![i].slots = @ + 1] /\ To(c, "global")
          \/ (~free \/ calls[c].wait) /\ To(c, "finish") /\ UNCHANGED limits
       /\ UNCHANGED <<callers, recent, slots, rate, admitted, budget>>

TakeGlobal(c) ==
    /\ calls[c].pc = "global"
    /\ LET free == slots < GlobalConcurrent
       IN \/ free /\ slots' = slots + 1 /\ To(c, IF calls[c].wait THEN "open" ELSE "reserve")
          \/ (~free \/ calls[c].wait) /\ To(c, "drop") /\ UNCHANGED slots
    /\ UNCHANGED <<limits, callers, recent, rate, admitted, budget>>

Reserve(c) ==
    /\ calls[c].pc = "reserve"
    /\ \/ ReserveRate(c) /\ To(c, "open")
       \/ NoRate(c) /\ To(c, "free") /\ UNCHANGED <<limits, rate, admitted>>
    /\ UNCHANGED <<callers, recent, slots, budget>>

(* The embedding returns, or a refused call undoes what it took.           *)
FreeGlobal(c) ==
    /\ calls[c].pc \in {"open", "free"}
    /\ slots' = slots - 1
    /\ To(c, "drop")
    /\ UNCHANGED <<limits, callers, recent, rate, admitted, budget>>

FreeSlot(c) ==
    /\ calls[c].pc = "drop"
    /\ limits' = [limits EXCEPT ![calls[c].limit].slots = @ - 1]
    /\ To(c, "finish")
    /\ UNCHANGED <<callers, recent, slots, rate, admitted, budget>>

Finish(c) ==
    LET i == calls[c].limit
        o == limits[i].owner
    IN /\ calls[c].pc = "finish"
       /\ limits' = [limits EXCEPT ![i].active = @ - 1]
       /\ recent' = IF Tracked(o) /\ callers[o] = i THEN Append(SelectSeq(recent, LAMBDA p : p # o), o) ELSE recent
       /\ calls' = [calls EXCEPT ![c] = Idle]
       /\ UNCHANGED <<callers, slots, rate, admitted, budget>>

(* Time passes until every rate is full.                                   *)
Refill ==
    /\ Spend("refills")
    /\ limits' = [i \in DOMAIN limits |-> [limits[i] EXCEPT !.foreground = CallerBurst, !.background = CallerBurst]]
    /\ rate' = GlobalBurst
    /\ admitted' = 0
    /\ UNCHANGED <<callers, recent, slots, calls>>

Next ==
    \/ \E c \in Call : \/ Begin(c) \/ WaitForRate(c) \/ TakeSlot(c) \/ TakeGlobal(c) \/ Reserve(c)
                       \/ FreeGlobal(c) \/ FreeSlot(c) \/ Finish(c)
    \/ Refill

Spec == Init /\ [][Next]_vars

-----------------------------------------------------------------------------

(* A caller never has more embedding calls in flight than its share, even  *)
(* when its limit is forgotten and made again between two of them          *)
(* (begin forgets only limits nothing uses).                               *)
CallerShare ==
    \A o \in Owner :
        Cardinality({c \in Call : calls[c].pc = "open" /\ limits[calls[c].limit].owner = o}) <= CallerConcurrent

(* Every slot taken is held by a call that will give it back, whichever    *)
(* step refused the call (acquire's error paths), so none is lost.         *)
SlotsHeld ==
    /\ slots = Cardinality({c \in Call : calls[c].pc \in {"reserve", "open", "free"}})
    /\ \A i \in DOMAIN limits :
         limits[i].slots = Cardinality({c \in Call : calls[c].limit = i
                                          /\ calls[c].pc \in {"global", "reserve", "open", "free", "drop"}})

(* The callers' rates together give what the process's rate gives: a call  *)
(* refused by one of the two takes nothing from the other (reserveRate).   *)
RatesAgree ==
    /\ rate = GlobalBurst - admitted
    /\ MapThenSumSet(LAMBDA i : 2 * CallerBurst - limits[i].foreground - limits[i].background, DOMAIN limits) = admitted
=============================================================================
