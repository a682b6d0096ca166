----------------------------- MODULE TimeWheel -----------------------------
(***************************************************************************)
(* The TimeWheel of internal/target/queue/timewheel.go: a list of slots,   *)
(* one goroutine (tick) that waits for the closest of them, and any number *)
(* of goroutines that call Add, racing with one that calls Close.          *)
(*                                                                         *)
(* A value stands for one Add call: its slot, its target time and the      *)
(* goroutine that makes the call.  The unbuffered channels updateNotify    *)
(* and stopNotify are rendezvous: a send and its receive are one step,     *)
(* enabled when both ends are there.                                       *)
(*                                                                         *)
(* Next to some definitions stands a variant with a plausible slip, unused *)
(* by the specification: with it in place of the definition, the property  *)
(* the README names for it fails.                                          *)
(***************************************************************************)
EXTENDS Naturals

CONSTANTS
    Values,     \* the Add calls made in a behaviour
    NoValue,    \* closestEl = nil
    MaxTime,    \* bound on target times and on the clock
    MaxCloses   \* bound on the number of Close calls

ASSUME NoValueAssumption == NoValue \notin Values
ASSUME MaxTimeAssumption == MaxTime \in Nat
ASSUME MaxClosesAssumption == MaxCloses \in Nat

VARIABLES
    now,        \* the clock
    slots,      \* values in the list tw.slots
    stamp,      \* position of each value in the list: insertion order
    nextStamp,
    target,     \* TimeSlot.Time of each value
    add,        \* program counter of the Add call of each value
    tick,       \* program counter of the tick goroutine
    closest,    \* closestSlot and closestEl
    stopped,    \* tw.stopped
    chanClosed, \* updateNotify is closed and stopNotify is nil
    closer,     \* program counter of the goroutine that calls Close
    closes,     \* Close calls made so far
    fired       \* how often dispatch was called with each value

vars == <<now, slots, stamp, nextStamp, target, add, tick, closest,
          stopped, chanClosed, closer, closes, fired>>

addVars   == <<slots, stamp, nextStamp, target, add>>
tickVars  == <<tick, closest, fired>>
closeVars == <<stopped, chanClosed, closer, closes>>

Times == 0 .. MaxTime

AddStates   == {"idle", "checked", "pushed", "done", "ignored", "panicked"}
TickStates  == {"scan", "empty", "armed", "acking", "returned"}
CloseStates == {"idle", "stored", "sent", "acked"}

TypeOK ==
    /\ now \in Nat
    /\ slots \in SUBSET Values
    /\ stamp \in [Values -> Nat]
    /\ nextStamp \in Nat
    /\ target \in [Values -> Times]
    /\ add \in [Values -> AddStates]
    /\ tick \in TickStates
    /\ closest \in Values \union {NoValue}
    /\ tick = "armed" => closest \in Values
    /\ stopped \in BOOLEAN
    /\ chanClosed \in BOOLEAN
    /\ closer \in CloseStates
    /\ closes \in Nat
    /\ fired \in [Values -> Nat]

----------------------------------------------------------------------------
(* NewTimeWheel: an empty list and a running tick goroutine.               *)
Init ==
    /\ now = 0
    /\ slots = {}
    /\ stamp = [v \in Values |-> 0]
    /\ nextStamp = 0
    /\ target = [v \in Values |-> 0]
    /\ add = [v \in Values |-> "idle"]
    /\ tick = "scan"
    /\ closest = NoValue
    /\ stopped = FALSE
    /\ chanClosed = FALSE
    /\ closer = "idle"
    /\ closes = 0
    /\ fired = [v \in Values |-> 0]

(* The clock that time.Now and the timer read.                             *)
Advance ==
    /\ now < MaxTime
    /\ now' = now + 1
    /\ UNCHANGED <<addVars, tickVars, closeVars>>

----------------------------------------------------------------------------
(* Add: the load of tw.stopped and its early return.                       *)
AddCheck(v) ==
    /\ add[v] = "idle"
    /\ \E t \in Times : target' = [target EXCEPT ![v] = t]
    /\ add' = [add EXCEPT ![v] = IF stopped THEN "ignored" ELSE "checked"]
    /\ UNCHANGED <<now, slots, stamp, nextStamp, tickVars, closeVars>>

(* Add: PushBack under slotsLock; the caller then blocks in the send.      *)
AddPush(v) ==
    /\ add[v] = "checked"
    /\ slots' = slots \union {v}
    /\ stamp' = [stamp EXCEPT ![v] = nextStamp]
    /\ nextStamp' = nextStamp + 1
    /\ add' = [add EXCEPT ![v] = "pushed"]
    /\ UNCHANGED <<now, target, tickVars, closeVars>>

(* Add: a send on updateNotify after Close closed the channel.             *)
AddPanic(v) ==
    /\ add[v] = "pushed"
    /\ chanClosed
    /\ add' = [add EXCEPT ![v] = "panicked"]
    /\ UNCHANGED <<now, slots, stamp, nextStamp, target, tickVars, closeVars>>

----------------------------------------------------------------------------
(* v is the slot that the loop of tick over the list ends up with: the     *)
(* smallest target, the first one in the list among equals.                *)
IsFirstInList(v) == v \in slots /\ \A w \in slots : stamp[v] <= stamp[w]
IsClosest(v) ==
    /\ v \in slots
    /\ \A w \in slots :
         \/ target[v] < target[w]
         \/ target[v] = target[w] /\ stamp[v] <= stamp[w]

(* tick: the scan of the list under slotsLock.                             *)
ScanNoNilCheck ==
    /\ tick = "scan"
    /\ \/ slots = {} /\ closest' = NoValue
       \/ \E v \in slots : IsClosest(v) /\ closest' = v
    /\ tick' = "armed"
    /\ UNCHANGED <<now, addVars, fired, closeVars>>
Scan ==
    /\ tick = "scan"
    /\ \/ slots = {} /\ closest' = NoValue /\ tick' = "empty"
       \/ \E v \in slots : IsClosest(v) /\ closest' = v /\ tick' = "armed"
    /\ UNCHANGED <<now, addVars, fired, closeVars>>

(* tick: a receive from updateNotify, which lets the Add of v return.  An  *)
(* empty wheel rescans; an armed one only if v is due before closestSlot.  *)
NotifiedNoRestart(v) ==
    /\ add[v] = "pushed"
    /\ add' = [add EXCEPT ![v] = "done"]
    /\ \/ tick = "empty" /\ tick' = "scan"
       \/ tick = "armed" /\ tick' = tick
    /\ UNCHANGED <<now, slots, stamp, nextStamp, target, closest, fired,
                   closeVars>>
NotifiedWhenArmed(v) ==
    /\ add[v] = "pushed"
    /\ add' = [add EXCEPT ![v] = "done"]
    /\ \/ tick = "empty" /\ tick' = tick
       \/ tick = "armed" /\ tick' = "scan"
    /\ UNCHANGED <<now, slots, stamp, nextStamp, target, closest, fired,
                   closeVars>>
Notified(v) ==
    /\ add[v] = "pushed"
    /\ add' = [add EXCEPT ![v] = "done"]
    /\ \/ tick = "empty" /\ tick' = "scan"
       \/ tick = "armed" /\ target[closest] <= target[v] /\ tick' = tick
       \/ tick = "armed" /\ target[v] < target[closest] /\ tick' = "scan"
    /\ UNCHANGED <<now, slots, stamp, nextStamp, target, closest, fired,
                   closeVars>>

(* tick: the timer fires; the slot is removed and dispatched.              *)
FireEarly ==
    /\ tick = "armed"
    /\ slots' = slots \ {closest}
    /\ fired' = [fired EXCEPT ![closest] = @ + 1]
    /\ tick' = "scan"
    /\ UNCHANGED <<now, stamp, nextStamp, target, add, closest, closeVars>>
FireKeepingSlot ==
    /\ tick = "armed"
    /\ target[closest] <= now
    /\ fired' = [fired EXCEPT ![closest] = @ + 1]
    /\ tick' = "scan"
    /\ UNCHANGED <<now, addVars, closest, closeVars>>
Fire ==
    /\ tick = "armed"
    /\ target[closest] <= now
    /\ slots' = slots \ {closest}
    /\ fired' = [fired EXCEPT ![closest] = @ + 1]
    /\ tick' = "scan"
    /\ UNCHANGED <<now, stamp, nextStamp, target, add, closest, closeVars>>

----------------------------------------------------------------------------
(* Close: the store to tw.stopped; a Close after the first returns here,   *)
(* stopNotify being nil.                                                   *)
CloseStore ==
    /\ closer = "idle"
    /\ closes < MaxCloses
    /\ stopped' = TRUE
    /\ closes' = closes + 1
    /\ closer' = IF chanClosed THEN "idle" ELSE "stored"
    /\ UNCHANGED <<now, addVars, tickVars, chanClosed>>

(* The stop request, received by tick in either of its selects.            *)
CloseSendNoAck ==
    /\ closer = "stored"
    /\ tick \in {"empty", "armed"}
    /\ closer' = "sent"
    /\ tick' = "returned"
    /\ UNCHANGED <<now, addVars, closest, fired, stopped, chanClosed, closes>>
CloseSend ==
    /\ closer = "stored"
    /\ tick \in {"empty", "armed"}
    /\ closer' = "sent"
    /\ tick' = "acking"
    /\ UNCHANGED <<now, addVars, closest, fired, stopped, chanClosed, closes>>

(* The acknowledgement on the same channel; tick returns.                  *)
CloseAckThenContinue ==
    /\ closer = "sent"
    /\ tick = "acking"
    /\ closer' = "acked"
    /\ tick' = "scan"
    /\ UNCHANGED <<now, addVars, closest, fired, stopped, chanClosed, closes>>
CloseAck ==
    /\ closer = "sent"
    /\ tick = "acking"
    /\ closer' = "acked"
    /\ tick' = "returned"
    /\ UNCHANGED <<now, addVars, closest, fired, stopped, chanClosed, closes>>

(* stopNotify = nil and close(updateNotify).                               *)
CloseChanLeftOpen ==
    /\ closer = "acked"
    /\ closer' = "idle"
    /\ UNCHANGED <<now, addVars, tickVars, stopped, chanClosed, closes>>
CloseChan ==
    /\ closer = "acked"
    /\ closer' = "idle"
    /\ chanClosed' = TRUE
    /\ UNCHANGED <<now, addVars, tickVars, stopped, closes>>

----------------------------------------------------------------------------
Next ==
    \/ Advance
    \/ \E v \in Values : AddCheck(v) \/ AddPush(v) \/ AddPanic(v) \/ Notified(v)
    \/ Scan
    \/ Fire
    \/ CloseStore
    \/ CloseSend
    \/ CloseAck
    \/ CloseChan

Spec == Init /\ [][Next]_vars

(***************************************************************************)
(* Goroutines that can run do run, and time passes.  Nobody is obliged to  *)
(* call Add or Close, so AddCheck and CloseStore carry no fairness.        *)
(***************************************************************************)
Fairness ==
    /\ WF_vars(Advance)
    /\ WF_vars(Scan)
    /\ WF_vars(Fire)
    /\ WF_vars(CloseSend)
    /\ WF_vars(CloseAck)
    /\ WF_vars(CloseChan)
    /\ \A v \in Values :
         WF_vars(AddPush(v)) /\ WF_vars(AddPanic(v)) /\ WF_vars(Notified(v))

FairSpec == Spec /\ Fairness

----------------------------------------------------------------------------
(***************************************************************************)
(* No wake-up is lost: whatever tick waits for, a slot that is due earlier *)
(* belongs to an Add that has not delivered its notification yet.          *)
(***************************************************************************)
WakeupPending ==
    /\ tick = "armed" =>
         /\ closest \in slots
         /\ \A v \in slots : target[v] < target[closest] => add[v] = "pushed"
    /\ tick = "empty" => \A v \in slots : add[v] = "pushed"

(***************************************************************************)
(* A value is dispatched at most once, never while it is still in the      *)
(* list, and only for an Add that found the wheel running.                 *)
(***************************************************************************)
DispatchedOnce ==
    \A v \in Values :
        /\ fired[v] <= 1 /\ (v \in slots => fired[v] = 0)
        /\ fired[v] > 0 => add[v] \in {"pushed", "done", "panicked"}
        /\ fired[v] > 0 => target[v] <= now

(***************************************************************************)
(* Dispatch order: when a slot is dispatched, every slot that stays in the *)
(* list although it is due earlier belongs to an Add still in progress.    *)
(***************************************************************************)
EarliestFirst ==
    [][\A v \in Values : fired'[v] > fired[v] =>
         \A w \in slots : target[w] < target[v] => add[w] = "pushed"]_vars

(***************************************************************************)
(* After Close returned the tick goroutine is gone: nothing is dispatched. *)
(***************************************************************************)
QuietAfterClose == [][chanClosed => fired' = fired]_vars

(* The wheel as a schedule: an entry is in it from PushBack on, its caller *)
(* is told when Add returns, and it is shut once Close closed the channel. *)
Listed(v) == v \in slots \/ fired[v] > 0
schedStatus == [v \in Values |-> IF fired[v] > 0 THEN "dispatched"
                                 ELSE IF v \in slots THEN "waiting" ELSE "new"]
schedWhen == [v \in Values |-> IF Listed(v) THEN target[v] ELSE 0]
schedReturned == {v \in Values : add[v] = "done"}

Sched == INSTANCE Schedule WITH
    Entries <- Values, Horizon <- MaxTime, clock <- now, status <- schedStatus,
    when <- schedWhen, returned <- schedReturned, shut <- chanClosed

(***************************************************************************)
(* The wheel is a schedule: dispatch at most once, not early, in due order *)
(* among the Adds that returned, never after Close.  tick keeps its choice *)
(* while Adds go on behind its back, and the promise holds nevertheless.   *)
(***************************************************************************)
ImplementsSchedule == Sched!SSpec

(* Every slot is dispatched, unless the wheel is stopped first.            *)
EverySlotFires == \A v \in Values : v \in slots ~> (fired[v] > 0 \/ stopped)

(* Add and Close return: neither is left blocked on a channel.             *)
AddReturns == \A v \in Values : add[v] = "checked" ~>
                                add[v] \in {"done", "panicked"}
CloseReturns == closer = "stored" ~> closer = "idle"

(***************************************************************************)
(* Nobody waits for ever on the wheel's channels: every slot is dispatched *)
(* or the wheel is stopped first, and every Add and every Close returns,   *)
(* though Add, Close and tick rendezvous with each other.                  *)
(***************************************************************************)
WheelProgress == EverySlotFires /\ AddReturns /\ CloseReturns
=============================================================================
