-------------------------- MODULE TimeWheelProofs --------------------------
(***************************************************************************)
(* TimeWheel for any set of Add calls, any bound on time and any number of *)
(* Close calls: the type invariant, WakeupPending and DispatchedOnce, and  *)
(* from them the two action properties and that the wheel implements       *)
(* Schedule.                                                               *)
(***************************************************************************)
EXTENDS TimeWheel, TLAPS

(* Where the Add of a value stands tells where its slot is: in the list or *)
(* dispatched from PushBack on, neither before.                            *)
AddOrder ==
    \A v \in Values : Listed(v) <=> add[v] \in {"pushed", "done", "panicked"}

(* The handshake of Close with tick: the channel is closed only after tick *)
(* acknowledged and returned.                                              *)
Handshake ==
    /\ tick = "acking" <=> closer = "sent"
    /\ closer = "acked" => tick = "returned"
    /\ chanClosed => tick = "returned" /\ closer = "idle"

IInv == TypeOK /\ AddOrder /\ Handshake /\ WakeupPending /\ DispatchedOnce

LEMMA InitIInv == Init => IInv
<1> SUFFICES ASSUME Init PROVE IInv
  OBVIOUS
<1>1. TypeOK
  <2>1. 0 \in Times
    BY MaxTimeAssumption DEF Times
  <2> QED
    BY <2>1 DEF Init, TypeOK, AddStates, TickStates, CloseStates
<1>2. AddOrder /\ Handshake
  BY DEF Init, AddOrder, Listed, Handshake
<1>3. WakeupPending
  BY DEF Init, WakeupPending
<1>4. DispatchedOnce
  <2> SUFFICES ASSUME NEW v \in Values
               PROVE  /\ fired[v] <= 1 /\ (v \in slots => fired[v] = 0)
                      /\ fired[v] > 0 => add[v] \in {"pushed", "done", "panicked"}
                      /\ fired[v] > 0 => target[v] <= now
    BY DEF DispatchedOnce
  <2>1. fired[v] = 0
    BY DEF Init
  <2> QED
    BY <2>1
<1> QED
  BY <1>1, <1>2, <1>3, <1>4 DEF IInv

LEMMA TypeStep == TypeOK /\ [Next]_vars => TypeOK'
<1> SUFFICES ASSUME TypeOK, [Next]_vars PROVE TypeOK'
  OBVIOUS
<1> USE DEF TypeOK, AddStates, TickStates, CloseStates, addVars, tickVars, closeVars
<1>1. CASE Advance
  BY <1>1 DEF Advance
<1>2. ASSUME NEW v \in Values, AddCheck(v) PROVE TypeOK'
  BY <1>2, MaxTimeAssumption DEF AddCheck, Times
<1>3. ASSUME NEW v \in Values, AddPush(v) PROVE TypeOK'
  BY <1>3 DEF AddPush
<1>4. ASSUME NEW v \in Values, AddPanic(v) PROVE TypeOK'
  BY <1>4 DEF AddPanic
<1>5. ASSUME NEW v \in Values, Notified(v) PROVE TypeOK'
  BY <1>5 DEF Notified
<1>6. CASE Scan
  BY <1>6 DEF Scan
<1>7. CASE Fire
  BY <1>7 DEF Fire
<1>8. CASE CloseStore
  BY <1>8 DEF CloseStore
<1>9. CASE CloseSend
  BY <1>9 DEF CloseSend
<1>10. CASE CloseAck
  BY <1>10 DEF CloseAck
<1>11. CASE CloseChan
  BY <1>11 DEF CloseChan
<1>12. CASE UNCHANGED vars
  BY <1>12 DEF vars
<1> QED
  BY <1>1, <1>2, <1>3, <1>4, <1>5, <1>6, <1>7, <1>8, <1>9, <1>10, <1>11, <1>12
  DEF Next

LEMMA OrderStep == IInv /\ [Next]_vars => AddOrder' /\ Handshake'
<1> SUFFICES ASSUME IInv, [Next]_vars PROVE AddOrder' /\ Handshake'
  OBVIOUS
<1> USE DEF IInv, TypeOK, AddOrder, Listed, Times, Handshake, AddStates, TickStates, CloseStates,
            addVars, tickVars, closeVars
<1>1. CASE Advance
  BY <1>1 DEF Advance
<1>2. ASSUME NEW v \in Values, AddCheck(v) PROVE AddOrder' /\ Handshake'
  BY <1>2 DEF AddCheck
<1>3. ASSUME NEW v \in Values, AddPush(v) PROVE AddOrder' /\ Handshake'
  BY <1>3 DEF AddPush
<1>4. ASSUME NEW v \in Values, AddPanic(v) PROVE AddOrder' /\ Handshake'
  BY <1>4 DEF AddPanic
<1>5. ASSUME NEW v \in Values, Notified(v) PROVE AddOrder' /\ Handshake'
  BY <1>5 DEF Notified
<1>6. CASE Scan
  BY <1>6 DEF Scan
<1>7. CASE Fire
  BY <1>7 DEF Fire, WakeupPending
<1>8. CASE CloseStore
  BY <1>8 DEF CloseStore
<1>9. CASE CloseSend
  BY <1>9 DEF CloseSend
<1>10. CASE CloseAck
  BY <1>10 DEF CloseAck
<1>11. CASE CloseChan
  BY <1>11 DEF CloseChan
<1>12. CASE UNCHANGED vars
  BY <1>12 DEF vars
<1> QED
  BY <1>1, <1>2, <1>3, <1>4, <1>5, <1>6, <1>7, <1>8, <1>9, <1>10, <1>11, <1>12
  DEF Next

LEMMA WakeupStep == IInv /\ [Next]_vars => WakeupPending'
<1> SUFFICES ASSUME IInv, [Next]_vars PROVE WakeupPending'
  OBVIOUS
<1> USE DEF IInv, TypeOK, Times, WakeupPending, AddStates, TickStates, CloseStates,
            addVars, tickVars, closeVars
<1>1. CASE Advance
  BY <1>1 DEF Advance
<1>2. ASSUME NEW v \in Values, AddCheck(v) PROVE WakeupPending'
  <2>1. v \notin slots
    BY <1>2 DEF AddCheck, AddOrder, Listed
  <2> QED
    BY <1>2, <2>1 DEF AddCheck
<1>3. ASSUME NEW v \in Values, AddPush(v) PROVE WakeupPending'
  BY <1>3 DEF AddPush
<1>4. ASSUME NEW v \in Values, AddPanic(v) PROVE WakeupPending'
  BY <1>4 DEF AddPanic, Handshake
<1>5. ASSUME NEW v \in Values, Notified(v) PROVE WakeupPending'
  BY <1>5 DEF Notified
<1>6. CASE Scan
  BY <1>6 DEF Scan, IsClosest
<1>7. CASE Fire
  BY <1>7 DEF Fire
<1>8. CASE CloseStore
  BY <1>8 DEF CloseStore
<1>9. CASE CloseSend
  BY <1>9 DEF CloseSend
<1>10. CASE CloseAck
  BY <1>10 DEF CloseAck
<1>11. CASE CloseChan
  BY <1>11 DEF CloseChan
<1>12. CASE UNCHANGED vars
  BY <1>12 DEF vars
<1> QED
  BY <1>1, <1>2, <1>3, <1>4, <1>5, <1>6, <1>7, <1>8, <1>9, <1>10, <1>11, <1>12
  DEF Next

LEMMA DispatchStep == IInv /\ [Next]_vars => DispatchedOnce'
<1> SUFFICES ASSUME IInv, [Next]_vars PROVE DispatchedOnce'
  OBVIOUS
<1> USE DEF IInv, TypeOK, Times, DispatchedOnce, AddStates, addVars, tickVars, closeVars
<1>1. CASE Advance
  BY <1>1 DEF Advance
<1>2. ASSUME NEW v \in Values, AddCheck(v) PROVE DispatchedOnce'
  <2>1. ~(fired[v] > 0)
    BY <1>2 DEF AddCheck
  <2> QED
    BY <1>2, <2>1 DEF AddCheck
<1>3. ASSUME NEW v \in Values, AddPush(v) PROVE DispatchedOnce'
  <2>1. fired[v] = 0
    BY <1>3 DEF AddPush
  <2> QED
    BY <1>3, <2>1 DEF AddPush
<1>4. ASSUME NEW v \in Values, AddPanic(v) PROVE DispatchedOnce'
  BY <1>4 DEF AddPanic
<1>5. ASSUME NEW v \in Values, Notified(v) PROVE DispatchedOnce'
  BY <1>5 DEF Notified
<1>6. CASE Scan
  BY <1>6 DEF Scan
<1>7. CASE Fire
  <2>1. closest \in slots /\ fired[closest] = 0
    BY <1>7 DEF Fire, WakeupPending
  <2>2. add[closest] \in {"pushed", "done", "panicked"}
    BY <2>1 DEF AddOrder, Listed
  <2> QED
    BY <1>7, <2>1, <2>2 DEF Fire
<1>8. CASE CloseStore
  BY <1>8 DEF CloseStore
<1>9. CASE CloseSend
  BY <1>9 DEF CloseSend
<1>10. CASE CloseAck
  BY <1>10 DEF CloseAck
<1>11. CASE CloseChan
  BY <1>11 DEF CloseChan
<1>12. CASE UNCHANGED vars
  BY <1>12 DEF vars
<1> QED
  BY <1>1, <1>2, <1>3, <1>4, <1>5, <1>6, <1>7, <1>8, <1>9, <1>10, <1>11, <1>12
  DEF Next

LEMMA Inductive == Spec => []IInv
<1>1. IInv /\ [Next]_vars => IInv'
  BY TypeStep, OrderStep, WakeupStep, DispatchStep DEF IInv
<1> QED
  BY InitIInv, <1>1, PTL DEF Spec

(***************************************************************************)
(* The state of the wheel is well typed; an armed tick has a slot to fire. *)
(***************************************************************************)
THEOREM TypeCorrect == Spec => []TypeOK
<1>1. IInv => TypeOK
  BY DEF IInv
<1> QED
  BY Inductive, <1>1, PTL

(***************************************************************************)
(* tick never sleeps past a slot whose Add has returned.                   *)
(***************************************************************************)
THEOREM NoLostWakeup == Spec => []WakeupPending
<1>1. IInv => WakeupPending
  BY DEF IInv
<1> QED
  BY Inductive, <1>1, PTL

(***************************************************************************)
(* The wheel calls dispatch at most once for each Add, not before it is    *)
(* due, and has removed the slot from the list by then.                    *)
(***************************************************************************)
THEOREM AtMostOnce == Spec => []DispatchedOnce
<1>1. IInv => DispatchedOnce
  BY DEF IInv
<1> QED
  BY Inductive, <1>1, PTL

(* The only step that calls dispatch is Fire, for closestSlot.             *)
LEMMA OnlyFire ==
    ASSUME TypeOK, [Next]_vars, NEW v \in Values, fired'[v] # fired[v]
    PROVE  Fire /\ v = closest
  BY DEF TypeOK, Next, vars, Advance, AddCheck, AddPush, AddPanic, Notified, Scan,
         Fire, CloseStore, CloseSend, CloseAck, CloseChan, addVars, tickVars, closeVars

(***************************************************************************)
(* Slots are dispatched in the order they are due, as far as their Adds    *)
(* have returned.                                                          *)
(***************************************************************************)
THEOREM DueOrder == Spec => EarliestFirst
<1>1. IInv /\ [Next]_vars =>
        [\A v \in Values : fired'[v] > fired[v] =>
            \A w \in slots : target[w] < target[v] => add[w] = "pushed"]_vars
  <2> SUFFICES ASSUME IInv, [Next]_vars, NEW v \in Values, fired'[v] > fired[v],
                      NEW w \in slots, target[w] < target[v]
               PROVE  add[w] = "pushed"
    OBVIOUS
  <2>1. Fire /\ v = closest
    BY OnlyFire DEF IInv, TypeOK
  <2> QED
    BY <2>1 DEF Fire, IInv, WakeupPending
<1> QED
  BY Inductive, <1>1, PTL DEF Spec, EarliestFirst

(***************************************************************************)
(* Once Close has returned, dispatch is not called again.                  *)
(***************************************************************************)
THEOREM NothingAfterClose == Spec => QuietAfterClose
<1>1. IInv /\ [Next]_vars => [chanClosed => fired' = fired]_vars
  BY DEF IInv, Handshake, Next, vars, Advance, AddCheck, AddPush, AddPanic, Notified,
         Scan, Fire, CloseStore, CloseSend, CloseAck, CloseChan,
         addVars, tickVars, closeVars
<1> QED
  BY Inductive, <1>1, PTL DEF Spec, QuietAfterClose

----------------------------------------------------------------------------
(* The wheel implements Schedule: one lemma for the steps that the         *)
(* schedule does not see, one for each step it does.                       *)

mapped == <<now, slots, fired, chanClosed>>

LEMMA StutterStep ==
    ASSUME IInv, UNCHANGED mapped,
           \A v \in Values : Listed(v) => target'[v] = target[v],
           \A v \in Values : add'[v] = "done" <=> add[v] = "done"
    PROVE  UNCHANGED Sched!schedVars
  BY DEF mapped, Listed, Sched!schedVars, schedStatus, schedWhen, schedReturned

LEMMA InsertStep ==
    ASSUME IInv, NEW v \in Values, AddPush(v)
    PROVE  Sched!Insert(v)
<1> USE DEF AddPush, IInv, TypeOK, addVars, tickVars, closeVars
<1>1. ~Listed(v) /\ target[v] \in 0 .. MaxTime
  BY DEF AddOrder, Times
<1>2. schedStatus[v] = "new" /\ schedStatus' = [schedStatus EXCEPT ![v] = "waiting"]
  BY <1>1 DEF schedStatus, Listed
<1>3. schedWhen' = [schedWhen EXCEPT ![v] = target[v]]
  BY <1>1 DEF schedWhen, Listed
<1>4. schedReturned' = schedReturned
  BY DEF schedReturned
<1> QED
  BY <1>1, <1>2, <1>3, <1>4 DEF Sched!Insert

LEMMA ReturnStep ==
    ASSUME IInv, NEW v \in Values, Notified(v)
    PROVE  Sched!Return(v)
<1> USE DEF Notified, IInv, TypeOK, addVars, tickVars, closeVars
<1>1. Listed(v)
  BY DEF AddOrder
<1>2. schedStatus[v] # "new" /\ schedStatus' = schedStatus
  BY <1>1 DEF schedStatus, Listed
<1>3. schedWhen' = schedWhen
  BY DEF schedWhen, Listed
<1>4. v \notin schedReturned /\ schedReturned' = schedReturned \union {v}
  BY DEF schedReturned
<1> QED
  BY <1>2, <1>3, <1>4 DEF Sched!Return

LEMMA FireStep ==
    ASSUME IInv, Fire
    PROVE  closest \in Values /\ Sched!DispatchEntry(closest)
<1> USE DEF Fire, IInv, TypeOK, addVars, tickVars, closeVars
<1>1. closest \in Values /\ closest \in slots /\ ~(fired[closest] > 0) /\ ~chanClosed
  BY DEF WakeupPending, DispatchedOnce, Handshake
<1>2. /\ schedStatus[closest] = "waiting"
      /\ schedStatus' = [schedStatus EXCEPT ![closest] = "dispatched"]
  <2>1. fired'[closest] > 0
    BY <1>1
  <2>2. \A v \in Values \ {closest} : fired'[v] = fired[v] /\ (v \in slots' <=> v \in slots)
    BY <1>1
  <2> HIDE DEF Fire, IInv, TypeOK
  <2>3. \A v \in Values : schedStatus'[v] = IF v = closest THEN "dispatched" ELSE schedStatus[v]
    BY <2>1, <2>2 DEF schedStatus
  <2> QED
    BY <1>1, <2>3 DEF schedStatus
<1>3. schedWhen' = schedWhen /\ schedWhen[closest] = target[closest]
  BY <1>1 DEF schedWhen, Listed
<1>4. schedReturned' = schedReturned
  BY DEF schedReturned
<1>5. ASSUME NEW w \in schedReturned, schedStatus[w] = "waiting"
      PROVE  schedWhen[closest] <= schedWhen[w]
  <2>1. w \in Values /\ w \in slots /\ add[w] = "done"
    BY <1>5 DEF schedReturned, schedStatus
  <2>2. target[closest] <= target[w]
    BY <1>1, <2>1 DEF WakeupPending, Times
  <2> QED
    BY <1>3, <2>1, <2>2 DEF schedWhen, Listed
<1> QED
  BY <1>1, <1>2, <1>3, <1>4, <1>5 DEF Sched!DispatchEntry

(***************************************************************************)
(* The wheel of timewheel.go is a schedule: every step of its goroutines   *)
(* and channels is a step of Schedule or changes nothing there.            *)
(***************************************************************************)
THEOREM Implements == Spec => ImplementsSchedule
<1>1. Init => Sched!SInit
  <2> SUFFICES ASSUME Init PROVE Sched!SInit
    OBVIOUS
  <2>1. \A v \in Values : ~(fired[v] > 0) /\ ~Listed(v) /\ add[v] # "done"
    <3> TAKE v \in Values
    <3>1. fired[v] = 0 /\ v \notin slots /\ add[v] = "idle"
      BY DEF Init
    <3> QED
      BY <3>1 DEF Listed
  <2>2. schedStatus = [v \in Values |-> "new"]
    BY <2>1 DEF Init, schedStatus
  <2>3. schedWhen = [v \in Values |-> 0] /\ schedReturned = {}
    BY <2>1 DEF schedWhen, schedReturned
  <2> QED
    BY <2>2, <2>3 DEF Init, Sched!SInit
<1>2. IInv /\ [Next]_vars => [Sched!SNext]_(Sched!schedVars)
  <2> SUFFICES ASSUME IInv, [Next]_vars PROVE [Sched!SNext]_(Sched!schedVars)
    OBVIOUS
  <2> USE DEF mapped, addVars, tickVars, closeVars
  <2>1. CASE Advance
    <3>1. schedStatus' = schedStatus /\ schedWhen' = schedWhen /\ schedReturned' = schedReturned
      BY <2>1 DEF Advance, schedStatus, schedWhen, schedReturned, Listed
    <3> QED
      BY <2>1, <3>1 DEF Advance, Sched!SNext, Sched!TimePasses
  <2>2. ASSUME NEW v \in Values, AddCheck(v) PROVE UNCHANGED Sched!schedVars
    <3>1. ~Listed(v)
      BY <2>2 DEF AddCheck, IInv, AddOrder
    <3>2. \A w \in Values : add'[w] = "done" <=> add[w] = "done"
      BY <2>2 DEF AddCheck, IInv, TypeOK
    <3>3. \A w \in Values : Listed(w) => target'[w] = target[w]
      BY <2>2, <3>1 DEF AddCheck, IInv, TypeOK
    <3> QED
      BY <2>2, <3>2, <3>3, StutterStep DEF AddCheck
  <2>3. ASSUME NEW v \in Values, AddPush(v) PROVE Sched!SNext
    BY <2>3, InsertStep DEF Sched!SNext
  <2>4. ASSUME NEW v \in Values, AddPanic(v) PROVE UNCHANGED Sched!schedVars
    <3>1. \A w \in Values : add'[w] = "done" <=> add[w] = "done"
      BY <2>4 DEF AddPanic, IInv, TypeOK
    <3> QED
      BY <2>4, <3>1, StutterStep DEF AddPanic
  <2>5. ASSUME NEW v \in Values, Notified(v) PROVE Sched!SNext
    BY <2>5, ReturnStep DEF Sched!SNext
  <2>6. CASE Fire
    BY <2>6, FireStep DEF Sched!SNext
  <2>7. CASE Scan \/ CloseStore \/ CloseSend \/ CloseAck \/ UNCHANGED vars
    BY <2>7, StutterStep DEF Scan, CloseStore, CloseSend, CloseAck, vars
  <2>8. CASE CloseChan
    <3>1. ~chanClosed
      BY <2>8 DEF CloseChan, IInv, Handshake
    <3>2. schedStatus' = schedStatus /\ schedWhen' = schedWhen /\ schedReturned' = schedReturned
      BY <2>8 DEF CloseChan, schedStatus, schedWhen, schedReturned, Listed
    <3> QED
      BY <2>8, <3>1, <3>2 DEF CloseChan, Sched!SNext, Sched!ShutDown
  <2> QED
    BY <2>1, <2>2, <2>3, <2>4, <2>5, <2>6, <2>7, <2>8 DEF Next
<1> QED
  BY Inductive, <1>1, <1>2, PTL DEF Spec, ImplementsSchedule, Sched!SSpec
=============================================================================
