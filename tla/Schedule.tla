------------------------------ MODULE Schedule ------------------------------
(***************************************************************************)
(* What the queue relies on of its time wheel, without goroutines, lists   *)
(* or channels: each entry is dispatched at most once, not before its      *)
(* time, before no entry that was announced earlier and is due earlier,    *)
(* and not after the schedule was shut down.                               *)
(***************************************************************************)
EXTENDS Naturals

CONSTANTS
    Entries,  \* what may be scheduled
    Horizon   \* bound on times

VARIABLES
    clock,
    status,   \* of each entry
    when,     \* the time it is due, once it is scheduled
    returned, \* entries whose caller was told that they are scheduled
    shut      \* the schedule was shut down

schedVars == <<clock, status, when, returned, shut>>

SInit ==
    /\ clock = 0
    /\ status = [e \in Entries |-> "new"]
    /\ when = [e \in Entries |-> 0]
    /\ returned = {}
    /\ shut = FALSE

TimePasses ==
    /\ clock' = clock + 1
    /\ UNCHANGED <<status, when, returned, shut>>

Insert(e) ==
    /\ status[e] = "new"
    /\ status' = [status EXCEPT ![e] = "waiting"]
    /\ \E t \in 0 .. Horizon : when' = [when EXCEPT ![e] = t]
    /\ UNCHANGED <<clock, returned, shut>>

(* The caller goes on; the entry may have been dispatched already.         *)
Return(e) ==
    /\ status[e] # "new" /\ e \notin returned
    /\ returned' = returned \union {e}
    /\ UNCHANGED <<clock, status, when, shut>>

DispatchEntry(e) ==
    /\ ~shut
    /\ status[e] = "waiting" /\ when[e] <= clock
    /\ \A f \in returned : status[f] = "waiting" => when[e] <= when[f]
    /\ status' = [status EXCEPT ![e] = "dispatched"]
    /\ UNCHANGED <<clock, when, returned, shut>>

ShutDown ==
    /\ ~shut /\ shut' = TRUE
    /\ UNCHANGED <<clock, status, when, returned>>

SNext ==
    \/ TimePasses \/ ShutDown
    \/ \E e \in Entries : Insert(e) \/ Return(e) \/ DispatchEntry(e)

SSpec == SInit /\ [][SNext]_schedVars
=============================================================================
