------------------------------- MODULE Views -------------------------------
(***************************************************************************)
(* What the connections that have one mailbox selected are told of it.     *)
(* Every connection keeps a handle: the list of UIDs its client knows by   *)
(* sequence number, and the updates it has not been told yet.  The update  *)
(* manager passes what one connection, a delivery or another process does  *)
(* to the mailbox to all handles, at a moment that is not the moment of    *)
(* the commit; Sync turns what is pending into the responses of the        *)
(* protocol.                                                               *)
(*                                                                         *)
(* Flags are left out of the state but for the fact that they changed.     *)
(***************************************************************************)
EXTENDS Integers, Sequences, FiniteSets, SequencesExt

CONSTANTS
    Conns,       \* the connections
    MaxUid,      \* bound on the messages ever created
    MaxSelects,  \* bound on the SELECTs
    MaxOps       \* bound on the commands that change the mailbox, the IDLEs,
                 \* the commits that fail and the messages the pipe loses

ASSUME BoundsAssumption == MaxUid \in Nat /\ MaxOps \in Nat

VARIABLES
    db,      \* uids: the committed messages; next: UIDNEXT
    tx,      \* the writing transaction: a delivery or an append
    dlv,     \* UIDs of committed deliveries whose NewMessage is still to come
    pipe,    \* updates of another process on their way
    h,       \* the handles, with what the client knows
    ghost,   \* what the properties remember of the past
    count    \* the counters the bounds are about

vars == <<db, tx, dlv, pipe, h, ghost, count>>

Uid == 1..MaxUid
Sorted(S) == SetToSortSeq(S, <)
NoTx == [k |-> "none", uid |-> 0]
NoJob == [k |-> "none", uids |-> {}]

(* st: closed, reading (initSelected done, not registered), ready, cmd     *)
(* (inside a command, its commit done) or idle.  note is the token of      *)
(* idleerNotify; view is the list of messages the client believes in.      *)
Closed == [st |-> "closed", uidMap |-> <<>>, pendingCreated |-> {},
           pendingExpunge |-> {}, pendingFlags |-> {}, note |-> FALSE,
           job |-> NoJob, view |-> <<>>]

Init ==
    /\ db = [uids |-> {}, next |-> 1]
    /\ tx = NoTx
    /\ dlv = {}
    /\ pipe = <<>>
    /\ h = [c \in Conns |-> Closed]
    /\ ghost = [told |-> {}, gone |-> {}, failed |-> {}, lost |-> {},
                late |-> {}, missed |-> [c \in Conns |-> {}], stale |-> [c \in Conns |-> {}],
                zombie |-> [c \in Conns |-> {}]]
    /\ count = [sel |-> 0, ops |-> 0]

-----------------------------------------------------------------------------
(* Sequence numbers.  A range with a 0 reaches to the last message.        *)

None == [lo |-> 0, hi |-> 0]
Search(m, u) == 1 + Cardinality({i \in DOMAIN m : m[i] < u})

(* A single UID that is not in the list is taken for the next one that is. *)
uidToSeq(m, lo, hi) ==
    IF m = <<>> \/ lo > m[Len(m)] \/ (hi # 0 /\ hi < m[1]) THEN None
    ELSE LET a == IF lo = 0 THEN Len(m) ELSE Search(m, lo)
             b == CASE hi = 0 \/ hi > m[Len(m)] -> Len(m)
                    [] lo = hi -> a
                    [] OTHER -> IF m[Search(m, hi)] = hi THEN Search(m, hi)
                                ELSE Search(m, hi) - 1
         IN  IF a > b THEN None ELSE [lo |-> a, hi |-> b]

seqToUid(m, lo, hi) ==
    IF m = <<>> \/ lo > Len(m) THEN None
    ELSE LET a == IF lo = 0 THEN m[Len(m)] ELSE m[lo]
         IN  IF lo = hi THEN [lo |-> a, hi |-> a]
             ELSE [lo |-> a, hi |-> IF hi = 0 \/ hi > Len(m) THEN m[Len(m)] ELSE m[hi]]

(* The UIDs a command's set names: by UID any number in the range, which may *)
(* be gone or unknown to the client; by sequence number the messages between.*)
ResolveSeq(m, uid, lo, hi) ==
    IF m = <<>> THEN {}
    ELSE LET star(n) == IF n = 0 THEN m[Len(m)] ELSE n
             r == IF uid THEN [lo |-> IF star(lo) < star(hi) THEN star(lo) ELSE star(hi),
                               hi |-> IF star(lo) < star(hi) THEN star(hi) ELSE star(lo)]
                  ELSE seqToUid(m, lo, hi)
         IN  IF r = None THEN {} ELSE r.lo..r.hi

-----------------------------------------------------------------------------
(* Handles.                                                                *)

Registered == {c \in Conns : h[c].st \in {"ready", "cmd", "idle"}}
Pending(x) == x.pendingCreated # {} \/ x.pendingExpunge # {} \/ x.pendingFlags # {}

(* idleUpdate: the channel holds one token.                                *)
idleUpdate(x) == [x EXCEPT !.note = @ \/ x.st = "idle"]

newMessages(hs, u) ==
    [c \in Conns |-> IF c \in Registered
                     THEN idleUpdate([hs[c] EXCEPT !.pendingCreated = @ \cup {u}])
                     ELSE hs[c]]

removedSet(hs, us) ==
    [c \in Conns |-> IF c \in Registered
                     THEN idleUpdate([hs[c] EXCEPT !.pendingExpunge = @ \cup us])
                     ELSE hs[c]]

flagsChanged(hs, u, who) ==
    [c \in Conns |-> IF c \in who
                     THEN idleUpdate([hs[c] EXCEPT !.pendingFlags = @ \cup {u}])
                     ELSE hs[c]]

(* Variant: from the first to the last.                                    *)
ExpungesUpwards(x, us) ==
    LET at == Sorted({i \in DOMAIN x.uidMap : x.uidMap[i] \in us})
    IN  [i \in DOMAIN at |-> [k |-> "expunge", n |-> at[i], tail |-> <<>>]]

(* The responses of Sync, in the order they are sent: flags, expunges from *)
(* the last to the first, and the new number of messages.                  *)
Expunges(x, us) ==
    LET at == Reverse(Sorted({i \in DOMAIN x.uidMap : x.uidMap[i] \in us}))
    IN  [i \in DOMAIN at |-> [k |-> "expunge", n |-> at[i], tail |-> <<>>]]

(* What the client makes of a response.  An EXISTS names the number of     *)
(* messages; tail is what the server means by the new numbers.             *)
SendUpdate(view, r) ==
    CASE r.k = "expunge" -> SubSeq(view, 1, r.n - 1) \o SubSeq(view, r.n + 1, Len(view))
      [] r.k = "exists" -> SubSeq(view, 1, r.n - Len(r.tail)) \o r.tail
      [] OTHER -> view

Sync(x, expunge) ==
    LET dead == IF expunge THEN x.pendingExpunge ELSE {}
        live == SelectSeq(x.uidMap, LAMBDA u : u \notin dead)
        new == Sorted(x.pendingCreated)
        map == live \o new
        flags == Sorted({uidToSeq(map, u, u).lo : u \in x.pendingFlags} \ {0})
        out == [i \in DOMAIN flags |-> [k |-> "flags", n |-> flags[i], tail |-> <<>>]]
               \o Expunges(x, dead)
               \o (IF new = <<>> THEN <<>>
                   ELSE <<[k |-> "exists", n |-> Len(map), tail |-> new]>>)
    IN  [x EXCEPT
            !.uidMap = map,
            !.pendingFlags = {},
            !.pendingExpunge = @ \ dead,
            !.pendingCreated = {},
            !.view = FoldLeft(SendUpdate, @, out)]

(* A message that is expunged before the handle learnt of its creation:    *)
(* the expunge finds nothing to remove and is forgotten.  The responses    *)
(* are sent after the lock is released; the connection does nothing else   *)
(* meanwhile, and the others only add to what is pending.                  *)
SyncAndSend(c, x, expunge) ==
    /\ h' = [h EXCEPT ![c] = Sync(x, expunge)]
    /\ ghost' = [ghost EXCEPT !.zombie[c] =
                    @ \cup (IF expunge THEN x.pendingExpunge \cap x.pendingCreated ELSE {})]

-----------------------------------------------------------------------------
(* SELECT, CLOSE, NOOP and IDLE.                                           *)

(* initSelected reads the UIDs in a transaction of its own ...             *)
initSelected(c) ==
    /\ h[c].st = "closed"
    /\ count.sel < MaxSelects
    /\ h' = [h EXCEPT ![c] = [Closed EXCEPT !.st = "reading", !.uidMap = Sorted(db.uids)]]
    /\ count' = [count EXCEPT !.sel = @ + 1]
    /\ UNCHANGED <<db, tx, dlv, pipe, ghost>>

(* ... and Manager.Mailbox registers the handle after it: what was told in *)
(* between is not told to this handle.                                     *)
Mailbox(c) ==
    /\ h[c].st = "reading"
    /\ h' = [h EXCEPT ![c].st = "ready", ![c].view = h[c].uidMap]
    /\ ghost' = [ghost EXCEPT
                    !.missed[c] = (ghost.told \cup ghost.lost) \ Range(h[c].uidMap),
                    !.stale[c] = ghost.gone \cap Range(h[c].uidMap),
                    !.zombie[c] = {}]
    /\ UNCHANGED <<db, tx, dlv, pipe, count>>

Close(c) ==
    /\ h[c].st = "ready"
    /\ h' = [h EXCEPT ![c] = Closed]
    /\ ghost' = [ghost EXCEPT !.missed[c] = {}, !.stale[c] = {}, !.zombie[c] = {}]
    /\ UNCHANGED <<db, tx, dlv, pipe, count>>

(* The end of a command polls; with expunges unless it used sequence numbers*)
Poll(c, expunge) ==
    /\ h[c].st = "ready"
    /\ Pending(h[c])
    /\ SyncAndSend(c, h[c], expunge)
    /\ UNCHANGED <<db, tx, dlv, pipe, count>>

(* Variant: what is pending waits for the next update.                     *)
IdleUnchecked(c) ==
    /\ h[c].st = "ready"
    /\ count.ops < MaxOps
    /\ h' = [h EXCEPT ![c].st = "idle", ![c].note = FALSE]
    /\ count' = [count EXCEPT !.ops = @ + 1]
    /\ UNCHANGED <<db, tx, dlv, pipe, ghost>>

(* Idle: what was pending before it is sent at once.                       *)
Idle(c) ==
    /\ h[c].st = "ready"
    /\ count.ops < MaxOps
    /\ h' = [h EXCEPT ![c].st = "idle", ![c].note = Pending(h[c])]
    /\ count' = [count EXCEPT !.ops = @ + 1]
    /\ UNCHANGED <<db, tx, dlv, pipe, ghost>>

IdleWakes(c) ==
    /\ h[c].st = "idle"
    /\ h[c].note
    /\ SyncAndSend(c, [h[c] EXCEPT !.note = FALSE], TRUE)
    /\ UNCHANGED <<db, tx, dlv, pipe, count>>

IdleDone(c) ==
    /\ h[c].st = "idle"
    /\ h' = [h EXCEPT ![c].st = "ready", ![c].note = FALSE]
    /\ UNCHANGED <<db, tx, dlv, pipe, ghost, count>>

-----------------------------------------------------------------------------
(* New messages.                                                           *)

Writable == tx.k = "none" /\ db.next <= MaxUid

(* A message may be expunged before its creation is told.                  *)
Told(u) == [ghost EXCEPT !.told = @ \cup {u}, !.late = @ \cup ({u} \cap ghost.gone)]

(* Variant: told before the commit.                                        *)
BodyParsedTells ==
    /\ Writable
    /\ tx' = [k |-> "deliver", uid |-> db.next]
    /\ h' = newMessages(h, db.next)
    /\ ghost' = Told(db.next)
    /\ UNCHANGED <<db, dlv, pipe, count>>

(* A delivery: the row in the transaction, the commit, then NewMessage.    *)
(* MOVE into the mailbox goes the same way.                                *)
BodyParsed ==
    /\ Writable
    /\ tx' = [k |-> "deliver", uid |-> db.next]
    /\ UNCHANGED <<db, dlv, pipe, h, ghost, count>>

Commit ==
    /\ tx.k = "deliver"
    /\ db' = [uids |-> db.uids \cup {tx.uid}, next |-> db.next + 1]
    /\ dlv' = dlv \cup {tx.uid}
    /\ tx' = NoTx
    /\ UNCHANGED <<pipe, h, ghost, count>>

NewMessage(u) ==
    /\ u \in dlv
    /\ dlv' = dlv \ {u}
    /\ h' = newMessages(h, u)
    /\ ghost' = Told(u)
    /\ UNCHANGED <<db, tx, pipe, count>>

(* APPEND and COPY tell the handles inside the transaction, before they    *)
(* know whether it commits.                                                *)
CreateMessage ==
    /\ Writable
    /\ tx' = [k |-> "append", uid |-> db.next]
    /\ h' = newMessages(h, db.next)
    /\ ghost' = Told(db.next)
    /\ UNCHANGED <<db, dlv, pipe, count>>

(* msgs add in another process: its manager has no handles and tells the   *)
(* pipe.                                                                   *)
CreateMessageOutside ==
    /\ Writable
    /\ tx' = [k |-> "outside", uid |-> db.next]
    /\ pipe' = Append(pipe, db.next)
    /\ UNCHANGED <<db, dlv, h, ghost, count>>

AppendCommit ==
    /\ tx.k \in {"append", "outside"}
    /\ db' = [uids |-> db.uids \cup {tx.uid}, next |-> db.next + 1]
    /\ tx' = NoTx
    /\ UNCHANGED <<dlv, pipe, h, ghost, count>>

(* Rollback: the UID is given again to the next message.                   *)
TxFails ==
    /\ tx.k # "none"
    /\ count.ops < MaxOps
    /\ tx' = NoTx
    /\ ghost' = [ghost EXCEPT !.failed = @ \cup (IF tx.k = "deliver" THEN {} ELSE {tx.uid})]
    /\ count' = [count EXCEPT !.ops = @ + 1]
    /\ UNCHANGED <<db, dlv, pipe, h>>

ExternalUpdate ==
    /\ pipe # <<>>
    /\ h' = newMessages(h, Head(pipe))
    /\ pipe' = Tail(pipe)
    /\ ghost' = Told(Head(pipe))
    /\ UNCHANGED <<db, tx, dlv, count>>

(* A write to the socket of the pipe that fails is logged and forgotten.   *)
PushFails ==
    /\ pipe # <<>>
    /\ count.ops < MaxOps
    /\ ghost' = [ghost EXCEPT !.lost = @ \cup {Head(pipe)}]
    /\ pipe' = Tail(pipe)
    /\ count' = [count EXCEPT !.ops = @ + 1]
    /\ UNCHANGED <<db, tx, dlv, h>>

-----------------------------------------------------------------------------
(* Commands that change messages: commit, then tell, then Sync.            *)

Command(c, job, uids) ==
    /\ h[c].st = "ready"
    /\ tx.k = "none"
    /\ uids # {}
    /\ count.ops < MaxOps
    /\ h' = [h EXCEPT ![c].st = "cmd", ![c].job = [k |-> job, uids |-> uids]]
    /\ count' = [count EXCEPT !.ops = @ + 1]
    /\ UNCHANGED <<tx, dlv, pipe, ghost>>

(* The messages with \Deleted are any: who set the flag does not matter.   *)
Expunge(c) ==
    \E dead \in SUBSET db.uids :
        /\ Command(c, "expunge", dead)
        /\ db' = [db EXCEPT !.uids = @ \ dead]

MoveMessages(c) ==
    \E uid \in BOOLEAN, lo \in 0..MaxUid, hi \in 0..MaxUid :
        LET moved == ResolveSeq(h[c].uidMap, uid, lo, hi) \cap db.uids
        IN  /\ Command(c, "move", moved)
            /\ db' = [db EXCEPT !.uids = @ \ moved]

UpdateMessagesFlags(c) ==
    \E uid \in BOOLEAN, lo \in 0..MaxUid :
        /\ Command(c, IF uid THEN "uidstore" ELSE "store",
                   ResolveSeq(h[c].uidMap, uid, lo, lo) \cap db.uids)
        /\ UNCHANGED db

(* Expunge tells all at once, MOVE and STORE one message at a time; the one *)
(* that asked for a silent STORE is left out.                              *)
RemovedSet(c) ==
    /\ h[c].job.k = "expunge"
    /\ h' = removedSet([h EXCEPT ![c].job = [@ EXCEPT !.k = "sync", !.uids = {}]], h[c].job.uids)
    /\ ghost' = [ghost EXCEPT !.gone = @ \cup h[c].job.uids]
    /\ UNCHANGED <<db, tx, dlv, pipe, count>>

NextJob(c, u) == [h[c].job EXCEPT !.uids = @ \ {u}]

Removed(c) ==
    /\ h[c].job.k = "move"
    /\ \E u \in h[c].job.uids :
         /\ h' = removedSet([h EXCEPT ![c].job =
                    IF @.uids = {u} THEN [k |-> "sync", uids |-> {}] ELSE NextJob(c, u)], {u})
         /\ ghost' = [ghost EXCEPT !.gone = @ \cup {u}]
    /\ UNCHANGED <<db, tx, dlv, pipe, count>>

FlagsChanged(c) ==
    /\ h[c].job.k \in {"store", "uidstore"}
    /\ \E u \in h[c].job.uids, silent \in BOOLEAN :
         h' = flagsChanged([h EXCEPT ![c].job =
                    IF @.uids = {u}
                    THEN [k |-> IF @.k = "store" THEN "flags" ELSE "sync", uids |-> {}]
                    ELSE NextJob(c, u)],
                 u, IF silent THEN Registered \ {c} ELSE Registered)
    /\ UNCHANGED <<db, tx, dlv, pipe, ghost, count>>

(* The deferred Sync of the command; after STORE with sequence numbers it  *)
(* sends no expunges.                                                      *)
CommandSync(c) ==
    /\ h[c].job.k \in {"sync", "flags"}
    /\ SyncAndSend(c, [h[c] EXCEPT !.st = "ready", !.job = NoJob], h[c].job.k = "sync")
    /\ UNCHANGED <<db, tx, dlv, pipe, count>>

-----------------------------------------------------------------------------
Next ==
    \/ \E c \in Conns :
         \/ initSelected(c) \/ Mailbox(c) \/ Close(c)
         \/ \E expunge \in BOOLEAN : Poll(c, expunge)
         \/ Idle(c) \/ IdleWakes(c) \/ IdleDone(c)
         \/ Expunge(c) \/ MoveMessages(c) \/ UpdateMessagesFlags(c)
         \/ RemovedSet(c) \/ Removed(c) \/ FlagsChanged(c) \/ CommandSync(c)
    \/ BodyParsed \/ Commit \/ CreateMessage \/ CreateMessageOutside
    \/ AppendCommit \/ TxFails \/ ExternalUpdate \/ PushFails
    \/ \E u \in Uid : NewMessage(u)

Spec == Init /\ [][Next]_vars

-----------------------------------------------------------------------------
(* Properties.                                                             *)

(* Once the responses are sent, the client's numbering is the server's: a  *)
(* command with sequence numbers reaches the messages the client means,    *)
(* and a UID has the place it has for both.                                *)
ClientInStep ==
    \A c \in Registered :
        /\ h[c].view = h[c].uidMap
        /\ \A i \in DOMAIN h[c].view :
             /\ h[c].view[i] \in ResolveSeq(h[c].uidMap, FALSE, i, i)
             /\ Cardinality(ResolveSeq(h[c].uidMap, FALSE, i, i)) = 1

(* Messages on their way to the handles, in appends and on their way out.  *)
Coming == dlv \cup Range(pipe) \cup ghost.lost
InAppend == ghost.failed \cup (IF tx.k \in {"append", "outside"} THEN {tx.uid} ELSE {})
Leaving == UNION {h[c].job.uids : c \in {d \in Conns : h[d].job.k \in {"expunge", "move"}}}

(* A registered handle has, or will be given, every committed message that *)
(* was not told in the gap of its SELECT or lost by the pipe; and what it  *)
(* numbers is committed, or is about to be taken away, or is an append that*)
(* has not committed, or is what the SELECT or Sync itself is known to     *)
(* leave behind.                                                           *)
ViewTracks ==
    \A c \in Registered :
        /\ db.uids \subseteq Range(h[c].uidMap) \cup h[c].pendingCreated
                              \cup ghost.missed[c] \cup Coming
        /\ Range(h[c].uidMap) \subseteq db.uids \cup h[c].pendingExpunge \cup Leaving
                              \cup InAppend \cup ghost.late \cup ghost.stale[c] \cup ghost.zombie[c]

(* No wakeup is lost: an idling connection that has something to tell its  *)
(* client holds the token that makes it tell, whoever added the update and *)
(* whether it came before, during or after the start of IDLE.              *)
IdleAwake ==
    \A c \in Conns : h[c].st = "idle" /\ Pending(h[c]) => h[c].note

=============================================================================
