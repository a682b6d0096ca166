------------------------------- MODULE Queue -------------------------------
(***************************************************************************)
(* The delivery queue of internal/target/queue/queue.go: messages kept on  *)
(* disk as three files (header, body, meta-data), delivery attempts made   *)
(* by one goroutine each, retries scheduled on the time wheel, bounces for *)
(* the recipients given up on, process crashes, power loss, graceful       *)
(* shutdown, and the `queue purge` command that edits the same directory   *)
(* from another process.                                                   *)
(*                                                                         *)
(* The time wheel appears as what module TimeWheel shows of it: a set of   *)
(* slots, an Add that is ignored once the wheel is stopped and that panics *)
(* if the wheel is closed while the Add is in progress.  When a slot is    *)
(* due is left open.  The delivery target and the bounce pipeline are      *)
(* environment: any outcome their interfaces allow.                        *)
(*                                                                         *)
(* Next to some definitions stands a variant with a plausible slip, unused *)
(* by the specification: with it in place of the definition, the property  *)
(* the README names for it fails.                                          *)
(***************************************************************************)
EXTENDS Naturals, FiniteSets

CONSTANTS
    Msgs,            \* message identifiers, one queueDelivery each
    Rcpts,           \* recipient addresses
    Goroutines,      \* delivery goroutines
    NullSender,      \* messages with the null return path
    HasBounce,       \* a bounce pipeline is configured
    MaxTries,        \* max_tries
    MaxParallelism,  \* max_parallelism: capacity of deliverySemaphore
    IOFaults,        \* the steps whose I/O may fail
    TargetPanics,    \* the target may panic
    MaxFaults,       \* bound on crashes and failed meta-data updates
    MaxCloses,       \* bound on graceful shutdowns
    MaxPurges,       \* bound on purged messages
    MaxEvents        \* bound on all three and lost bounces together

ASSUME MsgsAssumption == Msgs # {}
ASSUME MaxTriesAssumption == MaxTries \in Nat \ {0}
ASSUME BoundsAssumption ==
    /\ MaxParallelism \in Nat \ {0}
    /\ MaxFaults \in Nat /\ MaxCloses \in Nat /\ MaxPurges \in Nat
    /\ MaxEvents \in Nat
ASSUME SwitchesAssumption ==
    /\ NullSender \subseteq Msgs
    /\ HasBounce \in BOOLEAN /\ TargetPanics \in BOOLEAN

VARIABLES
    \* the queue directory
    hdr,        \* <id>.header of each message
    body,       \* <id>.body
    meta,       \* <id>.meta: none, ok, or renamed to .meta_broken
    metaTo,     \* QueueMetadata.To as stored in <id>.meta
    metaTries,  \* QueueMetadata.TriesCount as stored
    \* the server process
    up,         \* the process runs
    wheel,      \* run; stopping: tw.stopped is set; closed: Close is done
    slots,      \* slots of the wheel; mem: the slot carries Meta, Hdr, Body
    sess,       \* what the message source has done with each message
    rcpts,      \* recipients added by the source
    job,        \* the delivery goroutines and their local variables
    \* the process that runs `queue purge`
    ppc, pmsg,
    \* history
    delivered,  \* how often the target committed each message for a recipient
    attempts,   \* delivery attempts per message and recipient
    failed,     \* recipients given up on, bounce tried
    reported,   \* those of them a bounce was enqueued for
    unsent,     \* messages with a bounce that could not be enqueued
    damaged,    \* messages delivered from a torn file
    panicked,   \* messages whose target panicked
    purged,     \* messages selected by a purge
    faults, closes, purges

diskVars == <<hdr, body, meta, metaTo, metaTries>>
sessVars == <<sess, rcpts>>
procVars == <<up, wheel>>
purgeVars == <<ppc, pmsg, purged, purges>>
histVars == <<delivered, attempts, failed, reported, unsent, damaged, panicked>>

vars == <<diskVars, procVars, slots, sessVars, job, purgeVars, histVars,
          faults, closes>>

FileStates == {"none", "written", "synced", "torn"}
SessStates == {"none", "rcpt", "body", "meta", "sync", "stored", "push", "send",
               "rmHdr", "rmBody", "rmMeta", "accepted", "rejected", "unsynced", "lost"}
GStates == {"idle", "wait", "open", "start", "body", "commit",
            "classify", "dsn", "rmHdr", "rmBody", "rmMeta", "update", "add", "push", "send",
            "broken"}
Outcomes == {"ok", "temp", "perm"}
Errors   == {"temp", "perm"}
Slots    == [msg : Msgs, mem : BOOLEAN]

(* The locals of dispatch, tryDelivery and deliver: meta.To, TriesCount,   *)
(* partialError.Errs ("ok" is no entry), acceptedRcpts and failedRcpts.    *)
Jobs == [pc : GStates, msg : Msgs, to : SUBSET Rcpts, tries : [Rcpts -> Nat],
         err : [Rcpts -> Outcomes], took : SUBSET Rcpts, fail : SUBSET Rcpts]

Zero  == [r \in Rcpts |-> 0]
NoErr == [r \in Rcpts |-> "ok"]
Idle  == [pc |-> "idle", msg |-> CHOOSE m \in Msgs : TRUE, to |-> {},
          tries |-> Zero, err |-> NoErr, took |-> {}, fail |-> {}]

TypeOK ==
    /\ hdr \in [Msgs -> FileStates]
    /\ body \in [Msgs -> FileStates]
    /\ meta \in [Msgs -> {"none", "ok", "broken"}]
    /\ metaTo \in [Msgs -> SUBSET Rcpts]
    /\ metaTries \in [Msgs -> [Rcpts -> Nat]]
    /\ up \in BOOLEAN
    /\ wheel \in {"run", "stopping", "closed"}
    /\ slots \subseteq Slots
    /\ sess \in [Msgs -> SessStates]
    /\ rcpts \in [Msgs -> SUBSET Rcpts]
    /\ job \in [Goroutines -> Jobs]
    /\ ppc \in {"idle", "rmHdr", "rmBody", "rmMeta"}
    /\ pmsg \in Msgs
    /\ delivered \in [Msgs -> [Rcpts -> Nat]]
    /\ attempts \in [Msgs -> [Rcpts -> Nat]]
    /\ failed \in [Msgs -> SUBSET Rcpts]
    /\ reported \in [Msgs -> SUBSET Rcpts]
    /\ unsent \subseteq Msgs
    /\ damaged \subseteq Msgs
    /\ panicked \subseteq Msgs
    /\ purged \subseteq Msgs
    /\ faults \in Nat
    /\ closes \in Nat
    /\ purges \in Nat

(* Fewer than MaxEvents things went wrong: faults, shutdowns, purges, and   *)
(* messages whose bounce could not be enqueued.                            *)
Calm == faults + closes + purges + Cardinality(unsent) < MaxEvents

Init ==
    /\ hdr = [m \in Msgs |-> "none"]
    /\ body = [m \in Msgs |-> "none"]
    /\ meta = [m \in Msgs |-> "none"]
    /\ metaTo = [m \in Msgs |-> {}]
    /\ metaTries = [m \in Msgs |-> Zero]
    /\ up = TRUE
    /\ wheel = "run"
    /\ slots = {}
    /\ sess = [m \in Msgs |-> "none"]
    /\ rcpts = [m \in Msgs |-> {}]
    /\ job = [g \in Goroutines |-> Idle]
    /\ ppc = "idle"
    /\ pmsg = Idle.msg
    /\ delivered = [m \in Msgs |-> Zero]
    /\ attempts = [m \in Msgs |-> Zero]
    /\ failed = [m \in Msgs |-> {}]
    /\ reported = [m \in Msgs |-> {}]
    /\ unsent = {}
    /\ damaged = {} /\ panicked = {} /\ purged = {}
    /\ faults = 0 /\ closes = 0 /\ purges = 0

----------------------------------------------------------------------------
(* The files                                                               *)

(* removeFromDisk deletes header, body and meta-data in this order; the    *)
(* stage names the file that goes next.                                    *)
RemoveFile(stage, m) ==
    /\ hdr' = IF stage = "rmHdr" THEN [hdr EXCEPT ![m] = "none"] ELSE hdr
    /\ body' = IF stage = "rmBody" THEN [body EXCEPT ![m] = "none"] ELSE body
    /\ meta' = IF stage = "rmMeta" /\ meta[m] = "ok"
               THEN [meta EXCEPT ![m] = "none"] ELSE meta
    /\ UNCHANGED <<metaTo, metaTries>>

NextStage(stage, done) ==
    CASE stage = "rmHdr"  -> "rmBody"
      [] stage = "rmBody" -> "rmMeta"
      [] stage = "rmMeta" -> done

(* updateMetadataOnDisk writes <id>.meta.new, syncs it and renames it over *)
(* <id>.meta, so the file is either the old one or the whole new one.      *)
WriteMeta(m, to, tries) ==
    /\ meta' = [meta EXCEPT ![m] = "ok"]
    /\ metaTo' = [metaTo EXCEPT ![m] = to]
    /\ metaTries' = [metaTries EXCEPT ![m] = tries]

(* readDiskQueue: what it schedules, and what it cleans up on the way.     *)
Loadable == {m \in Msgs : meta[m] = "ok" /\ hdr[m] # "none" /\ body[m] # "none"}
Dangling == {m \in Msgs : meta[m] = "ok" /\ (hdr[m] = "none" \/ body[m] = "none")}

RemoveDangling ==
    /\ hdr' = [m \in Msgs |-> IF m \in Dangling THEN "none" ELSE hdr[m]]
    /\ body' = [m \in Msgs |-> IF m \in Dangling THEN "none" ELSE body[m]]
    /\ meta' = [m \in Msgs |-> IF m \in Dangling THEN "none" ELSE meta[m]]
    /\ UNCHANGED <<metaTo, metaTries>>

----------------------------------------------------------------------------
(* The message source: Queue.Start and the methods of queueDelivery        *)

Reject(m) == sess' = [sess EXCEPT ![m] = "rejected"]
StepTo(m, state) == sess' = [sess EXCEPT ![m] = state]

sessOnly == <<procVars, job, purgeVars, histVars, faults, closes>>

(* Queue.Start *)
Start(m) ==
    /\ up /\ sess[m] = "none"
    /\ StepTo(m, "rcpt")
    /\ UNCHANGED <<rcpts, diskVars, slots, sessOnly>>

(* queueDelivery.AddRcpt *)
AddRcpt(m, r) ==
    /\ up /\ sess[m] = "rcpt"
    /\ r \notin rcpts[m]
    /\ rcpts' = [rcpts EXCEPT ![m] = @ \union {r}]
    /\ UNCHANGED <<sess, diskVars, slots, sessOnly>>

(* queueDelivery.Body -> storeNewMessage, file by file.  A header or a     *)
(* body that cannot be created or copied is an error for the source; if it *)
(* is the body's os.Create that fails the header file stays behind.        *)
StoreHeader(m) ==
    /\ up /\ sess[m] = "rcpt" /\ rcpts[m] # {}
    /\ \/ /\ hdr' = [hdr EXCEPT ![m] = "written"]
          /\ StepTo(m, "body")
       \/ "header" \in IOFaults /\ Reject(m) /\ UNCHANGED hdr
    /\ UNCHANGED <<body, meta, metaTo, metaTries, rcpts, slots, sessOnly>>

StoreBody(m) ==
    /\ up /\ sess[m] = "body"
    /\ \/ /\ body' = [body EXCEPT ![m] = "written"]
          /\ StepTo(m, "meta")
          /\ UNCHANGED hdr
       \/ "create" \in IOFaults /\ Reject(m) /\ UNCHANGED <<hdr, body>>
       \/ /\ "copy" \in IOFaults /\ Reject(m)
          /\ hdr' = [hdr EXCEPT ![m] = "none"]
          /\ UNCHANGED body
    /\ UNCHANGED <<meta, metaTo, metaTries, rcpts, slots, sessOnly>>

StoreMeta(m) ==
    /\ up /\ sess[m] = "meta"
    /\ \/ /\ WriteMeta(m, rcpts[m], Zero)
          /\ StepTo(m, "sync")
          /\ UNCHANGED <<hdr, body>>
       \/ /\ "meta" \in IOFaults /\ Reject(m)
          /\ hdr' = [hdr EXCEPT ![m] = "none"]
          /\ body' = [body EXCEPT ![m] = "none"]
          /\ UNCHANGED <<meta, metaTo, metaTries>>
    /\ UNCHANGED <<rcpts, slots, sessOnly>>

Synced(f) == IF f = "written" THEN "synced" ELSE f

(* The two Sync calls come last; their failure is reported to the source   *)
(* and leaves all three files in place.                                    *)
StoreSyncHeaderOnly(m) ==
    /\ up /\ sess[m] = "sync"
    /\ hdr' = [hdr EXCEPT ![m] = Synced(@)]
    /\ StepTo(m, "stored")
    /\ UNCHANGED <<body, meta, metaTo, metaTries, rcpts, slots, sessOnly>>
StoreSync(m) ==
    /\ up /\ sess[m] = "sync"
    /\ \/ /\ hdr' = [hdr EXCEPT ![m] = Synced(@)]
          /\ body' = [body EXCEPT ![m] = Synced(@)]
          /\ StepTo(m, "stored")
       \/ "sync" \in IOFaults /\ StepTo(m, "unsynced") /\ UNCHANGED <<hdr, body>>
    /\ UNCHANGED <<meta, metaTo, metaTries, rcpts, slots, sessOnly>>

(* queueDelivery.Abort: nothing to undo unless Body succeeded.             *)
AbortKeepingFiles(m) ==
    /\ up
    /\ sess[m] \in {"rcpt", "stored"} /\ Reject(m)
    /\ UNCHANGED <<rcpts, diskVars, slots, sessOnly>>
Abort(m) ==
    /\ up
    /\ \/ sess[m] = "rcpt" /\ Reject(m)
       \/ sess[m] = "stored" /\ StepTo(m, "rmHdr")
    /\ UNCHANGED <<rcpts, diskVars, slots, sessOnly>>

AbortRemove(m) ==
    /\ up /\ sess[m] \in {"rmHdr", "rmBody", "rmMeta"}
    /\ RemoveFile(sess[m], m)
    /\ StepTo(m, NextStage(sess[m], "rejected"))
    /\ UNCHANGED <<rcpts, slots, sessOnly>>

(* queueDelivery.Commit: wheel.Add with the message held in memory.  A     *)
(* stopped wheel ignores the slot and Commit succeeds all the same.        *)
Commit(m) ==
    /\ up /\ sess[m] = "stored"
    /\ StepTo(m, IF wheel = "run" THEN "push" ELSE "accepted")
    /\ UNCHANGED <<rcpts, diskVars, slots, sessOnly>>

CommitPush(m) ==
    /\ up /\ sess[m] = "push"
    /\ slots' = slots \union {[msg |-> m, mem |-> TRUE]}
    /\ StepTo(m, "send")
    /\ UNCHANGED <<rcpts, diskVars, sessOnly>>

(* The panic of a send to a closed wheel ends the source's session.        *)
CommitSend(m) ==
    /\ up /\ sess[m] = "send"
    /\ StepTo(m, IF wheel = "closed" THEN "lost" ELSE "accepted")
    /\ UNCHANGED <<rcpts, diskVars, slots, sessOnly>>

----------------------------------------------------------------------------
(* The delivery goroutines: Queue.dispatch, tryDelivery, deliver           *)

gOnly == <<procVars, sessVars, purgeVars, closes>>

Goto(g, pc) == job' = [job EXCEPT ![g].pc = pc]
Return(g)   == job' = [job EXCEPT ![g] = Idle]

(* dispatch is called by the wheel and starts a goroutine for the slot.    *)
DispatchKeepingSlot(g, s) ==
    /\ up /\ wheel # "closed"
    /\ s \in slots /\ job[g].pc = "idle"
    /\ job' = [job EXCEPT ![g] = [Idle EXCEPT
                  !.pc = "wait", !.msg = s.msg,
                  !.to = IF s.mem THEN rcpts[s.msg] ELSE {}]]
    /\ UNCHANGED <<diskVars, slots, gOnly, histVars, faults>>
Dispatch(g, s) ==
    /\ up /\ wheel # "closed"
    /\ s \in slots /\ job[g].pc = "idle"
    /\ slots' = slots \ {s}
    /\ job' = [job EXCEPT ![g] = [Idle EXCEPT
                  !.pc = "wait", !.msg = s.msg,
                  !.to = IF s.mem THEN rcpts[s.msg] ELSE {}]]
    /\ UNCHANGED <<diskVars, gOnly, histVars, faults>>

(* The goroutines that hold deliverySemaphore.                             *)
Running == {g \in Goroutines : job[g].pc \notin {"idle", "wait", "broken"}}

(* A slot without Meta is read back from disk first; to tells them apart.  *)
Acquire(g) ==
    /\ up /\ job[g].pc = "wait"
    /\ Cardinality(Running) < MaxParallelism
    /\ Goto(g, IF job[g].to = {} THEN "open" ELSE "start")
    /\ UNCHANGED <<diskVars, slots, gOnly, histVars, faults>>

(* openMessage: missing files end the attempt, and what the code knows to  *)
(* be left of the message is removed; an unreadable header ends it too.    *)
OpenMessage(g) ==
    LET m == job[g].msg IN
    /\ up /\ job[g].pc = "open"
    /\ \/ /\ m \in Loadable
          /\ job' = [job EXCEPT ![g].pc = "start", ![g].to = metaTo[m],
                                ![g].tries = metaTries[m]]
          /\ UNCHANGED diskVars
       \/ /\ meta[m] # "ok" \/ (m \in Loadable /\ hdr[m] = "torn")
          /\ Return(g)
          /\ UNCHANGED diskVars
       \/ /\ m \in Dangling
          /\ Return(g)
          /\ meta' = [meta EXCEPT ![m] = "none"]
          /\ body' = [body EXCEPT ![m] = "none"]
          /\ UNCHANGED <<hdr, metaTo, metaTries>>
    /\ UNCHANGED <<slots, gOnly, histVars, faults>>

(* deliver: Target.Start and AddRcpt for every recipient.  A failed Start  *)
(* is an error for all of them; with no recipient accepted the target's    *)
(* Abort ends the attempt.                                                 *)
TargetStart(g) ==
    LET to == job[g].to IN
    /\ up /\ job[g].pc = "start"
    /\ attempts' = [attempts EXCEPT ![job[g].msg] =
                       [r \in Rcpts |-> IF r \in to THEN @[r] + 1 ELSE @[r]]]
    /\ \E e \in [to -> Outcomes] :
         LET took == {r \in to : e[r] = "ok"} IN
         job' = [job EXCEPT
                   ![g].err = [r \in Rcpts |-> IF r \in to THEN e[r] ELSE "ok"],
                   ![g].took = took,
                   ![g].pc = IF took # {} THEN "body" ELSE "classify"]
    /\ UNCHANGED <<diskVars, slots, gOnly, delivered, failed, reported, unsent,
                   damaged, panicked, faults>>

(* deliver: Body or BodyNonAtomic.  The target opens the body file; if it  *)
(* is gone all recipients fail temporarily.  The target's Abort ends the   *)
(* attempt if no recipient is left.                                        *)
TargetBody(g) ==
    LET m == job[g].msg
        took == job[g].took
    IN
    /\ up /\ job[g].pc = "body"
    /\ \E e \in [took -> IF body[m] = "none" THEN {"temp"} ELSE Outcomes] :
         LET good == {r \in took : e[r] = "ok"} IN
         /\ job' = [job EXCEPT
                      ![g].err = [r \in Rcpts |-> IF r \in took THEN e[r] ELSE @[r]],
                      ![g].pc = IF good # {} THEN "commit" ELSE "classify"]
         /\ damaged' = IF good # {} /\ "torn" \in {hdr[m], body[m]}
                       THEN damaged \union {m} ELSE damaged
    /\ UNCHANGED <<diskVars, slots, gOnly, delivered, attempts, failed,
                   reported, unsent, panicked, faults>>

(* deliver: Commit.  Its failure becomes the error of every recipient that *)
(* AddRcpt accepted, whatever Body said of it.                             *)
TargetCommit(g) ==
    LET good == {r \in job[g].took : job[g].err[r] = "ok"} IN
    /\ up /\ job[g].pc = "commit"
    /\ \/ /\ delivered' = [delivered EXCEPT ![job[g].msg] =
               [r \in Rcpts |-> IF r \in good THEN @[r] + 1 ELSE @[r]]]
          /\ Goto(g, "classify")
       \/ \E k \in Errors :
            /\ job' = [job EXCEPT ![g].pc = "classify", ![g].err =
                         [r \in Rcpts |-> IF r \in job[g].took THEN k ELSE @[r]]]
            /\ UNCHANGED delivered
    /\ UNCHANGED <<diskVars, slots, gOnly, attempts, failed, reported, unsent,
                   damaged, panicked, faults>>

(* The target panics inside deliver; the deferred handler of dispatch      *)
(* releases the semaphore and the wait group before it recovers.           *)
TargetPanic(g) ==
    /\ up /\ TargetPanics /\ job[g].pc \in {"start", "body", "commit"}
    /\ Goto(g, "broken")
    /\ panicked' = panicked \union {job[g].msg}
    /\ UNCHANGED <<diskVars, slots, gOnly, delivered, attempts, failed,
                   reported, unsent, damaged, faults>>

(* discardBroken: <id>.meta becomes <id>.meta_broken.                      *)
DiscardBroken(g) ==
    /\ up /\ job[g].pc = "broken"
    /\ Return(g)
    /\ meta' = [meta EXCEPT ![job[g].msg] = IF @ = "ok" THEN "broken" ELSE @]
    /\ UNCHANGED <<hdr, body, metaTo, metaTries, slots, gOnly, histVars, faults>>

(* The two lists tryDelivery splits the attempted recipients into.         *)
ExhaustedLate(j, r) == j.tries[r] + 1 > MaxTries
Exhausted(j, r) == j.tries[r] + 1 >= MaxTries

GivenUpPermanentOnly(j) == {r \in j.to : j.err[r] = "perm"}
GivenUpAll(j) == {r \in j.to : \E q \in j.to : j.err[q] = "perm"}
GivenUp(j) == {r \in j.to : \/ j.err[r] = "perm"
                            \/ j.err[r] = "temp" /\ Exhausted(j, r)}
Retried(j) == {r \in j.to : j.err[r] = "temp" /\ ~Exhausted(j, r)}

(* What follows the bounce: nothing left to try, or a retry.               *)
Afterwards(to) == IF to = {} THEN "rmHdr" ELSE "update"

(* TriesCount of a recipient that is given up on is deleted, that of a     *)
(* delivered one is left as it is.                                         *)
NewTries(j) ==
    [r \in Rcpts |-> IF r \in Retried(j) THEN j.tries[r] + 1
                     ELSE IF r \in GivenUp(j) THEN 0
                     ELSE j.tries[r]]

(* tryDelivery: the loop over meta.To.                                     *)
Classify(g) ==
    LET j == job[g] IN
    /\ up /\ j.pc = "classify"
    /\ job' = [job EXCEPT ![g] = [j EXCEPT
                  !.to = Retried(j),
                  !.fail = GivenUp(j),
                  !.tries = NewTries(j),
                  !.err = NoErr, !.took = {},
                  !.pc = IF GivenUp(j) # {} THEN "dsn" ELSE Afterwards(Retried(j))]]
    /\ UNCHANGED <<diskVars, slots, gOnly, histVars, faults>>

(* emitDSN: no bounce without a pipeline or for the null return path, and  *)
(* a bounce that cannot be enqueued is only logged.                        *)
EmitDSNWhenDone(g) ==
    LET m == job[g].msg IN
    /\ up /\ job[g].pc = "dsn"
    /\ reported' = IF job[g].to = {}
                   THEN [reported EXCEPT ![m] = @ \union job[g].fail]
                   ELSE reported
    /\ failed' = [failed EXCEPT ![m] = @ \union job[g].fail]
    /\ job' = [job EXCEPT ![g].pc = Afterwards(job[g].to), ![g].fail = {}]
    /\ UNCHANGED <<diskVars, slots, gOnly, delivered, attempts, unsent, damaged,
                   panicked, faults>>
EmitDSN(g) ==
    LET m == job[g].msg IN
    /\ up /\ job[g].pc = "dsn"
    /\ \/ /\ HasBounce /\ m \notin NullSender
          /\ reported' = [reported EXCEPT ![m] = @ \union job[g].fail]
          /\ UNCHANGED unsent
       \/ /\ ~HasBounce \/ m \in NullSender \/ ("dsn" \in IOFaults /\ Calm)
          /\ unsent' = unsent \union {m}
          /\ UNCHANGED reported
    /\ failed' = [failed EXCEPT ![m] = @ \union job[g].fail]
    /\ job' = [job EXCEPT ![g].pc = Afterwards(job[g].to), ![g].fail = {}]
    /\ UNCHANGED <<diskVars, slots, gOnly, delivered, attempts, damaged,
                   panicked, faults>>

RemoveFromDisk(g) ==
    LET stage == job[g].pc IN
    /\ up /\ stage \in {"rmHdr", "rmBody", "rmMeta"}
    /\ RemoveFile(stage, job[g].msg)
    /\ IF stage = "rmMeta" THEN Return(g) ELSE Goto(g, NextStage(stage, "idle"))
    /\ UNCHANGED <<slots, gOnly, histVars, faults>>

(* updateMetadataOnDisk; a failure is logged and the retry scheduled all   *)
(* the same.                                                               *)
UpdateMetaOrReturn(g) ==
    /\ up /\ job[g].pc = "update"
    /\ \/ /\ WriteMeta(job[g].msg, job[g].to, job[g].tries)
          /\ Goto(g, "add")
          /\ UNCHANGED faults
       \/ /\ "update" \in IOFaults /\ faults < MaxFaults /\ Calm
          /\ faults' = faults + 1
          /\ Return(g)
          /\ UNCHANGED <<meta, metaTo, metaTries>>
    /\ UNCHANGED <<hdr, body, slots, gOnly, histVars>>
UpdateMetaFullTo(g) ==
    /\ up /\ job[g].pc = "update"
    /\ WriteMeta(job[g].msg, metaTo[job[g].msg], job[g].tries)
    /\ Goto(g, "add")
    /\ UNCHANGED <<hdr, body, slots, gOnly, histVars, faults>>
UpdateMeta(g) ==
    /\ up /\ job[g].pc = "update"
    /\ \/ /\ WriteMeta(job[g].msg, job[g].to, job[g].tries)
          /\ UNCHANGED faults
       \/ /\ "update" \in IOFaults /\ faults < MaxFaults /\ Calm
          /\ faults' = faults + 1
          /\ UNCHANGED <<meta, metaTo, metaTries>>
    /\ Goto(g, "add")
    /\ UNCHANGED <<hdr, body, slots, gOnly, histVars>>

(* wheel.Add for the retry: ignored by a stopped wheel ...                 *)
AddCheckForgets(g) ==
    /\ up /\ job[g].pc = "add"
    /\ Return(g)
    /\ UNCHANGED <<diskVars, slots, gOnly, histVars, faults>>
AddCheckBlocks(g) ==
    /\ up /\ job[g].pc = "add"
    /\ wheel = "run" /\ Goto(g, "push")
    /\ UNCHANGED <<diskVars, slots, gOnly, histVars, faults>>
AddCheck(g) ==
    /\ up /\ job[g].pc = "add"
    /\ IF wheel = "run" THEN Goto(g, "push") ELSE Return(g)
    /\ UNCHANGED <<diskVars, slots, gOnly, histVars, faults>>

(* ... else the slot is in the list, and may be dispatched, before ...     *)
AddPush(g) ==
    /\ up /\ job[g].pc = "push"
    /\ slots' = slots \union {[msg |-> job[g].msg, mem |-> FALSE]}
    /\ Goto(g, "send")
    /\ UNCHANGED <<diskVars, gOnly, histVars, faults>>

(* ... the wheel takes the notification; a wheel closed by then makes the  *)
(* send panic.                                                             *)
AddSend(g) ==
    /\ up /\ job[g].pc = "send"
    /\ IF wheel = "closed" THEN Goto(g, "broken") ELSE Return(g)
    /\ UNCHANGED <<diskVars, slots, gOnly, histVars, faults>>

----------------------------------------------------------------------------
(* Shutdown, crash and restart                                             *)

(* Queue.Close: the wheel is stopped, then closed, then the goroutines are *)
(* waited for (deliveryWg) and the process exits.                          *)
CloseBegin ==
    /\ up /\ wheel = "run" /\ closes < MaxCloses /\ Calm
    /\ wheel' = "stopping"
    /\ closes' = closes + 1
    /\ UNCHANGED <<up, diskVars, slots, sessVars, job, purgeVars, histVars, faults>>

CloseWheel ==
    /\ up /\ wheel = "stopping"
    /\ wheel' = "closed"
    /\ UNCHANGED <<up, diskVars, slots, sessVars, job, purgeVars, histVars,
                   faults, closes>>

(* The end of the process, however it comes: all that is in memory is gone *)
(* and a source that has no answer yet will not get one.                   *)
LoseMemory ==
    /\ up' = FALSE
    /\ wheel' = "run"
    /\ slots' = {}
    /\ sess' = [m \in Msgs |-> IF sess[m] \in {"none", "accepted", "rejected", "unsynced"}
                               THEN sess[m] ELSE "lost"]
    /\ job' = [g \in Goroutines |-> Idle]
    /\ UNCHANGED rcpts

Exit ==
    /\ up /\ wheel = "closed"
    /\ \A g \in Goroutines : job[g].pc \in {"idle", "broken"}
    /\ LoseMemory
    /\ UNCHANGED <<diskVars, purgeVars, histVars, faults, closes>>

(* The process is killed; the files stay as they are.                      *)
Crash ==
    /\ up /\ faults < MaxFaults /\ Calm
    /\ faults' = faults + 1
    /\ LoseMemory
    /\ UNCHANGED <<diskVars, purgeVars, histVars, closes>>

(* The machine stops: a header or body that was not synced may be torn.    *)
(* Directory operations are taken to survive in order.                     *)
PowerLoss ==
    /\ faults < MaxFaults /\ Calm
    /\ faults' = faults + 1
    /\ \E t \in SUBSET ({"hdr", "body"} \X Msgs) :
         LET Settle(k, f, m) == IF f[m] # "written" THEN f[m]
                                ELSE IF <<k, m>> \in t THEN "torn" ELSE "synced"
         IN /\ hdr' = [m \in Msgs |-> Settle("hdr", hdr, m)]
            /\ body' = [m \in Msgs |-> Settle("body", body, m)]
    /\ LoseMemory
    /\ ppc' = "idle"
    /\ UNCHANGED <<meta, metaTo, metaTries, pmsg, purged, purges, histVars, closes>>

(* Queue.start -> readDiskQueue, before the endpoints are opened.          *)
Restart ==
    /\ ~up
    /\ up' = TRUE
    /\ slots' = {[msg |-> m, mem |-> FALSE] : m \in Loadable}
    /\ RemoveDangling
    /\ UNCHANGED <<wheel, sessVars, job, purgeVars, histVars, faults, closes>>

----------------------------------------------------------------------------
(* `queue purge`: a process of its own opens the directory, which cleans   *)
(* it up, and removes the messages of a sender or a recipient.             *)

purgeOnly == <<procVars, slots, sessVars, job, histVars, faults, closes>>

PurgeOpen ==
    /\ ppc = "idle" /\ purges < MaxPurges /\ Calm
    /\ Dangling # {}
    /\ RemoveDangling
    /\ UNCHANGED <<purgeVars, purgeOnly>>

(* PurgeBySender and PurgeByRecipient select by the meta-data on disk.     *)
PurgeSelect(m) ==
    /\ ppc = "idle" /\ purges < MaxPurges /\ Calm
    /\ meta[m] = "ok"
    /\ ppc' = "rmHdr"
    /\ pmsg' = m
    /\ purged' = purged \union {m}
    /\ purges' = purges + 1
    /\ UNCHANGED <<diskVars, purgeOnly>>

PurgeRemove ==
    /\ ppc # "idle"
    /\ RemoveFile(ppc, pmsg)
    /\ ppc' = NextStage(ppc, "idle")
    /\ UNCHANGED <<pmsg, purged, purges, purgeOnly>>

----------------------------------------------------------------------------
SourceStep(m) ==
    \/ StoreHeader(m) \/ StoreBody(m) \/ StoreMeta(m) \/ StoreSync(m)
    \/ AbortRemove(m) \/ CommitPush(m) \/ CommitSend(m)

GoroutineStep(g) ==
    \/ Acquire(g) \/ OpenMessage(g) \/ TargetStart(g) \/ TargetBody(g)
    \/ TargetCommit(g) \/ Classify(g) \/ EmitDSN(g) \/ RemoveFromDisk(g) \/ UpdateMeta(g)
    \/ AddCheck(g) \/ AddPush(g) \/ AddSend(g) \/ DiscardBroken(g)

Next ==
    \/ \E m \in Msgs :
         \/ Start(m) \/ Abort(m) \/ Commit(m) \/ SourceStep(m)
         \/ \E r \in Rcpts : AddRcpt(m, r)
    \/ \E g \in Goroutines :
         \/ GoroutineStep(g) \/ TargetPanic(g)
         \/ \E s \in slots : Dispatch(g, s)
    \/ CloseBegin \/ CloseWheel \/ Exit \/ Crash \/ PowerLoss \/ Restart
    \/ PurgeOpen \/ PurgeRemove
    \/ \E m \in Msgs : PurgeSelect(m)

Spec == Init /\ [][Next]_vars

(***************************************************************************)
(* Goroutines that can run do run, the wheel dispatches every slot (what   *)
(* EverySlotFires of TimeWheel shows), and a server that is down comes     *)
(* back.  Sources, purges and faults are not obliged to happen.            *)
(***************************************************************************)
Fairness ==
    /\ \A g \in Goroutines : WF_vars(GoroutineStep(g))
    /\ \A s \in Slots : WF_vars(\E g \in Goroutines : Dispatch(g, s))
    /\ \A m \in Msgs : WF_vars(SourceStep(m))
    /\ WF_vars(CloseWheel) /\ WF_vars(Exit) /\ WF_vars(Restart)
    /\ WF_vars(PurgeRemove)

FairSpec == Spec /\ Fairness

----------------------------------------------------------------------------
(* What the queue promises                                                 *)

Accepted == {m \in Msgs : sess[m] = "accepted"}

(* The attempts in progress at m that have not scheduled its next one yet. *)
Owners(m) == {g \in Goroutines : /\ job[g].msg = m
                                 /\ job[g].pc \notin {"idle", "send", "broken"}}
Scheduled(m) == {s \in slots : s.msg = m}

(* A message is attempted by at most one goroutine at a time, and by none  *)
(* that races with a slot for the same message; nothing is attempted       *)
(* before its source called Commit.                                        *)
SingleOwner ==
    \A m \in Msgs :
        /\ Cardinality(Owners(m)) + Cardinality(Scheduled(m)) <= 1
        /\ sess[m] \in {"none", "rcpt", "body", "meta", "sync", "stored",
                        "rmHdr", "rmBody", "rmMeta"}
             => Owners(m) = {} /\ Scheduled(m) = {}

(* While the server runs an accepted message whose files are in place is   *)
(* scheduled or being attempted: it does not lie there until a restart.    *)
NotStranded ==
    up /\ wheel = "run" =>
        \A m \in Accepted :
            m \in Loadable => Owners(m) # {} \/ Scheduled(m) # {} \/
                              \E g \in Goroutines : job[g].msg = m /\ job[g].pc = "broken"

(***************************************************************************)
(* The directory, the wheel and the goroutines agree on who has a message: *)
(* through retries, crashes, shutdowns, restarts and purges, a message is  *)
(* never attempted twice at a time and, once accepted, never by nobody     *)
(* while the server runs.                                                  *)
(***************************************************************************)
OneOwner == TypeOK /\ SingleOwner /\ NotStranded

(* What a restart would find of the message for recipient r.               *)
Recoverable(m, r) ==
    /\ meta[m] = "ok" /\ r \in metaTo[m]
    /\ hdr[m] = "synced" /\ body[m] = "synced"

(* No recipient of an accepted message is forgotten: he has it, a bounce   *)
(* was tried for him, the message was purged or put aside after a panic,   *)
(* or it is on disk, synced and with the recipient still in its To list.   *)
(* This is stated of the directory alone, so it holds at any crash.        *)
NoSilentLoss ==
    \A m \in Accepted \ purged : \A r \in rcpts[m] :
        \/ delivered[m][r] > 0
        \/ r \in failed[m]
        \/ meta[m] = "broken"
        \/ Recoverable(m, r)

(* A recipient that is given up on is reported to the sender when there is *)
(* a bounce pipeline that works and a sender to report to, and only then   *)
(* is: without faults nobody has both the message and a bounce for it.     *)
BounceHonest ==
    \A m \in Msgs :
        /\ reported[m] \subseteq failed[m]
        /\ m \notin unsent => failed[m] = reported[m]
        /\ faults = 0 => \A r \in failed[m] : delivered[m][r] = 0

(* An accepted message is never delivered from a torn file: both files are *)
(* synced before the source gets its answer.                               *)
AcceptedIntact == Accepted \intersect damaged = {}

(* A message whose source was told that it failed, or that aborted it, is  *)
(* delivered to nobody (module.DeliveryTarget, Body and Abort).  A failed  *)
(* Sync is excepted, which leaves the message where a restart finds it.    *)
RejectedNeverDelivered ==
    \A m \in Msgs : sess[m] = "rejected" => delivered[m] = Zero

(***************************************************************************)
(* The answer the source got is kept, at every crash and power loss: each  *)
(* recipient of an accepted message has the whole message, is reported or  *)
(* will be found again, and a rejected message reaches nobody.             *)
(***************************************************************************)
AnswerKept ==
    NoSilentLoss /\ BounceHonest /\ AcceptedIntact /\ RejectedNeverDelivered

(***************************************************************************)
(* A recipient gets a message twice only if a crash or a failed meta-data  *)
(* update lost the record of the first delivery, and max_tries bounds the  *)
(* attempts, one more for each lost record.  Of the attempts a message     *)
(* whose target panicked is excepted: dispatch calls Done on the wait      *)
(* group before discardBroken, so that Close may end the process between   *)
(* the two and the restarted server attempts the message again.            *)
(***************************************************************************)
RetriesBounded ==
    \A m \in Msgs, r \in Rcpts :
        /\ delivered[m][r] <= 1 + faults
        /\ m \notin panicked => attempts[m][r] <= MaxTries + faults

(***************************************************************************)
(* A message is put aside as broken only if its delivery target panicked.  *)
(***************************************************************************)
OnlyPanickedSetAside == \A m \in Msgs : meta[m] = "broken" => m \in panicked

(* Every accepted message leaves the queue in the end, whatever the target *)
(* answers: max_tries stops the retries.                                   *)
LeavesQueue == \A m \in Msgs : m \in Accepted ~> meta[m] # "ok"

(* Queue.Close waits for the attempts in progress and the process exits.   *)
CloseCompletes == wheel = "stopping" ~> ~up

(***************************************************************************)
(* The queue drains: every accepted message leaves it, whatever the target *)
(* answers and however often the server goes down, and Close comes to an   *)
(* end though attempts and their retries are under way.                    *)
(***************************************************************************)
Drains == LeavesQueue /\ CloseCompletes
=============================================================================
