---------------------------- MODULE QueueProofs ----------------------------
(***************************************************************************)
(* The delivery queue keeps its promises for any number of messages,       *)
(* recipients and goroutines, any max_tries and any number of crashes,     *)
(* shutdowns and purges: OneOwner, AnswerKept and RetriesBounded of module *)
(* Queue, and that only a panic of the target sets a message aside as long *)
(* as the queue is not closed.                                             *)
(*                                                                         *)
(* None of the three is inductive.  What a goroutine will do next depends  *)
(* on its local variables, which a goroutine started by a slot without     *)
(* Meta takes from the file; so the proof says, for every stage of an      *)
(* attempt, what the locals, the file and the history have to do with one  *)
(* another, and when the file is behind the goroutine.  The parts below    *)
(* are proved one after the other, each from those before it.              *)
(***************************************************************************)
EXTENDS Queue, TLAPS, FiniteSetTheorems

----------------------------------------------------------------------------
(* Who has a message                                                       *)

(* A message the source has handed over: Commit pushed its slot or Body    *)
(* failed, or the source is gone, with the files in place.                 *)
Handed == {"send", "accepted", "unsynced", "lost"}

Owns(g) == job[g].pc \notin {"idle", "send", "broken"}

(* Nothing is in memory while the server is down.                          *)
NothingWhenDown ==
    ~up => /\ slots = {}
           /\ \A g \in Goroutines : job[g].pc = "idle"
           /\ \A m \in Msgs : sess[m] \in {"none", "accepted", "rejected",
                                           "unsynced", "lost"}

(* Only what was handed over is scheduled or attempted, and before that    *)
(* nothing has happened to the message.                                    *)
HandedFirst ==
    /\ \A g \in Goroutines : job[g].pc # "idle" => sess[job[g].msg] \in Handed
    /\ \A s \in slots : sess[s.msg] \in Handed

(* SingleOwner without cardinalities.                                      *)
OneAttempt ==
    /\ \A g, h \in Goroutines :
         Owns(g) /\ Owns(h) /\ job[g].msg = job[h].msg => g = h
    /\ \A s, t \in slots : s.msg = t.msg => s = t
    /\ \A g \in Goroutines, s \in slots : Owns(g) => job[g].msg # s.msg

(* A message without meta-data on disk is not found by a restart.          *)
MetaComesLast ==
    \A m \in Msgs :
        /\ sess[m] \in {"none", "rcpt", "body", "meta", "rejected"} => meta[m] = "none"
        /\ sess[m] \notin Handed => meta[m] # "broken"

Ownership == NothingWhenDown /\ HandedFirst /\ OneAttempt /\ MetaComesLast

----------------------------------------------------------------------------
(* The files of a message the source was or may be told to have succeeded  *)

Kept == {"stored", "push", "send", "accepted"}

Whole(f) == f \in {"synced", "none"}

(* Up to the Sync calls the files are those the source wrote, unless a     *)
(* purge, which is told in purged, took them away.                         *)
FilesWritten ==
    /\ ppc # "idle" => pmsg \in purged
    /\ \A m \in Msgs :
         /\ sess[m] \in {"body", "meta", "sync"} => hdr[m] # "torn"
         /\ sess[m] \in {"meta", "sync"} => body[m] # "torn"
         /\ m \notin purged =>
              /\ sess[m] \in {"body", "meta", "sync"} => hdr[m] = "written"
              /\ sess[m] \in {"meta", "sync"} => body[m] = "written"
              /\ sess[m] = "sync" => meta[m] = "ok" /\ metaTo[m] = rcpts[m]

(* After them no power loss can tear a file, and only a message without    *)
(* an answer, or with a failed Sync, can have been delivered torn.         *)
FilesWhole ==
    \A m \in Msgs :
        /\ sess[m] \in Kept => Whole(hdr[m]) /\ Whole(body[m])
        /\ m \in damaged => sess[m] \in {"unsynced", "lost"}

(* NotStranded, for messages whose slot is pushed but not notified, too.   *)
Attended(m) ==
    \/ \E g \in Goroutines : job[g].msg = m /\ Owns(g)
    \/ \E s \in slots : s.msg = m
    \/ \E g \in Goroutines : job[g].msg = m /\ job[g].pc = "broken"

AllAttended ==
    up /\ wheel = "run" =>
        \A m \in Msgs : sess[m] \in {"send", "accepted"} /\ m \in Loadable => Attended(m)

Files == FilesWritten /\ FilesWhole /\ AllAttended

----------------------------------------------------------------------------
(* Nobody is forgotten                                                     *)

Pending(m, r) == delivered[m][r] = 0 /\ r \notin failed[m]

(* Before the hand-over nothing has happened to a message; nor has it      *)
(* while a slot carries the message in memory.                             *)
Unattempted(m) == delivered[m] = Zero /\ attempts[m] = Zero /\ failed[m] = {}

NothingEarly ==
    /\ \A m \in Msgs : sess[m] \notin Handed => Unattempted(m)
    /\ \A s \in slots : s.mem => Unattempted(s.msg)

(* The locals of an attempt fit its stage.                                 *)
LocalsFit ==
    \A g \in Goroutines :
        LET j == job[g] IN
        /\ j.pc \in {"body", "commit"} =>
             j.took \subseteq j.to /\ \A r \in j.to : r \in j.took \/ j.err[r] # "ok"
        /\ j.pc = "dsn" => j.to \intersect j.fail = {}
        /\ j.pc \in {"rmHdr", "rmBody", "rmMeta"} => j.to = {}

(* A pending recipient is in the file, or the file was set aside.          *)
OnFile(m, r) ==
    /\ hdr[m] = "synced" /\ body[m] = "synced"
    /\ meta[m] = "broken" \/ (meta[m] = "ok" /\ r \in metaTo[m])

(* ... and in the locals of the attempt, as far as it has come.            *)
InLocals(j, r) ==
    CASE j.pc = "wait" -> j.to = {} \/ r \in j.to
      [] j.pc = "classify" -> r \in j.to /\ j.err[r] # "ok"
      [] j.pc = "dsn" -> r \in j.to \union j.fail
      [] j.pc \in {"start", "body", "commit", "update", "rmHdr", "rmBody", "rmMeta"}
           -> r \in j.to
      [] OTHER -> TRUE

Remembered ==
    \A m \in Msgs \ purged : sess[m] \in Kept =>
        \A r \in rcpts[m] : Pending(m, r) =>
            /\ OnFile(m, r)
            /\ \A g \in Goroutines : job[g].msg = m => InLocals(job[g], r)

Memory == NothingEarly /\ LocalsFit /\ Remembered

----------------------------------------------------------------------------
(* Nobody is served twice                                                  *)

(* What a record of the recipients still to serve may say of r: each fault *)
(* has lost at most one delivery.                                          *)
Fresh(m, r) ==
    delivered[m][r] <= faults /\ (faults = 0 => r \notin failed[m])

(* The recipients an attempt has still to serve.                           *)
ToServe(j) ==
    CASE j.pc \in {"wait", "start", "body", "commit", "update"} -> j.to
      [] j.pc = "classify" -> {r \in j.to : j.err[r] # "ok"}
      [] j.pc = "dsn" -> j.to \union j.fail
      [] OTHER -> {}

(* The stages in which the file is behind the attempt.                     *)
Behind(m) ==
    \E g \in Goroutines : /\ job[g].msg = m
                          /\ job[g].pc \in {"classify", "dsn", "update",
                                            "rmHdr", "rmBody", "rmMeta"}

ServedOnce ==
    /\ \A m \in Msgs, r \in Rcpts : delivered[m][r] <= 1 + faults
    /\ \A g \in Goroutines : \A r \in ToServe(job[g]) : Fresh(job[g].msg, r)
    /\ \A m \in Msgs : meta[m] = "ok" /\ ~Behind(m) => \A r \in metaTo[m] : Fresh(m, r)

----------------------------------------------------------------------------
(* max_tries is kept                                                       *)

(* A record of r's attempts is short by at most one for each fault, and by *)
(* one more for the attempt in progress.                                   *)
Counted(m, r, tries, current) ==
    tries[r] < MaxTries /\ attempts[m][r] <= tries[r] + faults + current

JobCounted(j) ==
    /\ j.pc \in {"wait", "start", "dsn", "update"} =>
         \A r \in j.to : Counted(j.msg, r, j.tries, 0)
    /\ j.pc \in {"body", "commit", "classify"} =>
         \A r \in j.to : Counted(j.msg, r, j.tries, 1)

InProgress(m) ==
    \E g \in Goroutines : /\ job[g].msg = m
                          /\ job[g].pc \in {"body", "commit", "classify", "dsn", "update",
                                            "rmHdr", "rmBody", "rmMeta"}

TriesCounted ==
    /\ \A m \in Msgs \ panicked, r \in Rcpts : attempts[m][r] <= MaxTries + faults
    /\ \A g \in Goroutines : job[g].msg \notin panicked => JobCounted(job[g])
    /\ \A m \in Msgs \ panicked : meta[m] = "ok" =>
         \A r \in metaTo[m] : Counted(m, r, metaTries[m], IF InProgress(m) THEN 1 ELSE 0)


----------------------------------------------------------------------------
(* What the steps of a goroutine do to its locals, and to nobody else's    *)

USE DEF diskVars, sessVars, procVars, purgeVars, histVars, sessOnly, gOnly, purgeOnly

OthersKept(g) ==
    job' \in [Goroutines -> Jobs] /\ \A h \in Goroutines \ {g} : job'[h] = job[h]

(* The fields of a record of locals, and a record from its fields.         *)
LEMMA JobFields ==
    ASSUME NEW j \in Jobs
    PROVE  /\ j.pc \in GStates /\ j.msg \in Msgs /\ j.to \in SUBSET Rcpts
           /\ j.tries \in [Rcpts -> Nat] /\ j.err \in [Rcpts -> Outcomes]
           /\ j.took \in SUBSET Rcpts /\ j.fail \in SUBSET Rcpts
  BY DEF Jobs

LEMMA IdleType ==
    Idle \in Jobs /\ Idle.pc = "idle" /\ Idle.to = {} /\ Idle.tries = Zero
    /\ Zero \in [Rcpts -> Nat] /\ NoErr \in [Rcpts -> Outcomes]
  BY MsgsAssumption DEF Idle, Jobs, GStates, Zero, NoErr, Outcomes

LEMMA GotoStep ==
    ASSUME job \in [Goroutines -> Jobs], NEW g \in Goroutines, NEW pc \in GStates, Goto(g, pc)
    PROVE  /\ OthersKept(g)
           /\ job'[g].pc = pc /\ job'[g].msg = job[g].msg /\ job'[g].to = job[g].to
           /\ job'[g].tries = job[g].tries /\ job'[g].err = job[g].err
           /\ job'[g].took = job[g].took /\ job'[g].fail = job[g].fail
  <1>1. job' = [job EXCEPT ![g] = [job[g] EXCEPT !.pc = pc]]
    BY DEF Goto
  <1>2. [job[g] EXCEPT !.pc = pc] \in Jobs
    BY DEF Jobs
  <1> QED
    BY <1>1, <1>2 DEF OthersKept, Jobs

LEMMA ReturnStep ==
    ASSUME job \in [Goroutines -> Jobs], NEW g \in Goroutines, Return(g)
    PROVE  OthersKept(g) /\ job'[g].pc = "idle"
  BY IdleType DEF Return, OthersKept

LEMMA DispatchStep ==
    ASSUME TypeOK, NEW g \in Goroutines, NEW s \in slots, Dispatch(g, s)
    PROVE  /\ OthersKept(g)
           /\ job'[g].pc = "wait" /\ job'[g].msg = s.msg /\ job'[g].tries = Zero
           /\ job'[g].to = IF s.mem THEN rcpts[s.msg] ELSE {}
  <1> DEFINE to == IF s.mem THEN rcpts[s.msg] ELSE {}
  <1> DEFINE j == [Idle EXCEPT !.pc = "wait", !.msg = s.msg, !.to = to]
  <1>1. s.msg \in Msgs /\ to \in SUBSET Rcpts
    BY DEF TypeOK, Slots
  <1>2. job' = [job EXCEPT ![g] = j]
    BY DEF Dispatch
  <1> HIDE DEF to
  <1>3. j \in Jobs /\ j.pc = "wait" /\ j.msg = s.msg /\ j.to = to /\ j.tries = Zero
    BY <1>1, IdleType DEF Jobs, GStates
  <1> HIDE DEF j
  <1> QED
    BY <1>2, <1>3 DEF OthersKept, TypeOK, to

LEMMA OpenStep ==
    ASSUME TypeOK, NEW g \in Goroutines, OpenMessage(g)
    PROVE  /\ OthersKept(g)
           /\ \/ /\ job[g].msg \in Loadable
                 /\ job'[g].pc = "start" /\ job'[g].msg = job[g].msg
                 /\ job'[g].to = metaTo[job[g].msg] /\ job'[g].tries = metaTries[job[g].msg]
                 /\ UNCHANGED diskVars
              \/ /\ meta[job[g].msg] # "ok" \/ (job[g].msg \in Loadable /\ hdr[job[g].msg] = "torn")
                 /\ job'[g].pc = "idle"
                 /\ UNCHANGED diskVars
              \/ /\ job[g].msg \in Dangling
                 /\ job'[g].pc = "idle"
                 /\ meta' = [meta EXCEPT ![job[g].msg] = "none"]
                 /\ body' = [body EXCEPT ![job[g].msg] = "none"]
                 /\ UNCHANGED <<hdr, metaTo, metaTries>>
  <1> DEFINE m == job[g].msg
  <1> DEFINE j == [job[g] EXCEPT !.pc = "start", !.to = metaTo[m], !.tries = metaTries[m]]
  <1>1. m \in Msgs /\ job[g] \in Jobs /\ metaTo[m] \in SUBSET Rcpts /\ metaTries[m] \in [Rcpts -> Nat]
    BY JobFields DEF TypeOK
  <1>2. CASE job' = [job EXCEPT ![g] = j] /\ m \in Loadable /\ UNCHANGED diskVars
    <2>1. /\ j \in Jobs /\ j.pc = "start" /\ j.msg = m
          /\ j.to = metaTo[m] /\ j.tries = metaTries[m]
      BY <1>1 DEF Jobs, GStates
    <2> HIDE DEF j
    <2> QED
      BY <1>2, <2>1 DEF OthersKept, TypeOK
  <1>3. CASE /\ Return(g)
             /\ meta[m] # "ok" \/ (m \in Loadable /\ hdr[m] = "torn")
             /\ UNCHANGED diskVars
    BY <1>3, ReturnStep DEF TypeOK
  <1>4. CASE /\ m \in Dangling /\ Return(g)
             /\ meta' = [meta EXCEPT ![m] = "none"]
             /\ body' = [body EXCEPT ![m] = "none"]
             /\ UNCHANGED <<hdr, metaTo, metaTries>>
    BY <1>4, ReturnStep DEF TypeOK
  <1> QED
    BY <1>2, <1>3, <1>4 DEF OpenMessage

LEMMA TargetStartStep ==
    ASSUME TypeOK, NEW g \in Goroutines, TargetStart(g)
    PROVE  /\ OthersKept(g)
           /\ job'[g].msg = job[g].msg /\ job'[g].to = job[g].to /\ job'[g].tries = job[g].tries
           /\ job'[g].took = {r \in job[g].to : job'[g].err[r] = "ok"}
           /\ job'[g].pc = IF job'[g].took # {} THEN "body" ELSE "classify"
  <1> DEFINE to == job[g].to
  <1>0. PICK e \in [to -> Outcomes] :
         job' = [job EXCEPT
                   ![g].err = [r \in Rcpts |-> IF r \in to THEN e[r] ELSE "ok"],
                   ![g].took = {r \in to : e[r] = "ok"},
                   ![g].pc = IF {r \in to : e[r] = "ok"} # {} THEN "body" ELSE "classify"]
    BY DEF TargetStart
  <1> DEFINE err == [r \in Rcpts |-> IF r \in to THEN e[r] ELSE "ok"]
             took == {r \in to : e[r] = "ok"}
             pc == IF took # {} THEN "body" ELSE "classify"
             j == [job[g] EXCEPT !.err = err, !.took = took, !.pc = pc]
  <1>1. job[g] \in Jobs /\ to \in SUBSET Rcpts
    BY JobFields DEF TypeOK
  <1>2. err \in [Rcpts -> Outcomes] /\ took \in SUBSET Rcpts /\ pc \in GStates
    BY <1>1 DEF Outcomes, GStates
  <1>3. took = {r \in to : err[r] = "ok"}
    BY <1>1
  <1>4. job' = [job EXCEPT ![g] = j]
    BY <1>0
  <1> HIDE DEF err, took, pc
  <1>5. /\ j \in Jobs /\ j.msg = job[g].msg /\ j.to = to /\ j.tries = job[g].tries
        /\ j.err = err /\ j.took = took /\ j.pc = pc
    BY <1>1, <1>2 DEF Jobs
  <1> HIDE DEF j
  <1>6. OthersKept(g) /\ job'[g] = j
    BY <1>4, <1>5 DEF OthersKept, TypeOK
  <1> QED
    BY <1>3, <1>5, <1>6 DEF pc

LEMMA TargetBodyStep ==
    ASSUME TypeOK, NEW g \in Goroutines, TargetBody(g)
    PROVE  /\ OthersKept(g)
           /\ job'[g].msg = job[g].msg /\ job'[g].to = job[g].to /\ job'[g].tries = job[g].tries
           /\ job'[g].took = job[g].took
           /\ \A r \in Rcpts \ job[g].took : job'[g].err[r] = job[g].err[r]
           /\ \/ job'[g].pc = "commit"
              \/ job'[g].pc = "classify" /\ \A r \in job[g].took : job'[g].err[r] # "ok"
           /\ \/ damaged' = damaged
              \/ /\ "torn" \in {hdr[job[g].msg], body[job[g].msg]}
                 /\ damaged' = damaged \union {job[g].msg}
  <1> DEFINE m == job[g].msg
             took == job[g].took
             good(e) == {r \in took : e[r] = "ok"}
  <1>0. PICK e \in [took -> Outcomes] :
         /\ job' = [job EXCEPT
                      ![g].err = [r \in Rcpts |-> IF r \in took THEN e[r] ELSE @[r]],
                      ![g].pc = IF good(e) # {} THEN "commit" ELSE "classify"]
         /\ damaged' = IF good(e) # {} /\ "torn" \in {hdr[m], body[m]}
                       THEN damaged \union {m} ELSE damaged
    <2>1. [took -> IF body[m] = "none" THEN {"temp"} ELSE Outcomes] \subseteq [took -> Outcomes]
      BY DEF Outcomes
    <2> QED
      BY <2>1 DEF TargetBody
  <1> DEFINE err == [r \in Rcpts |-> IF r \in took THEN e[r] ELSE job[g].err[r]]
             pc == IF good(e) # {} THEN "commit" ELSE "classify"
             j == [job[g] EXCEPT !.err = err, !.pc = pc]
  <1>1. job[g] \in Jobs /\ took \in SUBSET Rcpts /\ job[g].err \in [Rcpts -> Outcomes]
    BY JobFields DEF TypeOK
  <1>2. err \in [Rcpts -> Outcomes] /\ pc \in GStates
    BY <1>1 DEF Outcomes, GStates
  <1>3. job' = [job EXCEPT ![g] = j]
    BY <1>0
  <1>4. pc = "commit" \/ (pc = "classify" /\ \A r \in took : err[r] # "ok")
    BY <1>1
  <1>5. \A r \in Rcpts \ took : err[r] = job[g].err[r]
    OBVIOUS
  <1> HIDE DEF err, pc
  <1>6. /\ j \in Jobs /\ j.msg = job[g].msg /\ j.to = job[g].to /\ j.tries = job[g].tries
        /\ j.err = err /\ j.took = took /\ j.pc = pc
    BY <1>1, <1>2 DEF Jobs
  <1> HIDE DEF j
  <1>7. OthersKept(g) /\ job'[g] = j
    BY <1>3, <1>6 DEF OthersKept, TypeOK
  <1>8. \/ damaged' = damaged
        \/ "torn" \in {hdr[m], body[m]} /\ damaged' = damaged \union {m}
    BY <1>0
  <1> QED
    BY <1>4, <1>5, <1>6, <1>7, <1>8

LEMMA TargetCommitStep ==
    ASSUME TypeOK, NEW g \in Goroutines, TargetCommit(g)
    PROVE  /\ OthersKept(g)
           /\ job'[g].pc = "classify" /\ job'[g].msg = job[g].msg
           /\ job'[g].to = job[g].to /\ job'[g].tries = job[g].tries
           /\ \/ /\ job'[g].err = job[g].err
                 /\ delivered' = [delivered EXCEPT ![job[g].msg] =
                      [r \in Rcpts |-> IF r \in job[g].took /\ job[g].err[r] = "ok"
                                       THEN @[r] + 1 ELSE @[r]]]
              \/ /\ \A r \in job[g].took : job'[g].err[r] # "ok"
                 /\ \A r \in Rcpts \ job[g].took : job'[g].err[r] = job[g].err[r]
                 /\ UNCHANGED delivered
  <1> DEFINE good == {r \in job[g].took : job[g].err[r] = "ok"}
  <1>1. job[g] \in Jobs /\ job[g].took \in SUBSET Rcpts /\ job[g].err \in [Rcpts -> Outcomes]
    BY JobFields DEF TypeOK
  <1>2. CASE Goto(g, "classify") /\ delivered' = [delivered EXCEPT ![job[g].msg] =
               [r \in Rcpts |-> IF r \in good THEN @[r] + 1 ELSE @[r]]]
    <2>1. "classify" \in GStates /\ job \in [Goroutines -> Jobs]
      BY DEF GStates, TypeOK
    <2>2. delivered' = [delivered EXCEPT ![job[g].msg] =
                      [r \in Rcpts |-> IF r \in job[g].took /\ job[g].err[r] = "ok"
                                       THEN @[r] + 1 ELSE @[r]]]
      BY <1>1, <1>2
    <2> QED
      BY <1>2, <2>1, <2>2, GotoStep
  <1>3. ASSUME NEW k \in Errors,
               job' = [job EXCEPT ![g].pc = "classify", ![g].err =
                         [r \in Rcpts |-> IF r \in job[g].took THEN k ELSE @[r]]],
               UNCHANGED delivered
        PROVE  /\ OthersKept(g)
               /\ job'[g].pc = "classify" /\ job'[g].msg = job[g].msg
               /\ job'[g].to = job[g].to /\ job'[g].tries = job[g].tries
               /\ \A r \in job[g].took : job'[g].err[r] # "ok"
               /\ \A r \in Rcpts \ job[g].took : job'[g].err[r] = job[g].err[r]
    <2> DEFINE err == [r \in Rcpts |-> IF r \in job[g].took THEN k ELSE job[g].err[r]]
               j == [job[g] EXCEPT !.pc = "classify", !.err = err]
    <2>1. err \in [Rcpts -> Outcomes] /\ "classify" \in GStates
      BY <1>1 DEF Outcomes, Errors, GStates
    <2>2. /\ \A r \in job[g].took : err[r] # "ok"
          /\ \A r \in Rcpts \ job[g].took : err[r] = job[g].err[r]
      BY <1>1 DEF Errors
    <2>3. job' = [job EXCEPT ![g] = j]
      BY <1>3
    <2> HIDE DEF err
    <2>4. /\ j \in Jobs /\ j.msg = job[g].msg /\ j.to = job[g].to /\ j.tries = job[g].tries
          /\ j.err = err /\ j.pc = "classify"
      BY <1>1, <2>1 DEF Jobs
    <2> HIDE DEF j
    <2>5. OthersKept(g) /\ job'[g] = j
      BY <2>3, <2>4 DEF OthersKept, TypeOK
    <2> QED
      BY <2>2, <2>4, <2>5
  <1> QED
    BY <1>2, <1>3 DEF TargetCommit

LEMMA ClassifyStep ==
    ASSUME TypeOK, NEW g \in Goroutines, Classify(g)
    PROVE  /\ OthersKept(g)
           /\ job'[g].msg = job[g].msg
           /\ job'[g].to = Retried(job[g]) /\ job'[g].fail = GivenUp(job[g])
           /\ job'[g].tries = NewTries(job[g])
           /\ job'[g].pc = IF GivenUp(job[g]) # {} THEN "dsn" ELSE Afterwards(Retried(job[g]))
  <1> DEFINE pc == IF GivenUp(job[g]) # {} THEN "dsn" ELSE Afterwards(Retried(job[g]))
             j == [job[g] EXCEPT !.to = Retried(job[g]), !.fail = GivenUp(job[g]),
                                 !.tries = NewTries(job[g]), !.err = NoErr, !.took = {},
                                 !.pc = pc]
  <1>1. job[g] \in Jobs /\ job[g].to \in SUBSET Rcpts /\ job[g].tries \in [Rcpts -> Nat]
    BY JobFields DEF TypeOK
  <1>2. Retried(job[g]) \in SUBSET Rcpts /\ GivenUp(job[g]) \in SUBSET Rcpts
    BY <1>1 DEF Retried, GivenUp
  <1>3. NewTries(job[g]) \in [Rcpts -> Nat]
    BY <1>1 DEF NewTries
  <1>4. pc \in GStates
    BY DEF GStates, Afterwards
  <1>5. job' = [job EXCEPT ![g] = j]
    BY DEF Classify
  <1> HIDE DEF pc
  <1>6. /\ j \in Jobs /\ j.msg = job[g].msg
        /\ j.to = Retried(job[g]) /\ j.fail = GivenUp(job[g]) /\ j.tries = NewTries(job[g])
        /\ j.pc = pc
    BY <1>1, <1>2, <1>3, <1>4, IdleType DEF Jobs
  <1> HIDE DEF j
  <1>7. OthersKept(g) /\ job'[g] = j
    BY <1>5, <1>6 DEF OthersKept, TypeOK
  <1> QED
    BY <1>6, <1>7 DEF pc

LEMMA EmitDSNStep ==
    ASSUME TypeOK, NEW g \in Goroutines, EmitDSN(g)
    PROVE  /\ OthersKept(g)
           /\ job'[g].msg = job[g].msg /\ job'[g].to = job[g].to /\ job'[g].tries = job[g].tries
           /\ job'[g].pc = Afterwards(job[g].to)
  <1> DEFINE j == [job[g] EXCEPT !.pc = Afterwards(job[g].to), !.fail = {}]
  <1>1. job[g] \in Jobs /\ Afterwards(job[g].to) \in GStates
    BY DEF TypeOK, Afterwards, GStates
  <1>2. job' = [job EXCEPT ![g] = j]
    BY DEF EmitDSN
  <1>3. /\ j \in Jobs /\ j.msg = job[g].msg /\ j.to = job[g].to /\ j.tries = job[g].tries
        /\ j.pc = Afterwards(job[g].to)
    BY <1>1 DEF Jobs
  <1> HIDE DEF j
  <1> QED
    BY <1>2, <1>3 DEF OthersKept, TypeOK

LEMMA RemoveFromDiskStep ==
    ASSUME TypeOK, NEW g \in Goroutines, RemoveFromDisk(g)
    PROVE  /\ OthersKept(g)
           /\ \/ job[g].pc = "rmMeta" /\ job'[g].pc = "idle"
              \/ /\ \/ job[g].pc = "rmHdr" /\ job'[g].pc = "rmBody"
                    \/ job[g].pc = "rmBody" /\ job'[g].pc = "rmMeta"
                 /\ job'[g].msg = job[g].msg /\ job'[g].to = job[g].to
  <1>1. job \in [Goroutines -> Jobs] /\ {"rmBody", "rmMeta"} \subseteq GStates
    BY DEF TypeOK, GStates
  <1>2. CASE job[g].pc = "rmMeta" /\ Return(g)
    BY <1>1, <1>2, ReturnStep
  <1>3. CASE job[g].pc = "rmHdr" /\ Goto(g, "rmBody")
    BY <1>1, <1>3, GotoStep
  <1>4. CASE job[g].pc = "rmBody" /\ Goto(g, "rmMeta")
    BY <1>1, <1>4, GotoStep
  <1> QED
    BY <1>2, <1>3, <1>4 DEF RemoveFromDisk, NextStage

----------------------------------------------------------------------------
(* Types                                                                   *)

LEMMA TypeInit == Init => TypeOK
  BY IdleType DEF Init, TypeOK, FileStates, SessStates, Jobs

LEMMA PcTypes == {"idle", "open", "start", "add", "push", "send", "broken"} \subseteq GStates
  BY DEF GStates

LEMMA SlotTypes == \A m \in Msgs, b \in {TRUE, FALSE} : [msg |-> m, mem |-> b] \in Slots
  BY Zenon DEF Slots

LEMMA TypeNext == TypeOK /\ [Next]_vars => TypeOK'
  <1> SUFFICES ASSUME TypeOK, [Next]_vars PROVE TypeOK'
    OBVIOUS
  <1>0. \A g \in Goroutines : job[g].msg \in Msgs /\ job[g].to \in SUBSET Rcpts
                              /\ job[g].tries \in [Rcpts -> Nat]
                              /\ job[g].fail \in SUBSET Rcpts
    BY JobFields DEF TypeOK
  <1>1. ASSUME NEW m \in Msgs, Start(m) PROVE TypeOK'
    BY <1>0, <1>1 DEF Start, TypeOK, StepTo, SessStates
  <1>2. ASSUME NEW m \in Msgs, Abort(m) PROVE TypeOK'
    BY <1>0, <1>2 DEF Abort, TypeOK, StepTo, Reject, SessStates
  <1>3. ASSUME NEW m \in Msgs, Commit(m) PROVE TypeOK'
    BY <1>0, <1>3 DEF Commit, TypeOK, StepTo, SessStates
  <1>4. ASSUME NEW m \in Msgs, NEW r \in Rcpts, AddRcpt(m, r) PROVE TypeOK'
    BY <1>0, <1>4 DEF AddRcpt, TypeOK
  <1>5. ASSUME NEW m \in Msgs, StoreHeader(m) PROVE TypeOK'
    BY <1>0, <1>5 DEF StoreHeader, TypeOK, StepTo, Reject, FileStates, SessStates
  <1>6. ASSUME NEW m \in Msgs, StoreBody(m) PROVE TypeOK'
    BY <1>0, <1>6 DEF StoreBody, TypeOK, StepTo, Reject, FileStates, SessStates
  <1>7. ASSUME NEW m \in Msgs, StoreMeta(m) PROVE TypeOK'
    <2>1. meta' \in [Msgs -> {"none", "ok", "broken"}] /\ metaTo' \in [Msgs -> SUBSET Rcpts]
      BY <1>7 DEF StoreMeta, WriteMeta, TypeOK
    <2>2. metaTries' \in [Msgs -> [Rcpts -> Nat]]
      BY <1>7, IdleType DEF StoreMeta, WriteMeta, TypeOK
    <2>3. sess' \in [Msgs -> SessStates]
      <3>1. sess' = [sess EXCEPT ![m] = "sync"] \/ sess' = [sess EXCEPT ![m] = "rejected"]
        BY <1>7 DEF StoreMeta, StepTo, Reject
      <3> QED
        BY <3>1 DEF TypeOK, SessStates
    <2>4. hdr' \in [Msgs -> FileStates] /\ body' \in [Msgs -> FileStates]
      BY <1>7 DEF StoreMeta, TypeOK, FileStates
    <2> QED
      BY <1>7, <2>1, <2>2, <2>3, <2>4 DEF StoreMeta, TypeOK
  <1>8. ASSUME NEW m \in Msgs, StoreSync(m) PROVE TypeOK'
    BY <1>0, <1>8 DEF StoreSync, TypeOK, StepTo, Synced, FileStates, SessStates
  <1>9. ASSUME NEW m \in Msgs, AbortRemove(m) PROVE TypeOK'
    BY <1>0, <1>9 DEF AbortRemove, TypeOK, RemoveFile, StepTo, NextStage, FileStates, SessStates
  <1>10. ASSUME NEW m \in Msgs, CommitPush(m) PROVE TypeOK'
    <2>1. slots' \subseteq Slots
      BY <1>10, SlotTypes DEF CommitPush, TypeOK
    <2> QED
      BY <1>10, <2>1 DEF CommitPush, StepTo, TypeOK, SessStates
  <1>11. ASSUME NEW m \in Msgs, CommitSend(m) PROVE TypeOK'
    BY <1>0, <1>11 DEF CommitSend, TypeOK, StepTo, SessStates
  <1>12. ASSUME NEW g \in Goroutines, Acquire(g) PROVE TypeOK'
    <2>1. job' \in [Goroutines -> Jobs]
      BY <1>12, GotoStep, PcTypes DEF OthersKept, TypeOK, Acquire
    <2> QED
      BY <1>0, <1>12, <2>1 DEF Acquire, TypeOK
  <1>13. ASSUME NEW g \in Goroutines, OpenMessage(g) PROVE TypeOK'
    <2>1. job' \in [Goroutines -> Jobs]
      BY <1>13, OpenStep DEF OthersKept
    <2>2. meta' \in [Msgs -> {"none", "ok", "broken"}] /\ body' \in [Msgs -> FileStates]
          /\ hdr' = hdr /\ metaTo' = metaTo /\ metaTries' = metaTries
      BY <1>0, <1>13, OpenStep DEF TypeOK, FileStates
    <2> QED
      BY <1>13, <2>1, <2>2 DEF OpenMessage, TypeOK
  <1>14. ASSUME NEW g \in Goroutines, TargetStart(g) PROVE TypeOK'
    <2>1. job' \in [Goroutines -> Jobs]
      BY <1>14, TargetStartStep DEF OthersKept
    <2>2. attempts' \in [Msgs -> [Rcpts -> Nat]]
      <3>1. attempts' = [attempts EXCEPT ![job[g].msg] = [r \in Rcpts |->
              IF r \in job[g].to THEN attempts[job[g].msg][r] + 1 ELSE attempts[job[g].msg][r]]]
        BY <1>14 DEF TargetStart
      <3>2. attempts \in [Msgs -> [Rcpts -> Nat]]
        BY DEF TypeOK
      <3> QED
        <4>1. [r \in Rcpts |-> IF r \in job[g].to THEN attempts[job[g].msg][r] + 1
                               ELSE attempts[job[g].msg][r]] \in [Rcpts -> Nat]
          BY <1>0, <3>2, attempts[job[g].msg] \in [Rcpts -> Nat]
        <4> QED
          BY <1>0, <3>1, <3>2, <4>1
    <2> QED
      BY <1>14, <2>1, <2>2 DEF TargetStart, TypeOK
  <1>15. ASSUME NEW g \in Goroutines, TargetBody(g) PROVE TypeOK'
    <2>1. job' \in [Goroutines -> Jobs]
      BY <1>15, TargetBodyStep DEF OthersKept
    <2> QED
      BY <1>0, <1>15, <2>1 DEF TargetBody, TypeOK
  <1>16. ASSUME NEW g \in Goroutines, TargetCommit(g) PROVE TypeOK'
    <2>1. job' \in [Goroutines -> Jobs]
      BY <1>16, TargetCommitStep DEF OthersKept
    <2>2. delivered' \in [Msgs -> [Rcpts -> Nat]]
      <3> DEFINE good == {r \in job[g].took : job[g].err[r] = "ok"}
      <3>1. \/ UNCHANGED delivered
            \/ delivered' = [delivered EXCEPT ![job[g].msg] =
                  [r \in Rcpts |-> IF r \in good THEN delivered[job[g].msg][r] + 1
                                   ELSE delivered[job[g].msg][r]]]
        BY <1>16 DEF TargetCommit
      <3>2. delivered \in [Msgs -> [Rcpts -> Nat]]
        BY DEF TypeOK
      <3> HIDE DEF good
      <3> QED
        <4>1. [r \in Rcpts |-> IF r \in good THEN delivered[job[g].msg][r] + 1
                               ELSE delivered[job[g].msg][r]] \in [Rcpts -> Nat]
          BY <1>0, <3>2, delivered[job[g].msg] \in [Rcpts -> Nat]
        <4> QED
          BY <1>0, <3>1, <3>2, <4>1
    <2> QED
      BY <1>16, <2>1, <2>2 DEF TargetCommit, TypeOK
  <1>17. ASSUME NEW g \in Goroutines, TargetPanic(g) PROVE TypeOK'
    <2>1. job' \in [Goroutines -> Jobs]
      BY <1>17, GotoStep, PcTypes DEF OthersKept, TypeOK, TargetPanic
    <2> QED
      BY <1>0, <1>17, <2>1 DEF TargetPanic, TypeOK
  <1>18. ASSUME NEW g \in Goroutines, Classify(g) PROVE TypeOK'
    <2>1. job' \in [Goroutines -> Jobs]
      BY <1>18, ClassifyStep DEF OthersKept
    <2> QED
      BY <1>0, <1>18, <2>1 DEF Classify, TypeOK
  <1>19. ASSUME NEW g \in Goroutines, EmitDSN(g) PROVE TypeOK'
    <2>1. job' \in [Goroutines -> Jobs]
      BY <1>19, EmitDSNStep DEF OthersKept
    <2>2. reported' \in [Msgs -> SUBSET Rcpts] /\ failed' \in [Msgs -> SUBSET Rcpts]
      <3> DEFINE fail == job[g].fail
                 m == job[g].msg
      <3>1. /\ failed' = [failed EXCEPT ![m] = failed[m] \union fail]
            /\ reported' = reported \/ reported' = [reported EXCEPT ![m] = reported[m] \union fail]
        BY <1>19 DEF EmitDSN
      <3>2. m \in Msgs /\ failed \in [Msgs -> SUBSET Rcpts] /\ reported \in [Msgs -> SUBSET Rcpts]
            /\ fail \subseteq Rcpts
        BY <1>0 DEF TypeOK
      <3> HIDE DEF fail, m
      <3> QED
        BY <3>1, <3>2
    <2>3. unsent' \subseteq Msgs
      BY <1>0, <1>19 DEF EmitDSN, TypeOK
    <2> QED
      BY <1>19, <2>1, <2>2, <2>3 DEF EmitDSN, TypeOK
  <1>20. ASSUME NEW g \in Goroutines, RemoveFromDisk(g) PROVE TypeOK'
    <2>1. job' \in [Goroutines -> Jobs]
      BY <1>20, RemoveFromDiskStep DEF OthersKept
    <2>2. /\ meta' \in [Msgs -> {"none", "ok", "broken"}]
          /\ hdr' \in [Msgs -> FileStates] /\ body' \in [Msgs -> FileStates]
          /\ metaTo' = metaTo /\ metaTries' = metaTries
      BY <1>0, <1>20 DEF RemoveFromDisk, RemoveFile, TypeOK, FileStates
    <2>3. UNCHANGED <<slots, gOnly, histVars, faults>>
      BY <1>20 DEF RemoveFromDisk
    <2> QED
      BY <2>1, <2>2, <2>3 DEF TypeOK
  <1>21. ASSUME NEW g \in Goroutines, UpdateMeta(g) PROVE TypeOK'
    <2>1. job' \in [Goroutines -> Jobs]
      BY <1>21, GotoStep, PcTypes DEF OthersKept, TypeOK, UpdateMeta
    <2>2. /\ meta' \in [Msgs -> {"none", "ok", "broken"}]
          /\ metaTo' \in [Msgs -> SUBSET Rcpts] /\ metaTries' \in [Msgs -> [Rcpts -> Nat]]
      BY <1>0, <1>21 DEF UpdateMeta, WriteMeta, TypeOK
    <2>3. faults' \in Nat
      BY <1>21 DEF UpdateMeta, TypeOK
    <2> QED
      BY <1>21, <2>1, <2>2, <2>3 DEF UpdateMeta, TypeOK
  <1>22. ASSUME NEW g \in Goroutines, AddCheck(g) PROVE TypeOK'
    <2>1. job' \in [Goroutines -> Jobs]
      BY <1>22, GotoStep, ReturnStep, PcTypes DEF OthersKept, TypeOK, AddCheck
    <2> QED
      BY <1>0, <1>22, <2>1 DEF AddCheck, TypeOK
  <1>23. ASSUME NEW g \in Goroutines, AddPush(g) PROVE TypeOK'
    <2>1. job' \in [Goroutines -> Jobs]
      BY <1>23, GotoStep, PcTypes DEF OthersKept, TypeOK, AddPush
    <2>2. slots' \subseteq Slots
      BY <1>0, <1>23, SlotTypes DEF AddPush, TypeOK
    <2> QED
      BY <1>23, <2>1, <2>2 DEF AddPush, TypeOK
  <1>24. ASSUME NEW g \in Goroutines, AddSend(g) PROVE TypeOK'
    <2>1. job' \in [Goroutines -> Jobs]
      BY <1>24, GotoStep, ReturnStep, PcTypes DEF OthersKept, TypeOK, AddSend
    <2> QED
      BY <1>0, <1>24, <2>1 DEF AddSend, TypeOK
  <1>25. ASSUME NEW g \in Goroutines, DiscardBroken(g) PROVE TypeOK'
    <2>1. job' \in [Goroutines -> Jobs]
      BY <1>25, ReturnStep DEF OthersKept, TypeOK, DiscardBroken
    <2> QED
      BY <1>0, <1>25, <2>1 DEF DiscardBroken, TypeOK
  <1>26. ASSUME NEW g \in Goroutines, NEW s \in slots, Dispatch(g, s) PROVE TypeOK'
    <2>1. job' \in [Goroutines -> Jobs]
      BY <1>26, DispatchStep DEF OthersKept
    <2> QED
      BY <1>0, <1>26, <2>1 DEF Dispatch, TypeOK, Slots
  <1>27. CASE CloseBegin
    BY <1>0, <1>27 DEF CloseBegin, TypeOK
  <1>28. CASE CloseWheel
    BY <1>0, <1>28 DEF CloseWheel, TypeOK
  <1>29. CASE Exit
    BY <1>0, <1>29, IdleType DEF Exit, TypeOK, LoseMemory, SessStates
  <1>30. CASE Crash
    <2>1. LoseMemory /\ faults' \in Nat /\ UNCHANGED <<diskVars, purgeVars, histVars, closes>>
      BY <1>30 DEF Crash, TypeOK
    <2>2. sess' \in [Msgs -> SessStates] /\ job' \in [Goroutines -> Jobs] /\ slots' \subseteq Slots
      BY <2>1, IdleType DEF LoseMemory, TypeOK, SessStates
    <2> QED
      BY <2>1, <2>2 DEF LoseMemory, TypeOK
  <1>31. CASE PowerLoss
    <2>1. /\ LoseMemory /\ faults' \in Nat /\ ppc' = "idle"
          /\ UNCHANGED <<meta, metaTo, metaTries, pmsg, purged, purges, histVars, closes>>
      BY <1>31 DEF PowerLoss, TypeOK
    <2>2. sess' \in [Msgs -> SessStates] /\ job' \in [Goroutines -> Jobs] /\ slots' \subseteq Slots
      BY <2>1, IdleType DEF LoseMemory, TypeOK, SessStates
    <2>3. hdr' \in [Msgs -> FileStates] /\ body' \in [Msgs -> FileStates]
      BY <1>31 DEF PowerLoss, TypeOK, FileStates
    <2> QED
      BY <2>1, <2>2, <2>3 DEF LoseMemory, TypeOK
  <1>32. CASE Restart
    <2>1. slots' \subseteq Slots
      BY <1>32, SlotTypes DEF Restart, Loadable
    <2> QED
      BY <1>32, <2>1 DEF Restart, RemoveDangling, TypeOK, FileStates
  <1>33. CASE PurgeOpen
    BY <1>0, <1>33 DEF PurgeOpen, TypeOK, RemoveDangling, FileStates
  <1>34. CASE PurgeRemove
    BY <1>0, <1>34 DEF PurgeRemove, TypeOK, RemoveFile, NextStage, FileStates
  <1>35. ASSUME NEW m \in Msgs, PurgeSelect(m) PROVE TypeOK'
    BY <1>0, <1>35 DEF PurgeSelect, TypeOK
  <1>36. CASE UNCHANGED vars
    BY <1>36 DEF vars, TypeOK
  <1> QED
    BY <1>1, <1>2, <1>3, <1>4, <1>5, <1>6, <1>7, <1>8, <1>9, <1>10, <1>11, <1>12, <1>13, <1>14, <1>15, <1>16, <1>17, <1>18, <1>19, <1>20, <1>21, <1>22, <1>23, <1>24, <1>25, <1>26, <1>27, <1>28, <1>29, <1>30, <1>31, <1>32, <1>33, <1>34, <1>35, <1>36 DEF Next, SourceStep, GoroutineStep

----------------------------------------------------------------------------
(* Frames: a step of the source or of an attempt touches one message       *)

SameRecord(n) ==
    /\ hdr'[n] = hdr[n] /\ body'[n] = body[n] /\ meta'[n] = meta[n]
    /\ metaTo'[n] = metaTo[n] /\ metaTries'[n] = metaTries[n]

SameHistory(n) ==
    delivered'[n] = delivered[n] /\ attempts'[n] = attempts[n] /\ failed'[n] = failed[n]

(* queueDelivery of message m, CommitPush apart, which also adds a slot.   *)
SourceFrame(m) ==
    /\ up /\ up' = up /\ wheel' = wheel /\ job' = job
    /\ ppc' = ppc /\ pmsg' = pmsg /\ purged' = purged
    /\ delivered' = delivered /\ attempts' = attempts /\ failed' = failed
    /\ damaged' = damaged /\ panicked' = panicked /\ faults' = faults
    /\ \A n \in Msgs \ {m} : sess'[n] = sess[n] /\ rcpts'[n] = rcpts[n] /\ SameRecord(n)

(* An attempt, AddPush apart.                                              *)
AttemptFrame(g) ==
    /\ up /\ up' = up /\ wheel' = wheel /\ sess' = sess /\ rcpts' = rcpts
    /\ ppc' = ppc /\ pmsg' = pmsg /\ purged' = purged
    /\ OthersKept(g) /\ job[g].pc # "idle"
    /\ job'[g].pc = "idle" \/ job'[g].msg = job[g].msg
    /\ Owns(g)' => Owns(g)
    /\ \A n \in Msgs \ {job[g].msg} : SameRecord(n) /\ SameHistory(n)

LEMMA SourceFrames ==
    ASSUME TypeOK, NEW m \in Msgs,
           \/ Start(m) \/ Abort(m) \/ Commit(m) \/ SourceStep(m)
           \/ \E r \in Rcpts : AddRcpt(m, r)
    PROVE  SourceFrame(m) /\ (slots' = slots \/ CommitPush(m))
  <1>1. CASE Start(m)
    BY <1>1 DEF Start, StepTo, TypeOK, SourceFrame, SameRecord
  <1>2. CASE Abort(m)
    BY <1>2 DEF Abort, StepTo, Reject, TypeOK, SourceFrame, SameRecord
  <1>3. CASE Commit(m)
    BY <1>3 DEF Commit, StepTo, TypeOK, SourceFrame, SameRecord
  <1>4. CASE \E r \in Rcpts : AddRcpt(m, r)
    BY <1>4 DEF AddRcpt, TypeOK, SourceFrame, SameRecord
  <1>5. CASE StoreHeader(m)
    BY <1>5 DEF StoreHeader, StepTo, Reject, TypeOK, SourceFrame, SameRecord
  <1>6. CASE StoreBody(m)
    BY <1>6 DEF StoreBody, StepTo, Reject, TypeOK, SourceFrame, SameRecord
  <1>7. CASE StoreMeta(m)
    BY <1>7 DEF StoreMeta, StepTo, Reject, WriteMeta, TypeOK, SourceFrame, SameRecord
  <1>8. CASE StoreSync(m)
    BY <1>8 DEF StoreSync, StepTo, Synced, TypeOK, SourceFrame, SameRecord
  <1>9. CASE AbortRemove(m)
    BY <1>9 DEF AbortRemove, RemoveFile, StepTo, NextStage, TypeOK, SourceFrame, SameRecord
  <1>10. CASE CommitPush(m)
    BY <1>10 DEF CommitPush, StepTo, TypeOK, SourceFrame, SameRecord
  <1>11. CASE CommitSend(m)
    BY <1>11 DEF CommitSend, StepTo, TypeOK, SourceFrame, SameRecord
  <1> QED
    BY <1>1, <1>2, <1>3, <1>4, <1>5, <1>6, <1>7, <1>8, <1>9, <1>10, <1>11 DEF SourceStep

LEMMA AttemptFrames ==
    ASSUME TypeOK, NEW g \in Goroutines, GoroutineStep(g) \/ TargetPanic(g)
    PROVE  AttemptFrame(g) /\ (slots' = slots \/ AddPush(g))
  <1>0. job[g].msg \in Msgs
    BY JobFields DEF TypeOK
  <1>1. CASE Acquire(g)
    <2>1. OthersKept(g) /\ (job'[g].pc = "idle" \/ job'[g].msg = job[g].msg)
      BY <1>1, GotoStep, PcTypes DEF TypeOK, Acquire
    <2>2. job[g].pc # "idle" /\ (Owns(g)' => Owns(g))
      BY <1>1, GotoStep, PcTypes DEF TypeOK, Acquire, Owns
    <2> QED
      BY <1>0, <1>1, <2>1, <2>2 DEF Acquire, TypeOK, AttemptFrame, SameRecord, SameHistory
  <1>2. CASE OpenMessage(g)
    <2>1. OthersKept(g) /\ (job'[g].pc = "idle" \/ job'[g].msg = job[g].msg)
      BY <1>2, OpenStep DEF TypeOK, OpenMessage
    <2>2. job[g].pc # "idle" /\ (Owns(g)' => Owns(g))
      BY <1>2, OpenStep DEF TypeOK, OpenMessage, Owns
    <2> QED
      BY <1>0, <1>2, <2>1, <2>2 DEF OpenMessage, TypeOK, AttemptFrame, SameRecord, SameHistory
  <1>3. CASE TargetStart(g)
    <2>1. OthersKept(g) /\ (job'[g].pc = "idle" \/ job'[g].msg = job[g].msg)
      BY <1>3, TargetStartStep DEF TypeOK, TargetStart
    <2>2. job[g].pc # "idle" /\ (Owns(g)' => Owns(g))
      BY <1>3, TargetStartStep DEF TypeOK, TargetStart, Owns
    <2> QED
      BY <1>0, <1>3, <2>1, <2>2 DEF TargetStart, TypeOK, AttemptFrame, SameRecord, SameHistory
  <1>4. CASE TargetBody(g)
    <2>1. OthersKept(g) /\ (job'[g].pc = "idle" \/ job'[g].msg = job[g].msg)
      BY <1>4, TargetBodyStep DEF TypeOK, TargetBody
    <2>2. job[g].pc # "idle" /\ (Owns(g)' => Owns(g))
      BY <1>4, TargetBodyStep DEF TypeOK, TargetBody, Owns
    <2> QED
      BY <1>0, <1>4, <2>1, <2>2 DEF TargetBody, TypeOK, AttemptFrame, SameRecord, SameHistory
  <1>5. CASE TargetCommit(g)
    <2>1. OthersKept(g) /\ (job'[g].pc = "idle" \/ job'[g].msg = job[g].msg)
      BY <1>5, TargetCommitStep DEF TypeOK, TargetCommit
    <2>2. job[g].pc # "idle" /\ (Owns(g)' => Owns(g))
      BY <1>5, TargetCommitStep DEF TypeOK, TargetCommit, Owns
    <2> QED
      BY <1>0, <1>5, <2>1, <2>2 DEF TargetCommit, TypeOK, AttemptFrame, SameRecord, SameHistory
  <1>6. CASE TargetPanic(g)
    <2>1. OthersKept(g) /\ (job'[g].pc = "idle" \/ job'[g].msg = job[g].msg)
      BY <1>6, GotoStep, PcTypes DEF TypeOK, TargetPanic
    <2>2. job[g].pc # "idle" /\ (Owns(g)' => Owns(g))
      BY <1>6, GotoStep, PcTypes DEF TypeOK, TargetPanic, Owns
    <2> QED
      BY <1>0, <1>6, <2>1, <2>2 DEF TargetPanic, TypeOK, AttemptFrame, SameRecord, SameHistory
  <1>7. CASE Classify(g)
    <2>1. OthersKept(g) /\ (job'[g].pc = "idle" \/ job'[g].msg = job[g].msg)
      BY <1>7, ClassifyStep DEF TypeOK, Classify
    <2>2. job[g].pc # "idle" /\ (Owns(g)' => Owns(g))
      BY <1>7, ClassifyStep DEF TypeOK, Classify, Owns
    <2> QED
      BY <1>0, <1>7, <2>1, <2>2 DEF Classify, TypeOK, AttemptFrame, SameRecord, SameHistory
  <1>8. CASE EmitDSN(g)
    <2>1. OthersKept(g) /\ (job'[g].pc = "idle" \/ job'[g].msg = job[g].msg)
      BY <1>8, EmitDSNStep DEF TypeOK, EmitDSN
    <2>2. job[g].pc # "idle" /\ (Owns(g)' => Owns(g))
      BY <1>8, EmitDSNStep DEF TypeOK, EmitDSN, Owns
    <2> QED
      BY <1>0, <1>8, <2>1, <2>2 DEF EmitDSN, TypeOK, AttemptFrame, SameRecord, SameHistory
  <1>9. CASE RemoveFromDisk(g)
    <2>1. OthersKept(g) /\ (job'[g].pc = "idle" \/ job'[g].msg = job[g].msg)
      BY <1>9, RemoveFromDiskStep DEF TypeOK, RemoveFromDisk
    <2>2. job[g].pc # "idle" /\ (Owns(g)' => Owns(g))
      BY <1>9, RemoveFromDiskStep DEF TypeOK, RemoveFromDisk, Owns
    <2> QED
      BY <1>0, <1>9, <2>1, <2>2 DEF RemoveFromDisk, RemoveFile, TypeOK, AttemptFrame, SameRecord, SameHistory
  <1>10. CASE UpdateMeta(g)
    <2>1. OthersKept(g) /\ (job'[g].pc = "idle" \/ job'[g].msg = job[g].msg)
      BY <1>10, GotoStep, PcTypes DEF TypeOK, UpdateMeta
    <2>2. job[g].pc # "idle" /\ (Owns(g)' => Owns(g))
      BY <1>10, GotoStep, PcTypes DEF TypeOK, UpdateMeta, Owns
    <2> QED
      BY <1>0, <1>10, <2>1, <2>2 DEF UpdateMeta, WriteMeta, TypeOK, AttemptFrame, SameRecord, SameHistory
  <1>11. CASE AddCheck(g)
    <2>1. OthersKept(g) /\ (job'[g].pc = "idle" \/ job'[g].msg = job[g].msg)
      BY <1>11, GotoStep, ReturnStep, PcTypes DEF TypeOK, AddCheck
    <2>2. job[g].pc # "idle" /\ (Owns(g)' => Owns(g))
      BY <1>11, GotoStep, ReturnStep, PcTypes DEF TypeOK, AddCheck, Owns
    <2> QED
      BY <1>0, <1>11, <2>1, <2>2 DEF AddCheck, TypeOK, AttemptFrame, SameRecord, SameHistory
  <1>12. CASE AddPush(g)
    <2>1. OthersKept(g) /\ (job'[g].pc = "idle" \/ job'[g].msg = job[g].msg)
      BY <1>12, GotoStep, PcTypes DEF TypeOK, AddPush
    <2>2. job[g].pc # "idle" /\ (Owns(g)' => Owns(g))
      BY <1>12, GotoStep, PcTypes DEF TypeOK, AddPush, Owns
    <2> QED
      BY <1>0, <1>12, <2>1, <2>2 DEF AddPush, TypeOK, AttemptFrame, SameRecord, SameHistory
  <1>13. CASE AddSend(g)
    <2>1. OthersKept(g) /\ (job'[g].pc = "idle" \/ job'[g].msg = job[g].msg)
      BY <1>13, GotoStep, ReturnStep, PcTypes DEF TypeOK, AddSend
    <2>2. job[g].pc # "idle" /\ (Owns(g)' => Owns(g))
      BY <1>13, GotoStep, ReturnStep, PcTypes DEF TypeOK, AddSend, Owns
    <2> QED
      BY <1>0, <1>13, <2>1, <2>2 DEF AddSend, TypeOK, AttemptFrame, SameRecord, SameHistory
  <1>14. CASE DiscardBroken(g)
    <2>1. OthersKept(g) /\ (job'[g].pc = "idle" \/ job'[g].msg = job[g].msg)
      BY <1>14, ReturnStep DEF TypeOK, DiscardBroken
    <2>2. job[g].pc # "idle" /\ (Owns(g)' => Owns(g))
      BY <1>14, ReturnStep DEF TypeOK, DiscardBroken, Owns
    <2> QED
      BY <1>0, <1>14, <2>1, <2>2 DEF DiscardBroken, TypeOK, AttemptFrame, SameRecord, SameHistory
  <1> QED
    BY <1>1, <1>2, <1>3, <1>4, <1>5, <1>6, <1>7, <1>8, <1>9, <1>10, <1>11, <1>12, <1>13, <1>14 DEF GoroutineStep

----------------------------------------------------------------------------
(* Ownership                                                               *)

LEMMA OwnershipInit == Init => Ownership
  BY IdleType DEF Init, Ownership, NothingWhenDown, HandedFirst, OneAttempt, MetaComesLast,
                  Owns, Handed

(* A step of the source before or after it hands its message over.         *)
LEMMA SourceKeepsOwnership ==
    ASSUME TypeOK, Ownership, NEW m \in Msgs,
           up, up' = up, slots' = slots, job' = job,
           \A n \in Msgs \ {m} : sess'[n] = sess[n] /\ meta'[n] = meta[n],
           sess[m] \in Handed => sess'[m] \in Handed,
           sess'[m] \in {"none", "rcpt", "body", "meta", "rejected"} => meta'[m] = "none",
           sess'[m] \notin Handed => meta'[m] # "broken"
    PROVE  Ownership'
  <1>1. \A n \in Msgs : sess[n] \in Handed => sess'[n] \in Handed
    OBVIOUS
  <1>2. /\ \A g \in Goroutines : job[g].msg \in Msgs
        /\ \A s \in slots : s.msg \in Msgs
    BY JobFields DEF TypeOK, Slots
  <1>3. HandedFirst'
    BY <1>1, <1>2 DEF Ownership, HandedFirst, Handed
  <1>4. OneAttempt'
    BY DEF Ownership, OneAttempt, Owns
  <1>5. MetaComesLast'
    BY DEF Ownership, MetaComesLast, Handed
  <1> QED
    BY <1>3, <1>4, <1>5 DEF Ownership, NothingWhenDown

(* A step of an attempt: it stays with its message and does not take up    *)
(* one that it had let go.                                                 *)
LEMMA AttemptKeepsOwnership ==
    ASSUME TypeOK, Ownership, NEW g \in Goroutines, AttemptFrame(g), slots' = slots
    PROVE  Ownership'
  <1>1. job[g].msg \in Msgs /\ sess[job[g].msg] \in Handed
    BY JobFields DEF TypeOK, Ownership, HandedFirst, AttemptFrame
  <1>2. HandedFirst'
    BY DEF Ownership, HandedFirst, AttemptFrame, OthersKept, Handed
  <1>3. \A h \in Goroutines : Owns(h)' => Owns(h) /\ job'[h].msg = job[h].msg
    BY DEF AttemptFrame, OthersKept, Owns
  <1>4. OneAttempt'
    BY <1>3 DEF Ownership, OneAttempt
  <1>5. MetaComesLast'
    BY <1>1 DEF Ownership, MetaComesLast, Handed, AttemptFrame, SameRecord
  <1> QED
    BY <1>2, <1>4, <1>5 DEF Ownership, NothingWhenDown, AttemptFrame

LEMMA OwnershipNext == TypeOK /\ TypeOK' /\ Ownership /\ [Next]_vars => Ownership'
  <1> SUFFICES ASSUME TypeOK, TypeOK', Ownership, [Next]_vars PROVE Ownership'
    OBVIOUS
  <1>0. \A g \in Goroutines : job[g].msg \in Msgs
    BY JobFields DEF TypeOK
  <1>1. ASSUME NEW m \in Msgs, Start(m) PROVE Ownership'
    <2>1. /\ \A k \in Msgs \ {m} : sess'[k] = sess[k] /\ meta'[k] = meta[k]
          /\ up /\ up' = up /\ slots' = slots /\ job' = job /\ sess[m] \notin Handed
      BY <1>1 DEF Start, StepTo, TypeOK, Handed
    <2>2. /\ sess'[m] \in {"none", "rcpt", "body", "meta", "rejected"} => meta'[m] = "none"
          /\ sess'[m] \notin Handed => meta'[m] # "broken"
      BY <1>1 DEF Start, StepTo, TypeOK, Ownership, MetaComesLast, Handed
    <2> QED
      BY <2>1, <2>2, SourceKeepsOwnership
  <1>2. ASSUME NEW m \in Msgs, Abort(m) PROVE Ownership'
    <2>1. /\ \A k \in Msgs \ {m} : sess'[k] = sess[k] /\ meta'[k] = meta[k]
          /\ up /\ up' = up /\ slots' = slots /\ job' = job /\ sess[m] \notin Handed
      BY <1>2 DEF Abort, StepTo, Reject, TypeOK, Handed
    <2>2. /\ sess'[m] \in {"none", "rcpt", "body", "meta", "rejected"} => meta'[m] = "none"
          /\ sess'[m] \notin Handed => meta'[m] # "broken"
      BY <1>2 DEF Abort, StepTo, Reject, TypeOK, Ownership, MetaComesLast, Handed
    <2> QED
      BY <2>1, <2>2, SourceKeepsOwnership
  <1>3. ASSUME NEW m \in Msgs, Commit(m) PROVE Ownership'
    <2>1. /\ \A k \in Msgs \ {m} : sess'[k] = sess[k] /\ meta'[k] = meta[k]
          /\ up /\ up' = up /\ slots' = slots /\ job' = job /\ sess[m] \notin Handed
      BY <1>3 DEF Commit, StepTo, TypeOK, Handed
    <2>2. /\ sess'[m] \in {"none", "rcpt", "body", "meta", "rejected"} => meta'[m] = "none"
          /\ sess'[m] \notin Handed => meta'[m] # "broken"
      BY <1>3 DEF Commit, StepTo, TypeOK, Ownership, MetaComesLast, Handed
    <2> QED
      BY <2>1, <2>2, SourceKeepsOwnership
  <1>4. ASSUME NEW m \in Msgs, NEW r \in Rcpts, AddRcpt(m, r) PROVE Ownership'
    BY <1>4, SourceKeepsOwnership DEF AddRcpt, TypeOK, Ownership, MetaComesLast, Handed
  <1>5. ASSUME NEW m \in Msgs, StoreHeader(m) PROVE Ownership'
    <2>1. /\ \A k \in Msgs \ {m} : sess'[k] = sess[k] /\ meta'[k] = meta[k]
          /\ up /\ up' = up /\ slots' = slots /\ job' = job /\ sess[m] \notin Handed
      BY <1>5 DEF StoreHeader, StepTo, Reject, TypeOK, Handed
    <2>2. /\ sess'[m] \in {"none", "rcpt", "body", "meta", "rejected"} => meta'[m] = "none"
          /\ sess'[m] \notin Handed => meta'[m] # "broken"
      BY <1>5 DEF StoreHeader, StepTo, Reject, TypeOK, Ownership, MetaComesLast, Handed
    <2> QED
      BY <2>1, <2>2, SourceKeepsOwnership
  <1>6. ASSUME NEW m \in Msgs, StoreBody(m) PROVE Ownership'
    <2>1. /\ \A k \in Msgs \ {m} : sess'[k] = sess[k] /\ meta'[k] = meta[k]
          /\ up /\ up' = up /\ slots' = slots /\ job' = job /\ sess[m] \notin Handed
      BY <1>6 DEF StoreBody, StepTo, Reject, TypeOK, Handed
    <2>2. /\ sess'[m] \in {"none", "rcpt", "body", "meta", "rejected"} => meta'[m] = "none"
          /\ sess'[m] \notin Handed => meta'[m] # "broken"
      BY <1>6 DEF StoreBody, StepTo, Reject, TypeOK, Ownership, MetaComesLast, Handed
    <2> QED
      BY <2>1, <2>2, SourceKeepsOwnership
  <1>7. ASSUME NEW m \in Msgs, StoreMeta(m) PROVE Ownership'
    <2>1. /\ \A k \in Msgs \ {m} : sess'[k] = sess[k] /\ meta'[k] = meta[k]
          /\ up /\ up' = up /\ slots' = slots /\ job' = job /\ sess[m] \notin Handed
      BY <1>7 DEF StoreMeta, StepTo, Reject, WriteMeta, TypeOK, Handed
    <2>2. /\ sess'[m] \in {"none", "rcpt", "body", "meta", "rejected"} => meta'[m] = "none"
          /\ sess'[m] \notin Handed => meta'[m] # "broken"
      BY <1>7 DEF StoreMeta, StepTo, Reject, WriteMeta, TypeOK, Ownership, MetaComesLast, Handed
    <2> QED
      BY <2>1, <2>2, SourceKeepsOwnership
  <1>8. ASSUME NEW m \in Msgs, StoreSync(m) PROVE Ownership'
    <2>1. /\ \A k \in Msgs \ {m} : sess'[k] = sess[k] /\ meta'[k] = meta[k]
          /\ up /\ up' = up /\ slots' = slots /\ job' = job /\ sess[m] \notin Handed
      BY <1>8 DEF StoreSync, StepTo, Synced, TypeOK, Handed
    <2>2. /\ sess'[m] \in {"none", "rcpt", "body", "meta", "rejected"} => meta'[m] = "none"
          /\ sess'[m] \notin Handed => meta'[m] # "broken"
      BY <1>8, ZenonT(60) DEF StoreSync, StepTo, Synced, TypeOK, Ownership, MetaComesLast, Handed
    <2> QED
      BY <2>1, <2>2, SourceKeepsOwnership
  <1>9. ASSUME NEW m \in Msgs, AbortRemove(m) PROVE Ownership'
    <2>1. /\ \A k \in Msgs \ {m} : sess'[k] = sess[k] /\ meta'[k] = meta[k]
          /\ up /\ up' = up /\ slots' = slots /\ job' = job /\ sess[m] \notin Handed
      BY <1>9 DEF AbortRemove, RemoveFile, StepTo, NextStage, TypeOK, Handed
    <2>2. /\ sess'[m] \in {"none", "rcpt", "body", "meta", "rejected"} => meta'[m] = "none"
          /\ sess'[m] \notin Handed => meta'[m] # "broken"
      BY <1>9 DEF AbortRemove, RemoveFile, StepTo, NextStage, TypeOK, Ownership, MetaComesLast, Handed
    <2> QED
      BY <2>1, <2>2, SourceKeepsOwnership
  <1>10. ASSUME NEW m \in Msgs, CommitPush(m) PROVE Ownership'
    BY <1>10, <1>0 DEF CommitPush, StepTo, TypeOK, Slots, Ownership, NothingWhenDown, HandedFirst, OneAttempt, MetaComesLast, Owns, Handed
  <1>11. ASSUME NEW m \in Msgs, CommitSend(m) PROVE Ownership'
    BY <1>11, SourceKeepsOwnership DEF CommitSend, StepTo, TypeOK, Ownership, MetaComesLast, Handed
  <1>12. ASSUME NEW g \in Goroutines, GoroutineStep(g) \/ TargetPanic(g), ~AddPush(g)
         PROVE  Ownership'
    BY <1>12, AttemptFrames, AttemptKeepsOwnership
  <1>13. ASSUME NEW g \in Goroutines, AddPush(g) PROVE Ownership'
    <2>1. /\ OthersKept(g) /\ job'[g].pc = "send" /\ job'[g].msg = job[g].msg
          /\ up /\ up' = up /\ sess' = sess /\ meta' = meta /\ job[g].pc = "push"
          /\ slots' = slots \union {[msg |-> job[g].msg, mem |-> FALSE]}
      BY <1>13, GotoStep, PcTypes DEF TypeOK, AddPush
    <2>2. HandedFirst'
      BY <1>0, <2>1 DEF Ownership, HandedFirst, OthersKept, Handed
    <2>3. Owns(g) /\ \A h \in Goroutines : Owns(h)' => h # g /\ Owns(h) /\ job'[h].msg = job[h].msg
      BY <2>1 DEF OthersKept, Owns
    <2>4. \A s \in slots : s.msg # job[g].msg
      BY <2>3 DEF Ownership, OneAttempt
    <2>5. \A s, t \in slots' : s.msg = t.msg => s = t
      <3> DEFINE new == [msg |-> job[g].msg, mem |-> FALSE]
      <3>1. new.msg = job[g].msg /\ slots' = slots \union {new}
        BY <2>1
      <3> HIDE DEF new
      <3> QED
        BY <2>4, <3>1 DEF Ownership, OneAttempt
    <2>6. \A h \in Goroutines, s \in slots' : Owns(h)' => job'[h].msg # s.msg
      BY <2>1, <2>3 DEF Ownership, OneAttempt
    <2>7. OneAttempt'
      BY <2>3, <2>5, <2>6 DEF Ownership, OneAttempt
    <2> QED
      BY <2>1, <2>2, <2>7 DEF Ownership, MetaComesLast, NothingWhenDown
  <1>14. ASSUME NEW g \in Goroutines, NEW s \in slots, Dispatch(g, s) PROVE Ownership'
    <2>1. /\ OthersKept(g) /\ job'[g].pc = "wait" /\ job'[g].msg = s.msg
          /\ up /\ up' = up /\ sess' = sess /\ meta' = meta /\ job[g].pc = "idle"
          /\ slots' = slots \ {s}
      BY <1>14, DispatchStep DEF Dispatch
    <2>2. HandedFirst'
      BY <2>1 DEF Ownership, HandedFirst, OthersKept, Handed
    <2>3. \A h \in Goroutines \ {g} :
            (Owns(h)' <=> Owns(h)) /\ job'[h].msg = job[h].msg
      BY <2>1 DEF OthersKept, Owns
    <2>4. \A h \in Goroutines \ {g} : Owns(h) => job[h].msg # s.msg
      BY DEF Ownership, OneAttempt
    <2>5. \A t \in slots' : t.msg # s.msg
      BY <2>1 DEF Ownership, OneAttempt
    <2>6. OneAttempt'
      BY <2>1, <2>3, <2>4, <2>5 DEF Ownership, OneAttempt
    <2> QED
      BY <2>1, <2>2, <2>6 DEF Ownership, MetaComesLast, NothingWhenDown
  <1>15. CASE CloseBegin
    BY <1>15, <1>0 DEF CloseBegin, TypeOK, Slots, Ownership, NothingWhenDown, HandedFirst, OneAttempt, MetaComesLast, Owns, Handed
  <1>16. CASE CloseWheel
    BY <1>16, <1>0 DEF CloseWheel, TypeOK, Slots, Ownership, NothingWhenDown, HandedFirst, OneAttempt, MetaComesLast, Owns, Handed
  <1>17. CASE Exit
    BY <1>17, IdleType, <1>0 DEF Exit, LoseMemory, TypeOK, Slots, Ownership, NothingWhenDown, HandedFirst, OneAttempt, MetaComesLast, Owns, Handed
  <1>18. CASE Crash
    BY <1>18, IdleType, <1>0 DEF Crash, LoseMemory, TypeOK, Slots, Ownership, NothingWhenDown, HandedFirst, OneAttempt, MetaComesLast, Owns, Handed
  <1>19. CASE PowerLoss
    BY <1>19, IdleType, <1>0 DEF PowerLoss, LoseMemory, TypeOK, Slots, Ownership, NothingWhenDown, HandedFirst, OneAttempt, MetaComesLast, Owns, Handed
  <1>20. CASE Restart
    BY <1>20, <1>0 DEF Restart, RemoveDangling, Loadable, Dangling, TypeOK, Slots, Ownership, NothingWhenDown, HandedFirst, OneAttempt, MetaComesLast, Owns, Handed
  <1>21. CASE PurgeOpen
    BY <1>21, <1>0 DEF PurgeOpen, RemoveDangling, Dangling, TypeOK, Slots, Ownership, NothingWhenDown, HandedFirst, OneAttempt, MetaComesLast, Owns, Handed
  <1>22. CASE PurgeRemove
    BY <1>22, <1>0 DEF PurgeRemove, RemoveFile, NextStage, TypeOK, Slots, Ownership, NothingWhenDown, HandedFirst, OneAttempt, MetaComesLast, Owns, Handed
  <1>23. ASSUME NEW m \in Msgs, PurgeSelect(m) PROVE Ownership'
    BY <1>23, <1>0 DEF PurgeSelect, TypeOK, Slots, Ownership, NothingWhenDown, HandedFirst, OneAttempt, MetaComesLast, Owns, Handed
  <1>24. CASE UNCHANGED vars
    BY <1>24 DEF vars, TypeOK, Slots, Ownership, NothingWhenDown, HandedFirst, OneAttempt, MetaComesLast, Owns, Handed
  <1> QED
    BY <1>1, <1>2, <1>3, <1>4, <1>5, <1>6, <1>7, <1>8, <1>9, <1>10, <1>11, <1>12, <1>13, <1>14, <1>15, <1>16, <1>17, <1>18, <1>19, <1>20, <1>21, <1>22, <1>23, <1>24 DEF Next, SourceStep

----------------------------------------------------------------------------
(* The files                                                               *)

LEMMA FilesInit == Init => Files
  BY DEF Init, Files, FilesWritten, FilesWhole, AllAttended, Kept, Loadable

(* FilesWritten for one message.                                           *)
Written(m) ==
    /\ sess[m] \in {"body", "meta", "sync"} => hdr[m] # "torn"
    /\ sess[m] \in {"meta", "sync"} => body[m] # "torn"
    /\ m \notin purged =>
         /\ sess[m] \in {"body", "meta", "sync"} => hdr[m] = "written"
         /\ sess[m] \in {"meta", "sync"} => body[m] = "written"
         /\ sess[m] = "sync" => meta[m] = "ok" /\ metaTo[m] = rcpts[m]

LEMMA FilesWrittenNext ==
    TypeOK /\ Ownership /\ FilesWritten /\ [Next]_vars => FilesWritten'
  <1> SUFFICES ASSUME TypeOK, Ownership, FilesWritten, [Next]_vars PROVE FilesWritten'
    OBVIOUS
  <1>0. (ppc # "idle" => pmsg \in purged) /\ \A m \in Msgs : Written(m)
    BY DEF FilesWritten, Written
  <1> SUFFICES (ppc' # "idle" => pmsg' \in purged') /\ \A m \in Msgs : Written(m)'
    BY DEF FilesWritten, Written
  <1>1. ASSUME NEW m \in Msgs,
               \/ Start(m) \/ Abort(m) \/ Commit(m) \/ SourceStep(m)
               \/ \E r \in Rcpts : AddRcpt(m, r)
        PROVE  (ppc' # "idle" => pmsg' \in purged') /\ \A n \in Msgs : Written(n)'
    <2>1. SourceFrame(m)
      BY <1>1, SourceFrames
    <2>2. \A n \in Msgs \ {m} : Written(n)'
      BY <1>0, <2>1 DEF SourceFrame, SameRecord, Written
    <2>3. Written(m)'
      <3> USE <1>0 DEF Written, TypeOK
      <3>1. CASE Start(m)
        BY <3>1 DEF Start, StepTo
      <3>2. CASE Abort(m)
        BY <3>2 DEF Abort, StepTo, Reject
      <3>3. CASE Commit(m)
        BY <3>3 DEF Commit, StepTo
      <3>4. CASE \E r \in Rcpts : AddRcpt(m, r)
        BY <3>4 DEF AddRcpt
      <3>5. CASE StoreHeader(m)
        BY <3>5 DEF StoreHeader, StepTo, Reject
      <3>6. CASE StoreBody(m)
        BY <3>6 DEF StoreBody, StepTo, Reject
      <3>7. CASE StoreMeta(m)
        BY <3>7 DEF StoreMeta, WriteMeta, StepTo, Reject
      <3>8. CASE StoreSync(m)
        BY <3>8 DEF StoreSync, StepTo
      <3>9. CASE AbortRemove(m)
        BY <3>9 DEF AbortRemove, StepTo, NextStage
      <3>10. CASE CommitPush(m)
        BY <3>10 DEF CommitPush, StepTo
      <3>11. CASE CommitSend(m)
        BY <3>11 DEF CommitSend, StepTo
      <3> QED
        BY <1>1, <3>1, <3>2, <3>3, <3>4, <3>5, <3>6, <3>7, <3>8, <3>9, <3>10, <3>11
        DEF SourceStep
    <2> QED
      BY <1>0, <2>1, <2>2, <2>3 DEF SourceFrame
  <1>2. ASSUME NEW g \in Goroutines, GoroutineStep(g) \/ TargetPanic(g)
        PROVE  (ppc' # "idle" => pmsg' \in purged') /\ \A n \in Msgs : Written(n)'
    <2>1. AttemptFrame(g)
      BY <1>2, AttemptFrames
    <2>2. sess[job[g].msg] \in Handed
      BY <2>1 DEF AttemptFrame, Ownership, HandedFirst
    <2> QED
      BY <1>0, <2>1, <2>2 DEF AttemptFrame, SameRecord, Written, Handed
  <1>3. ASSUME NEW g \in Goroutines, NEW s \in slots, Dispatch(g, s)
        PROVE  (ppc' # "idle" => pmsg' \in purged') /\ \A n \in Msgs : Written(n)'
    BY <1>0, <1>3 DEF Dispatch, Written
  <1>4. CASE CloseBegin \/ CloseWheel
    BY <1>0, <1>4 DEF CloseBegin, CloseWheel, Written
  <1>5. CASE Exit \/ Crash \/ PowerLoss
    <2>1. LoseMemory /\ purged' = purged /\ pmsg' = pmsg /\ (ppc' = ppc \/ ppc' = "idle")
      BY <1>5 DEF Exit, Crash, PowerLoss
    <2>2. \A m \in Msgs : sess'[m] \notin {"body", "meta", "sync"}
      BY <2>1 DEF LoseMemory
    <2> QED
      BY <1>0, <2>1, <2>2 DEF Written
  <1>6. CASE Restart
    BY <1>0, <1>6 DEF Restart, Ownership, NothingWhenDown, Written
  <1>7. CASE PurgeOpen
    BY <1>0, <1>7 DEF PurgeOpen, RemoveDangling, Dangling, Written, TypeOK,
                      Ownership, MetaComesLast
  <1>8. CASE PurgeRemove
    <2>1. \A n \in Msgs \ {pmsg} : SameRecord(n)
      BY <1>8 DEF PurgeRemove, RemoveFile, SameRecord, TypeOK
    <2>2. pmsg \in purged /\ sess' = sess /\ purged' = purged /\ pmsg' = pmsg /\ rcpts' = rcpts
      BY <1>0, <1>8 DEF PurgeRemove
    <2>3. hdr'[pmsg] \in {hdr[pmsg], "none"} /\ body'[pmsg] \in {body[pmsg], "none"}
      BY <1>8 DEF PurgeRemove, RemoveFile, TypeOK
    <2> QED
      BY <1>0, <2>1, <2>2, <2>3 DEF Written, SameRecord
  <1>9. ASSUME NEW m \in Msgs, PurgeSelect(m)
        PROVE  (ppc' # "idle" => pmsg' \in purged') /\ \A n \in Msgs : Written(n)'
    BY <1>0, <1>9 DEF PurgeSelect, Written
  <1>10. CASE UNCHANGED vars
    BY <1>0, <1>10 DEF vars, Written
  <1> QED
    BY <1>1, <1>2, <1>3, <1>4, <1>5, <1>6, <1>7, <1>8, <1>9, <1>10 DEF Next

LEMMA FilesWholeNext ==
    TypeOK /\ Ownership /\ FilesWritten /\ FilesWhole /\ [Next]_vars => FilesWhole'
  <1> SUFFICES ASSUME TypeOK, Ownership, FilesWritten, FilesWhole, [Next]_vars
               PROVE  FilesWhole'
    OBVIOUS
  <1>1. ASSUME NEW m \in Msgs,
               \/ Start(m) \/ Abort(m) \/ Commit(m) \/ SourceStep(m)
               \/ \E r \in Rcpts : AddRcpt(m, r)
        PROVE  FilesWhole'
    <2>1. SourceFrame(m)
      BY <1>1, SourceFrames
    <2>2. m \in damaged => sess'[m] = sess[m]
      BY <1>1 DEF Start, Abort, Commit, SourceStep, AddRcpt, StoreHeader, StoreBody,
                  StoreMeta, StoreSync, AbortRemove, CommitPush, CommitSend, FilesWhole
    <2>3. sess'[m] \in Kept => Whole(hdr'[m]) /\ Whole(body'[m])
      <3> USE DEF FilesWhole, Whole, Kept, TypeOK
      <3>1. CASE Start(m)
        BY <3>1 DEF Start, StepTo
      <3>2. CASE Abort(m)
        BY <3>2 DEF Abort, StepTo, Reject
      <3>3. CASE Commit(m)
        BY <3>3 DEF Commit, StepTo
      <3>4. CASE \E r \in Rcpts : AddRcpt(m, r)
        BY <3>4 DEF AddRcpt
      <3>5. CASE StoreHeader(m)
        BY <3>5 DEF StoreHeader, StepTo, Reject
      <3>6. CASE StoreBody(m)
        BY <3>6 DEF StoreBody, StepTo, Reject
      <3>7. CASE StoreMeta(m)
        BY <3>7 DEF StoreMeta, StepTo, Reject
      <3>8. CASE StoreSync(m)
        BY <3>8 DEF StoreSync, StepTo, Synced, FilesWritten, FileStates
      <3>9. CASE AbortRemove(m)
        BY <3>9 DEF AbortRemove, StepTo, NextStage
      <3>10. CASE CommitPush(m)
        BY <3>10 DEF CommitPush, StepTo
      <3>11. CASE CommitSend(m)
        BY <3>11 DEF CommitSend, StepTo
      <3> QED
        BY <1>1, <3>1, <3>2, <3>3, <3>4, <3>5, <3>6, <3>7, <3>8, <3>9, <3>10, <3>11
        DEF SourceStep
    <2> QED
      BY <2>1, <2>2, <2>3 DEF SourceFrame, SameRecord, FilesWhole
  <1>2. ASSUME NEW g \in Goroutines, GoroutineStep(g) \/ TargetPanic(g)
        PROVE  FilesWhole'
    <2> DEFINE m == job[g].msg
    <2>1. AttemptFrame(g)
      BY <1>2, AttemptFrames
    <2>2. m \in Msgs /\ sess[m] \in Handed
      BY <2>1, JobFields DEF AttemptFrame, Ownership, HandedFirst, TypeOK
    <2>3. hdr'[m] \in {hdr[m], "none"} /\ body'[m] \in {body[m], "none"}
      <3>1. CASE UNCHANGED <<hdr, body>>
        BY <3>1
      <3>2. CASE OpenMessage(g)
        BY <2>2, <3>2 DEF OpenMessage, TypeOK
      <3>3. CASE RemoveFromDisk(g)
        BY <2>2, <3>3 DEF RemoveFromDisk, RemoveFile, TypeOK
      <3> QED
        BY <1>2, <3>1, <3>2, <3>3
        DEF GoroutineStep, Acquire, TargetStart, TargetBody, TargetCommit, Classify, EmitDSN,
            UpdateMeta, AddCheck, AddPush, AddSend, DiscardBroken, TargetPanic
    <2>4. \A n \in damaged' : n \in damaged \/ (n = m /\ "torn" \in {hdr[m], body[m]})
      <3>1. CASE UNCHANGED damaged
        BY <3>1
      <3>2. CASE TargetBody(g)
        BY <3>2, TargetBodyStep
      <3> QED
        BY <1>2, <3>1, <3>2
        DEF GoroutineStep, OpenMessage, RemoveFromDisk, Acquire, TargetStart, TargetCommit,
            Classify, EmitDSN, UpdateMeta, AddCheck, AddPush, AddSend, DiscardBroken,
            TargetPanic
    <2> HIDE DEF m
    <2>5. \A n \in Msgs : sess'[n] \in Kept => Whole(hdr'[n]) /\ Whole(body'[n])
      BY <2>1, <2>2, <2>3 DEF AttemptFrame, SameRecord, FilesWhole, Whole, m
    <2>6. "torn" \in {hdr[m], body[m]} => sess[m] \in {"unsynced", "lost"}
      BY <2>2 DEF FilesWhole, Whole, Kept, Handed
    <2> QED
      BY <2>1, <2>4, <2>5, <2>6 DEF AttemptFrame, FilesWhole
  <1>3. ASSUME NEW g \in Goroutines, NEW s \in slots, Dispatch(g, s)
        PROVE  FilesWhole'
    BY <1>3 DEF Dispatch, FilesWhole
  <1>4. CASE CloseBegin \/ CloseWheel
    BY <1>4 DEF CloseBegin, CloseWheel, FilesWhole
  <1>5. CASE Exit \/ Crash \/ PowerLoss
    <2>1. LoseMemory /\ damaged' = damaged
      BY <1>5 DEF Exit, Crash, PowerLoss
    <2>2. \A m \in Msgs : /\ hdr[m] # "written" => hdr'[m] = hdr[m]
                          /\ body[m] # "written" => body'[m] = body[m]
      BY <1>5 DEF Exit, Crash, PowerLoss, TypeOK
    <2>3. \A m \in Msgs : /\ sess'[m] \in Kept => sess[m] \in Kept
                          /\ sess[m] \in {"unsynced", "lost"} => sess'[m] \in {"unsynced", "lost"}
      BY <2>1 DEF LoseMemory, Kept
    <2> QED
      BY <2>1, <2>2, <2>3 DEF FilesWhole, Whole
  <1>6. CASE Restart
    BY <1>6 DEF Restart, RemoveDangling, FilesWhole, Whole
  <1>7. CASE PurgeOpen
    BY <1>7 DEF PurgeOpen, RemoveDangling, FilesWhole, Whole
  <1>8. CASE PurgeRemove
    BY <1>8 DEF PurgeRemove, RemoveFile, FilesWhole, Whole, TypeOK
  <1>9. ASSUME NEW m \in Msgs, PurgeSelect(m) PROVE FilesWhole'
    BY <1>9 DEF PurgeSelect, FilesWhole
  <1>10. CASE UNCHANGED vars
    BY <1>10 DEF vars, FilesWhole
  <1> QED
    BY <1>1, <1>2, <1>3, <1>4, <1>5, <1>6, <1>7, <1>8, <1>9, <1>10 DEF Next

LEMMA AllAttendedNext ==
    TypeOK /\ TypeOK' /\ Ownership /\ FilesWhole /\ AllAttended /\ [Next]_vars => AllAttended'
  <1> SUFFICES ASSUME TypeOK, TypeOK', Ownership, FilesWhole, AllAttended, [Next]_vars,
                      up', wheel' = "run",
                      NEW n \in Msgs, sess'[n] \in {"send", "accepted"}, n \in Loadable'
               PROVE  Attended(n)'
    BY DEF AllAttended
  <1>1. ASSUME NEW m \in Msgs,
               \/ Start(m) \/ Abort(m) \/ Commit(m) \/ SourceStep(m)
               \/ \E r \in Rcpts : AddRcpt(m, r)
        PROVE  Attended(n)'
    <2>1. SourceFrame(m) /\ (slots' = slots \/ CommitPush(m))
      BY <1>1, SourceFrames
    <2>2. slots \subseteq slots'
      BY <2>1 DEF CommitPush
    <2>3. Attended(n) => Attended(n)'
      BY <2>1, <2>2 DEF Attended, SourceFrame, Owns
    <2>4. CASE n # m
      BY <2>1, <2>3, <2>4 DEF SourceFrame, SameRecord, Loadable, AllAttended
    <2>5. CASE n = m /\ CommitPush(m)
      <3>1. [msg |-> n, mem |-> TRUE] \in slots'
        BY <2>5 DEF CommitPush
      <3> QED
        BY <3>1 DEF Attended
    <2>6. CASE n = m /\ sess[m] \in {"send", "accepted"}
      <3>1. UNCHANGED diskVars
        BY <1>1, <2>6 DEF Start, Abort, Commit, SourceStep, AddRcpt, StoreHeader, StoreBody,
                          StoreMeta, StoreSync, AbortRemove, CommitPush, CommitSend
      <3> QED
        BY <2>1, <2>3, <2>6, <3>1 DEF SourceFrame, Loadable, AllAttended
    <2>7. CASE n = m /\ ~CommitPush(m) /\ sess[m] \notin {"send", "accepted"}
      BY <1>1, <2>1, <2>7
      DEF Start, Abort, Commit, SourceStep, AddRcpt, StoreHeader, StoreBody, StoreMeta,
          StoreSync, AbortRemove, CommitSend, StepTo, Reject, NextStage, TypeOK, SourceFrame
    <2> QED
      BY <2>4, <2>5, <2>6, <2>7
  <1>2. ASSUME NEW g \in Goroutines, GoroutineStep(g) \/ TargetPanic(g)
        PROVE  Attended(n)'
    <2>1. AttemptFrame(g) /\ (slots' = slots \/ AddPush(g))
      BY <1>2, AttemptFrames
    <2>2. slots \subseteq slots' /\ job[g].msg \in Msgs
      BY <2>1, JobFields DEF AddPush, TypeOK
    <2>3. CASE n # job[g].msg
      <3>1. Attended(n)
        BY <2>1, <2>3 DEF AttemptFrame, SameRecord, Loadable, AllAttended
      <3> QED
        BY <2>1, <2>2, <2>3, <3>1 DEF Attended, Owns, AttemptFrame, OthersKept
    <2>4. CASE n = job[g].msg /\ job'[g].msg = n /\ (Owns(g)' \/ job'[g].pc = "broken")
      BY <2>4 DEF Attended
    <2>5. CASE n = job[g].msg /\ ~Owns(g)' /\ job'[g].pc # "broken"
      <3>1. job'[g].pc \in {"idle", "send"}
        BY <2>5 DEF Owns
      <3>2. CASE OpenMessage(g)
        BY <2>1, <2>2, <2>5, <3>1, <3>2, OpenStep
        DEF Loadable, Dangling, FilesWhole, Whole, Kept, AttemptFrame, TypeOK
      <3>3. CASE RemoveFromDisk(g)
        BY <2>2, <2>5, <3>1, <3>3, RemoveFromDiskStep
        DEF Loadable, RemoveFromDisk, RemoveFile, TypeOK
      <3>4. CASE AddCheck(g)
        BY <3>1, <3>4, GotoStep, PcTypes DEF AddCheck, TypeOK
      <3>5. CASE AddPush(g)
        <4>1. [msg |-> n, mem |-> FALSE] \in slots'
          BY <2>5, <3>5 DEF AddPush
        <4> QED
          BY <4>1 DEF Attended
      <3>6. CASE AddSend(g)
        <4>1. Attended(n)
          BY <2>1, <2>5, <3>6 DEF AttemptFrame, AddSend, Loadable, AllAttended
        <4>2. \A h \in Goroutines : job[h].msg = n /\ (Owns(h) \/ job[h].pc = "broken") => h # g
          BY <3>6 DEF AddSend, Owns
        <4> QED
          BY <2>1, <2>2, <4>1, <4>2 DEF Attended, Owns, AttemptFrame, OthersKept
      <3>7. CASE DiscardBroken(g)
        BY <2>2, <2>5, <3>7 DEF DiscardBroken, Loadable, TypeOK
      <3>8. CASE Acquire(g)
        BY <3>1, <3>8, GotoStep, PcTypes DEF Acquire, TypeOK
      <3>9. CASE TargetStart(g) \/ TargetBody(g) \/ TargetCommit(g)
        BY <3>1, <3>9, TargetStartStep, TargetBodyStep, TargetCommitStep
      <3>10. CASE Classify(g) \/ EmitDSN(g)
        BY <3>1, <3>10, ClassifyStep, EmitDSNStep DEF Afterwards
      <3>11. CASE UpdateMeta(g)
        BY <3>1, <3>11, GotoStep, PcTypes DEF UpdateMeta, TypeOK
      <3>12. CASE TargetPanic(g)
        BY <2>5, <3>12, GotoStep, PcTypes DEF TargetPanic, TypeOK
      <3> QED
        BY <1>2, <3>2, <3>3, <3>4, <3>5, <3>6, <3>7, <3>8, <3>9, <3>10, <3>11, <3>12
        DEF GoroutineStep
    <2> QED
      BY <2>1, <2>3, <2>4, <2>5 DEF AttemptFrame, Owns
  <1>3. ASSUME NEW g \in Goroutines, NEW s \in slots, Dispatch(g, s)
        PROVE  Attended(n)'
    <2>1. Attended(n) /\ slots' = slots \ {s}
      BY <1>3 DEF Dispatch, Loadable, AllAttended
    <2>2. /\ OthersKept(g) /\ job'[g].pc = "wait" /\ job'[g].msg = s.msg /\ job[g].pc = "idle"
      BY <1>3, DispatchStep DEF Dispatch
    <2> QED
      BY <2>1, <2>2 DEF Attended, Owns, OthersKept
  <1>4. CASE CloseBegin \/ CloseWheel \/ Exit \/ Crash \/ PowerLoss
    BY <1>4 DEF CloseBegin, CloseWheel, Exit, Crash, PowerLoss, LoseMemory
  <1>5. CASE Restart
    <2>1. n \in Loadable /\ slots' = {[msg |-> m, mem |-> FALSE] : m \in Loadable}
      BY <1>5 DEF Restart, RemoveDangling, Loadable
    <2>2. [msg |-> n, mem |-> FALSE] \in slots'
      BY <2>1
    <2> QED
      BY <2>2 DEF Attended
  <1>6. CASE PurgeOpen \/ PurgeRemove \/ \E m \in Msgs : PurgeSelect(m)
    <2>1. /\ up' = up /\ wheel' = wheel /\ slots' = slots /\ job' = job /\ sess' = sess
      BY <1>6 DEF PurgeOpen, PurgeRemove, PurgeSelect
    <2>2. n \in Loadable
      BY <1>6, ZenonT(60) DEF PurgeOpen, RemoveDangling, PurgeRemove, RemoveFile, PurgeSelect, Loadable, TypeOK
    <2> QED
      BY <2>1, <2>2 DEF AllAttended, Attended, Owns
  <1>7. CASE UNCHANGED vars
    BY <1>7 DEF vars, AllAttended, Attended, Owns, Loadable
  <1> QED
    BY <1>1, <1>2, <1>3, <1>4, <1>5, <1>6, <1>7 DEF Next

LEMMA FilesNext ==
    TypeOK /\ TypeOK' /\ Ownership /\ Files /\ [Next]_vars => Files'
  BY FilesWrittenNext, FilesWholeNext, AllAttendedNext DEF Files

(* SingleOwner and NotStranded in terms of the parts above.                *)
LEMMA OwnershipGivesSingleOwner == TypeOK /\ Ownership => SingleOwner
  <1> SUFFICES ASSUME TypeOK, Ownership, NEW m \in Msgs
               PROVE  /\ Cardinality(Owners(m)) + Cardinality(Scheduled(m)) <= 1
                      /\ sess[m] \in {"none", "rcpt", "body", "meta", "sync", "stored",
                                      "rmHdr", "rmBody", "rmMeta"}
                           => Owners(m) = {} /\ Scheduled(m) = {}
    BY DEF SingleOwner
  <1>1. Owners(m) = {} \/ \E g \in Goroutines : Owners(m) = {g}
    <2>1. \A g, h \in Owners(m) : g = h
      BY DEF Owners, Ownership, OneAttempt, Owns
    <2> QED
      BY <2>1 DEF Owners
  <1>2. Scheduled(m) = {} \/ \E s \in slots : Scheduled(m) = {s}
    <2>1. \A s, t \in Scheduled(m) : s = t
      BY DEF Scheduled, Ownership, OneAttempt
    <2> QED
      BY <2>1 DEF Scheduled
  <1>3. Owners(m) = {} \/ Scheduled(m) = {}
    BY DEF Owners, Scheduled, Ownership, OneAttempt, Owns
  <1>4. Cardinality(Owners(m)) + Cardinality(Scheduled(m)) <= 1
    <2>1. Cardinality({}) = 0
      BY FS_EmptySet
    <2>2. \A x : Cardinality({x}) = 1
      BY FS_Singleton
    <2> QED
      BY <1>1, <1>2, <1>3, <2>1, <2>2
  <1>5. sess[m] \notin Handed => Owners(m) = {} /\ Scheduled(m) = {}
    BY DEF Owners, Scheduled, Ownership, HandedFirst
  <1> QED
    BY <1>4, <1>5 DEF Handed

LEMMA FilesGiveNotStranded == Files => NotStranded
  BY DEF Files, AllAttended, Attended, NotStranded, Accepted, Owners, Scheduled, Owns

----------------------------------------------------------------------------
(* Memory                                                                  *)

LEMMA MemoryInit == Init => Memory
  BY IdleType DEF Init, Memory, NothingEarly, LocalsFit, Remembered, Unattempted, Kept

LEMMA NothingEarlyNext ==
    TypeOK /\ Ownership /\ NothingEarly /\ [Next]_vars => NothingEarly'
  <1> SUFFICES ASSUME TypeOK, Ownership, NothingEarly, [Next]_vars PROVE NothingEarly'
    OBVIOUS
  <1>1. ASSUME NEW m \in Msgs,
               \/ Start(m) \/ Abort(m) \/ Commit(m) \/ SourceStep(m)
               \/ \E r \in Rcpts : AddRcpt(m, r)
        PROVE  NothingEarly'
    <2>1. SourceFrame(m) /\ (slots' = slots \/ CommitPush(m))
      BY <1>1, SourceFrames
    <2>2. sess[m] \in Handed => sess'[m] \in Handed
      BY <1>1 DEF Start, Abort, Commit, SourceStep, AddRcpt, StoreHeader, StoreBody,
                  StoreMeta, StoreSync, AbortRemove, CommitPush, CommitSend, StepTo,
                  Handed, TypeOK
    <2>3. \A s \in slots' : s \in slots \/ (s.msg = m /\ sess[m] \notin Handed)
      BY <2>1 DEF CommitPush, Handed
    <2>4. \A n \in Msgs : Unattempted(n)' = Unattempted(n)
      BY <2>1 DEF SourceFrame, Unattempted
    <2>5. \A s \in slots : s.msg \in Msgs
      BY DEF TypeOK, Slots
    <2>6. \A n \in Msgs : sess'[n] \notin Handed => sess[n] \notin Handed
      BY <2>1, <2>2 DEF SourceFrame
    <2> QED
      BY <2>3, <2>4, <2>5, <2>6 DEF NothingEarly, Handed
  <1>2. ASSUME NEW g \in Goroutines, GoroutineStep(g) \/ TargetPanic(g)
        PROVE  NothingEarly'
    <2>1. AttemptFrame(g) /\ (slots' = slots \/ AddPush(g))
      BY <1>2, AttemptFrames
    <2>2. sess[job[g].msg] \in Handed
      BY <2>1 DEF AttemptFrame, Ownership, HandedFirst
    <2>3. \A s \in slots' : s.mem => s \in slots
      BY <2>1 DEF AddPush
    <2>4. SameHistory(job[g].msg) \/ Owns(g)
      BY <1>2 DEF GoroutineStep, OpenMessage, RemoveFromDisk, Acquire, TargetStart, TargetBody,
            TargetCommit, Classify, EmitDSN, UpdateMeta, AddCheck, AddPush, AddSend,
            DiscardBroken, TargetPanic, SameHistory, Owns
    <2>5. \A s \in slots : SameHistory(s.msg)
      BY <2>1, <2>4 DEF AttemptFrame, Ownership, OneAttempt, TypeOK, Slots
    <2>6. \A n \in Msgs : sess'[n] \notin Handed => SameHistory(n)
      BY <2>1, <2>2 DEF AttemptFrame
    <2> QED
      BY <2>1, <2>3, <2>5, <2>6 DEF NothingEarly, Unattempted, SameHistory, AttemptFrame, Handed
  <1>3. ASSUME NEW g \in Goroutines, NEW s \in slots, Dispatch(g, s) PROVE NothingEarly'
    BY <1>3 DEF Dispatch, NothingEarly, Unattempted, Handed
  <1>4. CASE CloseBegin \/ CloseWheel
    BY <1>4 DEF CloseBegin, CloseWheel, NothingEarly, Unattempted, Handed
  <1>5. CASE Exit \/ Crash \/ PowerLoss
    <2>1. LoseMemory /\ UNCHANGED histVars
      BY <1>5 DEF Exit, Crash, PowerLoss
    <2> QED
      BY <2>1 DEF LoseMemory, NothingEarly, Unattempted, Handed
  <1>6. CASE Restart
    BY <1>6 DEF Restart, NothingEarly, Unattempted, Handed
  <1>7. CASE PurgeOpen \/ PurgeRemove \/ \E m \in Msgs : PurgeSelect(m)
    BY <1>7 DEF PurgeOpen, PurgeRemove, PurgeSelect, NothingEarly, Unattempted, Handed
  <1>8. CASE UNCHANGED vars
    BY <1>8 DEF vars, NothingEarly, Unattempted, Handed
  <1> QED
    BY <1>1, <1>2, <1>3, <1>4, <1>5, <1>6, <1>7, <1>8 DEF Next

(* LocalsFit for one record of locals.                                     *)
Fits(j) ==
    /\ j.pc \in {"body", "commit"} =>
         j.took \subseteq j.to /\ \A r \in j.to : r \in j.took \/ j.err[r] # "ok"
    /\ j.pc = "dsn" => j.to \intersect j.fail = {}
    /\ j.pc \in {"rmHdr", "rmBody", "rmMeta"} => j.to = {}

LEMMA LocalsFitNext == TypeOK /\ LocalsFit /\ [Next]_vars => LocalsFit'
  <1> SUFFICES ASSUME TypeOK, LocalsFit, [Next]_vars PROVE LocalsFit'
    OBVIOUS
  <1>0. \A g \in Goroutines : Fits(job[g])
    BY DEF LocalsFit, Fits
  <1> SUFFICES \A g \in Goroutines : Fits(job'[g])
    BY DEF LocalsFit, Fits
  <1>1. ASSUME NEW g \in Goroutines, GoroutineStep(g) \/ TargetPanic(g)
        PROVE  \A h \in Goroutines : Fits(job'[h])
    <2>1. OthersKept(g)
      BY <1>1, AttemptFrames DEF AttemptFrame
    <2>2. Fits(job'[g])
      <3>1. CASE job'[g].pc \in {"idle", "open", "start", "classify", "update", "add",
                                 "push", "send", "broken"}
        BY <3>1 DEF Fits
      <3>2. CASE TargetStart(g)
        BY <3>2, TargetStartStep DEF Fits
      <3>3. CASE TargetBody(g)
        <4>1. job[g].to \subseteq Rcpts
          BY JobFields DEF TypeOK
        <4>2. /\ job[g].took \subseteq job[g].to
              /\ \A r \in job[g].to : r \in job[g].took \/ job[g].err[r] # "ok"
          BY <1>0, <3>3 DEF Fits, TargetBody
        <4>3. /\ job'[g].to = job[g].to /\ job'[g].took = job[g].took
              /\ \A r \in Rcpts \ job[g].took : job'[g].err[r] = job[g].err[r]
              /\ job'[g].pc \in {"commit", "classify"}
          BY <3>3, TargetBodyStep
        <4> QED
          BY <4>1, <4>2, <4>3 DEF Fits
      <3>4. CASE TargetCommit(g)
        BY <3>4, TargetCommitStep DEF Fits
      <3>5. CASE Classify(g)
        BY <3>5, ClassifyStep DEF Fits, Afterwards, Retried, GivenUp
      <3>6. CASE EmitDSN(g)
        BY <3>6, EmitDSNStep DEF Fits, Afterwards
      <3>7. CASE RemoveFromDisk(g)
        BY <1>0, <3>7, RemoveFromDiskStep DEF Fits
      <3>8. CASE Acquire(g) \/ UpdateMeta(g) \/ AddCheck(g) \/ AddPush(g) \/ AddSend(g)
                 \/ TargetPanic(g)
        BY <3>1, <3>8, GotoStep, ReturnStep, PcTypes
        DEF Acquire, UpdateMeta, AddCheck, AddPush, AddSend, TargetPanic, TypeOK
      <3>9. CASE OpenMessage(g) \/ DiscardBroken(g)
        BY <3>1, <3>9, OpenStep, ReturnStep DEF DiscardBroken, TypeOK
      <3> QED
        BY <1>1, <3>2, <3>3, <3>4, <3>5, <3>6, <3>7, <3>8, <3>9 DEF GoroutineStep
    <2> QED
      BY <1>0, <2>1, <2>2 DEF OthersKept
  <1>2. ASSUME NEW g \in Goroutines, NEW s \in slots, Dispatch(g, s)
        PROVE  \A h \in Goroutines : Fits(job'[h])
    BY <1>0, <1>2, DispatchStep DEF OthersKept, Fits
  <1>3. CASE Exit \/ Crash \/ PowerLoss
    BY <1>3, IdleType DEF Exit, Crash, PowerLoss, LoseMemory, Fits
  <1>4. CASE job' = job
    BY <1>0, <1>4
  <1> QED
    BY <1>1, <1>2, <1>3, <1>4, SourceFrames
    DEF Next, SourceFrame, CloseBegin, CloseWheel, Restart, PurgeOpen, PurgeRemove,
        PurgeSelect, vars

(* What one more stage of an attempt makes of a recipient it still has to  *)
(* serve: the locals follow, and the files are only given up when nobody   *)
(* is left.                                                                *)
LEMMA AttemptRemembers ==
    ASSUME TypeOK, LocalsFit, NEW g \in Goroutines, GoroutineStep(g) \/ TargetPanic(g),
           NEW n \in Msgs, n = job[g].msg, NEW r \in Rcpts, Pending(n, r), Pending(n, r)',
           OnFile(n, r), InLocals(job[g], r)
    PROVE  OnFile(n, r)' /\ InLocals(job'[g], r)
  <1>0. /\ job[g].to \subseteq Rcpts /\ job[g].took \subseteq Rcpts
        /\ job[g].err[r] \in {"ok", "temp", "perm"}
    BY JobFields DEF TypeOK, Outcomes
  <1>1. CASE Acquire(g)
    BY <1>1, GotoStep, PcTypes DEF Acquire, TypeOK, InLocals, OnFile
  <1>2. CASE OpenMessage(g)
    BY <1>0, <1>2, OpenStep DEF OpenMessage, TypeOK, InLocals, OnFile, Loadable, Dangling
  <1>3. CASE TargetStart(g)
    BY <1>3, TargetStartStep DEF TargetStart, InLocals, OnFile
  <1>4. CASE TargetBody(g)
    <2>1. r \in job[g].to /\ (r \in job[g].took \/ job[g].err[r] # "ok")
      BY <1>4 DEF TargetBody, InLocals, LocalsFit
    <2> QED
      BY <1>4, <2>1, TargetBodyStep DEF TargetBody, InLocals, OnFile
  <1>5. CASE TargetCommit(g)
    <2>1. r \in job[g].to /\ (r \in job[g].took \/ job[g].err[r] # "ok")
      BY <1>5 DEF TargetCommit, InLocals, LocalsFit
    <2>2. job'[g].err[r] # "ok"
      <3>1. CASE /\ job'[g].err = job[g].err
                 /\ delivered' = [delivered EXCEPT ![n] =
                      [q \in Rcpts |-> IF q \in job[g].took /\ job[g].err[q] = "ok"
                                       THEN @[q] + 1 ELSE @[q]]]
        <4>1. delivered[n][r] = 0 /\ delivered'[n][r] = 0
          BY DEF Pending
        <4>2. delivered'[n][r] = IF r \in job[g].took /\ job[g].err[r] = "ok"
                                 THEN delivered[n][r] + 1 ELSE delivered[n][r]
          BY <1>0, <3>1 DEF TypeOK
        <4> QED
          BY <2>1, <3>1, <4>1, <4>2
      <3>2. CASE /\ \A q \in job[g].took : job'[g].err[q] # "ok"
                 /\ \A q \in Rcpts \ job[g].took : job'[g].err[q] = job[g].err[q]
        BY <2>1, <3>2
      <3> QED
        BY <1>5, <3>1, <3>2, TargetCommitStep
    <2> QED
      BY <1>5, <2>1, <2>2, TargetCommitStep DEF TargetCommit, InLocals, OnFile
  <1>6. CASE Classify(g)
    <2>1. r \in Retried(job[g]) \/ r \in GivenUp(job[g])
      BY <1>0, <1>6 DEF Classify, InLocals, Retried, GivenUp
    <2>2. CASE GivenUp(job[g]) = {}
      <3>1. job'[g].pc = "update" /\ r \in job'[g].to
        BY <1>6, <2>1, <2>2, ClassifyStep DEF Afterwards
      <3> QED
        BY <1>6, <3>1 DEF Classify, InLocals, OnFile
    <2>3. CASE GivenUp(job[g]) # {}
      <3>1. job'[g].pc = "dsn" /\ r \in job'[g].to \union job'[g].fail
        BY <1>6, <2>1, <2>3, ClassifyStep
      <3> QED
        BY <1>6, <3>1 DEF Classify, InLocals, OnFile
    <2> QED
      BY <2>2, <2>3
  <1>7. CASE EmitDSN(g)
    <2>1. r \notin job[g].fail
      BY <1>0, <1>7 DEF EmitDSN, Pending, TypeOK
    <2>2. r \in job[g].to
      BY <1>7, <2>1 DEF EmitDSN, InLocals
    <2>3. job'[g].pc = "update" /\ r \in job'[g].to
      BY <1>7, <2>2, EmitDSNStep DEF Afterwards
    <2> QED
      BY <1>7, <2>3 DEF EmitDSN, InLocals, OnFile
  <1>8. CASE RemoveFromDisk(g)
    BY <1>8 DEF RemoveFromDisk, InLocals, LocalsFit
  <1>9. CASE UpdateMeta(g)
    <2>1. r \in job[g].to /\ job'[g].pc = "add"
      BY <1>9, GotoStep, PcTypes DEF UpdateMeta, InLocals, TypeOK
    <2> QED
      BY <1>0, <1>9, <2>1 DEF UpdateMeta, WriteMeta, InLocals, OnFile, TypeOK
  <1>10. CASE AddCheck(g) \/ AddPush(g) \/ AddSend(g)
    BY <1>10, GotoStep, ReturnStep, PcTypes DEF AddCheck, AddPush, AddSend, TypeOK, InLocals, OnFile
  <1>11. CASE DiscardBroken(g)
    BY <1>0, <1>11, ReturnStep DEF DiscardBroken, TypeOK, InLocals, OnFile
  <1>12. CASE TargetPanic(g)
    BY <1>12, GotoStep, PcTypes DEF TargetPanic, TypeOK, InLocals, OnFile
  <1> QED
    BY <1>1, <1>2, <1>3, <1>4, <1>5, <1>6, <1>7, <1>8, <1>9, <1>10, <1>11, <1>12
    DEF GoroutineStep

(* A step of an attempt serves recipients and does not take it back.       *)
LEMMA StillPending ==
    ASSUME TypeOK, NEW g \in Goroutines, GoroutineStep(g) \/ TargetPanic(g),
           NEW n \in Msgs, n = job[g].msg, NEW r \in Rcpts, Pending(n, r)'
    PROVE  Pending(n, r)
  <1>1. delivered'[n][r] = 0 => delivered[n][r] = 0
    <2>1. CASE TargetCommit(g)
      <3>1. \/ delivered' = delivered
            \/ delivered'[n][r] = delivered[n][r] \/ delivered'[n][r] = delivered[n][r] + 1
        BY <2>1 DEF TargetCommit, TypeOK
      <3> QED
        BY <3>1 DEF TypeOK
    <2>2. CASE UNCHANGED delivered
      BY <2>2
    <2> QED
      BY <2>1, <2>2
      DEF GoroutineStep, OpenMessage, RemoveFromDisk, Acquire, TargetStart, TargetBody,
          Classify, EmitDSN, UpdateMeta, AddCheck, AddPush, AddSend, DiscardBroken, TargetPanic
  <1>2. r \notin failed'[n] => r \notin failed[n]
    <2>1. CASE EmitDSN(g)
      BY <2>1 DEF EmitDSN, TypeOK
    <2>2. CASE UNCHANGED failed
      BY <2>2
    <2> QED
      BY <2>1, <2>2
      DEF GoroutineStep, OpenMessage, RemoveFromDisk, Acquire, TargetStart, TargetBody,
          TargetCommit, Classify, UpdateMeta, AddCheck, AddPush, AddSend, DiscardBroken,
          TargetPanic
  <1> QED
    BY <1>1, <1>2 DEF Pending

LEMMA RememberedNext ==
    TypeOK /\ TypeOK' /\ Ownership /\ Files /\ Memory /\ [Next]_vars => Remembered'
  <1> SUFFICES ASSUME TypeOK, TypeOK', Ownership, Files, Memory, [Next]_vars,
                      NEW n \in Msgs \ purged', sess'[n] \in Kept,
                      NEW r \in rcpts'[n], Pending(n, r)'
               PROVE  /\ OnFile(n, r)'
                      /\ \A g \in Goroutines : job'[g].msg = n => InLocals(job'[g], r)
    BY DEF Remembered, InLocals
  <1>0. ASSUME sess[n] \in Kept, n \notin purged, r \in rcpts[n], Pending(n, r)
        PROVE  /\ OnFile(n, r)
               /\ \A g \in Goroutines : job[g].msg = n => InLocals(job[g], r)
    BY <1>0 DEF Memory, Remembered
  <1>1. ASSUME NEW m \in Msgs,
               \/ Start(m) \/ Abort(m) \/ Commit(m) \/ SourceStep(m)
               \/ \E q \in Rcpts : AddRcpt(m, q)
        PROVE  /\ OnFile(n, r)'
               /\ \A g \in Goroutines : job'[g].msg = n => InLocals(job'[g], r)
    <2>1. SourceFrame(m)
      BY <1>1, SourceFrames
    <2>2. CASE n # m
      BY <1>0, <2>1, <2>2 DEF SourceFrame, SameRecord, OnFile, Pending
    <2>3. CASE n = m /\ StoreSync(m)
      <3>1. sess[m] = "sync" /\ n \notin purged /\ sess'[m] = "stored" /\ rcpts' = rcpts
        BY <2>1, <2>3 DEF StoreSync, StepTo, Kept, SourceFrame, TypeOK
      <3>2. hdr[m] = "written" /\ body[m] = "written" /\ meta[m] = "ok" /\ metaTo[m] = rcpts[m]
        BY <2>3, <3>1 DEF Files, FilesWritten
      <3>3. OnFile(n, r)'
        BY <2>3, <3>1, <3>2 DEF StoreSync, StepTo, Synced, OnFile, TypeOK
      <3>4. \A g \in Goroutines : job'[g].msg = n => job'[g].pc = "idle"
        BY <2>1, <2>3, <3>1 DEF SourceFrame, Ownership, HandedFirst, Handed
      <3> QED
        BY <3>3, <3>4 DEF InLocals
    <2>4. CASE n = m /\ (Commit(m) \/ CommitPush(m) \/ CommitSend(m))
      <3>1. sess[m] \in Kept /\ UNCHANGED diskVars /\ rcpts' = rcpts
        BY <2>4 DEF Commit, CommitPush, CommitSend, Kept
      <3> QED
        BY <1>0, <2>1, <2>4, <3>1 DEF SourceFrame, OnFile, Pending
    <2>5. CASE n = m /\ ~StoreSync(m) /\ ~(Commit(m) \/ CommitPush(m) \/ CommitSend(m))
      BY <1>1, <2>5 DEF Start, Abort, SourceStep, AddRcpt, StoreHeader, StoreBody, StoreMeta,
          AbortRemove, StepTo, Reject, NextStage, Kept, TypeOK
    <2> QED
      BY <2>2, <2>3, <2>4, <2>5
  <1>2. ASSUME NEW g \in Goroutines, GoroutineStep(g) \/ TargetPanic(g)
        PROVE  /\ OnFile(n, r)'
               /\ \A h \in Goroutines : job'[h].msg = n => InLocals(job'[h], r)
    <2>1. AttemptFrame(g)
      BY <1>2, AttemptFrames
    <2>2. r \in Rcpts /\ sess[n] \in Kept /\ n \notin purged /\ r \in rcpts[n]
      BY <2>1 DEF AttemptFrame, TypeOK
    <2>3. CASE n # job[g].msg
      <3>1. Pending(n, r)
        BY <2>1, <2>3 DEF AttemptFrame, SameHistory, Pending
      <3>2. job'[g].msg = n => job'[g].pc = "idle"
        BY <2>1, <2>3 DEF AttemptFrame
      <3> QED
        BY <1>0, <2>1, <2>2, <2>3, <3>1, <3>2
        DEF AttemptFrame, SameRecord, OnFile, OthersKept, InLocals
    <2>4. CASE n = job[g].msg
      <3>1. Pending(n, r)
        BY <1>2, <2>2, <2>4, StillPending
      <3>2. OnFile(n, r) /\ \A h \in Goroutines : job[h].msg = n => InLocals(job[h], r)
        BY <1>0, <2>2, <3>1
      <3>3. OnFile(n, r)' /\ InLocals(job'[g], r)
        BY <1>2, <2>2, <2>4, <3>1, <3>2, AttemptRemembers DEF Memory
      <3> QED
        BY <2>1, <3>2, <3>3 DEF AttemptFrame, OthersKept
    <2> QED
      BY <2>3, <2>4
  <1>3. ASSUME NEW g \in Goroutines, NEW s \in slots, Dispatch(g, s)
        PROVE  /\ OnFile(n, r)'
               /\ \A h \in Goroutines : job'[h].msg = n => InLocals(job'[h], r)
    <2>1. /\ OnFile(n, r) /\ OnFile(n, r)' /\ r \in rcpts[n]
          /\ \A h \in Goroutines : job[h].msg = n => InLocals(job[h], r)
      BY <1>0, <1>3 DEF Dispatch, OnFile, Pending
    <2> QED
      BY <1>3, <2>1, DispatchStep DEF OthersKept, InLocals
  <1>4. CASE Exit \/ Crash \/ PowerLoss
    <2>1. LoseMemory /\ purged' = purged /\ UNCHANGED <<histVars, meta, metaTo>>
      BY <1>4 DEF Exit, Crash, PowerLoss
    <2>2. sess[n] \in Kept /\ rcpts' = rcpts /\ \A g \in Goroutines : job'[g].pc = "idle"
      BY <2>1, IdleType DEF LoseMemory, Kept
    <2>3. OnFile(n, r)
      BY <1>0, <2>1, <2>2 DEF Pending
    <2>4. hdr'[n] = hdr[n] /\ body'[n] = body[n]
      BY <1>4, <2>3 DEF Exit, Crash, PowerLoss, OnFile
    <2> QED
      BY <2>1, <2>2, <2>3, <2>4 DEF OnFile, InLocals
  <1>5. CASE Restart
    <2>1. OnFile(n, r) /\ \A g \in Goroutines : job[g].msg = n => InLocals(job[g], r)
      BY <1>0, <1>5 DEF Restart, Pending
    <2> QED
      BY <1>5, <2>1 DEF Restart, RemoveDangling, Dangling, OnFile
  <1>6. CASE PurgeOpen
    <2>1. OnFile(n, r) /\ \A g \in Goroutines : job[g].msg = n => InLocals(job[g], r)
      BY <1>0, <1>6 DEF PurgeOpen, Pending
    <2> QED
      BY <1>6, <2>1 DEF PurgeOpen, RemoveDangling, Dangling, OnFile
  <1>7. CASE PurgeRemove
    <2>1. OnFile(n, r) /\ \A g \in Goroutines : job[g].msg = n => InLocals(job[g], r)
      BY <1>0, <1>7 DEF PurgeRemove, Pending
    <2>2. n # pmsg
      BY <1>7 DEF PurgeRemove, Files, FilesWritten
    <2> QED
      BY <1>7, <2>1, <2>2 DEF PurgeRemove, RemoveFile, OnFile, TypeOK
  <1>8. ASSUME NEW m \in Msgs, PurgeSelect(m)
        PROVE  /\ OnFile(n, r)'
               /\ \A g \in Goroutines : job'[g].msg = n => InLocals(job'[g], r)
    BY <1>0, <1>8 DEF PurgeSelect, OnFile, Pending
  <1>9. CASE CloseBegin \/ CloseWheel \/ UNCHANGED vars
    BY <1>0, <1>9 DEF CloseBegin, CloseWheel, vars, OnFile, Pending
  <1> QED
    BY <1>1, <1>2, <1>3, <1>4, <1>5, <1>6, <1>7, <1>8, <1>9 DEF Next

LEMMA MemoryNext ==
    TypeOK /\ TypeOK' /\ Ownership /\ Files /\ Memory /\ [Next]_vars => Memory'
  BY NothingEarlyNext, LocalsFitNext, RememberedNext DEF Memory

----------------------------------------------------------------------------
(* Nobody is served twice                                                  *)

LEMMA ServedOnceInit == Init => ServedOnce
  BY IdleType DEF Init, ServedOnce, ToServe, Zero

(* A fault accounts for one more delivery than the records know of.        *)
LEMMA FaultExcuses ==
    ASSUME TypeOK, ServedOnce, faults' = faults + 1, delivered' = delivered
    PROVE  \A n \in Msgs, r \in Rcpts : Fresh(n, r)' /\ delivered'[n][r] <= 1 + faults'
  BY DEF TypeOK, ServedOnce, Fresh

(* Whoever has a recipient to serve owns the message.                      *)
LEMMA ServersOwn ==
    \A g \in Goroutines : ToServe(job[g]) # {} \/ job[g].pc \in {"classify", "dsn", "update",
                            "rmHdr", "rmBody", "rmMeta"} => Owns(g)
  BY DEF ToServe, Owns

(* One stage of an attempt at n, without a fault.                          *)
LEMMA AttemptServes ==
    ASSUME TypeOK, Ownership, LocalsFit, ServedOnce,
           NEW g \in Goroutines, GoroutineStep(g) \/ TargetPanic(g), faults' = faults,
           NEW n \in Msgs, n = job[g].msg
    PROVE  /\ \A r \in Rcpts : delivered'[n][r] <= 1 + faults
           /\ \A r \in ToServe(job'[g]) : job'[g].msg = n /\ Fresh(n, r)'
           /\ \/ meta'[n] # "ok"
              \/ \A r \in metaTo'[n] : Fresh(n, r)'
              \/ job'[g].msg = n /\ job'[g].pc \in {"classify", "dsn", "update",
                                                    "rmHdr", "rmBody", "rmMeta"}
              \/ /\ meta[n] = "ok" /\ metaTo'[n] = metaTo[n] /\ SameHistory(n)
                 /\ job[g].pc \notin {"classify", "dsn", "update", "rmHdr", "rmBody", "rmMeta"}
  <1>0. /\ job[g].to \subseteq Rcpts /\ job[g].took \subseteq Rcpts /\ faults \in Nat
        /\ \A r \in Rcpts : delivered[n][r] \in Nat
    BY JobFields DEF TypeOK
  <1>1. /\ \A r \in Rcpts : delivered[n][r] <= 1 + faults
        /\ \A r \in ToServe(job[g]) : Fresh(n, r)
    BY DEF ServedOnce
  <1>2. CASE Acquire(g)
    <2>1. /\ job'[g].pc \in {"open", "start"} /\ job'[g].to = job[g].to /\ job'[g].msg = n
          /\ job[g].pc = "wait" /\ UNCHANGED <<diskVars, histVars>>
      BY <1>2, GotoStep, PcTypes DEF Acquire, TypeOK
    <2> QED
      BY <1>1, <2>1 DEF ToServe, Fresh, SameHistory
  <1>3. CASE OpenMessage(g)
    <2>1. job[g].pc = "open" /\ UNCHANGED histVars
      BY <1>3 DEF OpenMessage
    <2>2. CASE job'[g].pc = "idle"
      BY <1>1, <1>3, <2>1, <2>2, OpenStep DEF ToServe, SameHistory, TypeOK
    <2>3. CASE job'[g].pc # "idle"
      <3>1. /\ job'[g].pc = "start" /\ n \in Loadable /\ UNCHANGED diskVars
            /\ job'[g].msg = n /\ job'[g].to = metaTo[n]
        BY <1>3, <2>3, OpenStep
      <3>2. ~Behind(n)
        BY <2>1, ServersOwn DEF Behind, Ownership, OneAttempt, Owns
      <3>3. \A r \in metaTo[n] : Fresh(n, r)
        BY <3>1, <3>2 DEF Loadable, ServedOnce
      <3> QED
        BY <1>1, <2>1, <3>1, <3>3 DEF ToServe, Fresh
    <2> QED
      BY <2>2, <2>3
  <1>4. CASE TargetStart(g)
    <2>1. /\ job[g].pc = "start" /\ UNCHANGED <<diskVars, delivered, failed>>
          /\ job'[g].msg = n /\ job'[g].to = job[g].to /\ job'[g].pc \in {"body", "classify"}
      BY <1>4, TargetStartStep DEF TargetStart
    <2>2. \A r \in metaTo'[n] : meta[n] = "ok" /\ ~Behind(n) => Fresh(n, r)'
      BY <2>1 DEF ServedOnce, Fresh
    <2>3. ~Behind(n)
      BY <2>1, ServersOwn DEF Behind, Ownership, OneAttempt, Owns
    <2> QED
      BY <1>1, <2>1, <2>2, <2>3 DEF ToServe, Fresh
  <1>5. CASE TargetBody(g)
    <2>1. /\ job[g].pc = "body" /\ UNCHANGED <<diskVars, delivered, attempts, failed>>
          /\ job'[g].msg = n /\ job'[g].to = job[g].to /\ job'[g].pc \in {"commit", "classify"}
      BY <1>5, TargetBodyStep DEF TargetBody
    <2> QED
      BY <1>1, <2>1 DEF ToServe, Fresh, SameHistory
  <1>6. CASE TargetCommit(g)
    <2>1. /\ job[g].pc = "commit" /\ failed' = failed
          /\ job'[g].msg = n /\ job'[g].to = job[g].to /\ job'[g].pc = "classify"
      BY <1>6, TargetCommitStep DEF TargetCommit
    <2>2. ASSUME NEW r \in Rcpts
          PROVE  \/ delivered'[n][r] = delivered[n][r]
                 \/ /\ delivered'[n][r] = delivered[n][r] + 1
                    /\ r \in job[g].to /\ job'[g].err[r] = "ok"
      <3>1. job[g].took \subseteq job[g].to
        BY <2>1 DEF LocalsFit
      <3>2. CASE UNCHANGED delivered
        BY <3>2
      <3>3. CASE /\ job'[g].err = job[g].err
                 /\ delivered' = [delivered EXCEPT ![n] =
                      [q \in Rcpts |-> IF q \in job[g].took /\ job[g].err[q] = "ok"
                                       THEN @[q] + 1 ELSE @[q]]]
        <4>1. delivered'[n][r] = IF r \in job[g].took /\ job[g].err[r] = "ok"
                                 THEN delivered[n][r] + 1 ELSE delivered[n][r]
          BY <3>3 DEF TypeOK
        <4> QED
          BY <3>1, <3>3, <4>1
      <3> QED
        BY <1>6, <3>2, <3>3, TargetCommitStep
    <2>3. \A r \in job[g].to : Fresh(n, r)
      BY <1>1, <2>1 DEF ToServe
    <2>4. \A r \in Rcpts : delivered'[n][r] <= 1 + faults
      BY <1>0, <1>1, <2>2, <2>3 DEF Fresh
    <2>5. \A r \in ToServe(job'[g]) : Fresh(n, r)'
      BY <1>0, <2>1, <2>2, <2>3 DEF ToServe, Fresh
    <2> QED
      BY <2>1, <2>4, <2>5
  <1>7. CASE TargetPanic(g)
    <2>1. /\ job[g].pc \in {"start", "body", "commit"} /\ job'[g].pc = "broken"
          /\ UNCHANGED <<diskVars, delivered, attempts, failed>>
      BY <1>7, GotoStep, PcTypes DEF TargetPanic, TypeOK
    <2> QED
      BY <1>1, <2>1 DEF ToServe, SameHistory
  <1>8. CASE Classify(g)
    <2>1. /\ job[g].pc = "classify" /\ UNCHANGED histVars /\ job'[g].msg = n
          /\ job'[g].pc \in {"dsn", "update", "rmHdr"}
      BY <1>8, ClassifyStep DEF Classify, Afterwards
    <2>2. job'[g].to \union job'[g].fail \subseteq ToServe(job[g])
      BY <1>8, <2>1, ClassifyStep DEF ToServe, Retried, GivenUp
    <2> QED
      BY <1>1, <2>1, <2>2 DEF ToServe, Fresh
  <1>9. CASE EmitDSN(g)
    <2>1. /\ job[g].pc = "dsn" /\ delivered' = delivered /\ job'[g].msg = n
          /\ job'[g].to = job[g].to /\ job'[g].pc \in {"update", "rmHdr"}
      BY <1>9, EmitDSNStep DEF EmitDSN, Afterwards
    <2>2. failed'[n] = failed[n] \union job[g].fail
      BY <1>9 DEF EmitDSN, TypeOK
    <2>3. \A r \in job[g].to : Fresh(n, r) /\ r \notin job[g].fail
      BY <1>1, <2>1 DEF ToServe, LocalsFit
    <2>4. \A r \in job[g].to : Fresh(n, r)'
      BY <2>1, <2>2, <2>3 DEF Fresh
    <2> QED
      BY <1>1, <2>1, <2>4 DEF ToServe
  <1>10. CASE RemoveFromDisk(g)
    <2>1. /\ UNCHANGED histVars
          /\ \/ job'[g].pc = "idle" /\ meta'[n] # "ok"
             \/ job'[g].pc \in {"rmBody", "rmMeta"} /\ job'[g].msg = n
      BY <1>10, RemoveFromDiskStep DEF RemoveFromDisk, RemoveFile, TypeOK
    <2> QED
      BY <1>1, <2>1 DEF ToServe
  <1>11. CASE UpdateMeta(g)
    <2>1. /\ job[g].pc = "update" /\ UNCHANGED histVars /\ job'[g].pc = "add"
          /\ metaTo'[n] = job[g].to
      BY <1>0, <1>11, GotoStep, PcTypes DEF UpdateMeta, WriteMeta, TypeOK
    <2> QED
      BY <1>1, <2>1 DEF ToServe, Fresh
  <1>12. CASE AddCheck(g) \/ AddPush(g) \/ AddSend(g)
    <2>1. /\ job[g].pc \in {"add", "push", "send"} /\ UNCHANGED <<diskVars, histVars>>
          /\ job'[g].pc \in {"idle", "push", "send", "broken"}
      BY <1>12, GotoStep, ReturnStep, PcTypes DEF AddCheck, AddPush, AddSend, TypeOK
    <2> QED
      BY <1>1, <2>1 DEF ToServe, SameHistory
  <1>13. CASE DiscardBroken(g)
    <2>1. UNCHANGED histVars /\ job'[g].pc = "idle" /\ meta'[n] # "ok"
      BY <1>13, ReturnStep DEF DiscardBroken, TypeOK
    <2> QED
      BY <1>1, <2>1 DEF ToServe
  <1> QED
    BY <1>2, <1>3, <1>4, <1>5, <1>6, <1>7, <1>8, <1>9, <1>10, <1>11, <1>12, <1>13
    DEF GoroutineStep

LEMMA ServedOnceNext ==
    TypeOK /\ TypeOK' /\ Ownership /\ Memory /\ ServedOnce /\ [Next]_vars => ServedOnce'
  <1> SUFFICES ASSUME TypeOK, TypeOK', Ownership, Memory, ServedOnce, [Next]_vars
               PROVE  ServedOnce'
    OBVIOUS
  <1>0. /\ \A g \in Goroutines : job[g].msg \in Msgs /\ job'[g].msg \in Msgs
        /\ \A g \in Goroutines : ToServe(job'[g]) \subseteq Rcpts
        /\ \A n \in Msgs : metaTo'[n] \subseteq Rcpts
    BY JobFields DEF TypeOK, ToServe
  <1>1. CASE faults' = faults + 1 /\ delivered' = delivered
    <2>1. \A n \in Msgs, r \in Rcpts : Fresh(n, r)' /\ delivered'[n][r] <= 1 + faults'
      BY <1>1, FaultExcuses
    <2>2. \A g \in Goroutines : \A r \in ToServe(job'[g]) : Fresh(job[g].msg, r)'
      <3> SUFFICES ASSUME NEW g \in Goroutines, NEW r \in ToServe(job'[g])
                   PROVE  delivered'[job'[g].msg][r] <= faults'
                          /\ (faults' = 0 => r \notin failed'[job'[g].msg])
        BY DEF Fresh
      <3> QED
        BY <1>0, <2>1 DEF Fresh
    <2>3. \A n \in Msgs : \A r \in metaTo'[n] : Fresh(n, r)'
      BY <1>0, <2>1
    <2> QED
      BY <2>1, <2>2, <2>3 DEF ServedOnce
  <1>2. ASSUME NEW m \in Msgs,
               \/ Start(m) \/ Abort(m) \/ Commit(m) \/ SourceStep(m)
               \/ \E q \in Rcpts : AddRcpt(m, q)
        PROVE  ServedOnce'
    <2>1. SourceFrame(m)
      BY <1>2, SourceFrames
    <2>2. \A n \in Msgs, r \in Rcpts : Fresh(n, r) => Fresh(n, r)'
      BY <2>1 DEF SourceFrame, Fresh
    <2>3. \A r \in metaTo'[m] : meta'[m] = "ok" /\ ~Behind(m) => Fresh(m, r)'
      <3>1. CASE meta'[m] # "ok"
        BY <3>1
      <3>2. CASE metaTo'[m] = metaTo[m] /\ meta'[m] = meta[m]
        BY <1>0, <2>2, <3>2 DEF ServedOnce
      <3>3. CASE StoreMeta(m)
        <4>1. Unattempted(m)
          BY <3>3 DEF StoreMeta, Memory, NothingEarly, Handed
        <4> QED
          BY <1>0, <2>1, <2>2, <4>1 DEF Unattempted, Zero, Fresh, TypeOK, SourceFrame
      <3> QED
        BY <1>2, <3>1, <3>2, <3>3
        DEF Start, Abort, Commit, SourceStep, AddRcpt, StoreHeader, StoreBody, StoreSync,
            AbortRemove, RemoveFile, CommitPush, CommitSend, TypeOK
    <2>4. \A n \in Msgs : Behind(n)' = Behind(n)
      BY <2>1 DEF SourceFrame, Behind
    <2>5. \A n \in Msgs : \A r \in metaTo'[n] : meta'[n] = "ok" /\ ~Behind(n)' => Fresh(n, r)'
      BY <1>0, <2>1, <2>2, <2>3, <2>4 DEF SourceFrame, SameRecord, ServedOnce
    <2> QED
      BY <2>1, <2>5 DEF SourceFrame, ServedOnce, Fresh
  <1>3. ASSUME NEW g \in Goroutines, GoroutineStep(g) \/ TargetPanic(g), faults' = faults
        PROVE  ServedOnce'
    <2>1. AttemptFrame(g)
      BY <1>3, AttemptFrames
    <2>2. PICK n \in Msgs : n = job[g].msg
      BY <1>0
    <2>3. /\ \A r \in Rcpts : delivered'[n][r] <= 1 + faults
          /\ \A r \in ToServe(job'[g]) : job'[g].msg = n /\ Fresh(n, r)'
          /\ \/ meta'[n] # "ok"
             \/ \A r \in metaTo'[n] : Fresh(n, r)'
             \/ job'[g].msg = n /\ job'[g].pc \in {"classify", "dsn", "update",
                                                   "rmHdr", "rmBody", "rmMeta"}
             \/ /\ meta[n] = "ok" /\ metaTo'[n] = metaTo[n] /\ SameHistory(n)
                /\ job[g].pc \notin {"classify", "dsn", "update", "rmHdr", "rmBody", "rmMeta"}
      BY <1>3, <2>2, AttemptServes DEF Memory
    <2>4. \A k \in Msgs \ {n} : \A r \in Rcpts : Fresh(k, r) => Fresh(k, r)'
      BY <1>3, <2>1, <2>2 DEF AttemptFrame, SameHistory, Fresh
    <2>5. SameHistory(n) => \A r \in Rcpts : Fresh(n, r) => Fresh(n, r)'
      BY <1>3 DEF SameHistory, Fresh
    <2>6. SameHistory(n) \/ Owns(g)
      BY <1>3, <2>2 DEF GoroutineStep, OpenMessage, RemoveFromDisk, Acquire, TargetStart,
            TargetBody, TargetCommit, Classify, EmitDSN, UpdateMeta, AddCheck, AddPush, AddSend,
            DiscardBroken, TargetPanic, SameHistory, Owns
    <2>7. \A k \in Msgs, r \in Rcpts : delivered'[k][r] <= 1 + faults'
      BY <1>3, <2>1, <2>2, <2>3 DEF AttemptFrame, SameHistory, ServedOnce
    <2>8. ASSUME NEW h \in Goroutines, NEW r \in ToServe(job'[h])
          PROVE  Fresh(job[h].msg, r)'
      <3>1. CASE h = g
        BY <2>3, <3>1 DEF Fresh
      <3>2. CASE h # g
        <4>1. job'[h] = job[h] /\ r \in Rcpts /\ Fresh(job[h].msg, r) /\ Owns(h)
          BY <1>0, <2>1, <3>2, ServersOwn DEF AttemptFrame, OthersKept, ServedOnce
        <4>2. PICK k \in Msgs : k = job[h].msg
          BY <1>0
        <4>3. Fresh(k, r)
          BY <4>1, <4>2
        <4>4. k = n => SameHistory(n)
          BY <2>2, <2>6, <3>2, <4>1, <4>2 DEF Ownership, OneAttempt
        <4>5. Fresh(k, r)'
          BY <2>4, <2>5, <4>1, <4>3, <4>4
        <4> QED
          BY <4>1, <4>2, <4>5 DEF Fresh
      <3> QED
        BY <3>1, <3>2
    <2>9. ASSUME NEW k \in Msgs, meta'[k] = "ok", ~Behind(k)', NEW r \in metaTo'[k]
          PROVE  Fresh(k, r)'
      <3>1. CASE k # n
        <4>1. ~Behind(k)
          BY <2>1, <2>2, <2>9, <3>1 DEF AttemptFrame, OthersKept, Behind
        <4> QED
          BY <1>0, <2>1, <2>2, <2>4, <2>9, <3>1, <4>1 DEF AttemptFrame, SameRecord, ServedOnce
      <3>2. CASE k = n /\ \A q \in metaTo'[n] : Fresh(n, q)'
        BY <2>9, <3>2
      <3>3. CASE /\ k = n
                 /\ meta[n] = "ok" /\ metaTo'[n] = metaTo[n] /\ SameHistory(n)
                 /\ job[g].pc \notin {"classify", "dsn", "update", "rmHdr", "rmBody", "rmMeta"}
        <4>1. ~Behind(n)
          BY <2>1, <2>2, <2>9, <3>3 DEF AttemptFrame, OthersKept, Behind
        <4> QED
          BY <1>0, <2>5, <2>9, <3>3, <4>1 DEF ServedOnce
      <3> QED
        BY <2>3, <2>9, <3>1, <3>2, <3>3 DEF Behind
    <2> QED
      BY <2>7, <2>8, <2>9 DEF ServedOnce
  <1>4. ASSUME NEW g \in Goroutines, NEW s \in slots, Dispatch(g, s)
        PROVE  ServedOnce'
    <2>1. UNCHANGED <<diskVars, histVars, faults>> /\ job[g].pc = "idle"
      BY <1>4 DEF Dispatch
    <2>2. /\ OthersKept(g) /\ job'[g].pc = "wait" /\ job'[g].msg = s.msg
          /\ job'[g].to = IF s.mem THEN rcpts[s.msg] ELSE {}
      BY <1>4, DispatchStep
    <2>3. ASSUME NEW r \in ToServe(job'[g]) PROVE Fresh(job[g].msg, r)'
      <3>1. s.mem /\ Unattempted(s.msg) /\ s.msg \in Msgs /\ r \in Rcpts
        BY <1>0, <2>2 DEF ToServe, Memory, NothingEarly, TypeOK, Slots
      <3> QED
        BY <2>1, <2>2, <3>1 DEF Unattempted, Zero, Fresh, TypeOK
    <2>4. \A n \in Msgs : Behind(n)' = Behind(n)
      BY <2>1, <2>2 DEF Behind, OthersKept
    <2>5. \A h \in Goroutines : \A r \in ToServe(job'[h]) : Fresh(job[h].msg, r)'
      BY <2>1, <2>2, <2>3 DEF ServedOnce, OthersKept, Fresh
    <2> QED
      BY <2>1, <2>4, <2>5 DEF ServedOnce, Fresh
  <1>5. CASE Exit
    <2>1. /\ UNCHANGED <<diskVars, histVars, faults>>
          /\ \A g \in Goroutines : job[g].pc \in {"idle", "broken"} /\ job'[g].pc = "idle"
      BY <1>5, IdleType DEF Exit, LoseMemory
    <2>2. \A n \in Msgs : ~Behind(n)
      BY <2>1 DEF Behind
    <2>3. \A g \in Goroutines : ToServe(job'[g]) = {}
      BY <2>1 DEF ToServe
    <2> QED
      BY <2>1, <2>2, <2>3 DEF ServedOnce, Fresh
  <1>6. CASE /\ UNCHANGED <<job, metaTo, histVars, faults>>
             /\ \A n \in Msgs : meta'[n] = "ok" => meta[n] = "ok"
    BY <1>6 DEF ServedOnce, Fresh, Behind
  <1>7. CASE UNCHANGED vars
    BY <1>6, <1>7 DEF vars
  <1>8. CASE Restart \/ PurgeOpen \/ PurgeRemove \/ \E m \in Msgs : PurgeSelect(m)
    BY <1>6, <1>8 DEF Restart, PurgeOpen, RemoveDangling, PurgeRemove, RemoveFile, PurgeSelect,
                      TypeOK
  <1>9. CASE CloseBegin \/ CloseWheel
    BY <1>6, <1>9 DEF CloseBegin, CloseWheel
  <1>10. CASE Crash \/ PowerLoss
    BY <1>1, <1>10 DEF Crash, PowerLoss
  <1>11. ASSUME NEW g \in Goroutines, GoroutineStep(g) \/ TargetPanic(g)
         PROVE  faults' = faults \/ (faults' = faults + 1 /\ delivered' = delivered)
    BY <1>11 DEF GoroutineStep, OpenMessage, RemoveFromDisk, Acquire, TargetStart, TargetBody,
            TargetCommit, Classify, EmitDSN, UpdateMeta, AddCheck, AddPush, AddSend,
            DiscardBroken, TargetPanic
  <1> QED
    BY <1>1, <1>2, <1>3, <1>4, <1>5, <1>7, <1>8, <1>9, <1>10, <1>11 DEF Next

----------------------------------------------------------------------------
(* max_tries is kept                                                       *)

LEMMA TriesCountedInit == Init => TriesCounted
  BY IdleType, MaxTriesAssumption DEF Init, TriesCounted, JobCounted, Zero

(* One stage of an attempt at n.                                           *)
LEMMA AttemptCounts ==
    ASSUME TypeOK, TypeOK', Ownership, TriesCounted,
           NEW g \in Goroutines, GoroutineStep(g) \/ TargetPanic(g),
           NEW n \in Msgs, n = job[g].msg, n \notin panicked'
    PROVE  /\ \A r \in Rcpts : attempts'[n][r] <= MaxTries + faults'
           /\ JobCounted(job[g])'
           /\ \/ meta'[n] # "ok"
              \/ \A r \in metaTo'[n] : Counted(n, r, metaTries[n], 0)'
              \/ /\ \A r \in metaTo'[n] : Counted(n, r, metaTries[n], 1)'
                 /\ job'[g].msg = n
                 /\ job'[g].pc \in {"body", "commit", "classify", "dsn", "update",
                                    "rmHdr", "rmBody", "rmMeta"}
              \/ /\ meta[n] = "ok" /\ metaTo'[n] = metaTo[n] /\ metaTries'[n] = metaTries[n]
                 /\ attempts'[n] = attempts[n] /\ faults' = faults
                 /\ job[g].pc \notin {"body", "commit", "classify", "dsn", "update",
                                      "rmHdr", "rmBody", "rmMeta"}
  <1>0. /\ job[g].to \subseteq Rcpts /\ job[g].tries \in [Rcpts -> Nat] /\ faults \in Nat
        /\ \A r \in Rcpts : attempts[n][r] \in Nat /\ metaTries[n][r] \in Nat
        /\ metaTo[n] \subseteq Rcpts
        /\ MaxTries \in Nat
    BY JobFields, MaxTriesAssumption DEF TypeOK
  <1>1. n \notin panicked
    <2>1. panicked \subseteq panicked'
      BY DEF GoroutineStep, OpenMessage, RemoveFromDisk, Acquire, TargetStart, TargetBody,
             TargetCommit, Classify, EmitDSN, UpdateMeta, AddCheck, AddPush, AddSend,
             DiscardBroken, TargetPanic
    <2> QED
      BY <2>1
  <1>2. /\ \A r \in Rcpts : attempts[n][r] <= MaxTries + faults
        /\ JobCounted(job[g])
        /\ meta[n] = "ok" => \A r \in metaTo[n] : Counted(n, r, metaTries[n], 1)
        /\ meta[n] = "ok" /\ ~InProgress(n) =>
             \A r \in metaTo[n] : Counted(n, r, metaTries[n], 0)
    BY <1>0, <1>1 DEF TriesCounted, Counted
  <1>3. job[g].pc \in {"open", "start"} => ~InProgress(n)
    BY DEF InProgress, Ownership, OneAttempt, Owns
  <1>4. CASE Acquire(g)
    <2>1. /\ job'[g].pc \in {"open", "start"} /\ job'[g].to = job[g].to /\ job'[g].msg = n
          /\ job'[g].tries = job[g].tries
          /\ job[g].pc = "wait" /\ UNCHANGED <<diskVars, histVars, faults>>
      BY <1>4, GotoStep, PcTypes DEF Acquire, TypeOK
    <2> QED
      BY <1>2, <2>1 DEF JobCounted, Counted
  <1>5. CASE OpenMessage(g)
    <2>1. job[g].pc = "open" /\ UNCHANGED <<histVars, faults>>
      BY <1>5 DEF OpenMessage
    <2>2. CASE job'[g].pc = "idle"
      <3>1. JobCounted(job[g])'
        BY <2>2 DEF JobCounted
      <3>2. meta'[n] # "ok" \/ UNCHANGED diskVars
        BY <1>5, <2>2, OpenStep DEF TypeOK
      <3> QED
        BY <1>2, <2>1, <3>1, <3>2
    <2>3. CASE job'[g].pc # "idle"
      <3>1. /\ job'[g].pc = "start" /\ n \in Loadable /\ UNCHANGED diskVars
            /\ job'[g].msg = n /\ job'[g].to = metaTo[n] /\ job'[g].tries = metaTries[n]
        BY <1>5, <2>3, OpenStep
      <3>2. \A r \in metaTo[n] : Counted(n, r, metaTries[n], 0)
        BY <1>2, <1>3, <2>1, <3>1 DEF Loadable
      <3> QED
        BY <1>2, <2>1, <3>1, <3>2 DEF JobCounted, Counted
    <2> QED
      BY <2>2, <2>3
  <1>6. CASE TargetStart(g)
    <2>1. /\ job[g].pc = "start" /\ UNCHANGED <<diskVars, faults>>
          /\ job'[g].msg = n /\ job'[g].to = job[g].to /\ job'[g].tries = job[g].tries
          /\ job'[g].pc \in {"body", "classify"}
      BY <1>6, TargetStartStep DEF TargetStart
    <2>2. \A r \in Rcpts : attempts'[n][r] = IF r \in job[g].to THEN attempts[n][r] + 1
                                             ELSE attempts[n][r]
      BY <1>6 DEF TargetStart, TypeOK
    <2>3. \A r \in job[g].to : Counted(n, r, job[g].tries, 0)
      BY <1>2, <2>1 DEF JobCounted
    <2>4. \A r \in Rcpts : attempts'[n][r] <= MaxTries + faults'
      BY <1>0, <1>2, <2>1, <2>2, <2>3 DEF Counted
    <2>5. JobCounted(job[g])'
      BY <1>0, <2>1, <2>2, <2>3 DEF JobCounted, Counted
    <2>6. meta[n] = "ok" => \A r \in metaTo[n] : Counted(n, r, metaTries[n], 0)
      BY <1>2, <1>3, <2>1
    <2>7. meta'[n] = "ok" => \A r \in metaTo'[n] : Counted(n, r, metaTries[n], 1)'
      BY <1>0, <2>1, <2>2, <2>6 DEF Counted
    <2> QED
      BY <2>1, <2>4, <2>5, <2>7
  <1>7. CASE TargetBody(g) \/ TargetCommit(g)
    <2>1. /\ job[g].pc \in {"body", "commit"} /\ UNCHANGED <<diskVars, attempts, faults>>
          /\ job'[g].msg = n /\ job'[g].to = job[g].to /\ job'[g].tries = job[g].tries
          /\ job'[g].pc \in {"commit", "classify"}
      BY <1>7, TargetBodyStep, TargetCommitStep DEF TargetBody, TargetCommit
    <2> QED
      BY <1>2, <2>1 DEF JobCounted, Counted
  <1>8. CASE TargetPanic(g)
    BY <1>8 DEF TargetPanic
  <1>9. CASE Classify(g)
    <2>1. /\ job[g].pc = "classify" /\ UNCHANGED <<diskVars, histVars, faults>>
          /\ job'[g].msg = n /\ job'[g].pc \in {"dsn", "update", "rmHdr"}
          /\ job'[g].to = Retried(job[g]) /\ job'[g].tries = NewTries(job[g])
      BY <1>9, ClassifyStep DEF Classify, Afterwards
    <2>2. \A r \in Retried(job[g]) :
            /\ r \in job[g].to /\ NewTries(job[g])[r] = job[g].tries[r] + 1
            /\ job[g].tries[r] + 1 < MaxTries
      BY <1>0 DEF Retried, NewTries, Exhausted
    <2>3. \A r \in job[g].to : Counted(n, r, job[g].tries, 1)
      BY <1>2, <2>1 DEF JobCounted
    <2>4. JobCounted(job[g])'
      BY <1>0, <2>1, <2>2, <2>3 DEF JobCounted, Counted
    <2> QED
      BY <1>2, <2>1, <2>4 DEF Counted
  <1>10. CASE EmitDSN(g)
    <2>1. /\ job[g].pc = "dsn" /\ UNCHANGED <<diskVars, attempts, faults>> /\ job'[g].msg = n
          /\ job'[g].to = job[g].to /\ job'[g].tries = job[g].tries
          /\ job'[g].pc \in {"update", "rmHdr"}
      BY <1>10, EmitDSNStep DEF EmitDSN, Afterwards
    <2> QED
      BY <1>2, <2>1 DEF JobCounted, Counted
  <1>11. CASE RemoveFromDisk(g)
    <2>1. /\ UNCHANGED <<histVars, faults, metaTo, metaTries>>
          /\ meta'[n] = "ok" => meta[n] = "ok"
          /\ \/ job'[g].pc = "idle" /\ meta'[n] # "ok"
             \/ job'[g].pc \in {"rmBody", "rmMeta"} /\ job'[g].msg = n
      BY <1>11, RemoveFromDiskStep DEF RemoveFromDisk, RemoveFile, TypeOK
    <2> QED
      BY <1>2, <2>1 DEF JobCounted, Counted
  <1>12. CASE UpdateMeta(g)
    <2>1. job[g].pc = "update" /\ UNCHANGED histVars /\ job'[g].pc = "add"
      BY <1>12, GotoStep, PcTypes DEF UpdateMeta, TypeOK
    <2>2. JobCounted(job[g])'
      BY <2>1 DEF JobCounted
    <2>3. CASE faults' = faults /\ metaTo'[n] = job[g].to /\ metaTries'[n] = job[g].tries
      BY <1>2, <2>1, <2>2, <2>3 DEF JobCounted, Counted
    <2>4. CASE faults' = faults + 1 /\ UNCHANGED <<meta, metaTo, metaTries>>
      <3>1. meta'[n] = "ok" => \A r \in metaTo'[n] : Counted(n, r, metaTries[n], 0)'
        BY <1>0, <1>2, <2>1, <2>4 DEF Counted
      <3>2. \A r \in Rcpts : attempts'[n][r] <= MaxTries + faults'
        BY <1>0, <1>2, <2>1, <2>4
      <3> QED
        BY <2>2, <3>1, <3>2
    <2> QED
      BY <1>0, <1>12, <2>3, <2>4 DEF UpdateMeta, WriteMeta, TypeOK
  <1>13. CASE AddCheck(g) \/ AddPush(g) \/ AddSend(g)
    <2>1. /\ job[g].pc \in {"add", "push", "send"} /\ UNCHANGED <<diskVars, histVars, faults>>
          /\ job'[g].pc \in {"idle", "push", "send", "broken"}
      BY <1>13, GotoStep, ReturnStep, PcTypes DEF AddCheck, AddPush, AddSend, TypeOK
    <2> QED
      BY <1>2, <2>1 DEF JobCounted
  <1>14. CASE DiscardBroken(g)
    <2>1. UNCHANGED <<histVars, faults>> /\ job'[g].pc = "idle" /\ meta'[n] # "ok"
      BY <1>14, ReturnStep DEF DiscardBroken, TypeOK
    <2> QED
      BY <1>2, <2>1 DEF JobCounted
  <1> QED
    BY <1>4, <1>5, <1>6, <1>7, <1>8, <1>9, <1>10, <1>11, <1>12, <1>13, <1>14
    DEF GoroutineStep

LEMMA TriesCountedNext ==
    TypeOK /\ TypeOK' /\ Ownership /\ Memory /\ TriesCounted /\ [Next]_vars => TriesCounted'
  <1> SUFFICES ASSUME TypeOK, TypeOK', Ownership, Memory, TriesCounted, [Next]_vars
               PROVE  TriesCounted'
    OBVIOUS
  <1>0. /\ \A g \in Goroutines : job[g].msg \in Msgs /\ job[g].to \subseteq Rcpts
                                 /\ job[g].tries \in [Rcpts -> Nat]
        /\ \A n \in Msgs : metaTo[n] \subseteq Rcpts
        /\ \A n \in Msgs, r \in Rcpts : attempts[n][r] \in Nat /\ metaTries[n][r] \in Nat
        /\ faults \in Nat /\ MaxTries \in Nat \ {0}
    BY JobFields, MaxTriesAssumption DEF TypeOK
  <1>1. ASSUME NEW m \in Msgs,
               \/ Start(m) \/ Abort(m) \/ Commit(m) \/ SourceStep(m)
               \/ \E q \in Rcpts : AddRcpt(m, q)
        PROVE  TriesCounted'
    <2>1. SourceFrame(m)
      BY <1>1, SourceFrames
    <2>2. \A n \in Msgs : InProgress(n)' = InProgress(n)
      BY <2>1 DEF SourceFrame, InProgress
    <2>3. m \notin panicked => \A r \in metaTo'[m] : meta'[m] = "ok" =>
            Counted(m, r, metaTries[m], IF InProgress(m) THEN 1 ELSE 0)'
      <3>1. CASE meta'[m] # "ok"
        BY <3>1
      <3>2. CASE metaTo'[m] = metaTo[m] /\ meta'[m] = meta[m] /\ metaTries'[m] = metaTries[m]
        BY <2>1, <2>2, <3>2 DEF TriesCounted, Counted, SourceFrame
      <3>3. CASE StoreMeta(m) /\ meta'[m] = "ok"
        <4>1. Unattempted(m)
          BY <3>3 DEF StoreMeta, Memory, NothingEarly, Handed
        <4>2. meta[m] # "ok"
          BY <3>3 DEF StoreMeta, Ownership, MetaComesLast
        <4>3. metaTries'[m] = Zero /\ metaTo'[m] = rcpts[m]
          BY <3>3, <4>2 DEF StoreMeta, WriteMeta, TypeOK
        <4>4. \A r \in Rcpts : attempts'[m][r] = 0 /\ metaTries'[m][r] = 0
          BY <2>1, <4>1, <4>3 DEF Unattempted, Zero, SourceFrame
        <4>5. metaTo'[m] \subseteq Rcpts /\ faults' = faults
          BY <2>1, <4>3 DEF TypeOK, SourceFrame
        <4> QED
          BY <1>0, <4>4, <4>5 DEF Counted
      <3> QED
        BY <1>1, <3>1, <3>2, <3>3
        DEF Start, Abort, Commit, SourceStep, AddRcpt, StoreHeader, StoreBody, StoreSync,
            AbortRemove, RemoveFile, CommitPush, CommitSend, TypeOK
    <2>4. \A n \in Msgs \ panicked' : meta'[n] = "ok" =>
            \A r \in metaTo'[n] : Counted(n, r, metaTries[n], IF InProgress(n) THEN 1 ELSE 0)'
      BY <2>1, <2>2, <2>3 DEF SourceFrame, SameRecord, TriesCounted, Counted
    <2> QED
      BY <2>1, <2>4 DEF SourceFrame, TriesCounted, JobCounted, Counted
  <1>2. ASSUME NEW g \in Goroutines, GoroutineStep(g) \/ TargetPanic(g)
        PROVE  TriesCounted'
    <2>1. AttemptFrame(g) /\ panicked \subseteq panicked'
      BY <1>2, AttemptFrames
      DEF GoroutineStep, OpenMessage, RemoveFromDisk, Acquire, TargetStart, TargetBody,
          TargetCommit, Classify, EmitDSN, UpdateMeta, AddCheck, AddPush, AddSend,
          DiscardBroken, TargetPanic
    <2>0. faults <= faults'
      <3>1. faults' = faults \/ faults' = faults + 1
        BY <1>2 DEF GoroutineStep, OpenMessage, RemoveFromDisk, Acquire, TargetStart, TargetBody,
             TargetCommit, Classify, EmitDSN, UpdateMeta, AddCheck, AddPush, AddSend,
             DiscardBroken, TargetPanic
      <3> QED
        BY <1>0, <3>1
    <2>2. PICK n \in Msgs : n = job[g].msg
      BY <1>0
    <2>3. n \notin panicked' =>
           /\ \A r \in Rcpts : attempts'[n][r] <= MaxTries + faults'
           /\ JobCounted(job[g])'
           /\ \/ meta'[n] # "ok"
              \/ \A r \in metaTo'[n] : Counted(n, r, metaTries[n], 0)'
              \/ /\ \A r \in metaTo'[n] : Counted(n, r, metaTries[n], 1)'
                 /\ job'[g].msg = n
                 /\ job'[g].pc \in {"body", "commit", "classify", "dsn", "update",
                                    "rmHdr", "rmBody", "rmMeta"}
              \/ /\ meta[n] = "ok" /\ metaTo'[n] = metaTo[n] /\ metaTries'[n] = metaTries[n]
                 /\ attempts'[n] = attempts[n] /\ faults' = faults
                 /\ job[g].pc \notin {"body", "commit", "classify", "dsn", "update",
                                      "rmHdr", "rmBody", "rmMeta"}
      BY <1>2, <2>2, AttemptCounts
    <2>4. faults' \in Nat
      BY DEF TypeOK
    <2>5. \A k \in Msgs \ panicked', r \in Rcpts : attempts'[k][r] <= MaxTries + faults'
      BY <1>0, <2>1, <2>2, <2>3, <2>0, <2>4 DEF AttemptFrame, SameHistory, TriesCounted
    <2>6. ASSUME NEW h \in Goroutines, job'[h].msg \notin panicked'
          PROVE  JobCounted(job[h])'
      <3>1. CASE h = g /\ (job'[g].msg = n \/ job'[g].pc = "idle")
        BY <2>3, <2>6, <3>1 DEF JobCounted
      <3>2. CASE h # g
        <4>1. job'[h] = job[h] /\ JobCounted(job[h])
          BY <2>1, <2>6, <3>2 DEF AttemptFrame, OthersKept, TriesCounted
        <4>2. CASE job[h].msg # n
          <5>1. attempts'[job[h].msg] = attempts[job[h].msg]
            BY <1>0, <2>1, <2>2, <4>2 DEF AttemptFrame, SameHistory
          <5> QED
            BY <1>0, <2>1, <2>0, <2>4, <4>1, <5>1 DEF JobCounted, Counted
        <4>3. CASE job[h].msg = n /\ attempts' = attempts
          BY <1>0, <2>1, <2>0, <2>4, <4>1, <4>3 DEF JobCounted, Counted
        <4>4. CASE job[h].msg = n /\ TargetStart(g)
          <5>1. ~Owns(h)
            BY <2>2, <3>2, <4>4 DEF TargetStart, Owns, Ownership, OneAttempt
          <5> QED
            BY <4>1, <5>1 DEF Owns, JobCounted
        <4> QED
          BY <1>2, <4>2, <4>3, <4>4
          DEF GoroutineStep, OpenMessage, RemoveFromDisk, Acquire, TargetBody, TargetCommit,
              Classify, EmitDSN, UpdateMeta, AddCheck, AddPush, AddSend, DiscardBroken,
              TargetPanic
      <3> QED
        BY <2>1, <2>2, <3>1, <3>2 DEF AttemptFrame
    <2>7. ASSUME NEW k \in Msgs \ panicked', meta'[k] = "ok", NEW r \in metaTo'[k]
          PROVE  Counted(k, r, metaTries[k], IF InProgress(k) THEN 1 ELSE 0)'
      <3>1. CASE k # n
        <4>1. InProgress(k)' = InProgress(k)
          BY <2>1, <2>2, <3>1 DEF AttemptFrame, OthersKept, InProgress
        <4>2. meta[k] = "ok" /\ r \in metaTo[k] /\ metaTries'[k] = metaTries[k]
              /\ attempts'[k] = attempts[k]
          BY <2>1, <2>2, <2>7, <3>1 DEF AttemptFrame, SameRecord, SameHistory
        <4>3. Counted(k, r, metaTries[k], IF InProgress(k) THEN 1 ELSE 0)
          BY <2>1, <2>7, <4>2 DEF TriesCounted
        <4> QED
          BY <1>0, <2>1, <2>0, <2>4, <4>1, <4>2, <4>3 DEF Counted
      <3>2. CASE k = n /\ \A q \in metaTo'[n] : Counted(n, q, metaTries[n], 0)'
        BY <2>0, <2>4, <2>7, <3>2 DEF Counted, TypeOK
      <3>3. CASE /\ k = n /\ \A q \in metaTo'[n] : Counted(n, q, metaTries[n], 1)'
                 /\ InProgress(n)'
        BY <2>7, <3>3 DEF Counted
      <3>4. CASE /\ k = n
                 /\ meta[n] = "ok" /\ metaTo'[n] = metaTo[n] /\ metaTries'[n] = metaTries[n]
                 /\ attempts'[n] = attempts[n] /\ faults' = faults
                 /\ job[g].pc \notin {"body", "commit", "classify", "dsn", "update",
                                      "rmHdr", "rmBody", "rmMeta"}
        <4>1. InProgress(n) => InProgress(n)'
          BY <2>1, <2>2, <3>4 DEF AttemptFrame, OthersKept, InProgress
        <4>2. Counted(n, r, metaTries[n], IF InProgress(n) THEN 1 ELSE 0)
          BY <2>1, <2>7, <3>4 DEF TriesCounted
        <4> QED
          BY <1>0, <2>7, <3>4, <4>1, <4>2 DEF Counted
      <3> QED
        BY <2>3, <2>7, <3>1, <3>2, <3>3, <3>4 DEF InProgress
    <2> QED
      BY <2>5, <2>6, <2>7 DEF TriesCounted
  <1>3. ASSUME NEW g \in Goroutines, NEW s \in slots, Dispatch(g, s)
        PROVE  TriesCounted'
    <2>1. UNCHANGED <<diskVars, histVars, faults>> /\ job[g].pc = "idle"
      BY <1>3 DEF Dispatch
    <2>2. /\ OthersKept(g) /\ job'[g].pc = "wait" /\ job'[g].msg = s.msg /\ job'[g].tries = Zero
          /\ job'[g].to = IF s.mem THEN rcpts[s.msg] ELSE {}
      BY <1>3, DispatchStep
    <2>3. JobCounted(job[g])'
      <3>1. CASE s.mem
        <4>1. s.msg \in Msgs /\ rcpts[s.msg] \subseteq Rcpts
          BY DEF TypeOK, Slots
        <4>2. \A r \in Rcpts : attempts[s.msg][r] = 0
          BY <3>1 DEF Memory, NothingEarly, Unattempted, Zero
        <4> QED
          BY <1>0, <2>1, <2>2, <3>1, <4>1, <4>2 DEF JobCounted, Counted, Zero
      <3>2. CASE ~s.mem
        BY <2>2, <3>2 DEF JobCounted
      <3> QED
        BY <3>1, <3>2
    <2>4. \A n \in Msgs : InProgress(n)' = InProgress(n)
      BY <2>1, <2>2 DEF InProgress, OthersKept
    <2>5. \A h \in Goroutines : job'[h].msg \notin panicked' => JobCounted(job[h])'
      BY <2>1, <2>2, <2>3 DEF TriesCounted, OthersKept, JobCounted, Counted
    <2> QED
      BY <2>1, <2>4, <2>5 DEF TriesCounted, Counted
  <1>4. CASE Exit \/ Crash \/ PowerLoss
    <2>1. /\ UNCHANGED <<meta, metaTo, metaTries, histVars>>
          /\ \A g \in Goroutines : job'[g].pc = "idle"
          /\ \/ faults' = faults + 1
             \/ faults' = faults /\ \A n \in Msgs : ~InProgress(n)
      BY <1>4, IdleType DEF Exit, Crash, PowerLoss, LoseMemory, InProgress
    <2>2. \A n \in Msgs : ~InProgress(n)'
      BY <2>1 DEF InProgress
    <2>3. \A n \in Msgs \ panicked : meta[n] = "ok" => \A r \in metaTo[n] :
            Counted(n, r, metaTries[n], 0)'
      BY <1>0, <2>1 DEF TriesCounted, Counted
    <2> QED
      BY <1>0, <2>1, <2>2, <2>3 DEF TriesCounted, JobCounted
  <1>5. CASE /\ UNCHANGED <<job, metaTo, metaTries, histVars, faults>>
             /\ \A n \in Msgs : meta'[n] = "ok" => meta[n] = "ok"
    BY <1>5 DEF TriesCounted, JobCounted, Counted, InProgress
  <1>6. CASE UNCHANGED vars
    BY <1>5, <1>6 DEF vars
  <1>7. CASE Restart \/ PurgeOpen \/ PurgeRemove \/ \E m \in Msgs : PurgeSelect(m)
    BY <1>5, <1>7 DEF Restart, PurgeOpen, RemoveDangling, PurgeRemove, RemoveFile, PurgeSelect,
                      TypeOK
  <1>8. CASE CloseBegin \/ CloseWheel
    BY <1>5, <1>8 DEF CloseBegin, CloseWheel
  <1> QED
    BY <1>1, <1>2, <1>3, <1>4, <1>6, <1>7, <1>8 DEF Next

----------------------------------------------------------------------------
(* The bounces                                                             *)

LEMMA BounceHonestNext ==
    TypeOK /\ TypeOK' /\ LocalsFit /\ ServedOnce /\ BounceHonest /\ [Next]_vars => BounceHonest'
  <1> SUFFICES ASSUME TypeOK, TypeOK', LocalsFit, ServedOnce, BounceHonest, [Next]_vars
               PROVE  BounceHonest'
    OBVIOUS
  <1>1. ASSUME NEW g \in Goroutines, EmitDSN(g) PROVE BounceHonest'
    <2>1. PICK m \in Msgs : m = job[g].msg
      BY JobFields DEF TypeOK
    <2>2. /\ failed' = [failed EXCEPT ![m] = @ \union job[g].fail]
          /\ delivered' = delivered /\ faults' = faults
          /\ \/ reported' = [reported EXCEPT ![m] = @ \union job[g].fail] /\ unsent' = unsent
             \/ reported' = reported /\ unsent' = unsent \union {m}
      BY <1>1, <2>1 DEF EmitDSN
    <2>3. \A n \in Msgs : /\ reported'[n] \subseteq failed'[n]
                          /\ n \notin unsent' => failed'[n] = reported'[n]
      BY <2>2 DEF TypeOK, BounceHonest
    <2>4. faults = 0 => \A r \in job[g].fail : delivered[m][r] = 0
      <3>1. \A r \in job[g].fail : Fresh(m, r) /\ delivered[m][r] \in Nat
        BY <1>1, <2>1, JobFields DEF EmitDSN, ServedOnce, ToServe, TypeOK
      <3> QED
        BY <3>1 DEF Fresh
    <2>5. ASSUME NEW n \in Msgs, faults' = 0, NEW r \in failed'[n] PROVE delivered'[n][r] = 0
      BY <2>2, <2>4, <2>5 DEF TypeOK, BounceHonest
    <2> QED
      BY <2>3, <2>5 DEF BounceHonest
  <1>2. ASSUME NEW g \in Goroutines, TargetCommit(g) PROVE BounceHonest'
    <2>1. PICK m \in Msgs : m = job[g].msg
      BY JobFields DEF TypeOK
    <2>2. UNCHANGED <<failed, reported, unsent, faults>> /\ job[g].pc = "commit"
      BY <1>2 DEF TargetCommit
    <2>3. faults = 0 => \A r \in job[g].took : r \notin failed[m]
      BY <2>1, <2>2 DEF LocalsFit, ServedOnce, ToServe, Fresh
    <2>4. \A n \in Msgs : \A r \in failed[n] : faults = 0 => delivered'[n][r] = delivered[n][r]
      <3>1. CASE UNCHANGED delivered
        BY <3>1
      <3>2. CASE delivered' = [delivered EXCEPT ![m] =
                   [r \in Rcpts |-> IF r \in job[g].took /\ job[g].err[r] = "ok"
                                    THEN @[r] + 1 ELSE @[r]]]
        <4>1. \A n \in Msgs \ {m} : delivered'[n] = delivered[n]
          BY <3>2 DEF TypeOK
        <4>2. \A r \in Rcpts : r \notin job[g].took => delivered'[m][r] = delivered[m][r]
          BY <3>2 DEF TypeOK
        <4>3. failed[m] \subseteq Rcpts
          BY DEF TypeOK
        <4> QED
          BY <2>3, <4>1, <4>2, <4>3
      <3> QED
        BY <1>2, <2>1, <3>1, <3>2, TargetCommitStep
    <2> QED
      BY <2>2, <2>4 DEF BounceHonest
  <1>3. CASE /\ UNCHANGED <<failed, reported, unsent, delivered>>
             /\ faults' = 0 => faults = 0
    BY <1>3 DEF BounceHonest
  <1>4. ASSUME NEW g \in Goroutines, GoroutineStep(g) \/ TargetPanic(g),
               ~EmitDSN(g), ~TargetCommit(g)
        PROVE  BounceHonest'
    <2>1. CASE UNCHANGED <<failed, reported, unsent, delivered, faults>>
      BY <1>3, <2>1
    <2>2. CASE UpdateMeta(g)
      <3>1. /\ UNCHANGED <<failed, reported, unsent, delivered>>
            /\ faults' = faults \/ faults' = faults + 1
        BY <2>2 DEF UpdateMeta
      <3>2. faults' = 0 => faults = 0
        BY <3>1 DEF TypeOK
      <3> QED
        BY <1>3, <3>1, <3>2
    <2> QED
      BY <1>4, <2>1, <2>2
      DEF GoroutineStep, OpenMessage, RemoveFromDisk, Acquire, TargetStart, TargetBody,
          Classify, AddCheck, AddPush, AddSend, DiscardBroken, TargetPanic
  <1>5. ASSUME NEW m \in Msgs,
               \/ Start(m) \/ Abort(m) \/ Commit(m) \/ SourceStep(m)
               \/ \E q \in Rcpts : AddRcpt(m, q)
        PROVE  BounceHonest'
    BY <1>3, <1>5 DEF Start, Abort, Commit, SourceStep, AddRcpt, StoreHeader, StoreBody,
                      StoreMeta, StoreSync, AbortRemove, CommitPush, CommitSend
  <1>6. CASE Exit \/ Crash \/ PowerLoss \/ Restart \/ CloseBegin \/ CloseWheel
    BY <1>3, <1>6 DEF Exit, Crash, PowerLoss, Restart, CloseBegin, CloseWheel, TypeOK
  <1>7. CASE PurgeOpen \/ PurgeRemove \/ (\E m \in Msgs : PurgeSelect(m)) \/ UNCHANGED vars
    BY <1>3, <1>7 DEF PurgeOpen, PurgeRemove, PurgeSelect, vars
  <1>8. ASSUME NEW g \in Goroutines, NEW s \in slots, Dispatch(g, s) PROVE BounceHonest'
    BY <1>3, <1>8 DEF Dispatch
  <1> QED
    BY <1>1, <1>2, <1>4, <1>5, <1>6, <1>7, <1>8 DEF Next

----------------------------------------------------------------------------
(* What is set aside                                                       *)

(* Without a shutdown only panicked attempts end in discardBroken: a send  *)
(* to the wheel panics only after Close.                                   *)
SetAsideByPanic ==
    closes = 0 =>
        /\ wheel = "run"
        /\ \A g \in Goroutines : job[g].pc = "broken" => job[g].msg \in panicked
        /\ OnlyPanickedSetAside

LEMMA SetAsideNext == TypeOK /\ SetAsideByPanic /\ [Next]_vars => SetAsideByPanic'
  <1> SUFFICES ASSUME TypeOK, SetAsideByPanic, [Next]_vars, closes' = 0
               PROVE  /\ wheel' = "run"
                      /\ \A g \in Goroutines : job'[g].pc = "broken" => job'[g].msg \in panicked'
                      /\ OnlyPanickedSetAside'
    BY DEF SetAsideByPanic
  <1> DEFINE Goal == /\ wheel' = "run"
                     /\ \A g \in Goroutines : job'[g].pc = "broken" => job'[g].msg \in panicked'
                     /\ OnlyPanickedSetAside'
  <1>0. closes' = closes => /\ wheel = "run"
                            /\ \A g \in Goroutines : job[g].pc = "broken" => job[g].msg \in panicked
                            /\ \A m \in Msgs : meta[m] = "broken" => m \in panicked
    BY DEF SetAsideByPanic, OnlyPanickedSetAside
  <1>1. ASSUME NEW m \in Msgs,
               \/ Start(m) \/ Abort(m) \/ Commit(m) \/ SourceStep(m)
               \/ \E q \in Rcpts : AddRcpt(m, q)
        PROVE  Goal
    <2>1. UNCHANGED <<closes, wheel, job, panicked>>
      BY <1>1 DEF Start, Abort, Commit, SourceStep, AddRcpt, StoreHeader, StoreBody,
                  StoreMeta, StoreSync, AbortRemove, CommitPush, CommitSend
    <2>2. \A n \in Msgs : meta'[n] = "broken" => meta[n] = "broken"
      BY <1>1 DEF Start, Abort, Commit, SourceStep, AddRcpt, StoreHeader, StoreBody,
                  StoreMeta, WriteMeta, StoreSync, AbortRemove, RemoveFile, CommitPush,
                  CommitSend, TypeOK
    <2> QED
      BY <1>0, <2>1, <2>2 DEF OnlyPanickedSetAside
  <1>2. ASSUME NEW g \in Goroutines, GoroutineStep(g) \/ TargetPanic(g) PROVE Goal
    <2>1. AttemptFrame(g) /\ closes' = closes /\ panicked \subseteq panicked'
      BY <1>2, AttemptFrames
      DEF GoroutineStep, OpenMessage, RemoveFromDisk, Acquire, TargetStart, TargetBody,
          TargetCommit, Classify, EmitDSN, UpdateMeta, AddCheck, AddPush, AddSend,
          DiscardBroken, TargetPanic
    <2>2. wheel = "run" /\ (job[g].pc = "broken" => job[g].msg \in panicked)
      BY <1>0, <2>1
    <2>3. job'[g].pc = "broken" => job'[g].msg \in panicked'
      <3>1. CASE TargetPanic(g)
        BY <3>1, GotoStep, PcTypes DEF TargetPanic, TypeOK
      <3>2. CASE AddSend(g)
        BY <2>2, <3>2, ReturnStep DEF AddSend, TypeOK
      <3>3. CASE OpenMessage(g) \/ TargetStart(g) \/ TargetBody(g) \/ TargetCommit(g)
        BY <3>3, OpenStep, TargetStartStep, TargetBodyStep, TargetCommitStep
      <3>4. CASE Classify(g) \/ EmitDSN(g) \/ RemoveFromDisk(g)
        BY <3>4, ClassifyStep, EmitDSNStep, RemoveFromDiskStep DEF Afterwards
      <3>5. CASE Acquire(g) \/ UpdateMeta(g) \/ AddCheck(g) \/ AddPush(g) \/ DiscardBroken(g)
        BY <3>5, GotoStep, ReturnStep, PcTypes
        DEF Acquire, UpdateMeta, AddCheck, AddPush, DiscardBroken, TypeOK
      <3> QED
        BY <1>2, <3>1, <3>2, <3>3, <3>4, <3>5 DEF GoroutineStep
    <2>4. \A n \in Msgs : meta'[n] = "broken" => n \in panicked
      <3>1. CASE DiscardBroken(g)
        BY <1>0, <2>1, <2>2, <3>1 DEF DiscardBroken, TypeOK
      <3>2. CASE \A n \in Msgs : meta'[n] = "broken" => meta[n] = "broken"
        BY <1>0, <2>1, <3>2
      <3>3. CASE OpenMessage(g) \/ RemoveFromDisk(g) \/ UpdateMeta(g)
        BY <3>2, <3>3 DEF OpenMessage, RemoveFromDisk, RemoveFile, UpdateMeta, WriteMeta, TypeOK
      <3> QED
        BY <1>2, <3>1, <3>2, <3>3
        DEF GoroutineStep, Acquire, TargetStart, TargetBody, TargetCommit, Classify, EmitDSN,
            AddCheck, AddPush, AddSend, TargetPanic
    <2> QED
      BY <1>0, <2>1, <2>3, <2>4 DEF AttemptFrame, OthersKept, OnlyPanickedSetAside
  <1>3. ASSUME NEW g \in Goroutines, NEW s \in slots, Dispatch(g, s) PROVE Goal
    BY <1>0, <1>3, DispatchStep DEF Dispatch, OthersKept, OnlyPanickedSetAside
  <1>4. CASE CloseBegin
    BY <1>4 DEF CloseBegin, TypeOK
  <1>5. CASE CloseWheel
    BY <1>0, <1>5 DEF CloseWheel
  <1>6. CASE Exit \/ Crash \/ PowerLoss
    BY <1>0, <1>6, IdleType DEF Exit, Crash, PowerLoss, LoseMemory, OnlyPanickedSetAside
  <1>7. CASE Restart \/ PurgeOpen \/ PurgeRemove \/ (\E m \in Msgs : PurgeSelect(m))
             \/ UNCHANGED vars
    <2>1. UNCHANGED <<closes, wheel, job, panicked>>
      BY <1>7 DEF Restart, PurgeOpen, PurgeRemove, PurgeSelect, vars
    <2>2. \A n \in Msgs : meta'[n] = "broken" => meta[n] = "broken"
      BY <1>7 DEF Restart, PurgeOpen, RemoveDangling, PurgeRemove, RemoveFile, PurgeSelect,
                  vars, TypeOK
    <2> QED
      BY <1>0, <2>1, <2>2 DEF OnlyPanickedSetAside
  <1> QED
    BY <1>1, <1>2, <1>3, <1>4, <1>5, <1>6, <1>7 DEF Next

----------------------------------------------------------------------------
(* The theorems                                                            *)

IInv ==
    /\ TypeOK /\ Ownership /\ Files /\ Memory
    /\ ServedOnce /\ TriesCounted /\ BounceHonest /\ SetAsideByPanic

(* The inductive invariant holds in every state the queue can reach.       *)
THEOREM QueueInductive == Spec => []IInv
  <1>1. Init => IInv
    <2>1. Init => BounceHonest /\ SetAsideByPanic
      BY IdleType DEF Init, BounceHonest, SetAsideByPanic, OnlyPanickedSetAside
    <2> QED
      BY <2>1, TypeInit, OwnershipInit, FilesInit, MemoryInit, ServedOnceInit, TriesCountedInit
      DEF IInv
  <1>2. IInv /\ [Next]_vars => IInv'
    <2> SUFFICES ASSUME IInv, [Next]_vars PROVE IInv'
      OBVIOUS
    <2>1. TypeOK'
      BY TypeNext DEF IInv
    <2>2. Ownership' /\ Files' /\ Memory'
      BY <2>1, OwnershipNext, FilesNext, MemoryNext DEF IInv
    <2>3. ServedOnce' /\ TriesCounted'
      BY <2>1, ServedOnceNext, TriesCountedNext DEF IInv
    <2>4. BounceHonest' /\ SetAsideByPanic'
      BY <2>1, BounceHonestNext, SetAsideNext DEF IInv, Memory
    <2> QED
      BY <2>1, <2>2, <2>3, <2>4 DEF IInv
  <1> QED
    BY <1>1, <1>2, PTL DEF Spec

(* Through retries, crashes, shutdowns, restarts and purges a message is   *)
(* never attempted twice at a time and, once accepted, never by nobody     *)
(* while the server runs.                                                  *)
THEOREM QueueOneOwner == Spec => []OneOwner
  <1>1. IInv => OneOwner
    BY OwnershipGivesSingleOwner, FilesGiveNotStranded DEF IInv, OneOwner
  <1> QED
    BY <1>1, QueueInductive, PTL

(* Each recipient of an accepted message has the message, is reported or   *)
(* will be found again, at any crash; a rejected one reaches nobody.       *)
THEOREM QueueAnswerKept == Spec => []AnswerKept
  <1>1. IInv => NoSilentLoss
    BY DEF IInv, Memory, Remembered, NoSilentLoss, Accepted, Kept, Pending, OnFile,
           Recoverable, TypeOK
  <1>2. IInv => AcceptedIntact
    BY DEF IInv, Files, FilesWhole, AcceptedIntact, Accepted
  <1>3. IInv => RejectedNeverDelivered
    BY DEF IInv, Memory, NothingEarly, Unattempted, Handed, RejectedNeverDelivered
  <1>4. IInv => AnswerKept
    BY <1>1, <1>2, <1>3 DEF IInv, AnswerKept
  <1> QED
    BY <1>4, QueueInductive, PTL

(* A recipient gets a message once, and is tried at most max_tries times,  *)
(* for each record of it that a crash or a failed update lost once more.   *)
THEOREM QueueRetriesBounded == Spec => []RetriesBounded
  <1>1. IInv => RetriesBounded
    BY DEF IInv, ServedOnce, TriesCounted, RetriesBounded
  <1> QED
    BY <1>1, QueueInductive, PTL

(* While the queue was never closed, only a panic of the target has set a  *)
(* message aside: the shutdown that the run queue_shutdown shows is the    *)
(* only other cause.                                                       *)
THEOREM QueueSetAside == Spec => [](closes = 0 => OnlyPanickedSetAside)
  <1>1. IInv => (closes = 0 => OnlyPanickedSetAside)
    BY DEF IInv, SetAsideByPanic
  <1> QED
    BY <1>1, QueueInductive, PTL
=============================================================================
