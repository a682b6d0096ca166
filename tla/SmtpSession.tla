---------------------------- MODULE SmtpSession ----------------------------
(***************************************************************************)
(* One session of the SMTP, submission or LMTP endpoint                    *)
(* (internal/endpoint/smtp/session.go) and the message pipeline it feeds.  *)
(* Every handler holds msgLock from its first step to its last, so a       *)
(* handler in progress excludes the others, Logout included; it is broken  *)
(* into one action for each call that may fail on its own.                 *)
(*                                                                         *)
(* The SMTP server library is external and appears as the order in which   *)
(* it calls the handlers: MAIL starts a transaction and is not nested,     *)
(* RCPT follows MAIL, DATA needs an accepted recipient, Reset follows DATA *)
(* and RSET, Logout ends the session at any time.  A sender is modelled by *)
(* its domain, which is all the limits and the normalisation depend on.    *)
(***************************************************************************)
EXTENDS MsgPipeline, Integers

CONSTANTS
    Rcpts,     \* addresses the client names in RCPT
    Senders,   \* the sender domains
    CleanDomain, \* Senders -> Senders: address.CleanDomain
    Endpoints, \* the endpoints a session may come to, as EndpointSettings
    MaxMsgs    \* bound on the transactions of the session

(* auth: a submission endpoint; defer: defer_sender_reject; lmtp: it speaks *)
(* LMTP; senders: the domains its clients name in MAIL.                    *)
EndpointSettings ==
    [auth : BOOLEAN, defer : BOOLEAN, lmtp : BOOLEAN, senders : SUBSET Senders]

ASSUME SessionAssumption ==
    /\ Rcpts \subseteq Addrs /\ Rcpts # {}
    /\ CleanDomain \in [Senders -> Senders]
    /\ Endpoints \subseteq EndpointSettings
    /\ MaxMsgs \in Nat

NoSender == "none"

VARIABLES
    \* Session
    endp,         \* the endpoint
    authUser,     \* connState.AuthUser is set
    mailFrom,     \* mailFrom; NoSender for ""
    delivery,     \* delivery is set
    deliveryErr,  \* deliveryErr is set
    pc, todo,     \* the handler in progress and the calls it still makes
    cur,          \* the argument of the RCPT in progress
    ans,          \* the answer of the last MAIL, RCPT or DATA
    \* Endpoint.limits
    ledger,       \* TakeMsg minus ReleaseMsg, per domain
    \* the SMTP library
    proto,        \* where the client is in its transaction
    msgNo,        \* transactions so far
    sender,       \* the argument of MAIL
    accepted,     \* recipients of the transaction answered with success
    told,         \* LMTP: statuses set for each recipient
    \* history
    source,       \* the domain the delivery was started for
    given,        \* rcpts: the recipients of the transaction
    dataFailed    \* some DATA failed after its body was read

connVars == <<endp, authUser>>
sessVars == <<mailFrom, delivery, deliveryErr>>
handlerVars == <<pc, todo, cur>>
protoVars == <<proto, msgNo, sender, accepted, told>>
ghostVars == <<source, given, dataFailed>>
vars == <<pipeVars, connVars, sessVars, handlerVars, ans, ledger, protoVars, ghostVars>>

LMTP == endp.lmtp
Defer == endp.defer
AuthRequired == endp.auth

Domains == Senders \union {NoSender}
Calls == [op : {"global", "source", "rewrite", "block", "modify", "deliver"},
          addr : Addrs, tgt : Targets \union {NoTarget}]

TypeOK ==
    /\ PipeTypeOK
    /\ mailFrom \in Domains /\ source \in Domains /\ sender \in Domains
    /\ endp \in Endpoints /\ authUser \in BOOLEAN /\ delivery \in BOOLEAN
    /\ deliveryErr \in BOOLEAN /\ msgNo \in 0 .. MaxMsgs
    /\ pc \in {"idle", "rcpt", "checks", "body", "close", "commit", "clean"}
    /\ todo \in Seq(Calls)
    /\ cur \in Addrs
    /\ ans \in {"none", "ok", "err"}
    /\ ledger \in [Domains -> Int]
    /\ proto \in {"idle", "mail", "reset", "closed"}
    /\ accepted \subseteq Rcpts /\ given \subseteq Rcpts
    /\ told \in [Addrs -> SUBSET {"ok", "err"}]
    /\ dataFailed \in BOOLEAN

Init ==
    /\ PipeInit
    /\ endp \in Endpoints /\ authUser = FALSE
    /\ mailFrom = NoSender /\ delivery = FALSE /\ deliveryErr = FALSE
    /\ pc = "idle" /\ todo = <<>> /\ cur = CHOOSE r \in Rcpts : TRUE
    /\ ans = "none"
    /\ ledger = [d \in Domains |-> 0]
    /\ proto = "idle" /\ msgNo = 0 /\ sender = NoSender /\ accepted = {}
    /\ told = [a \in Addrs |-> {}]
    /\ source = NoSender /\ given = {} /\ dataFailed = FALSE

----------------------------------------------------------------------------
(* startDelivery, releaseLimits, cleanSession, abort                       *)

Clean(from) == IF from = NoSender THEN NoSender ELSE CleanDomain[from]

(* The address is refused, TakeMsg fails, or pipeline.Start does, in which *)
(* case the limits taken for the clean domain are released for it.  left:  *)
(* what mailFrom is when the handler returns.                              *)
StartDelivery(from, left, ok) ==
    \/ /\ ok /\ StartOk
       /\ delivery' = TRUE
       /\ mailFrom' = left
       /\ source' = Clean(from)
       /\ ledger' = [ledger EXCEPT ![Clean(from)] = @ + 1]
    \/ /\ ~ok /\ "mail" \in Failures /\ StartFailed
       /\ UNCHANGED <<delivery, mailFrom, source, ledger>>

(* The bucket to release is found from mailFrom.                           *)
ReleaseLimitsOfArgument == ledger' = [ledger EXCEPT ![sender] = @ - 1]
ReleaseLimits == ledger' = [ledger EXCEPT ![mailFrom] = @ - 1]

CleanSessionKeepingLimits ==
    /\ mailFrom' = NoSender
    /\ delivery' = FALSE
    /\ deliveryErr' = FALSE
    /\ UNCHANGED ledger
CleanSession ==
    /\ ReleaseLimits
    /\ mailFrom' = NoSender
    /\ delivery' = FALSE
    /\ deliveryErr' = FALSE

----------------------------------------------------------------------------
(* The handlers                                                            *)

(* Session.AuthPlain; a failure changes nothing.                           *)
AuthPlain ==
    /\ pc = "idle" /\ proto = "idle" /\ AuthRequired /\ ~authUser
    /\ authUser' = TRUE
    /\ UNCHANGED <<endp, pipeVars, sessVars, handlerVars, ans, ledger, protoVars, ghostVars>>

(* Session.Mail.  The argument is kept for the deferred startDelivery, and *)
(* replaces what a startDelivery that was not deferred left in mailFrom.   *)
Mail(from) ==
    /\ pc = "idle" /\ proto = "idle" /\ msgNo < MaxMsgs
    /\ from \in endp.senders \union {NoSender}
    /\ AuthRequired => authUser
    /\ msgNo' = msgNo + 1
    /\ sender' = from
    /\ given' = {} /\ accepted' = {}
    /\ told' = [a \in Addrs |-> {}]
    /\ \/ /\ Defer
          /\ mailFrom' = from /\ ans' = "ok" /\ proto' = "mail"
          /\ UNCHANGED <<delivery, source, ledger, pipeVars>>
       \/ /\ ~Defer /\ StartDelivery(from, from, TRUE)
          /\ ans' = "ok" /\ proto' = "mail"
       \/ /\ ~Defer /\ StartDelivery(from, from, FALSE)
          /\ ans' = "err" /\ UNCHANGED proto
    /\ UNCHANGED <<connVars, deliveryErr, handlerVars, dataFailed>>

unlessRcpt == <<connVars, proto, msgNo, sender, told, dataFailed>>

(* Session.Rcpt: an error of startDelivery is remembered and returned for  *)
(* every further RCPT.                                                     *)
RcptRefused ==
    /\ pc = "idle" /\ proto = "mail" /\ ~delivery
    /\ ans' = "err"
    /\ \/ /\ deliveryErr
          /\ UNCHANGED <<sessVars, source, ledger, pipeVars>>
       \/ /\ ~deliveryErr
          /\ StartDelivery(mailFrom, mailFrom, FALSE)
          /\ deliveryErr' = TRUE
    /\ UNCHANGED <<handlerVars, accepted, given, unlessRcpt>>

(* Otherwise the delivery is there, or is started now, and the recipient   *)
(* is refused as malformed or AddRcpt begins.                              *)
Rcpt(r) ==
    /\ pc = "idle" /\ proto = "mail"
    /\ \/ delivery /\ UNCHANGED <<delivery, mailFrom, source, ledger, pipeVars>>
       \/ /\ ~delivery /\ ~deliveryErr
          /\ StartDelivery(mailFrom, Clean(mailFrom), TRUE)
    /\ \/ /\ pc' = "rcpt" /\ cur' = r /\ todo' = AddRcptCalls(r)
          /\ given' = given \union {r}
          /\ UNCHANGED ans
       \/ /\ "address" \in Failures /\ ans' = "err"
          /\ UNCHANGED <<handlerVars, given>>
    /\ UNCHANGED <<deliveryErr, accepted, unlessRcpt>>

RcptDone(code) ==
    /\ pc' = "idle" /\ todo' = <<>> /\ ans' = code
    /\ accepted' = IF code = "ok" THEN accepted \union {cur} ELSE accepted

(* One call of AddRcpt.  The first that fails ends it; what the calls      *)
(* before it did at other targets stays.                                   *)
MakeCall(c, ok) ==
    \/ /\ c.op = "global" /\ CheckRcpt(GlobalChecks, c.addr, ok)
       /\ UNCHANGED unlessCheck
    \/ /\ c.op = "source" /\ CheckRcpt(SourceChecks, c.addr, ok)
       /\ UNCHANGED unlessCheck
    \/ /\ c.op = "rewrite" /\ (ok \/ "modifier" \in Failures)
       /\ UNCHANGED pipeVars
    \/ c.op = "block" /\ RcptBlock(c.addr, ok)
    \/ c.op = "modify" /\ BlockModify(c.addr, ok)
    \/ c.op = "deliver" /\ Deliver(cur, c.addr, c.tgt, ok)

(* The calls that follow from a rewriting.                                 *)
Expand(c) ==
    CASE c.op = "rewrite" -> BlockCalls(c.addr)
      [] c.op = "modify"  -> DeliverCalls(c.addr)
      [] OTHER            -> <<>>

AddRcpt(ok) ==
    LET left == IF ok THEN Expand(Head(todo)) \o Tail(todo) ELSE <<>> IN
    /\ pc = "rcpt" /\ todo # <<>>
    /\ MakeCall(Head(todo), ok)
    /\ IF left = <<>> THEN RcptDone(IF ok THEN "ok" ELSE "err")
                      ELSE todo' = left /\ UNCHANGED <<pc, ans, accepted>>
    /\ UNCHANGED <<cur, sessVars, source, ledger, given, unlessRcpt>>

----------------------------------------------------------------------------
(* Session.Data and Session.LMTPData                                       *)

unlessData == <<connVars, sessVars, cur, todo, ledger, msgNo, sender, accepted, source, given>>

Fail == pc' = "clean" /\ ans' = "err" /\ dataFailed' = TRUE

(* SetStatus for a set of recipients, through wrapped statusCollectors.    *)
SetStatus(bad, good) ==
    told' = [a \in Addrs |-> told[a] \union (IF a \in bad THEN {"err"} ELSE {})
                                      \union (IF a \in good THEN {"ok"} ELSE {})]

(* prepareBody fails, and the session keeps its delivery; or the message   *)
(* is refused, as not encrypted or as looping, where LMTP reports the      *)
(* former to every recipient named; or it goes to the pipeline.            *)
Data ==
    /\ pc = "idle" /\ proto = "mail" /\ accepted # {}
    /\ proto' = "reset"
    /\ \/ "prepare" \in Failures /\ ans' = "err" /\ UNCHANGED <<pc, dataFailed, told>>
       \/ "refuse" \in Failures /\ Fail /\ UNCHANGED told
       \/ /\ "refuse" \in Failures /\ LMTP
          /\ SetStatus(given, {})
          /\ pc' = "clean" /\ ans' = "ok" /\ dataFailed' = TRUE
       \/ pc' = "checks" /\ UNCHANGED <<ans, dataFailed, told>>
    /\ UNCHANGED <<unlessData, pipeVars>>

AllRecips == UNION {recips[t] : t \in Targets}

(* The checks and modifiers of the body.  setStatusAll reports a failure   *)
(* to all recipients, and LMTP goes on to Commit.                          *)
DataChecks(ok) ==
    /\ pc = "checks"
    /\ BodyChecks(~LMTP, ok)
    /\ \/ ok /\ pc' = "body" /\ UNCHANGED <<ans, dataFailed, told>>
       \/ ~ok /\ ~LMTP /\ Fail /\ UNCHANGED told
       \/ /\ ~ok /\ LMTP
          /\ pc' = "close"
          /\ SetStatus(AllRecips, {})
          /\ UNCHANGED <<ans, dataFailed>>
    /\ UNCHANGED <<unlessData, proto>>

(* Delivery.Body of each target in the order of a Go map.                  *)
DataBodyCommits(t) ==
    /\ pc = "body" /\ ~LMTP /\ deliv[t] = "open"
    /\ \/ /\ deliv' = [deliv EXCEPT ![t] = "committed"]
          /\ ready' = [ready EXCEPT ![t] = took[t]]
          /\ UNCHANGED <<quar, flagged, unlessBody, pc, ans, dataFailed>>
       \/ TargetBody(t, {}, FALSE) /\ Fail
    /\ UNCHANGED <<unlessData, proto, told>>
DataBody(t) ==
    /\ pc = "body" /\ ~LMTP /\ deliv[t] = "open"
    /\ \/ TargetBody(t, took[t], TRUE) /\ UNCHANGED <<pc, ans, dataFailed>>
       \/ TargetBody(t, {}, FALSE) /\ Fail
    /\ UNCHANGED <<unlessData, proto, told>>

(* BodyNonAtomic: a target without partial failures gets Body, and its     *)
(* error is copied to its recipients; the others report on each address,   *)
(* translated back by OriginalRcpts.                                       *)
LmtpBodySilent(t, ok) ==
    /\ pc = "body" /\ LMTP /\ t \notin PartialTargets /\ deliv[t] = "open"
    /\ TargetBody(t, IF ok THEN took[t] ELSE {}, ok)
    /\ UNCHANGED <<told, unlessData, proto, pc, ans, dataFailed>>
LmtpBody(t, ok) ==
    /\ pc = "body" /\ LMTP /\ t \notin PartialTargets /\ deliv[t] = "open"
    /\ TargetBody(t, IF ok THEN took[t] ELSE {}, ok)
    /\ IF ok THEN UNCHANGED told ELSE SetStatus(recips[t], {})
    /\ UNCHANGED <<unlessData, proto, pc, ans, dataFailed>>

LmtpPartialBody(t, good) ==
    LET Original(as) == {orig[a] : a \in as} IN
    /\ pc = "body" /\ LMTP /\ t \in PartialTargets /\ deliv[t] = "open"
    /\ TargetBody(t, good, TRUE)
    /\ SetStatus(Original(took[t] \ good), Original(good))
    /\ UNCHANGED <<unlessData, proto, pc, ans, dataFailed>>

(* msgpipelineDelivery.Commit closes the states first ...                  *)
CommitBegin ==
    /\ pc = "close" \/ (pc = "body" /\ \A t \in Targets : deliv[t] # "open")
    /\ PipeClose
    /\ pc' = "commit"
    /\ UNCHANGED <<ans, dataFailed, unlessData, proto, told>>

Uncommitted == {t \in Targets : deliv[t] \in {"open", "bodied", "failed"}}

(* ... then commits the deliveries, up to the first failure.               *)
Commit(t, ok) ==
    /\ pc = "commit" /\ t \in Uncommitted
    /\ TargetCommit(t, ok)
    /\ IF ok THEN UNCHANGED <<pc, ans, dataFailed>> ELSE Fail
    /\ UNCHANGED <<unlessData, proto, told>>

CommitDone ==
    /\ pc = "commit" /\ Uncommitted = {}
    /\ pc' = "clean" /\ ans' = "ok"
    /\ UNCHANGED <<pipeVars, dataFailed, unlessData, proto, told>>

(* The deferred function of Data.                                          *)
DataEnd ==
    /\ pc = "clean"
    /\ CleanSession /\ PipeDrop
    /\ pc' = "idle"
    /\ UNCHANGED <<connVars, todo, cur, ans, protoVars, ghostVars>>

----------------------------------------------------------------------------
(* Session.Reset and Session.Logout                                        *)

AbortNothing == UNCHANGED <<sessVars, ledger, pipeVars>>
Abort ==
    \/ delivery /\ CleanSession /\ PipeAbort
    \/ ~delivery /\ UNCHANGED <<sessVars, ledger, pipeVars>>

(* After DATA, or at RSET.                                                 *)
Reset ==
    /\ pc = "idle" /\ proto \in {"mail", "reset"}
    /\ Abort
    /\ proto' = "idle"
    /\ UNCHANGED <<connVars, handlerVars, ans, msgNo, sender, accepted, told, ghostVars>>

Logout ==
    /\ pc = "idle" /\ proto # "closed"
    /\ Abort
    /\ proto' = "closed"
    /\ UNCHANGED <<connVars, handlerVars, ans, msgNo, sender, accepted, told, ghostVars>>

----------------------------------------------------------------------------
Next ==
    \/ AuthPlain
    \/ \E from \in Domains : Mail(from)
    \/ \E r \in Rcpts : Rcpt(r)
    \/ RcptRefused
    \/ \E ok \in BOOLEAN : AddRcpt(ok) \/ DataChecks(ok)
    \/ Data
    \/ \E t \in Targets :
         \/ DataBody(t)
         \/ \E good \in SUBSET took[t] : LmtpPartialBody(t, good)
         \/ \E ok \in BOOLEAN : LmtpBody(t, ok) \/ Commit(t, ok)
    \/ CommitBegin \/ CommitDone \/ DataEnd
    \/ Reset \/ Logout

Spec == Init /\ [][Next]_vars
----------------------------------------------------------------------------
(* What the endpoint promises                                              *)

(* A DATA answered with success has reached, with its body and committed,  *)
(* every target of every recipient that was accepted.                      *)
AcceptedMeansCommitted ==
    pc = "clean" /\ ans = "ok" /\ ~LMTP =>
        \A r \in accepted : \A p \in Plan(r) :
            deliv[p[2]] = "committed" /\ p[1] \in ready[p[2]]

(* A DATA answered with an error has been committed nowhere, unless it was *)
(* Commit that failed: no target is committed before all took the body.    *)
RefusedNotCommitted ==
    pc = "clean" /\ ans = "err" /\ (\A t \in Targets : deliv[t] # "commitErr") =>
        \A t \in Targets : deliv[t] # "committed"

(* LMTP: a recipient that is not reported as failed has been committed at  *)
(* every target, with the body.                                            *)
StatusesHonest ==
    pc = "clean" /\ ans = "ok" /\ LMTP =>
        \A r \in accepted : "err" \notin told[r] =>
            \A p \in Plan(r) : deliv[p[2]] = "committed" /\ p[1] \in ready[p[2]]

(***************************************************************************)
(* The answer to DATA is true, whatever fails between the body and the     *)
(* last Commit: success means that every accepted recipient's targets have *)
(* the body and committed it, an error that none has, unless Commit itself *)
(* failed half way; and LMTP says it of each recipient.                    *)
(***************************************************************************)
AnswerHonest == AcceptedMeansCommitted /\ RefusedNotCommitted /\ StatusesHonest

(* The delivery a session holds is the one of the transaction in progress: *)
(* started for its sender, with no recipient of an earlier transaction.    *)
DeliveryOfThisTransaction ==
    delivery => /\ source = Clean(sender)
                /\ \A t \in Targets : recips[t] \subseteq given

(* Whatever fails at MAIL, RCPT or while the body is read, RSET, the next  *)
(* transaction and the end of the session leave no delivery unfinished and *)
(* no check or modifier state open.  Two leaks of the code are excepted:   *)
(* the deliveries of a DATA that failed after its body was read, and the   *)
(* modifier state of the source block when its RewriteSender fails.        *)
RolledBack == orphans # {} => dataFailed \/ orphans = {"source"}

(***************************************************************************)
(* Transactions do not mix: the delivery in hand is of the MAIL and RCPT   *)
(* commands of this transaction alone, and an earlier one, however it      *)
(* ended, has left nothing open in the pipeline.                           *)
(***************************************************************************)
TransactionsApart == TypeOK /\ DeliveryOfThisTransaction /\ RolledBack

(* The sessions whose mailFrom names one bucket throughout: startDelivery  *)
(* is deferred, or clients write their domains in normalised form.         *)
OneSpelling == Defer \/ \A s \in endp.senders : CleanDomain[s] = s

(***************************************************************************)
(* What TakeMsg took for a message is released when the message is over,   *)
(* once and in the bucket of the same domain (the limiters panic with      *)
(* "mismatched Release call" on a release that was not taken), in every    *)
(* session with OneSpelling.                                               *)
(***************************************************************************)
LimitsBalanced ==
    OneSpelling =>
        \A d \in Domains : ledger[d] = IF delivery /\ d = Clean(sender) THEN 1 ELSE 0

(* A recipient that was accepted has been seen by every check that applies *)
(* to it: those of the pipeline and of the source block under its own      *)
(* address, those of its destination blocks under the rewritten ones.      *)
AllChecksRan ==
    delivery => \A r \in accepted :
        /\ \A c \in GlobalChecks \union SourceChecks : r \in seen[c]
        /\ \A i \in DOMAIN Rewrite[r] : LET a == Rewrite[r][i] IN
              \A c \in BlockChecks[BlockOf[a]] : c \in states /\ a \in seen[c]

(* A message that a check quarantined is committed with the Quarantine     *)
(* flag of its meta-data set.  BodyNonAtomic never sets the flag.          *)
QuarantineKept ==
    ~LMTP /\ quar /\ (\E t \in Targets : deliv[t] = "committed") => flagged

(***************************************************************************)
(* No check is by-passed: each saw every accepted recipient, also when it  *)
(* joined in the middle of the message, and a quarantine one of them asked *)
(* for at any stage is on the message when it is committed.                *)
(***************************************************************************)
ChecksHeeded == AllChecksRan /\ QuarantineKept
=============================================================================
