------------------------- MODULE SmtpSessionProofs -------------------------
(***************************************************************************)
(* An SMTP or LMTP session keeps its promises for every pipeline, every    *)
(* way its calls may fail and any number of transactions: LimitsBalanced,  *)
(* TransactionsApart, ChecksHeeded and AnswerHonest of module SmtpSession. *)
(*                                                                         *)
(* LimitsBalanced is not inductive: releaseLimits finds the bucket from    *)
(* mailFrom, which Mail and startDelivery write, so the proof has to know  *)
(* in which states mailFrom is the domain the limits were taken for and    *)
(* that a transaction begins without a delivery.                           *)
(*                                                                         *)
(* Nor are the other three.  What an answer promises of a recipient was    *)
(* done by the calls of AddRcpt long before, so the proof says of the list *)
(* of calls which part of a recipient's duties each call stands for, that  *)
(* the calls done and the calls to come make up all of them, and follows   *)
(* each address at each target from there to the end of DATA.              *)
(***************************************************************************)
EXTENDS SmtpSession, TLAPS

(* What mailFrom stands for.                                               *)
MailFromKept ==
    /\ delivery => mailFrom = Clean(sender)
    /\ proto = "mail" /\ ~delivery => mailFrom = sender

(* A delivery belongs to a transaction, only a session with a delivery is  *)
(* in the middle of RCPT or DATA or accepts a recipient, and DATA ends the *)
(* RCPT commands.                                                          *)
DeliveryInTransaction ==
    /\ delivery => proto \in {"mail", "reset"}
    /\ pc # "idle" => delivery
    /\ pc \notin {"idle", "rcpt"} => proto # "mail"
    /\ proto = "mail" /\ accepted # {} => delivery

LedgerIsDelivery ==
    ledger = [d \in Domains |-> IF delivery /\ d = Clean(sender) THEN 1 ELSE 0]

IInv ==
    /\ OneSpelling
    /\ delivery \in BOOLEAN
    /\ mailFrom \in Domains /\ sender \in Domains
    /\ MailFromKept /\ DeliveryInTransaction /\ LedgerIsDelivery

(* The clean form of a domain is a domain.                                 *)
LEMMA CleanType == \A from \in Domains : Clean(from) \in Domains
  BY SessionAssumption DEF Clean, Domains

LEMMA InitIInv == Init /\ OneSpelling => IInv
  BY DEF Init, IInv, MailFromKept, DeliveryInTransaction, LedgerIsDelivery, Domains

(* The endpoint of a session does not change.                              *)
LEMMA SameSpelling == OneSpelling /\ endp' = endp => OneSpelling'
  BY DEF OneSpelling, Defer

(* The steps that leave limits, delivery and sender alone.                 *)
LEMMA SameLedger ==
    ASSUME IInv, UNCHANGED <<endp, mailFrom, delivery, sender, ledger>>,
           proto' = "mail" => proto = "mail",
           delivery => proto' \in {"mail", "reset"},
           delivery \/ accepted' = accepted,
           pc' # "idle" => delivery,
           pc' \notin {"idle", "rcpt"} => proto' # "mail"
    PROVE  IInv'
  <1>1. LedgerIsDelivery'
    BY DEF IInv, LedgerIsDelivery, Clean, Domains
  <1>2. OneSpelling'
    BY SameSpelling DEF IInv
  <1> QED
    BY <1>1, <1>2 DEF IInv, MailFromKept, DeliveryInTransaction, Clean, Domains

(* Mail begins without limits.  Deferred, it takes none and keeps its      *)
(* argument; otherwise it takes those of the clean domain, which is how    *)
(* the argument is spelled, or fails and leaves the transaction unbegun.   *)
LEMMA MailStep ==
    ASSUME IInv, NEW from \in Domains, Mail(from)
    PROVE  IInv'
  <1>1. ~delivery /\ pc = "idle" /\ proto = "idle"
    BY DEF Mail, IInv, DeliveryInTransaction
  <1>2. /\ sender' = from /\ accepted' = {} /\ pc' = "idle"
        /\ UNCHANGED endp
    BY <1>1 DEF Mail, handlerVars, connVars
  <1>3. ledger = [d \in Domains |-> 0]
    BY <1>1 DEF IInv, LedgerIsDelivery
  <1>4. OneSpelling'
    BY <1>2, SameSpelling DEF IInv
  <1>5. CASE Defer
    <2>1. mailFrom' = from /\ proto' = "mail" /\ UNCHANGED <<delivery, ledger>>
      BY <1>5 DEF Mail
    <2>2. LedgerIsDelivery'
      BY <1>1, <1>3, <2>1 DEF LedgerIsDelivery, Domains
    <2> QED
      BY <1>1, <1>2, <1>4, <2>1, <2>2 DEF IInv, MailFromKept, DeliveryInTransaction
  <1>6. CASE ~Defer /\ StartDelivery(from, from, TRUE) /\ proto' = "mail"
    <2>1. /\ delivery' = TRUE /\ mailFrom' = from
          /\ ledger' = [ledger EXCEPT ![Clean(from)] = @ + 1]
      BY <1>6 DEF StartDelivery
    <2>2. Clean(from) = from
      BY <1>6 DEF Mail, IInv, OneSpelling, Clean
    <2>3. ledger' = [d \in Domains |-> IF d = from THEN 1 ELSE 0]
      BY <1>3, <2>1, <2>2
    <2>4. LedgerIsDelivery' /\ mailFrom' = Clean(sender)'
      BY <1>2, <2>1, <2>2, <2>3, ZenonT(60) DEF LedgerIsDelivery, Clean, Domains
    <2> QED
      BY <1>2, <1>4, <1>6, <2>1, <2>4 DEF IInv, MailFromKept, DeliveryInTransaction
  <1>7. CASE ~Defer /\ StartDelivery(from, from, FALSE) /\ UNCHANGED proto
    <2>1. UNCHANGED <<delivery, mailFrom, ledger>>
      BY <1>7 DEF StartDelivery
    <2>2. LedgerIsDelivery'
      BY <1>1, <1>3, <2>1 DEF LedgerIsDelivery, Domains
    <2> QED
      BY <1>1, <1>2, <1>4, <1>7, <2>1, <2>2 DEF IInv, MailFromKept, DeliveryInTransaction
  <1> QED
    BY <1>5, <1>6, <1>7 DEF Mail

(* Rcpt starts the delivery with the argument of MAIL and leaves its clean *)
(* form, for which TakeMsg was called, in mailFrom.                        *)
LEMMA RcptStep ==
    ASSUME IInv, NEW r \in Rcpts, Rcpt(r)
    PROVE  IInv'
  <1>1. UNCHANGED <<sender, proto>> /\ proto = "mail" /\ pc' \in {"rcpt", "idle"}
    BY DEF Rcpt, unlessRcpt, handlerVars
  <1>4. OneSpelling'
    BY SameSpelling DEF Rcpt, unlessRcpt, connVars, IInv
  <1>2. CASE delivery
    <2>1. UNCHANGED <<delivery, mailFrom, ledger>>
      BY <1>2 DEF Rcpt
    <2> QED
      BY <1>1, <1>2, <1>4, <2>1 DEF IInv, MailFromKept, DeliveryInTransaction, LedgerIsDelivery, Clean, Domains
  <1>3. CASE ~delivery
    <2>1. /\ delivery' = TRUE
          /\ mailFrom' = Clean(mailFrom)
          /\ ledger' = [ledger EXCEPT ![Clean(mailFrom)] = @ + 1]
      BY <1>3 DEF Rcpt, StartDelivery
    <2>2. mailFrom = sender /\ sender \in Domains /\ Clean(sender) \in Domains
      BY <1>1, <1>3, CleanType DEF IInv, MailFromKept
    <2>3. ledger = [d \in Domains |-> 0]
      BY <1>3 DEF IInv, LedgerIsDelivery
    <2>4. ledger' = [d \in Domains |-> IF d = Clean(sender) THEN 1 ELSE 0]
      BY <2>1, <2>2, <2>3
    <2>5. LedgerIsDelivery' /\ mailFrom' = Clean(sender)' /\ mailFrom' \in Domains
      BY <1>1, <2>1, <2>2, <2>4 DEF LedgerIsDelivery, Clean, Domains
    <2> QED
      BY <1>1, <1>4, <2>1, <2>2, <2>5 DEF IInv, MailFromKept, DeliveryInTransaction
  <1> QED
    BY <1>2, <1>3

(* cleanSession releases the bucket the limits were taken from.            *)
LEMMA CleanStep ==
    ASSUME IInv, delivery, CleanSession, pc' = "idle", proto' # "mail",
           UNCHANGED <<endp, sender>>
    PROVE  IInv'
  <1>1. mailFrom = Clean(sender) /\ Clean(sender) \in Domains
    BY CleanType DEF IInv, MailFromKept
  <1>2. ledger' = [ledger EXCEPT ![Clean(sender)] = @ - 1] /\ delivery' = FALSE
    BY <1>1 DEF CleanSession, ReleaseLimits
  <1>3. ledger = [d \in Domains |-> IF d = Clean(sender) THEN 1 ELSE 0]
    BY DEF IInv, LedgerIsDelivery
  <1>4. ledger' = [d \in Domains |-> 0]
    BY <1>1, <1>2, <1>3
  <1>5. LedgerIsDelivery'
    BY <1>2, <1>4 DEF LedgerIsDelivery, Domains
  <1>6. mailFrom' = NoSender /\ mailFrom' \in Domains
    BY DEF CleanSession, Domains
  <1>7. OneSpelling'
    BY SameSpelling DEF IInv
  <1> QED
    BY <1>2, <1>5, <1>6, <1>7 DEF IInv, MailFromKept, DeliveryInTransaction, Domains

(* Reset and Logout abort the delivery, if there is one.                   *)
LEMMA AbortStep ==
    ASSUME IInv, Abort, pc = "idle", pc' = pc, UNCHANGED <<endp, sender, accepted>>,
           proto' \in {"idle", "closed"}
    PROVE  IInv'
  <1>1. CASE delivery
    BY <1>1, CleanStep DEF Abort
  <1>2. CASE ~delivery
    BY <1>2, SameLedger DEF Abort, sessVars
  <1> QED
    BY <1>1, <1>2

(* One step per action.                                                    *)
LEMMA Inductive == IInv /\ [Next]_vars => IInv'
  <1> SUFFICES ASSUME IInv, [Next]_vars PROVE IInv'
    OBVIOUS
  <1> USE DEF connVars, sessVars, handlerVars, protoVars, ghostVars
  <1>1. CASE AuthPlain
    BY <1>1, SameLedger DEF AuthPlain, IInv, DeliveryInTransaction
  <1>2. ASSUME NEW from \in Domains, Mail(from) PROVE IInv'
    BY <1>2, MailStep
  <1>3. ASSUME NEW r \in Rcpts, Rcpt(r) PROVE IInv'
    BY <1>3, RcptStep
  <1>4. CASE RcptRefused
    <2>1. UNCHANGED <<endp, mailFrom, delivery, sender, ledger, proto, pc, accepted>>
      BY <1>4 DEF RcptRefused, StartDelivery, unlessRcpt
    <2> QED
      BY <1>4, <2>1, SameLedger DEF IInv, DeliveryInTransaction
  <1>5. ASSUME NEW ok \in BOOLEAN, AddRcpt(ok) PROVE IInv'
    <2>1. pc = "rcpt" /\ pc' \in {"rcpt", "idle"}
      BY <1>5 DEF AddRcpt, RcptDone
    <2>2. UNCHANGED <<endp, mailFrom, delivery, sender, ledger, proto>>
      BY <1>5 DEF AddRcpt, unlessRcpt
    <2> QED
      BY <2>1, <2>2, SameLedger DEF IInv, DeliveryInTransaction
  <1>6. CASE Data
    <2>1. proto = "mail" /\ proto' = "reset"
      BY <1>6 DEF Data
    <2>2. UNCHANGED <<endp, mailFrom, delivery, sender, ledger, accepted>>
      BY <1>6 DEF Data, unlessData
    <2>3. delivery
      BY <1>6 DEF Data, IInv, DeliveryInTransaction
    <2> QED
      BY <2>1, <2>2, <2>3, SameLedger
  <1>8. ASSUME pc \in {"checks", "body", "close", "commit"},
               UNCHANGED <<unlessData, proto>>,
               pc' \in {"checks", "body", "close", "commit", "clean"}
        PROVE  IInv'
    BY <1>8, SameLedger DEF unlessData, IInv, DeliveryInTransaction
  <1>9. ASSUME NEW ok \in BOOLEAN, DataChecks(ok) PROVE IInv'
    BY <1>8, <1>9 DEF DataChecks, Fail
  <1>10. ASSUME NEW t \in Targets, DataBody(t) PROVE IInv'
    BY <1>8, <1>10 DEF DataBody, Fail
  <1>11. ASSUME NEW t \in Targets, NEW good, LmtpPartialBody(t, good) PROVE IInv'
    BY <1>8, <1>11 DEF LmtpPartialBody
  <1>12. ASSUME NEW t \in Targets, NEW ok \in BOOLEAN, LmtpBody(t, ok) PROVE IInv'
    BY <1>8, <1>12 DEF LmtpBody
  <1>13. ASSUME NEW t \in Targets, NEW ok \in BOOLEAN, Commit(t, ok) PROVE IInv'
    BY <1>8, <1>13 DEF Commit, Fail
  <1>14. CASE CommitBegin
    BY <1>8, <1>14 DEF CommitBegin
  <1>15. CASE CommitDone
    BY <1>8, <1>15 DEF CommitDone
  <1>16. CASE DataEnd
    <2>1. pc = "clean" /\ pc' = "idle" /\ CleanSession /\ UNCHANGED <<endp, sender, proto>>
      BY <1>16 DEF DataEnd
    <2> QED
      BY <2>1, CleanStep DEF IInv, DeliveryInTransaction
  <1>17. CASE Reset
    BY <1>17, AbortStep DEF Reset
  <1>18. CASE Logout
    BY <1>18, AbortStep DEF Logout
  <1>19. CASE UNCHANGED vars
    BY <1>19, SameLedger DEF vars, IInv, DeliveryInTransaction
  <1> QED
    BY <1>1, <1>2, <1>3, <1>4, <1>5, <1>6, <1>9, <1>10, <1>11, <1>12, <1>13,
       <1>14, <1>15, <1>16, <1>17, <1>18, <1>19 DEF Next

(***************************************************************************)
(* In every session with OneSpelling, whatever fails in the pipeline:      *)
(* between the handlers' steps it holds the limits of exactly one message  *)
(* for the clean domain of the MAIL argument while it has a delivery, and  *)
(* none otherwise, so ReleaseMsg never meets a bucket TakeMsg did not take.*)
(***************************************************************************)
THEOREM Balanced == Spec => []LimitsBalanced
  <1>1. IInv => LimitsBalanced
    BY DEF IInv, LedgerIsDelivery, LimitsBalanced
  <1>2. ~OneSpelling => LimitsBalanced
    BY DEF LimitsBalanced
  <1>3. endp' = endp \/ ~[Next]_vars
    BY DEF Next, vars, connVars, AuthPlain, Mail, Rcpt, RcptRefused, AddRcpt, Data,
           DataChecks, DataBody, LmtpBody, LmtpPartialBody, CommitBegin, Commit,
           CommitDone, DataEnd, Reset, Logout, unlessRcpt, unlessData
  <1>4. ~OneSpelling /\ [Next]_vars => ~OneSpelling'
    BY <1>3 DEF OneSpelling, Defer
  <1>5. IInv /\ [Next]_vars => IInv'
    BY Inductive
  <1> QED
    BY <1>1, <1>2, <1>4, <1>5, InitIInv, PTL DEF Spec

----------------------------------------------------------------------------
(* The types of the pipeline and of the session                            *)

Ops == {"global", "source", "rewrite", "block", "modify", "deliver"}

(* The calls AddRcpt makes: a delivery has a target.                       *)
Made == {c \in Calls : c.op = "deliver" => c.tgt \in Targets}

LEMMA CallType ==
    ASSUME NEW op \in Ops, NEW a \in Addrs, NEW t \in Targets \union {NoTarget},
           op = "deliver" => t \in Targets
    PROVE  /\ Call(op, a, t) \in Made
           /\ Call(op, a, t).op = op /\ Call(op, a, t).addr = a
           /\ Call(op, a, t).tgt = t
  BY DEF Call, Calls, Made, Ops

(* The calls of AddRcpt for an address and for what it is rewritten to.    *)
LEMMA AddRcptCallsType ==
    ASSUME NEW a \in Addrs
    PROVE  /\ AddRcptCalls(a) \in Seq(Made) /\ Len(AddRcptCalls(a)) = 3
           /\ AddRcptCalls(a) # <<>>
           /\ AddRcptCalls(a)[1] = Call("global", a, NoTarget)
           /\ AddRcptCalls(a)[2] = Call("source", a, NoTarget)
           /\ AddRcptCalls(a)[3] = Call("rewrite", a, NoTarget)
  <1>1. /\ Call("global", a, NoTarget) \in Made
        /\ Call("source", a, NoTarget) \in Made
        /\ Call("rewrite", a, NoTarget) \in Made
    BY CallType DEF Ops
  <1> QED
    BY <1>1 DEF AddRcptCalls

LEMMA BlockCallsType ==
    ASSUME NEW a \in Addrs
    PROVE  /\ BlockCalls(a) \in Seq(Made)
           /\ Len(BlockCalls(a)) = 2 * Len(Rewrite[a])
           /\ \A i \in 1 .. 2 * Len(Rewrite[a]) :
                \E k \in DOMAIN Rewrite[a] :
                    \/ BlockCalls(a)[i] = Call("block", Rewrite[a][k], NoTarget)
                    \/ BlockCalls(a)[i] = Call("modify", Rewrite[a][k], NoTarget)
  <1> DEFINE n == Len(Rewrite[a])
  <1>1. Rewrite[a] \in Seq(Addrs) /\ n \in Nat /\ DOMAIN Rewrite[a] = 1 .. n
    BY ConfigAssumption
  <1>2. ASSUME NEW i \in 1 .. 2 * n
        PROVE  \E k \in DOMAIN Rewrite[a] :
                   \/ BlockCalls(a)[i] = Call("block", Rewrite[a][k], NoTarget)
                   \/ BlockCalls(a)[i] = Call("modify", Rewrite[a][k], NoTarget)
    <2>1. (i + 1) \div 2 \in 1 .. n
      BY <1>1
    <2> QED
      BY <1>1, <2>1 DEF BlockCalls
  <1>3. \A i \in 1 .. 2 * n : BlockCalls(a)[i] \in Made
    <2> TAKE i \in 1 .. 2 * n
    <2>1. PICK k \in DOMAIN Rewrite[a] :
             \/ BlockCalls(a)[i] = Call("block", Rewrite[a][k], NoTarget)
             \/ BlockCalls(a)[i] = Call("modify", Rewrite[a][k], NoTarget)
      BY <1>2
    <2>2. Rewrite[a][k] \in Addrs
      BY <1>1
    <2> QED
      BY <2>1, <2>2, CallType DEF Ops
  <1>4. BlockCalls(a) = [i \in 1 .. 2 * n |-> BlockCalls(a)[i]]
    BY DEF BlockCalls
  <1>5. 2 * n \in Nat
    BY <1>1
  <1>6. BlockCalls(a) \in Seq(Made) /\ Len(BlockCalls(a)) = 2 * n
    BY <1>3, <1>4, <1>5
  <1> QED
    BY <1>2, <1>6

(* The pair of indices of a call and the call of a pair: the calls for an  *)
(* address go through the targets for each of the addresses it becomes.    *)
LEMMA Rows ==
    ASSUME NEW m \in Nat, NEW n \in Nat, NEW i \in 1 .. m * n
    PROVE  /\ 1 + ((i - 1) \div n) \in 1 .. m
           /\ 1 + ((i - 1) % n) \in 1 .. n
  <1>1. n > 0
    <2>1. CASE n = 0
      <3>1. m * n = 0
        BY <2>1
      <3> QED
        BY <3>1
    <2> QED
      BY <2>1
  <1> DEFINE q == (i - 1) \div n
             r == (i - 1) % n
  <1>2. /\ q \in Int /\ r \in Int /\ 0 <= r /\ r < n
        /\ i - 1 = n * q + r
    BY <1>1
  <1>3. i \in Int /\ 1 <= i /\ i <= m * n /\ m * n \in Int
    OBVIOUS
  <1> HIDE DEF q, r
  <1>4. q >= 0
    <2>1. CASE q <= -1
      <3>1. n * q <= n * (-1)
        BY <1>1, <1>2, <2>1
      <3>2. n * (-1) = -n
        OBVIOUS
      <3> QED
        BY <1>1, <1>2, <1>3, <3>1, <3>2
    <2> QED
      BY <1>2, <2>1
  <1>5. q < m
    <2>1. CASE q >= m
      <3>1. n * q >= n * m
        BY <1>1, <1>2, <2>1
      <3>2. n * m = m * n
        OBVIOUS
      <3> QED
        BY <1>1, <1>2, <1>3, <3>1, <3>2
    <2> QED
      BY <1>2, <2>1
  <1> QED
    BY <1>2, <1>4, <1>5 DEF q, r

Cell(l, n, i, j) == 1 + ((l - 1) \div n) = i /\ 1 + ((l - 1) % n) = j

LEMMA RowOf ==
    ASSUME NEW m \in Nat, NEW n \in Nat, NEW i \in 1 .. m, NEW j \in 1 .. n
    PROVE  \E l \in 1 .. m * n : Cell(l, n, i, j)
  <1> DEFINE p == n * (i - 1)
             l == p + j
             q == (l - 1) \div n
             r == (l - 1) % n
  <1>1. n > 0 /\ p \in Int /\ m * n \in Int
    OBVIOUS
  <1>2. 0 <= p /\ p <= n * (m - 1)
    <2>1. 0 <= i - 1 /\ i - 1 <= m - 1
      OBVIOUS
    <2> QED
      BY <1>1, <2>1
  <1>3. n * (m - 1) = m * n - n
    OBVIOUS
  <1>4. l \in 1 .. m * n
    BY <1>1, <1>2, <1>3
  <1>5. /\ q \in Int /\ r \in Int /\ 0 <= r /\ r < n
        /\ l - 1 = n * q + r
    BY <1>1, <1>4
  <1>6. n * q - n * (i - 1) = j - 1 - r
    BY <1>1, <1>5
  <1> HIDE DEF p, l, q, r
  <1>7. q = i - 1
    <2>1. CASE q >= i
      <3>1. n * q >= n * i
        BY <1>1, <1>5, <2>1
      <3>2. n * i = n * (i - 1) + n
        OBVIOUS
      <3> QED
        BY <1>1, <1>5, <1>6, <3>1, <3>2
    <2>2. CASE q <= i - 2
      <3>1. n * q <= n * (i - 2)
        BY <1>1, <1>5, <2>2
      <3>2. n * (i - 2) = n * (i - 1) - n
        OBVIOUS
      <3> QED
        BY <1>1, <1>5, <1>6, <3>1, <3>2
    <2> QED
      BY <1>5, <2>1, <2>2
  <1>8. r = j - 1
    BY <1>5, <1>6, <1>7
  <1> QED
    BY <1>4, <1>7, <1>8 DEF q, r, Cell

LEMMA DeliverCallsType ==
    ASSUME NEW a \in Addrs
    PROVE  LET to == BlockRewrite[a]
               tgts == TargetsOf[BlockOf[a]]
           IN  /\ DeliverCalls(a) \in Seq(Made)
               /\ \A l \in DOMAIN DeliverCalls(a) :
                    \E i \in DOMAIN to, j \in DOMAIN tgts :
                        DeliverCalls(a)[l] = Call("deliver", to[i], tgts[j])
               /\ \A i \in DOMAIN to, j \in DOMAIN tgts :
                    \E l \in DOMAIN DeliverCalls(a) :
                        DeliverCalls(a)[l] = Call("deliver", to[i], tgts[j])
  <1> DEFINE to == BlockRewrite[a]
             tgts == TargetsOf[BlockOf[a]]
             m == Len(to)
             n == Len(tgts)
             d == DeliverCalls(a)
  <1>1. to \in Seq(Addrs) /\ tgts \in Seq(Targets)
    BY ConfigAssumption
  <1>2. m \in Nat /\ n \in Nat /\ DOMAIN to = 1 .. m /\ DOMAIN tgts = 1 .. n
    BY <1>1
  <1>4. d = [l \in 1 .. m * n |-> Call("deliver", to[1 + ((l - 1) \div n)],
                                                  tgts[1 + ((l - 1) % n)])]
    BY DEF DeliverCalls
  <1> HIDE DEF to, tgts, m, n, d
  <1>3. m * n \in Nat
    BY <1>2
  <1>5. ASSUME NEW l \in 1 .. m * n
        PROVE  \E i \in DOMAIN to, j \in DOMAIN tgts : d[l] = Call("deliver", to[i], tgts[j])
    BY <1>2, <1>4, Rows
  <1>6. ASSUME NEW i \in DOMAIN to, NEW j \in DOMAIN tgts
        PROVE  \E l \in 1 .. m * n : d[l] = Call("deliver", to[i], tgts[j])
    <2>0. i \in 1 .. m /\ j \in 1 .. n
      BY <1>2
    <2>1. PICK l \in 1 .. m * n : Cell(l, n, i, j)
      BY <1>2, <2>0, RowOf
    <2> QED
      BY <1>4, <2>1 DEF Cell
  <1>7. \A l \in 1 .. m * n : d[l] \in Made
    <2> TAKE l \in 1 .. m * n
    <2>1. PICK i \in DOMAIN to, j \in DOMAIN tgts : d[l] = Call("deliver", to[i], tgts[j])
      BY <1>5
    <2>2. to[i] \in Addrs /\ tgts[j] \in Targets
      BY <1>1
    <2> QED
      BY <2>1, <2>2, CallType DEF Ops
  <1>8. d \in Seq(Made) /\ DOMAIN d = 1 .. m * n
    BY <1>3, <1>4, <1>7
  <1> QED
    BY <1>5, <1>6, <1>8, ZenonT(60) DEF to, tgts, d

LEMMA BlockCallsAll ==
    ASSUME NEW a \in Addrs, NEW k \in DOMAIN Rewrite[a]
    PROVE  /\ \E i \in DOMAIN BlockCalls(a) :
                 BlockCalls(a)[i] = Call("block", Rewrite[a][k], NoTarget)
           /\ \E i \in DOMAIN BlockCalls(a) :
                 BlockCalls(a)[i] = Call("modify", Rewrite[a][k], NoTarget)
  <1> DEFINE n == Len(Rewrite[a])
  <1>1. n \in Nat /\ DOMAIN Rewrite[a] = 1 .. n /\ k \in 1 .. n
    BY ConfigAssumption
  <1>2. /\ 2 * k - 1 \in 1 .. 2 * n /\ (2 * k - 1) % 2 = 1
        /\ ((2 * k - 1) + 1) \div 2 = k
    BY <1>1
  <1>3. /\ 2 * k \in 1 .. 2 * n /\ (2 * k) % 2 # 1
        /\ ((2 * k) + 1) \div 2 = k
    BY <1>1
  <1>4. DOMAIN BlockCalls(a) = 1 .. 2 * n
    BY DEF BlockCalls
  <1>5. BlockCalls(a)[2 * k - 1] = Call("block", Rewrite[a][k], NoTarget)
    BY <1>2 DEF BlockCalls
  <1>6. BlockCalls(a)[2 * k] = Call("modify", Rewrite[a][k], NoTarget)
    BY <1>3 DEF BlockCalls
  <1> QED
    BY <1>2, <1>3, <1>4, <1>5, <1>6

(* What is left to do after a call is a list of calls again.               *)
LEMMA ExpandType ==
    ASSUME NEW c \in Made
    PROVE  Expand(c) \in Seq(Made)
  <1>1. c.addr \in Addrs
    BY DEF Calls, Made
  <1> QED
    BY <1>1, BlockCallsType, DeliverCallsType DEF Expand

LEMMA LeftType ==
    ASSUME todo \in Seq(Made), todo # <<>>
    PROVE  /\ Head(todo) \in Made
           /\ Expand(Head(todo)) \o Tail(todo) \in Seq(Made)
  <1>1. Head(todo) \in Made /\ Tail(todo) \in Seq(Made)
    OBVIOUS
  <1>2. Expand(Head(todo)) \in Seq(Made)
    BY <1>1, ExpandType
  <1> QED
    BY <1>1, <1>2

-----------------------------------------------------------------------------
(* The steps of the pipeline keep its types.                               *)

LEMMA ForgetType ==
    ASSUME Forget, orphans' \subseteq Checks \union Groups \union Targets
    PROVE  PipeTypeOK'
  BY DEF Forget, PipeTypeOK, DelivStates

LEMMA CheckRcptType ==
    ASSUME PipeTypeOK, NEW cs \in SUBSET Checks, NEW a \in Addrs, NEW ok \in BOOLEAN,
           CheckRcpt(cs, a, ok), UNCHANGED unlessCheck
    PROVE  PipeTypeOK'
  <1>1. CASE Registered(cs, {a}) /\ checked' = checked \union {a}
             /\ quar' \in BOOLEAN /\ UNCHANGED closed
    <2>1. states' \subseteq Checks /\ checked' \subseteq Addrs
      BY <1>1 DEF Registered, PipeTypeOK
    <2>2. seen' \in [Checks -> SUBSET Addrs]
      BY <1>1 DEF Registered, PipeTypeOK
    <2> QED
      BY <1>1, <2>1, <2>2 DEF PipeTypeOK, unlessCheck, delivVars
  <1>2. CASE StatesFailed(cs)
    <2>1. seen' \in [Checks -> SUBSET Addrs]
      BY <1>2 DEF StatesFailed, PipeTypeOK
    <2>2. closed' \subseteq Checks \union Groups
      BY <1>2 DEF StatesFailed, CloseObjects, PipeTypeOK
    <2> QED
      BY <1>2, <2>1, <2>2 DEF StatesFailed, PipeTypeOK, unlessCheck, delivVars
  <1>3. ASSUME quar' \in {quar, quar \/ cs # {}} \/ UNCHANGED quar
        PROVE  quar' \in BOOLEAN
    BY <1>3 DEF PipeTypeOK
  <1> QED
    BY <1>1, <1>2, <1>3 DEF CheckRcpt

LEMMA MakeCallType ==
    ASSUME PipeTypeOK, cur \in Addrs, NEW c \in Made, NEW ok \in BOOLEAN,
           MakeCall(c, ok)
    PROVE  PipeTypeOK'
  <1>1. c.addr \in Addrs /\ BlockOf[c.addr] \in Blocks
        /\ BlockChecks[BlockOf[c.addr]] \in SUBSET Checks
        /\ GlobalChecks \in SUBSET Checks /\ SourceChecks \in SUBSET Checks
    BY ConfigAssumption DEF Calls, Made
  <1>2. CASE UNCHANGED pipeVars
    BY <1>2 DEF pipeVars, checkVars, delivVars, PipeTypeOK
  <1>3. CASE BlockModify(c.addr, ok)
    BY <1>1, <1>3 DEF BlockModify, unlessMod, checkVars, delivVars, CloseObjects,
                      PipeTypeOK, Groups
  <1>4. CASE c.op = "deliver" /\ Deliver(cur, c.addr, c.tgt, ok)
    <2>0. c.tgt \in Targets
      BY <1>4 DEF Made
    <2>1. orig' \in [Addrs -> Addrs]
      BY <1>1, <1>4 DEF Deliver, PipeTypeOK
    <2>2. /\ deliv' \in [Targets -> DelivStates]
          /\ took' \in [Targets -> SUBSET Addrs]
          /\ recips' \in [Targets -> SUBSET Addrs]
      BY <1>1, <1>4, <2>0 DEF Deliver, PipeTypeOK, DelivStates
    <2> QED
      BY <1>4, <2>1, <2>2 DEF Deliver, checkVars, PipeTypeOK
  <1> QED
    BY <1>1, <1>2, <1>3, <1>4, CheckRcptType DEF MakeCall, RcptBlock

LEMMA StartType ==
    ASSUME PipeTypeOK, StartOk \/ StartFailed
    PROVE  PipeTypeOK'
  <1>1. CASE StartOk
    <2>1. states' \subseteq Checks /\ mods' \subseteq Groups /\ quar' \in BOOLEAN
      BY <1>1, ConfigAssumption DEF StartOk, Groups
    <2> QED
      BY <1>1, <2>1 DEF StartOk, delivVars, PipeTypeOK
  <1>2. CASE StartFailed
    <2>1. orphans' \subseteq Checks \union Groups \union Targets
      BY <1>2 DEF StartFailed, PipeTypeOK, Groups
    <2> QED
      BY <1>2, <2>1 DEF StartFailed, checkVars, delivVars, PipeTypeOK
  <1> QED
    BY <1>1, <1>2

LEMMA BodyType ==
    ASSUME PipeTypeOK, NEW t \in Targets, NEW good \in SUBSET Addrs, NEW ok \in BOOLEAN,
           TargetBody(t, good, ok) \/ TargetCommit(t, ok)
    PROVE  PipeTypeOK'
  <1>1. deliv' \in [Targets -> DelivStates] /\ ready' \in [Targets -> SUBSET Addrs]
    BY DEF TargetBody, TargetCommit, PipeTypeOK, DelivStates
  <1> QED
    BY <1>1 DEF TargetBody, TargetCommit, unlessBody, PipeTypeOK

LEMMA BodyChecksType ==
    ASSUME PipeTypeOK, NEW atomic \in BOOLEAN, NEW ok \in BOOLEAN, BodyChecks(atomic, ok)
    PROVE  PipeTypeOK'
  <1>1. quar' \in BOOLEAN
    BY DEF BodyChecks, PipeTypeOK
  <1>2. flagged' \in BOOLEAN
    BY <1>1 DEF BodyChecks, PipeTypeOK
  <1> QED
    BY <1>1, <1>2 DEF BodyChecks, unlessBody, PipeTypeOK

(* TypeOK; the calls to make are AddRcpt's, for what a client gave.        *)
Typed == TypeOK /\ todo \in Seq(Made) /\ cur \in Rcpts

LEMMA InitTyped == Init => Typed
  <1> SUFFICES ASSUME Init PROVE Typed
    OBVIOUS
  <1>1. cur \in Addrs /\ cur \in Rcpts
    BY SessionAssumption DEF Init
  <1>2. PipeTypeOK
    BY DEF Init, PipeInit, NewPipe, PipeTypeOK, DelivStates
  <1>3. ledger \in [Domains -> Int] /\ msgNo \in 0 .. MaxMsgs
    BY SessionAssumption DEF Init
  <1>4. todo \in Seq(Calls) /\ todo \in Seq(Made)
    BY DEF Init
  <1>5. told \in [Addrs -> SUBSET {"ok", "err"}]
    BY DEF Init
  <1> QED
    BY <1>1, <1>2, <1>3, <1>4, <1>5 DEF Init, Typed, TypeOK, Domains

(* The types of the session without those of the pipeline.                 *)
SessionTyped ==
    /\ mailFrom \in Domains /\ source \in Domains /\ sender \in Domains
    /\ endp \in Endpoints /\ authUser \in BOOLEAN /\ delivery \in BOOLEAN
    /\ deliveryErr \in BOOLEAN /\ msgNo \in 0 .. MaxMsgs
    /\ pc \in {"idle", "rcpt", "checks", "body", "close", "commit", "clean"}
    /\ todo \in Seq(Made)
    /\ cur \in Rcpts
    /\ ans \in {"none", "ok", "err"}
    /\ ledger \in [Domains -> Int]
    /\ proto \in {"idle", "mail", "reset", "closed"}
    /\ accepted \subseteq Rcpts /\ given \subseteq Rcpts
    /\ told \in [Addrs -> SUBSET {"ok", "err"}]
    /\ dataFailed \in BOOLEAN

LEMMA TypedParts ==
    /\ Typed <=> PipeTypeOK /\ SessionTyped
    /\ Typed' <=> PipeTypeOK' /\ SessionTyped'
  <1>1. Seq(Made) \subseteq Seq(Calls)
    BY DEF Made
  <1> QED
    BY <1>1, SessionAssumption DEF Typed, TypeOK, SessionTyped

LEMMA StartDeliveryType ==
    ASSUME PipeTypeOK, SessionTyped, NEW from \in Domains, NEW left \in Domains,
           NEW ok \in BOOLEAN, StartDelivery(from, left, ok)
    PROVE  /\ PipeTypeOK'
           /\ delivery' \in BOOLEAN /\ mailFrom' \in Domains /\ source' \in Domains
           /\ ledger' \in [Domains -> Int]
  <1>1. CASE StartOk /\ delivery' = TRUE /\ mailFrom' = left /\ source' = Clean(from)
             /\ ledger' = [ledger EXCEPT ![Clean(from)] = @ + 1]
    <2>1. Clean(from) \in Domains
      BY CleanType
    <2>2. ledger' \in [Domains -> Int]
      BY <1>1, <2>1 DEF SessionTyped
    <2> QED
      BY <1>1, <2>1, <2>2, StartType
  <1>2. CASE StartFailed /\ UNCHANGED <<delivery, mailFrom, source, ledger>>
    BY <1>2, StartType DEF SessionTyped
  <1> QED
    BY <1>1, <1>2 DEF StartDelivery

LEMMA CleanSessionType ==
    ASSUME SessionTyped, CleanSession
    PROVE  /\ mailFrom' \in Domains /\ delivery' \in BOOLEAN /\ deliveryErr' \in BOOLEAN
           /\ ledger' \in [Domains -> Int]
  <1>1. ledger' \in [Domains -> Int]
    BY DEF SessionTyped, CleanSession, ReleaseLimits
  <1> QED
    BY <1>1 DEF CleanSession, Domains

LEMMA AbortType ==
    ASSUME PipeTypeOK, SessionTyped, Abort
    PROVE  /\ PipeTypeOK'
           /\ mailFrom' \in Domains /\ delivery' \in BOOLEAN /\ deliveryErr' \in BOOLEAN
           /\ ledger' \in [Domains -> Int]
  <1>1. CASE CleanSession /\ PipeAbort
    <2>1. orphans' \subseteq Checks \union Groups \union Targets
      BY <1>1 DEF PipeAbort, PipeTypeOK
    <2> QED
      BY <1>1, <2>1, ForgetType, CleanSessionType DEF PipeAbort
  <1>2. CASE UNCHANGED <<sessVars, ledger, pipeVars>>
    BY <1>2 DEF sessVars, pipeVars, checkVars, delivVars, PipeTypeOK, SessionTyped
  <1> QED
    BY <1>1, <1>2 DEF Abort

(* The fields only MAIL and RCPT write.                                    *)
LEMMA SameSession ==
    ASSUME SessionTyped, UNCHANGED <<connVars, sessVars, source, sender, msgNo, ledger>>,
           UNCHANGED <<accepted, given, todo, cur>>,
           pc' \in {"idle", "rcpt", "checks", "body", "close", "commit", "clean"},
           ans' \in {"none", "ok", "err"},
           proto' \in {"idle", "mail", "reset", "closed"},
           told' \in [Addrs -> SUBSET {"ok", "err"}], dataFailed' \in BOOLEAN
    PROVE  SessionTyped'
  BY DEF SessionTyped, connVars, sessVars

LEMMA SetStatusType ==
    ASSUME SessionTyped, NEW bad, NEW good, SetStatus(bad, good)
    PROVE  told' \in [Addrs -> SUBSET {"ok", "err"}]
  BY DEF SessionTyped, SetStatus

LEMMA MailType ==
    ASSUME PipeTypeOK, SessionTyped, NEW from \in Domains, Mail(from)
    PROVE  PipeTypeOK' /\ SessionTyped'
  <1>1. /\ PipeTypeOK'
        /\ delivery' \in BOOLEAN /\ mailFrom' \in Domains /\ source' \in Domains
        /\ ledger' \in [Domains -> Int]
    <2>1. CASE mailFrom' = from /\ UNCHANGED <<delivery, source, ledger, pipeVars>>
      BY <2>1 DEF pipeVars, checkVars, delivVars, PipeTypeOK, SessionTyped
    <2> QED
      BY <2>1, StartDeliveryType DEF Mail
  <1>2. msgNo' \in 0 .. MaxMsgs
    BY SessionAssumption DEF Mail, SessionTyped
  <1>3. /\ sender' = from /\ given' = {} /\ accepted' = {} /\ told' = [a \in Addrs |-> {}]
        /\ ans' \in {"ok", "err"} /\ (proto' = "mail" \/ UNCHANGED proto)
        /\ UNCHANGED <<connVars, deliveryErr, handlerVars, dataFailed>>
    BY DEF Mail
  <1> QED
    BY <1>1, <1>2, <1>3 DEF SessionTyped, connVars, handlerVars

LEMMA RcptType ==
    ASSUME PipeTypeOK, SessionTyped, NEW r \in Rcpts, Rcpt(r)
    PROVE  PipeTypeOK' /\ SessionTyped'
  <1>1. /\ PipeTypeOK'
        /\ delivery' \in BOOLEAN /\ mailFrom' \in Domains /\ source' \in Domains
        /\ ledger' \in [Domains -> Int]
    <2>1. CASE UNCHANGED <<delivery, mailFrom, source, ledger, pipeVars>>
      BY <2>1 DEF pipeVars, checkVars, delivVars, PipeTypeOK, SessionTyped
    <2>2. mailFrom \in Domains /\ Clean(mailFrom) \in Domains
      BY CleanType DEF SessionTyped
    <2> QED
      BY <2>1, <2>2, StartDeliveryType DEF Rcpt
  <1>2. /\ pc' = "rcpt" \/ UNCHANGED pc
        /\ cur' \in Rcpts /\ todo' \in Seq(Made) /\ given' \subseteq Rcpts
        /\ ans' \in {"none", "ok", "err"}
    BY SessionAssumption, AddRcptCallsType DEF Rcpt, SessionTyped, handlerVars
  <1> QED
    BY <1>1, <1>2 DEF Rcpt, SessionTyped, connVars, unlessRcpt

LEMMA AddRcptType ==
    ASSUME PipeTypeOK, SessionTyped, NEW ok \in BOOLEAN, AddRcpt(ok)
    PROVE  PipeTypeOK' /\ SessionTyped'
  <1>1. /\ Head(todo) \in Made
        /\ Expand(Head(todo)) \o Tail(todo) \in Seq(Made)
    BY LeftType DEF AddRcpt, SessionTyped
  <1>2. PipeTypeOK'
    BY <1>1, SessionAssumption, MakeCallType DEF AddRcpt, SessionTyped
  <1>3. pc' \in {"idle", "rcpt"} /\ todo' \in Seq(Made) /\ ans' \in {"none", "ok", "err"}
    <2>1. CASE RcptDone(IF ok THEN "ok" ELSE "err")
      BY <2>1 DEF RcptDone
    <2>2. CASE ok /\ todo' = Expand(Head(todo)) \o Tail(todo) /\ UNCHANGED <<pc, ans>>
      BY <1>1, <2>2 DEF AddRcpt, SessionTyped
    <2> QED
      BY <2>1, <2>2 DEF AddRcpt
  <1>4. accepted' \subseteq Rcpts
    BY DEF AddRcpt, RcptDone, SessionTyped
  <1> QED
    BY <1>2, <1>3, <1>4 DEF AddRcpt, SessionTyped, connVars, sessVars, unlessRcpt

LEMMA DataType ==
    ASSUME PipeTypeOK, SessionTyped, Data
    PROVE  PipeTypeOK' /\ SessionTyped'
  <1>1. PipeTypeOK'
    BY DEF Data, pipeVars, checkVars, delivVars, PipeTypeOK
  <1>2. told' \in [Addrs -> SUBSET {"ok", "err"}]
    BY SetStatusType DEF Data, SessionTyped
  <1>3. /\ pc' \in {"idle", "clean", "checks"} /\ ans' \in {"none", "ok", "err"}
        /\ dataFailed' \in BOOLEAN
    BY DEF Data, Fail, SessionTyped
  <1> QED
    BY <1>1, <1>2, <1>3, SameSession DEF Data, unlessData

(* The steps between the body and the end of DATA.                         *)
LEMMA DataStepsType ==
    ASSUME PipeTypeOK, SessionTyped, NEW t, NEW ok \in BOOLEAN, NEW good \in SUBSET took[t],
           \/ /\ t \in Targets
              /\ DataBody(t) \/ LmtpBody(t, ok) \/ LmtpPartialBody(t, good) \/ Commit(t, ok)
           \/ DataChecks(ok) \/ CommitBegin \/ CommitDone
    PROVE  PipeTypeOK' /\ SessionTyped'
  <1>0. t \in Targets => took[t] \subseteq Addrs /\ good \subseteq Addrs /\ {} \subseteq Addrs
    BY DEF PipeTypeOK
  <1>1. PipeTypeOK'
    <2>1. CASE DataChecks(ok)
      BY <2>1, BodyChecksType DEF DataChecks
    <2>2. CASE t \in Targets /\ DataBody(t)
      BY <1>0, <2>2, BodyType DEF DataBody
    <2>3. CASE t \in Targets /\ LmtpBody(t, ok)
      BY <1>0, <2>3, BodyType DEF LmtpBody
    <2>4. CASE t \in Targets /\ LmtpPartialBody(t, good)
      BY <1>0, <2>4, BodyType DEF LmtpPartialBody
    <2>5. CASE CommitBegin
      BY <2>5 DEF CommitBegin, PipeClose, CloseObjects, checkVars, delivVars, PipeTypeOK
    <2>6. CASE t \in Targets /\ Commit(t, ok)
      BY <1>0, <2>6, BodyType DEF Commit
    <2>7. CASE CommitDone
      BY <2>7 DEF CommitDone, pipeVars, checkVars, delivVars, PipeTypeOK
    <2> QED
      BY <2>1, <2>2, <2>3, <2>4, <2>5, <2>6, <2>7
  <1>2. told' \in [Addrs -> SUBSET {"ok", "err"}]
    <2>1. CASE UNCHANGED told
      BY <2>1 DEF SessionTyped
    <2>2. CASE \E bad, set : SetStatus(bad, set)
      BY <2>2, SetStatusType
    <2> QED
      BY <2>1, <2>2 DEF DataChecks, DataBody, LmtpBody, LmtpPartialBody, CommitBegin, Commit,
                        CommitDone
  <1>3. /\ pc' \in {"body", "close", "commit", "clean"} /\ ans' \in {"none", "ok", "err"}
        /\ dataFailed' \in BOOLEAN
    BY DEF DataChecks, DataBody, LmtpBody, LmtpPartialBody, CommitBegin, Commit,
           CommitDone, Fail, SessionTyped
  <1>4. UNCHANGED <<unlessData, proto>>
    BY DEF DataChecks, DataBody, LmtpBody, LmtpPartialBody, CommitBegin, Commit, CommitDone
  <1> QED
    BY <1>1, <1>2, <1>3, <1>4, SameSession DEF unlessData, SessionTyped

LEMMA EndType ==
    ASSUME PipeTypeOK, SessionTyped, DataEnd \/ Reset \/ Logout
    PROVE  PipeTypeOK' /\ SessionTyped'
  <1>1. CASE DataEnd
    <2>1. orphans' \subseteq Checks \union Groups \union Targets
      BY <1>1 DEF DataEnd, PipeDrop, PipeTypeOK
    <2>2. PipeTypeOK'
      BY <1>1, <2>1, ForgetType DEF DataEnd, PipeDrop
    <2> QED
      BY <1>1, <2>2, CleanSessionType DEF DataEnd, SessionTyped, connVars, protoVars, ghostVars
  <1>2. CASE Reset \/ Logout
    BY <1>2, AbortType DEF Reset, Logout, SessionTyped, connVars, handlerVars, ghostVars
  <1> QED
    BY <1>1, <1>2

LEMMA TypedStep == Typed /\ [Next]_vars => Typed'
  <1> SUFFICES ASSUME PipeTypeOK, SessionTyped, [Next]_vars PROVE PipeTypeOK' /\ SessionTyped'
    BY TypedParts
  <1>1. CASE AuthPlain
    BY <1>1 DEF AuthPlain, pipeVars, checkVars, delivVars, sessVars, handlerVars, protoVars,
                ghostVars, PipeTypeOK, SessionTyped
  <1>2. CASE RcptRefused
    <2>1. CASE deliveryErr /\ UNCHANGED <<sessVars, source, ledger, pipeVars>>
      BY <1>2, <2>1 DEF RcptRefused, pipeVars, checkVars, delivVars, sessVars, handlerVars,
                        connVars, unlessRcpt, PipeTypeOK, SessionTyped
    <2>2. CASE StartDelivery(mailFrom, mailFrom, FALSE) /\ deliveryErr' = TRUE
      BY <1>2, <2>2, StartDeliveryType
         DEF RcptRefused, handlerVars, connVars, unlessRcpt, SessionTyped
    <2> QED
      BY <1>2, <2>1, <2>2 DEF RcptRefused
  <1>3. CASE UNCHANGED vars
    BY <1>3 DEF vars, pipeVars, checkVars, delivVars, connVars, sessVars, handlerVars,
                protoVars, ghostVars, PipeTypeOK, SessionTyped
  <1>4. ASSUME NEW ok \in BOOLEAN, DataChecks(ok) \/ CommitBegin \/ CommitDone
        PROVE  PipeTypeOK' /\ SessionTyped'
    <2>1. {} \in SUBSET took[NoTarget]
      OBVIOUS
    <2> QED
      BY <1>4, <2>1, DataStepsType
  <1> QED
    BY <1>1, <1>2, <1>3, <1>4, MailType, RcptType, AddRcptType, DataType, DataStepsType, EndType
       DEF Next

-----------------------------------------------------------------------------
(* Transactions do not mix                                                 *)

(* Between transactions there is no message, and the argument of MAIL is   *)
(* kept for the delivery that RCPT starts; who is in hand at RCPT, or      *)
(* accepted, was given in this transaction.                                *)
Apart ==
    /\ DeliveryInTransaction
    /\ DeliveryOfThisTransaction
    /\ proto = "mail" /\ ~delivery => mailFrom = sender
    /\ ~delivery => NewPipe
    /\ pc = "rcpt" => cur \in given
    /\ accepted \subseteq given

(* What one call of AddRcpt may do to the message: nothing is taken back.  *)
LEMMA MakeCallGrows ==
    ASSUME PipeTypeOK, NEW c \in Made, NEW ok \in BOOLEAN, MakeCall(c, ok)
    PROVE  /\ states \subseteq states'
           /\ \A ch \in Checks : seen[ch] \subseteq seen'[ch]
           /\ \A t \in Targets : took[t] \subseteq took'[t] /\ recips[t] \subseteq recips'[t]
           /\ \A t \in Targets : recips'[t] \subseteq recips[t] \union {cur}
           /\ \A t \in Targets : deliv'[t] \in {deliv[t], "open"}
           /\ UNCHANGED <<ready, orphans, flagged>>
  <1>1. ASSUME NEW cs, NEW a, CheckRcpt(cs, a, ok), UNCHANGED unlessCheck
        PROVE  /\ states \subseteq states'
               /\ \A ch \in Checks : seen[ch] \subseteq seen'[ch]
               /\ UNCHANGED <<delivVars, orphans, flagged>>
    <2>1. CASE Registered(cs, {a})
      BY <1>1, <2>1 DEF Registered, unlessCheck
    <2>2. CASE StatesFailed(cs)
      BY <1>1, <2>2 DEF StatesFailed, unlessCheck
    <2> QED
      BY <1>1, <2>1, <2>2 DEF CheckRcpt
  <1>2. CASE /\ states \subseteq states'
             /\ \A ch \in Checks : seen[ch] \subseteq seen'[ch]
             /\ UNCHANGED <<delivVars, orphans, flagged>>
    BY <1>2 DEF delivVars
  <1>3. CASE UNCHANGED pipeVars
    BY <1>3 DEF pipeVars, checkVars, delivVars
  <1>4. CASE BlockModify(c.addr, ok)
    BY <1>4 DEF BlockModify, unlessMod, checkVars, delivVars
  <1>5. CASE c.op = "deliver" /\ Deliver(cur, c.addr, c.tgt, ok)
    BY <1>5 DEF Deliver, checkVars, PipeTypeOK
  <1> QED
    BY <1>1, <1>2, <1>3, <1>4, <1>5 DEF MakeCall, RcptBlock

LEMMA InitApart == Init => Apart
  BY DEF Init, PipeInit, Apart, DeliveryInTransaction, DeliveryOfThisTransaction

(* A message that was just begun has no recipients.                        *)
LEMMA NewHasNone ==
    ASSUME NewPipe, UNCHANGED recips
    PROVE  \A t \in Targets : recips'[t] \subseteq given'
  BY DEF NewPipe

LEMMA MailApart ==
    ASSUME Typed, Apart, NEW from \in Domains, Mail(from)
    PROVE  Apart'
  <1>1. ~delivery /\ pc = "idle" /\ proto = "idle" /\ NewPipe
    BY DEF Mail, Apart, DeliveryInTransaction
  <1>2. /\ sender' = from /\ given' = {} /\ accepted' = {} /\ pc' = "idle"
    BY <1>1 DEF Mail, handlerVars
  <1>3. CASE ~delivery' /\ UNCHANGED pipeVars /\ mailFrom' = from
    <2>1. NewPipe'
      BY <1>1, <1>3 DEF NewPipe, pipeVars, checkVars, delivVars
    <2> QED
      BY <1>2, <1>3, <2>1 DEF Apart, DeliveryInTransaction, DeliveryOfThisTransaction
  <1>4. CASE ~delivery' /\ StartFailed /\ proto' = proto
    <2>1. NewPipe'
      BY <1>1, <1>4 DEF NewPipe, StartFailed, checkVars, delivVars
    <2> QED
      BY <1>1, <1>2, <1>4, <2>1 DEF Apart, DeliveryInTransaction, DeliveryOfThisTransaction
  <1>5. CASE delivery' /\ StartOk /\ source' = Clean(from) /\ proto' = "mail"
    <2>1. \A t \in Targets : recips'[t] \subseteq given'
      BY <1>1, <1>5, NewHasNone DEF StartOk, delivVars
    <2> QED
      BY <1>2, <1>5, <2>1 DEF Apart, DeliveryInTransaction, DeliveryOfThisTransaction, Clean
  <1> QED
    BY <1>1, <1>3, <1>4, <1>5 DEF Mail, StartDelivery

LEMMA RcptApart ==
    ASSUME Typed, Apart, NEW r \in Rcpts, Rcpt(r)
    PROVE  Apart'
  <1>1. /\ pc = "idle" /\ proto = "mail" /\ proto' = proto /\ sender' = sender
        /\ accepted' = accepted
    BY DEF Rcpt, unlessRcpt
  <1>2. /\ pc' = "rcpt" => cur' \in given'
        /\ pc' \in {"idle", "rcpt"}
        /\ given \subseteq given'
    BY <1>1 DEF Rcpt, handlerVars
  <1>3. delivery' /\ source' = Clean(sender)
    BY <1>1 DEF Rcpt, StartDelivery, Apart, DeliveryOfThisTransaction
  <1>4. \A t \in Targets : recips'[t] \subseteq given'
    <2>1. CASE delivery /\ UNCHANGED pipeVars
      BY <1>2, <2>1 DEF Apart, DeliveryOfThisTransaction, pipeVars, delivVars
    <2>2. CASE ~delivery /\ StartOk
      BY <2>2, NewHasNone DEF Apart, StartOk, delivVars
    <2> QED
      BY <2>1, <2>2 DEF Rcpt, StartDelivery
  <1> QED
    BY <1>1, <1>2, <1>3, <1>4
       DEF Apart, DeliveryInTransaction, DeliveryOfThisTransaction, Clean

LEMMA RcptRefusedApart ==
    ASSUME Apart, RcptRefused
    PROVE  Apart'
  <1>1. UNCHANGED <<pc, todo, cur, mailFrom, delivery, sender, source, given, accepted, proto>>
    BY DEF RcptRefused, StartDelivery, unlessRcpt, handlerVars, sessVars
  <1>2. ~delivery /\ NewPipe /\ pc = "idle"
    BY DEF RcptRefused, Apart
  <1>3. NewPipe'
    BY <1>2 DEF RcptRefused, StartDelivery, StartFailed, NewPipe, pipeVars, checkVars, delivVars
  <1> QED
    BY <1>1, <1>2, <1>3 DEF Apart, DeliveryInTransaction, DeliveryOfThisTransaction, Clean

LEMMA AddRcptApart ==
    ASSUME Typed, Apart, NEW ok \in BOOLEAN, AddRcpt(ok)
    PROVE  Apart'
  <1>1. pc = "rcpt" /\ cur \in given /\ delivery
    BY DEF AddRcpt, Apart, DeliveryInTransaction
  <1>2. /\ UNCHANGED <<cur, mailFrom, delivery, source, given, proto, sender>>
        /\ pc' \in {"rcpt", "idle"} /\ accepted' \subseteq given'
    BY <1>1 DEF AddRcpt, RcptDone, sessVars, unlessRcpt, Apart
  <1>3. Head(todo) \in Made /\ PipeTypeOK
    BY LeftType DEF AddRcpt, Typed, TypeOK
  <1>4. \A t \in Targets : recips'[t] \subseteq recips[t] \union {cur}
    BY <1>3, MakeCallGrows DEF AddRcpt
  <1>5. \A t \in Targets : recips'[t] \subseteq given'
    BY <1>1, <1>2, <1>4 DEF Apart, DeliveryOfThisTransaction
  <1> QED
    BY <1>1, <1>2, <1>5 DEF Apart, DeliveryInTransaction, DeliveryOfThisTransaction, Clean

(* DATA up to its end.                                                     *)
DataSteps ==
    \/ Data \/ CommitBegin \/ CommitDone
    \/ \E ok \in BOOLEAN : DataChecks(ok)
    \/ \E t \in Targets :
         \/ DataBody(t)
         \/ \E good \in SUBSET took[t] : LmtpPartialBody(t, good)
         \/ \E ok \in BOOLEAN : LmtpBody(t, ok) \/ Commit(t, ok)

LEMMA DataKeeps ==
    ASSUME Apart, DataSteps
    PROVE  /\ delivery /\ UNCHANGED <<unlessData, took, recips, orig, seen, states>>
           /\ proto' = "reset" \/ UNCHANGED proto
           /\ pc' # "rcpt" /\ (pc' # "idle" => proto' # "mail")
           /\ endp' = endp
  <1>1. delivery
    BY DEF Apart, DeliveryInTransaction, DataSteps, Data, CommitBegin, CommitDone, DataChecks,
           DataBody, LmtpPartialBody, LmtpBody, Commit
  <1>2. UNCHANGED <<unlessData, took, recips, orig, seen, states>>
    BY DEF DataSteps, Data, CommitBegin, CommitDone, DataChecks, DataBody, LmtpPartialBody,
           LmtpBody, Commit, PipeClose, BodyChecks, TargetBody, TargetCommit, unlessBody,
           pipeVars, checkVars, delivVars
  <1>3. pc' # "rcpt" /\ (pc' # "idle" => proto' # "mail")
    BY DEF Apart, DeliveryInTransaction, DataSteps, Data, CommitBegin, CommitDone, DataChecks,
           DataBody, LmtpPartialBody, LmtpBody, Commit, Fail
  <1>4. proto' = "reset" \/ UNCHANGED proto
    BY DEF DataSteps, Data, CommitBegin, CommitDone, DataChecks,
           DataBody, LmtpPartialBody, LmtpBody, Commit
  <1> QED
    BY <1>1, <1>2, <1>3, <1>4 DEF unlessData, connVars

LEMMA DataApart ==
    ASSUME Apart, DataSteps
    PROVE  Apart'
  BY DataKeeps DEF Apart, DeliveryInTransaction, DeliveryOfThisTransaction, Clean,
                   unlessData, sessVars

LEMMA EndApart ==
    ASSUME Apart, DataEnd \/ Reset \/ Logout
    PROVE  Apart'
  <1>1. pc' = "idle" /\ accepted' \subseteq given' /\ proto' # "mail"
    BY DEF DataEnd, Reset, Logout, handlerVars, protoVars, ghostVars, Apart, DeliveryInTransaction
  <1>2. ~delivery' /\ NewPipe'
    <2>1. CASE CleanSession /\ Forget
      BY <2>1 DEF CleanSession, Forget, NewPipe
    <2>2. CASE ~delivery /\ UNCHANGED <<sessVars, pipeVars>>
      BY <2>2 DEF Apart, sessVars, pipeVars, checkVars, delivVars, NewPipe
    <2> QED
      BY <2>1, <2>2 DEF DataEnd, Reset, Logout, Abort, PipeAbort, PipeDrop
  <1> QED
    BY <1>1, <1>2 DEF Apart, DeliveryInTransaction, DeliveryOfThisTransaction

LEMMA ApartStep == Typed /\ Apart /\ [Next]_vars => Apart'
  <1> SUFFICES ASSUME Typed, Apart, [Next]_vars PROVE Apart'
    OBVIOUS
  <1>1. CASE AuthPlain \/ UNCHANGED vars
    BY <1>1 DEF AuthPlain, vars, pipeVars, checkVars, delivVars, sessVars, handlerVars,
                protoVars, ghostVars, Apart, DeliveryInTransaction, DeliveryOfThisTransaction,
                NewPipe, Clean
  <1>2. CASE DataSteps
    BY <1>2, DataApart
  <1> QED
    BY <1>1, <1>2, MailApart, RcptApart, RcptRefusedApart, AddRcptApart, EndApart
       DEF Next, DataSteps

-----------------------------------------------------------------------------
(* The stages of a message                                                 *)

Before(stage) == CASE stage \in {"idle", "rcpt", "checks"} -> {"none", "open"}
                   [] stage \in {"body", "close"} -> {"none", "open", "bodied", "failed"}
                   [] stage = "commit" -> DelivStates \ {"commitErr"}
                   [] OTHER -> DelivStates

(* How far the deliveries are at each stage of DATA: none is committed     *)
(* before Commit, which closes the states first, and a DATA that has not   *)
(* failed leaves nothing open.  From the body on the quarantine flag of    *)
(* the message is set when a check asked for it.                           *)
Staged ==
    /\ \A t \in Targets : deliv[t] \in Before(pc)
    /\ pc = "close" => LMTP
    /\ pc = "commit" => states \union mods \subseteq closed
    /\ pc = "clean" => dataFailed \/ (Uncommitted = {} /\ states \union mods \subseteq closed)
    /\ ~LMTP /\ pc \in {"body", "commit"} /\ quar => flagged
    /\ RefusedNotCommitted /\ QuarantineKept /\ RolledBack

LEMMA InitStaged == Init => Staged
  BY DEF Init, PipeInit, NewPipe, Staged, Before, RefusedNotCommitted, QuarantineKept, RolledBack

(* Up to DATA there is nothing to say but of the deliveries and orphans.   *)
LEMMA EarlyStaged ==
    ASSUME pc' \in {"idle", "rcpt", "checks"}, \A t \in Targets : deliv'[t] \in {"none", "open"},
           RolledBack'
    PROVE  Staged'
  BY DEF Staged, Before, RefusedNotCommitted, QuarantineKept

(* No delivery has got the body.                                           *)
LEMMA EarlyDeliv ==
    ASSUME Staged, pc \in {"idle", "rcpt", "checks"}
    PROVE  \A t \in Targets : deliv[t] \in {"none", "open"}
  BY DEF Staged, Before

LEMMA StartRolledBack ==
    ASSUME RolledBack, UNCHANGED dataFailed,
           UNCHANGED orphans \/ orphans' = orphans \union {"source"}
    PROVE  RolledBack'
  BY DEF RolledBack

LEMMA CommandStaged ==
    ASSUME Typed, Apart, Staged,
           \/ AuthPlain \/ RcptRefused \/ UNCHANGED vars
           \/ \E from \in Domains : Mail(from)
           \/ \E r \in Rcpts : Rcpt(r)
    PROVE  Staged'
  <1>1. CASE UNCHANGED vars
    BY <1>1 DEF vars, pipeVars, checkVars, delivVars, connVars, handlerVars, ghostVars, Staged,
                RefusedNotCommitted, QuarantineKept, RolledBack, Uncommitted, LMTP
  <1>2. CASE ~ UNCHANGED vars
    <2>1. pc = "idle" /\ pc' \in {"idle", "rcpt"} /\ UNCHANGED dataFailed
      BY <1>2 DEF AuthPlain, RcptRefused, Mail, Rcpt, handlerVars, unlessRcpt, ghostVars
    <2>2. /\ UNCHANGED deliv
          /\ UNCHANGED orphans \/ orphans' = orphans \union {"source"}
      BY <1>2 DEF AuthPlain, RcptRefused, Mail, Rcpt, StartDelivery, StartOk, StartFailed,
                  pipeVars, delivVars
    <2>3. RolledBack'
      BY <2>1, <2>2, StartRolledBack DEF Staged
    <2> QED
      BY <2>1, <2>2, <2>3, EarlyDeliv, EarlyStaged
  <1> QED
    BY <1>1, <1>2

LEMMA AddRcptStaged ==
    ASSUME Typed, Staged, NEW ok \in BOOLEAN, AddRcpt(ok)
    PROVE  Staged'
  <1>1. pc = "rcpt" /\ pc' \in {"idle", "rcpt"} /\ UNCHANGED dataFailed
    BY DEF AddRcpt, RcptDone, unlessRcpt
  <1>2. Head(todo) \in Made /\ PipeTypeOK
    BY LeftType DEF AddRcpt, Typed, TypeOK
  <1>3. UNCHANGED orphans /\ \A t \in Targets : deliv'[t] \in {deliv[t], "open"}
    BY <1>2, MakeCallGrows DEF AddRcpt
  <1>4. RolledBack'
    BY <1>1, <1>3, StartRolledBack DEF Staged
  <1> QED
    BY <1>1, <1>3, <1>4, EarlyDeliv, EarlyStaged

LEMMA DataStaged ==
    ASSUME Typed, Apart, Staged, DataSteps
    PROVE  Staged'
  <1>0. /\ UNCHANGED <<states, endp>> /\ (LMTP' <=> LMTP)
        /\ PipeTypeOK
    BY DataKeeps DEF LMTP, Typed, TypeOK
  <1>1. UNCHANGED orphans /\ (dataFailed => dataFailed')
    <2>1. UNCHANGED orphans
      BY DEF DataSteps, Data, CommitBegin, CommitDone, DataChecks, DataBody, LmtpPartialBody,
             LmtpBody, Commit, PipeClose, BodyChecks, TargetBody, TargetCommit, unlessBody,
             pipeVars
    <2>2. dataFailed' = TRUE \/ UNCHANGED dataFailed
      BY DEF DataSteps, Data, CommitBegin, CommitDone, DataChecks, DataBody, LmtpPartialBody,
             LmtpBody, Commit, Fail
    <2> QED
      BY <2>1, <2>2
  <1>2. RolledBack'
    BY <1>1 DEF Staged, RolledBack
  <1>3. CASE Data
    <2>1. pc = "idle" /\ UNCHANGED pipeVars /\ pc' \in {"idle", "checks", "clean"}
      BY <1>3 DEF Data, Fail
    <2>2. (\A t \in Targets : deliv'[t] \in {"none", "open"}) /\ (pc' = "clean" => dataFailed')
      BY <1>3, <2>1, EarlyDeliv DEF Data, Fail, pipeVars, delivVars
    <2> QED
      BY <1>2, <2>1, <2>2
         DEF Staged, Before, DelivStates, RefusedNotCommitted, QuarantineKept
  <1>4. ASSUME NEW ok \in BOOLEAN, DataChecks(ok) PROVE Staged'
    <2>1. /\ pc = "checks" /\ UNCHANGED deliv /\ pc' \in {"body", "close", "clean"}
          /\ pc' = "clean" => dataFailed'
          /\ pc' = "close" => LMTP
      BY <1>4 DEF DataChecks, BodyChecks, Fail
    <2>2. \A t \in Targets : deliv'[t] \in {"none", "open"}
      BY <2>1, EarlyDeliv
    <2>3. ~LMTP /\ pc' = "body" /\ quar' => flagged'
      BY <1>4 DEF DataChecks, BodyChecks, Fail
    <2> QED
      BY <1>0, <1>2, <2>1, <2>2, <2>3
         DEF Staged, Before, DelivStates, RefusedNotCommitted, QuarantineKept
  <1>5. ASSUME NEW t \in Targets, NEW good, NEW ok \in BOOLEAN,
               DataBody(t) \/ LmtpPartialBody(t, good) \/ LmtpBody(t, ok)
        PROVE  Staged'
    <2>1. /\ pc = "body" /\ pc' \in {"body", "clean"} /\ UNCHANGED <<quar, flagged>>
          /\ pc' = "clean" => dataFailed'
      BY <1>5 DEF DataBody, LmtpPartialBody, LmtpBody, TargetBody, Fail
    <2>2. \A u \in Targets : deliv'[u] \in {deliv[u], "bodied", "failed"}
      BY <1>0, <1>5 DEF DataBody, LmtpPartialBody, LmtpBody, TargetBody, PipeTypeOK
    <2>3. \A u \in Targets : deliv[u] \in {"none", "open", "bodied", "failed"}
      BY <2>1 DEF Staged, Before
    <2> QED
      BY <1>0, <1>2, <2>1, <2>2, <2>3
         DEF Staged, Before, DelivStates, RefusedNotCommitted, QuarantineKept
  <1>6. CASE CommitBegin
    <2>1. /\ pc \in {"body", "close"} /\ pc' = "commit" /\ UNCHANGED <<deliv, quar, flagged>>
          /\ (states \union mods \subseteq closed)'
      BY <1>6 DEF CommitBegin, PipeClose, CloseObjects, checkVars, delivVars
    <2>2. \A u \in Targets : deliv[u] \in {"none", "open", "bodied", "failed"}
      BY <2>1 DEF Staged, Before
    <2>3. ~LMTP => pc = "body"
      BY <2>1 DEF Staged
    <2> QED
      BY <1>0, <1>2, <2>1, <2>2, <2>3
         DEF Staged, Before, DelivStates, RefusedNotCommitted, QuarantineKept
  <1>7. ASSUME NEW t \in Targets, NEW ok \in BOOLEAN, Commit(t, ok) PROVE Staged'
    <2>1. /\ pc = "commit" /\ UNCHANGED <<quar, flagged, states, mods, closed>>
          /\ deliv' = [deliv EXCEPT ![t] = IF ok THEN "committed" ELSE "commitErr"]
      BY <1>7 DEF Commit, TargetCommit, unlessBody
    <2>2. /\ \A u \in Targets : deliv[u] \in DelivStates \ {"commitErr"}
          /\ states \union mods \subseteq closed
          /\ ~LMTP /\ quar => flagged
      BY <2>1 DEF Staged, Before
    <2>3. CASE ok
      <3>1. pc' = pc
        BY <1>7, <2>3 DEF Commit
      <3>2. \A u \in Targets : deliv'[u] \in DelivStates \ {"commitErr"}
        BY <1>0, <2>1, <2>2, <2>3 DEF PipeTypeOK, DelivStates
      <3> QED
        BY <1>0, <1>2, <2>1, <2>2, <3>1, <3>2
           DEF Staged, Before, RefusedNotCommitted, QuarantineKept
    <2>4. CASE ~ok
      <3>1. pc' = "clean" /\ dataFailed'
        BY <1>7, <2>4 DEF Commit, Fail
      <3>2. deliv'[t] = "commitErr" /\ \A u \in Targets : deliv'[u] \in DelivStates
        BY <1>0, <2>1, <2>2, <2>4 DEF PipeTypeOK, DelivStates
      <3> QED
        BY <1>0, <1>2, <2>1, <2>2, <3>1, <3>2
           DEF Staged, Before, RefusedNotCommitted, QuarantineKept
    <2> QED
      BY <2>3, <2>4
  <1>8. CASE CommitDone
    <2>1. /\ pc = "commit" /\ pc' = "clean" /\ ans' = "ok" /\ Uncommitted = {}
          /\ UNCHANGED <<quar, flagged, states, mods, closed, deliv>>
      BY <1>8 DEF CommitDone, pipeVars, checkVars, delivVars
    <2>2. Uncommitted' = {}
      BY <2>1 DEF Uncommitted
    <2> QED
      BY <1>0, <1>2, <2>1, <2>2
         DEF Staged, Before, DelivStates, RefusedNotCommitted, QuarantineKept
  <1> QED
    BY <1>3, <1>4, <1>5, <1>6, <1>7, <1>8 DEF DataSteps

LEMMA EndStaged ==
    ASSUME Typed, Apart, Staged, DataEnd \/ Reset \/ Logout
    PROVE  Staged'
  <1>1. pc' = "idle" /\ UNCHANGED dataFailed
    BY DEF DataEnd, Reset, Logout, handlerVars, ghostVars
  <1>2. CASE DataEnd
    <2>1. pc = "clean" /\ Forget
      BY <1>2 DEF DataEnd, PipeDrop
    <2>2. ~dataFailed => orphans' = orphans
      BY <1>2, <2>1 DEF DataEnd, PipeDrop, Staged, Uncommitted
    <2>3. RolledBack'
      BY <1>1, <2>2 DEF RolledBack, Staged
    <2> QED
      BY <1>1, <2>1, <2>3, EarlyStaged DEF Forget
  <1>3. CASE Reset \/ Logout
    <2>1. pc = "idle" /\ UNCHANGED orphans
      BY <1>3 DEF Reset, Logout, Abort, PipeAbort, pipeVars
    <2>2. RolledBack'
      BY <1>1, <2>1 DEF RolledBack, Staged
    <2>3. \A t \in Targets : deliv'[t] \in {"none", "open"}
      BY <1>3, <2>1, EarlyDeliv DEF Reset, Logout, Abort, PipeAbort, Forget, pipeVars, delivVars
    <2> QED
      BY <1>1, <2>2, <2>3, EarlyStaged
  <1> QED
    BY <1>2, <1>3

LEMMA StagedStep == Typed /\ Apart /\ Staged /\ [Next]_vars => Staged'
  BY CommandStaged, AddRcptStaged, DataStaged, EndStaged DEF Next, DataSteps

-----------------------------------------------------------------------------
(* What is done for a recipient                                            *)

(* Duty(a) is all that AddRcpt has to do for the address a: show it, or    *)
(* what it is rewritten to, to the checks, and give it to the targets.     *)
See(cs, a) == {<<"see", a, ch>> : ch \in cs}
Becomes(a) == {Rewrite[a][k] : k \in DOMAIN Rewrite[a]}
Legs(b) == {<<"give", BlockRewrite[b][i], TargetsOf[BlockOf[b]][j]>> :
               i \in DOMAIN BlockRewrite[b], j \in DOMAIN TargetsOf[BlockOf[b]]}
AtBlock(b) == See(BlockChecks[BlockOf[b]], b) \union Legs(b)
Behind(a) == UNION {AtBlock(b) : b \in Becomes(a)}
Duty(a) == See(GlobalChecks, a) \union See(SourceChecks, a) \union Behind(a)

(* The part of it that a call stands for.                                  *)
Work(c) ==
    CASE c.op = "global"  -> See(GlobalChecks, c.addr)
      [] c.op = "source"  -> See(SourceChecks, c.addr)
      [] c.op = "rewrite" -> Behind(c.addr)
      [] c.op = "block"   -> See(BlockChecks[BlockOf[c.addr]], c.addr)
      [] c.op = "modify"  -> Legs(c.addr)
      [] c.op = "deliver" -> {<<"give", c.addr, c.tgt>>}

Seen(a, ch) == ch \in states /\ a \in seen[ch]
Given(a, t, r) == a \in took[t] /\ r \in recips[t] /\ deliv[t] # "none"
Done(w, r) == IF w[1] = "see" THEN Seen(w[2], w[3]) ELSE Given(w[2], w[3], r)

(* Everything is done for who is accepted, and for who is in hand the rest *)
(* is on the list.                                                         *)
Served ==
    /\ delivery => \A r \in accepted : \A w \in Duty(r) : Done(w, r)
    /\ pc = "rcpt" =>
         /\ \A w \in Duty(cur) :
              Done(w, cur) \/ \E i \in DOMAIN todo : w \in Work(todo[i])
         /\ \A i \in DOMAIN todo : Work(todo[i]) \subseteq Duty(cur)

LEMMA BecomesType ==
    ASSUME NEW a \in Addrs
    PROVE  Becomes(a) \subseteq Addrs
  BY ConfigAssumption DEF Becomes

LEMMA DutyType ==
    ASSUME NEW a \in Addrs, NEW w \in Duty(a)
    PROVE  \/ w[1] = "see" /\ w[2] \in Addrs /\ w[3] \in Checks
           \/ w[1] = "give" /\ w[2] \in Addrs /\ w[3] \in Targets
              /\ w = <<"give", w[2], w[3]>>
  <1>1. CASE \E cs \in SUBSET Checks, b \in Addrs : w \in See(cs, b)
    BY <1>1 DEF See
  <1>2. ASSUME NEW b \in Addrs, w \in Legs(b)
        PROVE  w[1] = "give" /\ w[2] \in Addrs /\ w[3] \in Targets /\ w = <<"give", w[2], w[3]>>
    <2>1. PICK i \in DOMAIN BlockRewrite[b], j \in DOMAIN TargetsOf[BlockOf[b]] :
             w = <<"give", BlockRewrite[b][i], TargetsOf[BlockOf[b]][j]>>
      BY <1>2 DEF Legs
    <2>2. BlockRewrite[b] \in Seq(Addrs) /\ TargetsOf[BlockOf[b]] \in Seq(Targets)
      BY ConfigAssumption
    <2>3. BlockRewrite[b][i] \in Addrs /\ TargetsOf[BlockOf[b]][j] \in Targets
      BY <2>2
    <2> QED
      BY <2>1, <2>3
  <1>3. \A b \in Addrs : BlockChecks[BlockOf[b]] \in SUBSET Checks
    BY ConfigAssumption
  <1> QED
    BY <1>1, <1>2, <1>3, ConfigAssumption, BecomesType DEF Duty, Behind, AtBlock

(* What was done stays done while the message grows.                       *)
LEMMA DoneKept ==
    ASSUME NEW r \in Addrs, NEW w \in Duty(r), NEW s, Done(w, s), states \subseteq states',
           \A ch \in Checks : seen[ch] \subseteq seen'[ch],
           \A t \in Targets : took[t] \subseteq took'[t] /\ recips[t] \subseteq recips'[t],
           \A t \in Targets : deliv[t] # "none" => deliv'[t] # "none"
    PROVE  Done(w, s)'
  BY DutyType DEF Done, Seen, Given

(* The calls a rewriting adds do its work, and nothing else.               *)
LEMMA BlockCallsWork ==
    ASSUME NEW a \in Addrs
    PROVE  /\ \A w \in Behind(a) : \E i \in DOMAIN BlockCalls(a) : w \in Work(BlockCalls(a)[i])
           /\ \A i \in DOMAIN BlockCalls(a) : Work(BlockCalls(a)[i]) \subseteq Behind(a)
  <1>1. ASSUME NEW b \in Addrs
        PROVE  /\ Work(Call("block", b, NoTarget)) = See(BlockChecks[BlockOf[b]], b)
               /\ Work(Call("modify", b, NoTarget)) = Legs(b)
    BY <1>1 DEF Work, Call
  <1>2. ASSUME NEW w \in Behind(a)
        PROVE  \E i \in DOMAIN BlockCalls(a) : w \in Work(BlockCalls(a)[i])
    <2>1. PICK k \in DOMAIN Rewrite[a] : w \in AtBlock(Rewrite[a][k])
      BY DEF Behind, Becomes
    <2>2. Rewrite[a][k] \in Addrs
      BY BecomesType DEF Becomes
    <2> QED
      BY <1>1, <2>1, <2>2, BlockCallsAll DEF AtBlock
  <1>3. ASSUME NEW i \in DOMAIN BlockCalls(a)
        PROVE  Work(BlockCalls(a)[i]) \subseteq Behind(a)
    <2>1. i \in 1 .. 2 * Len(Rewrite[a])
      BY DEF BlockCalls
    <2>2. PICK k \in DOMAIN Rewrite[a] :
             \/ BlockCalls(a)[i] = Call("block", Rewrite[a][k], NoTarget)
             \/ BlockCalls(a)[i] = Call("modify", Rewrite[a][k], NoTarget)
      BY <2>1, BlockCallsType
    <2>3. Rewrite[a][k] \in Becomes(a) /\ Rewrite[a][k] \in Addrs
      BY BecomesType DEF Becomes
    <2> QED
      BY <1>1, <2>2, <2>3 DEF Behind, AtBlock
  <1> QED
    BY <1>2, <1>3

LEMMA DeliverCallsWork ==
    ASSUME NEW a \in Addrs
    PROVE  /\ \A w \in Legs(a) : \E i \in DOMAIN DeliverCalls(a) : w \in Work(DeliverCalls(a)[i])
           /\ \A i \in DOMAIN DeliverCalls(a) : Work(DeliverCalls(a)[i]) \subseteq Legs(a)
  <1>1. \A b, t : Work(Call("deliver", b, t)) = {<<"give", b, t>>}
    BY DEF Work, Call
  <1>2. ASSUME NEW w \in Legs(a)
        PROVE  \E i \in DOMAIN DeliverCalls(a) : w \in Work(DeliverCalls(a)[i])
    <2>1. PICK i \in DOMAIN BlockRewrite[a], j \in DOMAIN TargetsOf[BlockOf[a]] :
             w = <<"give", BlockRewrite[a][i], TargetsOf[BlockOf[a]][j]>>
      BY DEF Legs
    <2>2. PICK l \in DOMAIN DeliverCalls(a) :
             DeliverCalls(a)[l] = Call("deliver", BlockRewrite[a][i], TargetsOf[BlockOf[a]][j])
      BY DeliverCallsType
    <2> QED
      BY <1>1, <2>1, <2>2
  <1>3. ASSUME NEW l \in DOMAIN DeliverCalls(a)
        PROVE  Work(DeliverCalls(a)[l]) \subseteq Legs(a)
    <2>1. PICK i \in DOMAIN BlockRewrite[a], j \in DOMAIN TargetsOf[BlockOf[a]] :
             DeliverCalls(a)[l] = Call("deliver", BlockRewrite[a][i], TargetsOf[BlockOf[a]][j])
      BY DeliverCallsType
    <2>2. <<"give", BlockRewrite[a][i], TargetsOf[BlockOf[a]][j]>> \in Legs(a)
      BY DEF Legs
    <2> QED
      BY <1>1, <2>1, <2>2
  <1> QED
    BY <1>2, <1>3

LEMMA ExpandWork ==
    ASSUME NEW c \in Made
    PROVE  /\ c.op \in {"rewrite", "modify"} =>
                \A w \in Work(c) : \E i \in DOMAIN Expand(c) : w \in Work(Expand(c)[i])
           /\ \A i \in DOMAIN Expand(c) : Work(Expand(c)[i]) \subseteq Work(c)
  <1>1. c.addr \in Addrs /\ c.op \in Ops
    BY DEF Made, Calls, Ops
  <1>2. CASE c.op = "rewrite"
    BY <1>1, <1>2, BlockCallsWork DEF Expand, Work
  <1>3. CASE c.op = "modify"
    BY <1>1, <1>3, DeliverCallsWork DEF Expand, Work
  <1>4. CASE c.op \notin {"rewrite", "modify"}
    BY <1>4 DEF Expand
  <1> QED
    BY <1>2, <1>3, <1>4

(* A call that succeeds and is no rewriting has done its work.             *)
LEMMA CallDone ==
    ASSUME PipeTypeOK, NEW c \in Made, c.op \notin {"rewrite", "modify"}, MakeCall(c, TRUE),
           UNCHANGED cur, NEW w \in Work(c)
    PROVE  Done(w, cur)'
  <1>1. c.addr \in Addrs /\ c.op \in Ops /\ BlockChecks[BlockOf[c.addr]] \in SUBSET Checks
    BY ConfigAssumption DEF Made, Calls, Ops
  <1>2. ASSUME NEW cs \in SUBSET Checks, NEW a \in Addrs, CheckRcpt(cs, a, TRUE), w \in See(cs, a)
        PROVE  Done(w, cur)'
    <2>1. PICK ch \in cs : w = <<"see", a, ch>>
      BY <1>2 DEF See
    <2>2. Seen(a, ch)'
      BY <1>2 DEF CheckRcpt, Registered, Seen
    <2>3. w[1] = "see" /\ w[2] = a /\ w[3] = ch
      BY <2>1
    <2> QED
      BY <2>2, <2>3 DEF Done
  <1>3. CASE c.op = "deliver"
    <2>1. c.tgt \in Targets /\ Deliver(cur, c.addr, c.tgt, TRUE) /\ w = <<"give", c.addr, c.tgt>>
      BY <1>3 DEF MakeCall, Made, Work
    <2>2. Given(c.addr, c.tgt, cur)'
      BY <2>1 DEF Deliver, Given, PipeTypeOK
    <2> QED
      BY <2>1, <2>2 DEF Done
  <1>4. CASE c.op = "global"
    <2>1. CheckRcpt(GlobalChecks, c.addr, TRUE) /\ w \in See(GlobalChecks, c.addr)
      BY <1>4 DEF MakeCall, Work
    <2> QED
      BY <1>1, <1>2, <2>1, ConfigAssumption
  <1>5. CASE c.op = "source"
    <2>1. CheckRcpt(SourceChecks, c.addr, TRUE) /\ w \in See(SourceChecks, c.addr)
      BY <1>5 DEF MakeCall, Work
    <2> QED
      BY <1>1, <1>2, <2>1, ConfigAssumption
  <1>6. CASE c.op = "block"
    <2>1. CheckRcpt(BlockChecks[BlockOf[c.addr]], c.addr, TRUE)
          /\ w \in See(BlockChecks[BlockOf[c.addr]], c.addr)
      BY <1>6 DEF MakeCall, RcptBlock, Work
    <2> QED
      BY <1>1, <1>2, <2>1
  <1> QED
    BY <1>1, <1>3, <1>4, <1>5, <1>6 DEF Ops

(* The list n after a call: what the call expands to, e, and the rest of l. *)
Follows(e, l, n) ==
    /\ \A i \in DOMAIN e : \E k \in DOMAIN n : n[k] = e[i]
    /\ \A i \in DOMAIN l : i # 1 => \E k \in DOMAIN n : n[k] = l[i]
    /\ \A k \in DOMAIN n : \/ \E i \in DOMAIN e : n[k] = e[i]
                           \/ \E i \in DOMAIN l : n[k] = l[i]
    /\ Head(l) = l[1] /\ 1 \in DOMAIN l

(* Making the first call leaves a list that follows from it.               *)
LEMMA LeftOver ==
    ASSUME NEW S, NEW e \in Seq(S), NEW l \in Seq(S), l # <<>>
    PROVE  Follows(e, l, e \o Tail(l))
  <1> DEFINE n == e \o Tail(l)
             a == Len(e)
             b == Len(l)
  <1>1. a \in Nat /\ b \in Nat /\ b >= 1 /\ DOMAIN e = 1 .. a /\ DOMAIN l = 1 .. b
    OBVIOUS
  <1>2. Tail(l) \in Seq(S) /\ Len(Tail(l)) = b - 1
        /\ \A i \in 1 .. b - 1 : Tail(l)[i] = l[i + 1]
    OBVIOUS
  <1>3. DOMAIN n = 1 .. a + (b - 1)
    BY <1>1, <1>2
  <1>4. \A i \in 1 .. a : n[i] = e[i]
    BY <1>1, <1>2
  <1>5. \A i \in 1 .. b - 1 : n[a + i] = l[i + 1]
    BY <1>1, <1>2
  <1> HIDE DEF n, a, b
  <1>6. ASSUME NEW i \in DOMAIN l, i # 1 PROVE \E k \in DOMAIN n : n[k] = l[i]
    <2>1. i - 1 \in 1 .. b - 1 /\ a + (i - 1) \in DOMAIN n
      BY <1>1, <1>3, <1>6
    <2>2. n[a + (i - 1)] = l[(i - 1) + 1]
      BY <1>5, <2>1
    <2>3. (i - 1) + 1 = i
      BY <1>1
    <2> QED
      BY <2>1, <2>2, <2>3
  <1>7. ASSUME NEW k \in DOMAIN n, k > a PROVE \E i \in DOMAIN l : n[k] = l[i]
    <2>1. k - a \in 1 .. b - 1 /\ (k - a) + 1 \in DOMAIN l /\ a + (k - a) = k
      BY <1>1, <1>3, <1>7
    <2> QED
      BY <1>5, <2>1
  <1>8. ASSUME NEW k \in DOMAIN n, ~(k > a) PROVE \E i \in DOMAIN e : n[k] = e[i]
    BY <1>1, <1>3, <1>4, <1>8
  <1>9. \A i \in DOMAIN e : i \in DOMAIN n /\ n[i] = e[i]
    BY <1>1, <1>3, <1>4
  <1>10. Head(l) = l[1] /\ 1 \in DOMAIN l
    BY <1>1
  <1> QED
    <2>1. Follows(e, l, n)
      BY <1>6, <1>7, <1>8, <1>9, <1>10 DEF Follows
    <2> QED
      BY <2>1 DEF n

LEMMA InitServed == Init => Served
  BY DEF Init, Served

LEMMA RcptServed ==
    ASSUME Typed, Apart, Served, NEW r \in Rcpts, Rcpt(r)
    PROVE  Served'
  <1>1. r \in Addrs
    BY SessionAssumption
  <1>2. UNCHANGED accepted /\ proto = "mail" /\ pc = "idle"
    BY DEF Rcpt
  <1>3. delivery' => \A s \in accepted' : \A w \in Duty(s) : Done(w, s)'
    <2>1. CASE delivery /\ UNCHANGED pipeVars
      BY <1>2, <2>1 DEF Served, Done, Seen, Given, pipeVars, checkVars, delivVars
    <2>2. CASE ~delivery
      BY <1>2, <2>2 DEF Apart, DeliveryInTransaction
    <2> QED
      BY <2>1, <2>2 DEF Rcpt
  <1>4. CASE pc' = "rcpt" /\ cur' = r /\ todo' = AddRcptCalls(r)
    <2> DEFINE l == AddRcptCalls(r)
    <2>1. /\ DOMAIN l = {1, 2, 3}
          /\ Work(l[1]) = See(GlobalChecks, r) /\ Work(l[2]) = See(SourceChecks, r)
          /\ Work(l[3]) = Behind(r)
      <3>1. Len(l) = 3 /\ l \in Seq(Made)
        BY <1>1, AddRcptCallsType
      <3>2. DOMAIN l = 1 .. 3
        BY <3>1
      <3>3. /\ Work(Call("global", r, NoTarget)) = See(GlobalChecks, r)
            /\ Work(Call("source", r, NoTarget)) = See(SourceChecks, r)
            /\ Work(Call("rewrite", r, NoTarget)) = Behind(r)
        BY DEF Work, Call
      <3>4. DOMAIN l = {1, 2, 3}
        BY <3>2
      <3> QED
        BY <1>1, <3>3, <3>4, AddRcptCallsType
    <2>2. \A w \in Duty(r) : \E i \in DOMAIN l : w \in Work(l[i])
      BY <2>1 DEF Duty
    <2>3. \A i \in DOMAIN l : Work(l[i]) \subseteq Duty(r)
      BY <2>1 DEF Duty
    <2> HIDE DEF l
    <2>4. todo' = l /\ cur' = r
      BY <1>4 DEF l
    <2> QED
      BY <1>3, <2>2, <2>3, <2>4 DEF Served
  <1>5. CASE UNCHANGED handlerVars
    BY <1>2, <1>3, <1>5 DEF Served, handlerVars
  <1> QED
    BY <1>4, <1>5 DEF Rcpt

LEMMA AddRcptServed ==
    ASSUME Typed, Apart, Served, NEW ok \in BOOLEAN, AddRcpt(ok)
    PROVE  Served'
  <1> DEFINE c == Head(todo)
             n == Expand(c) \o Tail(todo)
  <1>1. /\ pc = "rcpt" /\ todo # <<>> /\ delivery /\ UNCHANGED <<cur, delivery>>
        /\ MakeCall(c, ok) /\ PipeTypeOK /\ cur \in Rcpts /\ cur \in Addrs /\ accepted \subseteq Rcpts
        /\ todo \in Seq(Made)
    BY SessionAssumption
       DEF AddRcpt, Apart, DeliveryInTransaction, sessVars, Typed, TypeOK
  <1>2. c \in Made /\ Expand(c) \in Seq(Made) /\ n \in Seq(Made)
    BY <1>1, LeftType, ExpandType
  <1>3. ASSUME NEW r \in Addrs, NEW w \in Duty(r), NEW s, Done(w, s) PROVE Done(w, s)'
    <2>1. \A t \in Targets : deliv[t] # "none" => deliv'[t] # "none"
      BY <1>1, <1>2, MakeCallGrows
    <2> QED
      BY <1>1, <1>2, <1>3, <2>1, MakeCallGrows, DoneKept
  <1>4. \A r \in accepted : \A w \in Duty(r) : Done(w, r)'
    BY <1>1, <1>3, SessionAssumption DEF Served
  <1>8. Follows(Expand(c), todo, n)
    BY <1>1, <1>2, LeftOver
  <1>9. c = todo[1] /\ 1 \in DOMAIN todo
    BY <1>8 DEF Follows
  <1>7. \A i \in DOMAIN todo : i # 1 => \E k \in DOMAIN n : n[k] = todo[i]
    <2> HIDE DEF n, c
    <2> QED
      BY <1>8 DEF Follows
  <1>5. CASE ~ok
    <2>1. pc' = "idle" /\ accepted' = accepted
      BY <1>5 DEF AddRcpt, RcptDone
    <2> QED
      BY <1>4, <2>1 DEF Served
  <1>6. CASE ok
    <2>1. ASSUME NEW w \in Duty(cur)
          PROVE  Done(w, cur)' \/ \E k \in DOMAIN n : w \in Work(n[k])
      <3>1. CASE Done(w, cur)
        BY <1>1, <1>3, <3>1
      <3>2. CASE ~Done(w, cur)
        <4>1. PICK i \in DOMAIN todo : w \in Work(todo[i])
          BY <1>1, <3>2 DEF Served
        <4>2. CASE i # 1
          <5>1. PICK k \in DOMAIN n : n[k] = todo[i]
            BY <1>7, <4>2
          <5> QED
            BY <4>1, <5>1
        <4>3. CASE i = 1 /\ c.op \in {"rewrite", "modify"}
          <5>1. w \in Work(c)
            BY <1>9, <4>1, <4>3
          <5>2. PICK j \in DOMAIN Expand(c) : w \in Work(Expand(c)[j])
            BY <1>2, <4>3, <5>1, ExpandWork
          <5>3. PICK k \in DOMAIN n : n[k] = Expand(c)[j]
            BY <1>8, <5>2 DEF Follows
          <5> QED
            BY <5>2, <5>3
        <4>4. CASE i = 1 /\ c.op \notin {"rewrite", "modify"}
          <5>1. w \in Work(c)
            BY <1>9, <4>1, <4>4
          <5> QED
            BY <1>1, <1>2, <1>6, <4>4, <5>1, CallDone
        <4> QED
          BY <4>2, <4>3, <4>4
      <3> QED
        BY <3>1, <3>2
    <2>2. ASSUME NEW k \in DOMAIN n PROVE Work(n[k]) \subseteq Duty(cur)
      <3>1. CASE \E i \in DOMAIN todo : n[k] = todo[i]
        BY <1>1, <3>1 DEF Served
      <3>2. CASE \E i \in DOMAIN Expand(c) : n[k] = Expand(c)[i]
        <4>1. Work(c) \subseteq Duty(cur)
          BY <1>1, <1>9 DEF Served
        <4> QED
          BY <1>2, <3>2, <4>1, ExpandWork
      <3> QED
        BY <1>8, <3>1, <3>2 DEF Follows
    <2> HIDE DEF n, c
    <2>3. CASE n = <<>>
      <3>1. pc' = "idle" /\ accepted' = accepted \union {cur}
        BY <1>6, <2>3 DEF AddRcpt, RcptDone, n, c
      <3>2. \A w \in Duty(cur) : Done(w, cur)'
        BY <2>1, <2>3
      <3> QED
        BY <1>1, <1>4, <3>1, <3>2 DEF Served
    <2>4. CASE n # <<>>
      <3>1. pc' = pc /\ accepted' = accepted /\ todo' = n
        BY <1>6, <2>4 DEF AddRcpt, n, c
      <3> QED
        BY <1>1, <1>4, <2>1, <2>2, <3>1 DEF Served
    <2> QED
      BY <2>3, <2>4
  <1> QED
    BY <1>5, <1>6

(* The deliveries DATA goes through stay deliveries.                       *)
LEMMA DataDeliv ==
    ASSUME PipeTypeOK, DataSteps
    PROVE  \A t \in Targets : deliv[t] # "none" => deliv'[t] # "none"
  <1>1. CASE UNCHANGED deliv
    BY <1>1
  <1>2. ASSUME NEW t \in Targets, NEW st, st # "none", deliv' = [deliv EXCEPT ![t] = st]
        PROVE  \A u \in Targets : deliv[u] # "none" => deliv'[u] # "none"
    BY <1>2 DEF PipeTypeOK
  <1> QED
    BY <1>1, <1>2
       DEF DataSteps, Data, CommitBegin, CommitDone, DataChecks, DataBody, LmtpPartialBody,
           LmtpBody, Commit, PipeClose, BodyChecks, TargetBody, TargetCommit, pipeVars, delivVars

LEMMA ServedStep == Typed /\ Apart /\ Served /\ [Next]_vars => Served'
  <1> SUFFICES ASSUME Typed, Apart, Served, [Next]_vars PROVE Served'
    OBVIOUS
  <1>1. CASE AuthPlain \/ UNCHANGED vars
    <2>1. UNCHANGED <<pipeVars, handlerVars, delivery, accepted>>
      BY <1>1 DEF AuthPlain, vars, sessVars, protoVars
    <2> QED
      BY <2>1 DEF Served, Done, Seen, Given, pipeVars, checkVars, delivVars, handlerVars
  <1>2. CASE RcptRefused
    <2>1. ~delivery' /\ pc' = "idle"
      BY <1>2 DEF RcptRefused, StartDelivery, sessVars, handlerVars
    <2> QED
      BY <2>1 DEF Served
  <1>3. ASSUME NEW from \in Domains, Mail(from) PROVE Served'
    BY <1>3 DEF Mail, handlerVars, Served
  <1>4. CASE DataSteps
    <2>1. /\ UNCHANGED <<took, recips, seen, states, accepted, delivery>> /\ pc' # "rcpt"
          /\ PipeTypeOK /\ accepted \subseteq Addrs
      BY <1>4, SessionAssumption, DataKeeps DEF unlessData, sessVars, Typed, TypeOK
    <2>2. \A t \in Targets : deliv[t] # "none" => deliv'[t] # "none"
      BY <1>4, <2>1, DataDeliv
    <2>3. \A r \in accepted : \A w \in Duty(r) : Done(w, r) => Done(w, r)'
      BY <2>1, <2>2, DoneKept
    <2> QED
      BY <2>1, <2>3 DEF Served
  <1>5. CASE DataEnd \/ Reset \/ Logout
    <2>1. CASE ~delivery' /\ pc' = "idle"
      BY <2>1 DEF Served
    <2> QED
      BY <1>5, <2>1 DEF DataEnd, Reset, Logout, Abort, CleanSession, handlerVars, sessVars
  <1> QED
    BY <1>1, <1>2, <1>3, <1>4, <1>5, RcptServed, AddRcptServed DEF Next, DataSteps

-----------------------------------------------------------------------------
(* The statuses of LMTP                                                    *)

(* No two recipients become one address of a target that reports on each   *)
(* address: OriginalRcpts then translates its reports back.                *)
AliasesApart ==
    \A r, s \in Rcpts : \A p \in Plan(r), q \in Plan(s) :
        p[1] = q[1] /\ p[2] \in PartialTargets => r = s

Leg(a, t) == <<"give", a, t>>

LEMMA PlanIsDuty ==
    ASSUME NEW r \in Addrs
    PROVE  /\ \A p \in Plan(r) : Leg(p[1], p[2]) \in Duty(r) /\ p[2] \in Targets
           /\ \A a, t : Leg(a, t) \in Duty(r) => <<a, t>> \in Plan(r) /\ t \in Targets /\ a \in Addrs
  <1>1. ASSUME NEW p \in Plan(r) PROVE Leg(p[1], p[2]) \in Duty(r)
    <2>0. PICK b \in Becomes(r) :
             \E i \in DOMAIN BlockRewrite[b], j \in DOMAIN TargetsOf[BlockOf[b]] :
                 p = <<BlockRewrite[b][i], TargetsOf[BlockOf[b]][j]>>
      BY DEF Plan, Becomes
    <2>1. PICK i \in DOMAIN BlockRewrite[b], j \in DOMAIN TargetsOf[BlockOf[b]] :
             p = <<BlockRewrite[b][i], TargetsOf[BlockOf[b]][j]>>
      BY <2>0
    <2>2. Leg(p[1], p[2]) \in Legs(b)
      BY <2>1 DEF Leg, Legs
    <2> QED
      BY <2>2 DEF Duty, Behind, AtBlock
  <1>2. ASSUME NEW a, NEW t, Leg(a, t) \in Duty(r) PROVE <<a, t>> \in Plan(r)
    <2>1. \A cs, b : Leg(a, t) \notin See(cs, b)
      BY DEF Leg, See
    <2>2. PICK b \in Becomes(r) : Leg(a, t) \in Legs(b)
      BY <1>2, <2>1 DEF Duty, Behind, AtBlock
    <2>3. PICK i \in DOMAIN BlockRewrite[b], j \in DOMAIN TargetsOf[BlockOf[b]] :
             Leg(a, t) = <<"give", BlockRewrite[b][i], TargetsOf[BlockOf[b]][j]>>
      BY <2>2 DEF Legs
    <2>4. a = BlockRewrite[b][i] /\ t = TargetsOf[BlockOf[b]][j]
      BY <2>3 DEF Leg
    <2> QED
      BY <2>4 DEF Plan, Becomes
  <1>3. ASSUME NEW a, NEW t, Leg(a, t) \in Duty(r) PROVE t \in Targets /\ a \in Addrs
    <2>1. Leg(a, t)[1] = "give" /\ Leg(a, t)[2] = a /\ Leg(a, t)[3] = t
      BY DEF Leg
    <2> QED
      BY <1>3, <2>1, DutyType
  <1> QED
    BY <1>1, <1>2, <1>3

(* An original is the address itself or a recipient that becomes it, and   *)
(* of what a per-recipient target took it is the recipient.                *)
Originals ==
    /\ \A a \in Addrs :
         orig[a] = a \/ (orig[a] \in Rcpts /\ \E t : Leg(a, t) \in Duty(orig[a]))
    /\ AliasesApart =>
         \A t \in PartialTargets : \A a \in took[t] : \A r \in Rcpts :
             Leg(a, t) \in Duty(r) => orig[a] = r

LEMMA NewOriginals ==
    ASSUME orig' = [a \in Addrs |-> a], took' = [t \in Targets |-> {}]
    PROVE  Originals'
  BY ConfigAssumption DEF Originals

LEMMA SameOriginals ==
    ASSUME Originals, UNCHANGED <<orig, took>>
    PROVE  Originals'
  BY DEF Originals

LEMMA AliasesDuty ==
    ASSUME AliasesApart, NEW r \in Rcpts, NEW s \in Rcpts, NEW a, NEW t \in PartialTargets, NEW u,
           Leg(a, t) \in Duty(r), Leg(a, u) \in Duty(s)
    PROVE  r = s
  <1>1. <<a, t>> \in Plan(r) /\ <<a, u>> \in Plan(s)
    BY PlanIsDuty, SessionAssumption
  <1> QED
    BY <1>1 DEF AliasesApart

LEMMA DeliverOriginals ==
    ASSUME Typed, Originals, NEW b \in Addrs, NEW u \in Targets, NEW ok \in BOOLEAN,
           Leg(b, u) \in Duty(cur), Deliver(cur, b, u, ok)
    PROVE  Originals'
  <1>1. cur \in Rcpts /\ cur \in Addrs /\ PipeTypeOK /\ PartialTargets \subseteq Targets
    BY SessionAssumption, ConfigAssumption DEF Typed, TypeOK
  <1>2. /\ orig' = IF cur # b THEN [orig EXCEPT ![b] = cur] ELSE orig
        /\ \A t \in Targets : \A a \in took'[t] : a \in took[t] \/ (a = b /\ t = u)
    BY <1>1 DEF Deliver, PipeTypeOK
  <1>3. (\A a \in Addrs : a # b => orig'[a] = orig[a]) /\ (cur # b => orig'[b] = cur)
        /\ (cur = b => orig'[b] = orig[b])
    BY <1>1, <1>2 DEF PipeTypeOK
  <1>4. \A a \in Addrs :
          orig'[a] = a \/ (orig'[a] \in Rcpts /\ \E t : Leg(a, t) \in Duty(orig'[a]))
    BY <1>1, <1>3 DEF Originals
  <1>5. ASSUME AliasesApart, NEW t \in PartialTargets, NEW a \in took'[t], NEW r \in Rcpts,
               Leg(a, t) \in Duty(r)
        PROVE  orig'[a] = r
    <2>1. a \in Addrs
      BY <1>5, PlanIsDuty, SessionAssumption
    <2>2. CASE a # b
      BY <1>1, <1>2, <1>3, <1>5, <2>1, <2>2 DEF Originals
    <2>3. CASE a = b
      <3>1. r = cur
        BY <1>1, <1>5, <2>3, AliasesDuty
      <3>2. CASE cur # b
        BY <1>3, <2>3, <3>1, <3>2
      <3>3. CASE cur = b /\ orig[b] # b
        <4>1. orig[b] \in Rcpts /\ \E v : Leg(b, v) \in Duty(orig[b])
          BY <3>3 DEF Originals
        <4>2. r = orig[b]
          BY <1>5, <2>3, <4>1, AliasesDuty
        <4> QED
          BY <1>3, <2>3, <3>1, <3>3, <4>2
      <3>4. CASE cur = b /\ orig[b] = b
        BY <1>3, <2>3, <3>1, <3>4
      <3> QED
        BY <3>2, <3>3, <3>4
    <2> QED
      BY <2>2, <2>3
  <1> QED
    BY <1>4, <1>5 DEF Originals, AliasesApart

LEMMA OriginalsStep == Typed /\ Apart /\ Served /\ Originals /\ [Next]_vars => Originals'
  <1> SUFFICES ASSUME Typed, Apart, Served, Originals, [Next]_vars PROVE Originals'
    OBVIOUS
  <1>1. CASE AuthPlain \/ UNCHANGED vars
    BY <1>1, SameOriginals DEF AuthPlain, vars, pipeVars, delivVars
  <1>2. CASE RcptRefused \/ (\E from \in Domains : Mail(from)) \/ (\E r \in Rcpts : Rcpt(r))
    BY <1>2, SameOriginals
       DEF RcptRefused, Mail, Rcpt, StartDelivery, StartOk, StartFailed, pipeVars, delivVars
  <1>3. CASE DataSteps
    BY <1>3, DataKeeps, SameOriginals
  <1>4. CASE DataEnd \/ Reset \/ Logout
    <2>1. CASE Forget
      BY <2>1, NewOriginals DEF Forget
    <2>2. CASE UNCHANGED pipeVars
      BY <2>2, SameOriginals DEF pipeVars, delivVars
    <2> QED
      BY <1>4, <2>1, <2>2 DEF DataEnd, Reset, Logout, Abort, PipeAbort, PipeDrop
  <1>5. ASSUME NEW ok \in BOOLEAN, AddRcpt(ok) PROVE Originals'
    <2> DEFINE c == Head(todo)
    <2>1. pc = "rcpt" /\ todo # <<>> /\ todo \in Seq(Made) /\ MakeCall(c, ok)
      BY <1>5 DEF AddRcpt, Typed
    <2>2. c \in Made /\ 1 \in DOMAIN todo /\ c = todo[1]
      BY <2>1
    <2>3. Work(c) \subseteq Duty(cur)
      BY <2>1, <2>2 DEF Served
    <2> HIDE DEF c
    <2>4. CASE c.op = "deliver" /\ Deliver(cur, c.addr, c.tgt, ok)
      <3>1. c.tgt \in Targets /\ c.addr \in Addrs
        BY <2>2, <2>4 DEF Made, Calls
      <3>2. Leg(c.addr, c.tgt) \in Duty(cur)
        BY <2>3, <2>4 DEF Work, Leg
      <3> QED
        BY <2>4, <3>1, <3>2, DeliverOriginals
    <2>5. CASE UNCHANGED <<orig, took>>
      BY <2>5, SameOriginals
    <2> QED
      BY <2>1, <2>4, <2>5
         DEF MakeCall, RcptBlock, BlockModify, CheckRcpt, unlessCheck, unlessMod, pipeVars,
             delivVars
  <1> QED
    BY <1>1, <1>2, <1>3, <1>4, <1>5 DEF Next, DataSteps

(* What becomes of one address of a recipient at one target: the recipient *)
(* is told of a failure, the body is still to come, or it is there.        *)
Told(r) == LMTP /\ "err" \in told[r]
Settled(r, a, t) ==
    \/ Told(r)
    \/ pc = "body" /\ deliv[t] = "open"
    \/ deliv[t] \in {"bodied", "committed"} /\ a \in ready[t]

Fate ==
    ~LMTP \/ AliasesApart =>
        \A r \in accepted : \A a \in Addrs, t \in Targets : Leg(a, t) \in Duty(r) =>
            /\ pc \in {"body", "close", "commit"} => Settled(r, a, t)
            /\ pc = "clean" /\ ans = "ok" => Told(r) \/ (deliv[t] = "committed" /\ a \in ready[t])

LEMMA FateStep == Typed /\ Apart /\ Staged /\ Served /\ Originals /\ Fate /\ [Next]_vars => Fate'
  <1> SUFFICES ASSUME Typed, Apart, Staged, Served, Originals, Fate, [Next]_vars,
                      ~LMTP' \/ AliasesApart,
                      NEW r \in accepted', NEW a \in Addrs, NEW t \in Targets,
                      Leg(a, t) \in Duty(r)
               PROVE  /\ pc' \in {"body", "close", "commit"} => Settled(r, a, t)'
                      /\ pc' = "clean" /\ ans' = "ok" =>
                           Told(r)' \/ (deliv'[t] = "committed" /\ a \in ready'[t])
    BY DEF Fate, AliasesApart
  <1> DEFINE Goal == /\ pc' \in {"body", "close", "commit"} => Settled(r, a, t)'
                     /\ pc' = "clean" /\ ans' = "ok" =>
                          Told(r)' \/ (deliv'[t] = "committed" /\ a \in ready'[t])
  <1>1. CASE pc' \in {"idle", "rcpt", "checks"}
    BY <1>1
  <1>2. CASE UNCHANGED vars
    <2>1. /\ UNCHANGED <<endp, pc, ans, told, accepted, deliv, ready>>
          /\ (LMTP' <=> LMTP)
      BY <1>2 DEF vars, pipeVars, delivVars, connVars, handlerVars, protoVars, LMTP
    <2> QED
      BY <2>1 DEF Fate, Settled, Told
  <1>3. CASE DataSteps
    <2>1. /\ UNCHANGED <<accepted, took, recips, orig, given>> /\ delivery /\ (LMTP' <=> LMTP)
          /\ PipeTypeOK /\ accepted \subseteq Rcpts /\ accepted \subseteq Addrs
          /\ told \in [Addrs -> SUBSET {"ok", "err"}]
      BY <1>3, DataKeeps, SessionAssumption DEF unlessData, LMTP, Typed, TypeOK
    <2>2. r \in accepted /\ r \in Addrs /\ r \in Rcpts /\ r \in given
      BY <2>1 DEF Apart
    <2>3. a \in took[t] /\ r \in recips[t] /\ deliv[t] # "none"
      <3>1. Done(Leg(a, t), r)
        BY <2>1, <2>2 DEF Served
      <3>2. Leg(a, t)[1] = "give" /\ Leg(a, t)[2] = a /\ Leg(a, t)[3] = t
        BY DEF Leg
      <3> QED
        BY <3>1, <3>2 DEF Done, Given
    <2>4. /\ pc \in {"body", "close", "commit"} => Settled(r, a, t)
      BY <2>1, <2>2 DEF Fate
    <2>5. ASSUME NEW bad, NEW good, SetStatus(bad, good)
          PROVE  /\ "err" \in told[r] => "err" \in told'[r]
                 /\ r \in bad => "err" \in told'[r]
      BY <2>2, <2>5 DEF SetStatus
    <2>6. CASE Data
      <3>1. CASE pc' = "clean" /\ ans' = "ok"
        <4>1. LMTP /\ SetStatus(given, {})
          BY <2>6, <3>1 DEF Data, Fail
        <4> QED
          BY <2>1, <2>2, <2>5, <3>1, <4>1 DEF Told
      <3>2. CASE pc' # "clean" \/ ans' # "ok"
        BY <2>6, <3>2, <1>1 DEF Data, Fail
      <3> QED
        BY <3>1, <3>2
    <2>7. ASSUME NEW ok \in BOOLEAN, DataChecks(ok) PROVE Goal
      <3>1. pc = "checks" /\ UNCHANGED deliv
        BY <2>7 DEF DataChecks, BodyChecks
      <3>2. deliv[t] = "open"
        BY <2>3, <3>1, EarlyDeliv
      <3>3. CASE pc' = "body"
        BY <3>1, <3>2, <3>3 DEF Settled
      <3>4. CASE pc' = "close" /\ LMTP /\ SetStatus(AllRecips, {})
        <4>1. r \in AllRecips
          BY <2>3 DEF AllRecips
        <4> QED
          BY <2>1, <2>5, <3>4, <4>1 DEF Settled, Told
      <3>5. CASE pc' = "clean" /\ ans' = "err"
        BY <3>5
      <3> QED
        BY <2>7, <3>3, <3>4, <3>5 DEF DataChecks, Fail
    <2>8. ASSUME NEW u \in Targets, NEW good, NEW ok \in BOOLEAN,
                 DataBody(u) \/ LmtpPartialBody(u, good) \/ LmtpBody(u, ok)
          PROVE  Goal
      <3>1. pc = "body" /\ Settled(r, a, t)
        BY <2>4, <2>8 DEF DataBody, LmtpPartialBody, LmtpBody
      <3>2. CASE pc' = "clean" /\ ans' = "err"
        BY <3>2
      <3>3. CASE pc' = "body"
        <4>1. Told(r) => Told(r)'
          BY <2>1, <2>5, <2>8 DEF Told, DataBody, LmtpPartialBody, LmtpBody
        <4>2. CASE t # u
          <5>1. deliv'[t] = deliv[t] /\ ready'[t] = ready[t]
            BY <2>1, <2>8, <4>2 DEF DataBody, LmtpPartialBody, LmtpBody, TargetBody, PipeTypeOK
          <5> QED
            BY <3>1, <3>3, <4>1, <5>1 DEF Settled
        <4>3. CASE t = u
          <5>1. CASE TargetBody(t, took[t], TRUE)
            <6>1. deliv'[t] = "bodied" /\ ready'[t] = took[t]
              BY <2>1, <5>1 DEF TargetBody, PipeTypeOK
            <6> QED
              BY <2>3, <3>3, <6>1 DEF Settled
          <5>2. CASE LMTP /\ SetStatus(recips[t], {})
            BY <2>1, <2>3, <2>5, <3>3, <5>2 DEF Settled, Told
          <5>3. CASE LmtpPartialBody(t, good)
            <6>1. /\ LMTP /\ t \in PartialTargets /\ TargetBody(t, good, TRUE)
                  /\ SetStatus({orig[b] : b \in took[t] \ good}, {orig[b] : b \in good})
              BY <5>3 DEF LmtpPartialBody
            <6>2. CASE a \in good
              <7>1. deliv'[t] = "bodied" /\ ready'[t] = good
                BY <2>1, <6>1 DEF TargetBody, PipeTypeOK
              <7> QED
                BY <3>3, <6>2, <7>1 DEF Settled
            <6>3. CASE a \notin good
              <7>1. orig[a] = r
                BY <2>1, <2>2, <2>3, <6>1 DEF Originals
              <7>2. r \in {orig[b] : b \in took[t] \ good}
                BY <2>3, <6>3, <7>1
              <7> QED
                BY <2>1, <2>5, <3>3, <6>1, <7>2 DEF Settled, Told
            <6> QED
              BY <6>2, <6>3
          <5> QED
            BY <2>8, <3>3, <4>3, <5>1, <5>2, <5>3 DEF DataBody, LmtpBody, Fail
        <4> QED
          BY <4>2, <4>3
      <3> QED
        BY <2>8, <3>1, <3>2, <3>3 DEF DataBody, LmtpPartialBody, LmtpBody, Fail
    <2>9. CASE CommitBegin
      <3>1. UNCHANGED <<deliv, ready, told>> /\ pc' = "commit" /\ pc \in {"body", "close"}
        BY <2>9 DEF CommitBegin, PipeClose, delivVars
      <3>2. pc = "body" => deliv[t] # "open"
        BY <2>9 DEF CommitBegin
      <3> QED
        BY <2>1, <2>4, <3>1, <3>2 DEF Settled, Told
    <2>10. ASSUME NEW u \in Targets, NEW ok \in BOOLEAN, Commit(u, ok) PROVE Goal
      <3>1. /\ pc = "commit" /\ UNCHANGED <<ready, told>> /\ Settled(r, a, t)
            /\ deliv' = [deliv EXCEPT ![u] = IF ok THEN "committed" ELSE "commitErr"]
        BY <2>4, <2>10 DEF Commit, TargetCommit
      <3>2. CASE ok
        <4>1. deliv'[t] \in {deliv[t], "committed"} /\ pc' = "commit"
          BY <2>1, <2>10, <3>1, <3>2 DEF PipeTypeOK, Commit
        <4> QED
          BY <2>1, <3>1, <4>1 DEF Settled, Told
      <3>3. CASE ~ok
        BY <2>10, <3>3 DEF Commit, Fail
      <3> QED
        BY <3>2, <3>3
    <2>11. CASE CommitDone
      <3>1. /\ pc = "commit" /\ pc' = "clean" /\ UNCHANGED <<deliv, ready, told>>
            /\ Settled(r, a, t) /\ deliv[t] # "bodied"
        BY <2>4, <2>11 DEF CommitDone, Uncommitted, pipeVars, delivVars
      <3> QED
        BY <2>1, <3>1 DEF Settled, Told
    <2> QED
      BY <1>3, <2>6, <2>7, <2>8, <2>9, <2>10, <2>11 DEF DataSteps
  <1>4. CASE \/ AuthPlain \/ RcptRefused \/ DataEnd \/ Reset \/ Logout
             \/ \E from \in Domains : Mail(from)
             \/ \E s \in Rcpts : Rcpt(s)
             \/ \E ok \in BOOLEAN : AddRcpt(ok)
    <2>1. pc' \in {"idle", "rcpt"}
      BY <1>4 DEF AuthPlain, RcptRefused, DataEnd, Reset, Logout, Mail, Rcpt, AddRcpt, RcptDone,
                  handlerVars
    <2> QED
      BY <1>1, <2>1
  <1> QED
    BY <1>2, <1>3, <1>4 DEF Next, DataSteps

-----------------------------------------------------------------------------
(* The theorems about transactions, answers and checks                     *)

SessionInv == Typed /\ Apart /\ Staged /\ Served /\ Originals /\ Fate

(* The invariant of the session holds in every reachable state, however    *)
(* commands, failures of checks, modifiers and targets, RSET and the end   *)
(* of the connection follow one another.                                   *)
THEOREM SessionInductive == Spec => []SessionInv
  <1>1. Init => SessionInv
    <2> SUFFICES ASSUME Init PROVE Originals /\ Fate
      BY InitTyped, InitApart, InitStaged, InitServed DEF SessionInv
    <2>1. Originals
      BY ConfigAssumption DEF Init, PipeInit, NewPipe, Originals
    <2>2. Fate
      BY DEF Init, Fate
    <2> QED
      BY <2>1, <2>2
  <1>2. SessionInv /\ [Next]_vars => SessionInv'
    BY TypedStep, ApartStep, StagedStep, ServedStep, OriginalsStep, FateStep DEF SessionInv
  <1> QED
    BY <1>1, <1>2, PTL DEF Spec

(* The delivery in hand is of this transaction alone, and what an earlier  *)
(* one left open it left by one of the two leaks RolledBack names: Reset,  *)
(* Logout and the deferred clean-up of Data lose nothing else.             *)
THEOREM SessionTransactionsApart == Spec => []TransactionsApart
  <1>1. SessionInv => TransactionsApart
    BY DEF SessionInv, Typed, Apart, Staged, TransactionsApart
  <1> QED
    BY <1>1, SessionInductive, PTL

LEMMA FateHonest ==
    ASSUME SessionInv, ~LMTP \/ AliasesApart, pc = "clean", ans = "ok", NEW r \in accepted, ~Told(r),
           NEW p \in Plan(r)
    PROVE  deliv[p[2]] = "committed" /\ p[1] \in ready[p[2]]
  <1>1. r \in Addrs
    BY SessionAssumption DEF SessionInv, Typed, TypeOK
  <1>2. /\ Leg(p[1], p[2]) \in Duty(r) /\ p[2] \in Targets /\ p[1] \in Addrs
    BY <1>1, PlanIsDuty
  <1> QED
    BY <1>2 DEF SessionInv, Fate

(* For every pipeline, Session.Data answers with success only when all     *)
(* targets of all accepted recipients have committed the body, and DATA    *)
(* and LMTPData fail as a whole only when none has, unless Commit failed.  *)
THEOREM SessionDataAnswer == Spec => [](AcceptedMeansCommitted /\ RefusedNotCommitted)
  <1>1. SessionInv => AcceptedMeansCommitted
    BY FateHonest DEF AcceptedMeansCommitted, Told
  <1>2. SessionInv => RefusedNotCommitted
    BY DEF SessionInv, Staged
  <1> QED
    BY <1>1, <1>2, SessionInductive, PTL

(* With the statuses of LMTPData: each recipient that is not told of a     *)
(* failure has the body at all its targets, when the targets that report   *)
(* on each address have no address of two recipients.                      *)
THEOREM SessionAnswerHonest == Spec => [](AliasesApart => AnswerHonest)
  <1>1. SessionInv => AcceptedMeansCommitted
    BY FateHonest DEF AcceptedMeansCommitted, Told
  <1>2. SessionInv => RefusedNotCommitted
    BY DEF SessionInv, Staged
  <1>3. SessionInv /\ AliasesApart => StatusesHonest
    BY FateHonest DEF StatusesHonest, Told
  <1>4. SessionInv => (AliasesApart => AnswerHonest)
    BY <1>1, <1>2, <1>3 DEF AnswerHonest
  <1> QED
    BY <1>4, SessionInductive, PTL

(* checkRcpt, checkStates and the block look-up by-pass no check for a     *)
(* recipient that is accepted, and applyResults puts a quarantine on every *)
(* message that is committed through Body.                                 *)
THEOREM SessionChecksHeeded == Spec => []ChecksHeeded
  <1>1. ASSUME SessionInv, delivery, NEW r \in accepted, NEW w \in Duty(r) PROVE Done(w, r)
    BY <1>1 DEF SessionInv, Served
  <1>2. ASSUME SessionInv, delivery, NEW r \in accepted, NEW cs, NEW a, NEW ch \in cs,
               See(cs, a) \subseteq Duty(r)
        PROVE  ch \in states /\ a \in seen[ch]
    <2>1. <<"see", a, ch>> \in Duty(r)
      BY <1>2 DEF See
    <2>2. Done(<<"see", a, ch>>, r)
      BY <1>1, <1>2, <2>1
    <2> QED
      BY <2>2 DEF Done, Seen
  <1>3. ASSUME SessionInv, delivery, NEW r \in accepted, NEW ch \in GlobalChecks \union SourceChecks
        PROVE  r \in seen[ch]
    <2>1. See(GlobalChecks, r) \subseteq Duty(r) /\ See(SourceChecks, r) \subseteq Duty(r)
      BY DEF Duty
    <2> QED
      BY <1>2, <1>3, <2>1
  <1>4. ASSUME SessionInv, delivery, NEW r \in accepted, NEW i \in DOMAIN Rewrite[r],
               NEW ch \in BlockChecks[BlockOf[Rewrite[r][i]]]
        PROVE  ch \in states /\ Rewrite[r][i] \in seen[ch]
    <2>1. See(BlockChecks[BlockOf[Rewrite[r][i]]], Rewrite[r][i]) \subseteq Duty(r)
      BY DEF Duty, Behind, AtBlock, Becomes
    <2> QED
      BY <1>2, <1>4, <2>1
  <1>5. SessionInv => AllChecksRan
    BY <1>3, <1>4 DEF AllChecksRan
  <1>6. SessionInv => ChecksHeeded
    BY <1>5 DEF SessionInv, Staged, ChecksHeeded
  <1> QED
    BY <1>6, SessionInductive, PTL
=============================================================================
