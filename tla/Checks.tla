------------------------------- MODULE Checks -------------------------------
(***************************************************************************)
(* The checks a message passes on its way in.  One message goes through    *)
(* the stages of internal/msgpipeline/check_runner.go (early, connection,  *)
(* sender, recipient, body, verdict) with one check configured (`focus`),  *)
(* or, for "auth", with SPF, DKIM and DMARC together, because SPF leaves   *)
(* its failures to DMARC and DMARC needs the results of the other two.     *)
(*                                                                         *)
(* What the outside world answers (resolvers, milters, rspamd, commands,   *)
(* tables) is chosen when the check asks; `ans` remembers the answers, for *)
(* the properties only.                                                    *)
(***************************************************************************)
EXTENDS Integers, Sequences, FiniteSets, FiniteSetsExt

CONSTANTS
    Focuses,       \* the checks that the run configures
    SpfResults,    \* the SPF results told apart; all but "pass" have an action
    Records,       \* the DMARC policy records: p=, sp=, pct= below 100, strict alignment
    Score,         \* DNSBL zone -> score; a negative one is an allow list
    QuarThreshold, \* dnsbl quarantine_threshold
    RejThreshold   \* dnsbl reject_threshold

ASSUME AuthAssumption ==
    /\ SpfResults \subseteq {"none", "neutral", "pass", "fail", "softfail", "temperror", "permerror"}
    /\ Records \subseteq [p : {"none", "quarantine", "reject"}, sp : {"unset", "none", "quarantine", "reject"},
                         pct : BOOLEAN, strict : BOOLEAN]

ASSUME ScoreAssumption == DOMAIN Score # {} /\ \A z \in DOMAIN Score : Score[z] \in Int

VARIABLES
    focus,  \* the check that is configured
    conf,   \* its configuration
    msg,    \* the connection and the sender of the message
    stage,  \* the stage the pipeline is in
    todo,   \* the goroutines of the body stage that have not returned
    st,     \* the CheckState objects of this message
    ans,    \* the answers seen so far (history)
    out     \* what the runner has merged: verdict and authentication results

vars == <<focus, conf, msg, stage, todo, st, ans, out>>

-----------------------------------------------------------------------------
(* Check results and configured actions *)

Actions == {"ignore", "quarantine", "reject"}

None == [reject |-> FALSE, quar |-> FALSE, why |-> FALSE]
Reason == [None EXCEPT !.why = TRUE]
Refuse == [Reason EXCEPT !.reject = TRUE]

\* An action directive: anything but reject and quarantine is "ignore" or an
\* error at start; the codes and texts that may follow do not matter here.
ParseActionDirective(args) ==
    IF args # <<>> /\ Head(args) \in Actions THEN Head(args) ELSE "invalid"

FailActionDirective(args) == {ParseActionDirective(args)} \ {"invalid"}

Configurable == UNION {FailActionDirective(<<a>>) : a \in Actions}

\* FailAction.Apply touches only results that carry a reason.
Apply(act, res) ==
    IF res.why
    THEN [res EXCEPT !.quar = @ \/ act = "quarantine", !.reject = @ \/ act = "reject"]
    ELSE res

\* runAndMergeResults: a result that asks for both is only quarantined.
Merge(o, res) ==
    CASE res.quar                -> [o EXCEPT !.quar = TRUE]
      [] ~res.quar /\ res.reject -> [o EXCEPT !.reject = TRUE]
      [] OTHER                   -> o

-----------------------------------------------------------------------------
(* DMARC *)

NoRecord == [err |-> "", at |-> "", rec |-> {}]

\* What one TXT lookup may bring: an error, nothing, records that are not
\* exactly one policy, a policy that does not parse, a policy.
Txt(kind) == [kind |-> kind, rec |-> {}]

FromTxt(a, where) ==
    CASE a.kind = "policy"  -> [err |-> "", at |-> where, rec |-> a.rec]
      [] a.kind = "several" -> NoRecord
      [] a.kind = "temp"    -> [NoRecord EXCEPT !.err = "temp"]
      [] OTHER              -> [NoRecord EXCEPT !.err = "perm"]

\* FetchRecord: the From domain first, then the organisational domain.
FetchRecord(a, orgA) ==
    CASE a.kind # "notfound"                            -> FromTxt(a, "from")
      [] a.kind = "notfound" /\ orgA.kind # "notfound" -> FromTxt(orgA, "org")
      [] OTHER                                          -> NoRecord

\* The zone does not change while the message is handled, but every lookup
\* may fail on its own.
Lookups ==
    {FetchRecord(msg.txt[1], msg.txt[2])} \cup {FromTxt(Txt(e), "") : e \in {"temp", "perm"}}

PolicyOf(f) ==
    LET r == CHOOSE r \in f.rec : TRUE
    IN  IF f.at = "org" /\ r.sp # "unset" THEN r.sp ELSE r.p

\* ExtractFromDomain fails when there is not exactly one From address.
ExtractFromDomain == msg.hdr = "one"

\* Domains are told apart by their relation to the From domain.
Domains == {"same", "sameorg", "other", "empty"}

isAligned(dom, r) == dom = "same" \/ (dom = "sameorg" /\ ~r.strict)

\* Variant: the SPF identifier counts without having passed.
EvaluateUnpassed(r) ==
    LET aligned == isAligned(msg.dom, r) \/ \E d \in out.dkim : d.val = "pass" /\ isAligned(d.dom, r)
    IN  IF out.dkim = {} \/ out.spf = "absent" THEN "none" ELSE IF aligned THEN "pass" ELSE "fail"

EvaluateAlignment(r) ==
    LET good == {d \in out.dkim : isAligned(d.dom, r)}
        dkimAligned == \E d \in good : d.val = "pass"
        spfAligned  == out.spf = "pass" /\ isAligned(msg.dom, r)
    IN  CASE out.dkim = {} \/ out.spf = "absent" -> "none"
          [] OTHER ->
             IF /\ \E d \in good : d.val = "temperror"
                /\ ~dkimAligned /\ ~spfAligned
             THEN "temperror"
             ELSE IF ~dkimAligned /\ out.spf = "temperror" THEN "temperror"
             ELSE IF dkimAligned \/ spfAligned THEN "pass" ELSE "fail"

\* Verifier.FetchRecord starts the lookup before the body checks run.
VerifierFetch ==
    IF conf.dmarc /\ ExtractFromDomain THEN {"fetch"} ELSE {}

VerifierLookup ==
    /\ "fetch" \in todo
    /\ \E f \in Lookups \cup {[NoRecord EXCEPT !.err = "panic"]} :
          st' = [st EXCEPT !.rec = f]
    /\ todo' = todo \ {"fetch"}
    /\ UNCHANGED <<focus, conf, msg, stage, ans, out>>

\* Variant: a lookup that failed counts as no policy.
PolicyOpen(f, sampled) ==
    IF ~conf.dmarc \/ f.err # "" \/ f.rec = {} THEN "none"
    ELSE IF EvaluateAlignment(CHOOSE r \in f.rec : TRUE) \in {"pass", "none"} THEN "none"
    ELSE PolicyOf(f)

\* Verifier.Apply and applyResults: temporary errors fail closed; pct= leaves
\* a random share of the messages alone.
Policy(f, sampled) ==
    CASE ~conf.dmarc          -> "none"
      [] f.err = "temp"       -> "reject"
      [] f.err # ""           -> "none"
      [] f.rec = {}           -> "none"
      [] OTHER ->
           LET r == CHOOSE r \in f.rec : TRUE
           IN  IF EvaluateAlignment(r) \in {"pass", "none"} \/ (r.pct /\ ~sampled)
               THEN "none" ELSE PolicyOf(f)

applyResults ==
    /\ stage = "verdict" /\ "fetch" \notin todo
    /\ \E sampled \in BOOLEAN :
          LET f == IF conf.dmarc /\ ~ExtractFromDomain
                   THEN [NoRecord EXCEPT !.err = "perm"] ELSE st.rec
              p == Policy(f, sampled)
          IN  /\ out' = [out EXCEPT !.reject = @ \/ p = "reject",
                                    !.quar = @ \/ p = "quarantine"]
              /\ ans' = IF conf.dmarc
                        THEN ans \cup {<<"dmarc", f.err>>, <<"pct", sampled>>} ELSE ans
    /\ stage' = "done"
    /\ UNCHANGED <<focus, conf, msg, todo, st>>

-----------------------------------------------------------------------------
(* Leaving a stage *)

Order == <<"early", "conn", "sender", "rcpt", "body", "verdict">>

After(s) == Order[(CHOOSE i \in DOMAIN Order : Order[i] = s) + 1]

\* A result of the handler of a stage before the body: a reject ends the
\* message there.
Leave(res) ==
    LET o == Merge(out, res)
    IN  /\ out' = o
        /\ stage' = IF o.reject THEN "done" ELSE After(stage)
        /\ todo' = IF stage' = "body"
                   THEN VerifierFetch \cup
                        (IF focus = "auth"
                         THEN {"spf"} \cup (IF conf.dkim THEN {"dkim"} ELSE {})
                         ELSE {focus})
                        \cup todo
                   ELSE todo
        /\ UNCHANGED <<focus, conf, msg>>

Unasked == UNCHANGED <<st, ans>>

\* A body handler that returned `res`.
Return(c, res) ==
    /\ out' = Merge(out, res)
    /\ todo' = todo \ {c}
    /\ UNCHANGED <<focus, conf, msg, stage>>

\* runAndMergeResults waits for every body check; applyResults then waits for
\* the DMARC lookup.
checkBody ==
    /\ stage = "body"
    /\ todo \subseteq {"lookup", "fetch"}
    /\ stage' = IF out.reject THEN "done" ELSE "verdict"
    /\ UNCHANGED <<focus, conf, msg, todo, st, ans, out>>

-----------------------------------------------------------------------------
(* SPF *)

\* One action per result can be configured; `conf.act` is the one configured
\* for the results other than pass.
spfResult(r) == IF r = "pass" THEN None ELSE Apply(conf.act, Reason)

\* prepareMailFrom: an address that does not split is refused.
prepareMailFrom == msg.from # "malformed"

SpfSkip == msg.conn # "tcp" \/ msg.from = "literal"

SpfConnection ==
    /\ focus = "auth" /\ stage = "conn"
    /\ IF SpfSkip \/ ~prepareMailFrom
       THEN /\ st' = [st EXCEPT !.skip = TRUE]
            /\ ans' = ans
            /\ Leave(IF SpfSkip THEN None ELSE Refuse)
       ELSE IF conf.early
       THEN \E r \in SpfResults :
              /\ ans' = ans \cup {<<"spf", r>>}
              /\ st' = [st EXCEPT !.spf = r]
              /\ LET o == [Merge(out, spfResult(r)) EXCEPT !.spf = r]
                 IN  /\ out' = o
                     /\ stage' = IF o.reject THEN "done" ELSE "sender"
              /\ UNCHANGED <<focus, conf, msg, todo>>
       ELSE /\ out' = out /\ stage' = "sender" /\ todo' = todo \cup {"lookup"}
            /\ UNCHANGED <<focus, conf, msg, st, ans>>

\* Variant: a panic leaves the channel open and empty.
SpfLookupLeaks ==
    /\ "lookup" \in todo
    /\ \E r \in SpfResults \cup {""} : st' = [st EXCEPT !.spf = r]
    /\ todo' = todo \ {"lookup"}
    /\ UNCHANGED <<focus, conf, msg, stage, ans, out>>

\* The goroutine of CheckConnection; a panic closes the channel.
SpfLookup ==
    /\ "lookup" \in todo
    /\ \E r \in SpfResults \cup {"panic"} : st' = [st EXCEPT !.spf = r]
    /\ todo' = todo \ {"lookup"}
    /\ UNCHANGED <<focus, conf, msg, stage, ans, out>>

\* relyOnDMARC makes a lookup of its own.
relyOnDMARC(f) ==
    ExtractFromDomain /\ f.err = "" /\ f.rec # {} /\ PolicyOf(f) # "none"

SpfBody ==
    /\ focus = "auth" /\ stage = "body" /\ "spf" \in todo
    /\ IF conf.early \/ st.skip THEN Return("spf", None) /\ Unasked
       ELSE /\ st.spf # ""
            /\ IF st.spf = "panic"
               THEN /\ Return("spf", Refuse)
                    /\ ans' = ans \cup {<<"spf", "panic">>} /\ st' = st
               ELSE \E f \in Lookups :
                      /\ out' = [(IF relyOnDMARC(f) THEN out ELSE Merge(out, spfResult(st.spf)))
                                   EXCEPT !.spf = st.spf]
                      /\ ans' = ans \cup {<<"spf", st.spf>>}
                                    \cup {<<"defer", r>> : r \in IF relyOnDMARC(f) THEN f.rec ELSE {}}
                      /\ todo' = todo \ {"spf"}
                      /\ UNCHANGED <<focus, conf, msg, stage, st>>

-----------------------------------------------------------------------------
(* DKIM *)

Signatures == [val : {"pass", "permerror", "temperror"}, dom : {"same", "other"}]

\* A signature that could not be verified beside a good one.
Mixed == {{[val |-> "temperror", dom |-> "same"], [val |-> "pass", dom |-> d]} : d \in {"same", "other"}}

NoSignature == {[val |-> "none", dom |-> "empty"]}

\* A good signature that leaves a required field unsigned has become a
\* "permerror" in `sigs`, as in the loop of CheckBody.
DkimBody ==
    /\ focus = "auth" /\ stage = "body" /\ "dkim" \in todo
    /\ \E sigs \in {s \in SUBSET Signatures : Cardinality(s) <= 1} \cup Mixed :
       LET temp == \E s \in sigs : s.val = "temperror"
           good == \E s \in sigs : s.val = "pass"
           res  == CASE msg.from = "literal" -> None
                     [] msg.from # "literal" /\ temp /\ ~conf.open -> Refuse
                     [] OTHER -> IF good THEN None ELSE Apply(conf.sig, Reason)
       IN  /\ out' = [Merge(out, res) EXCEPT
                        !.dkim = IF msg.from = "literal" \/ (temp /\ ~conf.open) THEN @
                                 ELSE IF sigs = {} THEN NoSignature ELSE sigs]
           /\ ans' = IF msg.from = "literal" THEN ans
                     ELSE ans \cup {<<"dkim", IF temp THEN "temp" ELSE IF good THEN "good" ELSE "bad">>}
    /\ todo' = todo \ {"dkim"}
    /\ UNCHANGED <<focus, conf, msg, stage, st>>

-----------------------------------------------------------------------------
(* DNS block lists *)

Zones == DOMAIN Score

\* A list reads the address of the client when it covers its family, and the
\* name given with EHLO.  CheckConnection hands checkLists an empty MAIL FROM,
\* so that the sender domain is never looked up, whatever `mailfrom` says.
checkIP(a)     == a.ip
checkDomain(a) == a.ehlo

checkList(a) ==
    IF checkIP(a) # "clean" THEN checkIP(a) ELSE checkDomain(a)

\* readListCfg refuses a list with a negative score that looks at names the
\* client chooses.
readListCfg(z) == IF Score[z] < 0 THEN {"clean"} ELSE {"clean", "listed"}

ListAnswers(z) == [ip : {"clean", "listed", "error"}, ehlo : readListCfg(z)]

AllAnswers == {a \in [Zones -> UNION {ListAnswers(z) : z \in Zones}] : \A z \in Zones : a[z] \in ListAnswers(z)}

checkLists(a) ==
    LET score == MapThenSumSet(LAMBDA z : Score[z],
                                {z \in Zones : checkList(a[z]) = "listed"})
    IN  CASE \E z \in Zones : checkList(a[z]) = "error" -> Refuse
          [] OTHER -> IF score >= RejThreshold THEN Refuse
                      ELSE IF score >= QuarThreshold THEN [Reason EXCEPT !.quar = TRUE]
                      ELSE None

\* Variant: the result is kept only when it is not enforced early.
DnsblDropped ==
    /\ focus = "dnsbl" /\ stage = "early"
    /\ IF msg.conn # "tcp" THEN Leave(None) /\ Unasked
       ELSE \E a \in AllAnswers :
              LET res == checkLists(a)
              IN  /\ ans' = ans \cup {<<"dnsbl", z, checkList(a[z])>> : z \in Zones}
                  /\ IF conf.early
                     THEN Leave([res EXCEPT !.quar = FALSE]) /\ st' = st
                     ELSE Leave(None) /\ st' = [st EXCEPT !.kept = res]

\* DNSBL.CheckConnection, run when the connection opens: without check_early
\* the result waits in ModData for the message.
DnsblEarly ==
    /\ focus = "dnsbl" /\ stage = "early"
    /\ IF msg.conn # "tcp" THEN Leave(None) /\ Unasked
       ELSE \E a \in AllAnswers :
              LET res == checkLists(a)
              IN  /\ ans' = ans \cup {<<"dnsbl", z, checkList(a[z])>> : z \in Zones}
                  /\ IF res.reject /\ conf.early
                     THEN Leave(res) /\ st' = st
                     ELSE Leave(None) /\ st' = [st EXCEPT !.kept = res]

\* CheckConnection of the message: the stored result, if there is one.
DnsblConnection ==
    /\ focus = "dnsbl" /\ stage = "conn"
    /\ Leave(IF msg.conn = "local" THEN None ELSE st.kept)
    /\ Unasked

-----------------------------------------------------------------------------
(* Milter *)

MilterCodes == {"continue", "accept", "replycode", "discard", "tempfail", "reject", "unknown", "ioerr"}

\* handleAction: a silent discard is refused like a temporary failure, codes
\* that are not known are ignored.
handleAction(a) ==
    [res  |-> IF a \in {"replycode", "discard", "tempfail", "reject"} THEN Refuse ELSE None,
     skip |-> a = "accept"]

\* ioError: fail_open lets the message through and asks no further.
ioError == [res |-> IF conf.open THEN None ELSE Refuse, skip |-> conf.open]

MilterReply(a) == IF a = "ioerr" THEN ioError ELSE handleAction(a)

Ask(a) ==
    /\ ans' = ans \cup {<<"milter", a>>}
    /\ st' = [st EXCEPT !.skip = @ \/ MilterReply(a).skip]

\* CheckStateForMsg opens the session with the milter: an error there ends the
\* message even under fail_open.
MilterSession ==
    /\ focus = "milter" /\ stage = "early"
    /\ \E ok \in BOOLEAN :
          /\ ans' = IF ok THEN ans ELSE ans \cup {<<"session", "error">>}
          /\ Leave(IF ok THEN None ELSE Refuse)
    /\ st' = st

\* CheckConnection sends CONNECT and HELO unless the milter opted out of them;
\* only an answer other than "continue" to the first ends the stage.
MilterConnection ==
    /\ focus = "milter" /\ stage = "conn"
    /\ \E a \in IF msg.conn # "local" /\ conf.opt = "noconnect" THEN {"continue"} ELSE MilterCodes :
         IF a # "continue"
         THEN Ask(a) /\ Leave(MilterReply(a).res)
         ELSE \E h \in IF msg.conn # "local" /\ conf.opt = "nohelo" THEN {"continue"} ELSE MilterCodes :
                Ask(h) /\ Leave(MilterReply(h).res)

\* CheckSender reads the connection of a message that has none when the
\* message is a local one: the goroutine panics, and the runner goes on as if
\* the check had passed.
MilterSender ==
    /\ focus = "milter" /\ stage = "sender"
    /\ IF st.skip \/ conf.opt = "nomailfrom" THEN Leave(None) /\ Unasked
       ELSE IF msg.conn = "local"
       THEN Leave(None) /\ st' = [st EXCEPT !.panicked = TRUE] /\ ans' = ans
       ELSE \E a \in MilterCodes : Ask(a) /\ Leave(MilterReply(a).res)

MilterRcpt ==
    /\ focus = "milter" /\ stage = "rcpt"
    /\ IF st.skip THEN Leave(None) /\ Unasked
       ELSE \E a \in MilterCodes : Ask(a) /\ Leave(MilterReply(a).res)

\* apply: of the modifications only a quarantine and added fields count.
MilterApply(res, quarantine) ==
    IF quarantine THEN [res EXCEPT !.quar = TRUE, !.why = TRUE] ELSE res

MilterBody ==
    /\ focus = "milter" /\ stage = "body" /\ "milter" \in todo
    /\ IF st.skip THEN Return("milter", None) /\ Unasked
       ELSE \E h \in MilterCodes :
              IF h # "continue"
              THEN Ask(h) /\ Return("milter", MilterReply(h).res)
              ELSE \E a \in MilterCodes, q \in BOOLEAN :
                     /\ st' = [st EXCEPT !.skip = @ \/ MilterReply(a).skip]
                     /\ ans' = ans \cup {<<"milter", a>>} \cup
                               (IF q /\ a # "ioerr" THEN {<<"milter", "quarantine">>} ELSE {})
                     /\ Return("milter", IF a = "ioerr" THEN ioError.res
                                         ELSE MilterApply(handleAction(a).res, q))

-----------------------------------------------------------------------------
(* rspamd and external commands *)

RspamdAnswers == {"ioerr", "http_error", "bad_json", "no action", "greylist", "add header",
                  "rewrite subject", "soft reject", "reject", "other"}

\* conf.act stands for the action configured for the answer at hand.
RspamdBody ==
    /\ focus = "rspamd" /\ stage = "body" /\ "rspamd" \in todo
    /\ \E a \in RspamdAnswers :
          /\ Return("rspamd",
               CASE a \in {"soft reject", "reject"} -> Refuse
                 [] a \in {"ioerr", "http_error", "bad_json", "add header", "rewrite subject"} ->
                      Apply(conf.act, Reason)
                 [] OTHER -> None)
          /\ ans' = ans \cup {<<"rspamd", a>>}
    /\ st' = st

\* Exit codes with an action, one without, and a command that cannot be run.
ExitCodes == {"ok", "code1", "code2", "mapped", "unmapped", "broken"}

CodeAction(e) == CASE e = "code1" -> "reject" [] e = "code2" -> "quarantine" [] e = "mapped" -> conf.act

errorRes(e) == IF e \in {"unmapped", "broken"} THEN Refuse ELSE Apply(CodeAction(e), Reason)

CommandRun(e) == IF e = "ok" THEN None ELSE errorRes(e)

\* The command runs at the stage named by run_on only.
CommandStage ==
    /\ focus = "command" /\ stage \in {"conn", "sender", "rcpt"}
    /\ IF conf.at # stage THEN Leave(None) /\ Unasked
       ELSE \E e \in ExitCodes :
              Leave(CommandRun(e)) /\ ans' = ans \cup {<<"command", e>>} /\ st' = st

CommandBody ==
    /\ focus = "command" /\ stage = "body" /\ "command" \in todo
    /\ IF conf.at # "body" THEN Return("command", None) /\ Unasked
       ELSE \E e \in ExitCodes :
              Return("command", CommandRun(e)) /\ ans' = ans \cup {<<"command", e>>} /\ st' = st

-----------------------------------------------------------------------------
(* Authorisation of the sender address *)

\* What the normalisation and the two tables say of an address.
Authorisations == {"yes", "no", "error"}

authzSender(a) ==
    CASE msg.auth = ""                 -> Apply(conf.act, Reason)
      [] msg.auth # "" /\ a = "error"  -> Apply(conf.err, Reason)
      [] msg.auth # "" /\ a = "no"     -> Apply(conf.act, Reason)
      [] OTHER                         -> None

AuthorizeSender ==
    /\ focus = "authorize" /\ stage = "sender"
    /\ IF msg.conn = "local" THEN Leave(None) /\ Unasked
       ELSE \E a \in Authorisations :
              /\ Leave(authzSender(a)) /\ st' = st
              /\ ans' = ans \cup {<<"authorize", IF msg.auth = "" THEN "no" ELSE a>>}

\* CheckBody: the From field has to hold one address, which the user may use,
\* or the Sender field one that he may.
AuthorizeBody ==
    /\ focus = "authorize" /\ stage = "body" /\ "authorize" \in todo
    /\ IF msg.conn = "local" \/ ~conf.early
       THEN Return("authorize", None) /\ Unasked
       ELSE \E from \in Authorisations, sender \in Authorisations \cup {"absent", "malformed"} :
              LET res == CASE ~ExtractFromDomain \/ sender = "malformed" -> Apply(conf.err, Reason)
                           [] OTHER ->
                                IF ~authzSender(from).why THEN None
                                ELSE IF sender # "absent" /\ ~authzSender(sender).why THEN None
                                ELSE Apply(conf.act, Reason)
              IN  /\ Return("authorize", res) /\ st' = st
                  /\ ans' = IF ExtractFromDomain /\ sender # "malformed"
                            THEN ans \cup {<<"authorize",
                                    IF msg.auth # "" /\ "yes" \in {from, sender} THEN "yes" ELSE "no">>}
                            ELSE ans \cup {<<"authorize", "error">>}

-----------------------------------------------------------------------------
(* Stateless checks *)

\* CheckConnection of a stateless check: its function, then its action.
requireMatchingRDNS(a) ==
    IF msg.conn = "local" \/ a \in {"off", "ip", "match"} THEN None ELSE Reason

requireTLS(a) == IF msg.conn # "local" /\ a = "tls" THEN None ELSE Reason

StatelessConnection ==
    /\ focus \in {"rdns", "tls"} /\ stage = "conn"
    /\ \E a \in IF focus = "rdns" THEN {"off", "ip", "match", "mismatch", "noptr", "error"} ELSE {"tls", "plain"} :
          /\ Leave(Apply(conf.act, IF focus = "rdns" THEN requireMatchingRDNS(a) ELSE requireTLS(a)))
          /\ ans' = IF msg.conn = "local" THEN ans ELSE ans \cup {<<focus, a>>}
    /\ st' = st

requireMXRecord(a) ==
    IF msg.from \in {"null", "literal"} \/ (msg.from = "addr" /\ a = "mx") THEN None ELSE Reason

StatelessSender ==
    /\ focus = "mx" /\ stage = "sender"
    /\ \E a \in {"mx", "nomx", "nullmx", "error"} :
          /\ Leave(Apply(conf.act, requireMXRecord(a)))
          /\ ans' = IF msg.from = "addr" THEN ans \cup {<<"mx", a>>} ELSE ans
    /\ st' = st

-----------------------------------------------------------------------------
(* The encryption requirement of chatmail *)

\* A payload is a sequence of packets, each of a kind and with a length that
\* may run past the end of the data.
Packets == [tag : {"pkesk", "seipd", "other"}, fits : BOOLEAN]

\* Only session keys before one final SEIPD packet that ends the data.
isEncryptedOpenPGPPayload(p) ==
    /\ p # <<>>
    /\ \A i \in 1..Len(p) : p[i].fits
    /\ \A i \in 1..(Len(p) - 1) : p[i].tag = "pkesk"
    /\ p[Len(p)].tag = "seipd"

\* Armoured or binary: the armour has to have a blank line and valid base64.
isValidEncryptedPayload(d) == d.armour # "broken" /\ isEncryptedOpenPGPPayload(d.packets)

\* The parts of a multipart message, as far as the check looks at them.
IsValidEncryptedMessage(b) ==
    /\ b.type = "multipart/encrypted"
    /\ b.version /\ b.octets /\ b.parts = 2
    /\ isValidEncryptedPayload(b)

IsSecureJoinMessage(b) ==
    b.joinHdr /\ b.type = "multipart/mixed" /\ b.parts >= 1 /\ b.joinBody

Payloads == {<<>>} \cup {<<p>> : p \in Packets} \cup {<<p, q>> : p \in Packets, q \in Packets}

\* Bodies: encrypted ones that may be damaged, secure-join ones, plain ones and
\* ones whose content type does not parse.
Body(type, parts, version, joinHdr, joinBody, packets) ==
    [type |-> type, parts |-> parts, version |-> version, octets |-> TRUE, joinHdr |-> joinHdr,
     joinBody |-> joinBody, armour |-> "binary", packets |-> packets]

Bodies ==
    {Body("multipart/encrypted", n, v, FALSE, FALSE, p) : n \in 1..3, v \in BOOLEAN, p \in Payloads}
    \cup {[Body("multipart/encrypted", 2, TRUE, FALSE, FALSE, <<>>) EXCEPT !.armour = "broken"]}
    \cup {Body("multipart/mixed", n, FALSE, h, b, <<>>) : n \in 0..1, h \in BOOLEAN, b \in BOOLEAN}
    \cup {Body(t, 0, FALSE, h, FALSE, <<>>) : t \in {"text/plain", "unparsable"}, h \in BOOLEAN}

\* Recipients: in a passthrough list, ordinary, without exactly one "@".
RcptKinds == {"passthrough", "plain", "malformed"}

recipientMatchesPassthrough(r) == r = "passthrough"

\* The recipients in the order they came; the first that decides, decides.
PgpVerdict(rcpts, b) ==
    LET bad(r) == /\ ~recipientMatchesPassthrough(r)
                  /\ \/ r = "malformed"
                     \/ b.type = "unparsable"
                     \/ ~IsValidEncryptedMessage(b) /\ ~(conf.open /\ IsSecureJoinMessage(b))
    IN  IF \E r \in rcpts : bad(r) THEN Refuse ELSE None

PgpRcpt ==
    /\ focus = "pgp" /\ stage = "rcpt"
    /\ \E rs \in SUBSET RcptKinds \ {{}} : st' = [st EXCEPT !.rcpts = rs]
    /\ Leave(None) /\ ans' = ans

\* CheckBody: trusted senders, then bounces of a mailer daemon, then the match
\* of the From field with the envelope, then the recipients.
PgpBody ==
    /\ focus = "pgp" /\ stage = "body" /\ "pgp" \in todo
    /\ \E b \in Bodies, who \in {"trusted", "daemon", "mismatch", "same"} :
         LET res == CASE ~conf.early                 -> None
                      [] who \in {"trusted", "daemon"} -> None
                      [] who = "mismatch"            -> Refuse
                      [] OTHER                       -> PgpVerdict(st.rcpts, b)
         IN  /\ Return("pgp", IF conf.early THEN res ELSE None)
             /\ ans' = ans \cup {<<"pgp", who, b>>}
    /\ st' = st

-----------------------------------------------------------------------------
(* Modifiers: a group of replace_sender, replace_rcpt and the DKIM signer *)

\* Looking an address up in a table, whole or by its local part.
TableAnswers == {"error", "hit", "invalid", "miss"}

\* rewrite: the address first, then its local part; an address that does not
\* split is left alone, a replacement that is no address is an error.
rewrite(whole, local) ==
    CASE msg.from = "malformed" \/ whole \in {"error", "invalid"}  -> "error"
      [] msg.from # "malformed" /\ whole = "hit"                  -> "replaced"
      [] msg.from = "null" /\ whole = "miss"                      -> "same"
      [] OTHER -> CASE local \in {"error", "invalid"} -> "error"
                    [] local = "hit"                  -> "replaced"
                    [] local = "miss"                 -> "same"

\* The group hands on an error of any of its members.
ModifierGroup(results) == IF "error" \in results THEN Refuse ELSE None

\* Group.ModStateForMsg frees the states it has when one fails to start.
ModStateForMsg ==
    /\ focus = "modify" /\ stage = "early"
    /\ \E ok \in BOOLEAN :
          /\ Leave(ModifierGroup({IF ok THEN "same" ELSE "error"}))
          /\ ans' = IF ok THEN ans ELSE ans \cup {<<"modify", "error">>}
    /\ st' = st

\* RewriteSender and RewriteRcpt.
RewriteAddress ==
    /\ focus = "modify" /\ stage \in {"sender", "rcpt"}
    /\ \E whole \in TableAnswers, local \in TableAnswers :
          LET r == rewrite(whole, local)
          IN  /\ Leave(ModifierGroup({r, "same"}))
              /\ ans' = ans \cup {<<"modify", r>>}
    /\ st' = st

\* The signer: the domain of the sender, or the first one for a null sender;
\* without a key for it, or without an A-label form, the message goes out
\* unsigned and without an error.
SignBody ==
    /\ focus = "modify" /\ stage = "body" /\ "modify" \in todo
    /\ \E key, ascii, io \in BOOLEAN :
          LET r == CASE msg.from = "malformed"  -> "error"
                     [] msg.from # "malformed" /\ ~(key /\ ascii) -> "unsigned"
                     [] OTHER -> IF io THEN "signed" ELSE "error"
          IN  /\ Return("modify", ModifierGroup({r}))
              /\ ans' = ans \cup {<<"modify", r>>}
    /\ st' = st

-----------------------------------------------------------------------------
(* The message *)

\* The body cannot be opened: every check that reads it refuses the message.
BodyUnreadable ==
    /\ stage = "body"
    /\ \E c \in todo \cap {"dkim", "milter", "rspamd", "command", "pgp"} :
          /\ c = "dkim" => msg.from # "literal"
          /\ c = "milter" => ~st.skip /\ conf.opt # "nobody"
          /\ c = "command" => conf.at = "body"
          /\ c = "pgp" => conf.early /\ "plain" \in st.rcpts
          /\ Return(c, Refuse)
    /\ ans' = ans \cup {<<"body", "unreadable">>} /\ st' = st

\* Stages at which the configured check does nothing.
Idle == [early    |-> {"auth", "rspamd", "command", "authorize", "rdns", "tls", "mx", "pgp"},
         conn     |-> {"rspamd", "authorize", "mx", "pgp", "modify"},
         sender   |-> {"auth", "dnsbl", "rspamd", "rdns", "tls", "pgp"},
         rcpt     |-> {"auth", "dnsbl", "rspamd", "authorize", "rdns", "tls", "mx"},
         body     |-> {"dnsbl", "rdns", "tls", "mx"}]

PassThrough ==
    \/ stage \in {"early", "conn", "sender", "rcpt"} /\ focus \in Idle[stage] /\ Leave(None) /\ Unasked
    \/ stage = "body" /\ focus \in todo \cap Idle.body /\ Return(focus, None) /\ Unasked

\* The settings of the checks, as their Init functions read them.  `early` is
\* enforce_early, check_early, check_header or require_encryption, `open` is
\* fail_open or allow_secure_join.
Defaults ==
    [act |-> "reject", sig |-> "ignore", err |-> "ignore", open |-> FALSE, early |-> FALSE,
     at |-> "body", opt |-> "all", dkim |-> FALSE, dmarc |-> FALSE]

SpfInit == {[Defaults EXCEPT !.act = a, !.early = e] : a \in Configurable, e \in BOOLEAN}

DkimInit(c) == {[c EXCEPT !.dkim = TRUE, !.sig = a, !.open = o] : a \in Configurable, o \in BOOLEAN}

DnsblInit == {[Defaults EXCEPT !.early = e] : e \in BOOLEAN}

MilterInit == {[Defaults EXCEPT !.open = o, !.opt = p] :
                  o \in BOOLEAN, p \in {"all", "noconnect", "nohelo", "nomailfrom", "nobody"}}

RspamdInit == {[Defaults EXCEPT !.act = a] : a \in Configurable}

CommandInit == {[Defaults EXCEPT !.act = a, !.at = s] :
                   a \in Configurable, s \in {"conn", "sender", "rcpt", "body"}}

AuthorizeInit == {[Defaults EXCEPT !.act = a, !.err = e, !.early = h] :
                     a \in Configurable, e \in Configurable, h \in BOOLEAN}

StatelessInit == {[Defaults EXCEPT !.act = a] : a \in Configurable}

PgpInit == {[Defaults EXCEPT !.early = r, !.open = j] : r \in BOOLEAN, j \in BOOLEAN}

Settings(f) ==
    CASE f = "auth"      -> {[c EXCEPT !.dmarc = d] :
                                c \in SpfInit \cup UNION {DkimInit(c) : c \in SpfInit}, d \in BOOLEAN}
      [] f = "dnsbl"     -> DnsblInit
      [] f = "milter"    -> MilterInit
      [] f = "rspamd"    -> RspamdInit
      [] f = "command"   -> CommandInit
      [] f = "authorize" -> AuthorizeInit
      [] f = "pgp"       -> PgpInit
      [] f \in {"rdns", "tls", "mx"} -> StatelessInit
      [] f = "modify"    -> {Defaults}

\* The TXT records of the From domain and of the organisational domain.
Zone ==
    LET Of(R) == {[Txt("policy") EXCEPT !.rec = {r}] : r \in R}
    IN  ((Of(Records) \cup {Txt("several"), Txt("garbage"), Txt("notfound")}) \X {Txt("notfound")})
        \cup ({Txt("notfound")} \X Of({r \in Records : r.sp # "unset"}))

\* The message; the sender matters only over TCP, the zone only for DMARC.
Messages(f) ==
    {m \in [conn : IF f \in {"rspamd", "command", "mx", "pgp", "modify"} THEN {"tcp"} ELSE {"tcp", "unix", "local"},
            from : IF f \in {"auth", "mx", "modify"} THEN {"addr", "null", "literal", "malformed"} ELSE {"addr"},
            hdr  : IF f \in {"auth", "authorize"} THEN {"one", "bad"} ELSE {"one"},
            dom  : IF f = "auth" THEN {"sameorg", "other"} ELSE {"other"},
            auth : IF f = "authorize" THEN {"", "user"} ELSE {""},
            txt  : IF f = "auth" THEN Zone ELSE {<<Txt("notfound"), Txt("notfound")>>}] :
        f = "auth" => /\ m.conn # "tcp" => m.from = "addr"
                      /\ m.from = "null" => m.dom = "other"
                      /\ m.hdr = "bad" => m.txt = <<Txt("notfound"), Txt("notfound")>>}

Init ==
    /\ focus \in Focuses
    /\ conf \in Settings(focus)
    /\ msg \in Messages(focus)
    /\ stage = "early"
    /\ todo = {}
    /\ st = [skip |-> FALSE, spf |-> "", rec |-> NoRecord, kept |-> None, panicked |-> FALSE, rcpts |-> {}]
    /\ ans = {}
    /\ out = [reject |-> FALSE, quar |-> FALSE, spf |-> "absent", dkim |-> {}]

Work ==
    \/ PassThrough \/ SpfConnection \/ SpfBody \/ DkimBody \/ DnsblEarly \/ DnsblConnection
    \/ MilterSession \/ MilterConnection \/ MilterSender \/ MilterRcpt \/ MilterBody
    \/ RspamdBody \/ CommandStage \/ CommandBody \/ AuthorizeSender \/ AuthorizeBody
    \/ ModStateForMsg \/ RewriteAddress \/ SignBody
    \/ StatelessConnection \/ StatelessSender \/ PgpRcpt \/ PgpBody \/ BodyUnreadable
    \/ checkBody \/ applyResults

Next == Work \/ SpfLookup \/ VerifierLookup

\* The library calls have time limits, so that every goroutine goes on.
Spec == Init /\ [][Next]_vars /\ WF_vars(Work) /\ WF_vars(SpfLookup) /\ WF_vars(VerifierLookup)

-----------------------------------------------------------------------------
(* Properties *)

Done == stage = "done"
Clean == Done /\ ~out.reject /\ ~out.quar

\* Answers that leave a check without a verdict of its own.
Undecided ==
    {<<"spf", "panic">>, <<"dkim", "temp">>, <<"dmarc", "temp">>, <<"session", "error">>,
     <<"milter", "ioerr">>, <<"body", "unreadable">>, <<"modify", "error">>, <<"command", "unmapped">>, <<"command", "broken">>}
    \cup {<<"dnsbl", z, "error">> : z \in Zones}
    \cup (IF conf.act = "reject" THEN {<<"rspamd", a>> : a \in {"ioerr", "http_error", "bad_json"}} ELSE {})
    \cup (IF conf.err = "reject" THEN {<<"authorize", "error">>} ELSE {})
    \cup (IF conf.act = "reject" THEN {<<"rdns", "error">>, <<"mx", "error">>} ELSE {})

\* A check that could not come to a verdict (a lookup that failed for now, a
\* goroutine that panicked, a milter, a table, a command or a body that could not
\* be read) refuses the message, unless fail_open is configured.
FailClosed == Done /\ ~conf.open /\ ans \cap Undecided # {} => out.reject

\* Answers that speak against the message and have an action configured.
Adverse ==
    {<<"milter", a>> : a \in {"replycode", "discard", "tempfail", "reject", "quarantine"}}
    \cup {<<"rspamd", "soft reject">>, <<"rspamd", "reject">>, <<"command", "code1">>, <<"command", "code2">>}
    \cup (IF conf.act = "ignore" THEN {}
          ELSE {<<"rspamd", "add header">>, <<"rspamd", "rewrite subject">>, <<"command", "mapped">>,
                <<"authorize", "no">>, <<"rdns", "mismatch">>, <<"rdns", "noptr">>, <<"tls", "plain">>,
                <<"mx", "nomx">>, <<"mx", "nullmx">>})
    \cup (IF conf.sig = "ignore" THEN {} ELSE {<<"dkim", "bad">>})
    \cup (IF conf.act = "ignore" \/ (\E r \in Records : <<"defer", r>> \in ans) THEN {}
          ELSE {<<"spf", r>> : r \in SpfResults \ {"pass"}})

\* The score of the lists that name the client.
Listed == MapThenSumSet(LAMBDA z : Score[z], {z \in Zones : <<"dnsbl", z, "listed">> \in ans})

\* Encrypted mail only: a plain recipient gets what is encrypted, a secure join
\* where that is allowed, and what trusted senders and mailer daemons send.
Unprotected ==
    \E a \in ans : /\ a[1] = "pgp" /\ a[2] = "same"
                   /\ conf.early /\ "plain" \in st.rcpts
                   /\ ~IsValidEncryptedMessage(a[3])
                   /\ conf.open => ~IsSecureJoinMessage(a[3])

\* Whatever any stage found against the message (a result kept in ModData
\* since the connection, a channel read two stages later, a milter's answer at
\* any stage) still counts when the message is accepted: it is refused or
\* quarantined.  SPF results left to DMARC are the subject of DeferralIsSound.
NoVerdictLost ==
    Clean => /\ ans \cap Adverse = {}
             /\ Listed < QuarThreshold
             /\ ~Unprotected

\* An SPF failure that relyOnDMARC leaves to DMARC is acted on by DMARC: with
\* DMARC and DKIM configured, the policy found by the verifier, pct= not
\* excluding it and no signature of an aligned domain, the message is not
\* accepted clean.
DeferralIsSound ==
    \A r \in Records :
       /\ <<"defer", r>> \in ans /\ conf.dmarc /\ conf.dkim
       /\ st.rec.rec = {r} /\ (r.pct => <<"pct", TRUE>> \in ans)
       /\ <<"spf", "pass">> \notin ans
       /\ ~\E d \in out.dkim : d.val = "pass" /\ isAligned(d.dom, r)
       => ~Clean

\* Every message gets its verdict: no stage waits for a goroutine that has gone.
VerdictReached == <>Done

=============================================================================
