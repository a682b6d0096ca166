------------------------------- MODULE Remote -------------------------------
(***************************************************************************)
(* Delivery to other servers: target.remote with its HTTP and SMTP paths,  *)
(* the pool of idle connections and the MX policies, the /mxdeliv handler  *)
(* that answers the HTTP path on the other side, and target.smtp and       *)
(* target.lmtp.                                                            *)
(*                                                                         *)
(* A delivery has one goroutine per recipient domain.  The goroutines      *)
(* share the policy objects of the delivery and the flag RequireTLS of the *)
(* message; all deliveries share the pool and the limits.  What only one   *)
(* goroutine touches (the HTTP attempts, the dialogue on a connection it   *)
(* owns) is one step.  The peers and the DNS answer as they like.          *)
(***************************************************************************)
EXTENDS Integers, Sequences, FiniteSets, SequencesExt

CONSTANTS
    Msgs, Domains, Rcpts,
    To,          \* the recipients of each message
    DomainOf,    \* the domain of each recipient
    Override,    \* messages with "TLS-Required: No"
    ReqTLS,      \* messages sent with REQUIRETLS
    Mode,        \* MTA-STS policy of each domain: "none", "testing", "enforce"
    Signed,      \* domains with DNSSEC
    Dane,        \* domains whose MX has TLSA records
    Converts,    \* recipients with a name that ToASCII changes
    MinTLS, MinMX,  \* local_policy
    ReuseLimit,  \* conn_reuse_limit
    MaxConnsPerKey, MaxKeys, Lifetime, StaleLifetime,   \* the pool
    MaxDest,     \* the limit per destination
    MaxMx,       \* bound on the MX records of a domain
    MaxConns,    \* bound on the connections open at a time
    MaxFaults    \* bound on what is unusual: ticks of the clock, the shutdown, answers
                 \* that are lost, overridden MXs; look-ups, RSET, QUIT, MAIL, files that fail

ASSUME ModeAssumption == Mode \in [Domains -> {"none", "testing", "enforce"}]
ASSUME ToAssumption == To \in [Msgs -> SUBSET Rcpts] /\ DomainOf \in [Rcpts -> Domains]
ASSUME SetsAssumption ==
    IsFiniteSet(Msgs) /\ IsFiniteSet(Domains) /\ "none" \notin Domains /\ MaxMx \in Nat

VARIABLES
    kind,    \* which target this is: "remote", "smtp" or "lmtp"
    dl,      \* the deliveries
    w,       \* their goroutines
    conn,    \* the connections
    chan,    \* the buckets of the pool
    pool,    \* the pool: the bucket of each key, and whether it is closed
    tokens,  \* limits: holders of the destination limits and of the message limit
    peer,    \* what the other side did: copies accepted, answers lost, 200s given
    now, faults

vars == <<kind, dl, w, conn, chan, pool, tokens, peer, now, faults>>

Conn == 1..MaxConns
Workers == {x \in Msgs \X Domains : \E r \in To[x[1]] : DomainOf[r] = x[2]}
Chan == 1..(Cardinality(Domains) + Cardinality(Workers))
NoConn == [st |-> "none", dom |-> "none", tls |-> 0, mx |-> 0, rcpts |-> {},
           errored |-> FALSE, n |-> 0, at |-> 0, by |-> "none", cached |-> FALSE, sts |-> {}]
NoFuture == [dom |-> "none", ok |-> FALSE]
NoChan == [conns |-> <<>>, closed |-> FALSE, lastUse |-> 0]
NoWork == [pc |-> "none", c |-> 0, ch |-> 0, mxs |-> 0, cached |-> FALSE, mx |-> 0,
           sts |-> {}, dead |-> FALSE]

RcptsAt(m, d) == {r \in To[m] : DomainOf[r] = d}
HasPolicies(m) == m \notin Override

NewDelivery(m) == [st |-> "new", to |-> {}, reqtls |-> m \in ReqTLS, relaxed |-> {},
                   errs |-> {}, mtasts |-> NoFuture, tlsa |-> "none"]
NoneGot(m) == [r \in To[m] |-> 0]

Init ==
    /\ kind \in {"remote", "smtp", "lmtp"}
    /\ dl = [m \in Msgs |-> NewDelivery(m)]
    /\ w = [x \in Workers |-> NoWork]
    /\ conn = [c \in Conn |-> NoConn]
    /\ chan = [k \in Chan |-> NoChan]
    /\ pool = [keys |-> [d \in Domains |-> 0], closed |-> FALSE]
    /\ tokens = [dest |-> [d \in Domains |-> 0], msgs |-> {}]
    /\ peer = [got |-> [m \in Msgs |-> NoneGot(m)], lost |-> {}, ok |-> {}]
    /\ now = 0
    /\ faults = 0

-----------------------------------------------------------------------------
(* Connections.                                                            *)

FreeConn == {c \in Conn : conn[c].st = "none"}
NewId == CHOOSE c \in FreeConn : TRUE
Close(cs, ids) == [c \in Conn |-> IF c \in ids THEN NoConn ELSE cs[c]]

(* Variant: a failed transaction does not count.                           *)
UsableErrored(x, reset) == x.st = "open" /\ x.n <= ReuseLimit /\ reset

(* The last test is RSET, and the server may have gone.                    *)
Usable(x, reset) == x.st = "open" /\ x.n <= ReuseLimit /\ ~x.errored /\ reset

(* The names the connection collects: for a server without SMTPUTF8, what   *)
(* ToASCII makes of them.                                                  *)
ToASCII(r, utf8) == <<r, r \in Converts /\ ~utf8>>

-----------------------------------------------------------------------------
(* Start, AddRcpt, and the start of BodyNonAtomic.                         *)

(* Start takes the message limit or fails.                                 *)
Start(m) ==
    /\ kind = "remote"
    /\ dl[m].st = "new"
    /\ dl' = [dl EXCEPT ![m].st = "rcpt"]
    /\ tokens' = [tokens EXCEPT !.msgs = @ \cup {m}]
    /\ UNCHANGED <<kind, w, conn, chan, pool, peer, now, faults>>

(* All recipients, then one goroutine for each of their domains.           *)
BodyNonAtomic(m) ==
    /\ kind = "remote"
    /\ dl[m].st = "rcpt"
    /\ dl' = [dl EXCEPT ![m].st = "body"]
    /\ w' = [x \in Workers |-> IF x[1] = m THEN [w[x] EXCEPT !.pc = "http"] ELSE w[x]]
    /\ UNCHANGED <<kind, conn, chan, pool, tokens, peer, now, faults>>

(* A message that was quarantined after RCPT is refused for everybody.     *)
Quarantined(m) ==
    /\ kind = "remote"
    /\ dl[m].st = "rcpt"
    /\ dl' = [dl EXCEPT ![m].st = "body", ![m].errs = To[m]]
    /\ w' = [x \in Workers |-> IF x[1] = m THEN [w[x] EXCEPT !.pc = "done"] ELSE w[x]]
    /\ UNCHANGED <<kind, conn, chan, pool, tokens, peer, now, faults>>

Got(p, m, rs) == [p EXCEPT !.got[m] = [r \in To[m] |-> IF r \in rs THEN @[r] + 1 ELSE @[r]]]
Lost(p, m, rs) == [p EXCEPT !.lost = @ \cup {<<m, r>> : r \in rs}]

(* A step that is a fault when bad.                                        *)
Faulty(bad) == (bad => faults < MaxFaults) /\ faults' = faults + (IF bad THEN 1 ELSE 0)

(* Variant: no status is set.                                              *)
GivesUpSilently(x) ==
    /\ w' = [w EXCEPT ![x] = [NoWork EXCEPT !.pc = "done"]]
    /\ UNCHANGED dl

(* The goroutine ends with an error for all its recipients.                *)
GivesUp(x) ==
    /\ w' = [w EXCEPT ![x] = [NoWork EXCEPT !.pc = "done"]]
    /\ dl' = [dl EXCEPT ![x[1]].errs = @ \cup RcptsAt(x[1], x[2])]

-----------------------------------------------------------------------------
(* The HTTP path.  handleReceiveEmail, on the other side: the storage may   *)
(* refuse recipients (AddRcpt); when it accepts one the message is          *)
(* committed, or the whole delivery fails.                                 *)
handleReceiveEmail(rs) ==
    {[code |-> 200, acc |-> acc] : acc \in (SUBSET rs) \ {{}}} \cup {[code |-> 500, acc |-> {}]}

(* One POST: accepted, refused, or accepted with the answer lost.          *)
doHTTPRequest(m, rs, p) ==
    {[ok |-> a.code = 200, lost |-> 0, peer |->
        [Got(p, m, a.acc) EXCEPT !.ok = IF a.code = 200 THEN @ \cup {<<m, r>> : r \in rs} ELSE @]]
        : a \in handleReceiveEmail(rs)}
    \cup {[ok |-> FALSE, lost |-> 1, peer |-> Lost(Got(p, m, acc), m, acc)]
             : acc \in (SUBSET rs) \ {{}}}

(* HTTPS, then HTTP.                                                       *)
tryHTTP(x) ==
    /\ w[x].pc = "http"
    /\ LET m == x[1]
           rs == RcptsAt(m, x[2])
       IN \E a \in doHTTPRequest(m, rs, peer) :
            \E b \in IF a.ok THEN {a} ELSE doHTTPRequest(m, rs, a.peer) :
                LET lost == IF a.ok THEN 0 ELSE a.lost + b.lost IN
                /\ faults + lost <= MaxFaults
                /\ faults' = faults + lost
                /\ peer' = b.peer
                /\ w' = [w EXCEPT ![x].pc = IF b.ok THEN "done" ELSE "get"]
    /\ UNCHANGED <<kind, dl, conn, chan, pool, tokens, now>>

-----------------------------------------------------------------------------
(* The pool.  Get looks the bucket up under the lock, and drops it when it  *)
(* is old; it receives from it after the unlock.                           *)

UsedChans == {pool.keys[d] : d \in Domains} \cup {w[x].ch : x \in Workers}
Stale(k) == chan[k].lastUse + StaleLifetime <= now

(* Buckets that leave the pool: closed, their connections closed.          *)
DropBuckets(ks, cs) == Close(cs, UNION {ToSet(chan[k].conns) : k \in ks})
Dropped(ks) == [k \in Chan |-> IF k \in ks THEN [NoChan EXCEPT !.closed = TRUE] ELSE chan[k]]

Get(x) ==
    /\ w[x].pc = "get"
    /\ LET d == x[2]
           k == pool.keys[d]
           old == k # 0 /\ now - chan[k].lastUse > Lifetime
       IN /\ w' = [w EXCEPT ![x].pc = IF k = 0 THEN "prep" ELSE IF old THEN "drain" ELSE "recv",
                             ![x].ch = k]
          /\ pool' = IF old THEN [pool EXCEPT !.keys[d] = 0] ELSE pool
          /\ chan' = IF old THEN [chan EXCEPT ![k].closed = TRUE] ELSE chan
    /\ UNCHANGED <<kind, dl, conn, tokens, peer, now, faults>>

(* Closing the connections of the dropped bucket, one by one.              *)
GetDrain(x) ==
    /\ w[x].pc = "drain"
    /\ LET k == w[x].ch
           q == chan[k].conns
       IN IF q = <<>>
          THEN /\ w' = [w EXCEPT ![x].pc = "prep", ![x].ch = 0]
               /\ UNCHANGED <<conn, chan>>
          ELSE /\ conn' = Close(conn, {Head(q)})
               /\ chan' = [chan EXCEPT ![k].conns = Tail(q)]
               /\ UNCHANGED w
    /\ UNCHANGED <<kind, dl, pool, tokens, peer, now, faults>>

(* One connection received.  With REQUIRETLS it is forgotten, and a new     *)
(* one opened.                                                             *)
GetRecv(x) ==
    /\ w[x].pc = "recv"
    /\ LET k == w[x].ch
           q == chan[k].conns
       IN IF q = <<>>
          THEN /\ w' = [w EXCEPT ![x].pc = "prep", ![x].ch = 0]
               /\ UNCHANGED <<conn, chan, faults>>
          ELSE \E reset \in BOOLEAN :
               LET c == Head(q)
                   good == Usable(conn[c], reset) /\ conn[c].at + Lifetime >= now
                   mine == good /\ ~dl[x[1]].reqtls
               IN /\ Faulty(~reset)
                  /\ chan' = [chan EXCEPT ![k].conns = Tail(q)]
                  /\ w' = IF good
                          THEN [w EXCEPT ![x].pc = IF mine THEN "mail" ELSE "prep", ![x].ch = 0,
                                         ![x].c = IF mine THEN c ELSE 0]
                          ELSE w
                  /\ conn' = IF mine THEN conn ELSE Close(conn, {c})
    /\ UNCHANGED <<kind, dl, pool, tokens, peer, now>>

(* Return, under the lock.  lastUse is set in a copy of the bucket: only    *)
(* its creation counts.                                                    *)
Return(d, c, cs) ==
    LET k == pool.keys[d]
        full == k = 0 /\ Cardinality({e \in Domains : pool.keys[e] # 0}) = MaxKeys
        stale == IF full THEN {pool.keys[e] : e \in {f \in Domains : pool.keys[f] # 0 /\ Stale(pool.keys[f])}}
                 ELSE {}
        new == CHOOSE n \in Chan : n \notin UsedChans
        to == IF k # 0 THEN k ELSE new
        was == IF k # 0 THEN chan[k] ELSE [NoChan EXCEPT !.lastUse = now]
        fits == Len(was.conns) < MaxConnsPerKey
    IN IF pool.closed
       THEN conn' = Close(cs, {c}) /\ UNCHANGED <<chan, pool>>
       ELSE /\ pool' = [pool EXCEPT !.keys = [e \in Domains |->
                            IF e = d THEN to ELSE IF pool.keys[e] \in stale THEN 0 ELSE pool.keys[e]]]
            /\ chan' = [Dropped(stale) EXCEPT ![to] =
                            IF fits THEN [was EXCEPT !.conns = Append(@, c)] ELSE was]
            /\ conn' = LET open == DropBuckets(stale, cs) IN IF fits THEN open ELSE Close(open, {c})

(* Every minute.                                                           *)
CleanUp ==
    LET old == {pool.keys[d] : d \in {e \in Domains : pool.keys[e] # 0 /\ Stale(pool.keys[e])}} IN
    /\ old # {}
    /\ pool' = [pool EXCEPT !.keys = [d \in Domains |-> IF @[d] \in old THEN 0 ELSE @[d]]]
    /\ chan' = Dropped(old)
    /\ conn' = DropBuckets(old, conn)
    /\ UNCHANGED <<kind, dl, w, tokens, peer, now, faults>>

PoolClose ==
    /\ kind = "remote" /\ ~pool.closed
    /\ LET all == {pool.keys[d] : d \in Domains} \ {0} IN
        /\ pool' = [keys |-> [d \in Domains |-> 0], closed |-> TRUE]
        /\ chan' = Dropped(all)
        /\ conn' = DropBuckets(all, conn)
    /\ Faulty(TRUE)
    /\ UNCHANGED <<kind, dl, w, tokens, peer, now>>

Elapse ==
    /\ kind = "remote"
    /\ now' = now + 1
    /\ Faulty(TRUE)
    /\ UNCHANGED <<kind, dl, w, conn, chan, pool, tokens, peer>>

-----------------------------------------------------------------------------
(* newConn.  The policy objects belong to the delivery: a goroutine that    *)
(* prepares its domain replaces the future the others wait for.            *)

(* The answers of DNS, or of the override cache; none means an error or a   *)
(* null MX.                                                                *)
ResolveMX == [mxs |-> 1, cached |-> TRUE]
lookupMX == {[mxs |-> n, cached |-> FALSE] : n \in 0..MaxMx} \cup {ResolveMX}

(* PrepareDomain starts the look-up of the MTA-STS policy, which may fail.  *)
PrepareDomain(x, found) ==
    IF HasPolicies(x[1])
    THEN [dl EXCEPT ![x[1]].mtasts = [dom |-> x[2], ok |-> found]]
    ELSE dl

dnssecCheckMX(d) == IF d \in Signed THEN 2 ELSE 0

newConn(x) ==
    /\ w[x].pc = "prep"
    /\ \E r \in lookupMX, found \in BOOLEAN :
        LET fut == PrepareDomain(x, found) IN
        /\ Faulty(~found \/ r.cached)
        /\ w' = [w EXCEPT ![x] = IF r.mxs = 0 THEN [NoWork EXCEPT !.pc = "done"]
                                 ELSE [NoWork EXCEPT !.pc = "mx", !.mxs = r.mxs, !.cached = r.cached,
                                                     !.mx = dnssecCheckMX(x[2])]]
        /\ dl' = IF r.mxs = 0 THEN [fut EXCEPT ![x[1]].errs = @ \cup RcptsAt(x[1], x[2])] ELSE fut
    /\ UNCHANGED <<kind, conn, chan, pool, tokens, peer, now>>

(* What MTA-STS says of an MX: the level, -1 for an MX it forbids.         *)
mtastsCheckMX(fut) ==
    IF ~fut.ok \/ Mode[fut.dom] = "none" THEN {0}
    ELSE IF Mode[fut.dom] = "enforce" THEN {1, -1} ELSE {1, 0}

(* Variant: any TLS will do.                                               *)
mtastsCheckEncrypted(fut, tls) == fut.ok /\ Mode[fut.dom] = "enforce" => tls >= 1

(* ... and of a connection with the given TLS: only verified chains will do *)
(* when the policy is enforced.                                            *)
mtastsCheckConn(fut, tls) == fut.ok /\ Mode[fut.dom] = "enforce" => tls = 2

(* DANE: the level it raises to, -1 for a failure.  Records must match,     *)
(* unless none is usable; a failed look-up is a failure.                   *)
discoverTLSA(dom) == {"error", IF dom \in Dane THEN "records" ELSE "none"}
verifyDANE(recs, tls) == IF recs = "none" THEN {0} ELSE IF tls = 0 THEN {-1} ELSE {-1, 0, 2}
daneCheckConn(dom, tls) ==
    UNION {IF recs = "error" THEN {-1} ELSE verifyDANE(recs, tls) : recs \in discoverTLSA(dom)}

localCheckMX(level) == level >= MinMX
localCheckConn(level) == level >= MinTLS

(* The TLS a server offers: none, unauthenticated, authenticated.          *)
connect == 0..2

LevelOf(a, b) == IF a > b THEN a ELSE b
Seen(fut) == IF fut.ok THEN fut.dom ELSE "none"

(* Another MX, or the end of them.  A client whose QUIT failed stays in     *)
(* place, and passes for a connection.                                     *)
NextMX(x, dead) ==
    IF w[x].mxs > 1
    THEN /\ w' = [w EXCEPT ![x].pc = "mx", ![x].mxs = @ - 1, ![x].dead = dead]
         /\ UNCHANGED <<dl, conn>>
    ELSE IF ~dead
    THEN GivesUp(x) /\ UNCHANGED conn
    ELSE /\ FreeConn # {}
         /\ conn' = [conn EXCEPT ![NewId] = [NoConn EXCEPT !.st = "dead", !.dom = x[2], !.by = x[1]]]
         /\ w' = [w EXCEPT ![x] = [NoWork EXCEPT !.pc = "mail", !.c = NewId]]
         /\ UNCHANGED dl

(* attemptMX up to the connection: dnssec, mtasts, dane and local_policy.   *)
CheckMX(x) ==
    /\ w[x].pc = "mx"
    /\ LET m == x[1]
           fut == dl[m].mtasts
       IN IF ~HasPolicies(m) \/ w[x].cached
          THEN /\ w' = [w EXCEPT ![x].pc = "conn", ![x].mx = 0]
               /\ UNCHANGED <<dl, conn>>
          ELSE \E l \in mtastsCheckMX(fut) :
               IF l = -1 \/ ~localCheckMX(LevelOf(l, w[x].mx))
               THEN NextMX(x, w[x].dead)
               ELSE /\ w' = [w EXCEPT ![x].pc = "conn", ![x].mx = LevelOf(l, @), ![x].sts = {Seen(fut)}]
                    /\ dl' = [dl EXCEPT ![m].tlsa = x[2]]
                    /\ UNCHANGED conn
    /\ UNCHANGED <<kind, chan, pool, tokens, peer, now, faults>>

(* connect: authenticated TLS, TLS without authentication, plain text, or   *)
(* nothing; then the policies see the connection.                          *)
attemptMX(x) ==
    /\ w[x].pc = "conn"
    /\ FreeConn # {}
    /\ LET m == x[1]
           fut == dl[m].mtasts
           checked == HasPolicies(m) /\ ~w[x].cached
       IN \/ NextMX(x, w[x].dead) /\ UNCHANGED faults
          \/ \E tls \in connect : \E raised \in IF checked THEN daneCheckConn(dl[m].tlsa, tls) ELSE {0} :
             LET level == LevelOf(tls, raised)
                 good == checked => /\ mtastsCheckConn(fut, tls)
                                    /\ raised # -1
                                    /\ localCheckConn(level)
                 c == NewId
             IN \/ /\ good
                   /\ conn' = [conn EXCEPT ![c] = [NoConn EXCEPT
                            !.st = "open", !.dom = x[2], !.tls = level, !.mx = w[x].mx, !.at = now,
                            !.by = m, !.cached = w[x].cached,
                            !.sts = IF checked THEN w[x].sts \cup {Seen(fut)} ELSE {}]]
                   /\ w' = [w EXCEPT ![x] = [NoWork EXCEPT !.pc = "mail", !.c = c]]
                   /\ UNCHANGED <<dl, faults>>
                \/ \E dead \in BOOLEAN : ~good /\ Faulty(dead) /\ NextMX(x, dead)
    /\ UNCHANGED <<kind, chan, pool, tokens, peer, now>>

(* The rest of connectionForDomain: REQUIRETLS, the limit of the            *)
(* destination, MAIL.  A server without the extension turns REQUIRETLS off  *)
(* in the message (relaxed_requiretls).  When MAIL fails the limit is kept. *)
connectionForDomain(x) ==
    /\ w[x].pc = "mail"
    /\ LET m == x[1]
           d == x[2]
           c == w[x].c
           secure == conn[c].tls >= 2 /\ conn[c].mx >= 1
           gone == conn' = Close(conn, {c}) /\ GivesUp(x)
       IN \/ dl[m].reqtls /\ ~secure /\ gone /\ UNCHANGED <<tokens, faults>>
          \/ /\ dl[m].reqtls => secure
             /\ tokens.dest[d] >= MaxDest
             /\ gone /\ UNCHANGED <<tokens, faults>>
          \/ /\ dl[m].reqtls => secure
             /\ tokens.dest[d] < MaxDest
             /\ tokens' = [tokens EXCEPT !.dest[d] = @ + 1]
             /\ \/ gone /\ Faulty(conn[c].st = "open")
                \/ /\ conn[c].st = "open"
                   /\ UNCHANGED faults
                   /\ \E relax \in IF dl[m].reqtls THEN BOOLEAN ELSE {FALSE} :
                        dl' = IF relax THEN [dl EXCEPT ![m].reqtls = FALSE, ![m].relaxed = @ \cup {d}]
                              ELSE dl
                   /\ conn' = [conn EXCEPT ![c].at = now]
                   /\ w' = [w EXCEPT ![x].pc = "send"]
    /\ UNCHANGED <<kind, chan, pool, peer, now>>

-----------------------------------------------------------------------------
(* RCPT, DATA, and the statuses of BodyNonAtomic.  The connection keeps the *)
(* accepted names of all its transactions, and all of them get the status   *)
(* of DATA; the queue listens for its own recipients only.                 *)

(* The error of DATA, for each name the connection holds.                  *)
DataStatuses(m, names) == {r \in To[m] : <<r, FALSE>> \in names}

(* DATA succeeds, fails, or succeeds without an answer; "unread": the body  *)
(* cannot be opened.                                                       *)
Data == {"ok", "fail", "lost"}

Transaction(x) ==
    /\ w[x].pc = "send"
    /\ LET m == x[1]
           c == w[x].c
           rs == RcptsAt(m, x[2])
       IN \E acc \in SUBSET rs, utf8 \in BOOLEAN, res \in Data \cup {"unread"} :
            LET names == conn[c].rcpts \cup {ToASCII(r, utf8) : r \in acc}
                got == res \in {"ok", "lost"}
            IN /\ acc \cap Converts = {} => utf8
               /\ got => acc # {}
               /\ Faulty(res \in {"lost", "unread"})
               /\ peer' = LET p == IF got THEN Got(peer, m, acc) ELSE peer
                          IN  IF res = "lost" THEN Lost(p, m, acc) ELSE p
               /\ dl' = [dl EXCEPT ![m].errs = @ \cup (rs \ acc)
                            \cup (IF res = "ok" THEN {} ELSE DataStatuses(m, names))]
               /\ conn' = [conn EXCEPT ![c].rcpts = names, ![c].at = now,
                                       ![c].errored = res \in {"fail", "lost"}]
               /\ w' = [w EXCEPT ![x].pc = "done"]
    /\ UNCHANGED <<kind, chan, pool, tokens, now>>

AllDone(m) == dl[m].st = "body" /\ \A x \in Workers : x[1] = m => w[x].pc \in {"none", "done"}

(* Commit and Abort: each connection of the delivery goes back to the pool. *)
CloseConn(x) ==
    /\ AllDone(x[1])
    /\ w[x].c # 0
    /\ tokens' = [tokens EXCEPT !.dest[x[2]] = @ - 1]
    /\ w' = [w EXCEPT ![x].c = 0]
    /\ LET c == w[x].c
           cs == [conn EXCEPT ![c].n = @ + 1]
       IN \E reset \in BOOLEAN :
            /\ Faulty(~reset)
            /\ IF Usable(cs[c], reset) THEN Return(x[2], c, cs)
               ELSE conn' = Close(cs, {c}) /\ UNCHANGED <<chan, pool>>
    /\ UNCHANGED <<kind, dl, peer, now>>

(* ... and the message limit is released.  What is known of the message     *)
(* goes with it.                                                           *)
Forget(m) ==
    /\ dl' = [dl EXCEPT ![m] = [NewDelivery(m) EXCEPT !.st = "closed"]]
    /\ peer' = [got |-> [peer.got EXCEPT ![m] = NoneGot(m)],
                lost |-> {p \in peer.lost : p[1] # m}, ok |-> {p \in peer.ok : p[1] # m}]

Finish(m) ==
    /\ AllDone(m)
    /\ \A x \in Workers : x[1] = m => w[x].c = 0
    /\ Forget(m)
    /\ w' = [x \in Workers |-> IF x[1] = m THEN NoWork ELSE w[x]]
    /\ tokens' = [tokens EXCEPT !.msgs = @ \ {m}]
    /\ UNCHANGED <<kind, conn, chan, pool, now, faults>>

-----------------------------------------------------------------------------
(* target.smtp and target.lmtp: one connection for the delivery.           *)

(* Start: the endpoints in turn, SASL, MAIL.                               *)
DownstreamStart(m) ==
    /\ kind # "remote"
    /\ dl[m].st = "new"
    /\ \/ dl' = [dl EXCEPT ![m].st = "rcpt"]
       \/ dl' = [dl EXCEPT ![m].st = "body", ![m].errs = To[m]]
    /\ UNCHANGED <<kind, w, conn, chan, pool, tokens, peer, now, faults>>

AddRcpt(m, r) ==
    /\ kind # "remote"
    /\ dl[m].st = "rcpt"
    /\ r \in To[m] \ (dl[m].to \cup dl[m].errs)
    /\ \/ dl' = [dl EXCEPT ![m].to = @ \cup {r}]
       \/ dl' = [dl EXCEPT ![m].errs = @ \cup {r}]
    /\ UNCHANGED <<kind, w, conn, chan, pool, tokens, peer, now, faults>>

(* The outcomes of the body: the statuses that arrived, which of them were  *)
(* good, and what the other side kept.  SMTP has one status for all; LMTP   *)
(* one for each, until the connection fails.                               *)
DataOutcomes(rs) ==
    IF kind = "smtp"
    THEN {[answered |-> rs, good |-> g, kept |-> g] : g \in {{}, rs}}
         \cup {[answered |-> {}, good |-> {}, kept |-> k] : k \in {{}, rs}}
    ELSE UNION {{[answered |-> a, good |-> g, kept |-> g \cup k] : k \in SUBSET (rs \ a)}
                : a \in SUBSET rs, g \in SUBSET rs}

(* A bad status under a converted name reaches nobody.                     *)
DownstreamBody(m) ==
    /\ kind # "remote"
    /\ dl[m].st = "rcpt"
    /\ dl[m].to \cup dl[m].errs = To[m]
    /\ dl[m].to # {}
    /\ \E o \in DataOutcomes(dl[m].to), utf8 \in BOOLEAN :
        LET late == o.kept \ o.good
            bad == {r \in o.answered \ o.good : kind = "smtp" \/ ToASCII(r, utf8) = <<r, FALSE>>}
        IN /\ o.good \subseteq o.answered
           /\ Faulty(late # {})
           /\ peer' = Lost(Got(peer, m, o.kept), m, late)
           /\ dl' = [dl EXCEPT ![m].st = "body",
                               ![m].errs = @ \cup bad \cup (dl[m].to \ o.answered)]
    /\ UNCHANGED <<kind, w, conn, chan, pool, tokens, now>>

(* Commit, or Abort, also of a delivery without recipients.                *)
DownstreamClose(m) ==
    /\ kind # "remote"
    /\ \/ dl[m].st = "body"
       \/ dl[m].st = "rcpt" /\ dl[m].errs = To[m]
    /\ Forget(m)
    /\ UNCHANGED <<kind, w, conn, chan, pool, tokens, now, faults>>

-----------------------------------------------------------------------------
WorkerStep(x) ==
    \/ tryHTTP(x) \/ Get(x) \/ GetDrain(x) \/ GetRecv(x)
    \/ newConn(x) \/ CheckMX(x) \/ attemptMX(x)
    \/ connectionForDomain(x) \/ Transaction(x) \/ CloseConn(x)

Next ==
    \/ \E m \in Msgs : Start(m) \/ BodyNonAtomic(m) \/ Quarantined(m) \/ Finish(m)
    \/ \E x \in Workers : WorkerStep(x)
    \/ CleanUp \/ PoolClose \/ Elapse
    \/ \E m \in Msgs : DownstreamStart(m) \/ DownstreamBody(m) \/ DownstreamClose(m)
    \/ \E m \in Msgs : \E r \in To[m] : AddRcpt(m, r)

Spec == Init /\ [][Next]_vars

-----------------------------------------------------------------------------
(* A recipient without an error has the message, and a recipient that has   *)
(* it twice, or has it and an error, comes of a lost answer.  Left out: the *)
(* names ToASCII changes, and the recipients of a 200 that spoke for some.  *)
StatusHonest ==
    \A m \in Msgs : AllDone(m) =>
        \A r \in To[m] :
            LET got == peer.got[m][r] IN
            /\ r \notin dl[m].errs \cup Converts /\ <<m, r>> \notin peer.ok => got >= 1
            /\ got >= 2 \/ (got >= 1 /\ r \in dl[m].errs) => <<m, r>> \in peer.lost

Idle == UNION {ToSet(chan[k].conns) : k \in Chan}

(* What the pool can hand out is open, belongs to the key, has no failed    *)
(* transaction behind it and no owner, and is there once; a bucket of the   *)
(* pool is not closed, so that Return never sends on a closed channel.      *)
PooledClean ==
    /\ \A d \in Domains : pool.keys[d] # 0 =>
          /\ ~chan[pool.keys[d]].closed
          /\ \A c \in ToSet(chan[pool.keys[d]].conns) : conn[c].dom = d
    /\ \A c \in Idle : /\ conn[c].st = "open" /\ ~conn[c].errored /\ conn[c].n <= ReuseLimit
                       /\ \A x \in Workers : w[x].c # c
    /\ \A k, l \in Chan : k # l => ToSet(chan[k].conns) \cap ToSet(chan[l].conns) = {}
    /\ \A x, y \in Workers : x # y /\ w[x].c # 0 => w[x].c # w[y].c

(* A message goes out over a connection that is as secure as its domain     *)
(* asks: an enforced MTA-STS policy that was read means verified TLS to an  *)
(* MX it names, TLSA records mean TLS, the levels of local_policy hold, and *)
(* REQUIRETLS means both unless a server without the extension relaxed it.  *)
(* Connections by a message with TLS-Required: No, or to an overridden MX,  *)
(* were not checked and are not covered.                                   *)
SecurityKept ==
    \A x \in Workers : w[x].pc = "send" =>
        LET m == x[1]
            d == x[2]
            k == conn[w[x].c]
        IN /\ m \in ReqTLS /\ dl[m].relaxed \ {d} = {} => k.tls = 2 /\ k.mx >= 1
           /\ k.by \notin Override /\ ~k.cached =>
                /\ k.tls >= MinTLS /\ k.mx >= MinMX
                /\ k.sts = {d} /\ Mode[d] = "enforce" => k.tls = 2 /\ k.mx >= 1
                /\ Cardinality({y \in Workers : y[1] = k.by}) = 1 /\ d \in Dane => k.tls >= 1
=============================================================================
