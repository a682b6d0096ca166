------------------------------ MODULE Accounts ------------------------------
(* Accounts of a chatmail server: credentials (auth.pass_table), storage    *)
(* accounts, the quotas table and the blocklist (storage.imapsql), the      *)
(* in-memory quota cache (internal/quota), and what creates, uses and       *)
(* removes an account: /new, the admin API, an IMAP login, a delivery,      *)
(* pruning and the command line.                                            *)
(*                                                                          *)
(* Every operation is a process that takes one step per SQL statement or    *)
(* per locked section of the cache, because nothing holds a lock across     *)
(* two of them.  A command of the command line runs in a process of its     *)
(* own: it shares the database with the server but not the cache.           *)
EXTENDS Integers, FiniteSets

CONSTANTS
    Users,          \* account names, after normalisation
    LocalUsers,     \* those whose domain is jit_domain
    Passwords,
    Procs,          \* operations in flight at a time
    None,           \* no row, no entry, no value
    ConfigDefault,  \* default_quota of the configuration
    Limits,         \* limits an administrator sets
    HeaderLen, BodyLen,     \* size of a message's header and body
    MaxAttempts,    \* maxAttempts of handleNewAccount
    MaxOps,         \* bound: operations started
    MaxParallel,    \* bound: those of them that start beside another
    MaxFaults,      \* bound: statements that fail, and restarts
    MaxStored       \* bound: bytes stored per account

ASSUME SizesAreNat ==
    /\ HeaderLen \in Nat /\ BodyLen \in Nat \ {0}
    /\ ConfigDefault \in Nat /\ Limits \subseteq Nat
    /\ LocalUsers \subseteq Users

ASSUME UsersAssumption == Users # {}

ASSUME NoneAssumption ==
    /\ None \notin Nat
    /\ None \notin [pw : Passwords, legacy : BOOLEAN]
    /\ None \notin [used : BOOLEAN, max : Nat]
    /\ None \notin [used : Int, max : Nat, isDefault : BOOLEAN]

VARIABLES
    creds,      \* auth table: [pw, legacy], legacy: not hashed with DefaultHash
    accts,      \* users of go-imap-sql
    row,        \* quotas table: [max, used]; max 0: none, used: logged in once
    dflt,       \* row __GLOBAL_DEFAULT__
    blocked,    \* blocked_users table
    stored,     \* SUM(bodylen) of the messages of each user
    settings,   \* __REGISTRATION_OPEN__, __JIT_REGISTRATION_ENABLED__
    cache,      \* quota.Cache.entries
    cacheDflt,  \* quota.Cache.defaultQuota
    rehash,     \* goroutines of AuthPlain that will rewrite a password
    ops,        \* the operations in flight
    count,      \* operations started, statements failed
    overlap,    \* the kinds of operations that have been in flight together
    unsynced    \* users whose rows changed behind the server's cache

db == <<creds, accts, row, dflt, blocked, stored, settings>>
mem == <<cache, cacheDflt>>
ghost == <<count, overlap, unsynced>>
vars == <<db, mem, rehash, ops, ghost>>

-----------------------------------------------------------------------------
Idle == [kind |-> "idle", pc |-> "idle"]
Kinds == {"new", "create", "login", "auth", "mail", "getquota", "delete", "remove", "prune",
          "set", "reset", "default", "rehash", "statement", "cut"}
Removals == {"delete", "remove", "prune"}
Tri == {"unset", "true", "false"}
Row == [used : BOOLEAN, max : {0} \cup Limits]
Entry == [used : Int, max : {0, ConfigDefault} \cup Limits, isDefault : BOOLEAN]

TypeOK ==
    /\ creds \in [Users -> [pw : Passwords, legacy : BOOLEAN] \cup {None}]
    /\ accts \subseteq Users /\ blocked \subseteq Users /\ unsynced \subseteq Users
    /\ row \in [Users -> Row \cup {None}]
    /\ dflt \in Limits \cup {None}
    /\ stored \in [Users -> Nat]
    /\ settings \in [{"registration", "jit"} -> Tri]
    /\ cache \in [Users -> Entry \cup {None}]
    /\ cacheDflt \in {ConfigDefault} \cup Limits
    /\ rehash \subseteq Users \X Passwords
    /\ overlap \subseteq SUBSET Kinds

(* IsRegistrationOpen of the storage and of auth.pass_table; auto_create of *)
(* the configuration is off.  Both read the settings table, on every use.   *)
RegistrationOpen == settings["registration"] = "true"

AuthRegistrationOpen == settings["registration"] = "true"

(* IsJitRegistrationEnabled falls back to the registration setting.         *)
JitEnabled ==
    IF settings["jit"] = "unset" THEN RegistrationOpen ELSE settings["jit"] = "true"

AuthJitEnabled ==
    IF settings["jit"] = "unset" THEN AuthRegistrationOpen ELSE settings["jit"] = "true"

(* ValidateLoginDomain: exactly one @, and the domain is jit_domain.        *)
ValidateLoginDomain(u) == u \in LocalUsers

(* GetDefaultQuota.                                                         *)
DefaultQuota == IF dflt # None THEN dflt ELSE ConfigDefault

NewRow == [used |-> FALSE, max |-> 0]
DefaultEntry == [used |-> 0, max |-> cacheDflt, isDefault |-> TRUE]
EntryOf(u) == IF cache[u] = None THEN DefaultEntry ELSE cache[u]

(* populateQuotaCache and Cache.Load.                                       *)
Loaded == [u \in Users |->
    IF u \notin accts /\ row[u] = None THEN None
    ELSE LET own == row[u] # None /\ row[u].max > 0
         IN  [used |-> stored[u],
              max |-> IF own THEN row[u].max ELSE DefaultQuota,
              isDefault |-> ~own]]

(* A database new or in use: some accounts exist, made before or since      *)
(* DefaultHash, and have not logged in yet.                                 *)
Init ==
    /\ accts \in SUBSET Users
    /\ \E w \in Passwords, legacy \in BOOLEAN :
        creds = [u \in Users |-> IF u \in accts THEN [pw |-> w, legacy |-> legacy] ELSE None]
    /\ row = [u \in Users |-> IF u \in accts THEN NewRow ELSE None]
    /\ dflt = None /\ blocked = {} /\ stored = [u \in Users |-> 0]
    /\ settings \in [{"registration", "jit"} -> Tri]
    /\ cache = Loaded /\ cacheDflt = ConfigDefault
    /\ rehash = {} /\ ops = [p \in Procs |-> Idle]
    /\ count = [ops |-> 0, faults |-> 0] /\ overlap = {} /\ unsynced = {}

-----------------------------------------------------------------------------
(* Control of an operation.                                                 *)

Busy == {p \in Procs : ops[p].kind # "idle"}

(* One more operation begins, beside those in flight.                       *)
Counted(kind) ==
    /\ count.ops < (IF Busy = {} /\ rehash = {} THEN MaxOps ELSE MaxParallel)
    /\ count' = [count EXCEPT !.ops = @ + 1]
    /\ overlap' = overlap \cup {{kind, ops[q].kind} : q \in Busy}
                          \cup {{kind, "rehash"} : r \in rehash}

Begin(p, op) ==
    /\ ops[p] = Idle /\ Counted(op.kind)
    /\ ops' = [ops EXCEPT ![p] = op]
    /\ UNCHANGED <<db, mem, rehash, unsynced>>

(* A block that comes while a registration or a login of the name is in     *)
(* flight is late for it (late is a history field).                         *)
Late(o, u) ==
    [q \in Procs |-> IF o[q].kind \in {"new", "login"} /\ o[q].user = u
                     THEN [o[q] EXCEPT !.late = TRUE] ELSE o[q]]

At(p, pc) == ops[p].pc = pc
Goto(p, pc) == ops' = [ops EXCEPT ![p].pc = pc]
End(p) == ops' = [ops EXCEPT ![p] = Idle]

(* A statement that fails: the step is taken down its error path.           *)
Fault ==
    /\ count.faults < MaxFaults
    /\ count' = [count EXCEPT !.faults = @ + 1]
    /\ UNCHANGED <<overlap, unsynced>>

(* An operation that changes the database without the server's cache.       *)
Behind(us) == unsynced' = unsynced \cup us /\ UNCHANGED <<count, overlap>>

Creds(u, c) == creds' = [creds EXCEPT ![u] = c]
Rows(u, r) == row' = [row EXCEPT ![u] = r]
Cached(u, e) == cache' = [cache EXCEPT ![u] = e]

-----------------------------------------------------------------------------
(* Registration: POST /new, and POST /admin/accounts, which skips the check *)
(* of the registration setting.  A name that is blocked or taken is drawn   *)
(* again.                                                                   *)

NewOp(u, w) == [kind |-> "new", pc |-> "new.check", pw |-> w, user |-> u, late |-> FALSE, tries |-> 1]

HandleNewAccount(p) ==
    \E u \in Users, w \in Passwords : AuthRegistrationOpen /\ Begin(p, NewOp(u, w))

AdminCreate(p) ==
    \E u \in Users, w \in Passwords : Begin(p, NewOp(u, w))

(* "imap-acct create": the storage account alone, blocked or not.           *)
ImapAcctCreate(p) ==
    \E u \in Users : Begin(p, [kind |-> "create", pc |-> "new.acct", user |-> u])

Retry(p) ==
    IF ops[p].tries = MaxAttempts THEN End(p)
    ELSE \E u \in Users :
            ops' = [ops EXCEPT ![p].user = u, ![p].pc = "new.check", ![p].tries = @ + 1,
                               ![p].late = FALSE]

NewCheck(p) ==
    /\ At(p, "new.check")
    /\ IF ops[p].user \in blocked THEN Retry(p) ELSE Goto(p, "new.lookup")
    /\ UNCHANGED <<db, mem, rehash, ghost>>

(* CreateUserHash: the lookup and the upsert are two statements.            *)
NewLookup(p) ==
    /\ At(p, "new.lookup")
    /\ IF creds[ops[p].user] # None THEN Retry(p) ELSE Goto(p, "new.set")
    /\ UNCHANGED <<db, mem, rehash, ghost>>

NewSet(p) ==
    /\ At(p, "new.set")
    /\ Creds(ops[p].user, [pw |-> ops[p].pw, legacy |-> FALSE])
    /\ Goto(p, "new.acct")
    /\ UNCHANGED <<accts, row, dflt, blocked, stored, settings, mem, rehash, ghost>>

Fails(p) == IF ops[p].kind = "new" THEN Goto(p, "new.undo") ELSE End(p)

(* CreateIMAPAcct: the account in one transaction, then its quota record.   *)
NewAcct(p) ==
    /\ At(p, "new.acct")
    /\ LET u == ops[p].user
       IN  \/ u \notin accts /\ accts' = accts \cup {u} /\ Goto(p, "new.row")
              /\ UNCHANGED ghost
           \/ u \in accts /\ Fails(p) /\ UNCHANGED <<accts, ghost>>
           \/ Fault /\ Fails(p) /\ UNCHANGED accts
    /\ UNCHANGED <<creds, row, dflt, blocked, stored, settings, mem, rehash>>

NewRowStep(p) ==
    /\ At(p, "new.row")
    /\ LET u == ops[p].user
       IN  \/ /\ row' = (IF row[u] = None THEN [row EXCEPT ![u] = NewRow] ELSE row)
              /\ IF ops[p].kind = "new" THEN Goto(p, "new.ok") ELSE End(p)
              /\ UNCHANGED ghost
           \/ Fault /\ Fails(p) /\ UNCHANGED row
    /\ UNCHANGED <<creds, accts, dflt, blocked, stored, settings, mem, rehash>>

(* Variant: the credentials of an account that could not be made stay.      *)
NewNotUndone(p) ==
    /\ At(p, "new.undo")
    /\ Goto(p, "new.failed")
    /\ UNCHANGED <<db, mem, rehash, ghost>>

(* An error of undoing is only logged: the credentials are left.            *)
NewUndo(p) ==
    /\ At(p, "new.undo")
    /\ \/ Creds(ops[p].user, None) /\ Goto(p, "new.failed") /\ UNCHANGED ghost
       \/ Fault /\ Goto(p, "new.left") /\ UNCHANGED creds
    /\ UNCHANGED <<accts, row, dflt, blocked, stored, settings, mem, rehash>>

(* The answer of /new, or of a login.                                       *)
Reply(p) ==
    /\ ops[p].pc \in {"new.ok", "new.failed", "new.left", "login.ok"}
    /\ End(p)
    /\ UNCHANGED <<db, mem, rehash, ghost>>

-----------------------------------------------------------------------------
(* An IMAP login: AuthPlain, GetOrCreateIMAPAcct, UpdateFirstLogin.         *)

Login(p) ==
    \E u \in Users, w \in Passwords :
        Begin(p, [kind |-> "login", pc |-> "login.lookup", pw |-> w, user |-> u, late |-> FALSE, copy |-> None])

(* AUTH of a submission session (CreateSASL): the credentials alone, which  *)
(* it may create; the storage is not asked.                                 *)
CreateSASL(p) ==
    \E u \in Users, w \in Passwords :
        Begin(p, [kind |-> "auth", pc |-> "login.lookup", pw |-> w, user |-> u])

(* The callback of AuthPlain: an IMAP session opens the account.            *)
Authenticated(p) == IF ops[p].kind = "login" THEN Goto(p, "login.jit") ELSE End(p)

(* A password that is not hashed with DefaultHash is hashed again by a      *)
(* goroutine nobody waits for.                                              *)
AuthPlain(p) ==
    /\ At(p, "login.lookup")
    /\ LET u == ops[p].user  c == creds[u]
       IN  CASE c = None ->
                  /\ IF AuthJitEnabled /\ ValidateLoginDomain(u) THEN Goto(p, "login.set") ELSE End(p)
                  /\ UNCHANGED rehash
             [] c # None /\ c.pw # ops[p].pw -> End(p) /\ UNCHANGED rehash
             [] OTHER ->
                  /\ rehash' = (IF c.legacy THEN rehash \cup {<<u, c.pw>>} ELSE rehash)
                  /\ Authenticated(p)
    /\ UNCHANGED <<db, mem, ghost>>

CreateUserIfNotExists(p) ==
    /\ At(p, "login.set")
    /\ Creds(ops[p].user, [pw |-> ops[p].pw, legacy |-> FALSE])
    /\ Authenticated(p)
    /\ UNCHANGED <<accts, row, dflt, blocked, stored, settings, mem, rehash, ghost>>

Rehash ==
    /\ \E r \in rehash :
        /\ rehash' = rehash \ {r}
        /\ Creds(r[1], [pw |-> r[2], legacy |-> FALSE])
    /\ UNCHANGED <<accts, row, dflt, blocked, stored, settings, mem, ops, ghost>>

(* GetOrCreateIMAPAcct looks at the blocklist only while JIT is enabled.    *)
OpenJit(p) ==
    /\ At(p, "login.jit")
    /\ Goto(p, IF JitEnabled THEN "login.blocked" ELSE "login.get")
    /\ UNCHANGED <<db, mem, rehash, ghost>>

(* Variant: the blocklist is not looked at.                                 *)
OpenBlockedUnchecked(p) ==
    /\ At(p, "login.blocked")
    /\ Goto(p, "login.create")
    /\ UNCHANGED <<db, mem, rehash, ghost>>

OpenBlocked(p) ==
    /\ At(p, "login.blocked")
    /\ IF ops[p].user \in blocked THEN End(p) ELSE Goto(p, "login.create")
    /\ UNCHANGED <<db, mem, rehash, ghost>>

OpenAccount(p) ==
    /\ \/ At(p, "login.create") /\ accts' = accts \cup {ops[p].user} /\ Goto(p, "login.row")
       \/ /\ At(p, "login.get") /\ UNCHANGED accts
          /\ IF ops[p].user \in accts THEN Goto(p, "login.row") ELSE End(p)
    /\ UNCHANGED <<creds, row, dflt, blocked, stored, settings, mem, rehash, ghost>>

(* An error of this statement is only logged.                               *)
OpenRow(p) ==
    /\ At(p, "login.row")
    /\ LET u == ops[p].user
       IN  row' = (IF row[u] = None THEN [row EXCEPT ![u] = NewRow] ELSE row)
    /\ Goto(p, "login.first")
    /\ UNCHANGED <<creds, accts, dflt, blocked, stored, settings, mem, rehash, ghost>>

(* UpdateFirstLogin reads the record and saves all of it.                   *)
FirstLoginRead(p) ==
    /\ At(p, "login.first")
    /\ LET r == row[ops[p].user]
       IN  ops' = [ops EXCEPT ![p].copy = r, ![p].pc = IF r = None THEN "login.ok" ELSE "login.save"]
    /\ UNCHANGED <<db, mem, rehash, ghost>>

FirstLoginSave(p) ==
    /\ At(p, "login.save")
    /\ Rows(ops[p].user, [ops[p].copy EXCEPT !.used = TRUE])
    /\ Goto(p, "login.ok")
    /\ UNCHANGED <<creds, accts, dflt, blocked, stored, settings, mem, rehash, ghost>>

-----------------------------------------------------------------------------
(* A delivery to one recipient (storage.imapsql as a target), and GETQUOTA. *)

MailOp(u, us) == [kind |-> "mail", pc |-> "mail.jit", max |-> 0, user |-> u, use |-> 0, todo |-> us]

Deliver(p) ==
    \E u \in Users : stored[u] < MaxStored /\ Begin(p, MailOp(u, {}))

(* POST /admin/notice: to one name, or to everybody who has credentials,    *)
(* one delivery after the other.                                            *)
NoticeHandler(p) ==
    /\ \A u \in Users : stored[u] < MaxStored
    /\ \/ \E u \in Users : Begin(p, MailOp(u, {}))
       \/ \E u \in Users : creds[u] # None
            /\ Begin(p, MailOp(u, {v \in Users \ {u} : creds[v] # None}))

(* A delivery is over, accepted or not; a notice takes its next recipient.  *)
Delivered(p) ==
    IF ops[p].kind # "mail" \/ ops[p].todo = {} THEN End(p)
    ELSE \E u \in ops[p].todo :
            ops' = [ops EXCEPT ![p] = MailOp(u, ops[p].todo \ {u})]

QuotaOp(u) == [kind |-> "getquota", pc |-> "quota", max |-> 0, user |-> u, use |-> 0]

(* GET /admin/quota, and GETQUOTA and GETQUOTAROOT of an IMAP session.      *)
AdminGetQuota(p) == \E u \in accts : Begin(p, QuotaOp(u))

ImapGetQuota(p) == \E u \in accts : Begin(p, QuotaOp(u))

AddRcptJit(p) ==
    /\ At(p, "mail.jit")
    /\ Goto(p, IF JitEnabled THEN "mail.create" ELSE "mail.rcpt")
    /\ UNCHANGED <<db, mem, rehash, ghost>>

(* CreateIMAPAcct without a look at the blocklist; its error, the account   *)
(* exists, is logged.                                                       *)
AddRcptCreate(p) ==
    /\ At(p, "mail.create")
    /\ LET u == ops[p].user
       IN  /\ Goto(p, IF u \in accts THEN "mail.rcpt" ELSE "mail.row")
           /\ accts' = accts \cup {u}
    /\ UNCHANGED <<creds, row, dflt, blocked, stored, settings, mem, rehash, ghost>>

(* Variant: the account made for a delivery gets no quota record.           *)
AddRcptNoRow(p) ==
    /\ At(p, "mail.row")
    /\ Goto(p, "mail.rcpt")
    /\ UNCHANGED <<db, mem, rehash, ghost>>

AddRcptRow(p) ==
    /\ At(p, "mail.row")
    /\ LET u == ops[p].user
       IN  row' = (IF row[u] = None THEN [row EXCEPT ![u] = NewRow] ELSE row)
    /\ Goto(p, "mail.rcpt")
    /\ UNCHANGED <<creds, accts, dflt, blocked, stored, settings, mem, rehash, ghost>>

AddRcpt(p) ==
    /\ At(p, "mail.rcpt")
    /\ IF ops[p].user \in accts THEN Goto(p, "quota") ELSE Delivered(p)
    /\ UNCHANGED <<db, mem, rehash, ghost>>

(* After GetQuota: the delivery goes on within the limit, or is refused     *)
(* with 552; GETQUOTA answers.                                              *)
Checked(p, use, max) ==
    IF ops[p].kind = "mail" /\ (max = 0 \/ use + BodyLen <= max)
    THEN Goto(p, "mail.commit") ELSE Delivered(p)

(* GetQuota: a hit answers from the cache.                                  *)
GetQuota(p) ==
    /\ At(p, "quota")
    /\ LET e == cache[ops[p].user]
       IN  IF e # None THEN Checked(p, e.used, e.max) ELSE Goto(p, "quota.used")
    /\ UNCHANGED <<db, mem, rehash, ghost>>

GetQuotaUsed(p) ==
    /\ At(p, "quota.used")
    /\ ops' = [ops EXCEPT ![p].use = stored[ops[p].user], ![p].pc = "quota.max"]
    /\ UNCHANGED <<db, mem, rehash, ghost>>

(* With a record its limit goes to the cache as it is, 0 included.          *)
GetQuotaMax(p) ==
    /\ At(p, "quota.max")
    /\ LET r == row[ops[p].user]
       IN  IF r = None
           THEN ops' = [ops EXCEPT ![p].max = DefaultQuota, ![p].pc = "quota.fill"]
           ELSE ops' = [ops EXCEPT ![p].max = r.max, ![p].pc = "quota.setmax"]
    /\ UNCHANGED <<db, mem, rehash, ghost>>

(* Cache.SetMax.                                                            *)
WithMax(u, max) ==
    [used |-> IF cache[u] = None THEN 0 ELSE cache[u].used, max |-> max, isDefault |-> FALSE]

GetQuotaSetMax(p) ==
    /\ At(p, "quota.setmax")
    /\ Cached(ops[p].user, WithMax(ops[p].user, ops[p].max))
    /\ Goto(p, "quota.fill")
    /\ UNCHANGED <<db, cacheDflt, rehash, ghost>>

(* Cache.UpdateUsed.                                                        *)
GetQuotaFill(p) ==
    /\ At(p, "quota.fill")
    /\ Cached(ops[p].user, [EntryOf(ops[p].user) EXCEPT !.used = ops[p].use])
    /\ Checked(p, ops[p].use, ops[p].max)
    /\ UNCHANGED <<db, cacheDflt, rehash, ghost>>

(* BodyParsed and Commit of go-imap-sql; the account may be gone.           *)
MailCommit(p) ==
    /\ At(p, "mail.commit")
    /\ LET u == ops[p].user
       IN  IF u \in accts
           THEN /\ stored' = [stored EXCEPT ![u] = @ + HeaderLen + BodyLen]
                /\ Goto(p, "mail.add")
           ELSE Delivered(p) /\ UNCHANGED stored
    /\ UNCHANGED <<creds, accts, row, dflt, blocked, settings, mem, rehash, ghost>>

(* Cache.AddUsed, with the length of the body only.                         *)
AddUsed(p) ==
    /\ At(p, "mail.add")
    /\ Cached(ops[p].user, [EntryOf(ops[p].user) EXCEPT !.used = @ + BodyLen])
    /\ Delivered(p)
    /\ UNCHANGED <<db, cacheDflt, rehash, ghost>>

-----------------------------------------------------------------------------
(* Removal: DELETE /admin/accounts, "imap-acct remove", pruning.            *)

AdminDelete(p) ==
    \E u \in Users :
        Begin(p, [kind |-> "delete", pc |-> "del.creds", user |-> u, todo |-> {}])

ImapAcctRemove(p) ==
    \E u \in Users :
        Begin(p, [kind |-> "remove", pc |-> "del.row", user |-> u, todo |-> {}])

(* PruneUnusedAccounts: the accounts that never logged in and are old       *)
(* enough, whichever those are.                                             *)
PruneUnusedAccounts(p) ==
    \E us \in SUBSET {u \in Users : row[u] # None /\ ~row[u].used} : \E u \in us :
        Begin(p, [kind |-> "prune", pc |-> "del.row", user |-> u, todo |-> us \ {u}])

(* The hourly loop of the server, and "imap-acct prune-unused".             *)
CleanupUnusedAccountsLoop(p) == PruneUnusedAccounts(p)

ImapAcctPruneUnused(p) == PruneUnusedAccounts(p)

(* The last step of removing one account; pruning takes the next.           *)
RemovedOne(p) ==
    IF ops[p].todo = {} THEN End(p)
    ELSE \E u \in ops[p].todo :
            ops' = [ops EXCEPT ![p].user = u, ![p].todo = @ \ {u}, ![p].pc = "del.row"]

DeleteCreds(p) ==
    /\ At(p, "del.creds")
    /\ \/ Creds(ops[p].user, None) /\ UNCHANGED ghost
       \/ Fault /\ UNCHANGED creds
    /\ IF ops[p].kind = "delete" THEN Goto(p, "del.row") ELSE RemovedOne(p)
    /\ UNCHANGED <<accts, row, dflt, blocked, stored, settings, mem, rehash>>

(* DeleteIMAPAcct: the quota record, then the account with its messages.    *)
DeleteRow(p) ==
    /\ At(p, "del.row")
    /\ Rows(ops[p].user, None)
    /\ IF ops[p].kind = "delete" THEN UNCHANGED ghost ELSE Behind({ops[p].user})
    /\ Goto(p, "del.acct")
    /\ UNCHANGED <<creds, accts, dflt, blocked, stored, settings, mem, rehash>>

DeleteUser(p) ==
    /\ At(p, "del.acct")
    /\ LET u == ops[p].user  kind == ops[p].kind
       IN  /\ accts' = accts \ {u}
           /\ stored' = [stored EXCEPT ![u] = 0]
           /\ CASE kind = "delete" -> Goto(p, "del.row2")
                [] kind = "prune" /\ u \in accts -> Goto(p, "del.creds")
                [] OTHER -> RemovedOne(p)
    /\ UNCHANGED <<creds, row, dflt, blocked, settings, mem, rehash, ghost>>

DeleteRowAgain(p) ==
    /\ At(p, "del.row2")
    /\ Rows(ops[p].user, None)
    /\ Goto(p, "del.cache")
    /\ UNCHANGED <<creds, accts, dflt, blocked, stored, settings, mem, rehash, ghost>>

Invalidate(p) ==
    /\ At(p, "del.cache")
    /\ Cached(ops[p].user, None)
    /\ Goto(p, "del.block")
    /\ UNCHANGED <<db, cacheDflt, rehash, ghost>>

DeleteBlock(p) ==
    /\ At(p, "del.block")
    /\ \/ /\ blocked' = blocked \cup {ops[p].user}
          /\ ops' = Late([ops EXCEPT ![p] = Idle], ops[p].user)
          /\ UNCHANGED ghost
       \/ Fault /\ End(p) /\ UNCHANGED blocked
    /\ UNCHANGED <<creds, accts, row, dflt, stored, settings, mem, rehash>>

-----------------------------------------------------------------------------
(* Limits: PUT and DELETE /admin/quota write through the cache; the command *)
(* line (cli) has a cache of its own, which ends with it.                   *)

SetOp(u, max, cli) ==
    [kind |-> "set", pc |-> "set.read", max |-> max, user |-> u, copy |-> None, cli |-> cli]

AdminSetQuota(p) == \E u \in Users, max \in Limits : Begin(p, SetOp(u, max, FALSE))

ImapAcctQuotaSet(p) == \E u \in Users, max \in Limits : Begin(p, SetOp(u, max, TRUE))

SetQuotaRead(p) ==
    /\ At(p, "set.read")
    /\ LET r == row[ops[p].user]
       IN  ops' = [ops EXCEPT ![p].copy = IF r = None THEN NewRow ELSE r, ![p].pc = "set.save"]
    /\ UNCHANGED <<db, mem, rehash, ghost>>

SetQuotaSave(p) ==
    /\ At(p, "set.save")
    /\ LET u == ops[p].user
       IN  \/ /\ Rows(u, [ops[p].copy EXCEPT !.max = ops[p].max])
              /\ IF ops[p].cli THEN End(p) /\ Behind({u}) ELSE Goto(p, "set.cache") /\ UNCHANGED ghost
           \/ Fault /\ End(p) /\ UNCHANGED row
    /\ UNCHANGED <<creds, accts, dflt, blocked, stored, settings, mem, rehash>>

SetMax(p) ==
    /\ At(p, "set.cache")
    /\ Cached(ops[p].user, WithMax(ops[p].user, ops[p].max))
    /\ End(p)
    /\ UNCHANGED <<db, cacheDflt, rehash, ghost>>

ResetOp(u, cli) == [kind |-> "reset", pc |-> "reset.row", user |-> u, cli |-> cli]

AdminResetQuota(p) == \E u \in Users : Begin(p, ResetOp(u, FALSE))

ImapAcctQuotaReset(p) == \E u \in Users : Begin(p, ResetOp(u, TRUE))

ResetQuotaRow(p) ==
    /\ At(p, "reset.row")
    /\ LET u == ops[p].user
       IN  /\ row' = (IF row[u] = None THEN row ELSE [row EXCEPT ![u].max = 0])
           /\ IF ops[p].cli THEN End(p) /\ Behind({u}) ELSE Goto(p, "reset.cache") /\ UNCHANGED ghost
    /\ UNCHANGED <<creds, accts, dflt, blocked, stored, settings, mem, rehash>>

ResetMax(p) ==
    /\ At(p, "reset.cache")
    /\ LET u == ops[p].user
       IN  cache' = IF cache[u] = None THEN cache
                    ELSE [cache EXCEPT ![u].max = cacheDflt, ![u].isDefault = TRUE]
    /\ End(p)
    /\ UNCHANGED <<db, cacheDflt, rehash, ghost>>

AdminSetDefault(p) ==
    \E max \in Limits :
        Begin(p, [kind |-> "default", pc |-> "dflt.row", max |-> max, cli |-> FALSE])

ImapAcctQuotaSetDefault(p) ==
    \E max \in Limits :
        Begin(p, [kind |-> "default", pc |-> "dflt.row", max |-> max, cli |-> TRUE])

SetDefaultRow(p) ==
    /\ At(p, "dflt.row")
    /\ dflt' = ops[p].max
    /\ IF ops[p].cli THEN End(p) /\ Behind(Users) ELSE Goto(p, "dflt.cache") /\ UNCHANGED ghost
    /\ UNCHANGED <<creds, accts, row, blocked, stored, settings, mem, rehash>>

(* Variant: the entries keep the default they were loaded with.             *)
SetDefaultNotSpread(p) ==
    /\ At(p, "dflt.cache")
    /\ cacheDflt' = ops[p].max
    /\ End(p)
    /\ UNCHANGED <<db, cache, rehash, ghost>>

SetDefaultCache(p) ==
    /\ At(p, "dflt.cache")
    /\ cacheDflt' = ops[p].max
    /\ cache' = [u \in Users |->
           IF cache[u] # None /\ cache[u].isDefault /\ cache[u].max = cacheDflt
           THEN [cache[u] EXCEPT !.max = ops[p].max] ELSE cache[u]]
    /\ End(p)
    /\ UNCHANGED <<db, rehash, ghost>>

-----------------------------------------------------------------------------
(* Operations of a single statement.                                        *)

Statement == Counted("statement")

BlockUser ==
    /\ Statement
    /\ \E u \in Users : blocked' = blocked \cup {u} /\ ops' = Late(ops, u)
    /\ UNCHANGED <<creds, accts, row, dflt, stored, settings, mem, rehash, unsynced>>

UnblockUser ==
    /\ Statement /\ \E u \in blocked : blocked' = blocked \ {u}
    /\ UNCHANGED <<creds, accts, row, dflt, stored, settings, mem, rehash, ops, unsynced>>

(* /admin/blocklist, and "blocklist add" and "blocklist remove".            *)
BlocklistHandler == BlockUser \/ UnblockUser

BlocklistCommand == BlockUser \/ UnblockUser

(* "creds create" hashes with bcrypt unless told otherwise, "creds          *)
(* password" with DefaultHash.                                              *)
UsersCreate ==
    /\ Statement
    /\ \E u \in Users, w \in Passwords, bcrypt \in BOOLEAN :
        creds[u] = None /\ Creds(u, [pw |-> w, legacy |-> bcrypt])
    /\ UNCHANGED <<accts, row, dflt, blocked, stored, settings, mem, rehash, ops, unsynced>>

UsersPassword ==
    /\ Statement
    /\ \E u \in Users, w \in Passwords : Creds(u, [pw |-> w, legacy |-> FALSE])
    /\ UNCHANGED <<accts, row, dflt, blocked, stored, settings, mem, rehash, ops, unsynced>>

UsersRemove ==
    /\ Statement
    /\ \E u \in Users : Creds(u, None)
    /\ UNCHANGED <<accts, row, dflt, blocked, stored, settings, mem, rehash, ops, unsynced>>

(* SetKey of the settings table.                                            *)
SetSetting(key, v) ==
    /\ Statement
    /\ settings' = [settings EXCEPT ![key] = v]
    /\ UNCHANGED <<creds, accts, row, dflt, blocked, stored, mem, rehash, ops, unsynced>>

SetRegistrationOpen == \E v \in {"true", "false"} : SetSetting("registration", v)

SetJitRegistrationEnabled == \E v \in {"true", "false"} : SetSetting("jit", v)

(* /admin/registration and /admin/registration/jit; the commands "creds     *)
(* registration" and "creds jit" call the same methods.                     *)
RegistrationHandler == SetRegistrationOpen

JitRegistrationHandler == SetJitRegistrationEnabled

(* Messages of some accounts go, and nobody tells the cache: left[u] is     *)
(* what stays.                                                              *)
MessagesRemoved(left) ==
    /\ Statement
    /\ left # stored
    /\ stored' = left
    /\ unsynced' = unsynced \cup {u \in Users : left[u] # stored[u]}
    /\ UNCHANGED <<creds, accts, row, dflt, blocked, settings, mem, rehash, ops>>

ImapAcctPurge == \E u \in accts : MessagesRemoved([stored EXCEPT ![u] = 0])

ImapAcctPurgeAll == MessagesRemoved([u \in Users |-> 0])

(* Whole messages: the read ones, the unread or old ones, the expunged ones. *)
SomeRemoved ==
    \E left \in [Users -> {n * (HeaderLen + BodyLen) : n \in 0 .. MaxStored}] :
        /\ \A u \in Users : left[u] <= stored[u]
        /\ MessagesRemoved(left)

ImapAcctPurgeRead == SomeRemoved

ImapAcctPruneUnread == SomeRemoved

CleanupLoop == SomeRemoved

(* The end of Storage.Init: the cache is loaded, the loops are started.     *)
StorageInit == cache' = Loaded /\ cacheDflt' = DefaultQuota

(* The server dies and starts: what was in flight is cut, the cache loads.  *)
Restart ==
    /\ count.faults < MaxFaults
    /\ count' = [count EXCEPT !.faults = @ + 1]
    /\ overlap' = overlap \cup {{ops[q].kind, "cut"} : q \in Busy}
    /\ ops' = [p \in Procs |-> Idle] /\ rehash' = {}
    /\ StorageInit
    /\ unsynced' = {}
    /\ UNCHANGED db

-----------------------------------------------------------------------------
Start(p) ==
    \/ HandleNewAccount(p) \/ AdminCreate(p) \/ ImapAcctCreate(p)
    \/ Login(p) \/ CreateSASL(p) \/ Deliver(p) \/ NoticeHandler(p)
    \/ AdminGetQuota(p) \/ ImapGetQuota(p)
    \/ AdminDelete(p) \/ ImapAcctRemove(p)
    \/ CleanupUnusedAccountsLoop(p) \/ ImapAcctPruneUnused(p)
    \/ AdminSetQuota(p) \/ ImapAcctQuotaSet(p) \/ AdminResetQuota(p) \/ ImapAcctQuotaReset(p)
    \/ AdminSetDefault(p) \/ ImapAcctQuotaSetDefault(p)

Step(p) ==
    \/ NewCheck(p) \/ NewLookup(p) \/ NewSet(p) \/ NewAcct(p) \/ NewRowStep(p) \/ NewUndo(p)
    \/ Reply(p)
    \/ AuthPlain(p) \/ CreateUserIfNotExists(p) \/ OpenJit(p) \/ OpenBlocked(p)
    \/ OpenAccount(p) \/ OpenRow(p) \/ FirstLoginRead(p) \/ FirstLoginSave(p)
    \/ AddRcptJit(p) \/ AddRcptCreate(p) \/ AddRcptRow(p) \/ AddRcpt(p)
    \/ GetQuota(p) \/ GetQuotaUsed(p) \/ GetQuotaMax(p) \/ GetQuotaSetMax(p) \/ GetQuotaFill(p)
    \/ MailCommit(p) \/ AddUsed(p)
    \/ DeleteCreds(p) \/ DeleteRow(p) \/ DeleteUser(p) \/ DeleteRowAgain(p)
    \/ Invalidate(p) \/ DeleteBlock(p)
    \/ SetQuotaRead(p) \/ SetQuotaSave(p) \/ SetMax(p)
    \/ ResetQuotaRow(p) \/ ResetMax(p) \/ SetDefaultRow(p) \/ SetDefaultCache(p)

Next ==
    \/ \E p \in Procs : Start(p) \/ Step(p)
    \/ Rehash \/ BlocklistHandler \/ BlocklistCommand
    \/ RegistrationHandler \/ JitRegistrationHandler
    \/ UsersCreate \/ UsersPassword \/ UsersRemove
    \/ ImapAcctPurge \/ ImapAcctPurgeAll \/ ImapAcctPurgeRead \/ ImapAcctPruneUnread
    \/ CleanupLoop \/ Restart

Spec == Init /\ [][Next]_vars

-----------------------------------------------------------------------------
MadeBy(u, kinds) == \E p \in Procs : ops[p].kind \in kinds /\ ops[p].user = u

Effective(u) == IF row[u] # None /\ row[u].max > 0 THEN row[u].max ELSE DefaultQuota

(* After a miss the record's 0 is cached as the limit itself (GetQuota).    *)
FilledOnMiss(u) ==
    row[u] # None /\ row[u].max = 0 /\ cache[u].max = 0 /\ ~cache[u].isDefault

(* The limit the server enforces is the one the database holds, its own or  *)
(* the default, for every user whose rows only this process changed, after  *)
(* any operations that ran one after the other; except that a limit filled  *)
(* on a miss is none at all.                                                *)
LimitsFollowDatabase ==
    Busy = {} /\ overlap = {} =>
        /\ \A u \in Users \ unsynced :
              cache[u] # None => cache[u].max = Effective(u) \/ FilledOnMiss(u)
        /\ unsynced = {} => cacheDflt = DefaultQuota

(* However registrations, logins, deliveries and changes of limits          *)
(* interleave, every account has the quota record that pruning finds it by, *)
(* or the operation that is to make the record is still in flight.  Only a  *)
(* removal beside them, or a restart in their middle, can lose it.          *)
AccountTracked ==
    /\ count.faults = 0
    /\ \A o \in overlap : o \cap (Removals \cup {"cut"}) = {}
    => \A u \in accts : \/ row[u] # None
                        \/ MadeBy(u, {"new", "create", "login", "mail"} \cup Removals)

(* What registration answers is true, whatever is delivered or limited in   *)
(* the meantime: an account it hands out has these credentials, storage and *)
(* a record, and is not blocked; one it fails to make leaves no credentials *)
(* behind, unless undoing failed too.                                       *)
NewAccountWorks ==
    (\A o \in overlap : "new" \in o => o \subseteq {"new", "create", "mail", "getquota",
                                                     "set", "reset", "default"}
                                      /\ o # {"new"})
    => \A p \in Procs :
        /\ At(p, "new.ok") =>
              LET u == ops[p].user
              IN  /\ creds[u] = [pw |-> ops[p].pw, legacy |-> FALSE]
                  /\ u \in accts \ blocked /\ row[u] # None
        /\ At(p, "new.failed") => creds[ops[p].user] = None

Reborn(u) == u \in blocked /\ u \notin accts /\ u \in accts'

(* A blocked name gets an account again only from the command line, from a  *)
(* delivery, or from a registration or a login that had begun before the    *)
(* block.                                                                   *)
NoRebirth ==
    [][\A u \in Users : Reborn(u) =>
            \/ MadeBy(u, {"create", "mail"})
            \/ \E p \in Procs : ops[p].kind \in {"new", "login"} /\ ops[p].user = u /\ ops[p].late]_vars
=============================================================================
