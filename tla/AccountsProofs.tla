--------------------------- MODULE AccountsProofs ---------------------------
(***************************************************************************)
(* NoRebirth, AccountTracked, NewAccountWorks and LimitsFollowDatabase for *)
(* any number of users, passwords, operations in flight and faults.        *)
(*                                                                         *)
(* An operation is a record whose place (pc) says which statement is next; *)
(* nothing holds a lock from one statement to the next, so each invariant  *)
(* says of every place what the operation has behind it and whether the    *)
(* others could have undone it.  Who ran beside whom is in overlap, and    *)
(* Overlaps ties it to what is in flight: a step of a removal is alone     *)
(* where AccountTracked claims anything, a step beside a registration is a *)
(* mild one where NewAccountWorks does, and where LimitsFollowDatabase     *)
(* does, every operation is alone.  There is one lemma per step that says  *)
(* what it makes of its own record and of the tables (NewCheckMoves to     *)
(* DefaultCacheMoves), and the invariants are proved from those.           *)
(***************************************************************************)
EXTENDS Accounts, TLAPS

(* The operations in flight, by kind.                                      *)
QuotaPcs == {"quota", "quota.used", "quota.max", "quota.setmax", "quota.fill"}
Maxima == {0, ConfigDefault} \cup Limits

NewPcs == {"new.check", "new.lookup", "new.set", "new.acct", "new.row", "new.undo", "new.ok",
           "new.failed", "new.left"}
LoginPcs == {"login.lookup", "login.set", "login.jit", "login.blocked", "login.create",
             "login.get", "login.row", "login.first", "login.save", "login.ok"}
MailPcs == {"mail.jit", "mail.create", "mail.row", "mail.rcpt", "mail.commit", "mail.add"}
RemovalPcs == {"del.creds", "del.row", "del.acct", "del.row2", "del.cache", "del.block"}

OpNew == [kind : {"new"},
          pc : NewPcs,
          pw : Passwords, user : Users, late : BOOLEAN, tries : Int]
OpCreate == [kind : {"create"}, pc : {"new.acct", "new.row"}, user : Users]
OpLogin == [kind : {"login"},
            pc : LoginPcs,
            pw : Passwords, user : Users, late : BOOLEAN, copy : Row \cup {None}]
OpAuth == [kind : {"auth"}, pc : {"login.lookup", "login.set"}, pw : Passwords, user : Users]
OpMail == [kind : {"mail"},
           pc : MailPcs \cup QuotaPcs,
           max : Maxima, user : Users, use : Int, todo : SUBSET Users]
OpQuota == [kind : {"getquota"}, pc : QuotaPcs, max : Maxima, user : Users, use : Int]
OpRemoval == [kind : Removals,
              pc : RemovalPcs,
              user : Users, todo : SUBSET Users]
OpSet == [kind : {"set"}, pc : {"set.read", "set.save", "set.cache"}, max : Limits,
          user : Users, copy : Row \cup {None}, cli : BOOLEAN]
OpReset == [kind : {"reset"}, pc : {"reset.row", "reset.cache"}, user : Users, cli : BOOLEAN]
OpDefault == [kind : {"default"}, pc : {"dflt.row", "dflt.cache"}, max : Limits, cli : BOOLEAN]
UserOp == OpNew \cup OpCreate \cup OpLogin \cup OpAuth \cup OpMail \cup OpQuota
            \cup OpRemoval \cup OpSet \cup OpReset
Op == {Idle} \cup UserOp \cup OpDefault

Typed ==
    /\ TypeOK
    /\ ops \in [Procs -> Op]
    /\ count \in [ops : Nat, faults : Nat]
    /\ \A p \in Procs : At(p, "login.save") \/ At(p, "set.save") => ops[p].copy # None

(* Any two operations in flight together are in overlap.                   *)
Overlaps ==
    \A p, q \in Busy : p # q => {ops[p].kind, ops[q].kind} \in overlap

(* A registration or a login that goes on to make an account found its     *)
(* name unblocked, or is late for the block.                               *)
Unblocked(o) ==
    (o.kind = "new" /\ o.pc \in {"new.lookup", "new.set", "new.acct"}) \/ o.pc = "login.create"
        => o.user \notin blocked \/ o.late
BlockInv == \A p \in Procs : Unblocked(ops[p])

AtUser(u, pcs) == \E p \in Procs : ops[p].pc \in pcs /\ ops[p].user = u

(* An account without a record is between two statements of the operation  *)
(* that makes the record, or that removes the account.                     *)
Undisturbed == count.faults = 0 /\ \A o \in overlap : o \cap (Removals \cup {"cut"}) = {}
Recording == {"new.row", "login.row", "mail.row", "del.acct"}
TrackInv ==
    Undisturbed =>
        /\ \A u \in accts : row[u] # None \/ AtUser(u, Recording)
        /\ \A p \in Procs : ops[p].pc = "del.row2" => ops[p].user \notin accts

(* What a registration has behind it, while nothing but mild operations    *)
(* run beside it.                                                          *)
Mild == {"create", "mail", "getquota", "set", "reset", "default"}
NewUndisturbed == \A o \in overlap : "new" \in o => o \subseteq {"new"} \cup Mild /\ o # {"new"}
NewStage(o) ==
    /\ o.pc \in {"new.lookup", "new.set", "new.acct", "new.row", "new.ok"} => o.user \notin blocked
    /\ o.pc \in {"new.acct", "new.row", "new.ok"} => creds[o.user] = [pw |-> o.pw, legacy |-> FALSE]
    /\ o.pc \in {"new.row", "new.ok"} => o.user \in accts
    /\ o.pc = "new.ok" => row[o.user] # None
    /\ o.pc = "new.failed" => creds[o.user] = None
NewInv ==
    NewUndisturbed => \A p \in Procs : ops[p].kind = "new" => rehash = {} /\ NewStage(ops[p])

(* While operations run one after the other, an entry of the cache has the *)
(* record's limit or is a default one, unless an operation has written the *)
(* record and not yet the cache; and so for the default.                   *)
Own(u) == row[u] # None /\ row[u].max > 0
Follows(u) ==
    \/ cache[u] = None
    \/ cache[u].isDefault /\ ~Own(u) /\ cache[u].max = cacheDflt
    \/ ~cache[u].isDefault /\ row[u] # None /\ cache[u].max = row[u].max
LimitStage(o) ==
    /\ o.pc = "set.cache" => row[o.user] # None /\ row[o.user].max = o.max
    /\ o.pc = "reset.cache" => row[o.user] = None \/ row[o.user].max = 0
    /\ o.pc = "quota.setmax" => row[o.user] # None /\ o.max = row[o.user].max
    /\ o.pc = "quota.fill" => cache[o.user] # None \/ row[o.user] = None
    /\ o.pc \in {"mail.commit", "mail.add"} => cache[o.user] # None
    /\ o.pc = "login.save" => o.copy = row[o.user]
    /\ o.pc = "del.acct" => o.kind = "delete" \/ o.user \in unsynced
    /\ o.pc = "dflt.cache" => dflt = o.max
Behindhand == {"del.acct", "del.row2", "del.cache", "set.cache", "reset.cache"}
InPlace ==
    \/ Users \subseteq unsynced
    \/ cacheDflt = DefaultQuota
    \/ \E p \in Procs : ops[p].pc = "dflt.cache"
LimitInv ==
    overlap = {} =>
        /\ InPlace
        /\ \A u \in Users \ unsynced : Follows(u) \/ AtUser(u, Behindhand)
        /\ \A p \in Procs : LimitStage(ops[p])

-----------------------------------------------------------------------------
(* Operations as records: the place of an operation tells its kind.        *)
LEMMA PcOps ==
    ASSUME NEW o \in Op
    PROVE  /\ o.pc = "idle" \/ o.kind = "idle" => o = Idle
           /\ o.pc \in {"new.check", "new.lookup", "new.set", "new.undo", "new.ok", "new.failed",
                        "new.left"} \/ o.kind = "new" => o \in OpNew
           /\ o.pc \in {"new.acct", "new.row"} => o \in OpNew \cup OpCreate
           /\ o.pc \in {"login.lookup", "login.set"} => o \in OpLogin \cup OpAuth
           /\ o.pc \in LoginPcs \ {"login.lookup", "login.set"} \/ o.kind = "login" => o \in OpLogin
           /\ o.pc \in MailPcs \/ o.kind = "mail" => o \in OpMail
           /\ o.pc \in QuotaPcs => o \in OpMail \cup OpQuota
           /\ o.pc \in RemovalPcs \/ o.kind \in Removals => o \in OpRemoval
           /\ o.pc \in {"set.read", "set.save", "set.cache"} => o \in OpSet
           /\ o.pc \in {"reset.row", "reset.cache"} => o \in OpReset
           /\ o.pc \in {"dflt.row", "dflt.cache"} => o \in OpDefault
  <1> USE DEF NewPcs, LoginPcs, MailPcs, QuotaPcs, RemovalPcs, Removals
  <1>1. CASE o = Idle  BY <1>1 DEF Idle
  <1>2. CASE o \in OpNew  BY <1>2 DEF OpNew
  <1>3. CASE o \in OpCreate  BY <1>3 DEF OpCreate
  <1>4. CASE o \in OpLogin  BY <1>4 DEF OpLogin
  <1>5. CASE o \in OpAuth  BY <1>5 DEF OpAuth
  <1>6. CASE o \in OpMail  BY <1>6 DEF OpMail
  <1>7. CASE o \in OpQuota  BY <1>7 DEF OpQuota
  <1>8. CASE o \in OpRemoval  BY <1>8 DEF OpRemoval
  <1>9. CASE o \in OpSet  BY <1>9 DEF OpSet
  <1>10. CASE o \in OpReset  BY <1>10 DEF OpReset
  <1>11. CASE o \in OpDefault  BY <1>11 DEF OpDefault
  <1> QED
    BY <1>1, <1>2, <1>3, <1>4, <1>5, <1>6, <1>7, <1>8, <1>9, <1>10, <1>11 DEF Op, UserOp

LEMMA GotoNew ==
    ASSUME NEW o \in OpNew, NEW x \in NewPcs
    PROVE  LET y == [o EXCEPT !.pc = x]
           IN  /\ y \in OpNew /\ y.kind = "new" /\ y.pc = x /\ y.user = o.user /\ y.pw = o.pw
               /\ y.late = o.late
  BY DEF OpNew

LEMMA GotoCreate ==
    ASSUME NEW o \in OpCreate, NEW x \in {"new.acct", "new.row"}
    PROVE  LET y == [o EXCEPT !.pc = x]
           IN  y \in OpCreate /\ y.kind = "create" /\ y.pc = x /\ y.user = o.user
  BY DEF OpCreate

LEMMA GotoLogin ==
    ASSUME NEW o \in OpLogin, NEW x \in LoginPcs
    PROVE  LET y == [o EXCEPT !.pc = x]
           IN  /\ y \in OpLogin /\ y.kind = "login" /\ y.pc = x /\ y.user = o.user /\ y.pw = o.pw
               /\ y.late = o.late /\ y.copy = o.copy
  BY DEF OpLogin

LEMMA GotoAuth ==
    ASSUME NEW o \in OpAuth, NEW x \in {"login.lookup", "login.set"}
    PROVE  LET y == [o EXCEPT !.pc = x]
           IN  /\ y \in OpAuth /\ y.kind = "auth" /\ y.pc = x /\ y.user = o.user
               /\ y.pw = o.pw
  BY DEF OpAuth

LEMMA GotoMail ==
    ASSUME NEW o \in OpMail, NEW x \in MailPcs \cup QuotaPcs
    PROVE  LET y == [o EXCEPT !.pc = x]
           IN  /\ y \in OpMail /\ y.kind = "mail" /\ y.pc = x /\ y.user = o.user /\ y.max = o.max
               /\ y.use = o.use /\ y.todo = o.todo
  BY DEF OpMail

LEMMA GotoQuota ==
    ASSUME NEW o \in OpQuota, NEW x \in QuotaPcs
    PROVE  LET y == [o EXCEPT !.pc = x]
           IN  /\ y \in OpQuota /\ y.kind = "getquota" /\ y.pc = x /\ y.user = o.user /\ y.max = o.max
               /\ y.use = o.use
  BY DEF OpQuota

LEMMA GotoRemoval ==
    ASSUME NEW o \in OpRemoval, NEW x \in RemovalPcs
    PROVE  LET y == [o EXCEPT !.pc = x]
           IN  /\ y \in OpRemoval /\ y.kind = o.kind /\ y.pc = x /\ y.user = o.user
               /\ y.todo = o.todo
  BY DEF OpRemoval

LEMMA GotoSet ==
    ASSUME NEW o \in OpSet, NEW x \in {"set.read", "set.save", "set.cache"}
    PROVE  LET y == [o EXCEPT !.pc = x]
           IN  /\ y \in OpSet /\ y.kind = "set" /\ y.pc = x /\ y.user = o.user /\ y.max = o.max
               /\ y.copy = o.copy /\ y.cli = o.cli
  BY DEF OpSet

LEMMA GotoReset ==
    ASSUME NEW o \in OpReset, NEW x \in {"reset.row", "reset.cache"}
    PROVE  LET y == [o EXCEPT !.pc = x]
           IN  /\ y \in OpReset /\ y.kind = "reset" /\ y.pc = x /\ y.user = o.user
               /\ y.cli = o.cli
  BY DEF OpReset

LEMMA GotoDefault ==
    ASSUME NEW o \in OpDefault, NEW x \in {"dflt.row", "dflt.cache"}
    PROVE  LET y == [o EXCEPT !.pc = x]
           IN  /\ y \in OpDefault /\ y.kind = "default" /\ y.pc = x /\ y.max = o.max
               /\ y.cli = o.cli
  BY DEF OpDefault

-----------------------------------------------------------------------------
(* A step of an operation moves that operation alone.                      *)
Moves(p) ==
    /\ ops' = [ops EXCEPT ![p] = ops'[p]]
    /\ ops'[p] \in Op /\ ops'[p].kind \in {"idle", ops[p].kind}
Copied(o) == o.pc \in {"login.save", "set.save"} => o.copy # None

LEMMA OthersStay ==
    ASSUME Typed, NEW p \in Procs, Moves(p)
    PROVE  ops' \in [Procs -> Op] /\ \A q \in Procs : q # p => ops'[q] = ops[q]
  BY DEF Typed, Moves

LEMMA Goes ==
    ASSUME Typed, NEW p \in Procs, NEW x, Goto(p, x)
    PROVE  ops' = [ops EXCEPT ![p] = ops'[p]] /\ ops'[p] = [ops[p] EXCEPT !.pc = x]
  BY DEF Typed, Goto

LEMMA Ends ==
    ASSUME Typed, NEW p \in Procs, End(p)
    PROVE  Moves(p) /\ ops'[p] = Idle
  BY DEF Typed, End, Moves, Op, Idle

LEMMA IdleFields == Idle.pc = "idle" /\ Idle.kind = "idle"
  BY DEF Idle

LEMMA TypedMoves ==
    ASSUME Typed, NEW p \in Procs, Moves(p), Copied(ops'[p]), TypeOK',
           count' \in [ops : Nat, faults : Nat]
    PROVE  Typed'
  <1>1. ops' \in [Procs -> Op] /\ \A q \in Procs : q # p => ops'[q] = ops[q]
    BY OthersStay
  <1>2. ASSUME NEW q \in Procs, ops'[q].pc = "login.save" \/ ops'[q].pc = "set.save"
        PROVE  ops'[q].copy # None
    BY <1>1, <1>2 DEF Copied, Typed, At
  <1> QED
    BY <1>1, <1>2 DEF Typed, At

LEMMA SameTyped ==
    ASSUME Typed, UNCHANGED <<db, mem, rehash, ghost>>
    PROVE  TypeOK' /\ count' \in [ops : Nat, faults : Nat]
  BY DEF Typed, TypeOK, db, mem, ghost

LEMMA TriedAgain ==
    ASSUME NEW o \in OpNew, NEW u \in Users
    PROVE  LET y == [o EXCEPT !.user = u, !.pc = "new.check", !.tries = @ + 1, !.late = FALSE]
           IN  y \in OpNew /\ y.pc = "new.check" /\ y.kind = "new"
  <1> DEFINE y == [o EXCEPT !.user = u, !.pc = "new.check", !.tries = @ + 1, !.late = FALSE]
  <1>1. y = [kind |-> "new", pc |-> "new.check", pw |-> o.pw, user |-> u, late |-> FALSE,
             tries |-> o.tries + 1]
    <2> DEFINE t == o.tries + 1
    <2>1. y = [o EXCEPT !.user = u, !.pc = "new.check", !.tries = t, !.late = FALSE]
      OBVIOUS
    <2> HIDE DEF y, t
    <2>2. y = [kind |-> "new", pc |-> "new.check", pw |-> o.pw, user |-> u, late |-> FALSE, tries |-> t]
      BY <2>1 DEF OpNew
    <2> QED
      BY <2>2 DEF t
  <1>2. o.tries + 1 \in Int /\ o.pw \in Passwords
    BY DEF OpNew
  <1> HIDE DEF y
  <1> QED
    BY <1>1, <1>2 DEF OpNew, NewPcs, y

(* The registration's steps.                                               *)
LEMMA RetryMoves ==
    ASSUME Typed, NEW p \in Procs, ops[p] \in OpNew, Retry(p)
    PROVE  Moves(p) /\ (ops'[p] = Idle \/ (ops'[p] \in OpNew /\ ops'[p].pc = "new.check"))
  <1>1. CASE ops[p].tries = MaxAttempts
    BY <1>1, Ends DEF Retry
  <1>2. CASE ops[p].tries # MaxAttempts
    <2>1. PICK u \in Users :
            ops' = [ops EXCEPT ![p].user = u, ![p].pc = "new.check", ![p].tries = @ + 1,
                               ![p].late = FALSE]
      BY <1>2 DEF Retry
    <2> DEFINE o == ops[p]
               y == [o EXCEPT !.user = u, !.pc = "new.check", !.tries = @ + 1, !.late = FALSE]
    <2>2. ops' = [ops EXCEPT ![p] = y]
      BY <2>1 DEF Typed
    <2>3. y \in OpNew /\ y.pc = "new.check" /\ y.kind = "new" /\ o.kind = "new"
      BY TriedAgain DEF OpNew
    <2> HIDE DEF y
    <2> QED
      BY <2>2, <2>3 DEF Moves, Typed, Op, UserOp
  <1> QED
    BY <1>1, <1>2

LEMMA NewGoes ==
    ASSUME Typed, NEW p \in Procs, ops[p] \in OpNew, NEW x \in NewPcs, Goto(p, x)
    PROVE  /\ Moves(p) /\ ops'[p] \in OpNew /\ ops'[p].pc = x /\ ops'[p].kind = ops[p].kind
           /\ ops'[p].user = ops[p].user /\ ops'[p].pw = ops[p].pw /\ ops'[p].late = ops[p].late
  <1>1. ops' = [ops EXCEPT ![p] = ops'[p]] /\ ops'[p] = [ops[p] EXCEPT !.pc = x]
    BY Goes
  <1>2. /\ ops'[p] \in OpNew /\ ops'[p].kind = ops[p].kind /\ ops'[p].pc = x
        /\ ops'[p].user = ops[p].user /\ ops'[p].pw = ops[p].pw /\ ops'[p].late = ops[p].late
    BY <1>1, GotoNew DEF OpNew
  <1> QED
    BY <1>1, <1>2 DEF Moves, Op, UserOp

LEMMA CreateGoes ==
    ASSUME Typed, NEW p \in Procs, ops[p] \in OpCreate, NEW x \in {"new.acct", "new.row"},
           Goto(p, x)
    PROVE  /\ Moves(p) /\ ops'[p] \in OpCreate /\ ops'[p].pc = x /\ ops'[p].kind = ops[p].kind
           /\ ops'[p].user = ops[p].user
  <1>1. ops' = [ops EXCEPT ![p] = ops'[p]] /\ ops'[p] = [ops[p] EXCEPT !.pc = x]
    BY Goes
  <1>2. /\ ops'[p] \in OpCreate /\ ops'[p].kind = ops[p].kind /\ ops'[p].pc = x
        /\ ops'[p].user = ops[p].user
    BY <1>1, GotoCreate DEF OpCreate
  <1> QED
    BY <1>1, <1>2 DEF Moves, Op, UserOp

LEMMA LoginGoes ==
    ASSUME Typed, NEW p \in Procs, ops[p] \in OpLogin, NEW x \in LoginPcs, Goto(p, x)
    PROVE  /\ Moves(p) /\ ops'[p] \in OpLogin /\ ops'[p].pc = x /\ ops'[p].kind = ops[p].kind
           /\ ops'[p].user = ops[p].user /\ ops'[p].pw = ops[p].pw
           /\ ops'[p].late = ops[p].late /\ ops'[p].copy = ops[p].copy
  <1>1. ops' = [ops EXCEPT ![p] = ops'[p]] /\ ops'[p] = [ops[p] EXCEPT !.pc = x]
    BY Goes
  <1>2. /\ ops'[p] \in OpLogin /\ ops'[p].kind = ops[p].kind /\ ops'[p].pc = x
        /\ ops'[p].user = ops[p].user /\ ops'[p].pw = ops[p].pw /\ ops'[p].late = ops[p].late
        /\ ops'[p].copy = ops[p].copy
    BY <1>1, GotoLogin DEF OpLogin
  <1> QED
    BY <1>1, <1>2 DEF Moves, Op, UserOp

LEMMA AuthGoes ==
    ASSUME Typed, NEW p \in Procs, ops[p] \in OpAuth, NEW x \in {"login.lookup", "login.set"},
           Goto(p, x)
    PROVE  /\ Moves(p) /\ ops'[p] \in OpAuth /\ ops'[p].pc = x /\ ops'[p].kind = ops[p].kind
           /\ ops'[p].user = ops[p].user /\ ops'[p].pw = ops[p].pw
  <1>1. ops' = [ops EXCEPT ![p] = ops'[p]] /\ ops'[p] = [ops[p] EXCEPT !.pc = x]
    BY Goes
  <1>2. /\ ops'[p] \in OpAuth /\ ops'[p].kind = ops[p].kind /\ ops'[p].pc = x
        /\ ops'[p].user = ops[p].user /\ ops'[p].pw = ops[p].pw
    BY <1>1, GotoAuth DEF OpAuth
  <1> QED
    BY <1>1, <1>2 DEF Moves, Op, UserOp

LEMMA MailGoes ==
    ASSUME Typed, NEW p \in Procs, ops[p] \in OpMail, NEW x \in MailPcs \cup QuotaPcs, Goto(p, x)
    PROVE  /\ Moves(p) /\ ops'[p] \in OpMail /\ ops'[p].pc = x /\ ops'[p].kind = ops[p].kind
           /\ ops'[p].user = ops[p].user /\ ops'[p].max = ops[p].max
           /\ ops'[p].use = ops[p].use /\ ops'[p].todo = ops[p].todo
  <1>1. ops' = [ops EXCEPT ![p] = ops'[p]] /\ ops'[p] = [ops[p] EXCEPT !.pc = x]
    BY Goes
  <1>2. /\ ops'[p] \in OpMail /\ ops'[p].kind = ops[p].kind /\ ops'[p].pc = x
        /\ ops'[p].user = ops[p].user /\ ops'[p].max = ops[p].max /\ ops'[p].use = ops[p].use
        /\ ops'[p].todo = ops[p].todo
    BY <1>1, GotoMail DEF OpMail
  <1> QED
    BY <1>1, <1>2 DEF Moves, Op, UserOp

LEMMA QuotaGoes ==
    ASSUME Typed, NEW p \in Procs, ops[p] \in OpQuota, NEW x \in QuotaPcs, Goto(p, x)
    PROVE  /\ Moves(p) /\ ops'[p] \in OpQuota /\ ops'[p].pc = x /\ ops'[p].kind = ops[p].kind
           /\ ops'[p].user = ops[p].user /\ ops'[p].max = ops[p].max /\ ops'[p].use = ops[p].use
  <1>1. ops' = [ops EXCEPT ![p] = ops'[p]] /\ ops'[p] = [ops[p] EXCEPT !.pc = x]
    BY Goes
  <1>2. /\ ops'[p] \in OpQuota /\ ops'[p].kind = ops[p].kind /\ ops'[p].pc = x
        /\ ops'[p].user = ops[p].user /\ ops'[p].max = ops[p].max /\ ops'[p].use = ops[p].use
    BY <1>1, GotoQuota DEF OpQuota
  <1> QED
    BY <1>1, <1>2 DEF Moves, Op, UserOp

LEMMA RemovalGoes ==
    ASSUME Typed, NEW p \in Procs, ops[p] \in OpRemoval, NEW x \in RemovalPcs, Goto(p, x)
    PROVE  /\ Moves(p) /\ ops'[p] \in OpRemoval /\ ops'[p].pc = x /\ ops'[p].kind = ops[p].kind
           /\ ops'[p].user = ops[p].user /\ ops'[p].todo = ops[p].todo
  <1>1. ops' = [ops EXCEPT ![p] = ops'[p]] /\ ops'[p] = [ops[p] EXCEPT !.pc = x]
    BY Goes
  <1>2. /\ ops'[p] \in OpRemoval /\ ops'[p].kind = ops[p].kind /\ ops'[p].pc = x
        /\ ops'[p].user = ops[p].user /\ ops'[p].todo = ops[p].todo
    BY <1>1, GotoRemoval DEF OpRemoval
  <1> QED
    BY <1>1, <1>2 DEF Moves, Op, UserOp

LEMMA SetGoes ==
    ASSUME Typed, NEW p \in Procs, ops[p] \in OpSet, NEW x \in {"set.read", "set.save", "set.cache"},
           Goto(p, x)
    PROVE  /\ Moves(p) /\ ops'[p] \in OpSet /\ ops'[p].pc = x /\ ops'[p].kind = ops[p].kind
           /\ ops'[p].user = ops[p].user /\ ops'[p].max = ops[p].max
           /\ ops'[p].copy = ops[p].copy /\ ops'[p].cli = ops[p].cli
  <1>1. ops' = [ops EXCEPT ![p] = ops'[p]] /\ ops'[p] = [ops[p] EXCEPT !.pc = x]
    BY Goes
  <1>2. /\ ops'[p] \in OpSet /\ ops'[p].kind = ops[p].kind /\ ops'[p].pc = x
        /\ ops'[p].user = ops[p].user /\ ops'[p].max = ops[p].max
        /\ ops'[p].copy = ops[p].copy /\ ops'[p].cli = ops[p].cli
    BY <1>1, GotoSet DEF OpSet
  <1> QED
    BY <1>1, <1>2 DEF Moves, Op, UserOp

LEMMA ResetGoes ==
    ASSUME Typed, NEW p \in Procs, ops[p] \in OpReset, NEW x \in {"reset.row", "reset.cache"},
           Goto(p, x)
    PROVE  /\ Moves(p) /\ ops'[p] \in OpReset /\ ops'[p].pc = x /\ ops'[p].kind = ops[p].kind
           /\ ops'[p].user = ops[p].user /\ ops'[p].cli = ops[p].cli
  <1>1. ops' = [ops EXCEPT ![p] = ops'[p]] /\ ops'[p] = [ops[p] EXCEPT !.pc = x]
    BY Goes
  <1>2. /\ ops'[p] \in OpReset /\ ops'[p].kind = ops[p].kind /\ ops'[p].pc = x
        /\ ops'[p].user = ops[p].user /\ ops'[p].cli = ops[p].cli
    BY <1>1, GotoReset DEF OpReset
  <1> QED
    BY <1>1, <1>2 DEF Moves, Op, UserOp

LEMMA DefaultGoes ==
    ASSUME Typed, NEW p \in Procs, ops[p] \in OpDefault, NEW x \in {"dflt.row", "dflt.cache"},
           Goto(p, x)
    PROVE  /\ Moves(p) /\ ops'[p] \in OpDefault /\ ops'[p].pc = x /\ ops'[p].kind = ops[p].kind
           /\ ops'[p].max = ops[p].max /\ ops'[p].cli = ops[p].cli
  <1>1. ops' = [ops EXCEPT ![p] = ops'[p]] /\ ops'[p] = [ops[p] EXCEPT !.pc = x]
    BY Goes
  <1>2. /\ ops'[p] \in OpDefault /\ ops'[p].kind = ops[p].kind /\ ops'[p].pc = x
        /\ ops'[p].max = ops[p].max /\ ops'[p].cli = ops[p].cli
    BY <1>1, GotoDefault DEF OpDefault
  <1> QED
    BY <1>1, <1>2 DEF Moves, Op, UserOp

LEMMA OpOf ==
    ASSUME Typed, NEW p \in Procs
    PROVE  ops[p] \in Op /\ (Copied(ops[p]))
  BY DEF Typed, At, Copied

-----------------------------------------------------------------------------
(* What each step of a registration does to it.                            *)
LEMMA NewCheckMoves ==
    ASSUME Typed, NEW p \in Procs, NewCheck(p)
    PROVE  /\ Typed' /\ Moves(p) /\ ops[p] \in OpNew
           /\ \/ ops'[p] = Idle
              \/ ops'[p] \in OpNew /\ ops'[p].pc = "new.check"
              \/ /\ ops'[p] \in OpNew /\ ops'[p].pc = "new.lookup"
                 /\ ops'[p].user = ops[p].user /\ ops'[p].user \notin blocked
  <1>1. ops[p] \in OpNew
    BY OpOf, PcOps DEF NewCheck, At
  <1>2. TypeOK' /\ count' \in [ops : Nat, faults : Nat]
    BY SameTyped DEF NewCheck
  <1>3. CASE ops[p].user \in blocked
    <2>1. Retry(p)
      BY <1>3 DEF NewCheck
    <2>2. Moves(p) /\ (ops'[p] = Idle \/ (ops'[p] \in OpNew /\ ops'[p].pc = "new.check"))
      BY <1>1, <2>1, RetryMoves
    <2> QED
      BY <1>1, <1>2, <2>2, TypedMoves, IdleFields DEF Copied
  <1>4. CASE ops[p].user \notin blocked
    <2>1. Goto(p, "new.lookup")
      BY <1>4 DEF NewCheck
    <2>2. /\ Moves(p) /\ ops'[p] \in OpNew /\ ops'[p].pc = "new.lookup"
          /\ ops'[p].user = ops[p].user
      BY <1>1, <2>1, NewGoes DEF NewPcs
    <2> QED
      BY <1>1, <1>2, <1>4, <2>2, TypedMoves DEF Copied
  <1> QED
    BY <1>3, <1>4

LEMMA NewLookupMoves ==
    ASSUME Typed, NEW p \in Procs, NewLookup(p)
    PROVE  /\ Typed' /\ Moves(p) /\ ops[p] \in OpNew
           /\ \/ ops'[p] = Idle
              \/ ops'[p] \in OpNew /\ ops'[p].pc = "new.check"
              \/ /\ ops'[p] \in OpNew /\ ops'[p].pc = "new.set"
                 /\ ops'[p].user = ops[p].user /\ ops'[p].late = ops[p].late
  <1>1. ops[p] \in OpNew
    BY OpOf, PcOps DEF NewLookup, At
  <1>2. TypeOK' /\ count' \in [ops : Nat, faults : Nat]
    BY SameTyped DEF NewLookup
  <1>3. CASE creds[ops[p].user] # None
    <2>1. Retry(p)
      BY <1>3 DEF NewLookup
    <2>2. Moves(p) /\ (ops'[p] = Idle \/ (ops'[p] \in OpNew /\ ops'[p].pc = "new.check"))
      BY <1>1, <2>1, RetryMoves
    <2> QED
      BY <1>1, <1>2, <2>2, TypedMoves, IdleFields DEF Copied
  <1>4. CASE creds[ops[p].user] = None
    <2>1. Goto(p, "new.set")
      BY <1>4 DEF NewLookup
    <2>2. /\ Moves(p) /\ ops'[p] \in OpNew /\ ops'[p].pc = "new.set"
          /\ ops'[p].user = ops[p].user /\ ops'[p].late = ops[p].late
      BY <1>1, <2>1, NewGoes DEF NewPcs
    <2> QED
      BY <1>1, <1>2, <2>2, TypedMoves DEF Copied
  <1> QED
    BY <1>3, <1>4

LEMMA OpUser ==
    ASSUME NEW o \in UserOp
    PROVE  o.user \in Users
  BY DEF UserOp, OpNew, OpCreate, OpLogin, OpAuth, OpMail, OpQuota, OpRemoval, OpSet, OpReset

LEMMA CredsTyped ==
    ASSUME TypeOK, NEW u \in Users, NEW w \in Passwords, NEW b \in BOOLEAN,
           Creds(u, [pw |-> w, legacy |-> b]) \/ Creds(u, None)
    PROVE  creds' \in [Users -> [pw : Passwords, legacy : BOOLEAN] \cup {None}]
  <1>1. [pw |-> w, legacy |-> b] \in [pw : Passwords, legacy : BOOLEAN]
    OBVIOUS
  <1>2. PICK c \in [pw : Passwords, legacy : BOOLEAN] \cup {None} : creds' = [creds EXCEPT ![u] = c]
    BY <1>1 DEF Creds
  <1> QED
    BY <1>2 DEF TypeOK

LEMMA NewSetMoves ==
    ASSUME Typed, NEW p \in Procs, NewSet(p)
    PROVE  /\ Typed' /\ Moves(p) /\ ops[p] \in OpNew /\ ops'[p] \in OpNew
           /\ ops'[p].pc = "new.acct" /\ ops'[p].user = ops[p].user
           /\ ops'[p].pw = ops[p].pw /\ ops'[p].late = ops[p].late
  <1>1. ops[p] \in OpNew
    BY OpOf, PcOps DEF NewSet, At
  <1>2. ops[p].user \in Users /\ ops[p].pw \in Passwords
    BY <1>1 DEF OpNew
  <1>3. creds' \in [Users -> [pw : Passwords, legacy : BOOLEAN] \cup {None}]
    BY <1>2, CredsTyped DEF NewSet, Typed
  <1>4. TypeOK' /\ count' \in [ops : Nat, faults : Nat]
    BY <1>3 DEF NewSet, Typed, TypeOK, mem, ghost
  <1>5. /\ Moves(p) /\ ops'[p] \in OpNew /\ ops'[p].pc = "new.acct" /\ ops'[p].user = ops[p].user
        /\ ops'[p].pw = ops[p].pw /\ ops'[p].late = ops[p].late
    BY <1>1, NewGoes DEF NewSet, NewPcs
  <1> QED
    BY <1>1, <1>4, <1>5, TypedMoves DEF Copied

LEMMA Faulty ==
    ASSUME Typed, Fault
    PROVE  /\ count' \in [ops : Nat, faults : Nat] /\ count'.faults # 0
           /\ overlap' = overlap /\ unsynced' = unsynced
  <1>1. count \in [ops : Nat, faults : Nat] /\ count' = [count EXCEPT !.faults = @ + 1]
    BY DEF Typed, Fault
  <1>2. count.faults \in Nat /\ count.ops \in Nat
    BY <1>1
  <1> DEFINE f == count.faults + 1
  <1>3. f \in Nat /\ f # 0 /\ count' = [count EXCEPT !.faults = f]
    BY <1>1, <1>2
  <1> HIDE DEF f
  <1>4. count' \in [ops : Nat, faults : Nat] /\ count'.faults = f
    BY <1>1, <1>3
  <1> QED
    BY <1>3, <1>4 DEF Fault

LEMMA FailsMoves ==
    ASSUME Typed, NEW p \in Procs, ops[p] \in OpNew \cup OpCreate, Fails(p)
    PROVE  Moves(p) /\ (ops'[p] = Idle \/ (ops'[p] \in OpNew /\ ops'[p].pc = "new.undo"))
  <1>1. CASE ops[p].kind = "new"
    <2>1. ops[p] \in OpNew
      BY <1>1 DEF OpCreate
    <2> QED
      BY <1>1, <2>1, NewGoes DEF Fails, NewPcs
  <1>2. CASE ops[p].kind # "new"
    BY <1>2, Ends DEF Fails
  <1> QED
    BY <1>1, <1>2

LEMMA NewAcctMoves ==
    ASSUME Typed, NEW p \in Procs, NewAcct(p)
    PROVE  /\ Typed' /\ Moves(p) /\ ops[p] \in OpNew \cup OpCreate
           /\ \/ /\ accts' = accts \cup {ops[p].user} /\ ops'[p].pc = "new.row" /\ UNCHANGED ghost
                 /\ ops'[p].user = ops[p].user /\ ops'[p].kind = ops[p].kind
                 /\ ops[p] \in OpNew => ops'[p] \in OpNew /\ ops'[p].pw = ops[p].pw
              \/ /\ ops'[p] = Idle \/ (ops'[p] \in OpNew /\ ops'[p].pc = "new.undo")
                 /\ accts' = accts /\ (UNCHANGED ghost \/ Fault)
  <1>1. ops[p] \in OpNew \cup OpCreate
    BY OpOf, PcOps DEF NewAcct, At
  <1>2. ops[p].user \in Users
    BY <1>1 DEF OpNew, OpCreate
  <1>3. CASE accts' = accts \cup {ops[p].user} /\ Goto(p, "new.row") /\ UNCHANGED ghost
    <2>1. TypeOK' /\ count' \in [ops : Nat, faults : Nat]
      BY <1>2, <1>3 DEF NewAcct, Typed, TypeOK, mem, ghost
    <2>2. /\ Moves(p) /\ ops'[p].pc = "new.row" /\ ops'[p].user = ops[p].user
          /\ ops'[p].kind = ops[p].kind
          /\ ops[p] \in OpNew => ops'[p] \in OpNew /\ ops'[p].pw = ops[p].pw
      <3>1. CASE ops[p] \in OpNew
        BY <1>3, <3>1, NewGoes DEF NewPcs
      <3>2. CASE ops[p] \in OpCreate
        <4>1. ops[p] \notin OpNew
          BY <3>2 DEF OpNew, OpCreate
        <4> QED
          BY <1>3, <3>2, <4>1, CreateGoes
      <3> QED
        BY <1>1, <3>1, <3>2
    <2> QED
      BY <1>1, <1>3, <2>1, <2>2, TypedMoves DEF Copied
  <1>4. CASE accts' = accts /\ Fails(p) /\ (UNCHANGED ghost \/ Fault)
    <2>1. Moves(p) /\ (ops'[p] = Idle \/ (ops'[p] \in OpNew /\ ops'[p].pc = "new.undo"))
      BY <1>1, <1>4, FailsMoves
    <2>2. overlap' = overlap /\ unsynced' = unsynced /\ count' \in [ops : Nat, faults : Nat]
      BY <1>4, Faulty DEF ghost, Typed
    <2>3. TypeOK'
      BY <1>4, <2>2 DEF NewAcct, Typed, TypeOK, mem
    <2> QED
      BY <1>1, <1>4, <2>1, <2>2, <2>3, TypedMoves, IdleFields DEF Copied
  <1> QED
    BY <1>3, <1>4 DEF NewAcct

LEMMA RowNotNone == \A r \in Row : r # None
  <1>1. {0} \cup Limits \subseteq Nat
    BY SizesAreNat
  <1>2. Row \subseteq [used : BOOLEAN, max : Nat]
    BY <1>1 DEF Row
  <1> QED
    BY <1>2, NoneAssumption

LEMMA NewRecord ==
           NewRow \in Row /\ NewRow # None /\ NewRow.max = 0
  <1>1. NewRow \in [used : BOOLEAN, max : Nat] /\ NewRow \in Row /\ NewRow.max = 0
    BY DEF NewRow, Row
  <1> QED
    BY <1>1, NoneAssumption

(* A record is made where there is none.                                   *)
LEMMA Recorded ==
    ASSUME Typed, NEW u \in Users,
           row' = (IF row[u] = None THEN [row EXCEPT ![u] = NewRow] ELSE row)
    PROVE  /\ row' \in [Users -> Row \cup {None}] /\ row'[u] # None
           /\ \A v \in Users : row[v] # None => row'[v] = row[v]
           /\ \A v \in Users : row'[v] = row[v] \/ (row[v] = None /\ row'[v].max = 0)
  BY NewRecord DEF Typed, TypeOK

LEMMA NewRowMoves ==
    ASSUME Typed, NEW p \in Procs, NewRowStep(p)
    PROVE  /\ Typed' /\ Moves(p) /\ ops[p] \in OpNew \cup OpCreate
           /\ \/ /\ row' = (IF row[ops[p].user] = None THEN [row EXCEPT ![ops[p].user] = NewRow] ELSE row)
                 /\ ops'[p] = Idle
                    \/ /\ ops'[p].pc = "new.ok" /\ ops'[p].user = ops[p].user
                       /\ ops'[p] \in OpNew /\ ops'[p].pw = ops[p].pw
                 /\ UNCHANGED ghost
              \/ /\ ops'[p] = Idle \/ (ops'[p] \in OpNew /\ ops'[p].pc = "new.undo")
                 /\ row' = row /\ Fault
  <1>1. ops[p] \in OpNew \cup OpCreate
    BY OpOf, PcOps DEF NewRowStep, At
  <1>2. ops[p].user \in Users
    BY <1>1 DEF OpNew, OpCreate
  <1>3. CASE /\ row' = (IF row[ops[p].user] = None THEN [row EXCEPT ![ops[p].user] = NewRow] ELSE row)
             /\ IF ops[p].kind = "new" THEN Goto(p, "new.ok") ELSE End(p)
             /\ UNCHANGED ghost
    <2>1. row' \in [Users -> Row \cup {None}]
      BY <1>2, <1>3, Recorded
    <2>2. TypeOK' /\ count' \in [ops : Nat, faults : Nat]
      BY <1>3, <2>1 DEF NewRowStep, Typed, TypeOK, mem, ghost
    <2>3. Moves(p) /\ (ops'[p] = Idle
                       \/ /\ ops'[p].pc = "new.ok" /\ ops'[p].user = ops[p].user
                          /\ ops'[p] \in OpNew /\ ops'[p].pw = ops[p].pw)
      <3>1. CASE ops[p].kind = "new"
        <4>1. ops[p] \in OpNew /\ Goto(p, "new.ok")
          BY <1>1, <1>3, <3>1 DEF OpCreate
        <4> QED
          BY <4>1, NewGoes DEF NewPcs
      <3>2. CASE ops[p].kind # "new"
        BY <1>3, <3>2, Ends
      <3> QED
        BY <3>1, <3>2
    <2> QED
      BY <1>1, <1>3, <2>2, <2>3, TypedMoves, IdleFields DEF Copied
  <1>4. CASE row' = row /\ Fails(p) /\ Fault
    <2>1. Moves(p) /\ (ops'[p] = Idle \/ (ops'[p] \in OpNew /\ ops'[p].pc = "new.undo"))
      BY <1>1, <1>4, FailsMoves
    <2>2. overlap' = overlap /\ unsynced' = unsynced /\ count' \in [ops : Nat, faults : Nat]
      BY <1>4, Faulty
    <2>3. TypeOK'
      BY <1>4, <2>2 DEF NewRowStep, Typed, TypeOK, mem
    <2> QED
      BY <1>1, <1>4, <2>1, <2>2, <2>3, TypedMoves, IdleFields DEF Copied
  <1> QED
    BY <1>3, <1>4 DEF NewRowStep

LEMMA NewUndoMoves ==
    ASSUME Typed, NEW p \in Procs, NewUndo(p)
    PROVE  /\ Typed' /\ Moves(p) /\ ops[p] \in OpNew /\ ops'[p] \in OpNew
           /\ ops'[p].user = ops[p].user
           /\ \/ ops'[p].pc = "new.failed" /\ Creds(ops[p].user, None) /\ UNCHANGED ghost
              \/ ops'[p].pc = "new.left" /\ creds' = creds /\ Fault
  <1>1. ops[p] \in OpNew
    BY OpOf, PcOps DEF NewUndo, At
  <1>2. ops[p].user \in Users /\ ops[p].pw \in Passwords
    BY <1>1 DEF OpNew
  <1>3. CASE Creds(ops[p].user, None) /\ Goto(p, "new.failed") /\ UNCHANGED ghost
    <2>1. creds' \in [Users -> [pw : Passwords, legacy : BOOLEAN] \cup {None}]
      BY <1>2, <1>3, CredsTyped DEF Typed
    <2>2. TypeOK' /\ count' \in [ops : Nat, faults : Nat]
      BY <1>3, <2>1 DEF NewUndo, Typed, TypeOK, mem, ghost
    <2>3. Moves(p) /\ ops'[p] \in OpNew /\ ops'[p].pc = "new.failed" /\ ops'[p].user = ops[p].user
      BY <1>1, <1>3, NewGoes DEF NewPcs
    <2> QED
      BY <1>1, <1>3, <2>2, <2>3, TypedMoves DEF Copied
  <1>4. CASE creds' = creds /\ Goto(p, "new.left") /\ Fault
    <2>2. overlap' = overlap /\ unsynced' = unsynced /\ count' \in [ops : Nat, faults : Nat]
      BY <1>4, Faulty
    <2>3. TypeOK'
      BY <1>4, <2>2 DEF NewUndo, Typed, TypeOK, mem
    <2>4. Moves(p) /\ ops'[p] \in OpNew /\ ops'[p].pc = "new.left" /\ ops'[p].user = ops[p].user
      BY <1>1, <1>4, NewGoes DEF NewPcs
    <2> QED
      BY <1>1, <1>4, <2>2, <2>3, <2>4, TypedMoves DEF Copied
  <1> QED
    BY <1>3, <1>4 DEF NewUndo

LEMMA ReplyMoves ==
    ASSUME Typed, NEW p \in Procs, Reply(p)
    PROVE  Typed' /\ Moves(p) /\ ops'[p] = Idle
  BY SameTyped, Ends, TypedMoves, IdleFields DEF Reply, Copied

-----------------------------------------------------------------------------
(* What each step of a login does to it.                                   *)
LEMMA AuthenticatedMoves ==
    ASSUME Typed, NEW p \in Procs, ops[p] \in OpLogin \cup OpAuth, Authenticated(p)
    PROVE  Moves(p) /\ (ops'[p] = Idle \/ (ops'[p] \in OpLogin /\ ops'[p].pc = "login.jit"))
  <1>1. CASE ops[p].kind = "login"
    <2>1. ops[p] \in OpLogin /\ Goto(p, "login.jit")
      BY <1>1 DEF OpAuth, Authenticated
    <2> QED
      BY <2>1, LoginGoes DEF LoginPcs
  <1>2. CASE ops[p].kind # "login"
    BY <1>2, Ends DEF Authenticated
  <1> QED
    BY <1>1, <1>2

LEMMA AuthPlainMoves ==
    ASSUME Typed, NEW p \in Procs, AuthPlain(p)
    PROVE  /\ Typed' /\ Moves(p) /\ ops[p] \in OpLogin \cup OpAuth
           /\ ops'[p] = Idle \/ ops'[p].pc \in {"login.set", "login.jit"}
  <1>1. ops[p] \in OpLogin \cup OpAuth
    BY OpOf, PcOps DEF AuthPlain, At
  <1> DEFINE u == ops[p].user
             c == creds[u]
  <1>2. u \in Users /\ creds \in [Users -> [pw : Passwords, legacy : BOOLEAN] \cup {None}]
    BY <1>1 DEF OpLogin, OpAuth, Typed, TypeOK
  <1>3. c # None => c.pw \in Passwords
    BY <1>2
  <1>4. Moves(p) /\ (ops'[p] = Idle \/ ops'[p].pc \in {"login.set", "login.jit"})
    <2>1. CASE Goto(p, "login.set")
      <3>1. CASE ops[p] \in OpLogin
        BY <2>1, <3>1, LoginGoes DEF LoginPcs
      <3>2. CASE ops[p] \in OpAuth
        BY <2>1, <3>2, AuthGoes
      <3> QED
        BY <1>1, <3>1, <3>2
    <2>2. CASE End(p)
      BY <2>2, Ends
    <2>3. CASE Authenticated(p)
      BY <1>1, <2>3, AuthenticatedMoves
    <2>4. Goto(p, "login.set") \/ End(p) \/ Authenticated(p)
      BY DEF AuthPlain
    <2> QED
      BY <2>1, <2>2, <2>3, <2>4
  <1>5. rehash' = rehash \/ (c # None /\ rehash' = rehash \cup {<<u, c.pw>>})
    BY DEF AuthPlain
  <1>6. rehash' \subseteq Users \X Passwords
    <2>1. rehash \subseteq Users \X Passwords
      BY DEF Typed, TypeOK
    <2>2. CASE c # None /\ rehash' = rehash \cup {<<u, c.pw>>}
      <3>1. <<u, c.pw>> \in Users \X Passwords
        BY <1>2, <1>3, <2>2
      <3> QED
        BY <2>1, <2>2, <3>1
    <2> QED
      BY <1>5, <2>1, <2>2
  <1>7. TypeOK' /\ count' \in [ops : Nat, faults : Nat]
    BY <1>6 DEF AuthPlain, Typed, TypeOK, db, mem, ghost
  <1> QED
    BY <1>1, <1>4, <1>7, TypedMoves, IdleFields DEF Copied

LEMMA LoginSetMoves ==
    ASSUME Typed, NEW p \in Procs, CreateUserIfNotExists(p)
    PROVE  /\ Typed' /\ Moves(p) /\ ops[p] \in OpLogin \cup OpAuth
           /\ ops'[p] = Idle \/ ops'[p].pc = "login.jit"
  <1>1. ops[p] \in OpLogin \cup OpAuth
    BY OpOf, PcOps DEF CreateUserIfNotExists, At
  <1>2. ops[p].user \in Users /\ ops[p].pw \in Passwords
    BY <1>1 DEF OpLogin, OpAuth
  <1>3. creds' \in [Users -> [pw : Passwords, legacy : BOOLEAN] \cup {None}]
    BY <1>2, CredsTyped DEF CreateUserIfNotExists, Typed
  <1>4. TypeOK' /\ count' \in [ops : Nat, faults : Nat]
    BY <1>3 DEF CreateUserIfNotExists, Typed, TypeOK, mem, ghost
  <1>5. Moves(p) /\ (ops'[p] = Idle \/ ops'[p].pc = "login.jit")
    BY <1>1, AuthenticatedMoves DEF CreateUserIfNotExists
  <1> QED
    BY <1>1, <1>4, <1>5, TypedMoves, IdleFields DEF Copied

LEMMA OpenJitMoves ==
    ASSUME Typed, NEW p \in Procs, OpenJit(p)
    PROVE  /\ Typed' /\ Moves(p) /\ ops[p] \in OpLogin
           /\ ops'[p].pc \in {"login.blocked", "login.get"}
  <1>1. ops[p] \in OpLogin
    BY OpOf, PcOps DEF OpenJit, At, LoginPcs
  <1>2. PICK x \in {"login.blocked", "login.get"} : Goto(p, x)
    BY DEF OpenJit
  <1>3. Moves(p) /\ ops'[p].pc = x
    BY <1>1, <1>2, LoginGoes DEF LoginPcs
  <1> QED
    BY <1>1, <1>3, SameTyped, TypedMoves DEF OpenJit, Copied

LEMMA OpenBlockedMoves ==
    ASSUME Typed, NEW p \in Procs, OpenBlocked(p)
    PROVE  /\ Typed' /\ Moves(p) /\ ops[p] \in OpLogin
           /\ ops'[p] = Idle \/ /\ ops'[p].pc = "login.create" /\ ops'[p].user \notin blocked
                                /\ ops'[p].kind = "login"
  <1>1. ops[p] \in OpLogin
    BY OpOf, PcOps DEF OpenBlocked, At, LoginPcs
  <1>2. CASE End(p)
    BY <1>1, <1>2, Ends, SameTyped, TypedMoves, IdleFields DEF OpenBlocked, Copied
  <1>3. CASE ops[p].user \notin blocked /\ Goto(p, "login.create")
    <2>1. /\ Moves(p) /\ ops'[p].pc = "login.create" /\ ops'[p].user = ops[p].user
          /\ ops'[p] \in OpLogin
      BY <1>1, <1>3, LoginGoes DEF LoginPcs
    <2> QED
      BY <1>1, <1>3, <2>1, SameTyped, TypedMoves DEF OpenBlocked, Copied, OpLogin
  <1> QED
    BY <1>2, <1>3 DEF OpenBlocked

LEMMA OpenAccountMoves ==
    ASSUME Typed, NEW p \in Procs, OpenAccount(p)
    PROVE  /\ Typed' /\ Moves(p) /\ ops[p] \in OpLogin
           /\ \/ ops'[p] = Idle /\ accts' = accts
              \/ /\ ops'[p].pc = "login.row" /\ ops'[p].user = ops[p].user
                 /\ accts' = accts \/ (At(p, "login.create") /\ accts' = accts \cup {ops[p].user})
  <1>1. ops[p] \in OpLogin
    BY OpOf, PcOps DEF OpenAccount, At, LoginPcs
  <1>2. ops[p].user \in Users
    BY <1>1 DEF OpLogin
  <1>3. accts' = accts \/ accts' = accts \cup {ops[p].user}
    BY DEF OpenAccount
  <1>4. TypeOK' /\ count' \in [ops : Nat, faults : Nat]
    BY <1>2, <1>3 DEF OpenAccount, Typed, TypeOK, mem, ghost
  <1>5. CASE End(p) /\ accts' = accts
    BY <1>1, <1>4, <1>5, Ends, TypedMoves, IdleFields DEF Copied
  <1>6. CASE Goto(p, "login.row")
    <2>1. Moves(p) /\ ops'[p].pc = "login.row" /\ ops'[p].user = ops[p].user
      BY <1>1, <1>6, LoginGoes DEF LoginPcs
    <2> QED
      BY <1>1, <1>4, <2>1, TypedMoves DEF Copied, OpenAccount
  <1> QED
    BY <1>5, <1>6 DEF OpenAccount

LEMMA OpenRowMoves ==
    ASSUME Typed, NEW p \in Procs, OpenRow(p)
    PROVE  /\ Typed' /\ Moves(p) /\ ops[p] \in OpLogin /\ ops'[p].pc = "login.first"
           /\ row' = (IF row[ops[p].user] = None THEN [row EXCEPT ![ops[p].user] = NewRow] ELSE row)
  <1>1. ops[p] \in OpLogin
    BY OpOf, PcOps DEF OpenRow, At, LoginPcs
  <1>2. ops[p].user \in Users
    BY <1>1 DEF OpLogin
  <1>3. row' = (IF row[ops[p].user] = None THEN [row EXCEPT ![ops[p].user] = NewRow] ELSE row)
    BY DEF OpenRow
  <1>4. row' \in [Users -> Row \cup {None}]
    BY <1>2, <1>3, Recorded
  <1>5. TypeOK' /\ count' \in [ops : Nat, faults : Nat]
    BY <1>4 DEF OpenRow, Typed, TypeOK, mem, ghost
  <1>6. Moves(p) /\ ops'[p].pc = "login.first"
    BY <1>1, LoginGoes DEF OpenRow, LoginPcs
  <1> QED
    BY <1>1, <1>3, <1>5, <1>6, TypedMoves DEF Copied

LEMMA CopyLogin ==
    ASSUME NEW o \in OpLogin, NEW r \in Row \cup {None}, NEW x \in LoginPcs
    PROVE  LET y == [o EXCEPT !.copy = r, !.pc = x]
           IN  y \in OpLogin /\ y.copy = r /\ y.pc = x /\ y.user = o.user /\ y.kind = o.kind
  BY DEF OpLogin

LEMMA FirstReadMoves ==
    ASSUME Typed, NEW p \in Procs, FirstLoginRead(p)
    PROVE  /\ Typed' /\ Moves(p) /\ ops[p] \in OpLogin
           /\ ops'[p].copy = row[ops[p].user] /\ ops'[p].user = ops[p].user
           /\ ops'[p].pc \in {"login.ok", "login.save"}
  <1>1. ops[p] \in OpLogin
    BY OpOf, PcOps DEF FirstLoginRead, At, LoginPcs
  <1> DEFINE r == row[ops[p].user]
             x == IF r = None THEN "login.ok" ELSE "login.save"
             y == [ops[p] EXCEPT !.copy = r, !.pc = x]
  <1>2. r \in Row \cup {None} /\ x \in LoginPcs
    BY <1>1 DEF OpLogin, Typed, TypeOK, LoginPcs
  <1>3. ops' = [ops EXCEPT ![p] = y] /\ ops'[p] = y
    BY DEF FirstLoginRead, Typed
  <1> HIDE DEF r, x
  <1>4. y \in OpLogin /\ y.copy = r /\ y.pc = x /\ y.user = ops[p].user /\ y.kind = ops[p].kind
    BY <1>1, <1>2, CopyLogin DEF OpLogin
  <1> HIDE DEF y
  <1>5. Moves(p) /\ Copied(ops'[p])
    BY <1>3, <1>4 DEF Moves, Op, UserOp, Copied, x
  <1> QED
    BY <1>1, <1>3, <1>4, <1>5, SameTyped, TypedMoves DEF FirstLoginRead, r, x

LEMMA FirstSaveMoves ==
    ASSUME Typed, NEW p \in Procs, FirstLoginSave(p)
    PROVE  /\ Typed' /\ Moves(p) /\ ops[p] \in OpLogin /\ ops'[p].pc = "login.ok"
           /\ row' = [row EXCEPT ![ops[p].user] = row'[ops[p].user]]
           /\ row'[ops[p].user] # None /\ row'[ops[p].user].max = ops[p].copy.max
  <1>1. ops[p] \in OpLogin /\ ops[p].copy # None
    BY OpOf, PcOps DEF FirstLoginSave, At, LoginPcs, Copied
  <1> DEFINE c == ops[p].copy
             r == [c EXCEPT !.used = TRUE]
             u == ops[p].user
  <1>2. u \in Users /\ c \in Row
    BY <1>1 DEF OpLogin
  <1>3. r \in Row /\ r.max = c.max
    BY <1>2 DEF Row
  <1>4. row' = [row EXCEPT ![u] = r] /\ row \in [Users -> Row \cup {None}]
    BY DEF FirstLoginSave, Rows, Typed, TypeOK
  <1> HIDE DEF r
  <1>5. row' \in [Users -> Row \cup {None}] /\ row'[u] = r /\ r # None
    BY <1>2, <1>3, <1>4, RowNotNone
  <1>6. TypeOK' /\ count' \in [ops : Nat, faults : Nat]
    BY <1>5 DEF FirstLoginSave, Typed, TypeOK, mem, ghost
  <1>7. Moves(p) /\ ops'[p].pc = "login.ok"
    BY <1>1, LoginGoes DEF FirstLoginSave, LoginPcs
  <1> QED
    BY <1>1, <1>3, <1>4, <1>5, <1>6, <1>7, TypedMoves DEF Copied

-----------------------------------------------------------------------------
(* What each step of a delivery or of GETQUOTA does to it.                 *)
Over(p) == ops'[p] = Idle \/ ops'[p].pc = "mail.jit"

LEMMA OverCopied ==
    ASSUME NEW p \in Procs, Over(p) PROVE Copied(ops'[p])
  BY IdleFields DEF Over, Copied

LEMMA NextMail ==
    ASSUME NEW u \in Users, NEW us \in SUBSET Users
    PROVE  MailOp(u, us) \in OpMail /\ MailOp(u, us).pc = "mail.jit" /\ MailOp(u, us).kind = "mail"
  BY DEF MailOp, OpMail, MailPcs, Maxima

LEMMA DeliveredMoves ==
    ASSUME Typed, NEW p \in Procs, ops[p] \in OpMail \cup OpQuota, Delivered(p)
    PROVE  Moves(p) /\ Over(p)
  <1>1. CASE End(p)
    BY <1>1, Ends DEF Over
  <1>2. CASE ~End(p)
    <2>1. ops[p].kind = "mail" /\ \E u \in ops[p].todo : ops' = [ops EXCEPT ![p] = MailOp(u, ops[p].todo \ {u})]
      BY <1>2 DEF Delivered
    <2>2. PICK u \in ops[p].todo : ops' = [ops EXCEPT ![p] = MailOp(u, ops[p].todo \ {u})]
      BY <2>1
    <2>3. ops[p].todo \in SUBSET Users
      BY <2>1 DEF OpMail, OpQuota
    <2> DEFINE y == MailOp(u, ops[p].todo \ {u})
    <2>4. y \in OpMail /\ y.pc = "mail.jit" /\ y.kind = "mail"
      BY <2>2, <2>3, NextMail
    <2> HIDE DEF y
    <2>5. ops' = [ops EXCEPT ![p] = y] /\ ops'[p] = y
      BY <2>2 DEF y, Typed
    <2> QED
      BY <2>1, <2>4, <2>5 DEF Moves, Over, Op, UserOp
  <1> QED
    BY <1>1, <1>2

LEMMA AskGoes ==
    ASSUME Typed, NEW p \in Procs, ops[p] \in OpMail \cup OpQuota, NEW x \in QuotaPcs, Goto(p, x)
    PROVE  Moves(p) /\ ops'[p].pc = x /\ ops'[p].user = ops[p].user /\ ops'[p].max = ops[p].max
  BY MailGoes, QuotaGoes

LEMMA CheckedMoves ==
    ASSUME Typed, NEW p \in Procs, ops[p] \in OpMail \cup OpQuota, NEW use, NEW max,
           Checked(p, use, max)
    PROVE  Moves(p) /\ (Over(p) \/ (ops'[p].pc = "mail.commit" /\ ops'[p].user = ops[p].user))
  <1>1. CASE Delivered(p)
    BY <1>1, DeliveredMoves
  <1>2. CASE ops[p].kind = "mail" /\ Goto(p, "mail.commit")
    <2>1. ops[p] \in OpMail
      BY <1>2 DEF OpQuota
    <2> QED
      BY <1>2, <2>1, MailGoes DEF MailPcs
  <1> QED
    BY <1>1, <1>2 DEF Checked

LEMMA AddRcptJitMoves ==
    ASSUME Typed, NEW p \in Procs, AddRcptJit(p)
    PROVE  /\ Typed' /\ Moves(p) /\ ops[p] \in OpMail
           /\ ops'[p].pc \in {"mail.create", "mail.rcpt"}
  <1>1. ops[p] \in OpMail
    BY OpOf, PcOps DEF AddRcptJit, At, MailPcs
  <1>2. PICK x \in {"mail.create", "mail.rcpt"} : Goto(p, x)
    BY DEF AddRcptJit
  <1>3. Moves(p) /\ ops'[p].pc = x
    BY <1>1, <1>2, MailGoes DEF MailPcs
  <1> QED
    BY <1>1, <1>3, SameTyped, TypedMoves DEF AddRcptJit, Copied

LEMMA AddRcptCreateMoves ==
    ASSUME Typed, NEW p \in Procs, AddRcptCreate(p)
    PROVE  /\ Typed' /\ Moves(p) /\ ops[p] \in OpMail
           /\ accts' = accts \cup {ops[p].user} /\ ops'[p].user = ops[p].user
           /\ ops'[p].pc = IF ops[p].user \in accts THEN "mail.rcpt" ELSE "mail.row"
  <1>1. ops[p] \in OpMail
    BY OpOf, PcOps DEF AddRcptCreate, At, MailPcs
  <1>2. ops[p].user \in Users
    BY <1>1 DEF OpMail
  <1> DEFINE x == IF ops[p].user \in accts THEN "mail.rcpt" ELSE "mail.row"
  <1>3. Goto(p, x) /\ x \in MailPcs /\ accts' = accts \cup {ops[p].user}
    BY DEF AddRcptCreate, MailPcs
  <1>4. TypeOK' /\ count' \in [ops : Nat, faults : Nat]
    BY <1>2, <1>3 DEF AddRcptCreate, Typed, TypeOK, mem, ghost
  <1> HIDE DEF x
  <1>5. Moves(p) /\ ops'[p].pc = x /\ ops'[p].user = ops[p].user
    BY <1>1, <1>3, MailGoes
  <1>6. x \in {"mail.rcpt", "mail.row"}
    BY DEF x
  <1> QED
    BY <1>1, <1>3, <1>4, <1>5, <1>6, TypedMoves DEF Copied, x

LEMMA AddRcptRowMoves ==
    ASSUME Typed, NEW p \in Procs, AddRcptRow(p)
    PROVE  /\ Typed' /\ Moves(p) /\ ops[p] \in OpMail /\ ops'[p].pc = "mail.rcpt"
           /\ row' = (IF row[ops[p].user] = None THEN [row EXCEPT ![ops[p].user] = NewRow] ELSE row)
  <1>1. ops[p] \in OpMail
    BY OpOf, PcOps DEF AddRcptRow, At, MailPcs
  <1>2. ops[p].user \in Users
    BY <1>1 DEF OpMail
  <1>3. row' = (IF row[ops[p].user] = None THEN [row EXCEPT ![ops[p].user] = NewRow] ELSE row)
    BY DEF AddRcptRow
  <1>4. row' \in [Users -> Row \cup {None}]
    BY <1>2, <1>3, Recorded
  <1>5. TypeOK' /\ count' \in [ops : Nat, faults : Nat]
    BY <1>4 DEF AddRcptRow, Typed, TypeOK, mem, ghost
  <1>6. Moves(p) /\ ops'[p].pc = "mail.rcpt"
    BY <1>1, MailGoes DEF AddRcptRow, MailPcs
  <1> QED
    BY <1>1, <1>3, <1>5, <1>6, TypedMoves DEF Copied

LEMMA AddRcptMoves ==
    ASSUME Typed, NEW p \in Procs, AddRcpt(p)
    PROVE  Typed' /\ Moves(p) /\ ops[p] \in OpMail /\ (Over(p) \/ ops'[p].pc = "quota")
  <1>1. ops[p] \in OpMail
    BY OpOf, PcOps DEF AddRcpt, At, MailPcs
  <1>2. Moves(p) /\ (Over(p) \/ ops'[p].pc = "quota")
    BY <1>1, DeliveredMoves, AskGoes DEF AddRcpt, QuotaPcs
  <1> QED
    BY <1>1, <1>2, SameTyped, TypedMoves, OverCopied DEF AddRcpt, Copied

LEMMA GetQuotaMoves ==
    ASSUME Typed, NEW p \in Procs, GetQuota(p)
    PROVE  /\ Typed' /\ Moves(p) /\ ops[p] \in OpMail \cup OpQuota
           /\ \/ Over(p) \/ ops'[p].pc = "quota.used"
              \/ /\ ops'[p].pc = "mail.commit" /\ ops'[p].user = ops[p].user
                 /\ cache[ops[p].user] # None
  <1>1. ops[p] \in OpMail \cup OpQuota
    BY OpOf, PcOps DEF GetQuota, At, QuotaPcs
  <1>2. CASE cache[ops[p].user] # None
    <2>1. PICK use, max : Checked(p, use, max)
      BY <1>2 DEF GetQuota
    <2>2. Moves(p) /\ (Over(p) \/ (ops'[p].pc = "mail.commit" /\ ops'[p].user = ops[p].user))
      BY <1>1, <2>1, CheckedMoves
    <2> QED
      BY <1>1, <1>2, <2>2, SameTyped, TypedMoves, OverCopied DEF GetQuota, Copied
  <1>3. CASE cache[ops[p].user] = None
    <2>1. Moves(p) /\ ops'[p].pc = "quota.used"
      BY <1>1, <1>3, AskGoes DEF GetQuota, QuotaPcs
    <2> QED
      BY <1>1, <2>1, SameTyped, TypedMoves DEF GetQuota, Copied
  <1> QED
    BY <1>2, <1>3

LEMMA AskUse ==
    ASSUME NEW o \in OpMail \cup OpQuota, NEW n \in Int, NEW x \in QuotaPcs
    PROVE  LET y == [o EXCEPT !.use = n, !.pc = x]
           IN  /\ y \in OpMail \cup OpQuota /\ y.pc = x /\ y.user = o.user /\ y.kind = o.kind
               /\ y.max = o.max
  <1>1. CASE o \in OpMail  BY <1>1 DEF OpMail
  <1>2. CASE o \in OpQuota  BY <1>2 DEF OpQuota
  <1> QED  BY <1>1, <1>2

LEMMA Asks ==
    ASSUME Typed, NEW p \in Procs, NEW y \in OpMail \cup OpQuota, y.kind = ops[p].kind,
           y.pc \in QuotaPcs, ops' = [ops EXCEPT ![p] = y], UNCHANGED <<db, mem, rehash, ghost>>
    PROVE  Typed' /\ Moves(p) /\ ops'[p] = y
  <1>1. ops'[p] = y
    BY DEF Typed
  <1>2. Moves(p) /\ Copied(ops'[p])
    BY <1>1 DEF Moves, Op, UserOp, Copied, QuotaPcs
  <1> QED
    BY <1>1, <1>2, SameTyped, TypedMoves

LEMMA GetQuotaUsedMoves ==
    ASSUME Typed, NEW p \in Procs, GetQuotaUsed(p)
    PROVE  /\ Typed' /\ Moves(p) /\ ops[p] \in OpMail \cup OpQuota
           /\ ops'[p].pc = "quota.max" /\ ops'[p].user = ops[p].user
  <1>1. ops[p] \in OpMail \cup OpQuota
    BY OpOf, PcOps DEF GetQuotaUsed, At, QuotaPcs
  <1> DEFINE n == stored[ops[p].user]
             y == [ops[p] EXCEPT !.use = n, !.pc = "quota.max"]
  <1>2. n \in Int
    BY <1>1 DEF OpMail, OpQuota, Typed, TypeOK
  <1>3. ops' = [ops EXCEPT ![p] = y]
    BY DEF GetQuotaUsed, Typed
  <1> HIDE DEF n
  <1>4. y \in OpMail \cup OpQuota /\ y.pc = "quota.max" /\ y.user = ops[p].user /\ y.kind = ops[p].kind
    BY <1>1, <1>2, AskUse DEF QuotaPcs
  <1> HIDE DEF y
  <1>5. Typed' /\ Moves(p) /\ ops'[p] = y
    BY <1>3, <1>4, Asks DEF GetQuotaUsed, QuotaPcs
  <1> QED
    BY <1>1, <1>4, <1>5

LEMMA GetQuotaMaxMoves ==
    ASSUME Typed, NEW p \in Procs, GetQuotaMax(p)
    PROVE  /\ Typed' /\ Moves(p) /\ ops[p] \in OpMail \cup OpQuota /\ ops'[p].user = ops[p].user
           /\ \/ ops'[p].pc = "quota.fill" /\ row[ops[p].user] = None
              \/ /\ ops'[p].pc = "quota.setmax" /\ row[ops[p].user] # None
                 /\ ops'[p].max = row[ops[p].user].max
  <1>1. ops[p] \in OpMail \cup OpQuota
    BY OpOf, PcOps DEF GetQuotaMax, At, QuotaPcs
  <1> DEFINE r == row[ops[p].user]
  <1>2. r \in Row \cup {None}
    BY <1>1 DEF OpMail, OpQuota, Typed, TypeOK
  <1>3. CASE r = None
    <2> DEFINE y == [ops[p] EXCEPT !.max = DefaultQuota, !.pc = "quota.fill"]
    <2>1. DefaultQuota \in Maxima
      BY DEF DefaultQuota, Maxima, Typed, TypeOK
    <2>2. ops' = [ops EXCEPT ![p] = y]
      BY <1>3 DEF GetQuotaMax, Typed
    <2>3. y \in OpMail \cup OpQuota /\ y.pc = "quota.fill" /\ y.user = ops[p].user /\ y.kind = ops[p].kind
      <3>1. CASE ops[p] \in OpMail
        BY <2>1, <3>1 DEF OpMail, QuotaPcs
      <3>2. CASE ops[p] \in OpQuota
        BY <2>1, <3>2 DEF OpQuota, QuotaPcs
      <3> QED
        BY <1>1, <3>1, <3>2
    <2> HIDE DEF y
    <2>4. Typed' /\ Moves(p) /\ ops'[p] = y
      BY <2>2, <2>3, Asks DEF GetQuotaMax, QuotaPcs
    <2> QED
      BY <1>1, <1>3, <2>3, <2>4
  <1>4. CASE r # None
    <2> DEFINE m == r.max
               y == [ops[p] EXCEPT !.max = m, !.pc = "quota.setmax"]
    <2>1. m \in Maxima
      BY <1>2, <1>4 DEF Maxima, Row
    <2>2. ops' = [ops EXCEPT ![p] = y]
      BY <1>4 DEF GetQuotaMax, Typed
    <2> HIDE DEF m
    <2>3. /\ y \in OpMail \cup OpQuota /\ y.pc = "quota.setmax" /\ y.user = ops[p].user
          /\ y.kind = ops[p].kind /\ y.max = m
      <3>1. CASE ops[p] \in OpMail
        BY <2>1, <3>1 DEF OpMail, QuotaPcs
      <3>2. CASE ops[p] \in OpQuota
        BY <2>1, <3>2 DEF OpQuota, QuotaPcs
      <3> QED
        BY <1>1, <3>1, <3>2
    <2> HIDE DEF y
    <2>4. Typed' /\ Moves(p) /\ ops'[p] = y
      BY <2>2, <2>3, Asks DEF GetQuotaMax, QuotaPcs
    <2> QED
      BY <1>1, <1>4, <2>3, <2>4 DEF m
  <1> QED
    BY <1>3, <1>4

(* Entries of the cache.                                                   *)
LEMMA EntryNotNone == \A e \in Entry : e # None
  <1>1. {0, ConfigDefault} \cup Limits \subseteq Nat
    BY SizesAreNat
  <1>2. Entry \subseteq [used : Int, max : Nat, isDefault : BOOLEAN]
    BY <1>1 DEF Entry
  <1> QED
    BY <1>2, NoneAssumption

LEMMA EntryTyped ==
    ASSUME Typed, NEW u \in Users
    PROVE  /\ EntryOf(u) \in Entry
           /\ cache[u] # None => EntryOf(u) = cache[u] /\ cache[u] \in Entry
           /\ cache[u] = None => EntryOf(u) = DefaultEntry
  <1>1. cache[u] \in Entry \cup {None} /\ cacheDflt \in {ConfigDefault} \cup Limits
    BY DEF Typed, TypeOK
  <1>2. DefaultEntry \in Entry
    BY <1>1 DEF DefaultEntry, Entry
  <1> QED
    BY <1>1, <1>2 DEF EntryOf

LEMMA UsedEntry ==
    ASSUME NEW e \in Entry, NEW n \in Int
    PROVE  LET y == [e EXCEPT !.used = n]
           IN  y \in Entry /\ y.max = e.max /\ y.isDefault = e.isDefault
  BY DEF Entry

LEMMA CacheTyped ==
    ASSUME Typed, NEW u \in Users, NEW e \in Entry \cup {None}, Cached(u, e)
    PROVE  /\ cache' \in [Users -> Entry \cup {None}] /\ cache'[u] = e
           /\ \A v \in Users : v # u => cache'[v] = cache[v]
  BY DEF Typed, TypeOK, Cached

LEMMA MaxEntry ==
    ASSUME Typed, NEW u \in Users, NEW m \in Maxima
    PROVE  WithMax(u, m) \in Entry /\ WithMax(u, m).max = m /\ ~WithMax(u, m).isDefault
  <1> DEFINE n == IF cache[u] = None THEN 0 ELSE cache[u].used
  <1>1. cache[u] # None => cache[u] \in Entry
    BY EntryTyped
  <1>2. n \in Int
    BY <1>1 DEF Entry
  <1> HIDE DEF n
  <1>3. [used |-> n, max |-> m, isDefault |-> FALSE] \in Entry
    BY <1>2 DEF Entry, Maxima
  <1> QED
    BY <1>3 DEF WithMax, n

LEMMA GetQuotaSetMaxMoves ==
    ASSUME Typed, NEW p \in Procs, GetQuotaSetMax(p)
    PROVE  /\ Typed' /\ Moves(p) /\ ops[p] \in OpMail \cup OpQuota
           /\ ops'[p].pc = "quota.fill" /\ ops'[p].user = ops[p].user
           /\ cache'[ops[p].user] # None /\ cache'[ops[p].user].max = ops[p].max
           /\ ~cache'[ops[p].user].isDefault
           /\ \A v \in Users : v # ops[p].user => cache'[v] = cache[v]
  <1>1. ops[p] \in OpMail \cup OpQuota
    BY OpOf, PcOps DEF GetQuotaSetMax, At, QuotaPcs
  <1>2. ops[p].user \in Users /\ ops[p].max \in Maxima
    BY <1>1 DEF OpMail, OpQuota
  <1> DEFINE e == WithMax(ops[p].user, ops[p].max)
  <1>3. e \in Entry /\ e.max = ops[p].max /\ ~e.isDefault
    BY <1>2, MaxEntry
  <1>4. Cached(ops[p].user, e)
    BY DEF GetQuotaSetMax
  <1> HIDE DEF e
  <1>5. /\ cache' \in [Users -> Entry \cup {None}] /\ cache'[ops[p].user] = e
        /\ \A v \in Users : v # ops[p].user => cache'[v] = cache[v]
    BY <1>2, <1>3, <1>4, CacheTyped
  <1>6. TypeOK' /\ count' \in [ops : Nat, faults : Nat]
    BY <1>5 DEF GetQuotaSetMax, Typed, TypeOK, db, ghost
  <1>7. Moves(p) /\ ops'[p].pc = "quota.fill" /\ ops'[p].user = ops[p].user
    BY <1>1, AskGoes DEF GetQuotaSetMax, QuotaPcs
  <1> QED
    BY <1>1, <1>3, <1>5, <1>6, <1>7, TypedMoves, EntryNotNone DEF Copied

(* An entry that is there keeps its limit; otherwise a default one is made. *)
Refilled(u) ==
    /\ cache' \in [Users -> Entry \cup {None}]
    /\ cache'[u] # None
    /\ cache[u] # None => cache'[u].max = cache[u].max /\ cache'[u].isDefault = cache[u].isDefault
    /\ cache[u] = None => cache'[u].max = cacheDflt /\ cache'[u].isDefault
    /\ \A v \in Users : v # u => cache'[v] = cache[v]

LEMMA Refill ==
    ASSUME Typed, NEW u \in Users, NEW n \in Int, Cached(u, [EntryOf(u) EXCEPT !.used = n])
    PROVE  Refilled(u)
  <1> DEFINE e == EntryOf(u)
             y == [e EXCEPT !.used = n]
  <1>1. /\ e \in Entry
        /\ cache[u] # None => e = cache[u]
        /\ cache[u] = None => e = DefaultEntry
    BY EntryTyped
  <1>2. cache[u] = None => e.max = cacheDflt /\ e.isDefault
    BY <1>1 DEF DefaultEntry
  <1>3. Cached(u, y)
    OBVIOUS
  <1> HIDE DEF e
  <1>4. y \in Entry /\ y.max = e.max /\ y.isDefault = e.isDefault
    BY <1>1, UsedEntry DEF Entry
  <1> HIDE DEF y
  <1>5. /\ cache' \in [Users -> Entry \cup {None}] /\ cache'[u] = y
        /\ \A v \in Users : v # u => cache'[v] = cache[v]
    BY <1>3, <1>4, CacheTyped
  <1> QED
    BY <1>1, <1>2, <1>4, <1>5, EntryNotNone DEF Refilled

LEMMA GetQuotaFillMoves ==
    ASSUME Typed, NEW p \in Procs, GetQuotaFill(p)
    PROVE  /\ Typed' /\ Moves(p) /\ ops[p] \in OpMail \cup OpQuota /\ Refilled(ops[p].user)
           /\ Over(p) \/ (ops'[p].pc = "mail.commit" /\ ops'[p].user = ops[p].user)
  <1>1. ops[p] \in OpMail \cup OpQuota
    BY OpOf, PcOps DEF GetQuotaFill, At, QuotaPcs
  <1>2. ops[p].user \in Users /\ ops[p].use \in Int
    BY <1>1 DEF OpMail, OpQuota
  <1>3. Refilled(ops[p].user)
    BY <1>2, Refill DEF GetQuotaFill
  <1>4. TypeOK' /\ count' \in [ops : Nat, faults : Nat]
    BY <1>3 DEF GetQuotaFill, Typed, TypeOK, db, ghost, Refilled
  <1>5. Moves(p) /\ (Over(p) \/ (ops'[p].pc = "mail.commit" /\ ops'[p].user = ops[p].user))
    BY <1>1, CheckedMoves DEF GetQuotaFill
  <1> QED
    BY <1>1, <1>3, <1>4, <1>5, TypedMoves, OverCopied DEF Copied

LEMMA MailCommitMoves ==
    ASSUME Typed, NEW p \in Procs, MailCommit(p)
    PROVE  /\ Typed' /\ Moves(p) /\ ops[p] \in OpMail
           /\ Over(p) \/ (ops'[p].pc = "mail.add" /\ ops'[p].user = ops[p].user)
  <1>1. ops[p] \in OpMail
    BY OpOf, PcOps DEF MailCommit, At, MailPcs
  <1>2. ops[p].user \in Users /\ stored \in [Users -> Nat]
    BY <1>1 DEF OpMail, Typed, TypeOK
  <1>3. stored' \in [Users -> Nat]
    <2>1. CASE ops[p].user \in accts
      <3> DEFINE n == stored[ops[p].user] + HeaderLen + BodyLen
      <3>1. n \in Nat
        BY <1>2, SizesAreNat
      <3>2. stored' = [stored EXCEPT ![ops[p].user] = n]
        BY <2>1 DEF MailCommit
      <3> HIDE DEF n
      <3> QED
        BY <1>2, <3>1, <3>2
    <2>2. CASE ops[p].user \notin accts
      BY <1>2, <2>2 DEF MailCommit
    <2> QED
      BY <2>1, <2>2
  <1>4. TypeOK' /\ count' \in [ops : Nat, faults : Nat]
    BY <1>3 DEF MailCommit, Typed, TypeOK, mem, ghost
  <1>5. Moves(p) /\ (Over(p) \/ (ops'[p].pc = "mail.add" /\ ops'[p].user = ops[p].user))
    <2>1. CASE Delivered(p)
      BY <1>1, <2>1, DeliveredMoves
    <2>2. CASE Goto(p, "mail.add")
      BY <1>1, <2>2, MailGoes DEF MailPcs
    <2> QED
      BY <2>1, <2>2 DEF MailCommit
  <1> QED
    BY <1>1, <1>4, <1>5, TypedMoves, OverCopied DEF Copied

LEMMA AddUsedMoves ==
    ASSUME Typed, NEW p \in Procs, AddUsed(p)
    PROVE  Typed' /\ Moves(p) /\ ops[p] \in OpMail /\ Over(p) /\ Refilled(ops[p].user)
  <1>1. ops[p] \in OpMail
    BY OpOf, PcOps DEF AddUsed, At, MailPcs
  <1> DEFINE u == ops[p].user
             n == EntryOf(u).used + BodyLen
  <1>2. u \in Users
    BY <1>1 DEF OpMail
  <1>3. n \in Int
    BY <1>2, EntryTyped, SizesAreNat DEF Entry
  <1>4. Cached(u, [EntryOf(u) EXCEPT !.used = n])
    BY DEF AddUsed
  <1> HIDE DEF n, u
  <1>5. Refilled(u)
    BY <1>2, <1>3, <1>4, Refill
  <1>6. TypeOK' /\ count' \in [ops : Nat, faults : Nat]
    BY <1>5 DEF AddUsed, Typed, TypeOK, db, ghost, Refilled
  <1>7. Moves(p) /\ Over(p)
    BY <1>1, DeliveredMoves DEF AddUsed
  <1> QED
    BY <1>1, <1>5, <1>6, <1>7, TypedMoves, OverCopied DEF u

-----------------------------------------------------------------------------
(* What each step of a removal does to it.                                 *)
LEMMA NextRemoval ==
    ASSUME NEW o \in OpRemoval, NEW u \in o.todo
    PROVE  LET y == [o EXCEPT !.user = u, !.todo = @ \ {u}, !.pc = "del.row"]
           IN  y \in OpRemoval /\ y.pc = "del.row" /\ y.kind = o.kind
  <1> DEFINE t == o.todo \ {u}
             y == [o EXCEPT !.user = u, !.todo = t, !.pc = "del.row"]
  <1>1. t \in SUBSET Users /\ u \in Users
    BY DEF OpRemoval
  <1> HIDE DEF t
  <1>2. y \in OpRemoval /\ y.pc = "del.row" /\ y.kind = o.kind
    BY <1>1 DEF OpRemoval, RemovalPcs
  <1> QED
    BY <1>2 DEF t

LEMMA RemovedOneMoves ==
    ASSUME Typed, NEW p \in Procs, ops[p] \in OpRemoval, RemovedOne(p)
    PROVE  Moves(p) /\ (ops'[p] = Idle \/ ops'[p].pc = "del.row")
  <1>1. CASE ops[p].todo = {}
    BY <1>1, Ends DEF RemovedOne
  <1>2. CASE ops[p].todo # {}
    <2>1. PICK u \in ops[p].todo :
            ops' = [ops EXCEPT ![p].user = u, ![p].todo = @ \ {u}, ![p].pc = "del.row"]
      BY <1>2 DEF RemovedOne
    <2> DEFINE o == ops[p]
               y == [o EXCEPT !.user = u, !.todo = @ \ {u}, !.pc = "del.row"]
    <2>2. ops' = [ops EXCEPT ![p] = y] /\ ops'[p] = y
      BY <2>1 DEF Typed
    <2>3. y \in OpRemoval /\ y.pc = "del.row" /\ y.kind = o.kind
      BY NextRemoval
    <2> HIDE DEF y
    <2> QED
      BY <2>2, <2>3 DEF Moves, Op, UserOp
  <1> QED
    BY <1>1, <1>2

LEMMA DeleteCredsMoves ==
    ASSUME Typed, NEW p \in Procs, DeleteCreds(p)
    PROVE  /\ Typed' /\ Moves(p) /\ ops[p] \in OpRemoval
           /\ ops'[p] = Idle \/ ops'[p].pc = "del.row"
           /\ overlap' = overlap /\ unsynced' = unsynced /\ (count' = count \/ count'.faults # 0)
  <1>1. ops[p] \in OpRemoval
    BY OpOf, PcOps DEF DeleteCreds, At, RemovalPcs
  <1>2. ops[p].user \in Users
    BY <1>1 DEF OpRemoval
  <1>3. /\ overlap' = overlap /\ unsynced' = unsynced /\ count' \in [ops : Nat, faults : Nat]
        /\ count' = count \/ count'.faults # 0
    BY Faulty DEF DeleteCreds, ghost, Typed
  <1>4. creds' \in [Users -> [pw : Passwords, legacy : BOOLEAN] \cup {None}]
    <2>1. CASE Creds(ops[p].user, None)
      BY <1>2, <2>1 DEF Typed, TypeOK, Creds
    <2>2. CASE creds' = creds
      BY <2>2 DEF Typed, TypeOK
    <2> QED
      BY <2>1, <2>2 DEF DeleteCreds
  <1>5. TypeOK'
    BY <1>3, <1>4 DEF DeleteCreds, Typed, TypeOK, mem
  <1>6. Moves(p) /\ (ops'[p] = Idle \/ ops'[p].pc = "del.row")
    <2>1. CASE Goto(p, "del.row")
      BY <1>1, <2>1, RemovalGoes DEF RemovalPcs
    <2>2. CASE RemovedOne(p)
      BY <1>1, <2>2, RemovedOneMoves
    <2> QED
      BY <2>1, <2>2 DEF DeleteCreds
  <1> QED
    BY <1>1, <1>3, <1>5, <1>6, TypedMoves, IdleFields DEF Copied

LEMMA DeleteRowMoves ==
    ASSUME Typed, NEW p \in Procs, DeleteRow(p)
    PROVE  /\ Typed' /\ Moves(p) /\ ops[p] \in OpRemoval
           /\ ops'[p].pc = "del.acct" /\ ops'[p].user = ops[p].user /\ ops'[p].kind = ops[p].kind
           /\ overlap' = overlap /\ count' = count
           /\ unsynced' = IF ops[p].kind = "delete" THEN unsynced ELSE unsynced \cup {ops[p].user}
           /\ \A v \in Users : row'[v] = IF v = ops[p].user THEN None ELSE row[v]
  <1>1. ops[p] \in OpRemoval
    BY OpOf, PcOps DEF DeleteRow, At, RemovalPcs
  <1>2. ops[p].user \in Users
    BY <1>1 DEF OpRemoval
  <1>3. /\ overlap' = overlap /\ count' = count
        /\ unsynced' = IF ops[p].kind = "delete" THEN unsynced ELSE unsynced \cup {ops[p].user}
    BY DEF DeleteRow, ghost, Behind
  <1>4. /\ row' \in [Users -> Row \cup {None}]
        /\ \A v \in Users : row'[v] = IF v = ops[p].user THEN None ELSE row[v]
    BY <1>2 DEF DeleteRow, Rows, Typed, TypeOK
  <1>5. unsynced' \subseteq Users
    BY <1>2, <1>3 DEF Typed, TypeOK
  <1>6. TypeOK' /\ count' \in [ops : Nat, faults : Nat]
    BY <1>3, <1>4, <1>5 DEF DeleteRow, Typed, TypeOK, mem
  <1>7. /\ Moves(p) /\ ops'[p].pc = "del.acct" /\ ops'[p].user = ops[p].user
        /\ ops'[p].kind = ops[p].kind
    BY <1>1, RemovalGoes DEF DeleteRow, RemovalPcs
  <1> QED
    BY <1>1, <1>3, <1>4, <1>6, <1>7, TypedMoves DEF Copied

LEMMA DeleteUserMoves ==
    ASSUME Typed, NEW p \in Procs, DeleteUser(p)
    PROVE  /\ Typed' /\ Moves(p) /\ ops[p] \in OpRemoval /\ accts' = accts \ {ops[p].user}
           /\ \/ /\ ops[p].kind = "delete" /\ ops'[p].pc = "del.row2"
                 /\ ops'[p].user = ops[p].user
              \/ ops[p].kind # "delete" /\ (ops'[p] = Idle \/ ops'[p].pc \in {"del.creds", "del.row"})
  <1>1. ops[p] \in OpRemoval
    BY OpOf, PcOps DEF DeleteUser, At, RemovalPcs
  <1>2. ops[p].user \in Users
    BY <1>1 DEF OpRemoval
  <1>3. accts' = accts \ {ops[p].user} /\ stored' \in [Users -> Nat]
    BY <1>2 DEF DeleteUser, Typed, TypeOK
  <1>4. TypeOK' /\ count' \in [ops : Nat, faults : Nat]
    BY <1>3 DEF DeleteUser, Typed, TypeOK, mem, ghost
  <1>5. \/ ops[p].kind = "delete" /\ Goto(p, "del.row2")
        \/ ops[p].kind # "delete" /\ (Goto(p, "del.creds") \/ RemovedOne(p))
    BY DEF DeleteUser
  <1>6. CASE ops[p].kind = "delete" /\ Goto(p, "del.row2")
    <2>1. Moves(p) /\ ops'[p].pc = "del.row2" /\ ops'[p].user = ops[p].user
      BY <1>1, <1>6, RemovalGoes DEF RemovalPcs
    <2> QED
      BY <1>1, <1>3, <1>4, <1>6, <2>1, TypedMoves DEF Copied
  <1>7. CASE ops[p].kind # "delete" /\ Goto(p, "del.creds")
    <2>1. Moves(p) /\ ops'[p].pc = "del.creds"
      BY <1>1, <1>7, RemovalGoes DEF RemovalPcs
    <2> QED
      BY <1>1, <1>3, <1>4, <1>7, <2>1, TypedMoves DEF Copied
  <1>8. CASE ops[p].kind # "delete" /\ RemovedOne(p)
    <2>1. Moves(p) /\ (ops'[p] = Idle \/ ops'[p].pc = "del.row")
      BY <1>1, <1>8, RemovedOneMoves
    <2> QED
      BY <1>1, <1>3, <1>4, <1>8, <2>1, TypedMoves, IdleFields DEF Copied
  <1> QED
    BY <1>5, <1>6, <1>7, <1>8

LEMMA DeleteRowAgainMoves ==
    ASSUME Typed, NEW p \in Procs, DeleteRowAgain(p)
    PROVE  /\ Typed' /\ Moves(p) /\ ops[p] \in OpRemoval
           /\ ops'[p].pc = "del.cache" /\ ops'[p].user = ops[p].user
           /\ \A v \in Users : row'[v] = IF v = ops[p].user THEN None ELSE row[v]
  <1>1. ops[p] \in OpRemoval
    BY OpOf, PcOps DEF DeleteRowAgain, At, RemovalPcs
  <1>2. ops[p].user \in Users
    BY <1>1 DEF OpRemoval
  <1>4. /\ row' \in [Users -> Row \cup {None}]
        /\ \A v \in Users : row'[v] = IF v = ops[p].user THEN None ELSE row[v]
    BY <1>2 DEF DeleteRowAgain, Rows, Typed, TypeOK
  <1>6. TypeOK' /\ count' \in [ops : Nat, faults : Nat]
    BY <1>4 DEF DeleteRowAgain, Typed, TypeOK, mem, ghost
  <1>7. Moves(p) /\ ops'[p].pc = "del.cache" /\ ops'[p].user = ops[p].user
    BY <1>1, RemovalGoes DEF DeleteRowAgain, RemovalPcs
  <1> QED
    BY <1>1, <1>4, <1>6, <1>7, TypedMoves DEF Copied

LEMMA InvalidateMoves ==
    ASSUME Typed, NEW p \in Procs, Invalidate(p)
    PROVE  /\ Typed' /\ Moves(p) /\ ops[p] \in OpRemoval /\ ops'[p].pc = "del.block"
           /\ cache'[ops[p].user] = None
           /\ \A v \in Users : v # ops[p].user => cache'[v] = cache[v]
  <1>1. ops[p] \in OpRemoval
    BY OpOf, PcOps DEF Invalidate, At, RemovalPcs
  <1>2. ops[p].user \in Users
    BY <1>1 DEF OpRemoval
  <1>4. /\ cache' \in [Users -> Entry \cup {None}] /\ cache'[ops[p].user] = None
        /\ \A v \in Users : v # ops[p].user => cache'[v] = cache[v]
    BY <1>2, CacheTyped DEF Invalidate
  <1>6. TypeOK' /\ count' \in [ops : Nat, faults : Nat]
    BY <1>4 DEF Invalidate, Typed, TypeOK, db, ghost
  <1>7. Moves(p) /\ ops'[p].pc = "del.block"
    BY <1>1, RemovalGoes DEF Invalidate, RemovalPcs
  <1> QED
    BY <1>1, <1>4, <1>6, <1>7, TypedMoves DEF Copied

-----------------------------------------------------------------------------
(* What each step of a change of limits does to it.                        *)
LEMMA SetReadMoves ==
    ASSUME Typed, NEW p \in Procs, SetQuotaRead(p)
    PROVE  Typed' /\ Moves(p) /\ ops[p] \in OpSet /\ ops'[p].pc = "set.save"
  <1>1. ops[p] \in OpSet
    BY OpOf, PcOps DEF SetQuotaRead, At
  <1> DEFINE r == row[ops[p].user]
             c == IF r = None THEN NewRow ELSE r
             y == [ops[p] EXCEPT !.copy = c, !.pc = "set.save"]
  <1>2. c \in Row \cup {None} /\ c # None
    BY <1>1, NewRecord DEF OpSet, Typed, TypeOK
  <1>3. ops' = [ops EXCEPT ![p] = y] /\ ops'[p] = y
    BY DEF SetQuotaRead, Typed
  <1> HIDE DEF c
  <1>4. y \in OpSet /\ y.copy = c /\ y.pc = "set.save" /\ y.kind = ops[p].kind
    BY <1>1, <1>2 DEF OpSet
  <1> HIDE DEF y
  <1>5. Moves(p) /\ Copied(ops'[p])
    BY <1>2, <1>3, <1>4 DEF Moves, Op, UserOp, Copied
  <1> QED
    BY <1>1, <1>3, <1>4, <1>5, SameTyped, TypedMoves DEF SetQuotaRead

LEMMA SetSaveMoves ==
    ASSUME Typed, NEW p \in Procs, SetQuotaSave(p)
    PROVE  /\ Typed' /\ Moves(p) /\ ops[p] \in OpSet /\ overlap' = overlap
           /\ count' = count \/ count'.faults # 0
           /\ \A v \in Users : v # ops[p].user => row'[v] = row[v]
           /\ \/ ops'[p] = Idle /\ row' = row /\ unsynced' = unsynced
              \/ ops'[p] = Idle /\ row'[ops[p].user] # None /\ unsynced' = unsynced \cup {ops[p].user}
              \/ /\ ops'[p].pc = "set.cache" /\ ops'[p].user = ops[p].user
                 /\ ops'[p].max = ops[p].max /\ unsynced' = unsynced
                 /\ row'[ops[p].user] # None /\ row'[ops[p].user].max = ops[p].max
  <1>1. ops[p] \in OpSet /\ ops[p].copy # None
    BY OpOf, PcOps DEF SetQuotaSave, At, Copied
  <1> DEFINE u == ops[p].user
             c == ops[p].copy
             m == ops[p].max
             r == [c EXCEPT !.max = m]
  <1>2. u \in Users /\ c \in Row /\ m \in Limits
    BY <1>1 DEF OpSet
  <1>3. r \in Row /\ r.max = m
    BY <1>2 DEF Row
  <1>4. row \in [Users -> Row \cup {None}] /\ unsynced \subseteq Users
    BY DEF Typed, TypeOK
  <1>5. CASE Rows(u, r) /\ IF ops[p].cli THEN End(p) /\ Behind({u}) ELSE Goto(p, "set.cache") /\ UNCHANGED ghost
    <2> HIDE DEF r
    <2>1. /\ row' \in [Users -> Row \cup {None}] /\ row'[u] = r /\ r # None
          /\ \A v \in Users : v # u => row'[v] = row[v]
      BY <1>2, <1>3, <1>4, <1>5, RowNotNone DEF Rows
    <2>2. CASE ops[p].cli
      <3>1. End(p) /\ count' = count /\ overlap' = overlap /\ unsynced' = unsynced \cup {u}
        BY <1>5, <2>2 DEF Behind
      <3>2. Moves(p) /\ ops'[p] = Idle
        BY <3>1, Ends
      <3>3. TypeOK' /\ count' \in [ops : Nat, faults : Nat]
        BY <1>2, <2>1, <3>1 DEF SetQuotaSave, Typed, TypeOK, mem
      <3> QED
        BY <1>1, <2>1, <3>1, <3>2, <3>3, TypedMoves, IdleFields DEF Copied
    <2>3. CASE ~ops[p].cli
      <3>1. Goto(p, "set.cache") /\ count' = count /\ overlap' = overlap /\ unsynced' = unsynced
        BY <1>5, <2>3 DEF ghost
      <3>2. Moves(p) /\ ops'[p].pc = "set.cache" /\ ops'[p].user = u /\ ops'[p].max = m
        BY <1>1, <3>1, SetGoes
      <3>3. TypeOK' /\ count' \in [ops : Nat, faults : Nat]
        BY <2>1, <3>1 DEF SetQuotaSave, Typed, TypeOK, mem
      <3> QED
        BY <1>1, <1>3, <2>1, <3>1, <3>2, <3>3, TypedMoves DEF Copied
    <2> QED
      BY <2>2, <2>3
  <1>6. CASE Fault /\ End(p) /\ row' = row
    <2>1. /\ overlap' = overlap /\ unsynced' = unsynced /\ count' \in [ops : Nat, faults : Nat]
          /\ count'.faults # 0
      BY <1>6, Faulty
    <2>2. Moves(p) /\ ops'[p] = Idle
      BY <1>6, Ends
    <2>3. TypeOK'
      BY <1>6, <2>1 DEF SetQuotaSave, Typed, TypeOK, mem
    <2> QED
      BY <1>1, <1>6, <2>1, <2>2, <2>3, TypedMoves, IdleFields DEF Copied
  <1> QED
    BY <1>5, <1>6 DEF SetQuotaSave

LEMMA SetMaxMoves ==
    ASSUME Typed, NEW p \in Procs, SetMax(p)
    PROVE  /\ Typed' /\ Moves(p) /\ ops[p] \in OpSet /\ ops'[p] = Idle
           /\ cache'[ops[p].user] # None /\ cache'[ops[p].user].max = ops[p].max
           /\ ~cache'[ops[p].user].isDefault
           /\ \A v \in Users : v # ops[p].user => cache'[v] = cache[v]
  <1>1. ops[p] \in OpSet
    BY OpOf, PcOps DEF SetMax, At
  <1>2. ops[p].user \in Users /\ ops[p].max \in Maxima
    BY <1>1 DEF OpSet, Maxima
  <1> DEFINE e == WithMax(ops[p].user, ops[p].max)
  <1>3. e \in Entry /\ e.max = ops[p].max /\ ~e.isDefault
    BY <1>2, MaxEntry
  <1>4. Cached(ops[p].user, e)
    BY DEF SetMax
  <1> HIDE DEF e
  <1>5. /\ cache' \in [Users -> Entry \cup {None}] /\ cache'[ops[p].user] = e
        /\ \A v \in Users : v # ops[p].user => cache'[v] = cache[v]
    BY <1>2, <1>3, <1>4, CacheTyped
  <1>6. TypeOK' /\ count' \in [ops : Nat, faults : Nat]
    BY <1>5 DEF SetMax, Typed, TypeOK, db, ghost
  <1>7. Moves(p) /\ ops'[p] = Idle
    BY Ends DEF SetMax
  <1> QED
    BY <1>1, <1>3, <1>5, <1>6, <1>7, TypedMoves, EntryNotNone, IdleFields DEF Copied

LEMMA ResetRowMoves ==
    ASSUME Typed, NEW p \in Procs, ResetQuotaRow(p)
    PROVE  /\ Typed' /\ Moves(p) /\ ops[p] \in OpReset /\ overlap' = overlap /\ count' = count
           /\ \A v \in Users : v # ops[p].user => row'[v] = row[v]
           /\ row[ops[p].user] # None => row'[ops[p].user] # None
           /\ row'[ops[p].user] = None \/ row'[ops[p].user].max = 0
           /\ \/ ops'[p] = Idle /\ unsynced' = unsynced \cup {ops[p].user}
              \/ /\ ops'[p].pc = "reset.cache" /\ ops'[p].user = ops[p].user
                 /\ unsynced' = unsynced
  <1>1. ops[p] \in OpReset
    BY OpOf, PcOps DEF ResetQuotaRow, At
  <1> DEFINE u == ops[p].user
  <1>2. u \in Users /\ row \in [Users -> Row \cup {None}] /\ unsynced \subseteq Users
    BY <1>1 DEF OpReset, Typed, TypeOK
  <1>3. /\ row' \in [Users -> Row \cup {None}]
        /\ \A v \in Users : v # u => row'[v] = row[v]
        /\ row[u] # None => row'[u] # None
        /\ row'[u] = None \/ row'[u].max = 0
    <2>1. CASE row[u] = None
      BY <1>2, <2>1 DEF ResetQuotaRow
    <2>2. CASE row[u] # None
      <3> DEFINE r == [row[u] EXCEPT !.max = 0]
      <3>1. r \in Row /\ r.max = 0
        BY <1>2, <2>2 DEF Row
      <3>2. row' = [row EXCEPT ![u] = r]
        BY <1>2, <2>2 DEF ResetQuotaRow
      <3> HIDE DEF r
      <3> QED
        BY <1>2, <3>1, <3>2, RowNotNone
    <2> QED
      BY <2>1, <2>2
  <1>4. CASE ops[p].cli
    <2>1. End(p) /\ count' = count /\ overlap' = overlap /\ unsynced' = unsynced \cup {u}
      BY <1>4 DEF ResetQuotaRow, Behind
    <2>2. TypeOK' /\ count' \in [ops : Nat, faults : Nat]
      BY <1>2, <1>3, <2>1 DEF ResetQuotaRow, Typed, TypeOK, mem
    <2> QED
      BY <1>1, <1>3, <2>1, <2>2, Ends, TypedMoves, IdleFields DEF Copied
  <1>5. CASE ~ops[p].cli
    <2>1. Goto(p, "reset.cache") /\ count' = count /\ overlap' = overlap /\ unsynced' = unsynced
      BY <1>5 DEF ResetQuotaRow, ghost
    <2>2. TypeOK' /\ count' \in [ops : Nat, faults : Nat]
      BY <1>3, <2>1 DEF ResetQuotaRow, Typed, TypeOK, mem
    <2>3. Moves(p) /\ ops'[p].pc = "reset.cache" /\ ops'[p].user = u
      BY <1>1, <2>1, ResetGoes
    <2> QED
      BY <1>1, <1>3, <2>1, <2>2, <2>3, TypedMoves DEF Copied
  <1> QED
    BY <1>4, <1>5

LEMMA ResetMaxMoves ==
    ASSUME Typed, NEW p \in Procs, ResetMax(p)
    PROVE  /\ Typed' /\ Moves(p) /\ ops[p] \in OpReset /\ ops'[p] = Idle
           /\ \/ cache'[ops[p].user] = None
              \/ cache'[ops[p].user].max = cacheDflt /\ cache'[ops[p].user].isDefault
           /\ \A v \in Users : v # ops[p].user => cache'[v] = cache[v]
  <1>1. ops[p] \in OpReset
    BY OpOf, PcOps DEF ResetMax, At
  <1> DEFINE u == ops[p].user
  <1>2. u \in Users /\ cache \in [Users -> Entry \cup {None}] /\ cacheDflt \in {ConfigDefault} \cup Limits
    BY <1>1 DEF OpReset, Typed, TypeOK
  <1>3. /\ cache' \in [Users -> Entry \cup {None}]
        /\ cache'[u] = None \/ (cache'[u].max = cacheDflt /\ cache'[u].isDefault)
        /\ \A v \in Users : v # u => cache'[v] = cache[v]
    <2>1. CASE cache[u] = None
      BY <1>2, <2>1 DEF ResetMax
    <2>2. CASE cache[u] # None
      <3> DEFINE e == [cache[u] EXCEPT !.max = cacheDflt, !.isDefault = TRUE]
      <3>1. e \in Entry /\ e.max = cacheDflt /\ e.isDefault
        BY <1>2, <2>2 DEF Entry
      <3>2. cache' = [cache EXCEPT ![u] = e]
        BY <1>2, <2>2 DEF ResetMax
      <3> HIDE DEF e
      <3> QED
        BY <1>2, <3>1, <3>2
    <2> QED
      BY <2>1, <2>2
  <1>4. TypeOK' /\ count' \in [ops : Nat, faults : Nat]
    BY <1>3 DEF ResetMax, Typed, TypeOK, db, ghost
  <1>5. Moves(p) /\ ops'[p] = Idle
    BY Ends DEF ResetMax
  <1> QED
    BY <1>1, <1>3, <1>4, <1>5, TypedMoves, IdleFields DEF Copied

LEMMA DefaultRowMoves ==
    ASSUME Typed, NEW p \in Procs, SetDefaultRow(p)
    PROVE  /\ Typed' /\ Moves(p) /\ ops[p] \in OpDefault /\ overlap' = overlap /\ count' = count
           /\ \/ ops'[p] = Idle /\ unsynced' = Users
              \/ /\ ops'[p].pc = "dflt.cache" /\ ops'[p].max = dflt' /\ unsynced' = unsynced
                 /\ ops'[p] \in OpDefault
  <1>1. ops[p] \in OpDefault
    BY OpOf, PcOps DEF SetDefaultRow, At
  <1>2. dflt' = ops[p].max /\ dflt' \in Limits /\ unsynced \subseteq Users
    BY <1>1 DEF OpDefault, SetDefaultRow, Typed, TypeOK
  <1>4. CASE ops[p].cli
    <2>1. End(p) /\ count' = count /\ overlap' = overlap /\ unsynced' = Users
      BY <1>2, <1>4 DEF SetDefaultRow, Behind
    <2>2. TypeOK' /\ count' \in [ops : Nat, faults : Nat]
      BY <1>2, <2>1 DEF SetDefaultRow, Typed, TypeOK, mem
    <2> QED
      BY <1>1, <2>1, <2>2, Ends, TypedMoves, IdleFields DEF Copied
  <1>5. CASE ~ops[p].cli
    <2>1. Goto(p, "dflt.cache") /\ count' = count /\ overlap' = overlap /\ unsynced' = unsynced
      BY <1>5 DEF SetDefaultRow, ghost
    <2>2. TypeOK' /\ count' \in [ops : Nat, faults : Nat]
      BY <1>2, <2>1 DEF SetDefaultRow, Typed, TypeOK, mem
    <2>3. Moves(p) /\ ops'[p].pc = "dflt.cache" /\ ops'[p].max = ops[p].max /\ ops'[p] \in OpDefault
      BY <1>1, <2>1, DefaultGoes
    <2> QED
      BY <1>1, <1>2, <2>1, <2>2, <2>3, TypedMoves DEF Copied
  <1> QED
    BY <1>4, <1>5

LEMMA DefaultCacheMoves ==
    ASSUME Typed, NEW p \in Procs, SetDefaultCache(p)
    PROVE  /\ Typed' /\ Moves(p) /\ ops[p] \in OpDefault /\ ops'[p] = Idle
           /\ cacheDflt' = ops[p].max
           /\ \A u \in Users :
                \/ cache'[u] = cache[u]
                   /\ (cache[u] # None => ~cache[u].isDefault \/ cache[u].max # cacheDflt)
                \/ cache[u] # None /\ cache[u].isDefault /\ cache'[u].isDefault
                   /\ cache'[u].max = ops[p].max
  <1>1. ops[p] \in OpDefault
    BY OpOf, PcOps DEF SetDefaultCache, At
  <1> DEFINE m == ops[p].max
  <1>2. m \in Limits /\ cache \in [Users -> Entry \cup {None}] /\ cacheDflt' = m
    BY <1>1 DEF OpDefault, SetDefaultCache, Typed, TypeOK
  <1>3. cache' = [u \in Users |->
           IF cache[u] # None /\ cache[u].isDefault /\ cache[u].max = cacheDflt
           THEN [cache[u] EXCEPT !.max = m] ELSE cache[u]]
    BY DEF SetDefaultCache
  <1> HIDE DEF m
  <1>4. ASSUME NEW u \in Users
        PROVE  /\ cache'[u] \in Entry \cup {None}
               /\ \/ cache'[u] = cache[u]
                     /\ (cache[u] # None => ~cache[u].isDefault \/ cache[u].max # cacheDflt)
                  \/ cache[u] # None /\ cache[u].isDefault /\ cache'[u].isDefault /\ cache'[u].max = m
    <2>1. CASE cache[u] # None /\ cache[u].isDefault /\ cache[u].max = cacheDflt
      <3> DEFINE e == cache[u]
      <3>1. cache'[u] = [e EXCEPT !.max = m] /\ e \in Entry
        BY <1>2, <1>3, <2>1
      <3>2. cache'[u] \in Entry /\ cache'[u].max = m /\ cache'[u].isDefault = e.isDefault
        BY <1>2, <3>1 DEF Entry
      <3> QED
        BY <2>1, <3>2
    <2>2. CASE ~(cache[u] # None /\ cache[u].isDefault /\ cache[u].max = cacheDflt)
      BY <1>2, <1>3, <2>2
    <2> QED
      BY <2>1, <2>2
  <1>5. cache' \in [Users -> Entry \cup {None}]
    BY <1>3, <1>4
  <1>6. TypeOK' /\ count' \in [ops : Nat, faults : Nat]
    BY <1>2, <1>5 DEF SetDefaultCache, Typed, TypeOK, db, ghost
  <1>7. Moves(p) /\ ops'[p] = Idle
    BY Ends DEF SetDefaultCache
  <1> QED
    BY <1>1, <1>2, <1>4, <1>6, <1>7, TypedMoves, IdleFields DEF Copied, m

-----------------------------------------------------------------------------
(* A block marks what is in flight for its name as late, and nothing else. *)
Same(o, y) ==
    /\ y.kind = o.kind /\ y.pc = o.pc /\ y.user = o.user
    /\ o.kind = "new" => y.pw = o.pw
    /\ o.kind = "login" => y.copy = o.copy
    /\ o.kind \notin {"new", "login"} => y = o

OthersSame(p) == \A q \in Procs : q # p => Same(ops[q], ops'[q])

LEMMA MovesSame ==
    ASSUME Typed, NEW p \in Procs, Moves(p)
    PROVE  OthersSame(p)
  BY OthersStay DEF OthersSame, Same

LEMMA LateSame ==
    ASSUME NEW o \in Op, o.kind \in {"new", "login"}
    PROVE  LET y == [o EXCEPT !.late = TRUE] IN y \in Op /\ Same(o, y) /\ y.late = TRUE
  <1> DEFINE y == [o EXCEPT !.late = TRUE]
  <1>1. CASE o \in OpNew
    <2>1. y \in OpNew /\ Same(o, y) /\ y.late = TRUE
      BY <1>1 DEF OpNew, Same
    <2> HIDE DEF y
    <2> QED
      BY <2>1 DEF Op, UserOp, y
  <1>2. CASE o \in OpLogin
    <2>1. y \in OpLogin /\ Same(o, y) /\ y.late = TRUE
      BY <1>2 DEF OpLogin, Same
    <2> HIDE DEF y
    <2> QED
      BY <2>1 DEF Op, UserOp, y
  <1> QED
    BY <1>1, <1>2, PcOps

LEMMA Lated ==
    ASSUME NEW f \in [Procs -> Op], NEW u, ops' = Late(f, u)
    PROVE  /\ ops' \in [Procs -> Op]
           /\ \A q \in Procs :
                /\ Same(f[q], ops'[q])
                /\ f[q].kind \in {"new", "login"} /\ f[q].user = u => ops'[q].late
                /\ ops'[q] = f[q] \/ ops'[q].late
                /\ f[q] = Idle => ops'[q] = Idle
  <1>1. ASSUME NEW q \in Procs
        PROVE  /\ ops'[q] \in Op /\ Same(f[q], ops'[q])
               /\ f[q].kind \in {"new", "login"} /\ f[q].user = u => ops'[q].late
               /\ ops'[q] = f[q] \/ ops'[q].late
               /\ f[q] = Idle => ops'[q] = Idle
    <2>1. CASE f[q].kind \in {"new", "login"} /\ f[q].user = u
      <3>1. ops'[q] = [f[q] EXCEPT !.late = TRUE]
        BY <2>1 DEF Late
      <3>2. f[q] # Idle
        BY <2>1, IdleFields
      <3> QED
        BY <2>1, <3>1, <3>2, LateSame
    <2>2. CASE ~(f[q].kind \in {"new", "login"} /\ f[q].user = u)
      <3>1. ops'[q] = f[q]
        BY <2>2 DEF Late
      <3> QED
        BY <2>2, <3>1 DEF Same
    <2> QED
      BY <2>1, <2>2
  <1>2. ops' \in [Procs -> Op]
    <2>1. DOMAIN ops' = Procs /\ ops' = [q \in Procs |-> ops'[q]]
      BY DEF Late
    <2> QED
      BY <1>1, <2>1
  <1> QED
    BY <1>1, <1>2

(* What a block leaves of an operation that goes on unblocked.             *)
StaysUnblocked(q) == Unblocked(ops[q]) => Unblocked(ops[q])'

LEMMA LateUnblocked ==
    ASSUME NEW o \in Op, NEW y \in Op, NEW u, Same(o, y), blocked' = blocked \cup {u},
           o.kind \in {"new", "login"} /\ o.user = u => y.late,
           y = o \/ y.late, Unblocked(o),
           (y.kind = "new" /\ y.pc \in {"new.lookup", "new.set", "new.acct"}) \/ y.pc = "login.create"
    PROVE  y.user \notin blocked' \/ y.late
  <1>1. o.user \notin blocked \/ o.late
    BY DEF Unblocked, Same
  <1>2. o.kind \in {"new", "login"}
    <2>1. CASE y.pc = "login.create"
      <3>1. o \in OpLogin
        BY <2>1, PcOps DEF Same, LoginPcs
      <3> QED
        BY <3>1 DEF OpLogin
    <2> QED
      BY <2>1 DEF Same
  <1> QED
    BY <1>1, <1>2 DEF Same

LEMMA DeleteBlockMoves ==
    ASSUME Typed, NEW p \in Procs, DeleteBlock(p)
    PROVE  /\ Typed' /\ ops[p] \in OpRemoval /\ ops'[p] = Idle /\ OthersSame(p)
           /\ overlap' = overlap /\ unsynced' = unsynced /\ (count' = count \/ count'.faults # 0)
           /\ \A q \in Procs : q # p => StaysUnblocked(q)
  <1>1. ops[p] \in OpRemoval
    BY OpOf, PcOps DEF DeleteBlock, At, RemovalPcs
  <1>2. ops[p].user \in Users
    BY <1>1 DEF OpRemoval
  <1>3. CASE /\ blocked' = blocked \cup {ops[p].user}
             /\ ops' = Late([ops EXCEPT ![p] = Idle], ops[p].user)
             /\ UNCHANGED ghost
    <2> DEFINE f == [ops EXCEPT ![p] = Idle]
               u == ops[p].user
    <2>1. f \in [Procs -> Op] /\ f[p] = Idle /\ \A q \in Procs : q # p => f[q] = ops[q]
      BY DEF Typed, Op
    <2> HIDE DEF f, u
    <2>2. ops' = Late(f, u) /\ blocked' = blocked \cup {u}
      BY <1>3 DEF f, u
    <2>3. /\ ops' \in [Procs -> Op]
          /\ \A q \in Procs :
                /\ Same(f[q], ops'[q])
                /\ f[q].kind \in {"new", "login"} /\ f[q].user = u => ops'[q].late
                /\ ops'[q] = f[q] \/ ops'[q].late
                /\ f[q] = Idle => ops'[q] = Idle
      BY <2>1, <2>2, Lated
    <2>4. ops'[p] = Idle /\ OthersSame(p)
      BY <2>1, <2>3 DEF OthersSame
    <2>5. TypeOK' /\ count' \in [ops : Nat, faults : Nat]
      BY <1>2, <1>3 DEF DeleteBlock, Typed, TypeOK, mem, ghost
    <2>6. ASSUME NEW q \in Procs, At(q, "login.save")' \/ At(q, "set.save")'
          PROVE  ops'[q].copy # None
      <3>1. q # p
        BY <2>4, <2>6, IdleFields DEF At
      <3>2. Same(ops[q], ops'[q]) /\ ops[q].pc \in {"login.save", "set.save"} /\ ops[q].copy # None
        BY <2>4, <2>6, <3>1 DEF Typed, At, OthersSame, Same
      <3>3. ops[q] \in OpLogin \cup OpSet
        BY <3>2, OpOf, PcOps DEF LoginPcs
      <3> QED
        BY <3>2, <3>3 DEF Same, OpLogin, OpSet
    <2>7. Typed'
      BY <2>3, <2>5, <2>6 DEF Typed
    <2>8. ASSUME NEW q \in Procs, q # p
          PROVE  StaysUnblocked(q)
      <3>1. /\ ops[q] \in Op /\ ops'[q] \in Op /\ Same(ops[q], ops'[q])
            /\ ops[q].kind \in {"new", "login"} /\ ops[q].user = u => ops'[q].late
            /\ ops'[q] = ops[q] \/ ops'[q].late
        BY <2>1, <2>3, <2>8 DEF Typed
      <3> QED
        BY <2>2, <3>1, LateUnblocked DEF StaysUnblocked, Unblocked
    <2> QED
      BY <1>1, <1>3, <2>4, <2>7, <2>8 DEF ghost
  <1>4. CASE Fault /\ End(p) /\ blocked' = blocked
    <2>1. /\ overlap' = overlap /\ unsynced' = unsynced /\ count' \in [ops : Nat, faults : Nat]
          /\ count'.faults # 0
      BY <1>4, Faulty
    <2>2. Moves(p) /\ ops'[p] = Idle
      BY <1>4, Ends
    <2>3. TypeOK'
      BY <1>4, <2>1 DEF DeleteBlock, Typed, TypeOK, mem
    <2>4. \A q \in Procs : q # p => StaysUnblocked(q)
      BY <1>4, <2>2, OthersStay DEF StaysUnblocked, Unblocked
    <2> QED
      BY <1>1, <2>1, <2>2, <2>3, <2>4, TypedMoves, MovesSame, IdleFields DEF Copied
  <1> QED
    BY <1>3, <1>4 DEF DeleteBlock

(* Every step moves one operation that is in flight, and overlaps nothing  *)
(* that did not overlap before.                                            *)
Frame(p) ==
    /\ Typed' /\ OthersSame(p) /\ ops[p].kind # "idle" /\ ops'[p].kind \in {"idle", ops[p].kind}
    /\ overlap' = overlap /\ (count' = count \/ count'.faults # 0)

LEMMA InFlight ==
    ASSUME Typed, NEW p \in Procs, ops[p].pc # "idle"
    PROVE  ops[p].kind # "idle"
  BY OpOf, PcOps, IdleFields

LEMMA FrameMoves ==
    ASSUME Typed, NEW p \in Procs, Moves(p), Typed', ops[p].pc # "idle",
           UNCHANGED ghost \/ (overlap' = overlap /\ (count' = count \/ count'.faults # 0))
    PROVE  Frame(p)
  BY MovesSame, InFlight DEF Frame, Moves, ghost

LEMMA StepFrame ==
    ASSUME Typed, NEW p \in Procs, Step(p)
    PROVE  Frame(p)
  <1>1. CASE NewCheck(p)
    BY <1>1, NewCheckMoves, FrameMoves DEF NewCheck, At
  <1>2. CASE NewLookup(p)
    BY <1>2, NewLookupMoves, FrameMoves DEF NewLookup, At
  <1>3. CASE NewSet(p)
    BY <1>3, NewSetMoves, FrameMoves DEF NewSet, At
  <1>4. CASE NewAcct(p)
    BY <1>4, NewAcctMoves, FrameMoves, Faulty DEF NewAcct, At
  <1>5. CASE NewRowStep(p)
    BY <1>5, NewRowMoves, FrameMoves, Faulty DEF NewRowStep, At
  <1>6. CASE NewUndo(p)
    BY <1>6, NewUndoMoves, FrameMoves, Faulty DEF NewUndo, At
  <1>7. CASE Reply(p)
    BY <1>7, ReplyMoves, FrameMoves DEF Reply, At
  <1>8. CASE AuthPlain(p)
    BY <1>8, AuthPlainMoves, FrameMoves DEF AuthPlain, At
  <1>9. CASE CreateUserIfNotExists(p)
    BY <1>9, LoginSetMoves, FrameMoves DEF CreateUserIfNotExists, At
  <1>10. CASE OpenJit(p)
    BY <1>10, OpenJitMoves, FrameMoves DEF OpenJit, At
  <1>11. CASE OpenBlocked(p)
    BY <1>11, OpenBlockedMoves, FrameMoves DEF OpenBlocked, At
  <1>12. CASE OpenAccount(p)
    BY <1>12, OpenAccountMoves, FrameMoves DEF OpenAccount, At
  <1>13. CASE OpenRow(p)
    BY <1>13, OpenRowMoves, FrameMoves DEF OpenRow, At
  <1>14. CASE FirstLoginRead(p)
    BY <1>14, FirstReadMoves, FrameMoves DEF FirstLoginRead, At
  <1>15. CASE FirstLoginSave(p)
    BY <1>15, FirstSaveMoves, FrameMoves DEF FirstLoginSave, At
  <1>16. CASE AddRcptJit(p)
    BY <1>16, AddRcptJitMoves, FrameMoves DEF AddRcptJit, At
  <1>17. CASE AddRcptCreate(p)
    BY <1>17, AddRcptCreateMoves, FrameMoves DEF AddRcptCreate, At
  <1>18. CASE AddRcptRow(p)
    BY <1>18, AddRcptRowMoves, FrameMoves DEF AddRcptRow, At
  <1>19. CASE AddRcpt(p)
    BY <1>19, AddRcptMoves, FrameMoves DEF AddRcpt, At
  <1>20. CASE GetQuota(p)
    BY <1>20, GetQuotaMoves, FrameMoves DEF GetQuota, At
  <1>21. CASE GetQuotaUsed(p)
    BY <1>21, GetQuotaUsedMoves, FrameMoves DEF GetQuotaUsed, At
  <1>22. CASE GetQuotaMax(p)
    BY <1>22, GetQuotaMaxMoves, FrameMoves DEF GetQuotaMax, At
  <1>23. CASE GetQuotaSetMax(p)
    BY <1>23, GetQuotaSetMaxMoves, FrameMoves DEF GetQuotaSetMax, At
  <1>24. CASE GetQuotaFill(p)
    BY <1>24, GetQuotaFillMoves, FrameMoves DEF GetQuotaFill, At
  <1>25. CASE MailCommit(p)
    BY <1>25, MailCommitMoves, FrameMoves DEF MailCommit, At
  <1>26. CASE AddUsed(p)
    BY <1>26, AddUsedMoves, FrameMoves DEF AddUsed, At
  <1>27. CASE DeleteCreds(p)
    BY <1>27, DeleteCredsMoves, FrameMoves DEF DeleteCreds, At
  <1>28. CASE DeleteRow(p)
    BY <1>28, DeleteRowMoves, FrameMoves DEF DeleteRow, At
  <1>29. CASE DeleteUser(p)
    BY <1>29, DeleteUserMoves, FrameMoves DEF DeleteUser, At
  <1>30. CASE DeleteRowAgain(p)
    BY <1>30, DeleteRowAgainMoves, FrameMoves DEF DeleteRowAgain, At
  <1>31. CASE Invalidate(p)
    BY <1>31, InvalidateMoves, FrameMoves DEF Invalidate, At
  <1>32. CASE DeleteBlock(p)
    BY <1>32, DeleteBlockMoves, InFlight, IdleFields DEF DeleteBlock, At, Frame
  <1>33. CASE SetQuotaRead(p)
    BY <1>33, SetReadMoves, FrameMoves DEF SetQuotaRead, At
  <1>34. CASE SetQuotaSave(p)
    BY <1>34, SetSaveMoves, FrameMoves DEF SetQuotaSave, At
  <1>35. CASE SetMax(p)
    BY <1>35, SetMaxMoves, FrameMoves DEF SetMax, At
  <1>36. CASE ResetQuotaRow(p)
    BY <1>36, ResetRowMoves, FrameMoves DEF ResetQuotaRow, At
  <1>37. CASE ResetMax(p)
    BY <1>37, ResetMaxMoves, FrameMoves DEF ResetMax, At
  <1>38. CASE SetDefaultRow(p)
    BY <1>38, DefaultRowMoves, FrameMoves DEF SetDefaultRow, At
  <1>39. CASE SetDefaultCache(p)
    BY <1>39, DefaultCacheMoves, FrameMoves DEF SetDefaultCache, At
  <1> QED
    BY <1>1, <1>2, <1>3, <1>4, <1>5, <1>6, <1>7, <1>8, <1>9, <1>10, <1>11, <1>12, <1>13,
       <1>14, <1>15, <1>16, <1>17, <1>18, <1>19, <1>20, <1>21, <1>22, <1>23, <1>24, <1>25,
       <1>26, <1>27, <1>28, <1>29, <1>30, <1>31, <1>32, <1>33, <1>34, <1>35, <1>36, <1>37,
       <1>38, <1>39 DEF Step

-----------------------------------------------------------------------------
(* An operation begins at its first statement, beside what is in flight.   *)
FirstPcs == {"new.check", "new.acct", "login.lookup", "mail.jit", "quota", "del.creds", "del.row",
             "set.read", "reset.row", "dflt.row"}
First(o) == o \in Op /\ o # Idle /\ o.pc \in FirstPcs /\ (o.pc = "new.acct" => o.kind = "create")

LEMMA KindOf ==
    ASSUME NEW o \in Op
    PROVE  o = Idle \/ o.kind \in Kinds \ {"rehash", "statement", "cut"}
  BY DEF Op, UserOp, OpNew, OpCreate, OpLogin, OpAuth, OpMail, OpQuota, OpRemoval, OpSet, OpReset,
         OpDefault, Kinds, Removals

LEMMA FirstNew ==
    ASSUME NEW u \in Users, NEW w \in Passwords
    PROVE  First(NewOp(u, w))
  <1>1. NewOp(u, w) \in OpNew /\ NewOp(u, w).pc = "new.check"
    BY DEF NewOp, OpNew, NewPcs
  <1> QED
    BY <1>1, IdleFields DEF First, FirstPcs, Op, UserOp

LEMMA FirstMail ==
    ASSUME NEW u \in Users, NEW us \in SUBSET Users
    PROVE  First(MailOp(u, us))
  BY NextMail, IdleFields DEF First, FirstPcs, Op, UserOp

LEMMA FirstQuota ==
    ASSUME NEW u \in Users
    PROVE  First(QuotaOp(u))
  <1>1. QuotaOp(u) \in OpQuota /\ QuotaOp(u).pc = "quota"
    BY DEF QuotaOp, OpQuota, QuotaPcs, Maxima
  <1> QED
    BY <1>1, IdleFields DEF First, FirstPcs, Op, UserOp

LEMMA FirstSet ==
    ASSUME NEW u \in Users, NEW m \in Limits, NEW b \in BOOLEAN
    PROVE  First(SetOp(u, m, b))
  <1>1. SetOp(u, m, b) \in OpSet /\ SetOp(u, m, b).pc = "set.read"
    BY DEF SetOp, OpSet
  <1> QED
    BY <1>1, IdleFields DEF First, FirstPcs, Op, UserOp

LEMMA FirstReset ==
    ASSUME NEW u \in Users, NEW b \in BOOLEAN
    PROVE  First(ResetOp(u, b))
  <1>1. ResetOp(u, b) \in OpReset /\ ResetOp(u, b).pc = "reset.row"
    BY DEF ResetOp, OpReset
  <1> QED
    BY <1>1, IdleFields DEF First, FirstPcs, Op, UserOp

LEMMA FirstRemoval ==
    ASSUME NEW k \in Removals, NEW x \in {"del.creds", "del.row"}, NEW u \in Users,
           NEW us \in SUBSET Users
    PROVE  First([kind |-> k, pc |-> x, user |-> u, todo |-> us])
  <1> DEFINE o == [kind |-> k, pc |-> x, user |-> u, todo |-> us]
  <1>1. o \in OpRemoval /\ o.pc = x
    BY DEF OpRemoval, RemovalPcs
  <1> HIDE DEF o
  <1>2. First(o)
    BY <1>1, IdleFields DEF First, FirstPcs, Op, UserOp
  <1> QED
    BY <1>2 DEF o

LEMMA FirstDefault ==
    ASSUME NEW m \in Limits, NEW b \in BOOLEAN
    PROVE  First([kind |-> "default", pc |-> "dflt.row", max |-> m, cli |-> b])
  <1> DEFINE o == [kind |-> "default", pc |-> "dflt.row", max |-> m, cli |-> b]
  <1>1. o \in OpDefault /\ o.pc = "dflt.row"
    BY DEF OpDefault
  <1> HIDE DEF o
  <1>2. First(o)
    BY <1>1, IdleFields DEF First, FirstPcs, Op, UserOp
  <1> QED
    BY <1>2 DEF o

LEMMA FirstCreate ==
    ASSUME NEW u \in Users
    PROVE  First([kind |-> "create", pc |-> "new.acct", user |-> u])
  <1> DEFINE o == [kind |-> "create", pc |-> "new.acct", user |-> u]
  <1>1. o \in OpCreate /\ o.pc = "new.acct" /\ o.kind = "create"
    BY DEF OpCreate
  <1> HIDE DEF o
  <1>2. First(o)
    BY <1>1, IdleFields DEF First, FirstPcs, Op, UserOp
  <1> QED
    BY <1>2 DEF o

LEMMA FirstLogin ==
    ASSUME NEW u \in Users, NEW w \in Passwords
    PROVE  First([kind |-> "login", pc |-> "login.lookup", pw |-> w, user |-> u, late |-> FALSE,
                  copy |-> None])
  <1> DEFINE o == [kind |-> "login", pc |-> "login.lookup", pw |-> w, user |-> u, late |-> FALSE,
                   copy |-> None]
  <1>1. o \in OpLogin /\ o.pc = "login.lookup"
    BY DEF OpLogin, LoginPcs
  <1> HIDE DEF o
  <1>2. First(o)
    BY <1>1, IdleFields DEF First, FirstPcs, Op, UserOp
  <1> QED
    BY <1>2 DEF o

LEMMA FirstAuth ==
    ASSUME NEW u \in Users, NEW w \in Passwords
    PROVE  First([kind |-> "auth", pc |-> "login.lookup", pw |-> w, user |-> u])
  <1> DEFINE o == [kind |-> "auth", pc |-> "login.lookup", pw |-> w, user |-> u]
  <1>1. o \in OpAuth /\ o.pc = "login.lookup"
    BY DEF OpAuth
  <1> HIDE DEF o
  <1>2. First(o)
    BY <1>1, IdleFields DEF First, FirstPcs, Op, UserOp
  <1> QED
    BY <1>2 DEF o

LEMMA StartBegins ==
    ASSUME Typed, NEW p \in Procs, Start(p)
    PROVE  \E o : First(o) /\ Begin(p, o)
  <1>0. accts \subseteq Users
    BY DEF Typed, TypeOK
  <1>1. CASE HandleNewAccount(p) \/ AdminCreate(p)
    BY <1>1, FirstNew DEF HandleNewAccount, AdminCreate
  <1>2. CASE ImapAcctCreate(p)
    BY <1>2, FirstCreate DEF ImapAcctCreate
  <1>3. CASE Login(p)
    BY <1>3, FirstLogin DEF Login
  <1>4. CASE CreateSASL(p)
    BY <1>4, FirstAuth DEF CreateSASL
  <1>5. CASE Deliver(p)
    BY <1>5, FirstMail DEF Deliver
  <1>6. CASE NoticeHandler(p)
    <2>1. \E u \in Users, us \in SUBSET Users : Begin(p, MailOp(u, us))
      BY <1>6 DEF NoticeHandler
    <2> QED
      BY <2>1, FirstMail
  <1>7. CASE AdminGetQuota(p) \/ ImapGetQuota(p)
    BY <1>0, <1>7, FirstQuota DEF AdminGetQuota, ImapGetQuota
  <1>8. CASE AdminDelete(p)
    <2>1. PICK u \in Users : Begin(p, [kind |-> "delete", pc |-> "del.creds", user |-> u, todo |-> {}])
      BY <1>8 DEF AdminDelete
    <2>2. First([kind |-> "delete", pc |-> "del.creds", user |-> u, todo |-> {}])
      BY FirstRemoval DEF Removals
    <2> QED
      BY <2>1, <2>2
  <1>9. CASE ImapAcctRemove(p)
    <2>1. PICK u \in Users : Begin(p, [kind |-> "remove", pc |-> "del.row", user |-> u, todo |-> {}])
      BY <1>9 DEF ImapAcctRemove
    <2>2. First([kind |-> "remove", pc |-> "del.row", user |-> u, todo |-> {}])
      BY FirstRemoval DEF Removals
    <2> QED
      BY <2>1, <2>2
  <1>10. CASE CleanupUnusedAccountsLoop(p) \/ ImapAcctPruneUnused(p)
    <2>1. PICK us \in SUBSET Users, u \in Users :
            Begin(p, [kind |-> "prune", pc |-> "del.row", user |-> u, todo |-> us \ {u}])
      BY <1>10 DEF CleanupUnusedAccountsLoop, ImapAcctPruneUnused, PruneUnusedAccounts
    <2>2. us \ {u} \in SUBSET Users
      OBVIOUS
    <2>3. First([kind |-> "prune", pc |-> "del.row", user |-> u, todo |-> us \ {u}])
      BY <2>2, FirstRemoval DEF Removals
    <2> QED
      BY <2>1, <2>3
  <1>11. CASE AdminSetQuota(p) \/ ImapAcctQuotaSet(p)
    BY <1>11, FirstSet DEF AdminSetQuota, ImapAcctQuotaSet
  <1>12. CASE AdminResetQuota(p) \/ ImapAcctQuotaReset(p)
    BY <1>12, FirstReset DEF AdminResetQuota, ImapAcctQuotaReset
  <1>13. CASE AdminSetDefault(p) \/ ImapAcctQuotaSetDefault(p)
    BY <1>13, FirstDefault DEF AdminSetDefault, ImapAcctQuotaSetDefault
  <1> QED
    BY <1>1, <1>2, <1>3, <1>4, <1>5, <1>6, <1>7, <1>8, <1>9, <1>10, <1>11, <1>12, <1>13 DEF Start

LEMMA CountedBeside ==
    ASSUME Typed, NEW k \in Kinds, Counted(k)
    PROVE  /\ count' \in [ops : Nat, faults : Nat] /\ count'.faults = count.faults
           /\ overlap \subseteq overlap' /\ overlap' \subseteq SUBSET Kinds
           /\ \A q \in Busy : {k, ops[q].kind} \in overlap'
           /\ rehash # {} => {k, "rehash"} \in overlap'
  <1>1. count \in [ops : Nat, faults : Nat] /\ count' = [count EXCEPT !.ops = @ + 1]
    BY DEF Typed, Counted
  <1>2. count.faults \in Nat /\ count.ops \in Nat
    BY <1>1
  <1> DEFINE n == count.ops + 1
  <1>3. n \in Nat /\ count' = [count EXCEPT !.ops = n]
    BY <1>1, <1>2
  <1> HIDE DEF n
  <1>4. count' \in [ops : Nat, faults : Nat] /\ count'.faults = count.faults
    BY <1>1, <1>3
  <1>5. overlap' = overlap \cup {{k, ops[q].kind} : q \in Busy} \cup {{k, "rehash"} : r \in rehash}
    BY DEF Counted
  <1>6. \A q \in Busy : ops[q].kind \in Kinds
    BY OpOf, KindOf, IdleFields DEF Busy
  <1>7. overlap \subseteq SUBSET Kinds /\ "rehash" \in Kinds
    BY DEF Typed, TypeOK, Kinds
  <1>8. overlap' \subseteq SUBSET Kinds
    BY <1>5, <1>6, <1>7
  <1> QED
    BY <1>4, <1>5, <1>8

LEMMA BeginMoves ==
    ASSUME Typed, NEW p \in Procs, NEW o, First(o), Begin(p, o)
    PROVE  /\ Typed' /\ ops[p] = Idle /\ ops'[p] = o /\ \A q \in Procs : q # p => ops'[q] = ops[q]
           /\ UNCHANGED <<db, mem, rehash, unsynced>>
           /\ count'.faults = count.faults /\ overlap \subseteq overlap'
           /\ \A q \in Busy : {o.kind, ops[q].kind} \in overlap'
           /\ rehash # {} => {o.kind, "rehash"} \in overlap'
  <1>1. o.kind \in Kinds
    BY KindOf DEF First
  <1>2. /\ count' \in [ops : Nat, faults : Nat] /\ count'.faults = count.faults
        /\ overlap \subseteq overlap' /\ overlap' \subseteq SUBSET Kinds
        /\ \A q \in Busy : {o.kind, ops[q].kind} \in overlap'
        /\ rehash # {} => {o.kind, "rehash"} \in overlap'
    BY <1>1, CountedBeside DEF Begin
  <1>3. /\ ops' \in [Procs -> Op] /\ ops'[p] = o /\ \A q \in Procs : q # p => ops'[q] = ops[q]
    BY DEF Begin, Typed, First
  <1>4. TypeOK'
    BY <1>2 DEF Begin, Typed, TypeOK, db, mem
  <1>5. \A q \in Procs : At(q, "login.save")' \/ At(q, "set.save")' => ops'[q].copy # None
    BY <1>3 DEF Typed, At, First, FirstPcs
  <1>6. Typed'
    BY <1>2, <1>3, <1>4, <1>5 DEF Typed
  <1> QED
    BY <1>2, <1>3, <1>6 DEF Begin

-----------------------------------------------------------------------------
(* Statements of their own, and a password hashed again, leave accounts,   *)
(* records and the cache as they are.                                      *)
Aside ==
    /\ Typed' /\ \A q \in Procs : Same(ops[q], ops'[q]) /\ StaysUnblocked(q)
    /\ UNCHANGED <<accts, row, dflt, mem>> /\ unsynced \subseteq unsynced' /\ rehash' \subseteq rehash
    /\ overlap \subseteq overlap' /\ count'.faults = count.faults
    /\ \/ rehash # {} \/ UNCHANGED vars
       \/ \A q \in Busy : {"statement", ops[q].kind} \in overlap'

LEMMA Stated ==
    ASSUME Typed, Statement
    PROVE  /\ count' \in [ops : Nat, faults : Nat] /\ count'.faults = count.faults
           /\ overlap \subseteq overlap' /\ overlap' \subseteq SUBSET Kinds
           /\ \A q \in Busy : {"statement", ops[q].kind} \in overlap'
  BY CountedBeside DEF Statement, Kinds

LEMMA OpsSame ==
    ASSUME Typed, ops' = ops, TypeOK', count' \in [ops : Nat, faults : Nat],
           blocked' \subseteq blocked
    PROVE  Typed' /\ \A q \in Procs : Same(ops[q], ops'[q]) /\ StaysUnblocked(q)
  BY DEF Typed, At, Same, StaysUnblocked, Unblocked

LEMMA RehashAside ==
    ASSUME Typed, Rehash
    PROVE  Aside
  <1>1. PICK r \in rehash : rehash' = rehash \ {r} /\ Creds(r[1], [pw |-> r[2], legacy |-> FALSE])
    BY DEF Rehash
  <1>2. r[1] \in Users /\ r[2] \in Passwords
    BY DEF Typed, TypeOK
  <1>3. creds' \in [Users -> [pw : Passwords, legacy : BOOLEAN] \cup {None}]
    BY <1>1, <1>2, CredsTyped DEF Typed
  <1>4. TypeOK' /\ count' \in [ops : Nat, faults : Nat] /\ blocked' \subseteq blocked /\ ops' = ops
    BY <1>1, <1>3 DEF Rehash, Typed, TypeOK, mem, ghost
  <1>5. rehash # {} /\ rehash' \subseteq rehash
    BY <1>1
  <1>6. /\ UNCHANGED <<accts, row, dflt, mem>> /\ unsynced \subseteq unsynced'
        /\ overlap \subseteq overlap' /\ count'.faults = count.faults
    BY DEF Rehash, mem, ghost
  <1> QED
    BY <1>4, <1>5, <1>6, OpsSame DEF Aside

LEMMA BlockAside ==
    ASSUME Typed, BlockUser
    PROVE  Aside
  <1>1. PICK u \in Users : blocked' = blocked \cup {u} /\ ops' = Late(ops, u)
    BY DEF BlockUser
  <1>2. /\ count' \in [ops : Nat, faults : Nat] /\ count'.faults = count.faults
        /\ overlap \subseteq overlap' /\ overlap' \subseteq SUBSET Kinds
        /\ \A q \in Busy : {"statement", ops[q].kind} \in overlap'
    BY Stated DEF BlockUser
  <1>3. ops \in [Procs -> Op]
    BY DEF Typed
  <1>4. /\ ops' \in [Procs -> Op]
        /\ \A q \in Procs :
              /\ Same(ops[q], ops'[q])
              /\ ops[q].kind \in {"new", "login"} /\ ops[q].user = u => ops'[q].late
              /\ ops'[q] = ops[q] \/ ops'[q].late
    BY <1>1, <1>3, Lated
  <1>5. TypeOK'
    BY <1>1, <1>2 DEF BlockUser, Typed, TypeOK, mem
  <1>6. ASSUME NEW q \in Procs, At(q, "login.save")' \/ At(q, "set.save")'
        PROVE  ops'[q].copy # None
    <2>1. Same(ops[q], ops'[q]) /\ ops[q].pc \in {"login.save", "set.save"} /\ ops[q].copy # None
      BY <1>4, <1>6 DEF Typed, At, Same
    <2>2. ops[q] \in OpLogin \cup OpSet
      BY <2>1, OpOf, PcOps DEF LoginPcs
    <2> QED
      BY <2>1, <2>2 DEF Same, OpLogin, OpSet
  <1>7. Typed'
    BY <1>2, <1>4, <1>5, <1>6 DEF Typed
  <1>8. \A q \in Procs : StaysUnblocked(q)
    <2> SUFFICES ASSUME NEW q \in Procs PROVE StaysUnblocked(q)
      OBVIOUS
    <2>1. /\ ops[q] \in Op /\ ops'[q] \in Op /\ Same(ops[q], ops'[q])
          /\ ops[q].kind \in {"new", "login"} /\ ops[q].user = u => ops'[q].late
          /\ ops'[q] = ops[q] \/ ops'[q].late
      BY <1>3, <1>4
    <2> QED
      BY <1>1, <2>1, LateUnblocked DEF StaysUnblocked, Unblocked
  <1>9. UNCHANGED <<accts, row, dflt, mem>> /\ unsynced' = unsynced /\ rehash' = rehash
    BY DEF BlockUser, mem
  <1> QED
    BY <1>2, <1>4, <1>7, <1>8, <1>9 DEF Aside

LEMMA StatementAside ==
    ASSUME Typed, Statement, ops' = ops, TypeOK', blocked' \subseteq blocked,
           UNCHANGED <<accts, row, dflt, mem, rehash>>, unsynced \subseteq unsynced'
    PROVE  Aside
  <1>1. /\ count' \in [ops : Nat, faults : Nat] /\ count'.faults = count.faults
        /\ overlap \subseteq overlap'
        /\ \A q \in Busy : {"statement", ops[q].kind} \in overlap'
    BY Stated
  <1> QED
    BY <1>1, OpsSame DEF Aside

LEMMA UnblockAside ==
    ASSUME Typed, UnblockUser
    PROVE  Aside
  <1>1. Statement /\ blocked' \subseteq blocked /\ ops' = ops
    BY DEF UnblockUser
  <1>2. TypeOK'
    BY <1>1, Stated DEF UnblockUser, Typed, TypeOK, mem
  <1> QED
    BY <1>1, <1>2, StatementAside DEF UnblockUser

LEMMA CredsAside ==
    ASSUME Typed, UsersCreate \/ UsersPassword \/ UsersRemove
    PROVE  Aside
  <1>1. /\ Statement /\ ops' = ops
        /\ UNCHANGED <<accts, row, dflt, blocked, stored, settings, mem, rehash, unsynced>>
    BY DEF UsersCreate, UsersPassword, UsersRemove
  <1>2. creds' \in [Users -> [pw : Passwords, legacy : BOOLEAN] \cup {None}]
    <2>1. CASE UsersCreate
      <3>1. PICK u \in Users, w \in Passwords, b \in BOOLEAN : Creds(u, [pw |-> w, legacy |-> b])
        BY <2>1 DEF UsersCreate
      <3> QED
        BY <3>1, CredsTyped DEF Typed
    <2>2. CASE UsersPassword
      <3>1. PICK u \in Users, w \in Passwords : Creds(u, [pw |-> w, legacy |-> FALSE])
        BY <2>2 DEF UsersPassword
      <3> QED
        BY <3>1, CredsTyped DEF Typed
    <2>3. CASE UsersRemove
      BY <2>3 DEF UsersRemove, Creds, Typed, TypeOK
    <2> QED
      BY <2>1, <2>2, <2>3
  <1>3. TypeOK'
    BY <1>1, <1>2, Stated DEF Typed, TypeOK, mem
  <1> QED
    BY <1>1, <1>3, StatementAside

LEMMA SettingAside ==
    ASSUME Typed, RegistrationHandler \/ JitRegistrationHandler
    PROVE  Aside
  <1>1. PICK k \in {"registration", "jit"}, v \in {"true", "false"} : SetSetting(k, v)
    BY DEF RegistrationHandler, JitRegistrationHandler, SetRegistrationOpen,
           SetJitRegistrationEnabled
  <1>2. /\ Statement /\ ops' = ops /\ settings' \in [{"registration", "jit"} -> Tri]
        /\ UNCHANGED <<creds, accts, row, dflt, blocked, stored, mem, rehash, unsynced>>
    BY <1>1 DEF SetSetting, Typed, TypeOK, Tri
  <1>3. TypeOK'
    BY <1>2, Stated DEF Typed, TypeOK, mem
  <1> QED
    BY <1>2, <1>3, StatementAside

LEMMA RemovedAside ==
    ASSUME Typed, NEW left \in [Users -> Nat], MessagesRemoved(left)
    PROVE  Aside
  <1>1. /\ Statement /\ ops' = ops /\ stored' = left /\ unsynced \subseteq unsynced'
        /\ unsynced' \subseteq Users
        /\ UNCHANGED <<creds, accts, row, dflt, blocked, settings, mem, rehash>>
    BY DEF MessagesRemoved, Typed, TypeOK
  <1>2. TypeOK'
    BY <1>1, Stated DEF Typed, TypeOK, mem
  <1> QED
    BY <1>1, <1>2, StatementAside

LEMMA PurgeAside ==
    ASSUME Typed, ImapAcctPurge \/ ImapAcctPurgeAll \/ ImapAcctPurgeRead \/ ImapAcctPruneUnread
                  \/ CleanupLoop
    PROVE  Aside
  <1>0. stored \in [Users -> Nat] /\ accts \subseteq Users
    BY DEF Typed, TypeOK
  <1>1. CASE ImapAcctPurge
    <2>1. PICK u \in accts : MessagesRemoved([stored EXCEPT ![u] = 0])
      BY <1>1 DEF ImapAcctPurge
    <2>2. [stored EXCEPT ![u] = 0] \in [Users -> Nat]
      BY <1>0
    <2> QED
      BY <2>1, <2>2, RemovedAside
  <1>2. CASE ImapAcctPurgeAll
    <2>1. [u \in Users |-> 0] \in [Users -> Nat]
      OBVIOUS
    <2> QED
      BY <1>2, <2>1, RemovedAside DEF ImapAcctPurgeAll
  <1>3. CASE SomeRemoved
    <2>1. PICK left \in [Users -> {n * (HeaderLen + BodyLen) : n \in 0 .. MaxStored}] :
            MessagesRemoved(left)
      BY <1>3 DEF SomeRemoved
    <2>2. {n * (HeaderLen + BodyLen) : n \in 0 .. MaxStored} \subseteq Nat
      <3> SUFFICES ASSUME NEW n \in Nat PROVE n * (HeaderLen + BodyLen) \in Nat
        OBVIOUS
      <3>1. HeaderLen + BodyLen \in Nat
        BY SizesAreNat
      <3> QED
        BY <3>1
    <2>3. left \in [Users -> Nat]
      BY <2>1, <2>2
    <2> QED
      BY <2>1, <2>3, RemovedAside
  <1> QED
    BY <1>1, <1>2, <1>3 DEF ImapAcctPurgeRead, ImapAcctPruneUnread, CleanupLoop

LEMMA StutterAside ==
    ASSUME Typed, UNCHANGED vars
    PROVE  Aside
  <1>1. TypeOK' /\ count' \in [ops : Nat, faults : Nat] /\ ops' = ops /\ blocked' = blocked
    BY DEF Typed, TypeOK, vars, db, mem, ghost
  <1>2. Typed' /\ \A q \in Procs : Same(ops[q], ops'[q]) /\ StaysUnblocked(q)
    BY <1>1, OpsSame
  <1> QED
    BY <1>1, <1>2 DEF Aside, vars, db, mem, ghost

(* Every step is one of four.                                              *)
LEMMA NextCases ==
    ASSUME Typed, [Next]_vars
    PROVE  \/ \E p \in Procs : \E o : First(o) /\ Begin(p, o)
           \/ \E p \in Procs : Step(p)
           \/ Aside
           \/ Restart
  <1>1. CASE \E p \in Procs : Start(p)
    BY <1>1, StartBegins
  <1>2. CASE BlocklistHandler \/ BlocklistCommand
    BY <1>2, BlockAside, UnblockAside DEF BlocklistHandler, BlocklistCommand
  <1>3. CASE Rehash
    BY <1>3, RehashAside
  <1>4. CASE RegistrationHandler \/ JitRegistrationHandler
    BY <1>4, SettingAside
  <1>5. CASE UsersCreate \/ UsersPassword \/ UsersRemove
    BY <1>5, CredsAside
  <1>6. CASE ImapAcctPurge \/ ImapAcctPurgeAll \/ ImapAcctPurgeRead \/ ImapAcctPruneUnread
             \/ CleanupLoop
    BY <1>6, PurgeAside
  <1>7. CASE UNCHANGED vars
    BY <1>7, StutterAside
  <1> QED
    BY <1>1, <1>2, <1>3, <1>4, <1>5, <1>6, <1>7 DEF Next

(* The cache as a server loads it.                                         *)
LoadedRight(u) ==
    \/ Loaded[u] = None
    \/ /\ Loaded[u] \in Entry
       /\ \/ Loaded[u].isDefault /\ ~Own(u) /\ Loaded[u].max = DefaultQuota
          \/ ~Loaded[u].isDefault /\ row[u] # None /\ Loaded[u].max = row[u].max

LEMMA LoadedEntries ==
    ASSUME row \in [Users -> Row \cup {None}], stored \in [Users -> Nat],
           dflt \in Limits \cup {None}
    PROVE  Loaded \in [Users -> Entry \cup {None}] /\ \A u \in Users : LoadedRight(u)
  <1>0. DefaultQuota \in {0, ConfigDefault} \cup Limits
    BY DEF DefaultQuota
  <1>1. ASSUME NEW u \in Users
        PROVE  Loaded[u] \in Entry \cup {None} /\ LoadedRight(u)
    <2>1. CASE u \notin accts /\ row[u] = None
      <3>1. Loaded[u] = None
        BY <2>1 DEF Loaded
      <3> QED
        BY <3>1 DEF LoadedRight
    <2>2. CASE ~(u \notin accts /\ row[u] = None)
      <3> DEFINE m == IF Own(u) THEN row[u].max ELSE DefaultQuota
                 e == [used |-> stored[u], max |-> m, isDefault |-> ~Own(u)]
      <3>1. Loaded[u] = e
        BY <2>2 DEF Loaded, Own
      <3>2. row[u] # None => row[u].max \in {0} \cup Limits
        BY DEF Row
      <3>3. m \in {0, ConfigDefault} \cup Limits /\ stored[u] \in Int
        BY <1>0, <3>2 DEF Own
      <3>4. Own(u) \in BOOLEAN
        BY DEF Own
      <3>5. e \in Entry /\ e.max = m /\ e.isDefault = ~Own(u)
        <4> HIDE DEF m
        <4> QED
          BY <3>3, <3>4 DEF Entry
      <3>6. Own(u) => row[u] # None
        BY DEF Own
      <3> HIDE DEF e
      <3> QED
        BY <3>1, <3>5, <3>6 DEF LoadedRight
    <2> QED
      BY <2>1, <2>2
  <1>2. Loaded = [u \in Users |-> Loaded[u]]
    BY DEF Loaded
  <1> QED
    BY <1>1, <1>2

LEMMA RestartMoves ==
    ASSUME Typed, Restart
    PROVE  /\ Typed' /\ \A q \in Procs : ops'[q] = Idle
           /\ UNCHANGED db /\ rehash' = {} /\ unsynced' = {} /\ count'.faults # 0
           /\ \A u \in Users : cache'[u] = Loaded[u] /\ LoadedRight(u)
           /\ cacheDflt' = DefaultQuota
  <1>1. count \in [ops : Nat, faults : Nat] /\ count' = [count EXCEPT !.faults = @ + 1]
    BY DEF Typed, Restart
  <1>2. count.faults \in Nat /\ count.ops \in Nat
    BY <1>1
  <1> DEFINE f == count.faults + 1
  <1>3. f \in Nat /\ f # 0 /\ count' = [count EXCEPT !.faults = f]
    BY <1>1, <1>2
  <1> HIDE DEF f
  <1>4. count' \in [ops : Nat, faults : Nat] /\ count'.faults # 0
    BY <1>1, <1>3
  <1>5. \A q \in Busy : ops[q].kind \in Kinds
    BY OpOf, KindOf, IdleFields DEF Busy
  <1>6. overlap' \subseteq SUBSET Kinds
    <2>1. overlap \subseteq SUBSET Kinds /\ "cut" \in Kinds
      BY DEF Typed, TypeOK, Kinds
    <2>2. overlap' = overlap \cup {{ops[q].kind, "cut"} : q \in Busy}
      BY DEF Restart
    <2> QED
      BY <1>5, <2>1, <2>2
  <1>7. Loaded \in [Users -> Entry \cup {None}] /\ \A u \in Users : LoadedRight(u)
    BY LoadedEntries DEF Typed, TypeOK
  <1>8. /\ UNCHANGED db /\ rehash' = {} /\ unsynced' = {} /\ cache' = Loaded
        /\ cacheDflt' = DefaultQuota /\ ops' = [p \in Procs |-> Idle]
    BY DEF Restart, StorageInit
  <1>9. DefaultQuota \in {ConfigDefault} \cup Limits
    BY DEF DefaultQuota, Typed, TypeOK
  <1>10. TypeOK'
    BY <1>6, <1>7, <1>8, <1>9 DEF Typed, TypeOK, db
  <1>11. ops' \in [Procs -> Op] /\ \A q \in Procs : ops'[q] = Idle
    BY <1>8 DEF Op
  <1>12. Typed'
    BY <1>4, <1>10, <1>11, IdleFields DEF Typed, At
  <1> QED
    BY <1>4, <1>7, <1>8, <1>11, <1>12

LEMMA InitTyped ==
    ASSUME Init
    PROVE  /\ Typed /\ \A q \in Procs : ops[q] = Idle
           /\ \A u \in Users : cache[u] = Loaded[u] /\ LoadedRight(u)
           /\ \A u \in accts : row[u] # None
           /\ cacheDflt = DefaultQuota
  <1>1. PICK w \in Passwords, legacy \in BOOLEAN :
          creds = [u \in Users |-> IF u \in accts THEN [pw |-> w, legacy |-> legacy] ELSE None]
    BY DEF Init
  <1>2. creds \in [Users -> [pw : Passwords, legacy : BOOLEAN] \cup {None}]
    <2>1. [pw |-> w, legacy |-> legacy] \in [pw : Passwords, legacy : BOOLEAN]
      OBVIOUS
    <2> QED
      BY <1>1, <2>1
  <1>3. /\ row \in [Users -> Row \cup {None}] /\ stored \in [Users -> Nat] /\ dflt = None
        /\ accts \subseteq Users /\ \A u \in accts : row[u] # None
    BY NewRecord DEF Init
  <1>4. Loaded \in [Users -> Entry \cup {None}] /\ \A u \in Users : LoadedRight(u)
    BY <1>3, LoadedEntries
  <1>5. TypeOK
    BY <1>2, <1>3, <1>4 DEF Init, TypeOK
  <1>6. ops \in [Procs -> Op] /\ \A q \in Procs : ops[q] = Idle
    BY DEF Init, Op
  <1>7. Typed
    BY <1>5, <1>6, IdleFields DEF Init, Typed, At
  <1> QED
    BY <1>3, <1>4, <1>6, <1>7 DEF Init, DefaultQuota

LEMMA TypedNext ==
    ASSUME Typed, [Next]_vars
    PROVE  Typed'
  BY NextCases, BeginMoves, StepFrame, RestartMoves DEF Aside, Frame

-----------------------------------------------------------------------------
(* Operations in flight together are in overlap.                           *)
LEMMA OverlapsNext ==
    ASSUME Typed, Overlaps, [Next]_vars
    PROVE  Overlaps'
  <1>1. ASSUME NEW p \in Procs, NEW o, First(o), Begin(p, o)
        PROVE  Overlaps'
    <2>1. /\ ops'[p] = o /\ \A q \in Procs : q # p => ops'[q] = ops[q]
          /\ overlap \subseteq overlap' /\ \A q \in Busy : {o.kind, ops[q].kind} \in overlap'
      BY <1>1, BeginMoves
    <2> SUFFICES ASSUME NEW a \in Busy', NEW b \in Busy', a # b
                 PROVE  {ops'[a].kind, ops'[b].kind} \in overlap'
      BY DEF Overlaps
    <2>2. a \in Procs /\ b \in Procs /\ (a # p => a \in Busy) /\ (b # p => b \in Busy)
      BY <2>1 DEF Busy
    <2>3. CASE a = p
      BY <2>1, <2>2, <2>3
    <2>4. CASE b = p
      <3>1. {ops'[a].kind, ops'[b].kind} = {o.kind, ops[a].kind}
        BY <2>1, <2>2, <2>4
      <3> QED
        BY <2>1, <2>2, <2>4, <3>1
    <2>5. CASE a # p /\ b # p
      BY <2>1, <2>2, <2>5 DEF Overlaps
    <2> QED
      BY <2>3, <2>4, <2>5
  <1>2. ASSUME NEW p \in Procs, Step(p)
        PROVE  Overlaps'
    <2>1. Frame(p)
      BY <1>2, StepFrame
    <2>2. \A q \in Busy' : q \in Busy /\ ops'[q].kind = ops[q].kind
      BY <2>1 DEF Frame, OthersSame, Same, Busy
    <2> QED
      BY <2>1, <2>2 DEF Overlaps, Frame
  <1>3. CASE Aside
    <2>1. \A q \in Busy' : q \in Busy /\ ops'[q].kind = ops[q].kind
      BY <1>3 DEF Aside, Same, Busy
    <2> QED
      BY <1>3, <2>1 DEF Overlaps, Aside
  <1>4. CASE Restart
    BY <1>4, RestartMoves, IdleFields DEF Overlaps, Busy
  <1> QED
    BY <1>1, <1>2, <1>3, <1>4, NextCases

-----------------------------------------------------------------------------
(* The blocklist.                                                          *)
Looked == {"new.lookup", "new.set", "new.acct", "login.create"}

LEMMA BlockKept ==
    ASSUME Typed, BlockInv, NEW p \in Procs, Moves(p), blocked' = blocked,
           ops'[p].pc \notin Looked
    PROVE  BlockInv'
  BY OthersStay DEF BlockInv, Unblocked, Looked

LEMMA OverQuiet ==
    ASSUME NEW p \in Procs, Over(p)
    PROVE  ops'[p].pc \in {"idle", "mail.jit"}
  BY IdleFields, NextMail DEF Over

LEMMA BlockStep ==
    ASSUME Typed, BlockInv, NEW p \in Procs, Step(p)
    PROVE  BlockInv'
  <1>1. CASE NewCheck(p)
    <2>1. blocked' = blocked /\ ops'[p].pc \in {"idle", "new.check", "new.lookup"}
      BY <1>1, NewCheckMoves, IdleFields DEF NewCheck, db
    <2>2. Unblocked(ops[p])'
      BY <1>1, <2>1, NewCheckMoves, IdleFields DEF Unblocked
    <2> QED
      BY <1>1, <2>1, <2>2, NewCheckMoves, OthersStay DEF BlockInv, Unblocked
  <1>2. CASE NewLookup(p)
    <2>1. blocked' = blocked /\ At(p, "new.lookup") /\ ops[p].kind = "new"
      BY <1>2, NewLookupMoves DEF NewLookup, db, OpNew
    <2>2. Unblocked(ops[p])'
      BY <1>2, <2>1, NewLookupMoves, IdleFields DEF BlockInv, Unblocked, At
    <2> QED
      BY <1>2, <2>1, <2>2, NewLookupMoves, OthersStay DEF BlockInv, Unblocked
  <1>3. CASE NewSet(p)
    <2>1. blocked' = blocked /\ At(p, "new.set") /\ ops[p].kind = "new"
      BY <1>3, NewSetMoves DEF NewSet, OpNew
    <2>2. Unblocked(ops[p])'
      BY <1>3, <2>1, NewSetMoves DEF BlockInv, Unblocked, At
    <2> QED
      BY <1>3, <2>1, <2>2, NewSetMoves, OthersStay DEF BlockInv, Unblocked
  <1>4. CASE NewAcct(p)
    BY <1>4, NewAcctMoves, BlockKept, IdleFields DEF NewAcct, Looked, Over, db
  <1>5. CASE NewRowStep(p)
    BY <1>5, NewRowMoves, BlockKept, IdleFields DEF NewRowStep, Looked, Over, db
  <1>6. CASE NewUndo(p)
    BY <1>6, NewUndoMoves, BlockKept, IdleFields DEF NewUndo, Looked, Over, db
  <1>7. CASE Reply(p)
    BY <1>7, ReplyMoves, BlockKept, IdleFields DEF Reply, Looked, Over, db
  <1>8. CASE AuthPlain(p)
    BY <1>8, AuthPlainMoves, BlockKept, IdleFields DEF AuthPlain, Looked, Over, db
  <1>9. CASE CreateUserIfNotExists(p)
    BY <1>9, LoginSetMoves, BlockKept, IdleFields DEF CreateUserIfNotExists, Looked, Over, db
  <1>10. CASE OpenJit(p)
    BY <1>10, OpenJitMoves, BlockKept, IdleFields DEF OpenJit, Looked, Over, db
  <1>11. CASE OpenBlocked(p)
    <2>1. blocked' = blocked
      BY <1>11 DEF OpenBlocked, db
    <2>2. Unblocked(ops[p])'
      BY <1>11, <2>1, OpenBlockedMoves, IdleFields DEF Unblocked
    <2> QED
      BY <1>11, <2>1, <2>2, OpenBlockedMoves, OthersStay DEF BlockInv, Unblocked
  <1>12. CASE OpenAccount(p)
    BY <1>12, OpenAccountMoves, BlockKept, IdleFields DEF OpenAccount, Looked, Over, db
  <1>13. CASE OpenRow(p)
    BY <1>13, OpenRowMoves, BlockKept, IdleFields DEF OpenRow, Looked, Over, db
  <1>14. CASE FirstLoginRead(p)
    BY <1>14, FirstReadMoves, BlockKept, IdleFields DEF FirstLoginRead, Looked, Over, db
  <1>15. CASE FirstLoginSave(p)
    BY <1>15, FirstSaveMoves, BlockKept, IdleFields DEF FirstLoginSave, Looked, Over, db
  <1>16. CASE AddRcptJit(p)
    BY <1>16, AddRcptJitMoves, BlockKept, IdleFields DEF AddRcptJit, Looked, Over, db
  <1>17. CASE AddRcptCreate(p)
    BY <1>17, AddRcptCreateMoves, BlockKept, IdleFields DEF AddRcptCreate, Looked, Over, db
  <1>18. CASE AddRcptRow(p)
    BY <1>18, AddRcptRowMoves, BlockKept, IdleFields DEF AddRcptRow, Looked, Over, db
  <1>19. CASE AddRcpt(p)
    BY <1>19, AddRcptMoves, BlockKept, IdleFields DEF AddRcpt, Looked, Over, db
  <1>20. CASE GetQuota(p)
    BY <1>20, GetQuotaMoves, BlockKept, IdleFields DEF GetQuota, Looked, Over, db
  <1>21. CASE GetQuotaUsed(p)
    BY <1>21, GetQuotaUsedMoves, BlockKept, IdleFields DEF GetQuotaUsed, Looked, Over, db
  <1>22. CASE GetQuotaMax(p)
    BY <1>22, GetQuotaMaxMoves, BlockKept, IdleFields DEF GetQuotaMax, Looked, Over, db
  <1>23. CASE GetQuotaSetMax(p)
    BY <1>23, GetQuotaSetMaxMoves, BlockKept, IdleFields DEF GetQuotaSetMax, Looked, Over, db
  <1>24. CASE GetQuotaFill(p)
    BY <1>24, GetQuotaFillMoves, BlockKept, IdleFields DEF GetQuotaFill, Looked, Over, db
  <1>25. CASE MailCommit(p)
    BY <1>25, MailCommitMoves, BlockKept, IdleFields DEF MailCommit, Looked, Over, db
  <1>26. CASE AddUsed(p)
    BY <1>26, AddUsedMoves, BlockKept, IdleFields DEF AddUsed, Looked, Over, db
  <1>27. CASE DeleteCreds(p)
    BY <1>27, DeleteCredsMoves, BlockKept, IdleFields DEF DeleteCreds, Looked, Over, db
  <1>28. CASE DeleteRow(p)
    BY <1>28, DeleteRowMoves, BlockKept, IdleFields DEF DeleteRow, Looked, Over, db
  <1>29. CASE DeleteUser(p)
    BY <1>29, DeleteUserMoves, BlockKept, IdleFields DEF DeleteUser, Looked, Over, db
  <1>30. CASE DeleteRowAgain(p)
    BY <1>30, DeleteRowAgainMoves, BlockKept, IdleFields DEF DeleteRowAgain, Looked, Over, db
  <1>31. CASE Invalidate(p)
    BY <1>31, InvalidateMoves, BlockKept, IdleFields DEF Invalidate, Looked, Over, db
  <1>32. CASE DeleteBlock(p)
    BY <1>32, DeleteBlockMoves, IdleFields DEF BlockInv, StaysUnblocked, Unblocked
  <1>33. CASE SetQuotaRead(p)
    BY <1>33, SetReadMoves, BlockKept, IdleFields DEF SetQuotaRead, Looked, Over, db
  <1>34. CASE SetQuotaSave(p)
    BY <1>34, SetSaveMoves, BlockKept, IdleFields DEF SetQuotaSave, Looked, Over, db
  <1>35. CASE SetMax(p)
    BY <1>35, SetMaxMoves, BlockKept, IdleFields DEF SetMax, Looked, Over, db
  <1>36. CASE ResetQuotaRow(p)
    BY <1>36, ResetRowMoves, BlockKept, IdleFields DEF ResetQuotaRow, Looked, Over, db
  <1>37. CASE ResetMax(p)
    BY <1>37, ResetMaxMoves, BlockKept, IdleFields DEF ResetMax, Looked, Over, db
  <1>38. CASE SetDefaultRow(p)
    BY <1>38, DefaultRowMoves, BlockKept, IdleFields DEF SetDefaultRow, Looked, Over, db
  <1>39. CASE SetDefaultCache(p)
    BY <1>39, DefaultCacheMoves, BlockKept, IdleFields DEF SetDefaultCache, Looked, Over, db
  <1> QED
    BY <1>1, <1>2, <1>3, <1>4, <1>5, <1>6, <1>7, <1>8, <1>9, <1>10, <1>11, <1>12, <1>13,
       <1>14, <1>15, <1>16, <1>17, <1>18, <1>19, <1>20, <1>21, <1>22, <1>23, <1>24, <1>25,
       <1>26, <1>27, <1>28, <1>29, <1>30, <1>31, <1>32, <1>33, <1>34, <1>35, <1>36, <1>37,
       <1>38, <1>39 DEF Step

LEMMA BlockNext ==
    ASSUME Typed, BlockInv, [Next]_vars
    PROVE  BlockInv'
  <1>1. ASSUME NEW p \in Procs, NEW o, First(o), Begin(p, o)
        PROVE  BlockInv'
    <2>1. ops'[p] = o /\ blocked' = blocked /\ \A q \in Procs : q # p => ops'[q] = ops[q]
      BY <1>1, BeginMoves DEF db
    <2> QED
      BY <1>1, <2>1 DEF BlockInv, Unblocked, First, FirstPcs
  <1>2. CASE Aside
    BY <1>2 DEF Aside, BlockInv, StaysUnblocked, Unblocked
  <1>3. CASE Restart
    BY <1>3, RestartMoves, IdleFields DEF BlockInv, Unblocked
  <1> QED
    BY <1>1, <1>2, <1>3, BlockStep, NextCases

(* Accounts are made in three places.                                      *)
LEMMA StepAccounts ==
    ASSUME Typed, NEW p \in Procs, Step(p)
    PROVE  \/ accts' \subseteq accts
           \/ /\ accts' = accts \cup {ops[p].user}
              /\ ops[p].kind \in {"create", "mail"} \/ ops[p].pc \in {"new.acct", "login.create"}
  <1>1. CASE NewAcct(p)
    BY <1>1 DEF NewAcct, At
  <1>2. CASE OpenAccount(p)
    BY <1>2 DEF OpenAccount, At
  <1>3. CASE AddRcptCreate(p)
    BY <1>3, AddRcptCreateMoves DEF AddRcptCreate, OpMail
  <1>4. CASE DeleteUser(p)
    BY <1>4 DEF DeleteUser
  <1>5. ASSUME ~NewAcct(p), ~OpenAccount(p), ~AddRcptCreate(p), ~DeleteUser(p)
        PROVE  accts' = accts
    BY <1>5 DEF Step, NewCheck, NewLookup, NewSet, NewRowStep, NewUndo, Reply, AuthPlain,
       CreateUserIfNotExists, OpenJit, OpenBlocked, OpenRow, FirstLoginRead, FirstLoginSave,
       AddRcptJit, AddRcptRow, AddRcpt, GetQuota, GetQuotaUsed, GetQuotaMax, GetQuotaSetMax,
       GetQuotaFill, MailCommit, AddUsed, DeleteCreds, DeleteRow, DeleteRowAgain, Invalidate,
       DeleteBlock, SetQuotaRead, SetQuotaSave, SetMax, ResetQuotaRow, ResetMax,
       SetDefaultRow, SetDefaultCache, db
  <1> QED
    BY <1>1, <1>2, <1>3, <1>4, <1>5

(* No step gives a blocked name an account, but the ones the property      *)
(* allows.                                                                 *)
LEMMA RebirthStep ==
    ASSUME Typed, BlockInv, [Next]_vars, NEW u \in Users, Reborn(u)
    PROVE  \/ MadeBy(u, {"create", "mail"})
           \/ \E p \in Procs : ops[p].kind \in {"new", "login"} /\ ops[p].user = u /\ ops[p].late
  <1>1. accts' # accts /\ u \in blocked /\ u \notin accts /\ u \in accts'
    BY DEF Reborn
  <1>2. PICK p \in Procs : Step(p)
    BY <1>1, NextCases, BeginMoves, RestartMoves DEF Aside, db
  <1>3. /\ u = ops[p].user
        /\ ops[p].kind \in {"create", "mail"} \/ ops[p].pc \in {"new.acct", "login.create"}
    BY <1>1, <1>2, StepAccounts
  <1>4. CASE ops[p].kind \in {"create", "mail"}
    BY <1>3, <1>4 DEF MadeBy
  <1>5. CASE ops[p].pc = "new.acct"
    <2>1. ops[p].kind \in {"new", "create"}
      BY <1>5, OpOf, PcOps DEF OpNew, OpCreate
    <2>2. ops[p].kind = "new" => ops[p].late
      BY <1>1, <1>3, <1>5 DEF BlockInv, Unblocked
    <2> QED
      BY <1>3, <2>1, <2>2 DEF MadeBy
  <1>6. CASE ops[p].pc = "login.create"
    <2>1. ops[p].kind = "login"
      BY <1>6, OpOf, PcOps DEF OpLogin, LoginPcs
    <2>2. ops[p].late
      BY <1>1, <1>3, <1>6 DEF BlockInv, Unblocked
    <2> QED
      BY <1>3, <2>1, <2>2
  <1> QED
    BY <1>3, <1>4, <1>5, <1>6

-----------------------------------------------------------------------------
(* The records of the accounts.                                            *)
LEMMA StillUndisturbed ==
    ASSUME Typed, overlap \subseteq overlap', Undisturbed',
           count' = count \/ count'.faults # 0 \/ count'.faults = count.faults
    PROVE  Undisturbed
  BY DEF Undisturbed

(* A removal is alone where nothing disturbs the others.                   *)
LEMMA RemovalAlone ==
    ASSUME Typed, Overlaps, Undisturbed, NEW p \in Busy, NEW q \in Busy, p # q
    PROVE  ops[p].kind \notin Removals
  <1>1. {ops[p].kind, ops[q].kind} \in overlap
    BY DEF Overlaps
  <1>2. {ops[p].kind, ops[q].kind} \cap (Removals \cup {"cut"}) = {}
    BY <1>1 DEF Undisturbed
  <1> QED
    BY <1>2

LEMMA TrackKept ==
    ASSUME Typed, TrackInv, NEW p \in Procs, Frame(p), accts' = accts,
           \A u \in Users : row[u] # None => row'[u] # None,
           ops[p].pc \in Recording => row'[ops[p].user] # None \/ count'.faults # 0,
           ops'[p].pc # "del.row2"
    PROVE  TrackInv'
  <1> SUFFICES ASSUME Undisturbed'
               PROVE  /\ \A u \in accts : row'[u] # None \/ AtUser(u, Recording)'
                      /\ \A q \in Procs : ops'[q].pc = "del.row2" => ops'[q].user \notin accts
    BY DEF TrackInv
  <1>1. Undisturbed /\ count'.faults = 0
    BY StillUndisturbed DEF Frame, Undisturbed
  <1>2. ASSUME NEW u \in accts PROVE row'[u] # None \/ AtUser(u, Recording)'
    <2>1. u \in Users
      BY DEF Typed, TypeOK
    <2>2. CASE row[u] # None
      BY <2>1, <2>2
    <2>3. CASE row[u] = None
      <3>1. PICK q \in Procs : ops[q].pc \in Recording /\ ops[q].user = u
        BY <1>1, <2>3 DEF TrackInv, AtUser
      <3>2. CASE q = p
        BY <1>1, <3>1, <3>2
      <3>3. CASE q # p
        BY <3>1, <3>3 DEF Frame, OthersSame, Same, AtUser
      <3> QED
        BY <3>2, <3>3
    <2> QED
      BY <2>2, <2>3
  <1>3. ASSUME NEW q \in Procs, ops'[q].pc = "del.row2" PROVE ops'[q].user \notin accts
    BY <1>1, <1>3 DEF TrackInv, Frame, OthersSame, Same
  <1> QED
    BY <1>2, <1>3

LEMMA TrackMade ==
    ASSUME Typed, Overlaps, TrackInv, NEW p \in Procs, Frame(p),
           accts' = accts \cup {ops[p].user}, row' = row, ops[p].pc \notin Recording,
           ops[p].kind \notin Removals, ops'[p].pc \in Recording, ops'[p].user = ops[p].user
    PROVE  TrackInv'
  <1> SUFFICES ASSUME Undisturbed'
               PROVE  /\ \A u \in accts' : row[u] # None \/ AtUser(u, Recording)'
                      /\ \A q \in Procs : ops'[q].pc = "del.row2" => ops'[q].user \notin accts'
    BY DEF TrackInv
  <1>1. Undisturbed
    BY StillUndisturbed DEF Frame
  <1>2. ASSUME NEW u \in accts' PROVE row[u] # None \/ AtUser(u, Recording)'
    <2>1. CASE u = ops[p].user
      BY <2>1 DEF AtUser
    <2>2. CASE u # ops[p].user /\ row[u] = None
      <3>1. PICK q \in Procs : ops[q].pc \in Recording /\ ops[q].user = u
        BY <1>1, <2>2 DEF TrackInv, AtUser
      <3> QED
        BY <2>2, <3>1 DEF Frame, OthersSame, Same, AtUser
    <2> QED
      BY <2>1, <2>2
  <1>3. ASSUME NEW q \in Procs, ops'[q].pc = "del.row2" PROVE FALSE
    <2>1. q # p /\ ops[q].pc = "del.row2"
      BY <1>3 DEF Frame, OthersSame, Same, Recording
    <2>2. ops[q].kind \in Removals
      BY <2>1, OpOf, PcOps DEF RemovalPcs, OpRemoval
    <2>3. p \in Busy /\ q \in Busy
      BY <2>2 DEF Busy, Frame, Removals
    <2> QED
      BY <1>1, <2>1, <2>2, <2>3, RemovalAlone
  <1> QED
    BY <1>2, <1>3

LEMMA TrackDeleteRow ==
    ASSUME Typed, TrackInv, NEW p \in Procs, Frame(p), DeleteRow(p)
    PROVE  TrackInv'
  <1> SUFFICES ASSUME Undisturbed'
               PROVE  /\ \A u \in accts : row'[u] # None \/ AtUser(u, Recording)'
                      /\ \A q \in Procs : ops'[q].pc = "del.row2" => ops'[q].user \notin accts
    BY DEF TrackInv, DeleteRow
  <1>1. Undisturbed
    BY StillUndisturbed DEF Frame
  <1>0. /\ ops'[p].pc = "del.acct" /\ ops'[p].user = ops[p].user /\ At(p, "del.row")
        /\ \A v \in Users : row'[v] = IF v = ops[p].user THEN None ELSE row[v]
    BY DeleteRowMoves DEF DeleteRow
  <1>2. ASSUME NEW u \in accts PROVE row'[u] # None \/ AtUser(u, Recording)'
    <2>1. CASE u = ops[p].user
      BY <1>0, <2>1 DEF AtUser, Recording
    <2>2. CASE u # ops[p].user
      <3>0. row'[u] = row[u]
        BY <1>0, <2>2 DEF Typed, TypeOK
      <3>1. CASE AtUser(u, Recording)
        BY <1>0, <3>1 DEF Frame, OthersSame, Same, AtUser, At, Recording
      <3> QED
        BY <1>1, <3>0, <3>1 DEF TrackInv
    <2> QED
      BY <2>1, <2>2
  <1>3. ASSUME NEW q \in Procs, ops'[q].pc = "del.row2" PROVE ops'[q].user \notin accts
    BY <1>0, <1>1, <1>3 DEF TrackInv, Frame, OthersSame, Same
  <1> QED
    BY <1>2, <1>3

LEMMA TrackDeleteUser ==
    ASSUME Typed, TrackInv, NEW p \in Procs, Frame(p), DeleteUser(p)
    PROVE  TrackInv'
  <1> SUFFICES ASSUME Undisturbed'
               PROVE  /\ \A u \in accts' : row[u] # None \/ AtUser(u, Recording)'
                      /\ \A q \in Procs : ops'[q].pc = "del.row2" => ops'[q].user \notin accts'
    BY DEF TrackInv, DeleteUser
  <1>1. Undisturbed
    BY StillUndisturbed DEF Frame
  <1>0. /\ accts' = accts \ {ops[p].user}
        /\ ops'[p].pc = "del.row2" => ops'[p].user = ops[p].user
    BY DeleteUserMoves, IdleFields
  <1>2. ASSUME NEW u \in accts' PROVE row[u] # None \/ AtUser(u, Recording)'
    <2>1. u \in accts /\ u # ops[p].user
      BY <1>0
    <2>2. CASE AtUser(u, Recording)
      BY <2>1, <2>2 DEF Frame, OthersSame, Same, AtUser
    <2> QED
      BY <1>1, <2>1, <2>2 DEF TrackInv
  <1>3. ASSUME NEW q \in Procs, ops'[q].pc = "del.row2" PROVE ops'[q].user \notin accts'
    BY <1>0, <1>1, <1>3 DEF TrackInv, Frame, OthersSame, Same
  <1> QED
    BY <1>2, <1>3

LEMMA TrackDeleteRowAgain ==
    ASSUME Typed, TrackInv, NEW p \in Procs, Frame(p), DeleteRowAgain(p)
    PROVE  TrackInv'
  <1> SUFFICES ASSUME Undisturbed'
               PROVE  /\ \A u \in accts : row'[u] # None \/ AtUser(u, Recording)'
                      /\ \A q \in Procs : ops'[q].pc = "del.row2" => ops'[q].user \notin accts
    BY DEF TrackInv, DeleteRowAgain
  <1>1. Undisturbed
    BY StillUndisturbed DEF Frame
  <1>0. /\ ops'[p].pc = "del.cache" /\ At(p, "del.row2")
        /\ \A v \in Users : row'[v] = IF v = ops[p].user THEN None ELSE row[v]
    BY DeleteRowAgainMoves DEF DeleteRowAgain
  <1>2. ASSUME NEW u \in accts PROVE row'[u] # None \/ AtUser(u, Recording)'
    <2>1. u # ops[p].user
      BY <1>0, <1>1 DEF TrackInv, At
    <2>2. row'[u] = row[u]
      BY <1>0, <2>1 DEF Typed, TypeOK
    <2>3. CASE AtUser(u, Recording)
      BY <1>0, <2>3 DEF Frame, OthersSame, Same, AtUser, At, Recording
    <2> QED
      BY <1>1, <2>2, <2>3 DEF TrackInv
  <1>3. ASSUME NEW q \in Procs, ops'[q].pc = "del.row2" PROVE ops'[q].user \notin accts
    BY <1>0, <1>1, <1>3 DEF TrackInv, Frame, OthersSame, Same
  <1> QED
    BY <1>2, <1>3

LEMMA TrackStep ==
    ASSUME Typed, Overlaps, TrackInv, NEW p \in Procs, Step(p)
    PROVE  TrackInv'
  <1>0. Frame(p)
    BY StepFrame
  <1>1. CASE NewCheck(p)
    BY <1>0, <1>1, NewCheckMoves, TrackKept, IdleFields DEF NewCheck, At, Recording, Over, db
  <1>2. CASE NewLookup(p)
    BY <1>0, <1>2, NewLookupMoves, TrackKept, IdleFields DEF NewLookup, At, Recording, Over, db
  <1>3. CASE NewSet(p)
    BY <1>0, <1>3, NewSetMoves, TrackKept, IdleFields DEF NewSet, At, Recording, Over, db
  <1>4. CASE NewAcct(p)
    <2>1. row' = row /\ ops[p].pc = "new.acct" /\ ops[p].kind \notin Removals
      BY <1>4, NewAcctMoves DEF NewAcct, At, Removals, OpNew, OpCreate
    <2> QED
      BY <1>0, <1>4, <2>1, NewAcctMoves, TrackKept, TrackMade, IdleFields DEF Recording
  <1>5. CASE NewRowStep(p)
    <2>0. ops[p].user \in Users /\ ops'[p].pc # "del.row2"
      BY <1>5, NewRowMoves, IdleFields DEF OpNew, OpCreate
    <2>1. \/ /\ row'[ops[p].user] # None /\ \A u \in Users : row[u] # None => row'[u] # None
          \/ row' = row /\ count'.faults # 0
      BY <1>5, <2>0, NewRowMoves, Recorded, Faulty
    <2>2. accts' = accts
      BY <1>5 DEF NewRowStep
    <2> QED
      BY <1>0, <2>0, <2>1, <2>2, TrackKept
  <1>6. CASE NewUndo(p)
    BY <1>0, <1>6, NewUndoMoves, TrackKept, IdleFields DEF NewUndo, At, Recording, Over, db
  <1>7. CASE Reply(p)
    BY <1>0, <1>7, ReplyMoves, TrackKept, IdleFields DEF Reply, At, Recording, Over, db
  <1>8. CASE AuthPlain(p)
    BY <1>0, <1>8, AuthPlainMoves, TrackKept, IdleFields DEF AuthPlain, At, Recording, Over, db
  <1>9. CASE CreateUserIfNotExists(p)
    BY <1>0, <1>9, LoginSetMoves, TrackKept, IdleFields
       DEF CreateUserIfNotExists, At, Recording, Over, db
  <1>10. CASE OpenJit(p)
    BY <1>0, <1>10, OpenJitMoves, TrackKept, IdleFields DEF OpenJit, At, Recording, Over, db
  <1>11. CASE OpenBlocked(p)
    BY <1>0, <1>11, OpenBlockedMoves, TrackKept, IdleFields
       DEF OpenBlocked, At, Recording, Over, db
  <1>12. CASE OpenAccount(p)
    <2>1. /\ row' = row /\ ops[p].pc \in {"login.create", "login.get"}
          /\ ops[p].kind \notin Removals
      BY <1>12, OpenAccountMoves DEF OpenAccount, At, Removals, OpLogin
    <2> QED
      BY <1>0, <1>12, <2>1, OpenAccountMoves, TrackKept, TrackMade, IdleFields DEF Recording
  <1>13. CASE OpenRow(p)
    <2>0. ops[p].user \in Users
      BY <1>13, OpenRowMoves DEF OpLogin
    <2>1. row'[ops[p].user] # None /\ \A u \in Users : row[u] # None => row'[u] # None
      BY <1>13, <2>0, OpenRowMoves, Recorded
    <2>2. accts' = accts /\ ops'[p].pc = "login.first"
      BY <1>13, OpenRowMoves DEF OpenRow
    <2> QED
      BY <1>0, <2>1, <2>2, TrackKept
  <1>14. CASE FirstLoginRead(p)
    BY <1>0, <1>14, FirstReadMoves, TrackKept, IdleFields
       DEF FirstLoginRead, At, Recording, Over, db
  <1>15. CASE FirstLoginSave(p)
    <2>1. ops[p].user \in Users /\ row \in [Users -> Row \cup {None}]
      BY <1>15, FirstSaveMoves DEF OpLogin, Typed, TypeOK
    <2>2. \A u \in Users : row[u] # None => row'[u] # None
      BY <1>15, <2>1, FirstSaveMoves
    <2> QED
      BY <1>0, <1>15, <2>2, FirstSaveMoves, TrackKept DEF FirstLoginSave, At, Recording
  <1>16. CASE AddRcptJit(p)
    BY <1>0, <1>16, AddRcptJitMoves, TrackKept, IdleFields DEF AddRcptJit, At, Recording, Over, db
  <1>17. CASE AddRcptCreate(p)
    <2>1. /\ row' = row /\ ops[p].pc = "mail.create" /\ ops[p].kind \notin Removals
          /\ ops[p].user \in accts => accts' = accts
      BY <1>17, AddRcptCreateMoves DEF AddRcptCreate, At, Removals, OpMail
    <2> QED
      BY <1>0, <1>17, <2>1, AddRcptCreateMoves, TrackKept, TrackMade DEF Recording
  <1>18. CASE AddRcptRow(p)
    <2>0. ops[p].user \in Users
      BY <1>18, AddRcptRowMoves DEF OpMail
    <2>1. row'[ops[p].user] # None /\ \A u \in Users : row[u] # None => row'[u] # None
      BY <1>18, <2>0, AddRcptRowMoves, Recorded
    <2>2. accts' = accts /\ ops'[p].pc = "mail.rcpt"
      BY <1>18, AddRcptRowMoves DEF AddRcptRow
    <2> QED
      BY <1>0, <2>1, <2>2, TrackKept
  <1>19. CASE AddRcpt(p)
    BY <1>0, <1>19, AddRcptMoves, TrackKept, IdleFields DEF AddRcpt, At, Recording, Over, db
  <1>20. CASE GetQuota(p)
    BY <1>0, <1>20, GetQuotaMoves, TrackKept, IdleFields DEF GetQuota, At, Recording, Over, db
  <1>21. CASE GetQuotaUsed(p)
    BY <1>0, <1>21, GetQuotaUsedMoves, TrackKept, IdleFields
       DEF GetQuotaUsed, At, Recording, Over, db
  <1>22. CASE GetQuotaMax(p)
    BY <1>0, <1>22, GetQuotaMaxMoves, TrackKept, IdleFields
       DEF GetQuotaMax, At, Recording, Over, db
  <1>23. CASE GetQuotaSetMax(p)
    BY <1>0, <1>23, GetQuotaSetMaxMoves, TrackKept, IdleFields
       DEF GetQuotaSetMax, At, Recording, Over, db
  <1>24. CASE GetQuotaFill(p)
    BY <1>0, <1>24, GetQuotaFillMoves, TrackKept, IdleFields
       DEF GetQuotaFill, At, Recording, Over, db
  <1>25. CASE MailCommit(p)
    BY <1>0, <1>25, MailCommitMoves, TrackKept, IdleFields DEF MailCommit, At, Recording, Over, db
  <1>26. CASE AddUsed(p)
    BY <1>0, <1>26, AddUsedMoves, TrackKept, IdleFields DEF AddUsed, At, Recording, Over, db
  <1>27. CASE DeleteCreds(p)
    BY <1>0, <1>27, DeleteCredsMoves, TrackKept, IdleFields
       DEF DeleteCreds, At, Recording, Over, db
  <1>28. CASE DeleteRow(p)
    BY <1>0, <1>28, TrackDeleteRow
  <1>29. CASE DeleteUser(p)
    BY <1>0, <1>29, TrackDeleteUser
  <1>30. CASE DeleteRowAgain(p)
    BY <1>0, <1>30, TrackDeleteRowAgain
  <1>31. CASE Invalidate(p)
    BY <1>0, <1>31, InvalidateMoves, TrackKept, IdleFields DEF Invalidate, At, Recording, Over, db
  <1>32. CASE DeleteBlock(p)
    BY <1>0, <1>32, DeleteBlockMoves, TrackKept, IdleFields
       DEF DeleteBlock, At, Recording, Over, db
  <1>33. CASE SetQuotaRead(p)
    BY <1>0, <1>33, SetReadMoves, TrackKept, IdleFields DEF SetQuotaRead, At, Recording, Over, db
  <1>34. CASE SetQuotaSave(p)
    <2>1. \A u \in Users : row[u] # None => row'[u] # None
      BY <1>34, SetSaveMoves
    <2> QED
      BY <1>0, <1>34, <2>1, SetSaveMoves, TrackKept, IdleFields DEF SetQuotaSave, At, Recording
  <1>35. CASE SetMax(p)
    BY <1>0, <1>35, SetMaxMoves, TrackKept, IdleFields DEF SetMax, At, Recording, Over, db
  <1>36. CASE ResetQuotaRow(p)
    <2>1. \A u \in Users : row[u] # None => row'[u] # None
      BY <1>36, ResetRowMoves
    <2> QED
      BY <1>0, <1>36, <2>1, ResetRowMoves, TrackKept, IdleFields DEF ResetQuotaRow, At, Recording
  <1>37. CASE ResetMax(p)
    BY <1>0, <1>37, ResetMaxMoves, TrackKept, IdleFields DEF ResetMax, At, Recording, Over, db
  <1>38. CASE SetDefaultRow(p)
    BY <1>0, <1>38, DefaultRowMoves, TrackKept, IdleFields
       DEF SetDefaultRow, At, Recording, Over, db
  <1>39. CASE SetDefaultCache(p)
    BY <1>0, <1>39, DefaultCacheMoves, TrackKept, IdleFields
       DEF SetDefaultCache, At, Recording, Over, db
  <1> QED
    BY <1>1, <1>2, <1>3, <1>4, <1>5, <1>6, <1>7, <1>8, <1>9, <1>10, <1>11, <1>12, <1>13,
       <1>14, <1>15, <1>16, <1>17, <1>18, <1>19, <1>20, <1>21, <1>22, <1>23, <1>24, <1>25,
       <1>26, <1>27, <1>28, <1>29, <1>30, <1>31, <1>32, <1>33, <1>34, <1>35, <1>36, <1>37,
       <1>38, <1>39 DEF Step

LEMMA TrackNext ==
    ASSUME Typed, Overlaps, TrackInv, [Next]_vars
    PROVE  TrackInv'
  <1>1. ASSUME NEW p \in Procs, NEW o, First(o), Begin(p, o)
        PROVE  TrackInv'
    <2>1. /\ ops[p] = Idle /\ ops'[p] = o /\ accts' = accts /\ row' = row
          /\ \A q \in Procs : q # p => ops'[q] = ops[q]
          /\ count'.faults = count.faults /\ overlap \subseteq overlap'
      BY <1>1, BeginMoves DEF db
    <2>2. Undisturbed' => Undisturbed
      BY <2>1, StillUndisturbed
    <2>3. o.pc # "del.row2" /\ Idle.pc \notin Recording
      BY <1>1, IdleFields DEF First, FirstPcs, Recording
    <2>4. ASSUME NEW u, AtUser(u, Recording) PROVE AtUser(u, Recording)'
      BY <2>1, <2>3, <2>4 DEF AtUser
    <2> QED
      BY <2>1, <2>2, <2>3, <2>4 DEF TrackInv
  <1>2. CASE Aside
    <2>1. /\ accts' = accts /\ row' = row /\ (Undisturbed' => Undisturbed)
          /\ \A q \in Procs : ops'[q].pc = ops[q].pc /\ ops'[q].user = ops[q].user
      BY <1>2, StillUndisturbed DEF Aside, Same
    <2> QED
      BY <2>1 DEF TrackInv, AtUser
  <1>3. CASE Restart
    BY <1>3, RestartMoves DEF TrackInv, Undisturbed
  <1> QED
    BY <1>1, <1>2, <1>3, TrackStep, NextCases

-----------------------------------------------------------------------------
(* Registrations.                                                          *)
LEMMA MildStep ==
    ASSUME Typed, NEW p \in Procs, Step(p), ops[p].kind \in Mild
    PROVE  /\ creds' = creds /\ blocked' = blocked /\ rehash' = rehash /\ accts \subseteq accts'
           /\ \A u \in Users : row[u] # None => row'[u] # None
  <1>1. CASE NewCheck(p)
    BY <1>1, NewCheckMoves DEF OpNew, Mild
  <1>2. CASE NewLookup(p)
    BY <1>2, NewLookupMoves DEF OpNew, Mild
  <1>3. CASE NewSet(p)
    BY <1>3, NewSetMoves DEF OpNew, Mild
  <1>4. CASE NewAcct(p)
    BY <1>4, NewAcctMoves DEF NewAcct
  <1>5. CASE NewRowStep(p)
    <2>1. ops[p].user \in Users
      BY <1>5, NewRowMoves DEF OpNew, OpCreate
    <2>2. \A u \in Users : row[u] # None => row'[u] # None
      BY <1>5, <2>1, NewRowMoves, Recorded
    <2> QED
      BY <1>5, <2>2 DEF NewRowStep
  <1>6. CASE NewUndo(p)
    BY <1>6, NewUndoMoves DEF OpNew, Mild
  <1>7. CASE Reply(p)
    BY <1>7 DEF Reply, db
  <1>8. CASE AuthPlain(p)
    BY <1>8, AuthPlainMoves DEF OpLogin, OpAuth, Mild
  <1>9. CASE CreateUserIfNotExists(p)
    BY <1>9, LoginSetMoves DEF OpLogin, OpAuth, Mild
  <1>10. CASE OpenJit(p)
    BY <1>10, OpenJitMoves DEF OpLogin, Mild
  <1>11. CASE OpenBlocked(p)
    BY <1>11, OpenBlockedMoves DEF OpLogin, Mild
  <1>12. CASE OpenAccount(p)
    BY <1>12, OpenAccountMoves DEF OpLogin, Mild
  <1>13. CASE OpenRow(p)
    BY <1>13, OpenRowMoves DEF OpLogin, Mild
  <1>14. CASE FirstLoginRead(p)
    BY <1>14, FirstReadMoves DEF OpLogin, Mild
  <1>15. CASE FirstLoginSave(p)
    BY <1>15, FirstSaveMoves DEF OpLogin, Mild
  <1>16. CASE AddRcptJit(p)
    BY <1>16 DEF AddRcptJit, db
  <1>17. CASE AddRcptCreate(p)
    BY <1>17 DEF AddRcptCreate, db
  <1>18. CASE AddRcptRow(p)
    <2>1. ops[p].user \in Users
      BY <1>18, AddRcptRowMoves DEF OpMail
    <2>2. \A u \in Users : row[u] # None => row'[u] # None
      BY <1>18, <2>1, AddRcptRowMoves, Recorded
    <2> QED
      BY <1>18, <2>2 DEF AddRcptRow
  <1>19. CASE AddRcpt(p)
    BY <1>19 DEF AddRcpt, db
  <1>20. CASE GetQuota(p)
    BY <1>20 DEF GetQuota, db
  <1>21. CASE GetQuotaUsed(p)
    BY <1>21 DEF GetQuotaUsed, db
  <1>22. CASE GetQuotaMax(p)
    BY <1>22 DEF GetQuotaMax, db
  <1>23. CASE GetQuotaSetMax(p)
    BY <1>23 DEF GetQuotaSetMax, db
  <1>24. CASE GetQuotaFill(p)
    BY <1>24 DEF GetQuotaFill, db
  <1>25. CASE MailCommit(p)
    BY <1>25 DEF MailCommit, db
  <1>26. CASE AddUsed(p)
    BY <1>26 DEF AddUsed, db
  <1>27. CASE DeleteCreds(p)
    BY <1>27, DeleteCredsMoves DEF OpRemoval, Removals, Mild
  <1>28. CASE DeleteRow(p)
    BY <1>28, DeleteRowMoves DEF OpRemoval, Removals, Mild
  <1>29. CASE DeleteUser(p)
    BY <1>29, DeleteUserMoves DEF OpRemoval, Removals, Mild
  <1>30. CASE DeleteRowAgain(p)
    BY <1>30, DeleteRowAgainMoves DEF OpRemoval, Removals, Mild
  <1>31. CASE Invalidate(p)
    BY <1>31, InvalidateMoves DEF OpRemoval, Removals, Mild
  <1>32. CASE DeleteBlock(p)
    BY <1>32, DeleteBlockMoves DEF OpRemoval, Removals, Mild
  <1>33. CASE SetQuotaRead(p)
    BY <1>33 DEF SetQuotaRead, db
  <1>34. CASE SetQuotaSave(p)
    BY <1>34, SetSaveMoves DEF SetQuotaSave
  <1>35. CASE SetMax(p)
    BY <1>35 DEF SetMax, db
  <1>36. CASE ResetQuotaRow(p)
    BY <1>36, ResetRowMoves DEF ResetQuotaRow
  <1>37. CASE ResetMax(p)
    BY <1>37 DEF ResetMax, db
  <1>38. CASE SetDefaultRow(p)
    BY <1>38 DEF SetDefaultRow, db
  <1>39. CASE SetDefaultCache(p)
    BY <1>39 DEF SetDefaultCache, db
  <1> QED
    BY <1>1, <1>2, <1>3, <1>4, <1>5, <1>6, <1>7, <1>8, <1>9, <1>10, <1>11, <1>12, <1>13,
       <1>14, <1>15, <1>16, <1>17, <1>18, <1>19, <1>20, <1>21, <1>22, <1>23, <1>24, <1>25,
       <1>26, <1>27, <1>28, <1>29, <1>30, <1>31, <1>32, <1>33, <1>34, <1>35, <1>36, <1>37,
       <1>38, <1>39 DEF Step

(* The registration's own steps.                                           *)
LEMMA OwnStep ==
    ASSUME Typed, NEW p \in Procs, Step(p), ops[p].kind = "new", NewStage(ops[p]), rehash = {},
           ops'[p].kind = "new"
    PROVE  rehash' = {} /\ NewStage(ops[p])'
  <1>0. ops[p].user \in Users /\ creds \in [Users -> [pw : Passwords, legacy : BOOLEAN] \cup {None}]
    BY OpOf, PcOps DEF OpNew, Typed, TypeOK
  <1>1. CASE NewCheck(p)
    BY <1>1, NewCheckMoves, IdleFields DEF NewCheck, db, NewStage
  <1>2. CASE NewLookup(p)
    BY <1>2, NewLookupMoves, IdleFields DEF NewLookup, db, NewStage, At
  <1>3. CASE NewSet(p)
    <2>1. creds'[ops[p].user] = [pw |-> ops[p].pw, legacy |-> FALSE]
      BY <1>0, <1>3 DEF NewSet, Creds
    <2> QED
      BY <1>3, <2>1, NewSetMoves DEF NewSet, NewStage, At
  <1>4. CASE NewAcct(p)
    <2>1. ops[p] \in OpNew
      BY OpOf, PcOps
    <2>2. creds' = creds /\ blocked' = blocked /\ rehash' = rehash /\ ops[p].pc = "new.acct"
      BY <1>4 DEF NewAcct, At
    <2> QED
      BY <1>4, <2>1, <2>2, NewAcctMoves, IdleFields DEF NewStage
  <1>5. CASE NewRowStep(p)
    <2>1. creds' = creds /\ blocked' = blocked /\ rehash' = rehash /\ accts' = accts
          /\ ops[p].pc = "new.row"
      BY <1>5 DEF NewRowStep, At
    <2>2. ops'[p].pc = "new.ok" => row'[ops[p].user] # None
      BY <1>0, <1>5, NewRowMoves, Recorded, IdleFields
    <2> QED
      BY <1>5, <2>1, <2>2, NewRowMoves, IdleFields DEF NewStage
  <1>6. CASE NewUndo(p)
    <2>1. ops'[p].pc = "new.failed" => creds'[ops[p].user] = None
      BY <1>0, <1>6, NewUndoMoves DEF Creds
    <2> QED
      BY <1>6, <2>1, NewUndoMoves DEF NewUndo, NewStage
  <1>7. CASE Reply(p)
    BY <1>7, ReplyMoves, IdleFields
  <1>8. CASE AuthPlain(p) \/ CreateUserIfNotExists(p)
    BY <1>8, AuthPlainMoves, LoginSetMoves DEF OpLogin, OpAuth
  <1>9. CASE OpenJit(p) \/ OpenBlocked(p) \/ OpenAccount(p) \/ OpenRow(p)
             \/ FirstLoginRead(p) \/ FirstLoginSave(p)
    BY <1>9, OpenJitMoves, OpenBlockedMoves, OpenAccountMoves, OpenRowMoves, FirstReadMoves,
       FirstSaveMoves DEF OpLogin
  <1>10. CASE AddRcptJit(p) \/ AddRcptCreate(p) \/ AddRcptRow(p) \/ AddRcpt(p)
             \/ MailCommit(p) \/ AddUsed(p)
    BY <1>10, AddRcptJitMoves, AddRcptCreateMoves, AddRcptRowMoves, AddRcptMoves,
       MailCommitMoves, AddUsedMoves DEF OpMail
  <1>11. CASE GetQuota(p) \/ GetQuotaUsed(p) \/ GetQuotaMax(p) \/ GetQuotaSetMax(p)
             \/ GetQuotaFill(p)
    BY <1>11, GetQuotaMoves, GetQuotaUsedMoves, GetQuotaMaxMoves, GetQuotaSetMaxMoves,
       GetQuotaFillMoves DEF OpMail, OpQuota
  <1>12. CASE DeleteCreds(p) \/ DeleteRow(p) \/ DeleteUser(p) \/ DeleteRowAgain(p)
             \/ Invalidate(p) \/ DeleteBlock(p)
    BY <1>12, DeleteCredsMoves, DeleteRowMoves, DeleteUserMoves, DeleteRowAgainMoves,
       InvalidateMoves, DeleteBlockMoves DEF OpRemoval, Removals
  <1>13. CASE SetQuotaRead(p) \/ SetQuotaSave(p) \/ SetMax(p)
    BY <1>13, SetReadMoves, SetSaveMoves, SetMaxMoves DEF OpSet
  <1>14. CASE ResetQuotaRow(p) \/ ResetMax(p)
    BY <1>14, ResetRowMoves, ResetMaxMoves DEF OpReset
  <1>15. CASE SetDefaultRow(p) \/ SetDefaultCache(p)
    BY <1>15, DefaultRowMoves, DefaultCacheMoves DEF OpDefault
  <1> QED
    BY <1>1, <1>2, <1>3, <1>4, <1>5, <1>6, <1>7, <1>8, <1>9, <1>10, <1>11, <1>12, <1>13,
       <1>14, <1>15 DEF Step

LEMMA NewNext ==
    ASSUME Typed, Overlaps, NewInv, [Next]_vars
    PROVE  NewInv'
  <1>1. ASSUME NEW p \in Procs, NEW o, First(o), Begin(p, o)
        PROVE  NewInv'
    <2>1. /\ ops'[p] = o /\ \A q \in Procs : q # p => ops'[q] = ops[q]
          /\ creds' = creds /\ blocked' = blocked /\ accts' = accts /\ row' = row
          /\ rehash' = rehash
          /\ overlap \subseteq overlap' /\ (rehash # {} => {o.kind, "rehash"} \in overlap')
      BY <1>1, BeginMoves DEF db
    <2> SUFFICES ASSUME NewUndisturbed', NEW q \in Procs, ops'[q].kind = "new"
                 PROVE  rehash' = {} /\ NewStage(ops[q])'
      BY DEF NewInv
    <2>2. NewUndisturbed
      BY <2>1 DEF NewUndisturbed
    <2>3. CASE q = p
      <3>1. o.kind = "new" /\ o.pc = "new.check"
        <4>1. o \in OpNew
          BY <1>1, <2>1, <2>3, PcOps DEF First
        <4> QED
          BY <1>1, <4>1 DEF First, FirstPcs, OpNew, NewPcs
      <3>2. rehash = {}
        <4> SUFFICES ASSUME rehash # {} PROVE FALSE
          OBVIOUS
        <4>1. {"new", "rehash"} \in overlap'
          BY <2>1, <3>1
        <4>2. {"new", "rehash"} \subseteq {"new"} \cup Mild
          BY <4>1 DEF NewUndisturbed
        <4> QED
          BY <4>2 DEF Mild
      <3> QED
        BY <2>1, <2>3, <3>1, <3>2 DEF NewStage
    <2>4. CASE q # p
      BY <2>1, <2>2, <2>4 DEF NewInv, NewStage
    <2> QED
      BY <2>3, <2>4
  <1>2. ASSUME NEW p \in Procs, Step(p)
        PROVE  NewInv'
    <2>1. Frame(p)
      BY <1>2, StepFrame
    <2> SUFFICES ASSUME NewUndisturbed', NEW q \in Procs, ops'[q].kind = "new"
                 PROVE  rehash' = {} /\ NewStage(ops[q])'
      BY DEF NewInv
    <2>2. NewUndisturbed
      BY <2>1 DEF NewUndisturbed, Frame
    <2>3. CASE q = p
      <3>1. ops[p].kind = "new"
        BY <2>1, <2>3 DEF Frame
      <3> QED
        BY <1>2, <2>2, <2>3, <3>1, OwnStep DEF NewInv
    <2>4. CASE q # p
      <3>1. ops[q].kind = "new" /\ Same(ops[q], ops'[q])
        BY <2>1, <2>4 DEF Frame, OthersSame, Same
      <3>2. {ops[p].kind, ops[q].kind} \in overlap
        BY <2>1, <2>4, <3>1 DEF Overlaps, Busy, Frame
      <3>3. ops[p].kind \in Mild
        <4>1. {ops[p].kind, "new"} \subseteq {"new"} \cup Mild /\ {ops[p].kind, "new"} # {"new"}
          BY <2>2, <3>1, <3>2 DEF NewUndisturbed
        <4> QED
          BY <4>1
      <3>4. /\ creds' = creds /\ blocked' = blocked /\ rehash' = rehash /\ accts \subseteq accts'
            /\ \A u \in Users : row[u] # None => row'[u] # None
        BY <1>2, <3>3, MildStep
      <3>5. rehash = {} /\ NewStage(ops[q]) /\ ops[q].user \in Users
        BY <2>2, <3>1, OpOf, PcOps DEF NewInv, OpNew
      <3> QED
        BY <3>1, <3>4, <3>5 DEF NewStage, Same
    <2> QED
      BY <2>3, <2>4
  <1>3. CASE Aside
    <2> SUFFICES ASSUME NewUndisturbed', NEW q \in Procs, ops'[q].kind = "new"
                 PROVE  rehash' = {} /\ NewStage(ops[q])'
      BY DEF NewInv
    <2>1. NewUndisturbed /\ ops[q].kind = "new"
      BY <1>3 DEF NewUndisturbed, Aside, Same
    <2>2. rehash = {} /\ NewStage(ops[q])
      BY <2>1 DEF NewInv
    <2>3. ~\A r \in Busy : {"statement", ops[r].kind} \in overlap'
      <3> SUFFICES ASSUME {"statement", "new"} \in overlap' PROVE FALSE
        BY <2>1 DEF Busy
      <3>1. {"statement", "new"} \subseteq {"new"} \cup Mild
        BY DEF NewUndisturbed
      <3> QED
        BY <3>1 DEF Mild
    <2>4. UNCHANGED vars
      BY <1>3, <2>2, <2>3 DEF Aside
    <2> QED
      BY <2>2, <2>4 DEF vars, db, NewStage
  <1>4. CASE Restart
    BY <1>4, RestartMoves, IdleFields DEF NewInv
  <1> QED
    BY <1>1, <1>2, <1>3, <1>4, NextCases

-----------------------------------------------------------------------------
(* Limits.  Where nothing has overlapped, the operation that steps is      *)
(* alone, and LimitInv is about it.                                        *)
LimitAt(p) ==
    /\ Users \subseteq unsynced \/ cacheDflt = DefaultQuota \/ ops[p].pc = "dflt.cache"
    /\ \A u \in Users \ unsynced : Follows(u) \/ (ops[p].pc \in Behindhand /\ ops[p].user = u)
    /\ LimitStage(ops[p])

LEMMA LimitAlone ==
    ASSUME Typed, Overlaps, LimitInv, overlap = {}, NEW p \in Procs, ops[p].kind # "idle"
    PROVE  LimitAt(p) /\ \A q \in Procs : q # p => ops[q] = Idle
  <1>1. ASSUME NEW q \in Procs, q # p PROVE ops[q] = Idle
    <2>1. q \notin Busy
      BY <1>1 DEF Overlaps, Busy
    <2> QED
      BY <2>1, OpOf, PcOps DEF Busy
  <1>2. \A q \in Procs : q # p => ops[q].pc = "idle"
    BY <1>1, IdleFields
  <1>3. Users \subseteq unsynced \/ cacheDflt = DefaultQuota \/ ops[p].pc = "dflt.cache"
    BY <1>2 DEF LimitInv, InPlace
  <1>4. \A u \in Users \ unsynced : Follows(u) \/ (ops[p].pc \in Behindhand /\ ops[p].user = u)
    BY <1>2 DEF LimitInv, AtUser, Behindhand
  <1> QED
    BY <1>1, <1>3, <1>4 DEF LimitInv, LimitAt

LEMMA AllIdle ==
    ASSUME Typed, LimitInv, overlap = {}, Busy = {}
    PROVE  /\ Users \subseteq unsynced \/ cacheDflt = DefaultQuota
           /\ \A u \in Users \ unsynced : Follows(u)
  <1>1. \A q \in Procs : ops[q].pc = "idle"
    BY OpOf, PcOps, IdleFields DEF Busy
  <1> QED
    BY <1>1 DEF LimitInv, InPlace, AtUser, Behindhand

StagePcs == {"set.cache", "reset.cache", "quota.setmax", "quota.fill", "mail.commit", "mail.add",
             "login.save", "del.acct", "dflt.cache"}

LEMMA NoStage ==
    ASSUME NEW o, o.pc \notin StagePcs
    PROVE  LimitStage(o)
  BY DEF LimitStage, StagePcs

LEMMA FollowsSame ==
    ASSUME NEW u \in Users, Follows(u), row'[u] = row[u], cache'[u] = cache[u],
           cacheDflt' = cacheDflt
    PROVE  Follows(u)'
  BY DEF Follows, Own

LEMMA LimitKept ==
    ASSUME NEW p \in Procs, LimitAt(p), row' = row, dflt' = dflt, cache' = cache,
           cacheDflt' = cacheDflt, unsynced' = unsynced,
           ops[p].pc \notin Behindhand \cup {"dflt.cache"},
           ops'[p].pc \notin StagePcs \/ LimitStage(ops[p])'
    PROVE  LimitAt(p)'
  <1>1. LimitStage(ops[p])'
    BY DEF LimitStage, StagePcs
  <1>2. \A u \in Users \ unsynced : Follows(u)'
    BY FollowsSame DEF LimitAt
  <1> QED
    BY <1>1, <1>2 DEF LimitAt, DefaultQuota

LEMMA LimitRecorded ==
    ASSUME Typed, NEW p \in Procs, LimitAt(p),
           \A v \in Users : row'[v] = row[v] \/ (row[v] = None /\ row'[v].max = 0),
           dflt' = dflt, cache' = cache, cacheDflt' = cacheDflt, unsynced' = unsynced,
           ops[p].pc \notin Behindhand \cup {"dflt.cache"}, ops'[p].pc \notin StagePcs
    PROVE  LimitAt(p)'
  <1>1. LimitStage(ops[p])'
    BY DEF LimitStage, StagePcs
  <1>2. ASSUME NEW u \in Users \ unsynced PROVE Follows(u)'
    <2>1. Follows(u)
      BY DEF LimitAt
    <2>2. CASE row'[u] = row[u]
      BY <2>1, <2>2 DEF Follows, Own
    <2>3. CASE row[u] = None /\ row'[u].max = 0
      BY <2>1, <2>3 DEF Follows, Own
    <2> QED
      BY <2>2, <2>3
  <1> QED
    BY <1>1, <1>2 DEF LimitAt, DefaultQuota

(* A step of u's operation that touches u's record or entry alone.         *)
LEMMA LimitTouched ==
    ASSUME NEW p \in Procs, LimitAt(p), NEW u \in Users,
           \A v \in Users : v # u => row'[v] = row[v] /\ cache'[v] = cache[v],
           dflt' = dflt, cacheDflt' = cacheDflt, unsynced \subseteq unsynced',
           ops[p].pc \in Behindhand => ops[p].user = u, ops[p].pc # "dflt.cache",
           Follows(u)' \/ u \in unsynced' \/ (ops'[p].pc \in Behindhand /\ ops'[p].user = u),
           ops'[p].pc \notin StagePcs \/ LimitStage(ops[p])'
    PROVE  LimitAt(p)'
  <1>1. LimitStage(ops[p])'
    BY DEF LimitStage, StagePcs
  <1>2. ASSUME NEW v \in Users \ unsynced', v # u PROVE Follows(v)'
    <2>1. Follows(v)
      BY <1>2 DEF LimitAt
    <2> QED
      BY <1>2, <2>1, FollowsSame
  <1>3. Users \subseteq unsynced' \/ (cacheDflt = DefaultQuota)'
    BY DEF LimitAt, DefaultQuota
  <1> QED
    BY <1>1, <1>2, <1>3 DEF LimitAt

LEMMA LimitStepAt ==
    ASSUME Typed, NEW p \in Procs, Step(p), LimitAt(p)
    PROVE  LimitAt(p)'
  <1>0. row \in [Users -> Row \cup {None}] /\ cache \in [Users -> Entry \cup {None}]
    BY DEF Typed, TypeOK
  <1>1. CASE NewCheck(p)
    BY <1>1, NewCheckMoves, LimitKept, IdleFields
       DEF NewCheck, At, StagePcs, Behindhand, Over, db, mem, ghost
  <1>2. CASE NewLookup(p)
    BY <1>2, NewLookupMoves, LimitKept, IdleFields
       DEF NewLookup, At, StagePcs, Behindhand, Over, db, mem, ghost
  <1>3. CASE NewSet(p)
    BY <1>3, NewSetMoves, LimitKept, IdleFields
       DEF NewSet, At, StagePcs, Behindhand, Over, db, mem, ghost
  <1>4. CASE NewAcct(p)
    <2>1. unsynced' = unsynced
      BY <1>4, Faulty DEF NewAcct, ghost
    <2> QED
      BY <1>4, <2>1, NewAcctMoves, LimitKept, IdleFields
         DEF NewAcct, At, StagePcs, Behindhand, mem
  <1>5. CASE NewRowStep(p)
    <2>1. /\ unsynced' = unsynced
          /\ \A v \in Users : row'[v] = row[v] \/ (row[v] = None /\ row'[v].max = 0)
      <3>1. ops[p].user \in Users
        BY <1>5, NewRowMoves DEF OpNew, OpCreate
      <3>2. \/ /\ row' = (IF row[ops[p].user] = None THEN [row EXCEPT ![ops[p].user] = NewRow] ELSE row)
               /\ UNCHANGED ghost
            \/ row' = row /\ Fault
        BY <1>5, NewRowMoves
      <3> QED
        BY <3>1, <3>2, Recorded, Faulty DEF ghost
    <2> QED
      BY <1>5, <2>1, NewRowMoves, LimitRecorded, IdleFields
         DEF NewRowStep, At, StagePcs, Behindhand, mem
  <1>6. CASE NewUndo(p)
    <2>1. unsynced' = unsynced
      BY <1>6, Faulty DEF NewUndo, ghost
    <2> QED
      BY <1>6, <2>1, NewUndoMoves, LimitKept DEF NewUndo, At, StagePcs, Behindhand, mem
  <1>7. CASE Reply(p)
    BY <1>7, ReplyMoves, LimitKept, IdleFields
       DEF Reply, At, StagePcs, Behindhand, Over, db, mem, ghost
  <1>8. CASE AuthPlain(p)
    BY <1>8, AuthPlainMoves, LimitKept, IdleFields
       DEF AuthPlain, At, StagePcs, Behindhand, Over, db, mem, ghost
  <1>9. CASE CreateUserIfNotExists(p)
    BY <1>9, LoginSetMoves, LimitKept, IdleFields
       DEF CreateUserIfNotExists, At, StagePcs, Behindhand, Over, db, mem, ghost
  <1>10. CASE OpenJit(p)
    BY <1>10, OpenJitMoves, LimitKept, IdleFields
       DEF OpenJit, At, StagePcs, Behindhand, Over, db, mem, ghost
  <1>11. CASE OpenBlocked(p)
    BY <1>11, OpenBlockedMoves, LimitKept, IdleFields
       DEF OpenBlocked, At, StagePcs, Behindhand, Over, db, mem, ghost
  <1>12. CASE OpenAccount(p)
    BY <1>12, OpenAccountMoves, LimitKept, IdleFields
       DEF OpenAccount, At, StagePcs, Behindhand, Over, db, mem, ghost
  <1>13. CASE OpenRow(p)
    <2>1. \A v \in Users : row'[v] = row[v] \/ (row[v] = None /\ row'[v].max = 0)
      BY <1>13, OpenRowMoves, Recorded DEF OpLogin
    <2> QED
      BY <1>13, <2>1, OpenRowMoves, LimitRecorded
         DEF OpenRow, At, StagePcs, Behindhand, mem, ghost
  <1>14. CASE FirstLoginRead(p)
    <2>1. LimitStage(ops[p])'
      BY <1>14, FirstReadMoves DEF FirstLoginRead, db, LimitStage
    <2> QED
      BY <1>14, <2>1, LimitKept DEF FirstLoginRead, At, Behindhand, db, mem, ghost
  <1>15. CASE FirstLoginSave(p)
    <2>0. PICK u : u = ops[p].user
      OBVIOUS
    <2>1. u \in Users /\ ops[p].copy # None /\ ops[p].copy = row[u]
      BY <2>0, <1>15, FirstSaveMoves, OpOf
         DEF FirstLoginSave, At, OpLogin, Copied, LimitAt, LimitStage
    <2>2. /\ \A v \in Users : v # u => row'[v] = row[v]
          /\ row'[u] # None /\ row'[u].max = row[u].max
      BY <2>0, <1>0, <1>15, <2>1, FirstSaveMoves
    <2>3. cache' = cache /\ cacheDflt' = cacheDflt /\ dflt' = dflt /\ unsynced' = unsynced
      BY <2>0, <1>15 DEF FirstLoginSave, mem, ghost
    <2>4. u \in unsynced \/ Follows(u)
      BY <2>0, <1>15, <2>1 DEF FirstLoginSave, At, LimitAt, Behindhand
    <2>5. Follows(u) => Follows(u)'
      BY <2>0, <2>1, <2>2, <2>3 DEF Follows, Own
    <2>6. ops[p].pc = "login.save" /\ ops'[p].pc = "login.ok"
      BY <2>0, <1>15, FirstSaveMoves DEF FirstLoginSave, At
    <2> QED
      BY <2>0, <2>1, <2>2, <2>3, <2>4, <2>5, <2>6, LimitTouched DEF Behindhand, StagePcs
  <1>16. CASE AddRcptJit(p)
    BY <1>16, AddRcptJitMoves, LimitKept, IdleFields
       DEF AddRcptJit, At, StagePcs, Behindhand, Over, db, mem, ghost
  <1>17. CASE AddRcptCreate(p)
    BY <1>17, AddRcptCreateMoves, LimitKept, IdleFields
       DEF AddRcptCreate, At, StagePcs, Behindhand, Over, db, mem, ghost
  <1>18. CASE AddRcptRow(p)
    <2>1. \A v \in Users : row'[v] = row[v] \/ (row[v] = None /\ row'[v].max = 0)
      BY <1>18, AddRcptRowMoves, Recorded DEF OpMail
    <2> QED
      BY <1>18, <2>1, AddRcptRowMoves, LimitRecorded
         DEF AddRcptRow, At, StagePcs, Behindhand, mem, ghost
  <1>19. CASE AddRcpt(p)
    BY <1>19, AddRcptMoves, LimitKept, IdleFields
       DEF AddRcpt, At, StagePcs, Behindhand, Over, db, mem, ghost
  <1>20. CASE GetQuota(p)
    <2>1. LimitStage(ops[p])' \/ ops'[p].pc \notin StagePcs
      BY <1>20, GetQuotaMoves, IdleFields DEF GetQuota, mem, LimitStage, Over, StagePcs
    <2> QED
      BY <1>20, <2>1, LimitKept DEF GetQuota, At, Behindhand, db, mem, ghost
  <1>21. CASE GetQuotaUsed(p)
    BY <1>21, GetQuotaUsedMoves, LimitKept, IdleFields
       DEF GetQuotaUsed, At, StagePcs, Behindhand, Over, db, mem, ghost
  <1>22. CASE GetQuotaMax(p)
    <2>1. LimitStage(ops[p])'
      BY <1>22, GetQuotaMaxMoves DEF GetQuotaMax, db, LimitStage
    <2> QED
      BY <1>22, <2>1, LimitKept DEF GetQuotaMax, At, Behindhand, db, mem, ghost
  <1>23. CASE GetQuotaSetMax(p)
    <2>0. PICK u : u = ops[p].user
      OBVIOUS
    <2>1. /\ u \in Users /\ row[u] # None /\ ops[p].max = row[u].max
      BY <2>0, <1>23, GetQuotaSetMaxMoves
         DEF GetQuotaSetMax, At, OpMail, OpQuota, LimitAt, LimitStage
    <2>2. row' = row /\ cacheDflt' = cacheDflt /\ dflt' = dflt /\ unsynced' = unsynced
      BY <2>0, <1>23 DEF GetQuotaSetMax, db, ghost
    <2>3. /\ ops'[p].pc = "quota.fill" /\ ops'[p].user = u /\ ops[p].pc = "quota.setmax"
          /\ cache'[u] # None /\ cache'[u].max = ops[p].max /\ ~cache'[u].isDefault
          /\ \A v \in Users : v # u => cache'[v] = cache[v]
      BY <2>0, <1>23, GetQuotaSetMaxMoves DEF GetQuotaSetMax, At
    <2>4. Follows(u)' /\ LimitStage(ops[p])'
      BY <2>0, <2>1, <2>2, <2>3 DEF Follows, LimitStage
    <2> QED
      BY <2>0, <2>1, <2>2, <2>3, <2>4, LimitTouched DEF Behindhand
  <1>24. CASE GetQuotaFill(p)
    <2>0. PICK u : u = ops[p].user
      OBVIOUS
    <2>1. u \in Users /\ (cache[u] # None \/ row[u] = None) /\ ops[p].pc = "quota.fill"
      BY <2>0, <1>24, GetQuotaFillMoves DEF GetQuotaFill, At, OpMail, OpQuota, LimitAt, LimitStage
    <2>2. row' = row /\ cacheDflt' = cacheDflt /\ dflt' = dflt /\ unsynced' = unsynced
      BY <2>0, <1>24 DEF GetQuotaFill, db, ghost
    <2>3. Refilled(u) /\ (Over(p) \/ (ops'[p].pc = "mail.commit" /\ ops'[p].user = u))
      BY <2>0, <1>24, GetQuotaFillMoves
    <2>4. u \in unsynced \/ Follows(u)
      BY <2>0, <2>1 DEF LimitAt, Behindhand
    <2>5. Follows(u) => Follows(u)'
      BY <2>0, <2>1, <2>2, <2>3 DEF Follows, Own, Refilled
    <2>6. LimitStage(ops[p])' \/ ops'[p].pc \notin StagePcs
      BY <2>0, <2>3, IdleFields DEF Over, StagePcs, LimitStage, Refilled
    <2>7. \A v \in Users : v # u => cache'[v] = cache[v]
      BY <2>0, <2>3 DEF Refilled
    <2> QED
      BY <2>0, <2>1, <2>2, <2>4, <2>5, <2>6, <2>7, LimitTouched DEF Behindhand
  <1>25. CASE MailCommit(p)
    <2>1. LimitStage(ops[p])' \/ ops'[p].pc \notin StagePcs
      BY <1>25, MailCommitMoves, IdleFields
         DEF MailCommit, At, mem, LimitAt, LimitStage, Over, StagePcs
    <2> QED
      BY <1>25, <2>1, LimitKept DEF MailCommit, At, Behindhand, mem, ghost
  <1>26. CASE AddUsed(p)
    <2>0. PICK u : u = ops[p].user
      OBVIOUS
    <2>1. u \in Users /\ cache[u] # None /\ ops[p].pc = "mail.add"
      BY <2>0, <1>26, AddUsedMoves DEF AddUsed, At, OpMail, LimitAt, LimitStage
    <2>2. row' = row /\ cacheDflt' = cacheDflt /\ dflt' = dflt /\ unsynced' = unsynced
      BY <2>0, <1>26 DEF AddUsed, db, ghost
    <2>3. Refilled(u) /\ ops'[p].pc \notin StagePcs
      BY <2>0, <1>26, AddUsedMoves, IdleFields DEF Over, StagePcs
    <2>4. u \in unsynced \/ Follows(u)
      BY <2>0, <2>1 DEF LimitAt, Behindhand
    <2>5. Follows(u) => Follows(u)'
      BY <2>0, <2>1, <2>2, <2>3 DEF Follows, Own, Refilled
    <2>7. \A v \in Users : v # u => cache'[v] = cache[v]
      BY <2>0, <2>3 DEF Refilled
    <2> QED
      BY <2>0, <2>1, <2>2, <2>3, <2>4, <2>5, <2>7, LimitTouched DEF Behindhand
  <1>27. CASE DeleteCreds(p)
    BY <1>27, DeleteCredsMoves, LimitKept, IdleFields
       DEF DeleteCreds, At, StagePcs, Behindhand, mem
  <1>28. CASE DeleteRow(p)
    <2>0. PICK u : u = ops[p].user
      OBVIOUS
    <2>1. u \in Users /\ ops[p].pc = "del.row"
      BY <2>0, <1>28, DeleteRowMoves DEF DeleteRow, At, OpRemoval
    <2>2. /\ cache' = cache /\ cacheDflt' = cacheDflt /\ dflt' = dflt
          /\ \A v \in Users : v # u => row'[v] = row[v]
          /\ ops'[p].pc = "del.acct" /\ ops'[p].user = u /\ unsynced \subseteq unsynced'
          /\ ops'[p].kind = "delete" \/ u \in unsynced'
      BY <2>0, <1>28, DeleteRowMoves DEF DeleteRow, mem
    <2>3. LimitStage(ops[p])'
      BY <2>0, <2>2 DEF LimitStage
    <2> QED
      BY <2>0, <2>1, <2>2, <2>3, LimitTouched DEF Behindhand
  <1>29. CASE DeleteUser(p)
    <2>0. PICK u : u = ops[p].user
      OBVIOUS
    <2>1. u \in Users /\ ops[p].pc = "del.acct" /\ (ops[p].kind = "delete" \/ u \in unsynced)
      BY <2>0, <1>29, DeleteUserMoves DEF DeleteUser, At, OpRemoval, LimitAt, LimitStage
    <2>2. /\ cache' = cache /\ cacheDflt' = cacheDflt /\ dflt' = dflt /\ row' = row
          /\ unsynced' = unsynced
      BY <2>0, <1>29 DEF DeleteUser, mem, ghost
    <2>3. /\ ops[p].kind = "delete" => ops'[p].pc = "del.row2" /\ ops'[p].user = u
          /\ ops'[p].pc \notin StagePcs
      BY <2>0, <1>29, DeleteUserMoves, IdleFields DEF StagePcs
    <2>4. ops[p].pc \in Behindhand => ops[p].user = u
      BY <2>0
    <2> QED
      BY <2>0, <2>1, <2>2, <2>3, <2>4, LimitTouched DEF Behindhand
  <1>30. CASE DeleteRowAgain(p)
    <2>0. PICK u : u = ops[p].user
      OBVIOUS
    <2>1. u \in Users /\ ops[p].pc = "del.row2"
      BY <2>0, <1>30, DeleteRowAgainMoves DEF DeleteRowAgain, At, OpRemoval
    <2>2. /\ cache' = cache /\ cacheDflt' = cacheDflt /\ dflt' = dflt /\ unsynced' = unsynced
          /\ \A v \in Users : v # u => row'[v] = row[v]
          /\ ops'[p].pc = "del.cache" /\ ops'[p].user = u
      BY <2>0, <1>30, DeleteRowAgainMoves DEF DeleteRowAgain, mem, ghost
    <2>4. ops[p].pc \in Behindhand => ops[p].user = u
      BY <2>0
    <2> QED
      BY <2>0, <2>1, <2>2, <2>4, LimitTouched DEF Behindhand, StagePcs
  <1>31. CASE Invalidate(p)
    <2>0. PICK u : u = ops[p].user
      OBVIOUS
    <2>1. u \in Users /\ ops[p].pc = "del.cache"
      BY <2>0, <1>31, InvalidateMoves DEF Invalidate, At, OpRemoval
    <2>2. /\ row' = row /\ cacheDflt' = cacheDflt /\ dflt' = dflt /\ unsynced' = unsynced
          /\ \A v \in Users : v # u => cache'[v] = cache[v]
          /\ ops'[p].pc = "del.block" /\ cache'[u] = None
      BY <2>0, <1>31, InvalidateMoves DEF Invalidate, db, ghost
    <2>3. Follows(u)'
      BY <2>0, <2>2 DEF Follows
    <2>4. ops[p].pc \in Behindhand => ops[p].user = u
      BY <2>0
    <2> QED
      BY <2>0, <2>1, <2>2, <2>3, <2>4, LimitTouched DEF StagePcs
  <1>32. CASE DeleteBlock(p)
    BY <1>32, DeleteBlockMoves, LimitKept, IdleFields
       DEF DeleteBlock, At, StagePcs, Behindhand, mem
  <1>33. CASE SetQuotaRead(p)
    BY <1>33, SetReadMoves, LimitKept, IdleFields
       DEF SetQuotaRead, At, StagePcs, Behindhand, Over, db, mem, ghost
  <1>34. CASE SetQuotaSave(p)
    <2>0. PICK u : u = ops[p].user
      OBVIOUS
    <2>1. u \in Users /\ ops[p].pc = "set.save"
      BY <2>0, <1>34, SetSaveMoves DEF SetQuotaSave, At, OpSet
    <2>2. /\ cache' = cache /\ cacheDflt' = cacheDflt /\ dflt' = dflt
          /\ \A v \in Users : v # u => row'[v] = row[v]
          /\ unsynced \subseteq unsynced'
          /\ \/ row' = row /\ ops'[p].pc = "idle"
             \/ u \in unsynced' /\ ops'[p].pc = "idle"
             \/ ops'[p].pc = "set.cache" /\ ops'[p].user = u
                /\ row'[u] # None /\ row'[u].max = ops'[p].max
      BY <2>0, <1>34, SetSaveMoves, IdleFields DEF SetQuotaSave, mem
    <2>3. ops'[p].pc \notin StagePcs \/ LimitStage(ops[p])'
      BY <2>0, <2>2 DEF LimitStage, StagePcs
    <2>4. row' = row => u \in unsynced' \/ Follows(u)'
      BY <2>0, <2>1, <2>2 DEF LimitAt, Behindhand, Follows, Own
    <2> QED
      BY <2>0, <2>1, <2>2, <2>3, <2>4, LimitTouched DEF Behindhand
  <1>35. CASE SetMax(p)
    <2>0. PICK u : u = ops[p].user
      OBVIOUS
    <2>1. /\ u \in Users /\ ops[p].pc = "set.cache" /\ row[u] # None /\ row[u].max = ops[p].max
      BY <2>0, <1>35, SetMaxMoves DEF SetMax, At, OpSet, LimitAt, LimitStage
    <2>2. /\ row' = row /\ cacheDflt' = cacheDflt /\ dflt' = dflt /\ unsynced' = unsynced
          /\ \A v \in Users : v # u => cache'[v] = cache[v]
          /\ ops'[p].pc = "idle"
          /\ cache'[u] # None /\ cache'[u].max = ops[p].max /\ ~cache'[u].isDefault
      BY <2>0, <1>35, SetMaxMoves, IdleFields DEF SetMax, db, ghost
    <2>3. Follows(u)'
      BY <2>0, <2>1, <2>2 DEF Follows
    <2>4. ops[p].pc \in Behindhand => ops[p].user = u
      BY <2>0
    <2> QED
      BY <2>0, <2>1, <2>2, <2>3, <2>4, LimitTouched DEF StagePcs
  <1>36. CASE ResetQuotaRow(p)
    <2>0. PICK u : u = ops[p].user
      OBVIOUS
    <2>1. u \in Users /\ ops[p].pc = "reset.row"
      BY <2>0, <1>36, ResetRowMoves DEF ResetQuotaRow, At, OpReset
    <2>2. /\ cache' = cache /\ cacheDflt' = cacheDflt /\ dflt' = dflt
          /\ \A v \in Users : v # u => row'[v] = row[v]
          /\ unsynced \subseteq unsynced' /\ (row'[u] = None \/ row'[u].max = 0)
          /\ \/ u \in unsynced' /\ ops'[p].pc = "idle"
             \/ ops'[p].pc = "reset.cache" /\ ops'[p].user = u
      BY <2>0, <1>36, ResetRowMoves, IdleFields DEF ResetQuotaRow, mem
    <2>3. ops'[p].pc \notin StagePcs \/ LimitStage(ops[p])'
      BY <2>0, <2>2 DEF LimitStage, StagePcs
    <2> QED
      BY <2>0, <2>1, <2>2, <2>3, LimitTouched DEF Behindhand
  <1>37. CASE ResetMax(p)
    <2>0. PICK u : u = ops[p].user
      OBVIOUS
    <2>1. u \in Users /\ ops[p].pc = "reset.cache" /\ (row[u] = None \/ row[u].max = 0)
      BY <2>0, <1>37, ResetMaxMoves DEF ResetMax, At, OpReset, LimitAt, LimitStage
    <2>2. /\ row' = row /\ cacheDflt' = cacheDflt /\ dflt' = dflt /\ unsynced' = unsynced
          /\ \A v \in Users : v # u => cache'[v] = cache[v]
          /\ ops'[p].pc = "idle"
          /\ cache'[u] = None \/ (cache'[u].max = cacheDflt /\ cache'[u].isDefault)
      BY <2>0, <1>37, ResetMaxMoves, IdleFields DEF ResetMax, db, ghost
    <2>3. Follows(u)'
      BY <2>0, <2>1, <2>2 DEF Follows, Own
    <2>4. ops[p].pc \in Behindhand => ops[p].user = u
      BY <2>0
    <2> QED
      BY <2>0, <2>1, <2>2, <2>3, <2>4, LimitTouched DEF StagePcs
  <1>38. CASE SetDefaultRow(p)
    <2>1. /\ row' = row /\ cache' = cache /\ cacheDflt' = cacheDflt /\ ops[p].pc = "dflt.row"
          /\ \/ ops'[p].pc = "idle" /\ unsynced' = Users
             \/ ops'[p].pc = "dflt.cache" /\ ops'[p].max = dflt' /\ unsynced' = unsynced
      BY <1>38, DefaultRowMoves, IdleFields DEF SetDefaultRow, At, mem
    <2>2. \A u \in Users \ unsynced' : Follows(u)'
      BY <2>1, FollowsSame DEF LimitAt, Behindhand
    <2>3. LimitStage(ops[p])'
      BY <2>1 DEF LimitStage
    <2> QED
      BY <2>1, <2>2, <2>3 DEF LimitAt
  <1>39. CASE SetDefaultCache(p)
    <2>1. /\ row' = row /\ dflt' = dflt /\ unsynced' = unsynced /\ ops[p].pc = "dflt.cache"
          /\ ops'[p].pc = "idle" /\ cacheDflt' = ops[p].max /\ ops[p].max \in Limits
      BY <1>39, DefaultCacheMoves, IdleFields DEF SetDefaultCache, At, db, ghost, OpDefault
    <2>2. dflt = ops[p].max
      BY <2>1 DEF LimitAt, LimitStage
    <2>3. dflt # None
      BY <2>1, <2>2, SizesAreNat, NoneAssumption
    <2>4. (cacheDflt = DefaultQuota)'
      BY <2>1, <2>2, <2>3 DEF DefaultQuota
    <2>5. ASSUME NEW u \in Users \ unsynced PROVE Follows(u)'
      <3>1. Follows(u)
        BY <2>1 DEF LimitAt, Behindhand
      <3>2. \/ cache'[u] = cache[u]
               /\ (cache[u] # None => ~cache[u].isDefault \/ cache[u].max # cacheDflt)
            \/ cache[u] # None /\ cache[u].isDefault /\ cache'[u].isDefault
               /\ cache'[u].max = ops[p].max
        BY <1>39, DefaultCacheMoves
      <3> QED
        BY <2>1, <3>1, <3>2 DEF Follows, Own
    <2>6. LimitStage(ops[p])'
      BY <2>1 DEF LimitStage
    <2> QED
      BY <2>1, <2>4, <2>5, <2>6 DEF LimitAt
  <1> QED
    BY <1>1, <1>2, <1>3, <1>4, <1>5, <1>6, <1>7, <1>8, <1>9, <1>10, <1>11, <1>12, <1>13,
       <1>14, <1>15, <1>16, <1>17, <1>18, <1>19, <1>20, <1>21, <1>22, <1>23, <1>24, <1>25,
       <1>26, <1>27, <1>28, <1>29, <1>30, <1>31, <1>32, <1>33, <1>34, <1>35, <1>36, <1>37,
       <1>38, <1>39 DEF Step

(* A block changes nothing that a stage is about.                          *)
LEMMA StageSame ==
    ASSUME NEW o \in Op, NEW y, Same(o, y), LimitStage(o), row' = row, dflt' = dflt, cache' = cache,
           unsynced \subseteq unsynced'
    PROVE  /\ y.pc = "set.cache" => row'[y.user] # None /\ row'[y.user].max = y.max
           /\ y.pc = "reset.cache" => row'[y.user] = None \/ row'[y.user].max = 0
           /\ y.pc = "quota.setmax" => row'[y.user] # None /\ y.max = row'[y.user].max
           /\ y.pc = "quota.fill" => cache'[y.user] # None \/ row'[y.user] = None
           /\ y.pc \in {"mail.commit", "mail.add"} => cache'[y.user] # None
           /\ y.pc = "login.save" => y.copy = row'[y.user]
           /\ y.pc = "del.acct" => y.kind = "delete" \/ y.user \in unsynced'
           /\ y.pc = "dflt.cache" => dflt' = y.max
  <1>1. CASE o.kind \notin {"new", "login"}
    <2>1. y = o
      BY <1>1 DEF Same
    <2> QED
      BY <2>1 DEF LimitStage
  <1>2. CASE o.kind = "new"
    <2>1. y.pc \in NewPcs
      BY <1>2, PcOps DEF Same, OpNew
    <2> QED
      BY <2>1 DEF NewPcs
  <1>3. CASE o.kind = "login"
    <2>1. y.pc \in LoginPcs /\ y.copy = o.copy /\ y.user = o.user /\ y.pc = o.pc
      BY <1>3, PcOps DEF Same, OpLogin
    <2> QED
      BY <2>1 DEF LoginPcs, LimitStage
  <1> QED
    BY <1>1, <1>2, <1>3

LEMMA LimitNext ==
    ASSUME Typed, Overlaps, LimitInv, [Next]_vars
    PROVE  LimitInv'
  <1>1. ASSUME NEW p \in Procs, NEW o, First(o), Begin(p, o)
        PROVE  LimitInv'
    <2> SUFFICES ASSUME overlap' = {}
                 PROVE  /\ InPlace'
                        /\ \A u \in Users \ unsynced' : Follows(u)'
                        /\ \A q \in Procs : LimitStage(ops[q])'
      BY DEF LimitInv
    <2>1. /\ ops[p] = Idle /\ ops'[p] = o /\ \A q \in Procs : q # p => ops'[q] = ops[q]
          /\ row' = row /\ dflt' = dflt /\ cache' = cache /\ cacheDflt' = cacheDflt
          /\ unsynced' = unsynced /\ overlap \subseteq overlap'
          /\ \A q \in Busy : {o.kind, ops[q].kind} \in overlap'
      BY <1>1, BeginMoves DEF db, mem
    <2>2. overlap = {} /\ Busy = {}
      BY <2>1
    <2>3. /\ Users \subseteq unsynced \/ cacheDflt = DefaultQuota
          /\ \A u \in Users \ unsynced : Follows(u)
      BY <2>2, AllIdle
    <2>4. InPlace'
      BY <2>1, <2>3 DEF InPlace, DefaultQuota
    <2>5. \A u \in Users \ unsynced' : Follows(u)'
      BY <2>1, <2>3 DEF Follows, Own
    <2>6. \A q \in Procs : ops'[q].pc \notin StagePcs
      <3>1. \A q \in Procs : ops[q].pc = "idle"
        BY <2>2, OpOf, PcOps, IdleFields DEF Busy
      <3> QED
        BY <1>1, <2>1, <3>1 DEF First, FirstPcs, StagePcs
    <2> QED
      BY <2>4, <2>5, <2>6 DEF LimitStage, StagePcs
  <1>2. ASSUME NEW p \in Procs, Step(p)
        PROVE  LimitInv'
    <2> SUFFICES ASSUME overlap' = {} PROVE LimitInv'
      BY DEF LimitInv
    <2>1. Frame(p)
      BY <1>2, StepFrame
    <2>2. overlap = {} /\ ops[p].kind # "idle"
      BY <2>1 DEF Frame
    <2>3. LimitAt(p) /\ \A q \in Procs : q # p => ops[q] = Idle
      BY <2>2, LimitAlone
    <2>4. LimitAt(p)'
      BY <1>2, <2>3, LimitStepAt
    <2>5. \A q \in Procs : q # p => ops'[q].pc = "idle"
      BY <2>1, <2>3, IdleFields DEF Frame, OthersSame, Same
    <2>6. InPlace'
      BY <2>4 DEF LimitAt, InPlace
    <2>7. \A u \in Users \ unsynced' : (Follows(u) \/ AtUser(u, Behindhand))'
      BY <2>4 DEF LimitAt, AtUser
    <2>8. \A q \in Procs : LimitStage(ops[q])'
      <3>1. LimitStage(ops[p])'
        BY <2>4 DEF LimitAt
      <3> QED
        BY <2>5, <3>1 DEF LimitStage
    <2> QED
      BY <2>6, <2>7, <2>8 DEF LimitInv
  <1>3. CASE Aside
    <2> SUFFICES ASSUME overlap' = {} PROVE LimitInv'
      BY DEF LimitInv
    <2>1. /\ overlap = {} /\ row' = row /\ dflt' = dflt /\ cache' = cache /\ cacheDflt' = cacheDflt
          /\ unsynced \subseteq unsynced' /\ \A q \in Procs : Same(ops[q], ops'[q])
      BY <1>3 DEF Aside, mem
    <2>2. \A q \in Procs : ops'[q].pc = ops[q].pc /\ ops'[q].user = ops[q].user
      BY <2>1 DEF Same
    <2>3. InPlace'
      BY <2>1, <2>2 DEF LimitInv, InPlace, DefaultQuota
    <2>4. ASSUME NEW u \in Users \ unsynced' PROVE (Follows(u) \/ AtUser(u, Behindhand))'
      <3>1. Follows(u) \/ AtUser(u, Behindhand)
        BY <2>1 DEF LimitInv
      <3>2. AtUser(u, Behindhand) => AtUser(u, Behindhand)'
        BY <2>2 DEF AtUser
      <3>3. Follows(u) => Follows(u)'
        BY <2>1 DEF Follows, Own
      <3> QED
        BY <3>1, <3>2, <3>3
    <2>5. ASSUME NEW q \in Procs PROVE LimitStage(ops[q])'
      <3>1. ops[q] \in Op /\ Same(ops[q], ops'[q]) /\ LimitStage(ops[q])
        BY <2>1, OpOf DEF LimitInv
      <3> QED
        BY <2>1, <3>1, StageSame DEF LimitStage
    <2> QED
      BY <2>3, <2>4, <2>5 DEF LimitInv
  <1>4. CASE Restart
    <2>1. /\ \A q \in Procs : ops'[q].pc = "idle"
          /\ row' = row /\ dflt' = dflt /\ cacheDflt' = DefaultQuota
          /\ \A u \in Users : cache'[u] = Loaded[u] /\ LoadedRight(u)
      BY <1>4, RestartMoves, IdleFields DEF db
    <2>2. \A u \in Users : Follows(u)'
      BY <2>1 DEF Follows, LoadedRight, Own
    <2>3. InPlace'
      BY <2>1 DEF InPlace, DefaultQuota
    <2>4. \A q \in Procs : LimitStage(ops[q])'
      BY <2>1 DEF LimitStage
    <2> QED
      BY <2>2, <2>3, <2>4 DEF LimitInv
  <1> QED
    BY <1>1, <1>2, <1>3, <1>4, NextCases

-----------------------------------------------------------------------------
(* The theorems.                                                           *)
AccountsInv == Typed /\ Overlaps /\ BlockInv /\ TrackInv /\ NewInv /\ LimitInv

LEMMA InitAccounts ==
    ASSUME Init
    PROVE  AccountsInv
  <1>1. /\ Typed /\ \A q \in Procs : ops[q] = Idle
        /\ \A u \in Users : cache[u] = Loaded[u] /\ LoadedRight(u)
        /\ \A u \in accts : row[u] # None
        /\ cacheDflt = DefaultQuota
    BY InitTyped
  <1>2. \A q \in Procs : ops[q].pc = "idle" /\ ops[q].kind = "idle"
    BY <1>1, IdleFields
  <1>3. Overlaps /\ BlockInv
    BY <1>2 DEF Overlaps, Busy, BlockInv, Unblocked
  <1>4. TrackInv
    BY <1>1, <1>2 DEF TrackInv
  <1>5. NewInv
    BY <1>2 DEF NewInv
  <1>6. LimitInv
    <2>1. \A u \in Users : Follows(u)
      BY <1>1 DEF Follows, LoadedRight, Own
    <2>2. \A q \in Procs : LimitStage(ops[q])
      BY <1>2 DEF LimitStage
    <2> QED
      BY <1>1, <2>1, <2>2 DEF LimitInv, InPlace
  <1> QED
    BY <1>1, <1>3, <1>4, <1>5, <1>6 DEF AccountsInv

(* However the operations on accounts interleave, fail and are cut by a    *)
(* restart: every operation is at a statement of its own kind, two that    *)
(* are in flight together are in overlap, one that goes on to make an      *)
(* account found its name unblocked or is late for the block, an account   *)
(* without a record is between two statements of the operation that makes  *)
(* the record or removes the account, a registration has behind it what    *)
(* its place says, and the cache is behind the database only where the     *)
(* operation in flight is about to bring it up to date.                    *)
THEOREM AccountsInvariant == Spec => []AccountsInv
  <1>1. Init => AccountsInv
    BY InitAccounts
  <1>2. AccountsInv /\ [Next]_vars => AccountsInv'
    BY TypedNext, OverlapsNext, BlockNext, TrackNext, NewNext, LimitNext DEF AccountsInv
  <1> QED
    BY <1>1, <1>2, PTL DEF Spec

(* A blocked name gets an account again only from the command line, from a *)
(* delivery, which does not look at the blocklist, or from a registration  *)
(* or a login that was past its look when the block came.                  *)
THEOREM NoRebirthTheorem == Spec => NoRebirth
  <1>1. AccountsInv /\ [Next]_vars =>
          [\A u \in Users : Reborn(u) =>
              \/ MadeBy(u, {"create", "mail"})
              \/ \E p \in Procs : ops[p].kind \in {"new", "login"} /\ ops[p].user = u /\ ops[p].late]_vars
    BY RebirthStep DEF AccountsInv
  <1> QED
    BY <1>1, AccountsInvariant, PTL DEF Spec, NoRebirth

(* Registrations, logins, deliveries and changes of limits, in any number  *)
(* and any order, leave no account without the quota record that pruning   *)
(* finds it by, once they are over.                                        *)
THEOREM AccountTrackedTheorem == Spec => []AccountTracked
  <1>1. AccountsInv => AccountTracked
    <2> SUFFICES ASSUME AccountsInv, Undisturbed, NEW u \in accts, row[u] = None
                 PROVE  MadeBy(u, {"new", "create", "login", "mail"} \cup Removals)
      BY DEF AccountTracked, Undisturbed
    <2>1. PICK p \in Procs : ops[p].pc \in Recording /\ ops[p].user = u
      BY DEF AccountsInv, TrackInv, AtUser
    <2>2. ops[p].kind \in {"new", "create", "login", "mail"} \cup Removals
      BY <2>1, OpOf, PcOps
         DEF AccountsInv, Recording, LoginPcs, MailPcs, RemovalPcs, OpNew, OpCreate, OpLogin, OpMail,
             OpRemoval
    <2> QED
      BY <2>1, <2>2 DEF MadeBy
  <1> QED
    BY <1>1, AccountsInvariant, PTL

(* What registration answers is true beside any deliveries, changes of     *)
(* limits and accounts made from the command line, for any number of       *)
(* statements that fail: the account it hands out has its credentials,     *)
(* its storage and its record and is not blocked, and one it fails to make *)
(* leaves no credentials unless undoing them failed.                       *)
THEOREM NewAccountWorksTheorem == Spec => []NewAccountWorks
  <1>1. AccountsInv => NewAccountWorks
    <2> SUFFICES ASSUME AccountsInv, NewUndisturbed, NEW p \in Procs
                 PROVE  /\ At(p, "new.ok") =>
                             /\ creds[ops[p].user] = [pw |-> ops[p].pw, legacy |-> FALSE]
                             /\ ops[p].user \in accts \ blocked /\ row[ops[p].user] # None
                        /\ At(p, "new.failed") => creds[ops[p].user] = None
      BY DEF NewAccountWorks, NewUndisturbed, Mild
    <2>1. ops[p].pc \in {"new.ok", "new.failed"} => ops[p].kind = "new"
      BY OpOf, PcOps DEF AccountsInv, OpNew
    <2> QED
      BY <2>1 DEF AccountsInv, NewInv, NewStage, At
  <1> QED
    BY <1>1, AccountsInvariant, PTL

(* After any operations that ran one after the other, restarts and failed  *)
(* statements among them, the limit the server enforces for a user is the  *)
(* one the database holds, unless another process changed the rows behind  *)
(* the cache; a record without a limit of its own, filled on a miss, is    *)
(* the exception, which enforces none.                                     *)
THEOREM LimitsFollowTheorem == Spec => []LimitsFollowDatabase
  <1>1. AccountsInv => LimitsFollowDatabase
    <2> SUFFICES ASSUME AccountsInv, Busy = {}, overlap = {}
                 PROVE  /\ \A u \in Users \ unsynced :
                             cache[u] # None => cache[u].max = Effective(u) \/ FilledOnMiss(u)
                        /\ unsynced = {} => cacheDflt = DefaultQuota
      BY DEF LimitsFollowDatabase
    <2>1. /\ Users \subseteq unsynced \/ cacheDflt = DefaultQuota
          /\ \A u \in Users \ unsynced : Follows(u)
      BY AllIdle DEF AccountsInv
    <2>2. ASSUME NEW u \in Users \ unsynced, cache[u] # None
          PROVE  cache[u].max = Effective(u) \/ FilledOnMiss(u)
      <3>1. cacheDflt = DefaultQuota /\ Follows(u)
        BY <2>1, <2>2
      <3>2. row[u] # None => row[u].max \in Nat
        <4>1. row[u] # None => row[u] \in Row
          BY <2>2 DEF AccountsInv, Typed, TypeOK
        <4>2. {0} \cup Limits \subseteq Nat
          BY SizesAreNat
        <4> QED
          BY <4>1, <4>2 DEF Row
      <3>3. CASE cache[u].isDefault /\ ~Own(u) /\ cache[u].max = cacheDflt
        BY <3>1, <3>3 DEF Effective, Own
      <3>4. CASE ~cache[u].isDefault /\ row[u] # None /\ cache[u].max = row[u].max
        BY <3>2, <3>4 DEF Effective, FilledOnMiss
      <3> QED
        BY <2>2, <3>1, <3>3, <3>4 DEF Follows
    <2>3. unsynced = {} => cacheDflt = DefaultQuota
      BY <2>1, UsersAssumption
    <2> QED
      BY <2>2, <2>3
  <1> QED
    BY <1>1, AccountsInvariant, PTL
=============================================================================
