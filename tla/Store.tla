------------------------------- MODULE Store -------------------------------
(***************************************************************************)
(* The mail store: mailboxes, message rows and reference counts in the     *)
(* SQL database, message bodies in files beside it.  The database is       *)
(* transactional and the files are not, so that every operation that       *)
(* writes both has to choose an order, and a failure or a crash between    *)
(* the two leaves what the order dictates.                                 *)
(*                                                                         *)
(* SQLite admits one writing transaction at a time: tx is that transaction,*)
(* tx.db the database as it leaves it.  A body is its key.  Keys are random*)
(* (randomKey) and never reused; neither are the numbers of mailboxes      *)
(* (AUTOINCREMENT).  A user is its number too: a name registered again is    *)
(* another user.                                                           *)
(***************************************************************************)
EXTENDS Integers, Sequences, FiniteSets

CONSTANTS
    Users,      \* the accounts
    Folders,    \* names of mailboxes other than INBOX
    Junk,       \* the folder with the SPECIAL-USE attribute of quarantine
    OwnCopies,  \* whether COPY may name the mailbox it copies from
    MaxMbox,    \* bound on the mailboxes ever created
    MaxKey,     \* bound on the bodies ever stored
    MaxUid,     \* bound on the UIDs of a mailbox
    MaxOps,     \* bound on the operations begun
    MaxFaults   \* bound on failed statements and crashes

ASSUME JunkAssumption == Junk \in Folders
ASSUME UsersAssumption == "none" \notin Users
ASSUME BoundsAssumption == {MaxMbox, MaxKey, MaxUid, MaxOps, MaxFaults} \subseteq Nat

VARIABLES
    db,      \* the committed database
    blobs,   \* keys of the files of the blob store
    tx,      \* the writing transaction
    dlv,     \* a delivery: its recipients' mailboxes, before and in its transaction
    read,    \* a FETCH or SEARCH that has read its row and not yet the body
    ghost,   \* what the properties remember of the past
    count    \* the counters the bounds are about

vars == <<db, blobs, tx, dlv, read, ghost, count>>

Mbox == 1..MaxMbox
Key == 1..MaxKey
Name == Folders \cup {"INBOX"}
NoMbox == [u |-> "none", n |-> "none", next |-> 1, cnt |-> 0]
NoDlv == [st |-> "none", to |-> <<>>, i |-> 1]
NoRead == [st |-> "none", row |-> [m |-> 0, uid |-> 0, k |-> 0, del |-> FALSE]]

(* initSchema, and no user.                                                *)
initSchema ==
    [mb |-> [m \in Mbox |-> NoMbox],      \* mboxes
     rows |-> {},                         \* msgs
     refs |-> [k \in Key |-> -1],         \* extKeys; -1 is no row
     own |-> [k \in Key |-> "none"],      \* extKeys.uid
     inbox |-> [u \in Users |-> 0]]       \* users.inboxId; 0 is no user
                                          \* yet, -1 a deleted one

NoTx == [op |-> "none", db |-> initSchema, kill |-> {}, gone |-> {}, made |-> {},
         ok |-> TRUE]
Exists(u) == db.inbox[u] > 0

Init ==
    /\ db = initSchema
    /\ blobs = {}
    /\ tx = NoTx
    /\ dlv = NoDlv
    /\ read = NoRead
    /\ ghost = [early |-> {}, orphan |-> {}]
    /\ count = [mbox |-> 0, key |-> 0, ops |-> 0, faults |-> 0]

-----------------------------------------------------------------------------
(* Statements.  d is the database inside a transaction.                    *)

Rows(d, m) == {r \in d.rows : r.m = m}
Keys(rows) == {r.k : r \in rows}
mboxId(d, u, n) == {m \in Mbox : d.mb[m].u = u /\ d.mb[m].n = n}
AddRefs(d, ks, u, n) ==
    [d EXCEPT !.refs = [k \in Key |-> IF k \in ks /\ d.own[k] = u
                                      THEN @[k] + n ELSE @[k]]]

createMbox(d, m, u, n) ==
    [d EXCEPT !.mb[m] = [u |-> u, n |-> n, next |-> 1, cnt |-> 0]]

(* Variant: however many messages, UIDNEXT grows by one.                   *)
incrementMsgCountersOnce(d, m, n) ==
    [d EXCEPT !.mb[m].next = @ + 1, !.mb[m].cnt = @ + n]

incrementMsgCounters(d, m, n) ==
    [d EXCEPT !.mb[m].next = @ + n, !.mb[m].cnt = @ + n]

(* The UID is the next one of the mailbox; the row starts with one reference *)
(* to its body.                                                            *)
addMsg(d, m, k, del) ==
    [incrementMsgCounters(d, m, 1) EXCEPT
        !.rows = @ \cup {[m |-> m, uid |-> d.mb[m].next, k |-> k, del |-> del]},
        !.refs[k] = 1,
        !.own[k] = d.mb[m].u]

(* copyMsgsUid numbers the copies from UIDNEXT in the order of their UIDs  *)
(* and copies the flags; the reference of a body copied twice at once      *)
(* grows by one (the statement selects by key).                            *)
copyRows(d, rows, dest) ==
    {[m |-> dest,
      uid |-> d.mb[dest].next + Cardinality({s \in rows : s.uid < r.uid}),
      k |-> r.k, del |-> r.del] : r \in rows}

copyMessages(d, rows, dest, u) ==
    LET n == Cardinality(rows)
    IN  AddRefs([incrementMsgCounters(d, dest, n) EXCEPT
                    !.rows = @ \cup copyRows(d, rows, dest)],
                Keys(rows), u, 1)

moveMessages(d, rows, src, dest) ==
    LET n == Cardinality(rows)
        e == [d EXCEPT !.rows = (@ \ rows) \cup copyRows(d, rows, dest),
                       !.mb[src].cnt = @ - n]
    IN  incrementMsgCounters(e, dest, n)

(* Deleting a row of extKeys that a message still refers to fails (ON       *)
(* DELETE RESTRICT), and the transaction with it.                          *)
zeroRefUser(d, u) == {k \in Key : d.refs[k] = 0 /\ d.own[k] = u}
deleteZeroRef(d, u) ==
    [d EXCEPT !.refs = [k \in Key |-> IF k \in zeroRefUser(d, u) THEN -1 ELSE @[k]]]
Restricted(d, u) == zeroRefUser(d, u) \cap Keys(d.rows) # {}

-----------------------------------------------------------------------------
(* Transactions.                                                           *)

Idle == tx.op = "none"

(* kill: bodies to delete; made: bodies written for rows of the transaction *)
Open(op, d, kill, made, ok) ==
    /\ tx' = [op |-> op, db |-> d, kill |-> kill, gone |-> {}, made |-> made, ok |-> ok]
    /\ count' = [count EXCEPT !.ops = @ + 1]
    /\ UNCHANGED <<db, read, ghost>>

Begin(op, d, kill, ok) ==
    /\ Idle
    /\ count.ops < MaxOps
    /\ Open(op, d, kill, {}, ok)
    /\ UNCHANGED <<blobs, dlv>>

(* Variant: Expunge, too, deletes bodies before its commit.                *)
DeletesFirstExpunge == {"DeleteMailbox", "DeleteUser", "Expunge"}

(* The operations that delete the bodies while their transaction is open.  *)
DeletesFirst == {"DeleteMailbox", "DeleteUser"}
(* The operations that delete them once it is committed.                   *)
DeletesLast == {"Expunge"}

(* FSStore.Delete removes the files one by one.                            *)
Delete(k) ==
    /\ blobs' = blobs \ {k}
    /\ tx' = [tx EXCEPT !.kill = @ \ {k}, !.gone = @ \cup {k}]
    /\ UNCHANGED <<db, dlv, read, ghost, count>>

DeleteFirst ==
    /\ tx.op \in DeletesFirst
    /\ \E k \in tx.kill : Delete(k)

TxCommit ==
    /\ tx.op \notin {"none", "deliver", "cleanup"}
    /\ tx.ok
    /\ tx.op \in DeletesFirst => tx.kill = {}
    /\ db' = tx.db
    /\ tx' = IF tx.op \in DeletesLast /\ tx.kill # {}
             THEN [NoTx EXCEPT !.op = "cleanup", !.kill = tx.kill] ELSE NoTx
    /\ UNCHANGED <<blobs, dlv, read, ghost, count>>

DeleteAfter ==
    /\ tx.op = "cleanup"
    /\ \E k \in tx.kill : Delete(k)

CleanupDone ==
    /\ tx.op = "cleanup"
    /\ tx.kill = {}
    /\ tx' = NoTx
    /\ UNCHANGED <<db, blobs, dlv, read, ghost, count>>

(* Bodies that DeleteMailbox or DeleteUser removed in a transaction that    *)
(* can still fail.                                                         *)
Risked == IF tx.op \in {"DeleteMailbox", "DeleteUser"} THEN tx.gone ELSE {}

(* A statement, the commit or a deletion fails, or the transaction had to  *)
(* (ok is FALSE): Rollback.  CreateMessage deletes the body it wrote,      *)
(* unless the Sync of the body was what failed.                            *)
TxFail ==
    /\ tx.op \notin {"none", "deliver"}
    /\ tx.ok => count.faults < MaxFaults
    /\ tx.op \in DeletesFirst /\ ~tx.ok => tx.kill = {}
    /\ count' = [count EXCEPT !.faults = @ + (IF tx.ok THEN 1 ELSE 0)]
    /\ \E kept \in {{}, tx.made} :
         /\ blobs' = blobs \ (tx.made \ kept)
         /\ ghost' = [ghost EXCEPT
                        !.orphan = @ \cup kept \cup (IF tx.op = "cleanup" THEN tx.kill ELSE {}),
                        !.early = @ \cup Risked]
    /\ tx' = NoTx
    /\ UNCHANGED <<db, dlv, read>>

-----------------------------------------------------------------------------
(* Accounts.                                                               *)

createUser(u) ==
    /\ db.inbox[u] = 0
    /\ count.mbox < MaxMbox
    /\ Idle /\ count.ops < MaxOps
    /\ LET m == count.mbox + 1
       IN  tx' = [NoTx EXCEPT !.op = "CreateUser",
                    !.db = [createMbox(db, m, u, "INBOX") EXCEPT !.inbox[u] = m]]
    /\ count' = [count EXCEPT !.ops = @ + 1, !.mbox = @ + 1]
    /\ UNCHANGED <<db, blobs, dlv, read, ghost>>

(* ON DELETE CASCADE takes the mailboxes and the messages along.  The rows *)
(* of extKeys stay: deleteUserRef looks the user up by name after the user *)
(* is deleted.                                                             *)
deleteUserRef(d, u) == d

DeleteUser(u) ==
    /\ Exists(u)
    /\ LET mine == {m \in Mbox : db.mb[m].u = u}
           d == [db EXCEPT !.inbox[u] = -1,
                           !.mb = [m \in Mbox |-> IF m \in mine THEN NoMbox ELSE @[m]],
                           !.rows = {r \in @ : r.m \notin mine}]
       IN  Begin("DeleteUser", deleteUserRef(d, u),
                 {k \in Key : db.own[k] = u /\ db.refs[k] # -1}, TRUE)

-----------------------------------------------------------------------------
(* Mailboxes.                                                              *)

(* CreateMailbox and CreateMailboxSpecial; UNIQUE(uid, name).              *)
CreateMailbox(u, n) ==
    /\ Exists(u)
    /\ mboxId(db, u, n) = {}
    /\ count.mbox < MaxMbox
    /\ Idle /\ count.ops < MaxOps
    /\ tx' = [NoTx EXCEPT !.op = "CreateMailbox",
                          !.db = createMbox(db, count.mbox + 1, u, n)]
    /\ count' = [count EXCEPT !.ops = @ + 1, !.mbox = @ + 1]
    /\ UNCHANGED <<db, blobs, dlv, read, ghost>>

(* decreaseRefForMbox finds the mailbox by its name alone: the first one of *)
(* that name, of whichever user.                                           *)
decreaseRefForMbox(d, u, n) ==
    LET named == {m \in Mbox : d.mb[m].n = n}
    IN  IF named = {} THEN d
        ELSE LET first == CHOOSE m \in named : \A o \in named : m <= o
             IN  AddRefs(d, Keys(Rows(d, first)), u, -1)

DeleteMailbox(u, n) ==
    /\ Exists(u)
    /\ n # "INBOX"
    /\ LET d == decreaseRefForMbox(db, u, n)
           ms == mboxId(db, u, n)
           e == [d EXCEPT !.mb = [m \in Mbox |-> IF m \in ms THEN NoMbox ELSE @[m]],
                          !.rows = {r \in @ : r.m \notin ms}]
       IN  Begin("DeleteMailbox", deleteZeroRef(e, u), zeroRefUser(d, u),
                 ms # {} /\ ~Restricted(e, u))

(* Renaming INBOX makes a new INBOX; users.inboxId follows.                *)
RenameMailbox(u, n, new) ==
    /\ Exists(u)
    /\ n # new /\ new # "INBOX"
    /\ \E m \in mboxId(db, u, n) :
         LET d == [db EXCEPT !.mb[m].n = new]
             i == count.mbox + 1
         IN  /\ n = "INBOX" => i <= MaxMbox
             /\ Idle /\ count.ops < MaxOps
             /\ tx' = [NoTx EXCEPT !.op = "RenameMailbox",
                          !.ok = mboxId(db, u, new) = {},
                          !.db = IF n # "INBOX" THEN d
                                 ELSE [createMbox(d, i, u, n) EXCEPT !.inbox[u] = i]]
             /\ count' = [count EXCEPT !.ops = @ + 1,
                                       !.mbox = IF n = "INBOX" THEN i ELSE @]
             /\ UNCHANGED <<db, blobs, dlv, read, ghost>>

-----------------------------------------------------------------------------
(* Messages.  A session's set of UIDs is any set: it may name messages that *)
(* are gone.  The tools of the command line open the mailbox without a     *)
(* connection, with an empty list of UIDs, and ResolveSeq then finds no    *)
(* message for their DelMessages, MoveMessages and flags.                  *)

(* APPEND, and msgs add: the body is written inside the transaction.       *)
CreateMessage(m, del) ==
    /\ db.mb[m] # NoMbox
    /\ db.mb[m].next <= MaxUid
    /\ count.key < MaxKey
    /\ Idle /\ count.ops < MaxOps
    /\ LET k == count.key + 1
       IN  /\ tx' = [NoTx EXCEPT !.op = "CreateMessage", !.made = {k},
                                 !.db = addMsg(db, m, k, del)]
           /\ blobs' = blobs \cup {k}
           /\ count' = [count EXCEPT !.ops = @ + 1, !.key = k]
    /\ UNCHANGED <<db, dlv, read, ghost>>

(* STORE: \Deleted is the flag that matters here.                          *)
UpdateMessagesFlags(m, uids, del) ==
    LET rows == {r \in Rows(db, m) : r.uid \in uids /\ r.del # del}
    IN  /\ rows # {}
        /\ Begin("UpdateMessagesFlags",
                 [db EXCEPT !.rows = (@ \ rows) \cup {[r EXCEPT !.del = del] : r \in rows}],
                 {}, TRUE)

CopyMessages(m, uids, dest) ==
    LET rows == {r \in Rows(db, m) : r.uid \in uids}
        u == db.mb[m].u
    IN  /\ rows # {}
        /\ db.mb[dest].u = u
        /\ m # dest \/ OwnCopies
        /\ db.mb[dest].next + Cardinality(rows) <= MaxUid + 1
        /\ Begin("CopyMessages", copyMessages(db, rows, dest, u), {}, TRUE)

MoveMessages(m, uids, dest) ==
    LET rows == {r \in Rows(db, m) : r.uid \in uids}
    IN  /\ rows # {}
        /\ db.mb[dest].u = db.mb[m].u
        /\ db.mb[dest].next + Cardinality(rows) <= MaxUid + 1
        /\ Begin("MoveMessages", moveMessages(db, rows, m, dest), {}, TRUE)

(* Variant: only the rows that stay are looked at.                         *)
zeroRefUnmarked(d, m) ==
    {k \in Keys({r \in Rows(d, m) : ~r.del}) : d.refs[k] = 0}

(* decreaseRefForDeleted, then the bodies of this mailbox without reference*)
expungeExternal(d, m, dead) == AddRefs(d, Keys(dead), d.mb[m].u, -1)
zeroRef(d, m) == {k \in Keys(Rows(d, m)) : d.refs[k] = 0}

ExpungeTx(m) ==
    LET dead == {r \in Rows(db, m) : r.del}
        d == expungeExternal(db, m, dead)
        e == [d EXCEPT !.rows = @ \ dead, !.mb[m].cnt = @ - Cardinality(dead)]
    IN  [db |-> deleteZeroRef(e, db.mb[m].u), keys |-> zeroRef(d, m),
         ok |-> ~Restricted(e, db.mb[m].u)]

Expunge(m) ==
    /\ {r \in Rows(db, m) : r.del} # {}
    /\ LET t == ExpungeTx(m) IN Begin("Expunge", t.db, t.keys, t.ok)

-----------------------------------------------------------------------------
(* Deliveries.  AddRcpt reads the user and the INBOX before the transaction *)
(* of the body; the mailbox may be renamed or deleted in between.          *)

AddRcpt(u) ==
    /\ dlv.st \in {"none", "rcpt"}
    /\ Exists(u)
    /\ Len(dlv.to) < 2
    /\ dlv.st = "none" => count.ops < MaxOps
    /\ dlv' = [dlv EXCEPT !.st = "rcpt", !.to = Append(@, [u |-> u, m |-> db.inbox[u]])]
    /\ count' = [count EXCEPT !.ops = @ + (IF dlv.st = "none" THEN 1 ELSE 0)]
    /\ UNCHANGED <<db, blobs, tx, read, ghost>>

(* SpecialMailbox: a quarantined message goes to the Junk folder of each   *)
(* recipient, which is made where it is missing, in a transaction of its   *)
(* own.                                                                    *)
JunkOf(u) == IF mboxId(db, u, Junk) = {} THEN count.mbox + 1
             ELSE CHOOSE m \in mboxId(db, u, Junk) : TRUE

SpecialMailbox ==
    /\ dlv.st \in {"rcpt", "junk"}
    /\ dlv.i <= Len(dlv.to)
    /\ LET u == dlv.to[dlv.i].u
           m == JunkOf(u)
       IN  /\ dlv' = [dlv EXCEPT !.st = "junk", !.to[dlv.i].m = m, !.i = @ + 1]
           /\ IF m <= count.mbox THEN UNCHANGED <<db, count>>
              ELSE /\ Idle /\ Exists(u) /\ m <= MaxMbox
                   /\ db' = createMbox(db, m, u, Junk)
                   /\ count' = [count EXCEPT !.mbox = m]
    /\ UNCHANGED <<blobs, tx, read, ghost>>

BodyParsed ==
    /\ dlv.st = "rcpt" \/ (dlv.st = "junk" /\ dlv.i > Len(dlv.to))
    /\ Idle
    /\ tx' = [NoTx EXCEPT !.op = "deliver", !.db = db]
    /\ dlv' = [dlv EXCEPT !.st = "body", !.i = 1]
    /\ UNCHANGED <<db, blobs, read, ghost, count>>

(* One recipient: the body is written, then its key and its row.           *)
mboxDelivery ==
    /\ tx.op = "deliver" /\ tx.ok
    /\ dlv.i <= Len(dlv.to)
    /\ LET m == dlv.to[dlv.i].m
           k == count.key + 1
       IN  /\ tx.db.mb[m] # NoMbox
           /\ tx.db.mb[m].next <= MaxUid
           /\ k <= MaxKey
           /\ tx' = [tx EXCEPT !.db = addMsg(@, m, k, FALSE), !.made = @ \cup {k}]
           /\ blobs' = blobs \cup {k}
           /\ count' = [count EXCEPT !.key = k]
    /\ dlv' = [dlv EXCEPT !.i = @ + 1]
    /\ UNCHANGED <<db, read, ghost>>

(* The mailbox is gone, or a statement fails: the body is deleted again    *)
(* (unless it was its Sync that failed); the ones of the recipients before *)
(* it are not.                                                             *)
mboxDeliveryFails ==
    /\ tx.op = "deliver" /\ tx.ok
    /\ dlv.i <= Len(dlv.to)
    /\ LET there == tx.db.mb[dlv.to[dlv.i].m] # NoMbox
           k == count.key + 1
       IN  /\ there => count.faults < MaxFaults
           /\ \E kept \in (IF there /\ k <= MaxKey THEN {{}, {k}} ELSE {{}}) :
                /\ blobs' = blobs \cup kept
                /\ ghost' = [ghost EXCEPT !.orphan = @ \cup kept]
                /\ count' = [count EXCEPT !.faults = @ + (IF there THEN 1 ELSE 0),
                                          !.key = @ + Cardinality(kept)]
    /\ tx' = [tx EXCEPT !.ok = FALSE]
    /\ UNCHANGED <<db, dlv, read>>

Commit ==
    /\ tx.op = "deliver" /\ tx.ok
    /\ dlv.i > Len(dlv.to)
    /\ db' = tx.db
    /\ tx' = NoTx
    /\ dlv' = NoDlv
    /\ UNCHANGED <<blobs, read, ghost, count>>

(* Abort rolls back.  It deletes the body of extKey, which nothing sets.   *)
Abort ==
    /\ dlv.st # "none"
    /\ tx.op = "deliver" /\ tx.ok => count.faults < MaxFaults
    /\ count' = [count EXCEPT !.faults = @ + (IF tx.op = "deliver" /\ tx.ok THEN 1 ELSE 0)]
    /\ IF tx.op = "deliver"
       THEN tx' = NoTx /\ ghost' = [ghost EXCEPT !.orphan = @ \cup tx.made]
       ELSE UNCHANGED <<tx, ghost>>
    /\ dlv' = NoDlv
    /\ UNCHANGED <<db, blobs, read>>

-----------------------------------------------------------------------------
(* Readers.  The body is opened after its row was read; a reader meets     *)
(* whatever has become of the file by then, and leaves the message out     *)
(* when it is gone.                                                        *)

ListMessages(m) ==
    /\ read.st = "none"
    /\ \E r \in Rows(db, m) : read' = [st |-> "row", row |-> r]
    /\ UNCHANGED <<db, blobs, tx, dlv, ghost, count>>

openBody ==
    /\ read.st = "row"
    /\ read' = [read EXCEPT !.st = IF read.row.k \in blobs THEN "body" ELSE "skipped"]
    /\ UNCHANGED <<db, blobs, tx, dlv, ghost, count>>

ReadDone ==
    /\ read.st \in {"body", "skipped"}
    /\ read' = NoRead
    /\ UNCHANGED <<db, blobs, tx, dlv, ghost, count>>

-----------------------------------------------------------------------------
(* Maintenance, and the loss of the process.                               *)

(* PurgeIMAPMsgs, PurgeAllIMAPMsgs, PurgeReadIMAPMsgs, PruneUnreadIMAPMsgs *)
(* and PruneMessages delete rows and nothing else.                         *)
PruneMessages ==
    /\ Idle /\ count.ops < MaxOps
    /\ \E dead \in SUBSET db.rows :
         /\ dead # {}
         /\ db' = [db EXCEPT !.rows = @ \ dead]
    /\ count' = [count EXCEPT !.ops = @ + 1]
    /\ UNCHANGED <<blobs, tx, dlv, read, ghost>>

(* The admin API removes the files of the bodies, all or the old ones.     *)
purgeBlobs ==
    /\ count.ops < MaxOps
    /\ \E dead \in SUBSET blobs :
         /\ dead # {}
         /\ blobs' = blobs \ dead
         /\ ghost' = [ghost EXCEPT !.early = @ \cup dead]
    /\ count' = [count EXCEPT !.ops = @ + 1]
    /\ UNCHANGED <<db, tx, dlv, read>>

Crash ==
    /\ count.faults < MaxFaults
    /\ ~Idle \/ dlv.st # "none" \/ read.st # "none"
    /\ count' = [count EXCEPT !.faults = @ + 1]
    /\ ghost' = [early |-> ghost.early \cup Risked,
                 orphan |-> ghost.orphan \cup tx.made
                              \cup (IF tx.op = "cleanup" THEN tx.kill ELSE {})]
    /\ tx' = NoTx
    /\ dlv' = NoDlv
    /\ read' = NoRead
    /\ UNCHANGED <<db, blobs>>

-----------------------------------------------------------------------------
Next ==
    \/ \E u \in Users : createUser(u) \/ DeleteUser(u) \/ AddRcpt(u)
    \/ \E u \in Users, n \in Folders : CreateMailbox(u, n) \/ DeleteMailbox(u, n)
    \/ \E u \in Users, n \in Name, new \in Folders : RenameMailbox(u, n, new)
    \/ \E m \in Mbox, del \in BOOLEAN : CreateMessage(m, del)
    \/ \E m \in Mbox, uids \in SUBSET (1..MaxUid) :
         \/ \E del \in BOOLEAN : UpdateMessagesFlags(m, uids, del)
         \/ \E dest \in Mbox : CopyMessages(m, uids, dest) \/ MoveMessages(m, uids, dest)
    \/ \E m \in Mbox : Expunge(m) \/ ListMessages(m)
    \/ openBody \/ ReadDone
    \/ DeleteFirst \/ TxCommit \/ DeleteAfter \/ CleanupDone \/ TxFail
    \/ SpecialMailbox \/ BodyParsed \/ mboxDelivery \/ mboxDeliveryFails \/ Commit \/ Abort
    \/ PruneMessages \/ purgeBlobs \/ Crash

Spec == Init /\ [][Next]_vars

-----------------------------------------------------------------------------
(* Properties.                                                             *)

(* Bodies an operation removed while its transaction could still fail, or  *)
(* that the administrator had removed.                                     *)
Forfeited == ghost.early \cup Risked

(* Every message row has its body, whatever was copied, moved, expunged or *)
(* lost in a crash, and a reader that finds no file is reading a message   *)
(* that is gone: Expunge deletes bodies after its commit and appends write *)
(* them before theirs.  The exception is named: DeleteMailbox and          *)
(* DeleteUser delete bodies first, and a failure then leaves rows without. *)
BodyKept ==
    /\ Keys(db.rows) \subseteq blobs \cup Forfeited
    /\ read.st = "skipped" =>
         \/ read.row.k \in Forfeited
         \/ \A r \in db.rows : r.m # read.row.m \/ r.uid # read.row.uid

(* A file no row of extKeys speaks of can never be found again.  Only a    *)
(* crash, an aborted delivery or a failed deletion leaves one.             *)
BlobsAccounted ==
    \A k \in blobs :
        db.refs[k] # -1 \/ k \in tx.made \cup tx.kill \cup ghost.orphan

(* A UID never names two messages: what a step adds to a mailbox is at or  *)
(* above the UIDNEXT the clients were told, and UIDNEXT never falls.       *)
UidsFresh ==
    [][\A m \in Mbox : db.mb[m] # NoMbox /\ db'.mb[m] # NoMbox =>
         /\ db'.mb[m].next >= db.mb[m].next
         /\ \A r \in Rows(db', m) :
              \/ \E o \in Rows(db, m) : o.uid = r.uid /\ o.k = r.k
              \/ r.uid >= db.mb[m].next /\ r.uid < db'.mb[m].next]_vars
=============================================================================
