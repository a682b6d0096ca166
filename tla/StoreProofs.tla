---------------------------- MODULE StoreProofs ----------------------------
(***************************************************************************)
(* The promises of the mail store for any number of users, mailboxes,      *)
(* messages, operations and faults: BodyKept, BlobsAccounted and UidsFresh.*)
(*                                                                         *)
(* All three are about what a commit makes of the database, and a commit   *)
(* installs what was computed when the transaction began, while readers,   *)
(* deliveries and the administrator went on.  The invariant therefore says *)
(* of an open transaction how the database it will leave (tx.db) relates   *)
(* to the committed one and to the files.                                  *)
(*                                                                         *)
(* The last section is about the connections that have a mailbox of the    *)
(* store selected (module Views): IdleAwake.                               *)
(***************************************************************************)
EXTENDS Store, TLAPS, FiniteSetTheorems

Owner == Users \cup {"none"}
MboxRec == [u : Owner, n : Name \cup {"none"}, next : Nat \ {0}, cnt : Int]
Row == [m : Mbox, uid : Nat \ {0}, k : Key, del : BOOLEAN]
DB == [mb : [Mbox -> MboxRec], rows : SUBSET Row, refs : [Key -> Int],
       own : [Key -> Owner], inbox : [Users -> Mbox \cup {0, -1}]]

(* A sound database, in which cm mailboxes and ck bodies were ever made:   *)
(* a body with a row in extKeys has a reference, the body of a message has *)
(* such a row and belongs to the user of its mailbox, and a UID below      *)
(* UIDNEXT names one body.                                                 *)
Good(d, cm, ck) ==
    /\ d \in DB /\ IsFiniteSet(d.rows)
    /\ \A k \in Key : d.refs[k] = -1 \/ d.refs[k] >= 1
    /\ \A r \in d.rows : /\ d.refs[r.k] >= 1 /\ d.own[r.k] = d.mb[r.m].u
                         /\ r.uid < d.mb[r.m].next /\ r.k <= ck
    /\ \A r, s \in d.rows : r.m = s.m /\ r.uid = s.uid => r.k = s.k
    /\ \A m \in Mbox : m > cm \/ d.mb[m].u = "none" => d.mb[m] = NoMbox

(* e may replace d: UIDNEXT of a mailbox that stays does not fall, and a   *)
(* message is one of d or has a UID from the one UIDNEXT to the other.     *)
Extends(d, e) ==
    /\ \A m \in Mbox : d.mb[m] # NoMbox =>
         e.mb[m] = NoMbox \/ e.mb[m].next >= d.mb[m].next
    /\ \A r \in e.rows :
         \/ \E o \in d.rows : o.m = r.m /\ o.uid = r.uid /\ o.k = r.k
         \/ r.uid >= d.mb[r.m].next /\ r.uid < e.mb[r.m].next

(* A row that was read once names its body for good, or its mailbox is gone*)
Readable(d, row) ==
    /\ \A r \in d.rows : r.m = row.m /\ r.uid = row.uid => r.k = row.k
    /\ d.mb[row.m] = NoMbox \/ row.uid < d.mb[row.m].next

(* e is what a transaction makes of d: sound when cm mailboxes and ck      *)
(* bodies were made; it takes from extKeys no body that is not in kill,    *)
(* has the bodies it made there, and keeps no message whose body it is to  *)
(* delete; old is the number of mailboxes before it.                       *)
Fits(d, e, kill, made, old, cm, ck) ==
    /\ Good(e, cm, ck)
    /\ Extends(d, e)
    /\ \A k \in Key : d.refs[k] # -1 => e.refs[k] # -1 \/ k \in kill
    /\ \A k \in made : e.refs[k] # -1
    /\ Keys(e.rows) \cap kill = {}
    /\ Keys(e.rows) \subseteq Keys(d.rows) \cup made
    /\ \A m \in Mbox : d.mb[m] = NoMbox => e.mb[m] = NoMbox \/ m > old

(* The transactions that delete bodies.                                    *)
Killers == {"DeleteMailbox", "DeleteUser", "Expunge", "cleanup"}

TxFields == {"op", "db", "kill", "gone", "made", "ok"}
DBFields == {"mb", "rows", "refs", "own", "inbox"}
DBShape(d) == d = [f \in DBFields |-> d[f]]
MsgRow(d, m, k, del) == [m |-> m, uid |-> d.mb[m].next, k |-> k, del |-> del]

Live == tx.op \notin {"none", "cleanup"} /\ tx.ok

(* Bodies and transactions.                                                *)
TxShape ==
    /\ tx = [f \in TxFields |-> tx[f]]
    /\ tx.kill \subseteq Key /\ tx.gone \subseteq Key /\ tx.made \subseteq Key
    /\ tx.op \notin Killers => tx.kill = {} /\ tx.gone = {}
    /\ tx.op = "Expunge" => tx.gone = {}
    /\ tx.op \in {"none", "cleanup"} => tx.made = {}
    /\ tx.op = "cleanup" => tx.kill \cap Keys(db.rows) = {}
    /\ tx.op # "cleanup" => \A k \in tx.kill : db.refs[k] # -1
    /\ tx.made \cap Keys(db.rows) = {}
    /\ tx.gone \cap blobs = {}

TxGood == Live =>
    /\ Good(tx.db, count.mbox, count.key)
    /\ Extends(db, tx.db)
    /\ \A k \in Key : db.refs[k] # -1 => tx.db.refs[k] # -1 \/ k \in tx.kill \cup tx.gone
    /\ \A k \in tx.made : tx.db.refs[k] # -1
    /\ Keys(tx.db.rows) \cap (tx.kill \cup tx.gone) = {}
    /\ Keys(tx.db.rows) \subseteq blobs \cup ghost.early

Reading == read.st # "none" =>
    /\ read.row \in Row /\ read.row.m <= count.mbox
    /\ Readable(db, read.row)
    /\ Live => /\ Readable(tx.db, read.row)
               /\ db.mb[read.row.m] = NoMbox => tx.db.mb[read.row.m] = NoMbox

CountType == [mbox : 0 .. MaxMbox, key : 0 .. MaxKey, ops : Nat, faults : Nat]
DlvType == [st : {"none", "rcpt", "junk", "body"}, to : Seq([u : Users, m : Mbox]), i : Nat \ {0}]

StoreShape ==
    /\ Good(db, count.mbox, count.key)
    /\ blobs \subseteq Key
    /\ count \in CountType
    /\ dlv \in DlvType
    /\ read = [f \in {"st", "row"} |-> read[f]]
    /\ ghost = [f \in {"early", "orphan"} |-> ghost[f]]

IInv == StoreShape /\ TxShape /\ TxGood /\ Reading /\ BodyKept /\ BlobsAccounted

-----------------------------------------------------------------------------
(* Records.                                                                *)

LEMMA DBRecord ==
    ASSUME NEW d
    PROVE  d \in DB <=>
             /\ DBShape(d)
             /\ d.mb \in [Mbox -> MboxRec] /\ d.rows \in SUBSET Row /\ d.refs \in [Key -> Int]
             /\ d.own \in [Key -> Owner] /\ d.inbox \in [Users -> Mbox \cup {0, -1}]
  BY DEF DB, DBShape, DBFields

MboxFields == {"u", "n", "next", "cnt"}
RowFields == {"m", "uid", "k", "del"}
RowShape(r) == r = [f \in RowFields |-> r[f]]

LEMMA MboxRecord ==
    ASSUME NEW x
    PROVE  x \in MboxRec <=>
             /\ x = [f \in MboxFields |-> x[f]]
             /\ x.u \in Owner /\ x.n \in Name \cup {"none"} /\ x.next \in Nat \ {0} /\ x.cnt \in Int
  BY DEF MboxRec, MboxFields

LEMMA RowRecord ==
    ASSUME NEW r
    PROVE  r \in Row <=>
             /\ RowShape(r)
             /\ r.m \in Mbox /\ r.uid \in Nat \ {0} /\ r.k \in Key /\ r.del \in BOOLEAN
  <1>1. r \in Row => /\ RowShape(r)
                     /\ r.m \in Mbox /\ r.uid \in Nat \ {0} /\ r.k \in Key /\ r.del \in BOOLEAN
    BY DEF Row, RowShape, RowFields
  <1>2. ASSUME RowShape(r),
               r.m \in Mbox, r.uid \in Nat \ {0}, r.k \in Key, r.del \in BOOLEAN
        PROVE  r \in Row
    BY <1>2, Zenon DEF Row, RowShape, RowFields
  <1> QED  BY <1>1, <1>2

LEMMA NoMboxRecord == NoMbox \in MboxRec /\ NoMbox.next = 1
  <1>1. /\ NoMbox = [f \in MboxFields |-> NoMbox[f]]
        /\ NoMbox.u = "none" /\ NoMbox.n = "none" /\ NoMbox.next = 1 /\ NoMbox.cnt = 0
    BY DEF NoMbox, MboxFields
  <1> QED  BY <1>1, MboxRecord DEF Owner

-----------------------------------------------------------------------------
(* Sound databases.                                                        *)

LEMMA GoodFacts ==
    ASSUME NEW d, NEW cm, NEW ck, Good(d, cm, ck)
    PROVE  /\ DBShape(d)
           /\ d.mb \in [Mbox -> MboxRec] /\ d.rows \subseteq Row /\ d.refs \in [Key -> Int]
           /\ d.own \in [Key -> Owner] /\ d.inbox \in [Users -> Mbox \cup {0, -1}]
           /\ \A m \in Mbox : d.mb[m].next \in Nat \ {0} /\ d.mb[m].u \in Owner
                              /\ d.mb[m].cnt \in Int /\ d.mb[m] = [f \in MboxFields |-> d.mb[m][f]]
                              /\ d.mb[m].n \in Name \cup {"none"}
           /\ \A r \in d.rows : /\ r.m \in Mbox /\ r.uid \in Nat \ {0} /\ r.k \in Key
                                /\ r.del \in BOOLEAN /\ RowShape(r)
                                /\ d.mb[r.m] # NoMbox
  <1>1. d \in DB  BY DEF Good
  <1>2. /\ DBShape(d)
        /\ d.mb \in [Mbox -> MboxRec] /\ d.rows \subseteq Row /\ d.refs \in [Key -> Int]
        /\ d.own \in [Key -> Owner] /\ d.inbox \in [Users -> Mbox \cup {0, -1}]
    BY <1>1, DBRecord
  <1>3. ASSUME NEW m \in Mbox
        PROVE  d.mb[m].next \in Nat \ {0} /\ d.mb[m].u \in Owner
               /\ d.mb[m].cnt \in Int /\ d.mb[m] = [f \in MboxFields |-> d.mb[m][f]]
               /\ d.mb[m].n \in Name \cup {"none"}
    <2>1. d.mb[m] \in MboxRec  BY <1>2
    <2> QED  BY <2>1, MboxRecord
  <1>4. ASSUME NEW r \in d.rows
        PROVE  /\ r.m \in Mbox /\ r.uid \in Nat \ {0} /\ r.k \in Key
               /\ r.del \in BOOLEAN /\ RowShape(r)
               /\ d.mb[r.m] # NoMbox
    <2>1. r \in Row  BY <1>2
    <2>2. /\ r.m \in Mbox /\ r.uid \in Nat \ {0} /\ r.k \in Key
          /\ r.del \in BOOLEAN /\ RowShape(r)
      BY <2>1, RowRecord
    <2>3. r.uid < d.mb[r.m].next  BY DEF Good
    <2>4. d.mb[r.m] # NoMbox  BY <2>2, <2>3, NoMboxRecord
    <2> QED  BY <2>2, <2>4
  <1> QED  BY <1>2, <1>3, <1>4

(* How to show a database sound: its fields, one by one.                   *)
LEMMA GoodIntro ==
    ASSUME NEW d, NEW cm, NEW ck,
           DBShape(d),
           d.mb \in [Mbox -> MboxRec], d.rows \subseteq Row, d.refs \in [Key -> Int],
           d.own \in [Key -> Owner], d.inbox \in [Users -> Mbox \cup {0, -1}],
           IsFiniteSet(d.rows),
           \A k \in Key : d.refs[k] = -1 \/ d.refs[k] >= 1,
           \A r \in d.rows : /\ d.refs[r.k] >= 1 /\ d.own[r.k] = d.mb[r.m].u
                             /\ r.uid < d.mb[r.m].next /\ r.k <= ck,
           \A r, s \in d.rows : r.m = s.m /\ r.uid = s.uid => r.k = s.k,
           \A m \in Mbox : m > cm \/ d.mb[m].u = "none" => d.mb[m] = NoMbox
    PROVE  Good(d, cm, ck)
  <1>1. d.rows \in SUBSET Row  OBVIOUS
  <1>2. d \in DB  BY <1>1, DBRecord
  <1> QED  BY <1>2 DEF Good

LEMMA GoodGrows ==
    ASSUME NEW d, NEW cm \in Nat, NEW ck \in Nat, NEW cm2 \in Nat, NEW ck2 \in Nat,
           Good(d, cm, ck), cm <= cm2, ck <= ck2
    PROVE  Good(d, cm2, ck2)
  <1>1. \A r \in d.rows : r.k \in Key  BY GoodFacts
  <1>2. \A r \in d.rows : r.k <= ck2  BY <1>1 DEF Good, Key
  <1>3. \A m \in Mbox : m > cm2 \/ d.mb[m].u = "none" => d.mb[m] = NoMbox
    BY DEF Good, Mbox
  <1> QED  BY <1>2, <1>3 DEF Good

(* A reader's row stays readable in what a transaction makes of the        *)
(* database.                                                               *)
LEMMA StillReadable ==
    ASSUME NEW d, NEW e, NEW row \in Row, NEW cm, NEW ck, NEW cm2, NEW ck2,
           Good(d, cm, ck), Good(e, cm2, ck2), Extends(d, e), Readable(d, row),
           d.mb[row.m] = NoMbox => e.mb[row.m] = NoMbox
    PROVE  Readable(e, row)
  <1>1. row.m \in Mbox /\ row.uid \in Nat  BY RowRecord
  <1>2. d.mb[row.m].next \in Nat /\ e.mb[row.m].next \in Nat  BY <1>1, GoodFacts
  <1>3. e.mb[row.m] = NoMbox \/ row.uid < e.mb[row.m].next
    BY <1>1, <1>2 DEF Readable, Extends
  <1>4. ASSUME NEW r \in e.rows, r.m = row.m, r.uid = row.uid
        PROVE  r.k = row.k
    <2>1. CASE \E o \in d.rows : o.m = r.m /\ o.uid = r.uid /\ o.k = r.k
      BY <1>4, <2>1 DEF Readable
    <2>2. CASE r.uid >= d.mb[r.m].next
      <3>1. e.mb[row.m] # NoMbox  BY <1>4, GoodFacts
      <3>2. d.mb[row.m] # NoMbox  BY <3>1
      <3>3. row.uid < d.mb[row.m].next  BY <3>2 DEF Readable
      <3> QED  BY <1>1, <1>2, <1>4, <2>2, <3>3
    <2> QED  BY <2>1, <2>2 DEF Extends
  <1> QED  BY <1>3, <1>4 DEF Readable

LEMMA ExtendsSelf ==
    ASSUME NEW d, NEW cm, NEW ck, Good(d, cm, ck)
    PROVE  Extends(d, d)
  <1>1. \A m \in Mbox : d.mb[m].next \in Nat  BY GoodFacts
  <1> QED  BY <1>1 DEF Extends

-----------------------------------------------------------------------------
(* What the statements make of a database.                                 *)

(* A transaction that touches no message: mailboxes are made or renamed.   *)
LEMMA MailboxesFit ==
    ASSUME NEW d, NEW e, NEW cm \in Nat, NEW cm2 \in Nat, NEW ck, Good(d, cm, ck), cm <= cm2,
           DBShape(e),
           e.mb \in [Mbox -> MboxRec], e.inbox \in [Users -> Mbox \cup {0, -1}],
           e.rows = d.rows, e.refs = d.refs, e.own = d.own,
           \A m \in Mbox : d.mb[m] # NoMbox =>
              e.mb[m].u = d.mb[m].u /\ e.mb[m].next = d.mb[m].next,
           \A m \in Mbox : d.mb[m] = NoMbox => e.mb[m] = NoMbox \/ m > cm,
           \A m \in Mbox : m > cm2 \/ e.mb[m].u = "none" => e.mb[m] = NoMbox
    PROVE  Fits(d, e, {}, {}, cm, cm2, ck)
  <1>1. \A r \in d.rows : r.m \in Mbox /\ d.mb[r.m] # NoMbox  BY GoodFacts
  <1>2. \A m \in Mbox : d.mb[m].next \in Nat  BY GoodFacts
  <1>3. d.rows \subseteq Row /\ d.refs \in [Key -> Int] /\ d.own \in [Key -> Owner]  BY GoodFacts
  <1>4. \A r \in e.rows : /\ e.refs[r.k] >= 1 /\ e.own[r.k] = e.mb[r.m].u
                          /\ r.uid < e.mb[r.m].next /\ r.k <= ck
    BY <1>1 DEF Good
  <1>5. /\ IsFiniteSet(e.rows)
        /\ \A k \in Key : e.refs[k] = -1 \/ e.refs[k] >= 1
        /\ \A r, s \in e.rows : r.m = s.m /\ r.uid = s.uid => r.k = s.k
    BY DEF Good
  <1>6. Good(e, cm2, ck)  BY <1>3, <1>4, <1>5, GoodIntro
  <1>7. Extends(d, e)  BY <1>2 DEF Extends
  <1> QED  BY <1>6, <1>7 DEF Fits

(* createMbox with the next number.                                        *)
LEMMA createMboxFits ==
    ASSUME NEW d, NEW e, NEW cm \in Nat, NEW ck, Good(d, cm, ck),
           NEW m \in Mbox, m > cm, NEW u \in Users, NEW n \in Name,
           DBShape(e), e.inbox \in [Users -> Mbox \cup {0, -1}],
           e.mb = createMbox(d, m, u, n).mb, e.rows = d.rows, e.refs = d.refs, e.own = d.own
    PROVE  Fits(d, e, {}, {}, cm, m, ck)
  <1> DEFINE new == [u |-> u, n |-> n, next |-> 1, cnt |-> 0]
  <1>1. /\ new = [f \in MboxFields |-> new[f]]
        /\ new.u = u /\ new.n = n /\ new.next = 1 /\ new.cnt = 0
    BY DEF MboxFields
  <1>2. new \in MboxRec  BY <1>1, MboxRecord DEF Owner
  <1>3. DBShape(d) /\ d.mb \in [Mbox -> MboxRec]  BY GoodFacts
  <1>4. e.mb = [d.mb EXCEPT ![m] = new]  BY <1>3 DEF createMbox, DBShape, DBFields
  <1>5. e.mb \in [Mbox -> MboxRec] /\ \A o \in Mbox : e.mb[o] = IF o = m THEN new ELSE d.mb[o]
    <2> HIDE DEF new
    <2> QED  BY <1>2, <1>3, <1>4
  <1>6. new.u # "none"  BY <1>1, UsersAssumption
  <1>7. d.mb[m] = NoMbox  BY DEF Good
  <1>8. m \in Nat /\ cm <= m /\ \A o \in Mbox : o > m => o > cm /\ o # m  BY DEF Mbox
  <1> HIDE DEF new
  <1>9. \A o \in Mbox : o > m \/ e.mb[o].u = "none" => e.mb[o] = NoMbox
    BY <1>5, <1>6, <1>8 DEF Good
  <1>10. \A o \in Mbox : d.mb[o] # NoMbox => e.mb[o].u = d.mb[o].u /\ e.mb[o].next = d.mb[o].next
    BY <1>5, <1>7
  <1>11. \A o \in Mbox : d.mb[o] = NoMbox => e.mb[o] = NoMbox \/ o > cm
    BY <1>5
  <1> QED  BY <1>5, <1>8, <1>9, <1>10, <1>11, MailboxesFit

LEMMA CountersFields ==
    ASSUME NEW d, NEW m \in Mbox, NEW n \in Nat,
           DBShape(d), d.mb \in [Mbox -> MboxRec],
           NEW e, e = incrementMsgCounters(d, m, n)
    PROVE  /\ DBShape(e) /\ e.mb \in [Mbox -> MboxRec]
           /\ e.rows = d.rows /\ e.refs = d.refs /\ e.own = d.own /\ e.inbox = d.inbox
           /\ e.mb[m].u = d.mb[m].u /\ e.mb[m].next = d.mb[m].next + n
           /\ \A o \in Mbox : o # m => e.mb[o] = d.mb[o]
  <1> DEFINE g == [d.mb[m] EXCEPT !.next = @ + n]
             h == [g EXCEPT !.cnt = @ + n]
  <1>1. d.mb[m] = [f \in MboxFields |-> d.mb[m][f]] /\ d.mb[m].u \in Owner
        /\ d.mb[m].n \in Name \cup {"none"} /\ d.mb[m].next \in Nat \ {0} /\ d.mb[m].cnt \in Int
    <2>1. d.mb[m] \in MboxRec  OBVIOUS
    <2> QED  BY <2>1, MboxRecord
  <1>2. /\ g = [f \in MboxFields |-> g[f]] /\ g.u = d.mb[m].u /\ g.n = d.mb[m].n
        /\ g.next = d.mb[m].next + n /\ g.cnt = d.mb[m].cnt
    BY <1>1 DEF MboxFields
  <1>3. /\ h = [f \in MboxFields |-> h[f]] /\ h.u = g.u /\ h.n = g.n
        /\ h.next = g.next /\ h.cnt = g.cnt + n
    <2> HIDE DEF g
    <2> QED  BY <1>2 DEF MboxFields
  <1>4. e.mb = [d.mb EXCEPT ![m] = h]
    <2>1. e = [[d EXCEPT !.mb = [d.mb EXCEPT ![m] = g]]
                 EXCEPT !.mb = [[d.mb EXCEPT ![m] = g] EXCEPT ![m] = [g EXCEPT !.cnt = @ + n]]]
      BY DEF incrementMsgCounters, DBShape, DBFields
    <2> HIDE DEF g, h
    <2>2. [[d.mb EXCEPT ![m] = g] EXCEPT ![m] = h] = [d.mb EXCEPT ![m] = h]  OBVIOUS
    <2> QED  BY <2>1, <2>2 DEF DBShape, DBFields, h
  <1>5. /\ DBShape(e)
        /\ e.rows = d.rows /\ e.refs = d.refs /\ e.own = d.own /\ e.inbox = d.inbox
    BY DEF incrementMsgCounters, DBShape, DBFields
  <1> HIDE DEF g, h
  <1>6. h \in MboxRec  BY <1>1, <1>2, <1>3, MboxRecord
  <1> QED  BY <1>1, <1>2, <1>3, <1>4, <1>5, <1>6

LEMMA addMsgFields ==
    ASSUME NEW d, NEW m \in Mbox, NEW k \in Key, NEW del, NEW cm, NEW ck,
           Good(d, cm, ck), NEW e, e = addMsg(d, m, k, del),
           NEW new, new = MsgRow(d, m, k, del)
    PROVE  /\ DBShape(e) /\ e.mb \in [Mbox -> MboxRec]
           /\ e.rows = d.rows \cup {new} /\ e.inbox = d.inbox
           /\ e.refs \in [Key -> Int] /\ e.own \in [Key -> Owner]
           /\ \A j \in Key : e.refs[j] = IF j = k THEN 1 ELSE d.refs[j]
           /\ \A j \in Key : e.own[j] = IF j = k THEN d.mb[m].u ELSE d.own[j]
           /\ e.mb[m].u = d.mb[m].u /\ e.mb[m].next = d.mb[m].next + 1
           /\ \A o \in Mbox : o # m => e.mb[o] = d.mb[o]
  <1> DEFINE i == incrementMsgCounters(d, m, 1)
  <1>1. DBShape(d) /\ d.mb \in [Mbox -> MboxRec]  BY GoodFacts
  <1>2. /\ DBShape(i) /\ i.mb \in [Mbox -> MboxRec]
        /\ i.rows = d.rows /\ i.refs = d.refs /\ i.own = d.own /\ i.inbox = d.inbox
        /\ i.mb[m].u = d.mb[m].u /\ i.mb[m].next = d.mb[m].next + 1
        /\ \A o \in Mbox : o # m => i.mb[o] = d.mb[o]
    <2> HIDE DEF i
    <2>1. 1 \in Nat /\ i = incrementMsgCounters(d, m, 1)  BY DEF i
    <2>2. DBShape(i) /\ i.mb \in [Mbox -> MboxRec]
      BY <1>1, <2>1, CountersFields
    <2>3. i.rows = d.rows /\ i.refs = d.refs /\ i.own = d.own /\ i.inbox = d.inbox
      BY <1>1, <2>1, CountersFields
    <2>4. i.mb[m].u = d.mb[m].u /\ i.mb[m].next = d.mb[m].next + 1
      BY <1>1, <2>1, CountersFields
    <2>5. \A o \in Mbox : o # m => i.mb[o] = d.mb[o]
      BY <1>1, <2>1, CountersFields
    <2> QED  BY <2>2, <2>3, <2>4, <2>5
  <1>3. e = [i EXCEPT !.rows = @ \cup {new}, !.refs[k] = 1, !.own[k] = d.mb[m].u]
    BY DEF addMsg, MsgRow
  <1> HIDE DEF i
  <1>4. /\ DBShape(e) /\ e.mb = i.mb /\ e.rows = i.rows \cup {new}
        /\ e.inbox = i.inbox /\ e.refs = [i.refs EXCEPT ![k] = 1]
        /\ e.own = [i.own EXCEPT ![k] = d.mb[m].u]
    BY <1>2, <1>3 DEF DBShape, DBFields
  <1>5. d.refs \in [Key -> Int] /\ d.own \in [Key -> Owner] /\ d.mb[m].u \in Owner  BY GoodFacts
  <1>6. /\ e.refs \in [Key -> Int] /\ e.own \in [Key -> Owner]
        /\ \A j \in Key : e.refs[j] = IF j = k THEN 1 ELSE d.refs[j]
        /\ \A j \in Key : e.own[j] = IF j = k THEN d.mb[m].u ELSE d.own[j]
    BY <1>2, <1>4, <1>5
  <1> QED  BY <1>2, <1>4, <1>6

(* A message added to d, which came from base.                             *)
Added(base, d, e, cm, k) ==
    /\ Good(e, cm, k) /\ Extends(base, e)
    /\ \A j \in Key : d.refs[j] # -1 => e.refs[j] # -1
    /\ e.refs[k] # -1
    /\ Keys(e.rows) = Keys(d.rows) \cup {k}
    /\ \A o \in Mbox : d.mb[o] = NoMbox => e.mb[o] = NoMbox

LEMMA addMsgFits ==
    ASSUME NEW base, NEW d, NEW m \in Mbox, NEW k \in Key, NEW del \in BOOLEAN,
           NEW cm \in Nat, NEW ck \in Nat,
           Good(base, cm, ck), Good(d, cm, ck), Extends(base, d),
           d.mb[m] # NoMbox, k = ck + 1,
           NEW e, e = addMsg(d, m, k, del)
    PROVE  Added(base, d, e, cm, k)
  <1> DEFINE new == [m |-> m, uid |-> d.mb[m].next, k |-> k, del |-> del]
  <1>1. /\ RowShape(new)
        /\ new.m = m /\ new.uid = d.mb[m].next /\ new.k = k /\ new.del = del
    BY DEF RowShape, RowFields
  <1>2. /\ d.mb \in [Mbox -> MboxRec] /\ d.rows \subseteq Row /\ d.refs \in [Key -> Int]
        /\ d.own \in [Key -> Owner] /\ d.inbox \in [Users -> Mbox \cup {0, -1}]
        /\ \A o \in Mbox : d.mb[o].next \in Nat \ {0} /\ d.mb[o].u \in Owner
        /\ \A o \in Mbox : base.mb[o].next \in Nat \ {0}
        /\ \A r \in d.rows : r.m \in Mbox /\ r.uid \in Nat \ {0} /\ r.k \in Key
    BY GoodFacts
  <1> HIDE DEF new
  <1>3. new \in Row  BY <1>1, <1>2, RowRecord
  <1>4. /\ DBShape(e) /\ e.mb \in [Mbox -> MboxRec]
        /\ e.rows = d.rows \cup {new} /\ e.inbox = d.inbox
        /\ e.mb[m].u = d.mb[m].u /\ e.mb[m].next = d.mb[m].next + 1
        /\ \A o \in Mbox : o # m => e.mb[o] = d.mb[o]
    <2>1. new = MsgRow(d, m, k, del)  BY DEF new, MsgRow
    <2> QED  BY <2>1, addMsgFields
  <1>5. /\ e.refs \in [Key -> Int] /\ e.own \in [Key -> Owner]
        /\ \A j \in Key : e.refs[j] = IF j = k THEN 1 ELSE d.refs[j]
        /\ \A j \in Key : e.own[j] = IF j = k THEN d.mb[m].u ELSE d.own[j]
    <2>1. new = MsgRow(d, m, k, del)  BY DEF new, MsgRow
    <2> QED  BY <2>1, addMsgFields
  <1>6. \A r \in d.rows : r.k # k /\ r.k <= k
    <2> TAKE r \in d.rows
    <2>1. r.k \in Key /\ r.k <= ck  BY <1>2 DEF Good
    <2> QED  BY <2>1 DEF Key
  <1>7. IsFiniteSet(e.rows)
    <2>1. IsFiniteSet(d.rows)  BY DEF Good
    <2>2. IsFiniteSet(d.rows \cup {new})  BY <2>1, FS_AddElement, Zenon
    <2> QED  BY <1>4, <2>2
  <1>8. \A o \in Mbox : e.mb[o].u = d.mb[o].u /\ e.mb[o].next >= d.mb[o].next
    BY <1>2, <1>4
  <1>9. ASSUME NEW r \in e.rows
        PROVE  e.refs[r.k] >= 1 /\ e.own[r.k] = e.mb[r.m].u /\ r.uid < e.mb[r.m].next /\ r.k <= k
    <2>1. CASE r = new
      <3>1. r.k = k /\ r.m = m /\ r.uid = d.mb[m].next  BY <1>1, <2>1
      <3> QED  BY <3>1, <1>2, <1>4, <1>5 DEF Key
    <2>2. CASE r \in d.rows
      <3>1. d.refs[r.k] >= 1 /\ d.own[r.k] = d.mb[r.m].u /\ r.uid < d.mb[r.m].next
        BY <2>2 DEF Good
      <3>2. r.uid < e.mb[r.m].next
        <4>1. r.m \in Mbox /\ r.uid \in Nat  BY <1>2, <2>2
        <4>2. CASE r.m = m  BY <1>2, <1>4, <3>1, <4>1, <4>2
        <4>3. CASE r.m # m  BY <1>4, <3>1, <4>1, <4>3
        <4> QED  BY <4>2, <4>3
      <3> QED  BY <1>2, <1>5, <1>6, <1>8, <2>2, <3>1, <3>2
    <2> QED  BY <1>4, <2>1, <2>2
  <1>10. ASSUME NEW r \in e.rows, NEW s \in e.rows, r.m = s.m, r.uid = s.uid
         PROVE  r.k = s.k
    <2>1. \A t \in d.rows : t.m = m => t.uid # d.mb[m].next
      <3> TAKE t \in d.rows
      <3>1. t.uid < d.mb[t.m].next  BY DEF Good
      <3> QED  BY <1>2, <3>1
    <2>2. CASE r \in d.rows /\ s \in d.rows  BY <1>10, <2>2 DEF Good
    <2>3. CASE r = new \/ s = new  BY <1>1, <1>4, <1>10, <2>1, <2>3
    <2> QED  BY <1>4, <2>2, <2>3
  <1>11. \A o \in Mbox : o > cm \/ e.mb[o].u = "none" => e.mb[o] = NoMbox
    <2>1. m <= cm /\ d.mb[m].u # "none"
      <3>1. ~(m > cm) /\ d.mb[m].u # "none"  BY DEF Good
      <3> QED  BY <3>1 DEF Mbox
    <2> TAKE o \in Mbox
    <2>2. CASE o = m  BY <1>4, <2>1, <2>2 DEF Mbox
    <2>3. CASE o # m  BY <1>4, <2>3 DEF Good
    <2> QED  BY <2>2, <2>3
  <1>12. \A j \in Key : e.refs[j] = -1 \/ e.refs[j] >= 1  BY <1>5 DEF Good
  <1>13. e.rows \subseteq Row  BY <1>2, <1>3, <1>4
  <1>14. Good(e, cm, k)
    BY <1>2, <1>4, <1>5, <1>7, <1>9, <1>10, <1>11, <1>12, <1>13, GoodIntro
  <1>15. Extends(base, e)
    <2>1. ASSUME NEW o \in Mbox, base.mb[o] # NoMbox
          PROVE  e.mb[o] = NoMbox \/ e.mb[o].next >= base.mb[o].next
      <3>1. d.mb[o] = NoMbox \/ d.mb[o].next >= base.mb[o].next  BY <2>1 DEF Extends
      <3>2. CASE o = m  BY <1>2, <1>4, <3>1, <3>2
      <3>3. CASE o # m  BY <1>4, <3>1, <3>3
      <3> QED  BY <3>2, <3>3
    <2>2. ASSUME NEW r \in e.rows
          PROVE  \/ \E o \in base.rows : o.m = r.m /\ o.uid = r.uid /\ o.k = r.k
                 \/ r.uid >= base.mb[r.m].next /\ r.uid < e.mb[r.m].next
      <3>1. CASE r = new
        <4>1. r.m = m /\ r.uid = d.mb[m].next  BY <1>1, <3>1
        <4>2. d.mb[m].next >= base.mb[m].next
          <5>1. CASE base.mb[m] = NoMbox  BY <1>2, <5>1, NoMboxRecord
          <5>2. CASE base.mb[m] # NoMbox  BY <5>2 DEF Extends
          <5> QED  BY <5>1, <5>2
        <4> QED  BY <1>2, <1>4, <4>1, <4>2
      <3>2. CASE r \in d.rows
        <4>1. \/ \E o \in base.rows : o.m = r.m /\ o.uid = r.uid /\ o.k = r.k
              \/ r.uid >= base.mb[r.m].next
          BY <3>2 DEF Extends
        <4> QED  BY <1>9, <4>1
      <3> QED  BY <1>4, <3>1, <3>2
    <2> QED  BY <2>1, <2>2 DEF Extends
  <1>16. Keys(e.rows) = Keys(d.rows) \cup {k}  BY <1>1, <1>4 DEF Keys
  <1>17. \A o \in Mbox : d.mb[o] = NoMbox => e.mb[o] = NoMbox  BY <1>4
  <1> QED  BY <1>5, <1>14, <1>15, <1>16, <1>17 DEF Added

(* A transaction after which every message is one of before, with other    *)
(* flags perhaps: STORE, EXPUNGE, DELETE and the removal of a user.        *)
LEMMA OldRowsFit ==
    ASSUME NEW d, NEW e, NEW kill, NEW cm \in Nat, NEW ck, Good(d, cm, ck),
           DBShape(e), e.mb \in [Mbox -> MboxRec], e.inbox \in [Users -> Mbox \cup {0, -1}],
           e.rows \subseteq Row, IsFiniteSet(e.rows), e.refs \in [Key -> Int], e.own = d.own,
           \A r \in e.rows : \E o \in d.rows : o.m = r.m /\ o.uid = r.uid /\ o.k = r.k,
           \A m \in Mbox : \/ e.mb[m] = NoMbox
                           \/ /\ d.mb[m] # NoMbox /\ e.mb[m].u = d.mb[m].u
                              /\ e.mb[m].next = d.mb[m].next,
           \A r \in e.rows : e.mb[r.m] # NoMbox /\ e.refs[r.k] >= 1 /\ r.k \notin kill,
           \A k \in Key : e.refs[k] = -1 \/ e.refs[k] >= 1,
           \A k \in Key : d.refs[k] # -1 => e.refs[k] # -1 \/ k \in kill
    PROVE  Fits(d, e, kill, {}, cm, cm, ck)
  <1>1. \A m \in Mbox : d.mb[m].next \in Nat  BY GoodFacts
  <1>2. \A r \in d.rows : r.m \in Mbox  BY GoodFacts
  <1>3. \A r \in e.rows : /\ e.refs[r.k] >= 1 /\ e.own[r.k] = e.mb[r.m].u
                          /\ r.uid < e.mb[r.m].next /\ r.k <= ck
    <2> TAKE r \in e.rows
    <2>1. PICK o \in d.rows : o.m = r.m /\ o.uid = r.uid /\ o.k = r.k  OBVIOUS
    <2>2. d.own[o.k] = d.mb[o.m].u /\ o.uid < d.mb[o.m].next /\ o.k <= ck  BY DEF Good
    <2>3. e.mb[r.m].u = d.mb[r.m].u /\ e.mb[r.m].next = d.mb[r.m].next  BY <1>2, <2>1
    <2> QED  BY <2>1, <2>2, <2>3
  <1>4. \A r, s \in e.rows : r.m = s.m /\ r.uid = s.uid => r.k = s.k
    <2> SUFFICES ASSUME NEW r \in e.rows, NEW s \in e.rows, r.m = s.m, r.uid = s.uid
                 PROVE  r.k = s.k
      OBVIOUS
    <2>1. PICK o \in d.rows : o.m = r.m /\ o.uid = r.uid /\ o.k = r.k  OBVIOUS
    <2>2. PICK p \in d.rows : p.m = s.m /\ p.uid = s.uid /\ p.k = s.k  OBVIOUS
    <2> QED  BY <2>1, <2>2 DEF Good
  <1>5. \A m \in Mbox : m > cm \/ e.mb[m].u = "none" => e.mb[m] = NoMbox
    BY DEF Good
  <1>6. e.own \in [Key -> Owner]  BY GoodFacts
  <1>7. Good(e, cm, ck)  BY <1>3, <1>4, <1>5, <1>6, GoodIntro
  <1>8. Extends(d, e)  BY <1>1 DEF Extends
  <1>9. Keys(e.rows) \subseteq Keys(d.rows)
    <2> SUFFICES ASSUME NEW r \in e.rows PROVE r.k \in Keys(d.rows)
      BY DEF Keys
    <2>1. PICK o \in d.rows : o.k = r.k  OBVIOUS
    <2> QED  BY <2>1 DEF Keys
  <1>10. Keys(e.rows) \cap kill = {}  BY DEF Keys
  <1>11. \A m \in Mbox : d.mb[m] = NoMbox => e.mb[m] = NoMbox  OBVIOUS
  <1> QED  BY <1>7, <1>8, <1>9, <1>10, <1>11 DEF Fits

(* The rows copyMsgsUid adds have UIDs of their own from UIDNEXT on.       *)
Rank(rows, r) == Cardinality({s \in rows : s.uid < r.uid})
CopyOf(d, rows, dest, r) ==
    [m |-> dest, uid |-> d.mb[dest].next + Rank(rows, r), k |-> r.k, del |-> r.del]

LEMMA CopyFields ==
    ASSUME NEW d, NEW rows, NEW dest, NEW r
    PROVE  /\ RowShape(CopyOf(d, rows, dest, r))
           /\ CopyOf(d, rows, dest, r).m = dest
           /\ CopyOf(d, rows, dest, r).k = r.k
           /\ CopyOf(d, rows, dest, r).del = r.del
           /\ CopyOf(d, rows, dest, r).uid = d.mb[dest].next + Rank(rows, r)
  BY DEF CopyOf, RowShape, RowFields

LEMMA copyRowsAsCopies ==
    ASSUME NEW d, NEW rows, NEW dest
    PROVE  copyRows(d, rows, dest) = {CopyOf(d, rows, dest, r) : r \in rows}
  BY DEF copyRows, CopyOf, Rank

LEMMA CopiesCount ==
    ASSUME NEW rows, IsFiniteSet(rows), \A r \in rows : r.uid \in Nat,
           NEW r \in rows
    PROVE  /\ Cardinality(rows) \in Nat
           /\ Rank(rows, r) \in Nat /\ Rank(rows, r) < Cardinality(rows)
           /\ \A q \in rows : q.uid < r.uid => Rank(rows, q) < Rank(rows, r)
  <1> DEFINE below(x) == {s \in rows : s.uid < x.uid}
  <1>1. below(r) \subseteq rows /\ r \notin below(r)  OBVIOUS
  <1>2. below(r) # rows  BY <1>1
  <1>3. IsFiniteSet(below(r)) /\ Cardinality(rows) \in Nat /\ Cardinality(below(r)) \in Nat
    <2>1. IsFiniteSet(below(r))  BY <1>1, FS_Subset
    <2> HIDE DEF below
    <2> QED  BY <2>1, FS_CardinalityType
  <1>4. Cardinality(below(r)) < Cardinality(rows)
    <2> HIDE DEF below
    <2>1. /\ Cardinality(below(r)) <= Cardinality(rows)
          /\ Cardinality(rows) = Cardinality(below(r)) => rows = below(r)
      BY <1>1, FS_Subset
    <2> QED  BY <1>2, <1>3, <2>1
  <1>5. ASSUME NEW q \in rows, q.uid < r.uid
        PROVE  Cardinality(below(q)) < Cardinality(below(r))
    <2>1. below(q) \subseteq below(r)  BY <1>5
    <2>2. q \in below(r) /\ q \notin below(q)  BY <1>5
    <2>3. below(q) # below(r)  BY <2>2
    <2> HIDE DEF below
    <2>4. /\ IsFiniteSet(below(q)) /\ Cardinality(below(q)) <= Cardinality(below(r))
          /\ Cardinality(below(r)) = Cardinality(below(q)) => below(r) = below(q)
      BY <1>3, <2>1, FS_Subset
    <2>5. Cardinality(below(q)) \in Nat  BY <2>4, FS_CardinalityType
    <2> QED  BY <1>3, <2>3, <2>4, <2>5
  <1> QED  BY <1>3, <1>4, <1>5 DEF Rank

LEMMA copyRowsFacts ==
    ASSUME NEW d, NEW cm, NEW ck, Good(d, cm, ck), NEW m \in Mbox, NEW dest \in Mbox,
           NEW rows, rows \subseteq Rows(d, m),
           NEW C, C = copyRows(d, rows, dest)
    PROVE  /\ IsFiniteSet(rows) /\ Cardinality(rows) \in Nat /\ IsFiniteSet(C) /\ C \subseteq Row
           /\ \A c \in C : /\ c.m = dest /\ c.uid \in Nat
                           /\ c.uid >= d.mb[dest].next
                           /\ c.uid < d.mb[dest].next + Cardinality(rows)
                           /\ \E r \in rows : c.k = r.k
           /\ \A c, b \in C : c.uid = b.uid => c.k = b.k
  <1>1. rows \subseteq d.rows /\ \A r \in rows : r.m = m  BY DEF Rows
  <1>2. IsFiniteSet(rows) /\ Cardinality(rows) \in Nat
    <2>1. IsFiniteSet(d.rows)  BY DEF Good
    <2>2. IsFiniteSet(rows)  BY <1>1, <2>1, FS_Subset
    <2> QED  BY <2>2, FS_CardinalityType
  <1>3. \A r \in rows : r.uid \in Nat /\ r.k \in Key /\ r.del \in BOOLEAN  BY <1>1, GoodFacts
  <1>4. d.mb[dest].next \in Nat \ {0}  BY GoodFacts
  <1>5. \A r \in rows : /\ Rank(rows, r) \in Nat /\ Rank(rows, r) < Cardinality(rows)
                        /\ \A q \in rows : q.uid < r.uid => Rank(rows, q) < Rank(rows, r)
    BY <1>2, <1>3, CopiesCount
  <1>6. C = {CopyOf(d, rows, dest, r) : r \in rows}  BY copyRowsAsCopies
  <1>7. ASSUME NEW c \in C, NEW r \in rows, c = CopyOf(d, rows, dest, r)
        PROVE  /\ c.m = dest /\ c.k = r.k /\ c.del = r.del
               /\ c.uid = d.mb[dest].next + Rank(rows, r)
               /\ RowShape(c)
    BY <1>7, CopyFields
  <1>8. ASSUME NEW c \in C
        PROVE  /\ c \in Row /\ c.m = dest /\ c.uid \in Nat
               /\ c.uid >= d.mb[dest].next
               /\ c.uid < d.mb[dest].next + Cardinality(rows)
               /\ \E r \in rows : c.k = r.k
    <2>1. PICK r \in rows : c = CopyOf(d, rows, dest, r)  BY <1>6
    <2>2. /\ c.m = dest /\ c.k = r.k /\ c.del = r.del /\ c.uid = d.mb[dest].next + Rank(rows, r)
          /\ RowShape(c)
      BY <1>7, <2>1
    <2>3. c.uid \in Nat \ {0} /\ c.uid >= d.mb[dest].next
          /\ c.uid < d.mb[dest].next + Cardinality(rows)
      BY <1>2, <1>4, <1>5, <2>2
    <2>4. c \in Row  BY <1>3, <2>2, <2>3, RowRecord
    <2> QED  BY <2>2, <2>3, <2>4
  <1>9. ASSUME NEW c \in C, NEW b \in C, c.uid = b.uid
        PROVE  c.k = b.k
    <2>1. PICK r \in rows : c = CopyOf(d, rows, dest, r)  BY <1>6
    <2>2. PICK q \in rows : b = CopyOf(d, rows, dest, q)  BY <1>6
    <2>3. c.k = r.k /\ c.uid = d.mb[dest].next + Rank(rows, r)  BY <1>7, <2>1
    <2>4. b.k = q.k /\ b.uid = d.mb[dest].next + Rank(rows, q)  BY <1>7, <2>2
    <2>5. Rank(rows, r) \in Nat /\ Rank(rows, q) \in Nat  BY <1>5
    <2>6. Rank(rows, r) = Rank(rows, q)
      <3>1. d.mb[dest].next + Rank(rows, r) = d.mb[dest].next + Rank(rows, q)  BY <1>9, <2>3, <2>4
      <3>2. d.mb[dest].next \in Nat  BY <1>4
      <3> QED  BY <2>5, <3>1, <3>2
    <2>7. ~(r.uid < q.uid) /\ ~(q.uid < r.uid)  BY <1>5, <2>5, <2>6
    <2>8. r.uid = q.uid  BY <1>3, <2>7
    <2>9. r.k = q.k  BY <1>1, <2>8 DEF Good
    <2> QED  BY <2>3, <2>4, <2>9
  <1>10. IsFiniteSet(C)
    <2> DEFINE f == [r \in rows |-> CopyOf(d, rows, dest, r)]
    <2>1. f \in Surjection(rows, C)
      <3>1. f \in [rows -> C]  BY <1>6
      <3>2. \A c \in C : \E r \in rows : f[r] = c  BY <1>6
      <3> HIDE DEF f
      <3> QED  BY <3>1, <3>2 DEF Surjection
    <2> HIDE DEF f
    <2> QED  BY <1>2, <2>1, FS_Surjection
  <1> QED  BY <1>2, <1>8, <1>9, <1>10

(* Messages copied or moved to dest; the ones of kept stay where they are. *)
Copied(d, e, m, dest, rows, kept) ==
    /\ rows \subseteq Rows(d, m) /\ rows # {}
    /\ d.mb[dest].u = d.mb[m].u
    /\ kept \subseteq d.rows
    /\ DBShape(e) /\ e.mb \in [Mbox -> MboxRec] /\ e.inbox = d.inbox /\ e.own = d.own
    /\ e.rows = kept \cup copyRows(d, rows, dest) /\ e.refs \in [Key -> Int]
    /\ \A o \in Mbox : e.mb[o].u = d.mb[o].u
    /\ e.mb[dest].next = d.mb[dest].next + Cardinality(rows)
    /\ \A o \in Mbox : o # dest => e.mb[o].next = d.mb[o].next
    /\ \A o \in Mbox : o # dest /\ o # m => e.mb[o] = d.mb[o]
    /\ \A k \in Key : e.refs[k] = d.refs[k] \/ (d.refs[k] >= 1 /\ e.refs[k] = d.refs[k] + 1)

LEMMA CopiesFit ==
    ASSUME NEW d, NEW e, NEW cm \in Nat, NEW ck, Good(d, cm, ck),
           NEW m \in Mbox, NEW dest \in Mbox, NEW rows, NEW kept,
           Copied(d, e, m, dest, rows, kept)
    PROVE  Fits(d, e, {}, {}, cm, cm, ck)
  <1> DEFINE C == copyRows(d, rows, dest)
  <1>0. /\ rows \subseteq Rows(d, m) /\ rows # {}
        /\ d.mb[dest].u = d.mb[m].u
        /\ kept \subseteq d.rows
        /\ DBShape(e) /\ e.mb \in [Mbox -> MboxRec] /\ e.inbox = d.inbox /\ e.own = d.own
        /\ e.rows = kept \cup C /\ e.refs \in [Key -> Int]
        /\ \A o \in Mbox : e.mb[o].u = d.mb[o].u
        /\ e.mb[dest].next = d.mb[dest].next + Cardinality(rows)
        /\ \A o \in Mbox : o # dest => e.mb[o].next = d.mb[o].next
        /\ \A o \in Mbox : o # dest /\ o # m => e.mb[o] = d.mb[o]
        /\ \A k \in Key : e.refs[k] = d.refs[k] \/ (d.refs[k] >= 1 /\ e.refs[k] = d.refs[k] + 1)
    BY DEF Copied
  <1>00. C = copyRows(d, rows, dest)  OBVIOUS
  <1> HIDE DEF C
  <1> USE <1>0
  <1>1. rows \subseteq d.rows /\ \A r \in rows : r.m = m  BY DEF Rows
  <1>2. /\ Cardinality(rows) \in Nat /\ IsFiniteSet(C) /\ C \subseteq Row
        /\ \A c \in C : /\ c.m = dest /\ c.uid \in Nat
                        /\ c.uid >= d.mb[dest].next
                        /\ c.uid < d.mb[dest].next + Cardinality(rows)
                        /\ \E r \in rows : c.k = r.k
        /\ \A c, b \in C : c.uid = b.uid => c.k = b.k
    BY <1>00, copyRowsFacts
  <1>3. /\ d.rows \subseteq Row /\ d.refs \in [Key -> Int] /\ d.own \in [Key -> Owner]
        /\ d.inbox \in [Users -> Mbox \cup {0, -1}]
        /\ \A o \in Mbox : d.mb[o].next \in Nat
        /\ \A r \in d.rows : r.m \in Mbox /\ r.uid \in Nat /\ r.k \in Key /\ d.mb[r.m] # NoMbox
    BY GoodFacts
  <1>4. d.mb[m] # NoMbox /\ d.mb[m].u # "none" /\ d.mb[dest].u # "none"
    <2>1. d.mb[m] # NoMbox  BY <1>1, <1>3
    <2> QED  BY <2>1 DEF Good
  <1>5. d.mb[dest] # NoMbox /\ ~(dest > cm) /\ ~(m > cm)
    <2>1. d.mb[dest] # NoMbox  BY <1>4 DEF NoMbox
    <2> QED  BY <1>4, <2>1 DEF Good
  <1>6. \A o \in Mbox : e.mb[o].next >= d.mb[o].next  BY <1>2, <1>3
  <1>7. ASSUME NEW r \in e.rows
        PROVE  e.refs[r.k] >= 1 /\ e.own[r.k] = e.mb[r.m].u /\ r.uid < e.mb[r.m].next /\ r.k <= ck
    <2>1. CASE r \in kept
      <3>1. r \in d.rows  BY <2>1
      <3>2. d.refs[r.k] >= 1 /\ d.own[r.k] = d.mb[r.m].u /\ r.uid < d.mb[r.m].next /\ r.k <= ck
        BY <3>1 DEF Good
      <3>3. r.m \in Mbox /\ r.uid \in Nat /\ r.k \in Key /\ d.mb[r.m].next \in Nat
        BY <1>3, <3>1
      <3>4. e.mb[r.m].next >= d.mb[r.m].next /\ e.mb[r.m].next \in Nat
        BY <1>2, <1>3, <1>6, <3>3
      <3>5. e.refs[r.k] >= 1  BY <1>3, <3>2, <3>3
      <3> QED  BY <3>2, <3>3, <3>4, <3>5
    <2>2. CASE r \in C
      <3>1. PICK s \in rows : r.k = s.k  BY <1>2, <2>2
      <3>2. s \in d.rows /\ s.m = m  BY <1>1
      <3>3. d.refs[s.k] >= 1 /\ d.own[s.k] = d.mb[m].u /\ s.k <= ck /\ s.k \in Key
        BY <1>3, <3>2 DEF Good
      <3>4. r.m = dest /\ r.uid < e.mb[dest].next  BY <1>2, <2>2
      <3>5. e.refs[r.k] >= 1  BY <1>3, <3>1, <3>3
      <3> QED  BY <3>1, <3>3, <3>4, <3>5
    <2> QED  BY <2>1, <2>2
  <1>8. ASSUME NEW r \in e.rows, NEW s \in e.rows, r.m = s.m, r.uid = s.uid
        PROVE  r.k = s.k
    <2>1. \A t \in d.rows : t.m = dest => t.uid < d.mb[dest].next  BY DEF Good
    <2>2. \A t \in d.rows : t.uid \in Nat  BY <1>3
    <2>3. CASE r \in d.rows /\ s \in d.rows  BY <1>8, <2>3 DEF Good
    <2>4. CASE r \in C /\ s \in C  BY <1>2, <1>8, <2>4
    <2>5. CASE r \in d.rows /\ s \in C  BY <1>2, <1>3, <1>8, <2>1, <2>2, <2>5
    <2>6. CASE r \in C /\ s \in d.rows  BY <1>2, <1>3, <1>8, <2>1, <2>2, <2>6
    <2> QED  BY <2>3, <2>4, <2>5, <2>6
  <1>9. IsFiniteSet(e.rows)
    <2>1. IsFiniteSet(d.rows)  BY DEF Good
    <2>2. IsFiniteSet(kept)  BY <2>1, FS_Subset
    <2>3. IsFiniteSet(kept \cup C)  BY <1>2, <2>2, FS_Union
    <2> QED  BY <2>3
  <1>10. \A o \in Mbox : o > cm \/ e.mb[o].u = "none" => e.mb[o] = NoMbox
    <2> TAKE o \in Mbox
    <2>1. CASE o = dest \/ o = m  BY <1>4, <1>5, <2>1
    <2>2. CASE o # dest /\ o # m  BY <2>2 DEF Good
    <2> QED  BY <2>1, <2>2
  <1>11. \A k \in Key : e.refs[k] = -1 \/ e.refs[k] >= 1
    <2> TAKE k \in Key
    <2>1. d.refs[k] \in Int /\ (d.refs[k] = -1 \/ d.refs[k] >= 1)  BY <1>3 DEF Good
    <2> QED  BY <2>1
  <1>12. e.rows \subseteq Row  BY <1>2, <1>3
  <1>13. Good(e, cm, ck)
    <2>1. e.own \in [Key -> Owner] /\ e.inbox \in [Users -> Mbox \cup {0, -1}]  BY <1>3
    <2> QED  BY <1>7, <1>8, <1>9, <1>10, <1>11, <1>12, <2>1, GoodIntro
  <1>14. Extends(d, e)
    <2>1. \A o \in Mbox : d.mb[o] # NoMbox => e.mb[o] = NoMbox \/ e.mb[o].next >= d.mb[o].next
      BY <1>6
    <2>2. ASSUME NEW r \in e.rows
          PROVE  \/ \E o \in d.rows : o.m = r.m /\ o.uid = r.uid /\ o.k = r.k
                 \/ r.uid >= d.mb[r.m].next /\ r.uid < e.mb[r.m].next
      BY <1>2
    <2> QED  BY <2>1, <2>2 DEF Extends
  <1>15. Keys(e.rows) \subseteq Keys(d.rows)
    <2> SUFFICES ASSUME NEW r \in e.rows PROVE r.k \in Keys(d.rows)
      BY DEF Keys
    <2>1. \E o \in d.rows : o.k = r.k  BY <1>1, <1>2
    <2> QED  BY <2>1 DEF Keys
  <1>16. \A k \in Key : d.refs[k] # -1 => e.refs[k] # -1
    <2> TAKE k \in Key
    <2>1. d.refs[k] \in Int  BY <1>3
    <2> QED  BY <2>1
  <1>17. \A o \in Mbox : d.mb[o] = NoMbox => e.mb[o] = NoMbox
    BY <1>4, <1>5
  <1> QED  BY <1>13, <1>14, <1>15, <1>16, <1>17 DEF Fits

LEMMA AddRefsFields ==
    ASSUME NEW d, NEW ks, NEW u, NEW n \in Int, DBShape(d), d.refs \in [Key -> Int],
           NEW e, e = AddRefs(d, ks, u, n)
    PROVE  /\ DBShape(e) /\ e.mb = d.mb /\ e.rows = d.rows /\ e.own = d.own /\ e.inbox = d.inbox
           /\ e.refs \in [Key -> Int]
           /\ \A k \in Key : e.refs[k] = IF k \in ks /\ d.own[k] = u THEN d.refs[k] + n ELSE d.refs[k]
  <1> DEFINE g == [k \in Key |-> IF k \in ks /\ d.own[k] = u THEN d.refs[k] + n ELSE d.refs[k]]
  <1>1. g \in [Key -> Int]  OBVIOUS
  <1>2. e = [d EXCEPT !.refs = g]  BY DEF AddRefs
  <1>3. /\ DBShape(e) /\ e.mb = d.mb /\ e.rows = d.rows /\ e.own = d.own /\ e.inbox = d.inbox
        /\ e.refs = g
    <2> HIDE DEF g
    <2> QED  BY <1>2 DEF DBShape, DBFields
  <1>4. \A k \in Key : e.refs[k] = IF k \in ks /\ d.own[k] = u THEN d.refs[k] + n ELSE d.refs[k]
    BY <1>3
  <1> HIDE DEF g
  <1> QED  BY <1>1, <1>3, <1>4

LEMMA deleteZeroRefFields ==
    ASSUME NEW d, NEW u, DBShape(d), d.refs \in [Key -> Int],
           NEW e, e = deleteZeroRef(d, u)
    PROVE  /\ DBShape(e) /\ e.mb = d.mb /\ e.rows = d.rows /\ e.own = d.own /\ e.inbox = d.inbox
           /\ e.refs \in [Key -> Int]
           /\ \A k \in Key : e.refs[k] = IF d.refs[k] = 0 /\ d.own[k] = u THEN -1 ELSE d.refs[k]
  <1> DEFINE g == [k \in Key |-> IF k \in zeroRefUser(d, u) THEN -1 ELSE d.refs[k]]
  <1>1. g \in [Key -> Int]  OBVIOUS
  <1>2. e = [d EXCEPT !.refs = g]  BY DEF deleteZeroRef
  <1>3. /\ DBShape(e) /\ e.mb = d.mb /\ e.rows = d.rows /\ e.own = d.own /\ e.inbox = d.inbox
        /\ e.refs = g
    <2> HIDE DEF g
    <2> QED  BY <1>2 DEF DBShape, DBFields
  <1>4. \A k \in Key : e.refs[k] = IF d.refs[k] = 0 /\ d.own[k] = u THEN -1 ELSE d.refs[k]
    BY <1>3 DEF zeroRefUser
  <1> HIDE DEF g
  <1> QED  BY <1>1, <1>3, <1>4

(* Messages are removed, the bodies in ks lose a reference and those left   *)
(* without one lose their row in extKeys, unless a message still refers to *)
(* one of them.                                                            *)
Released(d, e, u, kill, ks) ==
    /\ ks \subseteq Keys(d.rows)
    /\ DBShape(e) /\ e.mb \in [Mbox -> MboxRec] /\ e.inbox \in [Users -> Mbox \cup {0, -1}]
    /\ e.rows \subseteq d.rows /\ e.own = d.own /\ e.refs \in [Key -> Int]
    /\ \A k \in Key : e.refs[k] = IF k \in ks /\ d.own[k] = u THEN d.refs[k] - 1 ELSE d.refs[k]
    /\ \A m \in Mbox : \/ e.mb[m] = NoMbox
                         \/ /\ d.mb[m] # NoMbox /\ e.mb[m].u = d.mb[m].u
                            /\ e.mb[m].next = d.mb[m].next
    /\ \A r \in e.rows : e.mb[r.m] # NoMbox
    /\ \A k \in Key : e.refs[k] = 0 => k \in kill
    /\ \A k \in kill : k \in Key /\ e.refs[k] = 0

LEMMA ReleaseFits ==
    ASSUME NEW d, NEW e, NEW f, NEW u, NEW kill, NEW ks, NEW cm \in Nat, NEW ck,
           Good(d, cm, ck), Released(d, e, u, kill, ks),
           f = deleteZeroRef(e, u), ~Restricted(e, u)
    PROVE  Fits(d, f, kill, {}, cm, cm, ck)
  <1> USE DEF Released
  <1>1. /\ DBShape(f) /\ f.mb = e.mb /\ f.rows = e.rows /\ f.own = e.own /\ f.inbox = e.inbox
        /\ f.refs \in [Key -> Int]
        /\ \A k \in Key : f.refs[k] = IF e.refs[k] = 0 /\ e.own[k] = u THEN -1 ELSE e.refs[k]
    BY deleteZeroRefFields
  <1>2. d.rows \subseteq Row /\ \A r \in d.rows : r.k \in Key /\ r.m \in Mbox  BY GoodFacts
  <1>3. \A k \in ks : k \in Key /\ d.refs[k] >= 1  BY <1>2 DEF Keys, Good
  <1>4. \A k \in Key : d.refs[k] \in Int /\ (d.refs[k] = -1 \/ d.refs[k] >= 1)
    <2>1. d.refs \in [Key -> Int]  BY GoodFacts
    <2>2. \A k \in Key : d.refs[k] = -1 \/ d.refs[k] >= 1  BY DEF Good
    <2> QED  BY <2>1, <2>2
  <1>5. \A k \in Key : e.refs[k] = -1 \/ e.refs[k] >= 0  BY <1>3, <1>4
  <1>6. \A k \in Key : e.refs[k] = 0 => k \in ks /\ d.own[k] = u  BY <1>4
  <1>7. \A k \in Key : f.refs[k] = -1 \/ f.refs[k] >= 1
    <2> TAKE k \in Key
    <2>1. e.refs[k] \in Int  OBVIOUS
    <2> QED  BY <1>1, <1>5, <1>6, <2>1
  <1>8. ASSUME NEW r \in e.rows
        PROVE  e.refs[r.k] >= 1 /\ f.refs[r.k] >= 1 /\ r.k \notin kill
    <2>1. r \in d.rows /\ r.k \in Key  BY <1>2
    <2>2. d.refs[r.k] >= 1  BY <2>1 DEF Good
    <2>3. e.refs[r.k] # 0
      <3>1. e.refs[r.k] = 0 => r.k \in zeroRefUser(e, u)  BY <1>6, <2>1 DEF zeroRefUser
      <3>2. r.k \in Keys(e.rows)  BY DEF Keys
      <3> QED  BY <3>1, <3>2 DEF Restricted
    <2>4. e.refs[r.k] >= 1  BY <1>4, <2>1, <2>2, <2>3
    <2> QED  BY <1>1, <2>1, <2>3, <2>4
  <1>9. \A k \in Key : d.refs[k] # -1 => f.refs[k] # -1 \/ k \in kill
    <2> TAKE k \in Key
    <2>1. CASE e.refs[k] = 0  BY <2>1
    <2>2. CASE e.refs[k] # 0
      <3>1. f.refs[k] = e.refs[k]  BY <1>1, <2>2
      <3>2. e.refs[k] = -1 => d.refs[k] = -1  BY <1>3, <1>4
      <3> QED  BY <3>1, <3>2
    <2> QED  BY <2>1, <2>2
  <1>10. f.rows \subseteq Row /\ IsFiniteSet(f.rows)
    <2>1. IsFiniteSet(d.rows)  BY DEF Good
    <2>2. IsFiniteSet(e.rows)  BY <2>1, FS_Subset
    <2> QED  BY <1>1, <1>2, <2>2
  <1>11. \A r \in f.rows : \E o \in d.rows : o.m = r.m /\ o.uid = r.uid /\ o.k = r.k  BY <1>1
  <1>12. \A r \in f.rows : f.mb[r.m] # NoMbox /\ f.refs[r.k] >= 1 /\ r.k \notin kill
    BY <1>1, <1>8
  <1>13. /\ f.mb \in [Mbox -> MboxRec] /\ f.inbox \in [Users -> Mbox \cup {0, -1}]
         /\ f.own = d.own
         /\ \A m \in Mbox : \/ f.mb[m] = NoMbox
                            \/ /\ d.mb[m] # NoMbox /\ f.mb[m].u = d.mb[m].u
                               /\ f.mb[m].next = d.mb[m].next
    BY <1>1
  <1>14. DBShape(f) /\ f.refs \in [Key -> Int]  BY <1>1
  <1> QED  BY <1>7, <1>9, <1>10, <1>11, <1>12, <1>13, <1>14, OldRowsFit, ZenonT(60)

-----------------------------------------------------------------------------
(* Transactions.                                                           *)

LEMMA CountTypes ==
    ASSUME NEW c \in CountType
    PROVE  c.mbox \in Nat /\ c.mbox <= MaxMbox /\ c.key \in Nat /\ c.key <= MaxKey
           /\ c.ops \in Nat /\ c.faults \in Nat /\ c.mbox \in 0 .. MaxMbox /\ c.key \in 0 .. MaxKey
  <1>1. c.mbox \in 0 .. MaxMbox /\ c.key \in 0 .. MaxKey /\ c.ops \in Nat /\ c.faults \in Nat
    BY DEF CountType
  <1>2. MaxMbox \in Nat /\ MaxKey \in Nat  BY BoundsAssumption
  <1> QED  BY <1>1, <1>2

TxIs(op, d, kill, made, ok) ==
    /\ tx' = [f \in TxFields |-> tx'[f]]
    /\ tx'.op = op /\ tx'.db = d /\ tx'.kill = kill /\ tx'.gone = {}
    /\ tx'.made = made /\ tx'.ok = ok

(* A transaction is begun.                                                 *)
LEMMA Opening ==
    ASSUME IInv, Idle, NEW op, op \notin {"none", "cleanup"},
           NEW d, NEW kill \in SUBSET Key, NEW made \in SUBSET Key, NEW ok,
           TxIs(op, d, kill, made, ok),
           op \notin Killers => kill = {},
           \A k \in kill : db.refs[k] # -1,
           made \cap Keys(db.rows) = {},
           blobs' = blobs \cup made,
           count' \in CountType, count.mbox <= count'.mbox, count.key <= count'.key,
           dlv' \in DlvType,
           ok => Fits(db, d, kill, made, count.mbox, count'.mbox, count'.key),
           UNCHANGED <<db, read, ghost>>
    PROVE  IInv'
  <1> USE DEF TxIs
  <1>1. count.mbox \in Nat /\ count.key \in Nat /\ count'.mbox \in Nat /\ count'.key \in Nat
    BY CountTypes DEF IInv, StoreShape
  <1>2. Good(db, count.mbox, count.key) /\ Good(db, count'.mbox, count'.key)
    BY <1>1, GoodGrows DEF IInv, StoreShape
  <1>3. StoreShape'
    BY <1>2 DEF IInv, StoreShape
  <1>4. tx.kill = {} /\ tx.gone = {} /\ tx.made = {} /\ Risked = {} /\ Risked' = {}
    BY DEF IInv, TxShape, Killers, Idle, Risked
  <1>5. TxShape'
    BY DEF TxShape
  <1>6. TxGood'
    <2> SUFFICES ASSUME ok PROVE TxGood'
      BY DEF TxGood, Live
    <2>1. Fits(db, d, kill, made, count.mbox, count'.mbox, count'.key)  OBVIOUS
    <2>2. Keys(db.rows) \subseteq blobs \cup ghost.early
      BY <1>4 DEF IInv, BodyKept, Forfeited
    <2>3. Keys(d.rows) \subseteq blobs' \cup ghost'.early
      BY <2>1, <2>2 DEF Fits
    <2> QED  BY <2>1, <2>3 DEF Fits, TxGood
  <1>7. Reading'
    <2> SUFFICES ASSUME read.st # "none" PROVE Reading'
      BY DEF Reading
    <2>1. read.row \in Row /\ read.row.m <= count.mbox /\ Readable(db, read.row)
      BY DEF IInv, Reading
    <2>2. read.row.m \in Mbox  BY <2>1, RowRecord
    <2>3. read.row.m <= count'.mbox  BY <1>1, <2>1, <2>2 DEF Mbox
    <2>4. ASSUME ok
          PROVE  /\ Readable(d, read.row)
                 /\ db.mb[read.row.m] = NoMbox => d.mb[read.row.m] = NoMbox
      <3>1. Fits(db, d, kill, made, count.mbox, count'.mbox, count'.key)  BY <2>4
      <3>2. ~(read.row.m > count.mbox)  BY <1>1, <2>1, <2>2 DEF Mbox
      <3>3. db.mb[read.row.m] = NoMbox => d.mb[read.row.m] = NoMbox
        BY <2>2, <3>1, <3>2 DEF Fits
      <3>4. Good(d, count'.mbox, count'.key) /\ Extends(db, d)  BY <3>1 DEF Fits
      <3> QED  BY <1>2, <2>1, <3>3, <3>4, StillReadable
    <2> QED  BY <2>1, <2>3, <2>4 DEF Reading, Live
  <1>8. BodyKept'
    BY <1>4 DEF IInv, BodyKept, Forfeited
  <1>9. BlobsAccounted'
    BY <1>4 DEF IInv, BlobsAccounted
  <1> QED  BY <1>3, <1>5, <1>6, <1>7, <1>8, <1>9 DEF IInv

CountFields == {"mbox", "key", "ops", "faults"}

LEMMA CountRecord ==
    ASSUME NEW c
    PROVE  c \in CountType <=>
             /\ c = [f \in CountFields |-> c[f]]
             /\ c.mbox \in 0 .. MaxMbox /\ c.key \in 0 .. MaxKey /\ c.ops \in Nat /\ c.faults \in Nat
  BY DEF CountType, CountFields

LEMMA BeginOpens ==
    ASSUME IInv, NEW op, op \notin {"none", "cleanup"}, NEW d, NEW kill \in SUBSET Key, NEW ok,
           Begin(op, d, kill, ok),
           op \notin Killers => kill = {},
           \A k \in kill : db.refs[k] # -1,
           ok => Fits(db, d, kill, {}, count.mbox, count.mbox, count.key)
    PROVE  IInv'
  <1>1. Idle /\ UNCHANGED <<db, read, ghost>> /\ blobs' = blobs \cup {} /\ dlv' \in DlvType
    BY DEF Begin, Open, IInv, StoreShape
  <1>2. TxIs(op, d, kill, {}, ok)
    BY DEF Begin, Open, TxIs, TxFields
  <1>3. count \in CountType  BY DEF IInv, StoreShape
  <1>4. count = [f \in CountFields |-> count[f]]  BY <1>3, CountRecord
  <1>5. /\ count' = [f \in CountFields |-> count'[f]]
        /\ count'.mbox = count.mbox /\ count'.key = count.key /\ count'.ops = count.ops + 1
        /\ count'.faults = count.faults
    BY <1>4 DEF Begin, Open, CountFields
  <1>6. count' \in CountType /\ count.mbox <= count'.mbox /\ count.key <= count'.key
    BY <1>3, <1>5, CountTypes, CountRecord
  <1>7. {} \in SUBSET Key /\ {} \cap Keys(db.rows) = {}  OBVIOUS
  <1> QED  BY <1>1, <1>2, <1>5, <1>6, <1>7, Opening

-----------------------------------------------------------------------------
(* The operations that begin a transaction.                                *)

LEMMA DbGood == IInv => Good(db, count.mbox, count.key) /\ count \in CountType
                        /\ count.mbox \in Nat /\ count.key \in Nat
  BY CountTypes DEF IInv, StoreShape

LEMMA createUserInv ==
    ASSUME IInv, NEW u \in Users, createUser(u)
    PROVE  IInv'
  <1> DEFINE m == count.mbox + 1
             d == [createMbox(db, m, u, "INBOX") EXCEPT !.inbox[u] = m]
  <1>1. /\ Good(db, count.mbox, count.key) /\ count \in CountType
        /\ count.mbox \in Nat /\ count.key \in Nat
    BY DbGood
  <1>2. m \in Mbox /\ m > count.mbox /\ m \in 0 .. MaxMbox
    BY <1>1, BoundsAssumption DEF createUser, Mbox
  <1>3. DBShape(db) /\ db.inbox \in [Users -> Mbox \cup {0, -1}]  BY <1>1, GoodFacts
  <1>4. /\ DBShape(d) /\ d.mb = createMbox(db, m, u, "INBOX").mb
        /\ d.rows = db.rows /\ d.refs = db.refs /\ d.own = db.own
        /\ d.inbox = [db.inbox EXCEPT ![u] = m]
    <2> HIDE DEF m
    <2> QED  BY <1>3 DEF createMbox, DBShape, DBFields
  <1>5. d.inbox \in [Users -> Mbox \cup {0, -1}]
    <2> HIDE DEF m, d
    <2> QED  BY <1>2, <1>3, <1>4
  <1>6. "INBOX" \in Name  BY DEF Name
  <1>7. Fits(db, d, {}, {}, count.mbox, m, count.key)
    <2> HIDE DEF m, d
    <2> QED  BY <1>1, <1>2, <1>4, <1>5, <1>6, createMboxFits
  <1>8. TxIs("CreateUser", d, {}, {}, TRUE)
    <2>1. tx' = [NoTx EXCEPT !.op = "CreateUser", !.db = d]  BY DEF createUser
    <2> HIDE DEF d
    <2> QED  BY <2>1 DEF NoTx, TxIs, TxFields
  <1>9. /\ count' = [f \in CountFields |-> count'[f]]
        /\ count'.mbox = m /\ count'.key = count.key /\ count'.ops = count.ops + 1
        /\ count'.faults = count.faults
    <2>1. count = [f \in CountFields |-> count[f]]  BY <1>1, CountRecord
    <2> QED  BY <2>1 DEF createUser, CountFields
  <1>10. Idle /\ UNCHANGED <<db, read, ghost>> /\ blobs' = blobs \cup {} /\ dlv' \in DlvType
    BY DEF createUser, IInv, StoreShape
  <1> HIDE DEF m, d
  <1>11. count' \in CountType /\ count.mbox <= count'.mbox /\ count.key <= count'.key
    <2>1. count'.ops \in Nat /\ count'.faults \in Nat /\ count'.key \in 0 .. MaxKey
      BY <1>1, <1>9, CountTypes
    <2>2. count.mbox <= m  BY <1>1, <1>2 DEF Mbox
    <2> QED  BY <1>1, <1>2, <1>9, <2>1, <2>2, CountRecord
  <1>12. {} \in SUBSET Key /\ {} \cap Keys(db.rows) = {}  OBVIOUS
  <1> QED  BY <1>7, <1>8, <1>9, <1>10, <1>11, <1>12, Opening

LEMMA CreateMailboxInv ==
    ASSUME IInv, NEW u \in Users, NEW n \in Folders, CreateMailbox(u, n)
    PROVE  IInv'
  <1> DEFINE m == count.mbox + 1
             d == createMbox(db, m, u, n)
  <1>1. /\ Good(db, count.mbox, count.key) /\ count \in CountType
        /\ count.mbox \in Nat /\ count.key \in Nat
    BY DbGood
  <1>2. m \in Mbox /\ m > count.mbox /\ m \in 0 .. MaxMbox
    BY <1>1, BoundsAssumption DEF CreateMailbox, Mbox
  <1>3. DBShape(db) /\ db.inbox \in [Users -> Mbox \cup {0, -1}]  BY <1>1, GoodFacts
  <1>4. /\ DBShape(d) /\ d.mb = createMbox(db, m, u, n).mb
        /\ d.rows = db.rows /\ d.refs = db.refs /\ d.own = db.own /\ d.inbox = db.inbox
    <2> HIDE DEF m
    <2> QED  BY <1>3 DEF createMbox, DBShape, DBFields
  <1>5. n \in Name  BY DEF Name
  <1>6. TxIs("CreateMailbox", d, {}, {}, TRUE)
    <2>1. tx' = [NoTx EXCEPT !.op = "CreateMailbox", !.db = d]  BY DEF CreateMailbox
    <2> HIDE DEF d
    <2> QED  BY <2>1 DEF NoTx, TxIs, TxFields
  <1>7. /\ count' = [f \in CountFields |-> count'[f]]
        /\ count'.mbox = m /\ count'.key = count.key /\ count'.ops = count.ops + 1
        /\ count'.faults = count.faults
    <2>1. count = [f \in CountFields |-> count[f]]  BY <1>1, CountRecord
    <2> QED  BY <2>1 DEF CreateMailbox, CountFields
  <1>8. Idle /\ UNCHANGED <<db, read, ghost>> /\ blobs' = blobs \cup {} /\ dlv' \in DlvType
    BY DEF CreateMailbox, IInv, StoreShape
  <1> HIDE DEF m, d
  <1>9. Fits(db, d, {}, {}, count.mbox, m, count.key)
    BY <1>1, <1>2, <1>3, <1>4, <1>5, createMboxFits
  <1>10. count' \in CountType /\ count.mbox <= count'.mbox /\ count.key <= count'.key
    <2>1. count'.ops \in Nat /\ count'.faults \in Nat /\ count'.key \in 0 .. MaxKey
      BY <1>1, <1>7, CountTypes
    <2>2. count.mbox <= m  BY <1>1, <1>2 DEF Mbox
    <2> QED  BY <1>1, <1>2, <1>7, <2>1, <2>2, CountRecord
  <1>11. {} \in SUBSET Key /\ {} \cap Keys(db.rows) = {}  OBVIOUS
  <1> QED  BY <1>6, <1>7, <1>8, <1>9, <1>10, <1>11, Opening

(* A mailbox gets another name.                                            *)
Renamed(x, m, new) == [x EXCEPT !.mb[m].n = new]

LEMMA RenamedFields ==
    ASSUME NEW m \in Mbox, NEW new \in Name, NEW x, NEW cm, NEW ck, Good(x, cm, ck),
           NEW d, d = Renamed(x, m, new)
    PROVE  /\ DBShape(d) /\ d.rows = x.rows /\ d.refs = x.refs /\ d.own = x.own /\ d.inbox = x.inbox
           /\ d.mb \in [Mbox -> MboxRec]
           /\ d.mb[m].u = x.mb[m].u /\ d.mb[m].next = x.mb[m].next
           /\ \A o \in Mbox : o # m => d.mb[o] = x.mb[o]
  <1> DEFINE g == [x.mb[m] EXCEPT !.n = new]
  <1>1. DBShape(x) /\ x.mb \in [Mbox -> MboxRec]  BY GoodFacts
  <1>2. x.mb[m] = [f \in MboxFields |-> x.mb[m][f]] /\ x.mb[m].u \in Owner
        /\ x.mb[m].next \in Nat \ {0} /\ x.mb[m].cnt \in Int
    BY GoodFacts
  <1>3. /\ g = [f \in MboxFields |-> g[f]]
        /\ g.u = x.mb[m].u /\ g.n = new /\ g.next = x.mb[m].next /\ g.cnt = x.mb[m].cnt
    BY <1>2 DEF MboxFields
  <1>4. d = [x EXCEPT !.mb = [x.mb EXCEPT ![m] = g]]
    BY <1>1 DEF DBShape, DBFields, Renamed
  <1> HIDE DEF g
  <1>5. g \in MboxRec  BY <1>2, <1>3, MboxRecord
  <1>6. /\ DBShape(d) /\ d.rows = x.rows /\ d.refs = x.refs /\ d.own = x.own /\ d.inbox = x.inbox
        /\ d.mb = [x.mb EXCEPT ![m] = g]
    BY <1>1, <1>4 DEF DBShape, DBFields
  <1> QED  BY <1>1, <1>3, <1>5, <1>6

LEMMA RenameMailboxInv ==
    ASSUME IInv, NEW u \in Users, NEW n \in Name, NEW new \in Folders, RenameMailbox(u, n, new)
    PROVE  IInv'
  <1>1. /\ Good(db, count.mbox, count.key) /\ count \in CountType
        /\ count.mbox \in Nat /\ count.key \in Nat
    BY DbGood
  <1> DEFINE i == count.mbox + 1
             ren(m) == [db EXCEPT !.mb[m].n = new]
             made(m) == [createMbox(ren(m), i, u, n) EXCEPT !.inbox[u] = i]
             ok == mboxId(db, u, new) = {}
  <1>2. PICK m \in mboxId(db, u, n) :
          /\ n = "INBOX" => i <= MaxMbox
          /\ Idle
          /\ tx' = [NoTx EXCEPT !.op = "RenameMailbox", !.ok = ok,
                                !.db = IF n # "INBOX" THEN ren(m) ELSE made(m)]
          /\ count' = [count EXCEPT !.ops = @ + 1, !.mbox = IF n = "INBOX" THEN i ELSE @]
          /\ UNCHANGED <<db, blobs, dlv, read, ghost>>
    BY DEF RenameMailbox
  <1> DEFINE d == ren(m)
             e == IF n # "INBOX" THEN d ELSE made(m)
             c == IF n # "INBOX" THEN count.mbox ELSE i
  <1>3. m \in Mbox /\ db.mb[m].u = u  BY DEF mboxId
  <1>4. new \in Name  BY DEF Name
  <1>5. /\ DBShape(d) /\ d.rows = db.rows /\ d.refs = db.refs /\ d.own = db.own /\ d.inbox = db.inbox
        /\ d.mb \in [Mbox -> MboxRec]
        /\ d.mb[m].u = db.mb[m].u /\ d.mb[m].next = db.mb[m].next
        /\ \A o \in Mbox : o # m => d.mb[o] = db.mb[o]
    <2>1. d = Renamed(db, m, new)  BY DEF Renamed
    <2> HIDE DEF d
    <2> QED  BY <1>1, <1>3, <1>4, <2>1, RenamedFields
  <1>6. db.mb[m] # NoMbox /\ ~(m > count.mbox)
    <2>1. db.mb[m] # NoMbox  BY <1>3, UsersAssumption DEF NoMbox
    <2> QED  BY <1>1, <1>3, <2>1 DEF Good
  <1>7. TxIs("RenameMailbox", e, {}, {}, ok)
    <2>1. tx' = [NoTx EXCEPT !.op = "RenameMailbox", !.ok = ok, !.db = e]  BY <1>2
    <2> HIDE DEF e, ok
    <2> QED  BY <2>1 DEF NoTx, TxIs, TxFields
  <1>8. /\ count' = [f \in CountFields |-> count'[f]]
        /\ count'.mbox = c /\ count'.key = count.key /\ count'.ops = count.ops + 1
        /\ count'.faults = count.faults
    <2>1. count = [f \in CountFields |-> count[f]]  BY <1>1, CountRecord
    <2>2. count' = [count EXCEPT !.ops = @ + 1, !.mbox = c]  BY <1>2
    <2> HIDE DEF c
    <2> QED  BY <2>1, <2>2 DEF CountFields
  <1>9. Idle /\ UNCHANGED <<db, read, ghost>> /\ blobs' = blobs \cup {} /\ dlv' \in DlvType
    BY <1>2 DEF IInv, StoreShape
  <1>10. c \in 0 .. MaxMbox /\ count.mbox <= c
    <2>1. count.mbox \in 0 .. MaxMbox /\ MaxMbox \in Nat  BY <1>1, CountTypes, BoundsAssumption
    <2> QED  BY <1>1, <1>2, <2>1
  <1>11. DBShape(db) /\ db.inbox \in [Users -> Mbox \cup {0, -1}] /\ db.mb \in [Mbox -> MboxRec]
    BY <1>1, GoodFacts
  <1>12. Fits(db, d, {}, {}, count.mbox, count.mbox, count.key)
    <2> HIDE DEF d
    <2>1. \A o \in Mbox : db.mb[o] # NoMbox => d.mb[o].u = db.mb[o].u /\ d.mb[o].next = db.mb[o].next
      BY <1>5
    <2>2. \A o \in Mbox : db.mb[o] = NoMbox => d.mb[o] = NoMbox
      BY <1>5, <1>6
    <2>3. \A o \in Mbox : o > count.mbox \/ d.mb[o].u = "none" => d.mb[o] = NoMbox
      <3> TAKE o \in Mbox
      <3>1. CASE o = m  BY <1>3, <1>5, <1>6, <3>1, UsersAssumption
      <3>2. CASE o # m  BY <1>1, <1>5, <3>2 DEF Good
      <3> QED  BY <3>1, <3>2
    <2> QED  BY <1>1, <1>5, <1>11, <2>1, <2>2, <2>3, MailboxesFit
  <1>13. Fits(db, e, {}, {}, count.mbox, c, count.key)
    <2>1. CASE n # "INBOX"
      <3> HIDE DEF d
      <3> QED  BY <1>12, <2>1
    <2>2. CASE n = "INBOX"
      <3>1. e = [createMbox(d, i, u, n) EXCEPT !.inbox[u] = i] /\ c = i  BY <2>2
      <3>2. i \in Mbox /\ i > count.mbox  BY <1>1, <1>2, <2>2, BoundsAssumption DEF Mbox
      <3> HIDE DEF d, i, e, c
      <3>3. Good(d, count.mbox, count.key)  BY <1>12 DEF Fits
      <3>4. /\ DBShape(e) /\ e.mb = createMbox(d, i, u, n).mb
            /\ e.rows = d.rows /\ e.refs = d.refs /\ e.own = d.own
            /\ e.inbox = [d.inbox EXCEPT ![u] = i]
        BY <1>5, <3>1 DEF createMbox, DBShape, DBFields
      <3>5. e.inbox \in [Users -> Mbox \cup {0, -1}]  BY <1>5, <1>11, <3>2, <3>4
      <3>6. Fits(d, e, {}, {}, count.mbox, i, count.key)
        BY <1>1, <3>2, <3>3, <3>4, <3>5, createMboxFits
      <3>7. /\ Good(e, i, count.key)
            /\ \A o \in Mbox : db.mb[o] = NoMbox => e.mb[o] = NoMbox \/ o > count.mbox
        BY <1>1, <1>12, <3>6 DEF Fits
      <3>8. Extends(db, e)
        <4>1. \A o \in Mbox : d.mb[o].next \in Nat /\ db.mb[o].next \in Nat /\ e.mb[o].next \in Nat
          BY <1>1, <3>3, <3>7, GoodFacts
        <4>2. \A o \in Mbox : db.mb[o] # NoMbox => d.mb[o] # NoMbox /\ d.mb[o].next = db.mb[o].next
          <5> TAKE o \in Mbox
          <5>1. CASE o = m
            <6>1. d.mb[o].u # "none"  BY <1>3, <1>5, <5>1, UsersAssumption
            <6> QED  BY <1>5, <5>1, <6>1 DEF NoMbox
          <5>2. CASE o # m  BY <1>5, <5>2
          <5> QED  BY <5>1, <5>2
        <4>3. Extends(d, e)  BY <3>6 DEF Fits
        <4>4. e.rows = db.rows  BY <1>5, <3>4
        <4> QED  BY <4>1, <4>2, <4>3, <4>4 DEF Extends
      <3>9. e.refs = db.refs /\ e.rows = db.rows  BY <1>5, <3>4
      <3> QED  BY <3>1, <3>7, <3>8, <3>9 DEF Fits
    <2> QED  BY <2>1, <2>2
  <1> HIDE DEF i, c, d, e, ok
  <1>14. count' \in CountType /\ count.mbox <= count'.mbox /\ count.key <= count'.key
    <2>1. count'.ops \in Nat /\ count'.faults \in Nat /\ count'.key \in 0 .. MaxKey
      BY <1>1, <1>8, CountTypes
    <2> QED  BY <1>1, <1>8, <1>10, <2>1, CountRecord
  <1>15. {} \in SUBSET Key /\ {} \cap Keys(db.rows) = {}  OBVIOUS
  <1> QED  BY <1>7, <1>8, <1>9, <1>13, <1>14, <1>15, Opening

LEMMA CreateMessageInv ==
    ASSUME IInv, NEW m \in Mbox, NEW del \in BOOLEAN, CreateMessage(m, del)
    PROVE  IInv'
  <1> DEFINE k == count.key + 1
             d == addMsg(db, m, k, del)
  <1>1. /\ Good(db, count.mbox, count.key) /\ count \in CountType
        /\ count.mbox \in Nat /\ count.key \in Nat
    BY DbGood
  <1>2. k \in Key /\ k \in 0 .. MaxKey /\ count.key <= k
    BY <1>1, BoundsAssumption DEF CreateMessage, Key
  <1>3. TxIs("CreateMessage", d, {}, {k}, TRUE)
    <2>1. tx' = [NoTx EXCEPT !.op = "CreateMessage", !.made = {k}, !.db = d]
      BY DEF CreateMessage
    <2> HIDE DEF d, k
    <2> QED  BY <2>1 DEF NoTx, TxIs, TxFields
  <1>4. /\ count' = [f \in CountFields |-> count'[f]]
        /\ count'.mbox = count.mbox /\ count'.key = k /\ count'.ops = count.ops + 1
        /\ count'.faults = count.faults
    <2>1. count = [f \in CountFields |-> count[f]]  BY <1>1, CountRecord
    <2> QED  BY <2>1 DEF CreateMessage, CountFields
  <1>5. Idle /\ UNCHANGED <<db, read, ghost>> /\ blobs' = blobs \cup {k} /\ dlv' \in DlvType
    BY DEF CreateMessage, IInv, StoreShape
  <1>6. db.mb[m] # NoMbox /\ Extends(db, db) /\ k = count.key + 1
    BY <1>1, ExtendsSelf DEF CreateMessage
  <1>7. k \notin Keys(db.rows)
    <2>1. \A r \in db.rows : r.k \in Key /\ r.k <= count.key
      <3>1. \A r \in db.rows : r.k \in Key  BY <1>1, GoodFacts
      <3> QED  BY <1>1, <3>1 DEF Good
    <2> QED  BY <1>1, <2>1 DEF Keys, Key
  <1> HIDE DEF d, k
  <1>8. Added(db, db, d, count.mbox, k)
    <2>1. d = addMsg(db, m, k, del)  BY DEF d
    <2> QED  BY <1>1, <1>2, <1>6, <2>1, addMsgFits
  <1>9. Fits(db, d, {}, {k}, count.mbox, count.mbox, k)
    BY <1>8 DEF Fits, Added
  <1>10. count' \in CountType /\ count.mbox <= count'.mbox /\ count.key <= count'.key
    <2>1. count'.ops \in Nat /\ count'.faults \in Nat /\ count'.mbox \in 0 .. MaxMbox
      BY <1>1, <1>4, CountTypes
    <2> QED  BY <1>1, <1>2, <1>4, <2>1, CountRecord
  <1>11. {} \in SUBSET Key /\ {k} \in SUBSET Key /\ {k} \cap Keys(db.rows) = {}  BY <1>2, <1>7
  <1> QED  BY <1>3, <1>4, <1>5, <1>9, <1>10, <1>11, Opening

FlagRow(r, del) == [r EXCEPT !.del = del]

LEMMA FlagRowFields ==
    ASSUME NEW r \in Row, NEW del \in BOOLEAN
    PROVE  /\ FlagRow(r, del) \in Row
           /\ FlagRow(r, del).m = r.m /\ FlagRow(r, del).uid = r.uid /\ FlagRow(r, del).k = r.k
  <1>1. RowShape(r) /\ r.m \in Mbox /\ r.uid \in Nat \ {0} /\ r.k \in Key  BY RowRecord
  <1>2. /\ RowShape(FlagRow(r, del)) /\ FlagRow(r, del).del = del
        /\ FlagRow(r, del).m = r.m /\ FlagRow(r, del).uid = r.uid /\ FlagRow(r, del).k = r.k
    BY <1>1 DEF RowShape, RowFields, FlagRow
  <1> QED  BY <1>1, <1>2, RowRecord

LEMMA UpdateMessagesFlagsInv ==
    ASSUME IInv, NEW m \in Mbox, NEW uids, NEW del \in BOOLEAN, UpdateMessagesFlags(m, uids, del)
    PROVE  IInv'
  <1> DEFINE rows == {r \in Rows(db, m) : r.uid \in uids /\ r.del # del}
             news == {FlagRow(r, del) : r \in rows}
             d == [db EXCEPT !.rows = (@ \ rows) \cup news]
  <1>1. /\ Good(db, count.mbox, count.key) /\ count.mbox \in Nat
    BY DbGood
  <1>2. Begin("UpdateMessagesFlags", d, {}, TRUE)
    BY DEF UpdateMessagesFlags, FlagRow
  <1>3. rows \subseteq db.rows  BY DEF Rows
  <1>4. /\ DBShape(db) /\ db.rows \subseteq Row
        /\ db.mb \in [Mbox -> MboxRec] /\ db.inbox \in [Users -> Mbox \cup {0, -1}]
        /\ db.refs \in [Key -> Int]
        /\ \A r \in db.rows : r.m \in Mbox /\ db.mb[r.m] # NoMbox
    BY <1>1, GoodFacts
  <1>5. /\ IsFiniteSet(db.rows)
        /\ \A k \in Key : db.refs[k] = -1 \/ db.refs[k] >= 1
        /\ \A r \in db.rows : db.refs[r.k] >= 1
    BY <1>1 DEF Good
  <1>6. news \subseteq Row /\ \A c \in news : \E o \in db.rows : o.m = c.m /\ o.uid = c.uid /\ o.k = c.k
    <2> SUFFICES ASSUME NEW c \in news
                 PROVE  c \in Row /\ \E o \in db.rows : o.m = c.m /\ o.uid = c.uid /\ o.k = c.k
      OBVIOUS
    <2>1. PICK r \in rows : c = FlagRow(r, del)  OBVIOUS
    <2> HIDE DEF rows, news
    <2>2. r \in db.rows /\ r \in Row  BY <1>3, <1>4
    <2> QED  BY <2>1, <2>2, FlagRowFields
  <1>7. IsFiniteSet(news)
    <2> DEFINE f == [r \in rows |-> FlagRow(r, del)]
    <2>1. f \in [rows -> news]  OBVIOUS
    <2>2. \A c \in news : \E r \in rows : f[r] = c  OBVIOUS
    <2> HIDE DEF f, rows, news
    <2>3. f \in Surjection(rows, news)  BY <2>1, <2>2 DEF Surjection
    <2>4. IsFiniteSet(rows)  BY <1>3, <1>5, FS_Subset
    <2> QED  BY <2>3, <2>4, FS_Surjection
  <1> HIDE DEF rows, news
  <1>8. /\ DBShape(d) /\ d.mb = db.mb /\ d.refs = db.refs /\ d.own = db.own /\ d.inbox = db.inbox
        /\ d.rows = (db.rows \ rows) \cup news
    BY <1>4 DEF DBShape, DBFields
  <1> HIDE DEF d
  <1>9. IsFiniteSet(d.rows)
    <2>1. IsFiniteSet(db.rows \ rows)  BY <1>5, FS_Difference
    <2> QED  BY <1>7, <1>8, <2>1, FS_Union
  <1>10. /\ d.rows \subseteq Row
         /\ \A r \in d.rows : \E o \in db.rows : o.m = r.m /\ o.uid = r.uid /\ o.k = r.k
    BY <1>4, <1>6, <1>8
  <1>11. \A r \in d.rows : d.mb[r.m] # NoMbox /\ d.refs[r.k] >= 1 /\ r.k \notin {}
    <2> TAKE r \in d.rows
    <2>1. PICK o \in db.rows : o.m = r.m /\ o.uid = r.uid /\ o.k = r.k  BY <1>10
    <2> QED  BY <1>4, <1>5, <1>8, <2>1
  <1>12. \A o \in Mbox : \/ d.mb[o] = NoMbox
                         \/ /\ db.mb[o] # NoMbox /\ d.mb[o].u = db.mb[o].u
                            /\ d.mb[o].next = db.mb[o].next
    BY <1>8
  <1>13. /\ d.mb \in [Mbox -> MboxRec] /\ d.inbox \in [Users -> Mbox \cup {0, -1}]
         /\ d.refs \in [Key -> Int] /\ d.own = db.own /\ DBShape(d)
         /\ \A k \in Key : d.refs[k] = -1 \/ d.refs[k] >= 1
         /\ \A k \in Key : db.refs[k] # -1 => d.refs[k] # -1 \/ k \in {}
    BY <1>4, <1>5, <1>8
  <1>14. Fits(db, d, {}, {}, count.mbox, count.mbox, count.key)
    BY <1>1, <1>9, <1>10, <1>11, <1>12, <1>13, OldRowsFit
  <1>15. {} \in SUBSET Key  OBVIOUS
  <1> QED  BY <1>2, <1>14, <1>15, BeginOpens

LEMMA CopyMessagesInv ==
    ASSUME IInv, NEW m \in Mbox, NEW uids, NEW dest \in Mbox, CopyMessages(m, uids, dest)
    PROVE  IInv'
  <1> DEFINE rows == {r \in Rows(db, m) : r.uid \in uids}
             u == db.mb[m].u
             n == Cardinality(rows)
             C == copyRows(db, rows, dest)
             i == incrementMsgCounters(db, dest, n)
             j == [i EXCEPT !.rows = @ \cup C]
             e == AddRefs(j, Keys(rows), u, 1)
  <1>1. Good(db, count.mbox, count.key) /\ count.mbox \in Nat  BY DbGood
  <1>2. rows \subseteq Rows(db, m) /\ rows \subseteq db.rows  BY DEF Rows
  <1>3. rows # {} /\ db.mb[dest].u = u /\ Begin("CopyMessages", e, {}, TRUE)
    BY DEF CopyMessages, copyMessages
  <1> HIDE DEF rows
  <1>4. n \in Nat  BY <1>1, <1>2, copyRowsFacts
  <1> HIDE DEF n, C
  <1>5. /\ DBShape(db) /\ db.mb \in [Mbox -> MboxRec] /\ db.refs \in [Key -> Int]
        /\ \A r \in db.rows : r.k \in Key
    BY <1>1, GoodFacts
  <1>6. /\ DBShape(i) /\ i.mb \in [Mbox -> MboxRec]
        /\ i.rows = db.rows /\ i.refs = db.refs /\ i.own = db.own /\ i.inbox = db.inbox
        /\ i.mb[dest].u = db.mb[dest].u /\ i.mb[dest].next = db.mb[dest].next + n
        /\ \A o \in Mbox : o # dest => i.mb[o] = db.mb[o]
    <2> HIDE DEF i
    <2>1. i = incrementMsgCounters(db, dest, n)  BY DEF i
    <2> QED  BY <1>4, <1>5, <2>1, CountersFields
  <1> HIDE DEF i
  <1>7. /\ DBShape(j) /\ j.mb = i.mb /\ j.rows = db.rows \cup C /\ j.refs = i.refs
        /\ j.own = i.own /\ j.inbox = i.inbox
    BY <1>6 DEF DBShape, DBFields
  <1> HIDE DEF j, u
  <1>8. /\ DBShape(e) /\ e.mb = j.mb /\ e.rows = j.rows /\ e.own = j.own /\ e.inbox = j.inbox
        /\ e.refs \in [Key -> Int]
        /\ \A k \in Key : e.refs[k] = IF k \in Keys(rows) /\ j.own[k] = u THEN j.refs[k] + 1 ELSE j.refs[k]
    <2> HIDE DEF e
    <2>1. e = AddRefs(j, Keys(rows), u, 1) /\ 1 \in Int /\ j.refs \in [Key -> Int]
      BY <1>5, <1>6, <1>7 DEF e
    <2> QED  BY <1>7, <2>1, AddRefsFields
  <1> HIDE DEF e
  <1>9. \A k \in Key : e.refs[k] = db.refs[k] \/ (db.refs[k] >= 1 /\ e.refs[k] = db.refs[k] + 1)
    <2>1. \A k \in Keys(rows) : db.refs[k] >= 1  BY <1>1, <1>2 DEF Keys, Good
    <2> QED  BY <1>6, <1>7, <1>8, <2>1
  <1>10. Fits(db, e, {}, {}, count.mbox, count.mbox, count.key)
    <2>1. C = copyRows(db, rows, dest) /\ db.mb[dest].u = db.mb[m].u  BY <1>3 DEF C, u
    <2>2. e.mb \in [Mbox -> MboxRec] /\ e.inbox = db.inbox /\ e.own = db.own /\ e.rows = db.rows \cup C
      BY <1>6, <1>7, <1>8
    <2>3. /\ \A o \in Mbox : e.mb[o].u = db.mb[o].u
          /\ e.mb[dest].next = db.mb[dest].next + Cardinality(rows)
          /\ \A o \in Mbox : o # dest => e.mb[o].next = db.mb[o].next
          /\ \A o \in Mbox : o # dest /\ o # m => e.mb[o] = db.mb[o]
      BY <1>6, <1>7, <1>8 DEF n
    <2>4. DBShape(e) /\ e.refs \in [Key -> Int] /\ db.rows \subseteq db.rows  BY <1>8
    <2>5. Copied(db, e, m, dest, rows, db.rows)
      BY <1>2, <1>3, <1>9, <2>1, <2>2, <2>3, <2>4 DEF Copied
    <2> QED  BY <1>1, <2>5, CopiesFit
  <1>11. {} \in SUBSET Key  OBVIOUS
  <1> QED  BY <1>3, <1>10, <1>11, BeginOpens

LEMMA MoveMessagesInv ==
    ASSUME IInv, NEW m \in Mbox, NEW uids, NEW dest \in Mbox, MoveMessages(m, uids, dest)
    PROVE  IInv'
  <1> DEFINE rows == {r \in Rows(db, m) : r.uid \in uids}
             n == Cardinality(rows)
             C == copyRows(db, rows, dest)
             g == [db.mb[m] EXCEPT !.cnt = @ - n]
             i == [db EXCEPT !.rows = (@ \ rows) \cup C, !.mb[m].cnt = @ - n]
             e == incrementMsgCounters(i, dest, n)
  <1>1. Good(db, count.mbox, count.key) /\ count.mbox \in Nat  BY DbGood
  <1>2. rows \subseteq Rows(db, m)  OBVIOUS
  <1>3. rows # {} /\ db.mb[dest].u = db.mb[m].u /\ Begin("MoveMessages", e, {}, TRUE)
    BY DEF MoveMessages, moveMessages
  <1> HIDE DEF rows
  <1>4. n \in Nat  BY <1>1, <1>2, copyRowsFacts
  <1> HIDE DEF n, C
  <1>5. DBShape(db) /\ db.mb \in [Mbox -> MboxRec] /\ db.refs \in [Key -> Int]
    BY <1>1, GoodFacts
  <1>6. /\ g = [f \in MboxFields |-> g[f]] /\ g.u = db.mb[m].u /\ g.n = db.mb[m].n
        /\ g.next = db.mb[m].next /\ g.cnt = db.mb[m].cnt - n
    <2>1. db.mb[m] = [f \in MboxFields |-> db.mb[m][f]]  BY <1>1, GoodFacts
    <2> QED  BY <2>1 DEF MboxFields
  <1>7. i = [[db EXCEPT !.rows = (@ \ rows) \cup C] EXCEPT !.mb = [db.mb EXCEPT ![m] = g]]
    BY <1>5 DEF DBShape, DBFields
  <1> HIDE DEF g
  <1>8. g \in MboxRec
    <2>1. /\ db.mb[m].u \in Owner /\ db.mb[m].n \in Name \cup {"none"}
          /\ db.mb[m].next \in Nat \ {0} /\ db.mb[m].cnt \in Int
      BY <1>1, GoodFacts
    <2> QED  BY <1>4, <1>6, <2>1, MboxRecord
  <1>9. /\ DBShape(i) /\ i.mb = [db.mb EXCEPT ![m] = g] /\ i.rows = (db.rows \ rows) \cup C
        /\ i.refs = db.refs /\ i.own = db.own /\ i.inbox = db.inbox
    <2> HIDE DEF i
    <2> QED  BY <1>5, <1>7 DEF DBShape, DBFields
  <1> HIDE DEF i
  <1>10. i.mb \in [Mbox -> MboxRec] /\ \A o \in Mbox : i.mb[o] = IF o = m THEN g ELSE db.mb[o]
    BY <1>5, <1>8, <1>9
  <1>11. /\ DBShape(e) /\ e.mb \in [Mbox -> MboxRec]
         /\ e.rows = i.rows /\ e.refs = i.refs /\ e.own = i.own /\ e.inbox = i.inbox
         /\ e.mb[dest].u = i.mb[dest].u /\ e.mb[dest].next = i.mb[dest].next + n
         /\ \A o \in Mbox : o # dest => e.mb[o] = i.mb[o]
    <2> HIDE DEF e
    <2>1. e = incrementMsgCounters(i, dest, n)  BY DEF e
    <2> QED  BY <1>4, <1>9, <1>10, <2>1, CountersFields
  <1> HIDE DEF e
  <1>12. Fits(db, e, {}, {}, count.mbox, count.mbox, count.key)
    <2>1. C = copyRows(db, rows, dest) /\ db.rows \ rows \subseteq db.rows  BY DEF C
    <2>2. /\ e.inbox = db.inbox /\ e.own = db.own /\ e.rows = (db.rows \ rows) \cup C
          /\ e.refs = db.refs /\ e.refs \in [Key -> Int]
      BY <1>5, <1>9, <1>11
    <2>3. /\ \A o \in Mbox : e.mb[o].u = db.mb[o].u
          /\ e.mb[dest].next = db.mb[dest].next + Cardinality(rows)
          /\ \A o \in Mbox : o # dest => e.mb[o].next = db.mb[o].next
          /\ \A o \in Mbox : o # dest /\ o # m => e.mb[o] = db.mb[o]
      BY <1>6, <1>10, <1>11 DEF n
    <2>4. DBShape(e) /\ e.mb \in [Mbox -> MboxRec]  BY <1>11
    <2>5. Copied(db, e, m, dest, rows, db.rows \ rows)
      BY <1>2, <1>3, <2>1, <2>2, <2>3, <2>4 DEF Copied
    <2> QED  BY <1>1, <2>5, CopiesFit
  <1>13. {} \in SUBSET Key  OBVIOUS
  <1> QED  BY <1>3, <1>12, <1>13, BeginOpens

LEMMA ExpungeInv ==
    ASSUME IInv, NEW m \in Mbox, Expunge(m)
    PROVE  IInv'
  <1> DEFINE dead == {r \in Rows(db, m) : r.del}
             u == db.mb[m].u
             d == expungeExternal(db, m, dead)
             n == Cardinality(dead)
             g == [db.mb[m] EXCEPT !.cnt = @ - n]
             e == [d EXCEPT !.rows = @ \ dead, !.mb[m].cnt = @ - n]
             f == deleteZeroRef(e, u)
             kill == zeroRef(d, m)
             ok == ~Restricted(e, u)
  <1>1. Good(db, count.mbox, count.key) /\ count.mbox \in Nat  BY DbGood
  <1>2. dead \subseteq Rows(db, m) /\ dead \subseteq db.rows  BY DEF Rows
  <1>3. Begin("Expunge", f, kill, ok)
    BY DEF Expunge, ExpungeTx
  <1> HIDE DEF dead
  <1>4. IsFiniteSet(dead) /\ n \in Nat
    <2>1. IsFiniteSet(db.rows)  BY <1>1 DEF Good
    <2>2. IsFiniteSet(dead)  BY <1>2, <2>1, FS_Subset
    <2> QED  BY <2>2, FS_CardinalityType
  <1> HIDE DEF n
  <1>5. /\ DBShape(db) /\ db.mb \in [Mbox -> MboxRec] /\ db.refs \in [Key -> Int]
        /\ db.inbox \in [Users -> Mbox \cup {0, -1}]
        /\ \A r \in db.rows : r.k \in Key /\ r.m \in Mbox /\ db.mb[r.m] # NoMbox
    BY <1>1, GoodFacts
  <1>6. /\ DBShape(d) /\ d.mb = db.mb /\ d.rows = db.rows /\ d.own = db.own /\ d.inbox = db.inbox
        /\ d.refs \in [Key -> Int]
        /\ \A k \in Key : d.refs[k] = IF k \in Keys(dead) /\ db.own[k] = u THEN db.refs[k] + (-1)
                                      ELSE db.refs[k]
    <2>1. d = AddRefs(db, Keys(dead), u, -1) /\ -1 \in Int  BY DEF expungeExternal
    <2> HIDE DEF d
    <2> QED  BY <1>5, <2>1, AddRefsFields
  <1>7. /\ g = [x \in MboxFields |-> g[x]] /\ g.u = db.mb[m].u /\ g.n = db.mb[m].n
        /\ g.next = db.mb[m].next /\ g.cnt = db.mb[m].cnt - n
    <2>1. db.mb[m] = [x \in MboxFields |-> db.mb[m][x]]  BY <1>1, GoodFacts
    <2> QED  BY <2>1 DEF MboxFields
  <1> HIDE DEF d
  <1>8. e = [[d EXCEPT !.rows = @ \ dead] EXCEPT !.mb = [d.mb EXCEPT ![m] = g]]
    BY <1>6 DEF DBShape, DBFields
  <1> HIDE DEF g
  <1>9. g \in MboxRec
    <2>1. /\ db.mb[m].u \in Owner /\ db.mb[m].n \in Name \cup {"none"}
          /\ db.mb[m].next \in Nat \ {0} /\ db.mb[m].cnt \in Int
      BY <1>1, GoodFacts
    <2> QED  BY <1>4, <1>7, <2>1, MboxRecord
  <1>10. /\ DBShape(e) /\ e.mb = [db.mb EXCEPT ![m] = g] /\ e.rows = db.rows \ dead
         /\ e.refs = d.refs /\ e.own = db.own /\ e.inbox = db.inbox
    <2> HIDE DEF e
    <2> QED  BY <1>6, <1>8 DEF DBShape, DBFields
  <1> HIDE DEF e
  <1>11. e.mb \in [Mbox -> MboxRec] /\ \A o \in Mbox : e.mb[o] = IF o = m THEN g ELSE db.mb[o]
    BY <1>5, <1>9, <1>10
  <1>12. db.mb[m] # NoMbox /\ g # NoMbox
    <2>1. \E r \in db.rows : r.m = m  BY DEF Expunge, Rows
    <2>2. db.mb[m] # NoMbox  BY <1>5, <2>1
    <2>3. db.mb[m].u # "none"  BY <1>1, <2>2 DEF Good
    <2> QED  BY <1>7, <2>2, <2>3 DEF NoMbox
  <1>13. \A k \in Key : (k \in Keys(dead) => db.refs[k] >= 1)
                        /\ db.refs[k] \in Int /\ (db.refs[k] = -1 \/ db.refs[k] >= 1)
    <2>1. \A k \in Key : db.refs[k] \in Int  BY <1>5
    <2> QED  BY <1>1, <1>2, <2>1 DEF Good, Keys
  <1>14. \A k \in kill : k \in Key /\ d.refs[k] = 0 /\ k \in Keys(db.rows)
    BY <1>5, <1>6 DEF zeroRef, Keys, Rows
  <1>15. \A k \in Key : d.refs[k] = 0 => k \in kill
    <2> TAKE k \in Key
    <2> HAVE d.refs[k] = 0
    <2>1. k \in Keys(dead)  BY <1>6, <1>13
    <2>2. k \in Keys(Rows(d, m))  BY <1>2, <1>6, <2>1 DEF Keys, Rows
    <2> QED  BY <2>2 DEF zeroRef
  <1> HIDE DEF kill, u
  <1>16. Released(db, e, u, kill, Keys(dead))
    <2>1. Keys(dead) \subseteq Keys(db.rows)  BY <1>2 DEF Keys
    <2>2. \A k \in Key : e.refs[k] = IF k \in Keys(dead) /\ db.own[k] = u
                                     THEN db.refs[k] - 1 ELSE db.refs[k]
      BY <1>6, <1>10, <1>13
    <2>3. \A o \in Mbox : \/ e.mb[o] = NoMbox
                          \/ /\ db.mb[o] # NoMbox /\ e.mb[o].u = db.mb[o].u
                             /\ e.mb[o].next = db.mb[o].next
      BY <1>7, <1>11, <1>12
    <2>4. \A r \in e.rows : e.mb[r.m] # NoMbox
      BY <1>5, <1>10, <1>11, <1>12
    <2>5. /\ \A k \in Key : e.refs[k] = 0 => k \in kill
          /\ \A k \in kill : k \in Key /\ e.refs[k] = 0
      BY <1>10, <1>14, <1>15
    <2>6. e.inbox \in [Users -> Mbox \cup {0, -1}] /\ e.refs \in [Key -> Int] /\ e.rows \subseteq db.rows
      BY <1>5, <1>6, <1>10
    <2> QED  BY <1>10, <1>11, <2>1, <2>2, <2>3, <2>4, <2>5, <2>6 DEF Released
  <1>17. ok => Fits(db, f, kill, {}, count.mbox, count.mbox, count.key)
    BY <1>1, <1>16, ReleaseFits
  <1>18. kill \in SUBSET Key /\ \A k \in kill : db.refs[k] # -1
    <2>1. \A k \in Keys(db.rows) : db.refs[k] >= 1  BY <1>1 DEF Good, Keys
    <2> QED  BY <1>14, <2>1
  <1> HIDE DEF f, ok
  <1> QED  BY <1>3, <1>17, <1>18, BeginOpens DEF Killers

(* The mailboxes ms are deleted with their messages; ON DELETE CASCADE.    *)
Without(x, ms) ==
    [x EXCEPT !.mb = [m \in Mbox |-> IF m \in ms THEN NoMbox ELSE @[m]],
              !.rows = {r \in @ : r.m \notin ms}]

LEMMA WithoutFields ==
    ASSUME NEW x, NEW ms, DBShape(x), x.mb \in [Mbox -> MboxRec],
           NEW e, e = Without(x, ms)
    PROVE  /\ DBShape(e) /\ e.mb \in [Mbox -> MboxRec]
           /\ \A m \in Mbox : e.mb[m] = IF m \in ms THEN NoMbox ELSE x.mb[m]
           /\ e.rows = {r \in x.rows : r.m \notin ms}
           /\ e.refs = x.refs /\ e.own = x.own /\ e.inbox = x.inbox
  <1> DEFINE g == [m \in Mbox |-> IF m \in ms THEN NoMbox ELSE x.mb[m]]
             R == {r \in x.rows : r.m \notin ms}
  <1>1. g \in [Mbox -> MboxRec] /\ \A m \in Mbox : g[m] = IF m \in ms THEN NoMbox ELSE x.mb[m]
    BY NoMboxRecord
  <1>2. e = [x EXCEPT !.mb = g, !.rows = R]  BY DEF Without
  <1> HIDE DEF g, R
  <1>3. /\ DBShape(e) /\ e.mb = g /\ e.rows = R
        /\ e.refs = x.refs /\ e.own = x.own /\ e.inbox = x.inbox
    BY <1>2 DEF DBShape, DBFields
  <1>4. R = {r \in x.rows : r.m \notin ms}  BY DEF R
  <1> QED  BY <1>1, <1>3, <1>4

LEMMA DeleteUserInv ==
    ASSUME IInv, NEW u \in Users, DeleteUser(u)
    PROVE  IInv'
  <1> DEFINE mine == {m \in Mbox : db.mb[m].u = u}
             x == [db EXCEPT !.inbox[u] = -1]
             d == Without(x, mine)
             kill == {k \in Key : db.own[k] = u /\ db.refs[k] # -1}
  <1>1. Good(db, count.mbox, count.key) /\ count.mbox \in Nat  BY DbGood
  <1>2. /\ DBShape(db) /\ db.mb \in [Mbox -> MboxRec] /\ db.refs \in [Key -> Int]
        /\ db.inbox \in [Users -> Mbox \cup {0, -1}] /\ db.rows \subseteq Row
        /\ \A r \in db.rows : r.k \in Key /\ r.m \in Mbox /\ db.mb[r.m] # NoMbox
    BY <1>1, GoodFacts
  <1>3. Begin("DeleteUser", d, kill, TRUE)
    BY <1>2 DEF DeleteUser, deleteUserRef, Without, DBShape, DBFields
  <1>4. /\ DBShape(x) /\ x.mb = db.mb /\ x.rows = db.rows /\ x.refs = db.refs /\ x.own = db.own
        /\ x.inbox = [db.inbox EXCEPT ![u] = -1]
    BY <1>2 DEF DBShape, DBFields
  <1> HIDE DEF x
  <1>5. x.inbox \in [Users -> Mbox \cup {0, -1}]  BY <1>2, <1>4
  <1>6. \A m \in Mbox : m \in mine <=> db.mb[m].u = u  OBVIOUS
  <1>7. \A k \in kill : k \in Key /\ db.own[k] = u /\ db.refs[k] # -1  OBVIOUS
  <1> HIDE DEF mine, kill
  <1>8. /\ DBShape(d) /\ d.mb \in [Mbox -> MboxRec]
        /\ \A m \in Mbox : d.mb[m] = IF m \in mine THEN NoMbox ELSE x.mb[m]
        /\ d.rows = {r \in x.rows : r.m \notin mine}
        /\ d.refs = x.refs /\ d.own = x.own /\ d.inbox = x.inbox
    <2>1. d = Without(x, mine)  OBVIOUS
    <2> HIDE DEF d
    <2> QED  BY <1>2, <1>4, <2>1, WithoutFields
  <1> HIDE DEF d
  <1>9. ASSUME NEW r \in d.rows
        PROVE  r \in db.rows /\ r.m \notin mine /\ d.mb[r.m] # NoMbox /\ d.refs[r.k] >= 1 /\ r.k \notin kill
    <2>1. r \in db.rows /\ r.m \notin mine  BY <1>4, <1>8
    <2>2. r.m \in Mbox /\ db.mb[r.m].u # u  BY <1>2, <1>6, <2>1
    <2>3. db.refs[r.k] >= 1 /\ db.own[r.k] = db.mb[r.m].u  BY <1>1, <2>1 DEF Good
    <2> QED  BY <1>2, <1>4, <1>7, <1>8, <2>1, <2>2, <2>3
  <1>10. Fits(db, d, kill, {}, count.mbox, count.mbox, count.key)
    <2>1. d.rows \subseteq Row /\ IsFiniteSet(d.rows)
      <3>1. IsFiniteSet(db.rows)  BY <1>1 DEF Good
      <3>2. d.rows \subseteq db.rows  BY <1>9
      <3> QED  BY <1>2, <3>1, <3>2, FS_Subset
    <2>2. \A r \in d.rows : \E o \in db.rows : o.m = r.m /\ o.uid = r.uid /\ o.k = r.k  BY <1>9
    <2>3. \A m \in Mbox : \/ d.mb[m] = NoMbox
                          \/ /\ db.mb[m] # NoMbox /\ d.mb[m].u = db.mb[m].u
                             /\ d.mb[m].next = db.mb[m].next
      BY <1>4, <1>8
    <2>4. \A k \in Key : db.refs[k] = -1 \/ db.refs[k] >= 1  BY <1>1 DEF Good
    <2>5. /\ DBShape(d) /\ d.mb \in [Mbox -> MboxRec] /\ d.inbox \in [Users -> Mbox \cup {0, -1}]
          /\ d.refs \in [Key -> Int] /\ d.own = db.own
          /\ \A k \in Key : d.refs[k] = -1 \/ d.refs[k] >= 1
          /\ \A k \in Key : db.refs[k] # -1 => d.refs[k] # -1 \/ k \in kill
      BY <1>2, <1>4, <1>5, <1>8, <2>4
    <2> QED  BY <1>1, <1>9, <2>1, <2>2, <2>3, <2>5, OldRowsFit
  <1>11. kill \in SUBSET Key /\ \A k \in kill : db.refs[k] # -1  BY <1>7
  <1> QED  BY <1>3, <1>10, <1>11, BeginOpens DEF Killers

LEMMA DeleteMailboxInv ==
    ASSUME IInv, NEW u \in Users, NEW n \in Folders, DeleteMailbox(u, n)
    PROVE  IInv'
  <1> DEFINE named == {m \in Mbox : db.mb[m].n = n}
             first == CHOOSE m \in named : \A o \in named : m <= o
             ks == IF named = {} THEN {} ELSE Keys(Rows(db, first))
             d == decreaseRefForMbox(db, u, n)
             ms == mboxId(db, u, n)
             e == Without(d, ms)
             f == deleteZeroRef(e, u)
             kill == zeroRefUser(d, u)
             ok == ms # {} /\ ~Restricted(e, u)
  <1>1. Good(db, count.mbox, count.key) /\ count.mbox \in Nat  BY DbGood
  <1>2. /\ DBShape(db) /\ db.mb \in [Mbox -> MboxRec] /\ db.refs \in [Key -> Int]
        /\ db.inbox \in [Users -> Mbox \cup {0, -1}]
        /\ \A r \in db.rows : r.k \in Key /\ r.m \in Mbox /\ db.mb[r.m] # NoMbox
    BY <1>1, GoodFacts
  <1>3. Begin("DeleteMailbox", f, kill, ok)  BY DEF DeleteMailbox, Without
  <1>4. ks \subseteq Keys(db.rows)  BY DEF Keys, Rows
  <1>5. /\ DBShape(d) /\ d.mb = db.mb /\ d.rows = db.rows /\ d.own = db.own /\ d.inbox = db.inbox
        /\ d.refs \in [Key -> Int]
        /\ \A k \in Key : d.refs[k] = IF k \in ks /\ db.own[k] = u THEN db.refs[k] + (-1)
                                      ELSE db.refs[k]
    <2>1. CASE named = {}
      <3>1. d = db /\ ks = {}  BY <2>1 DEF decreaseRefForMbox
      <3> HIDE DEF d, ks
      <3> QED  BY <1>2, <3>1
    <2>2. CASE named # {}
      <3>1. d = AddRefs(db, ks, u, -1) /\ -1 \in Int  BY <2>2 DEF decreaseRefForMbox
      <3> HIDE DEF d, ks
      <3> QED  BY <1>2, <3>1, AddRefsFields
    <2> QED  BY <2>1, <2>2
  <1> HIDE DEF ks, d, named, first
  <1>6. /\ DBShape(e) /\ e.mb \in [Mbox -> MboxRec]
        /\ \A m \in Mbox : e.mb[m] = IF m \in ms THEN NoMbox ELSE d.mb[m]
        /\ e.rows = {r \in d.rows : r.m \notin ms}
        /\ e.refs = d.refs /\ e.own = d.own /\ e.inbox = d.inbox
    <2>1. e = Without(d, ms)  OBVIOUS
    <2> HIDE DEF e, ms
    <2> QED  BY <1>2, <1>5, <2>1, WithoutFields
  <1>7. \A k \in kill : k \in Key /\ d.refs[k] = 0  BY DEF zeroRefUser
  <1>8. \A k \in Key : (k \in ks => db.refs[k] >= 1)
                       /\ db.refs[k] \in Int /\ (db.refs[k] = -1 \/ db.refs[k] >= 1)
    <2>1. \A k \in Key : db.refs[k] \in Int  BY <1>2
    <2>2. \A k \in Keys(db.rows) : db.refs[k] >= 1  BY <1>1 DEF Good, Keys
    <2>3. \A k \in Key : db.refs[k] = -1 \/ db.refs[k] >= 1  BY <1>1 DEF Good
    <2> QED  BY <1>4, <2>1, <2>2, <2>3
  <1>9. \A k \in Key : d.refs[k] = 0 => k \in kill
    <2> TAKE k \in Key
    <2> HAVE d.refs[k] = 0
    <2>1. k \in ks /\ db.own[k] = u  BY <1>5, <1>8
    <2> QED  BY <1>5, <2>1 DEF zeroRefUser
  <1> HIDE DEF e, kill, ms
  <1>10. Released(db, e, u, kill, ks)
    <2>1. \A k \in Key : e.refs[k] = IF k \in ks /\ db.own[k] = u THEN db.refs[k] - 1 ELSE db.refs[k]
      BY <1>5, <1>6, <1>8
    <2>2. \A o \in Mbox : \/ e.mb[o] = NoMbox
                          \/ /\ db.mb[o] # NoMbox /\ e.mb[o].u = db.mb[o].u
                             /\ e.mb[o].next = db.mb[o].next
      BY <1>5, <1>6
    <2>3. e.rows \subseteq db.rows /\ \A r \in e.rows : e.mb[r.m] # NoMbox
      BY <1>2, <1>5, <1>6
    <2>4. /\ \A k \in Key : e.refs[k] = 0 => k \in kill
          /\ \A k \in kill : k \in Key /\ e.refs[k] = 0
      BY <1>6, <1>7, <1>9
    <2>5. e.inbox \in [Users -> Mbox \cup {0, -1}] /\ e.refs \in [Key -> Int] /\ e.own = db.own
      BY <1>2, <1>5, <1>6
    <2> QED  BY <1>4, <1>6, <2>1, <2>2, <2>3, <2>4, <2>5 DEF Released
  <1>11. ~Restricted(e, u) => Fits(db, f, kill, {}, count.mbox, count.mbox, count.key)
    BY <1>1, <1>10, ReleaseFits
  <1>12. kill \in SUBSET Key /\ \A k \in kill : db.refs[k] # -1
    BY <1>5, <1>7, <1>8
  <1>13. ok => Fits(db, f, kill, {}, count.mbox, count.mbox, count.key)  BY <1>11
  <1> HIDE DEF f, ok
  <1> QED  BY <1>3, <1>12, <1>13, BeginOpens DEF Killers

-----------------------------------------------------------------------------
(* The course and the end of a transaction.                                *)

(* No transaction is open, as after a commit without more to do, a         *)
(* rollback or a crash.                                                    *)
LEMMA NoTxFields ==
    /\ NoTx = [f \in TxFields |-> NoTx[f]] /\ NoTx.op = "none" /\ NoTx.kill = {}
    /\ NoTx.gone = {} /\ NoTx.made = {}
  BY DEF NoTx, TxFields

LEMMA NoTxShape ==
    ASSUME tx' = NoTx
    PROVE  TxShape' /\ TxGood' /\ Risked' = {} /\ ~Live' /\ tx'.made = {} /\ tx'.kill = {}
  <1>1. /\ tx' = [f \in TxFields |-> tx'[f]] /\ tx'.op = "none" /\ tx'.kill = {}
        /\ tx'.gone = {} /\ tx'.made = {}
    BY NoTxFields
  <1>2. ~Live' /\ Risked' = {}  BY <1>1 DEF Live, Risked
  <1> QED  BY <1>1, <1>2 DEF TxShape, TxGood

(* What a reader knows stays true while the database does not change and   *)
(* no transaction has computed another one.                                *)
LEMMA ReadingStays ==
    ASSUME IInv, UNCHANGED <<db, read>>, count'.mbox = count.mbox,
           Live' => Live /\ tx'.db = tx.db
    PROVE  Reading'
  BY DEF IInv, Reading

(* An action that leaves the database, the transaction, the readers and    *)
(* the bodies alone.                                                       *)
LEMMA Aside ==
    ASSUME IInv, UNCHANGED <<db, blobs, tx, read, ghost>>,
           count' \in CountType, count'.mbox = count.mbox, count'.key = count.key,
           dlv' \in DlvType
    PROVE  IInv'
  <1>1. StoreShape'  BY DEF IInv, StoreShape
  <1>2. TxShape' /\ TxGood'  BY DEF IInv, TxShape, TxGood, Live
  <1>3. Reading'  BY ReadingStays DEF Live
  <1>4. BodyKept' /\ BlobsAccounted'
    BY DEF IInv, BodyKept, BlobsAccounted, Forfeited, Risked
  <1> QED  BY <1>1, <1>2, <1>3, <1>4 DEF IInv

LEMMA DeleteInv ==
    ASSUME IInv, tx.op \in {"DeleteMailbox", "DeleteUser", "cleanup"}, NEW k \in tx.kill, Delete(k)
    PROVE  IInv'
  <1>1. tx = [f \in TxFields |-> tx[f]] /\ k \in Key  BY DEF IInv, TxShape
  <1>2. /\ tx' = [f \in TxFields |-> tx'[f]] /\ tx'.op = tx.op /\ tx'.db = tx.db /\ tx'.ok = tx.ok
        /\ tx'.made = tx.made /\ tx'.kill = tx.kill \ {k} /\ tx'.gone = tx.gone \cup {k}
    BY <1>1 DEF Delete, TxFields
  <1>3. blobs' = blobs \ {k} /\ UNCHANGED <<db, dlv, read, ghost, count>>  BY DEF Delete
  <1>4. StoreShape'  BY <1>3 DEF IInv, StoreShape
  <1>5. TxShape'
    BY <1>1, <1>2, <1>3 DEF IInv, TxShape, Killers
  <1>6. TxGood'
    <2>1. Live' => Live  BY <1>2 DEF Live
    <2> SUFFICES ASSUME Live PROVE TxGood'
      BY <2>1 DEF TxGood
    <2>2. /\ Good(tx.db, count.mbox, count.key) /\ Extends(db, tx.db)
          /\ \A j \in Key : db.refs[j] # -1 => tx.db.refs[j] # -1 \/ j \in tx.kill \cup tx.gone
          /\ \A j \in tx.made : tx.db.refs[j] # -1
          /\ Keys(tx.db.rows) \cap (tx.kill \cup tx.gone) = {}
          /\ Keys(tx.db.rows) \subseteq blobs \cup ghost.early
      BY DEF IInv, TxGood
    <2>3. tx'.kill \cup tx'.gone = tx.kill \cup tx.gone  BY <1>2
    <2>4. k \notin Keys(tx.db.rows)  BY <2>2
    <2> QED  BY <1>2, <1>3, <2>2, <2>3, <2>4 DEF TxGood
  <1>7. Reading'  BY <1>2, <1>3, ReadingStays DEF Live
  <1>8. BodyKept'
    <2>1. Forfeited \subseteq Forfeited'  BY <1>2, <1>3 DEF Forfeited, Risked
    <2>2. k \in Keys(db.rows) => k \in Forfeited'
      BY <1>2 DEF IInv, TxShape, Forfeited, Risked
    <2> QED  BY <1>3, <2>1, <2>2 DEF IInv, BodyKept
  <1>9. BlobsAccounted'
    BY <1>2, <1>3 DEF IInv, BlobsAccounted
  <1> QED  BY <1>4, <1>5, <1>6, <1>7, <1>8, <1>9 DEF IInv

(* A commit: the bodies to delete afterwards are all that is left of the   *)
(* transaction.                                                            *)
LEMMA Committing ==
    ASSUME IInv, Live, db' = tx.db, UNCHANGED <<blobs, read, ghost, count>>, dlv' \in DlvType,
           tx' = [f \in TxFields |-> tx'[f]],
           tx'.op = "cleanup" \/ (tx'.op = "none" /\ tx.kill = {}),
           tx'.kill = tx.kill, tx'.gone = {}, tx'.made = {}
    PROVE  IInv'
  <1>1. /\ Good(tx.db, count.mbox, count.key) /\ Extends(db, tx.db)
        /\ \A j \in Key : db.refs[j] # -1 => tx.db.refs[j] # -1 \/ j \in tx.kill \cup tx.gone
        /\ \A j \in tx.made : tx.db.refs[j] # -1
        /\ Keys(tx.db.rows) \cap (tx.kill \cup tx.gone) = {}
        /\ Keys(tx.db.rows) \subseteq blobs \cup ghost.early
    BY DEF IInv, TxGood
  <1>2. StoreShape'  BY <1>1 DEF IInv, StoreShape
  <1>3. TxShape'  BY <1>1 DEF IInv, TxShape, Killers
  <1>4. ~Live'  BY DEF Live
  <1>5. TxGood'  BY <1>4 DEF TxGood
  <1>6. Reading'  BY <1>4 DEF IInv, Reading
  <1>7. BodyKept'
    <2>1. Keys(db'.rows) \subseteq blobs' \cup Forfeited'  BY <1>1 DEF Forfeited
    <2>2. ASSUME read.st = "skipped", NEW r \in tx.db.rows, r.m = read.row.m, r.uid = read.row.uid
          PROVE  read.row.k \in Forfeited'
      <3>1. /\ read.row \in Row /\ Readable(db, read.row) /\ Readable(tx.db, read.row)
            /\ db.mb[read.row.m] = NoMbox => tx.db.mb[read.row.m] = NoMbox
        BY <2>2 DEF IInv, Reading
      <3>2. r.k = read.row.k /\ r.k \in Keys(tx.db.rows)  BY <2>2, <3>1 DEF Readable, Keys
      <3>3. r.k \notin tx.gone  BY <1>1, <3>2
      <3>4. \E o \in db.rows : o.m = r.m /\ o.uid = r.uid /\ o.k = r.k
        <4>1. SUFFICES ASSUME r.uid >= db.mb[r.m].next PROVE FALSE
          BY <1>1 DEF Extends
        <4>2. tx.db.mb[r.m] # NoMbox  BY <1>1, GoodFacts
        <4>3. r.uid < db.mb[r.m].next  BY <2>2, <3>1, <4>2 DEF Readable
        <4>4. r.m \in Mbox /\ r.uid \in Nat  BY <1>1, GoodFacts
        <4>5. Good(db, count.mbox, count.key)  BY DbGood
        <4>6. db.mb[r.m].next \in Nat  BY <4>4, <4>5, GoodFacts
        <4> QED  BY <4>1, <4>3, <4>4, <4>6
      <3>5. read.row.k \in Forfeited  BY <2>2, <3>4 DEF IInv, BodyKept
      <3>6. read.row.k \in ghost.early  BY <3>2, <3>3, <3>5 DEF Forfeited, Risked
      <3> QED  BY <3>6 DEF Forfeited
    <2> QED  BY <2>1, <2>2 DEF BodyKept
  <1>8. BlobsAccounted'
    <2> SUFFICES ASSUME NEW j \in blobs
                 PROVE  tx.db.refs[j] # -1 \/ j \in tx.kill \cup ghost.orphan
      BY DEF BlobsAccounted
    <2>1. j \in Key /\ j \notin tx.gone  BY DEF IInv, StoreShape, TxShape
    <2>2. db.refs[j] # -1 \/ j \in tx.made \cup tx.kill \cup ghost.orphan
      BY DEF IInv, BlobsAccounted
    <2> QED  BY <1>1, <2>1, <2>2
  <1> QED  BY <1>2, <1>3, <1>5, <1>6, <1>7, <1>8 DEF IInv

LEMMA TxCommitInv ==
    ASSUME IInv, TxCommit
    PROVE  IInv'
  <1>1. /\ Live /\ db' = tx.db /\ UNCHANGED <<blobs, read, ghost, count>> /\ dlv' \in DlvType
    BY DEF TxCommit, Live, IInv, StoreShape
  <1>2. CASE tx.op \in DeletesLast /\ tx.kill # {}
    <2>1. tx' = [NoTx EXCEPT !.op = "cleanup", !.kill = tx.kill]  BY <1>2 DEF TxCommit
    <2>2. /\ tx' = [f \in TxFields |-> tx'[f]] /\ tx'.op = "cleanup" /\ tx'.kill = tx.kill
          /\ tx'.gone = {} /\ tx'.made = {}
      BY <2>1 DEF NoTx, TxFields
    <2> QED  BY <1>1, <2>2, Committing
  <1>3. CASE ~(tx.op \in DeletesLast /\ tx.kill # {})
    <2>1. tx' = NoTx  BY <1>3 DEF TxCommit
    <2>2. tx.kill = {}
      BY <1>3 DEF TxCommit, DeletesLast, DeletesFirst, IInv, TxShape, Killers
    <2>3. /\ tx' = [f \in TxFields |-> tx'[f]] /\ tx'.op = "none" /\ tx'.kill = {}
          /\ tx'.gone = {} /\ tx'.made = {}
      BY <2>1, NoTxFields
    <2> QED  BY <1>1, <2>2, <2>3, Committing
  <1> QED  BY <1>2, <1>3

LEMMA CommitInv ==
    ASSUME IInv, Commit
    PROVE  IInv'
  <1>1. /\ Live /\ db' = tx.db /\ UNCHANGED <<blobs, read, ghost, count>> /\ tx' = NoTx
    BY DEF Commit, Live
  <1>2. tx.kill = {}  BY DEF Commit, IInv, TxShape, Killers
  <1>3. NoDlv \in DlvType
    <2>1. <<>> \in Seq([u : Users, m : Mbox])  OBVIOUS
    <2> QED  BY <2>1 DEF NoDlv, DlvType
  <1>4. dlv' \in DlvType  BY <1>3 DEF Commit
  <1>5. /\ tx' = [f \in TxFields |-> tx'[f]] /\ tx'.op = "none" /\ tx'.kill = {}
        /\ tx'.gone = {} /\ tx'.made = {}
    BY <1>1, NoTxFields
  <1> QED  BY <1>1, <1>2, <1>4, <1>5, Committing

(* The transaction is lost and the database stays: rollback and crash.     *)
LEMMA Losing ==
    ASSUME IInv, tx' = NoTx, db' = db, NEW kept \in SUBSET tx.made,
           blobs' = blobs \ (tx.made \ kept),
           ghost' = [f \in {"early", "orphan"} |-> ghost'[f]],
           ghost'.early = ghost.early \cup Risked,
           ghost.orphan \cup kept \subseteq ghost'.orphan,
           tx.op = "cleanup" => tx.kill \subseteq ghost'.orphan,
           count' \in CountType, count'.mbox = count.mbox, count'.key = count.key,
           dlv' \in DlvType,
           read' = read \/ read' = NoRead
    PROVE  IInv'
  <1>1. TxShape' /\ TxGood' /\ Risked' = {} /\ ~Live' /\ tx'.made = {} /\ tx'.kill = {}
    BY NoTxShape
  <1>2. NoRead = [f \in {"st", "row"} |-> NoRead[f]] /\ NoRead.st = "none"  BY DEF NoRead
  <1>3. StoreShape'  BY <1>2 DEF IInv, StoreShape
  <1>4. Reading'  BY <1>1, <1>2 DEF IInv, Reading
  <1>5. BodyKept'
    <2>1. Forfeited' = Forfeited  BY <1>1 DEF Forfeited
    <2>2. tx.made \cap Keys(db.rows) = {}  BY DEF IInv, TxShape
    <2> QED  BY <1>2, <2>1, <2>2 DEF IInv, BodyKept
  <1>6. BlobsAccounted'
    <2> SUFFICES ASSUME NEW j \in blobs'
                 PROVE  db.refs[j] # -1 \/ j \in ghost'.orphan
      BY DEF BlobsAccounted
    <2>1. db.refs[j] # -1 \/ j \in tx.made \cup tx.kill \cup ghost.orphan
      BY DEF IInv, BlobsAccounted
    <2>2. j \in tx.made => j \in kept  OBVIOUS
    <2>3. j \in tx.kill => db.refs[j] # -1 \/ j \in ghost'.orphan  BY DEF IInv, TxShape
    <2> QED  BY <2>1, <2>2, <2>3
  <1> QED  BY <1>1, <1>3, <1>4, <1>5, <1>6 DEF IInv

LEMMA NoDlvType == NoDlv \in DlvType
  <1>1. <<>> \in Seq([u : Users, m : Mbox])  OBVIOUS
  <1> QED  BY <1>1 DEF NoDlv, DlvType

LEMMA GhostShape ==
    ASSUME IInv
    PROVE  ghost = [f \in {"early", "orphan"} |-> ghost[f]]
  BY DEF IInv, StoreShape

LEMMA FaultCounted ==
    ASSUME NEW c \in CountType, NEW n \in Nat, NEW d, d = [c EXCEPT !.faults = @ + n]
    PROVE  d \in CountType /\ d.mbox = c.mbox /\ d.key = c.key
  <1>1. c = [f \in CountFields |-> c[f]]  BY CountRecord
  <1>2. /\ d = [f \in CountFields |-> d[f]] /\ d.mbox = c.mbox /\ d.key = c.key /\ d.ops = c.ops
        /\ d.faults = c.faults + n
    BY <1>1 DEF CountFields
  <1>3. c.mbox \in 0 .. MaxMbox /\ c.key \in 0 .. MaxKey /\ c.ops \in Nat /\ c.faults \in Nat
    BY CountTypes
  <1>4. c.faults + n \in Nat  BY <1>3
  <1> QED  BY <1>2, <1>3, <1>4, CountRecord

LEMMA TxFailInv ==
    ASSUME IInv, TxFail
    PROVE  IInv'
  <1>1. PICK kept \in {{}, tx.made} :
          /\ blobs' = blobs \ (tx.made \ kept)
          /\ ghost' = [ghost EXCEPT
                         !.orphan = @ \cup kept \cup (IF tx.op = "cleanup" THEN tx.kill ELSE {}),
                         !.early = @ \cup Risked]
    BY DEF TxFail
  <1>2. /\ ghost' = [f \in {"early", "orphan"} |-> ghost'[f]]
        /\ ghost'.early = ghost.early \cup Risked
        /\ ghost'.orphan = ghost.orphan \cup kept \cup (IF tx.op = "cleanup" THEN tx.kill ELSE {})
    BY <1>1, GhostShape
  <1>3. count' \in CountType /\ count'.mbox = count.mbox /\ count'.key = count.key
    <2> DEFINE n == IF tx.ok THEN 1 ELSE 0
    <2>1. count' = [count EXCEPT !.faults = @ + n] /\ n \in Nat  BY DEF TxFail
    <2>2. count \in CountType  BY DbGood
    <2> HIDE DEF n
    <2> QED  BY <2>1, <2>2, FaultCounted
  <1>4. /\ tx' = NoTx /\ db' = db /\ dlv' \in DlvType /\ read' = read
    BY DEF TxFail, IInv, StoreShape
  <1>5. kept \in SUBSET tx.made  OBVIOUS
  <1>6. /\ ghost.orphan \cup kept \subseteq ghost'.orphan
        /\ tx.op = "cleanup" => tx.kill \subseteq ghost'.orphan
    BY <1>2
  <1> QED  BY <1>1, <1>2, <1>3, <1>4, <1>5, <1>6, Losing

LEMMA CrashInv ==
    ASSUME IInv, Crash
    PROVE  IInv'
  <1>1. /\ ghost' = [f \in {"early", "orphan"} |-> ghost'[f]]
        /\ ghost'.early = ghost.early \cup Risked
        /\ ghost'.orphan = ghost.orphan \cup tx.made \cup (IF tx.op = "cleanup" THEN tx.kill ELSE {})
    BY DEF Crash
  <1>2. count' \in CountType /\ count'.mbox = count.mbox /\ count'.key = count.key
    <2>1. count' = [count EXCEPT !.faults = @ + 1]  BY DEF Crash
    <2>2. count \in CountType  BY DbGood
    <2> QED  BY <2>1, <2>2, FaultCounted
  <1>3. tx' = NoTx /\ db' = db /\ dlv' \in DlvType /\ read' = NoRead /\ blobs' = blobs \ (tx.made \ tx.made)
    BY NoDlvType DEF Crash
  <1>4. tx.made \in SUBSET tx.made  OBVIOUS
  <1>5. /\ ghost.orphan \cup tx.made \subseteq ghost'.orphan
        /\ tx.op = "cleanup" => tx.kill \subseteq ghost'.orphan
    BY <1>1
  <1> QED  BY <1>1, <1>2, <1>3, <1>4, <1>5, Losing

LEMMA CleanupDoneInv ==
    ASSUME IInv, CleanupDone
    PROVE  IInv'
  <1>1. tx' = NoTx /\ UNCHANGED <<db, blobs, dlv, read, ghost, count>> /\ tx.kill = {}
        /\ tx.op = "cleanup"
    BY DEF CleanupDone
  <1>2. tx.made = {} /\ Risked = {}  BY <1>1 DEF IInv, TxShape, Risked
  <1>3. {} \in SUBSET tx.made /\ blobs' = blobs \ (tx.made \ {})  BY <1>1, <1>2
  <1>4. /\ ghost' = [f \in {"early", "orphan"} |-> ghost'[f]] /\ ghost'.early = ghost.early \cup Risked
        /\ ghost.orphan \cup {} \subseteq ghost'.orphan /\ tx.kill \subseteq ghost'.orphan
    BY <1>1, <1>2, GhostShape
  <1>5. count' \in CountType /\ dlv' \in DlvType  BY <1>1 DEF IInv, StoreShape
  <1> QED  BY <1>1, <1>3, <1>4, <1>5, Losing

LEMMA AbortInv ==
    ASSUME IInv, Abort
    PROVE  IInv'
  <1>1. count' \in CountType /\ count'.mbox = count.mbox /\ count'.key = count.key
    <2> DEFINE n == IF tx.op = "deliver" /\ tx.ok THEN 1 ELSE 0
    <2>1. count' = [count EXCEPT !.faults = @ + n] /\ n \in Nat  BY DEF Abort
    <2>2. count \in CountType  BY DbGood
    <2> HIDE DEF n
    <2> QED  BY <2>1, <2>2, FaultCounted
  <1>2. dlv' \in DlvType /\ UNCHANGED <<db, blobs, read>>  BY NoDlvType DEF Abort
  <1>3. CASE tx.op = "deliver"
    <2>1. tx' = NoTx /\ ghost' = [ghost EXCEPT !.orphan = @ \cup tx.made]  BY <1>3 DEF Abort
    <2>2. Risked = {}  BY <1>3 DEF Risked
    <2>3. /\ ghost' = [f \in {"early", "orphan"} |-> ghost'[f]]
          /\ ghost'.early = ghost.early \cup Risked
          /\ ghost.orphan \cup tx.made \subseteq ghost'.orphan
      BY <2>1, <2>2, GhostShape
    <2>4. tx.made \in SUBSET tx.made /\ blobs' = blobs \ (tx.made \ tx.made)  BY <1>2
    <2> QED  BY <1>1, <1>2, <1>3, <2>1, <2>3, <2>4, Losing
  <1>4. CASE tx.op # "deliver"
    <2>1. UNCHANGED <<tx, ghost>>  BY <1>4 DEF Abort
    <2> QED  BY <1>1, <1>2, <2>1, Aside
  <1> QED  BY <1>3, <1>4

-----------------------------------------------------------------------------
(* Deliveries, readers and maintenance.                                    *)

DlvFields == {"st", "to", "i"}
RcptRec == [u : Users, m : Mbox]

LEMMA DlvRecord ==
    ASSUME NEW x
    PROVE  x \in DlvType <=>
             /\ x = [f \in DlvFields |-> x[f]]
             /\ x.st \in {"none", "rcpt", "junk", "body"} /\ x.to \in Seq(RcptRec) /\ x.i \in Nat \ {0}
  BY DEF DlvType, DlvFields, RcptRec

LEMMA AddRcptInv ==
    ASSUME IInv, NEW u \in Users, AddRcpt(u)
    PROVE  IInv'
  <1>1. Good(db, count.mbox, count.key) /\ count \in CountType  BY DbGood
  <1>2. UNCHANGED <<db, blobs, tx, read, ghost>>  BY DEF AddRcpt
  <1> DEFINE n == IF dlv.st = "none" THEN 1 ELSE 0
             to == [u |-> u, m |-> db.inbox[u]]
  <1>3. count' = [count EXCEPT !.ops = @ + n] /\ n \in Nat  BY DEF AddRcpt
  <1>4. /\ count' = [f \in CountFields |-> count'[f]] /\ count'.mbox = count.mbox
        /\ count'.key = count.key /\ count'.ops = count.ops + n /\ count'.faults = count.faults
    <2>1. count = [f \in CountFields |-> count[f]]  BY <1>1, CountRecord
    <2> HIDE DEF n
    <2> QED  BY <1>3, <2>1 DEF CountFields
  <1>5. count' \in CountType
    <2>1. /\ count.mbox \in 0 .. MaxMbox /\ count.key \in 0 .. MaxKey
          /\ count.ops \in Nat /\ count.faults \in Nat
      BY <1>1, CountTypes
    <2>2. count.ops + n \in Nat  BY <1>3, <2>1
    <2> HIDE DEF n
    <2> QED  BY <1>4, <2>1, <2>2, CountRecord
  <1>6. to \in RcptRec
    <2>1. db.inbox[u] \in Mbox \cup {0, -1} /\ db.inbox[u] > 0
      BY <1>1, GoodFacts DEF AddRcpt, Exists
    <2> QED  BY <2>1 DEF RcptRec
  <1>7. dlv \in DlvType  BY DEF IInv, StoreShape
  <1>8. dlv' \in DlvType
    <2>1. dlv = [f \in DlvFields |-> dlv[f]] /\ dlv.to \in Seq(RcptRec) /\ dlv.i \in Nat \ {0}
      BY <1>7, DlvRecord
    <2>2. dlv' = [dlv EXCEPT !.st = "rcpt", !.to = Append(@, to)]  BY DEF AddRcpt
    <2> HIDE DEF to
    <2>3. /\ dlv' = [f \in DlvFields |-> dlv'[f]] /\ dlv'.st = "rcpt" /\ dlv'.i = dlv.i
          /\ dlv'.to = Append(dlv.to, to)
      BY <2>1, <2>2 DEF DlvFields
    <2>4. Append(dlv.to, to) \in Seq(RcptRec)  BY <1>6, <2>1
    <2> QED  BY <2>1, <2>3, <2>4, DlvRecord
  <1> QED  BY <1>2, <1>4, <1>5, <1>8, Aside

(* The database changes while no transaction is open: a mailbox is made by *)
(* SpecialMailbox, messages are pruned.                                    *)
LEMMA Quiet ==
    ASSUME IInv, Idle, UNCHANGED <<blobs, tx, read, ghost>>,
           Fits(db, db', {}, {}, count.mbox, count'.mbox, count'.key),
           count' \in CountType, count.mbox <= count'.mbox, dlv' \in DlvType
    PROVE  IInv'
  <1>1. /\ Good(db, count.mbox, count.key) /\ count.mbox \in Nat /\ count'.mbox \in Nat
    BY DbGood, CountTypes
  <1>2. /\ Good(db', count'.mbox, count'.key) /\ Extends(db, db')
        /\ \A k \in Key : db.refs[k] # -1 => db'.refs[k] # -1
        /\ Keys(db'.rows) \subseteq Keys(db.rows)
        /\ \A m \in Mbox : db.mb[m] = NoMbox => db'.mb[m] = NoMbox \/ m > count.mbox
    BY DEF Fits
  <1>3. StoreShape'  BY <1>2 DEF IInv, StoreShape
  <1>4. tx.kill = {} /\ tx.gone = {} /\ tx.made = {} /\ ~Live /\ ~Live' /\ Risked = {} /\ Risked' = {}
    BY DEF IInv, TxShape, Killers, Idle, Live, Risked
  <1>5. TxShape' /\ TxGood'  BY <1>4 DEF IInv, TxShape, TxGood, Idle
  <1>6. ASSUME read.st # "none"
        PROVE  /\ read.row \in Row /\ read.row.m \in Mbox /\ read.row.m <= count'.mbox
               /\ Readable(db, read.row) /\ Readable(db', read.row)
               /\ db.mb[read.row.m] = NoMbox => db'.mb[read.row.m] = NoMbox
    <2>1. read.row \in Row /\ read.row.m <= count.mbox /\ Readable(db, read.row)
      BY <1>6 DEF IInv, Reading
    <2>2. read.row.m \in Mbox  BY <2>1, RowRecord
    <2>3. read.row.m <= count'.mbox /\ ~(read.row.m > count.mbox)  BY <1>1, <2>1, <2>2 DEF Mbox
    <2>4. db.mb[read.row.m] = NoMbox => db'.mb[read.row.m] = NoMbox  BY <1>2, <2>2, <2>3
    <2>5. Readable(db', read.row)  BY <1>1, <1>2, <2>1, <2>4, StillReadable
    <2> QED  BY <2>1, <2>2, <2>3, <2>4, <2>5
  <1>7. Reading'  BY <1>4, <1>6 DEF Reading
  <1>8. BodyKept'
    <2>1. Forfeited' = Forfeited  BY <1>4 DEF Forfeited
    <2>2. Keys(db'.rows) \subseteq blobs' \cup Forfeited'
      BY <1>2, <2>1 DEF IInv, BodyKept
    <2>3. ASSUME read.st = "skipped", NEW r \in db'.rows, r.m = read.row.m, r.uid = read.row.uid
          PROVE  read.row.k \in Forfeited
      <3>1. \E o \in db.rows : o.m = r.m /\ o.uid = r.uid
        <4>1. SUFFICES ASSUME r.uid >= db.mb[r.m].next PROVE FALSE
          BY <1>2 DEF Extends
        <4>2. db'.mb[r.m] # NoMbox /\ r.m \in Mbox /\ r.uid \in Nat  BY <1>2, GoodFacts
        <4>3. r.uid < db.mb[r.m].next  BY <1>6, <2>3, <4>2 DEF Readable
        <4>4. db.mb[r.m].next \in Nat  BY <1>1, <4>2, GoodFacts
        <4> QED  BY <4>1, <4>2, <4>3, <4>4
      <3> QED  BY <2>3, <3>1 DEF IInv, BodyKept
    <2> QED  BY <2>1, <2>2, <2>3 DEF BodyKept
  <1>9. BlobsAccounted'
    <2>1. blobs \subseteq Key  BY DEF IInv, StoreShape
    <2> QED  BY <1>2, <1>4, <2>1 DEF IInv, BlobsAccounted
  <1> QED  BY <1>3, <1>5, <1>7, <1>8, <1>9 DEF IInv

LEMMA PruneFits ==
    ASSUME IInv, PruneMessages
    PROVE  Fits(db, db', {}, {}, count.mbox, count.mbox, count.key)
  <1>1. Good(db, count.mbox, count.key) /\ count.mbox \in Nat  BY DbGood
  <1>2. PICK dead \in SUBSET db.rows : db' = [db EXCEPT !.rows = @ \ dead]  BY DEF PruneMessages
  <1>3. /\ DBShape(db) /\ db.rows \subseteq Row
        /\ db.mb \in [Mbox -> MboxRec] /\ db.inbox \in [Users -> Mbox \cup {0, -1}]
        /\ db.refs \in [Key -> Int]
        /\ \A r \in db.rows : r.m \in Mbox /\ db.mb[r.m] # NoMbox
    BY <1>1, GoodFacts
  <1>4. /\ DBShape(db') /\ db'.mb = db.mb /\ db'.refs = db.refs /\ db'.own = db.own
        /\ db'.inbox = db.inbox /\ db'.rows = db.rows \ dead
    BY <1>2, <1>3 DEF DBShape, DBFields
  <1>5. /\ IsFiniteSet(db.rows)
        /\ \A k \in Key : db.refs[k] = -1 \/ db.refs[k] >= 1
        /\ \A r \in db.rows : db.refs[r.k] >= 1
    BY <1>1 DEF Good
  <1>6. db'.rows \subseteq Row /\ IsFiniteSet(db'.rows)
    <2>1. db'.rows \subseteq db.rows  BY <1>4
    <2> QED  BY <1>3, <1>5, <2>1, FS_Subset
  <1>7. /\ \A r \in db'.rows : \E o \in db.rows : o.m = r.m /\ o.uid = r.uid /\ o.k = r.k
        /\ \A r \in db'.rows : db'.mb[r.m] # NoMbox /\ db'.refs[r.k] >= 1 /\ r.k \notin {}
        /\ \A m \in Mbox : \/ db'.mb[m] = NoMbox
                           \/ /\ db.mb[m] # NoMbox /\ db'.mb[m].u = db.mb[m].u
                              /\ db'.mb[m].next = db.mb[m].next
    BY <1>3, <1>4, <1>5
  <1>8. /\ db'.mb \in [Mbox -> MboxRec] /\ db'.inbox \in [Users -> Mbox \cup {0, -1}]
        /\ db'.refs \in [Key -> Int] /\ db'.own = db.own /\ DBShape(db')
        /\ \A k \in Key : db'.refs[k] = -1 \/ db'.refs[k] >= 1
        /\ \A k \in Key : db.refs[k] # -1 => db'.refs[k] # -1 \/ k \in {}
    BY <1>3, <1>4, <1>5
  <1> QED  BY <1>1, <1>6, <1>7, <1>8, OldRowsFit

LEMMA OpCounted ==
    ASSUME NEW c \in CountType, NEW d, d = [c EXCEPT !.ops = @ + 1]
    PROVE  d \in CountType /\ d.mbox = c.mbox /\ d.key = c.key
  <1>1. c = [f \in CountFields |-> c[f]]  BY CountRecord
  <1>2. /\ d = [f \in CountFields |-> d[f]] /\ d.mbox = c.mbox /\ d.key = c.key
        /\ d.ops = c.ops + 1 /\ d.faults = c.faults
    BY <1>1 DEF CountFields
  <1>3. c.mbox \in 0 .. MaxMbox /\ c.key \in 0 .. MaxKey /\ c.ops \in Nat /\ c.faults \in Nat
    BY CountTypes
  <1>4. c.ops + 1 \in Nat  BY <1>3
  <1> QED  BY <1>2, <1>3, <1>4, CountRecord

LEMMA PruneMessagesInv ==
    ASSUME IInv, PruneMessages
    PROVE  IInv'
  <1>1. Idle /\ UNCHANGED <<blobs, tx, dlv, read, ghost>> /\ count' = [count EXCEPT !.ops = @ + 1]
    BY DEF PruneMessages
  <1>2. count' \in CountType /\ count'.mbox = count.mbox /\ count'.key = count.key
    BY <1>1, DbGood, OpCounted
  <1>3. Fits(db, db', {}, {}, count.mbox, count'.mbox, count'.key)
    BY <1>2, PruneFits
  <1>4. count.mbox <= count'.mbox /\ dlv' \in DlvType
    BY <1>1, <1>2, DbGood DEF IInv, StoreShape
  <1> QED  BY <1>1, <1>2, <1>3, <1>4, Quiet

(* The Junk folder of the next recipient is found, or made.                *)
LEMMA SpecialMailboxFacts ==
    ASSUME IInv, SpecialMailbox
    PROVE  /\ count' \in CountType /\ count.mbox <= count'.mbox
           /\ dlv' \in DlvType
           /\ UNCHANGED <<blobs, tx, read, ghost>>
           /\ \/ UNCHANGED <<db, count>>
              \/ Idle /\ Fits(db, db', {}, {}, count.mbox, count'.mbox, count'.key)
  <1>1. /\ Good(db, count.mbox, count.key) /\ count \in CountType
        /\ count.mbox \in Nat /\ count.key \in Nat
    BY DbGood
  <1>2. dlv \in DlvType  BY DEF IInv, StoreShape
  <1>3. dlv = [f \in DlvFields |-> dlv[f]] /\ dlv.to \in Seq(RcptRec) /\ dlv.i \in Nat \ {0}
    BY <1>2, DlvRecord
  <1>4. dlv.i \in 1 .. Len(dlv.to)  BY <1>3 DEF SpecialMailbox
  <1>5. dlv.to[dlv.i] \in RcptRec  BY <1>3, <1>4
  <1> DEFINE u == dlv.to[dlv.i].u
             m == JunkOf(u)
             x == [dlv.to[dlv.i] EXCEPT !.m = m]
  <1>6. u \in Users  BY <1>5 DEF RcptRec
  <1>7. /\ dlv' = [dlv EXCEPT !.st = "junk", !.to[dlv.i].m = m, !.i = @ + 1]
        /\ IF m <= count.mbox THEN UNCHANGED <<db, count>>
           ELSE /\ Idle /\ m <= MaxMbox
                /\ db' = createMbox(db, m, u, Junk)
                /\ count' = [count EXCEPT !.mbox = m]
        /\ UNCHANGED <<blobs, tx, read, ghost>>
    BY DEF SpecialMailbox
  <1>8. m \in Nat /\ m > 0 /\ (m <= count.mbox => m \in Mbox) /\ (m <= MaxMbox => m \in Mbox)
    <2>1. CASE mboxId(db, u, Junk) = {}
      <3>1. m = count.mbox + 1  BY <2>1 DEF JunkOf
      <3> QED  BY <1>1, <3>1, BoundsAssumption DEF Mbox
    <2>2. CASE mboxId(db, u, Junk) # {}
      <3>1. m \in mboxId(db, u, Junk)  BY <2>2 DEF JunkOf
      <3>2. m \in Mbox  BY <3>1 DEF mboxId
      <3> QED  BY <3>2 DEF Mbox
    <2> QED  BY <2>1, <2>2
  <1> HIDE DEF m
  <1>9. m \in Mbox
    <2>1. CASE m <= count.mbox  BY <1>8, <2>1
    <2>2. CASE ~(m <= count.mbox)  BY <1>7, <1>8, <2>2
    <2> QED  BY <2>1, <2>2
  <1>10. x \in RcptRec  BY <1>5, <1>9 DEF RcptRec
  <1>11. /\ dlv' = [f \in DlvFields |-> dlv'[f]] /\ dlv'.st = "junk" /\ dlv'.i = dlv.i + 1
         /\ dlv'.to = [dlv.to EXCEPT ![dlv.i] = x]
    BY <1>3, <1>7 DEF DlvFields
  <1> HIDE DEF x
  <1>12. [dlv.to EXCEPT ![dlv.i] = x] \in Seq(RcptRec)  BY <1>3, <1>4, <1>10
  <1>13. dlv' \in DlvType
    <2>1. dlv'.i \in Nat \ {0} /\ dlv'.to \in Seq(RcptRec)  BY <1>3, <1>11, <1>12
    <2> QED  BY <1>11, <2>1, DlvRecord
  <1>14. CASE m <= count.mbox  BY <1>1, <1>7, <1>13, <1>14
  <1>15. CASE ~(m <= count.mbox)
    <2>1. /\ Idle /\ m <= MaxMbox /\ db' = createMbox(db, m, u, Junk)
          /\ count' = [count EXCEPT !.mbox = m]
      BY <1>7, <1>15
    <2>2. m > count.mbox /\ m \in 0 .. MaxMbox  BY <1>1, <1>8, <1>15, <2>1, BoundsAssumption
    <2>3. count = [f \in CountFields |-> count[f]] /\ count.key \in 0 .. MaxKey
          /\ count.ops \in Nat /\ count.faults \in Nat
      BY <1>1, CountRecord
    <2>4. /\ count' = [f \in CountFields |-> count'[f]] /\ count'.mbox = m
          /\ count'.key = count.key /\ count'.ops = count.ops /\ count'.faults = count.faults
      BY <2>1, <2>3 DEF CountFields
    <2>5. count' \in CountType  BY <2>2, <2>3, <2>4, CountRecord
    <2>6. DBShape(db) /\ db.inbox \in [Users -> Mbox \cup {0, -1}]  BY <1>1, GoodFacts
    <2> HIDE DEF u
    <2>7. /\ DBShape(db') /\ db'.mb = createMbox(db, m, u, Junk).mb /\ db'.rows = db.rows
          /\ db'.refs = db.refs /\ db'.own = db.own /\ db'.inbox = db.inbox
      BY <2>1, <2>6 DEF createMbox, DBShape, DBFields
    <2>8. Junk \in Name  BY JunkAssumption DEF Name
    <2>9. Fits(db, db', {}, {}, count.mbox, m, count.key)
      BY <1>1, <1>6, <1>9, <2>2, <2>6, <2>7, <2>8, createMboxFits
    <2>10. count.mbox <= m  BY <1>1, <1>8, <2>2
    <2> QED  BY <1>7, <1>13, <2>1, <2>4, <2>5, <2>9, <2>10
  <1> QED  BY <1>14, <1>15

LEMMA SpecialMailboxInv ==
    ASSUME IInv, SpecialMailbox
    PROVE  IInv'
  <1>1. /\ count' \in CountType /\ count.mbox <= count'.mbox
        /\ dlv' \in DlvType /\ UNCHANGED <<blobs, tx, read, ghost>>
    BY SpecialMailboxFacts
  <1>2. CASE UNCHANGED <<db, count>>  BY <1>1, <1>2, Aside
  <1>3. CASE Idle /\ Fits(db, db', {}, {}, count.mbox, count'.mbox, count'.key)
    BY <1>1, <1>3, Quiet
  <1> QED  BY <1>2, <1>3, SpecialMailboxFacts

LEMMA BodyParsedInv ==
    ASSUME IInv, BodyParsed
    PROVE  IInv'
  <1>1. /\ Good(db, count.mbox, count.key) /\ count \in CountType
        /\ count.mbox \in Nat /\ count.key \in Nat
    BY DbGood
  <1>2. Idle /\ UNCHANGED <<db, blobs, read, ghost, count>>  BY DEF BodyParsed
  <1>3. TxIs("deliver", db, {}, {}, TRUE)
    <2>1. tx' = [NoTx EXCEPT !.op = "deliver", !.db = db]  BY DEF BodyParsed
    <2> QED  BY <2>1 DEF NoTx, TxIs, TxFields
  <1>4. dlv' \in DlvType
    <2>1. dlv \in DlvType  BY DEF IInv, StoreShape
    <2>2. dlv = [f \in DlvFields |-> dlv[f]] /\ dlv.to \in Seq(RcptRec)  BY <2>1, DlvRecord
    <2>3. dlv' = [f \in DlvFields |-> dlv'[f]] /\ dlv'.st = "body" /\ dlv'.to = dlv.to /\ dlv'.i = 1
      BY <2>2 DEF BodyParsed, DlvFields
    <2> QED  BY <2>2, <2>3, DlvRecord
  <1>5. Fits(db, db, {}, {}, count.mbox, count.mbox, count.key)
    <2>1. Extends(db, db)  BY <1>1, ExtendsSelf
    <2> QED  BY <1>1, <2>1 DEF Fits
  <1>6. {} \in SUBSET Key /\ {} \cap Keys(db.rows) = {} /\ blobs' = blobs \cup {}  BY <1>2
  <1>7. count' \in CountType /\ count'.mbox = count.mbox /\ count'.key = count.key
        /\ count.mbox <= count'.mbox /\ count.key <= count'.key
    BY <1>1, <1>2
  <1> QED  BY <1>2, <1>3, <1>4, <1>5, <1>6, <1>7, Opening

LEMMA mboxDeliveryInv ==
    ASSUME IInv, mboxDelivery
    PROVE  IInv'
  <1> DEFINE m == dlv.to[dlv.i].m
             k == count.key + 1
             e == addMsg(tx.db, m, k, FALSE)
  <1>1. /\ Good(db, count.mbox, count.key) /\ count \in CountType
        /\ count.mbox \in Nat /\ count.key \in Nat
    BY DbGood
  <1>2. dlv \in DlvType  BY DEF IInv, StoreShape
  <1>3. dlv = [f \in DlvFields |-> dlv[f]] /\ dlv.to \in Seq(RcptRec) /\ dlv.i \in Nat \ {0}
        /\ dlv.st \in {"none", "rcpt", "junk", "body"}
    BY <1>2, DlvRecord
  <1>4. m \in Mbox
    <2>0. dlv.i <= Len(dlv.to)  BY DEF mboxDelivery
    <2>1. dlv.i \in 1 .. Len(dlv.to)  BY <1>3, <2>0
    <2>2. dlv.to[dlv.i] \in RcptRec  BY <1>3, <2>1
    <2> QED  BY <2>2 DEF RcptRec
  <1>5. k \in Key /\ k \in 0 .. MaxKey /\ count.key <= k /\ k = count.key + 1
    BY <1>1, BoundsAssumption DEF mboxDelivery, Key
  <1>6. /\ tx.op = "deliver" /\ tx.ok /\ tx.db.mb[m] # NoMbox
        /\ tx' = [tx EXCEPT !.db = e, !.made = @ \cup {k}]
        /\ blobs' = blobs \cup {k} /\ count' = [count EXCEPT !.key = k]
        /\ dlv' = [dlv EXCEPT !.i = @ + 1] /\ UNCHANGED <<db, read, ghost>>
    BY DEF mboxDelivery
  <1>7. Live  BY <1>6 DEF Live
  <1>8. tx = [f \in TxFields |-> tx[f]] /\ tx.kill = {} /\ tx.gone = {} /\ tx.made \subseteq Key
        /\ tx.made \cap Keys(db.rows) = {}
    BY <1>6 DEF IInv, TxShape, Killers
  <1>9. /\ Good(tx.db, count.mbox, count.key) /\ Extends(db, tx.db)
        /\ \A j \in Key : db.refs[j] # -1 => tx.db.refs[j] # -1
        /\ \A j \in tx.made : tx.db.refs[j] # -1
        /\ Keys(tx.db.rows) \subseteq blobs \cup ghost.early
    BY <1>7, <1>8 DEF IInv, TxGood
  <1>10. k \notin Keys(db.rows)
    <2>1. \A r \in db.rows : r.k \in Key  BY <1>1, GoodFacts
    <2>2. \A r \in db.rows : r.k <= count.key  BY <1>1 DEF Good
    <2> QED  BY <1>1, <2>1, <2>2 DEF Keys, Key
  <1>11. Extends(tx.db, tx.db)  BY <1>9, ExtendsSelf
  <1> HIDE DEF k, m
  <1>12. Added(db, tx.db, e, count.mbox, k) /\ Added(tx.db, tx.db, e, count.mbox, k)
    <2>1. e = addMsg(tx.db, m, k, FALSE) /\ FALSE \in BOOLEAN  OBVIOUS
    <2> HIDE DEF e
    <2>2. Added(db, tx.db, e, count.mbox, k)
      BY <1>1, <1>4, <1>5, <1>6, <1>9, <2>1, addMsgFits
    <2>3. Added(tx.db, tx.db, e, count.mbox, k)
      BY <1>1, <1>4, <1>5, <1>6, <1>9, <1>11, <2>1, addMsgFits
    <2> QED  BY <2>2, <2>3
  <1> HIDE DEF e
  <1>13. /\ tx' = [f \in TxFields |-> tx'[f]] /\ tx'.op = tx.op /\ tx'.db = e
         /\ tx'.kill = tx.kill /\ tx'.gone = tx.gone /\ tx'.made = tx.made \cup {k} /\ tx'.ok = tx.ok
    BY <1>6, <1>8 DEF TxFields
  <1>14. /\ count' \in CountType /\ count'.mbox = count.mbox /\ count'.key = k
    <2>1. count = [f \in CountFields |-> count[f]] /\ count.mbox \in 0 .. MaxMbox
          /\ count.ops \in Nat /\ count.faults \in Nat
      BY <1>1, CountRecord
    <2>2. /\ count' = [f \in CountFields |-> count'[f]] /\ count'.mbox = count.mbox
          /\ count'.key = k /\ count'.ops = count.ops /\ count'.faults = count.faults
      BY <1>6, <2>1 DEF CountFields
    <2> QED  BY <1>5, <2>1, <2>2, CountRecord
  <1>15. dlv' \in DlvType
    <2>1. /\ dlv' = [f \in DlvFields |-> dlv'[f]] /\ dlv'.st = dlv.st /\ dlv'.to = dlv.to
          /\ dlv'.i = dlv.i + 1
      BY <1>3, <1>6 DEF DlvFields
    <2> QED  BY <1>3, <2>1, DlvRecord
  <1>16. StoreShape'
    <2>1. Good(db, count.mbox, k)  BY <1>1, <1>5, GoodGrows DEF Key
    <2> QED  BY <1>5, <1>6, <1>14, <1>15, <2>1 DEF IInv, StoreShape
  <1>17. TxShape'
    BY <1>5, <1>6, <1>8, <1>10, <1>13 DEF TxShape, Killers
  <1>18. TxGood'
    <2>1. Good(e, count.mbox, k) /\ Extends(db, e)  BY <1>12 DEF Added
    <2>2. \A j \in Key : db.refs[j] # -1 => e.refs[j] # -1  BY <1>9, <1>12 DEF Added
    <2>3. \A j \in tx.made \cup {k} : e.refs[j] # -1  BY <1>8, <1>9, <1>12 DEF Added
    <2>4. Keys(e.rows) \subseteq blobs' \cup ghost'.early  BY <1>6, <1>9, <1>12 DEF Added
    <2> QED  BY <1>6, <1>8, <1>13, <1>14, <2>1, <2>2, <2>3, <2>4 DEF TxGood
  <1>19. Reading'
    <2> SUFFICES ASSUME read.st # "none" PROVE Reading'
      BY <1>6 DEF Reading
    <2>1. /\ read.row \in Row /\ read.row.m <= count.mbox /\ Readable(db, read.row)
          /\ Readable(tx.db, read.row)
          /\ db.mb[read.row.m] = NoMbox => tx.db.mb[read.row.m] = NoMbox
      BY <1>7 DEF IInv, Reading
    <2>2. read.row.m \in Mbox  BY <2>1, RowRecord
    <2>3. tx.db.mb[read.row.m] = NoMbox => e.mb[read.row.m] = NoMbox
      BY <1>12, <2>2 DEF Added
    <2>4. Good(e, count.mbox, k) /\ Extends(tx.db, e)  BY <1>12 DEF Added
    <2>5. Readable(e, read.row)  BY <1>9, <2>1, <2>3, <2>4, StillReadable
    <2> QED  BY <1>6, <1>13, <1>14, <2>1, <2>3, <2>5 DEF Reading
  <1>20. Risked = {} /\ Risked' = {}  BY <1>6, <1>13 DEF Risked
  <1>21. BodyKept'  BY <1>6, <1>20 DEF IInv, BodyKept, Forfeited
  <1>22. BlobsAccounted'  BY <1>6, <1>13 DEF IInv, BlobsAccounted
  <1> QED  BY <1>16, <1>17, <1>18, <1>19, <1>21, <1>22 DEF IInv

LEMMA mboxDeliveryFailsInv ==
    ASSUME IInv, mboxDeliveryFails
    PROVE  IInv'
  <1> DEFINE there == tx.db.mb[dlv.to[dlv.i].m] # NoMbox
             k == count.key + 1
             n == IF there THEN 1 ELSE 0
  <1>1. /\ Good(db, count.mbox, count.key) /\ count \in CountType
        /\ count.mbox \in Nat /\ count.key \in Nat
    BY DbGood
  <1>2. PICK kept \in (IF there /\ k <= MaxKey THEN {{}, {k}} ELSE {{}}) :
          /\ blobs' = blobs \cup kept
          /\ ghost' = [ghost EXCEPT !.orphan = @ \cup kept]
          /\ count' = [count EXCEPT !.faults = @ + n, !.key = @ + Cardinality(kept)]
    BY DEF mboxDeliveryFails
  <1>3. tx.op = "deliver" /\ tx' = [tx EXCEPT !.ok = FALSE] /\ UNCHANGED <<db, dlv, read>>
    BY DEF mboxDeliveryFails
  <1>4. tx = [f \in TxFields |-> tx[f]]  BY DEF IInv, TxShape
  <1>5. /\ tx' = [f \in TxFields |-> tx'[f]] /\ tx'.op = tx.op /\ tx'.kill = tx.kill
        /\ tx'.gone = tx.gone /\ tx'.made = tx.made /\ tx'.ok = FALSE
    BY <1>3, <1>4 DEF TxFields
  <1>6. ~Live'  BY <1>5 DEF Live
  <1>7. /\ ghost' = [f \in {"early", "orphan"} |-> ghost'[f]]
        /\ ghost'.early = ghost.early /\ ghost'.orphan = ghost.orphan \cup kept
    BY <1>2, GhostShape
  <1>8. /\ kept \subseteq Key /\ Cardinality(kept) \in {0, 1}
        /\ count.key + Cardinality(kept) \in 0 .. MaxKey
    <2>1. MaxKey \in Nat /\ count.key \in 0 .. MaxKey  BY <1>1, CountTypes, BoundsAssumption
    <2>2. CASE kept = {}
      <3>1. Cardinality(kept) = 0  BY <2>2, FS_EmptySet
      <3> QED  BY <2>1, <2>2, <3>1
    <2>3. CASE kept = {k} /\ k <= MaxKey
      <3>1. Cardinality(kept) = 1  BY <2>3, FS_Singleton
      <3>2. k \in Key  BY <2>1, <2>3 DEF Key
      <3> QED  BY <2>1, <2>3, <3>1, <3>2
    <2> QED  BY <2>2, <2>3
  <1>9. count' \in CountType /\ count'.mbox = count.mbox /\ count'.key \in Nat /\ count.key <= count'.key
    <2>1. count = [f \in CountFields |-> count[f]] /\ count.mbox \in 0 .. MaxMbox
          /\ count.ops \in Nat /\ count.faults \in Nat
      BY <1>1, CountRecord
    <2>2. n \in Nat  OBVIOUS
    <2> HIDE DEF n
    <2>3. /\ count' = [f \in CountFields |-> count'[f]] /\ count'.mbox = count.mbox
          /\ count'.key = count.key + Cardinality(kept) /\ count'.ops = count.ops
          /\ count'.faults = count.faults + n
      BY <1>2, <2>1 DEF CountFields
    <2>4. count'.faults \in Nat  BY <2>1, <2>2, <2>3
    <2>5. count' \in CountType  BY <1>8, <2>1, <2>3, <2>4, CountRecord
    <2> QED  BY <1>1, <1>8, <2>3, <2>5
  <1>10. StoreShape'
    <2>1. Good(db, count'.mbox, count'.key)  BY <1>1, <1>9, GoodGrows
    <2> QED  BY <1>2, <1>3, <1>7, <1>8, <1>9, <2>1 DEF IInv, StoreShape
  <1>11. TxShape'
    BY <1>3, <1>5 DEF IInv, TxShape, Killers
  <1>12. TxGood'  BY <1>6 DEF TxGood
  <1>13. Reading'  BY <1>3, <1>6, <1>9, ReadingStays
  <1>14. BodyKept'
    <2>1. Risked = {} /\ Risked' = {}  BY <1>3, <1>5 DEF Risked
    <2> QED  BY <1>2, <1>3, <1>7, <2>1 DEF IInv, BodyKept, Forfeited
  <1>15. BlobsAccounted'
    BY <1>2, <1>3, <1>5, <1>7 DEF IInv, BlobsAccounted
  <1> QED  BY <1>10, <1>11, <1>12, <1>13, <1>14, <1>15 DEF IInv

LEMMA purgeBlobsInv ==
    ASSUME IInv, purgeBlobs
    PROVE  IInv'
  <1>1. PICK dead \in SUBSET blobs :
          blobs' = blobs \ dead /\ ghost' = [ghost EXCEPT !.early = @ \cup dead]
    BY DEF purgeBlobs
  <1>2. count' = [count EXCEPT !.ops = @ + 1] /\ UNCHANGED <<db, tx, dlv, read>>
    BY DEF purgeBlobs
  <1>3. count' \in CountType /\ count'.mbox = count.mbox /\ count'.key = count.key
    BY <1>2, DbGood, OpCounted
  <1>4. /\ ghost' = [f \in {"early", "orphan"} |-> ghost'[f]]
        /\ ghost'.early = ghost.early \cup dead /\ ghost'.orphan = ghost.orphan
    BY <1>1, GhostShape
  <1>5. StoreShape'  BY <1>1, <1>2, <1>3, <1>4 DEF IInv, StoreShape
  <1>6. TxShape'  BY <1>1, <1>2 DEF IInv, TxShape
  <1>7. TxGood'
    <2>1. Live' <=> Live  BY <1>2 DEF Live
    <2> QED  BY <1>1, <1>2, <1>3, <1>4, <2>1 DEF IInv, TxGood
  <1>8. Reading'  BY <1>2, <1>3, ReadingStays DEF Live
  <1>9. BodyKept'
    BY <1>1, <1>2, <1>4 DEF IInv, BodyKept, Forfeited, Risked
  <1>10. BlobsAccounted'  BY <1>1, <1>2, <1>4 DEF IInv, BlobsAccounted
  <1> QED  BY <1>5, <1>6, <1>7, <1>8, <1>9, <1>10 DEF IInv

(* Only the reader moves.                                                  *)
LEMMA ReaderMoves ==
    ASSUME IInv, UNCHANGED <<db, blobs, tx, dlv, ghost, count>>,
           read' = [f \in {"st", "row"} |-> read'[f]], Reading',
           read'.st = "skipped" =>
             \/ read'.row.k \in Forfeited
             \/ \A r \in db.rows : r.m # read'.row.m \/ r.uid # read'.row.uid
    PROVE  IInv'
  <1>1. StoreShape'  BY DEF IInv, StoreShape
  <1>2. TxShape' /\ TxGood'  BY DEF IInv, TxShape, TxGood, Live
  <1>3. BodyKept'  BY DEF IInv, BodyKept, Forfeited, Risked
  <1>4. BlobsAccounted'  BY DEF IInv, BlobsAccounted
  <1> QED  BY <1>1, <1>2, <1>3, <1>4 DEF IInv

LEMMA ListMessagesInv ==
    ASSUME IInv, NEW m \in Mbox, ListMessages(m)
    PROVE  IInv'
  <1>1. PICK r \in Rows(db, m) : read' = [st |-> "row", row |-> r]  BY DEF ListMessages
  <1>2. UNCHANGED <<db, blobs, tx, dlv, ghost, count>>  BY DEF ListMessages
  <1>3. read' = [f \in {"st", "row"} |-> read'[f]] /\ read'.st = "row" /\ read'.row = r  BY <1>1
  <1>4. /\ Good(db, count.mbox, count.key) /\ count.mbox \in Nat  BY DbGood
  <1>5. r \in db.rows  BY DEF Rows
  <1>6. /\ r \in Row /\ r.m \in Mbox /\ r.uid \in Nat /\ db.mb[r.m] # NoMbox
    BY <1>4, <1>5, GoodFacts
  <1>7. r.m <= count.mbox
    <2>1. ~(r.m > count.mbox)  BY <1>4, <1>6 DEF Good
    <2> QED  BY <1>4, <1>6, <2>1 DEF Mbox
  <1>8. Readable(db, r)  BY <1>4, <1>5 DEF Good, Readable
  <1>9. Live => Readable(tx.db, r)
    <2> HAVE Live
    <2>1. Good(tx.db, count.mbox, count.key) /\ Extends(db, tx.db)  BY DEF IInv, TxGood
    <2> QED  BY <1>4, <1>6, <1>8, <2>1, StillReadable
  <1>10. Reading'
    BY <1>2, <1>3, <1>6, <1>7, <1>8, <1>9 DEF Reading, Live
  <1> QED  BY <1>2, <1>3, <1>10, ReaderMoves

LEMMA openBodyInv ==
    ASSUME IInv, openBody
    PROVE  IInv'
  <1>1. /\ UNCHANGED <<db, blobs, tx, dlv, ghost, count>> /\ read.st = "row"
        /\ read' = [read EXCEPT !.st = IF read.row.k \in blobs THEN "body" ELSE "skipped"]
    BY DEF openBody
  <1>2. read = [f \in {"st", "row"} |-> read[f]]  BY DEF IInv, StoreShape
  <1>3. /\ read' = [f \in {"st", "row"} |-> read'[f]] /\ read'.row = read.row
        /\ read'.st = IF read.row.k \in blobs THEN "body" ELSE "skipped"
    BY <1>1, <1>2
  <1>4. Reading'  BY <1>1, <1>3 DEF IInv, Reading, Live
  <1>5. ASSUME read'.st = "skipped", NEW r \in db.rows, r.m = read.row.m, r.uid = read.row.uid
        PROVE  read.row.k \in Forfeited
    <2>1. Readable(db, read.row) /\ read.row.k \notin blobs
      BY <1>1, <1>3, <1>5 DEF IInv, Reading
    <2>2. r.k = read.row.k /\ r.k \in Keys(db.rows)  BY <1>5, <2>1 DEF Readable, Keys
    <2> QED  BY <2>1, <2>2 DEF IInv, BodyKept
  <1> QED  BY <1>1, <1>3, <1>4, <1>5, ReaderMoves

LEMMA ReadDoneInv ==
    ASSUME IInv, ReadDone
    PROVE  IInv'
  <1>1. UNCHANGED <<db, blobs, tx, dlv, ghost, count>> /\ read' = NoRead  BY DEF ReadDone
  <1>2. NoRead = [f \in {"st", "row"} |-> NoRead[f]] /\ NoRead.st = "none"  BY DEF NoRead
  <1>3. Reading'  BY <1>1, <1>2 DEF Reading
  <1> QED  BY <1>1, <1>2, <1>3, ReaderMoves

-----------------------------------------------------------------------------
(* The specification.                                                      *)

LEMMA StoreInit ==
    ASSUME Init
    PROVE  IInv
  <1>1. /\ DBShape(initSchema) /\ initSchema.rows = {}
        /\ initSchema.mb = [m \in Mbox |-> NoMbox]
        /\ initSchema.refs = [k \in Key |-> -1] /\ initSchema.own = [k \in Key |-> "none"]
        /\ initSchema.inbox = [u \in Users |-> 0]
    BY DEF initSchema, DBShape, DBFields
  <1>2. Good(initSchema, 0, 0)
    <2>1. initSchema.mb \in [Mbox -> MboxRec]  BY <1>1, NoMboxRecord
    <2>2. initSchema.refs \in [Key -> Int] /\ \A k \in Key : initSchema.refs[k] = -1  BY <1>1
    <2>3. initSchema.own \in [Key -> Owner]  BY <1>1 DEF Owner
    <2>4. initSchema.inbox \in [Users -> Mbox \cup {0, -1}]  BY <1>1
    <2>5. IsFiniteSet(initSchema.rows)  BY <1>1, FS_EmptySet
    <2>6. \A m \in Mbox : initSchema.mb[m] = NoMbox  BY <1>1
    <2> HIDE DEF initSchema
    <2> QED  BY <1>1, <2>1, <2>2, <2>3, <2>4, <2>5, <2>6, GoodIntro
  <1>3. /\ count = [f \in CountFields |-> count[f]] /\ count.mbox = 0 /\ count.key = 0
        /\ count.ops = 0 /\ count.faults = 0
    BY DEF Init, CountFields
  <1>4. count \in CountType  BY <1>3, BoundsAssumption, CountRecord
  <1>5. db = initSchema /\ blobs = {} /\ tx = NoTx /\ dlv \in DlvType /\ read = NoRead
        /\ ghost = [f \in {"early", "orphan"} |-> ghost[f]]
    BY NoDlvType DEF Init
  <1>6. read = [f \in {"st", "row"} |-> read[f]] /\ read.st = "none"  BY <1>5 DEF NoRead
  <1>7. StoreShape  BY <1>2, <1>3, <1>4, <1>5, <1>6 DEF StoreShape
  <1>8. /\ tx = [f \in TxFields |-> tx[f]] /\ tx.op = "none" /\ tx.kill = {}
        /\ tx.gone = {} /\ tx.made = {}
    BY <1>5, NoTxFields
  <1>9. TxShape /\ TxGood  BY <1>8 DEF TxShape, TxGood, Live
  <1>10. Reading  BY <1>6 DEF Reading
  <1>11. db.rows = {}  BY <1>1, <1>5
  <1>12. BodyKept  BY <1>6, <1>11 DEF BodyKept, Keys
  <1>13. BlobsAccounted  BY <1>5 DEF BlobsAccounted
  <1> QED  BY <1>7, <1>9, <1>10, <1>12, <1>13 DEF IInv

LEMMA StoreNext ==
    ASSUME IInv, [Next]_vars
    PROVE  IInv'
  <1>1. CASE \E u \in Users : createUser(u) \/ DeleteUser(u) \/ AddRcpt(u)
    BY <1>1, createUserInv, DeleteUserInv, AddRcptInv
  <1>2. CASE \E u \in Users, n \in Folders : CreateMailbox(u, n) \/ DeleteMailbox(u, n)
    BY <1>2, CreateMailboxInv, DeleteMailboxInv
  <1>3. CASE \E u \in Users, n \in Name, new \in Folders : RenameMailbox(u, n, new)
    BY <1>3, RenameMailboxInv
  <1>4. CASE \E m \in Mbox, del \in BOOLEAN : CreateMessage(m, del)
    <2>1. PICK m \in Mbox, del \in BOOLEAN : CreateMessage(m, del)  BY <1>4
    <2> QED  BY <2>1, CreateMessageInv
  <1>5. CASE \E m \in Mbox, uids \in SUBSET (1..MaxUid) :
               \/ \E del \in BOOLEAN : UpdateMessagesFlags(m, uids, del)
               \/ \E dest \in Mbox : CopyMessages(m, uids, dest) \/ MoveMessages(m, uids, dest)
    <2>1. PICK m \in Mbox, uids \in SUBSET (1..MaxUid) :
               \/ \E del \in BOOLEAN : UpdateMessagesFlags(m, uids, del)
               \/ \E dest \in Mbox : CopyMessages(m, uids, dest) \/ MoveMessages(m, uids, dest)
      BY <1>5
    <2>2. CASE \E del \in BOOLEAN : UpdateMessagesFlags(m, uids, del)
      <3>1. PICK del \in BOOLEAN : UpdateMessagesFlags(m, uids, del)  BY <2>2
      <3> QED  BY <3>1, UpdateMessagesFlagsInv
    <2>3. CASE \E dest \in Mbox : CopyMessages(m, uids, dest) \/ MoveMessages(m, uids, dest)
      BY <2>3, CopyMessagesInv, MoveMessagesInv
    <2> QED  BY <2>1, <2>2, <2>3
  <1>6. CASE \E m \in Mbox : Expunge(m) \/ ListMessages(m)
    BY <1>6, ExpungeInv, ListMessagesInv
  <1>7. CASE openBody \/ ReadDone
    BY <1>7, openBodyInv, ReadDoneInv
  <1>8. CASE DeleteFirst \/ DeleteAfter
    <2>1. /\ tx.op \in {"DeleteMailbox", "DeleteUser", "cleanup"}
          /\ \E k \in tx.kill : Delete(k)
      BY <1>8 DEF DeleteFirst, DeleteAfter, DeletesFirst
    <2> QED  BY <2>1, DeleteInv
  <1>9. CASE TxCommit \/ CleanupDone \/ TxFail
    BY <1>9, TxCommitInv, CleanupDoneInv, TxFailInv
  <1>10. CASE SpecialMailbox \/ BodyParsed \/ mboxDelivery \/ mboxDeliveryFails \/ Commit \/ Abort
    BY <1>10, SpecialMailboxInv, BodyParsedInv, mboxDeliveryInv, mboxDeliveryFailsInv,
       CommitInv, AbortInv
  <1>11. CASE PruneMessages \/ purgeBlobs \/ Crash
    BY <1>11, PruneMessagesInv, purgeBlobsInv, CrashInv
  <1>12. CASE UNCHANGED vars
    <2>1. UNCHANGED <<db, blobs, tx, read, ghost, count, dlv>>  BY <1>12 DEF vars
    <2>2. count' \in CountType /\ dlv' \in DlvType  BY <2>1 DEF IInv, StoreShape
    <2> QED  BY <2>1, <2>2, Aside
  <1> QED
    BY <1>1, <1>2, <1>3, <1>4, <1>5, <1>6, <1>7, <1>8, <1>9, <1>10, <1>11, <1>12 DEF Next

(* The transactions of storage.go, mailbox.go and delivery.go keep the     *)
(* store sound through every order of operations, failures and crashes:    *)
(* the invariant of this module holds of every reachable state.            *)
THEOREM StoreInductive == Spec => []IInv
  <1>1. Init => IInv  BY StoreInit
  <1>2. IInv /\ [Next]_vars => IInv'  BY StoreNext
  <1> QED  BY <1>1, <1>2, PTL DEF Spec

(* Every message has its body, and a reader that finds no file is reading  *)
(* a message that is gone or one whose body an operation or the            *)
(* administrator removed first: bodies are written before the row commits  *)
(* (CreateMessage, delivery) and Expunge deletes them after its commit.    *)
THEOREM StoreBodyKept == Spec => []BodyKept
  <1>1. IInv => BodyKept  BY DEF IInv
  <1> QED  BY <1>1, StoreInductive, PTL

(* Every file of the blob store is known to extKeys or to the transaction  *)
(* that writes or deletes it, unless a crash, an aborted delivery or a     *)
(* failed deletion left it behind (reference counts of copies, moves and   *)
(* expunges in sql.go).                                                    *)
THEOREM StoreBlobsAccounted == Spec => []BlobsAccounted
  <1>1. IInv => BlobsAccounted  BY DEF IInv
  <1> QED  BY <1>1, StoreInductive, PTL

(* What a step makes of the committed database.                            *)
LEMMA DatabaseStep ==
    ASSUME IInv, [Next]_vars
    PROVE  Extends(db, db')
  <1>1. Good(db, count.mbox, count.key)  BY DbGood
  <1>2. CASE db' = db
    <2>1. Extends(db, db)  BY <1>1, ExtendsSelf
    <2> QED  BY <1>2, <2>1
  <1>3. CASE TxCommit \/ Commit
    <2>1. Live /\ db' = tx.db  BY <1>3 DEF TxCommit, Commit, Live
    <2> QED  BY <2>1 DEF IInv, TxGood
  <1>4. CASE PruneMessages  BY <1>4, PruneFits DEF Fits
  <1>5. CASE SpecialMailbox
    <2>1. \/ UNCHANGED <<db, count>>
          \/ Idle /\ Fits(db, db', {}, {}, count.mbox, count'.mbox, count'.key)
      BY <1>5, SpecialMailboxFacts
    <2>2. CASE db' = db  BY <1>2, <2>2
    <2>3. CASE Fits(db, db', {}, {}, count.mbox, count'.mbox, count'.key)  BY <2>3 DEF Fits
    <2> QED  BY <2>1, <2>2, <2>3
  <1>6. SUFFICES ASSUME ~(TxCommit \/ Commit \/ PruneMessages \/ SpecialMailbox)
                 PROVE  db' = db
    BY <1>2, <1>3, <1>4, <1>5
  <1>7. CASE \E u \in Users : createUser(u) \/ DeleteUser(u) \/ AddRcpt(u)
    BY <1>7 DEF createUser, DeleteUser, AddRcpt, Begin, Open
  <1>8. CASE \E u \in Users, n \in Folders : CreateMailbox(u, n) \/ DeleteMailbox(u, n)
    BY <1>8 DEF CreateMailbox, DeleteMailbox, Begin, Open
  <1>9. CASE \E u \in Users, n \in Name, new \in Folders : RenameMailbox(u, n, new)
    BY <1>9 DEF RenameMailbox
  <1>10. CASE \E m \in Mbox, del \in BOOLEAN : CreateMessage(m, del)
    BY <1>10 DEF CreateMessage
  <1>11. CASE \E m \in Mbox, uids \in SUBSET (1..MaxUid) :
               \/ \E del \in BOOLEAN : UpdateMessagesFlags(m, uids, del)
               \/ \E dest \in Mbox : CopyMessages(m, uids, dest) \/ MoveMessages(m, uids, dest)
    BY <1>11, ZenonT(60) DEF UpdateMessagesFlags, CopyMessages, MoveMessages, Begin, Open
  <1>12. CASE \E m \in Mbox : Expunge(m) \/ ListMessages(m)
    BY <1>12 DEF Expunge, ListMessages, Begin, Open
  <1>13. CASE openBody \/ ReadDone \/ DeleteFirst \/ DeleteAfter \/ CleanupDone \/ TxFail
    BY <1>13 DEF openBody, ReadDone, DeleteFirst, DeleteAfter, Delete, CleanupDone, TxFail
  <1>14. CASE BodyParsed \/ mboxDelivery \/ mboxDeliveryFails \/ Abort \/ purgeBlobs \/ Crash
    BY <1>14 DEF BodyParsed, mboxDelivery, mboxDeliveryFails, Abort, purgeBlobs, Crash
  <1>15. CASE UNCHANGED vars  BY <1>15 DEF vars
  <1> QED
    BY <1>6, <1>7, <1>8, <1>9, <1>10, <1>11, <1>12, <1>13, <1>14, <1>15 DEF Next

(* A UID never names two messages: what any step adds to a mailbox is at   *)
(* or above the UIDNEXT the clients were told, and UIDNEXT never falls     *)
(* (incrementMsgCounters and copyMsgsUid, which number copies from it).    *)
THEOREM StoreUidsFresh == Spec => UidsFresh
  <1> DEFINE Fresh ==
        \A m \in Mbox : db.mb[m] # NoMbox /\ db'.mb[m] # NoMbox =>
          /\ db'.mb[m].next >= db.mb[m].next
          /\ \A r \in Rows(db', m) :
               \/ \E o \in Rows(db, m) : o.uid = r.uid /\ o.k = r.k
               \/ r.uid >= db.mb[m].next /\ r.uid < db'.mb[m].next
  <1>1. ASSUME IInv, [Next]_vars
        PROVE  Fresh
    <2>1. Extends(db, db')  BY <1>1, DatabaseStep
    <2> QED  BY <2>1 DEF Extends, Rows
  <1>2. IInv /\ [Next]_vars => [Fresh]_vars  BY <1>1
  <1> HIDE DEF Fresh
  <1>3. Spec => [][Fresh]_vars  BY <1>2, StoreInductive, PTL DEF Spec
  <1> QED  BY <1>3 DEF UidsFresh, Fresh
-----------------------------------------------------------------------------
(***************************************************************************)
(* The views of a mailbox of the store (Views): no wakeup of an idling     *)
(* connection is lost, for any number of connections and messages and any  *)
(* lengths of behaviours.                                                  *)
(*                                                                         *)
(* IdleAwake speaks of one handle at a time, but every actor writes the    *)
(* handles of all: the proof follows one handle x through the four ways in *)
(* which another one, a delivery or the pipe adds to it, and through its   *)
(* own steps.  What it needs beside IdleAwake itself is that a handle      *)
(* keeps the fields of one and that a handle in IDLE is in no command.     *)
(***************************************************************************)
CONSTANTS Conns, MaxSelects
VARIABLES h, pipe, viewDb, viewTx, viewDlv, viewGhost, viewCount

V == INSTANCE Views WITH db <- viewDb, tx <- viewTx, dlv <- viewDlv, ghost <- viewGhost,
                         count <- viewCount

(* A handle has the fields of one; note is the token or its absence.       *)
HandleFields == {"st", "uidMap", "pendingCreated", "pendingExpunge", "pendingFlags",
                 "note", "job", "view"}
Shape(x) ==
    /\ x = [f \in HandleFields |-> x[f]]
    /\ x.job = [f \in {"k", "uids"} |-> x.job[f]]

(* A job is only ever left to do inside a command.                         *)
Awake(x) ==
    /\ Shape(x)
    /\ x.job.k # "none" => x.st = "cmd"
    /\ x.st = "idle" /\ V!Pending(x) => x.note

AwakeInv == h = [c \in Conns |-> h[c]] /\ \A c \in Conns : Awake(h[c])

LEMMA SetNote ==
    ASSUME NEW x, Shape(x)
    PROVE  /\ Shape(V!idleUpdate(x))
           /\ V!idleUpdate(x).st = x.st
           /\ V!idleUpdate(x).job = x.job
           /\ V!idleUpdate(x).pendingCreated = x.pendingCreated
           /\ V!idleUpdate(x).pendingExpunge = x.pendingExpunge
           /\ V!idleUpdate(x).pendingFlags = x.pendingFlags
           /\ x.st = "idle" => V!idleUpdate(x).note
  BY DEF Shape, HandleFields, V!idleUpdate

LEMMA NewMessagesAwake ==
    ASSUME NEW hs, NEW u, \A c \in Conns : Awake(hs[c])
    PROVE  LET n == V!newMessages(hs, u) IN
           n = [c \in Conns |-> n[c]] /\ \A c \in Conns : Awake(n[c])
  <1> DEFINE n == V!newMessages(hs, u)
  <1>1. n = [c \in Conns |-> n[c]]  BY DEF V!newMessages
  <1>2. ASSUME NEW c \in Conns PROVE Awake(n[c])
    <2> DEFINE y == [hs[c] EXCEPT !.pendingCreated = @ \cup {u}]
    <2>1. CASE c \in V!Registered
      <3>1. n[c] = V!idleUpdate(y)  BY <2>1 DEF V!newMessages
      <3>2. Shape(y) /\ y.st = hs[c].st /\ y.job = hs[c].job
        BY DEF Awake, Shape, HandleFields
      <3> HIDE DEF y, n
      <3>3. QED  BY <3>1, <3>2, SetNote DEF Awake
    <2>2. CASE c \notin V!Registered
      BY <2>2 DEF V!newMessages
    <2>3. QED  BY <2>1, <2>2
  <1> QED  BY <1>1, <1>2

LEMMA RemovedSetAwake ==
    ASSUME NEW hs, NEW us, \A c \in Conns : Awake(hs[c])
    PROVE  LET n == V!removedSet(hs, us) IN
           n = [c \in Conns |-> n[c]] /\ \A c \in Conns : Awake(n[c])
  <1> DEFINE n == V!removedSet(hs, us)
  <1>1. n = [c \in Conns |-> n[c]]  BY DEF V!removedSet
  <1>2. ASSUME NEW c \in Conns PROVE Awake(n[c])
    <2> DEFINE y == [hs[c] EXCEPT !.pendingExpunge = @ \cup us]
    <2>1. CASE c \in V!Registered
      <3>1. n[c] = V!idleUpdate(y)  BY <2>1 DEF V!removedSet
      <3>2. Shape(y) /\ y.st = hs[c].st /\ y.job = hs[c].job
        BY DEF Awake, Shape, HandleFields
      <3> HIDE DEF y, n
      <3>3. QED  BY <3>1, <3>2, SetNote DEF Awake
    <2>2. CASE c \notin V!Registered
      BY <2>2 DEF V!removedSet
    <2>3. QED  BY <2>1, <2>2
  <1> QED  BY <1>1, <1>2

LEMMA FlagsChangedAwake ==
    ASSUME NEW hs, NEW u, NEW who, \A c \in Conns : Awake(hs[c])
    PROVE  LET n == V!flagsChanged(hs, u, who) IN
           n = [c \in Conns |-> n[c]] /\ \A c \in Conns : Awake(n[c])
  <1> DEFINE n == V!flagsChanged(hs, u, who)
  <1>1. n = [c \in Conns |-> n[c]]  BY DEF V!flagsChanged
  <1>2. ASSUME NEW c \in Conns PROVE Awake(n[c])
    <2> DEFINE y == [hs[c] EXCEPT !.pendingFlags = @ \cup {u}]
    <2>1. CASE c \in who
      <3>1. n[c] = V!idleUpdate(y)  BY <2>1 DEF V!flagsChanged
      <3>2. Shape(y) /\ y.st = hs[c].st /\ y.job = hs[c].job
        BY DEF Awake, Shape, HandleFields
      <3> HIDE DEF y, n
      <3>3. QED  BY <3>1, <3>2, SetNote DEF Awake
    <2>2. CASE c \notin who
      BY <2>2 DEF V!flagsChanged
    <2>3. QED  BY <2>1, <2>2
  <1> QED  BY <1>1, <1>2

(* Sync leaves nothing pending but the expunges it was not to send.        *)
LEMMA SyncStep ==
    ASSUME NEW x, NEW expunge \in BOOLEAN, Shape(x)
    PROVE  LET y == V!Sync(x, expunge) IN
           /\ Shape(y)
           /\ y.st = x.st /\ y.job = x.job /\ y.note = x.note
           /\ y.pendingCreated = {} /\ y.pendingFlags = {}
           /\ y.pendingExpunge = IF expunge THEN {} ELSE x.pendingExpunge
  <1> DEFINE dead == IF expunge THEN x.pendingExpunge ELSE {}
             y == V!Sync(x, expunge)
  <1>1. PICK map, w : y = [x EXCEPT !.uidMap = map, !.pendingFlags = {},
                                    !.pendingExpunge = @ \ dead,
                                    !.pendingCreated = {}, !.view = w]
    BY Zenon DEF V!Sync
  <1> HIDE DEF y
  <1>2. Shape(y)  BY <1>1 DEF Shape, HandleFields
  <1>3. y.st = x.st /\ y.job = x.job /\ y.note = x.note
    BY <1>1 DEF Shape, HandleFields
  <1>4. y.pendingCreated = {} /\ y.pendingFlags = {} /\ y.pendingExpunge = x.pendingExpunge \ dead
    BY <1>1 DEF Shape, HandleFields
  <1> QED  BY <1>2, <1>3, <1>4 DEF y

LEMMA OneHandle ==
    ASSUME AwakeInv, NEW c \in Conns, NEW y, Awake(y), h' = [h EXCEPT ![c] = y]
    PROVE  AwakeInv'
  <1>1. h' = [d \in Conns |-> IF d = c THEN y ELSE h[d]]
    BY DEF AwakeInv
  <1>2. h' = [d \in Conns |-> h'[d]]
    BY <1>1
  <1>3. ASSUME NEW d \in Conns PROVE Awake(h'[d])
    BY <1>1 DEF AwakeInv
  <1> QED  BY <1>2, <1>3 DEF AwakeInv, Awake, Shape, V!Pending, HandleFields

LEMMA AllHandles ==
    ASSUME NEW n, h' = n, n = [c \in Conns |-> n[c]], \A c \in Conns : Awake(n[c])
    PROVE  AwakeInv'
  <1>1. h' = [d \in Conns |-> h'[d]] /\ \A d \in Conns : Awake(h'[d])
    OBVIOUS
  <1> QED  BY <1>1 DEF AwakeInv, Awake, Shape, V!Pending, HandleFields

(* The same handles with another job for one that is in a command.         *)
LEMMA NextJobAwake ==
    ASSUME AwakeInv, NEW c \in Conns, h[c].st = "cmd", NEW j,
           j = [f \in {"k", "uids"} |-> j[f]]
    PROVE  \A d \in Conns : Awake([h EXCEPT ![c].job = j][d])
  <1> DEFINE y == [h[c] EXCEPT !.job = j]
  <1>1. Shape(h[c]) /\ Shape(y) /\ y.st = "cmd"
    BY DEF AwakeInv, Awake, Shape, HandleFields
  <1>2. Awake(y)
    BY <1>1 DEF Awake
  <1>3. [h EXCEPT ![c].job = j] = [h EXCEPT ![c] = y]
    BY DEF AwakeInv
  <1> HIDE DEF y
  <1>4. ASSUME NEW d \in Conns PROVE Awake([h EXCEPT ![c] = y][d])
    BY <1>2 DEF AwakeInv
  <1> QED  BY <1>3, <1>4

LEMMA SelectAwake ==
    ASSUME AwakeInv, NEW c \in Conns,
           V!initSelected(c) \/ V!Mailbox(c) \/ V!Close(c) \/ V!Idle(c) \/ V!IdleDone(c)
    PROVE  AwakeInv'
  <1>1. Shape(h[c])  BY DEF AwakeInv, Awake
  <1>2. CASE V!initSelected(c)
    <2> DEFINE y == [V!Closed EXCEPT !.st = "reading", !.uidMap = V!Sorted(viewDb.uids)]
    <2>1. h' = [h EXCEPT ![c] = y]  BY <1>2 DEF V!initSelected
    <2>2. Awake(y)
      BY DEF Awake, Shape, HandleFields, V!Closed, V!NoJob, V!Pending
    <2> QED  BY <2>1, <2>2, OneHandle
  <1>3. CASE V!Mailbox(c)
    <2> DEFINE y == [h[c] EXCEPT !.st = "ready", !.view = h[c].uidMap]
    <2>1. h' = [h EXCEPT ![c] = y]  BY <1>3 DEF V!Mailbox, AwakeInv
    <2>2. Awake(y)
      BY <1>3 DEF V!Mailbox, AwakeInv, Awake, Shape, HandleFields, V!Pending
    <2> QED  BY <2>1, <2>2, OneHandle
  <1>4. CASE V!Close(c)
    <2>1. h' = [h EXCEPT ![c] = V!Closed]  BY <1>4 DEF V!Close
    <2>2. Awake(V!Closed)
      BY DEF Awake, Shape, HandleFields, V!Closed, V!NoJob, V!Pending
    <2> QED  BY <2>1, <2>2, OneHandle
  <1>5. CASE V!Idle(c)
    <2> DEFINE y == [h[c] EXCEPT !.st = "idle", !.note = V!Pending(h[c])]
    <2>1. h' = [h EXCEPT ![c] = y]  BY <1>5 DEF V!Idle, AwakeInv
    <2>2. Shape(y) /\ y.job = h[c].job /\ y.note = V!Pending(h[c])
      BY DEF AwakeInv, Awake, Shape, HandleFields
    <2>3. V!Pending(y) = V!Pending(h[c])
      BY <1>1 DEF Shape, HandleFields, V!Pending
    <2>4. h[c].job.k = "none"
      BY <1>5 DEF V!Idle, AwakeInv, Awake
    <2>5. Awake(y)
      BY <2>2, <2>3, <2>4 DEF Awake
    <2> QED  BY <2>1, <2>5, OneHandle
  <1>6. CASE V!IdleDone(c)
    <2> DEFINE y == [h[c] EXCEPT !.st = "ready", !.note = FALSE]
    <2>1. h' = [h EXCEPT ![c] = y]  BY <1>6 DEF V!IdleDone, AwakeInv
    <2>2. Awake(y)
      BY <1>6, ZenonT(60) DEF V!IdleDone, AwakeInv, Awake, Shape, HandleFields, V!Pending
    <2> QED  BY <2>1, <2>2, OneHandle
  <1> QED  BY <1>2, <1>3, <1>4, <1>5, <1>6

LEMMA SyncAwake ==
    ASSUME AwakeInv, NEW c \in Conns,
           (\E expunge \in BOOLEAN : V!Poll(c, expunge)) \/ V!IdleWakes(c) \/ V!CommandSync(c)
    PROVE  AwakeInv'
  <1>1. Shape(h[c]) /\ (h[c].job.k # "none" => h[c].st = "cmd")
    BY DEF AwakeInv, Awake
  <1>2. ASSUME NEW expunge \in BOOLEAN, V!Poll(c, expunge) PROVE AwakeInv'
    <2> DEFINE y == V!Sync(h[c], expunge)
    <2>1. h' = [h EXCEPT ![c] = y] /\ h[c].st = "ready"
      BY <1>2 DEF V!Poll, V!SyncAndSend
    <2>2. Shape(y) /\ y.st = h[c].st /\ y.job = h[c].job
      BY <1>1, SyncStep
    <2> HIDE DEF y
    <2>3. Awake(y)  BY <1>1, <2>1, <2>2 DEF Awake
    <2> QED  BY <2>1, <2>3, OneHandle
  <1>3. CASE V!IdleWakes(c)
    <2> DEFINE x == [h[c] EXCEPT !.note = FALSE]
               y == V!Sync(x, TRUE)
    <2>1. h' = [h EXCEPT ![c] = y] /\ h[c].st = "idle"
      BY <1>3 DEF V!IdleWakes, V!SyncAndSend
    <2>2. Shape(x) /\ x.job = h[c].job
      BY <1>1 DEF Shape, HandleFields
    <2> HIDE DEF x
    <2>3. /\ Shape(y) /\ y.job = x.job
          /\ y.pendingCreated = {} /\ y.pendingFlags = {} /\ y.pendingExpunge = {}
      BY <2>2, SyncStep
    <2> HIDE DEF y
    <2>4. Awake(y)  BY <1>1, <2>1, <2>2, <2>3 DEF Awake, V!Pending
    <2> QED  BY <2>1, <2>4, OneHandle
  <1>4. CASE V!CommandSync(c)
    <2> DEFINE x == [h[c] EXCEPT !.st = "ready", !.job = V!NoJob]
               e == h[c].job.k = "sync"
               y == V!Sync(x, e)
    <2>1. h' = [h EXCEPT ![c] = y] /\ e \in BOOLEAN
      BY <1>4 DEF V!CommandSync, V!SyncAndSend
    <2>2. Shape(x) /\ x.job = V!NoJob /\ x.st = "ready"
      BY <1>1 DEF Shape, HandleFields, V!NoJob
    <2> HIDE DEF x, e
    <2>3. Shape(y) /\ y.st = x.st /\ y.job = x.job
      BY <2>1, <2>2, SyncStep
    <2> HIDE DEF y
    <2>4. Awake(y)  BY <2>2, <2>3 DEF Awake, V!NoJob
    <2> QED  BY <2>1, <2>4, OneHandle
  <1> QED  BY <1>2, <1>3, <1>4

LEMMA CommandAwake ==
    ASSUME AwakeInv, NEW c \in Conns, V!Expunge(c) \/ V!MoveMessages(c) \/ V!UpdateMessagesFlags(c)
    PROVE  AwakeInv'
  <1>1. PICK job, uids : V!Command(c, job, uids)
    <2>1. CASE V!Expunge(c)  BY <2>1 DEF V!Expunge
    <2>2. CASE V!MoveMessages(c)  BY <2>2, Zenon DEF V!MoveMessages
    <2>3. CASE V!UpdateMessagesFlags(c)  BY <2>3, Zenon DEF V!UpdateMessagesFlags
    <2> QED  BY <2>1, <2>2, <2>3
  <1> DEFINE y == [h[c] EXCEPT !.st = "cmd", !.job = [k |-> job, uids |-> uids]]
  <1>2. h' = [h EXCEPT ![c] = y]
    BY <1>1 DEF V!Command, AwakeInv
  <1>3. Shape(y) /\ y.st = "cmd"
    BY ZenonT(60) DEF AwakeInv, Awake, Shape, HandleFields
  <1>4. Awake(y)
    BY <1>3 DEF Awake
  <1> QED  BY <1>2, <1>4, OneHandle

LEMMA TellAwake ==
    ASSUME AwakeInv, NEW c \in Conns, V!RemovedSet(c) \/ V!Removed(c) \/ V!FlagsChanged(c)
    PROVE  AwakeInv'
  <1>1. Shape(h[c]) /\ (h[c].job.k # "none" => h[c].st = "cmd")
    BY DEF AwakeInv, Awake
  <1>2. CASE V!RemovedSet(c)
    <2> DEFINE j == [h[c].job EXCEPT !.k = "sync", !.uids = {}]
               hs == [h EXCEPT ![c].job = j]
    <2>1. h' = V!removedSet(hs, h[c].job.uids) /\ h[c].st = "cmd"
      BY <1>1, <1>2 DEF V!RemovedSet, AwakeInv
    <2>2. j = [f \in {"k", "uids"} |-> j[f]]
      BY <1>1 DEF Shape
    <2> HIDE DEF j
    <2>3. \A d \in Conns : Awake(hs[d])
      BY <2>1, <2>2, NextJobAwake
    <2> HIDE DEF hs
    <2> QED  BY <2>1, <2>3, RemovedSetAwake, AllHandles
  <1>3. CASE V!Removed(c)
    <2>1. PICK u \in h[c].job.uids :
             h' = V!removedSet([h EXCEPT ![c].job =
                    IF @.uids = {u} THEN [k |-> "sync", uids |-> {}] ELSE V!NextJob(c, u)], {u})
      BY <1>3 DEF V!Removed
    <2> DEFINE j == IF h[c].job.uids = {u} THEN [k |-> "sync", uids |-> {}] ELSE V!NextJob(c, u)
               hs == [h EXCEPT ![c].job = j]
    <2>2. h' = V!removedSet(hs, {u}) /\ h[c].st = "cmd"
      BY <1>1, <1>3, <2>1 DEF V!Removed, AwakeInv
    <2>3. j = [f \in {"k", "uids"} |-> j[f]]
      BY <1>1 DEF Shape, V!NextJob
    <2> HIDE DEF j
    <2>4. \A d \in Conns : Awake(hs[d])
      BY <2>2, <2>3, NextJobAwake
    <2> HIDE DEF hs
    <2> QED  BY <2>2, <2>4, RemovedSetAwake, AllHandles
  <1>4. CASE V!FlagsChanged(c)
    <2>1. PICK u \in h[c].job.uids, silent \in BOOLEAN :
             h' = V!flagsChanged([h EXCEPT ![c].job =
                    IF @.uids = {u}
                    THEN [k |-> IF @.k = "store" THEN "flags" ELSE "sync", uids |-> {}]
                    ELSE V!NextJob(c, u)],
                 u, IF silent THEN V!Registered \ {c} ELSE V!Registered)
      BY <1>4 DEF V!FlagsChanged
    <2> DEFINE j == IF h[c].job.uids = {u}
                    THEN [k |-> IF h[c].job.k = "store" THEN "flags" ELSE "sync", uids |-> {}]
                    ELSE V!NextJob(c, u)
               hs == [h EXCEPT ![c].job = j]
               who == IF silent THEN V!Registered \ {c} ELSE V!Registered
    <2>2. h' = V!flagsChanged(hs, u, who) /\ h[c].st = "cmd"
      BY <1>1, <1>4, <2>1 DEF V!FlagsChanged, AwakeInv
    <2>3. j = [f \in {"k", "uids"} |-> j[f]]
      BY <1>1 DEF Shape, V!NextJob
    <2> HIDE DEF j, who
    <2>4. \A d \in Conns : Awake(hs[d])
      BY <2>2, <2>3, NextJobAwake
    <2> HIDE DEF hs
    <2> QED  BY <2>2, <2>4, FlagsChangedAwake, AllHandles
  <1> QED  BY <1>2, <1>3, <1>4

LEMMA StepAwake ==
    ASSUME AwakeInv, [V!Next]_(V!vars)
    PROVE  AwakeInv'
  <1>1. CASE \E c \in Conns :
               \/ V!initSelected(c) \/ V!Mailbox(c) \/ V!Close(c)
               \/ \E expunge \in BOOLEAN : V!Poll(c, expunge)
               \/ V!Idle(c) \/ V!IdleWakes(c) \/ V!IdleDone(c)
               \/ V!Expunge(c) \/ V!MoveMessages(c) \/ V!UpdateMessagesFlags(c)
               \/ V!RemovedSet(c) \/ V!Removed(c) \/ V!FlagsChanged(c) \/ V!CommandSync(c)
    BY <1>1, SelectAwake, SyncAwake, CommandAwake, TellAwake, Zenon
  <1>2. CASE h' = h
    BY <1>2 DEF AwakeInv, Awake, Shape, V!Pending, HandleFields
  <1>3. ASSUME NEW u, h' = V!newMessages(h, u) PROVE AwakeInv'
    BY <1>3, NewMessagesAwake, AllHandles DEF AwakeInv
  <1>4. CASE V!BodyParsed \/ V!Commit \/ V!CreateMessageOutside \/ V!AppendCommit \/ V!TxFails
             \/ V!PushFails
    <2>1. h' = h
      BY <1>4 DEF V!BodyParsed, V!Commit, V!CreateMessageOutside, V!AppendCommit, V!TxFails,
                  V!PushFails
    <2> QED  BY <2>1, <1>2
  <1>5. CASE V!CreateMessage \/ V!ExternalUpdate \/ \E u \in V!Uid : V!NewMessage(u)
    BY <1>5, <1>3 DEF V!CreateMessage, V!ExternalUpdate, V!NewMessage
  <1>6. CASE UNCHANGED V!vars
    BY <1>6, <1>2 DEF V!vars
  <1> QED  BY <1>1, <1>4, <1>5, <1>6 DEF V!Next

(* Whatever deliveries, expunges, other processes and lost notifications   *)
(* do, every handle of manager.go and handle.go is Awake.                  *)
THEOREM ViewsAwake == V!Spec => []AwakeInv
  <1>1. V!Init => AwakeInv
    <2>1. Awake(V!Closed)
      BY DEF Awake, Shape, HandleFields, V!Closed, V!NoJob, V!Pending
    <2>2. ASSUME h = [c \in Conns |-> V!Closed] PROVE AwakeInv
      BY <2>1, <2>2 DEF AwakeInv
    <2> QED  BY <2>2 DEF V!Init
  <1>2. AwakeInv /\ [V!Next]_(V!vars) => AwakeInv'
    BY StepAwake
  <1> QED  BY <1>1, <1>2, PTL DEF V!Spec

(* A client in IDLE is never left asleep on a pending update: the update   *)
(* is on its way to it, or the channel that wakes it is filled             *)
(* (MailboxHandle.idleUpdate and the Manager that feeds it).               *)
THEOREM ViewsIdleAwake == V!Spec => []V!IdleAwake
  <1>1. AwakeInv => V!IdleAwake
    BY DEF AwakeInv, Awake, V!IdleAwake
  <1> QED  BY <1>1, ViewsAwake, PTL
=============================================================================
