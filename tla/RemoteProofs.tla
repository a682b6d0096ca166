---------------------------- MODULE RemoteProofs ----------------------------
(***************************************************************************)
(* PooledClean, SecurityKept and StatusHonest for any number of messages,  *)
(* domains, connections and MX records, and any limits of the pool.        *)
(*                                                                         *)
(* PoolInv says where a connection is: in one bucket, or with one          *)
(* goroutine.  A goroutine keeps a bucket it looked up after the bucket    *)
(* left the pool, so the invariant speaks of those buckets too.  SecureInv *)
(* rests on it, and carries what the policies checked from the MX to the   *)
(* connection and through the pool to the goroutine that sends over it.    *)
(* StatusInv follows a recipient through its goroutine: nothing happened   *)
(* before the HTTP attempt, only lost answers up to the transaction, and a *)
(* true status after it.                                                   *)
(***************************************************************************)
EXTENDS Remote, TLAPS, FiniteSetTheorems

Names == Domains \cup {"none"}
PCs == {"none", "http", "get", "drain", "recv", "prep", "mx", "conn", "mail", "send", "done"}

Goroutine == [pc : PCs, c : Conn \cup {0}, ch : Chan \cup {0}, mxs : Nat, cached : BOOLEAN,
              mx : 0 .. 2, sts : SUBSET Names, dead : BOOLEAN]
Connection == [st : {"none", "open", "dead"}, dom : Names, tls : 0 .. 2, mx : 0 .. 2,
               rcpts : SUBSET (Rcpts \X BOOLEAN), errored : BOOLEAN, n : Nat, at : Nat,
               by : Msgs \cup {"none"}, cached : BOOLEAN, sts : SUBSET Names]
Bucket == [conns : Seq(Conn), closed : BOOLEAN, lastUse : Nat]
Delivery == [st : {"new", "rcpt", "body", "closed"}, to : SUBSET Rcpts, reqtls : BOOLEAN,
             relaxed : SUBSET Domains, errs : SUBSET Rcpts, mtasts : [dom : Names, ok : BOOLEAN],
             tlsa : Names]

(* The variables the invariants read have their types.                     *)
Typed ==
    /\ kind \in {"remote", "smtp", "lmtp"}
    /\ dl \in [Msgs -> Delivery]
    /\ w \in [Workers -> Goroutine]
    /\ conn \in [Conn -> Connection]
    /\ chan \in [Chan -> Bucket]
    /\ pool \in [keys : [Domains -> Chan \cup {0}], closed : BOOLEAN]
    /\ now \in Nat

(* The connections in the bucket k, and that a connection may be in one.   *)
In(k) == ToSet(chan[k].conns)
Ready(x) == x.st = "open" /\ ~x.errored /\ x.n <= ReuseLimit

(* A bucket of the pool is open, belongs to one key, and a goroutine that  *)
(* looked it up before it left the pool did so for the same key.           *)
Buckets ==
    \A d \in Domains : pool.keys[d] # 0 =>
        /\ ~chan[pool.keys[d]].closed
        /\ \A e \in Domains : pool.keys[e] = pool.keys[d] => e = d
        /\ \A x \in Workers : w[x].ch = pool.keys[d] => x[2] = d

(* What is in a bucket is fit for the next message, and of its key, also   *)
(* when only a goroutine knows the bucket.                                 *)
Contents ==
    /\ \A k \in Chan : IsInjective(chan[k].conns) /\ \A c \in In(k) : Ready(conn[c])
    /\ \A d \in Domains : pool.keys[d] # 0 => \A c \in In(pool.keys[d]) : conn[c].dom = d
    /\ \A x \in Workers : w[x].ch # 0 => \A c \in In(w[x].ch) : conn[c].dom = x[2]

(* A connection is in one place.                                           *)
OnePlace ==
    /\ \A k, l \in Chan : k # l => In(k) \cap In(l) = {}
    /\ \A x \in Workers, k \in Chan : w[x].c \notin In(k)
    /\ \A x, y \in Workers : x # y /\ w[x].c # 0 => w[x].c # w[y].c

(* A goroutine that speaks has a connection to its domain.                 *)
Owns(x, g, cs) ==
    /\ g.pc \in {"mail", "send"} => g.c # 0
    /\ g.pc \notin {"mail", "send", "done"} => g.c = 0
    /\ g.pc \in {"recv", "drain"} <=> g.ch # 0
    /\ g.c # 0 => cs[g.c].st # "none" /\ cs[g.c].dom = x[2]
Owned == \A x \in Workers : Owns(x, w[x], conn)

(* Goroutines belong to a body that is being delivered.                    *)
Running == \A x \in Workers : w[x].pc # "none" => dl[x[1]].st = "body"

PoolInv == Typed /\ Buckets /\ Contents /\ OnePlace /\ Owned /\ Running

(* An open connection whose policies were checked is as secure as its      *)
(* domain asks.                                                            *)
Alone(m) == Cardinality({y \in Workers : y[1] = m}) = 1
Checked(x) ==
    x.st = "open" /\ x.by \notin Override /\ ~x.cached =>
        /\ x.tls >= MinTLS /\ x.mx >= MinMX
        /\ x.sts = {x.dom} /\ Mode[x.dom] = "enforce" => x.tls = 2 /\ x.mx >= 1
        /\ Alone(x.by) /\ x.dom \in Dane => x.tls >= 1

(* ... the MX a goroutine is about to connect to as well.                  *)
CheckedMX(x) ==
    w[x].pc = "conn" /\ HasPolicies(x[1]) /\ ~w[x].cached =>
        /\ w[x].mx >= MinMX
        /\ w[x].sts # {}
        /\ w[x].sts = {x[2]} /\ Mode[x[2]] = "enforce" => w[x].mx >= 1
        /\ Alone(x[1]) => dl[x[1]].tlsa = x[2]

(* REQUIRETLS is given up by a goroutine that has a secure connection.     *)
Relaxed ==
    \A m \in Msgs :
        /\ dl[m].relaxed = {} => dl[m].reqtls = (m \in ReqTLS)
        /\ \A d \in dl[m].relaxed : <<m, d>> \in Workers => w[<<m, d>>].pc \in {"send", "done"}
Sending ==
    \A x \in Workers : w[x].pc = "send" =>
        /\ conn[w[x].c].st = "open"
        /\ x[1] \in ReqTLS /\ dl[x[1]].relaxed \subseteq {x[2]}
              => conn[w[x].c].tls = 2 /\ conn[w[x].c].mx >= 1

SecureInv ==
    /\ \A c \in Conn : Checked(conn[c])
    /\ \A x \in Workers : CheckedMX(x)
    /\ Relaxed /\ Sending

(* What is known of a recipient: nothing before the goroutine starts, and  *)
(* as long as it has no status, that a copy the other side has comes of a  *)
(* lost answer.                                                            *)
Count(m, r) == peer.got[m][r]
Fresh(m, r) == Count(m, r) = 0 /\ r \notin dl[m].errs
Explained(m, r) == Count(m, r) >= 1 => <<m, r>> \in peer.lost
Honest(m, r) ==
    /\ r \notin dl[m].errs \cup Converts /\ <<m, r>> \notin peer.ok => Count(m, r) >= 1
    /\ Count(m, r) >= 2 \/ (Count(m, r) >= 1 /\ r \in dl[m].errs) => <<m, r>> \in peer.lost

Reported(m, r) ==
    LET x == <<m, DomainOf[r]>> IN
    /\ w[x].pc \in {"none", "http"} => Fresh(m, r)
    /\ w[x].pc \notin {"none", "http", "done"} => r \notin dl[m].errs /\ Explained(m, r)
    /\ w[x].pc = "done" => Honest(m, r)

Downstream(m) ==
    /\ dl[m].st \in {"new", "closed"} => dl[m].errs = {}
    /\ dl[m].st = "new" => dl[m].to = {}
    /\ dl[m].st # "body" => \A r \in To[m] : Count(m, r) = 0
    /\ dl[m].st = "rcpt" => dl[m].to \subseteq To[m] \ dl[m].errs
    /\ dl[m].st = "body" => \A r \in To[m] : Honest(m, r)

(* The names a connection holds are of its domain.                         *)
NamesOfDomain == \A c \in Conn : \A p \in conn[c].rcpts : DomainOf[p[1]] = conn[c].dom

IsPeer(p) ==
    /\ p = [got |-> p.got, lost |-> p.lost, ok |-> p.ok]
    /\ p.got = [m \in Msgs |-> p.got[m]]
    /\ \A m \in Msgs : p.got[m] \in [To[m] -> Nat]

StatusInv ==
    /\ IsPeer(peer)
    /\ NamesOfDomain
    /\ kind = "remote" => \A m \in Msgs : \A r \in To[m] : Reported(m, r)
    /\ kind = "remote" => \A x \in Workers : w[x].pc = "none" => dl[x[1]].st # "body"
    /\ kind # "remote" => \A m \in Msgs : Downstream(m)

-----------------------------------------------------------------------------
(* The sets and the null values.                                           *)

LEMMA WorkerParts ==
    \A x \in Workers : x[1] \in Msgs /\ x[2] \in Domains /\ x = <<x[1], x[2]>>
  BY DEF Workers

LEMMA WorkersFinite == IsFiniteSet(Workers)
  <1>1. IsFiniteSet(Msgs \X Domains)
    BY SetsAssumption, FS_Product
  <1> QED
    BY <1>1, FS_Subset DEF Workers

LEMMA ChanSize ==
    /\ Chan \subseteq Nat \ {0} /\ IsFiniteSet(Chan)
    /\ Cardinality(Chan) = Cardinality(Domains) + Cardinality(Workers)
    /\ Cardinality(Domains) \in Nat /\ Cardinality(Workers) \in Nat
  <1>1. Cardinality(Domains) \in Nat /\ Cardinality(Workers) \in Nat
    BY SetsAssumption, WorkersFinite, FS_CardinalityType
  <1> DEFINE n == Cardinality(Domains) + Cardinality(Workers)
  <1>2. n \in Nat
    BY <1>1
  <1> HIDE DEF n
  <1>3. IsFiniteSet(1 .. n) /\ Cardinality(1 .. n) = n
    BY <1>2, FS_Interval
  <1> QED
    BY <1>1, <1>2, <1>3 DEF Chan, n

LEMMA ConnNotZero == 0 \notin Conn /\ 0 \notin Chan
  BY ChanSize DEF Conn

LEMMA NullValues ==
    /\ NoWork \in Goroutine /\ NoConn \in Connection /\ NoChan \in Bucket
    /\ \A m \in Msgs : NewDelivery(m) \in Delivery
  BY DEF NoWork, Goroutine, PCs, Names, NoConn, Connection, NoChan, Bucket, NewDelivery, Delivery,
         NoFuture

(* The lists of connections, as sets.                                      *)
LEMMA EmptyList == ToSet(<<>>) = {} /\ IsInjective(<<>>)
  BY DEF ToSet, IsInjective

LEMMA ListTail ==
    ASSUME NEW S, NEW q \in Seq(S), q # <<>>, IsInjective(q)
    PROVE  /\ Tail(q) \in Seq(S) /\ IsInjective(Tail(q))
           /\ Head(q) \in ToSet(q) /\ ToSet(Tail(q)) = ToSet(q) \ {Head(q)}
           /\ ToSet(q) \subseteq S
  <1> DEFINE t == Tail(q)
             n == Len(q)
  <1>1. n \in Nat /\ n >= 1 /\ DOMAIN q = 1 .. n /\ t \in Seq(S) /\ DOMAIN t = 1 .. (n - 1)
        /\ \A i \in 1 .. (n - 1) : t[i] = q[i + 1]
    OBVIOUS
  <1>2. Head(q) = q[1] /\ 1 \in DOMAIN q
    BY <1>1
  <1>3. \A i, j \in DOMAIN q : q[i] = q[j] => i = j
    BY DEF IsInjective
  <1>4. \A i \in DOMAIN q : q[i] \in S
    OBVIOUS
  <1> HIDE DEF t, n
  <1>5. ASSUME NEW i \in DOMAIN t, NEW j \in DOMAIN t, t[i] = t[j] PROVE i = j
    <2>1. i + 1 \in DOMAIN q /\ j + 1 \in DOMAIN q /\ t[i] = q[i + 1] /\ t[j] = q[j + 1]
      BY <1>1
    <2>2. i + 1 = j + 1
      BY <1>3, <1>5, <2>1
    <2>3. i \in Nat /\ j \in Nat
      BY <1>1
    <2> QED
      BY <2>2, <2>3
  <1>6. ASSUME NEW i \in DOMAIN t PROVE t[i] \in ToSet(q) /\ t[i] # Head(q)
    BY <1>1, <1>2, <1>3, SMTT(30) DEF ToSet
  <1>7. ASSUME NEW i \in DOMAIN q, q[i] # Head(q) PROVE q[i] \in ToSet(t)
    <2>1. i - 1 \in DOMAIN t /\ t[i - 1] = q[(i - 1) + 1] /\ (i - 1) + 1 = i
      BY <1>1, <1>2, <1>7
    <2> QED
      BY <2>1 DEF ToSet
  <1>8. ToSet(t) = ToSet(q) \ {Head(q)}
    BY <1>6, <1>7 DEF ToSet
  <1>9. IsInjective(t)
    BY <1>5 DEF IsInjective
  <1>10. ToSet(q) \subseteq S /\ Head(q) \in ToSet(q)
    BY <1>2, <1>4 DEF ToSet
  <1> QED
    BY <1>1, <1>8, <1>9, <1>10 DEF t

LEMMA ListAppend ==
    ASSUME NEW S, NEW q \in Seq(S), IsInjective(q), NEW c \in S, c \notin ToSet(q)
    PROVE  /\ Append(q, c) \in Seq(S) /\ IsInjective(Append(q, c))
           /\ ToSet(Append(q, c)) = ToSet(q) \cup {c}
  <1> DEFINE t == Append(q, c)
             n == Len(q)
  <1>1. n \in Nat /\ DOMAIN q = 1 .. n /\ t \in Seq(S) /\ DOMAIN t = 1 .. (n + 1)
        /\ (\A i \in 1 .. n : t[i] = q[i]) /\ t[n + 1] = c
    OBVIOUS
  <1>2. \A i, j \in DOMAIN q : q[i] = q[j] => i = j
    BY DEF IsInjective
  <1>3. \A i \in DOMAIN q : q[i] # c
    BY DEF ToSet
  <1> HIDE DEF t, n
  <1>4. ASSUME NEW i \in DOMAIN t, NEW j \in DOMAIN t, t[i] = t[j] PROVE i = j
    BY <1>1, <1>2, <1>3, <1>4
  <1>5. ASSUME NEW i \in DOMAIN t PROVE t[i] \in ToSet(q) \cup {c}
    <2>1. CASE i \in 1 .. n
      BY <1>1, <2>1 DEF ToSet
    <2>2. CASE i = n + 1
      BY <1>1, <2>2
    <2> QED
      BY <1>1, <2>1, <2>2
  <1>6. ASSUME NEW i \in DOMAIN q PROVE q[i] \in ToSet(t)
    BY <1>1 DEF ToSet
  <1>7. c \in ToSet(t)
    <2>1. n + 1 \in DOMAIN t
      BY <1>1
    <2> QED
      BY <1>1, <2>1 DEF ToSet
  <1>8. ToSet(t) = ToSet(q) \cup {c}
    BY <1>5, <1>6, <1>7 DEF ToSet
  <1>9. IsInjective(t)
    BY <1>4 DEF IsInjective
  <1> QED
    BY <1>1, <1>8, <1>9 DEF t

(* Return finds a bucket that nobody knows: there is one for each domain   *)
(* and one for each goroutine, and the domain in question has none.        *)
LEMMA FreeBucket ==
    ASSUME Typed, NEW d \in Domains, pool.keys[d] = 0
    PROVE  LET new == CHOOSE n \in Chan : n \notin UsedChans IN new \in Chan /\ new \notin UsedChans
  <1> DEFINE D == Domains \ {d}
             A == {pool.keys[e] : e \in D}
             B == {w[x].ch : x \in Workers}
             f == [e \in D |-> pool.keys[e]]
             g == [x \in Workers |-> w[x].ch]
  <1>1. IsFiniteSet(D) /\ Cardinality(D) = Cardinality(Domains) - 1
    BY SetsAssumption, FS_RemoveElement
  <1>2. f \in Surjection(D, A) /\ g \in Surjection(Workers, B)
    BY DEF Surjection
  <1>3. IsFiniteSet(A) /\ Cardinality(A) <= Cardinality(D)
    BY <1>1, <1>2, FS_Surjection
  <1>4. IsFiniteSet(B) /\ Cardinality(B) <= Cardinality(Workers)
    BY <1>2, WorkersFinite, FS_Surjection
  <1> HIDE DEF D, f, g
  <1>5. /\ IsFiniteSet(A \cup B) /\ Cardinality(A \cup B) \in Nat
        /\ Cardinality(A) \in Nat /\ Cardinality(B) \in Nat
        /\ IsFiniteSet(A \cap B) /\ Cardinality(A \cap B) \in Nat
    <2>1. IsFiniteSet(A \cup B) /\ IsFiniteSet(A \cap B)
      BY <1>3, <1>4, FS_Union, FS_Subset
    <2> QED
      BY <1>3, <1>4, <2>1, FS_CardinalityType
  <1>6. Cardinality(A \cup B) = Cardinality(A) + Cardinality(B) - Cardinality(A \cap B)
    BY <1>3, <1>4, FS_Union
  <1>7. Cardinality(A \cup B) < Cardinality(Chan)
    BY <1>1, <1>3, <1>4, <1>5, <1>6, ChanSize
  <1>8. ~(Chan \subseteq A \cup B)
    <2>1. SUFFICES ASSUME Chan \subseteq A \cup B PROVE FALSE
      OBVIOUS
    <2>2. Cardinality(Chan) <= Cardinality(A \cup B)
      BY <1>5, <2>1, FS_Subset
    <2> QED
      BY <1>5, <1>7, <2>2, ChanSize
  <1>9. PICK n \in Chan : n \notin A \cup B
    BY <1>8
  <1>10. n \notin UsedChans
    BY <1>9, ConnNotZero DEF UsedChans, D
  <1> QED
    BY <1>10

(* The identity of a new connection.                                       *)
LEMMA FreshConn ==
    ASSUME FreeConn # {}
    PROVE  NewId \in Conn /\ conn[NewId].st = "none"
  BY DEF FreeConn, NewId

-----------------------------------------------------------------------------
(* The pool.  Most steps let connections leave buckets and buckets leave   *)
(* the pool, and change at most one goroutine and the connections it has.  *)

LEMMA InConn ==
    ASSUME Typed, NEW k \in Chan
    PROVE  In(k) \subseteq Conn /\ chan[k] \in Bucket /\ chan[k].conns \in Seq(Conn)
  <1>1. chan[k].conns \in Seq(Conn)
    BY DEF Typed, Bucket
  <1>2. \A i \in DOMAIN chan[k].conns : chan[k].conns[i] \in Conn
    BY <1>1
  <1> QED
    BY <1>1, <1>2 DEF In, ToSet, Typed

LEMMA Shrinks ==
    ASSUME PoolInv, Typed', Running', NEW x,
           \A y \in Workers \ {x} : w'[y] = w[y],
           \A k \in Chan : In(k)' \subseteq In(k) /\ IsInjective(chan[k].conns)',
           \A d \in Domains : \/ pool'.keys[d] = 0
                              \/ /\ pool'.keys[d] = pool.keys[d]
                                 /\ chan'[pool.keys[d]].closed = chan[pool.keys[d]].closed,
           x \in Workers => w'[x].ch \in {0, w[x].ch, pool.keys[x[2]]},
           \A k \in Chan : \A c \in In(k)' : conn'[c] = conn[c],
           \A y \in Workers \ {x} : w[y].c # 0 => conn'[w[y].c] = conn[w[y].c],
           x \in Workers => /\ Owns(x, w[x], conn)'
                            /\ \A k \in Chan : w'[x].c \notin In(k)'
                            /\ \A y \in Workers \ {x} : w'[x].c # 0 => w[y].c # w'[x].c
    PROVE  PoolInv'
  <1>1. Buckets'
    <2>1. SUFFICES ASSUME NEW d \in Domains, pool'.keys[d] # 0
                   PROVE  /\ ~chan'[pool'.keys[d]].closed
                          /\ \A e \in Domains : pool'.keys[e] = pool'.keys[d] => e = d
                          /\ \A y \in Workers : w'[y].ch = pool'.keys[d] => y[2] = d
      BY DEF Buckets
    <2>2. /\ pool'.keys[d] = pool.keys[d] /\ pool.keys[d] # 0
          /\ chan'[pool.keys[d]].closed = chan[pool.keys[d]].closed
      BY <2>1
    <2>3. \A e \in Domains : pool'.keys[e] = pool'.keys[d] => e = d
      BY <2>1, <2>2 DEF PoolInv, Buckets
    <2>4. ASSUME NEW y \in Workers, w'[y].ch = pool'.keys[d] PROVE y[2] = d
      <3>1. CASE y = x
        BY <2>1, <2>2, <2>4, <3>1, WorkerParts DEF PoolInv, Buckets
      <3>2. CASE y # x
        BY <2>1, <2>2, <2>4, <3>2 DEF PoolInv, Buckets
      <3> QED
        BY <3>1, <3>2
    <2> QED
      BY <2>1, <2>2, <2>3, <2>4 DEF PoolInv, Buckets
  <1>2. Contents'
    <2>1. \A k \in Chan : \A c \in In(k)' : Ready(conn[c])'
      BY DEF PoolInv, Contents, Ready
    <2>2. ASSUME NEW d \in Domains, pool'.keys[d] # 0
          PROVE  \A c \in In(pool.keys[d])' : conn'[c].dom = d
      <3>1. pool'.keys[d] = pool.keys[d] /\ pool.keys[d] \in Chan
        BY <2>2 DEF PoolInv, Typed
      <3>2. \A c \in In(pool.keys[d]) : conn[c].dom = d
        BY <2>2, <3>1 DEF PoolInv, Contents
      <3>3. In(pool.keys[d])' \subseteq In(pool.keys[d])
        BY <3>1 DEF In
      <3>4. \A c \in In(pool.keys[d])' : conn'[c] = conn[c]
        BY <3>1 DEF In
      <3> QED
        BY <3>2, <3>3, <3>4
    <2>3. ASSUME NEW y \in Workers, w'[y].ch # 0
          PROVE  \A c \in In(w[y].ch)' : conn'[c].dom = y[2]
      <3> DEFINE k == w'[y].ch
      <3>1. k \in Chan /\ (k = w[y].ch \/ k = pool.keys[y[2]])
        BY <2>3 DEF PoolInv, Typed, Goroutine
      <3>2. \A c \in In(k) : conn[c].dom = y[2]
        BY <2>3, <3>1, WorkerParts DEF PoolInv, Contents
      <3>3. In(w[y].ch)' = ToSet(chan'[k].conns)
        BY DEF In
      <3> HIDE DEF k
      <3>4. ToSet(chan'[k].conns) \subseteq In(k) /\ \A c \in ToSet(chan'[k].conns) : conn'[c] = conn[c]
        BY <3>1 DEF In
      <3> QED
        BY <3>2, <3>3, <3>4
    <2> QED
      BY <2>1, <2>2, <2>3 DEF Contents
  <1>3. OnePlace'
    <2>1. ASSUME NEW k \in Chan, NEW l \in Chan, k # l PROVE In(k)' \cap In(l)' = {}
      BY <2>1 DEF PoolInv, OnePlace
    <2>2. ASSUME NEW y \in Workers, NEW k \in Chan PROVE w'[y].c \notin In(k)'
      BY DEF PoolInv, OnePlace
    <2>3. ASSUME NEW y \in Workers, NEW z \in Workers, y # z, w'[y].c # 0 PROVE w'[y].c # w'[z].c
      BY <2>3 DEF PoolInv, OnePlace
    <2> QED
      BY <2>1, <2>2, <2>3 DEF OnePlace
  <1>4. Owned'
    <2>1. ASSUME NEW y \in Workers, y # x PROVE Owns(y, w[y], conn)'
      <3>1. w'[y] = w[y] /\ Owns(y, w[y], conn) /\ (w[y].c # 0 => conn'[w[y].c] = conn[w[y].c])
        BY <2>1 DEF PoolInv, Owned
      <3> QED
        BY <3>1 DEF Owns
    <2> QED
      BY <2>1 DEF Owned
  <1> QED
    BY <1>1, <1>2, <1>3, <1>4 DEF PoolInv

(* A step of a goroutine on the connection it has or opens.                *)
LEMMA LocalStep ==
    ASSUME PoolInv, Typed', NEW x \in Workers, NEW q \in Goroutine,
           w' = [w EXCEPT ![x] = q], UNCHANGED <<chan, pool>>,
           \A m \in Msgs : dl'[m].st = dl[m].st, w[x].pc # "none",
           \A c \in Conn : c # w[x].c /\ c # q.c => conn'[c] = conn[c],
           q.c \in {0, w[x].c} \/ (q.c \in Conn /\ conn[q.c].st = "none"),
           q.ch \in {0, w[x].ch}, Owns(x, q, conn')
    PROVE  PoolInv'
  <1>1. w'[x] = q /\ \A y \in Workers \ {x} : w'[y] = w[y]
    BY DEF PoolInv, Typed
  <1>2. \A k \in Chan : In(k)' = In(k) /\ IsInjective(chan[k].conns)'
    BY DEF PoolInv, Contents, In
  <1>3. ASSUME NEW k \in Chan, NEW c \in In(k) PROVE c # w[x].c /\ c # q.c /\ c \in Conn
    <2>1. c \in Conn /\ c # 0 /\ c # w[x].c
      BY InConn, ConnNotZero DEF PoolInv, OnePlace
    <2>2. conn[c].st = "open"
      BY DEF PoolInv, Contents, Ready
    <2> QED
      BY <2>1, <2>2
  <1>4. ASSUME NEW y \in Workers \ {x}, w[y].c # 0
        PROVE  w[y].c # w[x].c /\ w[y].c # q.c /\ w[y].c \in Conn
    <2>1. w[y].c # w[x].c /\ w[y].c \in Conn /\ conn[w[y].c].st # "none"
      BY <1>4 DEF PoolInv, OnePlace, Owned, Owns, Typed, Goroutine
    <2> QED
      BY <1>4, <2>1
  <1>5. Running'
    <2>1. ASSUME NEW y \in Workers, w'[y].pc # "none" PROVE dl'[y[1]].st = "body"
      BY <1>1, <2>1, WorkerParts DEF PoolInv, Running
    <2> QED
      BY <2>1 DEF Running
  <1>6. \A k \in Chan : In(k)' \subseteq In(k)
    BY <1>2
  <1>7. \A d \in Domains : /\ pool'.keys[d] = pool.keys[d]
                           /\ chan'[pool.keys[d]].closed = chan[pool.keys[d]].closed
    OBVIOUS
  <1>8. \A k \in Chan : \A c \in In(k)' : conn'[c] = conn[c]
    BY <1>2, <1>3
  <1>9. \A y \in Workers \ {x} : w[y].c # 0 => conn'[w[y].c] = conn[w[y].c]
    BY <1>4
  <1>10. Owns(x, w[x], conn)'
    BY <1>1 DEF Owns
  <1>11. \A k \in Chan : w'[x].c \notin In(k)'
    BY <1>1, <1>2, <1>3
  <1>12. \A y \in Workers \ {x} : w'[x].c # 0 => w[y].c # w'[x].c
    BY <1>1, <1>4
  <1>13. w'[x].ch \in {0, w[x].ch, pool.keys[x[2]]}
    BY <1>1
  <1> QED
    BY <1>1, <1>2, <1>5, <1>6, <1>7, <1>8, <1>9, <1>10, <1>11, <1>12, <1>13, Shrinks

-----------------------------------------------------------------------------
(* What the updates do to the fields of a goroutine, a delivery and a      *)
(* connection.                                                             *)

(* Only the goroutine x moves, to g.                                       *)
Moves(x, g) == g \in Goroutine /\ w' = [w EXCEPT ![x] = g]

LEMMA Moved ==
    ASSUME Typed, NEW x \in Workers, NEW g, Moves(x, g)
    PROVE  /\ w' \in [Workers -> Goroutine] /\ w'[x] = g
           /\ \A y \in Workers \ {x} : w'[y] = w[y]
  BY DEF Typed, Moves

LEMMA AtPc ==
    ASSUME Typed, NEW x \in Workers, NEW p \in PCs, w' = [w EXCEPT ![x].pc = p]
    PROVE  LET g == [w[x] EXCEPT !.pc = p] IN
           /\ Moves(x, g) /\ g.pc = p /\ g.c = w[x].c /\ g.ch = w[x].ch
           /\ g.cached = w[x].cached /\ g.mx = w[x].mx /\ g.sts = w[x].sts
  BY DEF Typed, Goroutine, Moves

LEMMA Ended ==
    LET g == [NoWork EXCEPT !.pc = "done"] IN
    g \in Goroutine /\ g.pc = "done" /\ g.c = 0 /\ g.ch = 0
  <1>1. [NoWork EXCEPT !.pc = "done"] \in Goroutine
    BY NullValues DEF Goroutine, PCs
  <1> QED
    BY <1>1 DEF NoWork

(* A connection of its own, for MAIL.                                      *)
LEMMA Connected ==
    ASSUME NEW c \in Conn
    PROVE  LET g == [NoWork EXCEPT !.pc = "mail", !.c = c] IN
           g \in Goroutine /\ g.pc = "mail" /\ g.c = c /\ g.ch = 0
  <1>1. [NoWork EXCEPT !.pc = "mail", !.c = c] \in Goroutine
    BY NullValues DEF Goroutine, PCs
  <1> QED
    BY <1>1 DEF NoWork

(* The delivery m is changed in its errors only.                           *)
ErrorsOnly(m, E) ==
    /\ dl' \in [Msgs -> Delivery]
    /\ \A n \in Msgs : /\ dl'[n].st = dl[n].st /\ dl'[n].to = dl[n].to
                       /\ dl'[n].reqtls = dl[n].reqtls /\ dl'[n].relaxed = dl[n].relaxed
                       /\ dl'[n].mtasts = dl[n].mtasts /\ dl'[n].tlsa = dl[n].tlsa
                       /\ dl'[n].errs = IF n = m THEN E ELSE dl[n].errs

LEMMA ErrorsSet ==
    ASSUME Typed, NEW m \in Msgs, NEW E \in SUBSET Rcpts, dl' = [dl EXCEPT ![m].errs = E]
    PROVE  ErrorsOnly(m, E)
  BY SMTT(30) DEF Typed, Delivery, ErrorsOnly

LEMMA TlsaSet ==
    ASSUME Typed, NEW m \in Msgs, NEW d \in Names, dl' = [dl EXCEPT ![m].tlsa = d]
    PROVE  /\ dl' \in [Msgs -> Delivery]
           /\ \A n \in Msgs :
                /\ dl'[n].st = dl[n].st /\ dl'[n].to = dl[n].to
                /\ dl'[n].reqtls = dl[n].reqtls /\ dl'[n].relaxed = dl[n].relaxed
                /\ dl'[n].tlsa = IF n = m THEN d ELSE dl[n].tlsa
                /\ dl'[n].errs = dl[n].errs
  <1> DEFINE v == [dl[m] EXCEPT !.tlsa = d]
  <1>1. dl' = [dl EXCEPT ![m] = v]
    BY DEF Typed
  <1>2. /\ v \in Delivery /\ v.st = dl[m].st /\ v.to = dl[m].to /\ v.tlsa = d
        /\ v.errs = dl[m].errs /\ v.reqtls = dl[m].reqtls /\ v.relaxed = dl[m].relaxed
    BY DEF Typed, Delivery
  <1> HIDE DEF v
  <1> QED
    BY <1>1, <1>2 DEF Typed

LEMMA RelaxedSet ==
    ASSUME Typed, NEW m \in Msgs, NEW d \in Domains,
           dl' = [dl EXCEPT ![m].reqtls = FALSE, ![m].relaxed = @ \cup {d}]
    PROVE  /\ dl' \in [Msgs -> Delivery]
           /\ \A n \in Msgs :
                /\ dl'[n].st = dl[n].st /\ dl'[n].to = dl[n].to /\ dl'[n].tlsa = dl[n].tlsa
                /\ dl'[n].errs = dl[n].errs
                /\ dl'[n].reqtls = IF n = m THEN FALSE ELSE dl[n].reqtls
                /\ dl'[n].relaxed = IF n = m THEN dl[n].relaxed \cup {d} ELSE dl[n].relaxed
  <1> DEFINE r == dl[m].relaxed \cup {d}
  <1>1. r \in SUBSET Domains
    BY DEF Typed, Delivery
  <1> DEFINE v == [dl[m] EXCEPT !.reqtls = FALSE, !.relaxed = r]
  <1>2. dl' = [dl EXCEPT ![m] = v]
    BY DEF Typed
  <1> HIDE DEF r
  <1>4. /\ v \in Delivery /\ v.st = dl[m].st /\ v.to = dl[m].to /\ v.tlsa = dl[m].tlsa
        /\ v.errs = dl[m].errs /\ v.reqtls = FALSE /\ v.relaxed = r
    BY <1>1 DEF Typed, Delivery
  <1> HIDE DEF v
  <1>3. /\ dl' \in [Msgs -> Delivery]
        /\ \A n \in Msgs :
             /\ dl'[n].st = dl[n].st /\ dl'[n].to = dl[n].to /\ dl'[n].tlsa = dl[n].tlsa
             /\ dl'[n].errs = dl[n].errs
             /\ dl'[n].reqtls = IF n = m THEN FALSE ELSE dl[n].reqtls
             /\ dl'[n].relaxed = IF n = m THEN r ELSE dl[n].relaxed
    BY <1>2, <1>4 DEF Typed
  <1> QED
    BY <1>3 DEF r

LEMMA Closed ==
    ASSUME NEW cs \in [Conn -> Connection], NEW ids
    PROVE  /\ Close(cs, ids) \in [Conn -> Connection]
           /\ \A c \in Conn : Close(cs, ids)[c] = IF c \in ids THEN NoConn ELSE cs[c]
  BY NullValues DEF Close

LEMMA RcptsAtType ==
    ASSUME NEW m \in Msgs, NEW d
    PROVE  RcptsAt(m, d) \subseteq Rcpts /\ RcptsAt(m, d) \subseteq To[m]
  BY ToAssumption DEF RcptsAt

LEMMA GivesUpDoes ==
    ASSUME Typed, NEW x \in Workers, GivesUp(x)
    PROVE  /\ Moves(x, [NoWork EXCEPT !.pc = "done"])
           /\ ErrorsOnly(x[1], dl[x[1]].errs \cup RcptsAt(x[1], x[2]))
  <1>1. x[1] \in Msgs /\ dl[x[1]].errs \cup RcptsAt(x[1], x[2]) \subseteq Rcpts
    BY WorkerParts, RcptsAtType DEF Typed, Delivery
  <1>2. dl' = [dl EXCEPT ![x[1]].errs = dl[x[1]].errs \cup RcptsAt(x[1], x[2])]
    BY <1>1 DEF GivesUp, Typed
  <1> QED
    BY <1>1, <1>2, ErrorsSet, Ended DEF GivesUp, Moves

(* NextMX: back to the list of MXs, the end, or a dead client for a        *)
(* connection.                                                             *)
LEMMA NextMXDoes ==
    ASSUME Typed, NEW x \in Workers, NEW dead \in BOOLEAN, NextMX(x, dead)
    PROVE  \/ /\ \E g : Moves(x, g) /\ g.pc = "mx" /\ g.c = w[x].c /\ g.ch = w[x].ch
              /\ UNCHANGED <<dl, conn>>
           \/ /\ Moves(x, [NoWork EXCEPT !.pc = "done"]) /\ UNCHANGED conn
              /\ ErrorsOnly(x[1], dl[x[1]].errs \cup RcptsAt(x[1], x[2]))
           \/ \E c \in Conn :
                /\ conn[c].st = "none"
                /\ conn' = [conn EXCEPT ![c] = [NoConn EXCEPT !.st = "dead", !.dom = x[2], !.by = x[1]]]
                /\ Moves(x, [NoWork EXCEPT !.pc = "mail", !.c = c])
                /\ UNCHANGED dl
  <1>1. CASE w[x].mxs > 1
    <2> DEFINE g == [w[x] EXCEPT !.pc = "mx", !.mxs = @ - 1, !.dead = dead]
    <2>1. w' = [w EXCEPT ![x] = g] /\ UNCHANGED <<dl, conn>>
      BY <1>1 DEF NextMX, Typed
    <2>2. w[x] \in Goroutine /\ w[x].mxs \in Nat /\ w[x].mxs - 1 \in Nat
      BY <1>1 DEF Typed, Goroutine
    <2>3. g \in Goroutine /\ g.pc = "mx" /\ g.c = w[x].c /\ g.ch = w[x].ch
      BY <2>2 DEF Goroutine, PCs
    <2> QED
      BY <2>1, <2>3 DEF Moves
  <1>2. CASE ~(w[x].mxs > 1) /\ ~dead
    BY <1>2, GivesUpDoes DEF NextMX
  <1>3. CASE ~(w[x].mxs > 1) /\ dead
    <2>1. NewId \in Conn /\ conn[NewId].st = "none"
      BY <1>3, FreshConn DEF NextMX
    <2> QED
      BY <1>3, <2>1, Connected DEF NextMX, Moves
  <1> QED
    BY <1>1, <1>2, <1>3

(* Everything of the deliveries but the policies of m, and its errors.     *)
KeepsPolicies(m, E) ==
    /\ dl' \in [Msgs -> Delivery]
    /\ \A n \in Msgs : /\ dl'[n].st = dl[n].st /\ dl'[n].to = dl[n].to
                       /\ dl'[n].reqtls = dl[n].reqtls /\ dl'[n].relaxed = dl[n].relaxed
                       /\ dl'[n].tlsa = dl[n].tlsa
                       /\ dl'[n].errs = IF n = m THEN E ELSE dl[n].errs

LEMMA PrepareDomainDoes ==
    ASSUME Typed, NEW x \in Workers, NEW found \in BOOLEAN
    PROVE  /\ PrepareDomain(x, found) \in [Msgs -> Delivery]
           /\ \A n \in Msgs :
                LET f == PrepareDomain(x, found)[n] IN
                /\ f.st = dl[n].st /\ f.to = dl[n].to /\ f.reqtls = dl[n].reqtls
                /\ f.relaxed = dl[n].relaxed /\ f.tlsa = dl[n].tlsa /\ f.errs = dl[n].errs
  <1> DEFINE v == [dom |-> x[2], ok |-> found]
  <1>1. x[1] \in Msgs /\ v \in [dom : Names, ok : BOOLEAN]
    BY WorkerParts DEF Names
  <1> HIDE DEF v
  <1> DEFINE h == [dl EXCEPT ![x[1]].mtasts = v]
  <1>2. h = [dl EXCEPT ![x[1]].mtasts = v]
    OBVIOUS
  <1> HIDE DEF h
  <1>5. /\ h \in [Msgs -> Delivery]
        /\ \A n \in Msgs :
             /\ h[n].st = dl[n].st /\ h[n].to = dl[n].to /\ h[n].reqtls = dl[n].reqtls
             /\ h[n].relaxed = dl[n].relaxed /\ h[n].tlsa = dl[n].tlsa /\ h[n].errs = dl[n].errs
    BY <1>1, <1>2, SMTT(30) DEF Typed, Delivery
  <1>3. CASE HasPolicies(x[1])
    BY <1>5, <1>3 DEF PrepareDomain, v, h
  <1>4. CASE ~HasPolicies(x[1])
    BY <1>4 DEF PrepareDomain, Typed
  <1> QED
    BY <1>3, <1>4

LEMMA newConnDoes ==
    ASSUME Typed, NEW x \in Workers, newConn(x)
    PROVE  \E g : /\ Moves(x, g) /\ g.c = 0 /\ g.ch = 0
                  /\ \/ /\ g.pc = "done"
                        /\ KeepsPolicies(x[1], dl[x[1]].errs \cup RcptsAt(x[1], x[2]))
                     \/ g.pc = "mx" /\ KeepsPolicies(x[1], dl[x[1]].errs)
  <1>1. PICK r \in lookupMX, found \in BOOLEAN :
          /\ w' = [w EXCEPT ![x] = IF r.mxs = 0 THEN [NoWork EXCEPT !.pc = "done"]
                                   ELSE [NoWork EXCEPT !.pc = "mx", !.mxs = r.mxs, !.cached = r.cached,
                                                       !.mx = dnssecCheckMX(x[2])]]
          /\ dl' = IF r.mxs = 0
                   THEN [PrepareDomain(x, found) EXCEPT ![x[1]].errs = @ \cup RcptsAt(x[1], x[2])]
                   ELSE PrepareDomain(x, found)
    BY DEF newConn
  <1>2. r.mxs \in Nat /\ r.cached \in BOOLEAN
    <2>1. CASE r = ResolveMX
      BY <2>1 DEF ResolveMX
    <2>2. CASE \E n \in 0 .. MaxMx : r = [mxs |-> n, cached |-> FALSE]
      BY <2>2, SetsAssumption
    <2> QED
      BY <2>1, <2>2 DEF lookupMX
  <1>3. x[1] \in Msgs /\ RcptsAt(x[1], x[2]) \subseteq Rcpts
    BY WorkerParts, RcptsAtType
  <1> DEFINE f == PrepareDomain(x, found)
  <1>4. f \in [Msgs -> Delivery] /\ f[x[1]].errs = dl[x[1]].errs
    BY <1>3, PrepareDomainDoes
  <1>5. CASE r.mxs = 0
    <2> DEFINE E == dl[x[1]].errs \cup RcptsAt(x[1], x[2])
    <2>1. E \in SUBSET Rcpts
      BY <1>3 DEF Typed, Delivery
    <2> HIDE DEF f, E
    <2>2. dl' = [f EXCEPT ![x[1]].errs = E]
      BY <1>1, <1>3, <1>4, <1>5 DEF f, E
    <2>3. /\ dl' \in [Msgs -> Delivery]
          /\ \A n \in Msgs : /\ dl'[n].st = f[n].st /\ dl'[n].to = f[n].to
                             /\ dl'[n].reqtls = f[n].reqtls /\ dl'[n].relaxed = f[n].relaxed
                             /\ dl'[n].tlsa = f[n].tlsa
                             /\ dl'[n].errs = IF n = x[1] THEN E ELSE f[n].errs
      BY <1>3, <1>4, <2>1, <2>2 DEF Delivery
    <2>4. KeepsPolicies(x[1], E)
      BY <2>3, PrepareDomainDoes DEF KeepsPolicies, f
    <2> QED
      BY <1>1, <1>5, <2>4, Ended DEF Moves, E
  <1>6. CASE r.mxs # 0
    <2> DEFINE g == [NoWork EXCEPT !.pc = "mx", !.mxs = r.mxs, !.cached = r.cached,
                                   !.mx = dnssecCheckMX(x[2])]
    <2>1. dnssecCheckMX(x[2]) \in 0 .. 2
      BY DEF dnssecCheckMX
    <2>2. g \in Goroutine
      BY <1>2, <2>1, NullValues DEF Goroutine, PCs
    <2>3. g.pc = "mx" /\ g.c = 0 /\ g.ch = 0
      BY DEF NoWork
    <2>4. KeepsPolicies(x[1], dl[x[1]].errs)
      BY <1>1, <1>6, PrepareDomainDoes DEF KeepsPolicies
    <2> QED
      BY <1>1, <1>6, <2>2, <2>3, <2>4 DEF Moves
  <1> QED
    BY <1>5, <1>6

(* CheckMX: the MX is passed over, or the goroutine goes on to connect.    *)
LEMMA CheckMXDoes ==
    ASSUME Typed, NEW x \in Workers, CheckMX(x)
    PROVE  \/ NextMX(x, w[x].dead) /\ w[x].dead \in BOOLEAN
           \/ \E g :
                /\ Moves(x, g) /\ g.pc = "conn" /\ g.c = w[x].c /\ g.ch = w[x].ch
                /\ g.cached = w[x].cached /\ UNCHANGED conn
                /\ \/ (~HasPolicies(x[1]) \/ w[x].cached) /\ UNCHANGED dl
                   \/ /\ \E l \in mtastsCheckMX(dl[x[1]].mtasts) :
                            l # -1 /\ localCheckMX(g.mx) /\ g.mx = LevelOf(l, w[x].mx)
                      /\ g.sts = {Seen(dl[x[1]].mtasts)}
                      /\ dl' = [dl EXCEPT ![x[1]].tlsa = x[2]]
  <1> DEFINE fut == dl[x[1]].mtasts
  <1>1. w[x] \in Goroutine /\ w[x].dead \in BOOLEAN /\ w[x].mx \in 0 .. 2
        /\ fut \in [dom : Names, ok : BOOLEAN]
    BY WorkerParts DEF Typed, Goroutine, Delivery
  <1>2. CASE ~HasPolicies(x[1]) \/ w[x].cached
    <2> DEFINE z == 0
               g == [w[x] EXCEPT !.pc = "conn", !.mx = z]
    <2>1. w' = [w EXCEPT ![x] = g] /\ UNCHANGED <<dl, conn>>
      BY <1>2 DEF CheckMX, Typed
    <2>3. z \in 0 .. 2
      OBVIOUS
    <2> HIDE DEF z
    <2>2. g \in Goroutine /\ g.pc = "conn" /\ g.c = w[x].c /\ g.ch = w[x].ch /\ g.cached = w[x].cached
      BY <1>1, <2>3 DEF Goroutine, PCs
    <2> QED
      BY <1>2, <2>1, <2>2 DEF Moves
  <1>3. CASE HasPolicies(x[1]) /\ ~w[x].cached
    <2>1. PICK l \in mtastsCheckMX(fut) :
            IF l = -1 \/ ~localCheckMX(LevelOf(l, w[x].mx))
            THEN NextMX(x, w[x].dead)
            ELSE /\ w' = [w EXCEPT ![x].pc = "conn", ![x].mx = LevelOf(l, @), ![x].sts = {Seen(fut)}]
                 /\ dl' = [dl EXCEPT ![x[1]].tlsa = x[2]]
                 /\ UNCHANGED conn
      BY <1>3 DEF CheckMX
    <2>2. CASE l = -1 \/ ~localCheckMX(LevelOf(l, w[x].mx))
      BY <1>1, <2>1, <2>2
    <2>3. CASE ~(l = -1 \/ ~localCheckMX(LevelOf(l, w[x].mx)))
      <3> DEFINE v == LevelOf(l, w[x].mx)
                 s == {Seen(fut)}
                 g == [w[x] EXCEPT !.pc = "conn", !.mx = v, !.sts = s]
      <3>1. v \in 0 .. 2 /\ s \in SUBSET Names
        BY <1>1, <2>3 DEF LevelOf, mtastsCheckMX, Seen, Names
      <3>2. w' = [w EXCEPT ![x] = g] /\ UNCHANGED conn /\ dl' = [dl EXCEPT ![x[1]].tlsa = x[2]]
        BY <2>1, <2>3 DEF Typed
      <3> HIDE DEF v, s
      <3>3. /\ g \in Goroutine /\ g.pc = "conn" /\ g.c = w[x].c /\ g.ch = w[x].ch
            /\ g.cached = w[x].cached /\ g.mx = v /\ g.sts = s
        BY <1>1, <3>1 DEF Goroutine, PCs
      <3>4. l # -1 /\ localCheckMX(v) /\ v = LevelOf(l, w[x].mx) /\ s = {Seen(fut)}
        BY <2>3 DEF v, s
      <3> HIDE DEF g
      <3> QED
        BY <3>2, <3>3, <3>4 DEF Moves
    <2> QED
      BY <2>2, <2>3
  <1> QED
    BY <1>2, <1>3

(* The connection k that attemptMX opens for the goroutine x.              *)
Opened(x, k) ==
    /\ k \in Connection /\ k.st = "open" /\ k.dom = x[2] /\ k.by = x[1] /\ k.cached = w[x].cached
    /\ k.mx = w[x].mx /\ k.rcpts = {} /\ ~k.errored
    /\ HasPolicies(x[1]) /\ ~w[x].cached =>
         /\ localCheckConn(k.tls)
         /\ k.sts = w[x].sts \cup {Seen(dl[x[1]].mtasts)}
         /\ \E tls \in connect : \E raised \in daneCheckConn(dl[x[1]].tlsa, tls) \ {-1} :
               mtastsCheckConn(dl[x[1]].mtasts, tls) /\ k.tls = LevelOf(tls, raised)

LEMMA DaneLevels ==
    ASSUME NEW dom, NEW tls
    PROVE  daneCheckConn(dom, tls) \subseteq {-1, 0, 2}
  BY DEF daneCheckConn, verifyDANE

LEMMA attemptMXDoes ==
    ASSUME Typed, NEW x \in Workers, attemptMX(x)
    PROVE  \/ \E dead \in BOOLEAN : NextMX(x, dead)
           \/ \E c \in Conn, k \in Connection : /\ conn[c].st = "none" /\ Opened(x, k)
                                 /\ conn' = [conn EXCEPT ![c] = k]
                                 /\ Moves(x, [NoWork EXCEPT !.pc = "mail", !.c = c])
                                 /\ UNCHANGED dl
  <1> DEFINE m == x[1]
             fut == dl[m].mtasts
             checked == HasPolicies(m) /\ ~w[x].cached
  <1>1. /\ w[x] \in Goroutine /\ w[x].dead \in BOOLEAN /\ w[x].mx \in 0 .. 2 /\ w[x].cached \in BOOLEAN
        /\ w[x].sts \subseteq Names /\ fut \in [dom : Names, ok : BOOLEAN]
        /\ x[1] \in Msgs /\ x[2] \in Domains
    BY WorkerParts DEF Typed, Goroutine, Delivery
  <1>2. NewId \in Conn /\ conn[NewId].st = "none"
    BY FreshConn DEF attemptMX
  <1>3. CASE NextMX(x, w[x].dead)
    BY <1>1, <1>3
  <1>4. ASSUME NEW tls \in connect,
               NEW raised \in IF checked THEN daneCheckConn(dl[m].tlsa, tls) ELSE {0},
               checked => /\ mtastsCheckConn(fut, tls)
                          /\ raised # -1
                          /\ localCheckConn(LevelOf(tls, raised)),
               conn' = [conn EXCEPT ![NewId] = [NoConn EXCEPT
                            !.st = "open", !.dom = x[2], !.tls = LevelOf(tls, raised), !.mx = w[x].mx,
                            !.at = now, !.by = m, !.cached = w[x].cached,
                            !.sts = IF checked THEN w[x].sts \cup {Seen(fut)} ELSE {}]],
               w' = [w EXCEPT ![x] = [NoWork EXCEPT !.pc = "mail", !.c = NewId]],
               UNCHANGED dl
        PROVE  \E c \in Conn, k \in Connection : /\ conn[c].st = "none" /\ Opened(x, k)
                                  /\ conn' = [conn EXCEPT ![c] = k]
                                  /\ Moves(x, [NoWork EXCEPT !.pc = "mail", !.c = c])
                                  /\ UNCHANGED dl
    <2> DEFINE lev == LevelOf(tls, raised)
               s == IF checked THEN w[x].sts \cup {Seen(fut)} ELSE {}
               k == [NoConn EXCEPT !.st = "open", !.dom = x[2], !.tls = lev, !.mx = w[x].mx,
                                   !.at = now, !.by = m, !.cached = w[x].cached, !.sts = s]
    <2>1. lev \in 0 .. 2
      BY <1>4, DaneLevels DEF LevelOf, connect
    <2>2. s \subseteq Names
      BY <1>1 DEF Seen, Names
    <2>3. conn' = [conn EXCEPT ![NewId] = k]
      BY <1>4
    <2>4. checked => /\ localCheckConn(lev) /\ s = w[x].sts \cup {Seen(fut)}
                     /\ \E t \in connect : \E r \in daneCheckConn(dl[m].tlsa, t) \ {-1} :
                           mtastsCheckConn(fut, t) /\ lev = LevelOf(t, r)
      BY <1>4
    <2> HIDE DEF lev, s
    <2>5. x[2] \in Names /\ m \in Msgs \cup {"none"} /\ now \in Nat
      BY <1>1 DEF Names, Typed
    <2>6. k \in Connection
      BY <1>1, <2>1, <2>2, <2>5, NullValues DEF Connection
    <2>7. /\ k.st = "open" /\ k.dom = x[2] /\ k.by = x[1] /\ k.cached = w[x].cached
          /\ k.mx = w[x].mx /\ k.rcpts = {} /\ ~k.errored /\ k.tls = lev /\ k.sts = s
      BY DEF NoConn
    <2> HIDE DEF k
    <2>8. Opened(x, k)
      BY <2>4, <2>6, <2>7 DEF Opened
    <2> QED
      BY <1>2, <1>4, <2>3, <2>6, <2>8, Connected DEF Moves
  <1> QED
    BY <1>3, <1>4 DEF attemptMX

(* connectionForDomain: the connection is given up, or MAIL succeeds.      *)
LEMMA connectionForDomainDoes ==
    ASSUME Typed, NEW x \in Workers, connectionForDomain(x)
    PROVE  LET c == w[x].c IN
           \/ conn' = Close(conn, {c}) /\ GivesUp(x)
           \/ /\ conn[c].st = "open" /\ conn' = [conn EXCEPT ![c].at = now]
              /\ w' = [w EXCEPT ![x].pc = "send"]
              /\ dl[x[1]].reqtls => conn[c].tls >= 2 /\ conn[c].mx >= 1
              /\ \/ UNCHANGED dl
                 \/ /\ dl[x[1]].reqtls
                    /\ dl' = [dl EXCEPT ![x[1]].reqtls = FALSE, ![x[1]].relaxed = @ \cup {x[2]}]
  BY DEF connectionForDomain

-----------------------------------------------------------------------------
(* PoolInv, for the steps that leave the pool alone.                       *)

LEMMA TypedLocal ==
    ASSUME Typed, NEW x \in Workers, NEW g, Moves(x, g),
           dl' \in [Msgs -> Delivery], conn' \in [Conn -> Connection],
           UNCHANGED <<kind, chan, pool, now>>
    PROVE  Typed'
  BY Moved DEF Typed

LEMMA SameDeliveries ==
    ASSUME Typed, dl' = dl
    PROVE  dl' \in [Msgs -> Delivery] /\ \A m \in Msgs : dl'[m].st = dl[m].st
  BY DEF Typed

LEMMA tryHTTPPool ==
    ASSUME PoolInv, NEW x \in Workers, tryHTTP(x)
    PROVE  PoolInv'
  <1>1. PICK p \in {"done", "get"} : w' = [w EXCEPT ![x].pc = p]
    BY DEF tryHTTP
  <1>2. UNCHANGED <<kind, dl, conn, chan, pool, now>> /\ w[x].pc = "http" /\ p \in PCs
    BY DEF tryHTTP, PCs
  <1> DEFINE g == [w[x] EXCEPT !.pc = p]
  <1>3. Moves(x, g) /\ g.pc = p /\ g.c = w[x].c /\ g.ch = w[x].ch
    BY <1>1, <1>2, AtPc DEF PoolInv
  <1> HIDE DEF g
  <1>4. w[x].c = 0 /\ w[x].ch = 0
    BY <1>2 DEF PoolInv, Owned, Owns
  <1>5. Typed' /\ \A m \in Msgs : dl'[m].st = dl[m].st
    BY <1>2, <1>3, TypedLocal, SameDeliveries DEF PoolInv, Typed
  <1>6. Owns(x, g, conn')
    BY <1>3, <1>4 DEF Owns
  <1> QED
    BY <1>2, <1>3, <1>5, <1>6, LocalStep DEF Moves

LEMMA newConnPool ==
    ASSUME PoolInv, NEW x \in Workers, newConn(x)
    PROVE  PoolInv'
  <1>1. PICK g : /\ Moves(x, g) /\ g.c = 0 /\ g.ch = 0 /\ g.pc \in {"done", "mx"}
                 /\ dl' \in [Msgs -> Delivery] /\ \A m \in Msgs : dl'[m].st = dl[m].st
    BY newConnDoes DEF PoolInv, KeepsPolicies
  <1>2. UNCHANGED <<kind, conn, chan, pool, now>> /\ w[x].pc = "prep"
    BY DEF newConn
  <1>3. Typed'
    BY <1>1, <1>2, TypedLocal DEF PoolInv, Typed
  <1>4. Owns(x, g, conn')
    BY <1>1 DEF Owns
  <1> QED
    BY <1>1, <1>2, <1>3, <1>4, LocalStep DEF Moves

LEMMA NewDead ==
    ASSUME Typed, NEW x \in Workers
    PROVE  LET k == [NoConn EXCEPT !.st = "dead", !.dom = x[2], !.by = x[1]] IN
           /\ k \in Connection /\ k.st = "dead" /\ k.dom = x[2] /\ k.rcpts = {}
  <1>1. x[2] \in Names /\ x[1] \in Msgs
    BY WorkerParts DEF Names
  <1>2. [NoConn EXCEPT !.st = "dead", !.dom = x[2], !.by = x[1]] \in Connection
    BY <1>1, NullValues DEF Connection
  <1> QED
    BY <1>2 DEF NoConn

(* A goroutine with a new connection k of its own.                         *)
LEMMA NewConnection ==
    ASSUME PoolInv, NEW x \in Workers, NEW c \in Conn, conn[c].st = "none",
           NEW k \in Connection, k.st # "none", k.dom = x[2],
           conn' = [conn EXCEPT ![c] = k], Moves(x, [NoWork EXCEPT !.pc = "mail", !.c = c]),
           w[x].pc # "none", UNCHANGED <<kind, dl, chan, pool, now>>
    PROVE  PoolInv'
  <1> DEFINE g == [NoWork EXCEPT !.pc = "mail", !.c = c]
  <1>1. Moves(x, g) /\ g.pc = "mail" /\ g.c = c /\ g.ch = 0
    BY Connected
  <1> HIDE DEF g
  <1>2. conn' \in [Conn -> Connection] /\ conn'[c] = k /\ \A o \in Conn : o # c => conn'[o] = conn[o]
    BY DEF PoolInv, Typed
  <1>3. Typed' /\ \A m \in Msgs : dl'[m].st = dl[m].st
    BY <1>1, <1>2, TypedLocal DEF PoolInv, Typed
  <1>4. Owns(x, g, conn')
    BY <1>1, <1>2, ConnNotZero DEF Owns
  <1> QED
    BY <1>1, <1>2, <1>3, <1>4, LocalStep, ZenonT(60) DEF Moves

LEMMA NextMXPool ==
    ASSUME PoolInv, NEW x \in Workers, NEW dead \in BOOLEAN, NextMX(x, dead),
           w[x].pc \in {"mx", "conn"}, UNCHANGED <<kind, chan, pool, now>>
    PROVE  PoolInv'
  <1>1. w[x].c = 0 /\ w[x].ch = 0
    BY DEF PoolInv, Owned, Owns
  <1>2. CASE /\ \E g : Moves(x, g) /\ g.pc = "mx" /\ g.c = w[x].c /\ g.ch = w[x].ch
             /\ UNCHANGED <<dl, conn>>
    <2>1. PICK g : Moves(x, g) /\ g.pc = "mx" /\ g.c = w[x].c /\ g.ch = w[x].ch
      BY <1>2
    <2>2. Typed' /\ \A m \in Msgs : dl'[m].st = dl[m].st
      BY <1>2, <2>1, TypedLocal DEF PoolInv, Typed
    <2>3. Owns(x, g, conn')
      BY <1>1, <2>1 DEF Owns
    <2> QED
      BY <1>2, <2>1, <2>2, <2>3, LocalStep DEF Moves
  <1>3. CASE /\ Moves(x, [NoWork EXCEPT !.pc = "done"]) /\ UNCHANGED conn
             /\ ErrorsOnly(x[1], dl[x[1]].errs \cup RcptsAt(x[1], x[2]))
    <2> DEFINE g == [NoWork EXCEPT !.pc = "done"]
    <2>1. Moves(x, g) /\ g.pc = "done" /\ g.c = 0 /\ g.ch = 0
      BY <1>3, Ended
    <2> HIDE DEF g
    <2>2. Typed' /\ \A m \in Msgs : dl'[m].st = dl[m].st
      BY <1>3, <2>1, TypedLocal DEF PoolInv, Typed, ErrorsOnly
    <2>3. Owns(x, g, conn')
      BY <2>1 DEF Owns
    <2> QED
      BY <1>3, <2>1, <2>2, <2>3, LocalStep DEF Moves
  <1>4. CASE \E c \in Conn :
                /\ conn[c].st = "none"
                /\ conn' = [conn EXCEPT ![c] = [NoConn EXCEPT !.st = "dead", !.dom = x[2], !.by = x[1]]]
                /\ Moves(x, [NoWork EXCEPT !.pc = "mail", !.c = c])
                /\ UNCHANGED dl
    <2> DEFINE k == [NoConn EXCEPT !.st = "dead", !.dom = x[2], !.by = x[1]]
    <2>1. PICK c \in Conn : /\ conn[c].st = "none" /\ conn' = [conn EXCEPT ![c] = k]
                            /\ Moves(x, [NoWork EXCEPT !.pc = "mail", !.c = c]) /\ UNCHANGED dl
      BY <1>4
    <2>2. k \in Connection /\ k.st # "none" /\ k.dom = x[2]
      BY NewDead DEF PoolInv
    <2> HIDE DEF k
    <2> QED
      BY <2>1, <2>2, NewConnection
  <1> QED
    BY <1>2, <1>3, <1>4, NextMXDoes DEF PoolInv

LEMMA CheckMXPool ==
    ASSUME PoolInv, NEW x \in Workers, CheckMX(x)
    PROVE  PoolInv'
  <1>1. UNCHANGED <<kind, chan, pool, now>> /\ w[x].pc = "mx"
    BY DEF CheckMX
  <1>2. CASE NextMX(x, w[x].dead) /\ w[x].dead \in BOOLEAN
    BY <1>1, <1>2, NextMXPool
  <1>3. CASE \E g : /\ Moves(x, g) /\ g.pc = "conn" /\ g.c = w[x].c /\ g.ch = w[x].ch /\ UNCHANGED conn
                    /\ UNCHANGED dl \/ dl' = [dl EXCEPT ![x[1]].tlsa = x[2]]
    <2>1. PICK g : /\ Moves(x, g) /\ g.pc = "conn" /\ g.c = w[x].c /\ g.ch = w[x].ch /\ UNCHANGED conn
                   /\ UNCHANGED dl \/ dl' = [dl EXCEPT ![x[1]].tlsa = x[2]]
      BY <1>3
    <2>2. x[1] \in Msgs /\ x[2] \in Names
      BY WorkerParts DEF Names
    <2>3. dl' \in [Msgs -> Delivery] /\ \A m \in Msgs : dl'[m].st = dl[m].st
      BY <2>1, <2>2, SameDeliveries, TlsaSet DEF PoolInv
    <2>4. Typed'
      BY <1>1, <2>1, <2>3, TypedLocal DEF PoolInv, Typed
    <2>5. Owns(x, g, conn')
      BY <1>1, <2>1 DEF Owns, PoolInv, Owned
    <2> QED
      BY <1>1, <2>1, <2>3, <2>4, <2>5, LocalStep DEF Moves
  <1> QED
    BY <1>2, <1>3, CheckMXDoes DEF PoolInv

LEMMA attemptMXPool ==
    ASSUME PoolInv, NEW x \in Workers, attemptMX(x)
    PROVE  PoolInv'
  <1>1. UNCHANGED <<kind, chan, pool, now>> /\ w[x].pc = "conn"
    BY DEF attemptMX
  <1>2. CASE \E dead \in BOOLEAN : NextMX(x, dead)
    BY <1>1, <1>2, NextMXPool
  <1>3. CASE \E c \in Conn, k \in Connection : /\ conn[c].st = "none" /\ Opened(x, k)
                                /\ conn' = [conn EXCEPT ![c] = k]
                                /\ Moves(x, [NoWork EXCEPT !.pc = "mail", !.c = c])
                                /\ UNCHANGED dl
    <2>1. PICK c \in Conn, k \in Connection : /\ conn[c].st = "none" /\ Opened(x, k)
                               /\ conn' = [conn EXCEPT ![c] = k]
                               /\ Moves(x, [NoWork EXCEPT !.pc = "mail", !.c = c])
                               /\ UNCHANGED dl
      BY <1>3
    <2>2. k \in Connection /\ k.st # "none" /\ k.dom = x[2]
      BY <2>1 DEF Opened
    <2> QED
      BY <1>1, <2>1, <2>2, NewConnection
  <1> QED
    BY <1>2, <1>3, attemptMXDoes DEF PoolInv

(* MAIL and the transaction touch the connection in its time, its names    *)
(* and its error only.                                                     *)
Touched(c, k) ==
    /\ k \in Connection /\ conn' = [conn EXCEPT ![c] = k]
    /\ k.st = conn[c].st /\ k.dom = conn[c].dom /\ k.n = conn[c].n /\ k.tls = conn[c].tls
    /\ k.mx = conn[c].mx /\ k.by = conn[c].by /\ k.cached = conn[c].cached /\ k.sts = conn[c].sts

LEMMA MailTouches ==
    ASSUME Typed, NEW c \in Conn, conn' = [conn EXCEPT ![c].at = now]
    PROVE  LET k == [conn[c] EXCEPT !.at = now] IN Touched(c, k) /\ k.rcpts = conn[c].rcpts
  BY DEF Typed, Connection, Touched

LEMMA SpeaksPool ==
    ASSUME PoolInv, NEW x \in Workers, NEW k, Touched(w[x].c, k), w[x].pc \in {"mail", "send"},
           NEW p \in {"send", "done"}, w' = [w EXCEPT ![x].pc = p],
           dl' \in [Msgs -> Delivery], \A m \in Msgs : dl'[m].st = dl[m].st,
           UNCHANGED <<kind, chan, pool, now>>
    PROVE  PoolInv'
  <1> DEFINE g == [w[x] EXCEPT !.pc = p]
  <1>1. p \in PCs
    BY DEF PCs
  <1>2. Moves(x, g) /\ g.pc = p /\ g.c = w[x].c /\ g.ch = w[x].ch
    BY <1>1, AtPc DEF PoolInv
  <1> HIDE DEF g
  <1>3. w[x].c \in Conn /\ w[x].c # 0 /\ w[x].ch = 0 /\ conn[w[x].c].st # "none" /\ conn[w[x].c].dom = x[2]
    BY DEF PoolInv, Owned, Owns, Typed, Goroutine
  <1>4. conn' \in [Conn -> Connection] /\ conn'[w[x].c] = k /\ \A c \in Conn : c # w[x].c => conn'[c] = conn[c]
    BY <1>3 DEF PoolInv, Typed, Touched
  <1>5. Typed'
    BY <1>2, <1>4, TypedLocal DEF PoolInv
  <1>6. Owns(x, g, conn')
    BY <1>2, <1>3, <1>4 DEF Owns, Touched
  <1> QED
    BY <1>2, <1>4, <1>5, <1>6, LocalStep DEF Moves

LEMMA connectionForDomainPool ==
    ASSUME PoolInv, NEW x \in Workers, connectionForDomain(x)
    PROVE  PoolInv'
  <1>1. UNCHANGED <<kind, chan, pool, now>> /\ w[x].pc = "mail"
    BY DEF connectionForDomain
  <1>2. w[x].c \in Conn /\ w[x].c # 0 /\ x[1] \in Msgs /\ x[2] \in Domains
    BY <1>1, WorkerParts DEF PoolInv, Owned, Owns, Typed, Goroutine
  <1>3. CASE conn' = Close(conn, {w[x].c}) /\ GivesUp(x)
    <2> DEFINE g == [NoWork EXCEPT !.pc = "done"]
    <2>1. Moves(x, g) /\ g.pc = "done" /\ g.c = 0 /\ g.ch = 0
      BY <1>3, GivesUpDoes, Ended DEF PoolInv
    <2>2. dl' \in [Msgs -> Delivery] /\ \A m \in Msgs : dl'[m].st = dl[m].st
      BY <1>3, GivesUpDoes DEF PoolInv, ErrorsOnly
    <2> HIDE DEF g
    <2>3. conn' \in [Conn -> Connection] /\ \A c \in Conn : c # w[x].c => conn'[c] = conn[c]
      BY <1>3, Closed DEF PoolInv, Typed
    <2>4. Typed'
      BY <1>1, <2>1, <2>2, <2>3, TypedLocal DEF PoolInv
    <2>5. Owns(x, g, conn')
      BY <2>1 DEF Owns
    <2> QED
      BY <1>1, <2>1, <2>2, <2>3, <2>4, <2>5, LocalStep DEF Moves
  <1>4. CASE /\ conn' = [conn EXCEPT ![w[x].c].at = now] /\ w' = [w EXCEPT ![x].pc = "send"]
             /\ \/ UNCHANGED dl
                \/ dl' = [dl EXCEPT ![x[1]].reqtls = FALSE, ![x[1]].relaxed = @ \cup {x[2]}]
    <2>1. PICK k : Touched(w[x].c, k)
      BY <1>2, <1>4, MailTouches DEF PoolInv
    <2>2. dl' \in [Msgs -> Delivery] /\ \A m \in Msgs : dl'[m].st = dl[m].st
      BY <1>2, <1>4, SameDeliveries, RelaxedSet DEF PoolInv
    <2> QED
      BY <1>1, <1>4, <2>1, <2>2, SpeaksPool
  <1> QED
    BY <1>3, <1>4, connectionForDomainDoes DEF PoolInv

(* The transaction: names are collected, and the errors of RCPT and DATA.  *)
LEMMA TransactionDoes ==
    ASSUME Typed, NEW x \in Workers, w[x].c \in Conn, Transaction(x)
    PROVE  \E acc \in SUBSET RcptsAt(x[1], x[2]), utf8 \in BOOLEAN, res \in Data \cup {"unread"}, k \in Connection :
             LET names == conn[w[x].c].rcpts \cup {ToASCII(r, utf8) : r \in acc}
                 p == IF res \in {"ok", "lost"} THEN Got(peer, x[1], acc) ELSE peer
             IN /\ acc \cap Converts = {} => utf8
                /\ Touched(w[x].c, k) /\ k.rcpts = names
                /\ ErrorsOnly(x[1], dl[x[1]].errs \cup (RcptsAt(x[1], x[2]) \ acc)
                                       \cup (IF res = "ok" THEN {} ELSE DataStatuses(x[1], names)))
                /\ peer' = IF res = "lost" THEN Lost(p, x[1], acc) ELSE p
                /\ w' = [w EXCEPT ![x].pc = "done"]
  <1> DEFINE m == x[1]
             c == w[x].c
             rs == RcptsAt(m, x[2])
  <1>1. PICK acc \in SUBSET rs, utf8 \in BOOLEAN, res \in Data \cup {"unread"} :
          LET names == conn[c].rcpts \cup {ToASCII(r, utf8) : r \in acc}
              got == res \in {"ok", "lost"}
          IN
          /\ acc \cap Converts = {} => utf8
          /\ got => acc # {}
          /\ Faulty(res \in {"lost", "unread"})
          /\ peer' = LET p == IF got THEN Got(peer, m, acc) ELSE peer
                     IN  IF res = "lost" THEN Lost(p, m, acc) ELSE p
          /\ dl' = [dl EXCEPT ![m].errs = @ \cup (rs \ acc)
                       \cup (IF res = "ok" THEN {} ELSE DataStatuses(m, names))]
          /\ conn' = [conn EXCEPT ![c].rcpts = names, ![c].at = now,
                                  ![c].errored = res \in {"fail", "lost"}]
          /\ w' = [w EXCEPT ![x].pc = "done"]
    BY Zenon DEF Transaction
  <1> DEFINE names == conn[c].rcpts \cup {ToASCII(r, utf8) : r \in acc}
             E == dl[m].errs \cup (rs \ acc) \cup (IF res = "ok" THEN {} ELSE DataStatuses(m, names))
             bad == res \in {"fail", "lost"}
             k == [conn[c] EXCEPT !.rcpts = names, !.at = now, !.errored = bad]
  <1>2. m \in Msgs /\ rs \subseteq Rcpts /\ To[m] \subseteq Rcpts
    BY WorkerParts, RcptsAtType, ToAssumption
  <1>3. names \in SUBSET (Rcpts \X BOOLEAN)
    <2>1. \A r \in acc : (r \in Converts /\ ~utf8) \in BOOLEAN
      BY Zenon
    <2>2. \A r \in acc : ToASCII(r, utf8) \in Rcpts \X BOOLEAN
      BY <1>2, <2>1, Zenon DEF ToASCII
    <2> QED
      BY <2>2 DEF Typed, Connection
  <1>4. E \in SUBSET Rcpts
    BY <1>2 DEF DataStatuses, Typed, Delivery
  <1>5. bad \in BOOLEAN
    OBVIOUS
  <1>6. dl' = [dl EXCEPT ![m].errs = E]
    BY <1>1, <1>2 DEF Typed
  <1>7. conn' = [conn EXCEPT ![c] = k]
    BY <1>1 DEF Typed
  <1>8. peer' = LET p == IF res \in {"ok", "lost"} THEN Got(peer, m, acc) ELSE peer
                IN  IF res = "lost" THEN Lost(p, m, acc) ELSE p
    BY <1>1
  <1> HIDE DEF names, E, bad
  <1>12. conn[c] \in Connection /\ now \in Nat
    BY DEF Typed
  <1>13. /\ k \in Connection /\ k.rcpts = names
         /\ k.st = conn[c].st /\ k.dom = conn[c].dom /\ k.n = conn[c].n /\ k.tls = conn[c].tls
         /\ k.mx = conn[c].mx /\ k.by = conn[c].by /\ k.cached = conn[c].cached /\ k.sts = conn[c].sts
    BY <1>3, <1>5, <1>12 DEF Connection
  <1>9. Touched(c, k) /\ k.rcpts = names
    BY <1>7, <1>13 DEF Touched
  <1>10. ErrorsOnly(m, E)
    BY <1>2, <1>4, <1>6, ErrorsSet
  <1>11. (acc \cap Converts = {} => utf8) /\ w' = [w EXCEPT ![x].pc = "done"]
    BY <1>1 DEF Transaction
  <1> HIDE DEF k
  <1> QED
    BY <1>8, <1>9, <1>10, <1>11, <1>13 DEF names, E

LEMMA TransactionPool ==
    ASSUME PoolInv, NEW x \in Workers, Transaction(x)
    PROVE  PoolInv'
  <1>1. UNCHANGED <<kind, chan, pool, now>> /\ w[x].pc = "send"
    BY DEF Transaction
  <1>2. w[x].c \in Conn
    BY <1>1 DEF PoolInv, Owned, Owns, Typed, Goroutine
  <1>3. PICK k, E : Touched(w[x].c, k) /\ ErrorsOnly(x[1], E) /\ w' = [w EXCEPT ![x].pc = "done"]
    BY <1>2, TransactionDoes DEF PoolInv
  <1> QED
    BY <1>1, <1>3, SpeaksPool DEF ErrorsOnly

-----------------------------------------------------------------------------
(* PoolInv, for Get, Return and the ends of buckets.                       *)

LEMMA BucketSet ==
    ASSUME Typed, NEW k \in Chan, NEW b \in Bucket, chan' = [chan EXCEPT ![k] = b]
    PROVE  /\ chan' \in [Chan -> Bucket] /\ chan'[k] = b /\ In(k)' = ToSet(b.conns)
           /\ \A l \in Chan \ {k} : chan'[l] = chan[l] /\ In(l)' = In(l)
  BY DEF Typed, In

LEMMA GetPool ==
    ASSUME PoolInv, NEW x \in Workers, Get(x)
    PROVE  PoolInv'
  <1> DEFINE d == x[2]
             k == pool.keys[d]
             old == k # 0 /\ now - chan[k].lastUse > Lifetime
             p == IF k = 0 THEN "prep" ELSE IF old THEN "drain" ELSE "recv"
             g == [w[x] EXCEPT !.pc = p, !.ch = k]
  <1>1. /\ w' = [w EXCEPT ![x] = g] /\ UNCHANGED <<kind, dl, conn, now>> /\ w[x].pc = "get"
        /\ pool' = IF old THEN [pool EXCEPT !.keys[d] = 0] ELSE pool
        /\ chan' = IF old THEN [chan EXCEPT ![k].closed = TRUE] ELSE chan
    BY DEF Get, PoolInv, Typed
  <1>2. d \in Domains /\ k \in Chan \cup {0} /\ p \in PCs /\ (p = "prep" <=> k = 0)
        /\ p \in {"prep", "drain", "recv"} /\ w[x] \in Goroutine
    BY WorkerParts DEF PoolInv, Typed, PCs
  <1>3. old => k \in Chan
    BY <1>2
  <1> HIDE DEF p, d
  <1>4. g \in Goroutine /\ g.pc = p /\ g.c = w[x].c /\ g.ch = k
    BY <1>2 DEF Goroutine
  <1> HIDE DEF k, g, old
  <1>5. w' \in [Workers -> Goroutine] /\ w'[x] = g /\ \A y \in Workers \ {x} : w'[y] = w[y]
    BY <1>1, <1>4, Moved DEF Moves, PoolInv
  <1>6. /\ pool' \in [keys : [Domains -> Chan \cup {0}], closed : BOOLEAN]
        /\ \A e \in Domains : pool'.keys[e] = IF old /\ e = d THEN 0 ELSE pool.keys[e]
    <2>1. CASE old
      <3>1. pool' = [pool EXCEPT !.keys = [pool.keys EXCEPT ![d] = 0]]
        BY <1>1, <2>1 DEF PoolInv, Typed
      <3> DEFINE ks == [pool.keys EXCEPT ![d] = 0]
      <3>2. ks \in [Domains -> Chan \cup {0}] /\ \A e \in Domains : ks[e] = IF e = d THEN 0 ELSE pool.keys[e]
        BY <1>2 DEF PoolInv, Typed
      <3> HIDE DEF ks
      <3>3. pool' = [pool EXCEPT !.keys = ks]
        BY <3>1 DEF ks
      <3>4. pool' \in [keys : [Domains -> Chan \cup {0}], closed : BOOLEAN] /\ pool'.keys = ks
        BY <3>2, <3>3 DEF PoolInv, Typed
      <3> QED
        BY <2>1, <3>2, <3>4
    <2>2. CASE ~old
      BY <1>1, <2>2 DEF PoolInv, Typed
    <2> QED
      BY <2>1, <2>2
  <1>7. /\ chan' \in [Chan -> Bucket]
        /\ \A l \in Chan : /\ In(l)' = In(l) /\ chan'[l].conns = chan[l].conns
                           /\ chan'[l].closed = IF old /\ l = k THEN TRUE ELSE chan[l].closed
    <2>1. CASE old
      <3> DEFINE b == [chan[k] EXCEPT !.closed = TRUE]
      <3>1. chan' = [chan EXCEPT ![k] = b]
        BY <1>1, <1>3, <2>1 DEF PoolInv, Typed
      <3>2. b \in Bucket /\ b.conns = chan[k].conns /\ b.closed = TRUE
        BY <1>3, <2>1 DEF PoolInv, Typed, Bucket
      <3> HIDE DEF b
      <3> QED
        BY <1>3, <2>1, <3>1, <3>2, BucketSet DEF PoolInv, In
    <2>2. CASE ~old
      BY <1>1, <2>2 DEF PoolInv, Typed, In
    <2> QED
      BY <2>1, <2>2
  <1>8. Typed'
    BY <1>1, <1>5, <1>6, <1>7 DEF PoolInv, Typed
  <1>9. Running'
    BY <1>1, <1>5 DEF PoolInv, Running
  <1>10. \A l \in Chan : In(l)' \subseteq In(l) /\ IsInjective(chan[l].conns)'
    BY <1>7 DEF PoolInv, Contents
  <1>11. \A e \in Domains : \/ pool'.keys[e] = 0
                            \/ /\ pool'.keys[e] = pool.keys[e]
                               /\ chan'[pool.keys[e]].closed = chan[pool.keys[e]].closed
    <2>1. SUFFICES ASSUME NEW e \in Domains, pool'.keys[e] # 0
                   PROVE  /\ pool'.keys[e] = pool.keys[e]
                          /\ chan'[pool.keys[e]].closed = chan[pool.keys[e]].closed
      OBVIOUS
    <2>2. pool'.keys[e] = pool.keys[e] /\ pool.keys[e] \in Chan /\ ~(old /\ e = d)
      BY <1>6, <2>1 DEF PoolInv, Typed
    <2>3. old => pool.keys[e] # k
      BY <1>2, <1>3, <2>1, <2>2, ConnNotZero DEF PoolInv, Buckets, k
    <2> QED
      BY <1>7, <2>2, <2>3
  <1>12. w[x].c = 0 /\ w[x].ch = 0
    BY <1>1 DEF PoolInv, Owned, Owns
  <1>13. Owns(x, w[x], conn)'
    BY <1>2, <1>4, <1>5, <1>12 DEF Owns
  <1>14. \A l \in Chan : w'[x].c \notin In(l)'
    BY <1>4, <1>5, <1>7 DEF PoolInv, OnePlace
  <1>15. w'[x].c = 0 /\ w'[x].ch \in {0, w[x].ch, pool.keys[x[2]]}
    BY <1>4, <1>5, <1>12 DEF k, d
  <1> QED
    BY <1>1, <1>5, <1>8, <1>9, <1>10, <1>11, <1>13, <1>14, <1>15, Shrinks

(* The first connection of a bucket is received.                           *)
LEMMA HeadLeaves ==
    ASSUME PoolInv, NEW k \in Chan, chan[k].conns # <<>>,
           chan' = [chan EXCEPT ![k].conns = Tail(chan[k].conns)]
    PROVE  LET c == Head(chan[k].conns) IN
           /\ c \in Conn /\ c \in In(k) /\ chan' \in [Chan -> Bucket]
           /\ \A l \in Chan : /\ In(l)' \subseteq In(l) \ {c} /\ IsInjective(chan[l].conns)'
                              /\ chan'[l].closed = chan[l].closed
           /\ \A y \in Workers : w[y].c # c
  <1> DEFINE q == chan[k].conns
             c == Head(q)
             b == [chan[k] EXCEPT !.conns = Tail(q)]
  <1>1. chan' = [chan EXCEPT ![k] = b]
    BY DEF PoolInv, Typed
  <1>2. q \in Seq(Conn) /\ q # <<>> /\ IsInjective(q)
    BY InConn DEF PoolInv, Contents
  <1> HIDE DEF q
  <1>3. /\ Tail(q) \in Seq(Conn) /\ IsInjective(Tail(q))
        /\ c \in ToSet(q) /\ ToSet(Tail(q)) = ToSet(q) \ {c} /\ ToSet(q) \subseteq Conn
    BY <1>2, ListTail
  <1>4. b \in Bucket /\ b.conns = Tail(q) /\ b.closed = chan[k].closed
    BY <1>3 DEF PoolInv, Typed, Bucket
  <1> HIDE DEF b, c
  <1>5. ToSet(q) = In(k)
    BY DEF In, q
  <1>6. /\ chan' \in [Chan -> Bucket] /\ chan'[k] = b /\ In(k)' = ToSet(b.conns)
        /\ \A l \in Chan \ {k} : chan'[l] = chan[l] /\ In(l)' = In(l)
    BY <1>1, <1>4, BucketSet DEF PoolInv
  <1>7. \A l \in Chan \ {k} : c \notin In(l) /\ IsInjective(chan[l].conns)
    BY <1>3, <1>5 DEF PoolInv, OnePlace, Contents
  <1>8. \A l \in Chan : /\ In(l)' \subseteq In(l) \ {c} /\ IsInjective(chan[l].conns)'
                        /\ chan'[l].closed = chan[l].closed
    BY <1>3, <1>4, <1>5, <1>6, <1>7
  <1>9. \A y \in Workers : w[y].c # c
    BY <1>3, <1>5 DEF PoolInv, OnePlace
  <1> QED
    BY <1>3, <1>5, <1>6, <1>8, <1>9 DEF c, q

(* The goroutine goes on without the bucket.                               *)
LEMMA LeavesBucket ==
    ASSUME PoolInv, NEW x \in Workers, w[x].pc \in {"drain", "recv"},
           w' = [w EXCEPT ![x].pc = "prep", ![x].ch = 0],
           UNCHANGED <<kind, dl, conn, chan, pool, now>>
    PROVE  PoolInv'
  <1> DEFINE z == 0
             g == [w[x] EXCEPT !.pc = "prep", !.ch = z]
  <1>1. w' = [w EXCEPT ![x] = g] /\ z \in Chan \cup {0}
    BY DEF PoolInv, Typed
  <1>2. w[x] \in Goroutine /\ w[x].c = 0
    BY DEF PoolInv, Typed, Owned, Owns
  <1> HIDE DEF z
  <1>3. g \in Goroutine /\ g.pc = "prep" /\ g.c = w[x].c /\ g.ch = z
    BY <1>1, <1>2 DEF Goroutine, PCs
  <1>4. z = 0
    BY DEF z
  <1> HIDE DEF g
  <1>5. Typed'
    BY <1>1, <1>3, SameDeliveries, TypedLocal DEF PoolInv, Typed, Moves
  <1>6. Owns(x, g, conn')
    BY <1>2, <1>3, <1>4 DEF Owns
  <1> QED
    BY <1>1, <1>2, <1>3, <1>4, <1>5, <1>6, LocalStep

(* A connection leaves its bucket and is closed; the goroutine goes to g.  *)
LEMMA ClosesHead ==
    ASSUME PoolInv, NEW x \in Workers, w[x].pc \in {"drain", "recv"},
           chan[w[x].ch].conns # <<>>, w[x].ch \in Chan,
           chan' = [chan EXCEPT ![w[x].ch].conns = Tail(chan[w[x].ch].conns)],
           NEW g, Moves(x, g), g.c = 0, g.ch \in {0, w[x].ch}, g.pc \in {"drain", "recv", "prep"},
           g.pc \in {"drain", "recv"} <=> g.ch # 0,
           conn' = Close(conn, {Head(chan[w[x].ch].conns)}),
           UNCHANGED <<kind, dl, pool, now>>
    PROVE  PoolInv'
  <1> DEFINE c == Head(chan[w[x].ch].conns)
  <1>1. /\ c \in Conn /\ chan' \in [Chan -> Bucket]
        /\ \A l \in Chan : /\ In(l)' \subseteq In(l) \ {c} /\ IsInjective(chan[l].conns)'
                           /\ chan'[l].closed = chan[l].closed
        /\ \A y \in Workers : w[y].c # c
    BY HeadLeaves
  <1> HIDE DEF c
  <1>2. conn' \in [Conn -> Connection] /\ \A e \in Conn : e # c => conn'[e] = conn[e]
    BY Closed DEF PoolInv, Typed, c
  <1>3. w' \in [Workers -> Goroutine] /\ w'[x] = g /\ \A y \in Workers \ {x} : w'[y] = w[y]
    BY Moved DEF PoolInv
  <1>4. Typed'
    BY <1>1, <1>2, <1>3 DEF PoolInv, Typed
  <1>5. Running'
    <2>1. w[x].pc # "none"
      OBVIOUS
    <2> QED
      BY <1>3, <2>1 DEF PoolInv, Running
  <1>6. \A l \in Chan : \A e \in In(l)' : conn'[e] = conn[e]
    BY <1>1, <1>2, InConn DEF PoolInv
  <1>7. \A y \in Workers \ {x} : w[y].c # 0 => conn'[w[y].c] = conn[w[y].c]
    BY <1>1, <1>2 DEF PoolInv, Typed, Goroutine
  <1>8. Owns(x, w[x], conn)'
    BY <1>3 DEF Owns
  <1>9. \A l \in Chan : w'[x].c \notin In(l)'
    BY <1>1, <1>3, InConn, ConnNotZero DEF PoolInv
  <1>10. \A d \in Domains : \/ pool'.keys[d] = 0
                            \/ /\ pool'.keys[d] = pool.keys[d]
                               /\ chan'[pool.keys[d]].closed = chan[pool.keys[d]].closed
    <2>1. \A d \in Domains : pool.keys[d] # 0 => pool.keys[d] \in Chan
      BY DEF PoolInv, Typed
    <2> QED
      BY <1>1, <2>1
  <1>11. w'[x].c = 0 /\ w'[x].ch \in {0, w[x].ch, pool.keys[x[2]]}
    BY <1>3
  <1> QED
    BY <1>1, <1>3, <1>4, <1>5, <1>6, <1>7, <1>8, <1>9, <1>10, <1>11, Shrinks

LEMMA GetDrainPool ==
    ASSUME PoolInv, NEW x \in Workers, GetDrain(x)
    PROVE  PoolInv'
  <1>1. w[x].pc = "drain" /\ UNCHANGED <<kind, dl, pool, now>>
    BY DEF GetDrain
  <1>2. w[x].ch \in Chan /\ w[x].c = 0 /\ w[x] \in Goroutine /\ w[x].ch # 0
    BY <1>1 DEF PoolInv, Typed, Goroutine, Owned, Owns
  <1>3. CASE chan[w[x].ch].conns = <<>>
    BY <1>1, <1>3, LeavesBucket DEF GetDrain
  <1>4. CASE chan[w[x].ch].conns # <<>>
    <2>1. /\ conn' = Close(conn, {Head(chan[w[x].ch].conns)}) /\ UNCHANGED w
          /\ chan' = [chan EXCEPT ![w[x].ch].conns = Tail(chan[w[x].ch].conns)]
      BY <1>4 DEF GetDrain
    <2>2. Moves(x, w[x])
      BY <1>2, <2>1 DEF Moves, PoolInv, Typed
    <2> QED
      BY <1>1, <1>2, <1>4, <2>1, <2>2, ClosesHead
  <1> QED
    BY <1>3, <1>4

(* GetRecv: an empty bucket, a connection that is closed, or one to use.   *)
LEMMA GetRecvDoes ==
    ASSUME PoolInv, NEW x \in Workers, GetRecv(x)
    PROVE  LET k == w[x].ch
               q == chan[k].conns
           IN \/ /\ w' = [w EXCEPT ![x].pc = "prep", ![x].ch = 0]
                 /\ UNCHANGED <<conn, chan>>
              \/ /\ q # <<>> /\ chan' = [chan EXCEPT ![k].conns = Tail(q)]
                 /\ conn' = Close(conn, {Head(q)})
                 /\ \E g : /\ Moves(x, g) /\ g.c = 0
                           /\ (g.pc = "recv" /\ g.ch = k) \/ (g.pc = "prep" /\ g.ch = 0)
              \/ /\ q # <<>> /\ chan' = [chan EXCEPT ![k].conns = Tail(q)]
                 /\ UNCHANGED conn
                 /\ \E g : Moves(x, g) /\ g.c = Head(q) /\ g.pc = "mail" /\ g.ch = 0
  <1> DEFINE k == w[x].ch
             q == chan[k].conns
  <1>1. w[x].pc = "recv"
    BY DEF GetRecv
  <1>2. k \in Chan /\ w[x] \in Goroutine /\ w[x].c = 0
    BY <1>1 DEF PoolInv, Typed, Goroutine, Owned, Owns
  <1>3. CASE q = <<>>
    BY <1>3 DEF GetRecv
  <1>4. CASE q # <<>>
    <2>1. PICK reset \in BOOLEAN :
               LET c == Head(q)
                   good == Usable(conn[c], reset) /\ conn[c].at + Lifetime >= now
                   mine == good /\ ~dl[x[1]].reqtls
               IN /\ chan' = [chan EXCEPT ![k].conns = Tail(q)]
                  /\ w' = IF good
                          THEN [w EXCEPT ![x].pc = IF mine THEN "mail" ELSE "prep", ![x].ch = 0,
                                         ![x].c = IF mine THEN c ELSE 0]
                          ELSE w
                  /\ conn' = IF mine THEN conn ELSE Close(conn, {c})
      BY <1>4 DEF GetRecv
    <2> DEFINE c == Head(q)
               good == Usable(conn[c], reset) /\ conn[c].at + Lifetime >= now
               mine == good /\ ~dl[x[1]].reqtls
    <2>2. c \in Conn
      <3>1. q \in Seq(Conn)
        BY <1>2, InConn DEF PoolInv
      <3> QED
        BY <1>4, <3>1
    <2>3. CASE ~good
      <3>1. w' = w /\ conn' = Close(conn, {c})
        BY <2>1, <2>3
      <3>2. Moves(x, w[x])
        BY <1>2, <3>1 DEF Moves, PoolInv, Typed
      <3>3. \E g : /\ Moves(x, g) /\ g.c = 0
                   /\ (g.pc = "recv" /\ g.ch = k) \/ (g.pc = "prep" /\ g.ch = 0)
        BY <1>1, <1>2, <3>2
      <3>4. chan' = [chan EXCEPT ![k].conns = Tail(q)]
        BY <2>1
      <3> HIDE DEF good, mine
      <3> QED
        BY <1>4, <3>1, <3>3, <3>4
    <2>4. CASE good
      <3> DEFINE p == IF mine THEN "mail" ELSE "prep"
                 z == 0
                 i == IF mine THEN c ELSE 0
                 g == [w[x] EXCEPT !.pc = p, !.ch = z, !.c = i]
      <3>1. w' = [w EXCEPT ![x] = g]
        BY <2>1, <2>4 DEF PoolInv, Typed
      <3>2. p \in PCs /\ z \in Chan \cup {0} /\ i \in Conn \cup {0}
        BY <2>2 DEF PCs
      <3>3. (mine /\ p = "mail" /\ i = c) \/ (~mine /\ p = "prep" /\ i = 0)
        OBVIOUS
      <3>4. z = 0
        OBVIOUS
      <3>5. conn' = IF mine THEN conn ELSE Close(conn, {c})
        BY <2>1
      <3> HIDE DEF p, z, i, mine, good
      <3>6. g \in Goroutine /\ g.pc = p /\ g.ch = z /\ g.c = i
        BY <1>2, <3>2 DEF Goroutine
      <3> HIDE DEF g
      <3>7. chan' = [chan EXCEPT ![k].conns = Tail(q)]
        BY <2>1
      <3>8. Moves(x, g)
        BY <3>1, <3>6 DEF Moves
      <3> QED
        BY <1>4, <3>3, <3>4, <3>5, <3>6, <3>7, <3>8
    <2> QED
      BY <2>3, <2>4
  <1> QED
    BY <1>3, <1>4

LEMMA GetRecvPool ==
    ASSUME PoolInv, NEW x \in Workers, GetRecv(x)
    PROVE  PoolInv'
  <1> DEFINE k == w[x].ch
             q == chan[k].conns
  <1>1. w[x].pc = "recv" /\ UNCHANGED <<kind, dl, pool, now>>
    BY DEF GetRecv
  <1>2. k \in Chan /\ k # 0
    BY <1>1 DEF PoolInv, Typed, Goroutine, Owned, Owns
  <1>3. CASE w' = [w EXCEPT ![x].pc = "prep", ![x].ch = 0] /\ UNCHANGED <<conn, chan>>
    BY <1>1, <1>3, LeavesBucket
  <1>4. CASE /\ q # <<>> /\ chan' = [chan EXCEPT ![k].conns = Tail(q)]
             /\ conn' = Close(conn, {Head(q)})
             /\ \E g : /\ Moves(x, g) /\ g.c = 0
                       /\ (g.pc = "recv" /\ g.ch = k) \/ (g.pc = "prep" /\ g.ch = 0)
    <2>1. PICK g : /\ Moves(x, g) /\ g.c = 0
                   /\ (g.pc = "recv" /\ g.ch = k) \/ (g.pc = "prep" /\ g.ch = 0)
      BY <1>4
    <2> QED
      BY <1>1, <1>2, <1>4, <2>1, ClosesHead
  <1>5. CASE /\ q # <<>> /\ chan' = [chan EXCEPT ![k].conns = Tail(q)]
             /\ UNCHANGED conn
             /\ \E g : Moves(x, g) /\ g.c = Head(q) /\ g.pc = "mail" /\ g.ch = 0
    <2>1. PICK g : Moves(x, g) /\ g.c = Head(q) /\ g.pc = "mail" /\ g.ch = 0
      BY <1>5
    <2> DEFINE c == Head(q)
    <2>2. /\ c \in Conn /\ c \in In(k) /\ chan' \in [Chan -> Bucket]
          /\ \A l \in Chan : /\ In(l)' \subseteq In(l) \ {c} /\ IsInjective(chan[l].conns)'
                             /\ chan'[l].closed = chan[l].closed
          /\ \A y \in Workers : w[y].c # c
      BY <1>2, <1>5, HeadLeaves
    <2>3. g.c = c
      BY <2>1
    <2>4. conn[c].st = "open" /\ conn[c].dom = x[2]
      BY <1>2, <2>2 DEF PoolInv, Contents, Ready
    <2> HIDE DEF c
    <2>5. w' \in [Workers -> Goroutine] /\ w'[x] = g /\ \A y \in Workers \ {x} : w'[y] = w[y]
      BY <2>1, Moved DEF PoolInv
    <2>6. Typed'
      BY <1>1, <1>5, <2>2, <2>5 DEF PoolInv, Typed
    <2>7. Running'
      BY <1>1, <2>5 DEF PoolInv, Running
    <2>8. Owns(x, w[x], conn)'
      BY <1>5, <2>1, <2>2, <2>3, <2>4, <2>5, ConnNotZero DEF Owns
    <2>9. \A l \in Chan : w'[x].c \notin In(l)'
      BY <2>2, <2>3, <2>5
    <2>10. \A d \in Domains : \/ pool'.keys[d] = 0
                              \/ /\ pool'.keys[d] = pool.keys[d]
                                 /\ chan'[pool.keys[d]].closed = chan[pool.keys[d]].closed
      <3>1. \A d \in Domains : pool.keys[d] # 0 => pool.keys[d] \in Chan
        BY DEF PoolInv, Typed
      <3> QED
        BY <1>1, <2>2, <3>1
    <2>11. w'[x].ch \in {0, w[x].ch, pool.keys[x[2]]}
      BY <2>1, <2>5
    <2>12. \A y \in Workers \ {x} : w'[x].c # 0 => w[y].c # w'[x].c
      BY <2>2, <2>3, <2>5
    <2> QED
      BY <1>5, <2>2, <2>5, <2>6, <2>7, <2>8, <2>9, <2>10, <2>11, <2>12, Shrinks
  <1> QED
    BY <1>3, <1>4, <1>5, GetRecvDoes

(* Buckets that are dropped are empty, and what was in them is closed.     *)
LEMMA Drop ==
    ASSUME PoolInv, NEW ks \in SUBSET Chan, NEW cs \in [Conn -> Connection]
    PROVE  /\ Dropped(ks) \in [Chan -> Bucket] /\ DropBuckets(ks, cs) \in [Conn -> Connection]
           /\ \A l \in Chan : IF l \in ks THEN Dropped(ks)[l].conns = <<>> ELSE Dropped(ks)[l] = chan[l]
           /\ \A c \in Conn : \/ (\E k \in ks : c \in In(k)) /\ DropBuckets(ks, cs)[c] = NoConn
                              \/ (\A k \in ks : c \notin In(k)) /\ DropBuckets(ks, cs)[c] = cs[c]
  <1> DEFINE b == [NoChan EXCEPT !.closed = TRUE]
  <1>1. b \in Bucket /\ b.conns = <<>>
    BY NullValues DEF Bucket, NoChan
  <1> HIDE DEF b
  <1>2. Dropped(ks) = [k \in Chan |-> IF k \in ks THEN b ELSE chan[k]]
    BY DEF Dropped, b
  <1>3. /\ Dropped(ks) \in [Chan -> Bucket]
        /\ \A l \in Chan : IF l \in ks THEN Dropped(ks)[l].conns = <<>> ELSE Dropped(ks)[l] = chan[l]
    BY <1>1, <1>2 DEF PoolInv, Typed
  <1> DEFINE ids == UNION {ToSet(chan[k].conns) : k \in ks}
  <1>4. \A c : c \in ids <=> \E k \in ks : c \in In(k)
    BY DEF In
  <1> HIDE DEF ids
  <1>5. DropBuckets(ks, cs) = Close(cs, ids)
    BY DEF DropBuckets, ids
  <1> QED
    BY <1>3, <1>4, <1>5, Closed

(* A step that only drops buckets, with their keys.                        *)
LEMMA DropsPool ==
    ASSUME PoolInv, NEW ks \in SUBSET Chan, chan' = Dropped(ks), conn' = DropBuckets(ks, conn),
           pool' \in [keys : [Domains -> Chan \cup {0}], closed : BOOLEAN],
           \A d \in Domains : pool'.keys[d] = 0 \/ (pool'.keys[d] = pool.keys[d] /\ pool.keys[d] \notin ks),
           UNCHANGED <<kind, dl, w, now>>
    PROVE  PoolInv'
  <1>1. /\ chan' \in [Chan -> Bucket] /\ conn' \in [Conn -> Connection]
        /\ \A l \in Chan : IF l \in ks THEN chan'[l].conns = <<>> ELSE chan'[l] = chan[l]
        /\ \A c \in Conn : (\A k \in ks : c \notin In(k)) => conn'[c] = conn[c]
    BY Drop DEF PoolInv, Typed
  <1>2. ASSUME NEW l \in Chan
        PROVE  /\ In(l)' = (IF l \in ks THEN {} ELSE In(l)) /\ IsInjective(chan[l].conns)'
    BY <1>1, EmptyList DEF In, PoolInv, Contents
  <1>3. Typed'
    BY <1>1 DEF PoolInv, Typed
  <1>4. Running'
    BY DEF PoolInv, Running
  <1>5. \A l \in Chan : In(l)' \subseteq In(l) /\ IsInjective(chan[l].conns)'
    BY <1>2
  <1>6. \A d \in Domains : \/ pool'.keys[d] = 0
                           \/ /\ pool'.keys[d] = pool.keys[d]
                              /\ chan'[pool.keys[d]].closed = chan[pool.keys[d]].closed
    <2>1. \A d \in Domains : pool.keys[d] # 0 => pool.keys[d] \in Chan
      BY DEF PoolInv, Typed
    <2> QED
      BY <1>1, <2>1
  <1>7. ASSUME NEW l \in Chan, NEW c \in In(l)' PROVE conn'[c] = conn[c]
    <2>1. l \notin ks /\ c \in In(l) /\ c \in Conn
      BY <1>2, InConn DEF PoolInv
    <2>2. \A k \in ks : c \notin In(k)
      BY <2>1 DEF PoolInv, OnePlace
    <2> QED
      BY <1>1, <2>1, <2>2
  <1>8. ASSUME NEW y \in Workers, w[y].c # 0 PROVE conn'[w[y].c] = conn[w[y].c]
    <2>1. w[y].c \in Conn /\ \A k \in ks : w[y].c \notin In(k)
      BY <1>8 DEF PoolInv, OnePlace, Typed, Goroutine
    <2> QED
      BY <1>1, <2>1
  <1>9. ASSUME NEW y \in Workers
        PROVE  /\ Owns(y, w[y], conn)'
               /\ \A k \in Chan : w'[y].c \notin In(k)'
               /\ \A z \in Workers \ {y} : w'[y].c # 0 => w[z].c # w'[y].c
    <2>1. Owns(y, w[y], conn)'
      BY <1>8 DEF PoolInv, Owned, Owns
    <2> QED
      BY <1>5, <2>1 DEF PoolInv, OnePlace
  <1> DEFINE x == "none"
  <1>10. /\ \A y \in Workers \ {x} : w'[y] = w[y]
         /\ \A y \in Workers \ {x} : w[y].c # 0 => conn'[w[y].c] = conn[w[y].c]
         /\ x \in Workers => w'[x].ch \in {0, w[x].ch, pool.keys[x[2]]}
    BY <1>8
  <1> HIDE DEF x
  <1> QED
    BY <1>3, <1>4, <1>5, <1>6, <1>7, <1>9, <1>10, Shrinks

LEMMA CleanUpPool ==
    ASSUME PoolInv, CleanUp
    PROVE  PoolInv'
  <1> DEFINE ks == {pool.keys[d] : d \in {e \in Domains : pool.keys[e] # 0 /\ Stale(pool.keys[e])}}
             keys == [d \in Domains |-> IF pool.keys[d] \in ks THEN 0 ELSE pool.keys[d]]
  <1>1. ks \in SUBSET Chan
    BY DEF PoolInv, Typed
  <1>2. /\ pool' = [pool EXCEPT !.keys = keys] /\ chan' = Dropped(ks) /\ conn' = DropBuckets(ks, conn)
        /\ UNCHANGED <<kind, dl, w, now>>
    BY DEF CleanUp
  <1>3. pool \in [keys : [Domains -> Chan \cup {0}], closed : BOOLEAN]
    BY DEF PoolInv, Typed
  <1> HIDE DEF ks
  <1>4. keys \in [Domains -> Chan \cup {0}]
        /\ \A d \in Domains : keys[d] = IF pool.keys[d] \in ks THEN 0 ELSE pool.keys[d]
    BY <1>3
  <1> HIDE DEF keys
  <1>5. pool' \in [keys : [Domains -> Chan \cup {0}], closed : BOOLEAN] /\ pool'.keys = keys
    BY <1>2, <1>3, <1>4
  <1> QED
    BY <1>1, <1>2, <1>4, <1>5, DropsPool

LEMMA PoolClosePool ==
    ASSUME PoolInv, PoolClose
    PROVE  PoolInv'
  <1> DEFINE ks == {pool.keys[d] : d \in Domains} \ {0}
             keys == [d \in Domains |-> 0]
  <1>1. ks \in SUBSET Chan
    BY DEF PoolInv, Typed
  <1>2. /\ pool' = [keys |-> keys, closed |-> TRUE] /\ chan' = Dropped(ks) /\ conn' = DropBuckets(ks, conn)
        /\ UNCHANGED <<kind, dl, w, now>>
    BY DEF PoolClose
  <1> HIDE DEF ks
  <1>3. keys \in [Domains -> Chan \cup {0}] /\ \A d \in Domains : keys[d] = 0
    OBVIOUS
  <1> HIDE DEF keys
  <1>4. pool' \in [keys : [Domains -> Chan \cup {0}], closed : BOOLEAN] /\ pool'.keys = keys
    BY <1>2, <1>3
  <1> QED
    BY <1>1, <1>2, <1>3, <1>4, DropsPool

(* Return puts the connection c, that is in no bucket, into the bucket to: *)
(* the one of the key, or a new one; ks are the buckets it drops.          *)
ReturnedTo(d, c, cs, to, ks) ==
    /\ to \notin ks
    /\ pool' \in [keys : [Domains -> Chan \cup {0}], closed : BOOLEAN]
    /\ \A e \in Domains : pool'.keys[e] = IF e = d THEN to
                                          ELSE IF pool.keys[e] \in ks THEN 0 ELSE pool.keys[e]
    /\ chan' \in [Chan -> Bucket] /\ ~chan'[to].closed /\ IsInjective(chan'[to].conns)
    /\ \A l \in Chan \ {to} : IF l \in ks THEN chan'[l].conns = <<>> ELSE chan'[l] = chan[l]
    /\ conn' \in [Conn -> Connection]
    /\ \A e \in Conn : \/ (\E k \in ks : e \in In(k)) /\ conn'[e] = NoConn
                       \/ /\ \A k \in ks : e \notin In(k)
                          /\ conn'[e] = cs[e] \/ (e = c /\ conn'[e] = NoConn /\ c \notin ToSet(chan'[to].conns))
    /\ \/ pool.keys[d] = to /\ ToSet(chan'[to].conns) \subseteq In(to) \cup {c}
       \/ to \notin UsedChans /\ ToSet(chan'[to].conns) \subseteq {c}

LEMMA ReturnDoes ==
    ASSUME PoolInv, NEW d \in Domains, NEW c \in Conn, \A k \in Chan : c \notin In(k),
           NEW cs \in [Conn -> Connection], ~pool.closed, Return(d, c, cs)
    PROVE  \E to \in Chan, ks \in SUBSET Chan : ReturnedTo(d, c, cs, to, ks)
  <1> DEFINE k == pool.keys[d]
             full == k = 0 /\ Cardinality({e \in Domains : pool.keys[e] # 0}) = MaxKeys
             ks == IF full THEN {pool.keys[e] : e \in {f \in Domains : pool.keys[f] # 0 /\ Stale(pool.keys[f])}}
                   ELSE {}
             new == CHOOSE n \in Chan : n \notin UsedChans
             to == IF k # 0 THEN k ELSE new
             was == IF k # 0 THEN chan[k] ELSE [NoChan EXCEPT !.lastUse = now]
             fits == Len(was.conns) < MaxConnsPerKey
             b == IF fits THEN [was EXCEPT !.conns = Append(was.conns, c)] ELSE was
             keys == [e \in Domains |-> IF e = d THEN to ELSE IF pool.keys[e] \in ks THEN 0 ELSE pool.keys[e]]
             open == DropBuckets(ks, cs)
  <1>1. /\ pool' = [pool EXCEPT !.keys = keys]
        /\ chan' = [Dropped(ks) EXCEPT ![to] = b]
        /\ conn' = IF fits THEN open ELSE Close(open, {c})
    BY DEF Return
  <1>2. pool \in [keys : [Domains -> Chan \cup {0}], closed : BOOLEAN] /\ k \in Chan \cup {0} /\ now \in Nat
    BY DEF PoolInv, Typed
  <1>3. k = 0 => new \in Chan /\ new \notin UsedChans
    BY FreeBucket DEF PoolInv
  <1>4. ks \in SUBSET Chan /\ (k # 0 => ks = {}) /\ \A l \in ks : l \in UsedChans
    BY <1>2 DEF UsedChans
  <1> HIDE DEF new
  <1>5. to \in Chan /\ to \notin ks /\ (k # 0 => to = k) /\ (k = 0 => to \notin UsedChans)
    BY <1>2, <1>3, <1>4
  <1>6. /\ was \in Bucket /\ was.conns \in Seq(Conn) /\ IsInjective(was.conns) /\ ~was.closed
        /\ c \notin ToSet(was.conns)
        /\ (k # 0 => ToSet(was.conns) = In(to)) /\ (k = 0 => ToSet(was.conns) = {})
    <2>1. CASE k # 0
      <3>1. k \in Chan /\ was = chan[k] /\ to = k
        BY <1>2, <2>1
      <3>2. chan[k] \in Bucket /\ chan[k].conns \in Seq(Conn)
        BY <3>1, InConn DEF PoolInv
      <3>3. IsInjective(chan[k].conns) /\ ~chan[k].closed
        BY <2>1, <3>1 DEF PoolInv, Contents, Buckets
      <3>4. In(k) = ToSet(chan[k].conns)
        BY DEF In
      <3> QED
        BY <2>1, <3>1, <3>2, <3>3, <3>4
    <2>2. CASE k = 0
      <3>1. was = [NoChan EXCEPT !.lastUse = now]
        BY <2>2
      <3>2. was \in Bucket /\ was.conns = <<>> /\ ~was.closed
        BY <1>2, <3>1, NullValues DEF Bucket, NoChan
      <3>3. was.conns \in Seq(Conn)
        BY <3>2 DEF Bucket
      <3> HIDE DEF was
      <3> QED
        BY <2>2, <3>2, <3>3, EmptyList
    <2> QED
      BY <2>1, <2>2
  <1> HIDE DEF to, was, ks
  <1>7. /\ b \in Bucket /\ ~b.closed /\ IsInjective(b.conns)
        /\ ToSet(b.conns) = ToSet(was.conns) \cup (IF fits THEN {c} ELSE {})
    <2> DEFINE q == Append(was.conns, c)
    <2>1. q \in Seq(Conn) /\ IsInjective(q) /\ ToSet(q) = ToSet(was.conns) \cup {c}
      BY <1>6, ListAppend
    <2>2. CASE fits
      <3>1. b = [was EXCEPT !.conns = q]
        BY <2>2
      <3> HIDE DEF q
      <3>2. b \in Bucket /\ b.closed = was.closed /\ b.conns = q
        BY <1>6, <2>1, <3>1 DEF Bucket
      <3> QED
        BY <1>6, <2>1, <2>2, <3>2
    <2>3. CASE ~fits
      BY <1>6, <2>3
    <2> QED
      BY <2>2, <2>3
  <1> HIDE DEF b, fits
  <1>8. /\ Dropped(ks) \in [Chan -> Bucket] /\ open \in [Conn -> Connection]
        /\ \A l \in Chan : IF l \in ks THEN Dropped(ks)[l].conns = <<>> ELSE Dropped(ks)[l] = chan[l]
        /\ \A e \in Conn : \/ (\E l \in ks : e \in In(l)) /\ open[e] = NoConn
                           \/ (\A l \in ks : e \notin In(l)) /\ open[e] = cs[e]
    BY <1>4, Drop
  <1> HIDE DEF open
  <1>9. /\ chan' \in [Chan -> Bucket] /\ chan'[to] = b
        /\ \A l \in Chan \ {to} : chan'[l] = Dropped(ks)[l]
    BY <1>1, <1>5, <1>7, <1>8
  <1>10. ToSet(chan'[to].conns) = ToSet(b.conns)
    BY <1>9
  <1>11. keys \in [Domains -> Chan \cup {0}]
         /\ \A e \in Domains : keys[e] = IF e = d THEN to ELSE IF pool.keys[e] \in ks THEN 0 ELSE pool.keys[e]
    BY <1>2, <1>5
  <1> HIDE DEF keys
  <1>12. pool' \in [keys : [Domains -> Chan \cup {0}], closed : BOOLEAN] /\ pool'.keys = keys
    BY <1>1, <1>2, <1>11
  <1>13. /\ conn' \in [Conn -> Connection]
         /\ \A e \in Conn : conn'[e] = IF e = c /\ ~fits THEN NoConn ELSE open[e]
    BY <1>1, <1>8, Closed
  <1>14. \A l \in ks : c \notin In(l)
    BY <1>4
  <1>15. ~fits => c \notin ToSet(chan'[to].conns)
    BY <1>6, <1>7, <1>10
  <1>16. \A e \in Conn : \/ (\E l \in ks : e \in In(l)) /\ conn'[e] = NoConn
                         \/ /\ \A l \in ks : e \notin In(l)
                            /\ conn'[e] = cs[e] \/ (e = c /\ conn'[e] = NoConn /\ c \notin ToSet(chan'[to].conns))
    BY <1>8, <1>13, <1>14, <1>15
  <1>17. \/ k = to /\ ToSet(chan'[to].conns) \subseteq In(to) \cup {c}
         \/ to \notin UsedChans /\ ToSet(chan'[to].conns) \subseteq {c}
    <2>1. CASE k # 0
      BY <1>5, <1>6, <1>7, <1>10, <2>1
    <2>2. CASE k = 0
      BY <1>5, <1>6, <1>7, <1>10, <2>2
    <2> QED
      BY <2>1, <2>2
  <1>18. \A l \in Chan \ {to} : IF l \in ks THEN chan'[l].conns = <<>> ELSE chan'[l] = chan[l]
    BY <1>8, <1>9
  <1>19. ReturnedTo(d, c, cs, to, ks)
    BY <1>5, <1>7, <1>9, <1>11, <1>12, <1>13, <1>16, <1>17, <1>18 DEF ReturnedTo
  <1> QED
    BY <1>4, <1>5, <1>19

LEMMA CloseConnPool ==
    ASSUME PoolInv, NEW x \in Workers, CloseConn(x)
    PROVE  PoolInv'
  <1> DEFINE c == w[x].c
             d == x[2]
             cs == [conn EXCEPT ![c].n = @ + 1]
             z == 0
             g == [w[x] EXCEPT !.c = z]
  <1>1. /\ w[x].pc \in {"none", "done"} /\ c # 0 /\ w' = [w EXCEPT ![x] = g]
        /\ UNCHANGED <<kind, dl, now>> /\ d \in Domains
    BY WorkerParts DEF CloseConn, AllDone, PoolInv, Typed
  <1>2. c \in Conn /\ w[x].pc = "done" /\ w[x].ch = 0 /\ conn[c].st # "none" /\ conn[c].dom = d
        /\ w[x] \in Goroutine
    BY <1>1 DEF PoolInv, Owned, Owns, Typed, Goroutine
  <1>3. z = 0 /\ z \in Conn \cup {0}
    OBVIOUS
  <1> HIDE DEF z
  <1>4. g \in Goroutine /\ g.pc = "done" /\ g.c = z /\ g.ch = 0
    BY <1>2, <1>3 DEF Goroutine
  <1> HIDE DEF g
  <1>5. w' \in [Workers -> Goroutine] /\ w'[x] = g /\ \A y \in Workers \ {x} : w'[y] = w[y]
    BY <1>1, <1>4, Moved DEF Moves, PoolInv
  <1>6. /\ cs \in [Conn -> Connection] /\ \A e \in Conn : e # c => cs[e] = conn[e]
        /\ cs[c].st = conn[c].st /\ cs[c].dom = conn[c].dom /\ cs[c].errored = conn[c].errored
    <2> DEFINE k == [conn[c] EXCEPT !.n = conn[c].n + 1]
    <2>1. cs = [conn EXCEPT ![c] = k]
      BY <1>2 DEF PoolInv, Typed
    <2>2. conn[c].n + 1 \in Nat /\ conn[c] \in Connection
      BY <1>2 DEF PoolInv, Typed, Connection
    <2>3. k \in Connection /\ k.st = conn[c].st /\ k.dom = conn[c].dom /\ k.errored = conn[c].errored
      BY <2>2 DEF Connection
    <2> HIDE DEF k, cs
    <2> QED
      BY <1>2, <2>1, <2>3 DEF PoolInv, Typed
  <1> HIDE DEF cs
  <1>7. \A k \in Chan : c \notin In(k)
    BY DEF PoolInv, OnePlace
  <1>8. \/ conn' = Close(cs, {c}) /\ UNCHANGED <<chan, pool>>
        \/ ~pool.closed /\ Ready(cs[c]) /\ Return(d, c, cs)
    <2>1. PICK reset \in BOOLEAN :
             IF Usable(cs[c], reset) THEN Return(d, c, cs)
             ELSE conn' = Close(cs, {c}) /\ UNCHANGED <<chan, pool>>
      BY DEF CloseConn, cs
    <2>2. Usable(cs[c], reset) => Ready(cs[c])
      BY DEF Usable, Ready
    <2>3. pool.closed /\ Return(d, c, cs) => conn' = Close(cs, {c}) /\ UNCHANGED <<chan, pool>>
      BY DEF Return
    <2> QED
      BY <2>1, <2>2, <2>3
  <1>9. CASE conn' = Close(cs, {c}) /\ UNCHANGED <<chan, pool>>
    <2>1. conn' \in [Conn -> Connection] /\ \A e \in Conn : e # c => conn'[e] = conn[e]
      BY <1>6, <1>9, Closed
    <2>2. Typed'
      BY <1>1, <1>5, <1>9, <2>1 DEF PoolInv, Typed
    <2>3. Owns(x, g, conn')
      BY <1>3, <1>4 DEF Owns
    <2> QED
      BY <1>1, <1>2, <1>3, <1>4, <1>9, <2>1, <2>2, <2>3, LocalStep
  <1>10. CASE ~pool.closed /\ Ready(cs[c]) /\ Return(d, c, cs)
    <2>1. PICK to \in Chan, ks \in SUBSET Chan : ReturnedTo(d, c, cs, to, ks)
      BY <1>1, <1>2, <1>6, <1>7, <1>10, ReturnDoes
    <2>2. Typed'
      BY <1>1, <1>5, <2>1 DEF PoolInv, Typed, ReturnedTo
    <2>3. /\ \A l \in Chan \ {to} : In(l)' = IF l \in ks THEN {} ELSE In(l)
          /\ In(to)' \subseteq In(to) \cup {c} /\ In(to)' = ToSet(chan'[to].conns)
      BY <2>1, EmptyList DEF ReturnedTo, In
    <2>4. ASSUME NEW l \in Chan, NEW e \in In(l)'
          PROVE  /\ e \in Conn
                 /\ \/ e # c /\ e \in In(l) /\ conn'[e] = conn[e]
                    \/ e = c /\ l = to /\ conn'[e] = cs[e]
      <3>1. (e # c /\ e \in In(l) /\ l \notin ks) \/ (e = c /\ l = to)
        BY <1>7, <2>1, <2>3 DEF ReturnedTo
      <3>2. e \in Conn
        BY <1>2, <3>1, InConn DEF PoolInv
      <3>3. CASE e # c /\ e \in In(l) /\ l \notin ks
        <4>1. \A k \in ks : e \notin In(k)
          BY <3>3 DEF PoolInv, OnePlace
        <4> QED
          BY <1>6, <2>1, <3>2, <3>3, <4>1 DEF ReturnedTo
      <3>4. CASE e = c /\ l = to
        <4>1. \A k \in ks : e \notin In(k)
          BY <1>7, <3>4
        <4> QED
          BY <2>1, <2>3, <3>2, <3>4, <4>1 DEF ReturnedTo
      <3> QED
        BY <3>1, <3>2, <3>3, <3>4
    <2>5. \/ pool.keys[d] = to
          \/ /\ \A e \in Domains : pool.keys[e] # to
             /\ \A y \in Workers : w[y].ch # to
             /\ In(to)' \subseteq {c}
      BY <2>1, <2>3 DEF ReturnedTo, UsedChans
    <2>6. to # 0
      BY ConnNotZero
    <2>7. Buckets'
      <3>1. SUFFICES ASSUME NEW a \in Domains, pool'.keys[a] # 0
                     PROVE  /\ ~chan'[pool'.keys[a]].closed
                            /\ \A e \in Domains : pool'.keys[e] = pool'.keys[a] => e = a
                            /\ \A y \in Workers : w'[y].ch = pool'.keys[a] => y[2] = a
        BY DEF Buckets
      <3>2. \A y \in Workers : w'[y].ch = w[y].ch
        BY <1>2, <1>4, <1>5
      <3>3. \A e \in Domains : pool.keys[e] = to => e = d
        BY <1>1, <2>5, <2>6 DEF PoolInv, Buckets
      <3>4. \A y \in Workers : w[y].ch = to => y[2] = d
        BY <1>1, <2>5, <2>6 DEF PoolInv, Buckets
      <3>5. CASE a = d
        <4>1. pool'.keys[a] = to /\ ~chan'[to].closed
          BY <2>1, <3>5 DEF ReturnedTo
        <4>2. ASSUME NEW e \in Domains, pool'.keys[e] = to PROVE e = d
          BY <2>1, <2>6, <3>3, <4>2 DEF ReturnedTo
        <4> QED
          BY <3>2, <3>4, <3>5, <4>1, <4>2
      <3>6. CASE a # d
        <4>1. pool'.keys[a] = pool.keys[a] /\ pool.keys[a] \notin ks /\ pool.keys[a] # 0
          BY <2>1, <3>1, <3>6 DEF ReturnedTo
        <4>2. pool.keys[a] # to /\ pool.keys[a] \in Chan
          BY <3>3, <3>6, <4>1 DEF PoolInv, Typed
        <4>3. chan'[pool.keys[a]] = chan[pool.keys[a]]
          BY <2>1, <4>1, <4>2 DEF ReturnedTo
        <4>4. ASSUME NEW e \in Domains, pool'.keys[e] = pool'.keys[a] PROVE e = a
          <5>1. e # d
            BY <2>1, <4>1, <4>2, <4>4 DEF ReturnedTo
          <5>2. pool'.keys[e] = pool.keys[e]
            BY <2>1, <3>1, <4>4, <5>1 DEF ReturnedTo
          <5> QED
            BY <4>1, <4>4, <5>2 DEF PoolInv, Buckets
        <4> QED
          BY <3>2, <4>1, <4>3, <4>4 DEF PoolInv, Buckets
      <3> QED
        BY <3>5, <3>6
    <2>8. Contents'
      <3>1. \A l \in Chan : IsInjective(chan[l].conns)'
        BY <2>1, EmptyList DEF ReturnedTo, PoolInv, Contents
      <3>2. \A l \in Chan : \A e \in In(l)' : Ready(conn'[e])
        BY <1>10, <2>4 DEF PoolInv, Contents
      <3>7. cs[c].dom = d
        BY <1>2, <1>6
      <3>3. ASSUME NEW e \in In(to)' PROVE conn'[e].dom = d
        <4>1. CASE e = c
          BY <2>4, <3>7, <4>1
        <4>2. CASE e # c
          <5>1. pool.keys[d] = to /\ e \in In(to) /\ conn'[e] = conn[e]
            BY <2>4, <2>5, <4>2
          <5> QED
            BY <1>1, <2>6, <5>1 DEF PoolInv, Contents
        <4> QED
          BY <4>1, <4>2
      <3>4. ASSUME NEW a \in Domains, pool'.keys[a] # 0, NEW e \in ToSet(chan'[pool'.keys[a]].conns)
            PROVE  conn'[e].dom = a
        <4>1. CASE a = d
          <5>1. pool'.keys[a] = to
            BY <2>1, <4>1 DEF ReturnedTo
          <5> QED
            BY <2>3, <3>3, <3>4, <4>1, <5>1
        <4>2. CASE a # d
          <5>1. pool'.keys[a] = pool.keys[a] /\ pool.keys[a] # 0 /\ pool.keys[a] \notin ks
            BY <2>1, <3>4, <4>2 DEF ReturnedTo
          <5>2. pool.keys[a] \in Chan /\ pool.keys[a] # to
            BY <1>1, <2>5, <4>2, <5>1 DEF PoolInv, Typed, Buckets
          <5>3. chan'[pool.keys[a]] = chan[pool.keys[a]]
            BY <2>1, <5>1, <5>2 DEF ReturnedTo
          <5>4. e \in In(pool.keys[a]) /\ e # c
            BY <1>7, <3>4, <5>1, <5>2, <5>3 DEF In
          <5>5. conn'[e] = conn[e]
            <6> DEFINE l == pool'.keys[a]
            <6>1. l \in Chan
              BY <5>1, <5>2
            <6> HIDE DEF l
            <6>2. e \in ToSet(chan'[l].conns)
              BY <3>4 DEF l
            <6> QED
              BY <2>4, <5>4, <6>1, <6>2 DEF In
          <5> QED
            BY <5>1, <5>4, <5>5 DEF PoolInv, Contents
        <4> QED
          BY <4>1, <4>2
      <3>5. ASSUME NEW y \in Workers, w'[y].ch # 0, NEW e \in ToSet(chan'[w'[y].ch].conns)
            PROVE  conn'[e].dom = y[2]
        <4> DEFINE l == w'[y].ch
        <4>1. l = w[y].ch /\ l \in Chan
          BY <1>2, <1>4, <1>5, <3>5 DEF PoolInv, Typed, Goroutine
        <4>2. CASE l = to
          BY <1>1, <2>3, <2>5, <2>6, <3>3, <3>5, <4>1, <4>2 DEF PoolInv, Buckets
        <4>3. CASE l # to
          <5>1. l \in Chan /\ l = w[y].ch /\ l # 0
            BY <3>5, <4>1
          <5>2. e \in ToSet(chan'[l].conns)
            BY <3>5
          <5> HIDE DEF l
          <5>3. e \in In(l) /\ e # c /\ conn'[e] = conn[e]
            BY <1>7, <2>3, <2>4, <4>3, <5>1, <5>2 DEF In
          <5> QED
            BY <5>1, <5>3 DEF PoolInv, Contents
        <4> QED
          BY <4>2, <4>3
      <3>6. Contents' = (/\ \A l \in Chan : IsInjective(chan[l].conns)' /\ \A e \in In(l)' : Ready(conn'[e])
                         /\ \A a \in Domains : pool'.keys[a] # 0 => \A e \in ToSet(chan'[pool'.keys[a]].conns) : conn'[e].dom = a
                         /\ \A y \in Workers : w'[y].ch # 0 => \A e \in ToSet(chan'[w'[y].ch].conns) : conn'[e].dom = y[2])
        BY DEF Contents, In, Ready
      <3> QED
        BY <3>1, <3>2, <3>4, <3>5, <3>6
    <2>9. OnePlace'
      <3>1. ASSUME NEW l \in Chan, NEW o \in Chan, l # o PROVE In(l)' \cap In(o)' = {}
        BY <1>7, <2>4, <3>1 DEF PoolInv, OnePlace
      <3>2. ASSUME NEW y \in Workers, NEW l \in Chan PROVE w'[y].c \notin In(l)'
        <4>1. CASE y = x
          BY <1>3, <1>4, <1>5, <2>4, <4>1, ConnNotZero
        <4>2. CASE y # x
          BY <1>1, <1>5, <2>4, <4>2 DEF PoolInv, OnePlace
        <4> QED
          BY <4>1, <4>2
      <3>3. ASSUME NEW y \in Workers, NEW v \in Workers, y # v, w'[y].c # 0 PROVE w'[y].c # w'[v].c
        BY <1>3, <1>4, <1>5, <3>3 DEF PoolInv, OnePlace
      <3> QED
        BY <3>1, <3>2, <3>3 DEF OnePlace
    <2>10. Owned'
      <3>1. ASSUME NEW y \in Workers, y # x PROVE Owns(y, w[y], conn)'
        <4>1. w'[y] = w[y] /\ Owns(y, w[y], conn)
          BY <1>5, <3>1 DEF PoolInv, Owned
        <4>2. w[y].c # 0 => conn'[w[y].c] = conn[w[y].c]
          <5>1. SUFFICES ASSUME w[y].c # 0 PROVE conn'[w[y].c] = conn[w[y].c]
            OBVIOUS
          <5>2. w[y].c \in Conn /\ w[y].c # c /\ \A l \in Chan : w[y].c \notin In(l)
            BY <3>1, <5>1 DEF PoolInv, OnePlace, Typed, Goroutine
          <5> QED
            BY <1>6, <2>1, <5>2 DEF ReturnedTo
        <4> QED
          BY <4>1, <4>2 DEF Owns
      <3>2. Owns(x, w[x], conn)'
        BY <1>3, <1>4, <1>5 DEF Owns
      <3> QED
        BY <3>1, <3>2 DEF Owned
    <2>11. Running'
      BY <1>1, <1>2, <1>5 DEF PoolInv, Running
    <2> QED
      BY <2>2, <2>7, <2>8, <2>9, <2>10, <2>11 DEF PoolInv
  <1> QED
    BY <1>8, <1>9, <1>10

-----------------------------------------------------------------------------
(* PoolInv, for the steps of a whole delivery.                             *)

(* The delivery m goes to the state s, with these recipients and errors.   *)
Updates(m, s, to, E) ==
    /\ dl' \in [Msgs -> Delivery] /\ \A n \in Msgs \ {m} : dl'[n] = dl[n]
    /\ dl'[m].st = s /\ dl'[m].to = to /\ dl'[m].errs = E /\ dl'[m].reqtls = dl[m].reqtls
    /\ dl'[m].relaxed = dl[m].relaxed /\ dl'[m].tlsa = dl[m].tlsa /\ dl'[m].mtasts = dl[m].mtasts

LEMMA UpdatesField ==
    ASSUME Typed, NEW m \in Msgs, NEW s \in {"new", "rcpt", "body", "closed"}, NEW E \in SUBSET Rcpts
    PROVE  /\ dl' = [dl EXCEPT ![m].st = s] => Updates(m, s, dl[m].to, dl[m].errs)
           /\ dl' = [dl EXCEPT ![m].to = E] => Updates(m, dl[m].st, E, dl[m].errs)
           /\ dl' = [dl EXCEPT ![m].errs = E] => Updates(m, dl[m].st, dl[m].to, E)
           /\ dl' = [dl EXCEPT ![m].st = s, ![m].errs = E] => Updates(m, s, dl[m].to, E)
  <1>1. ASSUME dl' = [dl EXCEPT ![m].st = s] PROVE Updates(m, s, dl[m].to, dl[m].errs)
    BY <1>1 DEF Typed, Delivery, Updates
  <1>2. ASSUME dl' = [dl EXCEPT ![m].to = E] PROVE Updates(m, dl[m].st, E, dl[m].errs)
    BY <1>2 DEF Typed, Delivery, Updates
  <1>3. ASSUME dl' = [dl EXCEPT ![m].errs = E] PROVE Updates(m, dl[m].st, dl[m].to, E)
    BY <1>3 DEF Typed, Delivery, Updates
  <1>4. ASSUME dl' = [dl EXCEPT ![m].st = s, ![m].errs = E] PROVE Updates(m, s, dl[m].to, E)
    <2> DEFINE v == [dl[m] EXCEPT !.st = s, !.errs = E]
    <2>1. dl' = [dl EXCEPT ![m] = v]
      BY <1>4 DEF Typed
    <2>2. /\ v \in Delivery /\ v.st = s /\ v.errs = E /\ v.to = dl[m].to /\ v.reqtls = dl[m].reqtls
          /\ v.relaxed = dl[m].relaxed /\ v.tlsa = dl[m].tlsa /\ v.mtasts = dl[m].mtasts
      BY DEF Typed, Delivery
    <2> HIDE DEF v
    <2> QED
      BY <2>1, <2>2 DEF Typed, Updates
  <1> QED
    BY <1>1, <1>2, <1>3, <1>4

(* Forget: the delivery is as at first, and closed.                        *)
LEMMA ForgetDoes ==
    ASSUME Typed, NEW m \in Msgs, Forget(m)
    PROVE  /\ dl' \in [Msgs -> Delivery] /\ \A n \in Msgs \ {m} : dl'[n] = dl[n]
           /\ dl'[m].st = "closed" /\ dl'[m].to = {} /\ dl'[m].errs = {} /\ dl'[m].relaxed = {}
           /\ dl'[m].reqtls = (m \in ReqTLS)
  <1> DEFINE v == [NewDelivery(m) EXCEPT !.st = "closed"]
  <1>1. dl' = [dl EXCEPT ![m] = v]
    BY DEF Forget
  <1>2. v \in Delivery
    BY NullValues DEF Delivery
  <1>3. v.st = "closed" /\ v.to = {} /\ v.errs = {} /\ v.relaxed = {} /\ v.reqtls = (m \in ReqTLS)
    BY DEF NewDelivery
  <1> HIDE DEF v
  <1> QED
    BY <1>1, <1>2, <1>3 DEF Typed

LEMMA StartDoes ==
    ASSUME Typed, NEW m \in Msgs, Start(m)
    PROVE  Updates(m, "rcpt", dl[m].to, dl[m].errs) /\ dl[m].st = "new"
  <1>1. dl' = [dl EXCEPT ![m].st = "rcpt"] /\ dl[m].st = "new"
    BY DEF Start
  <1> QED
    BY <1>1, UpdatesField

(* The goroutines of the message m go to p, the others stay.               *)
Launched(m, p) ==
    /\ w' \in [Workers -> Goroutine]
    /\ \A x \in Workers : x[1] # m => w'[x] = w[x]
    /\ \A x \in Workers : x[1] = m =>
         /\ w'[x].pc = p /\ w'[x].c = w[x].c /\ w'[x].ch = w[x].ch
         /\ w'[x].mx = w[x].mx /\ w'[x].sts = w[x].sts /\ w'[x].cached = w[x].cached

LEMMA Launch ==
    ASSUME Typed, NEW m \in Msgs, NEW p \in PCs,
           w' = [x \in Workers |-> IF x[1] = m THEN [w[x] EXCEPT !.pc = p] ELSE w[x]]
    PROVE  Launched(m, p)
  <1>1. ASSUME NEW x \in Workers
        PROVE  LET g == [w[x] EXCEPT !.pc = p] IN
               /\ g \in Goroutine /\ g.pc = p /\ g.c = w[x].c /\ g.ch = w[x].ch
               /\ g.mx = w[x].mx /\ g.sts = w[x].sts /\ g.cached = w[x].cached
    BY DEF Typed, Goroutine
  <1>2. \A x \in Workers : w'[x] = IF x[1] = m THEN [w[x] EXCEPT !.pc = p] ELSE w[x]
    OBVIOUS
  <1>3. ASSUME NEW x \in Workers PROVE w'[x] \in Goroutine
    BY <1>1, <1>2 DEF Typed
  <1>4. w' \in [Workers -> Goroutine]
    BY <1>3
  <1> QED
    BY <1>1, <1>2, <1>4 DEF Launched

LEMMA BodyNonAtomicDoes ==
    ASSUME Typed, NEW m \in Msgs, BodyNonAtomic(m)
    PROVE  Updates(m, "body", dl[m].to, dl[m].errs) /\ dl[m].st = "rcpt" /\ Launched(m, "http")
  <1>1. /\ dl' = [dl EXCEPT ![m].st = "body"] /\ dl[m].st = "rcpt"
        /\ w' = [x \in Workers |-> IF x[1] = m THEN [w[x] EXCEPT !.pc = "http"] ELSE w[x]]
    BY DEF BodyNonAtomic
  <1>2. "http" \in PCs
    BY DEF PCs
  <1> QED
    BY <1>1, <1>2, UpdatesField, Launch

LEMMA QuarantinedDoes ==
    ASSUME Typed, NEW m \in Msgs, Quarantined(m)
    PROVE  Updates(m, "body", dl[m].to, To[m]) /\ dl[m].st = "rcpt" /\ Launched(m, "done")
  <1>1. /\ dl' = [dl EXCEPT ![m].st = "body", ![m].errs = To[m]] /\ dl[m].st = "rcpt"
        /\ w' = [x \in Workers |-> IF x[1] = m THEN [w[x] EXCEPT !.pc = "done"] ELSE w[x]]
    BY DEF Quarantined
  <1>2. "done" \in PCs /\ To[m] \in SUBSET Rcpts
    BY ToAssumption DEF PCs
  <1> QED
    BY <1>1, <1>2, UpdatesField, Launch

LEMMA FinishDoes ==
    ASSUME Typed, NEW m \in Msgs, Finish(m)
    PROVE  /\ w' \in [Workers -> Goroutine]
           /\ \A x \in Workers : IF x[1] = m THEN w'[x] = NoWork /\ w[x].c = 0 /\ w[x].pc \in {"none", "done"}
                                 ELSE w'[x] = w[x]
  <1>1. w' = [x \in Workers |-> IF x[1] = m THEN NoWork ELSE w[x]]
    BY DEF Finish
  <1>2. \A x \in Workers : x[1] = m => w[x].c = 0 /\ w[x].pc \in {"none", "done"}
    BY DEF Finish, AllDone
  <1> QED
    BY <1>1, <1>2, NullValues DEF Typed

(* A step that leaves every connection where it is.                        *)
LEMMA SameConnections ==
    ASSUME PoolInv, Typed', UNCHANGED <<conn, chan, pool>>,
           \A x \in Workers : w'[x].c = w[x].c /\ w'[x].ch = w[x].ch,
           Owned', Running'
    PROVE  PoolInv'
  <1>1. Buckets'
    BY DEF PoolInv, Buckets
  <1>2. Contents'
    <2>1. \A x \in Workers : w'[x].ch # 0 => \A c \in ToSet(chan[w'[x].ch].conns) : conn[c].dom = x[2]
      BY DEF PoolInv, Contents, In
    <2> QED
      BY <2>1 DEF PoolInv, Contents, In, Ready
  <1>3. OnePlace'
    BY DEF PoolInv, OnePlace, In
  <1> QED
    BY <1>1, <1>2, <1>3 DEF PoolInv

LEMMA OnlyDeliveries ==
    ASSUME PoolInv, Typed', UNCHANGED <<w, conn, chan, pool>>, Running'
    PROVE  PoolInv'
  <1>1. Owned'
    BY DEF PoolInv, Owned, Owns
  <1> QED
    BY <1>1, SameConnections

LEMMA LaunchPool ==
    ASSUME PoolInv, NEW m \in Msgs, NEW p \in {"http", "done"}, Launched(m, p), dl[m].st = "rcpt",
           dl' \in [Msgs -> Delivery], dl'[m].st = "body", \A n \in Msgs \ {m} : dl'[n] = dl[n],
           UNCHANGED <<kind, conn, chan, pool, now>>
    PROVE  PoolInv'
  <1>1. Typed'
    BY DEF PoolInv, Typed, Launched
  <1>2. \A x \in Workers : x[1] = m => w[x].pc = "none"
    BY WorkerParts DEF PoolInv, Running
  <1>3. \A x \in Workers : w'[x].c = w[x].c /\ w'[x].ch = w[x].ch
    BY DEF Launched
  <1>4. Owned'
    <2>1. ASSUME NEW x \in Workers PROVE Owns(x, w[x], conn)'
      <3>1. CASE x[1] = m
        <4>1. w[x].c = 0 /\ w[x].ch = 0
          BY <1>2, <3>1 DEF PoolInv, Owned, Owns
        <4> QED
          BY <3>1, <4>1 DEF Launched, Owns
      <3>2. CASE x[1] # m
        BY <3>2 DEF Launched, PoolInv, Owned, Owns
      <3> QED
        BY <3>1, <3>2
    <2> QED
      BY <2>1 DEF Owned
  <1>5. Running'
    <2>1. ASSUME NEW x \in Workers, w'[x].pc # "none" PROVE dl'[x[1]].st = "body"
      BY <2>1, WorkerParts DEF Launched, PoolInv, Running
    <2> QED
      BY <2>1 DEF Running
  <1> QED
    BY <1>1, <1>3, <1>4, <1>5, SameConnections

(* target.smtp and target.lmtp have no goroutines.                         *)
Idling == kind # "remote" => \A x \in Workers : w[x] = NoWork

LEMMA IdlingStep ==
    ASSUME Idling, [Next]_vars
    PROVE  Idling'
  <1>1. NoWork.pc = "none" /\ NoWork.c = 0
    BY DEF NoWork
  <1>2. CASE \E x \in Workers : WorkerStep(x)
    <2>1. PICK x \in Workers : WorkerStep(x)
      BY <1>2
    <2>2. (w[x].pc # "none" \/ w[x].c # 0) /\ UNCHANGED kind
      BY <2>1 DEF WorkerStep, tryHTTP, Get, GetDrain, GetRecv, newConn, CheckMX, attemptMX,
                  connectionForDomain, Transaction, CloseConn
    <2> QED
      BY <1>1, <2>2 DEF Idling
  <1>3. CASE UNCHANGED <<kind, w>>
    BY <1>3 DEF Idling
  <1>4. ASSUME NEW m \in Msgs, BodyNonAtomic(m) \/ Quarantined(m) PROVE Idling'
    BY <1>4 DEF BodyNonAtomic, Quarantined, Idling
  <1>5. ASSUME NEW m \in Msgs, Finish(m) PROVE Idling'
    BY <1>5 DEF Finish, Idling
  <1>6. ASSUME NEW m \in Msgs, Start(m) \/ DownstreamStart(m) \/ DownstreamBody(m) \/ DownstreamClose(m)
        PROVE  UNCHANGED <<kind, w>>
    BY <1>6 DEF Start, DownstreamStart, DownstreamBody, DownstreamClose
  <1>7. ASSUME NEW m \in Msgs, NEW r, AddRcpt(m, r) PROVE UNCHANGED <<kind, w>>
    BY <1>7 DEF AddRcpt
  <1>8. CASE CleanUp \/ PoolClose \/ Elapse
    BY <1>3, <1>8 DEF CleanUp, PoolClose, Elapse
  <1>9. CASE UNCHANGED vars
    BY <1>3, <1>9 DEF vars
  <1> QED
    BY <1>2, <1>3, <1>4, <1>5, <1>6, <1>7, <1>8, <1>9 DEF Next

LEMMA DownstreamStartDoes ==
    ASSUME Typed, NEW m \in Msgs, DownstreamStart(m)
    PROVE  \/ Updates(m, "rcpt", dl[m].to, dl[m].errs)
           \/ Updates(m, "body", dl[m].to, To[m])
  <1>1. \/ dl' = [dl EXCEPT ![m].st = "rcpt"]
        \/ dl' = [dl EXCEPT ![m].st = "body", ![m].errs = To[m]]
    BY DEF DownstreamStart
  <1>2. To[m] \in SUBSET Rcpts
    BY ToAssumption
  <1> QED
    BY <1>1, <1>2, UpdatesField

LEMMA AddRcptDoes ==
    ASSUME Typed, NEW m \in Msgs, NEW r \in To[m], AddRcpt(m, r)
    PROVE  \/ Updates(m, dl[m].st, dl[m].to \cup {r}, dl[m].errs)
           \/ Updates(m, dl[m].st, dl[m].to, dl[m].errs \cup {r})
  <1>1. dl[m].to \cup {r} \in SUBSET Rcpts /\ dl[m].errs \cup {r} \in SUBSET Rcpts
    BY ToAssumption DEF Typed, Delivery
  <1>2. \/ dl' = [dl EXCEPT ![m].to = dl[m].to \cup {r}]
        \/ dl' = [dl EXCEPT ![m].errs = dl[m].errs \cup {r}]
    BY DEF AddRcpt, Typed
  <1> QED
    BY <1>1, <1>2, UpdatesField

(* The outcome of the body, with the statuses it leaves.                   *)
LEMMA DownstreamBodyDoes ==
    ASSUME Typed, NEW m \in Msgs, DownstreamBody(m)
    PROVE  \E o \in DataOutcomes(dl[m].to), bad \in SUBSET Rcpts :
             /\ o.good \subseteq o.answered
             /\ bad \subseteq o.answered \ o.good
             /\ \A r \in (o.answered \ o.good) \ bad : kind # "smtp" /\ r \in Converts
             /\ peer' = Lost(Got(peer, m, o.kept), m, o.kept \ o.good)
             /\ Updates(m, "body", dl[m].to, dl[m].errs \cup bad \cup (dl[m].to \ o.answered))
  <1>1. PICK o \in DataOutcomes(dl[m].to), utf8 \in BOOLEAN :
            LET late == o.kept \ o.good
                bad == {r \in o.answered \ o.good : kind = "smtp" \/ ToASCII(r, utf8) = <<r, FALSE>>}
            IN /\ o.good \subseteq o.answered
               /\ Faulty(late # {})
               /\ peer' = Lost(Got(peer, m, o.kept), m, late)
               /\ dl' = [dl EXCEPT ![m].st = "body",
                                   ![m].errs = @ \cup bad \cup (dl[m].to \ o.answered)]
    BY DEF DownstreamBody
  <1> DEFINE bad == {r \in o.answered \ o.good : kind = "smtp" \/ ToASCII(r, utf8) = <<r, FALSE>>}
             E == dl[m].errs \cup bad \cup (dl[m].to \ o.answered)
  <1>2. o.answered \subseteq dl[m].to /\ dl[m].to \subseteq Rcpts /\ dl[m].errs \subseteq Rcpts
    BY DEF DataOutcomes, Typed, Delivery
  <1>3. bad \in SUBSET Rcpts /\ bad \subseteq o.answered \ o.good
    BY <1>2
  <1>4. ASSUME NEW r \in (o.answered \ o.good) \ bad PROVE kind # "smtp" /\ r \in Converts
    <2>1. kind # "smtp" /\ ToASCII(r, utf8) # <<r, FALSE>>
      OBVIOUS
    <2>2. r \notin Converts => (r \in Converts /\ ~utf8) = FALSE
      BY Zenon
    <2> QED
      BY <2>1, <2>2 DEF ToASCII
  <1>5. dl' = [dl EXCEPT ![m].st = "body", ![m].errs = E]
    BY <1>1 DEF Typed
  <1> HIDE DEF bad
  <1>6. E \in SUBSET Rcpts
    BY <1>2, <1>3
  <1>7. Updates(m, "body", dl[m].to, E)
    BY <1>5, <1>6, UpdatesField
  <1> QED
    BY <1>1, <1>3, <1>4, <1>7

LEMMA DeliveryPool ==
    ASSUME PoolInv, Idling, NEW m \in Msgs, UNCHANGED <<kind, w, conn, chan, pool, now>>,
           dl' \in [Msgs -> Delivery], \A n \in Msgs \ {m} : dl'[n] = dl[n],
           kind # "remote" \/ dl[m].st = "new"
    PROVE  PoolInv'
  <1>1. Typed'
    BY DEF PoolInv, Typed
  <1>2. Running'
    <2>1. ASSUME NEW x \in Workers, w[x].pc # "none" PROVE dl'[x[1]].st = "body"
      <3>1. kind = "remote" /\ dl[x[1]].st = "body"
        BY <2>1 DEF Idling, NoWork, PoolInv, Running
      <3>2. x[1] # m
        BY <3>1
      <3> QED
        BY <3>1, <3>2, WorkerParts
    <2> QED
      BY <2>1 DEF Running
  <1> QED
    BY <1>1, <1>2, OnlyDeliveries

LEMMA FinishPool ==
    ASSUME PoolInv, NEW m \in Msgs, Finish(m)
    PROVE  PoolInv'
  <1>1. /\ w' \in [Workers -> Goroutine]
        /\ \A x \in Workers : IF x[1] = m THEN w'[x] = NoWork /\ w[x].c = 0 /\ w[x].pc \in {"none", "done"}
                              ELSE w'[x] = w[x]
    BY FinishDoes DEF PoolInv
  <1>2. dl' \in [Msgs -> Delivery] /\ \A n \in Msgs \ {m} : dl'[n] = dl[n]
    BY ForgetDoes DEF PoolInv, Finish
  <1>3. UNCHANGED <<kind, conn, chan, pool, now>>
    BY DEF Finish
  <1>4. NoWork.c = 0 /\ NoWork.ch = 0 /\ NoWork.pc = "none"
    BY DEF NoWork
  <1>5. \A x \in Workers : x[1] = m => w[x].ch = 0
    BY <1>1 DEF PoolInv, Owned, Owns
  <1>6. Typed'
    BY <1>1, <1>2, <1>3 DEF PoolInv, Typed
  <1>7. Owned'
    <2>1. ASSUME NEW x \in Workers PROVE Owns(x, w[x], conn)'
      BY <1>1, <1>3, <1>4 DEF PoolInv, Owned, Owns
    <2> QED
      BY <2>1 DEF Owned
  <1>8. Running'
    <2>1. ASSUME NEW x \in Workers, w'[x].pc # "none" PROVE dl'[x[1]].st = "body"
      BY <1>1, <1>2, <1>4, <2>1, WorkerParts DEF PoolInv, Running
    <2> QED
      BY <2>1 DEF Running
  <1>9. \A x \in Workers : w'[x].c = w[x].c /\ w'[x].ch = w[x].ch
    BY <1>1, <1>4, <1>5
  <1> QED
    BY <1>3, <1>6, <1>7, <1>8, <1>9, SameConnections

LEMMA PoolInit == Init => PoolInv /\ Idling
  <1> SUFFICES ASSUME Init PROVE PoolInv /\ Idling
    OBVIOUS
  <1>1. NoWork.c = 0 /\ NoWork.ch = 0 /\ NoWork.pc = "none" /\ NoChan.conns = <<>>
    BY DEF NoWork, NoChan
  <1>2. \A x \in Workers : w[x] = NoWork
    BY DEF Init
  <1>3. Typed
    BY NullValues DEF Init, Typed
  <1>4. \A k \in Chan : In(k) = {} /\ IsInjective(chan[k].conns)
    BY <1>1, EmptyList DEF Init, In
  <1>5. \A d \in Domains : pool.keys[d] = 0
    BY DEF Init
  <1>6. Buckets /\ Contents
    BY <1>1, <1>2, <1>4, <1>5 DEF Buckets, Contents
  <1>7. OnePlace /\ Owned /\ Running
    BY <1>1, <1>2, <1>4 DEF OnePlace, Owned, Owns, Running
  <1> QED
    BY <1>2, <1>3, <1>6, <1>7 DEF PoolInv, Idling

LEMMA PoolStep ==
    ASSUME PoolInv, Idling, [Next]_vars
    PROVE  PoolInv'
  <1>1. CASE \E x \in Workers : WorkerStep(x)
    BY <1>1, tryHTTPPool, GetPool, GetDrainPool, GetRecvPool, newConnPool, CheckMXPool, attemptMXPool,
       connectionForDomainPool, TransactionPool, CloseConnPool DEF WorkerStep
  <1>2. ASSUME NEW m \in Msgs, Start(m) PROVE PoolInv'
    <2>1. Updates(m, "rcpt", dl[m].to, dl[m].errs) /\ dl[m].st = "new"
      BY <1>2, StartDoes DEF PoolInv
    <2> QED
      BY <1>2, <2>1, DeliveryPool DEF Start, Updates
  <1>3. ASSUME NEW m \in Msgs, BodyNonAtomic(m) PROVE PoolInv'
    <2>1. Updates(m, "body", dl[m].to, dl[m].errs) /\ dl[m].st = "rcpt" /\ Launched(m, "http")
      BY <1>3, BodyNonAtomicDoes DEF PoolInv
    <2> QED
      BY <1>3, <2>1, LaunchPool DEF BodyNonAtomic, Updates
  <1>4. ASSUME NEW m \in Msgs, Quarantined(m) PROVE PoolInv'
    <2>1. Updates(m, "body", dl[m].to, To[m]) /\ dl[m].st = "rcpt" /\ Launched(m, "done")
      BY <1>4, QuarantinedDoes DEF PoolInv
    <2> QED
      BY <1>4, <2>1, LaunchPool DEF Quarantined, Updates
  <1>5. ASSUME NEW m \in Msgs, DownstreamStart(m) PROVE PoolInv'
    <2>1. dl' \in [Msgs -> Delivery] /\ \A n \in Msgs \ {m} : dl'[n] = dl[n]
      BY <1>5, DownstreamStartDoes DEF PoolInv, Updates
    <2> QED
      BY <1>5, <2>1, DeliveryPool DEF DownstreamStart
  <1>6. ASSUME NEW m \in Msgs, NEW r \in To[m], AddRcpt(m, r) PROVE PoolInv'
    <2>1. dl' \in [Msgs -> Delivery] /\ \A n \in Msgs \ {m} : dl'[n] = dl[n]
      BY <1>6, AddRcptDoes DEF PoolInv, Updates
    <2> QED
      BY <1>6, <2>1, DeliveryPool DEF AddRcpt
  <1>7. ASSUME NEW m \in Msgs, DownstreamBody(m) PROVE PoolInv'
    <2>1. \E E : Updates(m, "body", dl[m].to, E)
      BY <1>7, DownstreamBodyDoes DEF PoolInv
    <2>2. dl' \in [Msgs -> Delivery] /\ \A n \in Msgs \ {m} : dl'[n] = dl[n]
      BY <2>1 DEF Updates
    <2> QED
      BY <1>7, <2>2, DeliveryPool DEF DownstreamBody
  <1>8. ASSUME NEW m \in Msgs, DownstreamClose(m) PROVE PoolInv'
    <2>1. dl' \in [Msgs -> Delivery] /\ \A n \in Msgs \ {m} : dl'[n] = dl[n]
      BY <1>8, ForgetDoes DEF PoolInv, DownstreamClose
    <2> QED
      BY <1>8, <2>1, DeliveryPool DEF DownstreamClose
  <1>9. CASE Elapse
    <2>1. Typed' /\ Running'
      BY <1>9 DEF Elapse, PoolInv, Typed, Running
    <2> QED
      BY <1>9, <2>1, OnlyDeliveries DEF Elapse
  <1>10. CASE UNCHANGED vars
    <2>1. Typed' /\ Running'
      BY <1>10 DEF vars, PoolInv, Typed, Running
    <2> QED
      BY <1>10, <2>1, OnlyDeliveries DEF vars
  <1> QED
    BY <1>1, <1>2, <1>3, <1>4, <1>5, <1>6, <1>7, <1>8, <1>9, <1>10, FinishPool, CleanUpPool,
       PoolClosePool DEF Next

(* The places of the connections, in every state: the goroutines, the      *)
(* buckets of the pool and the buckets that only a Get still holds.        *)
THEOREM PoolInvariant == Spec => [](PoolInv /\ Idling)
  <1>1. PoolInv /\ Idling /\ [Next]_vars => (PoolInv /\ Idling)'
    BY PoolStep, IdlingStep
  <1> QED
    BY <1>1, PoolInit, PTL DEF Spec

(* What the pool can hand out is open, of the key, without a failed        *)
(* transaction, in one place and without an owner, and no Return sends on  *)
(* a closed channel, whatever Get, Return, CleanUp and Close do in between.*)
THEOREM PooledCleanTheorem == Spec => []PooledClean
  <1>1. PoolInv => PooledClean
    <2> SUFFICES ASSUME PoolInv PROVE PooledClean
      OBVIOUS
    <2>1. \A d \in Domains : pool.keys[d] # 0 =>
             /\ ~chan[pool.keys[d]].closed
             /\ \A c \in ToSet(chan[pool.keys[d]].conns) : conn[c].dom = d
      BY DEF PoolInv, Buckets, Contents, In
    <2>2. ASSUME NEW c \in Idle
          PROVE  /\ conn[c].st = "open" /\ ~conn[c].errored /\ conn[c].n <= ReuseLimit
                 /\ \A x \in Workers : w[x].c # c
      <3>1. PICK k \in Chan : c \in In(k)
        BY DEF Idle, In
      <3> QED
        BY <3>1 DEF PoolInv, Contents, Ready, OnePlace
    <2>3. \A k, l \in Chan : k # l => ToSet(chan[k].conns) \cap ToSet(chan[l].conns) = {}
      BY DEF PoolInv, OnePlace, In
    <2> QED
      BY <2>1, <2>2, <2>3 DEF PooledClean, PoolInv, OnePlace
  <1> QED
    BY <1>1, PoolInvariant, PTL

-----------------------------------------------------------------------------
(* SecureInv.                                                              *)

SameLevel(k, o) ==
    /\ k.st = o.st /\ k.dom = o.dom /\ k.tls = o.tls /\ k.mx = o.mx /\ k.by = o.by
    /\ k.cached = o.cached /\ k.sts = o.sts

(* A connection keeps its level, is closed, or is opened as it should be.  *)
Levels ==
    \A c \in Conn : \/ conn'[c].st = "none"
                    \/ SameLevel(conn'[c], conn[c])
                    \/ conn[c].st = "none" /\ Checked(conn'[c])

LEMMA LevelsKeep ==
    ASSUME SecureInv, Levels
    PROVE  \A c \in Conn : Checked(conn'[c])
  <1> SUFFICES ASSUME NEW c \in Conn PROVE Checked(conn'[c])
    OBVIOUS
  <1>1. CASE conn'[c].st = "none"
    BY <1>1 DEF Checked
  <1>2. CASE SameLevel(conn'[c], conn[c])
    BY <1>2 DEF Checked, SameLevel, SecureInv
  <1> QED
    BY <1>1, <1>2 DEF Levels

LEMMA LevelsClosed ==
    ASSUME Typed, NEW ids, conn' = Close(conn, ids)
    PROVE  Levels
  <1>1. \A c \in Conn : conn'[c] = NoConn \/ conn'[c] = conn[c]
    BY Closed DEF Typed
  <1>2. NoConn.st = "none"
    BY DEF NoConn
  <1> QED
    BY <1>1, <1>2 DEF Levels, SameLevel

LEMMA LevelsSame ==
    ASSUME conn' = conn
    PROVE  Levels
  BY DEF Levels, SameLevel

LEMMA LevelsTouched ==
    ASSUME Typed, NEW c \in Conn, NEW k, Touched(c, k)
    PROVE  Levels
  BY DEF Typed, Touched, Levels, SameLevel

(* Two goroutines of a message: none of them is alone.                     *)
LEMMA NotAlone ==
    ASSUME NEW x \in Workers, NEW y \in Workers, x # y, x[1] = y[1]
    PROVE  ~Alone(x[1])
  <1> DEFINE S == {z \in Workers : z[1] = x[1]}
  <1>1. IsFiniteSet(S) /\ x \in S /\ y \in S
    BY WorkersFinite, FS_Subset
  <1> HIDE DEF S
  <1>2. ASSUME Cardinality(S) = 1 PROVE FALSE
    <2>1. \E e : S = {e}
      BY <1>1, <1>2, FS_Singleton
    <2> QED
      BY <1>1, <2>1
  <1> QED
    BY <1>2 DEF Alone, S

(* A step of the goroutine x: its own MX, connection and REQUIRETLS are    *)
(* what there is to show.                                                  *)
LEMMA SecureStep ==
    ASSUME PoolInv, PoolInv', SecureInv, NEW x \in Workers, NEW g, Moves(x, g), Levels,
           \A n \in Msgs : \/ dl'[n].relaxed = dl[n].relaxed /\ dl'[n].reqtls = dl[n].reqtls
                           \/ n = x[1] /\ dl'[n].relaxed = dl[n].relaxed \cup {x[2]} /\ g.pc = "send",
           \A n \in Msgs : n # x[1] => dl'[n].tlsa = dl[n].tlsa,
           w[x].pc \in {"send", "done"} => g.pc \in {"send", "done"},
           g.pc = "conn" => CheckedMX(x)',
           g.pc = "send" =>
               /\ conn'[g.c].st = "open"
               /\ x[1] \in ReqTLS /\ dl'[x[1]].relaxed \subseteq {x[2]} =>
                     conn'[g.c].tls = 2 /\ conn'[g.c].mx >= 1
    PROVE  SecureInv'
  <1>1. w' \in [Workers -> Goroutine] /\ w'[x] = g /\ \A y \in Workers \ {x} : w'[y] = w[y]
    BY Moved DEF PoolInv
  <1>2. \A c \in Conn : Checked(conn[c])'
    BY LevelsKeep DEF Checked
  <1>3. ASSUME NEW y \in Workers PROVE CheckedMX(y)'
    <2>1. CASE y = x
      BY <1>1, <2>1 DEF CheckedMX
    <2>2. CASE y # x
      <3>1. w'[y] = w[y] /\ CheckedMX(y)
        BY <1>1, <2>2 DEF SecureInv
      <3>2. Alone(y[1]) => dl'[y[1]].tlsa = dl[y[1]].tlsa
        <4>1. CASE y[1] = x[1]
          BY <2>2, <4>1, NotAlone
        <4>2. CASE y[1] # x[1]
          BY <4>2, WorkerParts
        <4> QED
          BY <4>1, <4>2
      <3> QED
        BY <3>1, <3>2 DEF CheckedMX
    <2> QED
      BY <2>1, <2>2
  <1>4. ASSUME NEW n \in Msgs
        PROVE  /\ dl'[n].relaxed = {} => dl'[n].reqtls = (n \in ReqTLS)
               /\ \A d \in dl'[n].relaxed : <<n, d>> \in Workers => w'[<<n, d>>].pc \in {"send", "done"}
    <2>1. /\ dl[n].relaxed = {} => dl[n].reqtls = (n \in ReqTLS)
          /\ \A d \in dl[n].relaxed : <<n, d>> \in Workers => w[<<n, d>>].pc \in {"send", "done"}
      BY DEF SecureInv, Relaxed
    <2>2. dl'[n].relaxed = {} => dl'[n].reqtls = (n \in ReqTLS)
      BY <2>1
    <2>3. ASSUME NEW d \in dl'[n].relaxed, <<n, d>> \in Workers
          PROVE  w'[<<n, d>>].pc \in {"send", "done"}
      <3>1. CASE <<n, d>> = x
        <4>1. CASE d \in dl[n].relaxed
          BY <1>1, <2>1, <2>3, <3>1, <4>1
        <4>2. CASE d \notin dl[n].relaxed
          BY <1>1, <2>3, <3>1, <4>2
        <4> QED
          BY <4>1, <4>2
      <3>2. CASE <<n, d>> # x
        <4>1. d \in dl[n].relaxed
          BY <2>3, <3>2, WorkerParts
        <4> QED
          BY <1>1, <2>1, <2>3, <3>2, <4>1
      <3> QED
        BY <3>1, <3>2
    <2> QED
      BY <2>2, <2>3
  <1>5. ASSUME NEW y \in Workers, w'[y].pc = "send"
        PROVE  /\ conn'[w'[y].c].st = "open"
               /\ y[1] \in ReqTLS /\ dl'[y[1]].relaxed \subseteq {y[2]}
                     => conn'[w'[y].c].tls = 2 /\ conn'[w'[y].c].mx >= 1
    <2>1. CASE y = x
      BY <1>1, <1>5, <2>1
    <2>2. CASE y # x
      <3>1. w'[y] = w[y] /\ w[y].pc = "send"
        BY <1>1, <1>5, <2>2
      <3>2. w[y].c \in Conn /\ conn'[w[y].c].st # "none"
        BY <3>1 DEF PoolInv, Owned, Owns, Typed, Goroutine
      <3>3. /\ conn[w[y].c].st = "open"
            /\ y[1] \in ReqTLS /\ dl[y[1]].relaxed \subseteq {y[2]}
                  => conn[w[y].c].tls = 2 /\ conn[w[y].c].mx >= 1
        BY <3>1 DEF SecureInv, Sending
      <3>4. SameLevel(conn'[w[y].c], conn[w[y].c])
        BY <3>2, <3>3 DEF Levels
      <3>5. dl[y[1]].relaxed \subseteq dl'[y[1]].relaxed
        BY WorkerParts
      <3> QED
        BY <3>1, <3>3, <3>4, <3>5 DEF SameLevel
    <2> QED
      BY <2>1, <2>2
  <1> QED
    BY <1>2, <1>3, <1>4, <1>5 DEF SecureInv, Relaxed, Sending

(* ... when it neither connects nor sends.                                 *)
LEMMA SecureMove ==
    ASSUME PoolInv, PoolInv', SecureInv, NEW x \in Workers, NEW g, Moves(x, g), Levels,
           \A n \in Msgs : /\ dl'[n].relaxed = dl[n].relaxed /\ dl'[n].reqtls = dl[n].reqtls
                           /\ dl'[n].tlsa = dl[n].tlsa,
           g.pc \notin {"conn", "send"}, w[x].pc \in {"send", "done"} => g.pc = "done"
    PROVE  SecureInv'
  BY SecureStep

LEMMA tryHTTPSecure ==
    ASSUME PoolInv, PoolInv', SecureInv, NEW x \in Workers, tryHTTP(x)
    PROVE  SecureInv'
  <1>1. PICK p \in {"done", "get"} : w' = [w EXCEPT ![x].pc = p]
    BY DEF tryHTTP
  <1>2. UNCHANGED <<dl, conn>> /\ w[x].pc = "http" /\ p \in PCs
    BY DEF tryHTTP, PCs
  <1> DEFINE g == [w[x] EXCEPT !.pc = p]
  <1>3. Moves(x, g) /\ g.pc = p
    BY <1>1, <1>2, AtPc DEF PoolInv
  <1> HIDE DEF g
  <1>4. Levels
    BY <1>2, LevelsSame
  <1> QED
    BY <1>2, <1>3, <1>4, SecureMove

(* What Get makes of the goroutine.                                        *)
LEMMA GetMoves ==
    ASSUME PoolInv, NEW x \in Workers, Get(x)
    PROVE  \E g : Moves(x, g) /\ g.pc \in {"prep", "drain", "recv"}
  <1> DEFINE k == pool.keys[x[2]]
             old == k # 0 /\ now - chan[k].lastUse > Lifetime
             p == IF k = 0 THEN "prep" ELSE IF old THEN "drain" ELSE "recv"
             g == [w[x] EXCEPT !.pc = p, !.ch = k]
  <1>1. w' = [w EXCEPT ![x] = g]
    BY DEF Get, PoolInv, Typed
  <1>2. k \in Chan \cup {0} /\ p \in PCs /\ p \in {"prep", "drain", "recv"} /\ w[x] \in Goroutine
    BY WorkerParts DEF PoolInv, Typed, PCs
  <1> HIDE DEF p, k
  <1>3. g \in Goroutine /\ g.pc = p
    BY <1>2 DEF Goroutine
  <1> QED
    BY <1>1, <1>2, <1>3 DEF Moves

LEMMA GetSecure ==
    ASSUME PoolInv, PoolInv', SecureInv, NEW x \in Workers, Get(x)
    PROVE  SecureInv'
  <1>1. PICK g : Moves(x, g) /\ g.pc \in {"prep", "drain", "recv"}
    BY GetMoves
  <1>2. UNCHANGED <<dl, conn>> /\ w[x].pc = "get"
    BY DEF Get
  <1>3. Levels
    BY <1>2, LevelsSame
  <1> QED
    BY <1>1, <1>2, <1>3, SecureMove

LEMMA LeavesBucketMoves ==
    ASSUME PoolInv, NEW x \in Workers, w' = [w EXCEPT ![x].pc = "prep", ![x].ch = 0]
    PROVE  \E g : Moves(x, g) /\ g.pc = "prep"
  <1> DEFINE z == 0
             g == [w[x] EXCEPT !.pc = "prep", !.ch = z]
  <1>1. w' = [w EXCEPT ![x] = g] /\ z \in Chan \cup {0} /\ w[x] \in Goroutine
    BY DEF PoolInv, Typed
  <1> HIDE DEF z
  <1>2. g \in Goroutine /\ g.pc = "prep"
    BY <1>1 DEF Goroutine, PCs
  <1> QED
    BY <1>1, <1>2 DEF Moves

LEMMA GetDrainMoves ==
    ASSUME PoolInv, NEW x \in Workers, GetDrain(x)
    PROVE  /\ \E g : Moves(x, g) /\ g.pc \in {"prep", "drain"}
           /\ UNCHANGED conn \/ \E c : conn' = Close(conn, {c})
  <1>1. CASE chan[w[x].ch].conns = <<>>
    BY <1>1, LeavesBucketMoves DEF GetDrain
  <1>2. CASE chan[w[x].ch].conns # <<>>
    <2>1. conn' = Close(conn, {Head(chan[w[x].ch].conns)}) /\ w' = w /\ w[x].pc = "drain"
      BY <1>2 DEF GetDrain
    <2>2. Moves(x, w[x])
      BY <2>1 DEF Moves, PoolInv, Typed
    <2> QED
      BY <2>1, <2>2
  <1> QED
    BY <1>1, <1>2

LEMMA GetRecvMoves ==
    ASSUME PoolInv, NEW x \in Workers, GetRecv(x)
    PROVE  /\ \E g : Moves(x, g) /\ g.pc \in {"prep", "recv", "mail"}
           /\ UNCHANGED conn \/ \E c : conn' = Close(conn, {c})
  <1>1. CASE w' = [w EXCEPT ![x].pc = "prep", ![x].ch = 0] /\ UNCHANGED <<conn, chan>>
    BY <1>1, LeavesBucketMoves
  <1>2. CASE ~(w' = [w EXCEPT ![x].pc = "prep", ![x].ch = 0] /\ UNCHANGED <<conn, chan>>)
    BY <1>2, GetRecvDoes
  <1> QED
    BY <1>1, <1>2

LEMMA GetDrainSecure ==
    ASSUME PoolInv, PoolInv', SecureInv, NEW x \in Workers, GetDrain(x)
    PROVE  SecureInv'
  <1>1. PICK g : Moves(x, g) /\ g.pc \in {"prep", "drain"}
    BY GetDrainMoves
  <1>2. Levels
    BY GetDrainMoves, LevelsSame, LevelsClosed DEF PoolInv
  <1>3. UNCHANGED dl /\ w[x].pc = "drain"
    BY DEF GetDrain
  <1> QED
    BY <1>1, <1>2, <1>3, SecureMove

LEMMA GetRecvSecure ==
    ASSUME PoolInv, PoolInv', SecureInv, NEW x \in Workers, GetRecv(x)
    PROVE  SecureInv'
  <1>1. PICK g : Moves(x, g) /\ g.pc \in {"prep", "recv", "mail"}
    BY GetRecvMoves
  <1>2. Levels
    BY GetRecvMoves, LevelsSame, LevelsClosed DEF PoolInv
  <1>3. UNCHANGED dl /\ w[x].pc = "recv"
    BY DEF GetRecv
  <1> QED
    BY <1>1, <1>2, <1>3, SecureMove

LEMMA newConnSecure ==
    ASSUME PoolInv, PoolInv', SecureInv, NEW x \in Workers, newConn(x)
    PROVE  SecureInv'
  <1>1. PICK g : /\ Moves(x, g) /\ g.pc \in {"done", "mx"}
                 /\ \E E : KeepsPolicies(x[1], E)
    BY newConnDoes DEF PoolInv
  <1>2. UNCHANGED conn /\ w[x].pc = "prep"
    BY DEF newConn
  <1>3. Levels
    BY <1>2, LevelsSame
  <1> QED
    BY <1>1, <1>2, <1>3, SecureMove DEF KeepsPolicies

LEMMA NextMXSecure ==
    ASSUME PoolInv, PoolInv', SecureInv, NEW x \in Workers, NEW dead \in BOOLEAN, NextMX(x, dead),
           w[x].pc \in {"mx", "conn"}
    PROVE  SecureInv'
  <1>1. CASE /\ \E g : Moves(x, g) /\ g.pc = "mx" /\ g.c = w[x].c /\ g.ch = w[x].ch
             /\ UNCHANGED <<dl, conn>>
    <2>1. PICK g : Moves(x, g) /\ g.pc = "mx"
      BY <1>1
    <2> QED
      BY <1>1, <2>1, LevelsSame, SecureMove
  <1>2. CASE /\ Moves(x, [NoWork EXCEPT !.pc = "done"]) /\ UNCHANGED conn
             /\ ErrorsOnly(x[1], dl[x[1]].errs \cup RcptsAt(x[1], x[2]))
    <2> DEFINE g == [NoWork EXCEPT !.pc = "done"]
    <2>1. Moves(x, g) /\ g.pc = "done"
      BY <1>2, Ended
    <2> HIDE DEF g
    <2> QED
      BY <1>2, <2>1, LevelsSame, SecureMove DEF ErrorsOnly
  <1>3. CASE \E c \in Conn :
                /\ conn[c].st = "none"
                /\ conn' = [conn EXCEPT ![c] = [NoConn EXCEPT !.st = "dead", !.dom = x[2], !.by = x[1]]]
                /\ Moves(x, [NoWork EXCEPT !.pc = "mail", !.c = c])
                /\ UNCHANGED dl
    <2> DEFINE k == [NoConn EXCEPT !.st = "dead", !.dom = x[2], !.by = x[1]]
    <2>1. PICK c \in Conn : /\ conn[c].st = "none" /\ conn' = [conn EXCEPT ![c] = k]
                            /\ Moves(x, [NoWork EXCEPT !.pc = "mail", !.c = c]) /\ UNCHANGED dl
      BY <1>3
    <2>2. k.st = "dead"
      BY NewDead DEF PoolInv
    <2> HIDE DEF k
    <2>3. conn'[c] = k /\ \A e \in Conn : e # c => conn'[e] = conn[e]
      BY <2>1 DEF PoolInv, Typed
    <2>4. Checked(k)
      BY <2>2 DEF Checked
    <2>5. Levels
      BY <2>1, <2>3, <2>4 DEF Levels, SameLevel
    <2> DEFINE g == [NoWork EXCEPT !.pc = "mail", !.c = c]
    <2>6. Moves(x, g) /\ g.pc = "mail"
      BY <2>1, Connected
    <2> HIDE DEF g
    <2> QED
      BY <2>1, <2>5, <2>6, SecureMove
  <1> QED
    BY <1>1, <1>2, <1>3, NextMXDoes DEF PoolInv

(* The level that MTA-STS gives an MX holds for the policy that was read.  *)
LEMMA CheckMXSecure ==
    ASSUME PoolInv, PoolInv', SecureInv, NEW x \in Workers, CheckMX(x)
    PROVE  SecureInv'
  <1>1. w[x].pc = "mx" /\ x[1] \in Msgs /\ x[2] \in Domains /\ x[2] \in Names
    BY WorkerParts DEF CheckMX, Names
  <1>2. CASE NextMX(x, w[x].dead) /\ w[x].dead \in BOOLEAN
    BY <1>1, <1>2, NextMXSecure
  <1>3. ASSUME NEW g, Moves(x, g), g.pc = "conn", g.cached = w[x].cached, UNCHANGED conn, UNCHANGED dl,
               ~HasPolicies(x[1]) \/ w[x].cached
        PROVE  SecureInv'
    <2>1. w'[x] = g
      BY <1>3, Moved DEF PoolInv
    <2>2. CheckedMX(x)'
      BY <1>3, <2>1 DEF CheckedMX
    <2> QED
      BY <1>1, <1>3, <2>2, LevelsSame, SecureStep
  <1>4. ASSUME NEW g, Moves(x, g), g.pc = "conn", UNCHANGED conn,
               NEW l \in mtastsCheckMX(dl[x[1]].mtasts), l # -1, localCheckMX(g.mx),
               g.mx = LevelOf(l, w[x].mx), g.sts = {Seen(dl[x[1]].mtasts)},
               dl' = [dl EXCEPT ![x[1]].tlsa = x[2]]
        PROVE  SecureInv'
    <2>1. w'[x] = g
      BY <1>4, Moved DEF PoolInv
    <2>2. \A n \in Msgs : /\ dl'[n].reqtls = dl[n].reqtls /\ dl'[n].relaxed = dl[n].relaxed
                          /\ dl'[n].tlsa = IF n = x[1] THEN x[2] ELSE dl[n].tlsa
      BY <1>1, <1>4, TlsaSet DEF PoolInv
    <2>3. g.mx >= MinMX /\ g.sts # {}
      BY <1>4 DEF localCheckMX
    <2>4. ASSUME g.sts = {x[2]}, Mode[x[2]] = "enforce" PROVE g.mx >= 1
      <3>1. Seen(dl[x[1]].mtasts) = x[2]
        BY <1>4, <2>4
      <3>2. dl[x[1]].mtasts.ok /\ dl[x[1]].mtasts.dom = x[2]
        BY <1>1, <3>1, SetsAssumption DEF Seen
      <3>3. l = 1
        BY <1>4, <2>4, <3>2 DEF mtastsCheckMX
      <3>4. w[x].mx \in 0 .. 2
        BY DEF PoolInv, Typed, Goroutine
      <3> QED
        BY <1>4, <3>3, <3>4 DEF LevelOf
    <2>5. CheckedMX(x)'
      BY <1>1, <2>1, <2>2, <2>3, <2>4 DEF CheckedMX
    <2> QED
      BY <1>1, <1>4, <2>2, <2>5, LevelsSame, SecureStep
  <1> QED
    BY <1>2, <1>3, <1>4, CheckMXDoes DEF PoolInv

(* A connection that passed the policies is as secure as they ask.         *)
LEMMA OpenedChecked ==
    ASSUME PoolInv, SecureInv, NEW x \in Workers, w[x].pc = "conn", NEW k, Opened(x, k)
    PROVE  Checked(k)
  <1> SUFFICES ASSUME k.by \notin Override, ~k.cached
               PROVE  /\ k.tls >= MinTLS /\ k.mx >= MinMX
                      /\ k.sts = {k.dom} /\ Mode[k.dom] = "enforce" => k.tls = 2 /\ k.mx >= 1
                      /\ Alone(k.by) /\ k.dom \in Dane => k.tls >= 1
    BY DEF Checked
  <1> DEFINE fut == dl[x[1]].mtasts
  <1>1. k.dom = x[2] /\ k.by = x[1] /\ k.mx = w[x].mx /\ HasPolicies(x[1]) /\ ~w[x].cached
    BY DEF Opened, HasPolicies
  <1>2. /\ w[x].mx >= MinMX /\ w[x].sts # {}
        /\ w[x].sts = {x[2]} /\ Mode[x[2]] = "enforce" => w[x].mx >= 1
        /\ Alone(x[1]) => dl[x[1]].tlsa = x[2]
    BY <1>1 DEF SecureInv, CheckedMX
  <1>3. k.tls >= MinTLS /\ k.sts = w[x].sts \cup {Seen(fut)}
    BY <1>1 DEF Opened, localCheckConn
  <1>4. PICK tls \in connect : \E raised \in daneCheckConn(dl[x[1]].tlsa, tls) \ {-1} :
               mtastsCheckConn(fut, tls) /\ k.tls = LevelOf(tls, raised)
    BY <1>1 DEF Opened
  <1>5. PICK raised \in daneCheckConn(dl[x[1]].tlsa, tls) \ {-1} :
               mtastsCheckConn(fut, tls) /\ k.tls = LevelOf(tls, raised)
    BY <1>4
  <1>6. raised \in {0, 2} /\ tls \in 0 .. 2
    BY <1>5, DaneLevels DEF connect
  <1>7. x[2] # "none"
    BY WorkerParts, SetsAssumption
  <1>8. ASSUME k.sts = {x[2]}, Mode[x[2]] = "enforce" PROVE k.tls = 2 /\ k.mx >= 1
    <2>1. Seen(fut) = x[2] /\ w[x].sts = {x[2]}
      BY <1>2, <1>3, <1>8
    <2>2. fut.ok /\ fut.dom = x[2]
      BY <1>7, <2>1 DEF Seen
    <2>3. tls = 2
      BY <1>5, <1>8, <2>2 DEF mtastsCheckConn
    <2> QED
      BY <1>1, <1>2, <1>5, <1>6, <1>8, <2>1, <2>3 DEF LevelOf
  <1>9. ASSUME Alone(x[1]), x[2] \in Dane PROVE k.tls >= 1
    <2>1. raised \in daneCheckConn(x[2], tls)
      BY <1>2, <1>5, <1>9
    <2>2. tls # 0
      BY <1>5, <1>9, <2>1 DEF daneCheckConn, discoverTLSA, verifyDANE
    <2> QED
      BY <1>5, <1>6, <2>2 DEF LevelOf
  <1> QED
    BY <1>1, <1>2, <1>3, <1>8, <1>9

LEMMA attemptMXSecure ==
    ASSUME PoolInv, PoolInv', SecureInv, NEW x \in Workers, attemptMX(x)
    PROVE  SecureInv'
  <1>1. w[x].pc = "conn"
    BY DEF attemptMX
  <1>2. CASE \E dead \in BOOLEAN : NextMX(x, dead)
    BY <1>1, <1>2, NextMXSecure
  <1>3. ASSUME NEW c \in Conn, NEW k \in Connection, conn[c].st = "none", Opened(x, k),
               conn' = [conn EXCEPT ![c] = k], Moves(x, [NoWork EXCEPT !.pc = "mail", !.c = c]),
               UNCHANGED dl
        PROVE  SecureInv'
    <2>1. Checked(k)
      BY <1>1, <1>3, OpenedChecked
    <2>2. conn'[c] = k /\ \A e \in Conn : e # c => conn'[e] = conn[e]
      BY <1>3 DEF PoolInv, Typed
    <2>3. Levels
      BY <1>3, <2>1, <2>2 DEF Levels, SameLevel
    <2> DEFINE g == [NoWork EXCEPT !.pc = "mail", !.c = c]
    <2>4. Moves(x, g) /\ g.pc = "mail"
      BY <1>3, Connected
    <2> HIDE DEF g
    <2> QED
      BY <1>1, <1>3, <2>3, <2>4, SecureMove
  <1> QED
    BY <1>2, <1>3, attemptMXDoes DEF PoolInv

LEMMA connectionForDomainSecure ==
    ASSUME PoolInv, PoolInv', SecureInv, NEW x \in Workers, connectionForDomain(x)
    PROVE  SecureInv'
  <1> DEFINE c == w[x].c
  <1>1. w[x].pc = "mail" /\ x[1] \in Msgs /\ x[2] \in Domains /\ x = <<x[1], x[2]>>
    BY WorkerParts DEF connectionForDomain
  <1>2. c \in Conn
    BY <1>1 DEF PoolInv, Owned, Owns, Typed, Goroutine
  <1>3. CASE conn' = Close(conn, {c}) /\ GivesUp(x)
    <2> DEFINE g == [NoWork EXCEPT !.pc = "done"]
    <2>1. Moves(x, g) /\ g.pc = "done" /\ ErrorsOnly(x[1], dl[x[1]].errs \cup RcptsAt(x[1], x[2]))
      BY <1>3, GivesUpDoes, Ended DEF PoolInv
    <2> HIDE DEF g
    <2>2. Levels
      BY <1>3, LevelsClosed DEF PoolInv
    <2> QED
      BY <1>1, <2>1, <2>2, SecureMove DEF ErrorsOnly
  <1>4. ASSUME conn[c].st = "open", conn' = [conn EXCEPT ![c].at = now], w' = [w EXCEPT ![x].pc = "send"],
               dl[x[1]].reqtls => conn[c].tls >= 2 /\ conn[c].mx >= 1,
               \/ UNCHANGED dl
               \/ dl' = [dl EXCEPT ![x[1]].reqtls = FALSE, ![x[1]].relaxed = @ \cup {x[2]}]
        PROVE  SecureInv'
    <2> DEFINE g == [w[x] EXCEPT !.pc = "send"]
    <2>1. Moves(x, g) /\ g.pc = "send" /\ g.c = c
      <3>1. "send" \in PCs
        BY DEF PCs
      <3> QED
        BY <1>4, <3>1, AtPc DEF PoolInv
    <2> HIDE DEF g
    <2>2. PICK k : Touched(c, k)
      BY <1>2, <1>4, MailTouches DEF PoolInv
    <2>3. Levels
      BY <1>2, <2>2, LevelsTouched DEF PoolInv
    <2>4. \A n \in Msgs : \/ dl'[n].relaxed = dl[n].relaxed /\ dl'[n].reqtls = dl[n].reqtls
                          \/ n = x[1] /\ dl'[n].relaxed = dl[n].relaxed \cup {x[2]}
      <3>1. CASE dl' = [dl EXCEPT ![x[1]].reqtls = FALSE, ![x[1]].relaxed = @ \cup {x[2]}]
        <4> DEFINE m == x[1]
                   d == x[2]
        <4>1. m \in Msgs /\ d \in Domains /\ Typed
              /\ dl' = [dl EXCEPT ![m].reqtls = FALSE, ![m].relaxed = @ \cup {d}]
          BY <1>1, <3>1 DEF PoolInv
        <4> HIDE DEF m, d
        <4>2. \A n \in Msgs :
                /\ dl'[n].reqtls = IF n = m THEN FALSE ELSE dl[n].reqtls
                /\ dl'[n].relaxed = IF n = m THEN dl[n].relaxed \cup {d} ELSE dl[n].relaxed
          BY <4>1, RelaxedSet
        <4> QED
          BY <4>2 DEF m, d
      <3>2. CASE UNCHANGED dl
        BY <3>2
      <3> QED
        BY <1>4, <3>1, <3>2
    <2>5. \A n \in Msgs : dl'[n].tlsa = dl[n].tlsa
      BY <1>1, <1>4, RelaxedSet DEF PoolInv
    <2>6. conn'[c].st = "open" /\ conn'[c].tls = conn[c].tls /\ conn'[c].mx = conn[c].mx
      BY <1>2, <1>4, <2>2 DEF PoolInv, Typed, Touched
    <2>7. ASSUME x[1] \in ReqTLS, dl'[x[1]].relaxed \subseteq {x[2]} PROVE conn'[c].tls = 2 /\ conn'[c].mx >= 1
      <3>1. x[2] \notin dl[x[1]].relaxed
        BY <1>1 DEF SecureInv, Relaxed
      <3>2. dl[x[1]].relaxed = {}
        BY <1>1, <2>4, <2>7, <3>1
      <3>3. dl[x[1]].reqtls
        BY <1>1, <2>7, <3>2 DEF SecureInv, Relaxed
      <3>4. conn[c].tls \in 0 .. 2
        BY <1>2 DEF PoolInv, Typed, Connection
      <3> QED
        BY <1>4, <2>6, <3>3, <3>4
    <2> HIDE DEF c
    <2>8. g.pc = "send" =>
               /\ conn'[g.c].st = "open"
               /\ x[1] \in ReqTLS /\ dl'[x[1]].relaxed \subseteq {x[2]} =>
                     conn'[g.c].tls = 2 /\ conn'[g.c].mx >= 1
      BY <2>1, <2>6, <2>7
    <2>9. \A n \in Msgs : \/ dl'[n].relaxed = dl[n].relaxed /\ dl'[n].reqtls = dl[n].reqtls
                          \/ n = x[1] /\ dl'[n].relaxed = dl[n].relaxed \cup {x[2]} /\ g.pc = "send"
      BY <2>1, <2>4
    <2> QED
      BY <1>1, <2>1, <2>3, <2>5, <2>8, <2>9, SecureStep
  <1> QED
    BY <1>3, <1>4, connectionForDomainDoes DEF PoolInv

LEMMA TransactionSecure ==
    ASSUME PoolInv, PoolInv', SecureInv, NEW x \in Workers, Transaction(x)
    PROVE  SecureInv'
  <1>1. w[x].pc = "send" /\ "done" \in PCs
    BY DEF Transaction, PCs
  <1>2. w[x].c \in Conn
    BY <1>1 DEF PoolInv, Owned, Owns, Typed, Goroutine
  <1>3. PICK k, E : Touched(w[x].c, k) /\ ErrorsOnly(x[1], E) /\ w' = [w EXCEPT ![x].pc = "done"]
    BY <1>2, TransactionDoes DEF PoolInv
  <1> DEFINE g == [w[x] EXCEPT !.pc = "done"]
  <1>4. Moves(x, g) /\ g.pc = "done"
    BY <1>1, <1>3, AtPc DEF PoolInv
  <1> HIDE DEF g
  <1>5. Levels
    BY <1>2, <1>3, LevelsTouched DEF PoolInv
  <1> QED
    BY <1>3, <1>4, <1>5, SecureMove DEF ErrorsOnly

(* What CloseConn leaves of the connections.                               *)
LEMMA CloseConnDoes ==
    ASSUME PoolInv, NEW x \in Workers, CloseConn(x)
    PROVE  /\ \E g : Moves(x, g) /\ g.pc = "done" /\ w[x].pc = "done"
           /\ \A e \in Conn : \/ conn'[e] = NoConn
                              \/ SameLevel(conn'[e], conn[e]) /\ conn'[e].rcpts = conn[e].rcpts
  <1> DEFINE c == w[x].c
             d == x[2]
             n == conn[c].n + 1
             cs == [conn EXCEPT ![c].n = @ + 1]
             z == 0
             g == [w[x] EXCEPT !.c = z]
  <1>1. /\ w[x].pc \in {"none", "done"} /\ c # 0 /\ w' = [w EXCEPT ![x] = g] /\ d \in Domains
    BY WorkerParts DEF CloseConn, AllDone, PoolInv, Typed
  <1>2. c \in Conn /\ w[x].pc = "done" /\ w[x] \in Goroutine /\ conn \in [Conn -> Connection]
    BY <1>1 DEF PoolInv, Owned, Owns, Typed, Goroutine
  <1>3. z \in Conn \cup {0}
    OBVIOUS
  <1> HIDE DEF z
  <1>4. g \in Goroutine /\ g.pc = "done"
    BY <1>2, <1>3 DEF Goroutine
  <1> HIDE DEF g
  <1>5. cs = [conn EXCEPT ![c].n = n] /\ n \in Nat
    BY <1>2 DEF Connection
  <1> HIDE DEF n, cs, c
  <1>6. /\ cs \in [Conn -> Connection]
        /\ \A e \in Conn : SameLevel(cs[e], conn[e]) /\ cs[e].rcpts = conn[e].rcpts
    BY <1>2, <1>5 DEF Connection, SameLevel
  <1>7. \A k \in Chan : c \notin In(k)
    BY DEF PoolInv, OnePlace, c
  <1>8. conn' = Close(cs, {c}) \/ (~pool.closed /\ Return(d, c, cs))
    BY DEF CloseConn, Return, cs, c
  <1>9. ASSUME NEW e \in Conn PROVE conn'[e] = NoConn \/ conn'[e] = cs[e]
    <2>1. CASE conn' = Close(cs, {c})
      BY <1>6, <2>1, Closed
    <2>2. CASE ~pool.closed /\ Return(d, c, cs)
      <3>1. PICK to \in Chan, ks \in SUBSET Chan : ReturnedTo(d, c, cs, to, ks)
        BY <1>1, <1>2, <1>6, <1>7, <2>2, ReturnDoes
      <3> QED
        BY <3>1 DEF ReturnedTo
    <2> QED
      BY <1>8, <2>1, <2>2
  <1>10. \E h : Moves(x, h) /\ h.pc = "done" /\ w[x].pc = "done"
    BY <1>1, <1>2, <1>4 DEF Moves
  <1> QED
    BY <1>6, <1>9, <1>10

LEMMA CloseConnSecure ==
    ASSUME PoolInv, PoolInv', SecureInv, NEW x \in Workers, CloseConn(x)
    PROVE  SecureInv'
  <1>1. PICK g : Moves(x, g) /\ g.pc = "done"
    BY CloseConnDoes
  <1>2. Levels
    <2>1. NoConn.st = "none"
      BY DEF NoConn
    <2> QED
      BY <2>1, CloseConnDoes DEF Levels
  <1>3. UNCHANGED dl
    BY DEF CloseConn
  <1> QED
    BY <1>1, <1>2, <1>3, SecureMove

(* The goroutines do not move, or their delivery begins or ends.           *)
LEMMA SecureDelivery ==
    ASSUME PoolInv, PoolInv', SecureInv, Levels,
           \A x \in Workers : \/ w'[x] = w[x]
                              \/ w[x].pc = "none" /\ w'[x].pc \in {"http", "done"}
                              \/ dl'[x[1]].relaxed = {} /\ w'[x].pc = "none",
           \A n \in Msgs :
             \/ dl'[n].relaxed = dl[n].relaxed /\ dl'[n].reqtls = dl[n].reqtls /\ dl'[n].tlsa = dl[n].tlsa
             \/ /\ dl'[n].relaxed = {} /\ dl'[n].reqtls = (n \in ReqTLS)
                /\ \A x \in Workers : x[1] = n => w'[x].pc = "none"
    PROVE  SecureInv'
  <1>1. \A c \in Conn : Checked(conn[c])'
    BY LevelsKeep DEF Checked
  <1>2. ASSUME NEW x \in Workers PROVE CheckedMX(x)'
    <2>1. SUFFICES ASSUME w'[x].pc = "conn" PROVE CheckedMX(x)'
      BY DEF CheckedMX
    <2>2. w'[x] = w[x] /\ dl'[x[1]].tlsa = dl[x[1]].tlsa
      BY <2>1, WorkerParts
    <2> QED
      BY <2>2 DEF CheckedMX, SecureInv
  <1>3. ASSUME NEW n \in Msgs
        PROVE  /\ dl'[n].relaxed = {} => dl'[n].reqtls = (n \in ReqTLS)
               /\ \A d \in dl'[n].relaxed : <<n, d>> \in Workers => w'[<<n, d>>].pc \in {"send", "done"}
    <2>1. /\ dl[n].relaxed = {} => dl[n].reqtls = (n \in ReqTLS)
          /\ \A d \in dl[n].relaxed : <<n, d>> \in Workers => w[<<n, d>>].pc \in {"send", "done"}
      BY DEF SecureInv, Relaxed
    <2>2. ASSUME NEW d \in dl'[n].relaxed, <<n, d>> \in Workers
          PROVE  w'[<<n, d>>].pc \in {"send", "done"}
      <3> DEFINE x == <<n, d>>
      <3>1. x \in Workers /\ x[1] = n
        BY <2>2
      <3>2. d \in dl[n].relaxed
        BY <2>2
      <3>3. w[x].pc \in {"send", "done"}
        BY <2>1, <2>2, <3>2
      <3> HIDE DEF x
      <3>4. w'[x] = w[x]
        BY <2>2, <3>1, <3>3
      <3> QED
        BY <3>3, <3>4 DEF x
    <2> QED
      BY <2>1, <2>2
  <1>4. ASSUME NEW y \in Workers, w'[y].pc = "send"
        PROVE  /\ conn'[w'[y].c].st = "open"
               /\ y[1] \in ReqTLS /\ dl'[y[1]].relaxed \subseteq {y[2]}
                     => conn'[w'[y].c].tls = 2 /\ conn'[w'[y].c].mx >= 1
    <2>1. w'[y] = w[y] /\ dl'[y[1]].relaxed = dl[y[1]].relaxed
      BY <1>4, WorkerParts
    <2>2. w[y].c \in Conn /\ conn'[w[y].c].st # "none"
      BY <1>4, <2>1 DEF PoolInv, Owned, Owns, Typed, Goroutine
    <2>3. /\ conn[w[y].c].st = "open"
          /\ y[1] \in ReqTLS /\ dl[y[1]].relaxed \subseteq {y[2]}
                => conn[w[y].c].tls = 2 /\ conn[w[y].c].mx >= 1
      BY <1>4, <2>1 DEF SecureInv, Sending
    <2>4. SameLevel(conn'[w[y].c], conn[w[y].c])
      BY <2>2, <2>3 DEF Levels
    <2> QED
      BY <2>1, <2>3, <2>4 DEF SameLevel
  <1> QED
    BY <1>1, <1>2, <1>3, <1>4 DEF SecureInv, Relaxed, Sending

LEMMA DropsSecure ==
    ASSUME PoolInv, PoolInv', SecureInv, CleanUp \/ PoolClose
    PROVE  SecureInv'
  <1>1. UNCHANGED <<dl, w>>
    BY DEF CleanUp, PoolClose
  <1>2. \E ks : conn' = DropBuckets(ks, conn)
    BY DEF CleanUp, PoolClose
  <1>3. Levels
    BY <1>2, LevelsClosed DEF DropBuckets, PoolInv
  <1> QED
    BY <1>1, <1>3, SecureDelivery

LEMMA UpdatesSecure ==
    ASSUME PoolInv, PoolInv', SecureInv, NEW m \in Msgs, NEW s, NEW to, NEW E, Updates(m, s, to, E),
           UNCHANGED conn,
           UNCHANGED w \/ (dl[m].st = "rcpt" /\ \E p \in {"http", "done"} : Launched(m, p))
    PROVE  SecureInv'
  <1>1. \A n \in Msgs : /\ dl'[n].relaxed = dl[n].relaxed /\ dl'[n].reqtls = dl[n].reqtls
                        /\ dl'[n].tlsa = dl[n].tlsa
    BY DEF Updates
  <1>2. ASSUME NEW x \in Workers
        PROVE  w'[x] = w[x] \/ (w[x].pc = "none" /\ w'[x].pc \in {"http", "done"})
    <2>1. CASE UNCHANGED w
      BY <2>1
    <2>2. CASE dl[m].st = "rcpt" /\ \E p \in {"http", "done"} : Launched(m, p)
      BY <2>2 DEF Launched, PoolInv, Running
    <2> QED
      BY <2>1, <2>2
  <1> QED
    BY <1>1, <1>2, LevelsSame, SecureDelivery

LEMMA ForgetSecure ==
    ASSUME PoolInv, PoolInv', SecureInv, Idling, NEW m \in Msgs, Finish(m) \/ DownstreamClose(m)
    PROVE  SecureInv'
  <1>1. NoWork.pc = "none"
    BY DEF NoWork
  <1>2. \A x \in Workers : IF x[1] = m THEN w'[x].pc = "none" ELSE w'[x] = w[x]
    <2>1. CASE Finish(m)
      BY <1>1, <2>1, FinishDoes DEF PoolInv
    <2>2. CASE DownstreamClose(m)
      BY <1>1, <2>2 DEF DownstreamClose, Idling
    <2> QED
      BY <2>1, <2>2
  <1>3. /\ \A n \in Msgs \ {m} : dl'[n] = dl[n]
        /\ dl'[m].relaxed = {} /\ dl'[m].reqtls = (m \in ReqTLS)
    BY ForgetDoes DEF Finish, DownstreamClose, PoolInv
  <1>4. Levels
    BY LevelsSame DEF Finish, DownstreamClose
  <1>5. \A x \in Workers : w'[x] = w[x] \/ (dl'[x[1]].relaxed = {} /\ w'[x].pc = "none")
    BY <1>2, <1>3
  <1>6. \A n \in Msgs :
          \/ dl'[n].relaxed = dl[n].relaxed /\ dl'[n].reqtls = dl[n].reqtls /\ dl'[n].tlsa = dl[n].tlsa
          \/ /\ dl'[n].relaxed = {} /\ dl'[n].reqtls = (n \in ReqTLS)
             /\ \A x \in Workers : x[1] = n => w'[x].pc = "none"
    BY <1>2, <1>3
  <1> QED
    BY <1>4, <1>5, <1>6, SecureDelivery

LEMMA SecureInit == Init => SecureInv
  <1> SUFFICES ASSUME Init PROVE SecureInv
    OBVIOUS
  <1>1. NoConn.st = "none" /\ NoWork.pc = "none"
    BY DEF NoConn, NoWork
  <1>2. \A x \in Workers : w[x].pc = "none"
    BY <1>1 DEF Init
  <1>3. \A c \in Conn : Checked(conn[c])
    BY <1>1 DEF Init, Checked
  <1>4. \A m \in Msgs : dl[m].relaxed = {} /\ dl[m].reqtls = (m \in ReqTLS)
    BY DEF Init, NewDelivery
  <1> QED
    BY <1>2, <1>3, <1>4 DEF SecureInv, CheckedMX, Relaxed, Sending

LEMMA SecureNext ==
    ASSUME PoolInv, PoolInv', Idling, SecureInv, [Next]_vars
    PROVE  SecureInv'
  <1>1. CASE \E x \in Workers : WorkerStep(x)
    BY <1>1, tryHTTPSecure, GetSecure, GetDrainSecure, GetRecvSecure, newConnSecure, CheckMXSecure,
       attemptMXSecure, connectionForDomainSecure, TransactionSecure, CloseConnSecure DEF WorkerStep
  <1>2. ASSUME NEW m \in Msgs, Start(m) PROVE SecureInv'
    BY <1>2, StartDoes, UpdatesSecure DEF PoolInv, Start
  <1>3. ASSUME NEW m \in Msgs, BodyNonAtomic(m) PROVE SecureInv'
    BY <1>3, BodyNonAtomicDoes, UpdatesSecure DEF PoolInv, BodyNonAtomic
  <1>4. ASSUME NEW m \in Msgs, Quarantined(m) PROVE SecureInv'
    BY <1>4, QuarantinedDoes, UpdatesSecure DEF PoolInv, Quarantined
  <1>5. ASSUME NEW m \in Msgs, DownstreamStart(m) PROVE SecureInv'
    BY <1>5, DownstreamStartDoes, UpdatesSecure DEF PoolInv, DownstreamStart
  <1>6. ASSUME NEW m \in Msgs, NEW r \in To[m], AddRcpt(m, r) PROVE SecureInv'
    BY <1>6, AddRcptDoes, UpdatesSecure DEF PoolInv, AddRcpt
  <1>7. ASSUME NEW m \in Msgs, DownstreamBody(m) PROVE SecureInv'
    <2>1. PICK E : Updates(m, "body", dl[m].to, E)
      BY <1>7, DownstreamBodyDoes DEF PoolInv
    <2> QED
      BY <1>7, <2>1, UpdatesSecure DEF DownstreamBody
  <1>8. CASE Elapse \/ UNCHANGED vars
    <2>1. UNCHANGED <<dl, w, conn>>
      BY <1>8 DEF Elapse, vars
    <2> QED
      BY <2>1, LevelsSame, SecureDelivery
  <1> QED
    BY <1>1, <1>2, <1>3, <1>4, <1>5, <1>6, <1>7, <1>8, ForgetSecure, DropsSecure DEF Next

(* What the policies of a delivery checked, in every state: open           *)
(* connections, MXs about to be connected to, and messages being sent.     *)
THEOREM SecureInvariant == Spec => []SecureInv
  <1>1. SecureInv /\ PoolInv /\ Idling /\ PoolInv' /\ [Next]_vars => SecureInv'
    BY SecureNext
  <1> QED
    BY <1>1, SecureInit, PoolInvariant, PTL DEF Spec

(* A message goes out over a connection as secure as its domain, the local *)
(* policy and its sender ask, though the goroutines of a delivery share    *)
(* the policy objects and pooled connections were opened for others.       *)
THEOREM SecurityKeptTheorem == Spec => []SecurityKept
  <1>1. PoolInv /\ SecureInv => SecurityKept
    <2> SUFFICES ASSUME PoolInv, SecureInv, NEW x \in Workers, w[x].pc = "send"
                 PROVE  LET m == x[1]
                            d == x[2]
                            k == conn[w[x].c]
                        IN /\ m \in ReqTLS /\ dl[m].relaxed \ {d} = {} => k.tls = 2 /\ k.mx >= 1
                           /\ k.by \notin Override /\ ~k.cached =>
                                /\ k.tls >= MinTLS /\ k.mx >= MinMX
                                /\ k.sts = {d} /\ Mode[d] = "enforce" => k.tls = 2 /\ k.mx >= 1
                                /\ Cardinality({y \in Workers : y[1] = k.by}) = 1 /\ d \in Dane => k.tls >= 1
      BY DEF SecurityKept
    <2>1. w[x].c \in Conn /\ conn[w[x].c].dom = x[2]
      BY DEF PoolInv, Owned, Owns, Typed, Goroutine
    <2>2. /\ conn[w[x].c].st = "open"
          /\ x[1] \in ReqTLS /\ dl[x[1]].relaxed \subseteq {x[2]}
                => conn[w[x].c].tls = 2 /\ conn[w[x].c].mx >= 1
      BY DEF SecureInv, Sending
    <2>3. Checked(conn[w[x].c])
      BY <2>1 DEF SecureInv
    <2> QED
      BY <2>1, <2>2, <2>3 DEF Checked, Alone
  <1> QED
    BY <1>1, PoolInvariant, SecureInvariant, PTL

-----------------------------------------------------------------------------
(* StatusInv.                                                              *)

LEMMA GotDoes ==
    ASSUME NEW p, IsPeer(p), NEW m \in Msgs, NEW rs
    PROVE  LET q == Got(p, m, rs) IN
           /\ IsPeer(q) /\ q.lost = p.lost /\ q.ok = p.ok
           /\ \A n \in Msgs \ {m} : q.got[n] = p.got[n]
           /\ \A r \in To[m] : q.got[m][r] = IF r \in rs THEN p.got[m][r] + 1 ELSE p.got[m][r]
  <1> DEFINE old == p.got[m]
             f == [r \in To[m] |-> IF r \in rs THEN old[r] + 1 ELSE old[r]]
             got == [p.got EXCEPT ![m] = f]
             q == Got(p, m, rs)
  <1>1. old \in [To[m] -> Nat] /\ DOMAIN p.got = Msgs
    BY DEF IsPeer
  <1> HIDE DEF old
  <1>2. f \in [To[m] -> Nat] /\ \A r \in To[m] : f[r] = IF r \in rs THEN old[r] + 1 ELSE old[r]
    BY <1>1
  <1>3. q = [p EXCEPT !.got[m] = f]
    BY DEF Got, old
  <1> HIDE DEF f, q
  <1>4. q = [p EXCEPT !.got = got]
    BY <1>3
  <1>5. got[m] = f /\ (\A n \in Msgs \ {m} : got[n] = p.got[n]) /\ got = [n \in Msgs |-> got[n]]
    BY <1>1 DEF IsPeer
  <1> HIDE DEF got
  <1>6. q = [got |-> got, lost |-> p.lost, ok |-> p.ok]
    <2>1. p = [got |-> p.got, lost |-> p.lost, ok |-> p.ok]
      BY DEF IsPeer
    <2> QED
      BY <1>4, <2>1
  <1>7. q.got = got /\ q.lost = p.lost /\ q.ok = p.ok
    BY <1>6
  <1>8. \A n \in Msgs : got[n] \in [To[n] -> Nat]
    BY <1>2, <1>5 DEF IsPeer
  <1>9. IsPeer(q)
    BY <1>5, <1>6, <1>7, <1>8 DEF IsPeer
  <1> QED
    BY <1>2, <1>5, <1>7, <1>9 DEF q, old

LEMMA LostDoes ==
    ASSUME NEW p, IsPeer(p), NEW m, NEW rs
    PROVE  LET q == Lost(p, m, rs) IN
           /\ IsPeer(q) /\ q.got = p.got /\ q.ok = p.ok
           /\ \A n, r : <<n, r>> \in q.lost <=> <<n, r>> \in p.lost \/ (n = m /\ r \in rs)
  <1> DEFINE l == p.lost \cup {<<m, r>> : r \in rs}
             q == Lost(p, m, rs)
  <1>1. \A n, r : <<n, r>> \in l <=> <<n, r>> \in p.lost \/ (n = m /\ r \in rs)
    OBVIOUS
  <1>2. q = [p EXCEPT !.lost = l]
    BY DEF Lost
  <1> HIDE DEF l, q
  <1>3. p = [got |-> p.got, lost |-> p.lost, ok |-> p.ok]
    BY DEF IsPeer
  <1>4. q = [got |-> p.got, lost |-> l, ok |-> p.ok]
    BY <1>2, <1>3
  <1>5. q.got = p.got /\ q.lost = l /\ q.ok = p.ok
    BY <1>4
  <1>6. IsPeer(q)
    BY <1>4, <1>5 DEF IsPeer
  <1> QED
    BY <1>1, <1>5, <1>6 DEF q

(* One POST: what it means for a recipient r of the message n.             *)
PostedFor(a, p, m, rs, n, r) ==
    /\ ~(n = m /\ r \in rs) => /\ a.peer.got[n][r] = p.got[n][r]
                               /\ (<<n, r>> \in a.peer.lost <=> <<n, r>> \in p.lost)
                               /\ (<<n, r>> \in a.peer.ok <=> <<n, r>> \in p.ok)
    /\ n = m /\ r \in rs =>
         /\ a.peer.got[n][r] \in {p.got[n][r], p.got[n][r] + 1}
         /\ <<n, r>> \in p.lost => <<n, r>> \in a.peer.lost
         /\ a.ok => <<n, r>> \in a.peer.ok
         /\ ~a.ok /\ a.peer.got[n][r] # p.got[n][r] => <<n, r>> \in a.peer.lost

LEMMA doHTTPRequestDoes ==
    ASSUME NEW p, IsPeer(p), NEW m \in Msgs, NEW rs \in SUBSET To[m], NEW a \in doHTTPRequest(m, rs, p)
    PROVE  /\ IsPeer(a.peer) /\ a.ok \in BOOLEAN
           /\ \A n \in Msgs : \A r \in To[n] : PostedFor(a, p, m, rs, n, r)
  <1>1. ASSUME NEW acc \in SUBSET rs, a = [ok |-> TRUE, lost |-> 0, peer |->
                       [Got(p, m, acc) EXCEPT !.ok = @ \cup {<<m, r>> : r \in rs}]]
        PROVE  /\ IsPeer(a.peer) /\ a.ok \in BOOLEAN
               /\ \A n \in Msgs : \A r \in To[n] : PostedFor(a, p, m, rs, n, r)
    <2> DEFINE q == Got(p, m, acc)
               k == q.ok \cup {<<m, r>> : r \in rs}
    <2>1. /\ IsPeer(q) /\ q.lost = p.lost /\ q.ok = p.ok
          /\ \A n \in Msgs \ {m} : q.got[n] = p.got[n]
          /\ \A r \in To[m] : q.got[m][r] = IF r \in acc THEN p.got[m][r] + 1 ELSE p.got[m][r]
      BY GotDoes
    <2>2. \A n, r : <<n, r>> \in k <=> <<n, r>> \in q.ok \/ (n = m /\ r \in rs)
      OBVIOUS
    <2> HIDE DEF q, k
    <2>3. a.peer = [q EXCEPT !.ok = k] /\ a.ok = TRUE
      BY <1>1 DEF q, k
    <2>4. a.peer = [got |-> q.got, lost |-> q.lost, ok |-> k]
      BY <2>1, <2>3 DEF IsPeer
    <2>5. a.peer.got = q.got /\ a.peer.lost = q.lost /\ a.peer.ok = k
      BY <2>4
    <2>6. IsPeer(a.peer)
      BY <2>1, <2>4, <2>5 DEF IsPeer
    <2>7. ASSUME NEW n \in Msgs, NEW r \in To[n] PROVE PostedFor(a, p, m, rs, n, r)
      <3>1. CASE n = m
        BY <2>1, <2>2, <2>3, <2>5, <3>1 DEF PostedFor
      <3>2. CASE n # m
        BY <2>1, <2>2, <2>3, <2>5, <3>2 DEF PostedFor
      <3> QED
        BY <3>1, <3>2
    <2> QED
      BY <2>3, <2>6, <2>7
  <1>2. CASE a = [ok |-> FALSE, lost |-> 0, peer |-> [Got(p, m, {}) EXCEPT !.ok = @]]
    <2> DEFINE q == Got(p, m, {})
    <2>1. /\ IsPeer(q) /\ q.lost = p.lost /\ q.ok = p.ok
          /\ \A n \in Msgs \ {m} : q.got[n] = p.got[n]
          /\ \A r \in To[m] : q.got[m][r] = p.got[m][r]
      BY GotDoes
    <2> HIDE DEF q
    <2>2. a.peer = [q EXCEPT !.ok = q.ok] /\ a.ok = FALSE
      BY <1>2 DEF q
    <2>3. a.peer = q
      BY <2>1, <2>2 DEF IsPeer
    <2>4. ASSUME NEW n \in Msgs, NEW r \in To[n] PROVE PostedFor(a, p, m, rs, n, r)
      BY <2>1, <2>2, <2>3 DEF PostedFor
    <2> QED
      BY <2>1, <2>2, <2>3, <2>4
  <1>3. ASSUME NEW acc \in SUBSET rs, a = [ok |-> FALSE, lost |-> 1, peer |-> Lost(Got(p, m, acc), m, acc)]
        PROVE  /\ IsPeer(a.peer) /\ a.ok \in BOOLEAN
               /\ \A n \in Msgs : \A r \in To[n] : PostedFor(a, p, m, rs, n, r)
    <2> DEFINE q == Got(p, m, acc)
               l == Lost(q, m, acc)
    <2>1. /\ IsPeer(q) /\ q.lost = p.lost /\ q.ok = p.ok
          /\ \A n \in Msgs \ {m} : q.got[n] = p.got[n]
          /\ \A r \in To[m] : q.got[m][r] = IF r \in acc THEN p.got[m][r] + 1 ELSE p.got[m][r]
      BY GotDoes
    <2> HIDE DEF q
    <2>2. /\ IsPeer(l) /\ l.got = q.got /\ l.ok = q.ok
          /\ \A n, r : <<n, r>> \in l.lost <=> <<n, r>> \in q.lost \/ (n = m /\ r \in acc)
      BY <2>1, LostDoes
    <2> HIDE DEF l
    <2>3. a.peer = l /\ a.ok = FALSE
      BY <1>3 DEF q, l
    <2>4. ASSUME NEW n \in Msgs, NEW r \in To[n] PROVE PostedFor(a, p, m, rs, n, r)
      <3>1. CASE n = m
        BY <2>1, <2>2, <2>3, <3>1 DEF PostedFor
      <3>2. CASE n # m
        BY <2>1, <2>2, <2>3, <3>2 DEF PostedFor
      <3> QED
        BY <3>1, <3>2
    <2> QED
      BY <2>2, <2>3, <2>4
  <1>4. \/ \E acc \in SUBSET rs : a = [ok |-> TRUE, lost |-> 0, peer |->
                       [Got(p, m, acc) EXCEPT !.ok = @ \cup {<<m, r>> : r \in rs}]]
        \/ a = [ok |-> FALSE, lost |-> 0, peer |-> [Got(p, m, {}) EXCEPT !.ok = @]]
        \/ \E acc \in SUBSET rs : a = [ok |-> FALSE, lost |-> 1, peer |-> Lost(Got(p, m, acc), m, acc)]
    <2>1. CASE \E acc \in (SUBSET rs) \ {{}} :
                  a = [ok |-> FALSE, lost |-> 1, peer |-> Lost(Got(p, m, acc), m, acc)]
      BY <2>1
    <2>2. ASSUME NEW h \in handleReceiveEmail(rs),
                 a = [ok |-> h.code = 200, lost |-> 0, peer |->
                        [Got(p, m, h.acc) EXCEPT !.ok = IF h.code = 200 THEN @ \cup {<<m, r>> : r \in rs} ELSE @]]
          PROVE  \/ \E acc \in SUBSET rs : a = [ok |-> TRUE, lost |-> 0, peer |->
                       [Got(p, m, acc) EXCEPT !.ok = @ \cup {<<m, r>> : r \in rs}]]
                 \/ a = [ok |-> FALSE, lost |-> 0, peer |-> [Got(p, m, {}) EXCEPT !.ok = @]]
      <3>1. CASE \E acc \in (SUBSET rs) \ {{}} : h = [code |-> 200, acc |-> acc]
        <4>1. h.code = 200 /\ h.acc \in SUBSET rs
          BY <3>1
        <4>2. (h.code = 200) = TRUE
          BY <4>1
        <4> QED
          BY <2>2, <4>1, <4>2
      <3>2. CASE h = [code |-> 500, acc |-> {}]
        <4>1. h.code = 500 /\ h.acc = {} /\ h.code # 200
          BY <3>2
        <4>2. (h.code = 200) = FALSE
          BY <4>1
        <4> QED
          BY <2>2, <4>1, <4>2
      <3> QED
        BY <3>1, <3>2 DEF handleReceiveEmail
    <2> QED
      BY <2>1, <2>2 DEF doHTTPRequest
  <1> QED
    BY <1>1, <1>2, <1>3, <1>4

(* What is known of r, of the message m, stays.                            *)
SameStatus(m, r) ==
    /\ peer'.got[m][r] = peer.got[m][r]
    /\ r \in dl'[m].errs <=> r \in dl[m].errs
    /\ <<m, r>> \in peer'.lost <=> <<m, r>> \in peer.lost
    /\ <<m, r>> \in peer'.ok <=> <<m, r>> \in peer.ok

LEMMA Kept ==
    ASSUME NEW m, NEW r, SameStatus(m, r)
    PROVE  /\ (peer'.got[m][r] = 0 /\ r \notin dl'[m].errs) <=> Fresh(m, r)
           /\ (peer'.got[m][r] >= 1 => <<m, r>> \in peer'.lost) <=> Explained(m, r)
           /\ Honest(m, r)' <=> Honest(m, r)
  BY DEF SameStatus, Fresh, Explained, Honest, Count

(* The recipients of a goroutine.                                          *)
LEMMA RcptWorker ==
    ASSUME NEW m \in Msgs, NEW r \in To[m]
    PROVE  /\ <<m, DomainOf[r]>> \in Workers /\ r \in Rcpts /\ DomainOf[r] \in Domains
           /\ \A x \in Workers : x = <<m, DomainOf[r]>> <=> (x[1] = m /\ r \in RcptsAt(x[1], x[2]))
  <1>1. r \in Rcpts /\ DomainOf[r] \in Domains
    BY ToAssumption
  <1>2. <<m, DomainOf[r]>> \in Workers
    BY <1>1 DEF Workers
  <1>3. ASSUME NEW x \in Workers
        PROVE  x = <<m, DomainOf[r]>> <=> (x[1] = m /\ r \in RcptsAt(x[1], x[2]))
    <2>1. x = <<x[1], x[2]>>
      BY WorkerParts
    <2> QED
      BY <2>1 DEF RcptsAt
  <1> QED
    BY <1>1, <1>2, <1>3

LEMMA NotMine ==
    ASSUME NEW x \in Workers, NEW m, NEW r, <<m, DomainOf[r]>> # x
    PROVE  ~(m = x[1] /\ r \in RcptsAt(x[1], x[2]))
  <1>1. x = <<x[1], x[2]>>
    BY WorkerParts
  <1>2. ASSUME m = x[1], r \in RcptsAt(x[1], x[2]) PROVE FALSE
    <2>1. DomainOf[r] = x[2]
      BY <1>2 DEF RcptsAt
    <2> QED
      BY <1>1, <1>2, <2>1
  <1> QED
    BY <1>2

(* A step of the goroutine x: what is known of its own recipients.         *)
LEMMA StatusStep ==
    ASSUME PoolInv, StatusInv, kind = "remote", kind' = kind, NEW x \in Workers, NEW g, Moves(x, g),
           IsPeer(peer'), NamesOfDomain', \A m \in Msgs : dl'[m].st = dl[m].st,
           g.pc \notin {"none", "http"},
           \A m \in Msgs : \A r \in To[m] : <<m, DomainOf[r]>> # x => SameStatus(m, r),
           \A r \in RcptsAt(x[1], x[2]) :
               /\ g.pc # "done" => r \notin dl'[x[1]].errs /\ Explained(x[1], r)'
               /\ g.pc = "done" => Honest(x[1], r)'
    PROVE  StatusInv'
  <1>1. w' \in [Workers -> Goroutine] /\ w'[x] = g /\ \A y \in Workers \ {x} : w'[y] = w[y]
    BY Moved DEF PoolInv
  <1>2. \A y \in Workers : w'[y].pc = "none" => dl'[y[1]].st # "body"
    BY <1>1, WorkerParts DEF StatusInv
  <1>3. ASSUME NEW m \in Msgs, NEW r \in To[m] PROVE Reported(m, r)'
    <2> DEFINE y == <<m, DomainOf[r]>>
    <2>1. y \in Workers /\ (x = y => x[1] = m /\ r \in RcptsAt(x[1], x[2]))
      BY RcptWorker
    <2>2. Reported(m, r)
      BY DEF StatusInv
    <2>3. CASE x = y
      <3>1. w'[<<m, DomainOf[r]>>] = g
        BY <1>1, <2>3
      <3>2. /\ g.pc # "done" => r \notin dl'[m].errs /\ Explained(m, r)'
            /\ g.pc = "done" => Honest(m, r)'
        BY <2>1, <2>3
      <3> QED
        BY <3>1, <3>2 DEF Reported
    <2>4. CASE x # y
      <3>1. w'[<<m, DomainOf[r]>>] = w[<<m, DomainOf[r]>>] /\ SameStatus(m, r)
        BY <1>1, <2>1, <2>4
      <3> QED
        BY <2>2, <3>1, Kept DEF Reported, Fresh, Explained, Count, SameStatus
    <2> QED
      BY <2>3, <2>4
  <1> QED
    BY <1>2, <1>3 DEF StatusInv

(* The names of a connection stay, or it has none.                         *)
NamesKept ==
    \A c \in Conn : \/ conn'[c].rcpts = {}
                    \/ conn'[c].rcpts = conn[c].rcpts /\ conn'[c].dom = conn[c].dom

LEMMA NamesStay ==
    ASSUME StatusInv, NamesKept
    PROVE  NamesOfDomain'
  BY DEF NamesKept, NamesOfDomain, StatusInv

LEMMA NamesClosed ==
    ASSUME Typed, NEW ids, conn' = Close(conn, ids)
    PROVE  NamesKept
  <1>1. \A c \in Conn : conn'[c] = NoConn \/ conn'[c] = conn[c]
    BY Closed DEF Typed
  <1>2. NoConn.rcpts = {}
    BY DEF NoConn
  <1> QED
    BY <1>1, <1>2 DEF NamesKept

LEMMA NamesNew ==
    ASSUME Typed, NEW c \in Conn, NEW k, conn' = [conn EXCEPT ![c] = k], k.rcpts = {}
    PROVE  NamesKept
  BY DEF Typed, NamesKept

LEMMA NamesSame ==
    ASSUME conn' = conn
    PROVE  NamesKept
  BY DEF NamesKept

(* A step on the way, or after the end: nothing is known that was not.     *)
LEMMA StatusQuiet ==
    ASSUME PoolInv, StatusInv, kind = "remote", kind' = kind, NEW x \in Workers, NEW g, Moves(x, g),
           NamesKept, \A m \in Msgs : dl'[m].st = dl[m].st /\ dl'[m].errs = dl[m].errs, peer' = peer,
           w[x].pc \notin {"none", "http"}, g.pc \notin {"none", "http"}, w[x].pc = "done" <=> g.pc = "done"
    PROVE  StatusInv'
  <1>1. IsPeer(peer') /\ NamesOfDomain'
    BY NamesStay DEF StatusInv
  <1>2. ASSUME NEW m \in Msgs, NEW r PROVE SameStatus(m, r)
    BY DEF SameStatus
  <1>3. ASSUME NEW r \in RcptsAt(x[1], x[2])
        PROVE  /\ g.pc # "done" => r \notin dl'[x[1]].errs /\ Explained(x[1], r)'
               /\ g.pc = "done" => Honest(x[1], r)'
    <2>1. x[1] \in Msgs /\ r \in To[x[1]] /\ x = <<x[1], DomainOf[r]>>
      BY WorkerParts DEF RcptsAt
    <2>2. Reported(x[1], r)
      BY <2>1 DEF StatusInv
    <2>3. /\ w[x].pc # "done" => r \notin dl[x[1]].errs /\ Explained(x[1], r)
          /\ w[x].pc = "done" => Honest(x[1], r)
      BY <2>1, <2>2 DEF Reported
    <2> QED
      BY <1>2, <2>1, <2>3 DEF Explained, Honest, Count, SameStatus
  <1> QED
    BY <1>1, <1>2, <1>3, StatusStep

(* The goroutine ends with an error for its recipients.                    *)
LEMMA StatusFails ==
    ASSUME PoolInv, StatusInv, kind = "remote", kind' = kind, NEW x \in Workers, NEW g, Moves(x, g),
           NamesKept, \A m \in Msgs : dl'[m].st = dl[m].st, peer' = peer,
           \A m \in Msgs : dl'[m].errs = IF m = x[1] THEN dl[x[1]].errs \cup RcptsAt(x[1], x[2])
                                         ELSE dl[m].errs,
           w[x].pc \notin {"none", "http", "done"}, g.pc = "done"
    PROVE  StatusInv'
  <1>1. IsPeer(peer') /\ NamesOfDomain'
    BY NamesStay DEF StatusInv
  <1>2. ASSUME NEW m \in Msgs, NEW r \in To[m], <<m, DomainOf[r]>> # x PROVE SameStatus(m, r)
    <2>1. ~(m = x[1] /\ r \in RcptsAt(x[1], x[2]))
      BY <1>2, NotMine
    <2>3. r \in dl'[m].errs <=> r \in dl[m].errs
      BY <2>1
    <2> QED
      BY <2>3 DEF SameStatus
  <1>3. ASSUME NEW r \in RcptsAt(x[1], x[2]) PROVE Honest(x[1], r)'
    <2>1. x[1] \in Msgs /\ r \in To[x[1]] /\ x = <<x[1], DomainOf[r]>>
      BY WorkerParts DEF RcptsAt
    <2>2. Reported(x[1], r)
      BY <2>1 DEF StatusInv
    <2>3. Explained(x[1], r) /\ r \in dl'[x[1]].errs
      BY <2>1, <2>2 DEF Reported
    <2>4. peer.got[x[1]][r] \in Nat
      BY <2>1 DEF StatusInv, IsPeer
    <2> QED
      BY <2>3, <2>4 DEF Explained, Honest, Count
  <1> QED
    BY <1>1, <1>2, <1>3, StatusStep

LEMMA tryHTTPStatus ==
    ASSUME PoolInv, StatusInv, kind = "remote", NEW x \in Workers, tryHTTP(x)
    PROVE  StatusInv'
  <1> DEFINE m == x[1]
             rs == RcptsAt(m, x[2])
  <1>1. w[x].pc = "http" /\ UNCHANGED <<kind, dl, conn>> /\ m \in Msgs /\ rs \in SUBSET To[m]
    BY WorkerParts DEF tryHTTP, RcptsAt
  <1>2. PICK a \in doHTTPRequest(m, rs, peer) :
            \E b \in IF a.ok THEN {a} ELSE doHTTPRequest(m, rs, a.peer) :
                peer' = b.peer /\ w' = [w EXCEPT ![x].pc = IF b.ok THEN "done" ELSE "get"]
    BY DEF tryHTTP
  <1>3. PICK b \in IF a.ok THEN {a} ELSE doHTTPRequest(m, rs, a.peer) :
                peer' = b.peer /\ w' = [w EXCEPT ![x].pc = IF b.ok THEN "done" ELSE "get"]
    BY <1>2
  <1>4. IsPeer(a.peer) /\ a.ok \in BOOLEAN /\ \A n \in Msgs : \A r \in To[n] : PostedFor(a, peer, m, rs, n, r)
    BY <1>1, doHTTPRequestDoes DEF StatusInv
  <1>5. /\ IsPeer(b.peer) /\ b.ok \in BOOLEAN
        /\ \/ a.ok /\ b = a
           \/ ~a.ok /\ \A n \in Msgs : \A r \in To[n] : PostedFor(b, a.peer, m, rs, n, r)
    BY <1>1, <1>3, <1>4, doHTTPRequestDoes
  <1> DEFINE p == IF b.ok THEN "done" ELSE "get"
             g == [w[x] EXCEPT !.pc = p]
  <1>6. p \in PCs /\ p \in {"done", "get"} /\ (p = "done" <=> b.ok)
    BY <1>5 DEF PCs
  <1>7. w' = [w EXCEPT ![x].pc = p]
    BY <1>3
  <1> HIDE DEF p
  <1>8. Moves(x, g) /\ g.pc = p
    BY <1>6, <1>7, AtPc DEF PoolInv
  <1> HIDE DEF g
  <1>9. IsPeer(peer') /\ NamesOfDomain'
    BY <1>1, <1>3, <1>5, NamesSame, NamesStay
  <1>10. ASSUME NEW n \in Msgs, NEW r \in To[n], <<n, DomainOf[r]>> # x PROVE SameStatus(n, r)
    <2>1. ~(n = m /\ r \in rs)
      BY <1>10, NotMine
    <2>2. PostedFor(a, peer, m, rs, n, r) /\ (b = a \/ PostedFor(b, a.peer, m, rs, n, r))
      BY <1>4, <1>5
    <2>3. r \in dl'[n].errs <=> r \in dl[n].errs
      BY <1>1
    <2>4. peer' = b.peer
      BY <1>3
    <2> HIDE DEF rs, m
    <2> QED
      BY <2>1, <2>2, <2>3, <2>4 DEF PostedFor, SameStatus
  <1>11. ASSUME NEW r \in rs
         PROVE  /\ g.pc # "done" => r \notin dl'[m].errs /\ Explained(m, r)'
                /\ g.pc = "done" => Honest(m, r)'
    <2>1. r \in To[m] /\ x = <<m, DomainOf[r]>>
      BY WorkerParts DEF RcptsAt
    <2>2. Fresh(m, r)
      BY <1>1, <2>1 DEF StatusInv, Reported
    <2>3. peer.got[m][r] = 0 /\ r \notin dl'[m].errs
      BY <1>1, <2>2 DEF Fresh, Count
    <2>4. PostedFor(a, peer, m, rs, m, r)
      BY <1>1, <1>4, <2>1
    <2>5. b = a \/ (~a.ok /\ PostedFor(b, a.peer, m, rs, m, r))
      BY <1>1, <1>5, <2>1
    <2>6. peer' = b.peer /\ b.peer.got[m][r] \in Nat
      BY <1>1, <1>3, <1>5, <2>1 DEF IsPeer
    <2>7. b.ok => <<m, r>> \in b.peer.ok
      BY <2>4, <2>5 DEF PostedFor
    <2>8. ~b.ok /\ b.peer.got[m][r] >= 1 => <<m, r>> \in b.peer.lost
      BY <2>3, <2>4, <2>5, SMTT(30) DEF PostedFor
    <2>9. b.peer.got[m][r] >= 2 => <<m, r>> \in b.peer.lost
      BY <2>3, <2>4, <2>5, SMTT(30) DEF PostedFor
    <2>10. g.pc = "done" <=> b.ok
      BY <1>6, <1>8
    <2> HIDE DEF rs, m
    <2>11. ~b.ok => Explained(m, r)'
      BY <2>6, <2>8 DEF Explained, Count
    <2>12. b.ok => Honest(m, r)'
      BY <2>3, <2>6, <2>7, <2>9 DEF Honest, Count
    <2> QED
      BY <2>3, <2>10, <2>11, <2>12
  <1>12. g.pc \notin {"none", "http"} /\ \A n \in Msgs : dl'[n].st = dl[n].st
    BY <1>1, <1>6, <1>8
  <1>13. \A r \in RcptsAt(x[1], x[2]) :
               /\ g.pc # "done" => r \notin dl'[x[1]].errs /\ Explained(x[1], r)'
               /\ g.pc = "done" => Honest(x[1], r)'
    BY <1>11
  <1> QED
    BY <1>1, <1>8, <1>9, <1>10, <1>12, <1>13, StatusStep

LEMMA GetStatus ==
    ASSUME PoolInv, StatusInv, kind = "remote", NEW x \in Workers, Get(x) \/ GetDrain(x) \/ GetRecv(x)
    PROVE  StatusInv'
  <1>1. /\ UNCHANGED <<kind, dl, peer>> /\ w[x].pc \in {"get", "drain", "recv"}
        /\ \A m \in Msgs : dl'[m].st = dl[m].st /\ dl'[m].errs = dl[m].errs
    BY DEF Get, GetDrain, GetRecv
  <1>2. NamesKept
    <2>1. UNCHANGED conn \/ \E c : conn' = Close(conn, {c})
      BY GetDrainMoves, GetRecvMoves DEF Get
    <2> QED
      BY <2>1, NamesSame, NamesClosed DEF PoolInv
  <1>3. PICK g : Moves(x, g) /\ g.pc \in {"prep", "drain", "recv", "mail"}
    BY GetMoves, GetDrainMoves, GetRecvMoves
  <1> QED
    BY <1>1, <1>2, <1>3, StatusQuiet

LEMMA newConnStatus ==
    ASSUME PoolInv, StatusInv, kind = "remote", NEW x \in Workers, newConn(x)
    PROVE  StatusInv'
  <1>1. UNCHANGED <<kind, conn, peer>> /\ w[x].pc = "prep" /\ NamesKept
    BY NamesSame DEF newConn
  <1>2. PICK g : /\ Moves(x, g)
                 /\ \/ /\ g.pc = "done"
                       /\ KeepsPolicies(x[1], dl[x[1]].errs \cup RcptsAt(x[1], x[2]))
                    \/ g.pc = "mx" /\ KeepsPolicies(x[1], dl[x[1]].errs)
    BY newConnDoes DEF PoolInv
  <1>3. CASE g.pc = "done" /\ KeepsPolicies(x[1], dl[x[1]].errs \cup RcptsAt(x[1], x[2]))
    <2>1. \A m \in Msgs : dl'[m].st = dl[m].st
      BY <1>3 DEF KeepsPolicies
    <2>2. \A m \in Msgs : dl'[m].errs = IF m = x[1] THEN dl[x[1]].errs \cup RcptsAt(x[1], x[2])
                                        ELSE dl[m].errs
      BY <1>3 DEF KeepsPolicies
    <2> QED
      BY <1>1, <1>2, <1>3, <2>1, <2>2, StatusFails
  <1>4. CASE g.pc = "mx" /\ KeepsPolicies(x[1], dl[x[1]].errs)
    <2>1. \A m \in Msgs : dl'[m].st = dl[m].st /\ dl'[m].errs = dl[m].errs
      BY <1>4 DEF KeepsPolicies
    <2> QED
      BY <1>1, <1>2, <1>4, <2>1, StatusQuiet
  <1> QED
    BY <1>2, <1>3, <1>4

(* An end with errors, as GivesUp leaves them.                             *)
LEMMA GivesUpStatus ==
    ASSUME PoolInv, StatusInv, kind = "remote", kind' = kind, peer' = peer, NEW x \in Workers, NamesKept,
           w[x].pc \notin {"none", "http", "done"}, Moves(x, [NoWork EXCEPT !.pc = "done"]),
           ErrorsOnly(x[1], dl[x[1]].errs \cup RcptsAt(x[1], x[2]))
    PROVE  StatusInv'
  <1> DEFINE g == [NoWork EXCEPT !.pc = "done"]
  <1>1. Moves(x, g) /\ g.pc = "done"
    BY Ended
  <1> HIDE DEF g
  <1>2. \A m \in Msgs : dl'[m].st = dl[m].st
    BY DEF ErrorsOnly
  <1>3. \A m \in Msgs : dl'[m].errs = IF m = x[1] THEN dl[x[1]].errs \cup RcptsAt(x[1], x[2])
                                      ELSE dl[m].errs
    BY DEF ErrorsOnly
  <1> QED
    BY <1>1, <1>2, <1>3, StatusFails

LEMMA NextMXStatus ==
    ASSUME PoolInv, StatusInv, kind = "remote", kind' = kind, peer' = peer, NEW x \in Workers,
           NEW dead \in BOOLEAN, NextMX(x, dead), w[x].pc \in {"mx", "conn"}
    PROVE  StatusInv'
  <1>1. CASE /\ \E g : Moves(x, g) /\ g.pc = "mx" /\ g.c = w[x].c /\ g.ch = w[x].ch
             /\ UNCHANGED <<dl, conn>>
    <2>1. PICK g : Moves(x, g) /\ g.pc = "mx"
      BY <1>1
    <2> QED
      BY <1>1, <2>1, NamesSame, StatusQuiet
  <1>2. CASE /\ Moves(x, [NoWork EXCEPT !.pc = "done"]) /\ UNCHANGED conn
             /\ ErrorsOnly(x[1], dl[x[1]].errs \cup RcptsAt(x[1], x[2]))
    <2>1. NamesKept /\ w[x].pc \notin {"none", "http", "done"}
      BY <1>2, NamesSame
    <2> QED
      BY <1>2, <2>1, GivesUpStatus
  <1>3. ASSUME NEW c \in Conn, Moves(x, [NoWork EXCEPT !.pc = "mail", !.c = c]), UNCHANGED dl,
               conn' = [conn EXCEPT ![c] = [NoConn EXCEPT !.st = "dead", !.dom = x[2], !.by = x[1]]]
        PROVE  StatusInv'
    <2> DEFINE k == [NoConn EXCEPT !.st = "dead", !.dom = x[2], !.by = x[1]]
               g == [NoWork EXCEPT !.pc = "mail", !.c = c]
    <2>1. k.rcpts = {} /\ Moves(x, g) /\ g.pc = "mail" /\ conn' = [conn EXCEPT ![c] = k]
      BY <1>3, NewDead, Connected DEF PoolInv
    <2> HIDE DEF k, g
    <2>2. NamesKept
      BY <2>1, NamesNew DEF PoolInv
    <2> QED
      BY <1>3, <2>1, <2>2, StatusQuiet
  <1> QED
    BY <1>1, <1>2, <1>3, NextMXDoes DEF PoolInv

LEMMA CheckMXStatus ==
    ASSUME PoolInv, StatusInv, kind = "remote", NEW x \in Workers, CheckMX(x)
    PROVE  StatusInv'
  <1>1. UNCHANGED <<kind, peer>> /\ w[x].pc = "mx" /\ x[1] \in Msgs /\ x[2] \in Names
    BY WorkerParts DEF CheckMX, Names
  <1>2. CASE NextMX(x, w[x].dead) /\ w[x].dead \in BOOLEAN
    BY <1>1, <1>2, NextMXStatus
  <1>3. ASSUME NEW g, Moves(x, g), g.pc = "conn", UNCHANGED conn,
               UNCHANGED dl \/ dl' = [dl EXCEPT ![x[1]].tlsa = x[2]]
        PROVE  StatusInv'
    <2>1. \A m \in Msgs : dl'[m].st = dl[m].st /\ dl'[m].errs = dl[m].errs
      BY <1>1, <1>3, TlsaSet DEF PoolInv
    <2> QED
      BY <1>1, <1>3, <2>1, NamesSame, StatusQuiet
  <1> QED
    BY <1>2, <1>3, CheckMXDoes DEF PoolInv

LEMMA attemptMXStatus ==
    ASSUME PoolInv, StatusInv, kind = "remote", NEW x \in Workers, attemptMX(x)
    PROVE  StatusInv'
  <1>1. UNCHANGED <<kind, peer>> /\ w[x].pc = "conn"
    BY DEF attemptMX
  <1>2. CASE \E dead \in BOOLEAN : NextMX(x, dead)
    BY <1>1, <1>2, NextMXStatus
  <1>3. ASSUME NEW c \in Conn, NEW k \in Connection, Opened(x, k), conn' = [conn EXCEPT ![c] = k],
               Moves(x, [NoWork EXCEPT !.pc = "mail", !.c = c]), UNCHANGED dl
        PROVE  StatusInv'
    <2> DEFINE g == [NoWork EXCEPT !.pc = "mail", !.c = c]
    <2>1. Moves(x, g) /\ g.pc = "mail"
      BY <1>3, Connected
    <2> HIDE DEF g
    <2>2. NamesKept
      BY <1>3, NamesNew DEF Opened, PoolInv
    <2> QED
      BY <1>1, <1>3, <2>1, <2>2, StatusQuiet
  <1> QED
    BY <1>2, <1>3, attemptMXDoes DEF PoolInv

LEMMA connectionForDomainStatus ==
    ASSUME PoolInv, StatusInv, kind = "remote", NEW x \in Workers, connectionForDomain(x)
    PROVE  StatusInv'
  <1>1. UNCHANGED <<kind, peer>> /\ w[x].pc = "mail" /\ x[1] \in Msgs /\ x[2] \in Domains
    BY WorkerParts DEF connectionForDomain
  <1>2. w[x].c \in Conn
    BY <1>1 DEF PoolInv, Owned, Owns, Typed, Goroutine
  <1>3. CASE conn' = Close(conn, {w[x].c}) /\ GivesUp(x)
    <2>1. NamesKept
      BY <1>3, NamesClosed DEF PoolInv
    <2> QED
      BY <1>1, <1>3, <2>1, GivesUpDoes, GivesUpStatus DEF PoolInv
  <1>4. ASSUME conn' = [conn EXCEPT ![w[x].c].at = now], w' = [w EXCEPT ![x].pc = "send"],
               \/ UNCHANGED dl
               \/ dl' = [dl EXCEPT ![x[1]].reqtls = FALSE, ![x[1]].relaxed = @ \cup {x[2]}]
        PROVE  StatusInv'
    <2> DEFINE g == [w[x] EXCEPT !.pc = "send"]
    <2>1. Moves(x, g) /\ g.pc = "send"
      <3>1. "send" \in PCs
        BY DEF PCs
      <3> QED
        BY <1>4, <3>1, AtPc DEF PoolInv
    <2> HIDE DEF g
    <2>2. \A m \in Msgs : dl'[m].st = dl[m].st /\ dl'[m].errs = dl[m].errs
      BY <1>1, <1>4, RelaxedSet DEF PoolInv
    <2>3. PICK k : Touched(w[x].c, k) /\ k.rcpts = conn[w[x].c].rcpts
      BY <1>2, <1>4, MailTouches DEF PoolInv
    <2>4. NamesKept
      BY <1>2, <2>3 DEF NamesKept, Touched, PoolInv, Typed
    <2> QED
      BY <1>1, <2>1, <2>2, <2>4, StatusQuiet
  <1> QED
    BY <1>3, <1>4, connectionForDomainDoes DEF PoolInv

LEMMA CloseConnStatus ==
    ASSUME PoolInv, StatusInv, kind = "remote", NEW x \in Workers, CloseConn(x)
    PROVE  StatusInv'
  <1>1. UNCHANGED <<kind, dl, peer>>
    BY DEF CloseConn
  <1>2. PICK g : Moves(x, g) /\ g.pc = "done" /\ w[x].pc = "done"
    BY CloseConnDoes
  <1>3. NamesKept
    <2>1. NoConn.rcpts = {}
      BY DEF NoConn
    <2> QED
      BY <2>1, CloseConnDoes DEF NamesKept, SameLevel
  <1> QED
    BY <1>1, <1>2, <1>3, StatusQuiet

(* DATA: a recipient that was refused, or whose name got an error of DATA, *)
(* has an error; the others have the message.                              *)
LEMMA TransactionStatus ==
    ASSUME PoolInv, StatusInv, kind = "remote", NEW x \in Workers, Transaction(x)
    PROVE  StatusInv'
  <1> DEFINE m == x[1]
             c == w[x].c
             rs == RcptsAt(m, x[2])
  <1>1. UNCHANGED kind /\ w[x].pc = "send" /\ m \in Msgs /\ x[2] \in Domains /\ "done" \in PCs
    BY WorkerParts DEF Transaction, PCs
  <1>2. c \in Conn /\ conn[c].dom = x[2]
    BY <1>1 DEF PoolInv, Owned, Owns, Typed, Goroutine
  <1>3. PICK acc \in SUBSET rs, utf8 \in BOOLEAN, res \in Data \cup {"unread"}, k \in Connection :
             LET names == conn[c].rcpts \cup {ToASCII(r, utf8) : r \in acc}
                 p == IF res \in {"ok", "lost"} THEN Got(peer, m, acc) ELSE peer
             IN /\ acc \cap Converts = {} => utf8
                /\ Touched(c, k) /\ k.rcpts = names
                /\ ErrorsOnly(m, dl[m].errs \cup (rs \ acc)
                                       \cup (IF res = "ok" THEN {} ELSE DataStatuses(m, names)))
                /\ peer' = IF res = "lost" THEN Lost(p, m, acc) ELSE p
                /\ w' = [w EXCEPT ![x].pc = "done"]
    BY <1>2, TransactionDoes DEF PoolInv
  <1> DEFINE names == conn[c].rcpts \cup {ToASCII(r, utf8) : r \in acc}
             p == IF res \in {"ok", "lost"} THEN Got(peer, m, acc) ELSE peer
             E == dl[m].errs \cup (rs \ acc) \cup (IF res = "ok" THEN {} ELSE DataStatuses(m, names))
             g == [w[x] EXCEPT !.pc = "done"]
  <1>4. Moves(x, g) /\ g.pc = "done"
    BY <1>1, <1>3, AtPc DEF PoolInv
  <1> HIDE DEF g
  <1>5. /\ Touched(c, k) /\ k.rcpts = names /\ ErrorsOnly(m, E)
        /\ peer' = IF res = "lost" THEN Lost(p, m, acc) ELSE p
    BY <1>3
  <1>6. \A q \in names : DomainOf[q[1]] = x[2]
    <2>1. \A q \in conn[c].rcpts : DomainOf[q[1]] = x[2]
      BY <1>2 DEF StatusInv, NamesOfDomain
    <2>2. \A r \in acc : DomainOf[ToASCII(r, utf8)[1]] = x[2]
      BY DEF ToASCII, RcptsAt
    <2> QED
      BY <2>1, <2>2
  <1>7. DataStatuses(m, names) \subseteq rs
    <2>1. ASSUME NEW r \in To[m], <<r, FALSE>> \in names PROVE DomainOf[r] = x[2]
      <3>1. DomainOf[<<r, FALSE>>[1]] = x[2]
        BY <1>6, <2>1
      <3> QED
        BY <3>1
    <2> QED
      BY <2>1 DEF DataStatuses, RcptsAt
  <1>8. res # "ok" => \A r \in acc \ Converts : r \in E
    <2>1. ASSUME res # "ok", NEW r \in acc \ Converts PROVE r \in E
      <3>1. (r \in Converts /\ ~utf8) = FALSE
        BY <2>1
      <3>2. ToASCII(r, utf8) = <<r, FALSE>>
        BY <3>1 DEF ToASCII
      <3>3. <<r, FALSE>> \in names
        BY <3>2
      <3>4. r \in To[m]
        BY DEF RcptsAt
      <3> HIDE DEF names
      <3> QED
        BY <2>1, <3>3, <3>4 DEF DataStatuses
    <2> QED
      BY <2>1
  <1> HIDE DEF names
  <1>9. \A r : /\ r \notin rs => (r \in E <=> r \in dl[m].errs)
               /\ r \in rs \ acc => r \in E
               /\ res = "ok" /\ r \in acc /\ r \notin dl[m].errs => r \notin E
    BY <1>7
  <1>10. rs \subseteq To[m]
    BY DEF RcptsAt
  <1> HIDE DEF E, rs
  <1>11. /\ IsPeer(p) /\ p.lost = peer.lost /\ p.ok = peer.ok
         /\ \A n \in Msgs \ {m} : p.got[n] = peer.got[n]
         /\ \A r \in To[m] : p.got[m][r] = IF res \in {"ok", "lost"} /\ r \in acc THEN peer.got[m][r] + 1
                                           ELSE peer.got[m][r]
    <2>1. CASE res \in {"ok", "lost"}
      BY <1>1, <2>1, GotDoes DEF StatusInv
    <2>2. CASE res \notin {"ok", "lost"}
      BY <2>2 DEF StatusInv
    <2> QED
      BY <2>1, <2>2
  <1> HIDE DEF p
  <1>12. /\ IsPeer(peer') /\ peer'.got = p.got /\ peer'.ok = p.ok
         /\ \A n, r : <<n, r>> \in peer'.lost <=> <<n, r>> \in p.lost \/ (res = "lost" /\ n = m /\ r \in acc)
    <2>1. CASE res = "lost"
      BY <1>5, <1>11, <2>1, LostDoes
    <2>2. CASE res # "lost"
      BY <1>5, <1>11, <2>2
    <2> QED
      BY <2>1, <2>2
  <1>13. NamesOfDomain'
    <2>1. conn'[c] = k /\ \A e \in Conn : e # c => conn'[e] = conn[e]
      BY <1>2, <1>5 DEF Touched, PoolInv, Typed
    <2>2. k.dom = x[2] /\ k.rcpts = names
      BY <1>2, <1>5 DEF Touched
    <2> QED
      BY <1>6, <2>1, <2>2 DEF NamesOfDomain, StatusInv
  <1>14. \A n \in Msgs : dl'[n].st = dl[n].st /\ dl'[n].errs = IF n = m THEN E ELSE dl[n].errs
    BY <1>5 DEF ErrorsOnly
  <1>15. ASSUME NEW n \in Msgs, NEW r \in To[n], <<n, DomainOf[r]>> # x PROVE SameStatus(n, r)
    <2>1. ~(n = m /\ r \in rs)
      BY <1>15, NotMine DEF rs
    <2>2. CASE n = m
      BY <1>9, <1>11, <1>12, <1>14, <2>1, <2>2 DEF SameStatus
    <2>3. CASE n # m
      BY <1>11, <1>12, <1>14, <2>3 DEF SameStatus
    <2> QED
      BY <2>2, <2>3
  <1>16. ASSUME NEW r \in rs PROVE Honest(m, r)'
    <2>1. r \in To[m] /\ x = <<m, DomainOf[r]>>
      BY WorkerParts DEF RcptsAt, rs
    <2>2. r \notin dl[m].errs /\ Explained(m, r)
      BY <1>1, <2>1 DEF StatusInv, Reported
    <2>3. peer.got[m][r] \in Nat
      BY <1>1, <2>1 DEF StatusInv, IsPeer
    <2>4. dl'[m].errs = E
      BY <1>1, <1>14
    <2>5. r \notin E \cup Converts => peer'.got[m][r] >= 1
      BY <1>8, <1>9, <1>11, <1>12, <2>1, <2>3 DEF Data
    <2>6. peer'.got[m][r] >= 2 \/ (peer'.got[m][r] >= 1 /\ r \in E) => <<m, r>> \in peer'.lost
      BY <1>9, <1>11, <1>12, <2>1, <2>2, <2>3 DEF Explained, Count
    <2> QED
      BY <2>4, <2>5, <2>6 DEF Honest, Count
  <1>17. \A r \in RcptsAt(x[1], x[2]) :
               /\ g.pc # "done" => r \notin dl'[x[1]].errs /\ Explained(x[1], r)'
               /\ g.pc = "done" => Honest(x[1], r)'
    BY <1>4, <1>16 DEF rs
  <1>18. g.pc \notin {"none", "http"} /\ \A n \in Msgs : dl'[n].st = dl[n].st
    BY <1>4, <1>14
  <1> QED
    BY <1>1, <1>4, <1>12, <1>13, <1>15, <1>17, <1>18, StatusStep

(* A step of the remote target that changes the delivery m only.           *)
LEMMA StatusDelivery ==
    ASSUME PoolInv, StatusInv, kind = "remote", kind' = kind, NEW m \in Msgs, IsPeer(peer'), NamesKept,
           \A n \in Msgs \ {m} : dl'[n] = dl[n],
           \A n \in Msgs \ {m} : \A r \in To[n] : SameStatus(n, r),
           \A x \in Workers : x[1] # m => w'[x] = w[x],
           \A x \in Workers : x[1] = m => (w'[x].pc = "none" => dl'[m].st # "body"),
           \A r \in To[m] : Reported(m, r)'
    PROVE  StatusInv'
  <1>1. ASSUME NEW n \in Msgs, NEW r \in To[n] PROVE Reported(n, r)'
    <2>1. CASE n = m
      BY <2>1
    <2>2. CASE n # m
      <3> DEFINE x == <<n, DomainOf[r]>>
      <3>1. x \in Workers /\ x[1] = n
        BY RcptWorker
      <3>2. w'[<<n, DomainOf[r]>>] = w[<<n, DomainOf[r]>>] /\ SameStatus(n, r) /\ Reported(n, r)
        BY <2>2, <3>1 DEF StatusInv
      <3> QED
        BY <3>2, Kept DEF Reported, Fresh, Explained, Count, SameStatus
    <2> QED
      BY <2>1, <2>2
  <1>2. ASSUME NEW x \in Workers, w'[x].pc = "none" PROVE dl'[x[1]].st # "body"
    <2>1. CASE x[1] = m
      BY <1>2, <2>1
    <2>2. CASE x[1] # m
      BY <1>2, <2>2, WorkerParts DEF StatusInv
    <2> QED
      BY <2>1, <2>2
  <1>3. NamesOfDomain'
    BY NamesStay
  <1> QED
    BY <1>1, <1>2, <1>3 DEF StatusInv

(* Nothing changes but the pool, the connections and the clock.            *)
LEMMA StatusSame ==
    ASSUME StatusInv, NamesKept, UNCHANGED <<kind, dl, w, peer>>
    PROVE  StatusInv'
  <1>1. NamesOfDomain'
    BY NamesStay
  <1>2. \A m \in Msgs : \A r \in To[m] : Reported(m, r) => Reported(m, r)'
    BY DEF Reported, Fresh, Explained, Honest, Count
  <1>3. \A m \in Msgs : Downstream(m) => Downstream(m)'
    BY DEF Downstream, Honest, Count
  <1> QED
    BY <1>1, <1>2, <1>3 DEF StatusInv

LEMMA StartStatus ==
    ASSUME PoolInv, StatusInv, NEW m \in Msgs, Start(m)
    PROVE  StatusInv'
  <1>1. kind = "remote" /\ UNCHANGED <<kind, w, conn, peer>> /\ NamesKept
    BY NamesSame DEF Start
  <1>2. /\ \A n \in Msgs \ {m} : dl'[n] = dl[n]
        /\ dl'[m].st = "rcpt" /\ dl'[m].errs = dl[m].errs
    BY StartDoes DEF PoolInv, Updates
  <1>3. \A n \in Msgs : \A r \in To[n] : SameStatus(n, r)
    BY <1>1, <1>2 DEF SameStatus
  <1>4. ASSUME NEW r \in To[m] PROVE Reported(m, r)'
    <2>1. w'[<<m, DomainOf[r]>>] = w[<<m, DomainOf[r]>>] /\ SameStatus(m, r) /\ Reported(m, r)
      BY <1>1, <1>3 DEF StatusInv
    <2> QED
      BY <2>1, Kept DEF Reported, Fresh, Explained, Count, SameStatus
  <1>5. IsPeer(peer')
    BY <1>1 DEF StatusInv
  <1> QED
    BY <1>1, <1>2, <1>3, <1>4, <1>5, StatusDelivery

(* The body starts, or is refused: nobody had the message before.          *)
LEMMA LaunchStatus ==
    ASSUME PoolInv, StatusInv, NEW m \in Msgs, kind = "remote", UNCHANGED <<kind, conn, peer>>,
           dl[m].st = "rcpt", NEW p \in {"http", "done"}, NEW to, NEW E, Launched(m, p),
           Updates(m, "body", to, E),
           IF p = "http" THEN E = dl[m].errs ELSE E = To[m]
    PROVE  StatusInv'
  <1>1. NamesKept /\ IsPeer(peer') /\ peer' = peer
    BY NamesSame DEF StatusInv
  <1>2. /\ \A n \in Msgs \ {m} : dl'[n] = dl[n]
        /\ dl'[m].st = "body" /\ dl'[m].errs = E
    BY DEF Updates
  <1>3. \A n \in Msgs \ {m} : \A r \in To[n] : SameStatus(n, r)
    BY <1>1, <1>2 DEF SameStatus
  <1>4. \A x \in Workers : IF x[1] = m THEN w'[x].pc = p ELSE w'[x] = w[x]
    BY DEF Launched
  <1>5. ASSUME NEW r \in To[m] PROVE Reported(m, r)'
    <2> DEFINE x == <<m, DomainOf[r]>>
    <2>1. x \in Workers /\ x[1] = m
      BY RcptWorker
    <2>2. w[x].pc = "none"
      BY <2>1 DEF PoolInv, Running
    <2>3. Reported(m, r)
      BY DEF StatusInv
    <2>4. peer.got[m][r] = 0 /\ r \notin dl[m].errs
      BY <2>2, <2>3 DEF Reported, Fresh, Count
    <2>5. w'[<<m, DomainOf[r]>>].pc = p
      BY <1>4, <2>1
    <2>6. CASE p = "http"
      <3>1. Fresh(m, r)'
        BY <1>1, <1>2, <2>4, <2>6 DEF Fresh, Count
      <3> QED
        BY <2>5, <2>6, <3>1 DEF Reported
    <2>7. CASE p = "done"
      <3>1. Honest(m, r)'
        BY <1>1, <1>2, <2>4, <2>7 DEF Honest, Count
      <3> QED
        BY <2>5, <2>7, <3>1 DEF Reported
    <2> QED
      BY <2>6, <2>7
  <1>6. \A x \in Workers : x[1] = m => w'[x].pc # "none"
    BY <1>4
  <1> QED
    BY <1>1, <1>2, <1>3, <1>4, <1>5, <1>6, StatusDelivery

(* Forget, for the peer.                                                   *)
LEMMA ForgetPeer ==
    ASSUME NEW m \in Msgs, StatusInv, Forget(m)
    PROVE  /\ IsPeer(peer') /\ \A r \in To[m] : peer'.got[m][r] = 0
           /\ \A n \in Msgs \ {m} : /\ peer'.got[n] = peer.got[n]
                                    /\ \A r : /\ <<n, r>> \in peer'.lost <=> <<n, r>> \in peer.lost
                                              /\ <<n, r>> \in peer'.ok <=> <<n, r>> \in peer.ok
  <1> DEFINE got == [peer.got EXCEPT ![m] = NoneGot(m)]
             l == {p \in peer.lost : p[1] # m}
             k == {p \in peer.ok : p[1] # m}
  <1>1. \A n \in Msgs \ {m} : \A r : (<<n, r>> \in l <=> <<n, r>> \in peer.lost)
                                      /\ (<<n, r>> \in k <=> <<n, r>> \in peer.ok)
    OBVIOUS
  <1>2. peer.got = [n \in Msgs |-> peer.got[n]] /\ \A n \in Msgs : peer.got[n] \in [To[n] -> Nat]
    BY DEF StatusInv, IsPeer
  <1>3. NoneGot(m) \in [To[m] -> Nat] /\ \A r \in To[m] : NoneGot(m)[r] = 0
    BY DEF NoneGot
  <1>4. /\ got[m] = NoneGot(m) /\ (\A n \in Msgs \ {m} : got[n] = peer.got[n])
        /\ got = [n \in Msgs |-> got[n]]
    BY <1>2
  <1>5. peer' = [got |-> got, lost |-> l, ok |-> k]
    BY DEF Forget
  <1> HIDE DEF got, l, k
  <1>6. peer'.got = got /\ peer'.lost = l /\ peer'.ok = k
    BY <1>5
  <1>7. \A n \in Msgs : got[n] \in [To[n] -> Nat]
    BY <1>2, <1>3, <1>4
  <1>8. IsPeer(peer')
    BY <1>4, <1>5, <1>6, <1>7 DEF IsPeer
  <1> QED
    BY <1>1, <1>3, <1>4, <1>6, <1>8

LEMMA FinishStatus ==
    ASSUME PoolInv, StatusInv, kind = "remote", NEW m \in Msgs, Finish(m)
    PROVE  StatusInv'
  <1>1. UNCHANGED <<kind, conn>> /\ NamesKept /\ Forget(m) /\ NoWork.pc = "none"
    BY NamesSame DEF Finish, NoWork
  <1>2. /\ \A n \in Msgs \ {m} : dl'[n] = dl[n]
        /\ dl'[m].st = "closed" /\ dl'[m].errs = {}
    BY <1>1, ForgetDoes DEF PoolInv
  <1>3. /\ IsPeer(peer') /\ \A r \in To[m] : peer'.got[m][r] = 0
        /\ \A n \in Msgs \ {m} : /\ peer'.got[n] = peer.got[n]
                                 /\ \A r : /\ <<n, r>> \in peer'.lost <=> <<n, r>> \in peer.lost
                                           /\ <<n, r>> \in peer'.ok <=> <<n, r>> \in peer.ok
    BY <1>1, ForgetPeer
  <1>4. \A n \in Msgs \ {m} : \A r \in To[n] : SameStatus(n, r)
    BY <1>2, <1>3 DEF SameStatus
  <1>5. \A x \in Workers : IF x[1] = m THEN w'[x].pc = "none" ELSE w'[x] = w[x]
    BY <1>1, FinishDoes DEF PoolInv
  <1>6. ASSUME NEW r \in To[m] PROVE Reported(m, r)'
    <2>1. w'[<<m, DomainOf[r]>>].pc = "none"
      BY <1>5, RcptWorker
    <2>2. Fresh(m, r)'
      BY <1>2, <1>3 DEF Fresh, Count
    <2> QED
      BY <2>1, <2>2 DEF Reported
  <1> QED
    BY <1>1, <1>2, <1>3, <1>4, <1>5, <1>6, StatusDelivery

-----------------------------------------------------------------------------
(* StatusInv, for target.smtp and target.lmtp.                             *)

LEMMA DownstreamDelivery ==
    ASSUME StatusInv, kind # "remote", UNCHANGED <<kind, conn>>, NEW m \in Msgs, IsPeer(peer'),
           \A n \in Msgs \ {m} : dl'[n] = dl[n],
           \A n \in Msgs \ {m} : \A r \in To[n] : SameStatus(n, r), Downstream(m)'
    PROVE  StatusInv'
  <1>1. ASSUME NEW n \in Msgs, n # m PROVE Downstream(n)'
    <2>1. Downstream(n) /\ dl'[n] = dl[n]
      BY <1>1 DEF StatusInv
    <2>2. \A r \in To[n] : SameStatus(n, r)
      BY <1>1
    <2>3. \A r \in To[n] : Honest(n, r) => Honest(n, r)'
      BY <2>2, Kept
    <2>4. \A r \in To[n] : Count(n, r)' = Count(n, r)
      BY <2>2 DEF SameStatus, Count
    <2> QED
      BY <2>1, <2>3, <2>4 DEF Downstream
  <1>2. NamesOfDomain'
    BY NamesStay, NamesSame
  <1> QED
    BY <1>1, <1>2 DEF StatusInv

LEMMA DownstreamStartStatus ==
    ASSUME PoolInv, StatusInv, NEW m \in Msgs, DownstreamStart(m)
    PROVE  StatusInv'
  <1>1. kind # "remote" /\ UNCHANGED <<kind, conn, peer>> /\ dl[m].st = "new" /\ IsPeer(peer')
    BY DEF DownstreamStart, StatusInv
  <1>2. PICK s \in {"rcpt", "body"}, E \in {dl[m].errs, To[m]} :
           /\ Updates(m, s, dl[m].to, E)
           /\ s = "rcpt" => E = dl[m].errs
           /\ s = "body" => E = To[m]
    BY DownstreamStartDoes DEF PoolInv
  <1>3. \A n \in Msgs \ {m} : dl'[n] = dl[n]
    BY <1>2 DEF Updates
  <1>4. \A n \in Msgs \ {m} : \A r \in To[n] : SameStatus(n, r)
    BY <1>1, <1>3 DEF SameStatus
  <1>5. /\ dl[m].errs = {} /\ dl[m].to = {} /\ \A r \in To[m] : peer'.got[m][r] = 0
    BY <1>1 DEF StatusInv, Downstream, Count
  <1>6. dl'[m].st = s /\ dl'[m].to = {} /\ dl'[m].errs = E
    BY <1>2, <1>5 DEF Updates
  <1>7. CASE s = "rcpt"
    <2>1. Downstream(m)'
      BY <1>2, <1>5, <1>6, <1>7 DEF Downstream, Count
    <2> QED
      BY <1>1, <1>3, <1>4, <2>1, DownstreamDelivery
  <1>8. CASE s = "body"
    <2>1. \A r \in To[m] : Honest(m, r)'
      BY <1>2, <1>5, <1>6, <1>8 DEF Honest, Count
    <2>2. Downstream(m)'
      BY <1>6, <1>8, <2>1 DEF Downstream
    <2> QED
      BY <1>1, <1>3, <1>4, <2>2, DownstreamDelivery
  <1> QED
    BY <1>7, <1>8

LEMMA AddRcptStatus ==
    ASSUME PoolInv, StatusInv, NEW m \in Msgs, NEW r \in To[m], AddRcpt(m, r)
    PROVE  StatusInv'
  <1>1. /\ kind # "remote" /\ UNCHANGED <<kind, conn, peer>> /\ dl[m].st = "rcpt" /\ IsPeer(peer')
        /\ r \notin dl[m].to \cup dl[m].errs
    BY DEF AddRcpt, StatusInv
  <1>2. PICK to, E : /\ Updates(m, "rcpt", to, E)
                     /\ \/ to = dl[m].to \cup {r} /\ E = dl[m].errs
                        \/ to = dl[m].to /\ E = dl[m].errs \cup {r}
    BY <1>1, AddRcptDoes DEF PoolInv
  <1>3. (\A n \in Msgs \ {m} : dl'[n] = dl[n]) /\ dl'[m].st = "rcpt" /\ dl'[m].to = to /\ dl'[m].errs = E
    BY <1>2 DEF Updates
  <1>4. \A n \in Msgs \ {m} : \A q \in To[n] : SameStatus(n, q)
    BY <1>1, <1>3 DEF SameStatus
  <1>5. dl[m].to \subseteq To[m] \ dl[m].errs /\ \A q \in To[m] : peer'.got[m][q] = 0
    BY <1>1 DEF StatusInv, Downstream, Count
  <1>6. to \subseteq To[m] \ E
    BY <1>1, <1>2, <1>5
  <1>7. Downstream(m)'
    BY <1>3, <1>5, <1>6 DEF Downstream, Count
  <1> QED
    BY <1>1, <1>3, <1>4, <1>7, DownstreamDelivery

(* What the other side keeps is what it answers for and more.              *)
LEMMA OutcomeSets ==
    ASSUME NEW rs, NEW o \in DataOutcomes(rs)
    PROVE  o.kept \subseteq rs /\ o.good \subseteq o.kept
  <1>1. CASE kind = "smtp"
    BY <1>1 DEF DataOutcomes
  <1>2. CASE kind # "smtp"
    <2>1. PICK a \in SUBSET rs, g \in SUBSET rs : \E k \in SUBSET (rs \ a) :
              o = [answered |-> a, good |-> g, kept |-> g \cup k]
      BY <1>2 DEF DataOutcomes
    <2> QED
      BY <2>1
  <1> QED
    BY <1>1, <1>2

LEMMA DownstreamBodyStatus ==
    ASSUME PoolInv, StatusInv, NEW m \in Msgs, DownstreamBody(m)
    PROVE  StatusInv'
  <1>1. /\ kind # "remote" /\ UNCHANGED <<kind, conn>> /\ dl[m].st = "rcpt"
        /\ dl[m].to \cup dl[m].errs = To[m]
    BY DEF DownstreamBody
  <1>2. PICK o \in DataOutcomes(dl[m].to), bad \in SUBSET Rcpts :
             /\ o.good \subseteq o.answered
             /\ bad \subseteq o.answered \ o.good
             /\ \A r \in (o.answered \ o.good) \ bad : kind # "smtp" /\ r \in Converts
             /\ peer' = Lost(Got(peer, m, o.kept), m, o.kept \ o.good)
             /\ Updates(m, "body", dl[m].to, dl[m].errs \cup bad \cup (dl[m].to \ o.answered))
    BY DownstreamBodyDoes DEF PoolInv
  <1> DEFINE E == dl[m].errs \cup bad \cup (dl[m].to \ o.answered)
             p == Got(peer, m, o.kept)
  <1>3. (\A n \in Msgs \ {m} : dl'[n] = dl[n]) /\ dl'[m].st = "body" /\ dl'[m].errs = E
    BY <1>2 DEF Updates
  <1>4. /\ IsPeer(p) /\ p.lost = peer.lost /\ p.ok = peer.ok
        /\ \A n \in Msgs \ {m} : p.got[n] = peer.got[n]
        /\ \A r \in To[m] : p.got[m][r] = IF r \in o.kept THEN peer.got[m][r] + 1 ELSE peer.got[m][r]
    BY GotDoes DEF StatusInv
  <1> HIDE DEF p
  <1>5. /\ IsPeer(peer') /\ peer'.got = p.got /\ peer'.ok = p.ok
        /\ \A n, r : <<n, r>> \in peer'.lost <=> <<n, r>> \in p.lost \/ (n = m /\ r \in o.kept \ o.good)
    BY <1>2, <1>4, LostDoes DEF p
  <1>6. \A n \in Msgs \ {m} : \A r \in To[n] : SameStatus(n, r)
    BY <1>3, <1>4, <1>5 DEF SameStatus
  <1>7. dl[m].to \subseteq To[m] \ dl[m].errs /\ \A r \in To[m] : peer.got[m][r] = 0
    BY <1>1 DEF StatusInv, Downstream, Count
  <1>8. o.kept \subseteq dl[m].to /\ o.good \subseteq o.kept
    BY OutcomeSets
  <1>9. ASSUME NEW r \in To[m] PROVE Honest(m, r)'
    <2>1. peer'.got[m][r] = IF r \in o.kept THEN 1 ELSE 0
      BY <1>4, <1>5, <1>7
    <2>2. r \notin E \cup Converts => r \in o.kept
      BY <1>1, <1>2, <1>8
    <2>3. r \in o.kept /\ r \in E => r \in o.kept \ o.good
      BY <1>2, <1>7, <1>8
    <2>4. r \in o.kept /\ r \in E => <<m, r>> \in peer'.lost
      BY <1>5, <2>3
    <2> HIDE DEF E
    <2> QED
      BY <1>3, <2>1, <2>2, <2>4 DEF Honest, Count
  <1>10. Downstream(m)'
    BY <1>3, <1>9 DEF Downstream
  <1> QED
    BY <1>1, <1>3, <1>5, <1>6, <1>10, DownstreamDelivery

LEMMA DownstreamCloseStatus ==
    ASSUME PoolInv, StatusInv, NEW m \in Msgs,
           DownstreamClose(m) \/ (kind # "remote" /\ Finish(m))
    PROVE  StatusInv'
  <1>1. kind # "remote" /\ UNCHANGED <<kind, conn>> /\ Forget(m)
    BY DEF DownstreamClose, Finish
  <1>2. /\ \A n \in Msgs \ {m} : dl'[n] = dl[n]
        /\ dl'[m].st = "closed" /\ dl'[m].errs = {} /\ dl'[m].to = {}
    BY <1>1, ForgetDoes DEF PoolInv
  <1>3. /\ IsPeer(peer') /\ \A r \in To[m] : peer'.got[m][r] = 0
        /\ \A n \in Msgs \ {m} : /\ peer'.got[n] = peer.got[n]
                                 /\ \A r : /\ <<n, r>> \in peer'.lost <=> <<n, r>> \in peer.lost
                                           /\ <<n, r>> \in peer'.ok <=> <<n, r>> \in peer.ok
    BY <1>1, ForgetPeer
  <1>4. \A n \in Msgs \ {m} : \A r \in To[n] : SameStatus(n, r)
    BY <1>2, <1>3 DEF SameStatus
  <1>5. Downstream(m)'
    BY <1>2, <1>3 DEF Downstream, Count
  <1> QED
    BY <1>1, <1>2, <1>3, <1>4, <1>5, DownstreamDelivery

-----------------------------------------------------------------------------
LEMMA StatusInit == Init => StatusInv
  <1> SUFFICES ASSUME Init PROVE StatusInv
    OBVIOUS
  <1> DEFINE got == [m \in Msgs |-> NoneGot(m)]
             e == {}
  <1>1. peer = [got |-> got, lost |-> e, ok |-> e]
    BY DEF Init
  <1>2. \A m \in Msgs : NoneGot(m) \in [To[m] -> Nat] /\ \A r \in To[m] : NoneGot(m)[r] = 0
    BY DEF NoneGot
  <1>3. got = [m \in Msgs |-> got[m]] /\ \A m \in Msgs : got[m] = NoneGot(m)
    OBVIOUS
  <1> HIDE DEF got, e
  <1>4. peer.got = got /\ peer.lost = e /\ peer.ok = e
    BY <1>1
  <1>5. IsPeer(peer)
    BY <1>1, <1>2, <1>3, <1>4 DEF IsPeer
  <1>6. \A m \in Msgs : dl[m].errs = {} /\ dl[m].to = {} /\ dl[m].st = "new"
    BY DEF Init, NewDelivery
  <1>7. \A m \in Msgs : \A r \in To[m] : Count(m, r) = 0
    BY <1>2, <1>3, <1>4 DEF Count
  <1>8. \A x \in Workers : w[x].pc = "none"
    BY DEF Init, NoWork
  <1>9. \A c \in Conn : conn[c].rcpts = {}
    BY DEF Init, NoConn
  <1>10. \A m \in Msgs : \A r \in To[m] : Reported(m, r)
    <2>1. ASSUME NEW m \in Msgs, NEW r \in To[m] PROVE Reported(m, r)
      <3>1. w[<<m, DomainOf[r]>>].pc = "none"
        BY <1>8, RcptWorker
      <3> QED
        BY <1>6, <1>7, <3>1 DEF Reported, Fresh
    <2> QED
      BY <2>1
  <1>11. \A m \in Msgs : Downstream(m)
    BY <1>6, <1>7 DEF Downstream
  <1> QED
    BY <1>5, <1>6, <1>9, <1>10, <1>11, WorkerParts DEF StatusInv, NamesOfDomain

LEMMA StatusNext ==
    ASSUME PoolInv, Idling, StatusInv, [Next]_vars
    PROVE  StatusInv'
  <1>1. ASSUME NEW x \in Workers, WorkerStep(x) PROVE StatusInv'
    <2>1. NoWork.pc = "none" /\ NoWork.c = 0
      BY DEF NoWork
    <2>2. w[x].pc # "none" \/ w[x].c # 0
      BY <1>1 DEF WorkerStep, tryHTTP, Get, GetDrain, GetRecv, newConn, CheckMX, attemptMX,
                  connectionForDomain, Transaction, CloseConn
    <2>3. kind = "remote"
      BY <2>1, <2>2 DEF Idling
    <2> QED
      BY <1>1, <2>3, tryHTTPStatus, GetStatus, newConnStatus, CheckMXStatus, attemptMXStatus,
         connectionForDomainStatus, TransactionStatus, CloseConnStatus DEF WorkerStep
  <1>2. ASSUME NEW m \in Msgs, BodyNonAtomic(m) PROVE StatusInv'
    BY <1>2, BodyNonAtomicDoes, LaunchStatus DEF PoolInv, BodyNonAtomic
  <1>3. ASSUME NEW m \in Msgs, Quarantined(m) PROVE StatusInv'
    BY <1>3, QuarantinedDoes, LaunchStatus DEF PoolInv, Quarantined
  <1>4. ASSUME NEW m \in Msgs, Finish(m) PROVE StatusInv'
    <2>1. CASE kind = "remote"
      BY <1>4, <2>1, FinishStatus
    <2>2. CASE kind # "remote"
      BY <1>4, <2>2, DownstreamCloseStatus
    <2> QED
      BY <2>1, <2>2
  <1>5. CASE CleanUp \/ PoolClose
    <2>1. UNCHANGED <<kind, dl, w, peer>> /\ \E ks : conn' = DropBuckets(ks, conn)
      BY <1>5 DEF CleanUp, PoolClose
    <2>2. NamesKept
      BY <2>1, NamesClosed DEF DropBuckets, PoolInv
    <2> QED
      BY <2>1, <2>2, StatusSame
  <1>6. CASE Elapse \/ UNCHANGED vars
    <2>1. UNCHANGED <<kind, dl, w, peer, conn>>
      BY <1>6 DEF Elapse, vars
    <2> QED
      BY <2>1, NamesSame, StatusSame
  <1> QED
    BY <1>1, <1>2, <1>3, <1>4, <1>5, <1>6, StartStatus, DownstreamStartStatus, AddRcptStatus,
       DownstreamBodyStatus, DownstreamCloseStatus DEF Next

(* In every state, what the statuses of a delivery say of a recipient so   *)
(* far agrees with what the other side has.                                *)
THEOREM StatusInvariant == Spec => []StatusInv
  <1>1. PoolInv /\ Idling /\ StatusInv /\ [Next]_vars => StatusInv'
    BY StatusNext
  <1> QED
    BY <1>1, StatusInit, PoolInvariant, PTL DEF Spec

(* When a delivery has answered for all its recipients, one without an     *)
(* error has the message, and one with the message and an error, or with   *)
(* two copies, comes of an answer that was lost: over HTTP, a pooled or a  *)
(* new connection, and for target.smtp and target.lmtp.                    *)
THEOREM StatusHonestTheorem == Spec => []StatusHonest
  <1>1. StatusInv => StatusHonest
    <2> SUFFICES ASSUME StatusInv, NEW m \in Msgs, AllDone(m), NEW r \in To[m] PROVE Honest(m, r)
      BY DEF StatusHonest, Honest, Count
    <2>1. dl[m].st = "body"
      BY DEF AllDone
    <2>2. CASE kind = "remote"
      <3> DEFINE x == <<m, DomainOf[r]>>
      <3>1. x \in Workers /\ x[1] = m
        BY RcptWorker
      <3>2. Reported(m, r) /\ (w[x].pc = "none" => dl[x[1]].st # "body")
        BY <2>2, <3>1 DEF StatusInv
      <3>3. w[x].pc \in {"none", "done"}
        BY <3>1 DEF AllDone
      <3> QED
        BY <2>1, <3>1, <3>2, <3>3 DEF Reported
    <2>3. CASE kind # "remote"
      BY <2>1, <2>3 DEF StatusInv, Downstream
    <2> QED
      BY <2>2, <2>3
  <1> QED
    BY <1>1, StatusInvariant, PTL
=============================================================================
