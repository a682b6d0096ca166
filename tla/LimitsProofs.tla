---------------------------- MODULE LimitsProofs ----------------------------
(***************************************************************************)
(* LimitsKept for any number of goroutines, keys and limiters: no token of *)
(* a semaphore is lost and none is released twice, and the configured      *)
(* number of messages is in progress at most.                              *)
(*                                                                         *)
(* That the tokens are those of their holders is not inductive.  A release *)
(* gives a token back only while the bucket of the key is in its set, so   *)
(* the proof needs that the bucket of whoever holds a token stays; that in *)
(* turn needs that no bucket is ever stale, which comes from the sign of   *)
(* the comparison in BucketSet.take and a last use that is never in the    *)
(* future.  And the place a goroutine is at has to fit its call.           *)
(***************************************************************************)
EXTENDS Limits, TLAPS, FiniteSetTheorems

(* The place of a scope among the ones a call passes, 0 if it is not one.  *)
Place(op, s) ==
    CASE op = "msg" /\ s = "all" -> 1
      [] op = "msg" /\ s = "ip" -> 2
      [] op = "msg" /\ s = "source" -> 3
      [] op = "dest" /\ s = "destination" -> 1
      [] OTHER -> 0
Places(op) == IF op = "msg" THEN 3 ELSE 1

ScopeOf(r) == Stages(r.op)[r.stage]

(* What a goroutine in state r has of the scope s: its bucket, which it has*)
(* from the moment it begins to wait, and the token of the semaphore.      *)
HasBucket(r, s) ==
    LET i == Place(r.op, s) IN
    /\ r.pc # "idle" /\ i # 0
    /\ IF r.upto = 0 THEN i < r.stage \/ (i = r.stage /\ r.pc = "wait")
       ELSE r.stage <= i /\ i <= r.upto

HasToken(r, s) ==
    LET i == Place(r.op, s) IN
    /\ HasSem(s) /\ Configured(s)
    /\ r.pc # "idle" /\ i # 0
    /\ IF r.upto = 0
       THEN i < r.stage \/ (i = r.stage /\ r.pc = "wait" /\ SemAmong(s, r.at - 1))
       ELSE r.stage <= i /\ i <= r.upto

Goroutines == [pc : PCs, op : {"msg", "dest"}, key : [Scopes -> AllKeys],
               stage : 1 .. 3, at : Nat \ {0}, upto : 0 .. 3]

(* The fields of a goroutine fit together.                                 *)
Fits(r) ==
    /\ r \in Goroutines
    /\ r.stage <= Places(r.op) /\ r.upto <= Places(r.op)
    /\ r.pc = "idle" => r = Idle
    /\ r.pc # "idle" => \A s \in Scopes : r.key[s] \in KeysOf(s)
    /\ r.pc \in {"bucket", "wait"} => r.upto = 0
    /\ r.pc = "wait" => /\ Configured(ScopeOf(r))
                        /\ r.at <= Len(Limiters(ScopeOf(r)))
    /\ r.pc = "held" => r.stage = 1 /\ r.upto = Places(r.op)
    /\ r.pc = "release" => r.stage <= r.upto
    /\ r.pc = "panic" /\ r.upto # 0 => r.stage <= r.upto

ProcsFit == proc \in [Procs -> Goroutines] /\ \A p \in Procs : Fits(proc[p])

Counters ==
    /\ sem \in [Scopes -> [AllKeys -> 0 .. MaxCount]]
    /\ tokens \in [Scopes -> [AllKeys -> 0 .. Burst]]
    /\ buckets \in [Scopes -> SUBSET AllKeys]
    /\ now \in 0 .. MaxTime
    /\ lastUse \in [Scopes -> [AllKeys -> Nat]]
    /\ \A s \in Scopes : \A k \in AllKeys : lastUse[s][k] <= now

(* The bucket of everyone who has passed a scope is there.                 *)
BucketsStay ==
    \A p \in Procs : \A s \in Scopes \ {"all"} :
        Configured(s) /\ HasBucket(proc[p], s) => proc[p].key[s] \in buckets[s]

HoldersOf(s, k) == {p \in Procs : proc[p].key[s] = k /\ HasToken(proc[p], s)}

TokensCounted ==
    \A s \in Scopes : \A k \in KeysOf(s) : sem[s][k] = Cardinality(HoldersOf(s, k))

IInv == ProcsFit /\ Counters /\ BucketsStay /\ TokensCounted

----------------------------------------------------------------------------
(* Scopes and limiters.                                                    *)

LEMMA StagePlaces ==
    ASSUME NEW op \in {"msg", "dest"}
    PROVE  /\ Len(Stages(op)) = Places(op) /\ Places(op) \in 1 .. 3
           /\ \A i \in 1 .. Places(op) : /\ Stages(op)[i] \in Scopes
                                         /\ Place(op, Stages(op)[i]) = i
           /\ \A s \in Scopes : /\ Place(op, s) \in 0 .. Places(op)
                                /\ Place(op, s) # 0 => Stages(op)[Place(op, s)] = s
  <1>1. CASE op = "msg"
    <2>1. Stages(op) = <<"all", "ip", "source">> /\ Places(op) = 3
      BY <1>1 DEF Stages, Places
    <2>2. ASSUME NEW i \in 1 .. 3
          PROVE  Stages(op)[i] \in Scopes /\ Place(op, Stages(op)[i]) = i
      <3>1. i = 1 \/ i = 2 \/ i = 3  OBVIOUS
      <3> QED  BY <3>1, <2>1, <1>1 DEF Place, Scopes
    <2>3. ASSUME NEW s \in Scopes
          PROVE  Place(op, s) \in 0 .. 3 /\ (Place(op, s) # 0 => Stages(op)[Place(op, s)] = s)
      BY <2>1, <1>1 DEF Place, Scopes
    <2> QED  BY <2>1, <2>2, <2>3
  <1>2. CASE op = "dest"
    <2>1. Stages(op) = <<"destination">> /\ Places(op) = 1
      BY <1>2 DEF Stages, Places
    <2>2. ASSUME NEW i \in 1 .. 1
          PROVE  Stages(op)[i] \in Scopes /\ Place(op, Stages(op)[i]) = i
      <3>1. i = 1  OBVIOUS
      <3> QED  BY <3>1, <2>1, <1>2 DEF Place, Scopes
    <2>3. ASSUME NEW s \in Scopes
          PROVE  Place(op, s) \in 0 .. 1 /\ (Place(op, s) # 0 => Stages(op)[Place(op, s)] = s)
      BY <2>1, <1>2 DEF Place, Scopes
    <2> QED  BY <2>1, <2>2, <2>3
  <1> QED  BY <1>1, <1>2

(* A scope has one semaphore at most: before it there is none.             *)
LEMMA OneSemaphore ==
    ASSUME NEW s \in Scopes
    PROVE  /\ Len(Limiters(s)) \in Nat
           /\ ~SemAmong(s, 0)
           /\ \A n \in 1 .. Len(Limiters(s)) :
                /\ Limiters(s)[n] = "concurrency" => HasSem(s) /\ ~SemAmong(s, n - 1) /\ SemAmong(s, n)
                /\ Limiters(s)[n] = "rate" => SemAmong(s, n) = SemAmong(s, n - 1)
                /\ SemAmong(s, n) => HasSem(s)
  <1> DEFINE w == Limiters(s)
  <1>1. /\ w \in Seq(Kinds)
        /\ \A i, j \in DOMAIN w : w[i] = "concurrency" /\ w[j] = "concurrency" => i = j
    BY LimitsAssumption DEF Limiters, Scopes
  <1>2. Len(w) \in Nat /\ DOMAIN w = 1 .. Len(w)
    BY <1>1
  <1> HIDE DEF w
  <1>3. ~ \E i \in 1 .. 0 : w[i] = "concurrency"
    OBVIOUS
  <1>4. ASSUME NEW n \in 1 .. Len(w), w[n] = "concurrency"
        PROVE  /\ ~ \E i \in 1 .. n - 1 : w[i] = "concurrency"
               /\ \E i \in 1 .. n : w[i] = "concurrency"
               /\ \E i \in 1 .. Len(w) : w[i] = "concurrency"
    BY <1>1, <1>2, <1>4
  <1>5. ASSUME NEW n \in 1 .. Len(w), w[n] = "rate"
        PROVE  (\E i \in 1 .. n : w[i] = "concurrency") <=> (\E i \in 1 .. n - 1 : w[i] = "concurrency")
    <2>1. \A i \in 1 .. n : i = n \/ i \in 1 .. n - 1
      BY <1>2
    <2>2. \A i \in 1 .. n - 1 : i \in 1 .. n
      BY <1>2
    <2> QED  BY <1>5, <2>1, <2>2
  <1>6. ASSUME NEW n \in 1 .. Len(w), \E i \in 1 .. n : w[i] = "concurrency"
        PROVE  \E i \in 1 .. Len(w) : w[i] = "concurrency"
    BY <1>2, <1>6
  <1> QED  BY <1>2, <1>3, <1>4, <1>5, <1>6 DEF w, SemAmong, HasSem

----------------------------------------------------------------------------
(* One goroutine: what its steps make of the scopes it has taken.          *)

LEMMA ScopeFits ==
    ASSUME NEW r, Fits(r)
    PROVE  /\ ScopeOf(r) \in Scopes
           /\ Place(r.op, ScopeOf(r)) = r.stage
           /\ \A s \in Scopes : s # ScopeOf(r) => Place(r.op, s) # r.stage
  <1>1. r.op \in {"msg", "dest"} /\ r.stage \in 1 .. Places(r.op)
    BY StagePlaces DEF Fits, Goroutines
  <1> QED  BY <1>1, StagePlaces DEF ScopeOf

GoFields == {"pc", "op", "key", "stage", "at", "upto"}

LEMMA GoroutineFields ==
    ASSUME NEW r
    PROVE  r \in Goroutines <=>
             /\ r = [f \in GoFields |-> r[f]]
             /\ r.pc \in PCs /\ r.op \in {"msg", "dest"} /\ r.key \in [Scopes -> AllKeys]
             /\ r.stage \in 1 .. 3 /\ r.at \in Nat \ {0} /\ r.upto \in 0 .. 3
  BY DEF Goroutines, GoFields

(* All scopes up to the one the goroutine is at are passed.                *)
LEMMA AdvanceStep ==
    ASSUME NEW r, Fits(r), r.pc \in {"bucket", "wait"}
    PROVE  LET n == Advance(r) IN
           /\ Fits(n) /\ n.key = r.key /\ n.pc # "idle" /\ n.pc # "wait"
           /\ \A s \in Scopes : /\ HasBucket(n, s) <=> Place(r.op, s) \in 1 .. r.stage
                                /\ HasToken(n, s) <=> HasSem(s) /\ Configured(s)
                                                      /\ Place(r.op, s) \in 1 .. r.stage
  <1> DEFINE n == Advance(r)
  <1>1. /\ r \in Goroutines /\ r.stage \in 1 .. Places(r.op) /\ Places(r.op) \in 1 .. 3
        /\ Len(Stages(r.op)) = Places(r.op) /\ r.upto = 0
        /\ \A s \in Scopes : r.key[s] \in KeysOf(s)
        /\ \A s \in Scopes : Place(r.op, s) \in 0 .. Places(r.op)
    BY StagePlaces DEF Fits, Goroutines
  <1>2. CASE r.stage = Places(r.op)
    <2>1. n = [r EXCEPT !.pc = "held", !.stage = 1, !.upto = Places(r.op)]
      BY <1>1, <1>2 DEF Advance
    <2> HIDE DEF n
    <2>2. /\ n \in Goroutines /\ n.pc = "held" /\ n.op = r.op /\ n.key = r.key
          /\ n.stage = 1 /\ n.upto = Places(r.op)
      <3>1. r = [f \in GoFields |-> r[f]]
        BY <1>1, GoroutineFields
      <3>2. /\ n = [f \in GoFields |-> n[f]] /\ n.pc = "held" /\ n.op = r.op /\ n.key = r.key
            /\ n.stage = 1 /\ n.at = r.at /\ n.upto = Places(r.op)
        BY <2>1, <3>1 DEF GoFields
      <3> QED  BY <3>2, <1>1, GoroutineFields DEF PCs
    <2>3. Fits(n)
      BY <2>2, <1>1 DEF Fits
    <2>4. ASSUME NEW s \in Scopes
          PROVE  /\ HasBucket(n, s) <=> Place(r.op, s) \in 1 .. r.stage
                 /\ HasToken(n, s) <=> HasSem(s) /\ Configured(s) /\ Place(r.op, s) \in 1 .. r.stage
      BY <2>2, <1>1, <1>2 DEF HasBucket, HasToken
    <2> QED  BY <2>2, <2>3, <2>4 DEF n
  <1>3. CASE r.stage # Places(r.op)
    <2>1. n = [r EXCEPT !.pc = "bucket", !.stage = @ + 1, !.at = 1]
      BY <1>1, <1>3 DEF Advance
    <2> HIDE DEF n
    <2>2. /\ n \in Goroutines /\ n.pc = "bucket" /\ n.op = r.op /\ n.key = r.key
          /\ n.stage = r.stage + 1 /\ n.upto = 0
      <3>1. r = [f \in GoFields |-> r[f]]
        BY <1>1, GoroutineFields
      <3>2. /\ n = [f \in GoFields |-> n[f]] /\ n.pc = "bucket" /\ n.op = r.op /\ n.key = r.key
            /\ n.stage = r.stage + 1 /\ n.at = 1 /\ n.upto = r.upto
        BY <2>1, <3>1 DEF GoFields
      <3> QED  BY <3>2, <1>1, <1>3, GoroutineFields DEF PCs
    <2>3. Fits(n)
      BY <2>2, <1>1, <1>3 DEF Fits
    <2>4. ASSUME NEW s \in Scopes
          PROVE  /\ HasBucket(n, s) <=> Place(r.op, s) \in 1 .. r.stage
                 /\ HasToken(n, s) <=> HasSem(s) /\ Configured(s) /\ Place(r.op, s) \in 1 .. r.stage
      BY <2>2, <1>1, <1>3 DEF HasBucket, HasToken
    <2> QED  BY <2>2, <2>3, <2>4 DEF n
  <1> QED  BY <1>2, <1>3

(* The first n - 1 limiters of the scope are passed.                       *)
LEMMA SettleStep ==
    ASSUME NEW r, Fits(r), r.pc \in {"bucket", "wait"}, Configured(ScopeOf(r)),
           NEW n \in 1 .. Len(Limiters(ScopeOf(r))) + 1
    PROVE  LET q == Settle(r, n)
               c == ScopeOf(r)
           IN  /\ Fits(q) /\ q.key = r.key /\ q.pc # "idle"
               /\ \A s \in Scopes : HasBucket(q, s) <=> Place(r.op, s) \in 1 .. r.stage
               /\ \A s \in Scopes \ {c} : HasToken(q, s) <=> HasToken(r, s)
               /\ HasToken(q, c) <=> SemAmong(c, n - 1)
  <1> DEFINE q == Settle(r, n)
             c == ScopeOf(r)
  <1>1. /\ r \in Goroutines /\ r.stage \in 1 .. Places(r.op) /\ Places(r.op) \in 1 .. 3
        /\ r.upto = 0 /\ r.pc # "idle"
        /\ \A s \in Scopes : r.key[s] \in KeysOf(s)
        /\ \A s \in Scopes : Place(r.op, s) \in 0 .. Places(r.op)
    BY StagePlaces DEF Fits, Goroutines
  <1>2. c \in Scopes /\ Place(r.op, c) = r.stage /\ \A s \in Scopes : s # c => Place(r.op, s) # r.stage
    BY ScopeFits
  <1>3. Len(Limiters(c)) \in Nat
    BY <1>2, OneSemaphore
  <1>4. \A s \in Scopes \ {c} :
          HasToken(r, s) <=> HasSem(s) /\ Configured(s) /\ Place(r.op, s) \in 1 .. r.stage
    BY <1>1, <1>2 DEF HasToken
  <1>5. CASE n > Len(Limiters(c))
    <2>1. q = Advance(r)
      BY <1>5 DEF Settle, ScopeOf
    <2>2. n - 1 = Len(Limiters(c))
      BY <1>5, <1>3
    <2>3. HasToken(q, c) <=> SemAmong(c, n - 1)
      BY <2>1, <2>2, <1>1, <1>2, AdvanceStep DEF HasSem
    <2> QED  BY <2>1, <2>3, <1>4, AdvanceStep
  <1>6. CASE n <= Len(Limiters(c))
    <2>1. q = [r EXCEPT !.pc = "wait", !.at = n]
      BY <1>6, <1>3 DEF Settle, ScopeOf
    <2> HIDE DEF q
    <2>2. /\ q \in Goroutines /\ q.pc = "wait" /\ q.op = r.op /\ q.key = r.key
          /\ q.stage = r.stage /\ q.upto = 0 /\ q.at = n
      <3>1. r = [f \in GoFields |-> r[f]]
        BY <1>1, GoroutineFields
      <3>2. /\ q = [f \in GoFields |-> q[f]] /\ q.pc = "wait" /\ q.op = r.op /\ q.key = r.key
            /\ q.stage = r.stage /\ q.at = n /\ q.upto = r.upto
        BY <2>1, <3>1 DEF GoFields
      <3> QED  BY <3>2, <1>1, <1>3, GoroutineFields DEF PCs
    <2>3. Fits(q)
      BY <2>2, <1>1, <1>6 DEF Fits, ScopeOf
    <2>4. ASSUME NEW s \in Scopes
          PROVE  HasBucket(q, s) <=> Place(r.op, s) \in 1 .. r.stage
      BY <2>2, <1>1 DEF HasBucket
    <2>5. ASSUME NEW s \in Scopes \ {c} PROVE HasToken(q, s) <=> HasToken(r, s)
      BY <2>2, <1>1, <1>2, <1>4 DEF HasToken
    <2>6. SemAmong(c, n - 1) => HasSem(c)
      <3>1. n - 1 = 0 \/ n - 1 \in 1 .. Len(Limiters(c))
        BY <1>3
      <3> QED  BY <3>1, <1>2, OneSemaphore
    <2>7. HasToken(q, c) <=> SemAmong(c, n - 1)
      BY <2>2, <2>6, <1>1, <1>2 DEF HasToken
    <2> QED  BY <2>2, <2>3, <2>4, <2>5, <2>7 DEF q
  <1> QED  BY <1>3, <1>5, <1>6

(* A goroutine that is idle has nothing.                                   *)
LEMMA IdleFits ==
    /\ Fits(Idle)
    /\ \A s : ~HasToken(Idle, s) /\ ~HasBucket(Idle, s)
  <1>1. /\ Idle = [f \in GoFields |-> Idle[f]]
        /\ Idle.pc = "idle" /\ Idle.op = "msg" /\ Idle.stage = 1 /\ Idle.at = 1 /\ Idle.upto = 0
    BY DEF Idle, GoFields
  <1>2. Idle.key \in [Scopes -> AllKeys]
    BY DEF Idle, AllKeys
  <1>3. Idle \in Goroutines
    BY <1>1, <1>2, GoroutineFields DEF PCs
  <1>4. Fits(Idle)
    BY <1>1, <1>3 DEF Fits, Places
  <1> QED  BY <1>1, <1>4 DEF HasToken, HasBucket

(* A step that only moves the program counter, to a panic or to a release, *)
(* changes nothing of what is held.                                        *)
LEMMA PcStep ==
    ASSUME NEW r, Fits(r), NEW q,
           \/ r.pc \in {"bucket", "release"} /\ q = [r EXCEPT !.pc = "panic"]
           \/ r.pc = "held" /\ q = [r EXCEPT !.pc = "release"]
    PROVE  /\ Fits(q) /\ q.key = r.key
           /\ \A s \in Scopes : /\ HasToken(q, s) <=> HasToken(r, s)
                                /\ HasBucket(q, s) <=> HasBucket(r, s)
  <1>1. r = [f \in GoFields |-> r[f]] /\ r.pc # "idle" /\ r.pc # "wait" /\ r \in Goroutines
    BY GoroutineFields DEF Fits
  <1>2. /\ q = [f \in GoFields |-> q[f]] /\ q.pc \in {"panic", "release"} /\ q.op = r.op
        /\ q.key = r.key /\ q.stage = r.stage /\ q.at = r.at /\ q.upto = r.upto
    BY <1>1 DEF GoFields
  <1>3. q \in Goroutines
    BY <1>1, <1>2, GoroutineFields DEF PCs
  <1>4. Fits(q)
    <2>1. Places(r.op) \in 1 .. 3
      BY <1>1, StagePlaces, GoroutineFields
    <2>2. CASE r.pc \in {"bucket", "release"}
      <3>1. q.pc = "panic"  BY <2>2, <1>1 DEF GoFields
      <3> QED  BY <1>1, <1>2, <1>3, <2>2, <3>1 DEF Fits
    <2>3. CASE r.pc = "held"
      <3>1. q.pc = "release"  BY <2>3, <1>1 DEF GoFields
      <3> QED  BY <1>1, <1>2, <1>3, <2>1, <2>3, <3>1 DEF Fits
    <2> QED  BY <2>2, <2>3
  <1>5. ASSUME NEW s \in Scopes
        PROVE  /\ HasToken(q, s) <=> HasToken(r, s)
               /\ HasBucket(q, s) <=> HasBucket(r, s)
    <2>1. CASE r.pc \in {"bucket", "release"}
      <3>1. q.pc = "panic"  BY <2>1, <1>1 DEF GoFields
      <3> QED  BY <1>1, <1>2, <3>1 DEF HasToken, HasBucket
    <2>2. CASE r.pc = "held"
      <3>1. q.pc = "release"  BY <2>2, <1>1 DEF GoFields
      <3> QED  BY <1>1, <1>2, <3>1 DEF HasToken, HasBucket
    <2> QED  BY <2>1, <2>2
  <1> QED  BY <1>2, <1>4, <1>5

(* The end of a context: the token of the scope it waited in is given up,  *)
(* the ones of the scopes before it are kept until they are released.      *)
LEMMA TimeoutStep ==
    ASSUME NEW r, Fits(r), r.pc = "wait"
    PROVE  LET q == AfterTimeout(r)
               c == ScopeOf(r)
           IN  /\ Fits(q) /\ (q = Idle \/ q.key = r.key)
               /\ HasToken(r, c) <=> SemAmong(c, r.at - 1)
               /\ ~HasToken(q, c)
               /\ \A s \in Scopes \ {c} : HasToken(q, s) <=> HasToken(r, s)
               /\ \A s \in Scopes : HasBucket(q, s) => HasBucket(r, s)
  <1> DEFINE q == AfterTimeout(r)
             c == ScopeOf(r)
  <1>1. /\ r \in Goroutines /\ r.stage \in 1 .. Places(r.op) /\ Places(r.op) \in 1 .. 3
        /\ r.upto = 0 /\ r.pc # "idle" /\ Configured(c)
        /\ r.at \in 1 .. Len(Limiters(c))
        /\ \A s \in Scopes : r.key[s] \in KeysOf(s)
        /\ \A s \in Scopes : Place(r.op, s) \in 0 .. Places(r.op)
    BY StagePlaces, ScopeFits, OneSemaphore DEF Fits, Goroutines
  <1>2. c \in Scopes /\ Place(r.op, c) = r.stage /\ \A s \in Scopes : s # c => Place(r.op, s) # r.stage
    BY ScopeFits
  <1>3. HasToken(r, c) <=> SemAmong(c, r.at - 1)
    <2>1. SemAmong(c, r.at - 1) => HasSem(c)
      <3>1. r.at - 1 = 0 \/ r.at - 1 \in 1 .. Len(Limiters(c))
        BY <1>1, <1>2, OneSemaphore
      <3> QED  BY <3>1, <1>2, OneSemaphore
    <2> QED  BY <2>1, <1>1, <1>2 DEF HasToken
  <1>4. CASE r.stage = 1
    <2>1. q = Idle  BY <1>4 DEF AfterTimeout
    <2>2. ASSUME NEW s \in Scopes \ {c} PROVE ~HasToken(r, s)
      BY <1>1, <1>2, <1>4 DEF HasToken
    <2> QED  BY <2>1, <2>2, <1>3, IdleFits
  <1>5. CASE r.stage # 1
    <2>1. q = [r EXCEPT !.pc = "release", !.stage = 1, !.upto = r.stage - 1]
      BY <1>5 DEF AfterTimeout
    <2> HIDE DEF q
    <2>2. r = [f \in GoFields |-> r[f]]
      BY <1>1, GoroutineFields
    <2>3. /\ q = [f \in GoFields |-> q[f]] /\ q.pc = "release" /\ q.op = r.op
          /\ q.key = r.key /\ q.stage = 1 /\ q.at = r.at /\ q.upto = r.stage - 1
      BY <2>1, <2>2 DEF GoFields
    <2>4. q.upto \in 1 .. 2 /\ q.upto <= Places(q.op)
      BY <2>3, <1>1, <1>5
    <2>5. q \in Goroutines
      BY <2>3, <2>4, <1>1, GoroutineFields DEF PCs
    <2>6. Fits(q)
      BY <2>3, <2>4, <2>5, <1>1 DEF Fits
    <2>7. ~HasToken(q, c)
      BY <2>3, <2>4, <1>1, <1>2 DEF HasToken
    <2>8. ASSUME NEW s \in Scopes \ {c} PROVE HasToken(q, s) <=> HasToken(r, s)
      BY <2>3, <2>4, <1>1, <1>2 DEF HasToken
    <2>9. ASSUME NEW s \in Scopes PROVE HasBucket(q, s) => HasBucket(r, s)
      BY <2>3, <2>4, <1>1, <1>2 DEF HasBucket
    <2> QED  BY <2>3, <2>6, <2>7, <2>8, <2>9, <1>3 DEF q
  <1> QED  BY <1>4, <1>5

(* A release gives up one scope and goes on to the next.                   *)
LEMMA ReleaseStep ==
    ASSUME NEW r, Fits(r), r.pc = "release"
    PROVE  LET q == NextRelease(r)
               c == ScopeOf(r)
           IN  /\ Fits(q) /\ (q = Idle \/ q.key = r.key)
               /\ HasToken(r, c) <=> HasSem(c) /\ Configured(c)
               /\ HasBucket(r, c)
               /\ ~HasToken(q, c)
               /\ \A s \in Scopes \ {c} : HasToken(q, s) <=> HasToken(r, s)
               /\ \A s \in Scopes : HasBucket(q, s) => HasBucket(r, s)
  <1> DEFINE q == NextRelease(r)
             c == ScopeOf(r)
  <1>1. /\ r \in Goroutines /\ r.stage \in 1 .. Places(r.op) /\ Places(r.op) \in 1 .. 3
        /\ r.upto \in 1 .. Places(r.op) /\ r.stage <= r.upto
        /\ \A s \in Scopes : r.key[s] \in KeysOf(s)
        /\ \A s \in Scopes : Place(r.op, s) \in 0 .. Places(r.op)
    BY StagePlaces DEF Fits, Goroutines
  <1>2. c \in Scopes /\ Place(r.op, c) = r.stage /\ \A s \in Scopes : s # c => Place(r.op, s) # r.stage
    BY ScopeFits
  <1>3. /\ HasToken(r, c) <=> HasSem(c) /\ Configured(c)
        /\ HasBucket(r, c)
    BY <1>1, <1>2 DEF HasToken, HasBucket
  <1>4. CASE r.stage = r.upto
    <2>1. q = Idle  BY <1>4 DEF NextRelease
    <2>2. ASSUME NEW s \in Scopes \ {c} PROVE ~HasToken(r, s)
      BY <1>1, <1>2, <1>4 DEF HasToken
    <2> QED  BY <2>1, <2>2, <1>3, IdleFits
  <1>5. CASE r.stage # r.upto
    <2>1. q = [r EXCEPT !.stage = @ + 1]
      BY <1>5 DEF NextRelease
    <2> HIDE DEF q
    <2>2. r = [f \in GoFields |-> r[f]]
      BY <1>1, GoroutineFields
    <2>3. /\ q = [f \in GoFields |-> q[f]] /\ q.pc = "release" /\ q.op = r.op
          /\ q.key = r.key /\ q.stage = r.stage + 1 /\ q.at = r.at /\ q.upto = r.upto
      BY <2>1, <2>2 DEF GoFields
    <2>4. q.stage \in 1 .. 3 /\ q.stage <= r.upto
      BY <2>3, <1>1, <1>5
    <2>5. q \in Goroutines
      BY <2>3, <2>4, <1>1, GoroutineFields DEF PCs
    <2>6. Fits(q)
      BY <2>3, <2>4, <2>5, <1>1 DEF Fits
    <2>7. ~HasToken(q, c)
      BY <2>3, <2>4, <1>1, <1>2 DEF HasToken
    <2>8. ASSUME NEW s \in Scopes \ {c} PROVE HasToken(q, s) <=> HasToken(r, s)
      BY <2>3, <2>4, <1>1, <1>2 DEF HasToken
    <2>9. ASSUME NEW s \in Scopes PROVE HasBucket(q, s) => HasBucket(r, s)
      BY <2>3, <2>4, <1>1, <1>2 DEF HasBucket
    <2> QED  BY <2>3, <2>6, <2>7, <2>8, <2>9, <1>3 DEF q
  <1> QED  BY <1>4, <1>5

----------------------------------------------------------------------------
(* All goroutines, when one of them moves.                                 *)

LEMMA OneMoves ==
    ASSUME ProcsFit, NEW p \in Procs, NEW q, Fits(q), proc' = [proc EXCEPT ![p] = q]
    PROVE  ProcsFit' /\ \A o \in Procs : proc'[o] = IF o = p THEN q ELSE proc[o]
  <1>1. q \in Goroutines  BY DEF Fits
  <1>2. proc' \in [Procs -> Goroutines] /\ \A o \in Procs : proc'[o] = IF o = p THEN q ELSE proc[o]
    BY <1>1 DEF ProcsFit
  <1>3. \A o \in Procs : Fits(proc'[o])
    BY <1>2 DEF ProcsFit
  <1> QED  BY <1>2, <1>3 DEF ProcsFit

(* What p has of the scope s is the same: so are its holders.              *)
LEMMA HoldersSame ==
    ASSUME NEW p \in Procs, NEW q, \A o \in Procs : proc'[o] = IF o = p THEN q ELSE proc[o],
           NEW s, HasToken(q, s) <=> HasToken(proc[p], s),
           HasToken(q, s) => q.key = proc[p].key, NEW k
    PROVE  HoldersOf(s, k)' = HoldersOf(s, k)
  <1>1. \A o \in Procs : proc'[o].key[s] = k /\ HasToken(proc'[o], s)
                           <=> proc[o].key[s] = k /\ HasToken(proc[o], s)
    OBVIOUS
  <1> QED  BY <1>1 DEF HoldersOf

LEMMA HoldersFinite ==
    ASSUME NEW s, NEW k
    PROVE  IsFiniteSet(HoldersOf(s, k)) /\ Cardinality(HoldersOf(s, k)) \in Nat
  <1>1. HoldersOf(s, k) \in SUBSET Procs  BY DEF HoldersOf
  <1>2. IsFiniteSet(HoldersOf(s, k))  BY <1>1, ProcsAssumption, FS_Subset
  <1> QED  BY <1>2, FS_CardinalityType

LEMMA HoldersMore ==
    ASSUME NEW p \in Procs, NEW q, \A o \in Procs : proc'[o] = IF o = p THEN q ELSE proc[o],
           NEW s, HasToken(q, s), ~HasToken(proc[p], s), q.key = proc[p].key, NEW k
    PROVE  Cardinality(HoldersOf(s, k)') =
             Cardinality(HoldersOf(s, k)) + (IF k = proc[p].key[s] THEN 1 ELSE 0)
  <1>1. CASE k = proc[p].key[s]
    <2>1. HoldersOf(s, k)' = HoldersOf(s, k) \cup {p} /\ p \notin HoldersOf(s, k)
      BY <1>1 DEF HoldersOf
    <2> QED  BY <1>1, <2>1, HoldersFinite, FS_AddElement
  <1>2. CASE k # proc[p].key[s]
    <2>1. HoldersOf(s, k)' = HoldersOf(s, k)
      BY <1>2 DEF HoldersOf
    <2> QED  BY <1>2, <2>1, HoldersFinite
  <1> QED  BY <1>1, <1>2

LEMMA HoldersFewer ==
    ASSUME NEW p \in Procs, NEW q, \A o \in Procs : proc'[o] = IF o = p THEN q ELSE proc[o],
           NEW s, ~HasToken(q, s), HasToken(proc[p], s), NEW k
    PROVE  /\ Cardinality(HoldersOf(s, k)') =
                Cardinality(HoldersOf(s, k)) - (IF k = proc[p].key[s] THEN 1 ELSE 0)
           /\ k = proc[p].key[s] => Cardinality(HoldersOf(s, k)) > 0
  <1>1. CASE k = proc[p].key[s]
    <2>1. HoldersOf(s, k)' = HoldersOf(s, k) \ {p} /\ p \in HoldersOf(s, k)
      BY <1>1 DEF HoldersOf
    <2>2. Cardinality(HoldersOf(s, k)) # 0
      BY <2>1, HoldersFinite, FS_EmptySet
    <2>3. Cardinality(HoldersOf(s, k)') = Cardinality(HoldersOf(s, k)) - 1
      <3> DEFINE S == HoldersOf(s, k)
      <3>1. IsFiniteSet(S) /\ p \in S  BY <2>1, HoldersFinite
      <3> HIDE DEF S
      <3>2. Cardinality(S \ {p}) = Cardinality(S) - 1  BY <3>1, FS_RemoveElement
      <3> QED  BY <3>2, <2>1 DEF S
    <2> QED  BY <1>1, <2>2, <2>3, HoldersFinite
  <1>2. CASE k # proc[p].key[s]
    <2>1. HoldersOf(s, k)' = HoldersOf(s, k)
      BY <1>2 DEF HoldersOf
    <2> QED  BY <1>2, <2>1, HoldersFinite
  <1> QED  BY <1>1, <1>2

LEMMA CountSame ==
    ASSUME TokensCounted, sem' = sem,
           NEW p \in Procs, NEW q, \A o \in Procs : proc'[o] = IF o = p THEN q ELSE proc[o],
           \A s \in Scopes : /\ HasToken(q, s) <=> HasToken(proc[p], s)
                             /\ HasToken(q, s) => q.key = proc[p].key
    PROVE  TokensCounted'
  <1>1. \A s \in Scopes : \A k \in KeysOf(s) : HoldersOf(s, k)' = HoldersOf(s, k)
    BY HoldersSame
  <1> QED  BY <1>1 DEF TokensCounted

LEMMA CountMore ==
    ASSUME TokensCounted, Counters,
           NEW p \in Procs, NEW q, \A o \in Procs : proc'[o] = IF o = p THEN q ELSE proc[o],
           NEW c \in Scopes, q.key = proc[p].key, proc[p].key[c] \in AllKeys,
           sem' = [sem EXCEPT ![c][proc[p].key[c]] = @ + 1],
           HasToken(q, c), ~HasToken(proc[p], c),
           \A s \in Scopes \ {c} : HasToken(q, s) <=> HasToken(proc[p], s)
    PROVE  TokensCounted'
  <1>1. ASSUME NEW s \in Scopes, NEW k \in KeysOf(s)
        PROVE  sem'[s][k] = Cardinality(HoldersOf(s, k)')
    <2>1. k \in AllKeys  BY DEF KeysOf, AllKeys
    <2>2. sem[s][k] = Cardinality(HoldersOf(s, k))  BY DEF TokensCounted
    <2>3. CASE s = c
      <3>1. sem'[s][k] = sem[s][k] + (IF k = proc[p].key[s] THEN 1 ELSE 0)
        BY <2>1, <2>3 DEF Counters
      <3>2. Cardinality(HoldersOf(s, k)') =
              Cardinality(HoldersOf(s, k)) + (IF k = proc[p].key[s] THEN 1 ELSE 0)
        BY <2>3, HoldersMore
      <3> QED  BY <3>1, <3>2, <2>2
    <2>4. CASE s # c
      <3>1. sem'[s][k] = sem[s][k]
        BY <2>4 DEF Counters
      <3>2. HoldersOf(s, k)' = HoldersOf(s, k)
        BY <2>4, HoldersSame
      <3> QED  BY <3>1, <3>2, <2>2
    <2> QED  BY <2>3, <2>4
  <1> QED  BY <1>1 DEF TokensCounted

LEMMA CountFewer ==
    ASSUME TokensCounted, Counters,
           NEW p \in Procs, NEW q, \A o \in Procs : proc'[o] = IF o = p THEN q ELSE proc[o],
           NEW c \in Scopes, proc[p].key[c] \in KeysOf(c),
           sem' = GiveBack(c, proc[p].key[c]),
           ~HasToken(q, c), HasToken(proc[p], c),
           \A s \in Scopes \ {c} : /\ HasToken(q, s) <=> HasToken(proc[p], s)
                                   /\ HasToken(q, s) => q.key = proc[p].key
    PROVE  TokensCounted' /\ sem[c][proc[p].key[c]] > 0
  <1>1. ASSUME NEW s \in Scopes, NEW k \in KeysOf(s)
        PROVE  sem'[s][k] = Cardinality(HoldersOf(s, k)')
    <2>1. k \in AllKeys  BY DEF KeysOf, AllKeys
    <2>2. sem[s][k] = Cardinality(HoldersOf(s, k))  BY DEF TokensCounted
    <2>3. CASE s = c
      <3>1. sem'[s][k] = sem[s][k] - (IF k = proc[p].key[s] THEN 1 ELSE 0)
        BY <2>1, <2>3 DEF Counters, GiveBack
      <3>2. Cardinality(HoldersOf(s, k)') =
              Cardinality(HoldersOf(s, k)) - (IF k = proc[p].key[s] THEN 1 ELSE 0)
        BY <2>3, HoldersFewer
      <3> QED  BY <3>1, <3>2, <2>2
    <2>4. CASE s # c
      <3>1. sem'[s][k] = sem[s][k]
        BY <2>4 DEF Counters, GiveBack
      <3>2. HoldersOf(s, k)' = HoldersOf(s, k)
        BY <2>4, HoldersSame
      <3> QED  BY <3>1, <3>2, <2>2
    <2> QED  BY <2>3, <2>4
  <1>2. sem[c][proc[p].key[c]] > 0
    <2>1. Cardinality(HoldersOf(c, proc[p].key[c])) > 0
      BY HoldersFewer
    <2> QED  BY <2>1 DEF TokensCounted
  <1> QED  BY <1>1, <1>2 DEF TokensCounted

LEMMA BucketsGrow ==
    ASSUME BucketsStay, NEW p \in Procs, NEW q,
           \A o \in Procs : proc'[o] = IF o = p THEN q ELSE proc[o],
           \A s \in Scopes : buckets[s] \subseteq buckets'[s],
           \A s \in Scopes \ {"all"} : Configured(s) /\ HasBucket(q, s) =>
             \/ HasBucket(proc[p], s) /\ q.key = proc[p].key
             \/ q.key[s] \in buckets'[s]
    PROVE  BucketsStay'
  <1>1. ASSUME NEW o \in Procs, NEW s \in Scopes \ {"all"}, Configured(s), HasBucket(proc'[o], s)
        PROVE  proc'[o].key[s] \in buckets'[s]
    BY <1>1 DEF BucketsStay
  <1> QED  BY <1>1 DEF BucketsStay

----------------------------------------------------------------------------
(* The actions.                                                            *)

LEMMA NeverStale ==
    ASSUME Counters, NEW s \in Scopes
    PROVE  {k \in buckets[s] : ~Stale(s, k)} = buckets[s]
  <1>1. ASSUME NEW k \in buckets[s] PROVE ~Stale(s, k)
    <2>1. k \in AllKeys  BY DEF Counters
    <2>2. lastUse[s][k] \in Nat /\ lastUse[s][k] <= now /\ now \in Nat
      BY <2>1, LimitsAssumption DEF Counters
    <2> QED  BY <2>2, LimitsAssumption DEF Stale
  <1> QED  BY <1>1

(* BucketSet.take, with the set as it is: nothing is ever dropped.         *)
LEMMA TakeBucketDropsNothing ==
    ASSUME IInv, NEW p \in Procs, TakeBucket(p)
    PROVE  /\ sem' = sem /\ tokens' = tokens /\ now' = now
           /\ \/ /\ proc' = [proc EXCEPT ![p].pc = "panic"]
                 /\ buckets' = buckets /\ lastUse' = lastUse
              \/ /\ proc' = [proc EXCEPT ![p] = Settle(@, 1)]
                 /\ buckets' = [buckets EXCEPT ![Scope(p)] = @ \union {Key(p)}]
                 /\ lastUse' = [lastUse EXCEPT ![Scope(p)][Key(p)] = now]
  <1> DEFINE s == Scope(p)
             left == IF Full(buckets[s]) THEN {k \in buckets[s] : ~Stale(s, k)} ELSE buckets[s]
  <1>1. s \in Scopes
    BY ScopeFits DEF Scope, ScopeOf, IInv, ProcsFit
  <1>2. left = buckets[s]
    BY <1>1, NeverStale DEF IInv
  <1>3. /\ sem' = [sem EXCEPT ![s] = [k \in AllKeys |->
                      IF k \in buckets[s] \ left THEN 0 ELSE sem[s][k]]]
        /\ tokens' = [tokens EXCEPT ![s] = [k \in AllKeys |->
                         IF k \in buckets[s] \ left THEN Burst ELSE tokens[s][k]]]
        /\ now' = now
    BY DEF TakeBucket
  <1>4. \/ /\ proc' = [proc EXCEPT ![p].pc = "panic"]
           /\ buckets' = [buckets EXCEPT ![s] = left]
           /\ UNCHANGED lastUse
        \/ /\ buckets' = [buckets EXCEPT ![s] = left \union {Key(p)}]
           /\ lastUse' = [lastUse EXCEPT ![s][Key(p)] = now]
           /\ proc' = [proc EXCEPT ![p] = Settle(@, 1)]
    BY DEF TakeBucket
  <1> HIDE DEF left, s
  <1>5. sem' = [sem EXCEPT ![s] = [k \in AllKeys |-> sem[s][k]]]
    BY <1>2, <1>3
  <1>6. tokens' = [tokens EXCEPT ![s] = [k \in AllKeys |-> tokens[s][k]]]
    BY <1>2, <1>3
  <1>7. sem' = sem /\ tokens' = tokens
    BY <1>1, <1>5, <1>6 DEF IInv, Counters
  <1>8. [buckets EXCEPT ![s] = buckets[s]] = buckets
    BY <1>1 DEF IInv, Counters
  <1> QED  BY <1>2, <1>3, <1>4, <1>7, <1>8 DEF s

LEMMA ScopeAndKey ==
    ASSUME IInv, NEW p \in Procs, proc[p].pc # "idle"
    PROVE  /\ Fits(proc[p]) /\ Scope(p) = ScopeOf(proc[p]) /\ Scope(p) \in Scopes
           /\ Key(p) = proc[p].key[Scope(p)] /\ Key(p) \in KeysOf(Scope(p)) /\ Key(p) \in AllKeys
  <1>1. Fits(proc[p]) /\ Scope(p) = ScopeOf(proc[p])
    BY DEF IInv, ProcsFit, Scope, ScopeOf
  <1>2. Scope(p) \in Scopes
    BY <1>1, ScopeFits
  <1>3. Key(p) = proc[p].key[Scope(p)] /\ Key(p) \in KeysOf(Scope(p))
    BY <1>1, <1>2 DEF Key, Fits
  <1> QED  BY <1>1, <1>2, <1>3 DEF KeysOf, AllKeys

LEMMA CallInv ==
    ASSUME IInv, NEW p \in Procs, Call(p)
    PROVE  IInv'
  <1>1. PICK op \in {"msg", "dest"}, k \in Keys, d \in Keys :
           proc' = [proc EXCEPT ![p] = [Idle EXCEPT !.pc = "bucket", !.op = op,
                                                      !.key = KeysFor(k, d)]]
    BY DEF Call
  <1> DEFINE key == KeysFor(k, d)
             q == [Idle EXCEPT !.pc = "bucket", !.op = op, !.key = key]
  <1>2. proc' = [proc EXCEPT ![p] = q]  BY <1>1
  <1>3. key \in [Scopes -> AllKeys] /\ \A s \in Scopes : key[s] \in KeysOf(s)
    BY DEF KeysFor, Scopes, AllKeys, KeysOf
  <1> HIDE DEF key
  <1>4. /\ q = [f \in GoFields |-> q[f]] /\ q.pc = "bucket" /\ q.op = op /\ q.key = key
        /\ q.stage = 1 /\ q.at = 1 /\ q.upto = 0
    BY DEF Idle, GoFields
  <1> HIDE DEF q
  <1>5. q \in Goroutines
    BY <1>3, <1>4, GoroutineFields DEF PCs
  <1>6. Fits(q)
    BY <1>3, <1>4, <1>5 DEF Fits, Places
  <1>7. \A s \in Scopes : ~HasToken(q, s) /\ ~HasBucket(q, s)
    BY <1>4, StagePlaces DEF HasToken, HasBucket
  <1>8. proc[p] = Idle
    BY DEF Call, IInv, ProcsFit, Fits
  <1>9. ProcsFit' /\ \A o \in Procs : proc'[o] = IF o = p THEN q ELSE proc[o]
    BY <1>2, <1>6, OneMoves DEF IInv
  <1>10. sem' = sem /\ tokens' = tokens /\ buckets' = buckets /\ lastUse' = lastUse /\ now' = now
    BY DEF Call
  <1>11. TokensCounted'
    BY <1>7, <1>8, <1>9, <1>10, CountSame, IdleFits DEF IInv
  <1>12. BucketsStay'
    BY <1>7, <1>9, <1>10, BucketsGrow DEF IInv
  <1> QED  BY <1>9, <1>10, <1>11, <1>12 DEF IInv, Counters

LEMMA TakeBucketInv ==
    ASSUME IInv, NEW p \in Procs, TakeBucket(p)
    PROVE  IInv'
  <1>1. proc[p].pc = "bucket" /\ Scope(p) # "all" /\ Configured(Scope(p))
    BY DEF TakeBucket
  <1>2. /\ Fits(proc[p]) /\ Scope(p) = ScopeOf(proc[p]) /\ Scope(p) \in Scopes
        /\ Key(p) = proc[p].key[Scope(p)] /\ Key(p) \in AllKeys
    BY <1>1, ScopeAndKey
  <1>3. sem' = sem /\ tokens' = tokens /\ now' = now
    BY TakeBucketDropsNothing
  <1>4. CASE /\ proc' = [proc EXCEPT ![p].pc = "panic"]
             /\ buckets' = buckets /\ lastUse' = lastUse
    <2> DEFINE q == [proc[p] EXCEPT !.pc = "panic"]
    <2>1. proc' = [proc EXCEPT ![p] = q]
      BY <1>4 DEF IInv, ProcsFit
    <2>2. /\ Fits(q) /\ q.key = proc[p].key
          /\ \A s \in Scopes : /\ HasToken(q, s) <=> HasToken(proc[p], s)
                               /\ HasBucket(q, s) <=> HasBucket(proc[p], s)
      BY <1>1, <1>2, PcStep
    <2> HIDE DEF q
    <2>3. ProcsFit' /\ \A o \in Procs : proc'[o] = IF o = p THEN q ELSE proc[o]
      BY <2>1, <2>2, OneMoves DEF IInv
    <2>4. TokensCounted'
      BY <2>2, <2>3, <1>3, CountSame DEF IInv
    <2>5. BucketsStay'
      BY <2>2, <2>3, <1>4, BucketsGrow DEF IInv
    <2> QED  BY <2>3, <2>4, <2>5, <1>3, <1>4 DEF IInv, Counters
  <1>5. CASE /\ proc' = [proc EXCEPT ![p] = Settle(@, 1)]
             /\ buckets' = [buckets EXCEPT ![Scope(p)] = @ \union {Key(p)}]
             /\ lastUse' = [lastUse EXCEPT ![Scope(p)][Key(p)] = now]
    <2> DEFINE q == Settle(proc[p], 1)
               c == Scope(p)
    <2>1. proc' = [proc EXCEPT ![p] = q]
      BY <1>5 DEF IInv, ProcsFit
    <2>2. 1 \in 1 .. Len(Limiters(c)) + 1 /\ ~SemAmong(c, 1 - 1)
      BY <1>2, OneSemaphore
    <2>3. /\ Fits(q) /\ q.key = proc[p].key
          /\ \A s \in Scopes : HasBucket(q, s) <=> Place(proc[p].op, s) \in 1 .. proc[p].stage
          /\ \A s \in Scopes \ {c} : HasToken(q, s) <=> HasToken(proc[p], s)
          /\ ~HasToken(q, c)
      BY <1>1, <1>2, <2>2, SettleStep
    <2> HIDE DEF q
    <2>4. ProcsFit' /\ \A o \in Procs : proc'[o] = IF o = p THEN q ELSE proc[o]
      BY <2>1, <2>3, OneMoves DEF IInv
    <2>5. ~HasToken(proc[p], c)
      <3>1. Place(proc[p].op, c) = proc[p].stage /\ proc[p].upto = 0 /\ proc[p].stage \in 1 .. 3
        BY <1>1, <1>2, ScopeFits DEF Fits, Goroutines
      <3> QED  BY <3>1, <1>1 DEF HasToken
    <2>6. TokensCounted'
      BY <2>3, <2>4, <2>5, <1>3, CountSame DEF IInv
    <2>7. \A s \in Scopes : buckets'[s] = IF s = c THEN buckets[s] \union {Key(p)} ELSE buckets[s]
      BY <1>5 DEF IInv, Counters
    <2>8. ASSUME NEW s \in Scopes \ {c}, HasBucket(q, s) PROVE HasBucket(proc[p], s)
      <3>1. /\ Place(proc[p].op, s) \in 1 .. proc[p].stage /\ Place(proc[p].op, s) # proc[p].stage
            /\ proc[p].upto = 0 /\ proc[p].stage \in 1 .. 3
        BY <1>1, <1>2, <2>3, <2>8, ScopeFits DEF Fits, Goroutines
      <3> QED  BY <3>1, <1>1 DEF HasBucket
    <2>9. BucketsStay'
      <3>1. q.key[c] \in buckets'[c]
        BY <2>3, <2>7, <1>2
      <3>2. \A s \in Scopes : buckets[s] \subseteq buckets'[s]
        BY <2>7
      <3>3. \A s \in Scopes : HasBucket(q, s) =>
              \/ HasBucket(proc[p], s) /\ q.key = proc[p].key
              \/ q.key[s] \in buckets'[s]
        BY <3>1, <2>3, <2>8
      <3> HIDE DEF c
      <3> QED  BY <3>2, <3>3, <2>4, BucketsGrow DEF IInv
    <2>10. Counters'
      <3>1. buckets' \in [Scopes -> SUBSET AllKeys]
        BY <1>2, <1>5 DEF IInv, Counters
      <3>2. now \in Nat
        BY LimitsAssumption DEF IInv, Counters
      <3>3. /\ lastUse' \in [Scopes -> [AllKeys -> Nat]]
            /\ \A s \in Scopes : \A k \in AllKeys : lastUse'[s][k] <= now
        BY <1>2, <1>5, <3>2 DEF IInv, Counters
      <3> QED  BY <3>1, <3>3, <1>3 DEF IInv, Counters
    <2> QED  BY <2>4, <2>6, <2>9, <2>10 DEF IInv
  <1> QED  BY <1>4, <1>5, TakeBucketDropsNothing

LEMMA PassBucketInv ==
    ASSUME IInv, NEW p \in Procs, PassBucket(p)
    PROVE  IInv'
  <1> DEFINE c == Scope(p)
             r == proc[p]
  <1>1. proc[p].pc = "bucket" /\ sem' = sem /\ tokens' = tokens /\ buckets' = buckets
        /\ lastUse' = lastUse /\ now' = now
    BY DEF PassBucket
  <1>2. Fits(r) /\ c = ScopeOf(r) /\ c \in Scopes
    BY <1>1, ScopeAndKey
  <1>3. /\ Place(r.op, c) = r.stage /\ \A s \in Scopes : s # c => Place(r.op, s) # r.stage
        /\ r.upto = 0 /\ r.stage \in 1 .. 3 /\ \A s \in Scopes : Place(r.op, s) \in 0 .. 3
    <2>1. r.op \in {"msg", "dest"} /\ r.stage \in 1 .. 3 /\ r.upto = 0
      BY <1>1, <1>2 DEF Fits, Goroutines
    <2>2. \A s \in Scopes : Place(r.op, s) \in 0 .. 3
      BY <2>1, StagePlaces
    <2> QED  BY <1>2, <2>1, <2>2, ScopeFits
  <1>4. ~HasToken(r, c)
    BY <1>1, <1>3 DEF HasToken
  <1>5. \A s \in Scopes \ {c} : HasBucket(r, s) <=> Place(r.op, s) \in 1 .. r.stage
    BY <1>1, <1>3 DEF HasBucket
  <1>6. PICK q : /\ proc' = [proc EXCEPT ![p] = q] /\ Fits(q) /\ q.key = r.key
                 /\ \A s \in Scopes : HasToken(q, s) <=> HasToken(r, s)
                 /\ \A s \in Scopes : HasBucket(q, s) <=> Place(r.op, s) \in 1 .. r.stage
                 /\ c = "all" \/ ~Configured(c)
    <2>1. CASE c = "all" /\ proc' = [proc EXCEPT ![p] = Settle(@, 1)]
      <3> DEFINE q == Settle(r, 1)
      <3>1. proc' = [proc EXCEPT ![p] = q]
        BY <2>1 DEF IInv, ProcsFit
      <3>2. Configured(c) /\ 1 \in 1 .. Len(Limiters(c)) + 1 /\ ~SemAmong(c, 1 - 1)
        BY <2>1, <1>2, OneSemaphore DEF Configured
      <3>3. /\ Fits(q) /\ q.key = r.key
            /\ \A s \in Scopes : HasBucket(q, s) <=> Place(r.op, s) \in 1 .. r.stage
            /\ \A s \in Scopes \ {c} : HasToken(q, s) <=> HasToken(r, s)
            /\ ~HasToken(q, c)
        BY <1>1, <1>2, <3>2, SettleStep
      <3> HIDE DEF q, c, r
      <3> QED  BY <3>1, <3>3, <2>1, <1>4
    <2>2. CASE ~Configured(c) /\ proc' = [proc EXCEPT ![p] = Advance(@)]
      <3> DEFINE q == Advance(r)
      <3>1. proc' = [proc EXCEPT ![p] = q]
        BY <2>2 DEF IInv, ProcsFit
      <3>2. /\ Fits(q) /\ q.key = r.key
            /\ \A s \in Scopes : /\ HasBucket(q, s) <=> Place(r.op, s) \in 1 .. r.stage
                                 /\ HasToken(q, s) <=> HasSem(s) /\ Configured(s)
                                                       /\ Place(r.op, s) \in 1 .. r.stage
        BY <1>1, <1>2, AdvanceStep
      <3>3. \A s \in Scopes \ {c} :
              HasToken(r, s) <=> HasSem(s) /\ Configured(s) /\ Place(r.op, s) \in 1 .. r.stage
        BY <1>1, <1>3 DEF HasToken
      <3> HIDE DEF q, c, r
      <3> QED  BY <3>1, <3>2, <3>3, <2>2, <1>4
    <2> QED  BY <2>1, <2>2 DEF PassBucket
  <1>7. ProcsFit' /\ \A o \in Procs : proc'[o] = IF o = p THEN q ELSE proc[o]
    BY <1>6, OneMoves DEF IInv
  <1>8. TokensCounted'
    BY <1>1, <1>6, <1>7, CountSame DEF IInv
  <1>9. \A s \in Scopes \ {"all"} : Configured(s) /\ HasBucket(q, s) => HasBucket(r, s) /\ q.key = r.key
    BY <1>5, <1>6
  <1>10. BucketsStay'
    BY <1>1, <1>7, <1>9, BucketsGrow DEF IInv
  <1> QED  BY <1>1, <1>7, <1>8, <1>10 DEF IInv, Counters

(* A goroutine that waits at a limiter of its scope.                       *)
LEMMA WaitingAt ==
    ASSUME IInv, NEW p \in Procs, proc[p].pc = "wait"
    PROVE  LET r == proc[p]
               c == Scope(p)
               q == Settle(r, r.at + 1)
           IN  /\ Fits(r) /\ c = ScopeOf(r) /\ c \in Scopes /\ Configured(c)
               /\ Key(p) = r.key[c] /\ Key(p) \in KeysOf(c) /\ Key(p) \in AllKeys
               /\ r.at \in 1 .. Len(Limiters(c))
               /\ HasToken(r, c) <=> SemAmong(c, r.at - 1)
               /\ Fits(q) /\ q.key = r.key
               /\ \A s \in Scopes : HasBucket(q, s) => HasBucket(r, s)
               /\ \A s \in Scopes \ {c} : HasToken(q, s) <=> HasToken(r, s)
               /\ HasToken(q, c) <=> SemAmong(c, r.at)
  <1> DEFINE r == proc[p]
             c == Scope(p)
             q == Settle(r, r.at + 1)
  <1>1. /\ Fits(r) /\ c = ScopeOf(r) /\ c \in Scopes
        /\ Key(p) = r.key[c] /\ Key(p) \in KeysOf(c) /\ Key(p) \in AllKeys
    BY ScopeAndKey
  <1>2. Configured(c) /\ r.at \in Nat \ {0} /\ r.at <= Len(Limiters(c)) /\ Len(Limiters(c)) \in Nat
    BY <1>1, OneSemaphore DEF Fits, Goroutines
  <1>3. r.at \in 1 .. Len(Limiters(c)) /\ r.at + 1 \in 1 .. Len(Limiters(c)) + 1 /\ (r.at + 1) - 1 = r.at
    BY <1>2
  <1>4. /\ Fits(q) /\ q.key = r.key
        /\ \A s \in Scopes : HasBucket(q, s) <=> Place(r.op, s) \in 1 .. r.stage
        /\ \A s \in Scopes \ {c} : HasToken(q, s) <=> HasToken(r, s)
        /\ HasToken(q, c) <=> SemAmong(c, (r.at + 1) - 1)
    BY <1>1, <1>2, <1>3, SettleStep
  <1>5. HasToken(r, c) <=> SemAmong(c, r.at - 1)
    BY <1>1, TimeoutStep
  <1>6. \A s \in Scopes : Place(r.op, s) \in 1 .. r.stage => HasBucket(r, s)
    BY <1>1 DEF HasBucket, Fits, Goroutines
  <1> HIDE DEF q
  <1> QED  BY <1>1, <1>2, <1>3, <1>4, <1>5, <1>6 DEF q

LEMMA TakeSemInv ==
    ASSUME IInv, NEW p \in Procs, TakeSem(p)
    PROVE  IInv'
  <1> DEFINE r == proc[p]
             c == Scope(p)
             q == Settle(r, r.at + 1)
  <1>1. /\ r.pc = "wait" /\ Limiters(c)[r.at] = "concurrency" /\ sem[c][Key(p)] < MaxCount
        /\ sem' = [sem EXCEPT ![c][Key(p)] = @ + 1]
        /\ tokens' = tokens /\ buckets' = buckets /\ lastUse' = lastUse /\ now' = now
    BY DEF TakeSem, At
  <1>2. proc' = [proc EXCEPT ![p] = q]
    BY DEF TakeSem, IInv, ProcsFit
  <1>3. /\ c \in Scopes /\ Key(p) = r.key[c] /\ Key(p) \in AllKeys
        /\ r.at \in 1 .. Len(Limiters(c))
        /\ HasToken(r, c) <=> SemAmong(c, r.at - 1)
        /\ Fits(q) /\ q.key = r.key
        /\ \A s \in Scopes : HasBucket(q, s) => HasBucket(r, s)
        /\ \A s \in Scopes \ {c} : HasToken(q, s) <=> HasToken(r, s)
        /\ HasToken(q, c) <=> SemAmong(c, r.at)
    BY <1>1, WaitingAt
  <1>4. HasToken(q, c) /\ ~HasToken(r, c)
    BY <1>1, <1>3, OneSemaphore
  <1> HIDE DEF q, c
  <1>5. ProcsFit' /\ \A o \in Procs : proc'[o] = IF o = p THEN q ELSE proc[o]
    BY <1>2, <1>3, OneMoves DEF IInv
  <1>6. TokensCounted'
    <2>1. sem' = [sem EXCEPT ![c][r.key[c]] = @ + 1] /\ r.key[c] \in AllKeys
      BY <1>1, <1>3
    <2> QED  BY <2>1, <1>3, <1>4, <1>5, CountMore DEF IInv
  <1>7. BucketsStay'
    BY <1>1, <1>3, <1>5, BucketsGrow DEF IInv
  <1>8. sem' \in [Scopes -> [AllKeys -> 0 .. MaxCount]]
    <2>0. sem[c][Key(p)] \in 0 .. MaxCount /\ MaxCount \in Nat
      BY <1>3, LimitsAssumption DEF IInv, Counters
    <2>1. sem[c][Key(p)] + 1 \in 0 .. MaxCount
      BY <1>1, <2>0
    <2> QED  BY <1>1, <1>3, <2>1 DEF IInv, Counters
  <1> QED  BY <1>1, <1>5, <1>6, <1>7, <1>8 DEF IInv, Counters

LEMMA TakeRateInv ==
    ASSUME IInv, NEW p \in Procs, TakeRate(p)
    PROVE  IInv'
  <1> DEFINE r == proc[p]
             c == Scope(p)
             q == Settle(r, r.at + 1)
  <1>1. /\ r.pc = "wait" /\ Limiters(c)[r.at] = "rate" /\ tokens[c][Key(p)] > 0
        /\ tokens' = [tokens EXCEPT ![c][Key(p)] = @ - 1]
        /\ sem' = sem /\ buckets' = buckets /\ lastUse' = lastUse /\ now' = now
    BY DEF TakeRate, At
  <1>2. proc' = [proc EXCEPT ![p] = q]
    BY DEF TakeRate, IInv, ProcsFit
  <1>3. /\ c \in Scopes /\ Key(p) = r.key[c] /\ Key(p) \in AllKeys
        /\ r.at \in 1 .. Len(Limiters(c))
        /\ HasToken(r, c) <=> SemAmong(c, r.at - 1)
        /\ Fits(q) /\ q.key = r.key
        /\ \A s \in Scopes : HasBucket(q, s) => HasBucket(r, s)
        /\ \A s \in Scopes \ {c} : HasToken(q, s) <=> HasToken(r, s)
        /\ HasToken(q, c) <=> SemAmong(c, r.at)
    BY <1>1, WaitingAt
  <1>4. HasToken(q, c) <=> HasToken(r, c)
    BY <1>1, <1>3, OneSemaphore
  <1> HIDE DEF q, c
  <1>5. ProcsFit' /\ \A o \in Procs : proc'[o] = IF o = p THEN q ELSE proc[o]
    BY <1>2, <1>3, OneMoves DEF IInv
  <1>6. TokensCounted'
    BY <1>1, <1>3, <1>4, <1>5, CountSame DEF IInv
  <1>7. BucketsStay'
    BY <1>1, <1>3, <1>5, BucketsGrow DEF IInv
  <1>8. tokens' \in [Scopes -> [AllKeys -> 0 .. Burst]]
    <2>1. tokens[c][Key(p)] \in 0 .. Burst /\ Burst \in Nat
      BY <1>3, LimitsAssumption DEF IInv, Counters
    <2>2. tokens[c][Key(p)] - 1 \in 0 .. Burst
      BY <1>1, <2>1
    <2> QED  BY <1>1, <1>3, <2>2 DEF IInv, Counters
  <1> QED  BY <1>1, <1>5, <1>6, <1>7, <1>8 DEF IInv, Counters

LEMMA GiveBackCounts ==
    ASSUME Counters, NEW c \in Scopes, NEW k \in AllKeys, sem[c][k] > 0
    PROVE  GiveBack(c, k) \in [Scopes -> [AllKeys -> 0 .. MaxCount]]
  <1>1. sem[c][k] \in 0 .. MaxCount /\ MaxCount \in Nat
    BY LimitsAssumption DEF Counters
  <1>2. sem[c][k] - 1 \in 0 .. MaxCount
    BY <1>1
  <1> QED  BY <1>2 DEF Counters, GiveBack

LEMMA TimeoutInv ==
    ASSUME IInv, NEW p \in Procs, Timeout(p)
    PROVE  IInv'
  <1> DEFINE r == proc[p]
             c == Scope(p)
             q == AfterTimeout(r)
  <1>1. /\ r.pc = "wait"
        /\ sem' = IF SemAmong(c, r.at - 1) THEN GiveBack(c, Key(p)) ELSE sem
        /\ tokens' = tokens /\ buckets' = buckets /\ lastUse' = lastUse /\ now' = now
    BY DEF Timeout
  <1>2. proc' = [proc EXCEPT ![p] = q]
    BY DEF Timeout, IInv, ProcsFit
  <1>3. /\ Fits(r) /\ c = ScopeOf(r) /\ c \in Scopes
        /\ Key(p) = r.key[c] /\ r.key[c] \in KeysOf(c) /\ r.key[c] \in AllKeys
    BY <1>1, ScopeAndKey
  <1>4. /\ Fits(q) /\ (q = Idle \/ q.key = r.key)
        /\ HasToken(r, c) <=> SemAmong(c, r.at - 1)
        /\ ~HasToken(q, c)
        /\ \A s \in Scopes \ {c} : HasToken(q, s) <=> HasToken(r, s)
        /\ \A s \in Scopes : HasBucket(q, s) => HasBucket(r, s)
    BY <1>1, <1>3, TimeoutStep
  <1> HIDE DEF q, c
  <1>5. ProcsFit' /\ \A o \in Procs : proc'[o] = IF o = p THEN q ELSE proc[o]
    BY <1>2, <1>4, OneMoves, ZenonT(60) DEF IInv
  <1>6. \A s \in Scopes : (HasToken(q, s) \/ HasBucket(q, s)) => q.key = r.key
    BY <1>4, IdleFits
  <1>7. TokensCounted' /\ sem' \in [Scopes -> [AllKeys -> 0 .. MaxCount]]
    <2>1. CASE HasToken(r, c)
      <3>1. sem' = GiveBack(c, r.key[c])
        BY <2>1, <1>1, <1>3, <1>4
      <3>2. TokensCounted' /\ sem[c][r.key[c]] > 0
        BY <2>1, <3>1, <1>3, <1>4, <1>5, <1>6, CountFewer DEF IInv
      <3> QED  BY <3>1, <3>2, <1>3, GiveBackCounts DEF IInv
    <2>2. CASE ~HasToken(r, c)
      <3>1. sem' = sem
        BY <2>2, <1>1, <1>4
      <3>2. \A s \in Scopes : HasToken(q, s) <=> HasToken(r, s)
        BY <2>2, <1>4
      <3>3. TokensCounted'
        BY <3>1, <3>2, <1>5, <1>6, CountSame DEF IInv
      <3> QED  BY <3>1, <3>3 DEF IInv, Counters
    <2> QED  BY <2>1, <2>2
  <1>8. BucketsStay'
    BY <1>1, <1>4, <1>5, <1>6, BucketsGrow DEF IInv
  <1> QED  BY <1>1, <1>5, <1>7, <1>8 DEF IInv, Counters

LEMMA DoneInv ==
    ASSUME IInv, NEW p \in Procs, Done(p)
    PROVE  IInv'
  <1> DEFINE q == [proc[p] EXCEPT !.pc = "release"]
  <1>1. /\ proc[p].pc = "held" /\ sem' = sem /\ tokens' = tokens /\ buckets' = buckets
        /\ lastUse' = lastUse /\ now' = now
    BY DEF Done
  <1>2. proc' = [proc EXCEPT ![p] = q]
    BY DEF Done, IInv, ProcsFit
  <1>3. /\ Fits(q) /\ q.key = proc[p].key
        /\ \A s \in Scopes : /\ HasToken(q, s) <=> HasToken(proc[p], s)
                             /\ HasBucket(q, s) <=> HasBucket(proc[p], s)
    BY <1>1, PcStep DEF IInv, ProcsFit
  <1> HIDE DEF q
  <1>4. ProcsFit' /\ \A o \in Procs : proc'[o] = IF o = p THEN q ELSE proc[o]
    BY <1>2, <1>3, OneMoves DEF IInv
  <1>5. TokensCounted'
    BY <1>1, <1>3, <1>4, CountSame DEF IInv
  <1>6. BucketsStay'
    BY <1>1, <1>3, <1>4, BucketsGrow DEF IInv
  <1> QED  BY <1>1, <1>4, <1>5, <1>6 DEF IInv, Counters

(* Where a scope is configured a release finds the bucket and, if there is *)
(* a semaphore, a token: no call of Release is a mismatched one.           *)
LEMMA ReleaseMatches ==
    ASSUME IInv, NEW p \in Procs, proc[p].pc = "release", Configured(Scope(p))
    PROVE  /\ Scope(p) = "all" \/ Key(p) \in buckets[Scope(p)]
           /\ HasSem(Scope(p)) => sem[Scope(p)][Key(p)] > 0
  <1> DEFINE r == proc[p]
             c == Scope(p)
  <1>1. /\ Fits(r) /\ c = ScopeOf(r) /\ c \in Scopes
        /\ Key(p) = r.key[c] /\ Key(p) \in KeysOf(c)
    BY ScopeAndKey
  <1>2. HasBucket(r, c) /\ (HasToken(r, c) <=> HasSem(c))
    BY <1>1, ReleaseStep
  <1>3. c = "all" \/ Key(p) \in buckets[c]
    BY <1>1, <1>2 DEF IInv, BucketsStay
  <1>4. ASSUME HasSem(c) PROVE sem[c][Key(p)] > 0
    <2>1. p \in HoldersOf(c, Key(p))
      BY <1>1, <1>2, <1>4 DEF HoldersOf
    <2>2. Cardinality(HoldersOf(c, Key(p))) # 0
      BY <2>1, HoldersFinite, FS_EmptySet
    <2>3. sem[c][Key(p)] = Cardinality(HoldersOf(c, Key(p)))
      BY <1>1 DEF IInv, TokensCounted
    <2> QED  BY <2>2, <2>3, HoldersFinite
  <1> QED  BY <1>3, <1>4

LEMMA ReleaseInv ==
    ASSUME IInv, NEW p \in Procs, Release(p)
    PROVE  IInv'
  <1> DEFINE r == proc[p]
             c == Scope(p)
             k == Key(p)
  <1>1. /\ r.pc = "release" /\ tokens' = tokens /\ buckets' = buckets
        /\ lastUse' = lastUse /\ now' = now
    BY DEF Release
  <1>2. /\ Fits(r) /\ c = ScopeOf(r) /\ c \in Scopes
        /\ k = r.key[c] /\ r.key[c] \in KeysOf(c) /\ r.key[c] \in AllKeys
    BY <1>1, ScopeAndKey
  <1>3. \/ ~Configured(c) /\ proc' = [proc EXCEPT ![p].pc = "panic"] /\ sem' = sem
        \/ ~Configured(c) /\ proc' = [proc EXCEPT ![p] = NextRelease(@)] /\ sem' = sem
        \/ /\ Configured(c) /\ proc' = [proc EXCEPT ![p] = NextRelease(@)]
           /\ sem' = IF HasSem(c) THEN GiveBack(c, k) ELSE sem
    <2>1. CASE ~Configured(c)  BY <2>1 DEF Release
    <2>2. CASE Configured(c)
      <3> DEFINE empty == HasSem(c) /\ sem[c][k] = 0
                 there == c = "all" \/ k \in buckets[c]
      <3>1. there /\ ~empty
        BY <1>1, <2>2, ReleaseMatches
      <3>2. /\ proc' = [proc EXCEPT ![p] = IF there /\ empty THEN [@ EXCEPT !.pc = "panic"]
                                           ELSE NextRelease(@)]
            /\ sem' = IF there /\ HasSem(c) /\ ~empty THEN GiveBack(c, k) ELSE sem
        BY <2>2 DEF Release
      <3> HIDE DEF empty, there
      <3> QED  BY <2>2, <3>1, <3>2
    <2> QED  BY <2>1, <2>2
  <1>4. CASE ~Configured(c) /\ proc' = [proc EXCEPT ![p].pc = "panic"] /\ sem' = sem
    <2> DEFINE q == [r EXCEPT !.pc = "panic"]
    <2>1. proc' = [proc EXCEPT ![p] = q]
      BY <1>4 DEF IInv, ProcsFit
    <2>2. /\ Fits(q) /\ q.key = r.key
          /\ \A s \in Scopes : /\ HasToken(q, s) <=> HasToken(r, s)
                               /\ HasBucket(q, s) <=> HasBucket(r, s)
      BY <1>1, <1>2, PcStep
    <2> HIDE DEF q
    <2>3. ProcsFit' /\ \A o \in Procs : proc'[o] = IF o = p THEN q ELSE proc[o]
      BY <2>1, <2>2, OneMoves DEF IInv
    <2>4. TokensCounted'
      BY <1>4, <2>2, <2>3, CountSame DEF IInv
    <2>5. BucketsStay'
      BY <1>1, <2>2, <2>3, BucketsGrow DEF IInv
    <2> QED  BY <1>1, <1>4, <2>3, <2>4, <2>5 DEF IInv, Counters
  <1>5. ASSUME proc' = [proc EXCEPT ![p] = NextRelease(@)],
               sem' = IF HasSem(c) /\ Configured(c) THEN GiveBack(c, k) ELSE sem
        PROVE  IInv'
    <2> DEFINE q == NextRelease(r)
    <2>1. proc' = [proc EXCEPT ![p] = q]
      BY <1>5 DEF IInv, ProcsFit
    <2>2. /\ Fits(q) /\ (q = Idle \/ q.key = r.key)
          /\ HasToken(r, c) <=> HasSem(c) /\ Configured(c)
          /\ ~HasToken(q, c)
          /\ \A s \in Scopes \ {c} : HasToken(q, s) <=> HasToken(r, s)
          /\ \A s \in Scopes : HasBucket(q, s) => HasBucket(r, s)
      BY <1>1, <1>2, ReleaseStep
    <2> HIDE DEF q, c, k
    <2>3. ProcsFit' /\ \A o \in Procs : proc'[o] = IF o = p THEN q ELSE proc[o]
      BY <2>1, <2>2, OneMoves, ZenonT(60) DEF IInv
    <2>4. \A s \in Scopes : (HasToken(q, s) \/ HasBucket(q, s)) => q.key = r.key
      BY <2>2, IdleFits
    <2>5. TokensCounted' /\ sem' \in [Scopes -> [AllKeys -> 0 .. MaxCount]]
      <3>1. CASE HasToken(r, c)
        <4>1. sem' = GiveBack(c, r.key[c])
          BY <3>1, <1>2, <1>5, <2>2
        <4>2. TokensCounted' /\ sem[c][r.key[c]] > 0
          BY <3>1, <4>1, <1>2, <2>2, <2>3, <2>4, CountFewer DEF IInv
        <4> QED  BY <4>1, <4>2, <1>2, GiveBackCounts DEF IInv
      <3>2. CASE ~HasToken(r, c)
        <4>1. sem' = sem
          BY <3>2, <1>5, <2>2
        <4>2. \A s \in Scopes : HasToken(q, s) <=> HasToken(r, s)
          BY <3>2, <2>2
        <4>3. TokensCounted'
          BY <4>1, <4>2, <2>3, <2>4, CountSame DEF IInv
        <4> QED  BY <4>1, <4>3 DEF IInv, Counters
      <3> QED  BY <3>1, <3>2
    <2>6. BucketsStay'
      BY <1>1, <2>2, <2>3, <2>4, BucketsGrow DEF IInv
    <2> QED  BY <1>1, <2>3, <2>5, <2>6 DEF IInv, Counters
  <1> HIDE DEF c, k
  <1> QED  BY <1>3, <1>4, <1>5

LEMMA StepInv ==
    ASSUME IInv, [Next]_vars
    PROVE  IInv'
  <1>1. ASSUME NEW p \in Procs, Call(p) \/ Step(p) \/ Done(p) PROVE IInv'
    BY <1>1, CallInv, TakeBucketInv, PassBucketInv, TakeSemInv, TakeRateInv, TimeoutInv,
       ReleaseInv, DoneInv DEF Step
  <1>2. ASSUME proc' = proc, sem' = sem, buckets' = buckets PROVE ProcsFit' /\ BucketsStay' /\ TokensCounted'
    BY <1>2 DEF IInv, ProcsFit, BucketsStay, TokensCounted, HoldersOf
  <1>3. ASSUME NEW s \in Scopes, NEW k \in AllKeys, Fill(s, k) PROVE IInv'
    <2>1. Burst \in 0 .. Burst  BY LimitsAssumption
    <2>2. tokens' \in [Scopes -> [AllKeys -> 0 .. Burst]]
      BY <1>3, <2>1 DEF Fill, IInv, Counters
    <2> QED  BY <1>2, <1>3, <2>2 DEF Fill, IInv, Counters
  <1>4. CASE Tick
    <2>1. now' \in 0 .. MaxTime /\ now <= now' /\ now \in Nat /\ now' \in Nat
      BY <1>4, LimitsAssumption DEF Tick, IInv, Counters
    <2>2. \A s \in Scopes : \A k \in AllKeys : lastUse[s][k] \in Nat /\ lastUse[s][k] <= now
      BY DEF IInv, Counters
    <2>3. \A s \in Scopes : \A k \in AllKeys : lastUse[s][k] <= now'
      BY <2>1, <2>2
    <2> QED  BY <1>2, <1>4, <2>1, <2>3 DEF Tick, IInv, Counters
  <1>5. CASE UNCHANGED vars
    BY <1>5, <1>2 DEF vars, IInv, Counters
  <1> QED  BY <1>1, <1>3, <1>4, <1>5 DEF Next

LEMMA InitInv == Init => IInv
  <1> SUFFICES ASSUME Init PROVE IInv
    OBVIOUS
  <1>1. Idle \in Goroutines  BY IdleFits DEF Fits
  <1>2. proc \in [Procs -> Goroutines] /\ \A p \in Procs : proc[p] = Idle
    BY <1>1 DEF Init
  <1>3. ProcsFit
    BY <1>2, IdleFits DEF ProcsFit
  <1>4. BucketsStay
    BY <1>2, IdleFits DEF BucketsStay
  <1>5. Counters
    <2>1. 0 \in 0 .. MaxCount /\ Burst \in 0 .. Burst /\ 0 \in 0 .. MaxTime
      BY LimitsAssumption
    <2> QED  BY <2>1 DEF Init, Counters
  <1>6. TokensCounted
    <2>1. ASSUME NEW s \in Scopes, NEW k \in KeysOf(s)
          PROVE  sem[s][k] = Cardinality(HoldersOf(s, k))
      <3>1. HoldersOf(s, k) = {}
        BY <1>2, IdleFits DEF HoldersOf
      <3>2. k \in AllKeys  BY DEF KeysOf, AllKeys
      <3> QED  BY <3>1, <3>2, FS_EmptySet DEF Init
    <2> QED  BY <2>1 DEF TokensCounted
  <1> QED  BY <1>3, <1>4, <1>5, <1>6 DEF IInv

----------------------------------------------------------------------------
(* The holders of the proof are the ones of the specification.             *)
LEMMA SameHolders ==
    ASSUME ProcsFit, NEW s \in Scopes, NEW k
    PROVE  Holders(s, k) = HoldersOf(s, k)
  <1>1. ASSUME NEW p \in Procs
        PROVE  HasToken(proc[p], s) <=>
                 /\ HasSem(s) /\ Configured(s)
                 /\ \E i \in 1 .. Len(Stages(proc[p].op)) : Stages(proc[p].op)[i] = s /\ Taken(p, i)
    <2> DEFINE r == proc[p]
    <2>1. Fits(r) /\ r.op \in {"msg", "dest"} /\ r.stage \in 1 .. 3 /\ r.upto \in 0 .. 3
      BY DEF ProcsFit, Fits, Goroutines
    <2>2. Scope(p) = ScopeOf(r)
      BY DEF Scope, ScopeOf
    <2>3. /\ Len(Stages(r.op)) = Places(r.op) /\ Places(r.op) \in 1 .. 3
          /\ Place(r.op, s) \in 0 .. Places(r.op)
          /\ \A i \in 1 .. Places(r.op) : Stages(r.op)[i] = s <=> i = Place(r.op, s)
      BY <2>1, StagePlaces
    <2>4. ASSUME r.pc = "idle", NEW i \in 1 .. 3 PROVE ~Taken(p, i)
      <3>1. r.stage = 1 /\ r.upto = 0
        BY <2>1, <2>4 DEF Fits, Idle
      <3> QED  BY <2>4, <3>1 DEF Taken
    <2>5. ASSUME r.pc # "idle", r.upto = 0, NEW i \in 1 .. 3, i = r.stage => ScopeOf(r) = s
          PROVE  Taken(p, i) <=> i < r.stage \/ (i = r.stage /\ r.pc = "wait" /\ SemAmong(s, r.at - 1))
      BY <2>2, <2>5 DEF Taken
    <2>6. ASSUME r.pc # "idle", r.upto # 0, NEW i \in 1 .. 3
          PROVE  Taken(p, i) <=> r.stage <= i /\ i <= r.upto
      BY <2>1, <2>6 DEF Taken
    <2>7. Place(r.op, s) = r.stage => ScopeOf(r) = s
      BY <2>1, ScopeFits
    <2>8. (\E i \in 1 .. Len(Stages(r.op)) : Stages(r.op)[i] = s /\ Taken(p, i))
            <=> Place(r.op, s) # 0 /\ Taken(p, Place(r.op, s))
      BY <2>3
    <2>9. CASE Place(r.op, s) = 0
      BY <2>8, <2>9 DEF HasToken
    <2>10. CASE Place(r.op, s) # 0
      <3>1. Place(r.op, s) \in 1 .. 3
        BY <2>3, <2>10
      <3>2. CASE r.pc = "idle"
        BY <3>1, <3>2, <2>4, <2>8 DEF HasToken
      <3>3. CASE r.pc # "idle" /\ r.upto = 0
        BY <3>1, <3>3, <2>5, <2>7, <2>8 DEF HasToken
      <3>4. CASE r.pc # "idle" /\ r.upto # 0
        BY <3>1, <3>4, <2>6, <2>8 DEF HasToken
      <3> QED  BY <3>2, <3>3, <3>4
    <2> QED  BY <2>9, <2>10
  <1> QED  BY <1>1 DEF Holders, HoldersOf

(* Whoever is admitted under a concurrency limit holds a token.            *)
LEMMA AdmittedHold ==
    ASSUME ProcsFit, NEW s \in Scopes \ {"destination"}, NEW k, ConcurrencyLimited(s)
    PROVE  Admitted(s, k) \subseteq HoldersOf(s, k)
  <1>1. Limiters(s) = Wrapped[s] /\ Wrapped[s] \in Seq(Kinds)
    BY LimitsAssumption DEF Limiters
  <1>2. Configured(s) /\ HasSem(s)
    <2>1. PICK i \in DOMAIN Wrapped[s] : Wrapped[s][i] = "concurrency"
      BY DEF ConcurrencyLimited
    <2>2. i \in 1 .. Len(Wrapped[s]) /\ Wrapped[s] # <<>>
      BY <1>1, <2>1
    <2> QED  BY <1>1, <2>1, <2>2 DEF Configured, HasSem, SemAmong
  <1>3. ASSUME NEW p \in Admitted(s, k) PROVE p \in HoldersOf(s, k)
    <2> DEFINE r == proc[p]
    <2>1. /\ p \in Procs /\ r.pc = "held" /\ r.key[s] = k
          /\ \E i \in 1 .. Len(Stages(r.op)) : Stages(r.op)[i] = s
      BY <1>3 DEF Admitted
    <2>2. /\ r.op \in {"msg", "dest"} /\ r.stage = 1 /\ r.upto = Places(r.op)
      BY <2>1 DEF ProcsFit, Fits, Goroutines
    <2>3. Place(r.op, s) \in 1 .. Places(r.op) /\ Places(r.op) \in 1 .. 3
      BY <2>1, <2>2, StagePlaces
    <2>4. HasToken(r, s)
      BY <1>2, <2>1, <2>2, <2>3 DEF HasToken
    <2> QED  BY <2>1, <2>4 DEF HoldersOf
  <1> QED  BY <1>3

LEMMA KeptByInv == IInv => LimitsKept
  <1> SUFFICES ASSUME IInv PROVE LimitsKept
    OBVIOUS
  <1>1. TypeOK
    <2>1. sem \in [Scopes -> [AllKeys -> Nat]]
      BY LimitsAssumption DEF IInv, Counters
    <2>2. lastUse \in [Scopes -> [AllKeys -> 0 .. MaxTime]]
      <3>1. ASSUME NEW s \in Scopes, NEW k \in AllKeys PROVE lastUse[s][k] \in 0 .. MaxTime
        <4>1. lastUse[s][k] \in Nat /\ lastUse[s][k] <= now /\ now \in 0 .. MaxTime /\ MaxTime \in Nat
          BY LimitsAssumption DEF IInv, Counters
        <4> QED  BY <4>1
      <3> QED  BY <3>1 DEF IInv, Counters
    <2>3. ASSUME NEW p \in Procs
          PROVE  /\ proc[p].pc \in PCs
                 /\ proc[p].op \in {"msg", "dest"}
                 /\ proc[p].key \in [Scopes -> AllKeys]
                 /\ proc[p].stage \in 1 .. 4 /\ proc[p].upto \in 0 .. 3
                 /\ proc[p].at \in Nat \ {0}
      <3>1. proc[p] \in Goroutines  BY DEF IInv, ProcsFit
      <3> QED  BY <3>1, GoroutineFields
    <2> QED  BY <2>1, <2>2, <2>3 DEF TypeOK, IInv, Counters
  <1>2. TokensAreHolders
    BY SameHolders DEF TokensAreHolders, IInv, TokensCounted
  <1>3. MessagesLimited
    <2>1. ASSUME NEW s \in Scopes \ {"destination"}, NEW k \in KeysOf(s), ConcurrencyLimited(s)
          PROVE  Cardinality(Admitted(s, k)) <= MaxCount
      <3>1. k \in AllKeys  BY DEF KeysOf, AllKeys
      <3>2. sem[s][k] = Cardinality(HoldersOf(s, k)) /\ sem[s][k] \in 0 .. MaxCount /\ MaxCount \in Nat
        BY <3>1, LimitsAssumption DEF IInv, TokensCounted, Counters
      <3>3. Admitted(s, k) \in SUBSET HoldersOf(s, k)
        BY <2>1, AdmittedHold DEF IInv
      <3>4. /\ IsFiniteSet(Admitted(s, k))
            /\ Cardinality(Admitted(s, k)) <= Cardinality(HoldersOf(s, k))
        BY <3>3, HoldersFinite, FS_Subset
      <3>5. Cardinality(Admitted(s, k)) \in Nat
        BY <3>4, FS_CardinalityType
      <3> QED  BY <3>2, <3>4, <3>5
    <2> QED  BY <2>1 DEF MessagesLimited
  <1> QED  BY <1>1, <1>2, <1>3 DEF LimitsKept

(* The inductive invariant of the limits holds in every reachable state.   *)
THEOREM LimitsInductive == Spec => []IInv
  <1>1. IInv /\ [Next]_vars => IInv'
    BY StepInv
  <1> QED  BY <1>1, InitInv, PTL DEF Spec

(* However the waits, timeouts and releases of any number of goroutines    *)
(* interleave, the tokens of every semaphore are those of the goroutines   *)
(* that took them, and each configured concurrency limit is kept.          *)
THEOREM LimitsAreKept == Spec => []LimitsKept
  BY LimitsInductive, KeptByInv, PTL

(* Whoever releases a scope that is configured finds its bucket and, where *)
(* there is a semaphore, a token in it.                                    *)
ReleaseIsMatched ==
    \A p \in Procs : proc[p].pc = "release" /\ Configured(Scope(p)) =>
        /\ Scope(p) = "all" \/ Key(p) \in buckets[Scope(p)]
        /\ HasSem(Scope(p)) => sem[Scope(p)][Key(p)] > 0

(* The panic of Semaphore.Release ("mismatched Release call") is never     *)
(* reached, in any interleaving of TakeMsg, ReleaseMsg and timeouts.       *)
THEOREM LimitsReleaseMatched == Spec => []ReleaseIsMatched
  <1>1. IInv => ReleaseIsMatched
    BY ReleaseMatches DEF ReleaseIsMatched
  <1> QED  BY <1>1, LimitsInductive, PTL
=============================================================================
