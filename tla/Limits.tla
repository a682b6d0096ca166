------------------------------- MODULE Limits -------------------------------
(***************************************************************************)
(* The limits of internal/limits: Group.TakeMsg, TakeDest, ReleaseMsg and  *)
(* ReleaseDest as called by any number of goroutines, one for each message *)
(* in an endpoint or destination of the remote target, with the bucket     *)
(* sets, semaphores and rate limiters of internal/limits/limiters below.   *)
(*                                                                         *)
(* Every Take waits for one limiter after another and gives up when the    *)
(* context of the call is over, 5 seconds after it began; the model lets   *)
(* that happen at any moment of the waiting.  Next to some definitions     *)
(* stands a variant with a plausible slip, unused by the specification.    *)
(***************************************************************************)
EXTENDS Naturals, Integers, Sequences, FiniteSets

CONSTANTS
    Procs,         \* goroutines that call the group
    Keys,          \* IP addresses and domains
    NoKey,         \* the key of the scope "all"
    Wrapped,       \* the limiters configured for each scope, in order; at
                   \* most one concurrency limiter each
    MaxCount,      \* max of the concurrency limiters
    Burst,         \* burst of the rate limiters
    MaxBuckets,    \* BucketSet.MaxBuckets
    ReapInterval,  \* BucketSet.ReapInterval
    MaxTime        \* bound on the clock

Scopes == {"all", "ip", "source", "destination"}
Kinds  == {"concurrency", "rate"}

ASSUME LimitsAssumption ==
    /\ NoKey \notin Keys
    /\ Wrapped \in [Scopes -> Seq(Kinds)]
    /\ \A s \in Scopes : \A i, j \in DOMAIN Wrapped[s] :
         Wrapped[s][i] = "concurrency" /\ Wrapped[s][j] = "concurrency" => i = j
    /\ MaxCount \in Nat \ {0} /\ Burst \in Nat \ {0}
    /\ MaxBuckets \in Nat /\ ReapInterval \in Nat /\ MaxTime \in Nat

(* At any moment there are finitely many goroutines.                       *)
ASSUME ProcsAssumption == IsFiniteSet(Procs)

VARIABLES
    sem,      \* the tokens in the channel of each semaphore
    tokens,   \* the tokens in the bucket of each rate limiter
    buckets,  \* the keys of each BucketSet
    lastUse,  \* when each bucket was last taken from
    now,
    proc      \* the goroutines

vars == <<sem, tokens, buckets, lastUse, now, proc>>

(* Group.Init.  A scope without limiters has no bucket set, "all" has no   *)
(* need of one; the buckets for destinations are made by the constructors  *)
(* of the source scope.                                                    *)
Configured(scope) == scope = "all" \/ Wrapped[scope] # <<>>
Limiters(scope) == Wrapped[IF scope = "destination" THEN "source" ELSE scope]

(* What TakeMsg and TakeDest take, in order.                               *)
Stages(op) == IF op = "msg" THEN <<"all", "ip", "source">> ELSE <<"destination">>

(* A goroutine: the call it is in, the keys of its message, the scope and  *)
(* the limiter it is at (both count from 1), and, once it releases, the    *)
(* last scope to release.                                                  *)
Idle == [pc |-> "idle", op |-> "msg", key |-> [s \in Scopes |-> NoKey],
         stage |-> 1, at |-> 1, upto |-> 0]
PCs == {"idle", "bucket", "wait", "held", "release", "panic"}

KeysOf(scope) == IF scope = "all" THEN {NoKey} ELSE Keys
AllKeys == Keys \union {NoKey}

TypeOK ==
    /\ sem \in [Scopes -> [AllKeys -> Nat]]
    /\ tokens \in [Scopes -> [AllKeys -> 0 .. Burst]]
    /\ buckets \in [Scopes -> SUBSET AllKeys]
    /\ lastUse \in [Scopes -> [AllKeys -> 0 .. MaxTime]]
    /\ now \in 0 .. MaxTime
    /\ \A p \in Procs :
         /\ proc[p].pc \in PCs
         /\ proc[p].op \in {"msg", "dest"}
         /\ proc[p].key \in [Scopes -> AllKeys]
         /\ proc[p].stage \in 1 .. 4 /\ proc[p].upto \in 0 .. 3
         /\ proc[p].at \in Nat \ {0}

Init ==
    /\ sem = [s \in Scopes |-> [k \in AllKeys |-> 0]]
    /\ tokens = [s \in Scopes |-> [k \in AllKeys |-> Burst]]
    /\ buckets = [s \in Scopes |-> {}]
    /\ lastUse = [s \in Scopes |-> [k \in AllKeys |-> 0]]
    /\ now = 0
    /\ proc = [p \in Procs |-> Idle]

Scope(p) == Stages(proc[p].op)[proc[p].stage]
Key(p)   == proc[p].key[Scope(p)]

----------------------------------------------------------------------------
(* Taking                                                                  *)

(* A message has an IP address and a source domain, a delivery a           *)
(* destination.                                                            *)
KeysFor(ip, domain) ==
    [s \in Scopes |-> CASE s = "all" -> NoKey [] s = "ip" -> ip [] OTHER -> domain]

Call(p) ==
    /\ proc[p].pc = "idle"
    /\ \E op \in {"msg", "dest"}, k \in Keys, d \in Keys :
         /\ op = "dest" => d = k
         /\ proc' = [proc EXCEPT ![p] = [Idle EXCEPT !.pc = "bucket", !.op = op,
                                                      !.key = KeysFor(k, d)]]
    /\ UNCHANGED <<sem, tokens, buckets, lastUse, now>>

(* All scopes are passed: the caller has its permission.                   *)
Advance(r) ==
    IF r.stage = Len(Stages(r.op))
    THEN [r EXCEPT !.pc = "held", !.stage = 1, !.upto = Len(Stages(r.op))]
    ELSE [r EXCEPT !.pc = "bucket", !.stage = @ + 1, !.at = 1]

(* Has waited for all limiters of the scope?                               *)
Settle(r, n) ==
    IF n > Len(Limiters(Stages(r.op)[r.stage])) THEN Advance(r)
    ELSE [r EXCEPT !.pc = "wait", !.at = n]

(* The age of a bucket, with the sign the code computes it with: no bucket *)
(* is ever stale.  With the other sign one that is in use may be dropped.  *)
StaleSince(s, k) == now - lastUse[s][k] > ReapInterval
Stale(s, k) == lastUse[s][k] - now > ReapInterval

(* BucketSet.take.  The set counts as full beyond MaxBuckets, whether or   *)
(* not the key is in it; stale buckets are closed and dropped then, and if *)
(* that does not help take returns nil, on which TakeContext panics.       *)
Full(keys) == Cardinality(keys) > MaxBuckets

TakeBucket(p) ==
    LET s == Scope(p)
        left == IF Full(buckets[s]) THEN {k \in buckets[s] : ~Stale(s, k)} ELSE buckets[s]
    IN
    /\ proc[p].pc = "bucket" /\ s # "all" /\ Configured(s)
    /\ \/ /\ Full(left)
          /\ proc' = [proc EXCEPT ![p].pc = "panic"]
          /\ buckets' = [buckets EXCEPT ![s] = left]
          /\ UNCHANGED lastUse
       \/ /\ ~Full(left)
          /\ buckets' = [buckets EXCEPT ![s] = left \union {Key(p)}]
          /\ lastUse' = [lastUse EXCEPT ![s][Key(p)] = now]
          /\ proc' = [proc EXCEPT ![p] = Settle(@, 1)]
    /\ sem' = [sem EXCEPT ![s] = [k \in AllKeys |->
                  IF k \in buckets[s] \ left THEN 0 ELSE sem[s][k]]]
    /\ tokens' = [tokens EXCEPT ![s] = [k \in AllKeys |->
                     IF k \in buckets[s] \ left THEN Burst ELSE tokens[s][k]]]
    /\ UNCHANGED now

(* The scope "all" is a MultiLimit without a bucket set; a scope that is   *)
(* not configured is passed over.                                          *)
PassBucket(p) ==
    /\ proc[p].pc = "bucket"
    /\ \/ Scope(p) = "all" /\ proc' = [proc EXCEPT ![p] = Settle(@, 1)]
       \/ ~Configured(Scope(p)) /\ proc' = [proc EXCEPT ![p] = Advance(@)]
    /\ UNCHANGED <<sem, tokens, buckets, lastUse, now>>

(* The limiter a goroutine waits at.                                       *)
At(p) == Limiters(Scope(p))[proc[p].at]

(* Semaphore.TakeContext and Rate.TakeContext, when there is room.         *)
TakeSemNoBound(p) ==
    /\ proc[p].pc = "wait" /\ At(p) = "concurrency"
    /\ sem' = [sem EXCEPT ![Scope(p)][Key(p)] = @ + 1]
    /\ proc' = [proc EXCEPT ![p] = Settle(@, @.at + 1)]
    /\ UNCHANGED <<tokens, buckets, lastUse, now>>
TakeSem(p) ==
    /\ proc[p].pc = "wait" /\ At(p) = "concurrency"
    /\ sem[Scope(p)][Key(p)] < MaxCount
    /\ sem' = [sem EXCEPT ![Scope(p)][Key(p)] = @ + 1]
    /\ proc' = [proc EXCEPT ![p] = Settle(@, @.at + 1)]
    /\ UNCHANGED <<tokens, buckets, lastUse, now>>

TakeRate(p) ==
    /\ proc[p].pc = "wait" /\ At(p) = "rate"
    /\ tokens[Scope(p)][Key(p)] > 0
    /\ tokens' = [tokens EXCEPT ![Scope(p)][Key(p)] = @ - 1]
    /\ proc' = [proc EXCEPT ![p] = Settle(@, @.at + 1)]
    /\ UNCHANGED <<sem, buckets, lastUse, now>>

(* Is the semaphore among the first n limiters of the scope?               *)
SemAmong(s, n) == \E i \in 1 .. n : Limiters(s)[i] = "concurrency"
HasSem(s) == SemAmong(s, Len(Limiters(s)))

(* Semaphore.Release, when there is a token to take back.                  *)
GiveBack(s, k) == [sem EXCEPT ![s][k] = @ - 1]

(* The context is over: MultiLimit.TakeContext releases what it took of    *)
(* this scope, then TakeMsg what it took of the earlier ones.  It releases *)
(* the bucket of the IP address without looking whether there is an ip     *)
(* scope at all.                                                           *)
AfterTimeout(r) ==
    IF r.stage = 1 THEN Idle
    ELSE [r EXCEPT !.pc = "release", !.stage = 1, !.upto = r.stage - 1]

TimeoutNoUndo(p) ==
    /\ proc[p].pc = "wait"
    /\ proc' = [proc EXCEPT ![p] = AfterTimeout(@)]
    /\ UNCHANGED <<sem, tokens, buckets, lastUse, now>>
TimeoutUndoAll(p) ==
    /\ proc[p].pc = "wait"
    /\ sem' = IF SemAmong(Scope(p), proc[p].at) THEN GiveBack(Scope(p), Key(p)) ELSE sem
    /\ proc' = [proc EXCEPT ![p] = AfterTimeout(@)]
    /\ UNCHANGED <<tokens, buckets, lastUse, now>>
TimeoutRateOnly(p) ==
    /\ proc[p].pc = "wait" /\ At(p) = "rate"
    /\ sem' = IF SemAmong(Scope(p), proc[p].at - 1) THEN GiveBack(Scope(p), Key(p)) ELSE sem
    /\ proc' = [proc EXCEPT ![p] = AfterTimeout(@)]
    /\ UNCHANGED <<tokens, buckets, lastUse, now>>
Timeout(p) ==
    /\ proc[p].pc = "wait"
    /\ sem' = IF SemAmong(Scope(p), proc[p].at - 1) THEN GiveBack(Scope(p), Key(p)) ELSE sem
    /\ proc' = [proc EXCEPT ![p] = AfterTimeout(@)]
    /\ UNCHANGED <<tokens, buckets, lastUse, now>>

----------------------------------------------------------------------------
(* Releasing                                                               *)

(* ReleaseMsg or ReleaseDest, when the caller is done.                     *)
Done(p) ==
    /\ proc[p].pc = "held"
    /\ proc' = [proc EXCEPT ![p].pc = "release"]
    /\ UNCHANGED <<sem, tokens, buckets, lastUse, now>>

NextRelease(r) == IF r.stage = r.upto THEN Idle ELSE [r EXCEPT !.stage = @ + 1]

(* One scope: a semaphore without a token panics ("mismatched Release      *)
(* call"), and so does the Release of a nil BucketSet; a bucket that is    *)
(* not there any more is passed over.  ReleaseMsg and ReleaseDest look for *)
(* nil, the undoing of a failed TakeMsg does not.                          *)
Release(p) ==
    LET s == Scope(p)
        k == Key(p)
        undo == proc[p].upto < Len(Stages(proc[p].op))
        empty == HasSem(s) /\ sem[s][k] = 0
        there == s = "all" \/ k \in buckets[s]
    IN
    /\ proc[p].pc = "release"
    /\ \/ /\ ~Configured(s) /\ undo
          /\ proc' = [proc EXCEPT ![p].pc = "panic"]
          /\ UNCHANGED sem
       \/ /\ ~Configured(s) /\ ~undo
          /\ proc' = [proc EXCEPT ![p] = NextRelease(@)]
          /\ UNCHANGED sem
       \/ /\ Configured(s)
          /\ proc' = [proc EXCEPT ![p] = IF there /\ empty THEN [@ EXCEPT !.pc = "panic"]
                                         ELSE NextRelease(@)]
          /\ sem' = IF there /\ HasSem(s) /\ ~empty THEN GiveBack(s, k) ELSE sem
    /\ UNCHANGED <<tokens, buckets, lastUse, now>>

----------------------------------------------------------------------------
(* Rate.fill: up to Burst tokens, at every interval.                       *)
Fill(s, k) ==
    /\ tokens[s][k] < Burst
    /\ tokens' = [tokens EXCEPT ![s][k] = Burst]
    /\ UNCHANGED <<sem, buckets, lastUse, now, proc>>

Tick ==
    /\ now < MaxTime
    /\ now' = now + 1
    /\ UNCHANGED <<sem, tokens, buckets, lastUse, proc>>

Step(p) ==
    \/ TakeBucket(p) \/ PassBucket(p) \/ TakeSem(p) \/ TakeRate(p)
    \/ Timeout(p) \/ Release(p)

Next ==
    \/ \E p \in Procs : Call(p) \/ Step(p) \/ Done(p)
    \/ \E s \in Scopes, k \in AllKeys : Fill(s, k)
    \/ Tick

Spec == Init /\ [][Next]_vars

(* Goroutines run and time passes, so that a context ends; nobody is       *)
(* obliged to be done with his message.                                    *)
FairSpec == Spec /\ \A p \in Procs : WF_vars(Step(p))

----------------------------------------------------------------------------
(* What the limits promise                                                 *)

(* The scopes goroutine p has taken and not released, of those it passes:  *)
(* the ones before its stage while it takes, from its stage on after.      *)
Taken(p, i) ==
    LET r == proc[p] IN
    CASE r.pc = "idle" -> FALSE
      [] r.upto = 0    -> i < r.stage \/ (i = r.stage /\ r.pc = "wait" /\
                                          SemAmong(Scope(p), r.at - 1))
      [] OTHER         -> i >= r.stage /\ i <= r.upto

(* The goroutines with a token of the semaphore of a scope under a key.    *)
Holders(s, k) ==
    {p \in Procs : HasSem(s) /\ Configured(s) /\ proc[p].key[s] = k /\
        \E i \in 1 .. Len(Stages(proc[p].op)) : Stages(proc[p].op)[i] = s /\ Taken(p, i)}

(* The tokens in every semaphore are those of the goroutines that took     *)
(* them.  A goroutine that panicked keeps what it had.                     *)
TokensAreHolders ==
    \A s \in Scopes : \A k \in KeysOf(s) : sem[s][k] = Cardinality(Holders(s, k))

(* The messages admitted under a key of a scope.                           *)
Admitted(s, k) ==
    {p \in Procs : /\ proc[p].pc = "held" /\ proc[p].key[s] = k
                   /\ \E i \in 1 .. Len(Stages(proc[p].op)) : Stages(proc[p].op)[i] = s}

ConcurrencyLimited(s) == \E i \in DOMAIN Wrapped[s] : Wrapped[s][i] = "concurrency"

(* `all`, `ip` and `source concurrency max` admit at most max messages at  *)
(* a time for each key.                                                    *)
MessagesLimited ==
    \A s \in Scopes \ {"destination"} : \A k \in KeysOf(s) :
        ConcurrencyLimited(s) => Cardinality(Admitted(s, k)) <= MaxCount

(***************************************************************************)
(* However the waits and timeouts of the scopes interleave, no token is    *)
(* lost and none is released twice, and so the configured number of        *)
(* messages is in progress at most.                                        *)
(***************************************************************************)
LimitsKept == TypeOK /\ TokensAreHolders /\ MessagesLimited

(***************************************************************************)
(* TakeMsg, TakeDest and their undoing come to an end, though nobody ever  *)
(* releases: everyone who waits for everyone else gives up.  A panic is an *)
(* end too.                                                                *)
(***************************************************************************)
TakeReturns ==
    \A p \in Procs : proc[p].pc \in {"bucket", "wait", "release"}
                        ~> proc[p].pc \in {"idle", "held", "panic"}
=============================================================================
