---------------------------- MODULE MsgPipeline ----------------------------
(***************************************************************************)
(* One message in the pipeline of internal/msgpipeline: the state objects  *)
(* of checks and modifiers, the routing of recipients to targets and the   *)
(* deliveries opened at the targets.  The operators below are the calls a  *)
(* message source makes on msgpipelineDelivery, broken down to the calls   *)
(* the pipeline makes in turn; module SmtpSession is the source.           *)
(*                                                                         *)
(* Checks, modifiers, tables and targets are environment: Failures says    *)
(* which of their calls may fail.  The tables of the configuration are     *)
(* constants: Rewrite is what global and source modifiers make of an       *)
(* address, BlockRewrite what the modifiers of its block make of it.       *)
(*                                                                         *)
(* Next to some definitions stands a variant with a plausible slip, unused *)
(* by the specification: with it in place of the definition, the property  *)
(* the README names for it fails.                                          *)
(***************************************************************************)
EXTENDS Naturals, Sequences, FiniteSets

CONSTANTS
    Addrs,           \* addresses, as given by clients and as rewritten
    Targets,         \* delivery targets
    Checks,          \* check modules
    Blocks,          \* destination blocks
    GlobalChecks,    \* checks of the pipeline
    SourceChecks,    \* checks of the source block
    BlockChecks,     \* checks of each destination block
    RejectBlocks,    \* destination blocks that are a reject directive
    Rewrite,         \* Addrs -> Seq(Addrs)
    BlockRewrite,    \* Addrs -> Seq(Addrs)
    BlockOf,         \* Addrs -> Blocks
    TargetsOf,       \* Blocks -> Seq(Targets)
    NoTarget,        \* no target
    PartialTargets,  \* targets that implement module.PartialDelivery
    Failures         \* the calls that may fail

ASSUME ConfigAssumption ==
    /\ GlobalChecks \subseteq Checks /\ SourceChecks \subseteq Checks
    /\ BlockChecks \in [Blocks -> SUBSET Checks]
    /\ RejectBlocks \subseteq Blocks
    /\ Rewrite \in [Addrs -> Seq(Addrs)]
    /\ BlockRewrite \in [Addrs -> Seq(Addrs)]
    /\ BlockOf \in [Addrs -> Blocks]
    /\ TargetsOf \in [Blocks -> Seq(Targets)]
    /\ PartialTargets \subseteq Targets /\ NoTarget \notin Targets

VARIABLES
    states,    \* checkRunner.states: checks with a state for this message
    seen,      \* checkRunner.checkedRcptsPerCheck
    checked,   \* checkRunner.checkedRcpts
    quar,      \* checkRunner.mergedRes.Quarantine
    flagged,   \* MsgMetadata.Quarantine
    orig,      \* MsgMetadata.OriginalRcpts
    mods,      \* modifier groups that hold a state for this message
    deliv,     \* msgpipelineDelivery.deliveries: the state of each
    took,      \* the addresses each delivery accepted
    recips,    \* delivery.recipients
    ready,     \* the addresses each delivery accepted the body for
    \* history
    closed,    \* the states of this message whose Close was called
    orphans    \* what was dropped without Close, Commit or Abort

checkVars == <<states, seen, checked, quar>>
delivVars == <<deliv, took, recips, ready>>
pipeVars  == <<checkVars, flagged, orig, mods, delivVars, closed, orphans>>

Groups == {"global", "source"} \union Blocks
DelivStates == {"none", "open", "bodied", "failed", "committed", "commitErr"}

PipeTypeOK ==
    /\ states \subseteq Checks
    /\ seen \in [Checks -> SUBSET Addrs]
    /\ checked \subseteq Addrs
    /\ quar \in BOOLEAN /\ flagged \in BOOLEAN
    /\ orig \in [Addrs -> Addrs]
    /\ mods \subseteq Groups
    /\ deliv \in [Targets -> DelivStates]
    /\ took \in [Targets -> SUBSET Addrs]
    /\ recips \in [Targets -> SUBSET Addrs]
    /\ ready \in [Targets -> SUBSET Addrs]
    /\ closed \subseteq Checks \union Groups
    /\ orphans \subseteq Checks \union Groups \union Targets

(* A new msgpipelineDelivery with its checkRunner.  An address that is not *)
(* in OriginalRcpts stands for itself.                                     *)
NewPipe ==
    /\ states = {} /\ seen = [c \in Checks |-> {}] /\ checked = {}
    /\ quar = FALSE /\ flagged = FALSE
    /\ orig = [a \in Addrs |-> a]
    /\ mods = {}
    /\ deliv = [t \in Targets |-> "none"]
    /\ took = [t \in Targets |-> {}]
    /\ recips = [t \in Targets |-> {}]
    /\ ready = [t \in Targets |-> {}]
    /\ closed = {}

PipeInit == NewPipe /\ orphans = {}

----------------------------------------------------------------------------
(* The check runner and the modifier states                                *)

(* state.Close on every object of the set.                                 *)
CloseObjects(objs) == closed' = closed \union objs

(* msgpipelineDelivery.close *)
PipeClose ==
    /\ CloseObjects(states \union mods)
    /\ UNCHANGED <<checkVars, flagged, orig, mods, delivVars, orphans>>

(* checkStates gives each check of cs a state and replays to the new ones  *)
(* what the message went through so far; on the way it shows every         *)
(* recipient checked before to the states of cs that missed it.            *)
Registered(cs, extra) ==
    /\ states' = states \union cs
    /\ seen' = [c \in Checks |->
                   IF c \notin cs THEN seen[c]
                   ELSE IF cs \subseteq states THEN seen[c] \union extra
                   ELSE seen[c] \union checked \union extra]

(* When it fails, by an error or by a check that rejects what is replayed, *)
(* it closes the states it has in hand, old ones included, and registers   *)
(* none.  D: the old ones in hand at the error; S: what they saw till then. *)
StatesFailed(cs) ==
    /\ "check" \in Failures
    /\ ~ cs \subseteq states
    /\ \E D \in SUBSET (cs \intersect states), S \in SUBSET checked :
         /\ CloseObjects(D)
         /\ seen' = [c \in Checks |-> IF c \in cs \intersect states
                                      THEN seen[c] \union S ELSE seen[c]]
    /\ UNCHANGED <<states, checked, quar>>

(* checkRcpt: runAndMergeResults runs the checks of cs in parallel; one    *)
(* that rejects wins over one that quarantines.                            *)
CheckRcptOnceOnly(cs, a, ok) ==
    \/ /\ states' = states \union cs
       /\ seen' = [c \in Checks |-> IF c \in cs \ states
                                    THEN seen[c] \union {a} ELSE seen[c]]
       /\ checked' = checked \union {a}
       /\ ok /\ UNCHANGED <<quar, closed>>
    \/ ~ok /\ StatesFailed(cs)
CheckRcpt(cs, a, ok) ==
    \/ /\ Registered(cs, {a})
       /\ checked' = checked \union {a}
       /\ \/ ok /\ quar' \in {quar, quar \/ cs # {}}
          \/ ~ok /\ "check" \in Failures /\ cs # {} /\ UNCHANGED quar
       /\ UNCHANGED closed
    \/ ~ok /\ StatesFailed(cs)

----------------------------------------------------------------------------
(* MsgPipeline.Start                                                       *)

(* Connection and sender checks of the pipeline and of the source block,   *)
(* and their sender modifiers.                                             *)
StartOk ==
    /\ states' = GlobalChecks \union SourceChecks
    /\ quar' \in {FALSE, GlobalChecks \union SourceChecks # {}}
    /\ mods' = {"global", "source"}
    /\ UNCHANGED <<seen, checked, flagged, orig, delivVars, closed, orphans>>

(* A failed Start closes what the delivery holds; the state of the source  *)
(* modifiers is not held yet when their RewriteSender fails.               *)
StartFailed ==
    /\ \/ UNCHANGED orphans
       \/ "sender" \in Failures /\ orphans' = orphans \union {"source"}
    /\ UNCHANGED <<checkVars, flagged, orig, mods, delivVars, closed>>

----------------------------------------------------------------------------
(* msgpipelineDelivery.AddRcpt, as the list of the calls still to make     *)

Call(op, a, t) == [op |-> op, addr |-> a, tgt |-> t]

(* Global and source checks of the address as given, then its rewriting.   *)
AddRcptCalls(a) ==
    << Call("global", a, NoTarget), Call("source", a, NoTarget), Call("rewrite", a, NoTarget) >>

(* For every address it becomes: block lookup and checks, block modifiers. *)
BlockCallsFirst(a) ==
    << Call("block", Rewrite[a][1], NoTarget), Call("modify", Rewrite[a][1], NoTarget) >>
BlockCalls(a) ==
    [i \in 1 .. 2 * Len(Rewrite[a]) |->
        Call(IF i % 2 = 1 THEN "block" ELSE "modify", Rewrite[a][(i + 1) \div 2], NoTarget)]

(* For every address the block makes of it: the targets of the block.      *)
DeliverCalls(a) ==
    LET tgts == TargetsOf[BlockOf[a]] IN
    [i \in 1 .. Len(BlockRewrite[a]) * Len(tgts) |->
        Call("deliver", BlockRewrite[a][1 + ((i - 1) \div Len(tgts))],
                        tgts[1 + ((i - 1) % Len(tgts))])]

(* The targets and addresses a recipient amounts to.                       *)
Plan(a) ==
    UNION { { <<BlockRewrite[b][i], TargetsOf[BlockOf[b]][j]>> :
                i \in DOMAIN BlockRewrite[b], j \in DOMAIN TargetsOf[BlockOf[b]] }
            : b \in {Rewrite[a][k] : k \in DOMAIN Rewrite[a]} }

unlessCheck == <<flagged, orig, mods, delivVars, orphans>>
unlessMod   == <<checkVars, flagged, orig, delivVars, orphans>>

(* rcptBlockForAddr, its reject directive and the checks of the block.     *)
RcptBlock(a, ok) ==
    \/ /\ BlockOf[a] \notin RejectBlocks
       /\ CheckRcpt(BlockChecks[BlockOf[a]], a, ok)
       /\ UNCHANGED unlessCheck
    \/ ~ok /\ BlockOf[a] \in RejectBlocks /\ UNCHANGED pipeVars

(* getRcptModifiers and RewriteRcpt.  A failed RewriteRcpt closes the      *)
(* state, which stays in rcptModifiersState.                               *)
BlockModify(a, ok) ==
    \/ /\ ok
       /\ mods' = mods \union {BlockOf[a]}
       /\ UNCHANGED <<unlessMod, closed>>
    \/ /\ ~ok /\ "modifier" \in Failures
       /\ \/ mods' = mods \union {BlockOf[a]} /\ CloseObjects({BlockOf[a]})
          \/ BlockOf[a] \notin mods /\ UNCHANGED <<mods, closed>>
       /\ UNCHANGED unlessMod

(* getDelivery and Delivery.AddRcpt for one address at one target; rcpt is *)
(* the address the client gave.                                            *)
Deliver(rcpt, a, t, ok) ==
    /\ orig' = IF rcpt # a THEN [orig EXCEPT ![a] = rcpt] ELSE orig
    /\ \/ /\ ok
          /\ deliv' = [deliv EXCEPT ![t] = "open"]
          /\ took' = [took EXCEPT ![t] = @ \union {a}]
          /\ recips' = [recips EXCEPT ![t] = @ \union {rcpt}]
       \/ /\ ~ok /\ "start" \in Failures /\ deliv[t] = "none"
          /\ UNCHANGED <<deliv, took, recips>>
       \/ /\ ~ok /\ "addrcpt" \in Failures
          /\ deliv' = [deliv EXCEPT ![t] = "open"]
          /\ UNCHANGED <<took, recips>>
    /\ UNCHANGED <<checkVars, flagged, mods, ready, closed, orphans>>

----------------------------------------------------------------------------
(* Body, BodyNonAtomic, Commit and Abort                                   *)

unlessBody == <<states, seen, checked, orig, mods, took, recips, closed, orphans>>

(* The checks of the body, DMARC among them, and the RewriteBody of all    *)
(* modifiers.  Only Body, not BodyNonAtomic, runs the checks of the blocks *)
(* and applyResults, which copies the quarantine flag.                     *)
BodyChecksNotApplied(atomic, ok) ==
    /\ ok \/ "check" \in Failures
    /\ quar' \in {quar, quar \/ states # {}}
    /\ UNCHANGED <<flagged, unlessBody, deliv, ready>>
BodyChecks(atomic, ok) ==
    /\ ok \/ "check" \in Failures \/ "modifier" \in Failures
    /\ quar' \in {quar, quar \/ states # {}}
    /\ flagged' \in (IF atomic THEN {quar', TRUE} ELSE {flagged})
                       \union (IF ok THEN {} ELSE {flagged})
    /\ UNCHANGED <<unlessBody, deliv, ready>>

(* Delivery.Body or BodyNonAtomic of one target, which accepts the body    *)
(* for the addresses in good.                                              *)
TargetBody(t, good, ok) ==
    /\ (ok /\ good = took[t]) \/ "body" \in Failures
    /\ deliv' = [deliv EXCEPT ![t] = IF ok THEN "bodied" ELSE "failed"]
    /\ ready' = [ready EXCEPT ![t] = good]
    /\ UNCHANGED <<quar, flagged, unlessBody>>

TargetCommit(t, ok) ==
    /\ ok \/ "commit" \in Failures
    /\ deliv' = [deliv EXCEPT ![t] = IF ok THEN "committed" ELSE "commitErr"]
    /\ UNCHANGED <<quar, flagged, ready, unlessBody>>

(* No message: what NewPipe says of a new one.                             *)
Forget ==
    /\ states' = {} /\ seen' = [c \in Checks |-> {}] /\ checked' = {}
    /\ quar' = FALSE /\ flagged' = FALSE
    /\ orig' = [a \in Addrs |-> a]
    /\ mods' = {}
    /\ deliv' = [t \in Targets |-> "none"]
    /\ took' = [t \in Targets |-> {}]
    /\ recips' = [t \in Targets |-> {}]
    /\ ready' = [t \in Targets |-> {}]
    /\ closed' = {}

(* msgpipelineDelivery.Abort: close, and Abort of every delivery, whatever *)
(* each of them returns.                                                   *)
PipeAbortNoClose ==
    /\ orphans' = orphans \union ((states \union mods) \ closed)
    /\ Forget
PipeAbort == Forget /\ UNCHANGED orphans

(* The source lets go of the delivery without Abort: no one releases what  *)
(* it holds.                                                               *)
PipeDrop ==
    /\ orphans' = orphans \union ((states \union mods) \ closed) \union
                   {t \in Targets : deliv[t] \in {"open", "bodied", "failed"}}
    /\ Forget
=============================================================================
