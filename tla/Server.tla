------------------------------- MODULE Server -------------------------------
(***************************************************************************)
(* The process: it reads its configuration, registers the modules, starts  *)
(* them in the order their references ask for, serves, answers signals,    *)
(* reloads the files it keeps in memory, and stops by running its hooks    *)
(* backwards (maddy.go, signal.go, framework/module, framework/hooks,      *)
(* framework/config, the Init and Close of the endpoints, table.file and   *)
(* tls.loader.file, the ALPN listener of the chatmail endpoint).           *)
(*                                                                         *)
(* A configuration is a record: `globals', the global directives; and      *)
(* `blocks', a sequence of blocks.  A block has the module it names, its   *)
(* first argument (`name'), the other ones (`aliases'), its addresses, its *)
(* directives, its pipeline and the names both refer to.  A directive has  *)
(* its name, its number of arguments and the value it converts to: "set",  *)
(* "zero" (the zero value of its type) or "bad" (the conversion fails).  A *)
(* pipeline is a sequence of directives, each with its own block (`kids'). *)
(***************************************************************************)
EXTENDS Naturals, Sequences, FiniteSets

CONSTANTS
  Configs,        \* the configurations the process may be started with
  MaxFaults,      \* how many system calls may fail
  MaxSignals,     \* how many signals are sent
  MaxEdits,       \* how many times a watched file is written
  MaxClock,       \* how many times 7.5 seconds pass
  MaxConns        \* how many connections arrive at the shared port

(* Every configuration names at least one block. *)
ASSUME ConfigsAssumption == \A c \in Configs : Len(c.blocks) > 0

VARIABLES
  cfg,         \* the configuration
  main,        \* what the main goroutine does
  reg,         \* index of the loop of RegisterModules, then of initModules
  instances,   \* instances[n]: the block registered last under n
  aliases,     \* aliases[n]: the name n stands for
  initialized, \* module.Initialized, a set of names
  stack,       \* the Init calls in progress, the innermost last
  done,        \* blocks whose Init returned no error
  failed,      \* blocks whose Init returned an error that nobody saw
  hooks,       \* the EventShutdown hooks: the blocks they close
  reloads,     \* the EventReload hooks: the blocks they reload
  up,          \* blocks that accept connections
  closed,      \* blocks whose Close returned
  sigs,        \* signals not yet received
  hookrun,     \* hookrun[g]: the reload hooks goroutine g has still to run
  tab,         \* the table.file module and its file
  crt,         \* the tls.loader.file module and its files
  mux,         \* the ALPN listener
  env          \* budgets of the environment

vars == <<cfg, main, reg, instances, aliases, initialized, stack, done,
          failed, hooks, reloads, up, closed, sigs, hookrun, tab, crt, mux,
          env>>

names == <<cfg, instances, aliases>>
calls == <<initialized, stack, done, failed, hooks, reloads>>
boot  == <<names, reg, calls, up>>
files == <<tab, crt>>

-----------------------------------------------------------------------------
(* config.Map: how a block's directives become values.                     *)

(* EnumList, Enum, EnumMapped: one allowed word, or a list of them. *)
EnumFits(list, n) == IF list THEN n >= 1 ELSE n = 1

(* EnumListMapped, Duration and DataSize join one or more arguments. *)
ListFits(n) == n >= 1

(* Bool: the name alone, or one of yes and no. *)
BoolFits(n) == n <= 1

(* String and the integers: exactly one argument. *)
ScalarFits(n) == n = 1

(* Custom leaves the arguments to the mapper. *)
Fits(kind, n) ==
  CASE kind = "enum"   -> EnumFits(FALSE, n)
    [] kind = "list"   -> ListFits(n)
    [] kind = "bool"   -> BoolFits(n)
    [] kind = "string" -> ScalarFits(n)
    [] OTHER           -> TRUE

Directive(n, k, inh, req, dflt) ==
  [name |-> n, kind |-> k, inherit |-> inh, required |-> req, dflt |-> dflt]

(* The directives ReadGlobals knows; it lets the others pass. *)
GlobalMatchers ==
  {Directive("hostname", "string", FALSE, FALSE, "zero"),
   Directive("tls", "custom", FALSE, FALSE, "zero"),
   Directive("autogenerated_msg_domain", "string", FALSE, FALSE, "zero"),
   Directive("tls_client", "custom", FALSE, FALSE, "zero"),
   Directive("debug", "bool", FALSE, FALSE, "zero"),
   Directive("auth_map_normalize", "enum", TRUE, FALSE, "set")}

(* smtp.setConfig: lmtp does not require TLS. *)
SmtpMatchers(mod) ==
  {Directive("hostname", "string", TRUE, TRUE, "zero"),
   Directive("tls", "custom", TRUE, mod # "lmtp", "zero"),
   Directive("auth_map_normalize", "enum", TRUE, FALSE, "set"),
   Directive("max_message_size", "list", FALSE, FALSE, "set"),
   Directive("debug", "bool", TRUE, FALSE, "zero"),
   Directive("auth", "callback", FALSE, FALSE, "zero")}

ImapMatchers ==
  {Directive("tls", "custom", TRUE, TRUE, "zero"),
   Directive("storage", "custom", FALSE, TRUE, "zero"),
   Directive("debug", "bool", TRUE, FALSE, "zero"),
   Directive("auth", "callback", FALSE, FALSE, "zero")}

ChatmailMatchers ==
  {Directive("mail_domain", "string", FALSE, TRUE, "zero"),
   Directive("tls", "custom", TRUE, FALSE, "zero"),
   Directive("debug", "bool", FALSE, FALSE, "zero")}

TurnMatchers ==
  {Directive("realm", "string", TRUE, TRUE, "zero"),
   Directive("secret", "string", TRUE, TRUE, "zero"),
   Directive("tls", "custom", FALSE, FALSE, "zero"),
   Directive("debug", "bool", TRUE, FALSE, "zero")}

QueueMatchers ==
  {Directive("target", "custom", FALSE, TRUE, "zero"),
   Directive("hostname", "string", TRUE, TRUE, "zero"),
   Directive("autogenerated_msg_domain", "string", TRUE, FALSE, "zero"),
   Directive("bounce", "custom", FALSE, FALSE, "zero"),
   Directive("max_tries", "string", FALSE, FALSE, "set"),
   Directive("debug", "bool", TRUE, FALSE, "zero")}

RemoteMatchers ==
  {Directive("hostname", "string", TRUE, TRUE, "zero"),
   Directive("tls_client", "custom", TRUE, FALSE, "set"),
   Directive("mx_auth", "custom", FALSE, FALSE, "zero"),
   Directive("limits", "custom", FALSE, FALSE, "set"),
   Directive("connect_timeout", "list", FALSE, FALSE, "set"),
   Directive("debug", "bool", TRUE, FALSE, "zero")}

DownstreamMatchers ==
  {Directive("hostname", "string", TRUE, TRUE, "zero"),
   Directive("targets", "list", FALSE, FALSE, "zero"),
   Directive("attempt_starttls", "callback", FALSE, FALSE, "zero"),
   Directive("tls_client", "custom", TRUE, FALSE, "set"),
   Directive("debug", "bool", TRUE, FALSE, "zero")}

DkimMatchers ==
  {Directive("domains", "list", FALSE, FALSE, "zero"),
   Directive("selector", "string", FALSE, FALSE, "zero"),
   Directive("header_canon", "enum", FALSE, FALSE, "set"),
   Directive("debug", "bool", TRUE, FALSE, "zero")}

(* The settings table is optional, the table of credentials is not. *)
PassTableMatchers ==
  {Directive("table", "custom", FALSE, TRUE, "zero"),
   Directive("settings_table", "custom", FALSE, FALSE, "zero"),
   Directive("jit_domain", "string", FALSE, FALSE, "zero"),
   Directive("auto_create", "bool", FALSE, FALSE, "zero")}

StorageMatchers ==
  {Directive("driver", "string", FALSE, FALSE, "zero"),
   Directive("dsn", "list", FALSE, FALSE, "zero"),
   Directive("appendlimit", "list", FALSE, FALSE, "set"),
   Directive("unused_account_retention", "list", FALSE, FALSE, "zero"),
   Directive("auth_db", "string", FALSE, FALSE, "zero"),
   Directive("debug", "bool", TRUE, FALSE, "zero")}

PipelineMatchers ==
  {Directive("hostname", "string", TRUE, TRUE, "zero"),
   Directive("debug", "bool", TRUE, FALSE, "zero")}

ModuleMatchers == {Directive("debug", "bool", TRUE, FALSE, "zero")}

Matchers(mod) ==
  CASE mod \in {"smtp", "submission", "lmtp"} -> SmtpMatchers(mod)
    [] mod = "imap"     -> ImapMatchers
    [] mod = "chatmail" -> ChatmailMatchers
    [] mod = "turn"     -> TurnMatchers
    [] mod = "target.queue"    -> QueueMatchers
    [] mod = "target.remote"   -> RemoteMatchers
    [] mod = "target.smtp"     -> DownstreamMatchers
    [] mod = "modify.dkim"     -> DkimMatchers
    [] mod = "msgpipeline"     -> PipelineMatchers
    [] mod = "auth.pass_table" -> PassTableMatchers
    [] mod = "storage.imapsql" -> StorageMatchers
    [] OTHER            -> ModuleMatchers

Given(dirs, n) == {i \in 1..Len(dirs) : dirs[i].name = n}

(* Variant: every default is put into Values. *)
StoredAll(m, dirs, globals) == TRUE

(* A default that is a zero value is not put into Values, so that a        *)
(* directive which is required in one of two places is not inherited as    *)
(* the empty default of the other.                                         *)
Stored(m, dirs, globals) ==
  \/ Given(dirs, m.name) # {}
  \/ m.inherit /\ m.name \in DOMAIN globals /\ globals[m.name] = "set"
  \/ ~(m.inherit /\ m.name \in DOMAIN globals) /\ m.dflt = "set"

ValueOf(m, dirs, globals) ==
  IF Given(dirs, m.name) # {}
    THEN dirs[CHOOSE i \in Given(dirs, m.name) : TRUE].val
    ELSE IF m.inherit /\ m.name \in DOMAIN globals THEN globals[m.name]
                                                   ELSE m.dflt

ProcessOk(ms, globals, dirs, allowUnknown) ==
  /\ \A i \in 1..Len(dirs) :
       LET m == {x \in ms : x.name = dirs[i].name} IN
       /\ m # {} \/ allowUnknown
       /\ \A x \in m :
            /\ dirs[i].val # "bad"
            /\ Fits(x.kind, dirs[i].args)
            /\ x.kind = "callback" \/ Cardinality(Given(dirs, x.name)) = 1
  /\ \A x \in ms :
       x.required => \/ Given(dirs, x.name) # {}
                     \/ x.inherit /\ x.name \in DOMAIN globals

(* Map.Values after a call of Process that succeeded. *)
ProcessWith(ms, globals, dirs) ==
  LET kept == {m \in ms : m.kind # "callback" /\ Stored(m, dirs, globals)}
  IN [n \in {m.name : m \in kept} |->
        ValueOf(CHOOSE m \in kept : m.name = n, dirs, globals)]

NoGlobals == [n \in {} |-> "zero"]

ReadGlobals == ProcessWith(GlobalMatchers, NoGlobals, cfg.globals)

(* What an Init asks of its directives after Process accepted them. *)
Has(b, n) == \E m \in Matchers(b.mod) :
               m.name = n /\ ValueOf(m, b.dirs, ReadGlobals) = "set"

SubmissionAsks(b) == Given(b.dirs, "auth") # {}

TurnAsks(b) == Has(b, "realm") /\ Has(b, "secret")

(* Bounces need a domain to come from. *)
QueueAsks(b) == Has(b, "bounce") => Has(b, "autogenerated_msg_domain")

DownstreamAsks(b) == Has(b, "targets")

DkimAsks(b) == Has(b, "domains") /\ Has(b, "selector")

StorageAsks(b) ==
  /\ Has(b, "dsn") /\ Has(b, "driver")
  /\ Has(b, "unused_account_retention") => Has(b, "auth_db")

Asks(b) ==
  CASE b.mod = "submission"      -> SubmissionAsks(b)
    [] b.mod = "turn"            -> TurnAsks(b)
    [] b.mod = "target.queue"    -> QueueAsks(b)
    [] b.mod = "target.smtp"     -> DownstreamAsks(b)
    [] b.mod = "modify.dkim"     -> DkimAsks(b)
    [] b.mod = "storage.imapsql" -> StorageAsks(b)
    [] OTHER                     -> TRUE

-----------------------------------------------------------------------------
(* msgpipeline/config.go: which pipelines a block may have.                *)

Named(nodes, ns) == {i \in 1..Len(nodes) : nodes[i].name \in ns}
Handling == {"deliver_to", "reroute", "reject"}
Around   == {"check", "modify"}

(* parseRejectDirective: a code, an enhanced code and a text, or fewer. *)
parseRejectDirective(n) == n.args <= 3 /\ n.val # "bad"

(* parseMsgPipelineRcptCfg: what happens to a recipient.  pipes are the    *)
(* nested pipelines that are accepted.                                     *)
parseMsgPipelineRcptCfg(nodes, pipes) ==
  \A i \in 1..Len(nodes) :
    LET n == nodes[i]
        before == SubSeq(nodes, 1, i - 1)
    IN /\ n.name \in Handling \cup Around
       /\ n.name = "deliver_to" => /\ n.args >= 1
                                   /\ Named(before, {"reject"}) = {}
       /\ n.name = "reroute" => n.kids # <<>> /\ n.kids \in pipes
       /\ n.name = "reject" =>
            /\ Named(before, {"deliver_to", "reroute"}) = {}
            /\ parseRejectDirective(n)

(* The blocks inside a sequence of directives. *)
Bodies(nodes) == {nodes[i].kids : i \in 1..Len(nodes)}

(* The shape that sources and destinations share: rules and one default    *)
(* block that is not empty, or handling directives alone.  A table of      *)
(* rules (source_in, destination_in) does not count as a rule.  accepted   *)
(* are the blocks, of these and others, that the next level accepts.       *)
RulesOrHandling(nodes, rule, table, dflt, others, accepted) ==
  LET rules == Named(nodes, {rule})
      d     == Named(nodes, {dflt})
  IN /\ \A i \in rules \cup Named(nodes, {table}) : nodes[i].kids \in accepted
     /\ \A i \in rules : nodes[i].args >= 1 /\ nodes[i].val # "bad"
     /\ Cardinality(d) <= 1
     /\ IF rules = {} /\ \A i \in d : nodes[i].kids = <<>>
        THEN others # <<>> /\ others \in accepted
        ELSE /\ others = <<>>
             /\ \E i \in d : nodes[i].kids # <<>> /\ nodes[i].kids \in accepted

parseMsgPipelineSrcCfg(nodes, pipes) ==
  LET rules  == {"destination", "destination_in", "default_destination"}
      others == SelectSeq(nodes, LAMBDA n : n.name \in Handling)
  IN /\ Named(nodes, Around \cup Handling \cup rules) = 1..Len(nodes)
     /\ RulesOrHandling(nodes, "destination", "destination_in",
          "default_destination", others,
          {ns \in Bodies(nodes) \cup {others} :
             parseMsgPipelineRcptCfg(ns, pipes)})

(* parseMsgPipelineRootCfg: without a source rule, what is left over is    *)
(* the source block of every message.                                      *)
parseMsgPipelineRootCfg(nodes, pipes) ==
  LET rules  == {"source", "source_in", "default_source", "dmarc"}
      rest   == Handling \cup {"destination", "destination_in",
                               "default_destination"}
      others == SelectSeq(nodes, LAMBDA n : n.name \in rest)
  IN /\ Named(nodes, Around \cup rules \cup rest) = 1..Len(nodes)
     /\ \A i \in Named(nodes, {"dmarc"}) : nodes[i].val # "bad"
     /\ RulesOrHandling(nodes, "source", "source_in", "default_source", others,
          {ns \in Bodies(nodes) \cup {others} :
             parseMsgPipelineSrcCfg(ns, pipes)})

(* Pipelines are nested at most once in the configurations considered, in  *)
(* a reroute below a source and a destination at most.                     *)
PipelineOk(nodes) ==
  LET within(S) == UNION {Bodies(ns) : ns \in S}
      one   == Bodies(nodes)
      two   == within(one)
      three == within(two)
  IN parseMsgPipelineRootCfg(nodes,
       {ns \in one \cup two \cup three : parseMsgPipelineRootCfg(ns, {})})

HasPipeline(b) ==
  \/ b.mod \in {"smtp", "submission", "lmtp", "msgpipeline"}
  \/ b.mod = "target.queue" /\ Given(b.dirs, "bounce") # {}

-----------------------------------------------------------------------------
(* Registration.                                                           *)

Blocks == 1..Len(cfg.blocks)
Block(b) == cfg.blocks[b]

Endpoints == {"smtp", "submission", "lmtp", "imap", "chatmail", "turn",
              "openmetrics"}

IsEndpoint(b) == Block(b).mod \in Endpoints

(* Endpoints are named after their module, chatmail after its first        *)
(* address and openmetrics not at all; other blocks have a name.           *)
InstanceName(b) ==
  CASE Block(b).mod = "chatmail"    -> Block(b).addrs[1]
    [] Block(b).mod = "openmetrics" -> ""
    [] IsEndpoint(b)                -> Block(b).mod
    [] OTHER                        -> Block(b).name

(* The modules with a Close method. *)
IsCloser(b) ==
  Block(b).mod \notin {"table.static", "auth.pass_table", "msgpipeline",
                       "target.smtp", "modify.dkim"}

Resolve(n) == IF n \in DOMAIN aliases THEN aliases[n] ELSE n

HasInstance(n) == Resolve(n) \in DOMAIN instances

Bind(f, n, v) == [x \in DOMAIN f \cup {n} |-> IF x = n THEN v ELSE f[x]]

End(how) == main' = how

Fault == /\ env.faults > 0
         /\ env' = [env EXCEPT !.faults = @ - 1]

(* One block of RegisterModules.  Only a block that is no endpoint is      *)
(* refused when its name is taken.                                         *)
RegisterModules ==
  /\ main = "register" /\ reg < Len(cfg.blocks)
  /\ LET b == reg + 1
         n == InstanceName(b)
     IN \/ /\ ~IsEndpoint(b) /\ HasInstance(n)
           /\ End("failed")
           /\ UNCHANGED <<reg, instances, aliases>>
        \/ /\ ~IsEndpoint(b) /\ ~HasInstance(n)
           /\ \E a \in Block(b).aliases : HasInstance(a)
           /\ End("failed")
           /\ UNCHANGED <<reg, instances, aliases>>
        \/ /\ IsEndpoint(b) \/ /\ ~HasInstance(n)
                               /\ \A a \in Block(b).aliases : ~HasInstance(a)
           /\ reg' = b
           /\ instances' = Bind(instances, n, b)
           /\ aliases' = IF IsEndpoint(b) THEN aliases
                         ELSE [x \in DOMAIN aliases \cup Block(b).aliases |->
                                 IF x \in Block(b).aliases THEN n
                                                           ELSE aliases[x]]
           /\ UNCHANGED main
  /\ UNCHANGED <<cfg, calls, up, closed, sigs, hookrun, files, mux, env>>

(* Run: the log cannot be opened, the configuration file cannot be opened  *)
(* or does not parse, or moduleMain begins.                                *)
Run ==
  /\ main = "start"
  /\ \/ End("read") /\ UNCHANGED env
     \/ End("failed") /\ Fault
  /\ UNCHANGED <<boot, closed, sigs, hookrun, files, mux>>

(* moduleMain between ReadGlobals and initModules.  The directories may    *)
(* not be writable, and a configuration may have no endpoint.              *)
InitDirs ==
  /\ main = "read"
  /\ \/ /\ ProcessOk(GlobalMatchers, NoGlobals, cfg.globals, TRUE)
        /\ End("register") /\ UNCHANGED env
     \/ /\ ~ProcessOk(GlobalMatchers, NoGlobals, cfg.globals, TRUE)
        /\ End("failed") /\ UNCHANGED env
     \/ End("failed") /\ Fault
  /\ UNCHANGED <<boot, closed, sigs, hookrun, files, mux>>

Registered ==
  /\ main = "register" /\ reg = Len(cfg.blocks)
  /\ End(IF \E b \in Blocks : IsEndpoint(b) THEN "init" ELSE "failed")
  /\ reg' = 0
  /\ UNCHANGED <<names, calls, up, closed, sigs, hookrun, files, mux, env>>

-----------------------------------------------------------------------------
(* Init: a stack of calls, each with the steps it has still to take.       *)

Step(o, a) == [op |-> o, arg |-> a]

Steps(o, args) == [i \in 1..Len(args) |-> Step(o, args[i])]

(* Variant: an endpoint that listens before it has what it refers to. *)
MailInitEager(b) ==
  <<Step("process", "")>> \o Steps("listen", Block(b).addrs)
    \o <<Step("localonly", "")>> \o Steps("ref", Block(b).refs)

(* smtp.Init: the directives and what they refer to, the local-only        *)
(* setting, the listeners.                                                 *)
MailInit(b) ==
  <<Step("process", "")>> \o Steps("ref", Block(b).refs)
    \o <<Step("localonly", "")>> \o Steps("listen", Block(b).addrs)

(* imap.Init keeps the same order; an update pipe that cannot be opened is *)
(* only logged.                                                            *)
ImapInit(b) ==
  <<Step("process", "")>> \o Steps("ref", Block(b).refs)
    \o <<Step("localonly", "")>> \o Steps("listen", Block(b).addrs)

(* turn.Init refers to no other module. *)
TurnInit(b) ==
  <<Step("process", ""), Step("localonly", "")>>
    \o Steps("listen", Block(b).addrs)

(* chatmail.Init up to its listeners: the auth. database, the storage and  *)
(* the endpoints behind the shared port are references like the others.    *)
ChatmailInit(b) ==
  <<Step("process", "")>> \o Steps("ref", Block(b).refs)
    \o <<Step("localonly", "")>> \o Steps("listen", Block(b).addrs)

(* openmetrics.Init asks no setting. *)
MetricsInit(b) == <<Step("process", "")>> \o Steps("listen", Block(b).addrs)

(* Other modules open what they need once their references are there. *)
ModuleInit(b) ==
  <<Step("process", "")>> \o Steps("ref", Block(b).refs)
    \o <<Step("open", "")>>

(* target.remote shares the database of local_mailboxes if it can get it,  *)
(* unless a storage directive names another one.                           *)
RemoteInit(b) ==
  <<Step("process", "")>> \o Steps("ref", Block(b).refs)
    \o <<Step("try", "local_mailboxes")>>

InitSteps(b) ==
  CASE Block(b).mod = "chatmail"    -> ChatmailInit(b)
    [] Block(b).mod = "openmetrics" -> MetricsInit(b)
    [] Block(b).mod = "imap"        -> ImapInit(b)
    [] Block(b).mod = "target.remote" -> RemoteInit(b)
    [] Block(b).mod = "turn"        -> TurnInit(b)
    [] IsEndpoint(b)                -> MailInit(b)
    [] OTHER                        -> ModuleInit(b)

Frame(b, soft) == [b |-> b, todo |-> InitSteps(b), soft |-> soft]

Top == stack[Len(stack)]
Pop == SubSeq(stack, 1, Len(stack) - 1)
Doing(op) == /\ main = "init" /\ stack # <<>>
             /\ Top.todo # <<>> /\ Head(Top.todo).op = op
Arg == Head(Top.todo).arg
Advance == Append(Pop, [Top EXCEPT !.todo = Tail(@)])

(* An error unwinds the calls.  It ends the process, unless one of them    *)
(* was made by ensureSettingsProvider or by the Init of target.remote,     *)
(* which drop the error.                                                   *)
Fail ==
  LET soft == {i \in 1..Len(stack) : stack[i].soft}
      k    == CHOOSE i \in soft : \A j \in soft : j <= i
  IN IF soft = {}
     THEN End("failed") /\ UNCHANGED <<stack, failed>>
     ELSE /\ stack' = SubSeq(stack, 1, k - 1)
          /\ failed' = failed \cup {stack[i].b : i \in k..Len(stack)}
          /\ UNCHANGED main

(* initModules: endpoints in order, each name once; then every other block *)
(* must have been referred to.                                             *)
initModules ==
  /\ main = "init" /\ stack = <<>>
  /\ \/ /\ reg < Len(cfg.blocks)
        /\ LET b == reg + 1 IN
           \/ /\ IsEndpoint(b) /\ InstanceName(b) \notin initialized
              /\ initialized' = initialized \cup {InstanceName(b)}
              /\ stack' = <<Frame(b, FALSE)>>
           \/ /\ ~IsEndpoint(b) \/ InstanceName(b) \in initialized
              /\ UNCHANGED <<initialized, stack>>
        /\ reg' = reg + 1
        /\ UNCHANGED main
     \/ /\ reg = Len(cfg.blocks)
        /\ End(IF \A b \in Blocks : InstanceName(b) \in initialized
               THEN "serving" ELSE "failed")
        /\ UNCHANGED <<reg, initialized, stack>>
  /\ UNCHANGED <<names, done, failed, hooks, reloads, up, closed, sigs,
                 hookrun, files, mux, env>>

(* cfg.Process at the start of an Init, and what it asks of the result.    *)
(* The directives that smtp and msgpipeline leave over are the pipeline.   *)
InitProcess ==
  /\ Doing("process")
  /\ LET b  == Block(Top.b)
         ok == /\ ProcessOk(Matchers(b.mod), ReadGlobals, b.dirs, FALSE)
               /\ HasPipeline(b) => PipelineOk(b.pipe)
               /\ Asks(b)
     IN \/ /\ ok /\ stack' = Advance /\ UNCHANGED <<main, failed>>
        \/ ~ok /\ Fail
  /\ UNCHANGED <<names, reg, initialized, done, hooks, reloads, up, closed,
                 sigs, hookrun, files, mux, env>>

(* GetInstance: a name that is initialized, or is being initialized, is    *)
(* returned as it is: that breaks circular references.                     *)
GetInstance ==
  /\ Doing("ref")
  /\ LET n == Resolve(Arg) IN
     \/ /\ n \notin DOMAIN instances
        /\ Fail /\ UNCHANGED initialized
     \/ /\ n \in initialized
        /\ stack' = Advance /\ UNCHANGED <<main, failed, initialized>>
     \/ /\ n \in DOMAIN instances \ initialized
        /\ initialized' = initialized \cup {n}
        /\ stack' = Append(Advance, Frame(instances[n], FALSE))
        /\ UNCHANGED <<main, failed>>
  /\ UNCHANGED <<names, reg, done, hooks, reloads, up, closed, sigs, hookrun,
                 files, mux, env>>

(* GetInstance in the Init of target.remote: an error is logged. *)
TryInstance ==
  /\ Doing("try")
  /\ LET n == Resolve(Arg) IN
     IF n \in DOMAIN instances \ initialized
     THEN /\ initialized' = initialized \cup {n}
          /\ stack' = Append(Advance, Frame(instances[n], TRUE))
     ELSE stack' = Advance /\ UNCHANGED initialized
  /\ UNCHANGED <<names, main, reg, done, failed, hooks, reloads, up, closed,
                 sigs, hookrun, files, mux, env>>

(* The module constructed last is the one asked for settings. *)
SettingsProviders ==
  {b \in Blocks : /\ Block(b).mod = "auth.pass_table"
                  /\ \A c \in Blocks : Block(c).mod = "auth.pass_table"
                                          => c <= b}

(* IsLocalOnly starts the settings provider when it is not yet there.  The *)
(* error of that is dropped: the port is then public.                      *)
ensureSettingsProvider ==
  /\ Doing("localonly")
  /\ \/ /\ \E p \in SettingsProviders : InstanceName(p) \notin initialized
        /\ \E p \in SettingsProviders :
             /\ initialized' = initialized \cup {InstanceName(p)}
             /\ stack' = Append(Advance, Frame(p, TRUE))
     \/ /\ \A p \in SettingsProviders : InstanceName(p) \in initialized
        /\ stack' = Advance
        /\ UNCHANGED initialized
  /\ UNCHANGED <<names, main, reg, done, failed, hooks, reloads, up, closed,
                 sigs, hookrun, files, mux, env>>

(* The blocks behind the shared TLS port of a chatmail endpoint. *)
Behind(b) ==
  IF Block(b).mod # "chatmail" THEN {}
  ELSE {instances[Resolve(n)] : n \in {m \in {Block(b).refs[i] :
                                              i \in 1..Len(Block(b).refs)} :
                                       m \in {"smtp", "imap"}}}

(* setupListeners: connections are accepted as soon as the socket exists. *)
setupListeners ==
  /\ Doing("listen")
  /\ LET b == Top.b IN
     \/ /\ Arg \in env.bound
        /\ Fail /\ UNCHANGED <<up, mux, env>>
     \/ /\ Arg \notin env.bound
        /\ env' = [env EXCEPT !.bound = @ \cup {Arg}]
        /\ up' = up \cup {b}
        /\ stack' = Advance
        /\ mux' = IF Behind(b) = {} THEN mux
                  ELSE [mux EXCEPT !.state = "open", !.behind = Behind(b)]
        /\ UNCHANGED <<main, failed>>
     \/ Fault /\ Fail /\ UNCHANGED <<up, mux>>
  /\ UNCHANGED <<names, reg, initialized, done, hooks, reloads, closed, sigs,
                 hookrun, files>>

(* What the Init of a module opens.  table.file reads its file, which may  *)
(* be missing, starts the reloader and adds a reload hook; tls.loader.file *)
(* needs certificate and key to match; a database may not answer.          *)
ModuleOpens ==
  /\ Doing("open")
  /\ LET b == Top.b IN
     \/ /\ Block(b).mod = "table.file"
        /\ tab' = [tab EXCEPT !.loop = "select",
                              !.m = [v |-> tab.file.v, whole |-> tab.file.whole]]
        /\ reloads' = Append(reloads, b)
        /\ stack' = Advance
        /\ UNCHANGED <<main, failed, crt, env>>
     \/ /\ Block(b).mod = "tls.loader.file"
        /\ \/ /\ crt.cert = crt.key
              /\ crt' = [crt EXCEPT !.loop = "select",
                                    !.served = [cert |-> crt.cert,
                                                key  |-> crt.key]]
              /\ reloads' = Append(reloads, b)
              /\ stack' = Advance
              /\ UNCHANGED <<main, failed>>
           \/ crt.cert # crt.key /\ Fail /\ UNCHANGED <<crt, reloads>>
        /\ UNCHANGED <<tab, env>>
     \/ /\ Block(b).mod \notin {"table.file", "tls.loader.file"}
        /\ stack' = Advance
        /\ UNCHANGED <<main, failed, reloads, files, env>>
     \/ Fault /\ Fail /\ UNCHANGED <<reloads, files>>
  /\ UNCHANGED <<names, reg, initialized, done, hooks, up, closed, sigs,
                 hookrun, mux>>

(* An Init returns: a module with a Close method is closed at shutdown. *)
InitReturns ==
  /\ main = "init" /\ stack # <<>> /\ Top.todo = <<>>
  /\ done' = done \cup {Top.b}
  /\ hooks' = IF IsCloser(Top.b) THEN Append(hooks, Top.b) ELSE hooks
  /\ stack' = Pop
  /\ UNCHANGED <<names, main, reg, initialized, failed, reloads, up, closed,
                 sigs, hookrun, files, mux, env>>

-----------------------------------------------------------------------------
(* Signals.  Until handleSignals is called a stop signal ends the process  *)
(* at once and the others do nothing (the defaults of the Go runtime).     *)

Ended == main \in {"failed", "killed", "exited", "forced", "crashed"}

(* The goroutine in handleSignals: the main one, and the one it starts     *)
(* when it gets the first stop signal.                                     *)
Handlers == {"main", "forcer"}
Handler == IF main = "serving" THEN "main" ELSE "forcer"

Kill(s) ==
  /\ ~Ended /\ env.signals > 0
  /\ env' = [env EXCEPT !.signals = @ - 1]
  /\ \/ /\ main \in {"serving", "stopping"}
        /\ sigs' = IF Len(sigs) < 5 THEN Append(sigs, s) ELSE sigs
        /\ UNCHANGED main
     \/ /\ main \notin {"serving", "stopping"} /\ s = "TERM"
        /\ End("killed") /\ UNCHANGED sigs
  /\ UNCHANGED <<boot, closed, hookrun, files, mux>>

Backwards(s) == [i \in 1..Len(s) |-> s[Len(s) + 1 - i]]

(* USR1 reopens the logs, USR2 runs the reload hooks, the last added       *)
(* first.  The first stop signal leaves the loop; the second one, received *)
(* from a channel of its own, exits.                                       *)
handleSignals ==
  /\ main \in {"serving", "stopping"}
  /\ hookrun[Handler] = <<>> /\ crt.read[Handler].at = "idle"
  /\ sigs # <<>>
  /\ \/ /\ Head(sigs) = "USR1"
        /\ sigs' = Tail(sigs) /\ UNCHANGED <<main, hookrun>>
     \/ /\ Head(sigs) = "USR2"
        /\ sigs' = Tail(sigs)
        /\ hookrun' = [hookrun EXCEPT ![Handler] = Backwards(reloads)]
        /\ UNCHANGED main
     \/ /\ Head(sigs) = "TERM" /\ main = "serving"
        /\ sigs' = <<>> /\ End("stopping") /\ UNCHANGED hookrun
     \/ /\ Head(sigs) = "TERM" /\ main = "stopping"
        /\ sigs' = Tail(sigs) /\ End("forced") /\ UNCHANGED hookrun
  /\ UNCHANGED <<boot, closed, files, mux, env>>

Hook(g, mod) ==
  /\ ~Ended /\ hookrun[g] # <<>> /\ crt.read[g].at = "idle"
  /\ Block(Head(hookrun[g])).mod = mod
  /\ hookrun' = [hookrun EXCEPT ![g] = Tail(@)]

(* The hook of a table hands the request to the reloader, and waits for    *)
(* the reloader to take it.                                                *)
ForceReload(g) ==
  /\ Hook(g, "table.file")
  /\ tab.loop = "select"
  /\ tab' = [tab EXCEPT !.loop = "stat"]
  /\ UNCHANGED <<boot, main, closed, sigs, crt, mux, env>>

-----------------------------------------------------------------------------
(* table.file: the reloader.                                               *)

Running == ~Ended /\ main \notin {"start", "read", "register"}

(* The files are edited, and the tickers tick, once the process serves. *)
Serving == main \in {"serving", "stopping"}

ReloadTick ==
  /\ Serving /\ tab.loop = "select"
  /\ tab' = [tab EXCEPT !.loop = "stat"]
  /\ UNCHANGED <<boot, main, closed, sigs, hookrun, crt, mux, env>>

(* A file written in the last half interval is left for the next tick. *)
Fresh == env.clock = tab.file.mtime

(* Variant: only a newer file is read. *)
OlderOrSame == tab.file.mtime <= tab.stamp

(* A file older than the one in memory is not read, one of the same time   *)
(* is.                                                                     *)
Older == tab.file.mtime < tab.stamp

(* reload, to its first os.Stat.  An error other than "does not exist"     *)
(* leaves info nil: using it panics, and the goroutine ends.               *)
ReloadStat ==
  /\ Serving /\ tab.loop = "stat"
  /\ \/ /\ Fault
        /\ tab' = [tab EXCEPT !.loop = "dead"]
     \/ /\ ~tab.file.there
        /\ tab' = [tab EXCEPT !.loop = "select", !.m = [v |-> 0, whole |-> TRUE]]
        /\ UNCHANGED env
     \/ /\ tab.file.there
        /\ tab' = IF Older \/ Fresh
                  THEN [tab EXCEPT !.loop = "select"]
                  ELSE [tab EXCEPT !.loop = "read", !.info = tab.file.mtime]
        /\ UNCHANGED env
  /\ UNCHANGED <<boot, main, closed, sigs, hookrun, crt, mux>>

(* reload returns, and what it had read is gone. *)
Reloaded == [tab EXCEPT !.loop = "select", !.info = 0,
                        !.newm = [v |-> 0, whole |-> TRUE]]

(* readFile: it fails when the file is gone, cannot be read, or has a line *)
(* without a key; the table then stays as it is.                           *)
ReloadRead ==
  /\ Serving /\ tab.loop = "read"
  /\ \/ /\ tab.file.there
        /\ tab' = [tab EXCEPT !.loop = "check",
                              !.newm = [v     |-> tab.file.v,
                                        whole |-> tab.file.whole]]
        /\ UNCHANGED env
     \/ /\ ~tab.file.there \/ ~tab.file.whole
        /\ tab' = Reloaded
        /\ UNCHANGED env
     \/ /\ Fault
        /\ tab' = Reloaded
  /\ UNCHANGED <<boot, main, closed, sigs, hookrun, crt, mux>>

(* Variant: what was read is used in any case. *)
UnchangedUnasked == TRUE

(* The second os.Stat: what was read is used if the file did not change. *)
Unchanged == tab.file.there /\ tab.file.mtime = tab.info

ReloadCheck ==
  /\ Serving /\ tab.loop = "check"
  /\ tab' = IF Unchanged
            THEN [Reloaded EXCEPT !.m = tab.newm, !.stamp = tab.info]
            ELSE Reloaded
  /\ UNCHANGED <<boot, main, closed, sigs, hookrun, crt, mux, env>>

-----------------------------------------------------------------------------
(* tls.loader.file: loadCerts, run by the ticker and by the reload hooks.  *)

Readers == {"tick"} \cup Handlers

Idle == [at |-> "idle", cert |-> 0, key |-> 0]

CertTick ==
  /\ Serving /\ crt.loop = "select" /\ crt.read["tick"].at = "idle"
  /\ crt' = [crt EXCEPT !.read["tick"] =
               [at |-> "cert", cert |-> crt.cert, key |-> 0]]
  /\ UNCHANGED <<boot, main, closed, sigs, hookrun, tab, mux, env>>

CertHook(g) ==
  /\ Hook(g, "tls.loader.file")
  /\ crt' = [crt EXCEPT !.read[g] =
               [at |-> "cert", cert |-> crt.cert, key |-> 0]]
  /\ UNCHANGED <<boot, main, closed, sigs, tab, mux, env>>

(* Variant: the two files are loaded each for itself. *)
KeyMatchesUnasked(r) == TRUE

(* LoadX509KeyPair refuses a key that is not the certificate's. *)
KeyMatches(r) == crt.key = r.cert

ReadKey(r) ==
  /\ Serving /\ crt.read[r].at = "cert"
  /\ crt' = [crt EXCEPT !.read[r] =
               IF KeyMatches(crt.read[r])
               THEN [at |-> "pair", cert |-> crt.read[r].cert, key |-> crt.key]
               ELSE Idle]
  /\ UNCHANGED <<boot, main, closed, sigs, hookrun, tab, mux, env>>

StorePair(r) ==
  /\ Serving /\ crt.read[r].at = "pair"
  /\ crt' = [crt EXCEPT !.read[r] = Idle,
                        !.served = [cert |-> crt.read[r].cert,
                                    key  |-> crt.read[r].key]]
  /\ UNCHANGED <<boot, main, closed, sigs, hookrun, tab, mux, env>>

-----------------------------------------------------------------------------
(* The administrator and time.  A write of a file takes less than the half *)
(* interval, so that no time passes in the middle of one.                  *)

Editing == /\ Serving /\ env.edits > 0 /\ env.clock < MaxClock
           /\ env' = [env EXCEPT !.edits = @ - 1]

EditBegins ==
  /\ Editing /\ tab.loop # "none" /\ tab.file.whole
  /\ tab' = [tab EXCEPT !.file = [there |-> TRUE, v |-> @.v + 1,
                                  whole |-> FALSE, mtime |-> env.clock]]
  /\ UNCHANGED <<boot, main, closed, sigs, hookrun, crt, mux>>

EditEnds ==
  /\ Serving /\ ~tab.file.whole
  /\ tab' = [tab EXCEPT !.file.whole = TRUE, !.file.mtime = env.clock]
  /\ UNCHANGED <<boot, main, closed, sigs, hookrun, crt, mux, env>>

(* The file is removed, or another one is moved into its place, perhaps an *)
(* older one; its time is not the very one the reloader has in hand.       *)
Replace ==
  /\ Editing /\ tab.loop # "none" /\ tab.file.whole
  /\ \/ tab' = [tab EXCEPT !.file.there = FALSE]
     \/ \E t \in (1..env.clock) \
               (IF tab.loop \in {"read", "check"} THEN {tab.info} ELSE {}) :
          tab' = [tab EXCEPT !.file = [there |-> TRUE, v |-> @.v + 1,
                                       whole |-> TRUE, mtime |-> t]]
  /\ UNCHANGED <<boot, main, closed, sigs, hookrun, crt, mux>>

(* A certificate is renewed: the two files are written one by one. *)
Renew ==
  /\ Editing /\ crt.loop # "none"
  /\ \/ crt.cert <= crt.key /\ crt' = [crt EXCEPT !.cert = @ + 1]
     \/ crt.key <= crt.cert /\ crt' = [crt EXCEPT !.key = @ + 1]
  /\ UNCHANGED <<boot, main, closed, sigs, hookrun, tab, mux>>

TimePasses ==
  /\ Serving /\ env.clock < MaxClock /\ tab.file.whole
  /\ env' = [env EXCEPT !.clock = @ + 1]
  /\ UNCHANGED <<boot, main, closed, sigs, hookrun, files, mux>>

-----------------------------------------------------------------------------
(* serveALPNMultiplexed: one listener for HTTPS and for the mail protocols *)
(* that a client names in its TLS hello.                                   *)

(* The goroutine that serves an endpoint which was never initialized       *)
(* panics: there is no server in it.                                       *)
MuxServes ==
  /\ ~Ended /\ mux.state = "open"
  /\ ~(mux.behind \subseteq done)
  /\ End("crashed")
  /\ UNCHANGED <<boot, closed, sigs, hookrun, files, mux, env>>

(* An error of Accept, be it a passing one, ends the loop and closes the   *)
(* three channels.                                                         *)
MuxAccept ==
  /\ Running /\ mux.state = "open"
  /\ \/ /\ Len(mux.conns) < MaxConns
        /\ \E x \in BOOLEAN :
             mux' = [mux EXCEPT !.conns =
                       Append(@, [at |-> "sniff", alpn |-> "", ext |-> x])]
        /\ UNCHANGED env
     \/ /\ Fault
        /\ mux' = [mux EXCEPT !.state = "closed"]
  /\ UNCHANGED <<boot, main, closed, sigs, hookrun, files>>

(* Variant: every error of Accept is taken for a passing one. *)
MuxAcceptRetries == FALSE /\ UNCHANGED vars

MuxAcceptClosed ==
  /\ Running /\ mux.state = "unbound"
  /\ mux' = [mux EXCEPT !.state = "closed"]
  /\ UNCHANGED <<boot, main, closed, sigs, hookrun, files, env>>

ModsBehind == {Block(b).mod : b \in mux.behind}

(* sniffALPN and parseALPN: smtp or imap if the client offers one of them. *)
(* A hello that cannot be read is taken for HTTPS.                         *)
sniffALPN(i) ==
  /\ Running /\ mux.conns[i].at = "sniff"
  /\ \E p \in {"smtp", "imap", "http"} :
       mux' = [mux EXCEPT !.conns[i].at = "route",
                          !.conns[i].alpn = IF p \in ModsBehind THEN p
                                                                ELSE "http"]
  /\ UNCHANGED <<boot, main, closed, sigs, hookrun, files, env>>

(* handleALPNConn: a protocol that is local-only refuses the outside (a    *)
(* database error counts as public), then the connection goes into the     *)
(* channel of its protocol.  A send into a closed channel panics.          *)
handleALPNConn(i) ==
  /\ Running /\ mux.conns[i].at = "route"
  /\ \/ /\ mux.conns[i].ext /\ mux.conns[i].alpn \in env.local
        /\ mux' = [mux EXCEPT !.conns[i].at = "refused"]
        /\ UNCHANGED <<main, env>>
     \/ /\ \/ /\ ~mux.conns[i].ext \/ mux.conns[i].alpn \notin env.local
              /\ UNCHANGED env
           \/ Fault
        /\ \/ /\ mux.state = "closed"
              /\ End("crashed") /\ UNCHANGED mux
           \/ /\ mux.state # "closed"
              /\ mux' = [mux EXCEPT !.conns[i].at = "queued"]
              /\ UNCHANGED main
  /\ UNCHANGED <<boot, closed, sigs, hookrun, files>>

(* The server of the protocol takes a connection out of its channel, as    *)
(* long as it runs.                                                        *)
MuxReceive(i) ==
  /\ Running /\ mux.conns[i].at = "queued"
  /\ \/ mux.conns[i].alpn = "http" /\ mux.state = "open"
     \/ \E b \in mux.behind : /\ Block(b).mod = mux.conns[i].alpn
                              /\ b \in up
  /\ mux' = [mux EXCEPT !.conns[i].at = "served"]
  /\ UNCHANGED <<boot, main, closed, sigs, hookrun, files, env>>

-----------------------------------------------------------------------------
(* Shutdown: RunHooks(EventShutdown), the hook added last first.           *)

(* Variant: in the order they were added. *)
RunHooksForwards == Head(hooks)

RunHooks == hooks[Len(hooks)]

HooksLeft(b) == SelectSeq(hooks, LAMBDA x : x # b)

CloseReturns(b) ==
  /\ closed' = closed \cup {b}
  /\ hooks' = HooksLeft(b)
  /\ up' = up \ {b}

(* Close of a module, or the wait in it.  A table asks its reloader to     *)
(* stop and waits for the answer; the certificate loader waits for its     *)
(* ticker; chatmail closes its server, and with it the shared listener,    *)
(* and waits for the loop that accepts from it.                            *)
Close ==
  /\ main = "stopping" /\ hooks # <<>>
  /\ LET b == RunHooks
         m == Block(b).mod
     IN \/ /\ m = "table.file" /\ tab.loop = "select"
           /\ tab' = [tab EXCEPT !.loop = "ack"]
           /\ UNCHANGED <<closed, hooks, up, crt, mux>>
        \/ /\ m = "table.file" /\ tab.loop = "ack"
           /\ tab' = [tab EXCEPT !.loop = "gone"]
           /\ CloseReturns(b) /\ UNCHANGED <<crt, mux>>
        \/ /\ m = "tls.loader.file"
           /\ crt.loop = "select" /\ crt.read["tick"].at = "idle"
           /\ crt' = [crt EXCEPT !.loop = "gone"]
           /\ CloseReturns(b) /\ UNCHANGED <<tab, mux>>
        \/ /\ Behind(b) # {} /\ mux.state = "open"
           /\ mux' = [mux EXCEPT !.state = "unbound"]
           /\ UNCHANGED <<closed, hooks, up, files>>
        \/ /\ m \notin {"table.file", "tls.loader.file"}
           /\ Behind(b) = {} \/ mux.state = "closed"
           /\ CloseReturns(b) /\ UNCHANGED <<files, mux>>
  /\ UNCHANGED <<names, main, reg, initialized, stack, done, failed, reloads,
                 sigs, hookrun, env>>

Exit ==
  /\ main = "stopping" /\ hooks = <<>>
  /\ End("exited")
  /\ UNCHANGED <<boot, closed, sigs, hookrun, files, mux, env>>

-----------------------------------------------------------------------------
Init ==
  /\ cfg \in Configs
  /\ main = "start" /\ reg = 0
  /\ instances = [n \in {} |-> 0]
  /\ aliases = [n \in {} |-> ""]
  /\ initialized = {} /\ stack = <<>>
  /\ done = {} /\ failed = {} /\ hooks = <<>> /\ reloads = <<>>
  /\ up = {} /\ closed = {} /\ sigs = <<>>
  /\ hookrun = [g \in Handlers |-> <<>>]
  /\ tab = [loop |-> "none",
            file |-> [there |-> TRUE, v |-> 1, whole |-> TRUE, mtime |-> 1],
            m |-> [v |-> 0, whole |-> TRUE], stamp |-> 0, info |-> 0,
            newm |-> [v |-> 0, whole |-> TRUE]]
  /\ \E k \in {1} \cup {2 : b \in {x \in Blocks :
                                    Block(x).mod = "tls.loader.file"}} :
       crt = [loop |-> "none", cert |-> 1, key |-> k,
              served |-> [cert |-> 0, key |-> 0],
              read |-> [r \in Readers |-> Idle]]
  /\ mux = [state |-> "none", behind |-> {}, conns |-> <<>>]
  /\ \E l \in {{}, {"smtp"}} :
       env = [faults |-> MaxFaults, signals |-> MaxSignals,
              edits |-> MaxEdits, clock |-> 1, bound |-> {}, local |-> l]

Start == Run \/ InitDirs \/ RegisterModules \/ Registered \/ initModules
         \/ InitProcess \/ GetInstance \/ TryInstance
         \/ ensureSettingsProvider
         \/ setupListeners \/ ModuleOpens \/ InitReturns

Reloader == ReloadStat \/ ReloadRead \/ ReloadCheck

Loads(r) == ReadKey(r) \/ StorePair(r)

Hooks(g) == ForceReload(g) \/ CertHook(g)

Stop == Close \/ Exit \/ MuxAcceptClosed

Routes == \E i \in 1..Len(mux.conns) :
            sniffALPN(i) \/ handleALPNConn(i) \/ MuxReceive(i)

Admin == EditBegins \/ EditEnds \/ Replace \/ Renew

Next == \/ Start \/ Reloader \/ Stop \/ Routes \/ Admin
        \/ \E r \in Readers : Loads(r)
        \/ \E g \in Handlers : Hooks(g)
        \/ handleSignals \/ ReloadTick \/ CertTick \/ TimePasses
        \/ MuxServes \/ MuxAccept
        \/ \E s \in {"TERM", "USR1", "USR2"} : Kill(s)

(* The goroutines run, the tickers tick, time passes and a write that was  *)
(* begun ends; nobody has to send a signal, edit a file or connect.  Close *)
(* and the reload hook of a table wait in a channel for a select that also *)
(* listens to a ticker: select chooses at random among what is ready, so   *)
(* that they are received if the loop comes back for ever.                 *)
Fairness ==
  /\ WF_vars(Start) /\ WF_vars(handleSignals) /\ WF_vars(Reloader)
  /\ \A g \in Handlers : SF_vars(Hooks(g))
  /\ \A r \in Readers : WF_vars(Loads(r))
  /\ SF_vars(Stop)
  /\ WF_vars(ReloadTick) /\ WF_vars(CertTick)
  /\ WF_vars(TimePasses) /\ WF_vars(EditEnds)

Spec == Init /\ [][Next]_vars /\ Fairness

-----------------------------------------------------------------------------
(* Properties.                                                             *)

(* Refers[n]: pairs of blocks joined by at most n references. *)
Refers ==
  LET one == {<<b, c>> \in Blocks \X Blocks :
                \E i \in 1..Len(Block(b).refs) :
                  /\ Resolve(Block(b).refs[i]) \in DOMAIN instances
                  /\ instances[Resolve(Block(b).refs[i])] = c}
      r[n \in Nat] ==
        IF n <= 1 THEN one
        ELSE r[n - 1] \cup {<<b, c>> \in Blocks \X Blocks :
                              \E d \in Blocks : <<b, d>> \in r[n - 1]
                                                /\ <<d, c>> \in one}
  IN r[Len(cfg.blocks)]

(* An endpoint that accepts connections, from its first listener to the    *)
(* end of its Close, finds everything it refers to, directly or not,       *)
(* started and not yet closed: Init listens last and RunHooks runs         *)
(* backwards (instances.go, hooks.go).  Two cases are left out: blocks     *)
(* that refer to each other, and modules whose failed start the settings   *)
(* lookup swallowed.                                                       *)
ServesOnLive ==
  ~Ended => \A b \in up : \A c \in Blocks :
    /\ <<b, c>> \in Refers /\ <<c, b>> \notin Refers
    /\ c \notin failed /\ InstanceName(c) # InstanceName(b)
    /\ ~\E d \in Blocks : d # c /\ InstanceName(d) = InstanceName(c)
    => c \in done \ closed

(* What the reloads put into service is never half of a write: the table   *)
(* is a content the file had outside of a write, and the certificate has   *)
(* its own key, though the files are read while they are written           *)
(* (table/file.go reload, tls/file.go loadCerts).                          *)
HotReloadWhole ==
  /\ tab.loop # "none" => tab.m.whole
  /\ crt.served.cert = crt.served.key

(* A directive that a started module requires was written by somebody: in  *)
(* its block, or as a global directive, never the empty default of the     *)
(* global one (map.go ProcessWith).                                        *)
RequiredWritten ==
  \A b \in done \cup up : \A m \in Matchers(Block(b).mod) :
    m.required => \/ Given(Block(b).dirs, m.name) # {}
                  \/ Given(cfg.globals, m.name) # {}

(* A stop signal that handleSignals may receive ends the process, even     *)
(* when it comes in the middle of a reload; unless the reloader of a table *)
(* has died, for which Close and the reload hook wait for ever.            *)
StopCompletes ==
  (main = "stopping" \/ \E i \in 1..Len(sigs) : sigs[i] = "TERM")
    ~> (Ended \/ tab.loop = "dead")

Settled ==
  /\ main = "serving" /\ tab.loop # "dead" /\ mux.state # "closed"
  /\ tab.loop # "none" => tab.file.there /\ tab.file.mtime >= tab.stamp
  /\ crt.cert = crt.key

Applied ==
  /\ tab.loop # "none" => tab.m.v = tab.file.v
  /\ crt.loop # "none" => crt.served.cert = crt.cert

(* A file that is no longer edited is in service in the end, whatever      *)
(* reloads raced with the edits: the ticker and the hook may store what    *)
(* they read in the other order, and the next tick repairs it.  A table    *)
(* replaced by one with an older time is left out.                         *)
EditApplied == <>[]Settled => <>[]Applied
=============================================================================
