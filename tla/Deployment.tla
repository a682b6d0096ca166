----------------------------- MODULE Deployment -----------------------------
(***************************************************************************)
(* The life of an installation: `install`, `upgrade` and `uninstall` write *)
(* and remove the files of the service step by step, and may fail or be    *)
(* cut short between any two of them; systemd starts the server, which     *)
(* reads the configuration, loads or generates the DKIM key, and is        *)
(* restarted by the admin API to take over the settings of the database.   *)
(*                                                                         *)
(* A file is a number: 0 is no file, Torn a file created or truncated but  *)
(* not written yet, and any other number the generation of its contents: a *)
(* certificate and its key, or a DKIM key and its DNS record, belong       *)
(* together when their numbers agree.                                      *)
(***************************************************************************)
EXTENDS Integers, Sequences, FiniteSets

CONSTANTS
    Ports,          \* values the port override may take (1 is the installer's)
    InstallOpts,    \* option records of the install commands
    UninstallOpts,  \* option records of the uninstall commands
    UpgradeOpts,    \* option records of the upgrade commands
    Layouts,        \* subset of BOOLEAN: TRUE is a custom state directory
    MaxCommands,    \* bound on the commands run
    MaxGen,         \* bound on the generations of keys
    MaxSettings,    \* bound on the changes of settings
    MaxReloads,     \* bound on the reloads asked for
    MaxFaults       \* bound on failed steps, kills and power losses

ASSUME PortsAssumption == Ports \subseteq (Nat \ {0, 1})
ASSUME OptsAssumption ==
    /\ InstallOpts \subseteq [tls : STRING, domain : {"dns", "ip"}, dry : BOOLEAN, skip : BOOLEAN,
                              self : BOOLEAN, iroh : BOOLEAN]
    /\ UninstallOpts \subseteq [keep : SUBSET {"config", "data", "binary", "user"}, dry : BOOLEAN,
                                force : BOOLEAN, yes : BOOLEAN]
    /\ UpgradeOpts \subseteq [signed : BOOLEAN]
    /\ Layouts \subseteq BOOLEAN

Torn == -1

VARIABLES
    files,     \* cert, tkey, dkim, dns, unit, bin, iroh -> generation
    conf,      \* the configuration file
    pending,   \* <state>/<binary>.conf.pending, written by the admin reload
    host,      \* the user account, the mail data, the layout of directories
    db,        \* the settings table
    svc,       \* what systemd knows of the unit
    srv,       \* the server process
    cmd,       \* the command being run
    ghost,     \* what the properties remember of the past
    count      \* the counters the bounds are about

vars == <<files, conf, pending, host, db, svc, srv, cmd, ghost, count>>

File == {"cert", "tkey", "dkim", "dns", "unit", "bin", "iroh"}
NoConf == [st |-> 0, port |-> 0, mode |-> "none"]
NoCmd == [name |-> "none", todo |-> <<>>, dry |-> FALSE, mode |-> "none",
          skip |-> FALSE, self |-> FALSE, signed |-> TRUE, num |-> 0,
          known |-> FALSE, running |-> FALSE, enabled |-> FALSE,
          keep |-> {}, sure |-> FALSE]
Off == [st |-> "off", port |-> 0, mode |-> "none", dkim |-> 0, todo |-> <<>>]

Init ==
    /\ files = [f \in File |-> 0]
    /\ conf = NoConf
    /\ pending = NoConf
    /\ \E c \in Layouts : host = [user |-> FALSE, data |-> FALSE, custom |-> c]
    /\ db = [port |-> 0, flag |-> 0]
    /\ svc = [active |-> FALSE, enabled |-> FALSE]
    /\ srv = Off
    /\ cmd = NoCmd
    /\ ghost = [last |-> "none", asked |-> 0, cut |-> FALSE, raced |-> FALSE]
    /\ count = [cmds |-> 0, gen |-> 0, sets |-> 0, reloads |-> 0, faults |-> 0]

-----------------------------------------------------------------------------
(* Commands.  A command is a list of steps; a step that writes a file adds *)
(* the creation of the file and the writing of it to the front of the list.*)

Step(s) == <<"step", s>>
Write(f) == <<<<"create", f>>, <<"write", f>>>>
Steps(names) == [i \in 1..Len(names) |-> Step(names[i])]

(* What installCommand decides before the first step.                      *)

isValidDNSDomain(opts) == opts.domain = "dns"

(* An explicit mode wins; a pair of files on disk is taken for the user's  *)
(* own, whatever is in it; then autocert for a DNS name, self-signed for an*)
(* address.                                                                *)
resolveTLSMode(opts) ==
    IF opts.tls # "" THEN opts.tls
    ELSE IF files["cert"] # 0 /\ files["tkey"] # 0 THEN "file"
    ELSE IF isValidDNSDomain(opts) THEN "autocert"
    ELSE "self_signed"

(* The questions of the interactive set-up: it proposes "file" as soon as  *)
(* the certificate is there, and takes an unknown answer for self-signed.  *)
runInteractiveConfig(opts) ==
    IF opts.tls = "ask"
    THEN IF files["cert"] # 0 THEN "file"
         ELSE IF isValidDNSDomain(opts) THEN "autocert" ELSE "self_signed"
    ELSE resolveTLSMode(opts)

installSteps(opts) ==
    (IF opts.skip THEN <<>> ELSE <<"check", "user">>)
    \o <<"dirs", "certs", "dkim">>
    \o (IF opts.skip THEN <<>> ELSE <<"unit">>)
    \o <<"conf", "perm", "bin">>
    \o (IF opts.iroh THEN <<"iroh">> ELSE <<>>)

(* installCommand: system paths need root; a dry run walks the same steps. *)
installCommand(opts) ==
    /\ cmd.name = "none" /\ count.cmds < MaxCommands
    /\ opts.skip => host.custom
    /\ count' = [count EXCEPT !.cmds = @ + 1]
    /\ cmd' = [NoCmd EXCEPT !.name = "install", !.dry = opts.dry,
                            !.skip = opts.skip, !.self = opts.self,
                            !.num = 100 + count.cmds,
                            !.mode = runInteractiveConfig(opts),
                            !.todo = Steps(installSteps(opts))]
    /\ ghost' = [ghost EXCEPT !.last = "none", !.raced = @ \/ srv.st = "gen"]
    /\ UNCHANGED <<files, conf, pending, host, db, svc, srv>>

Rest(new) == cmd' = [cmd EXCEPT !.todo = new \o Tail(@)]
At(s) == cmd.todo # <<>> /\ Head(cmd.todo) = Step(s) /\ ~cmd.dry
OnlyCommand == UNCHANGED <<files, conf, pending, host, db, svc, srv, ghost, count>>

(* systemctl and useradd must be there; a busy port is only a warning.     *)
checkSystemRequirements == At("check") /\ Rest(<<>>) /\ OnlyCommand

createMaddyUser ==
    /\ At("user")
    /\ host' = [host EXCEPT !.user = TRUE]
    /\ Rest(<<>>)
    /\ UNCHANGED <<files, conf, pending, db, svc, srv, ghost, count>>

createDirectories ==
    /\ At("dirs") /\ (host.user \/ cmd.skip)
    /\ Rest(<<>>)
    /\ OnlyCommand

(* Variant: a certificate that is there is taken for a pair.               *)
setupCertificatesOnce ==
    /\ At("certs")
    /\ Rest(IF cmd.mode = "self_signed" /\ files["cert"] = 0
            THEN Write("cert") \o Write("tkey") ELSE <<>>)
    /\ OnlyCommand

(* A self-signed pair is written anew by every installation, certificate   *)
(* first; the other modes leave the files alone.                           *)
setupCertificates ==
    /\ At("certs")
    /\ Rest(IF cmd.mode = "self_signed" THEN Write("cert") \o Write("tkey") ELSE <<>>)
    /\ OnlyCommand

(* A DNS record on disk is trusted without a look at the key; a key alone  *)
(* gets its record; with neither a new pair is made, the key first.        *)
prepareDKIMKeys ==
    /\ At("dkim")
    /\ Rest(IF files["dns"] # 0 THEN <<>>
            ELSE IF files["dkim"] # 0 THEN <<Step("record")>>
            ELSE Write("dkim") \o <<Step("record")>>)
    /\ OnlyCommand

(* generateDKIMDNSRecord reads the key back: one that is not whole fails   *)
(* the installation.                                                       *)
generateDKIMDNSRecord ==
    /\ At("record") /\ files["dkim"] > 0
    /\ Rest(Write("dns"))
    /\ OnlyCommand

installSystemdFiles == At("unit") /\ Rest(Write("unit")) /\ OnlyCommand
generateConfigFile == At("conf") /\ Rest(<<<<"create", "conf">>, <<"write", "conf">>>>) /\ OnlyCommand
setupPermissions == At("perm") /\ (host.user \/ cmd.skip) /\ Rest(<<>>) /\ OnlyCommand

(* The destination is opened for writing in place: it cannot be the binary *)
(* that runs the installation, nor one a server runs from.                 *)
Executing == cmd.self \/ srv.st # "off"
installBinary == At("bin") /\ (files["bin"] = 0 \/ ~Executing) /\ Rest(Write("bin")) /\ OnlyCommand
installIrohRelay == At("iroh") /\ Rest(Write("iroh")) /\ OnlyCommand

(* The value a step writes.  A DKIM key is opened with O_EXCL, so that one *)
(* that came into being since fails the step; the record is computed from  *)
(* the key.                                                                *)
Contents(f) == IF f = "dns" THEN files["dkim"] ELSE cmd.num

generateDKIMKeyPair(f) == f = "dkim" => files["dkim"] = 0

CreateFile ==
    LET op == Head(cmd.todo) IN
    /\ cmd.todo # <<>> /\ ~cmd.dry
    /\ op[1] = "create"
    /\ generateDKIMKeyPair(op[2])
    /\ IF op[2] = "conf"
       THEN conf' = [NoConf EXCEPT !.st = Torn] /\ UNCHANGED files
       ELSE files' = [files EXCEPT ![op[2]] = Torn] /\ UNCHANGED conf
    /\ Rest(<<>>)
    /\ ghost' = [ghost EXCEPT !.asked = IF op[2] = "conf" THEN 0 ELSE @]
    /\ UNCHANGED <<pending, host, db, svc, srv, count>>

WriteFile ==
    LET op == Head(cmd.todo) IN
    /\ cmd.todo # <<>> /\ ~cmd.dry
    /\ op[1] = "write"
    /\ IF op[2] = "conf"
       THEN conf' = [st |-> 1, port |-> 1, mode |-> cmd.mode] /\ UNCHANGED files
       ELSE files' = [files EXCEPT ![op[2]] = Contents(op[2])] /\ UNCHANGED conf
    /\ Rest(<<>>)
    /\ ghost' = [ghost EXCEPT !.asked = IF op[2] = "conf" THEN 0 ELSE @]
    /\ UNCHANGED <<pending, host, db, svc, srv, count>>

(* The loop over the steps ends with the first error, and undoes nothing.  *)
StepFails ==
    /\ cmd.todo # <<>> /\ ~cmd.dry
    /\ \/ count.faults < MaxFaults /\ count' = [count EXCEPT !.faults = @ + 1]
       \/ /\ \/ At("record") /\ files["dkim"] <= 0
             \/ At("dirs") /\ ~(host.user \/ cmd.skip)
             \/ At("perm") /\ ~(host.user \/ cmd.skip)
             \/ At("bin") /\ files["bin"] # 0 /\ Executing
             \/ At("verify") /\ ~cmd.signed
             \/ Head(cmd.todo) = <<"create", "dkim">> /\ files["dkim"] # 0
          /\ UNCHANGED count
    /\ cmd' = NoCmd
    /\ ghost' = [ghost EXCEPT !.last = "failed"]
    /\ UNCHANGED <<files, conf, pending, host, db, svc, srv>>

(* Every step of a dry run returns before it changes anything.             *)
DryStep ==
    /\ cmd.dry /\ cmd.todo # <<>>
    /\ Rest(<<>>)
    /\ OnlyCommand

CommandDone ==
    /\ cmd.name # "none" /\ cmd.todo = <<>>
    /\ ghost' = [ghost EXCEPT !.last = IF cmd.dry THEN "none" ELSE cmd.name]
    /\ cmd' = [cmd EXCEPT !.name = "none"]
    /\ UNCHANGED <<files, conf, pending, host, db, svc, srv, count>>

-----------------------------------------------------------------------------
(* upgrade: the new binary is verified, the services stopped, and the file *)
(* replaced by a rename.  Whatever fails in between, nothing starts the    *)
(* services again.                                                         *)

upgradeCommand(opts) ==
    /\ cmd.name = "none" /\ count.cmds < MaxCommands /\ files["bin"] > 0
    /\ count' = [count EXCEPT !.cmds = @ + 1]
    /\ cmd' = [NoCmd EXCEPT !.name = "upgrade", !.signed = opts.signed,
                            !.num = 100 + count.cmds,
                            !.todo = Steps(<<"verify", "halt", "copy", "rename", "start">>)]
    /\ ghost' = [ghost EXCEPT !.last = "none"]
    /\ UNCHANGED <<files, conf, pending, host, db, svc, srv>>

VerifySignature == At("verify") /\ cmd.signed /\ Rest(<<>>) /\ OnlyCommand

(* It ends a server wherever it is.                                        *)
SystemctlStop ==
    /\ svc' = [svc EXCEPT !.active = FALSE]
    /\ srv' = Off
    /\ ghost' = [ghost EXCEPT !.cut = @ \/ srv.st = "gen"]

StopForUpgrade ==
    /\ At("halt")
    /\ SystemctlStop
    /\ Rest(<<>>)
    /\ UNCHANGED <<files, conf, pending, host, db, count>>

(* The copy goes to a temporary file beside the binary, is flushed and     *)
(* takes the place of the binary by a rename.                              *)
CopyTemporary == At("copy") /\ Rest(<<>>) /\ OnlyCommand
performUpgrade ==
    /\ At("rename")
    /\ files' = [files EXCEPT !["bin"] = cmd.num]
    /\ Rest(<<>>)
    /\ UNCHANGED <<conf, pending, host, db, svc, srv, ghost, count>>

StartAfterUpgrade ==
    /\ At("start")
    /\ svc' = [svc EXCEPT !.active = files["unit"] > 0]
    /\ Rest(<<>>)
    /\ UNCHANGED <<files, conf, pending, host, db, srv, ghost, count>>

-----------------------------------------------------------------------------
(* uninstall looks at what there is once, at its start.                    *)

(* systemctl is-active answers "active" for a server that has reported     *)
(* ready, and nothing for one that is starting.                            *)
isServiceRunning == files["unit"] # 0 /\ srv.st \in {"up", "exiting"}
isServiceEnabled == files["unit"] # 0 /\ svc.enabled

(* Directories other than the default ones are known from the unit file.   *)
parseServiceFile == files["unit"] > 0
detectInstallation ==
    [known |-> ~host.custom \/ parseServiceFile,
     found |-> \/ files["unit"] # 0 \/ files["bin"] # 0 \/ host.user
               \/ ~host.custom /\ (conf.st # 0 \/ host.data)]

(* Variant: the service is not stopped.                                    *)
uninstallStepsStateFirst(keep) ==
    <<"disable", "units">>
    \o (IF "config" \in keep THEN <<>> ELSE <<"rmconf">>)
    \o (IF "data" \in keep THEN <<>> ELSE <<"rmstate">>)
    \o (IF "binary" \in keep THEN <<>> ELSE <<"rmbin">>)
    \o (IF "user" \in keep THEN <<>> ELSE <<"rmuser">>)

uninstallSteps(keep) ==
    <<"stop", "disable", "units">>
    \o (IF "config" \in keep THEN <<>> ELSE <<"rmconf">>)
    \o (IF "data" \in keep THEN <<>> ELSE <<"rmstate">>)
    \o (IF "binary" \in keep THEN <<>> ELSE <<"rmbin">>)
    \o (IF "user" \in keep THEN <<>> ELSE <<"rmuser">>)

confirmUninstall(opts) == opts.force \/ opts.yes \/ opts.dry

uninstallCommand(opts) ==
    /\ cmd.name = "none" /\ count.cmds < MaxCommands
    /\ detectInstallation.found /\ confirmUninstall(opts)
    /\ count' = [count EXCEPT !.cmds = @ + 1]
    /\ cmd' = [NoCmd EXCEPT !.name = "uninstall", !.dry = opts.dry, !.keep = opts.keep,
                            !.known = detectInstallation.known,
                            !.running = isServiceRunning,
                            !.enabled = isServiceEnabled,
                            !.sure = /\ detectInstallation.known
                                     /\ isServiceRunning \/ ~svc.active,
                            !.todo = Steps(uninstallSteps(opts.keep))]
    /\ ghost' = [ghost EXCEPT !.last = "none"]
    /\ UNCHANGED <<files, conf, pending, host, db, svc, srv>>

stopService ==
    /\ At("stop")
    /\ IF cmd.running THEN SystemctlStop ELSE UNCHANGED <<svc, srv, ghost>>
    /\ Rest(<<>>)
    /\ UNCHANGED <<files, conf, pending, host, db, count>>

disableService ==
    /\ At("disable")
    /\ svc' = [svc EXCEPT !.enabled = @ /\ ~cmd.enabled]
    /\ Rest(<<>>)
    /\ UNCHANGED <<files, conf, pending, host, db, srv, ghost, count>>

(* A unit file that cannot be removed is only a warning.                   *)
removeSystemdFiles ==
    /\ At("units")
    /\ \/ files' = [files EXCEPT !["unit"] = 0] /\ UNCHANGED count
       \/ /\ count.faults < MaxFaults
          /\ count' = [count EXCEPT !.faults = @ + 1]
          /\ UNCHANGED files
    /\ Rest(<<>>)
    /\ UNCHANGED <<conf, pending, host, db, svc, srv, ghost>>

(* The configuration directory goes with the certificates inside it.       *)
removeConfigFiles ==
    /\ At("rmconf")
    /\ IF cmd.known
       THEN /\ conf' = NoConf
            /\ files' = [files EXCEPT !["cert"] = 0, !["tkey"] = 0]
       ELSE UNCHANGED <<conf, files>>
    /\ Rest(<<>>)
    /\ UNCHANGED <<pending, host, db, svc, srv, ghost, count>>

(* The state directory: mail, the databases with the settings, the DKIM    *)
(* keys and a pending configuration.                                       *)
StateGone ==
    /\ files' = [files EXCEPT !["dkim"] = 0, !["dns"] = 0]
    /\ pending' = NoConf
    /\ db' = [port |-> 0, flag |-> 0]
    /\ ghost' = [ghost EXCEPT !.asked = 0]

removeStateDir ==
    /\ At("rmstate")
    /\ IF cmd.known
       THEN StateGone /\ host' = [host EXCEPT !.data = FALSE]
       ELSE UNCHANGED <<files, pending, db, host, ghost>>
    /\ Rest(<<>>)
    /\ UNCHANGED <<conf, svc, srv, count>>

removeBinary ==
    /\ At("rmbin")
    /\ files' = [files EXCEPT !["bin"] = 0, !["iroh"] = 0]
    /\ Rest(<<>>)
    /\ UNCHANGED <<conf, pending, host, db, svc, srv, ghost, count>>

(* userdel -r takes the home directory of the user along, which is the     *)
(* state directory (createMaddyUser).  A user with a process is not        *)
(* removed, with a warning.                                                *)
removeUser ==
    /\ At("rmuser")
    /\ IF host.user /\ srv.st = "off"
       THEN StateGone /\ host' = [host EXCEPT !.user = FALSE, !.data = FALSE]
       ELSE UNCHANGED <<files, pending, db, host, ghost>>
    /\ Rest(<<>>)
    /\ UNCHANGED <<conf, svc, srv, count>>

-----------------------------------------------------------------------------
(* The server.                                                             *)

(* Variant: the pending file is removed and not copied.                    *)
ExecStartPreDrops ==
    /\ svc.active /\ srv.st = "off"
    /\ files["unit"] > 0 /\ files["bin"] > 0 /\ host.user
    /\ srv' = [Off EXCEPT !.st = "start"]
    /\ pending' = NoConf
    /\ UNCHANGED <<files, conf, host, db, svc, cmd, ghost, count>>

(* systemd runs ExecStartPre: a pending configuration replaces the file.   *)
ExecStartPre ==
    /\ svc.active /\ srv.st = "off"
    /\ files["unit"] > 0 /\ files["bin"] > 0 /\ host.user
    /\ srv' = [Off EXCEPT !.st = "start"]
    /\ IF pending.st # 0
       THEN conf' = pending /\ pending' = NoConf
       ELSE UNCHANGED <<conf, pending>>
    /\ UNCHANGED <<files, host, db, svc, cmd, ghost, count>>

(* A copy cut short leaves the pending file, which is copied again.        *)
CopyCutShort ==
    /\ svc.active /\ srv.st = "off" /\ files["unit"] > 0
    /\ pending.st # 0 /\ count.faults < MaxFaults
    /\ conf' = [NoConf EXCEPT !.st = Torn]
    /\ count' = [count EXCEPT !.faults = @ + 1]
    /\ UNCHANGED <<files, pending, host, db, svc, srv, cmd, ghost>>

(* Exit status 2 keeps systemd from starting the server again; after any   *)
(* other status it does, until it has failed too often.                    *)
Exit(status) ==
    /\ srv' = Off
    /\ \/ status # 2 /\ UNCHANGED svc
       \/ status # 3 /\ svc' = [svc EXCEPT !.active = FALSE]

(* Run reads the configuration: a file that is not there or does not parse *)
(* is status 2; one cut at the end of a block may parse and fail later.    *)
Run ==
    /\ srv.st = "start"
    /\ \/ /\ conf.st # 0
          /\ srv' = [srv EXCEPT !.st = "init", !.port = conf.port, !.mode = conf.mode]
          /\ UNCHANGED svc
       \/ conf.st # 1 /\ Exit(2)
    /\ UNCHANGED <<files, conf, pending, host, db, cmd, ghost, count>>

(* ReadGlobals loads the certificate, InitDirs makes the state directory,  *)
(* and RegisterModules wants every block whole and one endpoint at least.  *)
ReadGlobals ==
    srv.mode \in {"self_signed", "file"} => files["cert"] > 0 /\ files["cert"] = files["tkey"]
InitDirs == host' = [host EXCEPT !.data = TRUE]
RegisterModules == srv.port # 0

moduleMain ==
    /\ srv.st = "init"
    /\ IF ReadGlobals THEN InitDirs ELSE UNCHANGED host
    /\ IF ReadGlobals /\ RegisterModules
       THEN srv' = [srv EXCEPT !.st = "dkim"] /\ UNCHANGED svc
       ELSE Exit(1)
    /\ UNCHANGED <<files, conf, pending, db, cmd, ghost, count>>

(* loadOrGenerateKey: a key is read, and one that is not a key stops the   *)
(* start; only when there is none, a new one is made.                      *)
loadOrGenerateKey ==
    /\ srv.st = "dkim"
    /\ IF files["dkim"] > 0
       THEN srv' = [srv EXCEPT !.st = "up", !.dkim = files["dkim"]] /\ UNCHANGED <<svc, count, ghost>>
       ELSE IF files["dkim"] = Torn
       THEN Exit(1) /\ UNCHANGED <<count, ghost>>
       ELSE /\ count.gen < MaxGen
            /\ count' = [count EXCEPT !.gen = @ + 1]
            /\ ghost' = [ghost EXCEPT !.raced = @ \/ cmd.name = "install"]
            /\ srv' = [srv EXCEPT !.st = "gen", !.dkim = count.gen + 1,
                                  !.todo = <<"record", "recorded", "key", "written">>]
            /\ UNCHANGED svc
    /\ UNCHANGED <<files, conf, pending, host, db, cmd>>

(* Variant: a record that is there is kept.                                *)
writeDNSRecordKept ==
    /\ srv.st = "gen" /\ Head(srv.todo) \in {"record", "recorded"}
    /\ files' = [files EXCEPT !["dns"] = IF @ > 0 THEN @ ELSE srv.dkim]
    /\ srv' = [srv EXCEPT !.todo = Tail(@)]
    /\ UNCHANGED <<conf, pending, host, db, svc, cmd, ghost, count>>

(* generateAndWrite: the record is written before the key.                 *)
writeDNSRecord ==
    /\ srv.st = "gen" /\ Head(srv.todo) \in {"record", "recorded"}
    /\ files' = [files EXCEPT !["dns"] = IF Head(srv.todo) = "record" THEN Torn ELSE srv.dkim]
    /\ srv' = [srv EXCEPT !.todo = Tail(@)]
    /\ UNCHANGED <<conf, pending, host, db, svc, cmd, ghost, count>>

generateAndWrite ==
    /\ srv.st = "gen" /\ Head(srv.todo) \in {"key", "written"}
    /\ IF Head(srv.todo) = "key"
       THEN IF files["dkim"] = 0
            THEN /\ files' = [files EXCEPT !["dkim"] = Torn]
                 /\ srv' = [srv EXCEPT !.todo = Tail(@)]
                 /\ UNCHANGED svc
            ELSE Exit(1) /\ UNCHANGED files
       ELSE /\ files' = [files EXCEPT !["dkim"] = srv.dkim]
            /\ srv' = [srv EXCEPT !.st = "up", !.todo = <<>>]
            /\ UNCHANGED svc
    /\ UNCHANGED <<conf, pending, host, db, cmd, ghost, count>>

-----------------------------------------------------------------------------
(* Settings and reload, through the admin API of a running server.         *)

Serving == srv.st = "up" /\ host.data

validateSettingValue(p) == p \in Ports

GenericSettingHandler(p) ==
    /\ Serving /\ count.sets < MaxSettings
    /\ p = 0 \/ validateSettingValue(p)
    /\ db' = [db EXCEPT !.port = p]
    /\ count' = [count EXCEPT !.sets = @ + 1]
    /\ UNCHANGED <<files, conf, pending, host, svc, srv, cmd, ghost>>

(* Toggles are rows of the same table; the command line writes them too.   *)
genericDBToggleHandler(v) ==
    /\ Serving /\ db.flag # v /\ count.sets < MaxSettings
    /\ db' = [db EXCEPT !.flag = v]
    /\ count' = [count EXCEPT !.sets = @ + 1]
    /\ UNCHANGED <<files, conf, pending, host, svc, srv, cmd, ghost>>

(* The command line finds the database through the configuration, or takes *)
(* the default place, where it must exist.                                 *)
parseAuthTableDriverDSN == conf.st = 1
getDBConfig == parseAuthTableDriverDSN \/ ~host.custom
openDB == getDBConfig /\ host.data

adminWebPath ==
    /\ openDB /\ db.flag # 0 /\ count.sets < MaxSettings
    /\ db' = [db EXCEPT !.flag = 0]
    /\ count' = [count EXCEPT !.sets = @ + 1]
    /\ UNCHANGED <<files, conf, pending, host, svc, srv, cmd, ghost>>

(* Each override that is set replaces its value in the text of the file;   *)
(* one that is not set leaves what the file says.                          *)
configOverrides(c) == [c EXCEPT !.port = IF db.port # 0 THEN db.port ELSE @]

findConfigPath == conf.st # 0

(* reloadConfig patches the file as it is now, leaves the result in the    *)
(* state directory if it differs, and always restarts.                     *)
reloadConfig ==
    /\ srv.st \in {"up", "exiting"} /\ host.data /\ count.reloads < MaxReloads
    /\ findConfigPath /\ conf.st = 1
    /\ count' = [count EXCEPT !.reloads = @ + 1]
    /\ srv' = [srv EXCEPT !.st = "exiting"]
    /\ pending' = IF configOverrides(conf) # conf THEN configOverrides(conf) ELSE pending
    /\ ghost' = [ghost EXCEPT !.asked = configOverrides(conf).port]
    /\ UNCHANGED <<files, conf, host, db, svc, cmd>>

(* os.WriteFile cut short by a loss of power.                              *)
PendingCutShort ==
    /\ Serving /\ count.reloads < MaxReloads /\ count.faults < MaxFaults
    /\ conf.st = 1 /\ configOverrides(conf) # conf
    /\ pending' = [NoConf EXCEPT !.st = Torn]
    /\ count' = [count EXCEPT !.reloads = @ + 1, !.faults = @ + 1]
    /\ srv' = Off
    /\ svc' = [svc EXCEPT !.active = svc.enabled]
    /\ cmd' = NoCmd
    /\ ghost' = [ghost EXCEPT !.cut = TRUE, !.last = "none", !.asked = 0]
    /\ UNCHANGED <<files, conf, host, db>>

(* Variant: the status reserved for configuration errors.                  *)
restartServiceFinal ==
    /\ srv.st = "exiting"
    /\ Exit(2)
    /\ UNCHANGED <<files, conf, pending, host, db, cmd, ghost, count>>

(* restartService: half a second later the process exits with status 3.    *)
restartService ==
    /\ srv.st = "exiting"
    /\ Exit(3)
    /\ UNCHANGED <<files, conf, pending, host, db, cmd, ghost, count>>

-----------------------------------------------------------------------------
(* The administrator and the machine.                                      *)

SystemctlStart ==
    /\ cmd.name = "none" /\ files["unit"] > 0 /\ ~svc.active
    /\ svc' = [active |-> TRUE, enabled |-> TRUE]
    /\ UNCHANGED <<files, conf, pending, host, db, srv, cmd, ghost, count>>

(* Keys are rotated by removing the old pair.                              *)
RotateKeys ==
    /\ cmd.name = "none" /\ srv.st = "off" /\ ~svc.active
    /\ files["dkim"] > 0 /\ count.gen < MaxGen
    /\ files' = [files EXCEPT !["dkim"] = 0]
    /\ ghost' = [ghost EXCEPT !.last = "none"]
    /\ UNCHANGED <<conf, pending, host, db, svc, srv, cmd, count>>

(* A loss of power ends the server and the command wherever they are.      *)
PowerLoss ==
    /\ count.faults < MaxFaults
    /\ srv.st # "off" \/ cmd.name # "none"
    /\ srv' = Off
    /\ svc' = [svc EXCEPT !.active = svc.enabled]
    /\ cmd' = NoCmd
    /\ ghost' = [ghost EXCEPT !.cut = @ \/ srv.st = "gen",
                              !.last = "none"]
    /\ count' = [count EXCEPT !.faults = @ + 1]
    /\ UNCHANGED <<files, conf, pending, host, db>>

CommandStep ==
    \/ checkSystemRequirements \/ createMaddyUser \/ createDirectories
    \/ setupCertificates \/ prepareDKIMKeys \/ generateDKIMDNSRecord
    \/ installSystemdFiles \/ generateConfigFile \/ setupPermissions
    \/ installBinary \/ installIrohRelay
    \/ CreateFile \/ WriteFile \/ DryStep \/ CommandDone
    \/ VerifySignature \/ StopForUpgrade \/ CopyTemporary \/ performUpgrade
    \/ StartAfterUpgrade
    \/ stopService \/ disableService \/ removeSystemdFiles \/ removeConfigFiles
    \/ removeStateDir \/ removeBinary \/ removeUser

(* The first module to be initialised that may write is the signer.        *)
initModules == loadOrGenerateKey \/ writeDNSRecord \/ generateAndWrite

Boot == Run \/ moduleMain \/ initModules

Next ==
    \/ \E o \in InstallOpts : installCommand(o)
    \/ \E o \in UpgradeOpts : upgradeCommand(o)
    \/ \E o \in UninstallOpts : uninstallCommand(o)
    \/ CommandStep \/ StepFails
    \/ ExecStartPre \/ CopyCutShort \/ Boot
    \/ \E p \in Ports \cup {0} : GenericSettingHandler(p)
    \/ \E v \in 1..2 : genericDBToggleHandler(v)
    \/ adminWebPath \/ reloadConfig \/ PendingCutShort \/ restartService
    \/ SystemctlStart \/ RotateKeys \/ PowerLoss

(* systemd keeps starting an active unit, a server that starts goes on, and*)
(* the timer of a restart fires.                                           *)
Spec == /\ Init /\ [][Next]_vars
        /\ WF_vars(ExecStartPre) /\ WF_vars(Boot) /\ WF_vars(restartService)
-----------------------------------------------------------------------------
(* Properties.                                                             *)

(* The record an administrator publishes belongs to the key the server     *)
(* signs with: whoever wrote the two files, the installer (key first) or   *)
(* the server (record first), and wherever a writer was cut short, two     *)
(* files that are both whole are of one pair.  Only an installation beside *)
(* a server that is making its first key can mix two pairs.                *)
RecordMatchesKey ==
    files["dns"] > 0 /\ files["dkim"] > 0 /\ ~ghost.raced => files["dns"] = files["dkim"]

(* An installation that reports success leaves a service that can start,   *)
(* whatever an earlier command left behind when it failed or was cut short:*)
(* a whole binary, unit and configuration, the pair of certificates it     *)
(* made, and a DKIM key that is whole or still to be made.  A server cut   *)
(* short while it wrote the key or the pending configuration, and two      *)
(* writers of a key at a time, are what the installer does not repair.     *)
InstalledCanStart ==
    ghost.last = "install" /\ ~ghost.cut /\ ~ghost.raced =>
        /\ files["bin"] > 0
        /\ cmd.skip \/ files["unit"] > 0
        /\ conf.st = 1 \/ pending.st = 1
        /\ cmd.mode = "self_signed" => files["cert"] > 0 /\ files["cert"] = files["tkey"]
        /\ files["dkim"] # Torn \/ srv.st = "gen"

(* An uninstallation with no --keep flag that reports success has removed  *)
(* the configuration and the mail, if it could see the installation as it  *)
(* was: the unit file names the directories, and the service was running   *)
(* or stopped (not about to start).                                        *)
UninstalledIsGone ==
    ghost.last = "uninstall" /\ cmd.keep = {} /\ cmd.sure =>
        conf.st = 0 /\ ~host.data /\ db.port = 0

(* What `install` and `uninstall` report is true of the host they leave,   *)
(* whatever earlier commands, faults and servers did to it.                *)
CommandsHonest == InstalledCanStart /\ UninstalledIsGone

(* A server that runs after a reload listens where the database said at    *)
(* the time of the last reload: nothing between the patched text and the   *)
(* next start (a second reload, a restart, a copy cut short) loses the     *)
(* change, until an installation writes the file anew.                     *)
ReloadApplied ==
    srv.st = "up" /\ ghost.asked # 0 => srv.port = ghost.asked

(* A server that exits for a reload comes back by itself: its status is one*)
(* systemd restarts, and the files it started from are still there.        *)
ReloadComesBack ==
    (srv.st = "exiting" /\ cmd.name = "none") ~>
        \/ srv.st = "up" \/ cmd.name # "none" \/ count.faults > 0
        \/ 0 \in {files["unit"], files["bin"]} \/ ~host.user
=============================================================================
