-------------------------- MODULE DeploymentProofs --------------------------
(***************************************************************************)
(* RecordMatchesKey, ReloadApplied and CommandsHonest for any number of    *)
(* commands, ports, interruptions and reloads, and any install options.    *)
(*                                                                         *)
(* A command is the list of what it has left to do, and a server that      *)
(* makes a key has such a list too, so every argument is about what is     *)
(* still on a list against what is already on the disk.  Sound gives the   *)
(* lists their shape: writes before steps, a created file written next,    *)
(* only the steps of the command.  KeyInv follows the key and its record   *)
(* through the two programs that write them, ReloadInv the asked port from *)
(* the database through the pending configuration to the next server,      *)
(* InstallInv and UninstallInv what the steps behind a command have left.  *)
(* KeyInv is needed for InstallInv (a torn key) and holds until an         *)
(* installation runs beside a server that makes its key (ghost.raced).     *)
(***************************************************************************)
EXTENDS Deployment, TLAPS

OpNames ==
    {"check", "user", "dirs", "certs", "dkim", "record", "unit", "conf", "perm", "bin", "iroh",
     "verify", "halt", "copy", "rename", "start",
     "stop", "disable", "units", "rmconf", "rmstate", "rmbin", "rmuser", "cert", "tkey", "dns"}
Op == {"step", "create", "write"} \X OpNames

Modes == {o.tls : o \in InstallOpts} \cup {"none", "file", "autocert", "self_signed"}
ConfigFile == [st : {Torn, 0, 1}, port : Nat, mode : Modes]
Command == [name : {"none", "install", "upgrade", "uninstall"}, todo : Seq(Op), dry : BOOLEAN,
            mode : Modes, skip : BOOLEAN, self : BOOLEAN, signed : BOOLEAN, num : Nat,
            known : BOOLEAN, running : BOOLEAN, enabled : BOOLEAN,
            keep : SUBSET {"config", "data", "binary", "user"}, sure : BOOLEAN]
Server == [st : {"off", "start", "init", "dkim", "gen", "up", "exiting"}, port : Nat,
           mode : Modes, dkim : Nat, todo : Seq({"record", "recorded", "key", "written"})]

Memory == [last : {"none", "failed", "install", "upgrade", "uninstall"}, asked : Nat,
           cut : BOOLEAN, raced : BOOLEAN]

Typed ==
    /\ files \in [File -> Nat \cup {Torn}]
    /\ conf \in ConfigFile /\ pending \in ConfigFile
    /\ host \in [user : BOOLEAN, data : BOOLEAN, custom : BOOLEAN]
    /\ db \in [port : Nat, flag : Nat]
    /\ svc \in [active : BOOLEAN, enabled : BOOLEAN]
    /\ srv \in Server
    /\ cmd \in Command
    /\ ghost \in Memory
    /\ count \in [cmds : Nat, gen : Nat, sets : Nat, reloads : Nat, faults : Nat]

-----------------------------------------------------------------------------
(* The steps of each command, and the files its steps write.               *)
StepNames(name) ==
    CASE name = "install" -> {"check", "user", "dirs", "certs", "dkim", "record", "unit",
                              "conf", "perm", "bin", "iroh"}
      [] name = "upgrade" -> {"verify", "halt", "copy", "rename", "start"}
      [] name = "uninstall" -> {"stop", "disable", "units", "rmconf", "rmstate", "rmbin", "rmuser"}
      [] OTHER -> {}

Has(q, o) == \E i \in 1..Len(q) : q[i] = o
ToDo(s) == Has(cmd.todo, Step(s))
Writes(q, f) == Has(q, <<"create", f>>) \/ Has(q, <<"write", f>>)
Writing(f) == Writes(cmd.todo, f)
AllSteps(q) == \A i \in 1..Len(q) : q[i][1] = "step"

(* What is written comes before the next step, and a file that is created  *)
(* is written next.                                                        *)
Ordered(q) ==
    /\ \A i, j \in 1..Len(q) : i <= j /\ q[i][1] = "step" => q[j][1] = "step"
    /\ \A i \in 1..Len(q) : q[i][1] = "create" =>
            i + 1 \in 1..Len(q) /\ q[i + 1] = <<"write", q[i][2]>>
    /\ ~(Writes(q, "dkim") /\ Writes(q, "dns"))

ListShape ==
    /\ Ordered(cmd.todo)
    /\ cmd.name # "install" => AllSteps(cmd.todo)
    /\ \A s : ToDo(s) => s \in StepNames(cmd.name)
    /\ \A i \in 2..Len(cmd.todo) : cmd.todo[i] # Step("stop")
    /\ \A f : Writing(f) => f \in File \cup {"conf"}
Shape == ListShape /\ (ghost.last \in {"install", "upgrade", "uninstall"} => cmd.name = "none")

(* What a server that makes a key has left to do.                          *)
ToGenerate ==
    {<<"record", "recorded", "key", "written">>, <<"recorded", "key", "written">>,
     <<"key", "written">>, <<"written">>}
GenShape == srv.st = "gen" => srv.todo \in ToGenerate /\ srv.dkim > 0

Generating ==
    srv.st = "gen" =>
        /\ cmd.name # "install"
        /\ files["dkim"] = 0 \/ (Head(srv.todo) = "written" /\ files["dkim"] = Torn)
        /\ Head(srv.todo) \in {"key", "written"} => files["dns"] \in {0, srv.dkim}

(* A key that is not whole has no record, unless its writer was cut short. *)
KeyInv ==
    ~ghost.raced =>
        /\ Generating
        /\ RecordMatchesKey
        /\ Writing("dkim") => files["dns"] = 0
        /\ Writing("dns") => files["dkim"] > 0
        /\ files["dkim"] = Torn => ghost.cut \/ srv.st = "gen" \/ files["dns"] = 0

(* The pending configuration, once the server that wrote it has gone, is   *)
(* what the last reload asked for.                                         *)
ReloadInv ==
    /\ srv.st \notin {"off", "exiting"} => pending.st = 0
    /\ pending.st # 0 /\ srv.st = "exiting" /\ host.data => db.port # 0 /\ pending.port = db.port
    /\ ghost.asked # 0 =>
        /\ pending.st # 0 => pending.port = ghost.asked
        /\ pending.st = 0 /\ conf.st # 0 => conf.port = ghost.asked
        /\ srv.st \in {"init", "dkim", "gen", "up"} => srv.port = ghost.asked

(* What the steps of an installation that are behind have left.  The       *)
(* certificate is written before its key, with one number.                 *)
CertFirst(q) == \A i, j \in 1..Len(q) : q[i][2] = "tkey" /\ q[j][2] = "cert" => j < i
Installs == (cmd.name = "install" /\ ~cmd.dry) \/ ghost.last = "install"
PairInv ==
    /\ Writing("cert") => Writing("tkey")
    /\ Writing("tkey") => Writing("cert") \/ files["cert"] = cmd.num
    /\ \/ ToDo("certs") \/ Writing("tkey")
       \/ files["cert"] > 0 /\ files["cert"] = files["tkey"]
InstallInv ==
    /\ CertFirst(cmd.todo)
    /\ pending.st = Torn => ghost.cut
    /\ cmd.name = "install" => cmd.num > 0
    /\ Installs /\ ~ghost.cut /\ ~ghost.raced =>
        /\ ToDo("bin") \/ Writing("bin") \/ files["bin"] > 0
        /\ cmd.skip \/ ToDo("unit") \/ Writing("unit") \/ files["unit"] > 0
        /\ ToDo("conf") \/ Writing("conf") \/ conf.st = 1 \/ pending.st = 1
        /\ cmd.mode = "self_signed" => PairInv
        /\ ToDo("dkim") \/ Writing("dkim") \/ ToDo("record") \/ files["dkim"] # Torn \/ srv.st = "gen"

(* An upgrade starts the service last, after it has stopped it.            *)
StartLast(q) == \A i \in 1..Len(q) : q[i] = Step("start") => i = Len(q)
UpgradeInv ==
    cmd.name = "upgrade" /\ ~cmd.dry =>
        StartLast(cmd.todo) /\ (ToDo("start") => ToDo("halt") \/ ~svc.active)

(* An uninstallation that saw everything has stopped the server before it  *)
(* removes a file, and nothing it left can start one.                      *)
Uninstalls ==
    /\ (cmd.name = "uninstall" /\ ~cmd.dry) \/ ghost.last = "uninstall"
    /\ cmd.keep = {} /\ cmd.sure
UninstallInv ==
    /\ srv.st # "off" => svc.active
    /\ Uninstalls =>
        /\ cmd.known
        /\ ToDo("stop") => /\ cmd.running \/ ~svc.active
                           /\ ToDo("rmconf") /\ ToDo("rmstate") /\ ToDo("rmbin")
        /\ ~ToDo("stop") =>
            /\ srv.st = "off"
            /\ cmd.name = "uninstall" => ~svc.active
            /\ ToDo("rmconf") \/ conf.st = 0
            /\ ToDo("rmstate") \/ (pending.st = 0 /\ ~host.data /\ db.port = 0)
            /\ ToDo("rmbin") \/ files["bin"] = 0

-----------------------------------------------------------------------------
(* Lists of steps.                                                         *)

LEMMA TailIndex ==
    ASSUME NEW q \in Seq(Op), q # <<>>
    PROVE  /\ Tail(q) \in Seq(Op) /\ Len(q) \in Nat /\ Len(q) >= 1 /\ Len(Tail(q)) = Len(q) - 1
           /\ q[1] = Head(q) /\ Head(q) \in Op
           /\ \A i \in 1..Len(Tail(q)) : Tail(q)[i] = q[i + 1]
  OBVIOUS

LEMMA SeqConcat ==
    ASSUME NEW S, NEW p \in Seq(S), NEW q \in Seq(S)
    PROVE  /\ p \o q \in Seq(S) /\ Len(p \o q) = Len(p) + Len(q) /\ Len(p) \in Nat /\ Len(q) \in Nat
           /\ \A i \in 1..Len(p) : (p \o q)[i] = p[i]
           /\ \A i \in 1..Len(q) : (p \o q)[Len(p) + i] = q[i]
           /\ \A i \in 1..Len(p \o q) : i \in 1..Len(p) \/ (i - Len(p)) \in 1..Len(q)
  OBVIOUS

LEMMA ConcatIndex ==
    ASSUME NEW p \in Seq(Op), NEW q \in Seq(Op)
    PROVE  /\ p \o q \in Seq(Op) /\ Len(p \o q) = Len(p) + Len(q) /\ Len(p) \in Nat /\ Len(q) \in Nat
           /\ \A i \in 1..Len(p) : (p \o q)[i] = p[i]
           /\ \A i \in 1..Len(q) : (p \o q)[Len(p) + i] = q[i]
           /\ \A i \in 1..Len(p \o q) : i \in 1..Len(p) \/ (i - Len(p)) \in 1..Len(q)
  BY SeqConcat, Zenon

LEMMA HasTail ==
    ASSUME NEW q \in Seq(Op), q # <<>>, NEW o
    PROVE  Has(q, o) <=> o = Head(q) \/ Has(Tail(q), o)
  <1>1. ASSUME NEW i \in 1..Len(q), q[i] = o PROVE o = Head(q) \/ Has(Tail(q), o)
    <2>1. CASE i = 1
      BY <1>1, <2>1, TailIndex
    <2>2. CASE i # 1
      <3>1. i - 1 \in 1..Len(Tail(q)) /\ Tail(q)[i - 1] = q[(i - 1) + 1] /\ (i - 1) + 1 = i
        BY <2>2, TailIndex
      <3> QED
        BY <1>1, <3>1 DEF Has
    <2> QED
      BY <2>1, <2>2
  <1>2. ASSUME NEW i \in 1..Len(Tail(q)), Tail(q)[i] = o PROVE Has(q, o)
    <2>1. i + 1 \in 1..Len(q) /\ q[i + 1] = o
      BY <1>2, TailIndex
    <2> QED
      BY <2>1 DEF Has
  <1>3. o = Head(q) => Has(q, o)
    <2>1. 1 \in 1..Len(q) /\ q[1] = Head(q)
      BY TailIndex
    <2> QED
      BY <2>1 DEF Has
  <1> QED
    BY <1>1, <1>2, <1>3 DEF Has

LEMMA SeqHas ==
    ASSUME NEW S, NEW p \in Seq(S), NEW q \in Seq(S), NEW o
    PROVE  Has(p \o q, o) <=> Has(p, o) \/ Has(q, o)
  <1> DEFINE c == p \o q
  <1>0. /\ c \in Seq(S) /\ Len(c) = Len(p) + Len(q) /\ Len(p) \in Nat /\ Len(q) \in Nat
        /\ \A i \in 1..Len(p) : c[i] = p[i]
        /\ \A i \in 1..Len(q) : c[Len(p) + i] = q[i]
        /\ \A i \in 1..Len(c) : i \in 1..Len(p) \/ (i - Len(p)) \in 1..Len(q)
    BY SeqConcat, Zenon
  <1> HIDE DEF c
  <1>1. ASSUME NEW i \in 1..Len(c), c[i] = o PROVE Has(p, o) \/ Has(q, o)
    <2>1. CASE i \in 1..Len(p)
      BY <1>0, <1>1, <2>1 DEF Has
    <2>2. CASE i - Len(p) \in 1..Len(q)
      <3>1. c[Len(p) + (i - Len(p))] = q[i - Len(p)] /\ Len(p) + (i - Len(p)) = i
        BY <1>0, <2>2
      <3> QED
        BY <1>1, <2>2, <3>1 DEF Has
    <2> QED
      BY <1>0, <2>1, <2>2
  <1>2. ASSUME NEW i \in 1..Len(p), p[i] = o PROVE Has(c, o)
    <2>1. i \in 1..Len(c) /\ c[i] = o
      BY <1>0, <1>2
    <2> QED
      BY <2>1 DEF Has
  <1>3. ASSUME NEW i \in 1..Len(q), q[i] = o PROVE Has(c, o)
    <2>1. Len(p) + i \in 1..Len(c) /\ c[Len(p) + i] = o
      BY <1>0, <1>3
    <2> QED
      BY <2>1 DEF Has
  <1>4. Has(c, o) <=> Has(p, o) \/ Has(q, o)
    BY <1>1, <1>2, <1>3 DEF Has
  <1> QED
    BY <1>4 DEF c

LEMMA HasConcat ==
    ASSUME NEW p \in Seq(Op), NEW q \in Seq(Op), NEW o
    PROVE  Has(p \o q, o) <=> Has(p, o) \/ Has(q, o)
  BY SeqHas, Zenon

LEMMA HasSteps ==
    ASSUME NEW ns \in Seq(OpNames)
    PROVE  /\ Steps(ns) \in Seq(Op) /\ Len(Steps(ns)) = Len(ns) /\ Len(ns) \in Nat
           /\ AllSteps(Steps(ns))
           /\ \A i \in 1..Len(ns) : Steps(ns)[i] = Step(ns[i])
           /\ \A o : Has(Steps(ns), o) <=> \E i \in 1..Len(ns) : o = Step(ns[i])
  <1>1. Len(ns) \in Nat /\ \A i \in 1..Len(ns) : ns[i] \in OpNames
    OBVIOUS
  <1>2. \A i \in 1..Len(ns) : Step(ns[i]) \in Op
    BY <1>1 DEF Step, Op
  <1>3. Steps(ns) \in Seq(Op) /\ Len(Steps(ns)) = Len(ns)
    BY <1>1, <1>2 DEF Steps
  <1>4. \A i \in 1..Len(ns) : Steps(ns)[i] = Step(ns[i])
    BY <1>1 DEF Steps
  <1>5. AllSteps(Steps(ns))
    BY <1>3, <1>4 DEF AllSteps, Step
  <1> QED
    BY <1>1, <1>3, <1>4, <1>5 DEF Has

LEMMA OrderedSteps ==
    ASSUME NEW q \in Seq(Op), AllSteps(q)
    PROVE  Ordered(q) /\ \A f : ~Writes(q, f)
  <1>1. \A f : ~Writes(q, f)
    BY DEF AllSteps, Writes, Has
  <1> QED
    BY <1>1 DEF Ordered, AllSteps

LEMMA OrderedTail ==
    ASSUME NEW q \in Seq(Op), q # <<>>, Ordered(q)
    PROVE  /\ Ordered(Tail(q))
           /\ AllSteps(q) \/ Head(q)[1] = "step" => AllSteps(Tail(q))
           /\ \A f : Head(q) = <<"create", f>> => Has(Tail(q), <<"write", f>>)
  <1> DEFINE t == Tail(q)
             a == "step"
             b == "create"
             c == "write"
  <1>1. /\ Len(q) \in Nat /\ Len(q) >= 1 /\ Len(t) = Len(q) - 1 /\ q[1] = Head(q)
        /\ \A i \in 1..Len(t) : t[i] = q[i + 1]
    BY TailIndex
  <1>2. \A o : Has(t, o) => Has(q, o)
    BY HasTail
  <1> HIDE DEF t
  <1>3. \A i, j \in 1..Len(q) : i <= j /\ q[i][1] = a => q[j][1] = a
    BY DEF Ordered
  <1>4. \A i \in 1..Len(q) : q[i][1] = b => i + 1 \in 1..Len(q) /\ q[i + 1] = <<c, q[i][2]>>
    BY DEF Ordered
  <1> HIDE DEF a, b, c
  <1>5. \A i, j \in 1..Len(t) : i <= j /\ t[i][1] = a => t[j][1] = a
    <2>1. ASSUME NEW i \in 1..Len(t), NEW j \in 1..Len(t), i <= j, t[i][1] = a PROVE t[j][1] = a
      <3>1. i + 1 \in 1..Len(q) /\ j + 1 \in 1..Len(q) /\ i + 1 <= j + 1
        BY <1>1, <2>1
      <3>2. q[i + 1][1] = a
        BY <1>1, <2>1
      <3>3. q[j + 1][1] = a
        BY <1>3, <3>1, <3>2
      <3> QED
        BY <1>1, <3>3
    <2> QED
      BY <2>1
  <1>6. \A i \in 1..Len(t) : t[i][1] = b => i + 1 \in 1..Len(t) /\ t[i + 1] = <<c, t[i][2]>>
    <2>1. ASSUME NEW i \in 1..Len(t), t[i][1] = b PROVE i + 1 \in 1..Len(t) /\ t[i + 1] = <<c, t[i][2]>>
      <3>1. i + 1 \in 1..Len(q) /\ q[i + 1] = t[i]
        BY <1>1, <2>1
      <3>2. (i + 1) + 1 \in 1..Len(q) /\ q[(i + 1) + 1] = <<c, t[i][2]>>
        BY <1>4, <2>1, <3>1
      <3>3. i + 1 \in 1..Len(t)
        BY <1>1, <2>1, <3>2
      <3>4. t[i + 1] = q[(i + 1) + 1]
        BY <1>1, <3>3
      <3> QED
        BY <3>2, <3>3, <3>4
    <2> QED
      BY <2>1
  <1>7. ~(Writes(t, "dkim") /\ Writes(t, "dns"))
    BY <1>2 DEF Ordered, Writes
  <1>8. AllSteps(q) \/ Head(q)[1] = "step" => AllSteps(t)
    <2>1. AllSteps(q) => AllSteps(t)
      BY <1>1 DEF AllSteps
    <2>2. ASSUME Head(q)[1] = a PROVE \A i \in 1..Len(q) : q[i][1] = a
      BY <1>1, <1>3, <2>2
    <2> QED
      BY <2>1, <2>2 DEF AllSteps, a
  <1>9. ASSUME NEW f, Head(q) = <<"create", f>> PROVE Has(t, <<"write", f>>)
    <2>1. 1 \in 1..Len(q) /\ q[1][1] = b /\ q[1][2] = f
      BY <1>1, <1>9 DEF b
    <2>2. 1 + 1 \in 1..Len(q) /\ q[1 + 1] = <<c, f>>
      BY <1>4, <2>1
    <2>3. 1 \in 1..Len(t) /\ t[1] = <<c, f>>
      BY <1>1, <2>2
    <2> QED
      BY <2>3 DEF Has, c
  <1>10. Ordered(t)
    BY <1>5, <1>6, <1>7 DEF Ordered, a, b, c
  <1> QED
    BY <1>8, <1>9, <1>10 DEF t

LEMMA HasWrite ==
    ASSUME NEW f \in OpNames
    PROVE  /\ Write(f) \in Seq(Op) /\ Len(Write(f)) = 2
           /\ Write(f)[1] = <<"create", f>> /\ Write(f)[2] = <<"write", f>>
           /\ \A o : Has(Write(f), o) <=> o \in {<<"create", f>>, <<"write", f>>}
  <1> DEFINE a == <<"create", f>>
             b == <<"write", f>>
  <1>1. a \in Op /\ b \in Op
    BY DEF Op
  <1>2. Write(f) = <<a, b>>
    BY DEF Write
  <1> HIDE DEF a, b
  <1>3. Write(f) \in Seq(Op) /\ Len(Write(f)) = 2 /\ Write(f)[1] = a /\ Write(f)[2] = b
    BY <1>1, <1>2
  <1>4. \A o : Has(Write(f), o) <=> o = a \/ o = b
    <2>1. \A i : i \in 1..Len(Write(f)) <=> i = 1 \/ i = 2
      BY <1>3
    <2> QED
      BY <1>3, <2>1, Zenon DEF Has
  <1> QED
    BY <1>3, <1>4 DEF a, b

LEMMA OrderedWrite ==
    ASSUME NEW f \in OpNames, NEW q \in Seq(Op), Ordered(q),
           f = "dkim" => ~Writes(q, "dns"), f = "dns" => ~Writes(q, "dkim")
    PROVE  /\ Write(f) \o q \in Seq(Op) /\ Ordered(Write(f) \o q)
           /\ \A o : Has(Write(f) \o q, o) <=> o \in {<<"create", f>>, <<"write", f>>} \/ Has(q, o)
  <1> DEFINE p == Write(f)
             r == p \o q
  <1>1. /\ p \in Seq(Op) /\ Len(p) = 2 /\ p[1] = <<"create", f>> /\ p[2] = <<"write", f>>
        /\ \A o : Has(p, o) <=> o \in {<<"create", f>>, <<"write", f>>}
    BY HasWrite
  <1> HIDE DEF p
  <1>2. \A o : Has(r, o) <=> o \in {<<"create", f>>, <<"write", f>>} \/ Has(q, o)
    BY <1>1, HasConcat
  <1>3. /\ r \in Seq(Op) /\ Len(r) = Len(p) + Len(q) /\ Len(q) \in Nat
        /\ \A i \in 1..Len(p) : r[i] = p[i]
        /\ \A i \in 1..Len(q) : r[Len(p) + i] = q[i]
        /\ \A i \in 1..Len(r) : i \in 1..Len(p) \/ (i - Len(p)) \in 1..Len(q)
    BY <1>1, ConcatIndex, Zenon
  <1> HIDE DEF r
  <1>0. Len(r) = 2 + Len(q)
    BY <1>1, <1>3
  <1>4. /\ r[1] = <<"create", f>> /\ r[2] = <<"write", f>>
        /\ \A i \in 1..Len(q) : r[2 + i] = q[i]
        /\ \A i \in 1..Len(r) : i = 1 \/ i = 2 \/ (i > 2 /\ (i - 2) \in 1..Len(q) /\ r[i] = q[i - 2])
    <2>1. r[1] = <<"create", f>> /\ r[2] = <<"write", f>> /\ \A i \in 1..Len(q) : r[2 + i] = q[i]
      BY <1>1, <1>3
    <2>2. ASSUME NEW i \in 1..Len(r), i # 1, i # 2 PROVE i > 2 /\ (i - 2) \in 1..Len(q) /\ r[i] = q[i - 2]
      <3>1. i > 2 /\ (i - 2) \in 1..Len(q) /\ 2 + (i - 2) = i
        BY <1>0, <1>3, <2>2
      <3> QED
        BY <2>1, <3>1
    <2> QED
      BY <2>1, <2>2
  <1>5. ASSUME NEW i \in 1..Len(r), NEW j \in 1..Len(r), i <= j, r[i][1] = "step" PROVE r[j][1] = "step"
    <2>1. i > 2 /\ (i - 2) \in 1..Len(q) /\ r[i] = q[i - 2]
      BY <1>4, <1>5
    <2>2. j > 2 /\ (j - 2) \in 1..Len(q) /\ r[j] = q[j - 2] /\ i - 2 <= j - 2
      BY <1>4, <1>5, <2>1
    <2> QED
      BY <1>5, <2>1, <2>2 DEF Ordered
  <1>6. ASSUME NEW i \in 1..Len(r), r[i][1] = "create"
        PROVE  i + 1 \in 1..Len(r) /\ r[i + 1] = <<"write", r[i][2]>>
    <2>1. CASE i = 1
      BY <1>0, <1>3, <1>4, <2>1
    <2>2. CASE i = 2
      BY <1>4, <1>6, <2>2
    <2>3. CASE i # 1 /\ i # 2
      <3>1. i > 2 /\ (i - 2) \in 1..Len(q) /\ r[i] = q[i - 2]
        BY <1>4, <2>3
      <3>2. (i - 2) + 1 \in 1..Len(q) /\ q[(i - 2) + 1] = <<"write", r[i][2]>>
        BY <1>6, <3>1 DEF Ordered
      <3>3. 2 + ((i - 2) + 1) = i + 1 /\ i + 1 \in 1..Len(r)
        BY <1>0, <1>3, <3>2
      <3>4. r[2 + ((i - 2) + 1)] = q[(i - 2) + 1]
        BY <1>4, <3>2
      <3> QED
        BY <3>2, <3>3, <3>4
    <2> QED
      BY <2>1, <2>2, <2>3
  <1>7. ~(Writes(r, "dkim") /\ Writes(r, "dns"))
    <2>1. \A g : Writes(r, g) => g = f \/ Writes(q, g)
      BY <1>2 DEF Writes
    <2> QED
      BY <2>1 DEF Ordered
  <1>8. Ordered(r)
    BY <1>5, <1>6, <1>7 DEF Ordered
  <1> QED
    BY <1>2, <1>3, <1>8 DEF p, r

-----------------------------------------------------------------------------
(* What a step of a command puts before the rest of the list.              *)
NewOps ==
    {<<>>, <<Step("record")>>, Write("cert") \o Write("tkey"), Write("dkim") \o <<Step("record")>>}
    \cup {Write(f) : f \in File \cup {"conf"}}

Keeps ==
    /\ cmd' \in Command
    /\ cmd'.name = cmd.name /\ cmd'.dry = cmd.dry /\ cmd'.mode = cmd.mode /\ cmd'.skip = cmd.skip
    /\ cmd'.num = cmd.num /\ cmd'.known = cmd.known /\ cmd'.running = cmd.running
    /\ cmd'.enabled = cmd.enabled /\ cmd'.keep = cmd.keep /\ cmd'.sure = cmd.sure

LEMMA RestDoes ==
    ASSUME Typed, NEW q \in Seq(Op), cmd' = [cmd EXCEPT !.todo = q]
    PROVE  Keeps /\ cmd'.todo = q
  BY DEF Typed, Command, Keeps

LEMMA HasOne ==
    ASSUME NEW a \in Op, NEW q \in Seq(Op), AllSteps(q), a[1] = "step"
    PROVE  /\ <<a>> \in Seq(Op) /\ <<a>> \o q \in Seq(Op) /\ AllSteps(<<a>> \o q)
           /\ \A o : Has(<<a>> \o q, o) <=> o = a \/ Has(q, o)
  <1>1. <<a>> \in Seq(Op) /\ Len(<<a>>) = 1 /\ <<a>>[1] = a
    OBVIOUS
  <1>2. \A o : Has(<<a>>, o) <=> o = a
    <2>1. \A i : i \in 1..Len(<<a>>) <=> i = 1
      BY <1>1
    <2> QED
      BY <1>1, <2>1, Zenon DEF Has
  <1>3. \A o : Has(<<a>> \o q, o) <=> o = a \/ Has(q, o)
    BY <1>1, <1>2, HasConcat
  <1>4. <<a>> \o q \in Seq(Op)
    BY <1>1
  <1>5. ASSUME NEW i \in 1..Len(<<a>> \o q) PROVE (<<a>> \o q)[i][1] = "step"
    <2>1. Has(<<a>> \o q, (<<a>> \o q)[i])
      BY <1>5 DEF Has
    <2>2. (<<a>> \o q)[i] = a \/ Has(q, (<<a>> \o q)[i])
      BY <1>3, <2>1
    <2> QED
      BY <2>2 DEF Has, AllSteps
  <1> QED
    BY <1>1, <1>3, <1>4, <1>5 DEF AllSteps

LEMMA NewList ==
    ASSUME NEW q \in Seq(Op), q # <<>>, Ordered(q), NEW new \in NewOps,
           new # <<>> => Head(q)[1] = "step"
    PROVE  /\ new \o Tail(q) \in Seq(Op) /\ Ordered(new \o Tail(q))
           /\ \A o : Has(new \o Tail(q), o) <=> Has(new, o) \/ Has(Tail(q), o)
           /\ \A s : Has(new, Step(s)) => s = "record"
           /\ \A f : Writes(new, f) => f \in File \cup {"conf"}
           /\ new = <<>> => new \o Tail(q) = Tail(q) /\ \A o : ~Has(new, o)
  <1> DEFINE t == Tail(q)
             re == Step("record")
  <1>1. t \in Seq(Op) /\ Ordered(t) /\ (Head(q)[1] = "step" => AllSteps(t))
    BY TailIndex, OrderedTail
  <1> HIDE DEF t
  <1>2. re \in Op /\ re[1] = "step" /\ \A f : re # <<"create", f>> /\ re # <<"write", f>>
    BY DEF Step, Op, OpNames
  <1>0. "cert" \in OpNames /\ "tkey" \in OpNames /\ "dkim" \in OpNames
    BY DEF OpNames
  <1>3. \A f, s : <<"create", f>> # Step(s) /\ <<"write", f>> # Step(s)
    BY DEF Step
  <1>4. \A s : re = Step(s) => s = "record"
    BY DEF Step
  <1> HIDE DEF re
  <1>5. CASE new = <<>>
    <2>1. new \o t = t /\ \A o : ~Has(new, o)
      BY <1>1, <1>5 DEF Has
    <2> QED
      BY <1>1, <1>5, <2>1 DEF t, Writes
  <1>6. CASE new = <<re>>
    <2>1. new # <<>> /\ AllSteps(t)
      BY <1>1, <1>6
    <2>2. <<re>> \o t \in Seq(Op) /\ AllSteps(<<re>> \o t) /\ \A o : Has(<<re>> \o t, o) <=> o = re \/ Has(t, o)
      BY <1>1, <1>2, <2>1, HasOne
    <2>3. \A o : Has(new, o) <=> o = re
      <3>1. \A i : i \in 1..Len(<<re>>) <=> i = 1
        OBVIOUS
      <3> QED
        BY <1>6, <3>1 DEF Has
    <2>4. Ordered(<<re>> \o t)
      BY <2>2, OrderedSteps
    <2> QED
      BY <1>2, <1>4, <1>6, <2>1, <2>2, <2>3, <2>4, Zenon DEF t, Writes
  <1>7. ASSUME NEW f \in File \cup {"conf"}, new = Write(f) PROVE
           /\ new # <<>> /\ new \o t \in Seq(Op) /\ Ordered(new \o t)
           /\ \A o : Has(new, o) <=> o \in {<<"create", f>>, <<"write", f>>}
           /\ \A o : Has(new \o t, o) <=> Has(new, o) \/ Has(t, o)
    <2>1. f \in OpNames
      BY DEF File, OpNames
    <2>2. new # <<>> /\ \A o : Has(new, o) <=> o \in {<<"create", f>>, <<"write", f>>}
      BY <1>7, <2>1, HasWrite
    <2>3. \A g : ~Writes(t, g)
      BY <1>1, <2>2, OrderedSteps
    <2> QED
      BY <1>1, <1>7, <2>1, <2>2, <2>3, OrderedWrite
  <1>8. ASSUME NEW f \in File \cup {"conf"}, new = Write(f) PROVE
           /\ \A s : Has(new, Step(s)) => s = "record"
           /\ \A g : Writes(new, g) => g \in File \cup {"conf"}
    BY <1>3, <1>7, <1>8 DEF Writes
  <1>9. CASE new = Write("cert") \o Write("tkey")
    <2> DEFINE a == Write("cert")
               b == Write("tkey")
    <2>1. /\ a \in Seq(Op) /\ b \in Seq(Op) /\ Len(a) = 2
          /\ \A o : Has(a, o) <=> o \in {<<"create", "cert">>, <<"write", "cert">>}
          /\ \A o : Has(b, o) <=> o \in {<<"create", "tkey">>, <<"write", "tkey">>}
      BY <1>0, HasWrite
    <2>2. new # <<>>
      <3>1. Len(a \o b) = Len(a) + Len(b) /\ Len(b) \in Nat
        BY <2>1, ConcatIndex, Zenon
      <3> HIDE DEF a, b
      <3>2. Len(a \o b) # 0
        BY <2>1, <3>1
      <3> QED
        BY <1>9, <3>2 DEF a, b
    <2>3. AllSteps(t) /\ \A g : ~Writes(t, g)
      BY <1>1, <2>2, OrderedSteps
    <2>4. b \o t \in Seq(Op) /\ Ordered(b \o t)
      BY <1>0, <1>1, <2>3, OrderedWrite
    <2>5. a \o (b \o t) \in Seq(Op) /\ Ordered(a \o (b \o t))
      BY <1>0, <2>4, OrderedWrite
    <2> HIDE DEF a, b
    <2>6. new \o t = a \o (b \o t) /\ new \in Seq(Op)
      BY <1>1, <1>9, <2>1, SMTT(30) DEF a, b
    <2>7. \A o : Has(new, o) <=> Has(a, o) \/ Has(b, o)
      BY <1>9, <2>1, HasConcat DEF a, b
    <2>8. \A o : Has(new \o t, o) <=> Has(new, o) \/ Has(t, o)
      BY <1>1, <2>6, HasConcat
    <2>9. \A s : ~Has(new, Step(s))
      BY <1>3, <2>1, <2>7
    <2>10. \A g : Writes(new, g) => g \in File \cup {"conf"}
      BY <2>1, <2>7 DEF Writes, File
    <2> QED
      BY <2>2, <2>5, <2>6, <2>8, <2>9, <2>10 DEF t
  <1>10. CASE new = Write("dkim") \o <<re>>
    <2> DEFINE a == Write("dkim")
               b == <<re>>
    <2>1. /\ a \in Seq(Op) /\ Len(a) = 2
          /\ \A o : Has(a, o) <=> o \in {<<"create", "dkim">>, <<"write", "dkim">>}
      BY <1>0, HasWrite
    <2>2. b \in Seq(Op)
      BY <1>2
    <2>3. new # <<>>
      BY <1>10, <2>1, <2>2
    <2>4. AllSteps(t)
      BY <1>1, <2>3
    <2>5. b \o t \in Seq(Op) /\ Ordered(b \o t) /\ \A g : ~Writes(b \o t, g)
      BY <1>1, <1>2, <2>4, HasOne, OrderedSteps
    <2>6. a \o (b \o t) \in Seq(Op) /\ Ordered(a \o (b \o t))
      BY <1>0, <2>5, OrderedWrite
    <2>7. \A o : Has(b, o) <=> o = re
      <3>1. \A i : i \in 1..Len(<<re>>) <=> i = 1
        OBVIOUS
      <3> QED
        BY <3>1 DEF Has
    <2> HIDE DEF a, b
    <2>8. new \o t = a \o (b \o t) /\ new \in Seq(Op)
      BY <1>1, <1>10, <2>1, <2>2 DEF a, b
    <2>9. \A o : Has(new, o) <=> Has(a, o) \/ Has(b, o)
      BY <1>10, <2>1, <2>2, HasConcat DEF a, b
    <2>10. \A o : Has(new \o t, o) <=> Has(new, o) \/ Has(t, o)
      BY <1>1, <2>8, HasConcat
    <2>11. \A s : Has(new, Step(s)) => s = "record"
      BY <1>3, <1>4, <2>1, <2>7, <2>9
    <2>12. \A g : Writes(new, g) => g \in File \cup {"conf"}
      BY <1>2, <2>1, <2>7, <2>9 DEF Writes, File
    <2> QED
      BY <2>3, <2>6, <2>8, <2>10, <2>11, <2>12 DEF t
  <1> QED
    BY <1>5, <1>6, <1>7, <1>8, <1>9, <1>10, Zenon DEF NewOps, t, re

(* One step of a command.                                                  *)
Advance(new) ==
    /\ Keeps /\ ListShape'
    /\ \A o : Has(cmd'.todo, o) => Has(new, o) \/ Has(cmd.todo, o)
    /\ \A o : Has(new, o) => Has(cmd'.todo, o)
    /\ \A o : Has(cmd.todo, o) /\ o # Head(cmd.todo) => Has(cmd'.todo, o)

LEMMA Advances ==
    ASSUME Typed, ListShape, cmd.todo # <<>>, NEW new \in NewOps, Rest(new),
           new # <<>> => Head(cmd.todo)[1] = "step" /\ cmd.name = "install"
    PROVE  Advance(new)
  <1> DEFINE q == cmd.todo
             t == Tail(q)
             p == new \o t
  <1>1. q \in Seq(Op) /\ Ordered(q) /\ (cmd.name # "install" => AllSteps(q))
    BY DEF Typed, Command, ListShape
  <1>2. cmd' = [cmd EXCEPT !.todo = p]
    BY DEF Rest
  <1> HIDE DEF q
  <1>3. /\ t \in Seq(Op) /\ Ordered(t) /\ (AllSteps(q) => AllSteps(t))
        /\ \A o : Has(q, o) <=> o = Head(q) \/ Has(t, o)
    BY <1>1, TailIndex, OrderedTail, HasTail DEF q
  <1>4. /\ p \in Seq(Op) /\ Ordered(p)
        /\ \A o : Has(p, o) <=> Has(new, o) \/ Has(t, o)
        /\ \A s : Has(new, Step(s)) => s = "record"
        /\ \A f : Writes(new, f) => f \in File \cup {"conf"}
        /\ new = <<>> => p = t /\ \A o : ~Has(new, o)
    BY <1>1, NewList DEF q
  <1>5. \A i \in 1..Len(t) : t[i] = q[i + 1] /\ i + 1 \in 2..Len(q)
    BY <1>1, TailIndex DEF q
  <1> HIDE DEF t, p
  <1>6. Keeps /\ cmd'.todo = p
    BY <1>2, <1>4, RestDoes
  <1>7. cmd'.name = cmd.name
    BY <1>6 DEF Keeps
  <1>8. cmd.name # "install" => AllSteps(p)
    BY <1>1, <1>3, <1>4 DEF q
  <1>9. ASSUME NEW s, Has(p, Step(s)) PROVE s \in StepNames(cmd.name)
    <2>1. CASE Has(new, Step(s))
      BY <1>4, <2>1 DEF StepNames
    <2>2. CASE Has(t, Step(s))
      BY <1>3, <2>2 DEF ListShape, ToDo, q
    <2> QED
      BY <1>4, <1>9, <2>1, <2>2
  <1>10. ASSUME NEW i \in 2..Len(p), p[i] = Step("stop") PROVE FALSE
    <2>1. i \in 1..Len(p)
      BY <1>4
    <2>2. "stop" \in StepNames(cmd.name)
      BY <1>9, <1>10, <2>1 DEF Has
    <2>3. cmd.name # "install"
      BY <2>2 DEF StepNames
    <2>4. p = t
      BY <1>4, <2>3
    <2>5. q[i + 1] = Step("stop") /\ i + 1 \in 2..Len(q)
      BY <1>5, <1>10, <2>1, <2>4
    <2> QED
      BY <2>5 DEF ListShape, q
  <1>11. ASSUME NEW f, Writes(p, f) PROVE f \in File \cup {"conf"}
    <2>1. CASE Writes(new, f)
      BY <1>4, <2>1
    <2>2. CASE Writes(t, f)
      BY <1>3, <2>2 DEF ListShape, Writing, Writes, q
    <2> QED
      BY <1>4, <1>11, <2>1, <2>2 DEF Writes
  <1>12. ListShape'
    BY <1>4, <1>6, <1>7, <1>8, <1>9, <1>10, <1>11 DEF ListShape, ToDo, Writing
  <1> QED
    BY <1>3, <1>4, <1>6, <1>12 DEF Advance, q

LEMMA AtDoes ==
    ASSUME Typed, ListShape, NEW s, At(s)
    PROVE  /\ cmd.todo # <<>> /\ ~cmd.dry /\ Head(cmd.todo) = Step(s) /\ Head(cmd.todo)[1] = "step"
           /\ ToDo(s) /\ s \in StepNames(cmd.name)
           /\ AllSteps(Tail(cmd.todo)) /\ \A f : ~Writing(f)
  <1>1. cmd.todo \in Seq(Op) /\ cmd.todo # <<>> /\ Head(cmd.todo) = Step(s) /\ ~cmd.dry /\ Ordered(cmd.todo)
    BY DEF Typed, Command, At, ListShape
  <1>2. Head(cmd.todo)[1] = "step"
    BY <1>1 DEF Step
  <1>3. AllSteps(Tail(cmd.todo)) /\ ToDo(s)
    BY <1>1, <1>2, OrderedTail, HasTail DEF ToDo
  <1>4. ASSUME NEW f, Writing(f) PROVE FALSE
    <2>1. ~Writes(Tail(cmd.todo), f)
      BY <1>1, <1>3, TailIndex, OrderedSteps
    <2>2. Head(cmd.todo) # <<"create", f>> /\ Head(cmd.todo) # <<"write", f>>
      BY <1>2
    <2> QED
      BY <1>1, <1>4, <2>1, <2>2, HasTail DEF Writing, Writes
  <1> QED
    BY <1>1, <1>2, <1>3, <1>4 DEF ListShape

LEMMA WhoseStep ==
    ASSUME Typed, NEW s, s \in StepNames(cmd.name)
    PROVE  /\ cmd.name # "none"
           /\ s \in StepNames("install") => cmd.name = "install"
           /\ s \in StepNames("upgrade") => cmd.name = "upgrade"
           /\ s \in StepNames("uninstall") => cmd.name = "uninstall"
  <1>1. cmd.name \in {"none", "install", "upgrade", "uninstall"}
    BY DEF Typed, Command
  <1> QED
    BY <1>1 DEF StepNames

LEMMA Plain ==
    ASSUME Typed, ListShape, cmd.todo # <<>>, Rest(<<>>)
    PROVE  Advance(<<>>) /\ \A o : ~Has(<<>>, o)
  <1>1. <<>> \in NewOps
    BY DEF NewOps
  <1> QED
    BY <1>1, Advances DEF Has

(* The steps that change nothing but the list.                             *)
Quiet(new) == OnlyCommand /\ Advance(new)

LEMMA InstallStep ==
    ASSUME Typed, ListShape, NEW s \in StepNames("install"), At(s), NEW new \in NewOps, Rest(new)
    PROVE  Advance(new) /\ cmd.name = "install" /\ ToDo(s) /\ ~cmd.dry /\ Head(cmd.todo) = Step(s)
  <1>1. /\ cmd.todo # <<>> /\ Head(cmd.todo)[1] = "step" /\ s \in StepNames(cmd.name) /\ ToDo(s)
        /\ ~cmd.dry /\ Head(cmd.todo) = Step(s)
    BY AtDoes
  <1>2. cmd.name = "install"
    BY <1>1, WhoseStep
  <1> QED
    BY <1>1, <1>2, Advances

LEMMA InstallSteps ==
    ASSUME Typed, ListShape
    PROVE  /\ checkSystemRequirements \/ createDirectories \/ setupPermissions => Quiet(<<>>)
           /\ setupCertificates => Quiet(IF cmd.mode = "self_signed" THEN Write("cert") \o Write("tkey")
                                         ELSE <<>>)
           /\ prepareDKIMKeys => Quiet(IF files["dns"] # 0 THEN <<>>
                                       ELSE IF files["dkim"] # 0 THEN <<Step("record")>>
                                       ELSE Write("dkim") \o <<Step("record")>>)
           /\ generateDKIMDNSRecord => Quiet(Write("dns"))
           /\ installSystemdFiles => Quiet(Write("unit"))
           /\ generateConfigFile => Quiet(Write("conf"))
           /\ installBinary => Quiet(Write("bin"))
           /\ installIrohRelay => Quiet(Write("iroh"))
  <1>1. <<>> \in NewOps /\ <<Step("record")>> \in NewOps /\ Write("cert") \o Write("tkey") \in NewOps
        /\ Write("dkim") \o <<Step("record")>> \in NewOps
    BY DEF NewOps
  <1>2. \A f \in File \cup {"conf"} : Write(f) \in NewOps
    BY DEF NewOps
  <1>3. {"check", "dirs", "certs", "dkim", "record", "unit", "conf", "perm", "bin", "iroh"}
           \subseteq StepNames("install")
    BY DEF StepNames
  <1>4. {"dns", "unit", "conf", "bin", "iroh"} \subseteq File \cup {"conf"}
    BY DEF File
  <1>5. checkSystemRequirements \/ createDirectories \/ setupPermissions => Quiet(<<>>)
    BY <1>1, <1>3, InstallStep DEF checkSystemRequirements, createDirectories, setupPermissions, Quiet
  <1>6. setupCertificates => Quiet(IF cmd.mode = "self_signed" THEN Write("cert") \o Write("tkey")
                                   ELSE <<>>)
    BY <1>1, <1>3, InstallStep DEF setupCertificates, Quiet
  <1>7. prepareDKIMKeys => Quiet(IF files["dns"] # 0 THEN <<>>
                                 ELSE IF files["dkim"] # 0 THEN <<Step("record")>>
                                 ELSE Write("dkim") \o <<Step("record")>>)
    BY <1>1, <1>3, InstallStep DEF prepareDKIMKeys, Quiet
  <1>8. generateConfigFile => Quiet(Write("conf"))
    BY <1>2, <1>3, <1>4, InstallStep DEF generateConfigFile, Quiet, Write
  <1> QED
    BY <1>2, <1>3, <1>4, <1>5, <1>6, <1>7, <1>8, InstallStep
       DEF generateDKIMDNSRecord, installSystemdFiles, installBinary, installIrohRelay, Quiet

LEMMA OtherSteps ==
    ASSUME Typed, ListShape, DryStep \/ VerifySignature \/ CopyTemporary
    PROVE  Quiet(<<>>)
  BY Plain DEF DryStep, VerifySignature, CopyTemporary, At, Quiet

-----------------------------------------------------------------------------
(* Types and shape.                                                        *)

Sound == Typed /\ Shape /\ GenShape

LEMMA SoundQuiet ==
    ASSUME Sound, NEW new, Quiet(new)
    PROVE  Sound'
  <1>1. Typed'
    BY DEF Sound, Typed, Quiet, OnlyCommand, Advance, Keeps, Command, ConfigFile, Server, Op, OpNames, Modes
  <1>2. Shape'
    BY DEF Sound, Shape, Quiet, OnlyCommand, Advance, Keeps
  <1> QED
    BY <1>1, <1>2 DEF Sound, GenShape, Quiet, OnlyCommand

OthersTyped ==
    /\ files \in [File -> Nat \cup {Torn}]
    /\ conf \in ConfigFile /\ pending \in ConfigFile
    /\ host \in [user : BOOLEAN, data : BOOLEAN, custom : BOOLEAN]
    /\ db \in [port : Nat, flag : Nat]
    /\ svc \in [active : BOOLEAN, enabled : BOOLEAN]
    /\ srv \in Server
    /\ ghost \in Memory
    /\ count \in [cmds : Nat, gen : Nat, sets : Nat, reloads : Nat, faults : Nat]

LEMMA SoundMoves ==
    ASSUME Sound, OthersTyped', GenShape', Advance(<<>>), ghost'.last = ghost.last
    PROVE  Sound'
  <1>1. Typed'
    BY DEF Typed, OthersTyped, Advance, Keeps
  <1>2. Shape'
    BY DEF Sound, Shape, Advance, Keeps
  <1> QED
    BY <1>1, <1>2 DEF Sound

LEMMA SoundOthers ==
    ASSUME Sound, OthersTyped', GenShape', UNCHANGED cmd, ghost'.last = ghost.last \/ ghost'.last \in {"none", "failed"}
    PROVE  Sound'
  <1>1. Typed'
    BY DEF Sound, Typed, OthersTyped
  <1>2. ListShape'
    BY DEF Sound, Shape, ListShape, ToDo, Writing
  <1>3. Shape'
    BY <1>2 DEF Sound, Shape
  <1> QED
    BY <1>1, <1>3 DEF Sound

LEMMA Constants ==
    /\ NoConf \in ConfigFile /\ NoConf.st = 0 /\ NoConf.port = 0
    /\ [NoConf EXCEPT !.st = Torn] \in ConfigFile /\ [NoConf EXCEPT !.st = Torn].st = Torn
    /\ Off \in Server /\ Off.st = "off"
    /\ [Off EXCEPT !.st = "start"] \in Server /\ [Off EXCEPT !.st = "start"].st = "start"
    /\ Torn # 0 /\ Torn # 1 /\ ~(Torn > 0)
  <1>1. "none" \in Modes
    BY DEF Modes
  <1> HIDE DEF Modes
  <1>2. NoConf \in ConfigFile /\ NoConf.st = 0 /\ NoConf.port = 0
    BY <1>1 DEF NoConf, ConfigFile
  <1>3. [NoConf EXCEPT !.st = Torn] \in ConfigFile /\ [NoConf EXCEPT !.st = Torn].st = Torn
    BY <1>1 DEF NoConf, ConfigFile
  <1>4. Off \in Server /\ Off.st = "off"
    BY <1>1 DEF Off, Server
  <1>5. [Off EXCEPT !.st = "start"] \in Server /\ [Off EXCEPT !.st = "start"].st = "start"
    BY <1>4 DEF Server
  <1> QED
    BY <1>2, <1>3, <1>4, <1>5 DEF Torn

(* What the steps do to each variable.                                     *)
Stops ==
    /\ svc' \in [active : BOOLEAN, enabled : BOOLEAN] /\ ~svc'.active
    /\ srv' = Off
    /\ ghost' \in Memory
    /\ ghost'.last = ghost.last /\ ghost'.asked = ghost.asked /\ ghost'.raced = ghost.raced
    /\ ghost'.cut <=> ghost.cut \/ srv.st = "gen"

LEMMA StopDoes ==
    ASSUME Typed, SystemctlStop
    PROVE  Stops
  <1>1. svc' \in [active : BOOLEAN, enabled : BOOLEAN] /\ ~svc'.active
    BY DEF Typed, SystemctlStop
  <1> DEFINE c == ghost.cut \/ srv.st = "gen"
  <1>2. c \in BOOLEAN
    OBVIOUS
  <1>3. ghost' = [ghost EXCEPT !.cut = c]
    BY DEF SystemctlStop
  <1> HIDE DEF c
  <1>4. /\ ghost' \in Memory
        /\ ghost'.last = ghost.last /\ ghost'.asked = ghost.asked /\ ghost'.raced = ghost.raced
        /\ ghost'.cut = c
    BY <1>2, <1>3 DEF Typed, Memory
  <1> QED
    BY <1>1, <1>4 DEF Stops, SystemctlStop, c

SetsFile(f, v) ==
    /\ files' \in [File -> Nat \cup {Torn}]
    /\ files'[f] = v /\ \A g \in File \ {f} : files'[g] = files[g]

LEMMA SetFile ==
    ASSUME Typed, NEW f \in File, NEW v \in Nat \cup {Torn}, files' = [files EXCEPT ![f] = v]
    PROVE  SetsFile(f, v)
  BY DEF Typed, SetsFile

Goes ==
    /\ files' \in [File -> Nat \cup {Torn}]
    /\ files'["dkim"] = 0 /\ files'["dns"] = 0 /\ \A g \in File \ {"dkim", "dns"} : files'[g] = files[g]
    /\ pending' = NoConf
    /\ db' \in [port : Nat, flag : Nat] /\ db'.port = 0
    /\ ghost' \in Memory
    /\ ghost'.asked = 0 /\ ghost'.last = ghost.last /\ ghost'.cut = ghost.cut /\ ghost'.raced = ghost.raced

LEMMA StateGoneDoes ==
    ASSUME Typed, StateGone
    PROVE  Goes
  <1>1. /\ files' \in [File -> Nat \cup {Torn}]
        /\ files'["dkim"] = 0 /\ files'["dns"] = 0 /\ \A g \in File \ {"dkim", "dns"} : files'[g] = files[g]
    BY DEF Typed, StateGone, File
  <1>2. db' \in [port : Nat, flag : Nat] /\ db'.port = 0
    BY DEF StateGone
  <1>3. /\ ghost' \in Memory
        /\ ghost'.asked = 0 /\ ghost'.last = ghost.last /\ ghost'.cut = ghost.cut /\ ghost'.raced = ghost.raced
    BY DEF Typed, StateGone, Memory
  <1> QED
    BY <1>1, <1>2, <1>3 DEF Goes, StateGone

LEMMA HeadOp ==
    ASSUME Typed, ListShape, cmd.todo # <<>>, NEW k \in {"create", "write"}, Head(cmd.todo)[1] = k
    PROVE  \E f \in File \cup {"conf"} : /\ f = Head(cmd.todo)[2]
                                         /\ Head(cmd.todo) = <<k, f>> /\ cmd.name = "install"
                                         /\ Writing(f) /\ (k = "create" => Has(Tail(cmd.todo), <<"write", f>>))
  <1> DEFINE f == Head(cmd.todo)[2]
  <1>1. cmd.todo \in Seq(Op) /\ Ordered(cmd.todo)
    BY DEF Typed, Command, ListShape
  <1>2. Head(cmd.todo) = <<k, f>>
    <2>1. Head(cmd.todo) \in Op
      BY <1>1, TailIndex
    <2> QED
      BY <2>1 DEF Op
  <1> HIDE DEF f
  <1>3. Has(cmd.todo, <<k, f>>)
    BY <1>1, <1>2, HasTail
  <1>4. Writing(f) /\ f \in File \cup {"conf"}
    BY <1>3 DEF Writing, Writes, ListShape
  <1>5. cmd.name = "install"
    BY <1>3 DEF ListShape, AllSteps, Has
  <1>6. k = "create" => Has(Tail(cmd.todo), <<"write", f>>)
    BY <1>1, <1>2, OrderedTail
  <1> QED
    BY <1>2, <1>4, <1>5, <1>6 DEF f

(* A file of an installation is created, or written.                       *)
Puts(k, f, v, st) ==
    /\ cmd.todo # <<>> /\ Head(cmd.todo) = <<k, f>> /\ cmd.name = "install" /\ ~cmd.dry
    /\ Advance(<<>>) /\ Writing(f)
    /\ f # "conf" => SetsFile(f, v) /\ UNCHANGED conf /\ ghost'.asked = ghost.asked
    /\ f = "conf" => UNCHANGED files /\ conf' \in ConfigFile /\ conf'.st = st /\ ghost'.asked = 0
    /\ ghost' \in Memory
    /\ ghost'.last = ghost.last /\ ghost'.cut = ghost.cut /\ ghost'.raced = ghost.raced
    /\ UNCHANGED <<pending, host, db, svc, srv, count>>

LEMMA AskedDoes ==
    ASSUME Typed, NEW b, ghost' = [ghost EXCEPT !.asked = IF b THEN 0 ELSE @]
    PROVE  /\ ghost' \in Memory /\ ghost'.asked = IF b THEN 0 ELSE ghost.asked
           /\ ghost'.last = ghost.last /\ ghost'.cut = ghost.cut /\ ghost'.raced = ghost.raced
  <1> DEFINE v == IF b THEN 0 ELSE ghost.asked
  <1>1. v \in Nat
    BY DEF Typed, Memory
  <1>2. ghost' = [ghost EXCEPT !.asked = v]
    OBVIOUS
  <1> HIDE DEF v
  <1>3. /\ ghost' \in Memory /\ ghost'.asked = v
        /\ ghost'.last = ghost.last /\ ghost'.cut = ghost.cut /\ ghost'.raced = ghost.raced
    BY <1>1, <1>2 DEF Typed, Memory
  <1> QED
    BY <1>3 DEF v

LEMMA CreateFileDoes ==
    ASSUME Typed, ListShape, CreateFile
    PROVE  \E f \in File \cup {"conf"} : /\ Puts("create", f, Torn, Torn)
                                         /\ Has(cmd'.todo, <<"write", f>>)
                                         /\ f = "dkim" => files["dkim"] = 0
  <1>1. /\ cmd.todo # <<>> /\ ~cmd.dry /\ Head(cmd.todo)[1] = "create" /\ Rest(<<>>)
        /\ generateDKIMKeyPair(Head(cmd.todo)[2])
        /\ IF Head(cmd.todo)[2] = "conf"
           THEN conf' = [NoConf EXCEPT !.st = Torn] /\ UNCHANGED files
           ELSE files' = [files EXCEPT ![Head(cmd.todo)[2]] = Torn] /\ UNCHANGED conf
        /\ ghost' = [ghost EXCEPT !.asked = IF Head(cmd.todo)[2] = "conf" THEN 0 ELSE @]
        /\ UNCHANGED <<pending, host, db, svc, srv, count>>
    BY DEF CreateFile
  <1>2. PICK f \in File \cup {"conf"} : /\ f = Head(cmd.todo)[2]
                                        /\ Head(cmd.todo) = <<"create", f>> /\ cmd.name = "install"
                                        /\ Writing(f) /\ Has(Tail(cmd.todo), <<"write", f>>)
    BY <1>1, HeadOp
  <1>3. Advance(<<>>)
    BY <1>1, Plain
  <1>4. Has(cmd'.todo, <<"write", f>>)
    <2>1. Has(cmd.todo, <<"write", f>>) /\ <<"write", f>> # Head(cmd.todo)
      BY <1>1, <1>2, HasTail DEF Typed, Command
    <2> QED
      BY <1>3, <2>1 DEF Advance
  <1>5. f # "conf" => SetsFile(f, Torn)
    BY <1>1, <1>2, SetFile
  <1>6. f = "conf" => conf' \in ConfigFile /\ conf'.st = Torn
    BY <1>1, <1>2, Constants
  <1>7. /\ ghost' \in Memory /\ ghost'.asked = IF f = "conf" THEN 0 ELSE ghost.asked
        /\ ghost'.last = ghost.last /\ ghost'.cut = ghost.cut /\ ghost'.raced = ghost.raced
    BY <1>1, <1>2, AskedDoes
  <1> QED
    BY <1>1, <1>2, <1>3, <1>4, <1>5, <1>6, <1>7 DEF Puts, generateDKIMKeyPair

LEMMA WriteFileDoes ==
    ASSUME Typed, ListShape, WriteFile
    PROVE  \E f \in File \cup {"conf"} : /\ Puts("write", f, Contents(f), 1)
                                         /\ Contents(f) \in Nat \cup {Torn}
  <1>1. /\ cmd.todo # <<>> /\ ~cmd.dry /\ Head(cmd.todo)[1] = "write" /\ Rest(<<>>)
        /\ IF Head(cmd.todo)[2] = "conf"
           THEN conf' = [st |-> 1, port |-> 1, mode |-> cmd.mode] /\ UNCHANGED files
           ELSE files' = [files EXCEPT ![Head(cmd.todo)[2]] = Contents(Head(cmd.todo)[2])] /\ UNCHANGED conf
        /\ ghost' = [ghost EXCEPT !.asked = IF Head(cmd.todo)[2] = "conf" THEN 0 ELSE @]
        /\ UNCHANGED <<pending, host, db, svc, srv, count>>
    BY DEF WriteFile
  <1>2. PICK f \in File \cup {"conf"} : /\ f = Head(cmd.todo)[2]
                                        /\ Head(cmd.todo) = <<"write", f>> /\ cmd.name = "install"
                                        /\ Writing(f)
    BY <1>1, HeadOp
  <1>3. Advance(<<>>)
    BY <1>1, Plain
  <1>4. Contents(f) \in Nat \cup {Torn}
    BY DEF Contents, Typed, Command, File
  <1>5. f # "conf" => SetsFile(f, Contents(f))
    BY <1>1, <1>2, <1>4, SetFile
  <1>6. f = "conf" => conf' \in ConfigFile /\ conf'.st = 1
    <2>1. cmd.mode \in Modes
      BY DEF Typed, Command
    <2> QED
      BY <1>1, <1>2, <2>1 DEF ConfigFile
  <1>7. /\ ghost' \in Memory /\ ghost'.asked = IF f = "conf" THEN 0 ELSE ghost.asked
        /\ ghost'.last = ghost.last /\ ghost'.cut = ghost.cut /\ ghost'.raced = ghost.raced
    BY <1>1, <1>2, AskedDoes
  <1> QED
    BY <1>1, <1>2, <1>3, <1>4, <1>5, <1>6, <1>7 DEF Puts

HostTyped == host \in [user : BOOLEAN, data : BOOLEAN, custom : BOOLEAN]
SvcTyped == svc \in [active : BOOLEAN, enabled : BOOLEAN]

LEMMA UserDoes ==
    ASSUME Typed, ListShape, createMaddyUser
    PROVE  /\ Advance(<<>>) /\ HostTyped' /\ host'.data = host.data
           /\ UNCHANGED <<files, conf, pending, db, svc, srv, ghost, count>>
  BY Plain DEF createMaddyUser, At, Typed, HostTyped

LEMMA UpgradeDoes ==
    ASSUME Typed, ListShape
    PROVE  /\ StopForUpgrade => /\ Advance(<<>>) /\ cmd.name = "upgrade" /\ Stops
                                /\ UNCHANGED <<files, conf, pending, host, db, count>>
           /\ performUpgrade => /\ Advance(<<>>) /\ cmd.name = "upgrade" /\ SetsFile("bin", cmd.num)
                                /\ UNCHANGED <<conf, pending, host, db, svc, srv, ghost, count>>
           /\ StartAfterUpgrade => /\ Advance(<<>>) /\ cmd.name = "upgrade" /\ SvcTyped'
                                   /\ svc'.active <=> files["unit"] > 0
                                   /\ UNCHANGED <<files, conf, pending, host, db, srv, ghost, count>>
  <1>1. ASSUME NEW s \in StepNames("upgrade"), At(s), Rest(<<>>) PROVE Advance(<<>>) /\ cmd.name = "upgrade"
    BY <1>1, Plain, AtDoes, WhoseStep
  <1>2. "halt" \in StepNames("upgrade") /\ "rename" \in StepNames("upgrade") /\ "start" \in StepNames("upgrade")
    BY DEF StepNames
  <1>3. StopForUpgrade => /\ Advance(<<>>) /\ cmd.name = "upgrade" /\ Stops
                          /\ UNCHANGED <<files, conf, pending, host, db, count>>
    BY <1>1, <1>2, StopDoes DEF StopForUpgrade
  <1>4. performUpgrade => SetsFile("bin", cmd.num)
    BY SetFile DEF performUpgrade, Typed, Command, File
  <1>5. performUpgrade => /\ Advance(<<>>) /\ cmd.name = "upgrade"
                          /\ UNCHANGED <<conf, pending, host, db, svc, srv, ghost, count>>
    BY <1>1, <1>2 DEF performUpgrade
  <1>6. ASSUME StartAfterUpgrade PROVE SvcTyped' /\ (svc'.active <=> files["unit"] > 0)
    <2> DEFINE b == files["unit"] > 0
    <2>1. b \in BOOLEAN
      OBVIOUS
    <2>2. svc' = [svc EXCEPT !.active = b]
      BY <1>6 DEF StartAfterUpgrade
    <2> HIDE DEF b
    <2>3. SvcTyped' /\ svc'.active = b
      BY <2>1, <2>2 DEF Typed, SvcTyped
    <2> QED
      BY <2>3 DEF b
  <1>7. StartAfterUpgrade => /\ Advance(<<>>) /\ cmd.name = "upgrade"
                             /\ UNCHANGED <<files, conf, pending, host, db, srv, ghost, count>>
    BY <1>1, <1>2 DEF StartAfterUpgrade
  <1> QED
    BY <1>3, <1>4, <1>5, <1>6, <1>7

(* A step of an uninstallation.                                            *)
Removes(s) == Advance(<<>>) /\ cmd.name = "uninstall" /\ ~cmd.dry /\ Head(cmd.todo) = Step(s) /\ ToDo(s)

LEMMA RemoveStep ==
    ASSUME Typed, ListShape, Rest(<<>>),
           NEW s \in {"stop", "disable", "units", "rmconf", "rmstate", "rmbin", "rmuser"}, At(s)
    PROVE  Removes(s)
  <1>1. s \in StepNames("uninstall")
    BY DEF StepNames
  <1> QED
    BY <1>1, Plain, AtDoes, WhoseStep DEF Removes

LEMMA stopServiceDoes ==
    ASSUME Typed, ListShape, stopService
    PROVE  /\ Removes("stop") /\ UNCHANGED <<files, conf, pending, host, db, count>>
           /\ (cmd.running /\ Stops) \/ (~cmd.running /\ UNCHANGED <<svc, srv, ghost>>)
  BY RemoveStep, StopDoes DEF stopService

LEMMA disableServiceDoes ==
    ASSUME Typed, ListShape, disableService
    PROVE  /\ Removes("disable") /\ SvcTyped' /\ svc'.active = svc.active
           /\ UNCHANGED <<files, conf, pending, host, db, srv, ghost, count>>
  <1>1. Removes("disable") /\ UNCHANGED <<files, conf, pending, host, db, srv, ghost, count>>
    BY RemoveStep DEF disableService
  <1> DEFINE b == svc.enabled /\ ~cmd.enabled
  <1>2. b \in BOOLEAN
    OBVIOUS
  <1>3. svc' = [svc EXCEPT !.enabled = b]
    BY DEF disableService
  <1> HIDE DEF b
  <1> QED
    BY <1>1, <1>2, <1>3 DEF Typed, SvcTyped

LEMMA removeSystemdFilesDoes ==
    ASSUME Typed, ListShape, removeSystemdFiles
    PROVE  /\ Removes("units") /\ UNCHANGED <<conf, pending, host, db, svc, srv, ghost>>
           /\ SetsFile("unit", 0) \/ UNCHANGED files
           /\ count' \in [cmds : Nat, gen : Nat, sets : Nat, reloads : Nat, faults : Nat]
  <1>1. Removes("units") /\ UNCHANGED <<conf, pending, host, db, svc, srv, ghost>>
    BY RemoveStep DEF removeSystemdFiles
  <1>2. SetsFile("unit", 0) \/ UNCHANGED files
    BY SetFile DEF removeSystemdFiles, File
  <1>3. count' \in [cmds : Nat, gen : Nat, sets : Nat, reloads : Nat, faults : Nat]
    BY DEF removeSystemdFiles, Typed
  <1> QED
    BY <1>1, <1>2, <1>3

LEMMA removeConfigFilesDoes ==
    ASSUME Typed, ListShape, removeConfigFiles
    PROVE  /\ Removes("rmconf") /\ UNCHANGED <<pending, host, db, svc, srv, ghost, count>>
           /\ cmd.known => conf' = NoConf
           /\ conf' = NoConf \/ UNCHANGED conf
           /\ files' \in [File -> Nat \cup {Torn}]
           /\ \A g \in File \ {"cert", "tkey"} : files'[g] = files[g]
  <1>1. Removes("rmconf") /\ UNCHANGED <<pending, host, db, svc, srv, ghost, count>>
    BY RemoveStep DEF removeConfigFiles
  <1>2. /\ files' \in [File -> Nat \cup {Torn}]
        /\ \A g \in File \ {"cert", "tkey"} : files'[g] = files[g]
    BY DEF Typed, removeConfigFiles, File
  <1>3. (cmd.known => conf' = NoConf) /\ (conf' = NoConf \/ UNCHANGED conf)
    BY DEF removeConfigFiles
  <1> QED
    BY <1>1, <1>2, <1>3

LEMMA removeStateDirDoes ==
    ASSUME Typed, ListShape, removeStateDir
    PROVE  /\ Removes("rmstate") /\ UNCHANGED <<conf, svc, srv, count>> /\ HostTyped'
           /\ (Goes /\ ~host'.data) \/ (~cmd.known /\ UNCHANGED <<files, pending, db, host, ghost>>)
  <1>1. Removes("rmstate") /\ UNCHANGED <<conf, svc, srv, count>>
    BY RemoveStep DEF removeStateDir
  <1>2. cmd.known => HostTyped' /\ Goes /\ ~host'.data
    BY StateGoneDoes DEF removeStateDir, Typed, HostTyped
  <1>3. ~cmd.known => HostTyped' /\ UNCHANGED <<files, pending, db, host, ghost>>
    BY DEF removeStateDir, Typed, HostTyped
  <1> QED
    BY <1>1, <1>2, <1>3

LEMMA removeBinaryDoes ==
    ASSUME Typed, ListShape, removeBinary
    PROVE  /\ Removes("rmbin") /\ UNCHANGED <<conf, pending, host, db, svc, srv, ghost, count>>
           /\ files' \in [File -> Nat \cup {Torn}] /\ files'["bin"] = 0
           /\ \A g \in File \ {"bin", "iroh"} : files'[g] = files[g]
  <1>1. Removes("rmbin") /\ UNCHANGED <<conf, pending, host, db, svc, srv, ghost, count>>
    BY RemoveStep DEF removeBinary
  <1>2. /\ files' \in [File -> Nat \cup {Torn}] /\ files'["bin"] = 0
        /\ \A g \in File \ {"bin", "iroh"} : files'[g] = files[g]
    BY DEF Typed, removeBinary, File
  <1> QED
    BY <1>1, <1>2

LEMMA removeUserDoes ==
    ASSUME Typed, ListShape, removeUser
    PROVE  /\ Removes("rmuser") /\ UNCHANGED <<conf, svc, srv, count>> /\ HostTyped'
           /\ (Goes /\ ~host'.data) \/ UNCHANGED <<files, pending, db, host, ghost>>
  <1>1. Removes("rmuser") /\ UNCHANGED <<conf, svc, srv, count>>
    BY RemoveStep DEF removeUser
  <1> DEFINE b == host.user /\ srv.st = "off"
  <1>2. ASSUME b PROVE HostTyped' /\ Goes /\ ~host'.data
    BY <1>2, StateGoneDoes DEF removeUser, Typed, HostTyped
  <1>3. ASSUME ~b PROVE HostTyped' /\ UNCHANGED <<files, pending, db, host, ghost>>
    BY <1>3 DEF removeUser, Typed, HostTyped
  <1> QED
    BY <1>1, <1>2, <1>3

(* The steps a command starts with.                                        *)
LEMMA NameLists ==
    ASSUME NEW a, NEW b
    PROVE  /\ \A x : ~Has(<<>>, x)
           /\ \A x : Has(<<a>>, x) <=> x = a
           /\ \A x : Has(<<a, b>>, x) <=> x = a \/ x = b
  <1>1. \A x : ~Has(<<>>, x)
    BY DEF Has
  <1>2. \A x : Has(<<a>>, x) <=> x = a
    <2>1. <<a>>[1] = a /\ \A i : i \in 1..Len(<<a>>) <=> i = 1
      OBVIOUS
    <2> QED
      BY <2>1, Zenon DEF Has
  <1>3. \A x : Has(<<a, b>>, x) <=> x = a \/ x = b
    <2>1. <<a, b>>[1] = a /\ <<a, b>>[2] = b /\ \A i : i \in 1..Len(<<a, b>>) <=> i = 1 \/ i = 2
      OBVIOUS
    <2> QED
      BY <2>1, Zenon DEF Has
  <1> QED
    BY <1>1, <1>2, <1>3

LEMMA InstallList ==
    ASSUME NEW o \in InstallOpts
    PROVE  /\ installSteps(o) \in Seq(OpNames)
           /\ \A x : Has(installSteps(o), x) => x \in StepNames("install")
           /\ \A x \in {"certs", "dkim", "conf", "bin"} : Has(installSteps(o), x)
           /\ o.skip \/ Has(installSteps(o), "unit")
  <1> DEFINE a == IF o.skip THEN <<>> ELSE <<"check", "user">>
             b == <<"dirs", "certs", "dkim">>
             c == IF o.skip THEN <<>> ELSE <<"unit">>
             d == <<"conf", "perm", "bin">>
             e == IF o.iroh THEN <<"iroh">> ELSE <<>>
  <1>1. installSteps(o) = (((a \o b) \o c) \o d) \o e
    BY DEF installSteps
  <1>2. a \in Seq(OpNames) /\ b \in Seq(OpNames) /\ c \in Seq(OpNames) /\ d \in Seq(OpNames) /\ e \in Seq(OpNames)
    <2>1. {"check", "user", "dirs", "certs", "dkim", "unit", "conf", "perm", "bin", "iroh"} \subseteq OpNames
      BY DEF OpNames
    <2>2. a \in Seq(OpNames)
      BY <2>1
    <2>3. b \in Seq(OpNames)
      BY <2>1
    <2>4. c \in Seq(OpNames)
      BY <2>1
    <2>5. d \in Seq(OpNames)
      BY <2>1
    <2>6. e \in Seq(OpNames)
      BY <2>1
    <2> QED
      BY <2>2, <2>3, <2>4, <2>5, <2>6
  <1>3. /\ \A x : Has(a, x) => x \in {"check", "user"}
        /\ \A x : Has(b, x) <=> x \in {"dirs", "certs", "dkim"}
        /\ \A x : Has(c, x) <=> ~o.skip /\ x = "unit"
        /\ \A x : Has(d, x) <=> x \in {"conf", "perm", "bin"}
        /\ \A x : Has(e, x) => x = "iroh"
    <2>1. \A x : Has(a, x) => x \in {"check", "user"}
      BY NameLists
    <2>2. \A x : Has(b, x) <=> x \in {"dirs", "certs", "dkim"}
      <3>1. /\ b[1] = "dirs" /\ b[2] = "certs" /\ b[3] = "dkim"
            /\ \A i : i \in 1..Len(b) <=> i = 1 \/ i = 2 \/ i = 3
        OBVIOUS
      <3> HIDE DEF b
      <3>2. \A x : Has(b, x) <=> x = "dirs" \/ x = "certs" \/ x = "dkim"
        BY <3>1 DEF Has
      <3> QED
        BY <3>2
    <2>3. \A x : Has(c, x) <=> ~o.skip /\ x = "unit"
      BY NameLists
    <2>4. \A x : Has(d, x) <=> x \in {"conf", "perm", "bin"}
      <3>1. /\ d[1] = "conf" /\ d[2] = "perm" /\ d[3] = "bin"
            /\ \A i : i \in 1..Len(d) <=> i = 1 \/ i = 2 \/ i = 3
        OBVIOUS
      <3> HIDE DEF d
      <3>2. \A x : Has(d, x) <=> x = "conf" \/ x = "perm" \/ x = "bin"
        BY <3>1 DEF Has
      <3> QED
        BY <3>2
    <2>5. \A x : Has(e, x) => x = "iroh"
      BY NameLists
    <2> QED
      BY <2>1, <2>2, <2>3, <2>4, <2>5
  <1> HIDE DEF a, b, c, d, e
  <1>4. a \o b \in Seq(OpNames) /\ \A x : Has(a \o b, x) <=> Has(a, x) \/ Has(b, x)
    BY <1>2, SeqConcat, SeqHas, Zenon
  <1> DEFINE f == a \o b
  <1> HIDE DEF f
  <1>5. f \o c \in Seq(OpNames) /\ \A x : Has(f \o c, x) <=> Has(f, x) \/ Has(c, x)
    BY <1>2, <1>4, SeqConcat, SeqHas, Zenon DEF f
  <1> DEFINE g == f \o c
  <1> HIDE DEF g
  <1>6. g \o d \in Seq(OpNames) /\ \A x : Has(g \o d, x) <=> Has(g, x) \/ Has(d, x)
    BY <1>2, <1>5, SeqConcat, SeqHas, Zenon DEF g
  <1> DEFINE h == g \o d
  <1> HIDE DEF h
  <1>7. h \o e \in Seq(OpNames) /\ \A x : Has(h \o e, x) <=> Has(h, x) \/ Has(e, x)
    BY <1>2, <1>6, SeqConcat, SeqHas, Zenon DEF h
  <1>8. installSteps(o) = h \o e
    BY <1>1 DEF f, g, h
  <1>9. \A x : Has(h \o e, x) <=> Has(a, x) \/ Has(b, x) \/ Has(c, x) \/ Has(d, x) \/ Has(e, x)
    BY <1>4, <1>5, <1>6, <1>7 DEF f, g, h
  <1> QED
    BY <1>3, <1>7, <1>8, <1>9 DEF StepNames

LEMMA UpgradeList ==
    LET q == <<"verify", "halt", "copy", "rename", "start">> IN
        q \in Seq(OpNames) /\ \A x : Has(q, x) => x \in StepNames("upgrade")
  <1> DEFINE q == <<"verify", "halt", "copy", "rename", "start">>
  <1>1. Len(q) = 5 /\ q \in Seq(OpNames)
    BY DEF OpNames
  <1>2. \A i \in 1..5 : q[i] \in {"verify", "halt", "copy", "rename", "start"}
    OBVIOUS
  <1> QED
    BY <1>1, <1>2 DEF Has, StepNames

LEMMA StopFirst ==
    ASSUME NEW p \in Seq(OpNames), NEW q \in Seq(OpNames), \A i \in 2..Len(p) : p[i] # "stop",
           ~Has(q, "stop"), Len(p) > 0
    PROVE  (\A i \in 2..Len(p \o q) : (p \o q)[i] # "stop") /\ Len(p \o q) > 0
  <1> DEFINE t == p \o q
  <1>1. /\ t \in Seq(OpNames) /\ Len(t) = Len(p) + Len(q) /\ Len(p) \in Nat /\ Len(q) \in Nat
        /\ \A i \in 1..Len(p) : t[i] = p[i]
        /\ \A i \in 1..Len(q) : t[Len(p) + i] = q[i]
        /\ \A i \in 1..Len(t) : i \in 1..Len(p) \/ (i - Len(p)) \in 1..Len(q)
    BY SeqConcat, Zenon
  <1> HIDE DEF t
  <1>2. ASSUME NEW i \in 2..Len(t) PROVE t[i] # "stop"
    <2>0. i \in 1..Len(t)
      BY <1>1
    <2>1. CASE i \in 1..Len(p)
      <3>1. i \in 2..Len(p) /\ t[i] = p[i]
        BY <1>1, <2>1
      <3> QED
        BY <3>1
    <2>2. CASE i - Len(p) \in 1..Len(q)
      <3>1. t[Len(p) + (i - Len(p))] = q[i - Len(p)]
        BY <1>1, <2>2
      <3>2. Len(p) + (i - Len(p)) = i
        BY <1>1, <2>0
      <3> QED
        BY <2>2, <3>1, <3>2 DEF Has
    <2> QED
      BY <1>1, <2>0, <2>1, <2>2
  <1>3. Len(t) > 0
    BY <1>1
  <1> QED
    BY <1>2, <1>3 DEF t

LEMMA UninstallList ==
    ASSUME NEW k
    PROVE  /\ uninstallSteps(k) \in Seq(OpNames)
           /\ \A x : Has(uninstallSteps(k), x) => x \in StepNames("uninstall")
           /\ k = {} => \A x \in {"rmconf", "rmstate", "rmbin"} : Has(uninstallSteps(k), x)
           /\ Has(uninstallSteps(k), "stop")
           /\ \A i \in 2..Len(uninstallSteps(k)) : uninstallSteps(k)[i] # "stop"
  <1> DEFINE a == <<"stop", "disable", "units">>
             b == IF "config" \in k THEN <<>> ELSE <<"rmconf">>
             c == IF "data" \in k THEN <<>> ELSE <<"rmstate">>
             d == IF "binary" \in k THEN <<>> ELSE <<"rmbin">>
             e == IF "user" \in k THEN <<>> ELSE <<"rmuser">>
  <1>1. uninstallSteps(k) = (((a \o b) \o c) \o d) \o e
    BY DEF uninstallSteps
  <1>2. a \in Seq(OpNames) /\ b \in Seq(OpNames) /\ c \in Seq(OpNames) /\ d \in Seq(OpNames) /\ e \in Seq(OpNames)
    <2>1. {"stop", "disable", "units", "rmconf", "rmstate", "rmbin", "rmuser"} \subseteq OpNames
      BY DEF OpNames
    <2>2. a \in Seq(OpNames)
      BY <2>1
    <2>3. b \in Seq(OpNames)
      BY <2>1
    <2>4. c \in Seq(OpNames)
      BY <2>1
    <2>5. d \in Seq(OpNames)
      BY <2>1
    <2>6. e \in Seq(OpNames)
      BY <2>1
    <2> QED
      BY <2>2, <2>3, <2>4, <2>5, <2>6
  <1>3. /\ a[1] = "stop" /\ a[2] = "disable" /\ a[3] = "units" /\ Len(a) = 3
        /\ \A x : Has(a, x) <=> x \in {"stop", "disable", "units"}
    <2>1. /\ a[1] = "stop" /\ a[2] = "disable" /\ a[3] = "units" /\ Len(a) = 3
          /\ \A i : i \in 1..Len(a) <=> i = 1 \/ i = 2 \/ i = 3
      OBVIOUS
    <2> HIDE DEF a
    <2>2. \A x : Has(a, x) <=> x = "stop" \/ x = "disable" \/ x = "units"
      BY <2>1 DEF Has
    <2> QED
      BY <2>1, <2>2
  <1>4. /\ \A x : Has(b, x) <=> "config" \notin k /\ x = "rmconf"
        /\ \A x : Has(c, x) <=> "data" \notin k /\ x = "rmstate"
        /\ \A x : Has(d, x) <=> "binary" \notin k /\ x = "rmbin"
        /\ \A x : Has(e, x) <=> "user" \notin k /\ x = "rmuser"
    BY NameLists
  <1> HIDE DEF a, b, c, d, e
  <1>5. a \o b \in Seq(OpNames) /\ \A x : Has(a \o b, x) <=> Has(a, x) \/ Has(b, x)
    BY <1>2, SeqConcat, SeqHas, Zenon
  <1> DEFINE f == a \o b
  <1> HIDE DEF f
  <1>6. f \o c \in Seq(OpNames) /\ \A x : Has(f \o c, x) <=> Has(f, x) \/ Has(c, x)
    BY <1>2, <1>5, SeqConcat, SeqHas, Zenon DEF f
  <1> DEFINE g == f \o c
  <1> HIDE DEF g
  <1>7. g \o d \in Seq(OpNames) /\ \A x : Has(g \o d, x) <=> Has(g, x) \/ Has(d, x)
    BY <1>2, <1>6, SeqConcat, SeqHas, Zenon DEF g
  <1> DEFINE h == g \o d
  <1> HIDE DEF h
  <1>8. h \o e \in Seq(OpNames) /\ \A x : Has(h \o e, x) <=> Has(h, x) \/ Has(e, x)
    BY <1>2, <1>7, SeqConcat, SeqHas, Zenon DEF h
  <1>9. uninstallSteps(k) = h \o e
    BY <1>1 DEF f, g, h
  <1>10. \A x : Has(h \o e, x) <=> Has(a, x) \/ Has(b, x) \/ Has(c, x) \/ Has(d, x) \/ Has(e, x)
    BY <1>5, <1>6, <1>7, <1>8 DEF f, g, h
  <1>11. \A i \in 2..Len(h \o e) : (h \o e)[i] # "stop"
    <2> DEFINE NoStop(q) == \A i \in 2..Len(q) : q[i] # "stop"
    <2>1. \A p, q \in Seq(OpNames) : NoStop(p) /\ ~Has(q, "stop") /\ Len(p) > 0 => NoStop(p \o q) /\ Len(p \o q) > 0
      BY StopFirst
    <2>2. NoStop(a) /\ Len(a) > 0
      BY <1>3
    <2>3. ~Has(b, "stop") /\ ~Has(c, "stop") /\ ~Has(d, "stop") /\ ~Has(e, "stop")
      BY <1>4
    <2> HIDE DEF NoStop
    <2>4. NoStop(f) /\ Len(f) > 0
      BY <1>2, <2>1, <2>2, <2>3 DEF f
    <2>5. NoStop(g) /\ Len(g) > 0
      BY <1>2, <1>5, <2>1, <2>4, <2>3 DEF f, g
    <2>6. NoStop(h) /\ Len(h) > 0
      BY <1>2, <1>6, <2>1, <2>5, <2>3 DEF g, h
    <2>7. NoStop(h \o e)
      BY <1>2, <1>7, <2>1, <2>6, <2>3 DEF h
    <2> QED
      BY <2>7 DEF NoStop
  <1> QED
    BY <1>3, <1>4, <1>8, <1>9, <1>10, <1>11 DEF StepNames

(* What a command is when it starts.                                       *)
Starts(name) ==
    /\ cmd.name = "none" /\ cmd' \in Command /\ cmd'.name = name /\ ListShape' /\ AllSteps(cmd'.todo)
    /\ count' \in [cmds : Nat, gen : Nat, sets : Nat, reloads : Nat, faults : Nat]
    /\ ghost' \in Memory /\ ghost'.last = "none" /\ ghost'.asked = ghost.asked /\ ghost'.cut = ghost.cut
    /\ UNCHANGED <<files, conf, pending, host, db, svc, srv>>

LEMMA StartShape ==
    ASSUME NEW ns \in Seq(OpNames), cmd'.todo = Steps(ns), \A x : Has(ns, x) => x \in StepNames(cmd'.name),
           \A i \in 2..Len(ns) : ns[i] # "stop"
    PROVE  /\ ListShape' /\ AllSteps(cmd'.todo) /\ cmd'.todo \in Seq(Op)
           /\ \A s : ToDo(s)' <=> Has(ns, s)
  <1> DEFINE q == Steps(ns)
  <1>1. /\ q \in Seq(Op) /\ Len(q) = Len(ns) /\ Len(ns) \in Nat /\ AllSteps(q)
        /\ \A i \in 1..Len(ns) : q[i] = Step(ns[i])
        /\ \A o : Has(q, o) <=> \E i \in 1..Len(ns) : o = Step(ns[i])
    BY HasSteps
  <1>2. Ordered(q) /\ \A f : ~Writes(q, f)
    BY <1>1, OrderedSteps
  <1> HIDE DEF q
  <1>3. \A s, t : Step(s) = Step(t) => s = t
    BY DEF Step
  <1>4. \A s : Has(q, Step(s)) <=> Has(ns, s)
    BY <1>1, <1>3 DEF Has
  <1>5. \A i \in 2..Len(q) : q[i] # Step("stop")
    BY <1>1, <1>3
  <1>6. cmd'.todo = q
    BY DEF q
  <1> QED
    BY <1>1, <1>2, <1>4, <1>5, <1>6 DEF ListShape, ToDo, Writing

LEMMA NoCmdTyped ==
    NoCmd \in Command /\ NoCmd.name = "none" /\ NoCmd.todo = <<>> /\ NoCmd.dry = FALSE
  BY DEF NoCmd, Command, Modes

LEMMA ModeTyped ==
    ASSUME NEW o \in InstallOpts
    PROVE  runInteractiveConfig(o) \in Modes
  <1>1. o.tls \in Modes /\ "file" \in Modes /\ "autocert" \in Modes /\ "self_signed" \in Modes
    BY DEF Modes
  <1> QED
    BY <1>1 DEF runInteractiveConfig, resolveTLSMode

LEMMA InstallStarts ==
    ASSUME Typed, NEW o \in InstallOpts, installCommand(o)
    PROVE  /\ Starts("install") /\ cmd'.num > 0
           /\ ghost'.raced <=> ghost.raced \/ srv.st = "gen"
           /\ \A s \in {"certs", "dkim", "conf", "bin"} : ToDo(s)'
           /\ cmd'.skip \/ ToDo("unit")'
  <1> DEFINE q == Steps(installSteps(o))
             md == runInteractiveConfig(o)
             n == 100 + count.cmds
             i == "install"
             r == ghost.raced \/ srv.st = "gen"
             l == "none"
  <1>1. /\ o.dry \in BOOLEAN /\ o.skip \in BOOLEAN /\ o.self \in BOOLEAN
    BY OptsAssumption
  <1>2. /\ cmd' = [NoCmd EXCEPT !.name = i, !.dry = o.dry, !.skip = o.skip, !.self = o.self,
                                !.num = n, !.mode = md, !.todo = q]
        /\ ghost' = [ghost EXCEPT !.last = l, !.raced = r]
        /\ count' = [count EXCEPT !.cmds = @ + 1] /\ cmd.name = "none"
        /\ UNCHANGED <<files, conf, pending, host, db, svc, srv>>
    BY DEF installCommand
  <1>3. md \in Modes /\ n \in Nat /\ n > 0 /\ r \in BOOLEAN /\ i \in {"none", "install", "upgrade", "uninstall"}
        /\ l \in {"none", "failed", "install", "upgrade", "uninstall"}
    BY ModeTyped DEF Typed
  <1>4. q \in Seq(Op)
    BY InstallList, HasSteps
  <1> HIDE DEF q, md, n, i, r, l
  <1>5. cmd' \in Command /\ cmd'.name = i /\ cmd'.num = n /\ cmd'.todo = q /\ cmd'.skip = o.skip
    BY <1>1, <1>2, <1>3, <1>4, NoCmdTyped DEF Command
  <1>6. /\ ghost' \in Memory /\ ghost'.last = l /\ ghost'.asked = ghost.asked /\ ghost'.cut = ghost.cut
        /\ ghost'.raced = r
    BY <1>2, <1>3 DEF Typed, Memory
  <1>7. count' \in [cmds : Nat, gen : Nat, sets : Nat, reloads : Nat, faults : Nat]
    BY <1>2 DEF Typed
  <1>8. /\ \A x : Has(installSteps(o), x) => x \in StepNames("install")
        /\ installSteps(o) \in Seq(OpNames)
        /\ \A x \in {"certs", "dkim", "conf", "bin"} : Has(installSteps(o), x)
        /\ o.skip \/ Has(installSteps(o), "unit")
    BY InstallList
  <1>9. "stop" \notin StepNames("install")
    BY DEF StepNames
  <1>10. \A k \in 2..Len(installSteps(o)) : installSteps(o)[k] # "stop"
    <2>1. \A k \in 2..Len(installSteps(o)) : k \in 1..Len(installSteps(o))
      BY <1>8
    <2> QED
      BY <1>8, <1>9, <2>1 DEF Has
  <1>11. cmd'.todo = Steps(installSteps(o)) /\ \A x : Has(installSteps(o), x) => x \in StepNames(cmd'.name)
    BY <1>5, <1>8 DEF q, i
  <1>12. ListShape' /\ AllSteps(cmd'.todo) /\ \A s : ToDo(s)' <=> Has(installSteps(o), s)
    BY <1>8, <1>10, <1>11, StartShape
  <1>13. Starts("install")
    BY <1>2, <1>5, <1>6, <1>7, <1>12 DEF Starts, i, l
  <1> QED
    BY <1>3, <1>5, <1>6, <1>8, <1>12, <1>13 DEF r

LEMMA UpgradeStarts ==
    ASSUME Typed, NEW o \in UpgradeOpts, upgradeCommand(o)
    PROVE  Starts("upgrade") /\ ghost'.raced = ghost.raced
  <1> DEFINE ns == <<"verify", "halt", "copy", "rename", "start">>
             q == Steps(ns)
             n == 100 + count.cmds
             i == "upgrade"
             l == "none"
  <1>1. /\ cmd' = [NoCmd EXCEPT !.name = i, !.signed = o.signed, !.num = n, !.todo = q]
        /\ ghost' = [ghost EXCEPT !.last = l]
        /\ count' = [count EXCEPT !.cmds = @ + 1] /\ cmd.name = "none"
        /\ UNCHANGED <<files, conf, pending, host, db, svc, srv>>
    BY DEF upgradeCommand
  <1>2. /\ o.signed \in BOOLEAN /\ n \in Nat /\ i \in {"none", "install", "upgrade", "uninstall"}
        /\ l \in {"none", "failed", "install", "upgrade", "uninstall"}
    BY OptsAssumption DEF Typed
  <1>3. ns \in Seq(OpNames) /\ \A x : Has(ns, x) => x \in StepNames("upgrade")
    BY UpgradeList
  <1> HIDE DEF ns
  <1>4. q \in Seq(Op)
    BY <1>3, HasSteps
  <1> HIDE DEF q, n, i, l
  <1>5. cmd' \in Command /\ cmd'.name = i /\ cmd'.todo = q
    BY <1>1, <1>2, <1>4, NoCmdTyped DEF Command
  <1>6. /\ ghost' \in Memory /\ ghost'.last = l /\ ghost'.asked = ghost.asked /\ ghost'.cut = ghost.cut
        /\ ghost'.raced = ghost.raced
    BY <1>1, <1>2 DEF Typed, Memory
  <1>7. count' \in [cmds : Nat, gen : Nat, sets : Nat, reloads : Nat, faults : Nat]
    BY <1>1 DEF Typed
  <1>8. \A k \in 2..Len(ns) : ns[k] # "stop"
    <2>1. \A k \in 2..Len(ns) : k \in 1..Len(ns)
      BY <1>3
    <2>2. "stop" \notin StepNames("upgrade")
      BY DEF StepNames
    <2> QED
      BY <1>3, <2>1, <2>2 DEF Has
  <1>9. cmd'.todo = Steps(ns) /\ \A x : Has(ns, x) => x \in StepNames(cmd'.name)
    BY <1>3, <1>5 DEF q, i
  <1>10. ListShape' /\ AllSteps(cmd'.todo)
    BY <1>3, <1>8, <1>9, StartShape
  <1> QED
    BY <1>1, <1>5, <1>6, <1>7, <1>10 DEF Starts, i, l

LEMMA UninstallStarts ==
    ASSUME Typed, NEW o \in UninstallOpts, uninstallCommand(o)
    PROVE  /\ Starts("uninstall") /\ ghost'.raced = ghost.raced
           /\ cmd'.sure => cmd'.known /\ (cmd'.running \/ ~svc.active)
           /\ ToDo("stop")' /\ (cmd'.keep = {} => \A s \in {"rmconf", "rmstate", "rmbin"} : ToDo(s)')
  <1> DEFINE ns == uninstallSteps(o.keep)
             q == Steps(ns)
             i == "uninstall"
             l == "none"
             kn == detectInstallation.known
             ru == isServiceRunning
             en == isServiceEnabled
             su == detectInstallation.known /\ (isServiceRunning \/ ~svc.active)
  <1>1. /\ cmd' = [NoCmd EXCEPT !.name = i, !.dry = o.dry, !.keep = o.keep, !.known = kn,
                                !.running = ru, !.enabled = en, !.sure = su, !.todo = q]
        /\ ghost' = [ghost EXCEPT !.last = l]
        /\ count' = [count EXCEPT !.cmds = @ + 1] /\ cmd.name = "none"
        /\ UNCHANGED <<files, conf, pending, host, db, svc, srv>>
    BY DEF uninstallCommand
  <1>2. /\ o.dry \in BOOLEAN /\ o.keep \in SUBSET {"config", "data", "binary", "user"}
        /\ i \in {"none", "install", "upgrade", "uninstall"}
        /\ l \in {"none", "failed", "install", "upgrade", "uninstall"}
    BY OptsAssumption
  <1>3. ru \in BOOLEAN /\ en \in BOOLEAN /\ su \in BOOLEAN /\ kn \in BOOLEAN
    BY DEF isServiceRunning, isServiceEnabled, detectInstallation
  <1>4. /\ ns \in Seq(OpNames) /\ \A x : Has(ns, x) => x \in StepNames("uninstall")
        /\ o.keep = {} => \A x \in {"rmconf", "rmstate", "rmbin"} : Has(ns, x)
        /\ Has(ns, "stop") /\ \A k \in 2..Len(ns) : ns[k] # "stop"
    BY UninstallList
  <1>5. su => kn /\ (ru \/ ~svc.active)
    OBVIOUS
  <1> HIDE DEF ns
  <1>6. q \in Seq(Op)
    BY <1>4, HasSteps
  <1> HIDE DEF q, i, l, kn, ru, en, su
  <1>7. /\ cmd' \in Command /\ cmd'.name = i /\ cmd'.todo = q /\ cmd'.keep = o.keep
        /\ cmd'.known = kn /\ cmd'.running = ru /\ cmd'.sure = su
    <2> DEFINE y == [NoCmd EXCEPT !.name = i, !.dry = o.dry, !.keep = o.keep, !.todo = q]
    <2>1. y \in Command /\ y.name = i /\ y.todo = q /\ y.keep = o.keep
      BY <1>2, <1>6, NoCmdTyped DEF Command
    <2>2. cmd' = [y EXCEPT !.known = kn, !.running = ru, !.enabled = en, !.sure = su]
      BY <1>1, NoCmdTyped DEF Command
    <2> HIDE DEF y
    <2> QED
      BY <1>3, <2>1, <2>2, ZenonT(60) DEF Command
  <1>8. /\ ghost' \in Memory /\ ghost'.last = l /\ ghost'.asked = ghost.asked /\ ghost'.cut = ghost.cut
        /\ ghost'.raced = ghost.raced
    BY <1>1, <1>2 DEF Typed, Memory
  <1>9. count' \in [cmds : Nat, gen : Nat, sets : Nat, reloads : Nat, faults : Nat]
    BY <1>1 DEF Typed
  <1>10. cmd'.todo = Steps(ns) /\ \A x : Has(ns, x) => x \in StepNames(cmd'.name)
    BY <1>4, <1>7 DEF q, i
  <1>11. ListShape' /\ AllSteps(cmd'.todo) /\ \A s : ToDo(s)' <=> Has(ns, s)
    BY <1>4, <1>10, StartShape
  <1>12. Starts("uninstall")
    BY <1>1, <1>7, <1>8, <1>9, <1>11 DEF Starts, i, l
  <1> QED
    BY <1>4, <1>5, <1>7, <1>8, <1>11, <1>12

(* A command that is over, or is cut short.                                *)
Ends ==
    /\ cmd' \in Command /\ cmd'.name = "none" /\ cmd'.todo = <<>> /\ ListShape'
    /\ ghost' \in Memory /\ ghost'.raced = ghost.raced

LEMMA EmptyShape ==
    ASSUME cmd'.todo = <<>>
    PROVE  ListShape' /\ (\A s : ~ToDo(s)') /\ \A f : ~Writing(f)'
  <1>1. \A o : ~Has(cmd'.todo, o)
    BY DEF Has
  <1> QED
    BY <1>1 DEF ListShape, ToDo, Writing, Writes, Ordered, AllSteps

LEMMA StepFailsDoes ==
    ASSUME Typed, StepFails
    PROVE  /\ Ends /\ ghost'.last = "failed" /\ ghost'.asked = ghost.asked /\ ghost'.cut = ghost.cut
           /\ count' \in [cmds : Nat, gen : Nat, sets : Nat, reloads : Nat, faults : Nat]
           /\ UNCHANGED <<files, conf, pending, host, db, svc, srv>>
  <1>1. cmd' = NoCmd /\ ghost' = [ghost EXCEPT !.last = "failed"]
        /\ UNCHANGED <<files, conf, pending, host, db, svc, srv>>
    BY DEF StepFails
  <1>2. count' \in [cmds : Nat, gen : Nat, sets : Nat, reloads : Nat, faults : Nat]
    BY DEF StepFails, Typed
  <1>3. ghost' \in Memory /\ ghost'.last = "failed" /\ ghost'.asked = ghost.asked /\ ghost'.cut = ghost.cut
        /\ ghost'.raced = ghost.raced
    BY <1>1 DEF Typed, Memory
  <1>4. cmd' \in Command /\ cmd'.name = "none" /\ cmd'.todo = <<>>
    BY <1>1, NoCmdTyped
  <1> QED
    BY <1>1, <1>2, <1>3, <1>4, EmptyShape DEF Ends

LEMMA CommandDoneDoes ==
    ASSUME Typed, CommandDone
    PROVE  /\ Ends /\ cmd.todo = <<>> /\ ghost'.asked = ghost.asked /\ ghost'.cut = ghost.cut
           /\ ghost'.last # "none" => ~cmd.dry /\ ghost'.last = cmd.name
           /\ cmd'.skip = cmd.skip /\ cmd'.mode = cmd.mode /\ cmd'.num = cmd.num
           /\ cmd'.keep = cmd.keep /\ cmd'.sure = cmd.sure /\ cmd'.known = cmd.known
           /\ cmd'.running = cmd.running
           /\ UNCHANGED <<files, conf, pending, host, db, svc, srv, count>>
  <1> DEFINE l == IF cmd.dry THEN "none" ELSE cmd.name
             e == "none"
  <1>1. /\ cmd' = [cmd EXCEPT !.name = e] /\ ghost' = [ghost EXCEPT !.last = l] /\ cmd.todo = <<>>
        /\ UNCHANGED <<files, conf, pending, host, db, svc, srv, count>>
    BY DEF CommandDone
  <1>2. l \in {"none", "failed", "install", "upgrade", "uninstall"}
    BY DEF Typed, Command
  <1>3. l # "none" => ~cmd.dry /\ l = cmd.name
    OBVIOUS
  <1> HIDE DEF l
  <1>4. ghost' \in Memory /\ ghost'.last = l /\ ghost'.asked = ghost.asked /\ ghost'.cut = ghost.cut
        /\ ghost'.raced = ghost.raced
    BY <1>1, <1>2 DEF Typed, Memory
  <1>5. /\ cmd' \in Command /\ cmd'.name = e /\ cmd'.todo = <<>>
        /\ cmd'.skip = cmd.skip /\ cmd'.mode = cmd.mode /\ cmd'.num = cmd.num
        /\ cmd'.keep = cmd.keep /\ cmd'.sure = cmd.sure /\ cmd'.known = cmd.known
        /\ cmd'.running = cmd.running
    BY <1>1 DEF Typed, Command
  <1> QED
    BY <1>1, <1>3, <1>4, <1>5, EmptyShape DEF Ends

LEMMA PowerLossDoes ==
    ASSUME Typed, PowerLoss
    PROVE  /\ Ends /\ ghost'.last = "none" /\ ghost'.asked = ghost.asked
           /\ ghost'.cut <=> ghost.cut \/ srv.st = "gen"
           /\ srv' = Off /\ SvcTyped'
           /\ count' \in [cmds : Nat, gen : Nat, sets : Nat, reloads : Nat, faults : Nat]
           /\ UNCHANGED <<files, conf, pending, host, db>>
  <1> DEFINE b == ghost.cut \/ srv.st = "gen"
             l == "none"
  <1>1. /\ cmd' = NoCmd /\ ghost' = [ghost EXCEPT !.cut = b, !.last = l] /\ srv' = Off
        /\ svc' = [svc EXCEPT !.active = svc.enabled] /\ count' = [count EXCEPT !.faults = @ + 1]
        /\ UNCHANGED <<files, conf, pending, host, db>>
    BY DEF PowerLoss
  <1>2. b \in BOOLEAN
    OBVIOUS
  <1> HIDE DEF b
  <1>3. ghost' \in Memory /\ ghost'.last = l /\ ghost'.asked = ghost.asked /\ ghost'.cut = b
        /\ ghost'.raced = ghost.raced
    BY <1>1, <1>2 DEF Typed, Memory
  <1>4. SvcTyped' /\ count' \in [cmds : Nat, gen : Nat, sets : Nat, reloads : Nat, faults : Nat]
    BY <1>1 DEF Typed, SvcTyped
  <1>5. cmd' \in Command /\ cmd'.name = "none" /\ cmd'.todo = <<>>
    BY <1>1, NoCmdTyped
  <1> QED
    BY <1>1, <1>3, <1>4, <1>5, EmptyShape DEF Ends, b

LEMMA PendingCutShortDoes ==
    ASSUME Typed, PendingCutShort
    PROVE  /\ Ends /\ ghost'.last = "none" /\ ghost'.asked = 0 /\ ghost'.cut
           /\ srv.st = "up" /\ srv' = Off /\ SvcTyped' /\ pending' \in ConfigFile
           /\ count' \in [cmds : Nat, gen : Nat, sets : Nat, reloads : Nat, faults : Nat]
           /\ UNCHANGED <<files, conf, host, db>>
  <1> DEFINE z == 0
  <1>1. /\ cmd' = NoCmd /\ ghost' = [ghost EXCEPT !.cut = TRUE, !.last = "none", !.asked = z] /\ srv' = Off
        /\ svc' = [svc EXCEPT !.active = svc.enabled]
        /\ count' = [count EXCEPT !.reloads = @ + 1, !.faults = @ + 1]
        /\ pending' = [NoConf EXCEPT !.st = Torn] /\ srv.st = "up"
        /\ UNCHANGED <<files, conf, host, db>>
    BY DEF PendingCutShort, Serving
  <1>2. z \in Nat
    OBVIOUS
  <1>3. ghost' \in Memory /\ ghost'.last = "none" /\ ghost'.asked = z /\ ghost'.cut /\ ghost'.raced = ghost.raced
    BY <1>1, <1>2 DEF Typed, Memory
  <1>4. SvcTyped' /\ count' \in [cmds : Nat, gen : Nat, sets : Nat, reloads : Nat, faults : Nat]
    <2>1. SvcTyped'
      BY <1>1 DEF Typed, SvcTyped
    <2> DEFINE a == count.reloads + 1
               b == count.faults + 1
    <2>2. a \in Nat /\ b \in Nat /\ count' = [count EXCEPT !.reloads = a, !.faults = b]
      BY <1>1 DEF Typed
    <2> HIDE DEF a, b
    <2>3. count' \in [cmds : Nat, gen : Nat, sets : Nat, reloads : Nat, faults : Nat]
      BY <2>2 DEF Typed
    <2> QED
      BY <2>1, <2>3
  <1>5. cmd' \in Command /\ cmd'.name = "none" /\ cmd'.todo = <<>>
    BY <1>1, NoCmdTyped
  <1>6. pending' \in ConfigFile
    BY <1>1, Constants
  <1> QED
    BY <1>1, <1>3, <1>4, <1>5, <1>6, EmptyShape DEF Ends

-----------------------------------------------------------------------------
(* What the server does.                                                   *)

Exits == srv' = Off /\ SvcTyped' /\ (svc'.active => svc.active)

LEMMA ExitDoes ==
    ASSUME Typed, NEW n, Exit(n)
    PROVE  Exits
  BY DEF Typed, Exit, Exits, SvcTyped

(* srv' is srv with the state st.                                          *)
Turns(st) == srv' \in Server /\ srv'.st = st /\ srv'.port = srv.port /\ srv'.dkim = srv.dkim

LEMMA StartDoes ==
    ASSUME Typed, ExecStartPre
    PROVE  /\ svc.active /\ srv.st = "off" /\ files["bin"] > 0
           /\ srv' \in Server /\ srv'.st = "start" /\ pending' \in ConfigFile /\ conf' \in ConfigFile
           /\ pending.st # 0 => conf' = pending
           /\ pending.st = 0 => UNCHANGED conf
           /\ pending'.st = 0
           /\ UNCHANGED <<files, host, db, svc, cmd, ghost, count>>
  <1>1. /\ svc.active /\ srv.st = "off" /\ files["bin"] > 0 /\ srv' = [Off EXCEPT !.st = "start"]
        /\ UNCHANGED <<files, host, db, svc, cmd, ghost, count>>
        /\ IF pending.st # 0 THEN conf' = pending /\ pending' = NoConf ELSE UNCHANGED <<conf, pending>>
    BY DEF ExecStartPre
  <1>2. conf \in ConfigFile /\ pending \in ConfigFile
    BY DEF Typed
  <1> QED
    BY <1>1, <1>2, Constants

LEMMA CopyCutShortDoes ==
    ASSUME Typed, CopyCutShort
    PROVE  /\ svc.active /\ srv.st = "off" /\ pending.st # 0 /\ conf' \in ConfigFile
           /\ count' \in [cmds : Nat, gen : Nat, sets : Nat, reloads : Nat, faults : Nat]
           /\ UNCHANGED <<files, pending, host, db, svc, srv, cmd, ghost>>
  <1>1. conf' \in ConfigFile
    BY Constants DEF CopyCutShort
  <1>2. count' \in [cmds : Nat, gen : Nat, sets : Nat, reloads : Nat, faults : Nat]
    BY DEF CopyCutShort, Typed
  <1> QED
    BY <1>1, <1>2 DEF CopyCutShort

LEMMA RunDoes ==
    ASSUME Typed, Run
    PROVE  /\ srv.st = "start"
           /\ \/ Exits
              \/ /\ conf.st # 0 /\ srv' \in Server /\ srv'.st = "init" /\ srv'.port = conf.port
                 /\ UNCHANGED svc
           /\ UNCHANGED <<files, conf, pending, host, db, cmd, ghost, count>>
  <1>1. srv.st = "start" /\ UNCHANGED <<files, conf, pending, host, db, cmd, ghost, count>>
    BY DEF Run
  <1>2. CASE conf.st # 1 /\ Exit(2)
    BY <1>1, <1>2, ExitDoes
  <1>3. CASE /\ conf.st # 0 /\ UNCHANGED svc
             /\ srv' = [srv EXCEPT !.st = "init", !.port = conf.port, !.mode = conf.mode]
    <2> DEFINE p == conf.port
               m == conf.mode
               i == "init"
    <2>1. p \in Nat /\ m \in Modes /\ i \in {"off", "start", "init", "dkim", "gen", "up", "exiting"}
      BY DEF Typed, ConfigFile
    <2>2. srv' = [srv EXCEPT !.st = i, !.port = p, !.mode = m]
      BY <1>3
    <2> HIDE DEF p, m, i
    <2>3. srv' \in Server /\ srv'.st = i /\ srv'.port = p
      BY <2>1, <2>2 DEF Typed, Server
    <2> QED
      BY <1>1, <1>3, <2>3 DEF p, i
  <1> QED
    BY <1>2, <1>3 DEF Run

LEMMA moduleMainDoes ==
    ASSUME Typed, moduleMain
    PROVE  /\ srv.st = "init" /\ HostTyped' /\ (Exits \/ (Turns("dkim") /\ UNCHANGED svc))
           /\ UNCHANGED <<files, conf, pending, db, cmd, ghost, count>>
  <1>1. srv.st = "init" /\ UNCHANGED <<files, conf, pending, db, cmd, ghost, count>>
    BY DEF moduleMain
  <1>2. HostTyped'
    BY DEF moduleMain, InitDirs, Typed, HostTyped
  <1>3. Exit(1) \/ (srv' = [srv EXCEPT !.st = "dkim"] /\ UNCHANGED svc)
    BY DEF moduleMain
  <1>4. srv' = [srv EXCEPT !.st = "dkim"] => Turns("dkim")
    BY DEF Typed, Server, Turns
  <1> QED
    BY <1>1, <1>2, <1>3, <1>4, ExitDoes

(* A server starts to make a key.                                          *)
Begins ==
    /\ files["dkim"] = 0 /\ srv' \in Server /\ srv'.st = "gen" /\ srv'.port = srv.port /\ srv'.dkim > 0
    /\ srv'.todo = <<"record", "recorded", "key", "written">> /\ UNCHANGED svc
    /\ count' \in [cmds : Nat, gen : Nat, sets : Nat, reloads : Nat, faults : Nat]
    /\ ghost' \in Memory /\ ghost'.last = ghost.last /\ ghost'.asked = ghost.asked /\ ghost'.cut = ghost.cut
    /\ ghost'.raced <=> ghost.raced \/ cmd.name = "install"

LEMMA loadOrGenerateKeyDoes ==
    ASSUME Typed, loadOrGenerateKey
    PROVE  /\ srv.st = "dkim"
           /\ \/ Exits /\ UNCHANGED <<count, ghost>>
              \/ /\ srv' \in Server /\ srv'.st = "up" /\ srv'.port = srv.port
                 /\ UNCHANGED <<svc, count, ghost>>
              \/ Begins
           /\ UNCHANGED <<files, conf, pending, host, db, cmd>>
  <1>1. srv.st = "dkim" /\ UNCHANGED <<files, conf, pending, host, db, cmd>>
    BY DEF loadOrGenerateKey
  <1>2. CASE files["dkim"] > 0
    <2> DEFINE d == files["dkim"]
    <2>1. d \in Nat
      <3>1. d \in Nat \cup {Torn}
        BY DEF Typed, File
      <3> QED
        BY <1>2, <3>1 DEF Torn
    <2>2. srv' = [srv EXCEPT !.st = "up", !.dkim = d] /\ UNCHANGED <<svc, count, ghost>>
      BY <1>2 DEF loadOrGenerateKey
    <2> HIDE DEF d
    <2>3. srv' \in Server /\ srv'.st = "up" /\ srv'.port = srv.port
      BY <2>1, <2>2 DEF Typed, Server
    <2> QED
      BY <1>1, <2>2, <2>3
  <1>3. CASE ~(files["dkim"] > 0) /\ files["dkim"] = Torn
    BY <1>1, <1>3, ExitDoes DEF loadOrGenerateKey
  <1>4. CASE ~(files["dkim"] > 0) /\ files["dkim"] # Torn
    <2> DEFINE q == <<"record", "recorded", "key", "written">>
               n == count.gen + 1
               r == ghost.raced \/ cmd.name = "install"
    <2>1. /\ count' = [count EXCEPT !.gen = @ + 1]
          /\ srv' = [srv EXCEPT !.st = "gen", !.dkim = n, !.todo = q]
          /\ ghost' = [ghost EXCEPT !.raced = r] /\ UNCHANGED svc
      BY <1>4 DEF loadOrGenerateKey
    <2>2. n \in Nat /\ n > 0 /\ r \in BOOLEAN /\ q \in Seq({"record", "recorded", "key", "written"})
      BY DEF Typed
    <2>3. files["dkim"] = 0
      <3>1. files["dkim"] \in Nat \cup {Torn}
        BY DEF Typed, File
      <3> QED
        BY <1>4, <3>1
    <2> HIDE DEF q, n, r
    <2>4. srv' \in Server /\ srv'.st = "gen" /\ srv'.port = srv.port /\ srv'.dkim = n /\ srv'.todo = q
      BY <2>1, <2>2 DEF Typed, Server
    <2>5. /\ ghost' \in Memory /\ ghost'.last = ghost.last /\ ghost'.asked = ghost.asked
          /\ ghost'.cut = ghost.cut /\ ghost'.raced = r
      BY <2>1, <2>2 DEF Typed, Memory
    <2>6. count' \in [cmds : Nat, gen : Nat, sets : Nat, reloads : Nat, faults : Nat]
      BY <2>1 DEF Typed
    <2>7. Begins
      BY <2>1, <2>2, <2>3, <2>4, <2>5, <2>6 DEF Begins, q, r
    <2> QED
      BY <1>1, <2>7
  <1> QED
    BY <1>2, <1>3, <1>4

LEMMA GenTodo ==
    ASSUME NEW q \in ToGenerate
    PROVE  /\ Head(q) \in {"record", "recorded", "key", "written"}
           /\ Tail(q) \in Seq({"record", "recorded", "key", "written"})
           /\ Head(q) = "record" => Tail(q) \in ToGenerate /\ Head(Tail(q)) = "recorded"
           /\ Head(q) = "recorded" => Tail(q) \in ToGenerate /\ Head(Tail(q)) = "key"
           /\ Head(q) = "key" => Tail(q) \in ToGenerate /\ Head(Tail(q)) = "written"
  <1>1. CASE q = <<"record", "recorded", "key", "written">>
    <2>1. Head(q) = "record" /\ Tail(q) = <<"recorded", "key", "written">>
      BY <1>1
    <2> QED
      BY <2>1 DEF ToGenerate
  <1>2. CASE q = <<"recorded", "key", "written">>
    <2>1. Head(q) = "recorded" /\ Tail(q) = <<"key", "written">>
      BY <1>2
    <2> QED
      BY <2>1, SMTT(30) DEF ToGenerate
  <1>3. CASE q = <<"key", "written">>
    <2>1. Head(q) = "key" /\ Tail(q) = <<"written">>
      BY <1>3
    <2> QED
      BY <2>1 DEF ToGenerate
  <1>4. CASE q = <<"written">>
    <2> DEFINE S == {"record", "recorded", "key", "written"}
    <2>1. Head(q) = "written" /\ q # <<>>
      BY <1>4
    <2>2. "written" \in S
      OBVIOUS
    <2> HIDE DEF S
    <2>3. q \in Seq(S)
      BY <1>4, <2>2
    <2>4. Tail(q) \in Seq(S)
      BY <2>1, <2>3
    <2> QED
      BY <2>1, <2>4 DEF S
  <1> QED
    BY <1>1, <1>2, <1>3, <1>4 DEF ToGenerate

LEMMA writeDNSRecordDoes ==
    ASSUME Typed, GenShape, writeDNSRecord
    PROVE  /\ srv.st = "gen" /\ Turns("gen") /\ srv'.todo \in ToGenerate /\ srv'.todo = Tail(srv.todo)
           /\ SetsFile("dns", IF Head(srv.todo) = "record" THEN Torn ELSE srv.dkim)
           /\ Head(srv.todo) = "record" => Head(srv'.todo) = "recorded"
           /\ Head(srv.todo) # "record" => Head(srv.todo) = "recorded" /\ Head(srv'.todo) = "key"
           /\ UNCHANGED <<conf, pending, host, db, svc, cmd, ghost, count>>
  <1> DEFINE q == srv.todo
             t == Tail(q)
             v == IF Head(q) = "record" THEN Torn ELSE srv.dkim
  <1>1. /\ srv.st = "gen" /\ Head(q) \in {"record", "recorded"} /\ srv' = [srv EXCEPT !.todo = t]
        /\ files' = [files EXCEPT !["dns"] = v]
        /\ UNCHANGED <<conf, pending, host, db, svc, cmd, ghost, count>>
    BY DEF writeDNSRecord
  <1>2. /\ t \in Seq({"record", "recorded", "key", "written"}) /\ t \in ToGenerate
        /\ Head(q) = "record" => Head(t) = "recorded"
        /\ Head(q) = "recorded" => Head(t) = "key"
    BY <1>1, GenTodo DEF GenShape
  <1>3. v \in Nat \cup {Torn}
    BY DEF Typed, Server
  <1>4. SetsFile("dns", v)
    BY <1>1, <1>3, SetFile DEF File
  <1> HIDE DEF t, v
  <1>5. Turns("gen") /\ srv'.todo = t
    BY <1>1, <1>2 DEF Typed, Server, Turns
  <1> QED
    BY <1>1, <1>2, <1>4, <1>5 DEF t, v

LEMMA generateAndWriteDoes ==
    ASSUME Typed, GenShape, generateAndWrite
    PROVE  /\ srv.st = "gen" /\ UNCHANGED <<conf, pending, host, db, cmd, ghost, count>>
           /\ \/ /\ Head(srv.todo) = "key" /\ files["dkim"] = 0 /\ SetsFile("dkim", Torn)
                 /\ Turns("gen") /\ srv'.todo \in ToGenerate /\ Head(srv'.todo) = "written" /\ UNCHANGED svc
              \/ Head(srv.todo) = "key" /\ files["dkim"] # 0 /\ Exits /\ UNCHANGED files
              \/ /\ Head(srv.todo) = "written" /\ SetsFile("dkim", srv.dkim) /\ srv.dkim > 0
                 /\ Turns("up") /\ UNCHANGED svc
  <1> DEFINE q == srv.todo
             t == Tail(q)
  <1>1. srv.st = "gen" /\ q \in ToGenerate /\ srv.dkim > 0 /\ Head(q) \in {"key", "written"}
        /\ UNCHANGED <<conf, pending, host, db, cmd, ghost, count>>
    BY DEF generateAndWrite, GenShape
  <1>2. CASE Head(q) = "key" /\ files["dkim"] = 0
    <2>1. files' = [files EXCEPT !["dkim"] = Torn] /\ srv' = [srv EXCEPT !.todo = t] /\ UNCHANGED svc
      BY <1>2 DEF generateAndWrite
    <2>2. t \in Seq({"record", "recorded", "key", "written"}) /\ t \in ToGenerate /\ Head(t) = "written"
      BY <1>1, <1>2, GenTodo
    <2>3. SetsFile("dkim", Torn)
      BY <2>1, SetFile DEF File
    <2> HIDE DEF t
    <2>4. Turns("gen") /\ srv'.todo = t
      BY <1>1, <2>1, <2>2 DEF Typed, Server, Turns
    <2> QED
      BY <1>1, <1>2, <2>1, <2>2, <2>3, <2>4
  <1>3. CASE Head(q) = "key" /\ files["dkim"] # 0
    BY <1>1, <1>3, ExitDoes DEF generateAndWrite
  <1>4. CASE Head(q) = "written"
    <2> DEFINE e == <<>>
    <2>1. files' = [files EXCEPT !["dkim"] = srv.dkim] /\ srv' = [srv EXCEPT !.st = "up", !.todo = e] /\ UNCHANGED svc
      BY <1>4 DEF generateAndWrite
    <2>2. e \in Seq({"record", "recorded", "key", "written"}) /\ srv.dkim \in Nat
      BY DEF Typed, Server
    <2>3. SetsFile("dkim", srv.dkim)
      BY <2>1, <2>2, SetFile DEF File
    <2> HIDE DEF e
    <2>4. Turns("up")
      BY <2>1, <2>2 DEF Typed, Server, Turns
    <2> QED
      BY <1>1, <1>4, <2>1, <2>3, <2>4
  <1> QED
    BY <1>1, <1>2, <1>3, <1>4

LEMMA SettingsDoes ==
    ASSUME Typed, \/ \E p \in Ports \cup {0} : GenericSettingHandler(p)
                  \/ \E v \in 1..2 : genericDBToggleHandler(v)
                  \/ adminWebPath
    PROVE  /\ db' \in [port : Nat, flag : Nat] /\ (db'.port = db.port \/ srv.st = "up")
           /\ count' \in [cmds : Nat, gen : Nat, sets : Nat, reloads : Nat, faults : Nat]
           /\ UNCHANGED <<files, conf, pending, host, svc, srv, cmd, ghost>>
  <1>1. ASSUME NEW p \in Ports \cup {0}, GenericSettingHandler(p)
        PROVE  /\ db' \in [port : Nat, flag : Nat] /\ srv.st = "up"
               /\ count' \in [cmds : Nat, gen : Nat, sets : Nat, reloads : Nat, faults : Nat]
               /\ UNCHANGED <<files, conf, pending, host, svc, srv, cmd, ghost>>
    <2>1. p \in Nat
      BY PortsAssumption
    <2> QED
      BY <1>1, <2>1 DEF GenericSettingHandler, Serving, Typed
  <1>2. ASSUME NEW v \in 1..2, genericDBToggleHandler(v)
        PROVE  /\ db' \in [port : Nat, flag : Nat] /\ db'.port = db.port
               /\ count' \in [cmds : Nat, gen : Nat, sets : Nat, reloads : Nat, faults : Nat]
               /\ UNCHANGED <<files, conf, pending, host, svc, srv, cmd, ghost>>
    <2>1. v \in Nat
      OBVIOUS
    <2> QED
      BY <1>2, <2>1 DEF genericDBToggleHandler, Typed
  <1>3. ASSUME adminWebPath
        PROVE  /\ db' \in [port : Nat, flag : Nat] /\ db'.port = db.port
               /\ count' \in [cmds : Nat, gen : Nat, sets : Nat, reloads : Nat, faults : Nat]
               /\ UNCHANGED <<files, conf, pending, host, svc, srv, cmd, ghost>>
    BY <1>3 DEF adminWebPath, Typed
  <1> QED
    BY <1>1, <1>2, <1>3

LEMMA reloadConfigDoes ==
    ASSUME Typed, reloadConfig
    PROVE  /\ srv.st \in {"up", "exiting"} /\ host.data /\ conf.st = 1
           /\ Turns("exiting") /\ pending' \in ConfigFile
           /\ \/ /\ pending'.st = 1 /\ db.port # 0 /\ pending'.port = db.port /\ ghost'.asked = db.port
              \/ /\ UNCHANGED pending /\ ghost'.asked = conf.port /\ (db.port = 0 \/ db.port = conf.port)
           /\ count' \in [cmds : Nat, gen : Nat, sets : Nat, reloads : Nat, faults : Nat]
           /\ ghost' \in Memory /\ ghost'.last = ghost.last /\ ghost'.cut = ghost.cut
           /\ ghost'.raced = ghost.raced
           /\ UNCHANGED <<files, conf, host, db, svc, cmd>>
  <1> DEFINE c == configOverrides(conf)
             p == IF db.port # 0 THEN db.port ELSE conf.port
             a == c.port
  <1>1. /\ srv.st \in {"up", "exiting"} /\ host.data /\ conf.st = 1
        /\ count' = [count EXCEPT !.reloads = @ + 1] /\ srv' = [srv EXCEPT !.st = "exiting"]
        /\ pending' = IF c # conf THEN c ELSE pending
        /\ ghost' = [ghost EXCEPT !.asked = a]
        /\ UNCHANGED <<files, conf, host, db, svc, cmd>>
    BY DEF reloadConfig
  <1>2. p \in Nat
    BY DEF Typed, ConfigFile
  <1>3. c = [conf EXCEPT !.port = p]
    BY DEF configOverrides
  <1> HIDE DEF c, p
  <1>4. c \in ConfigFile /\ c.port = p /\ c.st = conf.st
    BY <1>2, <1>3 DEF Typed, ConfigFile
  <1>5. c # conf => db.port # 0
    <2>1. ASSUME db.port = 0 PROVE c = conf
      BY <1>3, <2>1 DEF p, Typed, ConfigFile
    <2> QED
      BY <2>1
  <1>6. a = p /\ a \in Nat
    BY <1>2, <1>4
  <1> HIDE DEF a
  <1>7. /\ ghost' \in Memory /\ ghost'.last = ghost.last /\ ghost'.cut = ghost.cut
        /\ ghost'.raced = ghost.raced /\ ghost'.asked = a
    BY <1>1, <1>6 DEF Typed, Memory
  <1>8. Turns("exiting")
    BY <1>1 DEF Typed, Server, Turns
  <1>9. count' \in [cmds : Nat, gen : Nat, sets : Nat, reloads : Nat, faults : Nat]
    BY <1>1 DEF Typed
  <1>10. CASE c # conf
    BY <1>1, <1>4, <1>5, <1>6, <1>7, <1>8, <1>9, <1>10 DEF p
  <1>11. CASE c = conf
    <2>1. conf.port = p /\ UNCHANGED pending /\ pending \in ConfigFile
      BY <1>1, <1>4, <1>11 DEF Typed
    <2> QED
      BY <1>1, <1>6, <1>7, <1>8, <1>9, <2>1 DEF p
  <1> QED
    BY <1>10, <1>11

LEMMA AdminDoes ==
    ASSUME Typed
    PROVE  /\ restartService => /\ srv.st = "exiting" /\ Exits
                                /\ UNCHANGED <<files, conf, pending, host, db, cmd, ghost, count>>
           /\ SystemctlStart => /\ cmd.name = "none" /\ SvcTyped' /\ svc'.active
                                /\ UNCHANGED <<files, conf, pending, host, db, srv, cmd, ghost, count>>
           /\ RotateKeys => /\ cmd.name = "none" /\ srv.st = "off" /\ SetsFile("dkim", 0)
                            /\ ghost' \in Memory /\ ghost'.last = "none" /\ ghost'.asked = ghost.asked
                            /\ ghost'.cut = ghost.cut /\ ghost'.raced = ghost.raced
                            /\ UNCHANGED <<conf, pending, host, db, svc, srv, cmd, count>>
  <1>1. restartService => /\ srv.st = "exiting" /\ Exits
                          /\ UNCHANGED <<files, conf, pending, host, db, cmd, ghost, count>>
    BY ExitDoes DEF restartService
  <1>2. SystemctlStart => /\ cmd.name = "none" /\ SvcTyped' /\ svc'.active
                          /\ UNCHANGED <<files, conf, pending, host, db, srv, cmd, ghost, count>>
    BY DEF SystemctlStart, SvcTyped
  <1>3. RotateKeys => SetsFile("dkim", 0)
    BY SetFile DEF RotateKeys, File
  <1>4. RotateKeys => /\ ghost' \in Memory /\ ghost'.last = "none" /\ ghost'.asked = ghost.asked
                      /\ ghost'.cut = ghost.cut /\ ghost'.raced = ghost.raced
    BY DEF RotateKeys, Typed, Memory
  <1> QED
    BY <1>1, <1>2, <1>3, <1>4 DEF RotateKeys

-----------------------------------------------------------------------------
(* Every step keeps the types and the shape of the lists.                  *)

LEMMA OthersAreTyped ==
    ASSUME Sound
    PROVE  OthersTyped /\ Typed /\ ListShape /\ GenShape
  BY DEF Sound, Typed, OthersTyped, Shape

LEMMA OffShape ==
    srv' = Off => srv' \in Server /\ GenShape'
  BY Constants DEF GenShape

LEMMA SoundStarts ==
    ASSUME Sound, NEW name, Starts(name)
    PROVE  Sound'
  <1>1. Typed'
    BY OthersAreTyped DEF Typed, OthersTyped, Starts
  <1> QED
    BY <1>1 DEF Sound, Shape, GenShape, Starts

LEMMA SoundEnds ==
    ASSUME Sound, Ends, OthersTyped', GenShape'
    PROVE  Sound'
  BY DEF Sound, Shape, Typed, OthersTyped, Ends

LEMMA SoundPuts ==
    ASSUME Sound, NEW k, NEW f, NEW v, NEW st, Puts(k, f, v, st)
    PROVE  Sound'
  <1>1. OthersTyped'
    BY OthersAreTyped DEF OthersTyped, Puts, SetsFile
  <1>2. GenShape'
    BY OthersAreTyped DEF GenShape, Puts
  <1> QED
    BY <1>1, <1>2, SoundMoves DEF Puts

LEMMA SoundUpgrade ==
    ASSUME Sound, createMaddyUser \/ StopForUpgrade \/ performUpgrade \/ StartAfterUpgrade
    PROVE  Sound'
  <1>0. OthersTyped /\ Typed /\ ListShape /\ GenShape
    BY OthersAreTyped
  <1>1. CASE createMaddyUser
    <2>1. OthersTyped' /\ GenShape' /\ Advance(<<>>) /\ ghost'.last = ghost.last
      BY <1>0, <1>1, UserDoes DEF OthersTyped, HostTyped, GenShape
    <2> QED
      BY <2>1, SoundMoves
  <1>2. CASE StopForUpgrade
    <2>1. OthersTyped' /\ GenShape' /\ Advance(<<>>) /\ ghost'.last = ghost.last
      BY <1>0, <1>2, UpgradeDoes, OffShape DEF OthersTyped, Stops
    <2> QED
      BY <2>1, SoundMoves
  <1>3. CASE performUpgrade
    <2>1. OthersTyped' /\ GenShape' /\ Advance(<<>>) /\ ghost'.last = ghost.last
      BY <1>0, <1>3, UpgradeDoes DEF OthersTyped, SetsFile, GenShape
    <2> QED
      BY <2>1, SoundMoves
  <1>4. CASE StartAfterUpgrade
    <2>1. OthersTyped' /\ GenShape' /\ Advance(<<>>) /\ ghost'.last = ghost.last
      BY <1>0, <1>4, UpgradeDoes DEF OthersTyped, SvcTyped, GenShape
    <2> QED
      BY <2>1, SoundMoves
  <1> QED
    BY <1>1, <1>2, <1>3, <1>4

LEMMA SoundUninstall ==
    ASSUME Sound, \/ stopService \/ disableService \/ removeSystemdFiles \/ removeConfigFiles
                  \/ removeStateDir \/ removeBinary \/ removeUser
    PROVE  Sound'
  <1>0. OthersTyped /\ Typed /\ ListShape /\ GenShape
    BY OthersAreTyped
  <1>1. CASE stopService
    <2>1. OthersTyped' /\ GenShape' /\ Advance(<<>>) /\ ghost'.last = ghost.last
      BY <1>0, <1>1, stopServiceDoes, OffShape DEF OthersTyped, Stops, GenShape, Removes
    <2> QED
      BY <2>1, SoundMoves
  <1>2. CASE disableService
    <2>1. OthersTyped' /\ GenShape' /\ Advance(<<>>) /\ ghost'.last = ghost.last
      BY <1>0, <1>2, disableServiceDoes DEF OthersTyped, SvcTyped, GenShape, Removes
    <2> QED
      BY <2>1, SoundMoves
  <1>3. CASE removeSystemdFiles
    <2>1. OthersTyped' /\ GenShape' /\ Advance(<<>>) /\ ghost'.last = ghost.last
      BY <1>0, <1>3, removeSystemdFilesDoes DEF OthersTyped, SetsFile, GenShape, Removes
    <2> QED
      BY <2>1, SoundMoves
  <1>4. CASE removeConfigFiles
    <2>1. OthersTyped' /\ GenShape' /\ Advance(<<>>) /\ ghost'.last = ghost.last
      BY <1>0, <1>4, removeConfigFilesDoes, Constants DEF OthersTyped, GenShape, Removes
    <2> QED
      BY <2>1, SoundMoves
  <1>5. CASE removeStateDir
    <2>1. OthersTyped' /\ GenShape' /\ Advance(<<>>) /\ ghost'.last = ghost.last
      BY <1>0, <1>5, removeStateDirDoes, Constants DEF OthersTyped, Goes, HostTyped, GenShape, Removes
    <2> QED
      BY <2>1, SoundMoves
  <1>6. CASE removeBinary
    <2>1. OthersTyped' /\ GenShape' /\ Advance(<<>>) /\ ghost'.last = ghost.last
      BY <1>0, <1>6, removeBinaryDoes DEF OthersTyped, GenShape, Removes
    <2> QED
      BY <2>1, SoundMoves
  <1>7. CASE removeUser
    <2>1. OthersTyped' /\ GenShape' /\ Advance(<<>>) /\ ghost'.last = ghost.last
      BY <1>0, <1>7, removeUserDoes, Constants DEF OthersTyped, Goes, HostTyped, GenShape, Removes
    <2> QED
      BY <2>1, SoundMoves
  <1> QED
    BY <1>1, <1>2, <1>3, <1>4, <1>5, <1>6, <1>7

LEMMA SoundServer ==
    ASSUME Sound, ExecStartPre \/ CopyCutShort \/ Boot \/ reloadConfig \/ restartService
    PROVE  Sound'
  <1>0. OthersTyped /\ Typed /\ ListShape /\ GenShape
    BY OthersAreTyped
  <1>1. CASE ExecStartPre
    <2>1. OthersTyped' /\ GenShape' /\ UNCHANGED cmd /\ ghost'.last = ghost.last
      BY <1>0, <1>1, StartDoes DEF OthersTyped, GenShape
    <2> QED
      BY <2>1, SoundOthers
  <1>2. CASE CopyCutShort
    <2>1. OthersTyped' /\ GenShape' /\ UNCHANGED cmd /\ ghost'.last = ghost.last
      BY <1>0, <1>2, CopyCutShortDoes DEF OthersTyped, GenShape
    <2> QED
      BY <2>1, SoundOthers
  <1>3. CASE Run
    <2>1. OthersTyped' /\ GenShape' /\ UNCHANGED cmd /\ ghost'.last = ghost.last
      BY <1>0, <1>3, RunDoes, OffShape DEF OthersTyped, GenShape, Exits, SvcTyped
    <2> QED
      BY <2>1, SoundOthers
  <1>4. CASE moduleMain
    <2>1. OthersTyped' /\ GenShape' /\ UNCHANGED cmd /\ ghost'.last = ghost.last
      BY <1>0, <1>4, moduleMainDoes, OffShape DEF OthersTyped, GenShape, Exits, SvcTyped, HostTyped, Turns
    <2> QED
      BY <2>1, SoundOthers
  <1>5. CASE loadOrGenerateKey
    <2>1. OthersTyped' /\ GenShape' /\ UNCHANGED cmd /\ ghost'.last = ghost.last
      BY <1>0, <1>5, loadOrGenerateKeyDoes, OffShape
         DEF OthersTyped, GenShape, Exits, SvcTyped, Begins, ToGenerate
    <2> QED
      BY <2>1, SoundOthers
  <1>6. CASE writeDNSRecord
    <2>1. OthersTyped' /\ GenShape' /\ UNCHANGED cmd /\ ghost'.last = ghost.last
      BY <1>0, <1>6, writeDNSRecordDoes DEF OthersTyped, GenShape, Turns, SetsFile
    <2> QED
      BY <2>1, SoundOthers
  <1>7. CASE generateAndWrite
    <2>1. OthersTyped' /\ GenShape' /\ UNCHANGED cmd /\ ghost'.last = ghost.last
      BY <1>0, <1>7, generateAndWriteDoes, OffShape DEF OthersTyped, GenShape, Turns, SetsFile, Exits, SvcTyped
    <2> QED
      BY <2>1, SoundOthers
  <1>8. CASE reloadConfig
    <2>1. OthersTyped' /\ GenShape' /\ UNCHANGED cmd /\ ghost'.last = ghost.last
      BY <1>0, <1>8, reloadConfigDoes DEF OthersTyped, GenShape, Turns
    <2> QED
      BY <2>1, SoundOthers
  <1>9. CASE restartService
    <2>1. OthersTyped' /\ GenShape' /\ UNCHANGED cmd /\ ghost'.last = ghost.last
      BY <1>0, <1>9, AdminDoes, OffShape DEF OthersTyped, GenShape, Exits, SvcTyped
    <2> QED
      BY <2>1, SoundOthers
  <1> QED
    BY <1>1, <1>2, <1>3, <1>4, <1>5, <1>6, <1>7, <1>8, <1>9 DEF Boot, initModules

Settings ==
    \/ \E p \in Ports \cup {0} : GenericSettingHandler(p)
    \/ \E v \in 1..2 : genericDBToggleHandler(v)
    \/ adminWebPath

LEMMA SoundAdmin ==
    ASSUME Sound, Settings \/ SystemctlStart \/ RotateKeys
    PROVE  Sound'
  <1>0. OthersTyped /\ Typed /\ ListShape /\ GenShape
    BY OthersAreTyped
  <1>1. CASE Settings
    <2>1. OthersTyped' /\ GenShape' /\ UNCHANGED cmd /\ ghost'.last = ghost.last
      BY <1>0, <1>1, SettingsDoes DEF Settings, OthersTyped, GenShape
    <2> QED
      BY <2>1, SoundOthers
  <1>2. CASE SystemctlStart
    <2>1. OthersTyped' /\ GenShape' /\ UNCHANGED cmd /\ ghost'.last = ghost.last
      BY <1>0, <1>2, AdminDoes DEF OthersTyped, GenShape, SvcTyped
    <2> QED
      BY <2>1, SoundOthers
  <1>3. CASE RotateKeys
    <2>1. OthersTyped' /\ GenShape' /\ UNCHANGED cmd /\ ghost'.last \in {"none", "failed"}
      BY <1>0, <1>3, AdminDoes DEF OthersTyped, GenShape, SetsFile
    <2> QED
      BY <2>1, SoundOthers
  <1> QED
    BY <1>1, <1>2, <1>3

LEMMA SoundEnding ==
    ASSUME Sound, StepFails \/ CommandDone \/ PowerLoss \/ PendingCutShort
    PROVE  Sound'
  <1>0. OthersTyped /\ Typed /\ ListShape /\ GenShape
    BY OthersAreTyped
  <1>1. CASE StepFails
    <2>1. Ends /\ OthersTyped' /\ GenShape'
      BY <1>0, <1>1, StepFailsDoes DEF OthersTyped, GenShape, Ends
    <2> QED
      BY <2>1, SoundEnds
  <1>2. CASE CommandDone
    <2>1. Ends /\ OthersTyped' /\ GenShape'
      BY <1>0, <1>2, CommandDoneDoes DEF OthersTyped, GenShape, Ends
    <2> QED
      BY <2>1, SoundEnds
  <1>3. CASE PowerLoss
    <2>1. Ends /\ OthersTyped' /\ GenShape'
      BY <1>0, <1>3, PowerLossDoes, OffShape DEF OthersTyped, Ends, SvcTyped
    <2> QED
      BY <2>1, SoundEnds
  <1>4. CASE PendingCutShort
    <2>1. Ends /\ OthersTyped' /\ GenShape'
      BY <1>0, <1>4, PendingCutShortDoes, OffShape DEF OthersTyped, Ends, SvcTyped
    <2> QED
      BY <2>1, SoundEnds
  <1> QED
    BY <1>1, <1>2, <1>3, <1>4

(* The actions by what they are proved with.                               *)
Quiets ==
    \/ checkSystemRequirements \/ createDirectories \/ setupPermissions
    \/ setupCertificates \/ prepareDKIMKeys \/ generateDKIMDNSRecord
    \/ installSystemdFiles \/ generateConfigFile \/ installBinary \/ installIrohRelay
    \/ DryStep \/ VerifySignature \/ CopyTemporary

LEMMA NextSplit ==
    ASSUME Next
    PROVE  \/ \E o \in InstallOpts : installCommand(o)
           \/ \E o \in UpgradeOpts : upgradeCommand(o)
           \/ \E o \in UninstallOpts : uninstallCommand(o)
           \/ Quiets
           \/ CreateFile \/ WriteFile
           \/ createMaddyUser \/ StopForUpgrade \/ performUpgrade \/ StartAfterUpgrade
           \/ stopService \/ disableService \/ removeSystemdFiles \/ removeConfigFiles
           \/ removeStateDir \/ removeBinary \/ removeUser
           \/ ExecStartPre \/ CopyCutShort \/ Boot \/ reloadConfig \/ restartService
           \/ Settings \/ SystemctlStart \/ RotateKeys
           \/ StepFails \/ CommandDone \/ PowerLoss \/ PendingCutShort
  BY DEF Next, CommandStep, Quiets, Settings

LEMMA SoundNext ==
    ASSUME Sound, [Next]_vars
    PROVE  Sound'
  <1>0. Typed /\ ListShape
    BY OthersAreTyped
  <1>1. CASE UNCHANGED vars
    BY <1>1 DEF vars, Sound, Typed, Shape, ListShape, GenShape, ToDo, Writing
  <1>2. CASE \/ \E o \in InstallOpts : installCommand(o)
             \/ \E o \in UpgradeOpts : upgradeCommand(o)
             \/ \E o \in UninstallOpts : uninstallCommand(o)
    BY <1>0, <1>2, InstallStarts, UpgradeStarts, UninstallStarts, SoundStarts
  <1>3. CASE Quiets
    BY <1>0, <1>3, InstallSteps, OtherSteps, SoundQuiet DEF Quiets
  <1>4. CASE CreateFile \/ WriteFile
    BY <1>0, <1>4, CreateFileDoes, WriteFileDoes, SoundPuts
  <1> QED
    BY <1>1, <1>2, <1>3, <1>4, NextSplit, SoundUpgrade, SoundUninstall, SoundServer, SoundAdmin, SoundEnding

LEMMA SoundInit ==
    Init => Sound
  <1> SUFFICES ASSUME Init PROVE Sound
    OBVIOUS
  <1>1. files \in [File -> Nat \cup {Torn}] /\ conf \in ConfigFile /\ pending \in ConfigFile /\ srv \in Server
    BY Constants DEF Init
  <1>2. host \in [user : BOOLEAN, data : BOOLEAN, custom : BOOLEAN]
    BY OptsAssumption DEF Init
  <1>3. cmd \in Command /\ cmd.todo = <<>> /\ ghost \in Memory /\ ghost.last = "none"
    BY NoCmdTyped DEF Init, Memory
  <1>4. Typed
    BY <1>1, <1>2, <1>3 DEF Init, Typed
  <1>5. ListShape
    <2>1. \A o : ~Has(cmd.todo, o)
      BY <1>3 DEF Has
    <2> QED
      BY <1>3, <2>1 DEF ListShape, ToDo, Writing, Writes, Ordered, AllSteps
  <1>6. GenShape
    BY Constants DEF Init, GenShape
  <1> QED
    BY <1>3, <1>4, <1>5, <1>6 DEF Sound, Shape

(* In every state the types hold, what is left of a command is a list of   *)
(* its own steps with the writes in order, and so is what is left of the   *)
(* key generation of modify.dkim.                                          *)
THEOREM SoundInvariant == Spec => []Sound
  BY SoundInit, SoundNext, PTL DEF Spec

-----------------------------------------------------------------------------
(* What the lists of steps write.                                          *)

LEMMA WritesNew ==
    /\ \A f, g : f \in OpNames => (Writes(Write(f), g) <=> g = f)
    /\ \A g : ~Writes(<<>>, g) /\ ~Writes(<<Step("record")>>, g)
    /\ \A g : Writes(Write("cert") \o Write("tkey"), g) <=> g \in {"cert", "tkey"}
    /\ \A g : Writes(Write("dkim") \o <<Step("record")>>, g) <=> g = "dkim"
    /\ \A f, s : f \in OpNames => ~Has(Write(f), Step(s))
    /\ Has(<<Step("record")>>, Step("record")) /\ Has(Write("dkim") \o <<Step("record")>>, Step("record"))
  <1> DEFINE r == <<Step("record")>>
  <1>1. \A f, g : f \in OpNames => (Writes(Write(f), g) <=> g = f)
    <2> SUFFICES ASSUME NEW f \in OpNames, NEW g PROVE Writes(Write(f), g) <=> g = f
      OBVIOUS
    <2>1. \A o : Has(Write(f), o) <=> o \in {<<"create", f>>, <<"write", f>>}
      BY HasWrite
    <2> QED
      BY <2>1 DEF Writes
  <1>2. r \in Seq(Op) /\ \A o : Has(r, o) <=> o = Step("record")
    <2>1. Step("record") \in Op
      BY DEF Step, Op, OpNames
    <2>2. r \in Seq(Op)
      BY <2>1
    <2>3. \A o : Has(r, o) <=> o = Step("record")
      BY NameLists, Zenon
    <2> QED
      BY <2>2, <2>3
  <1> HIDE DEF r
  <1>3. \A g, s : Step(s) # <<"create", g>> /\ Step(s) # <<"write", g>>
    BY DEF Step
  <1>4. \A g : ~Writes(<<>>, g) /\ ~Writes(r, g)
    <2>1. \A o : ~Has(<<>>, o)
      BY NameLists, Zenon
    <2> QED
      BY <1>2, <1>3, <2>1, Zenon DEF Writes
  <1>5. "cert" \in OpNames /\ "tkey" \in OpNames /\ "dkim" \in OpNames
    BY DEF OpNames
  <1>6. Write("cert") \in Seq(Op) /\ Write("tkey") \in Seq(Op) /\ Write("dkim") \in Seq(Op)
    BY <1>5, HasWrite
  <1>7. \A o : Has(Write("cert") \o Write("tkey"), o) <=> Has(Write("cert"), o) \/ Has(Write("tkey"), o)
    BY <1>6, HasConcat
  <1>8. \A o : Has(Write("dkim") \o r, o) <=> Has(Write("dkim"), o) \/ Has(r, o)
    BY <1>2, <1>6, HasConcat
  <1>9. \A g : Writes(Write("cert") \o Write("tkey"), g) <=> g \in {"cert", "tkey"}
    BY <1>1, <1>5, <1>7, ZenonT(60) DEF Writes
  <1>10. \A g : Writes(Write("dkim") \o r, g) <=> g = "dkim"
    BY <1>1, <1>4, <1>5, <1>8 DEF Writes
  <1>11. \A f, s : f \in OpNames => ~Has(Write(f), Step(s))
    BY <1>3, HasWrite
  <1>12. Has(r, Step("record")) /\ Has(Write("dkim") \o r, Step("record"))
    BY <1>2, <1>8
  <1> QED
    BY <1>1, <1>4, <1>9, <1>10, <1>11, <1>12 DEF r

LEMMA WritingAdvances ==
    ASSUME NEW new, Advance(new), NEW f
    PROVE  /\ Writing(f)' => Writes(new, f) \/ Writing(f)
           /\ new = <<>> => (Writing(f)' => Writing(f))
  <1>1. Writing(f)' => Writes(new, f) \/ Writing(f)
    BY DEF Advance, Writing, Writes
  <1> QED
    BY <1>1, WritesNew

LEMMA StartsClean ==
    ASSUME NEW name, Starts(name)
    PROVE  \A f : ~Writing(f)'
  <1>1. cmd'.todo \in Seq(Op) /\ AllSteps(cmd'.todo)
    BY DEF Starts, Command
  <1> QED
    BY <1>1, OrderedSteps DEF Writing

LEMMA EndsClean ==
    ASSUME Ends
    PROVE  (\A f : ~Writing(f)') /\ (\A s : ~ToDo(s)')
  BY EmptyShape DEF Ends

LEMMA WritingInstalls ==
    ASSUME Sound, NEW f, Writing(f)
    PROVE  cmd.name = "install"
  <1>1. cmd.todo \in Seq(Op) /\ (cmd.name # "install" => AllSteps(cmd.todo))
    BY DEF Sound, Typed, Command, Shape, ListShape
  <1> QED
    BY <1>1, OrderedSteps DEF Writing

-----------------------------------------------------------------------------
(* The key and its record.                                                 *)

KeyFrame ==
    /\ files'["dkim"] = files["dkim"] /\ files'["dns"] = files["dns"]
    /\ (ghost.raced => ghost'.raced) /\ (ghost.cut => ghost'.cut)
    /\ srv'.st = "gen" => srv' = srv
    /\ srv.st = "gen" => srv' = srv \/ ghost'.cut
    /\ Writing("dkim")' => Writing("dkim")
    /\ Writing("dns")' => Writing("dns")
    /\ srv'.st = "gen" /\ ~ghost'.raced /\ cmd'.name = "install" => cmd.name = "install"

LEMMA KeyFramed ==
    ASSUME KeyInv, KeyFrame
    PROVE  KeyInv'
  BY DEF KeyInv, KeyFrame, Generating, RecordMatchesKey

LEMMA KeyStarts ==
    ASSUME Sound, KeyInv, NEW name, Starts(name), ghost.raced => ghost'.raced,
           name = "install" => (ghost'.raced <=> ghost.raced \/ srv.st = "gen")
    PROVE  KeyInv'
  <1>1. ~Writing("dkim")' /\ ~Writing("dns")'
    BY StartsClean
  <1>2. KeyFrame
    BY <1>1 DEF KeyFrame, Starts
  <1> QED
    BY <1>2, KeyFramed

LEMMA KeyQuiets ==
    ASSUME Sound, KeyInv, Quiets
    PROVE  KeyInv'
  <1>0. Typed /\ ListShape
    BY OthersAreTyped
  <1>1. ASSUME NEW new, Quiet(new), ~Writes(new, "dkim"), ~Writes(new, "dns") PROVE KeyInv'
    <2>1. (Writing("dkim")' => Writing("dkim")) /\ (Writing("dns")' => Writing("dns")) /\ cmd'.name = cmd.name
      BY <1>1, WritingAdvances DEF Quiet, Advance, Keeps
    <2>2. KeyFrame
      BY <1>1, <2>1 DEF KeyFrame, Quiet, OnlyCommand
    <2> QED
      BY <2>2, KeyFramed
  <1>2. /\ ~Writes(<<>>, "dkim") /\ ~Writes(<<>>, "dns")
        /\ ~Writes(<<Step("record")>>, "dkim") /\ ~Writes(<<Step("record")>>, "dns")
        /\ ~Writes(Write("cert") \o Write("tkey"), "dkim") /\ ~Writes(Write("cert") \o Write("tkey"), "dns")
        /\ \A f \in {"unit", "conf", "bin", "iroh"} : ~Writes(Write(f), "dkim") /\ ~Writes(Write(f), "dns")
    <2>1. {"unit", "conf", "bin", "iroh"} \subseteq OpNames
      BY DEF OpNames
    <2> QED
      BY <2>1, WritesNew
  <1>3. CASE prepareDKIMKeys
    <2> DEFINE w == Write("dkim") \o <<Step("record")>>
    <2>1. CASE files["dns"] # 0 \/ files["dkim"] # 0
      <3>1. Quiet(<<>>) \/ Quiet(<<Step("record")>>)
        BY <1>0, <1>3, <2>1, InstallSteps
      <3> QED
        BY <1>1, <1>2, <3>1
    <2>2. CASE files["dns"] = 0 /\ files["dkim"] = 0
      <3>1. Quiet(w)
        BY <1>0, <1>3, <2>2, InstallSteps
      <3>2. ~Writes(w, "dns") /\ (Writing("dns")' => Writing("dns"))
        <4>1. ~Writes(w, "dns")
          BY WritesNew
        <4> QED
          BY <3>1, <4>1, WritingAdvances DEF Quiet
      <3> QED
        BY <2>2, <3>1, <3>2, Constants DEF KeyInv, Generating, RecordMatchesKey, Quiet, OnlyCommand, Advance, Keeps
    <2> QED
      BY <2>1, <2>2
  <1>4. CASE generateDKIMDNSRecord
    <2>1. Quiet(Write("dns")) /\ files["dkim"] > 0 /\ \A f : ~Writing(f)
      BY <1>0, <1>4, InstallSteps, AtDoes DEF generateDKIMDNSRecord
    <2>2. ~Writing("dkim")'
      <3>1. "dns" \in OpNames
        BY DEF OpNames
      <3>2. ~Writes(Write("dns"), "dkim")
        BY <3>1, WritesNew
      <3> QED
        BY <2>1, <3>2, WritingAdvances DEF Quiet
    <2> QED
      BY <2>1, <2>2 DEF KeyInv, Generating, RecordMatchesKey, Quiet, OnlyCommand, Advance, Keeps
  <1>5. CASE setupCertificates
    <2>1. Quiet(<<>>) \/ Quiet(Write("cert") \o Write("tkey"))
      BY <1>0, <1>5, InstallSteps
    <2> QED
      BY <1>1, <1>2, <2>1
  <1>6. CASE installSystemdFiles \/ generateConfigFile \/ installBinary \/ installIrohRelay
    <2>1. Quiet(Write("unit")) \/ Quiet(Write("conf")) \/ Quiet(Write("bin")) \/ Quiet(Write("iroh"))
      BY <1>0, <1>6, InstallSteps
    <2> QED
      BY <1>1, <1>2, <2>1
  <1>7. CASE \/ checkSystemRequirements \/ createDirectories \/ setupPermissions
             \/ DryStep \/ VerifySignature \/ CopyTemporary
    <2>1. Quiet(<<>>)
      BY <1>0, <1>7, InstallSteps, OtherSteps
    <2> QED
      BY <1>1, <1>2, <2>1
  <1> QED
    BY <1>3, <1>4, <1>5, <1>6, <1>7 DEF Quiets

LEMMA KeyPuts ==
    ASSUME Sound, KeyInv, NEW k \in {"create", "write"}, NEW f \in File \cup {"conf"}, NEW v, NEW st,
           Puts(k, f, v, st), k = "create" => v = Torn, k = "write" => v = Contents(f),
           k = "create" /\ f = "dkim" => files["dkim"] = 0
    PROVE  KeyInv'
  <1>1. /\ (Writing("dkim")' => Writing("dkim")) /\ (Writing("dns")' => Writing("dns"))
        /\ Writing(f) /\ cmd'.name = cmd.name /\ cmd.name = "install"
    BY WritingAdvances DEF Puts, Advance, Keeps
  <1>2. "dkim" \in File /\ "dns" \in File
    BY DEF File
  <1>3. CASE f \notin {"dkim", "dns"}
    <2>1. files'["dkim"] = files["dkim"] /\ files'["dns"] = files["dns"]
      BY <1>2, <1>3 DEF Puts, SetsFile
    <2>2. KeyFrame
      BY <1>1, <2>1 DEF KeyFrame, Puts
    <2> QED
      BY <2>2, KeyFramed
  <1>4. CASE f = "dkim"
    <2>1. files'["dkim"] = v /\ files'["dns"] = files["dns"]
      BY <1>2, <1>4 DEF Puts, SetsFile
    <2>2. ~Writing("dns")
      BY <1>1, <1>4, OthersAreTyped DEF ListShape, Ordered, Writing
    <2> QED
      BY <1>1, <1>4, <2>1, <2>2 DEF KeyInv, Generating, RecordMatchesKey, Puts
  <1>5. CASE f = "dns"
    <2>1. files'["dns"] = v /\ files'["dkim"] = files["dkim"]
      BY <1>2, <1>5 DEF Puts, SetsFile
    <2>2. ~Writing("dkim")
      BY <1>1, <1>5, OthersAreTyped DEF ListShape, Ordered, Writing
    <2>3. v = Torn \/ v = files["dkim"]
      BY <1>5 DEF Contents
    <2> QED
      BY <1>1, <1>5, <2>1, <2>2, <2>3, Constants DEF KeyInv, Generating, RecordMatchesKey, Puts
  <1> QED
    BY <1>3, <1>4, <1>5

LEMMA KeyCommands ==
    ASSUME Sound, KeyInv, \/ createMaddyUser \/ StopForUpgrade \/ performUpgrade \/ StartAfterUpgrade
                          \/ stopService \/ disableService \/ removeSystemdFiles \/ removeConfigFiles
                          \/ removeBinary
    PROVE  KeyInv'
  <1>0. Typed /\ ListShape /\ "dkim" \in File /\ "dns" \in File
    BY OthersAreTyped DEF File
  <1>1. ASSUME Advance(<<>>) PROVE /\ (Writing("dkim")' => Writing("dkim")) /\ (Writing("dns")' => Writing("dns"))
                                   /\ cmd'.name = cmd.name
    BY <1>1, WritingAdvances DEF Advance, Keeps
  <1>2. CASE createMaddyUser \/ StartAfterUpgrade \/ disableService
    <2>1. Advance(<<>>) /\ UNCHANGED <<files, srv, ghost>>
      BY <1>0, <1>2, UserDoes, UpgradeDoes, disableServiceDoes DEF Removes
    <2>2. KeyFrame
      BY <1>1, <2>1 DEF KeyFrame
    <2> QED
      BY <2>2, KeyFramed
  <1>3. CASE StopForUpgrade \/ stopService
    <2>1. Advance(<<>>) /\ UNCHANGED files /\ (Stops \/ UNCHANGED <<srv, ghost>>)
      BY <1>0, <1>3, UpgradeDoes, stopServiceDoes DEF Removes
    <2>2. KeyFrame
      BY <1>1, <2>1, Constants DEF KeyFrame, Stops
    <2> QED
      BY <2>2, KeyFramed
  <1>4. CASE performUpgrade \/ removeSystemdFiles \/ removeConfigFiles \/ removeBinary
    <2>1. /\ Advance(<<>>) /\ UNCHANGED <<srv, ghost>>
          /\ files'["dkim"] = files["dkim"] /\ files'["dns"] = files["dns"]
      BY <1>0, <1>4, UpgradeDoes, removeSystemdFilesDoes, removeConfigFilesDoes, removeBinaryDoes
         DEF Removes, SetsFile
    <2>2. KeyFrame
      BY <1>1, <2>1 DEF KeyFrame
    <2> QED
      BY <2>2, KeyFramed
  <1> QED
    BY <1>2, <1>3, <1>4

LEMMA KeyGone ==
    ASSUME Sound, KeyInv, removeStateDir \/ removeUser
    PROVE  KeyInv'
  <1>0. Typed /\ ListShape
    BY OthersAreTyped
  <1>1. /\ Advance(<<>>) /\ cmd.name = "uninstall" /\ UNCHANGED srv
        /\ Goes \/ UNCHANGED <<files, ghost>>
    BY <1>0, removeStateDirDoes, removeUserDoes DEF Removes
  <1>2. cmd'.name = cmd.name /\ ~Writing("dkim")' /\ ~Writing("dns")'
    <2>1. ~Writing("dkim") /\ ~Writing("dns")
      BY <1>1, WritingInstalls
    <2> QED
      BY <1>1, <2>1, WritingAdvances DEF Advance, Keeps
  <1>3. CASE UNCHANGED <<files, ghost>>
    <2>1. KeyFrame
      BY <1>1, <1>2, <1>3 DEF KeyFrame
    <2> QED
      BY <2>1, KeyFramed
  <1>4. CASE Goes
    BY <1>1, <1>2, <1>4, Constants DEF Goes, KeyInv, Generating, RecordMatchesKey
  <1> QED
    BY <1>1, <1>3, <1>4

LEMMA KeyBoot ==
    ASSUME Sound, KeyInv, Boot
    PROVE  KeyInv'
  <1>0. Typed /\ ListShape /\ GenShape /\ "dkim" \in File /\ "dns" \in File
    BY OthersAreTyped DEF File
  <1>1. UNCHANGED cmd => /\ cmd'.name = cmd.name
                         /\ (Writing("dkim")' <=> Writing("dkim")) /\ (Writing("dns")' <=> Writing("dns"))
    BY DEF Writing
  <1>2. CASE Run \/ moduleMain
    <2>1. UNCHANGED <<files, cmd, ghost>> /\ srv.st # "gen" /\ srv'.st # "gen"
      BY <1>0, <1>2, RunDoes, moduleMainDoes, Constants DEF Exits, Turns
    <2>2. KeyFrame
      BY <1>1, <2>1 DEF KeyFrame
    <2> QED
      BY <2>2, KeyFramed
  <1>3. CASE loadOrGenerateKey
    <2>1. UNCHANGED <<files, cmd>> /\ srv.st # "gen"
      BY <1>0, <1>3, loadOrGenerateKeyDoes
    <2>2. CASE Begins
      <3>1. Head(srv'.todo) = "record"
        BY <2>2 DEF Begins
      <3>2. UNCHANGED <<files, cmd>> /\ files["dkim"] = 0 /\ srv'.st = "gen" /\ ghost'.cut = ghost.cut
            /\ (ghost'.raced <=> ghost.raced \/ cmd.name = "install")
        BY <2>1, <2>2 DEF Begins
      <3> QED
        BY <1>1, <3>1, <3>2, Constants DEF KeyInv, Generating, RecordMatchesKey
    <2>3. CASE UNCHANGED ghost /\ srv'.st # "gen"
      <3>1. KeyFrame
        BY <1>1, <2>1, <2>3 DEF KeyFrame
      <3> QED
        BY <3>1, KeyFramed
    <2> QED
      BY <1>0, <1>3, <2>2, <2>3, loadOrGenerateKeyDoes, Constants DEF Exits
  <1>4. CASE writeDNSRecord
    <2>1. /\ srv.st = "gen" /\ srv'.st = "gen" /\ srv'.dkim = srv.dkim /\ UNCHANGED <<cmd, ghost>>
          /\ Head(srv.todo) \in {"record", "recorded"} /\ Head(srv'.todo) \in {"recorded", "key"}
          /\ files'["dkim"] = files["dkim"]
          /\ Head(srv'.todo) = "key" => files'["dns"] = srv.dkim
      BY <1>0, <1>4, writeDNSRecordDoes DEF Turns, SetsFile
    <2>2. ~ghost.raced => cmd.name # "install" /\ files["dkim"] = 0
      BY <2>1 DEF KeyInv, Generating
    <2>3. ~ghost.raced => ~Writing("dkim") /\ ~Writing("dns")
      BY <2>2, WritingInstalls
    <2> QED
      BY <1>1, <2>1, <2>2, <2>3, Constants DEF KeyInv, Generating, RecordMatchesKey
  <1>5. CASE generateAndWrite
    <2>1. srv.st = "gen" /\ UNCHANGED <<cmd, ghost>>
      BY <1>0, <1>5, generateAndWriteDoes
    <2>2. ~ghost.raced => /\ cmd.name # "install"
                          /\ files["dkim"] = 0 \/ (Head(srv.todo) = "written" /\ files["dkim"] = Torn)
                          /\ Head(srv.todo) \in {"key", "written"} => files["dns"] \in {0, srv.dkim}
      BY <2>1 DEF KeyInv, Generating
    <2>3. ~ghost.raced => ~Writing("dkim") /\ ~Writing("dns")
      BY <2>2, WritingInstalls
    <2>4. CASE /\ Head(srv.todo) = "key" /\ files'["dkim"] = Torn /\ files'["dns"] = files["dns"]
               /\ srv'.st = "gen" /\ Head(srv'.todo) = "written" /\ srv'.dkim = srv.dkim
      BY <1>1, <2>1, <2>2, <2>3, <2>4, Constants DEF KeyInv, Generating, RecordMatchesKey
    <2>5. CASE Head(srv.todo) = "key" /\ files["dkim"] # 0
      BY <2>1, <2>2, <2>5 DEF KeyInv
    <2>6. CASE /\ Head(srv.todo) = "written" /\ files'["dkim"] = srv.dkim /\ files'["dns"] = files["dns"]
               /\ srv'.st = "up" /\ srv.dkim > 0
      BY <1>1, <2>1, <2>2, <2>3, <2>6, Constants DEF KeyInv, Generating, RecordMatchesKey
    <2> QED
      BY <1>0, <1>5, <2>4, <2>5, <2>6, generateAndWriteDoes DEF Turns, SetsFile
  <1> QED
    BY <1>2, <1>3, <1>4, <1>5 DEF Boot, initModules

LEMMA KeyOthers ==
    ASSUME Sound, KeyInv, \/ ExecStartPre \/ CopyCutShort \/ reloadConfig \/ restartService
                          \/ Settings \/ SystemctlStart
    PROVE  KeyInv'
  <1>0. Typed /\ ListShape
    BY OthersAreTyped
  <1>1. /\ UNCHANGED <<files, cmd>> /\ ghost'.raced = ghost.raced /\ ghost'.cut = ghost.cut
        /\ srv' = srv \/ (srv.st # "gen" /\ srv'.st # "gen")
    BY <1>0, StartDoes, CopyCutShortDoes, reloadConfigDoes, AdminDoes, SettingsDoes, Constants
       DEF Settings, Turns, Exits
  <1>2. KeyFrame
    BY <1>1 DEF KeyFrame, Writing
  <1> QED
    BY <1>2, KeyFramed

LEMMA KeyRotates ==
    ASSUME Sound, KeyInv, RotateKeys
    PROVE  KeyInv'
  <1>0. Typed /\ ListShape /\ "dns" \in File
    BY OthersAreTyped DEF File
  <1>1. /\ cmd.name = "none" /\ srv.st = "off" /\ UNCHANGED <<cmd, srv>>
        /\ files'["dkim"] = 0 /\ files'["dns"] = files["dns"]
        /\ ghost'.cut = ghost.cut /\ ghost'.raced = ghost.raced
    BY <1>0, AdminDoes DEF SetsFile
  <1>2. ~Writing("dkim") /\ ~Writing("dns")
    BY <1>1, WritingInstalls
  <1>3. ~Writing("dkim")' /\ ~Writing("dns")'
    BY <1>1, <1>2 DEF Writing
  <1> QED
    BY <1>1, <1>3, Constants DEF KeyInv, Generating, RecordMatchesKey

LEMMA KeyEnds ==
    ASSUME Sound, KeyInv, StepFails \/ CommandDone \/ PowerLoss \/ PendingCutShort
    PROVE  KeyInv'
  <1>0. Typed /\ ListShape
    BY OthersAreTyped
  <1>1. /\ Ends /\ UNCHANGED files /\ (ghost.cut => ghost'.cut)
        /\ srv' = srv \/ (srv'.st # "gen" /\ (srv.st = "gen" => ghost'.cut))
    BY <1>0, StepFailsDoes, CommandDoneDoes, PowerLossDoes, PendingCutShortDoes, Constants
  <1>2. KeyFrame
    BY <1>1, EndsClean DEF KeyFrame, Ends
  <1> QED
    BY <1>2, KeyFramed

LEMMA KeyNext ==
    ASSUME Sound, KeyInv, [Next]_vars
    PROVE  KeyInv'
  <1>0. Typed /\ ListShape
    BY OthersAreTyped
  <1>1. CASE UNCHANGED vars
    BY <1>1 DEF vars, KeyInv, Generating, RecordMatchesKey, Writing
  <1>2. CASE \/ \E o \in InstallOpts : installCommand(o)
             \/ \E o \in UpgradeOpts : upgradeCommand(o)
             \/ \E o \in UninstallOpts : uninstallCommand(o)
    BY <1>0, <1>2, InstallStarts, UpgradeStarts, UninstallStarts, KeyStarts
  <1>3. CASE CreateFile
    BY <1>0, <1>3, CreateFileDoes, KeyPuts
  <1>4. CASE WriteFile
    BY <1>0, <1>4, WriteFileDoes, KeyPuts
  <1> QED
    BY <1>1, <1>2, <1>3, <1>4, NextSplit, KeyQuiets, KeyCommands, KeyGone, KeyBoot, KeyOthers, KeyRotates, KeyEnds

LEMMA KeyInit ==
    Init => KeyInv
  <1> SUFFICES ASSUME Init PROVE KeyInv
    OBVIOUS
  <1>1. files["dkim"] = 0 /\ files["dns"] = 0 /\ srv.st = "off"
    BY Constants DEF Init, File
  <1>2. ~Writing("dkim") /\ ~Writing("dns")
    BY SoundInit, WritingInstalls, NoCmdTyped DEF Init
  <1> QED
    BY <1>1, <1>2, Constants DEF KeyInv, Generating, RecordMatchesKey

(* The key and its record, in every state: who is writing which of the     *)
(* two, and what the other one is meanwhile.                               *)
THEOREM KeyInvariant == Spec => [](Sound /\ KeyInv)
  <1>1. Init => Sound /\ KeyInv
    BY SoundInit, KeyInit
  <1>2. Sound /\ KeyInv /\ [Next]_vars => (Sound /\ KeyInv)'
    BY SoundNext, KeyNext
  <1> QED
    BY <1>1, <1>2, PTL DEF Spec

(* The DNS record on the disk is the record of the DKIM key on the disk,   *)
(* whether the installer or the first start of the server made them and    *)
(* wherever either was cut short, unless the two made keys side by side.   *)
THEOREM RecordMatchesKeyTheorem == Spec => []RecordMatchesKey
  <1>1. Sound /\ KeyInv => RecordMatchesKey
    BY DEF KeyInv, RecordMatchesKey
  <1> QED
    BY <1>1, KeyInvariant, PTL

-----------------------------------------------------------------------------
(* Reloads.                                                                *)

ReloadFrame ==
    /\ UNCHANGED <<conf, pending>>
    /\ ghost'.asked = ghost.asked \/ ghost'.asked = 0
    /\ srv' = srv \/ srv'.st = "off"
    /\ srv'.st = "exiting" => db'.port = db.port /\ (host'.data => host.data)

LEMMA ReloadFramed ==
    ASSUME ReloadInv, ReloadFrame
    PROVE  ReloadInv'
  BY DEF ReloadInv, ReloadFrame

LEMMA ReloadQuiets ==
    ASSUME Sound, Quiets
    PROVE  ReloadFrame
  <1>1. OnlyCommand
    BY DEF Quiets, checkSystemRequirements, createDirectories, setupPermissions, setupCertificates,
           prepareDKIMKeys, generateDKIMDNSRecord, installSystemdFiles, generateConfigFile,
           installBinary, installIrohRelay, DryStep, VerifySignature, CopyTemporary
  <1> QED
    BY <1>1 DEF OnlyCommand, ReloadFrame

LEMMA ReloadPuts ==
    ASSUME ReloadInv, NEW k, NEW f, NEW v, NEW st, Puts(k, f, v, st)
    PROVE  ReloadInv'
  <1>1. CASE f # "conf"
    <2>1. ReloadFrame
      BY <1>1 DEF ReloadFrame, Puts
    <2> QED
      BY <2>1, ReloadFramed
  <1>2. CASE f = "conf"
    BY <1>2 DEF ReloadInv, Puts
  <1> QED
    BY <1>1, <1>2

LEMMA ReloadCommands ==
    ASSUME Sound, \/ createMaddyUser \/ StopForUpgrade \/ performUpgrade \/ StartAfterUpgrade
                  \/ stopService \/ disableService \/ removeSystemdFiles \/ removeBinary
    PROVE  ReloadFrame
  <1>0. Typed /\ ListShape
    BY OthersAreTyped
  <1>1. CASE createMaddyUser \/ performUpgrade \/ StartAfterUpgrade \/ disableService
    BY <1>0, <1>1, UserDoes, UpgradeDoes, disableServiceDoes DEF ReloadFrame
  <1>2. CASE removeSystemdFiles \/ removeBinary
    BY <1>0, <1>2, removeSystemdFilesDoes, removeBinaryDoes DEF ReloadFrame
  <1>3. CASE StopForUpgrade \/ stopService
    BY <1>0, <1>3, UpgradeDoes, stopServiceDoes, Constants DEF ReloadFrame, Stops
  <1> QED
    BY <1>1, <1>2, <1>3

LEMMA ReloadRemoves ==
    ASSUME Sound, ReloadInv, removeConfigFiles \/ removeStateDir \/ removeUser
    PROVE  ReloadInv'
  <1>0. Typed /\ ListShape
    BY OthersAreTyped
  <1>1. CASE removeConfigFiles
    <2>1. UNCHANGED <<pending, host, db, svc, srv, ghost>> /\ (conf'.st = 0 \/ UNCHANGED conf)
      BY <1>0, <1>1, removeConfigFilesDoes, Constants
    <2> QED
      BY <2>1 DEF ReloadInv
  <1>2. CASE removeStateDir \/ removeUser
    <2>1. UNCHANGED <<conf, srv>> /\ (Goes \/ UNCHANGED <<pending, db, host, ghost>>)
      BY <1>0, <1>2, removeStateDirDoes, removeUserDoes
    <2> QED
      BY <2>1, Constants DEF ReloadInv, Goes
  <1> QED
    BY <1>1, <1>2

LEMMA ReloadServer ==
    ASSUME Sound, ReloadInv, ExecStartPre \/ CopyCutShort \/ Boot \/ reloadConfig \/ restartService
    PROVE  ReloadInv'
  <1>0. Typed /\ ListShape /\ GenShape
    BY OthersAreTyped
  <1>1. CASE ExecStartPre
    <2>1. /\ srv'.st = "start" /\ pending'.st = 0 /\ UNCHANGED ghost
          /\ pending.st # 0 => conf' = pending
          /\ pending.st = 0 => UNCHANGED conf
      BY <1>0, <1>1, StartDoes
    <2> QED
      BY <2>1 DEF ReloadInv
  <1>2. CASE CopyCutShort
    <2>1. srv.st = "off" /\ pending.st # 0 /\ UNCHANGED <<pending, host, db, srv, ghost>>
      BY <1>0, <1>2, CopyCutShortDoes
    <2> QED
      BY <2>1 DEF ReloadInv
  <1>3. CASE Run
    <2>1. /\ srv.st = "start" /\ UNCHANGED <<conf, pending, ghost>>
          /\ srv'.st = "off" \/ (conf.st # 0 /\ srv'.st = "init" /\ srv'.port = conf.port)
      BY <1>0, <1>3, RunDoes, Constants DEF Exits
    <2> QED
      BY <2>1 DEF ReloadInv
  <1>4. CASE moduleMain \/ initModules
    <2>1. /\ srv.st \in {"init", "dkim", "gen"} /\ UNCHANGED <<conf, pending>> /\ ghost'.asked = ghost.asked
          /\ srv'.st = "off" \/ (srv'.st \in {"dkim", "gen", "up"} /\ srv'.port = srv.port)
      <3>1. CASE moduleMain
        BY <1>0, <3>1, moduleMainDoes, Constants DEF Exits, Turns
      <3>2. CASE loadOrGenerateKey
        BY <1>0, <3>2, loadOrGenerateKeyDoes, Constants DEF Exits, Begins
      <3>3. CASE writeDNSRecord
        BY <1>0, <3>3, writeDNSRecordDoes DEF Turns
      <3>4. CASE generateAndWrite
        BY <1>0, <3>4, generateAndWriteDoes, Constants DEF Exits, Turns
      <3> QED
        BY <1>4, <3>1, <3>2, <3>3, <3>4 DEF initModules
    <2> QED
      BY <2>1 DEF ReloadInv
  <1>5. CASE reloadConfig
    <2>1. /\ srv.st \in {"up", "exiting"} /\ host.data /\ conf.st = 1 /\ srv'.st = "exiting"
          /\ \/ pending'.st = 1 /\ db.port # 0 /\ pending'.port = db.port /\ ghost'.asked = db.port
             \/ UNCHANGED pending /\ ghost'.asked = conf.port /\ (db.port = 0 \/ db.port = conf.port)
          /\ UNCHANGED <<conf, host, db>>
      BY <1>0, <1>5, reloadConfigDoes DEF Turns
    <2> QED
      BY <2>1 DEF ReloadInv
  <1>6. CASE restartService
    <2>1. ReloadFrame
      BY <1>0, <1>6, AdminDoes, Constants DEF ReloadFrame, Exits
    <2> QED
      BY <2>1, ReloadFramed
  <1> QED
    BY <1>1, <1>2, <1>3, <1>4, <1>5, <1>6 DEF Boot

LEMMA ReloadAdmin ==
    ASSUME Sound, ReloadInv, Settings \/ SystemctlStart \/ RotateKeys
    PROVE  ReloadInv'
  <1>0. Typed /\ ListShape
    BY OthersAreTyped
  <1>1. UNCHANGED <<conf, pending, host, srv>> /\ ghost'.asked = ghost.asked /\ (db'.port = db.port \/ srv.st = "up")
    BY <1>0, SettingsDoes, AdminDoes DEF Settings
  <1>2. ReloadFrame
    BY <1>1 DEF ReloadFrame
  <1> QED
    BY <1>2, ReloadFramed

LEMMA ReloadEnds ==
    ASSUME Sound, ReloadInv, StepFails \/ CommandDone \/ PowerLoss \/ PendingCutShort
    PROVE  ReloadInv'
  <1>0. Typed /\ ListShape
    BY OthersAreTyped
  <1>1. CASE StepFails \/ CommandDone \/ PowerLoss
    <2>1. ReloadFrame
      BY <1>0, <1>1, StepFailsDoes, CommandDoneDoes, PowerLossDoes, Constants DEF ReloadFrame
    <2> QED
      BY <2>1, ReloadFramed
  <1>2. CASE PendingCutShort
    <2>1. srv'.st = "off" /\ ghost'.asked = 0
      BY <1>0, <1>2, PendingCutShortDoes, Constants
    <2> QED
      BY <2>1 DEF ReloadInv
  <1> QED
    BY <1>1, <1>2

LEMMA ReloadNext ==
    ASSUME Sound, ReloadInv, [Next]_vars
    PROVE  ReloadInv'
  <1>0. Typed /\ ListShape
    BY OthersAreTyped
  <1>1. CASE UNCHANGED vars
    BY <1>1 DEF vars, ReloadInv
  <1>2. CASE \/ \E o \in InstallOpts : installCommand(o)
             \/ \E o \in UpgradeOpts : upgradeCommand(o)
             \/ \E o \in UninstallOpts : uninstallCommand(o)
    <2>1. \E name : Starts(name)
      BY <1>0, <1>2, InstallStarts, UpgradeStarts, UninstallStarts
    <2>2. ReloadFrame
      BY <2>1 DEF ReloadFrame, Starts
    <2> QED
      BY <2>2, ReloadFramed
  <1>3. CASE CreateFile \/ WriteFile
    BY <1>0, <1>3, CreateFileDoes, WriteFileDoes, ReloadPuts
  <1> QED
    BY <1>1, <1>2, <1>3, NextSplit, ReloadQuiets, ReloadFramed, ReloadCommands, ReloadRemoves,
       ReloadServer, ReloadAdmin, ReloadEnds

(* A reload on its way, in every state: the pending configuration belongs  *)
(* to a server that is gone or going, and has the port that was asked for. *)
THEOREM ReloadInvariant == Spec => [](Sound /\ ReloadInv)
  <1>1. Init => Sound /\ ReloadInv
    BY SoundInit, Constants DEF Init, ReloadInv
  <1>2. Sound /\ ReloadInv /\ [Next]_vars => (Sound /\ ReloadInv)'
    BY SoundNext, ReloadNext
  <1> QED
    BY <1>1, <1>2, PTL DEF Spec

(* A server that runs after a reload was asked for uses the port it was    *)
(* asked for: the replaced configuration survives the exit, the start and  *)
(* interruptions in between.                                               *)
THEOREM ReloadAppliedTheorem == Spec => []ReloadApplied
  <1>1. Sound /\ ReloadInv => ReloadApplied
    BY DEF ReloadInv, ReloadApplied
  <1> QED
    BY <1>1, ReloadInvariant, PTL

-----------------------------------------------------------------------------
(* Lists of steps, once more: what is left of them.                        *)

LEMMA TailRest ==
    ASSUME Sound, cmd.todo # <<>>, Rest(<<>>)
    PROVE  cmd'.todo = Tail(cmd.todo)
  <1> DEFINE t == Tail(cmd.todo)
             p == <<>> \o t
  <1>1. cmd.todo \in Seq(Op)
    BY DEF Sound, Typed, Command
  <1>2. t \in Seq(Op)
    BY <1>1, TailIndex
  <1>3. p = t
    <2> HIDE DEF t
    <2> QED
      BY <1>2
  <1>4. cmd' = [cmd EXCEPT !.todo = p]
    BY DEF Rest
  <1> HIDE DEF p
  <1>5. cmd'.todo = p
    BY <1>4 DEF Sound, Typed, Command
  <1> QED
    BY <1>3, <1>5

LEMMA StopAtHead ==
    ASSUME Sound, ToDo("stop")
    PROVE  /\ cmd.todo # <<>> /\ Head(cmd.todo) = Step("stop") /\ ~Has(Tail(cmd.todo), Step("stop"))
           /\ cmd.name = "uninstall"
  <1>1. cmd.todo \in Seq(Op) /\ \A i \in 2..Len(cmd.todo) : cmd.todo[i] # Step("stop")
    BY DEF Sound, Typed, Command, Shape, ListShape
  <1>2. cmd.todo # <<>>
    BY DEF ToDo, Has
  <1>3. ~Has(Tail(cmd.todo), Step("stop"))
    <2>1. \A i \in 1..Len(Tail(cmd.todo)) : Tail(cmd.todo)[i] = cmd.todo[i + 1] /\ i + 1 \in 2..Len(cmd.todo)
      BY <1>1, <1>2, TailIndex
    <2> QED
      BY <1>1, <2>1 DEF Has
  <1>4. Head(cmd.todo) = Step("stop")
    BY <1>1, <1>2, <1>3, HasTail DEF ToDo
  <1>5. "stop" \in StepNames(cmd.name) /\ "stop" \in StepNames("uninstall")
    BY DEF Sound, Shape, ListShape, StepNames
  <1> QED
    BY <1>2, <1>3, <1>4, <1>5, WhoseStep DEF Sound

LEMMA ToDoNamed ==
    ASSUME Sound
    PROVE  /\ cmd.todo # <<>> => cmd.name # "none" /\ ghost.last \notin {"install", "upgrade", "uninstall"}
           /\ cmd.name = "none" => (\A s : ~ToDo(s)) /\ (\A f : ~Writing(f))
           /\ cmd.name # "none" => ghost.last \notin {"install", "upgrade", "uninstall"}
  <1>1. cmd.name = "none" => (\A s : ~ToDo(s)) /\ (\A f : ~Writing(f))
    BY WritingInstalls, WhoseStep DEF Sound, Shape, ListShape
  <1>2. cmd.name # "none" => ghost.last \notin {"install", "upgrade", "uninstall"}
    BY DEF Sound, Shape
  <1>3. ASSUME cmd.todo # <<>>, cmd.name = "none" PROVE FALSE
    <2>1. cmd.todo \in Seq(Op) /\ AllSteps(cmd.todo)
      BY <1>3 DEF Sound, Typed, Command, Shape, ListShape
    <2>2. Head(cmd.todo) \in Op /\ Head(cmd.todo) = cmd.todo[1] /\ 1 \in 1..Len(cmd.todo)
      BY <1>3, <2>1, TailIndex
    <2>3. cmd.todo[1][1] = "step"
      BY <2>1, <2>2 DEF AllSteps
    <2>4. cmd.todo[1] = Step(cmd.todo[1][2])
      BY <2>2, <2>3 DEF Op, Step
    <2>5. ToDo(cmd.todo[1][2])
      BY <2>2, <2>4 DEF ToDo, Has
    <2> QED
      BY <1>1, <1>3, <2>5
  <1> QED
    BY <1>1, <1>2, <1>3

-----------------------------------------------------------------------------
(* Upgrades.                                                               *)

LEMMA StartLastTail ==
    ASSUME NEW q \in Seq(Op), q # <<>>, StartLast(q)
    PROVE  /\ StartLast(Tail(q))
           /\ Head(q) = Step("start") => \A o : ~Has(Tail(q), o)
  <1> DEFINE t == Tail(q)
             s == Step("start")
  <1>1. /\ Len(q) \in Nat /\ Len(q) >= 1 /\ Len(t) = Len(q) - 1 /\ q[1] = Head(q)
        /\ \A i \in 1..Len(t) : t[i] = q[i + 1]
    BY TailIndex
  <1>2. \A i \in 1..Len(q) : q[i] = s => i = Len(q)
    BY DEF StartLast
  <1> HIDE DEF t, s
  <1>3. ASSUME NEW i \in 1..Len(t), t[i] = s PROVE i = Len(t)
    <2>1. i + 1 \in 1..Len(q) /\ q[i + 1] = s
      BY <1>1, <1>3
    <2>2. i + 1 = Len(q)
      BY <1>2, <2>1
    <2> QED
      BY <1>1, <2>2
  <1>4. ASSUME Head(q) = s PROVE \A o : ~Has(t, o)
    <2>1. 1 \in 1..Len(q)
      BY <1>1
    <2>2. 1 = Len(q)
      BY <1>1, <1>2, <1>4, <2>1
    <2>3. Len(q) \in Nat /\ Len(t) = Len(q) - 1
      BY <1>1
    <2>4. \A i : i \notin 1..Len(t)
      BY <2>2, <2>3
    <2> QED
      BY <2>4 DEF Has
  <1>5. \A i \in 1..Len(t) : t[i] = s => i = Len(t)
    BY <1>3
  <1> QED
    BY <1>4, <1>5 DEF StartLast, t, s

LEMMA UpgradeBegins ==
    ASSUME Sound, NEW o \in UpgradeOpts, upgradeCommand(o)
    PROVE  StartLast(cmd'.todo) /\ ToDo("halt")'
  <1> DEFINE ns == <<"verify", "halt", "copy", "rename", "start">>
  <1>1. ns \in Seq(OpNames) /\ Len(ns) = 5 /\ ns[1] = "verify" /\ ns[2] = "halt" /\ ns[3] = "copy"
        /\ ns[4] = "rename" /\ ns[5] = "start"
    BY UpgradeList
  <1>2. cmd'.todo = Steps(ns)
    BY DEF upgradeCommand, NoCmd
  <1> HIDE DEF ns
  <1>3. /\ Len(Steps(ns)) = 5 /\ \A i \in 1..5 : Steps(ns)[i] = Step(ns[i])
    BY <1>1, HasSteps
  <1>4. \A s, t : Step(s) = Step(t) => s = t
    BY DEF Step
  <1>5. \A i \in 1..5 : ns[i] = "start" => i = 5
    BY <1>1
  <1>6. StartLast(Steps(ns))
    BY <1>3, <1>4, <1>5 DEF StartLast
  <1>7. Has(Steps(ns), Step("halt"))
    BY <1>1, <1>3 DEF Has
  <1> QED
    BY <1>2, <1>6, <1>7 DEF ToDo

LEMMA UpgradeStep ==
    ASSUME Sound, UpgradeInv, NEW s \in StepNames("upgrade"), At(s), Rest(<<>>),
           s # "halt" /\ s # "start" => svc' = svc,
           s = "halt" => ~svc'.active
    PROVE  UpgradeInv'
  <1>0. Typed /\ ListShape /\ cmd.todo \in Seq(Op)
    BY OthersAreTyped DEF Typed, Command
  <1>1. cmd.todo # <<>> /\ Head(cmd.todo) = Step(s) /\ cmd.name = "upgrade" /\ ~cmd.dry
    BY <1>0, AtDoes, WhoseStep
  <1>2. cmd'.todo = Tail(cmd.todo) /\ Advance(<<>>)
    BY <1>0, <1>1, TailRest, Plain
  <1>3. StartLast(cmd.todo) /\ (ToDo("start") => ToDo("halt") \/ ~svc.active)
    BY <1>1 DEF UpgradeInv
  <1>4. StartLast(cmd'.todo) /\ (s = "start" => ~ToDo("start")')
    BY <1>0, <1>1, <1>2, <1>3, StartLastTail DEF ToDo
  <1>5. ToDo("start")' => ToDo("start")
    BY <1>0, <1>1, <1>2, HasTail DEF ToDo
  <1>6. s # "halt" => (ToDo("halt") => ToDo("halt")')
    <2>1. s # "halt" => Step(s) # Step("halt")
      BY DEF Step
    <2> QED
      BY <1>1, <1>2, <2>1 DEF Advance, ToDo
  <1> QED
    BY <1>3, <1>4, <1>5, <1>6 DEF UpgradeInv

LEMMA UpgradeNext ==
    ASSUME Sound, UpgradeInv, [Next]_vars
    PROVE  UpgradeInv'
  <1>0. Typed /\ ListShape /\ GenShape
    BY OthersAreTyped
  <1>1. ASSUME UNCHANGED cmd, svc'.active => svc.active \/ cmd.name = "none" PROVE UpgradeInv'
    BY <1>1 DEF UpgradeInv, ToDo
  <1>2. ASSUME Keeps, cmd.name # "upgrade" \/ cmd.dry PROVE UpgradeInv'
    BY <1>2 DEF UpgradeInv, Keeps
  <1>3. CASE UNCHANGED vars
    BY <1>1, <1>3 DEF vars
  <1>4. CASE \/ \E o \in InstallOpts : installCommand(o)
             \/ \E o \in UninstallOpts : uninstallCommand(o)
    BY <1>0, <1>4, InstallStarts, UninstallStarts DEF Starts, UpgradeInv
  <1>5. CASE \E o \in UpgradeOpts : upgradeCommand(o)
    BY <1>0, <1>5, UpgradeBegins DEF UpgradeInv
  <1>6. CASE Quiets /\ ~VerifySignature /\ ~CopyTemporary
    <2>1. ASSUME NEW s \in StepNames("install"), At(s) PROVE cmd.name = "install"
      BY <1>0, <2>1, AtDoes, WhoseStep
    <2>2. {"check", "dirs", "certs", "dkim", "record", "unit", "conf", "perm", "bin", "iroh"}
             \subseteq StepNames("install")
      BY DEF StepNames
    <2>3. cmd.name = "install" \/ cmd.dry
      BY <1>6, <2>1, <2>2 DEF Quiets, checkSystemRequirements, createDirectories, setupPermissions, setupCertificates,
           prepareDKIMKeys, generateDKIMDNSRecord, installSystemdFiles, generateConfigFile,
           installBinary, installIrohRelay, DryStep
    <2>4. \E new : Quiet(new)
      BY <1>0, <1>6, InstallSteps, OtherSteps DEF Quiets
    <2> QED
      BY <1>2, <2>3, <2>4 DEF Quiet, Advance
  <1>7. CASE VerifySignature \/ CopyTemporary \/ StopForUpgrade \/ performUpgrade \/ StartAfterUpgrade
    <2>1. {"verify", "halt", "copy", "rename", "start"} \subseteq StepNames("upgrade")
      BY DEF StepNames
    <2>2. CASE VerifySignature
      BY <2>1, <2>2, UpgradeStep DEF VerifySignature, OnlyCommand
    <2>3. CASE CopyTemporary
      BY <2>1, <2>3, UpgradeStep DEF CopyTemporary, OnlyCommand
    <2>4. CASE StopForUpgrade
      BY <1>0, <2>1, <2>4, UpgradeStep, UpgradeDoes DEF StopForUpgrade, Stops
    <2>5. CASE performUpgrade
      BY <2>1, <2>5, UpgradeStep DEF performUpgrade
    <2>6. CASE StartAfterUpgrade
      BY <2>1, <2>6, UpgradeStep DEF StartAfterUpgrade
    <2> QED
      BY <1>7, <2>2, <2>3, <2>4, <2>5, <2>6
  <1>8. CASE CreateFile \/ WriteFile
    BY <1>0, <1>2, <1>8, CreateFileDoes, WriteFileDoes DEF Puts, Advance
  <1>9. CASE createMaddyUser
    <2>1. "user" \in StepNames("install")
      BY DEF StepNames
    <2> QED
      BY <1>0, <1>2, <1>9, <2>1, UserDoes, AtDoes, WhoseStep DEF createMaddyUser, Advance
  <1>10. CASE \/ stopService \/ disableService \/ removeSystemdFiles \/ removeConfigFiles
              \/ removeStateDir \/ removeBinary \/ removeUser
    BY <1>0, <1>2, <1>10, stopServiceDoes, disableServiceDoes, removeSystemdFilesDoes, removeConfigFilesDoes,
       removeStateDirDoes, removeBinaryDoes, removeUserDoes DEF Removes, Advance
  <1>11. CASE ExecStartPre \/ CopyCutShort \/ reloadConfig \/ restartService \/ Settings \/ SystemctlStart \/ RotateKeys
    BY <1>0, <1>1, <1>11, StartDoes, CopyCutShortDoes, reloadConfigDoes, AdminDoes, SettingsDoes DEF Settings, Exits
  <1>12. CASE Boot
    BY <1>0, <1>1, <1>12, RunDoes, moduleMainDoes, loadOrGenerateKeyDoes, writeDNSRecordDoes, generateAndWriteDoes
       DEF Boot, initModules, Exits, Begins
  <1>13. CASE StepFails \/ CommandDone \/ PowerLoss \/ PendingCutShort
    BY <1>0, <1>13, StepFailsDoes, CommandDoneDoes, PowerLossDoes, PendingCutShortDoes DEF Ends, UpgradeInv
  <1> QED
    BY <1>3, <1>4, <1>5, <1>6, <1>7, <1>8, <1>9, <1>10, <1>11, <1>12, <1>13, NextSplit

-----------------------------------------------------------------------------
(* Uninstallations.                                                        *)

(* Nothing of what an uninstallation removed comes back while no server    *)
(* runs.                                                                   *)
StaysGone ==
    /\ srv'.st = "off"
    /\ conf.st = 0 => conf'.st = 0
    /\ pending.st = 0 => pending'.st = 0
    /\ ~host.data => ~host'.data
    /\ db.port = 0 => db'.port = 0
    /\ files["bin"] = 0 => files'["bin"] = 0

LEMMA GoneServer ==
    ASSUME Sound, UninstallInv, UNCHANGED cmd, ghost'.last \in {ghost.last, "none"},
           svc'.active => svc.active \/ cmd.name = "none",
           srv'.st # "off" => svc'.active,
           srv.st = "off" => StaysGone
    PROVE  UninstallInv'
  <1>1. Uninstalls' => Uninstalls
    BY DEF Uninstalls
  <1>2. ToDo("stop") => cmd.name = "uninstall"
    BY StopAtHead
  <1> QED
    BY <1>1, <1>2 DEF UninstallInv, StaysGone, ToDo

LEMMA GoneNot ==
    ASSUME UninstallInv, ~Uninstalls', srv'.st # "off" => svc'.active
    PROVE  UninstallInv'
  BY DEF UninstallInv

LEMMA GoneKeeps ==
    ASSUME Sound, UninstallInv, Keeps, cmd.name # "none", cmd.name # "uninstall" \/ cmd.dry,
           ghost'.last = ghost.last, srv'.st # "off" => svc'.active
    PROVE  UninstallInv'
  <1>1. ghost.last # "uninstall"
    BY ToDoNamed
  <1>2. ~Uninstalls'
    BY <1>1 DEF Uninstalls, Keeps
  <1> QED
    BY <1>2, GoneNot

LEMMA GoneBoot ==
    ASSUME Sound, UninstallInv, ExecStartPre \/ CopyCutShort \/ Boot \/ reloadConfig \/ restartService
    PROVE  UninstallInv'
  <1>0. Typed /\ ListShape /\ GenShape
    BY OthersAreTyped
  <1>1. CASE ExecStartPre
    <2>1. /\ svc.active /\ srv.st = "off" /\ files["bin"] > 0 /\ srv'.st = "start"
          /\ UNCHANGED <<files, host, db, svc, cmd, ghost>>
      BY <1>0, <1>1, StartDoes
    <2>2. ASSUME Uninstalls, ~ToDo("stop") PROVE FALSE
      <3>1. cmd.name # "uninstall" /\ (ToDo("rmbin") \/ files["bin"] = 0)
        BY <2>1, <2>2 DEF UninstallInv
      <3>2. ghost.last = "uninstall"
        BY <2>2, <3>1 DEF Uninstalls
      <3>3. ~ToDo("rmbin")
        BY <3>2, ToDoNamed
      <3> QED
        BY <2>1, <3>1, <3>3
    <2> QED
      BY <2>1, <2>2 DEF UninstallInv, Uninstalls, ToDo
  <1>2. CASE CopyCutShort
    <2>1. svc.active /\ srv.st = "off" /\ pending.st # 0 /\ UNCHANGED <<files, pending, host, db, svc, srv, cmd, ghost>>
      BY <1>0, <1>2, CopyCutShortDoes
    <2>2. ASSUME Uninstalls, ~ToDo("stop") PROVE FALSE
      <3>1. cmd.name # "uninstall" /\ (ToDo("rmstate") \/ pending.st = 0)
        BY <2>1, <2>2 DEF UninstallInv
      <3>2. ghost.last = "uninstall"
        BY <2>2, <3>1 DEF Uninstalls
      <3>3. ~ToDo("rmstate")
        BY <3>2, ToDoNamed
      <3> QED
        BY <2>1, <3>1, <3>3
    <2> QED
      BY <2>1, <2>2 DEF UninstallInv, Uninstalls, ToDo
  <1>3. CASE Boot
    <2>1. /\ srv.st # "off" /\ UNCHANGED cmd /\ ghost'.last = ghost.last
          /\ svc'.active => svc.active
          /\ srv'.st = "off" \/ UNCHANGED svc
      BY <1>0, <1>3, RunDoes, moduleMainDoes, loadOrGenerateKeyDoes, writeDNSRecordDoes, generateAndWriteDoes, Constants
         DEF Boot, initModules, Exits, Begins
    <2>2. srv'.st # "off" => svc'.active
      BY <2>1 DEF UninstallInv
    <2> QED
      BY <2>1, <2>2, GoneServer
  <1>4. CASE reloadConfig \/ restartService
    <2>1. /\ srv.st # "off" /\ UNCHANGED cmd /\ ghost'.last = ghost.last
          /\ svc'.active => svc.active
          /\ srv'.st = "off" \/ UNCHANGED svc
      BY <1>0, <1>4, reloadConfigDoes, AdminDoes, Constants DEF Exits
    <2>2. srv'.st # "off" => svc'.active
      BY <2>1 DEF UninstallInv
    <2> QED
      BY <2>1, <2>2, GoneServer
  <1> QED
    BY <1>1, <1>2, <1>3, <1>4

LEMMA GoneAdmin ==
    ASSUME Sound, UninstallInv, Settings \/ SystemctlStart \/ RotateKeys
    PROVE  UninstallInv'
  <1>0. Typed /\ ListShape /\ "bin" \in File
    BY OthersAreTyped DEF File
  <1>1. /\ UNCHANGED <<conf, pending, host, srv, cmd>> /\ ghost'.last \in {ghost.last, "none"}
        /\ svc' = svc \/ (cmd.name = "none" /\ svc'.active)
        /\ db'.port = db.port \/ srv.st = "up"
        /\ files'["bin"] = files["bin"]
    BY <1>0, SettingsDoes, AdminDoes DEF Settings, SetsFile
  <1>2. srv'.st # "off" => svc'.active
    BY <1>1 DEF UninstallInv
  <1>3. srv.st = "off" => StaysGone
    BY <1>1 DEF StaysGone
  <1> QED
    BY <1>1, <1>2, <1>3, GoneServer

LEMMA GoneStarts ==
    ASSUME Sound, UninstallInv, \/ \E o \in InstallOpts : installCommand(o)
                                \/ \E o \in UpgradeOpts : upgradeCommand(o)
                                \/ \E o \in UninstallOpts : uninstallCommand(o)
    PROVE  UninstallInv'
  <1>0. Typed /\ ListShape
    BY OthersAreTyped
  <1>1. CASE \/ \E o \in InstallOpts : installCommand(o)
             \/ \E o \in UpgradeOpts : upgradeCommand(o)
    BY <1>0, <1>1, InstallStarts, UpgradeStarts, GoneNot DEF Starts, Uninstalls, UninstallInv
  <1>2. CASE \E o \in UninstallOpts : uninstallCommand(o)
    <2>1. /\ Starts("uninstall")
          /\ cmd'.sure => cmd'.known /\ (cmd'.running \/ ~svc.active)
          /\ ToDo("stop")' /\ (cmd'.keep = {} => ToDo("rmconf")' /\ ToDo("rmstate")' /\ ToDo("rmbin")')
      BY <1>0, <1>2, UninstallStarts
    <2>2. UNCHANGED <<svc, srv>>
      BY <2>1 DEF Starts
    <2> QED
      BY <2>1, <2>2 DEF UninstallInv, Uninstalls
  <1> QED
    BY <1>1, <1>2

LEMMA GoneInstalls ==
    ASSUME Sound, UninstallInv, UpgradeInv,
           \/ Quiets \/ CreateFile \/ WriteFile \/ createMaddyUser
           \/ StopForUpgrade \/ performUpgrade \/ StartAfterUpgrade
    PROVE  UninstallInv'
  <1>0. Typed /\ ListShape
    BY OthersAreTyped
  <1>1. {"check", "user", "dirs", "certs", "dkim", "record", "unit", "conf", "perm", "bin", "iroh"}
           \subseteq StepNames("install")
        /\ {"verify", "halt", "copy", "rename", "start"} \subseteq StepNames("upgrade")
    BY DEF StepNames
  <1>2. ASSUME NEW s \in StepNames("install") \cup StepNames("upgrade"), At(s)
        PROVE  cmd.name \notin {"none", "uninstall"}
    BY <1>0, <1>2, AtDoes, WhoseStep
  <1>3. CASE Quiets
    <2>1. \E new : Quiet(new)
      BY <1>0, <1>3, InstallSteps, OtherSteps DEF Quiets
    <2>2. Keeps /\ ghost'.last = ghost.last /\ UNCHANGED <<srv, svc>>
      BY <2>1 DEF Quiet, OnlyCommand, Advance
    <2>3. CASE DryStep
      BY <2>2, <2>3, ToDoNamed, GoneKeeps DEF DryStep, UninstallInv
    <2>4. CASE ~DryStep
      <3>1. cmd.name \notin {"none", "uninstall"}
        BY <1>1, <1>2, <1>3, <2>4
           DEF Quiets, checkSystemRequirements, createDirectories, setupPermissions, setupCertificates,
               prepareDKIMKeys, generateDKIMDNSRecord, installSystemdFiles, generateConfigFile,
               installBinary, installIrohRelay, VerifySignature, CopyTemporary
      <3> QED
        BY <2>2, <3>1, GoneKeeps DEF UninstallInv
    <2> QED
      BY <2>3, <2>4
  <1>4. CASE CreateFile \/ WriteFile
    <2>1. Keeps /\ ghost'.last = ghost.last /\ UNCHANGED <<srv, svc>> /\ cmd.name = "install"
      BY <1>0, <1>4, CreateFileDoes, WriteFileDoes DEF Puts, Advance
    <2> QED
      BY <2>1, GoneKeeps DEF UninstallInv
  <1>5. CASE createMaddyUser \/ performUpgrade
    <2>1. Keeps /\ ghost'.last = ghost.last /\ UNCHANGED <<srv, svc>>
      BY <1>0, <1>5, UserDoes, UpgradeDoes DEF Advance
    <2>2. cmd.name \notin {"none", "uninstall"}
      BY <1>1, <1>2, <1>5 DEF createMaddyUser, performUpgrade
    <2> QED
      BY <2>1, <2>2, GoneKeeps DEF UninstallInv
  <1>6. CASE StopForUpgrade
    <2>1. Keeps /\ ghost'.last = ghost.last /\ srv'.st = "off" /\ cmd.name = "upgrade"
      BY <1>0, <1>6, UpgradeDoes, Constants DEF Advance, Stops
    <2> QED
      BY <2>1, GoneKeeps
  <1>7. CASE StartAfterUpgrade
    <2>1. Keeps /\ ghost'.last = ghost.last /\ UNCHANGED srv /\ cmd.name = "upgrade"
      BY <1>0, <1>7, UpgradeDoes DEF Advance
    <2>2. srv.st = "off"
      <3>1. /\ cmd.todo # <<>> /\ ~cmd.dry /\ Head(cmd.todo) = Step("start") /\ ToDo("start")
            /\ cmd.todo \in Seq(Op)
        BY <1>0, <1>7, AtDoes DEF StartAfterUpgrade, Typed, Command
      <3>2. StartLast(cmd.todo) /\ (ToDo("halt") \/ ~svc.active)
        BY <2>1, <3>1 DEF UpgradeInv
      <3>3. ~ToDo("halt")
        <4>1. Step("halt") # Step("start")
          BY DEF Step
        <4> QED
          BY <3>1, <3>2, <4>1, StartLastTail, HasTail DEF ToDo
      <3> QED
        BY <3>2, <3>3 DEF UninstallInv
    <2> QED
      BY <2>1, <2>2, GoneKeeps
  <1> QED
    BY <1>3, <1>4, <1>5, <1>6, <1>7

(* A step of an uninstallation after the first.                            *)
LEMMA GoneStep ==
    ASSUME Sound, UninstallInv, NEW s \in {"disable", "units", "rmconf", "rmstate", "rmbin", "rmuser"},
           Removes(s), ghost'.last = ghost.last, UNCHANGED srv, svc'.active = svc.active,
           cmd.known /\ srv.st = "off" => StaysGone,
           s = "rmconf" /\ cmd.known => conf'.st = 0,
           s = "rmstate" /\ cmd.known => pending'.st = 0 /\ ~host'.data /\ db'.port = 0,
           s = "rmbin" => files'["bin"] = 0
    PROVE  UninstallInv'
  <1>1. ~ToDo("stop")
    <2>1. Step(s) # Step("stop")
      BY DEF Step
    <2> QED
      BY <2>1, StopAtHead DEF Removes
  <1>2. \A t : ToDo(t)' => ToDo(t)
    BY NameLists DEF Removes, Advance, ToDo
  <1>3. \A t : ToDo(t) /\ t # s => ToDo(t)'
    <2>1. \A t : t # s => Step(t) # Step(s)
      BY DEF Step
    <2> QED
      BY <2>1 DEF Removes, Advance, ToDo
  <1>4. /\ cmd'.name = "uninstall" /\ ~cmd'.dry /\ cmd'.keep = cmd.keep /\ cmd'.sure = cmd.sure
        /\ cmd'.known = cmd.known /\ cmd'.running = cmd.running /\ cmd.name = "uninstall" /\ ~cmd.dry
    BY DEF Removes, Advance, Keeps
  <1>5. ghost.last # "uninstall"
    BY <1>4, ToDoNamed
  <1>6. Uninstalls' => Uninstalls
    BY <1>4 DEF Uninstalls
  <1>7. srv'.st # "off" => svc'.active
    BY DEF UninstallInv
  <1>8. ASSUME Uninstalls PROVE /\ cmd.known /\ srv.st = "off" /\ ~svc.active
                                /\ ToDo("rmconf") \/ conf.st = 0
                                /\ ToDo("rmstate") \/ (pending.st = 0 /\ ~host.data /\ db.port = 0)
                                /\ ToDo("rmbin") \/ files["bin"] = 0
    BY <1>1, <1>4, <1>8 DEF UninstallInv
  <1>9. ASSUME Uninstalls' PROVE /\ cmd'.known /\ srv'.st = "off" /\ ~svc'.active
                                 /\ ToDo("rmconf")' \/ conf'.st = 0
                                 /\ ToDo("rmstate")' \/ (pending'.st = 0 /\ ~host'.data /\ db'.port = 0)
                                 /\ ToDo("rmbin")' \/ files'["bin"] = 0
    <2>1. cmd.known /\ srv.st = "off" /\ ~svc.active /\ StaysGone
      BY <1>6, <1>8, <1>9
    <2>2. ToDo("rmconf")' \/ conf'.st = 0
      BY <1>3, <1>6, <1>8, <1>9, <2>1 DEF StaysGone
    <2>3. ToDo("rmstate")' \/ (pending'.st = 0 /\ ~host'.data /\ db'.port = 0)
      BY <1>3, <1>6, <1>8, <1>9, <2>1 DEF StaysGone
    <2>4. ToDo("rmbin")' \/ files'["bin"] = 0
      BY <1>3, <1>6, <1>8, <1>9, <2>1 DEF StaysGone
    <2> QED
      BY <1>4, <2>1, <2>2, <2>3, <2>4
  <1> QED
    BY <1>1, <1>2, <1>7, <1>9 DEF UninstallInv

LEMMA GoneUninstalls ==
    ASSUME Sound, UninstallInv,
           \/ stopService \/ disableService \/ removeSystemdFiles \/ removeConfigFiles
           \/ removeStateDir \/ removeBinary \/ removeUser
    PROVE  UninstallInv'
  <1>0. Typed /\ ListShape /\ "bin" \in File
    BY OthersAreTyped DEF File
  <1>1. CASE stopService
    <2>1. /\ Removes("stop") /\ ghost'.last = ghost.last
          /\ (cmd.running /\ Stops) \/ (~cmd.running /\ UNCHANGED <<svc, srv>>)
      BY <1>0, <1>1, stopServiceDoes DEF Stops
    <2>2. ~ToDo("stop")'
      <3>1. cmd'.todo = Tail(cmd.todo) /\ ToDo("stop")
        BY <1>1, <2>1, TailRest DEF stopService, At, Removes
      <3> QED
        BY <3>1, StopAtHead DEF ToDo
    <2>3. \A t : ToDo(t) /\ t # "stop" => ToDo(t)'
      <3>1. \A t : t # "stop" => Step(t) # Step("stop")
        BY DEF Step
      <3> QED
        BY <2>1, <3>1 DEF Removes, Advance, ToDo
    <2>4. /\ cmd'.keep = cmd.keep /\ cmd'.sure = cmd.sure /\ cmd'.known = cmd.known
          /\ cmd.name = "uninstall" /\ ~cmd.dry
      BY <2>1 DEF Removes, Advance, Keeps
    <2>5. ASSUME Uninstalls' PROVE Uninstalls
      BY <2>4, <2>5 DEF Uninstalls
    <2>6. ASSUME Uninstalls PROVE /\ srv'.st = "off" /\ ~svc'.active /\ cmd.known
                                  /\ ToDo("rmconf") /\ ToDo("rmstate") /\ ToDo("rmbin")
      <3>1. /\ cmd.known /\ (cmd.running \/ ~svc.active)
            /\ ToDo("rmconf") /\ ToDo("rmstate") /\ ToDo("rmbin")
        BY <2>1, <2>6 DEF UninstallInv, Removes
      <3>2. CASE cmd.running
        BY <2>1, <3>1, <3>2, Constants DEF Stops
      <3>3. CASE ~cmd.running
        BY <2>1, <3>1, <3>3 DEF UninstallInv
      <3> QED
        BY <3>2, <3>3
    <2>7. srv'.st # "off" => svc'.active
      BY <2>1, Constants DEF Stops, UninstallInv
    <2> QED
      BY <2>2, <2>3, <2>4, <2>5, <2>6, <2>7 DEF UninstallInv
  <1>2. CASE disableService
    <2>1. /\ Removes("disable") /\ svc'.active = svc.active
          /\ UNCHANGED <<files, conf, pending, host, db, srv, ghost>>
      BY <1>0, <1>2, disableServiceDoes
    <2>2. srv.st = "off" => StaysGone
      BY <2>1 DEF StaysGone
    <2> QED
      BY <2>1, <2>2, GoneStep
  <1>3. CASE removeSystemdFiles
    <2>1. /\ Removes("units") /\ UNCHANGED <<conf, pending, host, db, svc, srv, ghost>>
          /\ files'["bin"] = files["bin"]
      BY <1>0, <1>3, removeSystemdFilesDoes DEF SetsFile
    <2>2. srv.st = "off" => StaysGone
      BY <2>1 DEF StaysGone
    <2> QED
      BY <2>1, <2>2, GoneStep
  <1>4. CASE removeConfigFiles
    <2>1. /\ Removes("rmconf") /\ UNCHANGED <<pending, host, db, svc, srv, ghost>>
          /\ cmd.known => conf'.st = 0
          /\ files'["bin"] = files["bin"]
      BY <1>0, <1>4, removeConfigFilesDoes, Constants
    <2>2. cmd.known /\ srv.st = "off" => StaysGone
      BY <2>1 DEF StaysGone
    <2> QED
      BY <2>1, <2>2, GoneStep
  <1>5. CASE removeStateDir
    <2>1. /\ Removes("rmstate") /\ UNCHANGED <<conf, svc, srv>> /\ ghost'.last = ghost.last
          /\ cmd.known => pending'.st = 0 /\ ~host'.data /\ db'.port = 0
          /\ files'["bin"] = files["bin"]
      BY <1>0, <1>5, removeStateDirDoes, Constants DEF Goes
    <2>2. cmd.known /\ srv.st = "off" => StaysGone
      BY <2>1 DEF StaysGone
    <2> QED
      BY <2>1, <2>2, GoneStep
  <1>6. CASE removeBinary
    <2>1. /\ Removes("rmbin") /\ UNCHANGED <<conf, pending, host, db, svc, srv, ghost>>
          /\ files'["bin"] = 0
      BY <1>0, <1>6, removeBinaryDoes
    <2>2. srv.st = "off" => StaysGone
      BY <2>1 DEF StaysGone
    <2> QED
      BY <2>1, <2>2, GoneStep
  <1>7. CASE removeUser
    <2>1. /\ Removes("rmuser") /\ UNCHANGED <<conf, svc, srv>> /\ ghost'.last = ghost.last
          /\ \/ pending'.st = 0 /\ ~host'.data /\ db'.port = 0
             \/ UNCHANGED <<pending, db, host>>
          /\ files'["bin"] = files["bin"]
      BY <1>0, <1>7, removeUserDoes, Constants DEF Goes
    <2>2. srv.st = "off" => StaysGone
      BY <2>1 DEF StaysGone
    <2> QED
      BY <2>1, <2>2, GoneStep
  <1> QED
    BY <1>1, <1>2, <1>3, <1>4, <1>5, <1>6, <1>7

LEMMA GoneEnds ==
    ASSUME Sound, UninstallInv, StepFails \/ CommandDone \/ PowerLoss \/ PendingCutShort
    PROVE  UninstallInv'
  <1>0. Typed /\ ListShape
    BY OthersAreTyped
  <1>1. CASE StepFails \/ PowerLoss \/ PendingCutShort
    <2>1. /\ cmd'.name = "none" /\ ghost'.last # "uninstall"
          /\ srv'.st = "off" \/ UNCHANGED <<srv, svc>>
      BY <1>0, <1>1, StepFailsDoes, PowerLossDoes, PendingCutShortDoes, Constants DEF Ends
    <2>2. ~Uninstalls' /\ (srv'.st # "off" => svc'.active)
      BY <2>1 DEF Uninstalls, UninstallInv
    <2> QED
      BY <2>2, GoneNot
  <1>2. CASE CommandDone
    <2>1. /\ cmd'.name = "none" /\ cmd.todo = <<>> /\ (ghost'.last # "none" => ~cmd.dry /\ ghost'.last = cmd.name)
          /\ cmd'.keep = cmd.keep /\ cmd'.sure = cmd.sure /\ cmd'.known = cmd.known
          /\ UNCHANGED <<files, conf, pending, host, db, svc, srv>> /\ \A s : ~ToDo(s)'
      BY <1>0, <1>2, CommandDoneDoes, EndsClean DEF Ends
    <2>2. \A s : ~ToDo(s)
      BY <2>1 DEF ToDo, Has
    <2>3. Uninstalls' => Uninstalls
      BY <2>1 DEF Uninstalls
    <2> QED
      BY <2>1, <2>2, <2>3 DEF UninstallInv
  <1> QED
    BY <1>1, <1>2

LEMMA GoneNext ==
    ASSUME Sound, UpgradeInv, UninstallInv, [Next]_vars
    PROVE  UninstallInv'
  <1>1. CASE UNCHANGED vars
    BY <1>1 DEF vars, UninstallInv, Uninstalls, ToDo
  <1> QED
    BY <1>1, NextSplit, GoneStarts, GoneInstalls, GoneUninstalls, GoneBoot, GoneAdmin, GoneEnds

LEMMA GoneInit ==
    Init => UpgradeInv /\ UninstallInv
  BY Constants, NoCmdTyped DEF Init, UpgradeInv, UninstallInv, Uninstalls

(* An upgrade or a removal on its way, in every state: the start comes     *)
(* last, and what the steps a removal has behind it deleted stays deleted. *)
THEOREM UninstallInvariant == Spec => [](Sound /\ UpgradeInv /\ UninstallInv)
  <1>1. Init => Sound /\ UpgradeInv /\ UninstallInv
    BY SoundInit, GoneInit
  <1>2. Sound /\ UpgradeInv /\ UninstallInv /\ [Next]_vars => (Sound /\ UpgradeInv /\ UninstallInv)'
    BY SoundNext, UpgradeNext, GoneNext
  <1> QED
    BY <1>1, <1>2, PTL DEF Spec

-----------------------------------------------------------------------------
(* Installations: the order of the pair.                                   *)

LEMMA CertFirstNew ==
    ASSUME NEW new \in NewOps
    PROVE  new \in Seq(Op) /\ CertFirst(new)
  <1> DEFINE a == <<"create", "cert">>
             b == <<"write", "cert">>
             c == <<"create", "tkey">>
             d == <<"write", "tkey">>
  <1>0. "cert" \in OpNames /\ "tkey" \in OpNames /\ "dkim" \in OpNames /\ File \cup {"conf"} \subseteq OpNames
    BY DEF OpNames, File
  <1>1. CASE new = <<>>
    BY <1>1 DEF CertFirst
  <1>2. CASE new = <<Step("record")>>
    <2> DEFINE r == Step("record")
    <2>1. r \in Op /\ r[2] = "record"
      BY DEF Step, Op, OpNames
    <2> HIDE DEF r
    <2>2. <<r>> \in Seq(Op) /\ \A i \in 1..Len(<<r>>) : <<r>>[i] = r
      BY <2>1
    <2>3. CertFirst(<<r>>)
      BY <2>1, <2>2 DEF CertFirst
    <2> QED
      BY <1>2, <2>2, <2>3 DEF r
  <1>3. ASSUME NEW f \in File \cup {"conf"}, new = Write(f) PROVE new \in Seq(Op) /\ CertFirst(new)
    <2>1. f \in OpNames
      BY <1>0
    <2>2. new \in Seq(Op) /\ Len(new) = 2 /\ new[1] = <<"create", f>> /\ new[2] = <<"write", f>>
      BY <1>3, <2>1, HasWrite
    <2>3. \A i \in 1..Len(new) : new[i][2] = f
      BY <2>2
    <2> QED
      BY <2>2, <2>3 DEF CertFirst
  <1>4. CASE new = Write("cert") \o Write("tkey")
    <2> DEFINE p == Write("cert")
               q == Write("tkey")
    <2>1. p \in Seq(Op) /\ Len(p) = 2 /\ p[1] = a /\ p[2] = b /\ q \in Seq(Op) /\ Len(q) = 2 /\ q[1] = c /\ q[2] = d
      BY <1>0, HasWrite
    <2>2. a[2] = "cert" /\ b[2] = "cert" /\ c[2] = "tkey" /\ d[2] = "tkey"
      OBVIOUS
    <2> HIDE DEF p, q, a, b, c, d
    <2>3. /\ p \o q \in Seq(Op) /\ Len(p \o q) = 2 + 2
          /\ \A i \in 1..2 : (p \o q)[i] = p[i]
          /\ \A i \in 1..2 : (p \o q)[2 + i] = q[i]
      <3>1. /\ p \o q \in Seq(Op) /\ Len(p \o q) = Len(p) + Len(q)
            /\ \A i \in 1..Len(p) : (p \o q)[i] = p[i]
            /\ \A i \in 1..Len(q) : (p \o q)[Len(p) + i] = q[i]
        BY <2>1, ConcatIndex, Zenon
      <3>2. Len(p) = 2 /\ Len(q) = 2
        BY <2>1
      <3> QED
        BY <3>1, <3>2, Zenon
    <2>4. (p \o q)[1] = a /\ (p \o q)[2] = b /\ (p \o q)[3] = c /\ (p \o q)[4] = d
      BY <2>1, <2>3
    <2> DEFINE w == p \o q
    <2> HIDE DEF w
    <2>5. w \in Seq(Op) /\ Len(w) = 4 /\ w[1] = a /\ w[2] = b /\ w[3] = c /\ w[4] = d
      BY <2>3, <2>4 DEF w
    <2>6. \A i \in 1..4 : (w[i][2] = "tkey" => i > 2) /\ (w[i][2] = "cert" => i <= 2)
      BY <2>2, <2>5
    <2>7. CertFirst(w)
      BY <2>5, <2>6 DEF CertFirst
    <2> QED
      BY <1>4, <2>5, <2>7 DEF w, p, q
  <1>5. CASE new = Write("dkim") \o <<Step("record")>>
    <2> DEFINE r == <<Step("record")>>
               p == Write("dkim")
    <2>1. r \in Seq(Op) /\ \A o : Has(r, o) <=> o = Step("record")
      <3>1. Step("record") \in Op
        BY DEF Step, Op, OpNames
      <3>2. \A o : Has(r, o) <=> o = Step("record")
        BY NameLists, Zenon
      <3>3. r \in Seq(Op)
        BY <3>1
      <3> QED
        BY <3>2, <3>3
    <2>2. p \in Seq(Op) /\ \A o : Has(p, o) <=> o \in {<<"create", "dkim">>, <<"write", "dkim">>}
      BY <1>0, HasWrite
    <2> HIDE DEF r, p
    <2>3. p \o r \in Seq(Op) /\ \A o : Has(p \o r, o) <=> Has(p, o) \/ Has(r, o)
      BY <2>1, <2>2, ConcatIndex, HasConcat, Zenon
    <2> DEFINE w == p \o r
    <2>4. \A o : Has(w, o) => o[2] \in {"dkim", "record"}
      BY <2>1, <2>2, <2>3 DEF Step
    <2>5. \A i \in 1..Len(w) : w[i][2] \in {"dkim", "record"}
      BY <2>4 DEF Has
    <2> HIDE DEF w
    <2>6. CertFirst(w)
      BY <2>5 DEF CertFirst
    <2> QED
      BY <1>5, <2>3, <2>6 DEF w, p, r
  <1> QED
    BY <1>1, <1>2, <1>3, <1>4, <1>5, Zenon DEF NewOps

NoPair(q) == \A i \in 1..Len(q) : q[i][2] \notin {"cert", "tkey"}

LEMMA StepsPlain ==
    ASSUME NEW q \in Seq(Op), AllSteps(q), NEW name, \A s : Has(q, Step(s)) => s \in StepNames(name)
    PROVE  NoPair(q) /\ CertFirst(q)
  <1>1. ASSUME NEW i \in 1..Len(q) PROVE q[i][2] \notin {"cert", "tkey"}
    <2>1. q[i] \in Op /\ q[i][1] = "step"
      BY DEF AllSteps
    <2>2. q[i] = Step(q[i][2])
      BY <2>1 DEF Op, Step
    <2>3. q[i][2] \in StepNames(name)
      BY <2>2 DEF Has
    <2>4. "cert" \notin StepNames(name) /\ "tkey" \notin StepNames(name)
      BY DEF StepNames
    <2> QED
      BY <2>3, <2>4
  <1> QED
    BY <1>1 DEF NoPair, CertFirst

LEMMA CertFirstTail ==
    ASSUME NEW q \in Seq(Op), q # <<>>, CertFirst(q)
    PROVE  CertFirst(Tail(q))
  <1> DEFINE t == Tail(q)
             a == "tkey"
             b == "cert"
  <1>1. Len(q) \in Nat /\ Len(t) = Len(q) - 1 /\ \A i \in 1..Len(t) : t[i] = q[i + 1]
    BY TailIndex
  <1>2. \A i, j \in 1..Len(q) : q[i][2] = a /\ q[j][2] = b => j < i
    BY DEF CertFirst
  <1> HIDE DEF t, a, b
  <1>3. ASSUME NEW i \in 1..Len(t), NEW j \in 1..Len(t), t[i][2] = a, t[j][2] = b PROVE j < i
    <2>1. i + 1 \in 1..Len(q) /\ j + 1 \in 1..Len(q) /\ q[i + 1][2] = a /\ q[j + 1][2] = b
      BY <1>1, <1>3
    <2>2. j + 1 < i + 1
      BY <1>2, <2>1
    <2> QED
      BY <1>1, <2>2
  <1>4. \A i, j \in 1..Len(t) : t[i][2] = a /\ t[j][2] = b => j < i
    BY <1>3
  <1> QED
    BY <1>4 DEF CertFirst, t, a, b

LEMMA CertFirstConcat ==
    ASSUME NEW p \in Seq(Op), NEW q \in Seq(Op), CertFirst(p), NoPair(q)
    PROVE  CertFirst(p \o q)
  <1> DEFINE w == p \o q
  <1>1. /\ w \in Seq(Op) /\ Len(w) = Len(p) + Len(q) /\ Len(p) \in Nat /\ Len(q) \in Nat
        /\ \A i \in 1..Len(p) : w[i] = p[i]
        /\ \A i \in 1..Len(q) : w[Len(p) + i] = q[i]
        /\ \A i \in 1..Len(w) : i \in 1..Len(p) \/ (i - Len(p)) \in 1..Len(q)
    BY ConcatIndex, Zenon
  <1> HIDE DEF w
  <1>2. ASSUME NEW i \in 1..Len(w), w[i][2] \in {"cert", "tkey"} PROVE i \in 1..Len(p) /\ w[i] = p[i]
    <2>1. CASE (i - Len(p)) \in 1..Len(q)
      <3>1. w[Len(p) + (i - Len(p))] = q[i - Len(p)] /\ Len(p) + (i - Len(p)) = i
        BY <1>1, <2>1
      <3> QED
        BY <1>2, <2>1, <3>1 DEF NoPair
    <2> QED
      BY <1>1, <2>1
  <1>3. CertFirst(w)
    BY <1>2 DEF CertFirst
  <1> QED
    BY <1>3 DEF w

LEMMA CertFirstRest ==
    ASSUME Sound, CertFirst(cmd.todo), NEW s \in StepNames("install"), At(s), NEW new \in NewOps, Rest(new)
    PROVE  CertFirst(cmd'.todo)
  <1> DEFINE t == Tail(cmd.todo)
             p == new \o t
  <1>0. Typed /\ ListShape /\ cmd.todo \in Seq(Op)
    BY OthersAreTyped DEF Typed, Command
  <1>1. cmd.todo # <<>> /\ AllSteps(t)
    BY <1>0, AtDoes
  <1>2. t \in Seq(Op) /\ \A x : Has(t, Step(x)) => x \in StepNames(cmd.name)
    BY <1>0, <1>1, TailIndex, HasTail DEF ListShape, ToDo
  <1>3. NoPair(t)
    BY <1>1, <1>2, StepsPlain
  <1>4. new \in Seq(Op) /\ CertFirst(new)
    BY CertFirstNew
  <1>5. cmd' = [cmd EXCEPT !.todo = p]
    BY DEF Rest
  <1> HIDE DEF t
  <1>6. CertFirst(p) /\ p \in Seq(Op)
    BY <1>2, <1>3, <1>4, CertFirstConcat, ConcatIndex
  <1> HIDE DEF p
  <1>7. cmd'.todo = p
    BY <1>0, <1>5 DEF Typed, Command
  <1> QED
    BY <1>6, <1>7

LEMMA CertFirstPlain ==
    ASSUME Sound, CertFirst(cmd.todo), cmd.todo # <<>>, Rest(<<>>)
    PROVE  CertFirst(cmd'.todo)
  <1>1. cmd.todo \in Seq(Op)
    BY DEF Sound, Typed, Command
  <1> QED
    BY <1>1, TailRest, CertFirstTail

LEMMA CertFirstStarts ==
    ASSUME NEW name, Starts(name)
    PROVE  CertFirst(cmd'.todo)
  <1>1. /\ cmd'.todo \in Seq(Op) /\ AllSteps(cmd'.todo)
        /\ \A s : Has(cmd'.todo, Step(s)) => s \in StepNames(cmd'.name)
    BY DEF Starts, Command, ListShape, ToDo
  <1> QED
    BY <1>1, StepsPlain

LEMMA CertFirstEnds ==
    ASSUME Ends
    PROVE  CertFirst(cmd'.todo)
  BY DEF Ends, CertFirst

-----------------------------------------------------------------------------
(* Installations: what the steps behind have left.                         *)

LEMMA InstallNot ==
    ASSUME InstallInv, CertFirst(cmd'.todo), ~Installs', pending'.st = Torn => ghost'.cut,
           cmd'.name = "install" => cmd'.num > 0
    PROVE  InstallInv'
  BY DEF InstallInv

(* The server, the administrator and the machine.                          *)
LEMMA InstallOthers ==
    ASSUME InstallInv, UNCHANGED cmd, ghost'.last \in {ghost.last, "none"},
           ghost.cut => ghost'.cut, ghost.raced => ghost'.raced,
           pending'.st = Torn => pending.st = Torn,
           \A f \in {"bin", "unit", "cert", "tkey"} : files'[f] = files[f],
           (conf.st = 1 \/ pending.st = 1) /\ ~ghost'.cut => conf'.st = 1 \/ pending'.st = 1,
           (files["dkim"] # Torn \/ srv.st = "gen") /\ ~ghost'.raced =>
               files'["dkim"] # Torn \/ srv'.st = "gen"
    PROVE  InstallInv'
  <1>1. Installs' => Installs
    BY DEF Installs
  <1>2. /\ \A s : ToDo(s)' <=> ToDo(s)
        /\ \A f : Writing(f)' <=> Writing(f)
    BY DEF ToDo, Writing
  <1>3. PairInv => PairInv'
    BY <1>2 DEF PairInv
  <1> QED
    BY <1>1, <1>2, <1>3 DEF InstallInv

LEMMA InstallServer ==
    ASSUME Sound, KeyInv, InstallInv,
           \/ ExecStartPre \/ CopyCutShort \/ Boot \/ reloadConfig \/ restartService
           \/ Settings \/ SystemctlStart \/ RotateKeys
    PROVE  InstallInv'
  <1>0. Typed /\ ListShape /\ GenShape /\ {"bin", "unit", "cert", "tkey", "dkim"} \subseteq File
    BY OthersAreTyped DEF File
  <1>1. pending.st \in {Torn, 0, 1} /\ (pending.st = Torn => ghost.cut)
    BY <1>0 DEF Typed, ConfigFile, InstallInv
  <1>2. CASE ExecStartPre
    <2>1. /\ srv.st = "off" /\ pending'.st = 0 /\ UNCHANGED <<files, cmd, ghost>>
          /\ pending.st # 0 => conf' = pending
          /\ pending.st = 0 => UNCHANGED conf
      BY <1>0, <1>2, StartDoes
    <2> QED
      BY <1>1, <2>1, Constants, InstallOthers
  <1>3. CASE CopyCutShort
    <2>1. pending.st # 0 /\ UNCHANGED <<files, pending, srv, cmd, ghost>>
      BY <1>0, <1>3, CopyCutShortDoes
    <2> QED
      BY <1>1, <2>1, InstallOthers
  <1>4. CASE Run \/ moduleMain
    <2>1. UNCHANGED <<files, conf, pending, cmd, ghost>> /\ srv.st # "gen"
      BY <1>0, <1>4, RunDoes, moduleMainDoes
    <2> QED
      BY <2>1, InstallOthers
  <1>5. CASE loadOrGenerateKey
    <2>1. /\ UNCHANGED <<files, conf, pending, cmd>> /\ srv.st # "gen"
          /\ ghost'.last = ghost.last /\ ghost'.cut = ghost.cut /\ (ghost.raced => ghost'.raced)
      BY <1>0, <1>5, loadOrGenerateKeyDoes DEF Begins
    <2> QED
      BY <2>1, InstallOthers
  <1>6. CASE writeDNSRecord
    <2>1. /\ UNCHANGED <<conf, pending, cmd, ghost>> /\ srv'.st = "gen"
          /\ \A f \in {"bin", "unit", "cert", "tkey"} : files'[f] = files[f]
      BY <1>0, <1>6, writeDNSRecordDoes DEF Turns, SetsFile
    <2> QED
      BY <2>1, InstallOthers
  <1>7. CASE generateAndWrite
    <2>1. /\ UNCHANGED <<conf, pending, cmd, ghost>> /\ srv.st = "gen"
          /\ \A f \in {"bin", "unit", "cert", "tkey"} : files'[f] = files[f]
          /\ \/ srv'.st = "gen"
             \/ Head(srv.todo) = "key" /\ files["dkim"] # 0
             \/ files'["dkim"] > 0
      BY <1>0, <1>7, generateAndWriteDoes DEF Turns, SetsFile
    <2>2. ~ghost.raced => ~(Head(srv.todo) = "key" /\ files["dkim"] # 0)
      BY <2>1 DEF KeyInv, Generating
    <2>3. ~ghost'.raced => files'["dkim"] # Torn \/ srv'.st = "gen"
      BY <2>1, <2>2, Constants
    <2> QED
      BY <2>1, <2>3, InstallOthers
  <1>8. CASE reloadConfig
    <2>1. /\ UNCHANGED <<files, conf, cmd>> /\ srv.st # "gen" /\ (pending'.st = 1 \/ UNCHANGED pending)
          /\ ghost'.last = ghost.last /\ ghost'.cut = ghost.cut /\ ghost'.raced = ghost.raced
      BY <1>0, <1>8, reloadConfigDoes
    <2> QED
      BY <2>1, Constants, InstallOthers
  <1>9. CASE restartService \/ Settings \/ SystemctlStart
    <2>1. UNCHANGED <<files, conf, pending, cmd, ghost>> /\ (srv.st # "gen" \/ UNCHANGED srv)
      BY <1>0, <1>9, AdminDoes, SettingsDoes DEF Settings
    <2> QED
      BY <2>1, InstallOthers
  <1>10. CASE RotateKeys
    <2>1. /\ UNCHANGED <<conf, pending, srv, cmd>> /\ files'["dkim"] = 0
          /\ ghost'.last = "none" /\ ghost'.cut = ghost.cut /\ ghost'.raced = ghost.raced
          /\ \A f \in {"bin", "unit", "cert", "tkey"} : files'[f] = files[f]
      BY <1>0, <1>10, AdminDoes DEF SetsFile
    <2> QED
      BY <2>1, Constants, InstallOthers
  <1> QED
    BY <1>2, <1>3, <1>4, <1>5, <1>6, <1>7, <1>8, <1>9, <1>10 DEF Boot, initModules

LEMMA InstallStarted ==
    ASSUME Sound, InstallInv, \/ \E o \in InstallOpts : installCommand(o)
                              \/ \E o \in UpgradeOpts : upgradeCommand(o)
                              \/ \E o \in UninstallOpts : uninstallCommand(o)
    PROVE  InstallInv'
  <1>0. Typed /\ ListShape
    BY OthersAreTyped
  <1>1. PICK name : Starts(name)
    BY <1>0, InstallStarts, UpgradeStarts, UninstallStarts
  <1>2. CertFirst(cmd'.todo) /\ (pending'.st = Torn => ghost'.cut) /\ \A f : ~Writing(f)'
    BY <1>1, CertFirstStarts, StartsClean DEF Starts, InstallInv
  <1>3. CASE \/ \E o \in UpgradeOpts : upgradeCommand(o)
             \/ \E o \in UninstallOpts : uninstallCommand(o)
    BY <1>0, <1>2, <1>3, UpgradeStarts, UninstallStarts, InstallNot DEF Starts, Installs
  <1>4. CASE \E o \in InstallOpts : installCommand(o)
    BY <1>0, <1>2, <1>4, InstallStarts DEF InstallInv, PairInv
  <1> QED
    BY <1>3, <1>4

(* A step of an installation that writes nothing itself.                   *)
LEMMA InstallQuiet ==
    ASSUME Sound, InstallInv, NEW s \in StepNames("install"), At(s), NEW new \in NewOps, Rest(new),
           UNCHANGED <<files, conf, pending, srv, ghost>>,
           s \in {"bin", "unit", "conf"} => Writes(new, s),
           s = "certs" /\ cmd.mode = "self_signed" => Writes(new, "tkey"),
           Writes(new, "tkey") <=> Writes(new, "cert"),
           s \in {"dkim", "record"} /\ ~ghost.cut /\ ~ghost.raced =>
               \/ Writes(new, "dkim") \/ Has(new, Step("record")) \/ files["dkim"] # Torn \/ srv.st = "gen"
    PROVE  InstallInv'
  <1>0. Typed /\ ListShape
    BY OthersAreTyped
  <1>1. Advance(new) /\ Keeps /\ (\A f : ~Writing(f)) /\ Head(cmd.todo) = Step(s)
    BY <1>0, InstallStep, AtDoes DEF Advance
  <1>2. CertFirst(cmd'.todo)
    BY CertFirstRest DEF InstallInv
  <1>3. \A f : Writing(f)' <=> Writes(new, f)
    BY <1>1, WritingAdvances DEF Advance, Writing, Writes
  <1>4. \A t : ToDo(t) /\ t # s => ToDo(t)'
    <2>1. \A t : t # s => Step(t) # Step(s)
      BY DEF Step
    <2> QED
      BY <1>1, <2>1 DEF Advance, ToDo
  <1>5. Has(new, Step("record")) => ToDo("record")'
    BY <1>1 DEF Advance, ToDo
  <1>6. Installs' => Installs
    BY <1>1 DEF Installs, Keeps
  <1>7. cmd'.mode = cmd.mode /\ cmd'.num = cmd.num /\ cmd'.skip = cmd.skip /\ cmd'.name = cmd.name
    BY <1>1 DEF Keeps
  <1>8. cmd.mode = "self_signed" /\ PairInv => PairInv'
    BY <1>1, <1>3, <1>4, <1>7 DEF PairInv
  <1>9. ASSUME Installs', ~ghost'.cut, ~ghost'.raced
        PROVE  /\ ToDo("bin")' \/ Writing("bin")' \/ files'["bin"] > 0
               /\ cmd'.skip \/ ToDo("unit")' \/ Writing("unit")' \/ files'["unit"] > 0
               /\ ToDo("conf")' \/ Writing("conf")' \/ conf'.st = 1 \/ pending'.st = 1
               /\ cmd'.mode = "self_signed" => PairInv'
               /\ ToDo("dkim")' \/ Writing("dkim")' \/ ToDo("record")' \/ files'["dkim"] # Torn \/ srv'.st = "gen"
    BY <1>1, <1>3, <1>4, <1>5, <1>6, <1>7, <1>8, <1>9 DEF InstallInv
  <1> QED
    BY <1>2, <1>7, <1>9 DEF InstallInv

LEMMA InstallQuiets ==
    ASSUME Sound, KeyInv, InstallInv, Quiets \/ createMaddyUser
    PROVE  InstallInv'
  <1>0. Typed /\ ListShape
    BY OthersAreTyped
  <1>1. /\ {"check", "user", "dirs", "certs", "dkim", "record", "unit", "conf", "perm", "bin", "iroh"}
             \subseteq StepNames("install")
        /\ {"verify", "copy"} \subseteq StepNames("upgrade")
    BY DEF StepNames
  <1>2. /\ <<>> \in NewOps /\ <<Step("record")>> \in NewOps /\ Write("cert") \o Write("tkey") \in NewOps
        /\ Write("dkim") \o <<Step("record")>> \in NewOps
        /\ Write("dns") \in NewOps /\ Write("unit") \in NewOps /\ Write("conf") \in NewOps
        /\ Write("bin") \in NewOps /\ Write("iroh") \in NewOps
    BY DEF NewOps, File
  <1>3. \A f \in {"dns", "unit", "conf", "bin", "iroh"} : /\ Writes(Write(f), f)
                                                         /\ ~Writes(Write(f), "tkey") /\ ~Writes(Write(f), "cert")
    <2>1. {"dns", "unit", "conf", "bin", "iroh"} \subseteq OpNames
      BY DEF OpNames
    <2> QED
      BY <2>1, WritesNew
  <1>4. /\ \A g : ~Writes(<<>>, g) /\ ~Writes(<<Step("record")>>, g)
        /\ \A g : Writes(Write("cert") \o Write("tkey"), g) <=> g \in {"cert", "tkey"}
        /\ \A g : Writes(Write("dkim") \o <<Step("record")>>, g) <=> g = "dkim"
        /\ Has(<<Step("record")>>, Step("record"))
    BY WritesNew
  <1>5. CASE checkSystemRequirements
    BY <1>1, <1>2, <1>4, <1>5, InstallQuiet DEF checkSystemRequirements, OnlyCommand
  <1>6. CASE createDirectories
    BY <1>1, <1>2, <1>4, <1>6, InstallQuiet DEF createDirectories, OnlyCommand
  <1>7. CASE setupPermissions
    BY <1>1, <1>2, <1>4, <1>7, InstallQuiet DEF setupPermissions, OnlyCommand
  <1>8. CASE createMaddyUser
    BY <1>1, <1>2, <1>4, <1>8, InstallQuiet DEF createMaddyUser
  <1>9. CASE setupCertificates
    <2>1. CASE cmd.mode = "self_signed"
      <3>1. At("certs") /\ Rest(Write("cert") \o Write("tkey")) /\ OnlyCommand
        BY <1>9, <2>1 DEF setupCertificates
      <3> QED
        BY <1>1, <1>2, <1>4, <3>1, InstallQuiet DEF OnlyCommand
    <2>2. CASE cmd.mode # "self_signed"
      <3>1. At("certs") /\ Rest(<<>>) /\ OnlyCommand
        BY <1>9, <2>2 DEF setupCertificates
      <3> QED
        BY <1>1, <1>2, <1>4, <2>2, <3>1, InstallQuiet DEF OnlyCommand
    <2> QED
      BY <2>1, <2>2
  <1>10. CASE prepareDKIMKeys
    <2>1. CASE files["dns"] # 0
      <3>1. At("dkim") /\ Rest(<<>>) /\ OnlyCommand
        BY <1>10, <2>1 DEF prepareDKIMKeys
      <3>2. ~ghost.cut /\ ~ghost.raced => files["dkim"] # Torn \/ srv.st = "gen"
        BY <2>1 DEF KeyInv
      <3> QED
        BY <1>1, <1>2, <1>4, <3>1, <3>2, InstallQuiet DEF OnlyCommand
    <2>2. CASE files["dns"] = 0 /\ files["dkim"] # 0
      <3>1. At("dkim") /\ Rest(<<Step("record")>>) /\ OnlyCommand
        BY <1>10, <2>2 DEF prepareDKIMKeys
      <3> QED
        BY <1>1, <1>2, <1>4, <3>1, InstallQuiet DEF OnlyCommand
    <2>3. CASE files["dns"] = 0 /\ files["dkim"] = 0
      <3>1. At("dkim") /\ Rest(Write("dkim") \o <<Step("record")>>) /\ OnlyCommand
        BY <1>10, <2>3 DEF prepareDKIMKeys
      <3> QED
        BY <1>1, <1>2, <1>4, <3>1, InstallQuiet DEF OnlyCommand
    <2> QED
      BY <2>1, <2>2, <2>3
  <1>11. CASE generateDKIMDNSRecord
    <2>1. At("record") /\ Rest(Write("dns")) /\ OnlyCommand /\ files["dkim"] # Torn
      BY <1>11, Constants DEF generateDKIMDNSRecord
    <2> QED
      BY <1>1, <1>2, <1>3, <2>1, InstallQuiet DEF OnlyCommand
  <1>12. CASE installSystemdFiles
    BY <1>1, <1>2, <1>3, <1>12, InstallQuiet DEF installSystemdFiles, OnlyCommand
  <1>13. CASE generateConfigFile
    <2>1. At("conf") /\ Rest(Write("conf")) /\ OnlyCommand
      BY <1>13 DEF generateConfigFile, Write
    <2> QED
      BY <1>1, <1>2, <1>3, <2>1, InstallQuiet DEF OnlyCommand
  <1>14. CASE installBinary
    BY <1>1, <1>2, <1>3, <1>14, InstallQuiet DEF installBinary, OnlyCommand
  <1>15. CASE installIrohRelay
    BY <1>1, <1>2, <1>3, <1>15, InstallQuiet DEF installIrohRelay, OnlyCommand
  <1>16. CASE DryStep \/ VerifySignature \/ CopyTemporary
    <2>1. Quiet(<<>>) /\ cmd.todo # <<>> /\ Rest(<<>>)
      BY <1>0, <1>16, OtherSteps DEF DryStep, VerifySignature, CopyTemporary, At
    <2>2. CertFirst(cmd'.todo)
      BY <2>1, CertFirstPlain DEF InstallInv
    <2>3. cmd.dry \/ cmd.name # "install"
      BY <1>0, <1>1, <1>16, AtDoes, WhoseStep DEF DryStep, VerifySignature, CopyTemporary
    <2>4. ghost.last # "install"
      BY <2>1, ToDoNamed
    <2>5. /\ ~Installs' /\ (pending'.st = Torn => ghost'.cut)
          /\ cmd'.name = "install" => cmd'.num > 0
      BY <2>1, <2>3, <2>4 DEF Installs, Quiet, OnlyCommand, Advance, Keeps, InstallInv
    <2> QED
      BY <2>2, <2>5, InstallNot
  <1> QED
    BY <1>5, <1>6, <1>7, <1>8, <1>9, <1>10, <1>11, <1>12, <1>13, <1>14, <1>15, <1>16 DEF Quiets

(* A file is created or written.                                           *)
LEMMA PutsDoes ==
    ASSUME Sound, NEW k \in {"create", "write"}, NEW f, NEW v, NEW st, Puts(k, f, v, st)
    PROVE  /\ \A s : ToDo(s) => ToDo(s)'
           /\ \A g : g # f /\ Writing(g) => Writing(g)'
           /\ \A g : Writing(g)' => Writing(g)
           /\ cmd'.mode = cmd.mode /\ cmd'.num = cmd.num /\ cmd'.skip = cmd.skip /\ cmd'.name = cmd.name
           /\ Installs' => Installs
  <1>1. Head(cmd.todo) = <<k, f>> /\ Advance(<<>>)
    BY DEF Puts
  <1>2. /\ \A s : Step(s) # <<k, f>>
        /\ \A g : g # f => <<"create", g>> # <<k, f>> /\ <<"write", g>> # <<k, f>>
    BY DEF Step
  <1>3. \A s : ToDo(s) => ToDo(s)'
    BY <1>1, <1>2 DEF Advance, ToDo
  <1>4. \A g : g # f /\ Writing(g) => Writing(g)'
    BY <1>1, <1>2 DEF Advance, Writing, Writes
  <1>5. \A g : Writing(g)' => Writing(g)
    BY <1>1, WritingAdvances
  <1>6. /\ cmd'.mode = cmd.mode /\ cmd'.num = cmd.num /\ cmd'.skip = cmd.skip /\ cmd'.name = cmd.name
        /\ cmd'.dry = cmd.dry
    BY <1>1 DEF Advance, Keeps
  <1>7. Installs' => Installs
    BY <1>6 DEF Installs, Puts
  <1> QED
    BY <1>3, <1>4, <1>5, <1>6, <1>7

LEMMA KeyBeforeCert ==
    ASSUME Sound, CertFirst(cmd.todo), cmd.todo # <<>>, Head(cmd.todo)[2] = "tkey", Writing("cert")
    PROVE  FALSE
  <1>1. cmd.todo \in Seq(Op)
    BY DEF Sound, Typed, Command
  <1>2. PICK j \in 1..Len(cmd.todo) : cmd.todo[j] \in {<<"create", "cert">>, <<"write", "cert">>}
    BY DEF Writing, Writes, Has
  <1>3. cmd.todo[j][2] = "cert"
    BY <1>2
  <1>4. cmd.todo[1] = Head(cmd.todo) /\ 1 \in 1..Len(cmd.todo)
    BY <1>1, TailIndex
  <1>5. j < 1
    BY <1>3, <1>4 DEF CertFirst
  <1> QED
    BY <1>5

LEMMA InstallPuts ==
    ASSUME Sound, InstallInv, NEW k \in {"create", "write"}, NEW f \in File \cup {"conf"}, NEW v, NEW st,
           Puts(k, f, v, st),
           k = "create" => Writing(f)',
           k = "write" => v = Contents(f) /\ st = 1,
           CertFirst(cmd'.todo)
    PROVE  InstallInv'
  <1>1. /\ \A s : ToDo(s) => ToDo(s)'
        /\ \A g : g # f /\ Writing(g) => Writing(g)'
        /\ \A g : Writing(g)' => Writing(g)
        /\ cmd'.mode = cmd.mode /\ cmd'.num = cmd.num /\ cmd'.skip = cmd.skip /\ cmd'.name = cmd.name
        /\ Installs' => Installs
    BY PutsDoes
  <1>2. /\ \A g \in File : g # f => files'[g] = files[g]
        /\ f # "conf" => files'[f] = v
        /\ f = "conf" => conf'.st = st
        /\ f # "conf" => UNCHANGED conf
        /\ UNCHANGED <<pending, srv>> /\ ghost'.cut = ghost.cut /\ ghost'.raced = ghost.raced
        /\ Writing(f) /\ cmd.name = "install" /\ cmd.todo # <<>> /\ Head(cmd.todo)[2] = f
    BY DEF Puts, SetsFile
  <1>3. {"bin", "unit", "cert", "tkey", "dkim"} \subseteq File
    BY DEF File
  <1>4. cmd.num > 0 /\ CertFirst(cmd.todo)
    BY <1>2 DEF InstallInv
  <1>5. k = "write" /\ f # "dns" => v = cmd.num
    BY DEF Contents
  <1>6. f = "tkey" => ~Writing("cert")
    BY <1>2, <1>4, KeyBeforeCert
  <1>7. ASSUME PairInv PROVE PairInv'
    <2>1. Writing("cert")' => Writing("tkey")'
      <3>1. CASE f = "tkey"
        BY <1>1, <1>6, <3>1
      <3>2. CASE f # "tkey"
        BY <1>1, <1>7, <3>2 DEF PairInv
      <3> QED
        BY <3>1, <3>2
    <2>2. Writing("tkey")' => Writing("cert")' \/ files'["cert"] = cmd'.num
      <3>1. CASE f = "cert"
        BY <1>1, <1>2, <1>5, <3>1
      <3>2. CASE f # "cert"
        BY <1>1, <1>2, <1>3, <1>7, <3>2 DEF PairInv
      <3> QED
        BY <3>1, <3>2
    <2>3. \/ ToDo("certs")' \/ Writing("tkey")'
          \/ files'["cert"] > 0 /\ files'["cert"] = files'["tkey"]
      <3>1. CASE f = "tkey"
        <4>1. files["cert"] = cmd.num
          BY <1>2, <1>6, <1>7, <3>1 DEF PairInv
        <4>2. files'["cert"] = cmd.num /\ files'["tkey"] = v
          BY <1>2, <1>3, <3>1, <4>1
        <4> QED
          BY <1>4, <1>5, <3>1, <4>2
      <3>2. CASE f = "cert"
        <4>1. Writing("tkey")
          BY <1>2, <1>7, <3>2 DEF PairInv
        <4> QED
          BY <1>1, <3>2, <4>1
      <3>3. CASE f \notin {"cert", "tkey"}
        BY <1>1, <1>2, <1>3, <1>7, <3>3 DEF PairInv
      <3> QED
        BY <3>1, <3>2, <3>3
    <2> QED
      BY <2>1, <2>2, <2>3 DEF PairInv
  <1>8. ASSUME Installs', ~ghost'.cut, ~ghost'.raced
        PROVE  /\ ToDo("bin")' \/ Writing("bin")' \/ files'["bin"] > 0
               /\ cmd'.skip \/ ToDo("unit")' \/ Writing("unit")' \/ files'["unit"] > 0
               /\ ToDo("conf")' \/ Writing("conf")' \/ conf'.st = 1 \/ pending'.st = 1
               /\ cmd'.mode = "self_signed" => PairInv'
               /\ ToDo("dkim")' \/ Writing("dkim")' \/ ToDo("record")' \/ files'["dkim"] # Torn \/ srv'.st = "gen"
    <2>0. /\ ToDo("bin") \/ Writing("bin") \/ files["bin"] > 0
          /\ cmd.skip \/ ToDo("unit") \/ Writing("unit") \/ files["unit"] > 0
          /\ ToDo("conf") \/ Writing("conf") \/ conf.st = 1 \/ pending.st = 1
          /\ cmd.mode = "self_signed" => PairInv
          /\ ToDo("dkim") \/ Writing("dkim") \/ ToDo("record") \/ files["dkim"] # Torn \/ srv.st = "gen"
      BY <1>1, <1>2, <1>8 DEF InstallInv
    <2>1. ToDo("bin")' \/ Writing("bin")' \/ files'["bin"] > 0
      BY <1>1, <1>2, <1>3, <1>4, <1>5, <2>0
    <2>2. cmd'.skip \/ ToDo("unit")' \/ Writing("unit")' \/ files'["unit"] > 0
      BY <1>1, <1>2, <1>3, <1>4, <1>5, <2>0
    <2>3. ToDo("conf")' \/ Writing("conf")' \/ conf'.st = 1 \/ pending'.st = 1
      BY <1>1, <1>2, <2>0
    <2>4. ToDo("dkim")' \/ Writing("dkim")' \/ ToDo("record")' \/ files'["dkim"] # Torn \/ srv'.st = "gen"
      BY <1>1, <1>2, <1>3, <1>4, <1>5, <2>0, Constants
    <2> QED
      BY <1>1, <1>7, <2>0, <2>1, <2>2, <2>3, <2>4
  <1>9. (pending'.st = Torn => ghost'.cut) /\ (cmd'.name = "install" => cmd'.num > 0)
    BY <1>1, <1>2, <1>4 DEF InstallInv
  <1> QED
    BY <1>8, <1>9 DEF InstallInv

LEMMA InstallWrites ==
    ASSUME Sound, InstallInv, CreateFile \/ WriteFile
    PROVE  InstallInv'
  <1>0. Typed /\ ListShape
    BY OthersAreTyped
  <1>1. CertFirst(cmd'.todo)
    BY CertFirstPlain DEF InstallInv, CreateFile, WriteFile
  <1>2. CASE CreateFile
    <2>1. PICK f \in File \cup {"conf"} : Puts("create", f, Torn, Torn) /\ Has(cmd'.todo, <<"write", f>>)
      BY <1>0, <1>2, CreateFileDoes
    <2>2. Writing(f)'
      BY <2>1 DEF Writing, Writes
    <2> QED
      BY <1>1, <2>1, <2>2, InstallPuts
  <1>3. CASE WriteFile
    <2>1. PICK f \in File \cup {"conf"} : Puts("write", f, Contents(f), 1)
      BY <1>0, <1>3, WriteFileDoes
    <2> QED
      BY <1>1, <2>1, InstallPuts
  <1> QED
    BY <1>2, <1>3

LEMMA InstallOtherCommands ==
    ASSUME Sound, InstallInv,
           \/ StopForUpgrade \/ performUpgrade \/ StartAfterUpgrade
           \/ stopService \/ disableService \/ removeSystemdFiles \/ removeConfigFiles
           \/ removeStateDir \/ removeBinary \/ removeUser
    PROVE  InstallInv'
  <1>0. Typed /\ ListShape
    BY OthersAreTyped
  <1>1. cmd.todo # <<>> /\ Rest(<<>>)
    BY DEF StopForUpgrade, performUpgrade, StartAfterUpgrade, stopService, disableService, removeSystemdFiles,
           removeConfigFiles, removeStateDir, removeBinary, removeUser, At
  <1>2. CertFirst(cmd'.todo)
    BY <1>1, CertFirstPlain DEF InstallInv
  <1>3. /\ Advance(<<>>) /\ cmd.name # "install" /\ ghost'.last = ghost.last
        /\ pending'.st = 0 \/ UNCHANGED pending
        /\ ghost.cut => ghost'.cut
    <2>1. CASE StopForUpgrade \/ performUpgrade \/ StartAfterUpgrade
      BY <1>0, <2>1, UpgradeDoes DEF Stops
    <2>2. CASE stopService \/ disableService \/ removeSystemdFiles
      BY <1>0, <2>2, stopServiceDoes, disableServiceDoes, removeSystemdFilesDoes DEF Removes, Stops
    <2>3. CASE removeConfigFiles \/ removeBinary
      BY <1>0, <2>3, removeConfigFilesDoes, removeBinaryDoes DEF Removes
    <2>4. CASE removeStateDir \/ removeUser
      BY <1>0, <2>4, removeStateDirDoes, removeUserDoes, Constants DEF Removes, Goes
    <2> QED
      BY <2>1, <2>2, <2>3, <2>4
  <1>4. ghost.last # "install"
    BY <1>1, ToDoNamed
  <1>5. /\ ~Installs' /\ cmd'.name # "install"
        /\ pending'.st = Torn => ghost'.cut
    BY <1>3, <1>4, Constants DEF Installs, Advance, Keeps, InstallInv
  <1> QED
    BY <1>2, <1>5, InstallNot

LEMMA InstallEnds ==
    ASSUME Sound, InstallInv, StepFails \/ CommandDone \/ PowerLoss \/ PendingCutShort
    PROVE  InstallInv'
  <1>0. Typed /\ ListShape
    BY OthersAreTyped
  <1>1. CASE StepFails \/ PowerLoss \/ PendingCutShort
    <2>1. /\ Ends /\ ghost'.last \in {"none", "failed"}
          /\ ghost'.cut \/ (UNCHANGED pending /\ ~ghost.cut)
      BY <1>0, <1>1, StepFailsDoes, PowerLossDoes, PendingCutShortDoes
    <2>2. /\ ~Installs' /\ cmd'.name # "install" /\ CertFirst(cmd'.todo)
          /\ pending'.st = Torn => ghost'.cut
      BY <2>1, CertFirstEnds DEF Installs, Ends, InstallInv
    <2> QED
      BY <2>2, InstallNot
  <1>2. CASE CommandDone
    <2>1. /\ Ends /\ cmd.todo = <<>> /\ (ghost'.last # "none" => ~cmd.dry /\ ghost'.last = cmd.name)
          /\ cmd'.skip = cmd.skip /\ cmd'.mode = cmd.mode /\ cmd'.num = cmd.num
          /\ cmd'.name = "none" /\ ghost'.cut = ghost.cut /\ ghost'.raced = ghost.raced
          /\ UNCHANGED <<files, conf, pending, srv>>
      BY <1>0, <1>2, CommandDoneDoes DEF Ends
    <2>2. (\A s : ~ToDo(s)) /\ (\A f : ~Writing(f)) /\ (\A s : ~ToDo(s)') /\ (\A f : ~Writing(f)')
      <3>1. \A o : ~Has(cmd.todo, o)
        BY <2>1 DEF Has
      <3>2. (\A s : ~ToDo(s)) /\ (\A f : ~Writing(f))
        BY <3>1 DEF ToDo, Writing, Writes
      <3>3. (\A s : ~ToDo(s)') /\ (\A f : ~Writing(f)')
        BY <2>1, EndsClean
      <3> QED
        BY <3>2, <3>3
    <2>3. CertFirst(cmd'.todo)
      BY <2>1, CertFirstEnds
    <2>4. Installs' => Installs
      BY <2>1 DEF Installs
    <2>5. PairInv => PairInv'
      BY <2>1, <2>2 DEF PairInv
    <2> QED
      BY <2>1, <2>2, <2>3, <2>4, <2>5 DEF InstallInv
  <1> QED
    BY <1>1, <1>2

LEMMA InstallNext ==
    ASSUME Sound, KeyInv, InstallInv, [Next]_vars
    PROVE  InstallInv'
  <1>1. CASE UNCHANGED vars
    BY <1>1 DEF vars, InstallInv, Installs, PairInv, ToDo, Writing
  <1> QED
    BY <1>1, NextSplit, InstallStarted, InstallQuiets, InstallWrites, InstallOtherCommands, InstallServer, InstallEnds

LEMMA InstallInit ==
    Init => InstallInv
  <1> SUFFICES ASSUME Init PROVE InstallInv
    OBVIOUS
  <1>1. cmd.todo = <<>> /\ cmd.name = "none" /\ ghost.last = "none" /\ pending.st = 0
    BY NoCmdTyped, Constants DEF Init
  <1>2. CertFirst(cmd.todo)
    BY <1>1 DEF CertFirst
  <1> QED
    BY <1>1, <1>2, Constants DEF InstallInv, Installs

(* An installation on its way, in every state: each file the server needs  *)
(* is still on the list, or on the disk and whole.                         *)
THEOREM InstallInvariant == Spec => [](Sound /\ KeyInv /\ InstallInv)
  <1>1. Init => Sound /\ KeyInv /\ InstallInv
    BY SoundInit, KeyInit, InstallInit
  <1>2. Sound /\ KeyInv /\ InstallInv /\ [Next]_vars => (Sound /\ KeyInv /\ InstallInv)'
    BY SoundNext, KeyNext, InstallNext
  <1> QED
    BY <1>1, <1>2, PTL DEF Spec

(* What install and uninstall report is so: after install the binary, the  *)
(* unit and the configuration are whole, the certificate belongs to its    *)
(* key and no torn DKIM key is left; after an uninstall that kept nothing  *)
(* the configuration, the mail and the settings are gone, whatever earlier *)
(* commands, interruptions and servers did.                                *)
THEOREM CommandsHonestTheorem == Spec => []CommandsHonest
  <1>1. Sound /\ InstallInv => InstalledCanStart
    <2> SUFFICES ASSUME Sound, InstallInv, ghost.last = "install", ~ghost.cut, ~ghost.raced
                 PROVE  /\ files["bin"] > 0
                        /\ cmd.skip \/ files["unit"] > 0
                        /\ conf.st = 1 \/ pending.st = 1
                        /\ cmd.mode = "self_signed" => files["cert"] > 0 /\ files["cert"] = files["tkey"]
                        /\ files["dkim"] # Torn \/ srv.st = "gen"
      BY DEF InstalledCanStart
    <2>1. (\A s : ~ToDo(s)) /\ (\A f : ~Writing(f))
      BY ToDoNamed
    <2> QED
      BY <2>1 DEF InstallInv, Installs, PairInv
  <1>2. Sound /\ UninstallInv => UninstalledIsGone
    <2> SUFFICES ASSUME Sound, UninstallInv, ghost.last = "uninstall", cmd.keep = {}, cmd.sure
                 PROVE  conf.st = 0 /\ ~host.data /\ db.port = 0
      BY DEF UninstalledIsGone
    <2>1. \A s : ~ToDo(s)
      BY ToDoNamed
    <2> QED
      BY <2>1 DEF UninstallInv, Uninstalls
  <1>3. Sound /\ InstallInv /\ UninstallInv => CommandsHonest
    BY <1>1, <1>2 DEF CommandsHonest
  <1> QED
    BY <1>3, InstallInvariant, UninstallInvariant, PTL
=============================================================================
