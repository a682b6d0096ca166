------------------------------ MODULE MCServer ------------------------------
(* Small configurations: one for each way a start can go, and three that   *)
(* serve with a watched table, a certificate or a shared port.             *)
EXTENDS Server

Dir(n, k, v) == [name |-> n, args |-> k, val |-> v]
Node(n, k, v, ks) == [name |-> n, args |-> k, val |-> v, kids |-> ks]
Blk(m, n, as, ads, ds, p, rs) ==
  [mod |-> m, name |-> n, aliases |-> as, addrs |-> ads, dirs |-> ds,
   pipe |-> p, refs |-> rs]
Conf(gs, bs) == [globals |-> gs, blocks |-> bs]

Set(n) == Dir(n, 1, "set")
Host == Set("hostname")
Tls  == Set("tls")
Both == <<Host, Tls>>
Dsn  == <<Set("driver"), Set("dsn")>>

To      == Node("deliver_to", 1, "set", <<>>)
Refuse  == Node("reject", 2, "set", <<>>)
Checked == Node("check", 0, "set", <<>>)
In(n, ks)   == Node(n, 1, "set", ks)
Else(n, ks) == Node(n, 0, "set", ks)

(* Senders and recipients each told apart, and a pipeline in a pipeline.   *)
Routed ==
  <<Checked, Node("dmarc", 1, "set", <<>>),
    In("source_in", <<Refuse>>),
    In("source", <<In("destination_in", <<To>>),
                   In("destination", <<Checked, To>>),
                   Else("default_destination", <<Refuse>>)>>),
    Else("default_source",
         <<Node("reroute", 0, "set",
                <<In("destination", <<To>>),
                  Else("default_destination", <<Refuse>>)>>)>>)>>

Smtp(ds, rs) == Blk("smtp", "", {}, <<"p25">>, ds, <<To>>, rs)
Imap(ds, rs) == Blk("imap", "", {}, <<"p143">>, ds, <<>>, rs)
Module(m, n, as, ds, rs) == Blk(m, n, as, <<>>, ds, <<>>, rs)
Static(n) == Module("table.static", n, {}, <<>>, <<>>)
Storage(n) == Module("storage.imapsql", n, {}, Dsn, <<>>)
Store == Set("storage")

Watched == Conf(Both, <<Module("table.file", "tab", {"t"}, <<>>, <<>>),
                        Smtp(<<>>, <<"t">>)>>)
Renewed == Conf(Both, <<Smtp(<<>>, <<"crt">>),
                        Module("tls.loader.file", "crt", {}, <<>>, <<>>)>>)
Shared == Conf(Both, <<Storage("sql"),
                       Blk("chatmail", "", {}, <<"p443">>,
                           <<Set("mail_domain")>>, <<>>,
                           <<"sql", "smtp", "imap">>),
                       Smtp(<<>>, <<"sql">>),
                       Imap(<<Store>>, <<"sql">>)>>)
Settings == Conf(Both, <<Smtp(<<>>, <<>>), Imap(<<Store>>, <<"auth">>),
                         Module("auth.pass_table", "auth", {},
                                <<Set("table")>>, <<"st">>),
                         Static("st")>>)
Circle == Conf(<<Host, Set("autogenerated_msg_domain")>>,
               <<Blk("lmtp", "", {}, <<"sock">>, <<>>, <<To>>, <<"q">>),
                 Blk("target.queue", "q", {}, <<>>,
                     <<Set("target"), Set("bounce")>>, <<To>>, <<"pl">>),
                 Blk("msgpipeline", "pl", {}, <<>>, <<>>, <<To>>, <<"q">>)>>)
Others == Conf(<<Tls>>,
               <<Blk("turn", "", {}, <<"p3478">>,
                     <<Set("realm"), Set("secret")>>, <<>>, <<>>),
                 Blk("openmetrics", "", {}, <<"p9749">>, <<>>, <<>>, <<>>),
                 Blk("smtp", "", {}, <<"p25">>, <<Host>>, Routed, <<>>)>>)
Outbound == Conf(Both, <<Smtp(<<>>, <<"rem", "dkim", "local_mailboxes">>),
                         Module("target.remote", "rem", {}, <<>>, <<"relay">>),
                         Module("target.smtp", "relay", {},
                                <<Set("targets")>>, <<>>),
                         Module("modify.dkim", "dkim", {},
                                <<Set("domains"), Set("selector")>>, <<>>),
                         Storage("local_mailboxes")>>)

Relay == Conf(Both, <<Smtp(<<>>, <<"rem">>),
                      Module("target.remote", "rem", {}, <<>>, <<>>)>>)

Started == {Watched, Renewed, Shared, Settings, Circle, Others, Outbound,
            Relay}

Piped(p) == Conf(Both, <<Blk("smtp", "", {}, <<"p25">>, <<>>, p, <<>>)>>)

(* Configurations that must not start. *)
Refused ==
  {Conf(<<Dir("hostname", 2, "set")>>, <<Smtp(<<Tls>>, <<>>)>>),
   Conf(<<Tls>>, <<Smtp(<<>>, <<>>)>>),
   Conf(<<Tls, Tls>>, <<Smtp(<<Host>>, <<>>)>>),
   Conf(Both, <<Imap(<<Store, Dir("deliver_to", 1, "set")>>, <<>>)>>),
   Conf(Both, <<Smtp(<<Dir("debug", 2, "set")>>, <<>>)>>),
   Conf(Both, <<Smtp(<<Dir("max_message_size", 1, "bad")>>, <<>>)>>),
   Conf(Both, <<Smtp(<<>>, <<"absent">>)>>),
   Conf(Both, <<Smtp(<<>>, <<>>), Static("st")>>),
   Conf(Both, <<Static("st")>>),
   Conf(Both, <<Static("st"), Module("table.file", "st", {}, <<>>, <<>>),
                Smtp(<<>>, <<"st">>)>>),
   Conf(Both, <<Static("st"), Module("table.file", "tab", {"st"}, <<>>, <<>>),
                Smtp(<<>>, <<"st">>)>>),
   Conf(Both, <<Smtp(<<>>, <<>>),
                Blk("submission", "", {}, <<"p25">>, <<Set("auth")>>, <<To>>,
                    <<>>)>>),
   Conf(Both, <<Blk("submission", "", {}, <<"p587">>, <<>>, <<To>>, <<>>)>>),
   Conf(Both, <<Blk("turn", "", {}, <<"p3478">>,
                    <<Set("realm"), Dir("secret", 1, "zero")>>, <<>>,
                    <<>>)>>),
   Conf(Both, <<Smtp(<<>>, <<"q">>),
                Blk("target.queue", "q", {}, <<>>,
                    <<Set("target"), Set("bounce")>>, <<To>>, <<>>)>>),
   Conf(Both, <<Smtp(<<>>, <<"s">>),
                Module("storage.imapsql", "s", {},
                       Append(Dsn, Set("unused_account_retention")), <<>>)>>),
   Conf(<<Tls>>, <<Smtp(<<Host>>, <<"r">>),
                   Module("target.remote", "r", {}, <<>>, <<>>)>>),
   Piped(<<>>), Piped(<<To, Refuse>>), Piped(<<In("source", <<To>>), To>>),
   Piped(<<In("source", <<To>>)>>), Piped(<<Else("deliver", <<>>)>>),
   Piped(<<Else("destination", <<To>>),
           Else("default_destination", <<Refuse>>)>>)}

(* The second smtp block is never started. *)
Twice == Conf(Both, <<Smtp(<<>>, <<>>),
                      Blk("smtp", "", {}, <<"p24">>, <<>>, <<To>>, <<>>)>>)

(* The shared port is served before the second smtp block, which has no    *)
(* server.                                                                 *)
SharedTwice ==
  Conf(Both, <<Smtp(<<>>, <<>>),
               Blk("smtp", "", {}, <<"p24">>, <<>>, <<To>>, <<>>),
               Blk("chatmail", "", {}, <<"p443">>, <<Set("mail_domain")>>,
                   <<>>, <<"smtp">>)>>)

MCConfigs == Started \cup Refused \cup {Twice, SharedTwice}
=============================================================================
