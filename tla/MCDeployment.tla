---------------------------- MODULE MCDeployment ----------------------------
EXTENDS Deployment

Install(tls, domain, dry, skip, self, iroh) ==
    [tls |-> tls, domain |-> domain, dry |-> dry, skip |-> skip,
     self |-> self, iroh |-> iroh]

(* A first installation on an address, one on a name, one that asks, one   *)
(* from the installed binary itself, a local one and a dry run.            *)
MCInstalls ==
    {Install("", "ip", FALSE, FALSE, FALSE, FALSE),
     Install("self_signed", "ip", FALSE, FALSE, FALSE, FALSE),
     Install("ask", "dns", FALSE, FALSE, FALSE, TRUE),
     Install("", "ip", FALSE, TRUE, TRUE, FALSE),
     Install("", "ip", TRUE, FALSE, FALSE, FALSE)}
MCUninstalls ==
    [keep : {{}, {"config", "user"}, {"data", "binary"}}, dry : {FALSE}, force : {TRUE}, yes : {FALSE}]
    \cup {[keep |-> {}, dry |-> TRUE, force |-> FALSE, yes |-> FALSE]}
MCUpgrades == {[signed |-> TRUE], [signed |-> FALSE]}
=============================================================================
