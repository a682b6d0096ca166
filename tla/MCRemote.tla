------------------------------ MODULE MCRemote ------------------------------
(***************************************************************************)
(* Two messages.  m1 goes to two domains, so that its goroutines share the  *)
(* policies of the delivery; m2 goes to the first of them, which asks for   *)
(* MTA-STS, and may take over a connection of m1.                          *)
(***************************************************************************)
EXTENDS Remote

CONSTANTS m1, m2, a1, b1

MCTo == [m \in Msgs |-> IF m = m1 THEN {a1, b1} ELSE {a1}]
MCDomainOf == [r \in Rcpts |-> IF r = b1 THEN "db" ELSE "da"]
MCDomains == {"da", "db"}
MCMode == [d \in Domains |-> IF d = "da" THEN "enforce" ELSE "none"]
=============================================================================
