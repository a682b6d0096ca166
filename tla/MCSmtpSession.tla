--------------------------- MODULE MCSmtpSession ---------------------------
(* A pipeline for SmtpSession: r1 goes to one target, r2 is an alias for   *)
(* two addresses of another block, which has two targets, and r3 is for a  *)
(* block that rejects.                                                     *)
EXTENDS SmtpSession

CONSTANTS r1, r2, r3, x, y, b1, b2, b3, t1, t2, c1, c2

MCAddrs == {r1, r2, r3, x, y}
MCBlocks == {b1, b2, b3}
MCRewrite == [a \in MCAddrs |-> IF a = r2 THEN <<x, y>> ELSE <<a>>]
MCBlockRewrite == [a \in MCAddrs |-> <<a>>]
MCBlockOf == [a \in MCAddrs |->
    CASE a \in {r1, y} -> b1 [] a \in {r2, x} -> b2 [] a = r3 -> b3]
MCTargetsOf == [b \in MCBlocks |->
    CASE b = b1 -> <<t1>> [] b = b2 -> <<t1, t2>> [] b = b3 -> <<>>]

(* One block has a check of its own.                                       *)
MCOwnChecks == [b \in MCBlocks |-> IF b = b2 THEN {c2} ELSE {}]

(* "A" and "a" are one domain in two spellings.                            *)
MCSenders == {"a", "A"}
MCCleanDomain == [s \in MCSenders |-> "a"]

(* Submission with deferred start, and LMTP without.                       *)
MCEndpoints ==
    { [auth |-> TRUE,  defer |-> TRUE,  lmtp |-> FALSE, senders |-> {"a", "A"}],
      [auth |-> FALSE, defer |-> FALSE, lmtp |-> TRUE,  senders |-> {"a"}] }
=============================================================================
