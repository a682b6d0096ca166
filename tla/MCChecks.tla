------------------------------ MODULE MCChecks ------------------------------
(* The checks with two DNSBL zones and an allow list, and DMARC records that  *)
(* differ in policy, subdomain policy, pct and alignment.                     *)
EXTENDS Checks

MCScore == [bad1 |-> 1, bad2 |-> 1, good |-> -1]

MCRecords ==
    {r \in [p : {"none", "quarantine", "reject"}, sp : {"unset", "none"}, pct : BOOLEAN, strict : BOOLEAN] :
        /\ r.sp # "unset" \/ r.pct \/ r.strict => r.p = "reject"
        /\ ~(r.pct /\ r.strict) /\ (r.sp # "unset" => ~r.pct /\ ~r.strict)}

=============================================================================
