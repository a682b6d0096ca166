------------------------------ MODULE MCLimits ------------------------------
EXTENDS Limits

(* Two limits in the first scope, one in the others, none for addresses.   *)
MCNoIP == [s \in Scopes |->
    CASE s = "all"         -> <<"concurrency", "rate">>
      [] s = "ip"          -> <<>>
      [] s = "source"      -> <<"concurrency">>
      [] s = "destination" -> <<"concurrency">>]
=============================================================================
