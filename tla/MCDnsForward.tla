------------------------------ MODULE MCDnsForward ------------------------------
(* An instance of DnsForward for TLC: a query may come back once.              *)
EXTENDS DnsForward
=================================================================================
