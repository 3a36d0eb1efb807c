------------------------------- MODULE MCDnsCache -------------------------------
(* A name whose addresses change while it is resolved. *)
EXTENDS DnsCache

\* Its only address, an IPv4 one, becomes an IPv6 one.
MCZone == [d \in Domains |-> <<<<"4a">>, <<"6b">>>>]
===============================================================================
