-------------------------- MODULE MCMdnsResponder --------------------------
(* Two interfaces that may be on the same link, IPv4 only; services of one   *)
(* type and of another, one of them with its own instance name.              *)
EXTENDS MdnsResponder

CONSTANTS http, ftp

MCPcbs == <<<<"sta", 4>>, <<"eth", 4>>>>
MCOther(i) == IF i = "sta" THEN "eth" ELSE "sta"
MCTypeOf(s) == s
MCServices == {http, ftp}
MCNamed == {http}
MCDelegated == {ftp}
=============================================================================
