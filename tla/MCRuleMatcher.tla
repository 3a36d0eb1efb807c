----------------------------- MODULE MCRuleMatcher -----------------------------
(* Two names, one of which moves to another address, and rules for them. *)
EXTENDS RuleMatcher

corp == <<"c">>
www  == <<"w", "c">>

MCDomains == {corp, www}

MCZone == [d \in MCDomains |-> IF d = www THEN <<<<"4a", "4b">>, <<"6c">>>> ELSE <<<<"4b">>>>]

Rule(m, ips, name, p) == [match_on |-> m, ips |-> ips, name |-> name, priority |-> p]

MCRouteRules ==
  { Rule("cidr", {"4a", "4b"}, <<>>, 1),
    Rule("ip", {"4b"}, <<>>, 0),
    Rule("ip", {"6c"}, <<>>, 2),
    Rule("domain", {}, corp, 1),
    Rule("pattern", {}, <<Star, "c">>, 1) }

\* Domain and address rules of which the latter has the better priority.
BestRules == { Rule("ip", {"4b"}, <<>>, 0), Rule("pattern", {}, <<Star, "c">>, 1) }
=============================================================================
