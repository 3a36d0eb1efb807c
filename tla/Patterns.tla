-------------------------------- MODULE Patterns --------------------------------
(***************************************************************************)
(* Domain patterns: the validator (src/config/schema.rs) and the matcher   *)
(* (src/engine/matcher.rs), which were written apart and must agree.       *)
(* A pattern and a domain are sequences of letters, Star among them.       *)
(***************************************************************************)
EXTENDS Naturals, SequencesExt

Letters == STRING

Star == "*"

-----------------------------------------------------------------------------
(* Mutants of the definitions below. *)

\* A leading star is enough.
validate_domain_pattern_prefix(p) ==
  \/ p # <<>> /\ Head(p) = Star
  \/ p # <<>> /\ Last(p) = Star /\ Star \notin ToSet(Front(p))

\* A star may stand for nothing.
matches_wildcard_empty(p, domain) ==
  \/ p = <<Star>>
  \/ p # <<>> /\ Head(p) = Star /\ IsSuffix(Tail(p), domain)
  \/ p # <<>> /\ Head(p) # Star /\ Last(p) = Star /\ IsPrefix(Front(p), domain)

-----------------------------------------------------------------------------
(* validate_domain_pattern() with ensure_no_inner_star(): one star, which comes  *)
(* first or last.                                                                *)
validate_domain_pattern(p) ==
  \/ p # <<>> /\ Head(p) = Star /\ Star \notin ToSet(Tail(p))
  \/ p # <<>> /\ Last(p) = Star /\ Star \notin ToSet(Front(p))

(* RuleMatcher::matches_wildcard(): a suffix or a prefix with something in front *)
(* or behind; the rest is compared letter by letter, stars in it too.            *)
matches_wildcard(p, domain) ==
  \/ p = <<Star>>
  \/ /\ p # <<>> /\ Head(p) = Star
     /\ Len(domain) > Len(Tail(p)) /\ IsSuffix(Tail(p), domain)
  \/ /\ p # <<>> /\ Head(p) # Star /\ Last(p) = Star
     /\ Len(domain) > Len(Front(p)) /\ IsPrefix(Front(p), domain)

-----------------------------------------------------------------------------
(* The reference: what a pattern with stars means. *)

\* The lengths of the beginnings of domain that the pattern up to its letter i stands
\* for, given those for the letters before: a star stands for one letter or more.
Extend(p, domain, i, lengths) ==
  IF p[i] = Star THEN {j \in 1 .. Len(domain) : \E k \in lengths : k < j}
  ELSE {j \in 1 .. Len(domain) : j - 1 \in lengths /\ p[i] = domain[j]}

Matched(p, domain) ==
  LET M[i \in 0 .. Len(p)] == IF i = 0 THEN {0} ELSE Extend(p, domain, i, M[i - 1])
  IN M

\* But "*" alone is every domain.
GlobMatches(p, domain) == p = <<Star>> \/ Len(domain) \in Matched(p, domain)[Len(p)]

\* The matcher does for a pattern what the pattern means.
MatcherMeans(p, domains) == \A d \in domains : matches_wildcard(p, d) <=> GlobMatches(p, d)
===============================================================================
