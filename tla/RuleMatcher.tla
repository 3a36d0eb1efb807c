------------------------------ MODULE RuleMatcher ------------------------------
(***************************************************************************)
(* RuleMatcher (src/engine/matcher.rs) over the DNS resolver: which of a   *)
(* list of route rules fits a destination, an address or a name.  A name   *)
(* is compared with the rules first; then it is resolved, which may take   *)
(* the answer from the cache, wait for the server or fail, and its         *)
(* addresses are compared with the rules.                                  *)
(***************************************************************************)
EXTENDS DnsCache, Patterns

CONSTANTS
  RouteRules,   \* the rules that lists are made of
  MaxRules,     \* bound: length of a list
  MaxPriority   \* u32::MAX

\* A rule is for addresses (a network or one of them) or for names (one, or those
\* of a pattern that the loader of the configuration accepts).
ASSUME MatcherAssumption ==
  /\ {MaxRules, MaxPriority} \subseteq Nat
  /\ Domains \subseteq Seq(Letters)
  /\ RouteRules \subseteq
       [match_on: {"cidr", "ip", "domain", "pattern"},
        ips: SUBSET UNION {UNION {ToSet(Zone[d][v]) : v \in DOMAIN Zone[d]} : d \in Domains},
        name: Seq(Letters), priority: 0 .. MaxPriority]
  /\ \A r \in RouteRules : r.match_on = "pattern" => validate_domain_pattern(r.name)

VARIABLES
  rules,     \* the rules that the callers ask about
  resolver,  \* RuleMatcher.dns_resolver: is there one?
  found      \* what each caller asked last, and the answer it got

matcher_vars == <<dns_vars, rules, resolver, found>>

Addresses(d) == UNION {ToSet(Zone[d][v]) : v \in Versions(d)}

\* Destination
Ip(a)     == [kind |-> "ip", value |-> a]
Domain(d) == [kind |-> "domain", value |-> d]

\* One match, or all of them.  An answer is a list of rules, or fails.
Questions == {"find", "find_all"}

Asked(question, dest) == [question |-> question, dest |-> dest, rules |-> <<>>, ok |-> FALSE]

Destinations == UNION {{Domain(d)} \cup {Ip(a) : a \in Addresses(d)} : d \in Domains}

MatcherTypeOK ==
  /\ DnsTypeOK
  /\ rules \in SeqOf(RouteRules, MaxRules) /\ resolver \in BOOLEAN
  /\ found \in [Callers -> [question: Questions, dest: Destinations,
                            rules: Seq(ToSet(rules)), ok: BOOLEAN]]
  /\ \A c \in Callers :
       call[c].pc # "done" => found[c].dest = Domain(call[c].domain) /\ ~found[c].ok

-----------------------------------------------------------------------------
(* Mutants of the definitions below. *)

\* A later rule of the same priority wins.
better_later(r, best, priority) == r.priority <= priority

\* The matches stay in the order in which they were found.
sort_by_priority_not(matches) == matches

\* A rule is added for each of the addresses it matches.
contains_never(matches, r) == FALSE

\* A name that is still being resolved counts as one without addresses.
AfterResolve_early(c, question, dest) ==
  found' = [found EXCEPT ![c] = [question |-> question, dest |-> dest, rules |-> <<>>,
                                 ok |-> TRUE]]

-----------------------------------------------------------------------------
(* Matching *)

rule_matches(r, dest) ==
  \/ r.match_on \in {"cidr", "ip"} /\ dest.kind = "ip" /\ dest.value \in r.ips
  \/ r.match_on = "domain" /\ dest.kind = "domain" /\ r.name = dest.value
  \/ r.match_on = "pattern" /\ dest.kind = "domain" /\ matches_wildcard(r.name, dest.value)

better(r, best, priority) == r.priority < priority

\* What the loop keeps when it has looked at r: the best rule so far, none to begin with.
better_of(best, r, dest) ==
  LET priority == IF best = <<>> THEN MaxPriority ELSE best[1].priority
  IN IF rule_matches(r, dest) /\ better(r, best, priority) THEN <<r>> ELSE best

find_direct_match(dest) ==
  LET best[k \in 0 .. Len(rules)] ==
        IF k = 0 THEN <<>> ELSE better_of(best[k - 1], rules[k], dest)
  IN best[Len(rules)]

\* find_matching_rule() once the name is resolved: the first address with a match.
find_by_address(addrs) ==
  LET hits == {k \in DOMAIN addrs : find_direct_match(Ip(addrs[k])) # <<>>}
  IN IF hits = {} THEN <<>> ELSE find_direct_match(Ip(addrs[Min(hits)]))

contains(matches, r) == r \in ToSet(matches)

\* The loop over the rules that pushes those that match, each or (once) if it is not
\* there yet.
push(matches, r, dest, once) ==
  IF rule_matches(r, dest) /\ ~(once /\ contains(matches, r)) THEN Append(matches, r)
  ELSE matches

push_matches(matches, dest, once) ==
  LET pushed[k \in 0 .. Len(rules)] ==
        IF k = 0 THEN matches ELSE push(pushed[k - 1], rules[k], dest, once)
  IN pushed[Len(rules)]

direct_matches(dest) == push_matches(<<>>, dest, FALSE)

\* The loop over the addresses.
add_address_matches(matches, addrs) ==
  LET added[k \in 0 .. Len(addrs)] ==
        IF k = 0 THEN matches ELSE push_matches(added[k - 1], Ip(addrs[k]), TRUE)
  IN added[Len(addrs)]

\* sort_by_key() keeps the order of rules with one priority: each comes behind those
\* that go before it.
goes_before(matches, j, k) ==
  \/ matches[j].priority < matches[k].priority
  \/ matches[j].priority = matches[k].priority /\ j < k

place(matches, k) == Cardinality({j \in DOMAIN matches : goes_before(matches, j, k)}) + 1

sort_by_priority(matches) ==
  [i \in DOMAIN matches |-> matches[CHOOSE k \in DOMAIN matches : place(matches, k) = i]]

\* What the code answers when it needs no name server, and when it has asked one.
Answered(question, dest, addrs) ==
  IF question = "find_all" THEN sort_by_priority(add_address_matches(direct_matches(dest), addrs))
  ELSE IF find_direct_match(dest) # <<>> THEN find_direct_match(dest)
  ELSE find_by_address(addrs)

-----------------------------------------------------------------------------
(* Calls *)

SetFound(c, f) == found' = [found EXCEPT ![c] = f]

Return(c, question, dest, addrs) ==
  SetFound(c, [Asked(question, dest) EXCEPT !.ok = TRUE,
                                            !.rules = Answered(question, dest, addrs)])

\* A name is resolved if there is a resolver, and for find_matching_rule() only if
\* no rule matches the name itself.
needs_dns(question, dest) ==
  /\ dest.kind = "domain" /\ resolver
  /\ question = "find" => find_direct_match(dest) = <<>>

\* A question the matcher answers on its own.
MatchDirectly(c, question, dest) ==
  /\ call[c].pc = "done"
  /\ ~needs_dns(question, dest)
  /\ Return(c, question, dest, <<>>)
  /\ UNCHANGED dns_vars

\* What follows resolve(): go on with its addresses, or give up with its error.
AfterResolve(c, question, dest) ==
  IF call'[c].pc # "done" THEN SetFound(c, Asked(question, dest))
  ELSE IF call'[c].result = Failed THEN SetFound(c, Asked(question, dest))
  ELSE Return(c, question, dest, addresses(dest.value, call'[c].result))

MatchResolving(c, question, d) ==
  /\ needs_dns(question, Domain(d))
  /\ Resolve(c, d, "any")
  /\ AfterResolve(c, question, Domain(d))

\* The resolver goes on with a call, and the matcher with it when it returns.
ResolveReturns(c) ==
  /\ Answer(c) \/ AnswerFails(c)
  /\ AfterResolve(c, found[c].question, found[c].dest)

MatcherInit ==
  /\ DnsInit
  /\ rules \in SeqOf(RouteRules, MaxRules)
  /\ resolver \in BOOLEAN
  /\ found \in [Callers -> {Asked("find", Domain(d)) : d \in Domains}]

Matching ==
  \E c \in Callers, question \in Questions :
    \/ \E dest \in Destinations : MatchDirectly(c, question, dest)
    \/ \E d \in Domains : MatchResolving(c, question, d)

MatcherNext ==
  /\ \/ Matching
     \/ \E c \in Callers : ResolveReturns(c)
     \/ (\E c \in Callers : StartQuery(c)) /\ UNCHANGED found
     \/ (ClearCache \/ PruneCache \/ Tick) /\ UNCHANGED found
     \/ (\E d \in Domains : ZoneChanges(d)) /\ UNCHANGED found
  /\ UNCHANGED <<rules, resolver>>

MatcherSpec == MatcherInit /\ [][MatcherNext]_matcher_vars

-----------------------------------------------------------------------------
(* Properties *)

\* What a rule is for, by the reference meaning of a pattern.
Means(r, dest) ==
  \/ r.match_on \in {"cidr", "ip"} /\ dest.kind = "ip" /\ dest.value \in r.ips
  \/ r.match_on = "domain" /\ dest = Domain(r.name)
  \/ r.match_on = "pattern" /\ dest.kind = "domain" /\ GlobMatches(r.name, dest.value)

\* What dest may stand for now: itself and the addresses a name had recently.
Meanings(dest) ==
  {{dest}} \cup
    IF dest.kind = "ip" \/ ~resolver THEN {}
    ELSE {{dest} \cup {Ip(a) : a \in ToSet(addresses(dest.value, v))} :
            v \in {v \in 1 .. version[dest.value] : Recent(dest.value, v)}}

Fitting(S) == {r \in ToSet(rules) : \E dest \in S : Means(r, dest)}

\* An answer is right for the destination and addresses that its name had no
\* longer ago than an entry lives and a query takes: find_matching_rule() returns a
\* rule that fits, and none only where no rule below the last priority fits;
\* find_all_matching_rules() returns exactly those that fit.
AnswersFit ==
  [][\A c \in Callers :
       LET f == found'[c] IN
       (f.ok /\ f # found[c]) =>
         \E S \in Meanings(f.dest) :
           IF f.question = "find_all" THEN ToSet(f.rules) = Fitting(S)
           ELSE IF f.rules = <<>> THEN \A r \in Fitting(S) : r.priority = MaxPriority
           ELSE f.rules[1] \in Fitting(S)]_matcher_vars

\* Between rules that match one destination the lower priority decides, and the
\* earlier place in the list between equal ones.
FirstBest ==
  \A dest \in Destinations :
    LET fits == {k \in DOMAIN rules : Means(rules[k], dest)}
        k    == CHOOSE k \in fits : \A j \in fits :
                  \/ rules[k].priority < rules[j].priority
                  \/ rules[k].priority = rules[j].priority /\ k <= j
    IN find_direct_match(dest) =
         IF fits = {} \/ rules[k].priority = MaxPriority THEN <<>> ELSE <<rules[k]>>

\* All matches come in the order of their priorities, and a rule that stands in the
\* list once comes once, however many of the addresses it matches.
AllInOrder ==
  \A c \in Callers :
    LET found_rules == found[c].rules IN
    /\ \A j, k \in DOMAIN found_rules :
         j < k => found_rules[j].priority <= found_rules[k].priority
    /\ IsInjective(rules) => IsInjective(found_rules)

-----------------------------------------------------------------------------
(* Claims of the documents that the code does not meet *)

\* "Find the best matching rule for a destination": the first of all that match.
FindsBest ==
  \A d \in Domains : \A v \in Versions(d) :
    LET all == Answered("find_all", Domain(d), addresses(d, v))
    IN Answered("find", Domain(d), addresses(d, v)) = IF all = <<>> THEN <<>> ELSE <<all[1]>>
===============================================================================
