-------------------------------- MODULE DnsCache --------------------------------
(***************************************************************************)
(* DnsResolver (src/router/dns.rs): a cache of resolved names in front of  *)
(* a DNS server, shared by concurrent callers, with a semaphore that       *)
(* bounds the queries under way.                                           *)
(*                                                                         *)
(* What a name resolves to changes over time: Zone[d] is the list of its   *)
(* contents, each a sequence of addresses, and version[d] the one that the *)
(* server has now.  A query is answered with a content the server had      *)
(* while the query was under way, so answers can overtake each other.      *)
(* The server stands for everything behind the cache of this module, the   *)
(* cache that hickory keeps by default included: what that one still has   *)
(* counts as what the server has.  Only the server's content and the time  *)
(* a query may take are not of the program.                                *)
(***************************************************************************)
EXTENDS Naturals, SequencesExt

CONSTANTS
  Callers,     \* concurrent calls of resolve()
  Domains,     \* names that are resolved
  Zone,        \* [Domains -> contents of the name, one after the other]
  V4Ips,       \* those addresses that are IPv4
  Permits,     \* MAX_CONCURRENT_DNS_QUERIES (10)
  Ttl,         \* default_ttl
  QueryTime,   \* bound: time a query takes at most
  MaxTime      \* bound: the clock stops there

ASSUME DnsAssumption ==
  /\ Zone \in [Domains -> Seq(Seq(UNION {UNION {ToSet(Zone[d][v]) : v \in DOMAIN Zone[d]} :
                                          d \in Domains}))]
  /\ \A d \in Domains : Zone[d] # <<>>
  /\ Permits \in Nat \ {0}
  /\ {Ttl, QueryTime, MaxTime} \subseteq Nat

VARIABLES
  now,      \* the clock
  version,  \* DNS server: the content each name has
  ended,    \* DNS server, history: when a content was replaced
  cache,    \* DnsResolver.cache
  waiters,  \* callers waiting for a permit of the semaphore, first come first
  call      \* what each caller is doing

dns_vars == <<now, version, ended, cache, waiters, call>>

Families == {"any", "v4", "v6"}

\* A cache entry; no entry at all; how a call ends that has no addresses.
Miss   == [version |-> 0, created_at |-> 0]
Failed == 0

\* A call: where it is, what it resolves, which family it keeps, and, while its
\* query is under way, when that began and what the server had then.  When it is
\* done, the result is a content of the name or Failed.
NewCall(d, family) == [pc |-> "waiting", domain |-> d, family |-> family, since |-> 0,
                       asked |-> 0, result |-> Failed]

Done(d, result) == [NewCall(d, "any") EXCEPT !.pc = "done", !.result = result]

Versions(d) == DOMAIN Zone[d]

DnsTypeOK ==
  /\ now \in 0 .. MaxTime
  /\ version \in [Domains -> Nat]
  /\ ended \in [Domains -> Seq(0 .. now)]
  /\ cache \in [Domains -> [version: Nat, created_at: 0 .. now]]
  /\ \A d \in Domains :
       /\ version[d] \in Versions(d) /\ Len(ended[d]) = version[d] - 1
       /\ cache[d].version <= version[d]
  /\ waiters \in Seq(Callers)
  /\ IsInjective(waiters) /\ ToSet(waiters) = {c \in Callers : call[c].pc = "waiting"}
  /\ call \in [Callers -> [pc: {"waiting", "querying", "done"}, domain: Domains,
                           family: Families, since: 0 .. now, asked: Nat, result: Nat]]
  /\ \A c \in Callers : call[c].result \in Versions(call[c].domain) \cup {Failed}

-----------------------------------------------------------------------------
(* Mutants of the definitions below. *)

\* An entry is used for one second more.
is_expired_late(d) == now - cache[d].created_at > Ttl + 1

\* The semaphore wakes the caller that came last.
next_waiter_last == Len(waiters)

-----------------------------------------------------------------------------
(* The cache *)

\* CacheEntry::is_expired()
is_expired(d) == now - cache[d].created_at > Ttl

CacheHit(d) == cache[d] # Miss /\ ~is_expired(d)

addresses(d, v) == Zone[d][v]

OfFamily(ips, family) ==
  CASE family = "any" -> ips
    [] family = "v4"  -> SelectSeq(ips, LAMBDA ip : ip \in V4Ips)
    [] family = "v6"  -> SelectSeq(ips, LAMBDA ip : ip \notin V4Ips)

\* resolve_ipv4() and resolve_ipv6() fail when no address is left.
filtered(d, v, family) == IF OfFamily(addresses(d, v), family) = <<>> THEN Failed ELSE v

-----------------------------------------------------------------------------
(* Callers *)

querying == {c \in Callers : call[c].pc = "querying"}

next_waiter == 1

SetCall(c, r) == call' = [call EXCEPT ![c] = r]

Finish(c, result) == SetCall(c, Done(call[c].domain, result))

\* A call begins: a hit is the result, a miss waits for a permit.  The read lock
\* is released either way.
Resolve(c, d, family) ==
  /\ call[c].pc = "done"
  /\ IF CacheHit(d)
     THEN /\ SetCall(c, Done(d, filtered(d, cache[d].version, family)))
          /\ UNCHANGED waiters
     ELSE /\ SetCall(c, NewCall(d, family))
          /\ waiters' = Append(waiters, c)
  /\ UNCHANGED <<now, version, ended, cache>>

\* The semaphore gives a permit to the caller that has waited longest.  The cache
\* is not read again.
StartQuery(c) ==
  /\ waiters # <<>> /\ c = waiters[next_waiter]
  /\ Cardinality(querying) < Permits
  /\ waiters' = RemoveAt(waiters, next_waiter)
  /\ SetCall(c, [call[c] EXCEPT !.pc = "querying", !.since = now,
                                !.asked = version[call[c].domain]])
  /\ UNCHANGED <<now, version, ended, cache>>

\* The answer comes, is cached and returned; an empty one is an error.  The permit
\* goes back.
Answer(c) ==
  LET d == call[c].domain IN
  /\ c \in querying
  /\ \E v \in call[c].asked .. version[d] :
       IF addresses(d, v) = <<>> THEN Finish(c, Failed) /\ UNCHANGED cache
       ELSE /\ Finish(c, filtered(d, v, call[c].family))
            /\ cache' = [cache EXCEPT ![d] = [version |-> v, created_at |-> now]]
  /\ UNCHANGED <<now, version, ended, waiters>>

\* The lookup fails.
AnswerFails(c) ==
  /\ c \in querying
  /\ Finish(c, Failed)
  /\ UNCHANGED <<now, version, ended, cache, waiters>>

\* clear_cache()
ClearCache ==
  /\ cache' = [d \in Domains |-> Miss]
  /\ UNCHANGED <<now, version, ended, waiters, call>>

\* prune_cache()
PruneCache ==
  /\ cache' = [d \in Domains |-> IF is_expired(d) THEN Miss ELSE cache[d]]
  /\ UNCHANGED <<now, version, ended, waiters, call>>

-----------------------------------------------------------------------------
(* The world *)

\* The server gets the next content of a name.
ZoneChanges(d) ==
  /\ version[d] < Len(Zone[d])
  /\ version' = [version EXCEPT ![d] = @ + 1]
  /\ ended' = [ended EXCEPT ![d] = Append(@, now)]
  /\ UNCHANGED <<now, cache, waiters, call>>

\* Time passes, but no query takes longer than QueryTime.
Tick ==
  /\ now < MaxTime /\ now' = now + 1
  /\ \A c \in querying : now' - call[c].since <= QueryTime
  /\ UNCHANGED <<version, ended, cache, waiters, call>>

\* with_config(): the cache is empty.  No call is under way.
DnsInit ==
  /\ now = 0
  /\ version = [d \in Domains |-> 1]
  /\ ended = [d \in Domains |-> <<>>]
  /\ cache = [d \in Domains |-> Miss]
  /\ waiters = <<>>
  /\ call \in [Callers -> {Done(d, Failed) : d \in Domains}]

\* What happens apart from new calls.
ResolverStep ==
  \/ \E c \in Callers : StartQuery(c) \/ Answer(c) \/ AnswerFails(c)
  \/ ClearCache \/ PruneCache
  \/ \E d \in Domains : ZoneChanges(d)
  \/ Tick

DnsNext ==
  \/ \E c \in Callers, d \in Domains, family \in Families : Resolve(c, d, family)
  \/ ResolverStep

\* The runtime polls the tasks, and every query ends.
DnsFairness ==
  \A c \in Callers : WF_dns_vars(StartQuery(c)) /\ WF_dns_vars(Answer(c) \/ AnswerFails(c))

DnsSpec == DnsInit /\ [][DnsNext]_dns_vars /\ DnsFairness

-----------------------------------------------------------------------------
(* Properties *)

\* The server had content v of d no longer ago than a time to live and a query.
Recent(d, v) == v = version[d] \/ now - ended[d][v] <= Ttl + QueryTime

\* No call returns addresses that were dropped from the name longer ago than an
\* entry lives and a query takes, whichever of concurrent answers was cached last.
AnswersRecent ==
  [][\A c \in Callers :
       (call'[c].pc = "done" /\ call'[c] # call[c] /\ call'[c].result # Failed) =>
          Recent(call'[c].domain, call'[c].result)]_dns_vars

\* Every call returns, although other callers keep coming and permits are few.
CallsReturn == \A c \in Callers : call[c].pc = "waiting" ~> call[c].pc = "done"
===============================================================================
