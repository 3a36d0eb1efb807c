------------------------------ MODULE MatcherProofs ------------------------------
(***************************************************************************)
(* The resolver and the matcher for any number of callers, names, contents *)
(* and rules: what a call returns was so a short time ago, and an answer   *)
(* is right for the rules.                                                 *)
(***************************************************************************)
EXTENDS RuleMatcher, PatternProofs

-----------------------------------------------------------------------------
(* The resolver: its state in two parts *)

Call == [pc: {"waiting", "querying", "done"}, domain: Domains, family: Families,
         since: Nat, asked: Nat, result: Nat]

\* The server and the cache.  An entry was no older than a query when it was stored.
Contents ==
  /\ now \in 0 .. MaxTime
  /\ version \in [Domains -> Nat]
  /\ ended \in [Domains -> Seq(Nat)]
  /\ cache \in [Domains -> [version: Nat, created_at: Nat]]
  /\ \A d \in Domains :
       /\ version[d] \in 1 .. Len(Zone[d]) /\ Len(ended[d]) = version[d] - 1
       /\ \A v \in 1 .. version[d] - 1 : ended[d][v] \in 0 .. now
       /\ cache[d].version <= version[d] /\ cache[d].created_at <= now
       /\ cache[d].version = 0 => cache[d].created_at = 0
       /\ cache[d].version \in 1 .. version[d] - 1 =>
            cache[d].created_at <= ended[d][cache[d].version] + QueryTime

\* The callers.  A query that is under way is answered with a content of its time.
Calls ==
  /\ call \in [Callers -> Call]
  /\ \A c \in Callers :
       /\ call[c].since <= now
       /\ call[c].result <= Len(Zone[call[c].domain])
       /\ call[c].pc = "querying" =>
            /\ call[c].asked \in 1 .. version[call[c].domain]
            /\ now <= call[c].since + QueryTime
            /\ \A v \in call[c].asked .. version[call[c].domain] - 1 :
                 call[c].since <= ended[call[c].domain][v]

\* The queue of the semaphore.
Queue ==
  /\ waiters \in Seq(Callers)
  /\ IsInjective(waiters) /\ ToSet(waiters) = {c \in Callers : call[c].pc = "waiting"}

DnsInv == Contents /\ Calls /\ Queue

LEMMA ZoneType ==
  ASSUME NEW d \in Domains
  PROVE  Len(Zone[d]) \in Nat \ {0} /\ Versions(d) = 1 .. Len(Zone[d])
<1>1. PICK S : Zone[d] \in Seq(S) /\ Zone[d] # <<>>
  BY DnsAssumption
<1> QED
  BY <1>1 DEF Versions

LEMMA DoneType ==
  ASSUME NEW d \in Domains, NEW v \in Nat
  PROVE  /\ Done(d, v) \in Call /\ Done(d, v).pc = "done" /\ Done(d, v).domain = d
         /\ Done(d, v).since = 0 /\ Done(d, v).result = v
BY DEF Done, NewCall, Call, Families, Failed

LEMMA DnsInitial == DnsInit => DnsInv
<1> SUFFICES ASSUME DnsInit PROVE DnsInv
  OBVIOUS
<1>1. Contents
  <2>1. \A d \in Domains : Len(Zone[d]) \in Nat \ {0}
    BY ZoneType
  <2>2. MaxTime \in Nat /\ QueryTime \in Nat
    BY DnsAssumption
  <2> QED
    BY <2>1, <2>2 DEF DnsInit, Contents, Miss
<1>2. \A c \in Callers : /\ call[c] \in Call /\ call[c].pc = "done" /\ call[c].since = 0
                         /\ call[c].result = 0 /\ call[c].domain \in Domains
  BY DoneType DEF DnsInit, Failed
<1>3. Calls
  <2>1. call \in [Callers -> Call]
    BY <1>2 DEF DnsInit
  <2>2. \A d \in Domains : Len(Zone[d]) \in Nat
    BY ZoneType
  <2>3. now = 0
    BY DEF DnsInit
  <2> QED
    BY <1>2, <2>1, <2>2, <2>3 DEF Calls
<1>4. Queue
  BY <1>2 DEF DnsInit, Queue, IsInjective, ToSet
<1> QED
  BY <1>1, <1>3, <1>4 DEF DnsInv

LEMMA DnsTypes == DnsInv => DnsTypeOK
<1> SUFFICES ASSUME DnsInv PROVE DnsTypeOK
  OBVIOUS
<1>1. ASSUME NEW d \in Domains
      PROVE  /\ version[d] \in Versions(d) /\ ended[d] \in Seq(0 .. now)
             /\ cache[d] \in [version: Nat, created_at: 0 .. now]
  <2>1. version[d] \in Versions(d)
    BY ZoneType DEF DnsInv, Contents
  <2>2. ended[d] \in Seq(0 .. now)
    <3>1. /\ ended[d] \in Seq(Nat) /\ now \in Nat
          /\ \A v \in 1 .. Len(ended[d]) : ended[d][v] \in 0 .. now
      BY DEF DnsInv, Contents
    <3> QED
      BY <3>1
  <2>3. cache[d] \in [version: Nat, created_at: 0 .. now]
    BY DEF DnsInv, Contents
  <2> QED
    BY <2>1, <2>2, <2>3
<1>2. ASSUME NEW c \in Callers
      PROVE  /\ call[c] \in [pc: {"waiting", "querying", "done"}, domain: Domains,
                             family: Families, since: 0 .. now, asked: Nat, result: Nat]
             /\ call[c].result \in Versions(call[c].domain) \cup {Failed}
  <2>1. call[c] \in Call /\ call[c].since <= now /\ now \in Nat
        /\ call[c].result <= Len(Zone[call[c].domain])
    BY DEF DnsInv, Contents, Calls
  <2>2. call[c].domain \in Domains /\ call[c].result \in Nat /\ call[c].since \in 0 .. now
    BY <2>1 DEF Call
  <2> QED
    BY <2>1, <2>2, ZoneType DEF Call, Failed
<1> QED
  BY <1>1, <1>2 DEF DnsInv, Contents, Calls, Queue, DnsTypeOK

\* What a call finds in the cache is recent, and so is every answer it may get.
LEMMA HitRecent ==
  ASSUME DnsInv, NEW d \in Domains, CacheHit(d)
  PROVE  Recent(d, cache[d].version) /\ cache[d].version \in 1 .. version[d]
<1>1. /\ now \in Nat /\ Ttl \in Nat /\ QueryTime \in Nat /\ version[d] \in Nat
      /\ cache[d] \in [version: Nat, created_at: Nat] /\ cache[d].version <= version[d]
  BY DnsAssumption DEF DnsInv, Contents
<1>2. now - cache[d].created_at <= Ttl
  BY <1>1 DEF CacheHit, is_expired
<1>3. cache[d].version # 0
  <2>1. cache[d].version = 0 => cache[d].created_at = 0
    BY DEF DnsInv, Contents
  <2> QED
    BY <1>1, <2>1 DEF CacheHit, Miss
<1>4. CASE cache[d].version = version[d]
  BY <1>1, <1>3, <1>4 DEF Recent
<1>5. CASE cache[d].version \in 1 .. version[d] - 1
  <2>1. cache[d].created_at <= ended[d][cache[d].version] + QueryTime
    BY <1>5 DEF DnsInv, Contents
  <2>2. ended[d][cache[d].version] \in Nat
    BY <1>5 DEF DnsInv, Contents
  <2>3. now - ended[d][cache[d].version] <= Ttl + QueryTime
    BY <1>1, <1>2, <2>1, <2>2
  <2> QED
    BY <1>1, <1>3, <2>3 DEF Recent
<1> QED
  BY <1>1, <1>3, <1>4, <1>5

LEMMA AnswerRecent ==
  ASSUME DnsInv, NEW c \in querying, NEW v \in call[c].asked .. version[call[c].domain]
  PROVE  /\ call[c].domain \in Domains /\ v \in 1 .. version[call[c].domain]
         /\ Recent(call[c].domain, v)
<1> DEFINE d == call[c].domain
<1>1. c \in Callers /\ call[c].pc = "querying"
  BY DEF querying
<1>2. /\ call[c] \in Call /\ call[c].asked \in 1 .. version[d]
      /\ now <= call[c].since + QueryTime
      /\ \A w \in call[c].asked .. version[d] - 1 : call[c].since <= ended[d][w]
  BY <1>1 DEF DnsInv, Calls
<1>3. d \in Domains /\ call[c].since \in Nat /\ call[c].asked \in Nat
  BY <1>2 DEF Call
<1>4. version[d] \in Nat /\ now \in Nat /\ Ttl \in Nat /\ QueryTime \in Nat
  BY <1>3, DnsAssumption DEF DnsInv, Contents
<1>5. v \in 1 .. version[d]
  BY <1>2, <1>3, <1>4
<1>6. CASE v # version[d]
  <2>1. call[c].since <= ended[d][v]
    BY <1>2, <1>3, <1>4, <1>6
  <2>2. ended[d] \in Seq(Nat) /\ Len(ended[d]) = version[d] - 1
    BY <1>3 DEF DnsInv, Contents
  <2>3. v \in 1 .. Len(ended[d])
    BY <1>4, <1>5, <1>6, <2>2
  <2>4. ended[d][v] \in Nat
    BY <2>2, <2>3
  <2>5. now - ended[d][v] <= Ttl + QueryTime
    BY <1>2, <1>3, <1>4, <2>1, <2>4
  <2> QED
    BY <1>3, <1>5, <2>5 DEF Recent
<1> QED
  BY <1>3, <1>5, <1>6 DEF Recent

-----------------------------------------------------------------------------
(* The resolver: steps *)

LEMMA AppendOther ==
  ASSUME NEW S, NEW s \in Seq(S), NEW x \in S, IsInjective(s), x \notin ToSet(s)
  PROVE  /\ Append(s, x) \in Seq(S) /\ IsInjective(Append(s, x))
         /\ ToSet(Append(s, x)) = ToSet(s) \cup {x}
<1> DEFINE t == Append(s, x)
<1>1. /\ t \in Seq(S) /\ Len(t) = Len(s) + 1 /\ t[Len(s) + 1] = x
      /\ \A i \in 1 .. Len(s) : t[i] = s[i]
  OBVIOUS
<1>2. DOMAIN s = 1 .. Len(s) /\ DOMAIN t = 1 .. Len(s) + 1 /\ Len(s) \in Nat
  BY <1>1
<1> HIDE DEF t
<1>3. \A i \in DOMAIN s : s[i] # x
  BY DEF ToSet
<1>4. IsInjective(t)
  BY <1>1, <1>2, <1>3 DEF IsInjective
<1>5. ToSet(t) = ToSet(s) \cup {x}
  BY <1>1, <1>2 DEF ToSet
<1> QED
  BY <1>1, <1>4, <1>5 DEF t

LEMMA RemoveFirstOne ==
  ASSUME NEW S, NEW s \in Seq(S), s # <<>>, IsInjective(s)
  PROVE  /\ RemoveAt(s, 1) \in Seq(S) /\ IsInjective(RemoveAt(s, 1))
         /\ ToSet(RemoveAt(s, 1)) = ToSet(s) \ {s[1]} /\ s[1] \in ToSet(s)
<1> DEFINE t == RemoveAt(s, 1)
<1>1. /\ t \in Seq(S) /\ Len(t) = Len(s) - 1 /\ Len(s) \in Nat \ {0}
      /\ \A i \in 1 .. Len(s) - 1 : t[i] = s[i + 1]
  <2> DEFINE u == SubSeq(s, 2, Len(s))
  <2>1. Len(s) \in Nat \ {0} /\ \A i \in 2 .. Len(s) : s[i] \in S
    OBVIOUS
  <2>2. /\ u \in Seq(S) /\ Len(u) = (IF 2 <= Len(s) THEN Len(s) - 2 + 1 ELSE 0)
        /\ \A i \in 1 .. Len(s) - 2 + 1 : u[i] = s[2 + i - 1]
    BY <2>1, SubSeqProperties
  <2>3. SubSeq(s, 1, 0) = <<>>
    BY SubSeqEmpty
  <2>4. t = <<>> \o u
    BY <2>3 DEF RemoveAt
  <2> HIDE DEF u, t
  <2>5. t = u
    BY <2>2, <2>4
  <2>6. Len(u) = Len(s) - 1
    <3>1. \A n \in Nat \ {0} : (IF 2 <= n THEN n - 2 + 1 ELSE 0) = n - 1
      OBVIOUS
    <3> QED
      BY <2>1, <2>2, <3>1
  <2>7. \A i \in 1 .. Len(s) - 1 : u[i] = s[i + 1]
    <3>1. \A i \in 1 .. Len(s) - 1 : i \in 1 .. Len(s) - 2 + 1 /\ 2 + i - 1 = i + 1
      BY <2>1
    <3> QED
      BY <2>2, <3>1
  <2> QED
    BY <2>1, <2>2, <2>5, <2>6, <2>7
<1>2. DOMAIN s = 1 .. Len(s) /\ DOMAIN t = 1 .. Len(s) - 1
  BY <1>1
<1> HIDE DEF t
<1>3. IsInjective(t)
  <2>1. \A i \in DOMAIN t : t[i] = s[i + 1] /\ i + 1 \in DOMAIN s /\ i \in Nat
    BY <1>1, <1>2
  <2> SUFFICES ASSUME NEW i \in DOMAIN t, NEW j \in DOMAIN t, t[i] = t[j] PROVE i = j
    BY DEF IsInjective
  <2>2. i + 1 = j + 1
    BY <2>1 DEF IsInjective
  <2> QED
    BY <2>1, <2>2
<1>4. ToSet(t) = ToSet(s) \ {s[1]} /\ s[1] \in ToSet(s)
  <2>1. \A i \in DOMAIN t : t[i] = s[i + 1] /\ i + 1 \in DOMAIN s /\ i + 1 # 1
    BY <1>1, <1>2
  <2>2. \A j \in DOMAIN s : j # 1 => j - 1 \in DOMAIN t /\ s[j] = t[j - 1]
    BY <1>1, <1>2
  <2>3. 1 \in DOMAIN s
    BY <1>1, <1>2
  <2> QED
    BY <2>1, <2>2, <2>3 DEF ToSet, IsInjective
<1> QED
  BY <1>1, <1>3, <1>4 DEF t

\* A step that moves one caller within or out of the queue's reach.
LEMMA OneCalls ==
  ASSUME DnsInv, UNCHANGED <<now, version, ended>>, NEW c \in Callers,
         NEW r \in Call, SetCall(c, r),
         r.since <= now, r.result <= Len(Zone[r.domain]),
         r.pc = "querying" =>
           /\ r.asked \in 1 .. version[r.domain] /\ now <= r.since + QueryTime
           /\ \A v \in r.asked .. version[r.domain] - 1 : r.since <= ended[r.domain][v]
  PROVE  Calls' /\ call'[c] = r /\ \A b \in Callers \ {c} : call'[b] = call[b]
<1>1. call'[c] = r /\ \A b \in Callers \ {c} : call'[b] = call[b]
  BY DEF DnsInv, Calls, SetCall
<1>2. call' \in [Callers -> Call]
  BY DEF DnsInv, Calls, SetCall
<1> QED
  BY <1>1, <1>2 DEF DnsInv, Calls

LEMMA DoneCalls ==
  ASSUME DnsInv, UNCHANGED <<now, version, ended, waiters>>, NEW c \in Callers,
         call[c].pc # "waiting",
         NEW d \in Domains, NEW v \in 0 .. Len(Zone[d]), SetCall(c, Done(d, v))
  PROVE  Calls' /\ Queue' /\ call'[c] = Done(d, v)
<1>1. Len(Zone[d]) \in Nat
  BY ZoneType
<1>2. /\ Done(d, v) \in Call /\ Done(d, v).pc = "done" /\ Done(d, v).since = 0
      /\ Done(d, v).result = v /\ Done(d, v).domain = d
  BY <1>1, DoneType
<1>3. now \in Nat
  BY DEF DnsInv, Contents
<1>4. /\ Calls' /\ call'[c] = Done(d, v)
      /\ \A b \in Callers \ {c} : call'[b] = call[b]
  BY <1>1, <1>2, <1>3, OneCalls
<1>5. {b \in Callers : call'[b].pc = "waiting"} = {b \in Callers : call[b].pc = "waiting"}
  BY <1>2, <1>4
<1> QED
  BY <1>4, <1>5 DEF DnsInv, Queue

LEMMA FilteredType ==
  ASSUME NEW d \in Domains, NEW v \in 1 .. Len(Zone[d]), NEW family
  PROVE  filtered(d, v, family) \in {Failed, v} /\ filtered(d, v, family) \in 0 .. Len(Zone[d])
<1>1. filtered(d, v, family) = Failed \/ filtered(d, v, family) = v
  BY DEF filtered
<1> QED
  BY <1>1, ZoneType DEF Failed

LEMMA ResolveStep ==
  ASSUME DnsInv, NEW c \in Callers, NEW d \in Domains, NEW family \in Families,
         Resolve(c, d, family)
  PROVE  /\ DnsInv'
         /\ call'[c].domain = d
         /\ call'[c].pc = "done" /\ call'[c].result # Failed =>
              call'[c].result \in 1 .. version[d] /\ Recent(d, call'[c].result)
<1>1. UNCHANGED <<now, version, ended, cache>> /\ call[c].pc = "done"
  BY DEF Resolve
<1>2. Contents'
  BY <1>1 DEF DnsInv, Contents
<1>3. CASE CacheHit(d)
  <2> DEFINE v == filtered(d, cache[d].version, family)
  <2>1. Recent(d, cache[d].version) /\ cache[d].version \in 1 .. version[d]
    BY <1>3, HitRecent
  <2>2. version[d] \in 1 .. Len(Zone[d]) /\ Len(Zone[d]) \in Nat
    BY ZoneType DEF DnsInv, Contents
  <2>3. cache[d].version \in 1 .. Len(Zone[d])
    BY <2>1, <2>2
  <2>4. v \in {Failed, cache[d].version} /\ v \in 0 .. Len(Zone[d])
    BY <2>3, FilteredType
  <2>5. SetCall(c, Done(d, v)) /\ UNCHANGED waiters
    BY <1>3 DEF Resolve
  <2> HIDE DEF v
  <2>6. Calls' /\ Queue' /\ call'[c] = Done(d, v)
    BY <1>1, <2>4, <2>5, DoneCalls
  <2>7. call'[c].domain = d /\ call'[c].result = v
    BY <2>2, <2>4, <2>6, DoneType
  <2> QED
    BY <1>2, <2>1, <2>4, <2>6, <2>7 DEF DnsInv
<1>4. CASE ~CacheHit(d)
  <2> DEFINE r == NewCall(d, family)
  <2>1. /\ r \in Call /\ r.pc = "waiting" /\ r.since = 0 /\ r.result = 0 /\ r.domain = d
    BY DEF NewCall, Call, Failed
  <2>2. SetCall(c, r) /\ waiters' = Append(waiters, c)
    BY <1>4 DEF Resolve
  <2>3. now \in Nat /\ Len(Zone[d]) \in Nat
    BY ZoneType DEF DnsInv, Contents
  <2> HIDE DEF r
  <2>4. Calls' /\ call'[c] = r /\ \A b \in Callers \ {c} : call'[b] = call[b]
    BY <1>1, <2>1, <2>2, <2>3, OneCalls
  <2>5. c \notin ToSet(waiters)
    BY <1>1 DEF DnsInv, Queue
  <2>6. /\ waiters' \in Seq(Callers) /\ IsInjective(waiters')
        /\ ToSet(waiters') = ToSet(waiters) \cup {c}
    BY <2>2, <2>5, AppendOther DEF DnsInv, Queue
  <2>7. {b \in Callers : call'[b].pc = "waiting"} =
          {b \in Callers : call[b].pc = "waiting"} \cup {c}
    BY <2>1, <2>4
  <2>8. Queue'
    BY <2>6, <2>7 DEF DnsInv, Queue
  <2> QED
    BY <1>2, <2>1, <2>4, <2>8 DEF DnsInv
<1> QED
  BY <1>3, <1>4

LEMMA StartQueryStep ==
  ASSUME DnsInv, NEW c \in Callers, StartQuery(c)
  PROVE  DnsInv'
<1>1. UNCHANGED <<now, version, ended, cache>> /\ c = waiters[1] /\ waiters # <<>>
  BY DEF StartQuery, next_waiter
<1>2. Contents'
  BY <1>1 DEF DnsInv, Contents
<1>3. /\ waiters' \in Seq(Callers) /\ IsInjective(waiters')
      /\ ToSet(waiters') = ToSet(waiters) \ {c} /\ c \in ToSet(waiters)
  BY <1>1, RemoveFirstOne DEF DnsInv, Queue, StartQuery, next_waiter
<1> DEFINE d == call[c].domain
           r == [call[c] EXCEPT !.pc = "querying", !.since = now, !.asked = version[d]]
<1>4. call[c] \in Call /\ d \in Domains /\ call[c].result <= Len(Zone[d])
  BY DEF DnsInv, Calls, Call
<1>5. /\ now \in Nat /\ version[d] \in Nat \ {0} /\ QueryTime \in Nat
      /\ Len(Zone[d]) \in Nat
  <2>1. version[d] \in 1 .. Len(Zone[d]) /\ now \in Nat
    BY <1>4 DEF DnsInv, Contents
  <2> QED
    BY <1>4, <2>1, ZoneType, DnsAssumption
<1>6. /\ r \in Call /\ r.pc = "querying" /\ r.since = now /\ r.asked = version[d]
      /\ r.result = call[c].result /\ r.domain = d
  BY <1>4, <1>5 DEF Call
<1>7. SetCall(c, r)
  BY DEF StartQuery
<1> HIDE DEF r
<1>8. /\ r.asked \in 1 .. version[d] /\ now <= r.since + QueryTime
      /\ \A v \in r.asked .. version[d] - 1 : r.since <= ended[d][v]
  BY <1>5, <1>6
<1>9. r.since <= now /\ r.result <= Len(Zone[r.domain])
  BY <1>4, <1>5, <1>6
<1>10. Calls' /\ call'[c] = r /\ \A b \in Callers \ {c} : call'[b] = call[b]
  <2> HIDE DEF d
  <2> QED
    BY <1>1, <1>6, <1>7, <1>8, <1>9, OneCalls
<1>11. {b \in Callers : call'[b].pc = "waiting"} =
         {b \in Callers : call[b].pc = "waiting"} \ {c}
  BY <1>6, <1>10
<1>12. Queue'
  BY <1>3, <1>11 DEF DnsInv, Queue
<1> QED
  BY <1>2, <1>10, <1>12 DEF DnsInv

\* The end of a query.
LEMMA AnswerStep ==
  ASSUME DnsInv, NEW c \in Callers, Answer(c) \/ AnswerFails(c)
  PROVE  /\ DnsInv'
         /\ call'[c].pc = "done" /\ call'[c].domain = call[c].domain
         /\ call'[c].result # Failed =>
              /\ call'[c].result \in 1 .. version[call[c].domain]
              /\ Recent(call[c].domain, call'[c].result)
<1> DEFINE d == call[c].domain
<1>1. /\ UNCHANGED <<now, version, ended, waiters>>
      /\ c \in querying /\ call[c].pc = "querying"
  BY DEF Answer, AnswerFails, querying
<1>2. d \in Domains /\ call[c] \in Call
  BY DEF DnsInv, Calls, Call
<1>3. /\ version[d] \in 1 .. Len(Zone[d]) /\ Len(Zone[d]) \in Nat /\ version[d] \in Nat
      /\ now \in Nat /\ QueryTime \in Nat
  BY <1>2, ZoneType, DnsAssumption DEF DnsInv, Contents
<1>4. ASSUME NEW v \in 0 .. Len(Zone[d]), Finish(c, v)
      PROVE  /\ Calls' /\ Queue' /\ call'[c].pc = "done" /\ call'[c].domain = d
             /\ call'[c].result = v
  <2>1. SetCall(c, Done(d, v)) /\ v \in Nat
    BY <1>3, <1>4 DEF Finish
  <2> HIDE DEF d
  <2>2. Calls' /\ Queue' /\ call'[c] = Done(d, v)
    BY <1>1, <1>2, <2>1, DoneCalls
  <2> QED
    BY <1>2, <2>1, <2>2, DoneType
<1>5. CASE Finish(c, Failed) /\ UNCHANGED cache
  <2>1. Contents'
    BY <1>1, <1>5 DEF DnsInv, Contents
  <2>2. Failed \in 0 .. Len(Zone[d])
    BY <1>3 DEF Failed
  <2> HIDE DEF d
  <2>3. /\ Calls' /\ Queue' /\ call'[c].pc = "done" /\ call'[c].domain = d
        /\ call'[c].result = Failed
    BY <1>4, <1>5, <2>2
  <2> QED
    BY <2>1, <2>3 DEF DnsInv, d
<1>6. ASSUME NEW v \in call[c].asked .. version[d],
             Finish(c, filtered(d, v, call[c].family)),
             cache' = [cache EXCEPT ![d] = [version |-> v, created_at |-> now]]
      PROVE  /\ DnsInv' /\ call'[c].pc = "done" /\ call'[c].domain = d
             /\ call'[c].result # Failed =>
                  call'[c].result \in 1 .. version[d] /\ Recent(d, call'[c].result)
  <2>1. v \in 1 .. version[d] /\ Recent(d, v)
    BY <1>1, AnswerRecent
  <2>2. v \in Nat /\ v <= version[d] /\ v # 0 /\ v \in 1 .. Len(Zone[d])
    BY <1>3, <2>1
  <2>3. /\ filtered(d, v, call[c].family) \in {Failed, v}
        /\ filtered(d, v, call[c].family) \in 0 .. Len(Zone[d])
    BY <1>2, <2>2, FilteredType
  <2>4. v \in 1 .. version[d] - 1 => now <= ended[d][v] + QueryTime
    <3>1. SUFFICES ASSUME v \in 1 .. version[d] - 1 PROVE now <= ended[d][v] + QueryTime
      OBVIOUS
    <3>2. /\ now <= call[c].since + QueryTime /\ call[c].asked \in 1 .. version[d]
          /\ \A w \in call[c].asked .. version[d] - 1 : call[c].since <= ended[d][w]
      BY <1>1 DEF DnsInv, Calls
    <3>3. v \in call[c].asked .. version[d] - 1
      BY <1>3, <3>1, <3>2, <2>2
    <3>4. call[c].since \in Nat
      BY <1>2 DEF Call
    <3>5. ended[d][v] \in Nat
      <4>1. \A w \in 1 .. version[d] - 1 : ended[d][w] \in 0 .. now
        BY <1>2 DEF DnsInv, Contents
      <4> QED
        BY <1>3, <3>1, <4>1
    <3>6. call[c].since <= ended[d][v]
      BY <3>2, <3>3
    <3> HIDE DEF d
    <3> QED
      BY <1>3, <3>2, <3>4, <3>5, <3>6
  <2>5. Contents'
    <3> HIDE DEF d
    <3>1. /\ cache'[d] = [version |-> v, created_at |-> now]
          /\ \A e \in Domains \ {d} : cache'[e] = cache[e]
          /\ cache' \in [Domains -> [version: Nat, created_at: Nat]]
      BY <1>2, <1>3, <1>6, <2>2 DEF DnsInv, Contents
    <3>2. cache'[d].version = v /\ cache'[d].created_at = now
      BY <3>1
    <3>3. ASSUME NEW e \in Domains
          PROVE  /\ cache'[e].version <= version[e] /\ cache'[e].created_at <= now
                 /\ cache'[e].version = 0 => cache'[e].created_at = 0
                 /\ cache'[e].version \in 1 .. version[e] - 1 =>
                      cache'[e].created_at <= ended[e][cache'[e].version] + QueryTime
      <4>1. CASE e = d
        BY <1>3, <2>2, <2>4, <3>2, <4>1
      <4>2. CASE e # d
        BY <3>1, <4>2 DEF DnsInv, Contents
      <4> QED
        BY <4>1, <4>2
    <3> QED
      BY <1>1, <3>1, <3>3 DEF DnsInv, Contents
  <2> DEFINE res == filtered(d, v, call[c].family)
  <2>6. res \in {Failed, v} /\ res \in 0 .. Len(Zone[d]) /\ Finish(c, res)
    BY <1>6, <2>3
  <2> HIDE DEF d, res
  <2>7. /\ Calls' /\ Queue' /\ call'[c].pc = "done" /\ call'[c].domain = d
        /\ call'[c].result = res
    BY <1>4, <2>6
  <2> QED
    BY <2>1, <2>5, <2>6, <2>7 DEF DnsInv
<1>7. CASE AnswerFails(c)
  BY <1>5, <1>7 DEF AnswerFails
<1>8. CASE Answer(c)
  BY <1>5, <1>6, <1>8 DEF Answer
<1> QED
  BY <1>5, <1>7, <1>8

\* The cache is cleared or pruned.
LEMMA CacheStep ==
  ASSUME DnsInv, ClearCache \/ PruneCache
  PROVE  DnsInv' /\ UNCHANGED call
<1>1. UNCHANGED <<now, version, ended, waiters, call>>
  BY DEF ClearCache, PruneCache
<1>2. ASSUME NEW d \in Domains PROVE cache'[d] = Miss \/ cache'[d] = cache[d]
  BY DEF ClearCache, PruneCache
<1>3. cache' = [d \in Domains |-> cache'[d]]
  BY DEF ClearCache, PruneCache
<1>4. Miss \in [version: Nat, created_at: Nat] /\ Miss.version = 0 /\ Miss.created_at = 0
  BY DEF Miss
<1>5. cache' \in [Domains -> [version: Nat, created_at: Nat]]
  BY <1>2, <1>3, <1>4 DEF DnsInv, Contents
<1>6. \A d \in Domains : version[d] \in Nat /\ now \in Nat
  BY DEF DnsInv, Contents
<1>7. Contents'
  <2>1. ASSUME NEW d \in Domains
        PROVE  /\ cache'[d].version <= version[d] /\ cache'[d].created_at <= now
               /\ cache'[d].version = 0 => cache'[d].created_at = 0
               /\ cache'[d].version \in 1 .. version[d] - 1 =>
                    cache'[d].created_at <= ended[d][cache'[d].version] + QueryTime
    <3>1. CASE cache'[d] = Miss
      BY <1>4, <1>6, <3>1
    <3>2. CASE cache'[d] = cache[d]
      BY <3>2 DEF DnsInv, Contents
    <3> QED
      BY <1>2, <3>1, <3>2
  <2> QED
    BY <1>1, <1>5, <2>1 DEF DnsInv, Contents
<1>8. Calls' /\ Queue'
  BY <1>1 DEF DnsInv, Calls, Queue
<1> QED
  BY <1>1, <1>7, <1>8 DEF DnsInv

\* The server replaces a content while time stands still.
LEMMA ZoneStep ==
  ASSUME DnsInv, NEW d \in Domains, ZoneChanges(d)
  PROVE  DnsInv' /\ UNCHANGED call
<1>1. UNCHANGED <<now, cache, waiters, call>>
  BY DEF ZoneChanges
<1>2. /\ version[d] \in Nat /\ Len(Zone[d]) \in Nat /\ version[d] < Len(Zone[d])
      /\ ended[d] \in Seq(Nat) /\ Len(ended[d]) = version[d] - 1 /\ now \in Nat
      /\ version[d] >= 1 /\ QueryTime \in Nat
  BY ZoneType, DnsAssumption DEF ZoneChanges, DnsInv, Contents
<1>3. /\ version'[d] = version[d] + 1 /\ ended'[d] = Append(ended[d], now)
      /\ \A e \in Domains \ {d} : version'[e] = version[e] /\ ended'[e] = ended[e]
      /\ version' \in [Domains -> Nat] /\ ended' \in [Domains -> Seq(Nat)]
  BY <1>2 DEF ZoneChanges, DnsInv, Contents
<1>4. /\ Len(ended'[d]) = version[d] /\ ended'[d][version[d]] = now
      /\ \A v \in 1 .. version[d] - 1 : ended'[d][v] = ended[d][v]
  <2>1. \A s \in Seq(Nat), x \in Nat :
          /\ Len(Append(s, x)) = Len(s) + 1 /\ Append(s, x)[Len(s) + 1] = x
          /\ \A v \in 1 .. Len(s) : Append(s, x)[v] = s[v]
    OBVIOUS
  <2>2. Len(ended[d]) + 1 = version[d]
    <3>1. \A n \in Nat : (n - 1) + 1 = n
      OBVIOUS
    <3> QED
      BY <1>2, <3>1
  <2> QED
    BY <1>2, <1>3, <2>1, <2>2
<1>5. Contents'
  <2>1. ASSUME NEW e \in Domains, e # d
        PROVE  /\ version'[e] \in 1 .. Len(Zone[e]) /\ Len(ended'[e]) = version'[e] - 1
               /\ \A v \in 1 .. version'[e] - 1 : ended'[e][v] \in 0 .. now
               /\ cache[e].version <= version'[e] /\ cache[e].created_at <= now
               /\ cache[e].version = 0 => cache[e].created_at = 0
               /\ cache[e].version \in 1 .. version'[e] - 1 =>
                    cache[e].created_at <= ended'[e][cache[e].version] + QueryTime
    BY <1>3, <2>1 DEF DnsInv, Contents
  <2>2. /\ version'[d] \in 1 .. Len(Zone[d]) /\ Len(ended'[d]) = version'[d] - 1
        /\ cache[d].version <= version'[d] /\ cache[d].created_at <= now
        /\ cache[d].version = 0 => cache[d].created_at = 0
    <3>1. \A n \in Nat, k \in Nat : (n + 1) - 1 = n /\ (n < k => n + 1 \in 1 .. k)
      OBVIOUS
    <3>2. version'[d] \in 1 .. Len(Zone[d]) /\ Len(ended'[d]) = version'[d] - 1
      BY <1>2, <1>3, <1>4, <3>1
    <3>3. /\ cache[d].version \in Nat /\ cache[d].version <= version[d]
          /\ cache[d].created_at <= now
          /\ cache[d].version = 0 => cache[d].created_at = 0
      BY DEF DnsInv, Contents
    <3>4. \A n \in Nat, k \in Nat : k <= n => k <= n + 1
      OBVIOUS
    <3> QED
      BY <1>2, <1>3, <3>2, <3>3, <3>4
  <2>3. ASSUME NEW v \in 1 .. version'[d] - 1 PROVE ended'[d][v] \in 0 .. now
    <3>1. CASE v = version[d]
      BY <1>2, <1>4, <3>1
    <3>2. CASE v # version[d]
      <4>1. v \in 1 .. version[d] - 1
        <5>1. \A n \in Nat : \A k \in 1 .. (n + 1) - 1 : k # n => k \in 1 .. n - 1
          OBVIOUS
        <5> QED
          BY <1>2, <1>3, <3>2, <5>1
      <4> QED
        BY <1>4, <4>1 DEF DnsInv, Contents
    <3> QED
      BY <3>1, <3>2
  <2>4. ASSUME cache[d].version \in 1 .. version'[d] - 1
        PROVE  cache[d].created_at <= ended'[d][cache[d].version] + QueryTime
    <3>1. cache[d].created_at \in Nat /\ cache[d].created_at <= now
      BY DEF DnsInv, Contents
    <3>2. CASE cache[d].version = version[d]
      BY <1>2, <1>4, <3>1, <3>2
    <3>3. CASE cache[d].version # version[d]
      <4>1. cache[d].version \in 1 .. version[d] - 1
        BY <1>2, <1>3, <2>4, <3>3
      <4>2. cache[d].created_at <= ended[d][cache[d].version] + QueryTime
        BY <4>1 DEF DnsInv, Contents
      <4> QED
        BY <1>4, <4>1, <4>2
    <3> QED
      BY <3>2, <3>3
  <2> QED
    BY <1>1, <1>3, <2>1, <2>2, <2>3, <2>4 DEF DnsInv, Contents
<1>6. Calls'
  <2>1. ASSUME NEW c \in Callers, call[c].pc = "querying"
        PROVE  /\ call[c].asked \in 1 .. version'[call[c].domain]
               /\ now <= call[c].since + QueryTime
               /\ \A v \in call[c].asked .. version'[call[c].domain] - 1 :
                    call[c].since <= ended'[call[c].domain][v]
    <3>1. /\ call[c].asked \in 1 .. version[call[c].domain]
          /\ now <= call[c].since + QueryTime /\ call[c].since <= now
          /\ \A v \in call[c].asked .. version[call[c].domain] - 1 :
               call[c].since <= ended[call[c].domain][v]
      BY <2>1 DEF DnsInv, Calls
    <3>2. call[c].domain \in Domains
      BY DEF DnsInv, Calls, Call
    <3>3. CASE call[c].domain # d
      BY <1>3, <3>1, <3>2, <3>3
    <3>4. CASE call[c].domain = d
      <4>1. call[c].asked \in 1 .. version'[d] /\ call[c].asked \in Nat \ {0}
        <5>1. \A n \in Nat : \A k \in 1 .. n : k \in 1 .. n + 1 /\ k \in Nat \ {0}
          OBVIOUS
        <5> QED
          BY <1>2, <1>3, <3>1, <3>4, <5>1
      <4>2. ASSUME NEW v \in call[c].asked .. version'[d] - 1
            PROVE  call[c].since <= ended'[d][v]
        <5>1. CASE v = version[d]
          BY <1>4, <3>1, <5>1
        <5>2. CASE v # version[d]
          <6>1. v \in call[c].asked .. version[d] - 1 /\ v \in 1 .. version[d] - 1
            <7>1. \A n \in Nat, a \in Nat \ {0} : \A k \in a .. (n + 1) - 1 :
                    k # n => k \in a .. n - 1 /\ k \in 1 .. n - 1
              OBVIOUS
            <7> QED
              BY <1>2, <1>3, <4>1, <5>2, <7>1
          <6> QED
            BY <1>4, <3>1, <3>4, <6>1
        <5> QED
          BY <5>1, <5>2
      <4> QED
        BY <3>1, <3>4, <4>1, <4>2
    <3> QED
      BY <3>3, <3>4
  <2> QED
    BY <1>1, <2>1 DEF DnsInv, Calls
<1> QED
  BY <1>1, <1>5, <1>6 DEF DnsInv, Queue

LEMMA TickStep ==
  ASSUME DnsInv, Tick
  PROVE  DnsInv' /\ UNCHANGED call
<1>1. UNCHANGED <<version, ended, cache, waiters, call>> /\ now < MaxTime /\ now' = now + 1
  BY DEF Tick
<1>2. now \in Nat /\ MaxTime \in Nat
  BY DnsAssumption DEF DnsInv, Contents
<1>3. Contents'
  <2>1. now' \in 0 .. MaxTime /\ now <= now'
    BY <1>1, <1>2
  <2>2. ASSUME NEW d \in Domains
        PROVE  /\ cache[d].created_at <= now'
               /\ \A v \in 1 .. version[d] - 1 : ended[d][v] \in 0 .. now'
    <3>1. cache[d].created_at \in Nat /\ cache[d].created_at <= now
      BY DEF DnsInv, Contents
    <3>2. \A v \in 1 .. version[d] - 1 : ended[d][v] \in 0 .. now
      BY DEF DnsInv, Contents
    <3> QED
      BY <1>1, <1>2, <3>1, <3>2
  <2> QED
    BY <1>1, <2>1, <2>2 DEF DnsInv, Contents
<1>4. Calls'
  <2>1. ASSUME NEW c \in Callers
        PROVE  /\ call[c].since <= now'
               /\ call[c].pc = "querying" => now' <= call[c].since + QueryTime
    <3>1. call[c].since \in Nat /\ call[c].since <= now /\ QueryTime \in Nat
      BY DnsAssumption DEF DnsInv, Calls, Call
    <3>2. call[c].pc = "querying" => now' - call[c].since <= QueryTime
      BY DEF Tick, querying
    <3> QED
      BY <1>1, <1>2, <3>1, <3>2
  <2> QED
    BY <1>1, <2>1 DEF DnsInv, Calls
<1> QED
  BY <1>1, <1>3, <1>4 DEF DnsInv, Queue

LEMMA DnsStep ==
  ASSUME DnsInv, [DnsNext]_dns_vars
  PROVE  DnsInv'
<1>1. CASE UNCHANGED dns_vars
  BY <1>1 DEF dns_vars, DnsInv, Contents, Calls, Queue
<1> QED
  BY <1>1, ResolveStep, StartQueryStep, AnswerStep, CacheStep, ZoneStep, TickStep
     DEF DnsNext, ResolverStep

\* What a step returns was so a short time ago.
LEMMA ReturnsRecent ==
  ASSUME DnsInv, DnsNext, NEW c \in Callers,
         call'[c].pc = "done", call'[c] # call[c], call'[c].result # Failed
  PROVE  Recent(call'[c].domain, call'[c].result)
<1>1. ASSUME NEW b \in Callers, NEW r, SetCall(b, r), b # c PROVE FALSE
  BY <1>1 DEF SetCall, DnsInv, Calls
<1>2. ASSUME NEW b \in Callers, NEW d \in Domains, NEW family \in Families,
             Resolve(b, d, family)
      PROVE  Recent(call'[c].domain, call'[c].result)
  <2>1. b = c
    BY <1>1, <1>2 DEF Resolve
  <2> QED
    BY <1>2, <2>1, ResolveStep
<1>3. ASSUME NEW b \in Callers, StartQuery(b) PROVE FALSE
  <2>1. b = c
    BY <1>1, <1>3 DEF StartQuery
  <2>2. call'[c].pc = "querying"
    BY <1>3, <2>1 DEF StartQuery, SetCall, DnsInv, Calls, Call
  <2> QED
    BY <2>2
<1>4. ASSUME NEW b \in Callers, Answer(b) \/ AnswerFails(b)
      PROVE  Recent(call'[c].domain, call'[c].result)
  <2>1. b = c
    BY <1>1, <1>4 DEF Answer, AnswerFails, Finish
  <2> QED
    BY <1>4, <2>1, AnswerStep
<1> QED
  BY <1>2, <1>3, <1>4, CacheStep, ZoneStep, TickStep DEF DnsNext, ResolverStep

LEMMA DnsInvariance == DnsSpec => []DnsInv
<1>1. DnsInv /\ [DnsNext]_dns_vars => DnsInv'
  BY DnsStep
<1> QED
  BY <1>1, DnsInitial, PTL DEF DnsSpec

\* The resolver's states are of their types: the queue of the semaphore holds exactly
\* the callers that wait, each once.
THEOREM DnsTypeCorrect == DnsSpec => []DnsTypeOK
  BY DnsInvariance, DnsTypes, PTL

\* resolve(): whatever answers overtake each other and whichever is cached last, no call
\* returns addresses that the name lost longer ago than an entry lives and a query takes.
THEOREM AnswersAreRecent == DnsSpec => AnswersRecent
<1>1. DnsInv /\ [DnsNext]_dns_vars =>
        [\A c \in Callers :
           (call'[c].pc = "done" /\ call'[c] # call[c] /\ call'[c].result # Failed) =>
              Recent(call'[c].domain, call'[c].result)]_dns_vars
  BY ReturnsRecent
<1> QED
  BY <1>1, DnsInvariance, PTL DEF DnsSpec, AnswersRecent

-----------------------------------------------------------------------------
(* Loops.  What a recursive function computes follows from its equation, once it is *)
(* known that the equation has a solution.                                         *)

LoopStates(g, n, S, start, step) ==
  /\ g \in [0 .. n -> S] /\ g[0] = start
  /\ \A k \in 1 .. n : g[k] = step[k][g[k - 1]]

LEMMA Recursion ==
  ASSUME NEW n \in Nat, NEW S, NEW start \in S, NEW step \in [1 .. n -> [S -> S]]
  PROVE  \E g : LoopStates(g, n, S, start, step)
<1> DEFINE Good(g, i) == /\ g \in [0 .. i -> S] /\ g[0] = start
                         /\ \A k \in 1 .. i : g[k] = step[k][g[k - 1]]
           T == {i \in 0 .. n : \E g : Good(g, i)}
<1>1. 0 \in T
  <2> DEFINE g == [k \in 0 .. 0 |-> start]
  <2>1. g \in [0 .. 0 -> S] /\ g[0] = start /\ 1 .. 0 = {}
    OBVIOUS
  <2>2. Good(g, 0)
    <3> HIDE DEF g
    <3> QED
      BY <2>1
  <2> HIDE DEF Good, g
  <2> QED
    BY <2>2
<1>2. ASSUME NEW i \in 1 .. n, i - 1 \in T PROVE i \in T
  <2>1. PICK g : Good(g, i - 1)
    BY <1>2
  <2> DEFINE h == [k \in 0 .. i |-> IF k = i THEN step[i][g[i - 1]] ELSE g[k]]
  <2>2. g[i - 1] \in S /\ step[i][g[i - 1]] \in S
    <3>1. i - 1 \in 0 .. i - 1
      OBVIOUS
    <3> QED
      BY <2>1, <3>1
  <2>3. \A k \in 0 .. i - 1 : h[k] = g[k] /\ g[k] \in S
    <3>1. \A k \in 0 .. i - 1 : k \in 0 .. i /\ k # i
      OBVIOUS
    <3> QED
      BY <2>1, <3>1
  <2>4. h[i] = step[i][g[i - 1]]
    OBVIOUS
  <2>5. h \in [0 .. i -> S]
    <3>1. \A k \in 0 .. i : k = i \/ k \in 0 .. i - 1
      OBVIOUS
    <3> QED
      BY <2>2, <2>3, <3>1
  <2>6. h[0] = start
    <3>1. 0 \in 0 .. i - 1
      OBVIOUS
    <3> QED
      BY <2>1, <2>3, <3>1
  <2>7. \A k \in 1 .. i : h[k] = step[k][h[k - 1]]
    <3>1. ASSUME NEW k \in 1 .. i, k # i PROVE h[k] = step[k][h[k - 1]]
      <4>1. k \in 1 .. i - 1 /\ k \in 0 .. i - 1 /\ k - 1 \in 0 .. i - 1
        BY <3>1
      <4> HIDE DEF h
      <4> QED
        BY <2>1, <2>3, <4>1
    <3>2. h[i - 1] = g[i - 1]
      <4>1. i - 1 \in 0 .. i - 1
        OBVIOUS
      <4> HIDE DEF h
      <4> QED
        BY <2>3, <4>1
    <3> HIDE DEF h
    <3> QED
      BY <2>4, <3>1, <3>2
  <2>8. Good(h, i)
    <3> HIDE DEF h
    <3> QED
      BY <2>5, <2>6, <2>7
  <2> HIDE DEF h, Good
  <2> QED
    BY <2>8
<1>3. n \in T
  <2> HIDE DEF T
  <2>1. 0 .. n \subseteq T
    BY <1>1, <1>2, Induction
  <2> QED
    BY <2>1
<1> QED
  BY <1>3 DEF LoopStates

LEMMA DirectMatchLoop ==
  ASSUME rules \in Seq(RouteRules), NEW dest
  PROVE  \E best : /\ best[0] = <<>>
                   /\ \A k \in 1 .. Len(rules) : best[k] = better_of(best[k - 1], rules[k], dest)
                   /\ find_direct_match(dest) = best[Len(rules)]
<1> DEFINE n == Len(rules)
           S == {<<>>} \cup {<<r>> : r \in RouteRules}
           step == [k \in 1 .. n |-> [b \in S |-> better_of(b, rules[k], dest)]]
           Equation(g) == g = [k \in 0 .. n |->
                                 IF k = 0 THEN <<>> ELSE better_of(g[k - 1], rules[k], dest)]
<1>1. n \in Nat /\ \A k \in 1 .. n : rules[k] \in RouteRules
  OBVIOUS
<1>2. step \in [1 .. n -> [S -> S]]
  <2>1. \A k \in 1 .. n, b \in S : better_of(b, rules[k], dest) \in S
    BY <1>1 DEF better_of
  <2> QED
    BY <2>1
<1>3. PICK h : LoopStates(h, n, S, <<>>, step)
  <2>1. <<>> \in S
    OBVIOUS
  <2> HIDE DEF n, S, step
  <2> QED
    BY <1>1, <1>2, <2>1, Recursion
<1>4. Equation(h)
  <2>1. ASSUME NEW k \in 1 .. n PROVE h[k] = better_of(h[k - 1], rules[k], dest)
    <3>1. k - 1 \in 0 .. n
      BY <1>1
    <3>2. h[k - 1] \in S /\ h[k] = step[k][h[k - 1]]
      BY <1>3, <3>1 DEF LoopStates
    <3> HIDE DEF S
    <3> QED
      BY <3>2
  <2> HIDE DEF n, S, step
  <2>2. \A k \in 0 .. n : k = 0 \/ k \in 1 .. n
    BY <1>1
  <2>3. h = [k \in 0 .. n |-> h[k]] /\ h[0] = <<>>
    BY <1>3 DEF LoopStates
  <2> QED
    BY <2>1, <2>2, <2>3
<1>5. find_direct_match(dest) = (CHOOSE g : Equation(g))[n]
  BY DEF find_direct_match
<1> DEFINE best == CHOOSE g : Equation(g)
<1>6. Equation(best)
  <2> HIDE DEF Equation
  <2> QED
    BY <1>4
<1>7. \A k \in 0 .. n :
        best[k] = IF k = 0 THEN <<>> ELSE better_of(best[k - 1], rules[k], dest)
  <2> HIDE DEF best
  <2> QED
    BY <1>6
<1>8. 0 \in 0 .. n /\ \A k \in 1 .. n : k \in 0 .. n /\ k # 0
  BY <1>1
<1> HIDE DEF best, Equation, S, step
<1> QED
  BY <1>5, <1>7, <1>8 DEF best

-----------------------------------------------------------------------------
(* The best of the rules that match *)

\* Rule j decides before rule k.
Decides(j, k) ==
  \/ rules[j].priority < rules[k].priority
  \/ rules[j].priority = rules[k].priority /\ j <= k

\* What is known of the best match among the first n rules.
BestOf(best, dest, n) ==
  \/ /\ best = <<>>
     /\ \A j \in 1 .. n : rule_matches(rules[j], dest) => rules[j].priority = MaxPriority
  \/ \E i \in 1 .. n :
       /\ best = <<rules[i]>> /\ rule_matches(rules[i], dest)
       /\ rules[i].priority # MaxPriority
       /\ \A j \in 1 .. n : rule_matches(rules[j], dest) => Decides(i, j)

LEMMA RuleType ==
  ASSUME rules \in Seq(RouteRules), NEW k \in 1 .. Len(rules)
  PROVE  /\ rules[k] \in RouteRules /\ rules[k].priority \in 0 .. MaxPriority
         /\ MaxPriority \in Nat
<1>1. rules[k] \in RouteRules
  OBVIOUS
<1> QED
  BY <1>1, MatcherAssumption

LEMMA DirectMatchStep ==
  ASSUME rules \in Seq(RouteRules), NEW dest, NEW n \in 1 .. Len(rules), NEW b, NEW c,
         BestOf(b, dest, n - 1), c = better_of(b, rules[n], dest)
  PROVE  BestOf(c, dest, n)
<1>1. \A j \in 1 .. n : j = n \/ j \in 1 .. n - 1
  OBVIOUS
<1>2. \A j \in 1 .. n : j \in 1 .. Len(rules) /\ j \in Nat /\ j <= n
  <2>1. Len(rules) \in Nat
    OBVIOUS
  <2> QED
    BY <2>1
<1>3. \A j \in 1 .. n : rules[j].priority \in 0 .. MaxPriority /\ MaxPriority \in Nat
  BY <1>2, RuleType
<1> DEFINE p == IF b = <<>> THEN MaxPriority ELSE b[1].priority
<1>4. c = IF rule_matches(rules[n], dest) /\ rules[n].priority < p THEN <<rules[n]>> ELSE b
  BY DEF better_of, better
<1>5. n \in 1 .. n /\ n \in Nat
  OBVIOUS
<1>6. CASE b = <<>> /\ \A j \in 1 .. n - 1 :
                         rule_matches(rules[j], dest) => rules[j].priority = MaxPriority
  <2>1. p = MaxPriority
    BY <1>6
  <2> HIDE DEF p
  <2>2. CASE rule_matches(rules[n], dest) /\ rules[n].priority < MaxPriority
    <3>1. c = <<rules[n]>> /\ rules[n].priority # MaxPriority
      BY <1>3, <1>4, <1>5, <2>1, <2>2
    <3>2. \A j \in 1 .. n : rule_matches(rules[j], dest) => Decides(n, j)
      BY <1>1, <1>3, <1>5, <1>6, <2>2 DEF Decides
    <3> QED
      BY <1>5, <2>2, <3>1, <3>2 DEF BestOf
  <2>3. CASE ~(rule_matches(rules[n], dest) /\ rules[n].priority < MaxPriority)
    <3>1. c = <<>>
      BY <1>4, <1>6, <2>1, <2>3
    <3>2. \A j \in 1 .. n : rule_matches(rules[j], dest) => rules[j].priority = MaxPriority
      BY <1>1, <1>3, <1>6, <2>3
    <3> QED
      BY <3>1, <3>2 DEF BestOf
  <2> QED
    BY <2>2, <2>3
<1>7. ASSUME NEW i \in 1 .. n - 1,
             b = <<rules[i]>>, rule_matches(rules[i], dest), rules[i].priority # MaxPriority,
             \A j \in 1 .. n - 1 : rule_matches(rules[j], dest) => Decides(i, j)
      PROVE  BestOf(c, dest, n)
  <2>1. b # <<>> /\ b[1] = rules[i]
    BY <1>7
  <2>2. p = rules[i].priority
    BY <2>1
  <2>3. i \in 1 .. n /\ i <= n /\ i \in Nat
    OBVIOUS
  <2> HIDE DEF p
  <2>4. CASE rule_matches(rules[n], dest) /\ rules[n].priority < rules[i].priority
    <3>1. c = <<rules[n]>>
      BY <1>4, <2>2, <2>4
    <3>2. rules[n].priority # MaxPriority
      BY <1>3, <1>5, <2>3, <2>4
    <3>3. \A j \in 1 .. n : rule_matches(rules[j], dest) => Decides(n, j)
      <4>1. \A j \in 1 .. n - 1 :
              rule_matches(rules[j], dest) => rules[i].priority <= rules[j].priority
        BY <1>1, <1>3, <1>7, <2>3 DEF Decides
      <4> QED
        BY <1>1, <1>3, <1>5, <2>3, <2>4, <4>1 DEF Decides
    <3> QED
      BY <1>5, <2>4, <3>1, <3>2, <3>3 DEF BestOf
  <2>5. CASE ~(rule_matches(rules[n], dest) /\ rules[n].priority < rules[i].priority)
    <3>1. c = <<rules[i]>>
      BY <1>4, <1>7, <2>2, <2>5
    <3>2. rule_matches(rules[n], dest) => Decides(i, n)
      BY <1>3, <1>5, <2>3, <2>5 DEF Decides
    <3>3. \A j \in 1 .. n : rule_matches(rules[j], dest) => Decides(i, j)
      BY <1>1, <1>7, <3>2
    <3> QED
      BY <1>7, <2>3, <3>1, <3>3 DEF BestOf
  <2> QED
    BY <2>4, <2>5
<1> QED
  BY <1>6, <1>7 DEF BestOf

\* find_direct_match() for lists of any length.
LEMMA DirectMatch ==
  ASSUME rules \in Seq(RouteRules), NEW dest
  PROVE  BestOf(find_direct_match(dest), dest, Len(rules))
<1>1. PICK best : /\ best[0] = <<>>
                  /\ \A k \in 1 .. Len(rules) : best[k] = better_of(best[k - 1], rules[k], dest)
                  /\ find_direct_match(dest) = best[Len(rules)]
  BY DirectMatchLoop
<1> DEFINE n == Len(rules)
           T == {k \in 0 .. n : BestOf(best[k], dest, k)}
<1>2. n \in Nat
  OBVIOUS
<1>3. 0 \in T
  <2>1. 0 \in 0 .. n /\ 1 .. 0 = {}
    BY <1>2
  <2> QED
    BY <1>1, <2>1 DEF BestOf
<1>4. ASSUME NEW k \in 1 .. n, k - 1 \in T PROVE k \in T
  <2>1. k \in 0 .. n
    BY <1>2
  <2>2. BestOf(best[k], dest, k)
    BY <1>1, <1>4, DirectMatchStep
  <2> QED
    BY <2>1, <2>2
<1>5. 0 .. n \subseteq T
  <2> HIDE DEF n, T
  <2> QED
    BY <1>2, <1>3, <1>4, Induction
<1>6. n \in T
  <2> HIDE DEF T
  <2> QED
    BY <1>2, <1>5
<1> QED
  BY <1>1, <1>6

\* A rule matches what it means.
LEMMA MatchesMeans ==
  ASSUME NEW r \in RouteRules, NEW dest,
         (\E a : dest = Ip(a)) \/ dest \in Destinations
  PROVE  rule_matches(r, dest) <=> Means(r, dest)
<1>1. CASE \E a : dest = Ip(a)
  <2>1. dest.kind = "ip" /\ dest # Domain(r.name)
    BY <1>1 DEF Ip, Domain
  <2> QED
    BY <2>1 DEF rule_matches, Means
<1>2. CASE \E d \in Domains : dest = Domain(d)
  <2>1. PICK d \in Domains : dest = Domain(d)
    BY <1>2
  <2>2. dest.kind = "domain" /\ dest.value = d
    BY <2>1 DEF Domain
  <2>3. dest = Domain(r.name) <=> r.name = d
    BY <2>1, <2>2 DEF Domain
  <2>4. ASSUME r.match_on = "pattern" PROVE matches_wildcard(r.name, d) <=> GlobMatches(r.name, d)
    <3>1. r.name \in Seq(Letters) /\ Domains \in SUBSET Seq(Letters)
      BY MatcherAssumption
    <3>2. validate_domain_pattern(r.name)
      BY <2>4, MatcherAssumption
    <3> QED
      BY <3>1, <3>2, ValidPatternsMean DEF MatcherMeans
  <2> QED
    BY <2>2, <2>3, <2>4 DEF rule_matches, Means
<1> QED
  BY <1>1, <1>2 DEF Destinations

LEMMA FirstBestHolds ==
  ASSUME rules \in Seq(RouteRules)
  PROVE  FirstBest
<1> SUFFICES ASSUME NEW dest \in Destinations
             PROVE  LET fits == {k \in DOMAIN rules : Means(rules[k], dest)}
                        k == CHOOSE k \in fits : \A j \in fits : Decides(k, j)
                    IN find_direct_match(dest) =
                         IF fits = {} \/ rules[k].priority = MaxPriority THEN <<>> ELSE <<rules[k]>>
  BY DEF FirstBest, Decides
<1> DEFINE n == Len(rules)
           fits == {k \in DOMAIN rules : Means(rules[k], dest)}
           first == CHOOSE k \in fits : \A j \in fits : Decides(k, j)
<1>1. n \in Nat /\ DOMAIN rules = 1 .. n
  OBVIOUS
<1>2. fits = {k \in 1 .. n : rule_matches(rules[k], dest)}
  <2>1. \A k \in 1 .. n : rule_matches(rules[k], dest) <=> Means(rules[k], dest)
    BY RuleType, MatchesMeans
  <2> QED
    BY <1>1, <2>1
<1>3. BestOf(find_direct_match(dest), dest, n)
  BY DirectMatch
<1>4. \A k \in 1 .. n : rules[k].priority \in 0 .. MaxPriority /\ MaxPriority \in Nat
  BY RuleType
<1>5. CASE /\ find_direct_match(dest) = <<>>
           /\ \A j \in 1 .. n : rule_matches(rules[j], dest) => rules[j].priority = MaxPriority
  <2>1. CASE fits # {}
    <3>1. PICK m \in fits : \A k \in fits : m <= k
      <4>1. fits \subseteq Nat
        BY <1>1, <1>2
      <4> HIDE DEF fits
      <4> QED
        BY <2>1, <4>1, LeastNatural
    <3>2. \A k \in fits : Decides(m, k)
      BY <1>2, <1>5, <3>1 DEF Decides
    <3>3. first \in fits
      <4> HIDE DEF fits
      <4> QED
        BY <3>1, <3>2
    <3> HIDE DEF first, fits
    <3> QED
      BY <1>2, <1>5, <3>3 DEF first, fits
  <2> QED
    BY <1>5, <2>1
<1>6. ASSUME NEW i \in 1 .. n,
             find_direct_match(dest) = <<rules[i]>>, rule_matches(rules[i], dest),
             rules[i].priority # MaxPriority,
             \A j \in 1 .. n : rule_matches(rules[j], dest) => Decides(i, j)
      PROVE  find_direct_match(dest) =
               IF fits = {} \/ rules[first].priority = MaxPriority THEN <<>> ELSE <<rules[first]>>
  <2>1. i \in fits /\ \A j \in fits : Decides(i, j)
    BY <1>2, <1>6
  <2>2. first \in fits /\ \A j \in fits : Decides(first, j)
    <3> HIDE DEF fits
    <3> QED
      BY <2>1
  <2> HIDE DEF first, fits
  <2>3. first \in 1 .. n /\ Decides(i, first) /\ Decides(first, i)
    BY <1>2, <2>1, <2>2
  <2>4. first = i
    BY <1>1, <1>4, <2>3 DEF Decides
  <2> QED
    BY <1>6, <2>1, <2>4
<1> QED
  BY <1>3, <1>5, <1>6 DEF BestOf

-----------------------------------------------------------------------------
(* All rules that match *)

LEMMA PushType ==
  ASSUME NEW matches \in Seq(RouteRules), NEW r \in RouteRules, NEW dest, NEW once
  PROVE  push(matches, r, dest, once) \in Seq(RouteRules)
BY DEF push

LEMMA PushLoop ==
  ASSUME rules \in Seq(RouteRules), NEW matches \in Seq(RouteRules), NEW dest, NEW once
  PROVE  \E pushed : /\ pushed[0] = matches
                     /\ \A k \in 1 .. Len(rules) :
                          pushed[k] = push(pushed[k - 1], rules[k], dest, once)
                     /\ push_matches(matches, dest, once) = pushed[Len(rules)]
<1> DEFINE n == Len(rules)
           S == Seq(RouteRules)
           step == [k \in 1 .. n |-> [b \in S |-> push(b, rules[k], dest, once)]]
           Equation(g) == g = [k \in 0 .. n |->
                                 IF k = 0 THEN matches ELSE push(g[k - 1], rules[k], dest, once)]
<1>1. n \in Nat /\ \A k \in 1 .. n : rules[k] \in RouteRules
  OBVIOUS
<1>2. step \in [1 .. n -> [S -> S]]
  <2>1. \A k \in 1 .. n, b \in S : push(b, rules[k], dest, once) \in S
    BY <1>1, PushType
  <2> HIDE DEF S, n
  <2> QED
    BY <2>1
<1>3. PICK h : LoopStates(h, n, S, matches, step)
  <2>1. matches \in S
    OBVIOUS
  <2> HIDE DEF n, S, step
  <2> QED
    BY <1>1, <1>2, <2>1, Recursion
<1>4. Equation(h)
  <2>1. ASSUME NEW k \in 1 .. n PROVE h[k] = push(h[k - 1], rules[k], dest, once)
    <3>1. k - 1 \in 0 .. n
      BY <1>1
    <3>2. h[k - 1] \in S /\ h[k] = step[k][h[k - 1]]
      BY <1>3, <3>1 DEF LoopStates
    <3> HIDE DEF S
    <3> QED
      BY <3>2
  <2> HIDE DEF n, S, step
  <2>2. \A k \in 0 .. n : k = 0 \/ k \in 1 .. n
    BY <1>1
  <2>3. h = [k \in 0 .. n |-> h[k]] /\ h[0] = matches
    BY <1>3 DEF LoopStates
  <2> QED
    BY <2>1, <2>2, <2>3
<1>5. push_matches(matches, dest, once) = (CHOOSE g : Equation(g))[n]
  BY DEF push_matches
<1> DEFINE pushed == CHOOSE g : Equation(g)
<1>6. Equation(pushed)
  <2> HIDE DEF Equation
  <2> QED
    BY <1>4
<1>7. \A k \in 0 .. n :
        pushed[k] = IF k = 0 THEN matches ELSE push(pushed[k - 1], rules[k], dest, once)
  <2> HIDE DEF pushed
  <2> QED
    BY <1>6
<1>8. 0 \in 0 .. n /\ \A k \in 1 .. n : k \in 0 .. n /\ k # 0
  BY <1>1
<1> HIDE DEF pushed, Equation, S, step
<1> QED
  BY <1>5, <1>7, <1>8 DEF pushed

LEMMA AppendSet ==
  ASSUME NEW s \in Seq(RouteRules), NEW x \in RouteRules
  PROVE  Append(s, x) \in Seq(RouteRules) /\ ToSet(Append(s, x)) = ToSet(s) \cup {x}
<1> DEFINE t == Append(s, x)
<1>1. /\ t \in Seq(RouteRules) /\ Len(t) = Len(s) + 1 /\ t[Len(s) + 1] = x
      /\ \A i \in 1 .. Len(s) : t[i] = s[i]
  OBVIOUS
<1>2. DOMAIN s = 1 .. Len(s) /\ DOMAIN t = 1 .. Len(s) + 1 /\ Len(s) \in Nat
  BY <1>1
<1> HIDE DEF t
<1>3. ToSet(t) = ToSet(s) \cup {x}
  BY <1>1, <1>2 DEF ToSet
<1> QED
  BY <1>1, <1>3 DEF t

\* The matches m after the first n rules, when matches were there before: those that
\* match are added, and no two of m are the same rule if no two of rules are.
PushedBy(m, matches, dest, once, n) ==
  /\ m \in Seq(RouteRules)
  /\ ToSet(m) = ToSet(matches) \cup {rules[j] : j \in {j \in 1 .. n : rule_matches(rules[j], dest)}}
  /\ (IsInjective(rules) /\ IsInjective(matches) /\ (once \/ matches = <<>>)) => IsInjective(m)

LEMMA PushStep ==
  ASSUME rules \in Seq(RouteRules), NEW matches, NEW dest, NEW once \in BOOLEAN,
         NEW n \in 1 .. Len(rules), NEW b, NEW c,
         PushedBy(b, matches, dest, once, n - 1), c = push(b, rules[n], dest, once)
  PROVE  PushedBy(c, matches, dest, once, n)
<1> DEFINE Hits(i) == {rules[j] : j \in {j \in 1 .. i : rule_matches(rules[j], dest)}}
<1>1. /\ rules[n] \in RouteRules /\ n \in 1 .. n
      /\ \A j \in 1 .. n : j = n \/ j \in 1 .. n - 1
      /\ \A j \in 1 .. n - 1 : j \in 1 .. n /\ j # n /\ j \in 1 .. Len(rules)
      /\ DOMAIN rules = 1 .. Len(rules)
  OBVIOUS
<1>2. Hits(n) = IF rule_matches(rules[n], dest) THEN Hits(n - 1) \cup {rules[n]} ELSE Hits(n - 1)
  BY <1>1
<1> HIDE DEF Hits
<1>3. b \in Seq(RouteRules) /\ ToSet(b) = ToSet(matches) \cup Hits(n - 1)
  BY DEF PushedBy, Hits
<1>4. CASE rule_matches(rules[n], dest) /\ ~(once /\ contains(b, rules[n]))
  <2>1. c = Append(b, rules[n])
    BY <1>4 DEF push
  <2>2. c \in Seq(RouteRules) /\ ToSet(c) = ToSet(b) \cup {rules[n]}
    BY <1>1, <1>3, <2>1, AppendSet
  <2>3. ASSUME IsInjective(rules), IsInjective(matches), once \/ matches = <<>>
        PROVE  IsInjective(c)
    <3>1. rules[n] \notin ToSet(b)
      <4>1. CASE once
        BY <1>4, <4>1 DEF contains
      <4>2. CASE ~once
        <5>1. ToSet(matches) = {}
          BY <2>3, <4>2 DEF ToSet
        <5>2. rules[n] \notin Hits(n - 1)
          BY <1>1, <2>3 DEF Hits, IsInjective
        <5> QED
          BY <1>3, <5>1, <5>2
      <4> QED
        BY <4>1, <4>2
    <3>2. IsInjective(b)
      BY <2>3 DEF PushedBy
    <3> QED
      BY <1>1, <1>3, <2>1, <3>1, <3>2, AppendOther
  <2> QED
    BY <1>2, <1>3, <1>4, <2>2, <2>3 DEF PushedBy, Hits
<1>5. CASE ~(rule_matches(rules[n], dest) /\ ~(once /\ contains(b, rules[n])))
  <2>1. c = b
    BY <1>5 DEF push
  <2>2. ToSet(b) = ToSet(matches) \cup Hits(n)
    BY <1>2, <1>3, <1>5 DEF contains
  <2> QED
    BY <1>3, <2>1, <2>2 DEF PushedBy, Hits
<1> QED
  BY <1>4, <1>5

\* The loop over the rules, for lists of any length.
LEMMA PushMatches ==
  ASSUME rules \in Seq(RouteRules), NEW matches \in Seq(RouteRules), NEW dest,
         NEW once \in BOOLEAN
  PROVE  /\ push_matches(matches, dest, once) \in Seq(RouteRules)
         /\ ToSet(push_matches(matches, dest, once)) =
              ToSet(matches) \cup {r \in ToSet(rules) : rule_matches(r, dest)}
         /\ (IsInjective(rules) /\ IsInjective(matches) /\ (once \/ matches = <<>>)) =>
              IsInjective(push_matches(matches, dest, once))
<1>1. PICK pushed : /\ pushed[0] = matches
                    /\ \A k \in 1 .. Len(rules) :
                         pushed[k] = push(pushed[k - 1], rules[k], dest, once)
                    /\ push_matches(matches, dest, once) = pushed[Len(rules)]
  BY PushLoop
<1> DEFINE n == Len(rules)
           T == {k \in 0 .. n : PushedBy(pushed[k], matches, dest, once, k)}
<1>2. n \in Nat /\ DOMAIN rules = 1 .. n
  OBVIOUS
<1>3. 0 \in T
  <2>1. 0 \in 0 .. n /\ 1 .. 0 = {}
    BY <1>2
  <2> QED
    BY <1>1, <2>1 DEF PushedBy
<1>4. ASSUME NEW k \in 1 .. n, k - 1 \in T PROVE k \in T
  <2>1. k \in 0 .. n
    BY <1>2
  <2>2. PushedBy(pushed[k], matches, dest, once, k)
    BY <1>1, <1>4, PushStep
  <2> QED
    BY <2>1, <2>2
<1>5. 0 .. n \subseteq T
  <2> HIDE DEF n, T
  <2> QED
    BY <1>2, <1>3, <1>4, Induction
<1>6. PushedBy(pushed[n], matches, dest, once, n)
  <2>1. n \in T
    <3> HIDE DEF T
    <3> QED
      BY <1>2, <1>5
  <2> QED
    BY <2>1
<1>7. {rules[j] : j \in {j \in 1 .. n : rule_matches(rules[j], dest)}} =
        {r \in ToSet(rules) : rule_matches(r, dest)}
  BY <1>2 DEF ToSet
<1> QED
  BY <1>1, <1>6, <1>7 DEF PushedBy

LEMMA AddLoop ==
  ASSUME rules \in Seq(RouteRules), NEW matches \in Seq(RouteRules),
         NEW A, NEW addrs \in Seq(A)
  PROVE  \E added : /\ added[0] = matches
                    /\ \A k \in 1 .. Len(addrs) :
                         added[k] = push_matches(added[k - 1], Ip(addrs[k]), TRUE)
                    /\ add_address_matches(matches, addrs) = added[Len(addrs)]
<1> DEFINE n == Len(addrs)
           S == Seq(RouteRules)
           step == [k \in 1 .. n |-> [b \in S |-> push_matches(b, Ip(addrs[k]), TRUE)]]
           Equation(g) == g = [k \in 0 .. n |->
                                 IF k = 0 THEN matches
                                 ELSE push_matches(g[k - 1], Ip(addrs[k]), TRUE)]
<1>1. n \in Nat
  OBVIOUS
<1>2. step \in [1 .. n -> [S -> S]]
  <2>1. \A k \in 1 .. n, b \in S : push_matches(b, Ip(addrs[k]), TRUE) \in S
    BY PushMatches
  <2> HIDE DEF S, n
  <2> QED
    BY <2>1
<1>3. PICK h : LoopStates(h, n, S, matches, step)
  <2>1. matches \in S
    OBVIOUS
  <2> HIDE DEF n, S, step
  <2> QED
    BY <1>1, <1>2, <2>1, Recursion
<1>4. Equation(h)
  <2>1. ASSUME NEW k \in 1 .. n PROVE h[k] = push_matches(h[k - 1], Ip(addrs[k]), TRUE)
    <3>1. k - 1 \in 0 .. n
      BY <1>1
    <3>2. h[k - 1] \in S /\ h[k] = step[k][h[k - 1]]
      BY <1>3, <3>1 DEF LoopStates
    <3> HIDE DEF S
    <3> QED
      BY <3>2
  <2> HIDE DEF n, S, step
  <2>2. \A k \in 0 .. n : k = 0 \/ k \in 1 .. n
    BY <1>1
  <2>3. h = [k \in 0 .. n |-> h[k]] /\ h[0] = matches
    BY <1>3 DEF LoopStates
  <2> QED
    BY <2>1, <2>2, <2>3
<1>5. add_address_matches(matches, addrs) = (CHOOSE g : Equation(g))[n]
  BY DEF add_address_matches
<1> DEFINE added == CHOOSE g : Equation(g)
<1>6. Equation(added)
  <2> HIDE DEF Equation
  <2> QED
    BY <1>4
<1>7. \A k \in 0 .. n :
        added[k] = IF k = 0 THEN matches ELSE push_matches(added[k - 1], Ip(addrs[k]), TRUE)
  <2> HIDE DEF added
  <2> QED
    BY <1>6
<1>8. 0 \in 0 .. n /\ \A k \in 1 .. n : k \in 0 .. n /\ k # 0
  BY <1>1
<1> HIDE DEF added, Equation, S, step
<1> QED
  BY <1>5, <1>7, <1>8 DEF added

\* The matches m after the first n addresses.
AddedBy(m, matches, addrs, n) ==
  /\ m \in Seq(RouteRules)
  /\ ToSet(m) = ToSet(matches) \cup
       {r \in ToSet(rules) : \E j \in 1 .. n : rule_matches(r, Ip(addrs[j]))}
  /\ (IsInjective(rules) /\ IsInjective(matches)) => IsInjective(m)

\* The loop over the addresses, for any number of them.
LEMMA AddAddresses ==
  ASSUME rules \in Seq(RouteRules), NEW matches \in Seq(RouteRules),
         NEW A, NEW addrs \in Seq(A)
  PROVE  AddedBy(add_address_matches(matches, addrs), matches, addrs, Len(addrs))
<1>1. PICK added : /\ added[0] = matches
                   /\ \A k \in 1 .. Len(addrs) :
                        added[k] = push_matches(added[k - 1], Ip(addrs[k]), TRUE)
                   /\ add_address_matches(matches, addrs) = added[Len(addrs)]
  BY AddLoop
<1> DEFINE n == Len(addrs)
           T == {k \in 0 .. n : AddedBy(added[k], matches, addrs, k)}
<1>2. n \in Nat
  OBVIOUS
<1>3. 0 \in T
  <2>1. 0 \in 0 .. n /\ 1 .. 0 = {}
    BY <1>2
  <2> QED
    BY <1>1, <2>1 DEF AddedBy
<1>4. ASSUME NEW k \in 1 .. n, k - 1 \in T PROVE k \in T
  <2>1. k \in 0 .. n /\ k \in 1 .. k /\ \A j \in 1 .. k : j = k \/ j \in 1 .. k - 1
    BY <1>2
  <2>2. \A j \in 1 .. k - 1 : j \in 1 .. k
    OBVIOUS
  <2>3. AddedBy(added[k - 1], matches, addrs, k - 1)
    BY <1>4
  <2> DEFINE m == added[k - 1]
             dest == Ip(addrs[k])
  <2>4. m \in Seq(RouteRules) /\ added[k] = push_matches(m, dest, TRUE)
    BY <1>1, <2>3 DEF AddedBy
  <2> HIDE DEF m, dest
  <2>5. /\ added[k] \in Seq(RouteRules)
        /\ ToSet(added[k]) = ToSet(m) \cup {r \in ToSet(rules) : rule_matches(r, dest)}
        /\ (IsInjective(rules) /\ IsInjective(m)) => IsInjective(added[k])
    BY <2>4, PushMatches
  <2>6. {r \in ToSet(rules) : \E j \in 1 .. k : rule_matches(r, Ip(addrs[j]))} =
          {r \in ToSet(rules) : \E j \in 1 .. k - 1 : rule_matches(r, Ip(addrs[j]))}
            \cup {r \in ToSet(rules) : rule_matches(r, dest)}
    BY <2>1, <2>2 DEF dest
  <2>7. AddedBy(added[k], matches, addrs, k)
    BY <2>3, <2>5, <2>6 DEF AddedBy, m
  <2> QED
    BY <2>1, <2>7
<1>5. 0 .. n \subseteq T
  <2> HIDE DEF n, T
  <2> QED
    BY <1>2, <1>3, <1>4, Induction
<1>6. n \in T
  <2> HIDE DEF T
  <2> QED
    BY <1>2, <1>5
<1> QED
  BY <1>1, <1>6

LEMMA FindByAddress ==
  ASSUME rules \in Seq(RouteRules), NEW A, NEW addrs \in Seq(A)
  PROVE  \/ /\ find_by_address(addrs) = <<>>
            /\ \A k \in 1 .. Len(addrs) : find_direct_match(Ip(addrs[k])) = <<>>
         \/ \E k \in 1 .. Len(addrs) :
              /\ find_by_address(addrs) = find_direct_match(Ip(addrs[k]))
              /\ find_direct_match(Ip(addrs[k])) # <<>>
<1> DEFINE hits == {k \in DOMAIN addrs : find_direct_match(Ip(addrs[k])) # <<>>}
<1>1. DOMAIN addrs = 1 .. Len(addrs) /\ Len(addrs) \in Nat
  OBVIOUS
<1>2. CASE hits = {}
  BY <1>1, <1>2 DEF find_by_address
<1>3. CASE hits # {}
  <2>1. hits \subseteq Nat
    BY <1>1
  <2>2. find_by_address(addrs) = find_direct_match(Ip(addrs[Min(hits)]))
    BY <1>3 DEF find_by_address
  <2>3. Min(hits) \in hits
    <3> HIDE DEF hits
    <3>1. \E m \in hits : \A n \in hits : m <= n
      BY <1>3, <2>1, LeastNatural
    <3> QED
      BY <3>1 DEF Min
  <2> QED
    BY <1>1, <2>2, <2>3
<1> QED
  BY <1>2, <1>3

-----------------------------------------------------------------------------
(* Sorting *)

LEMMA PriorityType ==
  ASSUME NEW m \in Seq(RouteRules), NEW k \in DOMAIN m
  PROVE  m[k].priority \in Nat /\ k \in Nat
<1>1. m[k] \in RouteRules /\ k \in Nat
  OBVIOUS
<1>2. m[k].priority \in 0 .. MaxPriority /\ MaxPriority \in Nat
  BY <1>1, MatcherAssumption
<1> QED
  BY <1>1, <1>2

LEMMA GoesBefore ==
  ASSUME NEW m \in Seq(RouteRules)
  PROVE  \A i, j, k \in DOMAIN m :
           /\ ~goes_before(m, k, k)
           /\ goes_before(m, i, j) /\ goes_before(m, j, k) => goes_before(m, i, k)
           /\ i = j \/ goes_before(m, i, j) \/ goes_before(m, j, i)
<1> SUFFICES ASSUME NEW i \in DOMAIN m, NEW j \in DOMAIN m, NEW k \in DOMAIN m
             PROVE  /\ ~goes_before(m, k, k)
                    /\ goes_before(m, i, j) /\ goes_before(m, j, k) => goes_before(m, i, k)
                    /\ i = j \/ goes_before(m, i, j) \/ goes_before(m, j, i)
  OBVIOUS
<1>1. \A p, q, r, x, y, z \in Nat :
        /\ ~(r < r \/ (r = r /\ z < z))
        /\ (p < q \/ (p = q /\ x < y)) /\ (q < r \/ (q = r /\ y < z)) =>
             (p < r \/ (p = r /\ x < z))
        /\ x = y \/ (p < q \/ (p = q /\ x < y)) \/ (q < p \/ (q = p /\ y < x))
  OBVIOUS
<1>2. /\ m[i].priority \in Nat /\ m[j].priority \in Nat /\ m[k].priority \in Nat
      /\ i \in Nat /\ j \in Nat /\ k \in Nat
  BY PriorityType
<1> QED
  BY <1>1, <1>2 DEF goes_before

\* A rule that goes before another has a smaller place.
LEMMA PlaceGrows ==
  ASSUME NEW m \in Seq(RouteRules), NEW j \in DOMAIN m, NEW k \in DOMAIN m
  PROVE  /\ place(m, k) \in DOMAIN m
         /\ goes_before(m, j, k) => place(m, j) < place(m, k)
<1> DEFINE n == Len(m)
           Before(i) == {l \in DOMAIN m : goes_before(m, l, i)}
<1>1. n \in Nat /\ DOMAIN m = 1 .. n
  OBVIOUS
<1>2. \A i : Before(i) \subseteq 1 .. n
  BY <1>1
<1>3. k \notin Before(k) /\ j \notin Before(j)
  BY GoesBefore
<1>4. goes_before(m, j, k) => Before(j) \cup {j} \subseteq Before(k)
  BY GoesBefore
<1>5. \A i : place(m, i) = Cardinality(Before(i)) + 1
  BY DEF place
<1>6. k \in 1 .. n
  BY <1>1
<1> HIDE DEF Before, n
<1>7. IsFiniteSet(1 .. n) /\ Cardinality(1 .. n) = n
  <2>1. \A i \in Nat : (IF 1 > i THEN 0 ELSE i - 1 + 1) = i
    OBVIOUS
  <2>2. 1 \in Int /\ n \in Int
    BY <1>1
  <2> QED
    BY <1>1, <2>1, <2>2, FS_Interval
<1>8. IsFiniteSet(Before(k)) /\ IsFiniteSet(Before(j))
  BY <1>2, <1>7, FS_Subset
<1>9. Cardinality(Before(k)) \in Nat /\ Cardinality(Before(j)) \in Nat
  BY <1>8, FS_CardinalityType
<1>10. place(m, k) \in DOMAIN m
  <2>1. Before(k) \cup {k} \subseteq 1 .. n
    BY <1>2, <1>6
  <2>2. Cardinality(Before(k) \cup {k}) = Cardinality(Before(k)) + 1
    BY <1>3, <1>8, FS_AddElement
  <2>3. Cardinality(Before(k) \cup {k}) <= n
    BY <1>7, <2>1, FS_Subset
  <2> QED
    BY <1>1, <1>5, <1>9, <2>2, <2>3
<1>11. ASSUME goes_before(m, j, k) PROVE place(m, j) < place(m, k)
  <2>1. Cardinality(Before(j) \cup {j}) = Cardinality(Before(j)) + 1
    BY <1>3, <1>8, FS_AddElement
  <2>2. Cardinality(Before(j) \cup {j}) <= Cardinality(Before(k))
    BY <1>4, <1>8, <1>11, FS_Subset
  <2> QED
    BY <1>5, <1>9, <2>1, <2>2
<1> QED
  BY <1>10, <1>11

\* Every place is that of one rule.
LEMMA PlaceTaken ==
  ASSUME NEW m \in Seq(RouteRules), NEW i \in DOMAIN m
  PROVE  \E k \in DOMAIN m : place(m, k) = i
<1> DEFINE n == Len(m)
           D == DOMAIN m
           P == [k \in D |-> place(m, k)]
<1>1. D = 1 .. n /\ n \in Nat
  OBVIOUS
<1>2. IsFiniteSet(D)
  <2>1. 1 \in Int /\ n \in Int
    BY <1>1
  <2> HIDE DEF n, D
  <2> QED
    BY <1>1, <2>1, FS_Interval
<1>3. P \in [D -> D]
  BY PlaceGrows
<1>4. ASSUME NEW j \in D, NEW k \in D, P[j] = P[k] PROVE j = k
  <2>1. place(m, j) = place(m, k) /\ place(m, j) \in Nat
    BY <1>1, <1>4, PlaceGrows
  <2>2. ~goes_before(m, j, k) /\ ~goes_before(m, k, j)
    <3>1. \A x \in Nat : ~(x < x)
      OBVIOUS
    <3> QED
      BY <2>1, <3>1, PlaceGrows
  <2> QED
    BY <2>2, GoesBefore
<1>5. P \in Surjection(D, D)
  <2> HIDE DEF D, P
  <2>1. P \in Injection(D, D)
    BY <1>3, <1>4 DEF Injection, IsInjective
  <2> QED
    BY <1>2, <2>1, FS_Injection
<1>6. i \in D
  OBVIOUS
<1>7. \E k \in D : P[k] = i
  <2> HIDE DEF D, P
  <2> QED
    BY <1>5, <1>6 DEF Surjection
<1> QED
  BY <1>7

\* sort_by_key(): the same rules, in the order of their priorities.
LEMMA Sorted ==
  ASSUME NEW m \in Seq(RouteRules)
  PROVE  /\ sort_by_priority(m) \in Seq(RouteRules)
         /\ ToSet(sort_by_priority(m)) = ToSet(m)
         /\ IsInjective(m) => IsInjective(sort_by_priority(m))
         /\ \A j, k \in DOMAIN sort_by_priority(m) :
              j < k => sort_by_priority(m)[j].priority <= sort_by_priority(m)[k].priority
<1> DEFINE D == DOMAIN m
           at == [i \in D |-> CHOOSE k \in D : place(m, k) = i]
           s == [i \in D |-> m[at[i]]]
<1>1. sort_by_priority(m) = s
  BY DEF sort_by_priority
<1>2. D = 1 .. Len(m) /\ Len(m) \in Nat /\ m \in [D -> RouteRules]
  OBVIOUS
<1>3. \A i \in D : at[i] \in D /\ place(m, at[i]) = i
  BY PlaceTaken
<1>4. DOMAIN s = D /\ \A i \in D : s[i] = m[at[i]]
  OBVIOUS
<1>5. s \in Seq(RouteRules)
  <2>1. s \in [1 .. Len(m) -> RouteRules]
    BY <1>2, <1>3
  <2> HIDE DEF s
  <2> QED
    BY <1>2, <2>1
<1>6. \A k \in D : place(m, k) \in D /\ at[place(m, k)] = k
  <2> SUFFICES ASSUME NEW k \in D PROVE place(m, k) \in D /\ at[place(m, k)] = k
    OBVIOUS
  <2>1. place(m, k) \in D
    BY PlaceGrows
  <2> DEFINE l == at[place(m, k)]
  <2>2. l \in D /\ place(m, l) = place(m, k) /\ place(m, k) \in Nat
    BY <1>2, <1>3, <2>1
  <2> HIDE DEF l
  <2>3. ~goes_before(m, l, k) /\ ~goes_before(m, k, l)
    <3>1. \A x \in Nat : ~(x < x)
      OBVIOUS
    <3> QED
      BY <2>2, <3>1, PlaceGrows
  <2>4. l = k
    BY <2>2, <2>3, GoesBefore
  <2> QED
    BY <2>1, <2>4 DEF l
<1> HIDE DEF at, s
<1>7. ToSet(s) = ToSet(m)
  <2>1. \A i \in D : s[i] = m[at[i]] /\ at[i] \in D
    BY <1>3, <1>4
  <2>2. \A k \in D : m[k] = s[place(m, k)] /\ place(m, k) \in D
    BY <1>4, <1>6
  <2>3. ToSet(s) = {s[i] : i \in D} /\ ToSet(m) = {m[i] : i \in D}
    BY <1>4 DEF ToSet
  <2> HIDE DEF D
  <2> QED
    BY <2>1, <2>2, <2>3
<1>8. ASSUME IsInjective(m) PROVE IsInjective(s)
  <2> SUFFICES ASSUME NEW i \in D, NEW j \in D, s[i] = s[j] PROVE i = j
    BY <1>4 DEF IsInjective
  <2>1. at[i] = at[j]
    <3>1. at[i] \in D /\ at[j] \in D /\ m[at[i]] = m[at[j]]
      BY <1>3, <1>4
    <3> QED
      BY <1>8, <3>1 DEF IsInjective
  <2> QED
    BY <1>3, <2>1
<1>9. ASSUME NEW j \in D, NEW k \in D, j < k PROVE s[j].priority <= s[k].priority
  <2>1. at[j] \in D /\ at[k] \in D /\ place(m, at[j]) = j /\ place(m, at[k]) = k
    BY <1>3
  <2>2. ~goes_before(m, at[k], at[j])
    <3>1. \A x, y \in Nat : x < y => ~(y < x)
      OBVIOUS
    <3>2. j \in Nat /\ k \in Nat
      BY <1>2
    <3> QED
      BY <1>9, <2>1, <3>1, <3>2, PlaceGrows
  <2>3. m[at[j]].priority \in Nat /\ m[at[k]].priority \in Nat
    BY <2>1, PriorityType
  <2>4. \A x, y \in Nat : ~(y < x) => x <= y
    OBVIOUS
  <2>5. m[at[j]].priority <= m[at[k]].priority
    BY <2>2, <2>3, <2>4 DEF goes_before
  <2> QED
    BY <1>4, <2>5
<1> QED
  BY <1>1, <1>4, <1>5, <1>7, <1>8, <1>9

-----------------------------------------------------------------------------
(* Answers *)

\* What the answer r has to do with dest and the addresses it stands for.
Right(r, question, dest, addrs) ==
  LET fits == Fitting({dest} \cup {Ip(a) : a \in ToSet(addrs)})
  IN IF question = "find_all" THEN ToSet(r) = fits
     ELSE IF r = <<>> THEN \A x \in fits : x.priority = MaxPriority
     ELSE r[1] \in fits

InOrder(r) ==
  /\ \A j, k \in DOMAIN r : j < k => r[j].priority <= r[k].priority
  /\ IsInjective(rules) => IsInjective(r)

LEMMA OneRuleInOrder ==
  ASSUME NEW x, NEW S, x \in S
  PROVE  /\ <<>> \in Seq(S) /\ <<x>> \in Seq(S) /\ InOrder(<<>>) /\ InOrder(<<x>>)
<1>1. <<>> \in Seq(S) /\ <<x>> \in Seq(S) /\ DOMAIN <<>> = {} /\ DOMAIN <<x>> = {1}
  OBVIOUS
<1>2. ~(1 < 1)
  OBVIOUS
<1> QED
  BY <1>1, <1>2 DEF InOrder, IsInjective

LEMMA FittingMeans ==
  ASSUME rules \in Seq(RouteRules), NEW dest \in Destinations, NEW ips
  PROVE  \A r : r \in Fitting({dest} \cup {Ip(a) : a \in ips}) <=>
                  /\ r \in ToSet(rules)
                  /\ rule_matches(r, dest) \/ \E a \in ips : rule_matches(r, Ip(a))
<1>1. ToSet(rules) \subseteq RouteRules
  BY DEF ToSet
<1> QED
  BY <1>1, MatchesMeans DEF Fitting

\* find_direct_match() as the best of the rules that match.
LEMMA DirectMatchKnown ==
  ASSUME rules \in Seq(RouteRules), NEW dest
  PROVE  \/ /\ find_direct_match(dest) = <<>>
            /\ \A r \in ToSet(rules) : rule_matches(r, dest) => r.priority = MaxPriority
         \/ \E r \in ToSet(rules) : find_direct_match(dest) = <<r>> /\ rule_matches(r, dest)
<1>1. BestOf(find_direct_match(dest), dest, Len(rules))
  BY DirectMatch
<1>2. ToSet(rules) = {rules[j] : j \in 1 .. Len(rules)}
  BY DEF ToSet
<1> QED
  BY <1>1, <1>2 DEF BestOf

LEMMA FindAnswer ==
  ASSUME rules \in Seq(RouteRules), NEW dest \in Destinations, NEW A, NEW addrs \in Seq(A)
  PROVE  /\ Answered("find", dest, addrs) \in Seq(ToSet(rules))
         /\ InOrder(Answered("find", dest, addrs))
         /\ Right(Answered("find", dest, addrs), "find", dest, addrs)
<1> DEFINE r == Answered("find", dest, addrs)
           ips == ToSet(addrs)
           fits == Fitting({dest} \cup {Ip(a) : a \in ips})
<1>1. ips = {addrs[k] : k \in 1 .. Len(addrs)}
  BY DEF ToSet
<1>2. r = IF find_direct_match(dest) # <<>> THEN find_direct_match(dest)
          ELSE find_by_address(addrs)
  BY DEF Answered
<1>3. \A x : x \in fits <=> /\ x \in ToSet(rules)
                            /\ rule_matches(x, dest) \/ \E a \in ips : rule_matches(x, Ip(a))
  BY FittingMeans
<1>4. \/ /\ find_direct_match(dest) = <<>>
         /\ \A x \in ToSet(rules) : rule_matches(x, dest) => x.priority = MaxPriority
      \/ \E x \in ToSet(rules) : find_direct_match(dest) = <<x>> /\ rule_matches(x, dest)
  BY DirectMatchKnown
<1>5. \A a : \/ /\ find_direct_match(Ip(a)) = <<>>
                /\ \A x \in ToSet(rules) : rule_matches(x, Ip(a)) => x.priority = MaxPriority
             \/ \E x \in ToSet(rules) :
                  find_direct_match(Ip(a)) = <<x>> /\ rule_matches(x, Ip(a))
  BY DirectMatchKnown
<1>6. \/ /\ find_by_address(addrs) = <<>>
         /\ \A k \in 1 .. Len(addrs) : find_direct_match(Ip(addrs[k])) = <<>>
      \/ \E k \in 1 .. Len(addrs) :
           /\ find_by_address(addrs) = find_direct_match(Ip(addrs[k]))
           /\ find_direct_match(Ip(addrs[k])) # <<>>
  BY FindByAddress
<1> HIDE DEF r, ips, fits
<1>7. \/ r = <<>> /\ \A x \in fits : x.priority = MaxPriority
      \/ \E x \in fits : r = <<x>>
  <2>1. \A x : <<x>> # <<>>
    OBVIOUS
  <2>2. CASE find_direct_match(dest) # <<>>
    BY <1>2, <1>3, <1>4, <2>2
  <2>3. CASE find_direct_match(dest) = <<>>
    <3>1. r = find_by_address(addrs)
      BY <1>2, <2>3
    <3>2. \A x \in ToSet(rules) : rule_matches(x, dest) => x.priority = MaxPriority
      BY <1>4, <2>1, <2>3
    <3>3. CASE r = <<>>
      <4>1. \A k \in 1 .. Len(addrs) : find_direct_match(Ip(addrs[k])) = <<>>
        BY <1>6, <3>1, <3>3
      <4>2. \A a \in ips : \A x \in ToSet(rules) :
              rule_matches(x, Ip(a)) => x.priority = MaxPriority
        BY <1>1, <1>5, <2>1, <4>1
      <4> QED
        BY <1>3, <3>2, <3>3, <4>2
    <3>4. CASE r # <<>>
      <4>1. PICK k \in 1 .. Len(addrs) : r = find_direct_match(Ip(addrs[k]))
        BY <1>6, <3>1, <3>4
      <4>2. addrs[k] \in ips
        BY <1>1
      <4>3. \E x \in ToSet(rules) : r = <<x>> /\ rule_matches(x, Ip(addrs[k]))
        BY <1>5, <3>4, <4>1
      <4> QED
        BY <1>3, <4>2, <4>3
    <3> QED
      BY <3>3, <3>4
  <2> QED
    BY <2>2, <2>3
<1>8. fits \subseteq ToSet(rules)
  BY <1>3
<1>9. r \in Seq(ToSet(rules)) /\ InOrder(r)
  <2>1. InOrder(<<>>) /\ <<>> \in Seq(ToSet(rules))
    BY DEF InOrder, IsInjective
  <2> QED
    BY <1>7, <1>8, <2>1, OneRuleInOrder
<1>10. Right(r, "find", dest, addrs)
  <2>1. \A x : <<x>> # <<>> /\ <<x>>[1] = x
    OBVIOUS
  <2>2. "find" # "find_all"
    OBVIOUS
  <2> QED
    BY <1>7, <2>1, <2>2 DEF Right, fits, ips
<1> QED
  BY <1>9, <1>10 DEF r

LEMMA FindAllAnswer ==
  ASSUME rules \in Seq(RouteRules), NEW dest \in Destinations, NEW A, NEW addrs \in Seq(A)
  PROVE  /\ Answered("find_all", dest, addrs) \in Seq(ToSet(rules))
         /\ InOrder(Answered("find_all", dest, addrs))
         /\ Right(Answered("find_all", dest, addrs), "find_all", dest, addrs)
<1> DEFINE direct == direct_matches(dest)
           all == add_address_matches(direct, addrs)
           r == sort_by_priority(all)
           ips == ToSet(addrs)
<1>1. Answered("find_all", dest, addrs) = r
  BY DEF Answered
<1>2. /\ direct \in Seq(RouteRules)
      /\ ToSet(direct) = {x \in ToSet(rules) : rule_matches(x, dest)}
      /\ IsInjective(rules) => IsInjective(direct)
  <2>1. <<>> \in Seq(RouteRules) /\ ToSet(<<>>) = {} /\ IsInjective(<<>>)
    BY DEF ToSet, IsInjective
  <2>2. direct = push_matches(<<>>, dest, FALSE)
    BY DEF direct_matches
  <2> QED
    BY <2>1, <2>2, PushMatches
<1>3. AddedBy(all, direct, addrs, Len(addrs))
  BY <1>2, AddAddresses
<1>4. ips = {addrs[k] : k \in 1 .. Len(addrs)}
  BY DEF ToSet
<1>5. /\ all \in Seq(RouteRules)
      /\ ToSet(all) = ToSet(direct) \cup {x \in ToSet(rules) : \E a \in ips : rule_matches(x, Ip(a))}
      /\ IsInjective(rules) => IsInjective(all)
  <2> HIDE DEF direct, all, ips
  <2> QED
    BY <1>2, <1>3, <1>4 DEF AddedBy
<1> HIDE DEF direct, all, ips
<1>6. /\ r \in Seq(RouteRules) /\ ToSet(r) = ToSet(all)
      /\ IsInjective(all) => IsInjective(r)
      /\ \A j, k \in DOMAIN r : j < k => r[j].priority <= r[k].priority
  BY <1>5, Sorted
<1>7. \A x : x \in Fitting({dest} \cup {Ip(a) : a \in ips}) <=>
               /\ x \in ToSet(rules)
               /\ rule_matches(x, dest) \/ \E a \in ips : rule_matches(x, Ip(a))
  BY FittingMeans
<1> HIDE DEF r
<1>8. ToSet(r) = Fitting({dest} \cup {Ip(a) : a \in ips})
  BY <1>2, <1>5, <1>6, <1>7
<1>9. r \in Seq(ToSet(rules))
  <2>1. ToSet(r) \subseteq ToSet(rules)
    BY <1>7, <1>8
  <2>2. \A i \in 1 .. Len(r) : r[i] \in ToSet(r)
    BY <1>6 DEF ToSet
  <2>3. r = [i \in 1 .. Len(r) |-> r[i]] /\ Len(r) \in Nat
    BY <1>6
  <2> QED
    BY <2>1, <2>2, <2>3
<1>10. InOrder(r)
  BY <1>5, <1>6 DEF InOrder
<1>11. Right(r, "find_all", dest, addrs)
  BY <1>8 DEF Right, ips
<1> QED
  BY <1>1, <1>9, <1>10, <1>11

-----------------------------------------------------------------------------
(* The matcher *)

Found == [question: Questions, dest: Destinations, rules: Seq(ToSet(rules)), ok: BOOLEAN]

\* A call that is under way is about the name that is asked for, and has no answer yet.
MatcherInv ==
  /\ DnsInv
  /\ rules \in SeqOf(RouteRules, MaxRules) /\ resolver \in BOOLEAN
  /\ found \in [Callers -> Found]
  /\ \A c \in Callers :
       call[c].pc # "done" =>
         found[c].dest = Domain(call[c].domain) /\ ~found[c].ok /\ resolver
  /\ AllInOrder

LEMMA RulesType ==
  ASSUME rules \in SeqOf(RouteRules, MaxRules)
  PROVE  rules \in Seq(RouteRules)
<1>1. PICK n \in 0 .. MaxRules : rules \in [1 .. n -> RouteRules]
  BY DEF SeqOf
<1>2. n \in Nat
  BY MatcherAssumption
<1> QED
  BY <1>1, <1>2

LEMMA NameIsDestination ==
  ASSUME NEW d \in Domains
  PROVE  /\ Domain(d) \in Destinations /\ Domain(d).value = d /\ Domain(d).kind = "domain"
BY DEF Destinations, Domain

LEMMA AskedType ==
  ASSUME NEW question \in Questions, NEW dest \in Destinations
  PROVE  /\ Asked(question, dest) \in Found /\ InOrder(Asked(question, dest).rules)
         /\ Asked(question, dest).dest = dest /\ Asked(question, dest).ok = FALSE
<1>1. <<>> \in Seq(ToSet(rules)) /\ InOrder(<<>>)
  BY DEF InOrder, IsInjective
<1> QED
  BY <1>1 DEF Asked, Found

\* An answer that c gets.
LEMMA ReturnStep ==
  ASSUME MatcherInv, NEW c \in Callers, NEW question \in Questions,
         NEW dest \in Destinations, NEW A, NEW addrs \in Seq(A),
         Return(c, question, dest, addrs)
  PROVE  \E f \in Found :
           /\ SetFound(c, f) /\ InOrder(f.rules) /\ f.ok
           /\ f.question = question /\ f.dest = dest
           /\ Right(f.rules, f.question, f.dest, addrs)
<1> DEFINE r == Answered(question, dest, addrs)
           f == [Asked(question, dest) EXCEPT !.ok = TRUE, !.rules = r]
<1>1. rules \in Seq(RouteRules)
  BY RulesType DEF MatcherInv
<1>2. r \in Seq(ToSet(rules)) /\ InOrder(r) /\ Right(r, question, dest, addrs)
  <2>1. CASE question = "find"
    BY <1>1, <2>1, FindAnswer
  <2>2. CASE question = "find_all"
    BY <1>1, <2>2, FindAllAnswer
  <2> QED
    BY <2>1, <2>2 DEF Questions
<1>3. SetFound(c, f)
  BY DEF Return
<1> HIDE DEF r
<1>4. /\ f \in Found /\ f.rules = r /\ f.ok /\ f.question = question /\ f.dest = dest
  BY <1>2 DEF Asked, Found
<1> HIDE DEF f
<1> QED
  BY <1>2, <1>3, <1>4

\* What c is told leaves the other callers alone.
LEMMA FoundStep ==
  ASSUME MatcherInv, DnsInv', UNCHANGED <<rules, resolver>>, NEW c \in Callers,
         NEW f \in Found, SetFound(c, f), InOrder(f.rules),
         call'[c].pc # "done" => f.dest = Domain(call'[c].domain) /\ ~f.ok /\ resolver,
         \A b \in Callers \ {c} : call'[b] = call[b]
  PROVE  /\ MatcherInv' /\ found'[c] = f
         /\ \A b \in Callers \ {c} : found'[b] = found[b]
<1>1. /\ found' \in [Callers -> Found] /\ found'[c] = f
      /\ \A b \in Callers \ {c} : found'[b] = found[b]
  BY DEF MatcherInv, SetFound
<1>2. Found' = Found
  BY DEF Found, Destinations, Addresses, Versions
<1>3. ASSUME NEW b \in Callers
      PROVE  /\ call'[b].pc # "done" =>
                  found'[b].dest = Domain(call'[b].domain) /\ ~found'[b].ok /\ resolver'
             /\ InOrder(found'[b].rules)
  <2>1. CASE b = c
    BY <1>1, <2>1
  <2>2. CASE b # c
    BY <1>1, <2>2 DEF MatcherInv, AllInOrder, InOrder
  <2> QED
    BY <2>1, <2>2
<1>4. AllInOrder'
  BY <1>3 DEF AllInOrder, InOrder
<1> QED
  BY <1>1, <1>2, <1>3, <1>4 DEF MatcherInv

\* The calls of the others do not change.
LEMMA OneCaller ==
  ASSUME DnsInv, NEW c \in Callers, NEW r, SetCall(c, r)
  PROVE  \A b \in Callers \ {c} : call'[b] = call[b]
BY DEF SetCall, DnsInv, Calls

\* What every step of the matcher does to an answer: a new one is right.
Fits ==
  \A c \in Callers :
    LET f == found'[c] IN
    (f.ok /\ f # found[c]) =>
      \E S \in Meanings(f.dest) :
        IF f.question = "find_all" THEN ToSet(f.rules) = Fitting(S)
        ELSE IF f.rules = <<>> THEN \A r \in Fitting(S) : r.priority = MaxPriority
        ELSE f.rules[1] \in Fitting(S)

LEMMA FitsOne ==
  ASSUME NEW c \in Callers, NEW addrs, \A b \in Callers \ {c} : found'[b] = found[b],
         found'[c].ok =>
           /\ Right(found'[c].rules, found'[c].question, found'[c].dest, addrs)
           /\ {found'[c].dest} \cup {Ip(a) : a \in ToSet(addrs)} \in Meanings(found'[c].dest)
  PROVE  Fits
<1> SUFFICES ASSUME NEW b \in Callers, found'[b].ok, found'[b] # found[b]
             PROVE  \E S \in Meanings(found'[b].dest) :
                      IF found'[b].question = "find_all" THEN ToSet(found'[b].rules) = Fitting(S)
                      ELSE IF found'[b].rules = <<>>
                      THEN \A r \in Fitting(S) : r.priority = MaxPriority
                      ELSE found'[b].rules[1] \in Fitting(S)
  BY DEF Fits
<1>1. b = c
  OBVIOUS
<1> QED
  BY <1>1 DEF Right

LEMMA MatchDirectlyStep ==
  ASSUME MatcherInv, UNCHANGED <<rules, resolver>>, NEW c \in Callers,
         NEW question \in Questions, NEW dest \in Destinations,
         MatchDirectly(c, question, dest)
  PROVE  MatcherInv' /\ Fits
<1>1. UNCHANGED dns_vars /\ call[c].pc = "done" /\ Return(c, question, dest, <<>>)
  BY DEF MatchDirectly
<1>2. PICK f \in Found : /\ SetFound(c, f) /\ InOrder(f.rules) /\ f.dest = dest
                         /\ Right(f.rules, f.question, f.dest, <<>>)
  <2> DEFINE addrs == <<>>
  <2>1. addrs \in Seq({}) /\ Return(c, question, dest, addrs)
    BY <1>1
  <2>2. \E f \in Found : /\ SetFound(c, f) /\ InOrder(f.rules) /\ f.dest = dest
                         /\ Right(f.rules, f.question, f.dest, addrs)
    <3> HIDE DEF addrs
    <3> QED
      BY <2>1, ReturnStep
  <2> QED
    BY <2>2
<1>3. DnsInv' /\ call' = call
  BY <1>1 DEF MatcherInv, DnsInv, Contents, Calls, Queue, dns_vars
<1>4. /\ MatcherInv' /\ found'[c] = f
      /\ \A b \in Callers \ {c} : found'[b] = found[b]
  BY <1>1, <1>2, <1>3, FoundStep
<1>5. {dest} \cup {Ip(a) : a \in ToSet(<<>>)} \in Meanings(dest)
  <2>1. ToSet(<<>>) = {}
    BY DEF ToSet
  <2> QED
    BY <2>1 DEF Meanings
<1> QED
  BY <1>2, <1>4, <1>5, FitsOne

\* The resolver has gone on with the call of c, and the matcher with it.
LEMMA AfterResolveStep ==
  ASSUME MatcherInv, DnsInv', UNCHANGED <<rules, resolver, version>>, resolver,
         NEW c \in Callers, NEW question \in Questions, NEW d \in Domains,
         AfterResolve(c, question, Domain(d)),
         call'[c].domain = d,
         call'[c].pc = "done" /\ call'[c].result # Failed =>
           call'[c].result \in 1 .. version[d] /\ Recent(d, call'[c].result),
         \A b \in Callers \ {c} : call'[b] = call[b]
  PROVE  MatcherInv' /\ Fits
<1>1. Domain(d) \in Destinations /\ Domain(d).value = d /\ Domain(d).kind = "domain"
  BY NameIsDestination
<1>2. CASE SetFound(c, Asked(question, Domain(d)))
  <2> DEFINE f == Asked(question, Domain(d))
  <2>1. f \in Found /\ InOrder(f.rules) /\ f.dest = Domain(d) /\ f.ok = FALSE
    BY <1>1, AskedType
  <2>2. SetFound(c, f)
    BY <1>2
  <2> HIDE DEF f
  <2>3. /\ MatcherInv' /\ found'[c] = f
        /\ \A b \in Callers \ {c} : found'[b] = found[b]
    BY <2>1, <2>2, FoundStep
  <2> QED
    BY <2>1, <2>3, FitsOne
<1>3. CASE /\ call'[c].pc = "done" /\ call'[c].result # Failed
           /\ Return(c, question, Domain(d), addresses(d, call'[c].result))
  <2> DEFINE v == call'[c].result
             addrs == addresses(d, v)
  <2>1. v \in 1 .. version[d] /\ Recent(d, v)
    BY <1>3
  <2>2. \E A : addrs \in Seq(A)
    <3>1. version[d] \in 1 .. Len(Zone[d])
      BY DEF MatcherInv, DnsInv, Contents
    <3>2. Len(Zone[d]) \in Nat
      BY ZoneType
    <3>3. v \in 1 .. Len(Zone[d])
      <4> HIDE DEF v
      <4> QED
        BY <2>1, <3>1, <3>2
    <3>4. PICK A : Zone[d] \in Seq(Seq(A))
      BY DnsAssumption
    <3> HIDE DEF v
    <3>5. Zone[d][v] \in Seq(A)
      BY <3>3, <3>4
    <3> QED
      BY <3>5 DEF addresses
  <2>3. Return(c, question, Domain(d), addrs)
    BY <1>3
  <2> HIDE DEF v, addrs
  <2>4. PICK f \in Found : /\ SetFound(c, f) /\ InOrder(f.rules) /\ f.ok
                           /\ f.dest = Domain(d)
                           /\ Right(f.rules, f.question, f.dest, addrs)
    <3>1. PICK A : addrs \in Seq(A)
      BY <2>2
    <3> QED
      BY <1>1, <2>3, <3>1, ReturnStep
  <2>5. /\ MatcherInv' /\ found'[c] = f
        /\ \A b \in Callers \ {c} : found'[b] = found[b]
    BY <1>3, <2>4, FoundStep
  <2>6. {Domain(d)} \cup {Ip(a) : a \in ToSet(addrs)} \in Meanings(Domain(d))
    BY <1>1, <2>1 DEF Meanings, addrs
  <2> QED
    BY <2>4, <2>5, <2>6, FitsOne
<1> QED
  BY <1>1, <1>2, <1>3 DEF AfterResolve

LEMMA MatcherInitial == MatcherInit => MatcherInv
<1> SUFFICES ASSUME MatcherInit PROVE MatcherInv
  OBVIOUS
<1>1. DnsInv
  BY DnsInitial DEF MatcherInit
<1>2. "find" \in Questions
  BY DEF Questions
<1>3. ASSUME NEW c \in Callers
      PROVE  found[c] \in Found /\ InOrder(found[c].rules) /\ call[c].pc = "done"
  <2>1. PICK d \in Domains : found[c] = Asked("find", Domain(d))
    BY DEF MatcherInit
  <2>2. \E e \in Domains : call[c] = Done(e, Failed)
    BY DEF MatcherInit, DnsInit
  <2>3. call[c].pc = "done"
    BY <2>2, DoneType DEF Failed
  <2> QED
    BY <1>2, <2>1, <2>3, NameIsDestination, AskedType
<1>4. found \in [Callers -> Found]
  BY <1>3 DEF MatcherInit
<1>5. AllInOrder
  BY <1>3 DEF AllInOrder, InOrder
<1> QED
  BY <1>1, <1>3, <1>4, <1>5 DEF MatcherInit, MatcherInv

\* A step that leaves the answers alone and ends or begins no call.
LEMMA FoundStays ==
  ASSUME MatcherInv, DnsInv', UNCHANGED <<found, rules, resolver>>,
         \A c \in Callers : /\ call'[c].domain = call[c].domain
                            /\ call'[c].pc # "done" => call[c].pc # "done"
  PROVE  MatcherInv' /\ Fits
<1>1. Found' = Found
  BY DEF Found, Destinations, Addresses, Versions
<1>2. AllInOrder'
  BY DEF MatcherInv, AllInOrder
<1>3. Fits
  BY DEF Fits
<1> QED
  BY <1>1, <1>2, <1>3 DEF MatcherInv

LEMMA MatcherStep ==
  ASSUME MatcherInv, MatcherNext
  PROVE  MatcherInv' /\ Fits
<1>1. DnsInv /\ UNCHANGED <<rules, resolver>>
  BY DEF MatcherInv, MatcherNext
<1>2. ASSUME NEW c \in Callers, NEW question \in Questions, NEW dest \in Destinations,
             MatchDirectly(c, question, dest)
      PROVE  MatcherInv' /\ Fits
  BY <1>1, <1>2, MatchDirectlyStep
<1>3. ASSUME NEW c \in Callers, NEW question \in Questions, NEW d \in Domains,
             MatchResolving(c, question, d)
      PROVE  MatcherInv' /\ Fits
  <2>1. /\ Resolve(c, d, "any") /\ resolver /\ AfterResolve(c, question, Domain(d))
        /\ "any" \in Families
    BY <1>3 DEF MatchResolving, needs_dns, Families
  <2>2. /\ DnsInv' /\ call'[c].domain = d
        /\ call'[c].pc = "done" /\ call'[c].result # Failed =>
             call'[c].result \in 1 .. version[d] /\ Recent(d, call'[c].result)
    BY <1>1, <2>1, ResolveStep
  <2>3. UNCHANGED version /\ \A b \in Callers \ {c} : call'[b] = call[b]
    BY <1>1, <2>1, OneCaller DEF Resolve
  <2> QED
    BY <1>1, <2>1, <2>2, <2>3, AfterResolveStep
<1>4. ASSUME NEW c \in Callers, ResolveReturns(c)
      PROVE  MatcherInv' /\ Fits
  <2> DEFINE d == call[c].domain
             question == found[c].question
  <2>1. /\ Answer(c) \/ AnswerFails(c)
        /\ AfterResolve(c, question, found[c].dest)
    BY <1>4 DEF ResolveReturns
  <2>2. call[c].pc = "querying"
    BY <2>1 DEF Answer, AnswerFails, querying
  <2>3. /\ d \in Domains /\ found[c].dest = Domain(d) /\ resolver /\ question \in Questions
    BY <2>2 DEF MatcherInv, DnsInv, Calls, Call, Found
  <2>4. /\ DnsInv' /\ call'[c].domain = d
        /\ call'[c].pc = "done" /\ call'[c].result # Failed =>
             call'[c].result \in 1 .. version[d] /\ Recent(d, call'[c].result)
    BY <1>1, <2>1, AnswerStep
  <2>5. UNCHANGED version /\ \A b \in Callers \ {c} : call'[b] = call[b]
    BY <1>1, <2>1, OneCaller DEF Answer, AnswerFails, Finish
  <2>6. AfterResolve(c, question, Domain(d))
    BY <2>1, <2>3
  <2> HIDE DEF d, question
  <2> QED
    BY <1>1, <2>3, <2>4, <2>5, <2>6, AfterResolveStep
<1>5. ASSUME NEW c \in Callers, StartQuery(c), UNCHANGED found
      PROVE  MatcherInv' /\ Fits
  <2>1. DnsInv'
    BY <1>1, <1>5, StartQueryStep
  <2>2. call[c].pc = "waiting"
    <3>1. c \in ToSet(waiters)
      BY <1>1, <1>5, RemoveFirstOne DEF StartQuery, next_waiter, DnsInv, Queue
    <3> QED
      BY <1>1, <3>1 DEF DnsInv, Queue
  <2>3. call'[c].domain = call[c].domain
    BY <1>1, <1>5 DEF StartQuery, SetCall, DnsInv, Calls, Call
  <2>4. \A b \in Callers \ {c} : call'[b] = call[b]
    BY <1>1, <1>5, OneCaller DEF StartQuery
  <2>5. \A b \in Callers : /\ call'[b].domain = call[b].domain
                           /\ call'[b].pc # "done" => call[b].pc # "done"
    BY <2>2, <2>3, <2>4
  <2> QED
    BY <1>1, <1>5, <2>1, <2>5, FoundStays
<1>6. ASSUME ClearCache \/ PruneCache \/ Tick \/ (\E d \in Domains : ZoneChanges(d)),
             UNCHANGED found
      PROVE  MatcherInv' /\ Fits
  <2>1. DnsInv' /\ UNCHANGED call
    BY <1>1, <1>6, CacheStep, ZoneStep, TickStep
  <2> QED
    BY <1>1, <1>6, <2>1, FoundStays
<1> QED
  BY <1>2, <1>3, <1>4, <1>5, <1>6 DEF MatcherNext, Matching

LEMMA MatcherInvariance == MatcherSpec => []MatcherInv
<1>1. MatcherInv /\ UNCHANGED matcher_vars => MatcherInv'
  <2> SUFFICES ASSUME MatcherInv, UNCHANGED matcher_vars PROVE MatcherInv'
    OBVIOUS
  <2>1. DnsInv'
    <3>1. [DnsNext]_dns_vars
      BY DEF matcher_vars
    <3> QED
      BY <3>1, DnsStep DEF MatcherInv
  <2> QED
    BY <2>1, FoundStays DEF matcher_vars, dns_vars
<1>2. MatcherInv /\ [MatcherNext]_matcher_vars => MatcherInv'
  BY <1>1, MatcherStep
<1> QED
  BY <1>2, MatcherInitial, PTL DEF MatcherSpec

\* The states of the matcher are of their types: a call that is under way is about the
\* name its caller asked for, and an answer holds rules of the list.
THEOREM MatcherTypeCorrect == MatcherSpec => []MatcherTypeOK
<1>1. MatcherInv => MatcherTypeOK
  BY DnsTypes DEF MatcherInv, MatcherTypeOK, Found
<1> QED
  BY <1>1, MatcherInvariance, PTL

\* find_direct_match(): for a list of any length the lowest priority decides, then the
\* place in the list, and a rule matches what its pattern means.
THEOREM FirstBestCorrect == MatcherSpec => []FirstBest
<1>1. MatcherInv => FirstBest
  BY RulesType, FirstBestHolds DEF MatcherInv
<1> QED
  BY <1>1, MatcherInvariance, PTL

\* find_all_matching_rules(): the matches are sorted, and no rule comes twice that does
\* not stand in the list twice, for any number of rules and addresses.
THEOREM AllInOrderCorrect == MatcherSpec => []AllInOrder
<1>1. MatcherInv => AllInOrder
  BY DEF MatcherInv
<1> QED
  BY <1>1, MatcherInvariance, PTL

\* Both questions are answered for the destination and the addresses its name had a
\* short time ago, whatever the callers, the cache and the server do meanwhile.
THEOREM AnswersFitCorrect == MatcherSpec => AnswersFit
<1>1. MatcherInv /\ [MatcherNext]_matcher_vars => [Fits]_matcher_vars
  BY MatcherStep
<1>2. [][Fits]_matcher_vars <=> AnswersFit
  BY PTL DEF Fits, AnswersFit
<1> QED
  BY <1>1, <1>2, MatcherInvariance, PTL DEF MatcherSpec
==================================================================================
