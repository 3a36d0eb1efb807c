------------------------------ MODULE ManagedRules ------------------------------
(***************************************************************************)
(* What the daemon promises of its default rules, whatever requests fail,  *)
(* reloads come and devices go: it has a route of a rule in one table at a *)
(* time, and it knows that table as long as it runs.                       *)
(***************************************************************************)
CONSTANT Rules

VARIABLES
  known,  \* [Rules -> tables the daemon takes the rule to be in]
  route   \* [Rules -> tables that hold a route of it]

managed_vars == <<known, route>>

Unchanged(r) == known'[r] = known[r] /\ route'[r] = route[r]

\* A rule that is nowhere is applied to a table.  Its route is not added in a dry
\* run, nor when an earlier process left one there.
Applied(r) ==
  /\ known[r] = {} /\ route[r] = {}
  /\ \E t \in known'[r] : known'[r] = {t}
  /\ route'[r] \subseteq known'[r]

\* A removal forgets the rule with its route.
Removed(r) == known[r] # {} /\ known'[r] = {} /\ route'[r] = {}

\* The kernel drops routes on its own, and the daemon does not learn of it.
Dropped(r) == route'[r] = {} /\ known'[r] = known[r]

\* An orderly stop forgets every rule and leaves the routes.
Stopped(r) == known'[r] = {} /\ route'[r] = route[r]

\* When the process is gone its routes are nobody's.
Gone(r) == known'[r] = {} /\ route'[r] = {}

ManagedInit == known = [r \in Rules |-> {}] /\ route = [r \in Rules |-> {}]

ManagedNext ==
  \/ \A r \in Rules : Unchanged(r) \/ Applied(r)
  \/ \A r \in Rules : Unchanged(r) \/ Removed(r)
  \/ \A r \in Rules : Unchanged(r) \/ Dropped(r)
  \/ \A r \in Rules : Stopped(r)
  \/ \A r \in Rules : Gone(r)

ManagedSpec == ManagedInit /\ [][ManagedNext]_managed_vars
===============================================================================
