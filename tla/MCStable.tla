------------------------------- MODULE MCStable -------------------------------
(* Instances of the engine whose configurations agree with each other. *)
EXTENDS StableEngine

Rule(n, d, i, p) == [name |-> n, dest |-> d, via |-> i, priority |-> p]

viaEth == Rule("viaEth", "v4a", "eth", 10)
viaWl  == Rule("viaWl",  "v6",  "wl",  20)
domain == Rule("domain", Unresolved, "eth", 30)
corp   == Rule("corp",   "v4b", "wl",  10)

MCRules == {viaEth, viaWl, domain, corp}

Cfg(ifs, rules, profiles, dry) ==
  [interfaces |-> ifs, default_rules |-> rules, wifi_profiles |-> profiles,
   table_id_start |-> 1, dry_run |-> dry]

NoProfiles == [s \in {} |-> <<>>]

\* A reload or restart drops an interface and a rule, or changes their order.
DefaultConfigs ==
  { Cfg({"eth", "wl"}, <<viaEth, viaWl>>, NoProfiles, FALSE),
    Cfg({"wl"}, <<viaWl, domain>>, NoProfiles, FALSE) }

\* A WiFi profile comes and goes, and the runs that start without it are dry runs.
WifiConfigs ==
  { Cfg({"wl"}, <<viaEth>>, [s \in {"Corp"} |-> <<corp>>], FALSE),
    Cfg({"eth", "wl"}, <<>>, NoProfiles, TRUE) }
=============================================================================
