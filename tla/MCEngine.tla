------------------------------- MODULE MCEngine -------------------------------
(* Instances of the engine on which a claim about it fails. *)
EXTENDS Engine

Rule(n, d, i, p) == [name |-> n, dest |-> d, via |-> i, priority |-> p]

viaEth  == Rule("viaEth", "v4a", "eth", 10)
viaWl   == Rule("viaWl",  "v6",  "wl",  20)
corp    == Rule("corp",   "v4b", "wl",  10)
home    == Rule("home",   "v4a", "wl",  10)

\* A second default rule for viaEth's destination, behind another interface.
backup  == Rule("backup", "v4a", "wl",  20)

MCRules == {viaEth, viaWl, corp, home, backup}

Cfg(ifs, rules, profiles, base) ==
  [interfaces |-> ifs, default_rules |-> rules, wifi_profiles |-> profiles,
   table_id_start |-> base, dry_run |-> FALSE]

NoProfiles == [s \in {} |-> <<>>]

\* A reload drops an interface, and another one takes it up again.
InterfaceConfigs ==
  { Cfg({"eth"}, <<>>, NoProfiles, 1), Cfg({"wl"}, <<>>, NoProfiles, 1),
    Cfg({"eth", "wl"}, <<>>, NoProfiles, 1) }

\* A reload drops a rule.
RuleConfigs == { Cfg({"eth"}, <<viaEth>>, NoProfiles, 1), Cfg({"eth"}, <<>>, NoProfiles, 1) }

OneRule == { Cfg({"eth", "wl"}, <<viaEth>>, NoProfiles, 1) }

SameDestination == { Cfg({"eth", "wl"}, <<viaEth, backup>>, NoProfiles, 1) }

V6Rule == { Cfg({"eth", "wl"}, <<viaWl>>, NoProfiles, 1) }

\* The user edits table_id_start between two runs of the daemon.
BaseConfigs == { Cfg({"eth"}, <<viaEth>>, NoProfiles, 1), Cfg({"eth"}, <<viaEth>>, NoProfiles, 3) }

ProfileConfig ==
  { Cfg({"wl"}, <<>>, [s \in {"Corp", "Home"} |-> IF s = "Corp" THEN <<corp>> ELSE <<home>>], 1) }
=============================================================================
