------------------------------ MODULE MCConfigWatch ------------------------------
(* Files for the hot reload: two valid ones, and some that are refused. *)
EXTENDS ConfigWatch

Rule(name, kind, value) == [name |-> name, match_on |-> [kind |-> kind, value |-> value]]

Good ==
  [global |-> [monitor_interval |-> 5, log_level |-> "INFO", table_id_start |-> 100],
   interfaces |-> [eth |-> [match_by |-> "eth0"]],
   wifi_profiles |-> [Corp |-> [interface |-> "wlan0",
                                rules |-> <<Rule("corp", "domain_pattern", <<"a", Star>>)>>]],
   default_rules |-> <<Rule("r", "domain_pattern", <<Star, "b">>),
                       Rule("q", "domain", <<Star, "b">>)>>]

WithPattern(p) == [Good EXCEPT !.default_rules = <<Rule("r", "domain_pattern", p)>>]

Twice == [Good EXCEPT !.default_rules[2].name = "r"]

Wifi(p) == [Good EXCEPT !.wifi_profiles.Corp.rules = <<Rule("r", "domain_pattern", p)>>]

MCToml ==
  [good    |-> <<Good>>,
   all     |-> <<WithPattern(<<Star>>)>>,
   twice   |-> <<Twice>>,
   garbage |-> <<>>,
   tables  |-> <<[Good EXCEPT !.global.table_id_start = 300]>>,
   inner   |-> <<WithPattern(<<Star, "a", Star>>)>>,
   wifi    |-> <<Wifi(<<"a", Star, Star>>)>>]

\* What TLC writes to the file.
SomeFiles == {"good", "all", "garbage", "tables", "inner", "wifi"}

\* Two contents are enough for what the documents claim.
TwoFiles == {"good", "all"}

\* One has two rules of the same name.
NamedTwice == {"good", "twice"}

MCDomains == UNION {[1 .. n -> {"a", "b"}] : n \in 0 .. 3}
===============================================================================
