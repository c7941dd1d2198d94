--------------------------- MODULE PolicyReloadMC ---------------------------
(* Small instances of PolicyReload. *)
EXTENDS PolicyReload

Rule(id, body) == [id |-> id, body |-> body]
Good(rules) == [parses |-> TRUE, rules |-> rules]
Bad == [parses |-> FALSE, rules |-> <<>>]
Config(default, boot) == [parses |-> TRUE, default |-> default, boot |-> boot]

SomePolicies == {Good(<<Rule("a", 1)>>), Good(<<Rule("a", 2)>>), Bad}
SomeConfigs == {Config("deny", 1), Config("allow", 2),
                [parses |-> FALSE, default |-> "deny", boot |-> 1]}
SomeProfile == <<Rule("a", 2), Rule("p", 1)>>
=============================================================================
