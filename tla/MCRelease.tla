----------------------------- MODULE MCRelease -----------------------------
(* The scope, the VM tests, a gate with a service and one with two packets.  *)
(* In MCTrees a part that was deleted comes back; in MovedTrees one stays     *)
(* while the files around it move.                                            *)
EXTENDS Release

MCArea == [old |-> "source", lib |-> "source", core |-> "source", seal |-> "package"]
MCExplicit == [p \in DOMAIN MCArea |-> "none"]

Plain == [domain |-> FALSE, forbidden |-> FALSE]
Items(paths) == [c \in ItemClasses |->
                   <<[path |-> paths[1], required |-> c = "generated_artifacts"]>>]
Binding(first, pattern, mentions, uses) ==
  [first |-> first, mentions |-> mentions, uses |-> uses,
   constructor |-> "constructor" \in pattern, lambda |-> "lambda" \in pattern,
   list |-> "list" \in pattern]
Flake(more) ==
  [crates |-> {"habitat"} \cup more,
   binding |-> [mk |-> Binding("args", {"lambda", "constructor"}, {"deps"}, {"coreutils"}),
                deps |-> Binding("with", {"list"}, {"pkgs"}, {"python"}),
                image |-> Binding("mk", {}, {"mk", "deps"}, {})],
   output |-> [boot |-> {"image", "mk"}]]
Version(paths, lock, more) ==
  [paths |-> paths, text |-> [i \in DOMAIN paths |-> Plain], items |-> Items(paths),
   sealed |-> TRUE, lock |-> lock, flake |-> Flake(more)]

MCTrees == <<Version(<<"lib", "seal">>, 1, {}), Version(<<"lib", "old">>, 2, {})>>
MovedTrees == <<Version(<<"lib", "old">>, 1, {"robot"}), Version(<<"old", "seal">>, 1, {"robot"}),
                Version(<<"core", "old">>, 1, {})>>

MCGates == <<"V-SCOPE", "V-BOOT", "V-ROLLBACK", "V-STATE", "V-ABI">>
MCPackets == [g \in {"V-STATE", "V-ABI"} |-> IF g = "V-ABI" THEN <<"w03", "w09">> ELSE <<"w02">>]
MCWork == <<[id |-> "W00", gates |-> {"V-SCOPE"}, needs |-> {}],
            [id |-> "W02", gates |-> {"V-STATE"}, needs |-> {"W00"}],
            [id |-> "W13", gates |-> {"V-ABI"}, needs |-> {"W00", "W02"}]>>
ScopeOnly == <<"V-SCOPE">>
ScopeWork == <<[id |-> "W00", gates |-> {"V-SCOPE"}, needs |-> {}]>>

Event(m, generation, decision) ==
  [health |-> "PRE_OPERATIONAL", machine |-> m, generation |-> generation, decision |-> decision]
Boot(m) == Event(m, 1, "none")
Back(generation) == <<Boot(1), Event(1, generation, "none"), Event(1, 1, "ROLLED_BACK")>>
MCLogs == {<<Boot(1), Boot(1)>>, <<Boot(1), Boot(2)>>, <<Boot(1)>>, Back(1), Back(2)}
=============================================================================
