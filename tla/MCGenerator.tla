----------------------------- MODULE MCGenerator -----------------------------
(* Every acyclic graph of three libraries, of which any may be built from a  *)
(* BUILD file, be named by config.yaml, be a proto library, or be unknown;   *)
(* a package of the YAML files for none, some or all of them.                *)
EXTENDS Generator, TLC

CONSTANTS a, b, c

MCLibs == {a, b, c}
MCDepLists == {<<>>} \cup [1..1 -> MCLibs] \cup {q \in [1..2 -> MCLibs] : q[1] # q[2]}

MCConfigs ==
  [methods : {[l \in MCLibs |-> IF l \in P THEN {"New"} ELSE {}]
                : P \in {MCLibs \ {l} : l \in MCLibs} \cup {MCLibs}},
   imported : {MCLibs}, renamed : {{}} \cup {{l} : l \in MCLibs}]

MCLeftovers == {{}, Files}

Symmetry == Permutations(MCLibs)
=============================================================================
