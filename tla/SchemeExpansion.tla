--------------------------- MODULE SchemeExpansion ---------------------------
(* The nodes that SchemeSetup makes, against the definition they come from,    *)
(* in the order of the YAML.                                                   *)
EXTENDS SchemeSetup

\* What a group stands for: a reference, when there is one, else its own fields.
Target(structures, g) ==
  IF g.ref = "" THEN g.fields
  ELSE IF g.ref \in DOMAIN structures THEN structures[g.ref] ELSE <<>>

\* A field and, if it is a composite one, all that its groups stand for, expanded.
Unfolded(structures, f, expand) ==
  <<f>> \o (IF f.kind \notin Composites THEN <<>>
            ELSE FlattenSeq([j \in DOMAIN Groups(f) |->
                               expand[Target(structures, Groups(f)[j])]]))

\* The fields of a definition with everything they lead to, as many levels of it.
Expansion(structures) ==
  LET level[d \in Nat] ==
        [fields \in Seq(Fields) |->
           IF d = 0 THEN <<>>
           ELSE FlattenSeq([i \in DOMAIN fields |->
                              Unfolded(structures, fields[i], level[d - 1])])]
  IN level

\* The nodes of a protocol are always those of its whole definition, a reference
\* taking precedence over inline fields; a failed or repeated Setup never leaves
\* a part of them, nor nodes of a protocol whose rule was refused (node.go:133-171).
\* It is whole after MaxDepth levels if one more level adds nothing.
NodesAreExpansion ==
  \A i \in DOMAIN parsed : parsed[i].set =>
    \A d \in {MaxDepth, MaxDepth + 1} :
      [j \in DOMAIN parsed[i].nodes |-> parsed[i].nodes[j].field]
        = Expansion(scheme.structures)[d][scheme.protocols[i].fields]
==============================================================================
