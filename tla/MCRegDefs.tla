------------------------------- MODULE MCRegDefs -------------------------------
(***************************************************************************)
(* Small definitions for the runs of RegDefs: one of two lines, alone or   *)
(* followed by one of a single line.  Among the lines are one path under   *)
(* two roots, a root the code does not know, a line without a path,        *)
(* without values, with two, and with an equals sign in its contents.      *)
(***************************************************************************)
EXTENDS RegDefsProperties

CONSTANTS a, b,      \* paths
          n1, n2, c  \* two names, and contents

MCPaths == {a, b}
MCParts == {n1, n2, c}

Ends == { <<>>, << <<n1, c>> >>, << <<n2, c>> >>, << <<n1, c>>, <<n2, c>> >>,
          << <<n2, c, n1>> >> }

MCLines ==
  {[root |-> r[1], path |-> r[2], texts |-> t] :
     r \in {<<"HKLM", a>>, <<"HKLM", b>>, <<"HKCU", a>>, <<"HKCU", NoPath>>,
            <<"other", a>>},
     t \in Ends}

OneLine == {<<l>> : l \in MCLines}
TwoLines == {<<k, l>> : k, l \in MCLines}
MCInputs ==
  {<<d, e>> : d \in TwoLines, e \in OneLine} \cup {<<d>> : d \in TwoLines}

MCJunk == {2, 7}
================================================================================
