------------------------------- MODULE MCStartup -------------------------------
(***************************************************************************)
(* The files the start-up and the Readers are checked on: one or two       *)
(* definitions with and without entries in each section, up to two tables, *)
(* the first or second of them empty, and files with fewer and with more   *)
(* definitions than they declare.                                          *)
(***************************************************************************)
EXTENDS Startup

CONSTANT Small  \* the most entries of a section

MCShape == [descr : BOOLEAN, folder : 0..Small, file : 0..Small, reg : 0..Small]
Short == [descr |-> FALSE, folder |-> 0, file |-> 1, reg |-> 1]
Bare == [descr |-> FALSE, folder |-> 0, file |-> 1, reg |-> 0]
Empty == [descr |-> FALSE, folder |-> 0, file |-> 0, reg |-> 0]

Declaring(n, D, T) ==
  {[declared |-> n, defs |-> d, tables |-> t] : d \in D, t \in T}

OneTable == <<1>>
MCTables == {OneTable, <<2, 0>>, <<0, 1>>}
MCShapes ==
  Declaring(2, {<<s, Bare>> : s \in MCShape}, MCTables)
    \cup Declaring(2, {<<Bare, Empty>>}, {OneTable})
    \cup Declaring(1, {<<Short>>}, MCTables)
    \cup Declaring(2, {<<Short>>, <<Bare>>}, {OneTable})
    \cup Declaring(1, {<<Short, Bare>>}, {OneTable})

\* The file the user chooses declares one or two definitions; with one, the second
\* Reader leaves its array where defn.defn has two.
MCCounts == {1, 2}

\* An exit code, and the one that means the thread still runs.
MCReturns == {0, STILL_ACTIVE}

\* Bound for a second Reader: only on one file of two definitions, when cSystem is
\* out of the way, and beside the first only with an array of two.
SecondReader ==
  loads > 1 => /\ shape \in Declaring(2, {<<Bare, Empty>>}, {OneTable})
               /\ sysRet = 0
               /\ nDefn[2] = 1 => overlapped = {}
================================================================================
