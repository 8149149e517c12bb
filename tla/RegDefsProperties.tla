--------------------------- MODULE RegDefsProperties ---------------------------
(***************************************************************************)
(* What fillRegs has to make of the definitions' registry lines, and what  *)
(* the comments on processReg say it makes of them.                        *)
(***************************************************************************)
EXTENDS RegDefs

-------------------------------------------------------------------------------
(* The lines read in the first pass so far. *)

Places == UNION {{d} \X (1..Len(input[d])) : d \in 1..Len(input)}

Read(p) ==
  \/ pass > 1 \/ (pass = 1 /\ def = 0)
  \/ p[1] < def \/ (p[1] = def /\ p[2] <= line)

LineAt(p) == input[p[1]][p[2]]

\* A line as it should be: one of the four roots, a path, name=contents.
WellFormed(l) ==
  /\ l.root # "other"
  /\ l.path # NoPath
  /\ \A k \in 1..Len(l.texts) : Len(l.texts[k]) = 2

\* No path is written under two roots.
RootsApart ==
  \A p, q \in Places :
    LineAt(p).path = LineAt(q).path => LineAt(p).root = LineAt(q).root

Recorded(l, n) ==
  \E k \in 1..Len(regVector) :
    /\ regVector[k].handle = Handle[l.root]
    /\ regVector[k].keyPath = l.path
    /\ Contains(regVector[k].values, n)

-------------------------------------------------------------------------------
(* Properties. *)

\* "construct a tmp obj and call this method": the first value of every line ends
\* up under the root and path the line gives, whatever lines come before it or
\* repeat it, unless its path is also written under another root.
FirstValueKept ==
  RootsApart /\ (\A p \in Places : WellFormed(LineAt(p))) =>
    \A p \in Places : Read(p) /\ LineAt(p).texts # <<>> =>
      Recorded(LineAt(p), LineAt(p).texts[1][1])

\* Nothing is recorded for deletion that no line of its own key names: no value
\* moves from the line, or the definition, it stands in to another.
NothingInvented ==
  RootsApart /\ (\A p \in Places : WellFormed(LineAt(p))) =>
    \A k \in 1..Len(regVector) : \A j \in 1..Len(regVector[k].values) :
      \E p \in Places :
        /\ Handle[LineAt(p).root] = regVector[k].handle
        /\ LineAt(p).path = regVector[k].keyPath
        /\ \E t \in 1..Len(LineAt(p).texts) :
             LineAt(p).texts[t][1] = regVector[k].values[j]

\* Thread 2 opens each key and queries each value of it once: no root and path is
\* recorded twice, however often and in whichever definitions the file writes it;
\* nor is a value recorded twice in its key, if no single line names one twice.
NoneTwice ==
  /\ \A k, m \in 1..Len(regVector) :
       /\ regVector[k].handle = regVector[m].handle
       /\ regVector[k].keyPath = regVector[m].keyPath
       => k = m
  /\ (\A p \in Places : IsInjective(NamesOfLine(LineAt(p)))) =>
       \A k \in 1..Len(regVector) : IsInjective(regVector[k].values)

\* Engine takes it that a second check adds no key and no value to regVector,
\* although its strings are cut by then: the second pass finds every key there.
SecondPassIdle == [][pass = 2 => UNCHANGED regVector]_vars

\* "if the return val of strtok is !NULL then continue to extract each time": every
\* value of a line is kept.
EveryValueKept ==
  RootsApart /\ (\A p \in Places : WellFormed(LineAt(p))) =>
    \A p \in Places : Read(p) =>
      \A t \in 1..Len(LineAt(p).texts) :
        Recorded(LineAt(p), LineAt(p).texts[t][1])
================================================================================
