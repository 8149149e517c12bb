-------------------------- MODULE DefnReaderProperties --------------------------
(***************************************************************************)
(* What a Reader has to guarantee of the definitions and tables it stores. *)
(***************************************************************************)
EXTENDS DefnReader

Texted(d, s, n) == [k \in 1..n |-> <<d, s, k>>]

\* What a definition of the file says, as a defObj.
Written(d) ==
  LET def == shape.defs[d]
  IN  [dectName    |-> <<d, "name", 1>>,
       description |-> IF def.descr THEN <<d, "descr", 1>> ELSE NoText,
       folder |-> Texted(d, "folder", def.folder),
       file   |-> Texted(d, "file", def.file),
       reg    |-> Texted(d, "reg", def.reg)]

Alone(r) == pc[r] = "done" /\ r \notin overlapped

\* A Reader that had the globals for itself fills an array that is long enough
\* with what the file says, also one that begins where another has left them; and
\* it reports the number openDefFile compares with the declared one.
ParsedAsWritten ==
  \A r \in Readers : Alone(r) =>
    /\ defIndex[r] = Len(shape.defs)
    /\ Len(shape.defs) <= nDefn[r] =>
         \A d \in 1..Len(shape.defs) : defns[r][d] = Written(d)

\* isValid takes the i-th table for the i-th folder: after the first Reader the
\* tables are those of the file, in its order, and a later one adds behind them.
TablesAsWritten ==
  Alone(1) =>
    /\ Len(tables) >= Len(shape.tables)
    /\ \A i \in 1..Len(shape.tables) :
         tables[i] = Texted(i, "table", shape.tables[i])

\* "create an array of defn object based on no of defns read from the file": the
\* number that is read is the one the chosen file declares, and no line of run()
\* compares defIndex with it.  A Reader that had the globals for itself leaves its
\* array exactly when defn.defn has more definitions than that: it then writes the
\* name of the first definition too many to memory that is not the array's.
OverrunWhenShort ==
  \A r \in Readers : Alone(r) => (r \in overrun <=> nDefn[r] < Len(shape.defs))

\* Two Readers on one `status` may lose an entry or take it for one of another
\* section, but, as long as none has left its array, no entry gets into another
\* definition, nor does a name of a table become one to delete.  (Where the array
\* is longer than the file has definitions, it may become one behind the last.)
NotMixed ==
  overrun = {} =>
    \A r \in Readers : \A d \in 1..nDefn[r] : \A s \in Sections :
      d <= Len(shape.defs) => \A i \in 1..Len(defns[r][d][s]) :
        defns[r][d][s][i][1] = d /\ defns[r][d][s][i][2] # "table"
================================================================================
