------------------------------- MODULE DefnReader -------------------------------
(***************************************************************************)
(* Reading the definition file: openDefFile of the window's thread and the *)
(* Reader threads it starts.  A Reader goes through the file line by line  *)
(* with a state that is a global variable, `status`, which a Reader        *)
(* started by a later IDM_LOAD_DEF shares with it.                         *)
(*                                                                         *)
(* Of a line the model keeps its kind, which the first character decides,  *)
(* and its place in the file: <<d, s, k>> is the k-th line of section s of *)
(* the d-th definition, or of the d-th table of names.                     *)
(* `flag` is left out: it is always CLEAR.  So are the lines that begin     *)
(* with a blank, which are skipped, a file that does not open, and what    *)
(* two push_backs at one time do to `tables`.                              *)
(***************************************************************************)
EXTENDS Naturals, Sequences

CONSTANTS
  Shapes,       \* the files considered: what they declare, what they have
  OtherCounts,  \* numbers of definitions a file chosen by the user declares
  MaxLoads      \* bound: how many times a file is opened

NO_IGNORELN == 4

Sections == {"folder", "file", "reg"}
Shape == [descr : BOOLEAN, folder : Nat, file : Nat, reg : Nat]

ASSUME ReaderAssumption ==
  /\ \A s \in Shapes : /\ s.declared \in Nat
                        /\ s.defs \in Seq(Shape) /\ s.tables \in Seq(Nat)
  /\ OtherCounts \in SUBSET Nat
  /\ MaxLoads \in Nat \ {0}

Readers == 1..MaxLoads
Texts == Nat \X {"name", "descr", "folder", "file", "reg", "table"} \X Nat
NoText == <<>>

\* The state of a defObj.
Defns == [dectName : Texts \cup {NoText}, description : Texts \cup {NoText},
          folder : Seq(Texts), file : Seq(Texts), reg : Seq(Texts)]
NoDefn == [dectName |-> NoText, description |-> NoText,
           folder |-> <<>>, file |-> <<>>, reg |-> <<>>]

Statuses == {"IGNOREL", "DEFN_HEADER", "PARS_FOLDER", "PARS_DSCR",
             "STRING_TABLE", "PARS_FILE", "PARS_REG"}

-------------------------------------------------------------------------------
(* The file f, a line at a time.  A blank line follows the definitions, and     *)
(* another the last table.                                                      *)

Start == <<0, "header", 0>>
End == <<0, "end", 1>>

Parts == {"header", "name", "open", "descr", "gap", "flags", "table", "end"}
           \cup Sections

Entries(f, d, s) == CASE s = "descr"     -> 1
                      [] s \in Sections -> f.defs[d][s]
                      [] s = "table"     -> f.tables[d]

\* What closes a section.
Closing == [descr |-> "semi", folder |-> "semi", file |-> "semi",
            reg |-> "close", table |-> "dollar"]

Kind(f, p) ==
  CASE p[2] \in {"header", "name", "open", "flags"} -> p[2]
    [] p[2] \in {"gap", "end"} -> "blank"
    [] p[2] \in DOMAIN Closing ->
         IF p[3] > Entries(f, p[1], p[2]) THEN Closing[p[2]]
         ELSE IF p[2] = "descr" /\ ~f.defs[p[1]].descr THEN "blank"
         ELSE "text"

Text(f, p) == IF Kind(f, p) \in {"name", "text"} THEN p ELSE NoText

Definition(f, d) == IF d <= Len(f.defs) THEN <<d, "name", 1>> ELSE <<0, "gap", 1>>
Table(f, d) == IF d <= Len(f.tables) THEN <<d, "table", 1>> ELSE End

\* The line behind a section, and behind any line.
Leaving(f, d, s) == CASE s = "descr"  -> <<d, "folder", 1>>
                      [] s = "folder" -> <<d, "file", 1>>
                      [] s = "file"   -> <<d, "reg", 1>>
                      [] s = "reg"    -> Definition(f, d + 1)
                      [] s = "table"  -> Table(f, d + 1)

Behind(f, p) ==
  CASE p[2] = "header" -> IF p[3] < NO_IGNORELN THEN <<0, "header", p[3] + 1>>
                          ELSE Definition(f, 1)
    [] p[2] = "name"   -> <<p[1], "open", 1>>
    [] p[2] = "open"   -> <<p[1], "descr", 1>>
    [] p[2] \in DOMAIN Closing ->
         IF p[3] <= Entries(f, p[1], p[2]) THEN <<p[1], p[2], p[3] + 1>>
         ELSE Leaving(f, p[1], p[2])
    [] p[2] = "gap"    -> <<0, "flags", 1>>
    [] p[2] = "flags"  -> Table(f, 1)
    [] p[2] = "end"    -> End

\* The places of the file.
InFile(f, p) ==
  /\ p \in Nat \X Parts \X Nat
  /\ CASE p[2] = "header" -> p[1] = 0 /\ p[3] <= NO_IGNORELN
       [] p[2] \in {"gap", "flags", "end"} -> p[1] = 0 /\ p[3] = 1
       [] p[2] \in {"name", "open"} -> p[1] \in 1..Len(f.defs) /\ p[3] = 1
       [] p[2] \in DOMAIN Closing ->
            /\ p[1] \in 1..Len(IF p[2] = "table" THEN f.tables ELSE f.defs)
            /\ p[3] \in 1..Entries(f, p[1], p[2]) + 1

-------------------------------------------------------------------------------
VARIABLES
  shape,                      \* the file on the disk
  loads,                      \* files opened so far
  status,                     \* global, of all Readers
  tables,                     \* field of cSystem
  pc, seen,                   \* of each Reader: its point, the status it read
  pos, lnIndex, defIndex,     \* of each Reader: the last line, two of its fields
  tmp,                        \* of each Reader: local of run()
  nDefn, defns,               \* of each Reader: the array openDefFile made
  overrun,                    \* Readers that wrote past their array
  overlapped,                 \* Readers that have run beside another
  posted                      \* WM_READ_READY messages: the lParam

fileVars == <<shape, loads, nDefn, overlapped>>
vars == <<fileVars, status, tables, pc, seen, pos, lnIndex, defIndex, tmp,
          defns, overrun, posted>>

-------------------------------------------------------------------------------
TypeOK ==
  /\ shape \in Shapes
  /\ loads \in 0..MaxLoads
  /\ status \in Statuses
  /\ tables \in Seq(Seq(Texts))
  /\ pc \in [Readers -> {"off", "getline", "act", "done"}]
  /\ seen \in [Readers -> Statuses]
  /\ pos \in [Readers -> Nat \X Parts \X Nat]
  /\ \A r \in Readers : InFile(shape, pos[r])
  /\ lnIndex \in [Readers -> Nat \ {0}]
  /\ defIndex \in [Readers -> Nat]
  /\ tmp \in [Readers -> Seq(Texts)]
  /\ nDefn \in [Readers -> Nat]
  /\ DOMAIN defns = Readers
  /\ \A r \in Readers : defns[r] \in [1..nDefn[r] -> Defns]
  /\ overrun \in SUBSET Readers
  /\ overlapped \in SUBSET Readers
  /\ posted \in Seq(Nat)

Init ==
  /\ shape \in Shapes
  /\ loads = 0
  /\ status = "IGNOREL"
  /\ tables = <<>>
  /\ pc = [r \in Readers |-> "off"]
  /\ seen = [r \in Readers |-> "IGNOREL"]
  /\ pos = [r \in Readers |-> Start]
  /\ lnIndex = [r \in Readers |-> 1]
  /\ defIndex = [r \in Readers |-> 0]
  /\ tmp = [r \in Readers |-> <<>>]
  /\ nDefn = [r \in Readers |-> 0]
  /\ defns = [r \in Readers |-> <<>>]
  /\ overrun = {}
  /\ overlapped = {}
  /\ posted = <<>>

-------------------------------------------------------------------------------
(* The window's thread. *)

Running == {r \in Readers : pc[r] \in {"getline", "act"}}

\* openDefFile: the array has the size that line 2 of the chosen file declares.
\* The Reader opens defn.defn, whatever file was chosen.
openDefFile ==
  LET r == loads + 1
  IN  /\ loads < MaxLoads
      /\ loads' = r
      /\ \E n \in IF loads = 0 THEN {shape.declared} ELSE OtherCounts :
           /\ nDefn' = [nDefn EXCEPT ![r] = n]
           /\ defns' = [defns EXCEPT ![r] = [d \in 1..n |-> NoDefn]]
      /\ pc' = [pc EXCEPT ![r] = "getline"]
      /\ overlapped' = IF Running = {} THEN overlapped
                       ELSE overlapped \cup Running \cup {r}
      /\ UNCHANGED <<shape, status, tables, seen, pos, lnIndex, defIndex, tmp,
                     overrun, posted>>

-------------------------------------------------------------------------------
(* Reader::run.  A line is one step, or two where it accesses the global twice. *)
(* An operator named ...Not is a slip of the one after it; no specification     *)
(* uses it.                                                                     *)

Line(r) == Behind(shape, pos[r])
HereTextNot(r) == Text(shape, Line(r))
HereText(r) == Text(shape, pos[r])
HereKind(r) == Kind(shape, pos[r])

\* getline, for a line of one of these kinds behind the header.
Getline(r, kinds, q) ==
  /\ pc[r] = "getline"
  /\ pos[r] # End
  /\ lnIndex[r] > NO_IGNORELN
  /\ Kind(shape, Line(r)) \in kinds
  /\ pos' = [pos EXCEPT ![r] = Line(r)]
  /\ lnIndex' = [lnIndex EXCEPT ![r] = @ + 1]
  /\ pc' = [pc EXCEPT ![r] = q]

\* (defns + defIndex)->...: past the array the write destroys something else,
\* which `overrun` remembers and the model does not say.
Write(r, field, v) ==
  IF defIndex[r] < nDefn[r]
  THEN /\ defns' = [defns EXCEPT ![r][defIndex[r] + 1][field] = v]
       /\ UNCHANGED overrun
  ELSE /\ overrun' = overrun \cup {r}
       /\ UNCHANGED defns

Push(r, field, t) ==
  IF defIndex[r] < nDefn[r]
  THEN Write(r, field, Append(defns[r][defIndex[r] + 1][field], t))
  ELSE Write(r, field, t)

\* The first four lines: version, declared number, owner, date.
HeaderLine(r) ==
  /\ pc[r] = "getline"
  /\ lnIndex[r] <= NO_IGNORELN
  /\ pos' = [pos EXCEPT ![r] = Line(r)]
  /\ lnIndex' = [lnIndex EXCEPT ![r] = @ + 1]
  /\ status' = "DEFN_HEADER"
  /\ UNCHANGED <<fileVars, tables, pc, seen, defIndex, tmp, defns, overrun,
                 posted>>

\* '"': the test of the status is an assignment.
NameLine(r) ==
  /\ Getline(r, {"name"}, "getline")
  /\ status' = "DEFN_HEADER"
  /\ Write(r, "dectName", Text(shape, Line(r)))
  /\ UNCHANGED <<fileVars, tables, seen, defIndex, tmp, posted>>

\* Slip: the index stays.
CloseLineNot(r) ==
  /\ Getline(r, {"close"}, "getline")
  /\ status' = "DEFN_HEADER"
  /\ UNCHANGED <<fileVars, tables, seen, defIndex, tmp, defns, overrun, posted>>

\* Slip: the index is one for all Readers, as the status is.
CloseLineSharedNot(r) ==
  /\ Getline(r, {"close"}, "getline")
  /\ status' = "DEFN_HEADER"
  /\ defIndex' = [u \in Readers |-> IF u \in Running THEN defIndex[u] + 1 ELSE defIndex[u]]
  /\ UNCHANGED <<fileVars, tables, seen, tmp, defns, overrun, posted>>

\* '}'.
CloseLine(r) ==
  /\ Getline(r, {"close"}, "getline")
  /\ status' = "DEFN_HEADER"
  /\ defIndex' = [defIndex EXCEPT ![r] = @ + 1]
  /\ UNCHANGED <<fileVars, tables, seen, tmp, defns, overrun, posted>>

\* Slip: the index advances here, too.
OpenLineNot(r) ==
  /\ Getline(r, {"open"}, "act")
  /\ status' = "DEFN_HEADER"
  /\ defIndex' = [defIndex EXCEPT ![r] = @ + 1]
  /\ UNCHANGED <<fileVars, tables, seen, tmp, defns, overrun, posted>>

\* '{', an assignment again, then PARS_DSCR in OpenAct.
OpenLine(r) ==
  /\ Getline(r, {"open"}, "act")
  /\ status' = "DEFN_HEADER"
  /\ UNCHANGED <<fileVars, tables, seen, defIndex, tmp, defns, overrun, posted>>

\* "$FLAGS".
FlagsLine(r) ==
  /\ Getline(r, {"flags"}, "getline")
  /\ status' = "STRING_TABLE"
  /\ UNCHANGED <<fileVars, tables, seen, defIndex, tmp, defns, overrun, posted>>

\* ';', another '$' or an entry: what to do depends on the status.
OtherLine(r) ==
  /\ Getline(r, {"semi", "dollar", "text", "blank"}, "act")
  /\ seen' = [seen EXCEPT ![r] = status]
  /\ UNCHANGED <<fileVars, status, tables, defIndex, tmp, defns, overrun,
                 posted>>

Act(r, kinds) ==
  /\ pc[r] = "act"
  /\ HereKind(r) \in kinds
  /\ pc' = [pc EXCEPT ![r] = "getline"]
  /\ UNCHANGED <<fileVars, seen, pos, lnIndex, defIndex, posted>>

OpenAct(r) ==
  /\ Act(r, {"open"})
  /\ status' = "PARS_DSCR"
  /\ UNCHANGED <<tables, tmp, defns, overrun>>

\* What follows a section.  The slip goes from the description to the files.
AfterNot(s) == IF s \in {"PARS_DSCR", "PARS_FOLDER"} THEN "PARS_FILE" ELSE "PARS_REG"
After(s) == CASE s = "PARS_DSCR"   -> "PARS_FOLDER"
              [] s = "PARS_FOLDER" -> "PARS_FILE"
              [] s = "PARS_FILE"   -> "PARS_REG"

SemiAct(r) ==
  /\ Act(r, {"semi"})
  /\ status' = IF seen[r] \in {"PARS_DSCR", "PARS_FOLDER", "PARS_FILE"}
               THEN After(seen[r]) ELSE status
  /\ UNCHANGED <<tables, tmp, defns, overrun>>

\* What tmp.clear() leaves; the slip forgets it.
ClearedNot(r) == tmp[r]
Cleared(r) == <<>>

DollarAct(r) ==
  /\ Act(r, {"dollar"})
  /\ IF seen[r] = "STRING_TABLE"
     THEN /\ tables' = Append(tables, tmp[r])
          /\ tmp' = [tmp EXCEPT ![r] = Cleared(r)]
     ELSE UNCHANGED <<tables, tmp>>
  /\ UNCHANGED <<status, defns, overrun>>

\* An entry.  A blank one is dropped, except in a table, where it is kept.
EntryAct(r) ==
  /\ Act(r, {"text", "blank"})
  /\ CASE seen[r] = "STRING_TABLE" ->
            /\ tmp' = [tmp EXCEPT ![r] =
                         Append(@, IF HereKind(r) = "text" THEN HereText(r)
                                   ELSE <<0, "table", 0>>)]
            /\ UNCHANGED <<defns, overrun>>
       [] seen[r] = "PARS_FOLDER" /\ HereKind(r) = "text" ->
            Push(r, "folder", HereText(r)) /\ UNCHANGED tmp
       [] seen[r] = "PARS_FILE" /\ HereKind(r) = "text" ->
            Push(r, "file", HereText(r)) /\ UNCHANGED tmp
       [] seen[r] = "PARS_REG" /\ HereKind(r) = "text" ->
            Push(r, "reg", HereText(r)) /\ UNCHANGED tmp
       [] seen[r] = "PARS_DSCR" /\ HereKind(r) = "text" ->
            Write(r, "description", HereText(r)) /\ UNCHANGED tmp
       [] OTHER -> UNCHANGED <<tmp, defns, overrun>>
  /\ UNCHANGED <<status, tables>>

\* The end of the file.
Finish(r) ==
  /\ pc[r] = "getline"
  /\ pos[r] = End
  /\ pc' = [pc EXCEPT ![r] = "done"]
  /\ posted' = Append(posted, defIndex[r])
  /\ UNCHANGED <<fileVars, status, tables, seen, pos, lnIndex, defIndex, tmp,
                 defns, overrun>>

-------------------------------------------------------------------------------
run(r) ==
  \/ HeaderLine(r) \/ NameLine(r) \/ CloseLine(r) \/ OpenLine(r) \/ FlagsLine(r)
  \/ OtherLine(r) \/ OpenAct(r) \/ SemiAct(r) \/ DollarAct(r) \/ EntryAct(r)
  \/ Finish(r)

Next == openDefFile \/ \E r \in Readers : run(r)

Spec == Init /\ [][Next]_vars
================================================================================
