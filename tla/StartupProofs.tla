----------------------------- MODULE StartupProofs -----------------------------
(***************************************************************************)
(* Proofs about the Readers and the start-up, for every file, every number *)
(* of definitions it declares and every number of files opened.            *)
(***************************************************************************)
EXTENDS Startup, SequenceTheorems, TLAPS

-------------------------------------------------------------------------------
(* What the state of a Reader has to do with its place in the file.         *)

\* The line that is treated next.
Due(r) == IF pc[r] = "act" THEN pos[r] ELSE Behind(shape, pos[r])

InDefns == {"name", "open", "descr"} \cup Sections

\* The definitions that have ended before line p.
Closed(f, p) == CASE p[2] = "header"  -> 0
                  [] p[2] \in InDefns -> p[1] - 1
                  [] p[2] \in {"gap", "flags", "table", "end"} -> Len(f.defs)

\* The status in which a line of a part finds a Reader that is alone.
Heading(s) == CASE s \in {"header", "name", "open", "gap", "flags"} -> "DEFN_HEADER"
                [] s = "descr"  -> "PARS_DSCR"
                [] s = "folder" -> "PARS_FOLDER"
                [] s = "file"   -> "PARS_FILE"
                [] s = "reg"    -> "PARS_REG"
                [] s \in {"table", "end"} -> "STRING_TABLE"

\* Where a Reader is, alone or not.
Placed(r) ==
  /\ pc[r] = "off" <=> loads < r
  /\ pc[r] = "off" => pos[r] = Start
  /\ pc[r] = "done" => pos[r] = End
  /\ pos[r][2] = "header" => pc[r] # "act" /\ lnIndex[r] = pos[r][3] + 1
  /\ pos[r][2] # "header" => lnIndex[r] > NO_IGNORELN
  /\ pc[r] = "act" => Kind(shape, pos[r]) \notin {"header", "name", "close", "flags"}
  /\ defIndex[r] = Closed(shape, Due(r))

PlaceInv == \A r \in Readers : Placed(r)

\* Two Readers that run at one time have both been told so.
AloneInv ==
  \A r, u \in Readers :
    r \in Running /\ u \in Running /\ r # u => r \in overlapped

\* The status is that of the next line.
Headed(r) ==
  /\ pos[r] # Start => status = Heading(Due(r)[2])
  /\ pc[r] = "act" /\ Kind(shape, pos[r]) # "open" => seen[r] = status

StatusInv == \A r \in Running \ overlapped : Headed(r)

-------------------------------------------------------------------------------
(* What has been stored when line p comes. *)

Later(s) == CASE s = "name"   -> {"open", "descr", "folder", "file", "reg"}
              [] s = "descr"  -> {"folder", "file", "reg"}
              [] s = "folder" -> {"file", "reg"}
              [] s = "file"   -> {"reg"}
              [] s = "reg"    -> {}

\* The name or section s of definition d is over.
Passed(p, d, s) ==
  \/ p[2] \in {"gap", "flags", "table", "end"}
  \/ p[2] \in InDefns /\ p[1] > d
  \/ p[2] \in Later(s) /\ p[1] = d

\* The entries of section s of definition d before line p.
Before(f, p, d, s) == IF Passed(p, d, s) THEN Entries(f, d, s)
                      ELSE IF p[1] = d /\ p[2] = s THEN p[3] - 1 ELSE 0

\* The object x is definition d as it is written before line p.
SoFar(f, x, d, p) ==
  /\ x.dectName = IF Passed(p, d, "name") THEN <<d, "name", 1>> ELSE NoText
  /\ x.description = IF Before(f, p, d, "descr") > 0 /\ f.defs[d].descr
                     THEN <<d, "descr", 1>> ELSE NoText
  /\ \A s \in Sections : x[s] = Texted(d, s, Before(f, p, d, s))

FilledInv ==
  \A r \in Readers \ overlapped : \A d \in 1..nDefn[r] :
    d <= Len(shape.defs) => SoFar(shape, defns[r][d], d, Due(r))

\* The tables that are complete before line p, and the entries of the next.
Ended(f, p) == CASE p[2] = "table" -> p[1] - 1
                 [] p[2] = "end"   -> Len(f.tables)
                 [] OTHER          -> 0

\* The names of the table that line p belongs to, before p.
Pending(p) == IF p[2] = "table" THEN Texted(p[1], "table", p[3] - 1) ELSE <<>>

TablesInv ==
  /\ pc[1] = "off" => tables = <<>> /\ tmp[1] = <<>>
  /\ 1 \notin overlapped =>
       /\ Len(tables) >= Ended(shape, Due(1))
       /\ \A i \in 1..Ended(shape, Due(1)) :
            tables[i] = Texted(i, "table", shape.tables[i])
       /\ pc[1] # "done" => Len(tables) = Ended(shape, Due(1))
       /\ Due(1)[2] # "end" => tmp[1] = Pending(Due(1))

\* A Reader that is alone leaves its array only if that is too short,
WithinInv == \A r \in overrun :
  /\ pc[r] # "off"
  /\ r \notin overlapped => nDefn[r] < Len(shape.defs)

\* and every Reader has left it that has come past the name of the first definition
\* the array has no room for.
BeyondInv ==
  \A r \in Readers :
    /\ nDefn[r] < Len(shape.defs)
    /\ Passed(Due(r), nDefn[r] + 1, "name")
    => r \in overrun

\* What the window knows.
ReportInv ==
  /\ loads = 0 => posted = <<>>
  /\ loads <= 1 => overlapped = {}
  /\ loads = 1 => \A i \in 1..Len(posted) :
                    pc[1] = "done" /\ posted[i] = Len(shape.defs)
  /\ wpc = "open" <=> loads = 0
  /\ enabled /\ loads = 1 => pc[1] = "done" /\ Len(shape.defs) = nDefn[1]
  /\ enabled => loads > 0
-------------------------------------------------------------------------------
(* Lines of a file. *)

USE DEF fileVars, vars, guiVars, startupVars, Start, End

\* The parts of a file are counted by numbers.
LEMMA FileTyped ==
  ASSUME NEW f \in Shapes
  PROVE  /\ Len(f.defs) \in Nat /\ Len(f.tables) \in Nat
         /\ \A d \in 1..Len(f.defs) : f.defs[d] \in Shape
         /\ \A d \in 1..Len(f.tables) : f.tables[d] \in Nat
<1>1. f.defs \in Seq(Shape) /\ f.tables \in Seq(Nat)
  BY ReaderAssumption
<1> QED BY <1>1, LenProperties

\* The sections of definitions, and that of a table.
LEMMA ClosingParts ==
  DOMAIN Closing = {"descr", "folder", "file", "reg", "table"}
  BY DEF Closing

\* The number of entries of a section the file has.
LEMMA EntriesTyped ==
  ASSUME NEW f \in Shapes, NEW d, NEW s \in DOMAIN Closing,
         d \in 1..Len(IF s = "table" THEN f.tables ELSE f.defs)
  PROVE  Entries(f, d, s) \in Nat
<1>1. CASE s = "table"
  <2>1. d \in 1..Len(f.tables)
    BY <1>1
  <2>2. Entries(f, d, s) = f.tables[d]
    BY <1>1 DEF Entries, Sections
  <2> QED BY <2>1, <2>2, FileTyped
<1>2. CASE s = "descr"
  BY <1>2 DEF Entries, Sections
<1>3. CASE s \in Sections
  <2>1. d \in 1..Len(f.defs)
    BY <1>3 DEF Sections
  <2>2. f.defs[d].folder \in Nat /\ f.defs[d].file \in Nat /\ f.defs[d].reg \in Nat
    BY <2>1, FileTyped DEF Shape
  <2>3. Entries(f, d, s) = f.defs[d][s]
    BY <1>3 DEF Entries, Sections
  <2> QED BY <1>3, <2>2, <2>3 DEF Sections
<1> QED BY <1>1, <1>2, <1>3, ClosingParts DEF Sections

\* Where a definition or a table would be, there is a line.
LEMMA NextIn ==
  ASSUME NEW f \in Shapes, NEW d \in Nat \ {0}
  PROVE  /\ InFile(f, Definition(f, d)) /\ InFile(f, Table(f, d))
         /\ Definition(f, d)[2] \in {"name", "gap"}
         /\ Table(f, d)[2] \in {"table", "end"}
<1>1. InFile(f, Definition(f, d)) /\ Definition(f, d)[2] \in {"name", "gap"}
  <2>1. CASE d <= Len(f.defs)
    <3>1. Definition(f, d) = <<d, "name", 1>> /\ d \in 1..Len(f.defs)
      BY <2>1, FileTyped DEF Definition
    <3> QED BY <3>1, ClosingParts DEF InFile, Parts, Sections
  <2>2. CASE ~(d <= Len(f.defs))
    <3>1. Definition(f, d) = <<0, "gap", 1>>
      BY <2>2 DEF Definition
    <3> QED BY <3>1, ClosingParts DEF InFile, Parts, Sections
  <2> QED BY <2>1, <2>2
<1>2. InFile(f, Table(f, d)) /\ Table(f, d)[2] \in {"table", "end"}
  <2>1. CASE d <= Len(f.tables)
    <3>1. Table(f, d) = <<d, "table", 1>> /\ d \in 1..Len(f.tables)
      BY <2>1, FileTyped DEF Table
    <3>2. Entries(f, d, "table") \in Nat
      BY <3>1, EntriesTyped, ClosingParts
    <3> QED BY <3>1, <3>2, ClosingParts DEF InFile, Parts, Sections
  <2>2. CASE ~(d <= Len(f.tables))
    <3>1. Table(f, d) = <<0, "end", 1>>
      BY <2>2 DEF Table
    <3> QED BY <3>1, ClosingParts DEF InFile, Parts, Sections
  <2> QED BY <2>1, <2>2
<1> QED BY <1>1, <1>2

\* A line belongs to a part, a definition or a table that the file has.
LEMMA PlaceIs ==
  ASSUME NEW f \in Shapes, NEW p, InFile(f, p)
  PROVE  /\ p[1] \in Nat /\ p[2] \in Parts /\ p[3] \in Nat
         /\ p = <<p[1], p[2], p[3]>>
         /\ p[2] = "header" => p[1] = 0 /\ p[3] <= 4
         /\ p[2] \in {"gap", "flags", "end"} => p[1] = 0 /\ p[3] = 1
         /\ p[2] \in {"name", "open"} => p[1] \in 1..Len(f.defs) /\ p[3] = 1
         /\ p[2] \in {"descr", "folder", "file", "reg"} => p[1] \in 1..Len(f.defs)
         /\ p[2] = "table" => p[1] \in 1..Len(f.tables)
         /\ p[2] \in DOMAIN Closing =>
              /\ Entries(f, p[1], p[2]) \in Nat
              /\ p[3] \in 1..Entries(f, p[1], p[2]) + 1
<1>1. /\ p[1] \in Nat /\ p[2] \in Parts /\ p[3] \in Nat
      /\ p = <<p[1], p[2], p[3]>>
  BY DEF InFile
<1>2. CASE p[2] \in {"header", "gap", "flags", "end", "name", "open"}
  BY <1>1, <1>2, ClosingParts DEF InFile, NO_IGNORELN
<1>3. CASE p[2] \in DOMAIN Closing
  <2>1. /\ p[1] \in 1..Len(IF p[2] = "table" THEN f.tables ELSE f.defs)
        /\ p[3] \in 1..Entries(f, p[1], p[2]) + 1
    BY <1>3, ClosingParts DEF InFile
  <2>2. Entries(f, p[1], p[2]) \in Nat
    BY <1>3, <2>1, EntriesTyped
  <2> QED BY <1>1, <1>3, <2>1, <2>2, ClosingParts
<1> QED BY <1>1, <1>2, <1>3, ClosingParts DEF Parts, Sections

\* What the first character of a line is, by its place.
LEMMA KindIs ==
  ASSUME NEW f \in Shapes, NEW p, InFile(f, p)
  PROVE  /\ p[2] \in {"header", "name", "open", "flags"} => Kind(f, p) = p[2]
         /\ p[2] \in {"gap", "end"} => Kind(f, p) = "blank"
         /\ p[2] \in {"descr", "folder", "file"} /\ p[3] > Entries(f, p[1], p[2])
              => Kind(f, p) = "semi"
         /\ p[2] = "reg" /\ p[3] > Entries(f, p[1], p[2]) => Kind(f, p) = "close"
         /\ p[2] = "table" /\ p[3] > Entries(f, p[1], p[2]) => Kind(f, p) = "dollar"
         /\ p[2] \in {"folder", "file", "reg", "table"}
              /\ ~(p[3] > Entries(f, p[1], p[2])) => Kind(f, p) = "text"
         /\ p[2] = "descr" /\ ~(p[3] > Entries(f, p[1], p[2])) =>
              Kind(f, p) = IF f.defs[p[1]].descr THEN "text" ELSE "blank"
         /\ Text(f, p) = IF Kind(f, p) \in {"name", "text"} THEN p ELSE NoText
<1>1. CASE p[2] \in {"header", "gap", "flags", "end", "name", "open"}
  BY <1>1, ClosingParts DEF Kind, Text
<1>2. CASE p[2] \in DOMAIN Closing
  <2>1. Kind(f, p) = IF p[3] > Entries(f, p[1], p[2]) THEN Closing[p[2]]
                     ELSE IF p[2] = "descr" /\ ~f.defs[p[1]].descr THEN "blank"
                     ELSE "text"
    BY <1>2, ClosingParts DEF Kind
  <2>2. /\ p[2] \in {"descr", "folder", "file"} => Closing[p[2]] = "semi"
        /\ p[2] = "reg" => Closing[p[2]] = "close"
        /\ p[2] = "table" => Closing[p[2]] = "dollar"
    BY DEF Closing
  <2> QED BY <1>2, <2>1, <2>2, ClosingParts DEF Text
<1> QED BY <1>1, <1>2, PlaceIs, ClosingParts DEF Parts, Sections

\* The line behind it.
LEMMA BehindIs ==
  ASSUME NEW f \in Shapes, NEW p, InFile(f, p)
  PROVE  /\ p[2] = "header" =>
              Behind(f, p) = IF p[3] < 4 THEN <<0, "header", p[3] + 1>>
                             ELSE Definition(f, 1)
         /\ p[2] = "name"  => Behind(f, p) = <<p[1], "open", 1>>
         /\ p[2] = "open"  => Behind(f, p) = <<p[1], "descr", 1>>
         /\ p[2] = "gap"   => Behind(f, p) = <<0, "flags", 1>>
         /\ p[2] = "flags" => Behind(f, p) = Table(f, 1)
         /\ p[2] = "end"   => Behind(f, p) = End
         /\ p[2] \in DOMAIN Closing /\ ~(p[3] > Entries(f, p[1], p[2])) =>
              Behind(f, p) = <<p[1], p[2], p[3] + 1>>
         /\ p[3] > Entries(f, p[1], p[2]) =>
              /\ p[2] = "descr"  => Behind(f, p) = <<p[1], "folder", 1>>
              /\ p[2] = "folder" => Behind(f, p) = <<p[1], "file", 1>>
              /\ p[2] = "file"   => Behind(f, p) = <<p[1], "reg", 1>>
              /\ p[2] = "reg"    => Behind(f, p) = Definition(f, p[1] + 1)
              /\ p[2] = "table"  => Behind(f, p) = Table(f, p[1] + 1)
<1>1. CASE p[2] \in {"header", "gap", "flags", "end", "name", "open"}
  BY <1>1, ClosingParts DEF Behind, NO_IGNORELN
<1>2. CASE p[2] \in DOMAIN Closing
  <2>1. Behind(f, p) =
          IF p[3] <= Entries(f, p[1], p[2]) THEN <<p[1], p[2], p[3] + 1>>
          ELSE Leaving(f, p[1], p[2])
    BY <1>2, ClosingParts DEF Behind
  <2>2. p[3] <= Entries(f, p[1], p[2]) <=> ~(p[3] > Entries(f, p[1], p[2]))
    BY <1>2, PlaceIs
  <2>3. /\ p[2] = "descr"  => Leaving(f, p[1], p[2]) = <<p[1], "folder", 1>>
        /\ p[2] = "folder" => Leaving(f, p[1], p[2]) = <<p[1], "file", 1>>
        /\ p[2] = "file"   => Leaving(f, p[1], p[2]) = <<p[1], "reg", 1>>
        /\ p[2] = "reg"    => Leaving(f, p[1], p[2]) = Definition(f, p[1] + 1)
        /\ p[2] = "table"  => Leaving(f, p[1], p[2]) = Table(f, p[1] + 1)
    BY DEF Leaving
  <2> QED BY <1>2, <2>1, <2>2, <2>3, ClosingParts
<1> QED BY <1>1, <1>2, PlaceIs, ClosingParts DEF Parts, Sections

\* The places there are.
LEMMA PlaceMade ==
  ASSUME NEW f \in Shapes
  PROVE  /\ \A k \in 0..4 : InFile(f, <<0, "header", k>>)
         /\ \A s \in {"gap", "flags", "end"} : InFile(f, <<0, s, 1>>)
         /\ \A d \in 1..Len(f.defs) : \A s \in {"name", "open"} : InFile(f, <<d, s, 1>>)
         /\ \A d \in 1..Len(f.defs) : \A s \in {"descr", "folder", "file", "reg"} :
              \A k \in 1..Entries(f, d, s) + 1 : InFile(f, <<d, s, k>>)
         /\ \A d \in 1..Len(f.tables) : \A k \in 1..Entries(f, d, "table") + 1 :
              InFile(f, <<d, "table", k>>)
<1>1. \A k \in 0..4 : InFile(f, <<0, "header", k>>)
  BY ClosingParts DEF InFile, Parts, NO_IGNORELN
<1>2. \A s \in {"gap", "flags", "end"} : InFile(f, <<0, s, 1>>)
  BY ClosingParts DEF InFile, Parts
<1>3. ASSUME NEW d \in 1..Len(f.defs), NEW s \in {"name", "open"}
      PROVE  InFile(f, <<d, s, 1>>)
  <2>1. d \in Nat
    BY FileTyped
  <2> QED BY <2>1, ClosingParts DEF InFile, Parts
<1>4. ASSUME NEW d \in 1..Len(f.defs), NEW s \in {"descr", "folder", "file", "reg"},
             NEW k \in 1..Entries(f, d, s) + 1
      PROVE  InFile(f, <<d, s, k>>)
  <2>1. d \in Nat /\ k \in Nat /\ s \in Parts /\ s \in DOMAIN Closing
    BY FileTyped, EntriesTyped, ClosingParts DEF Parts, Sections
  <2>2. /\ s \notin {"header", "gap", "flags", "end", "name", "open"}
        /\ s # "table"
    OBVIOUS
  <2> QED BY <2>1, <2>2 DEF InFile
<1>5. ASSUME NEW d \in 1..Len(f.tables), NEW k \in 1..Entries(f, d, "table") + 1
      PROVE  InFile(f, <<d, "table", k>>)
  <2>1. d \in Nat /\ Entries(f, d, "table") \in Nat
    BY FileTyped, EntriesTyped, ClosingParts
  <2> QED BY <2>1, ClosingParts DEF InFile, Parts, Sections
<1> QED BY <1>1, <1>2, <1>3, <1>4, <1>5

\* A place is one of these.
LEMMA PlaceCases ==
  ASSUME NEW f \in Shapes, NEW p, InFile(f, p)
  PROVE  \/ p[2] = "header"
         \/ p[2] \in {"name", "open"}
         \/ p[2] \in {"gap", "flags", "end"}
         \/ p[2] \in DOMAIN Closing /\ ~(p[3] > Entries(f, p[1], p[2]))
         \/ p[2] \in {"descr", "folder", "file"} /\ p[3] > Entries(f, p[1], p[2])
         \/ p[2] = "reg" /\ p[3] > Entries(f, p[1], p[2])
         \/ p[2] = "table" /\ p[3] > Entries(f, p[1], p[2])
  BY PlaceIs, ClosingParts DEF Parts, Sections

\* The line behind a line of the file is one of the file, or its end.
LEMMA BehindIn ==
  ASSUME NEW f \in Shapes, NEW p, InFile(f, p)
  PROVE  InFile(f, Behind(f, p))
<1>1. CASE p[2] = "header"
  <2>1. CASE p[3] < 4
    <3>1. Behind(f, p) = <<0, "header", p[3] + 1>> /\ p[3] + 1 \in 0..4
      BY <1>1, <2>1, PlaceIs, BehindIs
    <3> QED BY <3>1, PlaceMade
  <2>2. CASE ~(p[3] < 4)
    BY <1>1, <2>2, NextIn, BehindIs
  <2> QED BY <2>1, <2>2
<1>2. CASE p[2] \in {"name", "open"}
  <2>1. p[1] \in 1..Len(f.defs)
    BY <1>2, PlaceIs
  <2>2. Behind(f, p) = <<p[1], "open", 1>> \/ Behind(f, p) = <<p[1], "descr", 1>>
    BY <1>2, BehindIs
  <2>3. 1 \in 1..Entries(f, p[1], "descr") + 1
    BY DEF Entries, Sections
  <2> QED BY <2>1, <2>2, <2>3, PlaceMade
<1>3. CASE p[2] \in {"gap", "flags", "end"}
  <2>1. InFile(f, Table(f, 1)) /\ InFile(f, <<0, "flags", 1>>) /\ InFile(f, End)
    BY NextIn, PlaceMade
  <2> QED BY <1>3, <2>1, BehindIs
<1>4. CASE p[2] \in DOMAIN Closing /\ ~(p[3] > Entries(f, p[1], p[2]))
  <2>1. /\ Behind(f, p) = <<p[1], p[2], p[3] + 1>>
        /\ p[3] + 1 \in 1..Entries(f, p[1], p[2]) + 1
    BY <1>4, PlaceIs, BehindIs
  <2>2. IF p[2] = "table" THEN p[1] \in 1..Len(f.tables) ELSE p[1] \in 1..Len(f.defs)
    BY <1>4, PlaceIs, ClosingParts
  <2> QED BY <1>4, <2>1, <2>2, PlaceMade, ClosingParts
<1>5. CASE p[2] \in {"descr", "folder", "file"} /\ p[3] > Entries(f, p[1], p[2])
  <2>1. PICK s \in {"folder", "file", "reg"} : Behind(f, p) = <<p[1], s, 1>>
    BY <1>5, BehindIs
  <2>2. p[1] \in 1..Len(f.defs)
    BY <1>5, PlaceIs
  <2>3. 1 \in 1..Entries(f, p[1], s) + 1
    BY <2>2, EntriesTyped, ClosingParts
  <2> QED BY <2>1, <2>2, <2>3, PlaceMade
<1>6. CASE p[2] \in {"reg", "table"} /\ p[3] > Entries(f, p[1], p[2])
  <2>1. p[1] + 1 \in Nat \ {0}
    BY PlaceIs
  <2> QED BY <1>6, <2>1, NextIn, BehindIs
<1> QED BY <1>1, <1>2, <1>3, <1>4, <1>5, <1>6, PlaceCases

\* How many definitions have ended, by the part.
LEMMA ClosedIs ==
  ASSUME NEW f \in Shapes
  PROVE  /\ \A d, s, k : s \in InDefns => Closed(f, <<d, s, k>>) = d - 1
         /\ \A d, s, k : s \in {"gap", "flags", "table", "end"} =>
              Closed(f, <<d, s, k>>) = Len(f.defs)
         /\ \A d, k : Closed(f, <<d, "header", k>>) = 0
         /\ \A d \in Nat \ {0} : d <= Len(f.defs) + 1 =>
              Closed(f, Definition(f, d)) = d - 1
         /\ \A d : Closed(f, Table(f, d)) = Len(f.defs)
<1>1. /\ \A d, s, k : s \in InDefns => Closed(f, <<d, s, k>>) = d - 1
      /\ \A d, s, k : s \in {"gap", "flags", "table", "end"} =>
           Closed(f, <<d, s, k>>) = Len(f.defs)
      /\ \A d, k : Closed(f, <<d, "header", k>>) = 0
  BY DEF Closed, InDefns, Sections
<1>2. ASSUME NEW d \in Nat \ {0}, d <= Len(f.defs) + 1
      PROVE  Closed(f, Definition(f, d)) = d - 1
  <2>1. CASE d <= Len(f.defs)
    BY <1>1, <2>1 DEF Definition, InDefns
  <2>2. CASE ~(d <= Len(f.defs))
    <3>1. Definition(f, d) = <<0, "gap", 1>> /\ d - 1 = Len(f.defs)
      BY <1>2, <2>2, FileTyped DEF Definition
    <3> QED BY <1>1, <3>1
  <2> QED BY <2>1, <2>2
<1>3. \A d : Closed(f, Table(f, d)) = Len(f.defs)
  BY <1>1 DEF Table
<1> QED BY <1>1, <1>2, <1>3

\* A definition ends with its closing line, and with no other.
LEMMA BehindClosed ==
  ASSUME NEW f \in Shapes, NEW p, InFile(f, p)
  PROVE  /\ Closed(f, p) \in Nat
         /\ Closed(f, Behind(f, p)) =
              IF Kind(f, p) = "close" THEN Closed(f, p) + 1 ELSE Closed(f, p)
<1>0. /\ p = <<p[1], p[2], p[3]>> /\ Len(f.defs) \in Nat
      /\ InDefns = {"name", "open", "descr", "folder", "file", "reg"}
  BY PlaceIs, FileTyped DEF InDefns, Sections
<1>1. CASE p[2] = "header"
  <2>1. Closed(f, p) = 0 /\ Kind(f, p) # "close"
    BY <1>0, <1>1, ClosedIs, KindIs
  <2>2. Closed(f, Behind(f, p)) = 0
    <3>1. Closed(f, Definition(f, 1)) = 0
      BY <1>0, ClosedIs
    <3> QED BY <1>1, <3>1, ClosedIs, BehindIs
  <2> QED BY <2>1, <2>2
<1>2. CASE p[2] \in {"name", "open"}
  <2>1. Closed(f, p) = p[1] - 1 /\ p[1] \in Nat \ {0} /\ Kind(f, p) # "close"
    BY <1>0, <1>2, ClosedIs, PlaceIs, KindIs
  <2>2. Closed(f, Behind(f, p)) = p[1] - 1
    BY <1>0, <1>2, ClosedIs, BehindIs
  <2> QED BY <2>1, <2>2
<1>3. CASE p[2] \in {"gap", "flags", "end"}
  <2>1. Closed(f, p) = Len(f.defs) /\ Kind(f, p) # "close"
    BY <1>0, <1>3, ClosedIs, KindIs
  <2>2. Closed(f, Behind(f, p)) = Len(f.defs)
    BY <1>3, ClosedIs, BehindIs
  <2> QED BY <1>0, <2>1, <2>2
<1>4. CASE p[2] \in DOMAIN Closing /\ ~(p[3] > Entries(f, p[1], p[2]))
  <2>1. Behind(f, p) = <<p[1], p[2], p[3] + 1>> /\ Kind(f, p) # "close"
    BY <1>4, BehindIs, KindIs, ClosingParts
  <2>2. CASE p[2] = "table"
    BY <1>0, <2>1, <2>2, ClosedIs
  <2>3. CASE p[2] # "table"
    <3>1. p[1] \in Nat \ {0} /\ p[2] \in InDefns
      BY <1>0, <1>4, <2>3, PlaceIs, ClosingParts
    <3>2. Closed(f, p) = p[1] - 1 /\ Closed(f, Behind(f, p)) = p[1] - 1
      BY <1>0, <2>1, <3>1, ClosedIs
    <3> QED BY <2>1, <3>1, <3>2
  <2> QED BY <2>2, <2>3
<1>5. CASE p[2] \in {"descr", "folder", "file"} /\ p[3] > Entries(f, p[1], p[2])
  <2>1. PICK s \in {"folder", "file", "reg"} : Behind(f, p) = <<p[1], s, 1>>
    BY <1>5, BehindIs
  <2>2. p[1] \in Nat \ {0} /\ Kind(f, p) # "close"
    BY <1>5, PlaceIs, KindIs
  <2>3. Closed(f, p) = p[1] - 1 /\ Closed(f, Behind(f, p)) = p[1] - 1
    BY <1>0, <1>5, <2>1, ClosedIs
  <2> QED BY <2>2, <2>3
<1>6. CASE p[2] = "reg" /\ p[3] > Entries(f, p[1], p[2])
  <2>1. p[1] \in 1..Len(f.defs) /\ Kind(f, p) = "close"
        /\ Behind(f, p) = Definition(f, p[1] + 1)
    BY <1>6, PlaceIs, KindIs, BehindIs
  <2>2. Closed(f, p) = p[1] - 1
    BY <1>0, <1>6, ClosedIs
  <2>3. Closed(f, Definition(f, p[1] + 1)) = (p[1] + 1) - 1
    BY <1>0, <2>1, ClosedIs
  <2> QED BY <1>0, <2>1, <2>2, <2>3
<1>7. CASE p[2] = "table" /\ p[3] > Entries(f, p[1], p[2])
  <2>1. Closed(f, p) = Len(f.defs) /\ Kind(f, p) # "close"
    BY <1>0, <1>7, ClosedIs, KindIs
  <2>2. Closed(f, Behind(f, p)) = Len(f.defs)
    BY <1>7, ClosedIs, BehindIs
  <2> QED BY <1>0, <2>1, <2>2
<1> QED BY <1>1, <1>2, <1>3, <1>4, <1>5, <1>6, <1>7, PlaceCases

\* The status a line leaves behind is the one its successor is read with.
LEMMA BehindHeading ==
  ASSUME NEW f \in Shapes, NEW p, InFile(f, p)
  PROVE  /\ Heading(p[2]) \in Statuses
         /\ Kind(f, p) \in {"header", "name", "close"} =>
              Heading(Behind(f, p)[2]) = "DEFN_HEADER"
         /\ Kind(f, p) = "open" =>
              Heading(p[2]) = "DEFN_HEADER" /\ Heading(Behind(f, p)[2]) = "PARS_DSCR"
         /\ Kind(f, p) = "flags" => Heading(Behind(f, p)[2]) = "STRING_TABLE"
         /\ Kind(f, p) = "semi" =>
              /\ Heading(p[2]) \in {"PARS_DSCR", "PARS_FOLDER", "PARS_FILE"}
              /\ Heading(Behind(f, p)[2]) = After(Heading(p[2]))
         /\ Kind(f, p) \in {"dollar", "text", "blank"} =>
              Heading(Behind(f, p)[2]) = Heading(p[2])
<1> USE PlaceIs, BehindIs, KindIs
<1> USE DEF Heading
<1>0. Heading(p[2]) \in Statuses
  BY DEF Parts, Sections, Statuses
<1>1. CASE p[2] \in {"header", "name", "open", "gap", "flags", "end"}
  BY <1>0, <1>1, NextIn
<1>2. CASE p[2] \in DOMAIN Closing /\ ~(p[3] > Entries(f, p[1], p[2]))
  BY <1>0, <1>2, ClosingParts
<1>3. CASE p[2] \in {"descr", "folder", "file"} /\ p[3] > Entries(f, p[1], p[2])
  BY <1>0, <1>3 DEF After
<1>4. CASE p[2] \in {"reg", "table"} /\ p[3] > Entries(f, p[1], p[2])
  <2>1. p[1] + 1 \in Nat \ {0}
    OBVIOUS
  <2> QED BY <1>0, <1>4, <2>1, NextIn
<1> QED BY <1>1, <1>2, <1>3, <1>4, ClosingParts DEF Parts, Sections
-------------------------------------------------------------------------------
(* How a Reader moves. *)

\* What treats a line, and what only fetches it.
Treating(r) ==
  \/ HeaderLine(r) \/ NameLine(r) \/ CloseLine(r) \/ FlagsLine(r)
  \/ OpenAct(r) \/ SemiAct(r) \/ DollarAct(r) \/ EntryAct(r)

Fetching(r) == OpenLine(r) \/ OtherLine(r)

\* A step of Reader::run treats a line, fetches one to treat it in the next step,
\* or finds the end of the file.
LEMMA RunCases ==
  ASSUME NEW r \in Readers, run(r)
  PROVE  Treating(r) \/ Fetching(r) \/ Finish(r)
  BY DEF run, Treating, Fetching

\* The next line is a line of the file.
LEMMA DueIn ==
  ASSUME TypeOK, NEW r \in Readers
  PROVE  /\ shape \in Shapes /\ InFile(shape, pos[r]) /\ InFile(shape, Due(r))
         /\ InFile(shape, Behind(shape, Due(r)))
<1>1. shape \in Shapes /\ InFile(shape, pos[r])
  BY DEF TypeOK
<1>2. InFile(shape, Due(r))
  BY <1>1, BehindIn DEF Due
<1> QED BY <1>1, <1>2, BehindIn

\* A line of the header.
LEMMA HeaderMoves ==
  ASSUME TypeOK, PlaceInv, NEW r \in Readers, HeaderLine(r)
  PROVE  /\ Due(r)[2] = "header" /\ pc'[r] = "getline" /\ pos'[r] = Due(r)
         /\ lnIndex'[r] = pos'[r][3] + 1
<1>1. Placed(r) /\ pc[r] = "getline" /\ lnIndex[r] <= NO_IGNORELN
  BY DEF PlaceInv, HeaderLine
<1>2. Due(r) = Behind(shape, pos[r])
  BY <1>1 DEF Due
<1>3. lnIndex[r] \in Nat
  BY DEF TypeOK
<1>4. pos[r][2] = "header" /\ lnIndex[r] = pos[r][3] + 1
  BY <1>1, <1>3 DEF Placed, NO_IGNORELN
<1>5. pos[r][3] \in Nat /\ pos[r][3] < 4
  BY <1>1, <1>4, DueIn, PlaceIs DEF NO_IGNORELN
<1>6. Due(r) = <<0, "header", pos[r][3] + 1>>
  BY <1>2, <1>4, <1>5, DueIn, BehindIs
<1>7. pos'[r] = Due(r) /\ lnIndex'[r] = lnIndex[r] + 1 /\ pc'[r] = pc[r]
  BY <1>2 DEF HeaderLine, Line, TypeOK
<1> QED BY <1>1, <1>4, <1>5, <1>6, <1>7

\* A line behind the header.
LEMMA GetlineMoves ==
  ASSUME TypeOK, PlaceInv, NEW r \in Readers, NEW kinds, NEW q,
         Getline(r, kinds, q), "header" \notin kinds
  PROVE  /\ Kind(shape, Due(r)) \in kinds /\ Due(r)[2] # "header"
         /\ pc'[r] = q /\ pos'[r] = Due(r) /\ lnIndex'[r] > NO_IGNORELN
<1>1. Due(r) = Behind(shape, pos[r]) /\ Kind(shape, Due(r)) \in kinds
  BY DEF Due, Getline, Line
<1>2. Due(r)[2] # "header"
  BY <1>1, DueIn, KindIs
<1>3. lnIndex[r] \in Nat /\ lnIndex[r] > NO_IGNORELN
  BY DEF TypeOK, Getline
<1>4. /\ pos'[r] = Due(r) /\ lnIndex'[r] = lnIndex[r] + 1
      /\ pc'[r] = q
  BY <1>1 DEF Getline, Line, TypeOK
<1> QED BY <1>1, <1>2, <1>3, <1>4 DEF NO_IGNORELN

\* The second half of a line.
LEMMA ActMoves ==
  ASSUME TypeOK, PlaceInv, NEW r \in Readers, NEW kinds, Act(r, kinds)
  PROVE  /\ Kind(shape, Due(r)) \in kinds /\ Due(r)[2] # "header"
         /\ Kind(shape, Due(r)) \notin {"header", "name", "close", "flags"}
         /\ pc'[r] = "getline" /\ pos'[r] = Due(r) /\ pos[r] = Due(r)
         /\ lnIndex'[r] > NO_IGNORELN
<1>1. Placed(r) /\ pc[r] = "act"
  BY DEF PlaceInv, Act
<1>2. Due(r) = pos[r] /\ pos'[r] = pos[r] /\ lnIndex'[r] = lnIndex[r]
  BY <1>1 DEF Due, Act
<1>3. Kind(shape, Due(r)) \in kinds
  BY <1>2 DEF Act, HereKind
<1>4. pc'[r] = "getline"
  BY DEF Act, TypeOK
<1> QED BY <1>1, <1>2, <1>3, <1>4 DEF Placed

\* A line that is treated is the next one, and the one behind it comes next.
LEMMA TreatMoves ==
  ASSUME TypeOK, PlaceInv, NEW r \in Readers, Treating(r)
  PROVE  /\ pc[r] \in {"getline", "act"} /\ pc'[r] = "getline" /\ shape' = shape
         /\ pos'[r] = Due(r) /\ Due(r)' = Behind(shape, Due(r))
         /\ pos'[r][2] = "header" => lnIndex'[r] = pos'[r][3] + 1
         /\ pos'[r][2] # "header" => lnIndex'[r] > NO_IGNORELN
         /\ defIndex' = IF Kind(shape, Due(r)) = "close"
                        THEN [defIndex EXCEPT ![r] = @ + 1] ELSE defIndex
<1>1. CASE HeaderLine(r)
  <2>1. defIndex' = defIndex /\ shape' = shape /\ pc[r] = "getline"
    BY <1>1 DEF HeaderLine
  <2>2. Kind(shape, Due(r)) = "header"
    BY <1>1, HeaderMoves, DueIn, KindIs
  <2> QED BY <1>1, <2>1, <2>2, HeaderMoves DEF Due
<1>2. CASE NameLine(r)
  <2>1. /\ Getline(r, {"name"}, "getline")
        /\ defIndex' = defIndex /\ shape' = shape /\ pc[r] = "getline"
    BY <1>2 DEF NameLine, Getline
  <2> QED BY <2>1, GetlineMoves DEF Due
<1>3. CASE CloseLine(r)
  <2>1. /\ Getline(r, {"close"}, "getline") /\ shape' = shape /\ pc[r] = "getline"
        /\ defIndex' = [defIndex EXCEPT ![r] = @ + 1]
    BY <1>3 DEF CloseLine, Getline
  <2> QED BY <2>1, GetlineMoves DEF Due
<1>4. CASE FlagsLine(r)
  <2>1. /\ Getline(r, {"flags"}, "getline")
        /\ defIndex' = defIndex /\ shape' = shape /\ pc[r] = "getline"
    BY <1>4 DEF FlagsLine, Getline
  <2> QED BY <2>1, GetlineMoves DEF Due
<1>5. CASE OpenAct(r) \/ SemiAct(r) \/ DollarAct(r) \/ EntryAct(r)
  <2>1. PICK kinds : Act(r, kinds)
    BY <1>5 DEF OpenAct, SemiAct, DollarAct, EntryAct
  <2>2. defIndex' = defIndex /\ shape' = shape /\ pc[r] = "act"
    BY <2>1 DEF Act
  <2> QED BY <2>1, <2>2, ActMoves DEF Due
<1> QED BY <1>1, <1>2, <1>3, <1>4, <1>5 DEF Treating

\* What a Reader that has only fetched its line has done.
LEMMA FetchMoves ==
  ASSUME TypeOK, PlaceInv, NEW r \in Readers, Fetching(r)
  PROVE  /\ pc[r] = "getline" /\ pc'[r] = "act" /\ shape' = shape
         /\ pos'[r] = Due(r) /\ Due(r)' = Due(r) /\ Due(r)[2] # "header"
         /\ Kind(shape, Due(r)) \in {"open", "semi", "dollar", "text", "blank"}
         /\ lnIndex'[r] > NO_IGNORELN /\ defIndex' = defIndex
<1>1. PICK kinds : /\ Getline(r, kinds, "act")
                    /\ kinds \subseteq {"open", "semi", "dollar", "text", "blank"}
  BY DEF Fetching, OpenLine, OtherLine
<1>2. defIndex' = defIndex /\ shape' = shape /\ pc[r] = "getline"
  BY DEF Fetching, OpenLine, OtherLine, Getline
<1> QED BY <1>1, <1>2, GetlineMoves DEF Due

\* What a Reader at the end of the file has done.
LEMMA FinishMoves ==
  ASSUME TypeOK, NEW r \in Readers, Finish(r)
  PROVE  /\ pc[r] = "getline" /\ pc'[r] = "done" /\ shape' = shape
         /\ pos' = pos /\ pos[r] = End /\ Due(r) = End /\ Due(r)' = End
         /\ lnIndex' = lnIndex /\ defIndex' = defIndex
<1>1. /\ pc[r] = "getline" /\ shape' = shape /\ pos' = pos /\ pos[r] = End
      /\ lnIndex' = lnIndex /\ defIndex' = defIndex
  BY DEF Finish
<1>2. pc'[r] = "done"
  BY DEF Finish, TypeOK
<1>3. Behind(shape, End) = End
  BY DueIn, <1>1, BehindIs
<1> QED BY <1>1, <1>2, <1>3 DEF Due

\* A Reader writes to its own array.
LEMMA StoreKeeps ==
  ASSUME TypeOK, NEW r \in Readers, NEW u \in Readers, u # r,
         NameLine(r) \/ EntryAct(r)
  PROVE  defns'[u] = defns[u]
<1>1. ASSUME NEW field, NEW v, Write(r, field, v)
      PROVE  defns'[u] = defns[u]
  BY <1>1 DEF TypeOK, Write
<1>2. CASE NameLine(r)
  BY <1>1, <1>2 DEF NameLine
<1>3. CASE EntryAct(r)
  <2>1. ASSUME NEW field, NEW t, Push(r, field, t)
        PROVE  defns'[u] = defns[u]
    BY <1>1, <2>1 DEF Push
  <2>2. \/ \E field : Push(r, field, HereText(r))
        \/ Write(r, "description", HereText(r))
        \/ defns' = defns
    BY <1>3 DEF EntryAct
  <2> QED BY <1>1, <2>1, <2>2
<1> QED BY <1>2, <1>3

\* The other Readers stay where they are.
LEMMA OthersStay ==
  ASSUME TypeOK, NEW r \in Readers, NEW u \in Readers, run(r), u # r
  PROVE  /\ pc'[u] = pc[u] /\ pos'[u] = pos[u] /\ lnIndex'[u] = lnIndex[u]
         /\ seen'[u] = seen[u] /\ defIndex'[u] = defIndex[u] /\ tmp'[u] = tmp[u]
         /\ defns'[u] = defns[u] /\ Due(u)' = Due(u)
         /\ shape' = shape /\ loads' = loads /\ nDefn' = nDefn
         /\ overlapped' = overlapped
<1> USE DEF run, HeaderLine, NameLine, CloseLine, FlagsLine, OpenLine, OtherLine,
            OpenAct, SemiAct, DollarAct, EntryAct, Finish, Getline, Act
<1>1. /\ shape' = shape /\ loads' = loads /\ nDefn' = nDefn
      /\ overlapped' = overlapped
  OBVIOUS
<1>2. pc'[u] = pc[u] /\ pos'[u] = pos[u] /\ lnIndex'[u] = lnIndex[u]
  BY DEF TypeOK
<1>3. seen'[u] = seen[u] /\ defIndex'[u] = defIndex[u]
  BY DEF TypeOK
<1>4. tmp'[u] = tmp[u]
  BY DEF TypeOK
<1>5. defns'[u] = defns[u]
  <2>1. CASE NameLine(r) \/ EntryAct(r)
    BY <2>1, StoreKeeps
  <2>2. CASE ~(NameLine(r) \/ EntryAct(r))
    BY <2>2 DEF Push, Write
  <2> QED BY <2>1, <2>2
<1> QED BY <1>1, <1>2, <1>3, <1>4, <1>5 DEF Due
\* A file is opened.
LEMMA OpenMoves ==
  ASSUME TypeOK, PlaceInv, openDefFile
  PROVE  /\ loads + 1 \in Readers /\ loads' = loads + 1
         /\ pc[loads + 1] = "off" /\ pc'[loads + 1] = "getline"
         /\ pos[loads + 1] = Start /\ nDefn'[loads + 1] \in Nat
         /\ defns'[loads + 1] = [d \in 1..nDefn'[loads + 1] |-> NoDefn]
         /\ nDefn'[loads + 1] \in IF loads = 0 THEN {shape.declared} ELSE OtherCounts
         /\ \A u \in Readers : u # loads + 1 =>
              pc'[u] = pc[u] /\ nDefn'[u] = nDefn[u] /\ defns'[u] = defns[u]
         /\ DOMAIN defns' = Readers
         /\ nDefn' \in [Readers -> Nat] /\ pc' \in [Readers -> {"off", "getline", "act", "done"}]
         /\ \A u \in Readers : Due(u)' = Due(u)
         /\ overlapped \subseteq overlapped'
         /\ \A u \in Running' : Running # {} => {u, loads + 1} \subseteq overlapped'
<1>1. loads + 1 \in Readers /\ loads' = loads + 1
  BY ReaderAssumption DEF openDefFile, Readers, TypeOK
<1>2. pc[loads + 1] = "off" /\ pos[loads + 1] = Start
  <2>1. loads < loads + 1
    BY DEF TypeOK
  <2> QED BY <1>1, <2>1 DEF PlaceInv, Placed
<1>3. PICK n \in IF loads = 0 THEN {shape.declared} ELSE OtherCounts :
        /\ nDefn' = [nDefn EXCEPT ![loads + 1] = n]
        /\ defns' = [defns EXCEPT ![loads + 1] = [d \in 1..n |-> NoDefn]]
  BY <1>1 DEF openDefFile
<1>4. n \in Nat
  BY <1>3, ReaderAssumption DEF TypeOK
<1>5. pc' = [pc EXCEPT ![loads + 1] = "getline"]
  BY DEF openDefFile
<1>6. /\ pc'[loads + 1] = "getline"
      /\ pc' \in [Readers -> {"off", "getline", "act", "done"}]
      /\ \A u \in Readers : u # loads + 1 => pc'[u] = pc[u]
  BY <1>1, <1>5 DEF TypeOK
<1>7. /\ nDefn'[loads + 1] = n /\ nDefn' \in [Readers -> Nat]
      /\ \A u \in Readers : u # loads + 1 => nDefn'[u] = nDefn[u]
  BY <1>1, <1>3, <1>4 DEF TypeOK
<1>8. /\ defns'[loads + 1] = [d \in 1..n |-> NoDefn] /\ DOMAIN defns' = Readers
      /\ \A u \in Readers : u # loads + 1 => defns'[u] = defns[u]
  BY <1>1, <1>3 DEF TypeOK
<1>9. ASSUME NEW u \in Readers
      PROVE  Due(u)' = Due(u)
  <2>1. shape' = shape /\ pos' = pos
    BY DEF openDefFile
  <2>2. CASE u = loads + 1
    BY <1>2, <1>6, <2>1, <2>2 DEF Due
  <2>3. CASE u # loads + 1
    BY <1>6, <2>1, <2>3 DEF Due
  <2> QED BY <2>2, <2>3
<1>10. overlapped \subseteq overlapped'
  BY DEF openDefFile
<1>11. ASSUME NEW u \in Running', Running # {}
       PROVE  {u, loads + 1} \subseteq overlapped'
  <2>1. overlapped' = overlapped \cup Running \cup {loads + 1}
    BY <1>11 DEF openDefFile
  <2>2. u \in Running \/ u = loads + 1
    BY <1>6, <1>11 DEF Running
  <2> QED BY <2>1, <2>2
<1> QED BY <1>1, <1>2, <1>3, <1>4, <1>6, <1>7, <1>8, <1>9, <1>10, <1>11

\* PlaceInv after openDefFile or a step of a Reader.
LEMMA PlaceStep ==
  ASSUME TypeOK, PlaceInv, openDefFile \/ \E r \in Readers : run(r)
  PROVE  PlaceInv'
<1>1. CASE openDefFile
  <2>1. SUFFICES ASSUME NEW u \in Readers
                 PROVE  Placed(u)'
    BY DEF PlaceInv
  <2>2. Placed(u) /\ Placed(loads + 1) /\ loads \in Nat
    BY <1>1, OpenMoves DEF PlaceInv, TypeOK
  <2>3. /\ shape' = shape /\ pos' = pos /\ lnIndex' = lnIndex
        /\ defIndex' = defIndex
    BY <1>1 DEF openDefFile
  <2>4. Due(u)' = Due(u) /\ loads' = loads + 1
    BY <1>1, OpenMoves
  <2>5. CASE u = loads + 1
    <3>1. pc[u] = "off" /\ pc'[u] = "getline" /\ pos[u] = Start
      BY <1>1, <2>5, OpenMoves
    <3> QED BY <2>2, <2>3, <2>4, <2>5, <3>1 DEF Placed
  <2>6. CASE u # loads + 1
    <3>1. pc'[u] = pc[u] /\ u \in Nat
      BY <1>1, <2>6, OpenMoves DEF Readers
    <3>2. loads' < u <=> loads < u
      BY <2>2, <2>4, <2>6, <3>1
    <3> QED BY <2>2, <2>3, <2>4, <3>1, <3>2 DEF Placed
  <2> QED BY <2>5, <2>6
<1>2. ASSUME NEW r \in Readers, run(r)
      PROVE  PlaceInv'
  <2>1. Placed(r) /\ InFile(shape, Due(r))
    BY DueIn DEF PlaceInv
  <2>2. loads' = loads /\ shape' = shape
    BY <1>2 DEF run, HeaderLine, NameLine, CloseLine, FlagsLine, OpenLine,
                OtherLine, OpenAct, SemiAct, DollarAct, EntryAct, Finish, Act
  <2>3. Placed(r)'
    <3>1. CASE Treating(r)
      <4>1. defIndex'[r] = Closed(shape, Behind(shape, Due(r)))
        <5>1. defIndex'[r] = IF Kind(shape, Due(r)) = "close" THEN defIndex[r] + 1
                             ELSE defIndex[r]
          BY <3>1, TreatMoves DEF TypeOK
        <5>2. defIndex[r] = Closed(shape, Due(r))
          BY <2>1 DEF Placed
        <5> QED BY <2>1, <5>1, <5>2, BehindClosed, DueIn
      <4>2. /\ pc[r] # "off" /\ pc'[r] = "getline"
            /\ Due(r)' = Behind(shape, Due(r))
            /\ pos'[r][2] = "header" => lnIndex'[r] = pos'[r][3] + 1
            /\ pos'[r][2] # "header" => lnIndex'[r] > NO_IGNORELN
        BY <3>1, TreatMoves
      <4>3. defIndex'[r] = Closed(shape', Due(r)')
        BY <2>2, <4>1, <4>2
      <4> QED BY <2>1, <2>2, <4>2, <4>3 DEF Placed
    <3>2. CASE Fetching(r)
      BY <2>1, <2>2, <3>2, FetchMoves DEF Placed
    <3>3. CASE Finish(r)
      BY <2>1, <2>2, <3>3, FinishMoves DEF Placed
    <3> QED BY <1>2, <3>1, <3>2, <3>3, RunCases
  <2>4. ASSUME NEW u \in Readers, u # r
        PROVE  Placed(u)'
    <3>1. Placed(u)
      BY DEF PlaceInv
    <3> QED BY <1>2, <2>2, <2>4, <3>1, OthersStay DEF Placed
  <2> QED BY <2>3, <2>4 DEF PlaceInv
<1> QED BY <1>1, <1>2

\* AloneInv after openDefFile or a step of a Reader.
LEMMA AloneStep ==
  ASSUME TypeOK, PlaceInv, AloneInv, openDefFile \/ \E r \in Readers : run(r)
  PROVE  AloneInv'
<1>1. CASE openDefFile
  <2>1. SUFFICES ASSUME NEW r \in Readers, NEW u \in Readers,
                        r \in Running', u \in Running', r # u
                 PROVE  r \in overlapped'
    BY DEF AloneInv
  <2>2. Running # {}
    <3>1. r # loads + 1 \/ u # loads + 1
      BY <2>1
    <3> QED BY <1>1, <2>1, <3>1, OpenMoves DEF Running
  <2> QED BY <1>1, <2>1, <2>2, OpenMoves
<1>2. ASSUME NEW r \in Readers, run(r)
      PROVE  AloneInv'
  <2>1. overlapped' = overlapped /\ r \in Running
    BY <1>2, RunCases, TreatMoves, FetchMoves, FinishMoves
    DEF run, HeaderLine, NameLine, CloseLine, FlagsLine, OpenLine,
        OtherLine, OpenAct, SemiAct, DollarAct, EntryAct, Finish, Act, Running
  <2>2. ASSUME NEW u \in Readers, u \in Running'
        PROVE  u \in Running
    <3>1. CASE u = r
      BY <2>1, <3>1
    <3>2. CASE u # r
      BY <1>2, <2>2, <3>2, OthersStay DEF Running
    <3> QED BY <3>1, <3>2
  <2> QED BY <2>1, <2>2 DEF AloneInv
<1> QED BY <1>1, <1>2

\* StatusInv after a step: alone, a Reader finds the status its next line needs.
LEMMA StatusStep ==
  ASSUME TypeOK, PlaceInv, AloneInv, StatusInv,
         openDefFile \/ \E r \in Readers : run(r)
  PROVE  StatusInv'
<1>1. CASE openDefFile
  <2>1. SUFFICES ASSUME NEW u \in Readers, u \in Running', u \notin overlapped'
                 PROVE  Headed(u)'
    BY DEF StatusInv, Running
  <2>2. /\ shape' = shape /\ pos' = pos /\ status' = status /\ seen' = seen
    BY <1>1 DEF openDefFile
  <2>3. CASE u = loads + 1
    BY <1>1, <2>2, <2>3, OpenMoves DEF Headed
  <2>4. CASE u # loads + 1
    <3>1. u \in Running
      BY <1>1, <2>1, <2>4, OpenMoves DEF Running
    <3> QED BY <1>1, <2>1, <3>1, OpenMoves
  <2> QED BY <2>3, <2>4
<1>2. ASSUME NEW r \in Readers, run(r)
      PROVE  StatusInv'
  <2>1. overlapped' = overlapped /\ r \in Running /\ shape' = shape
    BY <1>2, RunCases, TreatMoves, FetchMoves, FinishMoves
    DEF run, HeaderLine, NameLine, CloseLine, FlagsLine, OpenLine,
        OtherLine, OpenAct, SemiAct, DollarAct, EntryAct, Finish, Act, Running
  <2>2. SUFFICES ASSUME NEW u \in Readers, u \in Running', u \notin overlapped
                 PROVE  Headed(u)'
    BY <2>1 DEF StatusInv, Running
  <2>3. CASE u # r
    BY <1>2, <2>1, <2>2, <2>3, OthersStay DEF AloneInv, Running
  <2>4. CASE u = r
    <3>1. Headed(r) /\ InFile(shape, Due(r)) /\ shape \in Shapes
      BY <2>1, <2>2, <2>4, DueIn DEF StatusInv
    <3>2. CASE HeaderLine(r)
      <4>1. status' = "DEFN_HEADER" /\ Treating(r)
        BY <3>2 DEF HeaderLine, Treating
      <4>2. Kind(shape, Due(r)) = "header"
        BY <3>1, <3>2, HeaderMoves, KindIs
      <4> QED BY <2>4, <3>1, <4>1, <4>2, TreatMoves, BehindHeading DEF Headed
    <3>3. CASE NameLine(r) \/ CloseLine(r)
      <4>1. status' = "DEFN_HEADER" /\ Treating(r)
        BY <3>3 DEF NameLine, CloseLine, Treating
      <4>2. Kind(shape, Due(r)) \in {"name", "close"}
        BY <3>3, GetlineMoves DEF NameLine, CloseLine
      <4> QED BY <2>4, <3>1, <4>1, <4>2, TreatMoves, BehindHeading DEF Headed
    <3>4. CASE FlagsLine(r)
      <4>1. status' = "STRING_TABLE" /\ Treating(r)
        BY <3>4 DEF FlagsLine, Treating
      <4>2. Kind(shape, Due(r)) = "flags"
        BY <3>4, GetlineMoves DEF FlagsLine
      <4> QED BY <2>4, <3>1, <4>1, <4>2, TreatMoves, BehindHeading DEF Headed
    <3>5. CASE OpenLine(r)
      <4>1. status' = "DEFN_HEADER" /\ Fetching(r)
        BY <3>5 DEF OpenLine, Fetching
      <4>2. Kind(shape, Due(r)) = "open"
        BY <3>5, GetlineMoves DEF OpenLine
      <4> QED BY <2>4, <3>1, <4>1, <4>2, FetchMoves, BehindHeading DEF Headed
    <3>6. CASE OtherLine(r)
      <4>1. status' = status /\ seen'[r] = status /\ Fetching(r)
        BY <3>6 DEF OtherLine, Fetching, TypeOK
      <4>2. status = Heading(Due(r)[2])
        <5>1. Due(r)[2] # "header" /\ pc[r] = "getline"
          BY <4>1, FetchMoves
        <5>2. pos[r] # Start
          BY <3>1, <3>6 DEF OtherLine, Getline, PlaceInv, Placed, NO_IGNORELN
        <5> QED BY <3>1, <5>2 DEF Headed
      <4> QED BY <2>4, <3>1, <4>1, <4>2, FetchMoves DEF Headed
    <3>7. CASE OpenAct(r) \/ SemiAct(r) \/ DollarAct(r) \/ EntryAct(r)
      <4>1. Treating(r)
        BY <3>7 DEF Treating
      <4>2. pc[r] = "act" /\ pos[r] = Due(r) /\ Due(r)[2] # "header"
        BY <3>7, ActMoves DEF OpenAct, SemiAct, DollarAct, EntryAct, Act
      <4>3. status = Heading(Due(r)[2])
        BY <3>1, <4>2 DEF Headed
      <4>4. Kind(shape, Due(r)) # "open" => seen[r] = status
        BY <3>1, <4>2 DEF Headed
      <4>5. Heading(Behind(shape, Due(r))[2]) = status'
        <5>1. CASE OpenAct(r)
          <6>1. Kind(shape, Due(r)) = "open" /\ status' = "PARS_DSCR"
            BY <5>1, ActMoves DEF OpenAct
          <6> QED BY <3>1, <6>1, BehindHeading
        <5>2. CASE SemiAct(r)
          <6>1. Kind(shape, Due(r)) = "semi"
            BY <5>2, ActMoves DEF SemiAct
          <6> QED BY <3>1, <4>3, <4>4, <5>2, <6>1, BehindHeading DEF SemiAct
        <5>3. CASE DollarAct(r) \/ EntryAct(r)
          <6>1. Kind(shape, Due(r)) \in {"dollar", "text", "blank"}
            BY <5>3, ActMoves DEF DollarAct, EntryAct
          <6>2. status' = status
            BY <5>3 DEF DollarAct, EntryAct
          <6> QED BY <3>1, <4>3, <6>1, <6>2, BehindHeading
        <5> QED BY <3>7, <5>1, <5>2, <5>3
      <4> QED BY <2>4, <4>1, <4>5, TreatMoves DEF Headed
    <3>8. CASE Finish(r)
      BY <2>2, <2>4, <3>8, FinishMoves DEF Running
    <3> QED BY <1>2, <3>2, <3>3, <3>4, <3>5, <3>6, <3>7, <3>8 DEF run
  <2> QED BY <2>3, <2>4
<1> QED BY <1>1, <1>2
-------------------------------------------------------------------------------
(* Types. *)

\* The text of a line, and the number of the definition it belongs to.
LEMMA TextTyped ==
  ASSUME NEW f \in Shapes, NEW p, InFile(f, p), Kind(f, p) \in {"name", "text"}
  PROVE  /\ Text(f, p) = p /\ p \in Texts
         /\ p[2] \in {"name", "descr", "folder", "file", "reg", "table"}
         /\ p[2] = "table" => Closed(f, p) = Len(f.defs)
         /\ p[2] # "table" => p[1] = Closed(f, p) + 1 /\ p[1] \in 1..Len(f.defs)
<1>1. Text(f, p) = p /\ p[2] \in {"name", "descr", "folder", "file", "reg", "table"}
  BY KindIs, PlaceIs, ClosingParts DEF Parts, Sections
<1>2. p \in Texts
  <2>1. p = <<p[1], p[2], p[3]>> /\ p[1] \in Nat /\ p[3] \in Nat
    BY PlaceIs
  <2> QED BY <1>1, <2>1 DEF Texts
<1>3. p[2] = "table" => Closed(f, p) = Len(f.defs)
  BY DEF Closed, InDefns, Sections
<1>4. p[2] # "table" => p[1] = Closed(f, p) + 1 /\ p[1] \in 1..Len(f.defs)
  <2>1. p[2] # "table" => Closed(f, p) = p[1] - 1 /\ p[1] \in 1..Len(f.defs)
    BY <1>1, PlaceIs DEF Closed, InDefns, Sections
  <2> QED BY <2>1
<1> QED BY <1>1, <1>2, <1>3, <1>4

\* A write of one field keeps the arrays and the overruns typed.
LEMMA WriteTyped ==
  ASSUME TypeOK, NEW r \in Readers, NEW field, NEW v, Write(r, field, v),
         \A x \in Defns : [x EXCEPT ![field] = v] \in Defns
  PROVE  /\ DOMAIN defns' = Readers /\ overrun' \in SUBSET Readers
         /\ \A u \in Readers : defns'[u] \in [1..nDefn[u] -> Defns]
<1>1. CASE defIndex[r] < nDefn[r]
  <2>1. /\ defns' = [defns EXCEPT ![r][defIndex[r] + 1][field] = v]
        /\ overrun' = overrun
    BY <1>1 DEF Write
  <2>2. defIndex[r] + 1 \in 1..nDefn[r]
    BY <1>1 DEF TypeOK
  <2>3. DOMAIN defns = Readers /\ defns[r] \in [1..nDefn[r] -> Defns]
    BY DEF TypeOK
  <2>4. defns'[r] = [defns[r] EXCEPT ![defIndex[r] + 1] = [@ EXCEPT ![field] = v]]
    BY <2>1, <2>3
  <2>5. defns'[r] \in [1..nDefn[r] -> Defns]
    BY <2>2, <2>3, <2>4
  <2>6. \A u \in Readers : u # r => defns'[u] = defns[u]
    BY <2>1, <2>3
  <2> QED BY <2>1, <2>3, <2>5, <2>6 DEF TypeOK
<1>2. CASE ~(defIndex[r] < nDefn[r])
  BY <1>2 DEF Write, TypeOK
<1> QED BY <1>1, <1>2

\* What an entry does to an array.
LEMMA PushIs ==
  ASSUME NEW r, NEW field, NEW t, Push(r, field, t)
  PROVE  \E v : /\ Write(r, field, v)
                /\ defIndex[r] < nDefn[r] =>
                     v = Append(defns[r][defIndex[r] + 1][field], t)
  BY DEF Push

\* So does a line that stores a name or an entry.
LEMMA StoreTyped ==
  ASSUME TypeOK, PlaceInv, NEW r \in Readers, NameLine(r) \/ EntryAct(r)
  PROVE  /\ DOMAIN defns' = Readers /\ overrun' \in SUBSET Readers
         /\ \A u \in Readers : defns'[u] \in [1..nDefn[u] -> Defns]
<1>1. shape \in Shapes /\ InFile(shape, Due(r))
  BY DueIn
<1>2. CASE NameLine(r)
  <2>1. Kind(shape, Due(r)) = "name" /\ Due(r) = Line(r)
    BY <1>2, GetlineMoves DEF NameLine, Getline, Due, Line
  <2>2. Text(shape, Line(r)) \in Texts
    BY <1>1, <2>1, TextTyped
  <2>3. Write(r, "dectName", Text(shape, Line(r)))
    BY <1>2 DEF NameLine
  <2>4. \A x \in Defns : [x EXCEPT !["dectName"] = Text(shape, Line(r))] \in Defns
    BY <2>2 DEF Defns
  <2> QED BY <2>3, <2>4, WriteTyped
<1>3. CASE EntryAct(r)
  <2>1. HereKind(r) = "text" => HereText(r) \in Texts
    BY <1>1, <1>3, ActMoves, TextTyped DEF EntryAct, HereKind, HereText
  <2>2. ASSUME NEW field \in Sections, Push(r, field, HereText(r)),
               HereKind(r) = "text"
        PROVE  /\ DOMAIN defns' = Readers /\ overrun' \in SUBSET Readers
               /\ \A u \in Readers : defns'[u] \in [1..nDefn[u] -> Defns]
    <3>1. CASE defIndex[r] < nDefn[r]
      <4> DEFINE v == Append(defns[r][defIndex[r] + 1][field], HereText(r))
      <4>1. Write(r, field, v)
        BY <2>2, <3>1 DEF Push
      <4>2. defIndex[r] + 1 \in 1..nDefn[r] /\ defns[r] \in [1..nDefn[r] -> Defns]
        BY <3>1 DEF TypeOK
      <4>3. defns[r][defIndex[r] + 1] \in Defns
        BY <4>2
      <4>4. defns[r][defIndex[r] + 1][field] \in Seq(Texts)
        BY <4>3 DEF Defns, Sections
      <4>5. v \in Seq(Texts)
        BY <2>1, <2>2, <4>4
      <4>6. \A x \in Defns : [x EXCEPT ![field] = v] \in Defns
        <5> HIDE DEF v
        <5> QED BY <4>5 DEF Defns, Sections
      <4> QED BY <4>1, <4>6, WriteTyped
    <3>2. CASE ~(defIndex[r] < nDefn[r])
      BY <2>2, <3>2 DEF Push, Write, TypeOK
    <3> QED BY <3>1, <3>2
  <2>3. CASE Write(r, "description", HereText(r)) /\ HereKind(r) = "text"
    <3>1. \A x \in Defns : [x EXCEPT !["description"] = HereText(r)] \in Defns
      BY <2>1, <2>3 DEF Defns
    <3> QED BY <2>3, <3>1, WriteTyped
  <2>4. CASE defns' = defns /\ overrun' = overrun
    BY <2>4 DEF TypeOK
  <2>5. \/ \E field \in Sections : Push(r, field, HereText(r)) /\ HereKind(r) = "text"
        \/ Write(r, "description", HereText(r)) /\ HereKind(r) = "text"
        \/ defns' = defns /\ overrun' = overrun
    BY <1>3 DEF EntryAct, Sections
  <2> QED BY <2>2, <2>3, <2>4, <2>5
<1> QED BY <1>2, <1>3

\* The types after openDefFile or a step of a Reader.
LEMMA TypeStep ==
  ASSUME TypeOK, PlaceInv, openDefFile \/ \E r \in Readers : run(r)
  PROVE  TypeOK'
<1>1. CASE openDefFile
  <2>1. loads + 1 \in Readers /\ loads' = loads + 1 /\ loads' \in 0..MaxLoads
    BY <1>1, OpenMoves DEF Readers
  <2>2. \A u \in Readers : defns'[u] \in [1..nDefn'[u] -> Defns]
    <3>1. NoDefn \in Defns
      BY DEF NoDefn, Defns, NoText
    <3>2. SUFFICES ASSUME NEW u \in Readers
                   PROVE  defns'[u] \in [1..nDefn'[u] -> Defns]
      OBVIOUS
    <3>3. CASE u = loads + 1
      BY <1>1, <3>1, <3>3, OpenMoves
    <3>4. CASE u # loads + 1
      BY <1>1, <3>4, OpenMoves DEF TypeOK
    <3> QED BY <3>3, <3>4
  <2>3. overlapped' \in SUBSET Readers
    BY <1>1, <2>1 DEF openDefFile, TypeOK, Running
  <2>4. /\ UNCHANGED <<shape, status, tables, seen, pos, lnIndex, defIndex, tmp,
                       overrun, posted>>
    BY <1>1 DEF openDefFile
  <2> QED BY <1>1, <2>1, <2>2, <2>3, <2>4, OpenMoves DEF TypeOK
<1>2. ASSUME NEW r \in Readers, run(r)
      PROVE  TypeOK'
  <2>0. shape \in Shapes /\ InFile(shape, pos[r]) /\ InFile(shape, Due(r))
    BY DueIn
  <2>t. /\ tables \in Seq(Seq(Texts)) /\ seen \in [Readers -> Statuses]
        /\ lnIndex \in [Readers -> Nat \ {0}] /\ defIndex \in [Readers -> Nat]
        /\ tmp \in [Readers -> Seq(Texts)] /\ posted \in Seq(Nat)
        /\ status \in Statuses
    BY DEF TypeOK
  <2>1. UNCHANGED fileVars
    BY <1>2 DEF run, HeaderLine, NameLine, CloseLine, FlagsLine, OpenLine,
                OtherLine, OpenAct, SemiAct, DollarAct, EntryAct, Finish, Act
  <2>2. status' \in Statuses
    BY <1>2 DEF run, HeaderLine, NameLine, CloseLine, FlagsLine, OpenLine,
                OtherLine, OpenAct, SemiAct, DollarAct, EntryAct, Finish, TypeOK,
                Statuses, After
  <2>3. tables' \in Seq(Seq(Texts))
    <3>1. tables' = tables \/ tables' = Append(tables, tmp[r])
      BY <1>2 DEF run, HeaderLine, NameLine, CloseLine, FlagsLine, OpenLine,
                OtherLine, OpenAct, SemiAct, DollarAct, EntryAct, Finish
    <3>2. tmp[r] \in Seq(Texts)
      BY <2>t
    <3>3. Append(tables, tmp[r]) \in Seq(Seq(Texts))
      BY <2>t, <3>2, AppendProperties
    <3> QED BY <2>t, <3>1, <3>3
  <2>4. pc' \in [Readers -> {"off", "getline", "act", "done"}]
    <3>1. pc' = pc \/ \E q \in {"getline", "act", "done"} : pc' = [pc EXCEPT ![r] = q]
      BY <1>2 DEF run, HeaderLine, NameLine, CloseLine, FlagsLine, OpenLine,
                OtherLine, OpenAct, SemiAct, DollarAct, EntryAct, Finish, Getline,
                Act
    <3>2. pc \in [Readers -> {"off", "getline", "act", "done"}]
      BY DEF TypeOK
    <3> QED BY <3>1, <3>2
  <2>5. seen' \in [Readers -> Statuses]
    <3>1. seen' = seen \/ seen' = [seen EXCEPT ![r] = status]
      BY <1>2 DEF run, HeaderLine, NameLine, CloseLine, FlagsLine, OpenLine,
                OtherLine, OpenAct, SemiAct, DollarAct, EntryAct, Finish, Act
    <3> QED BY <2>t, <3>1
  <2>6. /\ pos' \in [Readers -> Nat \X Parts \X Nat]
        /\ \A u \in Readers : InFile(shape', pos'[u])
    <3>1. CASE pos' = pos
      BY <2>1, <3>1 DEF TypeOK
    <3>2. CASE pos' = [pos EXCEPT ![r] = Line(r)]
      <4>1. InFile(shape, Line(r))
        BY <2>0, BehindIn DEF Line
      <4>2. Line(r) \in Nat \X Parts \X Nat
        BY <4>1 DEF InFile
      <4>3. pos' \in [Readers -> Nat \X Parts \X Nat]
        BY <3>2, <4>2 DEF TypeOK
      <4>4. \A u \in Readers : pos'[u] = IF u = r THEN Line(r) ELSE pos[u]
        BY <3>2 DEF TypeOK
      <4> QED BY <2>1, <4>1, <4>3, <4>4 DEF TypeOK
    <3> QED BY <1>2, <3>1, <3>2
            DEF run, HeaderLine, NameLine, CloseLine, FlagsLine, OpenLine,
                OtherLine, OpenAct, SemiAct, DollarAct, EntryAct, Finish, Getline,
                Act
  <2>7. lnIndex' \in [Readers -> Nat \ {0}]
    <3>1. lnIndex' = lnIndex \/ lnIndex' = [lnIndex EXCEPT ![r] = @ + 1]
      BY <1>2 DEF run, HeaderLine, NameLine, CloseLine, FlagsLine, OpenLine,
                OtherLine, OpenAct, SemiAct, DollarAct, EntryAct, Finish, Getline,
                Act
    <3> QED BY <2>t, <3>1
  <2>8. defIndex' \in [Readers -> Nat]
    <3>1. defIndex' = defIndex \/ defIndex' = [defIndex EXCEPT ![r] = @ + 1]
      BY <1>2 DEF run, HeaderLine, NameLine, CloseLine, FlagsLine, OpenLine,
                OtherLine, OpenAct, SemiAct, DollarAct, EntryAct, Finish, Act
    <3>2. defIndex[r] \in Nat /\ defIndex[r] + 1 \in Nat
      BY <2>t
    <3> QED BY <2>t, <3>1, <3>2
  <2>9. tmp' \in [Readers -> Seq(Texts)]
    <3>1. CASE EntryAct(r)
      <4>1. HereKind(r) = "text" => HereText(r) \in Texts
        BY <2>0, TextTyped DEF HereKind, HereText
      <4>2. <<0, "table", 0>> \in Texts
        BY DEF Texts
      <4>3. \E t \in Texts : tmp' = tmp \/ tmp' = [tmp EXCEPT ![r] = Append(@, t)]
        BY <3>1, <4>1, <4>2 DEF EntryAct
      <4>4. tmp[r] \in Seq(Texts)
        BY <2>t
      <4>5. \A t \in Texts : Append(tmp[r], t) \in Seq(Texts)
        BY <4>4, AppendProperties
      <4> QED BY <2>t, <4>3, <4>5
    <3>2. CASE ~EntryAct(r)
      <4>1. tmp' = tmp \/ tmp' = [tmp EXCEPT ![r] = <<>>]
        <5>1. CASE DollarAct(r)
          BY <5>1 DEF DollarAct, Cleared
        <5>2. CASE ~DollarAct(r)
          BY <1>2, <3>2, <5>2 DEF run, HeaderLine, NameLine, CloseLine, FlagsLine,
                                  OpenLine, OtherLine, OpenAct, SemiAct, Finish
        <5> QED BY <5>1, <5>2
      <4>2. <<>> \in Seq(Texts)
        OBVIOUS
      <4> QED BY <2>t, <4>1, <4>2
    <3> QED BY <3>1, <3>2
  <2>10. /\ DOMAIN defns' = Readers /\ overrun' \in SUBSET Readers
         /\ \A u \in Readers : defns'[u] \in [1..nDefn'[u] -> Defns]
    <3>1. CASE NameLine(r) \/ EntryAct(r)
      BY <2>1, <3>1, StoreTyped
    <3>2. CASE ~(NameLine(r) \/ EntryAct(r))
      <4>1. defns' = defns /\ overrun' = overrun
        BY <1>2, <3>2 DEF run, HeaderLine, CloseLine, FlagsLine, OpenLine,
                OtherLine, OpenAct, SemiAct, DollarAct, Finish
      <4> QED BY <2>1, <4>1 DEF TypeOK
    <3> QED BY <3>1, <3>2
  <2>11. posted' \in Seq(Nat)
    <3>1. posted' = posted \/ posted' = Append(posted, defIndex[r])
      BY <1>2 DEF run, HeaderLine, NameLine, CloseLine, FlagsLine, OpenLine,
                OtherLine, OpenAct, SemiAct, DollarAct, EntryAct, Finish, Act
    <3>2. defIndex[r] \in Nat
      BY <2>t
    <3>3. Append(posted, defIndex[r]) \in Seq(Nat)
      BY <2>t, <3>2, AppendProperties
    <3> QED BY <2>t, <3>1, <3>3
  <2> QED BY <2>1, <2>2, <2>3, <2>4, <2>5, <2>6, <2>7, <2>8, <2>9, <2>10, <2>11
          DEF TypeOK
<1> QED BY <1>1, <1>2
-------------------------------------------------------------------------------
(* What a line writes into an array. *)

Fields == {"dectName", "description"} \cup Sections

\* The object x with the line p in a field, or behind the entries of a section.
Stored(x, field, p) ==
  [x EXCEPT ![field] = IF field \in Sections THEN Append(x[field], p) ELSE p]

\* The line that r treats belongs into a field, as r sees it.
Into(r, field) ==
  IF field = "dectName" THEN NameLine(r) /\ Kind(shape, Due(r)) = "name"
  ELSE /\ EntryAct(r) /\ Kind(shape, Due(r)) = "text"
       /\ seen[r] = CASE field = "description" -> "PARS_DSCR"
                      [] field = "folder"      -> "PARS_FOLDER"
                      [] field = "file"        -> "PARS_FILE"
                      [] field = "reg"         -> "PARS_REG"

\* Storing an entry changes its own field only.
LEMMA StoredTyped ==
  ASSUME NEW x \in Defns, NEW field \in Fields, NEW p \in Texts
  PROVE  /\ Stored(x, field, p) \in Defns
         /\ \A s \in Sections : s # field => Stored(x, field, p)[s] = x[s]
         /\ field \in Sections => Stored(x, field, p)[field] = Append(x[field], p)
         /\ field \notin Sections => Stored(x, field, p)[field] = p
         /\ field # "dectName" => Stored(x, field, p).dectName = x.dectName
         /\ field # "description" => Stored(x, field, p).description = x.description
<1>1. \A s \in Sections : x[s] \in Seq(Texts)
  BY DEF Defns, Sections
<1>2. CASE field \in Sections
  <2>1. Append(x[field], p) \in Seq(Texts)
    BY <1>1, <1>2, AppendProperties
  <2>2. Stored(x, field, p) = [x EXCEPT ![field] = Append(x[field], p)]
    BY <1>2 DEF Stored
  <2> HIDE DEF Stored
  <2>3. Stored(x, field, p) \in Defns
    BY <1>2, <2>1, <2>2 DEF Defns, Sections
  <2> QED BY <1>2, <2>1, <2>2, <2>3 DEF Defns, Sections
<1>3. CASE field \in {"dectName", "description"}
  <2>1. field \notin Sections
    BY <1>3 DEF Sections
  <2>2. Stored(x, field, p) = [x EXCEPT ![field] = p]
    BY <2>1 DEF Stored
  <2> QED BY <1>3, <2>1, <2>2 DEF Defns, Sections
<1> QED BY <1>2, <1>3 DEF Fields

\* A line is stored in the one definition its Reader is at, in the field of the
\* status, or nowhere, or past the array.
LEMMA StoreIs ==
  ASSUME TypeOK, PlaceInv, NEW r \in Readers, NameLine(r) \/ EntryAct(r)
  PROVE  \/ /\ EntryAct(r) /\ defns' = defns /\ overrun' = overrun
            /\ \A field \in Fields : ~Into(r, field)
         \/ \E field \in Fields :
              /\ Into(r, field)
              /\ IF defIndex[r] < nDefn[r]
                 THEN /\ overrun' = overrun
                      /\ \A u \in Readers : u # r => defns'[u] = defns[u]
                      /\ defns'[r] = [defns[r] EXCEPT ![defIndex[r] + 1] =
                                        Stored(@, field, Due(r))]
                 ELSE overrun' = overrun \cup {r} /\ defns' = defns
<1>0. DOMAIN defns = Readers /\ defns[r] \in [1..nDefn[r] -> Defns]
      /\ defIndex[r] \in Nat /\ nDefn[r] \in Nat
  BY DEF TypeOK
<1>1. ASSUME NEW field \in Fields, NEW v, Write(r, field, v),
             defIndex[r] < nDefn[r] =>
               v = IF field \in Sections
                   THEN Append(defns[r][defIndex[r] + 1][field], Due(r)) ELSE Due(r)
      PROVE  IF defIndex[r] < nDefn[r]
             THEN /\ overrun' = overrun
                  /\ \A u \in Readers : u # r => defns'[u] = defns[u]
                  /\ defns'[r] = [defns[r] EXCEPT ![defIndex[r] + 1] =
                                    Stored(@, field, Due(r))]
             ELSE overrun' = overrun \cup {r} /\ defns' = defns
  <2>1. CASE defIndex[r] < nDefn[r]
    <3>1. /\ defns' = [defns EXCEPT ![r][defIndex[r] + 1][field] = v]
          /\ overrun' = overrun
      BY <1>1, <2>1 DEF Write
    <3>2. /\ \A u \in Readers : u # r => defns'[u] = defns[u]
          /\ defns'[r] = [defns[r] EXCEPT ![defIndex[r] + 1] = [@ EXCEPT ![field] = v]]
      BY <1>0, <3>1
    <3>3. Stored(defns[r][defIndex[r] + 1], field, Due(r)) =
            [defns[r][defIndex[r] + 1] EXCEPT ![field] = v]
      BY <1>1, <2>1 DEF Stored
    <3> QED BY <2>1, <3>1, <3>2, <3>3
  <2>2. CASE ~(defIndex[r] < nDefn[r])
    BY <1>1, <2>2 DEF Write
  <2> QED BY <2>1, <2>2
<1>2. CASE NameLine(r)
  <2>1. Kind(shape, Due(r)) = "name" /\ Due(r) = Line(r)
    BY <1>2, GetlineMoves DEF NameLine, Getline, Due, Line
  <2>2. Write(r, "dectName", Due(r))
    BY <1>2, <2>1, DueIn, TextTyped DEF NameLine
  <2>3. "dectName" \in Fields /\ "dectName" \notin Sections /\ Into(r, "dectName")
    BY <1>2, <2>1 DEF Fields, Into, Sections
  <2> QED BY <1>1, <2>2, <2>3
<1>3. CASE EntryAct(r)
  <2>1. pos[r] = Due(r) /\ Kind(shape, Due(r)) = HereKind(r)
    BY <1>3, ActMoves DEF EntryAct, HereKind
  <2>2. HereKind(r) = "text" => HereText(r) = Due(r)
    BY <2>1, DueIn, TextTyped DEF HereText
  <2>3. ASSUME NEW field \in Sections, Push(r, field, HereText(r)),
               Into(r, field)
        PROVE  IF defIndex[r] < nDefn[r]
               THEN /\ overrun' = overrun
                    /\ \A u \in Readers : u # r => defns'[u] = defns[u]
                    /\ defns'[r] = [defns[r] EXCEPT ![defIndex[r] + 1] =
                                      Stored(@, field, Due(r))]
               ELSE overrun' = overrun \cup {r} /\ defns' = defns
    <3>1. HereText(r) = Due(r)
      BY <2>1, <2>2, <2>3 DEF Into, Sections
    <3>2. PICK v : /\ Write(r, field, v)
                   /\ defIndex[r] < nDefn[r] =>
                        v = Append(defns[r][defIndex[r] + 1][field], Due(r))
      BY <2>3, <3>1, PushIs
    <3> QED BY <1>1, <3>2 DEF Fields
  <2>4. CASE HereKind(r) = "text" /\ seen[r] = "PARS_DSCR"
    <3>1. Write(r, "description", HereText(r)) /\ Into(r, "description")
      BY <1>3, <2>1, <2>4 DEF EntryAct, Into
    <3>2. "description" \in Fields /\ "description" \notin Sections
      BY DEF Fields, Sections
    <3> QED BY <1>1, <2>2, <2>4, <3>1, <3>2
  <2>5. CASE HereKind(r) = "text" /\ seen[r] = "PARS_FOLDER"
    <3>1. Push(r, "folder", HereText(r)) /\ Into(r, "folder")
      BY <1>3, <2>1, <2>5 DEF EntryAct, Into
    <3> QED BY <2>3, <3>1 DEF Fields, Sections
  <2>6. CASE HereKind(r) = "text" /\ seen[r] = "PARS_FILE"
    <3>1. Push(r, "file", HereText(r)) /\ Into(r, "file")
      BY <1>3, <2>1, <2>6 DEF EntryAct, Into
    <3> QED BY <2>3, <3>1 DEF Fields, Sections
  <2>7. CASE HereKind(r) = "text" /\ seen[r] = "PARS_REG"
    <3>1. Push(r, "reg", HereText(r)) /\ Into(r, "reg")
      BY <1>3, <2>1, <2>7 DEF EntryAct, Into
    <3> QED BY <2>3, <3>1 DEF Fields, Sections
  <2>8. CASE ~(HereKind(r) = "text"
               /\ seen[r] \in {"PARS_DSCR", "PARS_FOLDER", "PARS_FILE", "PARS_REG"})
    <3>1. defns' = defns /\ overrun' = overrun
      BY <1>3, <2>8 DEF EntryAct
    <3>2. \A field \in Fields : ~Into(r, field)
      <4>1. ~NameLine(r)
        BY <1>3 DEF NameLine, Getline, EntryAct, Act
      <4> QED BY <2>1, <2>8, <4>1 DEF Into, Fields, Sections
    <3> QED BY <1>3, <3>1, <3>2
  <2> QED BY <2>4, <2>5, <2>6, <2>7, <2>8
<1> QED BY <1>2, <1>3

\* No other line writes into an array.
LEMMA NoStore ==
  ASSUME NEW r \in Readers, run(r), ~NameLine(r), ~EntryAct(r)
  PROVE  defns' = defns /\ overrun' = overrun
  BY DEF run, HeaderLine, CloseLine, FlagsLine, OpenLine, OtherLine, OpenAct,
         SemiAct, DollarAct, Finish
-------------------------------------------------------------------------------
(* No entry in another definition. *)

Unmixed(x, d) ==
  \A s \in Sections : \A i \in 1..Len(x[s]) : x[s][i][1] = d /\ x[s][i][2] # "table"

MixedInv ==
  \A r \in Readers : \A d \in 1..nDefn[r] : d <= Len(shape.defs) => Unmixed(defns[r][d], d)

\* MixedInv says more than NotMixed.
LEMMA MixedInvIs == MixedInv => NotMixed
<1>1. ASSUME NEW x, NEW d
      PROVE  Unmixed(x, d) <=>
               \A s \in Sections : \A i \in 1..Len(x[s]) :
                 x[s][i][1] = d /\ x[s][i][2] # "table"
  BY DEF Unmixed
<1>2. ASSUME NEW r \in Readers, NEW d \in 1..nDefn[r]
      PROVE  (d <= Len(shape.defs) => Unmixed(defns[r][d], d)) <=>
             \A s \in Sections : d <= Len(shape.defs) =>
               \A i \in 1..Len(defns[r][d][s]) :
                 defns[r][d][s][i][1] = d /\ defns[r][d][s][i][2] # "table"
  BY <1>1
<1> QED BY <1>2 DEF MixedInv, NotMixed

\* A line of the definition itself goes into it.
LEMMA StoredUnmixed ==
  ASSUME NEW x \in Defns, NEW field \in Fields, NEW p \in Texts, NEW d,
         Unmixed(x, d), p[1] = d, p[2] # "table"
  PROVE  Unmixed(Stored(x, field, p), d)
<1> SUFFICES ASSUME NEW s \in Sections, NEW i \in 1..Len(Stored(x, field, p)[s])
             PROVE  LET e == Stored(x, field, p)[s][i]
                    IN  e[1] = d /\ e[2] # "table"
  BY DEF Unmixed
<1>1. CASE s = field
  <2>1. Stored(x, field, p)[s] = Append(x[s], p) /\ x[s] \in Seq(Texts)
    BY <1>1, StoredTyped DEF Defns, Sections
  <2>2. /\ Len(Append(x[s], p)) = Len(x[s]) + 1
        /\ \A j \in 1..Len(x[s]) : Append(x[s], p)[j] = x[s][j]
        /\ Append(x[s], p)[Len(x[s]) + 1] = p
    BY <2>1, AppendProperties
  <2>3. CASE i = Len(x[s]) + 1
    BY <2>1, <2>2, <2>3
  <2>4. CASE i # Len(x[s]) + 1
    <3>1. Len(x[s]) \in Nat
      BY <2>1
    <3>2. i \in 1..Len(x[s])
      BY <2>1, <2>2, <2>4, <3>1
    <3> QED BY <2>1, <2>2, <3>2 DEF Unmixed
  <2> QED BY <2>3, <2>4
<1>2. CASE s # field
  <2>1. Stored(x, field, p)[s] = x[s]
    BY <1>2, StoredTyped
  <2> QED BY <2>1 DEF Unmixed
<1> QED BY <1>1, <1>2

\* A line that belongs into a field, and the definition that is due.
LEMMA IntoIs ==
  ASSUME TypeOK, PlaceInv, NEW r \in Readers, NEW field \in Fields, Into(r, field)
  PROVE  /\ Due(r) \in Texts /\ Text(shape, Due(r)) = Due(r)
         /\ Kind(shape, Due(r)) \in {"name", "text"}
         /\ Due(r)[2] = "table" => defIndex[r] = Len(shape.defs)
         /\ Due(r)[2] # "table" => /\ Due(r)[1] = defIndex[r] + 1
                                    /\ Due(r)[1] \in 1..Len(shape.defs)
<1>1. Kind(shape, Due(r)) \in {"name", "text"}
  BY DEF Into
<1>2. defIndex[r] = Closed(shape, Due(r))
  BY DEF PlaceInv, Placed
<1> QED BY <1>1, <1>2, DueIn, TextTyped

\* MixedInv after a step: a Reader stores a line of a definition in that definition.
LEMMA MixedStep ==
  ASSUME TypeOK, PlaceInv, MixedInv, openDefFile \/ \E r \in Readers : run(r)
  PROVE  MixedInv'
<1>1. CASE openDefFile
  <2>1. SUFFICES ASSUME NEW u \in Readers, NEW d \in 1..nDefn'[u],
                        d <= Len(shape'.defs)
                 PROVE  Unmixed(defns'[u][d], d)
    BY DEF MixedInv, Unmixed
  <2>2. CASE u = loads + 1
    <3>1. defns'[u][d] = NoDefn
      BY <1>1, <2>1, <2>2, OpenMoves
    <3> QED BY <3>1 DEF Unmixed, NoDefn, Sections
  <2>3. CASE u # loads + 1
    <3>1. shape' = shape
      BY <1>1 DEF openDefFile
    <3> QED BY <1>1, <2>1, <2>3, <3>1, OpenMoves DEF MixedInv
  <2> QED BY <2>2, <2>3
<1>2. ASSUME NEW r \in Readers, run(r)
      PROVE  MixedInv'
  <2>1. shape' = shape /\ nDefn' = nDefn
    BY <1>2 DEF run, HeaderLine, NameLine, CloseLine, FlagsLine, OpenLine,
                OtherLine, OpenAct, SemiAct, DollarAct, EntryAct, Finish, Act
  <2>2. CASE defns' = defns
    BY <2>1, <2>2 DEF MixedInv, Unmixed
  <2>3. CASE defns' # defns
    <3>1. NameLine(r) \/ EntryAct(r)
      BY <1>2, <2>3, NoStore
    <3>2. PICK field \in Fields :
            /\ Into(r, field) /\ defIndex[r] < nDefn[r]
            /\ \A u \in Readers : u # r => defns'[u] = defns[u]
            /\ defns'[r] = [defns[r] EXCEPT ![defIndex[r] + 1] =
                              Stored(@, field, Due(r))]
      BY <2>3, <3>1, StoreIs
    <3>3. /\ Due(r) \in Texts
          /\ Due(r)[2] = "table" => defIndex[r] = Len(shape.defs)
          /\ Due(r)[2] # "table" => Due(r)[1] = defIndex[r] + 1
      BY <3>2, IntoIs
    <3>4. defns[r] \in [1..nDefn[r] -> Defns] /\ defIndex[r] \in Nat
          /\ Len(shape.defs) \in Nat
      BY FileTyped DEF TypeOK
    <3>5. SUFFICES ASSUME NEW u \in Readers, NEW d \in 1..nDefn[u],
                          d <= Len(shape.defs)
                   PROVE  Unmixed(defns'[u][d], d)
      BY <2>1 DEF MixedInv, Unmixed
    <3>6. Unmixed(defns[u][d], d)
      BY <3>5 DEF MixedInv
    <3>7. CASE u = r /\ d = defIndex[r] + 1
      <4>1. Due(r)[2] # "table" /\ Due(r)[1] = d
        BY <3>3, <3>4, <3>5, <3>7
      <4>2. defns'[u][d] = Stored(defns[u][d], field, Due(r)) /\ defns[u][d] \in Defns
        BY <3>2, <3>4, <3>5, <3>7
      <4> QED BY <3>3, <3>6, <4>1, <4>2, StoredUnmixed
    <3>8. CASE ~(u = r /\ d = defIndex[r] + 1)
      <4>1. defns'[u][d] = defns[u][d]
        BY <3>2, <3>4, <3>5, <3>8
      <4> QED BY <3>6, <4>1
    <3> QED BY <3>7, <3>8
  <2> QED BY <2>2, <2>3
<1> QED BY <1>1, <1>2
-------------------------------------------------------------------------------
(* What is over when the next line comes. *)

\* Between two lines of a section there is no other.
LEMMA BehindFirst ==
  ASSUME NEW f \in Shapes, NEW p, InFile(f, p)
  PROVE  \/ Behind(f, p)[3] = 1
         \/ Behind(f, p)[2] = "header"
         \/ /\ p[2] \in DOMAIN Closing /\ ~(p[3] > Entries(f, p[1], p[2]))
            /\ Behind(f, p) = <<p[1], p[2], p[3] + 1>>
<1>1. /\ \A d \in Nat \ {0} : Definition(f, d)[3] = 1
      /\ \A d \in Nat \ {0} : Table(f, d)[3] = 1
  BY DEF Definition, Table
<1>2. CASE p[2] = "header"
  BY <1>1, <1>2, PlaceIs, BehindIs
<1>3. CASE p[2] \in {"name", "open", "gap", "flags", "end"}
  BY <1>1, <1>3, BehindIs
<1>4. CASE p[2] \in DOMAIN Closing /\ ~(p[3] > Entries(f, p[1], p[2]))
  BY <1>4, BehindIs
<1>5. CASE p[2] \in {"descr", "folder", "file"} /\ p[3] > Entries(f, p[1], p[2])
  BY <1>5, BehindIs
<1>6. CASE p[2] \in {"reg", "table"} /\ p[3] > Entries(f, p[1], p[2])
  <2>1. p[1] + 1 \in Nat \ {0}
    BY PlaceIs
  <2> QED BY <1>1, <1>6, <2>1, BehindIs
<1> QED BY <1>2, <1>3, <1>4, <1>5, <1>6, PlaceCases

\* Which sections are over, by the part.
LEMMA PassedIs ==
  ASSUME NEW p, p[1] \in Nat, NEW d \in Nat,
         NEW s \in {"name", "descr", "folder", "file", "reg"}
  PROVE  /\ p[2] = "header" => ~Passed(p, d, s)
         /\ p[2] \in {"gap", "flags", "table", "end"} => Passed(p, d, s)
         /\ p[2] = "name" => (Passed(p, d, s) <=> p[1] > d)
         /\ p[2] \in {"open", "descr"} =>
              (Passed(p, d, s) <=> p[1] > d \/ (p[1] = d /\ s = "name"))
         /\ p[2] = "folder" =>
              (Passed(p, d, s) <=> p[1] > d \/ (p[1] = d /\ s \in {"name", "descr"}))
         /\ p[2] = "file" =>
              (Passed(p, d, s) <=>
                 p[1] > d \/ (p[1] = d /\ s \in {"name", "descr", "folder"}))
         /\ p[2] = "reg" =>
              (Passed(p, d, s) <=>
                 p[1] > d \/ (p[1] = d /\ s \in {"name", "descr", "folder", "file"}))
<1>1. InDefns = {"name", "open", "descr", "folder", "file", "reg"}
  BY DEF InDefns, Sections
<1>3. CASE s = "name"
  BY <1>1, <1>3 DEF Passed, Later
<1>4. CASE s = "descr"
  BY <1>1, <1>4 DEF Passed, Later
<1>5. CASE s = "folder"
  BY <1>1, <1>5 DEF Passed, Later
<1>6. CASE s = "file"
  BY <1>1, <1>6 DEF Passed, Later
<1>7. CASE s = "reg"
  BY <1>1, <1>7 DEF Passed, Later
<1> QED BY <1>3, <1>4, <1>5, <1>6, <1>7

\* The name and a section are over when their last line is.
LEMMA PassedStep ==
  ASSUME NEW f \in Shapes, NEW p, InFile(f, p), NEW d \in 1..Len(f.defs),
         NEW s \in {"name", "descr", "folder", "file", "reg"}
  PROVE  /\ p[1] = d /\ p[2] = s => ~Passed(p, d, s)
         /\ Passed(Behind(f, p), d, s) <=>
              \/ Passed(p, d, s)
              \/ p[1] = d /\ p[2] = s /\ (s = "name" \/ p[3] > Entries(f, d, s))
<1>0. /\ p = <<p[1], p[2], p[3]>> /\ p[1] \in Nat /\ d \in Nat
      /\ Len(f.defs) \in Nat
  BY PlaceIs, FileTyped
<1>1. p[1] = d /\ p[2] = s => ~Passed(p, d, s)
  BY <1>0, PassedIs
<1>2. ASSUME NEW e \in Nat \ {0}, e <= Len(f.defs) + 1
      PROVE  Passed(Definition(f, e), d, s) <=> e > d
  BY <1>0, <1>2, PassedIs DEF Definition
<1>3. \A e \in Nat : Passed(Table(f, e), d, s)
  BY <1>0, PassedIs DEF Table
<1>4. CASE p[2] = "header"
  <2>1. ~Passed(p, d, s) /\ ~Passed(Definition(f, 1), d, s)
    BY <1>0, <1>2, <1>4, PassedIs
  <2> QED BY <1>0, <1>4, <2>1, BehindIs, PassedIs
<1>5. CASE p[2] \in {"name", "open"}
  <2>1. /\ Behind(f, p)[1] = p[1]
        /\ Behind(f, p)[2] = IF p[2] = "name" THEN "open" ELSE "descr"
    BY <1>5, BehindIs
  <2>2. Passed(Behind(f, p), d, s) <=> p[1] > d \/ (p[1] = d /\ s = "name")
    BY <1>0, <1>5, <2>1, PassedIs
  <2>3. /\ p[2] = "name" => (Passed(p, d, s) <=> p[1] > d)
        /\ p[2] = "open" => (Passed(p, d, s) <=> p[1] > d \/ (p[1] = d /\ s = "name"))
    BY <1>0, PassedIs
  <2> QED BY <1>1, <1>5, <2>2, <2>3
<1>6. CASE p[2] \in {"gap", "flags", "end"}
  BY <1>0, <1>3, <1>6, BehindIs, PassedIs
<1>7. CASE p[2] \in DOMAIN Closing /\ ~(p[3] > Entries(f, p[1], p[2]))
  <2>1. Behind(f, p) = <<p[1], p[2], p[3] + 1>>
    BY <1>7, BehindIs
  <2> QED BY <1>0, <1>7, <2>1, PassedIs, ClosingParts
<1>8. CASE p[2] \in {"descr", "folder", "file"} /\ p[3] > Entries(f, p[1], p[2])
  <2>1. /\ Behind(f, p)[1] = p[1]
        /\ Behind(f, p)[2] = CASE p[2] = "descr"  -> "folder"
                              [] p[2] = "folder" -> "file"
                              [] p[2] = "file"   -> "reg"
    BY <1>8, BehindIs
  <2>2. Passed(Behind(f, p), d, s) <=> Passed(p, d, s) \/ (p[1] = d /\ p[2] = s)
    BY <1>0, <1>8, <2>1, PassedIs
  <2>3. p[1] = d /\ p[2] = s => p[3] > Entries(f, d, s)
    BY <1>8
  <2> QED BY <1>1, <2>2, <2>3
<1>9. CASE p[2] = "reg" /\ p[3] > Entries(f, p[1], p[2])
  <2>1. /\ Behind(f, p) = Definition(f, p[1] + 1)
        /\ p[1] + 1 \in Nat \ {0} /\ p[1] + 1 <= Len(f.defs) + 1
    BY <1>0, <1>9, BehindIs, PlaceIs
  <2>2. Passed(Behind(f, p), d, s) <=> p[1] + 1 > d
    BY <1>2, <2>1
  <2>3. Passed(p, d, s) <=> p[1] > d \/ (p[1] = d /\ s # "reg")
    BY <1>0, <1>9, PassedIs
  <2>4. p[1] = d /\ p[2] = s => p[3] > Entries(f, d, s)
    BY <1>9
  <2>5. p[1] + 1 > d <=> p[1] > d \/ p[1] = d
    BY <1>0
  <2> QED BY <1>1, <1>9, <2>2, <2>3, <2>4, <2>5
<1>10. CASE p[2] = "table" /\ p[3] > Entries(f, p[1], p[2])
  BY <1>0, <1>3, <1>10, BehindIs, PassedIs
<1> QED BY <1>1, <1>4, <1>5, <1>6, <1>7, <1>8, <1>9, <1>10, PlaceCases

\* Every line of a section adds itself to what comes before the next.
LEMMA BeforeStep ==
  ASSUME NEW f \in Shapes, NEW p, InFile(f, p), NEW d \in 1..Len(f.defs),
         NEW s \in {"descr", "folder", "file", "reg"}
  PROVE  /\ p[1] = d /\ p[2] = s => Before(f, p, d, s) = p[3] - 1
         /\ Before(f, Behind(f, p), d, s) =
              IF p[1] = d /\ p[2] = s /\ ~(p[3] > Entries(f, d, s)) THEN p[3]
              ELSE Before(f, p, d, s)
<1>0. p[1] = d /\ p[2] = s => ~Passed(p, d, s) /\ Before(f, p, d, s) = p[3] - 1
  BY PassedStep DEF Before
<1>1. Entries(f, d, s) \in Nat
  BY EntriesTyped, ClosingParts
<1>2. CASE p[1] = d /\ p[2] = s /\ ~(p[3] > Entries(f, d, s))
  <2>1. Behind(f, p) = <<d, s, p[3] + 1>> /\ p[3] \in Nat
    BY <1>2, BehindIs, PlaceIs, ClosingParts
  <2>2. ~Passed(Behind(f, p), d, s)
    BY <1>0, <1>2, PassedStep
  <2>3. Before(f, Behind(f, p), d, s) = (p[3] + 1) - 1
    BY <2>1, <2>2 DEF Before
  <2> QED BY <1>0, <1>2, <2>1, <2>3
<1>3. CASE p[1] = d /\ p[2] = s /\ p[3] > Entries(f, d, s)
  <2>1. Before(f, Behind(f, p), d, s) = Entries(f, d, s)
    BY <1>3, PassedStep DEF Before
  <2>2. p[3] = Entries(f, d, s) + 1
    BY <1>1, <1>3, PlaceIs, ClosingParts
  <2> QED BY <1>0, <1>1, <1>3, <2>1, <2>2
<1>4. CASE ~(p[1] = d /\ p[2] = s)
  <2>1. Passed(Behind(f, p), d, s) <=> Passed(p, d, s)
    BY <1>4, PassedStep
  <2>2. Behind(f, p)[1] = d /\ Behind(f, p)[2] = s => Behind(f, p)[3] = 1
    BY <1>4, BehindFirst
  <2> QED BY <1>4, <2>1, <2>2 DEF Before
<1> QED BY <1>0, <1>2, <1>3, <1>4
-------------------------------------------------------------------------------
(* A Reader that is alone stores what the file says. *)

PartOf(field) == CASE field = "dectName"    -> "name"
                   [] field = "description" -> "descr"
                   [] field \in Sections    -> field

\* The first n entries of a section, as a sequence that grows at its end.
LEMMA TextedIs ==
  ASSUME NEW d \in Nat, NEW s \in {"folder", "file", "reg", "table"}, NEW n \in Nat
  PROVE  /\ Texted(d, s, n) \in Seq(Texts) /\ Len(Texted(d, s, n)) = n
         /\ Texted(d, s, 0) = <<>>
         /\ Append(Texted(d, s, n), <<d, s, n + 1>>) = Texted(d, s, n + 1)
<1>1. \A k \in Nat : <<d, s, k>> \in Texts
  BY DEF Texts
<1>2. \A m \in Nat : Texted(d, s, m) \in Seq(Texts) /\ Len(Texted(d, s, m)) = m
  <2> SUFFICES ASSUME NEW m \in Nat
               PROVE  Texted(d, s, m) \in Seq(Texts) /\ Len(Texted(d, s, m)) = m
    OBVIOUS
  <2>1. Texted(d, s, m) \in [1..m -> Texts]
    BY <1>1 DEF Texted
  <2> QED BY <2>1, LenProperties
<1>3. Append(Texted(d, s, n), <<d, s, n + 1>>) = Texted(d, s, n + 1)
  <2> DEFINE t == Append(Texted(d, s, n), <<d, s, n + 1>>)
  <2>1. /\ t \in Seq(Texts) /\ Len(t) = n + 1
        /\ \A i \in 1..n : t[i] = Texted(d, s, n)[i]
        /\ t[n + 1] = <<d, s, n + 1>>
    <3>1. /\ Texted(d, s, n) \in Seq(Texts) /\ Len(Texted(d, s, n)) = n
          /\ <<d, s, n + 1>> \in Texts
      BY <1>1, <1>2
    <3> QED BY <3>1, AppendProperties
  <2>2. \A i \in 1..n + 1 : t[i] = Texted(d, s, n + 1)[i]
    BY <2>1 DEF Texted
  <2> HIDE DEF t
  <2>3. Texted(d, s, n + 1) \in Seq(Texts) /\ Len(Texted(d, s, n + 1)) = n + 1
    BY <1>2
  <2>4. t = Texted(d, s, n + 1)
    BY <2>1, <2>2, <2>3, SeqEqual
  <2> QED BY <2>4 DEF t
<1> QED BY <1>2, <1>3

\* A line that is stored where it belongs.
LEMMA SoFarStored ==
  ASSUME NEW f \in Shapes, NEW p, InFile(f, p), NEW d \in 1..Len(f.defs),
         NEW x \in Defns, NEW field \in Fields, SoFar(f, x, d, p),
         p[1] = d, p[2] = PartOf(field), Kind(f, p) \in {"name", "text"}
  PROVE  SoFar(f, Stored(x, field, p), d, Behind(f, p))
<1> DEFINE q == Behind(f, p)
           y == Stored(x, field, p)
<1>0. /\ p \in Texts /\ p = <<d, p[2], p[3]>> /\ d \in Nat /\ p[3] \in Nat
  BY TextTyped, PlaceIs, FileTyped
<1>1. /\ p[2] # "name" => (Passed(q, d, "name") <=> Passed(p, d, "name"))
      /\ p[2] = "name" => Passed(q, d, "name")
  BY PassedStep
<1>2. \A s \in {"descr", "folder", "file", "reg"} :
        p[2] # s => Before(f, q, d, s) = Before(f, p, d, s)
  BY BeforeStep
<1>3. PartOf(field) = CASE field = "dectName"    -> "name"
                        [] field = "description" -> "descr"
                        [] field = "folder"      -> "folder"
                        [] field = "file"        -> "file"
                        [] field = "reg"         -> "reg"
  BY DEF PartOf, Fields, Sections
<1>4. y.dectName = IF Passed(q, d, "name") THEN <<d, "name", 1>> ELSE NoText
  <2>1. CASE field = "dectName"
    <3>1. p[2] = "name" /\ y.dectName = p /\ p[3] = 1
      BY <1>0, <1>3, <2>1, StoredTyped, PlaceIs DEF Sections
    <3> QED BY <1>0, <1>1, <3>1
  <2>2. CASE field # "dectName"
    <3>1. p[2] # "name" /\ y.dectName = x.dectName
      BY <1>0, <1>3, <2>2, StoredTyped DEF Fields, Sections
    <3> QED BY <1>1, <3>1 DEF SoFar
  <2> QED BY <2>1, <2>2
<1>5. y.description = IF Before(f, q, d, "descr") > 0 /\ f.defs[d].descr
                      THEN <<d, "descr", 1>> ELSE NoText
  <2>1. CASE field = "description"
    <3>1. p[2] = "descr" /\ y.description = p
      BY <1>0, <1>3, <2>1, StoredTyped DEF Sections
    <3>2. ~(p[3] > Entries(f, d, "descr")) /\ f.defs[d].descr
      BY <1>0, <3>1, KindIs
    <3>3. Entries(f, d, "descr") = 1
      BY DEF Entries, Sections
    <3>4. p[3] = 1
      BY <1>0, <3>1, <3>2, <3>3, PlaceIs, ClosingParts
    <3>5. Before(f, q, d, "descr") = 1
      BY <1>0, <3>1, <3>2, <3>4, BeforeStep
    <3> QED BY <1>0, <3>1, <3>2, <3>4, <3>5
  <2>2. CASE field # "description"
    <3>1. p[2] # "descr" /\ y.description = x.description
      BY <1>0, <1>3, <2>2, StoredTyped DEF Fields, Sections
    <3> QED BY <1>2, <3>1 DEF SoFar
  <2> QED BY <2>1, <2>2
<1>6. ASSUME NEW s \in Sections
      PROVE  y[s] = Texted(d, s, Before(f, q, d, s))
  <2>0. s \in {"descr", "folder", "file", "reg"} /\ x[s] = Texted(d, s, Before(f, p, d, s))
    BY DEF SoFar, Sections
  <2>1. CASE field = s
    <3>1. p[2] = s /\ y[s] = Append(x[s], p)
      BY <1>0, <1>3, <2>1, StoredTyped DEF Sections
    <3>2. ~(p[3] > Entries(f, d, s)) /\ p[3] \in Nat \ {0}
      <4>1. Kind(f, p) = "text"
        BY <3>1, KindIs DEF Sections
      <4>2. /\ s = "folder" \/ s = "file" \/ s = "reg"
            /\ p[3] > Entries(f, p[1], p[2]) => Kind(f, p) \in {"semi", "close"}
        BY <3>1, KindIs DEF Sections
      <4> QED BY <1>0, <3>1, <4>1, <4>2, PlaceIs, ClosingParts
    <3>3. PICK n \in Nat : p[3] = n + 1
      <4>1. p[3] - 1 \in Nat /\ p[3] = (p[3] - 1) + 1
        BY <3>2
      <4> QED BY <4>1
    <3>4. Before(f, p, d, s) = n /\ Before(f, q, d, s) = n + 1
      BY <1>0, <2>0, <3>1, <3>2, <3>3, BeforeStep
    <3>5. Append(Texted(d, s, n), <<d, s, n + 1>>) = Texted(d, s, n + 1)
      <4>1. d \in Nat /\ s \in {"folder", "file", "reg", "table"}
        BY FileTyped DEF Sections
      <4> QED BY <4>1, TextedIs
    <3>6. p = <<d, s, n + 1>> /\ x[s] = Texted(d, s, n)
      BY <1>0, <2>0, <3>1, <3>3, <3>4
    <3> QED BY <3>1, <3>4, <3>5, <3>6
  <2>2. CASE field # s
    <3>1. y[s] = x[s]
      BY <1>0, <2>2, StoredTyped
    <3>2. p[2] # s
      BY <1>3, <2>2 DEF Fields, Sections
    <3> QED BY <1>2, <2>0, <3>1, <3>2
  <2> QED BY <2>1, <2>2
<1> QED BY <1>4, <1>5, <1>6 DEF SoFar

\* A line that says nothing of the definition.
LEMMA SoFarKept ==
  ASSUME NEW f \in Shapes, NEW p, InFile(f, p), NEW d \in 1..Len(f.defs),
         NEW x, SoFar(f, x, d, p),
         p[1] = d => \/ Kind(f, p) \notin {"name", "text"}
                     \/ p[2] \notin {"name", "descr", "folder", "file", "reg"}
  PROVE  SoFar(f, x, d, Behind(f, p))
<1> DEFINE q == Behind(f, p)
<1>1. Passed(q, d, "name") <=> Passed(p, d, "name")
  <2>1. ~(p[1] = d /\ p[2] = "name")
    BY KindIs
  <2> QED BY <2>1, PassedStep
<1>2. ASSUME NEW s \in Sections
      PROVE  Before(f, q, d, s) = Before(f, p, d, s)
  <2>1. s \in {"descr", "folder", "file", "reg"}
    BY DEF Sections
  <2>2. p[1] = d /\ p[2] = s => p[3] > Entries(f, d, s)
    BY KindIs DEF Sections
  <2> QED BY <2>1, <2>2, BeforeStep
<1>3. x.description = IF Before(f, q, d, "descr") > 0 /\ f.defs[d].descr
                      THEN <<d, "descr", 1>> ELSE NoText
  <2>1. x.description = IF Before(f, p, d, "descr") > 0 /\ f.defs[d].descr
                        THEN <<d, "descr", 1>> ELSE NoText
    BY DEF SoFar
  <2>2. CASE ~f.defs[d].descr
    BY <2>1, <2>2
  <2>3. CASE f.defs[d].descr
    <3>1. p[1] = d /\ p[2] = "descr" => p[3] > Entries(f, d, "descr")
      BY <2>3, KindIs
    <3>2. Before(f, q, d, "descr") = Before(f, p, d, "descr")
      BY <3>1, BeforeStep
    <3> QED BY <2>1, <3>2
  <2> QED BY <2>2, <2>3
<1> QED BY <1>1, <1>2, <1>3 DEF SoFar
\* A Reader that is alone puts a line where the file means it to be.
LEMMA AloneInto ==
  ASSUME TypeOK, PlaceInv, StatusInv, NEW r \in Running, r \notin overlapped,
         NameLine(r) \/ EntryAct(r), NEW field \in Fields
  PROVE  Into(r, field) <=>
           Due(r)[2] = PartOf(field) /\ Kind(shape, Due(r)) \in {"name", "text"}
<1>0. r \in Readers
  BY DEF Running
<1>1. InFile(shape, Due(r)) /\ shape \in Shapes
  BY <1>0, DueIn
<1>2. CASE NameLine(r)
  <2>1. Kind(shape, Due(r)) = "name" /\ ~EntryAct(r)
    BY <1>0, <1>2, GetlineMoves DEF NameLine, Getline, EntryAct, Act
  <2>2. Due(r)[2] = "name"
    BY <1>1, <2>1, KindIs, PlaceIs, ClosingParts DEF Parts, Sections
  <2> QED BY <1>2, <2>1, <2>2 DEF Into, PartOf, Fields, Sections
<1>3. CASE EntryAct(r)
  <2>1. /\ Kind(shape, Due(r)) \in {"text", "blank"} /\ Due(r)[2] # "header"
        /\ pos[r] = Due(r) /\ pc[r] = "act" /\ ~NameLine(r)
    BY <1>0, <1>3, ActMoves DEF NameLine, Getline, EntryAct, Act
  <2>2. seen[r] = Heading(Due(r)[2])
    BY <1>0, <2>1 DEF StatusInv, Headed
  <2>3. Kind(shape, Due(r)) = "text" =>
          Due(r)[2] \in {"descr", "folder", "file", "reg", "table"}
    BY <1>1, KindIs, PlaceIs DEF Parts, Sections
  <2>4. Kind(shape, Due(r)) = "text" =>
          /\ seen[r] = "PARS_DSCR" <=> Due(r)[2] = "descr"
          /\ seen[r] = "PARS_FOLDER" <=> Due(r)[2] = "folder"
          /\ seen[r] = "PARS_FILE" <=> Due(r)[2] = "file"
          /\ seen[r] = "PARS_REG" <=> Due(r)[2] = "reg"
    BY <2>2, <2>3 DEF Heading
  <2>5. Due(r)[2] = "name" => Kind(shape, Due(r)) = "name"
    BY <1>1, KindIs
  <2> QED BY <1>3, <2>1, <2>4, <2>5 DEF Into, PartOf, Fields, Sections
<1> QED BY <1>2, <1>3

\* Only a Reader that is not done steps.
LEMMA RunBy ==
  ASSUME TypeOK, PlaceInv, NEW r \in Readers, run(r)
  PROVE  r \in Running
  BY RunCases, TreatMoves, FetchMoves, FinishMoves DEF Running

\* FilledInv after a step: alone, a Reader has stored what stands before its line.
LEMMA FilledStep ==
  ASSUME TypeOK, PlaceInv, StatusInv, FilledInv,
         openDefFile \/ \E r \in Readers : run(r)
  PROVE  FilledInv'
<1>1. CASE openDefFile
  <2>0. shape' = shape
    BY <1>1 DEF openDefFile
  <2>1. SUFFICES ASSUME NEW u \in Readers, u \notin overlapped',
                        NEW d \in 1..nDefn'[u], d <= Len(shape.defs)
                 PROVE  SoFar(shape, defns'[u][d], d, Due(u)')
    BY <2>0 DEF FilledInv
  <2>2. Due(u)' = Due(u) /\ u \notin overlapped
    BY <1>1, <2>1, OpenMoves
  <2>3. CASE u = loads + 1
    <3>1. defns'[u][d] = NoDefn /\ pc[u] = "off" /\ pos[u] = Start
      BY <1>1, <2>1, <2>3, OpenMoves
    <3>2. InFile(shape, Start) /\ shape \in Shapes /\ d \in 1..Len(shape.defs) /\ d \in Nat
      BY <2>1, <3>1, DueIn, FileTyped
    <3>3. Due(u) = <<0, "header", 1>>
      BY <3>1, <3>2, BehindIs DEF Due
    <3>4. \A s \in {"name", "descr", "folder", "file", "reg"} : ~Passed(Due(u), d, s)
      BY <3>2, <3>3, PassedIs
    <3>5. \A s \in {"descr", "folder", "file", "reg"} : Before(shape, Due(u), d, s) = 0
      BY <3>3, <3>4 DEF Before
    <3>6. \A s \in Sections : Texted(d, s, 0) = <<>>
      BY <3>2, TextedIs DEF Sections
    <3>7. SoFar(shape, NoDefn, d, Due(u))
      <4>1. NoDefn.dectName = NoText /\ NoDefn.description = NoText
        BY DEF NoDefn
      <4>2. \A s \in Sections : NoDefn[s] = <<>>
        BY DEF NoDefn, Sections
      <4>3. \A s \in Sections : s \in {"descr", "folder", "file", "reg"}
        BY DEF Sections
      <4> QED BY <3>4, <3>5, <3>6, <4>1, <4>2, <4>3 DEF SoFar
    <3> QED BY <2>2, <3>1, <3>7
  <2>4. CASE u # loads + 1
    <3>1. nDefn'[u] = nDefn[u] /\ defns'[u] = defns[u]
      BY <1>1, <2>4, OpenMoves
    <3>2. SoFar(shape, defns[u][d], d, Due(u))
      BY <2>1, <2>2, <3>1 DEF FilledInv
    <3> QED BY <2>2, <3>1, <3>2
  <2> QED BY <2>3, <2>4
<1>2. ASSUME NEW r \in Readers, run(r)
      PROVE  FilledInv'
  <2>1. shape' = shape /\ nDefn' = nDefn /\ overlapped' = overlapped
    BY <1>2 DEF run, HeaderLine, NameLine, CloseLine, FlagsLine, OpenLine,
                OtherLine, OpenAct, SemiAct, DollarAct, EntryAct, Finish, Act
  <2>2. SUFFICES ASSUME NEW u \in Readers, u \notin overlapped,
                        NEW d \in 1..nDefn[u], d <= Len(shape.defs)
                 PROVE  SoFar(shape, defns'[u][d], d, Due(u)')
    BY <2>1 DEF FilledInv
  <2>3. SoFar(shape, defns[u][d], d, Due(u)) /\ d \in 1..Len(shape.defs)
    BY <2>2, DueIn, FileTyped DEF FilledInv
  <2>4. CASE u # r
    BY <1>2, <2>2, <2>3, <2>4, OthersStay
  <2>5. CASE u = r
    <3>0. /\ r \in Running /\ shape \in Shapes /\ InFile(shape, Due(r))
          /\ defIndex[r] \in Nat
      BY <1>2, RunBy, DueIn DEF TypeOK
    <3>1. CASE Fetching(r) \/ Finish(r)
      <4>1. defns' = defns
        BY <3>1 DEF Fetching, OpenLine, OtherLine, Finish
      <4> QED BY <2>3, <2>5, <3>1, <4>1, FetchMoves, FinishMoves
    <3>2. CASE Treating(r) /\ ~NameLine(r) /\ ~EntryAct(r)
      <4>1. defns' = defns
        BY <1>2, <3>2, NoStore
      <4>2. Kind(shape, Due(r)) \notin {"name", "text"}
        <5>1. CASE HeaderLine(r)
          BY <3>0, <5>1, HeaderMoves, KindIs
        <5>2. CASE CloseLine(r) \/ FlagsLine(r)
          BY <5>2, GetlineMoves DEF CloseLine, FlagsLine
        <5>3. CASE OpenAct(r) \/ SemiAct(r) \/ DollarAct(r)
          BY <5>3, ActMoves DEF OpenAct, SemiAct, DollarAct
        <5> QED BY <3>2, <5>1, <5>2, <5>3 DEF Treating
      <4> QED BY <2>3, <2>5, <3>0, <3>2, <4>1, <4>2, TreatMoves, SoFarKept
    <3>3. CASE NameLine(r) \/ EntryAct(r)
      <4>1. Due(r)' = Behind(shape, Due(r))
        BY <3>3, TreatMoves DEF Treating
      <4>2. CASE /\ defns' = defns
                 /\ \A field \in Fields : Into(r, field) => d # defIndex[r] + 1
        <5>1. Due(r)[1] = d => \/ Kind(shape, Due(r)) \notin {"name", "text"}
                               \/ Due(r)[2] \notin {"name", "descr", "folder",
                                                     "file", "reg"}
          <6>1. SUFFICES ASSUME Due(r)[1] = d, Kind(shape, Due(r)) \in {"name", "text"},
                                Due(r)[2] \in {"name", "descr", "folder", "file", "reg"}
                         PROVE  FALSE
            OBVIOUS
          <6>2. PICK field \in Fields : PartOf(field) = Due(r)[2]
            BY <6>1 DEF Fields, PartOf, Sections
          <6>3. Into(r, field)
            BY <2>2, <2>5, <3>0, <3>3, <6>1, <6>2, AloneInto
          <6>4. Due(r)[1] = defIndex[r] + 1
            BY <6>1, <6>3, IntoIs
          <6> QED BY <4>2, <6>1, <6>3, <6>4
        <5> QED BY <2>3, <2>5, <3>0, <4>1, <4>2, <5>1, SoFarKept
      <4>3. CASE defns' # defns
        <5>1. PICK field \in Fields :
                /\ Into(r, field) /\ defIndex[r] < nDefn[r]
                /\ defns'[r] = [defns[r] EXCEPT ![defIndex[r] + 1] =
                                  Stored(@, field, Due(r))]
          BY <3>3, <4>3, StoreIs
        <5>2. /\ Due(r)[2] = PartOf(field) /\ Kind(shape, Due(r)) \in {"name", "text"}
          BY <2>2, <2>5, <3>0, <3>3, <5>1, AloneInto
        <5>3. Due(r)[1] = defIndex[r] + 1
          <6>1. Due(r)[2] # "table"
            BY <5>2 DEF PartOf, Fields, Sections
          <6> QED BY <5>1, <6>1, IntoIs
        <5>4. defns[r] \in [1..nDefn[r] -> Defns]
          BY DEF TypeOK
        <5>5. CASE d = defIndex[r] + 1
          <6>1. defns'[r][d] = Stored(defns[r][d], field, Due(r)) /\ defns[r][d] \in Defns
            BY <2>2, <2>5, <5>1, <5>4, <5>5
          <6>2. Due(r)[1] = d
            BY <5>3, <5>5
          <6>3. SoFar(shape, Stored(defns[r][d], field, Due(r)), d, Behind(shape, Due(r)))
            BY <2>3, <2>5, <3>0, <5>2, <6>1, <6>2, SoFarStored
          <6> QED BY <2>5, <4>1, <6>1, <6>3
        <5>6. CASE d # defIndex[r] + 1
          <6>1. defns'[r][d] = defns[r][d]
            BY <2>2, <2>5, <5>1, <5>4, <5>6
          <6>2. Due(r)[1] # d
            BY <5>3, <5>6
          <6> QED BY <2>3, <2>5, <3>0, <4>1, <6>1, <6>2, SoFarKept
        <5> QED BY <5>5, <5>6
      <4>4. CASE /\ defns' = defns
                 /\ ~\A field \in Fields : Into(r, field) => d # defIndex[r] + 1
        <5>1. PICK field \in Fields : Into(r, field) /\ d = defIndex[r] + 1
          BY <4>4
        <5>2. defIndex[r] < nDefn[r]
          BY <2>2, <2>5, <3>0, <5>1 DEF TypeOK
        <5>3. PICK g \in Fields :
                /\ Into(r, g)
                /\ defns'[r] = [defns[r] EXCEPT ![defIndex[r] + 1] =
                                  Stored(@, g, Due(r))]
          BY <3>3, <5>1, <5>2, StoreIs
        <5>4. /\ Due(r)[2] = PartOf(g) /\ Kind(shape, Due(r)) \in {"name", "text"}
          BY <2>2, <2>5, <3>0, <3>3, <5>3, AloneInto
        <5>5. Due(r)[1] = d
          <6>1. Due(r)[2] # "table"
            BY <5>4 DEF PartOf, Fields, Sections
          <6> QED BY <5>1, <6>1, IntoIs
        <5>6. /\ defns'[r][d] = Stored(defns[r][d], g, Due(r)) /\ defns[r][d] \in Defns
          <6>1. defns[r] \in [1..nDefn[r] -> Defns]
            BY DEF TypeOK
          <6> QED BY <2>2, <2>5, <5>1, <5>3, <6>1
        <5>7. SoFar(shape, Stored(defns[r][d], g, Due(r)), d, Behind(shape, Due(r)))
          BY <2>3, <2>5, <3>0, <5>4, <5>5, <5>6, SoFarStored
        <5> QED BY <2>5, <4>1, <5>6, <5>7
      <4> QED BY <4>2, <4>3, <4>4
    <3> QED BY <1>2, <3>1, <3>2, <3>3, RunCases
  <2> QED BY <2>4, <2>5
<1> QED BY <1>1, <1>2
-------------------------------------------------------------------------------
(* The array is left by a Reader that is alone exactly when it is too short. *)

\* What has left its array, has; and what an array holds, openDefFile decides.
LEMMA OverrunGrows ==
  ASSUME NEW r \in Readers, run(r)
  PROVE  overrun \subseteq overrun' /\ overrun' \subseteq overrun \cup {r}
  BY DEF run, HeaderLine, NameLine, CloseLine, FlagsLine, OpenLine, OtherLine,
         OpenAct, SemiAct, DollarAct, EntryAct, Finish, Push, Write

\* WithinInv after a step: alone, a Reader stores what belongs to a definition in
\* the entry with its number.
LEMMA WithinStep ==
  ASSUME TypeOK, PlaceInv, StatusInv, WithinInv,
         openDefFile \/ \E r \in Readers : run(r)
  PROVE  WithinInv'
<1>0. shape \in Shapes
  BY DEF TypeOK
<1>1. CASE openDefFile
  <2>1. shape' = shape /\ overrun' = overrun /\ overlapped \subseteq overlapped'
    BY <1>1, OpenMoves DEF openDefFile
  <2>2. SUFFICES ASSUME NEW u \in overrun
                 PROVE  /\ pc'[u] # "off"
                        /\ u \notin overlapped => nDefn'[u] < Len(shape.defs)
    BY <2>1 DEF WithinInv
  <2>3. u \in Readers /\ u # loads + 1
    BY <1>1, <2>2, OpenMoves DEF WithinInv, TypeOK
  <2> QED BY <1>1, <2>2, <2>3, OpenMoves DEF WithinInv
<1>2. ASSUME NEW r \in Readers, run(r)
      PROVE  WithinInv'
  <2>1. shape' = shape /\ nDefn' = nDefn /\ overlapped' = overlapped
    BY <1>2 DEF run, HeaderLine, NameLine, CloseLine, FlagsLine, OpenLine,
                OtherLine, OpenAct, SemiAct, DollarAct, EntryAct, Finish, Act
  <2>2. r \in Running
    BY <1>2, RunBy
  <2>3. ASSUME overrun' # overrun, r \notin overlapped
        PROVE  nDefn[r] < Len(shape.defs)
    <3>1. NameLine(r) \/ EntryAct(r)
      BY <1>2, <2>3, NoStore
    <3>2. PICK field \in Fields : Into(r, field) /\ ~(defIndex[r] < nDefn[r])
      BY <2>3, <3>1, StoreIs
    <3>3. Due(r)[2] # "table"
      BY <2>2, <2>3, <3>1, <3>2, AloneInto DEF PartOf, Fields, Sections
    <3>4. defIndex[r] + 1 \in 1..Len(shape.defs)
      BY <3>2, <3>3, IntoIs
    <3>5. defIndex[r] \in Nat /\ nDefn[r] \in Nat /\ Len(shape.defs) \in Nat
      BY <1>0, FileTyped DEF TypeOK
    <3> QED BY <3>2, <3>4, <3>5
  <2>4. ASSUME NEW u \in overrun'
        PROVE  pc'[u] # "off"
    <3>1. u \in overrun \/ u = r
      BY <1>2, OverrunGrows
    <3>2. CASE u = r
      BY <1>2, <3>2, RunCases, TreatMoves, FetchMoves, FinishMoves
    <3>3. CASE u # r
      <4>1. u \in Readers /\ pc[u] # "off"
        BY <3>1, <3>3 DEF WithinInv, TypeOK
      <4> QED BY <1>2, <3>3, <4>1, OthersStay
    <3> QED BY <3>2, <3>3
  <2>5. ASSUME NEW u \in overrun', u \notin overlapped
        PROVE  nDefn[u] < Len(shape.defs)
    BY <1>2, <2>3, <2>5, OverrunGrows DEF WithinInv
  <2> QED BY <2>1, <2>4, <2>5 DEF WithinInv
<1> QED BY <1>1, <1>2

\* BeyondInv after a step: a Reader, alone or not, stores the name of every definition
\* in the entry with its number, and past the array if there is none.
LEMMA BeyondStep ==
  ASSUME TypeOK, PlaceInv, BeyondInv, openDefFile \/ \E r \in Readers : run(r)
  PROVE  BeyondInv'
<1>0. shape \in Shapes /\ nDefn \in [Readers -> Nat] /\ Len(shape.defs) \in Nat
  BY FileTyped DEF TypeOK
<1>1. CASE openDefFile
  <2>1. shape' = shape /\ overrun' = overrun
    BY <1>1 DEF openDefFile
  <2>2. SUFFICES ASSUME NEW u \in Readers, nDefn'[u] < Len(shape.defs),
                        Passed(Due(u)', nDefn'[u] + 1, "name")
                 PROVE  u \in overrun
    BY <2>1 DEF BeyondInv
  <2>3. Due(u)' = Due(u) /\ nDefn'[u] \in Nat
    BY <1>1, OpenMoves
  <2>4. u # loads + 1
    <3>1. SUFFICES ASSUME u = loads + 1
                   PROVE  FALSE
      OBVIOUS
    <3>2. pc[u] = "off" /\ pos[u] = Start /\ InFile(shape, Start)
      BY <1>1, <3>1, OpenMoves, DueIn
    <3>3. Due(u) = <<0, "header", 1>>
      BY <1>0, <3>2, BehindIs DEF Due
    <3>4. ~Passed(Due(u), nDefn'[u] + 1, "name")
      BY <2>3, <3>3, PassedIs
    <3> QED BY <2>2, <2>3, <3>4
  <2>5. nDefn'[u] = nDefn[u]
    BY <1>1, <2>4, OpenMoves
  <2> QED BY <2>2, <2>3, <2>5 DEF BeyondInv
<1>2. ASSUME NEW r \in Readers, run(r)
      PROVE  BeyondInv'
  <2>1. shape' = shape /\ nDefn' = nDefn /\ overrun \subseteq overrun'
    BY <1>2, OverrunGrows
       DEF run, HeaderLine, NameLine, CloseLine, FlagsLine, OpenLine,
           OtherLine, OpenAct, SemiAct, DollarAct, EntryAct, Finish, Act
  <2>2. SUFFICES ASSUME NEW u \in Readers, nDefn[u] < Len(shape.defs),
                        Passed(Due(u)', nDefn[u] + 1, "name")
                 PROVE  u \in overrun'
    BY <2>1 DEF BeyondInv
  <2>3. CASE Passed(Due(u), nDefn[u] + 1, "name")
    BY <2>1, <2>2, <2>3 DEF BeyondInv
  <2>4. CASE ~Passed(Due(u), nDefn[u] + 1, "name")
    <3>1. u = r /\ Treating(r)
      BY <1>2, <2>2, <2>4, OthersStay, RunCases, FetchMoves, FinishMoves
    <3>2. /\ InFile(shape, Due(r)) /\ Due(r)' = Behind(shape, Due(r))
          /\ nDefn[r] \in Nat /\ nDefn[r] + 1 \in 1..Len(shape.defs)
      BY <1>0, <2>2, <3>1, DueIn, TreatMoves
    <3>3. Due(r)[1] = nDefn[r] + 1 /\ Due(r)[2] = "name"
      BY <1>0, <2>2, <2>4, <3>1, <3>2, PassedStep
    <3>4. Kind(shape, Due(r)) = "name"
      BY <1>0, <3>2, <3>3, KindIs
    <3>5. NameLine(r)
      <4>1. ~HeaderLine(r)
        BY <1>0, <3>2, <3>4, HeaderMoves, KindIs
      <4>2. ~CloseLine(r) /\ ~FlagsLine(r)
        BY <3>4, GetlineMoves DEF CloseLine, FlagsLine
      <4>3. ~OpenAct(r) /\ ~SemiAct(r) /\ ~DollarAct(r) /\ ~EntryAct(r)
        BY <3>4, ActMoves DEF OpenAct, SemiAct, DollarAct, EntryAct
      <4> QED BY <3>1, <4>1, <4>2, <4>3 DEF Treating
    <3>6. defIndex[r] = nDefn[r]
      BY <3>2, <3>3 DEF PlaceInv, Placed, Closed, InDefns
    <3>7. ~(defIndex[r] < nDefn[r])
      BY <3>2, <3>6
    <3> QED BY <3>1, <3>5, <3>7 DEF NameLine, Write
  <2> QED BY <2>3, <2>4
<1> QED BY <1>1, <1>2

-------------------------------------------------------------------------------
(* The tables. *)

\* What a line of the file does to the table being read and to the tables complete.
LEMMA TableStep ==
  ASSUME NEW f \in Shapes, NEW p, InFile(f, p)
  PROVE  /\ Ended(f, p) \in Nat
         /\ p[2] = "table" /\ ~(p[3] > Entries(f, p[1], "table")) =>
              /\ Behind(f, p)[2] # "end"
              /\ Ended(f, Behind(f, p)) = Ended(f, p)
              /\ Pending(Behind(f, p)) = Append(Pending(p), p)
         /\ p[2] = "table" /\ p[3] > Entries(f, p[1], "table") =>
              /\ p[1] = Ended(f, p) + 1
              /\ Pending(p) = Texted(p[1], "table", f.tables[p[1]])
              /\ Ended(f, Behind(f, p)) = Ended(f, p) + 1
              /\ Behind(f, p)[2] # "end" => Pending(Behind(f, p)) = <<>>
         /\ p[2] # "table" =>
              /\ Ended(f, Behind(f, p)) = Ended(f, p)
              /\ Behind(f, p)[2] # "end" => p[2] # "end" /\ Pending(Behind(f, p)) = <<>>
              /\ Pending(p) = <<>>
<1>0. /\ Len(f.tables) \in Nat /\ p = <<p[1], p[2], p[3]>>
      /\ p[1] \in Nat /\ p[3] \in Nat
  BY FileTyped, PlaceIs
<1>1. Ended(f, p) \in Nat
  BY <1>0, PlaceIs DEF Ended
<1>2. ASSUME NEW n \in Nat, n <= Len(f.tables)
      PROVE  /\ Ended(f, Table(f, n + 1)) = n
             /\ Table(f, n + 1)[2] # "end" => Pending(Table(f, n + 1)) = <<>>
  <2>1. CASE n + 1 <= Len(f.tables)
    <3>1. Table(f, n + 1) = <<n + 1, "table", 1>>
      BY <2>1 DEF Table
    <3>2. Texted(n + 1, "table", 0) = <<>>
      BY <1>2, TextedIs
    <3> QED BY <1>0, <1>2, <3>1, <3>2 DEF Ended, Pending
  <2>2. CASE ~(n + 1 <= Len(f.tables))
    <3>1. Table(f, n + 1) = End /\ n = Len(f.tables)
      BY <1>0, <1>2, <2>2 DEF Table
    <3> QED BY <3>1 DEF Ended
  <2> QED BY <2>1, <2>2
<1>3. CASE p[2] = "table" /\ ~(p[3] > Entries(f, p[1], "table"))
  <2>1. Behind(f, p) = <<p[1], "table", p[3] + 1>> /\ p[3] - 1 \in Nat
    BY <1>3, BehindIs, PlaceIs, ClosingParts
  <2>2. PICK n \in Nat : p[3] = n + 1
    BY <1>0, <2>1
  <2>3. Append(Texted(p[1], "table", n), <<p[1], "table", n + 1>>)
          = Texted(p[1], "table", n + 1)
    BY <1>0, TextedIs
  <2>4. Pending(p) = Texted(p[1], "table", n) /\ p = <<p[1], "table", n + 1>>
    BY <1>0, <1>3, <2>2 DEF Pending
  <2>5. Pending(Behind(f, p)) = Texted(p[1], "table", n + 1)
    BY <2>1, <2>2 DEF Pending
  <2>6. Ended(f, Behind(f, p)) = Ended(f, p)
    BY <1>3, <2>1 DEF Ended
  <2>7. Pending(Behind(f, p)) = Append(Pending(p), p)
    BY <2>3, <2>4, <2>5, Zenon
  <2>8. Behind(f, p)[2] # "end"
    BY <2>1
  <2> QED BY <1>1, <1>3, <2>6, <2>7, <2>8
<1>4. CASE p[2] = "table" /\ p[3] > Entries(f, p[1], "table")
  <2>1. Behind(f, p) = Table(f, p[1] + 1) /\ p[1] \in 1..Len(f.tables)
    BY <1>4, BehindIs, PlaceIs
  <2>2. Entries(f, p[1], "table") = f.tables[p[1]]
    BY DEF Entries, Sections
  <2>3. p[3] - 1 = f.tables[p[1]] /\ f.tables[p[1]] \in Nat
    BY <1>0, <1>4, <2>1, <2>2, PlaceIs, FileTyped, ClosingParts
  <2>4. Ended(f, p) = p[1] - 1
    BY <1>4 DEF Ended
  <2>5. Pending(p) = Texted(p[1], "table", f.tables[p[1]])
    BY <1>4, <2>3 DEF Pending
  <2>6. /\ Ended(f, Table(f, p[1] + 1)) = p[1]
        /\ Table(f, p[1] + 1)[2] # "end" => Pending(Table(f, p[1] + 1)) = <<>>
    BY <1>0, <1>2, <2>1
  <2> QED BY <1>0, <1>1, <1>4, <2>1, <2>4, <2>5, <2>6
<1>5. CASE p[2] = "flags"
  <2>1. Behind(f, p) = Table(f, 0 + 1)
    BY <1>5, BehindIs
  <2>2. /\ Ended(f, Table(f, 0 + 1)) = 0
        /\ Table(f, 0 + 1)[2] # "end" => Pending(Table(f, 0 + 1)) = <<>>
    BY <1>0, <1>2
  <2> QED BY <1>1, <1>5, <2>1, <2>2 DEF Ended, Pending
<1>6. CASE p[2] = "end"
  BY <1>1, <1>6, BehindIs DEF Ended, Pending
<1>7. CASE p[2] \notin {"table", "flags", "end"}
  <2>1. Behind(f, p)[2] \notin {"table", "end"}
    <3>1. \A d \in Nat : Definition(f, d)[2] \in {"name", "gap"}
      BY DEF Definition
    <3>2. CASE p[2] = "header"
      BY <3>1, <3>2, BehindIs
    <3>3. CASE p[2] \in {"name", "open", "gap"}
      BY <3>3, BehindIs
    <3>4. CASE p[2] \in DOMAIN Closing /\ ~(p[3] > Entries(f, p[1], p[2]))
      BY <1>7, <3>4, BehindIs
    <3>5. CASE p[2] \in {"descr", "folder", "file"} /\ p[3] > Entries(f, p[1], p[2])
      BY <3>5, BehindIs
    <3>6. CASE p[2] = "reg" /\ p[3] > Entries(f, p[1], p[2])
      BY <1>0, <3>1, <3>6, BehindIs
    <3> QED BY <1>7, <3>2, <3>3, <3>4, <3>5, <3>6, PlaceCases
  <2> QED BY <1>1, <1>7, <2>1 DEF Ended, Pending
<1> QED BY <1>3, <1>4, <1>5, <1>6, <1>7
\* The tables only grow.
LEMMA TablesGrow ==
  ASSUME TypeOK, NEW r \in Readers, run(r)
  PROVE  /\ tables \in Seq(Seq(Texts)) /\ tables' \in Seq(Seq(Texts))
         /\ Len(tables') >= Len(tables)
         /\ \A i \in 1..Len(tables) : tables'[i] = tables[i]
<1>1. tables \in Seq(Seq(Texts)) /\ tmp[r] \in Seq(Texts)
  BY DEF TypeOK
<1>2. tables' = tables \/ tables' = Append(tables, tmp[r])
  BY DEF run, HeaderLine, NameLine, CloseLine, FlagsLine, OpenLine,
         OtherLine, OpenAct, SemiAct, DollarAct, EntryAct, Finish
<1>3. /\ Append(tables, tmp[r]) \in Seq(Seq(Texts))
      /\ Len(Append(tables, tmp[r])) = Len(tables) + 1
      /\ \A i \in 1..Len(tables) : Append(tables, tmp[r])[i] = tables[i]
  BY <1>1, AppendProperties
<1>4. Len(tables) \in Nat
  BY <1>1
<1>5. CASE tables' = tables
  BY <1>1, <1>4, <1>5
<1>6. CASE tables' = Append(tables, tmp[r])
  BY <1>1, <1>3, <1>4, <1>6
<1> QED BY <1>2, <1>5, <1>6

\* A line of the first Reader, alone.
LEMMA TablesTreat ==
  ASSUME TypeOK, PlaceInv, StatusInv, TablesInv, 1 \in Running, 1 \notin overlapped,
         Treating(1), run(1)
  PROVE  /\ Len(tables') = Ended(shape, Due(1)')
         /\ \A i \in 1..Ended(shape, Due(1)') :
              tables'[i] = Texted(i, "table", shape.tables[i])
         /\ Due(1)'[2] # "end" => tmp'[1] = Pending(Due(1)')
<1> DEFINE p == Due(1)
           q == Behind(shape, p)
<1>0. /\ 1 \in Readers /\ shape \in Shapes /\ InFile(shape, p)
      /\ Due(1)' = q /\ tables \in Seq(Seq(Texts)) /\ tmp[1] \in Seq(Texts)
      /\ tmp \in [Readers -> Seq(Texts)]
  BY DueIn, TreatMoves DEF Running, TypeOK
<1>1. /\ Len(tables) = Ended(shape, p) /\ Ended(shape, p) \in Nat
      /\ \A i \in 1..Ended(shape, p) : tables[i] = Texted(i, "table", shape.tables[i])
      /\ p[2] # "end" => tmp[1] = Pending(p)
  BY <1>0, TableStep DEF TablesInv, Running
<1>2. /\ pc[1] = "act" => p = pos[1]
      /\ pc[1] = "act" /\ p[2] # "header" /\ Kind(shape, p) # "open" =>
           seen[1] = Heading(p[2])
  BY <1>0 DEF Due, StatusInv, Headed
<1>3. CASE DollarAct(1)
  <2>1. Kind(shape, p) = "dollar" /\ pc[1] = "act" /\ p[2] # "header"
    <3>1. Act(1, {"dollar"})
      BY <1>3 DEF DollarAct
    <3>2. pc[1] = "act"
      BY <3>1 DEF Act
    <3> QED BY <1>0, <3>1, <3>2, ActMoves
  <2>2. p[2] = "table" /\ p[3] > Entries(shape, p[1], "table")
    BY <1>0, <2>1, PlaceIs, KindIs DEF Parts, Sections
  <2>3. seen[1] = "STRING_TABLE"
    BY <1>2, <2>1, <2>2 DEF Heading
  <2>4. tables' = Append(tables, tmp[1]) /\ tmp'[1] = <<>>
    BY <1>0, <1>3, <2>3 DEF DollarAct, Cleared
  <2>5. /\ p[1] = Ended(shape, p) + 1 /\ Ended(shape, q) = Ended(shape, p) + 1
        /\ Pending(p) = Texted(p[1], "table", shape.tables[p[1]])
        /\ q[2] # "end" => Pending(q) = <<>>
    BY <1>0, <2>2, TableStep
  <2>6. tmp[1] = Texted(p[1], "table", shape.tables[p[1]])
    BY <1>1, <2>2, <2>5
  <2>7. /\ Len(tables') = Len(tables) + 1 /\ tables'[Len(tables) + 1] = tmp[1]
        /\ \A i \in 1..Len(tables) : tables'[i] = tables[i]
    BY <1>0, <2>4, AppendProperties
  <2>8. \A i \in 1..Ended(shape, p) + 1 : tables'[i] = Texted(i, "table", shape.tables[i])
    <3>1. SUFFICES ASSUME NEW i \in 1..Ended(shape, p) + 1
                   PROVE  tables'[i] = Texted(i, "table", shape.tables[i])
      OBVIOUS
    <3>2. CASE i = Ended(shape, p) + 1
      BY <1>1, <2>5, <2>6, <2>7, <3>2
    <3>3. CASE i # Ended(shape, p) + 1
      <4>1. i \in 1..Ended(shape, p)
        BY <1>1, <3>3
      <4> QED BY <1>1, <2>7, <4>1
    <3> QED BY <3>2, <3>3
  <2> QED BY <1>0, <1>1, <2>4, <2>5, <2>7, <2>8
<1>4. CASE EntryAct(1)
  <2>1. Kind(shape, p) \in {"text", "blank"} /\ pc[1] = "act" /\ p[2] # "header"
        /\ HereKind(1) = Kind(shape, p) /\ tables' = tables
    BY <1>0, <1>4, ActMoves DEF EntryAct, Act, HereKind
  <2>2. CASE p[2] = "table"
    <3>1. ~(p[3] > Entries(shape, p[1], "table")) /\ Kind(shape, p) = "text"
      BY <1>0, <2>1, <2>2, KindIs
    <3>2. seen[1] = "STRING_TABLE"
      BY <1>2, <2>1, <2>2 DEF Heading
    <3>3. HereText(1) = p
      BY <1>0, <1>2, <2>1, <3>1, TextTyped DEF HereText
    <3>4. tmp'[1] = Append(tmp[1], p)
      BY <1>0, <1>4, <2>1, <3>1, <3>2, <3>3 DEF EntryAct
    <3>5. Ended(shape, q) = Ended(shape, p) /\ Pending(q) = Append(Pending(p), p)
      BY <1>0, <2>2, <3>1, TableStep
    <3> QED BY <1>0, <1>1, <2>1, <2>2, <3>4, <3>5
  <2>3. CASE p[2] # "table"
    <3>1. /\ Ended(shape, q) = Ended(shape, p) /\ Pending(p) = <<>>
          /\ q[2] # "end" => p[2] # "end" /\ Pending(q) = <<>>
      BY <1>0, <2>3, TableStep
    <3>2. p[2] # "end" => seen[1] # "STRING_TABLE"
      BY <1>0, <1>2, <2>1, <2>3, PlaceIs DEF Heading, Parts, Sections
    <3>3. p[2] # "end" => tmp'[1] = tmp[1]
      BY <1>4, <3>2 DEF EntryAct, Push, Write
    <3> QED BY <1>0, <1>1, <2>1, <3>1, <3>3
  <2> QED BY <2>2, <2>3
<1>5. CASE ~DollarAct(1) /\ ~EntryAct(1)
  <2>1. tables' = tables /\ tmp' = tmp
    BY <1>5 DEF Treating, HeaderLine, NameLine, CloseLine, FlagsLine, OpenAct, SemiAct
  <2>2. Kind(shape, p) \in {"header", "name", "close", "flags", "open", "semi"}
    <3>1. CASE HeaderLine(1)
      BY <1>0, <3>1, HeaderMoves, KindIs
    <3>2. CASE NameLine(1) \/ CloseLine(1) \/ FlagsLine(1)
      <4>1. PICK k \in {"name", "close", "flags"} : Getline(1, {k}, "getline")
        BY <3>2 DEF NameLine, CloseLine, FlagsLine
      <4> QED BY <1>0, <4>1, GetlineMoves
    <3>3. CASE OpenAct(1) \/ SemiAct(1)
      BY <1>0, <3>3, ActMoves DEF OpenAct, SemiAct
    <3> QED BY <1>5, <3>1, <3>2, <3>3 DEF Treating
  <2>3. p[2] # "table"
    BY <1>0, <2>2, KindIs
  <2>4. /\ Ended(shape, q) = Ended(shape, p) /\ Pending(p) = <<>>
        /\ q[2] # "end" => p[2] # "end" /\ Pending(q) = <<>>
    BY <1>0, <2>3, TableStep
  <2> QED BY <1>0, <1>1, <2>1, <2>4
<1> QED BY <1>3, <1>4, <1>5

\* TablesInv after a step: the tables complete are those of the file, in its order.
LEMMA TablesStep ==
  ASSUME TypeOK, PlaceInv, AloneInv, StatusInv, TablesInv,
         openDefFile \/ \E r \in Readers : run(r)
  PROVE  TablesInv'
<1>0. 1 \in Readers /\ Placed(1)
  BY ReaderAssumption DEF PlaceInv, Readers
<1>1. CASE openDefFile
  <2>1. shape' = shape /\ tables' = tables /\ tmp' = tmp
    BY <1>1 DEF openDefFile
  <2>2. Due(1)' = Due(1) /\ overlapped \subseteq overlapped'
    BY <1>0, <1>1, OpenMoves
  <2>3. (pc'[1] = "off" => pc[1] = "off") /\ (pc[1] = "done" => pc'[1] = "done")
    BY <1>0, <1>1, OpenMoves
  <2> QED BY <2>1, <2>2, <2>3 DEF TablesInv
<1>2. CASE run(1)
  <2>1. shape' = shape /\ overlapped' = overlapped
    BY <1>2 DEF run, HeaderLine, NameLine, CloseLine, FlagsLine, OpenLine,
                OtherLine, OpenAct, SemiAct, DollarAct, EntryAct, Finish, Act
  <2>2. 1 \in Running /\ pc'[1] # "off"
    BY <1>0, <1>2, RunBy, RunCases, TreatMoves, FetchMoves, FinishMoves
  <2>3. CASE Treating(1)
    <3>1. CASE 1 \in overlapped
      BY <2>1, <2>2, <3>1 DEF TablesInv
    <3>2. CASE 1 \notin overlapped
      <4>1. Due(1)' = Behind(shape, Due(1)) /\ InFile(shape, Behind(shape, Due(1)))
            /\ shape \in Shapes
        BY <1>0, <2>3, TreatMoves, DueIn
      <4>2. Ended(shape, Due(1)') \in Nat
        BY <4>1, TableStep
      <4> QED BY <1>2, <2>1, <2>2, <2>3, <3>2, <4>2, TablesTreat DEF TablesInv
    <3> QED BY <3>1, <3>2
  <2>4. CASE Fetching(1) \/ Finish(1)
    <3>1. tables' = tables /\ tmp' = tmp
      BY <2>4 DEF Fetching, OpenLine, OtherLine, Finish
    <3>2. Due(1)' = Due(1)
      BY <1>0, <2>4, FetchMoves, FinishMoves
    <3>3. pc[1] # "done"
      BY <2>2 DEF Running
    <3> QED BY <2>1, <2>2, <3>1, <3>2, <3>3 DEF TablesInv
  <2> QED BY <1>0, <1>2, <2>3, <2>4, RunCases
<1>3. ASSUME NEW r \in Readers, run(r), r # 1
      PROVE  TablesInv'
  <2>1. /\ shape' = shape /\ overlapped' = overlapped /\ pc'[1] = pc[1]
        /\ Due(1)' = Due(1)
    BY <1>0, <1>3, OthersStay
  <2>2. r \in Running /\ pc[1] # "off"
    <3>1. r \in Running /\ Placed(r)
      BY <1>3, RunBy DEF PlaceInv
    <3>2. ~(loads < r) /\ 1 < r
      BY <1>3, <3>1 DEF Placed, Running, Readers
    <3> QED BY <1>0, <3>1, <3>2 DEF Placed, TypeOK, Readers
  <2>3. CASE 1 \in overlapped
    BY <2>1, <2>2, <2>3 DEF TablesInv
  <2>4. CASE 1 \notin overlapped
    <3>1. 1 \notin Running
      BY <1>0, <1>3, <2>2, <2>4 DEF AloneInv
    <3>2. pc[1] = "done" /\ pos[1] = End
      BY <1>0, <2>2, <3>1 DEF Running, TypeOK, Placed
    <3>3. Due(1) = End /\ shape \in Shapes /\ InFile(shape, Due(1))
      BY <1>0, <3>2, DueIn, BehindIs DEF Due
    <3>4. /\ Len(tables) >= Ended(shape, Due(1)) /\ Ended(shape, Due(1)) \in Nat
          /\ \A i \in 1..Ended(shape, Due(1)) :
               tables[i] = Texted(i, "table", shape.tables[i])
      BY <2>4, <3>3, TableStep DEF TablesInv
    <3>5. /\ Len(tables') >= Len(tables) /\ Len(tables) \in Nat /\ Len(tables') \in Nat
          /\ \A i \in 1..Len(tables) : tables'[i] = tables[i]
      BY <1>3, TablesGrow
    <3>6. /\ Len(tables') >= Ended(shape, Due(1))
          /\ \A i \in 1..Ended(shape, Due(1)) :
               tables'[i] = Texted(i, "table", shape.tables[i])
      BY <3>4, <3>5
    <3> QED BY <2>1, <2>2, <3>2, <3>3, <3>6 DEF TablesInv
  <2> QED BY <2>3, <2>4
<1> QED BY <1>1, <1>2, <1>3
-------------------------------------------------------------------------------
(* The window's thread. *)

\* What a step of the start-up is to the Readers.
LEMMA NextCases ==
  ASSUME StartupNext \/ UNCHANGED startupVars
  PROVE  \/ UNCHANGED vars
         \/ openDefFile
         \/ \E r \in Readers : run(r)
  BY DEF StartupNext, SysRun, GuiInitReady, LoadDef, ReadReady, Read

\* A Reader that runs has been started.
LEMMA RunStarted ==
  ASSUME TypeOK, PlaceInv, NEW r \in Readers, run(r)
  PROVE  r <= loads /\ loads \in Nat /\ loads > 0
<1>1. r \in Running /\ Placed(r)
  BY RunBy DEF PlaceInv
<1>2. pc[r] # "off"
  BY <1>1 DEF Running
<1> QED BY <1>1, <1>2 DEF Placed, TypeOK, Readers

\* ReportInv after a step: a report carries its Reader's number of definitions.
LEMMA ReportStep ==
  ASSUME StartupTypeOK, PlaceInv, ReportInv, StartupNext \/ UNCHANGED startupVars
  PROVE  ReportInv'
<1>0. /\ TypeOK /\ 1 \in Readers /\ Placed(1) /\ loads \in Nat
      /\ shape \in Shapes /\ posted \in Seq(Nat)
  BY ReaderAssumption DEF StartupTypeOK, PlaceInv, Readers, TypeOK
<1>1. CASE SysRun \/ UNCHANGED startupVars
  BY <1>1 DEF SysRun, ReportInv
<1>2. CASE GuiInitReady
  <2>1. loads = 0 /\ loads' = 1 /\ wpc' = "loop" /\ enabled' = enabled
        /\ posted' = posted /\ openDefFile
    <3>1. loads = 0 /\ openDefFile /\ wpc' = "loop" /\ enabled' = enabled
      BY <1>2 DEF GuiInitReady, ReportInv
    <3>2. loads' = 1
      BY <1>0, <3>1, OpenMoves DEF PlaceInv
    <3> QED BY <3>1, <3>2 DEF openDefFile
  <2>2. Running = {}
    BY <1>0, <2>1 DEF PlaceInv, Placed, Running, Readers
  <2>3. overlapped' = overlapped
    BY <2>1, <2>2 DEF openDefFile
  <2> QED BY <2>1, <2>3 DEF ReportInv
<1>3. CASE LoadDef
  <2>1. loads # 0 /\ loads' = loads + 1 /\ wpc' = "loop" /\ wpc = "loop"
        /\ enabled' = enabled /\ posted' = posted
    BY <1>3 DEF LoadDef, openDefFile, ReportInv
  <2>2. loads' > 1
    BY <1>0, <2>1
  <2> QED BY <2>1, <2>2 DEF ReportInv
<1>4. CASE ReadReady
  <2>1. /\ UNCHANGED vars /\ wpc' = wpc /\ loads # 0
        /\ enabled' = (enabled \/ InitReady(posted[handled + 1]))
    <3>1. handled < Len(posted) /\ handled \in 0..Len(posted)
      BY <1>4 DEF ReadReady, StartupTypeOK
    <3>2. posted # <<>>
      BY <3>1
    <3> QED BY <1>4, <3>2 DEF ReadReady, ReportInv
  <2>2. ASSUME loads = 1, InitReady(posted[handled + 1])
        PROVE  pc[1] = "done" /\ Len(shape.defs) = nDefn[1]
    <3>1. handled + 1 \in 1..Len(posted)
      BY <1>0, <1>4 DEF ReadReady, StartupTypeOK
    <3> QED BY <2>2, <3>1 DEF ReportInv, InitReady
  <2>3. enabled' => enabled \/ InitReady(posted[handled + 1])
    BY <2>1
  <2>4. /\ shape' = shape /\ loads' = loads /\ posted' = posted /\ pc' = pc
        /\ nDefn' = nDefn /\ overlapped' = overlapped
    BY <2>1
  <2>5. enabled' /\ loads = 1 => pc[1] = "done" /\ Len(shape.defs) = nDefn[1]
    BY <2>2, <2>3 DEF ReportInv
  <2>6. enabled' => loads > 0
    BY <1>0, <2>1
  <2> QED BY <2>1, <2>4, <2>5, <2>6 DEF ReportInv
<1>5. ASSUME NEW r \in Readers, Read(r)
      PROVE  ReportInv'
  <2>1. run(r) /\ wpc' = wpc /\ enabled' = enabled
    BY <1>5 DEF Read
  <2>2. /\ shape' = shape /\ loads' = loads /\ nDefn' = nDefn
        /\ overlapped' = overlapped
    BY <2>1 DEF run, HeaderLine, NameLine, CloseLine, FlagsLine, OpenLine,
                OtherLine, OpenAct, SemiAct, DollarAct, EntryAct, Finish, Act
  <2>3. r <= loads /\ loads > 0 /\ r \in Running
    BY <1>0, <2>1, RunStarted, RunBy
  <2>4. CASE loads # 1
    BY <1>0, <2>1, <2>2, <2>3, <2>4 DEF ReportInv
  <2>5. CASE loads = 1
    <3>1. r = 1
      BY <2>3, <2>5 DEF Readers
    <3>2. pc[1] # "done"
      BY <2>3, <3>1 DEF Running
    <3>3. ~enabled /\ Len(posted) = 0
      <4>1. ~(1 \in 1..Len(posted))
        BY <2>5, <3>2 DEF ReportInv
      <4> QED BY <1>0, <2>5, <3>2, <4>1 DEF ReportInv
    <3>4. posted = <<>>
      BY <1>0, <3>3
    <3>5. CASE Finish(r)
      <4>1. /\ pc'[1] = "done" /\ Len(posted') = 1
            /\ posted'[1] = defIndex[1]
        <5>1. pc'[1] = "done" /\ posted' = Append(posted, defIndex[1])
          BY <1>0, <3>1, <3>5, FinishMoves DEF Finish
        <5>2. defIndex[1] \in Nat
          BY <1>0 DEF TypeOK
        <5>3. /\ Len(Append(posted, defIndex[1])) = Len(posted) + 1
              /\ Append(posted, defIndex[1])[Len(posted) + 1] = defIndex[1]
          BY <1>0, <5>2, AppendProperties
        <5> QED BY <3>3, <5>1, <5>3
      <4>2. defIndex[1] = Len(shape.defs)
        BY <1>0, <3>1, <3>5, FinishMoves DEF Placed, Closed, InDefns, Sections
      <4> QED BY <2>1, <2>2, <2>5, <3>3, <4>1, <4>2 DEF ReportInv
    <3>6. CASE ~Finish(r)
      <4>1. posted' = posted
        BY <2>1, <3>6 DEF run, HeaderLine, NameLine, CloseLine, FlagsLine, OpenLine,
                          OtherLine, OpenAct, SemiAct, DollarAct, EntryAct, Act
      <4> QED BY <2>1, <2>2, <2>5, <3>3, <3>4, <4>1 DEF ReportInv
    <3> QED BY <3>5, <3>6
  <2> QED BY <2>4, <2>5
<1> QED BY <1>1, <1>2, <1>3, <1>4, <1>5 DEF StartupNext

\* The types of the start-up after any step.
LEMMA StartupTypeStep ==
  ASSUME StartupTypeOK, PlaceInv, StartupNext \/ UNCHANGED startupVars
  PROVE  StartupTypeOK'
<1>0. /\ TypeOK /\ posted \in Seq(Nat) /\ Len(posted) \in Nat
      /\ handled \in 0..Len(posted) /\ SysReturns \in SUBSET Nat
  BY StartupAssumption DEF StartupTypeOK, TypeOK
<1>1. TypeOK'
  <2>1. CASE UNCHANGED vars
    BY <1>0, <2>1 DEF TypeOK
  <2> QED BY <1>0, <2>1, NextCases, TypeStep
<1>2. wpc' \in {"open", "loop"}
  BY DEF StartupTypeOK, StartupNext, SysRun, GuiInitReady, LoadDef, ReadReady, Read
<1>3. sysEnded' \in BOOLEAN
  BY DEF StartupTypeOK, StartupNext, SysRun, GuiInitReady, LoadDef, ReadReady, Read
<1>4. sysRet' \in SysReturns \cup {STILL_ACTIVE}
  BY DEF StartupTypeOK, StartupNext, SysRun, GuiInitReady, LoadDef, ReadReady, Read
<1>5. enabled' \in BOOLEAN
  <2>1. CASE ReadReady
    BY <2>1 DEF ReadReady
  <2>2. CASE ~ReadReady
    BY <2>2 DEF StartupTypeOK, StartupNext, SysRun, GuiInitReady, LoadDef, Read
  <2> QED BY <2>1, <2>2
<1>6. handled' \in 0..Len(posted')
  <2>1. CASE ReadReady
    BY <1>0, <2>1 DEF ReadReady
  <2>2. CASE ~ReadReady
    <3>1. handled' = handled
      BY <2>2 DEF StartupNext, SysRun, GuiInitReady, LoadDef, Read
    <3>2. posted' = posted \/ \E r \in Readers : posted' = Append(posted, defIndex[r])
      BY NextCases DEF openDefFile, run, HeaderLine, NameLine, CloseLine, FlagsLine,
         OpenLine, OtherLine, OpenAct, SemiAct, DollarAct, EntryAct, Finish, Act
    <3>3. \A r \in Readers : Len(Append(posted, defIndex[r])) = Len(posted) + 1
      BY <1>0, AppendProperties DEF TypeOK
    <3>4. Len(posted') \in Nat /\ Len(posted') >= Len(posted)
      BY <1>0, <3>2, <3>3
    <3> QED BY <1>0, <3>1, <3>4
  <2> QED BY <2>1, <2>2
<1> QED BY <1>1, <1>2, <1>3, <1>4, <1>5, <1>6 DEF StartupTypeOK

-------------------------------------------------------------------------------
(* The inductive invariant. *)

StartupInv == /\ StartupTypeOK /\ PlaceInv /\ AloneInv /\ StatusInv
              /\ MixedInv /\ FilledInv /\ TablesInv /\ ReportInv
              /\ WithinInv /\ BeyondInv

\* They hold before the first file is opened.
LEMMA StartupInitInv == StartupInit => StartupInv
<1> SUFFICES ASSUME StartupInit
             PROVE  StartupInv
  OBVIOUS
<1> USE DEF StartupInit, Init
<1>0. /\ shape \in Shapes /\ Readers \subseteq Nat \ {0} /\ 1 \in Readers
      /\ \A r \in Readers : pos[r] = Start /\ pc[r] = "off"
  BY ReaderAssumption DEF Readers
<1>1. /\ InFile(shape, Start) /\ Behind(shape, Start) = <<0, "header", 1>>
      /\ InFile(shape, <<0, "header", 1>>)
  <2>1. InFile(shape, Start) /\ InFile(shape, <<0, "header", 1>>)
    BY <1>0, PlaceMade
  <2> QED BY <1>0, <2>1, BehindIs
<1>2. \A r \in Readers : Due(r) = <<0, "header", 1>>
  BY <1>0, <1>1 DEF Due
<1>3. TypeOK
  <2>1. Start \in Nat \X Parts \X Nat
    BY DEF Parts
  <2>2. loads \in 0..MaxLoads
    BY ReaderAssumption
  <2>3. \A r \in Readers : nDefn[r] = 0 /\ defns[r] = <<>> /\ <<>> \in [1..0 -> Defns]
    OBVIOUS
  <2>4. "IGNOREL" \in Statuses
    BY DEF Statuses
  <2> QED BY <1>0, <1>1, <2>1, <2>2, <2>3, <2>4 DEF TypeOK
<1>4. StartupTypeOK
  <2>1. handled = 0 /\ Len(posted) = 0
    OBVIOUS
  <2>2. 0 \in 0..Len(posted)
    BY <2>1
  <2>3. /\ wpc \in {"open", "loop"} /\ sysEnded \in BOOLEAN /\ enabled \in BOOLEAN
        /\ sysRet \in SysReturns \cup {STILL_ACTIVE}
    OBVIOUS
  <2> QED BY <1>3, <2>1, <2>2, <2>3 DEF StartupTypeOK
<1>5. PlaceInv
  <2>1. Closed(shape, <<0, "header", 1>>) = 0
    BY <1>0, ClosedIs
  <2>2. \A r \in Readers : loads < r
    BY <1>0
  <2> QED BY <1>0, <1>2, <2>1, <2>2 DEF PlaceInv, Placed
<1>6. AloneInv /\ StatusInv /\ MixedInv /\ FilledInv /\ WithinInv
  BY <1>0 DEF AloneInv, StatusInv, MixedInv, FilledInv, WithinInv, Running
<1>7. TablesInv
  <2>1. Ended(shape, Due(1)) = 0 /\ Pending(Due(1)) = <<>>
    BY <1>0, <1>2 DEF Ended, Pending
  <2> QED BY <1>0, <2>1 DEF TablesInv
<1>8. ReportInv
  BY DEF ReportInv
<1>9. BeyondInv
  <2>1. \A r \in Readers : ~Passed(Due(r), nDefn[r] + 1, "name")
    BY <1>2, PassedIs
  <2> QED BY <2>1 DEF BeyondInv
<1> QED BY <1>4, <1>5, <1>6, <1>7, <1>8, <1>9 DEF StartupInv

\* The parts of StartupInv are kept together.
LEMMA StartupNextInv ==
  ASSUME StartupInv, StartupNext \/ UNCHANGED startupVars
  PROVE  StartupInv'
<1>0. /\ StartupTypeOK /\ TypeOK /\ PlaceInv /\ AloneInv /\ StatusInv
      /\ MixedInv /\ FilledInv /\ TablesInv /\ ReportInv /\ WithinInv /\ BeyondInv
  BY DEF StartupInv, StartupTypeOK
<1>1. StartupTypeOK' /\ ReportInv'
  BY <1>0, StartupTypeStep, ReportStep
<1>2. CASE UNCHANGED vars
  <2>1. PlaceInv' /\ AloneInv' /\ StatusInv'
    BY <1>0, <1>2 DEF PlaceInv, Placed, AloneInv, StatusInv, Headed, Running, Due
  <2>2. MixedInv' /\ FilledInv'
    BY <1>0, <1>2 DEF MixedInv, FilledInv, Due
  <2>3. TablesInv'
    BY <1>0, <1>2 DEF TablesInv, Due
  <2>4. WithinInv' /\ BeyondInv'
    BY <1>0, <1>2 DEF WithinInv, BeyondInv, Due
  <2> QED BY <1>1, <2>1, <2>2, <2>3, <2>4 DEF StartupInv
<1>3. CASE openDefFile \/ \E r \in Readers : run(r)
  <2>1. PlaceInv' /\ AloneInv' /\ StatusInv'
    BY <1>0, <1>3, PlaceStep, AloneStep, StatusStep
  <2>2. MixedInv' /\ FilledInv' /\ TablesInv'
    BY <1>0, <1>3, MixedStep, FilledStep, TablesStep
  <2>3. WithinInv' /\ BeyondInv'
    BY <1>0, <1>3, WithinStep, BeyondStep
  <2> QED BY <1>1, <2>1, <2>2, <2>3 DEF StartupInv
<1> QED BY <1>2, <1>3, NextCases

\* StartupInv, for any file, any declared number and any number of files opened:
\* the types, the places of the Readers, and what each has stored.
THEOREM StartupInvariant == StartupSpec => []StartupInv
<1>1. StartupInit => StartupInv
  BY StartupInitInv
<1>2. StartupInv /\ [StartupNext]_startupVars => StartupInv'
  BY StartupNextInv
<1> QED BY <1>1, <1>2, PTL DEF StartupSpec

-------------------------------------------------------------------------------
(* The results. *)

\* The types, of the files' lines and of the arrays openDefFile makes.
THEOREM StartupTypes == StartupSpec => []StartupTypeOK
<1>1. StartupInv => StartupTypeOK
  BY DEF StartupInv
<1> QED BY <1>1, StartupInvariant, PTL

\* However many Readers share `status`, no entry of a definition gets into
\* another, and no name of a table into a definition of the file.
THEOREM NeverMixed == StartupSpec => []NotMixed
<1>1. StartupInv => NotMixed
  BY MixedInvIs DEF StartupInv
<1> QED BY <1>1, StartupInvariant, PTL

\* Where a Reader that is alone has got to the end of the file.
LEMMA DoneAlone ==
  ASSUME StartupInv, NEW r \in Readers, Alone(r)
  PROVE  /\ shape \in Shapes /\ Due(r) = End /\ defIndex[r] = Len(shape.defs)
         /\ \A d \in 1..nDefn[r] : d <= Len(shape.defs) => defns[r][d] = Written(d)
         /\ r \in overrun <=> nDefn[r] < Len(shape.defs)
<1>0. /\ TypeOK /\ Placed(r) /\ pc[r] = "done" /\ r \notin overlapped
      /\ shape \in Shapes
  BY DEF StartupInv, StartupTypeOK, PlaceInv, Alone, TypeOK
<1>1. Due(r) = End
  <2>1. pos[r] = End /\ InFile(shape, End)
    BY <1>0, DueIn DEF Placed
  <2> QED BY <1>0, <2>1, BehindIs DEF Due
<1>2. defIndex[r] = Len(shape.defs)
  BY <1>0, <1>1 DEF Placed, Closed, InDefns, Sections
<1>3. ASSUME NEW d \in 1..nDefn[r], d <= Len(shape.defs)
      PROVE  defns[r][d] = Written(d)
  <2> DEFINE x == defns[r][d]
  <2>1. SoFar(shape, x, d, End) /\ d \in 1..Len(shape.defs)
    BY <1>0, <1>1, <1>3, FileTyped DEF StartupInv, FilledInv
  <2>2. /\ \A s : Passed(End, d, s)
        /\ Entries(shape, d, "descr") = 1
        /\ \A s \in Sections : Entries(shape, d, s) = shape.defs[d][s]
    BY DEF Passed, Entries, Sections
  <2>3. /\ x.dectName = <<d, "name", 1>>
        /\ x.description = IF shape.defs[d].descr THEN <<d, "descr", 1>> ELSE NoText
        /\ \A s \in Sections : x[s] = Texted(d, s, shape.defs[d][s])
    BY <2>1, <2>2 DEF SoFar, Before
  <2>4. x \in Defns
    BY <1>0, <1>3 DEF TypeOK
  <2>5. x = [dectName |-> x.dectName, description |-> x.description,
             folder |-> x.folder, file |-> x.file, reg |-> x.reg]
    BY <2>4 DEF Defns
  <2> QED BY <2>3, <2>5 DEF Written, Sections
<1>4. r \in overrun <=> nDefn[r] < Len(shape.defs)
  <2>1. Passed(Due(r), nDefn[r] + 1, "name")
    BY <1>1 DEF Passed
  <2> QED BY <1>0, <2>1 DEF StartupInv, WithinInv, BeyondInv
<1> QED BY <1>0, <1>1, <1>2, <1>3, <1>4

\* The tables of the file, in its order, are there when the first Reader, alone,
\* has read it.
THEOREM TablesKept == StartupSpec => []TablesAsWritten
<1>1. StartupInv => TablesAsWritten
  <2> SUFFICES ASSUME StartupInv, Alone(1)
               PROVE  /\ Len(tables) >= Len(shape.tables)
                      /\ \A i \in 1..Len(shape.tables) :
                           tables[i] = Texted(i, "table", shape.tables[i])
    BY DEF TablesAsWritten
  <2>1. Due(1) = End
    BY DoneAlone, ReaderAssumption DEF Readers
  <2>2. Ended(shape, End) = Len(shape.tables)
    BY DEF Ended
  <2> QED BY <2>1, <2>2 DEF StartupInv, TablesInv, Alone
<1> QED BY <1>1, StartupInvariant, PTL

\* Check, enabled for the first file, means that it has been read as written.
THEOREM CheckMeansRead == StartupSpec => []ReadyMeansRead
<1>1. StartupInv => ReadyMeansRead
  <2> SUFFICES ASSUME StartupInv, enabled, loads = 1
               PROVE  /\ Len(shape.defs) = nDefn[1] /\ 1 \notin overrun
                      /\ \A d \in 1..nDefn[1] : defns[1][d] = Written(d)
                      /\ \A i \in 1..Len(shape.tables) :
                           tables[i] = Texted(i, "table", shape.tables[i])
    BY DEF ReadyMeansRead
  <2>1. /\ pc[1] = "done" /\ Len(shape.defs) = nDefn[1] /\ 1 \notin overlapped
        /\ 1 \in Readers /\ TypeOK
    BY ReaderAssumption DEF StartupInv, StartupTypeOK, ReportInv, Readers
  <2>2. Alone(1) /\ shape \in Shapes /\ Len(shape.defs) \in Nat
    BY <2>1, FileTyped DEF Alone, TypeOK
  <2>3. 1 \notin overrun /\ \A d \in 1..nDefn[1] : defns[1][d] = Written(d)
    BY <2>1, <2>2, DoneAlone
  <2>4. Due(1) = End /\ Ended(shape, End) = Len(shape.tables)
    BY <2>1, <2>2, DoneAlone DEF Ended
  <2> QED BY <2>1, <2>2, <2>3, <2>4 DEF StartupInv, TablesInv
<1> QED BY <1>1, StartupInvariant, PTL

\* A Reader that is alone leaves its array exactly when the chosen file declares
\* fewer definitions than defn.defn has.
THEOREM ArrayLeft == StartupSpec => []OverrunWhenShort
<1>1. StartupInv => OverrunWhenShort
  BY DoneAlone DEF OverrunWhenShort
<1> QED BY <1>1, StartupInvariant, PTL

\* A Reader that is alone fills an array that is long enough with what the file says.
THEOREM ReadAsWritten == StartupSpec => []ParsedAsWritten
<1>1. StartupInv => ParsedAsWritten
  <2> SUFFICES ASSUME StartupInv, NEW r \in Readers, Alone(r)
               PROVE  /\ defIndex[r] = Len(shape.defs)
                      /\ Len(shape.defs) <= nDefn[r] =>
                           \A d \in 1..Len(shape.defs) : defns[r][d] = Written(d)
    BY DEF ParsedAsWritten
  <2>1. TypeOK /\ shape \in Shapes
    BY DEF StartupInv, StartupTypeOK, TypeOK
  <2>2. nDefn[r] \in Nat /\ Len(shape.defs) \in Nat
    BY <2>1, FileTyped DEF TypeOK
  <2>3. ASSUME Len(shape.defs) <= nDefn[r], NEW d \in 1..Len(shape.defs)
        PROVE  d \in 1..nDefn[r] /\ d <= Len(shape.defs)
    BY <2>2, <2>3
  <2> QED BY <2>3, DoneAlone
<1> QED BY <1>1, StartupInvariant, PTL
=============================================================================
