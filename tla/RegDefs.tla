-------------------------------- MODULE RegDefs --------------------------------
(***************************************************************************)
(* The registry keys of the definitions: cEngine::fillRegs, which has      *)
(* defObj::processReg take each definition's lines apart and insertRegObj  *)
(* merge what it finds into regVector.  A second check of one engine goes  *)
(* over the same strings again.                                            *)
(*                                                                         *)
(* A line "ROOT\path:name=contents:name=contents..." is a root, a path and *)
(* the texts between the colons; a text is the sequence of its parts       *)
(* between the equals signs.  The contents of a value are read and merged, *)
(* but nothing uses them: only the names are kept here.  A name has the    *)
(* blank that stands before its equals sign.                               *)
(***************************************************************************)
EXTENDS Naturals, Sequences, SequencesExt

CONSTANTS
  Lines,      \* the lines a definition may have
  Inputs,     \* the inputs considered: for each definition its lines
  Parts,      \* names and contents
  KeyPaths,   \* registry paths, without their root
  Junk,       \* what an integer nobody initialised may hold
  MaxPasses   \* bound: how many times thread 0 calls fillRegs

NoPath == <<>>  \* the empty string

Roots == {"HKCR", "HKCU", "HKLM", "HKUS", "other"}

Handle == [HKCR |-> 0, HKCU |-> 1, HKLM |-> 2, HKUS |-> 3]

LineType == [root : Roots, path : KeyPaths \cup {NoPath},
             texts : Seq(Seq(Parts))]

ASSUME RegDefsAssumption ==
  /\ Lines \in SUBSET LineType
  /\ \A l \in Lines : \A k \in 1..Len(l.texts) : l.texts[k] # <<>>
  /\ Inputs \in SUBSET Seq(Seq(Lines))
  /\ Junk \in SUBSET Nat /\ Junk # {}
  /\ MaxPasses \in Nat \ {0}

\* A root the code does not know loses its first character and stays a part of
\* the path.
Unstripped == {"KEY_CURRENT_CONFIG"} \X (KeyPaths \cup {NoPath})
AllKeyPaths == KeyPaths \cup {NoPath} \cup Unstripped

Keys == [handle : Nat, keyPath : AllKeyPaths, values : Seq(Parts)]

VARIABLES
  input,       \* the definitions as the file has them
  defs,        \* the definitions' strings, which strtok cuts
  pass,        \* calls of fillRegs so far
  def, line,   \* the definition and the line processReg is at; 0 outside
  tmp,         \* local of processReg: the key under construction
  regVector,   \* field of cEngine
  regWork      \* field of cEngine

vars == <<input, defs, pass, def, line, tmp, regVector, regWork>>

NoKey == [handle |-> 0, keyPath |-> NoPath, values |-> <<>>]

TypeOK ==
  /\ input \in Seq(Seq(LineType))
  /\ defs \in Seq(Seq(LineType))
  /\ pass \in 0..MaxPasses
  /\ def \in 0..Len(defs)
  /\ def > 0 => line \in 0..Len(defs[def])
  /\ tmp \in Keys
  /\ regVector \in Seq(Keys)
  /\ regWork \in Nat

Init ==
  /\ input \in Inputs
  /\ defs = input
  /\ pass = 0
  /\ def = 0 /\ line = 0
  /\ tmp = NoKey
  /\ regVector = <<>>
  /\ regWork = 0

-------------------------------------------------------------------------------
(* One line of processReg. *)

\* Slip: the character behind the root is not skipped.
KeyOfLineNot(l) ==
  [tmp EXCEPT
     !.handle = IF l.root = "other" THEN @ ELSE Handle[l.root],
     !.keyPath = CASE l.root = "other" -> <<"HKEY_CURRENT_CONFIG", l.path>>
                   [] l.root # "other" /\ l.path # NoPath -> l.path
                   [] OTHER -> @]

\* tmp.handle and tmp.keyPath: what the line does not give stays.  strcpyn skips
\* the root and one more character.
KeyOfLine(l) ==
  [tmp EXCEPT
     !.handle = IF l.root = "other" THEN @ ELSE Handle[l.root],
     !.keyPath = CASE l.root = "other" -> <<"KEY_CURRENT_CONFIG", l.path>>
                   [] l.root # "other" /\ l.path # NoPath -> l.path
                   [] OTHER -> @]

\* The names found.  The inner strtok at the equals signs makes the outer one
\* lose its place: it goes on behind the second part of the first text, and the
\* other texts are never reached.
NamesOfLine(l) ==
  IF l.texts = <<>> THEN <<>>
  ELSE [k \in 1..((Len(l.texts[1]) + 1) \div 2) |-> l.texts[1][2 * k - 1]]

\* strtok has put a zero behind the path.
Cut(l) == [l EXCEPT !.texts = <<>>]

\* insertRegObj compares the paths only, not the roots.  An operator named ...Not
\* is a slip of the one after it; no specification uses it.
SameKeyNot(k, key) == FALSE
SameKey(k, key) == k.keyPath = key.keyPath

\* What the loop over tmp's values adds to those of an existing key: the names
\* up to the first it has, since valueExist is never set back.
MissingNot(values, new) ==
  IF values = <<>> THEN new ELSE <<>>
MissingAllNot(values, new) == new
Missing(values, new) ==
  LET known == {n \in 1..Len(new) : Contains(values, new[n])}
  IN  IF known = {} THEN new
      ELSE SubSeq(new, 1, (CHOOSE n \in known : \A m \in known : n <= m) - 1)

KeyExist(key) == \E k \in 1..Len(regVector) : SameKey(regVector[k], key)

insertRegObj(key) ==
  regVector' =
    IF KeyExist(key)
    THEN [k \in 1..Len(regVector) |->
            IF SameKey(regVector[k], key)
            THEN [regVector[k] EXCEPT
                    !.values = @ \o Missing(@, key.values)]
            ELSE regVector[k]]
    ELSE Append(regVector, key)

\* fld: new keys, unless it is the first of all, and new values.
NewKeys(key) == IF regVector # <<>> /\ ~KeyExist(key) THEN 1 ELSE 0
NewValues(key) ==
  IF KeyExist(key)
  THEN LET k == CHOOSE k \in 1..Len(regVector) : SameKey(regVector[k], key)
       IN  Len(Missing(regVector[k].values, key.values))
  ELSE 0

Work(key) == NewKeys(key) * NewValues(key)

\* tmp.values.clear(); the slip forgets it.
ClearedNot(key) == key
Cleared(key) == [key EXCEPT !.values = <<>>]

-------------------------------------------------------------------------------
\* fillRegs.
Begin ==
  /\ def = 0
  /\ pass < MaxPasses
  /\ pass' = pass + 1
  /\ regWork' = 0
  /\ IF defs = <<>> THEN UNCHANGED <<def, tmp>>
     ELSE /\ def' = 1
          /\ \E h \in Junk : tmp' = [NoKey EXCEPT !.handle = h]
  /\ line' = 0
  /\ UNCHANGED <<input, defs, regVector>>

\* processReg, the next line.
processReg ==
  /\ def > 0
  /\ line < Len(defs[def])
  /\ LET l   == defs[def][line + 1]
         key == [KeyOfLine(l) EXCEPT !.values = @ \o NamesOfLine(l)]
     IN  /\ insertRegObj(key)
         /\ regWork' = regWork + Work(key)
         /\ tmp' = Cleared(key)
         /\ defs' = [defs EXCEPT ![def][line + 1] = Cut(l)]
  /\ line' = line + 1
  /\ UNCHANGED <<input, pass, def>>

\* The end of processReg, and the next definition with a tmp of its own.
EndDef ==
  /\ def > 0
  /\ line = Len(defs[def])
  /\ IF def < Len(defs)
     THEN /\ def' = def + 1
          /\ \E h \in Junk : tmp' = [NoKey EXCEPT !.handle = h]
     ELSE def' = 0 /\ tmp' = NoKey
  /\ line' = 0
  /\ UNCHANGED <<input, defs, pass, regVector, regWork>>

Next == Begin \/ processReg \/ EndDef

Spec == Init /\ [][Next]_vars
================================================================================
