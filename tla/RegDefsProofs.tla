----------------------------- MODULE RegDefsProofs -----------------------------
(***************************************************************************)
(* The registry keys of the definitions, for every definition file: what    *)
(* is merged into regVector is well typed, has each key once, comes from    *)
(* the lines, keeps the first value of each, and is complete after the      *)
(* first pass.                                                              *)
(***************************************************************************)
EXTENDS RegDefsProperties, SequenceTheorems, FiniteSetTheorems, TLAPS

-----------------------------------------------------------------------------
(* Helpers. *)

\* Every set of natural numbers that is not empty has a least member: the
\* intervals below its members are finite sets, which strict inclusion orders
\* well.
LEMMA Least ==
  ASSUME NEW T \in SUBSET Nat, T # {}
  PROVE  \E n \in T : \A m \in T : n <= m
<1> DEFINE Below == {1..n : n \in T}
           R == StrictSubsetOrdering(Nat)
<1>1. IsWellFoundedOn(R, FiniteSubsetsOf(Nat))
  BY FS_StrictSubsetOrderingWellFounded
<1>2. Below \subseteq FiniteSubsetsOf(Nat)
  BY FS_Interval DEF FiniteSubsetsOf
<1>3. Below # {}
  OBVIOUS
<1> HIDE DEF Below, R
<1>4. PICK s \in Below : \A r \in Below : ~(<<r, s>> \in R)
  BY <1>1, <1>2, <1>3, WFMin
<1> USE DEF Below, R
<1>5. PICK n \in T : s = 1..n
  BY <1>4
<1>6. ASSUME NEW m \in T, m < n PROVE FALSE
  <2>1. 1..m \in SUBSET (1..n) /\ 1..m # 1..n
    BY <1>6
  <2>2. <<1..m, 1..n>> \in R
    BY <2>1 DEF StrictSubsetOrdering
  <2> QED BY <2>2, <1>4, <1>5
<1> QED BY <1>6

\* All names of a sequence are different ones.
Apart(s) == \A i, j \in 1..Len(s) : s[i] = s[j] => i = j

\* That is what IsInjective says of a sequence.
LEMMA ApartIs ==
  ASSUME NEW s \in Seq(Parts)
  PROVE  IsInjective(s) <=> Apart(s)
  BY DEF IsInjective, Apart

\* What is added to the values of a key is a beginning of the new ones, and
\* lacks the first of them only when the key has it; the key has none of it.
LEMMA MissingValues ==
  ASSUME NEW values \in Seq(Parts), NEW new \in Seq(Parts)
  PROVE  /\ Missing(values, new) \in Seq(Parts)
         /\ Len(Missing(values, new)) <= Len(new)
         /\ \A j \in 1..Len(Missing(values, new)) : Missing(values, new)[j] = new[j]
         /\ new # <<>> => Contains(values, new[1]) \/ Missing(values, new) # <<>>
         /\ \A j \in 1..Len(Missing(values, new)) : ~Contains(values, Missing(values, new)[j])
<1> DEFINE known == {n \in 1..Len(new) : Contains(values, new[n])}
           first == CHOOSE n \in known : \A m \in known : n <= m
<1>0. Len(new) \in Nat /\ \A j \in 1..Len(new) : new[j] \in Parts
  BY LenProperties, ElementOfSeq
<1>1. CASE known = {}
  <2>1. Missing(values, new) = new
    BY <1>1 DEF Missing
  <2>2. \A j \in 1..Len(new) : ~Contains(values, new[j])
    BY <1>1
  <2> QED BY <2>1, <2>2, <1>0
<1>2. CASE known # {}
  <2>1. first \in known /\ \A m \in known : first <= m
    <3>1. known \in SUBSET Nat
      BY <1>0
    <3> HIDE DEF known
    <3>2. \E n \in known : \A m \in known : n <= m
      BY <3>1, <1>2, Least
    <3> QED BY <3>2
  <2>2. Missing(values, new) = SubSeq(new, 1, first - 1)
    BY <1>2 DEF Missing
  <2>3. first \in 1..Len(new) /\ Contains(values, new[first])
    BY <2>1
  <2> HIDE DEF first, known
  <2>4. first - 1 \in Int /\ 1 \in Int /\ \A i \in 1..(first - 1) : new[i] \in Parts
    BY <2>3, <1>0
  <2>5. /\ SubSeq(new, 1, first - 1) \in Seq(Parts)
        /\ Len(SubSeq(new, 1, first - 1)) = IF 1 <= first - 1 THEN (first - 1) - 1 + 1 ELSE 0
        /\ \A i \in 1..((first - 1) - 1 + 1) :
             SubSeq(new, 1, first - 1)[i] = new[1 + i - 1]
    BY <2>4, SubSeqProperties
  <2>6. first = 1 \/ SubSeq(new, 1, first - 1) # <<>>
    BY <2>5, <2>3, <1>0, EmptySeq
  <2>7. \A i \in 1..(first - 1) : ~Contains(values, new[i])
    <3>1. ASSUME NEW i \in 1..(first - 1), Contains(values, new[i])
          PROVE  FALSE
      <4>1. i \in 1..Len(new) /\ i < first
        BY <2>3, <1>0
      <4>2. first <= i
        BY <2>1, <3>1, <4>1 DEF known
      <4> QED BY <2>3, <1>0, <4>1, <4>2
    <3> QED BY <3>1
  <2>8. \A i \in 1..Len(SubSeq(new, 1, first - 1)) :
          ~Contains(values, SubSeq(new, 1, first - 1)[i])
    BY <2>3, <2>5, <2>7, <1>0
  <2> QED BY <2>2, <2>3, <2>5, <2>6, <2>8, <1>0
<1> QED BY <1>1, <1>2

-----------------------------------------------------------------------------
(* insertRegObj. *)

\* The values of a key, with what is missing of the new ones behind them.
WithMissing(all, old, add, new) ==
  /\ Len(add) <= Len(new) /\ \A j \in 1..Len(add) : add[j] = new[j]
  /\ new # <<>> => Contains(old, new[1]) \/ add # <<>>
  /\ \A j \in 1..Len(add) : ~Contains(old, add[j])
  /\ Len(all) = Len(old) + Len(add)
  /\ \A i \in 1..Len(old) + Len(add) :
       all[i] = IF i <= Len(old) THEN old[i] ELSE add[i - Len(old)]

\* They are the old values and some of the new, among which the first, and none
\* twice that was not.
Extends(all, old, new) ==
  /\ Len(all) >= Len(old)
  /\ \A j \in 1..Len(old) : all[j] = old[j]
  /\ \A j \in 1..Len(all) :
       j <= Len(old) \/ \E i \in 1..Len(new) : all[j] = new[i]
  /\ new # <<>> => Contains(all, new[1])
  /\ new = <<>> => all = old
  /\ Apart(old) /\ Apart(new) => Apart(all)

\* The values of a key stay at the front of what insertRegObj makes of them.
LEMMA Extended ==
  ASSUME NEW old \in Seq(Parts), NEW new \in Seq(Parts), NEW add \in Seq(Parts),
         NEW all \in Seq(Parts), WithMissing(all, old, add, new)
  PROVE  Extends(all, old, new)
<1> USE DEF WithMissing
<1>2. Len(old) \in Nat /\ Len(add) \in Nat /\ Len(new) \in Nat
  BY LenProperties
<1>3. \A j \in 1..Len(old) : all[j] = old[j]
  BY <1>2
<1>4. ASSUME NEW j \in 1..Len(all), j > Len(old)
      PROVE  \E i \in 1..Len(new) : all[j] = new[i]
  <2>1. j - Len(old) \in 1..Len(add) /\ j \in 1..Len(old) + Len(add)
    BY <1>4, <1>2
  <2>2. all[j] = add[j - Len(old)]
    BY <2>1, <1>4, <1>2
  <2>3. all[j] = new[j - Len(old)] /\ j - Len(old) \in 1..Len(new)
    BY <2>1, <2>2, <1>2
  <2> QED BY <2>3
<1>5. ASSUME new # <<>> PROVE Contains(all, new[1])
  <2>1. CASE Contains(old, new[1])
    <3>1. PICK i \in 1..Len(old) : old[i] = new[1]
      BY <2>1 DEF Contains
    <3>2. i \in 1..Len(all) /\ all[i] = new[1]
      BY <3>1, <1>2, <1>3
    <3> QED BY <3>2 DEF Contains
  <2>2. CASE add # <<>>
    <3>1. Len(add) >= 1
      BY <2>2, <1>2, EmptySeq
    <3>2. Len(old) + 1 \in 1..Len(all)
      BY <3>1, <1>2
    <3>3. all[Len(old) + 1] = add[Len(old) + 1 - Len(old)]
      BY <3>1, <3>2, <1>2
    <3>4. Len(old) + 1 - Len(old) = 1
      BY <1>2
    <3>5. add[1] = new[1]
      BY <3>1, <1>2
    <3> QED BY <3>2, <3>3, <3>4, <3>5 DEF Contains
  <2> QED BY <1>5, <2>1, <2>2
<1>6. ASSUME new = <<>> PROVE all = old
  <2>1. Len(add) = 0
    BY <1>6, <1>2
  <2>2. Len(all) = Len(old)
    BY <2>1, <1>2
  <2> QED BY <2>2, <1>3, SeqEqual
<1>7. Len(all) >= Len(old)
  BY <1>2
<1>8. \A j \in 1..Len(all) :
        j <= Len(old) \/ \E i \in 1..Len(new) : all[j] = new[i]
  <2>1. SUFFICES ASSUME NEW j \in 1..Len(all), ~(j <= Len(old))
                 PROVE  \E i \in 1..Len(new) : all[j] = new[i]
    OBVIOUS
  <2>2. j > Len(old)
    BY <1>2, <2>1
  <2> QED BY <1>4, <2>2
<1>9. ASSUME Apart(old), Apart(new) PROVE Apart(all)
  <2>1. SUFFICES ASSUME NEW i \in 1..Len(all), NEW j \in 1..Len(all), i < j
                 PROVE  all[i] # all[j]
    <3>1. \A i, j \in 1..Len(all) : i < j \/ j < i \/ i = j
      BY <1>2
    <3> QED BY <3>1 DEF Apart
  <2>2. CASE j <= Len(old)
    <3>1. i \in 1..Len(old) /\ j \in 1..Len(old)
      BY <1>2, <2>1, <2>2
    <3>2. old[i] # old[j]
      BY <1>2, <1>9, <2>1, <3>1 DEF Apart
    <3> QED BY <1>3, <3>1, <3>2
  <2>3. CASE j > Len(old) /\ i <= Len(old)
    <3>1. i \in 1..Len(old) /\ j - Len(old) \in 1..Len(add) /\ j \in 1..Len(old) + Len(add)
      BY <1>2, <2>1, <2>3
    <3>2. all[i] = old[i] /\ all[j] = add[j - Len(old)]
      BY <1>2, <1>3, <2>3, <3>1
    <3>3. ~Contains(old, add[j - Len(old)])
      BY <3>1
    <3> QED BY <3>1, <3>2, <3>3 DEF Contains
  <2>4. CASE i > Len(old)
    <3>1. /\ i - Len(old) \in 1..Len(add) /\ j - Len(old) \in 1..Len(add)
          /\ i \in 1..Len(old) + Len(add) /\ j \in 1..Len(old) + Len(add)
          /\ j > Len(old) /\ i - Len(old) # j - Len(old)
      BY <1>2, <2>1, <2>4
    <3>2. all[i] = add[i - Len(old)] /\ all[j] = add[j - Len(old)]
      BY <1>2, <2>4, <3>1
    <3>3. /\ i - Len(old) \in 1..Len(new) /\ j - Len(old) \in 1..Len(new)
          /\ add[i - Len(old)] = new[i - Len(old)] /\ add[j - Len(old)] = new[j - Len(old)]
      BY <1>2, <3>1
    <3> DEFINE x == i - Len(old)
               y == j - Len(old)
    <3>4. /\ x \in 1..Len(new) /\ y \in 1..Len(new) /\ x # y
          /\ all[i] = new[x] /\ all[j] = new[y]
      BY <3>1, <3>2, <3>3
    <3> HIDE DEF x, y
    <3> QED BY <1>9, <3>4 DEF Apart
  <2>5. j <= Len(old) \/ (j > Len(old) /\ i <= Len(old)) \/ i > Len(old)
    <3>1. i \in Nat /\ j \in Nat
      BY <1>2
    <3> QED BY <1>2, <3>1
  <2> QED BY <2>2, <2>3, <2>4, <2>5
<1> QED BY <1>3, <1>5, <1>6, <1>7, <1>8, <1>9 DEF Extends

\* A key that is there takes the names it lacks behind its own.
MergedKey(m, k, new) ==
  /\ m \in Keys
  /\ m.handle = k.handle /\ m.keyPath = k.keyPath
  /\ Extends(m.values, k.values, new)
  /\ new = <<>> => m = k

\* The key with the missing values appended is the merge of the two.
LEMMA KeyMerged ==
  ASSUME NEW k \in Keys, NEW new \in Seq(Parts)
  PROVE  MergedKey([k EXCEPT !.values = @ \o Missing(@, new)], k, new)
<1>1. PICK old \in Seq(Parts) : old = k.values
  BY DEF Keys
<1>2. PICK add \in Seq(Parts) :
        /\ add = Missing(old, new) /\ Len(add) <= Len(new)
        /\ \A j \in 1..Len(add) : add[j] = new[j]
        /\ new # <<>> => Contains(old, new[1]) \/ add # <<>>
        /\ \A j \in 1..Len(add) : ~Contains(old, add[j])
  BY <1>1, MissingValues, Zenon
<1>3. PICK all : all = old \o add
  OBVIOUS
<1>4. /\ all \in Seq(Parts) /\ Len(all) = Len(old) + Len(add)
      /\ \A i \in 1..Len(old) + Len(add) :
           all[i] = IF i <= Len(old) THEN old[i] ELSE add[i - Len(old)]
  BY <1>3, ConcatProperties, Zenon
<1>5. Extends(all, old, new)
  <2>1. WithMissing(all, old, add, new)
    BY <1>2, <1>4, Zenon DEF WithMissing
  <2> QED BY <2>1, <1>4, Extended
<1>6. PICK merged : merged = [k EXCEPT !.values = all]
  OBVIOUS
<1>7. /\ merged \in Keys /\ merged.handle = k.handle /\ merged.keyPath = k.keyPath
      /\ merged.values = all
      /\ all = old => merged = k
  BY <1>1, <1>4, <1>6 DEF Keys
<1>8. MergedKey(merged, k, new)
  BY <1>1, <1>5, <1>7 DEF MergedKey, Extends
<1>9. merged = [k EXCEPT !.values = @ \o Missing(@, new)]
  BY <1>1, <1>2, <1>3, <1>6
<1> QED BY <1>8, <1>9

\* What insertRegObj does: a key keeps its root, its path and its values, and
\* only the key of the same path gets more; no other key is added than this one.
Inserted(key) ==
  /\ regVector' \in Seq(Keys)
  /\ Len(regVector') = IF KeyExist(key) THEN Len(regVector) ELSE Len(regVector) + 1
  /\ \A k \in 1..Len(regVector) :
       \/ MergedKey(regVector'[k], regVector[k], key.values)
            /\ regVector[k].keyPath = key.keyPath
       \/ regVector'[k] = regVector[k] /\ regVector[k].keyPath # key.keyPath
  /\ ~KeyExist(key) => regVector'[Len(regVector) + 1] = key
  /\ KeyExist(key) /\ key.values = <<>> => regVector' = regVector

\* insertRegObj either merges a key into one of its path or appends it.
LEMMA InsertedKey ==
  ASSUME NEW key \in Keys, regVector \in Seq(Keys), insertRegObj(key)
  PROVE  Inserted(key)
<1>1. Len(regVector) \in Nat /\ \A k \in 1..Len(regVector) : regVector[k] \in Keys
  BY LenProperties, ElementOfSeq
<1>2. key.values \in Seq(Parts)
  BY DEF Keys
<1>3. CASE KeyExist(key)
  <2> DEFINE merged(k) == IF SameKey(regVector[k], key)
                          THEN [regVector[k] EXCEPT !.values = @ \o Missing(@, key.values)]
                          ELSE regVector[k]
  <2>1. regVector' = [k \in 1..Len(regVector) |-> merged(k)]
    BY <1>3 DEF insertRegObj
  <2>2. ASSUME NEW k \in 1..Len(regVector)
        PROVE  \/ MergedKey(merged(k), regVector[k], key.values)
                    /\ regVector[k].keyPath = key.keyPath
               \/ merged(k) = regVector[k] /\ regVector[k].keyPath # key.keyPath
    BY <1>1, <1>2, KeyMerged DEF SameKey
  <2>3. \A k \in 1..Len(regVector) :
          merged(k) \in Keys /\ (key.values = <<>> => merged(k) = regVector[k])
    BY <2>2, <1>1 DEF MergedKey
  <2> HIDE DEF merged
  <2>4. /\ regVector' \in Seq(Keys) /\ Len(regVector') = Len(regVector)
        /\ \A k \in 1..Len(regVector) : regVector'[k] = merged(k)
    BY <2>1, <2>3, <1>1
  <2>5. ASSUME key.values = <<>> PROVE regVector' = regVector
    BY <2>3, <2>4, <2>5, SeqEqual
  <2> QED BY <1>3, <2>2, <2>4, <2>5 DEF Inserted
<1>4. CASE ~KeyExist(key)
  <2>1. regVector' = Append(regVector, key)
    BY <1>4 DEF insertRegObj
  <2>2. /\ regVector' \in Seq(Keys) /\ Len(regVector') = Len(regVector) + 1
        /\ \A k \in 1..Len(regVector) : regVector'[k] = regVector[k]
        /\ regVector'[Len(regVector) + 1] = key
    BY <2>1, AppendProperties
  <2>3. \A k \in 1..Len(regVector) : regVector[k].keyPath # key.keyPath
    BY <1>4 DEF KeyExist, SameKey
  <2> QED BY <1>4, <2>2, <2>3 DEF Inserted
<1> QED BY <1>3, <1>4

\* What insertRegObj counts.
LEMMA WorkTyped ==
  ASSUME NEW key \in Keys, regVector \in Seq(Keys)
  PROVE  Work(key) \in Nat
<1>1. NewKeys(key) \in Nat
  BY DEF NewKeys
<1>2. NewValues(key) \in Nat
  <2>1. CASE KeyExist(key)
    <3> DEFINE k == CHOOSE k \in 1..Len(regVector) : SameKey(regVector[k], key)
    <3>1. k \in 1..Len(regVector)
      BY <2>1 DEF KeyExist
    <3>2. NewValues(key) = Len(Missing(regVector[k].values, key.values))
      BY <2>1 DEF NewValues
    <3> HIDE DEF k
    <3>3. regVector[k].values \in Seq(Parts) /\ key.values \in Seq(Parts)
      <4>1. regVector[k] \in Keys
        BY <3>1, ElementOfSeq
      <4> QED BY <4>1 DEF Keys
    <3>4. Missing(regVector[k].values, key.values) \in Seq(Parts)
      BY <3>3, MissingValues
    <3> QED BY <3>2, <3>4, LenProperties
  <2> QED BY <2>1 DEF NewValues
<1> QED BY <1>1, <1>2 DEF Work

-----------------------------------------------------------------------------
(* The invariant. *)

\* Where fillRegs is; the values of a key under construction go with its line.
CursorInv ==
  /\ def = 0 => line = 0
  /\ pass = 0 => def = 0 /\ regVector = <<>>
  /\ tmp.values = <<>>

\* The strings are the file's, and those read lack what stands behind the path.
LinesInv ==
  /\ input \in Seq(Seq(Lines))
  /\ Len(defs) = Len(input)
  /\ \A d \in 1..Len(input) :
       /\ Len(defs[d]) = Len(input[d])
       /\ \A e \in 1..Len(input[d]) :
            /\ defs[d][e].root = input[d][e].root
            /\ defs[d][e].path = input[d][e].path
            /\ defs[d][e].texts = IF Read(<<d, e>>) THEN <<>> ELSE input[d][e].texts

\* The path in force after line e of definition d: that of the last line that
\* gives one.
GivesPath(l) == l.root = "other" \/ l.path # NoPath
PathGiven(l) ==
  IF l.root = "other" THEN <<"KEY_CURRENT_CONFIG", l.path>> ELSE l.path

PathAfter(d, e, path) ==
  \/ path = NoPath /\ \A j \in 1..e : ~GivesPath(input[d][j])
  \/ \E j \in 1..e :
       /\ GivesPath(input[d][j]) /\ path = PathGiven(input[d][j])
       /\ \A m \in 1..e : j < m => ~GivesPath(input[d][m])

PathInv == def > 0 => PathAfter(def, line, tmp.keyPath)

\* Every line read has left its key.
FoundInv ==
  \A p \in Places : Read(p) =>
    \A path \in AllKeyPaths : PathAfter(p[1], p[2], path) =>
      \E k \in 1..Len(regVector) : regVector[k].keyPath = path

\* No path is recorded under two keys.
PathsOnce ==
  \A k, m \in 1..Len(regVector) :
    regVector[k].keyPath = regVector[m].keyPath => k = m

\* No key has a value twice, if no line has.
LinesApart == \A p \in Places : Apart(NamesOfLine(LineAt(p)))
ValuesOnce == LinesApart => \A k \in 1..Len(regVector) : Apart(regVector[k].values)

\* Every key has a line that gives its root and its path.
Proper == RootsApart /\ \A p \in Places : WellFormed(LineAt(p))

SourceInv ==
  Proper =>
    \A k \in 1..Len(regVector) : \E p \in Places :
      /\ Handle[LineAt(p).root] = regVector[k].handle
      /\ LineAt(p).path = regVector[k].keyPath

BaseInv == TypeOK /\ CursorInv /\ LinesInv

RegInv ==
  /\ BaseInv /\ PathInv /\ FoundInv /\ PathsOnce /\ ValuesOnce
  /\ SourceInv /\ NothingInvented /\ FirstValueKept

USE DEF vars, NoKey

\* What the assumptions say of the file.
LEMMA InputTyped ==
  ASSUME LinesInv
  PROVE  /\ Len(input) \in Nat
         /\ \A d \in 1..Len(input) : Len(input[d]) \in Nat
         /\ \A d \in 1..Len(input) : \A e \in 1..Len(input[d]) :
              input[d][e] \in LineType
<1>1. \A d \in 1..Len(input) : input[d] \in Seq(Lines)
  BY DEF LinesInv
<1>2. Lines \subseteq LineType
  BY RegDefsAssumption
<1> QED BY <1>1, <1>2, LenProperties, ElementOfSeq DEF LinesInv

\* A place is a definition and the number of one of its lines.
LEMMA PlaceIs ==
  ASSUME LinesInv
  PROVE  /\ \A d \in 1..Len(input) : \A e \in 1..Len(input[d]) : <<d, e>> \in Places
         /\ \A p \in Places : /\ p = <<p[1], p[2]>>
                              /\ p[1] \in 1..Len(input) /\ p[2] \in 1..Len(input[p[1]])
  BY DEF Places

\* The place of the line that processReg takes next, and the key it makes of it.
NextPlace == <<def, line + 1>>

NewKey(l) == [KeyOfLine(l) EXCEPT !.values = @ \o NamesOfLine(l)]

\* The names that processReg takes from a line are names.
LEMMA NamesTyped ==
  ASSUME NEW l \in LineType
  PROVE  NamesOfLine(l) \in Seq(Parts)
<1>1. l.texts \in Seq(Seq(Parts))
  BY DEF LineType
<1>2. CASE l.texts = <<>>
  BY <1>2 DEF NamesOfLine
<1>3. CASE l.texts # <<>>
  <2>1. PICK text \in Seq(Parts) : text = l.texts[1]
    BY <1>1, <1>3
  <2> DEFINE n == (Len(text) + 1) \div 2
  <2>2. Len(text) \in Nat /\ n \in Nat
    <3>1. \A m \in Nat : (m + 1) \div 2 \in Nat
      OBVIOUS
    <3> QED BY <3>1, LenProperties
  <2>3. \A k \in 1..n : 2 * k - 1 \in 1..Len(text)
    BY <2>2
  <2>4. \A k \in 1..n : text[2 * k - 1] \in Parts
    BY <2>3, ElementOfSeq
  <2>5. NamesOfLine(l) = [k \in 1..n |-> text[2 * k - 1]]
    BY <2>1, <1>3 DEF NamesOfLine
  <2> HIDE DEF n
  <2> QED BY <2>2, <2>4, <2>5
<1> QED BY <1>2, <1>3

\* The key of a line has the line's values, and the path and the handle that the
\* line gives, or else those of tmp.
LEMMA KeyTyped ==
  ASSUME NEW l \in LineType, tmp \in Keys, tmp.values = <<>>
  PROVE  /\ NewKey(l) \in Keys
         /\ NewKey(l).values = NamesOfLine(l)
         /\ NewKey(l).keyPath = IF GivesPath(l) THEN PathGiven(l) ELSE tmp.keyPath
         /\ l.root # "other" => NewKey(l).handle = Handle[l.root]
<1>1. l.root \in Roots /\ l.path \in KeyPaths \cup {NoPath}
  BY DEF LineType
<1>2. l.root # "other" => Handle[l.root] \in Nat
  BY <1>1 DEF Roots, Handle
<1>3. l.root = "other" => <<"KEY_CURRENT_CONFIG", l.path>> \in AllKeyPaths
  BY <1>1 DEF AllKeyPaths, Unstripped
<1>4. l.path \in AllKeyPaths
  BY <1>1 DEF AllKeyPaths
<1>5. /\ KeyOfLine(l) \in Keys /\ KeyOfLine(l).values = <<>>
      /\ KeyOfLine(l).keyPath = IF GivesPath(l) THEN PathGiven(l) ELSE tmp.keyPath
      /\ l.root # "other" => KeyOfLine(l).handle = Handle[l.root]
  BY <1>2, <1>3, <1>4 DEF KeyOfLine, Keys, GivesPath, PathGiven
<1>6. PICK names \in Seq(Parts) : names = NamesOfLine(l)
  BY NamesTyped
<1>7. KeyOfLine(l).values \o names = names
  BY <1>5, ConcatEmptySeq
<1>8. NewKey(l) = [KeyOfLine(l) EXCEPT !.values = names]
  BY <1>5, <1>6, <1>7 DEF NewKey
<1>9. PICK k \in Keys : k = KeyOfLine(l)
  BY <1>5
<1>10. /\ [k EXCEPT !.values = names] \in Keys
       /\ [k EXCEPT !.values = names].values = names
       /\ [k EXCEPT !.values = names].keyPath = k.keyPath
       /\ [k EXCEPT !.values = names].handle = k.handle
  BY DEF Keys
<1> QED BY <1>5, <1>6, <1>8, <1>9, <1>10, Zenon

\* A key before its line, after it, and a line after strtok.
LEMMA FreshKeys ==
  /\ NoKey \in Keys
  /\ \A h \in Junk : /\ [NoKey EXCEPT !.handle = h] \in Keys
                     /\ [NoKey EXCEPT !.handle = h].values = <<>>
                     /\ [NoKey EXCEPT !.handle = h].keyPath = NoPath
<1>1. <<>> \in Seq(Parts) /\ NoPath \in AllKeyPaths
  BY EmptySeq DEF AllKeyPaths
<1>2. \A h \in Junk : h \in Nat
  BY RegDefsAssumption
<1> QED BY <1>1, <1>2 DEF Keys

\* Clearing tmp after a line keeps its path.
LEMMA ClearedTyped ==
  ASSUME NEW k \in Keys
  PROVE  /\ Cleared(k) \in Keys /\ Cleared(k).values = <<>>
         /\ Cleared(k).keyPath = k.keyPath
<1>1. <<>> \in Seq(Parts)
  BY EmptySeq
<1> QED BY <1>1 DEF Cleared, Keys

\* strtok leaves the root and the path of a line, and no text to take names from.
LEMMA CutTyped ==
  ASSUME NEW l \in LineType
  PROVE  /\ Cut(l) \in LineType
         /\ Cut(l).root = l.root /\ Cut(l).path = l.path /\ Cut(l).texts = <<>>
<1>1. <<>> \in Seq(Seq(Parts))
  BY EmptySeq
<1> QED BY <1>1 DEF Cut, LineType

-----------------------------------------------------------------------------
(* The cursor and the lines. *)

\* Before the first line the types hold.
LEMMA BaseInit == Init => BaseInv
<1> SUFFICES ASSUME Init PROVE BaseInv
  OBVIOUS
<1>1. input \in Seq(Seq(Lines)) /\ defs = input
  BY RegDefsAssumption DEF Init
<1>2. Seq(Lines) \subseteq Seq(LineType)
  BY RegDefsAssumption
<1>3. input \in Seq(Seq(LineType))
  BY <1>1, <1>2
<1>4. NoKey \in Keys
  BY DEF Keys, AllKeyPaths
<1>5. TypeOK
  BY <1>1, <1>3, <1>4, RegDefsAssumption DEF TypeOK, Init
<1>6. CursorInv
  BY DEF Init, CursorInv
<1>7. LinesInv
  <2>1. \A d \in 1..Len(input) : \A e \in 1..Len(input[d]) : ~Read(<<d, e>>)
    <3>1. \A d \in 1..Len(input) : Len(input[d]) \in Nat
      BY <1>1
    <3> QED BY <1>1, <3>1 DEF Init, Read
  <2> QED BY <1>1, <2>1 DEF LinesInv
<1> QED BY <1>5, <1>6, <1>7 DEF BaseInv

\* What the next line is, and what becomes of it.
LEMMA LineRead ==
  ASSUME BaseInv, processReg
  PROVE  \E l \in LineType :
           /\ def \in 1..Len(input) /\ line + 1 \in 1..Len(input[def])
           /\ NextPlace \in Places
           /\ l.root = LineAt(NextPlace).root /\ l.path = LineAt(NextPlace).path
           /\ l.texts = IF pass = 1 THEN LineAt(NextPlace).texts ELSE <<>>
           /\ insertRegObj(NewKey(l)) /\ NewKey(l) \in Keys /\ Inserted(NewKey(l))
           /\ tmp' = Cleared(NewKey(l))
           /\ defs' = [defs EXCEPT ![def][line + 1] = Cut(l)]
           /\ l = defs[def][line + 1]
<1>1. /\ def > 0 /\ line < Len(defs[def]) /\ def \in 0..Len(defs) /\ line \in 0..Len(defs[def])
      /\ defs \in Seq(Seq(LineType)) /\ tmp \in Keys /\ regVector \in Seq(Keys)
      /\ pass \in Nat
  BY DEF BaseInv, TypeOK, processReg
<1>2. Len(defs) = Len(input) /\ LinesInv
  BY DEF BaseInv, LinesInv
<1>3. def \in 1..Len(input) /\ def \in 1..Len(defs)
  BY <1>1, <1>2
<1>4. Len(defs[def]) = Len(input[def]) /\ Len(defs[def]) \in Nat
  BY <1>1, <1>2, <1>3 DEF LinesInv
<1>5. line + 1 \in 1..Len(input[def])
  BY <1>1, <1>4
<1>6. NextPlace \in Places
  BY <1>2, <1>3, <1>5, PlaceIs DEF NextPlace
<1> DEFINE l == defs[def][line + 1]
<1>7. l \in LineType
  BY <1>1, <1>3, <1>4, <1>5, ElementOfSeq
<1>8. LineAt(NextPlace) = input[def][line + 1]
  BY DEF LineAt, NextPlace
<1>9. /\ l.root = LineAt(NextPlace).root /\ l.path = LineAt(NextPlace).path
      /\ l.texts = IF Read(NextPlace) THEN <<>> ELSE LineAt(NextPlace).texts
  BY <1>2, <1>3, <1>5, <1>8 DEF LinesInv, NextPlace
<1>10. Read(NextPlace) <=> pass # 1
  BY <1>1 DEF Read, NextPlace, BaseInv, CursorInv
<1>11. /\ insertRegObj(NewKey(l)) /\ tmp' = Cleared(NewKey(l))
       /\ defs' = [defs EXCEPT ![def][line + 1] = Cut(l)]
  BY DEF processReg, NewKey
<1> HIDE DEF l
<1>12. NewKey(l) \in Keys
  BY <1>1, <1>7, KeyTyped DEF BaseInv, CursorInv
<1>13. Inserted(NewKey(l))
  BY <1>1, <1>11, <1>12, InsertedKey
<1> QED BY <1>3, <1>5, <1>6, <1>7, <1>9, <1>10, <1>11, <1>12, <1>13 DEF l

\* The invariant of the cursor and the lines, step by step.
LEMMA BaseStep == BaseInv /\ [Next]_vars => BaseInv'
<1> SUFFICES ASSUME BaseInv, [Next]_vars PROVE BaseInv'
  OBVIOUS
<1> USE DEF BaseInv
<1>0. /\ Len(defs) \in Nat /\ Len(defs) = Len(input) /\ pass \in 0..MaxPasses
      /\ MaxPasses \in Nat
      /\ \A d \in 1..Len(defs) : Len(defs[d]) \in Nat /\ Len(defs[d]) = Len(input[d])
  BY RegDefsAssumption DEF TypeOK, LinesInv
<1>1. CASE Begin
  <2> USE <1>1 DEF Begin
  <2>1. TypeOK'
    <3>2. tmp' \in Keys
      BY FreshKeys DEF TypeOK
    <3>3. pass' \in 0..MaxPasses /\ regWork' \in Nat /\ line' = 0
      BY <1>0
    <3>4. def' \in 0..Len(defs')
      BY <1>0 DEF TypeOK
    <3>5. def' > 0 => line' \in 0..Len(defs'[def'])
      BY <1>0, <3>4, <3>3
    <3> QED BY <3>2, <3>3, <3>4, <3>5 DEF TypeOK
  <2>2. CursorInv'
    BY <1>0 DEF CursorInv
  <2>3. LinesInv'
    <3>1. ASSUME NEW d \in 1..Len(input), NEW e \in 1..Len(input[d])
          PROVE  Read(<<d, e>>)' <=> Read(<<d, e>>)
      <4>1. Len(input[d]) \in Nat /\ defs # <<>>
        BY <1>0
      <4>2. def' = 1 /\ line' = 0 /\ def = 0 /\ pass' = pass + 1
        BY <4>1
      <4> QED BY <4>1, <4>2, <1>0 DEF Read
    <3> QED BY <3>1 DEF LinesInv
  <2> QED BY <2>1, <2>2, <2>3
<1>2. CASE processReg
  <2> USE <1>2
  <2>1. PICK l \in LineType :
          /\ def \in 1..Len(input) /\ line + 1 \in 1..Len(input[def])
          /\ NewKey(l) \in Keys /\ Inserted(NewKey(l)) /\ tmp' = Cleared(NewKey(l))
          /\ defs' = [defs EXCEPT ![def][line + 1] = Cut(l)]
          /\ l = defs[def][line + 1]
    BY LineRead
  <2>2. Cut(l) \in LineType /\ Cut(l).root = l.root /\ Cut(l).path = l.path
        /\ Cut(l).texts = <<>>
    BY CutTyped
  <2>3. PICK d0 \in Seq(LineType) : d0 = defs[def]
    BY <1>0, <2>1 DEF TypeOK
  <2>4. PICK d1 : d1 = [d0 EXCEPT ![line + 1] = Cut(l)]
    OBVIOUS
  <2>5. /\ d1 \in Seq(LineType) /\ Len(d1) = Len(d0)
        /\ \A j \in 1..Len(d0) : d1[j] = IF j = line + 1 THEN Cut(l) ELSE d0[j]
    <3>1. line + 1 \in 1..Len(d0)
      BY <1>0, <2>1, <2>3
    <3> QED BY <3>1, <2>2, <2>4
  <2>6. defs' = [defs EXCEPT ![def] = d1]
    BY <2>1, <2>3, <2>4
  <2>7. /\ defs' \in Seq(Seq(LineType)) /\ Len(defs') = Len(defs)
        /\ \A d \in 1..Len(defs) : defs'[d] = IF d = def THEN d1 ELSE defs[d]
    <3>1. def \in 1..Len(defs) /\ defs \in Seq(Seq(LineType))
      BY <1>0, <2>1 DEF TypeOK
    <3> QED BY <3>1, <2>5, <2>6
  <2>8. /\ line' = line + 1 /\ input' = input /\ pass' = pass /\ def' = def
        /\ regWork' \in Nat
    <3>1. Work(NewKey(l)) \in Nat
      BY <2>1, WorkTyped DEF TypeOK
    <3>2. regWork' = regWork + Work(NewKey(l))
      BY <2>1 DEF processReg, NewKey
    <3> QED BY <3>1, <3>2 DEF processReg, TypeOK
  <2>9. tmp' \in Keys /\ tmp'.values = <<>>
    BY <2>1, ClearedTyped
  <2>10. TypeOK'
    <3>1. def' \in 0..Len(defs') /\ line' \in 0..Len(defs'[def'])
      BY <1>0, <2>1, <2>3, <2>5, <2>7, <2>8
    <3> QED BY <3>1, <2>1, <2>7, <2>8, <2>9 DEF TypeOK, Inserted
  <2>11. CursorInv'
    BY <1>0, <2>1, <2>8, <2>9 DEF CursorInv
  <2>12. LinesInv'
    <3>1. ASSUME NEW d \in 1..Len(input)
          PROVE  /\ Len(defs'[d]) = Len(input[d])
                 /\ \A e \in 1..Len(input[d]) :
                      defs'[d][e] = IF <<d, e>> = NextPlace THEN Cut(l) ELSE defs[d][e]
      BY <1>0, <2>1, <2>3, <2>5, <2>7 DEF NextPlace
    <3>2. ASSUME NEW d \in 1..Len(input), NEW e \in 1..Len(input[d])
          PROVE  Read(<<d, e>>)' <=> Read(<<d, e>>) \/ <<d, e>> = NextPlace
      <4>1. d \in Nat /\ e \in Nat /\ line \in Nat /\ def \in Nat /\ def > 0
        <5>1. line \in 0..Len(defs[def])
          BY <2>1 DEF TypeOK, processReg
        <5> QED BY <5>1, <1>0, <2>1
      <4>2. <<d, e>> = NextPlace <=> d = def /\ e = line + 1
        BY DEF NextPlace
      <4>3. Read(<<d, e>>) <=> \/ pass > 1 \/ (pass = 1 /\ def = 0)
                              \/ d < def \/ (d = def /\ e <= line)
        BY DEF Read
      <4>4. Read(<<d, e>>)' <=> \/ pass > 1 \/ (pass = 1 /\ def = 0)
                               \/ d < def \/ (d = def /\ e <= line + 1)
        BY <2>8 DEF Read
      <4> QED BY <4>1, <4>2, <4>3, <4>4
    <3>3. ASSUME NEW d \in 1..Len(input), NEW e \in 1..Len(input[d])
          PROVE  /\ defs'[d][e].root = input[d][e].root
                 /\ defs'[d][e].path = input[d][e].path
                 /\ defs'[d][e].texts = IF Read(<<d, e>>)' THEN <<>> ELSE input[d][e].texts
      <4>1. CASE <<d, e>> = NextPlace
        <5>1. d = def /\ e = line + 1
          BY <4>1 DEF NextPlace
        <5> QED BY <5>1, <4>1, <3>1, <3>2, <2>1, <2>2 DEF LinesInv
      <4>2. CASE <<d, e>> # NextPlace
        BY <4>2, <3>1, <3>2 DEF LinesInv
      <4> QED BY <4>1, <4>2
    <3> QED BY <3>1, <3>3, <2>7, <2>8 DEF LinesInv
  <2> QED BY <2>10, <2>11, <2>12
<1>3. CASE EndDef
  <2> USE <1>3 DEF EndDef
  <2>1. TypeOK'
    <3>2. tmp' \in Keys
      BY FreshKeys
    <3>3. def' \in 0..Len(defs')
      <4>1. def \in 0..Len(defs) /\ Len(defs) \in Nat /\ defs' = defs
        BY <1>0 DEF TypeOK
      <4>2. def' = 0 \/ (def' = def + 1 /\ def < Len(defs))
        OBVIOUS
      <4> QED BY <4>1, <4>2
    <3>4. def' > 0 => line' \in 0..Len(defs'[def'])
      BY <1>0, <3>3
    <3> QED BY <3>2, <3>3, <3>4 DEF TypeOK
  <2>2. CursorInv'
    BY <1>0 DEF CursorInv, TypeOK
  <2>3. LinesInv'
    <3>1. ASSUME NEW d \in 1..Len(input), NEW e \in 1..Len(input[d])
          PROVE  Read(<<d, e>>)' <=> Read(<<d, e>>)
      <4>1. /\ Len(input[d]) \in Nat /\ def \in 1..Len(input)
            /\ line = Len(input[def]) /\ line' = 0
            /\ def' = IF def < Len(input) THEN def + 1 ELSE 0
            /\ pass' = pass /\ pass \in Nat /\ pass > 0
        <5>1. def \in 0..Len(defs) /\ def > 0 /\ pass \in Nat /\ pass # 0
          BY <1>0 DEF TypeOK, CursorInv
        <5> QED BY <5>1, <1>0
      <4>2. d \in Nat /\ e \in Nat /\ e > 0 /\ d <= Len(input) /\ Len(input[def]) \in Nat
        BY <1>0, <4>1
      <4>3. def = d => e <= line
        BY <4>1, <4>2
      <4> QED BY <4>1, <4>2, <4>3, <1>0 DEF Read
    <3> QED BY <3>1 DEF LinesInv
  <2> QED BY <2>1, <2>2, <2>3
<1>4. CASE UNCHANGED vars
  <2>1. TypeOK'
    BY <1>4 DEF TypeOK
  <2>2. CursorInv'
    BY <1>4 DEF CursorInv
  <2>3. LinesInv'
    BY <1>4 DEF LinesInv, Read
  <2> QED BY <2>1, <2>2, <2>3
<1> QED BY <1>1, <1>2, <1>3, <1>4 DEF Next

\* The types, and the place in the file, hold for any file and both passes.
LEMMA BaseAlways == Spec => []BaseInv
<1>1. Init => BaseInv
  BY BaseInit
<1>2. BaseInv /\ [Next]_vars => BaseInv'
  BY BaseStep
<1> QED BY <1>1, <1>2, PTL DEF Spec

\* Every variable keeps its type: whatever the definitions' strings look like,
\* fillRegs and processReg put keys into regVector and go by the lines there are.
THEOREM RegDefsTyped == Spec => []TypeOK
<1>1. BaseInv => TypeOK
  BY DEF BaseInv
<1> QED BY <1>1, BaseAlways, PTL

-----------------------------------------------------------------------------
(* What is in regVector. *)

\* The steps but processReg leave regVector alone, and read no line.
LEMMA OtherSteps ==
  ASSUME BaseInv, Begin \/ EndDef \/ UNCHANGED vars
  PROVE  /\ regVector' = regVector /\ input' = input
         /\ \A p \in Places : Read(p)' <=> Read(p)
         /\ PathInv => PathInv'
<1>1. regVector' = regVector /\ input' = input
  BY DEF Begin, EndDef
<1>2. BaseInv'
  BY BaseStep DEF Next
<1>3. ASSUME NEW p \in Places PROVE Read(p)' <=> Read(p)
  <2>1. /\ p = <<p[1], p[2]>> /\ p[1] \in 1..Len(input)
        /\ p[2] \in 1..Len(input[p[1]])
    BY PlaceIs DEF BaseInv
  <2>2. p[1] \in Nat /\ p[2] \in Nat /\ p[1] >= 1 /\ p[2] >= 1 /\ Len(input[p[1]]) \in Nat
        /\ Len(input) \in Nat /\ Len(defs) = Len(input)
    BY <2>1, InputTyped DEF BaseInv, LinesInv
  <2>3. pass \in Nat /\ def \in 0..Len(input)
    BY <2>2 DEF BaseInv, TypeOK
  <2>4. CASE Begin
    <3>1. defs # <<>>
      BY <2>1, <2>2
    <3>2. def = 0 /\ line = 0 /\ def' = 1 /\ line' = 0 /\ pass' = pass + 1
      BY <2>4, <3>1 DEF Begin, BaseInv, CursorInv
    <3> QED BY <3>2, <2>2, <2>3 DEF Read
  <2>5. CASE EndDef
    <3>1. /\ def > 0 /\ line = Len(defs[def]) /\ line' = 0 /\ pass' = pass
          /\ def' = IF def < Len(input) THEN def + 1 ELSE 0
      BY <2>5, <2>2 DEF EndDef
    <3>2. pass > 0
      BY <3>1, <2>3 DEF BaseInv, CursorInv
    <3>3. p[1] = def => p[2] <= line
      BY <3>1, <2>1, <2>2 DEF BaseInv, LinesInv
    <3> QED BY <3>1, <3>2, <3>3, <2>1, <2>2, <2>3 DEF Read
  <2>6. CASE UNCHANGED vars
    BY <2>6 DEF Read
  <2> QED BY <2>4, <2>5, <2>6
<1>4. ASSUME PathInv PROVE PathInv'
  <2>1. CASE UNCHANGED vars
    BY <1>4, <2>1 DEF PathInv, PathAfter
  <2>2. CASE ~UNCHANGED vars /\ def' > 0
    <3>1. line' = 0 /\ tmp'.keyPath = NoPath
      <4>1. CASE Begin
        BY <4>1, <2>2, FreshKeys DEF Begin, BaseInv, TypeOK
      <4>2. CASE EndDef
        BY <4>2, <2>2, FreshKeys DEF EndDef
      <4> QED BY <4>1, <4>2, <2>2
    <3> QED BY <3>1 DEF PathInv, PathAfter
  <2> QED BY <2>1, <2>2 DEF PathInv
<1> QED BY <1>1, <1>3, <1>4

\* processReg reads one line more.
LEMMA OneMoreRead ==
  ASSUME BaseInv, processReg
  PROVE  /\ input' = input
         /\ \A p \in Places : Read(p)' <=> Read(p) \/ p = NextPlace
<1>1. PICK l \in LineType : NextPlace \in Places
  BY LineRead
<1>2. input' = input /\ pass' = pass /\ def' = def /\ line' = line + 1
  BY DEF processReg
<1>3. ASSUME NEW p \in Places
      PROVE  Read(p)' <=> Read(p) \/ p = NextPlace
  <2>1. p = <<p[1], p[2]>> /\ p[1] \in Nat /\ p[2] \in Nat
    BY PlaceIs, InputTyped DEF BaseInv
  <2>2. def \in Nat /\ def > 0 /\ line \in Nat /\ pass \in Nat
    BY DEF BaseInv, TypeOK, processReg
  <2>3. p = NextPlace <=> p[1] = def /\ p[2] = line + 1
    BY <2>1 DEF NextPlace
  <2> QED BY <1>2, <2>1, <2>2, <2>3 DEF Read
<1> QED BY <1>2, <1>3

\* The path in force is one path, and the next line gives a new one or keeps it.
LEMMA OnePath ==
  ASSUME NEW d, NEW e \in Nat, NEW p, NEW q,
         PathAfter(d, e, p), PathAfter(d, e, q)
  PROVE  p = q
BY DEF PathAfter

\* The path in tmp after one more line.
LEMMA NextPath ==
  ASSUME NEW d, NEW e \in Nat, NEW p, PathAfter(d, e, p)
  PROVE  PathAfter(d, e + 1, IF GivesPath(input[d][e + 1])
                             THEN PathGiven(input[d][e + 1]) ELSE p)
<1>1. CASE GivesPath(input[d][e + 1])
  BY <1>1 DEF PathAfter
<1>2. CASE ~GivesPath(input[d][e + 1])
  <2>1. \A j \in 1..(e + 1) : j \in 1..e \/ j = e + 1
    OBVIOUS
  <2>2. \A j \in 1..e : j \in 1..(e + 1)
    OBVIOUS
  <2>3. CASE p = NoPath /\ \A j \in 1..e : ~GivesPath(input[d][j])
    BY <1>2, <2>1, <2>3 DEF PathAfter
  <2>4. CASE ~(p = NoPath /\ \A j \in 1..e : ~GivesPath(input[d][j]))
    <3>1. PICK j \in 1..e :
            /\ GivesPath(input[d][j]) /\ p = PathGiven(input[d][j])
            /\ \A m \in 1..e : j < m => ~GivesPath(input[d][m])
      BY <2>4 DEF PathAfter
    <3>2. \A m \in 1..(e + 1) : j < m => ~GivesPath(input[d][m])
      BY <3>1, <1>2, <2>1
    <3> QED BY <3>1, <3>2, <2>2, <1>2 DEF PathAfter
  <2> QED BY <2>3, <2>4
<1> QED BY <1>1, <1>2

\* The next line's key has the path in force there.
LEMMA KeyPathInForce ==
  ASSUME BaseInv, PathInv, processReg, NEW l \in LineType,
         l.root = LineAt(NextPlace).root, l.path = LineAt(NextPlace).path
  PROVE  PathAfter(def, line + 1, NewKey(l).keyPath)
<1>1. def > 0 /\ line \in Nat
  BY DEF BaseInv, TypeOK, processReg
<1>2. tmp \in Keys /\ tmp.values = <<>>
  BY DEF BaseInv, TypeOK, CursorInv
<1>3. LineAt(NextPlace) = input[def][line + 1]
  BY DEF LineAt, NextPlace
<1>4. NewKey(l).keyPath = IF GivesPath(input[def][line + 1])
                          THEN PathGiven(input[def][line + 1]) ELSE tmp.keyPath
  BY <1>2, <1>3, KeyTyped DEF GivesPath, PathGiven
<1>5. PathAfter(def, line, tmp.keyPath)
  BY <1>1 DEF PathInv
<1> QED BY <1>1, <1>4, <1>5, NextPath

\* PathInv after a step: tmp carries the path of the last line that gave one.
LEMMA PathStep ==
  ASSUME BaseInv, PathInv, [Next]_vars
  PROVE  PathInv'
<1>1. CASE processReg
  <2>1. PICK l \in LineType :
          /\ l.root = LineAt(NextPlace).root /\ l.path = LineAt(NextPlace).path
          /\ NewKey(l) \in Keys /\ tmp' = Cleared(NewKey(l))
    BY <1>1, LineRead
  <2>2. PathAfter(def, line + 1, NewKey(l).keyPath)
    BY <1>1, <2>1, KeyPathInForce
  <2>3. tmp'.keyPath = NewKey(l).keyPath
    BY <2>1, ClearedTyped
  <2>4. def' = def /\ line' = line + 1 /\ input' = input
    BY <1>1 DEF processReg
  <2> QED BY <2>2, <2>3, <2>4 DEF PathInv, PathAfter
<1> QED BY <1>1, OtherSteps DEF Next

\* A key that is inserted is there, and so are the paths that were.
NewPath(path) == \A k \in 1..Len(regVector) : regVector[k].keyPath # path

\* insertRegObj never changes the path or root of a recorded key, and adds at most
\* one at the end, of a path that was not there.
LEMMA PathsStay ==
  ASSUME regVector \in Seq(Keys), NEW key \in Keys, Inserted(key)
  PROVE  /\ Len(regVector) \in Nat /\ Len(regVector') >= Len(regVector)
         /\ \A k \in 1..Len(regVector) :
              /\ regVector'[k].keyPath = regVector[k].keyPath
              /\ regVector'[k].handle = regVector[k].handle
         /\ \A k \in 1..Len(regVector') :
              \/ k \in 1..Len(regVector)
              \/ k = Len(regVector) + 1 /\ NewPath(key.keyPath) /\ regVector'[k] = key
         /\ \E k \in 1..Len(regVector') : regVector'[k].keyPath = key.keyPath
<1>1. Len(regVector) \in Nat
  BY LenProperties
<1>2. \A k \in 1..Len(regVector) : /\ regVector'[k].keyPath = regVector[k].keyPath
                                   /\ regVector'[k].handle = regVector[k].handle
  BY DEF Inserted, MergedKey
<1>3. CASE KeyExist(key)
  <2>1. PICK k \in 1..Len(regVector) : regVector[k].keyPath = key.keyPath
    BY <1>3 DEF KeyExist, SameKey
  <2>2. Len(regVector') = Len(regVector)
    BY <1>3 DEF Inserted
  <2>3. k \in 1..Len(regVector') /\ regVector'[k].keyPath = key.keyPath
    BY <1>2, <2>1, <2>2
  <2>4. Len(regVector') >= Len(regVector)
    BY <1>1, <2>2
  <2>5. \A m \in 1..Len(regVector') : m \in 1..Len(regVector)
    BY <2>2
  <2> QED BY <1>1, <1>2, <2>3, <2>4, <2>5
<1>4. CASE ~KeyExist(key)
  <2>1. Len(regVector') = Len(regVector) + 1 /\ regVector'[Len(regVector) + 1] = key
    BY <1>4 DEF Inserted
  <2>2. Len(regVector) + 1 \in 1..Len(regVector') /\ Len(regVector') >= Len(regVector)
    BY <1>1, <2>1
  <2>3. \A k \in 1..Len(regVector') : k \in 1..Len(regVector) \/ k = Len(regVector) + 1
    BY <1>1, <2>1
  <2>4. NewPath(key.keyPath)
    BY <1>4 DEF KeyExist, SameKey, NewPath
  <2> QED BY <1>1, <1>2, <2>1, <2>2, <2>3, <2>4
<1> QED BY <1>3, <1>4

\* FoundInv after a step: the path of every line read is recorded.
LEMMA FoundStep ==
  ASSUME BaseInv, PathInv, FoundInv, [Next]_vars
  PROVE  FoundInv'
<1>1. CASE processReg
  <2>1. PICK l \in LineType :
          /\ l.root = LineAt(NextPlace).root /\ l.path = LineAt(NextPlace).path
          /\ NewKey(l) \in Keys /\ Inserted(NewKey(l))
    BY <1>1, LineRead
  <2>2. PathAfter(def, line + 1, NewKey(l).keyPath)
    BY <1>1, <2>1, KeyPathInForce
  <2>3. input' = input /\ Places' = Places /\ line + 1 \in Nat /\ regVector \in Seq(Keys)
    BY <1>1 DEF processReg, Places, BaseInv, TypeOK
  <2> SUFFICES ASSUME NEW p \in Places, Read(p)',
                      NEW path \in AllKeyPaths, PathAfter(p[1], p[2], path)
               PROVE  \E k \in 1..Len(regVector') : regVector'[k].keyPath = path
    BY <2>3 DEF FoundInv, PathAfter
  <2>4. CASE Read(p)
    <3>1. PICK k \in 1..Len(regVector) : regVector[k].keyPath = path
      BY <2>4 DEF FoundInv
    <3> QED BY <3>1, <2>1, <2>3, PathsStay
  <2>5. CASE p = NextPlace
    <3>1. path = NewKey(l).keyPath
      BY <2>2, <2>3, <2>5, OnePath DEF NextPlace
    <3> QED BY <3>1, <2>1, <2>3, PathsStay
  <2> QED BY <2>4, <2>5, <1>1, OneMoreRead
<1>2. CASE ~processReg
  <2>1. /\ regVector' = regVector /\ input' = input
        /\ \A p \in Places : Read(p)' <=> Read(p)
    BY <1>2, OtherSteps DEF Next
  <2>2. Places' = Places /\ \A d, e, path : PathAfter(d, e, path)' <=> PathAfter(d, e, path)
    BY <2>1 DEF Places, PathAfter
  <2> QED BY <2>1, <2>2 DEF FoundInv
<1> QED BY <1>1, <1>2

\* After the first pass every key of every line is there, and the lines have no
\* values any more.
LEMMA SecondPass ==
  ASSUME BaseInv, PathInv, FoundInv, [Next]_vars, pass > 1
  PROVE  regVector' = regVector
<1>1. CASE processReg
  <2>1. PICK l \in LineType :
          /\ l.root = LineAt(NextPlace).root /\ l.path = LineAt(NextPlace).path
          /\ l.texts = IF pass = 1 THEN LineAt(NextPlace).texts ELSE <<>>
          /\ NewKey(l) \in Keys /\ Inserted(NewKey(l)) /\ NextPlace \in Places
    BY <1>1, LineRead
  <2>2. PathAfter(def, line + 1, NewKey(l).keyPath)
    BY <1>1, <2>1, KeyPathInForce
  <2>3. Read(NextPlace) /\ NextPlace[1] = def /\ NextPlace[2] = line + 1
    BY DEF Read, NextPlace
  <2>4. NewKey(l).keyPath \in AllKeyPaths
    BY <2>1 DEF Keys
  <2>5. KeyExist(NewKey(l))
    BY <2>1, <2>2, <2>3, <2>4 DEF FoundInv, KeyExist, SameKey
  <2>6. pass # 1 /\ tmp \in Keys /\ tmp.values = <<>>
    BY DEF BaseInv, TypeOK, CursorInv
  <2>7. NewKey(l).values = <<>>
    BY <2>1, <2>6, KeyTyped DEF NamesOfLine
  <2> QED BY <2>1, <2>5, <2>7 DEF Inserted
<1> QED BY <1>1, OtherSteps DEF Next

\* PathsOnce after a step: a key is appended only when no recorded one has its path.
LEMMA OnceStep ==
  ASSUME BaseInv, PathsOnce, [Next]_vars
  PROVE  PathsOnce'
<1>1. CASE processReg
  <2>1. PICK l \in LineType : NewKey(l) \in Keys /\ Inserted(NewKey(l))
    BY <1>1, LineRead
  <2> DEFINE key == NewKey(l)
  <2>2. /\ Len(regVector) \in Nat
        /\ \A k \in 1..Len(regVector) : regVector'[k].keyPath = regVector[k].keyPath
        /\ \A k \in 1..Len(regVector') :
             \/ k \in 1..Len(regVector)
             \/ k = Len(regVector) + 1 /\ NewPath(key.keyPath) /\ regVector'[k] = key
    BY <2>1, PathsStay DEF BaseInv, TypeOK
  <2> HIDE DEF key
  <2> QED BY <2>2 DEF PathsOnce, NewPath
<1> QED BY <1>1, OtherSteps DEF Next, PathsOnce

\* ValuesOnce after a step: a line adds no value its key has, and each value once.
LEMMA ValuesStep ==
  ASSUME BaseInv, ValuesOnce, [Next]_vars
  PROVE  ValuesOnce'
<1>1. CASE processReg
  <2>0. PICK l \in LineType :
          /\ l.root = LineAt(NextPlace).root /\ l.path = LineAt(NextPlace).path
          /\ l.texts = IF pass = 1 THEN LineAt(NextPlace).texts ELSE <<>>
          /\ NewKey(l) \in Keys /\ Inserted(NewKey(l)) /\ NextPlace \in Places
    BY <1>1, LineRead
  <2> DEFINE key == NewKey(l)
  <2>1. LinesApart' <=> LinesApart
    <3>1. input' = input
      BY <1>1 DEF processReg
    <3> QED BY <3>1 DEF LinesApart, Places, LineAt
  <2>2. SUFFICES ASSUME LinesApart, NEW k \in 1..Len(regVector')
                 PROVE  Apart(regVector'[k].values)
    BY <2>1 DEF ValuesOnce
  <2>3. Apart(key.values)
    <3>1. key.values = NamesOfLine(l)
      BY KeyTyped DEF BaseInv, TypeOK, CursorInv
    <3>2. CASE l.texts = <<>>
      BY <3>1, <3>2 DEF NamesOfLine, Apart
    <3>3. CASE l.texts = LineAt(NextPlace).texts
      <4>1. NamesOfLine(l) = NamesOfLine(LineAt(NextPlace))
        BY <3>3 DEF NamesOfLine
      <4> QED BY <2>0, <2>2, <3>1, <4>1 DEF LinesApart
    <3> QED BY <2>0, <3>2, <3>3
  <2>4. regVector \in Seq(Keys)
    BY DEF BaseInv, TypeOK
  <2>5. CASE k \in 1..Len(regVector)
    <3>1. Apart(regVector[k].values)
      BY <2>2, <2>5 DEF ValuesOnce
    <3>2. CASE regVector'[k] = regVector[k]
      BY <3>1, <3>2
    <3>3. CASE MergedKey(regVector'[k], regVector[k], key.values)
      BY <2>3, <3>1, <3>3 DEF MergedKey, Extends
    <3> QED BY <2>0, <2>5, <3>2, <3>3 DEF Inserted
  <2>6. CASE k \notin 1..Len(regVector)
    <3>1. regVector'[k] = key
      BY <2>0, <2>4, <2>6, PathsStay
    <3> QED BY <2>3, <3>1
  <2> QED BY <2>5, <2>6
<1>2. CASE Begin \/ EndDef \/ UNCHANGED vars
  <2>1. regVector' = regVector /\ input' = input
    BY <1>2, OtherSteps
  <2> QED BY <2>1 DEF ValuesOnce, LinesApart, Places, LineAt
<1> QED BY <1>1, <1>2 DEF Next

-----------------------------------------------------------------------------
(* What a proper file leaves in regVector: its lines give a root, a path and *)
(* name=contents each, and a path has one root.                              *)

\* The key a proper line makes, and the one it goes to if there is one.
LEMMA ProperKey ==
  ASSUME BaseInv, SourceInv, Proper, processReg
  PROVE  \E l \in LineType :
           /\ NewKey(l) \in Keys /\ Inserted(NewKey(l)) /\ NextPlace \in Places
           /\ NewKey(l).keyPath = LineAt(NextPlace).path
           /\ NewKey(l).handle = Handle[LineAt(NextPlace).root]
           /\ NewKey(l).values =
                IF pass = 1 /\ LineAt(NextPlace).texts # <<>>
                THEN <<LineAt(NextPlace).texts[1][1]>> ELSE <<>>
           /\ \A k \in 1..Len(regVector) :
                regVector[k].keyPath = NewKey(l).keyPath =>
                  regVector[k].handle = NewKey(l).handle
<1>1. PICK l \in LineType :
        /\ l.root = LineAt(NextPlace).root /\ l.path = LineAt(NextPlace).path
        /\ l.texts = IF pass = 1 THEN LineAt(NextPlace).texts ELSE <<>>
        /\ NewKey(l) \in Keys /\ Inserted(NewKey(l)) /\ NextPlace \in Places
  BY LineRead
<1>2. /\ l.root # "other" /\ l.path # NoPath
      /\ \A t \in 1..Len(LineAt(NextPlace).texts) : Len(LineAt(NextPlace).texts[t]) = 2
  BY <1>1 DEF Proper, WellFormed
<1>3. tmp \in Keys /\ tmp.values = <<>>
  BY DEF BaseInv, TypeOK, CursorInv
<1>4. /\ NewKey(l).keyPath = l.path /\ NewKey(l).handle = Handle[l.root]
      /\ NewKey(l).values = NamesOfLine(l)
  BY <1>2, <1>3, KeyTyped DEF GivesPath, PathGiven
<1>5. NamesOfLine(l) = IF pass = 1 /\ LineAt(NextPlace).texts # <<>>
                       THEN <<LineAt(NextPlace).texts[1][1]>> ELSE <<>>
  <2>1. CASE l.texts = <<>>
    BY <2>1, <1>1 DEF NamesOfLine
  <2>2. CASE l.texts # <<>>
    <3>1. pass = 1 /\ l.texts = LineAt(NextPlace).texts
      BY <2>2, <1>1
    <3>2. l.texts \in Seq(Seq(Parts))
      BY DEF LineType
    <3>3. 1 \in 1..Len(l.texts)
      BY <2>2, <3>2, EmptySeq
    <3>4. Len(l.texts[1]) = 2
      BY <1>2, <3>1, <3>3
    <3>5. NamesOfLine(l) = [k \in 1..1 |-> l.texts[1][2 * k - 1]]
      <4>1. (Len(l.texts[1]) + 1) \div 2 = 1
        BY <3>4
      <4> QED BY <2>2, <4>1 DEF NamesOfLine
    <3>6. [k \in 1..1 |-> l.texts[1][2 * k - 1]] = <<l.texts[1][1]>>
      <4>1. \A k \in 1..1 : 2 * k - 1 = 1
        OBVIOUS
      <4>2. [k \in 1..1 |-> l.texts[1][2 * k - 1]] = [k \in 1..1 |-> l.texts[1][1]]
        BY <4>1
      <4> QED BY <4>2
    <3> QED BY <3>1, <3>5, <3>6, <2>2
  <2> QED BY <2>1, <2>2
<1>6. ASSUME NEW k \in 1..Len(regVector), regVector[k].keyPath = l.path
      PROVE  regVector[k].handle = Handle[l.root]
  <2>1. PICK p \in Places : /\ Handle[LineAt(p).root] = regVector[k].handle
                            /\ LineAt(p).path = regVector[k].keyPath
    BY DEF SourceInv
  <2>2. LineAt(p).root = LineAt(NextPlace).root
    BY <2>1, <1>1, <1>6 DEF Proper, RootsApart
  <2> QED BY <2>1, <2>2, <1>1
<1> QED BY <1>1, <1>4, <1>5, <1>6

\* Other steps, and files that are not proper.
LEMMA SameContents ==
  ASSUME BaseInv, SourceInv, NothingInvented, FirstValueKept,
         Begin \/ EndDef \/ UNCHANGED vars
  PROVE  SourceInv' /\ NothingInvented' /\ FirstValueKept'
<1>1. /\ regVector' = regVector /\ input' = input
      /\ \A p \in Places : Read(p)' <=> Read(p)
  BY OtherSteps
<1>2. /\ Places' = Places /\ Proper' = Proper /\ RootsApart' = RootsApart
      /\ \A p : LineAt(p)' = LineAt(p)
  BY <1>1 DEF Places, Proper, RootsApart, LineAt
<1>3. \A l, n : Recorded(l, n)' <=> Recorded(l, n)
  BY <1>1 DEF Recorded
<1> QED BY <1>1, <1>2, <1>3 DEF SourceInv, NothingInvented, FirstValueKept

\* The file stays as it is.
LEMMA SameFile ==
  ASSUME processReg
  PROVE  /\ Places' = Places /\ Proper' = Proper
         /\ \A p : LineAt(p)' = LineAt(p)
<1>1. input' = input
  BY DEF processReg
<1> QED BY <1>1 DEF Proper, Places, RootsApart, LineAt

\* The lengths of the recorded keys and of their values are numbers.
LEMMA VectorTyped ==
  ASSUME NEW v \in Seq(Keys)
  PROVE  /\ Len(v) \in Nat
         /\ \A m \in 1..Len(v) : Len(v[m].values) \in Nat
<1>1. \A m \in 1..Len(v) : v[m] \in Keys
  OBVIOUS
<1> QED BY <1>1 DEF Keys

\* SourceInv after a line of a well-formed file.
LEMMA SourceStep ==
  ASSUME BaseInv, SourceInv, processReg
  PROVE  SourceInv'
<1> SUFFICES ASSUME Proper, NEW k \in 1..Len(regVector')
             PROVE  \E p \in Places :
                      /\ Handle[LineAt(p).root] = regVector'[k].handle
                      /\ LineAt(p).path = regVector'[k].keyPath
  BY SameFile DEF SourceInv
<1>1. PICK l \in LineType :
        /\ NewKey(l) \in Keys /\ Inserted(NewKey(l)) /\ NextPlace \in Places
        /\ NewKey(l).keyPath = LineAt(NextPlace).path
        /\ NewKey(l).handle = Handle[LineAt(NextPlace).root]
  BY ProperKey
<1>2. regVector \in Seq(Keys)
  BY DEF BaseInv, TypeOK
<1>3. CASE k \in 1..Len(regVector)
  BY <1>1, <1>2, <1>3, PathsStay DEF SourceInv
<1>4. CASE k \notin 1..Len(regVector)
  <2>1. regVector'[k] = NewKey(l)
    BY <1>1, <1>2, <1>4, PathsStay
  <2> QED BY <2>1, <1>1
<1> QED BY <1>3, <1>4

\* NothingInvented after a line: what is merged comes from the line itself.
LEMMA InventedStep ==
  ASSUME BaseInv, SourceInv, NothingInvented, processReg
  PROVE  NothingInvented'
<1> DEFINE Origin(p, k, v) ==
      /\ Handle[LineAt(p).root] = k.handle /\ LineAt(p).path = k.keyPath
      /\ \E t \in 1..Len(LineAt(p).texts) : LineAt(p).texts[t][1] = v
<1> SUFFICES ASSUME Proper, NEW k \in 1..Len(regVector'),
                    NEW j \in 1..Len(regVector'[k].values)
             PROVE  \E p \in Places : Origin(p, regVector'[k], regVector'[k].values[j])
  <2>1. input' = input
    BY DEF processReg
  <2>2. Places' = Places /\ Proper' = Proper /\ \A p : LineAt(p)' = LineAt(p)
    BY <2>1 DEF Places, Proper, RootsApart, LineAt
  <2>3. NothingInvented' <=>
          (Proper' =>
             \A k \in 1..Len(regVector') : \A j \in 1..Len(regVector'[k].values) :
               \E p \in Places' : Origin(p, regVector[k], regVector[k].values[j])')
    BY DEF NothingInvented, Proper
  <2> QED BY <2>2, <2>3
<1> HIDE DEF Origin
<1>1. PICK l \in LineType :
        /\ NewKey(l) \in Keys /\ Inserted(NewKey(l)) /\ NextPlace \in Places
        /\ NewKey(l).keyPath = LineAt(NextPlace).path
        /\ NewKey(l).handle = Handle[LineAt(NextPlace).root]
        /\ NewKey(l).values =
             IF pass = 1 /\ LineAt(NextPlace).texts # <<>>
             THEN <<LineAt(NextPlace).texts[1][1]>> ELSE <<>>
        /\ \A m \in 1..Len(regVector) :
             regVector[m].keyPath = NewKey(l).keyPath =>
               regVector[m].handle = NewKey(l).handle
  BY ProperKey
<1> DEFINE key == NewKey(l)
<1>2. /\ regVector \in Seq(Keys) /\ Len(regVector) \in Nat
      /\ \A m \in 1..Len(regVector) : Len(regVector[m].values) \in Nat
  <2>1. regVector \in Seq(Keys)
    BY DEF BaseInv, TypeOK
  <2> QED BY <2>1, VectorTyped
\* A value that was there has its line already.
<1>3. ASSUME NEW m \in 1..Len(regVector), NEW i \in 1..Len(regVector[m].values)
      PROVE  \E p \in Places : Origin(p, regVector[m], regVector[m].values[i])
  BY <1>3 DEF NothingInvented, Proper, Origin
\* A new one has the line at hand.
<1>4. ASSUME NEW m, m.handle = key.handle, m.keyPath = key.keyPath,
             NEW i \in 1..Len(key.values)
      PROVE  Origin(NextPlace, m, key.values[i])
  <2>1. CASE pass = 1 /\ LineAt(NextPlace).texts # <<>>
    <3>1. LineAt(NextPlace) \in LineType
      BY <1>1, PlaceIs, InputTyped DEF LineAt, BaseInv
    <3>2. 1 \in 1..Len(LineAt(NextPlace).texts)
      BY <2>1, <3>1, EmptySeq DEF LineType
    <3>3. key.values = <<LineAt(NextPlace).texts[1][1]>>
      BY <1>1, <2>1
    <3>4. key.values[i] = LineAt(NextPlace).texts[1][1]
      BY <3>3, <1>4
    <3> QED BY <1>1, <1>4, <3>2, <3>4 DEF Origin
  <2>2. CASE ~(pass = 1 /\ LineAt(NextPlace).texts # <<>>)
    BY <1>1, <1>4, <2>2
  <2> QED BY <2>1, <2>2
<1>5. CASE k \in 1..Len(regVector) /\ regVector'[k] = regVector[k]
  BY <1>3, <1>5
<1>6. CASE k \in 1..Len(regVector) /\ regVector'[k] # regVector[k]
  <2>1. MergedKey(regVector'[k], regVector[k], key.values)
        /\ regVector[k].keyPath = key.keyPath
    BY <1>1, <1>6 DEF Inserted
  <2>2. /\ regVector'[k].handle = regVector[k].handle
        /\ regVector'[k].keyPath = regVector[k].keyPath
        /\ regVector[k].handle = key.handle
        /\ Extends(regVector'[k].values, regVector[k].values, key.values)
    BY <1>1, <1>6, <2>1 DEF MergedKey
  <2>3. CASE j <= Len(regVector[k].values)
    <3>1. Len(regVector'[k].values) >= Len(regVector[k].values) /\ j \in Nat /\ j >= 1
      BY <2>2, <2>1, <1>2 DEF Extends
    <3>2. j \in 1..Len(regVector[k].values)
      BY <3>1, <2>3, <1>2, <1>6
    <3>3. regVector'[k].values[j] = regVector[k].values[j]
      BY <3>2, <2>2 DEF Extends
    <3>4. PICK p \in Places : Origin(p, regVector[k], regVector[k].values[j])
      BY <1>3, <1>6, <3>2
    <3> QED BY <2>2, <3>3, <3>4 DEF Origin
  <2>4. CASE ~(j <= Len(regVector[k].values))
    <3>1. PICK i \in 1..Len(key.values) : regVector'[k].values[j] = key.values[i]
      BY <2>2, <2>4 DEF Extends
    <3>2. regVector'[k].handle = key.handle /\ regVector'[k].keyPath = key.keyPath
      BY <2>1, <2>2
    <3> QED BY <1>1, <1>4, <3>1, <3>2
  <2> QED BY <2>3, <2>4
<1>7. CASE k \notin 1..Len(regVector)
  <2>1. regVector'[k] = key
    BY <1>1, <1>2, <1>7, PathsStay
  <2> QED BY <1>1, <1>4, <2>1
<1> QED BY <1>5, <1>6, <1>7

\* FirstValueKept after a line: its own first value is there, and none goes.
LEMMA RecordedStep ==
  ASSUME BaseInv, SourceInv, FirstValueKept, processReg
  PROVE  FirstValueKept'
<1> SUFFICES ASSUME Proper, NEW p \in Places, Read(p)', LineAt(p).texts # <<>>
             PROVE  Recorded(LineAt(p), LineAt(p).texts[1][1])'
  BY SameFile DEF FirstValueKept, Proper
<1>1. PICK l \in LineType :
        /\ NewKey(l) \in Keys /\ Inserted(NewKey(l)) /\ NextPlace \in Places
        /\ NewKey(l).keyPath = LineAt(NextPlace).path
        /\ NewKey(l).handle = Handle[LineAt(NextPlace).root]
        /\ NewKey(l).values =
             IF pass = 1 /\ LineAt(NextPlace).texts # <<>>
             THEN <<LineAt(NextPlace).texts[1][1]>> ELSE <<>>
        /\ \A m \in 1..Len(regVector) :
             regVector[m].keyPath = NewKey(l).keyPath =>
               regVector[m].handle = NewKey(l).handle
  BY ProperKey
<1> DEFINE key == NewKey(l)
           v == LineAt(p).texts[1][1]
<1>2. /\ regVector \in Seq(Keys) /\ Len(regVector) \in Nat
      /\ \A m \in 1..Len(regVector) : Len(regVector[m].values) \in Nat
      /\ Len(regVector') >= Len(regVector) /\ Len(regVector') \in Nat
  <2>1. regVector \in Seq(Keys)
    BY DEF BaseInv, TypeOK
  <2>2. regVector' \in Seq(Keys) /\ Len(regVector') >= Len(regVector)
    BY <1>1, <2>1, PathsStay DEF Inserted
  <2>3. Len(regVector') \in Nat
    BY <2>2, VectorTyped
  <2> QED BY <2>1, <2>2, <2>3, VectorTyped
<1>3. ASSUME NEW m \in 1..Len(regVector'), regVector'[m].handle = Handle[LineAt(p).root],
             regVector'[m].keyPath = LineAt(p).path, Contains(regVector'[m].values, v)
      PROVE  Recorded(LineAt(p), v)'
  <2>1. LineAt(p)' = LineAt(p)
    BY DEF LineAt, processReg
  <2> QED BY <2>1, <1>3 DEF Recorded
\* What was recorded stays.
<1>4. CASE Read(p)
  <2>1. PICK m \in 1..Len(regVector) :
          /\ regVector[m].handle = Handle[LineAt(p).root]
          /\ regVector[m].keyPath = LineAt(p).path
          /\ Contains(regVector[m].values, v)
    BY <1>4 DEF FirstValueKept, Proper, Recorded
  <2>2. regVector'[m].handle = regVector[m].handle /\ regVector'[m].keyPath = regVector[m].keyPath
        /\ m \in 1..Len(regVector')
    BY <1>1, <1>2, PathsStay
  <2>3. Contains(regVector'[m].values, v)
    <3>1. CASE regVector'[m] = regVector[m]
      BY <3>1, <2>1
    <3>2. CASE regVector'[m] # regVector[m]
      <4>1. Extends(regVector'[m].values, regVector[m].values, key.values)
        BY <3>2, <1>1 DEF Inserted, MergedKey
      <4>2. PICK i \in 1..Len(regVector[m].values) : regVector[m].values[i] = v
        BY <2>1 DEF Contains
      <4>3. Len(regVector'[m].values) \in Nat
        <5>1. regVector'[m] \in Keys
          BY <1>1, <2>2, ElementOfSeq DEF Inserted
        <5> QED BY <5>1 DEF Keys
      <4>4. i \in 1..Len(regVector'[m].values) /\ regVector'[m].values[i] = v
        BY <4>1, <4>2, <4>3, <1>2 DEF Extends
      <4> QED BY <4>4 DEF Contains
    <3> QED BY <3>1, <3>2
  <2> QED BY <1>3, <2>1, <2>2, <2>3
\* The line at hand is recorded, in the first pass.
<1>5. CASE p = NextPlace /\ ~Read(p)
  <2>1. pass = 1
    <3>1. pass \in Nat /\ pass # 0
      BY DEF BaseInv, TypeOK, CursorInv, processReg
    <3> QED BY <3>1, <1>5 DEF Read
  <2>2. key.values = <<v>> /\ key.handle = Handle[LineAt(p).root] /\ key.keyPath = LineAt(p).path
    BY <1>1, <1>5, <2>1
  <2>3. key.values # <<>> /\ key.values[1] = v /\ 1 \in 1..Len(key.values)
    BY <2>2
  <2>4. CASE KeyExist(key)
    <3>1. PICK m \in 1..Len(regVector) : regVector[m].keyPath = key.keyPath
      BY <2>4 DEF KeyExist, SameKey
    <3>2. MergedKey(regVector'[m], regVector[m], key.values)
      BY <1>1, <3>1 DEF Inserted
    <3>3. /\ regVector'[m].handle = key.handle /\ regVector'[m].keyPath = key.keyPath
          /\ Contains(regVector'[m].values, v)
      BY <1>1, <2>3, <3>1, <3>2 DEF MergedKey, Extends
    <3>4. m \in 1..Len(regVector')
      BY <1>2
    <3> QED BY <1>3, <2>2, <3>3, <3>4
  <2>5. CASE ~KeyExist(key)
    <3>1. Len(regVector') = Len(regVector) + 1 /\ regVector'[Len(regVector) + 1] = key
      BY <1>1, <2>5 DEF Inserted
    <3>2. Contains(key.values, v)
      BY <2>3 DEF Contains
    <3>3. Len(regVector) + 1 \in 1..Len(regVector')
      BY <3>1, <1>2
    <3> QED BY <1>3, <2>2, <3>1, <3>2, <3>3
  <2> QED BY <2>4, <2>5
<1> QED BY <1>4, <1>5, OneMoreRead

-----------------------------------------------------------------------------
(* The theorems. *)

\* No line is read and no key recorded at the start.
LEMMA RegInit == Init => RegInv
<1> SUFFICES ASSUME Init PROVE RegInv
  OBVIOUS
<1>1. BaseInv
  BY BaseInit
<1>2. regVector = <<>> /\ Len(regVector) = 0 /\ pass = 0 /\ def = 0 /\ line = 0
  BY DEF Init
<1>3. \A p \in Places : ~Read(p)
  <2>1. \A p \in Places : p[1] \in Nat /\ p[1] > 0
    BY <1>1, PlaceIs, InputTyped DEF BaseInv
  <2> QED BY <1>2, <2>1 DEF Read
<1> QED BY <1>1, <1>2, <1>3
       DEF RegInv, PathInv, FoundInv, PathsOnce, ValuesOnce, SourceInv, NothingInvented,
           FirstValueKept

\* The parts of RegInv are kept together.
LEMMA RegStep == RegInv /\ [Next]_vars => RegInv'
<1> SUFFICES ASSUME RegInv, [Next]_vars PROVE RegInv'
  OBVIOUS
<1> USE DEF RegInv
<1>1. BaseInv' /\ PathInv' /\ FoundInv' /\ PathsOnce' /\ ValuesOnce'
  BY BaseStep, PathStep, FoundStep, OnceStep, ValuesStep
<1>2. SourceInv' /\ NothingInvented' /\ FirstValueKept'
  <2>1. CASE processReg
    BY <2>1, SourceStep, InventedStep, RecordedStep
  <2>2. CASE ~processReg
    BY <2>2, SameContents DEF Next
  <2> QED BY <2>1, <2>2
<1> QED BY <1>1, <1>2

\* RegInv, for any file and both passes: the types, what tmp holds, which keys are
\* recorded, and, in a well-formed file, where they come from.
THEOREM RegInvariant == Spec => []RegInv
<1>1. Init => RegInv
  BY RegInit
<1>2. RegInv /\ [Next]_vars => RegInv'
  BY RegStep
<1> QED BY <1>1, <1>2, PTL DEF Spec

\* No root and path is in regVector twice, nor a value twice in its key: insertRegObj
\* merges a key of another line, of another definition or of an earlier pass into the
\* one that is there, and adds the names that one lacks.
THEOREM KeysOnce == Spec => []NoneTwice
<1>1. RegInv => NoneTwice
  <2> SUFFICES ASSUME RegInv
               PROVE  NoneTwice
    OBVIOUS
  <2>1. \A k, m \in 1..Len(regVector) :
          /\ regVector[k].handle = regVector[m].handle
          /\ regVector[k].keyPath = regVector[m].keyPath
          => k = m
    BY DEF RegInv, PathsOnce
  <2>2. ASSUME \A p \in Places : IsInjective(NamesOfLine(LineAt(p)))
        PROVE  LinesApart
    <3>1. ASSUME NEW p \in Places
          PROVE  NamesOfLine(LineAt(p)) \in Seq(Parts)
      <4>1. LineAt(p) \in LineType
        BY InputTyped, PlaceIs DEF RegInv, BaseInv, LineAt
      <4> QED BY <4>1, NamesTyped
    <3> QED BY <2>2, <3>1, ApartIs DEF LinesApart
  <2>3. ASSUME NEW k \in 1..Len(regVector)
        PROVE  regVector[k].values \in Seq(Parts)
    <3>1. regVector[k] \in Keys
      BY <2>3, ElementOfSeq DEF RegInv, BaseInv, TypeOK
    <3> QED BY <3>1 DEF Keys
  <2>4. ASSUME LinesApart, NEW k \in 1..Len(regVector)
        PROVE  IsInjective(regVector[k].values)
    BY <2>3, <2>4, ApartIs DEF RegInv, ValuesOnce
  <2> QED BY <2>1, <2>2, <2>4 DEF NoneTwice
<1> QED BY <1>1, RegInvariant, PTL

\* No value gets from the line it stands in to another key, although
\* processReg keeps one tmp for all lines of a definition.
THEOREM NoValueInvented == Spec => []NothingInvented
<1>1. RegInv => NothingInvented
  BY DEF RegInv
<1> QED BY <1>1, RegInvariant, PTL

\* The first value of every line of a proper file is recorded under its root and
\* path, from the time the line has been read.
THEOREM FirstValuesKept == Spec => []FirstValueKept
<1>1. RegInv => FirstValueKept
  BY DEF RegInv
<1> QED BY <1>1, RegInvariant, PTL

\* A second check's fillRegs leaves regVector as the first has made it, whatever
\* the file: the cut strings give the same paths and no values.
THEOREM SecondPassChangesNothing == Spec => SecondPassIdle
<1>1. RegInv /\ [Next]_vars => [pass = 2 => UNCHANGED regVector]_vars
  BY SecondPass DEF RegInv
<1> QED BY <1>1, RegInvariant, PTL DEF Spec, SecondPassIdle

=============================================================================
