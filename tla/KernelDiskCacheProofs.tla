------------------------- MODULE KernelDiskCacheProofs -------------------------
(***************************************************************************)
(* The on-disk cache of compiled kernels, proved for any number of         *)
(* processes, signatures, edits, deaths and flushes.                       *)
(***************************************************************************)
EXTENDS KernelDiskCache, FiniteSetTheorems, WellFoundedInduction, TLAPS

-----------------------------------------------------------------------------
(* The name of a new data file                                             *)

LEMMA LeastNatural ==
  ASSUME NEW T, T \subseteq Nat, T # {}
  PROVE  \E n \in T : \A m \in T : n <= m
<1> DEFINE R == OpToRel(<, Nat)
<1>1. IsWellFoundedOn(R, Nat)
  BY NatLessThanWellFounded
<1>2. \A x, y \in Nat : y < x => << y, x >> \in R
  BY DEF OpToRel
<1> HIDE DEF R
<1>3. PICK n \in T : \A m \in T : ~ (<< m, n >> \in R)
  BY <1>1, WFMin
<1>4. ASSUME NEW m \in T
      PROVE  n <= m
  <2>1. n \in Nat /\ m \in Nat
    OBVIOUS
  <2>2. ~ (m < n)
    BY <1>2, <1>3, <2>1
  <2> QED  BY <2>1, <2>2
<1> QED  BY <1>4

NamesType == [Keys -> Names \cup {None}]

LEMMA NamesFacts == Cardinality(Keys) \in Nat /\ Names \subseteq Nat /\ None \notin Names
<1>1. Cardinality(Keys) \in Nat
  BY DiskCacheAssumption, FS_CardinalityType
<1>2. Names \subseteq Nat
  BY <1>1 DEF Names
<1> QED  BY <1>1, <1>2, NoneAssumption

(* A new entry gets a data file that no other entry names: there are as    *)
(* many numbers as keys, and one key has no entry.                         *)
LEMMA FreeNameIsFree ==
  ASSUME NEW names \in NamesType, NEW k \in Keys, names[k] = None
  PROVE  FreeName(names) \in Names /\ \A j \in Keys : names[j] # FreeName(names)
<1> DEFINE used == {j \in Keys : names[j] # None}
           T == {n \in Names : \A j \in Keys : names[j] # n}
           c == Cardinality(Keys)
           f == [j \in used |-> names[j]]
<1>1. c \in Nat /\ T \subseteq Nat /\ None \notin Names
  BY NamesFacts
<1>2. T # {}
  <2> SUFFICES ASSUME T = {} PROVE FALSE
    OBVIOUS
  <2>1. used \subseteq Keys \ {k}
    OBVIOUS
  <2>2. IsFiniteSet(Keys) /\ IsFiniteSet(Keys \ {k}) /\ Cardinality(Keys \ {k}) = c - 1
    BY DiskCacheAssumption, FS_RemoveElement
  <2>3. IsFiniteSet(used) /\ Cardinality(used) <= c - 1 /\ Cardinality(used) \in Nat
    BY <2>1, <2>2, FS_Subset, FS_CardinalityType
  <2>4. \A n \in Names : \E j \in used : f[j] = n
    BY <1>1
  <2>5. f \in [used -> Names]
    BY DEF NamesType
  <2>6. f \in Surjection(used, Names)
    BY <2>4, <2>5 DEF Surjection
  <2>7. Cardinality(Names) = c
    BY <1>1, FS_Interval DEF Names
  <2> HIDE DEF f, used
  <2>8. Cardinality(Names) <= Cardinality(used)
    BY <2>3, <2>6, FS_Surjection
  <2> QED  BY <1>1, <2>3, <2>7, <2>8
<1>3. PICK n \in T : \A m \in T : n <= m
  BY <1>1, <1>2, LeastNatural
<1>4. ASSUME NEW m \in 1 .. (n - 1)
      PROVE  \E j \in Keys : names[j] = m
  <2>1. m \in Names /\ ~ (n <= m)
    BY <1>1, <1>3 DEF Names
  <2> QED  BY <1>3, <2>1
<1>5. \E x \in Names : /\ \A j \in Keys : names[j] # x
                       /\ \A m \in 1 .. (x - 1) : \E j \in Keys : names[j] = m
  BY <1>3, <1>4
<1> HIDE DEF T
<1> QED  BY <1>5 DEF FreeName

-----------------------------------------------------------------------------
(* Types, and the locals of load() and save()                              *)

Places == {"idle", "load", "miss", "save", "index", "data"}

Locals == [key : Keys \cup {None}, names : NamesType, name : Names \cup {None}]

Distinct(names) == \A j, k \in Keys : names[j] # None /\ names[j] = names[k] => j = k

(* What a process knows at the places it can be in: about to write the     *)
(* index, it has a name for its entry that none of the others has.         *)
Shape(p) ==
    /\ stamp[p] # None => code[p] # None
    /\ pc[p] # "idle" \/ flushing[p] => stamp[p] # None
    /\ pc[p] # "idle" => op[p].key \in Keys
    /\ pc[p] \in {"load", "index", "data"} => op[p].name \in Names
    /\ pc[p] = "index" =>
         /\ Distinct(op[p].names) /\ op[p].names[op[p].key] = None
         /\ \A k \in Keys : op[p].names[k] # op[p].name
    /\ pc[p] = "data" => index # None

Base == TypeOK /\ NamesDistinct /\ \A p \in Processes : Shape(p)

(* The other processes stay where they are.                                *)
OthersStay(p) == \A q \in Processes : q # p =>
    /\ code'[q] = code[q] /\ stamp'[q] = stamp[q] /\ overloads'[q] = overloads[q]
    /\ pc'[q] = pc[q] /\ op'[q] = op[q] /\ flushing'[q] = flushing[q]

LEMMA BaseStep ==
  ASSUME Base, TypeOK', NamesDistinct', NEW p \in Processes, OthersStay(p), Shape(p)',
         index # None => index' # None
  PROVE  Base'
<1>1. ASSUME NEW q \in Processes, q # p
      PROVE  Shape(q)'
  BY <1>1 DEF Base, OthersStay, Shape, Distinct
<1> QED  BY <1>1 DEF Base

LEMMA NoNamesType == NoNames \in NamesType /\ Distinct(NoNames) /\ \A k \in Keys : NoNames[k] = None
BY DEF NoNames, NamesType, Distinct

LEMMA NoOpType == NoOp \in Locals /\ NoOp.names = NoNames
BY NoNamesType DEF NoOp, Locals

(* What the index says to a process with its source stamp, and to others.  *)
LEMMA LoadIndexType ==
  ASSUME TypeOK, NamesDistinct, NEW p \in Processes
  PROVE  /\ LoadIndex(p) \in NamesType /\ Distinct(LoadIndex(p))
         /\ IF Obsolete(p) THEN LoadIndex(p) = NoNames
            ELSE index \in IndexContents /\ index.stamp = stamp[p] /\ LoadIndex(p) = index.names
<1>1. CASE Obsolete(p)
  BY <1>1, NoNamesType DEF LoadIndex
<1>2. CASE ~Obsolete(p)
  <2>1. index # None /\ index \in IndexContents /\ index.stamp = stamp[p]
    BY <1>2 DEF Obsolete, TypeOK
  <2>2. index.names \in NamesType
    BY <2>1 DEF IndexContents, NamesType
  <2> QED  BY <1>2, <2>1, <2>2 DEF LoadIndex, NamesDistinct, Distinct
<1> QED  BY <1>1, <1>2

(* An index that is written by a process.                                  *)
LEMMA IndexForType ==
  ASSUME NEW p \in Processes, stamp[p] \in Nat, NEW names \in NamesType
  PROVE  /\ IndexFor(p, names) \in IndexContents /\ IndexFor(p, names) # None
         /\ IndexFor(p, names).stamp = stamp[p] /\ IndexFor(p, names).names = names
<1>1. IndexFor(p, names) \in IndexContents
  BY DEF IndexFor, IndexContents, NamesType
<1> QED  BY <1>1, NoneAssumption DEF IndexFor

(* A process moves to a place with given locals.                           *)
LEMMA MoveLocals ==
  ASSUME TypeOK, NEW p \in Processes, NEW place \in Places, NEW r \in Locals,
         Goto(p, place), op' = [op EXCEPT ![p] = r]
  PROVE  /\ pc' \in [Processes -> Places] /\ op' \in [Processes -> Locals]
         /\ pc'[p] = place /\ op'[p] = r
         /\ \A q \in Processes : q # p => pc'[q] = pc[q] /\ op'[q] = op[q]
BY DEF TypeOK, Goto, Places, Locals, NamesType

(* An overload is stored.                                                  *)
LEMMA StoreOverload ==
  ASSUME TypeOK, NEW p \in Processes, NEW k \in Keys, NEW v \in Kernels,
         overloads' = [overloads EXCEPT ![p][k] = v]
  PROVE  /\ overloads' \in [Processes -> [Keys -> Kernels \cup {None}]]
         /\ overloads'[p][k] = v
         /\ \A j \in Keys : j # k => overloads'[p][j] = overloads[p][j]
         /\ \A q \in Processes : q # p => overloads'[q] = overloads[q]
<1>1. overloads \in [Processes -> [Keys -> Kernels \cup {None}]]
  BY DEF TypeOK
<1>2. overloads' = [overloads EXCEPT ![p] = [overloads[p] EXCEPT ![k] = v]]
  BY <1>1
<1>3. overloads[p] \in [Keys -> Kernels \cup {None}]
  BY <1>1
<1> DEFINE o == [overloads[p] EXCEPT ![k] = v]
<1>4. /\ o \in [Keys -> Kernels \cup {None}] /\ o[k] = v
      /\ \A j \in Keys : j # k => o[j] = overloads[p][j]
  BY <1>3
<1>5. overloads' = [overloads EXCEPT ![p] = o]
  BY <1>2
<1> HIDE DEF o
<1>6. overloads'[p] = o
  BY <1>1, <1>5
<1> QED  BY <1>1, <1>4, <1>5, <1>6

LEMMA BaseInit == Init => Base
<1> SUFFICES ASSUME Init PROVE Base
  OBVIOUS
<1>1. op \in [Processes -> Locals]
  BY NoOpType DEF Init
<1>2. 0 \in 0 .. MaxEdits /\ 0 \in 0 .. MaxRecompiles /\ 0 \in 0 .. MaxDeaths
  BY DiskCacheAssumption
<1>3. TypeOK
  BY <1>1, <1>2 DEF Init, TypeOK, Locals, NamesType
<1>4. NamesDistinct
  BY DEF Init, NamesDistinct
<1>5. \A p \in Processes : Shape(p)
  BY DEF Init, Shape
<1> QED  BY <1>3, <1>4, <1>5 DEF Base

-----------------------------------------------------------------------------
(* Each step keeps the types                                               *)

LEMMA ImportBase ==
  ASSUME Base, NEW p \in Processes, Import(p)
  PROVE  /\ Base' /\ OthersStay(p) /\ code[p] = None /\ stamp[p] = None /\ pc[p] = "idle"
         /\ code'[p] = source
<1>1. /\ code[p] = None /\ code' = [code EXCEPT ![p] = source]
      /\ UNCHANGED << source, flushing, recompiles, index, files, stamp, overloads, pc, op,
                      deaths, saved, disturbed >>
  BY DEF Import
<1>2. source \in Nat /\ code \in [Processes -> Nat \cup {None}]
  BY DiskCacheAssumption DEF Base, TypeOK
<1>3. /\ code' \in [Processes -> Nat \cup {None}] /\ code'[p] = source
      /\ \A q \in Processes : q # p => code'[q] = code[q]
  BY <1>1, <1>2
<1>4. TypeOK'
  BY <1>1, <1>3 DEF Base, TypeOK
<1>5. stamp[p] = None /\ pc[p] = "idle" /\ ~flushing[p]
  BY <1>1 DEF Base, Shape
<1>6. Shape(p)'
  BY <1>1, <1>5 DEF Shape
<1>7. NamesDistinct' /\ OthersStay(p)
  BY <1>1, <1>3 DEF Base, NamesDistinct, OthersStay
<1> QED  BY <1>1, <1>3, <1>4, <1>5, <1>6, <1>7, BaseStep

LEMMA EnableCachingBase ==
  ASSUME Base, NEW p \in Processes, EnableCaching(p)
  PROVE  /\ Base' /\ OthersStay(p) /\ code[p] # None /\ stamp[p] = None /\ pc[p] = "idle"
         /\ stamp'[p] = source
<1>1. /\ code[p] # None /\ stamp[p] = None /\ stamp' = [stamp EXCEPT ![p] = source]
      /\ UNCHANGED << source, flushing, recompiles, index, files, code, overloads, pc, op,
                      deaths, saved, disturbed >>
  BY DEF EnableCaching
<1>2. source \in Nat /\ stamp \in [Processes -> Nat \cup {None}]
  BY DiskCacheAssumption DEF Base, TypeOK
<1>3. /\ stamp' \in [Processes -> Nat \cup {None}] /\ stamp'[p] = source
      /\ \A q \in Processes : q # p => stamp'[q] = stamp[q]
  BY <1>1, <1>2
<1>4. TypeOK'
  BY <1>1, <1>3 DEF Base, TypeOK
<1>5. pc[p] = "idle" /\ ~flushing[p]
  BY <1>1 DEF Base, Shape
<1>6. Shape(p)'
  BY <1>1, <1>5 DEF Shape
<1>7. NamesDistinct' /\ OthersStay(p)
  BY <1>1, <1>3 DEF Base, NamesDistinct, OthersStay
<1> QED  BY <1>1, <1>3, <1>4, <1>5, <1>6, <1>7, BaseStep

(* A process ends: the files stay.                                         *)
LEMMA EndOfBase ==
  ASSUME Base, NEW p \in Processes, EndOf(p),
         UNCHANGED << source, index, files, recompiles, saved >>,
         deaths' \in 0 .. MaxDeaths, disturbed' \in BOOLEAN
  PROVE  /\ Base' /\ OthersStay(p) /\ pc'[p] = "idle" /\ code'[p] = None /\ stamp'[p] = None
         /\ \A k \in Keys : overloads'[p][k] = None
<1>1. /\ code \in [Processes -> Nat \cup {None}] /\ stamp \in [Processes -> Nat \cup {None}]
      /\ overloads \in [Processes -> [Keys -> Kernels \cup {None}]]
      /\ pc \in [Processes -> Places] /\ op \in [Processes -> Locals]
      /\ flushing \in [Processes -> BOOLEAN]
  BY DEF Base, TypeOK, Places, Locals, NamesType
<1> DEFINE o == [k \in Keys |-> None]
<1>2. o \in [Keys -> Kernels \cup {None}] /\ \A k \in Keys : o[k] = None
  OBVIOUS
<1>3. /\ code' = [code EXCEPT ![p] = None] /\ stamp' = [stamp EXCEPT ![p] = None]
      /\ overloads' = [overloads EXCEPT ![p] = o]
      /\ op' = [op EXCEPT ![p] = NoOp] /\ flushing' = [flushing EXCEPT ![p] = FALSE]
      /\ pc' = [pc EXCEPT ![p] = "idle"]
  BY DEF EndOf, Goto
<1> HIDE DEF o
<1>4. /\ code' \in [Processes -> Nat \cup {None}] /\ stamp' \in [Processes -> Nat \cup {None}]
      /\ overloads' \in [Processes -> [Keys -> Kernels \cup {None}]]
      /\ pc' \in [Processes -> Places] /\ flushing' \in [Processes -> BOOLEAN]
  BY <1>1, <1>2, <1>3 DEF Places
<1>5. op' \in [Processes -> Locals]
  BY <1>1, <1>3, NoOpType
<1>6. TypeOK'
  BY <1>4, <1>5 DEF Base, TypeOK, Places, Locals, NamesType
<1>7. /\ pc'[p] = "idle" /\ code'[p] = None /\ stamp'[p] = None /\ ~flushing'[p]
      /\ overloads'[p] = o
  BY <1>1, <1>3
<1>8. Shape(p)'
  BY <1>7 DEF Shape
<1>9. OthersStay(p)
  BY <1>1, <1>3 DEF OthersStay
<1>10. NamesDistinct'
  BY DEF Base, NamesDistinct
<1> QED  BY <1>2, <1>6, <1>7, <1>8, <1>9, <1>10, BaseStep

LEMMA ExitBase ==
  ASSUME Base, NEW p \in Processes, Exit(p)
  PROVE  /\ Base' /\ OthersStay(p) /\ pc'[p] = "idle" /\ code'[p] = None /\ stamp'[p] = None
         /\ \A k \in Keys : overloads'[p][k] = None
<1>1. deaths' \in 0 .. MaxDeaths /\ disturbed' \in BOOLEAN
  BY DEF Exit, Base, TypeOK
<1> QED  BY <1>1, EndOfBase DEF Exit

LEMMA DeathsType ==
  ASSUME Base, deaths < MaxDeaths
  PROVE  deaths + 1 \in 0 .. MaxDeaths
BY DiskCacheAssumption DEF Base, TypeOK

LEMMA KilledBase ==
  ASSUME Base, NEW p \in Processes, Killed(p)
  PROVE  /\ Base' /\ OthersStay(p) /\ pc'[p] = "idle" /\ code'[p] = None /\ stamp'[p] = None
         /\ \A k \in Keys : overloads'[p][k] = None
<1>1. deaths' \in 0 .. MaxDeaths /\ disturbed' \in BOOLEAN
  BY DeathsType DEF Killed, Base, TypeOK
<1> QED  BY <1>1, EndOfBase DEF Killed

LEMMA WriteFailsBase ==
  ASSUME Base, NEW p \in Processes, WriteFails(p)
  PROVE  Base' /\ OthersStay(p) /\ pc'[p] = "idle"
<1>1. /\ op' = [op EXCEPT ![p] = NoOp] /\ Goto(p, "idle") /\ deaths' \in 0 .. MaxDeaths
      /\ disturbed' \in BOOLEAN
      /\ UNCHANGED << source, flushing, recompiles, index, files, code, stamp, overloads, saved >>
  BY DeathsType DEF WriteFails, Base, TypeOK
<1>2. /\ pc' \in [Processes -> Places] /\ op' \in [Processes -> Locals] /\ pc'[p] = "idle"
      /\ \A q \in Processes : q # p => pc'[q] = pc[q] /\ op'[q] = op[q]
  BY <1>1, NoOpType, MoveLocals DEF Base, Places
<1>3. TypeOK'
  BY <1>1, <1>2 DEF Base, TypeOK, Places, Locals, NamesType
<1>4. Shape(p)'
  BY <1>1, <1>2 DEF Base, Shape
<1>5. NamesDistinct' /\ OthersStay(p)
  BY <1>1, <1>2 DEF Base, NamesDistinct, OthersStay
<1> QED  BY <1>1, <1>2, <1>3, <1>4, <1>5, BaseStep

LEMMA EditBase == ASSUME Base, Edit PROVE Base'
<1>1. /\ source' \in 0 .. MaxEdits /\ disturbed' \in BOOLEAN
      /\ UNCHANGED << index, files, processVars, recompiles, deaths, saved >>
  BY DiskCacheAssumption DEF Edit, Base, TypeOK
<1> QED  BY <1>1 DEF Base, TypeOK, processVars, NamesDistinct, Shape, Distinct

LEMMA LookupBase ==
  ASSUME Base, NEW p \in Processes, Lookup(p)
  PROVE  /\ Base' /\ OthersStay(p) /\ pc[p] = "idle" /\ stamp[p] # None /\ op'[p].key \in Keys
         /\ op'[p].name = LoadIndex(p)[op'[p].key]
         /\ pc'[p] = IF op'[p].name = None THEN "miss" ELSE "load"
<1>1. PICK k \in Keys :
         LET name == LoadIndex(p)[k] IN
         /\ op' = [op EXCEPT ![p] = [NoOp EXCEPT !.key = k, !.name = name]]
         /\ Goto(p, IF name = None THEN "miss" ELSE "load")
  BY DEF Lookup
<1> DEFINE name == LoadIndex(p)[k]
           r == [[NoOp EXCEPT !.key = k] EXCEPT !.name = name]
           place == IF name = None THEN "miss" ELSE "load"
<1>2. name \in Names \cup {None}
  BY LoadIndexType DEF Base, NamesType
<1>3. r \in Locals /\ r.key = k /\ r.name = name
  BY <1>2, NoOpType DEF Locals
<1>4. op' = [op EXCEPT ![p] = r] /\ Goto(p, place) /\ place \in Places
  BY <1>1 DEF Places
<1>5. /\ pc[p] = "idle" /\ stamp[p] # None /\ disturbed' \in BOOLEAN
      /\ UNCHANGED << source, flushing, recompiles, index, files, code, stamp, overloads,
                      deaths, saved >>
  BY DEF Lookup, Base, TypeOK, OthersIn
<1> HIDE DEF r
<1>6. place = (IF name = None THEN "miss" ELSE "load") /\ name = LoadIndex(p)[k]
  OBVIOUS
<1> HIDE DEF place, name
<1>7. /\ pc' \in [Processes -> Places] /\ op' \in [Processes -> Locals]
      /\ pc'[p] = place /\ op'[p] = r
      /\ \A q \in Processes : q # p => pc'[q] = pc[q] /\ op'[q] = op[q]
  BY <1>3, <1>4, MoveLocals DEF Base
<1>8. TypeOK'
  BY <1>5, <1>7 DEF Base, TypeOK, Places, Locals, NamesType
<1>9. Shape(p)'
  BY <1>2, <1>3, <1>5, <1>6, <1>7 DEF Base, Shape
<1>10. NamesDistinct' /\ OthersStay(p)
  BY <1>5, <1>7 DEF Base, NamesDistinct, OthersStay
<1>11. Base'
  BY <1>5, <1>8, <1>9, <1>10, BaseStep
<1> QED  BY <1>3, <1>5, <1>6, <1>7, <1>10, <1>11

LEMMA LoadDataBase ==
  ASSUME Base, NEW p \in Processes, LoadData(p)
  PROVE  /\ Base' /\ OthersStay(p) /\ pc[p] = "load" /\ pc'[p] \in {"miss", "idle"}
         /\ op[p].key \in Keys
         /\ \/ overloads' = overloads
            \/ /\ files[op[p].name] # None
               /\ overloads'[p][op[p].key] = Rebuilt(files[op[p].name])
               /\ \A j \in Keys : j # op[p].key => overloads'[p][j] = overloads[p][j]
<1> DEFINE data == files[op[p].name]
           key == op[p].key
<1>1. /\ pc[p] = "load"
      /\ IF data = None
         THEN Goto(p, "miss") /\ UNCHANGED << overloads, op >>
         ELSE /\ overloads' = [overloads EXCEPT ![p][key] = Rebuilt(data)]
              /\ op' = [op EXCEPT ![p] = NoOp]
              /\ Goto(p, "idle")
      /\ UNCHANGED << source, flushing, recompiles, index, files, code, stamp, deaths, saved,
                      disturbed >>
  BY DEF LoadData
<1>2. key \in Keys /\ op[p].name \in Names /\ stamp[p] # None
  BY <1>1 DEF Base, Shape
<1>3. data \in DataContents \cup {None}
  BY <1>2 DEF Base, TypeOK
<1>4. data \in DataContents => Rebuilt(data) \in Kernels
  BY DEF Rebuilt, DataContents, Kernels
<1> DEFINE v == Rebuilt(data)
<1>5. CASE data = None
  <2>1. Goto(p, "miss") /\ UNCHANGED << overloads, op >>
    BY <1>1, <1>5
  <2>2. /\ pc' \in [Processes -> Places] /\ pc'[p] = "miss"
        /\ \A q \in Processes : q # p => pc'[q] = pc[q]
    BY <2>1 DEF Base, TypeOK, Goto, Places
  <2>3. TypeOK'
    BY <1>1, <2>1, <2>2 DEF Base, TypeOK, Places
  <2>4. Shape(p)'
    BY <1>1, <1>2, <2>1, <2>2 DEF Base, Shape
  <2>5. NamesDistinct' /\ OthersStay(p)
    BY <1>1, <2>1, <2>2 DEF Base, NamesDistinct, OthersStay
  <2>6. Base'
    BY <1>1, <2>3, <2>4, <2>5, BaseStep
  <2> QED  BY <1>1, <1>2, <2>1, <2>2, <2>5, <2>6
<1>6. CASE data # None
  <2>1. /\ v \in Kernels
        /\ overloads' = [overloads EXCEPT ![p][key] = v]
        /\ op' = [op EXCEPT ![p] = NoOp] /\ Goto(p, "idle")
    BY <1>1, <1>3, <1>4, <1>6
  <2> HIDE DEF v
  <2>2. /\ pc' \in [Processes -> Places] /\ op' \in [Processes -> Locals] /\ pc'[p] = "idle"
        /\ \A q \in Processes : q # p => pc'[q] = pc[q] /\ op'[q] = op[q]
    BY <2>1, NoOpType, MoveLocals DEF Base, Places
  <2>3. /\ overloads' \in [Processes -> [Keys -> Kernels \cup {None}]]
        /\ overloads'[p][key] = v
        /\ \A j \in Keys : j # key => overloads'[p][j] = overloads[p][j]
        /\ \A q \in Processes : q # p => overloads'[q] = overloads[q]
    <3> HIDE DEF key
    <3> QED  BY <1>2, <2>1, StoreOverload DEF Base
  <2>4. TypeOK'
    BY <1>1, <2>2, <2>3 DEF Base, TypeOK, Places, Locals, NamesType
  <2>5. Shape(p)'
    BY <1>1, <1>2, <2>2 DEF Base, Shape
  <2>6. NamesDistinct' /\ OthersStay(p)
    BY <1>1, <2>2, <2>3 DEF Base, NamesDistinct, OthersStay
  <2>7. Base'
    BY <1>1, <2>4, <2>5, <2>6, BaseStep
  <2> QED  BY <1>1, <1>2, <1>6, <2>2, <2>3, <2>6, <2>7 DEF v
<1> QED  BY <1>5, <1>6

LEMMA CompileBase ==
  ASSUME Base, NEW p \in Processes, Compile(p)
  PROVE  /\ Base' /\ OthersStay(p) /\ pc[p] = "miss" /\ pc'[p] = "save"
         /\ op[p].key \in Keys
         /\ overloads'[p][op[p].key] = Compiled(p)
         /\ \A j \in Keys : j # op[p].key => overloads'[p][j] = overloads[p][j]
<1> DEFINE key == op[p].key
           v == Compiled(p)
<1>1. /\ pc[p] = "miss" /\ overloads' = [overloads EXCEPT ![p][key] = v] /\ Goto(p, "save")
      /\ UNCHANGED << source, flushing, recompiles, index, files, code, stamp, op, deaths, saved,
                      disturbed >>
  BY DEF Compile
<1>2. key \in Keys /\ stamp[p] # None /\ code[p] # None
  BY <1>1 DEF Base, Shape
<1>3. code[p] \in Nat
  BY <1>2 DEF Base, TypeOK
<1>4. v \in Kernels
  BY <1>2, <1>3, DiskCacheAssumption DEF Compiled, Kernels
<1>5. v = Compiled(p) /\ key = op[p].key
  OBVIOUS
<1> HIDE DEF v, key
<1>6. /\ overloads' \in [Processes -> [Keys -> Kernels \cup {None}]]
      /\ overloads'[p][key] = v
      /\ \A j \in Keys : j # key => overloads'[p][j] = overloads[p][j]
      /\ \A q \in Processes : q # p => overloads'[q] = overloads[q]
  BY <1>1, <1>2, <1>4, StoreOverload DEF Base
<1>7. /\ pc' \in [Processes -> Places] /\ pc'[p] = "save"
      /\ \A q \in Processes : q # p => pc'[q] = pc[q]
  BY <1>1 DEF Base, TypeOK, Goto, Places
<1>8. TypeOK'
  BY <1>1, <1>6, <1>7 DEF Base, TypeOK, Places
<1>9. Shape(p)'
  BY <1>1, <1>2, <1>5, <1>7 DEF Base, Shape
<1>10. NamesDistinct' /\ OthersStay(p)
  BY <1>1, <1>6, <1>7 DEF Base, NamesDistinct, OthersStay
<1>11. Base'
  BY <1>1, <1>8, <1>9, <1>10, BaseStep
<1> QED  BY <1>1, <1>2, <1>5, <1>6, <1>7, <1>10, <1>11

(* save() reads the index and picks the name of the data file.             *)
LEMMA StartSaveBase ==
  ASSUME Base, NEW p \in Processes, StartSave(p)
  PROVE  /\ Base' /\ OthersStay(p) /\ pc[p] = "save"
         /\ op'[p].key = op[p].key /\ op[p].key \in Keys
         /\ op'[p].names = LoadIndex(p)
         /\ LoadIndex(p)[op[p].key] # None => op'[p].name = LoadIndex(p)[op[p].key]
         /\ pc'[p] = IF LoadIndex(p)[op[p].key] = None THEN "index" ELSE "data"
<1> DEFINE names == LoadIndex(p)
           key == op[p].key
           name == names[key]
           new == IF name = None THEN FreeName(names) ELSE name
           r == [[op[p] EXCEPT !.names = names] EXCEPT !.name = new]
           place == IF name = None THEN "index" ELSE "data"
<1>1. /\ pc[p] = "save" /\ Goto(p, place) /\ disturbed' \in BOOLEAN
      /\ UNCHANGED << source, flushing, recompiles, index, files, code, stamp, overloads, deaths,
                      saved >>
  BY DEF StartSave, OthersIn, Base, TypeOK
<1>2. op \in [Processes -> Locals] /\ op[p] \in Locals
  BY DEF Base, TypeOK, Locals, NamesType
<1>3. op' = [op EXCEPT ![p] = r]
  BY <1>2 DEF StartSave
<1>4. key \in Keys /\ stamp[p] # None
  BY <1>1 DEF Base, Shape
<1>5. /\ names \in NamesType /\ Distinct(names)
      /\ IF Obsolete(p) THEN names = NoNames
         ELSE index \in IndexContents /\ index.stamp = stamp[p] /\ names = index.names
  BY LoadIndexType DEF Base
<1>6. name # None => index # None
  BY <1>4, <1>5, NoNamesType, NoneAssumption
<1>7. new \in Names /\ (name = None => \A k \in Keys : names[k] # new)
  <2>1. CASE name = None
    BY <1>4, <1>5, <2>1, FreeNameIsFree
  <2>2. CASE name # None
    BY <1>4, <1>5, <2>2 DEF NamesType
  <2> QED  BY <2>1, <2>2
<1>8. /\ place \in Places /\ place = (IF name = None THEN "index" ELSE "data")
      /\ name = names[key] /\ key = op[p].key /\ names = LoadIndex(p)
      /\ name # None => new = name
  BY DEF Places
<1> HIDE DEF new, place, name, names
<1>9. r \in Locals /\ r.key = key /\ r.names = names /\ r.name = new
  BY <1>2, <1>5, <1>7 DEF Locals
<1> HIDE DEF r, key
<1>10. /\ pc' \in [Processes -> Places] /\ op' \in [Processes -> Locals]
       /\ pc'[p] = place /\ op'[p] = r
       /\ \A q \in Processes : q # p => pc'[q] = pc[q] /\ op'[q] = op[q]
  BY <1>1, <1>3, <1>8, <1>9, MoveLocals DEF Base
<1>11. TypeOK'
  BY <1>1, <1>10 DEF Base, TypeOK, Places, Locals, NamesType
<1>12. Shape(p)'
  BY <1>1, <1>4, <1>5, <1>6, <1>7, <1>8, <1>9, <1>10 DEF Base, Shape, Distinct
<1>13. NamesDistinct' /\ OthersStay(p)
  BY <1>1, <1>10 DEF Base, NamesDistinct, OthersStay
<1>14. Base'
  BY <1>1, <1>11, <1>12, <1>13, BaseStep
<1> QED  BY <1>1, <1>4, <1>8, <1>9, <1>10, <1>13, <1>14

(* The index gets the new entry, whose name none of the others has.        *)
LEMMA SaveIndexBase ==
  ASSUME Base, NEW p \in Processes, SaveIndex(p)
  PROVE  /\ Base' /\ OthersStay(p) /\ pc[p] = "index" /\ pc'[p] = "data"
         /\ op[p].key \in Keys /\ op[p].name \in Names
         /\ index' # None /\ index'.stamp = stamp[p]
         /\ index'.names[op[p].key] = op[p].name
         /\ \A k \in Keys : k # op[p].key => index'.names[k] = op[p].names[k]
<1> DEFINE key == op[p].key
           name == op[p].name
           old == op[p].names
           names == [old EXCEPT ![key] = name]
<1>1. /\ pc[p] = "index" /\ index' = IndexFor(p, names) /\ Goto(p, "data")
      /\ saved' = IF Obsolete(p) THEN {} ELSE saved
      /\ UNCHANGED << source, flushing, recompiles, files, code, stamp, overloads, op, deaths,
                      disturbed >>
  BY DEF SaveIndex
<1>2. /\ key \in Keys /\ name \in Names /\ stamp[p] # None
      /\ Distinct(old) /\ \A k \in Keys : old[k] # name
  BY <1>1 DEF Base, Shape
<1>3. old \in NamesType /\ stamp[p] \in Nat
  BY <1>2 DEF Base, TypeOK, NamesType
<1>4. /\ names \in NamesType /\ names[key] = name
      /\ \A k \in Keys : k # key => names[k] = old[k]
  BY <1>2, <1>3 DEF NamesType
<1>5. Distinct(names)
  BY <1>2, <1>4 DEF Distinct
<1>6. /\ index' \in IndexContents /\ index' # None
      /\ index'.stamp = stamp[p] /\ index'.names = names
  <2> HIDE DEF names
  <2> QED  BY <1>1, <1>3, <1>4, IndexForType
<1> HIDE DEF names
<1>7. NamesDistinct'
  BY <1>5, <1>6 DEF NamesDistinct, Distinct
<1>8. /\ pc' \in [Processes -> Places] /\ pc'[p] = "data"
      /\ \A q \in Processes : q # p => pc'[q] = pc[q]
  BY <1>1 DEF Base, TypeOK, Goto, Places
<1>9. TypeOK'
  BY <1>1, <1>6, <1>8 DEF Base, TypeOK, Places
<1>10. Shape(p)'
  BY <1>1, <1>2, <1>6, <1>8 DEF Base, Shape
<1>11. OthersStay(p)
  BY <1>1, <1>8 DEF OthersStay
<1>12. Base'
  BY <1>6, <1>7, <1>9, <1>10, <1>11, BaseStep
<1> QED  BY <1>1, <1>2, <1>4, <1>6, <1>8, <1>11, <1>12

LEMMA SaveDataBase ==
  ASSUME Base, NEW p \in Processes, SaveData(p)
  PROVE  /\ Base' /\ OthersStay(p) /\ pc[p] = "data" /\ pc'[p] = "idle"
         /\ op[p].key \in Keys /\ op[p].name \in Names /\ stamp[p] # None /\ index # None
         /\ files'[op[p].name] = [key |-> op[p].key, code |-> code[p]]
         /\ \A n \in Names : n # op[p].name => files'[n] = files[n]
<1> DEFINE d == Reduced(Compiled(p))
<1>1. /\ pc[p] = "data" /\ files' = [files EXCEPT ![op[p].name] = d]
      /\ saved' = (IF index.stamp = stamp[p] THEN saved \cup {op[p].key} ELSE saved)
      /\ op' = [op EXCEPT ![p] = NoOp] /\ Goto(p, "idle")
      /\ UNCHANGED << source, flushing, recompiles, index, code, stamp, overloads, deaths,
                      disturbed >>
  BY DEF SaveData
<1>2. /\ op[p].key \in Keys /\ op[p].name \in Names /\ stamp[p] # None /\ index # None
      /\ code[p] # None
  BY <1>1 DEF Base, Shape
<1>3. code[p] \in Nat
  BY <1>2 DEF Base, TypeOK
<1>4. d = [key |-> op[p].key, code |-> code[p]]
  BY DEF Reduced, Compiled
<1>5. d \in DataContents
  BY <1>2, <1>3, <1>4 DEF DataContents
<1> HIDE DEF d
<1>6. /\ files' \in [Names -> DataContents \cup {None}] /\ files'[op[p].name] = d
      /\ \A n \in Names : n # op[p].name => files'[n] = files[n]
  BY <1>1, <1>2, <1>5 DEF Base, TypeOK
<1>7. /\ pc' \in [Processes -> Places] /\ op' \in [Processes -> Locals] /\ pc'[p] = "idle"
      /\ \A q \in Processes : q # p => pc'[q] = pc[q] /\ op'[q] = op[q]
  BY <1>1, NoOpType, MoveLocals DEF Base, Places
<1>8. saved' \in SUBSET Keys
  BY <1>1, <1>2 DEF Base, TypeOK
<1>9. TypeOK'
  BY <1>1, <1>6, <1>7, <1>8 DEF Base, TypeOK, Places, Locals, NamesType
<1>10. Shape(p)'
  BY <1>1, <1>2, <1>7 DEF Base, Shape
<1>11. NamesDistinct' /\ OthersStay(p)
  BY <1>1, <1>7 DEF Base, NamesDistinct, OthersStay
<1>12. Base'
  BY <1>1, <1>9, <1>10, <1>11, BaseStep
<1> QED  BY <1>1, <1>2, <1>4, <1>6, <1>7, <1>11, <1>12

LEMMA RecompileBase ==
  ASSUME Base, NEW p \in Processes, Recompile(p)
  PROVE  /\ Base' /\ (\A k \in Keys : overloads'[p][k] = None)
         /\ \A q \in Processes : q # p => overloads'[q] = overloads[q]
<1> DEFINE o == [k \in Keys |-> None]
<1>1. /\ stamp[p] # None /\ recompiles < MaxRecompiles /\ recompiles' = recompiles + 1
      /\ overloads' = [overloads EXCEPT ![p] = o]
      /\ flushing' = [flushing EXCEPT ![p] = TRUE]
      /\ UNCHANGED << source, index, files, code, stamp, pc, op, deaths, saved, disturbed >>
  BY DEF Recompile
<1>2. o \in [Keys -> Kernels \cup {None}] /\ \A k \in Keys : o[k] = None
  OBVIOUS
<1> HIDE DEF o
<1>3. /\ overloads' \in [Processes -> [Keys -> Kernels \cup {None}]] /\ overloads'[p] = o
      /\ \A q \in Processes : q # p => overloads'[q] = overloads[q]
  BY <1>1, <1>2 DEF Base, TypeOK
<1>4. /\ flushing' \in [Processes -> BOOLEAN]
      /\ \A q \in Processes : q # p => flushing'[q] = flushing[q]
  BY <1>1 DEF Base, TypeOK
<1>5. recompiles' \in 0 .. MaxRecompiles
  BY <1>1, DiskCacheAssumption DEF Base, TypeOK
<1>6. TypeOK'
  BY <1>1, <1>3, <1>4, <1>5 DEF Base, TypeOK
<1>7. Shape(p)'
  BY <1>1 DEF Base, Shape
<1>8. NamesDistinct' /\ OthersStay(p)
  BY <1>1, <1>3, <1>4 DEF Base, NamesDistinct, OthersStay
<1> QED  BY <1>1, <1>2, <1>3, <1>6, <1>7, <1>8, BaseStep

LEMMA FlushBase ==
  ASSUME Base, NEW p \in Processes, Flush(p)
  PROVE  /\ Base' /\ index' # None /\ \A k \in Keys : index'.names[k] = None
<1>1. /\ flushing[p] /\ flushing' = [flushing EXCEPT ![p] = FALSE]
      /\ index' = IndexFor(p, NoNames) /\ saved' = {}
      /\ disturbed' \in BOOLEAN
      /\ UNCHANGED << source, files, code, stamp, overloads, pc, op, recompiles, deaths >>
  BY DEF Flush, Base, TypeOK
<1>2. stamp[p] \in Nat
  BY <1>1 DEF Base, Shape, TypeOK
<1>3. /\ index' \in IndexContents /\ index' # None /\ index'.names = NoNames
  BY <1>1, <1>2, NoNamesType, IndexForType
<1>4. /\ flushing' \in [Processes -> BOOLEAN] /\ ~flushing'[p]
      /\ \A q \in Processes : q # p => flushing'[q] = flushing[q]
  BY <1>1 DEF Base, TypeOK
<1>5. TypeOK'
  BY <1>1, <1>3, <1>4 DEF Base, TypeOK
<1>6. Shape(p)'
  BY <1>1, <1>3, <1>4 DEF Base, Shape
<1>7. NamesDistinct'
  BY <1>3, NoNamesType DEF NamesDistinct
<1>8. OthersStay(p)
  BY <1>1, <1>4 DEF OthersStay
<1> QED  BY <1>3, <1>5, <1>6, <1>7, <1>8, NoNamesType, BaseStep

LEMMA FlushFailsBase == ASSUME Base, NEW p \in Processes, FlushFails(p) PROVE Base'
<1>1. /\ flushing' = [flushing EXCEPT ![p] = FALSE] /\ deaths' \in 0 .. MaxDeaths
      /\ UNCHANGED << source, index, files, code, stamp, overloads, pc, op, recompiles,
                      saved, disturbed >>
  BY DeathsType DEF FlushFails
<1>2. /\ flushing' \in [Processes -> BOOLEAN] /\ ~flushing'[p]
      /\ \A q \in Processes : q # p => flushing'[q] = flushing[q]
  BY <1>1 DEF Base, TypeOK
<1>3. TypeOK'
  BY <1>1, <1>2 DEF Base, TypeOK
<1>4. Shape(p)'
  BY <1>1, <1>2 DEF Base, Shape
<1>5. NamesDistinct' /\ OthersStay(p)
  BY <1>1, <1>2 DEF Base, NamesDistinct, OthersStay
<1> QED  BY <1>1, <1>3, <1>4, <1>5, BaseStep

-----------------------------------------------------------------------------
(* While nothing has mixed the files up                                    *)

(* The data file of an entry of the index holds its kernel.                *)
Stored(k) == files[index.names[k]] = [key |-> k, code |-> index.stamp]

(* A process has the version that its stamp says.                          *)
StampsTrue ==
    \A p \in Processes :
      /\ stamp[p] # None => code[p] = stamp[p]
      /\ code[p] # None /\ stamp[p] = None => code[p] = source

(* A save overlaps no other operation.                                     *)
SavesAlone ==
    \A p, q \in Processes : p # q /\ pc[p] \in Saving => pc[q] \notin Loading \cup Saving

(* Every entry of the index has its data, or is being saved.               *)
EntriesStored ==
    index # None => \A k \in Keys : index.names[k] # None =>
      Stored(k) \/ \E p \in Processes : pc[p] = "data" /\ op[p].key = k

(* What load() and save() have read is still so.                           *)
LocalsTrue ==
    \A p \in Processes :
      /\ pc[p] = "load" => files[op[p].name] = [key |-> op[p].key, code |-> stamp[p]]
      /\ pc[p] = "index" => op[p].names = LoadIndex(p)
      /\ pc[p] = "data" => index.stamp = stamp[p] /\ index.names[op[p].key] = op[p].name

SavedStored == \A k \in saved : index # None /\ index.names[k] # None /\ Stored(k)

Quiet == StampsTrue /\ SavesAlone /\ EntriesStored /\ LocalsTrue /\ RightKernel /\ SavedStored

Inv == Base /\ (~disturbed => Quiet)

(* A step of process p that leaves the files alone.                        *)
LEMMA FilesKept ==
  ASSUME Quiet, NEW p \in Processes, OthersStay(p), UNCHANGED << index, files, saved >>,
         pc[p] # "data"
  PROVE  EntriesStored' /\ SavedStored'
<1>1. \A k \in Keys : Stored(k)' = Stored(k)
  BY DEF Stored
<1>2. EntriesStored'
  BY <1>1 DEF Quiet, EntriesStored, OthersStay
<1>3. \A k \in saved : Stored(k)' = Stored(k)
  BY DEF Stored
<1>4. SavedStored'
  BY <1>3 DEF Quiet, SavedStored
<1> QED  BY <1>2, <1>4

LEMMA StampsKept ==
  ASSUME Quiet, NEW p \in Processes, OthersStay(p), source' = source,
         code'[p] = code[p], stamp'[p] = stamp[p]
  PROVE  StampsTrue'
BY DEF Quiet, StampsTrue, OthersStay

LEMMA SavesKept ==
  ASSUME Quiet, NEW p \in Processes, OthersStay(p),
         pc'[p] \in Loading \cup Saving => ~OthersIn(p, Saving),
         pc'[p] \in Saving => ~OthersIn(p, Loading)
  PROVE  SavesAlone'
<1> SUFFICES ASSUME NEW q \in Processes, NEW u \in Processes, q # u, pc'[q] \in Saving
             PROVE  pc'[u] \notin Loading \cup Saving
  BY DEF SavesAlone
<1>1. CASE q # p /\ u # p
  BY <1>1 DEF Quiet, SavesAlone, OthersStay
<1>2. CASE q = p
  BY <1>2 DEF OthersStay, OthersIn
<1>3. CASE u = p
  BY <1>3 DEF OthersStay, OthersIn
<1> QED  BY <1>1, <1>2, <1>3

LEMMA LocalsKept ==
  ASSUME Quiet, NEW p \in Processes, OthersStay(p), UNCHANGED << index, files >>,
         pc'[p] = "load" => files'[op'[p].name] = [key |-> op'[p].key, code |-> stamp'[p]],
         pc'[p] = "index" => op'[p].names = LoadIndex(p)',
         pc'[p] = "data" => index'.stamp = stamp'[p] /\ index'.names[op'[p].key] = op'[p].name
  PROVE  LocalsTrue'
<1>1. ASSUME NEW q \in Processes, q # p
      PROVE  LoadIndex(q)' = LoadIndex(q)
  BY <1>1 DEF LoadIndex, Obsolete, OthersStay
<1> QED  BY <1>1 DEF Quiet, LocalsTrue, OthersStay

LEMMA KernelsKept ==
  ASSUME Quiet, NEW p \in Processes, OthersStay(p),
         \A k \in Keys : overloads'[p][k] # None =>
           Reduced(overloads'[p][k]) = [key |-> k, code |-> code'[p]]
  PROVE  RightKernel'
BY DEF Quiet, RightKernel, OthersStay

(* A process that is not running has no overloads.                         *)
LEMMA ImportQuiet == ASSUME Base, Quiet, NEW p \in Processes, Import(p) PROVE Quiet'
<1>1. /\ OthersStay(p) /\ code[p] = None /\ stamp[p] = None /\ pc[p] = "idle"
      /\ code'[p] = source
  BY ImportBase
<1>2. UNCHANGED << source, flushing, recompiles, index, files, stamp, overloads, pc, op, deaths,
                   saved, disturbed >>
  BY DEF Import
<1>3. StampsTrue'
  BY <1>1, <1>2 DEF Quiet, StampsTrue, OthersStay
<1>4. ASSUME NEW k \in Keys, overloads[p][k] # None
      PROVE  FALSE
  <2>1. overloads[p][k].code = None
    BY <1>1, <1>4 DEF Quiet, RightKernel, Reduced
  <2>2. overloads[p][k] \in Kernels
    BY <1>4 DEF Base, TypeOK
  <2> QED  BY <2>1, <2>2, NoneAssumption DEF Kernels
<1>5. RightKernel'
  BY <1>1, <1>2, <1>4, KernelsKept
<1>6. EntriesStored' /\ SavedStored' /\ LocalsTrue' /\ SavesAlone'
  BY <1>1, <1>2, FilesKept, LocalsKept, SavesKept DEF Loading, Saving
<1> QED  BY <1>3, <1>5, <1>6 DEF Quiet

LEMMA EnableCachingQuiet == ASSUME Base, Quiet, NEW p \in Processes, EnableCaching(p) PROVE Quiet'
<1>1. /\ OthersStay(p) /\ code[p] # None /\ stamp[p] = None /\ pc[p] = "idle"
      /\ stamp'[p] = source
  BY EnableCachingBase
<1>2. UNCHANGED << source, flushing, recompiles, index, files, code, overloads, pc, op, deaths,
                   saved, disturbed >>
  BY DEF EnableCaching
<1>3. StampsTrue'
  BY <1>1, <1>2 DEF Quiet, StampsTrue, OthersStay
<1>4. RightKernel'
  BY <1>2 DEF Quiet, RightKernel
<1>5. EntriesStored' /\ SavedStored' /\ LocalsTrue' /\ SavesAlone'
  BY <1>1, <1>2, FilesKept, LocalsKept, SavesKept DEF Loading, Saving
<1> QED  BY <1>3, <1>4, <1>5 DEF Quiet

LEMMA EndQuiet ==
  ASSUME Base, Quiet, NEW p \in Processes, OthersStay(p), pc[p] # "data", pc'[p] = "idle",
         code'[p] = None, stamp'[p] = None, \A k \in Keys : overloads'[p][k] = None,
         UNCHANGED << source, index, files, saved >>
  PROVE  Quiet'
<1>1. StampsTrue'
  BY DEF Quiet, StampsTrue, OthersStay
<1>2. RightKernel'
  BY KernelsKept
<1>3. EntriesStored' /\ SavedStored' /\ LocalsTrue' /\ SavesAlone'
  BY FilesKept, LocalsKept, SavesKept DEF Loading, Saving
<1> QED  BY <1>1, <1>2, <1>3 DEF Quiet

LEMMA ExitQuiet == ASSUME Base, Quiet, NEW p \in Processes, Exit(p) PROVE Quiet'
<1>1. pc[p] # "data" /\ UNCHANGED << source, index, files, saved >>
  BY DEF Exit
<1> QED  BY <1>1, ExitBase, EndQuiet

(* A death between the two writes of a save is told.                       *)
LEMMA KilledQuiet ==
  ASSUME Base, Quiet, NEW p \in Processes, Killed(p), ~disturbed' PROVE Quiet'
<1>1. pc[p] # "data" /\ UNCHANGED << source, index, files, saved >>
  BY DEF Killed
<1> QED  BY <1>1, KilledBase, EndQuiet

LEMMA WriteFailsQuiet ==
  ASSUME Base, Quiet, NEW p \in Processes, WriteFails(p), ~disturbed' PROVE Quiet'
<1>1. /\ pc[p] # "data"
      /\ UNCHANGED << source, index, files, saved, code, stamp, overloads >>
  BY DEF WriteFails
<1>2. OthersStay(p) /\ pc'[p] = "idle"
  BY WriteFailsBase
<1>3. StampsTrue'
  BY <1>1, <1>2, StampsKept
<1>4. RightKernel'
  BY <1>1 DEF Quiet, RightKernel
<1>5. EntriesStored' /\ SavedStored' /\ LocalsTrue' /\ SavesAlone'
  BY <1>1, <1>2, FilesKept, LocalsKept, SavesKept DEF Loading, Saving
<1> QED  BY <1>3, <1>4, <1>5 DEF Quiet

(* An edit between the import of a kernel and its stamp is told.           *)
LEMMA EditQuiet == ASSUME Base, Quiet, Edit, ~disturbed' PROVE Quiet'
<1>1. /\ UNCHANGED << index, files, code, stamp, overloads, pc, op, flushing, saved >>
      /\ \A p \in Processes : ~(code[p] # None /\ stamp[p] = None)
  BY DEF Edit, processVars
<1>2. StampsTrue'
  BY <1>1 DEF Quiet, StampsTrue
<1> QED  BY <1>1, <1>2 DEF Quiet, SavesAlone, EntriesStored, Stored, LocalsTrue, LoadIndex,
                          Obsolete, RightKernel, SavedStored

(* The index is complete, since nobody is saving.                          *)
LEMMA LookupQuiet ==
  ASSUME Base, Quiet, NEW p \in Processes, Lookup(p), ~disturbed' PROVE Quiet'
<1>1. /\ OthersStay(p) /\ pc[p] = "idle" /\ stamp[p] # None /\ op'[p].key \in Keys
      /\ op'[p].name = LoadIndex(p)[op'[p].key]
      /\ pc'[p] = IF op'[p].name = None THEN "miss" ELSE "load"
  BY LookupBase
<1>2. /\ UNCHANGED << source, index, files, saved, code, stamp, overloads >>
      /\ ~OthersIn(p, Saving)
  BY DEF Lookup
<1>3. ASSUME pc'[p] = "load"
      PROVE  files'[op'[p].name] = [key |-> op'[p].key, code |-> stamp'[p]]
  <2> DEFINE k == op'[p].key
  <2>1. k \in Keys /\ LoadIndex(p)[k] # None /\ op'[p].name = LoadIndex(p)[k]
    BY <1>1, <1>3
  <2> HIDE DEF k
  <2>2. ~Obsolete(p)
    BY <2>1, LoadIndexType, NoNamesType DEF Base
  <2>3. /\ index # None /\ index.stamp = stamp[p] /\ LoadIndex(p) = index.names
    BY <2>2, LoadIndexType DEF Base, Obsolete
  <2>4. \A q \in Processes : pc[q] # "data"
    BY <1>1, <1>2 DEF OthersIn, Saving
  <2>5. Stored(k)
    BY <2>1, <2>3, <2>4 DEF Quiet, EntriesStored
  <2> QED  BY <1>2, <2>1, <2>3, <2>5 DEF Stored, k
<1>4. pc'[p] \in {"miss", "load"}
  BY <1>1
<1>5. StampsTrue'
  BY <1>1, <1>2, StampsKept
<1>6. RightKernel'
  BY <1>2 DEF Quiet, RightKernel
<1>7. EntriesStored' /\ SavedStored'
  BY <1>1, <1>2, FilesKept
<1>8. LocalsTrue' /\ SavesAlone'
  BY <1>1, <1>2, <1>3, <1>4, LocalsKept, SavesKept DEF Loading, Saving
<1> QED  BY <1>5, <1>6, <1>7, <1>8 DEF Quiet

(* What is read from a data file is what the index promised.               *)
LEMMA LoadDataQuiet == ASSUME Base, Quiet, NEW p \in Processes, LoadData(p) PROVE Quiet'
<1> DEFINE key == op[p].key
           data == files[op[p].name]
<1>1. /\ OthersStay(p) /\ pc[p] = "load" /\ pc'[p] \in {"miss", "idle"}
      /\ key \in Keys
      /\ \/ overloads' = overloads
         \/ /\ overloads'[p][key] = Rebuilt(data)
            /\ \A j \in Keys : j # key => overloads'[p][j] = overloads[p][j]
  BY LoadDataBase
<1>2. UNCHANGED << source, index, files, saved, code, stamp >>
  BY DEF LoadData
<1>3. data = [key |-> key, code |-> stamp[p]] /\ code[p] = stamp[p]
  BY <1>1 DEF Quiet, LocalsTrue, StampsTrue, Base, Shape
<1>4. Reduced(Rebuilt(data)) = [key |-> key, code |-> code[p]]
  BY <1>3 DEF Reduced, Rebuilt
<1> HIDE DEF data, key
<1>5. \A k \in Keys : overloads'[p][k] # None =>
        Reduced(overloads'[p][k]) = [key |-> k, code |-> code'[p]]
  BY <1>1, <1>2, <1>4 DEF Quiet, RightKernel
<1>6. RightKernel'
  BY <1>1, <1>5, KernelsKept
<1>7. StampsTrue'
  BY <1>1, <1>2, StampsKept
<1>8. EntriesStored' /\ SavedStored' /\ LocalsTrue' /\ SavesAlone'
  BY <1>1, <1>2, FilesKept, LocalsKept, SavesKept DEF Loading, Saving
<1> QED  BY <1>6, <1>7, <1>8 DEF Quiet

LEMMA CompileQuiet == ASSUME Base, Quiet, NEW p \in Processes, Compile(p) PROVE Quiet'
<1> DEFINE key == op[p].key
<1>1. /\ OthersStay(p) /\ pc[p] = "miss" /\ pc'[p] = "save"
      /\ overloads'[p][key] = Compiled(p)
      /\ \A j \in Keys : j # key => overloads'[p][j] = overloads[p][j]
  BY CompileBase
<1>2. UNCHANGED << source, index, files, saved, code, stamp >>
  BY DEF Compile
<1>3. Reduced(Compiled(p)) = [key |-> key, code |-> code[p]]
  BY DEF Reduced, Compiled
<1> HIDE DEF key
<1>4. \A k \in Keys : overloads'[p][k] # None =>
        Reduced(overloads'[p][k]) = [key |-> k, code |-> code'[p]]
  BY <1>1, <1>2, <1>3 DEF Quiet, RightKernel
<1>5. RightKernel'
  BY <1>1, <1>4, KernelsKept
<1>6. StampsTrue'
  BY <1>1, <1>2, StampsKept
<1>7. EntriesStored' /\ SavedStored' /\ LocalsTrue' /\ SavesAlone'
  BY <1>1, <1>2, FilesKept, LocalsKept, SavesKept DEF Loading, Saving
<1> QED  BY <1>5, <1>6, <1>7 DEF Quiet

(* Nobody else loads or saves from here on.                                *)
LEMMA StartSaveQuiet ==
  ASSUME Base, Quiet, NEW p \in Processes, StartSave(p), ~disturbed' PROVE Quiet'
<1> DEFINE key == op[p].key
<1>1. /\ OthersStay(p) /\ pc[p] = "save" /\ op'[p].key = key /\ key \in Keys
      /\ op'[p].names = LoadIndex(p)
      /\ LoadIndex(p)[key] # None => op'[p].name = LoadIndex(p)[key]
      /\ pc'[p] = IF LoadIndex(p)[key] = None THEN "index" ELSE "data"
  BY StartSaveBase
<1>2. /\ UNCHANGED << source, index, files, saved, code, stamp, overloads >>
      /\ ~OthersIn(p, Loading \cup Saving)
  BY DEF StartSave
<1>3. ~OthersIn(p, Loading) /\ ~OthersIn(p, Saving)
  BY <1>2 DEF OthersIn
<1>4. LoadIndex(p)' = LoadIndex(p)
  BY <1>2 DEF LoadIndex, Obsolete
<1>5. ASSUME pc'[p] = "data"
      PROVE  index'.stamp = stamp'[p] /\ index'.names[op'[p].key] = op'[p].name
  <2>1. LoadIndex(p)[key] # None /\ op'[p].name = LoadIndex(p)[key]
    BY <1>1, <1>5
  <2>2. ~Obsolete(p)
    BY <1>1, <2>1, LoadIndexType, NoNamesType DEF Base
  <2>3. index.stamp = stamp[p] /\ LoadIndex(p) = index.names
    BY <2>2, LoadIndexType DEF Base
  <2> QED  BY <1>1, <1>2, <2>1, <2>3
<1>6. pc'[p] # "load"
  BY <1>1
<1>7. LocalsTrue'
  BY <1>1, <1>2, <1>4, <1>5, <1>6, LocalsKept
<1>8. StampsTrue'
  BY <1>1, <1>2, StampsKept
<1>9. RightKernel'
  BY <1>2 DEF Quiet, RightKernel
<1>10. EntriesStored' /\ SavedStored' /\ SavesAlone'
  BY <1>1, <1>2, <1>3, FilesKept, SavesKept
<1> QED  BY <1>7, <1>8, <1>9, <1>10 DEF Quiet

(* The entries that were there stay, or they were for another version of   *)
(* the source.                                                             *)
LEMMA SaveIndexQuiet == ASSUME Base, Quiet, NEW p \in Processes, SaveIndex(p) PROVE Quiet'
<1> DEFINE key == op[p].key
           name == op[p].name
           old == op[p].names
<1>1. /\ OthersStay(p) /\ pc[p] = "index" /\ pc'[p] = "data"
      /\ key \in Keys /\ name \in Names
      /\ index' # None /\ index'.stamp = stamp[p] /\ index'.names[key] = name
      /\ \A k \in Keys : k # key => index'.names[k] = old[k]
  BY SaveIndexBase
<1>2. /\ UNCHANGED << source, files, code, stamp, overloads, op >>
      /\ saved' = IF Obsolete(p) THEN {} ELSE saved
  BY DEF SaveIndex
<1>3. old[key] = None /\ old = LoadIndex(p)
  BY <1>1 DEF Base, Shape, Quiet, LocalsTrue
<1>4. \A q \in Processes : q # p => pc[q] \notin Loading \cup Saving
  BY <1>1 DEF Quiet, SavesAlone, Saving
<1>5. IF Obsolete(p) THEN old = NoNames
      ELSE index # None /\ index.stamp = stamp[p] /\ old = index.names
  <2>1. ~Obsolete(p) => index # None
    BY DEF Obsolete
  <2> QED  BY <1>3, <2>1, LoadIndexType DEF Base
<1> HIDE DEF key, name, old
<1>6. ASSUME NEW k \in Keys, old[k] # None
      PROVE  /\ index # None /\ index'.names[k] = index.names[k] /\ index.names[k] # None
             /\ index'.stamp = index.stamp /\ Stored(k)
  <2>1. ~Obsolete(p) /\ k # key
    BY <1>3, <1>5, <1>6, NoNamesType
  <2>2. /\ index # None /\ index.stamp = stamp[p] /\ old = index.names
    BY <1>5, <2>1
  <2>3. \A q \in Processes : pc[q] # "data"
    BY <1>1, <1>4 DEF Saving
  <2>4. Stored(k)
    BY <1>6, <2>2, <2>3 DEF Quiet, EntriesStored
  <2> QED  BY <1>1, <1>6, <2>1, <2>2, <2>4
<1>7. ASSUME NEW k \in Keys, old[k] # None
      PROVE  Stored(k)'
  BY <1>2, <1>6, <1>7 DEF Stored
<1>8. EntriesStored'
  <2> SUFFICES ASSUME NEW k \in Keys, index'.names[k] # None
               PROVE  Stored(k)' \/ \E q \in Processes : pc'[q] = "data" /\ op'[q].key = k
    BY DEF EntriesStored
  <2>1. CASE k = key
    BY <1>1, <1>2, <2>1 DEF key
  <2>2. CASE k # key
    BY <1>1, <1>7, <2>2
  <2> QED  BY <2>1, <2>2
<1>9. SavedStored'
  <2> SUFFICES ASSUME NEW k \in saved'
               PROVE  index' # None /\ index'.names[k] # None /\ Stored(k)'
    BY DEF SavedStored
  <2>1. ~Obsolete(p) /\ k \in saved /\ k \in Keys
    BY <1>2 DEF Base, TypeOK
  <2>2. index.names[k] # None /\ old = index.names
    BY <1>5, <2>1 DEF Quiet, SavedStored
  <2>3. old[k] # None
    BY <2>2
  <2> QED  BY <1>1, <1>6, <1>7, <2>1, <2>3
<1>10. LocalsTrue'
  <2> SUFFICES ASSUME NEW q \in Processes
               PROVE  /\ pc'[q] = "load" =>
                           files'[op'[q].name] = [key |-> op'[q].key, code |-> stamp'[q]]
                      /\ pc'[q] = "index" => op'[q].names = LoadIndex(q)'
                      /\ pc'[q] = "data" => /\ index'.stamp = stamp'[q]
                                            /\ index'.names[op'[q].key] = op'[q].name
    BY DEF LocalsTrue
  <2>1. CASE q = p
    BY <1>1, <1>2, <2>1 DEF key, name
  <2>2. CASE q # p
    <3>1. pc'[q] = pc[q] /\ pc[q] \notin {"load", "index", "data"}
      BY <1>1, <1>4, <2>2 DEF OthersStay, Loading, Saving
    <3> QED  BY <3>1
  <2> QED  BY <2>1, <2>2
<1>11. StampsTrue'
  BY <1>1, <1>2, StampsKept
<1>12. RightKernel'
  BY <1>2 DEF Quiet, RightKernel
<1>13. SavesAlone'
  <2>1. ~OthersIn(p, Saving) /\ ~OthersIn(p, Loading)
    BY <1>4 DEF OthersIn
  <2> QED  BY <1>1, <2>1, SavesKept
<1> QED  BY <1>8, <1>9, <1>10, <1>11, <1>12, <1>13 DEF Quiet

(* The data file of the entry gets what the index says of it, and no other *)
(* entry names that file.                                                  *)
LEMMA SaveDataQuiet == ASSUME Base, Quiet, NEW p \in Processes, SaveData(p) PROVE Quiet'
<1>0. PICK key, name : key = op[p].key /\ name = op[p].name
  OBVIOUS
<1>1. /\ OthersStay(p) /\ pc[p] = "data" /\ pc'[p] = "idle"
      /\ key \in Keys /\ name \in Names /\ stamp[p] # None /\ index # None
      /\ files'[name] = [key |-> key, code |-> code[p]]
      /\ \A n \in Names : n # name => files'[n] = files[n]
  BY <1>0, SaveDataBase
<1>2. /\ UNCHANGED << source, index, code, stamp, overloads >>
      /\ saved' \subseteq saved \cup {key}
  BY <1>0 DEF SaveData
<1>3. index.stamp = stamp[p] /\ index.names[key] = name /\ code[p] = stamp[p]
  BY <1>0, <1>1 DEF Quiet, LocalsTrue, StampsTrue
<1>4. \A q \in Processes : q # p => pc[q] \notin Loading \cup Saving
  BY <1>1 DEF Quiet, SavesAlone, Saving
<1>5. Stored(key)' /\ index.names[key] # None
  <2>1. name # None
    BY <1>1, NamesFacts
  <2> QED  BY <1>1, <1>2, <1>3, <2>1 DEF Stored
<1>6. ASSUME NEW k \in Keys, k # key, index.names[k] # None
      PROVE  Stored(k)' = Stored(k)
  <2>1. index.names[k] \in Names
    BY <1>1, <1>6 DEF Base, TypeOK, IndexContents
  <2>2. index.names[k] # name
    BY <1>1, <1>3, <1>6 DEF Base, NamesDistinct
  <2> QED  BY <1>1, <1>2, <2>1, <2>2 DEF Stored
<1>7. EntriesStored'
  <2> SUFFICES ASSUME NEW k \in Keys, index.names[k] # None
               PROVE  Stored(k)' \/ \E q \in Processes : pc'[q] = "data" /\ op'[q].key = k
    BY <1>2 DEF EntriesStored
  <2>1. CASE k = key
    BY <1>5, <2>1
  <2>2. CASE k # key
    <3>1. \A q \in Processes : ~(pc[q] = "data" /\ op[q].key = k)
      BY <1>0, <1>4, <2>2 DEF Saving
    <3>2. Stored(k)
      BY <1>1, <3>1 DEF Quiet, EntriesStored
    <3> QED  BY <1>6, <2>2, <3>2
  <2> QED  BY <2>1, <2>2
<1>8. SavedStored'
  <2> SUFFICES ASSUME NEW k \in saved'
               PROVE  index # None /\ index.names[k] # None /\ Stored(k)'
    BY <1>2 DEF SavedStored
  <2>1. CASE k = key
    BY <1>1, <1>5, <2>1
  <2>2. CASE k # key
    <3>1. k \in saved /\ k \in Keys
      BY <1>2, <2>2 DEF Base, TypeOK
    <3>2. index.names[k] # None /\ Stored(k)
      BY <3>1 DEF Quiet, SavedStored
    <3> QED  BY <1>1, <1>6, <2>2, <3>1, <3>2
  <2> QED  BY <2>1, <2>2
<1>9. LocalsTrue'
  <2>1. \A q \in Processes : pc'[q] \notin {"load", "index", "data"}
    BY <1>1, <1>4 DEF OthersStay, Loading, Saving
  <2> QED  BY <2>1 DEF LocalsTrue
<1>10. StampsTrue'
  BY <1>1, <1>2, StampsKept
<1>11. RightKernel'
  BY <1>2 DEF Quiet, RightKernel
<1>12. SavesAlone'
  BY <1>1, SavesKept DEF Loading, Saving
<1> QED  BY <1>7, <1>8, <1>9, <1>10, <1>11, <1>12 DEF Quiet

LEMMA RecompileQuiet == ASSUME Base, Quiet, NEW p \in Processes, Recompile(p) PROVE Quiet'
<1>1. /\ \A k \in Keys : overloads'[p][k] = None
      /\ \A q \in Processes : q # p => overloads'[q] = overloads[q]
  BY RecompileBase
<1>2. UNCHANGED << source, index, files, code, stamp, pc, op, saved >>
  BY DEF Recompile
<1>3. RightKernel'
  BY <1>1, <1>2 DEF Quiet, RightKernel
<1> QED  BY <1>2, <1>3 DEF Quiet, StampsTrue, SavesAlone, EntriesStored, Stored, LocalsTrue,
                          LoadIndex, Obsolete, SavedStored

(* The index is emptied while nobody saves; who loads has the name of a    *)
(* file that stays.                                                        *)
LEMMA FlushQuiet ==
  ASSUME Base, Quiet, NEW p \in Processes, Flush(p), ~disturbed' PROVE Quiet'
<1>1. /\ UNCHANGED << source, files, code, stamp, overloads, pc, op >>
      /\ saved' = {} /\ \A q \in Processes : pc[q] \notin {"index", "data"}
  BY DEF Flush, Saving
<1>2. \A k \in Keys : index'.names[k] = None
  BY FlushBase
<1>3. EntriesStored' /\ SavedStored' /\ LocalsTrue'
  BY <1>1, <1>2 DEF EntriesStored, SavedStored, LocalsTrue, Quiet
<1> QED  BY <1>1, <1>3 DEF Quiet, StampsTrue, SavesAlone, RightKernel

-----------------------------------------------------------------------------
(* The invariant, and theorems                                             *)

LEMMA InvInit == Init => Inv
<1> SUFFICES ASSUME Init PROVE Inv
  OBVIOUS
<1>1. Quiet
  BY DEF Init, Quiet, StampsTrue, SavesAlone, EntriesStored, LocalsTrue, RightKernel,
         SavedStored, Saving
<1> QED  BY <1>1, BaseInit DEF Inv

LEMMA InvNext == Inv /\ [Next]_vars => Inv'
<1> SUFFICES ASSUME Inv, [Next]_vars PROVE Inv'
  OBVIOUS
<1>1. CASE Edit
  <2>1. ~disturbed' => ~disturbed
    BY <1>1 DEF Edit
  <2> QED  BY <1>1, <2>1, EditBase, EditQuiet DEF Inv
<1>2. ASSUME NEW p \in Processes,
             \/ Import(p) \/ EnableCaching(p) \/ Exit(p) \/ Killed(p) \/ WriteFails(p)
             \/ Lookup(p) \/ LoadData(p) \/ Compile(p)
             \/ StartSave(p) \/ SaveIndex(p) \/ SaveData(p)
             \/ Recompile(p) \/ Flush(p)
      PROVE  Inv'
  <2>1. Base'
    BY <1>2, ImportBase, EnableCachingBase, ExitBase, KilledBase, WriteFailsBase, LookupBase,
       LoadDataBase, CompileBase, StartSaveBase, SaveIndexBase, SaveDataBase, RecompileBase,
       FlushBase DEF Inv
  <2>2. ~disturbed' => ~disturbed
    BY <1>2 DEF Import, EnableCaching, Exit, Killed, WriteFails, Lookup, LoadData, Compile,
                StartSave, SaveIndex, SaveData, Recompile, Flush
  <2>3. ASSUME ~disturbed'
        PROVE  Quiet'
    BY <1>2, <2>2, <2>3, ImportQuiet, EnableCachingQuiet, ExitQuiet, KilledQuiet,
       WriteFailsQuiet, LookupQuiet, LoadDataQuiet, CompileQuiet, StartSaveQuiet,
       SaveIndexQuiet, SaveDataQuiet, RecompileQuiet, FlushQuiet DEF Inv
  <2> QED  BY <2>1, <2>3 DEF Inv
<1>3. ASSUME NEW p \in Processes, FlushFails(p)
      PROVE  Inv'
  <2>1. UNCHANGED << source, index, files, code, stamp, overloads, pc, op, saved, disturbed >>
    BY <1>3 DEF FlushFails
  <2> QED  BY <1>3, <2>1, FlushFailsBase
           DEF Inv, Quiet, StampsTrue, SavesAlone, EntriesStored, Stored, LocalsTrue, LoadIndex,
               Obsolete, RightKernel, SavedStored
<1>4. CASE UNCHANGED vars
  BY <1>4 DEF vars, processVars, Inv, Base, TypeOK, NamesDistinct, Shape, Distinct, Quiet,
              StampsTrue, SavesAlone, EntriesStored, Stored, LocalsTrue, LoadIndex, Obsolete,
              RightKernel, SavedStored
<1> QED  BY <1>1, <1>2, <1>3, <1>4 DEF Next

LEMMA InvAlways == Spec => []Inv
BY InvInit, InvNext, PTL DEF Spec

(* Both kinds of files hold what the code writes to them.                  *)
THEOREM CacheTypes == Spec => []TypeOK
<1>1. Inv => TypeOK
  BY DEF Inv, Base
<1> QED  BY <1>1, InvAlways, PTL

(* However saves, flushes and deaths interleave, no two entries of the     *)
(* index name the same data file: a new entry gets a number that is free   *)
(* in the index that is written with it.                                   *)
THEOREM EntriesHaveTheirOwnFiles == Spec => []NamesDistinct
<1>1. Inv => NamesDistinct
  BY DEF Inv, Base
<1> QED  BY <1>1, InvAlways, PTL

(* Through restarts, edits and flushes a dispatcher holds for each         *)
(* signature the kernel compiled for it from the source it has imported,   *)
(* as long as no save overlapped another operation or was cut short.       *)
THEOREM KernelsAreRight == Spec => []UndisturbedIsRight
<1>1. Inv => UndisturbedIsRight
  BY DEF Inv, Quiet, UndisturbedIsRight
<1> QED  BY <1>1, InvAlways, PTL

(* What has been saved is found by every process with the same source.     *)
THEOREM SavesAreFound == Spec => []SavedIsFound
<1>1. Inv => SavedIsFound
  BY DEF Inv, Quiet, SavedIsFound, SavedStored, Stored
<1> QED  BY <1>1, InvAlways, PTL
=============================================================================
