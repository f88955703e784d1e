----------------------- MODULE FONcTransform_refs_proofs -----------------------
(* Reference counts: the counts of the dimensions and maps that responses  *)
(* share are those of the pointers to them, nothing is deleted too early,  *)
(* nothing twice, and nothing that was converted is left behind.           *)
EXTENDS FONcTransform_proofs

---------------------------------------------------------------------------
(* Counting the entries of lists.                                          *)

(* Where the lists F[p], for p in P, hold x.                               *)
Entries(F, P, x) ==
  UNION {{<<p, k>> : k \in {j \in DOMAIN F[p] : F[p][j] = x}} : p \in P}

LEMMA EntryIs ==
  ASSUME NEW F, NEW P, NEW x, NEW e
  PROVE  e \in Entries(F, P, x)
           <=> \E p \in P : \E k \in DOMAIN F[p] : F[p][k] = x /\ e = <<p, k>>
  BY DEF Entries

(* The places of x in one list.                                            *)
LEMMA EntriesOfOne ==
  ASSUME NEW F, NEW q, NEW x, F[q] \in Seq(Nat)
  PROVE  /\ IsFiniteSet(Entries(F, {q}, x))
         /\ Cardinality(Entries(F, {q}, x)) = Cardinality({k \in DOMAIN F[q] : F[q][k] = x})
  <1> DEFINE K == {k \in DOMAIN F[q] : F[q][k] = x}
             f == [k \in K |-> <<q, k>>]
  <1>1. K \in SUBSET DOMAIN F[q] /\ IsFiniteSet(DOMAIN F[q])
    BY FS_Interval
  <1>2. IsFiniteSet(K)
    BY <1>1, FS_Subset
  <1>3. Entries(F, {q}, x) = {<<q, k>> : k \in K}
    BY DEF Entries
  <1>4. f \in Bijection(K, Entries(F, {q}, x))
    <2>1. \A k \in K : f[k] = <<q, k>> /\ f[k] \in Entries(F, {q}, x)
      BY <1>3
    <2>2. \A e \in Entries(F, {q}, x) : \E k \in K : f[k] = e
      BY <1>3
    <2>3. \A j, k \in K : f[j] = f[k] => j = k
      BY <2>1
    <2>4. f \in [K -> Entries(F, {q}, x)]
      BY <2>1
    <2> HIDE DEF f
    <2> QED
      BY <2>2, <2>3, <2>4 DEF Bijection, Injection, Surjection, IsInjective
  <1>5. ExistsBijection(K, Entries(F, {q}, x))
    BY <1>4 DEF ExistsBijection
  <1> HIDE DEF K
  <1>6. IsFiniteSet(Entries(F, {q}, x)) /\ Cardinality(Entries(F, {q}, x)) = Cardinality(K)
    BY <1>2, <1>5, FS_Bijection
  <1> QED
    BY <1>6 DEF K

LEMMA EntriesFinite ==
  ASSUME NEW F, NEW P, NEW x, IsFiniteSet(P), \A p \in P : F[p] \in Seq(Nat)
  PROVE  IsFiniteSet(Entries(F, P, x)) /\ Cardinality(Entries(F, P, x)) \in Nat
  <1> DEFINE All == {Entries(F, {p}, x) : p \in P}
             f == [p \in P |-> Entries(F, {p}, x)]
  <1>1. \A T \in All : IsFiniteSet(T)
    BY EntriesOfOne
  <1>2. f \in Surjection(P, All)
    BY DEF Surjection
  <1>3. IsFiniteSet(All)
    BY <1>2, FS_Surjection
  <1>4. Entries(F, P, x) = UNION All
    BY DEF Entries
  <1> HIDE DEF All
  <1> QED
    BY <1>1, <1>3, <1>4, FS_UNION, FS_CardinalityType

(* Lists that are the same have the same entries.                          *)
LEMMA EntriesSame ==
  ASSUME NEW F, NEW G, NEW P, NEW x, \A p \in P : G[p] = F[p]
  PROVE  Entries(G, P, x) = Entries(F, P, x)
  <1>1. \A e : e \in Entries(G, P, x) <=> e \in Entries(F, P, x)
    BY EntryIs
  <1> QED
    BY <1>1

(* An empty list has none.                                                 *)
LEMMA EntriesMade ==
  ASSUME NEW F, NEW G, NEW P, NEW q, NEW x, \A p \in P : G[p] = F[p], G[q] = << >>
  PROVE  Entries(G, P \cup {q}, x) = Entries(F, P, x)
  <1>1. DOMAIN G[q] = {}
    OBVIOUS
  <1>2. \A e : e \in Entries(G, P \cup {q}, x) <=> e \in Entries(F, P, x)
    BY <1>1, EntryIs
  <1> QED
    BY <1>2

(* The list q grows by one: there is one entry more of what its new place  *)
(* n holds, and no other.                                                  *)
Longer(F, G, P, q, n) ==
  /\ q \in P
  /\ \A p \in P : p # q => G[p] = F[p]
  /\ n \notin DOMAIN F[q] /\ DOMAIN G[q] = DOMAIN F[q] \cup {n}
  /\ \A k \in DOMAIN F[q] : G[q][k] = F[q][k]

LEMMA CountPushed ==
  ASSUME NEW F, NEW G, NEW P, NEW q, NEW n, NEW x, Longer(F, G, P, q, n),
         IsFiniteSet(Entries(F, P, x)), Cardinality(Entries(F, P, x)) \in Nat
  PROVE  /\ G[q][n] = x => Cardinality(Entries(G, P, x)) = Cardinality(Entries(F, P, x)) + 1
         /\ G[q][n] # x => Cardinality(Entries(G, P, x)) = Cardinality(Entries(F, P, x))
  <1>1. /\ q \in P /\ n \notin DOMAIN F[q] /\ DOMAIN G[q] = DOMAIN F[q] \cup {n}
        /\ \A k \in DOMAIN F[q] : G[q][k] = F[q][k]
    BY DEF Longer
  <1>2. \A p \in P : p # q => G[p] = F[p]
    BY DEF Longer
  <1>3. <<q, n>> \notin Entries(F, P, x)
    BY <1>1, EntryIs
  <1>4. ASSUME NEW y, y \in Entries(G, P, x)
        PROVE  y \in Entries(F, P, x) \/ (G[q][n] = x /\ y = <<q, n>>)
    <2>1. PICK p \in P : \E k \in DOMAIN G[p] : G[p][k] = x /\ y = <<p, k>>
      BY <1>4, EntryIs
    <2>2. PICK k \in DOMAIN G[p] : G[p][k] = x /\ y = <<p, k>>
      BY <2>1
    <2>3. CASE p = q
      BY <1>1, <2>2, <2>3, EntryIs
    <2>4. CASE p # q
      <3>1. G[p] = F[p]
        BY <1>2, <2>4
      <3> QED
        BY <2>2, <3>1, EntryIs
    <2> QED
      BY <2>3, <2>4
  <1>5. ASSUME NEW y, y \in Entries(F, P, x)
        PROVE  y \in Entries(G, P, x)
    <2>1. PICK p \in P : \E k \in DOMAIN F[p] : F[p][k] = x /\ y = <<p, k>>
      BY <1>5, EntryIs
    <2>2. PICK k \in DOMAIN F[p] : F[p][k] = x /\ y = <<p, k>>
      BY <2>1
    <2>3. k \in DOMAIN G[p] /\ G[p][k] = x
      BY <1>1, <1>2, <2>2
    <2> QED
      BY <2>2, <2>3, EntryIs
  <1>6. G[q][n] = x => <<q, n>> \in Entries(G, P, x)
    BY <1>1, EntryIs
  <1>7. CASE G[q][n] = x
    <2>1. Entries(G, P, x) = Entries(F, P, x) \cup {<<q, n>>}
      BY <1>4, <1>5, <1>6, <1>7
    <2>2. Cardinality(Entries(F, P, x) \cup {<<q, n>>}) = Cardinality(Entries(F, P, x)) + 1
      BY <1>3, FS_AddElement
    <2> QED
      BY <1>7, <2>1, <2>2
  <1>8. CASE G[q][n] # x
    <2>1. Entries(G, P, x) = Entries(F, P, x)
      BY <1>4, <1>5, <1>8
    <2> QED
      BY <1>8, <2>1
  <1> QED
    BY <1>7, <1>8

(* A part of a finite set is taken away.                                   *)
LEMMA CountLess ==
  ASSUME NEW S, NEW T, IsFiniteSet(S), T \subseteq S
  PROVE  /\ IsFiniteSet(S \ T) /\ IsFiniteSet(T)
         /\ Cardinality(S \ T) = Cardinality(S) - Cardinality(T)
  <1>1. IsFiniteSet(T) /\ IsFiniteSet(S \ T)
    BY FS_Subset
  <1>2. S = (S \ T) \cup T /\ (S \ T) \cap T = {}
    OBVIOUS
  <1>3. Cardinality(S) = Cardinality(S \ T) + Cardinality(T) - Cardinality({})
    BY <1>1, <1>2, FS_Union
  <1>4. Cardinality(S) \in Nat /\ Cardinality(S \ T) \in Nat /\ Cardinality(T) \in Nat
    BY <1>1, FS_CardinalityType
  <1> QED
    BY <1>1, <1>3, <1>4, FS_EmptySet

(* The lists in R go away.                                                 *)
LEMMA EntriesRemoved ==
  ASSUME NEW F, NEW P, NEW R, NEW x,
         IsFiniteSet(P), R \subseteq P, \A p \in P : F[p] \in Seq(Nat)
  PROVE  Cardinality(Entries(F, P \ R, x))
           = Cardinality(Entries(F, P, x)) - Cardinality(Entries(F, R, x))
  <1>1. \A e : e \in Entries(F, P \ R, x) <=> e \in Entries(F, P, x) \ Entries(F, R, x)
    BY EntryIs
  <1>2. Entries(F, P \ R, x) = Entries(F, P, x) \ Entries(F, R, x)
    BY <1>1
  <1>3. Entries(F, R, x) \subseteq Entries(F, P, x)
    BY EntryIs
  <1> QED
    BY <1>2, <1>3, EntriesFinite, CountLess

(* No list holds x.                                                        *)
LEMMA EntriesNone ==
  ASSUME NEW F, NEW P, NEW x, \A p \in P : \A k \in DOMAIN F[p] : F[p][k] # x
  PROVE  Entries(F, P, x) = {} /\ Cardinality(Entries(F, P, x)) = 0
  <1>1. Entries(F, P, x) = {}
    BY EntryIs
  <1> QED
    BY <1>1, FS_EmptySet

---------------------------------------------------------------------------
(* The objects alive.                                                      *)

(* The objects are those of the variables and maps converted so far: what  *)
(* is converted next has none yet.                                         *)
AheadOK ==
  /\ pc = "convert" => \A p \in DOMAIN obj : p[1] < vi
  /\ pc = "maps" => \A p \in DOMAIN obj : p[1] < vi \/ (p[1] = vi /\ 0 < p[2] /\ p[2] < mi)
  /\ pc = "dims" => \A p \in DOMAIN obj :
       p[1] < vi \/ p = Cur \/ (p[1] = vi /\ 0 < p[2] /\ (mi > 0 => p[2] < mi))

(* Only arrays outside of grids register themselves as maps, at the end of *)
(* their conversion.                                                       *)
RegistrarOK ==
  /\ \A p \in DOMAIN obj : obj[p].map = 0 \/ (obj[p].map \in DOMAIN Maps /\ p[2] = 0)
  /\ pc = "dims" => obj[Cur].map = 0

ObjInv == IsFiniteSet(DOMAIN obj) /\ AheadOK /\ RegistrarOK

(* What a step does to the references.                                     *)
Keeps ==
  /\ DOMAIN obj' = DOMAIN obj
  /\ \A p \in DOMAIN obj : obj'[p].dims = obj[p].dims /\ obj'[p].map = obj[p].map
  /\ DOMAIN Dimensions' = DOMAIN Dimensions
  /\ \A d \in DOMAIN Dimensions : Dimensions'[d].ref = Dimensions[d].ref
  /\ UNCHANGED <<held, Maps>>
Makes(p) ==
  /\ p \in Key /\ p \notin DOMAIN obj
  /\ DOMAIN obj' = DOMAIN obj \cup {p}
  /\ \A q \in DOMAIN obj : obj'[q] = obj[q]
  /\ obj'[p].dims = << >> /\ obj'[p].map = 0
  /\ UNCHANGED <<held, Dimensions, Maps>>
Pushes(e) ==
  /\ pc = "dims" /\ PushDim(e) /\ NextDim
  /\ \/ /\ e = Len(Dimensions) + 1
        /\ \E name, size : Dimensions' = Append(Dimensions, NewDim(name, size))
     \/ /\ e \in DOMAIN Dimensions
        /\ \E size : Dimensions' = [Dimensions EXCEPT ![e].ref = @ + 1, ![e].size = size]
  /\ UNCHANGED <<req, held, Maps>>

LEMMA StaysKeeps ==
  ASSUME IInv, UNCHANGED <<obj, held, Dimensions, Maps>>
  PROVE  Keeps
  BY DEF Keeps

(* The objects that a step makes are new.                                  *)
LEMMA MakesNew ==
  ASSUME IInv, ObjInv, ConvertSimple \/ ConvertArray \/ ConvertMap \/ ConvertGridArray
  PROVE  Makes(<<vi, 0>>) \/ (Makes(Cur) /\ ConvertMap)
  <1>1. /\ vi \in Nat \ {0} /\ mi \in Nat
        /\ \A p \in DOMAIN obj : p \in Key /\ p[1] \in Nat /\ p[2] \in Nat
    BY DEF IInv, TypeOK, ControlOK, ObjectsOK, Key
  <1>2. ASSUME NEW p \in Key, NEW name, p \notin DOMAIN obj, obj' = Put(obj, p, NewArray(name)),
               UNCHANGED <<held, Dimensions, Maps>>
        PROVE  Makes(p)
    BY <1>2 DEF Makes, Put, NewArray
  <1>3. CASE ConvertSimple \/ ConvertArray \/ ConvertGridArray
    <2>1. <<vi, 0>> \in Key /\ <<vi, 0>> \notin DOMAIN obj
      BY <1>1, <1>3 DEF ConvertSimple, ConvertArray, ConvertGridArray, ObjInv, AheadOK, Key
    <2>2. /\ \E name : obj' = Put(obj, <<vi, 0>>, NewArray(name))
          /\ UNCHANGED <<held, Dimensions, Maps>>
      BY <1>3 DEF ConvertSimple, ConvertArray, ConvertGridArray, StartArray, statics
    <2> QED
      BY <1>2, <2>1, <2>2
  <1>4. CASE ConvertMap
    <2>1. Cur \in Key /\ Cur \notin DOMAIN obj
      BY <1>1, <1>4 DEF ConvertMap, ObjInv, AheadOK, Key, Cur
    <2>2. /\ \E name : obj' = Put(obj, Cur, NewArray(name))
          /\ UNCHANGED <<held, Dimensions, Maps>>
      BY <1>4 DEF ConvertMap, StartArray, statics
    <2> QED
      BY <1>2, <1>4, <2>1, <2>2
  <1> QED
    BY <1>3, <1>4

LEMMA PushesOne ==
  ASSUME IInv, ShareDim \/ NewDimension \/ ShareLength \/ NewLength
  PROVE  \E e : Pushes(e)
  <1>1. pc = "dims" /\ NextDim /\ UNCHANGED <<req, held, Maps>>
    BY DEF ShareDim, NewDimension, ShareLength, NewLength, AtLength
  <1>2. CASE \E name, size : AddDim(name, size)
    BY <1>1, <1>2 DEF AddDim, Pushes
  <1>3. CASE \E name, size : Named(name) # {} /\ UseDim(First(Named(name)), size)
    <2>1. PICK name, size : Named(name) # {} /\ UseDim(First(Named(name)), size)
      BY <1>3
    <2>2. First(Named(name)) \in DOMAIN Dimensions
      BY <2>1, NamedIsOne
    <2> QED
      BY <1>1, <2>1, <2>2 DEF UseDim, Pushes
  <1>4. CASE ShareDim \/ ShareLength
    BY <1>3, <1>4, Zenon DEF ShareDim, ShareLength
  <1>5. CASE NewDimension \/ NewLength
    BY <1>2, <1>5, Zenon DEF NewDimension, NewLength
  <1> QED
    BY <1>4, <1>5

(* The steps of the define mode set ids.                                   *)
LEMMA DefineKeeps ==
  ASSUME IInv, Define
  PROVE  Keeps /\ \A p \in DOMAIN obj : obj'[p].dontUse = obj[p].dontUse
  <1>1. CASE CreateFile \/ DefineSequence \/ SkipDefined \/ SkipDefinedDim \/ DefineNext \/ EndDefine
    BY <1>1 DEF CreateFile, DefineSequence, SkipDefined, SkipDefinedDim, DefineNext, EndDefine,
                converted, statics, Keeps
  <1>2. CASE DefineScalar \/ DefineStr \/ DefineArray
    <2>1. /\ UNCHANGED <<held, Dimensions, Maps>>
          /\ UNCHANGED obj \/ obj' = [obj EXCEPT ![At].varid = Len(ncVars) + 1]
      BY <1>2 DEF DefineScalar, DefineStr, DefineArray, DefVar, statics
    <2>2. \A p \in DOMAIN obj : obj[p] \in FONcArray
      BY DEF IInv, TypeOK, ObjectsOK
    <2>3. /\ DOMAIN obj' = DOMAIN obj
          /\ \A p \in DOMAIN obj : /\ obj'[p].dims = obj[p].dims /\ obj'[p].map = obj[p].map
                                  /\ obj'[p].dontUse = obj[p].dontUse
      BY <2>1, <2>2 DEF FONcArray
    <2> QED
      BY <2>1, <2>3 DEF Keeps
  <1>3. CASE DefineDim
    <2>1. UNCHANGED <<obj, held, Maps>>
      BY <1>3 DEF DefineDim, converted
    <2>2. UNCHANGED Dimensions \/ Dimensions' = [Dimensions EXCEPT ![CurDim].dimid = Len(ncDims) + 1]
      BY <1>3 DEF DefineDim
    <2>3. \A d \in DOMAIN Dimensions : Dimensions[d] \in FONcDim
      BY DEF IInv, TypeOK, StaticsOK
    <2>4. /\ DOMAIN Dimensions' = DOMAIN Dimensions
          /\ \A d \in DOMAIN Dimensions : Dimensions'[d].ref = Dimensions[d].ref
      BY <2>2, <2>3 DEF FONcDim
    <2> QED
      BY <2>1, <2>4 DEF Keeps
  <1> QED
    BY <1>1, <1>2, <1>3 DEF Define

(* The other steps that leave the references alone.                        *)
LEMMA QuietKeeps ==
  ASSUME IInv,
         \/ SkipUnsent \/ ConvertUnknown \/ ConvertGrid \/ EndConvert \/ SkipMap \/ SkipGridArray
         \/ DimensionClash \/ ArrayDone \/ GridArrayDone
         \/ Write \/ DestroyNext \/ NcFails \/ LibraryThrows \/ UNCHANGED vars
  PROVE  UNCHANGED <<obj, held, Dimensions, Maps>>
  BY DEF SkipUnsent, ConvertUnknown, ConvertGrid, EndConvert, SkipMap, SkipGridArray,
         DimensionClash, ArrayDone, GridArrayDone, Write, WriteData, SkipWrite, WriteNext,
         CloseFile, DestroyNext, NcFails, LibraryThrows, vars, converted, statics

LEMMA DropKeeps ==
  ASSUME IInv, DropCoordinate
  PROVE  Keeps
  <1>1. obj' = [obj EXCEPT ![Cur].dontUse = TRUE] /\ UNCHANGED <<held, Dimensions, Maps>>
    BY DEF DropCoordinate, statics
  <1>2. \A p \in DOMAIN obj : obj[p] \in FONcArray
    BY DEF IInv, TypeOK, ObjectsOK
  <1>3. /\ DOMAIN obj' = DOMAIN obj
        /\ \A p \in DOMAIN obj : obj'[p].dims = obj[p].dims /\ obj'[p].map = obj[p].map
    BY <1>1, <1>2 DEF FONcArray
  <1> QED
    BY <1>1, <1>3 DEF Keeps
(* All steps.                                                              *)
LEMMA Effects ==
  ASSUME IInv, ObjInv, [Next]_vars
  PROVE  \/ \E r \in Requests : Begin(r)
         \/ Finish
         \/ Keeps
         \/ Makes(<<vi, 0>>)
         \/ Makes(Cur) /\ ConvertMap
         \/ \E e : Pushes(e)
         \/ ShareMap \/ RegisterCoordinate \/ MapDone
         \/ DestroyVar
  <1>1. CASE \/ SkipUnsent \/ ConvertUnknown \/ ConvertGrid \/ EndConvert \/ SkipMap \/ SkipGridArray
             \/ DimensionClash \/ ArrayDone \/ GridArrayDone
             \/ Write \/ DestroyNext \/ NcFails \/ LibraryThrows \/ UNCHANGED vars
    BY <1>1, QuietKeeps, StaysKeeps
  <1>2. CASE ConvertSimple \/ ConvertArray \/ ConvertMap \/ ConvertGridArray
    BY <1>2, MakesNew
  <1>3. CASE ShareDim \/ NewDimension \/ ShareLength \/ NewLength
    BY <1>3, PushesOne
  <1>4. CASE DropCoordinate
    BY <1>4, DropKeeps
  <1>5. CASE Define
    BY <1>5, DefineKeeps
  <1> QED
    BY <1>1, <1>2, <1>3, <1>4, <1>5, Zenon DEF Next, Step, Convert, Destroy

(* The new objects are behind the cursor when the loops move on.           *)
LEMMA StepAhead ==
  ASSUME IInv, ObjInv, [Next]_vars
  PROVE  AheadOK'
  <1>0. /\ vi \in Nat \ {0} /\ mi \in Nat /\ AheadOK
        /\ \A p \in DOMAIN obj : p \in Key /\ p[1] \in Nat /\ p[2] \in Nat
    BY DEF IInv, TypeOK, ControlOK, ObjectsOK, Key, ObjInv
  <1>1. CASE pc' \notin {"convert", "maps", "dims"}
    BY <1>1 DEF AheadOK
  <1>2. CASE \E r \in Requests : Begin(r)
    BY <1>2 DEF Begin, AheadOK
  <1>3. CASE SkipUnsent
    <2>1. pc = "convert" /\ pc' = "convert" /\ vi' = vi + 1 /\ obj' = obj
      BY <1>3 DEF SkipUnsent, Goto, converted
    <2> QED
      BY <1>0, <2>1 DEF AheadOK
  <1>4. CASE ConvertSimple
    <2>1. pc = "convert" /\ pc' = "convert" /\ vi' = vi + 1 /\ DOMAIN obj' = DOMAIN obj \cup {<<vi, 0>>}
      BY <1>4 DEF ConvertSimple, Goto, Put
    <2> QED
      BY <1>0, <2>1 DEF AheadOK
  <1>5. CASE ConvertArray \/ ConvertGridArray
    <2>1. /\ pc \in {"convert", "maps"} /\ pc' = "dims" /\ vi' = vi /\ mi' = 0
          /\ DOMAIN obj' = DOMAIN obj \cup {<<vi, 0>>}
      BY <1>5 DEF ConvertArray, ConvertGridArray, StartArray, Goto, Put
    <2>2. Cur' = <<vi, 0>>
      BY <2>1 DEF Cur
    <2>3. \A p \in DOMAIN obj : p[1] < vi \/ (p[1] = vi /\ 0 < p[2])
      BY <1>0, <2>1 DEF AheadOK
    <2> QED
      BY <1>0, <2>1, <2>2, <2>3 DEF AheadOK
  <1>6. CASE ConvertGrid
    <2>1. pc = "convert" /\ pc' = "maps" /\ vi' = vi /\ obj' = obj
      BY <1>6 DEF ConvertGrid, Goto
    <2> QED
      BY <1>0, <2>1 DEF AheadOK
  <1>7. CASE SkipMap \/ ShareMap
    <2>1. pc = "maps" /\ pc' = "maps" /\ vi' = vi /\ mi' = mi + 1 /\ obj' = obj
      BY <1>7 DEF SkipMap, ShareMap, Goto, converted
    <2> QED
      BY <1>0, <2>1 DEF AheadOK
  <1>8. CASE ConvertMap
    <2>1. /\ pc = "maps" /\ pc' = "dims" /\ vi' = vi /\ mi' = mi
          /\ DOMAIN obj' = DOMAIN obj \cup {Cur}
      BY <1>8 DEF ConvertMap, StartArray, Goto, Put, Cur
    <2>2. Cur' = Cur
      BY <2>1 DEF Cur
    <2> QED
      BY <1>0, <2>1, <2>2 DEF AheadOK
  <1>9. CASE SkipGridArray \/ ArrayDone \/ GridArrayDone \/ RegisterCoordinate \/ DropCoordinate
    <2>1. pc \in {"maps", "dims"} /\ pc' = "convert" /\ vi' = vi + 1 /\ DOMAIN obj' = DOMAIN obj
      BY <1>9 DEF SkipGridArray, ArrayDone, GridArrayDone, RegisterCoordinate, DropCoordinate,
                  DimsDone, GridConverted, Goto, converted
    <2>2. \A p \in DOMAIN obj : p[1] <= vi
      BY <1>0, <2>1 DEF AheadOK, Cur
    <2> QED
      BY <1>0, <2>1, <2>2 DEF AheadOK
  <1>10. CASE ShareDim \/ NewDimension \/ ShareLength \/ NewLength
    <2>1. pc = "dims" /\ UNCHANGED <<pc, vi, mi>> /\ DOMAIN obj' = DOMAIN obj
      <3>1. PICK e : Pushes(e)
        BY <1>10, PushesOne
      <3> QED
        BY <3>1 DEF Pushes, PushDim, NextDim
    <2> QED
      BY <1>0, <2>1 DEF AheadOK, Cur
  <1>11. CASE MapDone
    <2>1. pc = "dims" /\ pc' = "maps" /\ vi' = vi /\ mi' = mi + 1 /\ mi > 0 /\ obj' = obj
      BY <1>11 DEF MapDone, DimsDone, Goto
    <2> QED
      BY <1>0, <2>1 DEF AheadOK, Cur
  <1>12. CASE UNCHANGED vars
    BY <1>12 DEF vars, cursor, converted, AheadOK, Cur, ObjInv
  <1>13. CASE Define \/ Write \/ Destroy
    <2>1. pc' \notin {"convert", "maps", "dims"}
      BY <1>13 DEF Define, CreateFile, DefineScalar, DefineStr, DefineSequence, SkipDefined, DefineDim,
                   SkipDefinedDim, DefineArray, DefineNext, EndDefine, Defining, InDefine,
                   NextTarget, NextDim, Goto, Refuse, ThrowAndClose, Throw,
                   Write, WriteData, SkipWrite, WriteNext, CloseFile, Writing,
                   Destroy, DestroyVar, DestroyNext, Finish
    <2> QED
      BY <1>1, <2>1
  <1>14. CASE EndConvert \/ ConvertUnknown \/ DimensionClash \/ NcFails \/ LibraryThrows
    <2>1. pc' \notin {"convert", "maps", "dims"}
      BY <1>14 DEF EndConvert, ConvertUnknown, DimensionClash, NcFails, LibraryThrows, ThrowAndClose,
                   Throw, Goto
    <2> QED
      BY <1>1, <2>1
  <1> QED
    BY <1>2, <1>3, <1>4, <1>5, <1>6, <1>7, <1>8, <1>9, <1>10, <1>11, <1>12, <1>13, <1>14
    DEF Next, Step, Convert
(* What the steps with an effect of their own do to the objects.           *)
LEMMA PushTypes ==
  ASSUME IInv, ObjInv, NEW e, Pushes(e)
  PROVE  /\ Cur \in DOMAIN obj /\ DOMAIN obj' = DOMAIN obj /\ e \in Nat
         /\ obj'[Cur].dims = Append(obj[Cur].dims, e)
         /\ \A p \in DOMAIN obj : obj'[p].map = obj[p].map
         /\ \A p \in DOMAIN obj : obj'[p].dontUse = obj[p].dontUse
         /\ \A p \in DOMAIN obj : p # Cur => obj'[p].dims = obj[p].dims
  <1>1. /\ Cur \in DOMAIN obj /\ \A p \in DOMAIN obj : obj[p] \in FONcArray
        /\ Dimensions \in Seq(FONcDim)
    BY CurTypes DEF Pushes, IInv, TypeOK, ObjectsOK, StaticsOK
  <1>2. obj' = [obj EXCEPT ![Cur].dims = Append(@, e)]
    BY DEF Pushes, PushDim
  <1>3. e \in Nat
    BY <1>1 DEF Pushes
  <1> QED
    BY <1>1, <1>2, <1>3 DEF FONcArray

LEMMA RegisterTypes ==
  ASSUME IInv, RegisterCoordinate
  PROVE  /\ Cur \in DOMAIN obj /\ Cur[2] = 0 /\ DOMAIN obj' = DOMAIN obj
         /\ Maps' = Append(Maps, NewMap(Cur, FALSE)) /\ obj'[Cur].map = Len(Maps) + 1
         /\ \A p \in DOMAIN obj : p # Cur => obj'[p].map = obj[p].map
         /\ \A p \in DOMAIN obj : obj'[p].dims = obj[p].dims /\ obj'[p].dontUse = obj[p].dontUse
         /\ UNCHANGED <<held, Dimensions>>
  <1>1. /\ pc = "dims" /\ ~InGrid
        /\ UNCHANGED <<held, Dimensions>> /\ Maps' = Append(Maps, NewMap(Cur, FALSE))
        /\ obj' = [obj EXCEPT ![Cur].map = Len(Maps) + 1]
    BY DEF RegisterCoordinate, DimsDone, MayBeMap
  <1>2. Cur \in DOMAIN obj /\ mi = 0 /\ Cur[2] = mi /\ \A p \in DOMAIN obj : obj[p] \in FONcArray
    BY <1>1, CurTypes, ControlTypes DEF IInv, CursorOK, Cur, TypeOK, ObjectsOK
  <1> QED
    BY <1>1, <1>2 DEF FONcArray

LEMMA AppendMap ==
  ASSUME IInv, NEW p, NEW ingrid, Maps' = Append(Maps, NewMap(p, ingrid))
  PROVE  /\ Len(Maps) + 1 \in Nat /\ Len(Maps) + 1 \notin DOMAIN Maps
         /\ DOMAIN Maps' = DOMAIN Maps \cup {Len(Maps) + 1}
         /\ \A m \in DOMAIN Maps : Maps'[m] = Maps[m]
         /\ Maps'[Len(Maps) + 1] = NewMap(p, ingrid)
         /\ 0 \notin DOMAIN Maps'
  <1>1. Maps \in Seq(FONcMap)
    BY DEF IInv, TypeOK, StaticsOK
  <1> QED
    BY <1>1

LEMMA ShareTypes ==
  ASSUME IInv, ShareMap
  PROVE  \E m \in DOMAIN Maps :
           /\ m \in InMaps(CurArr) /\ vi \in DOMAIN held /\ Hold(m) /\ UNCHANGED <<obj, Dimensions>>
           /\ DOMAIN Maps' = DOMAIN Maps /\ Maps'[m].ref = Maps[m].ref + 1
           /\ \A n \in DOMAIN Maps : n # m => Maps'[n] = Maps[n]
           /\ \A n \in DOMAIN Maps : Maps'[n].arr = Maps[n].arr /\ Maps'[n].ingrid = Maps[n].ingrid
  <1> DEFINE m == First(InMaps(CurArr))
  <1>1. /\ vi \in DOMAIN req /\ Maps \in Seq(FONcMap) /\ InMaps(CurArr) # {} /\ Working
        /\ UNCHANGED <<obj, Dimensions>> /\ IncrefMap(m) /\ Hold(m)
    BY MapCursor DEF ShareMap, IInv, TypeOK, StaticsOK, Working
  <1>2. m \in InMaps(CurArr) /\ m \in DOMAIN Maps
    BY <1>1, InMapsIsOne
  <1> HIDE DEF m
  <1>3. m \in DOMAIN Maps /\ \A n \in DOMAIN Maps : Maps[n] \in FONcMap
    BY <1>1, <1>2
  <1>4. vi \in DOMAIN held
    BY <1>1 DEF IInv, TypeOK, HeldOK, ControlOK
  <1>5. Maps' = [Maps EXCEPT ![m].ref = @ + 1]
    BY <1>1 DEF IncrefMap
  <1>6. /\ DOMAIN Maps' = DOMAIN Maps /\ Maps'[m].ref = Maps[m].ref + 1
        /\ \A n \in DOMAIN Maps : n # m => Maps'[n] = Maps[n]
        /\ \A n \in DOMAIN Maps : Maps'[n].arr = Maps[n].arr /\ Maps'[n].ingrid = Maps[n].ingrid
    BY <1>3, <1>5 DEF FONcMap
  <1> QED
    BY <1>1, <1>2, <1>3, <1>4, <1>6

LEMMA DestroyTypes ==
  ASSUME IInv, DestroyVar
  PROVE  /\ pc = "destroy" /\ vi \in DOMAIN req /\ DOMAIN req = DOMAIN held
         /\ obj' = [p \in DOMAIN obj \ Gone(vi) |-> obj[p]]
         /\ held' = [held EXCEPT ![vi] = << >>]
         /\ DOMAIN Maps' = DOMAIN Maps /\ DOMAIN Dimensions' = DOMAIN Dimensions
         /\ \A m \in DOMAIN Maps : /\ Maps'[m].ref = Maps[m].ref - Times(vi, m)
                                  /\ Maps'[m].arr = Maps[m].arr /\ Maps'[m].ingrid = Maps[m].ingrid
         /\ \A d \in DOMAIN Dimensions :
              Dimensions'[d].ref = Dimensions[d].ref - Cardinality(Uses(Gone(vi), d))
  <1>1. /\ pc = "destroy" /\ vi \in DOMAIN req /\ DOMAIN req = DOMAIN held
    BY ControlTypes DEF DestroyVar, IInv, TypeOK, HeldOK, ControlOK
  <1>2. /\ \A m \in DOMAIN Maps : Maps[m] \in FONcMap
        /\ \A d \in DOMAIN Dimensions : Dimensions[d] \in FONcDim
    BY DEF IInv, TypeOK, StaticsOK
  <1>3. ASSUME NEW m \in DOMAIN Maps
        PROVE  /\ Maps'[m].ref = Maps[m].ref - Times(vi, m)
               /\ Maps'[m].arr = Maps[m].arr /\ Maps'[m].ingrid = Maps[m].ingrid
    <2>1. Maps'[m] = [Maps[m] EXCEPT !.ref = @ - Times(vi, m)]
      BY <1>3 DEF DestroyVar
    <2> QED
      BY <1>2, <2>1 DEF FONcMap
  <1>4. ASSUME NEW d \in DOMAIN Dimensions
        PROVE  Dimensions'[d].ref = Dimensions[d].ref - Cardinality(Uses(Gone(vi), d))
    <2>1. Dimensions'[d] = [Dimensions[d] EXCEPT !.ref = @ - Cardinality(Uses(Gone(vi), d))]
      BY <1>4 DEF DestroyVar
    <2> QED
      BY <1>2, <2>1 DEF FONcDim
  <1> QED
    BY <1>1, <1>3, <1>4 DEF DestroyVar
LEMMA StepFinite ==
  ASSUME IInv, ObjInv, [Next]_vars
  PROVE  IsFiniteSet(DOMAIN obj')
  <1>0. IsFiniteSet(DOMAIN obj)
    BY DEF ObjInv
  <1>1. CASE (\E r \in Requests : Begin(r)) \/ Finish
    <2>1. DOMAIN obj' = {}
      BY <1>1 DEF Begin, Finish
    <2> QED
      BY <2>1, FS_EmptySet
  <1>2. CASE Keeps \/ (\E e : Pushes(e)) \/ ShareMap \/ RegisterCoordinate \/ MapDone
    BY <1>0, <1>2, PushTypes, RegisterTypes DEF Keeps, ShareMap, MapDone
  <1>3. CASE Makes(<<vi, 0>>) \/ Makes(Cur)
    BY <1>0, <1>3, FS_AddElement DEF Makes
  <1>4. CASE DestroyVar
    <2>1. DOMAIN obj' \in SUBSET DOMAIN obj
      BY <1>4 DEF DestroyVar
    <2> QED
      BY <1>0, <2>1, FS_Subset
  <1> QED
    BY <1>1, <1>2, <1>3, <1>4, Effects

LEMMA StepRegistrar ==
  ASSUME IInv, ObjInv, [Next]_vars
  PROVE  RegistrarOK'
  <1>0. /\ \A p \in DOMAIN obj : obj[p].map = 0 \/ (obj[p].map \in DOMAIN Maps /\ p[2] = 0)
        /\ pc = "dims" => obj[Cur].map = 0
    BY DEF ObjInv, RegistrarOK
  <1>1. \A p \in DOMAIN obj' : obj'[p].map = 0 \/ (obj'[p].map \in DOMAIN Maps' /\ p[2] = 0)
    <2>1. CASE (\E r \in Requests : Begin(r)) \/ Finish
      BY <2>1 DEF Begin, Finish
    <2>2. CASE Keeps \/ (\E e : Pushes(e))
      <3>1. /\ DOMAIN obj' = DOMAIN obj /\ Maps' = Maps
            /\ \A p \in DOMAIN obj : obj'[p].map = obj[p].map
        BY <2>2, PushTypes DEF Keeps, Pushes
      <3> QED
        BY <1>0, <3>1
    <2>3. CASE Makes(<<vi, 0>>) \/ Makes(Cur)
      BY <1>0, <2>3 DEF Makes
    <2>4. CASE ShareMap
      BY <1>0, <2>4, ShareTypes
    <2>5. CASE RegisterCoordinate
      <3>1. DOMAIN Maps' = DOMAIN Maps \cup {Len(Maps) + 1}
        BY <2>5, RegisterTypes, AppendMap
      <3> QED
        BY <1>0, <2>5, <3>1, RegisterTypes
    <2>6. CASE MapDone
      <3>1. DOMAIN Maps' = DOMAIN Maps \cup {Len(Maps) + 1} /\ obj' = obj
        BY <2>6, AppendMap DEF MapDone
      <3> QED
        BY <1>0, <3>1
    <2>7. CASE DestroyVar
      <3>1. /\ DOMAIN Maps' = DOMAIN Maps
            /\ \A p \in DOMAIN obj' : p \in DOMAIN obj /\ obj'[p] = obj[p]
        BY <2>7, DestroyTypes
      <3> QED
        BY <1>0, <3>1
    <2> QED
      BY <2>1, <2>2, <2>3, <2>4, <2>5, <2>6, <2>7, Effects
  <1>2. pc' = "dims" => obj'[Cur'].map = 0
    <2>1. CASE ConvertArray \/ ConvertGridArray \/ ConvertMap
      <3>1. \E p, name : obj' = Put(obj, p, NewArray(name)) /\ Cur' = p
        BY <2>1 DEF ConvertArray, ConvertGridArray, ConvertMap, StartArray, Goto, Cur
      <3> QED
        BY <3>1 DEF Put, NewArray
    <2>2. CASE ShareDim \/ NewDimension \/ ShareLength \/ NewLength
      <3>1. PICK e : Pushes(e)
        BY <2>2, PushesOne
      <3>2. pc = "dims" /\ Cur' = Cur
        BY <3>1 DEF Pushes, NextDim, Cur
      <3> QED
        BY <1>0, <3>1, <3>2, PushTypes
    <2>3. CASE UNCHANGED vars
      BY <1>0, <2>3 DEF vars, cursor, converted, Cur
    <2>4. CASE \/ SkipUnsent \/ ConvertUnknown \/ ConvertSimple \/ ConvertGrid \/ EndConvert \/ SkipMap
               \/ ShareMap \/ SkipGridArray \/ DimensionClash \/ RegisterCoordinate \/ DropCoordinate
               \/ ArrayDone \/ MapDone \/ GridArrayDone \/ (\E r \in Requests : Begin(r))
               \/ NcFails \/ LibraryThrows
      BY <2>4 DEF SkipUnsent, ConvertUnknown, ConvertSimple, ConvertGrid, EndConvert, SkipMap, ShareMap,
                  SkipGridArray, DimensionClash, RegisterCoordinate, DropCoordinate, ArrayDone, MapDone,
                  GridArrayDone, GridConverted, Begin, NcFails, LibraryThrows, ThrowAndClose, Throw, Goto
    <2>5. CASE Define \/ Write \/ Destroy
      BY <2>5 DEF Define, CreateFile, DefineScalar, DefineStr, DefineSequence, SkipDefined, DefineDim,
                  SkipDefinedDim, DefineArray, DefineNext, EndDefine, Defining, InDefine,
                  NextTarget, NextDim, Goto, Refuse, ThrowAndClose, Throw,
                  Write, WriteData, SkipWrite, WriteNext, CloseFile, Writing,
                  Destroy, DestroyVar, DestroyNext, Finish
    <2> QED
      BY <2>1, <2>2, <2>3, <2>4, <2>5 DEF Next, Step, Convert
  <1> QED
    BY <1>1, <1>2 DEF RegistrarOK

LEMMA StepObj ==
  ASSUME IInv, ObjInv, [Next]_vars
  PROVE  ObjInv'
  BY StepFinite, StepAhead, StepRegistrar DEF ObjInv
---------------------------------------------------------------------------
(* The references to dimensions.                                           *)

RefsOf(o) == [p \in DOMAIN o |-> o[p].dims]

LEMMA UsesAre ==
  ASSUME NEW P, P \subseteq DOMAIN obj, NEW d
  PROVE  Uses(P, d) = Entries(RefsOf(obj), P, d)
  <1>1. \A p \in P : RefsOf(obj)[p] = obj[p].dims
    BY DEF RefsOf
  <1>2. \A e : e \in Uses(P, d) <=> e \in Entries(RefsOf(obj), P, d)
    <2>1. \A e : e \in Uses(P, d) <=> \E p \in P : \E k \in DOMAIN obj[p].dims :
                                         obj[p].dims[k] = d /\ e = <<p, k>>
      BY DEF Uses
    <2> QED
      BY <1>1, <2>1, EntryIs
  <1> QED
    BY <1>2

LEMMA UsesAreThen ==
  ASSUME NEW d
  PROVE  Uses(DOMAIN obj, d)' = Entries(RefsOf(obj'), DOMAIN obj', d)
  <1>1. \A p \in DOMAIN obj' : RefsOf(obj')[p] = obj'[p].dims
    BY DEF RefsOf
  <1>2. \A e : e \in Uses(DOMAIN obj, d)' <=> e \in Entries(RefsOf(obj'), DOMAIN obj', d)
    <2>1. \A e : e \in Uses(DOMAIN obj, d)' <=> \E p \in DOMAIN obj' : \E k \in DOMAIN obj'[p].dims :
                                         obj'[p].dims[k] = d /\ e = <<p, k>>
      BY DEF Uses
    <2> QED
      BY <1>1, <2>1, EntryIs
  <1> QED
    BY <1>2

LEMMA RefTypes ==
  ASSUME IInv, ObjInv
  PROVE  /\ IsFiniteSet(DOMAIN obj)
         /\ \A p \in DOMAIN obj : RefsOf(obj)[p] = obj[p].dims /\ RefsOf(obj)[p] \in Seq(Nat)
         /\ \A p \in DOMAIN obj : \A k \in DOMAIN RefsOf(obj)[p] : RefsOf(obj)[p][k] \in DOMAIN Dimensions
  BY DEF IInv, TypeOK, ObjectsOK, PointersOK, FONcArray, RefsOf, ObjInv

(* Nothing but a request moves an idle process.                            *)
LEMMA IdleBegins ==
  ASSUME [Next]_vars, ~\E r \in Requests : Begin(r)
  PROVE  pc # "idle" \/ UNCHANGED vars
  BY DEF Next, Step, Convert, SkipUnsent, ConvertUnknown, ConvertSimple, ConvertArray, ConvertGrid,
         EndConvert, SkipMap, ShareMap, ConvertMap, ConvertGridArray, SkipGridArray, ShareDim,
         NewDimension, DimensionClash, ShareLength, NewLength, AtLength, RegisterCoordinate,
         DropCoordinate, ArrayDone, MapDone, GridArrayDone, DimsDone, Define, CreateFile,
         DefineScalar, DefineStr, DefineSequence, SkipDefined, DefineDim, SkipDefinedDim,
         DefineArray, DefineNext, EndDefine, Defining, InDefine, Write, WriteData, SkipWrite,
         WriteNext, CloseFile, Writing, Destroy, DestroyVar, DestroyNext, Finish, NcFails, LibraryThrows

LEMMA StepDimRefs ==
  ASSUME IInv, ObjInv, DimRefs, [Next]_vars
  PROVE  DimRefs'
  <1> DEFINE F == RefsOf(obj)
             G == RefsOf(obj')
  <1>1. CASE (\E r \in Requests : Begin(r)) \/ Finish
    BY <1>1 DEF Begin, Finish, Goto, ResetStatics, DimRefs
  <1>2. ASSUME pc # "idle", NEW d \in DOMAIN Dimensions
        PROVE  Dimensions[d].ref = Cardinality(Entries(F, DOMAIN obj, d))
    BY <1>2, UsesAre DEF DimRefs
  <1>4. CASE UNCHANGED vars
    BY <1>4 DEF vars, converted, statics, DimRefs, Uses
  <1> SUFFICES ASSUME pc # "idle", ~\E r \in Requests : Begin(r), ~Finish, NEW d \in DOMAIN Dimensions'
               PROVE  Dimensions'[d].ref = Cardinality(Entries(G, DOMAIN obj', d))
    BY <1>1, <1>4, IdleBegins, UsesAreThen DEF DimRefs
  <1>5. \A p \in DOMAIN obj' : G[p] = obj'[p].dims
    BY DEF RefsOf
  <1> HIDE DEF F, G
  <1>6. /\ IsFiniteSet(DOMAIN obj) /\ \A p \in DOMAIN obj : F[p] = obj[p].dims /\ F[p] \in Seq(Nat)
        /\ \A p \in DOMAIN obj : \A k \in DOMAIN F[p] : F[p][k] \in DOMAIN Dimensions
    BY RefTypes DEF F
  <1>7. CASE Keeps
    <2>1. /\ DOMAIN obj' = DOMAIN obj /\ \A p \in DOMAIN obj : G[p] = F[p]
          /\ d \in DOMAIN Dimensions /\ Dimensions'[d].ref = Dimensions[d].ref
      BY <1>5, <1>6, <1>7 DEF Keeps
    <2> QED
      BY <1>2, <2>1, EntriesSame
  <1>8. ASSUME NEW p, Makes(p)
        PROVE  Dimensions'[d].ref = Cardinality(Entries(G, DOMAIN obj', d))
    <2>1. /\ DOMAIN obj' = DOMAIN obj \cup {p} /\ (\A q \in DOMAIN obj : G[q] = F[q]) /\ G[p] = << >>
          /\ Dimensions' = Dimensions
      BY <1>5, <1>6, <1>8 DEF Makes
    <2> QED
      BY <1>2, <2>1, EntriesMade
  <1>9. ASSUME NEW e, Pushes(e)
        PROVE  Dimensions'[d].ref = Cardinality(Entries(G, DOMAIN obj', d))
    <2>1. /\ Cur \in DOMAIN obj /\ DOMAIN obj' = DOMAIN obj /\ G[Cur] = Append(F[Cur], e)
          /\ \A q \in DOMAIN obj \ {Cur} : G[q] = F[q]
      BY <1>5, <1>6, <1>9, PushTypes
    <2>2. /\ d = e => Cardinality(Entries(G, DOMAIN obj, d)) = Cardinality(Entries(F, DOMAIN obj, d)) + 1
          /\ d # e => Cardinality(Entries(G, DOMAIN obj, d)) = Cardinality(Entries(F, DOMAIN obj, d))
      <3> DEFINE n == Len(F[Cur]) + 1
      <3>1. F[Cur] \in Seq(Nat)
        BY <1>6, <2>1
      <3>2. /\ n \notin DOMAIN F[Cur] /\ DOMAIN G[Cur] = DOMAIN F[Cur] \cup {n} /\ G[Cur][n] = e
            /\ \A k \in DOMAIN F[Cur] : G[Cur][k] = F[Cur][k]
        BY <2>1, <3>1
      <3> HIDE DEF n
      <3>3. Longer(F, G, DOMAIN obj, Cur, n)
        BY <2>1, <3>2 DEF Longer
      <3>4. IsFiniteSet(Entries(F, DOMAIN obj, d)) /\ Cardinality(Entries(F, DOMAIN obj, d)) \in Nat
        BY <1>6, EntriesFinite
      <3> QED
        BY <3>2, <3>3, <3>4, CountPushed
    <2>3. Dimensions \in Seq(FONcDim) /\ \A c \in DOMAIN Dimensions : Dimensions[c] \in FONcDim
      BY DEF IInv, TypeOK, StaticsOK
    <2>4. CASE /\ e = Len(Dimensions) + 1
               /\ \E name, size : Dimensions' = Append(Dimensions, NewDim(name, size))
      <3>1. /\ DOMAIN Dimensions' = DOMAIN Dimensions \cup {e} /\ e \notin DOMAIN Dimensions
            /\ \A c \in DOMAIN Dimensions : Dimensions'[c] = Dimensions[c]
            /\ Dimensions'[e].ref = 1
        BY <2>3, <2>4 DEF NewDim
      <3>2. CASE d = e
        <4>1. Cardinality(Entries(F, DOMAIN obj, d)) = 0
          BY <1>6, <3>1, <3>2, EntriesNone
        <4> QED
          BY <2>1, <2>2, <3>1, <3>2, <4>1
      <3>3. CASE d # e
        <4>1. d \in DOMAIN Dimensions /\ Dimensions'[d].ref = Dimensions[d].ref /\ Dimensions[d].ref \in Int
          BY <2>3, <3>1, <3>3, CountTypes
        <4> QED
          BY <1>2, <2>1, <2>2, <3>3, <4>1
      <3> QED
        BY <3>2, <3>3
    <2>5. CASE /\ e \in DOMAIN Dimensions
               /\ \E size : Dimensions' = [Dimensions EXCEPT ![e].ref = @ + 1, ![e].size = size]
      <3>0. PICK size : Dimensions' = [Dimensions EXCEPT ![e].ref = @ + 1, ![e].size = size]
        BY <2>5
      <3>1. d \in DOMAIN Dimensions /\ Dimensions[d].ref \in Int /\ Dimensions[d] \in FONcDim
        BY <3>0, <2>3, CountTypes
      <3>2. CASE d = e
        <4> DEFINE counted == [Dimensions[d] EXCEPT !.ref = @ + 1]
        <4>1. counted.ref = Dimensions[d].ref + 1
          BY <3>1 DEF FONcDim
        <4>2. Dimensions'[d] = [counted EXCEPT !.size = size]
          BY <3>0, <3>1, <3>2
        <4> HIDE DEF counted
        <4>3. Dimensions'[d].ref = counted.ref
          BY <4>2
        <4> QED
          BY <1>2, <2>1, <2>2, <3>1, <3>2, <4>1, <4>3
      <3>3. CASE d # e
        <4>1. Dimensions'[d].ref = Dimensions[d].ref
          BY <3>0, <3>1, <3>3
        <4> QED
          BY <1>2, <2>1, <2>2, <3>1, <3>3, <4>1
      <3> QED
        BY <3>2, <3>3
    <2> QED
      BY <1>9, <2>4, <2>5 DEF Pushes
  <1>10. CASE ShareMap \/ RegisterCoordinate \/ MapDone
    <2>1. /\ DOMAIN obj' = DOMAIN obj /\ \A p \in DOMAIN obj : obj'[p].dims = obj[p].dims
          /\ Dimensions' = Dimensions
      BY <1>10, RegisterTypes DEF ShareMap, MapDone
    <2>2. \A p \in DOMAIN obj : G[p] = F[p]
      BY <1>5, <1>6, <2>1
    <2> QED
      BY <1>2, <2>1, <2>2, EntriesSame
  <1>11. CASE DestroyVar
    <2>1. /\ pc = "destroy" /\ vi \in DOMAIN req /\ d \in DOMAIN Dimensions
          /\ DOMAIN obj' = DOMAIN obj \ Gone(vi) /\ \A p \in DOMAIN obj' : obj'[p] = obj[p]
          /\ Dimensions'[d].ref = Dimensions[d].ref - Cardinality(Uses(Gone(vi), d))
      BY <1>11, DestroyTypes
    <2>2. Gone(vi) \subseteq DOMAIN obj
      BY <2>1, GoneIsAlive
    <2>3. Cardinality(Uses(Gone(vi), d)) = Cardinality(Entries(F, Gone(vi), d))
      BY <2>2, UsesAre DEF F
    <2>4. Cardinality(Entries(F, DOMAIN obj \ Gone(vi), d))
            = Cardinality(Entries(F, DOMAIN obj, d)) - Cardinality(Entries(F, Gone(vi), d))
      BY <1>6, <2>2, EntriesRemoved
    <2>5. \A p \in DOMAIN obj \ Gone(vi) : G[p] = F[p]
      BY <1>5, <1>6, <2>1
    <2>6. Entries(G, DOMAIN obj \ Gone(vi), d) = Entries(F, DOMAIN obj \ Gone(vi), d)
      BY <2>5, EntriesSame
    <2> QED
      BY <1>2, <2>1, <2>3, <2>4, <2>6
  <1> QED
    BY <1>7, <1>8, <1>9, <1>10, <1>11, Effects
---------------------------------------------------------------------------
(* The references to maps.                                                 *)

Registrars(m) == {p \in DOMAIN obj : obj[p].map = m}
MapCount(m) == Cardinality(Entries(held, DOMAIN held, m)) + Cardinality(Registrars(m))

LEMMA MapRefsAre ==
  /\ MapRefs <=> \A m \in DOMAIN Maps : pc # "idle" => Maps[m].ref = MapCount(m)
  /\ MapRefs' <=> \A m \in DOMAIN Maps' : pc' # "idle" => Maps'[m].ref = MapCount(m)'
  BY DEF MapRefs, MapCount, Holders, Entries, Registrars

LEMMA HeldTypes ==
  ASSUME IInv
  PROVE  /\ DOMAIN held = DOMAIN req /\ IsFiniteSet(DOMAIN held)
         /\ \A i \in DOMAIN held : held[i] \in Seq(Nat)
         /\ \A i \in DOMAIN held : \A k \in DOMAIN held[i] : held[i][k] \in DOMAIN Maps
         /\ 0 \notin DOMAIN Maps
  <1>1. /\ held \in Seq(Seq(Nat)) /\ Len(held) = Len(req) /\ req \in Seq(Var) /\ Maps \in Seq(FONcMap)
        /\ \A i \in DOMAIN held : \A k \in DOMAIN held[i] : held[i][k] \in DOMAIN Maps
    BY DEF IInv, TypeOK, HeldOK, ControlOK, PointersOK, StaticsOK
  <1>2. DOMAIN held = 1..Len(held) /\ Len(held) \in Nat
    BY <1>1
  <1>3. IsFiniteSet(1..Len(held))
    BY <1>2, FS_Interval
  <1> QED
    BY <1>1, <1>2, <1>3

LEMMA CountsFinite ==
  ASSUME IInv, ObjInv, NEW m
  PROVE  /\ IsFiniteSet(Entries(held, DOMAIN held, m)) /\ Cardinality(Entries(held, DOMAIN held, m)) \in Nat
         /\ IsFiniteSet(Registrars(m)) /\ Cardinality(Registrars(m)) \in Nat
  <1>1. IsFiniteSet(Entries(held, DOMAIN held, m)) /\ Cardinality(Entries(held, DOMAIN held, m)) \in Nat
    BY HeldTypes, EntriesFinite
  <1>2. Registrars(m) \in SUBSET DOMAIN obj /\ IsFiniteSet(DOMAIN obj)
    BY DEF Registrars, ObjInv
  <1> QED
    BY <1>1, <1>2, FS_Subset, FS_CardinalityType

(* A grid takes a reference to a map.                                      *)
LEMMA HoldCount ==
  ASSUME IInv, ObjInv, vi \in DOMAIN held, NEW m, Hold(m), UNCHANGED obj, NEW x
  PROVE  /\ x = m => MapCount(x)' = MapCount(x) + 1
         /\ x # m => MapCount(x)' = MapCount(x)
  <1> DEFINE n == Len(held[vi]) + 1
  <1>1. held[vi] \in Seq(Nat)
    BY HeldTypes
  <1>2. held' = [held EXCEPT ![vi] = Append(held[vi], m)]
    BY DEF Hold
  <1>3. /\ n \notin DOMAIN held[vi] /\ DOMAIN Append(held[vi], m) = DOMAIN held[vi] \cup {n}
        /\ Append(held[vi], m)[n] = m
        /\ \A k \in DOMAIN held[vi] : Append(held[vi], m)[k] = held[vi][k]
    BY <1>1
  <1> HIDE DEF n
  <1>4. /\ DOMAIN held' = DOMAIN held /\ held'[vi] = Append(held[vi], m)
        /\ \A i \in DOMAIN held : i # vi => held'[i] = held[i]
    BY <1>2
  <1>5. Longer(held, held', DOMAIN held, vi, n) /\ held'[vi][n] = m
    BY <1>3, <1>4 DEF Longer
  <1>6. /\ m = x => Cardinality(Entries(held', DOMAIN held', x)) = Cardinality(Entries(held, DOMAIN held, x)) + 1
        /\ m # x => Cardinality(Entries(held', DOMAIN held', x)) = Cardinality(Entries(held, DOMAIN held, x))
    <2>1. IsFiniteSet(Entries(held, DOMAIN held, x)) /\ Cardinality(Entries(held, DOMAIN held, x)) \in Nat
      BY CountsFinite
    <2>2. Longer(held, held', DOMAIN held, vi, n)
      BY <1>5
    <2>3. /\ held'[vi][n] = x => Cardinality(Entries(held', DOMAIN held, x)) = Cardinality(Entries(held, DOMAIN held, x)) + 1
          /\ held'[vi][n] # x => Cardinality(Entries(held', DOMAIN held, x)) = Cardinality(Entries(held, DOMAIN held, x))
      BY <2>1, <2>2, CountPushed
    <2> QED
      BY <1>4, <1>5, <2>3
  <1>7. Registrars(x)' = Registrars(x)
    BY DEF Registrars
  <1> QED
    BY <1>6, <1>7, CountsFinite DEF MapCount

(* Variable i lets go of what it refers to.                                *)
LEMMA LetGoCount ==
  ASSUME IInv, ObjInv, DestroyVar, NEW m, m \in DOMAIN Maps
  PROVE  MapCount(m)' = MapCount(m) - Times(vi, m)
  <1>1. /\ pc = "destroy" /\ vi \in DOMAIN held
        /\ obj' = [p \in DOMAIN obj \ Gone(vi) |-> obj[p]] /\ held' = [held EXCEPT ![vi] = << >>]
    BY DestroyTypes
  <1>2. Gone(vi) \subseteq DOMAIN obj
    BY <1>1, HeldTypes, GoneIsAlive
  <1>3. Cardinality(Entries(held', DOMAIN held', m))
          = Cardinality(Entries(held, DOMAIN held, m))
            - Cardinality({k \in DOMAIN held[vi] : held[vi][k] = m})
    <2>1. /\ DOMAIN held' = (DOMAIN held \ {vi}) \cup {vi} /\ held'[vi] = << >>
          /\ \A i \in DOMAIN held \ {vi} : held'[i] = held[i]
      BY <1>1
    <2>2. Entries(held', DOMAIN held', m) = Entries(held, DOMAIN held \ {vi}, m)
      BY <2>1, EntriesMade
    <2>3. {vi} \subseteq DOMAIN held
      BY <1>1
    <2>4. Cardinality(Entries(held, DOMAIN held \ {vi}, m))
            = Cardinality(Entries(held, DOMAIN held, m)) - Cardinality(Entries(held, {vi}, m))
      BY <2>3, HeldTypes, EntriesRemoved
    <2>5. Cardinality(Entries(held, {vi}, m)) = Cardinality({k \in DOMAIN held[vi] : held[vi][k] = m})
      BY <1>1, HeldTypes, EntriesOfOne
    <2> QED
      BY <2>2, <2>4, <2>5
  <1>4. Cardinality(Registrars(m)')
          = Cardinality(Registrars(m)) - Cardinality({p \in Own(vi) : obj[p].map = m})
    <2> DEFINE mine == {p \in Own(vi) : obj[p].map = m}
    <2>1. \A p \in DOMAIN obj : obj[p].map = m => p[2] = 0
      BY HeldTypes DEF ObjInv, RegistrarOK
    <2>2. \A p \in Gone(vi) : p \in Own(vi) \/ p[2] # 0
      <3> SUFFICES ASSUME NEW k \in Dying(vi) PROVE Maps[k].arr[2] # 0
        BY DEF Gone
      <3>1. k \in DOMAIN Maps /\ Maps[k].ingrid
        BY DEF Dying
      <3>2. Maps[k].arr[2] > 0 /\ Maps[k].arr[2] \in Nat
        BY <3>1, ControlTypes DEF IInv, OwnersOK
      <3> QED
        BY <3>2
    <2>3. Own(vi) \subseteq Gone(vi) /\ Own(vi) \subseteq DOMAIN obj
      BY DEF Gone, Own
    <2>4. Registrars(m)' = Registrars(m) \ mine
      BY <1>1, <1>2, <2>1, <2>2, <2>3 DEF Registrars
    <2>5. mine \subseteq Registrars(m)
      BY <2>3 DEF Registrars
    <2> QED
      BY <2>4, <2>5, CountsFinite, CountLess
  <1>5. /\ Cardinality({k \in DOMAIN held[vi] : held[vi][k] = m}) \in Nat
        /\ Cardinality({p \in Own(vi) : obj[p].map = m}) \in Nat
    <2>1. {k \in DOMAIN held[vi] : held[vi][k] = m} \in SUBSET DOMAIN held[vi]
      OBVIOUS
    <2>2. IsFiniteSet(DOMAIN held[vi])
      <3>1. held[vi] \in Seq(Nat)
        BY <1>1, HeldTypes
      <3>2. DOMAIN held[vi] = 1..Len(held[vi]) /\ Len(held[vi]) \in Nat
        BY <3>1
      <3> QED
        BY <3>2, FS_Interval
    <2>3. {p \in Own(vi) : obj[p].map = m} \in SUBSET {<<vi, 0>>}
      BY DEF Own
    <2> QED
      BY <2>1, <2>2, <2>3, FS_Singleton, FS_Subset, FS_CardinalityType
  <1> QED
    BY <1>3, <1>4, <1>5, CountsFinite DEF MapCount, Times

LEMMA StepMapRefs ==
  ASSUME IInv, ObjInv, MapRefs, [Next]_vars
  PROVE  MapRefs'
  <1>1. CASE (\E r \in Requests : Begin(r)) \/ Finish
    BY <1>1 DEF Begin, Finish, Goto, ResetStatics, MapRefs
  <1>2. CASE UNCHANGED vars
    BY <1>2 DEF vars, converted, statics, MapRefs, Holders
  <1> SUFFICES ASSUME pc # "idle", ~\E r \in Requests : Begin(r), ~Finish, NEW m \in DOMAIN Maps'
               PROVE  Maps'[m].ref = MapCount(m)'
    BY <1>1, <1>2, IdleBegins, MapRefsAre
  <1>3. \A n \in DOMAIN Maps : Maps[n].ref = MapCount(n)
    BY MapRefsAre
  <1>4. CASE Keeps \/ (\E e : Pushes(e)) \/ Makes(<<vi, 0>>) \/ Makes(Cur)
    <2>1. UNCHANGED <<held, Maps>>
      BY <1>4 DEF Keeps, Pushes, Makes
    <2>2. Registrars(m)' = Registrars(m)
      <3>1. CASE Keeps \/ \E e : Pushes(e)
        <4>1. DOMAIN obj' = DOMAIN obj /\ \A p \in DOMAIN obj : obj'[p].map = obj[p].map
          BY <3>1, PushTypes DEF Keeps
        <4> QED
          BY <4>1 DEF Registrars
      <3>2. ASSUME NEW p, Makes(p)
            PROVE  Registrars(m)' = Registrars(m)
        BY <3>2, HeldTypes DEF Makes, Registrars
      <3> QED
        BY <1>4, <3>1, <3>2
    <2>3. MapCount(m)' = MapCount(m)
      BY <2>1, <2>2 DEF MapCount
    <2> QED
      BY <1>3, <2>1, <2>3
  <1>5. CASE ShareMap
    <2>1. PICK n \in DOMAIN Maps :
           /\ vi \in DOMAIN held /\ Hold(n) /\ UNCHANGED obj
           /\ DOMAIN Maps' = DOMAIN Maps /\ Maps'[n].ref = Maps[n].ref + 1
           /\ \A k \in DOMAIN Maps : k # n => Maps'[k] = Maps[k]
      BY <1>5, ShareTypes
    <2> QED
      BY <1>3, <2>1, HoldCount
  <1>6. CASE RegisterCoordinate
    <2>1. /\ DOMAIN Maps' = DOMAIN Maps \cup {Len(Maps) + 1} /\ Len(Maps) + 1 \notin DOMAIN Maps
          /\ \A k \in DOMAIN Maps : Maps'[k] = Maps[k]
          /\ Maps'[Len(Maps) + 1] = NewMap(Cur, FALSE) /\ NewMap(Cur, FALSE).ref = 1
      BY <1>6, RegisterTypes, AppendMap DEF NewMap
    <2>2. /\ Cur \in DOMAIN obj /\ DOMAIN obj' = DOMAIN obj /\ obj'[Cur].map = Len(Maps) + 1
          /\ \A p \in DOMAIN obj : p # Cur => obj'[p].map = obj[p].map
          /\ held' = held /\ obj[Cur].map = 0
      BY <1>6, RegisterTypes DEF RegisterCoordinate, DimsDone, ObjInv, RegistrarOK
    <2>3. CASE m \in DOMAIN Maps
      <3>1. m # 0 /\ m # Len(Maps) + 1
        BY <2>1, <2>3, HeldTypes
      <3>2. Registrars(m)' = Registrars(m)
        BY <2>2, <3>1 DEF Registrars
      <3>3. MapCount(m)' = MapCount(m)
        BY <2>2, <3>2 DEF MapCount
      <3> QED
        BY <1>3, <2>1, <2>3, <3>3
    <2>4. CASE m = Len(Maps) + 1
      <3>1. \A p \in DOMAIN obj : obj[p].map # m
        BY <2>1, <2>4, AppendMap, RegisterTypes, <1>6 DEF ObjInv, RegistrarOK
      <3>2. Registrars(m)' = {Cur}
        BY <2>2, <2>4, <3>1 DEF Registrars
      <3>3. \A i \in DOMAIN held : \A k \in DOMAIN held[i] : held[i][k] # m
        BY <2>1, <2>4, HeldTypes
      <3>4. Cardinality(Entries(held, DOMAIN held, m)) = 0
        BY <3>3, EntriesNone
      <3>5. Cardinality({Cur}) = 1
        BY FS_Singleton
      <3>6. MapCount(m)' = Cardinality(Entries(held, DOMAIN held, m)) + Cardinality(Registrars(m)')
        BY <2>2 DEF MapCount
      <3>7. MapCount(m)' = 1
        BY <3>2, <3>4, <3>5, <3>6
      <3> QED
        BY <2>1, <2>4, <3>7
    <2> QED
      BY <2>1, <2>3, <2>4
  <1>7. CASE MapDone
    <2>1. /\ DOMAIN Maps' = DOMAIN Maps \cup {Len(Maps) + 1} /\ Len(Maps) + 1 \notin DOMAIN Maps
          /\ \A k \in DOMAIN Maps : Maps'[k] = Maps[k]
          /\ Maps'[Len(Maps) + 1] = NewMap(Cur, TRUE) /\ NewMap(Cur, TRUE).ref = 1
          /\ Len(Maps) + 1 # 0
      BY <1>7, AppendMap DEF MapDone, NewMap
    <2>2. Hold(Len(Maps) + 1) /\ obj' = obj /\ vi \in DOMAIN held
      BY <1>7, CurTypes, HeldTypes DEF MapDone, DimsDone, IInv, KeysOK, ValidKey, Cur
    <2>3. CASE m \in DOMAIN Maps
      <3>1. MapCount(m)' = MapCount(m)
        BY <2>1, <2>2, <2>3, HoldCount
      <3> QED
        BY <1>3, <2>1, <2>3, <3>1
    <2>4. CASE m = Len(Maps) + 1
      <3>1. MapCount(m)' = MapCount(m) + 1
        BY <2>2, <2>4, HoldCount
      <3>2. \A i \in DOMAIN held : \A k \in DOMAIN held[i] : held[i][k] # m
        BY <2>1, <2>4, HeldTypes
      <3>3. Cardinality(Entries(held, DOMAIN held, m)) = 0
        BY <3>2, EntriesNone
      <3>4. Registrars(m) = {}
        BY <2>1, <2>4 DEF ObjInv, RegistrarOK, Registrars
      <3>5. Cardinality(Registrars(m)) = 0
        BY <3>4, FS_EmptySet
      <3>6. MapCount(m) = 0
        BY <3>3, <3>5 DEF MapCount
      <3>7. MapCount(m)' = 1
        BY <3>1, <3>6
      <3> QED
        BY <2>1, <2>4, <3>7
    <2> QED
      BY <2>1, <2>3, <2>4
  <1>8. CASE DestroyVar
    <2>1. m \in DOMAIN Maps /\ Maps'[m].ref = Maps[m].ref - Times(vi, m)
      BY <1>8, DestroyTypes
    <2> QED
      BY <1>3, <1>8, <2>1, LetGoCount
  <1> QED
    BY <1>4, <1>5, <1>6, <1>7, <1>8, Effects

---------------------------------------------------------------------------
(* The theorems about the counts.                                          *)

(* There are finitely many objects, only the variables up to vi have any,  *)
(* and the map that a coordinate array points at is the one it registered. *)
THEOREM ObjectsKnown == Spec => []ObjInv
  <1>1. Init => ObjInv
    BY FS_EmptySet DEF Init, ObjInv, AheadOK, RegistrarOK
  <1>2. IInv /\ ObjInv /\ [Next]_vars => ObjInv'
    BY StepObj
  <1> QED
    BY <1>1, <1>2, Invariance, PTL DEF Spec

(* The count of a dimension is the number of pointers to it from arrays    *)
(* that are alive: FONcDim::decref deletes it with the last of them.       *)
THEOREM DimsCounted == Spec => []DimRefs
  <1>1. Init => DimRefs
    BY DEF Init, DimRefs
  <1>2. IInv /\ ObjInv /\ DimRefs /\ [Next]_vars => DimRefs'
    BY StepDimRefs
  <1> QED
    BY <1>1, <1>2, Invariance, ObjectsKnown, PTL DEF Spec

(* The count of a map is the number of times that grids hold it, and one   *)
(* for the coordinate array that registered it, as long as it lives.       *)
THEOREM MapsAreCounted == Spec => []MapRefs
  <1>1. Init => MapRefs
    BY DEF Init, MapRefs
  <1>2. IInv /\ ObjInv /\ MapRefs /\ [Next]_vars => MapRefs'
    BY StepMapRefs
  <1> QED
    BY <1>1, <1>2, Invariance, ObjectsKnown, PTL DEF Spec

---------------------------------------------------------------------------
(* What is left of a request.                                              *)

(* A variable that is not converted, or destroyed again, has no object of  *)
(* its own and holds no maps.                                              *)
UnmadeOK ==
  /\ \A i \in DOMAIN req : i \notin made => <<i, 0>> \notin DOMAIN obj /\ held[i] = << >>
  /\ pc \in {"maps", "dims"} => vi \in made
DoneOK == pc = "destroy" => \A i \in DOMAIN req : i < vi => i \notin made

(* The array of a grid's map that no registered map in use points at: it   *)
(* is being converted, or was when the request was given up.               *)
Orphan(p) ==
  p[2] > 0 /\ \A m \in DOMAIN Maps : ~(Maps[m].arr = p /\ Maps[m].ingrid /\ Maps[m].ref > 0)
OrphanOK ==
  \A p \in DOMAIN obj : Orphan(p) =>
     \/ pc = "dims" /\ p = Cur
     \/ /\ pc = "destroy" /\ status # "ok" /\ obj[p].varid = 0
        /\ \A q \in DOMAIN obj : Orphan(q) => q = p

(* The ids of variables come with the define mode.                         *)
VaridOK ==
  pc \in {"convert", "maps", "dims"} => \A p \in DOMAIN obj : obj[p].varid = 0

EndInv == UnmadeOK /\ DoneOK /\ OrphanOK /\ VaridOK

(* The request is the same until it is over.                               *)
LEMMA SameRequest ==
  ASSUME [Next]_vars, ~\E r \in Requests : Begin(r), ~Finish
  PROVE  req' = req
  <1>1. CASE Convert
    BY <1>1 DEF Convert, SkipUnsent, ConvertUnknown, ConvertSimple, ConvertArray, ConvertGrid, EndConvert,
                SkipMap, ShareMap, ConvertMap, ConvertGridArray, SkipGridArray, ShareDim, NewDimension,
                DimensionClash, ShareLength, NewLength, RegisterCoordinate, DropCoordinate, ArrayDone,
                MapDone, GridArrayDone
  <1>2. CASE Define
    BY <1>2 DEF Define, CreateFile, DefineScalar, DefineStr, DefineSequence, SkipDefined, DefineDim,
                SkipDefinedDim, DefineArray, DefineNext, EndDefine
  <1>3. CASE Write \/ DestroyVar \/ DestroyNext \/ NcFails \/ LibraryThrows \/ UNCHANGED vars
    BY <1>3 DEF Write, WriteData, SkipWrite, WriteNext, CloseFile, DestroyVar, DestroyNext, NcFails,
                LibraryThrows, vars
  <1> QED
    BY <1>1, <1>2, <1>3 DEF Next, Step, Destroy

(* The phases in which the conversion's actions and the others happen.     *)
LEMMA WhenConvert ==
  ASSUME Convert
  PROVE  pc \in {"convert", "maps", "dims"}
  BY DEF Convert, SkipUnsent, ConvertUnknown, ConvertSimple, ConvertArray, ConvertGrid, EndConvert,
         SkipMap, ShareMap, ConvertMap, ConvertGridArray, SkipGridArray, ShareDim, NewDimension,
         DimensionClash, ShareLength, NewLength, AtLength, RegisterCoordinate, DropCoordinate, ArrayDone,
         MapDone, GridArrayDone, DimsDone

LEMMA WhenDefine ==
  ASSUME Define
  PROVE  /\ pc \in {"create", "define"} /\ made' = made /\ held' = held /\ Maps' = Maps
         /\ DOMAIN obj' = DOMAIN obj
         /\ pc' \in {"define", "write"} \/ (pc' = "destroy" /\ vi' = 1 /\ status' = "conflict")
  <1>1. CASE CreateFile \/ DefineSequence \/ SkipDefined \/ SkipDefinedDim \/ DefineNext \/ EndDefine
    BY <1>1 DEF CreateFile, DefineSequence, SkipDefined, SkipDefinedDim, DefineNext, EndDefine,
                converted, statics, Goto, NextTarget, NextDim, Defining, InDefine
  <1>2. CASE DefineScalar \/ DefineStr \/ DefineArray
    BY <1>2 DEF DefineScalar, DefineStr, DefineArray, DefVar, statics, Defining, InDefine,
                Refuse, ThrowAndClose, Throw, NextTarget, Goto
  <1>3. CASE DefineDim
    BY <1>3 DEF DefineDim, converted, Refuse, ThrowAndClose, Throw, NextDim, Defining, InDefine
  <1> QED
    BY <1>1, <1>2, <1>3 DEF Define

LEMMA WhenOther ==
  ASSUME Write \/ DestroyNext \/ NcFails \/ LibraryThrows
  PROVE  /\ made' = made /\ held' = held /\ Maps' = Maps /\ obj' = obj
         /\ \/ pc = "write" /\ (pc' = "write" \/ (pc' = "destroy" /\ vi' = 1))
            \/ pc = "destroy" /\ DestroyNext
            \/ NcFails \/ LibraryThrows
  <1>1. CASE Write
    BY <1>1 DEF Write, WriteData, SkipWrite, WriteNext, CloseFile, Writing, converted, statics, Goto
  <1>2. CASE DestroyNext \/ NcFails \/ LibraryThrows
    BY <1>2 DEF DestroyNext, NcFails, LibraryThrows, converted, statics
  <1> QED
    BY <1>1, <1>2

LEMMA StepDone ==
  ASSUME IInv, ObjInv, DoneOK, [Next]_vars
  PROVE  DoneOK'
  <1>0. vi \in Nat \ {0} /\ DOMAIN req = 1..Len(req) /\ Len(req) \in Nat
    BY ControlTypes
  <1>1. CASE (\E r \in Requests : Begin(r)) \/ Finish
    BY <1>1 DEF Begin, Finish, Goto, DoneOK
  <1>2. CASE UNCHANGED vars
    BY <1>2 DEF vars, cursor, converted, DoneOK
  <1> SUFFICES ASSUME ~\E r \in Requests : Begin(r), ~Finish, pc' = "destroy",
                      NEW i \in DOMAIN req, i < vi'
               PROVE  i \notin made'
    BY <1>1, <1>2, SameRequest DEF DoneOK
  <1>3. CASE vi' = 1
    BY <1>0, <1>3
  <1>4. CASE Convert
    <2>1. pc' # "destroy" \/ vi' = 1
      BY <1>4 DEF Convert, SkipUnsent, ConvertUnknown, ConvertSimple, ConvertArray, ConvertGrid, EndConvert,
                  SkipMap, ShareMap, ConvertMap, ConvertGridArray, SkipGridArray, StartArray,
                  ShareDim, NewDimension, DimensionClash, ShareLength, NewLength, AtLength, NextDim,
                  RegisterCoordinate, DropCoordinate, ArrayDone, MapDone, GridArrayDone, GridConverted,
                  Throw, Goto
    <2> QED
      BY <1>3, <2>1
  <1>5. CASE Define
    BY <1>3, <1>5, WhenDefine
  <1>6. CASE NcFails \/ LibraryThrows
    BY <1>3, <1>6 DEF NcFails, LibraryThrows, ThrowAndClose, Throw
  <1>7. CASE Write
    <2>1. vi' = 1
      BY <1>7, WhenOther DEF NcFails, LibraryThrows, DestroyNext, Write, WriteData, SkipWrite, WriteNext,
                             CloseFile, Writing, Goto
    <2> QED
      BY <1>3, <2>1
  <1>8. CASE DestroyVar
    <2>1. pc = "destroy" /\ vi' = vi + 1 /\ made' = made \ {vi}
      BY <1>8 DEF DestroyVar, Goto
    <2> QED
      BY <1>0, <2>1 DEF DoneOK
  <1>9. CASE DestroyNext
    <2>1. pc = "destroy" /\ vi' = vi + 1 /\ made' = made /\ vi \notin made
      BY <1>9 DEF DestroyNext, Goto, converted
    <2> QED
      BY <1>0, <2>1 DEF DoneOK
  <1>10. CASE UNCHANGED vars
    BY <1>10 DEF vars, cursor, converted, DoneOK
  <1> QED
    BY <1>4, <1>5, <1>6, <1>7, <1>8, <1>9, <1>10 DEF Next, Step, Destroy

LEMMA StepUnmade ==
  ASSUME IInv, ObjInv, UnmadeOK, [Next]_vars
  PROVE  UnmadeOK'
  <1>0. /\ vi \in Nat \ {0} /\ DOMAIN held = DOMAIN req
        /\ \A i \in DOMAIN req : i \notin made => <<i, 0>> \notin DOMAIN obj /\ held[i] = << >>
        /\ pc \in {"maps", "dims"} => vi \in made
    BY ControlTypes, HeldTypes DEF UnmadeOK
  <1>1. CASE (\E r \in Requests : Begin(r)) \/ Finish
    BY <1>1 DEF Begin, Finish, Goto, UnmadeOK
  <1>2. CASE UNCHANGED <<made, held, pc, vi>> /\ DOMAIN obj' = DOMAIN obj /\ req' = req
    BY <1>0, <1>2 DEF UnmadeOK
  <1>3. CASE UNCHANGED <<made, held>> /\ DOMAIN obj' = DOMAIN obj /\ req' = req /\ pc' \notin {"maps", "dims"}
    BY <1>0, <1>3 DEF UnmadeOK
  <1>4. CASE SkipUnsent \/ ConvertUnknown \/ EndConvert \/ SkipGridArray \/ ArrayDone \/ GridArrayDone
             \/ DimensionClash \/ DropCoordinate \/ RegisterCoordinate
    <2>1. /\ UNCHANGED <<made, held>> /\ DOMAIN obj' = DOMAIN obj /\ req' = req
          /\ pc' \notin {"maps", "dims"}
      BY <1>4 DEF SkipUnsent, ConvertUnknown, EndConvert, SkipGridArray, ArrayDone, GridArrayDone,
                  DimensionClash, DropCoordinate, RegisterCoordinate, GridConverted, Throw, Goto, converted
    <2> QED
      BY <1>3, <2>1
  <1>5. CASE ConvertSimple \/ ConvertArray \/ ConvertGrid
    <2>1. /\ made' = made \cup {vi} /\ held' = held /\ req' = req
          /\ DOMAIN obj' \subseteq DOMAIN obj \cup {<<vi, 0>>}
          /\ pc' \in {"maps", "dims"} => vi' = vi
      BY <1>5 DEF ConvertSimple, ConvertArray, ConvertGrid, StartArray, Put, Goto
    <2> QED
      BY <1>0, <2>1 DEF UnmadeOK
  <1>6. CASE SkipMap
    <2>1. UNCHANGED <<made, held, pc, vi, obj, req>>
      BY <1>6 DEF SkipMap, Goto, converted
    <2> QED
      BY <1>2, <2>1
  <1>7. CASE ConvertMap \/ ConvertGridArray
    <2>1. /\ pc = "maps" /\ pc' = "dims" /\ vi' = vi /\ UNCHANGED <<made, held, req>>
          /\ DOMAIN obj' = DOMAIN obj \cup {<<vi, 0>>} \/ DOMAIN obj' = DOMAIN obj \cup {<<vi, mi>>}
      BY <1>7 DEF ConvertMap, ConvertGridArray, StartArray, Put, Goto, Cur
    <2> QED
      BY <1>0, <2>1 DEF UnmadeOK
  <1>8. CASE ShareMap \/ MapDone
    <2>1. /\ pc \in {"maps", "dims"} /\ pc' = "maps" /\ vi' = vi /\ UNCHANGED <<made, obj, req>>
          /\ \E m : Hold(m)
      BY <1>8 DEF ShareMap, MapDone, DimsDone, Goto
    <2>2. \A i \in DOMAIN held : i # vi => held'[i] = held[i]
      BY <2>1 DEF Hold
    <2> QED
      BY <1>0, <2>1, <2>2 DEF UnmadeOK
  <1>9. CASE ShareDim \/ NewDimension \/ ShareLength \/ NewLength
    <2>1. UNCHANGED <<made, held, pc, vi, req>> /\ DOMAIN obj' = DOMAIN obj
      <3>1. UNCHANGED made
        BY <1>9 DEF ShareDim, NewDimension, ShareLength, NewLength
      <3>2. PICK e : Pushes(e)
        BY <1>9, PushesOne
      <3> QED
        BY <3>1, <3>2, PushTypes DEF Pushes, NextDim
    <2> QED
      BY <1>2, <2>1
  <1>10. CASE Define
    <2>1. /\ UNCHANGED <<made, held>> /\ DOMAIN obj' = DOMAIN obj /\ pc' \notin {"maps", "dims"}
      BY <1>10, WhenDefine
    <2> QED
      BY <1>1, <1>3, <2>1, SameRequest
  <1>11. CASE Write \/ DestroyNext \/ NcFails \/ LibraryThrows
    <2>1. UNCHANGED <<made, held, obj>>
      BY <1>11, WhenOther
    <2>2. pc' \notin {"maps", "dims"}
      BY <1>11 DEF Write, WriteData, SkipWrite, WriteNext, CloseFile, Writing, DestroyNext, NcFails,
                   LibraryThrows, ThrowAndClose, Throw, Goto
    <2> QED
      BY <1>1, <1>3, <2>1, <2>2, SameRequest
  <1>12. CASE DestroyVar
    <2>1. /\ made' = made \ {vi} /\ held' = [held EXCEPT ![vi] = << >>] /\ pc' = "destroy" /\ req' = req
          /\ DOMAIN obj' = DOMAIN obj \ Gone(vi) /\ vi \in DOMAIN held
      BY <1>12, DestroyTypes DEF DestroyVar, Goto
    <2>2. <<vi, 0>> \notin DOMAIN obj'
      BY <2>1 DEF Gone, Own
    <2>3. \A i \in DOMAIN held : i # vi => held'[i] = held[i]
      BY <2>1
    <2>4. held'[vi] = << >>
      BY <2>1
    <2> QED
      BY <1>0, <2>1, <2>2, <2>3, <2>4 DEF UnmadeOK
  <1>13. CASE UNCHANGED vars
    BY <1>13, <1>2 DEF vars, cursor, converted
  <1> QED
    BY <1>1, <1>4, <1>5, <1>6, <1>7, <1>8, <1>9, <1>10, <1>11, <1>12, <1>13, Zenon
    DEF Next, Step, Destroy, Convert

LEMMA StepVarid ==
  ASSUME IInv, ObjInv, VaridOK, [Next]_vars
  PROVE  VaridOK'
  <1>0. \A p \in DOMAIN obj : obj[p] \in FONcArray
    BY DEF IInv, TypeOK, ObjectsOK
  <1>1. CASE \E r \in Requests : Begin(r)
    BY <1>1 DEF Begin, VaridOK
  <1>2. CASE UNCHANGED vars
    BY <1>2 DEF vars, converted, VaridOK
  <1>3. CASE pc' \notin {"convert", "maps", "dims"}
    BY <1>3 DEF VaridOK
  <1>4. CASE \/ SkipUnsent \/ ConvertUnknown \/ ConvertGrid \/ EndConvert \/ SkipMap \/ SkipGridArray
             \/ DimensionClash \/ ArrayDone \/ GridArrayDone \/ ShareMap \/ MapDone
    <2>1. obj' = obj
      BY <1>4, QuietKeeps DEF ShareMap, MapDone
    <2> QED
      BY <1>4, <2>1, WhenConvert DEF VaridOK, Convert
  <1>5. CASE ConvertSimple \/ ConvertArray \/ ConvertMap \/ ConvertGridArray
    <2>1. PICK p, name : obj' = Put(obj, p, NewArray(name))
      BY <1>5 DEF ConvertSimple, ConvertArray, ConvertMap, ConvertGridArray, StartArray
    <2>2. \A q \in DOMAIN obj' : obj'[q] = NewArray(name) \/ (q \in DOMAIN obj /\ obj'[q] = obj[q])
      BY <2>1 DEF Put
    <2>3. NewArray(name).varid = 0
      BY DEF NewArray
    <2> QED
      BY <1>5, <2>2, <2>3, WhenConvert DEF VaridOK, Convert
  <1>6. CASE ShareDim \/ NewDimension \/ ShareLength \/ NewLength
    <2>1. PICK e : Pushes(e)
      BY <1>6, PushesOne
    <2>2. pc = "dims" /\ obj' = [obj EXCEPT ![Cur].dims = Append(@, e)]
      BY <2>1 DEF Pushes, PushDim
    <2>3. \A q \in DOMAIN obj : obj'[q].varid = obj[q].varid
      BY <1>0, <2>2 DEF FONcArray
    <2> QED
      BY <2>2, <2>3 DEF VaridOK
  <1>7. CASE RegisterCoordinate \/ DropCoordinate
    <2>1. /\ pc = "dims"
          /\ \/ obj' = [obj EXCEPT ![Cur].map = Len(Maps) + 1]
             \/ obj' = [obj EXCEPT ![Cur].dontUse = TRUE]
      BY <1>7 DEF RegisterCoordinate, DropCoordinate, DimsDone
    <2>2. CASE obj' = [obj EXCEPT ![Cur].map = Len(Maps) + 1]
      <3>1. \A q \in DOMAIN obj : obj'[q].varid = obj[q].varid
        BY <1>0, <2>2 DEF FONcArray
      <3> QED
        BY <2>1, <2>2, <3>1 DEF VaridOK
    <2>3. CASE obj' = [obj EXCEPT ![Cur].dontUse = TRUE]
      <3>1. \A q \in DOMAIN obj : obj'[q].varid = obj[q].varid
        BY <1>0, <2>3 DEF FONcArray
      <3> QED
        BY <2>1, <2>3, <3>1 DEF VaridOK
    <2> QED
      BY <2>1, <2>2, <2>3
  <1>8. CASE Define \/ Write \/ Destroy \/ NcFails \/ LibraryThrows
    <2>1. pc' \notin {"convert", "maps", "dims"}
      BY <1>8, WhenDefine DEF Write, WriteData, SkipWrite, WriteNext, CloseFile, Writing, Destroy,
         DestroyVar, DestroyNext, Finish, NcFails, LibraryThrows, ThrowAndClose, Throw, Goto
    <2> QED
      BY <1>3, <2>1
  <1> QED
    BY <1>1, <1>2, <1>4, <1>5, <1>6, <1>7, <1>8, Zenon DEF Next, Step, Convert

(* The registered maps stay, and in use, until what holds them is gone.    *)
LEMMA MapsStay ==
  ASSUME IInv, ObjInv, [Next]_vars, ~\E r \in Requests : Begin(r), ~Finish, ~DestroyVar
  PROVE  \A m \in DOMAIN Maps :
           /\ m \in DOMAIN Maps' /\ Maps'[m].arr = Maps[m].arr /\ Maps'[m].ingrid = Maps[m].ingrid
           /\ Maps[m].ref > 0 => Maps'[m].ref > 0
  <1>0. \A m \in DOMAIN Maps : Maps[m] \in FONcMap
    BY DEF IInv, TypeOK, StaticsOK
  <1>1. \A m \in DOMAIN Maps : Maps[m].ref \in Int
    BY <1>0 DEF FONcMap
  <1>2. CASE Maps' = Maps
    BY <1>2
  <1>3. CASE ShareMap
    <2>1. PICK n \in DOMAIN Maps :
            /\ DOMAIN Maps' = DOMAIN Maps /\ Maps'[n].ref = Maps[n].ref + 1
            /\ \A k \in DOMAIN Maps : k # n => Maps'[k] = Maps[k]
            /\ \A k \in DOMAIN Maps : Maps'[k].arr = Maps[k].arr /\ Maps'[k].ingrid = Maps[k].ingrid
      BY <1>3, ShareTypes
    <2> QED
      BY <1>1, <2>1
  <1>4. CASE RegisterCoordinate \/ MapDone
    <2>1. \E p, ingrid : Maps' = Append(Maps, NewMap(p, ingrid))
      BY <1>4 DEF RegisterCoordinate, MapDone
    <2> QED
      BY <2>1, AppendMap
  <1> QED
    BY <1>2, <1>3, <1>4, Effects DEF Keeps, Makes, Pushes

(* Counts are never negative.                                              *)
LEMMA NotNegative ==
  IInv /\ ObjInv /\ MapRefs => \A m \in DOMAIN Maps : pc # "idle" => Maps[m].ref >= 0
  <1> SUFFICES ASSUME IInv, ObjInv, MapRefs, NEW m \in DOMAIN Maps, pc # "idle"
               PROVE  Maps[m].ref >= 0
    OBVIOUS
  <1>1. Maps[m].ref = MapCount(m)
    BY MapRefsAre
  <1>2. MapCount(m) \in Nat
    BY CountsFinite DEF MapCount
  <1> QED
    BY <1>1, <1>2

(* When variable i lets go of the last reference to a grid's map, the      *)
(* array of the map goes too.                                              *)
LEMMA DestroyLeavesNone ==
  ASSUME IInv, ObjInv, MapRefs, [Next]_vars, DestroyVar, NEW p \in DOMAIN obj', Orphan(p)'
  PROVE  p \in DOMAIN obj /\ Orphan(p)
  <1>1. /\ vi \in DOMAIN req /\ pc = "destroy" /\ DOMAIN obj' = DOMAIN obj \ Gone(vi)
        /\ DOMAIN Maps' = DOMAIN Maps
        /\ \A m \in DOMAIN Maps : /\ Maps'[m].ref = Maps[m].ref - Times(vi, m)
                                  /\ Maps'[m].arr = Maps[m].arr /\ Maps'[m].ingrid = Maps[m].ingrid
    BY DestroyTypes
  <1>2. pc' = "destroy"
    BY DEF DestroyVar, Goto
  <1>3. (\A m \in DOMAIN Maps : pc # "idle" => Maps[m].ref >= 0)'
    <2>1. IInv' /\ ObjInv' /\ MapRefs'
      BY StepIInv, StepObj, StepMapRefs
    <2> QED
      BY <2>1, NotNegative, PTL
  <1> SUFFICES ASSUME ~Orphan(p)
               PROVE  FALSE
    BY <1>1
  <1>4. p[2] > 0
    BY DEF Orphan
  <1>5. PICK m \in DOMAIN Maps : Maps[m].arr = p /\ Maps[m].ingrid /\ Maps[m].ref > 0
    BY <1>4 DEF Orphan
  <1>6. ~(Maps'[m].ref > 0)
    BY <1>1, <1>5 DEF Orphan
  <1>7. Maps[m].ref \in Int /\ Times(vi, m) \in Nat
    <2>1. Maps[m] \in FONcMap
      BY DEF IInv, TypeOK, StaticsOK
    <2> QED
      BY <1>1, <2>1, TimesIsNat DEF FONcMap
  <1>8. Maps'[m].ref >= 0 /\ Maps'[m].ref = Maps[m].ref - Times(vi, m)
    BY <1>1, <1>2, <1>3
  <1>9. Maps[m].ref = Times(vi, m) /\ Times(vi, m) > 0
    BY <1>5, <1>6, <1>7, <1>8
  <1>10. m \in Dying(vi)
    BY <1>5, <1>9 DEF Dying
  <1> QED
    BY <1>1, <1>5, <1>10 DEF Gone

LEMMA StepOrphan ==
  ASSUME IInv, ObjInv, MapRefs, OrphanOK, VaridOK, [Next]_vars
  PROVE  OrphanOK'
  <1>0. /\ vi \in Nat \ {0} /\ mi \in Nat
        /\ \A p \in DOMAIN obj : p \in Key /\ p[1] \in Nat /\ p[2] \in Nat
    BY ControlTypes DEF IInv, TypeOK, ObjectsOK, Key
  <1>1. CASE (\E r \in Requests : Begin(r)) \/ Finish
    BY <1>1 DEF Begin, Finish, OrphanOK
  <1>2. CASE UNCHANGED vars
    BY <1>2 DEF vars, cursor, converted, statics, OrphanOK, Orphan, Cur
  <1>3. CASE DestroyVar \/ DestroyNext
    <2>1. pc = "destroy" /\ pc' = "destroy" /\ status' = status
      BY <1>3 DEF DestroyVar, DestroyNext, Goto
    <2>2. \A p \in DOMAIN obj' : p \in DOMAIN obj /\ obj'[p] = obj[p]
      BY <1>3, DestroyTypes DEF DestroyNext, converted
    <2>3. \A p \in DOMAIN obj' : Orphan(p)' => Orphan(p)
      BY <1>3, DestroyLeavesNone DEF DestroyNext, statics, Orphan
    <2> QED
      BY <2>1, <2>2, <2>3 DEF OrphanOK
  <1> SUFFICES ASSUME ~\E r \in Requests : Begin(r), ~Finish, ~DestroyVar, ~DestroyNext, ~UNCHANGED vars
               PROVE  OrphanOK'
    BY <1>1, <1>2, <1>3
  <1>4. \A p : Orphan(p)' => Orphan(p)
    BY MapsStay DEF Orphan
  <1>5. CASE ConvertMap
    <2>1. /\ pc = "maps" /\ pc' = "dims" /\ Cur' = Cur /\ DOMAIN obj' = DOMAIN obj \cup {Cur}
      BY <1>5 DEF ConvertMap, StartArray, Goto, Put, Cur
    <2> QED
      BY <1>4, <2>1 DEF OrphanOK
  <1>6. CASE ConvertSimple \/ ConvertArray \/ ConvertGridArray
    <2>1. /\ pc \in {"convert", "maps"} /\ DOMAIN obj' = DOMAIN obj \cup {<<vi, 0>>}
      BY <1>6 DEF ConvertSimple, ConvertArray, ConvertGridArray, StartArray, Put
    <2>2. ~Orphan(<<vi, 0>>)
      BY DEF Orphan
    <2> QED
      BY <1>4, <2>1, <2>2 DEF OrphanOK
  <1>7. CASE ShareDim \/ NewDimension \/ ShareLength \/ NewLength
    <2>1. pc = "dims" /\ pc' = "dims" /\ Cur' = Cur /\ DOMAIN obj' = DOMAIN obj
      <3>1. PICK e : Pushes(e)
        BY <1>7, PushesOne
      <3> QED
        BY <3>1, PushTypes DEF Pushes, NextDim, Cur
    <2> QED
      BY <1>4, <2>1 DEF OrphanOK
  <1>8. CASE MapDone
    <2>1. pc = "dims" /\ obj' = obj /\ Maps' = Append(Maps, NewMap(Cur, TRUE))
      BY <1>8 DEF MapDone, DimsDone
    <2>2. Len(Maps) + 1 \in DOMAIN Maps' /\ Maps'[Len(Maps) + 1] = NewMap(Cur, TRUE)
      BY <2>1, AppendMap
    <2>3. ASSUME NEW p \in DOMAIN obj', Orphan(p)' PROVE p # Cur
      BY <2>2, <2>3 DEF Orphan, NewMap
    <2>4. \A p \in DOMAIN obj' : Orphan(p)' => FALSE
      BY <1>4, <2>1, <2>3 DEF OrphanOK
    <2> QED
      BY <2>4 DEF OrphanOK
  <1>9. CASE DimensionClash \/ LibraryThrows \/ ConvertUnknown \/ NcFails
    <2>1. pc' = "destroy" /\ status' # "ok" /\ obj' = obj /\ pc # "destroy"
      BY <1>9 DEF DimensionClash, LibraryThrows, ConvertUnknown, NcFails, ThrowAndClose, Throw, converted
    <2> QED
      BY <1>4, <2>1 DEF OrphanOK, VaridOK
  <1>10. CASE RegisterCoordinate \/ DropCoordinate \/ ArrayDone \/ GridArrayDone
    <2>1. pc = "dims" /\ mi = 0 /\ DOMAIN obj' = DOMAIN obj
      <3>1. pc = "dims" /\ DOMAIN obj' = DOMAIN obj
        BY <1>10 DEF RegisterCoordinate, DropCoordinate, ArrayDone, GridArrayDone, DimsDone, converted
      <3>2. mi > 0 => CurVar.kind = "Grid" /\ InGrid
        BY <3>1 DEF IInv, CursorOK
      <3>3. ~InGrid \/ CurVar.kind = "Array" \/ mi = 0
        BY <1>10 DEF RegisterCoordinate, DropCoordinate, ArrayDone, GridArrayDone, MayBeMap
      <3> QED
        BY <1>0, <3>1, <3>2, <3>3
    <2>2. ~Orphan(Cur)
      BY <2>1 DEF Orphan, Cur
    <2> QED
      BY <1>4, <2>1, <2>2 DEF OrphanOK
  <1>11. CASE \/ SkipUnsent \/ ConvertGrid \/ EndConvert \/ SkipMap \/ ShareMap \/ SkipGridArray
              \/ Define \/ Write
    <2>1. pc \notin {"dims", "destroy"} /\ DOMAIN obj' = DOMAIN obj
      BY <1>11, WhenDefine DEF SkipUnsent, ConvertGrid, EndConvert, SkipMap, ShareMap, SkipGridArray,
         Write, WriteData, SkipWrite, WriteNext, CloseFile, Writing, converted
    <2> QED
      BY <1>4, <2>1 DEF OrphanOK
  <1> QED
    BY <1>5, <1>6, <1>7, <1>8, <1>9, <1>10, <1>11, Zenon DEF Next, Step, Destroy, Convert

LEMMA EndsFreed ==
  ASSUME IInv, ObjInv, DimRefs, MapRefs, EndInv
  PROVE  Freed
  <1> SUFFICES ASSUME Over
               PROVE  /\ \A m \in DOMAIN Maps : Maps[m].ref = 0
                      /\ \A p \in DOMAIN obj : status # "ok" /\ p[2] > 0 /\ ~IsDefined(p)
                      /\ Cardinality(DOMAIN obj) <= 1
                      /\ \A d \in DOMAIN Dimensions : Dimensions[d].ref > 0 => Uses(DOMAIN obj, d) # {}
    BY DEF Freed
  <1>1. pc = "destroy" /\ \A i \in DOMAIN req : i < vi
    BY ControlTypes DEF Over
  <1>2. \A i \in DOMAIN req : i \notin made /\ <<i, 0>> \notin DOMAIN obj /\ held[i] = << >>
    BY <1>1 DEF EndInv, UnmadeOK, DoneOK
  <1>3. \A p \in DOMAIN obj : p[2] > 0
    <2> SUFFICES ASSUME NEW p \in DOMAIN obj PROVE p[2] > 0
      OBVIOUS
    <2>1. p \in Key /\ ValidKey(p)
      BY DEF IInv, TypeOK, ObjectsOK, KeysOK
    <2>2. p[1] \in DOMAIN req /\ p = <<p[1], p[2]>> /\ p[2] \in Nat
      BY <2>1 DEF ValidKey, Key
    <2> QED
      BY <1>2, <2>2
  <1>4. \A m \in DOMAIN Maps : Maps[m].ref = 0
    <2> SUFFICES ASSUME NEW m \in DOMAIN Maps PROVE Maps[m].ref = 0
      OBVIOUS
    <2>1. \A i \in DOMAIN held : \A k \in DOMAIN held[i] : held[i][k] # m
      <3>1. \A i \in DOMAIN held : held[i] = << >>
        BY <1>2, HeldTypes
      <3> QED
        BY <3>1
    <2>2. Cardinality(Entries(held, DOMAIN held, m)) = 0
      BY <2>1, EntriesNone
    <2>3. Registrars(m) = {}
      BY <1>3, HeldTypes DEF Registrars, ObjInv, RegistrarOK
    <2>4. Cardinality(Registrars(m)) = 0
      BY <2>3, FS_EmptySet
    <2>5. Maps[m].ref = MapCount(m)
      BY <1>1, MapRefsAre
    <2> QED
      BY <2>2, <2>4, <2>5 DEF MapCount
  <1>5. \A p \in DOMAIN obj : Orphan(p)
    BY <1>3, <1>4 DEF Orphan
  <1>6. \A p \in DOMAIN obj : status # "ok" /\ obj[p].varid = 0 /\ \A q \in DOMAIN obj : q = p
    BY <1>1, <1>5 DEF EndInv, OrphanOK
  <1>7. Cardinality(DOMAIN obj) <= 1
    <2>1. CASE DOMAIN obj = {}
      BY <2>1, FS_EmptySet
    <2>2. CASE DOMAIN obj # {}
      <3>1. PICK p : DOMAIN obj = {p}
        BY <1>6, <2>2
      <3> QED
        BY <3>1, FS_Singleton
    <2> QED
      BY <2>1, <2>2
  <1>8. \A d \in DOMAIN Dimensions : Dimensions[d].ref > 0 => Uses(DOMAIN obj, d) # {}
    BY <1>1, FS_EmptySet DEF DimRefs
  <1> QED
    BY <1>3, <1>4, <1>6, <1>7, <1>8 DEF IsDefined

(* What is alive belongs to a variable that is made and not yet destroyed, *)
(* or to a map; and each such array has a registered map that will take it *)
(* away, but for the one whose conversion is or was going on.              *)
THEOREM EveryObjectOwned == Spec => []EndInv
  <1>1. Init => EndInv
    BY DEF Init, EndInv, UnmadeOK, DoneOK, OrphanOK, VaridOK
  <1>2. IInv /\ ObjInv /\ MapRefs /\ EndInv /\ [Next]_vars => EndInv'
    BY StepUnmade, StepDone, StepOrphan, StepVarid DEF EndInv
  <1> QED
    BY <1>1, <1>2, Invariance, ObjectsKnown, MapsAreCounted, PTL DEF Spec

(* When a request is over, nothing is left of it: no reference, no object  *)
(* and no dimension in use; but for the array of one map, whose conversion *)
(* was interrupted, and its dimensions, when the request was given up.     *)
THEOREM RequestsFreed == Spec => []Freed
  <1>1. IInv /\ ObjInv /\ DimRefs /\ MapRefs /\ EndInv => Freed
    BY EndsFreed
  <1> QED
    BY <1>1, Invariance, ObjectsKnown, DimsCounted, MapsAreCounted, EveryObjectOwned, PTL
=============================================================================
