-------------------------- MODULE FONcTransform_proofs --------------------------
(* Proofs about FONcTransform, for all responses, failures and both ways   *)
(* of running it.                                                          *)
EXTENDS FONcTransform, SequenceTheorems, FiniteSetTheorems, TLAPS

(* Names stay names.                                                       *)
LEMMA IdentifierIsPath ==
  ASSUME NEW n \in Path
  PROVE  id2netcdf(n) \in Path
  <1>1. /\ Len(n) \in Nat /\ DOMAIN n = 1..Len(n)
        /\ \A k \in 1..Len(n) : n[k] \in Token
    BY DEF Path
  <1> DEFINE e(k) == IF k = 1 THEN Prefixed[n[k]] ELSE Clean[n[k]]
  <1>2. \A k \in 1..Len(n) : e(k) \in Token
    BY <1>1, TokenAssumption
  <1> HIDE DEF e
  <1>3. [k \in 1..Len(n) |-> e(k)] \in Seq(Token)
    BY <1>1, <1>2, IsASeq
  <1> QED
    BY <1>1, <1>3 DEF id2netcdf, Path, e

LEMMA GenNameIsPath ==
  ASSUME NEW embed \in Path, NEW name \in Path
  PROVE  gen_name(embed, name) \in Path
  <1>1. embed \o name \in Path
    BY ConcatProperties DEF Path
  <1> QED
    BY <1>1, IdentifierIsPath DEF gen_name

LEMMA WithLenIsPath ==
  ASSUME NEW n \in Path
  PROVE  WithLen(n) \in Path
  BY TokenAssumption, AppendProperties DEF WithLen, Path

LEMMA AutoDimIsPath ==
  ASSUME NEW n \in Nat
  PROVE  AutoDim(n) \in Path
  <1> DEFINE e(k) == "dim"
  <1>1. \A k \in 1..n : e(k) \in Token
    BY TokenAssumption
  <1>2. [k \in 1..n |-> e(k)] \in Seq(Token)
    BY <1>1, IsASeq
  <1> QED
    BY <1>2 DEF AutoDim, Path

(* The first element of a set with one element.                            *)
LEMMA FirstOfOne ==
  ASSUME NEW S, S \subseteq Nat, NEW m \in S, \A n \in S : n = m
  PROVE  First(S) = m
  <1>1. \A n \in S : m <= n
    OBVIOUS
  <1>2. First(S) \in S
    BY <1>1, Zenon DEF First
  <1> QED
    BY <1>2

LEMMA SeqOfOne ==
  ASSUME NEW S, NEW x \in S
  PROVE  <<x>> \in Seq(S)
  OBVIOUS

(* Equality of maps: two arrays that compare equal to a third are equal.   *)
LEMMA CompareToThird ==
  ASSUME NEW a, NEW b, NEW c, compare(a, c), compare(b, c)
  PROVE  compare(a, b)
  BY DEF compare, EqualValues

---------------------------------------------------------------------------
(* The invariant.                                                          *)

(* p is an array of the response being turned into a file.                 *)
ValidKey(p) ==
  /\ p[1] \in DOMAIN req
  /\ p[2] = 0 \/ p[2] \in DOMAIN req[p[1]].maps

(* Where the iterators point.  While the array of a map is being converted *)
(* no registered map is equal to it, as when FONcGrid::convert looked; and *)
(* InGrid is set in a grid.                                                *)
CursorOK ==
  /\ pc = "maps" => vi \in DOMAIN req /\ mi > 0 /\ InGrid /\ CurVar.kind = "Grid"
  /\ pc = "dims" => /\ Cur \in DOMAIN obj
                    /\ mi > 0 => InMaps(CurArr) = {} /\ CurVar.kind = "Grid"
                    /\ CurVar.kind = "Grid" => InGrid
  /\ pc \in {"define", "write"} => mi > 0

(* The registered maps are arrays converted before.                        *)
EarlierOK ==
  /\ pc = "convert" => \A m \in DOMAIN Maps : Maps[m].arr[1] < vi
  /\ pc \in {"maps", "dims"} => \A m \in DOMAIN Maps :
       \/ Maps[m].arr[1] < vi
       \/ Maps[m].arr[1] = vi /\ 0 < Maps[m].arr[2] /\ (mi > 0 => Maps[m].arr[2] < mi)

(* The objects alive are arrays of the response, and the registered maps   *)
(* have theirs as long as they may be used.                                *)
KeysOK ==
  /\ \A p \in DOMAIN obj : ValidKey(p)
  /\ Working => \A m \in DOMAIN Maps : Maps[m].arr \in DOMAIN obj

(* A converted variable that is not a grid has its object.                 *)
MadeOK ==
  Working => \A i \in made : req[i].kind # "Grid" => <<i, 0>> \in DOMAIN obj

(* No array is registered twice, and the array of a map that grids alone   *)
(* refer to is alive until the last of them lets go of it.                 *)
OwnersOK ==
  /\ \A m, n \in DOMAIN Maps : Maps[m].arr = Maps[n].arr => m = n
  /\ \A m \in DOMAIN Maps : Maps[m].ingrid => Maps[m].arr[2] > 0
  /\ pc = "destroy" => \A m \in DOMAIN Maps :
       Maps[m].ingrid /\ Maps[m].ref > 0 => Maps[m].arr \in DOMAIN obj

IInv ==
  /\ TypeOK /\ CursorOK /\ EarlierOK /\ KeysOK /\ MadeOK /\ OwnersOK
  /\ DimNamesDistinct /\ MapsDistinct

LEMMA InitIInv == Init => IInv
  <1> SUFFICES ASSUME Init PROVE IInv
    OBVIOUS
  <1>1. /\ Dimensions = << >> /\ Maps = << >> /\ obj = << >> /\ held = << >> /\ req = << >>
        /\ ncDims = << >> /\ ncVars = << >>
    BY DEF Init
  <1>2. ControlOK
    BY <1>1 DEF Init, ControlOK
  <1>3. ObjectsOK /\ HeldOK /\ PointersOK
    BY <1>1 DEF Init, ObjectsOK, HeldOK, PointersOK
  <1>4. StaticsOK /\ FileOK
    BY <1>1, EmptySeq DEF Init, StaticsOK, FileOK
  <1>5. CursorOK /\ EarlierOK /\ KeysOK /\ MadeOK /\ OwnersOK /\ DimNamesDistinct /\ MapsDistinct
    BY <1>1 DEF Init, CursorOK, EarlierOK, KeysOK, MadeOK, OwnersOK, DimNamesDistinct, MapsDistinct, Working
  <1> QED
    BY <1>2, <1>3, <1>4, <1>5 DEF IInv, TypeOK

(* A step that leaves the objects and the registries alone.                *)
LEMMA FrameIInv ==
  ASSUME IInv, UNCHANGED <<req, obj, held, Dimensions, Maps>>, Working' => Working,
         pc' = "destroy" => Working \/ pc = "destroy",
         ControlOK', CursorOK', EarlierOK', MadeOK', InGrid' \in BOOLEAN, DimNameNum' \in Nat, FileOK'
  PROVE  IInv'
  <1>1. ObjectsOK' /\ HeldOK' /\ StaticsOK' /\ PointersOK'
    BY DEF IInv, TypeOK, ObjectsOK, HeldOK, StaticsOK, PointersOK
  <1>2. KeysOK' /\ DimNamesDistinct' /\ MapsDistinct'
    BY DEF IInv, KeysOK, ValidKey, DimNamesDistinct, MapsDistinct
  <1>3. OwnersOK'
    BY DEF IInv, KeysOK, OwnersOK
  <1> QED
    BY <1>1, <1>2, <1>3 DEF IInv, TypeOK

(* Where the control goes.                                                 *)
LEMMA GotoControl ==
  ASSUME IInv, NEW where, NEW v \in Nat \ {0}, NEW m \in Nat, Goto(where, v, m),
         where \in {"idle", "convert", "maps", "dims", "create", "define", "write", "destroy"},
         UNCHANGED <<req, status>>, made' \subseteq Nat
  PROVE  ControlOK' /\ pc' = where /\ vi' = v /\ mi' = m
  BY DEF IInv, TypeOK, ControlOK, Goto

LEMMA ThrowControl ==
  ASSUME IInv, NEW why \in {"conflict", "failure", "other"}, Throw(why),
         UNCHANGED <<req, made>>
  PROVE  ControlOK' /\ CursorOK' /\ EarlierOK' /\ pc' = "destroy"
  <1>1. pc' = "destroy"
    BY DEF Throw
  <1>2. ControlOK'
    BY DEF IInv, TypeOK, ControlOK, Throw
  <1> QED
    BY <1>1, <1>2 DEF CursorOK, EarlierOK

(* Where the control comes from.                                           *)
LEMMA ControlTypes ==
  ASSUME IInv
  PROVE  /\ req \in Seq(Var) /\ vi \in Nat \ {0} /\ mi \in Nat /\ di \in Nat \ {0}
         /\ vi + 1 \in Nat \ {0} /\ mi + 1 \in Nat /\ made \subseteq Nat
         /\ vi <= Len(req) => vi \in DOMAIN req
         /\ \A m \in DOMAIN Maps : /\ Maps[m].arr \in Key
                                   /\ Maps[m].arr[1] \in Nat /\ Maps[m].arr[2] \in Nat
  <1>1. req \in Seq(Var) /\ vi \in Nat \ {0} /\ mi \in Nat /\ di \in Nat \ {0} /\ made \subseteq Nat
    BY DEF IInv, TypeOK, ControlOK
  <1>2. \A m \in DOMAIN Maps : Maps[m] \in FONcMap
    BY DEF IInv, TypeOK, StaticsOK
  <1>3. \A m \in DOMAIN Maps : /\ Maps[m].arr \in Key
                               /\ Maps[m].arr[1] \in Nat /\ Maps[m].arr[2] \in Nat
    BY <1>2 DEF FONcMap, Key
  <1> QED
    BY <1>1, <1>3

(* The array at a key of the response.                                     *)
LEMMA KeyTypes ==
  ASSUME req \in Seq(Var), NEW p \in Key, ValidKey(p)
  PROVE  ArrOf(req, p) \in Arr /\ EmbedOf(req, p) \in Path
  <1>1. req[p[1]] \in Var
    BY DEF ValidKey
  <1>2. /\ req[p[1]].main \in Arr /\ req[p[1]].embed \in Path
        /\ req[p[1]].maps \in Seq(Arr)
    BY <1>1 DEF Var
  <1>3. p[2] # 0 => req[p[1]].maps[p[2]] \in Arr
    BY <1>2 DEF ValidKey
  <1>4. << >> \in Path
    BY EmptySeq DEF Path
  <1> QED
    BY <1>2, <1>3, <1>4 DEF ArrOf, EmbedOf

LEMMA CurTypes ==
  ASSUME IInv, pc = "dims"
  PROVE  CurArr \in Arr /\ CurEmbed \in Path /\ Cur \in DOMAIN obj /\ Cur \in Key
  <1>1. Cur \in DOMAIN obj /\ Cur \in Key /\ ValidKey(Cur)
    BY DEF IInv, CursorOK, KeysOK, TypeOK, ObjectsOK
  <1> QED
    BY <1>1, KeyTypes DEF IInv, TypeOK, ControlOK, CurArr, CurEmbed

LEMMA MapCursor ==
  ASSUME IInv, pc = "maps", mi <= Len(CurVar.maps)
  PROVE  /\ vi \in DOMAIN req /\ mi \in DOMAIN CurVar.maps
         /\ Cur \in Key /\ ValidKey(Cur) /\ CurArr \in Arr
  <1>1. vi \in DOMAIN req /\ mi \in Nat /\ mi > 0 /\ req \in Seq(Var)
    BY DEF IInv, CursorOK, TypeOK, ControlOK
  <1>2. CurVar \in Var /\ CurVar.maps \in Seq(Arr)
    <2>1. CurVar \in Var
      BY <1>1 DEF CurVar
    <2> QED
      BY <2>1 DEF Var
  <1>3. mi \in DOMAIN CurVar.maps
    BY <1>1, <1>2
  <1>4. Cur \in Key /\ ValidKey(Cur)
    BY <1>1, <1>3 DEF Cur, Key, ValidKey, CurVar
  <1> QED
    BY <1>1, <1>3, <1>4, KeyTypes DEF CurArr

(* new FONcArray for a key of the response.                                *)
LEMMA PutIInv ==
  ASSUME IInv, NEW p \in Key, ValidKey(p), NEW name \in Path,
         obj' = Put(obj, p, NewArray(name)),
         UNCHANGED <<req, held, Dimensions, Maps, DimNameNum, file>>,
         InGrid' \in BOOLEAN, Working, pc' # "destroy", ControlOK', CursorOK', EarlierOK',
         made' = made \/ (p[2] = 0 /\ made' = made \cup {p[1]})
  PROVE  IInv'
  <1>1. NewArray(name) \in FONcArray /\ DOMAIN NewArray(name).dims = {}
    BY EmptySeq DEF NewArray, FONcArray
  <1>2. /\ DOMAIN obj' = DOMAIN obj \cup {p}
        /\ \A q \in DOMAIN obj' : obj'[q] = IF q = p THEN NewArray(name) ELSE obj[q]
    BY DEF Put
  <1>3. ObjectsOK' /\ HeldOK' /\ StaticsOK' /\ PointersOK'
    BY <1>1, <1>2 DEF IInv, TypeOK, ObjectsOK, HeldOK, StaticsOK, PointersOK
  <1>4. FileOK' /\ DimNamesDistinct' /\ MapsDistinct'
    BY DEF IInv, TypeOK, FileOK, file, DimNamesDistinct, MapsDistinct
  <1>5. KeysOK' /\ OwnersOK'
    BY <1>2 DEF IInv, KeysOK, OwnersOK, ValidKey
  <1>6. MadeOK'
    <2>1. p = <<p[1], p[2]>>
      BY DEF Key
    <2> QED
      BY <1>2, <2>1 DEF IInv, MadeOK
  <1> QED
    BY <1>3, <1>4, <1>5, <1>6 DEF IInv, TypeOK

(* A new registered map, not equal to any other, for an array alive.       *)
LEMMA NewMapIInv ==
  ASSUME IInv, Working, NEW p \in DOMAIN obj, NEW ingrid \in BOOLEAN,
         InMaps(ArrOf(req, p)) = {}, \A m \in DOMAIN Maps : Maps[m].arr # p,
         ingrid => p[2] > 0, pc' # "destroy",
         Maps' = Append(Maps, NewMap(p, ingrid)),
         UNCHANGED <<req, Dimensions>>
  PROVE  /\ Maps' \in Seq(FONcMap) /\ Len(Maps') = Len(Maps) + 1
         /\ DOMAIN Maps \subseteq DOMAIN Maps' /\ Len(Maps) + 1 \in DOMAIN Maps'
         /\ MapsDistinct' /\ OwnersOK'
         /\ \A m \in DOMAIN Maps' : /\ Maps'[m].arr \in DOMAIN obj
                                    /\ Maps'[m].arr = p \/ (m \in DOMAIN Maps /\ Maps'[m] = Maps[m])
  <1>1. /\ Maps \in Seq(FONcMap) /\ NewMap(p, ingrid) \in FONcMap
        /\ NewMap(p, ingrid).arr = p /\ NewMap(p, ingrid).ingrid = ingrid
    BY DEF IInv, TypeOK, StaticsOK, ObjectsOK, NewMap, FONcMap
  <1>2. /\ Maps' \in Seq(FONcMap) /\ Len(Maps') = Len(Maps) + 1
        /\ \A m \in 1..Len(Maps) : Maps'[m] = Maps[m]
        /\ Maps'[Len(Maps) + 1] = NewMap(p, ingrid)
    BY <1>1, AppendProperties
  <1>3. /\ DOMAIN Maps = 1..Len(Maps) /\ DOMAIN Maps' = 1..(Len(Maps) + 1) /\ Len(Maps) \in Nat
    BY <1>1, <1>2
  <1>4. \A m \in DOMAIN Maps' : /\ Maps'[m].arr \in DOMAIN obj
                                /\ Maps'[m].arr = p \/ (m \in DOMAIN Maps /\ Maps'[m] = Maps[m])
    <2> SUFFICES ASSUME NEW m \in DOMAIN Maps'
                 PROVE  /\ Maps'[m].arr \in DOMAIN obj
                        /\ Maps'[m].arr = p \/ (m \in DOMAIN Maps /\ Maps'[m] = Maps[m])
      OBVIOUS
    <2>1. CASE m \in DOMAIN Maps
      BY <1>2, <1>3, <2>1 DEF IInv, KeysOK
    <2>2. CASE m = Len(Maps) + 1
      BY <1>1, <1>2, <2>2
    <2> QED
      BY <1>3, <2>1, <2>2
  <1>5. \A m, n \in DOMAIN Maps' :
          m < n => ~compare(ArrOf(req, Maps'[m].arr), ArrOf(req, Maps'[n].arr))
    <2> SUFFICES ASSUME NEW m \in DOMAIN Maps', NEW n \in DOMAIN Maps', m < n
                 PROVE  ~compare(ArrOf(req, Maps'[m].arr), ArrOf(req, Maps'[n].arr))
      OBVIOUS
    <2>1. CASE n \in DOMAIN Maps
      BY <2>1, <1>2, <1>3 DEF IInv, MapsDistinct
    <2>2. CASE n = Len(Maps) + 1
      BY <2>2, <1>1, <1>2, <1>3 DEF InMaps
    <2> QED
      BY <2>1, <2>2, <1>3
  <1>6. OwnersOK'
    BY <1>1, <1>2, <1>3 DEF IInv, OwnersOK
  <1> QED
    BY <1>2, <1>3, <1>4, <1>5, <1>6 DEF MapsDistinct

---------------------------------------------------------------------------
(* Steps of the conversion.                                                *)

(* The steps that only move on, or give up.                                *)
LEMMA MoveOnIInv ==
  ASSUME IInv,
         \/ SkipUnsent \/ ConvertUnknown \/ ConvertGrid \/ EndConvert
         \/ SkipMap \/ SkipGridArray \/ DimensionClash \/ ArrayDone \/ GridArrayDone
  PROVE  IInv'
  <1>1. /\ UNCHANGED <<req, obj, held, Dimensions, Maps>>
        /\ InGrid' \in BOOLEAN /\ DimNameNum' \in Nat /\ FileOK'
    BY DEF IInv, TypeOK, StaticsOK, FileOK, SkipUnsent, ConvertUnknown, ConvertGrid, EndConvert,
           SkipMap, SkipGridArray, DimensionClash, ArrayDone, GridArrayDone,
           GridConverted, converted, statics, file
  <1>2. Working
    BY DEF Working, SkipUnsent, ConvertUnknown, ConvertGrid, EndConvert,
           SkipMap, SkipGridArray, DimensionClash, ArrayDone, GridArrayDone, DimsDone
  <1>3. ControlOK' /\ CursorOK' /\ EarlierOK'
    <2>1. CASE SkipUnsent
      <3>1. Goto("convert", vi + 1, 0) /\ UNCHANGED <<req, status, made>> /\ pc = "convert"
        BY <2>1 DEF SkipUnsent, converted
      <3>2. ControlOK' /\ pc' = "convert" /\ vi' = vi + 1
        BY <3>1, ControlTypes, GotoControl
      <3> QED
        BY <1>1, <3>1, <3>2, ControlTypes DEF CursorOK, EarlierOK, IInv
    <2>2. CASE ConvertUnknown \/ DimensionClash
      BY <2>2, ThrowControl DEF ConvertUnknown, DimensionClash, converted
    <2>3. CASE ConvertGrid
      <3>1. /\ Goto("maps", vi, 1) /\ UNCHANGED <<req, status>> /\ pc = "convert"
            /\ made' = made \cup {vi} /\ InGrid' /\ CurVar.kind = "Grid" /\ vi <= Len(req)
        BY <2>3 DEF ConvertGrid
      <3>2. ControlOK' /\ pc' = "maps" /\ vi' = vi /\ mi' = 1
        BY <3>1, ControlTypes, GotoControl
      <3> QED
        BY <1>1, <3>1, <3>2, ControlTypes DEF CursorOK, EarlierOK, IInv, CurVar
    <2>4. CASE EndConvert
      <3>1. Goto("create", 1, 1) /\ UNCHANGED <<req, status, made>>
        BY <2>4 DEF EndConvert, converted
      <3>2. ControlOK' /\ pc' = "create"
        BY <3>1, ControlTypes, GotoControl
      <3> QED
        BY <3>2 DEF CursorOK, EarlierOK
    <2>5. CASE SkipMap
      <3>1. /\ Goto("maps", vi, mi + 1) /\ UNCHANGED <<req, status, made, InGrid>> /\ pc = "maps"
        BY <2>5 DEF SkipMap, converted, statics
      <3>2. ControlOK' /\ pc' = "maps" /\ vi' = vi /\ mi' = mi + 1
        BY <3>1, ControlTypes, GotoControl
      <3> QED
        BY <1>1, <3>1, <3>2, ControlTypes DEF CursorOK, EarlierOK, IInv, CurVar
    <2>6. CASE SkipGridArray \/ ArrayDone \/ GridArrayDone
      <3>1. /\ Goto("convert", vi + 1, 0) /\ UNCHANGED <<req, status, made>>
            /\ pc \in {"maps", "dims"}
        BY <2>6 DEF SkipGridArray, ArrayDone, GridArrayDone, GridConverted, DimsDone, converted
      <3>2. ControlOK' /\ pc' = "convert" /\ vi' = vi + 1
        BY <3>1, ControlTypes, GotoControl
      <3> QED
        BY <1>1, <3>1, <3>2, ControlTypes DEF CursorOK, EarlierOK, IInv
    <2> QED
      BY <2>1, <2>2, <2>3, <2>4, <2>5, <2>6
  <1>4. MadeOK'
    <2>1. CASE ConvertGrid
      BY <1>1, <1>2, <2>1 DEF ConvertGrid, IInv, MadeOK, CurVar
    <2>2. CASE ~ConvertGrid
      <3>1. made' = made
        BY <2>2 DEF SkipUnsent, ConvertUnknown, EndConvert, SkipMap, SkipGridArray,
                    DimensionClash, ArrayDone, GridArrayDone, converted
      <3> QED
        BY <1>1, <1>2, <3>1 DEF IInv, MadeOK
    <2> QED
      BY <2>1, <2>2
  <1> QED
    BY <1>1, <1>2, <1>3, <1>4, FrameIInv

(* The steps that make an object.                                          *)
LEMMA MakeIInv ==
  ASSUME IInv, ConvertSimple \/ ConvertArray \/ ConvertMap \/ ConvertGridArray
  PROVE  IInv'
  <1>1. /\ vi \in DOMAIN req /\ req \in Seq(Var) /\ mi \in Nat /\ di \in Nat \ {0}
        /\ vi \in Nat \ {0}
    BY DEF IInv, TypeOK, ControlOK, CursorOK, ConvertSimple, ConvertArray, ConvertMap,
           ConvertGridArray
  <1>2. <<vi, 0>> \in Key /\ ValidKey(<<vi, 0>>)
    BY <1>1 DEF Key, ValidKey
  <1>3. \A p \in Key : ValidKey(p) =>
          gen_name(EmbedOf(req, p), ArrOf(req, p).name) \in Path
    BY <1>1, KeyTypes, GenNameIsPath DEF Arr
  <1>4. Working
    BY DEF Working, ConvertSimple, ConvertArray, ConvertMap, ConvertGridArray
  <1>5. \A p : p[1] \in Nat \ {0} /\ p[2] \in Nat /\ StartArray(p) /\ UNCHANGED <<req, status>> /\ made' \subseteq Nat
            => ControlOK' /\ pc' = "dims" /\ vi' = p[1] /\ mi' = p[2]
    <2> SUFFICES ASSUME NEW p, p[1] \in Nat \ {0}, p[2] \in Nat, StartArray(p),
                        UNCHANGED <<req, status>>, made' \subseteq Nat
                 PROVE  ControlOK' /\ pc' = "dims" /\ vi' = p[1] /\ mi' = p[2]
      OBVIOUS
    <2>1. Goto("dims", p[1], p[2])
      BY DEF StartArray
    <2> QED
      BY <2>1, GotoControl
  <1>6. CASE ConvertSimple
    <2>1. obj' = Put(obj, <<vi, 0>>, NewArray(gen_name(EmbedOf(req, <<vi, 0>>), ArrOf(req, <<vi, 0>>).name)))
      BY <1>6 DEF ConvertSimple, EmbedOf, ArrOf, CurVar
    <2>2. /\ Goto("convert", vi + 1, 0) /\ made' = made \cup {vi} /\ pc = "convert"
          /\ UNCHANGED <<req, status, held, Dimensions, Maps, InGrid, DimNameNum, file>>
      BY <1>6 DEF ConvertSimple, statics
    <2>3. ControlOK' /\ pc' = "convert" /\ vi' = vi + 1
      BY <2>2, ControlTypes, GotoControl
    <2>4. CursorOK' /\ EarlierOK'
      BY <2>2, <2>3, ControlTypes DEF CursorOK, EarlierOK, IInv
    <2> QED
      BY <1>2, <1>3, <1>4, <2>1, <2>2, <2>3, <2>4, PutIInv DEF IInv, TypeOK, StaticsOK
  <1>7. CASE ConvertArray
    <2>1. /\ StartArray(<<vi, 0>>) /\ made' = made \cup {vi} /\ pc = "convert"
          /\ CurVar.kind = "Array" /\ CurVar' = CurVar
          /\ UNCHANGED <<req, status, held, Dimensions, Maps, InGrid, DimNameNum, file>>
      BY <1>7 DEF ConvertArray, statics, CurVar, StartArray, Goto
    <2>2. obj' = Put(obj, <<vi, 0>>, NewArray(gen_name(EmbedOf(req, <<vi, 0>>), ArrOf(req, <<vi, 0>>).name)))
      BY <2>1 DEF StartArray
    <2>3. ControlOK' /\ vi' = vi /\ mi' = 0 /\ pc' = "dims"
      BY <1>1, <1>5, <2>1, ControlTypes
    <2>4. CursorOK'
      BY <2>1, <2>2, <2>3 DEF CursorOK, Cur, Put
    <2>5. EarlierOK'
      BY <2>1, <2>3 DEF EarlierOK, IInv
    <2> QED
      BY <1>2, <1>3, <1>4, <2>1, <2>2, <2>3, <2>4, <2>5, PutIInv DEF IInv, TypeOK, StaticsOK
  <1>8. CASE ConvertMap
    <2>1. Cur \in Key /\ ValidKey(Cur) /\ Cur[1] = vi /\ Cur[2] = mi
      BY <1>8, MapCursor DEF ConvertMap, Cur
    <2>2. /\ StartArray(Cur) /\ pc = "maps" /\ InMaps(CurArr) = {}
          /\ UNCHANGED <<req, status, made, held, Dimensions, Maps, InGrid, DimNameNum, file>>
      BY <1>8 DEF ConvertMap, statics
    <2>3. obj' = Put(obj, Cur, NewArray(gen_name(EmbedOf(req, Cur), ArrOf(req, Cur).name)))
      BY <2>2 DEF StartArray
    <2>4. ControlOK' /\ vi' = vi /\ mi' = mi /\ pc' = "dims"
      BY <1>1, <1>5, <2>1, <2>2, ControlTypes
    <2>5. Cur' \in DOMAIN obj' /\ InMaps(CurArr)' = {} /\ CurVar' = CurVar
      BY <2>2, <2>3, <2>4 DEF Cur, Put, InMaps, CurArr, CurVar
    <2>6. CursorOK' /\ EarlierOK'
      BY <2>2, <2>4, <2>5 DEF CursorOK, EarlierOK, IInv
    <2> QED
      BY <1>3, <1>4, <2>1, <2>2, <2>3, <2>4, <2>6, PutIInv DEF IInv, TypeOK, StaticsOK
  <1>9. CASE ConvertGridArray
    <2>1. /\ StartArray(<<vi, 0>>) /\ pc = "maps"
          /\ UNCHANGED <<req, status, made, held, Dimensions, Maps, InGrid, DimNameNum, file>>
      BY <1>9 DEF ConvertGridArray, statics
    <2>2. obj' = Put(obj, <<vi, 0>>, NewArray(gen_name(EmbedOf(req, <<vi, 0>>), ArrOf(req, <<vi, 0>>).name)))
      BY <2>1 DEF StartArray
    <2>3. ControlOK' /\ vi' = vi /\ mi' = 0 /\ pc' = "dims"
      BY <1>1, <1>5, <2>1, ControlTypes
    <2>4. CursorOK'
      BY <2>1, <2>2, <2>3 DEF CursorOK, Cur, Put, IInv
    <2>5. EarlierOK'
      BY <2>1, <2>3 DEF EarlierOK, IInv
    <2> QED
      BY <1>2, <1>3, <1>4, <2>1, <2>2, <2>3, <2>4, <2>5, PutIInv DEF IInv, TypeOK, StaticsOK
  <1> QED
    BY <1>6, <1>7, <1>8, <1>9

(* The steps that share or register a map.                                 *)
LEMMA HoldTypes ==
  ASSUME IInv, vi \in DOMAIN req, NEW m \in Nat, Hold(m),
         DOMAIN Maps \subseteq DOMAIN Maps', m \in DOMAIN Maps', UNCHANGED req
  PROVE  /\ HeldOK'
         /\ \A i \in DOMAIN held' : \A k \in DOMAIN held'[i] : held'[i][k] \in DOMAIN Maps'
  <1>1. /\ held \in Seq(Seq(Nat)) /\ Len(held) = Len(req) /\ req \in Seq(Var)
        /\ \A i \in DOMAIN held : \A k \in DOMAIN held[i] : held[i][k] \in DOMAIN Maps
    BY DEF IInv, TypeOK, HeldOK, ControlOK, PointersOK
  <1>2. vi \in 1..Len(held) /\ held[vi] \in Seq(Nat)
    BY <1>1
  <1>3. held' = [held EXCEPT ![vi] = Append(held[vi], m)]
    BY DEF Hold
  <1>4. /\ Append(held[vi], m) \in Seq(Nat)
        /\ \A k \in DOMAIN Append(held[vi], m) : Append(held[vi], m)[k] \in DOMAIN Maps'
    BY <1>1, <1>2, AppendProperties
  <1>5. held' \in Seq(Seq(Nat)) /\ Len(held') = Len(held) /\ DOMAIN held' = DOMAIN held
    BY <1>1, <1>2, <1>3, <1>4, ExceptSeq
  <1>6. \A i \in DOMAIN held' : \A k \in DOMAIN held'[i] : held'[i][k] \in DOMAIN Maps'
    BY <1>1, <1>2, <1>3, <1>4, <1>5
  <1> QED
    BY <1>1, <1>5, <1>6 DEF HeldOK

(* The search for an equal map finds the only one.                         *)
LEMMA InMapsIsOne ==
  ASSUME IInv, Working, NEW a, InMaps(a) # {}
  PROVE  First(InMaps(a)) \in InMaps(a) /\ First(InMaps(a)) \in DOMAIN Maps
  <1>1. InMaps(a) \subseteq DOMAIN Maps /\ DOMAIN Maps \subseteq Nat
    BY DEF IInv, TypeOK, StaticsOK, InMaps
  <1>2. PICK x \in InMaps(a) : TRUE
    OBVIOUS
  <1>3. \A y \in InMaps(a) : y = x
    <2> SUFFICES ASSUME NEW y \in InMaps(a), y # x PROVE FALSE
      OBVIOUS
    <2>1. /\ compare(ArrOf(req, Maps[x].arr), ArrOf(req, Maps[y].arr))
          /\ compare(ArrOf(req, Maps[y].arr), ArrOf(req, Maps[x].arr))
      BY CompareToThird DEF InMaps
    <2>2. x \in DOMAIN Maps /\ y \in DOMAIN Maps /\ (x < y \/ y < x)
      BY <1>1
    <2> QED
      BY <2>1, <2>2 DEF IInv, MapsDistinct
  <1> QED
    BY <1>1, <1>2, <1>3, FirstOfOne

LEMMA ShareMapIInv ==
  ASSUME IInv, ShareMap
  PROVE  IInv'
  <1> DEFINE m == First(InMaps(CurArr))
  <1>1. /\ vi \in DOMAIN req /\ Maps \in Seq(FONcMap) /\ InMaps(CurArr) # {} /\ Working
        /\ UNCHANGED <<req, obj, Dimensions, InGrid, DimNameNum, file>>
    BY MapCursor DEF ShareMap, IInv, TypeOK, StaticsOK, Working
  <1>2. m \in DOMAIN Maps
    BY <1>1, InMapsIsOne
  <1> HIDE DEF m
  <1>3. Maps' = [Maps EXCEPT ![m].ref = @ + 1] /\ Hold(m)
    BY DEF ShareMap, IncrefMap, m
  <1>4. /\ Maps' \in Seq(FONcMap) /\ DOMAIN Maps' = DOMAIN Maps
        /\ \A n \in DOMAIN Maps : Maps'[n].arr = Maps[n].arr /\ Maps'[n].ingrid = Maps[n].ingrid
    <2>1. Maps[m] \in FONcMap
      BY <1>1, <1>2
    <2>2. /\ [Maps[m] EXCEPT !.ref = @ + 1] \in FONcMap
          /\ [Maps[m] EXCEPT !.ref = @ + 1].arr = Maps[m].arr
          /\ [Maps[m] EXCEPT !.ref = @ + 1].ingrid = Maps[m].ingrid
      BY <2>1 DEF FONcMap
    <2>3. Maps' = [Maps EXCEPT ![m] = [Maps[m] EXCEPT !.ref = @ + 1]]
      BY <1>3
    <2> QED
      BY <1>1, <1>2, <2>2, <2>3
  <1>5. StaticsOK' /\ ObjectsOK' /\ FileOK'
    BY <1>1, <1>4 DEF IInv, TypeOK, StaticsOK, ObjectsOK, FileOK, file
  <1>6. HeldOK' /\ PointersOK'
    BY <1>1, <1>2, <1>3, <1>4, HoldTypes DEF IInv, TypeOK, PointersOK
  <1>7. /\ Goto("maps", vi, mi + 1) /\ UNCHANGED <<req, status, made, InGrid>> /\ pc = "maps"
        /\ CurVar' = CurVar
    BY DEF ShareMap, Goto, CurVar
  <1>8. ControlOK' /\ pc' = "maps" /\ vi' = vi /\ mi' = mi + 1
    BY <1>7, ControlTypes, GotoControl
  <1>9. CursorOK' /\ EarlierOK'
    BY <1>4, <1>7, <1>8, ControlTypes DEF CursorOK, EarlierOK, IInv
  <1>10. KeysOK' /\ MadeOK' /\ OwnersOK' /\ DimNamesDistinct' /\ MapsDistinct'
    BY <1>1, <1>4, <1>7, <1>8 DEF IInv, KeysOK, MadeOK, OwnersOK, ValidKey, DimNamesDistinct, MapsDistinct
  <1> QED
    BY <1>5, <1>6, <1>8, <1>9, <1>10 DEF IInv, TypeOK

LEMMA MapDoneIInv ==
  ASSUME IInv, MapDone
  PROVE  IInv'
  <1>1. /\ pc = "dims" /\ mi > 0 /\ Cur \in DOMAIN obj /\ Working
        /\ Maps' = Append(Maps, NewMap(Cur, TRUE)) /\ Hold(Len(Maps) + 1)
        /\ Goto("maps", vi, mi + 1) /\ CurVar.kind = "Grid"
        /\ UNCHANGED <<req, status, made, obj, Dimensions, InGrid, DimNameNum, file>>
    BY CurTypes DEF MapDone, DimsDone, Working
  <1>2. vi \in DOMAIN req /\ InMaps(ArrOf(req, Cur)) = {} /\ InGrid /\ Cur[1] = vi /\ Cur[2] = mi
    BY <1>1 DEF IInv, CursorOK, KeysOK, ValidKey, Cur, CurArr
  <1>3. ControlOK' /\ pc' = "maps" /\ vi' = vi /\ mi' = mi + 1
    BY <1>1, ControlTypes, GotoControl
  <1>4. \A m \in DOMAIN Maps : Maps[m].arr # Cur
    BY <1>1, <1>2, ControlTypes DEF IInv, EarlierOK
  <1>5. /\ Maps' \in Seq(FONcMap)
        /\ DOMAIN Maps \subseteq DOMAIN Maps' /\ Len(Maps) + 1 \in DOMAIN Maps'
        /\ MapsDistinct' /\ OwnersOK'
        /\ \A m \in DOMAIN Maps' : /\ Maps'[m].arr \in DOMAIN obj
                                   /\ Maps'[m].arr = Cur \/ (m \in DOMAIN Maps /\ Maps'[m] = Maps[m])
    BY <1>1, <1>2, <1>3, <1>4, NewMapIInv
  <1>6. StaticsOK' /\ ObjectsOK' /\ FileOK'
    BY <1>1, <1>5 DEF IInv, TypeOK, StaticsOK, ObjectsOK, FileOK, file
  <1>7. Len(Maps) + 1 \in Nat
    BY DEF IInv, TypeOK, StaticsOK
  <1>8. HeldOK' /\ PointersOK'
    BY <1>1, <1>2, <1>5, <1>7, HoldTypes DEF IInv, TypeOK, PointersOK
  <1>9. CursorOK'
    BY <1>1, <1>2, <1>3, ControlTypes DEF CursorOK, CurVar
  <1>10. EarlierOK'
    <2>1. \A m \in DOMAIN Maps : \/ Maps[m].arr[1] < vi
                                 \/ Maps[m].arr[1] = vi /\ 0 < Maps[m].arr[2] /\ Maps[m].arr[2] < mi
      BY <1>1 DEF EarlierOK, IInv
    <2>2. \A m \in DOMAIN Maps : \/ Maps[m].arr[1] < vi
                                 \/ Maps[m].arr[1] = vi /\ 0 < Maps[m].arr[2] /\ Maps[m].arr[2] < mi + 1
      BY <2>1, ControlTypes
    <2>3. Cur[1] = vi /\ 0 < Cur[2] /\ Cur[2] < mi + 1
      BY <1>1, <1>2, ControlTypes
    <2> QED
      BY <1>3, <1>5, <2>2, <2>3 DEF EarlierOK
  <1>11. KeysOK' /\ MadeOK' /\ DimNamesDistinct'
    BY <1>1, <1>5 DEF IInv, KeysOK, MadeOK, ValidKey, DimNamesDistinct
  <1> QED
    BY <1>3, <1>5, <1>6, <1>8, <1>9, <1>10, <1>11 DEF IInv, TypeOK

(* The steps that end the conversion of an array outside of a grid.        *)
LEMMA CoordinateIInv ==
  ASSUME IInv, RegisterCoordinate \/ DropCoordinate
  PROVE  IInv'
  <1>1. /\ Cur \in DOMAIN obj /\ Working /\ obj[Cur] \in FONcArray
        /\ Maps \in Seq(FONcMap) /\ Len(Maps) + 1 \in Nat
        /\ UNCHANGED <<req, status, made, held, Dimensions, InGrid, DimNameNum, file>>
        /\ pc = "dims" /\ mi = 0 /\ Cur[1] = vi /\ Cur[2] = 0
        /\ ControlOK' /\ pc' = "convert" /\ vi' = vi + 1
    <2>1. /\ pc = "dims" /\ ~InGrid /\ Goto("convert", vi + 1, 0)
          /\ UNCHANGED <<req, status, made, held, Dimensions, InGrid, DimNameNum, file>>
      BY DEF RegisterCoordinate, DropCoordinate, DimsDone, MayBeMap, statics
    <2>2. Cur \in DOMAIN obj /\ mi = 0 /\ Cur[1] = vi /\ Cur[2] = mi
      BY <2>1, CurTypes, ControlTypes DEF IInv, CursorOK, Cur
    <2>3. obj[Cur] \in FONcArray /\ Maps \in Seq(FONcMap) /\ Len(Maps) + 1 \in Nat /\ Working
      BY <2>1, <2>2 DEF IInv, TypeOK, ObjectsOK, StaticsOK, Working
    <2>4. ControlOK' /\ pc' = "convert" /\ vi' = vi + 1
      BY <2>1, ControlTypes, GotoControl
    <2> QED
      BY <2>1, <2>2, <2>3, <2>4
  <1>2. /\ DOMAIN obj' = DOMAIN obj /\ \A p \in DOMAIN obj : obj'[p] \in FONcArray
        /\ \A p \in DOMAIN obj : obj'[p].dims = obj[p].dims
    <2>1. CASE RegisterCoordinate
      <3>1. obj' = [obj EXCEPT ![Cur] = [obj[Cur] EXCEPT !.map = Len(Maps) + 1]]
        BY <2>1 DEF RegisterCoordinate
      <3>2. /\ [obj[Cur] EXCEPT !.map = Len(Maps) + 1] \in FONcArray
            /\ [obj[Cur] EXCEPT !.map = Len(Maps) + 1].dims = obj[Cur].dims
        BY <1>1 DEF FONcArray
      <3> QED
        BY <1>1, <3>1, <3>2 DEF IInv, TypeOK, ObjectsOK
    <2>2. CASE DropCoordinate
      <3>1. obj' = [obj EXCEPT ![Cur] = [obj[Cur] EXCEPT !.dontUse = TRUE]]
        BY <2>2 DEF DropCoordinate
      <3>2. /\ [obj[Cur] EXCEPT !.dontUse = TRUE] \in FONcArray
            /\ [obj[Cur] EXCEPT !.dontUse = TRUE].dims = obj[Cur].dims
        BY <1>1 DEF FONcArray
      <3> QED
        BY <1>1, <3>1, <3>2 DEF IInv, TypeOK, ObjectsOK
    <2> QED
      BY <2>1, <2>2
  <1>3. /\ Maps' \in Seq(FONcMap) /\ DOMAIN Maps \subseteq DOMAIN Maps' /\ MapsDistinct' /\ OwnersOK'
        /\ \A m \in DOMAIN Maps' : /\ Maps'[m].arr \in DOMAIN obj
                                   /\ Maps'[m].arr = Cur \/ (m \in DOMAIN Maps /\ Maps'[m] = Maps[m])
    <2>1. CASE RegisterCoordinate
      <3>1. /\ InMaps(ArrOf(req, Cur)) = {} /\ Maps' = Append(Maps, NewMap(Cur, FALSE))
            /\ UNCHANGED <<req, Dimensions>>
        BY <2>1 DEF RegisterCoordinate, CurArr
      <3>2. \A m \in DOMAIN Maps : Maps[m].arr # Cur
        BY <1>1, ControlTypes DEF IInv, EarlierOK
      <3> QED
        BY <1>1, <3>1, <3>2, NewMapIInv
    <2>2. CASE DropCoordinate
      BY <1>1, <2>2 DEF DropCoordinate, statics, IInv, KeysOK, OwnersOK, MapsDistinct
    <2> QED
      BY <2>1, <2>2
  <1>4. ObjectsOK' /\ HeldOK' /\ StaticsOK' /\ FileOK'
    BY <1>1, <1>2, <1>3 DEF IInv, TypeOK, ObjectsOK, HeldOK, StaticsOK, FileOK, file
  <1>5. PointersOK'
    BY <1>1, <1>2, <1>3 DEF IInv, TypeOK, PointersOK
  <1>6. CursorOK' /\ EarlierOK'
    <2>1. \A m \in DOMAIN Maps : Maps[m].arr[1] < vi + 1
      BY <1>1, ControlTypes DEF IInv, EarlierOK
    <2>2. Cur[1] < vi + 1
      BY <1>1, ControlTypes
    <2> QED
      BY <1>1, <1>3, <2>1, <2>2 DEF CursorOK, EarlierOK
  <1>7. KeysOK' /\ MadeOK' /\ DimNamesDistinct'
    BY <1>1, <1>2, <1>3 DEF IInv, KeysOK, MadeOK, ValidKey, DimNamesDistinct
  <1> QED
    BY <1>1, <1>3, <1>4, <1>5, <1>6, <1>7 DEF IInv, TypeOK

(* The steps that find or make a dimension for the array being converted.  *)
LEMMA NamedIsOne ==
  ASSUME IInv, NEW name, Named(name) # {}
  PROVE  First(Named(name)) \in Named(name) /\ First(Named(name)) \in DOMAIN Dimensions
  <1>1. Named(name) \subseteq DOMAIN Dimensions /\ DOMAIN Dimensions \subseteq Nat
    BY DEF IInv, TypeOK, StaticsOK, Named
  <1>2. PICK x \in Named(name) : TRUE
    OBVIOUS
  <1>3. \A y \in Named(name) : y = x
    BY DEF IInv, DimNamesDistinct, Named
  <1> QED
    BY <1>1, <1>2, <1>3, FirstOfOne

LEMMA PushIInv ==
  ASSUME IInv, pc = "dims", NEW d \in DOMAIN Dimensions', PushDim(d), NextDim,
         Dimensions' \in Seq(FONcDim), DOMAIN Dimensions \subseteq DOMAIN Dimensions',
         DimNamesDistinct', UNCHANGED <<req, status, made, held, Maps, InGrid, DimNameNum, file>>
  PROVE  IInv'
  <1>1. Cur \in DOMAIN obj /\ obj[Cur] \in FONcArray /\ Working /\ Working'
    BY CurTypes DEF IInv, TypeOK, ObjectsOK, NextDim, Working
  <1>2. obj[Cur].dims \in Seq(Nat) /\ d \in Nat
    BY <1>1 DEF FONcArray
  <1>3. /\ Append(obj[Cur].dims, d) \in Seq(Nat)
        /\ \A k \in DOMAIN Append(obj[Cur].dims, d) :
              Append(obj[Cur].dims, d)[k] \in DOMAIN Dimensions'
    BY <1>1, <1>2, AppendProperties DEF IInv, TypeOK, PointersOK
  <1>4. obj' = [obj EXCEPT ![Cur] = [obj[Cur] EXCEPT !.dims = Append(obj[Cur].dims, d)]]
    BY DEF PushDim
  <1>5. /\ [obj[Cur] EXCEPT !.dims = Append(obj[Cur].dims, d)] \in FONcArray
        /\ [obj[Cur] EXCEPT !.dims = Append(obj[Cur].dims, d)].dims = Append(obj[Cur].dims, d)
    BY <1>1, <1>3 DEF FONcArray
  <1>6. /\ DOMAIN obj' = DOMAIN obj
        /\ \A p \in DOMAIN obj : obj'[p] \in FONcArray
        /\ \A p \in DOMAIN obj : \A k \in DOMAIN obj'[p].dims : obj'[p].dims[k] \in DOMAIN Dimensions'
    BY <1>1, <1>3, <1>4, <1>5 DEF IInv, TypeOK, ObjectsOK, PointersOK
  <1>7. ObjectsOK' /\ HeldOK' /\ StaticsOK' /\ PointersOK' /\ FileOK'
    BY <1>6 DEF IInv, TypeOK, ObjectsOK, HeldOK, StaticsOK, PointersOK, FileOK, file
  <1>8. ControlOK'
    BY DEF NextDim, IInv, TypeOK, ControlOK
  <1>9. CursorOK' /\ EarlierOK'
    <2>1. UNCHANGED <<pc, vi, mi, Cur, CurVar, CurArr, InMaps(CurArr)>>
      BY DEF NextDim, Cur, CurVar, CurArr, InMaps
    <2> QED
      BY <1>6, <2>1 DEF IInv, CursorOK, EarlierOK
  <1>10. KeysOK' /\ MadeOK' /\ OwnersOK' /\ MapsDistinct'
    BY <1>1, <1>6 DEF IInv, KeysOK, MadeOK, OwnersOK, ValidKey, MapsDistinct, Working
  <1> QED
    BY <1>7, <1>8, <1>9, <1>10 DEF IInv, TypeOK

LEMMA AddDimIInv ==
  ASSUME IInv, pc = "dims", NEW name \in Path, NEW size \in Nat, Named(name) = {},
         AddDim(name, size), NextDim,
         UNCHANGED <<req, status, made, held, Maps, InGrid, DimNameNum, file>>
  PROVE  IInv'
  <1>1. /\ Dimensions \in Seq(FONcDim) /\ NewDim(name, size) \in FONcDim
        /\ NewDim(name, size).name = name
    BY DEF IInv, TypeOK, StaticsOK, NewDim, FONcDim
  <1>2. /\ Dimensions' \in Seq(FONcDim) /\ Len(Dimensions') = Len(Dimensions) + 1
        /\ \A i \in 1..Len(Dimensions) : Dimensions'[i] = Dimensions[i]
        /\ Dimensions'[Len(Dimensions) + 1] = NewDim(name, size)
    BY <1>1, AppendProperties DEF AddDim
  <1>3. DimNamesDistinct'
    BY <1>1, <1>2 DEF IInv, DimNamesDistinct, Named
  <1>4. Len(Dimensions) + 1 \in DOMAIN Dimensions' /\ DOMAIN Dimensions \subseteq DOMAIN Dimensions'
    BY <1>1, <1>2
  <1> QED
    BY <1>2, <1>3, <1>4, PushIInv DEF AddDim

LEMMA UseDimIInv ==
  ASSUME IInv, pc = "dims", NEW d \in DOMAIN Dimensions, NEW size \in Nat,
         UseDim(d, size), NextDim,
         UNCHANGED <<req, status, made, held, Maps, InGrid, DimNameNum, file>>
  PROVE  IInv'
  <1> DEFINE more == Dimensions[d].ref + 1
             counted == [Dimensions[d] EXCEPT !.ref = more]
             new == [counted EXCEPT !.size = size]
  <1>1. Dimensions \in Seq(FONcDim) /\ Dimensions[d] \in FONcDim
    BY DEF IInv, TypeOK, StaticsOK
  <1>2. new \in FONcDim /\ new.name = Dimensions[d].name
    <2>1. more \in Int
      BY <1>1 DEF FONcDim
    <2> HIDE DEF more
    <2>2. counted \in FONcDim /\ counted.name = Dimensions[d].name
      BY <1>1, <2>1 DEF FONcDim
    <2> HIDE DEF counted
    <2> QED
      BY <2>2 DEF FONcDim
  <1>3. Dimensions' = [Dimensions EXCEPT ![d] = new]
    BY <1>1 DEF UseDim
  <1> HIDE DEF new
  <1>4. /\ Dimensions' \in Seq(FONcDim) /\ DOMAIN Dimensions' = DOMAIN Dimensions
        /\ \A c \in DOMAIN Dimensions : Dimensions'[c].name = Dimensions[c].name
    BY <1>1, <1>2, <1>3
  <1>5. DimNamesDistinct'
    BY <1>4 DEF IInv, DimNamesDistinct
  <1> QED
    BY <1>4, <1>5, PushIInv DEF UseDim

LEMMA DimensionIInv ==
  ASSUME IInv, ShareDim \/ NewDimension \/ ShareLength \/ NewLength
  PROVE  IInv'
  <1>1. /\ pc = "dims" /\ NextDim
        /\ UNCHANGED <<req, status, made, held, Maps, InGrid, DimNameNum, file>>
    BY DEF ShareDim, NewDimension, ShareLength, NewLength, AtLength
  <1>2. CurArr \in Arr /\ CurEmbed \in Path /\ obj[Cur].varname \in Path
    BY <1>1, CurTypes DEF IInv, TypeOK, ObjectsOK, FONcArray
  <1>3. CurArr.dims \in Seq(Dim) /\ CurArr.len \in Nat
    BY <1>2 DEF Arr
  <1>4. \A d \in Dim : Wanted(d) \in Path /\ d.size \in Nat
    <2> SUFFICES ASSUME NEW d \in Dim PROVE Wanted(d) \in Path /\ d.size \in Nat
      OBVIOUS
    <2>1. d.name \in Path /\ d.size \in Nat
      BY DEF Dim
    <2>2. gen_name(CurEmbed, d.name) \in Path
      BY <1>2, <2>1, GenNameIsPath
    <2> QED
      BY <2>1, <2>2 DEF Wanted
  <1>5. di <= Len(CurArr.dims) => CurArr.dims[di] \in Dim
    BY <1>3, ControlTypes
  <1>6. LenName \in Path
    BY <1>2, WithLenIsPath DEF LenName
  <1>7. \A d \in DOMAIN Dimensions : Dimensions[d].size \in Nat
    <2>1. \A d \in DOMAIN Dimensions : Dimensions[d] \in FONcDim
      BY DEF IInv, TypeOK, StaticsOK
    <2> QED
      BY <2>1 DEF FONcDim
  <1>8. CASE ShareDim
    <2> DEFINE want == Wanted(CurArr.dims[di])
               size == CurArr.dims[di].size
               d == First(Named(want))
    <2>1. UseDim(d, size) /\ Named(want) # {} /\ di <= Len(CurArr.dims)
      BY <1>8 DEF ShareDim
    <2>2. d \in DOMAIN Dimensions /\ size \in Nat
      BY <1>4, <1>5, <2>1, NamedIsOne
    <2> HIDE DEF want, size, d
    <2> QED
      BY <1>1, <2>1, <2>2, UseDimIInv
  <1>9. CASE NewDimension
    <2> DEFINE want == Wanted(CurArr.dims[di])
               size == CurArr.dims[di].size
    <2>1. AddDim(want, size) /\ Named(want) = {} /\ di <= Len(CurArr.dims)
      BY <1>9 DEF NewDimension
    <2>2. want \in Path /\ size \in Nat
      BY <1>4, <1>5, <2>1
    <2> HIDE DEF want, size
    <2> QED
      BY <1>1, <2>1, <2>2, AddDimIInv
  <1>10. CASE ShareLength
    <2> DEFINE d == First(Named(LenName))
               size == IF Dimensions[d].size < CurArr.len THEN CurArr.len ELSE Dimensions[d].size
    <2>1. UseDim(d, size) /\ Named(LenName) # {}
      BY <1>10 DEF ShareLength
    <2>2. d \in DOMAIN Dimensions
      BY <2>1, NamedIsOne
    <2>3. size \in Nat
      BY <1>3, <1>7, <2>2
    <2> HIDE DEF size, d
    <2> QED
      BY <1>1, <2>1, <2>2, <2>3, UseDimIInv
  <1>11. CASE NewLength
    <2>1. AddDim(LenName, CurArr.len) /\ Named(LenName) = {}
      BY <1>11 DEF NewLength
    <2> QED
      BY <1>1, <1>3, <1>6, <2>1, AddDimIInv
  <1> QED
    BY <1>8, <1>9, <1>10, <1>11

---------------------------------------------------------------------------
(* A request arrives.                                                      *)
LEMMA BeginIInv ==
  ASSUME IInv, NEW r \in Requests, Begin(r)
  PROVE  IInv'
  <1>1. r \in Seq(Var) /\ Len(r) \in Nat /\ DOMAIN r = 1..Len(r)
    BY RequestsAssumption
  <1>2. /\ req' = r /\ obj' = << >> /\ Dimensions' = << >> /\ Maps' = << >>
        /\ held' = [i \in DOMAIN r |-> << >>] /\ made' = {} /\ pc' = "convert"
        /\ ncDims' = << >> /\ ncVars' = << >> /\ elided' = {} /\ ncOpen' = FALSE
        /\ InGrid' = InGrid /\ DimNameNum' = 0 /\ status' = "ok"
        /\ vi' = 1 /\ mi' = 0 /\ di' = 1
    BY DEF Begin, Goto, ResetStatics
  <1>3. ControlOK' /\ ObjectsOK' /\ StaticsOK' /\ FileOK'
    <2>1. ControlOK' /\ ObjectsOK'
      BY <1>1, <1>2 DEF ControlOK, ObjectsOK
    <2>2. InGrid' \in BOOLEAN
      BY <1>2 DEF IInv, TypeOK, StaticsOK
    <2>3. StaticsOK' /\ FileOK'
      BY <1>2, <2>2, EmptySeq DEF StaticsOK, FileOK
    <2> QED
      BY <2>1, <2>3
  <1>4. HeldOK' /\ PointersOK'
    <2> DEFINE e(i) == << >>
    <2>1. \A i \in 1..Len(r) : e(i) \in Seq(Nat)
      BY EmptySeq
    <2>2. held' = [i \in 1..Len(r) |-> e(i)]
      BY <1>1, <1>2
    <2>3. \A i \in 1..Len(r) : DOMAIN e(i) = {}
      OBVIOUS
    <2> HIDE DEF e
    <2>4. held' \in Seq(Seq(Nat)) /\ DOMAIN held' = 1..Len(r)
      BY <1>1, <2>1, <2>2, IsASeq
    <2>5. Len(held') = Len(r)
      BY <1>1, <2>4
    <2>6. \A i \in DOMAIN held' : DOMAIN held'[i] = {}
      BY <2>2, <2>3, <2>4
    <2> QED
      BY <1>2, <2>4, <2>5, <2>6 DEF HeldOK, PointersOK
  <1>5. CursorOK' /\ EarlierOK' /\ KeysOK' /\ MadeOK' /\ OwnersOK' /\ DimNamesDistinct' /\ MapsDistinct'
    BY <1>2 DEF CursorOK, EarlierOK, KeysOK, MadeOK, OwnersOK, DimNamesDistinct, MapsDistinct
  <1> QED
    BY <1>3, <1>4, <1>5 DEF IInv, TypeOK
---------------------------------------------------------------------------
(* Define mode.                                                            *)

(* What a variable hands define() and write() on to is alive.              *)
LEMMA TargetsAlive ==
  ASSUME IInv, Working, vi \in DOMAIN req
  PROVE  Targets(vi) \in Seq(DOMAIN obj) /\ Len(Targets(vi)) \in Nat
  <1>1. /\ req \in Seq(Var) /\ held \in Seq(Seq(Nat)) /\ Len(held) = Len(req)
        /\ \A m \in DOMAIN Maps : Maps[m].arr \in DOMAIN obj
        /\ \A k \in DOMAIN held[vi] : held[vi][k] \in DOMAIN Maps
    BY DEF IInv, TypeOK, ControlOK, HeldOK, KeysOK, PointersOK
  <1>2. held[vi] \in Seq(Nat) /\ Len(held[vi]) \in Nat /\ DOMAIN held[vi] = 1..Len(held[vi])
    BY <1>1
  <1> DEFINE e(k) == Maps[held[vi][k]].arr
             own == IF <<vi, 0>> \in DOMAIN obj /\ req[vi].kind # "Sequence"
                    THEN << <<vi, 0>> >> ELSE << >>
  <1>3. \A k \in 1..Len(held[vi]) : e(k) \in DOMAIN obj
    BY <1>1, <1>2
  <1>4. Targets(vi) = [k \in 1..Len(held[vi]) |-> e(k)] \o own
    BY <1>2 DEF Targets
  <1>5. own \in Seq(DOMAIN obj)
    <2>1. CASE <<vi, 0>> \in DOMAIN obj
      BY <2>1, EmptySeq, SeqOfOne
    <2>2. CASE <<vi, 0>> \notin DOMAIN obj
      BY <2>2, EmptySeq
    <2> QED
      BY <2>1, <2>2
  <1> HIDE DEF e, own
  <1>6. Targets(vi) \in Seq(DOMAIN obj)
    BY <1>2, <1>3, <1>4, <1>5, IsASeq, ConcatProperties
  <1> QED
    BY <1>6

LEMMA TargetTypes ==
  ASSUME IInv, Working, vi \in DOMAIN req, mi \in 1..Len(Targets(vi))
  PROVE  /\ At \in DOMAIN obj /\ At \in Key /\ ValidKey(At)
         /\ obj[At] \in FONcArray /\ ArrOf(req, At) \in Arr /\ NcTypeOf(At) \in NcTypes
  <1>1. At \in DOMAIN obj
    BY TargetsAlive DEF At
  <1>2. At \in Key /\ ValidKey(At) /\ obj[At] \in FONcArray
    BY <1>1 DEF IInv, TypeOK, ObjectsOK, KeysOK
  <1>3. ArrOf(req, At) \in Arr
    BY <1>2, KeyTypes DEF IInv, TypeOK, ControlOK
  <1>4. NcTypeOf(At) \in NcTypes
    BY DEF NcTypeOf, NcTypes, get_nc_type, scalar_type
  <1> QED
    BY <1>1, <1>2, <1>3, <1>4

(* A step that sets ids of objects and dimensions, or nothing.             *)
LEMMA DefineStep ==
  ASSUME IInv, pc \in {"define", "write"}, UNCHANGED <<req, made, held, Maps, InGrid>>,
         DimNameNum' \in Nat, pc' \in {"define", "write", "destroy"}, mi' > 0, ControlOK', FileOK',
         DOMAIN obj' = DOMAIN obj, \A p \in DOMAIN obj : obj'[p] \in FONcArray /\ obj'[p].dims = obj[p].dims,
         Dimensions' \in Seq(FONcDim), DOMAIN Dimensions' = DOMAIN Dimensions,
         \A d \in DOMAIN Dimensions : Dimensions'[d].name = Dimensions[d].name
  PROVE  IInv'
  <1>1. ObjectsOK' /\ HeldOK' /\ StaticsOK' /\ PointersOK'
    BY DEF IInv, TypeOK, ObjectsOK, HeldOK, StaticsOK, PointersOK
  <1>2. CursorOK' /\ EarlierOK' /\ Working
    BY DEF CursorOK, EarlierOK, Working
  <1>3. KeysOK' /\ MadeOK' /\ DimNamesDistinct' /\ MapsDistinct'
    BY <1>2 DEF IInv, KeysOK, MadeOK, ValidKey, DimNamesDistinct, MapsDistinct
  <1>4. OwnersOK'
    BY <1>2 DEF IInv, KeysOK, OwnersOK
  <1> QED
    BY <1>1, <1>2, <1>3, <1>4 DEF IInv, TypeOK

LEMMA DefVarTypes ==
  ASSUME IInv, Working, NEW p \in DOMAIN obj, NcTypeOf(p) \in NcTypes,
         NEW ds \in Seq(Nat), DefVar(p, ds)
  PROVE  /\ ncVars' \in Seq(NcVar) /\ DOMAIN obj' = DOMAIN obj
         /\ \A q \in DOMAIN obj : obj'[q] \in FONcArray /\ obj'[q].dims = obj[q].dims
  <1>1. /\ ncVars \in Seq(NcVar) /\ obj[p] \in FONcArray /\ Len(ncVars) + 1 \in Nat
        /\ \A q \in DOMAIN obj : obj[q] \in FONcArray
    BY DEF IInv, TypeOK, FileOK, ObjectsOK
  <1> DEFINE var == [name |-> obj[p].varname, type |-> NcTypeOf(p), dims |-> ds, data |-> NoKey]
             arr == [obj[p] EXCEPT !.varid = Len(ncVars) + 1]
  <1>2. var \in NcVar
    BY <1>1 DEF NcVar, FONcArray, NoKey, Key
  <1>3. arr \in FONcArray /\ arr.dims = obj[p].dims
    BY <1>1 DEF FONcArray
  <1>4. ncVars' = Append(ncVars, var) /\ obj' = [obj EXCEPT ![p] = arr]
    BY DEF DefVar
  <1> HIDE DEF var, arr
  <1> QED
    BY <1>1, <1>2, <1>3, <1>4, AppendProperties

(* A file that a dimension is added to.                                    *)
LEMMA NewNcDim ==
  ASSUME IInv, NEW name \in Path, NEW size \in Nat,
         ncDims' = Append(ncDims, [name |-> name, size |-> size])
  PROVE  ncDims' \in Seq(NcDim) /\ Len(ncDims) + 1 \in Nat
  <1>1. ncDims \in Seq(NcDim) /\ [name |-> name, size |-> size] \in NcDim
    BY DEF IInv, TypeOK, FileOK, NcDim
  <1> QED
    BY <1>1, AppendProperties

(* The netCDF file is given up.                                            *)
LEMMA RefuseIInv ==
  ASSUME IInv, pc \in {"create", "define", "write"}, NEW why \in {"conflict", "failure"},
         ThrowAndClose(why), DimNameNum' \in Nat,
         UNCHANGED <<req, converted, Dimensions, Maps, InGrid, ncDims, ncVars, elided>>
  PROVE  IInv'
  <1>1. ControlOK' /\ CursorOK' /\ EarlierOK' /\ pc' = "destroy"
    BY ThrowControl DEF ThrowAndClose, converted
  <1>2. FileOK' /\ InGrid' \in BOOLEAN
    BY DEF IInv, TypeOK, FileOK, StaticsOK, ThrowAndClose
  <1> QED
    <2>1. MadeOK'
      BY <1>1 DEF MadeOK, Working
    <2> QED
      BY <1>1, <1>2, <2>1, FrameIInv DEF Working, converted
(* The steps that define nothing.                                          *)
LEMMA PassIInv ==
  ASSUME IInv,
         \/ CreateFile \/ DefineSequence \/ SkipDefined \/ SkipDefinedDim \/ DefineNext
         \/ EndDefine \/ SkipWrite \/ WriteNext \/ CloseFile
  PROVE  IInv'
  <1>1. /\ UNCHANGED <<req, status, made, obj, held, Dimensions, Maps, InGrid, DimNameNum>>
        /\ pc \in {"create", "define", "write"}
    BY DEF CreateFile, DefineSequence, SkipDefined, SkipDefinedDim, DefineNext, EndDefine, SkipWrite,
           WriteNext, CloseFile, Defining, InDefine, Writing, converted, statics
  <1>2. FileOK'
    <2>1. CASE DefineSequence
      <3>1. vi \in DOMAIN req /\ elided' = elided \cup {obj[<<vi, 0>>].varname}
        BY <2>1, ControlTypes DEF DefineSequence
      <3>2. UNCHANGED <<ncOpen, ncDims, ncVars>> /\ vi \in made
        BY <2>1 DEF DefineSequence
      <3>3. obj[<<vi, 0>>].varname \in Path
        <4>1. <<vi, 0>> \in DOMAIN obj
          BY <1>1, <2>1, <3>2 DEF DefineSequence, CurVar, IInv, MadeOK, Working
        <4>2. obj[<<vi, 0>>] \in FONcArray
          BY <4>1 DEF IInv, TypeOK, ObjectsOK
        <4> QED
          BY <4>2 DEF FONcArray
      <3> QED
        BY <3>1, <3>2, <3>3 DEF IInv, TypeOK, FileOK
    <2>2. CASE ~DefineSequence
      BY <2>2 DEF IInv, TypeOK, FileOK, CreateFile, SkipDefined, SkipDefinedDim, DefineNext, EndDefine,
             SkipWrite, WriteNext, CloseFile, file
    <2> QED
      BY <2>1, <2>2
  <1>3. ControlOK' /\ (pc' \in {"define", "write"} => mi' > 0) /\ pc' \in {"define", "write", "destroy"}
    <2>1. CASE SkipDefinedDim
      BY <2>1 DEF SkipDefinedDim, Defining, InDefine, NextDim, IInv, TypeOK, ControlOK, CursorOK, converted
    <2>2. CASE ~SkipDefinedDim
      <3>1. \/ Goto("define", vi + 1, 1) \/ Goto("define", 1, 1) \/ Goto("write", 1, 1)
            \/ Goto("write", vi + 1, 1) \/ Goto("destroy", 1, 1)
            \/ Goto("define", vi, mi + 1) \/ Goto("write", vi, mi + 1)
        BY <2>2 DEF CreateFile, DefineSequence, SkipDefined, DefineNext, EndDefine, SkipWrite,
                    WriteNext, CloseFile, NextTarget
      <3> QED
        BY <1>1, <3>1, ControlTypes, GotoControl
    <2> QED
      BY <2>1, <2>2
  <1>4. CursorOK' /\ EarlierOK'
    BY <1>3 DEF CursorOK, EarlierOK
  <1>5. MadeOK'
    BY <1>1 DEF IInv, MadeOK, Working
  <1> QED
    BY <1>1, <1>2, <1>3, <1>4, <1>5, FrameIInv DEF Working, IInv, TypeOK, StaticsOK
LEMMA VarsIInv ==
  ASSUME IInv, pc = "define", NEW p \in DOMAIN obj, NcTypeOf(p) \in NcTypes,
         NEW ds \in Seq(Nat), DefVar(p, ds), NextTarget, ncDims' \in Seq(NcDim),
         UNCHANGED <<req, status, made, held, statics, ncOpen, elided>>
  PROVE  IInv'
  <1>1. Working
    BY DEF Working
  <1>2. /\ ncVars' \in Seq(NcVar) /\ DOMAIN obj' = DOMAIN obj
        /\ \A q \in DOMAIN obj : obj'[q] \in FONcArray /\ obj'[q].dims = obj[q].dims
    BY <1>1, DefVarTypes
  <1>3. ControlOK' /\ pc' = "define" /\ mi' > 0
    BY ControlTypes, GotoControl DEF NextTarget
  <1>4. FileOK'
    BY <1>2 DEF IInv, TypeOK, FileOK
  <1>5. Dimensions' \in Seq(FONcDim) /\ DimNameNum' \in Nat
    BY DEF IInv, TypeOK, StaticsOK, statics
  <1> QED
    BY <1>2, <1>3, <1>4, <1>5, DefineStep DEF statics

LEMMA DefineVarIInv ==
  ASSUME IInv, DefineScalar \/ DefineStr \/ DefineArray
  PROVE  IInv'
  <1>1. pc = "define" /\ vi \in DOMAIN req /\ mi \in 1..Len(Targets(vi)) /\ Working
    <2>1. pc = "define" /\ vi <= Len(req) /\ mi <= Len(Targets(vi)) /\ Working
      BY DEF DefineScalar, DefineStr, DefineArray, Defining, InDefine, Working
    <2>2. mi \in Nat /\ mi > 0
      BY <2>1, ControlTypes DEF IInv, CursorOK
    <2> QED
      BY <2>1, <2>2, ControlTypes, TargetsAlive
  <1>2. /\ At \in DOMAIN obj /\ At \in Key /\ obj[At] \in FONcArray
        /\ ArrOf(req, At) \in Arr /\ NcTypeOf(At) \in NcTypes
    BY <1>1, TargetTypes
  <1>3. /\ UNCHANGED <<req, made, held, Dimensions, Maps, InGrid, DimNameNum, elided>>
        /\ ncDims \in Seq(NcDim) /\ DimNameNum \in Nat
    BY DEF DefineScalar, DefineStr, DefineArray, statics, IInv, TypeOK, FileOK, StaticsOK
  <1>4. CASE Refuse /\ UNCHANGED <<obj, ncDims, ncVars>>
    BY <1>1, <1>3, <1>4, RefuseIInv DEF Refuse, converted
  <1>5. ASSUME NEW ds \in Seq(Nat), DefVar(At, ds), NextTarget, ncDims' \in Seq(NcDim),
               UNCHANGED <<status, ncOpen>>
        PROVE  IInv'
    BY <1>1, <1>2, <1>3, <1>5, VarsIInv DEF statics
  <1>6. CASE DefineScalar
    BY <1>3, <1>4, <1>5, <1>6, EmptySeq DEF DefineScalar
  <1>7. CASE DefineStr
    <2>1. SUFFICES ASSUME ~(Refuse /\ UNCHANGED <<obj, ncDims, ncVars>>) PROVE IInv'
      BY <1>4
    <2>2. /\ ncDims' = Append(ncDims, [name |-> WithLen(obj[At].varname), size |-> ArrOf(req, At).len])
          /\ DefVar(At, <<Len(ncDims) + 1>>) /\ NextTarget /\ UNCHANGED <<status, ncOpen>>
      BY <1>7, <2>1 DEF DefineStr
    <2>3. WithLen(obj[At].varname) \in Path /\ ArrOf(req, At).len \in Nat
      BY <1>2, WithLenIsPath DEF FONcArray, Arr
    <2>4. ncDims' \in Seq(NcDim) /\ <<Len(ncDims) + 1>> \in Seq(Nat)
      BY <2>2, <2>3, NewNcDim, SeqOfOne
    <2> QED
      BY <1>5, <2>2, <2>4
  <1>8. CASE DefineArray
    <2> DEFINE e(k) == Dimensions[obj[At].dims[k]].dimid
               ds == [k \in DOMAIN obj[At].dims |-> Dimensions[obj[At].dims[k]].dimid]
    <2>1. SUFFICES ASSUME ~(Refuse /\ UNCHANGED <<obj, ncDims, ncVars>>) PROVE IInv'
      BY <1>4
    <2>2. DefVar(At, ds) /\ NextTarget /\ UNCHANGED <<status, ncOpen, ncDims>>
      BY <1>8, <2>1 DEF DefineArray
    <2>3. /\ obj[At].dims \in Seq(Nat) /\ Len(obj[At].dims) \in Nat
          /\ DOMAIN obj[At].dims = 1..Len(obj[At].dims)
      BY <1>2 DEF FONcArray
    <2>4. \A k \in 1..Len(obj[At].dims) : e(k) \in Nat
      <3> SUFFICES ASSUME NEW k \in 1..Len(obj[At].dims) PROVE e(k) \in Nat
        OBVIOUS
      <3>1. Dimensions[obj[At].dims[k]] \in FONcDim
        BY <1>2, <2>3 DEF IInv, TypeOK, PointersOK, StaticsOK
      <3> QED
        BY <3>1 DEF FONcDim
    <2>5. ds = [k \in 1..Len(obj[At].dims) |-> e(k)]
      BY <2>3
    <2> HIDE DEF e, ds
    <2>6. ds \in Seq(Nat)
      BY <2>3, <2>4, <2>5, IsASeq
    <2> QED
      BY <1>3, <1>5, <2>2, <2>6
  <1> QED
    BY <1>6, <1>7, <1>8

LEMMA DefineDimIInv ==
  ASSUME IInv, DefineDim
  PROVE  IInv'
  <1>1. pc = "define" /\ vi \in DOMAIN req /\ mi \in 1..Len(Targets(vi)) /\ Working /\ mi > 0
    <2>1. pc = "define" /\ vi <= Len(req) /\ mi <= Len(Targets(vi)) /\ Working
      BY DEF DefineDim, Defining, InDefine, Working
    <2>2. mi \in Nat /\ mi > 0
      BY <2>1, ControlTypes DEF IInv, CursorOK
    <2> QED
      BY <2>1, <2>2, ControlTypes, TargetsAlive
  <1>2. At \in DOMAIN obj /\ obj[At] \in FONcArray
    BY <1>1, TargetTypes
  <1>3. CurDim \in DOMAIN Dimensions /\ Dimensions[CurDim] \in FONcDim
    <2>1. obj[At].dims \in Seq(Nat) /\ di <= Len(obj[At].dims)
      BY <1>2 DEF FONcArray, DefineDim
    <2>2. di \in DOMAIN obj[At].dims
      BY <2>1, ControlTypes
    <2> QED
      BY <1>2, <2>2 DEF CurDim, IInv, TypeOK, PointersOK, StaticsOK
  <1>4. Dimensions[CurDim].name \in Path /\ Dimensions[CurDim].size \in Nat
    BY <1>3 DEF FONcDim
  <1>5. DimNameNum \in Nat /\ DimNameNum' \in Nat /\ DimNameNum + 1 \in Nat
    BY DEF DefineDim, IInv, TypeOK, StaticsOK
  <1>6. DimIdentifier \in Path
    BY <1>4, <1>5, AutoDimIsPath, IdentifierIsPath DEF DimIdentifier
  <1>7. UNCHANGED <<req, converted, Maps, InGrid, ncVars, elided>>
    BY DEF DefineDim
  <1>8. CASE Refuse /\ UNCHANGED <<Dimensions, ncDims>>
    BY <1>1, <1>5, <1>7, <1>8, RefuseIInv DEF Refuse
  <1>9. CASE ~(Refuse /\ UNCHANGED <<Dimensions, ncDims>>)
    <2> DEFINE new == [Dimensions[CurDim] EXCEPT !.dimid = Len(ncDims) + 1]
    <2>1. /\ ncDims' = Append(ncDims, [name |-> DimIdentifier, size |-> Dimensions[CurDim].size])
          /\ Dimensions' = [Dimensions EXCEPT ![CurDim] = new]
          /\ NextDim /\ UNCHANGED <<status, ncOpen>>
      BY <1>9 DEF DefineDim
    <2>2. ncDims' \in Seq(NcDim) /\ Len(ncDims) + 1 \in Nat
      BY <1>4, <1>6, <2>1, NewNcDim
    <2>3. new \in FONcDim /\ new.name = Dimensions[CurDim].name
      BY <1>3, <2>2 DEF FONcDim
    <2> HIDE DEF new
    <2>4. /\ Dimensions' \in Seq(FONcDim) /\ DOMAIN Dimensions' = DOMAIN Dimensions
          /\ \A d \in DOMAIN Dimensions : Dimensions'[d].name = Dimensions[d].name
      <3>1. Dimensions \in Seq(FONcDim)
        BY DEF IInv, TypeOK, StaticsOK
      <3> QED
        BY <1>3, <2>1, <2>3, <3>1
    <2>5. ControlOK' /\ pc' = "define" /\ mi' > 0
      BY <1>1, <1>7, <2>1, ControlTypes DEF NextDim, IInv, TypeOK, ControlOK, converted
    <2>6. FileOK' /\ \A p \in DOMAIN obj : obj[p] \in FONcArray
      BY <1>7, <2>1, <2>2 DEF IInv, TypeOK, FileOK, ObjectsOK
    <2> QED
      BY <1>1, <1>5, <1>7, <2>4, <2>5, <2>6, DefineStep DEF converted
  <1> QED
    BY <1>8, <1>9
---------------------------------------------------------------------------
(* Data mode, and what goes wrong.                                         *)

LEMMA WriteDataIInv ==
  ASSUME IInv, WriteData
  PROVE  IInv'
  <1>1. pc = "write" /\ vi \in DOMAIN req /\ mi \in 1..Len(Targets(vi)) /\ Working /\ mi + 1 > 0
    <2>1. pc = "write" /\ vi <= Len(req) /\ mi <= Len(Targets(vi)) /\ Working
      BY DEF WriteData, Writing, Working
    <2>2. mi \in Nat /\ mi > 0
      BY <2>1, ControlTypes DEF IInv, CursorOK
    <2> QED
      BY <2>1, <2>2, ControlTypes, TargetsAlive
  <1>2. At \in Key
    BY <1>1, TargetTypes
  <1>3. /\ Goto("write", vi, mi + 1) /\ ncVars' = [ncVars EXCEPT ![obj[At].varid].data = At]
        /\ UNCHANGED <<req, status, made, obj, held, Dimensions, Maps, InGrid, DimNameNum,
                       ncOpen, ncDims, elided>>
    BY DEF WriteData, converted, statics
  <1>4. ncVars' \in Seq(NcVar)
    <2>1. ncVars \in Seq(NcVar)
      BY DEF IInv, TypeOK, FileOK
    <2> DEFINE v == obj[At].varid
    <2>2. CASE v \in DOMAIN ncVars
      <3>1. ncVars[v] \in NcVar
        BY <2>1, <2>2
      <3> DEFINE new == [ncVars[v] EXCEPT !.data = At]
      <3>2. new \in NcVar
        BY <1>2, <3>1 DEF NcVar
      <3>3. ncVars' = [ncVars EXCEPT ![v] = new]
        BY <1>3
      <3> HIDE DEF new, v
      <3> QED
        BY <2>1, <2>2, <3>2, <3>3
    <2>3. CASE v \notin DOMAIN ncVars
      <3>1. ncVars' = ncVars
        BY <1>3, <2>1, <2>3
      <3> QED
        BY <2>1, <3>1
    <2> QED
      BY <2>2, <2>3
  <1>5. ControlOK' /\ pc' = "write" /\ mi' = mi + 1
    BY <1>3, ControlTypes, GotoControl DEF IInv, TypeOK, ControlOK
  <1>6. FileOK' /\ CursorOK' /\ EarlierOK' /\ MadeOK'
    BY <1>1, <1>3, <1>4, <1>5 DEF IInv, TypeOK, FileOK, CursorOK, EarlierOK, MadeOK
  <1> QED
    BY <1>1, <1>3, <1>5, <1>6, FrameIInv DEF IInv, TypeOK, StaticsOK

LEMMA FailIInv ==
  ASSUME IInv, NcFails \/ LibraryThrows
  PROVE  IInv'
  <1>1. CASE NcFails
    <2>1. DimNameNum' \in Nat
      BY <1>1 DEF NcFails, statics, IInv, TypeOK, StaticsOK
    <2> QED
      BY <1>1, <2>1, RefuseIInv DEF NcFails, statics
  <1>2. CASE LibraryThrows
    <2>1. /\ Throw("other") /\ Working
          /\ UNCHANGED <<req, made, obj, held, Dimensions, Maps, InGrid, DimNameNum, file>>
      BY <1>2 DEF LibraryThrows, Working, converted, statics
    <2>2. ControlOK' /\ CursorOK' /\ EarlierOK' /\ pc' = "destroy"
      BY <2>1, ThrowControl
    <2>3. MadeOK' /\ FileOK' /\ InGrid' \in BOOLEAN /\ DimNameNum' \in Nat
      BY <2>1, <2>2 DEF MadeOK, Working, IInv, TypeOK, FileOK, StaticsOK, file
    <2> QED
      BY <2>1, <2>2, <2>3, FrameIInv
  <1> QED
    BY <1>1, <1>2

---------------------------------------------------------------------------
(* The destructor.                                                         *)

(* Variable i lets go of a map a number of times.                          *)
LEMMA TimesIsNat ==
  ASSUME IInv, NEW i \in DOMAIN req, NEW m
  PROVE  Times(i, m) \in Nat
  <1>1. held[i] \in Seq(Nat)
    BY DEF IInv, TypeOK, HeldOK, ControlOK
  <1>2. IsFiniteSet(DOMAIN held[i])
    BY <1>1, FS_Interval
  <1>3. Cardinality({k \in DOMAIN held[i] : held[i][k] = m}) \in Nat
    <2>1. {k \in DOMAIN held[i] : held[i][k] = m} \in SUBSET DOMAIN held[i]
      OBVIOUS
    <2> QED
      BY <1>2, <2>1, FS_Subset, FS_CardinalityType
  <1>4. Cardinality({p \in Own(i) : obj[p].map = m}) \in Nat
    <2>1. {p \in Own(i) : obj[p].map = m} \in SUBSET {<<i, 0>>}
      BY DEF Own
    <2> QED
      BY <2>1, FS_Singleton, FS_Subset, FS_CardinalityType
  <1> QED
    BY <1>3, <1>4 DEF Times

(* What is deleted with variable i is alive and finitely much.             *)
LEMMA GoneIsAlive ==
  ASSUME IInv, NEW i \in DOMAIN req, pc = "destroy"
  PROVE  Gone(i) \subseteq DOMAIN obj /\ IsFiniteSet(Gone(i))
  <1>1. \A m \in Dying(i) : m \in DOMAIN Maps /\ Maps[m].ingrid /\ Maps[m].ref > 0
    BY DEF Dying
  <1> DEFINE Arrays == {Maps[m].arr : m \in Dying(i)}
             f == [m \in Dying(i) |-> Maps[m].arr]
  <1>2. Arrays \subseteq DOMAIN obj
    BY <1>1 DEF IInv, OwnersOK
  <1>3. IsFiniteSet(Dying(i))
    <2>1. IsFiniteSet(DOMAIN Maps)
      BY FS_Interval DEF IInv, TypeOK, StaticsOK
    <2>2. Dying(i) \in SUBSET DOMAIN Maps
      BY <1>1
    <2> QED
      BY <2>1, <2>2, FS_Subset
  <1>4. f \in Surjection(Dying(i), Arrays)
    BY DEF Surjection
  <1>5. IsFiniteSet(Arrays)
    BY <1>3, <1>4, FS_Surjection
  <1>6. Own(i) \subseteq DOMAIN obj /\ IsFiniteSet(Own(i))
    <2>1. Own(i) \in SUBSET {<<i, 0>>} /\ Own(i) \subseteq DOMAIN obj
      BY DEF Own
    <2> QED
      BY <2>1, FS_Singleton, FS_Subset
  <1>7. Gone(i) = Own(i) \cup Arrays
    BY DEF Gone
  <1> QED
    BY <1>2, <1>5, <1>6, <1>7, FS_Union

LEMMA UsesIsNat ==
  ASSUME IInv, NEW P, P \subseteq DOMAIN obj, IsFiniteSet(P), NEW d
  PROVE  Cardinality(Uses(P, d)) \in Nat
  <1> DEFINE use(p) == {<<p, k>> : k \in {j \in DOMAIN obj[p].dims : obj[p].dims[j] = d}}
             All == {use(p) : p \in P}
             f == [p \in P |-> use(p)]
  <1>1. \A T \in All : IsFiniteSet(T)
    <2> SUFFICES ASSUME NEW p \in P PROVE IsFiniteSet(use(p))
      OBVIOUS
    <2> DEFINE K == {j \in DOMAIN obj[p].dims : obj[p].dims[j] = d}
               g == [k \in K |-> <<p, k>>]
    <2>1. obj[p].dims \in Seq(Nat)
      BY DEF IInv, TypeOK, ObjectsOK, FONcArray
    <2>2. K \in SUBSET DOMAIN obj[p].dims /\ IsFiniteSet(DOMAIN obj[p].dims)
      BY <2>1, FS_Interval
    <2>3. IsFiniteSet(K)
      BY <2>2, FS_Subset
    <2>4. g \in Surjection(K, use(p))
      BY DEF Surjection
    <2> QED
      BY <2>3, <2>4, FS_Surjection
  <1>2. f \in Surjection(P, All)
    BY DEF Surjection
  <1>3. IsFiniteSet(All)
    BY <1>2, FS_Surjection
  <1>4. IsFiniteSet(UNION All)
    BY <1>1, <1>3, FS_UNION
  <1>5. Uses(P, d) = UNION All
    BY DEF Uses
  <1> QED
    BY <1>4, <1>5, FS_CardinalityType
LEMMA DestroyVarIInv ==
  ASSUME IInv, DestroyVar
  PROVE  IInv'
  <1>1. /\ pc = "destroy" /\ vi \in DOMAIN req
        /\ Goto("destroy", vi + 1, 1) /\ made' = made \ {vi}
        /\ UNCHANGED <<req, status, InGrid, DimNameNum, file>>
        /\ obj' = [p \in DOMAIN obj \ Gone(vi) |-> obj[p]]
        /\ held' = [held EXCEPT ![vi] = << >>]
    BY ControlTypes DEF DestroyVar
  <1>2. ControlOK' /\ pc' = "destroy"
    BY <1>1, ControlTypes, GotoControl
  <1>3. /\ Maps \in Seq(FONcMap) /\ Dimensions \in Seq(FONcDim)
        /\ held \in Seq(Seq(Nat)) /\ Len(held) = Len(req) /\ req \in Seq(Var)
    BY DEF IInv, TypeOK, StaticsOK, HeldOK, ControlOK
  <1>4. /\ Maps' \in Seq(FONcMap) /\ DOMAIN Maps' = DOMAIN Maps
        /\ \A m \in DOMAIN Maps : /\ Maps'[m].arr = Maps[m].arr
                                /\ Maps'[m].ingrid = Maps[m].ingrid
                                /\ Maps'[m].ref = Maps[m].ref - Times(vi, m)
    <2> DEFINE e(m) == [Maps[m] EXCEPT !.ref = @ - Times(vi, m)]
    <2>1. Maps' = [m \in 1..Len(Maps) |-> e(m)] /\ Len(Maps) \in Nat
      BY <1>3 DEF DestroyVar
    <2>2. \A m \in 1..Len(Maps) : /\ e(m) \in FONcMap
                                /\ e(m).arr = Maps[m].arr /\ e(m).ingrid = Maps[m].ingrid
                                /\ e(m).ref = Maps[m].ref - Times(vi, m)
      <3> SUFFICES ASSUME NEW m \in 1..Len(Maps)
                   PROVE  /\ e(m) \in FONcMap
                          /\ e(m).arr = Maps[m].arr /\ e(m).ingrid = Maps[m].ingrid
                          /\ e(m).ref = Maps[m].ref - Times(vi, m)
        OBVIOUS
      <3> DEFINE fewer == Maps[m].ref - Times(vi, m)
      <3>1. Maps[m] \in FONcMap /\ Times(vi, m) \in Nat
        BY <1>1, <1>3, TimesIsNat
      <3>2. fewer \in Int
        BY <3>1 DEF FONcMap
      <3>3. e(m) = [Maps[m] EXCEPT !.ref = fewer]
        OBVIOUS
      <3> HIDE DEF fewer, e
      <3>4. /\ e(m) \in FONcMap /\ e(m).arr = Maps[m].arr /\ e(m).ingrid = Maps[m].ingrid
            /\ e(m).ref = fewer
        BY <3>1, <3>2, <3>3 DEF FONcMap
      <3> QED
        BY <3>4 DEF fewer
    <2> HIDE DEF e
    <2>3. Maps' \in Seq(FONcMap)
      BY <2>1, <2>2, IsASeq
    <2> QED
      BY <1>3, <2>1, <2>2, <2>3
  <1>5. /\ Dimensions' \in Seq(FONcDim) /\ DOMAIN Dimensions' = DOMAIN Dimensions
        /\ \A d \in DOMAIN Dimensions : Dimensions'[d].name = Dimensions[d].name
    <2> DEFINE e(d) == [Dimensions[d] EXCEPT !.ref = @ - Cardinality(Uses(Gone(vi), d))]
    <2>1. Dimensions' = [d \in 1..Len(Dimensions) |-> e(d)] /\ Len(Dimensions) \in Nat
      BY <1>3 DEF DestroyVar
    <2>2. \A d \in 1..Len(Dimensions) : e(d) \in FONcDim /\ e(d).name = Dimensions[d].name
      <3> SUFFICES ASSUME NEW d \in 1..Len(Dimensions)
                   PROVE  e(d) \in FONcDim /\ e(d).name = Dimensions[d].name
        OBVIOUS
      <3> DEFINE fewer == Dimensions[d].ref - Cardinality(Uses(Gone(vi), d))
      <3>1. Dimensions[d] \in FONcDim /\ Cardinality(Uses(Gone(vi), d)) \in Nat
        <4>1. Gone(vi) \subseteq DOMAIN obj /\ IsFiniteSet(Gone(vi))
          BY <1>1, GoneIsAlive
        <4>2. Cardinality(Uses(Gone(vi), d)) \in Nat
          BY <4>1, UsesIsNat
        <4> QED
          BY <1>3, <4>2
      <3>2. fewer \in Int
        BY <3>1 DEF FONcDim
      <3>3. e(d) = [Dimensions[d] EXCEPT !.ref = fewer]
        OBVIOUS
      <3> HIDE DEF fewer, e
      <3> QED
        BY <3>1, <3>2, <3>3 DEF FONcDim
    <2> HIDE DEF e
    <2>3. Dimensions' \in Seq(FONcDim)
      BY <2>1, <2>2, IsASeq
    <2> QED
      BY <1>3, <2>1, <2>2, <2>3
  <1>6. /\ DOMAIN obj' = DOMAIN obj \ Gone(vi)
        /\ \A p \in DOMAIN obj' : p \in DOMAIN obj /\ obj'[p] = obj[p]
    BY <1>1
  <1>7. StaticsOK' /\ ObjectsOK' /\ FileOK'
    BY <1>1, <1>4, <1>5, <1>6 DEF IInv, TypeOK, StaticsOK, ObjectsOK, FileOK, file
  <1>8. HeldOK' /\ DOMAIN held' = DOMAIN held /\ held'[vi] = << >>
        /\ \A i \in DOMAIN held : i # vi => held'[i] = held[i]
    BY <1>1, <1>3, EmptySeq, ExceptSeq DEF HeldOK
  <1>9. PointersOK'
    <2>1. \A p \in DOMAIN obj' : \A k \in DOMAIN obj'[p].dims : obj'[p].dims[k] \in DOMAIN Dimensions'
      BY <1>5, <1>6 DEF IInv, TypeOK, PointersOK
    <2>2. \A i \in DOMAIN held' : \A k \in DOMAIN held'[i] : held'[i][k] \in DOMAIN Maps'
      BY <1>4, <1>8 DEF IInv, TypeOK, PointersOK
    <2> QED
      BY <2>1, <2>2 DEF PointersOK
  <1>10. CursorOK' /\ EarlierOK' /\ MadeOK' /\ MapsDistinct'
    BY <1>2 DEF CursorOK, EarlierOK, MadeOK, MapsDistinct, Working
  <1>11. KeysOK' /\ DimNamesDistinct'
    BY <1>1, <1>2, <1>5, <1>6 DEF IInv, KeysOK, ValidKey, DimNamesDistinct, Working
  <1>12. OwnersOK'
    <2>1. \A m \in DOMAIN Maps : Maps[m].ingrid => Maps[m].arr[2] > 0
      BY DEF IInv, OwnersOK
    <2>2. \A m \in DOMAIN Maps : Maps'[m].ingrid /\ Maps'[m].ref > 0 => Maps'[m].arr \in DOMAIN obj'
      <3> SUFFICES ASSUME NEW m \in DOMAIN Maps, Maps'[m].ingrid, Maps'[m].ref > 0
                   PROVE  Maps'[m].arr \in DOMAIN obj'
        OBVIOUS
      <3>1. Maps[m].ingrid /\ Maps[m].ref - Times(vi, m) > 0 /\ Maps'[m].arr = Maps[m].arr
        BY <1>4
      <3>2. Times(vi, m) \in Nat /\ Maps[m].ref \in Int
        <4>1. Maps[m] \in FONcMap
          BY <1>3
        <4> QED
          BY <1>1, <4>1, TimesIsNat DEF FONcMap
      <3>3. Maps[m].ref > 0 /\ Maps[m].ref # Times(vi, m)
        BY <3>1, <3>2
      <3>4. Maps[m].arr \in DOMAIN obj
        BY <1>1, <3>1, <3>3 DEF IInv, OwnersOK
      <3>5. Maps[m].arr \notin Own(vi)
        BY <2>1, <3>1 DEF Own
      <3>6. \A n \in Dying(vi) : Maps[n].arr # Maps[m].arr
        BY <3>3 DEF IInv, OwnersOK, Dying
      <3> QED
        BY <1>6, <3>1, <3>4, <3>5, <3>6 DEF Gone
    <2> QED
      BY <1>4, <2>2 DEF IInv, OwnersOK
  <1> QED
    BY <1>2, <1>7, <1>8, <1>9, <1>10, <1>11, <1>12 DEF IInv, TypeOK

LEMMA DestroyNextIInv ==
  ASSUME IInv, DestroyNext
  PROVE  IInv'
  <1>1. /\ pc = "destroy" /\ Goto("destroy", vi + 1, 1)
        /\ UNCHANGED <<req, status, made, obj, held, Dimensions, Maps, InGrid, DimNameNum, file>>
    BY DEF DestroyNext, converted, statics
  <1>2. ControlOK' /\ pc' = "destroy"
    BY <1>1, ControlTypes, GotoControl
  <1>3. CursorOK' /\ EarlierOK' /\ MadeOK'
    BY <1>2 DEF CursorOK, EarlierOK, MadeOK, Working
  <1>4. FileOK' /\ InGrid' \in BOOLEAN /\ DimNameNum' \in Nat
    BY <1>1 DEF IInv, TypeOK, FileOK, StaticsOK, file
  <1> QED
    BY <1>1, <1>2, <1>3, <1>4, FrameIInv DEF Working

LEMMA FinishIInv ==
  ASSUME IInv, Finish
  PROVE  IInv'
  <1>1. /\ pc' = "idle" /\ req' = << >> /\ status' = "ok" /\ made' = {} /\ obj' = << >>
        /\ held' = << >> /\ ncOpen' = FALSE /\ ncDims' = << >> /\ ncVars' = << >> /\ elided' = {}
        /\ vi' = 1 /\ mi' = 1 /\ di' = 1
    BY DEF Finish, Goto
  <1>2. \/ Dimensions' = << >> /\ Maps' = << >> /\ InGrid' = FALSE /\ DimNameNum' = 0
        \/ UNCHANGED <<Dimensions, Maps, InGrid, DimNameNum>>
    BY DEF Finish, statics
  <1>3. ControlOK' /\ ObjectsOK' /\ HeldOK' /\ PointersOK' /\ FileOK'
    <2>1. ControlOK' /\ ObjectsOK'
      BY <1>1, EmptySeq DEF ControlOK, ObjectsOK
    <2>2. HeldOK' /\ PointersOK'
      BY <1>1, EmptySeq DEF HeldOK, PointersOK
    <2>3. FileOK'
      BY <1>1, EmptySeq DEF FileOK
    <2> QED
      BY <2>1, <2>2, <2>3
  <1>4. StaticsOK' /\ DimNamesDistinct'
    <2>1. CASE Dimensions' = << >> /\ Maps' = << >> /\ InGrid' = FALSE /\ DimNameNum' = 0
      <3>1. StaticsOK'
        BY <2>1, EmptySeq, Zenon DEF StaticsOK
      <3>2. DimNamesDistinct'
        BY <2>1 DEF DimNamesDistinct
      <3> QED
        BY <3>1, <3>2
    <2>2. CASE UNCHANGED <<Dimensions, Maps, InGrid, DimNameNum>>
      BY <2>2 DEF IInv, TypeOK, StaticsOK, DimNamesDistinct
    <2> QED
      BY <1>2, <2>1, <2>2
  <1>5. CursorOK' /\ EarlierOK' /\ KeysOK' /\ MadeOK' /\ MapsDistinct'
    BY <1>1 DEF CursorOK, EarlierOK, KeysOK, MadeOK, MapsDistinct, Working
  <1>6. OwnersOK'
    BY <1>1, <1>2 DEF IInv, OwnersOK
  <1> QED
    BY <1>3, <1>4, <1>5, <1>6 DEF IInv, TypeOK

---------------------------------------------------------------------------
(* The theorems.                                                           *)

(* Every step keeps the invariant.                                         *)
LEMMA StepIInv ==
  ASSUME IInv, [Next]_vars
  PROVE  IInv'
  <1>1. CASE \E r \in Requests : Begin(r)
    BY <1>1, BeginIInv
  <1>2. CASE Convert
    BY <1>2, MoveOnIInv, MakeIInv, ShareMapIInv, MapDoneIInv, CoordinateIInv, DimensionIInv
    DEF Convert
  <1>3. CASE Define
    BY <1>3, PassIInv, DefineVarIInv, DefineDimIInv DEF Define
  <1>4. CASE Write
    BY <1>4, PassIInv, WriteDataIInv DEF Write
  <1>5. CASE Destroy
    BY <1>5, DestroyVarIInv, DestroyNextIInv, FinishIInv DEF Destroy
  <1>6. CASE NcFails \/ LibraryThrows
    BY <1>6, FailIInv
  <1>7. CASE UNCHANGED vars
    <2>1. UNCHANGED <<pc, req, vi, mi, di, status, made, obj, held, Dimensions, Maps, InGrid,
                      DimNameNum, ncOpen, ncDims, ncVars, elided>>
      BY <1>7 DEF vars, cursor, converted, statics, file
    <2>2. ControlOK' /\ MadeOK' /\ FileOK' /\ (Working' <=> Working)
      BY <2>1 DEF IInv, TypeOK, ControlOK, MadeOK, FileOK, Working
    <2>3. CursorOK' /\ EarlierOK'
      BY <2>1 DEF IInv, CursorOK, EarlierOK, Cur, CurArr, CurVar, InMaps
    <2> QED
      BY <2>1, <2>2, <2>3, FrameIInv DEF IInv, TypeOK, StaticsOK
  <1> QED
    BY <1>1, <1>2, <1>3, <1>4, <1>5, <1>6, <1>7 DEF Next, Step

(* The inductive invariant: types, where the loops are, what was converted *)
(* before them, which objects and registrations exist and who owns a map,  *)
(* with OneDimPerName's and OneMapPerValue's facts about the registries.   *)
THEOREM Invariance == Spec => []IInv
  <1>1. Init => IInv
    BY InitIInv
  <1>2. IInv /\ [Next]_vars => IInv'
    BY StepIInv
  <1> QED
    BY <1>1, <1>2, PTL DEF Spec

(* Type correctness of FONcTransform: for all responses and failures, what *)
(* every object, dimension, map and file entry holds has its type, and the *)
(* pointers of arrays and grids point at dimensions and maps that exist.   *)
THEOREM TypeCorrect == Spec => []TypeOK
  <1>1. IInv => TypeOK
    BY DEF IInv
  <1> QED
    BY <1>1, Invariance, PTL

(* The registry FONcArray::Dimensions never holds two dimensions of one    *)
(* name, so that FONcArray::find_dim may stop at the first match.          *)
THEOREM OneDimPerName == Spec => []DimNamesDistinct
  <1>1. IInv => DimNamesDistinct
    BY DEF IInv
  <1> QED
    BY <1>1, Invariance, PTL

(* The registry FONcGrid::Maps never holds two maps that compare equal, so *)
(* that FONcGrid::InMaps may stop at the first match.                      *)
THEOREM OneMapPerValue == Spec => []MapsDistinct
  <1>1. IInv => MapsDistinct
    BY DEF IInv
  <1> QED
    BY <1>1, Invariance, PTL

---------------------------------------------------------------------------
(* The file.                                                               *)

(* The file is open in define and data mode, and after an error that       *)
(* transform() does not catch.                                             *)
OpenOK == ncOpen => pc \in {"define", "write"} \/ (pc = "destroy" /\ status = "other")

LEMMA StepOpenOK ==
  ASSUME OpenOK, [Next]_vars
  PROVE  OpenOK'
  <1>1. CASE \E r \in Requests : Begin(r)
    BY <1>1 DEF Begin, OpenOK
  <1>2. CASE Convert
    <2>1. ncOpen' = ncOpen /\ pc \in {"convert", "maps", "dims"}
      BY <1>2 DEF Convert, SkipUnsent, ConvertUnknown, ConvertSimple, ConvertArray, ConvertGrid,
             EndConvert, SkipMap, ShareMap, ConvertMap, ConvertGridArray, SkipGridArray, ShareDim,
             NewDimension, DimensionClash, ShareLength, NewLength, AtLength, RegisterCoordinate,
             DropCoordinate, ArrayDone, MapDone, GridArrayDone, DimsDone, file
    <2> QED
      BY <2>1 DEF OpenOK
  <1>3. CASE Define
    <2>1. CASE CreateFile \/ DefineSequence \/ DefineNext \/ EndDefine
      BY <2>1 DEF CreateFile, DefineSequence, DefineNext, EndDefine, Goto, OpenOK
    <2>2. CASE SkipDefined \/ SkipDefinedDim
      BY <2>2 DEF SkipDefined, SkipDefinedDim, Defining, InDefine, NextTarget, Goto, NextDim, OpenOK
    <2>3. CASE DefineScalar \/ DefineStr \/ DefineDim \/ DefineArray
      <3>1. Refuse \/ (pc = "define" /\ (NextTarget \/ NextDim))
        BY <2>3 DEF DefineScalar, DefineStr, DefineDim, DefineArray, Defining, InDefine
      <3> QED
        BY <3>1 DEF Refuse, ThrowAndClose, NextTarget, Goto, NextDim, OpenOK
    <2> QED
      BY <1>3, <2>1, <2>2, <2>3 DEF Define
  <1>4. CASE Write
    BY <1>4 DEF Write, WriteData, SkipWrite, WriteNext, CloseFile, Writing, Goto, OpenOK
  <1>5. CASE Destroy
    BY <1>5 DEF Destroy, DestroyVar, DestroyNext, Finish, Goto, file, OpenOK
  <1>6. CASE NcFails \/ LibraryThrows
    BY <1>6 DEF NcFails, LibraryThrows, ThrowAndClose, Throw, OpenOK
  <1>7. CASE UNCHANGED vars
    BY <1>7 DEF vars, file, OpenOK
  <1> QED
    BY <1>1, <1>2, <1>3, <1>4, <1>5, <1>6, <1>7 DEF Next, Step

(* Whatever happens, the file a client is answered with is closed, and so  *)
(* is one given up for an error that FONcTransform::transform catches.     *)
THEOREM FilesClosed == Spec => []NcClosed
  <1>1. Init => OpenOK
    BY DEF Init, OpenOK
  <1>2. OpenOK /\ [Next]_vars => OpenOK'
    BY StepOpenOK
  <1>3. OpenOK => NcClosed
    BY DEF OpenOK, NcClosed
  <1> QED
    BY <1>1, <1>2, <1>3, PTL DEF Spec

---------------------------------------------------------------------------
(* FONcGrid::InGrid.                                                       *)

(* The flag is set while a grid is converted, in a process of one request. *)
FlagOK ==
  /\ pc \in {"idle", "convert", "create", "define", "write"} => ~InGrid
  /\ InGridMeansGrid

LEMMA StepFlagOK ==
  ASSUME Standalone, IInv, FlagOK, [Next]_vars
  PROVE  FlagOK'
  <1>1. CASE \E r \in Requests : Begin(r)
    BY <1>1 DEF Begin, Goto, FlagOK, InGridMeansGrid
  <1>2. CASE SkipUnsent \/ ConvertSimple \/ EndConvert
    BY <1>2 DEF SkipUnsent, ConvertSimple, EndConvert, Goto, statics, FlagOK, InGridMeansGrid
  <1>3. CASE ConvertUnknown \/ DimensionClash \/ NcFails \/ LibraryThrows
    BY <1>3 DEF ConvertUnknown, DimensionClash, NcFails, LibraryThrows, ThrowAndClose, Throw,
                FlagOK, InGridMeansGrid
  <1>4. CASE ConvertArray
    BY <1>4 DEF ConvertArray, StartArray, Goto, statics, FlagOK, InGridMeansGrid, CurVar
  <1>5. CASE ConvertGrid
    BY <1>5 DEF ConvertGrid, Goto, FlagOK, InGridMeansGrid, CurVar
  <1>6. CASE SkipMap \/ ShareMap \/ ConvertMap \/ ConvertGridArray
    BY <1>6 DEF SkipMap, ShareMap, ConvertMap, ConvertGridArray, StartArray, Goto, statics, Cur,
                FlagOK, InGridMeansGrid, CurVar
  <1>7. CASE ShareDim \/ NewDimension \/ ShareLength \/ NewLength
    BY <1>7 DEF ShareDim, NewDimension, ShareLength, NewLength, NextDim, FlagOK, InGridMeansGrid, CurVar
  <1>8. CASE RegisterCoordinate \/ DropCoordinate
    <2>1. ~InGrid /\ InGrid' = InGrid /\ pc' = "convert"
      BY <1>8 DEF RegisterCoordinate, DropCoordinate, MayBeMap, statics, Goto
    <2> QED
      BY <2>1 DEF FlagOK, InGridMeansGrid
  <1>9. CASE ArrayDone
    BY <1>9 DEF ArrayDone, DimsDone, Goto, statics, FlagOK, InGridMeansGrid
  <1>10. CASE MapDone
    BY <1>10 DEF MapDone, DimsDone, Goto, FlagOK, InGridMeansGrid, CurVar
  <1>11. CASE SkipGridArray \/ GridArrayDone
    BY <1>11 DEF SkipGridArray, GridArrayDone, GridConverted, Goto, FlagOK, InGridMeansGrid
  <1>12. CASE Define
    <2>1. InGrid' = InGrid /\ pc \in {"create", "define"}
      BY <1>12 DEF Define, CreateFile, DefineScalar, DefineStr, DefineSequence, SkipDefined, DefineDim,
                   SkipDefinedDim, DefineArray, DefineNext, EndDefine, Defining, InDefine, statics
    <2>2. pc' \in {"define", "write", "destroy"}
      BY <1>12 DEF Define, CreateFile, DefineScalar, DefineStr, DefineSequence, SkipDefined, DefineDim,
                   SkipDefinedDim, DefineArray, DefineNext, EndDefine, Defining, InDefine,
                   NextTarget, NextDim, Goto, Refuse, ThrowAndClose, Throw
    <2> QED
      BY <2>1, <2>2 DEF FlagOK, InGridMeansGrid
  <1>13. CASE Write
    BY <1>13 DEF Write, WriteData, SkipWrite, WriteNext, CloseFile, Writing, Goto, statics,
                 FlagOK, InGridMeansGrid
  <1>14. CASE Destroy
    BY <1>14 DEF Destroy, DestroyVar, DestroyNext, Finish, Goto, FlagOK, InGridMeansGrid
  <1>15. CASE UNCHANGED vars
    BY <1>15 DEF vars, cursor, statics, FlagOK, InGridMeansGrid, CurVar
  <1> QED
    BY <1>1, <1>2, <1>3, <1>4, <1>5, <1>6, <1>7, <1>8, <1>9, <1>10, <1>11, <1>12, <1>13, <1>14, <1>15
    DEF Next, Step, Convert

(* In a process that answers one request, no array outside of a grid finds *)
(* FONcGrid::InGrid set, and every array of a grid does.                   *)
THEOREM FlagMeansGrid ==
  ASSUME Standalone
  PROVE  Spec => []InGridMeansGrid
  <1>1. Init => FlagOK
    BY DEF Init, FlagOK, InGridMeansGrid
  <1>2. IInv /\ FlagOK /\ [Next]_vars => FlagOK'
    BY StepFlagOK
  <1>3. FlagOK => InGridMeansGrid
    BY DEF FlagOK
  <1> QED
    BY <1>1, <1>2, <1>3, Invariance, PTL DEF Spec

---------------------------------------------------------------------------
(* Reference counts.                                                       *)

(* While a response is converted and written, counts only grow.            *)
Counted ==
  Working => /\ \A d \in DOMAIN Dimensions : Dimensions[d].ref > 0
             /\ \A m \in DOMAIN Maps : Maps[m].ref > 0

LEMMA CountTypes ==
  ASSUME IInv
  PROVE  /\ Dimensions \in Seq(FONcDim) /\ Maps \in Seq(FONcMap)
         /\ \A d \in DOMAIN Dimensions : Dimensions[d].ref \in Int
         /\ \A m \in DOMAIN Maps : Maps[m].ref \in Int
  <1>1. Dimensions \in Seq(FONcDim) /\ Maps \in Seq(FONcMap)
    BY DEF IInv, TypeOK, StaticsOK
  <1>2. /\ \A d \in DOMAIN Dimensions : Dimensions[d] \in FONcDim
        /\ \A m \in DOMAIN Maps : Maps[m] \in FONcMap
    BY <1>1
  <1> QED
    BY <1>1, <1>2 DEF FONcDim, FONcMap

LEMMA AddDimCounted ==
  ASSUME IInv, Working, Counted, NEW name, NEW size, AddDim(name, size), UNCHANGED Maps
  PROVE  Counted'
  <1>1. Dimensions' = Append(Dimensions, NewDim(name, size)) /\ NewDim(name, size).ref = 1
    BY DEF AddDim, NewDim
  <1>2. \A d \in DOMAIN Dimensions' : Dimensions'[d].ref > 0
    <2> SUFFICES ASSUME NEW d \in DOMAIN Dimensions' PROVE Dimensions'[d].ref > 0
      OBVIOUS
    <2>1. CASE d \in DOMAIN Dimensions
      BY <1>1, <2>1, CountTypes DEF Counted
    <2>2. CASE d \notin DOMAIN Dimensions
      <3>1. d = Len(Dimensions) + 1
        BY <1>1, <2>2, CountTypes
      <3>2. Dimensions'[d] = NewDim(name, size)
        BY <1>1, <3>1, CountTypes
      <3> QED
        BY <1>1, <3>2
    <2> QED
      BY <2>1, <2>2
  <1> QED
    BY <1>2 DEF Counted

LEMMA UseDimCounted ==
  ASSUME IInv, Working, Counted, NEW e, NEW size, UseDim(e, size), UNCHANGED Maps
  PROVE  Counted'
  <1>1. Dimensions' = [Dimensions EXCEPT ![e].ref = @ + 1, ![e].size = size]
    BY DEF UseDim
  <1>2. DOMAIN Dimensions' = DOMAIN Dimensions
    BY <1>1
  <1>3. \A d \in DOMAIN Dimensions : Dimensions'[d].ref > 0
    <2> SUFFICES ASSUME NEW d \in DOMAIN Dimensions PROVE Dimensions'[d].ref > 0
      OBVIOUS
    <2>1. Dimensions[d].ref \in Int /\ Dimensions[d].ref > 0 /\ Dimensions[d] \in FONcDim
      BY CountTypes DEF Counted
    <2>2. CASE d = e
      <3> DEFINE counted == [Dimensions[d] EXCEPT !.ref = @ + 1]
      <3>1. counted.ref = Dimensions[d].ref + 1
        BY <2>1 DEF FONcDim
      <3>2. Dimensions'[d] = [counted EXCEPT !.size = size]
        BY <1>1, <2>2
      <3> HIDE DEF counted
      <3>3. Dimensions'[d].ref = counted.ref
        BY <3>2
      <3> QED
        BY <2>1, <3>1, <3>3
    <2>3. CASE d # e
      BY <1>1, <2>1, <2>3
    <2> QED
      BY <2>2, <2>3
  <1> QED
    BY <1>2, <1>3 DEF Counted

LEMMA MapsCounted ==
  ASSUME IInv, Working, Counted, UNCHANGED Dimensions,
         \/ \E p, ingrid : Maps' = Append(Maps, NewMap(p, ingrid))
         \/ \E m : IncrefMap(m)
  PROVE  Counted'
  <1>1. ASSUME NEW p, NEW ingrid, Maps' = Append(Maps, NewMap(p, ingrid)),
               NEW m \in DOMAIN Maps'
        PROVE  Maps'[m].ref > 0
    <2>1. CASE m \in DOMAIN Maps
      BY <1>1, <2>1, CountTypes DEF Counted
    <2>2. CASE m \notin DOMAIN Maps
      <3>1. m = Len(Maps) + 1
        BY <1>1, <2>2, CountTypes
      <3>2. Maps'[m] = NewMap(p, ingrid)
        BY <1>1, <3>1, CountTypes
      <3> QED
        BY <3>2 DEF NewMap
    <2> QED
      BY <2>1, <2>2
  <1>2. ASSUME NEW n, IncrefMap(n), NEW m \in DOMAIN Maps'
        PROVE  Maps'[m].ref > 0
    <2>1. m \in DOMAIN Maps /\ Maps[m].ref \in Int /\ Maps[m].ref > 0 /\ Maps[m] \in FONcMap
      BY <1>2, CountTypes DEF Counted, IncrefMap
    <2>2. Maps'[m].ref = Maps[m].ref \/ Maps'[m].ref = Maps[m].ref + 1
      BY <1>2, <2>1 DEF IncrefMap, FONcMap
    <2> QED
      BY <2>1, <2>2
  <1> QED
    BY <1>1, <1>2 DEF Counted

LEMMA StepCounted ==
  ASSUME IInv, Counted, [Next]_vars
  PROVE  Counted'
  <1>1. CASE \E r \in Requests : Begin(r)
    BY <1>1 DEF Begin, ResetStatics, Counted
  <1>2. CASE ShareDim \/ NewDimension \/ ShareLength \/ NewLength
    <2>1. Working /\ UNCHANGED Maps
      BY <1>2 DEF ShareDim, NewDimension, ShareLength, NewLength, AtLength, Working
    <2>2. (\E d, size : UseDim(d, size)) \/ (\E name, size : AddDim(name, size))
      BY <1>2, Zenon DEF ShareDim, NewDimension, ShareLength, NewLength
    <2> QED
      BY <2>1, <2>2, UseDimCounted, AddDimCounted
  <1>3. CASE ShareMap \/ RegisterCoordinate \/ MapDone
    <2>1. Working /\ UNCHANGED Dimensions
      BY <1>3 DEF ShareMap, RegisterCoordinate, MapDone, DimsDone, Working
    <2>2. (\E p, ingrid : Maps' = Append(Maps, NewMap(p, ingrid))) \/ (\E m : IncrefMap(m))
      BY <1>3, Zenon DEF ShareMap, RegisterCoordinate, MapDone
    <2> QED
      BY <2>1, <2>2, MapsCounted
  <1>4. CASE DefineDim
    <2>1. pc = "define" /\ UNCHANGED Maps
      BY <1>4 DEF DefineDim, Defining, InDefine
    <2>2. DOMAIN Dimensions' = DOMAIN Dimensions
      BY <1>4 DEF DefineDim
    <2>3. \A d \in DOMAIN Dimensions : Dimensions'[d].ref = Dimensions[d].ref
      <3> SUFFICES ASSUME NEW d \in DOMAIN Dimensions PROVE Dimensions'[d].ref = Dimensions[d].ref
        OBVIOUS
      <3>1. Dimensions[d] \in FONcDim
        BY CountTypes
      <3> QED
        BY <1>4, <3>1 DEF DefineDim, FONcDim
    <2> QED
      BY <2>1, <2>2, <2>3 DEF Counted, Working
  <1>5. CASE Destroy
    BY <1>5 DEF Destroy, DestroyVar, DestroyNext, Finish, Goto, Counted, Working
  <1>6. CASE NcFails \/ LibraryThrows
    BY <1>6 DEF NcFails, LibraryThrows, ThrowAndClose, Throw, Counted, Working
  <1>7. CASE UNCHANGED vars
    BY <1>7 DEF vars, statics, Counted, Working
  <1>8. CASE \/ SkipUnsent \/ ConvertUnknown \/ ConvertSimple \/ ConvertArray \/ ConvertGrid
             \/ EndConvert \/ SkipMap \/ ConvertMap \/ ConvertGridArray \/ SkipGridArray
             \/ DimensionClash \/ DropCoordinate \/ ArrayDone \/ GridArrayDone
    <2>1. Working /\ UNCHANGED <<Dimensions, Maps>>
      BY <1>8 DEF SkipUnsent, ConvertUnknown, ConvertSimple, ConvertArray, ConvertGrid, EndConvert,
                  SkipMap, ConvertMap, ConvertGridArray, SkipGridArray, DimensionClash,
                  DropCoordinate, ArrayDone, GridArrayDone, DimsDone, statics, Working
    <2> QED
      BY <2>1 DEF Counted, Working
  <1>9. CASE \/ CreateFile \/ DefineScalar \/ DefineStr \/ DefineSequence \/ SkipDefined
             \/ SkipDefinedDim \/ DefineArray \/ DefineNext \/ EndDefine \/ Write
    <2>1. Working /\ UNCHANGED <<Dimensions, Maps>>
      BY <1>9 DEF CreateFile, DefineScalar, DefineStr, DefineSequence, SkipDefined, SkipDefinedDim,
                  DefineArray, DefineNext, EndDefine, Defining, InDefine, Write, WriteData, SkipWrite,
                  WriteNext, CloseFile, Writing, statics, Working
    <2> QED
      BY <2>1 DEF Counted, Working
  <1> QED
    BY <1>1, <1>2, <1>3, <1>4, <1>5, <1>6, <1>7, <1>8, <1>9 DEF Next, Step, Convert, Define

(* No dimension or map is deleted, nor the array of a map, while a response*)
(* is converted, defined and written, whatever earlier requests of the     *)
(* process left behind in the static vectors of FONcArray and FONcGrid.    *)
THEOREM RegistriesLive == Spec => []RegistryLive
  <1>1. Init => Counted
    BY DEF Init, Counted
  <1>2. IInv /\ Counted /\ [Next]_vars => Counted'
    BY StepCounted
  <1>3. IInv /\ Counted => RegistryLive
    BY DEF IInv, KeysOK, Counted, RegistryLive
  <1> QED
    BY <1>1, <1>2, <1>3, Invariance, PTL DEF Spec

---------------------------------------------------------------------------
(* FONcTransform::transform opens and closes the netCDF file as FONcFile   *)
(* says, for all responses, all failures and both ways of running it: the  *)
(* half of that agreement that FONcTransmitter takes for granted.          *)
phase == [u \in {1} |-> IF pc = "idle" THEN "away" ELSE IF pc # "destroy" THEN "working"
                        ELSE IF status = "ok" THEN "complete" ELSE "over"]
open == {u \in {1} : ncOpen /\ pc # "destroy"}
lost == {u \in {1} : ncOpen /\ pc = "destroy"}

(* The file is open in define and in data mode, and only there or after an *)
(* exception that transform() does not catch; and nothing went wrong yet   *)
(* while transform() is at work.                                           *)
FileInv ==
  /\ pc \in {"idle", "convert", "maps", "dims", "create", "define", "write", "destroy"}
  /\ ncOpen \in BOOLEAN
  /\ OpenOK
  /\ pc \in {"define", "write"} => ncOpen
  /\ pc # "destroy" => status = "ok"

(* A step of the program in terms of the phase and the handle.             *)
Stays ==
  /\ UNCHANGED <<status, ncOpen>>
  /\ \/ pc = "destroy" /\ pc' = "destroy"
     \/ /\ pc \in {"convert", "maps", "dims"}
        /\ pc' \in {"convert", "maps", "dims", "create"}
     \/ pc \in {"define", "write"} /\ pc' \in {"define", "write"}
Gives(why) == pc' = "destroy" /\ status' = why

LEMMA PhaseNow ==
  /\ pc = "idle" => phase[1] = "away"
  /\ pc \in {"convert", "maps", "dims", "create", "define", "write"} => phase[1] = "working"
  /\ pc = "destroy" /\ status = "ok" => phase[1] = "complete"
  /\ pc = "destroy" /\ status # "ok" => phase[1] = "over"
  BY DEF phase

LEMMA PhaseThen ==
  /\ pc' = "idle" => phase' = [phase EXCEPT ![1] = "away"]
  /\ pc' \in {"convert", "maps", "dims", "create", "define", "write"}
       => phase' = [phase EXCEPT ![1] = "working"]
  /\ pc' = "destroy" /\ status' = "ok" => phase' = [phase EXCEPT ![1] = "complete"]
  /\ pc' = "destroy" /\ status' # "ok" => phase' = [phase EXCEPT ![1] = "over"]
  BY DEF phase

LEMMA StaysFile ==
  ASSUME FileInv, Stays
  PROVE  FileInv' /\ UNCHANGED File!vars
  <1>1. FileInv'
    BY DEF Stays, FileInv, OpenOK
  <1>2. UNCHANGED <<phase, open, lost>>
    BY DEF Stays, phase, open, lost, FileInv
  <1> QED
    BY <1>1, <1>2 DEF File!vars, phase, open, lost

(* A request comes in.                                                     *)
LEMMA BeginFile ==
  ASSUME FileInv, NEW r, Begin(r)
  PROVE  FileInv' /\ File!Next
  <1>1. pc = "idle" /\ pc' = "convert" /\ status' = "ok" /\ ~ncOpen /\ ncOpen' = FALSE
    BY DEF Begin, Goto, FileInv, OpenOK
  <1>2. FileInv'
    BY <1>1 DEF FileInv, OpenOK
  <1>3. /\ phase[1] = "away" /\ phase' = [phase EXCEPT ![1] = "working"]
        /\ open' = open /\ lost' = lost
    BY <1>1, PhaseNow, PhaseThen DEF open, lost
  <1>4. File!Enter(1)
    BY <1>3 DEF File!Enter, File!Move, phase, open, lost
  <1> QED
    BY <1>2, <1>4 DEF File!Next

(* transform() gives up and closes the file if it is open.                 *)
LEMMA FailFile ==
  ASSUME FileInv, Working, NEW why \in {"conflict", "failure", "other"}, Gives(why), ncOpen' = FALSE
  PROVE  FileInv' /\ File!Next
  <1>1. pc' = "destroy" /\ status' # "ok" /\ ncOpen' = FALSE
    BY DEF Gives
  <1>2. FileInv'
    BY <1>1 DEF FileInv, OpenOK
  <1>3. /\ phase[1] = "working" /\ phase' = [phase EXCEPT ![1] = "over"]
        /\ open' = open \ {1} /\ lost' = lost
    BY <1>1, PhaseNow, PhaseThen DEF Working, open, lost
  <1>4. File!Fail(1)
    BY <1>3 DEF File!Fail, File!Move, phase, open, lost
  <1> QED
    BY <1>2, <1>4 DEF File!Next

(* An exception that transform() does not catch.                           *)
LEMMA ThrowFile ==
  ASSUME FileInv, LibraryThrows
  PROVE  FileInv' /\ File!Next
  <1>1. Working /\ Gives("other") /\ ncOpen' = ncOpen /\ "libdap" \in Failures
    BY DEF LibraryThrows, Throw, Gives, Working, file
  <1>2. CASE ncOpen
    <2>1. pc \in {"define", "write"} /\ pc' = "destroy" /\ status' = "other"
      BY <1>1, <1>2 DEF Gives, FileInv, OpenOK, Working
    <2>2. FileInv'
      BY <1>1, <2>1 DEF FileInv, OpenOK
    <2>3. /\ phase[1] = "working" /\ phase' = [phase EXCEPT ![1] = "over"]
          /\ 1 \in open /\ open' = open \ {1} /\ lost' = lost \cup {1}
      BY <1>1, <1>2, <2>1, PhaseNow, PhaseThen DEF open, lost
    <2>4. File!Lose(1)
      BY <1>1, <2>3 DEF File!Lose, File!Move, phase, open, lost
    <2> QED
      BY <2>2, <2>4 DEF File!Next
  <1>3. CASE ~ncOpen
    BY <1>1, <1>3, FailFile DEF FileInv
  <1> QED
    BY <1>2, <1>3

LEMMA ConvertFile ==
  ASSUME FileInv, Convert
  PROVE  FileInv' /\ [File!Next]_(File!vars)
  <1>1. CASE ConvertUnknown \/ DimensionClash
    <2>1. Working /\ Gives("conflict") /\ ncOpen' = ncOpen /\ ~ncOpen
      BY <1>1 DEF ConvertUnknown, DimensionClash, Throw, Gives, Working, file, FileInv, OpenOK
    <2>2. ncOpen' = FALSE
      BY <2>1 DEF FileInv
    <2> QED
      BY <2>1, <2>2, FailFile
  <1>2. CASE \/ SkipUnsent \/ ConvertSimple \/ ConvertArray \/ ConvertGrid \/ EndConvert
             \/ SkipMap \/ ShareMap \/ ConvertMap \/ ConvertGridArray \/ SkipGridArray
    <2>1. Stays
      BY <1>2 DEF SkipUnsent, ConvertSimple, ConvertArray, ConvertGrid, EndConvert, SkipMap,
                  ShareMap, ConvertMap, ConvertGridArray, SkipGridArray, GridConverted, StartArray,
                  Goto, file, Stays
    <2> QED
      BY <2>1, StaysFile
  <1>3. CASE \/ ShareDim \/ NewDimension \/ ShareLength \/ NewLength \/ RegisterCoordinate
             \/ DropCoordinate \/ ArrayDone \/ MapDone \/ GridArrayDone
    <2>1. Stays
      BY <1>3 DEF ShareDim, NewDimension, ShareLength, NewLength, AtLength, RegisterCoordinate,
                  DropCoordinate, ArrayDone, MapDone, GridArrayDone, GridConverted, DimsDone,
                  NextDim, Goto, file, Stays
    <2> QED
      BY <2>1, StaysFile
  <1> QED
    BY <1>1, <1>2, <1>3 DEF Convert

LEMMA DefineFile ==
  ASSUME FileInv, Define
  PROVE  FileInv' /\ [File!Next]_(File!vars)
  <1>1. CASE CreateFile
    <2>1. pc = "create" /\ pc' = "define" /\ status' = status /\ ncOpen' = TRUE /\ ~ncOpen
      BY <1>1 DEF CreateFile, Goto, FileInv, OpenOK
    <2>2. FileInv'
      BY <2>1 DEF FileInv, OpenOK
    <2>3. /\ phase[1] = "working" /\ phase' = phase
          /\ 1 \notin open /\ open' = open \cup {1} /\ lost' = lost
      BY <2>1, PhaseNow DEF phase, open, lost
    <2>4. File!Create(1)
      BY <2>3 DEF File!Create, phase, open, lost
    <2> QED
      BY <2>2, <2>4 DEF File!Next
  <1>2. CASE Refuse /\ pc = "define"
    <2>1. Working /\ Gives("conflict") /\ ncOpen' = FALSE
      BY <1>2 DEF Refuse, ThrowAndClose, Throw, Gives, Working
    <2> QED
      BY <2>1, FailFile
  <1>3. ASSUME Define, ~CreateFile, ~(Refuse /\ pc = "define")
        PROVE  Stays
    <2>1. CASE DefineSequence \/ DefineNext \/ EndDefine
      BY <2>1 DEF DefineSequence, DefineNext, EndDefine, Goto, file, Stays
    <2>2. CASE SkipDefined \/ SkipDefinedDim
      BY <2>2 DEF SkipDefined, SkipDefinedDim, Defining, InDefine, NextTarget, Goto, NextDim, file, Stays
    <2>3. CASE DefineScalar \/ DefineStr \/ DefineDim \/ DefineArray
      <3>1. pc = "define" /\ (NextTarget \/ NextDim) /\ UNCHANGED <<status, ncOpen>>
        BY <1>3, <2>3 DEF DefineScalar, DefineStr, DefineDim, DefineArray, Defining, InDefine
      <3> QED
        BY <3>1 DEF NextTarget, Goto, NextDim, Stays
    <2> QED
      BY <1>3, <2>1, <2>2, <2>3 DEF Define
  <1> QED
    BY <1>1, <1>2, <1>3, StaysFile

LEMMA WriteFile ==
  ASSUME FileInv, Write
  PROVE  FileInv' /\ [File!Next]_(File!vars)
  <1>1. CASE WriteData \/ SkipWrite \/ WriteNext
    <2>1. Stays
      BY <1>1 DEF WriteData, SkipWrite, WriteNext, Writing, Goto, file, Stays
    <2> QED
      BY <2>1, StaysFile
  <1>2. CASE CloseFile
    <2>1. /\ pc = "write" /\ pc' = "destroy" /\ status = "ok" /\ status' = "ok"
          /\ ncOpen /\ ncOpen' = FALSE
      BY <1>2 DEF CloseFile, Goto, FileInv
    <2>2. FileInv'
      BY <2>1 DEF FileInv, OpenOK
    <2>3. /\ phase[1] = "working" /\ phase' = [phase EXCEPT ![1] = "complete"]
          /\ 1 \in open /\ open' = open \ {1} /\ lost' = lost
      BY <2>1, PhaseNow, PhaseThen DEF open, lost
    <2>4. File!Return(1)
      BY <2>3 DEF File!Return, File!Move, phase, open, lost
    <2> QED
      BY <2>2, <2>4 DEF File!Next
  <1> QED
    BY <1>1, <1>2 DEF Write

LEMMA DestroyFile ==
  ASSUME FileInv, Destroy
  PROVE  FileInv' /\ [File!Next]_(File!vars)
  <1>1. CASE DestroyVar \/ DestroyNext
    <2>1. Stays
      BY <1>1 DEF DestroyVar, DestroyNext, Goto, file, Stays
    <2> QED
      BY <2>1, StaysFile
  <1>2. CASE Finish
    <2>1. pc = "destroy" /\ pc' = "idle" /\ status' = "ok" /\ ncOpen' = FALSE
      BY <1>2 DEF Finish, Goto
    <2>2. FileInv'
      BY <2>1 DEF FileInv, OpenOK
    <2>3. /\ phase[1] = "complete" \/ phase[1] = "over"
          /\ phase' = [phase EXCEPT ![1] = "away"]
          /\ open' = open /\ lost' = lost \ {1}
      BY <2>1, PhaseNow, PhaseThen DEF open, lost
    <2>4. File!Leave(1)
      BY <2>3 DEF File!Leave, File!Move, phase, open, lost
    <2> QED
      BY <2>2, <2>4 DEF File!Next
  <1> QED
    BY <1>1, <1>2 DEF Destroy

(* What is known of the phase and the handle survives every step.          *)
LEMMA StepFile ==
  ASSUME FileInv, [Next]_vars
  PROVE  FileInv' /\ [File!Next]_(File!vars)
  <1>1. CASE NcFails
    <2>1. Working /\ Gives("failure") /\ ncOpen' = FALSE
      BY <1>1 DEF NcFails, ThrowAndClose, Throw, Gives, Working
    <2> QED
      BY <2>1, FailFile
  <1>2. CASE UNCHANGED vars
    <2>1. UNCHANGED <<pc, status, ncOpen>>
      BY <1>2 DEF vars, file
    <2> QED
      BY <2>1 DEF FileInv, OpenOK, File!vars
  <1> QED
    BY <1>1, <1>2, BeginFile, ConvertFile, DefineFile, WriteFile, DestroyFile, ThrowFile
    DEF Next, Step

(* The netCDF file is opened and closed as FONcTransmitter relies on: once *)
(* at most, never read back before it is closed, and left open only by an  *)
(* exception of libdap, after which it is not read at all.                 *)
THEOREM ImplementsFile == Spec => FileUse
  <1>1. Init => FileInv /\ File!Init
    BY DEF Init, FileInv, OpenOK, File!Init
  <1> QED
    BY <1>1, StepFile, PTL DEF Spec, FileUse, File!Spec
=============================================================================
