---------------------- MODULE FONcTransform_arrays_proofs ----------------------
(* What the arrays of a response come to: the map a grid shares equals its *)
(* own; an array has the dimensions of the response, and a grid's array    *)
(* and its maps the same ones of the file; what is converted is what is to *)
(* be sent, under the names and in the sizes of the response.              *)
EXTENDS FONcTransform_refs_proofs

LEMMA EqualMaps ==
  ASSUME NEW a \in Arr, NEW b \in Arr, compare(a, b), Len(b.dims) = 1
  PROVE  SameData(a, b)
  <1>1. a.dims \in Seq(Dim) /\ b.dims \in Seq(Dim)
    BY DEF Arr
  <1>2. Len(a.dims) = 1 /\ a.dims[1] = b.dims[1]
    BY DEF compare
  <1>3. a.dims = b.dims
    BY <1>1, <1>2
  <1> QED
    BY <1>3 DEF compare, EqualValues, SameData

---------------------------------------------------------------------------
(* The invariant of sharing.                                               *)

ReqOK == req \in Requests \cup {<< >>}

(* What is in use as a map will be written.                                *)
UsableOK ==
  /\ Working => \A m \in DOMAIN Maps : ~obj[Maps[m].arr].dontUse
  /\ pc = "dims" => ~obj[Cur].dontUse

SentOK == pc = "dims" /\ mi > 0 => CurArr.send

(* What a grid holds is an array for one of its maps, or equal to one.     *)
SharedOK ==
  \A i \in DOMAIN held : \A k \in DOMAIN held[i] : \E j \in SentMaps(i) :
     \/ Maps[held[i][k]].arr = <<i, j>>
     \/ SameData(ArrOf(req, Maps[held[i][k]].arr), req[i].maps[j])

ShareInv == ReqOK /\ UsableOK /\ SentOK /\ SharedOK

(* The steps that lead into the conversion of an array, or go on with it.  *)
LEMMA IntoDims ==
  ASSUME [Next]_vars, pc' = "dims"
  PROVE  \/ ConvertArray \/ ConvertGridArray \/ ConvertMap
         \/ ShareDim \/ NewDimension \/ ShareLength \/ NewLength
         \/ UNCHANGED vars
  <1>1. CASE \/ SkipUnsent \/ ConvertUnknown \/ ConvertSimple \/ ConvertGrid \/ EndConvert \/ SkipMap
             \/ ShareMap \/ SkipGridArray \/ DimensionClash \/ RegisterCoordinate \/ DropCoordinate
             \/ ArrayDone \/ MapDone \/ GridArrayDone \/ (\E r \in Requests : Begin(r))
             \/ NcFails \/ LibraryThrows
    BY <1>1 DEF SkipUnsent, ConvertUnknown, ConvertSimple, ConvertGrid, EndConvert, SkipMap, ShareMap,
                SkipGridArray, DimensionClash, RegisterCoordinate, DropCoordinate, ArrayDone, MapDone,
                GridArrayDone, GridConverted, Begin, NcFails, LibraryThrows, ThrowAndClose, Throw, Goto
  <1>2. CASE Define
    BY <1>2, WhenDefine
  <1>3. CASE Write \/ Destroy
    BY <1>3 DEF Write, WriteData, SkipWrite, WriteNext, CloseFile, Writing,
                Destroy, DestroyVar, DestroyNext, Finish, Goto
  <1> QED
    BY <1>1, <1>2, <1>3 DEF Next, Step, Convert

(* Only a new request makes an idle or ending process work.                *)
LEMMA WorksOn ==
  ASSUME [Next]_vars, Working', ~\E r \in Requests : Begin(r)
  PROVE  Working
  <1>1. CASE Convert \/ Define
    BY <1>1, WhenConvert, WhenDefine DEF Working
  <1>2. CASE Write
    BY <1>2 DEF Write, WriteData, SkipWrite, WriteNext, CloseFile, Writing, Working
  <1>3. CASE Destroy \/ NcFails \/ LibraryThrows
    BY <1>3 DEF Destroy, DestroyVar, DestroyNext, Finish, NcFails, LibraryThrows, ThrowAndClose,
                Throw, Goto, Working
  <1>4. CASE UNCHANGED vars
    BY <1>4 DEF vars, Working
  <1> QED
    BY <1>1, <1>2, <1>3, <1>4 DEF Next, Step

(* A map that a step registers is the array converted last.                *)
LEMMA MapsCome ==
  ASSUME IInv, ObjInv, [Next]_vars, ~\E r \in Requests : Begin(r), ~Finish
  PROVE  \A m \in DOMAIN Maps' :
           \/ m \in DOMAIN Maps /\ Maps'[m].arr = Maps[m].arr
           \/ pc = "dims" /\ Maps'[m].arr = Cur /\ m \notin DOMAIN Maps
  <1>1. CASE Maps' = Maps
    BY <1>1
  <1>2. CASE ShareMap
    BY <1>2, ShareTypes
  <1>3. CASE RegisterCoordinate \/ MapDone
    <2>1. PICK ingrid : Maps' = Append(Maps, NewMap(Cur, ingrid))
      BY <1>3 DEF RegisterCoordinate, MapDone
    <2>2. pc = "dims" /\ NewMap(Cur, ingrid).arr = Cur
      BY <1>3 DEF RegisterCoordinate, MapDone, DimsDone, NewMap
    <2> QED
      BY <2>1, <2>2, AppendMap
  <1>4. CASE DestroyVar
    BY <1>4, DestroyTypes
  <1> QED
    BY <1>1, <1>2, <1>3, <1>4, Effects DEF Keeps, Makes, Pushes

LEMMA StepReq ==
  ASSUME ReqOK, [Next]_vars
  PROVE  ReqOK'
  <1>1. CASE (\E r \in Requests : Begin(r)) \/ Finish
    BY <1>1 DEF Begin, Finish, ReqOK
  <1> QED
    BY <1>1, SameRequest DEF ReqOK

LEMMA StepSent ==
  ASSUME IInv, SentOK, [Next]_vars
  PROVE  SentOK'
  <1> SUFFICES ASSUME pc' = "dims", mi' > 0
               PROVE  CurArr'.send
    BY DEF SentOK
  <1>1. CASE ConvertArray \/ ConvertGridArray
    BY <1>1 DEF ConvertArray, ConvertGridArray, StartArray, Goto
  <1>2. CASE ConvertMap
    <2>1. CurArr.send /\ req' = req /\ Cur' = Cur
      BY <1>2 DEF ConvertMap, StartArray, Goto, Cur
    <2> QED
      BY <2>1 DEF CurArr
  <1>3. CASE ShareDim \/ NewDimension \/ ShareLength \/ NewLength
    <2>1. pc = "dims" /\ NextDim /\ req' = req
      BY <1>3 DEF ShareDim, NewDimension, ShareLength, NewLength, AtLength
    <2> QED
      BY <2>1 DEF NextDim, Cur, CurArr, SentOK
  <1>4. CASE UNCHANGED vars
    BY <1>4 DEF vars, cursor, Cur, CurArr, SentOK
  <1> QED
    BY <1>1, <1>2, <1>3, <1>4, IntoDims

(* Only FONcArray::convert marks an array as not used.                     *)
LEMMA UseStays ==
  ASSUME IInv, ObjInv, [Next]_vars, ~DropCoordinate
  PROVE  \A p \in DOMAIN obj' : obj'[p].dontUse => p \in DOMAIN obj /\ obj[p].dontUse
  <1>1. CASE (\E r \in Requests : Begin(r)) \/ Finish
    BY <1>1 DEF Begin, Finish
  <1>2. CASE obj' = obj
    BY <1>2
  <1>3. CASE ConvertSimple \/ ConvertArray \/ ConvertMap \/ ConvertGridArray
    <2>1. PICK p, name : obj' = Put(obj, p, NewArray(name))
      BY <1>3 DEF ConvertSimple, ConvertArray, ConvertMap, ConvertGridArray, StartArray
    <2>2. \A q \in DOMAIN obj' : obj'[q] = NewArray(name) \/ (q \in DOMAIN obj /\ obj'[q] = obj[q])
      BY <2>1 DEF Put
    <2> QED
      BY <2>2 DEF NewArray
  <1>4. CASE ShareDim \/ NewDimension \/ ShareLength \/ NewLength
    <2>1. PICK e : Pushes(e)
      BY <1>4, PushesOne
    <2> QED
      BY <2>1, PushTypes
  <1>5. CASE RegisterCoordinate
    BY <1>5, RegisterTypes
  <1>6. CASE Define
    BY <1>6, DefineKeeps, WhenDefine
  <1>7. CASE DestroyVar
    BY <1>7, DestroyTypes
  <1>8. CASE ShareMap \/ MapDone
    BY <1>2, <1>8 DEF ShareMap, MapDone
  <1>9. CASE \/ SkipUnsent \/ ConvertUnknown \/ ConvertGrid \/ EndConvert \/ SkipMap \/ SkipGridArray
             \/ DimensionClash \/ ArrayDone \/ GridArrayDone
             \/ Write \/ DestroyNext \/ NcFails \/ LibraryThrows \/ UNCHANGED vars
    BY <1>2, <1>9, QuietKeeps
  <1> QED
    BY <1>1, <1>3, <1>4, <1>5, <1>6, <1>7, <1>8, <1>9, Zenon DEF Next, Step, Convert, Destroy

LEMMA StepUsable ==
  ASSUME IInv, ObjInv, UsableOK, [Next]_vars
  PROVE  UsableOK'
  <1>1. CASE (\E r \in Requests : Begin(r)) \/ Finish
    BY <1>1 DEF Begin, Finish, Goto, ResetStatics, UsableOK, Working
  <1> SUFFICES ASSUME ~\E r \in Requests : Begin(r), ~Finish
               PROVE  UsableOK'
    BY <1>1
  <1>2. CASE DropCoordinate
    <2>1. /\ pc = "dims" /\ pc' = "convert" /\ Maps' = Maps /\ obj' = [obj EXCEPT ![Cur].dontUse = TRUE]
      BY <1>2 DEF DropCoordinate, DimsDone, Goto, statics
    <2>2. \A m \in DOMAIN Maps : Maps[m].arr # Cur
      BY <2>1, ControlTypes DEF IInv, EarlierOK, Cur
    <2>3. \A m \in DOMAIN Maps : Maps[m].arr \in DOMAIN obj
      BY <2>1 DEF IInv, KeysOK, Working
    <2>4. \A m \in DOMAIN Maps : obj'[Maps[m].arr] = obj[Maps[m].arr]
      BY <2>1, <2>2, <2>3
    <2> QED
      BY <2>1, <2>4 DEF UsableOK, Working
  <1>3. CASE ~DropCoordinate
    <2>1. ASSUME Working', NEW m \in DOMAIN Maps', obj'[Maps'[m].arr].dontUse
          PROVE  FALSE
      <3>1. Maps'[m].arr \in DOMAIN obj'
        BY <2>1, StepIInv DEF IInv, KeysOK
      <3>2. Maps'[m].arr \in DOMAIN obj /\ obj[Maps'[m].arr].dontUse
        BY <1>3, <2>1, <3>1, UseStays
      <3> QED
        BY <2>1, <3>2, MapsCome, WorksOn DEF UsableOK
    <2>2. pc' = "dims" => ~obj'[Cur'].dontUse
      <3>1. CASE ConvertArray \/ ConvertGridArray \/ ConvertMap
        <4>1. \E p, name : obj' = Put(obj, p, NewArray(name)) /\ Cur' = p
          BY <3>1 DEF ConvertArray, ConvertGridArray, ConvertMap, StartArray, Goto, Cur
        <4> QED
          BY <4>1 DEF Put, NewArray
      <3>2. CASE ShareDim \/ NewDimension \/ ShareLength \/ NewLength
        <4>1. PICK e : Pushes(e)
          BY <3>2, PushesOne
        <4>2. pc = "dims" /\ Cur' = Cur
          BY <4>1 DEF Pushes, NextDim, Cur
        <4> QED
          BY <4>1, <4>2, PushTypes DEF UsableOK
      <3>3. CASE UNCHANGED vars
        BY <3>3 DEF vars, cursor, converted, Cur, UsableOK
      <3> QED
        BY <3>1, <3>2, <3>3, IntoDims
    <2> QED
      BY <2>1, <2>2 DEF UsableOK
  <1> QED
    BY <1>2, <1>3

(* The array of the map that the loop over a grid's maps is at.            *)
LEMMA CurMap ==
  ASSUME OneDimMaps, IInv, ReqOK, pc \in {"maps", "dims"}, mi > 0,
         pc = "maps" => mi <= Len(CurVar.maps)
  PROVE  /\ vi \in DOMAIN req /\ mi \in DOMAIN req[vi].maps
         /\ CurArr = req[vi].maps[mi] /\ CurArr \in Arr /\ Len(CurArr.dims) = 1
  <1>1. vi \in DOMAIN req /\ mi \in Nat /\ CurVar.kind = "Grid"
    BY CurTypes, ControlTypes DEF IInv, CursorOK, KeysOK, ValidKey, Cur
  <1>2. mi \in DOMAIN req[vi].maps /\ CurArr \in Arr
    <2>1. CASE pc = "maps"
      BY <2>1, MapCursor DEF CurVar
    <2>2. CASE pc = "dims"
      BY <2>2, CurTypes DEF IInv, KeysOK, ValidKey, Cur
    <2> QED
      BY <2>1, <2>2
  <1>3. CurArr = req[vi].maps[mi]
    BY <1>1 DEF CurArr, ArrOf, Cur
  <1>4. req \in Requests
    BY <1>1 DEF ReqOK
  <1> QED
    BY <1>1, <1>2, <1>3, <1>4 DEF OneDimMaps, CurVar

LEMMA StepShared ==
  ASSUME OneDimMaps, IInv, ObjInv, ReqOK, SentOK, SharedOK, [Next]_vars
  PROVE  SharedOK'
  <1>1. CASE (\E r \in Requests : Begin(r)) \/ Finish
    BY <1>1 DEF Begin, Finish, SharedOK
  <1> SUFFICES ASSUME ~\E r \in Requests : Begin(r), ~Finish
               PROVE  SharedOK'
    BY <1>1
  <1>2. req' = req
    BY SameRequest
  <1>3. \A m \in DOMAIN Maps : m \in DOMAIN Maps' /\ Maps'[m].arr = Maps[m].arr
    BY MapsStay, DestroyTypes
  <1>4. \A i \in DOMAIN held : \A k \in DOMAIN held[i] : held[i][k] \in DOMAIN Maps
    BY HeldTypes
  <1>5. CASE \A i \in DOMAIN held' : i \in DOMAIN held /\ held'[i] \in {held[i], << >>}
    <2> SUFFICES ASSUME NEW i \in DOMAIN held', NEW k \in DOMAIN held'[i]
                 PROVE  \E j \in SentMaps(i)' :
                           \/ Maps'[held'[i][k]].arr = <<i, j>>
                           \/ SameData(ArrOf(req', Maps'[held'[i][k]].arr), req'[i].maps[j])
      BY DEF SharedOK
    <2>1. i \in DOMAIN held /\ held'[i] = held[i]
      BY <1>5
    <2>2. Maps'[held'[i][k]].arr = Maps[held[i][k]].arr
      BY <1>3, <1>4, <2>1
    <2>3. PICK j \in SentMaps(i) :
             \/ Maps[held[i][k]].arr = <<i, j>>
             \/ SameData(ArrOf(req, Maps[held[i][k]].arr), req[i].maps[j])
      BY <2>1 DEF SharedOK
    <2> QED
      BY <1>2, <2>2, <2>3 DEF SentMaps
  <1>6. ASSUME NEW m \in DOMAIN Maps', Hold(m), vi \in DOMAIN held,
               \E j \in SentMaps(vi) :
                  Maps'[m].arr = <<vi, j>> \/ SameData(ArrOf(req, Maps'[m].arr), req[vi].maps[j])
        PROVE  SharedOK'
    <2> SUFFICES ASSUME NEW i \in DOMAIN held', NEW k \in DOMAIN held'[i]
                 PROVE  \E j \in SentMaps(i)' :
                           \/ Maps'[held'[i][k]].arr = <<i, j>>
                           \/ SameData(ArrOf(req', Maps'[held'[i][k]].arr), req'[i].maps[j])
      BY DEF SharedOK
    <2>1. held[vi] \in Seq(Nat) /\ held' = [held EXCEPT ![vi] = Append(held[vi], m)]
      BY <1>6, HeldTypes DEF Hold
    <2>2. /\ DOMAIN held' = DOMAIN held /\ held'[vi] = Append(held[vi], m)
          /\ \A n \in DOMAIN held : n # vi => held'[n] = held[n]
      BY <1>6, <2>1
    <2>3. \A n \in DOMAIN Append(held[vi], m) :
             \/ n \in DOMAIN held[vi] /\ Append(held[vi], m)[n] = held[vi][n]
             \/ Append(held[vi], m)[n] = m
      BY <2>1
    <2>4. \/ k \in DOMAIN held[i] /\ held'[i][k] = held[i][k]
          \/ i = vi /\ held'[i][k] = m
      BY <2>2, <2>3
    <2>5. CASE k \in DOMAIN held[i] /\ held'[i][k] = held[i][k]
      <3>1. Maps'[held'[i][k]].arr = Maps[held[i][k]].arr
        BY <1>3, <1>4, <2>2, <2>5
      <3>2. PICK j \in SentMaps(i) :
               \/ Maps[held[i][k]].arr = <<i, j>>
               \/ SameData(ArrOf(req, Maps[held[i][k]].arr), req[i].maps[j])
        BY <2>2, <2>5 DEF SharedOK
      <3> QED
        BY <1>2, <3>1, <3>2 DEF SentMaps
    <2>6. CASE i = vi /\ held'[i][k] = m
      <3>1. PICK j \in SentMaps(vi) :
               Maps'[m].arr = <<vi, j>> \/ SameData(ArrOf(req, Maps'[m].arr), req[vi].maps[j])
        BY <1>6
      <3> QED
        BY <1>2, <2>6, <3>1 DEF SentMaps
    <2> QED
      BY <2>4, <2>5, <2>6
  <1>7. CASE ShareMap
    <2>1. PICK m \in DOMAIN Maps : m \in InMaps(CurArr) /\ vi \in DOMAIN held /\ Hold(m)
      BY <1>7, ShareTypes
    <2>2. /\ pc = "maps" /\ mi <= Len(CurVar.maps) /\ CurArr.send
      BY <1>7 DEF ShareMap
    <2>3. mi > 0
      BY <2>2 DEF IInv, CursorOK
    <2>4. /\ vi \in DOMAIN req /\ mi \in DOMAIN req[vi].maps
          /\ CurArr = req[vi].maps[mi] /\ CurArr \in Arr /\ Len(CurArr.dims) = 1
      BY <2>2, <2>3, CurMap
    <2>5. compare(ArrOf(req, Maps[m].arr), CurArr)
      BY <2>1 DEF InMaps
    <2>6. ArrOf(req, Maps[m].arr) \in Arr
      <3>1. Maps[m].arr \in DOMAIN obj
        BY <2>2 DEF IInv, KeysOK, Working
      <3>2. Maps[m].arr \in Key /\ ValidKey(Maps[m].arr)
        BY <3>1 DEF IInv, KeysOK, TypeOK, ObjectsOK
      <3> QED
        BY <3>2, KeyTypes, ControlTypes
    <2>7. SameData(ArrOf(req, Maps[m].arr), CurArr)
      BY <2>4, <2>5, <2>6, EqualMaps
    <2>8. mi \in SentMaps(vi)
      BY <2>2, <2>4 DEF SentMaps
    <2> QED
      BY <1>3, <1>6, <2>1, <2>4, <2>7, <2>8
  <1>8. CASE MapDone
    <2>1. pc = "dims" /\ mi > 0 /\ Maps' = Append(Maps, NewMap(Cur, TRUE)) /\ Hold(Len(Maps) + 1)
      BY <1>8 DEF MapDone, DimsDone
    <2>2. /\ vi \in DOMAIN req /\ mi \in DOMAIN req[vi].maps /\ CurArr = req[vi].maps[mi]
      BY <2>1, CurMap
    <2>3. vi \in DOMAIN held
      BY <2>2, HeldTypes
    <2>4. Len(Maps) + 1 \in DOMAIN Maps' /\ Maps'[Len(Maps) + 1].arr = <<vi, mi>>
      BY <2>1, AppendMap DEF NewMap, Cur
    <2>5. mi \in SentMaps(vi)
      BY <2>1, <2>2 DEF SentMaps, SentOK
    <2> QED
      BY <1>6, <2>1, <2>3, <2>4, <2>5
  <1>9. CASE held' = held
    BY <1>5, <1>9
  <1>10. CASE DestroyVar
    <2>1. held' = [held EXCEPT ![vi] = << >>] /\ vi \in DOMAIN held
      BY <1>10, DestroyTypes
    <2>2. \A i \in DOMAIN held' : i \in DOMAIN held /\ held'[i] \in {held[i], << >>}
      BY <2>1
    <2> QED
      BY <1>5, <2>2
  <1>11. CASE RegisterCoordinate
    BY <1>9, <1>11, RegisterTypes
  <1> QED
    BY <1>7, <1>8, <1>9, <1>10, <1>11, Effects DEF Keeps, Makes, Pushes

(* What a grid holds as a map is, or equals, one of its own maps; no array *)
(* in use as a map is left out of the file.                                *)
THEOREM SharingKnown == OneDimMaps => (Spec => []ShareInv)
  <1> SUFFICES ASSUME OneDimMaps PROVE Spec => []ShareInv
    OBVIOUS
  <1>1. Init => ShareInv
    BY DEF Init, ShareInv, ReqOK, UsableOK, SentOK, SharedOK, Working
  <1>2. IInv /\ ObjInv /\ ShareInv /\ [Next]_vars => ShareInv'
    BY StepReq, StepUsable, StepSent, StepShared DEF ShareInv
  <1> QED
    BY <1>1, <1>2, Invariance, ObjectsKnown, PTL DEF Spec

(* A grid that shares a map shares one that equals its own, name, type and *)
(* values, and that the file will hold: for all responses whose grids have *)
(* vectors for maps, as DAP's have.                                        *)
THEOREM MapsSharedAgree == OneDimMaps => (Spec => []SharedMapsAgree)
  <1> SUFFICES ASSUME OneDimMaps PROVE Spec => []SharedMapsAgree
    OBVIOUS
  <1>1. IInv /\ ShareInv => SharedMapsAgree
    <2> SUFFICES ASSUME IInv, ShareInv, Working, NEW i \in DOMAIN held, NEW k \in DOMAIN held[i]
                 PROVE  LET m == Maps[held[i][k]]
                        IN /\ \E j \in SentMaps(i) :
                                m.arr = <<i, j>> \/ SameData(ArrOf(req, m.arr), req[i].maps[j])
                           /\ ~obj[m.arr].dontUse
      BY DEF SharedMapsAgree
    <2>1. held[i][k] \in DOMAIN Maps
      BY HeldTypes
    <2> QED
      BY <2>1 DEF ShareInv, SharedOK, UsableOK
  <1> QED
    BY <1>1, Invariance, SharingKnown, PTL

---------------------------------------------------------------------------
(* The dimensions of arrays.                                               *)

LEMMA WithLenEnds ==
  ASSUME NEW n \in Path
  PROVE  EndsLen(WithLen(n))
  <1>1. n \in Seq(Token) /\ "_len" \in Token
    BY TokenAssumption DEF Path
  <1>2. Len(Append(n, "_len")) = Len(n) + 1 /\ Append(n, "_len")[Len(n) + 1] = "_len" /\ Len(n) \in Nat
    BY <1>1
  <1>3. Append(n, "_len") # << >>
    BY <1>2
  <1> QED
    BY <1>2, <1>3 DEF EndsLen, WithLen

(* While an array is converted it has the dimensions before di; then it    *)
(* has them all.                                                           *)
LastDims ==
  pc = "dims" => Len(obj[Cur].dims) = di - 1 /\ CurVar.kind \in {"Array", "Grid"}
LensOK ==
  \A p \in DOMAIN obj : req[p[1]].kind \in {"Array", "Grid"} =>
     \/ pc = "dims" /\ p = Cur
     \/ pc = "destroy" /\ status # "ok"
     \/ Len(obj[p].dims) >= Len(ArrOf(req, p).dims)

(* Dimension k of the array p is the one it has in the response; or p is   *)
(* in a structure and that name was taken.                                 *)
Faithful(p, k) ==
  LET d == ArrOf(req, p).dims[k]
      e == Dimensions[obj[p].dims[k]]
  IN \/ EndsLen(d.name)
     \/ e.name = d.name /\ e.size = d.size
     \/ EmbedOf(req, p) # << >> /\ \E c \in DOMAIN Dimensions :
           Dimensions[c].name = d.name /\ Dimensions[c].size # d.size
DimsOK ==
  \A p \in DOMAIN obj : \A k \in DOMAIN obj[p].dims :
     k \in DOMAIN ArrOf(req, p).dims => Faithful(p, k)

(* The arrays of maps are arrays, and alive as long as nothing is deleted. *)
MapKinds ==
  pc # "idle" => \A m \in DOMAIN Maps : req[Maps[m].arr[1]].kind \in {"Array", "Grid"}
AliveOK ==
  Working \/ (pc = "destroy" /\ vi = 1) => \A m \in DOMAIN Maps : Maps[m].arr \in DOMAIN obj

ShapeInv == LastDims /\ LensOK /\ DimsOK /\ MapKinds /\ AliveOK

(* A registered dimension keeps its name, and its size unless it is made   *)
(* for strings.                                                            *)
LEMMA DimsStay ==
  ASSUME IInv, ObjInv, [Next]_vars, ~\E r \in Requests : Begin(r), ~Finish
  PROVE  \A d \in DOMAIN Dimensions :
           /\ d \in DOMAIN Dimensions' /\ Dimensions'[d].name = Dimensions[d].name
           /\ Dimensions'[d].size = Dimensions[d].size \/ EndsLen(Dimensions[d].name)
  <1>0. Dimensions \in Seq(FONcDim) /\ \A d \in DOMAIN Dimensions : Dimensions[d] \in FONcDim
    BY DEF IInv, TypeOK, StaticsOK
  <1>1. CASE Dimensions' = Dimensions
    BY <1>1
  <1>2. ASSUME NEW e \in DOMAIN Dimensions, NEW size,
               Dimensions' = [Dimensions EXCEPT ![e].ref = @ + 1, ![e].size = size],
               size = Dimensions[e].size \/ EndsLen(Dimensions[e].name)
        PROVE  \A d \in DOMAIN Dimensions :
                 /\ d \in DOMAIN Dimensions' /\ Dimensions'[d].name = Dimensions[d].name
                 /\ Dimensions'[d].size = Dimensions[d].size \/ EndsLen(Dimensions[d].name)
    <2> DEFINE counted == [Dimensions[e] EXCEPT !.ref = @ + 1]
    <2>1. DOMAIN Dimensions' = DOMAIN Dimensions /\ \A d \in DOMAIN Dimensions : d # e => Dimensions'[d] = Dimensions[d]
      BY <1>2
    <2>2. Dimensions'[e] = [counted EXCEPT !.size = size]
      BY <1>2
    <2>3. counted \in [name : Path, size : Nat, ref : {counted.ref}, dimid : Nat]
          /\ counted.name = Dimensions[e].name
      BY <1>0 DEF FONcDim
    <2> HIDE DEF counted
    <2>4. Dimensions'[e].name = Dimensions[e].name /\ Dimensions'[e].size = size
      BY <2>2, <2>3
    <2> QED
      BY <1>2, <2>1, <2>4
  <1>3. CASE ShareDim
    <2> DEFINE want == Wanted(CurArr.dims[di])
               size == CurArr.dims[di].size
    <2>1. /\ Named(want) # {} /\ ~SizesDiffer(want, size) /\ UseDim(First(Named(want)), size)
      BY <1>3 DEF ShareDim
    <2>2. First(Named(want)) \in Named(want) /\ First(Named(want)) \in DOMAIN Dimensions
      BY <2>1, NamedIsOne
    <2>3. Dimensions[First(Named(want))].size = size
      BY <2>1, <2>2 DEF SizesDiffer
    <2> HIDE DEF want, size
    <2> QED
      BY <1>2, <2>1, <2>2, <2>3 DEF UseDim
  <1>4. CASE ShareLength
    <2> DEFINE e == First(Named(LenName))
    <2>1. /\ pc = "dims" /\ Named(LenName) # {}
          /\ \E size : UseDim(e, size)
      BY <1>4 DEF ShareLength, AtLength
    <2>2. e \in Named(LenName) /\ e \in DOMAIN Dimensions
      BY <2>1, NamedIsOne
    <2>3. obj[Cur].varname \in Path
      <3>1. obj[Cur] \in FONcArray
        BY <2>1, CurTypes DEF IInv, TypeOK, ObjectsOK
      <3> QED
        BY <3>1 DEF FONcArray
    <2>4. EndsLen(Dimensions[e].name)
      BY <2>2, <2>3, WithLenEnds DEF Named, LenName
    <2> HIDE DEF e
    <2> QED
      BY <1>2, <2>1, <2>2, <2>4 DEF UseDim
  <1>5. CASE NewDimension \/ NewLength
    <2>1. PICK name, size : Dimensions' = Append(Dimensions, NewDim(name, size))
      BY <1>5 DEF NewDimension, NewLength, AddDim
    <2> QED
      BY <1>0, <2>1, SMTT(30)
  <1>6. CASE DefineDim
    <2>1. UNCHANGED Dimensions \/ Dimensions' = [Dimensions EXCEPT ![CurDim].dimid = Len(ncDims) + 1]
      BY <1>6 DEF DefineDim
    <2> QED
      BY <1>0, <2>1 DEF FONcDim
  <1>7. CASE DestroyVar
    <2>1. /\ DOMAIN Dimensions' = DOMAIN Dimensions
          /\ \A d \in DOMAIN Dimensions :
               Dimensions'[d] = [Dimensions[d] EXCEPT !.ref = @ - Cardinality(Uses(Gone(vi), d))]
      BY <1>7 DEF DestroyVar
    <2>2. ASSUME NEW d \in DOMAIN Dimensions
          PROVE  Dimensions'[d].name = Dimensions[d].name /\ Dimensions'[d].size = Dimensions[d].size
      BY <1>0, <2>1 DEF FONcDim
    <2> QED
      BY <2>1, <2>2
  <1>8. CASE \/ SkipUnsent \/ ConvertUnknown \/ ConvertGrid \/ EndConvert \/ SkipMap \/ SkipGridArray
             \/ DimensionClash \/ ArrayDone \/ GridArrayDone
             \/ Write \/ DestroyNext \/ NcFails \/ LibraryThrows \/ UNCHANGED vars
    BY <1>1, <1>8, QuietKeeps
  <1>9. CASE \/ ConvertSimple \/ ConvertArray \/ ConvertMap \/ ConvertGridArray
             \/ ShareMap \/ RegisterCoordinate \/ DropCoordinate \/ MapDone
    BY <1>1, <1>9 DEF ConvertSimple, ConvertArray, ConvertMap, ConvertGridArray, ShareMap,
                      RegisterCoordinate, DropCoordinate, MapDone, statics
  <1>10. CASE \/ CreateFile \/ DefineScalar \/ DefineStr \/ DefineSequence \/ SkipDefined
              \/ SkipDefinedDim \/ DefineArray \/ DefineNext \/ EndDefine
    BY <1>1, <1>10 DEF CreateFile, DefineScalar, DefineStr, DefineSequence, SkipDefined,
                       SkipDefinedDim, DefineArray, DefineNext, EndDefine, statics
  <1> QED
    BY <1>3, <1>4, <1>5, <1>6, <1>7, <1>8, <1>9, <1>10, Zenon DEF Next, Step, Convert, Define, Destroy

LEMMA StepAlive ==
  ASSUME IInv, ObjInv, AliveOK, [Next]_vars
  PROVE  AliveOK'
  <1>1. CASE (\E r \in Requests : Begin(r)) \/ Finish
    BY <1>1 DEF Begin, Finish, Goto, ResetStatics, AliveOK, Working
  <1>2. CASE Working'
    BY <1>2, StepIInv DEF IInv, KeysOK, AliveOK
  <1> SUFFICES ASSUME ~\E r \in Requests : Begin(r), ~Finish, ~Working', pc' = "destroy", vi' = 1
               PROVE  \A m \in DOMAIN Maps' : Maps'[m].arr \in DOMAIN obj'
    BY <1>1, <1>2 DEF AliveOK
  <1>3. ~DestroyVar /\ ~DestroyNext
    BY ControlTypes DEF DestroyVar, DestroyNext, Goto
  <1>4. CASE Working /\ Maps' = Maps /\ DOMAIN obj' = DOMAIN obj
    BY <1>4 DEF IInv, KeysOK
  <1>5. CASE ConvertUnknown \/ DimensionClash \/ NcFails \/ LibraryThrows \/ Write
    <2>1. Working
      BY <1>5 DEF ConvertUnknown, DimensionClash, NcFails, LibraryThrows, Write, WriteData, SkipWrite,
                  WriteNext, CloseFile, Writing, Working
    <2> QED
      BY <1>4, <1>5, <2>1, QuietKeeps
  <1>6. CASE Define
    BY <1>4, <1>6, WhenDefine DEF Working
  <1>7. CASE Convert /\ ~ConvertUnknown /\ ~DimensionClash
    <2>1. pc' \in {"convert", "maps", "dims", "create"}
      BY <1>7, WhenConvert
      DEF Convert, SkipUnsent, ConvertSimple, ConvertArray, ConvertGrid, EndConvert,
          SkipMap, ShareMap, ConvertMap, ConvertGridArray, SkipGridArray, StartArray,
          ShareDim, NewDimension, ShareLength, NewLength, AtLength, NextDim,
          RegisterCoordinate, DropCoordinate, ArrayDone, MapDone, GridArrayDone, GridConverted, Goto
    <2> QED
      BY <2>1
  <1>8. CASE UNCHANGED vars
    BY <1>8 DEF vars, cursor, converted, statics, AliveOK
  <1> QED
    BY <1>3, <1>5, <1>6, <1>7, <1>8 DEF Next, Step, Destroy

LEMMA StepKinds ==
  ASSUME IInv, ObjInv, LastDims, MapKinds, [Next]_vars
  PROVE  MapKinds'
  <1>1. CASE (\E r \in Requests : Begin(r)) \/ Finish
    BY <1>1 DEF Begin, Finish, Goto, ResetStatics, MapKinds
  <1> SUFFICES ASSUME ~\E r \in Requests : Begin(r), ~Finish, pc' # "idle", NEW m \in DOMAIN Maps'
               PROVE  req'[Maps'[m].arr[1]].kind \in {"Array", "Grid"}
    BY <1>1 DEF MapKinds
  <1>2. req' = req
    BY SameRequest
  <1>3. pc # "idle"
    <2>1. CASE UNCHANGED vars
      BY <2>1 DEF vars
    <2>2. CASE Convert \/ Define
      BY <2>2, WhenConvert, WhenDefine
    <2>3. CASE Write \/ Destroy \/ NcFails \/ LibraryThrows
      BY <2>3 DEF Write, WriteData, SkipWrite, WriteNext, CloseFile, Writing, Destroy, DestroyVar,
                  DestroyNext, Finish, NcFails, LibraryThrows
    <2> QED
      BY <2>1, <2>2, <2>3 DEF Next, Step
  <1> QED
    BY <1>2, <1>3, MapsCome DEF MapKinds, LastDims, CurVar, Cur

(* What a step does to the dimensions of an array.                         *)
LEMMA ArraysGrow ==
  ASSUME IInv, ObjInv, [Next]_vars, ~\E r \in Requests : Begin(r), ~Finish, NEW p \in DOMAIN obj'
  PROVE  \/ p \in DOMAIN obj /\ obj'[p].dims = obj[p].dims
         \/ /\ p \notin DOMAIN obj /\ obj'[p].dims = << >>
            /\ \/ p = <<vi, 0>> /\ (ConvertSimple \/ ConvertArray \/ ConvertGridArray)
               \/ p = Cur /\ ConvertMap
         \/ p = Cur /\ \E e : Pushes(e)
  <1>1. CASE Keeps
    BY <1>1 DEF Keeps
  <1>2. CASE Makes(<<vi, 0>>) \/ (Makes(Cur) /\ ConvertMap)
    <2>1. CASE p \in DOMAIN obj
      BY <1>2, <2>1 DEF Makes
    <2>2. CASE p \notin DOMAIN obj
      <3>1. obj'[p].dims = << >> /\ (p = <<vi, 0>> \/ (p = Cur /\ ConvertMap))
        BY <1>2, <2>2 DEF Makes
      <3>2. CASE p = <<vi, 0>> /\ ~ConvertMap
        <4>1. ConvertSimple \/ ConvertArray \/ ConvertGridArray
          <5>1. DOMAIN obj' # DOMAIN obj
            BY <2>2
          <5>2. ~DestroyVar
            BY <2>2, DestroyTypes
          <5>3. \A e : ~Pushes(e)
            BY <2>2, PushTypes
          <5>4. ~DropCoordinate /\ ~RegisterCoordinate
            BY <5>1 DEF DropCoordinate, RegisterCoordinate
          <5>5. ~ShareMap /\ ~MapDone
            BY <5>1 DEF ShareMap, MapDone
          <5>6. ~Define
            BY <5>1, WhenDefine
          <5>7. ~(\/ SkipUnsent \/ ConvertUnknown \/ ConvertGrid \/ EndConvert \/ SkipMap \/ SkipGridArray
                  \/ DimensionClash \/ ArrayDone \/ GridArrayDone
                  \/ Write \/ DestroyNext \/ NcFails \/ LibraryThrows \/ UNCHANGED vars)
            BY <5>1, QuietKeeps
          <5>8. ~(ShareDim \/ NewDimension \/ ShareLength \/ NewLength)
            BY <5>3, PushesOne
          <5> QED
            BY <3>2, <5>2, <5>4, <5>5, <5>6, <5>7, <5>8, Zenon DEF Next, Step, Convert, Destroy
        <4> QED
          BY <2>2, <3>1, <3>2, <4>1
      <3>3. CASE p = <<vi, 0>> /\ ConvertMap
        <4>1. p = Cur
          BY <2>2, <3>3 DEF ConvertMap, StartArray, Put
        <4> QED
          BY <2>2, <3>1, <3>3, <4>1
      <3> QED
        BY <2>2, <3>1, <3>2, <3>3
    <2> QED
      BY <2>1, <2>2
  <1>3. CASE \E e : Pushes(e)
    BY <1>3, PushTypes
  <1>4. CASE ShareMap \/ RegisterCoordinate \/ MapDone
    BY <1>4, RegisterTypes DEF ShareMap, MapDone
  <1>5. CASE DestroyVar
    BY <1>5, DestroyTypes
  <1> QED
    BY <1>1, <1>2, <1>3, <1>4, <1>5, Effects

LEMMA StepLast ==
  ASSUME IInv, ObjInv, LastDims, [Next]_vars
  PROVE  LastDims'
  <1> SUFFICES ASSUME pc' = "dims"
               PROVE  Len(obj'[Cur'].dims) = di' - 1 /\ CurVar'.kind \in {"Array", "Grid"}
    BY DEF LastDims
  <1>1. CASE ConvertArray \/ ConvertGridArray \/ ConvertMap
    <2>1. /\ di' = 1 /\ vi' = vi /\ req' = req
          /\ \E p, name : obj' = Put(obj, p, NewArray(name)) /\ Cur' = p
      BY <1>1 DEF ConvertArray, ConvertGridArray, ConvertMap, StartArray, Goto, Cur
    <2>2. obj'[Cur'].dims = << >>
      BY <2>1 DEF Put, NewArray
    <2>3. CurVar.kind \in {"Array", "Grid"}
      BY <1>1 DEF ConvertArray, ConvertGridArray, ConvertMap, IInv, CursorOK
    <2> QED
      BY <2>1, <2>2, <2>3 DEF CurVar
  <1>2. CASE ShareDim \/ NewDimension \/ ShareLength \/ NewLength
    <2>1. PICK e : Pushes(e)
      BY <1>2, PushesOne
    <2>2. pc = "dims" /\ Cur' = Cur /\ di' = di + 1 /\ vi' = vi /\ req' = req
      BY <2>1 DEF Pushes, NextDim, Cur
    <2>3. obj'[Cur].dims = Append(obj[Cur].dims, e) /\ obj[Cur] \in FONcArray
      BY <2>1, PushTypes DEF IInv, TypeOK, ObjectsOK
    <2>4. obj[Cur].dims \in Seq(Nat)
      BY <2>3 DEF FONcArray
    <2>5. Len(obj'[Cur].dims) = Len(obj[Cur].dims) + 1
      BY <2>3, <2>4
    <2>6. CurVar' = CurVar /\ di \in Nat
      BY <2>2, ControlTypes DEF CurVar
    <2> QED
      BY <2>2, <2>5, <2>6 DEF LastDims
  <1>3. CASE UNCHANGED vars
    BY <1>3 DEF vars, cursor, converted, Cur, CurVar, LastDims
  <1> QED
    BY <1>1, <1>2, <1>3, IntoDims

(* The conversion of an array ends with all its dimensions, or in an error.*)
LEMMA LeavesDims ==
  ASSUME IInv, ObjInv, LastDims, [Next]_vars, pc = "dims", pc' # "dims"
  PROVE  \/ Len(obj[Cur].dims) >= Len(CurArr.dims)
         \/ pc' = "destroy" /\ status' # "ok"
  <1>1. CASE DimsDone
    <2>1. di > Len(CurArr.dims) + (IF IsText(CurArr) THEN 1 ELSE 0)
      BY <1>1 DEF DimsDone
    <2>2. CurArr \in Arr /\ di \in Nat
      BY CurTypes, ControlTypes
    <2>3. Len(CurArr.dims) \in Nat
      BY <2>2 DEF Arr
    <2>4. di > Len(CurArr.dims)
      <3>1. CASE IsText(CurArr)
        <4>1. di > Len(CurArr.dims) + 1
          BY <2>1, <3>1
        <4> QED
          BY <2>2, <2>3, <4>1
      <3>2. CASE ~IsText(CurArr)
        <4>1. di > Len(CurArr.dims) + 0
          BY <2>1, <3>2
        <4> QED
          BY <2>2, <2>3, <4>1
      <3> QED
        BY <3>1, <3>2
    <2>5. Len(obj[Cur].dims) = di - 1
      BY DEF LastDims
    <2> QED
      BY <2>2, <2>3, <2>4, <2>5
  <1>2. CASE RegisterCoordinate \/ DropCoordinate \/ ArrayDone \/ MapDone \/ GridArrayDone
    BY <1>1, <1>2 DEF RegisterCoordinate, DropCoordinate, ArrayDone, MapDone, GridArrayDone
  <1>3. CASE DimensionClash \/ LibraryThrows
    BY <1>3 DEF DimensionClash, LibraryThrows, Throw
  <1>4. CASE ShareDim \/ NewDimension \/ ShareLength \/ NewLength
    <2>1. PICK e : Pushes(e)
      BY <1>4, PushesOne
    <2> QED
      BY <2>1 DEF Pushes, NextDim
  <1>5. CASE UNCHANGED vars
    BY <1>5 DEF vars
  <1>6. CASE \/ SkipUnsent \/ ConvertUnknown \/ ConvertSimple \/ ConvertArray \/ ConvertGrid \/ EndConvert
             \/ SkipMap \/ ShareMap \/ ConvertMap \/ ConvertGridArray \/ SkipGridArray
             \/ Define \/ Write \/ Destroy \/ NcFails \/ (\E r \in Requests : Begin(r))
    <2>1. CASE Define
      BY <2>1, WhenDefine
    <2>2. CASE Write \/ Destroy
      BY <2>2 DEF Write, WriteData, SkipWrite, WriteNext, CloseFile, Writing, Destroy, DestroyVar,
                  DestroyNext, Finish
    <2>3. CASE \/ SkipUnsent \/ ConvertUnknown \/ ConvertSimple \/ ConvertArray \/ ConvertGrid \/ EndConvert
               \/ SkipMap \/ ShareMap \/ ConvertMap \/ ConvertGridArray \/ SkipGridArray
               \/ NcFails \/ (\E r \in Requests : Begin(r))
      BY <2>3 DEF SkipUnsent, ConvertUnknown, ConvertSimple, ConvertArray, ConvertGrid, EndConvert,
                  SkipMap, ShareMap, ConvertMap, ConvertGridArray, SkipGridArray, NcFails, Begin
    <2> QED
      BY <1>6, <2>1, <2>2, <2>3, Zenon
  <1> QED
    BY <1>2, <1>3, <1>4, <1>5, <1>6, Zenon DEF Next, Step, Convert

LEMMA StaysFailed ==
  ASSUME [Next]_vars, pc = "destroy", status # "ok", ~Finish
  PROVE  pc' = "destroy" /\ status' # "ok"
  <1>1. CASE DestroyVar \/ DestroyNext
    BY <1>1 DEF DestroyVar, DestroyNext, Goto
  <1>2. CASE UNCHANGED vars
    BY <1>2 DEF vars
  <1>3. CASE Convert \/ Define \/ Write \/ NcFails \/ LibraryThrows \/ (\E r \in Requests : Begin(r))
    BY <1>3, WhenConvert, WhenDefine DEF Write, WriteData, SkipWrite, WriteNext, CloseFile, Writing, NcFails,
       LibraryThrows, Begin
  <1> QED
    BY <1>1, <1>2, <1>3 DEF Next, Step, Destroy

LEMMA StepLens ==
  ASSUME IInv, ObjInv, LastDims, LensOK, [Next]_vars
  PROVE  LensOK'
  <1>1. CASE (\E r \in Requests : Begin(r)) \/ Finish
    BY <1>1 DEF Begin, Finish, LensOK
  <1> SUFFICES ASSUME ~\E r \in Requests : Begin(r), ~Finish, NEW p \in DOMAIN obj',
                      req'[p[1]].kind \in {"Array", "Grid"}
               PROVE  \/ pc' = "dims" /\ p = Cur'
                      \/ pc' = "destroy" /\ status' # "ok"
                      \/ Len(obj'[p].dims) >= Len(ArrOf(req', p).dims)
    BY <1>1 DEF LensOK
  <1>2. req' = req
    BY SameRequest
  <1>3. CASE p \in DOMAIN obj /\ obj'[p].dims = obj[p].dims
    <2>1. CASE pc = "dims" /\ p = Cur
      <3>1. CASE pc' = "dims"
        <4>1. Cur' = Cur
          <5>1. CASE ShareDim \/ NewDimension \/ ShareLength \/ NewLength
            <6>1. PICK e : Pushes(e)
              BY <5>1, PushesOne
            <6> QED
              BY <6>1 DEF Pushes, NextDim, Cur
          <5>2. CASE UNCHANGED vars
            BY <5>2 DEF vars, cursor, Cur
          <5> QED
            BY <2>1, <3>1, <5>1, <5>2, IntoDims DEF ConvertArray, ConvertGridArray, ConvertMap
        <4> QED
          BY <2>1, <3>1, <4>1
      <3>2. CASE pc' # "dims"
        BY <1>2, <1>3, <2>1, <3>2, LeavesDims DEF CurArr
      <3> QED
        BY <3>1, <3>2
    <2>2. CASE pc = "destroy" /\ status # "ok"
      BY <2>2, StaysFailed
    <2>3. CASE Len(obj[p].dims) >= Len(ArrOf(req, p).dims)
      BY <1>2, <1>3, <2>3
    <2> QED
      BY <1>2, <1>3, <2>1, <2>2, <2>3 DEF LensOK
  <1>4. CASE p = <<vi, 0>> /\ (ConvertSimple \/ ConvertArray \/ ConvertGridArray)
    <2>1. CASE ConvertSimple
      <3>1. req[vi].kind \in {"Scalar", "Str", "Sequence"}
        BY <2>1 DEF ConvertSimple, CurVar
      <3> QED
        BY <1>2, <1>4, <3>1
    <2>2. CASE ConvertArray \/ ConvertGridArray
      BY <1>4, <2>2 DEF ConvertArray, ConvertGridArray, StartArray, Goto, Cur
    <2> QED
      BY <1>4, <2>1, <2>2
  <1>5. CASE p = Cur /\ ConvertMap
    BY <1>5 DEF ConvertMap, StartArray, Goto, Cur
  <1>6. CASE p = Cur /\ \E e : Pushes(e)
    BY <1>6 DEF Pushes, NextDim, Cur
  <1> QED
    BY <1>3, <1>4, <1>5, <1>6, ArraysGrow

(* A dimension that was like that of the response stays so.                *)
LEMMA FaithfulStays ==
  ASSUME IInv, ObjInv, [Next]_vars, ~\E r \in Requests : Begin(r), ~Finish,
         NEW p \in DOMAIN obj, NEW k \in DOMAIN obj[p].dims, p \in DOMAIN obj',
         obj'[p].dims[k] = obj[p].dims[k], Faithful(p, k)
  PROVE  Faithful(p, k)'
  <1> DEFINE d == ArrOf(req, p).dims[k]
             c == obj[p].dims[k]
  <1>1. c \in DOMAIN Dimensions
    BY DEF IInv, TypeOK, PointersOK
  <1>2. req' = req
    BY SameRequest
  <1>3. CASE EndsLen(d.name)
    BY <1>2, <1>3 DEF Faithful
  <1>4. CASE ~EndsLen(d.name) /\ Dimensions[c].name = d.name /\ Dimensions[c].size = d.size
    <2>1. Dimensions'[c].name = d.name /\ Dimensions'[c].size = d.size
      BY <1>1, <1>4, DimsStay
    <2> QED
      BY <1>2, <2>1 DEF Faithful
  <1>5. CASE /\ ~EndsLen(d.name) /\ EmbedOf(req, p) # << >>
             /\ \E e \in DOMAIN Dimensions : Dimensions[e].name = d.name /\ Dimensions[e].size # d.size
    <2>1. PICK e \in DOMAIN Dimensions : Dimensions[e].name = d.name /\ Dimensions[e].size # d.size
      BY <1>5
    <2>2. e \in DOMAIN Dimensions' /\ Dimensions'[e].name = d.name /\ Dimensions'[e].size # d.size
      BY <1>5, <2>1, DimsStay
    <2> QED
      BY <1>2, <1>5, <2>2 DEF Faithful
  <1> QED
    BY <1>3, <1>4, <1>5 DEF Faithful

(* The dimension that FONcArray::find_dim gives the array.                 *)
LEMMA FoundDim ==
  ASSUME IInv, ObjInv, LastDims, [Next]_vars, ShareDim \/ NewDimension, NEW p, p = Cur, NEW k, k = di
  PROVE  Faithful(p, k)'
  <1> DEFINE d == CurArr.dims[di]
             want == Wanted(d)
  <1>1. /\ pc = "dims" /\ NextDim /\ req' = req
      BY DEF ShareDim, NewDimension
  <1>2. /\ CurArr \in Arr /\ Cur \in DOMAIN obj /\ Dimensions \in Seq(FONcDim)
        /\ obj[Cur].dims \in Seq(Nat) /\ Len(obj[Cur].dims) + 1 = di
    <2>1. CurArr \in Arr /\ Cur \in DOMAIN obj
      BY <1>1, CurTypes
    <2>2. obj[Cur] \in FONcArray /\ Dimensions \in Seq(FONcDim)
      BY <2>1 DEF IInv, TypeOK, ObjectsOK, StaticsOK
    <2>3. obj[Cur].dims \in Seq(Nat)
      BY <2>2 DEF FONcArray
    <2> QED
      BY <1>1, <2>1, <2>2, <2>3, ControlTypes DEF LastDims
  <1>3. \E e : /\ PushDim(e) /\ e \in DOMAIN Dimensions'
               /\ Dimensions'[e].name = want /\ Dimensions'[e].size = d.size
    <2>1. CASE ShareDim
      <3>1. /\ Named(want) # {} /\ ~SizesDiffer(want, d.size) /\ UseDim(First(Named(want)), d.size)
        BY <2>1 DEF ShareDim
      <3> DEFINE e == First(Named(want))
      <3>2. e \in Named(want) /\ e \in DOMAIN Dimensions
        BY <3>1, NamedIsOne
      <3>3. Dimensions[e].name = want /\ Dimensions[e].size = d.size
        BY <3>1, <3>2 DEF Named, SizesDiffer
      <3> HIDE DEF e, want, d
      <3>4. Dimensions' = [Dimensions EXCEPT ![e].ref = @ + 1, ![e].size = d.size] /\ PushDim(e)
        BY <3>1 DEF UseDim, e
      <3>5. e \in DOMAIN Dimensions' /\ Dimensions'[e].name = want /\ Dimensions'[e].size = d.size
        <4> DEFINE counted == [Dimensions[e] EXCEPT !.ref = @ + 1]
        <4>1. Dimensions[e] \in FONcDim
          BY <1>2, <3>2
        <4>2. counted \in [name : Path, size : Nat, ref : {counted.ref}, dimid : Nat]
              /\ counted.name = Dimensions[e].name
          BY <4>1 DEF FONcDim
        <4>3. Dimensions'[e] = [counted EXCEPT !.size = d.size] /\ e \in DOMAIN Dimensions'
          BY <3>2, <3>4
        <4> HIDE DEF counted
        <4>4. Dimensions'[e].name = Dimensions[e].name /\ Dimensions'[e].size = d.size
          BY <4>2, <4>3
        <4> QED
          BY <3>3, <4>3, <4>4
      <3> QED
        BY <3>4, <3>5
    <2>2. CASE NewDimension
      <3> DEFINE e == Len(Dimensions) + 1
      <3>1. Dimensions' = Append(Dimensions, NewDim(want, d.size)) /\ PushDim(e)
        BY <2>2 DEF NewDimension, AddDim
      <3> HIDE DEF want, d
      <3>2. e \in DOMAIN Dimensions' /\ Dimensions'[e] = NewDim(want, d.size)
        BY <1>2, <3>1
      <3> QED
        BY <3>1, <3>2 DEF NewDim
    <2> QED
      BY <2>1, <2>2
  <1>4. want = d.name \/ (CurEmbed # << >> /\ SizesDiffer(d.name, d.size))
    BY DEF Wanted
  <1> HIDE DEF want, d
  <1>5. PICK e : /\ PushDim(e) /\ e \in DOMAIN Dimensions'
                 /\ Dimensions'[e].name = want /\ Dimensions'[e].size = d.size
    BY <1>3
  <1>6. obj'[Cur].dims = Append(obj[Cur].dims, e)
    <2>1. obj[Cur] \in FONcArray
      BY <1>2 DEF IInv, TypeOK, ObjectsOK
    <2> QED
      BY <1>2, <1>5, <2>1 DEF PushDim, FONcArray
  <1>7. obj'[p].dims[k] = e
    BY <1>2, <1>6
  <1>8. ArrOf(req', p).dims[k] = d /\ EmbedOf(req', p) = CurEmbed
    BY <1>1 DEF CurArr, CurEmbed, d
  <1>9. CASE want = d.name
    <2>1. Dimensions'[obj'[p].dims[k]].name = d.name /\ Dimensions'[obj'[p].dims[k]].size = d.size
      BY <1>5, <1>7, <1>9
    <2> QED
      BY <1>8, <2>1 DEF Faithful
  <1>10. CASE CurEmbed # << >> /\ SizesDiffer(d.name, d.size) /\ ~EndsLen(d.name)
    <2>1. PICK c \in DOMAIN Dimensions : Dimensions[c].name = d.name /\ Dimensions[c].size # d.size
      BY <1>10 DEF SizesDiffer, Named
    <2>2. ~(\E r \in Requests : Begin(r)) /\ ~Finish
      BY <1>1 DEF Begin, Finish
    <2>3. c \in DOMAIN Dimensions' /\ Dimensions'[c].name = d.name /\ Dimensions'[c].size # d.size
      BY <1>10, <2>1, <2>2, DimsStay
    <2> QED
      BY <1>8, <1>10, <2>3 DEF Faithful
  <1>11. CASE EndsLen(d.name)
    BY <1>8, <1>11 DEF Faithful
  <1> QED
    BY <1>4, <1>9, <1>10, <1>11

LEMMA StepDims ==
  ASSUME IInv, ObjInv, LastDims, DimsOK, [Next]_vars
  PROVE  DimsOK'
  <1>1. CASE (\E r \in Requests : Begin(r)) \/ Finish
    BY <1>1 DEF Begin, Finish, DimsOK
  <1> SUFFICES ASSUME ~\E r \in Requests : Begin(r), ~Finish, NEW p \in DOMAIN obj',
                      NEW k \in DOMAIN obj'[p].dims, k \in DOMAIN ArrOf(req', p).dims
               PROVE  Faithful(p, k)'
    BY <1>1 DEF DimsOK
  <1>2. req' = req
    BY SameRequest
  <1>3. CASE p \in DOMAIN obj /\ k \in DOMAIN obj[p].dims /\ obj'[p].dims[k] = obj[p].dims[k]
    BY <1>2, <1>3, FaithfulStays DEF DimsOK
  <1>4. CASE obj'[p].dims = << >>
    BY <1>4
  <1>5. CASE p = Cur /\ \E e : Pushes(e)
    <2>1. PICK e : Pushes(e)
      BY <1>5
    <2>2. pc = "dims" /\ pc' = "dims" /\ di' = di + 1
      BY <2>1 DEF Pushes, NextDim
    <2>3. obj'[p].dims = Append(obj[p].dims, e) /\ obj[p] \in FONcArray /\ p \in DOMAIN obj
      BY <1>5, <2>1, PushTypes DEF IInv, TypeOK, ObjectsOK
    <2>4. obj[p].dims \in Seq(Nat)
      BY <2>3 DEF FONcArray
    <2>5. \/ k \in DOMAIN obj[p].dims /\ obj'[p].dims[k] = obj[p].dims[k]
          \/ k = Len(obj[p].dims) + 1
      BY <2>3, <2>4, SMTT(30)
    <2>6. CASE k = Len(obj[p].dims) + 1
      <3>0. Len(obj[p].dims) = di - 1 /\ di \in Nat
        BY <1>5, <2>2, ControlTypes DEF LastDims
      <3>1. k = di
        BY <2>6, <3>0
      <3>2. CASE ShareDim \/ NewDimension
        BY <1>5, <3>1, <3>2, FoundDim
      <3>3. CASE ShareLength \/ NewLength
        <4>1. k = Len(CurArr.dims) + 1 /\ CurArr \in Arr /\ ArrOf(req', p) = CurArr
          BY <1>2, <1>5, <3>1, <3>3, CurTypes DEF ShareLength, NewLength, AtLength, CurArr
        <4>2. CurArr.dims \in Seq(Dim)
          BY <4>1 DEF Arr
        <4> QED
          BY <4>1, <4>2
      <3>4. ~(ConvertArray \/ ConvertGridArray \/ ConvertMap) /\ ~UNCHANGED vars
        BY <2>2, ControlTypes DEF ConvertArray, ConvertGridArray, ConvertMap, vars, cursor
      <3> QED
        BY <2>2, <3>2, <3>3, <3>4, IntoDims
    <2> QED
      BY <1>3, <2>3, <2>5, <2>6
  <1> QED
    BY <1>3, <1>4, <1>5, ArraysGrow

(* An array of a delivered file has all its dimensions, each with the name *)
(* and the size it has in the response, but for strings and structures.    *)
THEOREM ShapesKnown == Spec => []ShapeInv
  <1>1. Init => ShapeInv
    BY DEF Init, ShapeInv, LastDims, LensOK, DimsOK, MapKinds, AliveOK, Working
  <1>2. IInv /\ ObjInv /\ ShapeInv /\ [Next]_vars => ShapeInv'
    BY StepLast, StepLens, StepDims, StepKinds, StepAlive DEF ShapeInv
  <1> QED
    BY <1>1, <1>2, Invariance, ObjectsKnown, PTL DEF Spec

---------------------------------------------------------------------------
(* Grids keep their coordinates: the variable that serves a grid as a map, *)
(* be it its own, another grid's or an array in a structure, has the same  *)
(* dimension of the file as the grid's array.                              *)
THEOREM GridsKeepCoordinates == OneDimMaps /\ NamedMaps => (Spec => []GridsAligned)
  <1> SUFFICES ASSUME OneDimMaps, NamedMaps PROVE Spec => []GridsAligned
    OBVIOUS
  <1>1. IInv /\ ShareInv /\ ShapeInv => GridsAligned
    <2> SUFFICES ASSUME IInv, ShareInv, ShapeInv, Delivered, vi = 1,
                        NEW i \in made, req[i].kind = "Grid", req[i].embed = << >>, <<i, 0>> \in DOMAIN obj,
                        NEW n \in DOMAIN held[i], NEW j \in DOMAIN req[i].main.dims,
                        ArrOf(req, Maps[held[i][n]].arr).dims[1].name = req[i].main.dims[j].name
                 PROVE  FileDim(Maps[held[i][n]].arr, 1) = FileDim(<<i, 0>>, j)
      BY DEF GridsAligned
    <2> DEFINE m == Maps[held[i][n]].arr
               g == <<i, 0>>
               x == obj[m].dims[1]
               y == obj[g].dims[j]
               d == ArrOf(req, m).dims[1]
    <2>1. i \in DOMAIN req /\ g \in DOMAIN obj /\ ArrOf(req, g) = req[i].main /\ EmbedOf(req, g) = << >>
      BY DEF IInv, KeysOK, ValidKey, ArrOf, EmbedOf
    <2>2. i \in DOMAIN held /\ held[i][n] \in DOMAIN Maps
      BY <2>1, HeldTypes
    <2>3. m \in DOMAIN obj /\ req[m[1]].kind \in {"Array", "Grid"}
      BY <2>2 DEF ShapeInv, AliveOK, MapKinds, Delivered
    <2>4. PICK s \in SentMaps(i) : m = <<i, s>> \/ SameData(ArrOf(req, m), req[i].maps[s])
      BY <2>2 DEF ShareInv, SharedOK
    <2>5. s \in DOMAIN req[i].maps /\ req \in Requests
      BY <2>1, <2>4 DEF SentMaps, ShareInv, ReqOK
    <2>6. ArrOf(req, m).dims = req[i].maps[s].dims
      <3>1. CASE m = <<i, s>>
        <4>1. req[i] \in Var
          BY <2>1, ControlTypes
        <4>2. s # 0
          BY <2>5, <4>1 DEF Var
        <4> QED
          BY <3>1, <4>2 DEF ArrOf
      <3>2. CASE SameData(ArrOf(req, m), req[i].maps[s])
        BY <3>2 DEF SameData
      <3> QED
        BY <2>4, <3>1, <3>2
    <2>7. /\ d = req[i].maps[s].dims[1] /\ Len(ArrOf(req, m).dims) = 1
          /\ d.name # << >> /\ ~EndsLen(d.name)
          /\ req[i].main.dims[j].name = d.name /\ req[i].main.dims[j].size = d.size
      BY <2>1, <2>5, <2>6 DEF OneDimMaps, NamedMaps
    <2>8. /\ ArrOf(req, m) \in Arr /\ req[i].main \in Arr
          /\ obj[m].dims \in Seq(Nat) /\ obj[g].dims \in Seq(Nat)
      <3>1. /\ m \in Key /\ ValidKey(m) /\ g \in Key /\ ValidKey(g)
            /\ obj[m] \in FONcArray /\ obj[g] \in FONcArray
        BY <2>1, <2>3 DEF IInv, KeysOK, TypeOK, ObjectsOK
      <3> QED
        BY <2>1, <3>1, KeyTypes, ControlTypes DEF FONcArray
    <2>9. /\ 1 \in DOMAIN ArrOf(req, m).dims /\ 1 \in DOMAIN obj[m].dims
          /\ j \in DOMAIN ArrOf(req, g).dims /\ j \in DOMAIN obj[g].dims
      <3>1. /\ Len(obj[m].dims) >= Len(ArrOf(req, m).dims)
            /\ Len(obj[g].dims) >= Len(ArrOf(req, g).dims)
        BY <2>1, <2>3 DEF ShapeInv, LensOK, Delivered
      <3>2. ArrOf(req, m).dims \in Seq(Dim) /\ ArrOf(req, g).dims = req[i].main.dims
        BY <2>1, <2>8 DEF Arr, ArrOf
      <3>3. req[i].main.dims \in Seq(Dim)
        BY <2>8 DEF Arr
      <3>4. 1 \in DOMAIN ArrOf(req, m).dims /\ 1 \in DOMAIN obj[m].dims
        <4> HIDE DEF m, g
        <4> QED
          BY <2>7, <2>8, <3>1, <3>2
      <3>5. j \in DOMAIN ArrOf(req, g).dims /\ j \in DOMAIN obj[g].dims
        <4>1. j \in 1..Len(ArrOf(req, g).dims) /\ Len(ArrOf(req, g).dims) \in Nat
          BY <2>1, <3>2, <3>3
        <4> HIDE DEF m, g
        <4> QED
          BY <2>8, <3>1, <4>1
      <3> QED
        BY <3>4, <3>5
    <2>10. x \in DOMAIN Dimensions /\ y \in DOMAIN Dimensions
      BY <2>1, <2>3, <2>9 DEF IInv, TypeOK, PointersOK
    <2>11. Dimensions[y].name = d.name /\ Dimensions[y].size = d.size
      <3>1. Faithful(g, j)
        BY <2>1, <2>9 DEF ShapeInv, DimsOK
      <3> QED
        BY <2>1, <2>7, <3>1 DEF Faithful
    <2>12. Dimensions[x].name = d.name
      <3>1. Faithful(m, 1)
        BY <2>3, <2>9 DEF ShapeInv, DimsOK
      <3>2. CASE \E c \in DOMAIN Dimensions : Dimensions[c].name = d.name /\ Dimensions[c].size # d.size
        BY <2>7, <2>10, <2>11, <3>2 DEF IInv, DimNamesDistinct
      <3> QED
        BY <2>7, <3>1, <3>2 DEF Faithful
    <2>13. x = y
      BY <2>7, <2>10, <2>11, <2>12 DEF IInv, DimNamesDistinct
    <2> QED
      BY <2>13 DEF FileDim
  <1> QED
    BY <1>1, Invariance, SharingKnown, ShapesKnown, PTL

---------------------------------------------------------------------------
(* What is converted.                                                      *)

KindOf(p) == req[p[1]].kind
IsArrayKey(p) == KindOf(p) \in {"Array", "Grid"}
NameOf(p) == gen_name(EmbedOf(req, p), ArrOf(req, p).name)
EqualData(p, q) == SameData(ArrOf(req, p), ArrOf(req, q))
Unfinished(p) == pc = "dims" /\ p = Cur

(* p is to be sent: the variable or grid is, and the array or map.         *)
SentKey(p) ==
  /\ req[p[1]].send
  /\ p[2] = 0 => (KindOf(p) = "Grid" => req[p[1]].main.send)
  /\ p[2] > 0 => KindOf(p) = "Grid" /\ ArrOf(req, p).send

(* p is a map of a grid or a coordinate array outside of grids.            *)
MayServe(p) ==
  IsArrayKey(p) /\ (p[2] > 0 \/ (KindOf(p) = "Array" /\ IsCoordinate(ArrOf(req, p))))

(* The objects are those of what is to be sent, under its own name.        *)
NamesOK ==
  \A p \in DOMAIN obj : SentKey(p) /\ KindOf(p) # "Unknown" /\ obj[p].varname = NameOf(p)

(* Of what may serve as a map, all is registered but what equals something *)
(* that is.                                                                *)
Registered(p) == \E m \in DOMAIN Maps : Maps[m].arr = p
Equalled(p) == \E m \in DOMAIN Maps : EqualData(Maps[m].arr, p)
ServingOK == \A p : Registered(p) => MayServe(p)
RegisteredOK ==
  /\ ServingOK
  /\ \A p \in DOMAIN obj : obj[p].dontUse => MayServe(p) /\ Equalled(p)
  /\ \A p \in DOMAIN obj : MayServe(p) /\ ~obj[p].dontUse => Unfinished(p) \/ Registered(p)

(* The grid a map was registered for holds it; nothing but grids holds any.*)
HoldersOK ==
  /\ \A m \in DOMAIN Maps : Maps[m].arr[2] > 0 =>
       \E k \in DOMAIN held[Maps[m].arr[1]] : held[Maps[m].arr[1]][k] = m
  /\ \A i \in DOMAIN held : held[i] # << >> => req[i].kind = "Grid"

(* What the loops have left behind has its object, or is a map for which   *)
(* an equal one is registered.                                             *)
Behind(p) ==
  /\ pc = "convert" => p[1] < vi
  /\ pc = "maps" => p[1] < vi \/ (p[1] = vi /\ 0 < p[2] /\ p[2] < mi)
  /\ pc = "dims" => p[1] < vi \/ (p[1] = vi /\ 0 < p[2] /\ (mi > 0 => p[2] < mi))
Served(p) ==
  p \in DOMAIN obj \/ (p[2] > 0 /\ Equalled(p))
ServedOK ==
  \A p \in Key : ValidKey(p) /\ SentKey(p) /\ Behind(p) => Served(p)

(* Grids and arrays that are being converted are to be sent.               *)
SendingOK == pc \in {"maps", "dims"} => CurVar.send

SourceInv == SendingOK /\ NamesOK /\ RegisteredOK /\ HoldersOK /\ ServedOK

---------------------------------------------------------------------------
(* The work goes on.                                                       *)
GoesOn == [Next]_vars /\ Working' /\ ~\E r \in Requests : Begin(r)

(* A step from work to work is of the same request; it is none of those    *)
(* that end the work or come after it.                                     *)
LEMMA WorkStays ==
  ASSUME GoesOn
  PROVE  /\ [Next]_vars /\ Working /\ Working' /\ req' = req
         /\ ~\E r \in Requests : Begin(r)
         /\ ~Finish /\ ~DestroyVar /\ ~DestroyNext /\ ~CloseFile
         /\ ~ConvertUnknown /\ ~DimensionClash /\ ~NcFails /\ ~LibraryThrows
  <1>1. [Next]_vars /\ Working' /\ ~\E r \in Requests : Begin(r)
    BY DEF GoesOn
  <1>2. Working
    BY <1>1, WorksOn
  <1>3. ~Finish /\ ~DestroyVar /\ ~DestroyNext
    BY <1>2 DEF Finish, DestroyVar, DestroyNext, Working
  <1>4. ~CloseFile /\ ~ConvertUnknown /\ ~DimensionClash /\ ~NcFails /\ ~LibraryThrows
    BY <1>1 DEF CloseFile, ConvertUnknown, DimensionClash, NcFails, LibraryThrows, ThrowAndClose, Throw,
                Goto, Working
  <1> QED
    BY <1>1, <1>2, <1>3, <1>4, SameRequest

(* The actions of the conversion that go on with it, by what they do to the*)
(* objects.                                                                *)
Making == ConvertSimple \/ ConvertArray \/ ConvertMap \/ ConvertGridArray
Sizing == ShareDim \/ NewDimension \/ ShareLength \/ NewLength
Ending == RegisterCoordinate \/ DropCoordinate \/ ArrayDone \/ MapDone \/ GridArrayDone
Moving == SkipUnsent \/ ConvertGrid \/ EndConvert \/ SkipMap \/ ShareMap \/ SkipGridArray
Filing == Define \/ WriteData \/ SkipWrite \/ WriteNext

(* What such a step may be.                                                *)
LEMMA WorkSteps ==
  ASSUME GoesOn
  PROVE  Making \/ Sizing \/ Ending \/ Moving \/ Filing \/ UNCHANGED vars
  BY WorkStays, Zenon DEF Next, Step, Convert, Write, Destroy, Making, Sizing, Ending, Moving, Filing

(* What is there stays.                                                    *)
ObjectsStay ==
  \A p \in DOMAIN obj :
     /\ p \in DOMAIN obj' /\ obj'[p].varname = obj[p].varname
     /\ obj[p].dontUse => obj'[p].dontUse
RegistryStays ==
  \A m \in DOMAIN Maps : m \in DOMAIN Maps' /\ Maps'[m].arr = Maps[m].arr
HoldsStay ==
  /\ DOMAIN held' = DOMAIN held
  /\ \A i \in DOMAIN held : \A k \in DOMAIN held[i] :
        k \in DOMAIN held'[i] /\ held'[i][k] = held[i][k]

(* No array goes away, gets another name or comes back into use.           *)
LEMMA ObjStays ==
  ASSUME IInv, ObjInv, GoesOn
  PROVE  ObjectsStay
  <1>0. \A p \in DOMAIN obj : obj[p] \in FONcArray
    BY DEF IInv, TypeOK, ObjectsOK
  <1>1. CASE obj' = obj
    BY <1>1 DEF ObjectsStay
  <1>2. CASE Making
    <2>1. PICK p, name : p \in Key /\ p \notin DOMAIN obj /\ obj' = Put(obj, p, NewArray(name))
      <3>1. /\ vi \in Nat \ {0} /\ mi \in Nat
            /\ \A q \in DOMAIN obj : q \in Key /\ q[1] \in Nat /\ q[2] \in Nat
        BY DEF IInv, TypeOK, ControlOK, ObjectsOK, Key
      <3>2. CASE ConvertMap
        <4>1. Cur \in Key /\ Cur \notin DOMAIN obj
          BY <3>1, <3>2 DEF ConvertMap, ObjInv, AheadOK, Key, Cur
        <4> QED
          BY <3>2, <4>1 DEF ConvertMap, StartArray
      <3>3. CASE ConvertSimple \/ ConvertArray \/ ConvertGridArray
        <4>1. <<vi, 0>> \in Key /\ <<vi, 0>>[1] = vi /\ <<vi, 0>>[2] = 0
          BY <3>1 DEF Key
        <4>2. pc \in {"convert", "maps"}
          BY <3>3 DEF ConvertSimple, ConvertArray, ConvertGridArray
        <4>3. \A q \in DOMAIN obj : q[1] < vi \/ (q[1] = vi /\ 0 < q[2])
          BY <4>2 DEF ObjInv, AheadOK
        <4>4. <<vi, 0>> \notin DOMAIN obj
          BY <3>1, <4>1, <4>3
        <4> QED
          BY <3>3, <4>1, <4>4 DEF ConvertSimple, ConvertArray, ConvertGridArray, StartArray
      <3> QED
        BY <1>2, <3>2, <3>3 DEF Making
    <2> QED
      BY <2>1 DEF Put, ObjectsStay
  <1>3. CASE Sizing
    <2>1. PICK e : PushDim(e)
      BY <1>3, PushesOne DEF Sizing, Pushes
    <2> SUFFICES ASSUME NEW p \in DOMAIN obj
                 PROVE  /\ p \in DOMAIN obj' /\ obj'[p].varname = obj[p].varname
                        /\ obj[p].dontUse => obj'[p].dontUse
      BY DEF ObjectsStay
    <2>2. obj[p] \in FONcArray
      BY <1>0
    <2> QED
      BY <2>1, <2>2, SMTT(30) DEF PushDim, FONcArray
  <1>4. CASE RegisterCoordinate \/ DropCoordinate
    <2>1. \E n : obj' = [obj EXCEPT ![Cur].map = n] \/ obj' = [obj EXCEPT ![Cur].dontUse = TRUE]
      BY <1>4 DEF RegisterCoordinate, DropCoordinate
    <2> SUFFICES ASSUME NEW p \in DOMAIN obj
                 PROVE  /\ p \in DOMAIN obj' /\ obj'[p].varname = obj[p].varname
                        /\ obj[p].dontUse => obj'[p].dontUse
      BY DEF ObjectsStay
    <2>2. obj[p] \in FONcArray
      BY <1>0
    <2> QED
      BY <2>1, <2>2, SMTT(30) DEF FONcArray
  <1>5. CASE DefineScalar \/ DefineStr \/ DefineArray
    <2>1. UNCHANGED obj \/ obj' = [obj EXCEPT ![At].varid = Len(ncVars) + 1]
      BY <1>5 DEF DefineScalar, DefineStr, DefineArray, DefVar
    <2>2. CASE obj' = [obj EXCEPT ![At].varid = Len(ncVars) + 1]
      <3> SUFFICES ASSUME NEW p \in DOMAIN obj
                   PROVE  /\ p \in DOMAIN obj' /\ obj'[p].varname = obj[p].varname
                          /\ obj[p].dontUse => obj'[p].dontUse
        BY DEF ObjectsStay
      <3>1. obj[p] \in FONcArray
        BY <1>0
      <3> QED
        BY <2>2, <3>1, SMTT(30) DEF FONcArray
    <2> QED
      BY <1>1, <2>1, <2>2
  <1>6. CASE Moving \/ ArrayDone \/ MapDone \/ GridArrayDone
    BY <1>1, <1>6 DEF Moving, SkipUnsent, ConvertGrid, EndConvert, SkipMap, ShareMap, SkipGridArray,
                      ArrayDone, MapDone, GridArrayDone, converted
  <1>7. CASE UNCHANGED vars
    BY <1>1, <1>7 DEF vars, converted
  <1>8. CASE \/ CreateFile \/ DefineSequence \/ SkipDefined \/ DefineDim \/ SkipDefinedDim \/ DefineNext
             \/ EndDefine \/ WriteData \/ SkipWrite \/ WriteNext
    BY <1>1, <1>8 DEF CreateFile, DefineSequence, SkipDefined, DefineDim, SkipDefinedDim, DefineNext,
                      EndDefine, WriteData, SkipWrite, WriteNext, converted
  <1> QED
    BY <1>2, <1>3, <1>4, <1>5, <1>6, <1>7, <1>8, WorkSteps DEF Ending, Filing, Define

(* No registered map goes away.                                            *)
LEMMA MapsRemain ==
  ASSUME IInv, ObjInv, GoesOn
  PROVE  RegistryStays
  BY WorkStays, MapsStay DEF RegistryStays

(* No grid lets go of a map.                                               *)
LEMMA HeldStays ==
  ASSUME IInv, ObjInv, GoesOn
  PROVE  HoldsStay
  <1>1. CASE held' = held
    BY <1>1 DEF HoldsStay
  <1>2. ASSUME NEW m, Hold(m), vi \in DOMAIN held
        PROVE  HoldsStay
    <2>1. held[vi] \in Seq(Nat) /\ held' = [held EXCEPT ![vi] = Append(held[vi], m)]
      BY <1>2, HeldTypes DEF Hold
    <2>2. \A k \in DOMAIN held[vi] :
             k \in DOMAIN Append(held[vi], m) /\ Append(held[vi], m)[k] = held[vi][k]
      BY <2>1
    <2> QED
      BY <1>2, <2>1, <2>2 DEF HoldsStay
  <1>3. CASE ShareMap
    BY <1>2, <1>3, ShareTypes
  <1>4. CASE MapDone
    <2>1. Hold(Len(Maps) + 1) /\ pc = "dims"
      BY <1>4 DEF MapDone, DimsDone
    <2>2. vi \in DOMAIN held
      BY <2>1, CurTypes, HeldTypes DEF IInv, KeysOK, ValidKey, Cur
    <2> QED
      BY <1>2, <2>1, <2>2
  <1> QED
    BY <1>1, <1>3, <1>4, Effects, WorkStays, RegisterTypes DEF Keeps, Makes, Pushes

---------------------------------------------------------------------------
(* What a new object is.                                                   *)
NewObject(p) ==
  /\ Making /\ obj'[p] = NewArray(NameOf(p))
  /\ SentKey(p) /\ KindOf(p) # "Unknown"
  /\ \/ KindOf(p) \in {"Scalar", "Str", "Sequence"} /\ p = <<vi, 0>> /\ pc' = "convert"
     \/ IsArrayKey(p) /\ pc' = "dims" /\ p = Cur'

(* A new array is of something to be sent, under its own name.             *)
LEMMA ObjectsCome ==
  ASSUME IInv, ObjInv, SendingOK, GoesOn, NEW p \in DOMAIN obj', p \notin DOMAIN obj
  PROVE  NewObject(p)
  <1>1. \/ p = <<vi, 0>> /\ (ConvertSimple \/ ConvertArray \/ ConvertGridArray)
        \/ p = Cur /\ ConvertMap
    <2>1. ~(p = Cur /\ \E e : Pushes(e))
      BY PushTypes
    <2>2. [Next]_vars /\ ~(\E r \in Requests : Begin(r)) /\ ~Finish
      BY WorkStays
    <2> QED
      BY <2>1, <2>2, ArraysGrow
  <1>2. CASE p = <<vi, 0>> /\ ConvertSimple
    <2>1. /\ CurVar.send /\ CurVar.kind \in {"Scalar", "Str", "Sequence"} /\ pc' = "convert"
          /\ obj' = Put(obj, <<vi, 0>>, NewArray(gen_name(CurVar.embed, CurVar.main.name)))
      BY <1>2 DEF ConvertSimple, Goto
    <2>2. obj'[p] = NewArray(gen_name(CurVar.embed, CurVar.main.name))
      BY <1>2, <2>1 DEF Put
    <2>3. NameOf(p) = gen_name(CurVar.embed, CurVar.main.name) /\ KindOf(p) = CurVar.kind /\ SentKey(p)
      BY <1>2, <2>1 DEF NameOf, EmbedOf, ArrOf, CurVar, SentKey, KindOf
    <2> QED
      BY <1>2, <2>1, <2>2, <2>3 DEF NewObject, Making
  <1>3. CASE p = <<vi, 0>> /\ (ConvertArray \/ ConvertGridArray)
    <2>1. /\ obj' = Put(obj, p, NewArray(NameOf(p))) /\ pc' = "dims" /\ p = Cur'
      BY <1>3 DEF ConvertArray, ConvertGridArray, StartArray, NameOf, Goto, Cur
    <2>2. obj'[p] = NewArray(NameOf(p))
      BY <2>1 DEF Put
    <2>3. CurVar.kind \in {"Array", "Grid"} /\ CurVar.send /\ (CurVar.kind = "Grid" => CurVar.main.send)
      <3>1. CASE ConvertArray
        BY <3>1 DEF ConvertArray
      <3>2. CASE ConvertGridArray
        <4>1. CurVar.kind = "Grid" /\ CurVar.main.send /\ CurVar.send
          BY <3>2 DEF ConvertGridArray, IInv, CursorOK, SendingOK
        <4> QED
          BY <4>1
      <3> QED
        BY <1>3, <3>1, <3>2
    <2>4. IsArrayKey(p) /\ SentKey(p) /\ KindOf(p) # "Unknown"
      BY <1>3, <2>3 DEF IsArrayKey, SentKey, KindOf, CurVar
    <2> QED
      BY <1>3, <2>1, <2>2, <2>4 DEF NewObject, Making
  <1>4. CASE p = Cur /\ ConvertMap
    <2>1. /\ obj' = Put(obj, p, NewArray(NameOf(p))) /\ pc' = "dims" /\ p = Cur'
      BY <1>4 DEF ConvertMap, StartArray, NameOf, Goto, Cur
    <2>2. obj'[p] = NewArray(NameOf(p))
      BY <2>1 DEF Put
    <2>3. CurVar.kind = "Grid" /\ CurVar.send /\ CurArr.send /\ mi > 0
      BY <1>4 DEF ConvertMap, IInv, CursorOK, SendingOK
    <2>4. IsArrayKey(p) /\ SentKey(p) /\ KindOf(p) # "Unknown"
      BY <1>4, <2>3 DEF IsArrayKey, SentKey, KindOf, CurVar, CurArr, Cur
    <2> QED
      BY <1>4, <2>1, <2>2, <2>4 DEF NewObject, Making
  <1> QED
    BY <1>1, <1>2, <1>3, <1>4

(* SendingOK is kept.                                                      *)
LEMMA StepSending ==
  ASSUME SendingOK, GoesOn
  PROVE  SendingOK'
  <1> SUFFICES ASSUME pc' \in {"maps", "dims"} PROVE CurVar'.send
    BY DEF SendingOK
  <1>1. req' = req
    BY WorkStays
  <1>2. CASE pc \in {"maps", "dims"} /\ vi' = vi
    BY <1>1, <1>2 DEF SendingOK, CurVar
  <1>3. CASE ConvertSimple \/ ConvertArray \/ ConvertGrid
    <2>1. CurVar.send /\ (vi' = vi \/ pc' = "convert")
      BY <1>3 DEF ConvertSimple, ConvertArray, ConvertGrid, StartArray, Goto
    <2> QED
      BY <1>1, <2>1 DEF CurVar
  <1>4. CASE ConvertMap \/ ConvertGridArray
    BY <1>2, <1>4 DEF ConvertMap, ConvertGridArray, StartArray, Goto, Cur
  <1>5. CASE Sizing
    BY <1>2, <1>5 DEF Sizing, ShareDim, NewDimension, ShareLength, NewLength, NextDim, AtLength
  <1>6. CASE Ending
    BY <1>2, <1>6 DEF Ending, RegisterCoordinate, DropCoordinate, ArrayDone, MapDone, GridArrayDone,
                      GridConverted, DimsDone, Goto
  <1>7. CASE SkipUnsent \/ EndConvert \/ SkipMap \/ ShareMap \/ SkipGridArray
    BY <1>2, <1>7 DEF SkipUnsent, EndConvert, SkipMap, ShareMap, SkipGridArray, GridConverted, Goto
  <1>8. CASE Filing
    <2>1. pc' \notin {"maps", "dims"}
      BY <1>8, WhenDefine DEF Filing, WriteData, SkipWrite, WriteNext, Goto
    <2> QED
      BY <2>1
  <1>9. CASE UNCHANGED vars
    BY <1>2, <1>9 DEF vars, cursor
  <1> QED
    BY <1>3, <1>4, <1>5, <1>6, <1>7, <1>8, <1>9, WorkSteps DEF Making, Moving

(* NamesOK is kept.                                                        *)
LEMMA StepNames ==
  ASSUME IInv, ObjInv, SendingOK, NamesOK, GoesOn
  PROVE  NamesOK'
  <1> SUFFICES ASSUME NEW p \in DOMAIN obj'
               PROVE  SentKey(p)' /\ KindOf(p)' # "Unknown" /\ obj'[p].varname = NameOf(p)'
    BY DEF NamesOK
  <1>1. req' = req
    BY WorkStays
  <1>2. SentKey(p)' = SentKey(p) /\ KindOf(p)' = KindOf(p) /\ NameOf(p)' = NameOf(p)
    BY <1>1 DEF SentKey, KindOf, NameOf
  <1>3. CASE p \in DOMAIN obj
    BY <1>2, <1>3, ObjStays DEF ObjectsStay, NamesOK
  <1>4. CASE p \notin DOMAIN obj
    BY <1>2, <1>4, ObjectsCome DEF NewObject, NewArray
  <1> QED
    BY <1>3, <1>4

---------------------------------------------------------------------------
(* The registry.                                                           *)

(* How the conversion of an array ends.                                    *)
LEMMA EndingKinds ==
  ASSUME IInv, LastDims, FlagOK, Ending
  PROVE  /\ pc = "dims" /\ Cur \in DOMAIN obj /\ ValidKey(Cur) /\ DimsDone
         /\ RegisterCoordinate \/ DropCoordinate =>
              KindOf(Cur) = "Array" /\ Cur[2] = 0 /\ IsCoordinate(CurArr)
         /\ ArrayDone => KindOf(Cur) = "Array" /\ Cur[2] = 0 /\ ~IsCoordinate(CurArr)
         /\ MapDone => KindOf(Cur) = "Grid" /\ Cur[2] > 0
         /\ GridArrayDone => KindOf(Cur) = "Grid" /\ Cur[2] = 0
         /\ KindOf(Cur) = CurVar.kind /\ Cur[1] = vi /\ Cur[2] = mi
  <1>1. DimsDone /\ pc = "dims"
    BY DEF Ending, RegisterCoordinate, DropCoordinate, ArrayDone, MapDone, GridArrayDone, DimsDone
  <1>2. Cur \in DOMAIN obj /\ ValidKey(Cur)
    BY <1>1 DEF IInv, CursorOK, KeysOK
  <1>3. KindOf(Cur) = CurVar.kind /\ Cur[1] = vi /\ Cur[2] = mi /\ mi \in Nat
    BY ControlTypes DEF KindOf, Cur, CurVar
  <1>4. (mi > 0 => CurVar.kind = "Grid") /\ (InGrid <=> CurVar.kind = "Grid")
    BY <1>1 DEF IInv, CursorOK, FlagOK, InGridMeansGrid
  <1>5. ASSUME RegisterCoordinate \/ DropCoordinate
        PROVE  KindOf(Cur) = "Array" /\ Cur[2] = 0 /\ IsCoordinate(CurArr)
    <2>1. ~InGrid /\ IsCoordinate(CurArr)
      BY <1>5 DEF RegisterCoordinate, DropCoordinate, MayBeMap
    <2> QED
      BY <1>1, <1>3, <1>4, <2>1 DEF LastDims
  <1>6. ArrayDone => KindOf(Cur) = "Array" /\ Cur[2] = 0 /\ ~IsCoordinate(CurArr)
    BY <1>3, <1>4 DEF ArrayDone, MayBeMap
  <1>7. MapDone => KindOf(Cur) = "Grid" /\ Cur[2] > 0
    BY <1>3 DEF MapDone
  <1>8. GridArrayDone => KindOf(Cur) = "Grid" /\ Cur[2] = 0
    BY <1>3 DEF GridArrayDone
  <1> QED
    BY <1>1, <1>2, <1>3, <1>5, <1>6, <1>7, <1>8

(* Only the array in hand is registered, at the end of its conversion.     *)
LEMMA MapsGrow ==
  ASSUME IInv, ObjInv, GoesOn, NEW m \in DOMAIN Maps', m \notin DOMAIN Maps
  PROVE  Maps'[m].arr = Cur /\ Ending /\ (RegisterCoordinate \/ MapDone) /\ m = Len(Maps) + 1
  <1>1. pc = "dims" /\ Maps'[m].arr = Cur
    BY MapsCome, WorkStays
  <1>2. RegisterCoordinate \/ MapDone
    <2>1. CASE Keeps \/ Makes(<<vi, 0>>) \/ (Makes(Cur) /\ ConvertMap) \/ \E e : Pushes(e)
      BY <2>1 DEF Keeps, Makes, Pushes
    <2>2. CASE ShareMap
      BY <2>2, ShareTypes
    <2> QED
      BY <2>1, <2>2, Effects, WorkStays
  <1>3. \E ingrid : Maps' = Append(Maps, NewMap(Cur, ingrid))
    BY <1>2 DEF RegisterCoordinate, MapDone
  <1>4. m = Len(Maps) + 1
    BY <1>3, AppendMap
  <1> QED
    BY <1>1, <1>2, <1>4 DEF Ending

(* The array that is registered, or left out, is not converted any more.   *)
LEMMA UnfinishedStays ==
  ASSUME IInv, ObjInv, GoesOn, NEW p, Unfinished(p)
  PROVE  Unfinished(p)' \/ Ending
  <1>1. pc = "dims" /\ p = Cur
    BY DEF Unfinished
  <1>2. CASE Sizing
    BY <1>1, <1>2 DEF Sizing, ShareDim, NewDimension, ShareLength, NewLength, NextDim, Cur, Unfinished
  <1>3. CASE Making \/ Moving
    BY <1>1, <1>3 DEF Making, Moving, ConvertSimple, ConvertArray, ConvertMap, ConvertGridArray,
                      SkipUnsent, ConvertGrid, EndConvert, SkipMap, ShareMap, SkipGridArray
  <1>4. CASE Filing
    BY <1>1, <1>4, WhenDefine DEF Filing, WriteData, SkipWrite, WriteNext, Writing
  <1>5. CASE UNCHANGED vars
    BY <1>1, <1>5 DEF vars, cursor, Cur, Unfinished
  <1> QED
    BY <1>2, <1>3, <1>4, <1>5, WorkSteps

(* What is registered, or equals something that is, remains so.            *)
LEMMA RegistryGrows ==
  ASSUME IInv, ObjInv, GoesOn, NEW p
  PROVE  /\ req' = req
         /\ Registered(p) => Registered(p)'
         /\ Equalled(p) => Equalled(p)'
         /\ MayServe(p)' <=> MayServe(p)
  <1>1. req' = req
    BY WorkStays
  <1>2. \A m \in DOMAIN Maps : m \in DOMAIN Maps' /\ Maps'[m].arr = Maps[m].arr
    BY MapsRemain DEF RegistryStays
  <1>3. Registered(p) => Registered(p)'
    BY <1>2 DEF Registered
  <1>4. Equalled(p) => Equalled(p)'
    BY <1>1, <1>2 DEF Equalled, EqualData
  <1>5. MayServe(p)' <=> MayServe(p)
    BY <1>1 DEF MayServe, IsArrayKey, KindOf
  <1> QED
    BY <1>1, <1>3, <1>4, <1>5

(* ServingOK is kept.                                                      *)
LEMMA StepServing ==
  ASSUME IInv, ObjInv, LastDims, FlagOK, RegisteredOK, GoesOn
  PROVE  ServingOK'
  <1> SUFFICES ASSUME NEW p, Registered(p)'
               PROVE  MayServe(p)'
    BY DEF ServingOK
  <1>1. CASE Registered(p)
    BY <1>1, RegistryGrows DEF RegisteredOK, ServingOK
  <1>2. CASE ~Registered(p)
    <2>1. PICK m \in DOMAIN Maps' : Maps'[m].arr = p
      BY DEF Registered
    <2>2. m \notin DOMAIN Maps
      BY <1>2, <2>1, MapsRemain DEF Registered, RegistryStays
    <2>3. p = Cur /\ Ending /\ (RegisterCoordinate \/ MapDone)
      BY <2>1, <2>2, MapsGrow
    <2>4. MayServe(Cur)
      BY <2>3, EndingKinds DEF MayServe, IsArrayKey, CurArr
    <2> QED
      BY <2>3, <2>4, RegistryGrows
  <1> QED
    BY <1>1, <1>2

(* An array left out of the file equals one that is in it.                 *)
LEMMA StepDropped ==
  ASSUME IInv, ObjInv, LastDims, FlagOK, RegisteredOK, GoesOn, NEW p \in DOMAIN obj', obj'[p].dontUse
  PROVE  MayServe(p)' /\ Equalled(p)'
  <1> SUFFICES MayServe(p) /\ Equalled(p)
    BY RegistryGrows
  <1>1. CASE p \in DOMAIN obj /\ obj[p].dontUse
    BY <1>1 DEF RegisteredOK
  <1>2. CASE DropCoordinate /\ ~(p \in DOMAIN obj /\ obj[p].dontUse)
    <2>1. /\ Ending /\ obj' = [obj EXCEPT ![Cur].dontUse = TRUE] /\ InMaps(CurArr) # {}
      BY <1>2 DEF Ending, DropCoordinate
    <2>2. p = Cur
      BY <1>2, <2>1
    <2>3. KindOf(Cur) = "Array" /\ IsCoordinate(CurArr) /\ pc = "dims"
      BY <1>2, <2>1, EndingKinds
    <2>4. MayServe(p)
      BY <2>2, <2>3 DEF MayServe, IsArrayKey, CurArr
    <2>5. PICK m \in DOMAIN Maps : compare(ArrOf(req, Maps[m].arr), CurArr)
      BY <2>1 DEF InMaps
    <2>6. ArrOf(req, Maps[m].arr) \in Arr /\ CurArr \in Arr
      <3>1. Maps[m].arr \in DOMAIN obj
        BY WorkStays DEF IInv, KeysOK
      <3>2. Maps[m].arr \in Key /\ ValidKey(Maps[m].arr)
        BY <3>1 DEF IInv, KeysOK, TypeOK, ObjectsOK
      <3> QED
        BY <2>3, <3>2, KeyTypes, ControlTypes, CurTypes
    <2>7. Len(CurArr.dims) = 1
      BY <2>3 DEF IsCoordinate
    <2>8. EqualData(Maps[m].arr, p)
      BY <2>2, <2>5, <2>6, <2>7, EqualMaps DEF EqualData, CurArr
    <2> QED
      BY <2>4, <2>8 DEF Equalled
  <1> QED
    BY <1>1, <1>2, UseStays, WorkStays

(* An array in use that may serve as a map is registered when it is done.  *)
LEMMA StepInUse ==
  ASSUME IInv, ObjInv, LastDims, FlagOK, SendingOK, RegisteredOK, GoesOn,
         NEW p \in DOMAIN obj', MayServe(p)', ~obj'[p].dontUse
  PROVE  Unfinished(p)' \/ Registered(p)'
  <1>2. MayServe(p)
    BY RegistryGrows
  <1>3. CASE p \notin DOMAIN obj
    <2>1. NewObject(p)
      BY <1>3, ObjectsCome
    <2> QED
      BY <1>2, <2>1 DEF NewObject, MayServe, IsArrayKey, Unfinished
  <1>4. CASE p \in DOMAIN obj /\ Unfinished(p) /\ Ending
    <2>1. p = Cur /\ CurArr = ArrOf(req, p)
      BY <1>4 DEF Unfinished, CurArr
    <2>2. ~DropCoordinate
      <3>1. Cur \in DOMAIN obj /\ obj[Cur] \in FONcArray
        BY <1>4, <2>1 DEF IInv, TypeOK, ObjectsOK
      <3> QED
        BY <2>1, <3>1 DEF DropCoordinate, FONcArray
    <2>3. ~ArrayDone /\ ~GridArrayDone
      BY <1>2, <1>4, <2>1, EndingKinds DEF MayServe
    <2>4. RegisterCoordinate \/ MapDone
      BY <1>4, <2>2, <2>3 DEF Ending
    <2>5. \E ingrid : Maps' = Append(Maps, NewMap(Cur, ingrid))
      BY <2>4 DEF RegisterCoordinate, MapDone
    <2>6. Len(Maps) + 1 \in DOMAIN Maps' /\ Maps'[Len(Maps) + 1].arr = Cur
      BY <2>5, AppendMap DEF NewMap
    <2> QED
      BY <2>1, <2>6 DEF Registered
  <1>5. CASE p \in DOMAIN obj /\ Unfinished(p) /\ ~Ending
    BY <1>5, UnfinishedStays
  <1>6. CASE p \in DOMAIN obj /\ ~Unfinished(p)
    <2>1. ~obj[p].dontUse
      BY <1>6, ObjStays DEF ObjectsStay
    <2>2. Registered(p)
      BY <1>2, <1>6, <2>1 DEF RegisteredOK
    <2> QED
      BY <2>2, RegistryGrows
  <1> QED
    BY <1>3, <1>4, <1>5, <1>6

(* RegisteredOK is kept.                                                   *)
LEMMA StepRegistered ==
  ASSUME IInv, ObjInv, LastDims, FlagOK, SendingOK, RegisteredOK, GoesOn
  PROVE  RegisteredOK'
  <1>1. \A p \in DOMAIN obj' : obj'[p].dontUse => MayServe(p)' /\ Equalled(p)'
    BY StepDropped
  <1>2. \A p \in DOMAIN obj' : MayServe(p)' /\ ~obj'[p].dontUse => Unfinished(p)' \/ Registered(p)'
    BY StepInUse
  <1> QED
    BY <1>1, <1>2, StepServing DEF RegisteredOK

(* HoldersOK is kept.                                                      *)
LEMMA StepHolders ==
  ASSUME IInv, ObjInv, LastDims, FlagOK, HoldersOK, GoesOn
  PROVE  HoldersOK'
  <1>1. req' = req
    BY WorkStays
  <1>2. ASSUME NEW m \in DOMAIN Maps', NEW p, p = Maps'[m].arr, p[2] > 0
        PROVE  \E k \in DOMAIN held'[p[1]] : held'[p[1]][k] = m
    <2>1. CASE m \in DOMAIN Maps
      <3>1. p = Maps[m].arr
        BY <1>2, <2>1, MapsRemain DEF RegistryStays
      <3>2. p \in DOMAIN obj
        BY <2>1, <3>1, WorkStays DEF IInv, KeysOK
      <3>3. p[1] \in DOMAIN held
        BY <3>2, HeldTypes DEF IInv, KeysOK, ValidKey
      <3>4. PICK k \in DOMAIN held[p[1]] : held[p[1]][k] = m
        BY <1>2, <2>1, <3>1 DEF HoldersOK
      <3> QED
        BY <3>3, <3>4, HeldStays DEF HoldsStay
    <2>2. CASE m \notin DOMAIN Maps
      <3>1. p = Cur /\ Ending /\ (RegisterCoordinate \/ MapDone) /\ m = Len(Maps) + 1
        BY <1>2, <2>2, MapsGrow
      <3>2. MapDone /\ p[1] = vi /\ ValidKey(Cur)
        BY <1>2, <3>1, EndingKinds
      <3>3. vi \in DOMAIN held /\ held[vi] \in Seq(Nat) /\ m \in Nat
        BY <3>1, <3>2, HeldTypes DEF ValidKey, IInv, TypeOK, StaticsOK
      <3>4. held' = [held EXCEPT ![vi] = Append(held[vi], m)]
        BY <3>1, <3>2 DEF MapDone, Hold
      <3>5. held'[vi] = Append(held[vi], m)
        BY <3>3, <3>4
      <3>6. Len(held[vi]) + 1 \in DOMAIN held'[vi] /\ held'[vi][Len(held[vi]) + 1] = m
        BY <3>3, <3>5
      <3> QED
        BY <3>2, <3>6
    <2> QED
      BY <2>1, <2>2
  <1>3. ASSUME NEW i \in DOMAIN held', held'[i] # << >>
        PROVE  req'[i].kind = "Grid"
    <2>1. i \in DOMAIN held
      BY HeldStays DEF HoldsStay
    <2>2. CASE held'[i] = held[i]
      BY <1>1, <1>3, <2>1, <2>2 DEF HoldersOK
    <2>3. CASE ShareMap
      <3>1. (\E m : Hold(m)) /\ CurVar.kind = "Grid"
        BY <2>3, ShareTypes DEF ShareMap, IInv, CursorOK
      <3> QED
        BY <1>1, <2>1, <2>2, <3>1 DEF Hold, CurVar
    <2>4. CASE MapDone
      <3>1. (\E m : Hold(m)) /\ CurVar.kind = "Grid"
        BY <2>4 DEF MapDone
      <3> QED
        BY <1>1, <2>1, <2>2, <3>1 DEF Hold, CurVar
    <2>5. held' = held \/ ShareMap \/ MapDone
      BY Effects, WorkStays, RegisterTypes DEF Keeps, Makes, Pushes
    <2> QED
      BY <2>2, <2>3, <2>4, <2>5
  <1> QED
    BY <1>2, <1>3 DEF HoldersOK

(* A key is a pair.                                                        *)
LEMMA KeyParts ==
  ASSUME NEW p \in Key
  PROVE  p = <<p[1], p[2]>> /\ p[1] \in Nat /\ p[2] \in Nat
  BY DEF Key

(* What a loop leaves behind has its object then.                          *)
LEMMA StepServed ==
  ASSUME OneDimMaps, IInv, ReqOK, ObjInv, LastDims, FlagOK, SendingOK, ServedOK, GoesOn
  PROVE  ServedOK'
  <1> SUFFICES ASSUME NEW p \in Key, ValidKey(p)', SentKey(p)', Behind(p)'
               PROVE  Served(p)'
    BY DEF ServedOK
  <1>1. ValidKey(p) /\ SentKey(p) /\ req' = req
    <2>1. req' = req
      BY WorkStays
    <2> QED
      BY <2>1 DEF ValidKey, SentKey, KindOf
  <1>2. Served(p) => Served(p)'
    BY RegistryGrows, ObjStays DEF Served, ObjectsStay
  <1>3. CASE Behind(p)
    BY <1>1, <1>2, <1>3 DEF ServedOK
  <1>t. /\ p = <<p[1], p[2]>> /\ p[1] \in Nat /\ p[2] \in Nat
        /\ vi \in Nat \ {0} /\ mi \in Nat /\ req \in Seq(Var)
    BY KeyParts, ControlTypes
  <1>s. p[2] > 0 => KindOf(p) = "Grid" /\ p[2] <= Len(req[p[1]].maps)
    <2>1. p[2] > 0 => KindOf(p) = "Grid" /\ p[2] \in DOMAIN req[p[1]].maps
      BY <1>1, <1>t DEF SentKey, ValidKey
    <2>2. req[p[1]] \in Var
      BY <1>1, <1>t DEF ValidKey
    <2>3. req[p[1]].maps \in Seq(Arr)
      BY <2>2 DEF Var
    <2> QED
      BY <1>t, <2>1, <2>3
  <1>4. CASE ~Behind(p) /\ Making
    <2>1. CASE ConvertSimple
      <3>1. p[1] = vi
        BY <1>4, <1>t, <2>1 DEF ConvertSimple, Goto, Behind
      <3>2. p[2] = 0
        BY <1>s, <1>t, <2>1, <3>1 DEF ConvertSimple, KindOf, CurVar
      <3>3. p \in DOMAIN obj'
        BY <1>t, <2>1, <3>1, <3>2 DEF ConvertSimple, Put
      <3> QED
        BY <3>3 DEF Served
    <2>2. CASE ConvertArray
      <3>1. p[1] = vi /\ p[2] > 0
        BY <1>4, <1>t, <2>2 DEF ConvertArray, StartArray, Goto, Behind
      <3> QED
        BY <1>s, <2>2, <3>1 DEF ConvertArray, KindOf, CurVar
    <2>3. CASE ConvertMap
      <3>1. pc = "maps" /\ pc' = "dims" /\ vi' = vi /\ mi' = mi /\ mi > 0
        BY <2>3 DEF ConvertMap, StartArray, Goto, Cur, IInv, CursorOK
      <3> QED
        BY <1>4, <1>t, <3>1 DEF Behind
    <2>4. CASE ConvertGridArray
      BY <1>4, <1>s, <1>t, <2>4 DEF ConvertGridArray, StartArray, Goto, Behind, CurVar
    <2> QED
      BY <1>4, <2>1, <2>2, <2>3, <2>4 DEF Making
  <1>5. CASE ~Behind(p) /\ Sizing
    BY <1>5 DEF Sizing, ShareDim, NewDimension, ShareLength, NewLength, NextDim, AtLength, Behind
  <1>6. CASE ~Behind(p) /\ Ending
    <2>1. /\ Cur \in DOMAIN obj /\ pc = "dims"
          /\ KindOf(Cur) = CurVar.kind /\ Cur[1] = vi /\ Cur[2] = mi
      BY <1>6, EndingKinds
    <2>2. SUFFICES p = Cur
      BY <1>2, <2>1 DEF Served
    <2>3. CASE RegisterCoordinate \/ DropCoordinate \/ ArrayDone
      <3>0. pc' = "convert" /\ vi' = vi + 1
        BY <2>3 DEF RegisterCoordinate, DropCoordinate, ArrayDone, Goto
      <3>1. p[1] = vi
        BY <1>6, <1>t, <2>1, <3>0 DEF Behind
      <3>2. KindOf(Cur) = "Array" /\ Cur[2] = 0
        BY <1>6, <2>3, EndingKinds
      <3>3. p[2] = 0
        BY <1>s, <1>t, <2>1, <3>1, <3>2 DEF KindOf
      <3> QED
        BY <1>t, <2>1, <3>1, <3>2, <3>3 DEF Cur
    <2>4. CASE MapDone
      <3>1. p[1] = vi /\ p[2] = mi
        BY <1>6, <1>t, <2>1, <2>4 DEF MapDone, Goto, Behind
      <3> QED
        BY <1>t, <3>1 DEF Cur
    <2>5. CASE GridArrayDone
      <3>1. p[1] = vi /\ mi = 0
        BY <1>6, <1>t, <2>1, <2>5 DEF GridArrayDone, GridConverted, Goto, Behind
      <3>2. p[2] = 0
        BY <1>6, <1>t, <2>1, <3>1 DEF Behind
      <3> QED
        BY <1>t, <3>1, <3>2 DEF Cur
    <2> QED
      BY <1>6, <2>3, <2>4, <2>5 DEF Ending
  <1>7. CASE ~Behind(p) /\ Moving
    <2>1. CASE SkipUnsent
      <3>1. p[1] = vi
        BY <1>7, <1>t, <2>1 DEF SkipUnsent, Goto, Behind
      <3> QED
        BY <1>1, <2>1, <3>1 DEF SkipUnsent, SentKey, CurVar
    <2>2. CASE ConvertGrid
      BY <1>7, <1>t, <2>2 DEF ConvertGrid, Goto, Behind
    <2>3. CASE EndConvert
      BY <1>1, <1>7, <1>t, <2>3 DEF EndConvert, Goto, Behind, ValidKey
    <2>4. CASE SkipMap
      <3>1. p[1] = vi /\ p[2] = mi /\ pc = "maps"
        BY <1>7, <1>t, <2>4 DEF SkipMap, Goto, Behind
      <3>2. p = Cur /\ mi > 0
        BY <1>t, <3>1 DEF Cur, IInv, CursorOK
      <3> QED
        BY <1>1, <2>4, <3>1, <3>2 DEF SkipMap, SentKey, CurArr
    <2>5. CASE ShareMap
      <3>1. p[1] = vi /\ p[2] = mi /\ pc = "maps" /\ mi <= Len(CurVar.maps)
        BY <1>7, <1>t, <2>5 DEF ShareMap, Goto, Behind
      <3>2. p = Cur /\ mi > 0
        BY <1>t, <3>1 DEF Cur, IInv, CursorOK
      <3>3. PICK m \in DOMAIN Maps : m \in InMaps(CurArr)
        BY <2>5, ShareTypes
      <3>4. CurArr \in Arr /\ Len(CurArr.dims) = 1
        BY <3>1, <3>2, CurMap
      <3>5. ArrOf(req, Maps[m].arr) \in Arr
        <4>1. Maps[m].arr \in DOMAIN obj
          BY WorkStays DEF IInv, KeysOK
        <4>2. Maps[m].arr \in Key /\ ValidKey(Maps[m].arr)
          BY <4>1 DEF IInv, KeysOK, TypeOK, ObjectsOK
        <4> QED
          BY <1>t, <4>2, KeyTypes
      <3>6. compare(ArrOf(req, Maps[m].arr), CurArr)
        BY <3>3 DEF InMaps
      <3>7. EqualData(Maps[m].arr, p)
        BY <3>2, <3>4, <3>5, <3>6, EqualMaps DEF EqualData, CurArr
      <3> QED
        BY <1>2, <1>t, <3>1, <3>2, <3>7 DEF Served, Equalled
    <2>6. CASE SkipGridArray
      <3>1. p[1] = vi /\ pc = "maps" /\ ~CurVar.main.send /\ mi > Len(CurVar.maps)
        BY <1>7, <1>t, <2>6 DEF SkipGridArray, GridConverted, Goto, Behind
      <3>2. CurVar.kind = "Grid"
        BY <3>1 DEF IInv, CursorOK
      <3>3. p[2] > 0
        BY <1>1, <1>t, <3>1, <3>2 DEF SentKey, KindOf, CurVar
      <3> QED
        BY <1>7, <1>s, <1>t, <3>1, <3>3 DEF Behind, CurVar
    <2> QED
      BY <1>7, <2>1, <2>2, <2>3, <2>4, <2>5, <2>6 DEF Moving
  <1>8. CASE Filing
    <2>1. pc \in {"create", "define", "write"}
      BY <1>8, WhenDefine DEF Filing, WriteData, SkipWrite, WriteNext, Writing
    <2> QED
      BY <1>3, <2>1 DEF Behind
  <1>9. CASE UNCHANGED vars
    BY <1>3, <1>9 DEF vars, cursor, Behind
  <1> QED
    BY <1>3, <1>4, <1>5, <1>6, <1>7, <1>8, <1>9, WorkSteps

(* While a response is worked on, everything sent that is behind is there  *)
(* to be written, and nothing else is.                                     *)
Sourced == Working => SourceInv

(* SourceInv holds of a new request.                                       *)
LEMMA BeginSources ==
  ASSUME NEW r \in Requests, Begin(r)
  PROVE  SourceInv'
  <1>1. /\ obj' = << >> /\ Maps' = << >> /\ pc' = "convert" /\ vi' = 1 /\ req' = r
        /\ held' = [i \in DOMAIN r |-> << >>]
    BY DEF Begin, Goto, ResetStatics
  <1>2. SendingOK' /\ NamesOK' /\ RegisteredOK' /\ HoldersOK'
    BY <1>1 DEF SendingOK, NamesOK, RegisteredOK, ServingOK, Registered, HoldersOK
  <1>3. ServedOK'
    <2> SUFFICES ASSUME NEW p \in Key, p[1] \in DOMAIN r, p[1] < 1 PROVE FALSE
      BY <1>1 DEF ServedOK, ValidKey, Behind
    <2>1. r \in Seq(Var)
      BY RequestsAssumption
    <2> QED
      BY <2>1
  <1> QED
    BY <1>2, <1>3 DEF SourceInv

(* While a response is worked on: the arrays alive are those of what is to *)
(* be sent, under the names of the response, but for maps that equal a     *)
(* registered one; and what is left out of the file equals a map that is   *)
(* registered (FONcTransform::transform, FONcGrid::convert,                *)
(* FONcArray::convert).                                                    *)
THEOREM SourcesKnown ==
  ASSUME Standalone, OneDimMaps
  PROVE  Spec => []Sourced
  <1>1. Init => Sourced /\ FlagOK
    BY DEF Init, Sourced, Working, FlagOK, InGridMeansGrid
  <1>2. IInv /\ ReqOK /\ ObjInv /\ LastDims /\ FlagOK /\ Sourced /\ [Next]_vars => Sourced'
    <2> SUFFICES ASSUME IInv, ReqOK, ObjInv, LastDims, FlagOK, Sourced, [Next]_vars, Working'
                 PROVE  SourceInv'
      BY DEF Sourced
    <2>1. CASE \E r \in Requests : Begin(r)
      BY <2>1, BeginSources
    <2>2. CASE ~\E r \in Requests : Begin(r)
      <3>1. GoesOn
        BY <2>2 DEF GoesOn
      <3>2. SendingOK /\ NamesOK /\ RegisteredOK /\ HoldersOK /\ ServedOK
        BY <3>1, WorkStays DEF Sourced, SourceInv
      <3> QED
        BY <3>1, <3>2, StepSending, StepNames, StepRegistered, StepHolders, StepServed DEF SourceInv
    <2> QED
      BY <2>1, <2>2
  <1>3. IInv /\ FlagOK /\ [Next]_vars => FlagOK'
    BY StepFlagOK
  <1>4. ShapeInv => LastDims
    BY DEF ShapeInv
  <1>5. ShareInv => ReqOK
    BY DEF ShareInv
  <1> QED
    BY <1>1, <1>2, <1>3, <1>4, <1>5, Invariance, ObjectsKnown, ShapesKnown, SharingKnown, PTL DEF Spec

---------------------------------------------------------------------------
(* What arrays get for dimensions.                                         *)

(* The k-th dimension of the object p: what it may be called and the size  *)
(* it needs.  The one after the last of an array is for its strings.       *)
Extra(p) == IF IsText(ArrOf(req, p)) THEN 1 ELSE 0
ForStrings(p, k) == k > Len(ArrOf(req, p).dims)
Names(p, k) ==
  LET a == ArrOf(req, p)
      n == a.dims[k].name
  IN IF ForStrings(p, k) THEN {WithLen(NameOf(p))}
     ELSE IF n = << >> THEN {}
     ELSE IF EmbedOf(req, p) = << >> THEN {n}
     ELSE {n, gen_name(EmbedOf(req, p), n)}
SizeOf(p, k) == IF ForStrings(p, k) THEN ArrOf(req, p).len ELSE ArrOf(req, p).dims[k].size
Called(p, k, n) == IF Names(p, k) = {} THEN n = << >> ELSE n \in Names(p, k) /\ n # << >>
Fits(p, k, z) == IF ForStrings(p, k) THEN z >= SizeOf(p, k) ELSE z = SizeOf(p, k)

(* An array has all its dimensions when it is converted.                   *)
LengthOK(p) ==
  IF IsArrayKey(p) THEN Unfinished(p) \/ Len(obj[p].dims) = Len(ArrOf(req, p).dims) + Extra(p)
                   ELSE obj[p].dims = << >>
LengthsOK ==
  /\ \A p \in DOMAIN obj : LengthOK(p)
  /\ pc = "dims" => di - 1 <= Len(CurArr.dims) + Extra(Cur)

(* Each has a name it may have and a size that fits; and a dimension has   *)
(* the size of one of those it was made for.                               *)
DimOK(p, k, c) == Called(p, k, Dimensions[c].name) /\ Fits(p, k, Dimensions[c].size)
SlotOK(p, k) == DimOK(p, k, obj[p].dims[k])
SlotsOK == \A p \in DOMAIN obj : \A k \in DOMAIN obj[p].dims : SlotOK(p, k)
Origin(c, p, k) ==
  /\ p \in DOMAIN obj /\ k \in DOMAIN obj[p].dims /\ obj[p].dims[k] = c
  /\ Dimensions[c].size = SizeOf(p, k)
FromOK == \A c \in DOMAIN Dimensions : \E p, k : Origin(c, p, k)

MeasureInv == LengthsOK /\ SlotsOK /\ FromOK

(* The dimension e, of that name and then of size z, is taken.             *)
Takes(e, n, z) ==
  /\ Sizing /\ PushDim(e) /\ e \in DOMAIN Dimensions'
  /\ Dimensions'[e].name = n /\ Dimensions'[e].size = z
  /\ \A c \in DOMAIN Dimensions :
       /\ c \in DOMAIN Dimensions' /\ Dimensions'[c].name = Dimensions[c].name
       /\ Dimensions'[c].dimid = Dimensions[c].dimid
       /\ c # e => Dimensions'[c] = Dimensions[c]
  /\ \A c \in DOMAIN Dimensions' : c \in DOMAIN Dimensions \/ c = e
  /\ e \notin DOMAIN Dimensions => Dimensions'[e].dimid = 0

(* A new dimension is of the name and the size it is made with.            *)
LEMMA AddTakes ==
  ASSUME IInv, Sizing, NEW n, NEW z, AddDim(n, z)
  PROVE  \E e : Takes(e, n, z) /\ e \notin DOMAIN Dimensions
  <1> DEFINE e == Len(Dimensions) + 1
  <1>1. Dimensions \in Seq(FONcDim)
    BY DEF IInv, TypeOK, StaticsOK
  <1>2. Dimensions' = Append(Dimensions, NewDim(n, z)) /\ PushDim(e)
    BY DEF AddDim
  <1>3. /\ DOMAIN Dimensions' = DOMAIN Dimensions \cup {e} /\ e \notin DOMAIN Dimensions
        /\ Dimensions'[e] = NewDim(n, z)
        /\ \A c \in DOMAIN Dimensions : Dimensions'[c] = Dimensions[c]
    BY <1>1, <1>2
  <1> HIDE DEF e
  <1> QED
    BY <1>2, <1>3 DEF Takes, NewDim

(* A dimension that is found by its name keeps it.                         *)
LEMMA UseTakes ==
  ASSUME IInv, Sizing, NEW n, NEW z, Named(n) # {}, UseDim(First(Named(n)), z)
  PROVE  \E e \in Named(n) : Takes(e, n, z)
  <1> DEFINE e == First(Named(n))
  <1>1. e \in Named(n) /\ e \in DOMAIN Dimensions
    BY NamedIsOne
  <1>2. UseDim(e, z)
    OBVIOUS
  <1> HIDE DEF e
  <1>3. Dimensions \in Seq(FONcDim)
    BY DEF IInv, TypeOK, StaticsOK
  <1>4. Dimensions' = [Dimensions EXCEPT ![e].ref = @ + 1, ![e].size = z] /\ PushDim(e)
    BY <1>2 DEF UseDim
  <1> DEFINE counted == [Dimensions[e] EXCEPT !.ref = @ + 1]
  <1>5. Dimensions[e] \in FONcDim /\ Dimensions[e].name = n
    BY <1>1, <1>3 DEF Named
  <1>6. /\ counted \in [name : Path, size : Nat, ref : {counted.ref}, dimid : Nat]
        /\ counted.name = Dimensions[e].name /\ counted.dimid = Dimensions[e].dimid
    BY <1>5 DEF FONcDim
  <1>7. /\ DOMAIN Dimensions' = DOMAIN Dimensions /\ Dimensions'[e] = [counted EXCEPT !.size = z]
        /\ \A c \in DOMAIN Dimensions : c # e => Dimensions'[c] = Dimensions[c]
    BY <1>1, <1>4
  <1> HIDE DEF counted
  <1>8. /\ Dimensions'[e].name = n /\ Dimensions'[e].size = z
        /\ Dimensions'[e].name = Dimensions[e].name /\ Dimensions'[e].dimid = Dimensions[e].dimid
    BY <1>5, <1>6, <1>7
  <1>9. Takes(e, n, z)
    BY <1>1, <1>4, <1>7, <1>8 DEF Takes
  <1> QED
    BY <1>1, <1>9

(* A name with names of structures before it is not empty.                 *)
LEMMA LongName ==
  ASSUME NEW e \in Path, NEW n \in Path, n # << >>
  PROVE  gen_name(e, n) # << >>
  <1>1. e \o n \in Path /\ Len(e \o n) = Len(e) + Len(n) /\ Len(n) \in Nat \ {0} /\ Len(e) \in Nat
    BY DEF Path
  <1>2. DOMAIN gen_name(e, n) = 1..Len(e \o n)
    <2> DEFINE s == e \o n
    <2>1. DOMAIN s = 1..Len(s)
      BY <1>1 DEF Path
    <2> HIDE DEF s
    <2>2. DOMAIN id2netcdf(s) = 1..Len(s)
      BY <2>1 DEF id2netcdf
    <2> QED
      BY <2>2 DEF gen_name, s
  <1>3. 1 \in 1..Len(e \o n)
    BY <1>1
  <1> QED
    BY <1>2, <1>3

(* The name an array looks for is one the dimension may have.              *)
LEMMA WantedNames ==
  ASSUME IInv, pc = "dims", di \in DOMAIN CurArr.dims
  PROVE  Called(Cur, di, Wanted(CurArr.dims[di])) /\ ~ForStrings(Cur, di)
  <1> DEFINE d == CurArr.dims[di]
  <1>1. CurArr \in Arr /\ CurEmbed \in Path /\ CurArr = ArrOf(req, Cur) /\ CurEmbed = EmbedOf(req, Cur)
    BY CurTypes DEF CurArr, CurEmbed
  <1>2. CurArr.dims \in Seq(Dim)
    BY <1>1 DEF Arr
  <1>3. d \in Dim /\ d.name \in Path /\ ~(di > Len(CurArr.dims))
    <2>1. di \in 1..Len(CurArr.dims) /\ Len(CurArr.dims) \in Nat /\ d \in Dim
      BY <1>2
    <2>2. d.name \in Path
      BY <2>1 DEF Dim
    <2> QED
      BY <2>1, <2>2
  <1>4. ~ForStrings(Cur, di)
    BY <1>1, <1>3 DEF ForStrings
  <1>5. Names(Cur, di) = IF d.name = << >> THEN {} ELSE
                         IF CurEmbed = << >> THEN {d.name} ELSE {d.name, gen_name(CurEmbed, d.name)}
    BY <1>1, <1>4 DEF Names
  <1>6. CASE d.name = << >>
    <2>1. ~SizesDiffer(d.name, d.size)
      BY <1>6 DEF SizesDiffer, Named
    <2>2. Wanted(d) = << >>
      BY <1>6, <2>1 DEF Wanted
    <2> QED
      BY <1>4, <1>5, <1>6, <2>2 DEF Called
  <1>7. CASE d.name # << >>
    <2>1. gen_name(CurEmbed, d.name) # << >>
      BY <1>1, <1>3, <1>7, LongName
    <2>2. \/ Wanted(d) = d.name
          \/ CurEmbed # << >> /\ Wanted(d) = gen_name(CurEmbed, d.name)
      BY DEF Wanted
    <2> HIDE DEF d
    <2> QED
      BY <1>4, <1>5, <1>7, <2>1, <2>2 DEF Called, d
  <1> QED
    BY <1>6, <1>7

(* Each of the steps takes a dimension that the array may have; one that   *)
(* was there already has its size then, unless it is made longer.          *)
Suits(e, n, z) ==
  /\ Called(Cur, di, n) /\ Fits(Cur, di, z)
  /\ z = SizeOf(Cur, di) \/ (e \in DOMAIN Dimensions /\ z = Dimensions[e].size)
  /\ e \in DOMAIN Dimensions /\ z # Dimensions[e].size =>
       AtLength /\ n = LenName /\ z = CurArr.len /\ Dimensions[e].size < z

(* Every dimension an array takes has a name and a size that suit it.      *)
LEMMA SizingTakes ==
  ASSUME IInv, NamesOK, Sizing
  PROVE  \E e, n, z : Takes(e, n, z) /\ Suits(e, n, z)
  <1>1. CurArr \in Arr /\ CurArr = ArrOf(req, Cur) /\ Cur \in DOMAIN obj
    BY CurTypes DEF CurArr, Sizing, ShareDim, NewDimension, ShareLength, NewLength, AtLength
  <1>2. CurArr.dims \in Seq(Dim) /\ CurArr.len \in Nat
    BY <1>1 DEF Arr
  <1>3. di \in Nat \ {0} /\ Dimensions \in Seq(FONcDim)
    BY DEF IInv, TypeOK, ControlOK, StaticsOK
  <1>4. CASE ShareDim \/ NewDimension
    <2> DEFINE d == CurArr.dims[di]
               want == Wanted(d)
    <2>1. di \in DOMAIN CurArr.dims /\ pc = "dims"
      BY <1>2, <1>3, <1>4 DEF ShareDim, NewDimension
    <2>2. Called(Cur, di, want) /\ ~ForStrings(Cur, di)
      BY <2>1, WantedNames
    <2>3. SizeOf(Cur, di) = d.size /\ Fits(Cur, di, d.size)
      BY <1>1, <2>2 DEF SizeOf, Fits
    <2>4. CASE ShareDim
      <3>1. Named(want) # {} /\ ~SizesDiffer(want, d.size) /\ UseDim(First(Named(want)), d.size)
        BY <2>4 DEF ShareDim
      <3> HIDE DEF want, d
      <3>2. PICK e \in Named(want) : Takes(e, want, d.size)
        BY <2>4, <3>1, UseTakes DEF Sizing
      <3>3. Dimensions[e].size = d.size
        BY <3>1, <3>2 DEF SizesDiffer
      <3> QED
        BY <2>2, <2>3, <3>2, <3>3 DEF Suits
    <2>5. CASE NewDimension
      <3>1. AddDim(want, d.size)
        BY <2>5 DEF NewDimension
      <3> HIDE DEF want, d
      <3>2. PICK e : Takes(e, want, d.size) /\ e \notin DOMAIN Dimensions
        BY <2>5, <3>1, AddTakes DEF Sizing
      <3> QED
        BY <2>2, <2>3, <3>2 DEF Suits
    <2> QED
      BY <1>4, <2>4, <2>5
  <1>5. CASE ShareLength \/ NewLength
    <2>1. AtLength /\ di = Len(CurArr.dims) + 1
      BY <1>5 DEF ShareLength, NewLength, AtLength
    <2>2. LenName = WithLen(NameOf(Cur)) /\ LenName # << >>
      <3>1. obj[Cur].varname \in Path
        BY <1>1 DEF IInv, TypeOK, ObjectsOK, FONcArray
      <3>2. obj[Cur].varname = NameOf(Cur)
        BY <1>1 DEF NamesOK
      <3> QED
        BY <3>1, <3>2, WithLenEnds DEF LenName, EndsLen
    <2>3. ForStrings(Cur, di)
      BY <1>1, <1>2, <2>1 DEF ForStrings
    <2>4. Called(Cur, di, LenName) /\ SizeOf(Cur, di) = CurArr.len
      BY <1>1, <2>2, <2>3 DEF Called, Names, SizeOf
    <2>5. CASE ShareLength
      <3> DEFINE was == Dimensions[First(Named(LenName))].size
                 z == IF was < CurArr.len THEN CurArr.len ELSE was
      <3>1. Named(LenName) # {} /\ UseDim(First(Named(LenName)), z)
        BY <2>5 DEF ShareLength
      <3>2. \E e \in Named(LenName) : e = First(Named(LenName))
        BY <3>1, NamedIsOne
      <3>3. PICK e \in Named(LenName) : Takes(e, LenName, z)
        <4> HIDE DEF z
        <4> QED
          BY <2>5, <3>1, UseTakes DEF Sizing
      <3>4. e = First(Named(LenName))
        <4>1. e \in Named(LenName) /\ First(Named(LenName)) \in Named(LenName)
          BY <3>2
        <4> QED
          BY <4>1 DEF Named, IInv, DimNamesDistinct
      <3>5. was \in Nat /\ was = Dimensions[e].size /\ e \in DOMAIN Dimensions
        <4>1. e \in DOMAIN Dimensions
          BY DEF Named
        <4>2. Dimensions[e] \in FONcDim
          BY <1>3, <4>1
        <4>3. Dimensions[e].size \in Nat
          BY <4>2 DEF FONcDim
        <4> QED
          BY <3>4, <4>1, <4>3
      <3>6. Fits(Cur, di, z)
        BY <1>2, <2>3, <2>4, <3>5 DEF Fits
      <3> HIDE DEF was
      <3>7. Suits(e, LenName, z)
        BY <1>2, <2>1, <2>4, <3>5, <3>6 DEF Suits
      <3> HIDE DEF z
      <3> QED
        BY <3>3, <3>7
    <2>6. CASE NewLength
      <3>1. AddDim(LenName, CurArr.len)
        BY <2>6 DEF NewLength
      <3>2. PICK e : Takes(e, LenName, CurArr.len) /\ e \notin DOMAIN Dimensions
        BY <2>6, <3>1, AddTakes DEF Sizing
      <3>3. Fits(Cur, di, CurArr.len)
        BY <1>2, <2>3, <2>4 DEF Fits
      <3> QED
        BY <2>4, <3>2, <3>3 DEF Suits
    <2> QED
      BY <1>5, <2>5, <2>6
  <1> QED
    BY <1>4, <1>5 DEF Sizing

(* No other step touches the names and sizes of dimensions.                *)
DimsRemain ==
  /\ DOMAIN Dimensions' = DOMAIN Dimensions
  /\ \A c \in DOMAIN Dimensions : /\ Dimensions'[c].name = Dimensions[c].name
                                  /\ Dimensions'[c].size = Dimensions[c].size

(* Other steps leave the dimensions alone.                                 *)
LEMMA OthersKeepDims ==
  ASSUME IInv, ObjInv, GoesOn, ~Sizing
  PROVE  DimsRemain
  <1>1. CASE Dimensions' = Dimensions
    BY <1>1 DEF DimsRemain
  <1>2. CASE DefineDim
    <2>1. PICK d : Dimensions' = Dimensions \/ \E id : Dimensions' = [Dimensions EXCEPT ![d].dimid = id]
      BY <1>2 DEF DefineDim
    <2>2. \A c \in DOMAIN Dimensions : Dimensions[c] \in FONcDim
      BY DEF IInv, TypeOK, StaticsOK
    <2>3. CASE \E id : Dimensions' = [Dimensions EXCEPT ![d].dimid = id]
      <3>1. PICK id : Dimensions' = [Dimensions EXCEPT ![d].dimid = id]
        BY <2>3
      <3>2. ASSUME NEW c \in DOMAIN Dimensions
            PROVE  Dimensions'[c].name = Dimensions[c].name /\ Dimensions'[c].size = Dimensions[c].size
        <4>1. Dimensions[c] \in FONcDim
          BY <2>2
        <4>2. Dimensions'[c] = Dimensions[c] \/ Dimensions'[c] = [Dimensions[c] EXCEPT !.dimid = id]
          BY <3>1
        <4> QED
          BY <4>1, <4>2 DEF FONcDim
      <3> QED
        BY <3>1, <3>2 DEF DimsRemain
    <2> QED
      BY <1>1, <2>1, <2>3
  <1>3. CASE Making \/ Ending \/ Moving
    BY <1>1, <1>3 DEF Making, ConvertSimple, ConvertArray, ConvertMap, ConvertGridArray,
                      Ending, RegisterCoordinate, DropCoordinate, ArrayDone, MapDone, GridArrayDone,
                      Moving, SkipUnsent, ConvertGrid, EndConvert, SkipMap, ShareMap, SkipGridArray, statics
  <1>4. CASE \/ CreateFile \/ DefineScalar \/ DefineStr \/ DefineSequence \/ SkipDefined
             \/ SkipDefinedDim \/ DefineArray \/ DefineNext \/ EndDefine
             \/ WriteData \/ SkipWrite \/ WriteNext
    BY <1>1, <1>4 DEF CreateFile, DefineScalar, DefineStr, DefineSequence, SkipDefined, SkipDefinedDim,
                      DefineArray, DefineNext, EndDefine, WriteData, SkipWrite, WriteNext, statics
  <1>5. CASE UNCHANGED vars
    BY <1>1, <1>5 DEF vars, statics
  <1> QED
    BY <1>2, <1>3, <1>4, <1>5, WorkSteps DEF Filing, Define

(* Only the conversion of an array gives it dimensions.                    *)
LEMMA PushSizes ==
  ASSUME IInv, ObjInv, [Next]_vars, NEW e, Pushes(e)
  PROVE  Sizing
  <1>1. pc = "dims" /\ pc' = "dims" /\ di' # di
    BY ControlTypes DEF Pushes, NextDim
  <1> QED
    BY <1>1, IntoDims DEF Sizing, ConvertArray, ConvertGridArray, ConvertMap, vars, cursor

(* What happens to the dimensions of an object that is there.              *)
LEMMA SlotsStay ==
  ASSUME IInv, ObjInv, GoesOn, NEW p \in DOMAIN obj', NEW k \in DOMAIN obj'[p].dims
  PROVE  \/ p \in DOMAIN obj /\ k \in DOMAIN obj[p].dims /\ obj'[p].dims[k] = obj[p].dims[k]
         \/ p = Cur /\ Sizing /\ k = Len(obj[Cur].dims) + 1
  <1>1. CASE p \in DOMAIN obj /\ obj'[p].dims = obj[p].dims
    BY <1>1
  <1>2. CASE p = Cur /\ \E e : Pushes(e)
    <2>1. PICK e : Pushes(e)
      BY <1>2
    <2>2. Cur \in DOMAIN obj /\ obj'[Cur].dims = Append(obj[Cur].dims, e)
      BY <2>1, PushTypes
    <2>3. obj[Cur].dims \in Seq(Nat)
      BY <2>2 DEF IInv, TypeOK, ObjectsOK, FONcArray
    <2> QED
      BY <1>2, <2>1, <2>2, <2>3, PushSizes, WorkStays
  <1> QED
    BY <1>1, <1>2, ArraysGrow, WorkStays

---------------------------------------------------------------------------
(* The response in the words of FONcResponse.                              *)

(* FONcResponse and FONcTransform mean the same by an array of a response. *)
LEMMA ResponseArrays ==
  ASSUME NEW p
  PROVE  /\ Response!ArrOf(req, p) = ArrOf(req, p) /\ Response!EmbedOf(req, p) = EmbedOf(req, p)
         /\ Response!FileName(req, p) = NameOf(p)
         /\ Response!IsArray(req, p) <=> IsArrayKey(p)
         /\ Response!FileType(req, p) = NcTypeOf(p)
         /\ Response!HasStrings(req, p) <=> NcTypeOf(p) = "CHAR"
         /\ Response!WithLen(NameOf(p)) = WithLen(NameOf(p))
  <1>1. Response!ArrOf(req, p) = ArrOf(req, p) /\ Response!EmbedOf(req, p) = EmbedOf(req, p)
    BY DEF Response!ArrOf, Response!EmbedOf, ArrOf, EmbedOf
  <1>2. \A e, n : Response!gen_name(e, n) = gen_name(e, n)
    BY DEF Response!gen_name, gen_name, Response!id2netcdf, id2netcdf
  <1>3. Response!FileName(req, p) = NameOf(p)
    BY <1>1, <1>2 DEF Response!FileName, NameOf
  <1>4. Response!IsArray(req, p) <=> IsArrayKey(p)
    BY DEF Response!IsArray, IsArrayKey, KindOf
  <1>5. \A t : Response!get_nc_type(t) = get_nc_type(t) /\ Response!scalar_type(t) = scalar_type(t)
    BY DEF Response!get_nc_type, get_nc_type, Response!scalar_type, scalar_type
  <1>6. Response!FileType(req, p) = NcTypeOf(p)
    BY <1>1, <1>4, <1>5 DEF Response!FileType, NcTypeOf, IsArrayKey, KindOf
  <1>7. Response!WithLen(NameOf(p)) = WithLen(NameOf(p))
    BY DEF Response!WithLen, WithLen
  <1> QED
    BY <1>1, <1>3, <1>4, <1>6, <1>7 DEF Response!HasStrings

(* The arrays with one more dimension are those of strings.                *)
LEMMA TextArrays ==
  ASSUME NEW p, IsArrayKey(p)
  PROVE  (NcTypeOf(p) = "CHAR") <=> IsText(ArrOf(req, p))
  BY DEF NcTypeOf, IsArrayKey, KindOf, IsText

(* What FONcResponse says is to be stored.                                 *)
LEMMA StoredAre ==
  ASSUME NEW p \in Key, req \in Seq(Var)
  PROVE  p \in Stored <=> ValidKey(p) /\ SentKey(p) /\ KindOf(p) \notin {"Sequence", "Unknown"}
  <1>1. p = <<p[1], p[2]>> /\ p[1] \in Nat /\ p[2] \in Nat
    BY KeyParts
  <1>2. p \in Response!Sources(req) <=> ValidKey(p) /\ SentKey(p)
    <2> DEFINE i == p[1]
               k == p[2]
    <2>1. p \in Response!Sources(req) <=>
            \/ k = 0 /\ i \in DOMAIN req /\ req[i].send /\ (req[i].kind = "Grid" => req[i].main.send)
            \/ /\ i \in DOMAIN req /\ req[i].send /\ req[i].kind = "Grid"
               /\ k \in DOMAIN req[i].maps /\ req[i].maps[k].send
      BY <1>1 DEF Response!Sources
    <2>2. i \in DOMAIN req => 0 \notin DOMAIN req[i].maps
      <3>1. i \in DOMAIN req => req[i] \in Var
        OBVIOUS
      <3>2. i \in DOMAIN req => req[i].maps \in Seq(Arr)
        BY <3>1 DEF Var
      <3> QED
        BY <3>2
    <2>3. k \in DOMAIN req[i].maps /\ k > 0 => ArrOf(req, p) = req[i].maps[k]
      BY DEF ArrOf
    <2> HIDE DEF k
    <2>4. CASE k = 0
      BY <1>1, <2>1, <2>2, <2>4 DEF ValidKey, SentKey, KindOf, k
    <2>5. CASE k # 0 /\ i \in DOMAIN req /\ k \in DOMAIN req[i].maps
      <3>1. k > 0
        BY <1>1, <2>5 DEF k
      <3> QED
        BY <1>1, <2>1, <2>3, <2>5, <3>1 DEF ValidKey, SentKey, KindOf, k
    <2>6. CASE k # 0 /\ ~(i \in DOMAIN req /\ k \in DOMAIN req[i].maps)
      BY <1>1, <2>1, <2>6 DEF ValidKey, k
    <2> QED
      BY <2>4, <2>5, <2>6
  <1> QED
    BY <1>2 DEF Stored, Response!Stored, KindOf

(* How FONcResponse describes the use of a dimension by an array.          *)
LEMMA SitesAre ==
  ASSUME NEW p, NEW k, ~ForStrings(p, k)
  PROVE  /\ Response!DimSite(req, p, k).key = p /\ Response!DimSite(req, p, k).pos = k
         /\ Response!DimSite(req, p, k).size = SizeOf(p, k)
         /\ Response!DimSite(req, p, k).names = Names(p, k)
         /\ Response!DimSite(req, p, k).last =
              LET n == ArrOf(req, p).dims[k].name IN
              IF n # << >> /\ EmbedOf(req, p) # << >> THEN gen_name(EmbedOf(req, p), n) ELSE n
  <1>1. \A e, n : Response!gen_name(e, n) = gen_name(e, n)
    BY DEF Response!gen_name, gen_name, Response!id2netcdf, id2netcdf
  <1>2. Response!ArrOf(req, p) = ArrOf(req, p) /\ Response!EmbedOf(req, p) = EmbedOf(req, p)
    BY ResponseArrays
  <1> DEFINE d == ArrOf(req, p).dims[k]
             e == EmbedOf(req, p)
  <1>3. Names(p, k) = IF d.name = << >> THEN {} ELSE IF e = << >> THEN {d.name} ELSE {d.name, gen_name(e, d.name)}
    BY DEF Names
  <1>4. SizeOf(p, k) = d.size
    BY DEF SizeOf
  <1>5. Response!DimSite(req, p, k) =
          IF d.name = << >> THEN [key |-> p, pos |-> k, size |-> d.size, names |-> {}, last |-> << >>]
          ELSE [key |-> p, pos |-> k, size |-> d.size,
                names |-> IF e = << >> THEN {d.name} ELSE {d.name, gen_name(e, d.name)},
                last |-> IF e = << >> THEN d.name ELSE gen_name(e, d.name)]
    BY <1>1, <1>2 DEF Response!DimSite
  <1> HIDE DEF d, e
  <1>6. CASE d.name = << >>
    BY <1>3, <1>4, <1>5, <1>6 DEF d, e
  <1>7. CASE d.name # << >> /\ e = << >>
    BY <1>3, <1>4, <1>5, <1>7 DEF d, e
  <1>8. CASE d.name # << >> /\ e # << >>
    BY <1>3, <1>4, <1>5, <1>8 DEF d, e
  <1> QED
    BY <1>6, <1>7, <1>8

(* And the use of a dimension for the length of strings.                   *)
LEMMA LengthSitesAre ==
  ASSUME NEW p
  PROVE  Response!LenSite(req, p) =
           [key |-> p, pos |-> Len(ArrOf(req, p).dims) + 1, size |-> ArrOf(req, p).len,
            names |-> {WithLen(NameOf(p))}, last |-> << >>]
  BY ResponseArrays DEF Response!LenSite

(* The objects are those of the arrays and variables to be stored.         *)
LEMMA ObjectsAre ==
  ASSUME IInv, NamesOK, NEW p \in DOMAIN obj
  PROVE  /\ p \in Key /\ ValidKey(p) /\ SentKey(p) /\ KindOf(p) # "Unknown"
         /\ KindOf(p) \in Kinds /\ ArrOf(req, p) \in Arr /\ EmbedOf(req, p) \in Path
         /\ p[1] \in DOMAIN req /\ req # << >>
         /\ KindOf(p) # "Sequence" => p \in Stored
         /\ obj[p] \in FONcArray /\ obj[p].varname = NameOf(p)
  <1>1. p \in Key /\ ValidKey(p) /\ req \in Seq(Var) /\ obj[p] \in FONcArray
    BY DEF IInv, TypeOK, ObjectsOK, ControlOK, KeysOK
  <1>2. p[1] \in DOMAIN req /\ req[p[1]] \in Var
    BY <1>1 DEF ValidKey
  <1>3. SentKey(p) /\ KindOf(p) # "Unknown" /\ obj[p].varname = NameOf(p)
    BY DEF NamesOK
  <1>4. KindOf(p) \in Kinds
    BY <1>2 DEF KindOf, Var
  <1> QED
    BY <1>1, <1>2, <1>3, <1>4, StoredAre, KeyTypes

(* Where an array may use a dimension that is made for strings, it is of a *)
(* size that holds them.                                                   *)
LEMMA LengthsKeepApart ==
  ASSUME LengthsApart, ReqOK, IInv, NamesOK, NEW p \in DOMAIN obj, NEW q \in DOMAIN obj,
         IsArrayKey(p), IsArrayKey(q), IsText(ArrOf(req, q)), NEW k \in DOMAIN ArrOf(req, p).dims,
         WithLen(NameOf(q)) \in Names(p, k)
  PROVE  SizeOf(p, k) >= ArrOf(req, q).len
  <1>1. req \in Requests /\ p \in Stored /\ q \in Stored
    BY ObjectsAre DEF ReqOK, IsArrayKey
  <1>2. /\ Response!IsArray(req, p) /\ Response!IsArray(req, q) /\ Response!HasStrings(req, q)
        /\ Response!FileName(req, q) = NameOf(q)
    BY ResponseArrays, TextArrays
  <1>3. ~ForStrings(p, k)
    <2>1. ArrOf(req, p).dims \in Seq(Dim)
      BY ObjectsAre DEF Arr
    <2> QED
      BY <2>1 DEF ForStrings
  <1>4. Response!DimSite(req, p, k).names = Names(p, k) /\ SizeOf(p, k) = ArrOf(req, p).dims[k].size
    BY <1>3, SitesAre DEF SizeOf
  <1> QED
    BY <1>1, <1>2, <1>4 DEF LengthsApart, Stored

---------------------------------------------------------------------------
(* The dimensions of an array are complete when its conversion ends.       *)
LEMMA StepLengths ==
  ASSUME IInv, ObjInv, LastDims, FlagOK, SendingOK, LengthsOK, GoesOn
  PROVE  LengthsOK'
  <1>1. req' = req
    BY WorkStays
  <1>2. ASSUME NEW p \in DOMAIN obj'
        PROVE  LengthOK(p)'
    <2>1. IsArrayKey(p)' <=> IsArrayKey(p)
      BY <1>1 DEF IsArrayKey, KindOf
    <2>2. CASE p \notin DOMAIN obj
      <3>1. NewObject(p)
        BY <2>2, ObjectsCome
      <3>2. obj'[p].dims = << >>
        BY <3>1 DEF NewObject, NewArray
      <3>3. IsArrayKey(p) => Unfinished(p)'
        BY <3>1 DEF NewObject, IsArrayKey, Unfinished
      <3> QED
        BY <2>1, <3>2, <3>3 DEF LengthOK
    <2>3. CASE p \in DOMAIN obj /\ obj'[p].dims = obj[p].dims
      <3>1. LengthOK(p)
        BY <2>3 DEF LengthsOK
      <3>2. CASE IsArrayKey(p) /\ Unfinished(p) /\ Ending
        <4>1. p = Cur /\ pc = "dims" /\ CurArr = ArrOf(req, p)
          BY <3>2 DEF Unfinished, CurArr
        <4>2. di > Len(CurArr.dims) + Extra(Cur)
          BY <3>2, <4>1, EndingKinds DEF DimsDone, Extra, CurArr
        <4>3. Len(obj[p].dims) = di - 1 /\ di - 1 <= Len(CurArr.dims) + Extra(Cur)
          BY <4>1 DEF LastDims, LengthsOK
        <4>4. CurArr.dims \in Seq(Dim) /\ di \in Nat
          BY <4>1, CurTypes, ControlTypes DEF Arr
        <4>5. Len(CurArr.dims) \in Nat /\ Extra(Cur) \in {0, 1}
          BY <4>4 DEF Extra
        <4>6. di - 1 = Len(CurArr.dims) + Extra(Cur)
          BY <4>2, <4>3, <4>4, <4>5
        <4>7. Len(obj[p].dims) = Len(ArrOf(req, p).dims) + Extra(p)
          BY <4>1, <4>3, <4>6
        <4>8. Extra(p)' = Extra(p) /\ ArrOf(req, p)' = ArrOf(req, p)
          BY <1>1 DEF Extra
        <4> QED
          BY <2>1, <2>3, <3>2, <4>7, <4>8 DEF LengthOK
      <3>3. CASE IsArrayKey(p) /\ Unfinished(p) /\ ~Ending
        BY <2>1, <3>3, UnfinishedStays DEF LengthOK
      <3>4. CASE ~(IsArrayKey(p) /\ Unfinished(p))
        <4>1. Extra(p)' = Extra(p) /\ ArrOf(req, p)' = ArrOf(req, p)
          BY <1>1 DEF Extra
        <4> QED
          BY <2>1, <2>3, <3>1, <3>4, <4>1 DEF LengthOK
      <3> QED
        BY <3>2, <3>3, <3>4
    <2>4. CASE p = Cur /\ \E e : Pushes(e)
      <3>1. Unfinished(p)'
        BY <2>4 DEF Pushes, NextDim, Unfinished, Cur
      <3>2. IsArrayKey(p)
        BY <2>4 DEF Pushes, LastDims, IsArrayKey, KindOf, Cur, CurVar
      <3> QED
        BY <2>1, <3>1, <3>2 DEF LengthOK
    <2> QED
      BY <2>2, <2>3, <2>4, ArraysGrow, WorkStays
  <1>3. ASSUME pc' = "dims"
        PROVE  (di - 1 <= Len(CurArr.dims) + Extra(Cur))'
    <2>0. IInv'
      BY StepIInv, WorkStays
    <2>1. CurArr' \in Arr
      <3>1. Cur' \in DOMAIN obj'
        BY <1>3, <2>0 DEF IInv, CursorOK
      <3>2. Cur' \in Key /\ ValidKey(Cur)' /\ req' \in Seq(Var)
        BY <3>1, <2>0 DEF IInv, TypeOK, ObjectsOK, ControlOK, KeysOK
      <3>3. PICK c : c = Cur'
        OBVIOUS
      <3>4. c \in Key /\ ValidKey(c) /\ req \in Seq(Var)
        BY <1>1, <3>2, <3>3 DEF ValidKey
      <3>5. CurArr' = ArrOf(req, c)
        BY <1>1, <3>3 DEF CurArr, ArrOf
      <3> QED
        BY <3>4, <3>5, KeyTypes
    <2>2. CurArr'.dims \in Seq(Dim) /\ Extra(Cur)' \in {0, 1}
      BY <2>1 DEF Arr, Extra
    <2>3. CASE ConvertArray \/ ConvertGridArray \/ ConvertMap
      <3>1. di' = 1
        BY <2>3 DEF ConvertArray, ConvertGridArray, ConvertMap, StartArray, Goto
      <3> QED
        BY <2>2, <3>1
    <2>4. CASE Sizing
      <3>1. di' = di + 1 /\ Cur' = Cur /\ CurArr' = CurArr /\ Extra(Cur)' = Extra(Cur)
        BY <1>1, <2>4 DEF Sizing, ShareDim, NewDimension, ShareLength, NewLength, NextDim, Cur, CurArr, Extra
      <3>2. di <= Len(CurArr.dims) \/ (di = Len(CurArr.dims) + 1 /\ Extra(Cur) = 1)
        BY <2>4 DEF Sizing, ShareDim, NewDimension, ShareLength, NewLength, AtLength, Extra, CurArr
      <3>3. di \in Nat
        BY ControlTypes
      <3> QED
        BY <2>2, <3>1, <3>2, <3>3
    <2>5. CASE UNCHANGED vars
      <3>1. pc = "dims" /\ di' = di /\ Cur' = Cur /\ CurArr' = CurArr /\ Extra(Cur)' = Extra(Cur)
        BY <1>1, <1>3, <2>5 DEF vars, cursor, Cur, CurArr, Extra
      <3> QED
        BY <3>1 DEF LengthsOK
    <2> QED
      BY <1>3, <2>3, <2>4, <2>5, IntoDims, WorkStays DEF Sizing
  <1> QED
    BY <1>2, <1>3 DEF LengthsOK

(* What an array needs does not change with the registry.                  *)
LEMMA SlotWords ==
  ASSUME req' = req, NEW p, NEW k
  PROVE  /\ \A n : Called(p, k, n)' <=> Called(p, k, n)
         /\ \A z : Fits(p, k, z)' <=> Fits(p, k, z)
         /\ SizeOf(p, k)' = SizeOf(p, k) /\ Names(p, k)' = Names(p, k)
  <1>1. ForStrings(p, k)' <=> ForStrings(p, k)
    BY DEF ForStrings
  <1>2. NameOf(p)' = NameOf(p) /\ ArrOf(req, p)' = ArrOf(req, p) /\ EmbedOf(req, p)' = EmbedOf(req, p)
    BY DEF NameOf
  <1>3. SizeOf(p, k)' = SizeOf(p, k)
    BY <1>1, <1>2 DEF SizeOf
  <1>4. Names(p, k)' = Names(p, k)
    BY <1>1, <1>2 DEF Names
  <1> QED
    BY <1>1, <1>3, <1>4 DEF Called, Fits

(* The k-th dimension of p is the dimension c now, or in the next state.   *)
SlotIs(p, k, c) == p \in DOMAIN obj /\ k \in DOMAIN obj[p].dims /\ obj[p].dims[k] = c

(* A dimension that is as an array needs it remains so.                    *)
LEMMA SlotsRemain ==
  ASSUME IInv, ObjInv, GoesOn, NEW p, NEW k, NEW c, SlotIs(p, k, c)
  PROVE  SlotIs(p, k, c)'
  <1>1. p \in DOMAIN obj /\ p \in DOMAIN obj'
    BY ObjStays DEF ObjectsStay, SlotIs
  <1>2. CASE obj'[p].dims = obj[p].dims
    BY <1>1, <1>2 DEF SlotIs
  <1>3. CASE p = Cur /\ \E e : Pushes(e)
    <2>1. PICK e : Pushes(e)
      BY <1>3
    <2>2. Cur \in DOMAIN obj /\ obj'[Cur].dims = Append(obj[Cur].dims, e)
      BY <2>1, PushTypes
    <2>3. obj[Cur].dims \in Seq(Nat)
      BY <2>2 DEF IInv, TypeOK, ObjectsOK, FONcArray
    <2> QED
      BY <1>1, <1>3, <2>2, <2>3 DEF SlotIs
  <1> QED
    BY <1>1, <1>2, <1>3, ArraysGrow, WorkStays

(* The dimension just taken is the next one of the array in hand.          *)
LEMMA NewSlot ==
  ASSUME IInv, LastDims, NEW e, NEW n, NEW z, Takes(e, n, z)
  PROVE  /\ \A q, k : q = Cur /\ k = di => SlotIs(q, k, e)'
         /\ pc = "dims" /\ di = Len(obj[Cur].dims) + 1 /\ Cur \in DOMAIN obj
  <1>1. pc = "dims" /\ PushDim(e)
    BY DEF Takes, Sizing, ShareDim, NewDimension, ShareLength, NewLength, AtLength
  <1>2. Cur \in DOMAIN obj /\ obj[Cur] \in FONcArray /\ Len(obj[Cur].dims) = di - 1 /\ di \in Nat
    BY <1>1, CurTypes, ControlTypes DEF LastDims, IInv, TypeOK, ObjectsOK
  <1>3. obj[Cur].dims \in Seq(Nat)
    BY <1>2 DEF FONcArray
  <1>4. obj'[Cur].dims = Append(obj[Cur].dims, e) /\ DOMAIN obj' = DOMAIN obj
    BY <1>1, <1>2 DEF PushDim, FONcArray
  <1>5. di = Len(obj[Cur].dims) + 1
    BY <1>2, <1>3
  <1>6. di \in DOMAIN obj'[Cur].dims /\ obj'[Cur].dims[di] = e
    BY <1>3, <1>4, <1>5
  <1>7. \A q, k : q = Cur /\ k = di => SlotIs(q, k, e)'
    BY <1>2, <1>4, <1>6 DEF SlotIs
  <1> QED
    BY <1>1, <1>2, <1>5, <1>7

(* A dimension of that name and size is as the array needs it.             *)
LEMMA DimWords ==
  ASSUME req' = req, NEW p, NEW k, NEW c, NEW n, NEW z, Called(p, k, n), Fits(p, k, z),
         Dimensions'[c].name = n, Dimensions'[c].size = z
  PROVE  DimOK(p, k, c)'
  <1>1. /\ SizeOf(p, k)' = SizeOf(p, k) /\ Names(p, k)' = Names(p, k)
        /\ ForStrings(p, k)' <=> ForStrings(p, k)
    BY SlotWords DEF ForStrings
  <1> QED
    BY <1>1 DEF DimOK, Called, Fits

(* What is there keeps its fit: only a dimension for strings is made       *)
(* longer, and then the others that have it need it as long.               *)
LEMMA SlotKeeps ==
  ASSUME LengthsApart, ReqOK, IInv, ObjInv, LastDims, NamesOK, LengthsOK, GoesOn,
         NEW p, NEW k, NEW c, SlotIs(p, k, c), SlotOK(p, k)
  PROVE  DimOK(p, k, c)'
  <1>1. req' = req
    BY WorkStays
  <1>2. p \in DOMAIN obj /\ c \in DOMAIN Dimensions /\ Dimensions[c] \in FONcDim /\ k \in DOMAIN obj[p].dims
    BY DEF SlotIs, IInv, TypeOK, PointersOK, StaticsOK
  <1>3. Called(p, k, Dimensions[c].name) /\ Fits(p, k, Dimensions[c].size)
    BY DEF SlotIs, SlotOK, DimOK
  <1>4. ASSUME Dimensions'[c].name = Dimensions[c].name, Fits(p, k, Dimensions'[c].size)
        PROVE  DimOK(p, k, c)'
    <2>1. PICK n, z : n = Dimensions'[c].name /\ z = Dimensions'[c].size
      OBVIOUS
    <2>2. Called(p, k, n) /\ Fits(p, k, z)
      BY <1>3, <1>4, <2>1
    <2> QED
      BY <1>1, <2>1, <2>2, DimWords
  <1>5. CASE ~Sizing
    BY <1>2, <1>3, <1>4, <1>5, OthersKeepDims DEF DimsRemain
  <1>6. CASE Sizing
    <2>1. PICK e, n, z : Takes(e, n, z) /\ Suits(e, n, z)
      BY <1>6, SizingTakes
    <2>2. /\ Dimensions'[c].name = Dimensions[c].name
          /\ c # e => Dimensions'[c] = Dimensions[c]
          /\ Dimensions'[e].size = z /\ Dimensions'[e].name = n
      BY <1>2, <2>1 DEF Takes
    <2>3. CASE c # e \/ z = Dimensions[e].size
      BY <1>3, <1>4, <2>2, <2>3
    <2>4. CASE c = e /\ z # Dimensions[e].size
      <3>1. AtLength /\ n = LenName /\ z = CurArr.len /\ Dimensions[c].size < z
        BY <1>2, <2>1, <2>4 DEF Suits
      <3>2. /\ Cur \in DOMAIN obj /\ IsArrayKey(Cur) /\ IsText(ArrOf(req, Cur)) /\ CurArr \in Arr
            /\ LenName = WithLen(NameOf(Cur)) /\ LenName # << >>
        <4>1. pc = "dims" /\ IsText(CurArr)
          BY <3>1 DEF AtLength
        <4>2. Cur \in DOMAIN obj /\ CurArr \in Arr
          BY <4>1, CurTypes
        <4>3. IsArrayKey(Cur)
          BY <4>1 DEF LastDims, IsArrayKey, KindOf, CurVar, Cur
        <4>4. obj[Cur].varname = NameOf(Cur) /\ obj[Cur].varname \in Path
          BY <4>2, ObjectsAre DEF FONcArray
        <4> QED
          BY <4>1, <4>2, <4>3, <4>4, WithLenEnds DEF LenName, EndsLen, CurArr
      <3>3. ArrOf(req, p) \in Arr
        BY <1>2, ObjectsAre
      <3>4. ArrOf(req, p).dims \in Seq(Dim) /\ ArrOf(req, p).len \in Nat /\ CurArr.len \in Nat
        BY <3>2, <3>3 DEF Arr
      <3>5. CASE ForStrings(p, k)
        <4>1. Dimensions[c].size >= ArrOf(req, p).len /\ Dimensions[c].size \in Nat
          BY <1>2, <1>3, <3>5 DEF Fits, SizeOf, FONcDim
        <4>2. z >= ArrOf(req, p).len
          BY <3>1, <3>4, <4>1
        <4>3. Fits(p, k, z)
          BY <3>5, <4>2 DEF Fits, SizeOf
        <4> QED
          BY <1>4, <2>2, <2>4, <4>3
      <3>6. CASE ~ForStrings(p, k)
        <4>1. k \in DOMAIN ArrOf(req, p).dims
          <5>1. obj[p].dims \in Seq(Nat)
            BY <1>2 DEF IInv, TypeOK, ObjectsOK, FONcArray
          <5>2. k \in Nat \ {0}
            BY <1>2, <5>1
          <5> QED
            BY <3>4, <3>6, <5>2 DEF ForStrings
        <4>2. IsArrayKey(p)
          <5>1. LengthOK(p)
            BY <1>2 DEF LengthsOK
          <5> QED
            BY <1>2, <5>1 DEF LengthOK
        <4>3. WithLen(NameOf(Cur)) \in Names(p, k)
          <5>1. Dimensions[c].name = LenName
            BY <2>2, <2>4, <3>1
          <5> QED
            BY <1>3, <3>2, <5>1 DEF Called
        <4>4. SizeOf(p, k) >= CurArr.len
          BY <1>2, <3>2, <4>1, <4>2, <4>3, LengthsKeepApart DEF CurArr
        <4>5. Dimensions[c].size = SizeOf(p, k)
          BY <1>3, <3>6 DEF Fits
        <4>6. Dimensions[c].size \in Nat
          BY <1>2 DEF FONcDim
        <4> QED
          BY <3>1, <3>4, <4>4, <4>5, <4>6
      <3> QED
        BY <3>5, <3>6
    <2> QED
      BY <2>3, <2>4
  <1> QED
    BY <1>5, <1>6

(* SlotsOK is kept.                                                        *)
LEMMA StepSlots ==
  ASSUME LengthsApart, ReqOK, IInv, ObjInv, LastDims, NamesOK, LengthsOK, SlotsOK, GoesOn
  PROVE  SlotsOK'
  <1> SUFFICES ASSUME NEW p \in DOMAIN obj', NEW k \in DOMAIN obj'[p].dims
               PROVE  SlotOK(p, k)'
    BY DEF SlotsOK
  <1>1. PICK c : c = obj'[p].dims[k]
    OBVIOUS
  <1>2. SUFFICES DimOK(p, k, c)'
    BY <1>1 DEF SlotOK
  <1>3. CASE p \in DOMAIN obj /\ k \in DOMAIN obj[p].dims /\ obj[p].dims[k] = c
    BY <1>3, SlotKeeps DEF SlotIs, SlotsOK
  <1>4. CASE p = Cur /\ Sizing /\ k = Len(obj[Cur].dims) + 1
    <2>1. PICK e, n, z : Takes(e, n, z) /\ Suits(e, n, z)
      BY <1>4, SizingTakes
    <2>2. SlotIs(p, k, e)' /\ k = di
      BY <1>4, <2>1, NewSlot
    <2>3. c = e /\ Dimensions'[c].name = n /\ Dimensions'[c].size = z
      BY <1>1, <2>1, <2>2 DEF SlotIs, Takes
    <2>4. Called(p, k, n) /\ Fits(p, k, z)
      BY <1>4, <2>1, <2>2 DEF Suits
    <2> QED
      BY <2>3, <2>4, DimWords, WorkStays
  <1> QED
    BY <1>1, <1>3, <1>4, SlotsStay

(* FromOK is kept.                                                         *)
LEMMA StepFrom ==
  ASSUME IInv, ObjInv, LastDims, NamesOK, FromOK, GoesOn
  PROVE  FromOK'
  <1> SUFFICES ASSUME NEW c \in DOMAIN Dimensions'
               PROVE  \E p, k : Origin(c, p, k)'
    BY DEF FromOK
  <1>1. req' = req
    BY WorkStays
  <1>2. ASSUME c \in DOMAIN Dimensions, Dimensions'[c].size = Dimensions[c].size
        PROVE  \E p, k : Origin(c, p, k)'
    <2>1. PICK p, k : Origin(c, p, k)
      BY <1>2 DEF FromOK
    <2>2. SlotIs(p, k, c)'
      BY <2>1, SlotsRemain DEF Origin, SlotIs
    <2>3. SizeOf(p, k)' = SizeOf(p, k)
      BY <1>1, SlotWords
    <2>4. Origin(c, p, k)'
      BY <1>2, <2>1, <2>2, <2>3 DEF Origin, SlotIs
    <2> QED
      BY <2>4
  <1>3. CASE ~Sizing
    BY <1>2, <1>3, OthersKeepDims DEF DimsRemain
  <1>4. CASE Sizing
    <2>1. PICK e, n, z : Takes(e, n, z) /\ Suits(e, n, z)
      BY <1>4, SizingTakes
    <2>2. CASE c # e \/ (e \in DOMAIN Dimensions /\ z = Dimensions[e].size)
      BY <1>2, <2>1, <2>2 DEF Takes
    <2>3. CASE c = e /\ z = SizeOf(Cur, di)
      <3>1. PICK p, k : p = Cur /\ k = di
        OBVIOUS
      <3>2. SlotIs(p, k, e)'
        BY <2>1, <3>1, NewSlot
      <3>3. SizeOf(p, k)' = z
        BY <1>1, <2>3, <3>1, SlotWords
      <3>4. Origin(c, p, k)'
        BY <2>1, <2>3, <3>2, <3>3 DEF Origin, SlotIs, Takes
      <3> QED
        BY <3>4
    <2> QED
      BY <2>1, <2>2, <2>3 DEF Suits
  <1> QED
    BY <1>3, <1>4

(* While a response is worked on, its arrays have the dimensions they need,*)
(* under the names these may have.                                         *)
Measured == Working => MeasureInv

(* While a response is worked on: every dimension an array has is of the   *)
(* name and the size it needs, and every dimension was made for an array   *)
(* (FONcArray::find_dim and convert).                                      *)
THEOREM MeasuresKnown ==
  ASSUME Standalone, OneDimMaps, LengthsApart
  PROVE  Spec => []Measured
  <1>1. Init => Measured
    BY DEF Init, Measured, Working
  <1>2. /\ IInv /\ ReqOK /\ ObjInv /\ LastDims /\ FlagOK /\ Sourced /\ Measured /\ [Next]_vars
        => Measured'
    <2> SUFFICES ASSUME IInv, ReqOK, ObjInv, LastDims, FlagOK, Sourced, Measured, [Next]_vars, Working'
                 PROVE  MeasureInv'
      BY DEF Measured
    <2>1. CASE \E r \in Requests : Begin(r)
      <3>1. obj' = << >> /\ Dimensions' = << >> /\ pc' = "convert"
        BY <2>1 DEF Begin, ResetStatics, Goto
      <3> QED
        BY <3>1 DEF MeasureInv, LengthsOK, SlotsOK, FromOK
    <2>2. CASE ~\E r \in Requests : Begin(r)
      <3>1. GoesOn
        BY <2>2 DEF GoesOn
      <3>2. SendingOK /\ NamesOK /\ LengthsOK /\ SlotsOK /\ FromOK
        BY <3>1, WorkStays DEF Sourced, SourceInv, Measured, MeasureInv
      <3> QED
        BY <3>1, <3>2, StepLengths, StepSlots, StepFrom DEF MeasureInv
    <2> QED
      BY <2>1, <2>2
  <1>3. Standalone /\ IInv /\ FlagOK /\ [Next]_vars => FlagOK'
    BY StepFlagOK
  <1>4. Init => FlagOK
    BY DEF Init, FlagOK, InGridMeansGrid
  <1>5. Spec => []Sourced
    BY SourcesKnown
  <1>6. OneDimMaps
    OBVIOUS
  <1> QED
    BY <1>1, <1>2, <1>3, <1>4, <1>5, <1>6, Invariance, ObjectsKnown, ShapesKnown, SharingKnown, PTL
       DEF Spec, ShapeInv, ShareInv
=============================================================================
