--------------------- MODULE FONcTransform_promise_proofs ----------------------
(* Every request is answered as FONcResponse promises: a file delivered    *)
(* holds all of the response and nothing else, and a response is refused   *)
(* only if its variables do not fit in one flat file.                      *)
EXTENDS FONcTransform_arrays_proofs, WellFoundedInduction

---------------------------------------------------------------------------
(* What the file holds.                                                    *)

Early == pc \in {"convert", "maps", "dims", "create"}
Blank ==
  /\ ncDims = << >> /\ ncVars = << >> /\ DimNameNum = 0
  /\ \A c \in DOMAIN Dimensions : Dimensions[c].dimid = 0
  /\ \A p \in DOMAIN obj : obj[p].varid = 0

(* Nothing is defined before the file is made.                             *)
LEMMA StepBlank ==
  ASSUME IInv, ObjInv, SendingOK, NamesOK, Early => Blank, GoesOn, Early'
  PROVE  Blank'
  <1>0. ~Filing
    <2>1. Filing => pc' \in {"define", "write"} \/ pc' = "destroy"
      BY WhenDefine DEF Filing, WriteData, SkipWrite, WriteNext, Goto
    <2> QED
      BY <2>1 DEF Early
  <1>1. Early /\ UNCHANGED <<ncDims, ncVars, DimNameNum>>
    <2>1. CASE Making \/ Sizing
      BY <2>1 DEF Making, Sizing, ConvertSimple, ConvertArray, ConvertMap, ConvertGridArray, Early,
                  ShareDim, NewDimension, ShareLength, NewLength, AtLength, statics, file
    <2>2. CASE Ending \/ Moving
      BY <2>2 DEF Ending, Moving, RegisterCoordinate, DropCoordinate, ArrayDone, MapDone, GridArrayDone,
                  DimsDone, SkipUnsent, ConvertGrid, EndConvert, SkipMap, ShareMap, SkipGridArray, statics,
                  file, Early
    <2>3. CASE UNCHANGED vars
      BY <2>3 DEF vars, statics, file, Early
    <2> QED
      BY <1>0, <2>1, <2>2, <2>3, WorkSteps
  <1>2. \A c \in DOMAIN Dimensions' : Dimensions'[c].dimid = 0
    <2>1. CASE Sizing
      <3>1. PICK e, n, z : Takes(e, n, z)
        BY <2>1, SizingTakes
      <3> QED
        BY <1>1, <3>1 DEF Takes, Blank
    <2>2. CASE UNCHANGED Dimensions
      BY <1>1, <2>2 DEF Blank
    <2>3. CASE Making \/ Ending \/ Moving
      BY <2>2, <2>3 DEF Making, ConvertSimple, ConvertArray, ConvertMap, ConvertGridArray,
                        Ending, RegisterCoordinate, DropCoordinate, ArrayDone, MapDone, GridArrayDone,
                        Moving, SkipUnsent, ConvertGrid, EndConvert, SkipMap, ShareMap, SkipGridArray, statics
    <2> QED
      BY <1>0, <2>1, <2>2, <2>3, WorkSteps DEF vars, statics
  <1>3. \A p \in DOMAIN obj' : obj'[p].varid = 0
    <2>0. \A p \in DOMAIN obj : obj[p] \in FONcArray /\ obj[p].varid = 0
      BY <1>1 DEF IInv, TypeOK, ObjectsOK, Blank
    <2>1. CASE UNCHANGED obj
      BY <2>0, <2>1
    <2>2. CASE Making
      <3>1. PICK p : Makes(p)
        BY <2>2, MakesNew DEF Making
      <3>2. NewObject(p)
        BY <3>1, ObjectsCome DEF Makes
      <3>3. obj'[p].varid = 0
        BY <3>2 DEF NewObject, NewArray
      <3> QED
        BY <2>0, <3>1, <3>3 DEF Makes
    <2>3. CASE Sizing
      <3>1. PICK e : PushDim(e)
        BY <2>3, PushesOne DEF Sizing, Pushes
      <3> QED
        BY <2>0, <3>1 DEF PushDim, FONcArray
    <2>4. CASE Ending
      <3>1. UNCHANGED obj \/ \E n : obj' = [obj EXCEPT ![Cur].map = n] \/ obj' = [obj EXCEPT ![Cur].dontUse = TRUE]
        BY <2>4 DEF Ending, RegisterCoordinate, DropCoordinate, ArrayDone, MapDone, GridArrayDone, converted
      <3> QED
        BY <2>0, <3>1 DEF FONcArray
    <2>5. CASE Moving
      BY <2>1, <2>5 DEF Moving, SkipUnsent, ConvertGrid, EndConvert, SkipMap, ShareMap, SkipGridArray, converted
    <2>6. CASE UNCHANGED vars
      BY <2>1, <2>6 DEF vars, converted
    <2> QED
      BY <1>0, <2>2, <2>3, <2>4, <2>5, <2>6, WorkSteps
  <1> QED
    BY <1>1, <1>2, <1>3 DEF Blank

(* In define mode and in data mode the objects and dimensions stay, and    *)
(* what the file has stays in it.                                          *)
ObjectsFramed ==
  /\ UNCHANGED <<req, held, Maps>> /\ DOMAIN obj' = DOMAIN obj
  /\ \A p \in DOMAIN obj :
       /\ obj'[p].varname = obj[p].varname /\ obj'[p].dims = obj[p].dims
       /\ obj'[p].dontUse = obj[p].dontUse
       /\ IsDefined(p) => obj'[p].varid = obj[p].varid
DimsFramed ==
  /\ DOMAIN Dimensions' = DOMAIN Dimensions
  /\ \A c \in DOMAIN Dimensions :
       /\ Dimensions'[c].name = Dimensions[c].name /\ Dimensions'[c].size = Dimensions[c].size
       /\ Dimensions[c].dimid # 0 => Dimensions'[c].dimid = Dimensions[c].dimid
  /\ DimNameNum \in Nat /\ DimNameNum' \in Nat /\ DimNameNum <= DimNameNum'
FileFramed ==
  /\ \A d \in DOMAIN ncDims : d \in DOMAIN ncDims' /\ ncDims'[d] = ncDims[d]
  /\ \A v \in DOMAIN ncVars :
       /\ v \in DOMAIN ncVars' /\ ncVars'[v].name = ncVars[v].name
       /\ ncVars'[v].type = ncVars[v].type /\ ncVars'[v].dims = ncVars[v].dims
Framed == ObjectsFramed /\ DimsFramed /\ FileFramed

(* The steps that change objects or the file.                              *)
NewVar(p, ds) ==
  /\ pc = "define" /\ InDefine /\ p = At /\ p \in DOMAIN obj
  /\ DefVar(p, ds) /\ NextTarget /\ UNCHANGED <<req, held, Maps, Dimensions, DimNameNum>>
Quiet == UNCHANGED <<req, obj, held, Maps, Dimensions, DimNameNum, ncDims, ncVars>>

(* The object in hand of define and write is alive.                        *)
LEMMA AtTypes ==
  ASSUME IInv, pc \in {"define", "write"}, vi <= Len(req), mi <= Len(Targets(vi))
  PROVE  /\ At \in DOMAIN obj /\ At \in Key /\ ValidKey(At) /\ vi \in DOMAIN req
         /\ mi \in DOMAIN Targets(vi) /\ obj[At] \in FONcArray
         /\ ArrOf(req, At) \in Arr /\ NcTypeOf(At) \in NcTypes
  <1>1. Working /\ vi \in DOMAIN req /\ mi \in Nat \ {0}
    BY ControlTypes DEF Working, IInv, CursorOK
  <1>2. Targets(vi) \in Seq(DOMAIN obj) /\ Len(Targets(vi)) \in Nat
    BY <1>1, TargetsAlive
  <1>3. mi \in 1..Len(Targets(vi)) /\ mi \in DOMAIN Targets(vi)
    BY <1>1, <1>2
  <1> QED
    BY <1>1, <1>3, TargetTypes

AtAlive == InDefine => At \in DOMAIN obj
(* The same in one word, now and after a step.                             *)
LEMMA AtIsAlive == IInv => AtAlive
  BY AtTypes DEF AtAlive, InDefine

LEMMA AtStaysAlive == IInv' => AtAlive'
  BY AtIsAlive, PTL

(* What a step of define or write may be.                                  *)
LEMMA FilingSteps ==
  ASSUME IInv, pc \in {"define", "write"}, GoesOn
  PROVE  \/ Quiet
         \/ DefineDim
         \/ DefineScalar /\ NewVar(At, << >>) /\ ncDims' = ncDims
         \/ DefineStr /\ NewVar(At, <<Len(ncDims) + 1>>)
         \/ /\ DefineArray /\ ncDims' = ncDims
            /\ NewVar(At, [k \in DOMAIN obj[At].dims |-> Dimensions[obj[At].dims[k]].dimid])
         \/ WriteData
  <1>0. Working /\ Working'
    BY WorkStays
  <1>1. ~(Refuse)
    BY <1>0 DEF Refuse, ThrowAndClose, Throw, Working
  <1>2. CASE DefineScalar \/ DefineStr \/ DefineArray
    <2>1. pc = "define" /\ InDefine /\ At \in DOMAIN obj
      BY <1>2, AtTypes DEF DefineScalar, DefineStr, DefineArray, Defining, InDefine
    <2> QED
      BY <1>1, <1>2, <2>1 DEF DefineScalar, DefineStr, DefineArray, NewVar, statics
  <1>3. CASE \/ CreateFile \/ DefineSequence \/ SkipDefined
             \/ SkipDefinedDim \/ DefineNext \/ EndDefine \/ SkipWrite \/ WriteNext
    BY <1>3 DEF CreateFile, DefineSequence, SkipDefined, SkipDefinedDim, DefineNext, EndDefine,
                SkipWrite, WriteNext, converted, statics, file, Quiet
  <1>4. CASE Making \/ Sizing \/ Ending \/ Moving
    <2>1. pc \in {"convert", "maps", "dims"}
      BY <1>4, WhenConvert DEF Making, Sizing, Ending, Moving, Convert
    <2> QED
      BY <2>1
  <1>5. CASE UNCHANGED vars
    BY <1>5 DEF vars, converted, statics, file, Quiet
  <1> QED
    BY <1>2, <1>3, <1>4, <1>5, WorkSteps DEF Filing, Define

(* Of the objects, p alone changes, in its varid.                          *)
OnlyVarid(p) ==
  /\ DOMAIN obj' = DOMAIN obj
  /\ \A q \in DOMAIN obj :
       /\ obj'[q].varname = obj[q].varname /\ obj'[q].dims = obj[q].dims
       /\ obj'[q].dontUse = obj[q].dontUse
       /\ q # p => obj'[q] = obj[q]

(* What nc_def_var adds to the file.                                       *)
LEMMA NewVarTypes ==
  ASSUME IInv, NEW p, NEW ds, NewVar(p, ds)
  PROVE  /\ OnlyVarid(p) /\ obj'[p].varid = Len(ncVars) + 1
         /\ DOMAIN ncVars' = DOMAIN ncVars \cup {Len(ncVars) + 1}
         /\ Len(ncVars) + 1 \in Nat \ {0} /\ Len(ncVars) + 1 \notin DOMAIN ncVars
         /\ \A v \in DOMAIN ncVars : ncVars'[v] = ncVars[v]
         /\ ncVars'[Len(ncVars) + 1] =
              [name |-> obj[p].varname, type |-> NcTypeOf(p), dims |-> ds, data |-> NoKey]
  <1>1. /\ p \in DOMAIN obj /\ obj' = [obj EXCEPT ![p].varid = Len(ncVars) + 1]
        /\ ncVars' = Append(ncVars, [name |-> obj[p].varname, type |-> NcTypeOf(p),
                                     dims |-> ds, data |-> NoKey])
    BY DEF NewVar, DefVar
  <1>2. ncVars \in Seq(NcVar) /\ \A q \in DOMAIN obj : obj[q] \in FONcArray
    BY DEF IInv, TypeOK, FileOK, ObjectsOK
  <1>3. /\ DOMAIN obj' = DOMAIN obj /\ obj'[p].varid = Len(ncVars) + 1
        /\ \A q \in DOMAIN obj :
             /\ obj'[q].varname = obj[q].varname /\ obj'[q].dims = obj[q].dims
             /\ obj'[q].dontUse = obj[q].dontUse
             /\ q # p => obj'[q] = obj[q]
    BY <1>1, <1>2 DEF FONcArray
  <1>4. OnlyVarid(p)
    BY <1>3 DEF OnlyVarid
  <1>5. /\ DOMAIN ncVars' = DOMAIN ncVars \cup {Len(ncVars) + 1}
        /\ Len(ncVars) + 1 \in Nat \ {0} /\ Len(ncVars) + 1 \notin DOMAIN ncVars
        /\ \A v \in DOMAIN ncVars : ncVars'[v] = ncVars[v]
        /\ ncVars'[Len(ncVars) + 1] =
             [name |-> obj[p].varname, type |-> NcTypeOf(p), dims |-> ds, data |-> NoKey]
    BY <1>1, <1>2
  <1> QED
    BY <1>3, <1>4, <1>5

(* What FONcDim::define does to the registry and to the file.              *)
LEMMA DefineDimTypes ==
  ASSUME IInv, GoesOn, DefineDim
  PROVE  /\ pc = "define" /\ InDefine /\ Undone /\ At \in DOMAIN obj /\ IsArrayKey(At)
         /\ di \in DOMAIN obj[At].dims /\ CurDim \in DOMAIN Dimensions
         /\ Dimensions[CurDim].dimid = 0 /\ NextDim
         /\ UNCHANGED <<req, obj, held, Maps, ncVars>>
         /\ DimNameNum \in Nat /\ DOMAIN Dimensions' = DOMAIN Dimensions
         /\ DimNameNum' = DimNameNum + (IF Dimensions[CurDim].name = << >> THEN 1 ELSE 0)
         /\ Dimensions'[CurDim].dimid = Len(ncDims) + 1
         /\ \A c \in DOMAIN Dimensions :
              /\ Dimensions'[c].name = Dimensions[c].name /\ Dimensions'[c].size = Dimensions[c].size
              /\ c # CurDim => Dimensions'[c] = Dimensions[c]
         /\ DOMAIN ncDims' = DOMAIN ncDims \cup {Len(ncDims) + 1}
         /\ Len(ncDims) + 1 \in Nat \ {0} /\ Len(ncDims) + 1 \notin DOMAIN ncDims
         /\ \A d \in DOMAIN ncDims : ncDims'[d] = ncDims[d]
         /\ ncDims'[Len(ncDims) + 1] = [name |-> DimIdentifier, size |-> Dimensions[CurDim].size]
  <1>1. ~Refuse
    BY WorkStays DEF Refuse, ThrowAndClose, Throw, Working
  <1>2. /\ pc = "define" /\ InDefine /\ Undone /\ req[At[1]].kind \in {"Array", "Grid"}
        /\ di <= Len(obj[At].dims) /\ Dimensions[CurDim].dimid = 0 /\ NextDim
        /\ UNCHANGED <<req, obj, held, Maps, ncVars>>
        /\ DimNameNum' = DimNameNum + (IF Dimensions[CurDim].name = << >> THEN 1 ELSE 0)
        /\ ncDims' = Append(ncDims, [name |-> DimIdentifier, size |-> Dimensions[CurDim].size])
        /\ Dimensions' = [Dimensions EXCEPT ![CurDim].dimid = Len(ncDims) + 1]
    BY <1>1 DEF DefineDim, Defining, InDefine, converted
  <1>3. At \in DOMAIN obj /\ obj[At] \in FONcArray
    BY <1>2, AtTypes DEF InDefine
  <1>4. di \in DOMAIN obj[At].dims
    <2>1. obj[At].dims \in Seq(Nat) /\ di \in Nat \ {0}
      BY <1>3, ControlTypes DEF FONcArray
    <2> QED
      BY <1>2, <2>1
  <1>5. CurDim \in DOMAIN Dimensions /\ Dimensions \in Seq(FONcDim) /\ ncDims \in Seq(NcDim) /\ DimNameNum \in Nat
    BY <1>3, <1>4 DEF IInv, TypeOK, PointersOK, StaticsOK, FileOK, CurDim
  <1> DEFINE x == CurDim
             id == Len(ncDims) + 1
             new == [name |-> DimIdentifier, size |-> Dimensions[CurDim].size]
  <1>6. x \in DOMAIN Dimensions /\ Dimensions' = [Dimensions EXCEPT ![x].dimid = id] /\ ncDims' = Append(ncDims, new)
    BY <1>2, <1>5
  <1> HIDE DEF x, new
  <1>7. /\ DOMAIN ncDims' = DOMAIN ncDims \cup {id} /\ id \in Nat \ {0} /\ id \notin DOMAIN ncDims
        /\ \A d \in DOMAIN ncDims : ncDims'[d] = ncDims[d]
        /\ ncDims'[id] = new
    BY <1>5, <1>6
  <1> HIDE DEF id
  <1>8. /\ DOMAIN Dimensions' = DOMAIN Dimensions /\ Dimensions'[x].dimid = id
        /\ \A c \in DOMAIN Dimensions :
             /\ Dimensions'[c].name = Dimensions[c].name /\ Dimensions'[c].size = Dimensions[c].size
             /\ c # x => Dimensions'[c] = Dimensions[c]
    <2>1. \A c \in DOMAIN Dimensions : Dimensions[c] \in FONcDim
      BY <1>5
    <2> QED
      BY <1>6, <2>1 DEF FONcDim
  <1> QED
    BY <1>2, <1>3, <1>4, <1>5, <1>7, <1>8 DEF x, id, new, IsArrayKey, KindOf

(* What FONcStr::define adds to the file.                                  *)
LEMMA DefineStrTypes ==
  ASSUME IInv, GoesOn, DefineStr
  PROVE  /\ InDefine /\ KindOf(At) = "Str" /\ NewVar(At, <<Len(ncDims) + 1>>)
         /\ DOMAIN ncDims' = DOMAIN ncDims \cup {Len(ncDims) + 1}
         /\ Len(ncDims) + 1 \in Nat \ {0} /\ Len(ncDims) + 1 \notin DOMAIN ncDims
         /\ \A d \in DOMAIN ncDims : ncDims'[d] = ncDims[d]
         /\ ncDims'[Len(ncDims) + 1] = [name |-> WithLen(obj[At].varname), size |-> ArrOf(req, At).len]
  <1>1. ~Refuse
    BY WorkStays DEF Refuse, ThrowAndClose, Throw, Working
  <1>2. /\ InDefine /\ KindOf(At) = "Str" /\ pc = "define"
        /\ ncDims' = Append(ncDims, [name |-> WithLen(obj[At].varname), size |-> ArrOf(req, At).len])
        /\ DefVar(At, <<Len(ncDims) + 1>>) /\ NextTarget
        /\ UNCHANGED <<req, held, Maps, Dimensions, DimNameNum>>
    BY <1>1 DEF DefineStr, Defining, InDefine, KindOf, statics
  <1>3. At \in DOMAIN obj
    BY <1>2, AtTypes DEF InDefine
  <1>4. ncDims \in Seq(NcDim)
    BY DEF IInv, TypeOK, FileOK
  <1> DEFINE new == [name |-> WithLen(obj[At].varname), size |-> ArrOf(req, At).len]
  <1>5. ncDims' = Append(ncDims, new)
    BY <1>2
  <1> HIDE DEF new
  <1>6. /\ DOMAIN ncDims' = DOMAIN ncDims \cup {Len(ncDims) + 1}
        /\ Len(ncDims) + 1 \in Nat \ {0} /\ Len(ncDims) + 1 \notin DOMAIN ncDims
        /\ \A d \in DOMAIN ncDims : ncDims'[d] = ncDims[d]
        /\ ncDims'[Len(ncDims) + 1] = new
    BY <1>4, <1>5
  <1> QED
    BY <1>2, <1>3, <1>6 DEF NewVar, new

(* What write does to the file.                                            *)
LEMMA WriteDataTypes ==
  ASSUME IInv, WriteData
  PROVE  /\ pc = "write" /\ At \in DOMAIN obj /\ ~obj[At].dontUse /\ mi \in DOMAIN Targets(vi)
         /\ vi' = vi /\ mi' = mi + 1 /\ pc' = "write"
         /\ UNCHANGED <<req, obj, held, Maps, Dimensions, DimNameNum, ncDims>>
         /\ DOMAIN ncVars' = DOMAIN ncVars
         /\ \A v \in DOMAIN ncVars :
              /\ ncVars'[v].name = ncVars[v].name /\ ncVars'[v].type = ncVars[v].type
              /\ ncVars'[v].dims = ncVars[v].dims
              /\ v = obj[At].varid => ncVars'[v].data = At
              /\ v # obj[At].varid => ncVars'[v] = ncVars[v]
  <1>1. /\ pc = "write" /\ vi <= Len(req) /\ mi <= Len(Targets(vi)) /\ ~obj[At].dontUse
        /\ ncVars' = [ncVars EXCEPT ![obj[At].varid].data = At]
        /\ vi' = vi /\ mi' = mi + 1 /\ pc' = "write"
        /\ UNCHANGED <<req, obj, held, Maps, Dimensions, DimNameNum, ncDims>>
    BY DEF WriteData, Writing, Goto, converted, statics
  <1>2. At \in DOMAIN obj /\ mi \in DOMAIN Targets(vi)
    BY <1>1, AtTypes
  <1> DEFINE x == obj[At].varid
             p == At
  <1>3. ncVars' = [ncVars EXCEPT ![x].data = p]
    BY <1>1
  <1>4. \A v \in DOMAIN ncVars : ncVars[v] \in NcVar
    BY DEF IInv, TypeOK, FileOK
  <1> HIDE DEF x, p
  <1>5. /\ DOMAIN ncVars' = DOMAIN ncVars
        /\ \A v \in DOMAIN ncVars :
             /\ ncVars'[v].name = ncVars[v].name /\ ncVars'[v].type = ncVars[v].type
             /\ ncVars'[v].dims = ncVars[v].dims
             /\ v = x => ncVars'[v].data = p
             /\ v # x => ncVars'[v] = ncVars[v]
    BY <1>3, <1>4 DEF NcVar
  <1> QED
    BY <1>1, <1>2, <1>5 DEF x, p

(* The targets of define() and write().                                    *)
LEMMA TargetsAre ==
  ASSUME IInv, NEW i \in DOMAIN req
  PROVE  /\ Len(held[i]) \in Nat /\ DOMAIN held[i] = 1..Len(held[i])
         /\ \A k \in DOMAIN held[i] : k \in DOMAIN Targets(i) /\ Targets(i)[k] = Maps[held[i][k]].arr
         /\ <<i, 0>> \in DOMAIN obj /\ req[i].kind # "Sequence" =>
              Len(held[i]) + 1 \in DOMAIN Targets(i) /\ Targets(i)[Len(held[i]) + 1] = <<i, 0>>
         /\ \A k \in DOMAIN Targets(i) :
              \/ k \in DOMAIN held[i]
              \/ /\ k = Len(held[i]) + 1 /\ Targets(i)[k] = <<i, 0>>
                 /\ <<i, 0>> \in DOMAIN obj /\ req[i].kind # "Sequence"
  <1>1. held[i] \in Seq(Nat)
    BY HeldTypes
  <1> DEFINE own == IF <<i, 0>> \in DOMAIN obj /\ req[i].kind # "Sequence" THEN << <<i, 0>> >> ELSE << >>
             maps == [k \in DOMAIN held[i] |-> Maps[held[i][k]].arr]
  <1>2. maps \in Seq(Key) /\ Len(maps) = Len(held[i])
    <2>1. \A k \in DOMAIN held[i] : Maps[held[i][k]].arr \in Key
      BY HeldTypes, ControlTypes
    <2> QED
      BY <1>1, <2>1
  <1>3. own \in Seq(Key)
    <2>1. <<i, 0>> \in DOMAIN obj => <<i, 0>> \in Key
      BY DEF IInv, TypeOK, ObjectsOK
    <2> QED
      BY <2>1, SeqOfOne
  <1>4. Targets(i) = maps \o own
    BY DEF Targets
  <1>5. own = << >> \/ (own = << <<i, 0>> >> /\ <<i, 0>> \in DOMAIN obj /\ req[i].kind # "Sequence")
    OBVIOUS
  <1>6. <<i, 0>> \in DOMAIN obj /\ req[i].kind # "Sequence" => own = << <<i, 0>> >>
    OBVIOUS
  <1>7. \A k \in DOMAIN held[i] : maps[k] = Maps[held[i][k]].arr
    OBVIOUS
  <1> HIDE DEF own, maps
  <1>8. DOMAIN Targets(i) = 1..(Len(maps) + Len(own)) /\ Len(maps) \in Nat /\ Len(own) \in Nat
    BY <1>2, <1>3, <1>4
  <1>9. \A k \in 1..Len(maps) : Targets(i)[k] = maps[k]
    BY <1>2, <1>3, <1>4
  <1>10. \A k \in 1..Len(own) : Targets(i)[Len(maps) + k] = own[k]
    BY <1>2, <1>3, <1>4
  <1>11. Len(held[i]) \in Nat /\ DOMAIN held[i] = 1..Len(held[i])
    BY <1>1
  <1>12. ASSUME own = << <<i, 0>> >>
         PROVE  Len(held[i]) + 1 \in DOMAIN Targets(i) /\ Targets(i)[Len(held[i]) + 1] = <<i, 0>>
    <2>1. Len(own) = 1 /\ own[1] = <<i, 0>>
      BY <1>12
    <2> QED
      BY <1>2, <1>8, <1>10, <2>1
  <1>13. ASSUME NEW k \in DOMAIN Targets(i), k \notin DOMAIN held[i]
         PROVE  own = << <<i, 0>> >> /\ k = Len(held[i]) + 1
    <2>1. own # << >>
      BY <1>2, <1>8, <1>11, <1>13
    <2>2. Len(own) = 1
      BY <1>5, <2>1
    <2> QED
      BY <1>2, <1>5, <1>8, <1>11, <1>13, <2>1, <2>2
  <1> QED
    BY <1>2, <1>5, <1>6, <1>7, <1>8, <1>9, <1>11, <1>12, <1>13

(* The objects that variables hand on are alive.                           *)
LEMMA TargetIs ==
  ASSUME IInv, Working, NEW i \in DOMAIN req, NEW k \in DOMAIN Targets(i)
  PROVE  i \in Nat \ {0} /\ k \in Nat \ {0} /\ Targets(i)[k] \in DOMAIN obj
  <1>1. i \in Nat \ {0}
    <2>1. req \in Seq(Var)
      BY ControlTypes
    <2> QED
      BY <2>1
  <1>2. \/ k \in DOMAIN held[i] /\ Targets(i)[k] = Maps[held[i][k]].arr
        \/ k = Len(held[i]) + 1 /\ Targets(i)[k] = <<i, 0>> /\ <<i, 0>> \in DOMAIN obj
    BY TargetsAre
  <1>3. Len(held[i]) \in Nat /\ DOMAIN held[i] = 1..Len(held[i])
    BY TargetsAre
  <1>4. k \in DOMAIN held[i] => Maps[held[i][k]].arr \in DOMAIN obj
    BY HeldTypes DEF IInv, KeysOK
  <1> QED
    BY <1>1, <1>2, <1>3, <1>4

(* A simple variable is defined once: it is its only target.               *)
Simple(p) == KindOf(p) \in {"Scalar", "Str"}
OnceOK ==
  pc = "define" => \A p \in DOMAIN obj : Simple(p) /\ IsDefined(p) =>
                      p[1] < vi \/ (p[1] = vi /\ mi > 1)

(* A simple variable hands on itself, and no other does.                   *)
LEMMA SimpleTarget ==
  ASSUME IInv, RegisteredOK, HoldersOK, NEW i \in DOMAIN req, NEW k \in DOMAIN Targets(i),
         Simple(Targets(i)[k])
  PROVE  Targets(i)[k] = <<i, 0>> /\ k = 1
  <1>1. k \notin DOMAIN held[i]
    <2> SUFFICES ASSUME k \in DOMAIN held[i] PROVE FALSE
      OBVIOUS
    <2>1. held[i][k] \in DOMAIN Maps /\ Targets(i)[k] = Maps[held[i][k]].arr
      BY TargetsAre, HeldTypes
    <2>2. MayServe(Targets(i)[k])
      BY <2>1 DEF RegisteredOK, ServingOK, Registered
    <2> QED
      BY <2>2 DEF MayServe, IsArrayKey, Simple
  <1>2. k = Len(held[i]) + 1 /\ Targets(i)[k] = <<i, 0>>
    BY <1>1, TargetsAre
  <1>3. req[i].kind # "Grid"
    BY <1>2 DEF Simple, KindOf
  <1>4. held[i] = << >>
    BY <1>3, HeldTypes DEF HoldersOK
  <1> QED
    BY <1>2, <1>4

(* No object is defined twice.                                             *)
LEMMA AtUndefined ==
  ASSUME IInv, RegisteredOK, HoldersOK, OnceOK, NEW ds, NewVar(At, ds),
         DefineScalar \/ DefineStr \/ DefineArray
  PROVE  ~IsDefined(At)
  <1>1. CASE DefineArray
    BY <1>1 DEF DefineArray, Undone
  <1>2. CASE DefineScalar \/ DefineStr
    <2>1. pc = "define" /\ InDefine /\ Simple(At)
      BY <1>2 DEF DefineScalar, DefineStr, Defining, InDefine, Simple, KindOf
    <2>2. vi \in DOMAIN req /\ mi \in DOMAIN Targets(vi) /\ At \in DOMAIN obj
      BY <2>1, AtTypes DEF InDefine
    <2>3. At = <<vi, 0>> /\ mi = 1
      BY <2>1, <2>2, SimpleTarget DEF At
    <2>4. vi \in Nat
      BY ControlTypes
    <2> QED
      BY <2>1, <2>2, <2>3, <2>4 DEF OnceOK
  <1> QED
    BY <1>1, <1>2

(* define and write change nothing but what they name.                     *)
LEMMA FilingFrames ==
  ASSUME IInv, RegisteredOK, HoldersOK, OnceOK, pc \in {"define", "write"}, GoesOn
  PROVE  Framed
  <1>0. DimNameNum \in Nat
    BY DEF IInv, TypeOK, StaticsOK
  <1>1. CASE Quiet
    BY <1>0, <1>1 DEF Quiet, Framed, ObjectsFramed, DimsFramed, FileFramed
  <1>2. CASE DefineDim
    <2>1. ObjectsFramed
      BY <1>2, DefineDimTypes DEF ObjectsFramed
    <2>2. DimsFramed
      <3> HIDE DEF CurDim
      <3> QED
        BY <1>0, <1>2, DefineDimTypes DEF DimsFramed
    <2>3. FileFramed
      BY <1>2, DefineDimTypes DEF FileFramed
    <2> QED
      BY <2>1, <2>2, <2>3 DEF Framed
  <1>3. ASSUME NEW p, NEW ds, NewVar(p, ds), p = At, ~IsDefined(p),
               \A d \in DOMAIN ncDims : d \in DOMAIN ncDims' /\ ncDims'[d] = ncDims[d]
        PROVE  Framed
    <2>0. UNCHANGED <<req, held, Maps>>
      BY <1>3 DEF NewVar
    <2>1. ObjectsFramed
      <3>1. OnlyVarid(p)
        BY <1>3, NewVarTypes
      <3>3. \A q \in DOMAIN obj : IsDefined(q) => obj'[q].varid = obj[q].varid
        BY <1>3, <3>1 DEF OnlyVarid
      <3> QED
        BY <2>0, <3>1, <3>3 DEF ObjectsFramed, OnlyVarid
    <2>2. DimsFramed
      BY <1>0, <1>3 DEF DimsFramed, NewVar
    <2>3. FileFramed
      BY <1>3, NewVarTypes DEF FileFramed
    <2> QED
      BY <2>1, <2>2, <2>3 DEF Framed
  <1>4. CASE WriteData
    <2>1. ObjectsFramed /\ DimsFramed
      BY <1>0, <1>4, WriteDataTypes DEF ObjectsFramed, DimsFramed
    <2>2. FileFramed
      BY <1>4, WriteDataTypes DEF FileFramed
    <2> QED
      BY <2>1, <2>2 DEF Framed
  <1>5. CASE DefineScalar /\ NewVar(At, << >>) /\ ncDims' = ncDims
    BY <1>3, <1>5, AtUndefined DEF NewVar
  <1>6. CASE DefineStr /\ NewVar(At, <<Len(ncDims) + 1>>)
    <2>1. \A d \in DOMAIN ncDims : d \in DOMAIN ncDims' /\ ncDims'[d] = ncDims[d]
      BY <1>6, DefineStrTypes
    <2> QED
      BY <1>3, <1>6, <2>1, AtUndefined DEF NewVar
  <1>7. ASSUME NEW ds, DefineArray, NewVar(At, ds), ncDims' = ncDims
        PROVE  Framed
    BY <1>3, <1>7, AtUndefined DEF NewVar
  <1> QED
    BY <1>1, <1>2, <1>4, <1>5, <1>6, <1>7, FilingSteps

---------------------------------------------------------------------------
(* A dimension that is defined is in the file with its size and its name as*)
(* an identifier, or with one made up.                                     *)
FileDimOK(c) ==
  LET d == Dimensions[c] IN
  d.dimid # 0 =>
     /\ d.dimid \in DOMAIN ncDims
     /\ ncDims[d.dimid].size = d.size
     /\ d.name = << >> => \E n \in 1..DimNameNum : ncDims[d.dimid].name = AutoDim(n)
     /\ d.name # << >> => ncDims[d.dimid].name = id2netcdf(d.name)
OfStr(d, p) == p \in DOMAIN obj /\ KindOf(p) = "Str" /\ IsDefined(p) /\ ncDims[d].name = WithLen(NameOf(p))
NcDimOK(d) ==
  \/ \E c \in DOMAIN Dimensions : Dimensions[c].dimid = d
  \/ \E p : OfStr(d, p)
Numbered == {c \in DOMAIN Dimensions : Dimensions[c].name = << >> /\ Dimensions[c].dimid # 0}
FileDimsOK ==
  /\ \A c \in DOMAIN Dimensions : FileDimOK(c)
  /\ \A d \in DOMAIN ncDims : NcDimOK(d)
  /\ DimNameNum = Cardinality(Numbered)

(* An object that is defined has its variable in the file, with the        *)
(* dimensions it needs, and every variable of the file is of one object.   *)
VarDims(p, ds) ==
  /\ IsArrayKey(p) =>
       /\ DOMAIN ds = DOMAIN obj[p].dims
       /\ \A k \in DOMAIN obj[p].dims : ds[k] = FileDim(p, k) /\ FileDim(p, k) # 0
  /\ KindOf(p) = "Str" =>
       DOMAIN ds = {1} /\ ds[1] \in DOMAIN ncDims /\ ncDims[ds[1]].size = ArrOf(req, p).len
  /\ KindOf(p) = "Scalar" => DOMAIN ds = {}
VarIs(p, v) ==
  /\ v \in DOMAIN ncVars /\ ncVars[v].name = NameOf(p) /\ ncVars[v].type = NcTypeOf(p)
  /\ VarDims(p, ncVars[v].dims)
FileVarOK(p) ==
  IsDefined(p) =>
     /\ ~obj[p].dontUse /\ (IsArrayKey(p) \/ Simple(p)) /\ VarIs(p, obj[p].varid)
     /\ ncVars[obj[p].varid].data \in {NoKey, p}
FileVarsOK ==
  /\ \A p \in DOMAIN obj : FileVarOK(p)
  /\ \A v \in DOMAIN ncVars : \E p \in DOMAIN obj : obj[p].varid = v
  /\ \A p, q \in DOMAIN obj : IsDefined(p) /\ obj[p].varid = obj[q].varid => p = q

(* What define() and write() have been through is defined and written.     *)
Passed(i, k) == i < vi \/ (i = vi /\ k < mi)
Done(p) == IsDefined(p) \/ obj[p].dontUse
Written(p) == obj[p].dontUse \/ ncVars[obj[p].varid].data = p
AtDimsOK == InDefine => \A k \in DOMAIN obj[At].dims : k < di => FileDim(At, k) # 0
DefinedOK ==
  pc \in {"define", "write"} => \A i \in DOMAIN req : \A k \in DOMAIN Targets(i) :
     (pc = "define" => Passed(i, k)) => Done(Targets(i)[k])
WrittenOK ==
  pc = "write" => \A i \in DOMAIN req : \A k \in DOMAIN Targets(i) :
     Passed(i, k) => Written(Targets(i)[k])

FilingInv == FileDimsOK /\ FileVarsOK /\ OnceOK /\ AtDimsOK /\ DefinedOK /\ WrittenOK
FileInvs == (Early => Blank) /\ (pc \in {"define", "write"} => FilingInv)

(* FilingInv of a file with nothing in it.                                 *)
LEMMA BlankFile ==
  ASSUME IInv, Blank
  PROVE  FileDimsOK /\ FileVarsOK /\ \A p \in DOMAIN obj : ~IsDefined(p)
  <1>1. \A p \in DOMAIN obj : ~IsDefined(p)
    BY DEF Blank, IsDefined
  <1>2. FileVarsOK
    BY <1>1 DEF Blank, FileVarsOK, FileVarOK
  <1>3. Numbered = {}
    BY DEF Blank, Numbered
  <1>4. Cardinality(Numbered) = 0
    BY <1>3, FS_EmptySet
  <1>5. FileDimsOK
    BY <1>4 DEF Blank, FileDimsOK, FileDimOK
  <1> QED
    BY <1>1, <1>2, <1>5

(* define() begins.                                                        *)
LEMMA CreateFiling ==
  ASSUME IInv, Blank, CreateFile
  PROVE  FilingInv'
  <1>1. /\ UNCHANGED <<req, obj, held, Dimensions, Maps, DimNameNum, ncDims, ncVars>>
        /\ pc' = "define" /\ vi' = 1 /\ mi' = 1 /\ di' = 1
    BY DEF CreateFile, Goto, converted, statics
  <1>2. FileDimsOK /\ FileVarsOK /\ \A p \in DOMAIN obj : ~IsDefined(p)
    BY BlankFile
  <1>3. FileDimsOK'
    BY <1>1, <1>2 DEF FileDimsOK, FileDimOK, NcDimOK, OfStr, Numbered, KindOf, IsDefined, NameOf
  <1>4. FileVarsOK'
    <2>1. \A p \in DOMAIN obj : ~IsDefined(p)'
      BY <1>1, <1>2 DEF IsDefined
    <2> QED
      BY <1>1, <2>1 DEF FileVarsOK, FileVarOK, Blank
  <1>5. OnceOK'
    BY <1>1, <1>2 DEF OnceOK, IsDefined
  <1>6. AtDimsOK'
    <2> SUFFICES ASSUME InDefine', NEW k \in DOMAIN obj'[At'].dims, k < 1
                 PROVE  FALSE
      BY <1>1 DEF AtDimsOK
    <2>1. IInv'
      BY StepIInv DEF Next, Step, Define, CreateFile
    <2>2. \A p \in DOMAIN obj : obj[p].dims \in Seq(Nat)
      BY DEF IInv, TypeOK, ObjectsOK, FONcArray
    <2>3. At' \in DOMAIN obj'
      BY <2>1, AtStaysAlive DEF AtAlive
    <2> QED
      BY <1>1, <2>2, <2>3
  <1>7. DefinedOK' /\ WrittenOK'
    <2>1. ASSUME NEW i \in DOMAIN req, NEW k \in DOMAIN Targets(i)
          PROVE  ~(i < 1 \/ (i = 1 /\ k < 1))
      <3>1. i \in Nat \ {0} /\ k \in Nat \ {0}
        BY TargetIs DEF CreateFile, Working
      <3> QED
        BY <3>1
    <2>2. \A i \in DOMAIN req : Targets(i)' = Targets(i)
      BY <1>1 DEF Targets
    <2> QED
      BY <1>1, <2>1, <2>2 DEF DefinedOK, WrittenOK, Passed
  <1> QED
    BY <1>3, <1>4, <1>5, <1>6, <1>7 DEF FilingInv

(* Nothing but these steps changes the dimensions and the data.            *)
LEMMA OtherFilings ==
  ASSUME IInv, pc \in {"define", "write"}, GoesOn
  PROVE  /\ ~DefineDim => UNCHANGED <<Dimensions, DimNameNum>>
         /\ ~DefineDim /\ ~DefineStr => ncDims' = ncDims
         /\ ~WriteData => \A v \in DOMAIN ncVars : ncVars'[v] = ncVars[v]
         /\ \/ obj' = obj /\ DOMAIN ncVars' = DOMAIN ncVars
            \/ /\ \E ds : NewVar(At, ds)
               /\ DefineScalar \/ DefineStr \/ DefineArray
  <1>1. CASE Quiet
    BY <1>1, DefineDimTypes DEF Quiet
  <1>2. CASE DefineDim
    BY <1>2, DefineDimTypes
  <1>3. CASE WriteData
    <2>1. ~DefineDim
      BY <1>3 DEF WriteData, Writing, DefineDim, Defining, InDefine
    <2> QED
      BY <1>3, <2>1, WriteDataTypes DEF Quiet
  <1>4. ASSUME NEW ds, NewVar(At, ds), DefineStr \/ ncDims' = ncDims
        PROVE  /\ ~DefineDim /\ UNCHANGED <<Dimensions, DimNameNum>>
               /\ ~Quiet /\ ~WriteData
               /\ \A v \in DOMAIN ncVars : ncVars'[v] = ncVars[v]
    <2>1. UNCHANGED <<Dimensions, DimNameNum>> /\ pc = "define" /\ At \in DOMAIN obj
      BY <1>4 DEF NewVar
    <2>2. ncVars' # ncVars
      BY <1>4, NewVarTypes
    <2>3. ~DefineDim
      BY <2>2, DefineDimTypes
    <2>4. \A v \in DOMAIN ncVars : ncVars'[v] = ncVars[v]
      BY <1>4, NewVarTypes
    <2> QED
      BY <2>1, <2>2, <2>3, <2>4 DEF Quiet, WriteData, Writing
  <1> QED
    BY <1>1, <1>2, <1>3, <1>4, FilingSteps

(* The objects and dimensions that define() and write() go through.        *)
LEMMA FilingStays ==
  ASSUME IInv, RegisteredOK, HoldersOK, OnceOK, pc \in {"define", "write"}, GoesOn
  PROVE  /\ \A i : Targets(i)' = Targets(i)
         /\ \A p : /\ KindOf(p)' = KindOf(p) /\ NameOf(p)' = NameOf(p)
                   /\ IsArrayKey(p)' <=> IsArrayKey(p)
                   /\ Simple(p)' <=> Simple(p)
                   /\ ArrOf(req, p)' = ArrOf(req, p) /\ NcTypeOf(p)' = NcTypeOf(p)
         /\ \A p \in DOMAIN obj : IsDefined(p) => IsDefined(p)'
  <1>1. req' = req /\ held' = held /\ Maps' = Maps /\ DOMAIN obj' = DOMAIN obj
    BY FilingFrames DEF Framed, ObjectsFramed
  <1>2. \A p \in DOMAIN obj : IsDefined(p) => obj'[p].varid = obj[p].varid
    BY FilingFrames DEF Framed, ObjectsFramed
  <1> QED
    BY <1>1, <1>2 DEF Targets, KindOf, NameOf, IsArrayKey, Simple, ArrOf, NcTypeOf, EmbedOf, IsDefined

(* A dimension of the registry is in the file as it was, or just came.     *)
LEMMA StepFileDim ==
  ASSUME IInv, RegisteredOK, HoldersOK, FilingInv, pc \in {"define", "write"}, GoesOn,
         NEW c \in DOMAIN Dimensions
  PROVE  FileDimOK(c)'
  <1>0. Framed
    BY FilingFrames DEF FilingInv
  <1>1. CASE Dimensions[c].dimid # 0
    <2>1. /\ Dimensions[c].dimid \in DOMAIN ncDims
          /\ ncDims[Dimensions[c].dimid].size = Dimensions[c].size
          /\ Dimensions[c].name = << >> => \E n \in 1..DimNameNum : ncDims[Dimensions[c].dimid].name = AutoDim(n)
          /\ Dimensions[c].name # << >> => ncDims[Dimensions[c].dimid].name = id2netcdf(Dimensions[c].name)
      BY <1>1 DEF FilingInv, FileDimsOK, FileDimOK
    <2>2. /\ Dimensions'[c].name = Dimensions[c].name /\ Dimensions'[c].size = Dimensions[c].size
          /\ Dimensions'[c].dimid = Dimensions[c].dimid
          /\ DimNameNum \in Nat /\ DimNameNum' \in Nat /\ DimNameNum <= DimNameNum'
      BY <1>0, <1>1 DEF Framed, DimsFramed
    <2>3. Dimensions[c].dimid \in DOMAIN ncDims' /\ ncDims'[Dimensions[c].dimid] = ncDims[Dimensions[c].dimid]
      BY <1>0, <2>1 DEF Framed, FileFramed
    <2>4. \A n \in 1..DimNameNum : n \in 1..DimNameNum'
      BY <2>2
    <2> QED
      BY <2>1, <2>2, <2>3, <2>4 DEF FileDimOK
  <1>2. CASE Dimensions[c].dimid = 0 /\ DefineDim /\ c = CurDim
    <2> DEFINE id == Len(ncDims) + 1
    <2>1. /\ Dimensions'[c].dimid = id /\ id \in DOMAIN ncDims'
          /\ ncDims'[id] = [name |-> DimIdentifier, size |-> Dimensions[c].size]
          /\ Dimensions'[c].name = Dimensions[c].name /\ Dimensions'[c].size = Dimensions[c].size
          /\ DimNameNum \in Nat
          /\ DimNameNum' = DimNameNum + (IF Dimensions[c].name = << >> THEN 1 ELSE 0)
      BY <1>2, DefineDimTypes
    <2>2. DimIdentifier = IF Dimensions[c].name = << >> THEN AutoDim(DimNameNum + 1)
                                                        ELSE id2netcdf(Dimensions[c].name)
      BY <1>2 DEF DimIdentifier
    <2>3. ncDims'[id].name = DimIdentifier /\ ncDims'[id].size = Dimensions[c].size
      BY <2>1
    <2> HIDE DEF id
    <2>4. Dimensions[c].name = << >> => DimNameNum + 1 \in 1..DimNameNum'
      BY <2>1
    <2> QED
      BY <2>1, <2>2, <2>3, <2>4 DEF FileDimOK
  <1>3. CASE Dimensions[c].dimid = 0 /\ ~(DefineDim /\ c = CurDim)
    <2>1. Dimensions'[c] = Dimensions[c]
      BY <1>3, OtherFilings, DefineDimTypes
    <2> QED
      BY <1>3, <2>1 DEF FileDimOK
  <1> QED
    BY <1>1, <1>2, <1>3

(* A dimension of the file is of the registry or of a string.              *)
LEMMA StepNcDim ==
  ASSUME IInv, RegisteredOK, HoldersOK, NamesOK, FilingInv, pc \in {"define", "write"}, GoesOn,
         NEW d \in DOMAIN ncDims'
  PROVE  NcDimOK(d)'
  <1>0. Framed
    BY FilingFrames DEF FilingInv
  <1>1. CASE d \in DOMAIN ncDims
    <2>1. d # 0 /\ ncDims'[d] = ncDims[d]
      <3>1. ncDims \in Seq(NcDim)
        BY DEF IInv, TypeOK, FileOK
      <3> QED
        BY <1>0, <1>1, <3>1 DEF Framed, FileFramed
    <2>2. CASE \E c \in DOMAIN Dimensions : Dimensions[c].dimid = d
      <3>1. PICK c \in DOMAIN Dimensions : Dimensions[c].dimid = d
        BY <2>2
      <3>2. c \in DOMAIN Dimensions' /\ Dimensions'[c].dimid = d
        BY <1>0, <2>1, <3>1 DEF Framed, DimsFramed
      <3> QED
        BY <3>2 DEF NcDimOK
    <2>3. CASE \E p : OfStr(d, p)
      <3>1. PICK p : OfStr(d, p)
        BY <2>3
      <3>2. p \in DOMAIN obj' /\ KindOf(p)' = "Str" /\ IsDefined(p)' /\ NameOf(p)' = NameOf(p)
        BY <1>0, <3>1, FilingStays DEF FilingInv, OfStr, Framed, ObjectsFramed
      <3>3. OfStr(d, p)'
        BY <2>1, <3>1, <3>2 DEF OfStr, WithLen
      <3> QED
        BY <3>3 DEF NcDimOK
    <2> QED
      BY <1>1, <2>2, <2>3 DEF FilingInv, FileDimsOK, NcDimOK
  <1>2. CASE d \notin DOMAIN ncDims /\ DefineDim
    <2>1. CurDim \in DOMAIN Dimensions' /\ Dimensions'[CurDim].dimid = d
      BY <1>2, DefineDimTypes
    <2> QED
      BY <2>1 DEF NcDimOK
  <1>3. CASE d \notin DOMAIN ncDims /\ DefineStr
    <2>1. PICK p : p = At
      OBVIOUS
    <2>2. /\ KindOf(p) = "Str" /\ NewVar(p, <<Len(ncDims) + 1>>) /\ InDefine
          /\ ncDims'[d] = [name |-> WithLen(obj[p].varname), size |-> ArrOf(req, p).len]
      BY <1>3, <2>1, DefineStrTypes
    <2>3. p \in DOMAIN obj /\ p \in DOMAIN obj' /\ obj'[p].varid # 0
      <3>1. OnlyVarid(p) /\ obj'[p].varid = Len(ncVars) + 1 /\ Len(ncVars) + 1 \in Nat \ {0}
        BY <2>2, NewVarTypes
      <3> QED
        BY <2>2, <3>1 DEF NewVar, OnlyVarid
    <2>4. ncDims'[d].name = WithLen(NameOf(p))
      BY <2>2, <2>3 DEF NamesOK
    <2>5. KindOf(p)' = "Str" /\ NameOf(p)' = NameOf(p)
      BY <2>2, FilingStays DEF FilingInv
    <2>6. OfStr(d, p)'
      BY <2>3, <2>4, <2>5 DEF OfStr, IsDefined, WithLen
    <2> QED
      BY <2>6 DEF NcDimOK
  <1>4. ncDims' = ncDims \/ DefineDim \/ DefineStr
    BY OtherFilings
  <1> QED
    BY <1>1, <1>2, <1>3, <1>4

(* DimNameNum counts the unnamed dimensions that are defined.              *)
LEMMA StepNumbered ==
  ASSUME IInv, FilingInv, pc \in {"define", "write"}, GoesOn
  PROVE  DimNameNum' = Cardinality(Numbered')
  <1>1. DimNameNum = Cardinality(Numbered)
    BY DEF FilingInv, FileDimsOK
  <1>2. IsFiniteSet(Numbered)
    <2>1. Dimensions \in Seq(FONcDim)
      BY DEF IInv, TypeOK, StaticsOK
    <2>2. DOMAIN Dimensions = 1..Len(Dimensions) /\ Len(Dimensions) \in Nat
      BY <2>1
    <2>3. IsFiniteSet(DOMAIN Dimensions)
      BY <2>2, FS_Interval
    <2>4. Numbered \subseteq DOMAIN Dimensions
      BY DEF Numbered
    <2> QED
      BY <2>3, <2>4, FS_Subset
  <1>3. CASE ~DefineDim
    <2>1. UNCHANGED <<Dimensions, DimNameNum>>
      BY <1>3, OtherFilings
    <2> QED
      BY <1>1, <2>1 DEF Numbered
  <1>4. CASE DefineDim
    <2> DEFINE x == CurDim
    <2>1. /\ x \in DOMAIN Dimensions /\ Dimensions[x].dimid = 0 /\ DOMAIN Dimensions' = DOMAIN Dimensions
          /\ DimNameNum \in Nat /\ DimNameNum' = DimNameNum + (IF Dimensions[x].name = << >> THEN 1 ELSE 0)
          /\ Dimensions'[x].dimid # 0 /\ Dimensions'[x].name = Dimensions[x].name
          /\ \A c \in DOMAIN Dimensions : c # x => Dimensions'[c] = Dimensions[c]
      <3>1. /\ x \in DOMAIN Dimensions /\ Dimensions[x].dimid = 0 /\ DOMAIN Dimensions' = DOMAIN Dimensions
            /\ DimNameNum \in Nat /\ DimNameNum' = DimNameNum + (IF Dimensions[x].name = << >> THEN 1 ELSE 0)
            /\ Dimensions'[x].dimid = Len(ncDims) + 1 /\ Len(ncDims) + 1 \in Nat \ {0}
        BY <1>4, DefineDimTypes
      <3>2. \A c \in DOMAIN Dimensions :
              Dimensions'[c].name = Dimensions[c].name /\ (c # x => Dimensions'[c] = Dimensions[c])
        BY <1>4, DefineDimTypes
      <3> HIDE DEF x
      <3> QED
        BY <3>1, <3>2
    <2> HIDE DEF x
    <2>2. x \notin Numbered
      BY <2>1 DEF Numbered
    <2>3. CASE Dimensions[x].name = << >>
      <3>1. Numbered' = Numbered \cup {x}
        BY <2>1, <2>3 DEF Numbered
      <3>2. Cardinality(Numbered \cup {x}) = Cardinality(Numbered) + 1
        BY <1>2, <2>2, FS_AddElement
      <3> QED
        BY <1>1, <2>1, <2>3, <3>1, <3>2
    <2>4. CASE Dimensions[x].name # << >>
      <3>1. Numbered' = Numbered
        BY <2>1, <2>4 DEF Numbered
      <3> QED
        BY <1>1, <2>1, <2>4, <3>1
    <2> QED
      BY <2>3, <2>4
  <1> QED
    BY <1>3, <1>4

(* FileDimsOK is kept.                                                     *)
LEMMA StepFileDims ==
  ASSUME IInv, RegisteredOK, HoldersOK, NamesOK, FilingInv, pc \in {"define", "write"}, GoesOn
  PROVE  FileDimsOK'
  <1>1. DOMAIN Dimensions' = DOMAIN Dimensions
    BY FilingFrames DEF FilingInv, Framed, DimsFramed
  <1> QED
    BY <1>1, StepFileDim, StepNcDim, StepNumbered DEF FileDimsOK

(* The dimensions of a variable stay those of its array.                   *)
LEMMA VarDimsStay ==
  ASSUME IInv, RegisteredOK, HoldersOK, FilingInv, pc \in {"define", "write"}, GoesOn,
         NEW p \in DOMAIN obj, NEW ds, VarDims(p, ds)
  PROVE  VarDims(p, ds)'
  <1>0. Framed
    BY FilingFrames DEF FilingInv
  <1>1. /\ IsArrayKey(p)' <=> IsArrayKey(p)
        /\ KindOf(p)' = KindOf(p) /\ ArrOf(req, p)' = ArrOf(req, p)
    BY FilingStays DEF FilingInv
  <1>2. obj'[p].dims = obj[p].dims
    BY <1>0 DEF Framed, ObjectsFramed
  <1>3. ASSUME NEW k \in DOMAIN obj[p].dims, FileDim(p, k) # 0
        PROVE  FileDim(p, k)' = FileDim(p, k)
    <2>1. obj[p].dims[k] \in DOMAIN Dimensions
      BY DEF IInv, TypeOK, PointersOK
    <2> QED
      BY <1>0, <1>2, <1>3, <2>1 DEF Framed, DimsFramed, FileDim
  <1>4. \A d \in DOMAIN ncDims : d \in DOMAIN ncDims' /\ ncDims'[d] = ncDims[d]
    BY <1>0 DEF Framed, FileFramed
  <1>5. CASE IsArrayKey(p)
    <2>1. KindOf(p) # "Str" /\ KindOf(p) # "Scalar"
      BY <1>5 DEF IsArrayKey
    <2> QED
      BY <1>1, <1>2, <1>3, <1>5, <2>1 DEF VarDims
  <1>6. CASE ~IsArrayKey(p)
    BY <1>1, <1>4, <1>6 DEF VarDims
  <1> QED
    BY <1>5, <1>6

(* The variable that a step defines.                                       *)
LEMMA NewVarIs ==
  ASSUME IInv, RegisteredOK, HoldersOK, NamesOK, FilingInv, pc \in {"define", "write"}, GoesOn,
         NEW p, p = At, NEW ds, NewVar(p, ds), DefineScalar \/ DefineStr \/ DefineArray
  PROVE  /\ ~obj[p].dontUse /\ (IsArrayKey(p) \/ Simple(p))
         /\ VarDims(p, ds)'
  <1>1. p \in DOMAIN obj /\ InDefine
    BY DEF NewVar
  <1>2. Simple(p) => ~obj[p].dontUse
    BY <1>1 DEF RegisteredOK, MayServe, IsArrayKey, Simple
  <1>3. /\ IsArrayKey(p)' <=> IsArrayKey(p)
        /\ KindOf(p)' = KindOf(p) /\ ArrOf(req, p)' = ArrOf(req, p)
    BY FilingStays DEF FilingInv
  <1> DEFINE L == Len(ncVars) + 1
  <1>4. ncVars' = Append(ncVars, [name |-> obj[p].varname, type |-> NcTypeOf(p), dims |-> ds, data |-> NoKey])
    BY DEF NewVar, DefVar
  <1>5. ncVars'[L].dims = ds
    <2>1. ncVars'[L] = [name |-> obj[p].varname, type |-> NcTypeOf(p), dims |-> ds, data |-> NoKey]
      BY NewVarTypes
    <2> QED
      BY <2>1
  <1> HIDE DEF L
  <1>6. ASSUME NEW es, \E new : ncVars' = Append(ncVars, [name |-> obj[p].varname, type |-> NcTypeOf(p),
                                                          dims |-> es, data |-> new])
        PROVE  ds = es
    <2>1. PICK new : ncVars' = Append(ncVars, [name |-> obj[p].varname, type |-> NcTypeOf(p),
                                               dims |-> es, data |-> new])
      BY <1>6
    <2>2. ncVars \in Seq(NcVar)
      BY DEF IInv, TypeOK, FileOK
    <2>3. ncVars'[L].dims = es
      BY <2>1, <2>2 DEF L
    <2> QED
      BY <1>5, <2>3
  <1>7. CASE DefineArray
    <2>1. /\ IsArrayKey(p) /\ ~obj[p].dontUse /\ di > Len(obj[p].dims)
          /\ DefVar(At, [k \in DOMAIN obj[p].dims |-> Dimensions[obj[p].dims[k]].dimid])
      <3>1. ~Refuse
        BY WorkStays DEF Refuse, ThrowAndClose, Throw, Working
      <3> QED
        BY <1>7, <3>1 DEF DefineArray, Defining, Undone, IsArrayKey, KindOf
    <2>2. ds = [k \in DOMAIN obj[p].dims |-> Dimensions[obj[p].dims[k]].dimid]
      BY <1>6, <2>1 DEF DefVar
    <2>3. \A k \in DOMAIN obj[p].dims : FileDim(p, k) # 0
      <3>1. obj[p].dims \in Seq(Nat) /\ di \in Nat
        BY <1>1, ControlTypes DEF IInv, TypeOK, ObjectsOK, FONcArray
      <3>2. \A k \in DOMAIN obj[p].dims : k < di
        BY <2>1, <3>1
      <3> QED
        BY <1>1, <3>2 DEF FilingInv, AtDimsOK
    <2>4. KindOf(p) # "Str" /\ KindOf(p) # "Scalar"
      BY <2>1 DEF IsArrayKey
    <2>5. VarDims(p, ds)
      BY <2>2, <2>3, <2>4 DEF VarDims, FileDim
    <2>6. VarDims(p, ds)'
      BY <1>1, <2>5, VarDimsStay
    <2> QED
      BY <2>1, <2>6
  <1>8. CASE DefineStr
    <2>1. /\ KindOf(p) = "Str" /\ NewVar(p, <<Len(ncDims) + 1>>)
          /\ Len(ncDims) + 1 \in DOMAIN ncDims' /\ ncDims'[Len(ncDims) + 1].size = ArrOf(req, p).len
      BY <1>8, DefineStrTypes
    <2>2. ds = <<Len(ncDims) + 1>>
      BY <1>6, <2>1 DEF DefVar, NewVar
    <2>3. DOMAIN ds = {1} /\ ds[1] = Len(ncDims) + 1
      BY <2>2
    <2>4. Simple(p) /\ ~IsArrayKey(p)
      BY <2>1 DEF Simple, IsArrayKey
    <2> QED
      BY <1>2, <1>3, <2>1, <2>3, <2>4 DEF VarDims
  <1>9. CASE DefineScalar
    <2>1. KindOf(p) = "Scalar" /\ DefVar(At, << >>)
      <3>1. ~Refuse
        BY WorkStays DEF Refuse, ThrowAndClose, Throw, Working
      <3> QED
        BY <1>9, <3>1 DEF DefineScalar, Defining, KindOf
    <2>2. ds = << >>
      BY <1>6, <2>1 DEF DefVar
    <2>3. Simple(p) /\ ~IsArrayKey(p)
      BY <2>1 DEF Simple, IsArrayKey
    <2> QED
      BY <1>2, <1>3, <2>1, <2>2, <2>3 DEF VarDims
  <1> QED
    BY <1>7, <1>8, <1>9

(* A variable of the file is as it was, or just came.                      *)
LEMMA StepFileVar ==
  ASSUME IInv, RegisteredOK, HoldersOK, NamesOK, FilingInv, pc \in {"define", "write"}, GoesOn,
         NEW p \in DOMAIN obj
  PROVE  FileVarOK(p)'
  <1>0. Framed
    BY FilingFrames DEF FilingInv
  <1>1. /\ IsArrayKey(p)' <=> IsArrayKey(p)
        /\ Simple(p)' <=> Simple(p)
        /\ NameOf(p)' = NameOf(p) /\ NcTypeOf(p)' = NcTypeOf(p)
        /\ obj'[p].dontUse = obj[p].dontUse
    BY <1>0, FilingStays DEF FilingInv, Framed, ObjectsFramed
  <1>2. CASE IsDefined(p)
    <2>1. PICK v : v = obj[p].varid
      OBVIOUS
    <2>2. /\ ~obj[p].dontUse /\ (IsArrayKey(p) \/ Simple(p)) /\ VarIs(p, v)
          /\ ncVars[v].data \in {NoKey, p}
      BY <1>2, <2>1 DEF FilingInv, FileVarsOK, FileVarOK
    <2>3. obj'[p].varid = v
      BY <1>0, <1>2, <2>1 DEF Framed, ObjectsFramed
    <2>4. /\ v \in DOMAIN ncVars' /\ ncVars'[v].name = ncVars[v].name
          /\ ncVars'[v].type = ncVars[v].type /\ ncVars'[v].dims = ncVars[v].dims
      BY <1>0, <2>2 DEF VarIs, Framed, FileFramed
    <2>5. PICK ds : ds = ncVars[v].dims
      OBVIOUS
    <2>6. VarDims(p, ds)'
      BY <2>2, <2>5, VarDimsStay DEF VarIs
    <2>7. VarIs(p, v)'
      BY <1>1, <2>2, <2>4, <2>5, <2>6 DEF VarIs, VarDims
    <2>8. ncVars'[v].data \in {NoKey, p}
      <3>1. CASE WriteData
        <4>1. At \in DOMAIN obj
          BY <3>1, WriteDataTypes
        <4>2. v = obj[At].varid => p = At
          BY <1>2, <2>1, <4>1 DEF FilingInv, FileVarsOK
        <4>3. v = obj[At].varid \/ ncVars'[v] = ncVars[v]
          BY <2>2, <3>1, WriteDataTypes DEF VarIs
        <4>4. v = obj[At].varid => ncVars'[v].data = At
          BY <2>2, <3>1, WriteDataTypes DEF VarIs
        <4> QED
          BY <2>2, <4>2, <4>3, <4>4
      <3>2. CASE ~WriteData
        BY <2>2, <3>2, OtherFilings DEF VarIs
      <3> QED
        BY <3>1, <3>2
    <2> QED
      BY <1>1, <2>2, <2>3, <2>7, <2>8 DEF FileVarOK, VarIs, VarDims
  <1>3. CASE ~IsDefined(p) /\ IsDefined(p)'
    <2>1. obj' # obj
      BY <1>3 DEF IsDefined
    <2>2. PICK ds : NewVar(At, ds)
      BY <2>1, OtherFilings
    <2>3. p = At
      <3>1. OnlyVarid(At)
        BY <2>2, NewVarTypes
      <3> QED
        BY <1>3, <3>1 DEF OnlyVarid, IsDefined
    <2>4. /\ ~obj[p].dontUse /\ (IsArrayKey(p) \/ Simple(p)) /\ VarDims(p, ds)'
      BY <2>1, <2>2, <2>3, NewVarIs, OtherFilings
    <2>5. PICK L : L = Len(ncVars) + 1
      OBVIOUS
    <2>6. /\ obj'[p].varid = L /\ L \in DOMAIN ncVars'
          /\ ncVars'[L] = [name |-> obj[p].varname, type |-> NcTypeOf(p), dims |-> ds, data |-> NoKey]
      BY <2>2, <2>3, <2>5, NewVarTypes
    <2>7. obj[p].varname = NameOf(p)
      BY DEF NamesOK
    <2>8. /\ ncVars'[L].name = NameOf(p) /\ ncVars'[L].type = NcTypeOf(p) /\ ncVars'[L].dims = ds
          /\ ncVars'[L].data = NoKey
      BY <2>6, <2>7
    <2>9. VarIs(p, L)'
      BY <1>1, <2>4, <2>6, <2>8 DEF VarIs, VarDims
    <2> QED
      BY <1>1, <2>4, <2>6, <2>8, <2>9 DEF FileVarOK, VarIs, VarDims, NoKey
  <1>4. CASE ~IsDefined(p)'
    BY <1>4 DEF FileVarOK
  <1> QED
    BY <1>2, <1>3, <1>4

(* FileVarsOK is kept.                                                     *)
LEMMA StepFileVars ==
  ASSUME IInv, RegisteredOK, HoldersOK, NamesOK, FilingInv, pc \in {"define", "write"}, GoesOn
  PROVE  FileVarsOK'
  <1>0. Framed
    BY FilingFrames DEF FilingInv
  <1>1. \A p \in DOMAIN obj' : FileVarOK(p)'
    BY <1>0, StepFileVar DEF Framed, ObjectsFramed
  <1>2. \A v \in DOMAIN ncVars : v # 0
    <2>1. ncVars \in Seq(NcVar)
      BY DEF IInv, TypeOK, FileOK
    <2> QED
      BY <2>1
  <1>3. ASSUME NEW v \in DOMAIN ncVars
        PROVE  \E p \in DOMAIN obj' : obj'[p].varid = v
    <2>1. PICK p \in DOMAIN obj : obj[p].varid = v
      BY DEF FilingInv, FileVarsOK
    <2>2. IsDefined(p)
      BY <1>2, <2>1 DEF IsDefined
    <2> QED
      BY <1>0, <2>1, <2>2 DEF Framed, ObjectsFramed
  <1>4. CASE obj' = obj /\ DOMAIN ncVars' = DOMAIN ncVars
    <2>1. \A p, q \in DOMAIN obj' : IsDefined(p)' /\ obj'[p].varid = obj'[q].varid => p = q
      BY <1>4 DEF FilingInv, FileVarsOK, IsDefined
    <2> QED
      BY <1>1, <1>3, <1>4, <2>1 DEF FileVarsOK
  <1>5. CASE \E ds : NewVar(At, ds)
    <2>1. PICK a, ds : a = At /\ NewVar(a, ds)
      BY <1>5
    <2> DEFINE L == Len(ncVars) + 1
    <2>2. /\ a \in DOMAIN obj /\ OnlyVarid(a) /\ obj'[a].varid = L
          /\ DOMAIN ncVars' = DOMAIN ncVars \cup {L} /\ L \notin DOMAIN ncVars
      BY <2>1, NewVarTypes DEF NewVar
    <2> HIDE DEF L
    <2>3. ASSUME NEW p \in DOMAIN obj, IsDefined(p)
          PROVE  obj[p].varid \in DOMAIN ncVars
      BY <2>3 DEF FilingInv, FileVarsOK, FileVarOK, VarIs
    <2>4. ASSUME NEW p \in DOMAIN obj, p # a
          PROVE  /\ obj'[p].varid = obj[p].varid
                 /\ IsDefined(p) \/ obj[p].varid = 0
      BY <2>2, <2>4 DEF OnlyVarid, IsDefined
    <2>5. L # 0
      BY <1>2, <2>1, NewVarTypes DEF L
    <2>6. \A p \in DOMAIN obj : p # a => obj'[p].varid # L
      BY <2>2, <2>3, <2>4, <2>5
    <2>7. \A p, q \in DOMAIN obj' : IsDefined(p)' /\ obj'[p].varid = obj'[q].varid => p = q
      <3> SUFFICES ASSUME NEW p \in DOMAIN obj, NEW q \in DOMAIN obj,
                          obj'[p].varid # 0, obj'[p].varid = obj'[q].varid, p # q
                   PROVE  FALSE
        BY <2>2 DEF IsDefined, OnlyVarid
      <3>1. p # a /\ q # a
        BY <2>2, <2>6
      <3>2. obj[p].varid = obj[q].varid /\ obj[p].varid # 0
        BY <2>4, <3>1
      <3> QED
        BY <3>2 DEF FilingInv, FileVarsOK, IsDefined
    <2>8. \A v \in DOMAIN ncVars' : \E p \in DOMAIN obj' : obj'[p].varid = v
      BY <1>3, <2>2 DEF OnlyVarid
    <2> QED
      BY <1>1, <2>7, <2>8 DEF FileVarsOK
  <1> QED
    BY <1>4, <1>5, OtherFilings

(* How the loops of define() and write() move on.                          *)
AtEnd(i) == i = vi /\ \A k \in DOMAIN Targets(i) : k < mi
Rests == UNCHANGED <<pc, vi, mi, di, obj>>
GoesDown ==
  /\ NextDim /\ obj' = obj /\ InDefine /\ Undone /\ di \in DOMAIN obj[At].dims
  /\ DefineDim \/ SkipDefinedDim
Passes(i, k) ==
  /\ pc' = pc /\ vi' = vi /\ mi' = mi + 1 /\ di' = 1
  /\ i = vi /\ k = mi /\ i \in DOMAIN req /\ k \in DOMAIN Targets(i)
  /\ pc = "define" => Done(Targets(i)[k])'
  /\ pc = "write" => WriteData \/ obj[At].dontUse
Turns(i) ==
  /\ pc' = pc /\ vi' = vi + 1 /\ mi' = 1 /\ di' = 1 /\ obj' = obj
  /\ i \in DOMAIN req /\ AtEnd(i)
TurnsBack ==
  /\ pc = "define" /\ pc' = "write" /\ vi' = 1 /\ mi' = 1
  /\ vi > Len(req) /\ obj' = obj

(* An object that is done with is passed.                                  *)
LEMMA DoneAt ==
  ASSUME IInv, InDefine, Goto("define", vi, mi + 1), UNCHANGED <<req, held, Maps>>,
         DOMAIN obj' = DOMAIN obj,
         NEW p, p = At, Done(p)'
  PROVE  \E i, k : Passes(i, k)
  <1>1. vi \in DOMAIN req /\ mi \in DOMAIN Targets(vi) /\ pc = "define"
    BY AtTypes DEF InDefine
  <1>2. PICK i, k : i = vi /\ k = mi
    OBVIOUS
  <1>3. Targets(i)' = Targets(i)
    BY DEF Targets
  <1>4. Targets(i)[k]' = p
    BY <1>2, <1>3 DEF At
  <1>5. Done(Targets(i)[k])'
    BY <1>4 DEF Done, IsDefined
  <1> QED
    BY <1>1, <1>2, <1>5 DEF Passes, Goto

(* How the loops of define and write move.                                 *)
LEMMA FilingMoves ==
  ASSUME IInv, RegisteredOK, HoldersOK, FilingInv, pc \in {"define", "write"}, GoesOn
  PROVE  \/ Rests \/ GoesDown \/ TurnsBack
         \/ \E i : Turns(i)
         \/ \E i, k : Passes(i, k)
  <1> USE DEF Goto
  <1>0. Working /\ Working' /\ ~Refuse
    BY WorkStays DEF Refuse, ThrowAndClose, Throw, Working
  <1>1. CASE DefineDim \/ SkipDefinedDim
    <2>1. CASE DefineDim
      BY <1>1, <2>1, DefineDimTypes DEF GoesDown
    <2>2. CASE SkipDefinedDim
      <3>1. InDefine /\ Undone /\ NextDim /\ obj' = obj /\ di <= Len(obj[At].dims)
        BY <2>2 DEF SkipDefinedDim, Defining, converted
      <3>2. obj[At] \in FONcArray /\ di \in Nat \ {0}
        BY <3>1, AtTypes, ControlTypes DEF InDefine
      <3>3. di \in DOMAIN obj[At].dims
        <4>1. obj[At].dims \in Seq(Nat)
          BY <3>2 DEF FONcArray
        <4> QED
          BY <3>1, <3>2, <4>1
      <3> QED
        BY <2>2, <3>1, <3>3 DEF GoesDown
    <2> QED
      BY <1>1, <2>1, <2>2
  <1>2. ASSUME NEW ds, NewVar(At, ds)
        PROVE  \E i, k : Passes(i, k)
    <2>1. PICK p : p = At
      OBVIOUS
    <2>2. /\ InDefine /\ NextTarget /\ UNCHANGED <<req, held, Maps>> /\ DOMAIN obj' = DOMAIN obj
          /\ obj'[p].varid = Len(ncVars) + 1 /\ Len(ncVars) + 1 \in Nat \ {0}
      BY <1>2, <2>1, NewVarTypes DEF NewVar, OnlyVarid
    <2>3. Done(p)'
      BY <2>2 DEF Done, IsDefined
    <2> QED
      BY <2>1, <2>2, <2>3, DoneAt DEF NextTarget
  <1>3. CASE SkipDefined
    <2>1. PICK p : p = At
      OBVIOUS
    <2>2. InDefine /\ NextTarget /\ UNCHANGED <<req, held, Maps, obj>> /\ Done(p)
      BY <1>3, <2>1 DEF SkipDefined, Defining, converted, statics, Done
    <2>3. Done(p)'
      BY <2>2 DEF Done, IsDefined
    <2> QED
      BY <2>1, <2>2, <2>3, DoneAt DEF NextTarget
  <1>4. CASE WriteData \/ SkipWrite
    <2>1. /\ pc = "write" /\ vi <= Len(req) /\ mi <= Len(Targets(vi))
          /\ pc' = pc /\ vi' = vi /\ mi' = mi + 1 /\ di' = 1
          /\ WriteData \/ obj[At].dontUse
      BY <1>4 DEF WriteData, SkipWrite, Writing
    <2>2. vi \in DOMAIN req /\ mi \in DOMAIN Targets(vi)
      BY <2>1, AtTypes
    <2>3. PICK i, k : i = vi /\ k = mi
      OBVIOUS
    <2>4. Passes(i, k)
      BY <2>1, <2>2, <2>3 DEF Passes
    <2> QED
      BY <2>4
  <1>5. CASE DefineSequence \/ DefineNext \/ WriteNext
    <2>1. /\ vi <= Len(req) /\ pc' = pc /\ vi' = vi + 1 /\ mi' = 1 /\ di' = 1 /\ obj' = obj
      BY <1>5 DEF DefineSequence, DefineNext, WriteNext, converted
    <2>2. vi \in DOMAIN req
      BY <2>1, ControlTypes
    <2>3. CASE DefineSequence
      <3>1. req[vi].kind = "Sequence"
        BY <2>3 DEF DefineSequence, CurVar
      <3>2. held[vi] = << >>
        BY <2>2, <3>1, HeldTypes DEF HoldersOK
      <3>3. \A k \in DOMAIN Targets(vi) : k \in DOMAIN held[vi]
        BY <2>2, <3>1, TargetsAre
      <3>4. DOMAIN held[vi] = {}
        BY <3>2
      <3>5. AtEnd(vi)
        BY <3>3, <3>4 DEF AtEnd
      <3> QED
        BY <2>1, <2>2, <3>5 DEF Turns
    <2>4. CASE DefineNext \/ WriteNext
      <3>1. mi > Len(Targets(vi))
        BY <2>4 DEF DefineNext, WriteNext
      <3>2. Targets(vi) \in Seq(DOMAIN obj)
        BY <1>0, <2>2, TargetsAlive
      <3>3. mi \in Nat
        BY ControlTypes
      <3>4. AtEnd(vi)
        BY <3>1, <3>2, <3>3 DEF AtEnd
      <3> QED
        BY <2>1, <2>2, <3>4 DEF Turns
    <2> QED
      BY <1>5, <2>3, <2>4
  <1>6. CASE EndDefine
    BY <1>6 DEF EndDefine, TurnsBack, converted
  <1>7. CASE UNCHANGED vars
    BY <1>7 DEF vars, cursor, converted, Rests
  <1>8. CASE DefineScalar \/ DefineStr \/ DefineArray
    <2>1. ~Quiet /\ ~DefineDim /\ ~WriteData
      <3>1. pc = "define" /\ InDefine /\ pc' # "destroy"
        BY <1>0, <1>8 DEF DefineScalar, DefineStr, DefineArray, Defining, InDefine, Working
      <3>2. PICK ds : DefVar(At, ds) /\ mi' = mi + 1
        BY <1>0, <1>8 DEF DefineScalar, DefineStr, DefineArray, NextTarget
      <3>3. ncVars \in Seq(NcVar) /\ mi \in Nat
        BY ControlTypes DEF IInv, TypeOK, FileOK
      <3>4. ncVars' # ncVars
        BY <3>2, <3>3 DEF DefVar
      <3> QED
        BY <3>1, <3>4, DefineDimTypes DEF Quiet, WriteData, Writing
    <2> QED
      BY <1>2, <2>1, FilingSteps
  <1>9. CASE CreateFile \/ Making \/ Sizing \/ Ending \/ Moving
    <2>1. pc \in {"convert", "maps", "dims", "create"}
      BY <1>9, WhenConvert DEF Making, Sizing, Ending, Moving, Convert, CreateFile
    <2> QED
      BY <2>1
  <1> QED
    BY <1>1, <1>3, <1>4, <1>5, <1>6, <1>7, <1>8, <1>9, WorkSteps DEF Filing, Define

(* OnceOK is kept.                                                         *)
LEMMA StepOnce ==
  ASSUME IInv, RegisteredOK, HoldersOK, FilingInv, pc \in {"define", "write"}, GoesOn
  PROVE  OnceOK'
  <1> SUFFICES ASSUME pc' = "define", NEW p \in DOMAIN obj', Simple(p)', IsDefined(p)'
               PROVE  p[1] < vi' \/ (p[1] = vi' /\ mi' > 1)
    BY DEF OnceOK
  <1>1. p \in DOMAIN obj /\ Simple(p)
    BY FilingFrames, FilingStays DEF FilingInv, Framed, ObjectsFramed
  <1>2. p[1] \in Nat /\ vi \in Nat /\ mi \in Nat /\ mi > 0
    <2>1. p \in Key
      BY <1>1 DEF IInv, TypeOK, ObjectsOK
    <2>2. p[1] \in Nat
      BY <2>1, KeyParts
    <2> QED
      BY <2>2, ControlTypes DEF IInv, CursorOK
  <1>3. CASE IsDefined(p) /\ pc = "define"
    <2>1. p[1] < vi \/ (p[1] = vi /\ mi > 1)
      BY <1>1, <1>3 DEF FilingInv, OnceOK
    <2>2. \/ vi' = vi /\ mi' = mi
          \/ vi' = vi /\ mi' = mi + 1
          \/ vi' = vi + 1
      BY FilingMoves DEF Rests, GoesDown, NextDim, TurnsBack, Turns, Passes
    <2> QED
      BY <1>2, <2>1, <2>2
  <1>4. CASE ~IsDefined(p)
    <2>1. obj' # obj
      BY <1>4 DEF IsDefined
    <2>2. PICK ds : NewVar(At, ds)
      BY <2>1, OtherFilings
    <2>3. p = At /\ InDefine /\ NextTarget
      <3>1. OnlyVarid(At)
        BY <2>2, NewVarTypes
      <3> QED
        BY <1>1, <1>4, <2>2, <3>1 DEF OnlyVarid, IsDefined, NewVar
    <2>4. p = <<vi, 0>>
      <3>1. vi \in DOMAIN req /\ mi \in DOMAIN Targets(vi)
        BY <2>3, AtTypes DEF InDefine
      <3> QED
        BY <1>1, <2>3, <3>1, SimpleTarget DEF At
    <2> QED
      BY <1>2, <2>3, <2>4 DEF NextTarget, Goto
  <1>5. pc = "define"
    <2>1. CASE pc = "write"
      BY <2>1, FilingMoves DEF Rests, GoesDown, NextDim, TurnsBack, Turns, Passes
    <2> QED
      BY <2>1
  <1> QED
    BY <1>3, <1>4, <1>5

(* AtDimsOK is kept.                                                       *)
LEMMA StepAtDims ==
  ASSUME IInv, RegisteredOK, HoldersOK, FilingInv, pc \in {"define", "write"}, GoesOn
  PROVE  AtDimsOK'
  <1>0. Framed
    BY FilingFrames DEF FilingInv
  <1> SUFFICES ASSUME InDefine', NEW p, p = At', NEW k \in DOMAIN obj'[p].dims, k < di'
               PROVE  FileDim(p, k)' # 0
    BY DEF AtDimsOK, FileDim
  <1>1. p \in DOMAIN obj' /\ p \in DOMAIN obj
    <2>1. IInv'
      BY StepIInv, WorkStays
    <2> QED
      BY <1>0, <2>1, AtStaysAlive DEF AtAlive, Framed, ObjectsFramed
  <1>2. obj'[p].dims = obj[p].dims /\ obj[p].dims \in Seq(Nat)
    BY <1>0, <1>1 DEF Framed, ObjectsFramed, IInv, TypeOK, ObjectsOK, FONcArray
  <1>3. di' # 1 /\ k \in Nat \ {0}
    <2>1. k \in Nat \ {0}
      BY <1>2
    <2> QED
      BY <2>1
  <1>4. ASSUME FileDim(p, k) # 0
        PROVE  FileDim(p, k)' # 0
    <2>1. obj[p].dims[k] \in DOMAIN Dimensions
      BY <1>1, <1>2 DEF IInv, TypeOK, PointersOK
    <2> QED
      BY <1>0, <1>2, <1>4, <2>1 DEF Framed, DimsFramed, FileDim
  <1>5. pc' = "define" /\ pc = "define"
    BY FilingMoves DEF InDefine, Rests, GoesDown, NextDim, TurnsBack, Turns, Passes
  <1>6. CASE Rests \/ GoesDown
    <2>1. vi' = vi /\ mi' = mi
      BY <1>6 DEF Rests, GoesDown, NextDim
    <2>2. p = At
      BY <1>0, <2>1 DEF At, Targets, Framed, ObjectsFramed
    <2>3. InDefine
      BY <1>0, <1>5, <2>1 DEF InDefine, Targets, Framed, ObjectsFramed
    <2>4. CASE k < di
      BY <1>2, <1>4, <2>2, <2>3, <2>4 DEF FilingInv, AtDimsOK
    <2>5. CASE ~(k < di)
      <3>1. GoesDown /\ di' = di + 1 /\ di \in Nat
        BY <1>6, <2>5, ControlTypes DEF Rests, GoesDown, NextDim
      <3>2. k = di
        BY <1>3, <2>5, <3>1
      <3>3. CASE SkipDefinedDim
        BY <1>4, <2>2, <3>2, <3>3 DEF SkipDefinedDim, CurDim, FileDim
      <3>4. CASE DefineDim
        <4>1. Dimensions'[CurDim].dimid # 0
          BY <3>4, DefineDimTypes
        <4>2. CurDim = obj[p].dims[k]
          BY <2>2, <3>2 DEF CurDim
        <4> QED
          BY <1>2, <4>1, <4>2 DEF FileDim
      <3> QED
        BY <3>1, <3>3, <3>4 DEF GoesDown
    <2> QED
      BY <2>4, <2>5
  <1> QED
    BY <1>3, <1>5, <1>6, FilingMoves DEF TurnsBack, Turns, Passes

(* DefinedOK is kept.                                                      *)
LEMMA StepDefined ==
  ASSUME IInv, RegisteredOK, HoldersOK, FilingInv, pc \in {"define", "write"}, GoesOn
  PROVE  DefinedOK'
  <1>0. Framed /\ Working
    BY FilingFrames, WorkStays DEF FilingInv
  <1>1. req' = req
    BY <1>0 DEF Framed, ObjectsFramed
  <1> SUFFICES ASSUME NEW i \in DOMAIN req, NEW k \in DOMAIN Targets(i), pc' = "define" => Passed(i, k)'
               PROVE  Done(Targets(i)[k])'
    <2>1. \A i : Targets(i)' = Targets(i)
      BY FilingStays DEF FilingInv
    <2> QED
      BY <1>1, <2>1 DEF DefinedOK
  <1>2. PICK p : p = Targets(i)[k]
    OBVIOUS
  <1>3. i \in Nat \ {0} /\ k \in Nat \ {0} /\ p \in DOMAIN obj /\ vi \in Nat /\ mi \in Nat
    BY <1>0, <1>2, TargetIs, ControlTypes
  <1>4. Targets(i)[k]' = p
    <2>1. Targets(i)' = Targets(i)
      BY FilingStays DEF FilingInv
    <2> QED
      BY <1>2, <2>1
  <1>5. ASSUME Done(p)
        PROVE  Done(Targets(i)[k])'
    <2>1. Done(p)'
      BY <1>0, <1>3, <1>5, FilingStays DEF FilingInv, Done, Framed, ObjectsFramed
    <2> QED
      BY <1>4, <2>1 DEF Done, IsDefined
  <1>6. CASE pc = "write" \/ Passed(i, k)
    BY <1>2, <1>5, <1>6 DEF FilingInv, DefinedOK
  <1>7. CASE pc = "define" /\ ~Passed(i, k)
    <2>1. CASE pc' = "define"
      <3>1. Passed(i, k)'
        BY <2>1
      <3>2. ~Rests /\ ~GoesDown
        BY <1>7, <3>1 DEF Rests, GoesDown, NextDim, Passed
      <3>3. ASSUME NEW j, Turns(j)
            PROVE  FALSE
        <4>1. i = vi
          BY <1>3, <1>7, <3>1, <3>3 DEF Turns, Passed
        <4> QED
          BY <1>7, <3>3, <4>1 DEF Turns, AtEnd, Passed
      <3>4. ASSUME NEW j, NEW n, Passes(j, n)
            PROVE  Done(Targets(i)[k])'
        <4>1. i = vi /\ k = mi
          BY <1>3, <1>7, <3>1, <3>4 DEF Passes, Passed
        <4>2. i = j /\ k = n
          BY <3>4, <4>1 DEF Passes
        <4> QED
          BY <1>7, <3>4, <4>2 DEF Passes
      <3> QED
        BY <2>1, <3>2, <3>3, <3>4, FilingMoves DEF TurnsBack
    <2>2. CASE pc' # "define"
      <3>1. TurnsBack
        BY <1>7, <2>2, FilingMoves DEF Rests, GoesDown, NextDim, Turns, Passes
      <3>2. vi > Len(req) /\ req \in Seq(Var)
        BY <3>1, ControlTypes DEF TurnsBack
      <3>3. i < vi
        BY <1>3, <3>2
      <3> QED
        BY <1>7, <3>3 DEF Passed
    <2> QED
      BY <2>1, <2>2
  <1> QED
    BY <1>6, <1>7

(* WrittenOK is kept.                                                      *)
LEMMA StepWritten ==
  ASSUME IInv, RegisteredOK, HoldersOK, FilingInv, pc \in {"define", "write"}, GoesOn
  PROVE  WrittenOK'
  <1>0. Framed /\ Working
    BY FilingFrames, WorkStays DEF FilingInv
  <1>1. req' = req
    BY <1>0 DEF Framed, ObjectsFramed
  <1> SUFFICES ASSUME pc' = "write", NEW i \in DOMAIN req, NEW k \in DOMAIN Targets(i), Passed(i, k)'
               PROVE  Written(Targets(i)[k])'
    <2>1. \A i : Targets(i)' = Targets(i)
      BY FilingStays DEF FilingInv
    <2> QED
      BY <1>1, <2>1 DEF WrittenOK
  <1>2. PICK p : p = Targets(i)[k]
    OBVIOUS
  <1>3. i \in Nat \ {0} /\ k \in Nat \ {0} /\ p \in DOMAIN obj /\ vi \in Nat /\ mi \in Nat
    BY <1>0, <1>2, TargetIs, ControlTypes
  <1>4. ~TurnsBack
    BY <1>3 DEF TurnsBack, Passed
  <1>5. pc = "write"
    BY <1>4, FilingMoves DEF Rests, GoesDown, NextDim, Turns, Passes
  <1>6. obj' = obj
    <2>1. ~\E ds : NewVar(At, ds)
      BY <1>5 DEF NewVar
    <2> QED
      BY <2>1, OtherFilings
  <1>7. ASSUME ~obj[p].dontUse
        PROVE  IsDefined(p) /\ obj[p].varid \in DOMAIN ncVars
    <2>1. Done(p)
      BY <1>2, <1>5 DEF FilingInv, DefinedOK
    <2>2. IsDefined(p)
      BY <1>7, <2>1 DEF Done
    <2> QED
      BY <1>3, <2>2 DEF FilingInv, FileVarsOK, FileVarOK, VarIs
  <1>8. ASSUME obj[p].dontUse \/ ncVars'[obj[p].varid].data = p
        PROVE  Written(Targets(i)[k])'
    <2>1. Targets(i)[k]' = p
      <3>1. Targets(i)' = Targets(i)
        BY FilingStays DEF FilingInv
      <3> QED
        BY <1>2, <3>1
    <2> QED
      BY <1>6, <1>8, <2>1 DEF Written
  <1>9. CASE Passed(i, k)
    <2>1. Written(p)
      BY <1>2, <1>5, <1>9 DEF FilingInv, WrittenOK
    <2>2. CASE obj[p].dontUse
      BY <1>8, <2>2
    <2>3. CASE ~obj[p].dontUse /\ WriteData
      <3>1. At \in DOMAIN obj
        BY <2>3, WriteDataTypes
      <3>2. obj[p].varid = obj[At].varid => p = At
        BY <1>3, <1>7, <2>3, <3>1 DEF FilingInv, FileVarsOK
      <3>3. obj[p].varid = obj[At].varid => ncVars'[obj[p].varid].data = At
        BY <1>7, <2>3, WriteDataTypes
      <3>4. obj[p].varid # obj[At].varid => ncVars'[obj[p].varid] = ncVars[obj[p].varid]
        BY <1>7, <2>3, WriteDataTypes
      <3> QED
        BY <1>8, <2>1, <2>3, <3>2, <3>3, <3>4 DEF Written
    <2>4. CASE ~obj[p].dontUse /\ ~WriteData
      <3>1. ncVars'[obj[p].varid] = ncVars[obj[p].varid]
        BY <1>7, <2>4, OtherFilings
      <3> QED
        BY <1>8, <2>1, <2>4, <3>1 DEF Written
    <2> QED
      BY <2>2, <2>3, <2>4
  <1>10. CASE ~Passed(i, k)
    <2>1. ~Rests /\ ~GoesDown
      BY <1>5, <1>10 DEF Rests, GoesDown, NextDim, Passed, InDefine
    <2>2. ASSUME NEW j, Turns(j)
          PROVE  FALSE
      <3>1. i = vi
        BY <1>3, <1>10, <2>2 DEF Turns, Passed
      <3> QED
        BY <1>10, <2>2, <3>1 DEF Turns, AtEnd, Passed
    <2>3. PICK j, n : Passes(j, n)
      BY <1>4, <2>1, <2>2, FilingMoves
    <2>4. i = vi /\ k = mi
      BY <1>3, <1>10, <2>3 DEF Passes, Passed
    <2>5. p = At
      BY <1>2, <2>4 DEF At
    <2>6. WriteData \/ obj[p].dontUse
      BY <1>5, <2>3, <2>5 DEF Passes
    <2>7. CASE obj[p].dontUse
      BY <1>8, <2>7
    <2>8. CASE ~obj[p].dontUse /\ WriteData
      BY <1>7, <1>8, <2>5, <2>8, WriteDataTypes
    <2> QED
      BY <2>6, <2>7, <2>8
  <1> QED
    BY <1>9, <1>10

(* FilingInv is kept.                                                      *)
LEMMA StepFiling ==
  ASSUME IInv, RegisteredOK, HoldersOK, NamesOK, FilingInv, pc \in {"define", "write"}, GoesOn
  PROVE  FilingInv'
  <1>1. FileDimsOK' /\ FileVarsOK'
    BY StepFileDims, StepFileVars
  <1>2. OnceOK' /\ AtDimsOK' /\ DefinedOK' /\ WrittenOK'
    BY StepOnce, StepAtDims, StepDefined, StepWritten
  <1> QED
    BY <1>1, <1>2 DEF FilingInv

(* From conversion to define mode, and from there to data mode.            *)
LEMMA IntoFiling ==
  ASSUME IInv, GoesOn, pc' \in {"define", "write"}, pc \notin {"define", "write"}
  PROVE  CreateFile
  <1>1. Working
    BY WorkStays
  <1>2. pc = "create" \/ Early
    BY <1>1 DEF Working, Early
  <1>3. CASE Making \/ Sizing \/ Ending
    BY <1>3 DEF Making, Sizing, Ending, ConvertSimple, ConvertArray, ConvertMap, ConvertGridArray, StartArray,
                ShareDim, NewDimension, ShareLength, NewLength, AtLength, NextDim,
                RegisterCoordinate, DropCoordinate, ArrayDone, MapDone, GridArrayDone, GridConverted, Goto
  <1>4. CASE Moving
    BY <1>4 DEF Moving, SkipUnsent, ConvertGrid, EndConvert, SkipMap, ShareMap, SkipGridArray, GridConverted, Goto
  <1>5. CASE Filing
    <2>1. pc = "create" /\ Define
      BY <1>1, <1>5, WhenDefine DEF Filing, WriteData, SkipWrite, WriteNext, Writing
    <2> QED
      BY <2>1 DEF Define, DefineScalar, DefineStr, DefineSequence, SkipDefined, DefineDim, SkipDefinedDim,
                  DefineArray, DefineNext, EndDefine, Defining, InDefine
  <1>6. CASE UNCHANGED vars
    BY <1>6 DEF vars
  <1> QED
    BY <1>3, <1>4, <1>5, <1>6, WorkSteps

(* The file is empty until define mode; from then on it has the dimensions *)
(* and variables of the objects that define() has been through, with the   *)
(* sizes, types and dimensions these have and the data of those that       *)
(* write() has been through.                                               *)
Filed == Working => FileInvs

(* The file is as far as the loops are, after every step.                  *)
LEMMA StepFiled ==
  ASSUME IInv, ObjInv, Sourced, Filed, [Next]_vars, Working'
  PROVE  FileInvs'
  <1>1. CASE \E r \in Requests : Begin(r)
    <2>1. /\ obj' = << >> /\ Dimensions' = << >> /\ pc' = "convert" /\ ncDims' = << >> /\ ncVars' = << >>
          /\ DimNameNum' = 0
      BY <1>1 DEF Begin, ResetStatics, Goto
    <2> QED
      BY <2>1 DEF FileInvs, Blank
  <1>2. CASE ~\E r \in Requests : Begin(r)
    <2>1. GoesOn /\ Working
      BY <1>2, WorkStays DEF GoesOn
    <2>2. SendingOK /\ NamesOK /\ RegisteredOK /\ HoldersOK /\ FileInvs
      BY <2>1 DEF Sourced, SourceInv, Filed
    <2>3. Early' => Blank'
      BY <2>1, <2>2, StepBlank DEF FileInvs
    <2>4. pc' \in {"define", "write"} => FilingInv'
      <3>1. CASE pc \in {"define", "write"}
        BY <2>1, <2>2, <3>1, StepFiling DEF FileInvs
      <3>2. CASE pc \notin {"define", "write"} /\ pc' \in {"define", "write"}
        <4>1. CreateFile
          BY <2>1, <3>2, IntoFiling
        <4>2. Early
          BY <4>1 DEF CreateFile, Early
        <4> QED
          BY <2>2, <4>1, <4>2, CreateFiling DEF FileInvs
      <3> QED
        BY <3>1, <3>2
    <2> QED
      BY <2>3, <2>4 DEF FileInvs
  <1> QED
    BY <1>1, <1>2

(* While a response is worked on: nothing is in the file before define;    *)
(* then what the loops have passed is defined, with its dimensions, and    *)
(* what they have written is there (FONcTransform::transform, the define   *)
(* and write methods).                                                     *)
THEOREM FilesKnown ==
  ASSUME Standalone, OneDimMaps
  PROVE  Spec => []Filed
  <1>1. Init => Filed
    BY DEF Init, Filed, Working
  <1>2. IInv /\ ObjInv /\ Sourced /\ Filed /\ [Next]_vars => Filed'
    BY StepFiled DEF Filed
  <1>3. Spec => []Sourced
    BY SourcesKnown
  <1> QED
    BY <1>1, <1>2, <1>3, Invariance, ObjectsKnown, PTL DEF Spec

---------------------------------------------------------------------------
(* A file that is delivered.                                               *)

NcEntry(v) ==
  [name |-> ncVars[v].name, type |-> ncVars[v].type,
   shape |-> [k \in DOMAIN ncVars[v].dims |-> ncDims[ncVars[v].dims[k]]],
   val |-> ArrOf(req, ncVars[v].data).val]

(* All dimensions of the array p are in the file as p needs them.          *)
ShapeOf(v) == [k \in DOMAIN ncVars[v].dims |-> ncDims[ncVars[v].dims[k]]]
ShapeIs(s, p) ==
  LET a == ArrOf(req, p)
      n == IF NcTypeOf(p) = "CHAR" THEN 1 ELSE 0
  IN /\ Len(s) = Len(a.dims) + n
     /\ \A k \in DOMAIN a.dims : s[k].size = a.dims[k].size
     /\ n = 1 => s[Len(s)].size >= a.len

(* The shape of a variable.                                                *)
LEMMA ShapeSeq ==
  ASSUME IInv, NEW v \in DOMAIN ncVars
  PROVE  /\ ncVars[v].dims \in Seq(Nat) /\ DOMAIN ShapeOf(v) = DOMAIN ncVars[v].dims
         /\ Len(ShapeOf(v)) = Len(ncVars[v].dims)
         /\ \A k \in DOMAIN ncVars[v].dims : ShapeOf(v)[k] = ncDims[ncVars[v].dims[k]]
  <1>1. ncVars[v] \in NcVar
    BY DEF IInv, TypeOK, FileOK
  <1> DEFINE ds == ncVars[v].dims
  <1>2. ds \in Seq(Nat)
    BY <1>1 DEF NcVar
  <1>3. ShapeOf(v) = [k \in DOMAIN ds |-> ncDims[ds[k]]]
    BY DEF ShapeOf
  <1> HIDE DEF ds
  <1>4. DOMAIN ds = 1..Len(ds) /\ Len(ds) \in Nat
    BY <1>2
  <1>5. DOMAIN ShapeOf(v) = DOMAIN ds /\ Len(ShapeOf(v)) = Len(ds)
    BY <1>3, <1>4
  <1> QED
    BY <1>2, <1>3, <1>5 DEF ds

(* Short sequences by their domains.                                       *)
LEMMA ShortSeq ==
  ASSUME NEW s \in Seq(Nat)
  PROVE  /\ DOMAIN s = {} => Len(s) = 0
         /\ DOMAIN s = {1} => Len(s) = 1
  <1>1. DOMAIN s = 1..Len(s) /\ Len(s) \in Nat
    OBVIOUS
  <1>2. Len(s) > 0 => 1 \in DOMAIN s
    BY <1>1
  <1>3. Len(s) > 1 => 2 \in DOMAIN s
    BY <1>1
  <1>4. 1 \in DOMAIN s => Len(s) > 0
    BY <1>1
  <1> QED
    BY <1>1, <1>2, <1>3, <1>4

(* A simple variable has the shape of the response.                        *)
LEMMA SimpleShape ==
  ASSUME IInv, ReqOK, NamesOK, FilingInv, SimpleVars, NEW p \in DOMAIN obj, IsDefined(p), Simple(p)
  PROVE  ShapeIs(ShapeOf(obj[p].varid), p)
  <1> DEFINE v == obj[p].varid
             a == ArrOf(req, p)
  <1>1. v \in DOMAIN ncVars /\ VarDims(p, ncVars[v].dims)
    BY DEF FilingInv, FileVarsOK, FileVarOK, VarIs
  <1>2. /\ KindOf(p) \in {"Scalar", "Str"} /\ p[1] \in DOMAIN req /\ req \in Requests
        /\ a \in Arr /\ p \in Key /\ SentKey(p)
    BY ObjectsAre DEF ReqOK, Simple
  <1>3. a = req[p[1]].main
    <2>1. p[2] \in Nat
      BY <1>2, KeyParts
    <2>2. p[2] = 0
      BY <1>2, <2>1 DEF SentKey
    <2> QED
      BY <2>2 DEF ArrOf
  <1>4. a.dims = << >> /\ (KindOf(p) = "Str" <=> a.type \in {"String", "Url"})
    BY <1>2, <1>3 DEF SimpleVars, KindOf
  <1>5. a.type \in DapTypes /\ a.len \in Nat
    BY <1>2 DEF Arr
  <1>6. NcTypeOf(p) = scalar_type(a.type)
    BY <1>2 DEF NcTypeOf, KindOf
  <1>7. NcTypeOf(p) = "CHAR" <=> KindOf(p) = "Str"
    BY <1>4, <1>5, <1>6 DEF scalar_type, DapTypes
  <1>8. /\ ncVars[v].dims \in Seq(Nat) /\ Len(ShapeOf(v)) = Len(ncVars[v].dims)
        /\ \A k \in DOMAIN ncVars[v].dims : ShapeOf(v)[k] = ncDims[ncVars[v].dims[k]]
    BY <1>1, ShapeSeq
  <1>9. Len(a.dims) = 0 /\ DOMAIN a.dims = {}
    BY <1>4
  <1> HIDE DEF v, a
  <1>10. CASE KindOf(p) = "Str"
    <2>1. DOMAIN ncVars[v].dims = {1} /\ ncDims[ncVars[v].dims[1]].size = a.len
      BY <1>1, <1>10 DEF VarDims, a
    <2>2. Len(ncVars[v].dims) = 1
      BY <1>8, <2>1, ShortSeq
    <2>3. Len(ShapeOf(v)) = 1 /\ ShapeOf(v)[1].size = a.len
      BY <1>8, <2>1, <2>2
    <2> QED
      BY <1>5, <1>7, <1>9, <1>10, <2>3 DEF ShapeIs, a, v
  <1>11. CASE KindOf(p) = "Scalar"
    <2>1. DOMAIN ncVars[v].dims = {}
      BY <1>1, <1>11 DEF VarDims
    <2>2. Len(ncVars[v].dims) = 0
      BY <1>8, <2>1, ShortSeq
    <2> QED
      BY <1>7, <1>8, <1>9, <1>11, <2>2 DEF ShapeIs, a, v
  <1> QED
    BY <1>2, <1>10, <1>11

(* And so does an array.                                                   *)
LEMMA ArrayShape ==
  ASSUME IInv, NamesOK, MeasureInv, FilingInv, pc = "write",
         NEW p \in DOMAIN obj, IsDefined(p), IsArrayKey(p)
  PROVE  ShapeIs(ShapeOf(obj[p].varid), p)
  <1> DEFINE v == obj[p].varid
             a == ArrOf(req, p)
  <1>1. v \in DOMAIN ncVars /\ VarDims(p, ncVars[v].dims)
    BY DEF FilingInv, FileVarsOK, FileVarOK, VarIs
  <1>2. a \in Arr /\ obj[p] \in FONcArray
    BY ObjectsAre
  <1>3. a.dims \in Seq(Dim) /\ Len(a.dims) \in Nat /\ DOMAIN a.dims = 1..Len(a.dims) /\ a.len \in Nat
    BY <1>2 DEF Arr
  <1>4. obj[p].dims \in Seq(Nat) /\ Len(obj[p].dims) = Len(a.dims) + Extra(p)
    BY <1>2 DEF MeasureInv, LengthsOK, LengthOK, Unfinished, FONcArray
  <1>5. /\ DOMAIN ncVars[v].dims = DOMAIN obj[p].dims
        /\ \A k \in DOMAIN obj[p].dims : ncVars[v].dims[k] = FileDim(p, k) /\ FileDim(p, k) # 0
    BY <1>1 DEF VarDims
  <1>6. /\ ncVars[v].dims \in Seq(Nat) /\ Len(ShapeOf(v)) = Len(ncVars[v].dims)
        /\ \A k \in DOMAIN ncVars[v].dims : ShapeOf(v)[k] = ncDims[ncVars[v].dims[k]]
    BY <1>1, ShapeSeq
  <1>7. Len(ncVars[v].dims) = Len(obj[p].dims)
    BY <1>4, <1>5, <1>6
  <1> HIDE DEF v
  <1>8. ASSUME NEW k \in DOMAIN obj[p].dims
        PROVE  Fits(p, k, ShapeOf(v)[k].size)
    <2>1. obj[p].dims[k] \in DOMAIN Dimensions
      BY DEF IInv, TypeOK, PointersOK
    <2>2. ncDims[FileDim(p, k)].size = Dimensions[obj[p].dims[k]].size
      BY <1>5, <2>1 DEF FilingInv, FileDimsOK, FileDimOK, FileDim
    <2>3. ShapeOf(v)[k] = ncDims[FileDim(p, k)]
      BY <1>5, <1>6
    <2>4. Fits(p, k, Dimensions[obj[p].dims[k]].size)
      BY DEF MeasureInv, SlotsOK, SlotOK, DimOK
    <2> QED
      BY <2>2, <2>3, <2>4
  <1>9. Extra(p) = IF NcTypeOf(p) = "CHAR" THEN 1 ELSE 0
    BY TextArrays DEF Extra
  <1>10. Len(ShapeOf(v)) = Len(a.dims) + Extra(p)
    BY <1>4, <1>6, <1>7
  <1>11. ASSUME NEW k \in DOMAIN a.dims
         PROVE  ShapeOf(v)[k].size = a.dims[k].size
    <2>1. k \in 1..Len(a.dims)
      BY <1>3
    <2>2. k \in DOMAIN obj[p].dims /\ ~(k > Len(a.dims))
      <3>1. DOMAIN obj[p].dims = 1..Len(obj[p].dims)
        BY <1>4
      <3>2. Extra(p) \in {0, 1}
        BY DEF Extra
      <3> HIDE DEF a
      <3> QED
        BY <1>3, <1>4, <2>1, <3>1, <3>2
    <2> QED
      BY <1>8, <2>2 DEF Fits, ForStrings, SizeOf
  <1>12. ASSUME Extra(p) = 1
         PROVE  ShapeOf(v)[Len(ShapeOf(v))].size >= a.len
    <2> DEFINE k == Len(a.dims) + 1
    <2>1. k \in DOMAIN obj[p].dims /\ k > Len(a.dims) /\ k = Len(ShapeOf(v))
      <3>1. DOMAIN obj[p].dims = 1..Len(obj[p].dims)
        BY <1>4
      <3> HIDE DEF a
      <3> QED
        BY <1>3, <1>4, <1>10, <1>12, <3>1
    <2> HIDE DEF k
    <2>2. Fits(p, k, ShapeOf(v)[k].size)
      BY <1>8, <2>1
    <2> QED
      BY <2>1, <2>2 DEF Fits, ForStrings, SizeOf
  <1> QED
    BY <1>9, <1>10, <1>11, <1>12 DEF ShapeIs, v

(* The variable in the file for an object holds all of it.                 *)
LEMMA HeldWhole ==
  ASSUME IInv, ReqOK, NamesOK, MeasureInv, FilingInv, SimpleVars, pc = "write",
         NEW p \in DOMAIN obj, IsDefined(p), NEW v, v = obj[p].varid, ncVars[v].data = p
  PROVE  /\ p \in Stored /\ NcEntry(v) \in NcFile /\ NcEntry(v).name = Response!FileName(req, p)
         /\ Response!Represents(req, NcEntry(v), p)
         /\ ShapeIs(NcEntry(v).shape, p) /\ NcEntry(v).val = ArrOf(req, p).val
         /\ NcEntry(v).type = NcTypeOf(p)
  <1>1. /\ IsArrayKey(p) \/ Simple(p)
        /\ v \in DOMAIN ncVars /\ ncVars[v].name = NameOf(p) /\ ncVars[v].type = NcTypeOf(p)
    BY DEF FilingInv, FileVarsOK, FileVarOK, VarIs
  <1>2. p \in Stored /\ p[1] \in DOMAIN req /\ req \in Seq(Var)
    BY <1>1, ObjectsAre, ControlTypes DEF IsArrayKey, Simple
  <1>3. ShapeIs(ShapeOf(v), p)
    BY <1>1, SimpleShape, ArrayShape
  <1>4. p # NoKey
    <2>1. p[1] # 0
      BY <1>2
    <2> QED
      BY <2>1 DEF NoKey
  <1>5. NcEntry(v) \in NcFile
    BY <1>1, <1>4 DEF NcFile, NcEntry
  <1>6. /\ NcEntry(v).name = NameOf(p) /\ NcEntry(v).type = NcTypeOf(p) /\ NcEntry(v).shape = ShapeOf(v)
        /\ NcEntry(v).val = ArrOf(req, p).val
    BY <1>1 DEF NcEntry, ShapeOf
  <1>7. Response!Represents(req, NcEntry(v), p)
    BY <1>3, <1>6, ResponseArrays DEF Response!Represents, ShapeIs
  <1> QED
    BY <1>2, <1>3, <1>5, <1>6, <1>7, ResponseArrays

(* Everything that has an object and is used is a target of write().       *)
LEMMA TargetOf ==
  ASSUME IInv, NamesOK, RegisteredOK, HoldersOK, pc \in {"define", "write"},
         NEW p \in DOMAIN obj, ~obj[p].dontUse, KindOf(p) # "Sequence"
  PROVE  \E i \in DOMAIN req : \E k \in DOMAIN Targets(i) : Targets(i)[k] = p
  <1>1. /\ p \in Key /\ ValidKey(p) /\ SentKey(p) /\ p[1] \in DOMAIN req
        /\ p = <<p[1], p[2]>> /\ p[2] \in Nat
    BY ObjectsAre, KeyParts
  <1>2. CASE p[2] = 0
    <2>1. <<p[1], 0>> \in DOMAIN obj /\ req[p[1]].kind # "Sequence"
      BY <1>1, <1>2 DEF KindOf
    <2>2. Len(held[p[1]]) + 1 \in DOMAIN Targets(p[1]) /\ Targets(p[1])[Len(held[p[1]]) + 1] = <<p[1], 0>>
      BY <1>1, <2>1, TargetsAre
    <2>3. Targets(p[1])[Len(held[p[1]]) + 1] = p
      BY <1>1, <1>2, <2>2
    <2> QED
      BY <1>1, <2>2, <2>3
  <1>3. CASE p[2] > 0
    <2>1. MayServe(p)
      BY <1>1, <1>3 DEF MayServe, SentKey, IsArrayKey
    <2>2. Registered(p)
      BY <2>1 DEF RegisteredOK, Unfinished
    <2>3. PICK m \in DOMAIN Maps : Maps[m].arr = p
      BY <2>2 DEF Registered
    <2>4. PICK k \in DOMAIN held[p[1]] : held[p[1]][k] = m
      BY <1>3, <2>3 DEF HoldersOK
    <2>5. k \in DOMAIN Targets(p[1]) /\ Targets(p[1])[k] = p
      BY <1>1, <2>3, <2>4, TargetsAre
    <2> QED
      BY <1>1, <2>5
  <1> QED
    BY <1>1, <1>2, <1>3

Ready == pc = "write" /\ vi > Len(req)

(* In the end everything that is used is defined and written.              *)
LEMMA ReadyWritten ==
  ASSUME IInv, NamesOK, RegisteredOK, HoldersOK, FilingInv, Ready,
         NEW p \in DOMAIN obj, ~obj[p].dontUse, KindOf(p) # "Sequence"
  PROVE  IsDefined(p) /\ ncVars[obj[p].varid].data = p
  <1>1. PICK i \in DOMAIN req : \E k \in DOMAIN Targets(i) : Targets(i)[k] = p
    BY TargetOf DEF Ready
  <1>2. PICK k \in DOMAIN Targets(i) : Targets(i)[k] = p
    BY <1>1
  <1>3. i < vi
    <2>1. req \in Seq(Var) /\ vi \in Nat
      BY ControlTypes
    <2> QED
      BY <2>1 DEF Ready
  <1>4. Passed(i, k)
    BY <1>3 DEF Passed
  <1>5. Done(p) /\ Written(p)
    BY <1>2, <1>4 DEF Ready, FilingInv, DefinedOK, WrittenOK
  <1> QED
    BY <1>5 DEF Done, Written

(* An equal map stands for another in the words of FONcResponse.           *)
LEMMA ServesAre ==
  ASSUME NEW p, NEW q, MayServe(p), MayServe(q), EqualData(q, p)
  PROVE  Response!StandsFor(req, q, p)
  <1>1. \A r : Response!Candidate(req, r) <=> MayServe(r)
    BY ResponseArrays DEF Response!Candidate, Response!IsCoordinate, MayServe, IsCoordinate, KindOf
  <1>2. Response!SameData(Response!ArrOf(req, q), Response!ArrOf(req, p))
    BY ResponseArrays DEF EqualData, SameData, Response!SameData
  <1> QED
    BY <1>1, <1>2 DEF Response!StandsFor

(* When all is written, the file is complete.                              *)
LEMMA DeliversAll ==
  ASSUME IInv, ReqOK, UsableOK, SourceInv, MeasureInv, FilingInv, SimpleVars, EqualLengths, Ready
  PROVE  Response!Complete(req, NcFile)
  <1> USE DEF SourceInv
  <1>0. /\ pc = "write" /\ Working /\ req \in Seq(Var)
    BY ControlTypes DEF Ready, Working
  <1>1. Stored \subseteq Key
    <2>1. req \in Seq(Var)
      BY <1>0
    <2>2. \A i \in DOMAIN req : i \in Nat /\ DOMAIN req[i].maps \subseteq Nat
      <3>1. \A i \in DOMAIN req : i \in Nat /\ req[i] \in Var
        BY <2>1
      <3>2. \A i \in DOMAIN req : req[i].maps \in Seq(Arr)
        BY <3>1 DEF Var
      <3> QED
        BY <3>1, <3>2
    <2> QED
      BY <2>2 DEF Stored, Response!Stored, Response!Sources, Key
  <1> SUFFICES ASSUME NEW p \in Stored
               PROVE  \E f \in NcFile :
                        /\ Response!Represents(req, f, p)
                        /\ \/ f.name = Response!FileName(req, p)
                           \/ \E q \in Stored : Response!StandsFor(req, q, p) /\ f.name = Response!FileName(req, q)
    BY DEF Response!Complete, Stored
  <1>2. p \in Key /\ ValidKey(p) /\ SentKey(p) /\ KindOf(p) \notin {"Sequence", "Unknown"}
    BY <1>0, <1>1, StoredAre
  <1>3. Served(p)
    BY <1>0, <1>2 DEF ServedOK, Behind
  <1>4. CASE p \in DOMAIN obj /\ ~obj[p].dontUse
    <2>1. IsDefined(p) /\ ncVars[obj[p].varid].data = p
      BY <1>2, <1>4, ReadyWritten
    <2> QED
      BY <1>0, <1>4, <2>1, HeldWhole
  <1>5. CASE ~(p \in DOMAIN obj /\ ~obj[p].dontUse)
    <2>1. Equalled(p) /\ MayServe(p)
      <3>1. CASE p \in DOMAIN obj
        BY <1>5, <3>1 DEF RegisteredOK
      <3>2. CASE p \notin DOMAIN obj
        BY <1>2, <1>3, <3>2 DEF Served, MayServe, SentKey, IsArrayKey
      <3> QED
        BY <3>1, <3>2
    <2>2. PICK m \in DOMAIN Maps : EqualData(Maps[m].arr, p)
      BY <2>1 DEF Equalled
    <2> DEFINE q == Maps[m].arr
    <2>3. q \in DOMAIN obj /\ ~obj[q].dontUse
      BY <1>0 DEF IInv, KeysOK, UsableOK
    <2>4. MayServe(q)
      BY DEF RegisteredOK, ServingOK, Registered
    <2>5. EqualData(q, p)
      BY <2>2
    <2> HIDE DEF q
    <2>6. KindOf(q) # "Sequence" /\ IsArrayKey(q) /\ IsArrayKey(p)
      BY <2>1, <2>4 DEF MayServe, IsArrayKey
    <2>7. IsDefined(q) /\ ncVars[obj[q].varid].data = q
      BY <2>3, <2>6, ReadyWritten
    <2> DEFINE f == NcEntry(obj[q].varid)
    <2>8. /\ q \in Stored /\ f \in NcFile /\ f.name = Response!FileName(req, q)
          /\ ShapeIs(f.shape, q) /\ f.val = ArrOf(req, q).val /\ f.type = NcTypeOf(q)
      BY <1>0, <2>3, <2>7, HeldWhole
    <2>9. Response!StandsFor(req, q, p)
      BY <2>1, <2>4, <2>5, ServesAre
    <2>10. ArrOf(req, q).len = ArrOf(req, p).len
      <3>1. req \in Requests
        BY <2>3, ObjectsAre DEF ReqOK
      <3> QED
        BY <2>8, <2>9, <3>1 DEF EqualLengths, Stored
    <2>11. /\ ArrOf(req, q).type = ArrOf(req, p).type /\ ArrOf(req, q).dims = ArrOf(req, p).dims
           /\ ArrOf(req, q).val = ArrOf(req, p).val
      BY <2>5 DEF EqualData, SameData
    <2>12. NcTypeOf(p) = NcTypeOf(q)
      BY <2>6, <2>11 DEF NcTypeOf, IsArrayKey, KindOf
    <2> HIDE DEF f
    <2>13. ShapeIs(f.shape, p) /\ f.val = ArrOf(req, p).val /\ f.type = NcTypeOf(p)
      BY <2>8, <2>10, <2>11, <2>12 DEF ShapeIs
    <2>14. Response!Represents(req, f, p)
      BY <2>13, ResponseArrays DEF Response!Represents, ShapeIs
    <2> QED
      BY <2>8, <2>9, <2>14
  <1> QED
    BY <1>4, <1>5

(* And it holds nothing else.                                              *)
LEMMA DeliversOnly ==
  ASSUME IInv, ReqOK, NamesOK, MeasureInv, FilingInv, SimpleVars, pc = "write"
  PROVE  Response!Faithful(req, NcFile)
  <1> SUFFICES ASSUME NEW f \in NcFile
               PROVE  \E p \in Stored : f.name = Response!FileName(req, p) /\ Response!Represents(req, f, p)
    BY DEF Response!Faithful, Stored
  <1>1. PICK v \in DOMAIN ncVars : ncVars[v].data # NoKey /\ f = NcEntry(v)
    BY DEF NcFile, NcEntry
  <1>2. PICK p \in DOMAIN obj : obj[p].varid = v
    BY DEF FilingInv, FileVarsOK
  <1>3. IsDefined(p)
    <2>1. ncVars \in Seq(NcVar)
      BY DEF IInv, TypeOK, FileOK
    <2>2. v # 0
      BY <2>1
    <2> QED
      BY <1>2, <2>2 DEF IsDefined
  <1>4. ncVars[v].data = p
    BY <1>1, <1>2, <1>3 DEF FilingInv, FileVarsOK, FileVarOK
  <1> QED
    BY <1>1, <1>2, <1>3, <1>4, HeldWhole

---------------------------------------------------------------------------
(* A response that is refused.                                             *)

(* The uses of dimensions in the response, as FONcResponse counts them.    *)
Sites == Response!ArraySites(req)
Site(p, k) == IF ForStrings(p, k) THEN Response!LenSite(req, p) ELSE Response!DimSite(req, p, k)
Slots(p) == 1..(Len(ArrOf(req, p).dims) + Extra(p))
LastName(p, k) ==
  LET n == ArrOf(req, p).dims[k].name
      e == EmbedOf(req, p)
  IN IF n # << >> /\ e # << >> THEN gen_name(e, n) ELSE n

(* An array alive uses its dimensions as FONcResponse counts them.         *)
LEMMA SiteIs ==
  ASSUME IInv, NamesOK, NEW p \in DOMAIN obj, IsArrayKey(p), NEW k \in Slots(p)
  PROVE  /\ Site(p, k) \in Sites /\ Site(p, k).key = p /\ Site(p, k).pos = k
         /\ Site(p, k).size = SizeOf(p, k) /\ Site(p, k).names = Names(p, k)
         /\ ~ForStrings(p, k) => Site(p, k).last = LastName(p, k)
  <1> DEFINE a == ArrOf(req, p)
             As == {q \in Stored : IsArrayKey(q)}
  <1>1. a \in Arr /\ p \in As
    BY ObjectsAre DEF IsArrayKey
  <1>2. a.dims \in Seq(Dim) /\ Len(a.dims) \in Nat /\ DOMAIN a.dims = 1..Len(a.dims)
    BY <1>1 DEF Arr
  <1>3. As = {q \in Response!Stored(req) : Response!IsArray(req, q)}
    BY ResponseArrays DEF Stored
  <1>4. CASE ForStrings(p, k)
    <2>1. IsText(a) /\ k = Len(a.dims) + 1
      <3>1. Extra(p) = 1 /\ k <= Len(a.dims) + 1
        <4> HIDE DEF a
        <4>1. k \in 1..(Len(a.dims) + Extra(p)) /\ k > Len(a.dims)
          BY <1>4 DEF Slots, ForStrings, a
        <4>2. Extra(p) \in {0, 1}
          BY DEF Extra
        <4> QED
          BY <1>2, <4>1, <4>2
      <3>2. k > Len(a.dims)
        BY <1>4 DEF ForStrings
      <3>3. k = Len(a.dims) + 1
        <4> HIDE DEF a
        <4> QED
          BY <1>2, <3>1, <3>2 DEF Slots
      <3> QED
        BY <3>1, <3>3 DEF Extra
    <2>2. Response!HasStrings(req, p)
      BY <2>1, ResponseArrays, TextArrays
    <2>3. Response!LenSite(req, p) \in Sites
      BY <1>1, <1>3, <2>2 DEF Sites, Response!ArraySites
    <2>4. SizeOf(p, k) = a.len /\ Names(p, k) = {WithLen(NameOf(p))} /\ Site(p, k) = Response!LenSite(req, p)
      BY <1>4 DEF SizeOf, Names, Site
    <2>5. /\ Response!LenSite(req, p).key = p /\ Response!LenSite(req, p).pos = k
          /\ Response!LenSite(req, p).size = a.len
          /\ Response!LenSite(req, p).names = {WithLen(NameOf(p))}
      BY <2>1, LengthSitesAre
    <2> QED
      BY <1>4, <2>3, <2>4, <2>5
  <1>5. CASE ~ForStrings(p, k)
    <2>1. k \in DOMAIN a.dims
      <3>1. ~(k > Len(a.dims))
        BY <1>5 DEF ForStrings
      <3> HIDE DEF a
      <3> QED
        BY <1>2, <3>1 DEF Slots
    <2>2. Response!ArrOf(req, p) = a
      BY ResponseArrays
    <2>3. Response!DimSite(req, p, k) \in Sites
      BY <1>1, <1>3, <2>1, <2>2 DEF Sites, Response!ArraySites
    <2>4. Site(p, k) = Response!DimSite(req, p, k)
      BY <1>5 DEF Site
    <2> QED
      BY <1>5, <2>3, <2>4, SitesAre DEF LastName
  <1> QED
    BY <1>4, <1>5

(* Every dimension of an object is at one of them.                         *)
LEMMA SlotSite ==
  ASSUME IInv, NamesOK, LastDims, LengthsOK, NEW p \in DOMAIN obj, NEW k \in DOMAIN obj[p].dims
  PROVE  IsArrayKey(p) /\ k \in Slots(p)
  <1>1. obj[p].dims \in Seq(Nat) /\ ArrOf(req, p).dims \in Seq(Dim)
    BY ObjectsAre DEF FONcArray, Arr
  <1>2. /\ k \in Nat \ {0} /\ k <= Len(obj[p].dims) /\ Len(obj[p].dims) \in Nat
        /\ Len(ArrOf(req, p).dims) \in Nat /\ Extra(p) \in {0, 1}
    BY <1>1 DEF Extra
  <1>3. IsArrayKey(p)
    BY <1>1, <1>2 DEF LengthsOK, LengthOK
  <1>4. Len(obj[p].dims) <= Len(ArrOf(req, p).dims) + Extra(p)
    <2>1. CASE Unfinished(p)
      <3>1. p = Cur /\ Len(obj[p].dims) = di - 1 /\ CurArr = ArrOf(req, p)
        BY <2>1 DEF LastDims, Unfinished, CurArr
      <3> QED
        BY <2>1, <3>1 DEF LengthsOK, Unfinished
    <2>2. CASE ~Unfinished(p)
      BY <1>2, <1>3, <2>2 DEF LengthsOK, LengthOK
    <2> QED
      BY <2>1, <2>2
  <1> QED
    BY <1>2, <1>3, <1>4 DEF Slots

(* The conversion of a variable of a type unknown.                         *)
LEMMA UnknownConflicts ==
  ASSUME IInv, ConvertUnknown
  PROVE  Response!Conflicting(req)
  <1>1. vi \in DOMAIN req /\ req[vi].send /\ req[vi].kind = "Unknown"
    BY ControlTypes DEF ConvertUnknown, CurVar
  <1> QED
    BY <1>1 DEF Response!Conflicting, Response!NoFileType

(* A dimension that two arrays need in two sizes, under the last name that *)
(* the later of them may call it.                                          *)
LEMMA ClashConflicts ==
  ASSUME IInv, AheadOK, NamesOK, LastDims, MeasureInv, DimensionClash
  PROVE  Response!Conflicting(req)
  <1> DEFINE d == CurArr.dims[di]
             n == Wanted(d)
  <1>1. CurArr \in Arr /\ CurArr = ArrOf(req, Cur) /\ Cur \in DOMAIN obj /\ CurEmbed = EmbedOf(req, Cur)
        /\ pc = "dims"
    BY CurTypes DEF CurArr, CurEmbed, DimensionClash
  <1>2. CurArr.dims \in Seq(Dim) /\ di \in Nat \ {0} /\ Len(CurArr.dims) \in Nat
        /\ vi \in Nat /\ mi \in Nat
    BY <1>1, ControlTypes DEF Arr
  <1>3. di \in DOMAIN CurArr.dims /\ di <= Len(CurArr.dims)
    BY <1>2 DEF DimensionClash
  <1>4. ~ForStrings(Cur, di) /\ IsArrayKey(Cur) /\ di \in Slots(Cur)
    <2>1. IsArrayKey(Cur)
      BY <1>1 DEF LastDims, IsArrayKey, KindOf, CurVar, Cur
    <2>2. Extra(Cur) \in {0, 1}
      BY DEF Extra
    <2> QED
      BY <1>1, <1>2, <1>3, <2>1, <2>2 DEF ForStrings, Slots
  <1>5. SizesDiffer(n, d.size)
    BY DEF DimensionClash
  <1>6. n # << >>
    BY <1>5 DEF SizesDiffer, Named
  <1>7. n = LastName(Cur, di)
    <2>1. CASE CurEmbed # << >> /\ SizesDiffer(d.name, d.size)
      <3>1. d.name # << >> /\ n = gen_name(CurEmbed, d.name)
        BY <2>1 DEF SizesDiffer, Named, Wanted
      <3> QED
        BY <1>1, <2>1, <3>1 DEF LastName
    <2>2. CASE ~(CurEmbed # << >> /\ SizesDiffer(d.name, d.size))
      <3>1. n = d.name
        BY <2>2 DEF Wanted
      <3>2. CurEmbed = << >>
        BY <1>5, <2>2, <3>1
      <3> QED
        BY <1>1, <3>1, <3>2 DEF LastName
    <2> QED
      BY <2>1, <2>2
  <1> HIDE DEF n
  <1>8. PICK e \in Named(n) : Dimensions[e].size # d.size
    BY <1>5 DEF SizesDiffer
  <1>9. PICK p, k : Origin(e, p, k)
    BY <1>8 DEF MeasureInv, FromOK, Named
  <1>10. p \in DOMAIN obj /\ k \in DOMAIN obj[p].dims /\ SizeOf(p, k) # d.size /\ n \in Names(p, k)
    <2>1. SlotOK(p, k) /\ Dimensions[obj[p].dims[k]].name = n
      BY <1>8, <1>9 DEF MeasureInv, SlotsOK, Origin, Named
    <2> QED
      BY <1>6, <1>8, <1>9, <2>1 DEF Origin, SlotOK, DimOK, Called
  <1> DEFINE s == Site(p, k)
             t == Site(Cur, di)
  <1>11. s \in Sites /\ s.key = p /\ s.pos = k /\ s.size = SizeOf(p, k) /\ s.names = Names(p, k)
    BY <1>10, SlotSite, SiteIs DEF MeasureInv
  <1>12. t \in Sites /\ t.key = Cur /\ t.pos = di /\ t.size = SizeOf(Cur, di) /\ t.last = n
    BY <1>1, <1>4, <1>7, SiteIs
  <1>13. SizeOf(Cur, di) = d.size
    BY <1>1, <1>4 DEF SizeOf
  <1>14. Response!Before(s, t)
    <2>1. p[1] \in Nat /\ p[2] \in Nat /\ p = <<p[1], p[2]>> /\ Cur[1] = vi /\ Cur[2] = mi
      BY <1>10, ObjectsAre, KeyParts DEF Cur
    <2>2. CASE p = Cur
      <3>1. obj[Cur].dims \in Seq(Nat) /\ Len(obj[Cur].dims) = di - 1
        BY <1>1, ObjectsAre DEF LastDims, FONcArray
      <3>2. k \in Nat /\ k < di
        BY <1>2, <1>10, <2>2, <3>1
      <3> HIDE DEF s, t
      <3> QED
        BY <1>11, <1>12, <2>2, <3>2 DEF Response!Before
    <2>3. CASE p # Cur
      <3>1. p[1] < vi \/ (p[1] = vi /\ 0 < p[2] /\ (mi > 0 => p[2] < mi))
        BY <1>1, <1>10, <2>3 DEF AheadOK
      <3> HIDE DEF s, t
      <3>2. s.key[1] = p[1] /\ s.key[2] = p[2] /\ t.key[1] = vi /\ t.key[2] = mi
        BY <1>11, <1>12, <2>1
      <3> QED
        BY <1>2, <2>1, <3>1, <3>2 DEF Response!Before
    <2> QED
      BY <2>2, <2>3
  <1> HIDE DEF s, t
  <1>15. Response!SizesConflict(req)
    BY <1>10, <1>11, <1>12, <1>13, <1>14 DEF Response!SizesConflict, Sites
  <1> QED
    BY <1>15 DEF Response!Conflicting

(* A response has finitely many of them.                                   *)
LEMMA UnionFinite ==
  ASSUME NEW P, IsFiniteSet(P), NEW F, \A p \in P : IsFiniteSet(F[p])
  PROVE  IsFiniteSet(UNION {F[p] : p \in P})
  <1> DEFINE All == {F[p] : p \in P}
             f == [p \in P |-> F[p]]
  <1>1. f \in Surjection(P, All)
    BY DEF Surjection
  <1>2. IsFiniteSet(All)
    BY <1>1, FS_Surjection
  <1>3. \A T \in All : IsFiniteSet(T)
    OBVIOUS
  <1> HIDE DEF All
  <1>4. IsFiniteSet(UNION All)
    BY <1>2, <1>3, FS_UNION
  <1> QED
    BY <1>4 DEF All

(* A response has finitely many variables,                                 *)
LEMMA StoredFinite ==
  ASSUME req \in Seq(Var)
  PROVE  IsFiniteSet(Stored) /\ Stored \subseteq Key /\ \A p \in Stored : ArrOf(req, p) \in Arr
  <1> DEFINE K == [i \in DOMAIN req |-> {i} \X (0..Len(req[i].maps))]
  <1>1. \A i \in DOMAIN req :
          /\ i \in Nat /\ req[i].maps \in Seq(Arr) /\ Len(req[i].maps) \in Nat
          /\ DOMAIN req[i].maps = 1..Len(req[i].maps)
    <2>1. \A i \in DOMAIN req : i \in Nat /\ req[i] \in Var
      OBVIOUS
    <2> QED
      BY <2>1 DEF Var
  <1>2. \A i \in DOMAIN req : IsFiniteSet(K[i])
    <2> SUFFICES ASSUME NEW i \in DOMAIN req PROVE IsFiniteSet({i} \X (0..Len(req[i].maps)))
      OBVIOUS
    <2>1. IsFiniteSet({i})
      BY FS_Singleton
    <2>2. IsFiniteSet(0..Len(req[i].maps))
      <3>1. 0 \in Int /\ Len(req[i].maps) \in Int
        BY <1>1
      <3> QED
        BY <3>1, FS_Interval
    <2> QED
      BY <2>1, <2>2, FS_Product
  <1>3. IsFiniteSet(DOMAIN req)
    BY FS_Interval
  <1> DEFINE All == UNION {K[i] : i \in DOMAIN req}
  <1>4. IsFiniteSet(All)
    <2> HIDE DEF K
    <2> QED
      BY <1>2, <1>3, UnionFinite
  <1>5. \A p \in Stored :
          /\ p = <<p[1], p[2]>> /\ p[1] \in DOMAIN req /\ p[2] \in 0..Len(req[p[1]].maps)
          /\ p[2] = 0 \/ p[2] \in DOMAIN req[p[1]].maps
    <2> SUFFICES ASSUME NEW p \in Stored
                 PROVE  /\ p = <<p[1], p[2]>> /\ p[1] \in DOMAIN req /\ p[2] \in 0..Len(req[p[1]].maps)
                        /\ p[2] = 0 \/ p[2] \in DOMAIN req[p[1]].maps
      OBVIOUS
    <2>1. PICK i, k : i \in DOMAIN req /\ p = <<i, k>> /\ (k = 0 \/ k \in DOMAIN req[i].maps)
      BY DEF Stored, Response!Stored, Response!Sources
    <2>2. k \in 0..Len(req[i].maps)
      BY <1>1, <2>1
    <2> QED
      BY <2>1, <2>2
  <1>6. Stored \in SUBSET All
    <2>1. \A p \in Stored : p \in K[p[1]]
      <3>1. \A p \in Stored : p[1] \in {p[1]}
        OBVIOUS
      <3> QED
        BY <1>5, <3>1
    <2> HIDE DEF K
    <2> QED
      BY <1>5, <2>1
  <1>7. Stored \subseteq Key
    BY <1>1, <1>5 DEF Key
  <1>8. \A p \in Stored : ArrOf(req, p) \in Arr
    BY <1>5, <1>7, KeyTypes DEF ValidKey
  <1> QED
    BY <1>4, <1>6, <1>7, <1>8, FS_Subset

(* and uses finitely many dimensions.                                      *)
LEMMA SitesFinite ==
  ASSUME req \in Seq(Var)
  PROVE  IsFiniteSet(Sites)
  <1> DEFINE As == {p \in Stored : Response!IsArray(req, p)}
             Texts == {q \in As : Response!HasStrings(req, q)}
             D == [p \in As |-> {Response!DimSite(req, p, k) : k \in DOMAIN ArrOf(req, p).dims}]
             L == {Response!LenSite(req, p) : p \in Texts}
  <1>1. As \in SUBSET Stored /\ Texts \in SUBSET Stored
    OBVIOUS
  <1>2. IsFiniteSet(As) /\ IsFiniteSet(Texts)
    BY <1>1, StoredFinite, FS_Subset
  <1>3. \A p \in As : IsFiniteSet(D[p])
    <2> SUFFICES ASSUME NEW p \in As
                 PROVE  IsFiniteSet({Response!DimSite(req, p, k) : k \in DOMAIN ArrOf(req, p).dims})
      OBVIOUS
    <2> DEFINE ks == DOMAIN ArrOf(req, p).dims
               f == [k \in ks |-> Response!DimSite(req, p, k)]
    <2>1. ArrOf(req, p) \in Arr
      BY StoredFinite
    <2>2. ArrOf(req, p).dims \in Seq(Dim)
      BY <2>1 DEF Arr
    <2>3. IsFiniteSet(ks)
      BY <2>2, FS_Interval
    <2>4. f \in Surjection(ks, {Response!DimSite(req, p, k) : k \in ks})
      BY DEF Surjection
    <2> QED
      BY <2>3, <2>4, FS_Surjection
  <1>4. IsFiniteSet(UNION {D[p] : p \in As})
    <2> HIDE DEF As, D
    <2> QED
      BY <1>2, <1>3, UnionFinite
  <1>5. IsFiniteSet(L)
    <2> DEFINE f == [p \in Texts |-> Response!LenSite(req, p)]
    <2>1. f \in Surjection(Texts, L)
      BY DEF Surjection
    <2> QED
      BY <1>2, <2>1, FS_Surjection
  <1>6. Sites = L \cup UNION {D[p] : p \in As}
    <2>1. \A p : Response!ArrOf(req, p) = ArrOf(req, p)
      BY ResponseArrays
    <2> QED
      BY <2>1 DEF Sites, Response!ArraySites, Stored
  <1> HIDE DEF L, D, As
  <1> QED
    BY <1>4, <1>5, <1>6, FS_Union

(* Of dimensions without a name there are no more than sites without one.  *)
Unnamed == {s \in Sites : s.names = {}}

(* There are at least as many uses of unnamed dimensions as there are      *)
(* unnamed dimensions: they are not shared.                                *)
LEMMA UnnamedSites ==
  ASSUME IInv, NamesOK, LastDims, MeasureInv, NEW C \in SUBSET DOMAIN Dimensions,
         \A c \in C : Dimensions[c].name = << >>
  PROVE  /\ Cardinality(C) \in Nat /\ Cardinality(Unnamed) \in Nat
         /\ Cardinality(C) <= Cardinality(Unnamed)
  <1>1. IsFiniteSet(Unnamed)
    <2>1. Unnamed \in SUBSET Sites
      BY DEF Unnamed
    <2> QED
      BY <2>1, SitesFinite, ControlTypes, FS_Subset
  <1>2. ASSUME NEW c \in C
        PROVE  \E s \in Unnamed : obj[s.key].dims[s.pos] = c
    <2>1. PICK p, k : Origin(c, p, k)
      BY DEF MeasureInv, FromOK
    <2>2. p \in DOMAIN obj /\ k \in DOMAIN obj[p].dims /\ obj[p].dims[k] = c
      BY <2>1 DEF Origin
    <2>3. Site(p, k) \in Sites /\ Site(p, k).key = p /\ Site(p, k).pos = k /\ Site(p, k).names = Names(p, k)
      BY <2>2, SlotSite, SiteIs DEF MeasureInv
    <2>4. Called(p, k, << >>)
      BY <2>2 DEF MeasureInv, SlotsOK, SlotOK, DimOK
    <2>5. Names(p, k) = {}
      BY <2>4 DEF Called
    <2> QED
      BY <2>2, <2>3, <2>5 DEF Unnamed
  <1> DEFINE f == [c \in C |-> CHOOSE s \in Unnamed : obj[s.key].dims[s.pos] = c]
  <1>3. \A c \in C : f[c] \in Unnamed /\ obj[f[c].key].dims[f[c].pos] = c
    BY <1>2, Zenon
  <1>4. f \in [C -> Unnamed]
    BY <1>3, Zenon
  <1> HIDE DEF f
  <1>5. \A b, c \in C : f[b] = f[c] => b = c
    BY <1>3
  <1>6. f \in Injection(C, Unnamed)
    BY <1>4, <1>5 DEF Injection, IsInjective
  <1>7. IsFiniteSet(C) /\ Cardinality(C) <= Cardinality(Unnamed)
    BY <1>1, <1>6, FS_Injection
  <1> QED
    BY <1>1, <1>7, FS_CardinalityType

(* Where two different dimensions get one identifier there is a conflict.  *)
LEMMA Identifiers ==
         /\ \A s, t \in Sites : \A n \in s.names, m \in t.names :
              n # m /\ id2netcdf(n) = id2netcdf(m) => Response!Conflicting(req)
         /\ \A s \in Sites \cup Response!StrSites(req) : \A n \in s.names, k \in 1..Cardinality(Unnamed) :
              id2netcdf(n) = AutoDim(k) => Response!Conflicting(req)
         /\ \A s \in Response!StrSites(req), t \in Sites \cup Response!StrSites(req) :
              \A n \in s.names, m \in t.names :
                 s # t /\ n = id2netcdf(m) => Response!Conflicting(req)
  <1>1. /\ \A n : Response!id2netcdf(n) = id2netcdf(n)
        /\ \A k : Response!AutoDim(k) = AutoDim(k)
    BY DEF Response!id2netcdf, id2netcdf, Response!AutoDim, AutoDim
  <1> DEFINE U == {s \in Response!ArraySites(req) : s.names = {}}
             I(s) == {Response!id2netcdf(n) : n \in s.names}
             A == {Response!AutoDim(n) : n \in 1..Cardinality(U)}
  <1>0. \A S : Response!Cardinality(S) = Cardinality(S)
    BY DEF Response!Cardinality, Cardinality
  <1>2. Response!IdentifiersConflict(req) <=>
          \/ \E s, t \in Sites : \E n \in s.names, m \in t.names :
               n # m /\ Response!id2netcdf(n) = Response!id2netcdf(m)
          \/ \E s \in Sites \cup Response!StrSites(req) : I(s) \cap A # {}
          \/ \E s \in Response!StrSites(req), t \in Sites \cup Response!StrSites(req) :
               s # t /\ s.names \cap I(t) # {}
    <2> DEFINE S == Response!ArraySites(req)
    <2>1. Response!IdentifiersConflict(req) <=>
            \/ \E s, t \in S : \E n \in s.names, m \in t.names :
                 n # m /\ Response!id2netcdf(n) = Response!id2netcdf(m)
            \/ \E s \in S \cup Response!StrSites(req) : I(s) \cap A # {}
            \/ \E s \in Response!StrSites(req), t \in S \cup Response!StrSites(req) :
                 s # t /\ s.names \cap I(t) # {}
      BY <1>0 DEF Response!IdentifiersConflict
    <2> QED
      BY <2>1 DEF Sites
  <1>3. Unnamed = U
    BY DEF Unnamed, Sites
  <1>4. Response!IdentifiersConflict(req) => Response!Conflicting(req)
    BY DEF Response!Conflicting
  <1>5. ASSUME NEW s \in Sites, NEW t \in Sites, NEW n \in s.names, NEW m \in t.names,
               n # m, id2netcdf(n) = id2netcdf(m)
        PROVE  Response!Conflicting(req)
    <2>1. Response!id2netcdf(n) = Response!id2netcdf(m)
      BY <1>1, <1>5
    <2> HIDE DEF U, I, A
    <2> QED
      BY <1>2, <1>4, <1>5, <2>1
  <1>6. ASSUME NEW s \in Sites \cup Response!StrSites(req), NEW n \in s.names,
               NEW k \in 1..Cardinality(Unnamed), id2netcdf(n) = AutoDim(k)
        PROVE  Response!Conflicting(req)
    <2>1. Response!AutoDim(k) \in A
      BY <1>3
    <2>2. Response!id2netcdf(n) \in I(s)
      OBVIOUS
    <2>3. Response!id2netcdf(n) = Response!AutoDim(k)
      BY <1>1, <1>6
    <2> HIDE DEF U, I, A
    <2> QED
      BY <1>2, <1>4, <2>1, <2>2, <2>3
  <1>7. ASSUME NEW s \in Response!StrSites(req), NEW t \in Sites \cup Response!StrSites(req),
               NEW n \in s.names, NEW m \in t.names, s # t, n = id2netcdf(m)
        PROVE  Response!Conflicting(req)
    <2>1. Response!id2netcdf(m) \in I(t)
      OBVIOUS
    <2>2. n = Response!id2netcdf(m)
      BY <1>1, <1>7
    <2> HIDE DEF U, I, A
    <2> QED
      BY <1>2, <1>4, <1>7, <2>1, <2>2
  <1> QED
    BY <1>5, <1>6, <1>7

(* The dimension of a string.                                              *)
LEMMA StrSiteIs ==
  ASSUME IInv, NamesOK, NEW p \in DOMAIN obj, KindOf(p) = "Str"
  PROVE  /\ Response!LenSite(req, p) \in Response!StrSites(req)
         /\ Response!LenSite(req, p).key = p /\ Response!LenSite(req, p).names = {WithLen(NameOf(p))}
  <1>1. p \in Stored
    BY ObjectsAre
  <1>2. Response!LenSite(req, p) \in Response!StrSites(req)
    BY <1>1 DEF Response!StrSites, Stored, KindOf
  <1> QED
    BY <1>2, LengthSitesAre

(* Where a dimension comes from.                                           *)
LEMMA OriginSite ==
  ASSUME IInv, NamesOK, LastDims, MeasureInv, NEW c \in DOMAIN Dimensions
  PROVE  \E s \in Sites : /\ KindOf(s.key) # "Str"
                          /\ Dimensions[c].name # << >> => Dimensions[c].name \in s.names
  <1>1. PICK p, k : Origin(c, p, k)
    BY DEF MeasureInv, FromOK
  <1>2. p \in DOMAIN obj /\ k \in DOMAIN obj[p].dims /\ obj[p].dims[k] = c
    BY <1>1 DEF Origin
  <1>3. Site(p, k) \in Sites /\ Site(p, k).key = p /\ Site(p, k).names = Names(p, k) /\ IsArrayKey(p)
    BY <1>2, SlotSite, SiteIs DEF MeasureInv
  <1>4. Called(p, k, Dimensions[c].name)
    BY <1>2 DEF MeasureInv, SlotsOK, SlotOK, DimOK
  <1>5. KindOf(p) # "Str" /\ (Dimensions[c].name # << >> => Dimensions[c].name \in Names(p, k))
    BY <1>3, <1>4 DEF Called, IsArrayKey
  <1> QED
    BY <1>3, <1>5

(* Names of lengths are no automatic names, and tell whose they are.       *)
LEMMA LengthNames ==
  ASSUME NEW m \in Path, NEW n \in Path, NEW k \in Nat
  PROVE  /\ WithLen(m) # AutoDim(k)
         /\ WithLen(m) = WithLen(n) => m = n
  <1>1. WithLen(m) # AutoDim(k)
    <2> DEFINE s == WithLen(m)
    <2>1. Len(m) + 1 \in DOMAIN s /\ s[Len(m) + 1] = "_len"
      BY DEF WithLen, Path
    <2>2. \A j \in DOMAIN AutoDim(k) : AutoDim(k)[j] = "dim"
      BY DEF AutoDim
    <2> HIDE DEF s
    <2>3. s # AutoDim(k)
      BY <2>1, <2>2
    <2> QED
      BY <2>3 DEF s
  <1>2. WithLen(m) = WithLen(n) => m = n
    BY DEF WithLen, Path
  <1> QED
    BY <1>1, <1>2

(* Automatic names differ by their numbers.                                *)
LEMMA AutoNames ==
  ASSUME NEW m \in Nat, NEW n \in Nat, AutoDim(m) = AutoDim(n)
  PROVE  m = n
  <1>1. DOMAIN AutoDim(m) = 1..m /\ DOMAIN AutoDim(n) = 1..n
    BY DEF AutoDim
  <1> QED
    BY <1>1

(* A dimension whose identifier is in the file already.                    *)
LEMMA DefiningDim ==
  ASSUME IInv, DefineDim
  PROVE  /\ pc = "define" /\ InDefine /\ Undone /\ At \in DOMAIN obj /\ IsArrayKey(At)
         /\ di \in DOMAIN obj[At].dims /\ CurDim \in DOMAIN Dimensions /\ Dimensions[CurDim].dimid = 0
  <1>1. /\ pc = "define" /\ InDefine /\ Undone /\ req[At[1]].kind \in {"Array", "Grid"}
        /\ di <= Len(obj[At].dims) /\ Dimensions[CurDim].dimid = 0
    BY DEF DefineDim, Defining, InDefine
  <1>2. At \in DOMAIN obj /\ obj[At] \in FONcArray
    BY <1>1, AtTypes DEF InDefine
  <1>3. di \in DOMAIN obj[At].dims
    <2>1. obj[At].dims \in Seq(Nat) /\ di \in Nat \ {0}
      BY <1>2, ControlTypes DEF FONcArray
    <2> QED
      BY <1>1, <2>1
  <1>4. CurDim \in DOMAIN Dimensions
    BY <1>2, <1>3 DEF IInv, TypeOK, PointersOK, CurDim
  <1> QED
    BY <1>1, <1>2, <1>3, <1>4 DEF IsArrayKey, KindOf

(* The number that FONcDim::define counts up to is within those uses.      *)
LEMMA NumbersKnown ==
  ASSUME IInv, NamesOK, LastDims, MeasureInv, FilingInv, NEW c \in DOMAIN Dimensions,
         Dimensions[c].dimid = 0
  PROVE  /\ DimNameNum \in Nat /\ Cardinality(Unnamed) \in Nat
         /\ DimNameNum <= Cardinality(Unnamed)
         /\ Dimensions[c].name = << >> => DimNameNum + 1 <= Cardinality(Unnamed)
  <1>1. DimNameNum \in Nat /\ DimNameNum = Cardinality(Numbered)
    BY DEF FilingInv, FileDimsOK, IInv, TypeOK, StaticsOK
  <1>2. IsFiniteSet(Numbered) /\ Numbered \in SUBSET DOMAIN Dimensions /\ c \notin Numbered
    <2>1. Numbered \in SUBSET DOMAIN Dimensions /\ c \notin Numbered
      BY DEF Numbered
    <2>2. IsFiniteSet(DOMAIN Dimensions)
      <3>1. Dimensions \in Seq(FONcDim)
        BY DEF IInv, TypeOK, StaticsOK
      <3> QED
        BY <3>1, FS_Interval
    <2> QED
      BY <2>1, <2>2, FS_Subset
  <1>3. Cardinality(Unnamed) \in Nat /\ Cardinality(Numbered) <= Cardinality(Unnamed)
    BY <1>2, UnnamedSites DEF Numbered
  <1>4. ASSUME Dimensions[c].name = << >>
        PROVE  DimNameNum + 1 <= Cardinality(Unnamed)
    <2>1. Cardinality(Numbered \cup {c}) = Cardinality(Numbered) + 1
      BY <1>2, FS_AddElement
    <2>2. \A b \in Numbered \cup {c} : Dimensions[b].name = << >>
      BY <1>4 DEF Numbered
    <2>3. Cardinality(Numbered \cup {c}) <= Cardinality(Unnamed)
      BY <1>2, <2>2, UnnamedSites
    <2> QED
      BY <1>1, <2>1, <2>3
  <1> QED
    BY <1>1, <1>3, <1>4

(* A dimension whose identifier is in the file already.                    *)
LEMMA IdentifierConflicts ==
  ASSUME IInv, NamesOK, LastDims, MeasureInv, FilingInv, DefineDim, DimTaken(DimIdentifier)
  PROVE  Response!Conflicting(req)
  <1>1. PICK c \in DOMAIN Dimensions : c = CurDim
    BY DefiningDim
  <1> DEFINE n == Dimensions[c].name
  <1>2. Dimensions[c].dimid = 0 /\ DimIdentifier = IF n = << >> THEN AutoDim(DimNameNum + 1) ELSE id2netcdf(n)
    BY <1>1, DefiningDim DEF DimIdentifier
  <1>3. PICK d \in DOMAIN ncDims : ncDims[d].name = DimIdentifier
    BY DEF DimTaken
  <1>4. d # 0
    BY DEF IInv, TypeOK, FileOK
  <1>5. /\ DimNameNum \in Nat /\ Cardinality(Unnamed) \in Nat
        /\ DimNameNum <= Cardinality(Unnamed)
        /\ n = << >> => DimNameNum + 1 <= Cardinality(Unnamed)
    BY <1>2, NumbersKnown
  <1>6. PICK s \in Sites : KindOf(s.key) # "Str" /\ (n # << >> => n \in s.names)
    BY OriginSite
  <1>7. ASSUME NEW b \in DOMAIN Dimensions, Dimensions[b].dimid = d
        PROVE  Response!Conflicting(req)
    <2> DEFINE m == Dimensions[b].name
    <2>1. /\ m = << >> => \E k \in 1..DimNameNum : ncDims[d].name = AutoDim(k)
          /\ m # << >> => ncDims[d].name = id2netcdf(m)
      BY <1>4, <1>7 DEF FilingInv, FileDimsOK, FileDimOK
    <2>2. b # c /\ (m = n => n = << >>)
      BY <1>2, <1>4, <1>7 DEF IInv, DimNamesDistinct
    <2>3. PICK t \in Sites : m # << >> => m \in t.names
      BY OriginSite
    <2> HIDE DEF m, n
    <2>4. CASE m # << >> /\ n # << >>
      <3>1. m \in t.names /\ n \in s.names /\ m # n /\ id2netcdf(m) = id2netcdf(n)
        BY <1>2, <1>3, <1>6, <2>1, <2>2, <2>3, <2>4
      <3> QED
        BY <3>1, Identifiers
    <2>5. CASE m # << >> /\ n = << >>
      <3>1. m \in t.names /\ id2netcdf(m) = AutoDim(DimNameNum + 1)
        BY <1>2, <1>3, <2>1, <2>3, <2>5
      <3>2. DimNameNum + 1 \in 1..Cardinality(Unnamed)
        BY <1>5, <2>5
      <3> QED
        BY <3>1, <3>2, Identifiers
    <2>6. CASE m = << >> /\ n # << >>
      <3>1. PICK k \in 1..DimNameNum : ncDims[d].name = AutoDim(k)
        BY <2>1, <2>6
      <3>2. n \in s.names /\ id2netcdf(n) = AutoDim(k)
        BY <1>2, <1>3, <1>6, <2>6, <3>1
      <3>3. k \in 1..Cardinality(Unnamed)
        BY <1>5
      <3> QED
        BY <3>2, <3>3, Identifiers
    <2>7. CASE m = << >> /\ n = << >>
      <3>1. PICK k \in 1..DimNameNum : ncDims[d].name = AutoDim(k)
        BY <2>1, <2>7
      <3>2. AutoDim(k) = AutoDim(DimNameNum + 1)
        BY <1>2, <1>3, <2>7, <3>1
      <3>3. k = DimNameNum + 1
        BY <1>5, <3>2, AutoNames
      <3> QED
        BY <1>5, <3>3
    <2> QED
      BY <2>4, <2>5, <2>6, <2>7
  <1>8. ASSUME NEW p, OfStr(d, p)
        PROVE  Response!Conflicting(req)
    <2>1. p \in DOMAIN obj /\ KindOf(p) = "Str" /\ ncDims[d].name = WithLen(NameOf(p))
      BY <1>8 DEF OfStr
    <2>2. NameOf(p) \in Path
      BY <2>1, ObjectsAre DEF FONcArray
    <2> DEFINE t == Response!LenSite(req, p)
    <2>3. t \in Response!StrSites(req) /\ t.key = p /\ t.names = {WithLen(NameOf(p))}
      BY <2>1, StrSiteIs
    <2> HIDE DEF t, n
    <2>4. CASE n = << >>
      <3>1. WithLen(NameOf(p)) = AutoDim(DimNameNum + 1)
        BY <1>2, <1>3, <2>1, <2>4
      <3>2. DimNameNum + 1 \in Nat
        BY <1>5
      <3> QED
        BY <2>2, <3>1, <3>2, LengthNames
    <2>5. CASE n # << >>
      <3>1. WithLen(NameOf(p)) = id2netcdf(n) /\ n \in s.names /\ WithLen(NameOf(p)) \in t.names
        BY <1>2, <1>3, <1>6, <2>1, <2>3, <2>5
      <3>2. s # t
        BY <1>6, <2>1, <2>3
      <3> QED
        BY <2>3, <3>1, <3>2, Identifiers
    <2> QED
      BY <2>4, <2>5
  <1> QED
    BY <1>7, <1>8 DEF FilingInv, FileDimsOK, NcDimOK

(* Two objects of one name.                                                *)
LEMMA NamesClash ==
  ASSUME IInv, ReqOK, NamesOK, RegisteredOK, CoordinateMaps, pc = "define",
         NEW p \in DOMAIN obj, NEW q \in DOMAIN obj, p # q, ~obj[p].dontUse, ~obj[q].dontUse,
         KindOf(p) # "Sequence", KindOf(q) # "Sequence", NameOf(p) = NameOf(q)
  PROVE  Response!Conflicting(req)
  <1>1. p \in Stored /\ q \in Stored
    BY ObjectsAre
  <1>2. ASSUME Response!StandsFor(req, p, q)
        PROVE  FALSE
    <2>1. MayServe(p) /\ MayServe(q)
      <3>1. Response!Candidate(req, p) /\ Response!Candidate(req, q)
        BY <1>2 DEF Response!StandsFor
      <3>2. Response!ArrOf(req, p) = ArrOf(req, p) /\ Response!ArrOf(req, q) = ArrOf(req, q)
        BY ResponseArrays
      <3>3. \A r : Response!IsArray(req, r) <=> IsArrayKey(r)
        BY ResponseArrays
      <3>4. \A a : Response!IsCoordinate(a) <=> IsCoordinate(a)
        BY DEF Response!IsCoordinate, IsCoordinate
      <3> QED
        BY <3>1, <3>2, <3>3, <3>4 DEF Response!Candidate, MayServe, KindOf
    <2>2. SameData(ArrOf(req, p), ArrOf(req, q))
      BY <1>2, ResponseArrays DEF Response!StandsFor, Response!SameData, SameData
    <2>3. Registered(p) /\ Registered(q)
      BY <2>1 DEF RegisteredOK, Unfinished
    <2>4. IsCoordinate(ArrOf(req, p)) /\ IsCoordinate(ArrOf(req, q))
      <3>1. ASSUME NEW r \in DOMAIN obj, MayServe(r)
            PROVE  IsCoordinate(ArrOf(req, r))
        <4>1. /\ r[1] \in DOMAIN req /\ SentKey(r) /\ ValidKey(r) /\ r[2] \in Nat
              /\ req \in Requests
          BY ObjectsAre, KeyParts DEF ReqOK
        <4>2. CASE r[2] = 0
          BY <3>1, <4>2 DEF MayServe
        <4>3. CASE r[2] > 0
          <5>1. req[r[1]].kind = "Grid" /\ r[2] \in DOMAIN req[r[1]].maps
            BY <4>1, <4>3 DEF SentKey, ValidKey, KindOf
          <5>2. ArrOf(req, r) = req[r[1]].maps[r[2]]
            BY <4>3 DEF ArrOf
          <5> QED
            BY <4>1, <5>1, <5>2 DEF CoordinateMaps
        <4> QED
          BY <4>1, <4>2, <4>3
      <3> QED
        BY <2>1, <3>1
    <2>5. compare(ArrOf(req, p), ArrOf(req, q)) /\ compare(ArrOf(req, q), ArrOf(req, p))
      BY <2>2, <2>4 DEF SameData, IsCoordinate, compare, EqualValues
    <2>6. PICK m \in DOMAIN Maps : Maps[m].arr = p
      BY <2>3 DEF Registered
    <2>7. PICK n \in DOMAIN Maps : Maps[n].arr = q
      BY <2>3 DEF Registered
    <2>8. m < n \/ n < m
      <3>1. Maps \in Seq(FONcMap)
        BY DEF IInv, TypeOK, StaticsOK
      <3> QED
        BY <2>6, <2>7, <3>1
    <2> QED
      BY <2>5, <2>6, <2>7, <2>8 DEF IInv, MapsDistinct, Working
  <1>3. ~Response!StandsFor(req, p, q)
    BY <1>2
  <1>4. Response!FileName(req, p) = Response!FileName(req, q)
    BY ResponseArrays
  <1> QED
    BY <1>1, <1>3, <1>4 DEF Response!Conflicting, Response!NamesConflict, Stored

(* Every variable of the file is some object's.                            *)
LEMMA VarOwner ==
  ASSUME IInv, NamesOK, FilingInv, NEW n, VarTaken(n)
  PROVE  \E p \in DOMAIN obj : /\ IsDefined(p) /\ ~obj[p].dontUse
                               /\ KindOf(p) # "Sequence" /\ NameOf(p) = n
  <1>1. PICK v \in DOMAIN ncVars : ncVars[v].name = n
    BY DEF VarTaken
  <1>2. PICK p \in DOMAIN obj : obj[p].varid = v
    BY DEF FilingInv, FileVarsOK
  <1>3. IsDefined(p)
    <2>1. ncVars \in Seq(NcVar)
      BY DEF IInv, TypeOK, FileOK
    <2>2. v # 0
      BY <2>1
    <2> QED
      BY <1>2, <2>2 DEF IsDefined
  <1>4. ~obj[p].dontUse /\ (IsArrayKey(p) \/ Simple(p)) /\ NameOf(p) = n
    BY <1>1, <1>2, <1>3 DEF FilingInv, FileVarsOK, FileVarOK, VarIs
  <1> QED
    BY <1>3, <1>4 DEF IsArrayKey, Simple

(* The object that define() is at and has not defined.                     *)
Awaited ==
  /\ pc = "define" /\ InDefine /\ At \in DOMAIN obj
  /\ IsArrayKey(At) \/ Simple(At)
  /\ ~IsDefined(At) /\ ~obj[At].dontUse

(* define has a simple variable in hand that it has not defined.           *)
LEMMA SimpleAwaited ==
  ASSUME IInv, RegisteredOK, HoldersOK, FilingInv, DefineScalar \/ DefineStr
  PROVE  Awaited /\ Simple(At)
  <1>1. pc = "define" /\ InDefine /\ Simple(At)
    BY DEF DefineScalar, DefineStr, Defining, InDefine, Simple, KindOf
  <1>2. vi \in DOMAIN req /\ mi \in DOMAIN Targets(vi) /\ At \in DOMAIN obj
    BY <1>1, AtTypes DEF InDefine
  <1>3. At = <<vi, 0>> /\ mi = 1
    BY <1>1, <1>2, SimpleTarget DEF At
  <1>4. vi \in Nat
    BY ControlTypes
  <1>5. ~IsDefined(At)
    BY <1>1, <1>2, <1>3, <1>4 DEF FilingInv, OnceOK
  <1>6. ~obj[At].dontUse
    BY <1>1, <1>2 DEF RegisteredOK, MayServe, IsArrayKey, Simple
  <1> QED
    BY <1>1, <1>2, <1>5, <1>6 DEF Awaited

(* Or an array.                                                            *)
LEMMA ArrayAwaited ==
  ASSUME IInv, DefineArray
  PROVE  Awaited /\ IsArrayKey(At)
  <1>1. pc = "define" /\ InDefine /\ IsArrayKey(At) /\ Undone
    BY DEF DefineArray, Defining, InDefine, IsArrayKey, KindOf
  <1>2. At \in DOMAIN obj
    BY <1>1, AtTypes DEF InDefine
  <1> QED
    BY <1>1, <1>2 DEF Awaited, Undone

(* A variable whose name is in the file already.                           *)
LEMMA VarConflicts ==
  ASSUME IInv, ReqOK, NamesOK, RegisteredOK, FilingInv, CoordinateMaps, Awaited,
         VarTaken(obj[At].varname)
  PROVE  Response!Conflicting(req)
  <1>1. PICK q \in DOMAIN obj : q = At
    BY DEF Awaited
  <1>2. /\ pc = "define" /\ ~IsDefined(q) /\ ~obj[q].dontUse /\ KindOf(q) # "Sequence"
        /\ obj[q].varname = NameOf(q)
    BY <1>1 DEF Awaited, IsArrayKey, Simple, NamesOK
  <1>3. VarTaken(NameOf(q))
    BY <1>1, <1>2
  <1>4. PICK p \in DOMAIN obj : /\ IsDefined(p) /\ ~obj[p].dontUse
                                /\ KindOf(p) # "Sequence" /\ NameOf(p) = NameOf(q)
    BY <1>3, VarOwner
  <1>5. p # q
    BY <1>2, <1>4
  <1> QED
    BY <1>2, <1>4, <1>5, NamesClash

(* The dimension of a string whose name is in the file already.            *)
LEMMA StringConflicts ==
  ASSUME IInv, ReqOK, NamesOK, RegisteredOK, LastDims, MeasureInv, FilingInv, CoordinateMaps, Awaited,
         KindOf(At) = "Str", DimTaken(WithLen(obj[At].varname))
  PROVE  Response!Conflicting(req)
  <1>1. PICK q \in DOMAIN obj : q = At
    BY DEF Awaited
  <1>2. /\ pc = "define" /\ ~IsDefined(q) /\ ~obj[q].dontUse /\ KindOf(q) = "Str"
        /\ obj[q].varname = NameOf(q) /\ NameOf(q) \in Path
    BY <1>1, ObjectsAre DEF Awaited, NamesOK, FONcArray
  <1>3. PICK d \in DOMAIN ncDims : ncDims[d].name = WithLen(NameOf(q))
    BY <1>1, <1>2 DEF DimTaken
  <1>4. d # 0 /\ DimNameNum \in Nat
    BY DEF IInv, TypeOK, FileOK, StaticsOK
  <1> DEFINE t == Response!LenSite(req, q)
  <1>5. t \in Response!StrSites(req) /\ t.key = q /\ t.names = {WithLen(NameOf(q))}
    BY <1>2, StrSiteIs
  <1> HIDE DEF t
  <1>6. ASSUME NEW b \in DOMAIN Dimensions, Dimensions[b].dimid = d
        PROVE  Response!Conflicting(req)
    <2> DEFINE m == Dimensions[b].name
    <2>1. /\ m = << >> => \E k \in 1..DimNameNum : ncDims[d].name = AutoDim(k)
          /\ m # << >> => ncDims[d].name = id2netcdf(m)
      BY <1>4, <1>6 DEF FilingInv, FileDimsOK, FileDimOK
    <2>2. PICK s \in Sites : KindOf(s.key) # "Str" /\ (m # << >> => m \in s.names)
      BY OriginSite
    <2> HIDE DEF m
    <2>3. m # << >>
      <3> SUFFICES ASSUME m = << >> PROVE FALSE
        OBVIOUS
      <3>1. PICK k \in 1..DimNameNum : ncDims[d].name = AutoDim(k)
        BY <2>1
      <3>2. k \in Nat
        BY <1>4
      <3> QED
        BY <1>2, <1>3, <3>1, <3>2, LengthNames
    <2>4. WithLen(NameOf(q)) = id2netcdf(m) /\ m \in s.names /\ WithLen(NameOf(q)) \in t.names
      BY <1>3, <1>5, <2>1, <2>2, <2>3
    <2>5. s # t
      BY <1>2, <1>5, <2>2
    <2> QED
      BY <1>5, <2>4, <2>5, Identifiers
  <1>7. ASSUME NEW p, OfStr(d, p)
        PROVE  Response!Conflicting(req)
    <2>1. p \in DOMAIN obj /\ KindOf(p) = "Str" /\ IsDefined(p) /\ WithLen(NameOf(p)) = WithLen(NameOf(q))
      BY <1>3, <1>7 DEF OfStr
    <2>2. NameOf(p) \in Path
      BY <2>1, ObjectsAre DEF FONcArray
    <2>3. NameOf(p) = NameOf(q)
      BY <1>2, <2>1, <2>2, LengthNames
    <2>4. ~obj[p].dontUse /\ p # q
      BY <1>2, <2>1 DEF FilingInv, FileVarsOK, FileVarOK
    <2> QED
      BY <1>2, <2>1, <2>3, <2>4, NamesClash
  <1> QED
    BY <1>6, <1>7 DEF FilingInv, FileDimsOK, NcDimOK

(* An array of a type that netCDF does not have.                           *)
LEMMA TypeConflicts ==
  ASSUME IInv, NamesOK, Awaited, NcTypeOf(At) = "NAT"
  PROVE  Response!Conflicting(req)
  <1>1. PICK q \in DOMAIN obj : q = At
    BY DEF Awaited
  <1>2. q \in Stored
    BY <1>1, ObjectsAre DEF Awaited, IsArrayKey, Simple
  <1>3. Response!FileType(req, q) = "NAT"
    BY <1>1, ResponseArrays
  <1> QED
    BY <1>2, <1>3 DEF Response!Conflicting, Response!NoFileType, Stored

(* define() gives up for these reasons alone.                              *)
LEMMA DefineRefuses ==
  ASSUME Define, status = "ok", status' = "conflict"
  PROVE  \/ DefineScalar /\ VarTaken(obj[At].varname)
         \/ DefineStr /\ KindOf(At) = "Str"
              /\ (DimTaken(WithLen(obj[At].varname)) \/ VarTaken(obj[At].varname))
         \/ DefineDim /\ DimTaken(DimIdentifier)
         \/ DefineArray /\ (VarTaken(obj[At].varname) \/ NcTypeOf(At) = "NAT")
  <1>1. CASE CreateFile \/ DefineSequence \/ SkipDefined \/ SkipDefinedDim \/ DefineNext \/ EndDefine
    BY <1>1 DEF CreateFile, DefineSequence, SkipDefined, SkipDefinedDim, DefineNext, EndDefine
  <1>2. CASE DefineScalar
    BY <1>2 DEF DefineScalar
  <1>3. CASE DefineStr
    BY <1>3 DEF DefineStr, Defining, KindOf
  <1>4. CASE DefineDim
    BY <1>4 DEF DefineDim
  <1>5. CASE DefineArray
    BY <1>5 DEF DefineArray
  <1> QED
    BY <1>1, <1>2, <1>3, <1>4, <1>5 DEF Define

(* What define refuses cannot live in one file.                            *)
LEMMA DefineConflicts ==
  ASSUME IInv, ReqOK, SourceInv, LastDims, MeasureInv, FilingInv, CoordinateMaps,
         Define, status = "ok", status' = "conflict"
  PROVE  Response!Conflicting(req)
  <1> USE DEF SourceInv
  <1>1. CASE DefineScalar /\ VarTaken(obj[At].varname)
    BY <1>1, SimpleAwaited, VarConflicts
  <1>2. CASE DefineStr /\ KindOf(At) = "Str"
              /\ (DimTaken(WithLen(obj[At].varname)) \/ VarTaken(obj[At].varname))
    BY <1>2, SimpleAwaited, VarConflicts, StringConflicts
  <1>3. CASE DefineDim /\ DimTaken(DimIdentifier)
    BY <1>3, IdentifierConflicts
  <1>4. CASE DefineArray /\ (VarTaken(obj[At].varname) \/ NcTypeOf(At) = "NAT")
    BY <1>4, ArrayAwaited, VarConflicts, TypeConflicts
  <1> QED
    BY <1>1, <1>2, <1>3, <1>4, DefineRefuses

---------------------------------------------------------------------------
(* Every request is answered as FONcResponse promises.                     *)

(* What a client sees of a request, as Promise has it.                     *)
Stage == IF pc = "idle" THEN "idle" ELSE IF pc = "destroy" THEN "answered" ELSE "busy"
Answer ==
  IF pc = "destroy"
  THEN [ok |-> status = "ok", reason |-> status,
        file |-> IF status = "ok" THEN NcFile ELSE {}]
  ELSE [ok |-> FALSE, reason |-> "none", file |-> {}]
Unseen == Stage' = Stage /\ req' = req /\ Answer' = Answer

(* All that is known of a request.                                         *)
Knowledge ==
  /\ IInv /\ ObjInv /\ ShapeInv /\ ShareInv /\ FileInv
  /\ Sourced /\ Measured /\ Filed

(* A request comes in.                                                     *)
LEMMA Accepts ==
  ASSUME NEW r \in Requests, Begin(r)
  PROVE  Response!Accept(r)
  <1>1. pc = "idle" /\ pc' = "convert" /\ req' = r
    BY DEF Begin, Goto
  <1> QED
    BY <1>1 DEF Response!Accept

(* The work on it shows nothing to the client,                             *)
LEMMA StaysBusy ==
  ASSUME Working, Working', req' = req
  PROVE  Unseen
  <1>1. pc \notin {"idle", "destroy"} /\ pc' \notin {"idle", "destroy"}
    BY DEF Working
  <1> QED
    BY <1>1 DEF Unseen, Stage, Answer

(* nor does the destructor.                                                *)
LEMMA StaysAnswered ==
  ASSUME DestroyVar \/ DestroyNext
  PROVE  Unseen
  <1>1. pc = "destroy" /\ pc' = "destroy" /\ UNCHANGED <<req, status, ncVars, ncDims>>
    BY DEF DestroyVar, DestroyNext, Goto, file
  <1>2. NcFile' = NcFile
    BY <1>1 DEF NcFile
  <1> QED
    BY <1>1, <1>2 DEF Unseen, Stage, Answer

(* transform() comes to its end: the file is closed, and it is whole.      *)
LEMMA ClosesWhole ==
  ASSUME Knowledge, ProperResponses, CloseFile
  PROVE  Response!Complete(req, NcFile) /\ Response!Faithful(req, NcFile) /\ NcFile' = NcFile
  <1>1. Ready /\ pc = "write" /\ UNCHANGED <<req, ncVars, ncDims>>
    BY DEF CloseFile, Ready
  <1>2. SourceInv /\ MeasureInv /\ FilingInv
    BY <1>1 DEF Knowledge, Sourced, Measured, Filed, FileInvs, Working
  <1>3. Response!Complete(req, NcFile)
    BY <1>1, <1>2, DeliversAll DEF Knowledge, ShareInv, ProperResponses
  <1>4. Response!Faithful(req, NcFile)
    BY <1>1, <1>2, DeliversOnly DEF Knowledge, ShareInv, ProperResponses, SourceInv
  <1>5. NcFile' = NcFile
    BY <1>1 DEF NcFile
  <1> QED
    BY <1>3, <1>4, <1>5

LEMMA Delivers ==
  ASSUME Knowledge, ProperResponses, CloseFile
  PROVE  Response!Deliver
  <1>1. pc = "write" /\ pc' = "destroy" /\ UNCHANGED <<req, status>>
    BY DEF CloseFile, Goto
  <1>2. status = "ok"
    BY <1>1 DEF Knowledge, FileInv
  <1> QED
    BY <1>1, <1>2, ClosesWhole DEF Response!Deliver

(* transform() gives up.                                                   *)
LEMMA Refuses ==
  ASSUME Working, pc' = "destroy", req' = req, status' # "ok",
         status' = "conflict" => Response!Conflicting(req)
  PROVE  Response!Refuse
  <1>1. pc \notin {"idle", "destroy"}
    BY DEF Working
  <1> QED
    BY <1>1 DEF Response!Refuse

(* The request is over.                                                    *)
LEMMA Releases ==
  ASSUME Finish
  PROVE  Response!Release
  <1>1. pc = "destroy" /\ pc' = "idle" /\ req' = << >>
    BY DEF Finish, Goto
  <1> QED
    BY <1>1 DEF Response!Release, Response!NoAnswer

(* The steps of the work that end it.                                      *)
LEMMA WorkEnds ==
  ASSUME Convert \/ Define \/ Write, ~Working'
  PROVE  \/ ConvertUnknown
         \/ DimensionClash
         \/ Define /\ pc' = "destroy" /\ status' = "conflict"
         \/ CloseFile
  <1>1. CASE Convert
    <2>1. CASE SkipUnsent \/ ConvertSimple \/ ConvertArray \/ ConvertGrid \/ EndConvert
      BY <2>1 DEF SkipUnsent, ConvertSimple, ConvertArray, ConvertGrid, EndConvert, StartArray, Goto, Working
    <2>2. CASE SkipMap \/ ShareMap \/ ConvertMap \/ ConvertGridArray \/ SkipGridArray
      BY <2>2 DEF SkipMap, ShareMap, ConvertMap, ConvertGridArray, SkipGridArray, StartArray,
                  GridConverted, Goto, Working
    <2>3. CASE ShareDim \/ NewDimension \/ ShareLength \/ NewLength
      BY <2>3 DEF ShareDim, NewDimension, ShareLength, NewLength, AtLength, NextDim, Working
    <2>4. CASE RegisterCoordinate \/ DropCoordinate \/ ArrayDone \/ MapDone \/ GridArrayDone
      BY <2>4 DEF RegisterCoordinate, DropCoordinate, ArrayDone, MapDone, GridArrayDone,
                  GridConverted, Goto, Working
    <2> QED
      BY <1>1, <2>1, <2>2, <2>3, <2>4 DEF Convert
  <1>2. CASE Define
    BY <1>2, WhenDefine DEF Working
  <1>3. CASE Write
    BY <1>3 DEF Write, WriteData, SkipWrite, WriteNext, Goto, Working
  <1> QED
    BY <1>1, <1>2, <1>3

(* Every step is one of FONcResponse or is not seen by the client.         *)
LEMMA StepPromise ==
  ASSUME Knowledge, ProperResponses, [Next]_vars
  PROVE  [Response!Next]_<<Stage, req, Answer>>
  <1>1. CASE \E r \in Requests : Begin(r)
    BY <1>1, Accepts DEF Response!Next
  <1>2. CASE UNCHANGED vars
    <2>1. UNCHANGED <<pc, req, status, ncVars, ncDims>>
      BY <1>2 DEF vars, file
    <2>2. NcFile' = NcFile
      BY <2>1 DEF NcFile
    <2> QED
      BY <2>1, <2>2 DEF Stage, Answer
  <1>3. CASE Destroy
    BY <1>3, Releases, StaysAnswered DEF Destroy, Response!Next, Unseen
  <1>4. CASE NcFails
    <2>1. Working /\ pc' = "destroy" /\ req' = req /\ status' = "failure"
      BY <1>4 DEF NcFails, ThrowAndClose, Throw, Working
    <2> QED
      BY <2>1, Refuses DEF Response!Next
  <1>5. CASE LibraryThrows
    <2>1. Working /\ pc' = "destroy" /\ req' = req /\ status' = "other"
      BY <1>5 DEF LibraryThrows, Throw, Working
    <2> QED
      BY <2>1, Refuses DEF Response!Next
  <1>6. CASE ~(\E r \in Requests : Begin(r)) /\ Working'
    <2>1. GoesOn
      BY <1>6 DEF GoesOn
    <2> QED
      BY <2>1, WorkStays, StaysBusy DEF Unseen
  <1>7. CASE (Convert \/ Define \/ Write) /\ ~Working'
    <2>1. Working
      BY <1>7, WhenConvert, WhenDefine DEF Write, WriteData, SkipWrite, WriteNext, CloseFile, Writing, Working
    <2>2. status = "ok" /\ SourceInv /\ MeasureInv /\ (pc = "define" => FilingInv)
      BY <2>1 DEF Knowledge, FileInv, Sourced, Measured, Filed, FileInvs, Working
    <2>3. CASE ConvertUnknown
      <3>1. pc' = "destroy" /\ req' = req /\ status' = "conflict"
        BY <2>3 DEF ConvertUnknown, Throw
      <3> QED
        BY <2>1, <2>3, <3>1, UnknownConflicts, Refuses DEF Knowledge, Response!Next
    <2>4. CASE DimensionClash
      <3>1. pc' = "destroy" /\ req' = req /\ status' = "conflict"
        BY <2>4 DEF DimensionClash, Throw
      <3>2. Response!Conflicting(req)
        BY <2>2, <2>4, ClashConflicts DEF Knowledge, ObjInv, ShapeInv, SourceInv
      <3> QED
        BY <2>1, <3>1, <3>2, Refuses DEF Response!Next
    <2>5. CASE Define /\ pc' = "destroy" /\ status' = "conflict"
      <3>1. req' = req
        <4>1. ~(\E r \in Requests : Begin(r)) /\ ~Finish
          BY <2>1 DEF Begin, Finish, Working
        <4> QED
          BY <4>1, SameRequest
      <3>2. pc = "define"
        BY <2>2, <2>5, DefineRefuses DEF DefineScalar, DefineStr, DefineDim, DefineArray, Defining, InDefine
      <3>3. Response!Conflicting(req)
        BY <2>2, <2>5, <3>2, DefineConflicts DEF Knowledge, ShareInv, ShapeInv, ProperResponses
      <3> QED
        BY <2>1, <2>5, <3>1, <3>3, Refuses DEF Response!Next
    <2>6. CASE CloseFile
      BY <2>6, Delivers DEF Response!Next
    <2> QED
      BY <1>7, <2>3, <2>4, <2>5, <2>6, WorkEnds
  <1> QED
    BY <1>1, <1>2, <1>3, <1>4, <1>5, <1>6, <1>7 DEF Next, Step

(* A coordinate variable has one dimension.                                *)
LEMMA MapsOneDim ==
  ASSUME CoordinateMaps
  PROVE  OneDimMaps
  BY DEF CoordinateMaps, OneDimMaps, IsCoordinate

(* FONcTransform implements FONcResponse: every request is answered, and   *)
(* what transform() answers with is a file that holds every variable to be *)
(* sent, with its type, its shape and its values, and no other; a request  *)
(* that transform() refuses of its own has variables that cannot live in   *)
(* one netCDF file.  So it is for all responses that are as DAP has them,  *)
(* however many of them a process is asked for, if it answers each in a    *)
(* state of its own (besstandalone) and no dimension for strings is made   *)
(* longer under an array (the runs ingrid and lengths).                    *)
THEOREM PromiseKept ==
  ASSUME Standalone, ProperResponses
  PROVE  Spec => Promise
  <1>1. OneDimMaps /\ LengthsApart
    BY MapsOneDim DEF ProperResponses
  <1>2. Init => Response!Init /\ FileInv
    BY DEF Init, Response!Init, Response!NoAnswer, FileInv, OpenOK
  <1>3. Spec => []Sourced
    BY <1>1, SourcesKnown
  <1>4. Spec => []Measured
    BY <1>1, MeasuresKnown
  <1>5. Spec => []Filed
    BY <1>1, FilesKnown
  <1>6. Spec => []ShareInv
    BY <1>1, SharingKnown
  <1>7. FileInv /\ [Next]_vars => FileInv'
    BY StepFile
  <1>8. IInv /\ ObjInv /\ ShapeInv /\ ShareInv /\ FileInv /\ Sourced /\ Measured /\ Filed /\ [Next]_vars
          => [Response!Next]_<<Stage, req, Answer>>
    BY StepPromise DEF Knowledge
  <1> QED
    BY <1>2, <1>3, <1>4, <1>5, <1>6, <1>7, <1>8, Invariance, ObjectsKnown, ShapesKnown, PTL
    DEF Spec, Promise, Response!Spec, Stage, Answer

---------------------------------------------------------------------------
(* What the docs say of a file, where it is so.                            *)

(* transform() has answered with a file and destroyed nothing yet.         *)
LEMMA JustDelivered ==
  ASSUME IInv, [Next]_vars, Delivered', vi' = 1
  PROVE  CloseFile \/ UNCHANGED vars
  <1>1. pc' = "destroy" /\ status' = "ok" /\ ~Working'
    BY DEF Delivered, Working
  <1>2. ~(\E r \in Requests : Begin(r)) /\ ~Finish
    BY <1>1 DEF Begin, Finish, Goto
  <1>3. ~DestroyVar /\ ~DestroyNext
    <2>1. vi \in Nat \ {0}
      BY ControlTypes
    <2> QED
      BY <2>1 DEF DestroyVar, DestroyNext, Goto
  <1>4. ~ConvertUnknown /\ ~DimensionClash /\ ~NcFails /\ ~LibraryThrows
    BY <1>1 DEF ConvertUnknown, DimensionClash, NcFails, LibraryThrows, ThrowAndClose, Throw
  <1> QED
    BY <1>1, <1>2, <1>3, <1>4, WorkEnds DEF Next, Step, Destroy

(* The file's dimensions of an array have the sizes of the response.       *)
LEMMA ArraySizes ==
  ASSUME IInv, NamesOK, MeasureInv, FilingInv, pc = "write",
         NEW p \in DOMAIN obj, IsDefined(p), IsArrayKey(p), NEW k \in DOMAIN ArrOf(req, p).dims
  PROVE  ncDims[FileDim(p, k)].size = ArrOf(req, p).dims[k].size
  <1> DEFINE v == obj[p].varid
  <1>1. v \in DOMAIN ncVars /\ VarDims(p, ncVars[v].dims)
    BY DEF FilingInv, FileVarsOK, FileVarOK, VarIs
  <1>2. ArrOf(req, p).dims \in Seq(Dim) /\ obj[p].dims \in Seq(Nat)
    BY ObjectsAre DEF Arr, FONcArray
  <1>3. Len(obj[p].dims) = Len(ArrOf(req, p).dims) + Extra(p) /\ Extra(p) \in {0, 1}
    BY DEF MeasureInv, LengthsOK, LengthOK, Unfinished, Extra
  <1>4. k \in DOMAIN obj[p].dims
    <2>1. k \in 1..Len(ArrOf(req, p).dims) /\ Len(ArrOf(req, p).dims) \in Nat
      BY <1>2
    <2>2. DOMAIN obj[p].dims = 1..Len(obj[p].dims)
      BY <1>2
    <2> QED
      BY <1>3, <2>1, <2>2
  <1>5. ncVars[v].dims[k] = FileDim(p, k) /\ k \in DOMAIN ncVars[v].dims
    BY <1>1, <1>4 DEF VarDims
  <1>6. ShapeOf(v)[k] = ncDims[FileDim(p, k)]
    BY <1>1, <1>5, ShapeSeq
  <1>7. ShapeOf(v)[k].size = ArrOf(req, p).dims[k].size
    BY ArrayShape DEF ShapeIs
  <1> QED
    BY <1>6, <1>7

(* An array has the shape it has in the response (FONcArray.cc:140), unless*)
(* one of its dimensions is made longer for another array's strings (the   *)
(* run lengths).                                                           *)
THEOREM ShapesAreKept ==
  ASSUME Standalone, OneDimMaps, LengthsApart
  PROVE  Spec => []ShapesKept
  <1>1. Init => ShapesKept /\ FileInv
    BY DEF Init, ShapesKept, Delivered, FileInv, OpenOK
  <1>2. IInv /\ Sourced /\ Measured /\ Filed /\ FileInv /\ ShapesKept /\ [Next]_vars => ShapesKept'
    <2> SUFFICES ASSUME IInv, Sourced, Measured, Filed, ShapesKept, [Next]_vars, Delivered', vi' = 1
                 PROVE  ShapesKept'
      BY DEF ShapesKept
    <2>1. CASE CloseFile
      <3>1. pc = "write" /\ Working /\ UNCHANGED <<req, obj, Dimensions, ncDims>>
        BY <2>1 DEF CloseFile, converted, statics, Working
      <3>2. NamesOK /\ MeasureInv /\ FilingInv
        BY <3>1 DEF Sourced, SourceInv, Measured, Filed, FileInvs
      <3>3. \A p \in {q \in StoredArrays : IsDefined(q)} : \A k \in DOMAIN ArrOf(req, p).dims :
               ncDims[FileDim(p, k)].size = ArrOf(req, p).dims[k].size
        BY <3>1, <3>2, ArraySizes DEF StoredArrays, IsArrayKey, KindOf
      <3> QED
        BY <3>1, <3>3 DEF ShapesKept, StoredArrays, IsDefined, FileDim
    <2>2. CASE UNCHANGED vars
      BY <2>2 DEF vars, cursor, converted, statics, file, ShapesKept, Delivered, StoredArrays, IsDefined, FileDim
    <2> QED
      BY <2>1, <2>2, JustDelivered
  <1>3. FileInv /\ [Next]_vars => FileInv'
    BY StepFile
  <1>4. Spec => []Sourced
    BY SourcesKnown
  <1>5. Spec => []Measured
    BY MeasuresKnown
  <1>6. Spec => []Filed
    BY FilesKnown
  <1> QED
    BY <1>1, <1>2, <1>3, <1>4, <1>5, <1>6, Invariance, PTL DEF Spec

(* A delivered file is whole, also while the objects are destroyed.        *)
WholeFile ==
  Delivered => Response!Complete(req, NcFile) /\ Response!Faithful(req, NcFile)

LEMMA StepWhole ==
  ASSUME Knowledge, ProperResponses, WholeFile, [Next]_vars
  PROVE  WholeFile'
  <1> SUFFICES ASSUME Delivered'
               PROVE  Response!Complete(req', NcFile') /\ Response!Faithful(req', NcFile')
    BY DEF WholeFile
  <1>1. pc' = "destroy" /\ status' = "ok" /\ ~Working'
    BY DEF Delivered, Working
  <1>2. ~(\E r \in Requests : Begin(r)) /\ ~Finish
    BY <1>1 DEF Begin, Finish, Goto
  <1>3. ~ConvertUnknown /\ ~DimensionClash /\ ~NcFails /\ ~LibraryThrows
    BY <1>1 DEF ConvertUnknown, DimensionClash, NcFails, LibraryThrows, ThrowAndClose, Throw
  <1>4. CASE CloseFile
    <2>1. req' = req
      BY <1>4 DEF CloseFile
    <2> QED
      BY <1>4, <2>1, ClosesWhole
  <1>5. CASE DestroyVar \/ DestroyNext \/ UNCHANGED vars
    <2>1. Delivered /\ UNCHANGED <<req, ncVars, ncDims>>
      BY <1>1, <1>5 DEF DestroyVar, DestroyNext, vars, file, Delivered
    <2>2. NcFile' = NcFile
      BY <2>1 DEF NcFile
    <2> QED
      BY <2>1, <2>2 DEF WholeFile
  <1> QED
    BY <1>1, <1>2, <1>3, <1>4, <1>5, WorkEnds DEF Next, Step, Destroy

(* No coordinate variable of a structure equals another that is not called *)
(* like it.                                                                *)
MembersApart ==
  \A r \in Requests : \A p, q \in Response!Stored(r) :
     EmbedOf(r, p) # << >> /\ Response!StandsFor(r, q, p)
       => Response!FileName(r, q) = Response!FileName(r, p)

(* The members of structures are in the file under their embedded names    *)
(* (FONcStructure.cc:85), unless an equal coordinate variable stands for   *)
(* one of them (the run members).                                          *)
THEOREM MembersAreNamed ==
  ASSUME Standalone, ProperResponses, MembersApart
  PROVE  Spec => []MembersNamed
  <1>1. OneDimMaps /\ LengthsApart
    BY MapsOneDim DEF ProperResponses
  <1>2. Init => WholeFile /\ FileInv
    BY DEF Init, WholeFile, Delivered, FileInv, OpenOK
  <1>3. ReqOK /\ WholeFile => MembersNamed
    <2> SUFFICES ASSUME ReqOK, WholeFile, Delivered, NEW p \in Stored, EmbedOf(req, p) # << >>
                 PROVE  \E f \in NcFile : f.name = Response!FileName(req, p)
      BY DEF MembersNamed
    <2>1. PICK f \in NcFile : \/ f.name = Response!FileName(req, p)
                              \/ \E q \in Stored : /\ Response!StandsFor(req, q, p)
                                                   /\ f.name = Response!FileName(req, q)
      BY DEF WholeFile, Response!Complete, Stored
    <2>2. req \in Requests
      <3>1. req # << >>
        BY DEF Stored, Response!Stored, Response!Sources
      <3> QED
        BY <3>1 DEF ReqOK
    <2> QED
      BY <2>1, <2>2 DEF MembersApart, Stored
  <1>4. IInv /\ ObjInv /\ ShapeInv /\ ShareInv /\ FileInv /\ Sourced /\ Measured /\ Filed
          /\ WholeFile /\ [Next]_vars => WholeFile'
    BY StepWhole DEF Knowledge
  <1>5. FileInv /\ [Next]_vars => FileInv'
    BY StepFile
  <1>6. ShareInv => ReqOK
    BY DEF ShareInv
  <1>7. Spec => []Sourced
    BY <1>1, SourcesKnown
  <1>8. Spec => []Measured
    BY <1>1, MeasuresKnown
  <1>9. Spec => []Filed
    BY <1>1, FilesKnown
  <1>10. Spec => []ShareInv
    BY <1>1, SharingKnown
  <1> QED
    BY <1>2, <1>3, <1>4, <1>5, <1>6, <1>7, <1>8, <1>9, <1>10, Invariance, ObjectsKnown, ShapesKnown, PTL
    DEF Spec

---------------------------------------------------------------------------
(* Every request comes to its end.                                         *)

(* What a request has before it: the phases of transform(), the variables  *)
(* of the loop, the arrays of a variable and the dimensions of an array.   *)
Upto(i, n) == IF i > n THEN 0 ELSE n + 1 - i
Phase ==
  IF pc = "idle" THEN 0 ELSE IF pc = "destroy" THEN 1 ELSE IF pc = "write" THEN 2
  ELSE IF pc = "define" THEN 3 ELSE IF pc = "create" THEN 4 ELSE 5
VarsLeft == Upto(vi, Len(req))
ArraysLeft ==
  IF vi > Len(req) \/ pc \in {"idle", "create", "destroy"} THEN 0
  ELSE IF pc \in {"define", "write"} THEN Upto(mi, Len(Targets(vi)))
  ELSE IF pc = "convert" THEN 2 * Len(CurVar.maps) + 4
  ELSE IF pc = "maps" THEN 2 * Upto(mi, Len(CurVar.maps)) + 2
  ELSE IF mi = 0 THEN 0 ELSE 2 * Upto(mi, Len(CurVar.maps)) + 1
DimsLeft ==
  IF pc = "dims" THEN Upto(di, Len(CurArr.dims) + 1)
  ELSE IF pc = "define" /\ InDefine THEN Upto(di, Len(obj[At].dims))
  ELSE 0
Rank == <<Phase, <<VarsLeft, <<ArraysLeft, DimsLeft>>>>>>

(* Of these, one becomes less and those before it remain.                  *)
Less == OpToRel(<, Nat)
Pairs == Nat \X Nat
Triples == Nat \X Pairs
Ranks == Nat \X Triples
Lower ==
  LexPairOrdering(Less, LexPairOrdering(Less, LexPairOrdering(Less, Less, Nat, Nat), Nat, Pairs), Nat, Triples)

Nearer ==
  \/ Phase' < Phase
  \/ Phase' = Phase /\ VarsLeft' < VarsLeft
  \/ Phase' = Phase /\ VarsLeft' = VarsLeft /\ ArraysLeft' < ArraysLeft
  \/ Phase' = Phase /\ VarsLeft' = VarsLeft /\ ArraysLeft' = ArraysLeft /\ DimsLeft' < DimsLeft

(* There is no end of becoming less.                                       *)
LEMMA LowerEnds == IsWellFoundedOn(Lower, Ranks)
  <1>1. IsWellFoundedOn(Less, Nat)
    BY NatLessThanWellFounded DEF Less
  <1> HIDE DEF Less
  <1>2. IsWellFoundedOn(LexPairOrdering(Less, Less, Nat, Nat), Pairs)
    BY <1>1, WFLexPairOrdering DEF Pairs
  <1> DEFINE P == LexPairOrdering(Less, Less, Nat, Nat)
  <1> HIDE DEF P
  <1>3. IsWellFoundedOn(LexPairOrdering(Less, P, Nat, Pairs), Triples)
    <2>1. IsWellFoundedOn(P, Pairs)
      BY <1>2 DEF P
    <2> HIDE DEF Pairs
    <2> QED
      BY <1>1, <2>1, WFLexPairOrdering DEF Triples
  <1> DEFINE T == LexPairOrdering(Less, P, Nat, Pairs)
  <1> HIDE DEF T
  <1>4. IsWellFoundedOn(LexPairOrdering(Less, T, Nat, Triples), Ranks)
    <2>1. IsWellFoundedOn(T, Triples)
      BY <1>3 DEF T
    <2> HIDE DEF Triples
    <2> QED
      BY <1>1, <2>1, WFLexPairOrdering DEF Ranks
  <1> QED
    BY <1>4 DEF Lower, T, P

LEMMA LexPairs ==
  ASSUME NEW R1, NEW R2, NEW S1, NEW S2, NEW a \in S1, NEW b \in S2, NEW c \in S1, NEW d \in S2
  PROVE  <<<<a, b>>, <<c, d>>>> \in LexPairOrdering(R1, R2, S1, S2)
           <=> <<a, c>> \in R1 \/ (a = c /\ <<b, d>> \in R2)
  BY DEF LexPairOrdering

(* What is left to do is counted by numbers.                               *)
LEMMA UptoNat ==
  ASSUME NEW i \in Nat, NEW n \in Nat
  PROVE  /\ Upto(i, n) \in Nat
         /\ i <= n => Upto(i, n) \in Nat \ {0} /\ Upto(i + 1, n) = Upto(i, n) - 1
  BY DEF Upto

(* Where the iterators are while a variable is converted.                  *)
LEMMA MapsCursor ==
  ASSUME IInv, pc = "maps"
  PROVE  vi <= Len(req)
  <1>1. vi \in DOMAIN req /\ req \in Seq(Var)
    BY ControlTypes DEF IInv, CursorOK
  <1> QED
    BY <1>1

LEMMA DimsCursor ==
  ASSUME IInv, pc = "dims"
  PROVE  vi <= Len(req) /\ (mi > 0 => mi \in DOMAIN CurVar.maps)
  <1>1. Cur \in DOMAIN obj
    BY CurTypes
  <1>2. ValidKey(Cur) /\ req \in Seq(Var) /\ mi \in Nat
    BY <1>1, ControlTypes DEF IInv, KeysOK
  <1>3. vi \in DOMAIN req /\ (mi = 0 \/ mi \in DOMAIN req[vi].maps)
    BY <1>2 DEF ValidKey, Cur
  <1> QED
    BY <1>2, <1>3 DEF CurVar

LEMMA CurMaps ==
  ASSUME IInv, vi <= Len(req)
  PROVE  CurVar.maps \in Seq(Arr) /\ Len(CurVar.maps) \in Nat
  <1>1. vi \in DOMAIN req /\ req \in Seq(Var)
    BY ControlTypes
  <1>2. CurVar \in Var
    BY <1>1 DEF CurVar
  <1> QED
    BY <1>2 DEF Var

LEMMA CountsLeft ==
  ASSUME IInv
  PROVE  Phase \in Nat /\ VarsLeft \in Nat /\ ArraysLeft \in Nat /\ DimsLeft \in Nat
  <1>1. vi \in Nat /\ mi \in Nat /\ di \in Nat /\ req \in Seq(Var) /\ Len(req) \in Nat
    BY ControlTypes
  <1>2. Phase \in Nat
    BY DEF Phase
  <1>3. VarsLeft \in Nat
    BY <1>1, UptoNat DEF VarsLeft
  <1>4. ArraysLeft \in Nat
    <2>1. CASE vi > Len(req) \/ pc \in {"idle", "create", "destroy"}
      BY <2>1 DEF ArraysLeft
    <2>2. CASE vi <= Len(req) /\ pc \notin {"idle", "create", "destroy"}
      <3>1. vi \in DOMAIN req
        BY <2>2, ControlTypes
      <3>2. Len(CurVar.maps) \in Nat
        BY <2>2, CurMaps
      <3>3. Len(Targets(vi)) \in Nat
        BY <3>1, TargetsAre
      <3>4. Upto(mi, Len(CurVar.maps)) \in Nat /\ Upto(mi, Len(Targets(vi))) \in Nat
        BY <1>1, <3>2, <3>3, UptoNat
      <3> QED
        BY <1>1, <2>2, <3>2, <3>4 DEF ArraysLeft
    <2> QED
      BY <1>1, <2>1, <2>2
  <1>5. DimsLeft \in Nat
    <2>1. CASE pc = "dims"
      <3>1. Len(CurArr.dims) + 1 \in Nat
        <4>1. CurArr \in Arr
          BY <2>1, CurTypes
        <4> QED
          BY <4>1 DEF Arr
      <3> QED
        BY <1>1, <2>1, <3>1, UptoNat DEF DimsLeft
    <2>2. CASE pc = "define" /\ InDefine
      <3>1. Len(obj[At].dims) \in Nat
        <4>1. obj[At] \in FONcArray
          BY <2>2, AtTypes DEF InDefine
        <4> QED
          BY <4>1 DEF FONcArray
      <3> QED
        BY <1>1, <2>2, <3>1, UptoNat DEF DimsLeft
    <2> QED
      BY <2>1, <2>2 DEF DimsLeft
  <1> QED
    BY <1>2, <1>3, <1>4, <1>5

(* The next variable, or the next array of a variable in the file.         *)
LEMMA NextVarNearer ==
  ASSUME IInv, vi <= Len(req), vi' = vi + 1, req' = req, Phase' = Phase
  PROVE  Nearer
  <1>1. vi \in Nat /\ Len(req) \in Nat
    BY ControlTypes
  <1>2. VarsLeft \in Nat \ {0} /\ VarsLeft' = VarsLeft - 1
    BY <1>1, UptoNat DEF VarsLeft
  <1> QED
    BY <1>2 DEF Nearer

LEMMA NextTargetNearer ==
  ASSUME IInv, pc \in {"define", "write"}, pc' = pc, vi' = vi, vi <= Len(req),
         mi <= Len(Targets(vi)), mi' = mi + 1, UNCHANGED <<req, held, Maps>>, DOMAIN obj' = DOMAIN obj
  PROVE  Nearer
  <1>1. vi \in Nat /\ mi \in Nat /\ Len(req) \in Nat /\ vi \in DOMAIN req
    BY ControlTypes
  <1>2. Len(Targets(vi)) \in Nat
    BY <1>1, TargetsAre
  <1>3. Targets(vi)' = Targets(vi)
    BY DEF Targets
  <1>4. ArraysLeft = Upto(mi, Len(Targets(vi))) /\ ArraysLeft' = Upto(mi + 1, Len(Targets(vi)))
    BY <1>1, <1>3 DEF ArraysLeft
  <1>5. ArraysLeft' < ArraysLeft
    <2>1. PICK n \in Nat : n = Len(Targets(vi))
      BY <1>2
    <2>2. Upto(mi, n) \in Nat \ {0} /\ Upto(mi + 1, n) = Upto(mi, n) - 1
      BY <1>1, <2>1, UptoNat
    <2> QED
      BY <1>4, <2>1, <2>2
  <1>6. Phase' = Phase /\ VarsLeft' = VarsLeft
    BY DEF Phase, VarsLeft
  <1> QED
    BY <1>5, <1>6 DEF Nearer

(* The steps of conversion.                                                *)
LEMMA ConvertNearer ==
  ASSUME IInv, Convert
  PROVE  Nearer
  <1> USE DEF Goto, NextDim
  <1>1. /\ pc \in {"convert", "maps", "dims"} /\ Phase = 5
        /\ vi \in Nat \ {0} /\ mi \in Nat /\ di \in Nat /\ req \in Seq(Var) /\ Len(req) \in Nat
    BY WhenConvert, ControlTypes DEF Phase
  <1>2. CASE SkipUnsent \/ ConvertSimple
    BY <1>2, NextVarNearer DEF SkipUnsent, ConvertSimple, Phase
  <1>3. CASE SkipGridArray
    BY <1>3, MapsCursor, NextVarNearer DEF SkipGridArray, GridConverted, Phase
  <1>4. CASE RegisterCoordinate \/ DropCoordinate \/ ArrayDone \/ GridArrayDone
    <2>1. pc = "dims" /\ pc' = "convert" /\ vi' = vi + 1 /\ req' = req
      BY <1>4 DEF RegisterCoordinate, DropCoordinate, ArrayDone, GridArrayDone, GridConverted, DimsDone
    <2>2. vi <= Len(req)
      BY <1>1, <2>1, DimsCursor
    <2> QED
      BY <2>1, <2>2, NextVarNearer DEF Phase
  <1>5. CASE EndConvert \/ ConvertUnknown \/ DimensionClash
    <2>1. Phase' < Phase
      BY <1>1, <1>5 DEF EndConvert, ConvertUnknown, DimensionClash, Throw, Phase
    <2> QED
      BY <2>1 DEF Nearer
  <1>6. CASE ConvertArray \/ ConvertGrid
    <2>1. /\ pc = "convert" /\ vi <= Len(req) /\ vi' = vi /\ req' = req
          /\ (pc' = "dims" /\ mi' = 0) \/ (pc' = "maps" /\ mi' = 1)
      BY <1>6 DEF ConvertArray, ConvertGrid, StartArray
    <2>2. Len(CurVar.maps) \in Nat /\ CurVar' = CurVar
      BY <1>1, <2>1, CurMaps DEF CurVar
    <2>3. PICK n \in Nat : n = Len(CurVar.maps)
      BY <2>2
    <2>4. ArraysLeft = 2 * n + 4 /\ ArraysLeft' \in {0, 2 * Upto(1, n) + 2}
      BY <1>1, <2>1, <2>2, <2>3 DEF ArraysLeft
    <2>5. ArraysLeft' < ArraysLeft
      BY <2>4 DEF Upto
    <2>6. Phase' = Phase /\ VarsLeft' = VarsLeft
      BY <2>1 DEF Phase, VarsLeft
    <2> QED
      BY <2>5, <2>6 DEF Nearer
  <1>7. CASE SkipMap \/ ShareMap \/ ConvertMap \/ ConvertGridArray
    <2>1. /\ pc = "maps" /\ vi' = vi /\ req' = req
          /\ \/ pc' = "maps" /\ mi <= Len(CurVar.maps) /\ mi' = mi + 1
             \/ pc' = "dims" /\ mi <= Len(CurVar.maps) /\ mi' = mi
             \/ pc' = "dims" /\ mi > Len(CurVar.maps) /\ mi' = 0
      BY <1>7 DEF SkipMap, ShareMap, ConvertMap, ConvertGridArray, StartArray, Cur
    <2>2. vi <= Len(req)
      BY <1>1, <2>1, MapsCursor
    <2>3. Len(CurVar.maps) \in Nat /\ CurVar' = CurVar
      BY <1>1, <2>1, <2>2, CurMaps DEF CurVar
    <2>4. PICK n \in Nat : n = Len(CurVar.maps)
      BY <2>3
    <2>5. /\ ArraysLeft = 2 * Upto(mi, n) + 2
          /\ \/ mi <= n /\ ArraysLeft' = 2 * Upto(mi + 1, n) + 2
             \/ mi <= n /\ ArraysLeft' \in {0, 2 * Upto(mi, n) + 1}
             \/ mi > n /\ ArraysLeft' = 0
      BY <1>1, <2>1, <2>2, <2>3, <2>4 DEF ArraysLeft
    <2>6. ArraysLeft' < ArraysLeft
      BY <1>1, <2>5 DEF Upto
    <2>7. Phase' = Phase /\ VarsLeft' = VarsLeft
      BY <2>1 DEF Phase, VarsLeft
    <2> QED
      BY <2>6, <2>7 DEF Nearer
  <1>8. CASE MapDone
    <2>1. pc = "dims" /\ pc' = "maps" /\ vi' = vi /\ req' = req /\ mi > 0 /\ mi' = mi + 1
      BY <1>8 DEF MapDone, DimsDone
    <2>2. vi <= Len(req) /\ mi \in DOMAIN CurVar.maps
      BY <1>1, <2>1, DimsCursor
    <2>3. Len(CurVar.maps) \in Nat /\ CurVar' = CurVar /\ mi <= Len(CurVar.maps)
      BY <1>1, <2>1, <2>2, CurMaps DEF CurVar
    <2>4. PICK n \in Nat : n = Len(CurVar.maps)
      BY <2>3
    <2>5. ArraysLeft = 2 * Upto(mi, n) + 1 /\ ArraysLeft' = 2 * Upto(mi + 1, n) + 2
      BY <1>1, <2>1, <2>2, <2>3, <2>4 DEF ArraysLeft
    <2>6. ArraysLeft' < ArraysLeft
      <3>1. mi <= n
        BY <2>3, <2>4
      <3>2. Upto(mi, n) \in Nat /\ Upto(mi + 1, n) = Upto(mi, n) - 1
        BY <1>1, <3>1, UptoNat
      <3> QED
        BY <2>5, <3>2
    <2>7. Phase' = Phase /\ VarsLeft' = VarsLeft
      BY <2>1 DEF Phase, VarsLeft
    <2> QED
      BY <2>6, <2>7 DEF Nearer
  <1>9. CASE ShareDim \/ NewDimension \/ ShareLength \/ NewLength
    <2>1. /\ pc = "dims" /\ UNCHANGED <<pc, vi, mi, req>> /\ di' = di + 1
          /\ di <= Len(CurArr.dims) \/ di = Len(CurArr.dims) + 1
      BY <1>9 DEF ShareDim, NewDimension, ShareLength, NewLength, AtLength
    <2>2. Len(CurArr.dims) \in Nat
      <3>1. CurArr \in Arr
        BY <2>1, CurTypes
      <3> QED
        BY <3>1 DEF Arr
    <2>3. CurArr' = CurArr /\ CurVar' = CurVar
      BY <2>1 DEF CurArr, CurVar, Cur
    <2>4. PICK n \in Nat : n = Len(CurArr.dims)
      BY <2>2
    <2>5. DimsLeft = Upto(di, n + 1) /\ DimsLeft' = Upto(di + 1, n + 1)
      BY <2>1, <2>3, <2>4 DEF DimsLeft
    <2>6. DimsLeft' < DimsLeft
      <3>1. di <= n + 1 /\ n + 1 \in Nat
        BY <1>1, <2>1, <2>4
      <3>2. Upto(di, n + 1) \in Nat /\ Upto(di + 1, n + 1) = Upto(di, n + 1) - 1
        BY <1>1, <3>1, UptoNat
      <3> QED
        BY <2>5, <3>2
    <2>7. Phase' = Phase /\ VarsLeft' = VarsLeft /\ ArraysLeft' = ArraysLeft
      BY <2>1, <2>3 DEF Phase, VarsLeft, ArraysLeft
    <2> QED
      BY <2>6, <2>7 DEF Nearer
  <1> QED
    BY <1>2, <1>3, <1>4, <1>5, <1>6, <1>7, <1>8, <1>9 DEF Convert

(* The steps of definition.                                                *)
LEMMA DefineNearer ==
  ASSUME IInv, Define
  PROVE  Nearer
  <1> USE DEF Goto, NextTarget, NextDim
  <1>1. /\ vi \in Nat \ {0} /\ mi \in Nat /\ di \in Nat /\ req \in Seq(Var) /\ Len(req) \in Nat
        /\ DOMAIN obj' = DOMAIN obj /\ UNCHANGED <<req, held, Maps>>
    <2>1. req' = req
      BY DEF Define, CreateFile, DefineScalar, DefineStr, DefineSequence, SkipDefined, DefineDim,
             SkipDefinedDim, DefineArray, DefineNext, EndDefine
    <2> QED
      BY <2>1, WhenDefine, ControlTypes
  <1>2. CASE CreateFile \/ EndDefine
    <2>1. Phase' < Phase
      BY <1>2 DEF CreateFile, EndDefine, Phase
    <2> QED
      BY <2>1 DEF Nearer
  <1>3. CASE pc = "define" /\ pc' = "destroy"
    <2>1. Phase' < Phase
      BY <1>3 DEF Phase
    <2> QED
      BY <2>1 DEF Nearer
  <1>4. CASE DefineSequence \/ DefineNext
    BY <1>4, NextVarNearer DEF DefineSequence, DefineNext, Phase
  <1>5. CASE DefineScalar \/ DefineStr \/ SkipDefined \/ DefineArray
    <2>1. /\ pc = "define" /\ vi <= Len(req) /\ mi <= Len(Targets(vi))
          /\ pc' = "destroy" \/ (pc' = "define" /\ vi' = vi /\ mi' = mi + 1)
      BY <1>5 DEF DefineScalar, DefineStr, SkipDefined, DefineArray, Defining, InDefine, Refuse,
                  ThrowAndClose, Throw
    <2> QED
      BY <1>1, <1>3, <2>1, NextTargetNearer
  <1>6. CASE DefineDim \/ SkipDefinedDim
    <2>1. /\ pc = "define" /\ InDefine /\ di <= Len(obj[At].dims) /\ obj' = obj
          /\ pc' = "destroy" \/ (UNCHANGED <<pc, vi, mi>> /\ di' = di + 1)
      BY <1>6 DEF DefineDim, SkipDefinedDim, Defining, InDefine, Refuse, ThrowAndClose, Throw, converted
    <2>2. SUFFICES ASSUME UNCHANGED <<pc, vi, mi>>, di' = di + 1 PROVE Nearer
      BY <1>3, <2>1
    <2>3. Targets(vi)' = Targets(vi) /\ At' = At
      BY <1>1, <2>2 DEF Targets, At
    <2>4. InDefine'
      BY <1>1, <2>1, <2>2, <2>3 DEF InDefine
    <2>5. PICK n \in Nat : n = Len(obj[At].dims)
      <3>1. obj[At] \in FONcArray
        BY <2>1, AtTypes DEF InDefine
      <3> QED
        BY <3>1 DEF FONcArray
    <2>6. DimsLeft = Upto(di, n) /\ DimsLeft' = Upto(di + 1, n)
      BY <2>1, <2>2, <2>3, <2>4, <2>5 DEF DimsLeft
    <2>7. Upto(di, n) \in Nat /\ Upto(di + 1, n) = Upto(di, n) - 1
      BY <1>1, <2>1, <2>5, UptoNat
    <2>8. Phase' = Phase /\ VarsLeft' = VarsLeft /\ ArraysLeft' = ArraysLeft
      BY <1>1, <2>1, <2>2, <2>3 DEF Phase, VarsLeft, ArraysLeft
    <2> QED
      BY <2>6, <2>7, <2>8 DEF Nearer
  <1> QED
    BY <1>2, <1>4, <1>5, <1>6 DEF Define

(* The steps of writing, of destruction and of failure.                    *)
LEMMA WriteNearer ==
  ASSUME IInv, Write
  PROVE  Nearer
  <1>1. pc = "write" /\ Phase = 2
    BY DEF Write, WriteData, SkipWrite, WriteNext, CloseFile, Writing, Phase
  <1>2. CASE CloseFile
    <2>1. Phase' < Phase
      BY <1>1, <1>2 DEF CloseFile, Goto, Phase
    <2> QED
      BY <2>1 DEF Nearer
  <1>3. CASE WriteNext
    BY <1>3, NextVarNearer DEF WriteNext, Goto, Phase
  <1>4. CASE WriteData \/ SkipWrite
    BY <1>4, NextTargetNearer DEF WriteData, SkipWrite, Writing, Goto, converted, statics
  <1> QED
    BY <1>2, <1>3, <1>4 DEF Write

LEMMA DestroyNearer ==
  ASSUME IInv, Destroy
  PROVE  Nearer
  <1>1. CASE Finish
    <2>1. Phase' < Phase
      BY <1>1 DEF Finish, Goto, Phase
    <2> QED
      BY <2>1 DEF Nearer
  <1>2. CASE DestroyVar \/ DestroyNext
    BY <1>2, NextVarNearer DEF DestroyVar, DestroyNext, Goto, Phase
  <1> QED
    BY <1>1, <1>2 DEF Destroy

LEMMA FailNearer ==
  ASSUME NcFails \/ LibraryThrows
  PROVE  Nearer
  <1>1. Phase' < Phase
    BY DEF NcFails, LibraryThrows, ThrowAndClose, Throw, Phase
  <1> QED
    BY <1>1 DEF Nearer

LEMMA StepNearer ==
  ASSUME IInv, Step
  PROVE  Nearer
  BY ConvertNearer, DefineNearer, WriteNearer, DestroyNearer, FailNearer DEF Step

(* What is nearer is lower.                                                *)
RankOK == Phase \in Nat /\ VarsLeft \in Nat /\ ArraysLeft \in Nat /\ DimsLeft \in Nat

LEMMA LessIs ==
  ASSUME NEW a \in Nat, NEW b \in Nat
  PROVE  <<a, b>> \in Less <=> a < b
  BY DEF Less, OpToRel

LEMMA Lexicographic ==
  ASSUME NEW x \in Ranks, NEW y \in Ranks,
         \/ x[1] < y[1]
         \/ x[1] = y[1] /\ x[2][1] < y[2][1]
         \/ x[1] = y[1] /\ x[2][1] = y[2][1] /\ x[2][2][1] < y[2][2][1]
         \/ /\ x[1] = y[1] /\ x[2][1] = y[2][1] /\ x[2][2][1] = y[2][2][1]
            /\ x[2][2][2] < y[2][2][2]
  PROVE  <<x, y>> \in Lower
  <1> PICK a \in Nat, b \in Nat, c \in Nat, d \in Nat : x = <<a, <<b, <<c, d>>>>>>
    BY DEF Ranks, Triples, Pairs
  <1> PICK e \in Nat, f \in Nat, g \in Nat, h \in Nat : y = <<e, <<f, <<g, h>>>>>>
    BY DEF Ranks, Triples, Pairs
  <1> DEFINE L1 == LexPairOrdering(Less, Less, Nat, Nat)
             L2 == LexPairOrdering(Less, L1, Nat, Pairs)
  <1>1. <<c, d>> \in Pairs /\ <<g, h>> \in Pairs
    BY DEF Pairs
  <1>2. <<b, <<c, d>>>> \in Triples /\ <<f, <<g, h>>>> \in Triples
    BY <1>1 DEF Triples
  <1>3. << <<c, d>>, <<g, h>> >> \in L1 <=> c < g \/ (c = g /\ d < h)
    <2>1. << <<c, d>>, <<g, h>> >> \in L1 <=> <<c, g>> \in Less \/ (c = g /\ <<d, h>> \in Less)
      BY LexPairs
    <2> QED
      BY <2>1, LessIs
  <1> HIDE DEF L1
  <1>4. << <<b, <<c, d>>>>, <<f, <<g, h>>>> >> \in L2
          <=> b < f \/ (b = f /\ << <<c, d>>, <<g, h>> >> \in L1)
    <2>1. << <<b, <<c, d>>>>, <<f, <<g, h>>>> >> \in L2
            <=> <<b, f>> \in Less \/ (b = f /\ << <<c, d>>, <<g, h>> >> \in L1)
      BY <1>1, LexPairs
    <2> QED
      BY <2>1, LessIs
  <1>5. Lower = LexPairOrdering(Less, L2, Nat, Triples)
    BY DEF Lower, L1
  <1> HIDE DEF L2
  <1>6. << <<a, <<b, <<c, d>>>>>>, <<e, <<f, <<g, h>>>>>> >> \in Lower
          <=> a < e \/ (a = e /\ << <<b, <<c, d>>>>, <<f, <<g, h>>>> >> \in L2)
    <2>1. << <<a, <<b, <<c, d>>>>>>, <<e, <<f, <<g, h>>>>>> >> \in Lower
            <=> <<a, e>> \in Less \/ (a = e /\ << <<b, <<c, d>>>>, <<f, <<g, h>>>> >> \in L2)
      BY <1>2, <1>5, LexPairs
    <2> QED
      BY <2>1, LessIs
  <1> QED
    BY <1>3, <1>4, <1>6

LEMMA NearerLower ==
  ASSUME RankOK, RankOK', Nearer
  PROVE  <<Rank', Rank>> \in Lower
  <1>1. Rank \in Ranks /\ Rank' \in Ranks
    BY DEF RankOK, Rank, Ranks, Triples, Pairs
  <1>2. /\ Rank[1] = Phase /\ Rank[2][1] = VarsLeft
        /\ Rank[2][2][1] = ArraysLeft /\ Rank[2][2][2] = DimsLeft
        /\ Rank'[1] = Phase' /\ Rank'[2][1] = VarsLeft'
        /\ Rank'[2][2][1] = ArraysLeft' /\ Rank'[2][2][2] = DimsLeft'
    BY DEF Rank
  <1> QED
    BY <1>1, <1>2, Lexicographic DEF Nearer

(* Every step of a request, whatever goes wrong at it, brings its end      *)
(* nearer, and nothing comes nearer for ever: once begun, FONcTransform::  *)
(* transform and the destructor take finitely many steps.  (That there is  *)
(* always a next step, the other half of Answered, the runs show.)         *)
THEOREM StepsComeToAnEnd ==
  /\ IsWellFoundedOn(Lower, Ranks)
  /\ Spec => [](Rank \in Ranks) /\ [][Step => <<Rank', Rank>> \in Lower]_vars
  <1>1. IInv => RankOK
    BY CountsLeft DEF RankOK
  <1>2. RankOK => Rank \in Ranks
    BY DEF RankOK, Rank, Ranks, Triples, Pairs
  <1>3. IInv /\ RankOK /\ RankOK' => [Step => <<Rank', Rank>> \in Lower]_vars
    BY StepNearer, NearerLower
  <1> QED
    BY <1>1, <1>2, <1>3, LowerEnds, Invariance, PTL DEF Spec
=============================================================================
