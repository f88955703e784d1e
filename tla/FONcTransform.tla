----------------------------- MODULE FONcTransform -----------------------------
(***************************************************************************)
(* One BES process turning DAP responses into netCDF files, one after the  *)
(* other: FONcTransform::transform with the FONcArray, FONcGrid, FONcMap   *)
(* and FONcDim objects it makes, defines, writes and destroys.             *)
(*                                                                         *)
(* The program is sequential; pc names the loop it is in:                  *)
(*   "convert"  FONcTransform::transform over the variables                *)
(*   "maps"     FONcGrid::convert over the maps of grid vi                 *)
(*   "dims"     FONcArray::convert over the dimensions of array <<vi, mi>> *)
(*   "create"   nc_create                                                  *)
(*   "define"   define() over the variables, their arrays and dimensions   *)
(*   "write"    write() over the variables and their arrays                *)
(*   "destroy"  ~FONcTransform over the converted variables                *)
(* An error leaves its loop for "destroy", as stack unwinding does.        *)
(***************************************************************************)
EXTENDS FONcUtils

CONSTANTS
  Requests,     \* the responses clients ask for, sequences of Var
  Failures,     \* what can go wrong: "nc", a netCDF call fails; "libdap",
                \* the data or memory cannot be had (Error, bad_alloc)
  Standalone    \* besstandalone: each request has a process of its own

ASSUME RequestsAssumption == Requests \subseteq Seq(Var)

VARIABLES
  pc, req,
  vi, mi, di,   \* the loops' iterators: variable, map or array, dimension
  status,       \* of the last request: "ok", "conflict", "failure", "other"
  made,         \* the variables in _fonc_vars
  obj,          \* the FONcArray (and simple) objects alive, by their Key
  held,         \* FONcGrid::_maps of each variable: indices into Maps
  Dimensions,   \* FONcArray::Dimensions and the FONcDims it points at
  Maps,         \* FONcGrid::Maps and the FONcMaps it points at
  InGrid,       \* FONcGrid::InGrid
  DimNameNum,   \* FONcDim::DimNameNum
  ncOpen, ncDims, ncVars, elided   \* the netCDF file

cursor == <<vi, mi, di>>
converted == <<made, obj, held>>
statics == <<Dimensions, Maps, InGrid, DimNameNum>>
file == <<ncOpen, ncDims, ncVars, elided>>
vars == <<pc, req, cursor, status, converted, statics, file>>

(* FONcDim, FONcMap, FONcArray.  An id or varid of 0: not defined yet.     *)
(* map: the FONcMap in d_grid_maps, 0 if there is none.                    *)
FONcDim == [name : Path, size : Nat, ref : Int, dimid : Nat]
FONcMap == [arr : Key, ingrid : BOOLEAN, ref : Int]
FONcArray == [varname : Path, dims : Seq(Nat), dontUse : BOOLEAN, map : Nat, varid : Nat]

NewDim(name, size) == [name |-> name, size |-> size, ref |-> 1, dimid |-> 0]
NewMap(p, ingrid) == [arr |-> p, ingrid |-> ingrid, ref |-> 1]
NewArray(name) ==
  [varname |-> name, dims |-> << >>, dontUse |-> FALSE, map |-> 0, varid |-> 0]

NoKey == <<0, 0>>
NcDim == [name : Path, size : Nat]
NcVar == [name : Path, type : NcTypes, dims : Seq(Nat), data : Key]

(* Everything has its type, and what points at a FONcDim or a FONcMap      *)
(* points at one that was made.                                            *)
ControlOK ==
  /\ pc \in {"idle", "convert", "maps", "dims", "create", "define", "write", "destroy"}
  /\ status \in {"ok", "conflict", "failure", "other"}
  /\ req \in Seq(Var)
  /\ vi \in Nat \ {0} /\ mi \in Nat /\ di \in Nat \ {0}
  /\ made \subseteq Nat
ObjectsOK ==
  /\ DOMAIN obj \subseteq Key
  /\ \A p \in DOMAIN obj : obj[p] \in FONcArray
HeldOK == held \in Seq(Seq(Nat)) /\ Len(held) = Len(req)
StaticsOK ==
  /\ Dimensions \in Seq(FONcDim)
  /\ Maps \in Seq(FONcMap)
  /\ InGrid \in BOOLEAN
  /\ DimNameNum \in Nat
PointersOK ==
  /\ \A p \in DOMAIN obj : \A k \in DOMAIN obj[p].dims : obj[p].dims[k] \in DOMAIN Dimensions
  /\ \A i \in DOMAIN held : \A k \in DOMAIN held[i] : held[i][k] \in DOMAIN Maps
FileOK ==
  /\ ncOpen \in BOOLEAN
  /\ ncDims \in Seq(NcDim)
  /\ ncVars \in Seq(NcVar)
  /\ elided \subseteq Path
TypeOK == ControlOK /\ ObjectsOK /\ HeldOK /\ StaticsOK /\ PointersOK /\ FileOK

---------------------------------------------------------------------------
(* Helpers.                                                                *)

CurVar == req[vi]
Cur == <<vi, mi>>
CurArr == ArrOf(req, Cur)
CurEmbed == EmbedOf(req, Cur)

(* f with v at the key p.                                                  *)
Put(f, p, v) == [q \in DOMAIN f \cup {p} |-> IF q = p THEN v ELSE f[q]]

(* An exception leaves transform() and the destructor runs.                *)
Throw(why) ==
  /\ status' = why
  /\ pc' = "destroy"
  /\ vi' = 1 /\ mi' = 1 /\ di' = 1

ThrowWithoutClose(why) == Throw(why) /\ ncOpen' = ncOpen   \* mutant

(* A BESError thrown while the file is open: transform() closes it.        *)
ThrowAndClose(why) == Throw(why) /\ ncOpen' = FALSE

Goto(where, v, m) == pc' = where /\ vi' = v /\ mi' = m /\ di' = 1

ResetCounterOnly ==   \* mutant: the static vectors keep their pointers
  Dimensions' = Dimensions /\ Maps' = Maps /\ DimNameNum' = 0

(* FONcUtils::reset.                                                       *)
ResetStatics == Dimensions' = << >> /\ Maps' = << >> /\ DimNameNum' = 0

---------------------------------------------------------------------------
(* A request arrives: the FONcTransform is made, transform() begins.       *)
Begin(r) ==
  /\ pc = "idle"
  /\ req' = r
  /\ Goto("convert", 1, 0)
  /\ status' = "ok"
  /\ made' = {} /\ obj' = << >> /\ held' = [i \in DOMAIN r |-> << >>]
  /\ ResetStatics
  /\ ncOpen' = FALSE /\ ncDims' = << >> /\ ncVars' = << >> /\ elided' = {}
  /\ UNCHANGED InGrid

StayAtUnsent ==   \* mutant: the iterator is not advanced
  /\ pc = "convert" /\ vi <= Len(req) /\ ~CurVar.send
  /\ Goto("convert", vi, 0)
  /\ UNCHANGED <<req, status, converted, statics, file>>

(* The loop over the variables of the response.                            *)
SkipUnsent ==
  /\ pc = "convert" /\ vi <= Len(req) /\ ~CurVar.send
  /\ Goto("convert", vi + 1, 0)
  /\ UNCHANGED <<req, status, converted, statics, file>>

ConvertUnknown ==
  /\ pc = "convert" /\ vi <= Len(req) /\ CurVar.send
  /\ CurVar.kind = "Unknown"
  /\ Throw("conflict")
  /\ UNCHANGED <<req, converted, statics, file>>

ConvertSimple ==
  /\ pc = "convert" /\ vi <= Len(req) /\ CurVar.send
  /\ CurVar.kind \in {"Scalar", "Str", "Sequence"}
  /\ made' = made \cup {vi}
  /\ obj' = Put(obj, <<vi, 0>>, NewArray(gen_name(CurVar.embed, CurVar.main.name)))
  /\ Goto("convert", vi + 1, 0)
  /\ UNCHANGED <<req, status, held, statics, file>>

(* new FONcArray, and the first lines of its convert().                    *)
StartArray(p) ==
  /\ obj' = Put(obj, p, NewArray(gen_name(EmbedOf(req, p), ArrOf(req, p).name)))
  /\ Goto("dims", p[1], p[2])

ConvertArray ==
  /\ pc = "convert" /\ vi <= Len(req) /\ CurVar.send
  /\ CurVar.kind = "Array"
  /\ made' = made \cup {vi}
  /\ StartArray(<<vi, 0>>)
  /\ UNCHANGED <<req, status, held, statics, file>>

ConvertGrid ==
  /\ pc = "convert" /\ vi <= Len(req) /\ CurVar.send
  /\ CurVar.kind = "Grid"
  /\ made' = made \cup {vi}
  /\ InGrid' = TRUE
  /\ Goto("maps", vi, 1)
  /\ UNCHANGED <<req, status, obj, held, Dimensions, Maps, DimNameNum, file>>

EndConvert ==
  /\ pc = "convert" /\ vi > Len(req)
  /\ Goto("create", 1, 1)
  /\ UNCHANGED <<req, status, converted, statics, file>>

---------------------------------------------------------------------------
(* FONcGrid::convert over the maps, then its array.                        *)

InMapsButLast(a) ==   \* mutant: the search stops one short of the end
  {m \in DOMAIN Maps : m < Len(Maps) /\ compare(ArrOf(req, Maps[m].arr), a)}

(* FONcGrid::InMaps: the first registered map that compares equal to a.    *)
InMaps(a) == {m \in DOMAIN Maps : compare(ArrOf(req, Maps[m].arr), a)}
First(S) == CHOOSE m \in S : \A n \in S : m <= n

ShareWithoutIncref(m) == Maps' = Maps   \* mutant
IncrefMap(m) == Maps' = [Maps EXCEPT ![m].ref = @ + 1]
Hold(m) == held' = [held EXCEPT ![vi] = Append(@, m)]

SkipMap ==
  /\ pc = "maps" /\ mi <= Len(CurVar.maps) /\ ~CurArr.send
  /\ Goto("maps", vi, mi + 1)
  /\ UNCHANGED <<req, status, converted, statics, file>>

ShareMap ==
  /\ pc = "maps" /\ mi <= Len(CurVar.maps) /\ CurArr.send
  /\ InMaps(CurArr) # {}
  /\ LET m == First(InMaps(CurArr)) IN IncrefMap(m) /\ Hold(m)
  /\ Goto("maps", vi, mi + 1)
  /\ UNCHANGED <<req, status, made, obj, Dimensions, InGrid, DimNameNum, file>>

ConvertMap ==
  /\ pc = "maps" /\ mi <= Len(CurVar.maps) /\ CurArr.send
  /\ InMaps(CurArr) = {}
  /\ StartArray(Cur)
  /\ UNCHANGED <<req, status, made, held, statics, file>>

ConvertGridArray ==
  /\ pc = "maps" /\ mi > Len(CurVar.maps) /\ CurVar.main.send
  /\ StartArray(<<vi, 0>>)
  /\ UNCHANGED <<req, status, made, held, statics, file>>

LeaveInGrid == InGrid' = InGrid /\ Goto("convert", vi + 1, 0)   \* mutant

(* The last lines of FONcGrid::convert.                                    *)
GridConverted == InGrid' = FALSE /\ Goto("convert", vi + 1, 0)

SkipGridArray ==
  /\ pc = "maps" /\ mi > Len(CurVar.maps) /\ ~CurVar.main.send
  /\ GridConverted
  /\ UNCHANGED <<req, status, converted, Dimensions, Maps, DimNameNum, file>>

---------------------------------------------------------------------------
(* FONcArray::convert over the dimensions of an array.                     *)

NamedButLast(name) ==   \* mutant: the search stops one short of the end
  {d \in DOMAIN Dimensions : d < Len(Dimensions) /\ Dimensions[d].name = name /\ name # << >>}

(* The FONcDims of that name.                                              *)
Named(name) == {d \in DOMAIN Dimensions : Dimensions[d].name = name /\ name # << >>}
SizesDiffer(name, size) == \E d \in Named(name) : Dimensions[d].size # size

WantedPlain(d) == d.name   \* mutant: no second search
WantedLong(d) ==           \* mutant: the second search only
  IF CurEmbed # << >> THEN gen_name(CurEmbed, d.name) ELSE d.name

(* FONcArray::find_dim looks for the name itself; if it is taken by a      *)
(* dimension of another size, a variable in a structure looks again for    *)
(* the name with the structures' names before it.                          *)
Wanted(d) ==
  IF CurEmbed # << >> /\ SizesDiffer(d.name, d.size)
  THEN gen_name(CurEmbed, d.name)
  ELSE d.name

(* The array takes a reference to the dimension d.                         *)
PushDim(d) == obj' = [obj EXCEPT ![Cur].dims = Append(@, d)]
NextDim == di' = di + 1 /\ UNCHANGED <<pc, vi, mi>>
AddDimBefore(name, size) ==   \* mutant: the index is one too small
  /\ Dimensions' = Append(Dimensions, NewDim(name, size))
  /\ PushDim(Len(Dimensions))
AddDim(name, size) ==
  /\ Dimensions' = Append(Dimensions, NewDim(name, size))
  /\ PushDim(Len(Dimensions) + 1)
UseWithoutIncref(d, size) ==   \* mutant
  /\ Dimensions' = [Dimensions EXCEPT ![d].size = size]
  /\ PushDim(d)
UseDim(d, size) ==
  /\ Dimensions' = [Dimensions EXCEPT ![d].ref = @ + 1, ![d].size = size]
  /\ PushDim(d)

ShareDim ==
  /\ pc = "dims" /\ di <= Len(CurArr.dims)
  /\ LET want == Wanted(CurArr.dims[di])
         size == CurArr.dims[di].size IN
       /\ Named(want) # {} /\ ~SizesDiffer(want, size)
       /\ UseDim(First(Named(want)), size)
  /\ NextDim
  /\ UNCHANGED <<req, status, made, held, Maps, InGrid, DimNameNum, file>>

NewDimension ==
  /\ pc = "dims" /\ di <= Len(CurArr.dims)
  /\ LET want == Wanted(CurArr.dims[di]) IN
       /\ Named(want) = {}
       /\ AddDim(want, CurArr.dims[di].size)
  /\ NextDim
  /\ UNCHANGED <<req, status, made, held, Maps, InGrid, DimNameNum, file>>

DimensionClash ==
  /\ pc = "dims" /\ di <= Len(CurArr.dims)
  /\ SizesDiffer(Wanted(CurArr.dims[di]), CurArr.dims[di].size)
  /\ Throw("conflict")
  /\ UNCHANGED <<req, converted, statics, file>>

(* An array of strings gets one more dimension, found by name only, as     *)
(* long as the longest string; one that is too short is made longer.       *)
IsText(a) == get_nc_type(a.type) = "CHAR"
AtLength == pc = "dims" /\ di = Len(CurArr.dims) + 1 /\ IsText(CurArr)
LenName == WithLen(obj[Cur].varname)

ShareLength ==
  /\ AtLength /\ Named(LenName) # {}
  /\ LET d == First(Named(LenName)) IN
       UseDim(d, IF Dimensions[d].size < CurArr.len THEN CurArr.len ELSE Dimensions[d].size)
  /\ NextDim
  /\ UNCHANGED <<req, status, made, held, Maps, InGrid, DimNameNum, file>>

NewLength ==
  /\ AtLength /\ Named(LenName) = {}
  /\ AddDim(LenName, CurArr.len)
  /\ NextDim
  /\ UNCHANGED <<req, status, made, held, Maps, InGrid, DimNameNum, file>>

---------------------------------------------------------------------------
(* The end of FONcArray::convert, and what its caller does next.           *)
DimsDone == pc = "dims" /\ di > Len(CurArr.dims) + (IF IsText(CurArr) THEN 1 ELSE 0)
MayBeMap == ~InGrid /\ IsCoordinate(CurArr)

RegisterCoordinate ==
  /\ DimsDone /\ MayBeMap /\ InMaps(CurArr) = {}
  /\ Maps' = Append(Maps, NewMap(Cur, FALSE))
  /\ obj' = [obj EXCEPT ![Cur].map = Len(Maps) + 1]
  /\ Goto("convert", vi + 1, 0)
  /\ UNCHANGED <<req, status, made, held, Dimensions, InGrid, DimNameNum, file>>

DropCoordinate ==
  /\ DimsDone /\ MayBeMap /\ InMaps(CurArr) # {}
  /\ obj' = [obj EXCEPT ![Cur].dontUse = TRUE]
  /\ Goto("convert", vi + 1, 0)
  /\ UNCHANGED <<req, status, made, held, statics, file>>

ArrayDone ==
  /\ DimsDone /\ ~MayBeMap /\ CurVar.kind = "Array"
  /\ Goto("convert", vi + 1, 0)
  /\ UNCHANGED <<req, status, converted, statics, file>>

MapDone ==
  /\ DimsDone /\ ~MayBeMap /\ CurVar.kind = "Grid" /\ mi > 0
  /\ Maps' = Append(Maps, NewMap(Cur, TRUE))
  /\ Hold(Len(Maps) + 1)
  /\ Goto("maps", vi, mi + 1)
  /\ UNCHANGED <<req, status, made, obj, Dimensions, InGrid, DimNameNum, file>>

GridArrayDone ==
  /\ DimsDone /\ ~MayBeMap /\ CurVar.kind = "Grid" /\ mi = 0
  /\ GridConverted
  /\ UNCHANGED <<req, status, converted, Dimensions, Maps, DimNameNum, file>>

---------------------------------------------------------------------------
(* Define mode.                                                            *)

CreateFile ==
  /\ pc = "create"
  /\ ncOpen' = TRUE
  /\ Goto("define", 1, 1)
  /\ UNCHANGED <<req, status, converted, statics, ncDims, ncVars, elided>>

(* The objects that variable i hands define() and write() on to: the       *)
(* arrays of a grid's maps and its own array, or itself.                   *)
Targets(i) ==
  [k \in DOMAIN held[i] |-> Maps[held[i][k]].arr]
  \o (IF <<i, 0>> \in DOMAIN obj /\ req[i].kind # "Sequence" THEN << <<i, 0>> >> ELSE << >>)
At == Targets(vi)[mi]

DimTaken(name) == \E d \in DOMAIN ncDims : ncDims[d].name = name
VarTaken(name) == \E v \in DOMAIN ncVars : ncVars[v].name = name
Refuse == ThrowAndClose("conflict")

InDefine == pc = "define" /\ vi <= Len(req) /\ mi <= Len(Targets(vi))
Defining(kinds) == InDefine /\ req[At[1]].kind \in kinds
IsDefined(p) == obj[p].varid # 0

NcTypeOf(p) ==
  IF req[p[1]].kind \in {"Array", "Grid"} THEN get_nc_type(ArrOf(req, p).type)
                                         ELSE scalar_type(ArrOf(req, p).type)
(* nc_def_var for the object p with the dimensions ds.                     *)
DefVar(p, ds) ==
  /\ ncVars' = Append(ncVars, [name |-> obj[p].varname, type |-> NcTypeOf(p),
                               dims |-> ds, data |-> NoKey])
  /\ obj' = [obj EXCEPT ![p].varid = Len(ncVars) + 1]
NextTarget == Goto("define", vi, mi + 1)

DefineScalar ==
  /\ Defining({"Scalar"})
  /\ \/ VarTaken(obj[At].varname) /\ Refuse /\ UNCHANGED <<obj, ncVars>>
     \/ /\ ~VarTaken(obj[At].varname)
        /\ DefVar(At, << >>) /\ NextTarget /\ UNCHANGED <<status, ncOpen>>
  /\ UNCHANGED <<req, made, held, statics, ncDims, elided>>

(* FONcStr::define makes its dimension itself, past FONcArray::Dimensions. *)
DefineStr ==
  /\ Defining({"Str"})
  /\ LET name == obj[At].varname
         taken == DimTaken(WithLen(name)) \/ VarTaken(name) IN
     \/ taken /\ Refuse /\ UNCHANGED <<obj, ncDims, ncVars>>
     \/ /\ ~taken
        /\ ncDims' = Append(ncDims, [name |-> WithLen(name), size |-> ArrOf(req, At).len])
        /\ DefVar(At, <<Len(ncDims) + 1>>)
        /\ NextTarget /\ UNCHANGED <<status, ncOpen>>
  /\ UNCHANGED <<req, made, held, statics, elided>>

(* FONcSequence::define only leaves a note.                                *)
DefineSequence ==
  /\ pc = "define" /\ vi <= Len(req) /\ vi \in made /\ CurVar.kind = "Sequence"
  /\ elided' = elided \cup {obj[<<vi, 0>>].varname}
  /\ Goto("define", vi + 1, 1)
  /\ UNCHANGED <<req, status, converted, statics, ncOpen, ncDims, ncVars>>

(* FONcArray::define: nothing if it is done or the array is not used.      *)
SkipDefined ==
  /\ Defining({"Array", "Grid"})
  /\ IsDefined(At) \/ obj[At].dontUse
  /\ NextTarget
  /\ UNCHANGED <<req, status, converted, statics, file>>

(* FONcDim::define for the next dimension of the array.                    *)
Undone == ~IsDefined(At) /\ ~obj[At].dontUse
CurDim == obj[At].dims[di]
DimIdentifier ==
  IF Dimensions[CurDim].name = << >> THEN AutoDim(DimNameNum + 1)
                                     ELSE id2netcdf(Dimensions[CurDim].name)
DefineDim ==
  /\ Defining({"Array", "Grid"}) /\ Undone /\ di <= Len(obj[At].dims)
  /\ Dimensions[CurDim].dimid = 0
  /\ DimNameNum' = DimNameNum + (IF Dimensions[CurDim].name = << >> THEN 1 ELSE 0)
  /\ \/ DimTaken(DimIdentifier) /\ Refuse /\ UNCHANGED <<Dimensions, ncDims>>
     \/ /\ ~DimTaken(DimIdentifier)
        /\ ncDims' = Append(ncDims, [name |-> DimIdentifier, size |-> Dimensions[CurDim].size])
        /\ Dimensions' = [Dimensions EXCEPT ![CurDim].dimid = Len(ncDims) + 1]
        /\ NextDim /\ UNCHANGED <<status, ncOpen>>
  /\ UNCHANGED <<req, converted, Maps, InGrid, ncVars, elided>>

SkipDefinedDim ==
  /\ Defining({"Array", "Grid"}) /\ Undone /\ di <= Len(obj[At].dims)
  /\ Dimensions[CurDim].dimid # 0
  /\ NextDim
  /\ UNCHANGED <<req, status, converted, statics, file>>

DefineArray ==
  /\ Defining({"Array", "Grid"}) /\ Undone /\ di > Len(obj[At].dims)
  /\ LET bad == VarTaken(obj[At].varname) \/ NcTypeOf(At) = "NAT" IN
     \/ bad /\ Refuse /\ UNCHANGED <<obj, ncVars>>
     \/ /\ ~bad
        /\ DefVar(At, [k \in DOMAIN obj[At].dims |-> Dimensions[obj[At].dims[k]].dimid])
        /\ NextTarget /\ UNCHANGED <<status, ncOpen>>
  /\ UNCHANGED <<req, made, held, statics, ncDims, elided>>

DefineNext ==
  /\ pc = "define" /\ vi <= Len(req) /\ mi > Len(Targets(vi))
  /\ vi \in made => CurVar.kind # "Sequence"
  /\ Goto("define", vi + 1, 1)
  /\ UNCHANGED <<req, status, converted, statics, file>>

EndDefine ==
  /\ pc = "define" /\ vi > Len(req)
  /\ Goto("write", 1, 1)
  /\ UNCHANGED <<req, status, converted, statics, file>>

---------------------------------------------------------------------------
(* Data mode.                                                              *)

Writing == pc = "write" /\ vi <= Len(req) /\ mi <= Len(Targets(vi))

WriteData ==
  /\ Writing /\ ~obj[At].dontUse
  /\ ncVars' = [ncVars EXCEPT ![obj[At].varid].data = At]
  /\ Goto("write", vi, mi + 1)
  /\ UNCHANGED <<req, status, converted, statics, ncOpen, ncDims, elided>>

SkipWrite ==
  /\ Writing /\ obj[At].dontUse
  /\ Goto("write", vi, mi + 1)
  /\ UNCHANGED <<req, status, converted, statics, file>>

WriteNext ==
  /\ pc = "write" /\ vi <= Len(req) /\ mi > Len(Targets(vi))
  /\ Goto("write", vi + 1, 1)
  /\ UNCHANGED <<req, status, converted, statics, file>>

CloseFile ==
  /\ pc = "write" /\ vi > Len(req)
  /\ ncOpen' = FALSE
  /\ Goto("destroy", 1, 1)
  /\ UNCHANGED <<req, status, converted, statics, ncDims, ncVars, elided>>

---------------------------------------------------------------------------
(* What goes wrong outside of this code.                                   *)

(* A netCDF call fails: a BESError from handle_error.                      *)
NcFails ==
  /\ "nc" \in Failures
  /\ pc \in {"create", "define", "write"}
  /\ ThrowAndClose("failure")
  /\ UNCHANGED <<req, converted, statics, ncDims, ncVars, elided>>

(* The data of an array, an attribute or memory cannot be had: a libdap    *)
(* Error or a std::exception, which transform() does not catch.            *)
LibraryThrows ==
  /\ "libdap" \in Failures
  /\ pc \in {"convert", "maps", "dims", "define", "write"}
  /\ Throw("other")
  /\ UNCHANGED <<req, converted, statics, file>>

---------------------------------------------------------------------------
(* ~FONcTransform deletes the converted variables in order.  An array lets *)
(* go of its dimensions and of the map it registered, a grid of its maps;  *)
(* the last to let go of a map made by a grid deletes the map's array too. *)

Own(i) == {<<i, 0>>} \cap DOMAIN obj
Times(i, m) ==   \* how often variable i lets go of map m
  Cardinality({k \in DOMAIN held[i] : held[i][k] = m})
  + Cardinality({p \in Own(i) : obj[p].map = m})
NeverDying(i) == {}   \* mutant: the array of a map is not deleted
Dying(i) ==
  {m \in DOMAIN Maps : Maps[m].ingrid /\ Times(i, m) > 0 /\ Maps[m].ref = Times(i, m)}
Gone(i) == Own(i) \cup {Maps[m].arr : m \in Dying(i)}

(* The references that the arrays in P hold to dimension d.                *)
Uses(P, d) ==
  UNION {{<<p, k>> : k \in {j \in DOMAIN obj[p].dims : obj[p].dims[j] = d}} : p \in P}

DestroyVar ==
  /\ pc = "destroy" /\ vi <= Len(req) /\ vi \in made
  /\ Maps' = [m \in DOMAIN Maps |-> [Maps[m] EXCEPT !.ref = @ - Times(vi, m)]]
  /\ Dimensions' =
       [d \in DOMAIN Dimensions |-> [Dimensions[d] EXCEPT !.ref = @ - Cardinality(Uses(Gone(vi), d))]]
  /\ obj' = [p \in DOMAIN obj \ Gone(vi) |-> obj[p]]
  /\ held' = [held EXCEPT ![vi] = << >>]
  /\ made' = made \ {vi}
  /\ Goto("destroy", vi + 1, 1)
  /\ UNCHANGED <<req, status, InGrid, DimNameNum, file>>

DestroyNext ==
  /\ pc = "destroy" /\ vi <= Len(req) /\ vi \notin made
  /\ Goto("destroy", vi + 1, 1)
  /\ UNCHANGED <<req, status, converted, statics, file>>

(* The FONcTransform is gone; what obj still holds is never freed.  The    *)
(* static variables keep what they have, unless the process ends here.     *)
Finish ==
  /\ pc = "destroy" /\ vi > Len(req)
  /\ Goto("idle", 1, 1)
  /\ req' = << >> /\ status' = "ok"
  /\ made' = {} /\ obj' = << >> /\ held' = << >>
  /\ ncOpen' = FALSE /\ ncDims' = << >> /\ ncVars' = << >> /\ elided' = {}
  /\ IF Standalone
     THEN Dimensions' = << >> /\ Maps' = << >> /\ InGrid' = FALSE /\ DimNameNum' = 0
     ELSE UNCHANGED statics

---------------------------------------------------------------------------
Init ==
  /\ pc = "idle" /\ req = << >> /\ status = "ok"
  /\ vi = 1 /\ mi = 1 /\ di = 1
  /\ made = {} /\ obj = << >> /\ held = << >>
  /\ Dimensions = << >> /\ Maps = << >> /\ InGrid = FALSE /\ DimNameNum = 0
  /\ ncOpen = FALSE /\ ncDims = << >> /\ ncVars = << >> /\ elided = {}

Convert ==
  \/ SkipUnsent \/ ConvertUnknown \/ ConvertSimple \/ ConvertArray \/ ConvertGrid
  \/ EndConvert
  \/ SkipMap \/ ShareMap \/ ConvertMap \/ ConvertGridArray \/ SkipGridArray
  \/ ShareDim \/ NewDimension \/ DimensionClash \/ ShareLength \/ NewLength
  \/ RegisterCoordinate \/ DropCoordinate \/ ArrayDone \/ MapDone \/ GridArrayDone

Define ==
  \/ CreateFile
  \/ DefineScalar \/ DefineStr \/ DefineSequence
  \/ SkipDefined \/ DefineDim \/ SkipDefinedDim \/ DefineArray \/ DefineNext
  \/ EndDefine

Write == WriteData \/ SkipWrite \/ WriteNext \/ CloseFile

Destroy == DestroyVar \/ DestroyNext \/ Finish

Step == Convert \/ Define \/ Write \/ Destroy \/ NcFails \/ LibraryThrows

Next == (\E r \in Requests : Begin(r)) \/ Step

(* Once a request is in, the one thread of the process runs on.            *)
Spec == Init /\ [][Next]_vars /\ WF_vars(Step)

---------------------------------------------------------------------------
(* What must hold of the objects.                                          *)

Working == pc \in {"convert", "maps", "dims", "create", "define", "write"}

(* The reference count of a dimension is the number of times arrays alive  *)
(* point at it (FONcDim::incref and decref, FONcArray::find_dim and        *)
(* ~FONcArray), so it is deleted with the last of them.                    *)
DimRefs ==
  \A d \in DOMAIN Dimensions : pc # "idle" =>
     Dimensions[d].ref = Cardinality(Uses(DOMAIN obj, d))

(* The reference count of a map is the number of grids that hold it, plus  *)
(* one while the coordinate array that registered it lives (FONcMap::incref*)
(* and decref, FONcGrid::convert, FONcArray::convert and the destructors). *)
Holders(m) == UNION {{<<i, k>> : k \in {j \in DOMAIN held[i] : held[i][j] = m}} :
                     i \in DOMAIN held}
MapRefs ==
  \A m \in DOMAIN Maps : pc # "idle" =>
     Maps[m].ref = Cardinality(Holders(m)) + Cardinality({p \in DOMAIN obj : obj[p].map = m})

(* As long as a response is being converted or written, no registered map  *)
(* or dimension has been deleted, whatever earlier requests left in the    *)
(* static vectors (FONcUtils::reset).                                      *)
RegistryLive ==
  Working => /\ \A d \in DOMAIN Dimensions : Dimensions[d].ref > 0
             /\ \A m \in DOMAIN Maps : Maps[m].ref > 0 /\ Maps[m].arr \in DOMAIN obj

(* No two dimensions in the registry have one name: a search that stops at *)
(* the first match (FONcArray::find_dim) finds the only one.               *)
DimNamesDistinct ==
  \A c, d \in DOMAIN Dimensions :
     c # d /\ Dimensions[c].name = Dimensions[d].name => Dimensions[c].name = << >>

(* No two registered maps are equal: the search of FONcGrid::InMaps has at *)
(* most one match, and no coordinate variable is written twice.            *)
MapsDistinct ==
  Working => \A m, n \in DOMAIN Maps :
     m < n => ~compare(ArrOf(req, Maps[m].arr), ArrOf(req, Maps[n].arr))

(* A grid that shares a map of another grid, or a coordinate array, shares *)
(* one that equals its own map and that the file will hold                 *)
(* (FONcGrid::convert, FONcGrid::InMaps, FONcMap::compare).                *)
SentMaps(i) == {k \in DOMAIN req[i].maps : req[i].maps[k].send}
SharedMapsAgree ==
  Working => \A i \in DOMAIN held : \A k \in DOMAIN held[i] :
     LET m == Maps[held[i][k]]
     IN /\ \E j \in SentMaps(i) :
             m.arr = <<i, j>> \/ SameData(ArrOf(req, m.arr), req[i].maps[j])
        /\ ~obj[m.arr].dontUse

(* InGrid tells whether a grid is being converted (FONcGrid.cc:44): an     *)
(* array outside of a grid never finds it set.                             *)
InGridMeansGrid ==
  pc \in {"maps", "dims"} => (InGrid <=> CurVar.kind = "Grid")

(* A file that is answered with is closed; so is one given up for an error *)
(* that transform() catches.                                               *)
NcClosed == pc = "destroy" /\ status # "other" => ~ncOpen

(* When a request is over all its objects are gone.  One may stay behind   *)
(* when the request was given up: the array of a grid's map that had been  *)
(* made but not yet registered (FONcGrid.cc:172-187), with its dimensions. *)
Over == pc = "destroy" /\ vi > Len(req)
Freed ==
  Over => /\ \A m \in DOMAIN Maps : Maps[m].ref = 0
          /\ \A p \in DOMAIN obj : status # "ok" /\ p[2] > 0 /\ ~IsDefined(p)
          /\ Cardinality(DOMAIN obj) <= 1
          /\ \A d \in DOMAIN Dimensions : Dimensions[d].ref > 0 => Uses(DOMAIN obj, d) # {}

---------------------------------------------------------------------------
(* The grids of the responses, as far as theorems depend on them.          *)

(* The grids of DAP: a map is a vector.  FONcMap::compare looks at the     *)
(* first dimension of the arrays only.                                     *)
OneDimMaps ==
  \A r \in Requests : \A i \in DOMAIN r : r[i].kind = "Grid" =>
     \A k \in DOMAIN r[i].maps : Len(r[i].maps[k].dims) = 1

(* The names of the dimensions for the lengths of strings: FONcArray's     *)
(* convert changes the size of these alone.                                *)
EndsLen(n) == n # << >> /\ n[Len(n)] = "_len"

(* The grids of DAP outside of structures: the dimension of a map has a    *)
(* name, and where the grid's array has a dimension of that name it is of  *)
(* that size.  No name looks like that of a dimension for strings.         *)
NamedMaps ==
  \A r \in Requests : \A i \in DOMAIN r : r[i].kind = "Grid" /\ r[i].embed = << >> =>
     \A k \in DOMAIN r[i].maps :
        LET d == r[i].maps[k].dims[1]
        IN /\ d.name # << >> /\ ~EndsLen(d.name)
           /\ \A j \in DOMAIN r[i].main.dims :
                r[i].main.dims[j].name = d.name => r[i].main.dims[j].size = d.size

---------------------------------------------------------------------------
(* What a client gets.                                                     *)

NcFile ==
  {[name |-> ncVars[v].name, type |-> ncVars[v].type,
    shape |-> [k \in DOMAIN ncVars[v].dims |-> ncDims[ncVars[v].dims[k]]],
    val |-> ArrOf(req, ncVars[v].data).val] :
   v \in {w \in DOMAIN ncVars : ncVars[w].data # NoKey}}

Delivered == pc = "destroy" /\ status = "ok"

Response == INSTANCE FONcResponse WITH
  stage <- IF pc = "idle" THEN "idle" ELSE IF pc = "destroy" THEN "answered" ELSE "busy",
  request <- req,
  answer <- IF pc = "destroy"
            THEN [ok |-> status = "ok", reason |-> status,
                  file |-> IF status = "ok" THEN NcFile ELSE {}]
            ELSE [ok |-> FALSE, reason |-> "none", file |-> {}]

(* The responses as DAP has them.  Simple variables have no dimensions, and*)
(* libdap's Str and Url alone hold a string.                               *)
SimpleVars ==
  \A r \in Requests : \A i \in DOMAIN r : r[i].kind \in {"Scalar", "Str"} =>
     /\ r[i].main.dims = << >>
     /\ r[i].kind = "Str" <=> r[i].main.type \in {"String", "Url"}

(* The maps of a grid are vectors named like their dimension.              *)
CoordinateMaps ==
  \A r \in Requests : \A i \in DOMAIN r : r[i].kind = "Grid" =>
     \A k \in DOMAIN r[i].maps : IsCoordinate(r[i].maps[k])

(* Equal arrays of strings have equally long strings.                      *)
EqualLengths ==
  \A r \in Requests : \A p, q \in Response!Stored(r) :
     Response!StandsFor(r, p, q) => ArrOf(r, p).len = ArrOf(r, q).len

(* No dimension is called like the one made for the strings of an array and*)
(* shorter than they are: FONcArray::convert would make it longer.         *)
LengthsApart ==
  \A r \in Requests : \A p, q \in Response!Stored(r) :
     Response!IsArray(r, p) /\ Response!IsArray(r, q) /\ Response!HasStrings(r, q) =>
        \A k \in DOMAIN ArrOf(r, p).dims :
           WithLen(Response!FileName(r, q)) \in Response!DimSite(r, p, k).names
             => ArrOf(r, p).dims[k].size >= ArrOf(r, q).len

ProperResponses == SimpleVars /\ CoordinateMaps /\ EqualLengths /\ LengthsApart

(* The arrays of a delivered response, and the file's dimension for the    *)
(* k-th dimension of one of them.                                          *)
Stored == Response!Stored(req)
StoredArrays == {p \in DOMAIN obj : req[p[1]].kind \in {"Array", "Grid"}}
FileDim(p, k) == Dimensions[obj[p].dims[k]].dimid

(* A grid outside of structures keeps its coordinates: its array and the   *)
(* variable that serves as its map, its own or a shared one, have the same *)
(* dimension of the file (FONcArray::find_dim, FONcGrid::convert).         *)
GridsAligned ==
  Delivered /\ vi = 1 => \A i \in made :
     req[i].kind = "Grid" /\ req[i].embed = << >> /\ <<i, 0>> \in DOMAIN obj =>
        \A k \in DOMAIN held[i], j \in DOMAIN req[i].main.dims :
           LET m == Maps[held[i][k]].arr
           IN ArrOf(req, m).dims[1].name = req[i].main.dims[j].name
                => FileDim(m, 1) = FileDim(<<i, 0>>, j)

(* Dimensions are shared by arrays that agree on name and size             *)
(* (FONcArray.cc:140), so an array has the shape it has in the response.   *)
ShapesKept ==
  Delivered /\ vi = 1 => \A p \in {q \in StoredArrays : IsDefined(q)} :
     \A k \in DOMAIN ArrOf(req, p).dims :
        ncDims[FileDim(p, k)].size = ArrOf(req, p).dims[k].size

(* The members of a structure s1 are created "in the netcdf file called    *)
(* s1.a1 and s1.i1" (FONcStructure.cc:85), each of them.                   *)
MembersNamed ==
  Delivered => \A p \in Stored :
     EmbedOf(req, p) # << >> => \E f \in NcFile : f.name = Response!FileName(req, p)

(* Every request is answered as FONcResponse promises: with a file that    *)
(* holds all of the response and nothing else, or an error; and an error   *)
(* that nothing outside caused means the variables do not fit in one file. *)
Promise == Response!Spec

(* The netCDF file is opened and closed as FONcTransmitter relies on: never*)
(* open once transform() is left, but for an exception of libdap, and      *)
(* closed before it can be read back (FONcTransform.cc:177-221).           *)
File == INSTANCE FONcFile WITH
  Users <- {1}, MayThrow <- "libdap" \in Failures, MayDie <- FALSE,
  phase <- [u \in {1} |-> IF pc = "idle" THEN "away" ELSE IF pc # "destroy" THEN "working"
                          ELSE IF status = "ok" THEN "complete" ELSE "over"],
  open <- {u \in {1} : ncOpen /\ pc # "destroy"},
  lost <- {u \in {1} : ncOpen /\ pc = "destroy"}
FileUse == File!Spec

(* Every request comes to an end, and the objects made for it with it.     *)
Answered == (pc # "idle") ~> (pc = "idle")
=============================================================================
