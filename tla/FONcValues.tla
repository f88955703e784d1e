------------------------------ MODULE FONcValues ------------------------------
(***************************************************************************)
(* The values of a variable on their way into the file, in a process that  *)
(* has loaded the module (FONcModule): the class of the object, the sizes  *)
(* and chunks FONcArray::convert computes, the file FONcTransform creates, *)
(* the storage FONcArray::define asks for, and the write methods.          *)
(*                                                                         *)
(* Values are numbers, with the widths of their types; a string is a text  *)
(* and its length.  pc names the step: "idle" between requests, then       *)
(* "create", "define", "write".  A request is followed for one variable.   *)
(***************************************************************************)
EXTENDS FONcUtils, FONcModule

CONSTANTS
  Variables,                   \* the variables clients ask for
  MAX_CHUNK_SIZE,
  ByteMax, ShortMax, IntMax    \* the largest signed byte, short and int

ASSUME SizeAssumption ==
  /\ MAX_CHUNK_SIZE \in Nat \ {0} /\ FONC_CHUNK_SIZE \in Nat \ {0}
  /\ ByteMax \in Nat /\ ShortMax \in Nat /\ IntMax \in Nat
  /\ 2 * ByteMax + 1 <= ShortMax /\ 2 * ShortMax + 1 <= IntMax

VARIABLES
  pc,
  returnAs,      \* what the response is returned as
  mode,          \* the flags of nc_create
  var, class,    \* the variable, and the class of its object
  version,       \* d_ncVersion of the object, empty if it was not told
  nctype,        \* the type the variable is defined with
  chunksizes,    \* d_chunksizes
  storage,       \* how the file is asked to store the variable
  start,         \* var_start without the length dimension; counts from 0
  element,       \* the elements of d_str_data that are written
  cells          \* the values in the file, by their index from 0

made == <<returnAs, var, class, version, chunksizes>>
vars == <<pc, made, mode, nctype, storage, start, element, cells, module_vars>>

NumTypes == DapTypes \ {"String", "Url"}
Text == [id : Val, len : Nat]
IsVariable(v) ==
  /\ v.kind \in {"Scalar", "Array"} /\ v.type \in DapTypes
  /\ v.sizes \in Seq(Nat \ {0}) /\ v.lendim \in Nat
  /\ v.data \in IF v.type \in NumTypes THEN Seq(Int) ELSE Seq(Text)

---------------------------------------------------------------------------
(* The constructors: the variable must be of a class of libdap's.  A Url   *)
(* is a Str.                                                               *)
FONcByte(b) == b.kind = "Scalar" /\ b.type = "Byte"
FONcShort(b) == b.kind = "Scalar" /\ b.type \in {"Int16", "UInt16"}
FONcInt(b) == b.kind = "Scalar" /\ b.type \in {"Int32", "UInt32"}
FONcFloat(b) == b.kind = "Scalar" /\ b.type = "Float32"
FONcDouble(b) == b.kind = "Scalar" /\ b.type = "Float64"
FONcStr(b) == b.kind = "Scalar" /\ b.type \in {"String", "Url"}
FONcArray(b) == b.kind = "Array"

(* The class FONcUtils::convert picks, whose constructor takes the         *)
(* variable.                                                               *)
Made(b, c) ==
  IF b.kind = "Array" THEN c = "FONcArray" /\ FONcArray(b)
  ELSE CASE b.type = "Byte" -> c = "FONcByte" /\ FONcByte(b)
         [] b.type \in {"Int16", "UInt16"} -> c = "FONcShort" /\ FONcShort(b)
         [] b.type \in {"Int32", "UInt32"} -> c = "FONcInt" /\ FONcInt(b)
         [] b.type = "Float32" -> c = "FONcFloat" /\ FONcFloat(b)
         [] b.type = "Float64" -> c = "FONcDouble" /\ FONcDouble(b)
         [] OTHER -> c = "FONcStr" /\ FONcStr(b)
Classes == {"FONcByte", "FONcShort", "FONcInt", "FONcFloat", "FONcDouble", "FONcStr", "FONcArray"}

---------------------------------------------------------------------------
(* Sizes and chunks.                                                       *)

(* d_nelements.                                                            *)
Product(s) ==
  LET upto[k \in 0..Len(s)] == IF k = 0 THEN 1 ELSE s[k] * upto[k - 1]
  IN upto[Len(s)]

(* max_length, with the zero at the end.                                   *)
MaxLength(v) ==
  1 + CHOOSE n \in {0} \cup {v.data[k].len : k \in DOMAIN v.data} :
        \A k \in DOMAIN v.data : v.data[k].len <= n

(* What libdap's variables are: a value for each index, a simple variable  *)
(* has one.                                                                *)
LegalVariables ==
  \A v \in Variables :
    /\ IsVariable(v)
    /\ v.kind = "Scalar" => v.sizes = << >>
    /\ Len(v.data) = Product(v.sizes)

(* The values of the types of DAP2.                                        *)
Numbers(type) ==
  CASE type = "Byte" -> 0..(2 * ByteMax + 1)
    [] type = "Int16" -> (-ShortMax - 1)..ShortMax
    [] type = "UInt16" -> 0..(2 * ShortMax + 1)
    [] type = "Int32" -> (-IntMax - 1)..IntMax
    [] type = "UInt32" -> 0..(2 * IntMax + 1)
    [] OTHER -> Int
LegalNumbers ==
  \A v \in Variables : v.type \in NumTypes => \A k \in DOMAIN v.data : v.data[k] \in Numbers(v.type)

(* The length dimension of a string array holds its longest string, as     *)
(* FONcArray::convert makes it or finds it (FONcTransform).                *)
LongEnough ==
  \A v \in Variables : v.kind = "Array" /\ v.type = "String" => MaxLength(v) <= v.lendim

ASSUME VariablesAssumption == LegalVariables /\ LegalNumbers /\ LongEnough

NoStorage == [chunking |-> "none", deflate |-> FALSE]

Chunk(size) == IF size <= MAX_CHUNK_SIZE THEN size ELSE MAX_CHUNK_SIZE
DimChunks(v) == [d \in DOMAIN v.sizes |-> Chunk(v.sizes[d])]   \* mutant: none for the length dimension

Chunks(v) ==
  [d \in DOMAIN v.sizes |-> Chunk(v.sizes[d])]
  \o (IF get_nc_type(v.type) = "CHAR" THEN <<Chunk(MaxLength(v))>> ELSE << >>)

(* The object is made, told what it is returned as, and converted.  Only   *)
(* what transform() converts itself is told: members of structures and the *)
(* parts of grids are converted by other objects, which tell them nothing. *)
(* lendim is the size of the length dimension when the file is defined: an *)
(* array that shares it may have made it longer (FONcTransform).           *)
Convert(v, as, top) ==
  /\ pc = "idle" /\ as \in transmitters
  /\ returnAs' = as
  /\ \E c \in Classes : Made(v, c) /\ class' = c
  /\ var' = v /\ version' = IF top THEN as ELSE ""
  /\ chunksizes' = IF v.kind = "Array" THEN Chunks(v) ELSE << >>
  /\ info' = "nothing"
  /\ pc' = "create"
  /\ UNCHANGED <<module, keys, conf, handler, transmitters, formats>>
  /\ UNCHANGED <<mode, nctype, storage, start, element, cells>>

(* nc_create.                                                              *)
Create ==
  /\ pc = "create"
  /\ mode' = IF returnAs = "netcdf" THEN {}
             ELSE {"NC_NETCDF4"} \cup (IF conf.classic_model THEN {"NC_CLASSIC_MODEL"} ELSE {})
  /\ pc' = "define"
  /\ UNCHANGED <<made, nctype, storage, start, element, cells, module_vars>>

---------------------------------------------------------------------------
(* The define methods.                                                     *)

Defined(type, how) ==
  /\ pc = "define"
  /\ nctype' = type /\ storage' = how
  /\ start' = [d \in DOMAIN var.sizes |-> 0]
  /\ pc' = "write"
  /\ UNCHANGED <<made, mode, element, cells, module_vars>>

AskedByKey == conf.use_compression   \* mutant: the key decides, whatever the format
isNetCDF4 == version = "netcdf-4"

(* nc_def_var refuses a variable without a type.                           *)
DefineArray ==
  /\ class = "FONcArray" /\ get_nc_type(var.type) # "NAT"
  /\ Defined(get_nc_type(var.type),
             IF ~ isNetCDF4 THEN NoStorage
             ELSE [chunking |-> IF conf.chunk_size = 0 THEN "contiguous" ELSE "chunked",
                   deflate |-> conf.use_compression])

(* FONcBaseType::define with the type() of the class; no storage.          *)
DefineByte == class = "FONcByte" /\ Defined("BYTE", NoStorage)
DefineShort == class = "FONcShort" /\ Defined("SHORT", NoStorage)
DefineInt == class = "FONcInt" /\ Defined("INT", NoStorage)
DefineFloat == class = "FONcFloat" /\ Defined("FLOAT", NoStorage)
DefineDouble == class = "FONcDouble" /\ Defined("DOUBLE", NoStorage)
DefineString == class = "FONcStr" /\ Defined("CHAR", NoStorage)

---------------------------------------------------------------------------
(* The write methods.                                                      *)

(* The signed number with the bits of the unsigned v.                      *)
Signed(v, max) == IF v > max THEN v - 2 * max - 2 ELSE v

(* buf2val, and the loops that widen bytes and unsigned shorts.            *)
ArrayValue(type, v) == IF type = "UInt32" THEN Signed(v, IntMax) ELSE v

(* nc_put_var: the k-th value of a buffer, from 0, is at this index.       *)
IndexOf(k, s) ==
  [d \in DOMAIN s |-> (k \div Product(SubSeq(s, d + 1, Len(s)))) % s[d]]

Written == pc' = "done" /\ UNCHANGED <<made, mode, nctype, storage, start, module_vars>>

(* nc_put_var1: a simple variable is at the empty index.                   *)
PutOne(v) ==
  /\ pc = "write"
  /\ cells' = [i \in {<< >>} |-> v]
  /\ Written /\ UNCHANGED element

(* A byte is unsigned, and so are the shorts and ints of some: the buffer  *)
(* is written with its bits.                                               *)
WriteByte == class = "FONcByte" /\ PutOne(Signed(var.data[1], ByteMax))
WriteShort == class = "FONcShort" /\ PutOne(Signed(var.data[1], ShortMax))
WriteInt == class = "FONcInt" /\ PutOne(Signed(var.data[1], IntMax))
WriteFloat == class = "FONcFloat" /\ PutOne(var.data[1])
WriteDouble == class = "FONcDouble" /\ PutOne(var.data[1])

WriteNumbers ==
  /\ pc = "write" /\ class = "FONcArray" /\ nctype # "CHAR"
  /\ cells' = [i \in {IndexOf(k - 1, var.sizes) : k \in DOMAIN var.data} |->
                 LET k == CHOOSE j \in DOMAIN var.data : IndexOf(j - 1, var.sizes) = i
                 IN ArrayValue(var.type, var.data[k])]
  /\ Written /\ UNCHANGED element

BumpPast(s) ==   \* mutant: the end of a dimension is one too far
  LET Movable == {d \in DOMAIN s : s[d] # var.sizes[d]}
      dim == CHOOSE d \in Movable : \A e \in Movable : e <= d
  IN [d \in DOMAIN s |-> IF d < dim THEN s[d] ELSE IF d = dim THEN s[d] + 1 ELSE 0]

BumpFirst(s) ==   \* mutant: the loop starts at the first dimension
  LET Movable == {d \in DOMAIN s : s[d] + 1 # var.sizes[d]}
      dim == CHOOSE d \in Movable : \A e \in Movable : e >= d
  IN [d \in DOMAIN s |-> IF d > dim THEN s[d] ELSE IF d = dim THEN s[d] + 1 ELSE 0]

(* The while loop on var_start: the last index that is not at its end is   *)
(* bumped up, those after it start again.                                  *)
Bump(s) ==
  LET Movable == {d \in DOMAIN s : s[d] + 1 # var.sizes[d]}
      dim == CHOOSE d \in Movable : \A e \in Movable : e <= d
  IN [d \in DOMAIN s |-> IF d < dim THEN s[d] ELSE IF d = dim THEN s[d] + 1 ELSE 0]

(* nc_put_vara_text refuses a string longer than the length dimension.     *)
PutText ==
  /\ pc = "write" /\ nctype = "CHAR"
  /\ var.data[element + 1].len + 1 <= var.lendim
  /\ cells' = [i \in DOMAIN cells \cup {start} |->
                 IF i = start THEN var.data[element + 1] ELSE cells[i]]
  /\ element' = element + 1

WriteString == PutText /\ class = "FONcStr" /\ Written

(* One turn of the loop over the elements of a string array.               *)
WriteElement ==
  /\ PutText /\ class = "FONcArray"
  /\ IF element + 1 < Product(var.sizes)
     THEN /\ start' = Bump(start)
          /\ UNCHANGED <<pc, made, mode, nctype, storage, module_vars>>
     ELSE Written

(* A call of the library fails, in define or in write.                     *)
Fail ==
  /\ pc \in {"define", "write"}
  /\ pc' = "failed"
  /\ UNCHANGED <<made, mode, nctype, storage, start, element, cells, module_vars>>

NoVariable == [kind |-> "Scalar", type |-> "Byte", sizes |-> << >>, data |-> << >>, lendim |-> 0]

(* The objects of the request are deleted with the transformation.         *)
Proceed ==
  /\ pc \in {"done", "failed"}
  /\ pc' = "idle"
  /\ var' = NoVariable /\ class' = "FONcByte" /\ version' = "" /\ chunksizes' = << >>
  /\ mode' = {} /\ nctype' = "NAT" /\ storage' = NoStorage
  /\ start' = << >> /\ element' = 0 /\ cells' = << >>
  /\ UNCHANGED <<returnAs, module_vars>>

(* The module is loaded, asked about itself and unloaded between requests. *)
Manage ==
  /\ pc = "idle"
  /\ \/ Initialize \/ InitializeFails \/ Terminate
     \/ \E r \in {"BESInfo", "BESVersionInfo"} : build_help(r) \/ build_version(r)
  /\ UNCHANGED <<pc, made, mode, nctype, storage, start, element, cells>>

(* Without the module there is nothing to do.                              *)
Over == module = "failed" /\ UNCHANGED vars

Init ==
  /\ ModuleInit
  /\ pc = "idle" /\ returnAs = "netcdf"
  /\ var = NoVariable /\ class = "FONcByte" /\ version = "" /\ chunksizes = << >>
  /\ mode = {} /\ nctype = "NAT" /\ storage = NoStorage
  /\ start = << >> /\ element = 0 /\ cells = << >>

Next ==
  \/ Manage
  \/ \E v \in Variables, as \in Versions, top \in BOOLEAN : Convert(v, as, top)
  \/ Create
  \/ DefineArray \/ DefineString
  \/ DefineByte \/ DefineShort \/ DefineInt \/ DefineFloat \/ DefineDouble
  \/ WriteByte \/ WriteShort \/ WriteInt \/ WriteFloat \/ WriteDouble
  \/ WriteString \/ WriteNumbers \/ WriteElement
  \/ Fail \/ Proceed \/ Over

Spec == Init /\ [][Next]_vars

---------------------------------------------------------------------------
(* Everything has its type; an index under way is one of the variable.     *)
TypeOK ==
  /\ ModuleTypeOK
  /\ pc \in {"idle", "create", "define", "write", "done", "failed"}
  /\ returnAs \in Versions /\ mode \subseteq {"NC_NETCDF4", "NC_CLASSIC_MODEL"}
  /\ IsVariable(var) /\ class \in Classes /\ version \in Versions \cup {""}
  /\ nctype \in NcTypes
  /\ chunksizes \in Seq(1..MAX_CHUNK_SIZE)
  /\ storage \in [chunking : {"none", "contiguous", "chunked"}, deflate : BOOLEAN]
  /\ element \in 0..Len(var.data)
  /\ pc \in {"write", "done"} => DOMAIN start = DOMAIN var.sizes
  /\ \A d \in DOMAIN start : start[d] \in 0..(var.sizes[d] - 1)
  /\ \A i \in DOMAIN cells : cells[i] \in IF var.type \in NumTypes THEN Int ELSE Text

(* The numbers a variable of the file can hold, and what of another number *)
(* is left: its last bits.                                                 *)
MaxOf(type) == CASE type = "BYTE" -> ByteMax [] type = "SHORT" -> ShortMax [] OTHER -> IntMax
SameNumber(type, v, w) ==
  IF type \in {"FLOAT", "DOUBLE"} THEN v = w
  ELSE LET max == MaxOf(type) IN
       /\ w \in (-max - 1)..max
       /\ (v - w) % (2 * max + 2) = 0

(* A variable that is written has every value in its place, in row-major   *)
(* order, and as the same number if the file's type has it: bytes do in    *)
(* arrays, as "Byte/UInt8 will always be unsigned" (FONcArray.cc:397-400). *)
ValuesKept ==
  pc = "done" =>
    /\ DOMAIN cells = {IndexOf(k - 1, var.sizes) : k \in DOMAIN var.data}
    /\ \A k \in DOMAIN var.data :
         LET c == cells[IndexOf(k - 1, var.sizes)] IN
         IF var.type \notin NumTypes THEN c = var.data[k]
         ELSE /\ SameNumber(nctype, var.data[k], c)
              /\ var.kind = "Array" /\ var.type # "UInt32" => c = var.data[k]

(* The chunk sizes netCDF-4 is given: one for each dimension, none larger  *)
(* than it, or it reports "Bad chunk sizes" (FONcArray.cc:177-184).        *)
ChunksFit ==
  pc = "write" /\ storage.chunking # "none" =>
    LET dims == IF nctype = "CHAR" THEN Append(var.sizes, var.lendim) ELSE var.sizes
    IN /\ Len(chunksizes) = Len(dims)
       /\ \A d \in DOMAIN dims : chunksizes[d] <= dims[d]

(* Chunks and compression are asked of netCDF-4 files only, by whatever    *)
(* object, told the version or not: the library refuses them for others    *)
(* (FONcArray.cc:295).  A top-level array of such a file is compressed     *)
(* unless the key FONc.UseCompression says otherwise, as it was when the   *)
(* module was last loaded: true is the default, a directory kept from an   *)
(* earlier loading does not keep the other keys (FONcRequestHandler.cc:    *)
(* 137-161).  Nothing is said of the members of other variables, which are *)
(* not told the version and are never compressed, nor of FONc.ChunkSize,   *)
(* which the code does not take from a plain number.                       *)
StorageAllowed ==
  pc = "write" =>
    /\ storage # NoStorage => "NC_NETCDF4" \in mode
    /\ class = "FONcArray" /\ version # "" /\ "NC_NETCDF4" \in mode =>
         (storage.deflate <=> keys.UseCompression \in {"absent", "true", "yes"})

(* A UInt16 is the same number in the file: "Changing mapping of UINT16    *)
(* from NC_SHORT to NC_INT for variables since that will cause overflow.   *)
(* This also makes it consistent for the mapping of attributes."           *)
(* (ChangeLog:605-606).                                                    *)
UInt16Kept ==
  pc = "done" /\ var.type = "UInt16" =>
    \A k \in DOMAIN var.data : cells[IndexOf(k - 1, var.sizes)] = var.data[k]
=============================================================================
