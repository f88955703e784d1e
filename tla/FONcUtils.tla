------------------------------ MODULE FONcUtils ------------------------------
(***************************************************************************)
(* Names, types and DAP variables: the parts of FONcUtils every other      *)
(* module uses.                                                            *)
(*                                                                         *)
(* A name is a path, a sequence of tokens.  FONcUtils::gen_name joins the  *)
(* names of the enclosing structures and the name of the variable with "." *)
(* so a path stands for the string with the dots between its tokens.  Two  *)
(* tokens are glued to the one before them instead: "_len", the suffix of  *)
(* the string-length dimensions, and "dim", whose n-fold repetition stands *)
(* for the string "dimN" that FONcDim::define makes up for the n-th        *)
(* dimension without a name.  The empty path is the empty string.          *)
(***************************************************************************)
EXTENDS Integers, Sequences, FiniteSets

CONSTANTS
  Token,      \* the parts of names that occur in a request
  Clean,      \* [Token -> Token]: illegal characters replaced by '_'
  Prefixed,   \* [Token -> Token]: Clean, then name_prefix if the first character needs it
  Val,        \* the data of an array, one abstract value for all its elements
  NaNVals     \* the values that hold a NaN: such data is not equal to itself

ASSUME TokenAssumption ==
  /\ {"_len", "dim"} \subseteq Token
  /\ Clean \in [Token -> Token]
  /\ Prefixed \in [Token -> Token]

Path == Seq(Token)

(* FONcUtils::id2netcdf: a legal netCDF identifier.  Different names may   *)
(* become the same identifier.                                             *)
id2netcdf(n) ==
  [k \in DOMAIN n |-> IF k = 1 THEN Prefixed[n[k]] ELSE Clean[n[k]]]

(* FONcUtils::gen_name: the netCDF name of a variable in structures embed. *)
gen_name(embed, name) == id2netcdf(embed \o name)

(* The name of the dimension that holds the length of strings.             *)
WithLen(n) == Append(n, "_len")

(* The name of the n-th dimension without a name.                          *)
AutoDim(n) == [k \in 1..n |-> "dim"]

DapTypes == {"Byte", "Int16", "UInt16", "Int32", "UInt32",
             "Float32", "Float64", "String", "Url"}
NcTypes == {"NAT", "BYTE", "CHAR", "SHORT", "INT", "FLOAT", "DOUBLE"}

(* FONcUtils::get_nc_type, the type of an array in the file.  There is no  *)
(* case for arrays of Url.                                                 *)
get_nc_type(t) ==
  CASE t \in {"Byte", "Int16"} -> "SHORT"
    [] t \in {"UInt16", "Int32", "UInt32"} -> "INT"
    [] t = "Float32" -> "FLOAT"
    [] t = "Float64" -> "DOUBLE"
    [] t = "String" -> "CHAR"
    [] OTHER -> "NAT"

(* The type of a simple variable in the file: what FONcUtils::convert      *)
(* picks a class for, and the class's type().                              *)
scalar_type(t) ==
  CASE t = "Byte" -> "BYTE"
    [] t \in {"Int16", "UInt16"} -> "SHORT"
    [] t \in {"Int32", "UInt32"} -> "INT"
    [] t = "Float32" -> "FLOAT"
    [] t = "Float64" -> "DOUBLE"
    [] OTHER -> "CHAR"

(***************************************************************************)
(* The variables of a DAP response, after the constraint expression.       *)
(*                                                                         *)
(* A response is the sequence of the leaves of its structures, in order:   *)
(* FONcStructure adds nothing but its name to the names of its members.    *)
(* Len is the longest string of a String array or variable plus one.       *)
(***************************************************************************)
Dim == [name : Path, size : Nat \ {0}]
Arr == [name : Path, type : DapTypes, dims : Seq(Dim), val : Val,
        len : Nat \ {0}, send : BOOLEAN]
Kinds == {"Scalar", "Str", "Sequence", "Array", "Grid", "Unknown"}
Var == [kind : Kinds, embed : Path, send : BOOLEAN, main : Arr, maps : Seq(Arr)]

(* The arrays of a response: <<i, 0>> is the variable i itself, or the     *)
(* array of grid i; <<i, k>> is the k-th map of grid i.                    *)
Key == Nat \X Nat
ArrOf(r, p) == IF p[2] = 0 THEN r[p[1]].main ELSE r[p[1]].maps[p[2]]

(* What FONcStructure::convert pushed before the variable was converted;   *)
(* FONcGrid::convert hands its maps an empty list.                         *)
EmbedOf(r, p) == IF p[2] = 0 THEN r[p[1]].embed ELSE << >>

(* An array that FONcArray::convert takes for a possible map of a grid.    *)
IsCoordinate(a) == Len(a.dims) = 1 /\ a.dims[1].name = a.name

(* Two arrays that hold the same data under the same name: one variable of *)
(* a file can stand for both.                                              *)
SameData(a, b) ==
  /\ a.name = b.name /\ a.type = b.type /\ a.dims = b.dims
  /\ a.val = b.val /\ a.val \notin NaNVals

compareNames(a, b) ==   \* mutant: the values are not compared
  /\ b.name = a.name /\ b.type = a.type
  /\ Len(b.dims) = Len(a.dims) /\ a.dims[1].name = a.name /\ b.dims[1] = a.dims[1]

(* The values, element by element with the != of their type: two NaNs are  *)
(* different.                                                              *)
EqualValues(a, b) == b.val = a.val /\ a.val \notin NaNVals

(* FONcMap::compare of the array a of a registered map with the array b.   *)
compare(a, b) ==
  /\ b.name = a.name
  /\ b.type = a.type
  /\ Len(b.dims) = Len(a.dims)
  /\ a.dims[1].name = a.name
  /\ b.dims[1] = a.dims[1]
  /\ EqualValues(a, b)
=============================================================================
