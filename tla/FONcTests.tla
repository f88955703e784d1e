------------------------------- MODULE FONcTests -------------------------------
(***************************************************************************)
(* The programs of data/build_test_data and unit-tests that build a DAP    *)
(* response in memory, the constraints the tests apply to them, and the    *)
(* headers of the netCDF files that the baselines say come out             *)
(* (tests/bescmd/*.baseline.header, unit-tests/baselines, and the *.dump   *)
(* of unit-tests/data for what readT reads).  The model has to make the    *)
(* same files of the same responses.                                       *)
(*                                                                         *)
(* Every value is the one abstract "v1": the tests' values play no part in *)
(* a header, and no two arrays of one name differ in them.                 *)
(***************************************************************************)
EXTENDS FONcTransform, FONcStructure
LOCAL INSTANCE SequencesExt

D(name, size) == [name |-> <<name>>, size |-> size]
A(name, type, dims, val) ==
  [name |-> <<name>>, type |-> type, dims |-> dims, val |-> val, len |-> 2, send |-> TRUE]

(* add_var: a variable added to the structure n, or to the dataset.        *)
Add(n, kind, main, maps) ==
  [in |-> n, kind |-> kind, send |-> TRUE, main |-> main, maps |-> maps]
Simple(n, name, type) == Add(n, "Scalar", A(name, type, << >>, "v1"), << >>)
Text(n, name) == Add(n, "Str", [A(name, "String", << >>, "v1") EXCEPT !.len = 23], << >>)
Ary(name, type, dims) == Add(0, "Array", A(name, type, dims, "v1"), << >>)
Strct(n, name) == Add(n, "Structure", A(name, "Byte", << >>, "v1"), << >>)
Grd(n, main, maps) == Add(n, "Grid", main, maps)

---------------------------------------------------------------------------
(* The programs.                                                           *)

Simples(n) ==
  <<Simple(n, "byte", "Byte"), Simple(n, "i16", "Int16"), Simple(n, "i32", "Int32"),
    Simple(n, "ui16", "UInt16"), Simple(n, "ui32", "UInt32"),
    Simple(n, "f32", "Float32"), Simple(n, "f64", "Float64"), Text(n, "str")>>

simpleT00 == Simples(0)
structT00 == <<Strct(0, "mystruct")>> \o Simples(1)

arrayT_integers ==
  <<Ary("byte_array", "Byte", <<D("byte_dim1", 2), D("byte_dim2", 5)>>),
    Ary("i16_array", "Int16", <<D("i16_dim1", 3), D("i16_dim2", 6)>>),
    Ary("i32_array", "Int32", <<D("i32_dim1", 2), D("i32_dim2", 20)>>),
    Ary("ui16_array", "UInt16", <<D("ui16_dim1", 3), D("ui16_dim2", 7)>>),
    Ary("ui32_array", "UInt32", <<D("ui32_dim1", 3), D("ui32_dim2", 40)>>)>>
arrayT_others ==
  <<Ary("f32_array", "Float32", <<D("f32_dim1", 100)>>),
    Ary("f64_array", "Float64", <<D("f64_dim1", 2), D("f64_dim2", 2), D("f64_dim3", 100)>>),
    [Ary("str_array", "String", <<D("str_dim1", 2), D("str_dim2", 3), D("str_dim3", 6)>>)
       EXCEPT !.main.len = 10]>>
arrayT == arrayT_integers \o arrayT_others

arrayT01 ==
  LET dims == <<D("dim1", 2), D("dim2", 5)>>
  IN <<Ary("byte_array", "Byte", dims), Ary("i16_array", "Int16", dims),
       Ary("i32_array", "Int32", dims)>>

gridT ==
  LET i == A("i", "Int32", <<D("i", 2)>>, "v1")
      j == A("j", "Float32", <<D("j", 3)>>, "v1")
      k == [A("k", "String", <<D("k", 4)>>, "v1") EXCEPT !.len = 5]
      order == A("order", "Int16", <<D("i", 2), D("j", 3)>>, "v1")
      shot == A("shot", "Int32", <<D("i", 2), D("j", 3)>>, "v1")
      bears == A("bears", "Int32", <<D("i", 2), D("k", 4)>>, "v1")
  IN <<Add(0, "Array", i, << >>), Grd(0, order, <<i, j>>),
       Strct(0, "gstruct"), Grd(3, shot, <<i, j>>),
       Strct(0, "bstruct"), Grd(5, bears, <<i, k>>)>>

(* Names with illegal characters.                                          *)
namesT ==
  LET i == A("i dim", "Int32", <<D("i dim", 2)>>, "v1")
      j == A("j!dim", "Float32", <<D("j!dim", 3)>>, "v1")
      order == A("/order name/#with^chars&", "Int16", <<D("i dim", 2), D("j!dim", 3)>>, "v1")
  IN <<Add(0, "Array", i, << >>), Grd(0, order, <<i, j>>),
       Strct(0, "my&struct"), Simple(3, "ui(32)", "UInt32"), Simple(3, "f[32]", "Float32")>>

(* Structures in structures; the two programs differ in one member of s2.  *)
Nested(member) ==
  <<Strct(0, "s1"), Simple(1, "byte", "Byte"), Simple(1, "ui16", "UInt16"),
    Simple(1, "f64", "Float64"), Strct(1, "s2"), Simple(5, "i16", "Int16"), member,
    Text(5, "str"), Strct(5, "s3"), Simple(9, "i32", "Int32"), Simple(9, "f32", "Float32")>>
structT01 ==
  Nested(Add(5, "Array", A("ui32a", "UInt32", <<D("ui32a_dim1", 2), D("ui32a_dim2", 5)>>, "v1"), << >>))
structT02 == Nested(Simple(5, "ui32", "UInt32"))

seqT == <<Add(0, "Sequence", A("people", "Int32", << >>, "v1"), << >>)>>

---------------------------------------------------------------------------
(* readT: a response read from a file of unit-tests/data.                  *)

(* set_read and the functions it calls mark what they reach as read and to *)
(* be sent: through structures and sequences, in each other too.           *)
SetRead(t) ==
  LET marked[n \in 0..Len(t)] ==
        \/ n = 0 \/ t[n].in = 0
        \/ marked[t[n].in] /\ t[t[n].in].kind \in {"Structure", "Sequence"}
  IN [n \in DOMAIN t |-> [t[n] EXCEPT !.send = marked[n]]]

Unmarked(t) == [n \in DOMAIN t |-> [t[n] EXCEPT !.send = FALSE]]
readT(t) == SetRead(Unmarked(t))

AryIn(n, name, type, dims) == [Ary(name, type, dims) EXCEPT !.in = n]
Seqn(n, name) == Add(n, "Sequence", A(name, "Byte", << >>, "v1"), << >>)
Unnamed(size) == [name |-> << >>, size |-> size]

nc_dods ==
  LET dims == <<D("time_a", 16), D("lat", 17), D("lon", 21)>>
  IN <<Ary("u", "Int16", dims), Ary("v", "Int16", dims),
       Ary("lat", "Float32", <<D("lat", 17)>>), Ary("lon", "Float32", <<D("lon", 21)>>),
       Ary("time", "Float32", <<D("time", 16)>>)>>

(* Some variables of each kind of the HDF4 file, and its sequences.        *)
row_WVC == <<D("row", 458), D("WVC", 24)>>
hdf4_dods ==
  <<Strct(0, "NSCAT Rev 20"), AryIn(1, "WVC_Lat", "Int16", row_WVC),
    AryIn(1, "WVC_Lon", "UInt16", row_WVC), AryIn(1, "Num_Sigma0", "Byte", row_WVC),
    AryIn(1, "Wind_Speed", "UInt16", Append(row_WVC, D("position", 4))),
    Seqn(1, "SwathIndex"), Strct(6, "begin"), Simple(7, "begin__0", "Int16"),
    Seqn(1, "NSCAT L2"), Strct(9, "Mean_Time"), Text(10, "Mean_Time__0")>>
constraint_dods == SubSeq(hdf4_dods, 1, 2)

(* Some variables of the first record of the CEDAR file: its arrays have   *)
(* dimensions without names.                                               *)
cedar_dods ==
  <<Strct(0, "mfp920504a"), Strct(1, "data_record_1"), Strct(2, "prologue"),
    Simple(3, "KINST", "Int16"), Simple(3, "IBYRT", "UInt16"),
    Strct(2, "JPAR"), Simple(6, "gdlatr", "Int16"), Strct(2, "MPAR"),
    AryIn(8, "year", "Int16", <<Unnamed(19)>>), AryIn(8, "dayno", "Int16", <<Unnamed(19)>>)>>

---------------------------------------------------------------------------
(* A constraint is the set of the names it asks for; without any, all is   *)
(* sent.  What is around a variable asked for is sent with it, and what is *)
(* in one.                                                                 *)
Asked(ce, name) == ce = {} \/ \E c \in ce : IsPrefix(c, name) \/ IsPrefix(name, c)
Constrain(t, ce) ==
  LET name(n) == Embed(t)[n]
      part(n, a) == [a EXCEPT !.send = Asked(ce, name(n) \o a.name)]
  IN [n \in DOMAIN t |->
       IF t[n].kind = "Grid"
       THEN [t[n] EXCEPT !.send = Asked(ce, name(n)), !.main = part(n, @),
                         !.maps = [k \in DOMAIN @ |-> part(n, @[k])]]
       ELSE [t[n] EXCEPT !.send = Asked(ce, name(n))]]

simpleT01 == Constrain(simpleT00, {<<"i16">>, <<"f64">>, <<"str">>})
simpleT02 == Constrain(simpleT00, {<<"byte">>})
structT02_constrained ==
  Constrain(structT02, {<<"s1", "ui16">>, <<"s1", "s2", "str">>, <<"s1", "s2", "s3", "i32">>})
gridT_asked(ce) == Constrain(gridT, {ce})

---------------------------------------------------------------------------
(* What the baselines say of the file.                                     *)

Dm(name, size) == [name |-> <<name>>, size |-> size]
LenDm(s, name, size) == [name |-> WithLen(Append(s, name)), size |-> size]
Vr(name, type, dims) == [name |-> <<name>>, type |-> type, dims |-> dims]
VrIn(s, name, type, dims) == [name |-> s \o <<name>>, type |-> type, dims |-> dims]
Header(dims, vs) == [dims |-> dims, vars |-> vs, elided |-> {}]

(* One variable of each simple type in the structures s.                   *)
SimplesHeader(s) ==
  Header(<<LenDm(s, "str", 23)>>,
         <<VrIn(s, "byte", "BYTE", << >>), VrIn(s, "i16", "SHORT", << >>), VrIn(s, "i32", "INT", << >>),
           VrIn(s, "ui16", "SHORT", << >>), VrIn(s, "ui32", "INT", << >>),
           VrIn(s, "f32", "FLOAT", << >>), VrIn(s, "f64", "DOUBLE", << >>),
           VrIn(s, "str", "CHAR", <<WithLen(Append(s, "str"))>>)>>)

S1 == <<"s1">>
S2 == <<"s1", "s2">>
S3 == <<"s1", "s2", "s3">>
NestedHeader(dims, member) ==
  Header(Append(dims, LenDm(S2, "str", 23)),
         <<VrIn(S1, "byte", "BYTE", << >>), VrIn(S1, "ui16", "SHORT", << >>),
           VrIn(S1, "f64", "DOUBLE", << >>), VrIn(S2, "i16", "SHORT", << >>), member,
           VrIn(S2, "str", "CHAR", <<WithLen(Append(S2, "str"))>>),
           VrIn(S3, "i32", "INT", << >>), VrIn(S3, "f32", "FLOAT", << >>)>>)

arrayTHeader ==
  Header(<<Dm("byte_dim1", 2), Dm("byte_dim2", 5), Dm("i16_dim1", 3), Dm("i16_dim2", 6),
           Dm("i32_dim1", 2), Dm("i32_dim2", 20), Dm("ui16_dim1", 3), Dm("ui16_dim2", 7),
           Dm("ui32_dim1", 3), Dm("ui32_dim2", 40), Dm("f32_dim1", 100), Dm("f64_dim1", 2),
           Dm("f64_dim2", 2), Dm("f64_dim3", 100), Dm("str_dim1", 2), Dm("str_dim2", 3),
           Dm("str_dim3", 6), LenDm(<< >>, "str_array", 10)>>,
         <<Vr("byte_array", "SHORT", << <<"byte_dim1">>, <<"byte_dim2">> >>),
           Vr("i16_array", "SHORT", << <<"i16_dim1">>, <<"i16_dim2">> >>),
           Vr("i32_array", "INT", << <<"i32_dim1">>, <<"i32_dim2">> >>),
           Vr("ui16_array", "INT", << <<"ui16_dim1">>, <<"ui16_dim2">> >>),
           Vr("ui32_array", "INT", << <<"ui32_dim1">>, <<"ui32_dim2">> >>),
           Vr("f32_array", "FLOAT", << <<"f32_dim1">> >>),
           Vr("f64_array", "DOUBLE", << <<"f64_dim1">>, <<"f64_dim2">>, <<"f64_dim3">> >>),
           Vr("str_array", "CHAR", << <<"str_dim1">>, <<"str_dim2">>, <<"str_dim3">>,
                                     <<"str_array", "_len">> >>)>>)

ij == << <<"i">>, <<"j">> >>
Int_i == Vr("i", "INT", << <<"i">> >>)
Float_j == Vr("j", "FLOAT", << <<"j">> >>)
order_ij == Vr("order", "SHORT", ij)
shot_ij == VrIn(<<"gstruct">>, "shot", "INT", ij)

nc_Header ==
  LET dims == << <<"time_a">>, <<"lat">>, <<"lon">> >>
  IN Header(<<Dm("time_a", 16), Dm("lat", 17), Dm("lon", 21), Dm("time", 16)>>,
            <<Vr("u", "SHORT", dims), Vr("v", "SHORT", dims), Vr("lat", "FLOAT", << <<"lat">> >>),
              Vr("lon", "FLOAT", << <<"lon">> >>), Vr("time", "FLOAT", << <<"time">> >>)>>)

NSCAT == <<"NSCAT_Rev_20">>
WVC == << <<"row">>, <<"WVC">> >>
hdf4_Header ==
  [dims |-> <<Dm("row", 458), Dm("WVC", 24), Dm("position", 4)>>,
   vars |-> <<VrIn(NSCAT, "WVC_Lat", "SHORT", WVC), VrIn(NSCAT, "WVC_Lon", "INT", WVC),
              VrIn(NSCAT, "Num_Sigma0", "SHORT", WVC),
              VrIn(NSCAT, "Wind_Speed", "INT", Append(WVC, <<"position">>))>>,
   elided |-> {<<"NSCAT_Rev_20", "SwathIndex">>, <<"NSCAT_Rev_20", "NSCAT_L2">>}]
constraint_Header ==
  Header(<<Dm("row", 458), Dm("WVC", 24)>>, <<VrIn(NSCAT, "WVC_Lat", "SHORT", WVC)>>)

Record1 == <<"mfp920504a", "data_record_1">>
cedar_Header ==
  LET Of(struct, name, dims) == VrIn(Append(Record1, struct), name, "SHORT", dims)
  IN Header(<<[name |-> AutoDim(1), size |-> 19], [name |-> AutoDim(2), size |-> 19]>>,
            <<Of("prologue", "KINST", << >>), Of("prologue", "IBYRT", << >>),
              Of("JPAR", "gdlatr", << >>), Of("MPAR", "year", <<AutoDim(1)>>),
              Of("MPAR", "dayno", <<AutoDim(2)>>)>>)

(* The tests: a dataset, constrained or not, and its file.                 *)
Baselines ==
  {[of |-> simpleT00, header |-> SimplesHeader(<< >>)],
   [of |-> structT00, header |-> SimplesHeader(<<"mystruct">>)],
   [of |-> simpleT01, header |-> Header(<<LenDm(<< >>, "str", 23)>>,
      <<Vr("i16", "SHORT", << >>), Vr("f64", "DOUBLE", << >>), Vr("str", "CHAR", << <<"str", "_len">> >>)>>)],
   [of |-> simpleT02, header |-> Header(<< >>, <<Vr("byte", "BYTE", << >>)>>)],
   [of |-> arrayT, header |-> arrayTHeader],
   [of |-> arrayT01, header |-> Header(<<Dm("dim1", 2), Dm("dim2", 5)>>,
      <<Vr("byte_array", "SHORT", << <<"dim1">>, <<"dim2">> >>),
        Vr("i16_array", "SHORT", << <<"dim1">>, <<"dim2">> >>),
        Vr("i32_array", "INT", << <<"dim1">>, <<"dim2">> >>)>>)],
   [of |-> gridT, header |-> Header(<<Dm("i", 2), Dm("j", 3), Dm("k", 4), LenDm(<< >>, "k", 5)>>,
      <<Int_i, Float_j, order_ij, shot_ij, Vr("k", "CHAR", << <<"k">>, <<"k", "_len">> >>),
        VrIn(<<"bstruct">>, "bears", "INT", << <<"i">>, <<"k">> >>)>>)],
   [of |-> gridT_asked(<<"order", "i">>), header |-> Header(<<Dm("i", 2)>>, <<Int_i>>)],
   [of |-> gridT_asked(<<"order", "order">>),
    header |-> Header(<<Dm("i", 2), Dm("j", 3)>>, <<order_ij>>)],
   [of |-> gridT_asked(<<"gstruct", "shot", "j">>), header |-> Header(<<Dm("j", 3)>>, <<Float_j>>)],
   [of |-> gridT_asked(<<"gstruct", "shot", "shot">>),
    header |-> Header(<<Dm("i", 2), Dm("j", 3)>>, <<shot_ij>>)],
   [of |-> namesT, header |-> Header(<<Dm("i_dim", 2), Dm("j_dim", 3)>>,
      <<Vr("i_dim", "INT", << <<"i_dim">> >>), Vr("j_dim", "FLOAT", << <<"j_dim">> >>),
        Vr("_order_name__with_chars_", "SHORT", << <<"i_dim">>, <<"j_dim">> >>),
        VrIn(<<"my_struct">>, "ui_32_", "INT", << >>), VrIn(<<"my_struct">>, "f_32_", "FLOAT", << >>)>>)],
   [of |-> structT01, header |-> NestedHeader(
      <<Dm("ui32a_dim1", 2), Dm("ui32a_dim2", 5)>>,
      VrIn(S2, "ui32a", "INT", << <<"ui32a_dim1">>, <<"ui32a_dim2">> >>))],
   [of |-> structT02, header |-> NestedHeader(<< >>, VrIn(S2, "ui32", "INT", << >>))],
   [of |-> structT02_constrained, header |-> Header(<<LenDm(S2, "str", 23)>>,
      <<VrIn(S1, "ui16", "SHORT", << >>), VrIn(S2, "str", "CHAR", <<WithLen(Append(S2, "str"))>>),
        VrIn(S3, "i32", "INT", << >>)>>)],
   [of |-> readT(nc_dods), header |-> nc_Header],
   [of |-> readT(hdf4_dods), header |-> hdf4_Header],
   [of |-> readT(constraint_dods), header |-> constraint_Header],
   [of |-> readT(cedar_dods), header |-> cedar_Header],
   [of |-> seqT, header |-> [Header(<< >>, << >>) EXCEPT !.elided = {<<"people">>}]]}

TestResponses == {Flatten(b.of) : b \in Baselines}

(* The file of a test response has the dimensions and the variables that   *)
(* the test's baseline lists, in that order, with those types and          *)
(* dimensions, and no test response is refused (FONcTransform::transform   *)
(* over FONcStructure, FONcGrid, FONcArray and the simple types).          *)
FileHeader ==
  [dims |-> ncDims,
   vars |-> [k \in DOMAIN ncVars |->
     [name |-> ncVars[k].name, type |-> ncVars[k].type,
      dims |-> [m \in DOMAIN ncVars[k].dims |-> ncDims[ncVars[k].dims[m]].name]]],
   elided |-> elided]
BaselineMatch ==
  pc = "destroy" /\ vi = 1 /\ status \in {"ok", "conflict"} =>
    \A b \in Baselines : Flatten(b.of) = req => status = "ok" /\ FileHeader = b.header

(* The names the tests use and what id2netcdf makes of them.               *)
Cleaned ==
  [n \in {"i dim", "j!dim", "/order name/#with^chars&", "my&struct", "ui(32)", "f[32]",
          "NSCAT Rev 20", "NSCAT L2"} |->
    CASE n = "i dim" -> "i_dim" [] n = "j!dim" -> "j_dim" [] n = "my&struct" -> "my_struct"
      [] n = "ui(32)" -> "ui_32_" [] n = "f[32]" -> "f_32_"
      [] n = "NSCAT Rev 20" -> "NSCAT_Rev_20" [] n = "NSCAT L2" -> "NSCAT_L2" [] OTHER -> "_order_name__with_chars_"]
TestNames == DOMAIN Cleaned \cup {Cleaned[n] : n \in DOMAIN Cleaned} \cup
  {"byte", "i16", "i32", "ui16", "ui32", "f32", "f64", "str", "mystruct", "s1", "s2", "s3",
   "byte_array", "i16_array", "i32_array", "ui16_array", "ui32_array", "f32_array",
   "f64_array", "str_array", "byte_dim1", "byte_dim2", "i16_dim1", "i16_dim2", "i32_dim1",
   "i32_dim2", "ui16_dim1", "ui16_dim2", "ui32_dim1", "ui32_dim2", "f32_dim1", "f64_dim1",
   "f64_dim2", "f64_dim3", "str_dim1", "str_dim2", "str_dim3", "dim1", "dim2", "i", "j", "k",
   "order", "shot", "bears", "gstruct", "bstruct", "ui32a", "ui32a_dim1", "ui32a_dim2",
   "people", "u", "v", "lat", "lon", "time", "time_a", "row", "WVC", "position", "WVC_Lat",
   "WVC_Lon", "Num_Sigma0", "Wind_Speed", "SwathIndex", "begin", "begin__0", "Mean_Time",
   "Mean_Time__0", "mfp920504a", "data_record_1", "prologue", "JPAR", "MPAR", "KINST", "IBYRT",
   "gdlatr", "year", "dayno"}
=============================================================================
