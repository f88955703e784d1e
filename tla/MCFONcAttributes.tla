--------------------------- MODULE MCFONcAttributes ---------------------------
(* Instances of FONcAttributes for TLC: tables that nest containers, and   *)
(* variables in structures and grids with them.                            *)
EXTENDS FONcAttrTests

MCToken == {"a", "b", "c", "g", "now", "elided", "s", "t", "x", "a b", "a_b", "1x", "nc_1x", "NC_GLOBAL",
            "H_GLOBAL", "history", "_FillValue", "fonc_original_name", "_len", "dim"} \cup AttrTestNames
MCClean == [k \in MCToken |-> IF k = "a b" THEN "a_b" ELSE k]
MCPrefixed == [k \in MCToken |-> IF k = "a b" THEN "a_b" ELSE IF k = "1x" THEN "nc_1x" ELSE k]
MCGlobalNames == {<<"NC_GLOBAL">>, <<"H_GLOBAL">>}
MCVal == {"v"}
MCEntry == <<"now">>

Text1(name, in) == Att(name, "String", << <<"a">> >>, in)
Text2(name, in) == Att(name, "String", << <<"a">>, <<"b">> >>, in)

(* Tables of a variable: plain, nested, an empty container or attribute    *)
(* between others, names that meet after flattening or cleaning.           *)
Plain == <<Text2("a", 0), Att("b", "Int32", <<2, -5>>, 0)>>
Nested == <<Container("c", 0), Text1("a", 1), Container("g", 1), Text1("b", 3), Text1("b", 1),
            Text1("b", 0)>>
Empties == <<Container("c", 0), Att("a", "String", << >>, 0), Text1("b", 0)>>
Twice == <<[Text1("a", 0) EXCEPT !.name = <<"c", "a">>], Container("c", 0), Text2("a", 2),
           Att("a b", "UInt16", <<7>>, 0), Att("a_b", "UInt32", <<15>>, 0)>>
Deep == <<Container("c", 0), Container("g", 1), Text1("a", 2), Container("s", 0), Text1("a", 4)>>
Original1 == <<Text1("fonc_original_name", 0)>>
(* Numbers at and beyond the limits of their types: 1, 3 and 7.            *)
Limits ==
  <<Att("a", "Byte", <<0, 1, 2, 3, -1, 16>>, 0), Att("b", "Int16", <<3, 4, -4, -5>>, 0),
    Att("c", "UInt16", <<7, 8>>, 0), Att("g", "Int32", <<7, 8, -8, -9>>, 0),
    Att("s", "UInt32", <<7, 15>>, 0), Att("t", "Float32", <<9, NaN>>, 0)>>
Fill(type) == <<Att("_FillValue", type, <<1>>, 0), Container("c", 0), Att("_FillValue", "Byte", <<1>>, 2)>>

Globals ==
  {<< >>, Nested,
   <<Text1("history", 0), Text1("a", 0)>>,
   <<Container("NC_GLOBAL", 0), Text1("a", 1), Text2("history", 1), Text1("b", 0)>>,
   <<Container("c", 0), Text1("history", 1)>>,
   <<Container("NC_GLOBAL", 0), Text1("a", 1), Container("H_GLOBAL", 0), Text1("history", 3)>>,
   <<Container("c", 0), Container("NC_GLOBAL", 1), Text1("a", 2)>>,
   <<Container("NC_GLOBAL", 0), Container("c", 1), Text1("a", 2)>>,
   <<Att("history", "Int32", <<1>>, 0)>>,
   <<Text1("s", 0), Text1("a", 0)>>,
   <<Container("c", 0), Att("a", "Unknown", << <<"a">> >>, 1)>>}

S(table) == [name |-> <<"s">>, table |-> table]
T(table) == [name |-> <<"t">>, table |-> table]
Variables ==
  {Variable("Array", "x", t, << >>, << >>, Fill(t)) : t \in {"Byte", "Int16", "UInt16", "Float32"}}
  \cup {Variable("Array", "x", "Int32", << >>, <<T(Plain)>>, t) : t \in {Plain, Nested, Empties, Twice, Limits}}
  \cup {Variable("Scalar", "x", "Byte", <<"s", "t">>, <<S(Plain), T(Nested)>>, Deep),
        Variable("Scalar", "a b", "Int16", <<"s">>, <<S(Original1)>>, Original1),
        Variable("Scalar", "1x", "String", << >>, << >>, << >>),
        Variable("Sequence", "s", "Int32", << >>, << >>, << >>)}

MCDatasets ==
  {[globals |-> g, vars |-> v] : g \in Globals, v \in {<< >>} \cup {<<x>> : x \in Variables}}
  \cup {[globals |-> << >>, vars |-> <<x, y>>] : x, y \in Variables}
  \cup {attrT}

(* Two containers of global attributes, each with a history.               *)
MCTwoHistories ==
  {[globals |-> <<Container("NC_GLOBAL", 0), Text1("history", 1),
                  Container("H_GLOBAL", 0), Text1("history", 3)>>, vars |-> << >>]}

(* The responses satisfy what the theorems about fill values and the      *)
(* history suppose.                                                        *)
ASSUME CatalogueAssumption == FillsAlone /\ HistoriesAlone
=============================================================================
