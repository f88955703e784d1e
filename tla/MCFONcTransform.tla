---------------------------- MODULE MCFONcTransform ----------------------------
(* Instances of FONcTransform for TLC: small catalogues of variables, and  *)
(* the responses made of them.                                             *)
EXTENDS FONcTests

MCToken == {"lat", "lon", "s", "s2", "t", "u", "w", "x", "y", "n", "c", "q",
            "a b", "a_b", "1a", "nc_1a", "_len", "dim"} \cup TestNames
MCClean == [k \in MCToken |-> IF k \in DOMAIN Cleaned THEN Cleaned[k]
                              ELSE IF k = "a b" THEN "a_b" ELSE k]
MCPrefixed == [k \in MCToken |-> IF k = "1a" THEN "nc_1a" ELSE MCClean[k]]
MCVal == {"v1", "v2", "nan"}
MCNaNVals == {"nan"}

---------------------------------------------------------------------------
V(kind, embed, main, maps) ==
  [kind |-> kind, embed |-> embed, send |-> TRUE, main |-> main, maps |-> maps]
Top == << >>
In(s) == <<s>>

lat3(val) == A("lat", "Float32", <<D("lat", 3)>>, val)
lat4 == A("lat", "Float32", <<D("lat", 4)>>, "v1")
Grid(name, embed, map) == V("Grid", embed, A(name, "Int32", map.dims, "v2"), <<map>>)
Array(embed, name, dims) == V("Array", embed, A(name, "Int16", dims, "v1"), << >>)

(* Coordinate variables outside of grids and in structures.                *)
Coordinates == {V("Array", e, lat3("v1"), << >>) : e \in {Top, In("s"), In("s2")}}
  \cup {V("Array", In("s2"), lat3("v2"), << >>)}

(* Grids whose maps are equal, differ in value, size or not at all.        *)
Grids ==
  {Grid("t", Top, lat3("v1")), Grid("u", Top, lat3("v1")), Grid("u", In("s"), lat3("v1")),
   Grid("w", Top, lat3("v2")), Grid("x", In("s2"), lat4),
   Grid("t", Top, lat3("nan")), Grid("u", Top, lat3("nan"))}
(* A grid of two maps, and projections of it without the array or a map.   *)
lon == A("lon", "Float32", <<D("lon", 2)>>, "v1")
TwoMaps == V("Grid", Top, A("y", "Int32", <<D("lat", 3), D("lon", 2)>>, "v2"), <<lat3("v1"), lon>>)
Projections ==
  {TwoMaps, [TwoMaps EXCEPT !.main.send = FALSE], [TwoMaps EXCEPT !.maps[1].send = FALSE]}

(* Dimensions of one name and different sizes, of no name, of names that   *)
(* become the same identifier.                                             *)
Arrays ==
  {Array(Top, "x", <<D("lat", 3)>>), Array(In("s"), "x", <<D("lat", 4)>>),
   Array(In("s2"), "x", <<D("lat", 4), D("lat", 4)>>),
   Array(Top, "q", <<[name |-> << >>, size |-> 3], [name |-> << >>, size |-> 3]>>),
   Array(Top, "y", <<D("dim", 3)>>),
   Array(Top, "a b", <<D("a b", 3)>>), Array(Top, "c", <<D("a_b", 3)>>),
   Array(Top, "1a", <<D("1a", 2)>>)}

Texts ==
  {V("Array", Top, A("n", "String", <<D("lat", 3)>>, "v1"), << >>),
   V("Array", In("s"), A("n", "String", <<D("n", 2)>>, "v2"), << >>),
   Array(Top, "y", <<[name |-> <<"n", "_len">>, size |-> 3]>>),
   V("Array", Top, A("n", "Url", <<D("lat", 3)>>, "v1"), << >>),
   V("Str", Top, A("c", "String", << >>, "v1"), << >>)}

Others ==
  {V("Scalar", Top, A("lat", "Byte", << >>, "v1"), << >>),
   V("Scalar", In("s"), A("q", "UInt16", << >>, "v2"), << >>),
   V("Sequence", Top, A("w", "Int32", << >>, "v1"), << >>),
   V("Unknown", Top, A("q", "Int32", << >>, "v1"), << >>),
   [V("Scalar", Top, A("n", "Int32", << >>, "v1"), << >>) EXCEPT !.send = FALSE]}

Catalogue == Coordinates \cup Grids \cup Projections \cup Arrays \cup Texts \cup Others

(* A dataset has no two variables of one name in one scope.                *)
WellFormed(r) ==
  \A i, j \in DOMAIN r : i # j =>
     r[i].embed # r[j].embed \/ r[i].main.name # r[j].main.name

MCPairs == {<<v>> : v \in Catalogue} \cup {r \in Catalogue \X Catalogue : WellFormed(r)}

(* Three variables each: what is shared by, or hidden from, a third one.   *)
MCTriples ==
  LET S == {V("Array", In("s"), lat3("v1"), << >>), Grid("t", Top, lat3("v1")),
            Grid("u", In("s2"), lat3("v1")), Array(Top, "x", <<D("lat", 3)>>),
            Array(In("s2"), "x", <<D("lat", 4)>>), TwoMaps}
  IN {r \in S \X S \X S : WellFormed(r)}

(* And the responses of the tests.                                         *)
MCRequests == MCPairs \cup MCTriples \cup TestResponses

(* Few responses, for the runs over several requests of one process.       *)
MCFew ==
  {<<V("Array", In("s"), lat3("v1"), << >>), V("Array", In("s2"), lat3("v1"), << >>)>>,
   <<Grid("t", Top, lat3("v1")), Grid("u", Top, lat3("v1"))>>,
   <<Grid("t", Top, lat3("v1")), Grid("x", Top, lat4)>>,
   <<V("Array", Top, lat3("v1"), << >>), Grid("t", Top, lat3("v1"))>>}

(* One response each, for the runs that show a doc and the code disagree.  *)
MCMembers ==
  {<<V("Array", In("s"), lat3("v1"), << >>), V("Array", In("s2"), lat3("v1"), << >>)>>}
MCLengths ==
  {<<Array(Top, "y", <<[name |-> <<"n", "_len">>, size |-> 1]>>),
     V("Array", Top, A("n", "String", <<D("lat", 3)>>, "v1"), << >>)>>}

(* The responses are as the theorems suppose, but for the one that shows   *)
(* what comes of a dimension called like that of an array's strings.       *)
ASSUME CatalogueAssumption ==
  /\ OneDimMaps /\ NamedMaps
  /\ SimpleVars /\ CoordinateMaps /\ EqualLengths
  /\ LengthsApart \/ Requests = MCLengths
=============================================================================
