----------------------------- MODULE FONcAttrTests -----------------------------
(***************************************************************************)
(* The response of the test program attrT and the attributes that its      *)
(* baseline (unit-tests/baselines/fonc.attr.00.baseline) lists.  Numbers   *)
(* are scaled down to the widths of the instance; a line of text is named  *)
(* for the attribute it is in.  The test calls transform() itself, without *)
(* the history entry of FONcTransmitter.                                   *)
(***************************************************************************)
EXTENDS FONcAttributes

Att(name, type, vals, in) == [name |-> <<name>>, type |-> type, vals |-> vals, in |-> in]
Container(name, in) == Att(name, "Container", << >>, in)
Line(name, in) == Att(name, "String", << <<name>> >>, in)
Lines(names) == [k \in DOMAIN names |-> Line(names[k], 0)]
Variable(kind, name, type, embed, parents, table) ==
  [kind |-> kind, name |-> <<name>>, type |-> type, embed |-> embed, parents |-> parents,
   table |-> table]

byte_attrs ==
  <<Att("byteattr", "Byte", <<0, 1>>, 0), Att("int16attr", "Int16", <<-3, 0, 3>>, 0),
    Att("ui16attr", "UInt16", <<1, 6>>, 0), Att("int32attr", "Int32", <<-7, 0, 7>>, 0),
    Att("uint32attr", "UInt32", <<0, 7>>, 0), Att("floatattr", "Float32", <<5>>, 0),
    Att("doubleattr", "Float64", <<9>>, 0), Att("singlebyteattr", "Byte", <<1>>, 0),
    Line("singlestringattr", 0), Container("container", 0), Line("containerattr", 10),
    Container("subcontainer", 10), Line("subcontainerattr", 12)>>

mystruct_attrs == Lines(<<"mystructattr1", "mystructattr2", "mystructattr3">>)
i16_names == <<"i16attr1", "i16attr2", "i16attr3", "i16attr4", "i16attr5">>

attrT ==
  LET s == <<[name |-> <<"mystruct">>, table |-> mystruct_attrs]>>
      ss == Append(s, [name |-> <<"mysubstructure">>, table |-> Lines(<<"ssattr1">>)])
      Member(name, type, table) == Variable("Scalar", name, type, <<"mystruct">>, s, table)
      SubMember(name, type, table) ==
        Variable("Scalar", name, type, <<"mystruct", "mysubstructure">>, ss, table)
  IN [globals |-> Lines(<<"title", "contact", "contact_email">>),
      vars |-> <<Variable("Scalar", "byte", "Byte", << >>, << >>, byte_attrs),
                 Member("f32", "Float32", << >>),
                 Member("f64", "Float64", Lines(<<"f64attr1">>)),
                 Member("str", "String", Lines(<<"strattr1", "strattr2">>)),
                 SubMember("i16", "Int16", Lines(i16_names)),
                 SubMember("i32", "Int32", << >>)>>]

---------------------------------------------------------------------------
(* The baseline: of each variable the name, type and values of its         *)
(* attributes.                                                             *)
Num(name, type, vals) == <<<<name>>, [type |-> type, vals |-> vals]>>
Str(s, name) == <<s \o <<name>>, [type |-> "CHAR", vals |-> << <<name>> >>]>>
FromStruct ==
  {Str(<<"mystruct">>, n) : n \in {"mystructattr1", "mystructattr2", "mystructattr3"}}
FromSubstructure == FromStruct \cup {Str(<<"mystruct", "mysubstructure">>, "ssattr1")}

AttBaseline ==
  [v \in 0..6 |->
    CASE v = 0 -> {Str(<< >>, n) : n \in {"title", "contact", "contact_email"}}
      [] v = 1 -> {Num("byteattr", "BYTE", <<0, 1>>), Num("int16attr", "SHORT", <<-3, 0, 3>>),
                   Num("ui16attr", "INT", <<1, 6>>), Num("int32attr", "INT", <<-7, 0, 7>>),
                   Num("uint32attr", "INT", <<0, 7>>), Num("floatattr", "FLOAT", <<5>>),
                   Num("doubleattr", "DOUBLE", <<9>>), Num("singlebyteattr", "BYTE", <<1>>),
                   Str(<< >>, "singlestringattr"), Str(<<"container">>, "containerattr"),
                   Str(<<"container", "subcontainer">>, "subcontainerattr")}
      [] v = 2 -> FromStruct
      [] v = 3 -> FromStruct \cup {Str(<< >>, "f64attr1")}
      [] v = 4 -> FromStruct \cup {Str(<< >>, n) : n \in {"strattr1", "strattr2"}}
      [] v = 5 -> FromSubstructure \cup {Str(<< >>, i16_names[k]) : k \in DOMAIN i16_names}
      [] v = 6 -> FromSubstructure]

(* The file of attrT has the attributes of the baseline and no others, but *)
(* for the history (FONcAttributes::add_variable_attributes over the       *)
(* structures around a variable and the containers in its table).          *)
AttrBaseline ==
  pc = "done" /\ asked = attrT => \A v \in DOMAIN AttBaseline :
     {<<k[2], atts[k]>> : k \in {a \in DOMAIN atts : a[1] = v /\ a # <<NC_GLOBAL, history>>}}
       = AttBaseline[v]

AttrTestNames ==
  {"byteattr", "int16attr", "ui16attr", "int32attr", "uint32attr", "floatattr", "doubleattr",
   "singlebyteattr", "singlestringattr", "container", "containerattr", "subcontainer",
   "subcontainerattr", "mystruct", "mystructattr1", "mystructattr2", "mystructattr3",
   "mysubstructure", "ssattr1", "f64attr1", "strattr1", "strattr2", "i16attr1", "i16attr2",
   "i16attr3", "i16attr4", "i16attr5", "title", "contact", "contact_email",
   "byte", "f32", "f64", "str", "i16", "i32"}
=============================================================================
