---------------------------- MODULE FONcAttributes ----------------------------
(***************************************************************************)
(* The attributes of a response on their way into the file: the history    *)
(* entry of FONcTransmitter, the attributes of each variable and of the    *)
(* structures and grids around it, its original name, and the global       *)
(* attributes.  netCDF has no attribute containers: FONcAttributes makes   *)
(* the name of a container part of the names of what it contains.          *)
(*                                                                         *)
(* An attribute table is the sequence of its entries in the order of the   *)
(* recursion of add_attributes, each with the index of the container it is *)
(* in, 0 for the table itself.  pc names the step: "history", "fill" and   *)
(* "original" of a variable, "table" the loop over a table.                *)
(***************************************************************************)
EXTENDS FONcUtils

CONSTANTS
  Datasets,             \* the responses clients ask for
  GlobalNames,          \* the container names that end in _GLOBAL
  Entry,                \* the history entry of this request
  ByteMax, ShortMax, IntMax,   \* the largest signed byte, short and int
  NaN                   \* a number of a Float attribute written as NaN

ASSUME WidthAssumption ==
  /\ ByteMax \in Nat /\ ShortMax \in Nat /\ IntMax \in Nat
  /\ ByteMax < ShortMax /\ 2 * ShortMax + 1 <= IntMax
  /\ NaN \notin Int

VARIABLES
  pc,
  asked,   \* the response as it came
  ds,      \* and as it is now
  vi,      \* the variable; the one after the last stands for NC_GLOBAL
  ti,      \* which table of the variable: its parents', outermost first, then its own
  ai,      \* the entry in the table
  calls,   \* the calls of add_attributes under way: [container, prefix]
  atts     \* the attributes in the file, by <<variable or NC_GLOBAL, name>>

vars == <<pc, asked, ds, vi, ti, ai, calls, atts>>

NumTypes == {"Byte", "Int16", "UInt16", "Int32", "UInt32", "Float32", "Float64"}
TextTypes == {"String", "Url", "OtherXML"}
AttTypes == NumTypes \cup TextTypes \cup {"Container", "Unknown"}
(* A line of text is a path; numbers and lines are never compared.         *)
IsValues(type, vals) ==
  IF type \in {"Float32", "Float64"} THEN vals \in Seq(Int \cup {NaN})
  ELSE IF type \in NumTypes THEN vals \in Seq(Int) ELSE vals \in Seq(Path)
IsEntry(a) ==
  /\ a = [name |-> a.name, type |-> a.type, vals |-> a.vals, in |-> a.in]
  /\ a.name \in Path /\ a.type \in AttTypes /\ IsValues(a.type, a.vals)
IsSequence(s) == s \in Seq({s[i] : i \in DOMAIN s})
(* What is in a container follows it, before all that is not.              *)
IsTable(t) ==
  /\ IsSequence(t)
  /\ \A i \in DOMAIN t :
       /\ IsEntry(t[i]) /\ t[i].in \in 0..(i - 1)
       /\ t[i].in # 0 => t[t[i].in].type = "Container"
       /\ \A k \in 1..(i - 1) : t[i].in < k => t[i].in <= t[k].in
VarKinds == {"Array", "Scalar", "Sequence"}
IsParent(p) == p = [name |-> p.name, table |-> p.table] /\ p.name \in Path /\ IsTable(p.table)
IsVariable(x) ==
  /\ x = [kind |-> x.kind, name |-> x.name, type |-> x.type, embed |-> x.embed,
          parents |-> x.parents, table |-> x.table]
  /\ x.kind \in VarKinds /\ x.name \in Path /\ x.type \in DapTypes /\ x.embed \in Path
  /\ IsSequence(x.parents) /\ \A k \in DOMAIN x.parents : IsParent(x.parents[k])
  /\ IsTable(x.table)
IsDataset(d) ==
  /\ d = [globals |-> d.globals, vars |-> d.vars]
  /\ IsTable(d.globals)
  /\ IsSequence(d.vars) /\ \A v \in DOMAIN d.vars : IsVariable(d.vars[v])

ASSUME DatasetsAssumption == \A d \in Datasets : IsDataset(d)
ASSUME NamesAssumption ==
  /\ {"history", "_FillValue", "fonc_original_name", "elided"} \subseteq Token
  /\ Entry \in Path

NC_GLOBAL == 0
history == <<"history">>
FillValue == <<"_FillValue">>
fonc_original_name == <<"fonc_original_name">>

---------------------------------------------------------------------------
(* The variable, the table and the entry the program is at.                *)
Globally == vi > Len(ds.vars)
CurVar == ds.vars[vi]
Target == IF Globally THEN NC_GLOBAL ELSE vi

EmbNameLast(ps) ==   \* mutant: the names further out are forgotten
  [k \in 0..Len(ps) |-> IF k = 0 THEN << >> ELSE ps[k].name]

(* emb_name for each parent: the names from the outermost one to it.       *)
EmbName(ps) ==
  LET upto[k \in 0..Len(ps)] == IF k = 0 THEN << >> ELSE upto[k - 1] \o ps[k].name
  IN upto

(* What add_variable_attributes hands to add_attributes, in order.         *)
Jobs(d, v) ==
  IF v > Len(d.vars) THEN <<[table |-> d.globals, prefix |-> << >>]>>
  ELSE LET x == d.vars[v] IN
       Append([k \in DOMAIN x.parents |->
                 [table |-> x.parents[k].table, prefix |-> EmbName(x.parents)[k]]],
              [table |-> x.table, prefix |-> << >>])

CurTable == Jobs(ds, vi)[ti].table
CurAtt == CurTable[ai]

Children(t, i) == {k \in DOMAIN t : t[k].in = i}
NumVals(t, i) == IF t[i].type = "Container" THEN Cardinality(Children(t, i)) ELSE Len(t[i].vals)

(* new_attr_name of an entry in a call with prepend_attr prefix.           *)
NewName(prefix, a, global) ==
  IF prefix # << >> THEN prefix \o a.name
  ELSE IF global /\ a.type = "Container" /\ a.name \in GlobalNames THEN << >>
  ELSE a.name

(* What the values become: an int stream stops at the limits of its type   *)
(* and reads NaN as 0; a byte is the last byte of an unsigned int.         *)
Wrapped(v) ==
  LET u == IF v \in (-2 * IntMax - 1)..(2 * IntMax + 1) THEN v ELSE 2 * IntMax + 1
  IN ((u + ByteMax + 1) % (2 * ByteMax + 2)) - ByteMax - 1
Clamped(v, max) == IF v > max THEN max ELSE IF v < -max - 1 THEN -max - 1 ELSE v
NcAttType(type) ==
  CASE type = "Byte" -> "BYTE"
    [] type = "Int16" -> "SHORT"
    [] type \in {"UInt16", "Int32", "UInt32"} -> "INT"
    [] type = "Float32" -> "FLOAT"
    [] type = "Float64" -> "DOUBLE"
    [] OTHER -> "CHAR"
Parsed(type, v) ==
  CASE type = "Byte" -> Wrapped(v)
    [] type = "Int16" -> Clamped(v, ShortMax)
    [] type \in {"UInt16", "Int32", "UInt32"} -> Clamped(v, IntMax)
    [] type \in {"Float32", "Float64"} -> IF v = NaN THEN 0 ELSE v
    [] OTHER -> v
Stored(a) == [type |-> NcAttType(a.type), vals |-> [k \in DOMAIN a.vals |-> Parsed(a.type, a.vals[k])]]

PutOnce(target, name, att) ==   \* mutant: an attribute that is there stays
  atts' = [k \in DOMAIN atts \cup {<<target, name>>} |->
             IF k \in DOMAIN atts THEN atts[k] ELSE att]

(* nc_put_att: an attribute of the name is replaced.                       *)
Put(target, name, att) ==
  atts' = [k \in DOMAIN atts \cup {<<target, name>>} |->
             IF k = <<target, name>> THEN att ELSE atts[k]]
Text(lines) == [type |-> "CHAR", vals |-> lines]

OuterCall(prefix) == <<[container |-> 0, prefix |-> prefix]>>
(* The loop over table k of variable v begins.                             *)
OpenTable(v, k) ==
  /\ pc' = "table" /\ vi' = v /\ ti' = k /\ ai' = 1
  /\ calls' = OuterCall(Jobs(ds', v)[k].prefix)
Stop(where) == pc' = where /\ UNCHANGED <<asked, ds, vi, ti, ai, calls>>

---------------------------------------------------------------------------
Begin(d) ==
  /\ pc = "idle"
  /\ asked' = d /\ ds' = d /\ pc' = "history"
  /\ vi' = 1 /\ ti' = 1 /\ ai' = 1 /\ calls' = OuterCall(<< >>)
  /\ atts' = << >>

(* What appending a String to entry i of the global table does: AttrTable  *)
(* refuses entries of another type.                                        *)
AppendText(i) ==
  IF ds.globals[i].type = "String"
  THEN ds' = [ds EXCEPT !.globals[i].vals = Append(@, Entry)] /\ pc' = "define"
  ELSE pc' = "failed" /\ ds' = ds

(* updateHistoryAttribute: the first top-level container of global         *)
(* attributes with a history gets the entry, or else the table itself.     *)
Histories ==
  {i \in DOMAIN ds.globals :
     /\ ds.globals[i].name = history
     /\ ds.globals[i].in # 0
     /\ ds.globals[ds.globals[i].in].in = 0
     /\ ds.globals[ds.globals[i].in].name \in GlobalNames}
TopHistories == {i \in Children(ds.globals, 0) : ds.globals[i].name = history}
First(S) == CHOOSE i \in S : \A k \in S : i <= k

AlwaysNewHistory ==   \* mutant: a second attribute of the name
  /\ pc = "history"
  /\ ds' = [ds EXCEPT !.globals = Append(@, [name |-> history, type |-> "String",
                                             vals |-> <<Entry>>, in |-> 0])]
  /\ pc' = "define"
  /\ UNCHANGED <<asked, vi, ti, ai, calls, atts>>

UpdateHistory ==
  /\ pc = "history"
  /\ \/ Histories # {} /\ AppendText(First(Histories))
     \/ Histories = {} /\ TopHistories # {} /\ AppendText(First(TopHistories))
     \/ /\ Histories = {} /\ TopHistories = {}
        /\ ds' = [ds EXCEPT !.globals = Append(@, [name |-> history, type |-> "String",
                                                   vals |-> <<Entry>>, in |-> 0])]
        /\ pc' = "define"
  /\ UNCHANGED <<asked, vi, ti, ai, calls, atts>>

---------------------------------------------------------------------------
(* define() of the variables, as far as attributes are concerned.          *)

FillAsItIs == ds' = ds   \* mutant: a Byte fill value for an array of shorts

(* FONcArray::define: an array of bytes is written as shorts, and its fill *)
(* value with it.                                                          *)
WidenFill ==
  ds' = IF get_nc_type(CurVar.type) = "SHORT"
        THEN [ds EXCEPT !.vars[vi].table =
                [k \in DOMAIN @ |->
                   IF @[k].in = 0 /\ @[k].name = FillValue /\ @[k].type = "Byte"
                   THEN [@[k] EXCEPT !.type = "Int16"] ELSE @[k]]]
        ELSE ds

DefineArray ==
  /\ pc = "define" /\ ~Globally /\ CurVar.kind = "Array"
  /\ WidenFill
  /\ OpenTable(vi, 1)
  /\ UNCHANGED <<asked, atts>>

(* Bytes, shorts, ints, floats, doubles and strings.                       *)
DefineSimple ==
  /\ pc = "define" /\ ~Globally /\ CurVar.kind = "Scalar"
  /\ UNCHANGED <<asked, ds, atts>>
  /\ OpenTable(vi, 1)

(* FONcSequence::define: the sequence is noted as elided.                  *)
DefineSequence ==
  /\ pc = "define" /\ ~Globally /\ CurVar.kind = "Sequence"
  /\ Put(NC_GLOBAL, gen_name(CurVar.embed, CurVar.name), Text(<< <<"elided">> >>))
  /\ vi' = vi + 1
  /\ UNCHANGED <<pc, asked, ds, ti, ai, calls>>

AddGlobals ==
  /\ pc = "define" /\ Globally
  /\ UNCHANGED <<asked, ds, atts>>
  /\ OpenTable(vi, 1)

---------------------------------------------------------------------------
(* add_attributes and add_attributes_worker over one table.                *)

NoReturn == calls   \* mutant: the prefix of a container is kept after its end

(* The calls under way when the entry is reached: those of containers that *)
(* are over have returned.                                                 *)
Returned == SubSeq(calls, 1, CHOOSE k \in DOMAIN calls : calls[k].container = CurAtt.in)
Prefix(c) == c[Len(c)].prefix
AttName(c) == NewName(Prefix(c), CurAtt, Globally)

InTable == pc = "table" /\ ai <= Len(CurTable)

(* An attribute without values, a container without attributes.            *)
SkipEmpty ==
  /\ InTable /\ NumVals(CurTable, ai) = 0
  /\ ai' = ai + 1 /\ calls' = Returned
  /\ UNCHANGED <<pc, asked, ds, vi, ti, atts>>

EnterContainer ==
  /\ InTable /\ NumVals(CurTable, ai) > 0 /\ CurAtt.type = "Container"
  /\ calls' = Append(Returned, [container |-> ai, prefix |-> AttName(Returned)])
  /\ ai' = ai + 1
  /\ UNCHANGED <<pc, asked, ds, vi, ti, atts>>

WriteAttribute ==
  /\ InTable /\ NumVals(CurTable, ai) > 0 /\ CurAtt.type \in NumTypes \cup TextTypes
  /\ calls' = Returned
  /\ Put(Target, id2netcdf(AttName(calls')), Stored(CurAtt))
  /\ ai' = ai + 1
  /\ UNCHANGED <<pc, asked, ds, vi, ti>>


NextTable ==
  /\ pc = "table" /\ ai > Len(CurTable) /\ ti < Len(Jobs(ds, vi))
  /\ UNCHANGED <<asked, ds, atts>>
  /\ OpenTable(vi, ti + 1)

(* add_original_name, if the name in the file is another one.              *)
Original(x) == x.embed \o x.name
Renamed(x) == gen_name(x.embed, x.name) # Original(x)
AddOriginalName ==
  /\ pc = "table" /\ ai > Len(CurTable) /\ ti = Len(Jobs(ds, vi)) /\ ~Globally
  /\ IF Renamed(CurVar)
     THEN Put(vi, fonc_original_name, Text(<<Original(CurVar)>>)) ELSE UNCHANGED atts
  /\ pc' = "define" /\ vi' = vi + 1 /\ ti' = 1 /\ ai' = 1 /\ calls' = OuterCall(<< >>)
  /\ UNCHANGED <<asked, ds>>

(* The library refuses an attribute, an original name or a note; or the    *)
(* type of an attribute is unknown, and so is the error: handle_error      *)
(* fails an assertion, if it is compiled with it.                          *)
PutFails ==
  /\ \/ InTable /\ NumVals(CurTable, ai) > 0 /\ CurAtt.type # "Container"
     \/ pc = "table" /\ ai > Len(CurTable) /\ ~Globally /\ ti = Len(Jobs(ds, vi)) /\ Renamed(CurVar)
     \/ pc = "define" /\ ~Globally /\ CurVar.kind = "Sequence"
  /\ Stop("failed")
  /\ UNCHANGED atts

EndDefine ==
  /\ pc = "table" /\ ai > Len(CurTable) /\ Globally
  /\ Stop("done")
  /\ UNCHANGED atts

(* The response is sent, or an error instead; the next one.                *)
Finish ==
  /\ pc \in {"done", "failed"}
  /\ Stop("idle")
  /\ UNCHANGED atts

Init ==
  /\ pc = "idle" /\ asked = [globals |-> << >>, vars |-> << >>] /\ ds = asked
  /\ vi = 1 /\ ti = 1 /\ ai = 1 /\ calls = OuterCall(<< >>) /\ atts = << >>

Next ==
  \/ \E d \in Datasets : Begin(d)
  \/ UpdateHistory
  \/ DefineArray \/ DefineSimple \/ DefineSequence \/ AddGlobals
  \/ SkipEmpty \/ EnterContainer \/ WriteAttribute \/ PutFails
  \/ NextTable \/ AddOriginalName \/ EndDefine \/ Finish

Spec == Init /\ [][Next]_vars

---------------------------------------------------------------------------
(* Everything has its type; the calls under way are those of the table and *)
(* of the containers around the entry before, the outermost first.         *)
TypeOK ==
  /\ pc \in {"idle", "history", "define", "table", "done", "failed"}
  /\ IsDataset(asked) /\ IsDataset(ds)
  /\ vi \in 1..(Len(ds.vars) + 1) /\ ti \in Nat \ {0} /\ ai \in Nat \ {0}
  /\ calls \in Seq([container : Nat, prefix : Path])
  /\ \A k \in 2..Len(calls) :
       /\ calls[k].container \in 1..(ai - 1)
       /\ CurTable[calls[k].container].in = calls[k - 1].container
  /\ DOMAIN atts \subseteq (0..Len(ds.vars)) \X Path
  /\ \A k \in DOMAIN atts :
       /\ atts[k].type \in NcTypes
       /\ atts[k].vals \in IF atts[k].type = "CHAR" THEN Seq(Path) ELSE Seq(Int)

(* What the attributes of a response are called in the file: a reference   *)
(* for the loops above, from the containers each one is in.                *)
Paths(t, prefix, global) ==
  LET path[i \in 0..Len(t)] ==
        IF i = 0 THEN prefix ELSE NewName(path[t[i].in], t[i], global)
  IN path
Valued(t) == {i \in DOMAIN t : t[i].type # "Container" /\ t[i].vals # << >>}
SitesOf(d, v) ==
  UNION {{[v |-> v, job |-> k, at |-> i, att |-> Jobs(d, v)[k].table[i],
           target |-> IF v > Len(d.vars) THEN NC_GLOBAL ELSE v,
           name |-> id2netcdf(Paths(Jobs(d, v)[k].table, Jobs(d, v)[k].prefix,
                                    v > Len(d.vars))[i])] :
          i \in Valued(Jobs(d, v)[k].table)} : k \in DOMAIN Jobs(d, v)}
Elided(d) == {v \in DOMAIN d.vars : d.vars[v].kind = "Sequence"}
Sites(d) == UNION {SitesOf(d, v) : v \in 1..(Len(d.vars) + 1) \ Elided(d)}
Before(s, u) ==
  \/ s.v < u.v
  \/ s.v = u.v /\ s.job < u.job
  \/ s.v = u.v /\ s.job = u.job /\ s.at < u.at
Clash(s, u) == s.target = u.target /\ s.name = u.name

(* The values that survive; those of UInt32 above IntMax do not.           *)
Held(type) ==
  CASE type = "Byte" -> 0..ByteMax
    [] type = "Int16" -> (-ShortMax - 1)..ShortMax
    [] type = "UInt16" -> 0..(2 * ShortMax + 1)
    [] type = "Int32" -> (-IntMax - 1)..IntMax
    [] type = "UInt32" -> 0..IntMax
    [] OTHER -> Int
Faithful(att, a) ==
  /\ att.type = NcAttType(a.type)
  /\ DOMAIN att.vals = DOMAIN a.vals
  /\ \A k \in DOMAIN a.vals :
       a.type \in TextTypes \/ a.vals[k] \in Held(a.type) => att.vals[k] = a.vals[k]

(* Every attribute of a response is in the file, under the names of the    *)
(* containers, structures and grids it is in, with all of its values,      *)
(* unless a later one gets the same name; and there is nothing else but    *)
(* original names and notes of sequences (FONcAttributes.cc:46-66).        *)
Flattened ==
  pc = "done" =>
    LET S == Sites(ds)
        Originals == {<<v, fonc_original_name>> :
                      v \in {w \in DOMAIN ds.vars \ Elided(ds) : Renamed(ds.vars[w])}}
        Notes == {<<NC_GLOBAL, gen_name(ds.vars[v].embed, ds.vars[v].name)>> : v \in Elided(ds)}
    IN /\ DOMAIN atts = {<<s.target, s.name>> : s \in S} \cup Originals \cup Notes
       /\ \A s \in S :
            (\A u \in S : Before(s, u) => ~Clash(s, u)) /\ <<s.target, s.name>> \notin Originals
              => Faithful(atts[<<s.target, s.name>>], s.att)
       /\ \A o \in Originals : atts[o] = Text(<<Original(ds.vars[o[1]])>>)

(* The fill value of an array has the type of the array in the file, if it *)
(* has the array's DAP type in the response (FONcArray.cc:322-335).        *)
FillMatches ==
  pc = "done" => \A v \in DOMAIN asked.vars :
     LET x == asked.vars[v]
         Fills == {i \in DOMAIN x.table : x.table[i].in = 0 /\ x.table[i].name = FillValue}
     IN /\ x.kind = "Array" /\ Fills # {}
        /\ \A i \in Fills : x.table[i].type = x.type /\ x.table[i].vals # << >>
        => atts[<<v, FillValue>>].type = get_nc_type(x.type)

(* A response with one history, among the global attributes or in a        *)
(* container of them, has it in the file with the new entry at its end     *)
(* (FONcTransmitter.cc:177-179).                                           *)
OldHistories ==
  {s \in Sites(asked) : s.target = NC_GLOBAL /\ s.name = history}
WhereExpected(s) ==
  s.att.name = history /\ (s.att.in # 0 => asked.globals[s.att.in].in = 0)
HistoryKept ==
  /\ pc = "done" /\ Cardinality(OldHistories) = 1
  /\ \A s \in OldHistories : WhereExpected(s)
  => \A s \in OldHistories :
       atts[<<NC_GLOBAL, history>>].vals = Append(s.att.vals, Entry)

(* No attribute but the array's own _FillValue gets that name, which is a  *)
(* legal identifier, and the library has a type for the array.             *)
FillsAlone ==
  /\ Prefixed["_FillValue"] = "_FillValue"
  /\ \A d \in Datasets : \A v \in 1..Len(d.vars) : d.vars[v].kind = "Array" =>
       /\ d.vars[v].type # "Url"
       /\ \A s \in Sites(d) : s.v = v /\ s.name = FillValue =>
            s.job = Len(Jobs(d, v)) /\ s.att.in = 0 /\ s.att.name = FillValue

(* Entries called history have values, no container is without a name, and *)
(* history is a legal identifier.                                          *)
HistoriesAlone ==
  /\ Prefixed["history"] = "history"
  /\ \A d \in Datasets : \A i \in DOMAIN d.globals :
       /\ d.globals[i].name = history => i \in Valued(d.globals)
       /\ d.globals[i].type = "Container" => d.globals[i].name # << >>

(* The new entry is in the file's history: "We add: Sub-setting            *)
(* information if any" (FONcTransmitter.cc:122-123).                       *)
HistoryRecorded ==
  pc = "done" =>
     /\ <<NC_GLOBAL, history>> \in DOMAIN atts
     /\ \E k \in DOMAIN atts[<<NC_GLOBAL, history>>].vals :
          atts[<<NC_GLOBAL, history>>].vals[k] = Entry
=============================================================================
