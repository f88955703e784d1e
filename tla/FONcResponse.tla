----------------------------- MODULE FONcResponse -----------------------------
(***************************************************************************)
(* What the module promises a client: a request for a DAP response as      *)
(* netCDF is answered with a file that holds every variable of the         *)
(* response, under its own name unless an equal coordinate variable stands *)
(* for it, or is refused; and it is refused only if something failed or    *)
(* the variables cannot live in one flat netCDF file.                      *)
(*                                                                         *)
(* The specification says nothing of the order of the work, of dimensions  *)
(* and maps being registered, counted and shared: FONcTransform does.      *)
(***************************************************************************)
EXTENDS FONcUtils

CONSTANT Requests   \* the responses clients ask for, sequences of Var

VARIABLES
  stage,     \* "idle", "busy" or "answered"
  request,   \* the response being turned into a file
  answer     \* [ok, reason, file]

NoAnswer == [ok |-> FALSE, reason |-> "none", file |-> {}]

(* The arrays and simple variables of r to be sent, and those with a       *)
(* netCDF variable: a Sequence has none.                                   *)
Sources(r) ==
  {<<i, 0>> : i \in {j \in DOMAIN r : r[j].send /\ (r[j].kind = "Grid" => r[j].main.send)}}
  \cup UNION {{<<i, k>> : k \in {m \in DOMAIN r[i].maps : r[i].maps[m].send}} :
              i \in {j \in DOMAIN r : r[j].send /\ r[j].kind = "Grid"}}

Stored(r) == {p \in Sources(r) : r[p[1]].kind \notin {"Sequence", "Unknown"}}
IsArray(r, p) == r[p[1]].kind \in {"Array", "Grid"}
FileName(r, p) == gen_name(EmbedOf(r, p), ArrOf(r, p).name)
FileType(r, p) == IF IsArray(r, p) THEN get_nc_type(ArrOf(r, p).type)
                                   ELSE scalar_type(ArrOf(r, p).type)
HasStrings(r, p) == FileType(r, p) = "CHAR"

(* q may stand for p in the file: both are maps of grids or coordinate     *)
(* arrays outside of grids, and they are equal.                            *)
Candidate(r, p) ==
  IsArray(r, p) /\ (p[2] > 0 \/ (r[p[1]].kind = "Array" /\ IsCoordinate(ArrOf(r, p))))
StandsFor(r, q, p) ==
  Candidate(r, p) /\ Candidate(r, q) /\ SameData(ArrOf(r, q), ArrOf(r, p))

---------------------------------------------------------------------------
(* A file: a set of variables [name, type, shape, val] where shape is a    *)
(* sequence of [name, size].                                               *)

(* The file variable f holds the data of p, all of it.                     *)
Represents(r, f, p) ==
  LET a == ArrOf(r, p) IN
  /\ f.type = FileType(r, p)
  /\ f.val = a.val
  /\ Len(f.shape) = Len(a.dims) + (IF HasStrings(r, p) THEN 1 ELSE 0)
  /\ \A k \in DOMAIN a.dims : f.shape[k].size = a.dims[k].size
  /\ HasStrings(r, p) => f.shape[Len(f.shape)].size >= a.len

(* Nothing to be sent is missing from the file.                            *)
Complete(r, file) ==
  \A p \in Stored(r) : \E f \in file :
     /\ Represents(r, f, p)
     /\ \/ f.name = FileName(r, p)
        \/ \E q \in Stored(r) : StandsFor(r, q, p) /\ f.name = FileName(r, q)

(* The file holds nothing but what is to be sent, under its own name.      *)
Faithful(r, file) ==
  \A f \in file : \E p \in Stored(r) :
     f.name = FileName(r, p) /\ Represents(r, f, p)

---------------------------------------------------------------------------
(* When the variables of a response cannot live in one file.               *)

(* Where the arrays of r use dimensions, in the order they are converted.  *)
(* names: what the dimension may be called; last: the name for which no    *)
(* other one is tried when a dimension of another size has it.             *)
Before(s, t) ==
  \/ s.key[1] < t.key[1]
  \/ s.key[1] = t.key[1] /\ s.key[2] # t.key[2]
       /\ (t.key[2] = 0 \/ (s.key[2] # 0 /\ s.key[2] < t.key[2]))
  \/ s.key = t.key /\ s.pos < t.pos

DimSite(r, p, k) ==
  LET d == ArrOf(r, p).dims[k]
      e == EmbedOf(r, p)
      long == gen_name(e, d.name)
  IN IF d.name = << >> THEN [key |-> p, pos |-> k, size |-> d.size, names |-> {}, last |-> << >>]
     ELSE [key |-> p, pos |-> k, size |-> d.size,
           names |-> IF e = << >> THEN {d.name} ELSE {d.name, long},
           last |-> IF e = << >> THEN d.name ELSE long]
LenSite(r, p) ==
  [key |-> p, pos |-> Len(ArrOf(r, p).dims) + 1, size |-> ArrOf(r, p).len,
   names |-> {WithLen(FileName(r, p))}, last |-> << >>]
ArraySites(r) ==
  LET As == {p \in Stored(r) : IsArray(r, p)} IN
  {LenSite(r, p) : p \in {q \in As : HasStrings(r, q)}}
  \cup UNION {{DimSite(r, p, k) : k \in DOMAIN ArrOf(r, p).dims} : p \in As}
StrSites(r) == {LenSite(r, p) : p \in {q \in Stored(r) : r[q[1]].kind = "Str"}}

SizesConflict(r) ==
  \E s, t \in ArraySites(r) :
     Before(s, t) /\ t.last \in s.names /\ s.size # t.size

(* Two dimensions that are not one and the same get the same identifier.   *)
IdentifiersConflict(r) ==
  LET S == ArraySites(r)
      Unnamed == {s \in S : s.names = {}}
      Auto == {AutoDim(n) : n \in 1..Cardinality(Unnamed)}
      Ids(s) == {id2netcdf(n) : n \in s.names}
  IN \/ \E s, t \in S : \E n \in s.names, m \in t.names :
           n # m /\ id2netcdf(n) = id2netcdf(m)
     \/ \E s \in S \cup StrSites(r) : Ids(s) \cap Auto # {}
     \/ \E s \in StrSites(r), t \in S \cup StrSites(r) :
           s # t /\ s.names \cap Ids(t) # {}

NamesConflict(r) ==
  \E p, q \in Stored(r) :
     p # q /\ FileName(r, p) = FileName(r, q) /\ ~StandsFor(r, p, q)

NoFileType(r) ==
  \/ \E i \in DOMAIN r : r[i].send /\ r[i].kind = "Unknown"
  \/ \E p \in Stored(r) : FileType(r, p) = "NAT"

Conflicting(r) ==
  SizesConflict(r) \/ IdentifiersConflict(r) \/ NamesConflict(r) \/ NoFileType(r)

---------------------------------------------------------------------------
Init == stage = "idle" /\ request = << >> /\ answer = NoAnswer

Accept(r) ==
  /\ stage = "idle"
  /\ stage' = "busy"
  /\ request' = r
  /\ UNCHANGED answer

Deliver ==
  /\ stage = "busy"
  /\ stage' = "answered"
  /\ answer'.ok
  /\ Complete(request, answer'.file)
  /\ Faithful(request, answer'.file)
  /\ UNCHANGED request

Refuse ==
  /\ stage = "busy"
  /\ stage' = "answered"
  /\ ~answer'.ok
  /\ answer'.reason = "conflict" => Conflicting(request)
  /\ UNCHANGED request

Release ==
  /\ stage = "answered"
  /\ stage' = "idle"
  /\ request' = << >>
  /\ answer' = NoAnswer

Next == (\E r \in Requests : Accept(r)) \/ Deliver \/ Refuse \/ Release

Spec == Init /\ [][Next]_<<stage, request, answer>>
=============================================================================
