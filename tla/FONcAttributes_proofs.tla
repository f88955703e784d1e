-------------------------- MODULE FONcAttributes_proofs --------------------------
(***************************************************************************)
(* Theorems about FONcAttributes, for every nesting of containers: where   *)
(* the recursion of add_attributes is, and what it has put in the file.    *)
(***************************************************************************)
EXTENDS FONcAttributes, NumberInduction, SequenceTheorems

---------------------------------------------------------------------------
(* Sequences and names.                                                    *)

LEMMA SequenceIs ==
  ASSUME NEW s, IsSequence(s)
  PROVE  /\ Len(s) \in Nat /\ DOMAIN s = 1..Len(s)
         /\ s = [i \in 1..Len(s) |-> s[i]]
BY DEF IsSequence

LEMMA IsSequenceOf ==
  ASSUME NEW n \in Nat, NEW s, s = [i \in 1..n |-> s[i]]
  PROVE  IsSequence(s) /\ Len(s) = n /\ DOMAIN s = 1..n
<1> DEFINE S == {s[i] : i \in DOMAIN s}
<1>1. DOMAIN s = 1..n
  OBVIOUS
<1>2. s \in [1..n -> S]
  BY <1>1
<1>3. s \in Seq(S) /\ Len(s) = n
  BY <1>1, <1>2, LenProperties, IsASeq
<1>4. QED
  BY <1>1, <1>3 DEF IsSequence

LEMMA SeqWider ==
  ASSUME NEW A, NEW B, A \subseteq B, NEW s \in Seq(A)
  PROVE  s \in Seq(B)
OBVIOUS

LEMMA JoinedPath ==
  ASSUME NEW p \in Path, NEW q \in Path
  PROVE  p \o q \in Path
BY ConcatProperties DEF Path

LEMMA IdentifierPath ==
  ASSUME NEW p \in Path
  PROVE  id2netcdf(p) \in Path
<1>1. p \in [1..Len(p) -> Token] /\ Len(p) \in Nat
  BY DEF Path
<1>2. \A k \in 1..Len(p) : Prefixed[p[k]] \in Token /\ Clean[p[k]] \in Token
  BY <1>1, TokenAssumption
<1>3. id2netcdf(p) \in [1..Len(p) -> Token]
  BY <1>1, <1>2 DEF id2netcdf
<1>4. QED
  BY <1>1, <1>3, IsASeq DEF Path

LEMMA NamePath ==
  ASSUME NEW e \in Path, NEW n \in Path
  PROVE  gen_name(e, n) \in Path /\ e \o n \in Path
BY JoinedPath, IdentifierPath DEF gen_name

LEMMA FixedPaths ==
  /\ <<>> \in Path /\ history \in Path /\ FillValue \in Path
  /\ fonc_original_name \in Path /\ <<"elided">> \in Path
BY NamesAssumption DEF history, FillValue, fonc_original_name, Path

LEMMA NewNamePath ==
  ASSUME NEW p \in Path, NEW a, IsEntry(a), NEW g
  PROVE  NewName(p, a, g) \in Path
<1>1. a.name \in Path /\ p \o a.name \in Path /\ << >> \in Path
  BY JoinedPath, FixedPaths DEF IsEntry
<1>2. QED
  BY <1>1 DEF NewName

---------------------------------------------------------------------------
(* The recursive functions: the names of the parents, outermost first, and *)
(* the names of containers from the outside in.                            *)

IsUpto(f, ps, n) ==
  f = [k \in 0..n |-> IF k = 0 THEN << >> ELSE f[k - 1] \o ps[k].name]

LEMMA UptoExists ==
  ASSUME NEW ps, IsSequence(ps), \A k \in DOMAIN ps : IsParent(ps[k])
  PROVE  \E f : IsUpto(f, ps, Len(ps)) /\ \A k \in 0..Len(ps) : f[k] \in Path
<1> DEFINE Good(f, n) == IsUpto(f, ps, n) /\ \A k \in 0..n : f[k] \in Path
           Has(n) == n <= Len(ps) => \E f : Good(f, n)
           T == {n \in Nat : Has(n)}
<1>1. Len(ps) \in Nat /\ DOMAIN ps = 1..Len(ps)
  BY SequenceIs
<1>2. Has(0)
  <2> DEFINE f == [k \in 0..0 |-> << >>]
  <2>1. f = [k \in 0..0 |-> IF k = 0 THEN << >> ELSE f[k - 1] \o ps[k].name]
    OBVIOUS
  <2>2. \A k \in 0..0 : f[k] \in Path
    BY FixedPaths
  <2>3. Good(f, 0)
    BY <2>1, <2>2 DEF IsUpto
  <2> HIDE DEF Good, f
  <2>4. QED
    BY <2>3
<1>3. ASSUME NEW n \in Nat, Has(n) PROVE Has(n + 1)
  <2>1. SUFFICES ASSUME n + 1 <= Len(ps) PROVE \E f : Good(f, n + 1)
    <3> HIDE DEF Good
    <3>1. QED
      BY <2>1
  <2>2. PICK f : Good(f, n)
    <3> HIDE DEF Good
    <3>1. QED
      BY <1>1, <1>3, <2>1
  <2> DEFINE e == f[n] \o ps[n + 1].name
             g == [k \in 0..(n + 1) |-> IF k = n + 1 THEN e ELSE f[k]]
  <2>3. e \in Path
    <3>1. n + 1 \in DOMAIN ps
      BY <1>1, <2>1
    <3>2. f[n] \in Path /\ ps[n + 1].name \in Path
      BY <2>2, <3>1 DEF IsParent
    <3>3. QED
      BY <3>2, JoinedPath
  <2>4. ASSUME NEW k \in 0..(n + 1)
        PROVE  g[k] = (IF k = 0 THEN << >> ELSE g[k - 1] \o ps[k].name) /\ g[k] \in Path
    <3>1. CASE k = n + 1
      <4>1. g[k] = e /\ g[k - 1] = f[n] /\ k # 0
        BY <3>1
      <4>2. QED
        BY <2>3, <3>1, <4>1
    <3>2. CASE k # n + 1
      <4>1. k \in 0..n /\ g[k] = f[k] /\ (k # 0 => g[k - 1] = f[k - 1])
        BY <3>2
      <4>2. f[k] = (IF k = 0 THEN << >> ELSE f[k - 1] \o ps[k].name) /\ f[k] \in Path
        BY <2>2, <4>1 DEF IsUpto
      <4>3. QED
        BY <4>1, <4>2
    <3>3. QED
      BY <3>1, <3>2
  <2>5. Good(g, n + 1)
    <3>1. g = [k \in 0..(n + 1) |-> g[k]]
      OBVIOUS
    <3> HIDE DEF g
    <3>2. g = [k \in 0..(n + 1) |-> IF k = 0 THEN << >> ELSE g[k - 1] \o ps[k].name]
      BY <2>4, <3>1
    <3>3. QED
      BY <2>4, <3>2 DEF IsUpto
  <2> HIDE DEF Good, g
  <2>6. QED
    BY <2>5
<1> HIDE DEF Has
<1>4. 0 \in T /\ \A n \in Nat : n \in T => n + 1 \in T
  BY <1>2, <1>3
<1> HIDE DEF T
<1>5. Nat \subseteq T
  BY <1>4, Induction
<1>6. Has(Len(ps))
  BY <1>1, <1>5 DEF T
<1>7. QED
  BY <1>1, <1>6 DEF Has

(* The prefix of a parent's attributes is a name.                          *)
LEMMA EmbNamePath ==
  ASSUME NEW ps, IsSequence(ps), \A k \in DOMAIN ps : IsParent(ps[k]), NEW k \in DOMAIN ps
  PROVE  EmbName(ps)[k] \in Path
<1>1. Len(ps) \in Nat /\ DOMAIN ps = 1..Len(ps)
  BY SequenceIs
<1>2. EmbName(ps) = CHOOSE f : f = [j \in 0..Len(ps) |-> IF j = 0 THEN << >> ELSE f[j - 1] \o ps[j].name]
  BY DEF EmbName
<1>3. IsUpto(EmbName(ps), ps, Len(ps))
  BY <1>2, UptoExists DEF IsUpto
<1> DEFINE e == EmbName(ps)
           T == {j \in Nat : j <= Len(ps) => e[j] \in Path}
<1> HIDE DEF e
<1>4. \A j \in 0..Len(ps) : e[j] = IF j = 0 THEN << >> ELSE e[j - 1] \o ps[j].name
  BY <1>3 DEF IsUpto, e
<1>5. 0 \in T
  BY <1>1, <1>4, FixedPaths
<1>6. ASSUME NEW j \in Nat, j \in T PROVE j + 1 \in T
  <2>1. SUFFICES ASSUME j + 1 <= Len(ps) PROVE e[j + 1] \in Path
    BY <2>1
  <2>2. j + 1 \in DOMAIN ps /\ j + 1 \in 0..Len(ps) /\ (j + 1) - 1 = j /\ j + 1 # 0
    BY <1>1, <2>1
  <2>3. e[j] \in Path
    BY <1>1, <1>6, <2>1
  <2>4. ps[j + 1].name \in Path
    BY <2>2 DEF IsParent
  <2>5. e[j + 1] = e[j] \o ps[j + 1].name
    BY <1>4, <2>2
  <2>6. QED
    BY <2>3, <2>4, <2>5, JoinedPath
<1> HIDE DEF T
<1>7. Nat \subseteq T
  BY <1>5, <1>6, Induction
<1>8. QED
  BY <1>1, <1>7 DEF T, e

IsNaming(f, t, p, g, n) ==
  f = [i \in 0..n |-> IF i = 0 THEN p ELSE NewName(f[t[i].in], t[i], g)]

LEMMA NamingExists ==
  ASSUME NEW t, IsTable(t), NEW p, NEW g
  PROVE  \E f : IsNaming(f, t, p, g, Len(t))
<1> DEFINE Has(n) == n <= Len(t) => \E f : IsNaming(f, t, p, g, n)
           T == {n \in Nat : Has(n)}
<1>1. Len(t) \in Nat /\ DOMAIN t = 1..Len(t)
  BY SequenceIs DEF IsTable
<1>2. Has(0)
  <2> DEFINE f == [i \in 0..0 |-> p]
  <2>1. f = [i \in 0..0 |-> IF i = 0 THEN p ELSE NewName(f[t[i].in], t[i], g)]
    OBVIOUS
  <2>2. IsNaming(f, t, p, g, 0)
    BY <2>1 DEF IsNaming
  <2> HIDE DEF f
  <2>3. QED
    BY <2>2
<1>3. ASSUME NEW n \in Nat, Has(n) PROVE Has(n + 1)
  <2>1. SUFFICES ASSUME n + 1 <= Len(t) PROVE \E f : IsNaming(f, t, p, g, n + 1)
    BY <2>1
  <2>2. PICK f : IsNaming(f, t, p, g, n)
    BY <1>1, <1>3, <2>1
  <2> DEFINE e == NewName(f[t[n + 1].in], t[n + 1], g)
             h == [i \in 0..(n + 1) |-> IF i = n + 1 THEN e ELSE f[i]]
  <2>3. ASSUME NEW i \in 0..(n + 1)
        PROVE  h[i] = IF i = 0 THEN p ELSE NewName(h[t[i].in], t[i], g)
    <3>1. i # 0 => t[i].in \in 0..(i - 1)
      BY <1>1, <2>1 DEF IsTable
    <3>2. CASE i = n + 1
      <4>1. h[i] = e /\ h[t[i].in] = f[t[i].in] /\ i # 0
        BY <3>1, <3>2
      <4>2. QED
        BY <3>2, <4>1
    <3>3. CASE i # n + 1
      <4>1. i \in 0..n /\ h[i] = f[i] /\ (i # 0 => h[t[i].in] = f[t[i].in])
        BY <3>1, <3>3
      <4>2. f[i] = IF i = 0 THEN p ELSE NewName(f[t[i].in], t[i], g)
        BY <2>2, <4>1 DEF IsNaming
      <4>3. QED
        BY <4>1, <4>2
    <3>4. QED
      BY <3>2, <3>3
  <2>4. h = [i \in 0..(n + 1) |-> h[i]]
    OBVIOUS
  <2> HIDE DEF h
  <2>5. h = [i \in 0..(n + 1) |-> IF i = 0 THEN p ELSE NewName(h[t[i].in], t[i], g)]
    BY <2>3, <2>4
  <2>6. QED
    BY <2>5 DEF IsNaming
<1> HIDE DEF Has
<1>4. 0 \in T /\ \A n \in Nat : n \in T => n + 1 \in T
  BY <1>2, <1>3
<1> HIDE DEF T
<1>5. Nat \subseteq T
  BY <1>4, Induction
<1>6. Has(Len(t))
  BY <1>1, <1>5 DEF T
<1>7. QED
  BY <1>1, <1>6 DEF Has

(* The name of an entry is made from that of the container it is in.       *)
LEMMA PathsAre ==
  ASSUME NEW t, IsTable(t), NEW p, NEW g
  PROVE  /\ Paths(t, p, g)[0] = p
         /\ \A i \in DOMAIN t : Paths(t, p, g)[i] = NewName(Paths(t, p, g)[t[i].in], t[i], g)
<1>1. Len(t) \in Nat /\ DOMAIN t = 1..Len(t)
  BY SequenceIs DEF IsTable
<1>2. Paths(t, p, g) = CHOOSE f : IsNaming(f, t, p, g, Len(t))
  BY Zenon DEF Paths, IsNaming
<1>3. IsNaming(Paths(t, p, g), t, p, g, Len(t))
  BY Zenon, <1>2, NamingExists
<1> DEFINE f == Paths(t, p, g)
<1> HIDE DEF f
<1>4. \A i \in 0..Len(t) : f[i] = IF i = 0 THEN p ELSE NewName(f[t[i].in], t[i], g)
  BY <1>3 DEF IsNaming, f
<1>5. QED
  BY <1>1, <1>4 DEF f

---------------------------------------------------------------------------
(* The tables that are read for a variable.                                *)

LEMMA JobsAre ==
  ASSUME NEW d, IsDataset(d), NEW v \in 1..(Len(d.vars) + 1)
  PROVE  /\ Len(d.vars) \in Nat /\ DOMAIN d.vars = 1..Len(d.vars)
         /\ Len(Jobs(d, v)) \in Nat \ {0} /\ DOMAIN Jobs(d, v) = 1..Len(Jobs(d, v))
         /\ \A k \in 1..Len(Jobs(d, v)) :
              IsTable(Jobs(d, v)[k].table) /\ Jobs(d, v)[k].prefix \in Path
         /\ v > Len(d.vars) => Len(Jobs(d, v)) = 1
<1>1. Len(d.vars) \in Nat /\ DOMAIN d.vars = 1..Len(d.vars)
  BY SequenceIs DEF IsDataset
<1>2. CASE v > Len(d.vars)
  <2>1. Jobs(d, v) = <<[table |-> d.globals, prefix |-> << >>]>>
    BY <1>2 DEF Jobs
  <2>2. QED
    BY <1>1, <2>1, FixedPaths DEF IsDataset
<1>3. CASE ~(v > Len(d.vars))
  <2> DEFINE x == d.vars[v]
             J == [k \in DOMAIN x.parents |->
                     [table |-> x.parents[k].table, prefix |-> EmbName(x.parents)[k]]]
             own == [table |-> x.table, prefix |-> << >>]
  <2>1. IsVariable(x)
    BY <1>1, <1>3 DEF IsDataset
  <2>2. Jobs(d, v) = Append(J, own)
    BY <1>3 DEF Jobs
  <2>3. Len(x.parents) \in Nat /\ DOMAIN x.parents = 1..Len(x.parents)
    BY <2>1, SequenceIs DEF IsVariable
  <2>4. \A k \in DOMAIN x.parents : IsTable(J[k].table) /\ J[k].prefix \in Path
    <3>1. SUFFICES ASSUME NEW k \in DOMAIN x.parents
                   PROVE  IsTable(x.parents[k].table) /\ EmbName(x.parents)[k] \in Path
      BY <3>1
    <3>2. QED
      BY <2>1, EmbNamePath DEF IsVariable, IsParent
  <2>5. IsTable(own.table) /\ own.prefix \in Path
    BY <2>1, FixedPaths DEF IsVariable
  <2>6. IsSequence(J) /\ Len(J) = Len(x.parents) /\ DOMAIN J = 1..Len(x.parents)
    <3>1. J = [k \in 1..Len(x.parents) |-> J[k]]
      BY <2>3
    <3> HIDE DEF J
    <3>2. QED
      BY <2>3, <3>1, IsSequenceOf
  <2> HIDE DEF x, J, own
  <2>7. /\ Len(Append(J, own)) = Len(J) + 1 /\ DOMAIN Append(J, own) = 1..(Len(J) + 1)
        /\ \A k \in 1..Len(J) : Append(J, own)[k] = J[k]
        /\ Append(J, own)[Len(J) + 1] = own
    <3>1. J \in Seq({J[k] : k \in DOMAIN J} \cup {own})
      BY <2>6, SeqWider DEF IsSequence
    <3>2. QED
      BY <3>1, AppendProperties
  <2>8. QED
    BY <1>1, <1>3, <2>2, <2>3, <2>4, <2>5, <2>6, <2>7
<1>4. QED
  BY <1>2, <1>3

(* They are the same in a response that has the same variable.             *)
LEMMA JobsSame ==
  ASSUME NEW d, NEW e, NEW v, Len(d.vars) = Len(e.vars),
         v > Len(d.vars) => d.globals = e.globals,
         ~(v > Len(d.vars)) => d.vars[v] = e.vars[v]
  PROVE  Jobs(d, v) = Jobs(e, v)
BY DEF Jobs

---------------------------------------------------------------------------
(* The response stays one: the history entry and the widened fill value    *)
(* change no container.                                                    *)

LEMMA TableIs ==
  ASSUME NEW t, IsTable(t)
  PROVE  /\ Len(t) \in Nat /\ DOMAIN t = 1..Len(t) /\ t = [i \in 1..Len(t) |-> t[i]]
         /\ \A i \in DOMAIN t :
              /\ t[i] = [name |-> t[i].name, type |-> t[i].type, vals |-> t[i].vals, in |-> t[i].in]
              /\ t[i].name \in Path /\ t[i].type \in AttTypes /\ t[i].in \in 0..(i - 1)
BY SequenceIs DEF IsTable, IsEntry

LEMMA SameContainers ==
  ASSUME NEW t, IsTable(t), NEW u, u = [k \in DOMAIN t |-> u[k]],
         \A k \in DOMAIN t : /\ IsEntry(u[k]) /\ u[k].in = t[k].in
                             /\ t[k].type = "Container" => u[k].type = "Container"
  PROVE  IsTable(u)
<1>1. Len(t) \in Nat /\ DOMAIN t = 1..Len(t)
  BY TableIs
<1>2. IsSequence(u) /\ DOMAIN u = DOMAIN t
  BY <1>1, IsSequenceOf
<1>3. ASSUME NEW i \in DOMAIN u
      PROVE  /\ IsEntry(u[i]) /\ u[i].in \in 0..(i - 1)
             /\ u[i].in # 0 => u[u[i].in].type = "Container"
             /\ \A k \in 1..(i - 1) : u[i].in < k => u[i].in <= u[k].in
  <2>1. /\ t[i].in \in 0..(i - 1) /\ (t[i].in # 0 => t[t[i].in].type = "Container")
        /\ \A k \in 1..(i - 1) : t[i].in < k => t[i].in <= t[k].in
    BY <1>2 DEF IsTable
  <2>2. \A k \in 1..(i - 1) : k \in DOMAIN t
    BY <1>1, <1>2
  <2>3. t[i].in # 0 => t[i].in \in DOMAIN t
    BY <2>1, <2>2
  <2>4. QED
    BY <1>2, <2>1, <2>2, <2>3
<1>4. QED
  BY <1>2, <1>3 DEF IsTable

LEMMA TextAppended ==
  ASSUME NEW t, IsTable(t), NEW i \in DOMAIN t, t[i].type = "String",
         NEW u, u = [t EXCEPT ![i].vals = Append(@, Entry)]
  PROVE  IsTable(u)
<1>1. /\ t = [k \in 1..Len(t) |-> t[k]] /\ DOMAIN t = 1..Len(t)
      /\ t[i] = [name |-> t[i].name, type |-> t[i].type, vals |-> t[i].vals, in |-> t[i].in]
  BY TableIs
<1>2. u = [k \in DOMAIN t |-> u[k]] /\ \A k \in DOMAIN t : k # i => u[k] = t[k]
  BY <1>1
<1>3. u[i] = [name |-> t[i].name, type |-> t[i].type, vals |-> Append(t[i].vals, Entry), in |-> t[i].in]
  BY <1>1
<1>4. Append(t[i].vals, Entry) \in Seq(Path)
  <2>1. t[i].vals \in Seq(Path)
    BY DEF IsTable, IsEntry, IsValues, NumTypes
  <2>2. QED
    BY <2>1, NamesAssumption, AppendProperties
<1>5. IsEntry(u[i])
  <2>1. /\ u[i].name = t[i].name /\ u[i].type = "String" /\ u[i].in = t[i].in
        /\ u[i].vals = Append(t[i].vals, Entry)
    BY <1>3
  <2>2. u[i] = [name |-> u[i].name, type |-> u[i].type, vals |-> u[i].vals, in |-> u[i].in]
    BY <1>3
  <2>3. IsValues("String", u[i].vals)
    BY <1>4, <2>1 DEF IsValues, NumTypes
  <2>4. u[i].name \in Path /\ u[i].type \in AttTypes
    BY <1>1, <2>1, TableIs
  <2>5. QED
    BY <2>1, <2>2, <2>3, <2>4 DEF IsEntry
<1>6. \A k \in DOMAIN t : IsEntry(t[k])
  BY DEF IsTable
<1>7. QED
  BY <1>2, <1>3, <1>5, <1>6, SameContainers

LEMMA EntryAppended ==
  ASSUME NEW t, IsTable(t), NEW a, IsEntry(a), a.in = 0
  PROVE  IsTable(Append(t, a))
<1> DEFINE u == Append(t, a)
<1>1. Len(t) \in Nat /\ DOMAIN t = 1..Len(t)
  BY TableIs
<1>2. /\ Len(u) = Len(t) + 1 /\ DOMAIN u = 1..(Len(t) + 1) /\ IsSequence(u)
      /\ (\A k \in DOMAIN t : u[k] = t[k]) /\ u[Len(t) + 1] = a
  <2> DEFINE S == {t[k] : k \in DOMAIN t} \cup {a}
  <2>1. t \in Seq(S)
    BY SeqWider DEF IsTable, IsSequence
  <2> HIDE DEF S
  <2>2. a \in S
    BY DEF S
  <2>3. u \in Seq(S) /\ Len(u) = Len(t) + 1
        /\ (\A k \in 1..Len(t) : u[k] = t[k]) /\ u[Len(t) + 1] = a
    BY <2>1, <2>2, AppendProperties
  <2> HIDE DEF u
  <2>4. u = [k \in 1..Len(u) |-> u[k]] /\ Len(u) \in Nat
    BY <2>3
  <2>5. QED
    BY <1>1, <2>3, <2>4, IsSequenceOf
<1> HIDE DEF u
<1>3. ASSUME NEW i \in DOMAIN u
      PROVE  /\ IsEntry(u[i]) /\ u[i].in \in 0..(i - 1)
             /\ u[i].in # 0 => u[u[i].in].type = "Container"
             /\ \A k \in 1..(i - 1) : u[i].in < k => u[i].in <= u[k].in
  <2>1. \A k \in 1..(i - 1) : k \in DOMAIN t /\ u[k] = t[k] /\ t[k].in \in Nat
    BY <1>1, <1>2 DEF IsTable
  <2>2. CASE i = Len(t) + 1
    BY <1>1, <1>2, <2>1, <2>2
  <2>3. CASE i # Len(t) + 1
    <3>1. i \in DOMAIN t /\ u[i] = t[i]
      BY <1>1, <1>2, <2>3
    <3>2. /\ IsEntry(t[i]) /\ t[i].in \in 0..(i - 1)
          /\ t[i].in # 0 => t[t[i].in].type = "Container"
          /\ \A k \in 1..(i - 1) : t[i].in < k => t[i].in <= t[k].in
      BY <3>1 DEF IsTable
    <3>3. t[i].in # 0 => t[i].in \in 1..(i - 1)
      BY <3>2
    <3>4. QED
      BY <2>1, <3>1, <3>2, <3>3
  <2>4. QED
    BY <2>2, <2>3
<1>4. QED
  BY <1>2, <1>3 DEF IsTable, u

(* A fill value of bytes is one of shorts after FONcArray::define.         *)
Widened(t) == [k \in DOMAIN t |->
                 IF t[k].in = 0 /\ t[k].name = FillValue /\ t[k].type = "Byte"
                 THEN [t[k] EXCEPT !.type = "Int16"] ELSE t[k]]

LEMMA WidenedTable ==
  ASSUME NEW t, IsTable(t)
  PROVE  IsTable(Widened(t))
<1> DEFINE u == Widened(t)
<1>1. u = [k \in DOMAIN t |-> u[k]]
  BY DEF Widened
<1>2. ASSUME NEW k \in DOMAIN t
      PROVE  /\ IsEntry(u[k]) /\ u[k].in = t[k].in
             /\ t[k].type = "Container" => u[k].type = "Container"
  <2>1. IsEntry(t[k])
    BY DEF IsTable
  <2>2. CASE t[k].in = 0 /\ t[k].name = FillValue /\ t[k].type = "Byte"
    <3>1. u[k] = [t[k] EXCEPT !.type = "Int16"]
      BY <2>2 DEF Widened
    <3>2. u[k] = [name |-> t[k].name, type |-> "Int16", vals |-> t[k].vals, in |-> t[k].in]
      BY <2>1, <3>1 DEF IsEntry
    <3>3. t[k].vals \in Seq(Int)
      BY <2>1, <2>2 DEF IsEntry, IsValues, NumTypes
    <3>4. IsEntry(u[k])
      BY <2>1, <3>2, <3>3 DEF IsEntry, IsValues, NumTypes, AttTypes
    <3>5. QED
      BY <2>2, <3>2, <3>4
  <2>3. CASE ~(t[k].in = 0 /\ t[k].name = FillValue /\ t[k].type = "Byte")
    <3>1. u[k] = t[k]
      BY <2>3 DEF Widened
    <3>2. QED
      BY <2>1, <3>1
  <2>4. QED
    BY <2>2, <2>3
<1>3. QED
  BY <1>1, <1>2, SameContainers

(* A response with another table of global attributes, or of variable v.   *)
LEMMA NewGlobals ==
  ASSUME NEW d, IsDataset(d), NEW t, IsTable(t),
         NEW e, e = [d EXCEPT !.globals = t]
  PROVE  IsDataset(e) /\ e.globals = t /\ e.vars = d.vars
BY DEF IsDataset

LEMMA NewTable ==
  ASSUME NEW d, IsDataset(d), NEW v \in 1..Len(d.vars), NEW t, IsTable(t),
         NEW e, e = [d EXCEPT !.vars[v].table = t]
  PROVE  /\ IsDataset(e) /\ e.globals = d.globals /\ Len(e.vars) = Len(d.vars)
         /\ DOMAIN e.vars = DOMAIN d.vars
         /\ \A w \in DOMAIN d.vars :
              /\ w # v => e.vars[w] = d.vars[w]
              /\ e.vars[w].kind = d.vars[w].kind /\ e.vars[w].name = d.vars[w].name
              /\ e.vars[w].embed = d.vars[w].embed
              /\ e.vars[w].type = d.vars[w].type /\ e.vars[w].parents = d.vars[w].parents
         /\ e.vars[v].table = t
<1> DEFINE x == d.vars[v]  y == [x EXCEPT !.table = t]  vs == [d.vars EXCEPT ![v] = y]
<1>1. /\ d = [globals |-> d.globals, vars |-> d.vars] /\ IsTable(d.globals)
      /\ Len(d.vars) \in Nat /\ DOMAIN d.vars = 1..Len(d.vars)
      /\ d.vars = [w \in 1..Len(d.vars) |-> d.vars[w]]
      /\ \A w \in DOMAIN d.vars : IsVariable(d.vars[w])
  BY SequenceIs DEF IsDataset
<1>2. e = [globals |-> d.globals, vars |-> vs]
  BY <1>1
<1>3. IsVariable(x)
  BY <1>1
<1>4. y = [kind |-> x.kind, name |-> x.name, type |-> x.type, embed |-> x.embed,
           parents |-> x.parents, table |-> t]
  BY <1>3 DEF IsVariable
<1>5. IsVariable(y)
  BY <1>3, <1>4 DEF IsVariable
<1>6. /\ vs = [w \in 1..Len(d.vars) |-> vs[w]] /\ vs[v] = y
      /\ \A w \in 1..Len(d.vars) : w # v => vs[w] = d.vars[w]
  BY <1>1
<1> HIDE DEF vs, y, x
<1>7. IsSequence(vs) /\ Len(vs) = Len(d.vars) /\ DOMAIN vs = 1..Len(d.vars)
  BY <1>1, <1>6, IsSequenceOf
<1>8. \A w \in DOMAIN vs : IsVariable(vs[w])
  BY <1>1, <1>5, <1>6, <1>7
<1>9. e.globals = d.globals /\ e.vars = vs
  BY <1>2
<1>10. IsDataset(e)
  BY <1>1, <1>2, <1>7, <1>8, <1>9 DEF IsDataset
<1>11. QED
  BY <1>1, <1>4, <1>6, <1>7, <1>9, <1>10 DEF x

Legal == IsDataset(asked) /\ IsDataset(ds)

LEMMA FirstIs ==
  ASSUME NEW S, S \subseteq Nat, S # {}
  PROVE  First(S) \in S
<1>1. \E i \in S : \A k \in S : i <= k
  BY LeastNat
<1>2. QED
  BY <1>1 DEF First

LEMMA HistoryAdded ==
  ASSUME Legal, UpdateHistory
  PROVE  IsDataset(ds') /\ ds'.vars = ds.vars /\ pc' \in {"define", "failed"}
<1> DEFINE t == ds.globals
<1>1. IsTable(t) /\ Len(t) \in Nat /\ DOMAIN t = 1..Len(t)
  BY TableIs DEF Legal, IsDataset
<1>2. ASSUME NEW i \in DOMAIN t, AppendText(i)
      PROVE  IsDataset(ds') /\ ds'.vars = ds.vars /\ pc' \in {"define", "failed"}
  <2>1. CASE t[i].type = "String"
    <3> DEFINE u == [t EXCEPT ![i].vals = Append(@, Entry)]
    <3>1. IsTable(u)
      BY <1>1, <2>1, TextAppended
    <3>2. ds' = [ds EXCEPT !.globals = u] /\ pc' = "define"
      <4>1. ds' = [ds EXCEPT !.globals[i].vals = Append(@, Entry)] /\ pc' = "define"
        BY <1>2, <2>1 DEF AppendText
      <4>2. QED
        BY <4>1
    <3> HIDE DEF u
    <3>3. QED
      BY <3>1, <3>2, NewGlobals DEF Legal
  <2>2. CASE t[i].type # "String"
    BY <1>2, <2>2 DEF AppendText, Legal
  <2>3. QED
    BY <2>1, <2>2
<1>3. CASE Histories # {} /\ AppendText(First(Histories))
  <2>1. Histories \subseteq DOMAIN t /\ Histories \subseteq Nat
    BY <1>1 DEF Histories
  <2>2. First(Histories) \in DOMAIN t
    BY <1>3, <2>1, FirstIs
  <2>3. QED
    BY <1>2, <1>3, <2>2
<1>4. CASE TopHistories # {} /\ AppendText(First(TopHistories))
  <2>1. TopHistories \subseteq DOMAIN t /\ TopHistories \subseteq Nat
    BY <1>1 DEF TopHistories, Children
  <2>2. First(TopHistories) \in DOMAIN t
    BY <1>4, <2>1, FirstIs
  <2>3. QED
    BY <1>2, <1>4, <2>2
<1>5. CASE /\ ds' = [ds EXCEPT !.globals = Append(@, [name |-> history, type |-> "String",
                                                     vals |-> <<Entry>>, in |-> 0])]
           /\ pc' = "define"
  <2> DEFINE a == [name |-> history, type |-> "String", vals |-> <<Entry>>, in |-> 0]
  <2>1. <<Entry>> \in Seq(Path)
    BY NamesAssumption
  <2>2. IsEntry(a) /\ a.in = 0
    BY <2>1, FixedPaths DEF IsEntry, IsValues, NumTypes, AttTypes, TextTypes
  <2> HIDE DEF a
  <2>3. IsTable(Append(t, a))
    BY <1>1, <2>2, EntryAppended
  <2>4. ds' = [ds EXCEPT !.globals = Append(t, a)]
    BY <1>5 DEF a
  <2>5. QED
    BY <1>5, <2>3, <2>4, NewGlobals DEF Legal
<1>6. QED
  BY <1>3, <1>4, <1>5 DEF UpdateHistory

(* The response e is d but for the table of variable v.                    *)
SameBut(d, e, v) ==
  /\ e.globals = d.globals /\ Len(e.vars) = Len(d.vars) /\ DOMAIN e.vars = DOMAIN d.vars
  /\ \A w \in DOMAIN d.vars :
       /\ w # v => e.vars[w] = d.vars[w]
       /\ e.vars[w].kind = d.vars[w].kind /\ e.vars[w].name = d.vars[w].name
       /\ e.vars[w].embed = d.vars[w].embed
       /\ e.vars[w].type = d.vars[w].type /\ e.vars[w].parents = d.vars[w].parents

LEMMA FillWidened ==
  ASSUME Legal, vi \in 1..Len(ds.vars), WidenFill
  PROVE  /\ IsDataset(ds') /\ SameBut(ds, ds', vi)
         /\ ds'.vars[vi].table = IF get_nc_type(CurVar.type) = "SHORT"
                                 THEN Widened(CurVar.table) ELSE CurVar.table
<1>1. CASE get_nc_type(CurVar.type) = "SHORT"
  <2>1. DOMAIN ds.vars = 1..Len(ds.vars)
    BY SequenceIs DEF Legal, IsDataset
  <2>2. IsTable(CurVar.table)
    BY <2>1 DEF Legal, IsDataset, CurVar, IsVariable
  <2>3. ds' = [ds EXCEPT !.vars[vi].table = Widened(CurVar.table)]
    <3>1. ds' = [ds EXCEPT !.vars[vi].table =
                [k \in DOMAIN @ |->
                   IF @[k].in = 0 /\ @[k].name = FillValue /\ @[k].type = "Byte"
                   THEN [@[k] EXCEPT !.type = "Int16"] ELSE @[k]]]
      BY <1>1 DEF WidenFill
    <3>2. QED
      BY <3>1 DEF CurVar, Widened
  <2>4. IsTable(Widened(CurVar.table))
    BY <2>2, WidenedTable
  <2>5. QED
    BY <1>1, <2>3, <2>4, NewTable DEF Legal, SameBut
<1>2. CASE get_nc_type(CurVar.type) # "SHORT"
  BY <1>2 DEF WidenFill, Legal, SameBut, CurVar
<1>3. QED
  BY <1>1, <1>2

LEMMA LegalNext ==
  ASSUME Legal, vi \in 1..(Len(ds.vars) + 1), [Next]_vars
  PROVE  Legal'
<1>1. CASE \E d \in Datasets : Begin(d)
  BY <1>1, DatasetsAssumption DEF Begin, Legal
<1>2. CASE UpdateHistory
  BY <1>2, HistoryAdded DEF UpdateHistory, Legal
<1>3. CASE DefineArray
  <2>1. vi \in 1..Len(ds.vars)
    <3>1. Len(ds.vars) \in Nat
      BY SequenceIs DEF Legal, IsDataset
    <3>2. QED
      BY <1>3, <3>1 DEF DefineArray, Globally
  <2>2. QED
    BY <1>3, <2>1, FillWidened DEF DefineArray, Legal
<1>4. CASE UNCHANGED <<asked, ds>>
  BY <1>4 DEF Legal
<1>5. QED
  BY <1>1, <1>2, <1>3, <1>4 DEF Next, vars, DefineSimple, DefineSequence, AddGlobals, SkipEmpty,
     EnterContainer, WriteAttribute, PutFails, NextTable, AddOriginalName, EndDefine, Finish, Stop

---------------------------------------------------------------------------
(* Where the loops are, and the calls of add_attributes under way.         *)

Placed ==
  /\ pc \in {"idle", "history", "define", "table", "done", "failed"}
  /\ vi \in 1..(Len(ds.vars) + 1) /\ ti \in Nat \ {0} /\ ai \in Nat \ {0}
  /\ pc \in {"history", "define"} => ti = 1 /\ ai = 1 /\ Len(calls) = 1
  /\ pc = "history" => vi = 1 /\ DOMAIN atts = {}
  /\ pc \in {"table", "done"} =>
       /\ ti \in 1..Len(Jobs(ds, vi)) /\ ai \in 1..(Len(CurTable) + 1)
       /\ vi \notin Elided(ds)
  /\ pc = "done" => Globally /\ ti = Len(Jobs(ds, vi)) /\ ai = Len(CurTable) + 1

Call == [container : Nat, prefix : Path]
Chained ==
  /\ calls \in Seq(Call) /\ calls # << >>
  /\ \A k \in 2..Len(calls) :
       /\ calls[k].container \in 1..(ai - 1)
       /\ CurTable[calls[k].container].in = calls[k - 1].container

(* A container that later entries are in is still being read; and the      *)
(* prefix of a call is the name that Paths gives its container.            *)
Nests ==
  pc = "table" =>
    /\ calls[1].container = 0
    /\ \A k, l \in DOMAIN calls : k < l => calls[k].container < calls[l].container
    /\ \A i \in ai..Len(CurTable) :
         CurTable[i].in < ai => \E k \in DOMAIN calls : calls[k].container = CurTable[i].in
    /\ \A k \in DOMAIN calls :
         calls[k].prefix = Paths(CurTable, Jobs(ds, vi)[ti].prefix, Globally)[calls[k].container]

CtlInv == Legal /\ Placed /\ Chained /\ Nests

(* Everything about the current table.                                     *)
LEMMA TableHere ==
  ASSUME Legal, Placed, pc \in {"table", "done"}
  PROVE  /\ IsTable(CurTable) /\ Len(CurTable) \in Nat /\ DOMAIN CurTable = 1..Len(CurTable)
         /\ Jobs(ds, vi)[ti].prefix \in Path
         /\ Len(Jobs(ds, vi)) \in Nat \ {0} /\ ti \in 1..Len(Jobs(ds, vi))
         /\ Len(ds.vars) \in Nat /\ DOMAIN ds.vars = 1..Len(ds.vars)
         /\ Globally => Len(Jobs(ds, vi)) = 1
<1>1. ti \in 1..Len(Jobs(ds, vi)) /\ vi \in 1..(Len(ds.vars) + 1)
  BY DEF Placed
<1>2. IsTable(CurTable)
  BY <1>1, JobsAre DEF Legal, CurTable
<1>3. QED
  BY <1>1, <1>2, JobsAre, TableIs DEF Legal, Globally

LEMMA Opened ==
  ASSUME Legal', NEW v \in 1..(Len(ds'.vars) + 1), NEW k \in 1..Len(Jobs(ds', v)),
         v \notin Elided(ds'), OpenTable(v, k)
  PROVE  Placed' /\ Chained' /\ Nests'
<1> DEFINE p == Jobs(ds', v)[k].prefix
           t == Jobs(ds', v)[k].table
<1>1. /\ pc' = "table" /\ vi' = v /\ ti' = k /\ ai' = 1
      /\ calls' = <<[container |-> 0, prefix |-> p]>>
  BY DEF OpenTable, OuterCall
<1>2. IsTable(t) /\ p \in Path /\ Len(ds'.vars) \in Nat /\ Len(Jobs(ds', v)) \in Nat
  BY JobsAre DEF Legal
<1>3. CurTable' = t /\ Jobs(ds', vi')[ti'].prefix = p
  BY <1>1 DEF CurTable
<1>4. Len(t) \in Nat /\ DOMAIN t = 1..Len(t) /\ \A i \in DOMAIN t : t[i].in \in Nat
  <2>1. \A i \in DOMAIN t : t[i].in \in 0..(i - 1)
    BY <1>2, TableIs
  <2>2. Len(t) \in Nat /\ DOMAIN t = 1..Len(t)
    BY <1>2, TableIs
  <2>3. QED
    BY <2>1, <2>2
<1> HIDE DEF p, t
<1>5. Placed'
  BY <1>1, <1>2, <1>3, <1>4 DEF Placed
<1>6. /\ calls' \in Seq(Call) /\ Len(calls') = 1 /\ DOMAIN calls' = {1} /\ calls' # << >>
      /\ calls'[1].container = 0 /\ calls'[1].prefix = p
  BY <1>1, <1>2 DEF Call
<1>7. Chained'
  BY <1>6 DEF Chained
<1>8. p = Paths(t, p, Globally')[0]
  BY <1>2, PathsAre
<1>9. Nests'
  <2>1. \A i \in 1..Len(t) : t[i].in < 1 => t[i].in = 0
    BY <1>4
  <2>2. \A i \in ai'..Len(CurTable') : CurTable'[i].in < ai'
          => \E j \in DOMAIN calls' : calls'[j].container = CurTable'[i].in
    BY <1>1, <1>3, <1>6, <2>1
  <2>3. \A j \in DOMAIN calls' :
          calls'[j].prefix = Paths(CurTable', Jobs(ds', vi')[ti'].prefix, Globally')[calls'[j].container]
    BY <1>3, <1>6, <1>8
  <2>4. \A j, l \in DOMAIN calls' : ~(j < l)
    BY <1>6
  <2>5. QED
    BY <1>1, <1>6, <2>2, <2>3, <2>4 DEF Nests
<1>10. QED
  BY <1>5, <1>7, <1>9

(* The calls that are left when those of containers that are over have     *)
(* returned: those up to the call of the container of the entry.           *)
LEMMA ReturnedIs ==
  ASSUME CtlInv, InTable
  PROVE  \E r \in 1..Len(calls) :
           /\ calls[r].container = CurAtt.in
           /\ Returned \in Seq(Call) /\ Len(Returned) = r
           /\ \A k \in 1..r : Returned[k] = calls[k]
           /\ Prefix(Returned) = calls[r].prefix
<1> DEFINE r == CHOOSE k \in DOMAIN calls : calls[k].container = CurAtt.in
<1>1. /\ IsTable(CurTable) /\ ai \in 1..Len(CurTable) /\ Len(CurTable) \in Nat
      /\ DOMAIN CurTable = 1..Len(CurTable)
  BY TableHere DEF CtlInv, InTable, Placed
<1>2. CurAtt.in < ai
  <2>1. CurAtt.in \in 0..(ai - 1)
    BY <1>1, TableIs DEF CurAtt
  <2>2. QED
    BY <1>1, <2>1
<1>3. \E k \in DOMAIN calls : calls[k].container = CurAtt.in
  BY <1>1, <1>2 DEF CtlInv, Nests, InTable, CurAtt
<1>4. r \in DOMAIN calls /\ calls[r].container = CurAtt.in
  BY <1>3
<1>5. Returned = SubSeq(calls, 1, r)
  BY DEF Returned
<1> HIDE DEF r
<1>6. calls \in Seq(Call) /\ r \in 1..Len(calls) /\ Len(calls) \in Nat
  BY <1>4 DEF CtlInv, Chained
<1>7. \A k \in 1..r : calls[k] \in Call
  BY <1>6
<1>8. /\ SubSeq(calls, 1, r) \in Seq(Call) /\ Len(SubSeq(calls, 1, r)) = r
      /\ \A k \in 1..r : SubSeq(calls, 1, r)[k] = calls[k]
  BY <1>6, <1>7, SubSeqProperties
<1>9. QED
  BY <1>4, <1>5, <1>6, <1>8 DEF Prefix

(* No later entry is in one that is not entered.                           *)
LEMMA NotEntered ==
  ASSUME CtlInv, InTable, NumVals(CurTable, ai) = 0 \/ CurAtt.type # "Container",
         NEW i \in (ai + 1)..Len(CurTable)
  PROVE  CurTable[i].in # ai
<1> DEFINE t == CurTable
<1>1. IsTable(t) /\ Len(t) \in Nat /\ DOMAIN t = 1..Len(t) /\ ai \in 1..Len(t)
  BY TableHere DEF CtlInv, InTable, Placed
<1>2. SUFFICES ASSUME t[i].in = ai PROVE FALSE
  OBVIOUS
<1>3. t[ai].type = "Container"
  BY <1>1, <1>2 DEF IsTable
<1>4. i \in Children(t, ai) /\ Children(t, ai) \subseteq 1..Len(t)
  BY <1>1, <1>2 DEF Children
<1>5. IsFiniteSet(Children(t, ai))
  <2>1. IsFiniteSet(1..Len(t))
    BY <1>1, FS_Interval
  <2>2. QED
    BY <1>4, <2>1, FS_Subset
<1>6. Cardinality(Children(t, ai)) # 0
  BY <1>4, <1>5, FS_EmptySet
<1>7. QED
  BY <1>3, <1>6 DEF NumVals, CurAtt

(* One entry further, with the calls that are left and perhaps a new one.  *)
LEMMA CallsStep ==
  ASSUME CtlInv, InTable, ai' = ai + 1, UNCHANGED <<pc, ds, vi, ti>>,
         \/ calls' = Returned /\ (NumVals(CurTable, ai) = 0 \/ CurAtt.type # "Container")
         \/ calls' = Append(Returned, [container |-> ai, prefix |-> AttName(Returned)])
  PROVE  Placed' /\ Chained' /\ Nests'
<1> DEFINE t == CurTable
           p == Jobs(ds, vi)[ti].prefix
           f == Paths(t, p, Globally)
           new == [container |-> ai, prefix |-> AttName(Returned)]
<1>1. /\ IsTable(t) /\ Len(t) \in Nat /\ DOMAIN t = 1..Len(t) /\ ai \in 1..Len(t) /\ p \in Path
      /\ pc = "table"
  BY TableHere DEF CtlInv, InTable, Placed
<1>2. t' = t /\ p' = p /\ Globally' = Globally /\ pc' = "table"
  BY <1>1 DEF CurTable, Globally
<1>3. PICK r \in 1..Len(calls) :
           /\ calls[r].container = t[ai].in
           /\ Returned \in Seq(Call) /\ Len(Returned) = r
           /\ \A k \in 1..r : Returned[k] = calls[k]
           /\ Prefix(Returned) = calls[r].prefix
  BY ReturnedIs DEF CurAtt
<1>4. /\ calls \in Seq(Call) /\ Len(calls) \in Nat /\ r \in Nat
      /\ \A k \in 2..Len(calls) : /\ calls[k].container \in 1..(ai - 1)
                                /\ t[calls[k].container].in = calls[k - 1].container
  BY <1>3 DEF CtlInv, Chained
<1>5. /\ calls[1].container = 0
      /\ \A k, l \in 1..Len(calls) : k < l => calls[k].container < calls[l].container
      /\ \A i \in ai..Len(t) :
           t[i].in < ai => \E k \in 1..Len(calls) : calls[k].container = t[i].in
      /\ \A k \in 1..Len(calls) : calls[k].prefix = f[calls[k].container]
  <2>1. DOMAIN calls = 1..Len(calls)
    BY <1>4
  <2>2. /\ calls[1].container = 0
        /\ \A k, l \in DOMAIN calls : k < l => calls[k].container < calls[l].container
        /\ \A i \in ai..Len(t) :
             t[i].in < ai => \E k \in DOMAIN calls : calls[k].container = t[i].in
        /\ \A k \in DOMAIN calls : calls[k].prefix = f[calls[k].container]
    BY Zenon, <1>1 DEF CtlInv, Nests
  <2> HIDE DEF t, f
  <2>3. QED
    BY <2>1, <2>2
<1>6. \A k \in 1..Len(calls) : calls[k].container \in 0..(ai - 1)
  <2>1. \A k \in 1..Len(calls) : k = 1 \/ k \in 2..Len(calls)
    BY <1>4
  <2>2. QED
    BY <1>1, <1>4, <1>5, <2>1
<1>7. Placed'
  <2>1. Jobs(ds, vi)' = Jobs(ds, vi) /\ Elided(ds)' = Elided(ds)
    OBVIOUS
  <2>2. QED
    BY <1>1, <1>2, <2>1 DEF CtlInv, Placed
<1>8. ASSUME NEW i \in (ai + 1)..Len(t), t[i].in < ai
      PROVE  \E k \in 1..r : calls[k].container = t[i].in
  <2>1. PICK k \in 1..Len(calls) : calls[k].container = t[i].in
    BY <1>1, <1>5, <1>8
  <2>2. t[i].in <= t[ai].in
    <3>1. i \in DOMAIN t /\ ai \in 1..(i - 1)
      BY <1>1
    <3>2. QED
      BY <1>1, <1>8, <3>1 DEF IsTable
  <2>3. k <= r
    <3>1. SUFFICES ASSUME r < k PROVE FALSE
      BY <1>4, <3>1
    <3>2. calls[r].container < calls[k].container
      BY <1>3, <1>5, <3>1
    <3>3. calls[k].container \in Nat /\ calls[r].container \in Nat
      BY <1>1, <1>3, <1>6
    <3>4. QED
      BY <1>3, <2>1, <2>2, <3>2, <3>3
  <2>4. QED
    BY <1>4, <2>1, <2>3
<1>9. \A i \in (ai + 1)..Len(t) : t[i].in < ai + 1 => t[i].in < ai \/ t[i].in = ai
  <2>1. \A i \in DOMAIN t : t[i].in \in 0..(i - 1)
    BY <1>1, TableIs
  <2>2. QED
    BY <1>1, <2>1
<1> HIDE DEF t, f, new
<1>10. CASE calls' = Returned /\ (NumVals(CurTable, ai) = 0 \/ CurAtt.type # "Container")
  <2>1. /\ calls' \in Seq(Call) /\ Len(calls') = r /\ DOMAIN calls' = 1..r
        /\ (\A k \in 1..r : calls'[k] = calls[k]) /\ calls' # << >>
    BY <1>3, <1>4, <1>10
  <2>2. Chained'
    <3>1. \A k \in 2..r : /\ calls'[k].container \in 1..(ai' - 1)
                          /\ t'[calls'[k].container].in = calls'[k - 1].container
      <4>1. SUFFICES ASSUME NEW k \in 2..r
                     PROVE  /\ calls'[k].container \in 1..(ai' - 1)
                            /\ t'[calls'[k].container].in = calls'[k - 1].container
        OBVIOUS
      <4>2. k \in 2..Len(calls) /\ calls'[k] = calls[k] /\ calls'[k - 1] = calls[k - 1]
        BY <1>4, <2>1
      <4>3. calls[k].container \in 1..(ai - 1) /\ t[calls[k].container].in = calls[k - 1].container
        BY <1>4, <4>2
      <4>4. QED
        BY <1>1, <1>2, <4>2, <4>3
    <3>2. QED
      BY <2>1, <3>1 DEF Chained, t
  <2>3. \A i \in ai'..Len(t) : t[i].in < ai' => \E k \in 1..r : calls[k].container = t[i].in
    <3>1. \A i \in (ai + 1)..Len(t) : t[i].in # ai
      BY <1>10, NotEntered DEF t
    <3>2. QED
      BY <1>8, <1>9, <3>1
  <2>4. \A k, l \in 1..r : k < l => calls'[k].container < calls'[l].container
    BY <1>3, <1>4, <1>5, <2>1
  <2>5. \A k \in 1..r : calls'[k].prefix = f[calls'[k].container]
    BY <1>3, <1>4, <1>5, <2>1
  <2>6. \A i \in ai'..Len(t) : t[i].in < ai' => \E k \in 1..r : calls'[k].container = t[i].in
    BY <2>1, <2>3
  <2>7. f = Paths(t, p, Globally)' /\ calls'[1].container = 0
    BY <1>2, <1>3, <1>4, <1>5, <2>1 DEF f
  <2>8. Nests'
    BY <1>2, <2>1, <2>4, <2>5, <2>6, <2>7 DEF Nests, t
  <2>9. QED
    BY <1>7, <2>2, <2>8
<1>11. CASE calls' = Append(Returned, new)
  <2>1. AttName(Returned) \in Path /\ AttName(Returned) = NewName(f[t[ai].in], t[ai], Globally)
    <3>1. AttName(Returned) = NewName(calls[r].prefix, t[ai], Globally)
      BY <1>3 DEF AttName, CurAtt, t
    <3>2. calls[r].prefix = f[t[ai].in] /\ calls[r].prefix \in Path
      <4>1. r \in 1..Len(calls) /\ calls[r] \in Call
        BY <1>4
      <4>2. QED
        BY <1>3, <1>5, <4>1 DEF Call
    <3>3. IsEntry(t[ai])
      BY <1>1 DEF IsTable
    <3>4. QED
      BY <3>1, <3>2, <3>3, NewNamePath
  <2>2. f[ai] = AttName(Returned)
    BY <1>1, <2>1, PathsAre DEF f
  <2>3. new \in Call /\ new.container = ai /\ new.prefix = f[ai]
    BY <1>1, <2>1, <2>2 DEF Call, new
  <2>4. /\ calls' \in Seq(Call) /\ Len(calls') = r + 1 /\ DOMAIN calls' = 1..(r + 1)
        /\ (\A k \in 1..r : calls'[k] = calls[k]) /\ calls'[r + 1] = new
    <3>1. /\ Append(Returned, new) \in Seq(Call) /\ Len(Append(Returned, new)) = r + 1
          /\ \A k \in 1..r : Append(Returned, new)[k] = Returned[k]
          /\ Append(Returned, new)[r + 1] = new
      BY <1>3, <2>3, AppendProperties
    <3>2. QED
      BY <1>3, <1>4, <1>11, <3>1
  <2>5. ASSUME NEW k \in 2..(r + 1)
        PROVE  /\ calls'[k].container \in 1..(ai' - 1)
               /\ t[calls'[k].container].in = calls'[k - 1].container
    <3>1. CASE k = r + 1
      <4>1. calls'[k].container = ai /\ calls'[k - 1] = calls[r]
        BY <1>3, <1>4, <2>3, <2>4, <3>1
      <4>2. QED
        BY <1>1, <1>3, <4>1
    <3>2. CASE k # r + 1
      <4>1. k \in 2..Len(calls) /\ calls'[k] = calls[k] /\ calls'[k - 1] = calls[k - 1]
        BY <1>3, <1>4, <2>4, <3>2
      <4>2. calls[k].container \in 1..(ai - 1) /\ t[calls[k].container].in = calls[k - 1].container
        BY <1>4, <4>1
      <4>3. QED
        BY <1>1, <4>1, <4>2
    <3>3. QED
      BY <3>1, <3>2
  <2>6. Chained'
    <3>1. calls' # << >>
      BY <1>4, <2>4
    <3>2. QED
      BY <1>2, <2>4, <2>5, <3>1 DEF Chained, t
  <2>7. ASSUME NEW k \in 1..(r + 1), NEW l \in 1..(r + 1), k < l
        PROVE  calls'[k].container < calls'[l].container
    <3>1. k \in 1..r /\ calls'[k] = calls[k] /\ k \in 1..Len(calls)
      BY <1>3, <1>4, <2>4, <2>7
    <3>2. CASE l = r + 1
      <4>1. calls'[l].container = ai
        BY <2>3, <2>4, <3>2
      <4>2. QED
        BY <1>1, <1>6, <3>1, <4>1
    <3>3. CASE l # r + 1
      <4>1. l \in 1..Len(calls) /\ calls'[l] = calls[l]
        BY <1>3, <1>4, <2>4, <3>3
      <4>2. QED
        BY <1>5, <2>7, <3>1, <4>1
    <3>4. QED
      BY <3>2, <3>3
  <2>8. ASSUME NEW k \in 1..(r + 1) PROVE calls'[k].prefix = f[calls'[k].container]
    <3>1. CASE k = r + 1
      BY <2>3, <2>4, <3>1
    <3>2. CASE k # r + 1
      <4>1. k \in 1..Len(calls) /\ calls'[k] = calls[k]
        BY <1>3, <1>4, <2>4, <3>2
      <4>2. QED
        BY <1>5, <4>1
    <3>3. QED
      BY <3>1, <3>2
  <2>9. ASSUME NEW i \in ai'..Len(t), t[i].in < ai'
        PROVE  \E k \in 1..(r + 1) : calls'[k].container = t[i].in
    <3>1. i \in (ai + 1)..Len(t) /\ t[i].in < ai + 1
      BY <2>9
    <3>2. CASE t[i].in = ai
      <4>1. r + 1 \in 1..(r + 1)
        BY <1>4
      <4>2. QED
        BY <2>3, <2>4, <3>2, <4>1
    <3>3. CASE t[i].in < ai
      <4>1. PICK k \in 1..r : calls[k].container = t[i].in
        BY <1>8, <3>1, <3>3
      <4>2. k \in 1..(r + 1) /\ calls'[k] = calls[k]
        BY <1>4, <2>4, <4>1
      <4>3. QED
        BY <4>1, <4>2
    <3>4. QED
      BY <1>9, <3>1, <3>2, <3>3
  <2>10. f = Paths(t, p, Globally)' /\ calls'[1].container = 0
    BY <1>2, <1>3, <1>4, <1>5, <2>4 DEF f
  <2>11. Nests'
    BY <1>2, <2>4, <2>7, <2>8, <2>9, <2>10 DEF Nests, t
  <2>12. QED
    BY <1>7, <2>6, <2>11
<1>12. QED
  BY <1>10, <1>11 DEF new

LEMMA OuterCallIs ==
  ASSUME NEW p \in Path
  PROVE  /\ OuterCall(p) \in Seq(Call) /\ Len(OuterCall(p)) = 1 /\ OuterCall(p) # << >>
         /\ OuterCall(p)[1] = [container |-> 0, prefix |-> p]
BY DEF OuterCall, Call

LEMMA CtlInit ==
  ASSUME Init
  PROVE  CtlInv
<1>1. IsDataset([globals |-> << >>, vars |-> << >>])
  <2>1. IsSequence(<< >>) /\ DOMAIN << >> = {}
    BY DEF IsSequence
  <2> DEFINE d == [globals |-> << >>, vars |-> << >>]
  <2>2. IsTable(<< >>)
    BY <2>1 DEF IsTable
  <2>3. QED
    BY <2>1, <2>2 DEF IsDataset
<1>2. Legal
  BY <1>1 DEF Init, Legal
<1>3. Placed
  BY DEF Init, Placed
<1>4. Chained
  <2>1. calls \in Seq(Call) /\ Len(calls) = 1 /\ calls # << >>
    BY OuterCallIs, FixedPaths DEF Init
  <2>2. QED
    BY <2>1 DEF Chained
<1>5. Nests
  BY DEF Init, Nests
<1>6. QED
  BY <1>2, <1>3, <1>4, <1>5 DEF CtlInv

LEMMA CtlOther ==
  ASSUME CtlInv, \/ \E d \in Datasets : Begin(d)
                 \/ UpdateHistory \/ DefineSequence \/ AddOriginalName
                 \/ PutFails \/ EndDefine \/ Finish \/ UNCHANGED vars
  PROVE  Placed' /\ Chained' /\ Nests'
<1>1. Len(ds.vars) \in Nat /\ DOMAIN ds.vars = 1..Len(ds.vars)
  BY SequenceIs DEF CtlInv, Legal, IsDataset
<1>2. calls \in Seq(Call) /\ calls # << >> /\ Len(calls) \in Nat
  BY DEF CtlInv, Chained
<1>3. ASSUME NEW d \in Datasets, Begin(d) PROVE Placed' /\ Chained' /\ Nests'
  <2>1. /\ ds' = d /\ pc' = "history" /\ vi' = 1 /\ ti' = 1 /\ ai' = 1
        /\ calls' = OuterCall(<< >>) /\ atts' = << >>
    BY <1>3 DEF Begin
  <2>2. Len(d.vars) \in Nat
    BY DatasetsAssumption, SequenceIs DEF IsDataset
  <2>3. calls' \in Seq(Call) /\ Len(calls') = 1 /\ calls' # << >>
    BY <2>1, OuterCallIs, FixedPaths
  <2>4. Placed'
    BY <2>1, <2>2, <2>3 DEF Placed
  <2>5. Chained'
    BY <2>3 DEF Chained
  <2>6. Nests'
    BY <2>1 DEF Nests
  <2>7. QED
    BY <2>4, <2>5, <2>6
<1>4. CASE UpdateHistory
  <2>1. /\ pc = "history" /\ ds'.vars = ds.vars /\ pc' \in {"define", "failed"}
        /\ UNCHANGED <<vi, ti, ai, calls, atts>>
    BY <1>4, HistoryAdded DEF UpdateHistory, CtlInv
  <2>2. vi = 1 /\ ti = 1 /\ ai = 1 /\ Len(calls) = 1
    BY <2>1 DEF CtlInv, Placed
  <2>3. Placed'
    BY <1>1, <2>1, <2>2 DEF Placed
  <2>4. Chained' /\ Nests'
    BY <1>2, <2>1, <2>2 DEF Chained, Nests
  <2>5. QED
    BY <2>3, <2>4
<1>5. CASE DefineSequence
  <2>1. pc = "define" /\ ~Globally /\ vi' = vi + 1 /\ UNCHANGED <<pc, ds, ti, ai, calls>>
    BY <1>5 DEF DefineSequence
  <2>2. vi \in 1..Len(ds.vars) /\ ti = 1 /\ ai = 1 /\ Len(calls) = 1
    BY <1>1, <2>1 DEF CtlInv, Placed, Globally
  <2>3. Placed'
    BY <1>1, <2>1, <2>2 DEF Placed
  <2>4. Chained' /\ Nests'
    BY <1>2, <2>1, <2>2 DEF Chained, Nests
  <2>5. QED
    BY <2>3, <2>4
<1>6. CASE AddOriginalName
  <2>1. /\ pc' = "define" /\ ~Globally /\ vi' = vi + 1 /\ ti' = 1 /\ ai' = 1
        /\ calls' = OuterCall(<< >>) /\ ds' = ds
    BY <1>6 DEF AddOriginalName
  <2>2. vi \in 1..Len(ds.vars)
    BY <1>1, <2>1 DEF CtlInv, Placed, Globally
  <2>3. calls' \in Seq(Call) /\ Len(calls') = 1 /\ calls' # << >>
    BY <2>1, OuterCallIs, FixedPaths
  <2>4. Placed'
    BY <1>1, <2>1, <2>2, <2>3 DEF Placed
  <2>5. Chained'
    BY <2>3 DEF Chained
  <2>6. Nests'
    BY <2>1 DEF Nests
  <2>7. QED
    BY <2>4, <2>5, <2>6
<1>7. CASE PutFails \/ EndDefine \/ Finish
  <2>1. /\ UNCHANGED <<ds, vi, ti, ai, calls>> /\ pc' \in {"idle", "done", "failed"}
        /\ pc' = "done" => pc = "table" /\ ai > Len(CurTable) /\ Globally
    BY <1>7 DEF PutFails, EndDefine, Finish, Stop
  <2>2. CurTable' = CurTable /\ Globally' = Globally
    BY <2>1 DEF CurTable, Globally
  <2>3. Chained' /\ Nests'
    BY <2>1, <2>2 DEF CtlInv, Chained, Nests
  <2>4. pc' = "done" => ti = Len(Jobs(ds, vi)) /\ ai = Len(CurTable) + 1
                        /\ ti \in 1..Len(Jobs(ds, vi)) /\ vi \notin Elided(ds)
    <3>1. SUFFICES ASSUME pc = "table", ai > Len(CurTable), Globally
                   PROVE  ti = Len(Jobs(ds, vi)) /\ ai = Len(CurTable) + 1
                        /\ ti \in 1..Len(Jobs(ds, vi)) /\ vi \notin Elided(ds)
      BY <2>1
    <3>2. ti \in 1..Len(Jobs(ds, vi)) /\ Len(Jobs(ds, vi)) = 1 /\ Len(CurTable) \in Nat
      BY <3>1, TableHere DEF CtlInv
    <3>3. ai \in 1..(Len(CurTable) + 1) /\ vi \notin Elided(ds)
      BY <3>1 DEF CtlInv, Placed
    <3>4. QED
      BY <3>1, <3>2, <3>3
  <2>5. Elided(ds)' = Elided(ds) /\ Jobs(ds, vi)' = Jobs(ds, vi)
    BY <2>1
  <2>6. vi \in 1..(Len(ds.vars) + 1) /\ ti \in Nat \ {0} /\ ai \in Nat \ {0}
    BY DEF CtlInv, Placed
  <2>7. ai = Len(CurTable) + 1 => ai \in 1..(Len(CurTable) + 1)
    BY <2>6
  <2>8. Placed'
    BY <2>1, <2>2, <2>4, <2>5, <2>6, <2>7 DEF Placed
  <2>9. QED
    BY <2>3, <2>8
<1>8. CASE UNCHANGED vars
  <2>1. UNCHANGED <<pc, ds, vi, ti, ai, calls, atts>>
    BY <1>8 DEF vars
  <2>2. CurTable' = CurTable /\ Globally' = Globally
    BY <2>1 DEF CurTable, Globally
  <2>3. QED
    BY <2>1, <2>2 DEF CtlInv, Placed, Chained, Nests
<1>9. QED
  BY <1>3, <1>4, <1>5, <1>6, <1>7, <1>8

LEMMA CtlNext ==
  ASSUME CtlInv, [Next]_vars
  PROVE  CtlInv'
<1>1. Legal'
  BY LegalNext DEF CtlInv, Placed
<1>2. vi \in 1..(Len(ds.vars) + 1) /\ Len(ds.vars) \in Nat /\ DOMAIN ds.vars = 1..Len(ds.vars)
  BY SequenceIs DEF CtlInv, Placed, Legal, IsDataset
<1>3. CASE DefineArray \/ DefineSimple \/ AddGlobals
  <2>1. OpenTable(vi, 1)
    BY <1>3 DEF DefineArray, DefineSimple, AddGlobals
  <2>2. CASE DefineArray
    <3>1. vi \in 1..Len(ds.vars) /\ ds.vars[vi].kind = "Array" /\ WidenFill
      BY <1>2, <2>2 DEF DefineArray, Globally, CurVar
    <3>2. SameBut(ds, ds', vi)
      BY <3>1, FillWidened DEF CtlInv
    <3>3. vi \in 1..(Len(ds'.vars) + 1) /\ ds'.vars[vi].kind = "Array"
      BY <1>2, <3>1, <3>2 DEF SameBut
    <3>4. vi \notin Elided(ds') /\ 1 \in 1..Len(Jobs(ds', vi))
      BY <1>1, <3>3, JobsAre DEF Elided, Legal
    <3>5. QED
      BY <1>1, <2>1, <3>3, <3>4, Opened DEF CtlInv
  <2>3. CASE DefineSimple \/ AddGlobals
    <3>1. ds' = ds /\ vi \notin Elided(ds)
      BY <1>2, <2>3 DEF DefineSimple, AddGlobals, Globally, CurVar, Elided
    <3>2. 1 \in 1..Len(Jobs(ds', vi)) /\ vi \notin Elided(ds')
      BY <1>1, <1>2, <3>1, JobsAre DEF Legal
    <3>3. QED
      BY <1>1, <1>2, <2>1, <3>1, <3>2, Opened DEF CtlInv
  <2>4. QED
    BY <1>3, <2>2, <2>3
<1>4. CASE NextTable
  <2>1. /\ pc = "table" /\ ti < Len(Jobs(ds, vi)) /\ ds' = ds /\ OpenTable(vi, ti + 1)
    BY <1>4 DEF NextTable
  <2>2. ti \in 1..Len(Jobs(ds, vi)) /\ vi \notin Elided(ds) /\ Len(Jobs(ds, vi)) \in Nat
    BY <2>1, TableHere DEF CtlInv, Placed
  <2>3. ti + 1 \in 1..Len(Jobs(ds', vi)) /\ vi \notin Elided(ds') /\ vi \in 1..(Len(ds'.vars) + 1)
    BY <1>2, <2>1, <2>2
  <2>4. QED
    BY <1>1, <2>1, <2>3, Opened DEF CtlInv
<1>5. CASE SkipEmpty \/ EnterContainer \/ WriteAttribute
  <2>1. /\ InTable /\ ai' = ai + 1 /\ UNCHANGED <<pc, ds, vi, ti>>
        /\ \/ calls' = Returned /\ (NumVals(CurTable, ai) = 0 \/ CurAtt.type # "Container")
           \/ calls' = Append(Returned, [container |-> ai, prefix |-> AttName(Returned)])
    BY <1>5 DEF SkipEmpty, EnterContainer, WriteAttribute, NumTypes, TextTypes
  <2>2. QED
    BY <1>1, <2>1, CallsStep DEF CtlInv
<1>6. CASE \/ \E d \in Datasets : Begin(d)
           \/ UpdateHistory \/ DefineSequence \/ AddOriginalName
           \/ PutFails \/ EndDefine \/ Finish \/ UNCHANGED vars
  BY <1>1, <1>6, CtlOther DEF CtlInv
<1>7. QED
  BY <1>3, <1>4, <1>5, <1>6 DEF Next

---------------------------------------------------------------------------
(* What becomes of the values of an attribute.                             *)

LEMMA InBounds ==
  /\ ByteMax \in Nat /\ ShortMax \in Nat /\ IntMax \in Nat
  /\ ByteMax < ShortMax /\ ShortMax < IntMax /\ 2 * ShortMax + 1 <= IntMax
BY WidthAssumption

LEMMA WrappedInt ==
  ASSUME NEW v \in Int
  PROVE  Wrapped(v) \in Int /\ (v \in 0..ByteMax => Wrapped(v) = v)
<1> DEFINE u == IF v \in (-2 * IntMax - 1)..(2 * IntMax + 1) THEN v ELSE 2 * IntMax + 1
<1>1. u \in Int
  BY InBounds
<1>2. Wrapped(v) = ((u + ByteMax + 1) % (2 * ByteMax + 2)) - ByteMax - 1
  BY DEF Wrapped
<1>3. ASSUME v \in 0..ByteMax PROVE u = v
  BY <1>3, InBounds
<1> HIDE DEF u
<1>4. ASSUME NEW m \in Int, NEW n \in Nat \ {0}
      PROVE  m % n \in Int /\ (m \in 0..(n - 1) => m % n = m)
  BY <1>4
<1>5. u + ByteMax + 1 \in Int /\ 2 * ByteMax + 2 \in Nat \ {0}
  BY <1>1, InBounds
<1>6. Wrapped(v) \in Int
  BY <1>2, <1>4, <1>5, InBounds
<1>7. ASSUME v \in 0..ByteMax PROVE Wrapped(v) = v
  <2>1. v + ByteMax + 1 \in 0..((2 * ByteMax + 2) - 1)
    BY <1>7, InBounds
  <2>2. (v + ByteMax + 1) % (2 * ByteMax + 2) = v + ByteMax + 1
    BY <1>3, <1>4, <1>5, <1>7, <2>1
  <2>3. QED
    BY <1>2, <1>3, <1>7, <2>2, InBounds
<1>8. QED
  BY <1>6, <1>7

LEMMA ParsedIs ==
  ASSUME NEW type \in NumTypes \cup TextTypes, NEW v,
         type \in {"Float32", "Float64"} => v \in Int \cup {NaN},
         type \in NumTypes \ {"Float32", "Float64"} => v \in Int
  PROVE  /\ type \in NumTypes => Parsed(type, v) \in Int
         /\ type \in NumTypes /\ v \in Held(type) => Parsed(type, v) = v
         /\ type \in TextTypes => Parsed(type, v) = v
<1>1. CASE type = "Byte"
  <2>1. Parsed(type, v) = Wrapped(v) /\ Held(type) = 0..ByteMax /\ v \in Int
    BY <1>1 DEF Parsed, Held, NumTypes
  <2>2. QED
    BY <1>1, <2>1, WrappedInt DEF TextTypes
<1>2. CASE type = "Int16"
  <2>1. /\ Parsed(type, v) = Clamped(v, ShortMax) /\ Held(type) = (-ShortMax - 1)..ShortMax
        /\ v \in Int
    BY <1>2 DEF Parsed, Held, NumTypes
  <2>2. QED
    BY <1>2, <2>1, InBounds DEF TextTypes, Clamped
<1>3. CASE type \in {"UInt16", "Int32", "UInt32"}
  <2>1. Parsed(type, v) = Clamped(v, IntMax) /\ v \in Int
    BY <1>3 DEF Parsed, NumTypes
  <2>2. v \in Held(type) => v \in (-IntMax - 1)..IntMax
    BY <1>3, <2>1, InBounds DEF Held
  <2>3. Clamped(v, IntMax) \in Int /\ (v \in (-IntMax - 1)..IntMax => Clamped(v, IntMax) = v)
    BY <2>1, InBounds DEF Clamped
  <2>4. QED
    BY <1>3, <2>1, <2>2, <2>3 DEF TextTypes
<1>4. CASE type \in {"Float32", "Float64"}
  <2>1. Parsed(type, v) = (IF v = NaN THEN 0 ELSE v) /\ Held(type) = Int
    BY <1>4 DEF Parsed, Held
  <2>2. QED
    BY <1>4, <2>1, WidthAssumption DEF TextTypes
<1>5. CASE type \in TextTypes
  BY <1>5 DEF Parsed, TextTypes, NumTypes
<1>6. QED
  BY <1>1, <1>2, <1>3, <1>4, <1>5 DEF NumTypes

TypedAtt(a) ==
  a.type \in NcTypes /\ a.vals \in IF a.type = "CHAR" THEN Seq(Path) ELSE Seq(Int)

LEMMA StoredIs ==
  ASSUME NEW a, IsEntry(a), a.type \in NumTypes \cup TextTypes
  PROVE  TypedAtt(Stored(a)) /\ Faithful(Stored(a), a)
<1> DEFINE s == Stored(a)
<1>1. s.type = NcAttType(a.type) /\ s.vals = [k \in DOMAIN a.vals |-> Parsed(a.type, a.vals[k])]
  BY DEF Stored
<1>2. IsValues(a.type, a.vals)
  BY DEF IsEntry
<1> HIDE DEF s
<1>3. CASE a.type \in TextTypes
  <2>1. a.vals \in Seq(Path) /\ s.type = "CHAR"
    BY <1>1, <1>2, <1>3 DEF IsValues, NcAttType, TextTypes, NumTypes
  <2>2. \A k \in DOMAIN a.vals : Parsed(a.type, a.vals[k]) = a.vals[k]
    BY <1>3 DEF Parsed, TextTypes
  <2>3. s.vals = a.vals
    BY <1>1, <2>1, <2>2
  <2>4. QED
    BY <1>1, <2>1, <2>3 DEF s, TypedAtt, NcTypes, Faithful
<1>4. CASE a.type \in NumTypes
  <2>1. /\ a.type \in {"Float32", "Float64"} => a.vals \in Seq(Int \cup {NaN})
        /\ a.type \notin {"Float32", "Float64"} => a.vals \in Seq(Int)
    BY <1>2, <1>4 DEF IsValues
  <2>2. s.type \in NcTypes \ {"CHAR"}
    BY <1>1, <1>4 DEF NcAttType, NumTypes, NcTypes
  <2>3. Len(a.vals) \in Nat /\ DOMAIN a.vals = 1..Len(a.vals)
    BY <2>1
  <2>4. ASSUME NEW k \in DOMAIN a.vals
        PROVE  /\ Parsed(a.type, a.vals[k]) \in Int
               /\ a.vals[k] \in Held(a.type) => Parsed(a.type, a.vals[k]) = a.vals[k]
    <3>1. /\ a.type \in {"Float32", "Float64"} => a.vals[k] \in Int \cup {NaN}
          /\ a.type \in NumTypes \ {"Float32", "Float64"} => a.vals[k] \in Int
      BY <2>1
    <3>2. QED
      BY <1>4, <3>1, ParsedIs
  <2>5. s.vals \in [1..Len(a.vals) -> Int]
    BY <1>1, <2>3, <2>4
  <2>6. s.vals \in Seq(Int)
    BY <2>3, <2>5, IsASeq
  <2>7. a.type \notin TextTypes
    BY <1>4 DEF NumTypes, TextTypes
  <2>8. Faithful(s, a)
    BY <1>1, <2>4, <2>7 DEF Faithful
  <2>9. QED
    BY <2>2, <2>6, <2>8 DEF s, TypedAtt
<1>5. QED
  BY <1>3, <1>4

---------------------------------------------------------------------------
(* What has been put in the file when the loops are at entry i of table k  *)
(* of variable v.                                                          *)

PastOf(d, v, k, i) ==
  {s \in Sites(d) : \/ s.v < v
                    \/ s.v = v /\ s.job < k
                    \/ s.v = v /\ s.job = k /\ s.at < i}
OriginalsOf(d, v) ==
  {<<w, fonc_original_name>> : w \in {x \in DOMAIN d.vars \ Elided(d) : x < v /\ Renamed(d.vars[x])}}
NotesOf(d, v) ==
  {<<NC_GLOBAL, gen_name(d.vars[w].embed, d.vars[w].name)>> : w \in {x \in Elided(d) : x < v}}
Holds(d, v, k, i, a) ==
  /\ DOMAIN a = {<<s.target, s.name>> : s \in PastOf(d, v, k, i)}
                  \cup OriginalsOf(d, v) \cup NotesOf(d, v)
  /\ \A s \in PastOf(d, v, k, i) :
       /\ s.att.type \in NumTypes \cup TextTypes
       /\ (\A u \in PastOf(d, v, k, i) : Before(s, u) => ~Clash(s, u))
          /\ <<s.target, s.name>> \notin OriginalsOf(d, v)
          => a[<<s.target, s.name>>] = Stored(s.att)
  /\ \A o \in OriginalsOf(d, v) : a[o] = Text(<<Original(d.vars[o[1]])>>)
KeptInv == pc \in {"history", "define", "table", "done"} => Holds(ds, vi, ti, ai, atts)

SiteAt(d, v, k, i) ==
  [v |-> v, job |-> k, at |-> i, att |-> Jobs(d, v)[k].table[i],
   target |-> IF v > Len(d.vars) THEN NC_GLOBAL ELSE v,
   name |-> id2netcdf(Paths(Jobs(d, v)[k].table, Jobs(d, v)[k].prefix, v > Len(d.vars))[i])]

LEMMA SiteIs ==
  ASSUME NEW d, IsDataset(d), NEW s \in Sites(d)
  PROVE  /\ s.v \in 1..(Len(d.vars) + 1) /\ s.v \notin Elided(d)
         /\ s.job \in 1..Len(Jobs(d, s.v))
         /\ s.at \in Valued(Jobs(d, s.v)[s.job].table)
         /\ s.at \in 1..Len(Jobs(d, s.v)[s.job].table)
         /\ s = SiteAt(d, s.v, s.job, s.at)
<1>1. PICK v \in 1..(Len(d.vars) + 1) \ Elided(d) : s \in SitesOf(d, v)
  BY DEF Sites
<1>2. PICK k \in DOMAIN Jobs(d, v) : \E i \in Valued(Jobs(d, v)[k].table) : s = SiteAt(d, v, k, i)
  BY <1>1 DEF SitesOf, SiteAt
<1>3. PICK i \in Valued(Jobs(d, v)[k].table) : s = SiteAt(d, v, k, i)
  BY <1>2
<1>4. s.v = v /\ s.job = k /\ s.at = i
  BY <1>3 DEF SiteAt
<1>5. k \in 1..Len(Jobs(d, v)) /\ IsTable(Jobs(d, v)[k].table)
  BY <1>1, <1>2, JobsAre
<1>6. i \in 1..Len(Jobs(d, v)[k].table)
  BY <1>3, <1>5, TableIs DEF Valued
<1>7. QED
  BY <1>1, <1>3, <1>4, <1>5, <1>6

LEMMA SiteIn ==
  ASSUME NEW d, NEW v \in 1..(Len(d.vars) + 1), v \notin Elided(d),
         NEW k \in DOMAIN Jobs(d, v), NEW i \in Valued(Jobs(d, v)[k].table)
  PROVE  SiteAt(d, v, k, i) \in Sites(d)
<1>1. SiteAt(d, v, k, i) \in SitesOf(d, v)
  BY DEF SitesOf, SiteAt
<1>2. QED
  BY <1>1 DEF Sites

(* The sites of a variable depend on nothing else.                         *)
LEMMA SitesSame ==
  ASSUME NEW d, IsDataset(d), NEW e, IsDataset(e), NEW v \in 1..(Len(d.vars) + 1),
         Len(e.vars) = Len(d.vars), v \in Elided(e) <=> v \in Elided(d),
         Jobs(d, v) = Jobs(e, v)
  PROVE  \A s : s \in Sites(d) /\ s.v = v <=> s \in Sites(e) /\ s.v = v
<1>1. ASSUME NEW s \in Sites(d), s.v = v PROVE s \in Sites(e)
  <2>1. /\ v \notin Elided(d) /\ s.job \in DOMAIN Jobs(d, v)
        /\ s.at \in Valued(Jobs(d, v)[s.job].table) /\ s = SiteAt(d, v, s.job, s.at)
    BY <1>1, SiteIs, JobsAre
  <2>2. SiteAt(e, v, s.job, s.at) \in Sites(e)
    BY <2>1, SiteIn
  <2>3. SiteAt(e, v, s.job, s.at) = SiteAt(d, v, s.job, s.at)
    BY DEF SiteAt
  <2>4. QED
    BY <2>1, <2>2, <2>3
<1>2. ASSUME NEW s \in Sites(e), s.v = v PROVE s \in Sites(d)
  <2>1. /\ v \notin Elided(e) /\ s.job \in DOMAIN Jobs(e, v)
        /\ s.at \in Valued(Jobs(e, v)[s.job].table) /\ s = SiteAt(e, v, s.job, s.at)
    BY <1>2, SiteIs, JobsAre
  <2>2. SiteAt(d, v, s.job, s.at) \in Sites(d)
    BY <2>1, SiteIn
  <2>3. SiteAt(e, v, s.job, s.at) = SiteAt(d, v, s.job, s.at)
    BY DEF SiteAt
  <2>4. QED
    BY <2>1, <2>2, <2>3
<1>3. QED
  BY <1>1, <1>2

LEMMA PastNone ==
  ASSUME NEW d, IsDataset(d)
  PROVE  PastOf(d, 1, 1, 1) = {} /\ OriginalsOf(d, 1) = {} /\ NotesOf(d, 1) = {}
<1>1. DOMAIN d.vars = 1..Len(d.vars) /\ Len(d.vars) \in Nat /\ Elided(d) \subseteq DOMAIN d.vars
  BY SequenceIs DEF IsDataset, Elided
<1>2. ASSUME NEW s \in PastOf(d, 1, 1, 1) PROVE FALSE
  <2>1. /\ s \in Sites(d)
        /\ (s.v < 1) \/ (s.v = 1 /\ s.job < 1) \/ (s.v = 1 /\ s.job = 1 /\ s.at < 1)
    BY <1>2 DEF PastOf
  <2>2. s.v \in Nat \ {0} /\ s.job \in Nat \ {0} /\ s.at \in Nat \ {0}
    BY <2>1, SiteIs
  <2>3. QED
    BY <2>1, <2>2
<1>3. \A x \in DOMAIN d.vars : ~(x < 1)
  BY <1>1
<1>4. QED
  BY <1>1, <1>2, <1>3 DEF OriginalsOf, NotesOf

(* The entry at hand is the next site, if it has a value.                  *)
LEMMA PastStep ==
  ASSUME NEW d, IsDataset(d), NEW v \in 1..(Len(d.vars) + 1), v \notin Elided(d),
         NEW k \in 1..Len(Jobs(d, v)), NEW i \in 1..Len(Jobs(d, v)[k].table)
  PROVE  PastOf(d, v, k, i + 1) =
           PastOf(d, v, k, i) \cup
             (IF i \in Valued(Jobs(d, v)[k].table) THEN {SiteAt(d, v, k, i)} ELSE {})
<1> DEFINE new == IF i \in Valued(Jobs(d, v)[k].table) THEN {SiteAt(d, v, k, i)} ELSE {}
<1>1. ASSUME NEW s \in PastOf(d, v, k, i + 1), s \notin PastOf(d, v, k, i) PROVE s \in new
  <2>1. s \in Sites(d) /\ s.at \in Nat
    BY <1>1, SiteIs DEF PastOf
  <2>2. s.v = v /\ s.job = k /\ s.at = i
    BY <1>1, <2>1 DEF PastOf
  <2>3. QED
    BY <2>1, <2>2, SiteIs
<1>2. ASSUME NEW s \in PastOf(d, v, k, i) PROVE s \in PastOf(d, v, k, i + 1)
  <2>1. s \in Sites(d) /\ s.at \in Nat
    BY <1>2, SiteIs DEF PastOf
  <2>2. QED
    BY <1>2, <2>1 DEF PastOf
<1>3. ASSUME i \in Valued(Jobs(d, v)[k].table) PROVE SiteAt(d, v, k, i) \in PastOf(d, v, k, i + 1)
  <2>1. SiteAt(d, v, k, i) \in Sites(d)
    BY <1>3, SiteIn, JobsAre
  <2>2. SiteAt(d, v, k, i).v = v /\ SiteAt(d, v, k, i).job = k /\ SiteAt(d, v, k, i).at = i
    BY DEF SiteAt
  <2>3. QED
    BY <2>1, <2>2 DEF PastOf
<1>4. QED
  BY <1>1, <1>2, <1>3

LEMMA PastTable ==
  ASSUME NEW d, IsDataset(d), NEW v \in 1..(Len(d.vars) + 1), NEW k \in 1..Len(Jobs(d, v)),
         NEW i, i = Len(Jobs(d, v)[k].table) + 1
  PROVE  PastOf(d, v, k + 1, 1) = PastOf(d, v, k, i)
<1>1. ASSUME NEW s \in Sites(d)
      PROVE  s \in PastOf(d, v, k + 1, 1) <=> s \in PastOf(d, v, k, i)
  <2>1. /\ s.v \in Nat /\ s.job \in Nat \ {0} /\ s.at \in Nat \ {0}
        /\ s.v = v /\ s.job = k => s.at \in 1..Len(Jobs(d, v)[k].table)
    BY SiteIs
  <2>2. Len(Jobs(d, v)[k].table) \in Nat
    BY JobsAre, TableIs
  <2>3. QED
    BY <2>1, <2>2 DEF PastOf
<1>2. QED
  BY <1>1 DEF PastOf

LEMMA PastVariable ==
  ASSUME NEW d, IsDataset(d), NEW v \in 1..(Len(d.vars) + 1), NEW k \in Nat, NEW i \in Nat,
         \/ v \in Elided(d)
         \/ k = Len(Jobs(d, v)) /\ i = Len(Jobs(d, v)[k].table) + 1
  PROVE  PastOf(d, v + 1, 1, 1) = PastOf(d, v, k, i)
<1>1. ASSUME NEW s \in Sites(d)
      PROVE  s \in PastOf(d, v + 1, 1, 1) <=> s \in PastOf(d, v, k, i)
  <2>1. /\ s.v \in Nat \ {0} /\ s.job \in Nat \ {0} /\ s.at \in Nat \ {0} /\ s.v \notin Elided(d)
        /\ s.v = v => s.job \in 1..Len(Jobs(d, v))
        /\ s.v = v /\ s.job = k => s.at \in 1..Len(Jobs(d, v)[k].table)
    BY SiteIs
  <2>2. Len(Jobs(d, v)) \in Nat
    BY JobsAre
  <2>3. s \in PastOf(d, v + 1, 1, 1) <=> s.v <= v
    BY <2>1 DEF PastOf
  <2>4. CASE v \in Elided(d)
    BY <2>1, <2>3, <2>4 DEF PastOf
  <2>5. CASE k = Len(Jobs(d, v)) /\ i = Len(Jobs(d, v)[k].table) + 1
    <3>1. k \in 1..Len(Jobs(d, v))
      BY <2>2, <2>5, JobsAre
    <3>2. Len(Jobs(d, v)[k].table) \in Nat
      BY <3>1, JobsAre, TableIs
    <3>3. s.v = v => s.job < k \/ (s.job = k /\ s.at < i)
      BY <2>1, <2>2, <2>5, <3>2
    <3>4. s \in PastOf(d, v, k, i) <=>
            s.v < v \/ (s.v = v /\ s.job < k) \/ (s.v = v /\ s.job = k /\ s.at < i)
      BY DEF PastOf
    <3>5. QED
      BY <2>1, <2>3, <3>3, <3>4
  <2>6. QED
    BY <2>4, <2>5
<1>2. QED
  BY <1>1 DEF PastOf

(* A change of what is past but for names leaves what holds.               *)
LEMMA HoldsMoved ==
  ASSUME NEW d, NEW v, NEW k, NEW i, NEW a, Holds(d, v, k, i, a),
         NEW e, NEW w, NEW l, NEW j,
         PastOf(e, w, l, j) = PastOf(d, v, k, i),
         OriginalsOf(e, w) = OriginalsOf(d, v), NotesOf(e, w) = NotesOf(d, v),
         \A o \in OriginalsOf(d, v) : Original(e.vars[o[1]]) = Original(d.vars[o[1]])
  PROVE  Holds(e, w, l, j, a)
BY DEF Holds

PutIn(a, key, att) == [x \in DOMAIN a \cup {key} |-> IF x = key THEN att ELSE a[x]]

LEMMA OriginalIs ==
  ASSUME NEW d, IsDataset(d), NEW v \in 1..(Len(d.vars) + 1), NEW o \in OriginalsOf(d, v)
  PROVE  /\ o[1] \in 1..Len(d.vars) /\ o[1] < v
         /\ o = <<o[1], fonc_original_name>>
<1>1. PICK w \in {x \in DOMAIN d.vars \ Elided(d) : x < v /\ Renamed(d.vars[x])} :
         o = <<w, fonc_original_name>>
  BY DEF OriginalsOf
<1>2. w \in DOMAIN d.vars /\ w < v /\ DOMAIN d.vars = 1..Len(d.vars)
  BY <1>1, SequenceIs DEF IsDataset
<1>3. o[1] = w
  BY <1>1
<1>4. QED
  BY <1>1, <1>2, <1>3

LEMMA HoldsWrite ==
  ASSUME NEW d, IsDataset(d), NEW v \in 1..(Len(d.vars) + 1), v \notin Elided(d),
         NEW k \in 1..Len(Jobs(d, v)), NEW i \in Valued(Jobs(d, v)[k].table),
         NEW a, Holds(d, v, k, i, a),
         NEW u, u = SiteAt(d, v, k, i), u.att.type \in NumTypes \cup TextTypes
  PROVE  Holds(d, v, k, i + 1, PutIn(a, <<u.target, u.name>>, Stored(u.att)))
<1> DEFINE key == <<u.target, u.name>>
           b == PutIn(a, key, Stored(u.att))
           P == PastOf(d, v, k, i)
           Q == PastOf(d, v, k, i + 1)
           O == OriginalsOf(d, v)
<1>1. i \in 1..Len(Jobs(d, v)[k].table)
  BY JobsAre, TableIs DEF Valued
<1>2. Q = P \cup {u}
  BY <1>1, PastStep
<1>3. DOMAIN b = DOMAIN a \cup {key} /\ b[key] = Stored(u.att)
        /\ \A x \in DOMAIN a : x # key => b[x] = a[x]
  <2> HIDE DEF key
  <2>1. QED
    BY DEF PutIn
<1>4. Len(d.vars) \in Nat /\ u.v = v /\ u.job = k /\ u.at = i
        /\ u.target = IF v > Len(d.vars) THEN NC_GLOBAL ELSE v
  <2>1. Len(d.vars) \in Nat
    BY JobsAre
  <2>2. QED
    BY <2>1 DEF SiteAt
<1>5. /\ DOMAIN a = {<<s.target, s.name>> : s \in P} \cup O \cup NotesOf(d, v)
      /\ \A s \in P :
           /\ s.att.type \in NumTypes \cup TextTypes
           /\ (\A x \in P : Before(s, x) => ~Clash(s, x)) /\ <<s.target, s.name>> \notin O
              => a[<<s.target, s.name>>] = Stored(s.att)
      /\ \A o \in O : a[o] = Text(<<Original(d.vars[o[1]])>>)
  BY Zenon DEF Holds
<1>6. \A s \in P : Before(s, u)
  BY <1>4 DEF PastOf, Before
<1>7. \A o \in O : o[1] # u.target
  <2>1. SUFFICES ASSUME NEW o \in O PROVE o[1] # u.target
    OBVIOUS
  <2>2. o[1] \in 1..Len(d.vars) /\ o[1] < v
    BY OriginalIs
  <2>3. QED
    BY <1>4, <2>2 DEF NC_GLOBAL
<1> HIDE DEF b, P, Q, O
<1>8. DOMAIN b = {<<s.target, s.name>> : s \in Q} \cup O \cup NotesOf(d, v)
  BY <1>2, <1>3, <1>5 DEF key
<1>9. ASSUME NEW s \in Q
      PROVE  /\ s.att.type \in NumTypes \cup TextTypes
             /\ (\A x \in Q : Before(s, x) => ~Clash(s, x)) /\ <<s.target, s.name>> \notin O
                => b[<<s.target, s.name>>] = Stored(s.att)
  <2>1. CASE s = u
    BY <1>3, <2>1 DEF key
  <2>2. CASE s # u
    <3>1. s \in P
      BY <1>2, <2>2
    <3>2. SUFFICES ASSUME \A x \in Q : Before(s, x) => ~Clash(s, x), <<s.target, s.name>> \notin O
                   PROVE  b[<<s.target, s.name>>] = Stored(s.att)
      BY <1>5, <3>1
    <3>3. ~Clash(s, u)
      BY <1>2, <1>6, <3>1, <3>2
    <3>4. <<s.target, s.name>> # key
      BY <3>3 DEF Clash, key
    <3>5. <<s.target, s.name>> \in DOMAIN a
      BY <1>5, <3>1
    <3>6. a[<<s.target, s.name>>] = Stored(s.att)
      BY <1>2, <1>5, <3>1, <3>2
    <3> HIDE DEF key
    <3>7. QED
      BY <1>3, <3>4, <3>5, <3>6
  <2>3. QED
    BY <2>1, <2>2
<1>10. ASSUME NEW o \in O PROVE b[o] = Text(<<Original(d.vars[o[1]])>>)
  <2>1. o # key
    BY <1>7, <1>10 DEF key
  <2>2. o \in DOMAIN a /\ a[o] = Text(<<Original(d.vars[o[1]])>>)
    BY <1>5, <1>10
  <2> HIDE DEF key
  <2>3. QED
    BY <1>3, <2>1, <2>2
<1>11. QED
  BY <1>8, <1>9, <1>10 DEF Holds, b, Q, O

(* After its tables, a variable that is called something else in the file  *)
(* gets its original name.                                                 *)
LEMMA HoldsOriginal ==
  ASSUME NEW d, IsDataset(d), NEW v \in 1..Len(d.vars), v \notin Elided(d),
         NEW k, NEW i, NEW a, Holds(d, v, k, i, a),
         PastOf(d, v + 1, 1, 1) = PastOf(d, v, k, i),
         NEW b, b = IF Renamed(d.vars[v])
                    THEN PutIn(a, <<v, fonc_original_name>>, Text(<<Original(d.vars[v])>>)) ELSE a
  PROVE  Holds(d, v + 1, 1, 1, b)
<1> DEFINE key == <<v, fonc_original_name>>
           P == PastOf(d, v, k, i)
           O == OriginalsOf(d, v)
<1>1. DOMAIN d.vars = 1..Len(d.vars) /\ Len(d.vars) \in Nat /\ Elided(d) \subseteq DOMAIN d.vars
  BY SequenceIs DEF IsDataset, Elided
<1>2. OriginalsOf(d, v + 1) = O \cup (IF Renamed(d.vars[v]) THEN {key} ELSE {})
  <2>1. \A x \in DOMAIN d.vars : x < v + 1 <=> x < v \/ x = v
    BY <1>1
  <2>2. v \in DOMAIN d.vars \ Elided(d)
    BY <1>1
  <2>3. QED
    BY <2>1, <2>2, <1>1 DEF OriginalsOf
<1>3. NotesOf(d, v + 1) = NotesOf(d, v)
  <2>1. \A x \in Elided(d) : x < v + 1 <=> x < v
    BY <1>1
  <2>2. QED
    BY <2>1 DEF NotesOf
<1>4. /\ DOMAIN a = {<<s.target, s.name>> : s \in P} \cup O \cup NotesOf(d, v)
      /\ \A s \in P :
           /\ s.att.type \in NumTypes \cup TextTypes
           /\ (\A x \in P : Before(s, x) => ~Clash(s, x)) /\ <<s.target, s.name>> \notin O
              => a[<<s.target, s.name>>] = Stored(s.att)
      /\ \A o \in O : a[o] = Text(<<Original(d.vars[o[1]])>>)
  BY Zenon DEF Holds
<1>5. CASE Renamed(d.vars[v])
  <2>1. DOMAIN b = DOMAIN a \cup {key} /\ b[key] = Text(<<Original(d.vars[v])>>)
        /\ \A x \in DOMAIN a : x # key => b[x] = a[x]
    <3>1. b = PutIn(a, key, Text(<<Original(d.vars[v])>>))
      BY <1>5
    <3> HIDE DEF key
    <3>2. QED
      BY <3>1 DEF PutIn
  <2>2. OriginalsOf(d, v + 1) = O \cup {key} /\ key[1] = v
    BY <1>2, <1>5
  <2>3. key \notin O
    <3>1. SUFFICES ASSUME key \in O PROVE FALSE
      OBVIOUS
    <3>2. key[1] < v
      BY <3>1, <1>1, OriginalIs
    <3>3. QED
      BY <2>2, <3>2
  <2> HIDE DEF key, P, O
  <2>4. \A s \in P : <<s.target, s.name>> \in DOMAIN a
    BY <1>4
  <2>5. \A s \in P : <<s.target, s.name>> # key => b[<<s.target, s.name>>] = a[<<s.target, s.name>>]
    BY <2>1, <2>4
  <2>6. \A o \in O : b[o] = a[o] /\ o # key
    BY <1>4, <2>1, <2>3
  <2>7. DOMAIN b = {<<s.target, s.name>> : s \in P} \cup OriginalsOf(d, v + 1) \cup NotesOf(d, v)
    BY <1>4, <2>1, <2>2
  <2>8. \A o \in OriginalsOf(d, v + 1) : b[o] = Text(<<Original(d.vars[o[1]])>>)
    BY <1>4, <2>1, <2>2, <2>6
  <2>9. ASSUME NEW s \in P
        PROVE  /\ s.att.type \in NumTypes \cup TextTypes
               /\ (\A x \in P : Before(s, x) => ~Clash(s, x))
                  /\ <<s.target, s.name>> \notin OriginalsOf(d, v + 1)
                  => b[<<s.target, s.name>>] = Stored(s.att)
    BY <1>4, <2>2, <2>5
  <2>10. QED
    BY <1>3, <2>7, <2>8, <2>9 DEF Holds, P
<1>6. CASE ~Renamed(d.vars[v])
  BY <1>2, <1>3, <1>6, HoldsMoved
<1>7. QED
  BY <1>5, <1>6

(* A sequence has a note among the global attributes instead.              *)
LEMMA HoldsNote ==
  ASSUME NEW d, IsDataset(d), NEW v \in Elided(d), NEW a, Holds(d, v, 1, 1, a),
         NEW att
  PROVE  Holds(d, v + 1, 1, 1, PutIn(a, <<NC_GLOBAL, gen_name(d.vars[v].embed, d.vars[v].name)>>, att))
<1> DEFINE key == <<NC_GLOBAL, gen_name(d.vars[v].embed, d.vars[v].name)>>
           b == PutIn(a, key, att)
           P == PastOf(d, v, 1, 1)
           O == OriginalsOf(d, v)
<1>1. DOMAIN d.vars = 1..Len(d.vars) /\ Len(d.vars) \in Nat /\ v \in 1..Len(d.vars)
        /\ Elided(d) \subseteq DOMAIN d.vars
  BY SequenceIs DEF IsDataset, Elided
<1>2. OriginalsOf(d, v + 1) = O
  <2>1. \A x \in DOMAIN d.vars \ Elided(d) : x < v + 1 <=> x < v
    BY <1>1
  <2>2. QED
    BY <2>1 DEF OriginalsOf
<1>3. NotesOf(d, v + 1) = NotesOf(d, v) \cup {key}
  <2>1. \A x \in Elided(d) : x < v + 1 <=> x < v \/ x = v
    BY <1>1
  <2>2. QED
    BY <2>1 DEF NotesOf
<1>4. PastOf(d, v + 1, 1, 1) = P
  BY <1>1, PastVariable
<1>5. /\ DOMAIN a = {<<s.target, s.name>> : s \in P} \cup O \cup NotesOf(d, v)
      /\ \A s \in P :
           /\ s.att.type \in NumTypes \cup TextTypes
           /\ (\A x \in P : Before(s, x) => ~Clash(s, x)) /\ <<s.target, s.name>> \notin O
              => a[<<s.target, s.name>>] = Stored(s.att)
      /\ \A o \in O : a[o] = Text(<<Original(d.vars[o[1]])>>)
  BY Zenon DEF Holds
<1>6. DOMAIN b = DOMAIN a \cup {key} /\ \A x \in DOMAIN a : x # key => b[x] = a[x]
  <2> HIDE DEF key
  <2>1. QED
    BY DEF PutIn
<1>7. \A s \in P : <<s.target, s.name>> # key
  <2>1. SUFFICES ASSUME NEW s \in P PROVE s.target # NC_GLOBAL
    OBVIOUS
  <2>2. s \in Sites(d) /\ s.v <= v
    <3>1. s \in Sites(d)
      BY DEF PastOf
    <3>2. s.v \in Nat \ {0} /\ s.job \in Nat \ {0} /\ s.at \in Nat \ {0}
      BY <3>1, SiteIs
    <3>3. QED
      BY <1>1, <3>1, <3>2 DEF PastOf
  <2>3. s = SiteAt(d, s.v, s.job, s.at) /\ s.v \in Nat \ {0}
    BY <2>2, SiteIs
  <2>4. s.target = s.v
    BY <1>1, <2>2, <2>3 DEF SiteAt
  <2>5. QED
    BY <2>3, <2>4 DEF NC_GLOBAL
<1>8. \A o \in O : o # key
  <2>1. SUFFICES ASSUME NEW o \in O PROVE o[1] # NC_GLOBAL
    OBVIOUS
  <2>2. o[1] \in 1..Len(d.vars)
    BY <1>1, OriginalIs
  <2>3. QED
    BY <2>2 DEF NC_GLOBAL
<1> HIDE DEF key, b, P, O
<1>9. \A s \in P : b[<<s.target, s.name>>] = a[<<s.target, s.name>>]
  BY <1>5, <1>6, <1>7
<1>10. \A o \in O : b[o] = a[o]
  BY <1>5, <1>6, <1>8
<1>11. DOMAIN b = {<<s.target, s.name>> : s \in P} \cup O \cup NotesOf(d, v + 1)
  BY <1>3, <1>5, <1>6
<1>12. Holds(d, v + 1, 1, 1, b)
  BY <1>2, <1>4, <1>5, <1>9, <1>10, <1>11 DEF Holds
<1>13. QED
  BY <1>12 DEF b, key

(* The fill value that FONcArray::define changes is not past yet.          *)
LEMMA PastFill ==
  ASSUME NEW d, IsDataset(d), NEW e, IsDataset(e), NEW v \in 1..Len(d.vars), SameBut(d, e, v)
  PROVE  /\ PastOf(e, v, 1, 1) = PastOf(d, v, 1, 1)
         /\ OriginalsOf(e, v) = OriginalsOf(d, v) /\ NotesOf(e, v) = NotesOf(d, v)
         /\ \A o \in OriginalsOf(d, v) : Original(e.vars[o[1]]) = Original(d.vars[o[1]])
         /\ Elided(e) = Elided(d)
<1>1. /\ DOMAIN d.vars = 1..Len(d.vars) /\ Len(d.vars) \in Nat /\ Len(e.vars) = Len(d.vars)
      /\ DOMAIN e.vars = DOMAIN d.vars /\ Elided(d) \subseteq DOMAIN d.vars
  BY SequenceIs DEF IsDataset, SameBut, Elided
<1>2. Elided(e) = Elided(d)
  BY DEF SameBut, Elided
<1>3. \A w \in DOMAIN d.vars : e.vars[w].name = d.vars[w].name /\ e.vars[w].embed = d.vars[w].embed
  BY DEF SameBut
<1>4. \A w \in DOMAIN d.vars : /\ Renamed(e.vars[w]) <=> Renamed(d.vars[w])
                               /\ Original(e.vars[w]) = Original(d.vars[w])
  BY <1>3 DEF Renamed, Original
<1>5. OriginalsOf(e, v) = OriginalsOf(d, v)
  <2>1. {x \in DOMAIN e.vars \ Elided(e) : x < v /\ Renamed(e.vars[x])}
          = {x \in DOMAIN d.vars \ Elided(d) : x < v /\ Renamed(d.vars[x])}
    <3>1. \A x : /\ x \in DOMAIN e.vars \ Elided(e) <=> x \in DOMAIN d.vars \ Elided(d)
                 /\ x \in DOMAIN d.vars => (Renamed(e.vars[x]) <=> Renamed(d.vars[x]))
      <4>1. \A x \in DOMAIN d.vars : Renamed(e.vars[x]) <=> Renamed(d.vars[x])
        BY <1>4, Zenon
      <4>2. DOMAIN e.vars \ Elided(e) = DOMAIN d.vars \ Elided(d)
        BY <1>1, <1>2, Zenon
      <4>3. QED
        BY <4>1, <4>2, Zenon
    <3> DEFINE D == {x \in DOMAIN d.vars \ Elided(d) : x < v /\ Renamed(d.vars[x])}
               E == {x \in DOMAIN e.vars \ Elided(e) : x < v /\ Renamed(e.vars[x])}
    <3>2. \A x : x \in D <=> x \in E
      BY <3>1, Zenon
    <3> HIDE DEF D, E
    <3>3. D = E
      BY <3>2, Zenon
    <3>4. QED
      BY <3>3, Zenon DEF D, E
  <2>2. QED
    BY <2>1, Zenon DEF OriginalsOf
<1>6. NotesOf(e, v) = NotesOf(d, v)
  BY <1>1, <1>2, <1>3 DEF NotesOf
<1>7. \A o \in OriginalsOf(d, v) : o[1] \in DOMAIN d.vars
  <2>1. SUFFICES ASSUME NEW o \in OriginalsOf(d, v) PROVE o[1] \in DOMAIN d.vars
    OBVIOUS
  <2>2. QED
    BY <1>1, OriginalIs
<1>8. ASSUME NEW f, IsDataset(f), Len(f.vars) = Len(d.vars), NEW s \in PastOf(f, v, 1, 1)
      PROVE  s \in Sites(f) /\ s.v \in 1..Len(d.vars) /\ s.v < v
  <2>1. s \in Sites(f)
    BY DEF PastOf
  <2>2. s.v \in Nat \ {0} /\ s.job \in Nat \ {0} /\ s.at \in Nat \ {0}
    BY <1>8, <2>1, SiteIs
  <2>3. s.v < v
    BY <2>2 DEF PastOf
  <2>4. QED
    BY <1>1, <2>1, <2>2, <2>3
<1>9. ASSUME NEW w \in 1..Len(d.vars), w < v
      PROVE  \A s : s \in Sites(d) /\ s.v = w <=> s \in Sites(e) /\ s.v = w
  <2>1. Jobs(d, w) = Jobs(e, w)
    <3>1. d.vars[w] = e.vars[w] /\ ~(w > Len(d.vars))
      BY <1>1, <1>9 DEF SameBut
    <3>2. QED
      BY <1>1, <3>1, JobsSame
  <2>2. w \in 1..(Len(d.vars) + 1)
    BY <1>1
  <2>3. w \in Elided(e) <=> w \in Elided(d)
    BY <1>2
  <2>4. QED
    BY <1>1, <2>1, <2>2, <2>3, SitesSame
<1>10. PastOf(e, v, 1, 1) = PastOf(d, v, 1, 1)
  <2>1. ASSUME NEW s \in PastOf(d, v, 1, 1) PROVE s \in PastOf(e, v, 1, 1)
    <3>1. s \in Sites(d) /\ s.v \in 1..Len(d.vars) /\ s.v < v
      BY <1>8
    <3>2. s \in Sites(e)
      BY <1>9, <3>1
    <3>3. QED
      BY <3>1, <3>2 DEF PastOf
  <2>2. ASSUME NEW s \in PastOf(e, v, 1, 1) PROVE s \in PastOf(d, v, 1, 1)
    <3>1. s \in Sites(e) /\ s.v \in 1..Len(d.vars) /\ s.v < v
      BY <1>1, <1>8
    <3>2. s \in Sites(d)
      BY <1>9, <3>1
    <3>3. QED
      BY <3>1, <3>2 DEF PastOf
  <2>3. QED
    BY <2>1, <2>2
<1>11. \A o \in OriginalsOf(d, v) : Original(e.vars[o[1]]) = Original(d.vars[o[1]])
  <2>1. SUFFICES ASSUME NEW o \in OriginalsOf(d, v)
                 PROVE  Original(e.vars[o[1]]) = Original(d.vars[o[1]])
    OBVIOUS
  <2>2. o[1] \in DOMAIN d.vars
    BY <1>7
  <2>3. QED
    BY <1>4, <2>2, Zenon
<1>12. QED
  BY <1>2, <1>5, <1>6, <1>10, <1>11, Zenon

LEMMA KeptTable ==
  ASSUME CtlInv, KeptInv, SkipEmpty \/ EnterContainer \/ WriteAttribute
  PROVE  KeptInv'
<1> DEFINE t == CurTable
           p == Jobs(ds, vi)[ti].prefix
<1>1. /\ InTable /\ pc = "table" /\ ai' = ai + 1 /\ UNCHANGED <<pc, ds, vi, ti>>
  BY DEF SkipEmpty, EnterContainer, WriteAttribute, InTable
<1>2. /\ IsTable(t) /\ Len(t) \in Nat /\ DOMAIN t = 1..Len(t) /\ ai \in 1..Len(t)
      /\ vi \in 1..(Len(ds.vars) + 1) /\ vi \notin Elided(ds) /\ ti \in 1..Len(Jobs(ds, vi))
      /\ IsDataset(ds) /\ t = Jobs(ds, vi)[ti].table
  BY <1>1, TableHere DEF CtlInv, InTable, Placed, Legal, CurTable
<1>3. Holds(ds, vi, ti, ai, atts)
  BY <1>1 DEF KeptInv
<1>4. CASE SkipEmpty \/ EnterContainer
  <2>1. atts' = atts
    BY <1>4 DEF SkipEmpty, EnterContainer
  <2>2. ai \notin Valued(t)
    <3>1. CASE EnterContainer
      BY <3>1 DEF EnterContainer, CurAtt, Valued
    <3>2. CASE SkipEmpty
      <4>1. NumVals(t, ai) = 0
        BY <3>2 DEF SkipEmpty
      <4>2. SUFFICES ASSUME t[ai].type # "Container", t[ai].vals # << >> PROVE FALSE
        BY DEF Valued
      <4>3. Len(t[ai].vals) = 0
        BY <4>1, <4>2 DEF NumVals
      <4>4. t[ai].vals \in Seq(Int \cup {NaN}) \/ t[ai].vals \in Seq(Int) \/ t[ai].vals \in Seq(Path)
        BY <1>2 DEF IsTable, IsEntry, IsValues
      <4>5. QED
        BY <4>2, <4>3, <4>4, EmptySeq
    <3>3. QED
      BY <1>4, <3>1, <3>2
  <2>3. PastOf(ds, vi, ti, ai + 1) = PastOf(ds, vi, ti, ai)
    <3>1. ai \notin Valued(Jobs(ds, vi)[ti].table) /\ ai \in 1..Len(Jobs(ds, vi)[ti].table)
      BY <1>2, <2>2
    <3> HIDE DEF t, p
    <3>2. PastOf(ds, vi, ti, ai + 1) =
            PastOf(ds, vi, ti, ai) \cup
              (IF ai \in Valued(Jobs(ds, vi)[ti].table) THEN {SiteAt(ds, vi, ti, ai)} ELSE {})
      <4>1. ai \in 1..Len(Jobs(ds, vi)[ti].table)
        BY <3>1
      <4>2. IsDataset(ds) /\ vi \in 1..(Len(ds.vars) + 1) /\ vi \notin Elided(ds)
        BY <1>2
      <4>3. ti \in 1..Len(Jobs(ds, vi))
        BY <1>2
      <4>4. QED
        BY <4>1, <4>2, <4>3, PastStep
    <3>3. QED
      BY <3>1, <3>2
  <2>4. Holds(ds, vi, ti, ai + 1, atts)
    BY <1>3, <2>3, HoldsMoved
  <2>5. QED
    BY <1>1, <2>1, <2>4 DEF KeptInv
<1>5. CASE WriteAttribute
  <2> DEFINE u == SiteAt(ds, vi, ti, ai)
  <2>1. /\ NumVals(t, ai) > 0 /\ t[ai].type \in NumTypes \cup TextTypes /\ calls' = Returned
        /\ atts' = PutIn(atts, <<Target, id2netcdf(AttName(Returned))>>, Stored(t[ai]))
    BY <1>5 DEF WriteAttribute, CurAtt, Put, PutIn
  <2>2. ai \in Valued(t)
    <3>1. t[ai].type # "Container"
      BY <2>1 DEF NumTypes, TextTypes
    <3>2. Len(t[ai].vals) > 0
      BY <2>1, <3>1 DEF NumVals
    <3>3. t[ai].vals # << >>
      BY <3>2
    <3>4. QED
      BY <1>2, <3>1, <3>3 DEF Valued
  <2>3. AttName(Returned) = Paths(t, p, Globally)[ai]
    <3>1. PICK r \in 1..Len(calls) :
           calls[r].container = t[ai].in /\ Prefix(Returned) = calls[r].prefix
      BY <1>1, ReturnedIs DEF CurAtt
    <3>2. calls[r].prefix = Paths(t, p, Globally)[t[ai].in]
      <4>1. r \in DOMAIN calls
        BY DEF CtlInv, Chained
      <4>2. calls[r].prefix = Paths(t, p, Globally)[calls[r].container]
        BY Zenon, <1>1, <4>1 DEF CtlInv, Nests
      <4>3. QED
        BY <3>1, <4>2
    <3>3. Paths(t, p, Globally)[ai] = NewName(Paths(t, p, Globally)[t[ai].in], t[ai], Globally)
      BY <1>2, PathsAre
    <3>4. QED
      BY <3>1, <3>2, <3>3 DEF AttName, CurAtt
  <2>4. /\ u.target = Target /\ u.att = t[ai]
        /\ u.name = id2netcdf(AttName(Returned))
    BY <2>3 DEF SiteAt, Target, Globally, CurTable
  <2> HIDE DEF u
  <2>5. Holds(ds, vi, ti, ai + 1, PutIn(atts, <<u.target, u.name>>, Stored(u.att)))
    BY <1>2, <1>3, <2>1, <2>2, <2>4, HoldsWrite DEF u
  <2>6. Holds(ds, vi, ti, ai + 1, atts')
    BY <2>1, <2>4, <2>5
  <2>7. QED
    BY <1>1, <2>6 DEF KeptInv
<1>6. QED
  BY <1>4, <1>5

LEMMA KeptNext ==
  ASSUME CtlInv, KeptInv, [Next]_vars
  PROVE  KeptInv'
<1>1. /\ IsDataset(ds) /\ vi \in 1..(Len(ds.vars) + 1) /\ Len(ds.vars) \in Nat
      /\ DOMAIN ds.vars = 1..Len(ds.vars)
  BY SequenceIs DEF CtlInv, Placed, Legal, IsDataset
<1>2. pc = "define" => Holds(ds, vi, 1, 1, atts)
  BY DEF KeptInv, CtlInv, Placed
<1>3. CASE \E d \in Datasets : Begin(d)
  <2>1. PICK d \in Datasets : Begin(d)
    BY <1>3
  <2>2. ds' = d /\ vi' = 1 /\ ti' = 1 /\ ai' = 1 /\ atts' = << >> /\ IsDataset(d)
    BY <2>1, DatasetsAssumption DEF Begin
  <2>3. DOMAIN atts' = {}
    BY <2>2
  <2>4. Holds(d, 1, 1, 1, atts')
    BY <2>2, <2>3, PastNone DEF Holds
  <2>5. QED
    BY <2>2, <2>4 DEF KeptInv
<1>4. CASE UpdateHistory
  <2>1. IsDataset(ds') /\ UNCHANGED <<vi, ti, ai, atts>> /\ pc = "history"
    BY <1>4, HistoryAdded DEF UpdateHistory, CtlInv
  <2>2. vi = 1 /\ ti = 1 /\ ai = 1 /\ DOMAIN atts = {}
    BY <2>1 DEF CtlInv, Placed
  <2>3. Holds(ds', 1, 1, 1, atts)
    BY <2>1, <2>2, PastNone DEF Holds
  <2>4. QED
    BY <2>1, <2>2, <2>3 DEF KeptInv
<1>5. CASE DefineArray
  <2>1. /\ pc = "define" /\ vi \in 1..Len(ds.vars) /\ WidenFill
        /\ vi' = vi /\ ti' = 1 /\ ai' = 1 /\ atts' = atts
    BY <1>1, <1>5 DEF DefineArray, Globally, OpenTable
  <2>2. IsDataset(ds') /\ SameBut(ds, ds', vi)
    BY <2>1, FillWidened DEF CtlInv
  <2>3. Holds(ds', vi, 1, 1, atts)
    BY <1>1, <1>2, <2>1, <2>2, PastFill, HoldsMoved
  <2>4. QED
    BY <2>1, <2>3 DEF KeptInv
<1>6. CASE DefineSimple \/ AddGlobals
  BY <1>2, <1>6 DEF DefineSimple, AddGlobals, OpenTable, KeptInv
<1>7. CASE DefineSequence
  <2> DEFINE name == gen_name(ds.vars[vi].embed, ds.vars[vi].name)
             att == Text(<< <<"elided">> >>)
  <2>1. /\ pc = "define" /\ vi \in Elided(ds) /\ vi' = vi + 1 /\ UNCHANGED <<pc, ds, ti, ai>>
        /\ atts' = PutIn(atts, <<NC_GLOBAL, name>>, att)
    BY <1>1, <1>7 DEF DefineSequence, Elided, CurVar, Globally, Put, PutIn
  <2>2. ti = 1 /\ ai = 1
    BY <2>1 DEF CtlInv, Placed
  <2> HIDE DEF att
  <2>3. Holds(ds, vi + 1, 1, 1, PutIn(atts, <<NC_GLOBAL, name>>, att))
    BY <1>1, <1>2, <2>1, HoldsNote
  <2> HIDE DEF name
  <2>4. QED
    BY <2>1, <2>2, <2>3 DEF KeptInv
<1>8. CASE SkipEmpty \/ EnterContainer \/ WriteAttribute
  BY <1>8, KeptTable
<1>9. ASSUME pc = "table", ai > Len(CurTable)
      PROVE  /\ Holds(ds, vi, ti, ai, atts) /\ ti \in 1..Len(Jobs(ds, vi)) /\ vi \notin Elided(ds)
             /\ ai = Len(Jobs(ds, vi)[ti].table) + 1 /\ ai \in Nat
  <2>1. Holds(ds, vi, ti, ai, atts)
    BY <1>9 DEF KeptInv
  <2>2. Len(CurTable) \in Nat
    BY <1>9, TableHere DEF CtlInv
  <2>3. ai \in 1..(Len(CurTable) + 1) /\ ti \in 1..Len(Jobs(ds, vi)) /\ vi \notin Elided(ds)
    BY <1>9 DEF CtlInv, Placed
  <2>4. ai = Len(CurTable) + 1 /\ ai \in Nat
    BY <1>9, <2>2, <2>3
  <2>5. QED
    BY <2>1, <2>3, <2>4 DEF CurTable
<1>10. CASE NextTable
  <2>1. /\ pc = "table" /\ ai > Len(CurTable) /\ UNCHANGED <<ds, atts>>
        /\ vi' = vi /\ ti' = ti + 1 /\ ai' = 1
    BY <1>10 DEF NextTable, OpenTable
  <2>2. PastOf(ds, vi, ti + 1, 1) = PastOf(ds, vi, ti, ai)
    BY <1>1, <1>9, <2>1, PastTable
  <2>3. Holds(ds, vi, ti + 1, 1, atts)
    BY <1>9, <2>1, <2>2, HoldsMoved
  <2>4. QED
    BY <2>1, <2>3 DEF KeptInv
<1>11. CASE AddOriginalName
  <2>1. /\ pc = "table" /\ ai > Len(CurTable) /\ ti = Len(Jobs(ds, vi)) /\ vi \in 1..Len(ds.vars)
        /\ ds' = ds /\ vi' = vi + 1 /\ ti' = 1 /\ ai' = 1
        /\ atts' = IF Renamed(ds.vars[vi])
                   THEN PutIn(atts, <<vi, fonc_original_name>>, Text(<<Original(ds.vars[vi])>>))
                   ELSE atts
    BY <1>1, <1>11 DEF AddOriginalName, Globally, CurVar, Put, PutIn
  <2>2. PastOf(ds, vi + 1, 1, 1) = PastOf(ds, vi, ti, ai)
    <3>1. ti \in Nat
      BY DEF CtlInv, Placed
    <3>2. QED
      BY <1>1, <1>9, <2>1, <3>1, PastVariable
  <2>3. Holds(ds, vi + 1, 1, 1, atts')
    BY <1>1, <1>9, <2>1, <2>2, HoldsOriginal
  <2>4. QED
    BY <2>1, <2>3 DEF KeptInv
<1>12. CASE PutFails \/ Finish
  BY <1>12 DEF PutFails, Finish, Stop, KeptInv
<1>13. CASE EndDefine \/ UNCHANGED vars
  BY <1>13 DEF EndDefine, Stop, KeptInv, vars
<1>14. QED
  BY <1>3, <1>4, <1>5, <1>6, <1>7, <1>8, <1>10, <1>11, <1>12, <1>13 DEF Next

---------------------------------------------------------------------------
(* The attributes have types and values the library takes.                 *)
Typed(a, n) ==
  /\ DOMAIN a \subseteq (0..n) \X Path
  /\ \A k \in DOMAIN a : TypedAtt(a[k])
AttsTyped == Typed(atts, Len(ds.vars))

LEMMA PutTyped ==
  ASSUME NEW a, NEW n, Typed(a, n), NEW v \in 0..n, NEW name \in Path, NEW att, TypedAtt(att)
  PROVE  Typed(PutIn(a, <<v, name>>, att), n)
<1> DEFINE key == <<v, name>>
           b == PutIn(a, key, att)
<1>1. key \in (0..n) \X Path
  OBVIOUS
<1> HIDE DEF key
<1>2. DOMAIN b = DOMAIN a \cup {key} /\ \A x \in DOMAIN b : b[x] = IF x = key THEN att ELSE a[x]
  BY DEF PutIn
<1> HIDE DEF b
<1>3. DOMAIN b \subseteq (0..n) \X Path
  BY <1>1, <1>2 DEF Typed
<1>4. ASSUME NEW x \in DOMAIN b PROVE TypedAtt(b[x])
  <2>1. CASE x = key
    BY <1>2, <2>1
  <2>2. CASE x # key
    <3>1. b[x] = a[x] /\ x \in DOMAIN a
      BY <1>2, <2>2
    <3>2. QED
      BY <3>1, Zenon DEF Typed
  <2>3. QED
    BY <2>1, <2>2
<1>5. Typed(b, n)
  BY <1>3, <1>4, Zenon DEF Typed
<1>6. QED
  BY <1>5, Zenon DEF b, key

LEMMA TextTyped ==
  ASSUME NEW p \in Path
  PROVE  TypedAtt(Text(<<p>>))
<1>1. <<p>> \in Seq(Path)
  OBVIOUS
<1>2. QED
  BY <1>1 DEF TypedAtt, Text, NcTypes

LEMMA AttsInit ==
  ASSUME Init
  PROVE  AttsTyped
<1>1. DOMAIN atts = {}
  BY DEF Init
<1>2. QED
  BY <1>1 DEF AttsTyped, Typed

LEMMA AttsNext ==
  ASSUME CtlInv, AttsTyped, [Next]_vars
  PROVE  AttsTyped'
<1>1. /\ IsDataset(ds) /\ vi \in 1..(Len(ds.vars) + 1) /\ Len(ds.vars) \in Nat
      /\ DOMAIN ds.vars = 1..Len(ds.vars) /\ \A v \in 1..Len(ds.vars) : IsVariable(ds.vars[v])
  BY SequenceIs DEF CtlInv, Placed, Legal, IsDataset
<1>2. CASE \E d \in Datasets : Begin(d)
  <2>1. DOMAIN atts' = {}
    BY <1>2 DEF Begin
  <2>2. QED
    BY <2>1 DEF AttsTyped, Typed
<1>3. CASE UpdateHistory
  <2>1. ds'.vars = ds.vars /\ atts' = atts
    BY <1>3, HistoryAdded DEF UpdateHistory, CtlInv
  <2>2. QED
    BY <2>1 DEF AttsTyped
<1>4. CASE DefineArray
  <2>1. vi \in 1..Len(ds.vars) /\ WidenFill /\ atts' = atts
    BY <1>1, <1>4 DEF DefineArray, Globally
  <2>2. Len(ds'.vars) = Len(ds.vars)
    BY <2>1, FillWidened DEF CtlInv, SameBut
  <2>3. QED
    BY <2>1, <2>2 DEF AttsTyped
<1>5. CASE DefineSequence
  <2> DEFINE name == gen_name(ds.vars[vi].embed, ds.vars[vi].name)
             att == Text(<< <<"elided">> >>)
  <2>1. ds' = ds /\ atts' = PutIn(atts, <<NC_GLOBAL, name>>, att) /\ vi \in 1..Len(ds.vars)
    BY <1>1, <1>5 DEF DefineSequence, CurVar, Globally, Put, PutIn
  <2>2. name \in Path
    BY <1>1, <2>1, NamePath DEF IsVariable
  <2>3. TypedAtt(att) /\ NC_GLOBAL \in 0..Len(ds.vars)
    BY <1>1, FixedPaths, TextTyped DEF NC_GLOBAL
  <2> HIDE DEF name, att
  <2>4. Typed(PutIn(atts, <<NC_GLOBAL, name>>, att), Len(ds.vars))
    BY <2>2, <2>3, PutTyped DEF AttsTyped
  <2>5. QED
    BY <2>1, <2>4 DEF AttsTyped
<1>6. CASE WriteAttribute
  <2> DEFINE name == id2netcdf(AttName(Returned))
  <2>1. /\ ds' = ds /\ InTable /\ CurAtt.type \in NumTypes \cup TextTypes
        /\ atts' = PutIn(atts, <<Target, name>>, Stored(CurAtt))
    BY <1>6 DEF WriteAttribute, Put, PutIn
  <2>2. IsEntry(CurAtt)
    <3>1. IsTable(CurTable) /\ DOMAIN CurTable = 1..Len(CurTable) /\ ai \in 1..Len(CurTable)
      BY <2>1, TableHere DEF CtlInv, InTable, Placed
    <3>2. QED
      BY <3>1 DEF IsTable, CurAtt
  <2>3. Prefix(Returned) \in Path
    <3>1. PICK r \in 1..Len(calls) : Prefix(Returned) = calls[r].prefix
      BY <2>1, ReturnedIs
    <3>2. calls[r] \in Call
      BY DEF CtlInv, Chained
    <3>3. QED
      BY <3>1, <3>2 DEF Call
  <2>4. name \in Path
    BY <2>2, <2>3, NewNamePath, IdentifierPath DEF AttName
  <2>5. Target \in 0..Len(ds.vars)
    BY <1>1 DEF Target, Globally, NC_GLOBAL
  <2>6. TypedAtt(Stored(CurAtt))
    BY <2>1, <2>2, StoredIs
  <2> HIDE DEF name
  <2>7. Typed(PutIn(atts, <<Target, name>>, Stored(CurAtt)), Len(ds.vars))
    BY <2>4, <2>5, <2>6, PutTyped DEF AttsTyped
  <2>8. QED
    BY <2>1, <2>7 DEF AttsTyped
<1>7. CASE AddOriginalName
  <2> DEFINE o == Original(ds.vars[vi])
  <2>1. /\ ds' = ds /\ vi \in 1..Len(ds.vars)
        /\ atts' = IF Renamed(ds.vars[vi])
                   THEN PutIn(atts, <<vi, fonc_original_name>>, Text(<<o>>)) ELSE atts
    BY <1>1, <1>7 DEF AddOriginalName, Globally, CurVar, Put, PutIn
  <2>2. o \in Path
    BY <1>1, <2>1, NamePath DEF IsVariable, Original
  <2> HIDE DEF o
  <2>3. TypedAtt(Text(<<o>>)) /\ vi \in 0..Len(ds.vars) /\ fonc_original_name \in Path
    BY <1>1, <2>1, <2>2, FixedPaths, TextTyped
  <2>4. Typed(PutIn(atts, <<vi, fonc_original_name>>, Text(<<o>>)), Len(ds.vars))
    BY <2>3, PutTyped DEF AttsTyped
  <2>5. QED
    BY <2>1, <2>4 DEF AttsTyped
<1>8. CASE DefineSimple \/ AddGlobals \/ SkipEmpty \/ EnterContainer \/ PutFails \/ NextTable
            \/ EndDefine \/ Finish \/ UNCHANGED vars
  <2>1. UNCHANGED <<ds, atts>>
    BY <1>8 DEF DefineSimple, AddGlobals, SkipEmpty, EnterContainer, PutFails, NextTable,
                EndDefine, Finish, Stop, vars
  <2>2. QED
    BY <2>1 DEF AttsTyped
<1>9. QED
  BY <1>2, <1>3, <1>4, <1>5, <1>6, <1>7, <1>8 DEF Next

(* Every reachable state of the attributes' journey has its types: the     *)
(* calls of add_attributes under way are those of the containers around    *)
(* the entry, and the file's attributes have netCDF types and values of    *)
(* them.                                                                   *)
THEOREM TypeCorrect == Spec => []TypeOK
<1> DEFINE Inv == CtlInv /\ AttsTyped
<1>1. Init => Inv
  BY CtlInit, AttsInit
<1>2. Inv /\ [Next]_vars => Inv'
  BY CtlNext, AttsNext
<1>3. Inv => TypeOK
  BY DEF CtlInv, Legal, Placed, Chained, Call, AttsTyped, Typed, TypedAtt, TypeOK
<1> HIDE DEF Inv
<1>4. QED
  BY <1>1, <1>2, <1>3, PTL DEF Spec

---------------------------------------------------------------------------
LEMMA KeptInit ==
  ASSUME Init
  PROVE  KeptInv
BY DEF Init, KeptInv

(* At the end all of the sites are past.                                   *)
LEMMA AllPast ==
  ASSUME NEW d, IsDataset(d), NEW v, v = Len(d.vars) + 1, NEW k, k = Len(Jobs(d, v)),
         NEW i, i = Len(Jobs(d, v)[k].table) + 1
  PROVE  /\ PastOf(d, v, k, i) = Sites(d)
         /\ OriginalsOf(d, v) = {<<w, fonc_original_name>> :
                                 w \in {x \in DOMAIN d.vars \ Elided(d) : Renamed(d.vars[x])}}
         /\ NotesOf(d, v) = {<<NC_GLOBAL, gen_name(d.vars[w].embed, d.vars[w].name)>> :
                             w \in Elided(d)}
<1>1. DOMAIN d.vars = 1..Len(d.vars) /\ Len(d.vars) \in Nat /\ Elided(d) \subseteq DOMAIN d.vars
  BY SequenceIs DEF IsDataset, Elided
<1>2. ASSUME NEW s \in Sites(d) PROVE s \in PastOf(d, v, k, i)
  <2>1. /\ s.v \in 1..(Len(d.vars) + 1) /\ s.job \in 1..Len(Jobs(d, s.v))
        /\ s.at \in 1..Len(Jobs(d, s.v)[s.job].table)
    BY <1>2, SiteIs
  <2>2. CASE s.v < v
    BY <2>2 DEF PastOf
  <2>3. CASE ~(s.v < v)
    <3>1. s.v = v
      BY <1>1, <2>1, <2>3
    <3>2. v \in 1..(Len(d.vars) + 1) /\ v > Len(d.vars)
      BY <1>1
    <3>3. Len(Jobs(d, v)) = 1
      BY <3>2, JobsAre
    <3>4. s.job = k
      BY <2>1, <3>1, <3>3
    <3>5. Len(Jobs(d, v)[k].table) \in Nat
      BY <3>2, <3>3, JobsAre, TableIs
    <3>6. s.at < i
      BY <2>1, <3>1, <3>4, <3>5
    <3>7. QED
      BY <3>1, <3>4, <3>6 DEF PastOf
  <2>4. QED
    BY <2>2, <2>3
<1>3. PastOf(d, v, k, i) = Sites(d)
  BY <1>2 DEF PastOf
<1>4. \A w \in DOMAIN d.vars : w < v
  BY <1>1
<1>5. {x \in DOMAIN d.vars \ Elided(d) : x < v /\ Renamed(d.vars[x])}
        = {x \in DOMAIN d.vars \ Elided(d) : Renamed(d.vars[x])}
  BY <1>4
<1>6. {x \in Elided(d) : x < v} = Elided(d)
  BY <1>1, <1>4
<1>7. QED
  BY <1>3, <1>5, <1>6, Zenon DEF OriginalsOf, NotesOf

LEMMA FlattenedAtEnd ==
  ASSUME CtlInv, KeptInv
  PROVE  Flattened
<1>1. SUFFICES ASSUME pc = "done" PROVE Flattened
  BY DEF Flattened
<1>2. /\ IsDataset(ds) /\ vi \in 1..(Len(ds.vars) + 1) /\ Globally
      /\ ti = Len(Jobs(ds, vi)) /\ ai = Len(CurTable) + 1 /\ Len(ds.vars) \in Nat
  BY <1>1, SequenceIs DEF CtlInv, Legal, Placed, IsDataset
<1>3. vi = Len(ds.vars) + 1
  BY <1>2 DEF Globally
<1>4. Holds(ds, vi, ti, ai, atts)
  BY <1>1 DEF KeptInv
<1> DEFINE S == Sites(ds)
           O == {<<v, fonc_original_name>> :
                 v \in {w \in DOMAIN ds.vars \ Elided(ds) : Renamed(ds.vars[w])}}
           N == {<<NC_GLOBAL, gen_name(ds.vars[v].embed, ds.vars[v].name)>> : v \in Elided(ds)}
<1>5. PastOf(ds, vi, ti, ai) = S /\ OriginalsOf(ds, vi) = O /\ NotesOf(ds, vi) = N
  BY <1>2, <1>3, AllPast DEF CurTable
<1> HIDE DEF S, O, N
<1>6. /\ DOMAIN atts = {<<s.target, s.name>> : s \in S} \cup O \cup N
      /\ \A s \in S :
           /\ s.att.type \in NumTypes \cup TextTypes
           /\ (\A u \in S : Before(s, u) => ~Clash(s, u)) /\ <<s.target, s.name>> \notin O
              => atts[<<s.target, s.name>>] = Stored(s.att)
      /\ \A o \in O : atts[o] = Text(<<Original(ds.vars[o[1]])>>)
  BY <1>4, <1>5, Zenon DEF Holds
<1>7. ASSUME NEW s \in S, \A u \in S : Before(s, u) => ~Clash(s, u),
             <<s.target, s.name>> \notin O
      PROVE  Faithful(atts[<<s.target, s.name>>], s.att)
  <2>1. atts[<<s.target, s.name>>] = Stored(s.att) /\ s.att.type \in NumTypes \cup TextTypes
    BY <1>6, <1>7, Zenon
  <2>2. IsEntry(s.att)
    <3>1. /\ s.v \in 1..(Len(ds.vars) + 1) /\ s.job \in 1..Len(Jobs(ds, s.v))
          /\ s.at \in 1..Len(Jobs(ds, s.v)[s.job].table)
          /\ s.att = Jobs(ds, s.v)[s.job].table[s.at]
      BY <1>2, SiteIs DEF S, SiteAt
    <3>2. IsTable(Jobs(ds, s.v)[s.job].table)
      BY <1>2, <3>1, JobsAre
    <3>3. QED
      BY <3>1, <3>2, TableIs DEF IsTable
  <2>3. QED
    BY <2>1, <2>2, StoredIs
<1>8. QED
  BY <1>6, <1>7, Zenon DEF Flattened, S, O, N

(* For every response whose tables are in the order of the recursion, the  *)
(* file has its attributes, original names and notes, all of them and      *)
(* nothing else, and values that fit survive (FONcAttributes.cc:46-66).    *)
THEOREM AttributesFlattened == Spec => []Flattened
<1> DEFINE Inv == CtlInv /\ KeptInv
<1>1. Init => Inv
  BY CtlInit, KeptInit
<1>2. Inv /\ [Next]_vars => Inv'
  BY CtlNext, KeptNext
<1>3. Inv => Flattened
  BY FlattenedAtEnd
<1> HIDE DEF Inv
<1>4. QED
  BY <1>1, <1>2, <1>3, PTL DEF Spec

---------------------------------------------------------------------------
(* Two tables with the same names in the same places, and two responses    *)
(* that have such tables for a variable.                                   *)
LikeTable(t, u) ==
  /\ Len(u) = Len(t) /\ DOMAIN u = DOMAIN t
  /\ \A i \in DOMAIN t :
       /\ u[i].name = t[i].name /\ u[i].in = t[i].in
       /\ u[i].type = "Container" <=> t[i].type = "Container"
       /\ u[i].vals = << >> <=> t[i].vals = << >>
LikeJobs(d, e, v) ==
  /\ Len(e.vars) = Len(d.vars) /\ (v \in Elided(e) <=> v \in Elided(d))
  /\ Len(Jobs(e, v)) = Len(Jobs(d, v))
  /\ \A k \in 1..Len(Jobs(d, v)) : /\ LikeTable(Jobs(d, v)[k].table, Jobs(e, v)[k].table)
                                   /\ Jobs(e, v)[k].prefix = Jobs(d, v)[k].prefix

LEMMA PathsLike ==
  ASSUME NEW t, IsTable(t), NEW u, IsTable(u), LikeTable(t, u), NEW p, NEW g
  PROVE  \A i \in 0..Len(t) : Paths(u, p, g)[i] = Paths(t, p, g)[i]
<1> DEFINE P == Paths(t, p, g)
           Q == Paths(u, p, g)
           Bad == {i \in 0..Len(t) : Q[i] # P[i]}
<1>1. /\ Len(t) \in Nat /\ DOMAIN t = 1..Len(t) /\ DOMAIN u = 1..Len(t)
      /\ \A i \in 1..Len(t) : t[i].in \in 0..(i - 1)
  BY TableIs DEF LikeTable
<1>2. P[0] = p /\ \A i \in 1..Len(t) : P[i] = NewName(P[t[i].in], t[i], g)
  BY <1>1, PathsAre
<1>3. Q[0] = p /\ \A i \in 1..Len(t) : Q[i] = NewName(Q[u[i].in], u[i], g)
  BY <1>1, PathsAre
<1> HIDE DEF P, Q
<1>4. SUFFICES ASSUME Bad # {} PROVE FALSE
  BY DEF P, Q
<1>5. PICK m \in Bad : \A k \in Bad : m <= k
  <2>1. Bad \subseteq Nat
    BY <1>1
  <2> HIDE DEF Bad
  <2>2. QED
    BY <1>4, <2>1, LeastNat
<1>6. m \in 1..Len(t)
  BY <1>1, <1>2, <1>3, <1>5
<1>7. t[m].in \in 0..(m - 1) /\ t[m].in \in 0..Len(t) /\ t[m].in < m
  BY <1>1, <1>6
<1>8. Q[t[m].in] = P[t[m].in]
  BY <1>1, <1>5, <1>6, <1>7
<1>9. u[m].name = t[m].name /\ u[m].in = t[m].in /\ (u[m].type = "Container" <=> t[m].type = "Container")
  BY <1>1, <1>6 DEF LikeTable
<1>10. Q[m] = P[m]
  <2>1. NewName(P[t[m].in], u[m], g) = NewName(P[t[m].in], t[m], g)
    BY <1>9 DEF NewName
  <2>2. QED
    BY <1>2, <1>3, <1>6, <1>8, <1>9, <2>1
<1>11. QED
  BY <1>5, <1>10

LEMMA SitesLike ==
  ASSUME NEW d, IsDataset(d), NEW e, IsDataset(e), NEW v \in 1..(Len(d.vars) + 1),
         LikeJobs(d, e, v), NEW s \in Sites(e), s.v = v
  PROVE  /\ SiteAt(d, v, s.job, s.at) \in Sites(d)
         /\ SiteAt(d, v, s.job, s.at).name = s.name /\ SiteAt(d, v, s.job, s.at).target = s.target
         /\ s.job \in 1..Len(Jobs(d, v)) /\ s.at \in 1..Len(Jobs(d, v)[s.job].table)
<1> DEFINE k == s.job  i == s.at
           t == Jobs(d, v)[k].table  u == Jobs(e, v)[k].table
           p == Jobs(d, v)[k].prefix  g == v > Len(d.vars)
<1>1. /\ v \notin Elided(e) /\ k \in 1..Len(Jobs(e, v)) /\ i \in Valued(u) /\ s = SiteAt(e, v, k, i)
      /\ i \in 1..Len(u)
  BY SiteIs
<1>2. /\ v \notin Elided(d) /\ k \in 1..Len(Jobs(d, v)) /\ LikeTable(t, u) /\ Jobs(e, v)[k].prefix = p
      /\ Len(e.vars) = Len(d.vars)
  BY <1>1 DEF LikeJobs
<1>3. IsTable(t) /\ IsTable(u) /\ DOMAIN Jobs(d, v) = 1..Len(Jobs(d, v))
  BY <1>1, <1>2, JobsAre
<1>4. DOMAIN t = 1..Len(t) /\ i \in DOMAIN t /\ i \in 0..Len(t) /\ i \in 1..Len(t)
  BY <1>1, <1>2, <1>3, TableIs DEF LikeTable
<1>5. i \in Valued(t)
  BY <1>1, <1>2, <1>4 DEF Valued, LikeTable
<1>6. Paths(u, p, g)[i] = Paths(t, p, g)[i]
  BY <1>2, <1>3, <1>4, PathsLike
<1>7. SiteAt(d, v, k, i) \in Sites(d)
  BY <1>2, <1>3, <1>5, SiteIn
<1>8. SiteAt(d, v, k, i).name = SiteAt(e, v, k, i).name
  BY <1>2, <1>6 DEF SiteAt
<1>9. SiteAt(d, v, k, i).target = SiteAt(e, v, k, i).target
  BY <1>2 DEF SiteAt
<1>10. QED
  BY <1>1, <1>2, <1>4, <1>7, <1>8, <1>9

(* The tables of a variable: those of its parents, then its own.           *)
LEMMA JobsOf ==
  ASSUME NEW d, IsDataset(d), NEW v \in 1..Len(d.vars)
  PROVE  /\ Len(d.vars[v].parents) \in Nat
         /\ Len(Jobs(d, v)) = Len(d.vars[v].parents) + 1
         /\ \A k \in 1..Len(d.vars[v].parents) :
              Jobs(d, v)[k] = [table |-> d.vars[v].parents[k].table,
                               prefix |-> EmbName(d.vars[v].parents)[k]]
         /\ Jobs(d, v)[Len(d.vars[v].parents) + 1] = [table |-> d.vars[v].table, prefix |-> << >>]
<1> DEFINE x == d.vars[v]
           J == [k \in DOMAIN x.parents |->
                   [table |-> x.parents[k].table, prefix |-> EmbName(x.parents)[k]]]
           own == [table |-> x.table, prefix |-> << >>]
<1>1. Len(d.vars) \in Nat /\ DOMAIN d.vars = 1..Len(d.vars) /\ IsVariable(x)
  BY SequenceIs DEF IsDataset
<1>2. Jobs(d, v) = Append(J, own)
  <2>1. ~(v > Len(d.vars))
    BY <1>1
  <2>2. QED
    BY <2>1 DEF Jobs
<1>3. Len(x.parents) \in Nat /\ DOMAIN x.parents = 1..Len(x.parents)
  BY <1>1, SequenceIs DEF IsVariable
<1>4. J = [k \in 1..Len(x.parents) |-> J[k]]
  BY <1>3
<1>5. \A k \in 1..Len(x.parents) : J[k] = [table |-> x.parents[k].table, prefix |-> EmbName(x.parents)[k]]
  BY <1>3
<1> HIDE DEF J
<1>6. IsSequence(J) /\ Len(J) = Len(x.parents) /\ DOMAIN J = 1..Len(x.parents)
  BY <1>3, <1>4, IsSequenceOf
<1> HIDE DEF own
<1>7. /\ Len(Append(J, own)) = Len(J) + 1
      /\ \A k \in 1..Len(J) : Append(J, own)[k] = J[k]
      /\ Append(J, own)[Len(J) + 1] = own
  <2>1. J \in Seq({J[k] : k \in DOMAIN J} \cup {own})
    BY <1>6, SeqWider DEF IsSequence
  <2>2. QED
    BY <2>1, AppendProperties
<1>8. QED
  BY <1>2, <1>3, <1>5, <1>6, <1>7 DEF own

---------------------------------------------------------------------------
(* The response is what was asked but for the fill values of arrays that   *)
(* are behind the loop, and the history.                                   *)
Wide(x) ==
  IF x.kind = "Array" /\ get_nc_type(x.type) = "SHORT"
  THEN [x EXCEPT !.table = Widened(x.table)] ELSE x
AskedInv ==
  /\ pc # "idle" => asked \in Datasets
  /\ pc = "history" => ds = asked
  /\ pc \in {"history", "define", "table", "done"} =>
       /\ Len(ds.vars) = Len(asked.vars)
       /\ \A v \in 1..Len(asked.vars) :
            ds.vars[v] = IF v < vi \/ (v = vi /\ pc = "table")
                         THEN Wide(asked.vars[v]) ELSE asked.vars[v]

LEMMA FillIsWide ==
  ASSUME Legal, vi \in 1..Len(ds.vars), CurVar.kind = "Array", WidenFill
  PROVE  ds'.vars[vi] = Wide(ds.vars[vi])
<1>1. DOMAIN ds.vars = 1..Len(ds.vars) /\ ds = [globals |-> ds.globals, vars |-> ds.vars]
  BY SequenceIs DEF Legal, IsDataset
<1>2. CASE get_nc_type(CurVar.type) = "SHORT"
  <2>1. ds' = [ds EXCEPT !.vars[vi].table =
              [k \in DOMAIN @ |->
                 IF @[k].in = 0 /\ @[k].name = FillValue /\ @[k].type = "Byte"
                 THEN [@[k] EXCEPT !.type = "Int16"] ELSE @[k]]]
    BY <1>2 DEF WidenFill
  <2>2. ds' = [ds EXCEPT !.vars[vi].table = Widened(CurVar.table)]
    BY <2>1 DEF CurVar, Widened
  <2>3. ds'.vars[vi] = [ds.vars[vi] EXCEPT !.table = Widened(CurVar.table)]
    BY <1>1, <2>2
  <2>4. QED
    BY <1>2, <2>3 DEF Wide, CurVar
<1>3. CASE get_nc_type(CurVar.type) # "SHORT"
  BY <1>3 DEF WidenFill, Wide, CurVar
<1>4. QED
  BY <1>2, <1>3

LEMMA AskedNext ==
  ASSUME CtlInv, AskedInv, [Next]_vars
  PROVE  AskedInv'
<1>1. /\ vi \in 1..(Len(ds.vars) + 1) /\ Len(ds.vars) \in Nat /\ DOMAIN ds.vars = 1..Len(ds.vars)
  BY SequenceIs DEF CtlInv, Placed, Legal, IsDataset
<1>2. CASE \E d \in Datasets : Begin(d)
  <2>1. PICK d \in Datasets : Begin(d)
    BY <1>2
  <2>2. asked' = d /\ ds' = d /\ pc' = "history" /\ vi' = 1
    BY <2>1 DEF Begin
  <2>3. Len(d.vars) \in Nat
    BY DatasetsAssumption, SequenceIs DEF IsDataset
  <2>4. \A v \in 1..Len(d.vars) : ~(v < 1)
    BY <2>3
  <2>5. QED
    BY <2>2, <2>4 DEF AskedInv
<1>3. CASE UpdateHistory
  <2>1. /\ pc = "history" /\ ds = asked /\ ds'.vars = ds.vars /\ asked' = asked /\ vi' = vi
        /\ pc' \in {"define", "failed"} /\ vi = 1
    BY <1>3, HistoryAdded DEF UpdateHistory, CtlInv, Placed, AskedInv
  <2>2. \A v \in 1..Len(asked.vars) : ~(v < 1)
    BY <1>1, <2>1
  <2>3. QED
    BY <2>1, <2>2 DEF AskedInv
<1>4. CASE DefineArray
  <2>1. /\ pc = "define" /\ vi \in 1..Len(ds.vars) /\ CurVar.kind = "Array" /\ WidenFill
        /\ pc' = "table" /\ vi' = vi /\ asked' = asked
    BY <1>1, <1>4 DEF DefineArray, Globally, OpenTable
  <2>2. SameBut(ds, ds', vi) /\ ds'.vars[vi] = Wide(ds.vars[vi])
    BY <2>1, FillWidened, FillIsWide DEF CtlInv
  <2>3. /\ Len(ds.vars) = Len(asked.vars) /\ asked \in Datasets
        /\ \A v \in 1..Len(asked.vars) :
             ds.vars[v] = IF v < vi THEN Wide(asked.vars[v]) ELSE asked.vars[v]
    BY <2>1 DEF AskedInv
  <2>4. ASSUME NEW v \in 1..Len(asked.vars)
        PROVE  ds'.vars[v] = IF v < vi \/ v = vi THEN Wide(asked.vars[v]) ELSE asked.vars[v]
    <3>1. CASE v = vi
      BY <1>1, <2>2, <2>3, <3>1
    <3>2. CASE v # vi
      BY <1>1, <2>2, <2>3, <3>2 DEF SameBut
    <3>3. QED
      BY <3>1, <3>2
  <2>5. Len(ds'.vars) = Len(ds.vars)
    BY <2>2 DEF SameBut
  <2>6. QED
    BY <2>1, <2>3, <2>4, <2>5 DEF AskedInv
<1>5. ASSUME UNCHANGED <<asked, ds>>, pc = "define", vi \in 1..Len(ds.vars),
             ds.vars[vi].kind # "Array",
             \/ pc' = "table" /\ vi' = vi
             \/ pc' = "define" /\ vi' = vi + 1
      PROVE  AskedInv'
  <2>1. /\ Len(ds.vars) = Len(asked.vars) /\ asked \in Datasets
        /\ \A v \in 1..Len(asked.vars) :
             ds.vars[v] = IF v < vi THEN Wide(asked.vars[v]) ELSE asked.vars[v]
    BY <1>5 DEF AskedInv
  <2>2. Wide(asked.vars[vi]) = asked.vars[vi]
    BY <1>1, <1>5, <2>1 DEF Wide
  <2>3. ASSUME NEW v \in 1..Len(asked.vars)
        PROVE  ds.vars[v] = IF v < vi \/ v = vi THEN Wide(asked.vars[v]) ELSE asked.vars[v]
    BY <1>1, <2>1, <2>2
  <2>4. \A v \in 1..Len(asked.vars) : (v < vi \/ v = vi) <=> v < vi + 1
    BY <1>1, <1>5, <2>1
  <2>5. CASE pc' = "table" /\ vi' = vi
    BY <1>5, <2>1, <2>3, <2>5 DEF AskedInv
  <2>6. CASE pc' = "define" /\ vi' = vi + 1
    BY <1>5, <2>1, <2>3, <2>4, <2>6 DEF AskedInv
  <2>7. QED
    BY <1>5, <2>5, <2>6
<1>6. CASE DefineSimple
  <2>1. /\ UNCHANGED <<asked, ds>> /\ pc = "define" /\ vi \in 1..Len(ds.vars)
        /\ ds.vars[vi].kind # "Array" /\ pc' = "table" /\ vi' = vi
    BY <1>1, <1>6 DEF DefineSimple, OpenTable, Globally, CurVar
  <2>2. QED
    BY <1>5, <2>1
<1>7. CASE DefineSequence
  <2>1. /\ UNCHANGED <<asked, ds>> /\ pc = "define" /\ vi \in 1..Len(ds.vars)
        /\ ds.vars[vi].kind # "Array" /\ pc' = "define" /\ vi' = vi + 1
    BY <1>1, <1>7 DEF DefineSequence, Globally, CurVar
  <2>2. QED
    BY <1>5, <2>1
<1>8. CASE AddGlobals
  <2>1. /\ UNCHANGED <<asked, ds>> /\ pc = "define" /\ vi > Len(ds.vars) /\ pc' = "table" /\ vi' = vi
    BY <1>8 DEF AddGlobals, OpenTable, Globally
  <2>2. Len(ds.vars) = Len(asked.vars)
    BY <2>1 DEF AskedInv
  <2>3. \A v \in 1..Len(asked.vars) : v < vi
    BY <1>1, <2>1, <2>2
  <2>4. QED
    BY <2>1, <2>3 DEF AskedInv
<1>9. CASE SkipEmpty \/ EnterContainer \/ WriteAttribute \/ NextTable
  <2>1. UNCHANGED <<asked, ds, pc, vi>>
    BY <1>9 DEF SkipEmpty, EnterContainer, WriteAttribute, NextTable, OpenTable
  <2>2. QED
    BY <2>1 DEF AskedInv
<1>10. CASE AddOriginalName
  <2>1. /\ UNCHANGED <<asked, ds>> /\ pc = "table" /\ vi \in 1..Len(ds.vars)
        /\ pc' = "define" /\ vi' = vi + 1
    BY <1>1, <1>10 DEF AddOriginalName, Globally
  <2>2. Len(ds.vars) = Len(asked.vars)
    BY <2>1 DEF AskedInv
  <2>3. \A v \in 1..Len(asked.vars) : (v < vi \/ (v = vi /\ pc = "table")) <=> v < vi + 1
    BY <1>1, <2>1, <2>2
  <2>4. QED
    BY <2>1, <2>3 DEF AskedInv
<1>11. CASE EndDefine
  <2>1. UNCHANGED <<asked, ds, vi>> /\ pc = "table" /\ pc' = "done" /\ vi > Len(ds.vars)
    BY <1>11 DEF EndDefine, Globally, Stop
  <2>2. Len(ds.vars) = Len(asked.vars)
    BY <2>1 DEF AskedInv
  <2>3. \A v \in 1..Len(asked.vars) : v < vi
    BY <1>1, <2>1, <2>2
  <2>4. QED
    BY <2>1, <2>3 DEF AskedInv
<1>12. CASE PutFails
  <2>1. UNCHANGED asked /\ pc # "idle" /\ pc' = "failed"
    BY <1>12 DEF PutFails, Stop, InTable
  <2>2. QED
    BY <2>1 DEF AskedInv
<1>13. CASE Finish
  BY <1>13 DEF Finish, Stop, AskedInv
<1>14. CASE UNCHANGED vars
  BY <1>14 DEF vars, AskedInv
<1>15. QED
  BY <1>2, <1>3, <1>4, <1>6, <1>7, <1>8, <1>9, <1>10, <1>11, <1>12, <1>13, <1>14 DEF Next

(* Widening keeps the names and places.                                    *)
LEMMA WidenedLike ==
  ASSUME NEW t, IsTable(t)
  PROVE  LikeTable(t, Widened(t))
<1> DEFINE u == Widened(t)
<1>1. u = [k \in DOMAIN t |-> u[k]] /\ DOMAIN t = 1..Len(t) /\ Len(t) \in Nat
  BY TableIs DEF Widened
<1>2. ASSUME NEW i \in DOMAIN t
      PROVE  /\ u[i].name = t[i].name /\ u[i].in = t[i].in /\ u[i].vals = t[i].vals
             /\ u[i].type = "Container" <=> t[i].type = "Container"
  <2>1. u[i] = IF t[i].in = 0 /\ t[i].name = FillValue /\ t[i].type = "Byte"
               THEN [t[i] EXCEPT !.type = "Int16"] ELSE t[i]
    BY DEF Widened
  <2>2. t[i] = [name |-> t[i].name, type |-> t[i].type, vals |-> t[i].vals, in |-> t[i].in]
    BY TableIs
  <2> HIDE DEF u
  <2>3. CASE t[i].in = 0 /\ t[i].name = FillValue /\ t[i].type = "Byte"
    BY <2>1, <2>2, <2>3
  <2>4. CASE ~(t[i].in = 0 /\ t[i].name = FillValue /\ t[i].type = "Byte")
    BY <2>1, <2>4
  <2>5. QED
    BY <2>3, <2>4
<1> HIDE DEF u
<1>3. u = [k \in 1..Len(t) |-> u[k]]
  BY <1>1
<1>4. Len(u) = Len(t) /\ DOMAIN u = DOMAIN t
  BY <1>1, <1>3, IsSequenceOf
<1>5. LikeTable(t, u)
  BY <1>2, <1>4 DEF LikeTable
<1>6. QED
  BY <1>5 DEF u

LEMMA SameLike ==
  ASSUME NEW t
  PROVE  LikeTable(t, t)
BY DEF LikeTable

(* The jobs of a variable of e, with no other response about.              *)
JobsListed(e, v) ==
  /\ Len(Jobs(e, v)) = Len(e.vars[v].parents) + 1
  /\ \A k \in 1..Len(e.vars[v].parents) :
       Jobs(e, v)[k] = [table |-> e.vars[v].parents[k].table,
                        prefix |-> EmbName(e.vars[v].parents)[k]]
  /\ Jobs(e, v)[Len(e.vars[v].parents) + 1] = [table |-> e.vars[v].table, prefix |-> << >>]
LEMMA JobsKnown ==
  ASSUME NEW e, IsDataset(e), NEW v \in 1..Len(e.vars)
  PROVE  JobsListed(e, v)
BY JobsOf DEF JobsListed

LEMMA WideLike ==
  ASSUME NEW d, IsDataset(d), NEW e, IsDataset(e), Len(e.vars) = Len(d.vars),
         NEW v \in 1..Len(d.vars), e.vars[v] = Wide(d.vars[v])
  PROVE  LikeJobs(d, e, v)
<1>0. JobsListed(e, v)
  <2>1. v \in 1..Len(e.vars)
    OBVIOUS
  <2>2. QED
    BY <2>1, JobsKnown
<1> DEFINE x == d.vars[v]  y == e.vars[v]  n == Len(x.parents)
<1>1. /\ Len(d.vars) \in Nat /\ DOMAIN d.vars = 1..Len(d.vars) /\ DOMAIN e.vars = 1..Len(d.vars)
      /\ IsVariable(x)
  BY SequenceIs DEF IsDataset
<1>2. /\ y.kind = x.kind /\ y.parents = x.parents
      /\ y.table = x.table \/ y.table = Widened(x.table)
  <2>1. x = [kind |-> x.kind, name |-> x.name, type |-> x.type, embed |-> x.embed,
             parents |-> x.parents, table |-> x.table]
    BY <1>1 DEF IsVariable
  <2>2. y = x \/ y = [x EXCEPT !.table = Widened(x.table)]
    BY DEF Wide
  <2> HIDE DEF x, y
  <2>3. QED
    BY <2>1, <2>2
<1>3. v \in Elided(e) <=> v \in Elided(d)
  BY <1>1, <1>2 DEF Elided
<1>4. /\ n \in Nat /\ Len(Jobs(d, v)) = n + 1
      /\ \A k \in 1..n : Jobs(d, v)[k] = [table |-> x.parents[k].table, prefix |-> EmbName(x.parents)[k]]
      /\ Jobs(d, v)[n + 1] = [table |-> x.table, prefix |-> << >>]
  BY JobsOf
<1>5. /\ Len(Jobs(e, v)) = n + 1
      /\ \A k \in 1..n : Jobs(e, v)[k] = [table |-> x.parents[k].table, prefix |-> EmbName(x.parents)[k]]
      /\ Jobs(e, v)[n + 1] = [table |-> y.table, prefix |-> << >>]
  <2>2. /\ Len(Jobs(e, v)) = Len(y.parents) + 1
        /\ \A k \in 1..Len(y.parents) :
             Jobs(e, v)[k] = [table |-> y.parents[k].table, prefix |-> EmbName(y.parents)[k]]
        /\ Jobs(e, v)[Len(y.parents) + 1] = [table |-> y.table, prefix |-> << >>]
    BY <1>0, Zenon DEF y, JobsListed
  <2> HIDE DEF x, y
  <2>3. QED
    BY <1>2, <2>2
<1>6. LikeTable(x.table, y.table)
  <2>1. IsTable(x.table)
    BY <1>1 DEF IsVariable
  <2>2. QED
    BY <1>2, <2>1, WidenedLike, SameLike
<1> HIDE DEF x, y
<1>7. ASSUME NEW k \in 1..(n + 1)
      PROVE  /\ LikeTable(Jobs(d, v)[k].table, Jobs(e, v)[k].table)
             /\ Jobs(e, v)[k].prefix = Jobs(d, v)[k].prefix
  <2>1. CASE k \in 1..n
    <3>1. Jobs(e, v)[k] = Jobs(d, v)[k]
      BY <1>4, <1>5, <2>1
    <3>2. QED
      BY <3>1, SameLike
  <2>2. CASE k = n + 1
    BY <1>4, <1>5, <1>6, <2>2
  <2>3. QED
    BY <1>4, <2>1, <2>2
<1> HIDE DEF n
<1>8. QED
  BY <1>3, <1>4, <1>5, <1>7 DEF LikeJobs

---------------------------------------------------------------------------
LEMMA OneToken ==
  ASSUME NEW c \in Token, Prefixed[c] = c
  PROVE  id2netcdf(<<c>>) = <<c>>
<1>1. DOMAIN <<c>> = 1..1 /\ <<c>>[1] = c /\ <<c>> = [k \in 1..1 |-> c]
  OBVIOUS
<1>2. id2netcdf(<<c>>) = [k \in 1..1 |-> IF k = 1 THEN Prefixed[<<c>>[k]] ELSE Clean[<<c>>[k]]]
  BY <1>1 DEF id2netcdf
<1>3. \A k \in 1..1 : k = 1
  OBVIOUS
<1>4. id2netcdf(<<c>>) = [k \in 1..1 |-> c]
  BY <1>1, <1>2, <1>3
<1>5. QED
  BY <1>1, <1>4

LEMMA FillAtEnd ==
  ASSUME FillsAlone, CtlInv, KeptInv, AskedInv
  PROVE  FillMatches
<1>1. SUFFICES ASSUME pc = "done", NEW v \in DOMAIN asked.vars, asked.vars[v].kind = "Array",
                      NEW F, F = {i \in DOMAIN asked.vars[v].table :
                                    /\ asked.vars[v].table[i].in = 0
                                    /\ asked.vars[v].table[i].name = FillValue},
                      F # {},
                      \A i \in F : /\ asked.vars[v].table[i].type = asked.vars[v].type
                                   /\ asked.vars[v].table[i].vals # << >>
               PROVE  atts[<<v, FillValue>>].type = get_nc_type(asked.vars[v].type)
  BY DEF FillMatches
<1> DEFINE x == asked.vars[v]  y == ds.vars[v]  t == x.table  n == Len(x.parents)
<1>2. /\ asked \in Datasets /\ IsDataset(asked) /\ IsDataset(ds) /\ Len(ds.vars) = Len(asked.vars)
      /\ v \in 1..Len(asked.vars) /\ Len(asked.vars) \in Nat /\ IsVariable(x)
      /\ y = Wide(x)
  <2>1. /\ IsDataset(asked) /\ IsDataset(ds) /\ Globally
        /\ vi \in 1..(Len(ds.vars) + 1) /\ Len(asked.vars) \in Nat
        /\ DOMAIN asked.vars = 1..Len(asked.vars)
    BY <1>1, SequenceIs DEF CtlInv, Legal, Placed, IsDataset
  <2>2. Len(ds.vars) = Len(asked.vars) /\ asked \in Datasets
    BY <1>1 DEF AskedInv
  <2>3. v \in 1..Len(asked.vars) /\ v < vi
    BY <2>1, <2>2 DEF Globally
  <2>4. y = Wide(x)
    BY <1>1, <2>3 DEF AskedInv
  <2>5. IsVariable(x)
    BY <2>1 DEF IsDataset
  <2>6. QED
    BY <2>1, <2>2, <2>3, <2>4, <2>5
<1>3. IsTable(t) /\ Len(t) \in Nat /\ DOMAIN t = 1..Len(t)
  BY <1>2, TableIs DEF IsVariable
<1>4. LikeJobs(asked, ds, v)
  BY <1>2, WideLike
<1>5. n \in Nat /\ Len(Jobs(asked, v)) = n + 1 /\ Jobs(asked, v)[n + 1] = [table |-> t, prefix |-> << >>]
  BY <1>2, JobsOf
<1>6. Len(Jobs(ds, v)) = n + 1 /\ Jobs(ds, v)[n + 1] = [table |-> y.table, prefix |-> << >>]
  <2>1. y.parents = x.parents
    <3>1. x = [kind |-> x.kind, name |-> x.name, type |-> x.type, embed |-> x.embed,
               parents |-> x.parents, table |-> x.table]
      BY <1>2 DEF IsVariable
    <3> HIDE DEF x, y
    <3>2. QED
      BY <1>2, <3>1 DEF Wide
  <2>2. v \in 1..Len(ds.vars)
    BY <1>2
  <2> HIDE DEF x, y, n
  <2>3. /\ Len(Jobs(ds, v)) = Len(ds.vars[v].parents) + 1
        /\ Jobs(ds, v)[Len(ds.vars[v].parents) + 1] = [table |-> ds.vars[v].table, prefix |-> << >>]
    BY <1>2, <2>2, JobsOf
  <2>4. QED
    BY <2>1, <2>3, Zenon DEF y, n
<1>7. PICK i \in F : \A k \in F : k <= i
  <2>1. F \subseteq Nat /\ \A k \in F : k <= Len(t)
    BY <1>1, <1>3
  <2>2. QED
    BY <1>1, <1>3, <2>1, GreatestNat
<1>8. /\ i \in 1..Len(t) /\ t[i].in = 0 /\ t[i].name = FillValue
      /\ t[i].type = x.type /\ t[i].vals # << >>
  BY <1>1, <1>3, <1>7
<1>9. x.type \in DapTypes \ {"Url"}
  BY <1>1, <1>2 DEF IsVariable, FillsAlone
<1>10. LikeTable(t, y.table) /\ IsTable(y.table)
  <2>1. n + 1 \in 1..(n + 1)
    BY <1>5
  <2>2. LikeTable(Jobs(asked, v)[n + 1].table, Jobs(ds, v)[n + 1].table)
    BY <1>4, <1>5, <2>1 DEF LikeJobs
  <2>3. v \in 1..(Len(ds.vars) + 1)
    BY <1>2
  <2>4. IsTable(Jobs(ds, v)[n + 1].table)
    BY <1>2, <1>6, <2>1, <2>3, JobsAre
  <2>5. QED
    BY <1>5, <1>6, <2>2, <2>4
<1> DEFINE u == SiteAt(ds, v, n + 1, i)
<1>11. u \in Sites(ds)
  <2>1. i \in Valued(y.table)
    BY <1>3, <1>8, <1>9, <1>10 DEF Valued, LikeTable, DapTypes
  <2>2. DOMAIN Jobs(ds, v) = 1..(n + 1) /\ v \in 1..(Len(ds.vars) + 1) /\ n + 1 \in 1..(n + 1)
    BY <1>2, <1>5, <1>6, JobsAre
  <2>3. v \notin Elided(ds)
    BY <1>1, <1>2, <1>4 DEF LikeJobs, Elided
  <2>4. QED
    BY <1>6, <2>1, <2>2, <2>3, SiteIn
<1>12. u.target = v /\ u.v = v /\ u.job = n + 1 /\ u.at = i /\ u.att = y.table[i] /\ u.name = FillValue
  <2>1. ~(v > Len(ds.vars))
    BY <1>2
  <2>2. u.target = v /\ u.v = v /\ u.job = n + 1 /\ u.at = i /\ u.att = y.table[i]
        /\ u.name = id2netcdf(Paths(y.table, << >>, v > Len(ds.vars))[i])
    BY <1>6, <2>1 DEF SiteAt
  <2>3. Paths(y.table, << >>, v > Len(ds.vars))[i] = FillValue
    <3>1. i \in DOMAIN y.table /\ y.table[i].in = 0 /\ y.table[i].name = FillValue
      BY <1>3, <1>8, <1>10 DEF LikeTable
    <3>2. Paths(y.table, << >>, v > Len(ds.vars))[i] = NewName(<< >>, y.table[i], v > Len(ds.vars))
      BY <1>10, <3>1, PathsAre
    <3>3. QED
      BY <2>1, <3>1, <3>2 DEF NewName
  <2>4. id2netcdf(FillValue) = FillValue
    BY OneToken, NamesAssumption DEF FillValue, FillsAlone
  <2>5. QED
    BY <2>2, <2>3, <2>4
<1> HIDE DEF u
<1>13. ASSUME NEW w \in Sites(ds), Before(u, w), Clash(u, w) PROVE FALSE
  <2>1. w.target = v /\ w.name = FillValue
    BY <1>12, <1>13 DEF Clash
  <2>2. w.v \in 1..(Len(ds.vars) + 1) /\ w = SiteAt(ds, w.v, w.job, w.at)
    BY <1>2, SiteIs
  <2>3. w.target = IF w.v > Len(ds.vars) THEN NC_GLOBAL ELSE w.v
    BY <2>2 DEF SiteAt
  <2>4. w.v = v
    BY <1>2, <2>1, <2>3 DEF NC_GLOBAL
  <2> DEFINE z == SiteAt(asked, v, w.job, w.at)
  <2>5. /\ z \in Sites(asked) /\ z.name = FillValue /\ w.job \in 1..(n + 1)
        /\ w.at \in 1..Len(Jobs(asked, v)[w.job].table)
    <3>1. v \in 1..(Len(asked.vars) + 1)
      BY <1>2
    <3>2. QED
      BY <1>2, <1>4, <1>5, <2>1, <2>4, <3>1, SitesLike
  <2>6. z.v = v /\ z.job = w.job /\ z.att = Jobs(asked, v)[w.job].table[w.at]
    BY DEF SiteAt
  <2> HIDE DEF z
  <2>7. z.job = n + 1 /\ z.att.in = 0 /\ z.att.name = FillValue
    BY <1>1, <1>2, <1>5, <2>5, <2>6 DEF FillsAlone
  <2>8. w.at \in F
    <3>1. w.job = n + 1 /\ Jobs(asked, v)[n + 1].table = t
      BY <1>5, <2>6, <2>7
    <3>2. w.at \in DOMAIN t /\ t[w.at].in = 0 /\ t[w.at].name = FillValue
      BY <1>3, <2>5, <2>6, <2>7, <3>1
    <3>3. QED
      BY <1>1, <3>2
  <2>9. w.at <= i /\ w.at \in Nat /\ i \in Nat
    BY <1>3, <1>7, <1>8, <1>5, <2>5, <2>6, <2>7, <2>8
  <2>10. ~(u.v < w.v) /\ ~(u.job < w.job) /\ ~(u.at < w.at)
    BY <1>2, <1>5, <1>12, <2>4, <2>6, <2>7, <2>9
  <2>11. QED
    BY <1>13, <2>10 DEF Before
<1>14. Faithful(atts[<<v, FillValue>>], y.table[i])
  <2> DEFINE O == {<<w, fonc_original_name>> :
                     w \in {z \in DOMAIN ds.vars \ Elided(ds) : Renamed(ds.vars[z])}}
  <2>1. \A s \in Sites(ds) :
           (\A w \in Sites(ds) : Before(s, w) => ~Clash(s, w)) /\ <<s.target, s.name>> \notin O
             => Faithful(atts[<<s.target, s.name>>], s.att)
    BY <1>1, FlattenedAtEnd, Zenon DEF Flattened
  <2>2. <<v, FillValue>> \notin O
    <3>1. FillValue # fonc_original_name
      BY DEF FillValue, fonc_original_name
    <3>2. QED
      BY <3>1
  <2> HIDE DEF O
  <2>3. \A w \in Sites(ds) : Before(u, w) => ~Clash(u, w)
    BY <1>13
  <2>4. Faithful(atts[<<u.target, u.name>>], u.att)
    BY <1>11, <1>12, <2>1, <2>2, <2>3
  <2>5. QED
    BY <1>12, <2>4
<1>15. y.table[i].type = IF get_nc_type(x.type) = "SHORT" /\ x.type = "Byte" THEN "Int16" ELSE x.type
  <2>1. y.table = IF get_nc_type(x.type) = "SHORT" THEN Widened(t) ELSE t
    <3>1. x = [kind |-> x.kind, name |-> x.name, type |-> x.type, embed |-> x.embed,
               parents |-> x.parents, table |-> x.table]
      BY <1>2 DEF IsVariable
    <3>2. x.kind = "Array"
      BY <1>1
    <3> HIDE DEF x, y
    <3>3. CASE get_nc_type(x.type) = "SHORT"
      BY <1>2, <3>1, <3>2, <3>3 DEF Wide
    <3>4. CASE get_nc_type(x.type) # "SHORT"
      BY <1>2, <3>4 DEF Wide
    <3>5. QED
      BY <3>3, <3>4
  <2>2. t[i] = [name |-> t[i].name, type |-> t[i].type, vals |-> t[i].vals, in |-> t[i].in]
    BY <1>3, <1>8, TableIs
  <2>3. Widened(t)[i].type = IF x.type = "Byte" THEN "Int16" ELSE x.type
    <3> HIDE DEF t, x
    <3>1. Widened(t)[i] = IF t[i].in = 0 /\ t[i].name = FillValue /\ t[i].type = "Byte"
                          THEN [t[i] EXCEPT !.type = "Int16"] ELSE t[i]
      BY <1>3, <1>8 DEF Widened
    <3>2. QED
      BY <1>8, <2>2, <3>1
  <2> HIDE DEF x, y, t
  <2>4. QED
    BY <1>8, <2>1, <2>3
<1>16. NcAttType(y.table[i].type) = get_nc_type(x.type)
  <2> HIDE DEF x, y
  <2>1. QED
    BY <1>9, <1>15 DEF NcAttType, get_nc_type, DapTypes
<1>17. QED
  BY <1>14, <1>16 DEF Faithful

(* If nothing else gets the name _FillValue: the fill value of an array    *)
(* has the type of the array in the file, an array of bytes that is        *)
(* written as shorts included (FONcArray.cc:322-335).                      *)
THEOREM FillTypesMatch ==
  ASSUME FillsAlone
  PROVE  Spec => []FillMatches
<1> DEFINE Inv == CtlInv /\ KeptInv /\ AskedInv
<1>1. Init => Inv
  BY CtlInit, KeptInit DEF Init, AskedInv
<1>2. Inv /\ [Next]_vars => Inv'
  BY CtlNext, KeptNext, AskedNext
<1>3. Inv => FillMatches
  BY FillAtEnd
<1> HIDE DEF Inv
<1>4. QED
  BY <1>1, <1>2, <1>3, PTL DEF Spec

---------------------------------------------------------------------------
(* The sites of global attributes.                                         *)
LEMMA GlobalJobs ==
  ASSUME NEW d, Len(d.vars) + 1 > Len(d.vars)
  PROVE  Jobs(d, Len(d.vars) + 1) = <<[table |-> d.globals, prefix |-> << >>]>>
BY DEF Jobs

LEMMA GlobalSite ==
  ASSUME NEW d, IsDataset(d)
  PROVE  /\ \A i \in Valued(d.globals) :
              /\ SiteAt(d, Len(d.vars) + 1, 1, i) \in Sites(d)
              /\ SiteAt(d, Len(d.vars) + 1, 1, i).target = NC_GLOBAL
              /\ SiteAt(d, Len(d.vars) + 1, 1, i).at = i
              /\ SiteAt(d, Len(d.vars) + 1, 1, i).att = d.globals[i]
              /\ SiteAt(d, Len(d.vars) + 1, 1, i).name = id2netcdf(Paths(d.globals, << >>, TRUE)[i])
         /\ \A s \in Sites(d) : s.target = NC_GLOBAL =>
              /\ s.v = Len(d.vars) + 1 /\ s.job = 1
              /\ s.at \in Valued(d.globals) /\ s = SiteAt(d, Len(d.vars) + 1, 1, s.at)
<1> DEFINE n == Len(d.vars) + 1
<1>1. Len(d.vars) \in Nat /\ DOMAIN d.vars = 1..Len(d.vars) /\ n > Len(d.vars) /\ n \in 1..(Len(d.vars) + 1)
  BY SequenceIs DEF IsDataset
<1>2. Jobs(d, n) = <<[table |-> d.globals, prefix |-> << >>]>>
  BY <1>1, GlobalJobs
<1>3. Jobs(d, n)[1].table = d.globals /\ Jobs(d, n)[1].prefix = << >> /\ DOMAIN Jobs(d, n) = {1}
      /\ Len(Jobs(d, n)) = 1
  BY <1>2
<1>4. n \notin Elided(d)
  BY <1>1 DEF Elided
<1>5. \A i : /\ SiteAt(d, n, 1, i).target = NC_GLOBAL /\ SiteAt(d, n, 1, i).at = i
             /\ SiteAt(d, n, 1, i).att = d.globals[i]
             /\ SiteAt(d, n, 1, i).name = id2netcdf(Paths(d.globals, << >>, TRUE)[i])
  <2>1. (n > Len(d.vars)) = TRUE
    BY <1>1
  <2> HIDE DEF n
  <2>2. QED
    BY <1>3, <2>1 DEF SiteAt
<1> HIDE DEF n
<1>6. ASSUME NEW i \in Valued(d.globals) PROVE SiteAt(d, n, 1, i) \in Sites(d)
  <2>1. 1 \in DOMAIN Jobs(d, n) /\ i \in Valued(Jobs(d, n)[1].table)
    BY <1>3
  <2>2. QED
    BY <1>1, <1>4, <2>1, SiteIn
<1>7. ASSUME NEW s \in Sites(d), s.target = NC_GLOBAL
      PROVE  s.v = n /\ s.job = 1 /\ s.at \in Valued(d.globals) /\ s = SiteAt(d, n, 1, s.at)
  <2>1. /\ s.v \in 1..(Len(d.vars) + 1) /\ s.job \in 1..Len(Jobs(d, s.v))
        /\ s.at \in Valued(Jobs(d, s.v)[s.job].table)
        /\ s = SiteAt(d, s.v, s.job, s.at)
    BY <1>7, SiteIs
  <2>2. s.target = IF s.v > Len(d.vars) THEN NC_GLOBAL ELSE s.v
    BY <2>1 DEF SiteAt
  <2>3. s.v = n
    BY <1>1, <1>7, <2>1, <2>2 DEF NC_GLOBAL, n
  <2>4. s.job = 1
    <3>1. s.job \in 1..Len(Jobs(d, n))
      BY <2>1, <2>3
    <3>2. QED
      BY <1>3, <3>1
  <2>5. QED
    BY <1>3, <2>1, <2>3, <2>4
<1>8. QED
  BY <1>5, <1>6, <1>7 DEF n

(* A history of the response that the program looks for gets that name in  *)
(* the file, and no other one right below a container does.                *)
LEMMA HistoryName ==
  ASSUME HistoriesAlone, NEW d \in Datasets, NEW i \in DOMAIN d.globals, d.globals[i].name = history
  PROVE  /\ d.globals[i].in = 0 => id2netcdf(Paths(d.globals, << >>, TRUE)[i]) = history
         /\ d.globals[i].in # 0 /\ d.globals[d.globals[i].in].in = 0 =>
              (id2netcdf(Paths(d.globals, << >>, TRUE)[i]) = history
                 <=> d.globals[d.globals[i].in].name \in GlobalNames)
<1> DEFINE t == d.globals  P == Paths(t, << >>, TRUE)  c == t[i].in
<1>1. IsTable(t) /\ DOMAIN t = 1..Len(t) /\ Len(t) \in Nat /\ c \in 0..(i - 1)
  BY DatasetsAssumption, TableIs DEF IsDataset
<1>2. P[0] = << >> /\ \A k \in DOMAIN t : P[k] = NewName(P[t[k].in], t[k], TRUE)
  <2> HIDE DEF t, c
  <2>1. \A g : /\ Paths(t, << >>, g)[0] = << >>
              /\ \A k \in DOMAIN t :
                   Paths(t, << >>, g)[k] = NewName(Paths(t, << >>, g)[t[k].in], t[k], g)
    BY <1>1, PathsAre
  <2>2. QED
    BY <2>1, Zenon DEF P
<1>3. t[i].type # "Container"
  BY DEF HistoriesAlone, Valued
<1>4. id2netcdf(history) = history
  BY OneToken, NamesAssumption DEF history, HistoriesAlone
<1> HIDE DEF P
<1>5. P[c] = << >> => P[i] = history
  BY <1>2, <1>3 DEF NewName
<1>6. CASE c = 0
  BY <1>2, <1>4, <1>5, <1>6 DEF P
<1>7. CASE c # 0 /\ t[c].in = 0
  <2>1. c \in DOMAIN t /\ t[c].type = "Container" /\ t[c].name # << >> /\ IsEntry(t[c])
    BY <1>1, <1>7 DEF IsTable, HistoriesAlone
  <2>2. P[c] = IF t[c].name \in GlobalNames THEN << >> ELSE t[c].name
    BY <1>2, <1>7, <2>1 DEF NewName
  <2>3. CASE t[c].name \in GlobalNames
    BY <1>4, <1>5, <2>2, <2>3, <1>7 DEF P
  <2>4. CASE t[c].name \notin GlobalNames
    <3>1. P[c] = t[c].name /\ P[c] \in Seq(Token) /\ P[c] # << >>
      BY <2>1, <2>2, <2>4 DEF IsEntry, Path
    <3>2. P[i] = P[c] \o history
      BY <1>2, <3>1 DEF NewName
    <3>3. history \in Seq(Token) /\ Len(history) = 1
      BY NamesAssumption DEF history
    <3>4. Len(P[c]) > 0
      BY <3>1, EmptySeq
    <3>5. P[i] \in Seq(Token) /\ Len(P[i]) > 1
      <4>1. Len(P[i]) = Len(P[c]) + Len(history) /\ P[i] \in Seq(Token)
        <5>1. \A q \in Seq(Token) : Len(q \o history) = Len(q) + Len(history) /\ q \o history \in Seq(Token)
          BY <3>3, ConcatProperties
        <5>2. QED
          BY <3>1, <3>2, <5>1, Zenon
      <4>2. Len(P[c]) \in Nat
        BY <3>1
      <4>3. QED
        BY <3>3, <3>4, <4>1, <4>2
    <3>6. DOMAIN id2netcdf(P[i]) = 1..Len(P[i])
      BY <3>5 DEF id2netcdf
    <3>7. DOMAIN history = 1..1
      BY DEF history
    <3>8. 2 \in DOMAIN id2netcdf(P[i]) /\ 2 \notin DOMAIN history
      BY <3>5, <3>6, <3>7
    <3>9. QED
      BY <1>7, <2>4, <3>8 DEF P
  <2>5. QED
    BY <2>3, <2>4
<1>8. QED
  BY <1>6, <1>7 DEF P

Expected == Cardinality(OldHistories) = 1 /\ \A s \in OldHistories : WhereExpected(s)

LEMMA OneHistory ==
  ASSUME Legal, Expected
  PROVE  \E i \in Valued(asked.globals) :
           /\ OldHistories = {SiteAt(asked, Len(asked.vars) + 1, 1, i)}
           /\ id2netcdf(Paths(asked.globals, << >>, TRUE)[i]) = history
           /\ asked.globals[i].name = history
           /\ asked.globals[i].in # 0 => asked.globals[asked.globals[i].in].in = 0
           /\ \A j \in Valued(asked.globals) :
                id2netcdf(Paths(asked.globals, << >>, TRUE)[j]) = history => j = i
<1> DEFINE At(i) == SiteAt(asked, Len(asked.vars) + 1, 1, i)
           t == asked.globals
<1>1. IsDataset(asked) /\ IsTable(t) /\ DOMAIN t = 1..Len(t) /\ Len(t) \in Nat
  BY TableIs DEF Legal, IsDataset
<1>2. Valued(t) \subseteq 1..Len(t)
  BY <1>1 DEF Valued
<1>3. OldHistories \subseteq {At(i) : i \in 1..Len(t)}
  <2>1. SUFFICES ASSUME NEW s \in OldHistories PROVE \E i \in 1..Len(t) : s = At(i)
    BY <2>1
  <2>2. s \in Sites(asked) /\ s.target = NC_GLOBAL
    BY DEF OldHistories
  <2>3. s.at \in Valued(t) /\ s = At(s.at)
    BY <1>1, <2>2, GlobalSite
  <2>4. QED
    BY <1>2, <2>3
<1>4. IsFiniteSet(1..Len(t))
  BY <1>1, FS_Interval
<1>5. IsFiniteSet({At(i) : i \in 1..Len(t)})
  <2> DEFINE f == [i \in 1..Len(t) |-> At(i)]
             I == {At(i) : i \in 1..Len(t)}
  <2> HIDE DEF At
  <2>1. f \in Surjection(1..Len(t), I)
    BY DEF Surjection
  <2> HIDE DEF f
  <2>2. QED
    BY <1>4, <2>1, FS_Surjection
<1>6. IsFiniteSet(OldHistories)
  BY <1>3, <1>5, FS_Subset
<1>7. PICK s : OldHistories = {s}
  BY <1>6, FS_Singleton DEF Expected
<1>8. s \in Sites(asked) /\ s.target = NC_GLOBAL /\ s.name = history /\ WhereExpected(s)
  BY <1>7 DEF OldHistories, Expected
<1>9. s.at \in Valued(t) /\ s = At(s.at)
  BY <1>1, <1>8, GlobalSite
<1>10. s.att = t[s.at] /\ s.name = id2netcdf(Paths(t, << >>, TRUE)[s.at])
  <2>1. \A j \in Valued(t) : /\ At(j).att = t[j]
                             /\ At(j).name = id2netcdf(Paths(t, << >>, TRUE)[j])
    BY <1>1, GlobalSite
  <2>2. PICK j \in Valued(t) : j = s.at /\ s = At(j)
    BY <1>9
  <2> HIDE DEF At
  <2>3. s.att = t[j] /\ s.name = id2netcdf(Paths(t, << >>, TRUE)[j])
    BY <2>1, <2>2
  <2>4. QED
    BY <2>2, <2>3
<1>11. t[s.at].name = history /\ (t[s.at].in # 0 => t[t[s.at].in].in = 0)
  BY <1>8, <1>10 DEF WhereExpected
<1>12. ASSUME NEW j \in Valued(t), id2netcdf(Paths(t, << >>, TRUE)[j]) = history PROVE j = s.at
  <2>1. At(j) \in Sites(asked) /\ At(j).target = NC_GLOBAL /\ At(j).name = history /\ At(j).at = j
    BY <1>1, <1>12, GlobalSite
  <2>2. At(j) \in OldHistories
    BY <2>1 DEF OldHistories
  <2>3. QED
    BY <1>7, <2>1, <2>2
<1>13. QED
  BY <1>7, <1>8, <1>9, <1>10, <1>11, <1>12

(* The entry is appended to the one history there is.                      *)
AppendedTo(s, g) ==
  /\ asked.globals[s.at].type = "String"
  /\ g = [asked.globals EXCEPT ![s.at].vals = Append(@, Entry)]
AppendedInv ==
  pc \in {"define", "table", "done"} /\ Expected =>
    \A s \in OldHistories : AppendedTo(s, ds.globals)

LEMMA HistoryStep ==
  ASSUME HistoriesAlone, CtlInv, AskedInv, UpdateHistory, Expected, pc' = "define"
  PROVE  \A s \in OldHistories : AppendedTo(s, ds'.globals)
<1> DEFINE t == asked.globals
           name(j) == id2netcdf(Paths(t, << >>, TRUE)[j])
<1>1. /\ ds = asked /\ asked \in Datasets /\ IsDataset(asked) /\ IsTable(t)
      /\ DOMAIN t = 1..Len(t) /\ Len(t) \in Nat
      /\ ds = [globals |-> ds.globals, vars |-> ds.vars]
  BY TableIs DEF AskedInv, CtlInv, Legal, IsDataset, UpdateHistory
<1>2. PICK i \in Valued(t) :
        /\ OldHistories = {SiteAt(asked, Len(asked.vars) + 1, 1, i)}
        /\ name(i) = history /\ t[i].name = history
        /\ t[i].in # 0 => t[t[i].in].in = 0
        /\ \A j \in Valued(t) : name(j) = history => j = i
  BY OneHistory DEF CtlInv
<1>3. i \in DOMAIN t
  BY <1>2 DEF Valued
<1>4. ASSUME NEW j \in DOMAIN t, t[j].name = history,
             t[j].in = 0 \/ (t[t[j].in].in = 0 /\ t[t[j].in].name \in GlobalNames)
      PROVE  j = i
  <2>1. name(j) = history
    BY <1>1, <1>4, HistoryName
  <2>2. j \in Valued(t)
    BY <1>1, <1>4 DEF HistoriesAlone
  <2>3. QED
    BY <1>2, <2>1, <2>2
<1>5. Histories \subseteq {i} /\ TopHistories \subseteq {i}
  <2>1. ASSUME NEW j \in Histories PROVE j = i
    <3>1. /\ j \in DOMAIN t /\ t[j].name = history /\ t[t[j].in].in = 0
          /\ t[t[j].in].name \in GlobalNames
      BY <1>1 DEF Histories
    <3>2. QED
      BY <1>4, <3>1
  <2>2. ASSUME NEW j \in TopHistories PROVE j = i
    <3>1. j \in DOMAIN t /\ t[j].name = history /\ t[j].in = 0
      BY <1>1 DEF TopHistories, Children
    <3>2. QED
      BY <1>4, <3>1
  <2>3. QED
    BY <2>1, <2>2
<1>6. Histories # {} \/ TopHistories # {}
  <2>1. CASE t[i].in = 0
    <3>1. i \in TopHistories
      BY <1>1, <1>2, <1>3, <2>1 DEF TopHistories, Children
    <3>2. QED
      BY <3>1
  <2>2. CASE t[i].in # 0
    <3>1. t[t[i].in].name \in GlobalNames
      BY <1>1, <1>2, <1>3, <2>2, HistoryName
    <3>2. i \in Histories
      BY <1>1, <1>2, <1>3, <2>2, <3>1 DEF Histories
    <3>3. QED
      BY <3>2
  <2>3. QED
    BY <2>1, <2>2
<1>7. AppendText(i)
  <2>1. i \in Nat
    BY <1>1, <1>3
  <2>2. CASE Histories # {}
    <3>1. First(Histories) = i
      BY <1>5, <2>1, <2>2, FirstIs
    <3>2. AppendText(First(Histories))
      BY <2>2 DEF UpdateHistory
    <3>3. QED
      BY <3>1, <3>2
  <2>3. CASE Histories = {}
    <3>1. First(TopHistories) = i
      BY <1>5, <1>6, <2>1, <2>3, FirstIs
    <3>2. AppendText(First(TopHistories))
      BY <1>6, <2>3 DEF UpdateHistory
    <3>3. QED
      BY <3>1, <3>2
  <2>4. QED
    BY <2>2, <2>3
<1>8. t[i].type = "String" /\ ds'.globals = [t EXCEPT ![i].vals = Append(@, Entry)]
  <2>1. ds.globals[i].type = "String" /\ ds' = [ds EXCEPT !.globals[i].vals = Append(@, Entry)]
    BY <1>7 DEF AppendText
  <2>2. ds'.globals = [ds.globals EXCEPT ![i].vals = Append(@, Entry)]
    BY <1>1, <2>1
  <2>3. QED
    BY <1>1, <2>1, <2>2
<1>9. \A s \in OldHistories : s.at = i
  BY <1>2 DEF SiteAt
<1>10. QED
  BY <1>8, <1>9 DEF AppendedTo

LEMMA AppendedNext ==
  ASSUME HistoriesAlone, CtlInv, AskedInv, AppendedInv, [Next]_vars
  PROVE  AppendedInv'
<1>1. CASE UpdateHistory
  <2>1. asked' = asked
    BY <1>1 DEF UpdateHistory
  <2>2. OldHistories' = OldHistories /\ (Expected' <=> Expected)
        /\ \A s : AppendedTo(s, ds.globals)' <=> AppendedTo(s, ds'.globals)
    BY <2>1 DEF OldHistories, Expected, WhereExpected, AppendedTo
  <2>3. pc' \in {"define", "failed"}
    BY <1>1, HistoryAdded DEF CtlInv
  <2>4. Expected /\ pc' = "define" => \A s \in OldHistories : AppendedTo(s, ds'.globals)
    BY <1>1, HistoryStep
  <2>5. QED
    BY <2>2, <2>3, <2>4 DEF AppendedInv
<1>2. ASSUME asked' = asked, ds'.globals = ds.globals,
             pc' \in {"define", "table", "done"} => pc \in {"define", "table", "done"}
      PROVE  AppendedInv'
  <2>1. OldHistories' = OldHistories /\ (Expected' <=> Expected)
        /\ \A s : AppendedTo(s, ds.globals)' <=> AppendedTo(s, ds.globals)
    BY <1>2 DEF OldHistories, Expected, WhereExpected, AppendedTo
  <2>2. QED
    BY <1>2, <2>1 DEF AppendedInv
<1>3. CASE \E d \in Datasets : Begin(d)
  BY <1>3 DEF Begin, AppendedInv
<1>4. CASE DefineArray
  <2>1. vi \in 1..Len(ds.vars)
    <3>1. vi \in 1..(Len(ds.vars) + 1) /\ Len(ds.vars) \in Nat
      BY SequenceIs DEF CtlInv, Placed, Legal, IsDataset
    <3>2. QED
      BY <1>4, <3>1 DEF DefineArray, Globally
  <2>2. asked' = asked /\ pc = "define" /\ WidenFill
    BY <1>4 DEF DefineArray
  <2>3. ds'.globals = ds.globals
    BY <2>1, <2>2, FillWidened DEF CtlInv, SameBut
  <2>4. QED
    BY <1>2, <2>2, <2>3
<1>5. CASE \/ DefineSimple \/ DefineSequence \/ AddGlobals \/ SkipEmpty \/ EnterContainer
           \/ WriteAttribute \/ NextTable \/ AddOriginalName \/ EndDefine
  <2>1. asked' = asked /\ ds' = ds /\ pc \in {"define", "table", "done"}
    BY <1>5 DEF DefineSimple, DefineSequence, AddGlobals, SkipEmpty, EnterContainer, InTable,
                WriteAttribute, NextTable, AddOriginalName, EndDefine, Stop
  <2>2. QED
    BY <1>2, <2>1
<1>6. CASE PutFails \/ Finish
  BY <1>6 DEF PutFails, Finish, Stop, AppendedInv
<1>7. CASE UNCHANGED vars
  BY <1>2, <1>7 DEF vars
<1>8. QED
  BY <1>1, <1>3, <1>4, <1>5, <1>6, <1>7 DEF Next

(* When all is done, the file has that history.                            *)
LEMMA HistoryThere ==
  ASSUME HistoriesAlone, CtlInv, KeptInv, AskedInv, AppendedInv,
         pc = "done", Expected, NEW s \in OldHistories
  PROVE  /\ <<NC_GLOBAL, history>> \in DOMAIN atts
         /\ atts[<<NC_GLOBAL, history>>].vals = Append(s.att.vals, Entry)
         /\ s.att.vals \in Seq(Path)
<1>1. pc = "done" /\ Expected
  OBVIOUS
<1> DEFINE t == asked.globals  g == ds.globals  n == Len(asked.vars) + 1
<1>2. /\ IsDataset(asked) /\ IsDataset(ds) /\ Len(ds.vars) = Len(asked.vars)
      /\ Len(asked.vars) \in Nat /\ vi = n
      /\ IsTable(t) /\ DOMAIN t = 1..Len(t) /\ Len(t) \in Nat /\ IsTable(g)
  <2>1. /\ IsDataset(asked) /\ IsDataset(ds) /\ Globally
        /\ vi \in 1..(Len(ds.vars) + 1) /\ Len(asked.vars) \in Nat
    BY <1>1, SequenceIs DEF CtlInv, Legal, Placed, IsDataset
  <2>2. Len(ds.vars) = Len(asked.vars)
    BY <1>1 DEF AskedInv
  <2>3. vi = n
    BY <2>1, <2>2 DEF Globally
  <2>4. IsTable(t) /\ IsTable(g)
    BY <2>1 DEF IsDataset
  <2>5. QED
    BY <2>1, <2>2, <2>3, <2>4, TableIs
<1>3. PICK i \in Valued(t) :
        /\ OldHistories = {SiteAt(asked, n, 1, i)}
        /\ id2netcdf(Paths(t, << >>, TRUE)[i]) = history
        /\ \A j \in Valued(t) : id2netcdf(Paths(t, << >>, TRUE)[j]) = history => j = i
  BY <1>1, OneHistory DEF CtlInv
<1>4. s = SiteAt(asked, n, 1, i) /\ s.at = i /\ s.att = t[i]
  <2>1. s = SiteAt(asked, n, 1, i)
    BY <1>3
  <2>2. SiteAt(asked, n, 1, i).at = i /\ SiteAt(asked, n, 1, i).att = t[i]
    BY <1>2, GlobalSite
  <2>3. QED
    BY <2>1, <2>2
<1>5. i \in DOMAIN t /\ t[i].vals # << >>
  BY <1>3 DEF Valued
<1>6. t[i].type = "String" /\ g = [t EXCEPT ![i].vals = Append(@, Entry)]
  BY <1>1, <1>4 DEF AppendedInv, AppendedTo
<1>7. IsEntry(t[i]) /\ t[i].vals \in Seq(Path)
  <2>1. IsEntry(t[i])
    BY <1>2, <1>5 DEF IsTable
  <2>2. QED
    BY <1>6, <2>1 DEF IsEntry, IsValues, NumTypes
<1>8. /\ DOMAIN g = DOMAIN t /\ \A j \in DOMAIN t : j # i => g[j] = t[j]
      /\ g[i] = [name |-> t[i].name, type |-> "String", vals |-> Append(t[i].vals, Entry), in |-> t[i].in]
  <2>1. DOMAIN g = DOMAIN t /\ \A j \in DOMAIN t : j # i => g[j] = t[j]
    BY <1>6
  <2>2. g[i] = [t[i] EXCEPT !.vals = Append(@, Entry)]
    BY <1>5, <1>6
  <2>3. QED
    BY <1>6, <1>7, <2>1, <2>2 DEF IsEntry
<1>9. Append(t[i].vals, Entry) \in Seq(Path) /\ Append(t[i].vals, Entry) # << >>
  BY <1>7, NamesAssumption
<1>10. LikeTable(t, g)
  <2>1. Len(g) = Len(t)
    <3>1. DOMAIN g = 1..Len(g) /\ Len(g) \in Nat
      BY <1>2, TableIs
    <3>2. QED
      BY <1>2, <1>8, <3>1
  <2>2. \A j \in DOMAIN t :
          /\ g[j].name = t[j].name /\ g[j].in = t[j].in
          /\ g[j].type = "Container" <=> t[j].type = "Container"
          /\ g[j].vals = << >> <=> t[j].vals = << >>
    BY <1>5, <1>6, <1>8, <1>9
  <2>3. QED
    BY <1>8, <2>1, <2>2 DEF LikeTable
<1> HIDE DEF t, g
<1>11. LikeJobs(asked, ds, n)
  <2>1. n > Len(asked.vars) /\ n > Len(ds.vars) /\ n = Len(ds.vars) + 1
    BY <1>2
  <2>2. Jobs(asked, n) = <<[table |-> t, prefix |-> << >>]>>
    BY <2>1, GlobalJobs DEF t
  <2>3. Jobs(ds, n) = <<[table |-> g, prefix |-> << >>]>>
    <3> HIDE DEF n
    <3>1. Len(ds.vars) + 1 > Len(ds.vars)
      BY <2>1
    <3>2. Jobs(ds, Len(ds.vars) + 1) = <<[table |-> g, prefix |-> << >>]>>
      BY <3>1, GlobalJobs DEF g
    <3>3. QED
      BY <2>1, <3>2
  <2>4. n \notin Elided(ds) /\ n \notin Elided(asked)
    <3>1. DOMAIN asked.vars = 1..Len(asked.vars) /\ DOMAIN ds.vars = 1..Len(asked.vars)
      BY <1>2, SequenceIs DEF IsDataset
    <3>2. QED
      BY <1>2, <3>1 DEF Elided
  <2> HIDE DEF n
  <2>5. Len(Jobs(asked, n)) = 1 /\ Len(Jobs(ds, n)) = 1
        /\ Jobs(asked, n)[1] = [table |-> t, prefix |-> << >>]
        /\ Jobs(ds, n)[1] = [table |-> g, prefix |-> << >>]
    BY <2>2, <2>3
  <2>6. \A k \in 1..1 : k = 1
    OBVIOUS
  <2>7. QED
    BY <1>2, <1>10, <2>4, <2>5, <2>6 DEF LikeJobs
<1>12. i \in Valued(g)
  BY <1>5, <1>6, <1>8, <1>9 DEF Valued
<1> DEFINE u == SiteAt(ds, n, 1, i)
<1>13. /\ u \in Sites(ds) /\ u.target = NC_GLOBAL /\ u.at = i /\ u.att = g[i] /\ u.v = n /\ u.job = 1
       /\ u.name = history
  <2>1. n = Len(ds.vars) + 1
    BY <1>2
  <2>2. /\ u \in Sites(ds) /\ u.target = NC_GLOBAL /\ u.at = i /\ u.att = g[i]
        /\ u.name = id2netcdf(Paths(g, << >>, TRUE)[i])
    <3> HIDE DEF u, n
    <3> DEFINE w == SiteAt(ds, Len(ds.vars) + 1, 1, i)
    <3>1. i \in Valued(ds.globals)
      BY <1>12 DEF g
    <3>2. /\ w \in Sites(ds) /\ w.target = NC_GLOBAL /\ w.at = i /\ w.att = ds.globals[i]
          /\ w.name = id2netcdf(Paths(ds.globals, << >>, TRUE)[i])
      BY <1>2, <3>1, GlobalSite
    <3>3. u = w
      BY <2>1 DEF u
    <3> HIDE DEF w
    <3>4. QED
      BY <3>2, <3>3, Zenon DEF g
  <2>3. Paths(g, << >>, TRUE)[i] = Paths(t, << >>, TRUE)[i]
    <3>1. i \in 0..Len(t)
      BY <1>2, <1>5
    <3>2. \A b : Paths(g, << >>, b)[i] = Paths(t, << >>, b)[i]
      BY <1>2, <1>10, <3>1, PathsLike
    <3>3. QED
      BY <3>2, Zenon
  <2>4. u.v = n /\ u.job = 1
    BY DEF SiteAt
  <2>5. QED
    BY <1>3, <2>2, <2>3, <2>4 DEF t
<1> HIDE DEF u
<1>14. ASSUME NEW w \in Sites(ds), Before(u, w), Clash(u, w) PROVE FALSE
  <2>1. w.target = NC_GLOBAL /\ w.name = history
    BY <1>13, <1>14 DEF Clash
  <2>2. w.v = n /\ w.job = 1
    <3>1. n = Len(ds.vars) + 1
      BY <1>2
    <3>2. QED
      BY <1>2, <2>1, <3>1, GlobalSite
  <2> DEFINE z == SiteAt(asked, n, w.job, w.at)
  <2>3. z \in Sites(asked) /\ z.name = history /\ z.target = NC_GLOBAL
    <3>1. n \in 1..(Len(asked.vars) + 1)
      BY <1>2
    <3> HIDE DEF n
    <3>2. QED
      BY <1>2, <1>11, <2>1, <2>2, <3>1, SitesLike
  <2>4. z.at = w.at
    BY DEF SiteAt
  <2> HIDE DEF z
  <2>5. z \in OldHistories
    BY <2>3 DEF OldHistories
  <2>6. z = s
    BY <1>3, <1>4, <2>5
  <2>7. w.at = i
    BY <1>4, <2>4, <2>6
  <2>8. i \in Nat /\ n \in Nat
    BY <1>2, <1>5
  <2>9. QED
    BY <1>13, <1>14, <2>2, <2>7, <2>8 DEF Before
<1>15. <<NC_GLOBAL, history>> \in DOMAIN atts /\ atts[<<NC_GLOBAL, history>>] = Stored(g[i])
  <2>1. Holds(ds, vi, ti, ai, atts)
    BY <1>1 DEF KeptInv
  <2>2. PastOf(ds, vi, ti, ai) = Sites(ds)
    <3>1. vi = Len(ds.vars) + 1 /\ ti = Len(Jobs(ds, vi)) /\ ai = Len(Jobs(ds, vi)[ti].table) + 1
      BY <1>1, <1>2 DEF CtlInv, Placed, CurTable
    <3>2. QED
      BY <1>2, <3>1, AllPast
  <2>3. <<u.target, u.name>> \notin OriginalsOf(ds, vi)
    <3>1. \A o \in OriginalsOf(ds, vi) : o[1] \in 1..Len(ds.vars)
      BY <1>2, OriginalIs
    <3>2. <<u.target, u.name>>[1] = 0
      BY <1>13 DEF NC_GLOBAL
    <3>3. QED
      BY <3>1, <3>2
  <2>4. \A w \in Sites(ds) : Before(u, w) => ~Clash(u, w)
    BY <1>14
  <2>5. <<u.target, u.name>> \in DOMAIN atts /\ atts[<<u.target, u.name>>] = Stored(u.att)
    BY <1>13, <2>1, <2>2, <2>3, <2>4 DEF Holds
  <2>6. QED
    BY <1>13, <2>5
<1>16. Stored(g[i]).vals = Append(t[i].vals, Entry)
  <2> DEFINE l == Append(t[i].vals, Entry)
  <2>1. g[i].type = "String" /\ g[i].vals = l /\ l \in Seq(Path)
    BY <1>8, <1>9
  <2> HIDE DEF l
  <2>2. Stored(g[i]).vals = [k \in DOMAIN l |-> Parsed("String", l[k])]
    BY <2>1 DEF Stored
  <2>3. \A k \in DOMAIN l : Parsed("String", l[k]) = l[k]
    BY DEF Parsed
  <2>4. Stored(g[i]).vals = [k \in DOMAIN l |-> l[k]]
    BY <2>2, <2>3
  <2>5. l = [k \in DOMAIN l |-> l[k]]
    BY <2>1
  <2>6. QED
    BY <2>4, <2>5 DEF l
<1>17. QED
  BY <1>4, <1>7, <1>15, <1>16

LEMMA HistoryAtEnd ==
  ASSUME HistoriesAlone, CtlInv, KeptInv, AskedInv, AppendedInv
  PROVE  HistoryKept
BY HistoryThere DEF HistoryKept, Expected

(* If a history is a history: a response with one history, where the code  *)
(* looks for it, has it in the file with the new entry at its end          *)
(* (FONcTransmitter.cc:177-179), whatever containers it is in and whatever *)
(* else is in the tables.                                                  *)
THEOREM HistoryIsKept ==
  ASSUME HistoriesAlone
  PROVE  Spec => []HistoryKept
<1> DEFINE Inv == CtlInv /\ KeptInv /\ AskedInv /\ AppendedInv
<1>1. Init => Inv
  BY CtlInit, KeptInit DEF Init, AskedInv, AppendedInv
<1>2. Inv /\ [Next]_vars => Inv'
  BY CtlNext, KeptNext, AskedNext, AppendedNext
<1>3. Inv => HistoryKept
  BY HistoryAtEnd
<1> HIDE DEF Inv
<1>4. QED
  BY <1>1, <1>2, <1>3, PTL DEF Spec
---------------------------------------------------------------------------
(* The history of a response that came without one.                        *)
NewHistory == [name |-> history, type |-> "String", vals |-> <<Entry>>, in |-> 0]
AddedInv ==
  pc \in {"define", "table", "done"} /\ OldHistories = {} =>
    ds.globals = Append(asked.globals, NewHistory)

LEMMA AddedStep ==
  ASSUME HistoriesAlone, CtlInv, AskedInv, UpdateHistory, OldHistories = {}
  PROVE  ds'.globals = Append(asked.globals, NewHistory)
<1> DEFINE t == asked.globals
           name(j) == id2netcdf(Paths(t, << >>, TRUE)[j])
<1>1. /\ ds = asked /\ asked \in Datasets /\ IsDataset(asked) /\ IsTable(t)
      /\ DOMAIN t = 1..Len(t) /\ Len(t) \in Nat
      /\ ds = [globals |-> ds.globals, vars |-> ds.vars]
  BY TableIs DEF AskedInv, CtlInv, Legal, IsDataset, UpdateHistory
<1>2. ASSUME NEW j \in DOMAIN t, t[j].name = history,
             t[j].in = 0 \/ (t[j].in # 0 /\ t[t[j].in].in = 0 /\ t[t[j].in].name \in GlobalNames)
      PROVE  FALSE
  <2>1. name(j) = history
    BY <1>1, <1>2, HistoryName
  <2>2. j \in Valued(t)
    BY <1>1, <1>2 DEF HistoriesAlone
  <2> DEFINE s == SiteAt(asked, Len(asked.vars) + 1, 1, j)
  <2>3. s \in Sites(asked) /\ s.target = NC_GLOBAL /\ s.name = history
    BY <1>1, <2>1, <2>2, GlobalSite
  <2>4. s \in OldHistories
    BY <2>3 DEF OldHistories
  <2>5. QED
    BY <2>4
<1>3. Histories = {}
  <2>1. ASSUME NEW j \in Histories PROVE FALSE
    <3>1. /\ j \in DOMAIN t /\ t[j].name = history /\ t[j].in # 0 /\ t[t[j].in].in = 0
          /\ t[t[j].in].name \in GlobalNames
      BY <1>1 DEF Histories
    <3>2. QED
      BY <1>2, <3>1
  <2>2. QED
    BY <2>1
<1>4. TopHistories = {}
  <2>1. ASSUME NEW j \in TopHistories PROVE FALSE
    <3>1. j \in DOMAIN t /\ t[j].name = history /\ t[j].in = 0
      BY <1>1 DEF TopHistories, Children
    <3>2. QED
      BY <1>2, <3>1
  <2>2. QED
    BY <2>1
<1>5. ds' = [ds EXCEPT !.globals = Append(@, NewHistory)]
  BY <1>3, <1>4 DEF UpdateHistory, NewHistory
<1>6. QED
  BY <1>1, <1>5

LEMMA AddedNext ==
  ASSUME HistoriesAlone, CtlInv, AskedInv, AddedInv, [Next]_vars
  PROVE  AddedInv'
<1>1. CASE UpdateHistory
  <2>1. asked' = asked
    BY <1>1 DEF UpdateHistory
  <2>2. OldHistories' = OldHistories
    BY <2>1 DEF OldHistories
  <2>3. QED
    BY <1>1, <2>1, <2>2, AddedStep DEF AddedInv
<1>2. ASSUME asked' = asked, ds'.globals = ds.globals,
             pc' \in {"define", "table", "done"} => pc \in {"define", "table", "done"}
      PROVE  AddedInv'
  BY <1>2 DEF AddedInv, OldHistories
<1>3. CASE \E d \in Datasets : Begin(d)
  BY <1>3 DEF Begin, AddedInv
<1>4. CASE DefineArray
  <2>1. vi \in 1..Len(ds.vars)
    <3>1. vi \in 1..(Len(ds.vars) + 1) /\ Len(ds.vars) \in Nat
      BY SequenceIs DEF CtlInv, Placed, Legal, IsDataset
    <3>2. QED
      BY <1>4, <3>1 DEF DefineArray, Globally
  <2>2. asked' = asked /\ pc = "define" /\ WidenFill
    BY <1>4 DEF DefineArray
  <2>3. ds'.globals = ds.globals
    BY <2>1, <2>2, FillWidened DEF CtlInv, SameBut
  <2>4. QED
    BY <1>2, <2>2, <2>3
<1>5. CASE \/ DefineSimple \/ DefineSequence \/ AddGlobals \/ SkipEmpty \/ EnterContainer
           \/ WriteAttribute \/ NextTable \/ AddOriginalName \/ EndDefine
  <2>1. asked' = asked /\ ds' = ds /\ pc \in {"define", "table", "done"}
    BY <1>5 DEF DefineSimple, DefineSequence, AddGlobals, SkipEmpty, EnterContainer, InTable,
                WriteAttribute, NextTable, AddOriginalName, EndDefine, Stop
  <2>2. QED
    BY <1>2, <2>1
<1>6. CASE PutFails \/ Finish
  BY <1>6 DEF PutFails, Finish, Stop, AddedInv
<1>7. CASE UNCHANGED vars
  BY <1>2, <1>7 DEF vars
<1>8. QED
  BY <1>1, <1>3, <1>4, <1>5, <1>6, <1>7 DEF Next

(* It is the last of the global attributes, and no other replaces it.      *)
LEMMA NewHistoryThere ==
  ASSUME HistoriesAlone, CtlInv, KeptInv, AskedInv, AddedInv, pc = "done", OldHistories = {}
  PROVE  <<NC_GLOBAL, history>> \in DOMAIN atts /\ atts[<<NC_GLOBAL, history>>].vals = <<Entry>>
<1> DEFINE t == asked.globals  g == ds.globals  n == Len(ds.vars) + 1  i == Len(t) + 1
<1>1. /\ IsDataset(ds) /\ Len(ds.vars) \in Nat /\ vi = n
      /\ IsTable(t) /\ Len(t) \in Nat /\ DOMAIN t = 1..Len(t) /\ IsTable(g)
  <2>1. /\ IsDataset(asked) /\ IsDataset(ds) /\ Globally
        /\ vi \in 1..(Len(ds.vars) + 1) /\ Len(ds.vars) \in Nat
    BY SequenceIs DEF CtlInv, Legal, Placed, IsDataset
  <2>2. vi = n
    BY <2>1 DEF Globally
  <2>3. IsTable(t) /\ IsTable(g)
    BY <2>1 DEF IsDataset
  <2>4. QED
    BY <2>1, <2>2, <2>3, TableIs
<1>2. g = Append(t, NewHistory)
  BY DEF AddedInv
<1>3. DOMAIN g = 1..i /\ g[i] = NewHistory /\ i \in Nat \ {0}
  <2>1. t \in Seq({t[k] : k \in DOMAIN t})
    BY <1>1 DEF IsTable, IsSequence
  <2>2. t \in Seq({t[k] : k \in DOMAIN t} \cup {NewHistory})
    BY <2>1
  <2>3. Len(g) = i /\ g[i] = NewHistory
    BY <1>2, <2>2, AppendProperties
  <2>4. DOMAIN g = 1..Len(g)
    BY <1>1, TableIs
  <2>5. QED
    BY <1>1, <2>3, <2>4
<1>4. i \in Valued(g)
  <2> HIDE DEF i, g
  <2>1. <<Entry>> # << >>
    OBVIOUS
  <2>2. i \in DOMAIN g
    BY <1>3
  <2>3. g[i].type # "Container" /\ g[i].vals # << >>
    BY <1>3, <2>1 DEF NewHistory
  <2>4. QED
    BY <2>2, <2>3 DEF Valued
<1>5. id2netcdf(Paths(g, << >>, TRUE)[i]) = history
  <2>1. \A b : /\ Paths(g, << >>, b)[0] = << >>
              /\ \A k \in DOMAIN g : Paths(g, << >>, b)[k] = NewName(Paths(g, << >>, b)[g[k].in], g[k], b)
    BY <1>1, PathsAre
  <2>2. /\ Paths(g, << >>, TRUE)[0] = << >>
        /\ Paths(g, << >>, TRUE)[i] = NewName(Paths(g, << >>, TRUE)[g[i].in], g[i], TRUE)
    <3> HIDE DEF g, i
    <3>1. i \in DOMAIN g
      BY <1>4 DEF Valued
    <3>2. QED
      BY <2>1, <3>1, Zenon
  <2>3. g[i].in = 0 /\ g[i].type = "String" /\ g[i].name = history
    BY <1>3 DEF NewHistory
  <2>4. Paths(g, << >>, TRUE)[i] = history
    BY <2>2, <2>3 DEF NewName
  <2>5. id2netcdf(history) = history
    BY OneToken, NamesAssumption DEF history, HistoriesAlone
  <2>6. QED
    BY <2>4, <2>5
<1> DEFINE u == SiteAt(ds, n, 1, i)
<1>6. /\ u \in Sites(ds) /\ u.target = NC_GLOBAL /\ u.at = i /\ u.att = g[i] /\ u.v = n /\ u.job = 1
      /\ u.name = history
  <2>1. u.v = n /\ u.job = 1
    BY DEF SiteAt
  <2>2. QED
    BY <1>1, <1>4, <1>5, <2>1, GlobalSite
<1> HIDE DEF u, g
<1>7. ASSUME NEW w \in Sites(ds), Before(u, w), Clash(u, w) PROVE FALSE
  <2>1. w.target = NC_GLOBAL
    BY <1>6, <1>7 DEF Clash
  <2>2. w.v = n /\ w.job = 1 /\ w.at \in DOMAIN g
    BY <1>1, <2>1, GlobalSite DEF Valued, g
  <2>3. QED
    BY <1>1, <1>3, <1>6, <1>7, <2>2 DEF Before
<1>8. <<NC_GLOBAL, history>> \in DOMAIN atts /\ atts[<<NC_GLOBAL, history>>] = Stored(g[i])
  <2>1. Holds(ds, vi, ti, ai, atts)
    BY DEF KeptInv
  <2>2. PastOf(ds, vi, ti, ai) = Sites(ds)
    <3>1. vi = Len(ds.vars) + 1 /\ ti = Len(Jobs(ds, vi)) /\ ai = Len(Jobs(ds, vi)[ti].table) + 1
      BY <1>1 DEF CtlInv, Placed, CurTable
    <3>2. QED
      BY <1>1, <3>1, AllPast
  <2>3. <<u.target, u.name>> \notin OriginalsOf(ds, vi)
    <3>1. \A o \in OriginalsOf(ds, vi) : o[1] \in 1..Len(ds.vars)
      BY <1>1, OriginalIs
    <3>2. <<u.target, u.name>>[1] = 0
      BY <1>6 DEF NC_GLOBAL
    <3>3. QED
      BY <3>1, <3>2
  <2>4. \A w \in Sites(ds) : Before(u, w) => ~Clash(u, w)
    BY <1>7
  <2>5. <<u.target, u.name>> \in DOMAIN atts /\ atts[<<u.target, u.name>>] = Stored(u.att)
    BY <1>6, <2>1, <2>2, <2>3, <2>4 DEF Holds
  <2>6. QED
    BY <1>6, <2>5
<1>9. Stored(g[i]).vals = <<Entry>>
  <2>1. g[i].type = "String" /\ g[i].vals = <<Entry>>
    BY <1>3 DEF NewHistory
  <2>2. Stored(g[i]).vals = [k \in DOMAIN <<Entry>> |-> Parsed("String", <<Entry>>[k])]
    BY <2>1 DEF Stored
  <2>3. \A k \in DOMAIN <<Entry>> : Parsed("String", <<Entry>>[k]) = <<Entry>>[k]
    BY DEF Parsed
  <2>4. QED
    BY <2>2, <2>3
<1>10. QED
  BY <1>8, <1>9

(* A response with no history or one, where the code looks for it.         *)
FewHistories == \A s \in OldHistories : OldHistories = {s} /\ WhereExpected(s)

LEMMA RecordedAtEnd ==
  ASSUME HistoriesAlone, CtlInv, KeptInv, AskedInv, AppendedInv, AddedInv, FewHistories
  PROVE  HistoryRecorded
<1>1. SUFFICES ASSUME pc = "done" PROVE HistoryRecorded
  BY DEF HistoryRecorded
<1>2. CASE OldHistories = {}
  <2>1. <<NC_GLOBAL, history>> \in DOMAIN atts /\ atts[<<NC_GLOBAL, history>>].vals = <<Entry>>
    BY <1>1, <1>2, NewHistoryThere
  <2>2. 1 \in DOMAIN <<Entry>> /\ <<Entry>>[1] = Entry
    OBVIOUS
  <2>3. QED
    BY <2>1, <2>2 DEF HistoryRecorded
<1>3. ASSUME NEW s \in OldHistories PROVE HistoryRecorded
  <2>1. OldHistories = {s} /\ WhereExpected(s)
    BY <1>3 DEF FewHistories
  <2>2. Expected
    BY <2>1, FS_Singleton DEF Expected
  <2> DEFINE l == Append(s.att.vals, Entry)
  <2>3. <<NC_GLOBAL, history>> \in DOMAIN atts /\ atts[<<NC_GLOBAL, history>>].vals = l /\ s.att.vals \in Seq(Path)
    BY <1>1, <2>2, HistoryThere
  <2>4. Len(s.att.vals) + 1 \in DOMAIN l /\ l[Len(s.att.vals) + 1] = Entry
    BY <2>3, NamesAssumption, AppendProperties
  <2> HIDE DEF l
  <2>5. QED
    BY <2>3, <2>4 DEF HistoryRecorded
<1>4. QED
  BY <1>2, <1>3

(* The new entry is in the file's history (FONcTransmitter.cc:122-123) for *)
(* every response that came with no history or with one where the code     *)
(* looks for it.  Of two, the file keeps the last, which may be the other: *)
(* the run history.                                                        *)
THEOREM EntryIsRecorded ==
  ASSUME HistoriesAlone
  PROVE  Spec => [](FewHistories => HistoryRecorded)
<1> DEFINE Inv == CtlInv /\ KeptInv /\ AskedInv /\ AppendedInv /\ AddedInv
<1>1. Init => Inv
  BY CtlInit, KeptInit DEF Init, AskedInv, AppendedInv, AddedInv
<1>2. Inv /\ [Next]_vars => Inv'
  BY CtlNext, KeptNext, AskedNext, AppendedNext, AddedNext
<1>3. Inv => (FewHistories => HistoryRecorded)
  BY RecordedAtEnd
<1> HIDE DEF Inv
<1>4. QED
  BY <1>1, <1>2, <1>3, PTL DEF Spec
=============================================================================
