---------------------------- MODULE MCFONcValues ----------------------------
(* Instances of FONcValues for TLC: scalars and strings, arrays of up to   *)
(* three dimensions, numbers at the limits of their types.                 *)
EXTENDS FONcValues

MCToken == {"_len", "dim"}
MCIdentity == [k \in MCToken |-> k]
MCVal == {"p", "q"}

Keys(compression, size, classic, dir, reference) ==
  [ByteToShort |-> "absent", UseCompression |-> compression, ChunkSize |-> size,
   ClassicModel |-> classic, Tempdir |-> dir, Reference |-> reference]
Number(form, num) == [form |-> form, num |-> num]
Dir(form, dir) == [form |-> form, dir |-> dir]

MCKeyFiles ==
  {Keys(c, n, "true", Dir("plain", "/tmp"), "")
     : c \in {"absent", "no"},
       n \in {Number("absent", 0), Number("plain", 0), Number("trailed", 0), Number("text", 0)}}
  \cup {Keys("yes", Number("trailed", 2), "no", d, "elsewhere")
          : d \in {Dir("absent", ""), Dir("slash", "/var/tmp"), Dir("empty", "")}}

Limits(type) ==
  CASE type = "Byte" -> <<0, 1, 2, 3>>
    [] type = "Int16" -> <<-4, -1, 0, 3>>
    [] type = "UInt16" -> <<0, 3, 4, 7>>
    [] type = "Int32" -> <<-8, -1, 5, 7>>
    [] type = "UInt32" -> <<0, 7, 8, 15>>
    [] OTHER -> <<-20, -1, 0, 20>>
Of(kind, type, sizes, data, lendim) ==
  [kind |-> kind, type |-> type, sizes |-> sizes, data |-> data, lendim |-> lendim]

Shapes == {<<1>>, <<3>>, <<2, 2>>, <<1, 3>>, <<3, 1>>, <<2, 1, 2>>, <<2, 3>>, <<2, 2, 2>>}
Data(type, n) == [k \in 1..n |-> Limits(type)[((k - 1) % 4) + 1]]
Words(n) == [k \in 1..n |-> [id |-> IF k % 3 = 0 THEN "q" ELSE "p", len |-> k % 4]]

MCVariables ==
  {Of("Scalar", t, << >>, <<Limits(t)[i]>>, 0) : t \in NumTypes, i \in 1..4}
  \cup {Of("Scalar", t, << >>, <<[id |-> "p", len |-> n]>>, n + 1) : t \in {"String", "Url"}, n \in 0..3}
  \cup {Of("Array", t, s, Data(t, Product(s)), 0) : t \in NumTypes, s \in Shapes}
  \cup {Of("Array", "String", s, Words(Product(s)), n) : s \in Shapes, n \in 4..5}
  \cup {Of("Array", "String", <<1>>, <<[id |-> "p", len |-> 0]>>, n) : n \in 1..2}
  \cup {Of("Array", "Url", <<2>>, Words(2), 4)}
=============================================================================
