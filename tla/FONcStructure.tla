----------------------------- MODULE FONcStructure -----------------------------
(***************************************************************************)
(* Structures.  netCDF has none: FONcStructure hands convert(), define(),  *)
(* write() and delete on to its members, and convert() puts its name       *)
(* before theirs.  What is left of a response is the sequence of the       *)
(* variables that are not structures, in the order in which those calls    *)
(* reach them: the responses of FONcUtils.                                 *)
(*                                                                         *)
(* A dataset here is a sequence of nodes.  Node n is the n-th variable     *)
(* added, t[n].in is the structure it was added to, 0 the dataset itself.  *)
(***************************************************************************)
EXTENDS FONcUtils
LOCAL INSTANCE SequencesExt

Node == [in : Nat, kind : Kinds \cup {"Structure"}, send : BOOLEAN,
         main : Arr, maps : Seq(Arr)]

(* _vars of structure n, and of FONcTransform for n = 0: the members to be *)
(* sent, in the order of the structure.                                    *)
Vars(t, n) == SelectSeq([k \in DOMAIN t |-> k], LAMBDA k : t[k].in = n /\ t[k].send)

EmbedWithoutOwn(t) ==   \* mutant: the structure's own name is not pushed
  LET embed[n \in 0..Len(t)] == IF n = 0 \/ t[n].in = 0 THEN << >> ELSE embed[t[n].in]
  IN embed

(* What structure n hands its members: what it was handed and its name.    *)
Embed(t) ==
  LET embed[n \in 0..Len(t)] == IF n = 0 THEN << >> ELSE embed[t[n].in] \o t[n].main.name
  IN embed

(* The members a call on node n reaches, structures in structures last in, *)
(* first entered.                                                          *)
Reached(t) ==
  LET reached[n \in 0..Len(t)] ==
        IF n > 0 /\ t[n].kind # "Structure" THEN <<n>>
        ELSE LET vs == Vars(t, n) IN FlattenSeq([k \in DOMAIN vs |-> reached[vs[k]]])
  IN reached

(* The response FONcTransform sees.                                        *)
Flatten(t) ==
  LET leaf == Reached(t)[0] IN
  [k \in DOMAIN leaf |->
    [kind |-> t[leaf[k]].kind, embed |-> Embed(t)[t[leaf[k]].in], send |-> TRUE,
     main |-> t[leaf[k]].main, maps |-> t[leaf[k]].maps]]
=============================================================================
