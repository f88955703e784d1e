------------------------ MODULE FONcTransmitter_proofs ------------------------
(* Proofs about FONcTransmitter, for every number of processes, names,     *)
(* blocks and requests.                                                    *)
EXTENDS FONcTransmitter, SequenceTheorems, TLAPS

(* TypeOK in two parts: the files and who refers to them, and the rest.    *)
FilesTyped ==
  /\ dir \in [Names -> Nat] /\ \A f \in Names : dir[f] <= Len(disk)
  /\ disk \in Seq(Inode)
  /\ fd \in [Procs -> Nat] /\ nc \in [Procs -> Nat]
  /\ \A p \in Procs : fd[p] <= Len(disk) /\ nc[p] <= Len(disk)
  /\ leaked \in [Procs -> SUBSET (1..Len(disk))]

StateTyped ==
  /\ left \subseteq Names
  /\ pc \in [Procs -> Pcs]
  /\ requests \in 0..MaxRequests /\ nr \in [Procs -> 0..MaxRequests]
  /\ size \in [Procs -> 0..MaxBlocks]
  /\ umask \in [Procs -> {"default", "077"}]
  /\ name \in [Procs -> SUBSET Names]
  /\ written \in [Procs -> 0..MaxBlocks]
  /\ offset \in [Procs -> 0..MaxBlocks]
  /\ sent \in [Procs -> Seq(Block \cup {Hole})]
  /\ reply \in [Procs -> {"none", "ok", "error"}]

(* Where a request stands tells what its process holds.                    *)
HeldOK(p) ==
  /\ pc[p] \in {"idle", "load", "mkstemp"} => name[p] = {} /\ fd[p] = 0
  /\ pc[p] \notin {"idle", "load", "mkstemp"} => \E f \in Names : name[p] = {f}
  /\ pc[p] \in {"create", "write", "stream", "copy"} => fd[p] # 0
  /\ pc[p] = "unlink" => fd[p] = 0
  /\ nc[p] # 0 <=> pc[p] = "write"
  /\ umask[p] = "077" <=> pc[p] \in {"mkstemp", "check"}

IInv == FilesTyped /\ StateTyped /\ \A p \in Procs : HeldOK(p)

(* A new file is the last inode, and the others stay what they are.        *)
LEMMA NewInodeLast ==
  ASSUME disk \in Seq(Inode), NEW p, NewInode(p)
  PROVE  /\ disk' \in Seq(Inode) /\ Len(disk') = Len(disk) + 1
         /\ \A i \in 1..Len(disk) : disk'[i] = disk[i]
         /\ disk'[Len(disk) + 1] = [blocks |-> Empty, private |-> (umask[p] = "077")]
  <1> DEFINE new == [blocks |-> Empty, private |-> (umask[p] = "077")]
  <1>1. Empty \in [1..MaxBlocks -> Block \cup {Hole}]
    BY DEF Empty
  <1>2. (umask[p] = "077") \in BOOLEAN
    OBVIOUS
  <1>3. new \in Inode
    BY <1>1, <1>2, Zenon DEF Inode
  <1>4. disk' = Append(disk, new)
    BY DEF NewInode
  <1> QED
    BY <1>3, <1>4, AppendProperties

(* Writing to a file changes its blocks and nothing else.                  *)
LEMMA WriteInode ==
  ASSUME disk \in Seq(Inode), NEW i \in 1..Len(disk),
         NEW b \in [1..MaxBlocks -> Block \cup {Hole}],
         disk' = [disk EXCEPT ![i].blocks = b]
  PROVE  /\ disk' \in Seq(Inode) /\ Len(disk') = Len(disk)
         /\ \A j \in 1..Len(disk) : j # i => disk'[j] = disk[j]
         /\ disk'[i].blocks = b /\ disk'[i].private = disk[i].private
  <1> DEFINE new == [disk[i] EXCEPT !.blocks = b]
  <1>1. disk[i] \in Inode
    BY ElementOfSeq
  <1>2. new \in Inode /\ new.blocks = b /\ new.private = disk[i].private
    BY <1>1 DEF Inode
  <1>3. disk' = [disk EXCEPT ![i] = new]
    OBVIOUS
  <1> HIDE DEF new
  <1> QED
    BY <1>2, <1>3, ExceptSeq

(* The blocks of a file.                                                   *)
LEMMA InodeBlocks ==
  ASSUME FilesTyped, NEW i \in 1..Len(disk)
  PROVE  disk[i].blocks \in [1..MaxBlocks -> Block \cup {Hole}]
  <1>1. disk[i] \in Inode
    BY ElementOfSeq DEF FilesTyped
  <1> QED
    BY <1>1 DEF Inode

LEMMA InitIInv == Init => IInv
  BY BoundsAssumption DEF Init, IInv, FilesTyped, StateTyped, HeldOK, Pcs

(* A longer directory refers to nothing that is not there.                 *)
LEMMA NewInodeTyped ==
  ASSUME FilesTyped, NEW p \in Procs, NewInode(p), NEW f \in Names,
         dir' = [dir EXCEPT ![f] = Len(disk) + 1], leaked' = leaked,
         \/ fd' = fd /\ nc' = [nc EXCEPT ![p] = Len(disk) + 1]
         \/ nc' = nc /\ fd' = [fd EXCEPT ![p] = Len(disk) + 1]
  PROVE  FilesTyped'
  <1>1. /\ disk' \in Seq(Inode) /\ Len(disk') = Len(disk) + 1
    BY NewInodeLast DEF FilesTyped
  <1>2. Len(disk) \in Nat
    BY LenProperties DEF FilesTyped
  <1>3. leaked' \in [Procs -> SUBSET (1..Len(disk'))]
    BY <1>1, <1>2 DEF FilesTyped
  <1>4. dir' \in [Names -> Nat] /\ \A g \in Names : dir'[g] <= Len(disk')
    BY <1>1, <1>2 DEF FilesTyped
  <1>5. /\ fd' \in [Procs -> Nat] /\ nc' \in [Procs -> Nat]
        /\ \A q \in Procs : fd'[q] <= Len(disk') /\ nc'[q] <= Len(disk')
    <2>1. CASE fd' = fd /\ nc' = [nc EXCEPT ![p] = Len(disk) + 1]
      BY <1>1, <1>2, <2>1 DEF FilesTyped
    <2>2. CASE nc' = nc /\ fd' = [fd EXCEPT ![p] = Len(disk) + 1]
      BY <1>1, <1>2, <2>2 DEF FilesTyped
    <2> QED
      BY <2>1, <2>2
  <1> QED
    BY <1>1, <1>3, <1>4, <1>5, Zenon DEF FilesTyped

LEMMA PrepareIInv ==
  ASSUME IInv, NEW p \in Procs, Prepare(p)
  PROVE  IInv'
  <1> USE DEF At, To, Throw, shared, request, opened, copied, StateTyped
  <1>0. /\ FilesTyped /\ StateTyped /\ \A q \in Procs : HeldOK(q)
        /\ HeldOK(p)
    BY DEF IInv
  <1>1. CASE Load(p)
    <2>1. FilesTyped'
      BY <1>1, <1>0 DEF Load, FilesTyped
    <2>2. StateTyped'
      BY <1>1, <1>0 DEF Load, Pcs
    <2>3. ASSUME NEW q \in Procs
          PROVE  HeldOK(q)'
      BY <1>1, <1>0 DEF Load, FilesTyped, HeldOK
    <2> QED
      BY <2>1, <2>2, <2>3 DEF IInv
  <1>2. CASE LoadFails(p)
    <2>1. FilesTyped'
      BY <1>2, <1>0 DEF LoadFails, FilesTyped
    <2>2. StateTyped'
      BY <1>2, <1>0 DEF LoadFails, Pcs
    <2>3. ASSUME NEW q \in Procs
          PROVE  HeldOK(q)'
      BY <1>2, <1>0 DEF LoadFails, FilesTyped, HeldOK
    <2> QED
      BY <2>1, <2>2, <2>3 DEF IInv
  <1>3. CASE CheckDescriptor(p)
    <2>1. FilesTyped'
      BY <1>3, <1>0 DEF CheckDescriptor, FilesTyped
    <2>2. StateTyped'
      BY <1>3, <1>0 DEF CheckDescriptor, Pcs
    <2>3. ASSUME NEW q \in Procs
          PROVE  HeldOK(q)'
      BY <1>3, <1>0 DEF CheckDescriptor, FilesTyped, HeldOK
    <2> QED
      BY <2>1, <2>2, <2>3 DEF IInv
  <1>4. ASSUME NEW f \in Names, Mkstemp(p, f)
        PROVE  IInv'
    <2>1. FilesTyped'
      BY <1>0, <1>4, NewInodeTyped DEF Mkstemp
    <2>2. StateTyped'
      BY <1>0, <1>4, BoundsAssumption DEF Mkstemp, Pcs
    <2>3. Len(disk) \in Nat
      BY <1>0, LenProperties DEF FilesTyped
    <2>4. ASSUME NEW q \in Procs
          PROVE  HeldOK(q)'
      BY <1>0, <1>4, <2>3 DEF Mkstemp, FilesTyped, HeldOK
    <2> QED
      BY <2>1, <2>2, <2>4 DEF IInv
  <1>5. ASSUME NEW f \in Names, MkstempFails(p, f)
        PROVE  IInv'
    <2>1. FilesTyped'
      BY <1>5, <1>0 DEF MkstempFails, FilesTyped
    <2>2. StateTyped'
      BY <1>5, <1>0 DEF MkstempFails, Pcs
    <2>3. ASSUME NEW q \in Procs
          PROVE  HeldOK(q)'
      BY <1>5, <1>0 DEF MkstempFails, FilesTyped, HeldOK
    <2> QED
      BY <2>1, <2>2, <2>3 DEF IInv
  <1> QED
    BY <1>1, <1>2, <1>3, <1>4, <1>5 DEF Prepare

LEMMA TransformIInv ==
  ASSUME IInv, NEW p \in Procs, Transform(p)
  PROVE  IInv'
  <1> USE DEF At, To, Throw, shared, request, opened, copied, StateTyped
  <1>0. /\ FilesTyped /\ StateTyped /\ \A q \in Procs : HeldOK(q)
        /\ HeldOK(p)
    BY DEF IInv
  <1>1. CASE ConvertFails(p)
    <2>1. FilesTyped'
      BY <1>1, <1>0 DEF ConvertFails, FilesTyped
    <2>2. StateTyped'
      BY <1>1, <1>0 DEF ConvertFails, Pcs
    <2>3. ASSUME NEW q \in Procs
          PROVE  HeldOK(q)'
      BY <1>1, <1>0 DEF ConvertFails, FilesTyped, HeldOK
    <2> QED
      BY <2>1, <2>2, <2>3 DEF IInv
  <1>2. CASE NcCreate(p)
    <2>1. TempFile(p) \in Names
      BY <1>0, <1>2 DEF NcCreate, TempFile, HeldOK
    <2>2. Len(disk) \in Nat
      BY <1>0, LenProperties DEF FilesTyped
    <2>3. FilesTyped' /\ nc' = [nc EXCEPT ![p] = nc'[p]] /\ nc'[p] # 0
      <3> DEFINE i == dir[TempFile(p)]
      <3>1. CASE i = 0
        <4>1. /\ NewInode(p) /\ dir' = [dir EXCEPT ![TempFile(p)] = Len(disk) + 1]
              /\ nc' = [nc EXCEPT ![p] = Len(disk) + 1] /\ fd' = fd /\ leaked' = leaked
          BY <1>2, <3>1 DEF NcCreate
        <4>2. FilesTyped'
          BY <1>0, <2>1, <4>1, NewInodeTyped
        <4> QED
          BY <1>0, <2>2, <4>1, <4>2 DEF FilesTyped
      <3>2. CASE i # 0
        <4>1. i \in 1..Len(disk)
          BY <1>0, <2>1, <2>2, <3>2 DEF FilesTyped
        <4>2. Empty \in [1..MaxBlocks -> Block \cup {Hole}]
          BY DEF Empty
        <4>3. /\ disk' = [disk EXCEPT ![i].blocks = Empty]
              /\ nc' = [nc EXCEPT ![p] = i] /\ dir' = dir /\ fd' = fd /\ leaked' = leaked
          BY <1>2, <3>2 DEF NcCreate
        <4>4. disk' \in Seq(Inode) /\ Len(disk') = Len(disk)
          BY <1>0, <4>1, <4>2, <4>3, WriteInode DEF FilesTyped
        <4> HIDE DEF i
        <4> QED
          BY <1>0, <4>1, <4>3, <4>4 DEF FilesTyped
      <3> QED
        BY <3>1, <3>2
    <2>4. /\ pc[p] = "create" /\ pc' = [pc EXCEPT ![p] = "write"]
          /\ written' = [written EXCEPT ![p] = 0]
          /\ UNCHANGED <<left, request, umask, name, fd, leaked, offset, sent, reply>>
      BY <1>2 DEF NcCreate
    <2>5. StateTyped'
      BY <1>0, <2>4, BoundsAssumption DEF Pcs
    <2>6. ASSUME NEW q \in Procs
          PROVE  HeldOK(q)'
      <3>1. CASE q = p
        BY <1>0, <2>3, <2>4, <3>1 DEF HeldOK, FilesTyped
      <3>2. CASE q # p
        BY <1>0, <2>3, <2>4, <3>2 DEF HeldOK, FilesTyped
      <3> QED
        BY <3>1, <3>2
    <2> QED
      BY <2>3, <2>5, <2>6 DEF IInv
  <1>3. CASE WriteBlock(p)
    <2>1. nc[p] \in 1..Len(disk)
      BY <1>0, <1>3, LenProperties DEF WriteBlock, FilesTyped, HeldOK
    <2>2. written[p] + 1 \in 1..MaxBlocks
      BY <1>0, <1>3, BoundsAssumption DEF WriteBlock
    <2> DEFINE b == [disk[nc[p]].blocks EXCEPT ![written[p] + 1] = OwnBlock(p, written[p] + 1)]
    <2>3. OwnBlock(p, written[p] + 1) \in Block
      BY <1>0, <2>2, BoundsAssumption DEF OwnBlock, Block
    <2>4. disk[nc[p]].blocks \in [1..MaxBlocks -> Block \cup {Hole}]
      BY <1>0, <2>1, InodeBlocks, Zenon
    <2>5. b \in [1..MaxBlocks -> Block \cup {Hole}]
      BY <2>2, <2>3, <2>4
    <2>6. disk' = [disk EXCEPT ![nc[p]].blocks = b]
      BY <1>3 DEF WriteBlock
    <2> HIDE DEF b
    <2>7. disk' \in Seq(Inode) /\ Len(disk') = Len(disk)
      BY <1>0, <2>1, <2>5, <2>6, WriteInode DEF FilesTyped
    <2>8. FilesTyped'
      BY <1>0, <1>3, <2>7 DEF WriteBlock, FilesTyped
    <2>9. StateTyped'
      BY <1>0, <1>3, <2>2, BoundsAssumption DEF WriteBlock
    <2>10. ASSUME NEW q \in Procs
           PROVE  HeldOK(q)'
      BY <1>0, <1>3 DEF WriteBlock, HeldOK
    <2> QED
      BY <2>8, <2>9, <2>10 DEF IInv
  <1>4. CASE NcClose(p)
    <2>1. FilesTyped'
      BY <1>4, <1>0 DEF NcClose, FilesTyped
    <2>2. StateTyped'
      BY <1>4, <1>0 DEF NcClose, Pcs
    <2>3. ASSUME NEW q \in Procs
          PROVE  HeldOK(q)'
      BY <1>4, <1>0 DEF NcClose, FilesTyped, HeldOK
    <2> QED
      BY <2>1, <2>2, <2>3 DEF IInv
  <1>5. CASE WriteFails(p)
    <2>1. FilesTyped'
      BY <1>5, <1>0 DEF WriteFails, FilesTyped
    <2>2. StateTyped'
      BY <1>5, <1>0 DEF WriteFails, Pcs
    <2>3. ASSUME NEW q \in Procs
          PROVE  HeldOK(q)'
      BY <1>5, <1>0 DEF WriteFails, FilesTyped, HeldOK
    <2> QED
      BY <2>1, <2>2, <2>3 DEF IInv
  <1>6. CASE LibraryThrows(p)
    <2>1. nc[p] \in 1..Len(disk)
      BY <1>0, <1>6, LenProperties DEF LibraryThrows, FilesTyped, HeldOK
    <2>2. FilesTyped'
      BY <1>0, <1>6, <2>1 DEF LibraryThrows, FilesTyped
    <2>3. StateTyped'
      BY <1>0, <1>6 DEF LibraryThrows, Pcs
    <2>4. ASSUME NEW q \in Procs
          PROVE  HeldOK(q)'
      BY <1>0, <1>6 DEF LibraryThrows, FilesTyped, HeldOK
    <2> QED
      BY <2>2, <2>3, <2>4 DEF IInv
  <1> QED
    BY <1>1, <1>2, <1>3, <1>4, <1>5, <1>6 DEF Transform

LEMMA TransmitIInv ==
  ASSUME IInv, NEW p \in Procs, Transmit(p)
  PROVE  IInv'
  <1> USE DEF At, To, Throw, shared, request, opened, copied, StateTyped
  <1>0. /\ FilesTyped /\ StateTyped /\ \A q \in Procs : HeldOK(q)
        /\ HeldOK(p)
    BY DEF IInv
  <1>1. CASE CheckStream(p)
    <2>1. FilesTyped'
      BY <1>1, <1>0 DEF CheckStream, FilesTyped
    <2>2. StateTyped'
      BY <1>1, <1>0 DEF CheckStream, Pcs
    <2>3. ASSUME NEW q \in Procs
          PROVE  HeldOK(q)'
      BY <1>1, <1>0 DEF CheckStream, FilesTyped, HeldOK
    <2> QED
      BY <2>1, <2>2, <2>3 DEF IInv
  <1>2. CASE CopyBlock(p)
    <2>1. fd[p] \in 1..Len(disk)
      BY <1>0, <1>2, LenProperties DEF CopyBlock, FilesTyped, HeldOK
    <2>2. offset[p] + 1 \in 1..MaxBlocks
      BY <1>0, <1>2, BoundsAssumption DEF CopyBlock, More
    <2>3. disk[fd[p]].blocks[offset[p] + 1] \in Block \cup {Hole}
      <3>1. disk[fd[p]].blocks \in [1..MaxBlocks -> Block \cup {Hole}]
        BY <1>0, <2>1, InodeBlocks, Zenon
      <3> QED
        BY <2>2, <3>1
    <2>4. sent' \in [Procs -> Seq(Block \cup {Hole})]
      <3>1. CASE UNCHANGED sent
        BY <1>0, <3>1
      <3>2. CASE sent' = [sent EXCEPT ![p] = Append(@, disk[fd[p]].blocks[offset[p] + 1])]
        <4>1. Append(sent[p], disk[fd[p]].blocks[offset[p] + 1]) \in Seq(Block \cup {Hole})
          BY <1>0, <2>3, AppendProperties
        <4> QED
          BY <1>0, <3>2, <4>1
      <3> QED
        BY <1>2, <3>1, <3>2 DEF CopyBlock
    <2>5. FilesTyped'
      BY <1>0, <1>2 DEF CopyBlock, FilesTyped
    <2>6. StateTyped'
      <3>1. /\ offset' = [offset EXCEPT ![p] = offset[p] + 1]
            /\ UNCHANGED <<left, pc, requests, nr, size, umask, name, written, reply>>
        BY <1>2 DEF CopyBlock
      <3>2. offset' \in [Procs -> 0..MaxBlocks]
        BY <1>0, <2>2, <3>1, BoundsAssumption
      <3> QED
        BY <1>0, <2>4, <3>1, <3>2, Zenon
    <2>7. ASSUME NEW q \in Procs
          PROVE  HeldOK(q)'
      BY <1>0, <1>2 DEF CopyBlock, HeldOK
    <2> QED
      BY <2>5, <2>6, <2>7 DEF IInv
  <1>3. CASE CopyEnds(p)
    <2>1. FilesTyped'
      BY <1>3, <1>0 DEF CopyEnds, FilesTyped
    <2>2. StateTyped'
      BY <1>3, <1>0 DEF CopyEnds, Pcs
    <2>3. ASSUME NEW q \in Procs
          PROVE  HeldOK(q)'
      BY <1>3, <1>0 DEF CopyEnds, FilesTyped, HeldOK
    <2> QED
      BY <2>1, <2>2, <2>3 DEF IInv
  <1>4. CASE CloseDescriptor(p)
    <2>1. FilesTyped'
      BY <1>4, <1>0 DEF CloseDescriptor, FilesTyped
    <2>2. StateTyped'
      BY <1>4, <1>0 DEF CloseDescriptor, Pcs
    <2>3. ASSUME NEW q \in Procs
          PROVE  HeldOK(q)'
      BY <1>4, <1>0 DEF CloseDescriptor, FilesTyped, HeldOK
    <2> QED
      BY <2>1, <2>2, <2>3 DEF IInv
  <1>5. CASE Unlink(p)
    <2>1. FilesTyped'
      BY <1>5, <1>0 DEF Unlink, FilesTyped
    <2>2. StateTyped'
      BY <1>5, <1>0, BoundsAssumption DEF Unlink, Pcs
    <2>3. ASSUME NEW q \in Procs
          PROVE  HeldOK(q)'
      BY <1>5, <1>0 DEF Unlink, FilesTyped, HeldOK
    <2> QED
      BY <2>1, <2>2, <2>3 DEF IInv
  <1> QED
    BY <1>1, <1>2, <1>3, <1>4, <1>5 DEF Transmit

LEMMA OtherIInv ==
  ASSUME IInv, NEW p \in Procs, Die(p) \/ \E k \in 1..MaxBlocks : Arrive(p, k)
  PROVE  IInv'
  <1> USE DEF At, To, Throw, shared, request, opened, copied, StateTyped
  <1>0. /\ FilesTyped /\ StateTyped /\ \A q \in Procs : HeldOK(q)
        /\ HeldOK(p)
    BY DEF IInv
  <1>1. CASE Die(p)
    <2>1. FilesTyped'
      BY <1>1, <1>0 DEF Die, FilesTyped
    <2>2. StateTyped'
      BY <1>1, <1>0, BoundsAssumption DEF Die, Pcs
    <2>3. ASSUME NEW q \in Procs
          PROVE  HeldOK(q)'
      BY <1>1, <1>0 DEF Die, FilesTyped, HeldOK
    <2> QED
      BY <2>1, <2>2, <2>3 DEF IInv
  <1>2. ASSUME NEW k \in 1..MaxBlocks, Arrive(p, k)
        PROVE  IInv'
    <2>1. FilesTyped'
      BY <1>2, <1>0 DEF Arrive, FilesTyped
    <2>2. StateTyped'
      BY <1>2, <1>0, EmptySeq, BoundsAssumption DEF Arrive, Pcs
    <2>3. ASSUME NEW q \in Procs
          PROVE  HeldOK(q)'
      BY <1>2, <1>0 DEF Arrive, FilesTyped, HeldOK
    <2> QED
      BY <2>1, <2>2, <2>3 DEF IInv
  <1> QED
    BY <1>1, <1>2

LEMMA NextIInv == IInv /\ [Next]_vars => IInv'
  <1> SUFFICES ASSUME IInv, [Next]_vars PROVE IInv'
    OBVIOUS
  <1>1. CASE UNCHANGED vars
    BY <1>1 DEF vars, shared, request, opened, copied, IInv, FilesTyped, StateTyped, HeldOK
  <1>2. CASE Next
    BY <1>1, <1>2, PrepareIInv, TransformIInv, TransmitIInv, OtherIInv
    DEF Next, send_data, Terminating
  <1> QED
    BY <1>1, <1>2

LEMMA Invariance == Spec => []IInv
  BY InitIInv, NextIInv, PTL DEF Spec

(* Every variable keeps its type.                                          *)
THEOREM TypeCorrect == Spec => []TypeOK
  <1>1. IInv => TypeOK
    BY DEF IInv, FilesTyped, StateTyped, TypeOK
  <1> QED
    BY <1>1, Invariance, PTL

---------------------------------------------------------------------------
(* What requests leave behind.                                             *)

(* Whatever fails, the directory holds only the files of requests under    *)
(* way and of processes that were killed.                                  *)
THEOREM NothingLeftOver == Spec => []NoLeftovers
  <1> USE DEF At, To, Throw, shared, request, opened, copied
  <1>1. Init => NoLeftovers
    BY DEF Init, NoLeftovers
  <1>2. IInv /\ NoLeftovers /\ [Next]_vars => NoLeftovers'
    <2> SUFFICES ASSUME IInv, NoLeftovers, [Next]_vars,
                        NEW f \in Names, dir'[f] # 0
                 PROVE  f \in left' \/ \E q \in Procs : f \in name'[q]
      BY DEF NoLeftovers
    <2>0. /\ name \in [Procs -> SUBSET Names] /\ dir \in [Names -> Nat]
          /\ dir[f] # 0 => f \in left \/ \E q \in Procs : f \in name[q]
          /\ \A q \in Procs : HeldOK(q)
      BY DEF NoLeftovers, IInv, StateTyped, FilesTyped
    <2>1. CASE UNCHANGED <<dir, left, name>>
      BY <2>0, <2>1
    <2>2. ASSUME NEW p \in Procs, NEW g \in Names, Mkstemp(p, g) \/ MkstempFails(p, g)
          PROVE  f \in left' \/ \E q \in Procs : f \in name'[q]
      <3>1. name' = [name EXCEPT ![p] = {g}] /\ left' = left /\ (f # g => dir'[f] = dir[f])
        BY <2>0, <2>2 DEF Mkstemp, MkstempFails
      <3>2. name[p] = {}
        BY <2>0, <2>2 DEF Mkstemp, MkstempFails, HeldOK
      <3> QED
        BY <2>0, <3>1, <3>2
    <2>3. ASSUME NEW p \in Procs, NcCreate(p)
          PROVE  f \in left' \/ \E q \in Procs : f \in name'[q]
      <3>1. /\ left' = left /\ name' = name
            /\ dir' = dir \/ dir' = [dir EXCEPT ![TempFile(p)] = Len(disk) + 1]
        BY <2>3 DEF NcCreate
      <3>2. TempFile(p) \in name[p]
        BY <2>0, <2>3 DEF NcCreate, TempFile, HeldOK
      <3> QED
        BY <2>0, <3>1, <3>2
    <2>4. ASSUME NEW p \in Procs, Unlink(p)
          PROVE  f \in left' \/ \E q \in Procs : f \in name'[q]
      BY <2>0, <2>4 DEF Unlink
    <2>5. ASSUME NEW p \in Procs, Die(p)
          PROVE  f \in left' \/ \E q \in Procs : f \in name'[q]
      BY <2>0, <2>5 DEF Die
    <2>6. ASSUME NEW p \in Procs, send_data(p),
                 ~Unlink(p), ~NcCreate(p), ~\E g \in Names : Mkstemp(p, g) \/ MkstempFails(p, g)
          PROVE  UNCHANGED <<dir, left, name>>
      BY <2>6 DEF send_data, Prepare, Transform, Transmit, Load, LoadFails, CheckDescriptor,
         ConvertFails, WriteBlock, NcClose, WriteFails, LibraryThrows, CheckStream, CopyBlock,
         CopyEnds, CloseDescriptor
    <2>7. ASSUME NEW p \in Procs, NEW k \in 1..MaxBlocks, Arrive(p, k)
          PROVE  UNCHANGED <<dir, left, name>>
      BY <2>7 DEF Arrive
    <2> QED
      BY <2>1, <2>2, <2>3, <2>4, <2>5, <2>6, <2>7 DEF Next, Terminating, vars
  <1> QED
    BY <1>1, <1>2, Invariance, PTL DEF Spec

(* Only an exception of libdap that transform() does not catch leaves a    *)
(* netCDF handle open.                                                     *)
LeakOK == \A p \in Procs : leaked[p] # {} => "libdap" \in Failures

LEMMA OnlyLibdapLeaks == Spec => []LeakOK
  <1> USE DEF At, To, Throw, shared, request, opened, copied
  <1>1. Init => LeakOK
    BY DEF Init, LeakOK
  <1>2. IInv /\ LeakOK /\ [Next]_vars => LeakOK'
    <2> SUFFICES ASSUME IInv, LeakOK, [Next]_vars
                 PROVE  LeakOK'
      OBVIOUS
    <2>0. \A p \in Procs : leaked \in [Procs -> SUBSET (1..Len(disk))]
      BY DEF IInv, FilesTyped
    <2>1. CASE UNCHANGED leaked
      BY <2>1 DEF LeakOK
    <2>2. ASSUME NEW p \in Procs, LibraryThrows(p) \/ Die(p)
          PROVE  LeakOK'
      BY <2>0, <2>2 DEF LibraryThrows, Die, LeakOK
    <2>3. ASSUME NEW p \in Procs, send_data(p), ~LibraryThrows(p)
          PROVE  UNCHANGED leaked
      BY <2>3 DEF send_data, Prepare, Transform, Transmit, Load, LoadFails, Mkstemp, MkstempFails,
         CheckDescriptor, ConvertFails, NcCreate, WriteBlock, NcClose, WriteFails, CheckStream,
         CopyBlock, CopyEnds, CloseDescriptor, Unlink
    <2>4. ASSUME NEW p \in Procs, NEW k \in 1..MaxBlocks, Arrive(p, k)
          PROVE  UNCHANGED leaked
      BY <2>4 DEF Arrive
    <2> QED
      BY <2>1, <2>2, <2>3, <2>4 DEF Next, Terminating, vars
  <1> QED
    BY <1>1, <1>2, Invariance, PTL DEF Spec

(* Unless libdap threw, a process between two requests has nothing of the  *)
(* last one.                                                               *)
THEOREM IdleClean ==
  ASSUME "libdap" \notin Failures
  PROVE  Spec => []IdleIsClean
  <1>1. IInv /\ LeakOK => IdleIsClean
    BY DEF IInv, FilesTyped, StateTyped, LeakOK, HeldOK, IdleIsClean
  <1> QED
    BY <1>1, Invariance, OnlyLibdapLeaks, PTL

(* With every failure, it has no descriptor, no netCDF file is open under  *)
(* its _ncid and its umask is back.                                        *)
THEOREM IdleHoldsNothing ==
  Spec => [](\A p \in Procs : pc[p] = "idle" =>
               fd[p] = 0 /\ nc[p] = 0 /\ umask[p] = "default" /\ name[p] = {})
  <1>1. IInv => \A p \in Procs : pc[p] = "idle" =>
                  fd[p] = 0 /\ nc[p] = 0 /\ umask[p] = "default" /\ name[p] = {}
    BY DEF IInv, FilesTyped, StateTyped, HeldOK
  <1> QED
    BY <1>1, Invariance, PTL

---------------------------------------------------------------------------
(* The file is used as FONcFile says.                                      *)

phase == [p \in Procs |-> Phase(p)]
open == {p \in Procs : nc[p] # 0}
lost == {p \in Procs : leaked[p] # {}}

PhaseAt(step) ==
  CASE step \in {"create", "write"} -> "working"
    [] step \in {"stream", "copy"} -> "complete"
    [] step \in {"close", "unlink"} -> "over"
    [] OTHER -> "away"

LEMMA PhaseStep ==
  ASSUME IInv, NEW p \in Procs, NEW step, pc' = [pc EXCEPT ![p] = step]
  PROVE  /\ phase' = [phase EXCEPT ![p] = PhaseAt(step)]
         /\ PhaseAt(step) = phase[p] => phase' = phase
  <1>0. pc \in [Procs -> Pcs]
    BY DEF IInv, StateTyped
  <1>1. \A q \in Procs : Phase(q) = PhaseAt(pc[q]) /\ Phase(q)' = PhaseAt(pc'[q])
    BY DEF Phase, PhaseAt
  <1>2. phase = [q \in Procs |-> PhaseAt(pc[q])] /\ phase' = [q \in Procs |-> PhaseAt(pc'[q])]
    BY <1>1, Zenon DEF phase
  <1> QED
    BY <1>0, <1>2

(* A step of p is one of its phase, its handle and its lost handles.       *)
LEMMA FileStep ==
  ASSUME IInv, NEW p \in Procs
  PROVE  /\ pc[p] \in {"idle", "load", "mkstemp", "check"} => phase[p] = "away"
         /\ pc[p] \in {"create", "write"} => phase[p] = "working"
         /\ pc[p] \in {"stream", "copy"} => phase[p] = "complete"
         /\ pc[p] \in {"close", "unlink"} => phase[p] = "over"
         /\ \/ pc' = [pc EXCEPT ![p] = "idle"] \/ pc' = [pc EXCEPT ![p] = "load"]
            \/ pc' = [pc EXCEPT ![p] = "mkstemp"] \/ pc' = [pc EXCEPT ![p] = "check"]
            => /\ phase' = [phase EXCEPT ![p] = "away"]
               /\ phase[p] = "away" => phase' = phase
         /\ pc' = [pc EXCEPT ![p] = "create"] \/ pc' = [pc EXCEPT ![p] = "write"]
            => /\ phase' = [phase EXCEPT ![p] = "working"]
               /\ phase[p] = "working" => phase' = phase
         /\ pc' = [pc EXCEPT ![p] = "stream"] \/ pc' = [pc EXCEPT ![p] = "copy"]
            => /\ phase' = [phase EXCEPT ![p] = "complete"]
               /\ phase[p] = "complete" => phase' = phase
         /\ pc' = [pc EXCEPT ![p] = "close"] \/ pc' = [pc EXCEPT ![p] = "unlink"]
            => /\ phase' = [phase EXCEPT ![p] = "over"]
               /\ phase[p] = "over" => phase' = phase
  <1>1. phase[p] = PhaseAt(pc[p])
    BY DEF phase, Phase, PhaseAt
  <1>2. \A step : pc' = [pc EXCEPT ![p] = step] =>
          /\ phase' = [phase EXCEPT ![p] = PhaseAt(step)]
          /\ PhaseAt(step) = phase[p] => phase' = phase
    BY PhaseStep
  <1>3. /\ PhaseAt("idle") = "away" /\ PhaseAt("load") = "away"
        /\ PhaseAt("mkstemp") = "away" /\ PhaseAt("check") = "away"
        /\ PhaseAt("create") = "working" /\ PhaseAt("write") = "working"
        /\ PhaseAt("stream") = "complete" /\ PhaseAt("copy") = "complete"
        /\ PhaseAt("close") = "over" /\ PhaseAt("unlink") = "over"
    BY DEF PhaseAt
  <1> QED
    BY <1>1, <1>2, <1>3

LEMMA HandleStep ==
  ASSUME IInv, NEW p \in Procs
  PROVE  /\ UNCHANGED nc => open' = open
         /\ \A n \in Nat : nc' = [nc EXCEPT ![p] = n] =>
              open' = IF n = 0 THEN open \ {p} ELSE open \cup {p}
         /\ UNCHANGED leaked => lost' = lost
         /\ \A l : leaked' = [leaked EXCEPT ![p] = l] =>
              lost' = IF l = {} THEN lost \ {p} ELSE lost \cup {p}
         /\ p \in open <=> pc[p] = "write"
  <1>0. nc \in [Procs -> Nat] /\ leaked \in [Procs -> SUBSET (1..Len(disk))] /\ HeldOK(p)
    BY DEF IInv, FilesTyped
  <1>1. p \in open <=> pc[p] = "write"
    BY <1>0 DEF HeldOK, open
  <1>2. ASSUME NEW n \in Nat, nc' = [nc EXCEPT ![p] = n]
        PROVE  open' = IF n = 0 THEN open \ {p} ELSE open \cup {p}
    BY <1>0, <1>2 DEF open
  <1>3. ASSUME NEW l, leaked' = [leaked EXCEPT ![p] = l]
        PROVE  lost' = IF l = {} THEN lost \ {p} ELSE lost \cup {p}
    BY <1>0, <1>3 DEF lost
  <1> QED
    BY <1>1, <1>2, <1>3 DEF open, lost

LEMMA PrepareFile ==
  ASSUME IInv, NEW p \in Procs, Prepare(p)
  PROVE  [File!Next]_(File!vars)
  <1> USE DEF At, To, Throw, shared, request, opened, copied
  <1>1. CASE ~CheckDescriptor(p)
    <2>1. /\ pc[p] \in {"idle", "load", "mkstemp", "check"}
          /\ \/ pc' = [pc EXCEPT ![p] = "idle"] \/ pc' = [pc EXCEPT ![p] = "mkstemp"]
             \/ pc' = [pc EXCEPT ![p] = "check"]
      BY <1>1 DEF Prepare, Load, LoadFails, Mkstemp, MkstempFails
    <2>2. phase' = phase
      BY <2>1, FileStep
    <2>3. nc' = nc /\ leaked' = leaked
      BY <1>1 DEF Prepare, Load, LoadFails, Mkstemp, MkstempFails
    <2> QED
      BY <2>2, <2>3, HandleStep DEF File!vars, phase, open, lost
  <1>2. CASE CheckDescriptor(p)
    <2>1. open' = open /\ lost' = lost
      BY <1>2, HandleStep DEF CheckDescriptor
    <2>2. /\ pc[p] = "check"
          /\ pc' = [pc EXCEPT ![p] = "close"] \/ pc' = [pc EXCEPT ![p] = "create"]
      BY <1>2 DEF CheckDescriptor
    <2>3. /\ phase[p] = "away"
          /\ phase' = [phase EXCEPT ![p] = "over"] \/ phase' = [phase EXCEPT ![p] = "working"]
      BY <2>2, FileStep
    <2>4. File!Enter(p) \/ File!Skip(p)
      BY <2>1, <2>3 DEF File!Enter, File!Skip, File!Move, phase, open, lost
    <2> QED
      BY <2>4 DEF File!Next
  <1> QED
    BY <1>1, <1>2

LEMMA TransformFile ==
  ASSUME IInv, NEW p \in Procs, Transform(p)
  PROVE  [File!Next]_(File!vars)
  <1> USE DEF At, To, Throw, shared, request, opened, copied
  <1>1. CASE ConvertFails(p)
    <2>1. open' = open /\ lost' = lost /\ p \notin open
      BY <1>1, HandleStep DEF ConvertFails
    <2>2. phase[p] = "working" /\ phase' = [phase EXCEPT ![p] = "over"]
      BY <1>1, FileStep DEF ConvertFails
    <2>3. File!Fail(p)
      BY <2>1, <2>2 DEF File!Fail, File!Move, phase, open, lost
    <2> QED
      BY <2>3 DEF File!Next
  <1>2. CASE NcCreate(p)
    <2>1. phase[p] = "working" /\ phase' = phase
      BY <1>2, FileStep DEF NcCreate
    <2>2. \E n \in Nat : n # 0 /\ nc' = [nc EXCEPT ![p] = n]
      <3>1. TempFile(p) \in Names
        BY <1>2 DEF NcCreate, TempFile, IInv, HeldOK
      <3>2. Len(disk) + 1 \in Nat /\ Len(disk) + 1 # 0 /\ dir[TempFile(p)] \in Nat
        BY <3>1, LenProperties DEF IInv, FilesTyped
      <3> QED
        BY <1>2, <3>2 DEF NcCreate
    <2>3. lost' = lost /\ p \notin open /\ open' = open \cup {p}
      BY <1>2, <2>2, HandleStep DEF NcCreate
    <2>4. File!Create(p)
      BY <2>1, <2>3 DEF File!Create, phase, open, lost
    <2> QED
      BY <2>4 DEF File!Next
  <1>3. CASE WriteBlock(p)
    <2>1. pc' = pc /\ nc' = nc /\ leaked' = leaked
      BY <1>3 DEF WriteBlock
    <2> QED
      BY <2>1 DEF File!vars, Phase
  <1>4. CASE NcClose(p)
    <2>1. p \in open /\ open' = open \ {p} /\ lost' = lost
      BY <1>4, HandleStep DEF NcClose
    <2>2. phase[p] = "working" /\ phase' = [phase EXCEPT ![p] = "complete"]
      BY <1>4, FileStep DEF NcClose
    <2>3. File!Return(p)
      BY <2>1, <2>2 DEF File!Return, File!Move, phase, open, lost
    <2> QED
      BY <2>3 DEF File!Next
  <1>5. CASE WriteFails(p)
    <2>1. open' = open \ {p} /\ lost' = lost
      BY <1>5, HandleStep DEF WriteFails
    <2>2. phase[p] = "working" /\ phase' = [phase EXCEPT ![p] = "over"]
      BY <1>5, FileStep DEF WriteFails
    <2>3. File!Fail(p)
      BY <2>1, <2>2 DEF File!Fail, File!Move, phase, open, lost
    <2> QED
      BY <2>3 DEF File!Next
  <1>6. CASE LibraryThrows(p)
    <2>1. p \in open /\ open' = open \ {p} /\ lost' = lost \cup {p}
      <3>1. leaked' = [leaked EXCEPT ![p] = leaked[p] \cup {nc[p]}] /\ leaked[p] \cup {nc[p]} # {}
        BY <1>6 DEF LibraryThrows
      <3> QED
        BY <1>6, <3>1, HandleStep DEF LibraryThrows
    <2>2. phase[p] = "working" /\ phase' = [phase EXCEPT ![p] = "over"]
      BY <1>6, FileStep DEF LibraryThrows
    <2>3. File!Lose(p)
      BY <1>6, <2>1, <2>2 DEF LibraryThrows, File!Lose, File!Move, phase, open, lost
    <2> QED
      BY <2>3 DEF File!Next
  <1> QED
    BY <1>1, <1>2, <1>3, <1>4, <1>5, <1>6 DEF Transform

LEMMA TransmitFile ==
  ASSUME IInv, NEW p \in Procs, Transmit(p)
  PROVE  [File!Next]_(File!vars)
  <1> USE DEF At, To, Throw, shared, request, opened, copied
  <1>0. open' = open /\ lost' = lost
    BY HandleStep DEF Transmit, CheckStream, CopyBlock, CopyEnds, CloseDescriptor, Unlink
  <1>1. CASE Unlink(p)
    <2>1. phase[p] = "over" /\ phase' = [phase EXCEPT ![p] = "away"]
      BY <1>1, FileStep DEF Unlink
    <2>2. File!Leave(p)
      BY <1>0, <2>1 DEF File!Leave, File!Move, phase, open, lost
    <2> QED
      BY <2>2 DEF File!Next
  <1>2. CASE pc[p] \in {"stream", "copy"} /\ pc' = [pc EXCEPT ![p] = "close"]
    <2>1. phase[p] = "complete" /\ phase' = [phase EXCEPT ![p] = "over"]
      BY <1>2, FileStep
    <2>2. File!Read(p)
      BY <1>0, <2>1 DEF File!Read, File!Move, phase, open, lost
    <2> QED
      BY <2>2 DEF File!Next
  <1>3. CASE ~Unlink(p) /\ ~(pc[p] \in {"stream", "copy"} /\ pc' = [pc EXCEPT ![p] = "close"])
    <2>1. \/ pc' = pc
          \/ pc[p] = "stream" /\ pc' = [pc EXCEPT ![p] = "copy"]
          \/ pc[p] = "close" /\ pc' = [pc EXCEPT ![p] = "unlink"]
      BY <1>3 DEF Transmit, CheckStream, CopyBlock, CopyEnds, CloseDescriptor
    <2>2. phase' = phase
      <3>1. CASE pc' = pc
        BY <3>1 DEF phase, Phase
      <3> QED
        BY <2>1, <3>1, FileStep
    <2> QED
      BY <1>0, <2>2 DEF File!vars, phase, open, lost
  <1> QED
    BY <1>1, <1>2, <1>3

LEMMA DieFile ==
  ASSUME IInv, NEW p \in Procs, Die(p)
  PROVE  [File!Next]_(File!vars)
  <1>1. open' = open \ {p} /\ lost' = lost \ {p}
    BY HandleStep DEF Die
  <1>2. phase' = [phase EXCEPT ![p] = "away"]
    BY FileStep DEF Die, To
  <1>3. File!Die(p)
    BY <1>1, <1>2 DEF Die, File!Die, phase, open, lost
  <1> QED
    BY <1>3 DEF File!Next

(* FONcTransmitter uses FONcTransform as FONcFile says: every step of a    *)
(* process is one of FONcFile or leaves the file as it is.                 *)
THEOREM ImplementsFile == Spec => FileUse
  <1>1. Init => File!Init
    BY DEF Init, File!Init, Phase
  <1>2. IInv /\ [Next]_vars => [File!Next]_(File!vars)
    <2> SUFFICES ASSUME IInv, [Next]_vars
                 PROVE  [File!Next]_(File!vars)
      OBVIOUS
    <2>1. CASE UNCHANGED vars
      BY <2>1 DEF vars, opened, File!vars, Phase
    <2>2. ASSUME NEW p \in Procs, NEW k \in 1..MaxBlocks, Arrive(p, k)
          PROVE  [File!Next]_(File!vars)
      <3>1. phase' = phase
        BY <2>2, FileStep DEF Arrive, At, To
      <3>2. nc' = nc /\ leaked' = leaked
        BY <2>2 DEF Arrive, opened
      <3> QED
        BY <3>1, <3>2, HandleStep DEF File!vars, phase, open, lost
    <2> QED
      BY <2>1, <2>2, PrepareFile, TransformFile, TransmitFile, DieFile
      DEF Next, send_data, Terminating
  <1> QED
    BY <1>1, <1>2, Invariance, PTL DEF Spec, FileUse, File!Spec

---------------------------------------------------------------------------
(* Whose data a client is sent, for a BES whose mkstemp does not fail.     *)
(* (One that fails leaves a name in the template, which ~wrap_temp_name    *)
(* unlinks, whoever made the file of that name.)                           *)

HasName(p) == pc[p] \notin {"idle", "load", "mkstemp"}

(* From mkstemp to unlink: the name leads to the process's file, the one   *)
(* its descriptor has; no other process has the name; and no two names     *)
(* lead to the same file.                                                  *)
OwnFile(p) ==
  HasName(p) => \A f \in name[p] :
    /\ dir[f] # 0
    /\ pc[p] # "unlink" => fd[p] # 0 /\ dir[f] = fd[p]

NamesOwn ==
  /\ \A p \in Procs : OwnFile(p)
  /\ \A p, q \in Procs : p # q => name[p] \cap name[q] = {}
  /\ \A f, g \in Names : dir[f] # 0 /\ dir[f] = dir[g] => f = g

(* The name of a process that has one.                                     *)
LEMMA TheName ==
  ASSUME IInv, NEW p \in Procs
  PROVE  /\ HasName(p) => TempFile(p) \in Names /\ name[p] = {TempFile(p)}
         /\ ~HasName(p) => name[p] = {}
  <1>1. HeldOK(p)
    BY DEF IInv
  <1> QED
    BY <1>1 DEF HeldOK, HasName, TempFile

(* A step of p that opens, closes and renames nothing.                     *)
LEMMA NamesKept ==
  ASSUME IInv, NamesOwn, UNCHANGED <<dir, name, fd>>, NEW p \in Procs, NEW step,
         pc' = [pc EXCEPT ![p] = step], HasName(p)' => HasName(p),
         pc[p] # "unlink" \/ ~HasName(p)'
  PROVE  NamesOwn'
  <1>1. pc \in [Procs -> Pcs]
    BY DEF IInv, StateTyped
  <1>2. ASSUME NEW q \in Procs
        PROVE  OwnFile(q)'
    <2>1. OwnFile(q)
      BY DEF NamesOwn
    <2>2. CASE q = p
      BY <2>1, <2>2 DEF OwnFile
    <2>3. CASE q # p
      BY <1>1, <2>1, <2>3 DEF OwnFile, HasName
    <2> QED
      BY <2>2, <2>3
  <1> QED
    BY <1>2 DEF NamesOwn

LEMMA MkstempNames ==
  ASSUME IInv, NamesOwn, NEW p \in Procs, NEW f \in Names, Mkstemp(p, f)
  PROVE  NamesOwn'
  <1>1. /\ pc[p] = "mkstemp" /\ dir[f] = 0
        /\ dir' = [dir EXCEPT ![f] = Len(disk) + 1]
        /\ fd' = [fd EXCEPT ![p] = Len(disk) + 1]
        /\ name' = [name EXCEPT ![p] = {f}]
        /\ pc' = [pc EXCEPT ![p] = "check"]
    BY DEF Mkstemp, At, To
  <1>2. /\ dir \in [Names -> Nat] /\ \A g \in Names : dir[g] <= Len(disk)
        /\ Len(disk) \in Nat /\ fd \in [Procs -> Nat]
        /\ name \in [Procs -> SUBSET Names] /\ pc \in [Procs -> Pcs]
    BY LenProperties DEF IInv, FilesTyped, StateTyped
  <1>3. \A q \in Procs : f \notin name[q]
    BY <1>1, TheName DEF NamesOwn, OwnFile
  <1>4. ASSUME NEW q \in Procs
        PROVE  OwnFile(q)'
    <2>1. CASE q = p
      BY <1>1, <1>2, <2>1 DEF OwnFile
    <2>2. CASE q # p
      <3>1. /\ name'[q] = name[q] /\ fd'[q] = fd[q] /\ pc'[q] = pc[q]
            /\ \A g \in name[q] : dir'[g] = dir[g]
        BY <1>1, <1>2, <1>3, <2>2
      <3> QED
        BY <3>1 DEF NamesOwn, OwnFile, HasName
    <2> QED
      BY <2>1, <2>2
  <1>5. ASSUME NEW q \in Procs, NEW r \in Procs, q # r
        PROVE  name'[q] \cap name'[r] = {}
    BY <1>1, <1>2, <1>3, <1>5 DEF NamesOwn
  <1>6. ASSUME NEW g \in Names, NEW h \in Names, dir'[g] # 0, dir'[g] = dir'[h]
        PROVE  g = h
    BY <1>1, <1>2, <1>6 DEF NamesOwn
  <1> QED
    BY <1>4, <1>5, <1>6 DEF NamesOwn

LEMMA UnlinkNames ==
  ASSUME IInv, NamesOwn, NEW p \in Procs, Unlink(p)
  PROVE  NamesOwn'
  <1>1. /\ dir' = [f \in Names |-> IF f \in name[p] THEN 0 ELSE dir[f]]
        /\ name' = [name EXCEPT ![p] = {}]
        /\ pc' = [pc EXCEPT ![p] = "idle"] /\ fd' = fd
    BY DEF Unlink, To, opened
  <1>2. /\ dir \in [Names -> Nat] /\ name \in [Procs -> SUBSET Names] /\ pc \in [Procs -> Pcs]
    BY DEF IInv, FilesTyped, StateTyped
  <1>3. ASSUME NEW q \in Procs
        PROVE  OwnFile(q)'
    <2>1. CASE q = p
      BY <1>1, <1>2, <2>1 DEF OwnFile
    <2>2. CASE q # p
      <3>1. /\ name'[q] = name[q] /\ fd'[q] = fd[q] /\ pc'[q] = pc[q]
            /\ \A g \in name[q] : dir'[g] = dir[g]
        BY <1>1, <1>2, <2>2 DEF NamesOwn
      <3> QED
        BY <3>1 DEF NamesOwn, OwnFile, HasName
    <2> QED
      BY <2>1, <2>2
  <1>4. ASSUME NEW q \in Procs, NEW r \in Procs, q # r
        PROVE  name'[q] \cap name'[r] = {}
    BY <1>1, <1>2, <1>4 DEF NamesOwn
  <1>5. ASSUME NEW g \in Names, NEW h \in Names, dir'[g] # 0, dir'[g] = dir'[h]
        PROVE  g = h
    BY <1>1, <1>2, <1>5 DEF NamesOwn
  <1> QED
    BY <1>3, <1>4, <1>5 DEF NamesOwn

LEMMA DieNames ==
  ASSUME IInv, NamesOwn, NEW p \in Procs, Die(p)
  PROVE  NamesOwn'
  <1>1. /\ dir' = dir
        /\ name' = [name EXCEPT ![p] = {}] /\ fd' = [fd EXCEPT ![p] = 0]
        /\ pc' = [pc EXCEPT ![p] = "idle"]
    BY DEF Die, To
  <1>2. /\ name \in [Procs -> SUBSET Names] /\ pc \in [Procs -> Pcs] /\ fd \in [Procs -> Nat]
    BY DEF IInv, FilesTyped, StateTyped
  <1>3. ASSUME NEW q \in Procs
        PROVE  OwnFile(q)'
    <2>1. CASE q = p
      BY <1>1, <1>2, <2>1 DEF OwnFile
    <2>2. CASE q # p
      BY <1>1, <1>2, <2>2 DEF NamesOwn, OwnFile, HasName
    <2> QED
      BY <2>1, <2>2
  <1>4. ASSUME NEW q \in Procs, NEW r \in Procs, q # r
        PROVE  name'[q] \cap name'[r] = {}
    BY <1>1, <1>2, <1>4 DEF NamesOwn
  <1> QED
    BY <1>1, <1>3, <1>4 DEF NamesOwn

LEMMA CloseNames ==
  ASSUME IInv, NamesOwn, NEW p \in Procs, CloseDescriptor(p)
  PROVE  NamesOwn'
  <1>1. /\ dir' = dir /\ name' = name /\ fd' = [fd EXCEPT ![p] = 0]
        /\ pc[p] = "close" /\ pc' = [pc EXCEPT ![p] = "unlink"]
    BY DEF CloseDescriptor, At, To, shared
  <1>2. /\ pc \in [Procs -> Pcs] /\ fd \in [Procs -> Nat]
    BY DEF IInv, FilesTyped, StateTyped
  <1>3. ASSUME NEW q \in Procs
        PROVE  OwnFile(q)'
    <2>1. CASE q = p
      BY <1>1, <1>2, <2>1 DEF NamesOwn, OwnFile, HasName
    <2>2. CASE q # p
      BY <1>1, <1>2, <2>2 DEF NamesOwn, OwnFile, HasName
    <2> QED
      BY <2>1, <2>2
  <1> QED
    BY <1>1, <1>3 DEF NamesOwn

(* nc_create finds the file that mkstemp made.                             *)
LEMMA CreateFinds ==
  ASSUME IInv, NamesOwn, NEW p \in Procs, NcCreate(p)
  PROVE  /\ dir[TempFile(p)] = fd[p] /\ fd[p] # 0
         /\ disk' = [disk EXCEPT ![fd[p]].blocks = Empty]
         /\ nc' = [nc EXCEPT ![p] = fd[p]]
         /\ UNCHANGED <<dir, fd>>
  <1>1. pc[p] = "create"
    BY DEF NcCreate, At
  <1>2. TempFile(p) \in name[p]
    BY <1>1, TheName DEF HasName
  <1>3. dir[TempFile(p)] = fd[p] /\ fd[p] # 0
    BY <1>1, <1>2 DEF NamesOwn, OwnFile, HasName
  <1> QED
    BY <1>3 DEF NcCreate

LEMMA NamesStep ==
  ASSUME "mkstemp" \notin Failures, IInv, NamesOwn, [Next]_vars
  PROVE  NamesOwn'
  <1>1. CASE UNCHANGED <<dir, name, fd, pc>>
    BY <1>1 DEF NamesOwn, OwnFile, HasName
  <1>2. ASSUME NEW p \in Procs, Prepare(p)
        PROVE  NamesOwn'
    <2>1. CASE \E f \in Names : Mkstemp(p, f)
      BY <2>1, MkstempNames
    <2>2. ASSUME Load(p) \/ LoadFails(p) \/ CheckDescriptor(p)
          PROVE  NamesOwn'
      <3>1. /\ UNCHANGED <<dir, name, fd>> /\ pc[p] # "unlink"
            /\ \/ pc' = [pc EXCEPT ![p] = "mkstemp"] \/ pc' = [pc EXCEPT ![p] = "idle"]
               \/ HasName(p) /\ pc' = [pc EXCEPT ![p] = "close"]
               \/ HasName(p) /\ pc' = [pc EXCEPT ![p] = "create"]
        BY <2>2 DEF Load, LoadFails, CheckDescriptor, At, To, Throw, HasName, shared, opened
      <3>2. HasName(p)' => HasName(p)
        BY <3>1 DEF HasName, IInv, StateTyped
      <3> QED
        BY <3>1, <3>2, NamesKept
    <2> QED
      BY <1>2, <2>1, <2>2 DEF Prepare, MkstempFails
  <1>3. ASSUME NEW p \in Procs, Transform(p) \/ Transmit(p)
        PROVE  NamesOwn'
    <2>1. CASE CloseDescriptor(p)
      BY <2>1, CloseNames
    <2>2. CASE Unlink(p)
      BY <2>2, UnlinkNames
    <2>3. CASE WriteBlock(p) \/ CopyBlock(p)
      BY <1>1, <2>3 DEF WriteBlock, CopyBlock, shared, opened
    <2>4. CASE NcCreate(p)
      <3>1. /\ UNCHANGED <<dir, fd>> /\ name' = name
            /\ pc[p] = "create" /\ pc' = [pc EXCEPT ![p] = "write"]
        BY <2>4, CreateFinds DEF NcCreate, At, To
      <3> QED
        BY <3>1, NamesKept DEF HasName
    <2>5. CASE \/ ConvertFails(p) \/ NcClose(p) \/ WriteFails(p) \/ LibraryThrows(p)
               \/ CheckStream(p) \/ CopyEnds(p)
      <3>1. /\ UNCHANGED <<dir, name, fd>>
            /\ pc[p] \in {"create", "write", "stream", "copy"}
            /\ \/ pc' = [pc EXCEPT ![p] = "close"] \/ pc' = [pc EXCEPT ![p] = "stream"]
               \/ pc' = [pc EXCEPT ![p] = "copy"]
        BY <2>5 DEF ConvertFails, NcClose, WriteFails, LibraryThrows, CheckStream, CopyEnds,
           At, To, Throw, shared, opened
      <3> QED
        BY <3>1, NamesKept DEF HasName
    <2> QED
      BY <1>3, <2>1, <2>2, <2>3, <2>4, <2>5 DEF Transform, Transmit
  <1>4. ASSUME NEW p \in Procs, NEW k \in 1..MaxBlocks, Arrive(p, k)
        PROVE  NamesOwn'
    <2>1. /\ UNCHANGED <<dir, name, fd>>
          /\ pc[p] = "idle" /\ pc' = [pc EXCEPT ![p] = "load"]
      BY <1>4 DEF Arrive, At, To, shared, opened
    <2>2. ~HasName(p)'
      BY <2>1 DEF HasName, IInv, StateTyped
    <2> QED
      BY <2>1, <2>2, NamesKept
  <1> QED
    BY <1>1, <1>2, <1>3, <1>4, DieNames DEF Next, send_data, Terminating, vars, shared, opened

(* The name a process made leads to the file its descriptor has, and no    *)
(* other process uses the name.                                            *)
THEOREM NameOwned ==
  ASSUME "mkstemp" \notin Failures
  PROVE  Spec => []NameIsOwn
  <1>1. Init => NamesOwn
    BY DEF Init, NamesOwn, OwnFile, HasName
  <1>2. IInv /\ NamesOwn /\ [Next]_vars => NamesOwn'
    BY NamesStep
  <1>3. IInv /\ NamesOwn => NameIsOwn
    <2> SUFFICES ASSUME IInv, NamesOwn, NEW p \in Procs,
                        pc[p] \in {"check", "create", "write", "stream", "copy", "close"}
                 PROVE  /\ fd[p] # 0 => dir[TempFile(p)] = fd[p]
                        /\ \A q \in Procs : q # p => name[q] \cap name[p] = {}
      BY DEF NameIsOwn
    <2>1. TempFile(p) \in name[p]
      BY TheName DEF HasName
    <2> QED
      BY <2>1 DEF NamesOwn, OwnFile, HasName
  <1> QED
    BY <1>1, <1>2, <1>3, Invariance, PTL DEF Spec

---------------------------------------------------------------------------
(* What a step of p does to another process q: nothing.                    *)
Acts(p) == send_data(p) \/ Die(p) \/ \E k \in 1..MaxBlocks : Arrive(p, k)

SameState(q) ==
  /\ pc'[q] = pc[q] /\ nr'[q] = nr[q] /\ size'[q] = size[q] /\ reply'[q] = reply[q]
  /\ fd'[q] = fd[q] /\ nc'[q] = nc[q]
  /\ written'[q] = written[q] /\ offset'[q] = offset[q] /\ sent'[q] = sent[q]

LEMMA OthersKeepState ==
  ASSUME IInv, NEW p \in Procs, NEW q \in Procs, q # p, Acts(p)
  PROVE  SameState(q)
  <1> USE DEF At, To, Throw, shared, request, opened, copied, SameState
  <1>0. /\ pc \in [Procs -> Pcs] /\ nr \in [Procs -> 0..MaxRequests]
        /\ size \in [Procs -> 0..MaxBlocks] /\ reply \in [Procs -> {"none", "ok", "error"}]
        /\ fd \in [Procs -> Nat] /\ nc \in [Procs -> Nat]
        /\ written \in [Procs -> 0..MaxBlocks] /\ offset \in [Procs -> 0..MaxBlocks]
        /\ sent \in [Procs -> Seq(Block \cup {Hole})]
    BY DEF IInv, FilesTyped, StateTyped
  <1>1. CASE Prepare(p)
    BY <1>0, <1>1 DEF Prepare, Load, LoadFails, CheckDescriptor, Mkstemp, MkstempFails
  <1>2. CASE ConvertFails(p) \/ NcCreate(p) \/ WriteBlock(p)
    BY <1>0, <1>2 DEF ConvertFails, NcCreate, WriteBlock
  <1>3. CASE NcClose(p) \/ WriteFails(p) \/ LibraryThrows(p)
    BY <1>0, <1>3 DEF NcClose, WriteFails, LibraryThrows
  <1>4. CASE Transmit(p)
    BY <1>0, <1>4 DEF Transmit, CheckStream, CopyBlock, CopyEnds, CloseDescriptor, Unlink
  <1>5. CASE Die(p)
    BY <1>0, <1>5 DEF Die
  <1>6. ASSUME NEW k \in 1..MaxBlocks, Arrive(p, k)
        PROVE  SameState(q)
    BY <1>0, <1>6 DEF Arrive
  <1> QED
    BY <1>1, <1>2, <1>3, <1>4, <1>5, <1>6 DEF Acts, send_data, Transform

(* What a process has written is its own response up to written[p], and    *)
(* the whole of it when transform() has returned.                          *)
WrittenOK(p) ==
  /\ pc[p] = "write" => nc[p] = fd[p]
  /\ pc[p] \in {"stream", "copy"} => written[p] = size[p]
  /\ pc[p] \in {"write", "stream", "copy"} =>
       /\ written[p] <= size[p]
       /\ \A k \in 1..MaxBlocks :
            disk[fd[p]].blocks[k] = IF k <= written[p] THEN OwnBlock(p, k) ELSE Hole

(* No step changes the file that another process reads or writes.          *)
LEMMA OthersKeepFile ==
  ASSUME IInv, NamesOwn, NEW p \in Procs, NEW q \in Procs, q # p, Acts(p),
         WrittenOK(p), pc[q] \in {"write", "stream", "copy"}
  PROVE  disk'[fd[q]] = disk[fd[q]]
  <1>0. disk \in Seq(Inode) /\ fd[q] \in 1..Len(disk)
    BY LenProperties DEF IInv, FilesTyped, HeldOK
  <1>1. TempFile(q) \in name[q] /\ dir[TempFile(q)] = fd[q] /\ TempFile(q) \in Names
    BY TheName DEF HasName, NamesOwn, OwnFile
  <1>2. ASSUME HasName(p), pc[p] # "unlink"
        PROVE  fd[p] \in 1..Len(disk) /\ fd[p] # fd[q]
    <2>1. TempFile(p) \in name[p] /\ dir[TempFile(p)] = fd[p] /\ fd[p] # 0
          /\ TempFile(p) \in Names
      BY <1>2, TheName DEF NamesOwn, OwnFile
    <2>2. TempFile(p) # TempFile(q)
      BY <1>1, <2>1 DEF NamesOwn
    <2> QED
      BY <1>1, <2>1, <2>2, LenProperties DEF NamesOwn, IInv, FilesTyped
  <1>3. CASE \E f \in Names : Mkstemp(p, f)
    BY <1>0, <1>3, NewInodeLast DEF Mkstemp
  <1>4. CASE NcCreate(p)
    <2>1. fd[p] \in 1..Len(disk) /\ fd[p] # fd[q]
      BY <1>2, <1>4 DEF NcCreate, At, HasName
    <2>2. disk' = [disk EXCEPT ![fd[p]].blocks = Empty]
      BY <1>4, CreateFinds
    <2>3. Empty \in [1..MaxBlocks -> Block \cup {Hole}]
      BY DEF Empty
    <2> QED
      BY <1>0, <2>1, <2>2, <2>3, WriteInode
  <1>5. CASE WriteBlock(p)
    <2>1. fd[p] \in 1..Len(disk) /\ fd[p] # fd[q]
      BY <1>2, <1>5 DEF WriteBlock, At, HasName
    <2>2. nc[p] = fd[p]
      BY <1>5 DEF WriteBlock, At, WrittenOK
    <2>3. disk' = [disk EXCEPT ![fd[p]].blocks[written[p] + 1] = OwnBlock(p, written[p] + 1)]
      BY <1>5, <2>2 DEF WriteBlock
    <2> QED
      BY <1>0, <2>1, <2>3
  <1>6. CASE UNCHANGED disk
    BY <1>6
  <1> QED
    BY <1>3, <1>4, <1>5, <1>6
    DEF Acts, send_data, Prepare, Transform, Transmit, Load, LoadFails, CheckDescriptor,
        MkstempFails, ConvertFails, NcClose, WriteFails, LibraryThrows, CheckStream, CopyBlock,
        CopyEnds, CloseDescriptor, Unlink, Die, Arrive, shared

LEMMA WrittenStep ==
  ASSUME IInv, NamesOwn, NEW p \in Procs, Acts(p), \A q \in Procs : WrittenOK(q)
  PROVE  \A q \in Procs : WrittenOK(q)'
  <1> USE DEF At, To, Throw, shared, request, opened, copied
  <1>0. /\ pc \in [Procs -> Pcs] /\ nc \in [Procs -> Nat] /\ fd \in [Procs -> Nat]
        /\ written \in [Procs -> 0..MaxBlocks] /\ size \in [Procs -> 0..MaxBlocks]
        /\ disk \in Seq(Inode) /\ HeldOK(p) /\ fd[p] <= Len(disk) /\ Len(disk) \in Nat
    BY LenProperties DEF IInv, FilesTyped, StateTyped
  <1>1. ASSUME NEW q \in Procs, q # p
        PROVE  WrittenOK(q)'
    <2>1. SameState(q)
      BY <1>1, OthersKeepState
    <2>2. pc[q] \in {"write", "stream", "copy"} => disk'[fd[q]] = disk[fd[q]]
      BY <1>1, OthersKeepFile
    <2> QED
      BY <2>1, <2>2 DEF SameState, WrittenOK, OwnBlock
  <1>2. WrittenOK(p)'
    <2>1. CASE NcCreate(p)
      <3>1. /\ disk' = [disk EXCEPT ![fd[p]].blocks = Empty] /\ fd[p] \in 1..Len(disk)
            /\ nc'[p] = fd[p] /\ fd' = fd
        BY <1>0, <2>1, CreateFinds
      <3>2. Empty \in [1..MaxBlocks -> Block \cup {Hole}]
        BY DEF Empty
      <3>3. disk'[fd[p]].blocks = Empty
        BY <1>0, <3>1, <3>2, WriteInode
      <3>4. pc'[p] = "write" /\ written'[p] = 0 /\ size' = size
        BY <1>0, <2>1 DEF NcCreate
      <3> QED
        BY <1>0, <3>1, <3>3, <3>4 DEF WrittenOK, Empty
    <2>2. CASE WriteBlock(p)
      <3>1. /\ nc[p] = fd[p] /\ fd[p] \in 1..Len(disk) /\ pc[p] = "write" /\ written[p] < size[p]
        BY <1>0, <2>2 DEF WriteBlock, WrittenOK, HeldOK
      <3>2. /\ pc' = pc /\ nc' = nc /\ fd' = fd /\ size' = size /\ nr' = nr
            /\ written'[p] = written[p] + 1
        BY <1>0, <2>2 DEF WriteBlock
      <3> DEFINE b == [disk[fd[p]].blocks EXCEPT ![written[p] + 1] = OwnBlock(p, written[p] + 1)]
      <3>3. disk[fd[p]].blocks \in [1..MaxBlocks -> Block \cup {Hole}]
        BY <3>1, InodeBlocks DEF IInv
      <3>4. written[p] + 1 \in 1..MaxBlocks
        BY <1>0, <3>1, BoundsAssumption
      <3>5. \A k \in 1..MaxBlocks :
              b[k] = IF k = written[p] + 1 THEN OwnBlock(p, written[p] + 1)
                                           ELSE disk[fd[p]].blocks[k]
        BY <3>3, <3>4
      <3>6. disk' = [disk EXCEPT ![fd[p]].blocks = b]
        BY <2>2, <3>1 DEF WriteBlock
      <3>7. disk'[fd[p]].blocks = b
        BY <1>0, <3>1, <3>6 DEF Inode
      <3> HIDE DEF b
      <3>8. ASSUME NEW k \in 1..MaxBlocks
            PROVE  disk'[fd[p]].blocks[k] = IF k <= written[p] + 1 THEN OwnBlock(p, k) ELSE Hole
        BY <1>0, <3>1, <3>4, <3>5, <3>7 DEF WrittenOK
      <3> QED
        BY <1>0, <3>1, <3>2, <3>8 DEF WrittenOK, OwnBlock
    <2>3. CASE NcClose(p)
      BY <1>0, <2>3 DEF NcClose, WrittenOK, OwnBlock
    <2>4. CASE CheckStream(p) \/ CopyBlock(p)
      <3>1. /\ pc[p] \in {"stream", "copy"}
            /\ UNCHANGED <<nr, size, fd, disk, written>>
        BY <2>4 DEF CheckStream, CopyBlock
      <3>2. pc'[p] # "write"
        BY <1>0, <2>4, <3>1 DEF CheckStream, CopyBlock
      <3> QED
        BY <3>1, <3>2 DEF WrittenOK, OwnBlock
    <2>5. CASE pc'[p] \notin {"write", "stream", "copy"}
      BY <2>5 DEF WrittenOK
    <2> QED
      BY <1>0, <2>1, <2>2, <2>3, <2>4, <2>5
      DEF Acts, send_data, Prepare, Transform, Transmit, Load, LoadFails, CheckDescriptor, Mkstemp,
          MkstempFails, ConvertFails, WriteFails, LibraryThrows, CopyEnds, CloseDescriptor, Unlink,
          Die, Arrive
  <1> QED
    BY <1>1, <1>2

(* Blocks of request n of p in ascending order, and none after the last.   *)
InOrder(p, n, s) == \A k \in 1..Len(s) :
  /\ s[k] = [by |-> p, nr |-> n, pos |-> s[k].pos]
  /\ k > 1 => s[k].pos > s[k - 1].pos

Within(s, last) == \A k \in 1..Len(s) : s[k].pos \in 1..last

(* What a process has sent are blocks before the offset of its descriptor. *)
SentOK(p) ==
  /\ pc[p] \notin {"copy", "close", "unlink"} => offset[p] = 0
  /\ pc[p] \in {"load", "mkstemp", "check", "create", "write", "stream"} => sent[p] = << >>
  /\ InOrder(p, nr[p], sent[p])
  /\ pc[p] = "copy" => Within(sent[p], offset[p])

LEMMA OneFurther ==
  ASSUME NEW s, NEW o \in Nat, Within(s, o)
  PROVE  Within(s, o + 1)
  BY DEF Within

LEMMA OneMoreInOrder ==
  ASSUME NEW p, NEW n, NEW S, NEW s \in Seq(S), NEW o \in Nat,
         NEW b \in S, b = [by |-> p, nr |-> n, pos |-> o + 1], InOrder(p, n, s), Within(s, o)
  PROVE  InOrder(p, n, Append(s, b)) /\ Within(Append(s, b), o + 1)
  <1> DEFINE t == Append(s, b)
  <1>1. b.pos = o + 1
    OBVIOUS
  <1>2. /\ Len(t) = Len(s) + 1 /\ Len(s) \in Nat
        /\ \A k \in 1..Len(s) : t[k] = s[k]
        /\ t[Len(s) + 1] = b
    BY <1>1, AppendProperties, LenProperties
  <1> HIDE DEF t
  <1>3. ASSUME NEW k \in 1..Len(t)
        PROVE  /\ t[k] = [by |-> p, nr |-> n, pos |-> t[k].pos]
               /\ k > 1 => t[k].pos > t[k - 1].pos
               /\ t[k].pos \in 1..(o + 1)
    <2>1. CASE k \in 1..Len(s)
      <3>1. /\ t[k] = s[k]
            /\ k > 1 => k - 1 \in 1..Len(s) /\ t[k - 1] = s[k - 1]
        BY <1>2, <2>1
      <3>2. /\ s[k] = [by |-> p, nr |-> n, pos |-> s[k].pos]
            /\ k > 1 => s[k].pos > s[k - 1].pos
        BY <2>1 DEF InOrder
      <3>3. s[k].pos \in 1..(o + 1)
        BY <2>1 DEF Within
      <3> QED
        BY <3>1, <3>2, <3>3
    <2>2. CASE k = Len(s) + 1
      <3>1. t[k] = [by |-> p, nr |-> n, pos |-> t[k].pos] /\ t[k].pos = o + 1
        BY <1>1, <1>2, <2>2
      <3>2. k > 1 => t[k - 1] = s[k - 1] /\ k - 1 \in 1..Len(s)
        BY <1>2, <2>2
      <3> QED
        BY <3>1, <3>2 DEF Within
    <2> QED
      BY <1>2, <2>1, <2>2
  <1> QED
    BY <1>3 DEF InOrder, Within, t

(* The loop reads the next block of its own file.                          *)
LEMMA CopiesOwn ==
  ASSUME IInv, NEW p \in Procs, WrittenOK(p), CopyBlock(p)
  PROVE  /\ offset[p] + 1 \in 1..size[p]
         /\ disk[fd[p]].blocks[offset[p] + 1] = OwnBlock(p, offset[p] + 1)
  <1>1. /\ pc[p] = "copy" /\ written[p] = size[p] /\ size[p] \in 0..MaxBlocks
        /\ offset[p] \in 0..MaxBlocks
        /\ \A k \in 1..MaxBlocks :
             disk[fd[p]].blocks[k] = IF k <= size[p] THEN OwnBlock(p, k) ELSE Hole
    BY DEF IInv, StateTyped, CopyBlock, At, WrittenOK
  <1>2. PICK k \in 1..MaxBlocks : k > offset[p] /\ disk[fd[p]].blocks[k] # Hole
    BY DEF CopyBlock, More
  <1>3. k <= size[p]
    BY <1>1, <1>2
  <1>4. offset[p] + 1 \in 1..size[p] /\ offset[p] + 1 \in 1..MaxBlocks
    BY <1>1, <1>2, <1>3, BoundsAssumption
  <1> QED
    BY <1>1, <1>4, BoundsAssumption

LEMMA SentStep ==
  ASSUME IInv, NEW p \in Procs, Acts(p), WrittenOK(p), \A q \in Procs : SentOK(q)
  PROVE  \A q \in Procs : SentOK(q)'
  <1> USE DEF At, To, Throw, shared, request, opened, copied
  <1>0. /\ pc \in [Procs -> Pcs] /\ nr \in [Procs -> 0..MaxRequests] /\ SentOK(p)
        /\ offset \in [Procs -> 0..MaxBlocks] /\ sent \in [Procs -> Seq(Block \cup {Hole})]
    BY DEF IInv, FilesTyped, StateTyped
  <1>1. ASSUME NEW q \in Procs, q # p
        PROVE  SentOK(q)'
    BY <1>1, OthersKeepState DEF SameState, SentOK
  <1>2. SentOK(p)'
    <2>1. CASE CopyBlock(p)
      <3>1. pc[p] = "copy" /\ pc' = pc /\ nr' = nr /\ offset'[p] = offset[p] + 1
        BY <1>0, <2>1 DEF CopyBlock
      <3>2. CASE sent' = sent
        BY <1>0, <3>1, <3>2, OneFurther, BoundsAssumption DEF SentOK
      <3>3. CASE sent' # sent
        <4>1. OwnBlock(p, offset[p] + 1) \in Block \cup {Hole}
          BY <1>0, BoundsAssumption DEF OwnBlock, Block
        <4>2. sent'[p] = Append(sent[p], OwnBlock(p, offset[p] + 1))
          BY <1>0, <2>1, <3>3, CopiesOwn DEF CopyBlock
        <4>3. offset[p] \in Nat
          BY <1>0, BoundsAssumption
        <4>4. InOrder(p, nr[p], sent'[p]) /\ Within(sent'[p], offset[p] + 1)
          <5>1. InOrder(p, nr[p], sent[p]) /\ Within(sent[p], offset[p])
            BY <1>0, <3>1 DEF SentOK
          <5>2. sent[p] \in Seq(Block \cup {Hole})
            BY <1>0
          <5>3. OwnBlock(p, offset[p] + 1) = [by |-> p, nr |-> nr[p], pos |-> offset[p] + 1]
            BY DEF OwnBlock
          <5> QED
            BY <4>1, <4>2, <4>3, <5>1, <5>2, <5>3, OneMoreInOrder
        <4> QED
          BY <3>1, <4>4 DEF SentOK
      <3> QED
        BY <3>2, <3>3
    <2>3. ASSUME NEW k \in 1..MaxBlocks, Arrive(p, k)
          PROVE  SentOK(p)'
      BY <1>0, <2>3 DEF Arrive, SentOK, InOrder
    <2>4. CASE Unlink(p) \/ Die(p)
      BY <1>0, <2>4 DEF Unlink, Die, SentOK
    <2>5. CASE \E f \in Names : Mkstemp(p, f)
      BY <1>0, <2>5 DEF Mkstemp, SentOK
    <2>6. CASE NcCreate(p)
      BY <1>0, <2>6 DEF NcCreate, SentOK
    <2>7. CASE WriteBlock(p)
      BY <1>0, <2>7 DEF WriteBlock, SentOK
    <2>8. CASE \/ Load(p) \/ LoadFails(p) \/ CheckDescriptor(p) \/ \E f \in Names : MkstempFails(p, f)
      BY <1>0, <2>8 DEF Load, LoadFails, CheckDescriptor, MkstempFails, SentOK
    <2>9. CASE ConvertFails(p) \/ NcClose(p) \/ WriteFails(p) \/ LibraryThrows(p)
      BY <1>0, <2>9 DEF ConvertFails, NcClose, WriteFails, LibraryThrows, SentOK
    <2>10. CASE CheckStream(p) \/ CopyEnds(p) \/ CloseDescriptor(p)
      BY <1>0, <2>10 DEF CheckStream, CopyEnds, CloseDescriptor, SentOK, Within
    <2> QED
      BY <2>1, <2>3, <2>4, <2>5, <2>6, <2>7, <2>8, <2>9, <2>10
      DEF Acts, send_data, Prepare, Transform, Transmit
  <1> QED
    BY <1>1, <1>2

DataInv == NamesOwn /\ \A p \in Procs : WrittenOK(p) /\ SentOK(p)

LEMMA DataInvariance ==
  ASSUME "mkstemp" \notin Failures
  PROVE  Spec => []DataInv
  <1>1. Init => DataInv
    BY DEF Init, DataInv, NamesOwn, OwnFile, HasName, WrittenOK, SentOK, InOrder
  <1>2. IInv /\ DataInv /\ [Next]_vars => DataInv'
    <2> SUFFICES ASSUME IInv, DataInv, [Next]_vars
                 PROVE  DataInv'
      OBVIOUS
    <2>1. NamesOwn'
      BY NamesStep DEF DataInv
    <2>2. CASE UNCHANGED vars
      BY <2>1, <2>2 DEF DataInv, WrittenOK, SentOK, OwnBlock, vars, shared, request, opened, copied
    <2>3. ASSUME NEW p \in Procs, Acts(p)
          PROVE  DataInv'
      BY <2>1, <2>3, WrittenStep, SentStep DEF DataInv
    <2> QED
      BY <2>2, <2>3 DEF Next, Acts, Terminating
  <1> QED
    BY <1>1, <1>2, Invariance, PTL DEF Spec

(* A client is sent blocks of its own response only, each once and in      *)
(* order, whatever the other processes do.                                 *)
THEOREM OwnDataSent ==
  ASSUME "mkstemp" \notin Failures
  PROVE  Spec => []OwnData
  <1>1. IInv /\ DataInv => OwnData
    <2> SUFFICES ASSUME IInv, DataInv, NEW p \in Procs, NEW k \in DOMAIN sent[p]
                 PROVE  /\ sent[p][k] = OwnBlock(p, sent[p][k].pos)
                        /\ k > 1 => sent[p][k].pos > sent[p][k - 1].pos
      BY DEF OwnData
    <2>1. k \in 1..Len(sent[p])
      BY LenProperties DEF IInv, StateTyped
    <2> QED
      BY <2>1 DEF DataInv, SentOK, InOrder, OwnBlock
  <1> QED
    BY <1>1, Invariance, DataInvariance, PTL

---------------------------------------------------------------------------
(* Nobody else may read a file in the directory: nc_create makes none.     *)
THEOREM PrivateFiles ==
  ASSUME "mkstemp" \notin Failures
  PROVE  Spec => []FilesPrivate
  <1>1. Init => FilesPrivate
    BY DEF Init, FilesPrivate
  <1>2. IInv /\ DataInv /\ FilesPrivate /\ [Next]_vars => FilesPrivate'
    <2> SUFFICES ASSUME IInv, DataInv, FilesPrivate, [Next]_vars
                 PROVE  FilesPrivate'
      OBVIOUS
    <2>0. /\ dir \in [Names -> Nat] /\ \A f \in Names : dir[f] <= Len(disk)
          /\ disk \in Seq(Inode) /\ Len(disk) \in Nat /\ NamesOwn
      BY LenProperties DEF IInv, FilesTyped, DataInv
    <2>1. CASE UNCHANGED <<dir, disk>>
      BY <2>1 DEF FilesPrivate
    <2>2. ASSUME NEW p \in Procs, NEW f \in Names, Mkstemp(p, f)
          PROVE  FilesPrivate'
      <3>1. umask[p] = "077"
        BY <2>2 DEF Mkstemp, At, IInv, HeldOK
      <3>2. /\ \A i \in 1..Len(disk) : disk'[i] = disk[i]
            /\ disk'[Len(disk) + 1].private
        <4>1. /\ \A i \in 1..Len(disk) : disk'[i] = disk[i]
              /\ disk'[Len(disk) + 1] = [blocks |-> Empty, private |-> (umask[p] = "077")]
          BY <2>0, <2>2, NewInodeLast DEF Mkstemp
        <4>2. disk'[Len(disk) + 1].private = (umask[p] = "077")
          BY <4>1
        <4> QED
          BY <3>1, <4>1, <4>2, Zenon
      <3>3. dir' = [dir EXCEPT ![f] = Len(disk) + 1]
        BY <2>2 DEF Mkstemp
      <3> QED
        BY <2>0, <3>2, <3>3 DEF FilesPrivate
    <2>3. ASSUME NEW p \in Procs, NcCreate(p)
          PROVE  FilesPrivate'
      <3>1. /\ fd[p] \in 1..Len(disk) /\ disk' = [disk EXCEPT ![fd[p]].blocks = Empty]
            /\ dir' = dir
        BY <2>0, <2>3, CreateFinds DEF IInv, FilesTyped
      <3>2. Empty \in [1..MaxBlocks -> Block \cup {Hole}]
        BY DEF Empty
      <3>3. \A i \in 1..Len(disk) : disk'[i].private = disk[i].private
        BY <2>0, <3>1, <3>2, WriteInode
      <3> QED
        BY <2>0, <3>1, <3>3 DEF FilesPrivate
    <2>4. ASSUME NEW p \in Procs, WriteBlock(p)
          PROVE  FilesPrivate'
      <3> DEFINE b == [disk[nc[p]].blocks EXCEPT ![written[p] + 1] = OwnBlock(p, written[p] + 1)]
      <3>1. nc[p] \in 1..Len(disk) /\ dir' = dir /\ disk' = [disk EXCEPT ![nc[p]].blocks = b]
        BY <2>0, <2>4 DEF WriteBlock, At, shared, IInv, FilesTyped, HeldOK
      <3> HIDE DEF b
      <3>2. \A i \in 1..Len(disk) : disk'[i].private = disk[i].private
        BY <2>0, <3>1 DEF Inode
      <3> QED
        BY <2>0, <3>1, <3>2 DEF FilesPrivate
    <2>5. ASSUME NEW p \in Procs, Unlink(p)
          PROVE  FilesPrivate'
      BY <2>5 DEF Unlink, FilesPrivate
    <2>6. ASSUME NEW p \in Procs, Acts(p), ~(\E f \in Names : Mkstemp(p, f)), ~NcCreate(p),
                 ~WriteBlock(p), ~Unlink(p)
          PROVE  UNCHANGED <<dir, disk>>
      BY <2>6 DEF Acts, send_data, Prepare, Transform, Transmit, Load, LoadFails, CheckDescriptor,
         MkstempFails, ConvertFails, NcClose, WriteFails, LibraryThrows, CheckStream, CopyBlock,
         CopyEnds, CloseDescriptor, Die, Arrive, shared
    <2> QED
      BY <2>1, <2>2, <2>3, <2>4, <2>5, <2>6 DEF Next, Acts, Terminating, vars, shared
  <1> QED
    BY <1>1, <1>2, Invariance, DataInvariance, PTL DEF Spec

---------------------------------------------------------------------------
(* If reads and writes of the stream do not fail, nothing is skipped, and  *)
(* an answer without error comes after the end of the file.                *)
WholeOK(p) ==
  /\ pc[p] \in {"load", "mkstemp", "check", "create", "write", "stream", "copy"} =>
       reply[p] = "none"
  /\ pc[p] = "copy" => /\ offset[p] <= size[p]
                       /\ sent[p] = [k \in 1..offset[p] |-> OwnBlock(p, k)]
  /\ reply[p] = "ok" => sent[p] = [k \in 1..size[p] |-> OwnBlock(p, k)]

(* The blocks before the offset and the next one are those up to the next  *)
(* offset.                                                                 *)
LEMMA OneMoreBlock ==
  ASSUME NEW o \in Nat, NEW p, NEW s, s = [k \in 1..o |-> OwnBlock(p, k)]
  PROVE  Append(s, OwnBlock(p, o + 1)) = [k \in 1..(o + 1) |-> OwnBlock(p, k)]
  <1> DEFINE b(k) == OwnBlock(p, k)
             S == {b(k) : k \in Nat}
             t == [k \in 1..(o + 1) |-> b(k)]
  <1>1. \A k \in Nat : b(k) \in S
    OBVIOUS
  <1> HIDE DEF b, S
  <1>2. /\ [k \in 1..o |-> b(k)] \in Seq(S) /\ Len([k \in 1..o |-> b(k)]) = o
        /\ t \in Seq(S) /\ Len(t) = o + 1
    BY <1>1, IsASeq
  <1>3. s \in Seq(S) /\ Len(s) = o /\ \A k \in 1..o : s[k] = b(k)
    BY <1>2 DEF b
  <1>4. /\ Append(s, b(o + 1)) \in Seq(S) /\ Len(Append(s, b(o + 1))) = o + 1
        /\ \A k \in 1..o : Append(s, b(o + 1))[k] = s[k]
        /\ Append(s, b(o + 1))[o + 1] = b(o + 1)
    BY <1>1, <1>3, AppendProperties
  <1>5. \A k \in 1..(o + 1) : Append(s, b(o + 1))[k] = t[k]
    BY <1>3, <1>4
  <1> HIDE DEF t
  <1>6. Append(s, b(o + 1)) = t
    BY <1>2, <1>4, <1>5, SeqEqual
  <1> QED
    BY <1>6 DEF b, t

LEMMA WholeStep ==
  ASSUME "read" \notin Failures, "stream" \notin Failures, IInv, NEW p \in Procs, Acts(p),
         WrittenOK(p), SentOK(p), \A q \in Procs : WholeOK(q)
  PROVE  \A q \in Procs : WholeOK(q)'
  <1> USE DEF At, To, Throw, shared, request, opened, copied
  <1>0. /\ pc \in [Procs -> Pcs] /\ reply \in [Procs -> {"none", "ok", "error"}]
        /\ size \in [Procs -> 0..MaxBlocks] /\ WholeOK(p)
        /\ offset \in [Procs -> 0..MaxBlocks] /\ sent \in [Procs -> Seq(Block \cup {Hole})]
    BY DEF IInv, StateTyped
  <1>1. ASSUME NEW q \in Procs, q # p
        PROVE  WholeOK(q)'
    BY <1>1, OthersKeepState DEF SameState, WholeOK, OwnBlock
  <1>2. WholeOK(p)'
    <2>1. CASE CopyBlock(p)
      <3>1. /\ pc[p] = "copy" /\ pc' = pc /\ nr' = nr /\ size' = size /\ reply' = reply
            /\ offset'[p] = offset[p] + 1
            /\ sent'[p] = Append(sent[p], OwnBlock(p, offset[p] + 1))
        <4>1. disk[fd[p]].blocks[offset[p] + 1] = OwnBlock(p, offset[p] + 1)
          BY <2>1, CopiesOwn
        <4> QED
          BY <1>0, <2>1, <4>1 DEF CopyBlock
      <3>2. offset[p] + 1 <= size[p] /\ offset[p] \in Nat
        BY <1>0, <2>1, CopiesOwn, BoundsAssumption
      <3>3. sent[p] = [k \in 1..offset[p] |-> OwnBlock(p, k)] /\ reply[p] = "none"
        BY <1>0, <3>1 DEF WholeOK
      <3>4. sent'[p] = [k \in 1..(offset[p] + 1) |-> OwnBlock(p, k)]
        BY <3>1, <3>2, <3>3, OneMoreBlock
      <3> QED
        BY <3>1, <3>2, <3>3, <3>4 DEF WholeOK, OwnBlock
    <2>2. CASE CopyEnds(p)
      <3>1. /\ pc[p] = "copy" /\ ~More(p) /\ pc'[p] = "close" /\ reply'[p] = "ok"
            /\ sent' = sent /\ size' = size /\ nr' = nr
        BY <1>0, <2>2 DEF CopyEnds
      <3>2. /\ written[p] = size[p]
            /\ \A k \in 1..MaxBlocks :
                 disk[fd[p]].blocks[k] = IF k <= size[p] THEN OwnBlock(p, k) ELSE Hole
        BY <3>1 DEF WrittenOK
      <3>3. \A k \in 1..MaxBlocks : OwnBlock(p, k) # Hole
        BY BoundsAssumption DEF OwnBlock, Hole
      <3>4. offset[p] = size[p]
        <4>1. ASSUME offset[p] < size[p]
              PROVE  FALSE
          <5>1. size[p] \in 1..MaxBlocks
            BY <1>0, <4>1, BoundsAssumption
          <5> QED
            BY <3>1, <3>2, <3>3, <4>1, <5>1 DEF More
        <4> QED
          BY <1>0, <3>1, <4>1, BoundsAssumption DEF WholeOK
      <3> QED
        BY <1>0, <3>1, <3>4 DEF WholeOK, OwnBlock
    <2>3. ASSUME NEW k \in 1..MaxBlocks, Arrive(p, k)
          PROVE  WholeOK(p)'
      BY <1>0, <2>3 DEF Arrive, WholeOK
    <2>4. CASE CheckStream(p)
      <3>1. /\ pc[p] = "stream" /\ pc'[p] = "copy" /\ reply' = reply /\ sent[p] = << >>
            /\ offset[p] = 0 /\ sent' = sent /\ offset' = offset /\ size' = size
        BY <1>0, <2>4 DEF CheckStream, SentOK
      <3>2. size[p] >= 0
        BY <1>0, BoundsAssumption
      <3> QED
        BY <1>0, <3>1, <3>2 DEF WholeOK
    <2>5. CASE LoadFails(p) \/ ConvertFails(p) \/ WriteFails(p) \/ LibraryThrows(p) \/ Die(p)
      BY <1>0, <2>5 DEF LoadFails, ConvertFails, WriteFails, LibraryThrows, Die, WholeOK
    <2>6. CASE Load(p) \/ CheckDescriptor(p) \/ \E f \in Names : Mkstemp(p, f) \/ MkstempFails(p, f)
      <3>1. /\ pc[p] \in {"load", "mkstemp", "check"} /\ pc'[p] # "copy"
            /\ \/ reply' = reply
               \/ pc'[p] = "close" /\ reply'[p] = "error"
        <4>0. pc \in [Procs -> Pcs] /\ reply \in [Procs -> {"none", "ok", "error"}]
          BY <1>0
        <4>1. CASE Load(p)
          BY <4>0, <4>1 DEF Load
        <4>2. CASE CheckDescriptor(p)
          BY <4>0, <4>2 DEF CheckDescriptor
        <4>3. ASSUME NEW f \in Names, Mkstemp(p, f) \/ MkstempFails(p, f)
              PROVE  pc[p] = "mkstemp" /\ pc'[p] = "check" /\ reply' = reply
          BY <4>0, <4>3 DEF Mkstemp, MkstempFails
        <4> QED
          BY <2>6, <4>1, <4>2, <4>3
      <3> QED
        BY <1>0, <3>1 DEF WholeOK
    <2>7. CASE NcCreate(p) \/ WriteBlock(p) \/ NcClose(p)
      <3>1. pc[p] \in {"create", "write"} /\ pc'[p] # "copy" /\ reply' = reply
        BY <1>0, <2>7 DEF NcCreate, WriteBlock, NcClose
      <3> QED
        BY <1>0, <3>1 DEF WholeOK
    <2>8. CASE CloseDescriptor(p) \/ Unlink(p)
      <3>1. /\ pc'[p] \in {"unlink", "idle"} /\ reply' = reply /\ sent' = sent /\ size' = size
            /\ nr' = nr
        BY <1>0, <2>8 DEF CloseDescriptor, Unlink
      <3> QED
        BY <1>0, <3>1 DEF WholeOK, OwnBlock
    <2> QED
      BY <2>1, <2>2, <2>3, <2>4, <2>5, <2>6, <2>7, <2>8
      DEF Acts, send_data, Prepare, Transform, Transmit
  <1> QED
    BY <1>1, <1>2

(* A reply without error is the whole file, if the read of the file and    *)
(* the writes to the stream do not fail: the loop looks at neither.        *)
THEOREM WholeFileSent ==
  ASSUME "mkstemp" \notin Failures, "read" \notin Failures, "stream" \notin Failures
  PROVE  Spec => []WholeFile
  <1> DEFINE Whole == \A p \in Procs : WholeOK(p)
  <1>1. Init => Whole
    BY DEF Init, WholeOK
  <1>2. IInv /\ DataInv /\ Whole /\ [Next]_vars => Whole'
    <2> SUFFICES ASSUME IInv, DataInv, Whole, [Next]_vars
                 PROVE  Whole'
      OBVIOUS
    <2>1. CASE UNCHANGED vars
      BY <2>1 DEF WholeOK, OwnBlock, vars, shared, request, opened, copied
    <2>2. ASSUME NEW p \in Procs, Acts(p)
          PROVE  Whole'
      BY <2>2, WholeStep DEF DataInv
    <2> QED
      BY <2>1, <2>2 DEF Next, Acts, Terminating
  <1>3. Whole => WholeFile
    BY DEF WholeOK, WholeFile
  <1> QED
    BY <1>1, <1>2, <1>3, Invariance, DataInvariance, PTL DEF Spec
=============================================================================
