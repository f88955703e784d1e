---------------------------- MODULE FONcTransmitter ----------------------------
(***************************************************************************)
(* FONcTransmitter::send_data in the processes of a BES, which share the   *)
(* directory FONc.Tempdir: a temporary file made by mkstemp, written by    *)
(* name through the netCDF library, read back through the descriptor and   *)
(* streamed to the client, closed and unlinked however the request ends.   *)
(*                                                                         *)
(* FONcTransform is reduced to what it does to the file; FONcTransform.tla *)
(* has the rest.  A file is its blocks of OUTPUT_FILE_BLOCK_SIZE bytes,    *)
(* and the blocks of every request are different.  pc names the next step: *)
(*   "load" intern_dap2_data and umask(), "mkstemp", "check" umask() and   *)
(*   the check of the descriptor, "create" and "write" transform(),        *)
(*   "stream" the check of the stream, "copy" write_temp_file_to_stream,   *)
(*   "close" ~wrap_temp_descriptor, "unlink" ~wrap_temp_name               *)
(***************************************************************************)
EXTENDS Integers, Sequences, FiniteSets

CONSTANTS
  Procs,        \* the BES processes
  Names,        \* the names mkstemp can make of the template
  MaxBlocks,    \* bound: blocks in a file
  MaxRequests,  \* bound: requests in all
  Failures      \* what can go wrong: "mkstemp", "nc", "libdap", "read",
                \* "stream", "crash"

ASSUME BoundsAssumption == MaxBlocks \in Nat /\ MaxRequests \in Nat

VARIABLES
  dir,       \* the temporary directory: [Names -> inode], 0 for no file
  disk,      \* the inodes: [blocks, private]
  pc,
  requests,  \* so far
  nr, size,  \* of each process: its last request and the blocks it has
  umask,     \* "default" or "077"
  name,      \* temp_file: a set with the name, empty before mkstemp
  fd, nc,    \* the inodes of the descriptor and of the open _ncid, 0 for none
  leaked,    \* the inodes of netCDF handles that nobody will close
  written,   \* blocks written through nc
  offset,    \* of fd
  sent,      \* the blocks the client has received
  reply,     \* "none", "ok" or "error"
  left       \* names of files whose process was killed

shared == <<dir, disk, left>>
request == <<requests, nr, size>>
opened == <<umask, name, fd, nc, leaked>>
copied == <<written, offset, sent>>
vars == <<shared, pc, request, opened, copied, reply>>

Block == [by : Procs, nr : Nat, pos : Nat]
Hole == [by |-> "nobody", nr |-> 0, pos |-> 0]   \* not written: read as zeros
Inode == [blocks : [1..MaxBlocks -> Block \cup {Hole}], private : BOOLEAN]
Empty == [k \in 1..MaxBlocks |-> Hole]
Pcs == {"idle", "load", "mkstemp", "check", "create", "write", "stream", "copy",
        "close", "unlink"}

TypeOK ==
  /\ dir \in [Names -> Nat] /\ \A f \in Names : dir[f] <= Len(disk)
  /\ disk \in Seq(Inode)
  /\ left \subseteq Names
  /\ pc \in [Procs -> Pcs]
  /\ requests \in 0..MaxRequests /\ nr \in [Procs -> 0..MaxRequests]
  /\ size \in [Procs -> 0..MaxBlocks]
  /\ umask \in [Procs -> {"default", "077"}]
  /\ name \in [Procs -> SUBSET Names]
  /\ fd \in [Procs -> Nat] /\ nc \in [Procs -> Nat]
  /\ \A p \in Procs : fd[p] <= Len(disk) /\ nc[p] <= Len(disk)
  /\ leaked \in [Procs -> SUBSET (1..Len(disk))]
  /\ written \in [Procs -> 0..MaxBlocks]
  /\ offset \in [Procs -> 0..MaxBlocks]
  /\ sent \in [Procs -> Seq(Block \cup {Hole})]
  /\ reply \in [Procs -> {"none", "ok", "error"}]

---------------------------------------------------------------------------
At(p, step) == pc[p] = step
To(p, step) == pc' = [pc EXCEPT ![p] = step]

(* An exception: the destructors from step on run.                         *)
Throw(p, step) == To(p, step) /\ reply' = [reply EXCEPT ![p] = "error"]

(* A new file, with the permissions that the umask leaves of mode 0666.    *)
NewInode(p) ==
  disk' = Append(disk, [blocks |-> Empty, private |-> umask[p] = "077"])

(* A request whose response has k blocks.                                  *)
Arrive(p, k) ==
  /\ At(p, "idle") /\ requests < MaxRequests
  /\ requests' = requests + 1
  /\ nr' = [nr EXCEPT ![p] = requests + 1]
  /\ size' = [size EXCEPT ![p] = k]
  /\ reply' = [reply EXCEPT ![p] = "none"]
  /\ sent' = [sent EXCEPT ![p] = << >>]
  /\ To(p, "load")
  /\ UNCHANGED <<shared, opened, written, offset>>

LoadFails(p) ==
  /\ At(p, "load") /\ "libdap" \in Failures
  /\ Throw(p, "idle")
  /\ UNCHANGED <<shared, request, opened, copied>>

KeepUmask(p) ==   \* mutant: the umask is not changed
  /\ At(p, "load")
  /\ To(p, "mkstemp")
  /\ UNCHANGED <<shared, request, opened, copied, reply>>

(* The data is there; umask(077).                                          *)
Load(p) ==
  /\ At(p, "load")
  /\ umask' = [umask EXCEPT ![p] = "077"]
  /\ To(p, "mkstemp")
  /\ UNCHANGED <<shared, request, name, fd, nc, leaked, copied, reply>>

ReuseName(p, f) ==   \* mutant: open without O_EXCL
  /\ At(p, "mkstemp")
  /\ IF dir[f] = 0 THEN NewInode(p) /\ dir' = [dir EXCEPT ![f] = Len(disk) + 1]
                   ELSE UNCHANGED <<disk, dir>>
  /\ name' = [name EXCEPT ![p] = {f}]
  /\ fd' = [fd EXCEPT ![p] = dir'[f]]
  /\ offset' = [offset EXCEPT ![p] = 0]
  /\ To(p, "check")
  /\ UNCHANGED <<left, request, umask, nc, leaked, written, sent, reply>>

(* mkstemp: O_CREAT with O_EXCL, under a name that no file has.            *)
Mkstemp(p, f) ==
  /\ At(p, "mkstemp") /\ dir[f] = 0
  /\ NewInode(p)
  /\ dir' = [dir EXCEPT ![f] = Len(disk) + 1]
  /\ name' = [name EXCEPT ![p] = {f}]
  /\ fd' = [fd EXCEPT ![p] = Len(disk) + 1]
  /\ offset' = [offset EXCEPT ![p] = 0]
  /\ To(p, "check")
  /\ UNCHANGED <<left, request, umask, nc, leaked, written, sent, reply>>

(* The template keeps the last name that mkstemp tried.                    *)
MkstempFails(p, f) ==
  /\ At(p, "mkstemp") /\ "mkstemp" \in Failures
  /\ name' = [name EXCEPT ![p] = {f}]
  /\ To(p, "check")
  /\ UNCHANGED <<shared, request, umask, fd, nc, leaked, copied, reply>>

(* The umask is put back, then the descriptor looked at.                   *)
CheckDescriptor(p) ==
  /\ At(p, "check")
  /\ umask' = [umask EXCEPT ![p] = "default"]
  /\ \/ fd[p] = 0 /\ Throw(p, "close")
     \/ fd[p] # 0 /\ To(p, "create") /\ UNCHANGED reply
  /\ UNCHANGED <<shared, request, name, fd, nc, leaked, copied>>

---------------------------------------------------------------------------
(* FONcTransform::transform, as far as the file is concerned.              *)

(* The variables do not fit in a netCDF file, their data cannot be had, or *)
(* nc_create fails.                                                        *)
ConvertFails(p) ==
  /\ At(p, "create")
  /\ Throw(p, "close")
  /\ UNCHANGED <<shared, request, opened, copied>>

TempFile(p) == CHOOSE f \in name[p] : TRUE

(* nc_create with NC_CLOBBER opens the name again and truncates the file.  *)
NcCreate(p) ==
  /\ At(p, "create")
  /\ LET i == dir[TempFile(p)] IN
     \/ /\ i # 0
        /\ disk' = [disk EXCEPT ![i].blocks = Empty]
        /\ nc' = [nc EXCEPT ![p] = i]
        /\ UNCHANGED dir
     \/ /\ i = 0
        /\ NewInode(p)
        /\ dir' = [dir EXCEPT ![TempFile(p)] = Len(disk) + 1]
        /\ nc' = [nc EXCEPT ![p] = Len(disk) + 1]
  /\ written' = [written EXCEPT ![p] = 0]
  /\ To(p, "write")
  /\ UNCHANGED <<left, request, umask, name, fd, leaked, offset, sent, reply>>

OwnBlock(p, k) == [by |-> p, nr |-> nr[p], pos |-> k]

WriteOneMore(p) ==   \* mutant: the loop runs once too often
  /\ At(p, "write") /\ written[p] <= size[p]
  /\ disk' = [disk EXCEPT ![nc[p]].blocks[written[p] + 1] = OwnBlock(p, written[p] + 1)]
  /\ written' = [written EXCEPT ![p] = @ + 1]
  /\ UNCHANGED <<dir, left, pc, request, opened, offset, sent, reply>>

WriteBlock(p) ==
  /\ At(p, "write") /\ written[p] < size[p]
  /\ disk' = [disk EXCEPT ![nc[p]].blocks[written[p] + 1] = OwnBlock(p, written[p] + 1)]
  /\ written' = [written EXCEPT ![p] = @ + 1]
  /\ UNCHANGED <<dir, left, pc, request, opened, offset, sent, reply>>

CloseEarly(p) ==   \* mutant: the file is streamed before the last block is out
  /\ At(p, "write") /\ written[p] + 1 >= size[p]
  /\ nc' = [nc EXCEPT ![p] = 0]
  /\ To(p, "stream")
  /\ UNCHANGED <<shared, request, umask, name, fd, leaked, copied, reply>>

LeaveOpen(p) ==   \* mutant: the file is streamed while the library has it open
  /\ At(p, "write") /\ written[p] = size[p]
  /\ To(p, "stream")
  /\ UNCHANGED <<shared, request, opened, copied, reply>>

NcClose(p) ==
  /\ At(p, "write") /\ written[p] = size[p]
  /\ nc' = [nc EXCEPT ![p] = 0]
  /\ To(p, "stream")
  /\ UNCHANGED <<shared, request, umask, name, fd, leaked, copied, reply>>

NoClose(p) ==   \* mutant: the handle is left open
  /\ At(p, "write") /\ "nc" \in Failures
  /\ Throw(p, "close")
  /\ nc' = [nc EXCEPT ![p] = 0]
  /\ leaked' = [leaked EXCEPT ![p] = @ \cup {nc[p]}]
  /\ UNCHANGED <<shared, request, umask, name, fd, copied>>

(* A netCDF call fails.  transform() closes the file it has open.          *)
WriteFails(p) ==
  /\ At(p, "write") /\ "nc" \in Failures
  /\ Throw(p, "close")
  /\ nc' = [nc EXCEPT ![p] = 0]
  /\ UNCHANGED <<shared, request, umask, name, fd, leaked, copied>>

(* An Error or std::exception of libdap, which transform() does not catch. *)
LibraryThrows(p) ==
  /\ At(p, "write") /\ "libdap" \in Failures
  /\ Throw(p, "close")
  /\ nc' = [nc EXCEPT ![p] = 0]
  /\ leaked' = [leaked EXCEPT ![p] = @ \cup {nc[p]}]
  /\ UNCHANGED <<shared, request, umask, name, fd, copied>>

---------------------------------------------------------------------------
(* write_temp_file_to_stream, and the destructors.                         *)

CheckStream(p) ==
  /\ At(p, "stream")
  /\ \/ "stream" \in Failures /\ Throw(p, "close")
     \/ To(p, "copy") /\ UNCHANGED reply
  /\ UNCHANGED <<shared, request, opened, copied>>

More(p) == \E k \in 1..MaxBlocks : k > offset[p] /\ disk[fd[p]].blocks[k] # Hole

(* A block is read and written to the stream, whose state is not looked at.*)
CopyBlock(p) ==
  /\ At(p, "copy") /\ More(p)
  /\ offset' = [offset EXCEPT ![p] = @ + 1]
  /\ \/ sent' = [sent EXCEPT ![p] = Append(@, disk[fd[p]].blocks[offset[p] + 1])]
     \/ "stream" \in Failures /\ UNCHANGED sent
  /\ UNCHANGED <<shared, pc, request, opened, written, reply>>

(* read returns 0 at the end of the file, or -1: the loop ends.            *)
CopyEnds(p) ==
  /\ At(p, "copy")
  /\ ~More(p) \/ "read" \in Failures
  /\ reply' = [reply EXCEPT ![p] = "ok"]
  /\ To(p, "close")
  /\ UNCHANGED <<shared, request, opened, copied>>

CloseUntilDone(p) ==   \* mutant: close() of the descriptor -1 is tried again for ever
  /\ At(p, "close") /\ fd[p] # 0
  /\ fd' = [fd EXCEPT ![p] = 0]
  /\ To(p, "unlink")
  /\ UNCHANGED <<shared, request, umask, name, nc, leaked, copied, reply>>

CloseDescriptor(p) ==
  /\ At(p, "close")
  /\ fd' = [fd EXCEPT ![p] = 0]
  /\ To(p, "unlink")
  /\ UNCHANGED <<shared, request, umask, name, nc, leaked, copied, reply>>

UnlinkOnSuccess(p) ==   \* mutant: an exception leaves the file
  /\ At(p, "unlink")
  /\ dir' = [f \in Names |-> IF f \in name[p] /\ reply[p] = "ok" THEN 0 ELSE dir[f]]
  /\ name' = [name EXCEPT ![p] = {}]
  /\ written' = [written EXCEPT ![p] = 0] /\ offset' = [offset EXCEPT ![p] = 0]
  /\ To(p, "idle")
  /\ UNCHANGED <<disk, left, request, umask, fd, nc, leaked, sent, reply>>

Unlink(p) ==
  /\ At(p, "unlink")
  /\ dir' = [f \in Names |-> IF f \in name[p] THEN 0 ELSE dir[f]]
  /\ name' = [name EXCEPT ![p] = {}]
  /\ written' = [written EXCEPT ![p] = 0] /\ offset' = [offset EXCEPT ![p] = 0]
  /\ To(p, "idle")
  /\ UNCHANGED <<disk, left, request, umask, fd, nc, leaked, sent, reply>>

---------------------------------------------------------------------------
(* The process is killed: the kernel closes what it has open, its file     *)
(* stays in the directory, and another process takes its place.            *)
Die(p) ==
  /\ pc[p] # "idle" /\ "crash" \in Failures
  /\ To(p, "idle")
  /\ reply' = [reply EXCEPT ![p] = "error"]
  /\ left' = left \cup name[p]
  /\ umask' = [umask EXCEPT ![p] = "default"]
  /\ name' = [name EXCEPT ![p] = {}]
  /\ fd' = [fd EXCEPT ![p] = 0] /\ nc' = [nc EXCEPT ![p] = 0]
  /\ leaked' = [leaked EXCEPT ![p] = {}]
  /\ written' = [written EXCEPT ![p] = 0] /\ offset' = [offset EXCEPT ![p] = 0]
  /\ UNCHANGED <<dir, disk, request, sent>>

(* The bound on requests is reached: the server would wait for more.       *)
Terminating ==
  /\ requests = MaxRequests /\ \A p \in Procs : pc[p] = "idle"
  /\ UNCHANGED vars

Init ==
  /\ dir = [f \in Names |-> 0] /\ disk = << >> /\ left = {}
  /\ pc = [p \in Procs |-> "idle"]
  /\ requests = 0 /\ nr = [p \in Procs |-> 0] /\ size = [p \in Procs |-> 0]
  /\ umask = [p \in Procs |-> "default"]
  /\ name = [p \in Procs |-> {}]
  /\ fd = [p \in Procs |-> 0] /\ nc = [p \in Procs |-> 0]
  /\ leaked = [p \in Procs |-> {}]
  /\ written = [p \in Procs |-> 0] /\ offset = [p \in Procs |-> 0]
  /\ sent = [p \in Procs |-> << >>]
  /\ reply = [p \in Procs |-> "none"]

Prepare(p) ==
  \/ Load(p) \/ LoadFails(p) \/ CheckDescriptor(p)
  \/ \E f \in Names : Mkstemp(p, f) \/ MkstempFails(p, f)
Transform(p) ==
  \/ ConvertFails(p) \/ NcCreate(p) \/ WriteBlock(p) \/ NcClose(p)
  \/ WriteFails(p) \/ LibraryThrows(p)
Transmit(p) ==
  CheckStream(p) \/ CopyBlock(p) \/ CopyEnds(p) \/ CloseDescriptor(p) \/ Unlink(p)

send_data(p) == Prepare(p) \/ Transform(p) \/ Transmit(p)

Next ==
  \/ \E p \in Procs : send_data(p) \/ Die(p) \/ (\E k \in 1..MaxBlocks : Arrive(p, k))
  \/ Terminating

(* A process that has a request is scheduled until it is done with it.     *)
Spec == Init /\ [][Next]_vars /\ \A p \in Procs : WF_vars(send_data(p))

---------------------------------------------------------------------------
(* What the processes may not do to each other.                            *)

(* While a process builds and sends its file, the name it made leads to    *)
(* that file, and no other process uses the name: what the netCDF library  *)
(* opens by name is what the descriptor reads (FONcTransmitter::send_data).*)
NameIsOwn ==
  \A p \in Procs : pc[p] \in {"check", "create", "write", "stream", "copy", "close"} =>
     /\ fd[p] # 0 => dir[TempFile(p)] = fd[p]
     /\ \A q \in Procs : q # p => name[q] \cap name[p] = {}

(* A client is sent blocks of its own response only, each once and in      *)
(* order, whatever fails and whoever else uses the directory.              *)
OwnData ==
  \A p \in Procs : \A k \in DOMAIN sent[p] :
     /\ sent[p][k] = OwnBlock(p, sent[p][k].pos)
     /\ k > 1 => sent[p][k].pos > sent[p][k - 1].pos

(* A reply without error is the whole file (FONcTransmitter.cc:226-228: an *)
(* error is thrown "if there are any problems ... streaming the netcdf     *)
(* file").                                                                 *)
WholeFile ==
  \A p \in Procs : reply[p] = "ok" => sent[p] = [k \in 1..size[p] |-> OwnBlock(p, k)]

(* However requests end, the directory holds only the files of requests    *)
(* under way and of processes that were killed (~wrap_temp_name).          *)
NoLeftovers ==
  \A f \in Names : dir[f] # 0 => f \in left \/ \E p \in Procs : f \in name[p]

(* Nobody else may read a file in the directory: it was created under the  *)
(* umask 077, by mkstemp and not by nc_create.                             *)
FilesPrivate == \A f \in Names : dir[f] # 0 => disk[dir[f]].private

(* A process between two requests holds no descriptor and no netCDF handle,*)
(* and has its own umask back.                                             *)
IdleIsClean ==
  \A p \in Procs : pc[p] = "idle" =>
     fd[p] = 0 /\ nc[p] = 0 /\ leaked[p] = {} /\ umask[p] = "default"

(* The file that is read back was closed by the netCDF library, and only an*)
(* exception transform() does not catch loses a handle: FONcTransmitter    *)
(* uses FONcTransform as FONcFile says, which FONcTransform implements.    *)
Phase(p) ==
  CASE pc[p] \in {"create", "write"} -> "working"
    [] pc[p] \in {"stream", "copy"} -> "complete"
    [] pc[p] \in {"close", "unlink"} -> "over"
    [] OTHER -> "away"
File == INSTANCE FONcFile WITH
  Users <- Procs, MayThrow <- "libdap" \in Failures, MayDie <- "crash" \in Failures,
  phase <- [p \in Procs |-> Phase(p)],
  open <- {p \in Procs : nc[p] # 0},
  lost <- {p \in Procs : leaked[p] # {}}
FileUse == File!Spec

(* Every request ends, and its temporary file is gone when it does, unless *)
(* the process was killed.                                                 *)
Served == \A p \in Procs : (pc[p] # "idle") ~> (pc[p] = "idle")
Removed ==
  \A p \in Procs : \A f \in Names :
     (f \in name[p] /\ dir[f] # 0) ~> (dir[f] = 0 \/ f \in left)
=============================================================================
