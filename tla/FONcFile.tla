------------------------------- MODULE FONcFile -------------------------------
(***************************************************************************)
(* What FONcTransform::transform and its caller agree on about the netCDF  *)
(* file of a request: one handle at most, opened and closed inside of      *)
(* transform(), so that a file that is read back is a complete and closed  *)
(* one.  A handle is lost only by an exception that transform() does not   *)
(* catch, and then no file is read back.                                   *)
(*                                                                         *)
(* FONcTransform and FONcTransmitter both implement this specification:    *)
(* what the second one takes of the first for granted, the first one does. *)
(***************************************************************************)
CONSTANTS
  Users,      \* the processes that make files
  MayThrow,   \* whether an exception transform() does not catch can occur
  MayDie      \* whether a process can be killed

VARIABLES
  phase,      \* of each user: "away", "working" in transform(), "complete"
              \* when it has returned, "over" with the file no longer read
  open,       \* the users with an open handle
  lost        \* the users with a handle that nobody will close

vars == <<phase, open, lost>>

Init ==
  /\ phase = [u \in Users |-> "away"]
  /\ open = {} /\ lost = {}

Move(u, from, to) == phase[u] = from /\ phase' = [phase EXCEPT ![u] = to]

Enter(u) == Move(u, "away", "working") /\ UNCHANGED <<open, lost>>

Create(u) ==
  /\ phase[u] = "working" /\ u \notin open
  /\ open' = open \cup {u}
  /\ UNCHANGED <<phase, lost>>

Return(u) ==
  /\ Move(u, "working", "complete")
  /\ u \in open /\ open' = open \ {u}
  /\ UNCHANGED lost

(* An error, before the file is open or while it is: it is not open then.  *)
Fail(u) ==
  /\ Move(u, "working", "over")
  /\ open' = open \ {u}
  /\ UNCHANGED lost

Lose(u) ==
  /\ MayThrow /\ u \in open
  /\ Move(u, "working", "over")
  /\ open' = open \ {u}
  /\ lost' = lost \cup {u}

(* The request failed before transform() was called.                       *)
Skip(u) == Move(u, "away", "over") /\ UNCHANGED <<open, lost>>

Read(u) == Move(u, "complete", "over") /\ UNCHANGED <<open, lost>>

(* The request is done with.  Another process may serve the next one.      *)
Leave(u) ==
  /\ Move(u, "complete", "away") \/ Move(u, "over", "away")
  /\ lost' = lost \/ lost' = lost \ {u}
  /\ UNCHANGED open

Die(u) ==
  /\ MayDie
  /\ phase' = [phase EXCEPT ![u] = "away"]
  /\ open' = open \ {u} /\ lost' = lost \ {u}

Next ==
  \E u \in Users :
     \/ Enter(u) \/ Create(u) \/ Return(u) \/ Fail(u) \/ Lose(u)
     \/ Skip(u) \/ Read(u) \/ Leave(u) \/ Die(u)

Spec == Init /\ [][Next]_vars
=============================================================================
