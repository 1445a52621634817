------------------------------ MODULE DuccProc ------------------------------
(***************************************************************************)
(* Process-wide state of one ducc_ling process (ducc_ling.c), shared by    *)
(* every component module: whether it still runs, its identity, its        *)
(* working directory, its descriptor table and its buffered stdout.        *)
(*                                                                         *)
(* Identities are model values.  A user's primary group is named by the   *)
(* user itself, so egid = Alice means "Alice's primary group".             *)
(*                                                                         *)
(* Output is abstracted to the kind of each stdout line: "version" (the    *)
(* 050 banner of version()), "marker" (the "0 <pid>" line of main), and    *)
(* "note" (every other status line).  stdout is a pipe to the agent, so    *)
(* stdio buffers it fully: a printed line sits in outbuf until fflush or   *)
(* exit, and is then written to whatever fd 1 refers to at that moment.    *)
(* stderr is unbuffered; its text is not modelled, only where fd 2 points. *)
(***************************************************************************)
EXTENDS Naturals, Sequences, SequencesExt

CONSTANTS
  Root,       \* uid 0
  Ducc,       \* the trusted "ducc" account
  Users,      \* every identity of the model, Root and Ducc included
  NULL        \* a NULL pointer / absent value

ASSUME {Root, Ducc} \subseteq Users /\ NULL \notin Users

VARIABLES
  status,     \* "running", "exec" (execve succeeded), "exited" (exit(1))
              \* or "crashed" (killed by a signal)
  ruid,       \* real uid
  euid,       \* effective uid
  egid,       \* effective gid
  cwd,        \* working directory, a path (sequence of names)
  fds,        \* descriptor table: fd -> what it refers to
  outbuf,     \* stdout lines printed but not yet flushed
  written     \* destination -> lines of stdout that reached it, in order

procVars == <<status, ruid, euid, egid, cwd, fds, outbuf, written>>

Fds == 0..3
\* What a descriptor can refer to: the agent's pipes, the log file, the
\* console socket.
Dests == {"agent_in", "agent_out", "agent_err", "log", "sock"}
Lines == {"version", "marker", "note"}

\* The descriptor table ducc_ling inherits from the agent.
InitFds == [f \in Fds |-> CASE f = 0 -> "agent_in"
                          [] f = 1 -> "agent_out"
                          [] f = 2 -> "agent_err"
                          [] OTHER -> "closed"]

(***************************************************************************)
(* Output helpers.  Say(L) appends the lines L to the stdio buffer.        *)
(* FlushAfter(L) prints L and then fflush(stdout): the whole buffer goes   *)
(* to the current target of fd 1.  Exit(L) prints L then exit(1), which    *)
(* flushes stdio before the process ends.                                  *)
(***************************************************************************)
Say(L) ==
  /\ outbuf' = outbuf \o L
  /\ UNCHANGED written

FlushAfter(L) ==
  /\ written' = [written EXCEPT ![fds[1]] = @ \o outbuf \o L]
  /\ outbuf' = <<>>

Exit(L) ==
  /\ FlushAfter(L)
  /\ status' = "exited"
  /\ UNCHANGED <<ruid, euid, egid, cwd, fds>>

\* n copies of a note, for handlers that print several status lines.
Notes(n) == [i \in 1..n |-> "note"]
=============================================================================
