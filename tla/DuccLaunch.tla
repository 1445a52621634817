----------------------------- MODULE DuccLaunch -----------------------------
(***************************************************************************)
(* What a launch promises, in the terms of spec.md (4.3, 4.4, 4.6 and 8),  *)
(* with every step of main() hidden: the launcher either fails, or once    *)
(* and for all becomes the command, with an identity the request allows    *)
(* and its standard streams bound to the destination the request chooses, *)
(* inheriting the environment with its library path variable renamed.     *)
(***************************************************************************)
CONSTANTS Root, Ducc, Users, NULL,
          Unset,          \* the listener variable is not set
          Translated(_)   \* the environment 4.5 prescribes for a given one

VARIABLES
  req,        \* the inputs of the run (as in DuccLing), never changed
  phase,      \* "setup", "failed" or "launched"
  runAs,      \* [uid, gid] of the launched command
  streams,    \* [in, out, err]: what fds 0, 1, 2 of the command refer to
  environ,    \* the environment the launcher received, never changed
  cmdEnv      \* the environment of the launched command

avars == <<req, phase, runAs, streams, environ, cmdEnv>>

\* The caller is the trusted account, so ids are switched (4.3, steps 1-3).
TrustedCaller(r) == r.duccExists /\ r.caller = Ducc

(* The identities the command may run as (4.3, 8): the target user when    *)
(* the trusted account switches, or the trusted account itself when the    *)
(* switch fails ("running as the trusted account ... a security-relevant   *)
(* anomaly"); a caller that is not the trusted account keeps its own.      *)
(* Never root, and nothing for an unknown or root target.                  *)
Allowed(r) ==
  IF TrustedCaller(r)
  THEN IF r.user \in Users \ {Root} THEN {r.user, Ducc} ELSE {}
  ELSE {r.caller}

(* The stream destination (4.4): a listener wins over -f; neither leaves   *)
(* the launcher's own streams.  A socket also takes stdin.                 *)
Chosen(r) ==
  CASE r.listener # Unset  -> [in |-> "sock", out |-> "sock", err |-> "sock"]
    [] r.file # NULL       -> [in |-> "agent_in", out |-> "log", err |-> "log"]
    [] OTHER               -> [in |-> "agent_in", out |-> "agent_out",
                               err |-> "agent_err"]

\* 4.6: usage errors and a root caller never launch.
Launchable(r) == r.caller # Root /\ r.user # NULL /\ ~r.badopt

Init ==
  /\ phase = "setup" /\ runAs = NULL /\ streams = NULL /\ cmdEnv = NULL

Fail ==
  /\ phase = "setup"
  /\ phase' = "failed"
  /\ UNCHANGED <<req, runAs, streams, environ, cmdEnv>>

Launch ==
  /\ phase = "setup"
  /\ Launchable(req)
  /\ phase' = "launched"
  /\ runAs' \in {[uid |-> u, gid |-> u] : u \in Allowed(req)}
  /\ streams' = Chosen(req)
  /\ cmdEnv' = Translated(environ)
  /\ UNCHANGED <<req, environ>>

Next == Fail \/ Launch

\* Setup always ends.
Spec == Init /\ [][Next]_avars /\ WF_avars(Next)
=============================================================================
